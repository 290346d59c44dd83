------------------------------- MODULE SassLane -------------------------------
(* What one lane of a shader is meant to do: an instruction whose guard is     *)
(* false does nothing, arithmetic is on two's complement integers, predicates  *)
(* are a set of the true ones. The instructions mean what the builders of the  *)
(* tests and the comments of the handlers say of them: ffma is fused           *)
(* (sm86.rs:1373), lop3 looks its bits up in the order of sm86.rs:2806.        *)
EXTENDS Integers, FiniteSets

CONSTANTS
  Width,      (* bits of a register                                           *)
  FAdd(_, _), (* the sum of two floats, rounded, on their bit patterns        *)
  FFma(_, _, _) (* a product and a sum that are rounded once, at the end      *)

VARIABLES
  regs,    (* the registers of the lane                                       *)
  truths,  (* the predicates that are true                                    *)
  global, shared,  (* the two memories, one word per address                  *)
  state    (* running, killed                                                 *)

vars == <<regs, truths, global, shared, state>>

Modulus == 2 ^ Width
Signed(v) == IF v >= Modulus \div 2 THEN v - Modulus ELSE v
Unsigned(z) == z % Modulus
BitSet(v) == {j \in 0 .. Width - 1 : (v \div 2 ^ j) % 2 = 1}

RZ == 255
PT == 7

Reg(r) == IF r = RZ THEN 0 ELSE regs[r]
True(p) == p = PT \/ p \in truths
Guard(i) == IF i.pg_not = 1 THEN ~True(i.pg) ELSE True(i.pg)

Magnitude(z) == IF z < 0 THEN -z ELSE z
Modified(i, v) ==
    LET m == IF i.absolute = 1 THEN Magnitude(Signed(v)) ELSE Signed(v)
    IN  Unsigned(IF i.negate = 1 THEN -m ELSE m)

\* A float has its sign in the top bit.
FloatModified(i, v) ==
    LET m == IF i.absolute = 1 THEN v % (Modulus \div 2) ELSE v
    IN  IF i.negate = 1 THEN (m + Modulus \div 2) % Modulus ELSE m

\* The truth table of lop3, applied bit by bit.
Lut(i) ==
    LET In(v, j) == IF j \in BitSet(v) THEN 1 ELSE 0
        Row(j) == In(Reg(i.ra), j) + 2 * In(i.imm, j) + 4 * In(Reg(i.rc), j)
    IN  CHOOSE v \in 0 .. Modulus - 1 :
            BitSet(v) = {j \in 0 .. Width - 1 : (i.lut \div 2 ^ Row(j)) % 2 = 1}

Address(i) == Unsigned(Reg(i.ra) + i.imm)

Value(i) ==
    CASE i.op = "iadd_imm" -> Unsigned(Reg(i.ra) + Modified(i, i.imm))
      [] i.op = "iadd_reg" -> Unsigned(Reg(i.ra) + Modified(i, Reg(i.rb)))
      [] i.op = "al2p"     -> Address(i)
      [] i.op = "imad_imm" -> Unsigned(Reg(i.ra) * i.imm + Reg(i.rc))
      [] i.op = "lop3_imm" -> Lut(i)
      [] i.op = "mov_imm"  -> i.imm
      [] i.op = "sel_imm"  -> IF True(i.pp) THEN Reg(i.ra) ELSE i.imm
      [] i.op = "fadd_imm" -> FAdd(Reg(i.ra), FloatModified(i, i.imm))
      [] i.op = "ffma_imm" -> FFma(Reg(i.ra), FloatModified(i, i.imm), Reg(i.rc))
      [] i.op = "ldg"      -> global[Address(i)]
      [] i.op = "lds"      -> shared[Address(i)]

\* The comparisons with zero, in the order of their codes.
Compares(cop, z) ==
    <<FALSE, z < 0, z = 0, z <= 0, z > 0, z # 0, z >= 0, TRUE>>[cop + 1]

\* A comparison sets the predicate, or is joined to it by and, or, exclusive or.
Joined(pp, old, new) == <<new, old /\ new, old \/ new, old # new>>[pp + 1]

Tested == {"iadd_imm", "iadd_reg", "imad_imm", "lop3_imm", "ldg"}
Join(i) == IF i.op = "ldg" THEN 0 ELSE i.pp

TruthsAfter(i, v) ==
    IF i.op \notin Tested \/ i.cop = 0 \/ i.pu = PT THEN truths
    ELSE IF Joined(Join(i), i.pu \in truths, Compares(i.cop, Signed(v)))
         THEN truths \cup {i.pu}
         ELSE truths \ {i.pu}

Stores == {"stg", "sts"}
Ends == {"exit", "kill_real"}
Silent == {"nop"}

Compute(i) ==
    /\ i.op \notin Stores \cup Ends \cup Silent
    /\ Guard(i)
    /\ regs' = IF i.rd = RZ THEN regs ELSE [regs EXCEPT ![i.rd] = Value(i)]
    /\ truths' = TruthsAfter(i, Value(i))
    /\ UNCHANGED <<global, shared, state>>

Store(i) ==
    /\ i.op \in Stores
    /\ Guard(i)
    /\ IF i.op = "stg"
       THEN global' = [global EXCEPT ![Address(i)] = Reg(i.rb)] /\ UNCHANGED shared
       ELSE shared' = [shared EXCEPT ![Address(i)] = Reg(i.rb)] /\ UNCHANGED global
    /\ UNCHANGED <<regs, truths, state>>

End(i) ==
    /\ i.op \in Ends
    /\ Guard(i)
    /\ state' = "killed"
    /\ UNCHANGED <<regs, truths, global, shared>>

Skip(i) ==
    /\ i.op \in Silent \/ ~Guard(i)
    /\ UNCHANGED vars

Execute(i) == Compute(i) \/ Store(i) \/ End(i) \/ Skip(i)

\* The instructions whose translation keeps to this when they are guarded: the
\* guard is true and not also the predicate the instruction sets, or all it
\* can change is a register.
SetsPredicate(i) == i.cop # 0 /\ i.pu # PT /\ i.op \in Tested
Unguarded(i) == i.op = "exit" \/ i.op \in Stores
WellGuarded(i) ==
    IF Guard(i)
    THEN ~(SetsPredicate(i) /\ i.pu = i.pg) /\ ~(i.op = "stg" /\ i.cop # 0 /\ i.pg # PT)
    ELSE ~SetsPredicate(i) /\ ~Unguarded(i)
===============================================================================
