------------------------------ MODULE ShaderLane ------------------------------
(* The shader translator (gpu/sm86.rs), seen through the code it emits: each   *)
(* instruction is fetched, decoded by the dispatch table, and the operations   *)
(* its handler emits are carried out for one lane. Translation and execution   *)
(* are one step because the emitted code is straight-line. The operations are  *)
(* those of SPIR-V on unsigned words; the predicates are the byte pred of the  *)
(* abstract state.                                                             *)
(*                                                                             *)
(* Left out: the ids, types and words of the SPIR-V module, and the cache of   *)
(* constants (const_cache), which change no value of the lane.                 *)
EXTENDS SassDecoder, Bitwise

CONSTANTS
  Width,        (* bits of a register: 32                                      *)
  Instructions, (* the instructions a shader is made of                        *)
  MaxSteps,     (* bound on the length of a shader                             *)
  FAdd(_, _), FMul(_, _), (* OpFAdd and OpFMul on bit patterns: external        *)
  FFma(_, _, _)           (* a sum and product rounded once: no handler emits it *)

ASSUME LaneAssumption == Width \in 1 .. 24 /\ MaxSteps \in Nat

VARIABLES
  regs,    (* abstract_state.regs: only the registers the instructions use     *)
  preds,   (* abstract_state.pred: bit p is predicate p                        *)
  global, shared,  (* var_global_memory and var_shared_memory                  *)
  state,   (* running, killed (OpKill was reached), panicked (the handler      *)
           (* refused the instruction, there is no shader)                     *)
  inst,    (* the instruction fetched and not yet translated, or NoInst        *)
  decoded, (* its handler, source form and operand fields                      *)
  steps

vars == <<regs, preds, global, shared, state, inst, decoded, steps>>

Words == 0 .. 2 ^ Width - 1
Regs == {0, 1}
NoInst == <<>>

RZ == 255
PT == 7
MAX_REG_COUNT == 254
Ones == 2 ^ Width - 1
NotWord(v) == Ones - v
Wrap(z) == z % 2 ^ Width
SignBit(v) == shiftR(v, Width - 1)

\* Every instruction as the translator sees it: the handler, the source form,
\* the operand fields.
Decoded ==
    [i \in Instructions |->
        LET word == Assemble(i)
            handler == Handler(word)
        IN  [handler |-> handler, form |-> SourceForm(word),
             x |-> IF handler = "none" THEN <<>> ELSE Operands(word, handler)]]

x == decoded.x

Init ==
    /\ regs \in [Regs -> Words]
    /\ preds \in 0 .. 3
    /\ global = [a \in Words |-> Wrap(3 * a + 1)]
    /\ shared = [a \in Words |-> Wrap(2 - a)]
    /\ state = "running" /\ inst = NoInst /\ decoded = NoInst /\ steps = 0

-----------------------------------------------------------------------------
(* Registers and predicates.                                                *)

LoadRegister(r) == IF r = RZ THEN 0 ELSE regs[r]

PredicateBit(byte, p) == shiftR(byte, p) & 1

\* Mutant: the inversion of the guard is forgotten.
LoadPredicateMaskPlain(byte, p, invert) ==
    IF p = PT THEN Ones ELSE Wrap(0 - PredicateBit(byte, p))

\* All ones when predicate p (PT: always) holds, complemented by `invert`.
LoadPredicateMask(byte, p, invert) ==
    LET mask == IF p = PT THEN Ones ELSE Wrap(0 - PredicateBit(byte, p))
    IN  IF invert = 1 THEN NotWord(mask) ELSE mask

SelectMasked(mask, ifTrue, ifFalse) == (ifTrue & mask) | (ifFalse & NotWord(mask))

StoreRegisterPredicated(byte, r, p, invert, value) ==
    IF r = RZ THEN regs
    ELSE [regs EXCEPT ![r] = SelectMasked(LoadPredicateMask(byte, p, invert), value, @)]

\* Mutant: greater-than as not-less-than.
CmpAgainstZeroLoose(cop, value) ==
    LET sign == SignBit(value)
        nonzero == SignBit(value | Wrap(0 - value))
    IN  <<0, sign, 1 - nonzero, sign | (1 - nonzero), 1 - sign, nonzero, 1 - sign, 1>>[cop + 1]

\* 0 or 1: the comparison of a word with zero, 0=F 1=LT 2=EQ 3=LE 4=GT 5=NE 6=GE 7=T.
CmpAgainstZero(cop, value) ==
    LET sign == SignBit(value)
        nonzero == SignBit(value | Wrap(0 - value))
    IN  <<0, sign, 1 - nonzero, sign | (1 - nonzero), 1 - (sign | (1 - nonzero)),
          nonzero, 1 - sign, 1>>[cop + 1]

CombineBit(pp, old, bit) == <<bit, old & bit, old | bit, old ^^ bit>>[pp + 1]

\* Mutant: the always-true predicate is written too.
CombineAndSetPredicateBitAny(byte, p, pp, bit) ==
    (byte & (255 - 2 ^ p)) | (CombineBit(pp, PredicateBit(byte, p), bit) * 2 ^ p)

\* Mutant: the byte is replaced, not updated.
CombineAndSetPredicateBitAlone(byte, p, pp, bit) ==
    IF p = PT THEN byte
    ELSE CombineBit(pp, PredicateBit(byte, p), bit) * 2 ^ p

CombineAndSetPredicateBit(byte, p, pp, bit) ==
    IF p = PT THEN byte
    ELSE LET combined == CombineBit(pp, PredicateBit(byte, p), bit)
         IN  (byte & (255 - 2 ^ p)) | (combined * 2 ^ p)

-----------------------------------------------------------------------------
(* The values the handlers compute.                                         *)

IntModified(absolute, negate, b) ==
    LET mask == Wrap(0 - SignBit(b))
        positive == IF absolute = 1 THEN Wrap((b ^^ mask) - mask) ELSE b
    IN  IF negate = 1 THEN Wrap(0 - positive) ELSE positive

\* Absolute clears the sign bit, OpFNegate flips it.
FloatModified(absolute, negate, b) ==
    LET top == 2 ^ (Width - 1)
        positive == IF absolute = 1 THEN b & (top - 1) ELSE b
    IN  IF negate = 1 THEN positive ^^ top ELSE positive

Al2p == Wrap(LoadRegister(x.ra) + x.ra_offset)

Fadd == FAdd(LoadRegister(x.ra), FloatModified(x.sc_absolute, x.sc_negate, x.sc_addr))

\* Two operations, each of which rounds.
Ffma ==
    FAdd(FMul(LoadRegister(x.ra), FloatModified(x.sc_abs_b, x.sc_neg_b, x.sc_addr)),
         FloatModified(x.sc_abs_c, x.sc_neg_c, LoadRegister(x.rc)))

Iadd ==
    LET b == IF decoded.form = 4 THEN x.ra_offset ELSE LoadRegister(x.rb)
    IN  Wrap(LoadRegister(x.ra) + IntModified(x.sc_absolute, x.sc_negate, b))

Imad == Wrap(LoadRegister(x.ra) * x.sc_addr + LoadRegister(x.rc))

\* The minterms of the truth table, one per bit of imm8 that is set.
Lop3 ==
    LET a == LoadRegister(x.ra)
        b == x.ra_offset
        c == LoadRegister(x.rc)
        Pick(bit, v) == IF bit = 1 THEN v ELSE NotWord(v)
        Minterm(i) ==
            Pick(i % 2, a) & Pick((i \div 2) % 2, b) & Pick(i \div 4, c)
    IN  FoldSet(LAMBDA i, acc : acc | Minterm(i), 0,
                {i \in 0 .. 7 : (x.imm8 \div 2 ^ i) % 2 = 1})

Mov == x.sc_addr

Sel ==
    SelectMasked(LoadPredicateMask(preds, x.pp, 0), LoadRegister(x.ra), x.sc_addr)

Address == Wrap(LoadRegister(x.ra) + x.ra_offset)
Ldg == global[Address]
Lds == shared[Address]

Computing == {"al2p", "fadd", "ffma", "iadd", "imad", "lop", "mov", "sel", "ldg", "lds"}
Testing == {"iadd", "imad", "lop", "ldg"}

Result ==
    CASE decoded.handler = "al2p" -> Al2p [] decoded.handler = "fadd" -> Fadd
      [] decoded.handler = "ffma" -> Ffma [] decoded.handler = "iadd" -> Iadd
      [] decoded.handler = "imad" -> Imad [] decoded.handler = "lop"  -> Lop3
      [] decoded.handler = "mov"  -> Mov  [] decoded.handler = "sel"  -> Sel
      [] decoded.handler = "ldg"  -> Ldg  [] decoded.handler = "lds"  -> Lds

-----------------------------------------------------------------------------
(* What the handlers accept. Handlers not named here end in todo!().        *)

\* The registers a handler loads: one beyond the register file panics.
Sources ==
    [al2p |-> {"ra", "rd"}, fadd |-> {"ra", "rd"}, ffma |-> {"ra", "rc", "rd"},
     iadd |-> {"ra", "rd"}, imad |-> {"ra", "rc", "rd"}, lop |-> {"ra", "rc", "rd"},
     mov |-> {"rd"}, sel |-> {"ra", "rd"}, ldg |-> {"ra", "rd"}, lds |-> {"ra", "rd"},
     stg |-> {"ra", "rb"}, sts |-> {"ra", "rb"}, kill |-> {}, exit |-> {}, nop |-> {}]

Implemented == DOMAIN Sources

\* The fields a handler asserts to be zero.
AssertedZero ==
    [al2p |-> {"bop"}, fadd |-> {"e", "sz", "satfinite", "ftz", "sc_bank"},
     ffma |-> {"e", "sz", "satfinite", "fmz", "sc_bank"}, iadd |-> {"e"},
     imad |-> {"sz", "sc_absolute", "sc_negate", "sc_bank"}, lop |-> {"ftz"},
     mov |-> {"sc_bank", "pixmasku04"}, sel |-> {"sc_bank"}, ldg |-> {"e", "mem"},
     lds |-> {"stride"}, stg |-> {"e", "mem"}, sts |-> {"stride"},
     kill |-> {}, exit |-> {}, nop |-> {}]

InRegisterFile(r) == r < MAX_REG_COUNT \/ r = RZ

Accepted ==
    /\ decoded.handler \in Implemented
    /\ \A f \in AssertedZero[decoded.handler] : x[f] = 0
    /\ \A f \in Sources[decoded.handler] : InRegisterFile(x[f])
    /\ decoded.handler \in {"ldg", "lds", "stg", "sts"} => x.sz <= 2
    /\ decoded.handler = "iadd" => x.rc = RZ /\ decoded.form \in {1, 4}
    /\ decoded.handler = "iadd" /\ decoded.form = 1 => InRegisterFile(x.rb)
    /\ decoded.handler \in {"iadd", "imad", "lop"} /\ x.cop # 0 /\ x.pu # PT => x.pp <= 3

-----------------------------------------------------------------------------
(* One action per kind of handler.                                          *)

Fetch ==
    /\ state = "running" /\ inst = NoInst /\ steps < MaxSteps
    /\ \E i \in Instructions : inst' = i /\ decoded' = Decoded[i]
    /\ UNCHANGED <<regs, preds, global, shared, state, steps>>

Translating(handlers) ==
    /\ inst # NoInst
    /\ decoded.handler \in handlers
    /\ Accepted
    /\ inst' = NoInst /\ decoded' = NoInst /\ steps' = steps + 1

\* The join of ldg is always SET.
PredsAfter ==
    IF decoded.handler \in Testing /\ x.cop # 0
    THEN CombineAndSetPredicateBit(preds, x.pu, IF decoded.handler = "ldg" THEN 0 ELSE x.pp,
                                   CmpAgainstZero(x.cop, Result))
    ELSE preds

\* The predicate is written first: the guard of the register store is read from
\* the byte that the instruction itself has changed.
Compute ==
    /\ Translating(Computing)
    /\ preds' = PredsAfter
    /\ regs' = StoreRegisterPredicated(PredsAfter, x.rd, x.pg, x.pg_not, Result)
    /\ UNCHANGED <<global, shared, state>>

\* The store does not look at the guard; a comparison writes the guard's predicate.
Stg ==
    /\ Translating({"stg"})
    /\ global' = [global EXCEPT ![Address] = LoadRegister(x.rb)]
    /\ preds' = IF x.cop # 0
                THEN CombineAndSetPredicateBit(preds, x.pg, 0,
                                               CmpAgainstZero(x.cop, LoadRegister(x.rb)))
                ELSE preds
    /\ UNCHANGED <<regs, shared, state>>

Sts ==
    /\ Translating({"sts"})
    /\ shared' = [shared EXCEPT ![Address] = LoadRegister(x.rb)]
    /\ UNCHANGED <<regs, preds, global, state>>

Exit ==
    /\ Translating({"exit"})
    /\ state' = "killed"
    /\ UNCHANGED <<regs, preds, global, shared>>

Kill ==
    /\ Translating({"kill"})
    /\ state' = IF LoadPredicateMask(preds, x.pg, x.pg_not) # 0 THEN "killed" ELSE state
    /\ UNCHANGED <<regs, preds, global, shared>>

Nop ==
    /\ Translating({"nop"})
    /\ UNCHANGED <<regs, preds, global, shared, state>>

\* No row of the dispatch table has the key: nothing is emitted.
Dropped ==
    /\ inst # NoInst /\ decoded.handler = "none"
    /\ inst' = NoInst /\ decoded' = NoInst /\ steps' = steps + 1
    /\ UNCHANGED <<regs, preds, global, shared, state>>

Panic ==
    /\ inst # NoInst /\ decoded.handler # "none" /\ ~Accepted
    /\ state' = "panicked" /\ inst' = NoInst /\ decoded' = NoInst
    /\ UNCHANGED <<regs, preds, global, shared, steps>>

Next == Fetch \/ Compute \/ Stg \/ Sts \/ Exit \/ Kill \/ Nop \/ Dropped \/ Panic

Spec == Init /\ [][Next]_vars

-----------------------------------------------------------------------------
TypeOK ==
    /\ regs \in [Regs -> Words]
    /\ preds \in 0 .. 127
    /\ global \in [Words -> Words] /\ shared \in [Words -> Words]
    /\ state \in {"running", "killed", "panicked"}
    /\ inst \in Instructions \cup {NoInst} /\ (inst = NoInst <=> decoded = NoInst)
    /\ steps \in 0 .. MaxSteps

Isa ==
    INSTANCE SassLane WITH truths <- {p \in 0 .. 6 : (preds \div 2 ^ p) % 2 = 1}

\* Whatever is fetched first, what its handler reads under one name cannot depend
\* on another name, nor on the key that chose the handler: no field of any of the
\* 201 handlers overlaps another (the extraction lines, sm86.rs:569-4449).
OperandsDoNotOverlap ==
    inst = NoInst /\ steps = 0 => \A handler \in DOMAIN Layout : FieldsApart(handler)

\* What the tests can ask of a translation: a key of the table, registers of the
\* register file, and no operand the handlers assert away.
Supported(i) ==
    /\ i.op \in (DOMAIN Opcode \cup DOMAIN OtherOpcode) \ {"kill", "iadd3_reg", "iadd32i", "bra"}
    /\ i.extra = {}
    /\ {i.rd, i.ra, i.rb, i.rc} \subseteq Regs \cup {RZ}
    /\ i.op \in {"iadd_imm", "iadd_reg"} => i.rc = RZ
    /\ Isa!SetsPredicate(i) /\ i.op # "ldg" => i.pp <= 3

\* The two roundings of an emitted ffma show: its result is not that of a fused one.
RoundsTwice(i) ==
    /\ i.op = "ffma_imm"
    /\ LET b == Isa!FloatModified(i, i.imm)
       IN  FAdd(FMul(LoadRegister(i.ra), b), LoadRegister(i.rc))
           # FFma(LoadRegister(i.ra), b, LoadRegister(i.rc))

\* Every supported instruction does to the lane what it means, refuses nothing and
\* runs past no end: the branchless masks, the sign-bit comparisons, the truth
\* table by minterms and the predicate byte implement the guarded instruction on
\* integers and sets. It excludes what the code gets wrong: guarded instructions
\* (store_register_predicated after the predicate, exit, stg, sts; sm86.rs:481-563),
\* and an ffma whose rounded product shows (RoundsTwice).
StepIsIsa ==
    [][inst # NoInst /\ Supported(inst) /\ Isa!WellGuarded(inst) /\ ~RoundsTwice(inst)
       => Isa!Execute(inst)]_vars

\* A register changes under a false guard only when the instruction sets that very
\* predicate first: the one way the order of the two writes shows in a register.
GuardedOffKeepsRegisters ==
    [][inst # NoInst /\ Supported(inst) /\ ~Isa!Guard(inst) /\ regs' # regs
       => Isa!SetsPredicate(inst) /\ inst.pu = inst.pg]_vars

\* A predicate changes only when an instruction names it as the one to set (stg: as
\* its guard): the read-modify-write of the byte never disturbs a neighbour.
PredicatesIsolated ==
    [][\A p \in 0 .. 7 :
          PredicateBit(preds', p) # PredicateBit(preds, p)
          => inst.cop # 0 /\ p = IF inst.op = "stg" THEN inst.pg ELSE inst.pu]_vars

\* What the builders of the tests say: each word they build is an instruction of
\* the translator (gpu_test.rs:35, "iadd3 ... (opcode=0x510, variant 0x1510 via
\* bit91)", and likewise iadd32i and kill).
HelpersReachHandlers ==
    inst # NoInst /\ inst.op \in DOMAIN Opcode => decoded.handler # "none"
===============================================================================
