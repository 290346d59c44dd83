------------------------------- MODULE MCShader -------------------------------
(* The shader translator, model-checked on two registers of two bits.          *)
EXTENDS ShaderLane

\* Small floats, all of them subnormal: a sign on top and a magnitude in halves.
\* Results are rounded to the nearest, ties to even; the largest float takes the
\* place of infinity.
Largest == 2 ^ (Width - 1) - 1
Minus(a) == a > Largest
Halves(a) == IF Minus(a) THEN -(a - Largest - 1) ELSE a

\* A number of quarters as a float; `minus` is the sign of a zero.
Rounded(quarters, minus) ==
    LET size == IF quarters < 0 THEN -quarters ELSE quarters
        down == size \div 2
        near == IF size % 2 = 1 THEN down + (down % 2) ELSE down
        magnitude == IF near > Largest THEN Largest ELSE near
    IN  IF quarters < 0 \/ (quarters = 0 /\ minus) THEN magnitude + Largest + 1 ELSE magnitude

SmallFAdd(a, b) == Rounded(2 * (Halves(a) + Halves(b)), Minus(a) /\ Minus(b))
SmallFMul(a, b) == Rounded(Halves(a) * Halves(b), Minus(a) # Minus(b))
SmallFFma(a, b, c) ==
    Rounded(Halves(a) * Halves(b) + 2 * Halves(c), (Minus(a) # Minus(b)) /\ Minus(c))

Plain(op) ==
    [op |-> op, rd |-> 0, ra |-> 1, rb |-> 0, rc |-> IF op \in {"iadd_imm", "iadd_reg"} THEN RZ ELSE 0,
     imm |-> 0, pg |-> PT, pg_not |-> 0, pu |-> 0, cop |-> 0, pp |-> 0, lut |-> 0,
     absolute |-> 0, negate |-> 0, extra |-> {}]

\* The operands set by the shape of the instruction, everything else plain.
With(op, changes) == {c @@ Plain(op) : c \in changes}

Guards == {[pg |-> p, pg_not |-> n] : p \in {0, PT}, n \in {0, 1}}
Tests ==
    {[pu |-> 0, cop |-> c, pp |-> 0] : c \in 1 .. 7}
    \cup {[pu |-> 1, cop |-> c, pp |-> j] : c \in {1, 2}, j \in 1 .. 3}
    \cup {[pu |-> PT, cop |-> 7, pp |-> 0]}
Modifiers == {[absolute |-> a, negate |-> n, imm |-> m] : a \in {0, 1}, n \in {0, 1}, m \in {1, 2}}
Targets == {[rd |-> r, ra |-> s] : r \in {0, 1, RZ}, s \in {0, RZ}}
Luts == {[lut |-> l, imm |-> 2] : l \in {23, 128, 150, 202, 254}}
Poisoned == {[extra |-> {b}] : b \in {72, 73, 77, 80}}
Bad == {[ra |-> 254], [rd |-> 254]}

Honest ==
    With("iadd_imm", Modifiers \cup {g @@ t : g \in Guards, t \in Tests})
    \cup With("iadd_reg", Targets \cup Guards \cup {[absolute |-> 1, negate |-> 1, rb |-> 1, ra |-> 0]})
    \cup With("imad_imm", {[rc |-> r, imm |-> m] : r \in {0, RZ}, m \in {2, 3}} \cup Tests)
    \cup With("lop3_imm", {l @@ t : l \in Luts, t \in {[cop |-> 0], [pu |-> 1, cop |-> 3]}})
    \cup With("fadd_imm", Modifiers) \cup With("ffma_imm", Modifiers)
    \cup With("mov_imm", {g @@ [imm |-> m] : g \in Guards, m \in {1, 2}})
    \cup With("sel_imm", {[pp |-> p, imm |-> 2] : p \in {0, 1, PT}})
    \cup With("al2p", {[imm |-> 3]})
    \cup With("ldg", {[imm |-> 1], [imm |-> 1, cop |-> 5, pu |-> 1]}) \cup With("lds", {[imm |-> 1]})
    \cup With("stg", {g @@ [rb |-> 0, cop |-> c] : g \in Guards, c \in {0, 2}})
    \cup With("sts", {g @@ [rb |-> 0, imm |-> 1] : g \in Guards})
    \cup With("kill_real", Guards) \cup With("exit", Guards) \cup With("nop", Guards)

Refusals ==
    UNION {With(op, Poisoned \cup Bad) : op \in {"iadd_imm", "fadd_imm", "ffma_imm", "imad_imm",
                                                 "lop3_imm", "mov_imm", "ldg", "sts"}}
    \cup With("iadd_imm", {[rc |-> 1], [cop |-> 1, pp |-> 5]})
    \cup With("sts", {[extra |-> {73, 74}]})
    \cup {Plain("bra")}

Unknown == {Plain("iadd3_reg"), Plain("iadd32i"), Plain("kill")}

AllInstructions == Honest \cup Refusals \cup Unknown
Builders == {Plain(op) : op \in DOMAIN Opcode}
===============================================================================
