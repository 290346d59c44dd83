------------------------------- MODULE BigUint -------------------------------
(***************************************************************************)
(* The numbers of core/src/security/rsa.rs: sequences of limbs, the lowest *)
(* first, that have no leading zero limb, zero being <<0>>.  Comparison    *)
(* and bit length rely on that; every operation has to restore it.         *)
(***************************************************************************)
EXTENDS Integers, Sequences

CONSTANTS ByteBits, LimbBytes   \* 8 and 4

ASSUME LimbAssumption == ByteBits \in Nat \ {0, 1} /\ LimbBytes \in Nat \ {0}

(* What a shift by so many bits multiplies or divides by.                   *)
TwoTo[n \in Nat] == IF n = 0 THEN 1 ELSE 2 * TwoTo[n - 1]

LimbBits == ByteBits * LimbBytes
Base == TwoTo[LimbBits]
Digits == 0 .. Base - 1

Zero == <<0>>
One == <<1>>

Limb(a, i) == IF i \in DOMAIN a THEN a[i] ELSE 0

(* "Strip leading zeros", down to one limb.                                 *)
Kept(limbs) ==
  LET kept[i \in 0 .. Len(limbs)] == IF i <= 1 \/ limbs[i] # 0 THEN i ELSE kept[i - 1]
  IN kept

Trimmed(limbs) == SubSeq(limbs, 1, Kept(limbs)[Len(limbs)])

Canonical(a) == a # <<>> /\ a = Trimmed(a)

Numbers == {a \in Seq(Digits) : Canonical(a)}

(* The number meant by the lowest i limbs, and by all: the reference for    *)
(* everything below.                                                        *)
Low(a) ==
  LET low[i \in Nat] ==
        IF i = 0 THEN 0 ELSE low[i - 1] + Limb(a, i) * TwoTo[LimbBits * (i - 1)]
  IN low

Value(a) == Low(a)[Len(a)]

(* Bytes are given with the highest first, and leading zeros are skipped.   *)
ByteAt(bytes, place) == bytes[Len(bytes) + 1 - place]

Significant(bytes) ==
  LET length[i \in 0 .. Len(bytes)] ==
        IF i = 0 \/ ByteAt(bytes, i) # 0 THEN i ELSE length[i - 1]
  IN length

(* A limb of its lowest bytes: the top one may be partly filled.            *)
Word(bytes, length, limb) ==
  LET word[i \in 0 .. LimbBytes] ==
        IF i = 0 THEN 0
        ELSE LET place == (limb - 1) * LimbBytes + i
             IN word[i - 1] + (IF place > length THEN 0
                               ELSE ByteAt(bytes, place) * TwoTo[ByteBits * (i - 1)])
  IN word

FromBytes(bytes) ==
  LET length == Significant(bytes)[Len(bytes)]
  IN IF length = 0 THEN Zero
     ELSE [limb \in 1 .. (length + LimbBytes - 1) \div LimbBytes |->
             Word(bytes, length, limb)[LimbBytes]]

(* The lowest `count` bytes.                                                *)
ToBytes(a, count) ==
  [i \in 1 .. count |->
     LET place == count - i
     IN (Limb(a, place \div LimbBytes + 1) \div TwoTo[ByteBits * (place % LimbBytes)])
          % TwoTo[ByteBits]]

BitsIn(limb) == CHOOSE n \in 0 .. LimbBits : limb < TwoTo[n] /\ (n > 0 => TwoTo[n - 1] <= limb)

BitLen(a) ==
  LET top == a[Len(a)]
  IN IF top = 0 THEN 0 ELSE (Len(a) - 1) * LimbBits + BitsIn(top)

Bit(a, i) == (a[i \div LimbBits + 1] \div TwoTo[i % LimbBits]) % 2

Ge(a, b) ==
  LET ge[i \in 0 .. Len(a)] == i = 0 \/ a[i] > b[i] \/ (a[i] = b[i] /\ ge[i - 1])
  IN IF Len(a) # Len(b) THEN Len(a) > Len(b) ELSE ge[Len(a)]

(* Callers see to it that a >= b.                                           *)
Borrows(a, b) ==
  LET borrow[i \in 0 .. Len(a)] ==
        IF i > 0 /\ a[i] < Limb(b, i) + borrow[i - 1] THEN 1 ELSE 0
  IN borrow

SubAssign(a, b) ==
  LET borrow == Borrows(a, b)
  IN Trimmed([i \in 1 .. Len(a) |-> (a[i] - Limb(b, i) - borrow[i - 1]) % Base])

WithCarry(limbs, carry) == limbs \o (IF carry = 0 THEN <<>> ELSE <<carry>>)

(* What is carried into each place, when these are the sums there.          *)
Carries(sums) ==
  LET carry[i \in 0 .. Len(sums)] == IF i = 0 THEN 0 ELSE (sums[i] + carry[i - 1]) \div Base
  IN carry

Carried(sums) ==
  LET carry == Carries(sums)
  IN WithCarry([i \in 1 .. Len(sums) |-> (sums[i] + carry[i - 1]) % Base], carry[Len(sums)])

MulScalar(a, scalar) ==
  IF scalar = 0 THEN Zero ELSE Carried([i \in 1 .. Len(a) |-> a[i] * scalar])

(* a + b * Base^shift.                                                      *)
AddShifted(a, b, shift) ==
  LET width == IF Len(a) < shift + Len(b) THEN shift + Len(b) ELSE Len(a)
  IN Carried([i \in 1 .. width |-> Limb(a, i) + Limb(b, i - shift)])

Products(a, b) ==
  LET sum[i \in 0 .. Len(a)] ==
        IF i = 0 THEN Zero
        ELSE IF a[i] = 0 THEN sum[i - 1]
        ELSE AddShifted(sum[i - 1], MulScalar(b, a[i]), i - 1)
  IN sum

Mul(a, b) == IF a = Zero \/ b = Zero THEN Zero ELSE Products(a, b)[Len(a)]

(* The quotient of shr_bits; no caller takes the remainder.                 *)
ShrBits(a, bits) ==
  LET words == bits \div LimbBits
      shift == bits % LimbBits
      Part(i) == (a[i] \div TwoTo[shift]) + ((Limb(a, i + 1) * TwoTo[LimbBits - shift]) % Base)
  IN IF words >= Len(a) THEN Zero
     ELSE Trimmed([i \in 1 .. Len(a) - words |-> Part(i + words)])

ShiftLeft(a, bits) ==
  LET words == bits \div LimbBits
      shift == bits % LimbBits
  IN Trimmed([i \in 1 .. Len(a) + words + 1 |->
                ((Limb(a, i - words) * TwoTo[shift]) % Base)
                  + (Limb(a, i - words - 1) \div TwoTo[LimbBits - shift])])

(* One bit of a quotient.                                                   *)
DivideBit(bit, b, before) ==
  LET shifted == ShiftLeft(b, bit)
  IN IF Ge(before.remainder, shifted)
     THEN [remainder |-> SubAssign(before.remainder, shifted),
           quotient |-> [before.quotient EXCEPT ![bit \div LimbBits + 1] =
                           @ + TwoTo[bit % LimbBits]]]
     ELSE before

(* Binary long division: what is left, and the quotient, when the highest   *)
(* i bits are decided.  A divisor of zero panics.                           *)
Divisions(a, b) ==
  LET shift == BitLen(a) - BitLen(b)
      state[i \in 0 .. shift + 1] ==
        IF i = 0
        THEN [remainder |-> a, quotient |-> [limb \in 1 .. shift \div LimbBits + 1 |-> 0]]
        ELSE DivideBit((shift + 1) - i, b, state[i - 1])
  IN state

DivFloor(a, b) ==
  IF ~Ge(a, b) THEN Zero
  ELSE Trimmed(Divisions(a, b)[BitLen(a) - BitLen(b) + 1].quotient)

DivMod(a, b) ==
  [quotient |-> DivFloor(a, b), rest |-> SubAssign(a, Mul(DivFloor(a, b), b))]

(* Subtract n until what is left is below it.                               *)
Reduced(a, n) ==
  LET rest[r \in Numbers] == IF Ge(r, n) THEN rest[SubAssign(r, n)] ELSE r
  IN rest[a]
-----------------------------------------------------------------------------
(* Barrett reduction.                                                       *)

KBits(n) == ((BitLen(n) + ByteBits - 1) \div ByteBits) * ByteBits

PowerOfTwo(bits) ==
  [i \in 1 .. bits \div LimbBits + 1 |->
     IF i = bits \div LimbBits + 1 THEN TwoTo[bits % LimbBits] ELSE 0]

(* Mutant: mu is made from one bit less than twice the length.              *)
BarrettMuShort(n, kBits) == DivFloor(PowerOfTwo(2 * kBits - 1), n)

BarrettMu(n, kBits) == DivFloor(PowerOfTwo(2 * kBits), n)

QHat(a, kBits, mu) == ShrBits(Mul(a, mu), 2 * kBits)

BarrettModWithMu(a, n, kBits, mu) ==
  LET qn == Mul(QHat(a, kBits, mu), n)
  IN IF ~Ge(a, n) THEN a
     ELSE IF Ge(a, qn) THEN Reduced(SubAssign(a, qn), n) ELSE Reduced(a, n)

BarrettMod(a, n) == BarrettModWithMu(a, n, KBits(n), BarrettMu(n, KBits(n)))
=============================================================================
