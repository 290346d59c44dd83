------------------------------- MODULE RsaLoops -------------------------------
(***************************************************************************)
(* The loops of core/src/security/rsa.rs, a round at a time: mod_pow,      *)
(* mod_inverse, find_prime, and RsaPrivateKey::sign followed by            *)
(* RsaPublicKey::verify.  A digest stands for the message it is of.        *)
(***************************************************************************)
EXTENDS BigUint

CONSTANTS
  Questions,       \* numbers asked for: see RsaNumbers
  Key,             \* n, e, d, as numbers
  EmLength,        \* bytes of the modulus: 256
  MinPadding,      \* 8
  DigestPrefix,    \* SHA256_DIGEST_INFO_PREFIX
  SmallPrimes, Bases   \* of miller_rabin: ten primes, five bases

VARIABLES question, answer,
          round,    \* "new", "power", "inverse", "prime", "verify" or "done"
          power,    \* mod_pow: base, exponent, modulus, result, and the bits left
          euclid,   \* mod_inverse: r0, r1, s0, s1
          candidate \* find_prime

rsaVars == <<question, answer, round, power, euclid, candidate>>

Idle == <<>>

None == -1

(* Callers have numbers as bytes, as many as the modulus has.                *)
FromNumber(number) ==
  FromBytes([i \in 1 .. EmLength |->
               (number \div TwoTo[ByteBits * (EmLength - i)]) % TwoTo[ByteBits]])

InBytes(number) == number \in 0 .. TwoTo[ByteBits * EmLength] - 1

Modulus == FromNumber(question.modulus)
-----------------------------------------------------------------------------
(* PKCS#1 v1.5. *)

FF == TwoTo[ByteBits] - 1

EmsaPkcs1V15Encode(digest) ==
  LET t == DigestPrefix \o digest
  IN <<0, 1>> \o [i \in 1 .. EmLength - Len(t) - 3 |-> FF] \o <<0>> \o t

(* The separator is the first zero after the block type.                    *)
VerifyEm(em, digest) ==
  LET zeros == {i \in 3 .. Len(em) : em[i] = 0}
      separator == CHOOSE i \in zeros : \A j \in zeros : i <= j
      start == separator + 1
      hash == start + Len(DigestPrefix)
  IN IF em[1] # 0 \/ em[2] # 1 \/ zeros = {} THEN "InvalidPadding"
     ELSE IF separator - 3 < MinPadding \/ \E i \in 3 .. separator - 1 : em[i] # FF
     THEN "InvalidPadding"
     ELSE IF Len(em) - separator < Len(DigestPrefix) + Len(digest) THEN "InvalidSignature"
     ELSE IF SubSeq(em, start, hash - 1) # DigestPrefix \/ SubSeq(em, hash, hash + Len(digest) - 1) # digest
     THEN "DigestMismatch"
     ELSE "Ok"
-----------------------------------------------------------------------------
(* mod_pow *)

StartPower(base, exponent, modulus) ==
  [base |-> base, exponent |-> exponent, modulus |-> modulus,
   result |-> IF modulus = One THEN Zero ELSE One,
   left |-> IF modulus = One THEN 0 ELSE BitLen(exponent)]

(* One round of the loop: square, and multiply when the bit is set.         *)
PowerRound(p) ==
  LET kBits == KBits(p.modulus)
      mu == BarrettMu(p.modulus, kBits)
      square == BarrettModWithMu(Mul(p.result, p.result), p.modulus, kBits, mu)
  IN [p EXCEPT !.left = @ - 1,
        !.result = IF Bit(p.exponent, p.left - 1) = 0 THEN square
                   ELSE BarrettModWithMu(Mul(square, p.base), p.modulus, kBits, mu)]

ModPow(base, exponent, modulus) ==
  LET start == StartPower(base, exponent, modulus)
      after[i \in 0 .. start.left] == IF i = 0 THEN start ELSE PowerRound(after[i - 1])
  IN after[start.left].result
-----------------------------------------------------------------------------
(* miller_rabin *)

(* n - 1 = 2^s * d; the squares of x = base^d, from the second round on,    *)
(* meet n - 1 before 1.                                                     *)
Witnesses(base, n) ==
  LET minusOne == SubAssign(n, One)
      halved[i \in Nat] == IF i = 0 THEN minusOne ELSE ShrBits(halved[i - 1], 1)
      s == CHOOSE i \in 0 .. BitLen(n) :
             halved[i][1] % 2 = 1 /\ \A j \in 0 .. i - 1 : halved[j][1] % 2 = 0
      x == ModPow(base, halved[s], n)
      square[i \in 0 .. s] ==
        IF i = 0 THEN x ELSE LET y == square[i - 1] IN BarrettMod(Mul(y, y), n)
  IN /\ ~Ge(base, n)
     /\ x # One /\ x # minusOne
     /\ ~\E i \in 1 .. s - 1 : square[i] = minusOne /\ \A j \in 1 .. i - 1 : square[j] # One

MillerRabin(n) ==
  LET dividing == {p \in SmallPrimes : Ge(n, <<p>>) /\ DivMod(n, <<p>>).rest = Zero}
  IN IF BitLen(n) < 2 THEN FALSE
     ELSE IF n[1] % 2 = 0 THEN n = <<2>>
     ELSE IF dividing # {} THEN \E p \in dividing : n = <<p>> /\ \A q \in dividing : p <= q
     ELSE \A base \in Bases : ~Witnesses(<<base>>, n)
-----------------------------------------------------------------------------
RsaInit ==
  /\ question \in Questions
  /\ answer = <<>>
  /\ round = "new"
  /\ power = Idle /\ euclid = Idle /\ candidate = Idle

Finish(result) == answer' = result /\ round' = "done"

AskPower ==
  /\ round = "new" /\ question.kind = "power"
  /\ round' = "power"
  /\ power' = StartPower(FromNumber(question.base), FromNumber(question.exponent), Modulus)
  /\ UNCHANGED <<question, answer, euclid, candidate>>

(* sign: the encoded digest to the power d.                                 *)
Sign ==
  /\ round = "new" /\ question.kind = "signature"
  /\ round' = "power"
  /\ power' = StartPower(FromBytes(EmsaPkcs1V15Encode(question.digest)),
                         FromNumber(Key.d), FromNumber(Key.n))
  /\ UNCHANGED <<question, answer, euclid, candidate>>

PowerStep ==
  /\ round \in {"power", "verify"} /\ power.left > 0
  /\ power' = PowerRound(power)
  /\ UNCHANGED <<question, answer, round, euclid, candidate>>

PowerDone ==
  /\ round = "power" /\ power.left = 0 /\ question.kind = "power"
  /\ Finish(<<Value(power.result)>>)
  /\ UNCHANGED <<question, power, euclid, candidate>>

(* The signature travels as bytes, and verify takes it to the power e.      *)
Verify ==
  /\ round = "power" /\ power.left = 0 /\ question.kind = "signature"
  /\ round' = "verify"
  /\ power' = StartPower(FromBytes(ToBytes(power.result, EmLength)),
                         FromNumber(Key.e), FromNumber(Key.n))
  /\ UNCHANGED <<question, answer, euclid, candidate>>

Verified ==
  /\ round = "verify" /\ power.left = 0
  /\ Finish(<<VerifyEm(ToBytes(power.result, EmLength), question.claimed)>>)
  /\ UNCHANGED <<question, power, euclid, candidate>>

AskInverse ==
  /\ round = "new" /\ question.kind = "inverse"
  /\ IF Modulus = One \/ question.number = 0
     THEN Finish(<<None>>) /\ UNCHANGED euclid
     ELSE /\ round' = "inverse"
          /\ euclid' = [r0 |-> FromNumber(question.number), r1 |-> Modulus, s0 |-> One, s1 |-> Zero]
          /\ UNCHANGED answer
  /\ UNCHANGED <<question, power, candidate>>

(* Mutant: the sign of a difference below zero is lost.                      *)
DifferenceUnsigned(s0, qs1, n) ==
  LET a == BarrettMod(s0, n)
      b == BarrettMod(qs1, n)
  IN IF Ge(s0, qs1) THEN SubAssign(s0, qs1)
     ELSE IF Ge(a, b) THEN SubAssign(a, b)
     ELSE SubAssign(b, a)

(* s0 - q * s1 modulo n, without going below zero.                          *)
Difference(s0, qs1, n) ==
  LET a == BarrettMod(s0, n)
      b == BarrettMod(qs1, n)
  IN IF Ge(s0, qs1) THEN SubAssign(s0, qs1)
     ELSE IF Ge(a, b) THEN SubAssign(a, b)
     ELSE SubAssign(n, SubAssign(b, a))

(* One division.  The code's early return for r0 < q * r1 cannot be taken.  *)
InverseStep ==
  /\ round = "inverse" /\ euclid.r1 # Zero
  /\ LET q == DivFloor(euclid.r0, euclid.r1)
     IN euclid' = [r0 |-> euclid.r1,
                   r1 |-> SubAssign(euclid.r0, Mul(q, euclid.r1)),
                   s0 |-> euclid.s1,
                   s1 |-> Reduced(Difference(euclid.s0, Mul(q, euclid.s1), Modulus), Modulus)]
  /\ UNCHANGED <<question, answer, round, power, candidate>>

InverseDone ==
  /\ round = "inverse" /\ euclid.r1 = Zero
  /\ Finish(IF euclid.r0 = One THEN <<Value(euclid.s0)>> ELSE <<None>>)
  /\ UNCHANGED <<question, power, euclid, candidate>>

(* An even seed becomes the odd number above it.                            *)
AskPrime ==
  /\ round = "new" /\ question.kind = "prime"
  /\ round' = "prime"
  /\ candidate' = [FromNumber(question.seed) EXCEPT ![1] = IF @ % 2 = 0 THEN @ + 1 ELSE @]
  /\ UNCHANGED <<question, answer, power, euclid>>

PrimeStep ==
  /\ round = "prime"
  /\ IF MillerRabin(candidate)
     THEN Finish(<<Value(candidate)>>) /\ UNCHANGED candidate
     ELSE candidate' = AddShifted(candidate, <<2>>, 0) /\ UNCHANGED <<answer, round>>
  /\ UNCHANGED <<question, power, euclid>>

RsaNext ==
  \/ AskPower \/ Sign \/ PowerStep \/ PowerDone \/ Verify \/ Verified
  \/ AskInverse \/ InverseStep \/ InverseDone \/ AskPrime \/ PrimeStep

RsaSpec == RsaInit /\ [][RsaNext]_rsaVars
-----------------------------------------------------------------------------
(* The same in numbers; the bits left give the weight of the last taken.    *)
Rounds ==
  INSTANCE RsaRounds WITH
    power <- IF power = Idle \/ question.kind # "power" THEN Idle
             ELSE [weight |-> TwoTo[power.left], result |-> Value(power.result)],
    euclid <- IF euclid = Idle THEN Idle
              ELSE [r0 |-> Value(euclid.r0), r1 |-> Value(euclid.r1),
                    s0 |-> Value(euclid.s0), s1 |-> Value(euclid.s1)]

(* Questions are asked in as many bytes as a key has; a signature's digest  *)
(* leaves room for the padding.                                             *)
ASSUME QuestionsAssumption ==
  /\ Rounds!QuestionsTyped
  /\ \A q \in Questions :
       /\ q.kind = "power" => InBytes(q.base) /\ InBytes(q.exponent) /\ InBytes(q.modulus)
       /\ q.kind = "inverse" => InBytes(q.number) /\ InBytes(q.modulus)
       /\ q.kind = "prime" => InBytes(q.seed)
       /\ q.kind = "signature" =>
            /\ q.digest \in Seq(0 .. FF) /\ Len(q.claimed) = Len(q.digest)
            /\ MinPadding + Len(DigestPrefix) + Len(q.digest) + 3 <= EmLength

(* The key has as many bytes as a signature, and its exponents undo each    *)
(* other: which is what makes them a key.                                   *)
ASSUME KeyAssumption ==
  /\ EmLength \in Nat \ {0} /\ MinPadding \in Nat /\ DigestPrefix \in Seq(0 .. FF)
  /\ InBytes(Key.n) /\ InBytes(Key.e) /\ InBytes(Key.d)
  /\ TwoTo[ByteBits * (EmLength - 1)] <= Key.n
  /\ \A m \in 0 .. Key.n - 1 :
       Rounds!Power(Rounds!Power(m, Key.d, Key.n), Key.e, Key.n) = m

Held ==
  (IF power = Idle THEN {} ELSE {power.base, power.exponent, power.modulus, power.result})
    \union (IF euclid = Idle THEN {} ELSE {euclid.r0, euclid.r1, euclid.s0, euclid.s1})
    \union (IF candidate = Idle THEN {} ELSE {candidate})

QuotientRight(a, n) ==
  LET kBits == KBits(n)
      qHat == Value(QHat(a, kBits, BarrettMu(n, kBits)))
      short == Value(a) \div Value(n) - qHat
  IN /\ short >= 0 /\ (BitLen(a) <= 2 * kBits => short <= 1)
     /\ question.kind = "power" => qHat = Rounds!Estimate(Value(a), Value(n), TwoTo[2 * kBits])

(* Numbers never carry a leading zero limb, on which every comparison       *)
(* relies; and Barrett's estimate of a quotient in mod_pow is never too     *)
(* large (slow_mod is not needed) and, for a product as long as the modulus *)
(* allows, one too small at most: the code says at most two.  In numbers it *)
(* is the estimate of RsaRounds (where TLC's integers can hold it).         *)
LimbsSound ==
  /\ \A a \in Held : Canonical(a)
  /\ power # Idle =>
       \A a \in {power.result, power.base} :
         QuotientRight(Mul(power.result, a), power.modulus)

(* The limbs compute what is true of numbers: round by round in mod_pow and *)
(* mod_inverse, and in the end powers, inverses where there are any, the    *)
(* next prime; and what was signed is verified, for its digest and for no   *)
(* other.                                                                   *)
ImplementsNumbers == Rounds!SpecRounds /\ Rounds!Spec
=============================================================================
