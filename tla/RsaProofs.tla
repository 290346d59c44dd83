------------------------------ MODULE RsaProofs ------------------------------
(* Barrett's estimate of a quotient, and the rounds of mod_pow and            *)
(* mod_inverse, for numbers of any size.                                    *)
EXTENDS RsaRounds, WellFoundedInduction, TLAPS

(* A product does not shrink when a factor grows.                           *)
LEMMA ProductGrows ==
  ASSUME NEW a \in Int, NEW b \in Int, NEW c \in Nat, a <= b
  PROVE  a * c <= b * c
<1>1. b - a \in Nat
  OBVIOUS
<1>2. (b - a) * c \in Nat
  BY <1>1
<1>3. (b - a) * c = b * c - a * c
  OBVIOUS
<1> QED
  BY <1>2, <1>3

(* And keeps its order when both are divided by a common positive factor.   *)
LEMMA FactorCancels ==
  ASSUME NEW a \in Int, NEW b \in Int, NEW c \in Nat \ {0}, a * c < b * c
  PROVE  a < b
<1>1. SUFFICES ASSUME b <= a PROVE FALSE
  OBVIOUS
<1>2. b * c <= a * c
  BY <1>1, ProductGrows
<1>3. a * c \in Int /\ b * c \in Int
  OBVIOUS
<1> QED
  BY <1>2, <1>3

(* What the two divisions round away.                                       *)
LEMMA Rounding ==
  ASSUME NEW a \in Nat, NEW b \in Nat \ {0}
  PROVE  /\ a \div b \in Nat
         /\ (a \div b) * b <= a
         /\ a < (a \div b + 1) * b
  OBVIOUS

(* The estimate is never above the quotient: barrett_mod_with_mu never      *)
(* falls back to slow_mod.                                                  *)
THEOREM EstimateNeverAbove ==
  ASSUME NEW x \in Nat, NEW n \in Nat \ {0}, NEW bound \in Nat \ {0}
  PROVE  Estimate(x, n, bound) \in Nat /\ Estimate(x, n, bound) * n <= x
<1> DEFINE mu == Mu(n, bound)
           q == Estimate(x, n, bound)
<1>1. mu \in Nat /\ mu * n <= bound
  BY Rounding DEF Mu
<1>2. x * mu \in Nat
  BY <1>1
<1>3. q \in Nat /\ q * bound <= x * mu
  BY <1>2, Rounding DEF Estimate
<1> HIDE DEF mu, q
<1>4. (q * bound) * n <= (x * mu) * n
  BY <1>1, <1>2, <1>3, ProductGrows
<1>5. (mu * n) * x <= bound * x
  BY <1>1, ProductGrows
<1>6. (q * bound) * n = (q * n) * bound /\ (x * mu) * n = (mu * n) * x /\ bound * x = x * bound
  BY <1>1, <1>3
<1>7. (q * n) * bound <= x * bound
  <2>1. {(q * bound) * n, (x * mu) * n, (mu * n) * x, bound * x} \subseteq Int
    BY <1>1, <1>3
  <2> QED
    BY <1>4, <1>5, <1>6, <2>1
<1>8. q * n <= x
  <2>1. SUFFICES ASSUME x < q * n PROVE FALSE
    BY <1>3
  <2>2. q * n \in Int /\ x + 1 <= q * n
    BY <1>3, <2>1
  <2>3. (x + 1) * bound <= (q * n) * bound
    BY <2>2, ProductGrows
  <2>4. (x + 1) * bound = x * bound + bound /\ x * bound \in Int /\ (q * n) * bound \in Int
    BY <2>2
  <2> QED
    BY <1>7, <2>3, <2>4
<1> QED
  BY <1>3, <1>8 DEF q

(* For a number up to the bound it is at most one below: mod_pow, whose     *)
(* products stay below the bound when its base does, subtracts the modulus  *)
(* once at most after a reduction.                                          *)
THEOREM EstimateOneBelow ==
  ASSUME NEW n \in Nat \ {0}, NEW bound \in Nat \ {0}, NEW x \in 0 .. bound
  PROVE  x < (Estimate(x, n, bound) + 2) * n
<1> DEFINE mu == Mu(n, bound)
           q == Estimate(x, n, bound)
<1>1. mu \in Nat /\ bound < (mu + 1) * n
  BY Rounding DEF Mu
<1>2. x \in Nat /\ x * mu \in Nat
  BY <1>1
<1>3. q \in Nat /\ x * mu < (q + 1) * bound
  BY <1>2, Rounding DEF Estimate
<1> HIDE DEF mu, q
<1>4. bound * x <= ((mu + 1) * n) * x
  BY <1>1, <1>2, ProductGrows
<1>5. ((mu + 1) * n) * x = (x * mu) * n + x * n
  BY <1>1, <1>2
<1>6. (x * mu + 1) * n <= ((q + 1) * bound) * n
  BY <1>2, <1>3, ProductGrows
<1>7. (x * mu + 1) * n = (x * mu) * n + n
  BY <1>1, <1>2
<1>8. x * n <= bound * n
  BY <1>2, ProductGrows
<1>9. ((q + 1) * bound) * n + bound * n = ((q + 2) * n) * bound
  BY <1>3
<1>10. x * bound < ((q + 2) * n) * bound
  <2>1. /\ bound * x = x * bound
        /\ {x * bound, ((mu + 1) * n) * x, (x * mu) * n, x * n, ((q + 1) * bound) * n,
            bound * n, ((q + 2) * n) * bound} \subseteq Int
    BY <1>1, <1>2, <1>3
  <2> QED
    BY <1>4, <1>5, <1>6, <1>7, <1>8, <1>9, <2>1
<1>11. (q + 2) * n \in Int
  BY <1>3
<1>12. x < (q + 2) * n
  BY <1>2, <1>10, <1>11, FactorCancels
<1> QED
  BY <1>12 DEF q

-----------------------------------------------------------------------------
(* Remainders. *)

(* A quotient and a remainder are unique.                                   *)
LEMMA DivisionUnique ==
  ASSUME NEW n \in Nat \ {0}, NEW k \in Int, NEW r \in 0 .. n - 1
  PROVE  (k * n + r) \div n = k /\ (k * n + r) % n = r
<1> DEFINE a == k * n + r
           q == a \div n
           s == a % n
<1>1. a \in Int /\ q \in Int /\ s \in 0 .. n - 1 /\ a = q * n + s
  OBVIOUS
<1>2. a = k * n + r
  OBVIOUS
<1> HIDE DEF a, q, s
<1>3. (k - q) * n = s - r
  <2>1. (k - q) * n = k * n - q * n /\ k * n \in Int /\ q * n \in Int
    BY <1>1
  <2> QED
    BY <1>1, <1>2, <2>1
<1>4. k - q = 0
  <2>1. s - r < n /\ r - s < n
    BY <1>1
  <2>2. CASE k - q >= 1
    <3>1. 1 * n <= (k - q) * n
      BY <1>1, <2>2, ProductGrows
    <3> QED
      BY <1>1, <1>3, <2>1, <3>1
  <2>3. CASE k - q <= -1
    <3>1. (k - q) * n <= -1 * n
      BY <1>1, <2>3, ProductGrows
    <3> QED
      BY <1>1, <1>3, <2>1, <3>1
  <2> QED
    BY <1>1, <2>2, <2>3
<1>5. q = k /\ s = r
  BY <1>1, <1>3, <1>4
<1> QED
  BY <1>5 DEF a, q, s

(* Multiples of the modulus do not change a remainder.                      *)
LEMMA RemainderKept ==
  ASSUME NEW n \in Nat \ {0}, NEW a \in Int, NEW k \in Int
  PROVE  (a + k * n) % n = a % n
<1> DEFINE q == a \div n
           r == a % n
<1>1. q \in Int /\ r \in 0 .. n - 1 /\ a = q * n + r
  OBVIOUS
<1> HIDE DEF q, r
<1>2. a + k * n = (q + k) * n + r
  BY <1>1
<1>3. ((q + k) * n + r) % n = r
  BY <1>1, DivisionUnique
<1> QED
  BY <1>2, <1>3 DEF r

(* A remainder differs by a multiple of the modulus.                        *)
LEMMA RemainderApart ==
  ASSUME NEW n \in Nat \ {0}, NEW a \in Int
  PROVE  /\ a % n \in 0 .. n - 1
         /\ \E k \in Int : a % n = a + k * n
<1> DEFINE q == a \div n
           r == a % n
<1>1. q \in Int /\ r \in 0 .. n - 1 /\ a = q * n + r
  OBVIOUS
<1> HIDE DEF q, r
<1>2. r = a + (-q) * n /\ -q \in Int
  BY <1>1
<1> QED
  BY <1>1, <1>2 DEF r

(* A factor may be reduced before it is multiplied.                         *)
LEMMA ReducedFactor ==
  ASSUME NEW n \in Nat \ {0}, NEW a \in Int, NEW b \in Int
  PROVE  ((a % n) * b) % n = (a * b) % n
<1>1. PICK k \in Int : a % n = a + k * n
  BY RemainderApart
<1>2. (a % n) * b = a * b + (k * b) * n
  BY <1>1
<1>3. a * b \in Int /\ k * b \in Int
  OBVIOUS
<1> QED
  BY <1>2, <1>3, RemainderKept

(* Barrett's reduction, of a number up to the bound: what the estimate      *)
(* leaves is not negative, and one conditional subtraction of the modulus   *)
(* turns it into the remainder, where the comment of barrett_mod_with_mu    *)
(* allows for two.                                                          *)
THEOREM BarrettReduces ==
  ASSUME NEW n \in Nat \ {0}, NEW bound \in Nat \ {0}, NEW x \in 0 .. bound
  PROVE  LET left == x - Estimate(x, n, bound) * n
         IN  left \in Nat /\ x % n = IF left < n THEN left ELSE left - n
<1> DEFINE q == Estimate(x, n, bound)
           left == x - q * n
<1>1. x \in Nat /\ q \in Nat /\ q * n <= x
  BY EstimateNeverAbove
<1>2. x < (q + 2) * n
  BY EstimateOneBelow
<1> HIDE DEF q
<1>3. q * n \in Int /\ left \in Nat /\ x = q * n + left
  BY <1>1
<1>4. (q + 2) * n = q * n + 2 * n /\ (q + 1) * n = q * n + n
  BY <1>1
<1>5. left < 2 * n
  BY <1>2, <1>3, <1>4
<1> HIDE DEF left
<1>6. CASE left < n
  <2>1. left \in 0 .. n - 1
    BY <1>3, <1>6
  <2>2. x % n = left
    BY <1>1, <1>3, <2>1, DivisionUnique
  <2> QED
    BY <1>3, <1>6, <2>2 DEF left, q
<1>7. CASE ~(left < n)
  <2>1. left - n \in 0 .. n - 1
    BY <1>3, <1>5, <1>7
  <2>2. x = (q + 1) * n + (left - n) /\ q + 1 \in Int
    BY <1>1, <1>3, <1>4
  <2>3. x % n = left - n
    BY <2>1, <2>2, DivisionUnique
  <2> QED
    BY <1>3, <1>7, <2>3 DEF left, q
<1> QED
  BY <1>6, <1>7

-----------------------------------------------------------------------------
(* Powers. *)

(* Induction, for a set: what has 0 and every successor has every number.   *)
LEMMA SetInduction ==
  ASSUME NEW S, 0 \in S, \A n \in Nat : n \in S => n + 1 \in S
  PROVE  Nat \subseteq S
<1> DEFINE below == OpToRel(<, Nat)
           missing == Nat \ S
<1>1. IsWellFoundedOn(below, Nat)
  BY NatLessThanWellFounded
<1>2. \A m, n \in Nat : n < m => <<n, m>> \in below
  BY DEF OpToRel
<1> HIDE DEF below
<1>3. SUFFICES ASSUME missing # {} PROVE FALSE
  OBVIOUS
<1>4. PICK m \in missing : \A n \in missing : <<n, m>> \notin below
  BY <1>1, <1>3, WFMin
<1>5. m \in Nat /\ m # 0 /\ m - 1 \in Nat /\ m - 1 < m
  BY <1>4
<1>6. m - 1 \in S
  <2>1. m - 1 \notin missing
    BY <1>2, <1>4, <1>5
  <2> QED
    BY <1>5, <2>1
<1>7. (m - 1) + 1 \in S
  BY <1>5, <1>6
<1> QED
  BY <1>4, <1>5, <1>7

(* The recursion for the powers has a solution,                             *)
IsPowers(f, base, modulus, exponent) ==
  f = [i \in 0 .. exponent |-> IF i = 0 THEN 1 % modulus ELSE (f[i - 1] * base) % modulus]

LEMMA PowersExist ==
  ASSUME NEW base, NEW modulus, NEW exponent \in Nat
  PROVE  \E f : IsPowers(f, base, modulus, exponent)
<1> DEFINE S == {e \in Nat : \E f : IsPowers(f, base, modulus, e)}
<1>1. 0 \in S
  <2>1. IsPowers([i \in 0 .. 0 |-> 1 % modulus], base, modulus, 0)
    BY DEF IsPowers
  <2> QED
    BY <2>1
<1>2. ASSUME NEW e \in Nat, e \in S PROVE e + 1 \in S
  <2>1. PICK f : IsPowers(f, base, modulus, e)
    BY <1>2
  <2> DEFINE g == [i \in 0 .. e + 1 |->
                     IF i = e + 1 THEN (f[e] * base) % modulus ELSE f[i]]
  <2>2. ASSUME NEW i \in 0 .. e + 1
        PROVE  g[i] = IF i = 0 THEN 1 % modulus ELSE (g[i - 1] * base) % modulus
    <3>1. CASE i = e + 1
      <4>1. g[i] = (f[e] * base) % modulus /\ i - 1 = e /\ i # 0
        BY <3>1
      <4>2. g[e] = f[e]
        OBVIOUS
      <4> QED
        BY <4>1, <4>2
    <3>2. CASE i # e + 1
      <4>1. i \in 0 .. e /\ g[i] = f[i]
        BY <3>2
      <4>2. i # 0 => g[i - 1] = f[i - 1]
        BY <4>1
      <4>3. f[i] = IF i = 0 THEN 1 % modulus ELSE (f[i - 1] * base) % modulus
        BY <2>1, <4>1 DEF IsPowers
      <4> QED
        BY <4>1, <4>2, <4>3
    <3> QED
      BY <3>1, <3>2
  <2>3. IsPowers(g, base, modulus, e + 1)
    <3> DEFINE h == [i \in 0 .. e + 1 |->
                       IF i = 0 THEN 1 % modulus ELSE (g[i - 1] * base) % modulus]
    <3>1. g = h
      <4>1. DOMAIN g = 0 .. e + 1 /\ g = [i \in 0 .. e + 1 |-> g[i]]
        OBVIOUS
      <4> HIDE DEF g
      <4> QED
        BY <2>2, <4>1
    <3> QED
      BY <3>1 DEF IsPowers
  <2> QED
    BY <2>3
<1> HIDE DEF S
<1>3. exponent \in S
  BY <1>1, <1>2, SetInduction
<1> QED
  BY <1>3 DEF S

(* and Powers is one.                                                       *)
LEMMA PowersUnfold ==
  ASSUME NEW base, NEW modulus, NEW exponent \in Nat
  PROVE  IsPowers(Powers(base, modulus, exponent), base, modulus, exponent)
<1>1. PICK f : IsPowers(f, base, modulus, exponent)
  BY PowersExist
<1>2. f = [i \in 0 .. exponent |-> IF i = 0 THEN 1 % modulus ELSE (f[i - 1] * base) % modulus]
  BY <1>1 DEF IsPowers
<1> QED
  BY <1>2 DEF IsPowers, Powers

LEMMA PowersStep ==
  ASSUME NEW base \in Nat, NEW n \in Nat \ {0}, NEW exponent \in Nat
  PROVE  LET P == Powers(base, n, exponent)
         IN /\ P[0] = 1 % n
            /\ \A i \in 0 .. exponent - 1 : P[i + 1] = (P[i] * base) % n
            /\ \A i \in 0 .. exponent : P[i] \in 0 .. n - 1
<1> DEFINE P == Powers(base, n, exponent)
<1>1. P = [i \in 0 .. exponent |-> IF i = 0 THEN 1 % n ELSE (P[i - 1] * base) % n]
  BY PowersUnfold DEF IsPowers
<1> HIDE DEF P
<1>2. P[0] = 1 % n
  BY <1>1
<1>3. ASSUME NEW i \in 0 .. exponent - 1 PROVE P[i + 1] = (P[i] * base) % n
  <2>1. i + 1 \in 0 .. exponent /\ i + 1 # 0 /\ (i + 1) - 1 = i
    OBVIOUS
  <2> QED
    BY <1>1, <2>1
<1> DEFINE S == {i \in Nat : i <= exponent => P[i] \in 0 .. n - 1}
<1>4. 0 \in S
  <2>1. 1 % n \in 0 .. n - 1
    OBVIOUS
  <2> QED
    BY <1>2, <2>1
<1>5. ASSUME NEW i \in Nat, i \in S PROVE i + 1 \in S
  <2>1. SUFFICES ASSUME i + 1 <= exponent PROVE P[i + 1] \in 0 .. n - 1
    OBVIOUS
  <2>2. P[i] \in Nat /\ i \in 0 .. exponent - 1
    BY <1>5, <2>1
  <2>3. P[i] * base \in Nat
    BY <2>2
  <2>4. (P[i] * base) % n \in 0 .. n - 1
    BY <2>3
  <2> QED
    BY <1>3, <2>2, <2>4
<1> HIDE DEF S
<1>6. Nat \subseteq S
  BY <1>4, <1>5, SetInduction
<1>7. \A i \in 0 .. exponent : P[i] \in 0 .. n - 1
  BY <1>6 DEF S
<1> QED
  BY <1>2, <1>3, <1>7 DEF P

(* The power of a sum is the product of the powers.                         *)
LEMMA PowersAdd ==
  ASSUME NEW base \in Nat, NEW n \in Nat \ {0}, NEW exponent \in Nat,
         NEW i \in Nat, NEW j \in Nat, i + j <= exponent
  PROVE  LET P == Powers(base, n, exponent)
         IN P[i + j] = (P[i] * P[j]) % n
<1> DEFINE P == Powers(base, n, exponent)
           S == {m \in Nat : i + m <= exponent => P[i + m] = (P[i] * P[m]) % n}
<1>1. /\ P[0] = 1 % n
      /\ \A m \in 0 .. exponent - 1 : P[m + 1] = (P[m] * base) % n
      /\ \A m \in 0 .. exponent : P[m] \in 0 .. n - 1
  BY PowersStep
<1> HIDE DEF P
<1>a. \A a, b \in Int : ((a % n) * b) % n = (a * b) % n
  BY ReducedFactor
<1>2. 0 \in S
  <2>1. P[i] \in 0 .. n - 1 /\ i + 0 = i
    BY <1>1
  <2>2. ((1 % n) * P[i]) % n = (1 * P[i]) % n
    <3>1. 1 \in Int /\ P[i] \in Int
      BY <2>1
    <3> QED
      BY <1>a, <3>1, Zenon
  <2>3. 0 * n + P[i] = P[i] /\ 1 * P[i] = P[i] /\ (1 % n) * P[i] = P[i] * (1 % n)
    BY <2>1
  <2>4. (0 * n + P[i]) % n = P[i]
    BY <2>1, DivisionUnique
  <2> QED
    BY <1>1, <2>1, <2>2, <2>3, <2>4
<1>3. ASSUME NEW m \in Nat, m \in S PROVE m + 1 \in S
  <2>1. SUFFICES ASSUME i + (m + 1) <= exponent
                 PROVE  P[i + (m + 1)] = (P[i] * P[m + 1]) % n
    OBVIOUS
  <2>2. /\ i + m \in 0 .. exponent - 1 /\ m \in 0 .. exponent - 1 /\ i \in 0 .. exponent
        /\ i + (m + 1) = (i + m) + 1
    BY <2>1
  <2>3. P[i] \in Nat /\ P[m] \in Nat
    BY <1>1, <2>2
  <2>4. P[(i + m) + 1] = (P[i + m] * base) % n /\ P[m + 1] = (P[m] * base) % n
    BY <1>1, <2>2
  <2>5. P[i + m] = (P[i] * P[m]) % n
    BY <1>3, <2>2
  <2>6. (((P[i] * P[m]) % n) * base) % n = ((P[i] * P[m]) * base) % n
    <3>1. P[i] * P[m] \in Int /\ base \in Int
      BY <2>3
    <3> QED
      BY <1>a, <3>1, Zenon
  <2>7. (((P[m] * base) % n) * P[i]) % n = ((P[m] * base) * P[i]) % n
    <3>1. P[m] * base \in Int /\ P[i] \in Int
      BY <2>3
    <3> QED
      BY <1>a, <3>1, Zenon
  <2>8. (P[i] * P[m]) * base = (P[m] * base) * P[i]
    BY <2>3
  <2>9. P[i] * P[m + 1] = P[m + 1] * P[i]
    <3>1. m + 1 \in 0 .. exponent
      BY <2>2
    <3>2. P[m + 1] \in Nat
      BY <1>1, <3>1
    <3> QED
      BY <2>3, <3>2
  <2> QED
    BY <2>2, <2>4, <2>5, <2>6, <2>7, <2>8, <2>9
<1> HIDE DEF S
<1>4. j \in S
  BY <1>2, <1>3, SetInduction
<1> QED
  BY <1>4 DEF S, P

(* Halving the weight appends a bit to the part of the exponent taken.      *)
LEMMA NextBit ==
  ASSUME NEW e \in Nat, NEW half \in Nat \ {0}
  PROVE  /\ e \div half \in 0 .. e
         /\ e \div (2 * half) \in Nat
         /\ (e \div half) % 2 \in {0, 1}
         /\ e \div half = 2 * (e \div (2 * half)) + ((e \div half) % 2)
<1> DEFINE h == e \div half
           m == h \div 2
           bit == h % 2
<1>1. h \in Nat /\ h * half <= e /\ e < (h + 1) * half
  BY Rounding
<1> HIDE DEF h
<1>2. m \in Nat /\ bit \in 0 .. 1 /\ h = 2 * m + bit
  BY <1>1
<1> HIDE DEF m, bit
<1>3. h <= e
  <2>1. h * 1 <= h * half
    <3>1. 1 * h <= half * h
      BY <1>1, ProductGrows
    <3> QED
      BY <1>1, <3>1
  <2>2. h * half \in Int
    BY <1>1
  <2> QED
    BY <1>1, <2>1, <2>2
<1>4. e \div (2 * half) = m
  <2> DEFINE r == e - m * (2 * half)
  <2>1. (2 * m) * half <= h * half /\ (h + 1) * half <= (2 * m + 2) * half
    BY <1>1, <1>2, ProductGrows
  <2>2. /\ m * (2 * half) = (2 * m) * half
        /\ (2 * m + 2) * half = (2 * m) * half + 2 * half
        /\ {(2 * m) * half, h * half, (h + 1) * half} \subseteq Int
    BY <1>1, <1>2
  <2>3. r \in 0 .. (2 * half) - 1 /\ e = m * (2 * half) + r
    BY <1>1, <2>1, <2>2
  <2> HIDE DEF r
  <2>4. 2 * half \in Nat \ {0} /\ m \in Int
    BY <1>2
  <2> QED
    BY <2>3, <2>4, DivisionUnique
<1> QED
  BY <1>1, <1>2, <1>3, <1>4 DEF h, m, bit

(* A round keeps the result the power with the part of the exponent taken.  *)
LEMMA RoundOfPower ==
  ASSUME NEW base \in Nat, NEW n \in Nat \ {0}, NEW e \in Nat, NEW half \in Nat \ {0}
  PROVE  LET result == Powers(base, n, e)[e \div (2 * half)]
             square == (result * result) % n
         IN Powers(base, n, e)[e \div half] =
              IF (e \div half) % 2 = 0 THEN square ELSE (square * base) % n
<1> DEFINE P == Powers(base, n, e)
           h == e \div half
           m == e \div (2 * half)
           bit == h % 2
<1>1. h \in 0 .. e /\ m \in Nat /\ bit \in {0, 1} /\ h = 2 * m + bit
  BY NextBit
<1> HIDE DEF h, m, bit
<1>2. m + m <= e
  BY <1>1
<1>3. P[m + m] = (P[m] * P[m]) % n
  BY <1>1, <1>2, PowersAdd
<1>4. \A i \in 0 .. e - 1 : P[i + 1] = (P[i] * base) % n
  BY PowersStep
<1> HIDE DEF P
<1>5. CASE bit = 0
  <2>1. h = m + m
    BY <1>1, <1>5
  <2> QED
    BY <1>3, <1>5, <2>1 DEF h, m, P, bit
<1>6. CASE bit = 1
  <2>1. h = (m + m) + 1 /\ m + m \in 0 .. e - 1
    BY <1>1, <1>6
  <2>2. P[h] = (P[m + m] * base) % n
    BY <1>4, <2>1
  <2>3. bit # 0
    BY <1>6
  <2> QED
    BY <1>3, <2>2, <2>3 DEF h, m, P, bit
<1> QED
  BY <1>1, <1>5, <1>6

-----------------------------------------------------------------------------
(* Inverses. *)

(* s times the number is r, but for a multiple of the modulus.              *)
Represents(s, r, number, n) == \E k \in Int : s * number = r + k * n

(* x is made up of r0 and r1, so that what divides both divides x.          *)
Combines(x, r0, r1) == \E a, b \in Int : x = a * r0 + b * r1

LEMMA DifferenceModular ==
  ASSUME NEW n \in Nat \ {0}, NEW a \in Nat, NEW b \in Nat
  PROVE  /\ Difference(a, b, n) \in 0 .. n - 1
         /\ \E k \in Int : Difference(a, b, n) = (a - b) + k * n
<1>1. CASE a >= b
  <2>1. a - b \in Int /\ Difference(a, b, n) = (a - b) % n
    BY <1>1 DEF Difference
  <2> QED
    BY <2>1, RemainderApart
<1>2. CASE ~ (a >= b)
  <2> DEFINE ra == a % n
             rb == b % n
  <2>0. a \in Int /\ b \in Int
    OBVIOUS
  <2>1. ra \in 0 .. n - 1 /\ \E k \in Int : ra = a + k * n
    BY <2>0, RemainderApart, Zenon
  <2>2. rb \in 0 .. n - 1 /\ \E k \in Int : rb = b + k * n
    BY <2>0, RemainderApart, Zenon
  <2>3. Difference(a, b, n) = IF ra >= rb THEN ra - rb ELSE n - (rb - ra)
    BY <1>2 DEF Difference
  <2> HIDE DEF ra, rb
  <2>4. PICK i \in Int : ra = a + i * n
    BY <2>1
  <2>5. PICK j \in Int : rb = b + j * n
    BY <2>2
  <2>6. /\ ra - rb = (a - b) + (i - j) * n
        /\ n - (rb - ra) = (a - b) + (i - j + 1) * n
        /\ i - j \in Int /\ i - j + 1 \in Int
    BY <2>4, <2>5
  <2>7. Difference(a, b, n) \in 0 .. n - 1
    BY <2>1, <2>2, <2>3
  <2> QED
    BY <2>3, <2>6, <2>7
<1> QED
  BY <1>1, <1>2

(* One division keeps what both remainders represent,                       *)
LEMMA RoundRepresents ==
  ASSUME NEW n \in Nat \ {0}, NEW number \in Nat, NEW q \in Nat,
         NEW r0 \in Nat, NEW r1 \in Nat, NEW s0 \in Nat, NEW s1 \in Nat,
         Represents(s0, r0, number, n), Represents(s1, r1, number, n)
  PROVE  Represents(Difference(s0, q * s1, n), r0 - q * r1, number, n)
<1>1. PICK k0 \in Int : s0 * number = r0 + k0 * n
  BY DEF Represents
<1>2. PICK k1 \in Int : s1 * number = r1 + k1 * n
  BY DEF Represents
<1> DEFINE d == Difference(s0, q * s1, n)
<1>3. q * s1 \in Nat
  OBVIOUS
<1>4. d \in 0 .. n - 1 /\ \E k \in Int : d = (s0 - q * s1) + k * n
  BY <1>3, DifferenceModular, Zenon
<1> HIDE DEF d
<1>5. PICK k \in Int : d = (s0 - q * s1) + k * n
  BY <1>4
<1>6. d * number = (s0 * number - q * (s1 * number)) + (k * number) * n
  BY <1>5
<1>7. q * (s1 * number) = q * r1 + (q * k1) * n
  BY <1>2
<1>8. d * number = (r0 - q * r1) + (k0 - q * k1 + k * number) * n
  <2>1. /\ (k0 - q * k1 + k * number) * n = (k0 * n - (q * k1) * n) + (k * number) * n
        /\ {q * r1, (q * k1) * n, k0 * n, (k * number) * n, s0 * number} \subseteq Int
    OBVIOUS
  <2> QED
    BY <1>1, <1>6, <1>7, <2>1
<1>9. k0 - q * k1 + k * number \in Int
  OBVIOUS
<1> QED
  BY <1>8, <1>9 DEF Represents, d

(* and everything that was made up of them still is.                        *)
LEMMA RoundCombines ==
  ASSUME NEW x \in Int, NEW r0 \in Int, NEW r1 \in Int, NEW q \in Int,
         Combines(x, r0, r1)
  PROVE  Combines(x, r1, r0 - q * r1)
<1>1. PICK a \in Int, b \in Int : x = a * r0 + b * r1
  BY DEF Combines
<1>2. x = (a * q + b) * r1 + a * (r0 - q * r1)
  BY <1>1
<1>3. a * q + b \in Int
  OBVIOUS
<1> QED
  BY <1>2, <1>3 DEF Combines

(* What divides one is one.                                                 *)
LEMMA DividesOne ==
  ASSUME NEW r \in Nat, NEW z \in Int, z * r = 1
  PROVE  r = 1
<1>1. CASE z <= 0
  <2>1. z * r <= 0 * r
    BY <1>1, ProductGrows
  <2> QED
    BY <2>1
<1>2. CASE z >= 1
  <2>1. 1 * r <= z * r
    BY <1>2, ProductGrows
  <2>2. r # 0
    OBVIOUS
  <2> QED
    BY <2>1, <2>2
<1> QED
  BY <1>1, <1>2

(* The loop ends with an inverse, if there is one.                          *)
LEMMA LastRound ==
  ASSUME NEW number \in Nat, NEW n \in Nat \ {0, 1}, NEW r \in Nat, NEW s \in 0 .. n - 1,
         Represents(s, r, number, n), Combines(number, r, 0), Combines(n, r, 0)
  PROVE  IF r = 1 THEN s \in Inverses(number, n) ELSE Inverses(number, n) = {}
<1>1. CASE r = 1
  <2>1. PICK k \in Int : s * number = 1 + k * n
    BY <1>1 DEF Represents
  <2>2. (k * n + 1) % n = 1
    <3>1. 1 \in 0 .. n - 1
      OBVIOUS
    <3> QED
      BY <3>1, DivisionUnique
  <2>3. number * s = k * n + 1
    BY <2>1
  <2>4. s # 0
    <3>1. SUFFICES ASSUME s = 0 PROVE FALSE
      OBVIOUS
    <3>2. 0 * n + 0 = k * n + 1
      BY <2>1, <3>1
    <3>3. (0 * n + 0) % n = 0
      <4>1. 0 \in 0 .. n - 1
        OBVIOUS
      <4> QED
        BY <4>1, DivisionUnique
    <3> QED
      BY <2>2, <3>2, <3>3
  <2> QED
    BY <1>1, <2>2, <2>3, <2>4 DEF Inverses
<1>2. CASE r # 1
  <2>1. SUFFICES ASSUME NEW x \in 1 .. n - 1, (number * x) % n = 1 PROVE FALSE
    BY <1>2 DEF Inverses
  <2>2. PICK k \in Int : (number * x) % n = number * x + k * n
    <3>1. number * x \in Int
      OBVIOUS
    <3> QED
      BY <3>1, RemainderApart
  <2>3. PICK a \in Int, b \in Int : number = a * r + b * 0
    BY DEF Combines
  <2>4. PICK c \in Int, d \in Int : n = c * r + d * 0
    BY DEF Combines
  <2>5. (a * x + k * c) * r = (a * r) * x + k * (c * r)
    OBVIOUS
  <2>6. (a * x + k * c) * r = 1
    BY <2>1, <2>2, <2>3, <2>4, <2>5
  <2>7. a * x + k * c \in Int
    OBVIOUS
  <2> QED
    BY <1>2, <2>6, <2>7, DividesOne
<1> QED
  BY <1>1, <1>2

-----------------------------------------------------------------------------
(* The rounds. *)

(* The result is the power with the part of the exponent taken so far.      *)
PowerInv ==
  power # Idle =>
    /\ question.kind = "power"
    /\ power.weight \in Nat \ {0}
    /\ power.result = Powers(question.base, question.modulus, question.exponent)
                        [question.exponent \div power.weight]

(* What extended Euclid keeps of the number and the modulus.                *)
EuclidInv ==
  euclid # Idle =>
    LET number == question.number
        n == question.modulus
    IN /\ question.kind = "inverse"
       /\ n \in Nat \ {0, 1}
       /\ euclid.r0 \in Nat /\ euclid.r1 \in Nat
       /\ euclid.s0 \in 0 .. n - 1 /\ euclid.s1 \in 0 .. n - 1
       /\ Represents(euclid.s0, euclid.r0, number, n)
       /\ Represents(euclid.s1, euclid.r1, number, n)
       /\ Combines(number, euclid.r0, euclid.r1)
       /\ Combines(n, euclid.r0, euclid.r1)

RoundsInv == question \in Questions /\ PowerInv /\ EuclidInv

LEMMA PowerQuestion ==
  ASSUME QuestionsTyped, question \in Questions, question.kind = "power"
  PROVE  /\ question.base \in Nat /\ question.exponent \in Nat
         /\ question.modulus \in Nat \ {0}
         /\ Right = {Power(question.base, question.exponent, question.modulus)}
<1>1. question.base \in Nat /\ question.exponent \in Nat /\ question.modulus \in Nat \ {0}
  BY DEF QuestionsTyped
<1>2. Right = {Power(question.base, question.exponent, question.modulus)}
  BY DEF Right
<1> QED
  BY <1>1, <1>2

LEMMA InverseQuestion ==
  ASSUME QuestionsTyped, question \in Questions, question.kind = "inverse"
  PROVE  /\ question.number \in Nat /\ question.modulus \in Nat \ {0}
         /\ Right = IF Inverses(question.number, question.modulus) = {} THEN {-1}
                    ELSE Inverses(question.number, question.modulus)
<1>1. question.number \in Nat /\ question.modulus \in Nat \ {0}
  BY DEF QuestionsTyped
<1>2. Right = IF Inverses(question.number, question.modulus) = {} THEN {-1}
              ELSE Inverses(question.number, question.modulus)
  BY DEF Right
<1> QED
  BY <1>1, <1>2

LEMMA RoundsInit == InitRounds => RoundsInv
BY DEF InitRounds, Init, RoundsInv, PowerInv, EuclidInv

LEMMA AskPowerKeeps ==
  ASSUME QuestionsTyped, RoundsInv, AskPower
  PROVE  PowerInv'
<1> DEFINE e == question.exponent
           n == question.modulus
           P == Powers(question.base, n, e)
<1>1. question.base \in Nat /\ e \in Nat /\ n \in Nat \ {0}
  BY PowerQuestion DEF RoundsInv, AskPower
<1>2. question' = question /\ question.kind = "power"
  BY DEF AskPower
<1>3. P[0] = 1 % n /\ P[e] \in 0 .. n - 1
  <2>1. e \in 0 .. e
    BY <1>1
  <2> QED
    BY <1>1, <2>1, PowersStep
<1> HIDE DEF P
<1>4. CASE n = 1
  <2>1. power' = [weight |-> 1, result |-> 0]
    BY <1>4 DEF AskPower
  <2>2. e \div 1 = e /\ P[e] = 0
    BY <1>1, <1>3, <1>4
  <2> QED
    BY <1>2, <2>1, <2>2 DEF PowerInv, P
<1>5. CASE n # 1
  <2>1. PICK weight \in e + 1 .. 2 * e + 1 : power' = [weight |-> weight, result |-> 1]
    BY <1>5 DEF AskPower
  <2>2. weight \in Nat \ {0} /\ e \in 0 .. weight - 1 /\ 0 * weight + e = e
    BY <1>1
  <2>3. e \div weight = 0
    BY <2>2, DivisionUnique
  <2>4. 1 % n = 1
    <3>1. 1 \in 0 .. n - 1 /\ 0 * n + 1 = 1
      BY <1>1, <1>5
    <3> QED
      BY <1>1, <3>1, DivisionUnique
  <2> QED
    BY <1>2, <1>3, <2>1, <2>2, <2>3, <2>4 DEF PowerInv, P
<1> QED
  BY <1>4, <1>5

LEMMA PowerStepKeeps ==
  ASSUME QuestionsTyped, RoundsInv, PowerStep
  PROVE  PowerInv'
<1> DEFINE b == question.base
           e == question.exponent
           n == question.modulus
           result == power.result
           square == (result * result) % n
<1>1. /\ question.kind = "power" /\ power.weight \in Nat \ {0}
      /\ result = Powers(b, n, e)[e \div power.weight]
  BY DEF RoundsInv, PowerInv, PowerStep
<1>2. b \in Nat /\ e \in Nat /\ n \in Nat \ {0}
  BY <1>1, PowerQuestion DEF RoundsInv
<1>3. PICK half \in 1 .. power.weight :
        /\ power.weight = 2 * half
        /\ power' = [weight |-> half,
                     result |-> IF (e \div half) % 2 = 0 THEN square ELSE (square * b) % n]
  BY DEF PowerStep
<1>4. half \in Nat \ {0}
  BY <1>1
<1>5. question' = question
  BY DEF PowerStep
<1>6. square = (result * result) % n
  OBVIOUS
<1> HIDE DEF b, e, n, result, square
<1>7. result = Powers(b, n, e)[e \div (2 * half)]
  BY <1>1, <1>3
<1>8. Powers(b, n, e)[e \div half] =
        IF (e \div half) % 2 = 0 THEN square ELSE (square * b) % n
  <2>1. LET r == Powers(b, n, e)[e \div (2 * half)]
            s == (r * r) % n
        IN Powers(b, n, e)[e \div half] = IF (e \div half) % 2 = 0 THEN s ELSE (s * b) % n
    BY <1>2, <1>4, RoundOfPower
  <2> QED
    BY <1>6, <1>7, <2>1
<1>9. power'.weight = half /\ power'.result = Powers(b, n, e)[e \div half]
  BY <1>3, <1>8
<1> QED
  BY <1>1, <1>4, <1>5, <1>9 DEF PowerInv, b, e, n

LEMMA AskInverseKeeps ==
  ASSUME QuestionsTyped, RoundsInv, AskInverse
  PROVE  EuclidInv'
<1> DEFINE number == question.number
           n == question.modulus
<1>1. number \in Nat /\ n \in Nat \ {0}
  BY InverseQuestion DEF RoundsInv, AskInverse
<1>2. question' = question /\ question.kind = "inverse"
  BY DEF AskInverse
<1>3. CASE n = 1 \/ number = 0
  <2>1. euclid' = euclid
    BY <1>3 DEF AskInverse
  <2> QED
    BY <1>2, <2>1 DEF RoundsInv, EuclidInv
<1>4. CASE ~ (n = 1 \/ number = 0)
  <2>1. euclid' = [r0 |-> number, r1 |-> n, s0 |-> 1, s1 |-> 0]
    BY <1>4 DEF AskInverse
  <2> HIDE DEF number, n
  <2>2. n \in Nat \ {0, 1} /\ 1 \in 0 .. n - 1 /\ 0 \in 0 .. n - 1
    BY <1>1, <1>4
  <2>3. Represents(1, number, number, n)
    <3>1. 1 * number = number + 0 * n
      BY <1>1
    <3> QED
      BY <3>1 DEF Represents
  <2>4. Represents(0, n, number, n)
    <3>1. 0 * number = n + (-1) * n
      BY <1>1
    <3> QED
      BY <3>1 DEF Represents
  <2>5. Combines(number, number, n) /\ Combines(n, number, n)
    <3>1. number = 1 * number + 0 * n /\ n = 0 * number + 1 * n
      BY <1>1
    <3> QED
      BY <3>1 DEF Combines
  <2> QED
    BY <1>1, <1>2, <2>1, <2>2, <2>3, <2>4, <2>5 DEF EuclidInv, number, n
<1> QED
  BY <1>3, <1>4

LEMMA InverseStepKeeps ==
  ASSUME QuestionsTyped, RoundsInv, InverseStep
  PROVE  EuclidInv'
<1> DEFINE number == question.number
           n == question.modulus
           r0 == euclid.r0
           r1 == euclid.r1
           s0 == euclid.s0
           s1 == euclid.s1
           q == r0 \div r1
           r2 == r0 - q * r1
           s2 == Difference(s0, q * s1, n)
<1>1. /\ question.kind = "inverse"
      /\ n \in Nat \ {0, 1}
      /\ r0 \in Nat /\ r1 \in Nat
      /\ s0 \in 0 .. n - 1 /\ s1 \in 0 .. n - 1
      /\ Represents(s0, r0, number, n) /\ Represents(s1, r1, number, n)
      /\ Combines(number, r0, r1) /\ Combines(n, r0, r1)
  BY DEF RoundsInv, EuclidInv, InverseStep
<1>2. number \in Nat
  BY <1>1, InverseQuestion DEF RoundsInv
<1>3. /\ r1 # 0
      /\ euclid' = [r0 |-> r1, r1 |-> r2, s0 |-> s1, s1 |-> s2]
      /\ question' = question
  BY DEF InverseStep
<1>4. q = r0 \div r1 /\ r2 = r0 - q * r1 /\ s2 = Difference(s0, q * s1, n)
  OBVIOUS
<1> HIDE DEF number, n, r0, r1, s0, s1, q, r2, s2
<1>5. q \in Nat /\ r2 \in Nat
  <2>1. q \in Nat /\ q * r1 <= r0
    BY <1>1, <1>3, <1>4, Rounding
  <2>2. q * r1 \in Int
    BY <1>1, <2>1
  <2> QED
    BY <1>1, <1>4, <2>1, <2>2
<1>6. s2 \in 0 .. n - 1
  <2>1. s0 \in Nat /\ q * s1 \in Nat /\ n \in Nat \ {0}
    BY <1>1, <1>5
  <2> QED
    BY <1>4, <2>1, DifferenceModular
<1>7. Represents(s2, r2, number, n)
  <2>1. s0 \in Nat /\ s1 \in Nat /\ n \in Nat \ {0}
    BY <1>1
  <2> QED
    BY <1>1, <1>2, <1>4, <1>5, <2>1, RoundRepresents
<1>8. Combines(number, r1, r2) /\ Combines(n, r1, r2)
  <2>1. number \in Int /\ n \in Int /\ r0 \in Int /\ r1 \in Int /\ q \in Int
    BY <1>1, <1>2, <1>5
  <2> QED
    BY <1>1, <1>4, <2>1, RoundCombines
<1> QED
  BY <1>1, <1>3, <1>5, <1>6, <1>7, <1>8 DEF EuclidInv, number, n, r1, s1

LEMMA RoundsNext == QuestionsTyped /\ RoundsInv /\ [NextRounds]_roundVars => RoundsInv'
<1> SUFFICES ASSUME QuestionsTyped, RoundsInv, [NextRounds]_roundVars PROVE RoundsInv'
  OBVIOUS
<1>1. question' \in Questions
  BY DEF RoundsInv, NextRounds, AskPower, PowerStep, PowerDone, AskInverse, InverseStep,
         InverseDone, AnswerAtOnce, Answer, roundVars
<1>2. ASSUME UNCHANGED <<question, power>> PROVE PowerInv'
  BY <1>2 DEF RoundsInv, PowerInv
<1>3. ASSUME UNCHANGED <<question, euclid>> PROVE EuclidInv'
  BY <1>3 DEF RoundsInv, EuclidInv
<1>4. CASE AskPower
  BY <1>1, <1>3, <1>4, AskPowerKeeps DEF AskPower, RoundsInv
<1>5. CASE PowerStep
  BY <1>1, <1>3, <1>5, PowerStepKeeps DEF PowerStep, RoundsInv
<1>6. CASE AskInverse
  BY <1>1, <1>2, <1>6, AskInverseKeeps DEF AskInverse, RoundsInv
<1>7. CASE InverseStep
  BY <1>1, <1>2, <1>7, InverseStepKeeps DEF InverseStep, RoundsInv
<1>8. CASE PowerDone \/ InverseDone \/ AnswerAtOnce \/ UNCHANGED roundVars
  BY <1>1, <1>2, <1>3, <1>8
  DEF PowerDone, InverseDone, AnswerAtOnce, Answer, roundVars, RoundsInv
<1> QED
  BY <1>4, <1>5, <1>6, <1>7, <1>8 DEF NextRounds

(* A round answers nothing, or it answers what is right.                    *)
LEMMA RoundsAnswer ==
  QuestionsTyped /\ RoundsInv /\ [NextRounds]_roundVars => [Answer]_<<question, answer>>
<1> SUFFICES ASSUME QuestionsTyped, RoundsInv, [NextRounds]_roundVars
             PROVE  Answer \/ UNCHANGED <<question, answer>>
  OBVIOUS
<1>1. CASE PowerDone
  <2>1. question.kind = "power" /\ power.weight = 1
    BY <1>1 DEF PowerDone, RoundsInv, PowerInv
  <2>2. /\ question.exponent \in Nat
        /\ Right = {Power(question.base, question.exponent, question.modulus)}
    BY <2>1, PowerQuestion DEF RoundsInv
  <2>3. question.exponent \div 1 = question.exponent
    BY <2>2
  <2>4. power.result = Power(question.base, question.exponent, question.modulus)
    BY <1>1, <2>1, <2>3 DEF PowerDone, RoundsInv, PowerInv, Power
  <2> QED
    BY <1>1, <2>2, <2>4 DEF PowerDone, Answer
<1>2. CASE AskInverse
  <2> DEFINE number == question.number
             n == question.modulus
  <2>1. /\ number \in Nat /\ n \in Nat \ {0}
        /\ Right = IF Inverses(number, n) = {} THEN {-1} ELSE Inverses(number, n)
    BY <1>2, InverseQuestion DEF RoundsInv, AskInverse
  <2>2. CASE n = 1 \/ number = 0
    <3>1. Inverses(number, n) = {}
      <4> SUFFICES ASSUME NEW x \in 1 .. n - 1, (number * x) % n = 1 PROVE FALSE
        BY DEF Inverses
      <4> HIDE DEF number, n
      <4>1. n # 1 /\ number = 0
        BY <2>1, <2>2
      <4>2. number * x = 0 * n + 0 /\ 0 \in 0 .. n - 1
        BY <2>1, <4>1
      <4>3. (0 * n + 0) % n = 0
        BY <2>1, <4>2, DivisionUnique
      <4> QED
        BY <4>2, <4>3
    <3> QED
      BY <1>2, <2>1, <2>2, <3>1 DEF AskInverse, Answer, Fresh
  <2>3. CASE ~ (n = 1 \/ number = 0)
    BY <1>2, <2>3 DEF AskInverse
  <2> QED
    BY <2>2, <2>3
<1>3. CASE InverseDone
  <2> DEFINE number == question.number
             n == question.modulus
  <2>1. /\ question.kind = "inverse" /\ n \in Nat \ {0, 1}
        /\ euclid.r0 \in Nat /\ euclid.s0 \in 0 .. n - 1
        /\ Represents(euclid.s0, euclid.r0, number, n)
        /\ Combines(number, euclid.r0, 0) /\ Combines(n, euclid.r0, 0)
    BY <1>3 DEF InverseDone, RoundsInv, EuclidInv
  <2>2. /\ number \in Nat
        /\ Right = IF Inverses(number, n) = {} THEN {-1} ELSE Inverses(number, n)
    BY <2>1, InverseQuestion DEF RoundsInv
  <2> HIDE DEF number, n
  <2>3. IF euclid.r0 = 1 THEN euclid.s0 \in Inverses(number, n) ELSE Inverses(number, n) = {}
    BY <2>1, <2>2, LastRound
  <2> QED
    BY <1>3, <2>2, <2>3 DEF InverseDone, Answer
<1>4. CASE AnswerAtOnce
  BY <1>4 DEF AnswerAtOnce
<1>5. CASE AskPower \/ PowerStep \/ InverseStep \/ UNCHANGED roundVars
  BY <1>5 DEF AskPower, PowerStep, InverseStep, roundVars
<1> QED
  BY <1>1, <1>2, <1>3, <1>4, <1>5 DEF NextRounds

(* The rounds of mod_pow compute the power, and those of mod_inverse an     *)
(* inverse, and none exactly when there is none, for numbers of any size.   *)
THEOREM RoundsAreRight == ASSUME QuestionsTyped PROVE SpecRounds => Spec
<1>1. InitRounds => Init
  BY DEF InitRounds
<1>2. InitRounds => RoundsInv
  BY RoundsInit
<1>3. RoundsInv /\ [NextRounds]_roundVars => RoundsInv'
  BY RoundsNext
<1>4. RoundsInv /\ [NextRounds]_roundVars => [Answer]_<<question, answer>>
  BY RoundsAnswer
<1> QED
  BY <1>1, <1>2, <1>3, <1>4, PTL DEF SpecRounds, Spec
=============================================================================
