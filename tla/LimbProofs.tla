------------------------------ MODULE LimbProofs ------------------------------
(***************************************************************************)
(* What the limbs of BigUint compute, for every width of bytes and limbs   *)
(* and every length of numbers, and that the loops of RsaLoops therefore   *)
(* do in limbs what RsaRounds does in numbers.                             *)
(***************************************************************************)
EXTENDS RsaLoops, TLAPS

(* The proofs about numbers, with Rounds' refinement mapping.               *)
RoundProofs ==
  INSTANCE RsaProofs WITH
    power <- IF power = Idle \/ question.kind # "power" THEN Idle
             ELSE [weight |-> TwoTo[power.left], result |-> Value(power.result)],
    euclid <- IF euclid = Idle THEN Idle
              ELSE [r0 |-> Value(euclid.r0), r1 |-> Value(euclid.r1),
                    s0 |-> Value(euclid.s0), s1 |-> Value(euclid.s1)]

LEMMA ProductGrows ==
  ASSUME NEW a \in Int, NEW b \in Int, NEW c \in Nat, a <= b
  PROVE  a * c <= b * c
BY RoundProofs!ProductGrows

LEMMA Spread ==
  ASSUME NEW a \in Int, NEW b \in Int, NEW c \in Int
  PROVE  /\ (a + b) * c = a * c + b * c /\ (a - b) * c = a * c - b * c
         /\ a * c = c * a /\ a * c \in Int /\ b * c \in Int
         /\ c * (a + b) = c * a + c * b /\ c * (a - b) = c * a - c * b
OBVIOUS

LEMMA ProductNat ==
  ASSUME NEW a \in Nat, NEW b \in Nat
  PROVE  a * b \in Nat
<1>1. 0 * b <= a * b
  BY ProductGrows
<1> QED
  BY <1>1

LEMMA ProductPositive ==
  ASSUME NEW a \in Nat \ {0}, NEW b \in Nat \ {0}
  PROVE  a * b \in Nat \ {0} /\ b <= a * b
<1>1. 1 * b <= a * b
  BY ProductGrows
<1> QED
  BY <1>1

(* What is divided into a quotient and a remainder is so divided once.      *)
LEMMA DivisionUnique ==
  ASSUME NEW n \in Nat \ {0}, NEW k \in Int, NEW r \in 0 .. n - 1
  PROVE  (k * n + r) \div n = k /\ (k * n + r) % n = r
BY RoundProofs!DivisionUnique

-----------------------------------------------------------------------------
(* Functions defined by recursion. *)

(* What has 0 and the successor of all it has, has every natural number.    *)
LEMMA SetInduction ==
  ASSUME NEW S, 0 \in S, \A n \in Nat : n \in S => n + 1 \in S
  PROVE  Nat \subseteq S
BY RoundProofs!SetInduction

(* Values of S, each made from the one before.                              *)
IsSequel(f, n, first, step, S) ==
  /\ f = [i \in 0 .. n |-> f[i]]
  /\ f[0] = first
  /\ \A i \in 0 .. n : f[i] \in S
  /\ \A i \in 1 .. n : f[i] = step[i][f[i - 1]]

LEMMA SequelExists ==
  ASSUME NEW S, NEW first \in S, NEW n \in Nat, NEW step,
         \A i \in Nat, x \in S : step[i][x] \in S
  PROVE  \E f : IsSequel(f, n, first, step, S)
<1> DEFINE Lengths == {m \in Nat : \E f : IsSequel(f, m, first, step, S)}
<1>1. 0 \in Lengths
  <2>1. IsSequel([i \in 0 .. 0 |-> first], 0, first, step, S)
    BY DEF IsSequel
  <2> QED
    BY <2>1
<1>2. ASSUME NEW m \in Nat, m \in Lengths PROVE m + 1 \in Lengths
  <2>1. PICK f : IsSequel(f, m, first, step, S)
    BY <1>2
  <2> DEFINE g == [i \in 0 .. m + 1 |-> IF i = m + 1 THEN step[i][f[m]] ELSE f[i]]
  <2>2. g = [i \in 0 .. m + 1 |-> g[i]] /\ g[0] = first
    BY <2>1 DEF IsSequel
  <2>3. ASSUME NEW i \in 0 .. m + 1 PROVE g[i] \in S
    <3>1. f[m] \in S
      BY <2>1 DEF IsSequel
    <3>2. i # m + 1 => i \in 0 .. m
      OBVIOUS
    <3> QED
      BY <2>1, <3>1, <3>2 DEF IsSequel
  <2>4. ASSUME NEW i \in 1 .. m + 1 PROVE g[i] = step[i][g[i - 1]]
    <3>1. i - 1 \in 0 .. m /\ i - 1 # m + 1
      OBVIOUS
    <3>2. g[i - 1] = f[i - 1]
      BY <3>1
    <3>3. CASE i = m + 1
      <4>1. i - 1 = m /\ g[i] = step[i][f[m]]
        BY <3>3
      <4> HIDE DEF g
      <4> QED
        BY <3>2, <4>1
    <3>4. CASE i # m + 1
      <4>1. i \in 1 .. m /\ g[i] = f[i]
        BY <3>4
      <4>2. f[i] = step[i][f[i - 1]]
        BY <2>1, <4>1 DEF IsSequel
      <4> HIDE DEF g
      <4> QED
        BY <3>2, <4>1, <4>2
    <3> QED
      BY <3>3, <3>4
  <2>5. IsSequel(g, m + 1, first, step, S)
    <3> HIDE DEF g
    <3> QED
      BY <2>2, <2>3, <2>4 DEF IsSequel
  <2> QED
    BY <2>5
<1> HIDE DEF Lengths
<1>3. n \in Lengths
  BY <1>1, <1>2, SetInduction
<1> QED
  BY <1>3 DEF Lengths


(* There is only one of them.                                               *)
LEMMA SequelUnique ==
  ASSUME NEW S, NEW first, NEW step, NEW n \in Nat, NEW m \in Nat, NEW f, NEW g, n <= m,
         IsSequel(f, n, first, step, S), IsSequel(g, m, first, step, S)
  PROVE  \A i \in 0 .. n : f[i] = g[i]
<1> DEFINE Same == {i \in Nat : i <= n => f[i] = g[i]}
<1>1. 0 \in Same
  BY DEF IsSequel
<1>2. ASSUME NEW i \in Nat, i \in Same PROVE i + 1 \in Same
  <2>1. SUFFICES ASSUME i + 1 <= n PROVE f[i + 1] = g[i + 1]
    OBVIOUS
  <2>2. i + 1 \in 1 .. n /\ i + 1 \in 1 .. m /\ (i + 1) - 1 = i
    BY <2>1
  <2>3. f[i] = g[i]
    BY <1>2, <2>1
  <2>4. f[i + 1] = step[i + 1][f[(i + 1) - 1]] /\ g[i + 1] = step[i + 1][g[(i + 1) - 1]]
    BY <2>2 DEF IsSequel
  <2> QED
    BY <2>2, <2>3, <2>4
<1> HIDE DEF Same
<1>3. Nat \subseteq Same
  BY <1>1, <1>2, SetInduction
<1> QED
  BY <1>3 DEF Same

(* Recursion over an interval and over all numbers.                         *)
IsRecursive(f, D, first, step, S) ==
  /\ f = [i \in D |-> IF i = 0 THEN first ELSE step[i][f[i - 1]]]
  /\ \A i \in D : f[i] \in S

LEMMA RecursionTo ==
  ASSUME NEW S, NEW first \in S, NEW n \in Nat, NEW step,
         \A i \in Nat, x \in S : step[i][x] \in S
  PROVE  \E f : IsRecursive(f, 0 .. n, first, step, S)
<1>1. PICK f : IsSequel(f, n, first, step, S)
  BY SequelExists
<1>2. ASSUME NEW i \in 0 .. n
      PROVE  f[i] = IF i = 0 THEN first ELSE step[i][f[i - 1]]
  <2>1. i # 0 => i \in 1 .. n
    OBVIOUS
  <2> QED
    BY <1>1, <2>1 DEF IsSequel
<1>3. f = [i \in 0 .. n |-> f[i]] /\ \A i \in 0 .. n : f[i] \in S
  BY <1>1 DEF IsSequel
<1>4. f = [i \in 0 .. n |-> IF i = 0 THEN first ELSE step[i][f[i - 1]]]
  BY <1>2, <1>3
<1> QED
  BY <1>3, <1>4 DEF IsRecursive

LEMMA RecursionOn ==
  ASSUME NEW S, NEW first \in S, NEW step, \A i \in Nat, x \in S : step[i][x] \in S
  PROVE  \E f : IsRecursive(f, Nat, first, step, S)
<1> DEFINE some == [n \in Nat |-> CHOOSE g : IsSequel(g, n, first, step, S)]
           f == [n \in Nat |-> some[n][n]]
<1>1. \A n \in Nat : IsSequel(some[n], n, first, step, S)
  BY SequelExists
<1> HIDE DEF some
<1>2. ASSUME NEW i \in Nat
      PROVE  f[i] \in S /\ f[i] = IF i = 0 THEN first ELSE step[i][f[i - 1]]
  <2>1. f[i] = some[i][i] /\ some[i][i] \in S /\ (i = 0 => some[i][i] = first)
    <3>1. f[i] = some[i][i] /\ i \in 0 .. i /\ IsSequel(some[i], i, first, step, S)
      BY <1>1
    <3> HIDE DEF f
    <3> QED
      BY <3>1 DEF IsSequel
  <2>2. ASSUME i # 0 PROVE some[i][i] = step[i][f[i - 1]]
    <3>1. i - 1 \in Nat /\ i - 1 <= i /\ i - 1 \in 0 .. i - 1 /\ i \in 1 .. i
      BY <2>2
    <3>2. some[i - 1][i - 1] = some[i][i - 1]
      <4> DEFINE g == some[i - 1]
                 h == some[i]
      <4>1. IsSequel(g, i - 1, first, step, S) /\ IsSequel(h, i, first, step, S)
        BY <1>1, <3>1
      <4> HIDE DEF f, g, h
      <4>2. \A j \in 0 .. i - 1 : g[j] = h[j]
        BY <3>1, <4>1, SequelUnique
      <4> QED
        BY <3>1, <4>2 DEF g, h
    <3>3. f[i - 1] = some[i - 1][i - 1]
      BY <3>1
    <3>4. some[i][i] = step[i][some[i][i - 1]]
      BY <1>1, <3>1 DEF IsSequel
    <3> HIDE DEF f
    <3> QED
      BY <3>2, <3>3, <3>4
  <2> HIDE DEF f
  <2> QED
    BY <2>1, <2>2
<1>3. f = [i \in Nat |-> f[i]]
  OBVIOUS
<1> HIDE DEF f
<1>4. f = [i \in Nat |-> IF i = 0 THEN first ELSE step[i][f[i - 1]]]
  BY <1>2, <1>3
<1> QED
  BY <1>2, <1>4 DEF IsRecursive

(* Powers of two.                                                           *)
LEMMA TwoToStep ==
  /\ TwoTo[0] = 1
  /\ \A n \in Nat : TwoTo[n] \in Nat /\ TwoTo[n + 1] = 2 * TwoTo[n]
<1> DEFINE step == [i \in Nat |-> [x \in Nat |-> 2 * x]]
<1>1. \A i \in Nat, x \in Nat : step[i][x] = 2 * x /\ step[i][x] \in Nat
  OBVIOUS
<1> HIDE DEF step
<1>2. PICK f : IsRecursive(f, Nat, 1, step, Nat)
  BY <1>1, RecursionOn
<1>3. f = [i \in Nat |-> IF i = 0 THEN 1 ELSE 2 * f[i - 1]]
  <2>1. \A i \in Nat : i # 0 => step[i][f[i - 1]] = 2 * f[i - 1]
    BY <1>1, <1>2 DEF IsRecursive
  <2> QED
    BY <1>2, <2>1 DEF IsRecursive
<1>4. TwoTo = [i \in Nat |-> IF i = 0 THEN 1 ELSE 2 * TwoTo[i - 1]]
  BY <1>3 DEF TwoTo
<1> DEFINE Typed == {i \in Nat : TwoTo[i] \in Nat}
<1>5. TwoTo[0] = 1 /\ \A n \in Nat : TwoTo[n + 1] = 2 * TwoTo[n]
  <2>1. TwoTo[0] = 1
    BY <1>4
  <2>2. ASSUME NEW n \in Nat PROVE TwoTo[n + 1] = 2 * TwoTo[n]
    <3>1. n + 1 \in Nat /\ n + 1 # 0 /\ (n + 1) - 1 = n
      OBVIOUS
    <3> QED
      BY <1>4, <3>1
  <2> QED
    BY <2>1, <2>2
<1>6. 0 \in Typed /\ \A n \in Nat : n \in Typed => n + 1 \in Typed
  BY <1>5
<1> HIDE DEF Typed
<1>7. Nat \subseteq Typed
  BY <1>6, SetInduction
<1> QED
  BY <1>5, <1>7 DEF Typed

LEMMA TwoToPositive == \A n \in Nat : TwoTo[n] \in Nat \ {0}
<1> DEFINE Positive == {i \in Nat : TwoTo[i] # 0}
<1>1. 0 \in Positive /\ \A n \in Nat : n \in Positive => n + 1 \in Positive
  BY TwoToStep
<1> HIDE DEF Positive
<1>2. Nat \subseteq Positive
  BY <1>1, SetInduction
<1> QED
  BY <1>2, TwoToStep DEF Positive

LEMMA TwoToSum ==
  ASSUME NEW m \in Nat, NEW n \in Nat
  PROVE  TwoTo[m + n] = TwoTo[m] * TwoTo[n]
<1> DEFINE Right == {i \in Nat : TwoTo[m + i] = TwoTo[m] * TwoTo[i]}
<1>1. 0 \in Right
  BY TwoToStep
<1>2. ASSUME NEW i \in Nat, i \in Right PROVE i + 1 \in Right
  <2>1. TwoTo[m + i] = TwoTo[m] * TwoTo[i] /\ m + i \in Nat
    BY <1>2
  <2>2. TwoTo[(m + i) + 1] = 2 * TwoTo[m + i] /\ TwoTo[i + 1] = 2 * TwoTo[i]
    BY <2>1, TwoToStep
  <2>3. TwoTo[m] \in Nat /\ TwoTo[i] \in Nat /\ (m + i) + 1 = m + (i + 1)
    BY TwoToStep
  <2>4. TwoTo[m + (i + 1)] = TwoTo[m] * TwoTo[i + 1]
    BY <2>1, <2>2, <2>3
  <2> QED
    BY <2>4
<1> HIDE DEF Right
<1>3. Nat \subseteq Right
  BY <1>1, <1>2, SetInduction
<1> QED
  BY <1>3 DEF Right

LEMMA TwoToGrows ==
  ASSUME NEW m \in Nat, NEW n \in Nat, m <= n
  PROVE  TwoTo[n] = TwoTo[n - m] * TwoTo[m] /\ TwoTo[m] <= TwoTo[n]
<1>1. n - m \in Nat /\ (n - m) + m = n
  OBVIOUS
<1>2. TwoTo[n] = TwoTo[n - m] * TwoTo[m]
  BY <1>1, TwoToSum
<1>3. 1 <= TwoTo[n - m] /\ TwoTo[n - m] \in Nat /\ TwoTo[m] \in Nat
  BY <1>1, TwoToPositive
<1>4. 1 * TwoTo[m] <= TwoTo[n - m] * TwoTo[m]
  BY <1>3, ProductGrows
<1> QED
  BY <1>2, <1>3, <1>4

(* What a limb at a place is worth.                                         *)
Weight(i) == TwoTo[LimbBits * i]

LEMMA LimbsAre == LimbBits \in Nat \ {0} /\ ByteBits \in Nat \ {0} /\ LimbBytes \in Nat \ {0}
BY LimbAssumption DEF LimbBits

LEMMA BaseIs == Base \in Nat /\ Base >= 2
<1>1. LimbBits \in Nat /\ 1 <= LimbBits
  BY LimbsAre
<1>2. TwoTo[0 + 1] = 2
  BY TwoToStep
<1>3. TwoTo[1] <= TwoTo[LimbBits]
  BY <1>1, TwoToGrows
<1> QED
  BY <1>1, <1>2, <1>3, TwoToStep DEF Base

LEMMA WeightStep ==
  /\ Weight(0) = 1
  /\ \A i \in Nat : Weight(i) \in Nat \ {0} /\ Weight(i + 1) = Base * Weight(i)
<1>1. LimbBits \in Nat
  BY LimbsAre
<1>2. Weight(0) = 1
  BY <1>1, TwoToStep DEF Weight
<1>3. ASSUME NEW i \in Nat PROVE Weight(i) \in Nat \ {0} /\ Weight(i + 1) = Base * Weight(i)
  <2>1. LimbBits * i \in Nat /\ LimbBits * (i + 1) = LimbBits + LimbBits * i
    BY <1>1
  <2>2. TwoTo[LimbBits + LimbBits * i] = TwoTo[LimbBits] * TwoTo[LimbBits * i]
    BY <1>1, <2>1, TwoToSum
  <2> QED
    BY <2>1, <2>2, TwoToPositive DEF Weight, Base
<1> QED
  BY <1>2, <1>3

LEMMA WeightSum ==
  ASSUME NEW i \in Nat, NEW j \in Nat
  PROVE  Weight(i + j) = Weight(i) * Weight(j)
<1>1. LimbBits \in Nat /\ LimbBits * i \in Nat /\ LimbBits * j \in Nat
  BY LimbsAre
<1>2. LimbBits * (i + j) = LimbBits * i + LimbBits * j
  BY <1>1
<1> QED
  BY <1>1, <1>2, TwoToSum DEF Weight

-----------------------------------------------------------------------------
(* Numbers of limbs. *)

Whole(a) == a \in Seq(Int)

LEMMA LimbIs ==
  ASSUME NEW a, Whole(a), NEW i \in Int
  PROVE  /\ Limb(a, i) \in Int
         /\ i \in 1 .. Len(a) => Limb(a, i) = a[i]
         /\ i \notin 1 .. Len(a) => Limb(a, i) = 0
BY DEF Limb, Whole

LEMMA LowStep ==
  ASSUME NEW a, Whole(a)
  PROVE  /\ Low(a)[0] = 0
         /\ \A i \in Nat : Low(a)[i] \in Int /\ Low(a)[i + 1] = Low(a)[i] + Limb(a, i + 1) * Weight(i)
<1> DEFINE step == [i \in Nat |-> [x \in Int |-> x + Limb(a, i) * TwoTo[LimbBits * (i - 1)]]]
<1>1. \A i \in Nat, x \in Int : step[i][x] = x + Limb(a, i) * TwoTo[LimbBits * (i - 1)]
  OBVIOUS
<1>2. LimbBits \in Nat
  BY LimbsAre
<1> HIDE DEF step
<1> DEFINE extra == [i \in Nat |-> [x \in Int |-> IF i = 0 THEN 0 ELSE step[i][x]]]
<1>3. \A i \in Nat, x \in Int : extra[i][x] \in Int /\ (i # 0 => extra[i][x] = step[i][x])
  <2>1. ASSUME NEW i \in Nat, NEW x \in Int, i # 0 PROVE step[i][x] \in Int
    <3>1. i - 1 \in Nat /\ LimbBits * (i - 1) \in Nat
      BY <1>2, <2>1
    <3>2. TwoTo[LimbBits * (i - 1)] \in Int /\ Limb(a, i) \in Int
      <4>1. TwoTo[LimbBits * (i - 1)] \in Int /\ i \in Int
        BY <3>1, TwoToStep
      <4> QED
        BY <4>1, LimbIs, Zenon
    <3> QED
      BY <1>1, <3>2
  <2> QED
    BY <2>1
<1> HIDE DEF extra
<1>4. PICK f : IsRecursive(f, Nat, 0, extra, Int)
  <2>1. \A i \in Nat, x \in Int : extra[i][x] \in Int
    BY <1>3
  <2>2. 0 \in Int
    OBVIOUS
  <2> QED
    BY <2>1, <2>2, RecursionOn, Zenon
<1>5. f = [i \in Nat |-> IF i = 0 THEN 0 ELSE f[i - 1] + Limb(a, i) * TwoTo[LimbBits * (i - 1)]]
  <2>1. \A i \in Nat : i # 0 => extra[i][f[i - 1]] = f[i - 1] + Limb(a, i) * TwoTo[LimbBits * (i - 1)]
    BY <1>1, <1>3, <1>4 DEF IsRecursive
  <2> QED
    BY <1>4, <2>1 DEF IsRecursive
<1>6. Low(a) = [i \in Nat |-> IF i = 0 THEN 0 ELSE Low(a)[i - 1] + Limb(a, i) * TwoTo[LimbBits * (i - 1)]]
  BY <1>5 DEF Low
<1>7. ASSUME NEW i \in Nat PROVE Low(a)[i + 1] = Low(a)[i] + Limb(a, i + 1) * Weight(i)
  <2>1. i + 1 \in Nat /\ i + 1 # 0 /\ (i + 1) - 1 = i
    OBVIOUS
  <2> QED
    BY <1>6, <2>1 DEF Weight
<1>8. Low(a)[0] = 0
  BY <1>6
<1> DEFINE Typed == {i \in Nat : Low(a)[i] \in Int}
<1>9. 0 \in Typed
  BY <1>8
<1>10. ASSUME NEW i \in Nat, i \in Typed PROVE i + 1 \in Typed
  <2>1. Low(a)[i] \in Int
    BY <1>10
  <2>2. Limb(a, i + 1) \in Int /\ Weight(i) \in Int
    <3>1. Weight(i) \in Int /\ i + 1 \in Int
      BY WeightStep
    <3> QED
      BY <3>1, LimbIs, Zenon
  <2>3. Low(a)[i + 1] \in Int
    BY <1>7, <2>1, <2>2
  <2> QED
    BY <2>3
<1> HIDE DEF Typed
<1>11. Nat \subseteq Typed
  BY <1>9, <1>10, SetInduction
<1> QED
  BY <1>7, <1>8, <1>11 DEF Typed

LEMMA LimbTyped ==
  ASSUME NEW a, Whole(a)
  PROVE  \A i \in Int : Limb(a, i) \in Int
BY LimbIs

(* A sum of limbs grows by one limb.                                        *)
LEMMA LowNext ==
  ASSUME NEW a, Whole(a), NEW i \in Nat
  PROVE  /\ i + 1 \in Int /\ Limb(a, i + 1) \in Int /\ Low(a)[i] \in Int /\ Weight(i) \in Int
         /\ Low(a)[i + 1] = Low(a)[i] + Limb(a, i + 1) * Weight(i)
         /\ Low(a)[i + 1] \in Int
<1>1. i + 1 \in Nat /\ i + 1 \in Int /\ Weight(i) \in Int
  BY WeightStep
<1>2. Limb(a, i + 1) \in Int
  BY <1>1, LimbTyped, Zenon
<1> QED
  BY <1>1, <1>2, LowStep

(* The lowest limbs from a place on mean what they mean in a sequence of    *)
(* their own, times the weight of the place.                                *)
LEMMA LowSplit ==
  ASSUME NEW a, NEW h, Whole(a), Whole(h), NEW s \in Nat, NEW n \in Nat,
         \A i \in 1 .. n : Limb(h, i) = Limb(a, s + i)
  PROVE  Low(a)[s + n] = Low(a)[s] + Weight(s) * Low(h)[n]
<1> DEFINE Right == {i \in Nat : i <= n => Low(a)[s + i] = Low(a)[s] + Weight(s) * Low(h)[i]}
<1>1. 0 \in Right
  <2>1. Low(h)[0] = 0 /\ Low(a)[s] \in Int /\ Weight(s) \in Int /\ s + 0 = s
    BY LowStep, WeightStep
  <2>2. Low(a)[s + 0] = Low(a)[s] + Weight(s) * Low(h)[0]
    BY <2>1
  <2> QED
    BY <2>2
<1>2. ASSUME NEW i \in Nat, i \in Right PROVE i + 1 \in Right
  <2>1. SUFFICES ASSUME i + 1 <= n PROVE Low(a)[s + (i + 1)] = Low(a)[s] + Weight(s) * Low(h)[i + 1]
    OBVIOUS
  <2>2. Low(a)[s + i] = Low(a)[s] + Weight(s) * Low(h)[i]
    BY <1>2, <2>1
  <2>3. Limb(h, i + 1) = Limb(a, (s + i) + 1) /\ s + i \in Nat /\ s + (i + 1) = (s + i) + 1
    <3>1. i + 1 \in 1 .. n /\ s + (i + 1) = (s + i) + 1
      BY <2>1
    <3> QED
      BY <3>1
  <2>4. /\ Low(a)[(s + i) + 1] = Low(a)[s + i] + Limb(a, (s + i) + 1) * Weight(s + i)
        /\ Limb(a, (s + i) + 1) \in Int
    BY <2>3, LowNext
  <2>5. Low(h)[i + 1] = Low(h)[i] + Limb(h, i + 1) * Weight(i) /\ Low(h)[i] \in Int /\ Weight(i) \in Int
    BY LowNext
  <2>6. Weight(s + i) = Weight(s) * Weight(i)
    BY WeightSum
  <2>7. Weight(s) \in Int /\ Low(a)[s] \in Int
    BY LowNext
  <2>8. Limb(a, (s + i) + 1) * (Weight(s) * Weight(i)) = Weight(s) * (Limb(a, (s + i) + 1) * Weight(i))
    BY <2>4, <2>5, <2>7
  <2>9. Weight(s) * (Low(h)[i] + Limb(h, i + 1) * Weight(i))
          = Weight(s) * Low(h)[i] + Weight(s) * (Limb(h, i + 1) * Weight(i))
    BY <2>3, <2>4, <2>5, <2>7
  <2>10. Low(a)[s + (i + 1)] = (Low(a)[s] + Weight(s) * Low(h)[i]) + Weight(s) * (Limb(h, i + 1) * Weight(i))
    BY <2>2, <2>3, <2>4, <2>6, <2>8
  <2>11. Low(a)[s + (i + 1)] = Low(a)[s] + Weight(s) * (Low(h)[i] + Limb(h, i + 1) * Weight(i))
    <3>1. {Weight(s) * Low(h)[i], Weight(s) * (Limb(h, i + 1) * Weight(i))} \subseteq Int
      BY <2>3, <2>4, <2>5, <2>7
    <3> QED
      BY <2>7, <2>9, <2>10, <3>1
  <2> QED
    BY <2>5, <2>11
<1> HIDE DEF Right
<1>3. Nat \subseteq Right
  BY <1>1, <1>2, SetInduction
<1> QED
  BY <1>3 DEF Right

(* Sums of limbs are linear in the limbs,                                   *)
Combined(c, a, k, b, n) == \A i \in 1 .. n : Limb(c, i) = Limb(a, i) + k * Limb(b, i)

LEMMA LowLinear ==
  ASSUME NEW a, NEW b, NEW c, Whole(a), Whole(b), Whole(c), NEW k \in Int, NEW n \in Nat,
         Combined(c, a, k, b, n)
  PROVE  Low(c)[n] = Low(a)[n] + k * Low(b)[n]
<1> DEFINE Right == {i \in Nat : i <= n => Low(c)[i] = Low(a)[i] + k * Low(b)[i]}
<1>1. 0 \in Right
  <2>1. Low(a)[0] = 0 /\ Low(b)[0] = 0 /\ Low(c)[0] = 0
    BY LowStep
  <2> QED
    BY <2>1
<1>2. ASSUME NEW i \in Nat, i \in Right PROVE i + 1 \in Right
  <2>1. SUFFICES ASSUME i + 1 <= n PROVE Low(c)[i + 1] = Low(a)[i + 1] + k * Low(b)[i + 1]
    OBVIOUS
  <2>2. Low(c)[i] = Low(a)[i] + k * Low(b)[i]
    BY <1>2, <2>1
  <2>3. Limb(c, i + 1) = Limb(a, i + 1) + k * Limb(b, i + 1)
    <3>1. i + 1 \in 1 .. n
      BY <2>1
    <3> QED
      BY <3>1 DEF Combined
  <2>4. /\ Low(a)[i + 1] = Low(a)[i] + Limb(a, i + 1) * Weight(i) /\ Limb(a, i + 1) \in Int
        /\ Low(a)[i] \in Int /\ Weight(i) \in Int
    BY LowNext
  <2>5. /\ Low(b)[i + 1] = Low(b)[i] + Limb(b, i + 1) * Weight(i) /\ Limb(b, i + 1) \in Int
        /\ Low(b)[i] \in Int
    BY LowNext
  <2>6. Low(c)[i + 1] = Low(c)[i] + Limb(c, i + 1) * Weight(i)
    BY LowNext
  <2> QED
    BY <2>2, <2>3, <2>4, <2>5, <2>6
<1> HIDE DEF Right
<1>3. Nat \subseteq Right
  BY <1>1, <1>2, SetInduction
<1> QED
  BY <1>3 DEF Right

(* and the same when the limbs are.                                         *)
LEMMA LowAgree ==
  ASSUME NEW a, NEW b, Whole(a), Whole(b), NEW n \in Nat,
         \A i \in 1 .. n : Limb(a, i) = Limb(b, i)
  PROVE  Low(a)[n] = Low(b)[n]
<1>1. PICK k \in Int : k = 0
  OBVIOUS
<1>2. Combined(a, b, k, b, n)
  <2> SUFFICES ASSUME NEW i \in 1 .. n PROVE Limb(a, i) = Limb(b, i) + k * Limb(b, i)
    BY DEF Combined
  <2>1. i \in Int
    OBVIOUS
  <2>2. Limb(b, i) \in Int
    BY <2>1, LimbTyped, Zenon
  <2> QED
    BY <1>1, <2>2
<1>3. Low(a)[n] = Low(b)[n] + k * Low(b)[n]
  BY <1>2, LowLinear
<1>4. Low(b)[n] \in Int
  BY LowStep
<1> QED
  BY <1>1, <1>3, <1>4

(* Above the limbs there are zeros.                                         *)
LEMMA LowBeyond ==
  ASSUME NEW a, Whole(a), NEW n \in Nat, Len(a) <= n
  PROVE  Low(a)[n] = Value(a) /\ Value(a) \in Int
<1>1. Len(a) \in Nat
  BY DEF Whole
<1> DEFINE Same == {i \in Nat : Low(a)[Len(a) + i] = Low(a)[Len(a)]}
<1>2. 0 \in Same
  BY <1>1
<1>3. ASSUME NEW i \in Nat, i \in Same PROVE i + 1 \in Same
  <2>1. Low(a)[Len(a) + i] = Low(a)[Len(a)] /\ Len(a) + i \in Nat
    BY <1>1, <1>3
  <2>2. /\ Low(a)[(Len(a) + i) + 1] = Low(a)[Len(a) + i] + Limb(a, (Len(a) + i) + 1) * Weight(Len(a) + i)
        /\ Low(a)[Len(a) + i] \in Int /\ Weight(Len(a) + i) \in Int
    BY <2>1, LowNext
  <2>3. Limb(a, (Len(a) + i) + 1) = 0
    <3>1. (Len(a) + i) + 1 \in Int /\ (Len(a) + i) + 1 \notin 1 .. Len(a)
      BY <1>1
    <3> QED
      BY <3>1, LimbIs, Zenon
  <2>4. Low(a)[Len(a) + (i + 1)] = Low(a)[Len(a)] /\ (Len(a) + i) + 1 = Len(a) + (i + 1)
    BY <1>1, <2>1, <2>2, <2>3
  <2> QED
    BY <2>4
<1> HIDE DEF Same
<1>4. Nat \subseteq Same
  BY <1>2, <1>3, SetInduction
<1>5. n - Len(a) \in Nat /\ Len(a) + (n - Len(a)) = n
  BY <1>1
<1>6. Low(a)[n] = Low(a)[Len(a)]
  BY <1>4, <1>5 DEF Same
<1> QED
  BY <1>1, <1>6, LowStep DEF Value

(* What is carried from limb to limb changes no sum.                        *)
CarriesOver(d, s, c, n) ==
  /\ \A i \in 0 .. n : c[i] \in Int
  /\ \A i \in 1 .. n : Limb(d, i) + c[i] * Base = Limb(s, i) + c[i - 1]

LEMMA Carrying ==
  ASSUME NEW d, NEW s, Whole(d), Whole(s), NEW c, NEW n \in Nat, CarriesOver(d, s, c, n)
  PROVE  Low(d)[n] + c[n] * Weight(n) = Low(s)[n] + c[0]
<1> DEFINE Right == {i \in Nat : i <= n => Low(d)[i] + c[i] * Weight(i) = Low(s)[i] + c[0]}
<1>1. 0 \in Right
  <2>1. Low(d)[0] = 0 /\ Low(s)[0] = 0 /\ Weight(0) = 1 /\ c[0] \in Int
    <3>1. 0 \in 0 .. n
      OBVIOUS
    <3> QED
      BY <3>1, LowStep, WeightStep DEF CarriesOver
  <2> QED
    BY <2>1
<1>2. ASSUME NEW i \in Nat, i \in Right PROVE i + 1 \in Right
  <2>1. SUFFICES ASSUME i + 1 <= n
                 PROVE Low(d)[i + 1] + c[i + 1] * Weight(i + 1) = Low(s)[i + 1] + c[0]
    OBVIOUS
  <2>2. Low(d)[i] + c[i] * Weight(i) = Low(s)[i] + c[0]
    BY <1>2, <2>1
  <2>3. /\ Limb(d, i + 1) + c[i + 1] * Base = Limb(s, i + 1) + c[i]
        /\ c[i + 1] \in Int /\ c[i] \in Int /\ c[0] \in Int
    <3>1. i + 1 \in 1 .. n /\ i \in 0 .. n /\ 0 \in 0 .. n /\ (i + 1) - 1 = i
      BY <2>1
    <3> QED
      BY <3>1 DEF CarriesOver
  <2>4. /\ Low(d)[i + 1] = Low(d)[i] + Limb(d, i + 1) * Weight(i) /\ Limb(d, i + 1) \in Int
        /\ Low(d)[i] \in Int /\ Weight(i) \in Int
    BY LowNext
  <2>5. /\ Low(s)[i + 1] = Low(s)[i] + Limb(s, i + 1) * Weight(i) /\ Limb(s, i + 1) \in Int
        /\ Low(s)[i] \in Int
    BY LowNext
  <2>6. Weight(i + 1) = Base * Weight(i) /\ Base \in Int
    BY WeightStep, BaseIs
  <2>7. (Limb(d, i + 1) + c[i + 1] * Base) * Weight(i) = (Limb(s, i + 1) + c[i]) * Weight(i)
    BY <2>3
  <2>8. /\ (Limb(d, i + 1) + c[i + 1] * Base) * Weight(i)
             = Limb(d, i + 1) * Weight(i) + c[i + 1] * Weight(i + 1)
        /\ (Limb(s, i + 1) + c[i]) * Weight(i) = Limb(s, i + 1) * Weight(i) + c[i] * Weight(i)
        /\ {Limb(d, i + 1) * Weight(i), c[i + 1] * Weight(i + 1), Limb(s, i + 1) * Weight(i),
            c[i] * Weight(i)} \subseteq Int
    BY <2>3, <2>4, <2>5, <2>6
  <2> QED
    BY <2>2, <2>3, <2>4, <2>5, <2>7, <2>8
<1> HIDE DEF Right
<1>3. Nat \subseteq Right
  BY <1>1, <1>2, SetInduction
<1> QED
  BY <1>3 DEF Right

(* Digits mean less than the weight of the next.                            *)
LEMMA LowBound ==
  ASSUME NEW a, Whole(a), NEW n \in Nat, \A i \in 1 .. n : Limb(a, i) \in Digits
  PROVE  Low(a)[n] \in 0 .. Weight(n) - 1
<1> DEFINE Right == {i \in Nat : i <= n => Low(a)[i] \in 0 .. Weight(i) - 1}
<1>1. 0 \in Right
  BY LowStep, WeightStep
<1>2. ASSUME NEW i \in Nat, i \in Right PROVE i + 1 \in Right
  <2>1. SUFFICES ASSUME i + 1 <= n PROVE Low(a)[i + 1] \in 0 .. Weight(i + 1) - 1
    OBVIOUS
  <2>2. Low(a)[i] \in 0 .. Weight(i) - 1
    BY <1>2, <2>1
  <2>3. Limb(a, i + 1) \in 0 .. Base - 1
    <3>1. i + 1 \in 1 .. n
      BY <2>1
    <3> QED
      BY <3>1 DEF Digits
  <2>4. /\ Low(a)[i + 1] = Low(a)[i] + Limb(a, i + 1) * Weight(i)
        /\ Low(a)[i + 1] \in Int /\ Low(a)[i] \in Int
    BY LowNext
  <2>5. Weight(i + 1) = Base * Weight(i) /\ Base \in Int /\ Weight(i) \in Nat
    BY WeightStep, BaseIs
  <2>6. Limb(a, i + 1) * Weight(i) <= (Base - 1) * Weight(i) /\ 0 <= Limb(a, i + 1) * Weight(i)
    <3>1. 0 <= Limb(a, i + 1) /\ Limb(a, i + 1) <= Base - 1 /\ Limb(a, i + 1) \in Int /\ Base - 1 \in Int
      BY <2>3, <2>5
    <3>2. 0 * Weight(i) <= Limb(a, i + 1) * Weight(i)
      BY <2>5, <3>1, ProductGrows
    <3> QED
      BY <2>5, <3>1, <3>2, ProductGrows
  <2>7. (Base - 1) * Weight(i) = Base * Weight(i) - Weight(i) /\ Base * Weight(i) \in Int
    BY <2>5
  <2>8. Limb(a, i + 1) * Weight(i) \in Int
    <3>1. Limb(a, i + 1) \in Int
      BY LowNext
    <3> QED
      BY <2>5, <3>1
  <2>9. Weight(i + 1) \in Int /\ Weight(i + 1) = Base * Weight(i)
    BY <2>5, <2>7
  <2> HIDE DEF Right
  <2> QED
    BY <2>2, <2>4, <2>5, <2>6, <2>7, <2>8, <2>9
<1> HIDE DEF Right
<1>3. Nat \subseteq Right
  BY <1>1, <1>2, SetInduction
<1> QED
  BY <1>3 DEF Right

-----------------------------------------------------------------------------
(* Numbers without leading zeros. *)

IsNumber(a) ==
  /\ a \in Seq(Digits)
  /\ Len(a) >= 1
  /\ Len(a) = 1 \/ a[Len(a)] # 0

LEMMA DigitsAre == 0 \in Digits /\ 1 \in Digits /\ Digits \subseteq Nat
BY BaseIs DEF Digits

LEMMA DigitsWhole == \A a \in Seq(Digits) : Whole(a)
<1> TAKE a \in Seq(Digits)
<1>1. Digits \subseteq Int
  BY BaseIs DEF Digits
<1>2. Len(a) \in Nat /\ a \in [1 .. Len(a) -> Digits]
  OBVIOUS
<1>3. a \in [1 .. Len(a) -> Int]
  BY <1>1, <1>2
<1>4. a \in Seq(Int)
  BY <1>2, <1>3
<1> QED
  BY <1>4 DEF Whole

LEMMA NumberWhole ==
  ASSUME NEW a, IsNumber(a)
  PROVE  /\ Whole(a) /\ Len(a) \in Nat \ {0} /\ a \in Seq(Digits)
         /\ \A i \in Int : Limb(a, i) \in Digits
<1>1. a \in Seq(Digits) /\ Len(a) \in Nat \ {0}
  BY DEF IsNumber
<1>2. ASSUME NEW i \in Int PROVE Limb(a, i) \in Digits
  BY <1>1, DigitsAre DEF Limb
<1> QED
  BY <1>1, <1>2, DigitsWhole

(* What is left when the leading zeros are stripped from the lowest limbs.  *)
LEMMA KeptIs ==
  ASSUME NEW a \in Seq(Digits)
  PROVE  \A n \in 0 .. Len(a) :
           /\ Kept(a)[n] \in 0 .. n
           /\ n >= 1 => Kept(a)[n] >= 1
           /\ Kept(a)[n] <= 1 \/ a[Kept(a)[n]] # 0
           /\ \A j \in Kept(a)[n] + 1 .. n : a[j] = 0
<1> DEFINE step == [i \in Nat |-> [x \in Nat |-> IF i <= 1 \/ a[i] # 0 THEN i ELSE x]]
<1>1. \A i, x \in Nat : step[i][x] \in Nat /\ step[i][x] = IF i <= 1 \/ a[i] # 0 THEN i ELSE x
  OBVIOUS
<1>2. Len(a) \in Nat
  OBVIOUS
<1> HIDE DEF step
<1>3. PICK f : IsRecursive(f, 0 .. Len(a), 0, step, Nat)
  BY <1>1, <1>2, RecursionTo
<1>4. ASSUME NEW i \in 0 .. Len(a)
      PROVE  f[i] \in Nat /\ f[i] = IF i <= 1 \/ a[i] # 0 THEN i ELSE f[i - 1]
  <2>1. f[i] \in Nat /\ f[i] = IF i = 0 THEN 0 ELSE step[i][f[i - 1]]
    BY <1>3 DEF IsRecursive
  <2>2. ASSUME i # 0 PROVE f[i] = IF i <= 1 \/ a[i] # 0 THEN i ELSE f[i - 1]
    <3>1. i - 1 \in 0 .. Len(a) /\ i \in Nat
      BY <2>2
    <3>2. f[i - 1] \in Nat
      BY <1>3, <3>1 DEF IsRecursive
    <3> QED
      BY <1>1, <2>1, <2>2, <3>1, <3>2
  <2> QED
    BY <2>1, <2>2
<1>5. f = [i \in 0 .. Len(a) |-> IF i <= 1 \/ a[i] # 0 THEN i ELSE f[i - 1]]
  <2>1. f = [i \in 0 .. Len(a) |-> f[i]]
    BY <1>3 DEF IsRecursive
  <2> QED
    BY <1>4, <2>1
<1>6. Kept(a) = [i \in 0 .. Len(a) |-> IF i <= 1 \/ a[i] # 0 THEN i ELSE Kept(a)[i - 1]]
  BY <1>5 DEF Kept
<1> DEFINE Right == {n \in Nat : n <= Len(a) =>
                       /\ Kept(a)[n] \in 0 .. n
                       /\ n >= 1 => Kept(a)[n] >= 1
                       /\ Kept(a)[n] <= 1 \/ a[Kept(a)[n]] # 0
                       /\ \A j \in Kept(a)[n] + 1 .. n : a[j] = 0}
<1>7. 0 \in Right
  BY <1>2, <1>6
<1>8. ASSUME NEW n \in Nat, n \in Right PROVE n + 1 \in Right
  <2>1. SUFFICES ASSUME n + 1 <= Len(a)
                 PROVE  /\ Kept(a)[n + 1] \in 0 .. n + 1
                        /\ n + 1 >= 1 => Kept(a)[n + 1] >= 1
                        /\ Kept(a)[n + 1] <= 1 \/ a[Kept(a)[n + 1]] # 0
                        /\ \A j \in Kept(a)[n + 1] + 1 .. n + 1 : a[j] = 0
    OBVIOUS
  <2>2. n + 1 \in 0 .. Len(a) /\ (n + 1) - 1 = n
    BY <1>2, <2>1
  <2>3. Kept(a)[n + 1] = IF n + 1 <= 1 \/ a[n + 1] # 0 THEN n + 1 ELSE Kept(a)[n]
    BY <1>6, <2>2
  <2>4. CASE n + 1 <= 1 \/ a[n + 1] # 0
    BY <2>3, <2>4
  <2>5. CASE n + 1 > 1 /\ a[n + 1] = 0
    BY <1>8, <2>1, <2>3, <2>5
  <2> QED
    BY <2>4, <2>5
<1> HIDE DEF Right
<1>9. Nat \subseteq Right
  BY <1>7, <1>8, SetInduction
<1> QED
  BY <1>2, <1>9 DEF Right

(* Trimming changes no value, and nothing that is a number already.         *)
LEMMA TrimmedIs ==
  ASSUME NEW a \in Seq(Digits), Len(a) >= 1
  PROVE  /\ IsNumber(Trimmed(a)) /\ Value(Trimmed(a)) = Value(a)
         /\ Len(Trimmed(a)) <= Len(a)
         /\ IsNumber(a) => Trimmed(a) = a
<1> DEFINE k == Kept(a)[Len(a)]
           t == SubSeq(a, 1, k)
<1>1. /\ k \in 1 .. Len(a) /\ Len(a) \in Nat
      /\ k <= 1 \/ a[k] # 0
      /\ \A j \in k + 1 .. Len(a) : a[j] = 0
  <2>1. Len(a) \in 0 .. Len(a) /\ Len(a) \in Nat
    OBVIOUS
  <2> QED
    BY <2>1, KeptIs
<1>2. Trimmed(a) = t
  BY DEF Trimmed
<1> HIDE DEF k
<1>3. t \in Seq(Digits) /\ Len(t) = k /\ \A i \in 1 .. k : t[i] = a[i]
  BY <1>1
<1> HIDE DEF t
<1>4. IsNumber(t)
  BY <1>1, <1>3 DEF IsNumber
<1>5. Whole(t) /\ Whole(a)
  BY <1>3, DigitsWhole
<1>6. ASSUME NEW i \in 1 .. Len(a) PROVE Limb(t, i) = Limb(a, i)
  <2>1. i \in Int /\ Limb(a, i) = a[i]
    BY <1>5, LimbIs
  <2>2. CASE i \in 1 .. k
    BY <1>3, <1>5, <2>1, <2>2, LimbIs
  <2>3. CASE i \notin 1 .. k
    <3>1. i \in k + 1 .. Len(a)
      BY <1>1, <2>3
    <3> QED
      BY <1>1, <1>3, <1>5, <2>1, <2>3, <3>1, LimbIs
  <2> QED
    BY <2>2, <2>3
<1>7. Low(t)[Len(a)] = Low(a)[Len(a)]
  BY <1>1, <1>5, <1>6, LowAgree
<1>8. Low(t)[Len(a)] = Value(t)
  BY <1>1, <1>3, <1>5, LowBeyond
<1>9. IsNumber(a) => t = a
  <2>1. ASSUME IsNumber(a) PROVE k = Len(a)
    BY <1>1, <2>1 DEF IsNumber
  <2>2. k = Len(a) => t = a
    BY <1>1, <1>3
  <2> QED
    BY <2>1, <2>2
<1> QED
  BY <1>1, <1>2, <1>3, <1>4, <1>7, <1>8, <1>9 DEF Value

LEMMA NumbersAre == \A a : a \in Numbers <=> IsNumber(a)
<1> TAKE a
<1>1. ASSUME a \in Numbers PROVE IsNumber(a)
  <2>1. a \in Seq(Digits) /\ a # <<>> /\ a = Trimmed(a)
    BY <1>1 DEF Numbers, Canonical
  <2>2. Len(a) >= 1
    BY <2>1
  <2> QED
    BY <2>1, <2>2, TrimmedIs
<1>2. ASSUME IsNumber(a) PROVE a \in Numbers
  <2>1. a \in Seq(Digits) /\ Len(a) >= 1
    BY <1>2 DEF IsNumber
  <2> QED
    BY <1>2, <2>1, TrimmedIs DEF Numbers, Canonical
<1> QED
  BY <1>1, <1>2

LEMMA SeqOf ==
  ASSUME NEW S, NEW n \in Nat, NEW f \in [1 .. n -> S]
  PROVE  f \in Seq(S) /\ Len(f) = n
OBVIOUS

LEMMA WeightGrows ==
  ASSUME NEW m \in Nat, NEW n \in Nat, m <= n
  PROVE  Weight(m) <= Weight(n)
<1>1. LimbBits \in Nat /\ LimbBits * m \in Nat /\ LimbBits * n \in Nat
  BY LimbsAre
<1>2. LimbBits * m <= LimbBits * n
  <2>1. m * LimbBits <= n * LimbBits
    BY <1>1, ProductGrows
  <2> QED
    BY <1>1, <2>1
<1> QED
  BY <1>1, <1>2, TwoToGrows DEF Weight

(* A number lies between the weight of its last limb and of the next.       *)
LEMMA NumberBounds ==
  ASSUME NEW a, IsNumber(a)
  PROVE  /\ Value(a) \in Nat /\ Value(a) < Weight(Len(a))
         /\ Len(a) > 1 => Weight(Len(a) - 1) <= Value(a)
         /\ Low(a)[Len(a) - 1] \in 0 .. Weight(Len(a) - 1) - 1
         /\ a[Len(a)] \in Digits
         /\ Value(a) = Low(a)[Len(a) - 1] + a[Len(a)] * Weight(Len(a) - 1)
<1> DEFINE n == Len(a)
<1>1. /\ Whole(a) /\ n \in Nat \ {0}
      /\ \A i \in Int : Limb(a, i) \in Digits
  BY NumberWhole
<1>2. n - 1 \in Nat /\ (n - 1) + 1 = n /\ n \in Nat /\ n \in Int
  BY <1>1
<1>3. Low(a)[n] \in 0 .. Weight(n) - 1 /\ Low(a)[n - 1] \in 0 .. Weight(n - 1) - 1
  BY <1>1, <1>2, LowBound
<1>4. Limb(a, n) = a[n]
  BY <1>1, <1>2, LimbIs
<1>5. a[n] \in Digits
  <2>1. Limb(a, n) \in Digits
    BY <1>1, <1>2, Zenon
  <2> QED
    BY <1>4, <2>1
<1>6. Low(a)[n] = Low(a)[n - 1] + a[n] * Weight(n - 1)
  BY <1>1, <1>2, <1>4, LowNext
<1>7. Weight(n) \in Nat /\ Weight(n - 1) \in Nat
  BY <1>2, WeightStep
<1>8. ASSUME n > 1 PROVE Weight(n - 1) <= Low(a)[n]
  <2>1. a[n] \in Nat /\ 1 <= a[n]
    <3>1. Len(a) # 1
      BY <1>8
    <3>2. a[Len(a)] # 0
      BY <3>1 DEF IsNumber
    <3>3. a[Len(a)] \in Nat
      BY <1>5, DigitsAre
    <3> QED
      BY <3>2, <3>3
  <2>2. 1 * Weight(n - 1) <= a[n] * Weight(n - 1)
    BY <1>7, <2>1, ProductGrows
  <2>3. a[n] * Weight(n - 1) \in Int
    BY <1>7, <2>1
  <2> HIDE DEF n
  <2> QED
    BY <1>3, <1>6, <1>7, <2>2, <2>3
<1>9. Low(a)[n] \in Nat /\ Low(a)[n] < Weight(n)
  BY <1>3, <1>7
<1> QED
  BY <1>3, <1>5, <1>6, <1>8, <1>9 DEF Value

LEMMA DigitIs ==
  ASSUME NEW d \in Digits
  PROVE  IsNumber(<<d>>) /\ Value(<<d>>) = d
<1>1. IsNumber(<<d>>)
  BY DEF IsNumber
<1>2. Len(<<d>>) = 1 /\ <<d>>[1] = d /\ 1 - 1 = 0
  OBVIOUS
<1>3. Value(<<d>>) = Low(<<d>>)[0] + d * Weight(0) /\ Low(<<d>>)[0] \in 0 .. Weight(0) - 1
  BY <1>1, <1>2, NumberBounds
<1> QED
  BY <1>1, <1>3, WeightStep, DigitsAre

LEMMA ZeroAndOne ==
  /\ IsNumber(Zero) /\ Value(Zero) = 0
  /\ IsNumber(One) /\ Value(One) = 1
  /\ \A a : IsNumber(a) => (a = Zero <=> Value(a) = 0) /\ (a = One <=> Value(a) = 1)
<1>1. IsNumber(Zero) /\ Value(Zero) = 0
  BY DigitsAre, DigitIs DEF Zero
<1>2. IsNumber(One) /\ Value(One) = 1
  BY DigitsAre, DigitIs DEF One
<1>3. ASSUME NEW a, IsNumber(a), Value(a) < 2 PROVE a = <<Value(a)>>
  <2>1. Len(a) \in Nat \ {0}
    BY <1>3, NumberWhole
  <2> DEFINE n == Len(a)
  <2>2. n = 1
    <3> HIDE DEF n
    <3>1. SUFFICES ASSUME n > 1 PROVE FALSE
      <4>1. n \in Nat \ {0}
        BY <2>1 DEF n
      <4> QED
        BY <4>1
    <3> USE DEF n
    <3>2. Weight(Len(a) - 1) <= Value(a) /\ Value(a) \in Nat
      BY <1>3, <3>1, NumberBounds
    <3>3. Weight(1) = Base /\ Weight(1) <= Weight(Len(a) - 1)
      <4>1. 1 \in Nat /\ Len(a) - 1 \in Nat /\ 1 <= Len(a) - 1
        BY <2>1, <3>1
      <4>2. Weight(0 + 1) = Base * Weight(0) /\ Weight(0) = 1
        BY WeightStep
      <4> QED
        BY <4>1, <4>2, WeightGrows, BaseIs
    <3>4. Weight(Len(a) - 1) \in Nat
      <4>1. Len(a) - 1 \in Nat
        BY <2>1
      <4> QED
        BY <4>1, WeightStep
    <3> QED
      BY <1>3, <3>2, <3>3, <3>4, BaseIs
  <2>3. a = <<a[1]>> /\ a[1] \in Digits
    <3>1. a \in Seq(Digits) /\ Len(a) = 1
      BY <1>3, <2>2 DEF IsNumber
    <3> QED
      BY <3>1
  <2> QED
    BY <2>3, DigitIs
<1>4. ASSUME NEW a, IsNumber(a) PROVE (a = Zero <=> Value(a) = 0) /\ (a = One <=> Value(a) = 1)
  BY <1>1, <1>2, <1>3, <1>4 DEF Zero, One
<1> QED
  BY <1>1, <1>2, <1>4

(* The longer number is the larger.                                         *)
LEMMA LongerIsMore ==
  ASSUME NEW x, NEW y, IsNumber(x), IsNumber(y), Len(x) > Len(y)
  PROVE  Value(x) > Value(y)
<1>1. Len(x) \in Nat \ {0} /\ Len(y) \in Nat \ {0}
  BY NumberWhole
<1>2. Len(x) > 1 /\ Len(x) - 1 \in Nat /\ Len(y) <= Len(x) - 1
  BY <1>1
<1>3. Weight(Len(x) - 1) <= Value(x) /\ Value(y) < Weight(Len(y)) /\ Value(x) \in Nat /\ Value(y) \in Nat
  BY <1>2, NumberBounds
<1>4. Weight(Len(y)) <= Weight(Len(x) - 1) /\ Weight(Len(y)) \in Nat /\ Weight(Len(x) - 1) \in Nat
  BY <1>1, <1>2, WeightGrows, WeightStep
<1> QED
  BY <1>3, <1>4

(* Comparing limbs compares numbers.                                        *)
LEMMA GeIs ==
  ASSUME NEW a, NEW b, IsNumber(a), IsNumber(b)
  PROVE  Ge(a, b) <=> Value(a) >= Value(b)
<1> DEFINE n == Len(a)
           step == [i \in Nat |-> [x \in BOOLEAN |-> a[i] > b[i] \/ (a[i] = b[i] /\ x)]]
<1>1. \A i \in Nat, x \in BOOLEAN : step[i][x] \in BOOLEAN
                                     /\ (step[i][x] <=> a[i] > b[i] \/ (a[i] = b[i] /\ x))
  OBVIOUS
<1>2. n \in Nat /\ Whole(a) /\ Whole(b) /\ Len(b) \in Nat
      /\ a \in Seq(Digits) /\ b \in Seq(Digits)
  BY NumberWhole
<1> HIDE DEF step
<1>3. PICK f : IsRecursive(f, 0 .. n, TRUE, step, BOOLEAN)
  BY <1>1, <1>2, RecursionTo
<1>4. f = [i \in 0 .. n |-> i = 0 \/ a[i] > b[i] \/ (a[i] = b[i] /\ f[i - 1])]
  <2>1. f = [i \in 0 .. n |-> f[i]]
    BY <1>3 DEF IsRecursive
  <2>2. ASSUME NEW i \in 0 .. n PROVE f[i] = (i = 0 \/ a[i] > b[i] \/ (a[i] = b[i] /\ f[i - 1]))
    <3>1. CASE i = 0
      <4>1. f[i] = TRUE
        BY <1>3, <3>1 DEF IsRecursive
      <4> QED
        BY <3>1, <4>1
    <3>2. CASE i # 0
      <4>1. i - 1 \in 0 .. n /\ i \in Nat
        BY <3>2
      <4>2. f[i - 1] \in BOOLEAN /\ f[i] \in BOOLEAN /\ f[i] = step[i][f[i - 1]]
        BY <1>3, <3>2, <4>1 DEF IsRecursive
      <4>3. f[i] <=> a[i] > b[i] \/ (a[i] = b[i] /\ f[i - 1])
        BY <1>1, <4>1, <4>2
      <4> QED
        BY <3>2, <4>2, <4>3
    <3> QED
      BY <3>1, <3>2
  <2> QED
    BY <2>1, <2>2
<1> DEFINE ge == CHOOSE g : g = [i \in 0 .. n |-> i = 0 \/ a[i] > b[i] \/ (a[i] = b[i] /\ g[i - 1])]
<1>5. ge = [i \in 0 .. n |-> i = 0 \/ a[i] > b[i] \/ (a[i] = b[i] /\ ge[i - 1])]
  BY <1>4
<1>6. Ge(a, b) <=> IF n # Len(b) THEN n > Len(b) ELSE ge[n]
  BY DEF Ge
<1> HIDE DEF ge
<1>7. ASSUME n = Len(b) PROVE ge[n] <=> Low(a)[n] >= Low(b)[n]
  <2> DEFINE Right == {i \in Nat : i <= n => (ge[i] <=> Low(a)[i] >= Low(b)[i])}
  <2>1. 0 \in Right
    <3>1. ge[0] <=> TRUE
      <4>1. 0 \in 0 .. n
        BY <1>2
      <4> QED
        BY <1>5, <4>1, Zenon
    <3>2. Low(a)[0] = 0 /\ Low(b)[0] = 0
      BY <1>2, LowStep
    <3> QED
      BY <3>1, <3>2
  <2>2. ASSUME NEW i \in Nat, i \in Right PROVE i + 1 \in Right
    <3>1. SUFFICES ASSUME i + 1 <= n PROVE ge[i + 1] <=> Low(a)[i + 1] >= Low(b)[i + 1]
      OBVIOUS
    <3>2. i + 1 \in 0 .. n /\ i + 1 # 0 /\ (i + 1) - 1 = i /\ i + 1 \in 1 .. n /\ i + 1 \in Int
      BY <1>2, <3>1
    <3>3. ge[i + 1] <=> a[i + 1] > b[i + 1] \/ (a[i + 1] = b[i + 1] /\ ge[i])
      <4>1. ge[i + 1] <=> i + 1 = 0 \/ a[i + 1] > b[i + 1]
                            \/ (a[i + 1] = b[i + 1] /\ ge[(i + 1) - 1])
        BY <1>5, <3>2, Zenon
      <4>2. ge[(i + 1) - 1] = ge[i]
        BY <3>2
      <4> QED
        BY <3>2, <4>1, <4>2, Zenon
    <3>4. ge[i] <=> Low(a)[i] >= Low(b)[i]
      BY <2>2, <3>1, <1>2
    <3>5. Limb(a, i + 1) = a[i + 1] /\ Limb(b, i + 1) = b[i + 1]
      BY <1>2, <1>7, <3>2, LimbIs
    <3>6. /\ Low(a)[i + 1] = Low(a)[i] + a[i + 1] * Weight(i)
          /\ Low(b)[i + 1] = Low(b)[i] + b[i + 1] * Weight(i)
      BY <1>2, <3>5, LowNext
    <3>7. Low(a)[i] \in 0 .. Weight(i) - 1 /\ Low(b)[i] \in 0 .. Weight(i) - 1 /\ Weight(i) \in Nat
      <4>1. \A j \in 1 .. i : Limb(a, j) \in Digits /\ Limb(b, j) \in Digits
        BY NumberWhole
      <4> QED
        BY <1>2, <4>1, LowBound, WeightStep
    <3>8. a[i + 1] \in Nat /\ b[i + 1] \in Nat
      <4>1. Limb(a, i + 1) \in Digits /\ Limb(b, i + 1) \in Digits
        BY <3>2, NumberWhole, Zenon
      <4> QED
        BY <3>5, <4>1, DigitsAre
    <3>9. ASSUME NEW x \in Nat, NEW y \in Nat, NEW w \in Nat, x > y PROVE x * w >= y * w + w
      <4>1. (y + 1) * w <= x * w
        BY <3>9, ProductGrows
      <4>2. (y + 1) * w = y * w + w
        OBVIOUS
      <4> QED
        BY <4>1, <4>2
    <3>10. {a[i + 1] * Weight(i), b[i + 1] * Weight(i)} \subseteq Int
      BY <3>7, <3>8
    <3>11. CASE a[i + 1] > b[i + 1]
      <4>1. a[i + 1] * Weight(i) >= b[i + 1] * Weight(i) + Weight(i)
        BY <3>7, <3>8, <3>9, <3>11
      <4>2. Low(a)[i + 1] >= Low(b)[i + 1]
        BY <3>6, <3>7, <3>10, <4>1
      <4> QED
        BY <3>3, <3>11, <4>2
    <3>12. CASE a[i + 1] = b[i + 1]
      <4>1. Low(a)[i] >= Low(b)[i] <=> Low(a)[i + 1] >= Low(b)[i + 1]
        BY <3>6, <3>7, <3>10, <3>12
      <4>2. ~(a[i + 1] > b[i + 1])
        BY <3>8, <3>12
      <4> QED
        BY <3>3, <3>4, <3>12, <4>1, <4>2
    <3>13. CASE a[i + 1] < b[i + 1]
      <4>1. b[i + 1] * Weight(i) >= a[i + 1] * Weight(i) + Weight(i)
        BY <3>7, <3>8, <3>9, <3>13
      <4>2. ~(Low(a)[i + 1] >= Low(b)[i + 1])
        BY <3>6, <3>7, <3>10, <4>1
      <4>3. ~(a[i + 1] > b[i + 1]) /\ a[i + 1] # b[i + 1]
        BY <3>8, <3>13
      <4> QED
        BY <3>3, <4>2, <4>3
    <3> QED
      BY <3>8, <3>11, <3>12, <3>13
  <2> HIDE DEF Right
  <2>3. Nat \subseteq Right
    BY <2>1, <2>2, SetInduction
  <2> QED
    BY <1>2, <2>3 DEF Right
<1>8. CASE n = Len(b)
  BY <1>6, <1>7, <1>8 DEF Value
<1>10. Value(a) \in Nat /\ Value(b) \in Nat
  BY NumberBounds
<1>11. CASE n > Len(b)
  <2>1. Value(a) > Value(b)
    BY <1>11, LongerIsMore
  <2> QED
    BY <1>2, <1>6, <1>10, <1>11, <2>1
<1>12. CASE n < Len(b)
  <2>1. Value(b) > Value(a)
    BY <1>2, <1>12, LongerIsMore
  <2> QED
    BY <1>2, <1>6, <1>10, <1>12, <2>1
<1> QED
  BY <1>2, <1>8, <1>11, <1>12

(* Bits. *)

LEMMA TwoToLess ==
  ASSUME NEW m \in Nat, NEW n \in Nat, TwoTo[m] < TwoTo[n]
  PROVE  m < n
<1>1. SUFFICES ASSUME n <= m PROVE FALSE
  OBVIOUS
<1>2. TwoTo[n] <= TwoTo[m]
  BY <1>1, TwoToGrows
<1> QED
  BY <1>2, TwoToStep

LEMMA BitsInIs ==
  ASSUME NEW d \in Digits
  PROVE  /\ BitsIn(d) \in 0 .. LimbBits
         /\ d < TwoTo[BitsIn(d)]
         /\ BitsIn(d) > 0 => TwoTo[BitsIn(d) - 1] <= d
<1> DEFINE Length(n) == d < TwoTo[n] /\ (n > 0 => TwoTo[n - 1] <= d)
           Found == {n \in Nat : d < TwoTo[n] => \E m \in 0 .. n : Length(m)}
<1>1. d \in Nat /\ d < TwoTo[LimbBits] /\ LimbBits \in Nat
  BY LimbsAre, TwoToStep DEF Digits, Base
<1>2. 0 \in Found
  OBVIOUS
<1>3. ASSUME NEW n \in Nat, n \in Found PROVE n + 1 \in Found
  <2>1. SUFFICES ASSUME d < TwoTo[n + 1] PROVE \E m \in 0 .. n + 1 : Length(m)
    OBVIOUS
  <2>2. CASE d < TwoTo[n]
    BY <1>3, <2>2
  <2>3. CASE ~(d < TwoTo[n])
    <3>1. TwoTo[n] <= d /\ (n + 1) - 1 = n
      BY <1>1, <2>3, TwoToStep
    <3> QED
      BY <2>1, <3>1
  <2> QED
    BY <2>2, <2>3
<1>4. LimbBits \in Found
  <2> HIDE DEF Found
  <2> QED
    BY <1>1, <1>2, <1>3, SetInduction
<1>5. \E m \in 0 .. LimbBits : Length(m)
  BY <1>1, <1>4
<1> QED
  BY <1>5 DEF BitsIn

(* A number lies between the powers of its length in bits.                  *)
LEMMA BitLenIs ==
  ASSUME NEW a, IsNumber(a)
  PROVE  /\ BitLen(a) \in Nat
         /\ Value(a) < TwoTo[BitLen(a)]
         /\ Value(a) # 0 => BitLen(a) > 0 /\ TwoTo[BitLen(a) - 1] <= Value(a)
         /\ Value(a) = 0 => BitLen(a) = 0
<1> DEFINE n == Len(a)
           top == a[n]
           k == BitsIn(top)
           w == LimbBits * (n - 1)
           low == Low(a)[n - 1]
<1>1. n \in Nat \ {0} /\ LimbBits \in Nat
  BY NumberWhole, LimbsAre
<1>2. n - 1 \in Nat /\ w \in Nat
  BY <1>1
<1>3. /\ top \in Digits /\ Value(a) \in Nat
      /\ low \in 0 .. TwoTo[w] - 1
      /\ Value(a) = low + top * TwoTo[w]
  BY NumberBounds DEF Weight
<1>4. k \in 0 .. LimbBits /\ top < TwoTo[k] /\ (k > 0 => TwoTo[k - 1] <= top)
  BY <1>3, BitsInIs
<1>5. CASE top = 0
  <2>1. n = 1
    BY <1>5, <1>1 DEF IsNumber
  <2>2. w = 0
    BY <1>1, <2>1
  <2>3. Value(a) = 0 /\ BitLen(a) = 0
    <3>1. TwoTo[w] = 1
      BY <2>2, TwoToStep
    <3> HIDE DEF w, top, low
    <3>2. low = 0
      BY <1>3, <3>1
    <3>3. Value(a) = 0
      BY <1>3, <1>5, <3>1, <3>2
    <3> QED
      BY <1>5, <3>3 DEF BitLen, top
  <2> QED
    BY <2>3, TwoToStep
<1>6. CASE top # 0
  <2>1. BitLen(a) = w + k
    <3>1. w = (n - 1) * LimbBits
      BY <1>1
    <3> QED
      BY <1>6, <3>1 DEF BitLen
  <2> HIDE DEF w, k, low, top, n
  <2>2. top \in Nat /\ k \in Nat /\ TwoTo[w] \in Nat \ {0} /\ TwoTo[k] \in Nat
    BY <1>2, <1>3, <1>4, DigitsAre, TwoToPositive
  <2>3. k > 0
    <3>1. k = 0 => TwoTo[k] = 1
      BY TwoToStep
    <3> QED
      BY <1>4, <1>6, <2>2, <3>1
  <2>4. k - 1 \in Nat /\ w + (k - 1) = (w + k) - 1 /\ w + k \in Nat
    BY <1>2, <2>2, <2>3
  <2>5. TwoTo[w + k] = TwoTo[w] * TwoTo[k] /\ TwoTo[(w + k) - 1] = TwoTo[w] * TwoTo[k - 1]
    BY <1>2, <2>2, <2>4, TwoToSum
  <2>6. TwoTo[k - 1] \in Nat
    BY <2>4, TwoToStep
  <2>7. (top + 1) * TwoTo[w] <= TwoTo[k] * TwoTo[w] /\ TwoTo[k - 1] * TwoTo[w] <= top * TwoTo[w]
    BY <1>4, <2>2, <2>3, <2>6, ProductGrows
  <2>8. (top + 1) * TwoTo[w] = top * TwoTo[w] + TwoTo[w] /\ top * TwoTo[w] \in Nat
    <3>1. top \in Int /\ 1 \in Int /\ TwoTo[w] \in Int /\ TwoTo[w] \in Nat
      BY <2>2
    <3>2. top * TwoTo[w] \in Nat
      BY <2>2, <3>1, ProductNat
    <3>3. (top + 1) * TwoTo[w] = top * TwoTo[w] + 1 * TwoTo[w]
      BY <3>1, Spread
    <3> QED
      BY <3>1, <3>2, <3>3
  <2>9. Value(a) < TwoTo[w + k] /\ TwoTo[(w + k) - 1] <= Value(a) /\ Value(a) # 0
    <3>1. TwoTo[k] * TwoTo[w] = TwoTo[w + k] /\ TwoTo[k - 1] * TwoTo[w] = TwoTo[(w + k) - 1]
      BY <2>2, <2>5, <2>6
    <3>2. 1 <= TwoTo[(w + k) - 1] /\ TwoTo[(w + k) - 1] \in Nat
      <4>1. (w + k) - 1 \in Nat
        BY <1>2, <2>4
      <4> QED
        BY <4>1, TwoToPositive
    <3>3. TwoTo[w + k] \in Nat
      BY <2>4, TwoToStep
    <3>4. Value(a) < top * TwoTo[w] + TwoTo[w] /\ top * TwoTo[w] <= Value(a)
      BY <1>3, <2>2, <2>8
    <3> DEFINE v == Value(a)
               t == top * TwoTo[w]
               u == TwoTo[w]
               x == TwoTo[w + k]
               y == TwoTo[(w + k) - 1]
    <3>5. v < t + u /\ t <= v /\ t + u <= x /\ y <= t
      BY <2>7, <2>8, <3>1, <3>4
    <3>6. v \in Nat /\ t \in Nat /\ u \in Nat /\ x \in Nat /\ y \in Nat /\ 1 <= y
      BY <1>3, <2>2, <2>8, <3>2, <3>3
    <3> HIDE DEF v, t, u, x, y
    <3>7. v < x /\ y <= v /\ v # 0
      BY <3>5, <3>6
    <3> QED
      BY <3>7 DEF v, x, y
  <2>10. w + k > 0
    BY <1>2, <2>2, <2>3
  <2> QED
    BY <2>1, <2>4, <2>9, <2>10
<1> QED
  BY <1>5, <1>6

-----------------------------------------------------------------------------
(* Sums and differences. *)

LEMMA LowZero ==
  ASSUME NEW a, Whole(a), NEW n \in Nat, \A i \in 1 .. n : Limb(a, i) = 0
  PROVE  Low(a)[n] = 0
<1>1. PICK k \in Int : k = 1
  OBVIOUS
<1>2. Combined(a, a, k, a, n)
  BY <1>1 DEF Combined
<1>3. Low(a)[n] = Low(a)[n] + k * Low(a)[n]
  BY <1>2, LowLinear
<1> QED
  BY <1>1, <1>3, LowStep

LEMMA LowDifference ==
  ASSUME NEW a, NEW b, NEW c, Whole(a), Whole(b), Whole(c), NEW n \in Nat,
         \A i \in 1 .. n : Limb(c, i) = Limb(a, i) - Limb(b, i)
  PROVE  Low(c)[n] = Low(a)[n] - Low(b)[n]
<1>1. PICK k \in Int : k = 1
  OBVIOUS
<1>2. Combined(a, c, k, b, n)
  <2> SUFFICES ASSUME NEW i \in 1 .. n PROVE Limb(a, i) = Limb(c, i) + k * Limb(b, i)
    BY DEF Combined
  <2>1. i \in Int
    OBVIOUS
  <2>2. Limb(a, i) \in Int /\ Limb(b, i) \in Int
    BY <2>1, LimbTyped, Zenon
  <2> QED
    BY <1>1, <2>2
<1>3. Low(a)[n] = Low(c)[n] + k * Low(b)[n]
  BY <1>2, LowLinear
<1> QED
  BY <1>1, <1>3, LowStep

LEMMA Dividing ==
  ASSUME NEW x \in Nat, NEW n \in Nat \ {0}
  PROVE  /\ x \div n \in Nat /\ x % n \in 0 .. n - 1
         /\ x = (x \div n) * n + (x % n)
         /\ \A k \in Nat : x < k * n => x \div n < k
<1> DEFINE q == x \div n
           r == x % n
<1>1. q \in Int /\ r \in 0 .. n - 1 /\ x = q * n + r
  OBVIOUS
<1> HIDE DEF q, r
<1>2. q >= 0
  <2>1. SUFFICES ASSUME q <= -1 PROVE FALSE
    BY <1>1
  <2>2. q * n <= -1 * n
    BY <1>1, <2>1, ProductGrows
  <2> QED
    BY <1>1, <2>2
<1>3. ASSUME NEW k \in Nat, x < k * n PROVE q < k
  <2>1. SUFFICES ASSUME k <= q PROVE FALSE
    BY <1>1
  <2>2. k * n <= q * n
    BY <1>1, <2>1, ProductGrows
  <2> QED
    BY <1>1, <1>3, <2>2
<1>4. q \in Nat
  BY <1>1, <1>2
<1> QED
  BY <1>1, <1>3, <1>4 DEF q, r

LEMMA DividingBelowZero ==
  ASSUME NEW n \in Nat \ {0}, NEW x \in Int, 0 - n <= x, x < 0
  PROVE  x % n = x + n
<1>1. PICK k \in Int : k = -1
  OBVIOUS
<1>2. x + n \in 0 .. n - 1
  OBVIOUS
<1>3. (k * n + (x + n)) % n = x + n
  BY <1>2, DivisionUnique
<1>4. k * n + (x + n) = x
  BY <1>1
<1> QED
  BY <1>3, <1>4

LEMMA Limbs ==
  ASSUME NEW a, NEW n \in Nat, a \in Seq(Int), Len(a) = n
  PROVE  \A i \in 1 .. n : Limb(a, i) = a[i]
BY DEF Limb

LEMMA SubAssignIs ==
  ASSUME NEW a, NEW b, IsNumber(a), IsNumber(b), Value(b) <= Value(a)
  PROVE  IsNumber(SubAssign(a, b)) /\ Value(SubAssign(a, b)) = Value(a) - Value(b)
<1> DEFINE n == Len(a)
           step == [i \in Nat |-> [x \in {0, 1} |-> IF a[i] < Limb(b, i) + x THEN 1 ELSE 0]]
<1>1. \A i \in Nat, x \in {0, 1} : step[i][x] \in {0, 1}
                                   /\ step[i][x] = IF a[i] < Limb(b, i) + x THEN 1 ELSE 0
  OBVIOUS
<1>2. n \in Nat \ {0} /\ Whole(a) /\ Whole(b) /\ Len(b) \in Nat /\ Value(a) \in Nat /\ Value(b) \in Nat
  BY NumberWhole, NumberBounds
<1>3. n \in Nat /\ n >= 1
  BY <1>2
<1>4. Len(b) <= n
  <2>1. SUFFICES ASSUME Len(b) > n PROVE FALSE
    BY <1>2
  <2>2. Value(b) > Value(a)
    BY <2>1, LongerIsMore
  <2> QED
    BY <1>2, <2>2
<1> HIDE DEF step
<1>5. PICK f : IsRecursive(f, 0 .. n, 0, step, {0, 1})
  BY <1>1, <1>3, RecursionTo
<1>6. ASSUME NEW i \in 0 .. n
      PROVE  f[i] \in {0, 1} /\ f[i] = IF i > 0 /\ a[i] < Limb(b, i) + f[i - 1] THEN 1 ELSE 0
  <2>1. f[i] \in {0, 1} /\ f[i] = IF i = 0 THEN 0 ELSE step[i][f[i - 1]]
    BY <1>5 DEF IsRecursive
  <2>2. CASE i = 0
    BY <2>1, <2>2
  <2>3. CASE i # 0
    <3>1. i - 1 \in 0 .. n /\ i \in Nat /\ i > 0
      BY <2>3
    <3>2. f[i - 1] \in {0, 1}
      BY <1>5, <3>1 DEF IsRecursive
    <3> QED
      BY <1>1, <2>1, <3>1, <3>2
  <2> QED
    BY <2>2, <2>3
<1>7. f = [i \in 0 .. n |-> IF i > 0 /\ a[i] < Limb(b, i) + f[i - 1] THEN 1 ELSE 0]
  <2>1. f = [i \in 0 .. n |-> f[i]]
    BY <1>5 DEF IsRecursive
  <2> QED
    BY <1>6, <2>1
<1> DEFINE borrow == Borrows(a, b)
           d == [i \in 1 .. n |-> (a[i] - Limb(b, i) - borrow[i - 1]) % Base]
           s == [i \in 1 .. n |-> a[i] - Limb(b, i)]
           c == [i \in 0 .. n |-> 0 - borrow[i]]
<1>8. borrow = [i \in 0 .. n |-> IF i > 0 /\ a[i] < Limb(b, i) + borrow[i - 1] THEN 1 ELSE 0]
  BY <1>7 DEF Borrows
<1>9. SubAssign(a, b) = Trimmed(d)
  BY DEF SubAssign
<1> HIDE DEF borrow
<1>10. \A i \in 0 .. n : borrow[i] \in {0, 1}
  BY <1>8
<1>11. ASSUME NEW i \in 1 .. n
       PROVE  /\ d[i] \in Digits /\ s[i] \in Int
              /\ d[i] + c[i] * Base = s[i] + c[i - 1]
              /\ s[i] = Limb(a, i) - Limb(b, i)
  <2>1. i \in Int /\ i - 1 \in 0 .. n /\ i \in 0 .. n /\ i > 0
    OBVIOUS
  <2>2. Limb(a, i) \in Digits /\ Limb(b, i) \in Digits
    BY <2>1, NumberWhole, Zenon
  <2>3. Limb(a, i) = a[i]
    BY <1>2, <2>1, LimbIs
  <2> DEFINE x == a[i]
             y == Limb(b, i)
             z == borrow[i - 1]
             e == (x - y - z) % Base
  <2>4. x \in 0 .. Base - 1 /\ y \in 0 .. Base - 1 /\ z \in {0, 1} /\ Base \in Nat \ {0}
    BY <1>10, <2>1, <2>2, <2>3, BaseIs DEF Digits
  <2>5. borrow[i] = IF x < y + z THEN 1 ELSE 0
    BY <1>8, <2>1
  <2>6. d[i] = e /\ s[i] = x - y /\ c[i] = 0 - borrow[i] /\ c[i - 1] = 0 - z
    BY <2>1
  <2> HIDE DEF x, y, z, d, s, c
  <2>7. CASE x < y + z
    <3>1. x - y - z + Base \in 0 .. Base - 1 /\ x - y - z \in Int
          /\ 0 - Base <= x - y - z /\ x - y - z < 0
      BY <2>4, <2>7
    <3>2. e = x - y - z + Base
      BY <2>4, <3>1, DividingBelowZero DEF e
    <3> HIDE DEF e
    <3>3. c[i] = -1
      BY <2>5, <2>6, <2>7
    <3>4. e \in Digits /\ e + -1 * Base = (x - y) + (0 - z)
      BY <2>4, <3>1, <3>2 DEF Digits
    <3> QED
      BY <2>3, <2>4, <2>6, <3>3, <3>4 DEF x, y
  <2>8. CASE ~(x < y + z)
    <3>1. x - y - z = 0 * Base + (x - y - z) /\ x - y - z \in 0 .. Base - 1
      BY <2>4, <2>8
    <3>2. e = x - y - z
      <4>1. (0 * Base + (x - y - z)) % Base = x - y - z
        <5>1. 0 \in Int
          OBVIOUS
        <5> QED
          BY <2>4, <3>1, <5>1, DivisionUnique
      <4> QED
        BY <3>1, <4>1 DEF e
    <3> HIDE DEF e
    <3>3. c[i] = 0
      <4>1. borrow[i] = 0
        BY <2>5, <2>8
      <4> QED
        BY <2>6, <4>1
    <3>4. e \in Digits /\ e + 0 * Base = (x - y) + (0 - z)
      BY <2>4, <3>1, <3>2 DEF Digits
    <3> QED
      BY <2>3, <2>4, <2>6, <3>3, <3>4 DEF x, y
  <2> QED
    BY <2>7, <2>8
<1>12. d \in Seq(Digits) /\ Len(d) = n /\ s \in Seq(Int) /\ Len(s) = n
  <2>1. d \in [1 .. n -> Digits] /\ s \in [1 .. n -> Int]
    <3>1. \A i \in 1 .. n : d[i] \in Digits /\ s[i] \in Int
      BY <1>11
    <3> QED
      BY <3>1
  <2> HIDE DEF d, s
  <2> QED
    BY <1>3, <2>1, SeqOf
<1>13. \A i \in 0 .. n : c[i] = 0 - borrow[i]
  OBVIOUS
<1> HIDE DEF d, s, c
<1>14. Whole(d) /\ Whole(s)
  BY <1>12, DigitsWhole DEF Whole
<1>15. \A i \in 1 .. n : Limb(d, i) = d[i] /\ Limb(s, i) = s[i]
  BY <1>12, <1>14, <1>3, Limbs DEF Whole
<1>16. Low(d)[n] + c[n] * Weight(n) = Low(s)[n] + c[0]
  <2>1. \A i \in 0 .. n : c[i] \in Int
    BY <1>10, <1>13
  <2>2. \A i \in 1 .. n : Limb(d, i) + c[i] * Base = Limb(s, i) + c[i - 1]
    BY <1>11, <1>15
  <2> QED
    <3> HIDE DEF n
    <3>1. CarriesOver(d, s, c, n)
      BY <2>1, <2>2 DEF CarriesOver
    <3> QED
      BY <1>3, <1>14, <3>1, Carrying
<1>17. Low(s)[n] = Value(a) - Value(b)
  <2>1. \A i \in 1 .. n : Limb(s, i) = Limb(a, i) - Limb(b, i)
    BY <1>11, <1>15
  <2>4. Low(s)[n] = Low(a)[n] - Low(b)[n]
    <3> HIDE DEF n
    <3> QED
      BY <1>2, <1>3, <1>14, <2>1, LowDifference
  <2>5. Low(b)[n] = Value(b) /\ Low(a)[n] = Value(a)
    BY <1>2, <1>3, <1>4, LowBeyond
  <2> QED
    BY <1>2, <2>4, <2>5
<1>18. Low(d)[n] \in 0 .. Weight(n) - 1 /\ Weight(n) \in Nat
  BY <1>3, <1>11, <1>14, <1>15, LowBound, WeightStep
<1>19. c[0] = 0
  BY <1>3, <1>8, <1>13
<1>20. c[n] = 0
  <2>1. SUFFICES ASSUME c[n] = -1 PROVE FALSE
    BY <1>3, <1>10, <1>13
  <2>2. Low(d)[n] - Weight(n) = Value(a) - Value(b)
    <3> DEFINE x == Low(d)[n]
               w == Weight(n)
    <3>1. x + -1 * w = Low(s)[n] + 0 /\ x \in Int /\ w \in Int
      BY <1>16, <1>18, <1>19, <2>1
    <3>2. Low(s)[n] \in Int
      BY <1>2, <1>17
    <3> HIDE DEF n, x, w
    <3>3. x - w = Low(s)[n]
      BY <3>1, <3>2
    <3> QED
      BY <1>17, <3>3 DEF x, w
  <2> QED
    BY <1>2, <1>18, <2>2
<1>21. Value(d) = Value(a) - Value(b)
  <2>1. Low(d)[n] + 0 * Weight(n) = Value(a) - Value(b)
    BY <1>2, <1>16, <1>17, <1>19, <1>20
  <2>2. Low(d)[n] = Value(d)
    BY <1>12 DEF Value
  <2> QED
    BY <1>18, <2>1, <2>2
<1> QED
  BY <1>3, <1>9, <1>12, <1>21, TrimmedIs

LEMMA WithCarryIs ==
  ASSUME NEW d \in Seq(Digits), NEW carry \in Digits, Len(d) >= 1,
         Len(d) = 1 \/ carry # 0 \/ d[Len(d)] # 0
  PROVE  IsNumber(WithCarry(d, carry)) /\ Value(WithCarry(d, carry)) = Value(d) + carry * Weight(Len(d))
<1> DEFINE n == Len(d)
           e == d \o <<carry>>
<1>1. n \in Nat /\ Whole(d) /\ Weight(n) \in Nat /\ Value(d) \in Int
  <2>1. n \in Nat /\ Whole(d)
    BY DigitsWhole
  <2> QED
    BY <2>1, WeightStep, LowStep DEF Value
<1>2. CASE carry = 0
  <2>1. WithCarry(d, carry) = d
    BY <1>2 DEF WithCarry
  <2>2. IsNumber(d)
    BY <1>2 DEF IsNumber
  <2> QED
    BY <1>1, <1>2, <2>1, <2>2
<1>3. CASE carry # 0
  <2>1. WithCarry(d, carry) = e
    BY <1>3 DEF WithCarry
  <2>2. e \in Seq(Digits) /\ Len(e) = n + 1 /\ e[n + 1] = carry /\ \A i \in 1 .. n : e[i] = d[i]
    BY <1>1
  <2> HIDE DEF e, n
  <2>3. IsNumber(e) /\ Whole(e)
    BY <1>1, <1>3, <2>2, DigitsWhole DEF IsNumber
  <2>4. \A i \in 1 .. n : Limb(e, i) = Limb(d, i)
    <3> TAKE i \in 1 .. n
    <3>1. i \in Int /\ i \in 1 .. Len(d) /\ i \in 1 .. Len(e) /\ e[i] = d[i]
      BY <1>1, <2>2 DEF n
    <3>2. Limb(e, i) = e[i] /\ Limb(d, i) = d[i]
      BY <1>1, <2>3, <3>1, LimbIs
    <3> QED
      BY <3>1, <3>2
  <2>5. Limb(e, n + 1) = carry
    <3>1. n + 1 \in 1 .. Len(e)
      BY <1>1, <2>2
    <3> QED
      BY <2>2, <2>3, <3>1, LimbIs
  <2>6. Low(e)[n] = Low(d)[n]
    BY <1>1, <2>3, <2>4, LowAgree
  <2>7. Low(e)[n + 1] = Low(e)[n] + carry * Weight(n)
    BY <1>1, <2>3, <2>5, LowNext
  <2> QED
    BY <2>1, <2>2, <2>3, <2>6, <2>7 DEF Value, n
<1> QED
  BY <1>2, <1>3

(* Sums of limbs become limbs, the carries added to the next; no carry is   *)
(* above top.                                                               *)
LEMMA CarriedIs ==
  ASSUME NEW sums \in Seq(Nat), NEW top \in Digits, Len(sums) >= 1,
         \A i \in 1 .. Len(sums) : sums[i] + top < (top + 1) * Base,
         Len(sums) = 1 \/ sums[Len(sums)] # 0
  PROVE  IsNumber(Carried(sums)) /\ Value(Carried(sums)) = Value(sums)
<1> DEFINE n == Len(sums)
           step == [i \in Nat |-> [x \in 0 .. top |->
                      IF i \in 1 .. n THEN (sums[i] + x) \div Base ELSE 0]]
<1>1. n \in Nat /\ n >= 1 /\ Base \in Nat \ {0} /\ top \in Nat
  BY BaseIs, DigitsAre
<1>2. ASSUME NEW i \in 1 .. n, NEW x \in 0 .. top
      PROVE  /\ (sums[i] + x) \div Base \in 0 .. top
             /\ (sums[i] + x) % Base \in Digits
             /\ ((sums[i] + x) % Base) + ((sums[i] + x) \div Base) * Base = sums[i] + x
  <2> DEFINE y == sums[i] + x
  <2>1. sums[i] \in Nat /\ sums[i] + top < (top + 1) * Base
    OBVIOUS
  <2>2. y \in Nat /\ y < (top + 1) * Base
    <3>1. (top + 1) * Base \in Int
      BY <1>1
    <3> QED
      BY <1>1, <2>1, <3>1
  <2> HIDE DEF y
  <2>3. y \div Base \in Nat /\ y % Base \in 0 .. Base - 1 /\ y = (y \div Base) * Base + (y % Base)
    BY <1>1, <2>2, Dividing
  <2>4. y \div Base < top + 1
    <3>1. top + 1 \in Nat
      BY <1>1
    <3> QED
      BY <1>1, <2>2, <3>1, Dividing
  <2>5. y \div Base \in 0 .. top /\ y % Base \in Digits
    BY <1>1, <2>3, <2>4 DEF Digits
  <2>6. (y % Base) + (y \div Base) * Base = y
    <3> DEFINE q == y \div Base
               r == y % Base
    <3>1. q * Base \in Int /\ r \in Int /\ y = q * Base + r
      BY <1>1, <2>3
    <3> HIDE DEF q, r
    <3>2. r + q * Base = y
      BY <3>1
    <3> QED
      BY <3>2 DEF q, r
  <2> QED
    BY <2>5, <2>6 DEF y
<1>3. \A i \in Nat, x \in 0 .. top :
        /\ step[i][x] \in 0 .. top
        /\ i \in 1 .. n => step[i][x] = (sums[i] + x) \div Base
  <2>1. 0 \in 0 .. top
    BY <1>1
  <2> QED
    BY <1>2, <2>1
<1>4. 0 \in 0 .. top
  BY <1>1
<1> HIDE DEF step
<1>5. PICK f : IsRecursive(f, 0 .. n, 0, step, 0 .. top)
  BY <1>1, <1>3, <1>4, RecursionTo
<1>6. ASSUME NEW i \in 0 .. n
      PROVE  f[i] \in 0 .. top /\ f[i] = IF i = 0 THEN 0 ELSE (sums[i] + f[i - 1]) \div Base
  <2>1. f[i] \in 0 .. top /\ f[i] = IF i = 0 THEN 0 ELSE step[i][f[i - 1]]
    BY <1>5 DEF IsRecursive
  <2>2. CASE i = 0
    BY <2>1, <2>2
  <2>3. CASE i # 0
    <3>1. i - 1 \in 0 .. n /\ i \in Nat /\ i \in 1 .. n
      BY <2>3
    <3>2. f[i - 1] \in 0 .. top
      BY <1>5, <3>1 DEF IsRecursive
    <3>3. step[i][f[i - 1]] = (sums[i] + f[i - 1]) \div Base
      BY <1>3, <3>1, <3>2
    <3> QED
      BY <2>1, <2>3, <3>3
  <2> QED
    BY <2>2, <2>3
<1>7. f = [i \in 0 .. n |-> IF i = 0 THEN 0 ELSE (sums[i] + f[i - 1]) \div Base]
  <2>1. f = [i \in 0 .. n |-> f[i]]
    BY <1>5 DEF IsRecursive
  <2> QED
    BY <1>6, <2>1
<1> DEFINE carry == Carries(sums)
           d == [i \in 1 .. n |-> (sums[i] + carry[i - 1]) % Base]
<1>8. carry = [i \in 0 .. n |-> IF i = 0 THEN 0 ELSE (sums[i] + carry[i - 1]) \div Base]
  BY <1>7 DEF Carries
<1>9. Carried(sums) = WithCarry(d, carry[n])
  BY DEF Carried
<1> HIDE DEF carry
<1>10. \A i \in 0 .. n : carry[i] \in 0 .. top
  <2> DEFINE Right == {i \in Nat : i <= n => carry[i] \in 0 .. top}
  <2>1. 0 \in Right
    BY <1>1, <1>8
  <2>2. ASSUME NEW i \in Nat, i \in Right PROVE i + 1 \in Right
    <3>1. SUFFICES ASSUME i + 1 <= n PROVE carry[i + 1] \in 0 .. top
      OBVIOUS
    <3>2. i + 1 \in 1 .. n /\ i + 1 \in 0 .. n /\ (i + 1) - 1 = i /\ i + 1 # 0
      BY <3>1, <1>1
    <3>3. carry[i] \in 0 .. top
      BY <1>1, <2>2, <3>1
    <3>4. carry[i + 1] = (sums[i + 1] + carry[i]) \div Base
      BY <1>8, <3>2
    <3> QED
      BY <1>2, <3>2, <3>3, <3>4
  <2> HIDE DEF Right
  <2>3. Nat \subseteq Right
    BY <2>1, <2>2, SetInduction
  <2> QED
    BY <1>1, <2>3 DEF Right
<1>11. ASSUME NEW i \in 1 .. n
       PROVE  d[i] \in Digits /\ d[i] + carry[i] * Base = sums[i] + carry[i - 1]
  <2>1. i - 1 \in 0 .. n /\ i \in 0 .. n /\ i # 0
    BY <1>1
  <2>2. carry[i - 1] \in 0 .. top
    BY <1>10, <2>1
  <2>3. carry[i] = (sums[i] + carry[i - 1]) \div Base /\ d[i] = (sums[i] + carry[i - 1]) % Base
    BY <1>8, <2>1
  <2> QED
    BY <1>2, <2>2, <2>3
<1>12. d \in Seq(Digits) /\ Len(d) = n
  <2>1. d \in [1 .. n -> Digits]
    <3>1. \A i \in 1 .. n : d[i] \in Digits
      BY <1>11
    <3> QED
      BY <3>1
  <2> HIDE DEF d
  <2> QED
    BY <1>1, <2>1, SeqOf
<1> HIDE DEF d
<1>13. Whole(d) /\ Whole(sums)
  <2>1. sums \in Seq(Int)
    <3>1. sums \in [1 .. n -> Int]
      OBVIOUS
    <3> QED
      BY <1>1, <3>1
  <2> QED
    BY <1>12, <2>1, DigitsWhole DEF Whole
<1>14. \A i \in 1 .. n : Limb(d, i) = d[i] /\ Limb(sums, i) = sums[i]
  BY <1>1, <1>12, <1>13, Limbs DEF Whole
<1>15. Low(d)[n] + carry[n] * Weight(n) = Low(sums)[n] + carry[0]
  <2>1. \A i \in 0 .. n : carry[i] \in Int
    BY <1>1, <1>10
  <2>2. \A i \in 1 .. n : Limb(d, i) + carry[i] * Base = Limb(sums, i) + carry[i - 1]
    BY <1>11, <1>14
  <2>3. n \in Nat
    BY <1>1
  <2> HIDE DEF n
  <2> QED
    <3>1. CarriesOver(d, sums, carry, n)
      BY <2>1, <2>2 DEF CarriesOver
    <3> QED
      BY <1>13, <2>3, <3>1, Carrying
<1>16. carry[0] = 0 /\ carry[n] \in Digits
  <2>1. carry[n] \in 0 .. top
    BY <1>1, <1>10
  <2> QED
    BY <1>1, <1>8, <2>1 DEF Digits
<1>17. Value(d) + carry[n] * Weight(n) = Value(sums)
  <2>1. Value(d) = Low(d)[n] /\ Value(sums) = Low(sums)[n]
    BY <1>12 DEF Value
  <2> HIDE DEF n
  <2>2. Low(sums)[n] \in Int
    BY <1>1, <1>13, LowStep
  <2> QED
    BY <1>15, <1>16, <2>1, <2>2
<1>18. n = 1 \/ carry[n] # 0 \/ d[n] # 0
  <2>1. SUFFICES ASSUME n # 1, carry[n] = 0, d[n] = 0 PROVE FALSE
    OBVIOUS
  <2>2. n \in 1 .. n /\ n - 1 \in 0 .. n
    BY <1>1
  <2>3. d[n] + carry[n] * Base = sums[n] + carry[n - 1]
    BY <1>11, <2>2
  <2>4. carry[n - 1] \in Nat /\ sums[n] \in Nat /\ sums[n] # 0
    BY <1>1, <1>10, <2>1, <2>2
  <2> QED
    BY <1>1, <2>1, <2>3, <2>4
<1> QED
  BY <1>1, <1>9, <1>12, <1>16, <1>17, <1>18, WithCarryIs

LEMMA MulScalarIs ==
  ASSUME NEW a, IsNumber(a), NEW scalar \in Digits
  PROVE  IsNumber(MulScalar(a, scalar)) /\ Value(MulScalar(a, scalar)) = Value(a) * scalar
<1> DEFINE n == Len(a)
           sums == [i \in 1 .. n |-> a[i] * scalar]
<1>1. n \in Nat /\ n >= 1 /\ Whole(a) /\ a \in Seq(Digits) /\ Value(a) \in Nat /\ scalar \in Nat
  BY NumberWhole, NumberBounds, DigitsAre
<1>2. CASE scalar = 0
  <2>1. MulScalar(a, scalar) = Zero /\ Value(a) * scalar = 0
    BY <1>1, <1>2 DEF MulScalar
  <2> QED
    BY <2>1, ZeroAndOne
<1>3. CASE scalar # 0
  <2>1. MulScalar(a, scalar) = Carried(sums)
    BY <1>3 DEF MulScalar
  <2>2. PICK top \in Digits : top = Base - 1
    BY BaseIs DEF Digits
  <2>3. ASSUME NEW i \in 1 .. n
        PROVE  sums[i] \in Nat /\ sums[i] + top < (top + 1) * Base /\ sums[i] = a[i] * scalar
    <3> DEFINE b == Base - 1
    <3>1. a[i] \in 0 .. b /\ scalar \in 0 .. b /\ Base \in Nat /\ b \in Nat
      BY <1>1, BaseIs DEF Digits
    <3>2. a[i] * scalar \in Nat /\ a[i] * scalar <= b * scalar /\ scalar * b <= b * b
      <4> DEFINE x == a[i]
      <4>1. x \in Int /\ x \in Nat /\ x <= b /\ scalar \in Int /\ scalar \in Nat /\ scalar <= b /\ b \in Int
        BY <3>1
      <4> HIDE DEF x, b
      <4>2. x * scalar \in Nat
        BY <4>1, ProductNat
      <4>3. x * scalar <= b * scalar
        BY <4>1, ProductGrows
      <4>4. scalar * b <= b * b
        BY <3>1, <4>1, ProductGrows
      <4> QED
        BY <4>2, <4>3, <4>4 DEF x
    <3>3. b * scalar = scalar * b /\ scalar * b \in Int /\ b * b \in Int
      BY <3>1
    <3>4. (top + 1) * Base = b * b + b + b + 1
      <4>1. Base = b + 1 /\ top = b
        BY <2>2, <3>1
      <4> HIDE DEF b
      <4>2. (b + 1) * (b + 1) = b * b + b + b + 1
        BY <3>1
      <4> QED
        BY <4>1, <4>2
    <3>5. sums[i] = a[i] * scalar /\ top = b
      BY <2>2
    <3> HIDE DEF b, sums
    <3> QED
      BY <3>1, <3>2, <3>3, <3>4, <3>5
  <2>4. sums \in Seq(Nat) /\ Len(sums) = n
    <3>1. sums \in [1 .. n -> Nat]
      <4>1. \A i \in 1 .. n : sums[i] \in Nat
        BY <2>3
      <4> QED
        BY <4>1
    <3> HIDE DEF sums
    <3> QED
      BY <1>1, <3>1, SeqOf
  <2> HIDE DEF sums
  <2>5. n = 1 \/ sums[n] # 0
    <3>1. SUFFICES ASSUME n # 1 PROVE sums[n] # 0
      OBVIOUS
    <3>2. n \in 1 .. n
      BY <1>1
    <3>3. a[n] # 0 /\ a[n] \in Nat
      <4>1. a[n] # 0
        BY <3>1 DEF IsNumber
      <4>2. a[n] \in Digits
        BY <1>1, <3>2
      <4> QED
        BY <4>1, <4>2, DigitsAre
    <3>4. sums[n] = a[n] * scalar
      BY <2>3, <3>2
    <3>5. a[n] * scalar # 0
      BY <1>1, <1>3, <3>3, ProductPositive
    <3> QED
      BY <3>4, <3>5
  <2>6. IsNumber(Carried(sums)) /\ Value(Carried(sums)) = Value(sums)
    BY <1>1, <2>3, <2>4, <2>5, CarriedIs
  <2>7. Value(sums) = Value(a) * scalar
    <3>1. PICK k \in Int : k = scalar - 1
      BY <1>1
    <3>2. Whole(sums)
      <4>1. sums \in [1 .. n -> Int]
        BY <2>4
      <4> QED
        BY <1>1, <2>4, <4>1 DEF Whole
    <3>3. Combined(sums, a, k, a, n)
      <4> SUFFICES ASSUME NEW i \in 1 .. n PROVE Limb(sums, i) = Limb(a, i) + k * Limb(a, i)
        BY DEF Combined
      <4>1. i \in Int /\ Limb(sums, i) = sums[i] /\ Limb(a, i) = a[i]
        BY <1>1, <2>4, <3>2, LimbIs
      <4>2. a[i] \in Int
        <5>1. Limb(a, i) \in Int
          BY <1>1, <4>1, LimbTyped, Zenon
        <5> QED
          BY <4>1, <5>1
      <4>3. sums[i] = a[i] * scalar
        BY <2>3
      <4> QED
        BY <1>1, <3>1, <4>1, <4>2, <4>3
    <3>4. Low(sums)[n] = Low(a)[n] + k * Low(a)[n]
      <4> HIDE DEF n
      <4> QED
        BY <1>1, <3>2, <3>3, LowLinear
    <3>5. Value(sums) = Low(sums)[n] /\ Value(a) = Low(a)[n]
      BY <2>4 DEF Value
    <3>6. Value(a) + k * Value(a) = Value(a) * scalar
      BY <1>1, <3>1
    <3> QED
      BY <3>4, <3>5, <3>6
  <2> QED
    BY <2>1, <2>6, <2>7
<1> QED
  BY <1>2, <1>3

(* A number placed above some limbs.                                        *)
PlacedAt(e, b, shift, width) == \A i \in 1 .. width : Limb(e, i) = Limb(b, i - shift)

LEMMA LowPlaced ==
  ASSUME NEW b, NEW e, Whole(b), Whole(e), NEW shift \in Nat, NEW width \in Nat,
         shift + Len(b) <= width, PlacedAt(e, b, shift, width)
  PROVE  Low(e)[width] = Value(b) * Weight(shift)
<1> DEFINE n == width - shift
<1>1. Len(b) \in Nat /\ n \in Nat /\ Len(b) <= n /\ shift + n = width
  <2>1. Len(b) \in Nat
    BY DEF Whole
  <2> QED
    BY <2>1
<1>2. Low(e)[shift] = 0
  <2>1. ASSUME NEW i \in 1 .. shift PROVE Limb(e, i) = 0
    <3>1. i \in 1 .. width /\ i - shift \in Int /\ i - shift \notin 1 .. Len(b)
      BY <1>1
    <3>2. Limb(b, i - shift) = 0
      BY <3>1, LimbIs
    <3> QED
      BY <3>1, <3>2 DEF PlacedAt
  <2> QED
    BY <2>1, LowZero
<1>3. Low(e)[shift + n] = Low(e)[shift] + Weight(shift) * Low(b)[n]
  <2>1. ASSUME NEW i \in 1 .. n PROVE Limb(b, i) = Limb(e, shift + i)
    <3>1. shift + i \in 1 .. width /\ (shift + i) - shift = i
      BY <1>1
    <3> QED
      BY <3>1 DEF PlacedAt
  <2> HIDE DEF n
  <2> QED
    BY <1>1, <2>1, LowSplit
<1>4. Low(b)[n] = Value(b) /\ Value(b) \in Int /\ Weight(shift) \in Int
  <2> HIDE DEF n
  <2>1. Low(b)[n] = Value(b) /\ Value(b) \in Int
    BY <1>1, LowBeyond
  <2> QED
    BY <2>1, WeightStep
<1> QED
  BY <1>1, <1>2, <1>3, <1>4

LEMMA AddShiftedIs ==
  ASSUME NEW a, NEW b, IsNumber(a), IsNumber(b), NEW shift \in Nat, b # Zero \/ shift = 0
  PROVE  /\ IsNumber(AddShifted(a, b, shift))
         /\ Value(AddShifted(a, b, shift)) = Value(a) + Value(b) * Weight(shift)
<1> DEFINE width == IF Len(a) < shift + Len(b) THEN shift + Len(b) ELSE Len(a)
           sums == [i \in 1 .. width |-> Limb(a, i) + Limb(b, i - shift)]
           e == [i \in 1 .. width |-> Limb(b, i - shift)]
<1>1. /\ Len(a) \in Nat \ {0} /\ Len(b) \in Nat \ {0} /\ Whole(a) /\ Whole(b)
      /\ Value(a) \in Nat /\ Value(b) \in Nat
  BY NumberWhole, NumberBounds
<1>2. width \in Nat /\ width >= 1 /\ Len(a) <= width /\ shift + Len(b) <= width
      /\ (width = Len(a) \/ width = shift + Len(b))
  BY <1>1
<1>3. AddShifted(a, b, shift) = Carried(sums)
  BY DEF AddShifted
<1> HIDE DEF width
<1>4. ASSUME NEW i \in 1 .. width
      PROVE  /\ sums[i] \in Nat /\ e[i] \in Int /\ e[i] = Limb(b, i - shift)
             /\ sums[i] = Limb(a, i) + e[i]
             /\ sums[i] + 1 < (1 + 1) * Base
             /\ Limb(a, i) \in Nat /\ Limb(b, i - shift) \in Nat
  <2>1. i \in Int /\ i - shift \in Int
    OBVIOUS
  <2>2. Limb(a, i) \in Digits /\ Limb(b, i - shift) \in Digits
    BY <2>1, NumberWhole, Zenon
  <2>3. Limb(a, i) \in 0 .. Base - 1 /\ Limb(b, i - shift) \in 0 .. Base - 1 /\ Base \in Nat
    BY <2>2, BaseIs DEF Digits
  <2>4. e[i] = Limb(b, i - shift) /\ sums[i] = Limb(a, i) + Limb(b, i - shift)
    OBVIOUS
  <2> HIDE DEF e, sums
  <2> QED
    BY <2>3, <2>4
<1>5. sums \in Seq(Nat) /\ Len(sums) = width /\ e \in Seq(Int) /\ Len(e) = width
  <2>1. sums \in [1 .. width -> Nat] /\ e \in [1 .. width -> Int]
    <3>1. \A i \in 1 .. width : sums[i] \in Nat /\ e[i] \in Int
      BY <1>4
    <3> QED
      BY <3>1
  <2> HIDE DEF e, sums
  <2> QED
    BY <1>2, <2>1, SeqOf
<1> HIDE DEF e, sums
<1>6. width = 1 \/ sums[width] # 0
  <2>1. SUFFICES ASSUME width # 1 PROVE sums[width] # 0
    OBVIOUS
  <2>2. width \in 1 .. width
    BY <1>2
  <2>3. sums[width] = Limb(a, width) + Limb(b, width - shift) /\ Limb(a, width) \in Nat
        /\ Limb(b, width - shift) \in Nat
    BY <1>4, <2>2
  <2>4. CASE width = Len(a)
    <3>1. Len(a) # 1 /\ width \in Int /\ width \in 1 .. Len(a)
      BY <2>1, <2>2, <2>4
    <3>2. Limb(a, width) = a[width] /\ a[width] # 0
      BY <1>1, <2>4, <3>1, LimbIs DEF IsNumber
    <3> QED
      BY <2>3, <3>2
  <2>5. CASE width = shift + Len(b)
    <3>1. width - shift = Len(b) /\ Len(b) \in Int /\ Len(b) \in 1 .. Len(b)
      BY <1>1, <2>5
    <3>2. Limb(b, width - shift) = b[Len(b)]
      BY <1>1, <3>1, LimbIs
    <3>3. b[Len(b)] # 0
      <4>1. CASE Len(b) # 1
        BY <4>1 DEF IsNumber
      <4>2. CASE Len(b) = 1
        <5>1. shift # 0
          BY <2>1, <2>5, <4>2
        <5>2. b # Zero
          BY <5>1
        <5>3. b \in Seq(Digits)
          BY DEF IsNumber
        <5>4. b = <<b[1]>>
          BY <4>2, <5>3
        <5> QED
          BY <4>2, <5>2, <5>4 DEF Zero
      <4> QED
        BY <4>1, <4>2
    <3> QED
      BY <2>3, <3>2, <3>3
  <2> QED
    BY <1>2, <2>4, <2>5
<1>7. IsNumber(Carried(sums)) /\ Value(Carried(sums)) = Value(sums)
  <2>1. PICK top \in Digits : top = 1
    BY DigitsAre
  <2>2. \A i \in 1 .. Len(sums) : sums[i] + top < (top + 1) * Base
    BY <1>4, <1>5, <2>1
  <2> QED
    BY <1>2, <1>5, <1>6, <2>2, CarriedIs
<1>8. Whole(sums) /\ Whole(e)
  <2>1. sums \in [1 .. width -> Int]
    BY <1>5
  <2>2. sums \in Seq(Int)
    BY <1>2, <1>5, <2>1
  <2> QED
    BY <1>5, <2>2 DEF Whole
<1>9. \A i \in 1 .. width : Limb(sums, i) = sums[i] /\ Limb(e, i) = e[i]
  BY <1>2, <1>5, <1>8, Limbs DEF Whole
<1>10. Low(e)[width] = Value(b) * Weight(shift)
  <2>1. \A i \in 1 .. width : Limb(e, i) = Limb(b, i - shift)
    BY <1>4, <1>9
  <2> QED
    <3>1. PlacedAt(e, b, shift, width)
      BY <2>1 DEF PlacedAt
    <3> QED
      BY <1>1, <1>2, <1>8, <3>1, LowPlaced
<1>11. Low(sums)[width] = Low(a)[width] + Low(e)[width]
  <2>1. PICK k \in Int : k = 1
    OBVIOUS
  <2>2. Combined(sums, a, k, e, width)
    <3> SUFFICES ASSUME NEW i \in 1 .. width PROVE Limb(sums, i) = Limb(a, i) + k * Limb(e, i)
      BY DEF Combined
    <3> QED
      BY <1>4, <1>9, <2>1
  <2>3. Low(sums)[width] = Low(a)[width] + k * Low(e)[width]
    BY <1>1, <1>2, <1>8, <2>2, LowLinear
  <2>4. Low(e)[width] \in Int
    BY <1>2, <1>8, LowStep
  <2> QED
    BY <2>1, <2>3, <2>4
<1>12. Low(a)[width] = Value(a) /\ Low(sums)[width] = Value(sums)
  BY <1>1, <1>2, <1>5, LowBeyond DEF Value
<1> QED
  BY <1>3, <1>7, <1>10, <1>11, <1>12

(* Long multiplication multiplies.                                          *)
THEOREM LimbsMultiply ==
  ASSUME NEW a, NEW b, IsNumber(a), IsNumber(b)
  PROVE  IsNumber(Mul(a, b)) /\ Value(Mul(a, b)) = Value(a) * Value(b)
<1> DEFINE n == Len(a)
           Added(i, x) == AddShifted(x, MulScalar(b, a[i]), i - 1)
           step == [i \in Nat |-> [x \in Numbers |-> IF i \in 1 .. n /\ a[i] # 0 THEN Added(i, x) ELSE x]]
<1>1. n \in Nat /\ Whole(a) /\ a \in Seq(Digits) /\ Value(a) \in Nat /\ Value(b) \in Nat
  BY NumberWhole, NumberBounds
<1>2. CASE a = Zero \/ b = Zero
  <2>1. Mul(a, b) = Zero /\ (Value(a) = 0 \/ Value(b) = 0)
    BY <1>2, ZeroAndOne DEF Mul
  <2>2. Value(a) * Value(b) = 0
    BY <1>1, <2>1
  <2> QED
    BY <2>1, <2>2, ZeroAndOne
<1>3. CASE ~(a = Zero \/ b = Zero)
  <2>1. Mul(a, b) = Products(a, b)[n] /\ Value(b) # 0
    BY <1>3, ZeroAndOne DEF Mul
  <2>2. ASSUME NEW i \in 1 .. n, NEW x, IsNumber(x), a[i] # 0
        PROVE  IsNumber(Added(i, x)) /\ Value(Added(i, x)) = Value(x) + (Value(b) * a[i]) * Weight(i - 1)
    <3>1. a[i] \in Digits /\ a[i] \in Nat \ {0} /\ i - 1 \in Nat
      <4>1. a[i] \in Digits
        BY <1>1
      <4>2. a[i] \in Nat
        BY <4>1, DigitsAre
      <4> QED
        BY <2>2, <4>1, <4>2
    <3>2. IsNumber(MulScalar(b, a[i])) /\ Value(MulScalar(b, a[i])) = Value(b) * a[i]
      BY <3>1, MulScalarIs
    <3>3. Value(b) * a[i] # 0
      <4>1. Value(b) \in Nat \ {0}
        BY <1>1, <2>1
      <4> QED
        BY <3>1, <4>1, ProductPositive
    <3>4. MulScalar(b, a[i]) # Zero
      BY <3>2, <3>3, ZeroAndOne
    <3> DEFINE m == MulScalar(b, a[i])
               j == i - 1
    <3>5. IsNumber(m) /\ m # Zero /\ Value(m) = Value(b) * a[i] /\ j \in Nat
      BY <3>1, <3>2, <3>4
    <3> HIDE DEF m, j
    <3>6. IsNumber(AddShifted(x, m, j)) /\ Value(AddShifted(x, m, j)) = Value(x) + Value(m) * Weight(j)
      BY <2>2, <3>5, AddShiftedIs
    <3> QED
      BY <3>5, <3>6 DEF m, j
  <2>3. \A i \in Nat, x \in Numbers :
          /\ step[i][x] \in Numbers
          /\ i \in 1 .. n => step[i][x] = IF a[i] = 0 THEN x ELSE Added(i, x)
    <3> TAKE i \in Nat, x \in Numbers
    <3>1. step[i][x] = IF i \in 1 .. n /\ a[i] # 0 THEN Added(i, x) ELSE x
      OBVIOUS
    <3> HIDE DEF step, n
    <3>2. i \in 1 .. n /\ a[i] # 0 => Added(i, x) \in Numbers
      <4> HIDE DEF Added
      <4> QED
        BY <2>2, NumbersAre
    <3> HIDE DEF Added
    <3> QED
      BY <3>1, <3>2
  <2>4. Zero \in Numbers
    BY ZeroAndOne, NumbersAre
  <2> HIDE DEF step
  <2>5. PICK f : IsRecursive(f, 0 .. n, Zero, step, Numbers)
    BY <1>1, <2>3, <2>4, RecursionTo
  <2>6. ASSUME NEW i \in 0 .. n
        PROVE  f[i] = IF i = 0 THEN Zero ELSE IF a[i] = 0 THEN f[i - 1] ELSE Added(i, f[i - 1])
    <3>1. f[i] = IF i = 0 THEN Zero ELSE step[i][f[i - 1]]
      BY <2>5 DEF IsRecursive
    <3>2. ASSUME i # 0 PROVE step[i][f[i - 1]] = IF a[i] = 0 THEN f[i - 1] ELSE Added(i, f[i - 1])
      <4>1. i - 1 \in 0 .. n /\ i \in Nat /\ i \in 1 .. n
        BY <3>2
      <4>2. f[i - 1] \in Numbers
        BY <2>5, <4>1 DEF IsRecursive
      <4> HIDE DEF Added
      <4> QED
        BY <2>3, <4>1, <4>2
    <3> HIDE DEF Added
    <3> QED
      BY <3>1, <3>2
  <2>7. f = [i \in 0 .. n |-> IF i = 0 THEN Zero ELSE IF a[i] = 0 THEN f[i - 1] ELSE Added(i, f[i - 1])]
    <3>1. f = [i \in 0 .. n |-> f[i]]
      BY <2>5 DEF IsRecursive
    <3> HIDE DEF Added
    <3> QED
      BY <2>6, <3>1
  <2> DEFINE sum == Products(a, b)
  <2>8. sum = [i \in 0 .. n |-> IF i = 0 THEN Zero ELSE IF a[i] = 0 THEN sum[i - 1] ELSE Added(i, sum[i - 1])]
    BY <2>7 DEF Products
  <2> HIDE DEF sum, Added
  <2> DEFINE Right == {i \in Nat : i <= n => IsNumber(sum[i]) /\ Value(sum[i]) = Low(a)[i] * Value(b)}
  <2>9. 0 \in Right
    <3>1. sum[0] = Zero
      BY <1>1, <2>8
    <3>2. Low(a)[0] * Value(b) = 0
      <4>1. Low(a)[0] = 0
        BY <1>1, LowStep
      <4> QED
        BY <1>1, <4>1
    <3> QED
      BY <3>1, <3>2, ZeroAndOne
  <2>10. ASSUME NEW i \in Nat, i \in Right PROVE i + 1 \in Right
    <3>1. SUFFICES ASSUME i + 1 <= n
                   PROVE IsNumber(sum[i + 1]) /\ Value(sum[i + 1]) = Low(a)[i + 1] * Value(b)
      OBVIOUS
    <3>2. i + 1 \in 1 .. n /\ i + 1 \in 0 .. n /\ (i + 1) - 1 = i /\ i + 1 # 0 /\ i + 1 \in Int
      BY <1>1, <3>1
    <3>3. IsNumber(sum[i]) /\ Value(sum[i]) = Low(a)[i] * Value(b)
      BY <1>1, <2>10, <3>1
    <3>4. sum[i + 1] = IF a[i + 1] = 0 THEN sum[i] ELSE Added(i + 1, sum[i])
      BY <2>8, <3>2
    <3>5. Limb(a, i + 1) = a[i + 1]
      BY <1>1, <3>2, LimbIs
    <3>6. /\ Low(a)[i + 1] = Low(a)[i] + a[i + 1] * Weight(i)
          /\ Low(a)[i] \in Int /\ Weight(i) \in Int /\ a[i + 1] \in Int
      BY <1>1, <3>5, LowNext
    <3>7. Low(a)[i + 1] * Value(b) = Low(a)[i] * Value(b) + (Value(b) * a[i + 1]) * Weight(i)
      <4> DEFINE x == a[i + 1]
                 v == Value(b)
                 w == Weight(i)
                 l == Low(a)[i]
      <4>1. x \in Int /\ v \in Int /\ w \in Int /\ l \in Int
        BY <1>1, <3>6
      <4> HIDE DEF x, v, w, l
      <4>2. (l + x * w) * v = l * v + (x * w) * v /\ (x * w) * v = (v * x) * w
        BY <4>1
      <4> QED
        BY <3>6, <4>2 DEF x, v, w, l
    <3>8. CASE a[i + 1] = 0
      <4>1. Low(a)[i + 1] = Low(a)[i]
        BY <3>6, <3>8
      <4> QED
        BY <3>3, <3>4, <3>8, <4>1
    <3>9. CASE a[i + 1] # 0
      BY <2>2, <3>2, <3>3, <3>4, <3>7, <3>9
    <3> QED
      BY <3>8, <3>9
  <2> HIDE DEF Right
  <2>11. Nat \subseteq Right
    BY <2>9, <2>10, SetInduction
  <2>12. IsNumber(sum[n]) /\ Value(sum[n]) = Low(a)[n] * Value(b)
    BY <1>1, <2>11 DEF Right
  <2> QED
    BY <2>1, <2>12 DEF Value, sum
<1> QED
  BY <1>2, <1>3

-----------------------------------------------------------------------------
(* Shifts. *)

(* A limb shifted up falls into the part that stays and the part carried;   *)
(* p and q are what the shifts in the two directions multiply by.           *)
LEMMA ShiftedDigit ==
  ASSUME NEW p \in Nat \ {0}, NEW q \in Nat \ {0}, p * q = Base, NEW x \in Digits
  PROVE  /\ x \div q \in 0 .. p - 1 /\ x % q \in 0 .. q - 1
         /\ x = (x \div q) * q + (x % q)
         /\ (x * p) % Base = (x % q) * p
         /\ x * p = (x \div q) * Base + (x % q) * p
         /\ (x % q) * p \in 0 .. Base - p
<1> DEFINE k == x \div q
           r == x % q
<1>1. x \in Nat /\ x < p * q
  BY DigitsAre DEF Digits
<1>2. k \in Nat /\ r \in 0 .. q - 1 /\ x = k * q + r /\ k < p
  BY <1>1, Dividing
<1> HIDE DEF k, r
<1>3. x * p = k * Base + r * p
  <2>1. (k * q + r) * p = (k * q) * p + r * p
    BY <1>2
  <2>2. (k * q) * p = k * (p * q)
    BY <1>2
  <2> QED
    BY <1>2, <2>1, <2>2
<1>4. r * p \in 0 .. Base - p
  <2>1. r \in Nat /\ r <= q - 1 /\ q - 1 \in Int /\ p \in Nat
    BY <1>2
  <2>2. r * p \in Nat
    BY <2>1, ProductNat
  <2>3. r * p <= (q - 1) * p
    BY <2>1, ProductGrows
  <2>4. (q - 1) * p = Base - p
    BY <2>1
  <2> QED
    BY <2>1, <2>2, <2>3, <2>4, BaseIs
<1>5. (x * p) % Base = r * p
  <2>1. r * p \in 0 .. Base - 1 /\ k \in Int /\ Base \in Nat \ {0}
    BY <1>2, <1>4, BaseIs
  <2>2. (k * Base + r * p) % Base = r * p
    BY <2>1, DivisionUnique
  <2> QED
    BY <1>3, <2>2
<1> QED
  BY <1>2, <1>3, <1>4, <1>5 DEF k, r

(* A number of bits is a number of limbs and a rest.                        *)
LEMMA BitsAre ==
  ASSUME NEW bits \in Nat
  PROVE  LET w == bits \div LimbBits
             s == bits % LimbBits
         IN /\ w \in Nat /\ s \in 0 .. LimbBits - 1
            /\ TwoTo[s] \in Nat \ {0} /\ TwoTo[LimbBits - s] \in Nat \ {0}
            /\ TwoTo[s] * TwoTo[LimbBits - s] = Base
            /\ Weight(w) * TwoTo[s] = TwoTo[bits]
            /\ bits = w * LimbBits + s
<1> DEFINE w == bits \div LimbBits
           s == bits % LimbBits
<1>1. w \in Nat /\ s \in 0 .. LimbBits - 1 /\ bits = w * LimbBits + s /\ LimbBits \in Nat \ {0}
  BY LimbsAre, Dividing
<1> HIDE DEF w, s
<1>2. s \in Nat /\ LimbBits - s \in Nat /\ s + (LimbBits - s) = LimbBits /\ LimbBits * w \in Nat
      /\ LimbBits * w + s = bits
  BY <1>1
<1>3. TwoTo[s + (LimbBits - s)] = TwoTo[s] * TwoTo[LimbBits - s]
  BY <1>2, TwoToSum
<1>4. TwoTo[LimbBits * w + s] = TwoTo[LimbBits * w] * TwoTo[s]
  BY <1>2, TwoToSum
<1> QED
  BY <1>1, <1>2, <1>3, <1>4, TwoToPositive DEF w, s, Weight, Base

LEMMA ShiftLeftIs ==
  ASSUME NEW a, IsNumber(a), NEW bits \in Nat
  PROVE  IsNumber(ShiftLeft(a, bits)) /\ Value(ShiftLeft(a, bits)) = Value(a) * TwoTo[bits]
<1> DEFINE w == bits \div LimbBits
           z == bits % LimbBits
           p == TwoTo[z]
           q == TwoTo[LimbBits - z]
           m == Len(a) + w + 1
           d == [i \in 1 .. m |-> ((Limb(a, i - w) * p) % Base) + (Limb(a, i - w - 1) \div q)]
           e == [i \in 1 .. m |-> Limb(a, i - w)]
           s == [i \in 1 .. m |-> e[i] * p]
           c == [i \in 0 .. m |-> Limb(a, i - w) \div q]
<1>1. /\ w \in Nat /\ p \in Nat \ {0} /\ q \in Nat \ {0} /\ p * q = Base
      /\ Weight(w) * p = TwoTo[bits] /\ Base \in Nat
  BY BitsAre, BaseIs
<1>2. Whole(a) /\ Len(a) \in Nat \ {0} /\ Value(a) \in Nat
  BY NumberWhole, NumberBounds
<1>3. m \in Nat /\ m >= 1 /\ w + Len(a) <= m /\ m - w = Len(a) + 1
  BY <1>1, <1>2
<1>4. ShiftLeft(a, bits) = Trimmed(d)
  BY DEF ShiftLeft
<1> HIDE DEF w, z, p, q, m
<1>5. ASSUME NEW i \in Int PROVE Limb(a, i) \in Digits
  BY <1>5, NumberWhole, Zenon
<1>6. ASSUME NEW i \in 1 .. m
      PROVE  /\ d[i] \in Digits /\ s[i] \in Int /\ e[i] = Limb(a, i - w) /\ s[i] = e[i] * p /\ e[i] \in Int
             /\ d[i] + c[i] * Base = s[i] + c[i - 1]
  <2> DEFINE x == Limb(a, i - w)
             y == Limb(a, i - w - 1)
  <2>1. i - w \in Int /\ i - w - 1 \in Int /\ i \in 0 .. m /\ i - 1 \in 0 .. m /\ (i - 1) - w = i - w - 1
    <3> HIDE DEF x, y, d, e, s, c
    <3> QED
      BY <1>1, <1>3
  <2>2. x \in Digits /\ y \in Digits
    BY <1>5, <2>1
  <2>3. /\ d[i] = ((x * p) % Base) + (y \div q) /\ e[i] = x /\ s[i] = x * p
        /\ c[i] = x \div q
    BY <2>1
  <2>4. c[i - 1] = y \div q
    BY <2>1
  <2> HIDE DEF d, e, s, c, x, y
  <2>5. /\ x \div q \in Nat /\ (x * p) % Base = (x % q) * p /\ x * p = (x \div q) * Base + (x % q) * p
        /\ (x % q) * p \in 0 .. Base - p
    BY <1>1, <2>2, ShiftedDigit
  <2>6. y \div q \in 0 .. p - 1
    BY <1>1, <2>2, ShiftedDigit
  <2>7. x \in Int /\ p \in Int /\ x * p \in Int
    BY <1>1, <2>2, DigitsAre
  <2> DEFINE r == (x % q) * p
             k == x \div q
             h == y \div q
  <2>8. r \in 0 .. Base - p /\ k \in Nat /\ h \in 0 .. p - 1 /\ x * p = k * Base + r /\ d[i] = r + h
        /\ c[i] = k /\ c[i - 1] = h
    BY <2>3, <2>4, <2>5, <2>6
  <2> HIDE DEF r, k, h
  <2>9. d[i] \in Digits
    BY <1>1, <2>8 DEF Digits
  <2>10. d[i] + c[i] * Base = s[i] + c[i - 1]
    <3>1. k * Base \in Int
      BY <1>1, <2>8
    <3>2. (r + h) + k * Base = (k * Base + r) + h
      BY <1>1, <2>8, <3>1
    <3> QED
      BY <2>3, <2>8, <3>2
  <2> QED
    BY <2>3, <2>7, <2>9, <2>10 DEF x
<1>7. \A i \in 0 .. m : c[i] = Limb(a, i - w) \div q /\ c[i] \in Int
  <2> TAKE i \in 0 .. m
  <2>1. i - w \in Int
    BY <1>1
  <2>2. Limb(a, i - w) \in Digits
    BY <1>5, <2>1
  <2>3. Limb(a, i - w) \div q \in 0 .. p - 1
    BY <1>1, <2>2, ShiftedDigit
  <2>4. Limb(a, i - w) \div q \in Int
    BY <1>1, <2>3
  <2> QED
    BY <2>4
<1>8. /\ d \in Seq(Digits) /\ Len(d) = m /\ s \in Seq(Int) /\ Len(s) = m
      /\ e \in Seq(Int) /\ Len(e) = m
  <2>1. d \in [1 .. m -> Digits] /\ s \in [1 .. m -> Int] /\ e \in [1 .. m -> Int]
    <3>1. \A i \in 1 .. m : d[i] \in Digits /\ s[i] \in Int /\ e[i] \in Int
      BY <1>6
    <3> QED
      BY <3>1
  <2> HIDE DEF d, e, s
  <2> QED
    BY <1>3, <2>1, SeqOf
<1> HIDE DEF d, e, s, c
<1>9. Whole(d) /\ Whole(s) /\ Whole(e)
  BY <1>8, DigitsWhole DEF Whole
<1>10. \A i \in 1 .. m : Limb(d, i) = d[i] /\ Limb(s, i) = s[i] /\ Limb(e, i) = e[i]
  BY <1>3, <1>8, <1>9, Limbs DEF Whole
<1>11. Low(d)[m] + c[m] * Weight(m) = Low(s)[m] + c[0]
  <2>1. \A i \in 0 .. m : c[i] \in Int
    BY <1>7
  <2>2. \A i \in 1 .. m : Limb(d, i) + c[i] * Base = Limb(s, i) + c[i - 1]
    BY <1>6, <1>10
  <2>3. m \in Nat
    BY <1>3
  <2> QED
    <3>1. CarriesOver(d, s, c, m)
      BY <2>1, <2>2 DEF CarriesOver
    <3> QED
      BY <1>9, <2>3, <3>1, Carrying
<1>12. c[m] = 0 /\ c[0] = 0
  <2>1. m \in 0 .. m /\ 0 \in 0 .. m /\ m - w \in Int /\ 0 - w \in Int
        /\ m - w \notin 1 .. Len(a) /\ 0 - w \notin 1 .. Len(a)
    BY <1>1, <1>2, <1>3
  <2>2. Limb(a, m - w) = 0 /\ Limb(a, 0 - w) = 0
    BY <1>2, <2>1, LimbIs
  <2>3. 0 \div q = 0
    BY <1>1
  <2> QED
    BY <1>7, <2>1, <2>2, <2>3
<1>13. Low(e)[m] = Value(a) * Weight(w)
  <2>1. \A i \in 1 .. m : Limb(e, i) = Limb(a, i - w)
    BY <1>6, <1>10
  <2> QED
    <3>1. PlacedAt(e, a, w, m)
      BY <2>1 DEF PlacedAt
    <3> QED
      BY <1>1, <1>2, <1>3, <1>9, <3>1, LowPlaced
<1>14. Low(s)[m] = Low(e)[m] * p
  <2>1. PICK k \in Int : k = p - 1
    BY <1>1
  <2>2. Combined(s, e, k, e, m)
    <3> SUFFICES ASSUME NEW i \in 1 .. m PROVE Limb(s, i) = Limb(e, i) + k * Limb(e, i)
      BY DEF Combined
    <3>1. s[i] = e[i] * p /\ e[i] \in Int
      BY <1>6
    <3> QED
      BY <1>1, <1>10, <2>1, <3>1
  <2>3. Low(s)[m] = Low(e)[m] + k * Low(e)[m]
    BY <1>3, <1>9, <2>2, LowLinear
  <2>4. Low(e)[m] \in Int
    BY <1>3, <1>9, LowStep
  <2> QED
    BY <1>1, <2>1, <2>3, <2>4
<1>15. Value(d) = Value(a) * TwoTo[bits]
  <2>1. Low(d)[m] = Low(e)[m] * p
    <3>1. Low(d)[m] \in Int /\ Weight(m) \in Int /\ Low(s)[m] \in Int
      BY <1>3, <1>9, LowStep, WeightStep
    <3> QED
      BY <1>11, <1>12, <1>14, <3>1
  <2>2. (Value(a) * Weight(w)) * p = Value(a) * (Weight(w) * p)
    <3>1. Weight(w) \in Int
      BY <1>1, WeightStep
    <3> QED
      BY <1>1, <1>2, <3>1
  <2> QED
    BY <1>1, <1>8, <1>13, <2>1, <2>2 DEF Value
<1> QED
  BY <1>3, <1>4, <1>8, <1>15, TrimmedIs

LEMMA ShrBitsIs ==
  ASSUME NEW a, IsNumber(a), NEW bits \in Nat
  PROVE  IsNumber(ShrBits(a, bits)) /\ Value(ShrBits(a, bits)) = Value(a) \div TwoTo[bits]
<1> DEFINE w == bits \div LimbBits
           z == bits % LimbBits
           p == TwoTo[z]
           q == TwoTo[LimbBits - z]
           m == Len(a) - w
           d == [i \in 1 .. m |-> (a[i + w] \div p) + ((Limb(a, i + w + 1) * q) % Base)]
           h == [i \in 1 .. m |-> a[i + w]]
           s == [i \in 1 .. m |-> d[i] * p]
           c == [i \in 0 .. m |-> 0 - (Limb(a, i + w + 1) % p)]
<1>1. /\ w \in Nat /\ p \in Nat \ {0} /\ q \in Nat \ {0} /\ p * q = Base /\ q * p = Base
      /\ Weight(w) * p = TwoTo[bits] /\ Base \in Nat
  BY BitsAre, BaseIs
<1>2. Whole(a) /\ Len(a) \in Nat \ {0} /\ Value(a) \in Nat /\ a \in Seq(Digits)
  BY NumberWhole, NumberBounds
<1>3. Weight(w) \in Nat \ {0} /\ TwoTo[bits] \in Nat \ {0}
  BY <1>1, WeightStep, TwoToPositive
<1>4. ShrBits(a, bits) = IF w >= Len(a) THEN Zero ELSE Trimmed(d)
  BY DEF ShrBits
<1> HIDE DEF w, z, p, q
<1>5. CASE w >= Len(a)
  <2>1. Value(a) < Weight(w)
    <3>1. Value(a) < Weight(Len(a)) /\ Weight(Len(a)) <= Weight(w) /\ Weight(Len(a)) \in Nat
      BY <1>1, <1>2, <1>5, NumberBounds, WeightGrows, WeightStep
    <3> QED
      BY <1>2, <1>3, <3>1
  <2>2. Weight(w) <= p * Weight(w) /\ p * Weight(w) = TwoTo[bits]
    BY <1>1, <1>3, ProductPositive
  <2>3. Value(a) \in 0 .. TwoTo[bits] - 1
    BY <1>2, <1>3, <2>1, <2>2
  <2>4. (0 * TwoTo[bits] + Value(a)) \div TwoTo[bits] = 0
    BY <1>3, <2>3, DivisionUnique
  <2>5. Value(a) \div TwoTo[bits] = 0
    BY <1>2, <1>3, <2>4
  <2> QED
    BY <1>4, <1>5, <2>5, ZeroAndOne
<1>6. CASE ~(w >= Len(a))
  <2>1. m \in Nat /\ m >= 1 /\ w + m = Len(a)
    BY <1>1, <1>2, <1>6
  <2> HIDE DEF m
  <2>2. ASSUME NEW i \in Int PROVE Limb(a, i) \in Digits
    BY <2>2, NumberWhole, Zenon
  <2>3. \A i \in 0 .. m : c[i] = 0 - (Limb(a, i + w + 1) % p) /\ Limb(a, i + w + 1) % p \in 0 .. p - 1
    <3> TAKE i \in 0 .. m
    <3>1. i + w + 1 \in Int
      BY <1>1
    <3>2. Limb(a, i + w + 1) \in Digits
      BY <2>2, <3>1
    <3>3. Limb(a, i + w + 1) % p \in 0 .. p - 1
      BY <1>1, <3>2, ShiftedDigit
    <3> QED
      BY <3>3
  <2>4. ASSUME NEW i \in 1 .. m
        PROVE  /\ d[i] \in Digits /\ s[i] = d[i] * p /\ s[i] \in Int /\ h[i] \in Digits
               /\ h[i] = Limb(a, w + i)
               /\ s[i] + c[i] * Base = h[i] + c[i - 1]
    <3> DEFINE x == a[i + w]
               y == Limb(a, i + w + 1)
    <3>1. /\ i + w \in Int /\ i + w + 1 \in Int /\ i + w \in 1 .. Len(a) /\ w + i = i + w
          /\ i \in 0 .. m /\ i - 1 \in 0 .. m /\ (i - 1) + w + 1 = i + w
      BY <1>1, <2>1
    <3>2. Limb(a, i + w) = x
      BY <1>2, <3>1, LimbIs
    <3>3. x \in Digits /\ y \in Digits
      BY <2>2, <3>1, <3>2
    <3>4. /\ d[i] = (x \div p) + ((y * q) % Base) /\ h[i] = x /\ s[i] = d[i] * p
          /\ c[i] = 0 - (y % p)
      BY <3>1
    <3>5. c[i - 1] = 0 - (x % p)
      BY <2>3, <3>1, <3>2
    <3> HIDE DEF x, y, d, h, s, c
    <3>6. x \div p \in 0 .. q - 1 /\ x % p \in 0 .. p - 1 /\ x = (x \div p) * p + (x % p)
      BY <1>1, <3>3, ShiftedDigit
    <3>7. y % p \in 0 .. p - 1 /\ (y * q) % Base = (y % p) * q /\ (y % p) * q \in 0 .. Base - q
      BY <1>1, <3>3, ShiftedDigit
    <3> DEFINE k == x \div p
               r == x % p
               t == y % p
    <3>8. /\ k \in 0 .. q - 1 /\ r \in 0 .. p - 1 /\ x = k * p + r /\ t \in 0 .. p - 1
          /\ t * q \in 0 .. Base - q /\ d[i] = k + t * q /\ c[i] = 0 - t /\ c[i - 1] = 0 - r
      BY <3>4, <3>5, <3>6, <3>7
    <3> HIDE DEF k, r, t
    <3>9. d[i] \in Digits
      <4> DEFINE u == t * q
      <4>1. u \in 0 .. Base - q /\ d[i] = k + u
        BY <3>8
      <4> HIDE DEF u
      <4> QED
        BY <1>1, <3>8, <4>1 DEF Digits
    <3>10. s[i] + c[i] * Base = h[i] + c[i - 1]
      <4>1. (k + t * q) * p = k * p + t * (q * p) /\ k * p \in Int /\ t * Base \in Int
        <5>1. k \in Int /\ t \in Int /\ p \in Int /\ q \in Int /\ t * q \in Int
          BY <1>1, <3>8
        <5>2. (k + t * q) * p = k * p + (t * q) * p
          BY <5>1, Spread
        <5>3. (t * q) * p = t * (q * p)
          BY <5>1
        <5> QED
          BY <1>1, <5>1, <5>2, <5>3
      <4>2. s[i] = k * p + t * Base
        BY <1>1, <3>4, <3>8, <4>1
      <4>3. (0 - t) * Base = 0 - t * Base
        BY <1>1, <3>8
      <4> DEFINE u == k * p
                 v == t * Base
      <4>4. s[i] = u + v /\ c[i] * Base = 0 - v /\ h[i] = u + r /\ c[i - 1] = 0 - r /\ u \in Int /\ v \in Int
        BY <3>4, <3>8, <4>1, <4>2, <4>3
      <4> HIDE DEF u, v
      <4> QED
        BY <3>8, <4>4
    <3>11. s[i] \in Int
      <4>1. d[i] \in Nat
        BY <3>9, DigitsAre
      <4> QED
        BY <1>1, <3>4, <4>1
    <3> QED
      BY <3>1, <3>2, <3>3, <3>4, <3>9, <3>10, <3>11
  <2>5. /\ d \in Seq(Digits) /\ Len(d) = m /\ s \in Seq(Int) /\ Len(s) = m
        /\ h \in Seq(Digits) /\ Len(h) = m
    <3>1. d \in [1 .. m -> Digits] /\ s \in [1 .. m -> Int] /\ h \in [1 .. m -> Digits]
      <4>1. \A i \in 1 .. m : d[i] \in Digits /\ s[i] \in Int /\ h[i] \in Digits
        BY <2>4
      <4> QED
        BY <4>1
    <3> HIDE DEF d, h, s
    <3> QED
      BY <2>1, <3>1, SeqOf
  <2> HIDE DEF d, h, s, c
  <2>6. Whole(d) /\ Whole(s) /\ Whole(h)
    BY <2>5, DigitsWhole DEF Whole
  <2>7. \A i \in 1 .. m : Limb(d, i) = d[i] /\ Limb(s, i) = s[i] /\ Limb(h, i) = h[i]
    BY <2>1, <2>5, <2>6, Limbs DEF Whole
  <2>8. Low(s)[m] + c[m] * Weight(m) = Low(h)[m] + c[0]
    <3>1. \A i \in 0 .. m : c[i] \in Int
      BY <1>1, <2>3
    <3>2. \A i \in 1 .. m : Limb(s, i) + c[i] * Base = Limb(h, i) + c[i - 1]
      BY <2>4, <2>7
    <3> QED
      <4>1. CarriesOver(s, h, c, m)
        BY <3>1, <3>2 DEF CarriesOver
      <4> QED
        BY <2>1, <2>6, <4>1, Carrying
  <2>9. c[m] = 0
    <3>1. m \in 0 .. m /\ m + w + 1 \in Int /\ m + w + 1 \notin 1 .. Len(a)
      BY <1>1, <1>2, <2>1
    <3>2. Limb(a, m + w + 1) = 0
      BY <1>2, <3>1, LimbIs
    <3>3. 0 % p = 0
      BY <1>1
    <3>4. c[m] = 0 - (Limb(a, m + w + 1) % p)
      BY <2>3, <3>1
    <3> QED
      BY <3>2, <3>3, <3>4
  <2>10. PICK r \in 0 .. p - 1 : c[0] = 0 - r
    <3>1. 0 \in 0 .. m
      BY <2>1
    <3> QED
      BY <2>3, <3>1
  <2>11. Low(s)[m] = Low(d)[m] * p
    <3>1. PICK k \in Int : k = p - 1
      BY <1>1
    <3>2. Combined(s, d, k, d, m)
      <4> SUFFICES ASSUME NEW i \in 1 .. m PROVE Limb(s, i) = Limb(d, i) + k * Limb(d, i)
        BY DEF Combined
      <4>1. s[i] = d[i] * p /\ d[i] \in Digits
        BY <2>4
      <4>2. d[i] \in Nat
        BY <4>1, DigitsAre
      <4> QED
        BY <1>1, <2>7, <3>1, <4>1, <4>2
    <3>3. Low(s)[m] = Low(d)[m] + k * Low(d)[m]
      BY <2>1, <2>6, <3>2, LowLinear
    <3>4. Low(d)[m] \in Int
      BY <2>1, <2>6, LowStep
    <3> QED
      BY <1>1, <3>1, <3>3, <3>4
  <2>12. /\ Low(a)[w + m] = Low(a)[w] + Weight(w) * Low(h)[m]
         /\ Low(a)[w + m] = Value(a)
         /\ Low(a)[w] \in 0 .. Weight(w) - 1
    <3>1. \A i \in 1 .. m : Limb(h, i) = Limb(a, w + i)
      BY <2>4, <2>7
    <3>2. \A i \in 1 .. w : Limb(a, i) \in Digits
      BY <2>2
    <3>3. Low(a)[w + m] = Low(a)[w] + Weight(w) * Low(h)[m]
      BY <1>1, <1>2, <2>1, <2>6, <3>1, LowSplit
    <3>4. Low(a)[w] \in 0 .. Weight(w) - 1
      BY <1>1, <1>2, <3>2, LowBound
    <3> QED
      BY <2>1, <3>3, <3>4 DEF Value
  <2> DEFINE v == Value(d)
             low == Low(a)[w]
             W == Weight(w)
  <2>13. v \in Int /\ v = Low(d)[m] /\ low \in 0 .. W - 1 /\ W \in Nat \ {0}
    BY <1>3, <2>1, <2>5, <2>6, <2>12, LowStep DEF Value
  <2>14. Low(h)[m] = v * p + r
    <3> HIDE DEF v
    <3>1. Weight(m) \in Int /\ Low(h)[m] \in Int /\ v * p \in Int
      <4>1. Low(h)[m] \in Int
        BY <2>1, <2>6, LowStep
      <4>2. Weight(m) \in Int
        BY <2>1, WeightStep
      <4> QED
        BY <1>1, <2>13, <4>1, <4>2
    <3>2. v * p + 0 * Weight(m) = Low(h)[m] + (0 - r)
      BY <2>8, <2>9, <2>10, <2>11, <2>13
    <3> QED
      BY <2>10, <3>1, <3>2
  <2>15. Value(a) = v * TwoTo[bits] + (W * r + low)
    <3> HIDE DEF v, low, W
    <3>1. Value(a) = low + W * (v * p + r)
      BY <2>12, <2>14 DEF low, W
    <3>2. v * p \in Int /\ r \in Int /\ W \in Int /\ p \in Int
      BY <1>1, <2>10, <2>13
    <3>3. W * (v * p + r) = W * (v * p) + W * r
      BY <3>2, Spread
    <3>4. W * (v * p) = v * (W * p) /\ W * r \in Int
      BY <2>13, <3>2
    <3>5. W * p = TwoTo[bits]
      BY <1>1 DEF W
    <3>6. v * TwoTo[bits] \in Int
      BY <1>3, <2>13
    <3> QED
      BY <2>13, <3>1, <3>3, <3>4, <3>5, <3>6
  <2>16. W * r + low \in 0 .. TwoTo[bits] - 1
    <3> HIDE DEF v, low, W
    <3>1. r \in Nat /\ r <= p - 1 /\ p - 1 \in Int /\ W \in Nat
      BY <1>1, <2>10, <2>13
    <3>2. r * W <= (p - 1) * W /\ r * W \in Nat
      BY <3>1, ProductGrows, ProductNat
    <3>3. (p - 1) * W = p * W - W /\ r * W = W * r /\ p * W \in Int
      BY <1>1, <3>1
    <3>4. p * W = TwoTo[bits]
      BY <1>1, <3>1 DEF W
    <3> QED
      BY <1>3, <2>13, <3>2, <3>3, <3>4
  <2>17. Value(a) \div TwoTo[bits] = v
    <3> HIDE DEF v, low, W
    <3>1. (v * TwoTo[bits] + (W * r + low)) \div TwoTo[bits] = v
      BY <1>3, <2>13, <2>16, DivisionUnique
    <3> QED
      BY <2>15, <3>1
  <2>18. IsNumber(Trimmed(d)) /\ Value(Trimmed(d)) = Value(d)
    BY <2>1, <2>5, TrimmedIs
  <2> QED
    BY <1>4, <1>6, <2>17, <2>18
<1> QED
  BY <1>5, <1>6

-----------------------------------------------------------------------------
(* Division. *)

(* One limb of a sum grows.                                                 *)
LEMMA LowBumped ==
  ASSUME NEW q, NEW r, Whole(q), Whole(r), NEW m \in Nat, Len(q) = m, Len(r) = m,
         NEW w \in 1 .. m, NEW t \in Int,
         \A i \in 1 .. m : r[i] = IF i = w THEN q[i] + t ELSE q[i]
  PROVE  Value(r) = Value(q) + t * Weight(w - 1)
<1> DEFINE e == [i \in 1 .. m |-> Limb(One, i - (w - 1))]
<1>1. Whole(One) /\ Len(One) = 1 /\ Value(One) = 1
  BY ZeroAndOne, NumberWhole DEF One
<1>2. w - 1 \in Nat /\ (w - 1) + 1 <= m /\ (w - 1) + Len(One) <= m
  BY <1>1
<1>3. ASSUME NEW i \in 1 .. m PROVE e[i] = Limb(One, i - (w - 1)) /\ e[i] \in Int /\ e[i] = IF i = w THEN 1 ELSE 0
  <2>1. i - (w - 1) \in Int /\ e[i] = Limb(One, i - (w - 1))
    BY <1>2
  <2>2. Limb(One, i - (w - 1)) \in Int
    BY <1>1, <2>1, LimbTyped, Zenon
  <2>3. CASE i = w
    <3>1. i - (w - 1) = 1 /\ 1 \in 1 .. Len(One) /\ One[1] = 1 /\ 1 \in Int
      BY <1>1, <2>3 DEF One
    <3>2. Limb(One, 1) = One[1]
      BY <1>1, <3>1, LimbIs, Zenon
    <3>3. e[i] = 1
      BY <2>1, <3>1, <3>2
    <3> HIDE DEF e
    <3> QED
      BY <2>1, <2>2, <2>3, <3>3
  <2>4. CASE i # w
    <3>1. i - (w - 1) \notin 1 .. Len(One)
      BY <1>1, <2>4
    <3>2. Limb(One, i - (w - 1)) = 0
      BY <1>1, <2>1, <3>1, LimbIs, Zenon
    <3>3. e[i] = 0
      BY <2>1, <3>2
    <3> HIDE DEF e
    <3> QED
      BY <2>1, <2>2, <2>4, <3>3
  <2> QED
    BY <2>3, <2>4
<1>4. e \in Seq(Int) /\ Len(e) = m
  <2>1. e \in [1 .. m -> Int]
    <3>1. \A i \in 1 .. m : e[i] \in Int
      BY <1>3
    <3> QED
      BY <3>1
  <2> HIDE DEF e
  <2> QED
    BY <2>1, SeqOf
<1> HIDE DEF e
<1>5. Whole(e) /\ \A i \in 1 .. m : Limb(e, i) = e[i]
  BY <1>4, Limbs DEF Whole
<1>6. Low(e)[m] = Weight(w - 1)
  <2>1. PlacedAt(e, One, w - 1, m)
    BY <1>3, <1>5 DEF PlacedAt
  <2>2. Low(e)[m] = Value(One) * Weight(w - 1)
    BY <1>1, <1>2, <1>5, <2>1, LowPlaced
  <2>3. Weight(w - 1) \in Nat
    BY <1>2, WeightStep
  <2> QED
    BY <1>1, <2>2, <2>3
<1>7. \A i \in 1 .. m : Limb(q, i) = q[i] /\ Limb(r, i) = r[i] /\ q[i] \in Int
  BY Limbs DEF Whole
<1>8. Combined(r, q, t, e, m)
  <2> SUFFICES ASSUME NEW i \in 1 .. m PROVE Limb(r, i) = Limb(q, i) + t * Limb(e, i)
    BY DEF Combined
  <2>1. Limb(r, i) = r[i] /\ Limb(q, i) = q[i] /\ Limb(e, i) = (IF i = w THEN 1 ELSE 0) /\ q[i] \in Int
    BY <1>3, <1>5, <1>7
  <2>2. r[i] = IF i = w THEN q[i] + t ELSE q[i]
    OBVIOUS
  <2> QED
    BY <2>1, <2>2
<1>9. Low(r)[m] = Low(q)[m] + t * Low(e)[m]
  BY <1>5, <1>8, LowLinear
<1> QED
  BY <1>6, <1>9 DEF Value

(* What can still be added to a limb when the bits below this one are left. *)
Room(w, bit) ==
  TwoTo[IF bit <= LimbBits * (w - 1) THEN 0
        ELSE IF LimbBits * w <= bit THEN LimbBits
        ELSE bit - LimbBits * (w - 1)]

LEMMA RoomIs ==
  ASSUME NEW w \in Nat \ {0}, NEW bit \in Nat
  PROVE  /\ Room(w, bit) \in Nat \ {0} /\ Room(w, bit) <= Room(w, bit + 1) /\ Room(w, bit) <= Base
         /\ w = (bit \div LimbBits) + 1 =>
              Room(w, bit) = TwoTo[bit % LimbBits] /\ Room(w, bit + 1) = 2 * TwoTo[bit % LimbBits]
<1> DEFINE l == LimbBits
           v == l * (w - 1)
           Rest(b) == IF b <= v THEN 0 ELSE IF v + l <= b THEN l ELSE b - v
<1>1. l \in Nat \ {0} /\ v \in Nat /\ l * w = v + l
  <2>1. l \in Nat \ {0} /\ w - 1 \in Nat
    BY LimbsAre
  <2> HIDE DEF l
  <2>2. l * (w - 1) = l * w - l /\ l * w \in Int
    BY <2>1
  <2>3. l * (w - 1) \in Nat
    BY <2>1, ProductNat
  <2> QED
    BY <2>1, <2>2, <2>3
<1>2. \A b \in Nat : Room(w, b) = TwoTo[Rest(b)]
  BY <1>1 DEF Room
<1> HIDE DEF v, l
<1>3. /\ Rest(bit) \in Nat /\ Rest(bit + 1) \in Nat /\ Rest(bit) <= Rest(bit + 1)
      /\ Rest(bit) <= l
  BY <1>1
<1>4. Room(w, bit) \in Nat \ {0} /\ Room(w, bit) <= Room(w, bit + 1)
  <2> HIDE DEF Rest
  <2>1. Room(w, bit) = TwoTo[Rest(bit)] /\ Room(w, bit + 1) = TwoTo[Rest(bit + 1)]
    BY <1>2
  <2> QED
    BY <1>3, <2>1, TwoToPositive, TwoToGrows
<1>5. Room(w, bit) <= Base
  <2> HIDE DEF Rest
  <2>1. Room(w, bit) = TwoTo[Rest(bit)] /\ l \in Nat
    BY <1>1, <1>2
  <2> QED
    BY <1>3, <2>1, TwoToGrows DEF Base, l
<1>6. ASSUME w = (bit \div LimbBits) + 1
      PROVE  Room(w, bit) = TwoTo[bit % LimbBits] /\ Room(w, bit + 1) = 2 * TwoTo[bit % LimbBits]
  <2> DEFINE k == bit \div LimbBits
             r == bit % LimbBits
  <2>1. k \in Nat /\ r \in 0 .. l - 1 /\ bit = k * l + r /\ w = k + 1
    BY <1>1, <1>6, Dividing DEF l
  <2> HIDE DEF k, r
  <2>2. v = k * l
    BY <1>1, <2>1 DEF v
  <2>3. Rest(bit) = r /\ Rest(bit + 1) = r + 1 /\ r \in Nat
    BY <1>1, <2>1, <2>2
  <2> HIDE DEF Rest
  <2>4. Room(w, bit) = TwoTo[r] /\ Room(w, bit + 1) = TwoTo[r + 1]
    BY <1>2, <2>3
  <2> QED
    BY <2>3, <2>4, TwoToStep DEF r
<1> QED
  BY <1>4, <1>5, <1>6

Partial(m) == [remainder : Numbers, quotient : [1 .. m -> Nat]]

(* The division as far as it goes when the bits below this one are left.    *)
DividedTo(bit, a, b, x, m) ==
  /\ Value(a) = Value(x.quotient) * Value(b) + Value(x.remainder)
  /\ Value(x.remainder) < TwoTo[bit] * Value(b)
  /\ \A w \in 1 .. m : x.quotient[w] + Room(w, bit) <= Base

LEMMA DivisionStep ==
  ASSUME NEW b, IsNumber(b), NEW m \in Nat, NEW bit \in Nat, bit < m * LimbBits,
         NEW x \in Partial(m)
  PROVE  /\ DivideBit(bit, b, x) \in Partial(m)
         /\ \A a : IsNumber(a) /\ DividedTo(bit + 1, a, b, x, m) => DividedTo(bit, a, b, DivideBit(bit, b, x), m)
<1> DEFINE w == (bit \div LimbBits) + 1
           t == TwoTo[bit % LimbBits]
           s == ShiftLeft(b, bit)
           y == DivideBit(bit, b, x)
           q == [x.quotient EXCEPT ![w] = @ + t]
           T == TwoTo[bit]
<1>1. LimbBits \in Nat \ {0}
  BY LimbsAre
<1>2. w \in 1 .. m /\ w - 1 = bit \div LimbBits
  <2>1. bit \div LimbBits \in Nat /\ bit \div LimbBits < m
    BY <1>1, Dividing
  <2> HIDE DEF q, s, t, y
  <2> QED
    BY <2>1
<1>3. t \in Nat \ {0} /\ Weight(w - 1) * t = T
  <2>1. TwoTo[bit % LimbBits] \in Nat \ {0} /\ Weight(bit \div LimbBits) * TwoTo[bit % LimbBits] = TwoTo[bit]
    BY BitsAre
  <2> QED
    BY <1>2, <2>1
<1>4. IsNumber(x.remainder) /\ x.quotient \in [1 .. m -> Nat]
  BY NumbersAre DEF Partial
<1>5. IsNumber(s) /\ Value(s) = Value(b) * T
  BY ShiftLeftIs
<1>6. T \in Nat \ {0} /\ Value(b) \in Nat /\ Value(x.remainder) \in Nat /\ TwoTo[bit + 1] = 2 * T
  BY <1>4, NumberBounds, TwoToStep, TwoToPositive
<1>7. Ge(x.remainder, s) <=> Value(x.remainder) >= Value(b) * T
  BY <1>4, <1>5, GeIs
<1>8. q \in [1 .. m -> Nat] /\ \A i \in 1 .. m : q[i] = IF i = w THEN x.quotient[i] + t ELSE x.quotient[i]
  <2> HIDE DEF w, t
  <2> QED
    BY <1>2, <1>3, <1>4
<1> HIDE DEF w, t, q
<1>9. CASE ~Ge(x.remainder, s)
  <2>1. y = x
    BY <1>9 DEF DivideBit
  <2>2. ASSUME NEW a, IsNumber(a), DividedTo(bit + 1, a, b, x, m) PROVE DividedTo(bit, a, b, x, m)
    <3>1. Value(x.remainder) < T * Value(b)
      <4>1. Value(b) * T = T * Value(b) /\ Value(b) * T \in Int
        BY <1>6
      <4> QED
        BY <1>6, <1>7, <1>9, <4>1
    <3>2. ASSUME NEW i \in 1 .. m PROVE x.quotient[i] + Room(i, bit) <= Base
      <4>1. x.quotient[i] + Room(i, bit + 1) <= Base
        BY <2>2 DEF DividedTo
      <4>2. i \in Nat \ {0} /\ bit + 1 \in Nat
        OBVIOUS
      <4>3. Room(i, bit) <= Room(i, bit + 1) /\ Room(i, bit) \in Nat /\ Room(i, bit + 1) \in Nat
        BY <4>2, RoomIs
      <4> QED
        BY <1>4, <4>1, <4>3, BaseIs
    <3> QED
      BY <2>2, <3>1, <3>2 DEF DividedTo
  <2> QED
    BY <2>1, <2>2
<1>10. CASE Ge(x.remainder, s)
  <2> DEFINE r == SubAssign(x.remainder, s)
  <2>1. y = [remainder |-> r, quotient |-> q]
    BY <1>10 DEF DivideBit, q, w, t
  <2>2. IsNumber(r) /\ Value(r) = Value(x.remainder) - Value(b) * T
    <3>1. Value(s) <= Value(x.remainder)
      <4>1. Value(b) * T \in Int
        BY <1>6
      <4> QED
        BY <1>5, <1>6, <1>7, <1>10, <4>1
    <3> HIDE DEF s
    <3> QED
      BY <1>4, <1>5, <3>1, SubAssignIs
  <2>3. y \in Partial(m)
    <3>1. r \in Numbers
      BY <2>2, NumbersAre
    <3> HIDE DEF r, y
    <3> QED
      BY <1>8, <2>1, <3>1 DEF Partial
  <2>4. ASSUME NEW a, IsNumber(a), DividedTo(bit + 1, a, b, x, m) PROVE DividedTo(bit, a, b, y, m)
    <3>1. Value(q) = Value(x.quotient) + T
      <4>1. x.quotient \in Seq(Nat) /\ Len(x.quotient) = m /\ q \in Seq(Nat) /\ Len(q) = m
        BY <1>4, <1>8, SeqOf
      <4>2. Whole(x.quotient) /\ Whole(q)
        <5>1. x.quotient \in [1 .. m -> Int] /\ q \in [1 .. m -> Int]
          BY <1>4, <1>8
        <5> QED
          BY <5>1, SeqOf DEF Whole
      <4>3. Value(q) = Value(x.quotient) + t * Weight(w - 1)
        <5>1. w \in 1 .. m /\ t \in Int
          BY <1>2, <1>3
        <5> DEFINE p == x.quotient
        <5>2. \A i \in 1 .. m : q[i] = IF i = w THEN p[i] + t ELSE p[i]
          BY <1>8
        <5>3. Whole(p) /\ Whole(q) /\ Len(p) = m /\ Len(q) = m
          BY <4>1, <4>2
        <5> HIDE DEF p
        <5>4. Value(q) = Value(p) + t * Weight(w - 1)
          BY <5>1, <5>2, <5>3, LowBumped, SMTT(30)
        <5> QED
          BY <5>4 DEF p
      <4>4. Weight(w - 1) \in Int
        <5>1. w - 1 \in Nat
          BY <1>2
        <5> QED
          BY <5>1, WeightStep
      <4> QED
        BY <1>3, <4>3, <4>4
    <3>2. Value(x.quotient) \in Int
      <4>1. x.quotient \in [1 .. m -> Int]
        BY <1>4
      <4>2. Whole(x.quotient) /\ Len(x.quotient) = m
        BY <4>1, SeqOf DEF Whole
      <4> QED
        BY <4>2, LowStep DEF Value
    <3> DEFINE V == Value(x.quotient)
               B == Value(b)
               R == Value(x.remainder)
               A == Value(a)
    <3>3. A = V * B + R /\ R < (2 * T) * B /\ V \in Int /\ B \in Nat /\ R \in Nat
      BY <1>6, <2>4, <3>2 DEF DividedTo
    <3>4. Value(q) = V + T /\ Value(r) = R - B * T
      BY <2>2, <3>1
    <3> HIDE DEF V, B, R, A
    <3>5. (V + T) * B = V * B + T * B /\ T * B = B * T /\ (2 * T) * B = T * B + T * B /\ T * B \in Int /\ V * B \in Int
      BY <1>6, <3>3
    <3>6. A = (V + T) * B + (R - B * T) /\ R - B * T < T * B
      BY <3>3, <3>5
    <3>7. ASSUME NEW i \in 1 .. m PROVE q[i] + Room(i, bit) <= Base
      <4>1. x.quotient[i] + Room(i, bit + 1) <= Base /\ x.quotient[i] \in Nat
        BY <1>4, <2>4 DEF DividedTo
      <4>2. /\ Room(i, bit) <= Room(i, bit + 1) /\ Room(i, bit) \in Nat /\ Room(i, bit + 1) \in Nat
        <5>1. i \in Nat \ {0} /\ bit + 1 \in Nat
          OBVIOUS
        <5> QED
          BY <5>1, RoomIs
      <4>3. CASE i = w
        <5>1. Room(i, bit) = t /\ Room(i, bit + 1) = 2 * t
          <6>1. i \in Nat \ {0} /\ i = (bit \div LimbBits) + 1
            BY <4>3 DEF w
          <6> QED
            BY <6>1, RoomIs DEF t
        <5>2. q[i] = x.quotient[i] + t
          BY <1>8, <4>3
        <5> QED
          BY <1>3, <4>1, <5>1, <5>2, BaseIs
      <4>4. CASE i # w
        <5>1. q[i] = x.quotient[i]
          BY <1>8, <4>4
        <5> QED
          BY <4>1, <4>2, <5>1, BaseIs
      <4> QED
        BY <4>3, <4>4
    <3>8. y.quotient = q /\ y.remainder = r
      BY <2>1
    <3> HIDE DEF y, r
    <3> QED
      BY <3>4, <3>6, <3>7, <3>8 DEF DividedTo, A, B
  <2> QED
    BY <2>3, <2>4
<1> QED
  BY <1>9, <1>10

Divisible(a, b) == IsNumber(a) /\ IsNumber(b) /\ Value(b) # 0 /\ Value(b) <= Value(a)

LEMMA ShiftIs ==
  ASSUME NEW a, NEW b, Divisible(a, b)
  PROVE  LET shift == BitLen(a) - BitLen(b)
         IN shift \in Nat /\ Value(a) < TwoTo[shift + 1] * Value(b)
<1> DEFINE la == BitLen(a)
           lb == BitLen(b)
           A == Value(a)
           B == Value(b)
<1>1. /\ la \in Nat /\ lb \in Nat /\ A \in Nat /\ B \in Nat /\ B # 0 /\ B <= A
      /\ A < TwoTo[la] /\ lb > 0 /\ TwoTo[lb - 1] <= B
  BY BitLenIs, NumberBounds DEF Divisible
<1> HIDE DEF la, lb, A, B
<1>2. lb - 1 \in Nat /\ TwoTo[la] \in Nat /\ TwoTo[lb - 1] \in Nat
  BY <1>1, TwoToStep
<1>3. TwoTo[lb - 1] < TwoTo[la]
  BY <1>1, <1>2
<1>4. lb - 1 < la
  BY <1>1, <1>2, <1>3, TwoToLess
<1>5. la - lb \in Nat /\ ((la - lb) + 1) + (lb - 1) = la /\ (la - lb) + 1 \in Nat
  BY <1>1, <1>4
<1>6. TwoTo[la] = TwoTo[(la - lb) + 1] * TwoTo[lb - 1] /\ TwoTo[(la - lb) + 1] \in Nat
  <2>1. TwoTo[((la - lb) + 1) + (lb - 1)] = TwoTo[(la - lb) + 1] * TwoTo[lb - 1]
    BY <1>2, <1>5, TwoToSum
  <2> QED
    BY <1>5, <2>1, TwoToStep
<1>7. A < TwoTo[(la - lb) + 1] * B
  <2> DEFINE T == TwoTo[(la - lb) + 1]
             L == TwoTo[lb - 1]
  <2>1. T \in Nat /\ L \in Nat /\ L <= B /\ A < T * L
    BY <1>1, <1>2, <1>6
  <2> HIDE DEF T, L
  <2>2. L * T <= B * T
    BY <1>1, <2>1, ProductGrows
  <2>3. L * T = T * L /\ B * T = T * B /\ T * L \in Int /\ T * B \in Int
    BY <1>1, <2>1
  <2>4. A < T * B
    BY <1>1, <2>1, <2>2, <2>3
  <2> QED
    BY <2>4 DEF T
<1> QED
  BY <1>5, <1>7 DEF la, lb, A, B

(* The division in bits, from the highest to the lowest.                    *)
LEMMA DivisionsAre ==
  ASSUME NEW a, NEW b, Divisible(a, b)
  PROVE  LET shift == BitLen(a) - BitLen(b)
             m == (shift \div LimbBits) + 1
         IN /\ Divisions(a, b)[shift + 1] \in Partial(m)
            /\ DividedTo(0, a, b, Divisions(a, b)[shift + 1], m)
<1> DEFINE shift == BitLen(a) - BitLen(b)
           m == (shift \div LimbBits) + 1
           n == shift + 1
           first == [remainder |-> a, quotient |-> [limb \in 1 .. m |-> 0]]
           step == [i \in Nat |-> [x \in Partial(m) |->
                      IF i \in 1 .. n THEN DivideBit(n - i, b, x) ELSE x]]
<1>1. shift \in Nat /\ Value(a) < TwoTo[shift + 1] * Value(b)
  BY ShiftIs
<1>2. IsNumber(a) /\ IsNumber(b)
  BY DEF Divisible
<1> HIDE DEF shift
<1>3. m \in Nat \ {0} /\ shift < m * LimbBits
  <2> DEFINE k == shift \div LimbBits
             r == shift % LimbBits
             l == LimbBits
  <2>1. k \in Nat /\ shift = k * l + r /\ r \in 0 .. l - 1 /\ l \in Nat
    BY <1>1, LimbsAre, Dividing
  <2> HIDE DEF k, r, l
  <2>2. (k + 1) * l = k * l + l /\ k * l \in Int
    BY <2>1
  <2>3. shift < (k + 1) * l
    BY <2>1, <2>2
  <2> QED
    BY <2>1, <2>3 DEF k, l
<1>4. n \in Nat \ {0} /\ n \in Nat /\ m \in Nat
  BY <1>1, <1>3
<1> HIDE DEF m
<1>5. first \in Partial(m)
  <2>1. a \in Numbers
    BY <1>2, NumbersAre
  <2> QED
    BY <2>1 DEF Partial
<1>6. ASSUME NEW i \in 1 .. n, NEW x \in Partial(m)
      PROVE  /\ DivideBit(n - i, b, x) \in Partial(m)
             /\ DividedTo((n - i) + 1, a, b, x, m) => DividedTo(n - i, a, b, DivideBit(n - i, b, x), m)
  <2>1. n - i \in Nat /\ n - i <= shift
    BY <1>1
  <2>2. n - i < m * LimbBits
    <3>1. m * LimbBits \in Int
      BY <1>4, LimbsAre
    <3> QED
      BY <1>1, <1>3, <2>1, <3>1
  <2> HIDE DEF n
  <2> QED
    BY <1>2, <1>4, <2>1, <2>2, DivisionStep
<1>7. \A i \in Nat, x \in Partial(m) :
        step[i][x] \in Partial(m) /\ (i \in 1 .. n => step[i][x] = DivideBit(n - i, b, x))
  <2> TAKE i \in Nat, x \in Partial(m)
  <2>1. step[i][x] = IF i \in 1 .. n THEN DivideBit(n - i, b, x) ELSE x
    OBVIOUS
  <2> HIDE DEF step, n
  <2> QED
    BY <1>6, <2>1
<1> HIDE DEF step, first
<1>8. PICK f : IsRecursive(f, 0 .. n, first, step, Partial(m))
  BY <1>4, <1>5, <1>7, RecursionTo
<1>9. f = [i \in 0 .. n |-> IF i = 0 THEN first ELSE DivideBit(n - i, b, f[i - 1])]
  <2>1. f = [i \in 0 .. n |-> f[i]]
    BY <1>8 DEF IsRecursive
  <2>2. ASSUME NEW i \in 0 .. n PROVE f[i] = IF i = 0 THEN first ELSE DivideBit(n - i, b, f[i - 1])
    <3>1. f[i] = IF i = 0 THEN first ELSE step[i][f[i - 1]]
      BY <1>8 DEF IsRecursive
    <3>2. ASSUME i # 0 PROVE step[i][f[i - 1]] = DivideBit(n - i, b, f[i - 1])
      <4>1. i - 1 \in 0 .. n /\ i \in Nat /\ i \in 1 .. n
        BY <1>4, <3>2
      <4>2. f[i - 1] \in Partial(m)
        BY <1>8, <4>1 DEF IsRecursive
      <4> HIDE DEF n
      <4> QED
        BY <1>7, <4>1, <4>2
    <3> HIDE DEF n
    <3> QED
      BY <3>1, <3>2
  <2> HIDE DEF n
  <2> QED
    BY <2>1, <2>2
<1> DEFINE state == Divisions(a, b)
<1>10. state = [i \in 0 .. n |-> IF i = 0 THEN first ELSE DivideBit(n - i, b, state[i - 1])]
  <2> DEFINE g == CHOOSE h : h = [i \in 0 .. n |-> IF i = 0 THEN first ELSE DivideBit(n - i, b, h[i - 1])]
  <2>1. g = [i \in 0 .. n |-> IF i = 0 THEN first ELSE DivideBit(n - i, b, g[i - 1])]
    BY <1>9
  <2>2. state = g
    BY DEF Divisions, n, first, m, shift
  <2> HIDE DEF state, g
  <2> QED
    BY <2>1, <2>2
<1> HIDE DEF state
<1> DEFINE Right == {i \in Nat : i <= n => state[i] \in Partial(m) /\ DividedTo(n - i, a, b, state[i], m)}
<1>11. 0 \in Right
  <2>1. state[0] = first
    BY <1>4, <1>10
  <2> DEFINE q == [limb \in 1 .. m |-> 0]
  <2>2. Value(q) = 0
    <3>1. q \in [1 .. m -> Int] /\ m \in Nat
      BY <1>4
    <3>2. \A i \in 1 .. m : q[i] = 0
      OBVIOUS
    <3> HIDE DEF q
    <3>3. q \in Seq(Int) /\ Len(q) = m
      BY <3>1, SeqOf
    <3>4. Whole(q) /\ \A i \in 1 .. m : Limb(q, i) = 0
      BY <3>1, <3>2, <3>3, Limbs DEF Whole
    <3>5. Low(q)[m] = 0
      BY <3>1, <3>4, LowZero
    <3> QED
      BY <3>3, <3>5 DEF Value
  <2>3. first.remainder = a /\ first.quotient = q
    BY DEF first
  <2>4. \A w \in 1 .. m : q[w] + Room(w, n) <= Base
    <3> TAKE w \in 1 .. m
    <3>1. w \in Nat \ {0} /\ q[w] = 0
      OBVIOUS
    <3>2. Room(w, n) <= Base /\ Room(w, n) \in Nat
      BY <1>4, <3>1, RoomIs
    <3> QED
      BY <3>1, <3>2
  <2>5. Value(a) = Value(q) * Value(b) + Value(a)
    <3>1. Value(a) \in Nat /\ Value(b) \in Nat
      BY <1>2, NumberBounds
    <3> QED
      BY <2>2, <3>1
  <2>6. DividedTo(n, a, b, first, m)
    <3> HIDE DEF q
    <3> QED
      BY <1>1, <2>3, <2>4, <2>5 DEF DividedTo
  <2>7. n - 0 = n
    BY <1>4
  <2> HIDE DEF n
  <2> QED
    BY <1>5, <2>1, <2>6, <2>7
<1>12. ASSUME NEW i \in Nat, i \in Right PROVE i + 1 \in Right
  <2>1. SUFFICES ASSUME i + 1 <= n
                 PROVE  state[i + 1] \in Partial(m) /\ DividedTo(n - (i + 1), a, b, state[i + 1], m)
    OBVIOUS
  <2>2. i + 1 \in 1 .. n /\ i + 1 \in 0 .. n /\ (i + 1) - 1 = i /\ i + 1 # 0
        /\ (n - (i + 1)) + 1 = n - i /\ i <= n
    BY <1>4, <2>1
  <2>3. state[i] \in Partial(m) /\ DividedTo(n - i, a, b, state[i], m)
    BY <1>12, <2>2
  <2>4. state[i + 1] = DivideBit(n - (i + 1), b, state[i])
    BY <1>10, <2>2
  <2> HIDE DEF n
  <2> QED
    BY <1>6, <2>2, <2>3, <2>4
<1> HIDE DEF Right
<1>13. Nat \subseteq Right
  BY <1>11, <1>12, SetInduction
<1>14. state[n] \in Partial(m) /\ DividedTo(n - n, a, b, state[n], m) /\ n - n = 0
  BY <1>4, <1>13 DEF Right
<1> QED
  BY <1>14 DEF state, n, m, shift

(* Binary long division divides.                                            *)
THEOREM LimbsDivide ==
  ASSUME NEW a, NEW b, IsNumber(a), IsNumber(b), b # Zero
  PROVE  IsNumber(DivFloor(a, b)) /\ Value(DivFloor(a, b)) = Value(a) \div Value(b)
<1>1. Value(a) \in Nat /\ Value(b) \in Nat \ {0}
  BY NumberBounds, ZeroAndOne
<1>2. Ge(a, b) <=> Value(a) >= Value(b)
  BY GeIs
<1>3. CASE ~Ge(a, b)
  <2>1. Value(a) \in 0 .. Value(b) - 1
    BY <1>1, <1>2, <1>3
  <2>2. (0 * Value(b) + Value(a)) \div Value(b) = 0
    BY <1>1, <2>1, DivisionUnique
  <2>3. Value(a) \div Value(b) = 0
    BY <1>1, <2>2
  <2> QED
    BY <1>3, <2>3, ZeroAndOne DEF DivFloor
<1>4. CASE Ge(a, b)
  <2>1. Divisible(a, b)
    BY <1>1, <1>2, <1>4 DEF Divisible
  <2> DEFINE shift == BitLen(a) - BitLen(b)
             m == (shift \div LimbBits) + 1
             x == Divisions(a, b)[shift + 1]
             q == x.quotient
  <2>2. shift \in Nat
    BY <2>1, ShiftIs
  <2>3. m \in Nat /\ m >= 1
    <3>1. shift \div LimbBits \in Nat
      BY <2>2, LimbsAre, Dividing
    <3> HIDE DEF shift
    <3> QED
      BY <3>1
  <2>4. x \in Partial(m) /\ DividedTo(0, a, b, x, m)
    BY <2>1, DivisionsAre
  <2>5. DivFloor(a, b) = Trimmed(q)
    BY <1>4 DEF DivFloor
  <2> HIDE DEF m, shift, x
  <2>6. x.quotient \in [1 .. m -> Nat] /\ IsNumber(x.remainder)
    BY <2>4, NumbersAre DEF Partial
  <2>7. ASSUME NEW w \in 1 .. m PROVE q[w] \in Digits
    <3>1. w \in Nat \ {0} /\ 0 \in Nat /\ q[w] \in Nat
      <4>1. q[w] \in Nat
        BY <2>6
      <4> HIDE DEF q
      <4> QED
        BY <2>3, <4>1
    <3>2. Room(w, 0) \in Nat \ {0}
      BY <3>1, RoomIs
    <3>3. q[w] + Room(w, 0) <= Base
      BY <2>4 DEF DividedTo
    <3> QED
      BY <3>1, <3>2, <3>3, BaseIs DEF Digits
  <2>8. q \in Seq(Digits) /\ Len(q) = m
    <3>1. q \in [1 .. m -> Digits]
      BY <2>6, <2>7
    <3> HIDE DEF q
    <3> QED
      BY <2>3, <3>1, SeqOf
  <2>9. IsNumber(Trimmed(q)) /\ Value(Trimmed(q)) = Value(q)
    <3> HIDE DEF q
    <3> QED
      BY <2>3, <2>8, TrimmedIs
  <2>10. Value(q) \in Int /\ Value(x.remainder) \in Nat
    <3>1. Value(x.remainder) \in Nat
      BY <2>6, NumberBounds
    <3>2. Whole(q)
      BY <2>8, DigitsWhole
    <3> HIDE DEF q
    <3> QED
      BY <2>3, <2>8, <3>1, <3>2, LowStep DEF Value
  <2>11. Value(a) = Value(q) * Value(b) + Value(x.remainder) /\ Value(x.remainder) < TwoTo[0] * Value(b)
    BY <2>4 DEF DividedTo
  <2>12. Value(x.remainder) \in 0 .. Value(b) - 1
    BY <1>1, <2>10, <2>11, TwoToStep
  <2>13. Value(a) \div Value(b) = Value(q)
    <3> HIDE DEF q
    <3>1. (Value(q) * Value(b) + Value(x.remainder)) \div Value(b) = Value(q)
      BY <1>1, <2>10, <2>12, DivisionUnique
    <3> QED
      BY <2>11, <3>1
  <2> QED
    BY <2>5, <2>9, <2>13
<1> QED
  BY <1>3, <1>4

-----------------------------------------------------------------------------
(* Reductions. *)

(* A value is written in one way.                                           *)
LEMMA ValueUnique ==
  ASSUME NEW a, NEW b, IsNumber(a), IsNumber(b), Value(a) = Value(b)
  PROVE  a = b
<1> DEFINE n == Len(a)
<1>1. /\ Len(a) \in Nat /\ Len(b) \in Nat /\ Whole(a) /\ Whole(b) /\ a \in Seq(Digits) /\ b \in Seq(Digits)
      /\ Value(a) \in Nat
  BY NumberWhole, NumberBounds
<1>2. Len(b) = Len(a)
  <2>1. ~(Len(a) > Len(b)) /\ ~(Len(b) > Len(a))
    BY <1>1, LongerIsMore
  <2> QED
    BY <1>1, <2>1
<1> DEFINE Right == {m \in Nat : Low(a)[m] = Low(b)[m] => \A i \in 1 .. m : Limb(a, i) = Limb(b, i)}
<1>3. 0 \in Right
  OBVIOUS
<1>4. ASSUME NEW m \in Nat, m \in Right PROVE m + 1 \in Right
  <2>1. SUFFICES ASSUME Low(a)[m + 1] = Low(b)[m + 1]
                 PROVE \A i \in 1 .. m + 1 : Limb(a, i) = Limb(b, i)
    OBVIOUS
  <2> DEFINE x == Low(a)[m]
             y == Low(b)[m]
             w == Weight(m)
             k == Limb(a, m + 1)
             l == Limb(b, m + 1)
  <2>2. Low(a)[m + 1] = x + k * w /\ Low(b)[m + 1] = y + l * w /\ k \in Int /\ l \in Int
    BY <1>1, LowNext
  <2>3. x \in 0 .. w - 1 /\ y \in 0 .. w - 1 /\ w \in Nat \ {0}
    <3>1. \A i \in 1 .. m : Limb(a, i) \in Digits /\ Limb(b, i) \in Digits
      BY NumberWhole
    <3> QED
      BY <1>1, <3>1, LowBound, WeightStep
  <2> HIDE DEF x, y, w, k, l
  <2>4. k * w + x = l * w + y
    <3>1. k * w \in Int /\ l * w \in Int /\ x \in Int /\ y \in Int
      BY <2>2, <2>3
    <3>2. x + k * w = y + l * w
      BY <2>1, <2>2, Zenon
    <3> QED
      BY <3>1, <3>2
  <2>5. (k * w + x) \div w = k /\ (k * w + x) % w = x /\ (l * w + y) \div w = l /\ (l * w + y) % w = y
    BY <2>2, <2>3, DivisionUnique
  <2>6. k = l /\ x = y
    BY <2>4, <2>5
  <2>7. \A i \in 1 .. m : Limb(a, i) = Limb(b, i)
    BY <1>4, <2>6 DEF x, y
  <2> QED
    BY <2>6, <2>7 DEF k, l
<1> HIDE DEF Right
<1>5. Nat \subseteq Right
  BY <1>3, <1>4, SetInduction
<1>6. \A i \in 1 .. n : Limb(a, i) = Limb(b, i)
  <2>1. Low(a)[n] = Low(b)[n] /\ n \in Nat
    BY <1>1, <1>2 DEF Value
  <2> HIDE DEF n
  <2> QED
    BY <1>5, <2>1 DEF Right
<1>7. \A i \in 1 .. n : a[i] = b[i]
  <2>1. \A i \in 1 .. n : Limb(a, i) = a[i] /\ Limb(b, i) = b[i]
    BY <1>1, <1>2, Limbs DEF Whole
  <2> QED
    BY <1>6, <2>1
<1> QED
  BY <1>1, <1>2, <1>7

LEMMA OneLess ==
  ASSUME NEW v \in Nat, NEW n \in Nat \ {0}, n <= v
  PROVE  (v - n) % n = v % n
<1> DEFINE q == v \div n
           r == v % n
<1>1. q \in Nat /\ r \in 0 .. n - 1 /\ v = q * n + r
  BY Dividing
<1> HIDE DEF q, r
<1>2. v - n = (q - 1) * n + r /\ q - 1 \in Int
  BY <1>1
<1>3. ((q - 1) * n + r) % n = r
  BY <1>1, <1>2, DivisionUnique
<1> QED
  BY <1>2, <1>3 DEF r

LEMMA Below ==
  ASSUME NEW v \in Nat, NEW n \in Nat \ {0}, v < n
  PROVE  v % n = v /\ v \div n = 0
<1>1. v \in 0 .. n - 1
  OBVIOUS
<1>2. (0 * n + v) % n = v /\ (0 * n + v) \div n = 0
  BY <1>1, DivisionUnique
<1> QED
  BY <1>2

(* Subtracting until what is left is small enough leaves the remainder.     *)
THEOREM LimbsReduce ==
  ASSUME NEW a, NEW n, IsNumber(a), IsNumber(n), n # Zero
  PROVE  IsNumber(Reduced(a, n)) /\ Value(Reduced(a, n)) = Value(a) % Value(n)
<1> DEFINE N == Value(n)
           f == [r \in Numbers |-> CHOOSE x \in Numbers : Value(x) = Value(r) % N]
<1>1. N \in Nat \ {0}
  BY NumberBounds, ZeroAndOne
<1>2. ASSUME NEW r \in Numbers
      PROVE  /\ IsNumber(r) /\ Value(r) \in Nat
             /\ Ge(r, n) <=> Value(r) >= N
             /\ Ge(r, n) => /\ SubAssign(r, n) \in Numbers /\ Value(SubAssign(r, n)) = Value(r) - N
                            /\ Value(SubAssign(r, n)) % N = Value(r) % N
  <2>1. IsNumber(r)
    BY NumbersAre
  <2>2. Value(r) \in Nat /\ (Ge(r, n) <=> Value(r) >= N)
    BY <2>1, NumberBounds, GeIs
  <2>3. ASSUME Ge(r, n)
        PROVE  SubAssign(r, n) \in Numbers /\ Value(SubAssign(r, n)) = Value(r) - N
    BY <1>1, <2>1, <2>2, <2>3, SubAssignIs, NumbersAre
  <2>4. ASSUME Ge(r, n) PROVE (Value(r) - N) % N = Value(r) % N
    BY <1>1, <2>2, <2>4, OneLess
  <2> QED
    BY <2>1, <2>2, <2>3, <2>4
<1>3. f = [r \in Numbers |-> IF Ge(r, n) THEN f[SubAssign(r, n)] ELSE r]
  <2>1. ASSUME NEW r \in Numbers PROVE f[r] = IF Ge(r, n) THEN f[SubAssign(r, n)] ELSE r
    <3>1. f[r] = CHOOSE x \in Numbers : Value(x) = Value(r) % N
      OBVIOUS
    <3>2. CASE Ge(r, n)
      <4> DEFINE s == SubAssign(r, n)
      <4>1. s \in Numbers /\ Value(s) % N = Value(r) % N
        BY <1>2, <3>2
      <4> HIDE DEF s
      <4>2. f[s] = CHOOSE x \in Numbers : Value(x) = Value(s) % N
        BY <4>1
      <4> HIDE DEF f, N
      <4>3. f[s] = f[r]
        BY <3>1, <4>1, <4>2
      <4> QED
        BY <3>2, <4>3 DEF s
    <3>3. CASE ~Ge(r, n)
      <4>1. Value(r) % N = Value(r)
        <5>1. Value(r) \in Nat /\ Value(r) < N
          BY <1>1, <1>2, <3>3
        <5> QED
          BY <1>1, <5>1, Below
      <4>2. \A x \in Numbers : Value(x) = Value(r) => x = r
        BY <1>2, ValueUnique, NumbersAre
      <4> HIDE DEF f, N
      <4>3. f[r] = r
        BY <3>1, <4>1, <4>2
      <4> QED
        BY <3>3, <4>3
    <3> QED
      BY <3>2, <3>3
  <2>2. f = [r \in Numbers |-> f[r]]
    OBVIOUS
  <2> HIDE DEF f
  <2> QED
    BY <2>1, <2>2
<1> DEFINE rest == CHOOSE g : g = [r \in Numbers |-> IF Ge(r, n) THEN g[SubAssign(r, n)] ELSE r]
<1> HIDE DEF f
<1>4. rest = [r \in Numbers |-> IF Ge(r, n) THEN rest[SubAssign(r, n)] ELSE r]
  BY <1>3
<1>5. Reduced(a, n) = rest[a]
  BY DEF Reduced
<1> HIDE DEF rest
<1> DEFINE Right == {v \in Nat : \A r \in Numbers : Value(r) < v =>
                       IsNumber(rest[r]) /\ Value(rest[r]) = Value(r) % N}
<1>6. 0 \in Right
  <2>1. \A r \in Numbers : ~(Value(r) < 0)
    BY <1>2
  <2> QED
    BY <2>1
<1>7. ASSUME NEW v \in Nat, v \in Right PROVE v + 1 \in Right
  <2>1. SUFFICES ASSUME NEW r \in Numbers, Value(r) < v + 1
                 PROVE  IsNumber(rest[r]) /\ Value(rest[r]) = Value(r) % N
    OBVIOUS
  <2>2. rest[r] = IF Ge(r, n) THEN rest[SubAssign(r, n)] ELSE r
    BY <1>4
  <2>3. CASE Ge(r, n)
    <3> DEFINE s == SubAssign(r, n)
    <3>1. s \in Numbers /\ Value(s) = Value(r) - N /\ Value(s) % N = Value(r) % N /\ Value(r) \in Nat
      BY <1>2, <2>3
    <3> HIDE DEF s, N
    <3>2. Value(s) < v
      BY <1>1, <2>1, <3>1
    <3>3. IsNumber(rest[s]) /\ Value(rest[s]) = Value(s) % N
      BY <1>7, <3>1, <3>2
    <3> QED
      BY <2>2, <2>3, <3>1, <3>3 DEF s
  <2>4. CASE ~Ge(r, n)
    <3>1. Value(r) \in Nat /\ Value(r) < N /\ IsNumber(r)
      BY <1>1, <1>2, <2>4
    <3>2. Value(r) % N = Value(r)
      BY <1>1, <3>1, Below
    <3> QED
      BY <2>2, <2>4, <3>1, <3>2
  <2> QED
    BY <2>3, <2>4
<1> HIDE DEF Right
<1>8. Nat \subseteq Right
  BY <1>6, <1>7, SetInduction
<1>9. Value(a) + 1 \in Right /\ Value(a) < Value(a) + 1 /\ a \in Numbers
  <2>1. Value(a) \in Nat
    BY NumberBounds
  <2> QED
    BY <1>8, <2>1, NumbersAre
<1> QED
  BY <1>5, <1>9 DEF Right

LEMMA PowerOfTwoIs ==
  ASSUME NEW bits \in Nat
  PROVE  IsNumber(PowerOfTwo(bits)) /\ Value(PowerOfTwo(bits)) = TwoTo[bits]
<1> DEFINE w == bits \div LimbBits
           z == bits % LimbBits
           t == TwoTo[z]
           m == w + 1
           r == [i \in 1 .. m |-> IF i = m THEN t ELSE 0]
           q == [i \in 1 .. m |-> 0]
<1>1. w \in Nat /\ z \in 0 .. LimbBits - 1 /\ t \in Nat \ {0} /\ Weight(w) * t = TwoTo[bits]
  BY BitsAre
<1>2. PowerOfTwo(bits) = r
  BY DEF PowerOfTwo
<1>3. t \in Digits
  <2>1. LimbBits \in Nat /\ z \in Nat /\ z + 1 <= LimbBits /\ z + 1 \in Nat
    BY <1>1, LimbsAre
  <2>2. TwoTo[z + 1] <= Base /\ TwoTo[z + 1] = 2 * t
    BY <2>1, TwoToGrows, TwoToStep DEF Base
  <2> QED
    BY <1>1, <2>2, BaseIs DEF Digits
<1> HIDE DEF w, z, t
<1>4. m \in Nat /\ m >= 1 /\ m - 1 = w /\ m \in 1 .. m
  BY <1>1
<1>5. r \in [1 .. m -> Digits] /\ q \in [1 .. m -> Int] /\ r[m] = t
  BY <1>3, <1>4, DigitsAre
<1>6. \A i \in 1 .. m : q[i] = 0 /\ r[i] = IF i = m THEN q[i] + t ELSE q[i]
  BY <1>1
<1> HIDE DEF r, q, m
<1>7. r \in Seq(Digits) /\ Len(r) = m /\ q \in Seq(Int) /\ Len(q) = m
  BY <1>4, <1>5, SeqOf
<1>8. Whole(r) /\ Whole(q)
  BY <1>7, DigitsWhole DEF Whole
<1>9. Value(r) = Value(q) + t * Weight(m - 1)
  <2>1. t \in Int
    BY <1>1
  <2> QED
    BY <1>4, <1>6, <1>7, <1>8, <2>1, LowBumped
<1>10. Value(q) = 0
  <2>1. \A i \in 1 .. m : Limb(q, i) = 0
    BY <1>4, <1>6, <1>7, <1>8, Limbs DEF Whole
  <2>2. Low(q)[m] = 0
    BY <1>4, <1>8, <2>1, LowZero
  <2> QED
    BY <1>7, <2>2 DEF Value
<1>11. IsNumber(r)
  BY <1>1, <1>4, <1>5, <1>7 DEF IsNumber
<1>12. Value(r) = TwoTo[bits]
  <2>1. Weight(w) \in Nat
    BY <1>1, WeightStep
  <2> QED
    BY <1>1, <1>4, <1>9, <1>10, <2>1
<1> QED
  BY <1>2, <1>11, <1>12

-----------------------------------------------------------------------------
(* Barrett reduction. *)

LEMMA KBitsAre ==
  ASSUME NEW n, IsNumber(n)
  PROVE  KBits(n) \in Nat /\ BitLen(n) <= KBits(n) /\ Value(n) < TwoTo[KBits(n)]
<1> DEFINE x == BitLen(n) + ByteBits - 1
           q == x \div ByteBits
           r == x % ByteBits
<1>1. ByteBits \in Nat \ {0} /\ BitLen(n) \in Nat /\ Value(n) < TwoTo[BitLen(n)] /\ x \in Nat
  BY LimbsAre, BitLenIs
<1>2. KBits(n) = q * ByteBits
  BY DEF KBits
<1> HIDE DEF x
<1>3. q \in Nat /\ r \in 0 .. ByteBits - 1 /\ x = q * ByteBits + r
  BY <1>1, Dividing
<1> HIDE DEF q, r
<1>4. q * ByteBits \in Nat
  BY <1>1, <1>3, ProductNat
<1>5. BitLen(n) <= q * ByteBits
  BY <1>1, <1>3, <1>4 DEF x
<1>6. TwoTo[BitLen(n)] <= TwoTo[q * ByteBits]
  BY <1>1, <1>4, <1>5, TwoToGrows
<1>7. TwoTo[BitLen(n)] \in Nat /\ TwoTo[q * ByteBits] \in Nat /\ Value(n) \in Nat
  BY <1>1, <1>4, TwoToStep, NumberBounds
<1> QED
  BY <1>1, <1>2, <1>4, <1>5, <1>6, <1>7

LEMMA BarrettMuIs ==
  ASSUME NEW n, IsNumber(n), n # Zero, NEW k \in Nat
  PROVE  /\ IsNumber(BarrettMu(n, k))
         /\ Value(BarrettMu(n, k)) = RoundProofs!Mu(Value(n), TwoTo[2 * k])
<1>1. 2 * k \in Nat
  OBVIOUS
<1>2. IsNumber(PowerOfTwo(2 * k)) /\ Value(PowerOfTwo(2 * k)) = TwoTo[2 * k]
  BY <1>1, PowerOfTwoIs
<1> QED
  BY <1>2, LimbsDivide DEF BarrettMu, RoundProofs!Mu

LEMMA QHatIs ==
  ASSUME NEW a, NEW n, IsNumber(a), IsNumber(n), n # Zero, NEW k \in Nat
  PROVE  LET qHat == QHat(a, k, BarrettMu(n, k))
         IN /\ IsNumber(qHat)
            /\ Value(qHat) = RoundProofs!Estimate(Value(a), Value(n), TwoTo[2 * k])
<1> DEFINE mu == BarrettMu(n, k)
<1>1. IsNumber(mu) /\ Value(mu) = RoundProofs!Mu(Value(n), TwoTo[2 * k])
  BY BarrettMuIs
<1> HIDE DEF mu
<1>2. IsNumber(Mul(a, mu)) /\ Value(Mul(a, mu)) = Value(a) * Value(mu) /\ 2 * k \in Nat
  BY <1>1, LimbsMultiply
<1>3. /\ IsNumber(ShrBits(Mul(a, mu), 2 * k))
      /\ Value(ShrBits(Mul(a, mu), 2 * k)) = (Value(a) * Value(mu)) \div TwoTo[2 * k]
  BY <1>2, ShrBitsIs
<1>4. RoundProofs!Estimate(Value(a), Value(n), TwoTo[2 * k]) = (Value(a) * Value(mu)) \div TwoTo[2 * k]
  BY <1>1 DEF RoundProofs!Estimate
<1> QED
  BY <1>3, <1>4 DEF QHat, mu

(* Barrett's reduction leaves the remainder, for every modulus; and its     *)
(* estimate is never above the quotient, so that slow_mod is never called,  *)
(* nor more than one below for a number of at most twice k bits.            *)
THEOREM BarrettIsRight ==
  ASSUME NEW a, NEW n, IsNumber(a), IsNumber(n), n # Zero, NEW k \in Nat
  PROVE  LET reduced == BarrettModWithMu(a, n, k, BarrettMu(n, k))
             qHat == Value(QHat(a, k, BarrettMu(n, k)))
         IN /\ IsNumber(reduced) /\ Value(reduced) = Value(a) % Value(n)
            /\ Value(a) \div Value(n) - qHat >= 0
            /\ BitLen(a) <= 2 * k => Value(a) \div Value(n) - qHat <= 1
<1> DEFINE x == Value(a)
           N == Value(n)
           bound == TwoTo[2 * k]
           q == QHat(a, k, BarrettMu(n, k))
           h == Value(q)
           qn == Mul(q, n)
           reduced == BarrettModWithMu(a, n, k, BarrettMu(n, k))
<1>1. x \in Nat /\ N \in Nat \ {0}
  BY NumberBounds, ZeroAndOne
<1>2. 2 * k \in Nat /\ bound \in Nat \ {0}
  BY TwoToPositive
<1>3. IsNumber(q) /\ h = RoundProofs!Estimate(x, N, bound)
  BY QHatIs
<1>4. h \in Nat /\ h * N <= x
  BY <1>1, <1>2, <1>3, RoundProofs!EstimateNeverAbove
<1>5. reduced = IF ~Ge(a, n) THEN a
                ELSE IF Ge(a, qn) THEN Reduced(SubAssign(a, qn), n) ELSE Reduced(a, n)
  BY DEF BarrettModWithMu
<1> HIDE DEF reduced
<1>6. IsNumber(qn) /\ Value(qn) = h * N
  BY <1>3, LimbsMultiply
<1> HIDE DEF q, qn
<1>7. Ge(a, qn) /\ IsNumber(SubAssign(a, qn)) /\ Value(SubAssign(a, qn)) = x - h * N
  BY <1>1, <1>4, <1>6, GeIs, SubAssignIs
<1>8. x - h * N \in Nat /\ (x - h * N) % N = x % N
  <2>1. PICK m \in Int : m + h = 0
    <3>1. 0 - h \in Int /\ (0 - h) + h = 0
      BY <1>4
    <3> QED
      BY <3>1
  <2> HIDE DEF x, N, h
  <2>2. x - h * N = x + m * N /\ h * N \in Int
    <3>1. m = 0 - h
      BY <1>4, <2>1
    <3>2. (0 - h) * N = 0 * N - h * N /\ 0 * N = 0 /\ h * N \in Int
      BY <1>1, <1>4, Spread
    <3> QED
      BY <1>1, <3>1, <3>2
  <2>3. (x + m * N) % N = x % N
    <3>1. x \in Int
      BY <1>1
    <3> QED
      BY <1>1, <2>1, <3>1, RoundProofs!RemainderKept
  <2> QED
    BY <1>1, <1>4, <2>2, <2>3
<1>9. IsNumber(reduced) /\ Value(reduced) = x % N
  <2>1. CASE ~Ge(a, n)
    <3>1. x < N
      BY <1>1, <2>1, GeIs
    <3>2. x % N = x
      BY <1>1, <3>1, Below
    <3> QED
      BY <1>5, <2>1, <3>2
  <2>2. CASE Ge(a, n)
    <3> DEFINE s == SubAssign(a, qn)
    <3>1. IsNumber(s) /\ Value(s) = x - h * N /\ reduced = Reduced(s, n)
      BY <1>5, <1>7, <2>2
    <3> HIDE DEF s
    <3>2. IsNumber(Reduced(s, n)) /\ Value(Reduced(s, n)) = Value(s) % N
      BY <3>1, LimbsReduce
    <3> QED
      BY <1>8, <3>1, <3>2
  <2> QED
    BY <2>1, <2>2
<1> DEFINE d == x \div N
<1>10. d \in Nat /\ d * N <= x /\ x < (d + 1) * N
  <2> HIDE DEF x, N
  <2> QED
    BY <1>1, RoundProofs!Rounding
<1> HIDE DEF d, x, N, h
<1>11. h <= d
  <2>1. h * N < (d + 1) * N
    <3>1. h * N \in Int /\ (d + 1) * N \in Int
      BY <1>1, <1>4, <1>10
    <3> QED
      BY <1>1, <1>4, <1>10, <3>1
  <2>2. h < d + 1
    BY <1>1, <1>4, <1>10, <2>1, RoundProofs!FactorCancels
  <2> QED
    BY <1>4, <1>10, <2>2
<1>12. ASSUME BitLen(a) <= 2 * k PROVE d <= h + 1
  <2>1. x \in 0 .. bound
    <3>1. BitLen(a) \in Nat /\ x < TwoTo[BitLen(a)]
      BY BitLenIs DEF x
    <3>2. TwoTo[BitLen(a)] <= bound /\ TwoTo[BitLen(a)] \in Nat
      BY <1>2, <1>12, <3>1, TwoToGrows, TwoToStep
    <3> QED
      BY <1>1, <1>2, <3>1, <3>2
  <2>2. x < (h + 2) * N
    BY <1>1, <1>2, <1>3, <2>1, RoundProofs!EstimateOneBelow
  <2>3. d * N < (h + 2) * N
    <3>1. d * N \in Int /\ (h + 2) * N \in Int
      BY <1>1, <1>4, <1>10
    <3> QED
      BY <1>1, <1>10, <2>2, <3>1
  <2>4. d < h + 2
    BY <1>1, <1>4, <1>10, <2>3, RoundProofs!FactorCancels
  <2> QED
    BY <1>4, <1>10, <2>4
<1>13. d - h >= 0 /\ (BitLen(a) <= 2 * k => d - h <= 1)
  BY <1>4, <1>10, <1>11, <1>12
<1> QED
  BY <1>9, <1>13 DEF d, x, N, h, q, reduced

-----------------------------------------------------------------------------
(* Bits and bytes. *)

(* A limb and what is above it.                                             *)
LEMMA LimbInside ==
  ASSUME NEW a, IsNumber(a), NEW w \in Nat
  PROVE  \E high \in Int :
           /\ Value(a) = (high * Base + Limb(a, w + 1)) * Weight(w) + Low(a)[w]
           /\ Low(a)[w] \in 0 .. Weight(w) - 1 /\ Limb(a, w + 1) \in Digits
<1> DEFINE m == Len(a)
           h == [i \in 1 .. m |-> Limb(a, (w + 1) + i)]
           d == Limb(a, w + 1)
<1>1. Whole(a) /\ m \in Nat /\ (\A i \in Int : Limb(a, i) \in Digits)
  BY NumberWhole
<1>2. w + 1 \in Nat /\ w + 1 \in Int /\ (w + 1) + m \in Nat /\ Len(a) <= (w + 1) + m
  BY <1>1
<1> HIDE DEF m
<1>3. \A i \in 1 .. m : h[i] = Limb(a, (w + 1) + i) /\ h[i] \in Digits
  <2> TAKE i \in 1 .. m
  <2>1. (w + 1) + i \in Int
    BY <1>2
  <2> QED
    BY <1>1, <2>1
<1>4. h \in [1 .. m -> Digits]
  BY <1>3
<1> HIDE DEF h
<1>5. h \in Seq(Digits) /\ Len(h) = m /\ Whole(h)
  BY <1>1, <1>4, SeqOf, DigitsWhole
<1>6. \A i \in 1 .. m : Limb(h, i) = Limb(a, (w + 1) + i)
  BY <1>1, <1>3, <1>5, Limbs DEF Whole
<1>7. Low(a)[(w + 1) + m] = Low(a)[w + 1] + Weight(w + 1) * Low(h)[m]
  <2> DEFINE s == w + 1
  <2>1. s \in Nat /\ \A i \in 1 .. m : Limb(h, i) = Limb(a, s + i)
    BY <1>2, <1>6
  <2> HIDE DEF s
  <2>2. Low(a)[s + m] = Low(a)[s] + Weight(s) * Low(h)[m]
    BY <1>1, <1>5, <2>1, LowSplit
  <2> QED
    BY <2>2 DEF s
<1>8. Low(a)[(w + 1) + m] = Value(a)
  BY <1>1, <1>2, LowBeyond
<1>9. Low(a)[w + 1] = Low(a)[w] + d * Weight(w) /\ Low(a)[w] \in Int
  BY <1>1, LowNext
<1>10. Weight(w + 1) = Base * Weight(w) /\ Weight(w) \in Nat /\ Base \in Nat
  BY WeightStep, BaseIs
<1>11. Low(h)[m] \in Int
  BY <1>1, <1>5, LowStep
<1>12. d \in Digits /\ d \in Int
  <2>1. d \in Digits
    BY <1>1, <1>2, Zenon
  <2> HIDE DEF d
  <2> QED
    BY <2>1, DigitsAre
<1>13. Low(a)[w] \in 0 .. Weight(w) - 1
  <2>1. \A i \in 1 .. w : Limb(a, i) \in Digits
    BY <1>1
  <2> QED
    BY <1>1, <2>1, LowBound
<1> DEFINE high == Low(h)[m]
<1> HIDE DEF d, high
<1>14. Value(a) = (high * Base + d) * Weight(w) + Low(a)[w]
  <2>1. Value(a) = (Low(a)[w] + d * Weight(w)) + (Base * Weight(w)) * high /\ high \in Int
    BY <1>7, <1>8, <1>9, <1>10, <1>11 DEF high
  <2>2. (high * Base + d) * Weight(w) = (Base * Weight(w)) * high + d * Weight(w)
    BY <1>10, <1>12, <2>1
  <2>3. d * Weight(w) \in Int /\ (Base * Weight(w)) * high \in Int
    BY <1>10, <1>12, <2>1
  <2> QED
    BY <1>9, <2>1, <2>2, <2>3
<1> QED
  BY <1>11, <1>12, <1>13, <1>14 DEF d, high

(* Bits inside a limb are bits of the value.                                *)
LEMMA PartIs ==
  ASSUME NEW a, IsNumber(a), NEW bits \in Nat, NEW c \in Nat, (bits % LimbBits) + c <= LimbBits
  PROVE  (Limb(a, (bits \div LimbBits) + 1) \div TwoTo[bits % LimbBits]) % TwoTo[c] =
           (Value(a) \div TwoTo[bits]) % TwoTo[c]
<1> DEFINE w == bits \div LimbBits
           s == bits % LimbBits
           d == Limb(a, w + 1)
           p == TwoTo[s]
           t == TwoTo[c]
           B == Weight(w)
           low == Low(a)[w]
<1>1. w \in Nat /\ s \in Nat /\ p \in Nat \ {0} /\ B * p = TwoTo[bits] /\ s + c <= LimbBits /\ LimbBits \in Nat
  <2>1. w \in Nat /\ s \in 0 .. LimbBits - 1 /\ p \in Nat \ {0} /\ B * p = TwoTo[bits]
    BY BitsAre, Zenon
  <2>2. s + c <= LimbBits
    OBVIOUS
  <2> HIDE DEF w, s, p, B
  <2> QED
    BY <2>1, <2>2, LimbsAre
<1>2. t \in Nat \ {0} /\ B \in Nat \ {0}
  BY <1>1, TwoToPositive, WeightStep
<1>3. PICK high \in Int : /\ Value(a) = (high * Base + d) * B + low
                          /\ low \in 0 .. B - 1 /\ d \in Digits
  BY <1>1, LimbInside
<1>4. d \in Nat
  BY <1>3, DigitsAre
<1> DEFINE g == TwoTo[LimbBits - (s + c)]
<1>5. g \in Nat /\ Base = g * (p * t)
  <2>1. s + c \in Nat /\ LimbBits - (s + c) \in Nat
    BY <1>1
  <2>2. TwoTo[s + c] = p * t
    BY <1>1, TwoToSum
  <2>3. TwoTo[LimbBits] = g * TwoTo[s + c]
    BY <1>1, <2>1, TwoToGrows
  <2> QED
    BY <2>1, <2>2, <2>3, TwoToStep DEF Base
<1> HIDE DEF w, s, p, t, B, low, d, g
<1> DEFINE x == d \div p
           y == d % p
<1>6. x \in Nat /\ y \in 0 .. p - 1 /\ d = x * p + y
  BY <1>1, <1>4, Dividing
<1> HIDE DEF x, y
<1> DEFINE n == TwoTo[bits]
           m == (high * g) * t
           k == x + m
           r == y * B + low
<1>7. n = p * B /\ n \in Nat \ {0}
  BY <1>1, <1>2, TwoToPositive
<1>8. m \in Int /\ k \in Int /\ r \in Int
  BY <1>2, <1>3, <1>5, <1>6
<1>9. r \in 0 .. n - 1
  <2>1. y * B <= (p - 1) * B /\ 0 * B <= y * B
    BY <1>1, <1>2, <1>6, ProductGrows
  <2>2. (p - 1) * B = p * B - B /\ y * B \in Int /\ p * B \in Int
    BY <1>1, <1>2, <1>6
  <2> QED
    BY <1>2, <1>3, <1>7, <1>8, <2>1, <2>2
<1>10. Value(a) = k * n + r
  <2>1. Base = g * (p * t) /\ high * Base = m * p
    <3>1. high * (g * (p * t)) = ((high * g) * t) * p
      BY <1>1, <1>2, <1>3, <1>5
    <3> QED
      BY <1>5, <3>1
  <2> HIDE DEF m
  <2>2. high * Base + d = k * p + y
    <3>1. (x + m) * p = x * p + m * p /\ x * p \in Int /\ m * p \in Int
      BY <1>1, <1>6, <1>8
    <3> QED
      BY <1>6, <2>1, <3>1
  <2> HIDE DEF k
  <2>3. (k * p + y) * B = k * (p * B) + y * B
    BY <1>1, <1>2, <1>6, <1>8
  <2>4. k * (p * B) \in Int /\ y * B \in Int /\ low \in Int
    BY <1>1, <1>2, <1>3, <1>6, <1>8
  <2> HIDE DEF n
  <2> QED
    BY <1>3, <1>7, <2>2, <2>3, <2>4
<1> HIDE DEF n, k, r
<1>11. Value(a) \div n = k
  BY <1>7, <1>8, <1>9, <1>10, DivisionUnique
<1>12. k % t = x % t
  <2>1. x \in Int /\ high * g \in Int
    BY <1>3, <1>5, <1>6
  <2>2. (x + (high * g) * t) % t = x % t
    BY <1>2, <2>1, RoundProofs!RemainderKept
  <2> QED
    BY <2>2 DEF k
<1> QED
  BY <1>11, <1>12 DEF x, n, t, p, d, w, s

(* What mod_pow takes for a bit of the exponent is that bit.                *)
LEMMA BitIs ==
  ASSUME NEW a, IsNumber(a), NEW i \in Nat, i < BitLen(a)
  PROVE  Bit(a, i) = (Value(a) \div TwoTo[i]) % 2
<1> DEFINE w == i \div LimbBits
           s == i % LimbBits
<1>1. w \in Nat /\ s \in 0 .. LimbBits - 1 /\ LimbBits \in Nat /\ TwoTo[i] \in Nat
  BY BitsAre, LimbsAre, TwoToStep
<1>2. TwoTo[1] = 2
  <2>1. TwoTo[0 + 1] = 2 * TwoTo[0]
    BY TwoToStep
  <2> QED
    BY <2>1, TwoToStep
<1>3. (Limb(a, w + 1) \div TwoTo[s]) % TwoTo[1] = (Value(a) \div TwoTo[i]) % TwoTo[1]
  <2>1. s + 1 <= LimbBits
    BY <1>1
  <2> HIDE DEF w
  <2> QED
    BY <2>1, PartIs DEF w
<1>4. w + 1 \in DOMAIN a
  <2>1. a \in Seq(Digits) /\ Len(a) \in Nat /\ DOMAIN a = 1 .. Len(a)
    BY NumberWhole
  <2>2. Value(a) < Weight(Len(a)) /\ Value(a) \in Nat /\ Value(a) # 0
    <3>1. Value(a) = 0 => a = Zero
      BY ZeroAndOne
    <3>2. BitLen(Zero) = 0
      BY DEF BitLen, Zero
    <3> QED
      BY <3>1, <3>2, NumberBounds
  <2>3. TwoTo[BitLen(a) - 1] <= Value(a) /\ BitLen(a) \in Nat /\ BitLen(a) > 0
    BY <2>2, BitLenIs
  <2>4. TwoTo[i] < Weight(Len(a))
    <3>1. TwoTo[i] <= TwoTo[BitLen(a) - 1] /\ TwoTo[BitLen(a) - 1] \in Nat
      <4>1. BitLen(a) - 1 \in Nat /\ i <= BitLen(a) - 1
        BY <2>3
      <4> QED
        BY <4>1, TwoToGrows, TwoToStep
    <3>2. Weight(Len(a)) \in Nat
      BY <2>1, WeightStep
    <3> QED
      BY <1>1, <2>2, <2>3, <3>1, <3>2
  <2>5. i < LimbBits * Len(a)
    <3>1. LimbBits * Len(a) \in Nat
      BY <1>1, <2>1, ProductNat
    <3> QED
      BY <2>4, <3>1, TwoToLess DEF Weight
  <2>6. w < Len(a)
    <3>1. LimbBits \in Nat \ {0} /\ Len(a) * LimbBits = LimbBits * Len(a)
      BY <2>1, LimbsAre
    <3>2. i < Len(a) * LimbBits
      BY <2>5, <3>1
    <3> QED
      BY <2>1, <3>1, <3>2, Dividing
  <2> QED
    BY <1>1, <2>1, <2>6
<1>5. Limb(a, w + 1) = a[w + 1]
  BY <1>4 DEF Limb
<1> QED
  BY <1>2, <1>3, <1>5 DEF Bit

LEMMA DivideTwice ==
  ASSUME NEW x \in Nat, NEW a \in Nat \ {0}, NEW b \in Nat \ {0}
  PROVE  /\ (x \div a) \div b = x \div (a * b)
         /\ x % (a * b) = (x % a) + ((x \div a) % b) * a
<1> DEFINE q == x \div a
           r == x % a
           k == q \div b
           s == q % b
           n == a * b
           t == s * a + r
<1>1. q \in Nat /\ r \in 0 .. a - 1 /\ x = q * a + r
  BY Dividing
<1> HIDE DEF q, r
<1>2. k \in Nat /\ s \in 0 .. b - 1 /\ q = k * b + s
  BY <1>1, Dividing
<1> HIDE DEF k, s
<1>3. n \in Nat \ {0} /\ n = b * a
  BY ProductPositive
<1>4. t \in 0 .. n - 1
  <2>1. s * a <= (b - 1) * a /\ 0 * a <= s * a
    BY <1>2, ProductGrows
  <2>2. (b - 1) * a = b * a - a /\ s * a \in Int /\ b * a \in Int
    BY <1>2
  <2> HIDE DEF n
  <2> QED
    BY <1>1, <1>3, <2>1, <2>2
<1>5. x = k * n + t
  <2>1. (k * b + s) * a = k * (a * b) + s * a /\ k * (a * b) \in Int /\ s * a \in Int
    BY <1>2
  <2> QED
    BY <1>1, <1>2, <2>1
<1> HIDE DEF n, t
<1>6. x \div n = k /\ x % n = t
  BY <1>2, <1>3, <1>4, <1>5, DivisionUnique
<1> QED
  BY <1>6 DEF n, t, k, s, q, r

(* The byte of a number at a place, counted from the lowest.                *)
ByteOf(v, place) == (v \div TwoTo[ByteBits * (place - 1)]) % TwoTo[ByteBits]

(* These bytes, the highest first, write that number.                       *)
Writes(bytes, v) ==
  /\ Len(bytes) \in Nat
  /\ v \in 0 .. TwoTo[ByteBits * Len(bytes)] - 1
  /\ \A place \in 1 .. Len(bytes) : ByteAt(bytes, place) = ByteOf(v, place)

LEMMA ByteStep ==
  ASSUME NEW v \in Nat, NEW w \in Nat, NEW i \in Nat
  PROVE  LET x == v \div Weight(w)
         IN x % TwoTo[ByteBits * (i + 1)] =
              (x % TwoTo[ByteBits * i])
                + ByteOf(v, w * LimbBytes + (i + 1)) * TwoTo[ByteBits * i]
<1> DEFINE x == v \div Weight(w)
           a == TwoTo[ByteBits * i]
           b == TwoTo[ByteBits]
           place == w * LimbBytes + (i + 1)
<1>1. ByteBits \in Nat /\ LimbBytes \in Nat /\ LimbBits = ByteBits * LimbBytes /\ LimbBits \in Nat
  BY LimbsAre DEF LimbBits
<1>2. ByteBits * i \in Nat /\ LimbBits * w \in Nat
  BY <1>1, ProductNat
<1>3. Weight(w) \in Nat \ {0} /\ a \in Nat \ {0} /\ b \in Nat \ {0} /\ x \in Nat
  <2>1. Weight(w) \in Nat \ {0} /\ a \in Nat \ {0} /\ b \in Nat \ {0}
    BY <1>1, <1>2, WeightStep, TwoToPositive
  <2> QED
    BY <2>1, Dividing
<1>4. TwoTo[ByteBits * (i + 1)] = a * b
  <2>1. ByteBits * (i + 1) = ByteBits * i + ByteBits
    BY <1>1
  <2> QED
    BY <1>1, <1>2, <2>1, TwoToSum
<1>5. TwoTo[ByteBits * (place - 1)] = Weight(w) * a
  <2>1. w * LimbBytes \in Nat
    BY <1>1, ProductNat
  <2>2. place - 1 = w * LimbBytes + i
    BY <2>1
  <2>3. ByteBits * (w * LimbBytes + i) = (ByteBits * LimbBytes) * w + ByteBits * i
    BY <1>1, <2>1
  <2>4. TwoTo[LimbBits * w + ByteBits * i] = TwoTo[LimbBits * w] * a
    BY <1>2, TwoToSum
  <2> QED
    BY <1>1, <2>2, <2>3, <2>4 DEF Weight
<1> HIDE DEF place
<1>6. ByteOf(v, place) = (x \div a) % b
  <2>1. (v \div Weight(w)) \div a = v \div (Weight(w) * a)
    BY <1>3, DivideTwice
  <2> QED
    BY <1>5, <2>1 DEF ByteOf
<1> HIDE DEF x, a, b
<1>7. x % (a * b) = (x % a) + ((x \div a) % b) * a
  BY <1>3, DivideTwice
<1> QED
  BY <1>4, <1>6, <1>7 DEF x, a, place

(* The highest byte that is not zero is found,                              *)
LEMMA SignificantIs ==
  ASSUME NEW bytes, Len(bytes) \in Nat
  PROVE  \A n \in 0 .. Len(bytes) :
           /\ Significant(bytes)[n] \in 0 .. n
           /\ Significant(bytes)[n] = 0 \/ ByteAt(bytes, Significant(bytes)[n]) # 0
           /\ \A j \in Significant(bytes)[n] + 1 .. n : ByteAt(bytes, j) = 0
<1> DEFINE step == [i \in Nat |-> [x \in Nat |-> IF i = 0 \/ ByteAt(bytes, i) # 0 THEN i ELSE x]]
<1>1. \A i, x \in Nat : step[i][x] \in Nat /\ step[i][x] = IF i = 0 \/ ByteAt(bytes, i) # 0 THEN i ELSE x
  OBVIOUS
<1> HIDE DEF step
<1>2. PICK f : IsRecursive(f, 0 .. Len(bytes), 0, step, Nat)
  BY <1>1, RecursionTo
<1>3. ASSUME NEW i \in 0 .. Len(bytes)
      PROVE  f[i] \in Nat /\ f[i] = IF i = 0 \/ ByteAt(bytes, i) # 0 THEN i ELSE f[i - 1]
  <2>1. f[i] \in Nat /\ f[i] = IF i = 0 THEN 0 ELSE step[i][f[i - 1]]
    BY <1>2 DEF IsRecursive
  <2>2. ASSUME i # 0 PROVE f[i] = IF ByteAt(bytes, i) # 0 THEN i ELSE f[i - 1]
    <3>1. i - 1 \in 0 .. Len(bytes) /\ i \in Nat
      BY <2>2
    <3>2. f[i - 1] \in Nat
      BY <1>2, <3>1 DEF IsRecursive
    <3> QED
      BY <1>1, <2>1, <2>2, <3>1, <3>2
  <2> QED
    BY <2>1, <2>2
<1>4. f = [i \in 0 .. Len(bytes) |-> IF i = 0 \/ ByteAt(bytes, i) # 0 THEN i ELSE f[i - 1]]
  <2>1. f = [i \in 0 .. Len(bytes) |-> f[i]]
    BY <1>2 DEF IsRecursive
  <2> QED
    BY <1>3, <2>1
<1> DEFINE g == Significant(bytes)
<1>5. g = [i \in 0 .. Len(bytes) |-> IF i = 0 \/ ByteAt(bytes, i) # 0 THEN i ELSE g[i - 1]]
  BY <1>4 DEF Significant
<1> HIDE DEF g
<1> DEFINE Right == {n \in Nat : n <= Len(bytes) =>
                       /\ g[n] \in 0 .. n
                       /\ g[n] = 0 \/ ByteAt(bytes, g[n]) # 0
                       /\ \A j \in g[n] + 1 .. n : ByteAt(bytes, j) = 0}
<1>6. 0 \in Right
  BY <1>5
<1>7. ASSUME NEW n \in Nat, n \in Right PROVE n + 1 \in Right
  <2>1. SUFFICES ASSUME n + 1 <= Len(bytes)
                 PROVE  /\ g[n + 1] \in 0 .. n + 1
                        /\ g[n + 1] = 0 \/ ByteAt(bytes, g[n + 1]) # 0
                        /\ \A j \in g[n + 1] + 1 .. n + 1 : ByteAt(bytes, j) = 0
    OBVIOUS
  <2>2. n + 1 \in 0 .. Len(bytes) /\ (n + 1) - 1 = n
    BY <2>1
  <2>3. g[n + 1] = IF ByteAt(bytes, n + 1) # 0 THEN n + 1 ELSE g[n]
    BY <1>5, <2>2
  <2>4. CASE ByteAt(bytes, n + 1) # 0
    BY <2>3, <2>4
  <2>5. CASE ByteAt(bytes, n + 1) = 0
    BY <1>7, <2>1, <2>3, <2>5
  <2> QED
    BY <2>4, <2>5
<1> HIDE DEF Right
<1>8. Nat \subseteq Right
  BY <1>6, <1>7, SetInduction
<1> QED
  BY <1>8 DEF Right, g

(* and no byte above it counts.                                             *)
LEMMA NoByteAbove ==
  ASSUME NEW v \in Nat, NEW m \in Nat, v < TwoTo[ByteBits * m], NEW place \in Nat, place > m
  PROVE  ByteOf(v, place) = 0
<1>1. ByteBits \in Nat /\ place - 1 \in Nat /\ m <= place - 1
  BY LimbsAre
<1>2. ByteBits * m \in Nat /\ ByteBits * (place - 1) \in Nat /\ ByteBits * m <= ByteBits * (place - 1)
  <2>1. m * ByteBits <= (place - 1) * ByteBits
    BY <1>1, ProductGrows
  <2>2. m * ByteBits = ByteBits * m /\ (place - 1) * ByteBits = ByteBits * (place - 1)
    BY <1>1
  <2> QED
    BY <1>1, <2>1, <2>2, ProductNat
<1> DEFINE t == TwoTo[ByteBits * (place - 1)]
           b == TwoTo[ByteBits]
<1>3. t \in Nat \ {0} /\ b \in Nat \ {0} /\ TwoTo[ByteBits * m] <= t /\ TwoTo[ByteBits * m] \in Nat
  BY <1>1, <1>2, TwoToGrows, TwoToPositive
<1> HIDE DEF t, b
<1>4. v \div t = 0
  BY <1>3, Below
<1>5. 0 % b = 0
  BY <1>3, Below
<1> QED
  BY <1>4, <1>5 DEF ByteOf, t, b

LEMMA Shorter ==
  ASSUME NEW v \in Nat, NEW m \in Nat, v < TwoTo[ByteBits * (m + 1)], ByteOf(v, m + 1) = 0
  PROVE  v < TwoTo[ByteBits * m]
<1> DEFINE t == TwoTo[ByteBits * m]
           b == TwoTo[ByteBits]
           q == v \div t
<1>1. ByteBits \in Nat /\ ByteBits * m \in Nat /\ ByteBits * (m + 1) = ByteBits + ByteBits * m
  BY LimbsAre, ProductNat
<1>2. t \in Nat \ {0} /\ b \in Nat \ {0} /\ TwoTo[ByteBits * (m + 1)] = b * t
  BY <1>1, TwoToPositive, TwoToSum
<1>3. q % b = 0
  <2>1. (m + 1) - 1 = m
    OBVIOUS
  <2> QED
    BY <2>1 DEF ByteOf
<1> HIDE DEF t, b
<1>4. q \in Nat /\ q < b /\ v % t \in 0 .. t - 1 /\ v = q * t + (v % t)
  <2>1. v < b * t
    BY <1>2
  <2>2. q \in Nat /\ v % t \in 0 .. t - 1 /\ v = q * t + (v % t)
    BY <1>2, Dividing
  <2>3. q < b
    BY <1>2, <2>1, Dividing
  <2> QED
    BY <2>2, <2>3
<1> HIDE DEF q
<1>5. q = 0
  BY <1>2, <1>3, <1>4, Below
<1>6. v = v % t
  <2>1. 0 * t = 0
    BY <1>2
  <2> QED
    BY <1>2, <1>4, <1>5, <2>1
<1> QED
  BY <1>2, <1>4, <1>6 DEF t

LEMMA ByteBoundary ==
  ASSUME NEW m \in Nat
  PROVE  /\ m * LimbBytes \in Nat /\ TwoTo[ByteBits * (m * LimbBytes)] = Weight(m)
         /\ TwoTo[ByteBits * LimbBytes] = Base
<1>1. ByteBits \in Nat /\ LimbBytes \in Nat
  BY LimbsAre
<1>2. ByteBits * (m * LimbBytes) = (ByteBits * LimbBytes) * m
  BY <1>1
<1> QED
  BY <1>1, <1>2, ProductNat DEF Weight, LimbBits, Base

(* A limb read from bytes is the part of the number that belongs there.     *)
LEMMA WordIs ==
  ASSUME NEW bytes, NEW v, Writes(bytes, v), NEW length \in 0 .. Len(bytes),
         v < TwoTo[ByteBits * length], NEW limb \in Nat \ {0}
  PROVE  Word(bytes, length, limb)[LimbBytes] = (v \div Weight(limb - 1)) % Base
<1> DEFINE w == limb - 1
           x == v \div Weight(w)
           Place(i) == (limb - 1) * LimbBytes + i
           term == [i \in Nat |-> IF Place(i) > length THEN 0
                                  ELSE ByteAt(bytes, Place(i)) * TwoTo[ByteBits * (i - 1)]]
           f == [i \in 0 .. LimbBytes |-> x % TwoTo[ByteBits * i]]
<1>1. w \in Nat /\ ByteBits \in Nat /\ LimbBytes \in Nat /\ v \in Nat /\ length \in Nat
  BY LimbsAre DEF Writes
<1>2. x \in Nat
  BY <1>1, WeightStep, Dividing
<1>3. ASSUME NEW i \in Nat
      PROVE  x % TwoTo[ByteBits * (i + 1)] = (x % TwoTo[ByteBits * i]) + term[i + 1]
  <2>1. x % TwoTo[ByteBits * (i + 1)] =
          (x % TwoTo[ByteBits * i]) + ByteOf(v, w * LimbBytes + (i + 1)) * TwoTo[ByteBits * i]
    BY <1>1, ByteStep
  <2> DEFINE place == Place(i + 1)
  <2>2. place = w * LimbBytes + (i + 1) /\ place \in Nat \ {0}
    <3>1. w * LimbBytes \in Nat
      BY <1>1, ProductNat
    <3> QED
      BY <3>1
  <2>3. i + 1 \in Nat /\ (i + 1) - 1 = i
    OBVIOUS
  <2>4. term[i + 1] = IF place > length THEN 0 ELSE ByteAt(bytes, place) * TwoTo[ByteBits * i]
    BY <2>3
  <2> HIDE DEF place, term, w, x
  <2>5. CASE place > length
    <3>1. ByteOf(v, place) = 0
      BY <1>1, <2>2, <2>5, NoByteAbove
    <3>2. 0 * TwoTo[ByteBits * i] = 0
      <4> DEFINE t == TwoTo[ByteBits * i]
      <4>1. t \in Nat
        BY <1>1, ProductNat, TwoToStep
      <4> HIDE DEF t
      <4>2. 0 * t = 0
        BY <4>1
      <4> QED
        BY <4>2 DEF t
    <3> QED
      BY <2>1, <2>2, <2>4, <2>5, <3>1, <3>2
  <2>6. CASE ~(place > length)
    <3>1. place \in 1 .. Len(bytes)
      BY <1>1, <2>2, <2>6 DEF Writes
    <3>2. ByteAt(bytes, place) = ByteOf(v, place)
      BY <3>1 DEF Writes
    <3> QED
      BY <2>1, <2>2, <2>4, <2>6, <3>2
  <2> QED
    BY <2>5, <2>6
<1>4. x % TwoTo[ByteBits * 0] = 0
  <2>1. ByteBits * 0 = 0
    BY <1>1
  <2> HIDE DEF x
  <2>2. (x * 1 + 0) % 1 = 0 /\ x * 1 + 0 = x
    BY <1>2, DivisionUnique
  <2>3. x % 1 = 0
    BY <2>2
  <2> QED
    BY <2>1, <2>3, TwoToStep
<1>5. \A i \in 0 .. LimbBytes : term[i] = IF Place(i) > length THEN 0
                                 ELSE ByteAt(bytes, Place(i)) * TwoTo[ByteBits * (i - 1)]
  OBVIOUS
<1> HIDE DEF term
<1>6. f = [i \in 0 .. LimbBytes |-> IF i = 0 THEN 0 ELSE f[i - 1] + term[i]]
  <2>1. ASSUME NEW i \in 0 .. LimbBytes PROVE f[i] = IF i = 0 THEN 0 ELSE f[i - 1] + term[i]
    <3>1. CASE i = 0
      BY <1>4, <3>1
    <3>2. CASE i # 0
      <4>1. i - 1 \in Nat /\ i - 1 \in 0 .. LimbBytes /\ (i - 1) + 1 = i
        BY <1>1, <3>2
      <4>2. f[i] = x % TwoTo[ByteBits * i] /\ f[i - 1] = x % TwoTo[ByteBits * (i - 1)]
        BY <4>1
      <4>3. x % TwoTo[ByteBits * ((i - 1) + 1)] = (x % TwoTo[ByteBits * (i - 1)]) + term[(i - 1) + 1]
        BY <1>3, <4>1
      <4> HIDE DEF f, x
      <4> QED
        BY <3>2, <4>1, <4>2, <4>3
    <3> QED
      BY <3>1, <3>2
  <2>2. f = [i \in 0 .. LimbBytes |-> f[i]]
    OBVIOUS
  <2> HIDE DEF f
  <2> QED
    BY <2>1, <2>2
<1> HIDE DEF f
<1> DEFINE g == Word(bytes, length, limb)
<1>7. g = [i \in 0 .. LimbBytes |-> IF i = 0 THEN 0 ELSE g[i - 1] + term[i]]
  <2>1. \E h : h = [i \in 0 .. LimbBytes |->
                     IF i = 0 THEN 0
                     ELSE h[i - 1] + (IF Place(i) > length THEN 0
                                      ELSE ByteAt(bytes, Place(i)) * TwoTo[ByteBits * (i - 1)])]
    <3>1. f = [i \in 0 .. LimbBytes |->
                 IF i = 0 THEN 0
                 ELSE f[i - 1] + (IF Place(i) > length THEN 0
                                  ELSE ByteAt(bytes, Place(i)) * TwoTo[ByteBits * (i - 1)])]
      BY <1>5, <1>6
    <3> QED
      BY <3>1
  <2>2. g = [i \in 0 .. LimbBytes |->
               IF i = 0 THEN 0
               ELSE g[i - 1] + (IF Place(i) > length THEN 0
                                ELSE ByteAt(bytes, Place(i)) * TwoTo[ByteBits * (i - 1)])]
    BY <2>1 DEF Word
  <2> HIDE DEF g
  <2> QED
    BY <1>5, <2>2
<1> HIDE DEF g
<1> DEFINE Right == {i \in Nat : i <= LimbBytes => g[i] = x % TwoTo[ByteBits * i]}
<1>8. 0 \in Right
  BY <1>1, <1>4, <1>7
<1>9. ASSUME NEW i \in Nat, i \in Right PROVE i + 1 \in Right
  <2>1. SUFFICES ASSUME i + 1 <= LimbBytes PROVE g[i + 1] = x % TwoTo[ByteBits * (i + 1)]
    OBVIOUS
  <2>2. i + 1 \in 0 .. LimbBytes /\ i + 1 # 0 /\ (i + 1) - 1 = i /\ i <= LimbBytes
    BY <1>1, <2>1
  <2>3. g[i + 1] = g[i] + term[i + 1] /\ g[i] = x % TwoTo[ByteBits * i]
    BY <1>7, <1>9, <2>2
  <2> QED
    BY <1>3, <2>3
<1> HIDE DEF Right, x
<1>10. LimbBytes \in Right
  BY <1>1, <1>8, <1>9, SetInduction
<1>11. g[LimbBytes] = x % Base
  <2>1. TwoTo[ByteBits * LimbBytes] = Base
    BY <1>1, ByteBoundary
  <2> QED
    BY <1>1, <1>10, <2>1 DEF Right
<1> QED
  BY <1>11 DEF g, x, w

(* from_be_bytes reads the number that the bytes write.                     *)
THEOREM BytesAreRead ==
  ASSUME NEW bytes, NEW v, Writes(bytes, v)
  PROVE  IsNumber(FromBytes(bytes)) /\ Value(FromBytes(bytes)) = v
<1> DEFINE n == Len(bytes)
           length == Significant(bytes)[n]
           top == length + LimbBytes - 1
           m == top \div LimbBytes
           r == [limb \in 1 .. m |-> Word(bytes, length, limb)[LimbBytes]]
<1>1. n \in Nat /\ v \in Nat /\ v < TwoTo[ByteBits * n] /\ ByteBits \in Nat /\ LimbBytes \in Nat \ {0}
  <2>1. TwoTo[ByteBits * n] \in Nat
    BY LimbsAre, ProductNat, TwoToStep DEF Writes
  <2> QED
    BY <2>1, LimbsAre DEF Writes
<1>2. /\ length \in 0 .. n
      /\ length = 0 \/ ByteAt(bytes, length) # 0
      /\ \A j \in length + 1 .. n : ByteAt(bytes, j) = 0
  <2>1. n \in 0 .. n
    BY <1>1
  <2> QED
    BY <1>1, <2>1, SignificantIs
<1>3. FromBytes(bytes) = IF length = 0 THEN Zero ELSE r
  BY DEF FromBytes
<1> HIDE DEF length
<1>4. v < TwoTo[ByteBits * length]
  <2> DEFINE Below2 == {i \in Nat : i <= n - length => v < TwoTo[ByteBits * (n - i)]}
  <2>1. 0 \in Below2
    BY <1>1
  <2>2. ASSUME NEW i \in Nat, i \in Below2 PROVE i + 1 \in Below2
    <3>1. SUFFICES ASSUME i + 1 <= n - length PROVE v < TwoTo[ByteBits * (n - (i + 1))]
      OBVIOUS
    <3> DEFINE k == n - (i + 1)
    <3>2. k \in Nat /\ k + 1 = n - i /\ k + 1 \in length + 1 .. n /\ k + 1 \in 1 .. n /\ i <= n - length
      BY <1>1, <1>2, <3>1
    <3>3. v < TwoTo[ByteBits * (k + 1)]
      BY <2>2, <3>2
    <3> HIDE DEF k
    <3>4. ByteOf(v, k + 1) = 0
      BY <1>2, <3>2 DEF Writes
    <3> QED
      BY <1>1, <3>2, <3>3, <3>4, Shorter DEF k
  <2> HIDE DEF Below2
  <2>3. n - length \in Below2
    <3>1. n - length \in Nat
      BY <1>1, <1>2
    <3> QED
      BY <2>1, <2>2, <3>1, SetInduction
  <2>4. n - (n - length) = length /\ n - length <= n - length /\ n - length \in Nat
    BY <1>1, <1>2
  <2> QED
    BY <2>3, <2>4 DEF Below2
<1> HIDE DEF n
<1>5. CASE length = 0
  <2>1. ByteBits * 0 = 0
    BY <1>1
  <2>2. v < 1
    BY <1>4, <1>5, <2>1, TwoToStep
  <2>3. v = 0
    BY <1>1, <2>2
  <2> QED
    BY <1>3, <1>5, <2>3, ZeroAndOne
<1>6. CASE length # 0
  <2>1. length \in Nat \ {0} /\ top \in Nat
    BY <1>1, <1>2, <1>6
  <2>2. m \in Nat /\ top % LimbBytes \in 0 .. LimbBytes - 1 /\ top = m * LimbBytes + (top % LimbBytes)
    <3> HIDE DEF top
    <3> QED
      BY <1>1, <2>1, Dividing
  <2> DEFINE rest == top % LimbBytes
  <2> HIDE DEF m, rest
  <2>3. m * LimbBytes \in Nat /\ length <= m * LimbBytes /\ m * LimbBytes <= length + (LimbBytes - 1)
    <3>1. m * LimbBytes \in Nat
      BY <1>1, <2>2, ProductNat
    <3>2. length + LimbBytes - 1 = m * LimbBytes + rest /\ rest \in 0 .. LimbBytes - 1
      BY <2>2 DEF rest
    <3> QED
      BY <1>1, <2>1, <3>1, <3>2
  <2> HIDE DEF top
  <2>4. m >= 1
    <3>1. m = 0 => m * LimbBytes = 0
      BY <1>1
    <3> QED
      BY <2>1, <2>2, <2>3, <3>1
  <2>5. ASSUME NEW limb \in 1 .. m PROVE r[limb] = (v \div Weight(limb - 1)) % Base /\ r[limb] \in Digits
    <3>1. limb \in Nat \ {0} /\ length \in 0 .. Len(bytes) /\ limb - 1 \in Nat
      BY <1>2, <2>2 DEF n
    <3>2. r[limb] = (v \div Weight(limb - 1)) % Base
      BY <1>4, <3>1, WordIs
    <3>3. v \div Weight(limb - 1) \in Nat
      BY <1>1, <3>1, WeightStep, Dividing
    <3>4. Base \in Nat \ {0}
      BY BaseIs
    <3>5. (v \div Weight(limb - 1)) % Base \in 0 .. Base - 1
      BY <3>3, <3>4, Dividing
    <3> QED
      BY <3>2, <3>5 DEF Digits
  <2>6. r \in [1 .. m -> Digits]
    BY <2>5
  <2> HIDE DEF r
  <2>7. r \in Seq(Digits) /\ Len(r) = m /\ Whole(r)
    BY <2>2, <2>6, SeqOf, DigitsWhole
  <2>8. \A i \in 1 .. m : Limb(r, i) = r[i]
    BY <2>2, <2>7, Limbs DEF Whole
  <2> DEFINE Right == {i \in Nat : i <= m => Low(r)[i] = v % Weight(i)}
  <2>9. 0 \in Right
    <3>1. (v * 1 + 0) % 1 = 0 /\ v * 1 + 0 = v
      BY <1>1, DivisionUnique
    <3> QED
      BY <2>7, <3>1, LowStep, WeightStep
  <2>10. ASSUME NEW i \in Nat, i \in Right PROVE i + 1 \in Right
    <3>1. SUFFICES ASSUME i + 1 <= m PROVE Low(r)[i + 1] = v % Weight(i + 1)
      OBVIOUS
    <3>2. i + 1 \in 1 .. m /\ (i + 1) - 1 = i /\ i <= m
      BY <2>2, <3>1
    <3>3. Low(r)[i + 1] = Low(r)[i] + Limb(r, i + 1) * Weight(i) /\ Low(r)[i] = v % Weight(i)
      BY <2>7, <2>10, <3>2, LowNext
    <3>4. Limb(r, i + 1) = (v \div Weight(i)) % Base
      BY <2>5, <2>8, <3>2
    <3>5. Weight(i + 1) = Weight(i) * Base /\ Weight(i) \in Nat \ {0} /\ Base \in Nat \ {0}
      <4>1. Weight(i + 1) = Base * Weight(i) /\ Weight(i) \in Nat \ {0} /\ Base \in Nat \ {0}
        BY WeightStep, BaseIs
      <4> QED
        BY <4>1
    <3>6. v % (Weight(i) * Base) = (v % Weight(i)) + ((v \div Weight(i)) % Base) * Weight(i)
      BY <1>1, <3>5, DivideTwice
    <3> QED
      BY <3>3, <3>4, <3>5, <3>6
  <2> HIDE DEF Right
  <2>11. m \in Right
    BY <2>2, <2>9, <2>10, SetInduction
  <2>12. Value(r) = v
    <3>1. Value(r) = v % Weight(m)
      BY <2>2, <2>7, <2>11 DEF Right, Value
    <3>2. v < Weight(m) /\ Weight(m) \in Nat \ {0}
      <4>1. TwoTo[ByteBits * (m * LimbBytes)] = Weight(m) /\ Weight(m) \in Nat \ {0}
        BY <2>2, ByteBoundary, WeightStep
      <4>2. ByteBits * length \in Nat /\ ByteBits * (m * LimbBytes) \in Nat
            /\ ByteBits * length <= ByteBits * (m * LimbBytes)
        <5>1. length * ByteBits <= (m * LimbBytes) * ByteBits
          BY <1>1, <2>1, <2>3, ProductGrows
        <5> QED
          BY <1>1, <2>1, <2>3, <5>1, ProductNat
      <4>3. TwoTo[ByteBits * length] <= TwoTo[ByteBits * (m * LimbBytes)] /\ TwoTo[ByteBits * length] \in Nat
        BY <4>2, TwoToGrows, TwoToStep
      <4> QED
        BY <1>1, <1>4, <4>1, <4>3
    <3> QED
      BY <1>1, <3>1, <3>2, Below
  <2>13. r[m] # 0
    <3>1. SUFFICES ASSUME r[m] = 0 PROVE FALSE
      OBVIOUS
    <3> DEFINE w == m - 1
               q == v \div Weight(w)
    <3>2. w \in Nat /\ w + 1 = m /\ m \in 1 .. m
      BY <2>2, <2>4
    <3>3. Weight(w) \in Nat \ {0} /\ Weight(m) = Base * Weight(w) /\ Base \in Nat \ {0}
      BY <3>2, WeightStep, BaseIs
    <3>4. v < Base * Weight(w)
      BY <2>7, <2>12, <3>3, DigitsAre, LowBound, <2>8, <2>5, <2>2 DEF Value
    <3>5. q \in Nat /\ q < Base /\ v % Weight(w) \in 0 .. Weight(w) - 1 /\ v = q * Weight(w) + (v % Weight(w))
      BY <1>1, <3>3, <3>4, Dividing
    <3>6. q % Base = 0
      BY <2>5, <3>1, <3>2
    <3> HIDE DEF w, q
    <3>7. q = 0
      BY <3>3, <3>5, <3>6, Below
    <3>8. v < Weight(w)
      <4>1. 0 * Weight(w) = 0
        BY <3>3
      <4> QED
        BY <1>1, <3>3, <3>5, <3>7, <4>1
    <3>9. w * LimbBytes \in Nat /\ w * LimbBytes < length
      <4>1. (w + 1) * LimbBytes = w * LimbBytes + LimbBytes
        BY <1>1, <3>2
      <4>2. w * LimbBytes \in Nat
        BY <1>1, <3>2, ProductNat
      <4> QED
        BY <1>1, <2>1, <2>3, <3>2, <4>1, <4>2
    <3>10. v < TwoTo[ByteBits * (w * LimbBytes)]
      BY <3>2, <3>8, ByteBoundary
    <3>11. ByteOf(v, length) = 0
      BY <1>1, <2>1, <3>9, <3>10, NoByteAbove
    <3>12. ByteOf(v, length) = ByteAt(bytes, length)
      <4>1. length \in 1 .. Len(bytes)
        BY <1>2, <2>1 DEF n
      <4> QED
        BY <4>1 DEF Writes
    <3> QED
      BY <1>2, <1>6, <3>11, <3>12
  <2>14. IsNumber(r)
    BY <2>4, <2>7, <2>13 DEF IsNumber
  <2> QED
    BY <1>3, <1>6, <2>12, <2>14
<1> QED
  BY <1>5, <1>6

(* Multiples of what is divided by come out of the quotient.                *)
LEMMA QuotientApart ==
  ASSUME NEW n \in Nat \ {0}, NEW v \in Nat, NEW k \in Nat
  PROVE  (v + k * n) \div n = v \div n + k
<1> DEFINE q == v \div n
           r == v % n
<1>1. q \in Nat /\ r \in 0 .. n - 1 /\ v = q * n + r
  BY Dividing
<1> HIDE DEF q, r
<1>2. v + k * n = (q + k) * n + r /\ q + k \in Int
  <2>1. (q + k) * n = q * n + k * n /\ q * n \in Int /\ k * n \in Int
    BY <1>1
  <2> QED
    BY <1>1, <2>1
<1>3. ((q + k) * n + r) \div n = q + k
  BY <1>1, <1>2, DivisionUnique
<1> QED
  BY <1>2, <1>3 DEF q

(* Bytes write a number, whatever they are.                                 *)
LEMMA BytesWrite ==
  ASSUME NEW bytes \in Seq(0 .. TwoTo[ByteBits] - 1)
  PROVE  \E v : Writes(bytes, v)
<1> DEFINE n == Len(bytes)
           b == TwoTo[ByteBits]
           At(i) == TwoTo[ByteBits * i]
           Low2(v, i) == /\ v \in 0 .. At(i) - 1
                         /\ \A place \in 1 .. i : ByteAt(bytes, place) = ByteOf(v, place)
           Right == {i \in Nat : i <= n => \E v \in Nat : Low2(v, i)}
<1>1. n \in Nat /\ ByteBits \in Nat /\ b \in Nat \ {0}
  BY LimbsAre, TwoToPositive
<1>2. ASSUME NEW i \in Nat PROVE At(i) \in Nat \ {0} /\ At(i + 1) = b * At(i)
  <2>1. ByteBits * i \in Nat /\ ByteBits * (i + 1) = ByteBits + ByteBits * i
    BY <1>1, ProductNat
  <2> QED
    BY <1>1, <2>1, TwoToPositive, TwoToSum
<1>3. 0 \in Right
  <2>1. 0 \in 0 .. At(0) - 1
    BY <1>2
  <2> HIDE DEF At
  <2>2. Low2(0, 0)
    BY <2>1
  <2> QED
    BY <2>2
<1>4. ASSUME NEW i \in Nat, i \in Right PROVE i + 1 \in Right
  <2>1. SUFFICES ASSUME i + 1 <= n PROVE \E v \in Nat : Low2(v, i + 1)
    OBVIOUS
  <2> DEFINE d == ByteAt(bytes, i + 1)
             t == At(i)
  <2>2. d \in 0 .. b - 1
    <3>1. n + 1 - (i + 1) \in 1 .. n
      BY <1>1, <2>1
    <3> DEFINE S == 0 .. b - 1
    <3>2. bytes \in Seq(S)
      OBVIOUS
    <3> HIDE DEF S
    <3>3. \A j \in 1 .. n : bytes[j] \in S
      BY <3>2
    <3> QED
      BY <3>1, <3>3 DEF ByteAt, S
  <2>3. PICK v \in Nat : Low2(v, i)
    BY <1>1, <1>4, <2>1
  <2>4. t \in Nat \ {0} /\ At(i + 1) = b * t /\ v \in 0 .. t - 1
    BY <1>2, <2>3
  <2> DEFINE u == v + d * t
  <2>5. u \in 0 .. At(i + 1) - 1
    <3> HIDE DEF d, t, b, At
    <3>1. d * t <= (b - 1) * t /\ 0 * t <= d * t
      BY <1>1, <2>2, <2>4, ProductGrows
    <3>2. (b - 1) * t = b * t - t /\ d * t \in Int /\ b * t \in Int /\ 0 * t = 0
      BY <1>1, <2>2, <2>4
    <3> QED
      BY <2>3, <2>4, <3>1, <3>2
  <2>6. u \div t = d
    <3> HIDE DEF d, t
    <3>1. (d * t + v) \div t = d
      <4>1. d \in Int
        BY <1>1, <2>2
      <4> QED
        BY <2>4, <4>1, DivisionUnique, Zenon
    <3>2. d * t + v = u
      BY <1>1, <2>2, <2>4
    <3> QED
      BY <3>1, <3>2
  <2>7. ByteOf(u, i + 1) = d
    <3>1. (i + 1) - 1 = i
      OBVIOUS
    <3>2. d % b = d
      <4> HIDE DEF d, b
      <4> QED
        BY <1>1, <2>2, Below
    <3> HIDE DEF u, d
    <3> QED
      BY <2>6, <3>1, <3>2 DEF ByteOf
  <2>8. ASSUME NEW place \in 1 .. i PROVE ByteOf(u, place) = ByteOf(v, place)
    <3> DEFINE p == place - 1
               s == At(p)
               gap == i - place
               k == (d * At(gap)) * b
    <3>1. p \in Nat /\ gap \in Nat /\ gap + 1 = i - p /\ p + (gap + 1) = i
      OBVIOUS
    <3>2. s \in Nat \ {0} /\ At(gap) \in Nat \ {0} /\ At(gap + 1) = b * At(gap)
      BY <1>2, <3>1
    <3>3. t = At(gap + 1) * s
      <4>1. ByteBits * p \in Nat /\ ByteBits * (gap + 1) \in Nat
        BY <1>1, <3>1, ProductNat
      <4>2. ByteBits * (gap + 1) + ByteBits * p = ByteBits * (gap + 1 + p)
        BY <1>1, <3>1
      <4>3. gap + 1 + p = i
        BY <3>1
      <4> QED
        BY <4>1, <4>2, <4>3, TwoToSum
    <3>4. ByteOf(u, place) = (u \div s) % b /\ ByteOf(v, place) = (v \div s) % b
      BY DEF ByteOf
    <3> HIDE DEF p, s, gap, At, t, d, b
    <3>5. u = v + k * s /\ k \in Nat
      <4>1. d \in Nat
        BY <1>1, <2>2
      <4>2. d * ((b * At(gap)) * s) = ((d * At(gap)) * b) * s
        BY <1>1, <3>2, <4>1
      <4>3. d * At(gap) \in Nat /\ k \in Nat
        BY <1>1, <3>2, <4>1, ProductNat
      <4> QED
        BY <3>2, <3>3, <4>2, <4>3
    <3>6. u \div s = v \div s + k /\ v \div s \in Nat
      <4> HIDE DEF u, k
      <4> QED
        BY <2>3, <3>2, <3>5, QuotientApart, Dividing
    <3>7. (v \div s + (d * At(gap)) * b) % b = (v \div s) % b
      <4>1. v \div s \in Int /\ d * At(gap) \in Int
        BY <1>1, <2>2, <3>2, <3>6
      <4> QED
        BY <1>1, <4>1, RoundProofs!RemainderKept
    <3> QED
      BY <3>4, <3>6, <3>7
  <2>9. Low2(u, i + 1)
    <3> HIDE DEF u, At
    <3>1. ASSUME NEW place \in 1 .. i + 1 PROVE ByteAt(bytes, place) = ByteOf(u, place)
      <4>1. CASE place = i + 1
        BY <2>7, <4>1
      <4>2. CASE place # i + 1
        <5>1. place \in 1 .. i
          BY <4>2
        <5> QED
          BY <2>3, <2>8, <5>1
      <4> QED
        BY <4>1, <4>2
    <3> QED
      BY <2>5, <3>1
  <2>10. u \in Nat
    <3>1. At(i + 1) \in Nat
      <4>1. i + 1 \in Nat
        OBVIOUS
      <4> HIDE DEF At
      <4> QED
        BY <1>2, <4>1
    <3> HIDE DEF u, At
    <3> QED
      BY <2>5, <3>1
  <2> HIDE DEF u, Low2
  <2> QED
    BY <2>9, <2>10
<1> HIDE DEF Right
<1>5. n \in Right
  BY <1>1, <1>3, <1>4, SetInduction
<1>6. PICK v \in Nat : Low2(v, n)
  BY <1>1, <1>5 DEF Right
<1> QED
  BY <1>1, <1>6 DEF Writes

LEMMA FromBytesNumber ==
  ASSUME NEW bytes \in Seq(0 .. TwoTo[ByteBits] - 1)
  PROVE  IsNumber(FromBytes(bytes))
BY BytesWrite, BytesAreRead

(* to_be_bytes_fixed writes a number that fits.                             *)
THEOREM BytesAreWritten ==
  ASSUME NEW a, IsNumber(a), NEW count \in Nat, Value(a) < TwoTo[ByteBits * count]
  PROVE  /\ Writes(ToBytes(a, count), Value(a))
         /\ ToBytes(a, count) \in Seq(0 .. TwoTo[ByteBits] - 1)
         /\ Len(ToBytes(a, count)) = count
<1> DEFINE bytes == ToBytes(a, count)
           b == TwoTo[ByteBits]
           Cut(i) == (Limb(a, (count - i) \div LimbBytes + 1)
                        \div TwoTo[ByteBits * ((count - i) % LimbBytes)]) % b
<1>1. /\ Value(a) \in Nat /\ ByteBits \in Nat \ {0} /\ LimbBytes \in Nat \ {0} /\ b \in Nat \ {0}
      /\ LimbBits = ByteBits * LimbBytes /\ LimbBits \in Nat \ {0}
  BY NumberBounds, LimbsAre, TwoToPositive DEF LimbBits
<1>2. bytes = [i \in 1 .. count |-> Cut(i)]
  BY DEF ToBytes
<1>3. ASSUME NEW i \in 1 .. count
      PROVE  Cut(i) = ByteOf(Value(a), count + 1 - i) /\ Cut(i) \in 0 .. b - 1
  <2> DEFINE place == count - i
             q == place \div LimbBytes
             r == place % LimbBytes
             bits == ByteBits * place
  <2>1. place \in Nat
    OBVIOUS
  <2>2. q \in Nat /\ r \in 0 .. LimbBytes - 1 /\ place = q * LimbBytes + r
    <3> HIDE DEF place
    <3> QED
      BY <1>1, <2>1, Dividing
  <2>3. Cut(i) = (Limb(a, q + 1) \div TwoTo[ByteBits * r]) % b
    OBVIOUS
  <2>4. (count + 1 - i) - 1 = place
    OBVIOUS
  <2> HIDE DEF Cut, q, r, place
  <2>5. bits = q * LimbBits + ByteBits * r /\ bits \in Nat /\ ByteBits * r \in Nat
    <3>1. ByteBits * (q * LimbBytes + r) = q * (ByteBits * LimbBytes) + ByteBits * r
      BY <1>1, <2>2
    <3> QED
      BY <1>1, <2>1, <2>2, <3>1, ProductNat
  <2>6. ByteBits * r + ByteBits <= LimbBits
    <3>1. (r + 1) * ByteBits <= LimbBytes * ByteBits
      BY <1>1, <2>2, ProductGrows
    <3>2. (r + 1) * ByteBits = ByteBits * r + ByteBits /\ LimbBytes * ByteBits = ByteBits * LimbBytes
      BY <1>1, <2>2
    <3> QED
      BY <1>1, <3>1, <3>2
  <2> DEFINE part == ByteBits * r
  <2> HIDE DEF bits, part
  <2>7. bits \div LimbBits = q /\ bits % LimbBits = part
    <3>1. part \in 0 .. LimbBits - 1
      BY <1>1, <2>5, <2>6 DEF part
    <3>2. (q * LimbBits + part) \div LimbBits = q /\ (q * LimbBits + part) % LimbBits = part
      <4>1. q \in Int
        BY <2>2
      <4> QED
        BY <1>1, <3>1, <4>1, DivisionUnique, Zenon
    <3> QED
      BY <2>5, <3>2 DEF part
  <2>8. (Limb(a, (bits \div LimbBits) + 1) \div TwoTo[bits % LimbBits]) % TwoTo[ByteBits] =
          (Value(a) \div TwoTo[bits]) % TwoTo[ByteBits]
    <3>1. bits \in Nat /\ ByteBits \in Nat /\ (bits % LimbBits) + ByteBits <= LimbBits
      BY <1>1, <2>5, <2>6, <2>7 DEF part
    <3> QED
      BY <3>1, PartIs
  <2>9. Cut(i) = (Value(a) \div TwoTo[bits]) % b
    BY <2>3, <2>7, <2>8 DEF part
  <2>10. ByteOf(Value(a), count + 1 - i) = (Value(a) \div TwoTo[bits]) % b
    BY <2>4 DEF ByteOf, bits
  <2>11. (Value(a) \div TwoTo[bits]) % b \in 0 .. b - 1
    <3>1. TwoTo[bits] \in Nat \ {0}
      BY <2>5, TwoToPositive
    <3>2. Value(a) \div TwoTo[bits] \in Nat
      BY <1>1, <3>1, Dividing
    <3> HIDE DEF b
    <3> QED
      BY <1>1, <3>2, Dividing
  <2> QED
    BY <2>9, <2>10, <2>11
<1> HIDE DEF Cut
<1>4. bytes \in [1 .. count -> 0 .. b - 1]
  BY <1>2, <1>3
<1>5. bytes \in Seq(0 .. b - 1) /\ Len(bytes) = count
  <2> HIDE DEF bytes
  <2> QED
    BY <1>4, SeqOf
<1>6. ASSUME NEW place \in 1 .. count PROVE ByteAt(bytes, place) = ByteOf(Value(a), place)
  <2>1. count + 1 - place \in 1 .. count /\ count + 1 - (count + 1 - place) = place
    OBVIOUS
  <2>2. ByteAt(bytes, place) = bytes[count + 1 - place]
    BY <1>5 DEF ByteAt
  <2> HIDE DEF bytes
  <2> QED
    BY <1>2, <1>3, <2>1, <2>2
<1>7. TwoTo[ByteBits * count] \in Nat
  BY <1>1, ProductNat, TwoToStep
<1> QED
  BY <1>1, <1>5, <1>6, <1>7 DEF Writes

-----------------------------------------------------------------------------
(* The loops. *)

LEMMA FromNumberIs ==
  ASSUME NEW number, InBytes(number)
  PROVE  IsNumber(FromNumber(number)) /\ Value(FromNumber(number)) = number /\ number \in Nat
<1> DEFINE Cut(i) == (number \div TwoTo[ByteBits * (EmLength - i)]) % TwoTo[ByteBits]
           bytes == [i \in 1 .. EmLength |-> Cut(i)]
<1>1. EmLength \in Nat
  BY KeyAssumption
<1>2. number \in 0 .. TwoTo[ByteBits * EmLength] - 1 /\ TwoTo[ByteBits * EmLength] \in Nat
  BY <1>1, LimbsAre, ProductNat, TwoToStep DEF InBytes
<1>3. Len(bytes) = EmLength
  BY <1>1
<1>4. ASSUME NEW place \in 1 .. EmLength PROVE ByteAt(bytes, place) = ByteOf(number, place)
  <2>1. /\ EmLength + 1 - place \in 1 .. EmLength
        /\ EmLength - (EmLength + 1 - place) = place - 1
    BY <1>1
  <2>2. ByteAt(bytes, place) = Cut(EmLength + 1 - place)
    BY <1>3, <2>1 DEF ByteAt
  <2> QED
    BY <2>1, <2>2 DEF ByteOf
<1>5. FromNumber(number) = FromBytes(bytes)
  BY DEF FromNumber
<1> HIDE DEF bytes
<1>6. Writes(bytes, number)
  BY <1>1, <1>2, <1>3, <1>4 DEF Writes
<1>7. number \in Nat
  BY <1>2
<1> QED
  BY <1>5, <1>6, <1>7, BytesAreRead

PowerStates ==
  [base : Numbers, exponent : Numbers, modulus : Numbers \ {Zero}, result : Numbers, left : Nat]

EuclidStates == [r0 : Numbers, r1 : Numbers, s0 : Numbers, s1 : Numbers]

LEMMA StartPowerIs ==
  ASSUME NEW base, NEW exponent, NEW modulus,
         IsNumber(base), IsNumber(exponent), IsNumber(modulus), modulus # Zero
  PROVE  LET p == StartPower(base, exponent, modulus)
         IN /\ p \in PowerStates /\ p # Idle
            /\ p.base = base /\ p.exponent = exponent /\ p.modulus = modulus
            /\ p.left <= BitLen(exponent)
            /\ modulus = One => p.left = 0 /\ p.result = Zero
            /\ modulus # One => p.left = BitLen(exponent) /\ p.result = One
<1> DEFINE p == StartPower(base, exponent, modulus)
           r == IF modulus = One THEN Zero ELSE One
           l == IF modulus = One THEN 0 ELSE BitLen(exponent)
<1>1. base \in Numbers /\ exponent \in Numbers /\ modulus \in Numbers \ {Zero} /\ r \in Numbers
  BY NumbersAre, ZeroAndOne
<1>2. BitLen(exponent) \in Nat /\ l \in Nat /\ l <= BitLen(exponent)
  BY BitLenIs
<1>3. p = [base |-> base, exponent |-> exponent, modulus |-> modulus, result |-> r, left |-> l]
  BY DEF StartPower
<1>4. p \in PowerStates
  <2> HIDE DEF r, l, p
  <2> QED
    BY <1>1, <1>2, <1>3 DEF PowerStates
<1>5. p # Idle
  BY <1>3 DEF Idle
<1> QED
  BY <1>2, <1>3, <1>4, <1>5

LEMMA PowerRoundIs ==
  ASSUME NEW p \in PowerStates, p.left > 0
  PROVE  LET q == PowerRound(p)
             n == Value(p.modulus)
             square == (Value(p.result) * Value(p.result)) % n
         IN /\ q \in PowerStates /\ q # Idle
            /\ q.base = p.base /\ q.exponent = p.exponent /\ q.modulus = p.modulus
            /\ q.left = p.left - 1
            /\ p.left <= BitLen(p.exponent) =>
                 Value(q.result) =
                   IF (Value(p.exponent) \div TwoTo[p.left - 1]) % 2 = 0 THEN square
                   ELSE (square * Value(p.base)) % n
<1> DEFINE q == PowerRound(p)
           n == p.modulus
           k == KBits(n)
           mu == BarrettMu(n, k)
           limbs == BarrettModWithMu(Mul(p.result, p.result), n, k, mu)
           more == BarrettModWithMu(Mul(limbs, p.base), n, k, mu)
           square == (Value(p.result) * Value(p.result)) % Value(n)
           r == IF Bit(p.exponent, p.left - 1) = 0 THEN limbs ELSE more
<1>1. /\ IsNumber(p.base) /\ IsNumber(p.exponent) /\ IsNumber(n) /\ n # Zero /\ IsNumber(p.result)
      /\ p.left \in Nat
  BY NumbersAre DEF PowerStates
<1>2. k \in Nat
  BY <1>1, KBitsAre
<1>3. IsNumber(limbs) /\ Value(limbs) = square
  <2>1. IsNumber(Mul(p.result, p.result)) /\ Value(Mul(p.result, p.result)) = Value(p.result) * Value(p.result)
    BY <1>1, LimbsMultiply
  <2> HIDE DEF k
  <2> QED
    BY <1>1, <1>2, <2>1, BarrettIsRight
<1>4. q = [p EXCEPT !.left = p.left - 1, !.result = r]
  BY DEF PowerRound
<1> HIDE DEF limbs, square
<1>5. IsNumber(more) /\ Value(more) = (square * Value(p.base)) % Value(n)
  <2>1. IsNumber(Mul(limbs, p.base)) /\ Value(Mul(limbs, p.base)) = square * Value(p.base)
    BY <1>1, <1>3, LimbsMultiply
  <2> HIDE DEF k
  <2> QED
    BY <1>1, <1>2, <2>1, BarrettIsRight
<1> HIDE DEF more
<1>6. r \in Numbers /\ p.left - 1 \in Nat
  BY <1>1, <1>3, <1>5, NumbersAre
<1>7. ASSUME p.left <= BitLen(p.exponent)
      PROVE  Value(r) = IF (Value(p.exponent) \div TwoTo[p.left - 1]) % 2 = 0 THEN square
                        ELSE (square * Value(p.base)) % Value(n)
  <2>1. BitLen(p.exponent) \in Nat /\ p.left - 1 < BitLen(p.exponent)
    BY <1>1, <1>7, BitLenIs
  <2>2. Bit(p.exponent, p.left - 1) = (Value(p.exponent) \div TwoTo[p.left - 1]) % 2
    BY <1>1, <1>6, <2>1, BitIs
  <2> QED
    BY <1>3, <1>5, <2>2
<1> HIDE DEF r, q
<1>8. /\ q \in PowerStates
      /\ q.base = p.base /\ q.exponent = p.exponent /\ q.modulus = p.modulus
      /\ q.left = p.left - 1 /\ q.result = r
  BY <1>4, <1>6 DEF PowerStates
<1>9. q # Idle
  <2>1. DOMAIN q = {"base", "exponent", "modulus", "result", "left"} /\ DOMAIN Idle = {}
    BY <1>8 DEF PowerStates, Idle
  <2> QED
    BY <2>1
<1> QED
  BY <1>7, <1>8, <1>9 DEF q, square, n

LEMMA BarrettIs ==
  ASSUME NEW a, NEW n, IsNumber(a), IsNumber(n), n # Zero
  PROVE  IsNumber(BarrettMod(a, n)) /\ Value(BarrettMod(a, n)) = Value(a) % Value(n)
<1>1. KBits(n) \in Nat
  BY KBitsAre
<1> QED
  BY <1>1, BarrettIsRight DEF BarrettMod

(* A difference modulo n is the one of numbers.                             *)
LEMMA DifferenceIs ==
  ASSUME NEW a, NEW b, NEW n, IsNumber(a), IsNumber(b), IsNumber(n), n # Zero
  PROVE  /\ IsNumber(Reduced(Difference(a, b, n), n))
         /\ Value(Reduced(Difference(a, b, n), n)) =
              RoundProofs!Difference(Value(a), Value(b), Value(n))
<1> DEFINE ra == BarrettMod(a, n)
           rb == BarrettMod(b, n)
           x == Value(a) % Value(n)
           y == Value(b) % Value(n)
           d == Difference(a, b, n)
           N == Value(n)
<1>1. Value(a) \in Nat /\ Value(b) \in Nat /\ N \in Nat \ {0}
  BY NumberBounds, ZeroAndOne
<1>2. x \in 0 .. N - 1 /\ y \in 0 .. N - 1
  <2> HIDE DEF N
  <2>1. Value(a) % N \in 0 .. N - 1 /\ Value(b) % N \in 0 .. N - 1
    BY <1>1, Dividing
  <2> QED
    BY <2>1 DEF N
<1>3. IsNumber(ra) /\ Value(ra) = x /\ IsNumber(rb) /\ Value(rb) = y
  BY BarrettIs
<1>4. d = IF Ge(a, b) THEN SubAssign(a, b)
          ELSE IF Ge(ra, rb) THEN SubAssign(ra, rb)
          ELSE SubAssign(n, SubAssign(rb, ra))
  BY DEF Difference
<1>5. RoundProofs!Difference(Value(a), Value(b), N) =
        IF Value(a) >= Value(b) THEN (Value(a) - Value(b)) % N
        ELSE IF x >= y THEN x - y ELSE N - (y - x)
  BY DEF RoundProofs!Difference
<1> HIDE DEF ra, rb, x, y, d
<1>6. CASE Value(a) >= Value(b)
  <2>1. d = SubAssign(a, b) /\ IsNumber(d) /\ Value(d) = Value(a) - Value(b)
    BY <1>1, <1>4, <1>6, GeIs, SubAssignIs
  <2> QED
    BY <1>5, <1>6, <2>1, LimbsReduce DEF d
<1>7. CASE ~(Value(a) >= Value(b))
  <2>1. ~Ge(a, b)
    BY <1>7, GeIs
  <2>2. CASE x >= y
    <3>1. d = SubAssign(ra, rb) /\ IsNumber(d) /\ Value(d) = x - y
      BY <1>2, <1>3, <1>4, <2>1, <2>2, GeIs, SubAssignIs
    <3>2. x - y \in Nat /\ x - y < N
      BY <1>1, <1>2, <2>2
    <3>3. (x - y) % N = x - y
      BY <1>1, <3>2, Below
    <3> QED
      BY <1>5, <1>7, <2>2, <3>1, <3>3, LimbsReduce DEF d
  <2>3. CASE ~(x >= y)
    <3>1. IsNumber(SubAssign(rb, ra)) /\ Value(SubAssign(rb, ra)) = y - x /\ y - x \in Nat /\ y - x < N /\ y - x > 0
      BY <1>1, <1>2, <1>3, <2>3, SubAssignIs
    <3>2. ~Ge(ra, rb)
      BY <1>3, <2>3, GeIs
    <3>3. d = SubAssign(n, SubAssign(rb, ra)) /\ IsNumber(d) /\ Value(d) = N - (y - x)
      BY <1>1, <1>4, <2>1, <3>1, <3>2, SubAssignIs
    <3>4. N - (y - x) \in Nat /\ N - (y - x) < N
      BY <1>1, <3>1
    <3>5. (N - (y - x)) % N = N - (y - x)
      BY <1>1, <3>4, Below
    <3> QED
      BY <1>5, <1>7, <2>3, <3>3, <3>5, LimbsReduce DEF d
  <2> QED
    BY <2>2, <2>3
<1> QED
  BY <1>6, <1>7

Kinds == {"power", "inverse", "prime", "signature"}

(* What the questions and the key are, as limbs.                            *)
LEMMA QuestionsAre ==
  ASSUME NEW q \in Questions
  PROVE  /\ q.kind \in Kinds
         /\ q.kind = "power" =>
              /\ InBytes(q.base) /\ InBytes(q.exponent) /\ InBytes(q.modulus)
              /\ IsNumber(FromNumber(q.base)) /\ Value(FromNumber(q.base)) = q.base
              /\ IsNumber(FromNumber(q.exponent)) /\ Value(FromNumber(q.exponent)) = q.exponent
              /\ IsNumber(FromNumber(q.modulus)) /\ Value(FromNumber(q.modulus)) = q.modulus
              /\ FromNumber(q.modulus) # Zero
         /\ q.kind = "inverse" =>
              /\ IsNumber(FromNumber(q.number)) /\ Value(FromNumber(q.number)) = q.number
              /\ IsNumber(FromNumber(q.modulus)) /\ Value(FromNumber(q.modulus)) = q.modulus
              /\ FromNumber(q.modulus) # Zero
         /\ q.kind = "prime" =>
              /\ IsNumber(FromNumber(q.seed)) /\ Value(FromNumber(q.seed)) = q.seed
<1>1. q.kind \in Kinds
  BY QuestionsAssumption DEF Rounds!QuestionsTyped, Kinds
<1>2. q.kind = "power" => InBytes(q.base) /\ InBytes(q.exponent) /\ InBytes(q.modulus) /\ q.modulus # 0
  BY QuestionsAssumption DEF Rounds!QuestionsTyped
<1>3. q.kind = "inverse" => InBytes(q.number) /\ InBytes(q.modulus) /\ q.modulus # 0
  BY QuestionsAssumption DEF Rounds!QuestionsTyped
<1>4. q.kind = "prime" => InBytes(q.seed)
  BY QuestionsAssumption
<1>5. \A number : InBytes(number) => IsNumber(FromNumber(number)) /\ Value(FromNumber(number)) = number
  BY FromNumberIs
<1>6. \A number : InBytes(number) /\ number # 0 => FromNumber(number) # Zero
  BY <1>5, ZeroAndOne
<1> QED
  BY <1>1, <1>2, <1>3, <1>4, <1>5, <1>6

LEMMA KeyIs ==
  /\ IsNumber(FromNumber(Key.n)) /\ Value(FromNumber(Key.n)) = Key.n /\ FromNumber(Key.n) # Zero
  /\ IsNumber(FromNumber(Key.e)) /\ Value(FromNumber(Key.e)) = Key.e
  /\ IsNumber(FromNumber(Key.d)) /\ Value(FromNumber(Key.d)) = Key.d
  /\ Key.n \in Nat \ {0} /\ Key.e \in Nat /\ Key.d \in Nat
<1>1. /\ IsNumber(FromNumber(Key.n)) /\ Value(FromNumber(Key.n)) = Key.n /\ Key.n \in Nat
      /\ IsNumber(FromNumber(Key.e)) /\ Value(FromNumber(Key.e)) = Key.e /\ Key.e \in Nat
      /\ IsNumber(FromNumber(Key.d)) /\ Value(FromNumber(Key.d)) = Key.d /\ Key.d \in Nat
  BY KeyAssumption, FromNumberIs
<1>2. Key.n # 0
  <2>1. EmLength - 1 \in Nat /\ ByteBits \in Nat
    BY KeyAssumption, LimbsAre
  <2>2. TwoTo[ByteBits * (EmLength - 1)] \in Nat \ {0}
    BY <2>1, ProductNat, TwoToPositive
  <2> QED
    BY <1>1, <2>2, KeyAssumption
<1>3. FromNumber(Key.n) # Zero
  BY <1>1, <1>2, ZeroAndOne
<1> QED
  BY <1>1, <1>2, <1>3

LEMMA SequenceOfBytes ==
  /\ 0 .. FF = 0 .. TwoTo[ByteBits] - 1
  /\ {0, 1, FF} \subseteq 0 .. FF
  /\ FF \in Nat \ {0}
<1>1. ByteBits \in Nat /\ 1 <= ByteBits
  BY LimbsAre
<1>2. TwoTo[1] = 2
  <2>1. TwoTo[0 + 1] = 2 * TwoTo[0]
    BY TwoToStep
  <2> QED
    BY <2>1, TwoToStep
<1>3. 2 <= TwoTo[ByteBits] /\ TwoTo[ByteBits] \in Nat
  BY <1>1, <1>2, TwoToGrows, TwoToStep
<1> QED
  BY <1>3 DEF FF

(* The encoded digest is bytes.                                             *)
LEMMA EncodedIs ==
  ASSUME NEW digest \in Seq(0 .. FF)
  PROVE  EmsaPkcs1V15Encode(digest) \in Seq(0 .. FF)
<1> DEFINE t == DigestPrefix \o digest
           S == 0 .. FF
           padding == [i \in 1 .. EmLength - Len(t) - 3 |-> FF]
<1>1. DigestPrefix \in Seq(S) /\ digest \in Seq(S) /\ {0, 1, FF} \subseteq S /\ EmLength \in Nat
  BY KeyAssumption, SequenceOfBytes
<1> HIDE DEF S
<1>2. t \in Seq(S) /\ Len(t) \in Nat
  BY <1>1
<1> HIDE DEF t
<1>3. padding \in Seq(S)
  <2> DEFINE n == EmLength - Len(t) - 3
  <2>1. n \in Int
    BY <1>1, <1>2
  <2> HIDE DEF n
  <2>2. CASE n \in Nat
    <3>1. [i \in 1 .. n |-> FF] \in [1 .. n -> S]
      BY <1>1
    <3>2. [i \in 1 .. n |-> FF] \in Seq(S)
      BY <2>2, <3>1, SeqOf
    <3> QED
      BY <3>2 DEF n
  <2>3. CASE n \notin Nat
    <3>1. 1 .. n = 1 .. 0
      BY <2>1, <2>3
    <3>2. [i \in 1 .. n |-> FF] = [i \in 1 .. 0 |-> FF] /\ [i \in 1 .. 0 |-> FF] \in [1 .. 0 -> S]
      BY <3>1
    <3>3. [i \in 1 .. n |-> FF] \in Seq(S)
      BY <3>2, SeqOf
    <3> QED
      BY <3>3 DEF n
  <2> QED
    BY <2>2, <2>3
<1> HIDE DEF padding
<1>4. EmsaPkcs1V15Encode(digest) = <<0, 1>> \o padding \o <<0>> \o t
  BY DEF EmsaPkcs1V15Encode, padding, t
<1>5. <<0, 1>> \in Seq(S) /\ <<0>> \in Seq(S)
  BY <1>1
<1>6. <<0, 1>> \o padding \o <<0>> \o t \in Seq(S)
  BY <1>2, <1>3, <1>5
<1> QED
  BY <1>4, <1>6 DEF S

(* Where the loops are, and what they hold: numbers, of limbs that are      *)
(* written in one way; a modulus that is not zero.                          *)
LoopsInv ==
  /\ question \in Questions
  /\ round \in {"power", "verify"} => power # Idle
  /\ round = "inverse" => euclid # Idle
  /\ round = "prime" => candidate # Idle
  /\ round = "new" => power = Idle /\ euclid = Idle
  /\ round # "done" => answer = <<>>
  /\ power # Idle => power \in PowerStates /\ question.kind \in {"power", "signature"}
  /\ euclid # Idle => euclid \in EuclidStates /\ question.kind = "inverse"
  /\ candidate # Idle => candidate \in Numbers

LEMMA LoopsInit == RsaInit => LoopsInv
BY DEF RsaInit, LoopsInv, Idle

LEMMA VerifyBytes ==
  ASSUME NEW a, IsNumber(a), NEW count \in Nat
  PROVE  IsNumber(FromBytes(ToBytes(a, count)))
<1> DEFINE b == TwoTo[ByteBits]
           Cut(i) == (Limb(a, (count - i) \div LimbBytes + 1)
                        \div TwoTo[ByteBits * ((count - i) % LimbBytes)]) % b
<1>1. ToBytes(a, count) = [i \in 1 .. count |-> Cut(i)]
  BY DEF ToBytes
<1>2. ASSUME NEW i \in 1 .. count PROVE Cut(i) \in 0 .. b - 1
  <2> DEFINE place == count - i
             d == Limb(a, place \div LimbBytes + 1)
             t == TwoTo[ByteBits * (place % LimbBytes)]
  <2>1. place \in Nat /\ LimbBytes \in Nat \ {0} /\ ByteBits \in Nat /\ b \in Nat \ {0}
    BY LimbsAre, TwoToPositive
  <2>2. place \div LimbBytes \in Nat /\ place % LimbBytes \in Nat
    <3> HIDE DEF place
    <3>1. place \div LimbBytes \in Nat /\ place % LimbBytes \in 0 .. LimbBytes - 1
      BY <2>1, Dividing
    <3> QED
      BY <2>1, <3>1
  <2>3. d \in Nat
    <3>1. place \div LimbBytes + 1 \in Int
      BY <2>2
    <3> HIDE DEF place
    <3>2. d \in Digits
      BY <3>1, NumberWhole, Zenon
    <3> QED
      BY <3>2, DigitsAre
  <2>4. t \in Nat \ {0}
    BY <2>1, <2>2, ProductNat, TwoToPositive
  <2>5. Cut(i) = (d \div t) % b
    OBVIOUS
  <2> HIDE DEF Cut, d, t, b
  <2> QED
    BY <2>1, <2>3, <2>4, <2>5, Dividing
<1> HIDE DEF Cut
<1>3. ToBytes(a, count) \in [1 .. count -> 0 .. b - 1]
  BY <1>1, <1>2
<1>4. ToBytes(a, count) \in Seq(0 .. b - 1)
  BY <1>3, SeqOf
<1> QED
  BY <1>4, FromBytesNumber

LEMMA LoopsAskPower == LoopsInv /\ AskPower => LoopsInv'
<1> SUFFICES ASSUME LoopsInv, AskPower PROVE LoopsInv'
  OBVIOUS
<1> DEFINE b == FromNumber(question.base)
           e == FromNumber(question.exponent)
           n == FromNumber(question.modulus)
<1>1. question \in Questions /\ question.kind = "power"
  BY DEF LoopsInv, AskPower
<1>2. IsNumber(b) /\ IsNumber(e) /\ IsNumber(n) /\ n # Zero
  BY <1>1, QuestionsAre
<1>3. power' = StartPower(b, e, n)
  BY DEF AskPower, Modulus
<1>4. power' \in PowerStates /\ power' # Idle
  BY <1>2, <1>3, StartPowerIs
<1> QED
  BY <1>1, <1>4 DEF AskPower, LoopsInv

LEMMA LoopsSign == LoopsInv /\ Sign => LoopsInv'
<1> SUFFICES ASSUME LoopsInv, Sign PROVE LoopsInv'
  OBVIOUS
<1> DEFINE b == FromBytes(EmsaPkcs1V15Encode(question.digest))
           e == FromNumber(Key.d)
           n == FromNumber(Key.n)
<1>1. question \in Questions /\ question.kind = "signature"
  BY DEF LoopsInv, Sign
<1>2. EmsaPkcs1V15Encode(question.digest) \in Seq(0 .. TwoTo[ByteBits] - 1)
  BY <1>1, QuestionsAssumption, EncodedIs, SequenceOfBytes
<1>3. IsNumber(b) /\ IsNumber(e) /\ IsNumber(n) /\ n # Zero
  BY <1>2, FromBytesNumber, KeyIs
<1>4. power' = StartPower(b, e, n)
  BY DEF Sign
<1> HIDE DEF b, e, n
<1>5. power' \in PowerStates /\ power' # Idle
  BY <1>3, <1>4, StartPowerIs
<1> QED
  BY <1>1, <1>5 DEF Sign, LoopsInv

LEMMA LoopsVerify == LoopsInv /\ Verify => LoopsInv'
<1> SUFFICES ASSUME LoopsInv, Verify PROVE LoopsInv'
  OBVIOUS
<1> DEFINE b == FromBytes(ToBytes(power.result, EmLength))
           e == FromNumber(Key.e)
           n == FromNumber(Key.n)
<1>1. question \in Questions /\ question.kind = "signature" /\ power \in PowerStates
  BY DEF LoopsInv, Verify
<1>2. IsNumber(power.result) /\ EmLength \in Nat
  BY <1>1, NumbersAre, KeyAssumption DEF PowerStates
<1>3. IsNumber(b) /\ IsNumber(e) /\ IsNumber(n) /\ n # Zero
  BY <1>2, VerifyBytes, KeyIs
<1>4. power' = StartPower(b, e, n)
  BY DEF Verify
<1> HIDE DEF b, e, n
<1>5. power' \in PowerStates /\ power' # Idle
  BY <1>3, <1>4, StartPowerIs
<1> QED
  BY <1>1, <1>5 DEF Verify, LoopsInv

LEMMA LoopsPowerStep == LoopsInv /\ PowerStep => LoopsInv'
<1> SUFFICES ASSUME LoopsInv, PowerStep PROVE LoopsInv'
  OBVIOUS
<1>1. power \in PowerStates /\ power.left > 0 /\ power' = PowerRound(power) /\ power # Idle
  BY DEF LoopsInv, PowerStep
<1>2. power' \in PowerStates /\ power' # Idle
  BY <1>1, PowerRoundIs
<1> QED
  BY <1>1, <1>2 DEF PowerStep, LoopsInv

LEMMA LoopsAskInverse == LoopsInv /\ AskInverse => LoopsInv'
<1> SUFFICES ASSUME LoopsInv, AskInverse PROVE LoopsInv'
  OBVIOUS
<1> DEFINE a == FromNumber(question.number)
           start == [r0 |-> a, r1 |-> Modulus, s0 |-> One, s1 |-> Zero]
<1>1. question \in Questions /\ question.kind = "inverse"
  BY DEF LoopsInv, AskInverse
<1>2. a \in Numbers /\ Modulus \in Numbers /\ One \in Numbers /\ Zero \in Numbers
  BY <1>1, QuestionsAre, NumbersAre, ZeroAndOne DEF Modulus
<1>3. CASE Modulus = One \/ question.number = 0
  BY <1>3 DEF AskInverse, Finish, LoopsInv
<1>4. CASE ~(Modulus = One \/ question.number = 0)
  <2>1. euclid' = start /\ round' = "inverse" /\ UNCHANGED <<question, answer, power, candidate>>
    BY <1>4 DEF AskInverse
  <2>2. start \in EuclidStates /\ start # Idle
    <3>1. start \in EuclidStates
      BY <1>2 DEF EuclidStates
    <3>2. DOMAIN start = {"r0", "r1", "s0", "s1"} /\ DOMAIN Idle = {}
      BY DEF Idle
    <3> QED
      BY <3>1, <3>2
  <2> HIDE DEF start
  <2>3. power = Idle
    BY DEF LoopsInv, AskInverse
  <2> QED
    BY <1>1, <2>1, <2>2, <2>3 DEF AskInverse, LoopsInv
<1> QED
  BY <1>3, <1>4

(* One division of extended Euclid, in limbs and in numbers.                *)
LEMMA InverseStepIs ==
  ASSUME LoopsInv, InverseStep
  PROVE  LET q == Value(euclid.r0) \div Value(euclid.r1)
         IN /\ euclid' \in EuclidStates /\ euclid' # Idle
            /\ euclid \in EuclidStates /\ euclid # Idle
            /\ question \in Questions /\ question.kind = "inverse"
            /\ Value(euclid.r1) # 0
            /\ Value(euclid'.r0) = Value(euclid.r1)
            /\ Value(euclid'.r1) = Value(euclid.r0) - q * Value(euclid.r1)
            /\ Value(euclid'.s0) = Value(euclid.s1)
            /\ Value(euclid'.s1) =
                 RoundProofs!Difference(Value(euclid.s0), q * Value(euclid.s1), question.modulus)
<1> DEFINE q == DivFloor(euclid.r0, euclid.r1)
           qr == Mul(q, euclid.r1)
           qs == Mul(q, euclid.s1)
           r2 == SubAssign(euclid.r0, qr)
           s2 == Reduced(Difference(euclid.s0, qs, Modulus), Modulus)
           x == Value(euclid.r0)
           y == Value(euclid.r1)
<1>1. /\ euclid \in EuclidStates /\ euclid # Idle /\ question \in Questions /\ question.kind = "inverse"
      /\ euclid.r1 # Zero
      /\ euclid' = [r0 |-> euclid.r1, r1 |-> r2, s0 |-> euclid.s1, s1 |-> s2]
  BY DEF LoopsInv, InverseStep
<1>2. IsNumber(euclid.r0) /\ IsNumber(euclid.r1) /\ IsNumber(euclid.s0) /\ IsNumber(euclid.s1)
  BY <1>1, NumbersAre DEF EuclidStates
<1>3. IsNumber(Modulus) /\ Modulus # Zero /\ Value(Modulus) = question.modulus
  BY <1>1, QuestionsAre DEF Modulus
<1>4. x \in Nat /\ y \in Nat \ {0}
  BY <1>1, <1>2, NumberBounds, ZeroAndOne
<1>5. IsNumber(q) /\ Value(q) = x \div y
  BY <1>1, <1>2, LimbsDivide
<1>6. x \div y \in Nat /\ (x \div y) * y <= x
  <2> HIDE DEF x, y
  <2> QED
    BY <1>4, RoundProofs!Rounding
<1> HIDE DEF q
<1>7. IsNumber(qr) /\ Value(qr) = (x \div y) * y /\ IsNumber(qs) /\ Value(qs) = (x \div y) * Value(euclid.s1)
  BY <1>2, <1>5, LimbsMultiply
<1> HIDE DEF qr, qs
<1>8. IsNumber(r2) /\ Value(r2) = x - (x \div y) * y
  BY <1>2, <1>6, <1>7, SubAssignIs
<1>9. /\ IsNumber(s2)
      /\ Value(s2) = RoundProofs!Difference(Value(euclid.s0), (x \div y) * Value(euclid.s1), question.modulus)
  BY <1>2, <1>3, <1>7, DifferenceIs
<1> HIDE DEF r2, s2
<1>10. r2 \in Numbers /\ s2 \in Numbers /\ euclid.r1 \in Numbers /\ euclid.s1 \in Numbers
  BY <1>2, <1>8, <1>9, NumbersAre
<1>11. euclid' \in EuclidStates
  BY <1>1, <1>10 DEF EuclidStates
<1>12. euclid' # Idle
  <2>1. DOMAIN euclid' = {"r0", "r1", "s0", "s1"} /\ DOMAIN Idle = {}
    BY <1>1 DEF Idle
  <2> QED
    BY <2>1
<1> QED
  BY <1>1, <1>4, <1>8, <1>9, <1>11, <1>12

LEMMA LoopsInverseStep == LoopsInv /\ InverseStep => LoopsInv'
<1> SUFFICES ASSUME LoopsInv, InverseStep PROVE LoopsInv'
  OBVIOUS
<1>1. euclid' \in EuclidStates /\ euclid' # Idle /\ question.kind = "inverse"
  BY InverseStepIs
<1> QED
  BY <1>1 DEF InverseStep, LoopsInv

(* The lowest limb of an odd number's neighbour.                            *)
LEMMA MadeOdd ==
  ASSUME NEW a, IsNumber(a)
  PROVE  [a EXCEPT ![1] = IF @ % 2 = 0 THEN @ + 1 ELSE @] \in Numbers
<1> DEFINE d == IF a[1] % 2 = 0 THEN a[1] + 1 ELSE a[1]
           r == [a EXCEPT ![1] = d]
<1>1. a \in Seq(Digits) /\ Len(a) \in Nat \ {0} /\ (Len(a) = 1 \/ a[Len(a)] # 0)
  BY NumberWhole DEF IsNumber
<1>2. a[1] \in Digits
  BY <1>1
<1>3. d \in Digits /\ (a[1] # 0 => d # 0)
  <2>1. a[1] \in Nat /\ a[1] <= Base - 1 /\ Base \in Nat
    BY <1>2, BaseIs DEF Digits
  <2>2. CASE a[1] % 2 = 0
    <3>1. a[1] # Base - 1
      <4>1. PICK k \in Nat : Base = 2 * k
        <5>1. LimbBits - 1 \in Nat /\ (LimbBits - 1) + 1 = LimbBits
          BY LimbsAre
        <5>2. TwoTo[(LimbBits - 1) + 1] = 2 * TwoTo[LimbBits - 1] /\ TwoTo[LimbBits - 1] \in Nat
          BY <5>1, TwoToStep
        <5> QED
          BY <5>1, <5>2 DEF Base
      <4> QED
        BY <2>1, <2>2, <4>1
    <3> QED
      BY <2>1, <2>2, <3>1 DEF Digits
  <2>3. CASE a[1] % 2 # 0
    BY <1>2, <2>3
  <2> QED
    BY <2>2, <2>3
<1> HIDE DEF d
<1>4. r \in Seq(Digits) /\ Len(r) = Len(a) /\ r[1] = d /\ (\A i \in 1 .. Len(a) : i # 1 => r[i] = a[i])
  BY <1>1, <1>3
<1>5. Len(r) = 1 \/ r[Len(r)] # 0
  <2>1. Len(a) \in 1 .. Len(a)
    BY <1>1
  <2> QED
    BY <1>1, <1>4, <2>1
<1>6. IsNumber(r)
  BY <1>1, <1>4, <1>5 DEF IsNumber
<1> QED
  BY <1>6, NumbersAre DEF d

LEMMA LoopsAskPrime == LoopsInv /\ AskPrime => LoopsInv'
<1> SUFFICES ASSUME LoopsInv, AskPrime PROVE LoopsInv'
  OBVIOUS
<1>1. question \in Questions /\ question.kind = "prime"
  BY DEF LoopsInv, AskPrime
<1>2. IsNumber(FromNumber(question.seed))
  BY <1>1, QuestionsAre
<1>3. candidate' \in Numbers
  BY <1>2, MadeOdd DEF AskPrime
<1>4. candidate' # Idle
  <2>1. IsNumber(candidate')
    BY <1>3, NumbersAre
  <2>2. Len(candidate') >= 1 /\ Len(Idle) = 0
    BY <2>1 DEF IsNumber, Idle
  <2> QED
    BY <2>2
<1> QED
  BY <1>1, <1>3, <1>4 DEF AskPrime, LoopsInv

LEMMA LoopsPrimeStep == LoopsInv /\ PrimeStep => LoopsInv'
<1> SUFFICES ASSUME LoopsInv, PrimeStep PROVE LoopsInv'
  OBVIOUS
<1>1. candidate \in Numbers /\ round = "prime" /\ candidate # Idle
  BY DEF LoopsInv, PrimeStep
<1>2. CASE MillerRabin(candidate)
  BY <1>2 DEF PrimeStep, Finish, LoopsInv
<1>3. CASE ~MillerRabin(candidate)
  <2> DEFINE c == AddShifted(candidate, <<2>>, 0)
  <2>1. candidate' = c /\ UNCHANGED <<answer, round, question, power, euclid>>
    BY <1>3 DEF PrimeStep
  <2>2. 2 \in Digits
    <3>1. ByteBits \in Nat /\ 2 <= ByteBits /\ LimbBytes \in Nat \ {0} /\ LimbBits \in Nat
      BY LimbAssumption, LimbsAre
    <3>2. ByteBits <= LimbBytes * ByteBits /\ LimbBits = LimbBytes * ByteBits
      <4>1. 1 * ByteBits <= LimbBytes * ByteBits
        BY <3>1, ProductGrows
      <4> QED
        BY <3>1, <4>1 DEF LimbBits
    <3>3. 2 <= LimbBits
      BY <3>1, <3>2
    <3>4. TwoTo[2] <= Base
      BY <3>1, <3>3, TwoToGrows DEF Base
    <3>5. TwoTo[2] = 4
      <4>1. TwoTo[0 + 1] = 2 * TwoTo[0] /\ TwoTo[1 + 1] = 2 * TwoTo[1] /\ TwoTo[0] = 1
        BY TwoToStep
      <4> QED
        BY <4>1
    <3> QED
      BY <3>4, <3>5, BaseIs DEF Digits
  <2>3. IsNumber(<<2>>) /\ IsNumber(candidate)
    BY <1>1, <2>2, DigitIs, NumbersAre
  <2>4. IsNumber(c)
    BY <2>3, AddShiftedIs
  <2>5. c \in Numbers /\ c # Idle
    <3>1. Len(c) >= 1 /\ Len(Idle) = 0
      BY <2>4 DEF IsNumber, Idle
    <3> QED
      BY <2>4, <3>1, NumbersAre
  <2> HIDE DEF c
  <2> QED
    BY <1>1, <2>1, <2>5 DEF LoopsInv
<1> QED
  BY <1>2, <1>3

LEMMA LoopsNext == LoopsInv /\ [RsaNext]_rsaVars => LoopsInv'
<1> SUFFICES ASSUME LoopsInv, [RsaNext]_rsaVars PROVE LoopsInv'
  OBVIOUS
<1>1. CASE AskPower
  BY <1>1, LoopsAskPower
<1>2. CASE Sign
  BY <1>2, LoopsSign
<1>3. CASE PowerStep
  BY <1>3, LoopsPowerStep
<1>4. CASE PowerDone
  BY <1>4 DEF PowerDone, Finish, LoopsInv
<1>5. CASE Verify
  BY <1>5, LoopsVerify
<1>6. CASE Verified
  BY <1>6 DEF Verified, Finish, LoopsInv
<1>7. CASE AskInverse
  BY <1>7, LoopsAskInverse
<1>8. CASE InverseStep
  BY <1>8, LoopsInverseStep
<1>9. CASE InverseDone
  BY <1>9 DEF InverseDone, Finish, LoopsInv
<1>10. CASE AskPrime
  BY <1>10, LoopsAskPrime
<1>11. CASE PrimeStep
  BY <1>11, LoopsPrimeStep
<1>12. CASE UNCHANGED rsaVars
  BY <1>12 DEF rsaVars, LoopsInv
<1> QED
  BY <1>1, <1>2, <1>3, <1>4, <1>5, <1>6, <1>7, <1>8, <1>9, <1>10, <1>11, <1>12 DEF RsaNext

(* Every number the loops hold is written in one way, without leading       *)
(* zeros, and Barrett's estimates are the ones proved about: never above    *)
(* the quotient, and one below at most.                                     *)
THEOREM NumbersStayCanonical == RsaSpec => []LimbsSound
<1>1. RsaInit => LoopsInv
  BY LoopsInit
<1>2. LoopsInv /\ [RsaNext]_rsaVars => LoopsInv'
  BY LoopsNext
<1>3. LoopsInv => LimbsSound
  <2> SUFFICES ASSUME LoopsInv PROVE LimbsSound
    OBVIOUS
  <2>1. ASSUME NEW a \in Held PROVE Canonical(a)
    <3>1. a \in Numbers
      BY <2>1 DEF Held, LoopsInv, PowerStates, EuclidStates
    <3> QED
      BY <3>1 DEF Numbers
  <2>2. ASSUME power # Idle, NEW b \in {power.result, power.base}
        PROVE  QuotientRight(Mul(power.result, b), power.modulus)
    <3> DEFINE a == Mul(power.result, b)
               n == power.modulus
               k == KBits(n)
               qHat == Value(QHat(a, k, BarrettMu(n, k)))
    <3>1. IsNumber(power.result) /\ IsNumber(b) /\ IsNumber(n) /\ n # Zero
      BY <2>2, NumbersAre DEF LoopsInv, PowerStates
    <3>2. IsNumber(a) /\ k \in Nat
      BY <3>1, LimbsMultiply, KBitsAre
    <3> HIDE DEF a, k
    <3>3. /\ Value(a) \div Value(n) - qHat >= 0
          /\ BitLen(a) <= 2 * k => Value(a) \div Value(n) - qHat <= 1
      BY <3>1, <3>2, BarrettIsRight
    <3>4. qHat = RoundProofs!Estimate(Value(a), Value(n), TwoTo[2 * k])
      BY <3>1, <3>2, QHatIs
    <3>5. RoundProofs!Estimate(Value(a), Value(n), TwoTo[2 * k]) = Rounds!Estimate(Value(a), Value(n), TwoTo[2 * k])
      BY DEF RoundProofs!Estimate, Rounds!Estimate, RoundProofs!Mu, Rounds!Mu
    <3> QED
      BY <3>3, <3>4, <3>5 DEF QuotientRight, k, a
  <2> QED
    BY <2>1, <2>2 DEF LimbsSound
<1> QED
  BY <1>1, <1>2, <1>3, PTL DEF RsaSpec

-----------------------------------------------------------------------------
(* The loops do what RsaRounds says, and so compute what is true.           *)

(* The states of the rounds.                                                *)
PowerBar ==
  IF power = Idle \/ question.kind # "power" THEN Idle
  ELSE [weight |-> TwoTo[power.left], result |-> Value(power.result)]

EuclidBar ==
  IF euclid = Idle THEN Idle
  ELSE [r0 |-> Value(euclid.r0), r1 |-> Value(euclid.r1),
        s0 |-> Value(euclid.s0), s1 |-> Value(euclid.s1)]

(* The question that mod_pow answers is the one asked.                      *)
PowerAgrees ==
  power # Idle =>
    /\ power.left <= BitLen(power.exponent)
    /\ question.kind = "power" =>
         /\ Value(power.base) = question.base
         /\ Value(power.exponent) = question.exponent
         /\ Value(power.modulus) = question.modulus

(* The weight before the first bit.                                         *)
LEMMA FirstWeight ==
  ASSUME NEW a, IsNumber(a)
  PROVE  TwoTo[BitLen(a)] \in Value(a) + 1 .. 2 * Value(a) + 1
<1>1. Value(a) \in Nat /\ BitLen(a) \in Nat /\ Value(a) < TwoTo[BitLen(a)]
  BY NumberBounds, BitLenIs
<1>2. CASE Value(a) = 0
  <2>1. a = Zero
    BY <1>2, ZeroAndOne
  <2>2. BitLen(a) = 0
    BY <2>1 DEF BitLen, Zero
  <2> QED
    BY <1>2, <2>2, TwoToStep
<1>3. CASE Value(a) # 0
  <2>1. BitLen(a) - 1 \in Nat /\ TwoTo[BitLen(a) - 1] <= Value(a)
    BY <1>1, <1>3, BitLenIs
  <2>2. TwoTo[BitLen(a)] = 2 * TwoTo[BitLen(a) - 1] /\ TwoTo[BitLen(a) - 1] \in Nat
    <3>1. (BitLen(a) - 1) + 1 = BitLen(a)
      BY <1>1
    <3>2. TwoTo[(BitLen(a) - 1) + 1] = 2 * TwoTo[BitLen(a) - 1] /\ TwoTo[BitLen(a) - 1] \in Nat
      BY <2>1, TwoToStep
    <3> QED
      BY <3>1, <3>2
  <2> QED
    BY <1>1, <2>1, <2>2
<1> QED
  BY <1>2, <1>3

LEMMA PowerAsked ==
  ASSUME LoopsInv, AskPower
  PROVE  Rounds!AskPower /\ PowerAgrees'
<1> DEFINE b == FromNumber(question.base)
           e == FromNumber(question.exponent)
           n == FromNumber(question.modulus)
<1>1. /\ question \in Questions /\ question.kind = "power" /\ power = Idle /\ euclid = Idle /\ answer = <<>>
      /\ UNCHANGED <<question, answer, euclid>>
  BY DEF LoopsInv, AskPower
<1>2. /\ IsNumber(b) /\ IsNumber(e) /\ IsNumber(n) /\ n # Zero
      /\ Value(b) = question.base /\ Value(e) = question.exponent /\ Value(n) = question.modulus
  BY <1>1, QuestionsAre
<1>3. power' = StartPower(b, e, n)
  BY DEF AskPower, Modulus
<1> HIDE DEF b, e, n
<1>4. /\ power' # Idle
      /\ power'.base = b /\ power'.exponent = e /\ power'.modulus = n
      /\ power'.left <= BitLen(e)
      /\ n = One => power'.left = 0 /\ power'.result = Zero
      /\ n # One => power'.left = BitLen(e) /\ power'.result = One
  BY <1>2, <1>3, StartPowerIs
<1>5. PowerAgrees'
  BY <1>1, <1>2, <1>4 DEF PowerAgrees
<1>6. PowerBar' = [weight |-> TwoTo[power'.left], result |-> Value(power'.result)]
  BY <1>1, <1>4 DEF PowerBar
<1>7. PowerBar = Idle /\ EuclidBar = Idle /\ EuclidBar' = EuclidBar
  BY <1>1 DEF PowerBar, EuclidBar
<1>8. CASE n = One
  <2>1. question.modulus = 1
    BY <1>2, <1>8, ZeroAndOne
  <2>2. PowerBar' = [weight |-> 1, result |-> 0]
    BY <1>4, <1>6, <1>8, TwoToStep, ZeroAndOne
  <2>3. Rounds!AskPower
    BY <1>1, <1>7, <2>1, <2>2 DEF Rounds!AskPower, Rounds!Fresh, Rounds!Idle, PowerBar, EuclidBar, Idle
  <2> QED
    BY <1>5, <2>3
<1>9. CASE n # One
  <2>1. question.modulus # 1
    BY <1>2, <1>9, ZeroAndOne
  <2>2. PowerBar' = [weight |-> TwoTo[BitLen(e)], result |-> 1]
    BY <1>4, <1>6, <1>9, ZeroAndOne
  <2>3. TwoTo[BitLen(e)] \in question.exponent + 1 .. 2 * question.exponent + 1
    BY <1>2, FirstWeight
  <2>4. \E weight \in question.exponent + 1 .. 2 * question.exponent + 1 :
          PowerBar' = [weight |-> weight, result |-> 1]
    BY <2>2, <2>3
  <2>5. Rounds!AskPower
    BY <1>1, <1>7, <2>1, <2>4 DEF Rounds!AskPower, Rounds!Fresh, Rounds!Idle, PowerBar, EuclidBar, Idle
  <2> QED
    BY <1>5, <2>5
<1> QED
  BY <1>8, <1>9

LEMMA PowerStepped ==
  ASSUME LoopsInv, PowerAgrees, PowerStep, question.kind = "power"
  PROVE  Rounds!PowerStep /\ PowerAgrees'
<1> DEFINE half == TwoTo[power.left - 1]
           n == question.modulus
           r == Value(power.result)
           square == (r * r) % n
           next == IF (question.exponent \div half) % 2 = 0 THEN square
                   ELSE (square * question.base) % n
<1>1. /\ power \in PowerStates /\ power # Idle /\ power.left > 0 /\ power.left \in Nat
      /\ power' = PowerRound(power) /\ UNCHANGED <<question, answer, euclid>>
      /\ power.left <= BitLen(power.exponent)
      /\ Value(power.base) = question.base /\ Value(power.exponent) = question.exponent
      /\ Value(power.modulus) = n
  BY DEF LoopsInv, PowerStep, PowerAgrees, PowerStates
<1>2. /\ power' # Idle
      /\ power'.base = power.base /\ power'.exponent = power.exponent /\ power'.modulus = power.modulus
      /\ power'.left = power.left - 1
      /\ Value(power'.result) = next
  BY <1>1, PowerRoundIs
<1>3. PowerAgrees'
  <2>1. power'.left <= BitLen(power'.exponent)
    <3>1. BitLen(power.exponent) \in Nat
      BY <1>1, NumbersAre, BitLenIs DEF PowerStates
    <3> QED
      BY <1>1, <1>2, <3>1
  <2> QED
    BY <1>1, <1>2, <2>1 DEF PowerAgrees
<1>4. /\ PowerBar = [weight |-> TwoTo[power.left], result |-> r]
      /\ PowerBar' = [weight |-> half, result |-> next]
      /\ EuclidBar' = EuclidBar
  BY <1>1, <1>2 DEF PowerBar, EuclidBar
<1>5. half \in Nat \ {0} /\ TwoTo[power.left] = 2 * half
  <2>1. power.left - 1 \in Nat /\ (power.left - 1) + 1 = power.left
    BY <1>1
  <2>2. TwoTo[(power.left - 1) + 1] = 2 * TwoTo[power.left - 1]
    BY <2>1, TwoToStep
  <2> QED
    BY <2>1, <2>2, TwoToPositive
<1>6. half \in 1 .. PowerBar.weight /\ PowerBar.weight = 2 * half /\ PowerBar.result = r
  <2> HIDE DEF half
  <2> QED
    BY <1>4, <1>5
<1>7. PowerBar # Idle
  BY <1>4 DEF Idle
<1>8. Rounds!PowerStep
  <2>1. \E h \in 1 .. PowerBar.weight :
          /\ PowerBar.weight = 2 * h
          /\ LET s == (PowerBar.result * PowerBar.result) % question.modulus
             IN PowerBar' = [weight |-> h,
                             result |-> IF (question.exponent \div h) % 2 = 0 THEN s
                                        ELSE (s * question.base) % question.modulus]
    BY <1>4, <1>6
  <2> QED
    BY <1>1, <1>4, <1>7, <2>1 DEF Rounds!PowerStep, Rounds!Idle, PowerBar, EuclidBar, Idle
<1> QED
  BY <1>3, <1>8

LEMMA PowerFinished ==
  ASSUME LoopsInv, PowerDone
  PROVE  Rounds!PowerDone
<1>1. /\ power # Idle /\ power.left = 0 /\ question.kind = "power" /\ answer = <<>>
      /\ answer' = <<Value(power.result)>> /\ UNCHANGED <<question, power, euclid>>
  BY DEF LoopsInv, PowerDone, Finish
<1>2. /\ PowerBar = [weight |-> 1, result |-> Value(power.result)]
      /\ PowerBar' = PowerBar /\ EuclidBar' = EuclidBar
  BY <1>1, TwoToStep DEF PowerBar, EuclidBar
<1>3. PowerBar # Idle /\ PowerBar.weight = 1 /\ answer' = <<PowerBar.result>>
  BY <1>1, <1>2 DEF Idle
<1> QED
  BY <1>1, <1>2, <1>3 DEF Rounds!PowerDone, Rounds!Idle, PowerBar, EuclidBar, Idle

LEMMA InverseAsked ==
  ASSUME LoopsInv, AskInverse
  PROVE  Rounds!AskInverse
<1>1. /\ question \in Questions /\ question.kind = "inverse" /\ power = Idle /\ euclid = Idle /\ answer = <<>>
      /\ UNCHANGED <<question, power>>
  BY DEF LoopsInv, AskInverse
<1>2. /\ IsNumber(Modulus) /\ Value(Modulus) = question.modulus
      /\ Value(FromNumber(question.number)) = question.number
  BY <1>1, QuestionsAre DEF Modulus
<1>3. Modulus = One <=> question.modulus = 1
  BY <1>2, ZeroAndOne
<1>4. PowerBar = Idle /\ EuclidBar = Idle /\ PowerBar' = PowerBar
  BY <1>1 DEF PowerBar, EuclidBar
<1>5. CASE Modulus = One \/ question.number = 0
  <2>1. answer' = <<-1>> /\ euclid' = euclid
    BY <1>5 DEF AskInverse, Finish, None
  <2>2. EuclidBar' = EuclidBar
    BY <1>1, <2>1 DEF EuclidBar
  <2> QED
    BY <1>1, <1>3, <1>4, <1>5, <2>1, <2>2
    DEF Rounds!AskInverse, Rounds!Fresh, Rounds!Idle, PowerBar, EuclidBar, Idle
<1>6. CASE ~(Modulus = One \/ question.number = 0)
  <2>1. /\ euclid' = [r0 |-> FromNumber(question.number), r1 |-> Modulus, s0 |-> One, s1 |-> Zero]
        /\ answer' = answer
    BY <1>6 DEF AskInverse
  <2>2. EuclidBar' = [r0 |-> question.number, r1 |-> question.modulus, s0 |-> 1, s1 |-> 0]
    <3>1. euclid' # Idle
      BY <2>1 DEF Idle
    <3> QED
      BY <1>2, <2>1, <3>1, ZeroAndOne DEF EuclidBar
  <2> QED
    BY <1>1, <1>3, <1>4, <1>6, <2>1, <2>2
    DEF Rounds!AskInverse, Rounds!Fresh, Rounds!Idle, PowerBar, EuclidBar, Idle
<1> QED
  BY <1>5, <1>6

LEMMA InverseStepped ==
  ASSUME LoopsInv, InverseStep
  PROVE  Rounds!InverseStep
<1> DEFINE q == Value(euclid.r0) \div Value(euclid.r1)
           s2 == RoundProofs!Difference(Value(euclid.s0), q * Value(euclid.s1), question.modulus)
<1>1. /\ euclid' # Idle /\ euclid # Idle /\ Value(euclid.r1) # 0
      /\ Value(euclid'.r0) = Value(euclid.r1)
      /\ Value(euclid'.r1) = Value(euclid.r0) - q * Value(euclid.r1)
      /\ Value(euclid'.s0) = Value(euclid.s1)
      /\ Value(euclid'.s1) = s2
  BY InverseStepIs
<1>2. UNCHANGED <<question, answer, power>>
  BY DEF InverseStep
<1>3. s2 = Rounds!Difference(Value(euclid.s0), q * Value(euclid.s1), question.modulus)
  BY DEF RoundProofs!Difference, Rounds!Difference
<1>4. /\ EuclidBar = [r0 |-> Value(euclid.r0), r1 |-> Value(euclid.r1),
                      s0 |-> Value(euclid.s0), s1 |-> Value(euclid.s1)]
      /\ EuclidBar' = [r0 |-> Value(euclid.r1), r1 |-> Value(euclid.r0) - q * Value(euclid.r1),
                       s0 |-> Value(euclid.s1), s1 |-> s2]
      /\ PowerBar' = PowerBar
  BY <1>1, <1>2 DEF EuclidBar, PowerBar
<1> HIDE DEF s2
<1>5. EuclidBar # Idle /\ EuclidBar.r1 # 0
  BY <1>1, <1>4 DEF Idle
<1>6. EuclidBar' = [r0 |-> EuclidBar.r1,
                    r1 |-> EuclidBar.r0 - (EuclidBar.r0 \div EuclidBar.r1) * EuclidBar.r1,
                    s0 |-> EuclidBar.s1,
                    s1 |-> Rounds!Difference(EuclidBar.s0, (EuclidBar.r0 \div EuclidBar.r1) * EuclidBar.s1,
                                             question.modulus)]
  BY <1>3, <1>4
<1> QED
  BY <1>2, <1>4, <1>5, <1>6 DEF Rounds!InverseStep, Rounds!Idle, PowerBar, EuclidBar, Idle

LEMMA InverseFinished ==
  ASSUME LoopsInv, InverseDone
  PROVE  Rounds!InverseDone
<1>1. /\ euclid # Idle /\ euclid \in EuclidStates /\ euclid.r1 = Zero /\ answer = <<>>
      /\ answer' = IF euclid.r0 = One THEN <<Value(euclid.s0)>> ELSE <<-1>>
      /\ UNCHANGED <<question, power, euclid>>
  BY DEF LoopsInv, InverseDone, Finish, None
<1>2. IsNumber(euclid.r0) /\ (euclid.r0 = One <=> Value(euclid.r0) = 1) /\ Value(euclid.r1) = 0
  BY <1>1, NumbersAre, ZeroAndOne DEF EuclidStates
<1>3. /\ EuclidBar = [r0 |-> Value(euclid.r0), r1 |-> 0,
                      s0 |-> Value(euclid.s0), s1 |-> Value(euclid.s1)]
      /\ PowerBar' = PowerBar /\ EuclidBar' = EuclidBar
  BY <1>1, <1>2 DEF PowerBar, EuclidBar
<1>4. /\ EuclidBar # Idle /\ EuclidBar.r1 = 0
      /\ answer' = IF EuclidBar.r0 = 1 THEN <<EuclidBar.s0>> ELSE <<-1>>
  BY <1>1, <1>2, <1>3 DEF Idle
<1> QED
  BY <1>1, <1>3, <1>4 DEF Rounds!InverseDone, Rounds!Idle, PowerBar, EuclidBar, Idle

LEMMA ConcatIs ==
  ASSUME NEW S, NEW s \in Seq(S), NEW t \in Seq(S)
  PROVE  /\ s \o t \in Seq(S) /\ Len(s \o t) = Len(s) + Len(t) /\ Len(s) \in Nat /\ Len(t) \in Nat
         /\ \A i \in 1 .. Len(s) : (s \o t)[i] = s[i]
         /\ \A i \in 1 .. Len(t) : (s \o t)[Len(s) + i] = t[i]
OBVIOUS

(* What is encoded: the digest behind its prefix, at the end of the padding *)
(* that fills a signature.                                                  *)
Encodable(digest) ==
  digest \in Seq(0 .. FF) /\ MinPadding + Len(DigestPrefix) + Len(digest) + 3 <= EmLength

LEMMA EncodedParts ==
  ASSUME NEW digest, Encodable(digest)
  PROVE  LET em == EmsaPkcs1V15Encode(digest)
             l == Len(DigestPrefix)
             m == Len(digest)
             p == EmLength - (l + m) - 3
         IN /\ Len(em) = EmLength /\ l \in Nat /\ m \in Nat /\ p \in Nat /\ p >= MinPadding
            /\ em[1] = 0 /\ em[2] = 1 /\ em[p + 3] = 0
            /\ \A i \in 3 .. p + 2 : em[i] = FF
            /\ \A i \in 1 .. l : em[p + 3 + i] = DigestPrefix[i]
            /\ \A i \in 1 .. m : em[p + 3 + l + i] = digest[i]
<1> DEFINE S == 0 .. FF
           t == DigestPrefix \o digest
           l == Len(DigestPrefix)
           m == Len(digest)
           n == EmLength - Len(t) - 3
           padding == [i \in 1 .. n |-> FF]
           em == EmsaPkcs1V15Encode(digest)
<1>1. /\ DigestPrefix \in Seq(S) /\ digest \in Seq(S) /\ {0, 1, FF} \subseteq S
      /\ EmLength \in Nat /\ MinPadding \in Nat
  BY KeyAssumption, SequenceOfBytes DEF Encodable
<1>2. l \in Nat /\ m \in Nat
  BY <1>1
<1>3. /\ t \in Seq(S) /\ Len(t) = l + m
      /\ \A i \in 1 .. l : t[i] = DigestPrefix[i]
      /\ \A i \in 1 .. m : t[l + i] = digest[i]
  <2> HIDE DEF S
  <2> QED
    BY <1>1
<1> HIDE DEF S, t
<1>4. n \in Nat /\ n >= MinPadding /\ n = EmLength - (l + m) - 3
  BY <1>1, <1>2, <1>3 DEF Encodable
<1> HIDE DEF n
<1>5. padding \in Seq(S) /\ Len(padding) = n /\ \A i \in 1 .. n : padding[i] = FF
  <2>1. padding \in [1 .. n -> S]
    BY <1>1
  <2>2. padding \in Seq(S) /\ Len(padding) = n
    BY <1>4, <2>1, SeqOf
  <2> QED
    BY <2>2
<1>6. em = <<0, 1>> \o padding \o <<0>> \o t
  BY DEF EmsaPkcs1V15Encode, padding, n, t
<1> HIDE DEF padding
<1> DEFINE head == <<0, 1>>
           a == head \o padding
           b == a \o <<0>>
<1>7. head \in Seq(S) /\ Len(head) = 2 /\ head[1] = 0 /\ head[2] = 1
  BY <1>1
<1> HIDE DEF head
<1>8. /\ a \in Seq(S) /\ Len(a) = n + 2 /\ a[1] = 0 /\ a[2] = 1
      /\ \A i \in 3 .. n + 2 : a[i] = FF
  <2>1. /\ a \in Seq(S) /\ Len(a) = 2 + n
        /\ \A i \in 1 .. 2 : a[i] = head[i]
        /\ \A i \in 1 .. n : a[2 + i] = padding[i]
    <3>1. padding \in Seq(S) /\ head \in Seq(S)
      BY <1>5, <1>7
    <3>2. /\ head \o padding \in Seq(S) /\ Len(head \o padding) = Len(head) + Len(padding)
          /\ \A i \in 1 .. Len(head) : (head \o padding)[i] = head[i]
          /\ \A i \in 1 .. Len(padding) : (head \o padding)[Len(head) + i] = padding[i]
      BY <3>1, ConcatIs
    <3> QED
      BY <1>5, <1>7, <3>2
  <2>2. ASSUME NEW i \in 3 .. n + 2 PROVE a[i] = FF
    <3>1. i - 2 \in 1 .. n /\ 2 + (i - 2) = i
      BY <1>4
    <3> HIDE DEF a
    <3>2. a[2 + (i - 2)] = FF
      BY <1>5, <2>1, <3>1
    <3> QED
      BY <3>1, <3>2
  <2> HIDE DEF a
  <2> QED
    BY <1>4, <1>7, <2>1, <2>2
<1> HIDE DEF a
<1>9. /\ b \in Seq(S) /\ Len(b) = n + 3
      /\ \A i \in 1 .. n + 2 : b[i] = a[i]
      /\ b[n + 3] = 0
  <2>1. <<0>> \in Seq(S) /\ Len(<<0>>) = 1
    BY <1>1
  <2>2. /\ b \in Seq(S) /\ Len(b) = Len(a) + 1
        /\ \A i \in 1 .. Len(a) : b[i] = a[i]
        /\ \A i \in 1 .. 1 : b[Len(a) + i] = <<0>>[i]
    BY <1>8, <2>1, ConcatIs
  <2> HIDE DEF b
  <2> QED
    BY <1>4, <1>8, <2>2
<1> HIDE DEF b
<1>10. em = b \o t
  BY <1>6 DEF b, a, head
<1>11. /\ Len(em) = (n + 3) + (l + m)
       /\ \A i \in 1 .. n + 3 : em[i] = b[i]
       /\ \A i \in 1 .. l + m : em[(n + 3) + i] = t[i]
  <2>1. /\ Len(em) = Len(b) + Len(t)
        /\ \A i \in 1 .. Len(b) : em[i] = b[i]
        /\ \A i \in 1 .. Len(t) : em[Len(b) + i] = t[i]
    <3>1. b \in Seq(S) /\ t \in Seq(S)
      BY <1>3, <1>9
    <3>2. /\ Len(b \o t) = Len(b) + Len(t)
          /\ \A i \in 1 .. Len(b) : (b \o t)[i] = b[i]
          /\ \A i \in 1 .. Len(t) : (b \o t)[Len(b) + i] = t[i]
      BY <3>1, ConcatIs
    <3> QED
      BY <1>10, <3>2, Zenon
  <2> QED
    BY <1>3, <1>9, <2>1
<1> HIDE DEF em
<1>12. Len(em) = EmLength
  BY <1>1, <1>2, <1>4, <1>11
<1>13. em[1] = 0 /\ em[2] = 1 /\ em[n + 3] = 0 /\ \A i \in 3 .. n + 2 : em[i] = FF
  BY <1>4, <1>8, <1>9, <1>11
<1>14. ASSUME NEW i \in 1 .. l PROVE em[n + 3 + i] = DigestPrefix[i]
  <2>1. i \in 1 .. l + m
    BY <1>2
  <2> QED
    BY <1>3, <1>11, <2>1
<1>15. ASSUME NEW i \in 1 .. m PROVE em[n + 3 + l + i] = digest[i]
  <2>1. l + i \in 1 .. l + m /\ (n + 3) + (l + i) = n + 3 + l + i
    BY <1>2, <1>4
  <2>2. em[(n + 3) + (l + i)] = t[l + i]
    BY <1>11, <2>1
  <2> QED
    BY <1>3, <2>1, <2>2
<1> QED
  BY <1>2, <1>4, <1>12, <1>13, <1>14, <1>15 DEF em

LEMMA SubSeqIs ==
  ASSUME NEW S, NEW s \in Seq(S), NEW d \in Seq(S), NEW k \in Nat, k + Len(d) <= Len(s),
         \A i \in 1 .. Len(d) : s[k + i] = d[i]
  PROVE  SubSeq(s, k + 1, k + Len(d)) = d
<1> DEFINE m == Len(d)
           c == SubSeq(s, k + 1, k + m)
<1>1. m \in Nat /\ Len(s) \in Nat
  OBVIOUS
<1>2. c \in Seq(S) /\ Len(c) = m
  <2> HIDE DEF m
  <2> QED
    BY <1>1 DEF m
<1>3. ASSUME NEW i \in 1 .. m PROVE c[i] = d[i]
  <2>1. c[i] = s[k + i]
    BY <1>1
  <2> QED
    BY <2>1
<1> HIDE DEF c
<1>4. c = d
  BY <1>2, <1>3
<1> QED
  BY <1>4 DEF c

(* Such an encoding is the one of its digest, and of no other as long.      *)
THEOREM EncodingIsOfOneDigest ==
  ASSUME NEW digest, Encodable(digest), NEW claimed, Len(claimed) = Len(digest)
  PROVE  VerifyEm(EmsaPkcs1V15Encode(digest), claimed) =
           IF digest = claimed THEN "Ok" ELSE "DigestMismatch"
<1> DEFINE em == EmsaPkcs1V15Encode(digest)
           l == Len(DigestPrefix)
           m == Len(digest)
           p == EmLength - (l + m) - 3
           zeros == {i \in 3 .. Len(em) : em[i] = 0}
           separator == CHOOSE i \in zeros : \A j \in zeros : i <= j
           start == separator + 1
           hash == start + Len(DigestPrefix)
<1>1. /\ Len(em) = EmLength /\ l \in Nat /\ m \in Nat /\ p \in Nat /\ p >= MinPadding
      /\ em[1] = 0 /\ em[2] = 1 /\ em[p + 3] = 0
      /\ \A i \in 3 .. p + 2 : em[i] = FF
      /\ \A i \in 1 .. l : em[p + 3 + i] = DigestPrefix[i]
      /\ \A i \in 1 .. m : em[p + 3 + l + i] = digest[i]
  BY EncodedParts
<1>2. /\ em \in Seq(0 .. FF) /\ digest \in Seq(0 .. FF) /\ DigestPrefix \in Seq(0 .. FF)
      /\ EmLength \in Nat /\ MinPadding \in Nat /\ FF # 0
      /\ EmLength = p + 3 + l + m
  BY <1>1, KeyAssumption, EncodedIs, SequenceOfBytes DEF Encodable
<1>3. VerifyEm(em, claimed) =
        IF em[1] # 0 \/ em[2] # 1 \/ zeros = {} THEN "InvalidPadding"
        ELSE IF separator - 3 < MinPadding \/ \E i \in 3 .. separator - 1 : em[i] # FF
        THEN "InvalidPadding"
        ELSE IF Len(em) - separator < Len(DigestPrefix) + Len(claimed) THEN "InvalidSignature"
        ELSE IF SubSeq(em, start, hash - 1) # DigestPrefix \/ SubSeq(em, hash, hash + Len(claimed) - 1) # claimed
        THEN "DigestMismatch"
        ELSE "Ok"
  BY DEF VerifyEm
<1> HIDE DEF em, l, m, p
<1>4. p + 3 \in zeros /\ \A j \in zeros : p + 3 <= j
  BY <1>1, <1>2
<1>5. separator = p + 3
  <2>1. separator \in zeros /\ \A j \in zeros : separator <= j
    BY <1>4
  <2>2. separator <= p + 3 /\ p + 3 <= separator
    BY <1>4, <2>1
  <2>3. separator \in Int
    BY <2>1
  <2> HIDE DEF separator
  <2> QED
    BY <1>1, <2>2, <2>3
<1>6. zeros # {}
  BY <1>4
<1> HIDE DEF separator, zeros
<1>7. SubSeq(em, start, hash - 1) = DigestPrefix
  <2> DEFINE k == p + 3
  <2>1. k \in Nat /\ k + l <= Len(em) /\ \A i \in 1 .. l : em[k + i] = DigestPrefix[i]
    BY <1>1, <1>2
  <2>2. start = k + 1 /\ hash - 1 = k + l
    BY <1>1, <1>5 DEF l
  <2> HIDE DEF k
  <2>3. SubSeq(em, k + 1, k + Len(DigestPrefix)) = DigestPrefix
    BY <1>2, <2>1, SubSeqIs DEF l
  <2> QED
    BY <2>2, <2>3 DEF l
<1>8. SubSeq(em, hash, hash + Len(claimed) - 1) = digest
  <2> DEFINE k == p + 3 + l
  <2>1. k \in Nat /\ k + m <= Len(em) /\ \A i \in 1 .. m : em[k + i] = digest[i]
    BY <1>1, <1>2
  <2>2. hash = k + 1 /\ hash + Len(claimed) - 1 = k + m
    BY <1>1, <1>5 DEF l, m
  <2> HIDE DEF k
  <2>3. SubSeq(em, k + 1, k + Len(digest)) = digest
    BY <1>2, <2>1, SubSeqIs DEF m
  <2> QED
    BY <2>2, <2>3 DEF m
<1>9. ~(separator - 3 < MinPadding) /\ ~(\E i \in 3 .. separator - 1 : em[i] # FF)
  BY <1>1, <1>2, <1>5
<1>10. ~(Len(em) - separator < Len(DigestPrefix) + Len(claimed))
  BY <1>1, <1>2, <1>5 DEF l, m
<1> QED
  BY <1>1, <1>3, <1>6, <1>7, <1>8, <1>9, <1>10 DEF em

(* The number to be signed, and the signature of it.                        *)
Message == Value(FromBytes(EmsaPkcs1V15Encode(question.digest)))
Signature == RoundProofs!Power(Message, Key.d, Key.n)

(* mod_pow has the power with the bits of the exponent taken so far.        *)
PowerGoes(p) ==
  Value(p.result) =
    RoundProofs!Powers(Value(p.base), Value(p.modulus), Value(p.exponent))
      [Value(p.exponent) \div TwoTo[p.left]]

LEMMA PowerValues ==
  ASSUME NEW p \in PowerStates
  PROVE  /\ Value(p.base) \in Nat /\ Value(p.exponent) \in Nat /\ Value(p.result) \in Nat
         /\ Value(p.modulus) \in Nat \ {0} /\ BitLen(p.exponent) \in Nat /\ p.left \in Nat
         /\ IsNumber(p.base) /\ IsNumber(p.exponent) /\ IsNumber(p.modulus) /\ IsNumber(p.result)
         /\ p.modulus # Zero
<1>1. /\ IsNumber(p.base) /\ IsNumber(p.exponent) /\ IsNumber(p.modulus) /\ IsNumber(p.result)
      /\ p.modulus # Zero /\ p.left \in Nat
  BY NumbersAre DEF PowerStates
<1> QED
  BY <1>1, NumberBounds, BitLenIs, ZeroAndOne

LEMMA PowerStarts ==
  ASSUME NEW base, NEW exponent, NEW modulus,
         IsNumber(base), IsNumber(exponent), IsNumber(modulus), modulus # Zero
  PROVE  PowerGoes(StartPower(base, exponent, modulus))
<1> DEFINE p == StartPower(base, exponent, modulus)
           b == Value(base)
           e == Value(exponent)
           n == Value(modulus)
           P == RoundProofs!Powers(b, n, e)
<1>1. /\ p.base = base /\ p.exponent = exponent /\ p.modulus = modulus
      /\ modulus = One => p.left = 0 /\ p.result = Zero
      /\ modulus # One => p.left = BitLen(exponent) /\ p.result = One
  BY StartPowerIs
<1>2. b \in Nat /\ e \in Nat /\ n \in Nat \ {0} /\ (modulus = One <=> n = 1)
  BY NumberBounds, ZeroAndOne
<1>3. e < TwoTo[BitLen(exponent)] /\ BitLen(exponent) \in Nat
  BY BitLenIs
<1> HIDE DEF p, b, e, n
<1>4. P[0] = 1 % n /\ P[e] \in 0 .. n - 1
  <2>1. e \in 0 .. e
    BY <1>2
  <2> QED
    BY <1>2, <2>1, RoundProofs!PowersStep
<1> HIDE DEF P
<1>5. Value(p.result) = P[e \div TwoTo[p.left]]
  <2>1. CASE modulus = One
    <3>1. e \div 1 = e /\ P[e] = 0
      BY <1>2, <1>4, <2>1
    <3> QED
      BY <1>1, <2>1, <3>1, TwoToStep, ZeroAndOne
  <2>2. CASE modulus # One
    <3>1. TwoTo[BitLen(exponent)] \in Nat \ {0}
      BY <1>3, TwoToPositive
    <3>2. e \div TwoTo[BitLen(exponent)] = 0
      BY <1>2, <1>3, <3>1, Below
    <3>3. 1 % n = 1
      <4>1. 1 \in Nat /\ 1 < n
        BY <1>2, <2>2
      <4> QED
        BY <1>2, <4>1, Below
    <3> QED
      BY <1>1, <1>4, <2>2, <3>2, <3>3, ZeroAndOne
  <2> QED
    BY <2>1, <2>2
<1> QED
  BY <1>1, <1>5 DEF PowerGoes, P, p, b, e, n

LEMMA PowerGoesOn ==
  ASSUME NEW p \in PowerStates, p.left > 0, p.left <= BitLen(p.exponent), PowerGoes(p)
  PROVE  PowerGoes(PowerRound(p))
<1> DEFINE q == PowerRound(p)
           half == TwoTo[p.left - 1]
           b == Value(p.base)
           e == Value(p.exponent)
           n == Value(p.modulus)
           r == Value(p.result)
           square == (r * r) % n
<1>1. /\ q.base = p.base /\ q.exponent = p.exponent /\ q.modulus = p.modulus
      /\ q.left = p.left - 1
      /\ Value(q.result) = IF (e \div half) % 2 = 0 THEN square ELSE (square * b) % n
  BY PowerRoundIs
<1>2. b \in Nat /\ e \in Nat /\ n \in Nat \ {0} /\ p.left \in Nat
  BY PowerValues
<1>3. half \in Nat \ {0} /\ TwoTo[p.left] = 2 * half
  <2>1. p.left - 1 \in Nat /\ (p.left - 1) + 1 = p.left
    BY <1>2
  <2>2. TwoTo[(p.left - 1) + 1] = 2 * TwoTo[p.left - 1]
    BY <2>1, TwoToStep
  <2> QED
    BY <2>1, <2>2, TwoToPositive
<1>4. r = RoundProofs!Powers(b, n, e)[e \div TwoTo[p.left]]
  BY DEF PowerGoes
<1> HIDE DEF q, half, b, e, n, r
<1>5. r = RoundProofs!Powers(b, n, e)[e \div (2 * half)]
  BY <1>3, <1>4
<1>6. square = (r * r) % n
  OBVIOUS
<1> HIDE DEF square
<1>7. RoundProofs!Powers(b, n, e)[e \div half] =
        IF (e \div half) % 2 = 0 THEN square ELSE (square * b) % n
  <2>1. b \in Nat
    BY <1>2
  <2>2. n \in Nat \ {0}
    BY <1>2
  <2>3. e \in Nat
    BY <1>2
  <2>4. half \in Nat \ {0}
    BY <1>3
  <2>5. RoundProofs!Powers(b, n, e)[e \div half] =
          LET result == RoundProofs!Powers(b, n, e)[e \div (2 * half)]
              sq == (result * result) % n
          IN IF (e \div half) % 2 = 0 THEN sq ELSE (sq * b) % n
    BY <2>1, <2>2, <2>3, <2>4, RoundProofs!RoundOfPower, Zenon
  <2> QED
    BY <2>5, <1>5, <1>6
<1>8. Value(q.result) = RoundProofs!Powers(b, n, e)[e \div half]
  BY <1>1, <1>7
<1> QED
  BY <1>1, <1>8 DEF PowerGoes, q, half, b, e, n

LEMMA PowerEnds ==
  ASSUME NEW p \in PowerStates, p.left = 0, PowerGoes(p)
  PROVE  /\ Value(p.result) = RoundProofs!Power(Value(p.base), Value(p.exponent), Value(p.modulus))
         /\ Value(p.result) < Value(p.modulus)
<1> DEFINE b == Value(p.base)
           e == Value(p.exponent)
           n == Value(p.modulus)
<1>1. b \in Nat /\ e \in Nat /\ n \in Nat \ {0} /\ e \div 1 = e /\ e \in 0 .. e
  BY PowerValues
<1>2. Value(p.result) = RoundProofs!Powers(b, n, e)[e]
  BY <1>1, TwoToStep DEF PowerGoes
<1> HIDE DEF b, e, n
<1>3. RoundProofs!Powers(b, n, e)[e] \in 0 .. n - 1
  BY <1>1, RoundProofs!PowersStep
<1>4. Value(p.result) < n
  BY <1>1, <1>2, <1>3
<1> QED
  BY <1>2, <1>4 DEF RoundProofs!Power, b, e, n

LEMMA SignatureQuestion ==
  ASSUME question \in Questions, question.kind = "signature"
  PROVE  /\ Encodable(question.digest) /\ Len(question.claimed) = Len(question.digest)
         /\ EmsaPkcs1V15Encode(question.digest) \in Seq(0 .. TwoTo[ByteBits] - 1)
         /\ Writes(EmsaPkcs1V15Encode(question.digest), Message)
         /\ IsNumber(FromBytes(EmsaPkcs1V15Encode(question.digest)))
         /\ Message \in 0 .. Key.n - 1
         /\ Signature \in 0 .. Key.n - 1
         /\ RoundProofs!Power(Signature, Key.e, Key.n) = Message
<1> DEFINE em == EmsaPkcs1V15Encode(question.digest)
<1>1. Encodable(question.digest) /\ Len(question.claimed) = Len(question.digest)
  BY QuestionsAssumption DEF Encodable
<1>2. em \in Seq(0 .. TwoTo[ByteBits] - 1)
  BY <1>1, EncodedIs, SequenceOfBytes DEF Encodable
<1>3. Len(em) = EmLength /\ em[1] = 0 /\ EmLength \in Nat \ {0} /\ Len(em) \in Nat
  BY <1>1, KeyAssumption, EncodedParts
<1> HIDE DEF em
<1>4. Writes(em, Message) /\ IsNumber(FromBytes(em))
  <2>1. PICK v : Writes(em, v)
    BY <1>2, BytesWrite
  <2>2. IsNumber(FromBytes(em)) /\ Value(FromBytes(em)) = v
    BY <2>1, BytesAreRead
  <2> QED
    BY <2>1, <2>2 DEF Message, em
<1>5. Message \in 0 .. Key.n - 1
  <2> DEFINE v == Message
             k == EmLength - 1
  <2>1. k \in Nat /\ k + 1 = EmLength /\ ByteBits \in Nat
    BY <1>3, LimbsAre
  <2>2. TwoTo[ByteBits * EmLength] \in Nat /\ TwoTo[ByteBits * k] \in Nat
    BY <1>3, <2>1, ProductNat, TwoToStep
  <2>3. v \in Nat /\ v < TwoTo[ByteBits * EmLength]
    BY <1>3, <1>4, <2>2 DEF Writes
  <2>4. ByteOf(v, EmLength) = 0
    <3>1. EmLength \in 1 .. Len(em)
      BY <1>3
    <3>2. ByteAt(em, EmLength) = ByteOf(v, EmLength)
      BY <1>4, <3>1 DEF Writes
    <3>3. Len(em) + 1 - EmLength = 1
      BY <1>3
    <3> QED
      BY <1>3, <3>2, <3>3 DEF ByteAt
  <2> HIDE DEF v, k
  <2>5. v < TwoTo[ByteBits * k]
    BY <2>1, <2>3, <2>4, Shorter
  <2>6. TwoTo[ByteBits * k] <= Key.n /\ Key.n \in Nat
    BY KeyAssumption, KeyIs DEF k
  <2>7. v \in 0 .. Key.n - 1
    BY <2>2, <2>3, <2>5, <2>6
  <2> QED
    BY <2>7 DEF v
<1>6. Signature \in 0 .. Key.n - 1
  <2>1. Message \in Nat /\ Key.d \in Nat /\ Key.n \in Nat \ {0} /\ Key.d \in 0 .. Key.d
    BY <1>5, KeyIs
  <2> HIDE DEF Message
  <2>2. RoundProofs!Powers(Message, Key.n, Key.d)[Key.d] \in 0 .. Key.n - 1
    BY <2>1, RoundProofs!PowersStep
  <2> QED
    BY <2>2 DEF Signature, RoundProofs!Power
<1>7. RoundProofs!Power(Signature, Key.e, Key.n) = Message
  <2>1. Rounds!Power(Rounds!Power(Message, Key.d, Key.n), Key.e, Key.n) = Message
    BY <1>5, KeyAssumption
  <2> QED
    BY <2>1 DEF Signature, Rounds!Power, Rounds!Powers, RoundProofs!Power, RoundProofs!Powers
<1> QED
  BY <1>1, <1>2, <1>4, <1>5, <1>6, <1>7 DEF em

(* Between signing and verifying: the power of the message, then the power  *)
(* of the signature.                                                        *)
SignatureAgrees ==
  power # Idle /\ question.kind = "signature" =>
    /\ PowerGoes(power)
    /\ Value(power.modulus) = Key.n
    /\ round = "power" => Value(power.base) = Message /\ Value(power.exponent) = Key.d
    /\ round = "verify" => Value(power.base) = Signature /\ Value(power.exponent) = Key.e

LEMMA SignatureAsked ==
  ASSUME LoopsInv, Sign
  PROVE  PowerAgrees' /\ SignatureAgrees'
<1> DEFINE b == FromBytes(EmsaPkcs1V15Encode(question.digest))
           e == FromNumber(Key.d)
           n == FromNumber(Key.n)
<1>1. /\ question \in Questions /\ question.kind = "signature" /\ question' = question
      /\ round' = "power" /\ power' = StartPower(b, e, n)
  BY DEF LoopsInv, Sign
<1>2. /\ IsNumber(b) /\ IsNumber(e) /\ IsNumber(n) /\ n # Zero
      /\ Value(b) = Message /\ Value(e) = Key.d /\ Value(n) = Key.n
  BY <1>1, SignatureQuestion, KeyIs DEF Message
<1>3. Message' = Message
  BY <1>1 DEF Message
<1> HIDE DEF b, e, n, Message
<1>4. /\ power'.base = b /\ power'.exponent = e /\ power'.modulus = n /\ power'.left <= BitLen(e)
      /\ PowerGoes(power')
  BY <1>1, <1>2, StartPowerIs, PowerStarts
<1> QED
  BY <1>1, <1>2, <1>3, <1>4 DEF PowerAgrees, SignatureAgrees, PowerGoes

LEMMA SignatureVerified ==
  ASSUME LoopsInv, PowerAgrees, SignatureAgrees, Verify
  PROVE  PowerAgrees' /\ SignatureAgrees'
<1> DEFINE bytes == ToBytes(power.result, EmLength)
           b == FromBytes(bytes)
           e == FromNumber(Key.e)
           n == FromNumber(Key.n)
<1>1. /\ question \in Questions /\ question.kind = "signature" /\ question' = question
      /\ power # Idle /\ power \in PowerStates /\ power.left = 0 /\ round = "power"
      /\ round' = "verify" /\ power' = StartPower(b, e, n)
  BY DEF LoopsInv, Verify
<1>2. /\ PowerGoes(power) /\ Value(power.modulus) = Key.n
      /\ Value(power.base) = Message /\ Value(power.exponent) = Key.d
  BY <1>1 DEF SignatureAgrees
<1>3. Value(power.result) = Signature
  BY <1>1, <1>2, PowerEnds DEF Signature
<1>4. Signature < TwoTo[ByteBits * EmLength]
  <2>1. Signature \in 0 .. Key.n - 1 /\ Key.n \in 0 .. TwoTo[ByteBits * EmLength] - 1
    BY <1>1, SignatureQuestion, KeyAssumption DEF InBytes
  <2>2. TwoTo[ByteBits * EmLength] \in Nat
    BY KeyAssumption, LimbsAre, ProductNat, TwoToStep
  <2> HIDE DEF Signature
  <2> QED
    BY <2>1, <2>2
<1>5. IsNumber(b) /\ Value(b) = Signature
  <2>1. IsNumber(power.result) /\ EmLength \in Nat
    BY <1>1, PowerValues, KeyAssumption
  <2>2. Writes(bytes, Signature)
    BY <1>3, <1>4, <2>1, BytesAreWritten
  <2> HIDE DEF bytes
  <2> QED
    BY <2>2, BytesAreRead
<1>6. IsNumber(e) /\ IsNumber(n) /\ n # Zero /\ Value(e) = Key.e /\ Value(n) = Key.n
  BY KeyIs
<1>7. Signature' = Signature
  BY <1>1 DEF Signature, Message
<1> HIDE DEF b, e, n, Signature
<1>8. /\ power'.base = b /\ power'.exponent = e /\ power'.modulus = n /\ power'.left <= BitLen(e)
      /\ PowerGoes(power')
  BY <1>1, <1>5, <1>6, StartPowerIs, PowerStarts
<1> QED
  BY <1>1, <1>5, <1>6, <1>7, <1>8 DEF PowerAgrees, SignatureAgrees, PowerGoes

LEMMA SignatureStepped ==
  ASSUME LoopsInv, PowerAgrees, SignatureAgrees, PowerStep, question.kind = "signature"
  PROVE  PowerAgrees' /\ SignatureAgrees'
<1>1. /\ power # Idle /\ power \in PowerStates /\ power.left > 0 /\ power.left <= BitLen(power.exponent)
      /\ power' = PowerRound(power) /\ question' = question /\ round' = round
  BY DEF LoopsInv, PowerStep, PowerAgrees
<1>2. /\ PowerGoes(power) /\ Value(power.modulus) = Key.n
      /\ round = "power" => Value(power.base) = Message /\ Value(power.exponent) = Key.d
      /\ round = "verify" => Value(power.base) = Signature /\ Value(power.exponent) = Key.e
  BY <1>1 DEF SignatureAgrees
<1>3. /\ power'.base = power.base /\ power'.exponent = power.exponent /\ power'.modulus = power.modulus
      /\ power'.left = power.left - 1
  BY <1>1, PowerRoundIs
<1>4. PowerGoes(power')
  BY <1>1, <1>2, PowerGoesOn
<1>5. power'.left <= BitLen(power'.exponent)
  <2>1. BitLen(power.exponent) \in Nat /\ power.left \in Nat
    BY <1>1, PowerValues
  <2> QED
    BY <1>1, <1>3, <2>1
<1>6. Message' = Message /\ Signature' = Signature
  BY <1>1 DEF Signature, Message
<1> HIDE DEF Signature, Message
<1> QED
  BY <1>1, <1>2, <1>3, <1>4, <1>5, <1>6 DEF PowerAgrees, SignatureAgrees, PowerGoes

LEMMA BytesUnique ==
  ASSUME NEW a \in Seq(0 .. TwoTo[ByteBits] - 1), NEW b \in Seq(0 .. TwoTo[ByteBits] - 1),
         NEW v, Writes(a, v), Writes(b, v), Len(a) = Len(b)
  PROVE  a = b
<1>1. Len(a) \in Nat
  OBVIOUS
<1>2. ASSUME NEW i \in 1 .. Len(a) PROVE a[i] = b[i]
  <2> DEFINE place == Len(a) + 1 - i
  <2>1. place \in 1 .. Len(a) /\ Len(a) + 1 - place = i
    BY <1>1
  <2> HIDE DEF place
  <2>2. ByteAt(a, place) = ByteOf(v, place) /\ ByteAt(b, place) = ByteOf(v, place)
    BY <2>1 DEF Writes
  <2> QED
    BY <2>1, <2>2 DEF ByteAt
<1> QED
  BY <1>2

(* What is verified is the encoding that was signed.                        *)
LEMMA SignatureFinished ==
  ASSUME LoopsInv, SignatureAgrees, Verified, question.kind = "signature"
  PROVE  Rounds!AnswerAtOnce
<1> DEFINE em == EmsaPkcs1V15Encode(question.digest)
           bytes == ToBytes(power.result, EmLength)
<1>1. /\ question \in Questions /\ answer = <<>>
      /\ power # Idle /\ power \in PowerStates /\ power.left = 0 /\ round = "verify"
      /\ answer' = <<VerifyEm(bytes, question.claimed)>>
      /\ UNCHANGED <<question, power, euclid>>
  BY DEF LoopsInv, Verified, Finish
<1>2. /\ Encodable(question.digest) /\ Len(question.claimed) = Len(question.digest)
      /\ em \in Seq(0 .. TwoTo[ByteBits] - 1) /\ Writes(em, Message)
      /\ Message \in 0 .. Key.n - 1
      /\ RoundProofs!Power(Signature, Key.e, Key.n) = Message
  BY <1>1, SignatureQuestion
<1>3. Value(power.result) = Message
  <2>1. /\ PowerGoes(power) /\ Value(power.modulus) = Key.n
        /\ Value(power.base) = Signature /\ Value(power.exponent) = Key.e
    BY <1>1 DEF SignatureAgrees
  <2> QED
    BY <1>1, <1>2, <2>1, PowerEnds
<1>4. Message < TwoTo[ByteBits * EmLength]
  <2>1. Key.n \in 0 .. TwoTo[ByteBits * EmLength] - 1
    BY KeyAssumption DEF InBytes
  <2>2. TwoTo[ByteBits * EmLength] \in Nat
    BY KeyAssumption, LimbsAre, ProductNat, TwoToStep
  <2> HIDE DEF Message
  <2> QED
    BY <1>2, <2>1, <2>2
<1>5. bytes = em
  <2>1. IsNumber(power.result) /\ EmLength \in Nat
    BY <1>1, PowerValues, KeyAssumption
  <2>2. Writes(bytes, Message) /\ bytes \in Seq(0 .. TwoTo[ByteBits] - 1) /\ Len(bytes) = EmLength
    BY <1>3, <1>4, <2>1, BytesAreWritten
  <2>3. Len(em) = EmLength
    BY <1>2, EncodedParts
  <2> HIDE DEF bytes, em, Message
  <2> QED
    BY <1>2, <2>2, <2>3, BytesUnique
<1>6. answer' = <<IF question.digest = question.claimed THEN "Ok" ELSE "DigestMismatch">>
  BY <1>1, <1>2, <1>5, EncodingIsOfOneDigest
<1>7. PowerBar' = PowerBar /\ EuclidBar' = EuclidBar
  BY <1>1 DEF PowerBar, EuclidBar
<1>8. Rounds!Right = {IF question.digest = question.claimed THEN "Ok" ELSE "DigestMismatch"}
  BY DEF Rounds!Right
<1>9. Rounds!Answer
  BY <1>1, <1>6, <1>8 DEF Rounds!Answer
<1> QED
  BY <1>1, <1>7, <1>9 DEF Rounds!AnswerAtOnce, PowerBar, EuclidBar

RoundAgrees == (round = "verify" => question.kind = "signature") /\ round # "prime"

(* What ties the loops to the rounds, for every question but for a prime.   *)
Tied == LoopsInv /\ PowerAgrees /\ SignatureAgrees /\ RoundAgrees /\ question.kind # "prime"

LEMMA TiedInit == RsaInit /\ question.kind # "prime" => Tied
BY LoopsInit DEF RsaInit, Tied, PowerAgrees, SignatureAgrees, RoundAgrees, Idle

(* Each step of the loops is a round, or none.                              *)
LEMMA TiedNext ==
  Tied /\ [RsaNext]_rsaVars => Tied' /\ (Rounds!NextRounds \/ UNCHANGED Rounds!roundVars)
<1> SUFFICES ASSUME Tied, [RsaNext]_rsaVars
             PROVE  Tied' /\ (Rounds!NextRounds \/ UNCHANGED Rounds!roundVars)
  OBVIOUS
<1>1. LoopsInv /\ PowerAgrees /\ SignatureAgrees /\ RoundAgrees /\ question.kind # "prime"
  BY DEF Tied
<1>2. LoopsInv' /\ RoundAgrees'
  <2>1. RoundAgrees'
    BY <1>1 DEF RoundAgrees, RsaNext, rsaVars, AskPower, Sign, PowerStep, PowerDone, Verify, Verified,
           AskInverse, InverseStep, InverseDone, AskPrime, PrimeStep, Finish
  <2> QED
    BY <1>1, <2>1, LoopsNext
<1>3. question' = question
  BY DEF RsaNext, rsaVars, AskPower, Sign, PowerStep, PowerDone, Verify, Verified, AskInverse,
         InverseStep, InverseDone, AskPrime, PrimeStep
<1>4. ASSUME UNCHANGED <<answer, euclid>>, question.kind = "signature"
      PROVE  UNCHANGED Rounds!roundVars
  BY <1>3, <1>4 DEF Rounds!roundVars
<1>5. ASSUME UNCHANGED power, round' = round \/ round' = "done"
      PROVE  PowerAgrees' /\ SignatureAgrees'
  BY <1>1, <1>3, <1>5 DEF PowerAgrees, SignatureAgrees, PowerGoes, Message, Signature
<1>6. ASSUME power = Idle, UNCHANGED power PROVE PowerAgrees' /\ SignatureAgrees'
  BY <1>6 DEF PowerAgrees, SignatureAgrees
<1>7. CASE AskPower
  <2>1. SignatureAgrees'
    BY <1>3, <1>7 DEF AskPower, SignatureAgrees
  <2>2. PowerAgrees' /\ Rounds!AskPower
    BY <1>1, <1>7, PowerAsked
  <2> QED
    BY <1>1, <1>2, <1>3, <2>1, <2>2 DEF Tied, Rounds!NextRounds
<1>8. CASE Sign
  <2>1. question.kind = "signature" /\ UNCHANGED <<answer, euclid>>
    BY <1>8 DEF Sign
  <2> QED
    BY <1>1, <1>2, <1>3, <1>4, <1>8, <2>1, SignatureAsked DEF Tied
<1>9. CASE PowerStep
  <2>1. power # Idle /\ question.kind \in {"power", "signature"} /\ UNCHANGED <<answer, euclid>>
    BY <1>1, <1>9 DEF LoopsInv, PowerStep
  <2>2. CASE question.kind = "power"
    <3>1. SignatureAgrees'
      BY <1>3, <2>2 DEF SignatureAgrees
    <3>2. PowerAgrees' /\ Rounds!PowerStep
      BY <1>1, <1>9, <2>2, PowerStepped
    <3> QED
      BY <1>1, <1>2, <1>3, <3>1, <3>2 DEF Tied, Rounds!NextRounds
  <2>3. CASE question.kind = "signature"
    BY <1>1, <1>2, <1>3, <1>4, <1>9, <2>1, <2>3, SignatureStepped DEF Tied
  <2> QED
    BY <2>1, <2>2, <2>3
<1>10. CASE PowerDone
  <2>1. PowerAgrees' /\ SignatureAgrees'
    BY <1>5, <1>10 DEF PowerDone, Finish
  <2> QED
    BY <1>1, <1>2, <1>3, <1>10, <2>1, PowerFinished DEF Tied, Rounds!NextRounds
<1>11. CASE Verify
  <2>1. question.kind = "signature" /\ UNCHANGED <<answer, euclid>>
    BY <1>11 DEF Verify
  <2> QED
    BY <1>1, <1>2, <1>3, <1>4, <1>11, <2>1, SignatureVerified DEF Tied
<1>12. CASE Verified
  <2>1. PowerAgrees' /\ SignatureAgrees'
    BY <1>5, <1>12 DEF Verified, Finish
  <2>2. CASE question.kind = "signature"
    BY <1>1, <1>2, <1>3, <1>12, <2>1, <2>2, SignatureFinished DEF Tied, Rounds!NextRounds
  <2>3. CASE question.kind # "signature"
    BY <1>1, <1>12, <2>3 DEF RoundAgrees, Verified
  <2> QED
    BY <2>2, <2>3
<1>13. CASE AskInverse
  <2>1. PowerAgrees' /\ SignatureAgrees'
    BY <1>1, <1>6, <1>13 DEF LoopsInv, AskInverse
  <2> QED
    BY <1>1, <1>2, <1>3, <1>13, <2>1, InverseAsked DEF Tied, Rounds!NextRounds
<1>14. CASE InverseStep
  <2>1. PowerAgrees' /\ SignatureAgrees'
    BY <1>5, <1>14 DEF InverseStep
  <2> QED
    BY <1>1, <1>2, <1>3, <1>14, <2>1, InverseStepped DEF Tied, Rounds!NextRounds
<1>15. CASE InverseDone
  <2>1. PowerAgrees' /\ SignatureAgrees'
    BY <1>5, <1>15 DEF InverseDone, Finish
  <2> QED
    BY <1>1, <1>2, <1>3, <1>15, <2>1, InverseFinished DEF Tied, Rounds!NextRounds
<1>16. CASE AskPrime
  BY <1>1, <1>16 DEF AskPrime
<1>17. CASE PrimeStep
  <2>1. FALSE
    BY <1>1, <1>17 DEF PrimeStep, RoundAgrees
  <2> QED
    BY <2>1
<1>18. CASE UNCHANGED rsaVars
  <2>1. PowerAgrees' /\ SignatureAgrees'
    BY <1>5, <1>18 DEF rsaVars
  <2> QED
    BY <1>1, <1>2, <1>3, <1>18, <2>1 DEF Tied, rsaVars, Rounds!roundVars
<1> QED
  BY <1>7, <1>8, <1>9, <1>10, <1>11, <1>12, <1>13, <1>14, <1>15, <1>16, <1>17, <1>18 DEF RsaNext

LEMMA TiedFrom == RsaInit => Rounds!InitRounds
BY DEF RsaInit, Rounds!InitRounds, Rounds!Init, Rounds!Idle, Idle

(* The loops compute what is true of numbers, of any size, with limbs of    *)
(* any width: every round of mod_pow and of mod_inverse is the one of       *)
(* numbers, what they answer is the power and an inverse where there is     *)
(* one, and what was signed is verified for its digest and for no other.    *)
(* (Whether Miller and Rabin's test is right for its few bases no theorem   *)
(* says: questions for a prime are left out.)                               *)
THEOREM LoopsImplementNumbers ==
  RsaSpec /\ question.kind # "prime" => ImplementsNumbers
<1>1. RsaInit /\ question.kind # "prime" => Tied
  BY TiedInit
<1>2. Tied /\ [RsaNext]_rsaVars => Tied' /\ [Rounds!NextRounds]_(Rounds!roundVars)
  BY TiedNext
<1>3. RsaInit => Rounds!InitRounds
  BY TiedFrom
<1>4. RsaSpec /\ question.kind # "prime" => Rounds!SpecRounds
  BY <1>1, <1>2, <1>3, PTL DEF RsaSpec, Rounds!SpecRounds
<1>5. RoundProofs!QuestionsTyped
  BY QuestionsAssumption DEF Rounds!QuestionsTyped, RoundProofs!QuestionsTyped
<1>6. Rounds!InitRounds <=> RoundProofs!InitRounds
  BY DEF Rounds!InitRounds, RoundProofs!InitRounds, Rounds!Init, RoundProofs!Init, Rounds!Idle, RoundProofs!Idle
<1>7. [Rounds!NextRounds]_(Rounds!roundVars) <=> [RoundProofs!NextRounds]_(RoundProofs!roundVars)
  BY DEF Rounds!NextRounds, RoundProofs!NextRounds, Rounds!roundVars, RoundProofs!roundVars,
         Rounds!Idle, RoundProofs!Idle, Rounds!Fresh, RoundProofs!Fresh,
         Rounds!AskPower, RoundProofs!AskPower, Rounds!PowerStep, RoundProofs!PowerStep,
         Rounds!PowerDone, RoundProofs!PowerDone, Rounds!AskInverse, RoundProofs!AskInverse,
         Rounds!Difference, RoundProofs!Difference, Rounds!InverseStep, RoundProofs!InverseStep,
         Rounds!InverseDone, RoundProofs!InverseDone, Rounds!AnswerAtOnce, RoundProofs!AnswerAtOnce,
         Rounds!Answer, RoundProofs!Answer, Rounds!Right, RoundProofs!Right,
         Rounds!Power, RoundProofs!Power, Rounds!Powers, RoundProofs!Powers,
         Rounds!Inverses, RoundProofs!Inverses, Rounds!IsPrime, RoundProofs!IsPrime,
         Rounds!PrimeFrom, RoundProofs!PrimeFrom
<1>8. RoundProofs!SpecRounds => RoundProofs!Spec
  BY <1>5, RoundProofs!RoundsAreRight
<1>9. RoundProofs!Init <=> Rounds!Init
  BY DEF RoundProofs!Init, Rounds!Init
<1>10. [RoundProofs!Answer]_<<question, answer>> <=> [Rounds!Answer]_<<question, answer>>
  BY DEF Rounds!Answer, RoundProofs!Answer, Rounds!Right, RoundProofs!Right,
         Rounds!Power, RoundProofs!Power, Rounds!Powers, RoundProofs!Powers,
         Rounds!Inverses, RoundProofs!Inverses, Rounds!IsPrime, RoundProofs!IsPrime,
         Rounds!PrimeFrom, RoundProofs!PrimeFrom
<1>11. Rounds!SpecRounds => Rounds!Spec
  BY <1>6, <1>7, <1>8, <1>9, <1>10, PTL
  DEF Rounds!SpecRounds, RoundProofs!SpecRounds, Rounds!Spec, RoundProofs!Spec
<1> QED
  BY <1>4, <1>11, PTL DEF ImplementsNumbers
=============================================================================
