----------------------------- MODULE ModesProofs -----------------------------
(***************************************************************************)
(* What holds of the modes of operation, and of reading an NCA, for every  *)
(* cipher, size of a block, key, sector and length of the data.            *)
(***************************************************************************)
EXTENDS NcaContent, WellFoundedInduction, TLAPS

LEMMA SizePositive == BlockSize \in Nat /\ BlockSize >= 2 /\ ByteValues \in Nat /\ ByteValues > BlockSize
BY BlockAssumption DEF Bytes

LEMMA ProductGrows ==
  ASSUME NEW a \in Int, NEW b \in Int, NEW c \in Nat, a <= b
  PROVE  a * c <= b * c
<1>1. 0 <= (b - a) * c
  OBVIOUS
<1>2. (b - a) * c = b * c - a * c /\ a * c \in Int /\ b * c \in Int
  OBVIOUS
<1> QED
  BY <1>1, <1>2

(* What is divided into a quotient and a remainder is so divided once.      *)
LEMMA DivisionUnique ==
  ASSUME NEW n \in Nat \ {0}, NEW k \in Int, NEW r \in 0 .. n - 1
  PROVE  (k * n + r) \div n = k /\ (k * n + r) % n = r
<1> DEFINE a == k * n + r
           q == a \div n
           s == a % n
<1>1. a \in Int /\ q \in Int /\ s \in 0 .. n - 1 /\ a = q * n + s
  OBVIOUS
<1>2. a = k * n + r
  OBVIOUS
<1> HIDE DEF a, q, s
<1>3. (k - q) * n = s - r
  <2>1. (k - q) * n = k * n - q * n /\ k * n \in Int /\ q * n \in Int
    BY <1>1
  <2> QED
    BY <1>1, <1>2, <2>1
<1>4. k - q = 0
  <2>1. s - r < n /\ r - s < n
    BY <1>1
  <2>2. CASE k - q >= 1
    <3>1. 1 * n <= (k - q) * n
      BY <1>1, <2>2, ProductGrows
    <3> QED
      BY <1>1, <1>3, <2>1, <3>1
  <2>3. CASE k - q <= -1
    <3>1. (k - q) * n <= -1 * n
      BY <1>1, <2>3, ProductGrows
    <3> QED
      BY <1>1, <1>3, <2>1, <3>1
  <2> QED
    BY <1>1, <2>2, <2>3
<1>5. q = k /\ s = r
  <2>1. q = k
    BY <1>1, <1>4
  <2> QED
    BY <1>1, <1>2, <2>1
<1> QED
  BY <1>5 DEF a, q, s

(* Byte j of block i is byte i * BlockSize + j,                             *)
LEMMA PlaceOfByte ==
  ASSUME NEW i \in Nat, NEW j \in 1 .. BlockSize, NEW p, p = i * BlockSize + j
  PROVE  /\ p \in Nat \ {0}
         /\ (p - 1) \div BlockSize = i /\ ((p - 1) % BlockSize) + 1 = j
<1>1. BlockSize \in Nat \ {0} /\ j - 1 \in 0 .. BlockSize - 1 /\ i \in Int /\ i * BlockSize \in Nat
  BY SizePositive
<1>2. (i * BlockSize + (j - 1)) \div BlockSize = i /\ (i * BlockSize + (j - 1)) % BlockSize = j - 1
  BY <1>1, DivisionUnique
<1>3. p - 1 = i * BlockSize + (j - 1)
  BY <1>1
<1> QED
  BY <1>1, <1>2, <1>3

(* and every byte has such a place.                                         *)
LEMMA ByteHasPlace ==
  ASSUME NEW p \in Nat \ {0}
  PROVE  /\ (p - 1) \div BlockSize \in Nat
         /\ ((p - 1) % BlockSize) + 1 \in 1 .. BlockSize
         /\ p = ((p - 1) \div BlockSize) * BlockSize + (((p - 1) % BlockSize) + 1)
<1> DEFINE q == (p - 1) \div BlockSize
           r == (p - 1) % BlockSize
<1>1. BlockSize \in Nat \ {0} /\ p - 1 \in Nat
  BY SizePositive
<1>2. q \in Int /\ r \in 0 .. BlockSize - 1 /\ p - 1 = q * BlockSize + r
  BY <1>1
<1>3. q \in Nat
  BY <1>1
<1> HIDE DEF q, r
<1>4. q * BlockSize \in Nat
  BY <1>1, <1>3
<1>5. r + 1 \in 1 .. BlockSize /\ p = q * BlockSize + (r + 1)
  BY <1>1, <1>2, <1>4
<1> QED
  BY <1>3, <1>5 DEF q, r

(* The blocks of data are those that begin within it.                       *)
LEMMA BlocksBegin ==
  ASSUME NEW data, Len(data) \in Nat
  PROVE  /\ Blocks(data) \in Nat
         /\ \A i \in Nat : i < Blocks(data) <=> i * BlockSize < Len(data)
<1> DEFINE n == Len(data)
           q == (n + BlockSize - 1) \div BlockSize
           r == (n + BlockSize - 1) % BlockSize
<1>1. BlockSize \in Nat \ {0} /\ n \in Nat /\ n + BlockSize - 1 \in Nat
  BY SizePositive
<1>2. q \in Nat /\ r \in 0 .. BlockSize - 1 /\ n + BlockSize - 1 = q * BlockSize + r
  BY <1>1
<1>3. Blocks(data) = q
  BY DEF Blocks
<1> HIDE DEF n, q, r
<1>4. ASSUME NEW i \in Nat PROVE i < q <=> i * BlockSize < n
  <2>1. i * BlockSize \in Nat /\ q * BlockSize \in Nat /\ (i + 1) * BlockSize = i * BlockSize + BlockSize
    BY <1>1, <1>2
  <2>2. ASSUME i < q PROVE i * BlockSize < n
    <3>1. i + 1 \in Int /\ q \in Int /\ i + 1 <= q
      BY <1>2, <2>2
    <3>2. (i + 1) * BlockSize <= q * BlockSize
      BY <1>1, <3>1, ProductGrows
    <3> QED
      BY <1>1, <1>2, <2>1, <3>2
  <2>3. ASSUME ~(i < q) PROVE ~(i * BlockSize < n)
    <3>1. i \in Int /\ q \in Int /\ q <= i
      BY <1>2, <2>3
    <3>2. q * BlockSize <= i * BlockSize
      BY <1>1, <3>1, ProductGrows
    <3> QED
      BY <1>1, <1>2, <2>1, <3>2
  <2> QED
    BY <2>2, <2>3
<1> QED
  BY <1>2, <1>3, <1>4 DEF n

(* How much of data block i has.                                            *)
Extent(data, i) ==
  IF Len(data) - i * BlockSize < BlockSize THEN Len(data) - i * BlockSize ELSE BlockSize

LEMMA BlockExtent ==
  ASSUME NEW data, NEW i, Len(data) \in Nat, i \in Nat
  PROVE  /\ Block(data, i) = [j \in 1 .. Extent(data, i) |-> data[i * BlockSize + j]]
         /\ Extent(data, i) \in Int /\ Extent(data, i) <= BlockSize
         /\ \A j \in 1 .. Extent(data, i) :
              j \in 1 .. BlockSize /\ i * BlockSize + j \in 1 .. Len(data)
<1>1. BlockSize \in Nat /\ i * BlockSize \in Nat
  BY SizePositive
<1> QED
  BY <1>1 DEF Block, Extent

(* A block of what is joined is what was joined there.                      *)
LEMMA BlockOfJoined ==
  ASSUME NEW n \in Nat, NEW results, NEW i \in Nat
  PROVE  /\ Len(Joined(n, results)) = n
         /\ Block(Joined(n, results), i)
              = [j \in 1 .. Extent(Joined(n, results), i) |-> results[i][j]]
<1> DEFINE data == Joined(n, results)
<1>1. data = [p \in 1 .. n |-> results[(p - 1) \div BlockSize][((p - 1) % BlockSize) + 1]]
  BY DEF Joined
<1>2. Len(data) = n
  BY <1>1
<1> HIDE DEF data
<1>3. /\ Block(data, i) = [j \in 1 .. Extent(data, i) |-> data[i * BlockSize + j]]
      /\ \A j \in 1 .. Extent(data, i) : j \in 1 .. BlockSize /\ i * BlockSize + j \in 1 .. n
  BY <1>2, BlockExtent
<1>4. ASSUME NEW j \in 1 .. Extent(data, i)
      PROVE  data[i * BlockSize + j] = results[i][j]
  <2>1. j \in 1 .. BlockSize /\ i * BlockSize + j \in 1 .. n
    BY <1>3
  <2>2. PICK p \in 1 .. n : p = i * BlockSize + j
    BY <2>1
  <2>3. (p - 1) \div BlockSize = i /\ ((p - 1) % BlockSize) + 1 = j
    BY <2>1, <2>2, PlaceOfByte
  <2>4. data[p] = results[(p - 1) \div BlockSize][((p - 1) % BlockSize) + 1]
    BY <1>1
  <2>5. data[p] = results[i][j]
    BY <2>3, <2>4, Zenon
  <2> QED
    BY <2>2, <2>5
<1>5. Block(data, i) = [j \in 1 .. Extent(data, i) |-> results[i][j]]
  BY <1>3, <1>4
<1> QED
  BY <1>2, <1>5 DEF data

LEMMA WholeBlock ==
  ASSUME NEW data \in Seq(Bytes), NEW i \in Nat, (i + 1) * BlockSize <= Len(data)
  PROVE  Extent(data, i) = BlockSize /\ Block(data, i) \in FullBlocks
<1>1. BlockSize \in Nat /\ i * BlockSize \in Nat /\ (i + 1) * BlockSize = i * BlockSize + BlockSize
  BY SizePositive
<1>2. Len(data) \in Nat
  OBVIOUS
<1>3. Extent(data, i) = BlockSize
  BY <1>1, <1>2 DEF Extent
<1>4. /\ Block(data, i) = [j \in 1 .. BlockSize |-> data[i * BlockSize + j]]
      /\ \A j \in 1 .. BlockSize : i * BlockSize + j \in 1 .. Len(data)
  BY <1>2, <1>3, BlockExtent
<1> QED
  BY <1>3, <1>4 DEF FullBlocks

(* The blocks of a sequence joined are the sequence.                        *)
LEMMA JoinedBlocks ==
  ASSUME NEW data, data = [p \in 1 .. Len(data) |-> data[p]], Len(data) \in Nat, NEW results,
         \A i \in Indices(data) : \A j \in 1 .. Extent(data, i) :
           results[i][j] = Block(data, i)[j]
  PROVE  Joined(Len(data), results) = data
<1>1. ASSUME NEW p \in 1 .. Len(data)
      PROVE  results[(p - 1) \div BlockSize][((p - 1) % BlockSize) + 1] = data[p]
  <2> DEFINE i == (p - 1) \div BlockSize
             j == ((p - 1) % BlockSize) + 1
  <2>1. i \in Nat /\ j \in 1 .. BlockSize /\ p = i * BlockSize + j
    BY ByteHasPlace
  <2> HIDE DEF i, j
  <2>2. i * BlockSize \in Nat /\ BlockSize \in Nat
    BY <2>1, SizePositive
  <2>3. i * BlockSize < Len(data) /\ j <= Len(data) - i * BlockSize
    BY <2>1, <2>2
  <2>4. i \in Indices(data)
    BY <2>1, <2>3, BlocksBegin DEF Indices
  <2>5. j \in 1 .. Extent(data, i)
    BY <2>1, <2>2, <2>3 DEF Extent
  <2>6. Block(data, i)[j] = data[i * BlockSize + j]
    BY <2>1, <2>5, BlockExtent
  <2>7. results[i][j] = data[p]
    BY <2>1, <2>4, <2>5, <2>6
  <2> QED
    BY <2>7 DEF i, j
<1> QED
  BY <1>1 DEF Joined

(* What is joined is bytes, when what is joined has a byte everywhere.      *)
LEMMA JoinedTyped ==
  ASSUME NEW n \in Nat, NEW results,
         \A i \in Nat : i * BlockSize < n =>
           \A j \in 1 .. BlockSize : i * BlockSize + j <= n => results[i][j] \in Bytes
  PROVE  Joined(n, results) \in Seq(Bytes)
<1>1. ASSUME NEW p \in 1 .. n
      PROVE  results[(p - 1) \div BlockSize][((p - 1) % BlockSize) + 1] \in Bytes
  <2> DEFINE i == (p - 1) \div BlockSize
             j == ((p - 1) % BlockSize) + 1
  <2>1. i \in Nat /\ j \in 1 .. BlockSize /\ p = i * BlockSize + j
    BY ByteHasPlace
  <2> HIDE DEF i, j
  <2>2. i * BlockSize \in Nat /\ BlockSize \in Nat
    BY <2>1, SizePositive
  <2>3. results[i][j] \in Bytes
    BY <2>1, <2>2
  <2> QED
    BY <2>3 DEF i, j
<1> QED
  BY <1>1 DEF Joined
-----------------------------------------------------------------------------
LEMMA MaskedTyped ==
  ASSUME NEW a \in FullBlocks, NEW mask \in FullBlocks
  PROVE  Masked(a, mask) \in FullBlocks
BY XorAssumption DEF Masked, FullBlocks

LEMMA MaskedTwice ==
  ASSUME NEW a \in FullBlocks, NEW mask \in FullBlocks
  PROVE  Masked(Masked(a, mask), mask) = a
BY XorAssumption DEF Masked, FullBlocks

-----------------------------------------------------------------------------
(* A byte of a block, whole or not, masked twice is the byte.               *)
LEMMA ByteMasked ==
  ASSUME NEW data \in Seq(Bytes), NEW i \in Nat, NEW j \in 1 .. Extent(data, i)
  PROVE  /\ Block(data, i)[j] \in Bytes
         /\ Block(data, i)[j] = data[i * BlockSize + j]
         /\ j \in 1 .. BlockSize /\ j \in DOMAIN Block(data, i)
<1>1. Len(data) \in Nat
  OBVIOUS
<1>2. /\ Block(data, i) = [k \in 1 .. Extent(data, i) |-> data[i * BlockSize + k]]
      /\ j \in 1 .. BlockSize /\ i * BlockSize + j \in 1 .. Len(data)
  BY <1>1, BlockExtent
<1>3. data[i * BlockSize + j] \in Bytes
  BY <1>2
<1> QED
  BY <1>2, <1>3

LEMMA SequenceIsItsBytes ==
  ASSUME NEW data \in Seq(Bytes)
  PROVE  Len(data) \in Nat /\ data = [p \in 1 .. Len(data) |-> data[p]]
OBVIOUS

(* An index of a block of data is that of a block that begins in it.        *)
LEMMA IndexBegins ==
  ASSUME NEW data, Len(data) \in Nat, NEW i
  PROVE  i \in Indices(data) <=> i \in Nat /\ i * BlockSize < Len(data)
<1>1. Blocks(data) \in Nat
  BY BlocksBegin
<1>2. i \in Indices(data) <=> i \in Nat /\ i < Blocks(data)
  BY <1>1 DEF Indices
<1> QED
  BY <1>2, BlocksBegin

LEMMA SameIndices ==
  ASSUME NEW data, NEW other, Len(data) = Len(other)
  PROVE  Indices(data) = Indices(other) /\ \A i : Extent(data, i) = Extent(other, i)
BY DEF Indices, Blocks, Extent

(* A stream applied to data gives as many bytes,                            *)
LEMMA StreamedTyped ==
  ASSUME NEW key \in FullBlocks, NEW data \in Seq(Bytes), NEW counters,
         \A i \in Indices(data) : counters[i] \in FullBlocks
  PROVE  /\ Streamed(key, data, counters) \in Seq(Bytes)
         /\ Len(Streamed(key, data, counters)) = Len(data)
<1> DEFINE results == [i \in Indices(data) |-> Masked(Block(data, i), Cipher(key, counters[i]))]
<1>1. Len(data) \in Nat
  OBVIOUS
<1>2. ASSUME NEW i \in Nat, i * BlockSize < Len(data),
             NEW j \in 1 .. BlockSize, i * BlockSize + j <= Len(data)
      PROVE  results[i][j] \in Bytes
  <2>1. i \in Indices(data)
    BY <1>1, <1>2, IndexBegins
  <2>2. j \in 1 .. Extent(data, i)
    <3>1. i * BlockSize \in Nat /\ BlockSize \in Nat
      BY SizePositive
    <3> QED
      BY <1>1, <1>2, <3>1 DEF Extent
  <2>3. Block(data, i)[j] \in Bytes /\ j \in DOMAIN Block(data, i)
    BY <2>2, ByteMasked
  <2>4. Cipher(key, counters[i])[j] \in Bytes
    <3>1. Cipher(key, counters[i]) \in FullBlocks
      BY <2>1, CipherAssumption
    <3> QED
      BY <3>1 DEF FullBlocks
  <2> QED
    BY <2>1, <2>3, <2>4, XorAssumption DEF Masked
<1>3. Streamed(key, data, counters) = Joined(Len(data), results)
  BY DEF Streamed
<1> HIDE DEF results
<1> QED
  BY <1>1, <1>2, <1>3, JoinedTyped, BlockOfJoined

(* and applied again gives the data back.                                   *)
LEMMA StreamedTwice ==
  ASSUME NEW key \in FullBlocks, NEW data \in Seq(Bytes), NEW counters,
         \A i \in Indices(data) : counters[i] \in FullBlocks
  PROVE  Streamed(key, Streamed(key, data, counters), counters) = data
<1> DEFINE once == [i \in Indices(data) |-> Masked(Block(data, i), Cipher(key, counters[i]))]
           stream == Joined(Len(data), once)
           twice == [i \in Indices(data) |-> Masked(Block(stream, i), Cipher(key, counters[i]))]
<1>1. Len(data) \in Nat /\ data = [p \in 1 .. Len(data) |-> data[p]]
  BY SequenceIsItsBytes
<1>2. Len(stream) = Len(data)
  BY <1>1, BlockOfJoined
<1>3. Indices(stream) = Indices(data) /\ \A i : Extent(stream, i) = Extent(data, i)
  BY <1>2, SameIndices
<1>4. ASSUME NEW i \in Indices(data), NEW j \in 1 .. Extent(data, i)
      PROVE  twice[i][j] = Block(data, i)[j]
  <2>1. i \in Nat
    BY <1>1, IndexBegins
  <2>2. /\ Block(data, i)[j] \in Bytes /\ j \in DOMAIN Block(data, i)
        /\ j \in 1 .. BlockSize
    BY <2>1, ByteMasked
  <2>3. Cipher(key, counters[i])[j] \in Bytes
    <3>1. Cipher(key, counters[i]) \in FullBlocks
      BY CipherAssumption
    <3> QED
      BY <2>2, <3>1 DEF FullBlocks
  <2>4. once[i][j] = ByteXor(Block(data, i)[j], Cipher(key, counters[i])[j])
    BY <2>2 DEF Masked
  <2> HIDE DEF once
  <2>5. Block(stream, i) = [k \in 1 .. Extent(stream, i) |-> once[i][k]]
    BY <1>1, <2>1, BlockOfJoined
  <2> HIDE DEF stream
  <2>6. Block(stream, i)[j] = once[i][j] /\ j \in DOMAIN Block(stream, i)
    BY <1>3, <2>5
  <2>7. twice[i][j] = ByteXor(once[i][j], Cipher(key, counters[i])[j])
    BY <2>6 DEF Masked
  <2> QED
    BY <2>2, <2>3, <2>4, <2>7, XorAssumption
<1>5. /\ Streamed(key, data, counters) = stream
      /\ Streamed(key, stream, counters) = Joined(Len(data), twice)
  BY <1>2, <1>3 DEF Streamed
<1> HIDE DEF twice, stream
<1> QED
  BY <1>1, <1>4, <1>5, JoinedBlocks

-----------------------------------------------------------------------------
(* Functions defined by recursion over an interval. *)

(* What has 0 and the successor of all it has, has every natural number.    *)
LEMMA SetInduction ==
  ASSUME NEW S, 0 \in S, \A n \in Nat : n \in S => n + 1 \in S
  PROVE  Nat \subseteq S
<1> DEFINE below == OpToRel(<, Nat)
           missing == Nat \ S
<1>1. IsWellFoundedOn(below, Nat)
  BY NatLessThanWellFounded
<1>2. \A m, n \in Nat : n < m => <<n, m>> \in below
  BY DEF OpToRel
<1> HIDE DEF below
<1>3. SUFFICES ASSUME missing # {} PROVE FALSE
  OBVIOUS
<1>4. PICK m \in missing : \A n \in missing : <<n, m>> \notin below
  BY <1>1, <1>3, WFMin
<1>5. m \in Nat /\ m # 0 /\ m - 1 \in Nat /\ m - 1 < m
  BY <1>4
<1>6. m - 1 \in S
  <2>1. m - 1 \notin missing
    BY <1>2, <1>4, <1>5
  <2> QED
    BY <1>5, <2>1
<1>7. (m - 1) + 1 \in S
  BY <1>5, <1>6
<1> QED
  BY <1>4, <1>5, <1>7

(* Values of S, each made from the one before.                              *)
IsSequel(f, n, first, step, S) ==
  /\ f = [i \in 0 .. n |-> f[i]]
  /\ f[0] = first
  /\ \A i \in 0 .. n : f[i] \in S
  /\ \A i \in 1 .. n : f[i] = step[i][f[i - 1]]

LEMMA SequelExists ==
  ASSUME NEW S, NEW first \in S, NEW n \in Nat, NEW step,
         \A i \in Nat, x \in S : step[i][x] \in S
  PROVE  \E f : IsSequel(f, n, first, step, S)
<1> DEFINE Lengths == {m \in Nat : \E f : IsSequel(f, m, first, step, S)}
<1>1. 0 \in Lengths
  <2>1. IsSequel([i \in 0 .. 0 |-> first], 0, first, step, S)
    BY DEF IsSequel
  <2> QED
    BY <2>1
<1>2. ASSUME NEW m \in Nat, m \in Lengths PROVE m + 1 \in Lengths
  <2>1. PICK f : IsSequel(f, m, first, step, S)
    BY <1>2
  <2> DEFINE g == [i \in 0 .. m + 1 |-> IF i = m + 1 THEN step[i][f[m]] ELSE f[i]]
  <2>2. g = [i \in 0 .. m + 1 |-> g[i]] /\ g[0] = first
    BY <2>1 DEF IsSequel
  <2>3. ASSUME NEW i \in 0 .. m + 1 PROVE g[i] \in S
    <3>1. f[m] \in S
      BY <2>1 DEF IsSequel
    <3>2. i # m + 1 => i \in 0 .. m
      OBVIOUS
    <3> QED
      BY <2>1, <3>1, <3>2 DEF IsSequel
  <2>4. ASSUME NEW i \in 1 .. m + 1 PROVE g[i] = step[i][g[i - 1]]
    <3>1. i - 1 \in 0 .. m /\ i - 1 # m + 1
      OBVIOUS
    <3>2. g[i - 1] = f[i - 1]
      BY <3>1
    <3>3. CASE i = m + 1
      <4>1. i - 1 = m /\ g[i] = step[i][f[m]]
        BY <3>3
      <4> HIDE DEF g
      <4> QED
        BY <3>2, <4>1
    <3>4. CASE i # m + 1
      <4>1. i \in 1 .. m /\ g[i] = f[i]
        BY <3>4
      <4>2. f[i] = step[i][f[i - 1]]
        BY <2>1, <4>1 DEF IsSequel
      <4> HIDE DEF g
      <4> QED
        BY <3>2, <4>1, <4>2
    <3> QED
      BY <3>3, <3>4
  <2>5. IsSequel(g, m + 1, first, step, S)
    <3> HIDE DEF g
    <3> QED
      BY <2>2, <2>3, <2>4 DEF IsSequel
  <2> QED
    BY <2>5
<1> HIDE DEF Lengths
<1>3. n \in Lengths
  BY <1>1, <1>2, SetInduction
<1> QED
  BY <1>3 DEF Lengths

(* What every value has that follows from one that has it.                  *)
LEMMA SequelTyped ==
  ASSUME NEW S, NEW n \in Nat, NEW f, f[0] \in S,
         \A i \in 1 .. n : f[i - 1] \in S => f[i] \in S
  PROVE  \A i \in 0 .. n : f[i] \in S
<1> DEFINE Good == {i \in Nat : i <= n => f[i] \in S}
<1>1. 0 \in Good
  OBVIOUS
<1>2. ASSUME NEW i \in Nat, i \in Good PROVE i + 1 \in Good
  <2>1. i + 1 <= n => i + 1 \in 1 .. n /\ (i + 1) - 1 = i
    OBVIOUS
  <2> QED
    BY <1>2, <2>1
<1> HIDE DEF Good
<1>3. Nat \subseteq Good
  BY <1>1, <1>2, SetInduction
<1> QED
  BY <1>3 DEF Good
-----------------------------------------------------------------------------
(* Numbers and their bytes. *)

LEMMA Division ==
  ASSUME NEW q \in Nat
  PROVE  /\ q \div ByteValues \in Nat /\ q % ByteValues \in Bytes
         /\ q = (q \div ByteValues) * ByteValues + (q % ByteValues)
<1>1. ByteValues \in Nat \ {0}
  BY SizePositive
<1> QED
  BY <1>1 DEF Bytes

LEMMA QuotientsUnfold ==
  ASSUME NEW number \in Nat
  PROVE  LET Q == Quotients(number)
         IN /\ Q[0] = number
            /\ \A k \in 0 .. BlockSize : Q[k] \in Nat
            /\ \A k \in 1 .. BlockSize : Q[k] = Q[k - 1] \div ByteValues
<1> DEFINE step == [i \in Nat |-> [x \in Nat |-> x \div ByteValues]]
           Q == Quotients(number)
<1>1. \A i \in Nat, x \in Nat : step[i][x] = x \div ByteValues /\ step[i][x] \in Nat
  BY Division
<1> HIDE DEF step
<1>2. PICK f : IsSequel(f, BlockSize, number, step, Nat)
  BY <1>1, SizePositive, SequelExists
<1>3. f = [k \in 0 .. BlockSize |-> IF k = 0 THEN number ELSE f[k - 1] \div ByteValues]
  <2>1. BlockSize \in Nat /\ f = [k \in 0 .. BlockSize |-> f[k]]
    BY <1>2, SizePositive DEF IsSequel
  <2>2. ASSUME NEW k \in 0 .. BlockSize
        PROVE  f[k] = IF k = 0 THEN number ELSE f[k - 1] \div ByteValues
    <3>1. k # 0 => k \in 1 .. BlockSize /\ k - 1 \in 0 .. BlockSize /\ k \in Nat
      BY <2>1
    <3> QED
      BY <1>1, <1>2, <3>1 DEF IsSequel
  <2> QED
    BY <2>1, <2>2
<1>4. Q = [k \in 0 .. BlockSize |-> IF k = 0 THEN number ELSE Q[k - 1] \div ByteValues]
  BY <1>3 DEF Quotients
<1> HIDE DEF Q
<1>5. /\ BlockSize \in Nat /\ Q[0] = number
      /\ \A k \in 1 .. BlockSize : Q[k] = Q[k - 1] \div ByteValues
  <2>1. \A k \in 0 .. BlockSize : Q[k] = IF k = 0 THEN number ELSE Q[k - 1] \div ByteValues
    BY <1>4, Zenon
  <2>2. BlockSize \in Nat /\ 0 \in 0 .. BlockSize
    BY SizePositive
  <2>3. \A k \in 1 .. BlockSize : k \in 0 .. BlockSize /\ k # 0
    BY <2>2
  <2> QED
    BY <2>1, <2>2, <2>3, Zenon
<1>6. \A k \in 0 .. BlockSize : Q[k] \in Nat
  <2>1. ASSUME NEW k \in 1 .. BlockSize, Q[k - 1] \in Nat PROVE Q[k] \in Nat
    BY <1>5, <2>1, Division
  <2> QED
    BY <1>5, <2>1, SequelTyped
<1> QED
  BY <1>5, <1>6 DEF Q

LEMMA BytesOfTyped ==
  ASSUME NEW number \in Nat, NEW length \in 0 .. BlockSize
  PROVE  BytesOf(number, length) \in [1 .. length -> Bytes]
<1> DEFINE Q == Quotients(number)
<1>1. BlockSize \in Nat /\ \A k \in 0 .. BlockSize : Q[k] \in Nat
  BY QuotientsUnfold, SizePositive
<1> HIDE DEF Q
<1>2. ASSUME NEW j \in 1 .. length PROVE Q[length - j] % ByteValues \in Bytes
  <2>1. length - j \in 0 .. BlockSize
    BY <1>1
  <2> QED
    BY <1>1, <2>1, Division
<1> QED
  BY <1>2 DEF BytesOf, Q

(* The quotients of a smaller number are smaller.                           *)
LEMMA QuotientsMonotone ==
  ASSUME NEW a \in Nat, NEW b \in Nat, a <= b, NEW k \in 0 .. BlockSize
  PROVE  Quotients(a)[k] <= Quotients(b)[k]
<1> DEFINE P == Quotients(a)
           Q == Quotients(b)
           Good == {i \in Nat : i <= BlockSize => P[i] <= Q[i]}
<1>1. /\ BlockSize \in Nat /\ P[0] = a /\ Q[0] = b
      /\ \A i \in 0 .. BlockSize : P[i] \in Nat /\ Q[i] \in Nat
      /\ \A i \in 1 .. BlockSize :
           P[i] = P[i - 1] \div ByteValues /\ Q[i] = Q[i - 1] \div ByteValues
  BY QuotientsUnfold, SizePositive
<1> HIDE DEF P, Q
<1>2. 0 \in Good
  BY <1>1
<1>3. ASSUME NEW i \in Nat, i \in Good PROVE i + 1 \in Good
  <2>1. SUFFICES ASSUME i + 1 <= BlockSize PROVE P[i + 1] <= Q[i + 1]
    OBVIOUS
  <2> DEFINE x == P[i]
             y == Q[i]
             u == x \div ByteValues
             v == y \div ByteValues
  <2>2. x \in Nat /\ y \in Nat /\ x <= y
    BY <1>1, <1>3, <2>1
  <2>3. P[i + 1] = u /\ Q[i + 1] = v
    <3>1. i + 1 \in 1 .. BlockSize /\ (i + 1) - 1 = i
      BY <1>1, <2>1
    <3> QED
      BY <1>1, <3>1
  <2> HIDE DEF x, y
  <2>4. /\ u \in Nat /\ x = u * ByteValues + (x % ByteValues) /\ x % ByteValues \in Bytes
        /\ v \in Nat /\ y = v * ByteValues + (y % ByteValues) /\ y % ByteValues \in Bytes
    BY <2>2, Division
  <2> HIDE DEF u, v
  <2>5. u <= v
    <3>1. SUFFICES ASSUME v + 1 <= u PROVE FALSE
      BY <2>4
    <3>2. ByteValues \in Nat /\ v + 1 \in Int /\ u \in Int
      BY <2>4, SizePositive
    <3>3. (v + 1) * ByteValues <= u * ByteValues
      BY <3>1, <3>2, ProductGrows
    <3>4. (v + 1) * ByteValues = v * ByteValues + ByteValues /\ v * ByteValues \in Int
      BY <2>4, <3>2
    <3>5. u * ByteValues \in Int
      BY <2>4, <3>2
    <3> QED
      BY <2>2, <2>4, <3>2, <3>3, <3>4, <3>5 DEF Bytes
  <2> QED
    BY <2>3, <2>5
<1> HIDE DEF Good
<1>4. k \in Good
  BY <1>2, <1>3, SetInduction
<1> QED
  BY <1>1, <1>4 DEF Good, P, Q

LEMMA FitsBelow ==
  ASSUME NEW a \in Nat, NEW b \in Nat, a <= b, NEW length \in 0 .. BlockSize, Fits(b, length)
  PROVE  Fits(a, length)
<1>1. Quotients(a)[length] <= Quotients(b)[length] /\ Quotients(b)[length] = 0
  BY QuotientsMonotone DEF Fits
<1>2. Quotients(a)[length] \in Nat
  BY QuotientsUnfold
<1> QED
  BY <1>1, <1>2 DEF Fits

(* Numbers that fit their bytes are told apart by them.                     *)
LEMMA BytesOfUnique ==
  ASSUME NEW a \in Nat, NEW b \in Nat, NEW length \in 0 .. BlockSize,
         Fits(a, length), Fits(b, length), BytesOf(a, length) = BytesOf(b, length)
  PROVE  a = b
<1> DEFINE P == Quotients(a)
           Q == Quotients(b)
           Good == {i \in Nat : i <= length => P[length - i] = Q[length - i]}
<1>1. /\ BlockSize \in Nat /\ P[0] = a /\ Q[0] = b
      /\ \A i \in 0 .. BlockSize : P[i] \in Nat /\ Q[i] \in Nat
      /\ \A i \in 1 .. BlockSize :
           P[i] = P[i - 1] \div ByteValues /\ Q[i] = Q[i - 1] \div ByteValues
  BY QuotientsUnfold, SizePositive
<1>2. P[length] = 0 /\ Q[length] = 0
  BY DEF Fits
<1>3. \A j \in 1 .. length : P[length - j] % ByteValues = Q[length - j] % ByteValues
  <2>1. [j \in 1 .. length |-> P[length - j] % ByteValues]
          = [j \in 1 .. length |-> Q[length - j] % ByteValues]
    BY DEF BytesOf
  <2> HIDE DEF P, Q
  <2> QED
    BY <2>1
<1> HIDE DEF P, Q
<1>4. 0 \in Good
  BY <1>1, <1>2
<1>5. ASSUME NEW i \in Nat, i \in Good PROVE i + 1 \in Good
  <2>1. SUFFICES ASSUME i + 1 <= length PROVE P[length - (i + 1)] = Q[length - (i + 1)]
    OBVIOUS
  <2> DEFINE k == length - (i + 1)
  <2>2. k \in 0 .. BlockSize /\ k + 1 \in 1 .. BlockSize /\ (k + 1) - 1 = k /\ k + 1 = length - i
    BY <1>1, <2>1
  <2>3. P[k] % ByteValues = Q[k] % ByteValues
    BY <1>3, <2>1
  <2> HIDE DEF k
  <2>4. P[k + 1] = Q[k + 1]
    BY <1>5, <2>1, <2>2
  <2>5. P[k] \div ByteValues = Q[k] \div ByteValues
    <3>1. P[k + 1] = P[k] \div ByteValues /\ Q[k + 1] = Q[k] \div ByteValues
      BY <1>1, <2>2
    <3> QED
      BY <2>4, <3>1
  <2>6. /\ P[k] = (P[k] \div ByteValues) * ByteValues + (P[k] % ByteValues)
        /\ Q[k] = (Q[k] \div ByteValues) * ByteValues + (Q[k] % ByteValues)
    BY <1>1, <2>2, Division
  <2>7. P[k] = Q[k]
    BY <2>3, <2>5, <2>6, Zenon
  <2> QED
    BY <2>7 DEF k
<1> HIDE DEF Good
<1>6. length \in Good
  BY <1>4, <1>5, SetInduction
<1>7. P[length - length] = Q[length - length] /\ length - length = 0
  BY <1>6 DEF Good
<1> QED
  BY <1>1, <1>7

(* A byte fits a byte.                                                      *)
LEMMA ByteFits ==
  ASSUME NEW a \in Bytes, NEW length \in 1 .. BlockSize
  PROVE  a \in Nat /\ Fits(a, length)
<1> DEFINE Q == Quotients(a)
           Good == {i \in Nat : i + 1 <= BlockSize => Q[i + 1] = 0}
<1>1. a \in Nat /\ a < ByteValues /\ ByteValues \in Nat \ {0} /\ BlockSize \in Nat
  BY SizePositive DEF Bytes
<1>2. Q[0] = a /\ \A i \in 1 .. BlockSize : Q[i] = Q[i - 1] \div ByteValues
  BY <1>1, QuotientsUnfold
<1> HIDE DEF Q
<1>3. a \div ByteValues = 0 /\ 0 \div ByteValues = 0
  BY <1>1
<1>4. 0 \in Good
  <2>1. 1 <= BlockSize => 1 \in 1 .. BlockSize /\ 1 - 1 = 0
    BY <1>1
  <2> QED
    BY <1>2, <1>3, <2>1
<1>5. ASSUME NEW i \in Nat, i \in Good PROVE i + 1 \in Good
  <2>1. SUFFICES ASSUME (i + 1) + 1 <= BlockSize PROVE Q[(i + 1) + 1] = 0
    OBVIOUS
  <2>2. (i + 1) + 1 \in 1 .. BlockSize /\ ((i + 1) + 1) - 1 = i + 1 /\ i + 1 <= BlockSize
    BY <1>1, <2>1
  <2>3. Q[i + 1] = 0
    BY <1>5, <2>2
  <2> QED
    BY <1>2, <1>3, <2>2, <2>3
<1> HIDE DEF Good
<1>6. length - 1 \in Good
  <2>1. length - 1 \in Nat
    OBVIOUS
  <2> QED
    BY <1>4, <1>5, <2>1, SetInduction
<1>7. Q[length] = 0
  <2>1. (length - 1) + 1 = length
    OBVIOUS
  <2> QED
    BY <1>6, <2>1 DEF Good
<1> QED
  BY <1>1, <1>7 DEF Fits, Q

-----------------------------------------------------------------------------
(* Counters. *)

LEMMA Halves == Half \in 1 .. BlockSize /\ BlockSize - Half \in 0 .. BlockSize
BY SizePositive DEF Half

(* A counter tells its section and its block.                               *)
LEMMA CounterUnique ==
  ASSUME NEW counter \in Bytes, NEW other \in Bytes, NEW b \in Nat, NEW c \in Nat,
         Fits(b, BlockSize - Half), Fits(c, BlockSize - Half),
         SectionCounter(counter, b) = SectionCounter(other, c)
  PROVE  counter = other /\ b = c
<1> DEFINE first == BytesOf(counter, Half)
           second == BytesOf(b, BlockSize - Half)
           third == BytesOf(other, Half)
           fourth == BytesOf(c, BlockSize - Half)
<1>1. Half \in 1 .. BlockSize /\ BlockSize - Half \in 0 .. BlockSize /\ BlockSize \in Nat
  BY Halves, SizePositive
<1>2. counter \in Nat /\ other \in Nat /\ Fits(counter, Half) /\ Fits(other, Half)
  BY <1>1, ByteFits
<1>3. /\ first \in [1 .. Half -> Bytes] /\ third \in [1 .. Half -> Bytes]
      /\ second \in [1 .. BlockSize - Half -> Bytes]
      /\ fourth \in [1 .. BlockSize - Half -> Bytes]
  BY <1>1, <1>2, BytesOfTyped
<1>4. first \o second = third \o fourth
  BY DEF SectionCounter
<1> HIDE DEF first, second, third, fourth
<1>5. /\ first \in Seq(Bytes) /\ second \in Seq(Bytes)
      /\ third \in Seq(Bytes) /\ fourth \in Seq(Bytes)
      /\ Len(first) = Half /\ Len(third) = Half
      /\ Len(second) = BlockSize - Half /\ Len(fourth) = BlockSize - Half
  BY <1>1, <1>3
<1>6. first = third
  <2>1. ASSUME NEW j \in 1 .. Half PROVE first[j] = third[j]
    <3>1. (first \o second)[j] = first[j] /\ (third \o fourth)[j] = third[j]
      BY <1>1, <1>5
    <3> QED
      BY <1>4, <3>1
  <2>2. first = [j \in 1 .. Half |-> first[j]] /\ third = [j \in 1 .. Half |-> third[j]]
    BY <1>3
  <2> QED
    BY <2>1, <2>2
<1>7. second = fourth
  <2>1. ASSUME NEW j \in 1 .. BlockSize - Half PROVE second[j] = fourth[j]
    <3>1. /\ (first \o second)[Half + j] = second[j]
          /\ (third \o fourth)[Half + j] = fourth[j]
      BY <1>1, <1>5
    <3> QED
      BY <1>4, <3>1
  <2>2. /\ second = [j \in 1 .. BlockSize - Half |-> second[j]]
        /\ fourth = [j \in 1 .. BlockSize - Half |-> fourth[j]]
    BY <1>3
  <2> QED
    BY <2>1, <2>2
<1>8. counter = other
  BY <1>1, <1>2, <1>6, BytesOfUnique DEF first, third
<1>9. b = c
  BY <1>1, <1>7, BytesOfUnique DEF second, fourth
<1> QED
  BY <1>8, <1>9

LEMMA FullSequence ==
  ASSUME NEW s \in Seq(Bytes), Len(s) = BlockSize PROVE s \in FullBlocks
BY DEF FullBlocks

LEMMA CounterTyped ==
  ASSUME NEW counter \in Bytes, NEW b \in Nat
  PROVE  SectionCounter(counter, b) \in FullBlocks
<1> DEFINE first == BytesOf(counter, Half)
           second == BytesOf(b, BlockSize - Half)
<1>1. Half \in 1 .. BlockSize /\ BlockSize - Half \in 0 .. BlockSize /\ BlockSize \in Nat
  BY Halves, SizePositive
<1>2. first \in [1 .. Half -> Bytes] /\ second \in [1 .. BlockSize - Half -> Bytes]
  BY <1>1, ByteFits, BytesOfTyped
<1> HIDE DEF first, second
<1>3. /\ first \in Seq(Bytes) /\ second \in Seq(Bytes)
      /\ Len(first) = Half /\ Len(second) = BlockSize - Half
  BY <1>1, <1>2
<1>4. first \o second \in Seq(Bytes) /\ Len(first \o second) = BlockSize
  BY <1>1, <1>3
<1>5. first \o second \in FullBlocks
  BY <1>4, FullSequence
<1> QED
  BY <1>5 DEF SectionCounter, first, second

LEMMA XoredTyped ==
  ASSUME NEW iv \in FullBlocks, NEW i \in Nat
  PROVE  CounterXored(iv, i) \in FullBlocks
<1>1. Half \in 0 .. BlockSize /\ BlockSize \in Nat
  BY Halves, SizePositive
<1>2. BytesOf(i, Half) \in [1 .. Half -> Bytes]
  BY <1>1, BytesOfTyped
<1>3. ASSUME NEW j \in 1 .. BlockSize, j <= Half
      PROVE  ByteXor(iv[j], BytesOf(i, Half)[j]) \in Bytes
  <2>1. iv[j] \in Bytes /\ BytesOf(i, Half)[j] \in Bytes
    BY <1>1, <1>2, <1>3 DEF FullBlocks
  <2> QED
    BY <2>1, XorAssumption
<1> QED
  BY <1>3 DEF CounterXored, FullBlocks

(* What every file is, whoever made it.                                     *)
LEMMA FileTyped ==
  ASSUME NEW f \in Files
  PROVE  /\ ContentTyped(f.content)
         /\ f.content.sections \in Seq(Seq(Bytes))
         /\ f.sections = [i \in DOMAIN f.content.sections |->
                            SealedSection(f.content.titleKey, f.content.counters[i],
                                          f.content.sections[i])]
         /\ \A i \in DOMAIN f.sections :
              /\ i \in 1 .. Len(f.content.sections) /\ i \in 1 .. BlockSize
              /\ f.content.sections[i] \in Seq(Bytes)
              /\ f.content.counters[i] \in Bytes
<1> DEFINE sections == f.content.sections
           counters == f.content.counters
<1>1. ContentTyped(f.content) /\ \E sectors \in 0 .. HeaderSectors : f = Sealed(f.content, sectors)
  BY FilesAssumption
<1>2. f.sections = [i \in DOMAIN sections |->
                      SealedSection(f.content.titleKey, counters[i], sections[i])]
  BY <1>1 DEF Sealed
<1>3. /\ sections \in Seq(Seq(Bytes)) /\ Len(sections) <= BlockSize
      /\ counters \in FullBlocks
  BY <1>1 DEF ContentTyped
<1>4. DOMAIN f.sections = DOMAIN sections
  BY <1>2
<1> HIDE DEF sections, counters
<1>5. DOMAIN sections = 1 .. Len(sections) /\ Len(sections) \in Nat
  BY <1>3
<1>6. ASSUME NEW i \in DOMAIN sections
      PROVE  /\ i \in 1 .. Len(sections) /\ i \in 1 .. BlockSize
             /\ sections[i] \in Seq(Bytes) /\ counters[i] \in Bytes
  <2>1. i \in 1 .. Len(sections) /\ i \in 1 .. BlockSize
    BY <1>3, <1>5, SizePositive
  <2>2. sections[i] \in Seq(Bytes)
    BY <1>3, <2>1
  <2>3. counters[i] \in Bytes
    BY <1>3, <2>1 DEF FullBlocks
  <2> QED
    BY <2>1, <2>2, <2>3
<1> QED
  BY <1>1, <1>2, <1>3, <1>4, <1>6 DEF sections, counters

LEMMA FilesKeepCountersApart == file \in Files => CountersApart
<1> SUFFICES ASSUME file \in Files,
                    NEW i \in DOMAIN file.sections, NEW j \in DOMAIN file.sections,
                    NEW b \in Indices(file.sections[i]), NEW c \in Indices(file.sections[j]),
                    SectionCounter(file.content.counters[i], b)
                      = SectionCounter(file.content.counters[j], c)
             PROVE  b = c /\ file.content.counters[i] = file.content.counters[j]
  BY DEF CountersApart
<1>1. file.content.counters[i] \in Bytes /\ file.content.counters[j] \in Bytes
  BY FileTyped
<1>2. ASSUME NEW k \in DOMAIN file.sections, NEW d \in Indices(file.sections[k])
      PROVE  d \in Nat /\ Fits(d, BlockSize - Half)
  <2>1. Fits(Blocks(file.sections[k]), BlockSize - Half)
    BY FilesAssumption
  <2>2. Blocks(file.sections[k]) \in Nat
    <3> DEFINE plain == file.content.sections[k]
               sealed == SealedSection(file.content.titleKey, file.content.counters[k], plain)
    <3>1. plain \in Seq(Bytes) /\ file.sections[k] = sealed
      BY FileTyped
    <3>2. Len(plain) \in Nat
      BY <3>1
    <3> HIDE DEF plain
    <3>3. Len(sealed) \in Nat
      BY <3>2, BlockOfJoined DEF SealedSection
    <3> HIDE DEF sealed
    <3> QED
      BY <3>1, <3>3, BlocksBegin
  <2>3. d \in Nat /\ d <= Blocks(file.sections[k])
    BY <2>2 DEF Indices
  <2> QED
    BY <2>1, <2>2, <2>3, FitsBelow, Halves
<1> QED
  BY <1>1, <1>2, CounterUnique

-----------------------------------------------------------------------------
(* ECB and CBC. *)

(* Of data of whole blocks, every block is whole.                           *)
LEMMA AllWhole ==
  ASSUME NEW data \in Seq(Bytes), Len(data) % BlockSize = 0, NEW i \in Indices(data)
  PROVE  /\ i \in Nat /\ (i + 1) * BlockSize <= Len(data)
         /\ Extent(data, i) = BlockSize /\ Block(data, i) \in FullBlocks
<1> DEFINE n == Len(data)
           q == n \div BlockSize
<1>1. n \in Nat /\ BlockSize \in Nat \ {0}
  BY SizePositive
<1>2. i \in Nat /\ i * BlockSize < n
  BY <1>1, IndexBegins
<1>3. q \in Nat /\ n = q * BlockSize
  <2>1. q \in Nat /\ n = q * BlockSize + (n % BlockSize)
    BY <1>1
  <2>2. q * BlockSize \in Nat
    BY <1>1, <2>1
  <2> QED
    BY <2>1, <2>2
<1> HIDE DEF n, q
<1>4. i + 1 <= q
  <2>1. SUFFICES ASSUME q <= i PROVE FALSE
    BY <1>2, <1>3
  <2>2. q * BlockSize <= i * BlockSize
    <3>1. q \in Int /\ i \in Int /\ BlockSize \in Nat
      BY <1>1, <1>2, <1>3
    <3> QED
      BY <2>1, <3>1, ProductGrows
  <2>3. q * BlockSize \in Int /\ i * BlockSize \in Int
    BY <1>1, <1>2, <1>3
  <2> QED
    BY <1>2, <1>3, <2>2, <2>3
<1>5. (i + 1) * BlockSize <= q * BlockSize
  <2>1. q \in Int /\ i + 1 \in Int /\ BlockSize \in Nat
    BY <1>1, <1>2, <1>3
  <2> QED
    BY <1>4, <2>1, ProductGrows
<1>6. (i + 1) * BlockSize <= Len(data)
  BY <1>3, <1>5 DEF n
<1> QED
  BY <1>2, <1>6, WholeBlock

(* Blocks coded one by one are found again in what they are joined to.      *)
LEMMA CodedBlocks ==
  ASSUME NEW data \in Seq(Bytes), Len(data) % BlockSize = 0,
         NEW results, \A i \in Indices(data) : results[i] \in FullBlocks
  PROVE  LET coded == Joined(Len(data), results)
         IN /\ coded \in Seq(Bytes) /\ Len(coded) = Len(data)
            /\ Indices(coded) = Indices(data)
            /\ \A i \in Indices(data) : Block(coded, i) = results[i]
<1> DEFINE coded == Joined(Len(data), results)
<1>1. Len(data) \in Nat
  OBVIOUS
<1>2. Len(coded) = Len(data)
  BY <1>1, BlockOfJoined
<1>3. Indices(coded) = Indices(data) /\ \A i : Extent(coded, i) = Extent(data, i)
  BY <1>2, SameIndices
<1>4. coded \in Seq(Bytes)
  <2>1. ASSUME NEW i \in Nat, i * BlockSize < Len(data), NEW j \in 1 .. BlockSize
        PROVE  results[i][j] \in Bytes
    <3>1. i \in Indices(data)
      BY <1>1, <2>1, IndexBegins
    <3> QED
      BY <3>1 DEF FullBlocks
  <2> QED
    BY <1>1, <2>1, JoinedTyped
<1>5. ASSUME NEW i \in Indices(data) PROVE Block(coded, i) = results[i]
  <2>1. i \in Nat /\ Extent(data, i) = BlockSize
    BY AllWhole
  <2>2. Block(coded, i) = [j \in 1 .. Extent(coded, i) |-> results[i][j]]
    BY <1>1, <2>1, BlockOfJoined
  <2> HIDE DEF coded
  <2>3. results[i] = [j \in 1 .. BlockSize |-> results[i][j]]
    BY DEF FullBlocks
  <2> QED
    BY <1>3, <2>1, <2>2, <2>3
<1> QED
  BY <1>2, <1>3, <1>4, <1>5

(* Blocks decoded to those of the data are the data.                        *)
LEMMA DecodedBlocks ==
  ASSUME NEW data \in Seq(Bytes), NEW results,
         \A i \in Indices(data) : results[i] = Block(data, i)
  PROVE  Joined(Len(data), results) = data
<1>1. Len(data) \in Nat /\ data = [p \in 1 .. Len(data) |-> data[p]]
  BY SequenceIsItsBytes
<1> QED
  BY <1>1, JoinedBlocks

LEMMA PaddedTyped ==
  ASSUME NEW data \in Seq(Bytes)
  PROVE  /\ PaddingOf(data) \in 1 .. BlockSize
         /\ Padded(data) \in Seq(Bytes)
         /\ Len(Padded(data)) = Len(data) + PaddingOf(data)
         /\ Len(Padded(data)) % BlockSize = 0
<1> DEFINE n == Len(data)
           q == n \div BlockSize
           r == n % BlockSize
<1>1. n \in Nat /\ BlockSize \in Nat \ {0} /\ ByteValues \in Nat /\ BlockSize < ByteValues
  BY SizePositive
<1>2. q \in Nat /\ r \in 0 .. BlockSize - 1 /\ n = q * BlockSize + r
  BY <1>1
<1>3. PaddingOf(data) = BlockSize - r
  BY DEF PaddingOf
<1> HIDE DEF q, r
<1>4. PaddingOf(data) \in 1 .. BlockSize
  BY <1>1, <1>2, <1>3
<1>5. PaddingOf(data) \in Bytes
  BY <1>1, <1>4 DEF Bytes
<1>6. Padded(data) \in Seq(Bytes) /\ Len(Padded(data)) = Len(data) + PaddingOf(data)
  <2>1. \A p \in 1 .. n + PaddingOf(data) : p <= n => data[p] \in Bytes
    BY <1>1, <1>4
  <2>2. Padded(data) = [p \in 1 .. n + PaddingOf(data) |->
                          IF p <= n THEN data[p] ELSE PaddingOf(data)]
    BY DEF Padded
  <2>3. n + PaddingOf(data) \in Nat
    BY <1>1, <1>4
  <2> QED
    BY <1>5, <2>1, <2>2, <2>3
<1>7. (n + PaddingOf(data)) % BlockSize = 0
  <2>1. q * BlockSize \in Nat /\ (q + 1) * BlockSize = q * BlockSize + BlockSize
    BY <1>1, <1>2
  <2>2. n + PaddingOf(data) = (q + 1) * BlockSize + 0
    BY <1>1, <1>2, <1>3, <2>1
  <2>3. ((q + 1) * BlockSize + 0) % BlockSize = 0
    <3>1. q + 1 \in Int /\ 0 \in 0 .. BlockSize - 1
      BY <1>1, <1>2
    <3> QED
      BY <1>1, <3>1, DivisionUnique
  <2> QED
    BY <2>2, <2>3
<1> QED
  BY <1>4, <1>6, <1>7

LEMMA PaddingFound ==
  ASSUME NEW data \in Seq(Bytes)
  PROVE  Unpadded(Padded(data)) = data
<1> DEFINE n == Len(data)
           k == PaddingOf(data)
           padded == Padded(data)
<1>1. n \in Nat /\ k \in 1 .. BlockSize /\ Len(padded) = n + k /\ BlockSize \in Nat
  BY PaddedTyped, SizePositive
<1>2. padded = [p \in 1 .. n + k |-> IF p <= n THEN data[p] ELSE k]
  BY DEF Padded
<1> HIDE DEF k, padded
<1>3. padded[Len(padded)] = k
  BY <1>1, <1>2
<1>4. Unpadded(padded) = [p \in 1 .. Len(padded) - k |-> padded[p]]
  BY <1>1, <1>3 DEF Unpadded
<1>5. Len(padded) - k = n /\ \A p \in 1 .. n : padded[p] = data[p]
  BY <1>1, <1>2
<1>6. data = [p \in 1 .. n |-> data[p]]
  BY SequenceIsItsBytes
<1> QED
  BY <1>4, <1>5, <1>6 DEF padded

LEMMA EcbInverts ==
  ASSUME NEW key \in FullBlocks, NEW data \in Seq(Bytes)
  PROVE  EcbDecrypt(key, EcbEncrypt(key, data)) = data
<1>1. CASE data = <<>>
  BY <1>1 DEF EcbEncrypt, EcbDecrypt
<1>2. CASE data # <<>>
  <2> DEFINE padded == Padded(data)
             results == [i \in Indices(padded) |-> Cipher(key, Block(padded, i))]
             coded == Joined(Len(padded), results)
             decoded == [i \in Indices(coded) |-> Decipher(key, Block(coded, i))]
  <2>1. padded \in Seq(Bytes) /\ Len(padded) % BlockSize = 0 /\ Len(padded) \in Nat \ {0}
    <3>1. Len(data) \in Nat /\ PaddingOf(data) \in Nat \ {0}
      BY PaddedTyped, SizePositive
    <3> QED
      BY <3>1, PaddedTyped
  <2>2. EcbEncrypt(key, data) = coded
    BY <1>2 DEF EcbEncrypt
  <2> HIDE DEF padded
  <2>3. ASSUME NEW i \in Indices(padded)
        PROVE  /\ results[i] = Cipher(key, Block(padded, i)) /\ results[i] \in FullBlocks
               /\ Decipher(key, results[i]) = Block(padded, i)
    <3>1. Block(padded, i) \in FullBlocks
      BY <2>1, AllWhole
    <3> QED
      BY <3>1, CipherAssumption
  <2> HIDE DEF results
  <2>4. /\ Len(coded) = Len(padded) /\ Indices(coded) = Indices(padded)
        /\ \A i \in Indices(padded) : Block(coded, i) = results[i]
    BY <2>1, <2>3, CodedBlocks
  <2>5. coded # <<>>
    <3>1. Len(coded) # 0
      BY <2>1, <2>4
    <3> HIDE DEF coded
    <3> QED
      BY <3>1
  <2>6. EcbDecrypt(key, coded) = Unpadded(Joined(Len(padded), decoded))
    BY <2>4, <2>5 DEF EcbDecrypt
  <2> HIDE DEF coded
  <2>7. \A i \in Indices(padded) : decoded[i] = Block(padded, i)
    BY <2>3, <2>4
  <2> HIDE DEF decoded
  <2>8. Joined(Len(padded), decoded) = padded
    BY <2>1, <2>7, DecodedBlocks
  <2> QED
    BY <2>2, <2>6, <2>8, PaddingFound DEF padded
<1> QED
  BY <1>1, <1>2

LEMMA ChainUnfold ==
  ASSUME NEW key \in FullBlocks, NEW iv \in FullBlocks, NEW data \in Seq(Bytes),
         Len(data) % BlockSize = 0
  PROVE  LET chain == Chain(key, iv, data)
         IN /\ chain[0] = iv
            /\ \A i \in 0 .. Blocks(data) : chain[i] \in FullBlocks
            /\ \A i \in 1 .. Blocks(data) :
                 chain[i] = Cipher(key, Masked(Block(data, i - 1), chain[i - 1]))
<1> DEFINE n == Blocks(data)
           step == [i \in Nat |-> [x \in FullBlocks |->
                     IF i \in 1 .. n THEN Cipher(key, Masked(Block(data, i - 1), x)) ELSE x]]
           chain == Chain(key, iv, data)
<1>1. n \in Nat
  <2>1. Len(data) \in Nat
    OBVIOUS
  <2> QED
    BY <2>1, BlocksBegin
<1>2. ASSUME NEW i \in 1 .. n, NEW x \in FullBlocks
      PROVE  Cipher(key, Masked(Block(data, i - 1), x)) \in FullBlocks
  <2>1. i - 1 \in Indices(data)
    BY <1>1 DEF Indices
  <2>2. Masked(Block(data, i - 1), x) \in FullBlocks
    BY <2>1, AllWhole, MaskedTyped
  <2> QED
    BY <2>2, CipherAssumption
<1> HIDE DEF n
<1>3. ASSUME NEW i \in Nat, NEW x \in FullBlocks
      PROVE  /\ step[i][x] \in FullBlocks
             /\ i \in 1 .. n => step[i][x] = Cipher(key, Masked(Block(data, i - 1), x))
  BY <1>2
<1> HIDE DEF step
<1>4. PICK f : IsSequel(f, n, iv, step, FullBlocks)
  BY <1>1, <1>3, SequelExists
<1>5. f = [i \in 0 .. n |-> IF i = 0 THEN iv ELSE Cipher(key, Masked(Block(data, i - 1), f[i - 1]))]
  <2>1. f = [i \in 0 .. n |-> f[i]]
    BY <1>4 DEF IsSequel
  <2>2. ASSUME NEW i \in 0 .. n
        PROVE  f[i] = IF i = 0 THEN iv ELSE Cipher(key, Masked(Block(data, i - 1), f[i - 1]))
    <3>1. i # 0 => i \in 1 .. n /\ i - 1 \in 0 .. n /\ i \in Nat
      BY <1>1
    <3>2. f[0] = iv /\ (i # 0 => f[i] = step[i][f[i - 1]] /\ f[i - 1] \in FullBlocks)
      BY <1>4, <3>1 DEF IsSequel
    <3>3. i # 0 => f[i] = Cipher(key, Masked(Block(data, i - 1), f[i - 1]))
      BY <1>3, <3>1, <3>2
    <3> QED
      BY <3>2, <3>3
  <2> QED
    BY <2>1, <2>2
<1>6. chain = [i \in 0 .. n |->
                 IF i = 0 THEN iv ELSE Cipher(key, Masked(Block(data, i - 1), chain[i - 1]))]
  BY <1>5 DEF Chain, n
<1> HIDE DEF chain
<1>7. /\ chain[0] = iv
      /\ \A i \in 1 .. n : chain[i] = Cipher(key, Masked(Block(data, i - 1), chain[i - 1]))
  <2>1. \A i \in 0 .. n :
          chain[i] = IF i = 0 THEN iv ELSE Cipher(key, Masked(Block(data, i - 1), chain[i - 1]))
    BY <1>6, Zenon
  <2>2. 0 \in 0 .. n /\ \A i \in 1 .. n : i \in 0 .. n /\ i # 0
    BY <1>1
  <2> QED
    BY <2>1, <2>2, Zenon
<1>8. \A i \in 0 .. n : chain[i] \in FullBlocks
  <2>1. ASSUME NEW i \in 1 .. n, chain[i - 1] \in FullBlocks PROVE chain[i] \in FullBlocks
    BY <1>2, <1>7, <2>1
  <2> QED
    BY <1>1, <1>7, <2>1, SequelTyped
<1> QED
  BY <1>7, <1>8 DEF chain, n

LEMMA CbcInverts ==
  ASSUME NEW key \in FullBlocks, NEW iv \in FullBlocks, NEW data \in Seq(Bytes),
         Len(data) % BlockSize = 0
  PROVE  CbcDecrypt(key, iv, CbcEncrypt(key, iv, data)) = data
<1> DEFINE chain == Chain(key, iv, data)
           results == [i \in Indices(data) |-> chain[i + 1]]
           coded == Joined(Len(data), results)
           decoded == [i \in Indices(coded) |->
                         Masked(Decipher(key, Block(coded, i)),
                                IF i = 0 THEN iv ELSE Block(coded, i - 1))]
<1>1. /\ chain[0] = iv
      /\ \A i \in 0 .. Blocks(data) : chain[i] \in FullBlocks
      /\ \A i \in 1 .. Blocks(data) :
           chain[i] = Cipher(key, Masked(Block(data, i - 1), chain[i - 1]))
  BY ChainUnfold
<1>2. CbcEncrypt(key, iv, data) = coded
  BY DEF CbcEncrypt
<1> HIDE DEF chain
<1>3. ASSUME NEW i \in Indices(data)
      PROVE  /\ i \in Nat /\ i + 1 \in 1 .. Blocks(data) /\ i \in 0 .. Blocks(data)
             /\ (i + 1) - 1 = i /\ i + 1 \in 0 .. Blocks(data)
             /\ i # 0 => i - 1 \in Indices(data) /\ (i - 1) + 1 = i
  <2>1. Len(data) \in Nat
    OBVIOUS
  <2>2. Blocks(data) \in Nat
    BY <2>1, BlocksBegin
  <2> QED
    BY <2>2 DEF Indices
<1>4. ASSUME NEW i \in Indices(data)
      PROVE  /\ results[i] = Cipher(key, Masked(Block(data, i), chain[i]))
             /\ results[i] \in FullBlocks
             /\ i # 0 => results[i - 1] = chain[i]
  BY <1>1, <1>3
<1> HIDE DEF results
<1>5. /\ Len(coded) = Len(data) /\ Indices(coded) = Indices(data)
      /\ \A i \in Indices(data) : Block(coded, i) = results[i]
  BY <1>4, CodedBlocks
<1> HIDE DEF coded
<1>6. ASSUME NEW i \in Indices(data) PROVE decoded[i] = Block(data, i)
  <2>1. Block(data, i) \in FullBlocks /\ chain[i] \in FullBlocks
    BY <1>1, <1>3, AllWhole
  <2>2. Decipher(key, Block(coded, i)) = Masked(Block(data, i), chain[i])
    <3>1. Masked(Block(data, i), chain[i]) \in FullBlocks
      BY <2>1, MaskedTyped
    <3> QED
      BY <1>4, <1>5, <3>1, CipherAssumption
  <2>3. (IF i = 0 THEN iv ELSE Block(coded, i - 1)) = chain[i]
    BY <1>1, <1>3, <1>4, <1>5
  <2>4. decoded[i] = Masked(Masked(Block(data, i), chain[i]), chain[i])
    BY <1>5, <2>2, <2>3
  <2> QED
    BY <2>1, <2>4, MaskedTwice
<1>7. CbcDecrypt(key, iv, coded) = Joined(Len(data), decoded)
  BY <1>5 DEF CbcDecrypt
<1> HIDE DEF decoded
<1> QED
  BY <1>2, <1>6, <1>7, DecodedBlocks
-----------------------------------------------------------------------------
(* XTS. *)

LEMMA DoubleTyped ==
  ASSUME NEW block \in FullBlocks PROVE Double(block) \in FullBlocks
<1> DEFINE value == [j \in 1 .. BlockSize |->
                       2 * block[j] + (IF j < BlockSize THEN HighBit(block[j + 1]) ELSE 0)]
           shifted == [j \in 1 .. BlockSize |->
                         (2 * block[j] + (IF j < BlockSize THEN HighBit(block[j + 1]) ELSE 0))
                           % ByteValues]
<1>1. BlockSize \in 1 .. BlockSize /\ ByteValues \in Nat \ {0} /\ Polynomial \in Bytes
  BY SizePositive, BlockAssumption
<1>2. ASSUME NEW j \in 1 .. BlockSize PROVE shifted[j] \in Bytes
  <2>1. value[j] \in Int
    <3>1. block[j] \in Int
      BY DEF FullBlocks, Bytes
    <3> QED
      BY <3>1 DEF HighBit
  <2>2. shifted[j] = value[j] % ByteValues
    OBVIOUS
  <2> HIDE DEF value, shifted
  <2> QED
    BY <1>1, <2>1, <2>2 DEF Bytes
<1>3. shifted \in FullBlocks
  BY <1>2 DEF FullBlocks
<1>4. Double(block) = IF HighBit(block[1]) = 0 THEN shifted
                      ELSE [shifted EXCEPT ![BlockSize] = ByteXor(@, Polynomial)]
  BY DEF Double
<1> HIDE DEF shifted
<1>5. ByteXor(shifted[BlockSize], Polynomial) \in Bytes
  BY <1>1, <1>2, XorAssumption
<1> QED
  BY <1>3, <1>4, <1>5 DEF FullBlocks

LEMMA TweaksTyped ==
  ASSUME NEW key1 \in FullBlocks, NEW sector \in Nat, NEW blocks \in Nat
  PROVE  \A i \in 0 .. blocks : Tweaks(key1, sector, blocks)[i] \in FullBlocks
<1> DEFINE first == Cipher(key1, BytesOf(sector, BlockSize))
           step == [i \in Nat |-> [x \in FullBlocks |-> Double(x)]]
           T == Tweaks(key1, sector, blocks)
<1>1. first \in FullBlocks
  <2>1. BytesOf(sector, BlockSize) \in FullBlocks
    BY BytesOfTyped, SizePositive DEF FullBlocks
  <2> QED
    BY <2>1, CipherAssumption
<1> HIDE DEF first
<1>2. \A i \in Nat, x \in FullBlocks : step[i][x] = Double(x) /\ step[i][x] \in FullBlocks
  BY DoubleTyped
<1> HIDE DEF step
<1>3. PICK f : IsSequel(f, blocks, first, step, FullBlocks)
  BY <1>1, <1>2, SequelExists
<1>4. f = [i \in 0 .. blocks |-> IF i = 0 THEN first ELSE Double(f[i - 1])]
  <2>1. f = [i \in 0 .. blocks |-> f[i]]
    BY <1>3 DEF IsSequel
  <2>2. ASSUME NEW i \in 0 .. blocks
        PROVE  f[i] = IF i = 0 THEN first ELSE Double(f[i - 1])
    <3>1. i # 0 => i \in 1 .. blocks /\ i - 1 \in 0 .. blocks /\ i \in Nat
      OBVIOUS
    <3> QED
      BY <1>2, <1>3, <3>1 DEF IsSequel
  <2> QED
    BY <2>1, <2>2
<1>5. T = [i \in 0 .. blocks |-> IF i = 0 THEN first ELSE Double(T[i - 1])]
  BY <1>4 DEF Tweaks, first
<1> HIDE DEF T
<1>6. T[0] = first /\ \A i \in 1 .. blocks : T[i] = Double(T[i - 1])
  <2>1. \A i \in 0 .. blocks : T[i] = IF i = 0 THEN first ELSE Double(T[i - 1])
    BY <1>5, Zenon
  <2>2. 0 \in 0 .. blocks /\ \A i \in 1 .. blocks : i \in 0 .. blocks /\ i # 0
    OBVIOUS
  <2> QED
    BY <2>1, <2>2, Zenon
<1>7. \A i \in 0 .. blocks : T[i] \in FullBlocks
  <2>1. ASSUME NEW i \in 1 .. blocks, T[i - 1] \in FullBlocks PROVE T[i] \in FullBlocks
    BY <1>6, <2>1, DoubleTyped
  <2> QED
    BY <1>1, <1>6, <2>1, SequelTyped
<1> QED
  BY <1>7 DEF T

LEMMA XtsBlockInverts ==
  ASSUME NEW key2 \in FullBlocks, NEW tweak \in FullBlocks, NEW block \in FullBlocks
  PROVE  /\ XtsBlock(key2, tweak, block) \in FullBlocks
         /\ XtsUnblock(key2, tweak, block) \in FullBlocks
         /\ XtsUnblock(key2, tweak, XtsBlock(key2, tweak, block)) = block
<1> DEFINE masked == Masked(block, tweak)
           coded == Cipher(key2, masked)
<1>1. masked \in FullBlocks
  BY MaskedTyped
<1>2. coded \in FullBlocks /\ Decipher(key2, masked) \in FullBlocks /\ Decipher(key2, coded) = masked
  BY <1>1, CipherAssumption
<1>3. /\ XtsBlock(key2, tweak, block) = Masked(coded, tweak)
      /\ XtsUnblock(key2, tweak, block) = Masked(Decipher(key2, masked), tweak)
      /\ XtsUnblock(key2, tweak, Masked(coded, tweak))
           = Masked(Decipher(key2, Masked(Masked(coded, tweak), tweak)), tweak)
  BY DEF XtsBlock, XtsUnblock
<1>4. Masked(masked, tweak) = block
  BY MaskedTwice
<1> HIDE DEF coded, masked
<1>5. Masked(Masked(coded, tweak), tweak) = coded
  BY <1>2, MaskedTwice
<1> QED
  BY <1>2, <1>3, <1>4, <1>5, MaskedTyped

LEMMA FilledTyped ==
  ASSUME NEW partial \in Seq(Bytes), NEW lender \in FullBlocks
  PROVE  Filled(partial, lender) \in FullBlocks
<1>1. ASSUME NEW j \in 1 .. BlockSize
      PROVE  (IF j <= Len(partial) THEN partial[j] ELSE lender[j]) \in Bytes
  <2>1. lender[j] \in Bytes
    BY DEF FullBlocks
  <2>2. j <= Len(partial) => partial[j] \in Bytes
    <3>1. Len(partial) \in Nat /\ j \in Nat \ {0}
      BY SizePositive
    <3> QED
      BY <3>1
  <2> QED
    BY <2>1, <2>2
<1> QED
  BY <1>1 DEF Filled, FullBlocks

(* The blocks of data that has one: those it has whole, and the rest.       *)
LEMMA XtsLayout ==
  ASSUME NEW data, Len(data) \in Nat, Len(data) >= BlockSize
  PROVE  /\ Whole(data) \in Nat \ {0} /\ Rest(data) \in 0 .. BlockSize - 1
         /\ \A i \in 0 .. Whole(data) - 1 :
              (i + 1) * BlockSize <= Len(data) /\ Extent(data, i) = BlockSize
         /\ Rest(data) = 0 => Indices(data) = 0 .. Whole(data) - 1
         /\ Rest(data) # 0 => Indices(data) = 0 .. Whole(data)
         /\ Extent(data, Whole(data)) = Rest(data)
<1> DEFINE n == Len(data)
           w == Whole(data)
           r == Rest(data)
<1>1. n \in Nat /\ BlockSize \in Nat \ {0} /\ n >= BlockSize
  BY SizePositive
<1>2. w \in Nat /\ r \in 0 .. BlockSize - 1 /\ n = w * BlockSize + r
  BY <1>1 DEF Whole, Rest
<1> HIDE DEF n, w, r
<1>3. w # 0
  BY <1>1, <1>2
<1>4. ASSUME NEW i \in Nat PROVE (i < w => (i + 1) * BlockSize <= n) /\ (i > w => i * BlockSize > n)
  <2>1. i \in Int /\ w \in Int /\ w + 1 \in Int /\ i + 1 \in Int /\ BlockSize \in Nat
    BY <1>1, <1>2
  <2>2. /\ i * BlockSize \in Nat /\ w * BlockSize \in Nat
        /\ (i + 1) * BlockSize = i * BlockSize + BlockSize
        /\ (w + 1) * BlockSize = w * BlockSize + BlockSize
    BY <1>1, <1>2
  <2>3. ASSUME i < w PROVE (i + 1) * BlockSize <= n
    <3>1. (i + 1) * BlockSize <= w * BlockSize
      <4>1. i + 1 <= w
        BY <2>1, <2>3
      <4> QED
        BY <2>1, <4>1, ProductGrows
    <3> QED
      BY <1>1, <1>2, <2>2, <3>1
  <2>4. ASSUME i > w PROVE i * BlockSize > n
    <3>1. (w + 1) * BlockSize <= i * BlockSize
      <4>1. w + 1 <= i
        BY <2>1, <2>4
      <4> QED
        BY <2>1, <4>1, ProductGrows
    <3> QED
      BY <1>1, <1>2, <2>2, <3>1
  <2> QED
    BY <2>3, <2>4
<1>5. ASSUME NEW i PROVE i \in Indices(data) <=> i \in Nat /\ i * BlockSize < n
  BY <1>1, IndexBegins DEF n
<1>6. ASSUME NEW i \in 0 .. w - 1
      PROVE  i \in Nat /\ (i + 1) * BlockSize <= n /\ i * BlockSize < n /\ Extent(data, i) = BlockSize
  <2>1. i \in Nat /\ (i + 1) * BlockSize <= n
    <3>1. i \in Nat /\ i < w
      BY <1>2
    <3> QED
      BY <1>4, <3>1
  <2>2. (i + 1) * BlockSize = i * BlockSize + BlockSize /\ i * BlockSize \in Nat
    BY <1>1, <2>1
  <2> QED
    BY <1>1, <2>1, <2>2 DEF Extent, n
<1>7. Extent(data, w) = r
  <2>1. w * BlockSize \in Nat
    BY <1>1, <1>2
  <2> QED
    BY <1>1, <1>2, <2>1 DEF Extent, n
<1>8. w * BlockSize < n <=> r # 0
  <2>1. w * BlockSize \in Nat
    BY <1>1, <1>2
  <2> QED
    BY <1>1, <1>2, <2>1
<1>9. \A i \in Nat : i * BlockSize < n => i <= w
  <2>1. ASSUME NEW i \in Nat, i * BlockSize < n PROVE i <= w
    <3>1. i * BlockSize \in Int
      BY <1>1
    <3> QED
      BY <1>1, <1>2, <1>4, <2>1, <3>1
  <2> QED
    BY <2>1
<1>10. ASSUME r = 0 PROVE Indices(data) = 0 .. w - 1
  <2>1. ASSUME NEW i PROVE i \in Indices(data) <=> i \in 0 .. w - 1
    <3>1. i \in Nat /\ i * BlockSize < n => i # w /\ i <= w
      BY <1>8, <1>9, <1>10
    <3> QED
      BY <1>2, <1>5, <1>6, <3>1
  <2> QED
    BY <2>1
<1>11. ASSUME r # 0 PROVE Indices(data) = 0 .. w
  <2>1. ASSUME NEW i PROVE i \in Indices(data) <=> i \in 0 .. w
    <3>1. i \in 0 .. w => i = w \/ i \in 0 .. w - 1
      BY <1>2
    <3>2. i \in 0 .. w => i \in Nat /\ i * BlockSize < n
      BY <1>2, <1>6, <1>8, <1>11, <3>1
    <3> QED
      BY <1>2, <1>5, <1>9, <3>2
  <2> QED
    BY <2>1
<1> QED
  BY <1>2, <1>3, <1>6, <1>7, <1>10, <1>11 DEF n, w, r

(* Whole blocks joined, the last one perhaps cut off.                       *)
LEMMA JoinedWhole ==
  ASSUME NEW n \in Nat, NEW data, Len(data) = n,
         NEW results, \A i \in Indices(data) : results[i] \in FullBlocks
  PROVE  LET coded == Joined(n, results)
         IN /\ coded \in Seq(Bytes) /\ Len(coded) = n
            /\ Indices(coded) = Indices(data)
            /\ \A i \in Nat : Block(coded, i) = [j \in 1 .. Extent(data, i) |-> results[i][j]]
<1> DEFINE coded == Joined(n, results)
<1>1. Len(coded) = n
  BY BlockOfJoined
<1>2. Indices(coded) = Indices(data) /\ \A i : Extent(coded, i) = Extent(data, i)
  BY <1>1, SameIndices
<1>3. coded \in Seq(Bytes)
  <2>1. ASSUME NEW i \in Nat, i * BlockSize < n, NEW j \in 1 .. BlockSize
        PROVE  results[i][j] \in Bytes
    <3>1. i \in Indices(data)
      BY <2>1, IndexBegins
    <3> QED
      BY <3>1 DEF FullBlocks
  <2> QED
    BY <2>1, JoinedTyped
<1>4. ASSUME NEW i \in Nat
      PROVE  Block(coded, i) = [j \in 1 .. Extent(data, i) |-> results[i][j]]
  <2>1. Block(coded, i) = [j \in 1 .. Extent(coded, i) |-> results[i][j]]
    BY BlockOfJoined
  <2> QED
    BY <1>2, <2>1
<1> QED
  BY <1>1, <1>2, <1>3, <1>4

LEMMA XtsInverts ==
  ASSUME NEW key1 \in FullBlocks, NEW key2 \in FullBlocks, NEW sector \in Nat,
         NEW data \in Seq(Bytes), Len(data) >= BlockSize
  PROVE  /\ XtsEncrypt(key1, key2, sector, data) \in Seq(Bytes)
         /\ Len(XtsEncrypt(key1, key2, sector, data)) = Len(data)
         /\ XtsDecrypt(key1, key2, sector, XtsEncrypt(key1, key2, sector, data)) = data
<1> DEFINE n == Len(data)
           w == Whole(data)
           r == Rest(data)
           last == w - 1
           tweak == Tweaks(key1, sector, w)
           lender == XtsBlock(key2, tweak[last], Block(data, last))
           filled == Filled(Block(data, last + 1), lender)
           results == [i \in Indices(data) |->
                         IF r = 0 \/ i < last THEN XtsBlock(key2, tweak[i], Block(data, i))
                         ELSE IF i = last THEN XtsBlock(key2, tweak[last + 1], filled)
                         ELSE lender]
           coded == Joined(n, results)
           found == XtsUnblock(key2, tweak[last + 1], Block(coded, last))
           lent == Filled(Block(coded, last + 1), found)
           decoded == [i \in Indices(coded) |->
                         IF r = 0 \/ i < last THEN XtsUnblock(key2, tweak[i], Block(coded, i))
                         ELSE IF i = last THEN XtsUnblock(key2, tweak[last], lent)
                         ELSE found]
<1>1. n \in Nat /\ data = [p \in 1 .. n |-> data[p]] /\ BlockSize \in Nat
  BY SequenceIsItsBytes, SizePositive
<1>2. /\ w \in Nat \ {0} /\ r \in 0 .. BlockSize - 1
      /\ \A i \in 0 .. w - 1 : (i + 1) * BlockSize <= n /\ Extent(data, i) = BlockSize
      /\ r = 0 => Indices(data) = 0 .. w - 1
      /\ r # 0 => Indices(data) = 0 .. w
      /\ Extent(data, w) = r
  BY <1>1, XtsLayout
<1>3. XtsEncrypt(key1, key2, sector, data) = coded
  BY DEF XtsEncrypt
<1>4. ASSUME Len(coded) = n
      PROVE  XtsDecrypt(key1, key2, sector, coded) = Joined(n, decoded)
  <2>1. Whole(coded) = w /\ Rest(coded) = r
    BY <1>4 DEF Whole, Rest
  <2> HIDE DEF coded
  <2> QED
    BY <1>4, <2>1 DEF XtsDecrypt
<1> HIDE DEF n, w, r
<1>5. \A i \in 0 .. w : tweak[i] \in FullBlocks
  BY <1>2, TweaksTyped
<1> HIDE DEF tweak
<1>6. /\ last \in 0 .. w - 1 /\ last + 1 = w /\ last \in 0 .. w /\ last \in Nat /\ w \in 0 .. w
      /\ \A i \in 0 .. w - 1 : i \in 0 .. w /\ i \in Nat
  BY <1>2
<1>7. \A i \in 0 .. w - 1 : Block(data, i) \in FullBlocks
  BY <1>2, <1>6, WholeBlock DEF n
<1> HIDE DEF last
<1>8. lender \in FullBlocks /\ XtsUnblock(key2, tweak[last], lender) = Block(data, last)
  BY <1>5, <1>6, <1>7, XtsBlockInverts
<1>9. Block(data, w) = [j \in 1 .. r |-> data[w * BlockSize + j]]
      /\ Block(data, w) \in Seq(Bytes) /\ Len(Block(data, w)) = r
  <2>1. Block(data, w) = [j \in 1 .. r |-> data[w * BlockSize + j]]
    BY <1>1, <1>2, BlockExtent DEF n
  <2>2. \A j \in 1 .. r : data[w * BlockSize + j] \in Bytes
    BY <1>2, ByteMasked
  <2> QED
    BY <1>2, <2>1, <2>2
<1>10. filled \in FullBlocks /\ \A j \in 1 .. BlockSize :
         filled[j] = IF j <= r THEN Block(data, w)[j] ELSE lender[j]
  BY <1>6, <1>8, <1>9, FilledTyped DEF Filled
<1> HIDE DEF lender, filled
<1>11. \A i \in Indices(data) : results[i] \in FullBlocks
  <2>1. ASSUME NEW i \in Indices(data), r = 0 \/ i < last PROVE results[i] \in FullBlocks
    <3>1. i \in 0 .. w - 1
      BY <1>2, <1>6, <2>1
    <3> QED
      BY <1>5, <1>6, <1>7, <2>1, <3>1, XtsBlockInverts
  <2>2. XtsBlock(key2, tweak[last + 1], filled) \in FullBlocks
    BY <1>5, <1>6, <1>10, XtsBlockInverts
  <2> QED
    BY <1>8, <2>1, <2>2
<1>12. ASSUME NEW i \in Indices(data), r = 0 \/ i < last
       PROVE  results[i] = XtsBlock(key2, tweak[i], Block(data, i))
  BY <1>12
<1>13. r # 0 => /\ results[last] = XtsBlock(key2, tweak[w], filled)
                /\ results[w] = lender
  BY <1>2, <1>6
<1> HIDE DEF results
<1>14. /\ coded \in Seq(Bytes) /\ Len(coded) = n /\ Indices(coded) = Indices(data)
       /\ \A i \in Nat : Block(coded, i) = [j \in 1 .. Extent(data, i) |-> results[i][j]]
  BY <1>1, <1>11, JoinedWhole DEF n
<1> HIDE DEF coded
<1>15. ASSUME NEW i \in Indices(data), i \in 0 .. w - 1 PROVE Block(coded, i) = results[i]
  <2>1. Block(coded, i) = [j \in 1 .. BlockSize |-> results[i][j]]
    BY <1>2, <1>6, <1>14, <1>15
  <2>2. results[i] = [j \in 1 .. BlockSize |-> results[i][j]]
    BY <1>11 DEF FullBlocks
  <2> QED
    BY <2>1, <2>2
<1>16. ASSUME r # 0 PROVE found = filled /\ lent = lender
  <2>1. Block(coded, last) = XtsBlock(key2, tweak[w], filled)
    BY <1>2, <1>6, <1>13, <1>15, <1>16
  <2>2. found = filled
    BY <1>5, <1>6, <1>10, <2>1, XtsBlockInverts
  <2>3. Block(coded, w) = [j \in 1 .. r |-> lender[j]]
    BY <1>2, <1>13, <1>14, <1>16
  <2>4. Len(Block(coded, w)) = r
    BY <1>2, <2>3
  <2>5. ASSUME NEW j \in 1 .. BlockSize
        PROVE  (IF j <= r THEN Block(coded, w)[j] ELSE filled[j]) = lender[j]
    <3>1. j <= r => j \in 1 .. r
      BY <1>1, <1>2
    <3>2. j <= r => Block(coded, w)[j] = lender[j]
      BY <2>3, <3>1
    <3>3. ~(j <= r) => filled[j] = lender[j]
      BY <1>10
    <3> QED
      BY <3>2, <3>3
  <2>6. lent = [j \in 1 .. BlockSize |-> lender[j]]
    <3>1. lent = Filled(Block(coded, w), filled)
      BY <1>6, <2>2
    <3> HIDE DEF lent
    <3> QED
      BY <2>4, <2>5, <3>1 DEF Filled
  <2>7. lender = [j \in 1 .. BlockSize |-> lender[j]]
    BY <1>8 DEF FullBlocks
  <2> QED
    BY <2>2, <2>6, <2>7
<1> HIDE DEF found, lent
<1>17. ASSUME NEW i \in Indices(data), NEW j \in 1 .. Extent(data, i)
       PROVE  decoded[i][j] = Block(data, i)[j]
  <2>1. CASE r = 0 \/ i < last
    <3>1. i \in 0 .. w - 1
      BY <1>2, <1>6, <2>1
    <3>2. Block(coded, i) = XtsBlock(key2, tweak[i], Block(data, i))
      BY <1>12, <1>15, <2>1, <3>1
    <3>3. decoded[i] = XtsUnblock(key2, tweak[i], Block(coded, i))
      BY <1>14, <2>1
    <3> QED
      BY <1>5, <1>6, <1>7, <3>1, <3>2, <3>3, XtsBlockInverts
  <2>2. CASE r # 0 /\ i = last
    <3>1. decoded[i] = XtsUnblock(key2, tweak[last], lent)
      BY <1>6, <1>14, <2>2
    <3> QED
      BY <1>8, <1>16, <2>2, <3>1
  <2>3. CASE r # 0 /\ ~(i < last) /\ i # last
    <3>1. i = w /\ j \in 1 .. r
      BY <1>2, <1>6, <2>3
    <3>2. decoded[i] = found
      BY <1>14, <2>3
    <3>3. j \in 1 .. BlockSize /\ j <= r
      BY <1>1, <1>2, <3>1
    <3> QED
      BY <1>10, <1>16, <2>3, <3>1, <3>2, <3>3
  <2> QED
    BY <2>1, <2>2, <2>3
<1> HIDE DEF decoded
<1>18. Joined(n, decoded) = data
  BY <1>1, <1>17, JoinedBlocks DEF n
<1> QED
  BY <1>3, <1>4, <1>14, <1>18 DEF n

(* What is decrypted is bytes again, as many, whether it was encrypted so   *)
(* or not.                                                                  *)
LEMMA XtsDecryptTyped ==
  ASSUME NEW key1 \in FullBlocks, NEW key2 \in FullBlocks, NEW sector \in Nat,
         NEW data \in Seq(Bytes), Len(data) >= BlockSize
  PROVE  /\ XtsDecrypt(key1, key2, sector, data) \in Seq(Bytes)
         /\ Len(XtsDecrypt(key1, key2, sector, data)) = Len(data)
<1> DEFINE n == Len(data)
           w == Whole(data)
           r == Rest(data)
           last == w - 1
           tweak == Tweaks(key1, sector, w)
           found == XtsUnblock(key2, tweak[last + 1], Block(data, last))
           lent == Filled(Block(data, last + 1), found)
           decoded == [i \in Indices(data) |->
                         IF r = 0 \/ i < last THEN XtsUnblock(key2, tweak[i], Block(data, i))
                         ELSE IF i = last THEN XtsUnblock(key2, tweak[last], lent)
                         ELSE found]
<1>1. n \in Nat
  OBVIOUS
<1>2. /\ w \in Nat \ {0} /\ r \in 0 .. BlockSize - 1
      /\ \A i \in 0 .. w - 1 : (i + 1) * BlockSize <= n
      /\ r = 0 => Indices(data) = 0 .. w - 1
      /\ r # 0 => Indices(data) = 0 .. w
      /\ Extent(data, w) = r
  BY <1>1, XtsLayout
<1>3. XtsDecrypt(key1, key2, sector, data) = Joined(n, decoded)
  BY DEF XtsDecrypt
<1> HIDE DEF n, w, r
<1>4. \A i \in 0 .. w : tweak[i] \in FullBlocks
  BY <1>2, TweaksTyped
<1> HIDE DEF tweak
<1>5. /\ last \in 0 .. w - 1 /\ last + 1 = w /\ last \in 0 .. w /\ w \in 0 .. w
      /\ \A i \in 0 .. w - 1 : i \in 0 .. w /\ i \in Nat
  BY <1>2
<1>6. \A i \in 0 .. w - 1 : Block(data, i) \in FullBlocks
  BY <1>2, <1>5, WholeBlock DEF n
<1> HIDE DEF last
<1>7. found \in FullBlocks
  BY <1>4, <1>5, <1>6, XtsBlockInverts
<1>8. Block(data, w) \in Seq(Bytes)
  <2>1. Block(data, w) = [j \in 1 .. r |-> data[w * BlockSize + j]]
    BY <1>1, <1>2, BlockExtent DEF n
  <2>2. \A j \in 1 .. r : data[w * BlockSize + j] \in Bytes
    BY <1>2, ByteMasked
  <2>3. r \in Nat
    BY <1>2, SizePositive
  <2> QED
    BY <2>1, <2>2, <2>3
<1>9. lent \in FullBlocks
  BY <1>5, <1>7, <1>8, FilledTyped
<1> HIDE DEF found, lent
<1>10. \A i \in Indices(data) : decoded[i] \in FullBlocks
  <2>1. ASSUME NEW i \in Indices(data), r = 0 \/ i < last PROVE decoded[i] \in FullBlocks
    <3>1. i \in 0 .. w - 1
      BY <1>2, <1>5, <2>1
    <3> QED
      BY <1>4, <1>5, <1>6, <2>1, <3>1, XtsBlockInverts
  <2>2. XtsUnblock(key2, tweak[last], lent) \in FullBlocks
    BY <1>4, <1>5, <1>9, XtsBlockInverts
  <2> QED
    BY <1>7, <2>1, <2>2
<1> HIDE DEF decoded
<1> QED
  BY <1>1, <1>3, <1>10, JoinedWhole DEF n
-----------------------------------------------------------------------------
(* Files. *)

LEMMA SectorsBegin ==
  ASSUME NEW data \in Seq(Bytes), NEW k \in Nat, Len(data) = k * BlockSize
  PROVE  /\ Len(data) % BlockSize = 0 /\ Blocks(data) = k /\ Indices(data) = 0 .. k - 1
<1>1. BlockSize \in Nat \ {0} /\ k \in Int /\ 0 \in 0 .. BlockSize - 1
      /\ BlockSize - 1 \in 0 .. BlockSize - 1 /\ k * BlockSize \in Nat
  BY SizePositive
<1>2. (k * BlockSize + 0) % BlockSize = 0 /\ (k * BlockSize + (BlockSize - 1)) \div BlockSize = k
  BY <1>1, DivisionUnique
<1>3. /\ k * BlockSize + 0 = Len(data)
      /\ k * BlockSize + (BlockSize - 1) = Len(data) + BlockSize - 1
  BY <1>1
<1>4. Len(data) % BlockSize = 0
  BY <1>2, <1>3, Zenon
<1>5. (Len(data) + BlockSize - 1) \div BlockSize = k
  BY <1>2, <1>3, Zenon
<1> QED
  BY <1>4, <1>5 DEF Blocks, Indices

LEMMA PlainHeaderTyped ==
  ASSUME NEW content, ContentTyped(content)
  PROVE  LET plain == PlainHeader(content)
         IN /\ plain \in Seq(Bytes) /\ Len(plain) = HeaderSectors * BlockSize
            /\ Blocks(plain) = HeaderSectors
            /\ \A i \in 0 .. HeaderSectors - 1 : Block(plain, i) \in FullBlocks
            /\ Block(plain, 1) = Cipher(content.deviceKey, content.titleKey)
            /\ Block(plain, 2) = content.counters
<1> DEFINE n == HeaderSectors * BlockSize
           results == [i \in 0 .. HeaderSectors - 1 |->
             CASE i = 0 -> [j \in 1 .. BlockSize |->
                              CASE j = 1 -> content.magic [] j = 2 -> content.version [] OTHER -> 0]
               [] i = 1 -> Cipher(content.deviceKey, content.titleKey)
               [] i = 2 -> content.counters]
           zeros == [p \in 1 .. n |-> 0]
           plain == Joined(n, results)
<1>1. n \in Nat /\ 0 \in Bytes /\ BlockSize \in Nat
  BY SizePositive DEF HeaderSectors, Bytes
<1>2. PlainHeader(content) = plain
  BY DEF PlainHeader
<1>3. ASSUME NEW i \in 0 .. HeaderSectors - 1
      PROVE  /\ results[i] \in FullBlocks
             /\ i = 1 => results[i] = Cipher(content.deviceKey, content.titleKey)
             /\ i = 2 => results[i] = content.counters
  <2> DEFINE first == [j \in 1 .. BlockSize |->
                         CASE j = 1 -> content.magic [] j = 2 -> content.version [] OTHER -> 0]
  <2>1. first \in FullBlocks
    <3>1. \A j \in 1 .. BlockSize :
            (CASE j = 1 -> content.magic [] j = 2 -> content.version [] OTHER -> 0) \in Bytes
      BY <1>1 DEF ContentTyped
    <3> QED
      BY <3>1 DEF FullBlocks
  <2>2. Cipher(content.deviceKey, content.titleKey) \in FullBlocks /\ content.counters \in FullBlocks
    BY CipherAssumption DEF ContentTyped
  <2>3. i = 0 \/ i = 1 \/ i = 2
    BY DEF HeaderSectors
  <2>4. /\ i = 0 => results[i] = first
        /\ i = 1 => results[i] = Cipher(content.deviceKey, content.titleKey)
        /\ i = 2 => results[i] = content.counters
    OBVIOUS
  <2> HIDE DEF first, results
  <2> QED
    BY <2>1, <2>2, <2>3, <2>4
<1> HIDE DEF results
<1>4. /\ zeros \in Seq(Bytes) /\ Len(zeros) = n
  BY <1>1
<1> HIDE DEF zeros
<1>5. Len(zeros) % BlockSize = 0 /\ Indices(zeros) = 0 .. HeaderSectors - 1
  BY <1>4, SectorsBegin DEF HeaderSectors
<1> HIDE DEF n
<1>6. /\ plain \in Seq(Bytes) /\ Len(plain) = n
      /\ \A i \in 0 .. HeaderSectors - 1 : Block(plain, i) = results[i]
  BY <1>3, <1>4, <1>5, CodedBlocks
<1> HIDE DEF plain
<1>7. Blocks(plain) = HeaderSectors
  BY <1>6, SectorsBegin DEF HeaderSectors, n
<1>8. 1 \in 0 .. HeaderSectors - 1 /\ 2 \in 0 .. HeaderSectors - 1
  BY DEF HeaderSectors
<1> QED
  BY <1>2, <1>3, <1>6, <1>7, <1>8 DEF n

LEMMA SealedHeaderTyped ==
  ASSUME NEW content, ContentTyped(content)
  PROVE  /\ SealedHeader(content) \in Seq(Bytes)
         /\ Len(SealedHeader(content)) = HeaderSectors * BlockSize
         /\ \A i \in 0 .. HeaderSectors - 1 :
              /\ Block(SealedHeader(content), i)
                   = XtsEncrypt(content.headerKey[1], content.headerKey[2], i,
                                Block(PlainHeader(content), i))
              /\ Block(SealedHeader(content), i) \in FullBlocks
<1> DEFINE plain == PlainHeader(content)
           key1 == content.headerKey[1]
           key2 == content.headerKey[2]
           results == [sector \in 0 .. HeaderSectors - 1 |->
                         XtsEncrypt(key1, key2, sector, Block(plain, sector))]
           sealed == Joined(Len(plain), results)
<1>1. key1 \in FullBlocks /\ key2 \in FullBlocks
  BY DEF ContentTyped
<1>2. /\ plain \in Seq(Bytes) /\ Len(plain) = HeaderSectors * BlockSize
      /\ \A i \in 0 .. HeaderSectors - 1 : Block(plain, i) \in FullBlocks
  BY PlainHeaderTyped
<1>3. SealedHeader(content) = sealed
  BY <1>2 DEF SealedHeader
<1> HIDE DEF plain, key1, key2
<1>4. ASSUME NEW i \in 0 .. HeaderSectors - 1
      PROVE  /\ results[i] = XtsEncrypt(key1, key2, i, Block(plain, i))
             /\ results[i] \in FullBlocks
  <2> DEFINE block == Block(plain, i)
             coded == XtsEncrypt(key1, key2, i, block)
  <2>1. block \in FullBlocks
    BY <1>2
  <2> HIDE DEF block
  <2>2. block \in Seq(Bytes) /\ Len(block) = BlockSize /\ BlockSize \in Nat
    BY <2>1, SizePositive DEF FullBlocks
  <2>3. i \in Nat
    BY DEF HeaderSectors
  <2>4. coded \in Seq(Bytes) /\ Len(coded) = BlockSize
    BY <1>1, <2>2, <2>3, XtsInverts
  <2>5. results[i] = coded
    BY DEF block
  <2> HIDE DEF coded, results
  <2>6. coded \in FullBlocks
    BY <2>4, FullSequence
  <2> QED
    BY <2>5, <2>6 DEF coded, block
<1> HIDE DEF results
<1>5. Len(plain) % BlockSize = 0 /\ Indices(plain) = 0 .. HeaderSectors - 1
  BY <1>2, SectorsBegin DEF HeaderSectors
<1>6. /\ sealed \in Seq(Bytes) /\ Len(sealed) = Len(plain)
      /\ \A i \in 0 .. HeaderSectors - 1 : Block(sealed, i) = results[i]
  BY <1>2, <1>4, <1>5, CodedBlocks
<1> HIDE DEF sealed
<1> QED
  BY <1>2, <1>3, <1>4, <1>6 DEF plain, key1, key2

LEMMA SealedSectionTyped ==
  ASSUME NEW f \in Files, NEW i \in DOMAIN f.sections
  PROVE  /\ f.sections[i] \in Seq(Bytes)
         /\ DecryptSection(f.content.titleKey, f.sections[i], f.content.counters[i])
              = f.content.sections[i]
<1> DEFINE key == f.content.titleKey
           counter == f.content.counters[i]
           plain == f.content.sections[i]
           counters == [b \in Indices(plain) |-> SectionCounter(counter, b)]
           sealed == Streamed(key, plain, counters)
<1>1. key \in FullBlocks /\ counter \in Bytes /\ plain \in Seq(Bytes)
  BY FileTyped DEF ContentTyped
<1>2. f.sections[i] = SealedSection(key, counter, plain)
  BY FileTyped
<1> HIDE DEF key, counter, plain
<1>3. \A b \in Indices(plain) : counters[b] = SectionCounter(counter, b) /\ counters[b] \in FullBlocks
  <2>1. \A b \in Indices(plain) : b \in Nat
    <3>1. Len(plain) \in Nat
      BY <1>1
    <3> QED
      BY <3>1, IndexBegins
  <2> QED
    BY <1>1, <2>1, CounterTyped
<1>4. SealedSection(key, counter, plain) = sealed
  <2>1. Streamed(key, plain, counters)
          = Joined(Len(plain), [b \in Indices(plain) |-> Masked(Block(plain, b), Cipher(key, counters[b]))])
    BY DEF Streamed
  <2>2. [b \in Indices(plain) |-> Masked(Block(plain, b), Cipher(key, counters[b]))]
          = [b \in Indices(plain) |->
               Masked(Block(plain, b), Cipher(key, BytesOf(counter, Half) \o BytesOf(b, BlockSize - Half)))]
    BY DEF SectionCounter
  <2> HIDE DEF counters
  <2> QED
    BY <2>1, <2>2 DEF SealedSection
<1>5. sealed \in Seq(Bytes) /\ Len(sealed) = Len(plain) /\ Streamed(key, sealed, counters) = plain
  <2> HIDE DEF counters
  <2> QED
    BY <1>1, <1>3, StreamedTyped, StreamedTwice
<1>6. DecryptSection(key, sealed, counter) = Streamed(key, sealed, counters)
  <2>1. Indices(sealed) = Indices(plain)
    BY <1>5, SameIndices
  <2> HIDE DEF sealed
  <2> QED
    BY <2>1 DEF DecryptSection
<1> HIDE DEF sealed
<1> QED
  BY <1>2, <1>4, <1>5, <1>6 DEF key, counter, plain

(* The header as it was before it was encrypted, so many sectors of it.     *)
FirstSectors(content, sectors) ==
  [p \in 1 .. sectors * BlockSize |-> PlainHeader(content)[p]]

LEMMA FirstSectorsTyped ==
  ASSUME NEW content, ContentTyped(content), NEW k \in 0 .. HeaderSectors
  PROVE  /\ FirstSectors(content, k) \in Seq(Bytes)
         /\ Len(FirstSectors(content, k)) = k * BlockSize
         /\ Blocks(FirstSectors(content, k)) = k
         /\ FirstSectors(content, HeaderSectors) = PlainHeader(content)
         /\ k < HeaderSectors =>
              FirstSectors(content, k) \o Block(PlainHeader(content), k)
                = FirstSectors(content, k + 1)
<1> DEFINE plain == PlainHeader(content)
           first == FirstSectors(content, k)
           next == Block(plain, k)
<1>1. /\ plain \in Seq(Bytes) /\ Len(plain) = HeaderSectors * BlockSize
      /\ \A i \in 0 .. HeaderSectors - 1 : Block(plain, i) \in FullBlocks
  BY PlainHeaderTyped
<1> HIDE DEF plain
<1>2. k \in Nat /\ BlockSize \in Nat /\ k * BlockSize \in Nat /\ HeaderSectors * BlockSize \in Nat
      /\ HeaderSectors \in Nat /\ k * BlockSize <= HeaderSectors * BlockSize
      /\ (k + 1) * BlockSize = k * BlockSize + BlockSize
  <2>1. k \in Nat /\ BlockSize \in Nat /\ HeaderSectors \in Nat /\ k \in Int /\ HeaderSectors \in Int
        /\ k <= HeaderSectors
    BY SizePositive DEF HeaderSectors
  <2>2. k * BlockSize <= HeaderSectors * BlockSize
    BY <2>1, ProductGrows
  <2> QED
    BY <2>1, <2>2
<1>3. first = [p \in 1 .. k * BlockSize |-> plain[p]]
  BY DEF FirstSectors, plain
<1>4. FirstSectors(content, HeaderSectors) = plain
  BY <1>1, SequenceIsItsBytes DEF FirstSectors, plain
<1> HIDE DEF first
<1>5. first \in Seq(Bytes) /\ Len(first) = k * BlockSize
  <2>1. \A p \in 1 .. k * BlockSize : plain[p] \in Bytes
    BY <1>1, <1>2
  <2> QED
    BY <1>2, <1>3, <2>1
<1>6. Blocks(first) = k
  BY <1>2, <1>5, SectorsBegin
<1>7. ASSUME k < HeaderSectors PROVE first \o next = FirstSectors(content, k + 1)
  <2>1. next \in FullBlocks
    BY <1>1, <1>2, <1>7
  <2>2. /\ \A j \in 1 .. BlockSize : next[j] = plain[k * BlockSize + j]
        /\ next \in Seq(Bytes) /\ Len(next) = BlockSize
    <3>1. next = [j \in 1 .. Extent(plain, k) |-> plain[k * BlockSize + j]]
      BY <1>1, <1>2, BlockExtent
    <3> HIDE DEF next
    <3>2. DOMAIN next = 1 .. BlockSize /\ next \in Seq(Bytes) /\ Len(next) = BlockSize
      BY <1>2, <2>1 DEF FullBlocks
    <3> QED
      BY <3>1, <3>2
  <2> HIDE DEF next
  <2>3. /\ Len(first \o next) = (k + 1) * BlockSize /\ first \o next \in Seq(Bytes)
    BY <1>2, <1>5, <2>2
  <2>4. ASSUME NEW p \in 1 .. (k + 1) * BlockSize PROVE (first \o next)[p] = plain[p]
    <3>1. CASE p <= k * BlockSize
      <4>1. (first \o next)[p] = first[p] /\ p \in 1 .. k * BlockSize
        BY <1>2, <1>5, <2>2, <3>1
      <4> QED
        BY <1>3, <4>1
    <3>2. CASE p > k * BlockSize
      <4> DEFINE j == p - k * BlockSize
      <4>1. j \in 1 .. BlockSize /\ p = k * BlockSize + j
        BY <1>2, <3>2
      <4>2. (first \o next)[p] = next[p - Len(first)]
        BY <1>2, <1>5, <2>2, <3>2
      <4>3. next[j] = plain[k * BlockSize + j]
        BY <2>2, <4>1
      <4>4. p - Len(first) = j
        BY <1>5
      <4> HIDE DEF j
      <4>5. (first \o next)[p] = next[j] /\ plain[k * BlockSize + j] = plain[p]
        BY <4>1, <4>2, <4>4, Zenon
      <4> QED
        BY <4>3, <4>5, Zenon
    <3>3. p <= k * BlockSize \/ p > k * BlockSize
      BY <1>2
    <3> QED
      BY <3>1, <3>2, <3>3, Zenon
  <2>5. first \o next = [p \in 1 .. (k + 1) * BlockSize |-> (first \o next)[p]]
    BY <2>3, SequenceIsItsBytes
  <2> QED
    BY <2>4, <2>5 DEF FirstSectors, plain
<1> QED
  BY <1>4, <1>5, <1>6, <1>7 DEF first, plain

-----------------------------------------------------------------------------
(* Reading. *)

ReadTyped == file \in Files /\ opened \in Seq(Bytes)

LEMMA OpenedTyped ==
  ASSUME NEW f \in Files
  PROVE  /\ f.plain \in Seq(Bytes) /\ f.header = SealedHeader(f.content)
         /\ ContentTyped(f.content)
         /\ \E k \in 0 .. HeaderSectors :
              f.plain = FirstSectors(f.content, k) /\ (f.encrypted <=> k = HeaderSectors)
<1>1. ContentTyped(f.content)
  BY FilesAssumption
<1>2. PICK k \in 0 .. HeaderSectors : f = Sealed(f.content, k)
  BY FilesAssumption
<1>3. f.plain = FirstSectors(f.content, k) /\ f.header = SealedHeader(f.content)
  BY <1>2 DEF Sealed, FirstSectors
<1>4. f.encrypted <=> k = HeaderSectors
  <2> DEFINE content == f.content
  <2>1. f = Sealed(content, k)
    BY <1>2
  <2> HIDE DEF content
  <2>2. f.encrypted = (k = HeaderSectors)
    BY <2>1 DEF Sealed
  <2> QED
    BY <2>2
<1> QED
  BY <1>1, <1>3, <1>4, FirstSectorsTyped

LEMMA ReadTypedInit == Init => ReadTyped
<1> SUFFICES ASSUME Init PROVE ReadTyped
  OBVIOUS
<1>1. file \in Files /\ opened = (IF file.encrypted THEN <<>> ELSE file.plain)
  BY DEF Init
<1>2. file.plain \in Seq(Bytes)
  BY <1>1, OpenedTyped
<1> QED
  BY <1>1, <1>2 DEF ReadTyped

LEMMA SectorTyped ==
  ASSUME NEW f \in Files, NEW k \in 0 .. HeaderSectors - 1
  PROVE  XtsDecrypt(HeaderKey[1], HeaderKey[2], k, Block(f.header, k)) \in Seq(Bytes)
<1>1. HeaderKey[1] \in FullBlocks /\ HeaderKey[2] \in FullBlocks
  BY FilesAssumption
<1>2. Block(f.header, k) \in FullBlocks
  BY OpenedTyped, SealedHeaderTyped
<1>3. Block(f.header, k) \in Seq(Bytes) /\ Len(Block(f.header, k)) = BlockSize /\ BlockSize \in Nat
  <2> DEFINE block == Block(f.header, k)
  <2> HIDE DEF block
  <2>1. block \in FullBlocks => block \in Seq(Bytes) /\ Len(block) = BlockSize /\ BlockSize \in Nat
    BY SizePositive DEF FullBlocks
  <2> QED
    BY <1>2, <2>1 DEF block
<1>4. k \in Nat /\ Len(Block(f.header, k)) >= BlockSize
  BY <1>3 DEF HeaderSectors
<1> QED
  BY <1>1, <1>3, <1>4, XtsDecryptTyped

LEMMA NextSector ==
  ASSUME ReadTyped, Blocks(opened) < HeaderSectors
  PROVE  Blocks(opened) \in 0 .. HeaderSectors - 1
<1>1. Len(opened) \in Nat
  BY DEF ReadTyped
<1> QED
  BY <1>1, BlocksBegin DEF HeaderSectors

LEMMA ReadTypedNext == ReadTyped /\ [Next]_vars => ReadTyped'
<1> SUFFICES ASSUME ReadTyped, [Next]_vars PROVE ReadTyped'
  OBVIOUS
<1>1. CASE OpenSector
  <2> DEFINE sector == Opened(Blocks(opened))
  <2>1. sector \in Seq(Bytes)
    BY <1>1, NextSector, SectorTyped DEF OpenSector, Opened, ReadTyped
  <2> HIDE DEF sector
  <2>2. opened' = opened \o sector /\ file' = file
    BY <1>1 DEF OpenSector, sector
  <2> QED
    BY <2>1, <2>2 DEF ReadTyped
<1>2. CASE ParseHeader
  BY <1>2 DEF ParseHeader, ReadTyped
<1>3. CASE TakeTitleKey
  BY <1>3 DEF TakeTitleKey, ReadTyped
<1>4. CASE ReadSection
  BY <1>4 DEF ReadSection, ReadTyped
<1>5. CASE UNCHANGED vars
  BY <1>5 DEF vars, ReadTyped
<1> QED
  BY <1>1, <1>2, <1>3, <1>4, <1>5 DEF Next

LEMMA TypedMeansInvert == ReadTyped => ModesInvert
<1> SUFFICES ASSUME ReadTyped,
                    NEW data \in {file.header, file.header \o Block(file.header, 0)}
                                   \union {file.sections[i] : i \in DOMAIN file.sections}
             PROVE  LET key == file.content.titleKey
                        iv == file.content.deviceKey
                    IN /\ EcbDecrypt(key, EcbEncrypt(key, data)) = data
                       /\ CtrXor(key, iv, CtrXor(key, iv, data)) = data
                       /\ Rest(data) = 0 =>
                            CbcDecrypt(key, iv, CbcEncrypt(key, iv, data)) = data
                       /\ Len(data) >= BlockSize =>
                            XtsDecrypt(key, iv, Len(opened),
                                       XtsEncrypt(key, iv, Len(opened), data)) = data
  BY DEF ModesInvert
<1> DEFINE key == file.content.titleKey
           iv == file.content.deviceKey
           counters == [i \in Indices(data) |-> CounterXored(iv, i)]
           stream == CtrXor(key, iv, data)
<1>1. file \in Files /\ Len(opened) \in Nat
  BY DEF ReadTyped
<1>2. key \in FullBlocks /\ iv \in FullBlocks
  BY <1>1, FilesAssumption DEF ContentTyped
<1>3. data \in Seq(Bytes)
  <2> DEFINE header == file.header
             extra == Block(header, 0)
  <2>1. header \in Seq(Bytes) /\ extra \in FullBlocks
    BY <1>1, OpenedTyped, SealedHeaderTyped DEF HeaderSectors
  <2>2. \A i \in DOMAIN file.sections : file.sections[i] \in Seq(Bytes)
    BY <1>1, SealedSectionTyped
  <2>3. data = header \/ data = header \o extra \/ \E i \in DOMAIN file.sections : data = file.sections[i]
    OBVIOUS
  <2> HIDE DEF header, extra
  <2>4. extra \in Seq(Bytes)
    BY <2>1, SizePositive DEF FullBlocks
  <2>5. header \o extra \in Seq(Bytes)
    BY <2>1, <2>4
  <2> QED
    BY <2>1, <2>2, <2>3, <2>5, Zenon
<1> HIDE DEF key, iv
<1>4. \A i \in Indices(data) : counters[i] = CounterXored(iv, i) /\ counters[i] \in FullBlocks
  <2>1. \A i \in Indices(data) : i \in Nat
    <3>1. Len(data) \in Nat
      BY <1>3
    <3> QED
      BY <3>1, IndexBegins
  <2> QED
    BY <1>2, <2>1, XoredTyped
<1>5. CtrXor(key, iv, stream) = data
  <2>1. stream = Streamed(key, data, counters)
    BY DEF CtrXor
  <2> HIDE DEF stream
  <2>2. CtrXor(key, iv, stream)
          = Streamed(key, stream, [i \in Indices(stream) |-> CounterXored(iv, i)])
    BY DEF CtrXor
  <2> HIDE DEF counters
  <2>3. Len(stream) = Len(data)
    BY <1>2, <1>3, <1>4, <2>1, StreamedTyped
  <2>4. [i \in Indices(stream) |-> CounterXored(iv, i)] = counters
    BY <2>3, SameIndices DEF counters
  <2> QED
    BY <1>2, <1>3, <1>4, <2>1, <2>2, <2>4, StreamedTwice
<1>6. EcbDecrypt(key, EcbEncrypt(key, data)) = data
  BY <1>2, <1>3, EcbInverts
<1>7. Rest(data) = 0 => CbcDecrypt(key, iv, CbcEncrypt(key, iv, data)) = data
  BY <1>2, <1>3, CbcInverts DEF Rest
<1>8. Len(data) >= BlockSize =>
        XtsDecrypt(key, iv, Len(opened), XtsEncrypt(key, iv, Len(opened), data)) = data
  BY <1>1, <1>2, <1>3, XtsInverts
<1> QED
  BY <1>5, <1>6, <1>7, <1>8 DEF key, iv, stream

(* What one mode encrypts it decrypts: for data of every length, with every *)
(* key and sector, and over every cipher whose decryption is its inverse.   *)
(* aes_ecb_decrypt finds the padding again, aes_xts_decrypt the stolen      *)
(* bytes, and aes_ctr_xor is its own inverse.                               *)
THEOREM ModesAlwaysInvert == Spec => []ModesInvert
<1> QED
  BY ReadTypedInit, ReadTypedNext, TypedMeansInvert, PTL DEF Spec

(* No two blocks of the sections of a file get one counter, unless the file *)
(* gives two sections one counter: decrypt_nca_section puts the section and *)
(* the block into halves that do not mix.                                   *)
THEOREM CountersNeverMeet == Spec => []CountersApart
<1>1. ReadTyped => CountersApart
  BY FilesKeepCountersApart DEF ReadTyped
<1> QED
  BY <1>1, ReadTypedInit, ReadTypedNext, PTL DEF Spec

-----------------------------------------------------------------------------
(* Nothing is left to read: a section of every content, or an error.        *)
Ended ==
  /\ stage \notin {"header", "parsed"}
  /\ stage = "keyed" => Len(contents) = Len(file.sections)

(* What has been read of a file that was made for this console is what the  *)
(* file was made from, and when nothing is left to read it is all of it.    *)
ReadAsMade ==
  Made => /\ contents = SubSeq(file.content.sections, 1, Len(contents))
          /\ Ended => Recovered

(* What each stage has established.                                         *)
HeaderInv ==
  /\ Blocks(opened) <= HeaderSectors
  /\ opened = FirstSectors(file.content, Blocks(opened))
  /\ ~file.encrypted \/ stage # "header" => opened = file.plain

StageInv ==
  /\ stage \in {"header", "parsed", "keyed", "TruncatedFile", "BadMagic", "UnsupportedVersion"}
  /\ stage # "header" => Verdict(opened) = IF stage = "keyed" THEN "parsed" ELSE stage

ContentsInv ==
  /\ stage = "keyed" => titleKey = file.content.titleKey
  /\ stage # "keyed" => contents = <<>>
  /\ contents \in Seq(Seq(Bytes)) /\ Len(contents) <= Len(file.content.sections)
  /\ \A i \in 1 .. Len(contents) : contents[i] = file.content.sections[i]

ReadInv == ReadTyped /\ (Made => HeaderInv /\ StageInv /\ ContentsInv)

LEMMA ReadInvInit == Init => ReadInv
<1> SUFFICES ASSUME Init, Made PROVE HeaderInv /\ StageInv /\ ContentsInv
  BY ReadTypedInit DEF ReadInv
<1>1. file \in Files /\ stage = "header" /\ contents = <<>>
      /\ opened = (IF file.encrypted THEN <<>> ELSE file.plain)
  BY DEF Init
<1>2. PICK k \in 0 .. HeaderSectors :
        file.plain = FirstSectors(file.content, k) /\ (file.encrypted <=> k = HeaderSectors)
  BY <1>1, OpenedTyped
<1>3. ContentTyped(file.content)
  BY <1>1, OpenedTyped
<1>4. HeaderInv
  <2>1. CASE file.encrypted
    <3>1. 0 \in 0 .. HeaderSectors
      BY DEF HeaderSectors
    <3>2. FirstSectors(file.content, 0) = <<>> /\ Blocks(FirstSectors(file.content, 0)) = 0
      <4>1. /\ FirstSectors(file.content, 0) \in Seq(Bytes)
            /\ Len(FirstSectors(file.content, 0)) = 0 * BlockSize
            /\ Blocks(FirstSectors(file.content, 0)) = 0
        BY <1>3, <3>1, FirstSectorsTyped
      <4>2. 0 * BlockSize = 0
        BY SizePositive
      <4> DEFINE first == FirstSectors(file.content, 0)
      <4> HIDE DEF first
      <4>3. first \in Seq(Bytes) /\ Len(first) = 0 => first = <<>>
        OBVIOUS
      <4> QED
        BY <4>1, <4>2, <4>3 DEF first
    <3> QED
      BY <1>1, <2>1, <3>2 DEF HeaderInv, HeaderSectors
  <2>2. CASE ~file.encrypted
    <3>1. Blocks(file.plain) = k /\ k <= HeaderSectors
      BY <1>2, <1>3, FirstSectorsTyped DEF HeaderSectors
    <3> QED
      BY <1>1, <1>2, <2>2, <3>1 DEF HeaderInv
  <2> QED
    BY <2>1, <2>2
<1>5. StageInv
  BY <1>1 DEF StageInv
<1>6. ContentsInv
  <2>1. Len(file.content.sections) \in Nat
    BY <1>3 DEF ContentTyped
  <2> QED
    BY <1>1, <2>1 DEF ContentsInv
<1> QED
  BY <1>4, <1>5, <1>6

LEMMA OpenSectorKeeps ==
  ASSUME ReadInv, Made, OpenSector PROVE HeaderInv' /\ StageInv' /\ ContentsInv'
<1> DEFINE k == Blocks(opened)
           content == file.content
           block == Block(PlainHeader(content), k)
<1>1. /\ file \in Files /\ stage = "header" /\ file.encrypted /\ k < HeaderSectors
      /\ opened' = opened \o Opened(k)
      /\ UNCHANGED <<file, stage, titleKey, contents>>
  BY DEF OpenSector, ReadInv, ReadTyped
<1>2. k \in 0 .. HeaderSectors - 1 /\ k \in 0 .. HeaderSectors /\ k + 1 \in 0 .. HeaderSectors
      /\ k \in Nat
  BY <1>1, NextSector DEF ReadInv, HeaderSectors
<1>3. opened = FirstSectors(content, k)
  BY DEF ReadInv, HeaderInv
<1>4. ContentTyped(content) /\ file.header = SealedHeader(content) /\ content.headerKey = HeaderKey
  BY <1>1, OpenedTyped DEF Made
<1>5. Opened(k) = block
  <2>1. block \in FullBlocks
    BY <1>2, <1>4, PlainHeaderTyped
  <2>2. Block(file.header, k) = XtsEncrypt(HeaderKey[1], HeaderKey[2], k, block)
    BY <1>2, <1>4, SealedHeaderTyped
  <2> HIDE DEF block, k
  <2>3. block \in Seq(Bytes) /\ Len(block) >= BlockSize
    BY <2>1, SizePositive DEF FullBlocks
  <2>4. HeaderKey[1] \in FullBlocks /\ HeaderKey[2] \in FullBlocks
    BY FilesAssumption
  <2>5. XtsDecrypt(HeaderKey[1], HeaderKey[2], k,
                   XtsEncrypt(HeaderKey[1], HeaderKey[2], k, block)) = block
    BY <1>2, <2>3, <2>4, XtsInverts
  <2> QED
    BY <2>2, <2>5 DEF Opened
<1>6. opened' = FirstSectors(content, k + 1) /\ Blocks(FirstSectors(content, k + 1)) = k + 1
  <2>1. FirstSectors(content, k) \o block = FirstSectors(content, k + 1)
    BY <1>1, <1>2, <1>4, FirstSectorsTyped
  <2>2. Blocks(FirstSectors(content, k + 1)) = k + 1
    BY <1>2, <1>4, FirstSectorsTyped
  <2> QED
    BY <1>1, <1>3, <1>5, <2>1, <2>2
<1>7. HeaderInv'
  <2>1. Blocks(opened') = k + 1 /\ k + 1 <= HeaderSectors
    BY <1>2, <1>6 DEF HeaderSectors
  <2>2. Blocks(opened)' = Blocks(opened')
    BY DEF Blocks
  <2>3. FirstSectors(file.content, Blocks(opened))' = FirstSectors(content, k + 1)
    BY <1>1, <2>1, <2>2 DEF FirstSectors, PlainHeader, Joined
  <2> QED
    BY <1>1, <1>6, <2>1, <2>2, <2>3 DEF HeaderInv
<1>8. StageInv' /\ ContentsInv'
  BY <1>1 DEF ReadInv, StageInv, ContentsInv
<1> QED
  BY <1>7, <1>8

LEMMA HeaderStays ==
  ASSUME HeaderInv, UNCHANGED <<file, opened>>, stage' = "header" => stage = "header",
         opened = file.plain \/ stage' = stage
  PROVE  HeaderInv'
<1> DEFINE k == Blocks(opened)
<1>1. Blocks(opened)' = k
  BY DEF Blocks
<1>2. FirstSectors(file.content, k)' = FirstSectors(file.content, k)
  <2>1. k' = k
    BY <1>1
  <2> HIDE DEF k
  <2> QED
    BY <2>1 DEF FirstSectors, PlainHeader, Joined
<1>3. /\ k <= HeaderSectors /\ opened = FirstSectors(file.content, k)
      /\ ~file.encrypted \/ stage # "header" => opened = file.plain
  BY DEF HeaderInv
<1> HIDE DEF k
<1>4. /\ k' <= HeaderSectors /\ opened' = FirstSectors(file.content, k)'
      /\ ~file'.encrypted \/ stage' # "header" => opened' = file'.plain
  BY <1>1, <1>2, <1>3 DEF k
<1> QED
  BY <1>4 DEF HeaderInv, k

(* A header of which all is there is the plain one.                         *)
LEMMA WholeHeader ==
  ASSUME ReadInv, Made, Blocks(opened) = HeaderSectors
  PROVE  opened = PlainHeader(file.content)
<1>1. ContentTyped(file.content)
  BY OpenedTyped DEF ReadInv, ReadTyped
<1>2. opened = FirstSectors(file.content, HeaderSectors)
  BY DEF ReadInv, HeaderInv
<1>3. HeaderSectors \in 0 .. HeaderSectors
  BY DEF HeaderSectors
<1> QED
  BY <1>1, <1>2, <1>3, FirstSectorsTyped

LEMMA ParseHeaderKeeps ==
  ASSUME ReadInv, Made, ParseHeader PROVE HeaderInv' /\ StageInv' /\ ContentsInv'
<1>1. /\ file \in Files /\ stage = "header" /\ stage' = Verdict(opened)
      /\ ~file.encrypted \/ Blocks(opened) = HeaderSectors
      /\ UNCHANGED <<file, opened, titleKey, contents>>
  BY DEF ParseHeader, ReadInv, ReadTyped
<1>2. Verdict(opened) \in {"parsed", "TruncatedFile", "BadMagic", "UnsupportedVersion"}
  BY DEF Verdict
<1>3. opened = file.plain
  <2>1. CASE ~file.encrypted
    BY <2>1 DEF ReadInv, HeaderInv
  <2>2. CASE file.encrypted
    <3>1. opened = PlainHeader(file.content)
      BY <1>1, <2>2, WholeHeader
    <3>2. PICK k \in 0 .. HeaderSectors :
            file.plain = FirstSectors(file.content, k) /\ (file.encrypted <=> k = HeaderSectors)
      BY <1>1, OpenedTyped
    <3>3. FirstSectors(file.content, HeaderSectors) = PlainHeader(file.content)
      BY <1>1, <3>2, OpenedTyped, FirstSectorsTyped
    <3> QED
      BY <2>2, <3>1, <3>2, <3>3
  <2> QED
    BY <2>1, <2>2
<1>4. HeaderInv'
  <2>1. HeaderInv
    BY DEF ReadInv
  <2> QED
    BY <1>1, <1>3, <2>1, HeaderStays
<1>5. StageInv'
  <2>1. Verdict(opened)' = Verdict(opened)
    BY <1>1 DEF Verdict, Blocks
  <2> QED
    BY <1>1, <1>2, <2>1 DEF StageInv
<1>6. ContentsInv'
  BY <1>1, <1>2 DEF ReadInv, ContentsInv
<1> QED
  BY <1>4, <1>5, <1>6

(* A header that was parsed was there, and has its key area and counters.   *)
LEMMA ParsedHeader ==
  ASSUME ReadInv, Made, stage \in {"parsed", "keyed"}
  PROVE  /\ Block(opened, 1) = Cipher(file.content.deviceKey, file.content.titleKey)
         /\ Block(opened, 2) = file.content.counters
<1>1. Verdict(opened) = "parsed" /\ Blocks(opened) <= HeaderSectors
  BY DEF ReadInv, StageInv, HeaderInv
<1>2. Blocks(opened) \in Nat
  <2>1. Len(opened) \in Nat
    BY DEF ReadInv, ReadTyped
  <2> QED
    BY <2>1, BlocksBegin
<1>3. ~(Blocks(opened) < HeaderSectors)
  BY <1>1 DEF Verdict
<1>4. Blocks(opened) = HeaderSectors
  BY <1>1, <1>2, <1>3 DEF HeaderSectors
<1>5. ContentTyped(file.content)
  BY OpenedTyped DEF ReadInv, ReadTyped
<1> QED
  BY <1>4, <1>5, WholeHeader, PlainHeaderTyped

LEMMA TakeTitleKeyKeeps ==
  ASSUME ReadInv, Made, TakeTitleKey PROVE HeaderInv' /\ StageInv' /\ ContentsInv'
<1>1. /\ file \in Files /\ stage = "parsed" /\ stage' = "keyed"
      /\ titleKey' = Decipher(DeviceKey(Sbk), Block(opened, 1))
      /\ UNCHANGED <<file, opened, contents>>
  BY DEF TakeTitleKey, ReadInv, ReadTyped
<1>2. titleKey' = file.content.titleKey
  <2>1. Block(opened, 1) = Cipher(file.content.deviceKey, file.content.titleKey)
    BY <1>1, ParsedHeader
  <2>2. /\ file.content.deviceKey = DeviceKey(Sbk)
        /\ file.content.deviceKey \in FullBlocks /\ file.content.titleKey \in FullBlocks
    BY <1>1, FilesAssumption DEF Made, ContentTyped
  <2> QED
    BY <1>1, <2>1, <2>2, CipherAssumption
<1>3. HeaderInv'
  <2>1. HeaderInv /\ opened = file.plain
    BY <1>1 DEF ReadInv, HeaderInv
  <2> QED
    BY <1>1, <2>1, HeaderStays
<1>4. StageInv'
  <2>1. Verdict(opened)' = Verdict(opened)
    BY <1>1 DEF Verdict, Blocks
  <2> QED
    BY <1>1, <2>1 DEF ReadInv, StageInv
<1>5. ContentsInv'
  BY <1>1, <1>2 DEF ReadInv, ContentsInv
<1> QED
  BY <1>3, <1>4, <1>5

LEMMA ReadSectionKeeps ==
  ASSUME ReadInv, Made, ReadSection PROVE HeaderInv' /\ StageInv' /\ ContentsInv'
<1> DEFINE i == Len(contents) + 1
           sections == file.content.sections
           read == DecryptSection(titleKey, file.sections[i], Block(opened, 2)[i])
<1>1. /\ file \in Files /\ stage = "keyed" /\ Len(contents) < Len(file.sections)
      /\ contents' = Append(contents, read)
      /\ UNCHANGED <<file, stage, opened, titleKey>>
  BY DEF ReadSection, ReadInv, ReadTyped
<1>2. /\ contents \in Seq(Seq(Bytes)) /\ Len(contents) <= Len(sections)
      /\ \A j \in 1 .. Len(contents) : contents[j] = sections[j]
      /\ titleKey = file.content.titleKey
  BY <1>1 DEF ReadInv, ContentsInv
<1>3. i \in DOMAIN file.sections /\ Len(file.sections) = Len(sections)
      /\ i \in 1 .. Len(sections) /\ sections \in Seq(Seq(Bytes))
  <2>1. sections \in Seq(Seq(Bytes)) /\ DOMAIN file.sections = DOMAIN sections
    BY <1>1, FileTyped
  <2>2. Len(file.sections) = Len(sections)
    <3>1. file.sections = [j \in 1 .. Len(sections) |-> file.sections[j]] /\ Len(sections) \in Nat
      <4>1. DOMAIN sections = 1 .. Len(sections) /\ Len(sections) \in Nat
        BY <2>1
      <4>2. file.sections = [j \in DOMAIN sections |-> SealedSection(file.content.titleKey,
                                                           file.content.counters[j], sections[j])]
        BY <1>1, FileTyped
      <4> HIDE DEF sections
      <4> QED
        BY <4>1, <4>2
    <3> HIDE DEF sections
    <3> QED
      BY <3>1
  <2>3. Len(contents) \in Nat /\ DOMAIN sections = 1 .. Len(sections) /\ Len(sections) \in Nat
    BY <1>2, <2>1
  <2> HIDE DEF sections
  <2> QED
    BY <1>1, <2>1, <2>2, <2>3
<1>4. read = sections[i]
  <2>1. Block(opened, 2)[i] = file.content.counters[i]
    BY <1>1, ParsedHeader
  <2> HIDE DEF i
  <2> QED
    BY <1>1, <1>2, <1>3, <2>1, SealedSectionTyped
<1> HIDE DEF read
<1>5. ContentsInv'
  <2>1. /\ contents' \in Seq(Seq(Bytes)) /\ Len(contents') = i /\ i <= Len(sections)
        /\ \A j \in 1 .. i : contents'[j] = sections[j]
    <3>1. read \in Seq(Bytes) /\ Len(contents) \in Nat /\ Len(sections) \in Nat
      BY <1>2, <1>3, <1>4
    <3> HIDE DEF sections
    <3> QED
      BY <1>1, <1>2, <1>3, <1>4, <3>1
  <2> QED
    BY <1>1, <1>2, <2>1 DEF ContentsInv
<1>6. HeaderInv'
  <2>1. HeaderInv
    BY DEF ReadInv
  <2> QED
    BY <1>1, <2>1, HeaderStays
<1>7. StageInv'
  <2>1. Verdict(opened)' = Verdict(opened)
    BY <1>1 DEF Verdict, Blocks
  <2> QED
    BY <1>1, <2>1 DEF ReadInv, StageInv
<1> QED
  BY <1>5, <1>6, <1>7

LEMMA ReadInvNext == ReadInv /\ [Next]_vars => ReadInv'
<1> SUFFICES ASSUME ReadInv, [Next]_vars, Made' PROVE HeaderInv' /\ StageInv' /\ ContentsInv'
  BY ReadTypedNext DEF ReadInv
<1>1. file' = file
  BY DEF Next, vars, OpenSector, ParseHeader, TakeTitleKey, ReadSection
<1>2. Made
  BY <1>1 DEF Made, DeviceKey
<1>3. CASE UNCHANGED vars
  <2>1. HeaderInv'
    BY <1>2, <1>3, HeaderStays DEF vars, ReadInv
  <2>2. Verdict(opened)' = Verdict(opened)
    BY <1>3 DEF vars, Verdict, Blocks
  <2>3. StageInv' /\ ContentsInv'
    BY <1>2, <1>3, <2>2 DEF vars, ReadInv, StageInv, ContentsInv
  <2> QED
    BY <2>1, <2>3
<1> QED
  BY <1>2, <1>3, OpenSectorKeeps, ParseHeaderKeeps, TakeTitleKeyKeeps, ReadSectionKeeps DEF Next

LEMMA InvMeansReadAsMade == ReadInv => ReadAsMade
<1> DEFINE sections == file.content.sections
<1> SUFFICES ASSUME ReadInv, Made
             PROVE  /\ contents = SubSeq(sections, 1, Len(contents))
                    /\ Ended => Recovered
  BY DEF ReadAsMade
<1>1. /\ contents \in Seq(Seq(Bytes)) /\ Len(contents) <= Len(sections)
      /\ \A i \in 1 .. Len(contents) : contents[i] = sections[i]
      /\ sections \in Seq(Seq(Bytes)) /\ DOMAIN file.sections = DOMAIN sections
  BY FileTyped DEF ReadInv, ContentsInv, ReadTyped
<1>2. contents = SubSeq(sections, 1, Len(contents))
  <2> HIDE DEF sections
  <2> QED
    BY <1>1
<1>3. ASSUME Ended PROVE Recovered
  <2>1. opened = file.plain /\ Verdict(opened) = IF stage = "keyed" THEN "parsed" ELSE stage
    BY <1>3 DEF Ended, ReadInv, HeaderInv, StageInv
  <2>2. CASE stage = "keyed"
    <3>1. Len(contents) = Len(file.sections)
      BY <1>3, <2>2 DEF Ended
    <3>2. Len(file.sections) = Len(sections)
      <4>1. DOMAIN sections = 1 .. Len(sections) /\ Len(sections) \in Nat
        BY <1>1
      <4>2. file.sections = [j \in DOMAIN sections |-> SealedSection(file.content.titleKey,
                                                           file.content.counters[j], sections[j])]
        BY FileTyped DEF ReadInv, ReadTyped
      <4> HIDE DEF sections
      <4> QED
        BY <4>1, <4>2
    <3>3. contents = sections
      <4> HIDE DEF sections
      <4>1. Len(contents) = Len(sections) /\ \A i \in 1 .. Len(contents) : contents[i] = sections[i]
        BY <1>1, <3>1, <3>2
      <4>2. /\ contents = [i \in 1 .. Len(contents) |-> contents[i]]
            /\ sections = [i \in 1 .. Len(sections) |-> sections[i]]
        BY <1>1
      <4> QED
        BY <4>1, <4>2
    <3> QED
      BY <2>1, <2>2, <3>3 DEF Recovered
  <2>3. CASE stage # "keyed"
    <3>1. stage # "parsed"
      BY <1>3 DEF Ended
    <3> QED
      BY <2>1, <2>3, <3>1 DEF Recovered
  <2> QED
    BY <2>2, <2>3
<1> QED
  BY <1>2, <1>3

(* A file made for this console, of any sections, keys and version, is      *)
(* never read as anything else: no stage of decrypt_nca_header,             *)
(* decrypt_nca_key_area and decrypt_nca_section goes on with what another   *)
(* one left wrong, and a file that is refused is refused for its own error. *)
THEOREM FilesAreReadAsMade == Spec => []ReadAsMade
<1> QED
  BY ReadInvInit, ReadInvNext, InvMeansReadAsMade, PTL DEF Spec
=============================================================================
