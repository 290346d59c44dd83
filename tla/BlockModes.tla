------------------------------ MODULE BlockModes ------------------------------
(***************************************************************************)
(* The modes of operation of core/src/security/aes.rs over any block       *)
(* cipher: ECB with padding, CBC, XTS with ciphertext stealing, and CTR.   *)
(* A byte is a number below ByteValues, a block has BlockSize bytes, and   *)
(* a key is a block too.                                                   *)
(***************************************************************************)
EXTENDS Integers, Sequences

CONSTANTS BlockSize, ByteValues,
          Cipher(_, _), Decipher(_, _),   \* aes_encrypt_block, aes_decrypt_block
          ByteXor(_, _),                  \* of two bytes
          Polynomial                      \* what doubling adds on a carry: 0x87

Bytes == 0 .. ByteValues - 1
FullBlocks == [1 .. BlockSize -> Bytes]

(* A byte counts the bytes of padding.                                      *)
ASSUME BlockAssumption ==
  /\ BlockSize \in Nat \ {0, 1} /\ ByteValues \in Nat
  /\ BlockSize \in Bytes /\ Polynomial \in Bytes

ASSUME XorAssumption ==
  \A a, b \in Bytes : ByteXor(a, b) \in Bytes /\ ByteXor(ByteXor(a, b), b) = a

ASSUME CipherAssumption ==
  \A key, block \in FullBlocks :
    /\ Cipher(key, block) \in FullBlocks /\ Decipher(key, block) \in FullBlocks
    /\ Decipher(key, Cipher(key, block)) = block

(* A number divided again and again; its bytes, the highest first.          *)
Quotients(number) ==
  LET quotient[k \in 0 .. BlockSize] ==
        IF k = 0 THEN number ELSE quotient[k - 1] \div ByteValues
  IN quotient

BytesOf(number, length) ==
  [j \in 1 .. length |-> Quotients(number)[length - j] % ByteValues]

Fits(number, length) == Quotients(number)[length] = 0

Masked(bytes, mask) == [j \in DOMAIN bytes |-> ByteXor(bytes[j], mask[j])]

Blocks(data) == (Len(data) + BlockSize - 1) \div BlockSize

(* Block i of data, the last one as long as there is data.                  *)
Block(data, i) ==
  LET left == Len(data) - i * BlockSize
  IN [j \in 1 .. (IF left < BlockSize THEN left ELSE BlockSize) |-> data[i * BlockSize + j]]

(* So many bytes, of one result per block.                                  *)
Joined(length, results) ==
  [p \in 1 .. length |-> results[(p - 1) \div BlockSize][((p - 1) % BlockSize) + 1]]

Indices(data) == 0 .. Blocks(data) - 1
-----------------------------------------------------------------------------
PaddingOf(data) == BlockSize - (Len(data) % BlockSize)

Padded(data) ==
  [p \in 1 .. Len(data) + PaddingOf(data) |->
     IF p <= Len(data) THEN data[p] ELSE PaddingOf(data)]

Unpadded(data) ==
  LET last == data[Len(data)]
  IN IF last \in 1 .. BlockSize THEN [p \in 1 .. Len(data) - last |-> data[p]] ELSE data

EcbEncrypt(key, data) ==
  IF data = <<>> THEN <<>>
  ELSE Joined(Len(Padded(data)),
              [i \in Indices(Padded(data)) |-> Cipher(key, Block(Padded(data), i))])

EcbDecrypt(key, data) ==
  IF data = <<>> THEN <<>>
  ELSE Unpadded(Joined(Len(data), [i \in Indices(data) |-> Decipher(key, Block(data, i))]))

CbcDecrypt(key, iv, data) ==
  Joined(Len(data), [i \in Indices(data) |->
    Masked(Decipher(key, Block(data, i)), IF i = 0 THEN iv ELSE Block(data, i - 1))])

(* External: the encryption whose inverse CBC decryption is.                *)
Chain(key, iv, data) ==
  LET chain[i \in 0 .. Blocks(data)] ==
        IF i = 0 THEN iv ELSE Cipher(key, Masked(Block(data, i - 1), chain[i - 1]))
  IN chain

CbcEncrypt(key, iv, data) ==
  LET chain == Chain(key, iv, data)
  IN Joined(Len(data), [i \in Indices(data) |-> chain[i + 1]])
-----------------------------------------------------------------------------
(* gf128_mul_x: every byte is shifted and takes the bit the next one loses. *)
HighBit(byte) == IF 2 * byte >= ByteValues THEN 1 ELSE 0

Double(block) ==
  LET shifted == [j \in 1 .. BlockSize |->
                    (2 * block[j] + (IF j < BlockSize THEN HighBit(block[j + 1]) ELSE 0))
                      % ByteValues]
  IN IF HighBit(block[1]) = 0 THEN shifted
     ELSE [shifted EXCEPT ![BlockSize] = ByteXor(@, Polynomial)]

(* The tweaks of a sector, whose number key1 encrypts.                      *)
Tweaks(key1, sector, blocks) ==
  LET tweak[i \in 0 .. blocks] ==
        IF i = 0 THEN Cipher(key1, BytesOf(sector, BlockSize)) ELSE Double(tweak[i - 1])
  IN tweak

XtsBlock(key2, tweak, block) == Masked(Cipher(key2, Masked(block, tweak)), tweak)
XtsUnblock(key2, tweak, block) == Masked(Decipher(key2, Masked(block, tweak)), tweak)

Whole(data) == Len(data) \div BlockSize
Rest(data) == Len(data) % BlockSize

(* A partial block, filled from the end of another.                         *)
Filled(partial, lender) ==
  [j \in 1 .. BlockSize |-> IF j <= Len(partial) THEN partial[j] ELSE lender[j]]

(* The last whole block lends the end of its ciphertext to the partial one, *)
(* and the two change places.                                               *)
XtsEncrypt(key1, key2, sector, data) ==
  LET tweak == Tweaks(key1, sector, Whole(data))
      last == Whole(data) - 1
      lender == XtsBlock(key2, tweak[last], Block(data, last))
      filled == Filled(Block(data, last + 1), lender)
  IN Joined(Len(data), [i \in Indices(data) |->
       IF Rest(data) = 0 \/ i < last THEN XtsBlock(key2, tweak[i], Block(data, i))
       ELSE IF i = last THEN XtsBlock(key2, tweak[last + 1], filled)
       ELSE lender])

(* Mutant: the two last blocks are decrypted with each other's tweak.       *)
XtsDecryptInOrder(key1, key2, sector, data) ==
  LET tweak == Tweaks(key1, sector, Whole(data))
      last == Whole(data) - 1
      filled == XtsUnblock(key2, tweak[last], Block(data, last))
      lender == Filled(Block(data, last + 1), filled)
  IN Joined(Len(data), [i \in Indices(data) |->
       IF Rest(data) = 0 \/ i < last THEN XtsUnblock(key2, tweak[i], Block(data, i))
       ELSE IF i = last THEN XtsUnblock(key2, tweak[last + 1], lender)
       ELSE filled])

XtsDecrypt(key1, key2, sector, data) ==
  LET tweak == Tweaks(key1, sector, Whole(data))
      last == Whole(data) - 1
      filled == XtsUnblock(key2, tweak[last + 1], Block(data, last))
      lender == Filled(Block(data, last + 1), filled)
  IN Joined(Len(data), [i \in Indices(data) |->
       IF Rest(data) = 0 \/ i < last THEN XtsUnblock(key2, tweak[i], Block(data, i))
       ELSE IF i = last THEN XtsUnblock(key2, tweak[last], lender)
       ELSE filled])
-----------------------------------------------------------------------------
Half == BlockSize \div 2

(* The counters of aes_ctr_xor: the index of the block goes into the first  *)
(* half of the iv.                                                          *)
CounterXored(iv, i) ==
  [j \in 1 .. BlockSize |-> IF j <= Half THEN ByteXor(iv[j], BytesOf(i, Half)[j]) ELSE iv[j]]

(* Data with the stream of a counter for every block.                       *)
Streamed(key, data, counters) ==
  Joined(Len(data), [i \in Indices(data) |-> Masked(Block(data, i), Cipher(key, counters[i]))])

CtrXor(key, iv, data) == Streamed(key, data, [i \in Indices(data) |-> CounterXored(iv, i)])
=============================================================================
