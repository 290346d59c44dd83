------------------------------ MODULE SecureBoot ------------------------------
(***************************************************************************)
(* What the boot ROM promises, one boot being one step: a firmware image   *)
(* whose header and package were signed together with the right key is     *)
(* decrypted into memory in full; any other leaves the memory as it was.   *)
(***************************************************************************)
EXTENDS Naturals, Sequences

CONSTANTS RamAddresses, Bytes,
          LoadAddr,          \* where the package goes
          WordBytes,         \* the unit it is written in
          Images, Fuses, Signers,
          Encrypt(_, _),     \* AES: a block under a key
          Crypt(_, _, _, _), \* AES-CTR: key, iv, position, byte
          SskSource, DeviceKeySource

VARIABLES request,  \* the boot asked for, as a set of at most one
          memory,   \* the shared memory, by address
          outcome   \* result of the last boot

Genuine(image, signer) ==
  /\ image.payload # <<>>
  /\ image.header.magic
  /\ image.signature = [by |-> signer, over |-> <<image.header, image.payload>>]

DeviceKey(fuses) == Encrypt(Encrypt(fuses.sbk, SskSource), DeviceKeySource)

(* Byte i of the package in memory: the last word is filled up with zeros.  *)
Filled(length) == ((length + WordBytes - 1) \div WordBytes) * WordBytes

PackageByte(image, fuses, i) ==
  IF i <= Len(image.payload)
  THEN Crypt(DeviceKey(fuses), image.header.iv, i, image.payload[i]) ELSE 0

Loaded(image, fuses) ==
  [address \in RamAddresses |->
     IF LoadAddr <= address /\ address < LoadAddr + Filled(Len(image.payload))
     THEN PackageByte(image, fuses, address - LoadAddr + 1) ELSE memory[address]]

Init ==
  /\ request = {}
  /\ memory = [address \in RamAddresses |-> 0]
  /\ outcome = "none"

Ask(image, fuses, signer) ==
  /\ request = {}
  /\ request' = {[image |-> image, fuses |-> fuses, signer |-> signer]}
  /\ outcome' = "running"
  /\ UNCHANGED memory

Accept(asked) ==
  /\ outcome = "running"
  /\ Genuine(asked.image, asked.signer)
  /\ memory' = Loaded(asked.image, asked.fuses)
  /\ outcome' = "Ok"
  /\ UNCHANGED request

Reject(asked) ==
  /\ outcome = "running"
  /\ ~Genuine(asked.image, asked.signer)
  /\ outcome' \in {"InvalidFirmware", "Pk11Parse", "SignatureVerify"}
  /\ request' = {}
  /\ UNCHANGED memory

Return ==
  /\ outcome = "Ok"
  /\ request' = {}
  /\ UNCHANGED <<memory, outcome>>

(* The cores' own stores, none of which happens during a boot.              *)
Store ==
  /\ request = {}
  /\ \E address \in RamAddresses, byte \in Bytes : memory' = [memory EXCEPT ![address] = byte]
  /\ UNCHANGED <<request, outcome>>

Next ==
  \/ \E image \in Images, fuses \in Fuses, signer \in Signers : Ask(image, fuses, signer)
  \/ \E asked \in request : Accept(asked) \/ Reject(asked)
  \/ Return
  \/ Store

Spec == Init /\ [][Next]_<<request, memory, outcome>>
=============================================================================
