------------------------------- MODULE BootRom -------------------------------
(***************************************************************************)
(* BootRom::boot (core/src/security/bootrom.rs) on core 1, phase by phase. *)
(* An image is its signature, its PK11 header and its encrypted package;   *)
(* one whose package is empty stands for every image of fewer than         *)
(* MIN_FIRMWARE_SIZE bytes.  A signature is known by who made it and over  *)
(* what.  The version and the length in the header only warn.              *)
(***************************************************************************)
EXTENDS MemoryMap

CONSTANTS LoadAddr, WordBytes,   \* PACKAGE2_LOAD_ADDR; 4
          Bytes, Images, Fuses, Signers,
          Encrypt(_, _), Crypt(_, _, _, _), SskSource, DeviceKeySource

(* Every package fits below the window of the fuses: up to 768 MB.          *)
ASSUME PackageAssumption ==
  /\ WordBytes \in Nat \ {0} /\ LoadAddr \in Nat /\ MmioEnd <= LoadAddr
  /\ \A image \in Images :
       /\ image.payload \in Seq(Bytes)
       /\ LoadAddr + ((Len(image.payload) + WordBytes - 1) \div WordBytes) * WordBytes
            <= EfuseBase

VARIABLES memory, outcome,
          phase,     \* the last phase completed, or Idle
          job,       \* what boot was called with
          key,       \* the device key
          package,   \* package 2, decrypted
          placed     \* words of it written to memory

bootVars == <<memory, outcome, phase, job, key, package, placed>>

NoJob == "no job"
NoKey == "no key"

RamAddresses == {address \in 0 .. MemorySize : InRam(address)}

BootInit ==
  /\ memory = [address \in RamAddresses |-> 0]
  /\ outcome = "none"
  /\ phase = "Idle"
  /\ job = NoJob
  /\ key = NoKey
  /\ package = <<>>
  /\ placed = 0

(* Mutant: the signature is checked over the package alone.                 *)
VerifyPackage(signer, signature, signed) ==
  signature.by = signer /\ signature.over[2] = signed[2]

Verify(signer, signature, signed) ==
  signature = [by |-> signer, over |-> signed]

SignedPart(image) == <<image.header, image.payload>>

DeriveSsk(fuses) == Encrypt(fuses.sbk, SskSource)
DeriveDeviceKey(ssk) == Encrypt(ssk, DeviceKeySource)

(* A zero is a byte, and a byte that is decrypted is one.                    *)
ASSUME BytesAssumption ==
  /\ 0 \in Bytes
  /\ \A fuses \in Fuses, image \in Images : \A i \in DOMAIN image.payload :
       Crypt(DeriveDeviceKey(DeriveSsk(fuses)), image.header.iv, i, image.payload[i]) \in Bytes

WordsOf(bytes) == (Len(bytes) + WordBytes - 1) \div WordBytes
Words == WordsOf(package)

(* The byte of the package that belongs at an address, zero in the padding. *)
ByteAt(address) ==
  IF address - LoadAddr < Len(package) THEN package[address - LoadAddr + 1] ELSE 0

(* Mutant: the padding of the last word is left as it is in memory.         *)
WordRangeUnpadded(word) ==
  {address \in RamAddresses : /\ LoadAddr + word * WordBytes <= address
                              /\ address < LoadAddr + word * WordBytes + WordBytes
                              /\ address - LoadAddr < Len(package)}

WordRange(word) ==
  (LoadAddr + word * WordBytes) .. (LoadAddr + word * WordBytes + WordBytes - 1)

(* boot returns: what it had on its stack is gone.                          *)
Return(result) ==
  /\ phase' = "Idle"
  /\ outcome' = result
  /\ job' = NoJob
  /\ key' = NoKey
  /\ package' = <<>>
  /\ placed' = 0

Fail(result) == Return(result) /\ UNCHANGED memory

Advance(from, to) == phase = from /\ phase' = to

StartBoot(image, fuses, signer) ==
  /\ Advance("Idle", "EfuseInit")
  /\ job' = [image |-> image, fuses |-> fuses, signer |-> signer]
  /\ UNCHANGED <<memory, outcome, key, package, placed>>

DeriveKeys ==
  /\ Advance("EfuseInit", "KeyDerivation")
  /\ key' = DeriveDeviceKey(DeriveSsk(job.fuses))
  /\ UNCHANGED <<memory, outcome, job, package, placed>>

ParsePk11 ==
  \/ phase = "KeyDerivation" /\ job.image.payload = <<>> /\ Fail("InvalidFirmware")
  \/ /\ phase = "KeyDerivation" /\ job.image.payload # <<>> /\ ~job.image.header.magic
     /\ Fail("Pk11Parse")
  \/ /\ Advance("KeyDerivation", "Pk11Parse")
     /\ job.image.payload # <<>> /\ job.image.header.magic
     /\ UNCHANGED <<memory, outcome, job, key, package, placed>>

VerifySignature ==
  \/ /\ phase = "Pk11Parse" /\ ~Verify(job.signer, job.image.signature, SignedPart(job.image))
     /\ Fail("SignatureVerify")
  \/ /\ Advance("Pk11Parse", "RsaVerify")
     /\ Verify(job.signer, job.image.signature, SignedPart(job.image))
     /\ UNCHANGED <<memory, outcome, job, key, package, placed>>

(* The code tests once more that the package is not empty; it cannot be.    *)
DecryptPackage2 ==
  /\ Advance("RsaVerify", "CtrDecrypt")
  /\ package' = [i \in 1 .. Len(job.image.payload) |->
                   Crypt(key, job.image.header.iv, i, job.image.payload[i])]
  /\ UNCHANGED <<memory, outcome, job, key, placed>>

ValidatePackage2 ==
  /\ Advance("CtrDecrypt", "Pk11Validate")
  /\ UNCHANGED <<memory, outcome, job, key, package, placed>>

(* A word that meets an address outside the memory is not written, and boot *)
(* does not notice: write_u32 drops the error.                              *)
PlaceWord ==
  /\ phase = "Pk11Validate"
  /\ placed < Words
  /\ memory' = [address \in RamAddresses |->
                  IF address \in WordRange(placed) /\ WordRange(placed) \subseteq RamAddresses
                  THEN ByteAt(address) ELSE memory[address]]
  /\ placed' = placed + 1
  /\ UNCHANGED <<outcome, phase, job, key, package>>

FinishBoot ==
  /\ phase = "Pk11Validate"
  /\ placed = Words
  /\ Return("Ok")
  /\ UNCHANGED memory

BootStep ==
  \/ DeriveKeys \/ ParsePk11 \/ VerifySignature \/ DecryptPackage2
  \/ ValidatePackage2 \/ PlaceWord \/ FinishBoot

(* The memory as the boot under way will leave it, once nothing can stop it. *)
Decrypted == phase \in {"CtrDecrypt", "Pk11Validate"}

ToPlace(address) ==
  /\ Decrypted
  /\ LoadAddr + placed * WordBytes <= address
  /\ address < LoadAddr + Words * WordBytes

Promised ==
  [address \in RamAddresses |->
     IF ToPlace(address) THEN ByteAt(address) ELSE memory[address]]

Secure == INSTANCE SecureBoot WITH
            request <- IF phase = "Idle" THEN {} ELSE {job},
            memory <- Promised,
            outcome <- IF phase = "Idle" THEN outcome
                       ELSE IF Decrypted THEN "Ok" ELSE "running"

(* A boot is one step: a package gets into memory only whole, only if it    *)
(* was signed together with its header, and decrypted with the key of the   *)
(* fuses the boot was given; a boot that fails changes nothing.             *)
ImplementsSecureBoot == Secure!Spec
=============================================================================
