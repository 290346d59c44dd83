---------------------------- MODULE MachineProofs ----------------------------
(***************************************************************************)
(* What holds of a Machine for any number of cores and devices.  Its boots *)
(* implement SecureBoot, for any images, keys and memory map in which the  *)
(* packages fit below the fuses.  Every address of a bus has one owner,    *)
(* the cores share one distributor, their stacks are apart, and every      *)
(* variable keeps its type.                                                *)
(***************************************************************************)
EXTENDS Machine, SequenceTheorems, TLAPS

Jobs == [image : Images, fuses : Fuses, signer : Signers]

Keyed == {"KeyDerivation", "Pk11Parse", "RsaVerify", "CtrDecrypt", "Pk11Validate"}
Parsed == {"Pk11Parse", "RsaVerify", "CtrDecrypt", "Pk11Validate"}
Verified == {"RsaVerify", "CtrDecrypt", "Pk11Validate"}
Phases == Keyed \union {"Idle", "EfuseInit"}

PackageOf(asked) ==
  [i \in 1 .. Len(asked.image.payload) |->
     Crypt(Secure!DeviceKey(asked.fuses), asked.image.header.iv, i, asked.image.payload[i])]

(* What each phase has established of the job under way.                    *)
BootInv ==
  /\ memory = [address \in RamAddresses |-> memory[address]]
  /\ phase \in Phases
  /\ phase # "Idle" => job \in Jobs
  /\ phase \in Keyed => key = Secure!DeviceKey(job.fuses)
  /\ phase \in Parsed => job.image.payload # <<>> /\ job.image.header.magic
  /\ phase \in Verified => Verify(job.signer, job.image.signature, SignedPart(job.image))
  /\ Decrypted => package = PackageOf(job) /\ placed \in 0 .. Words
  /\ ~Decrypted => package = <<>> /\ placed = 0

LEMMA LengthOfPackage ==
  ASSUME NEW asked \in Jobs
  PROVE  /\ Len(PackageOf(asked)) = Len(asked.image.payload)
         /\ Len(asked.image.payload) \in Nat
<1>1. asked.image.payload \in Seq(Bytes)
  BY PackageAssumption DEF Jobs
<1>2. Len(asked.image.payload) \in Nat
  BY <1>1, LenProperties
<1> QED
  BY <1>2 DEF PackageOf

LEMMA WordsNat ==
  ASSUME NEW n \in Nat PROVE (n + WordBytes - 1) \div WordBytes \in Nat
BY PackageAssumption

(* All of a package's words are memory.                                     *)
LEMMA PackageInRam ==
  ASSUME NEW asked \in Jobs, NEW address \in Nat, LoadAddr <= address,
         address < LoadAddr + WordsOf(PackageOf(asked)) * WordBytes
  PROVE  address \in RamAddresses
<1>1. address < EfuseBase
  <2>1. LoadAddr + WordsOf(PackageOf(asked)) * WordBytes <= EfuseBase
    BY LengthOfPackage, PackageAssumption DEF WordsOf, Jobs
  <2>2. WordsOf(PackageOf(asked)) * WordBytes \in Nat
    BY LengthOfPackage, WordsNat, PackageAssumption DEF WordsOf
  <2> QED
    BY <2>1, <2>2, PackageAssumption, MapAssumption
<1>2. MmioEnd <= address
  BY PackageAssumption, MapAssumption
<1>3. Part(MmioEnd, EfuseBase) \in SharedParts
  BY DEF SharedParts
<1>4. InRam(address)
  BY <1>1, <1>2, <1>3 DEF InRam, Inside, Part
<1>5. address \in 0 .. MemorySize
  <2>1. CoreCount * StackSize \in Nat
    BY MapAssumption
  <2> QED
    BY <1>1, <2>1, MapAssumption, SizeAssumption
<1> QED
  BY <1>4, <1>5 DEF RamAddresses

LEMMA BootInvInit == Init => BootInv
BY DEF Init, BootInit, BootInv, Phases, Keyed, Parsed, Verified, Decrypted

LEMMA BootInvUnchanged == ASSUME BootInv, UNCHANGED bootVars PROVE BootInv'
BY DEF BootInv, bootVars, Decrypted, Words, WordsOf

LEMMA BootInvReturn ==
  ASSUME BootInv, NEW result, Fail(result) PROVE BootInv'
BY DEF BootInv, Fail, Return, Phases, Keyed, Parsed, Verified, Decrypted

LEMMA BootInvStep ==
  ASSUME BootInv, BootStep PROVE BootInv'
<1> USE DEF BootInv, Phases, Keyed, Parsed, Verified, Advance
<1>1. CASE DeriveKeys
  <2>1. key' = Secure!DeviceKey(job.fuses)
    BY <1>1 DEF DeriveKeys, DeriveDeviceKey, DeriveSsk, Secure!DeviceKey
  <2> QED
    BY <1>1, <2>1 DEF DeriveKeys, Decrypted
<1>2. CASE ParsePk11
  BY <1>2, BootInvReturn DEF ParsePk11, Decrypted
<1>3. CASE VerifySignature
  BY <1>3, BootInvReturn DEF VerifySignature, Decrypted
<1>4. CASE DecryptPackage2
  <2>1. package' = PackageOf(job)
    BY <1>4 DEF DecryptPackage2, PackageOf
  <2>2. Words' \in Nat
    BY <1>4, <2>1, LengthOfPackage, WordsNat DEF DecryptPackage2, Words, WordsOf
  <2>3. placed' \in 0 .. Words'
    BY <1>4, <2>2 DEF DecryptPackage2, Decrypted
  <2> QED
    BY <1>4, <2>1, <2>3 DEF DecryptPackage2, Decrypted, Secure!DeviceKey
<1>5. CASE ValidatePackage2
  BY <1>5 DEF ValidatePackage2, Decrypted, Words, WordsOf
<1>6. CASE PlaceWord
  <2>1. Words' = Words /\ Words \in Nat
    BY <1>6, LengthOfPackage, WordsNat DEF PlaceWord, Words, WordsOf, Decrypted
  <2>2. placed' \in 0 .. Words'
    BY <1>6, <2>1 DEF PlaceWord, Decrypted
  <2> QED
    BY <1>6, <2>2 DEF PlaceWord, Decrypted
<1>7. CASE FinishBoot
  BY <1>7 DEF FinishBoot, Return, Decrypted
<1> QED
  BY <1>1, <1>2, <1>3, <1>4, <1>5, <1>6, <1>7 DEF BootStep

LEMMA BootInvNext == BootInv /\ [Next]_vars => BootInv'
<1> SUFFICES ASSUME BootInv, [Next]_vars PROVE BootInv'
  OBVIOUS
<1>1. ASSUME NEW address, NEW byte, Store(address, byte) PROVE BootInv'
  BY <1>1 DEF Store, BootInv, Decrypted, Words, WordsOf, Phases, Keyed, Parsed, Verified
<1>2. ASSUME NEW image \in Images, NEW fuses \in Fuses, NEW signer \in Signers,
             StartBoot(image, fuses, signer)
      PROVE  BootInv'
  BY <1>2 DEF StartBoot, Advance, BootInv, Jobs, Decrypted, Phases, Keyed, Parsed, Verified
<1>3. CASE BootStep
  BY <1>3, BootInvStep
<1>4. CASE UNCHANGED bootVars
  BY <1>4, BootInvUnchanged
<1> QED
  BY <1>1, <1>2, <1>3, <1>4
  DEF Next, vars, RegisterMmioDevice, RegisterOnCore, RegisterGic
-----------------------------------------------------------------------------
(* How the state of a boot looks to SecureBoot.                             *)
AsRequest == IF phase = "Idle" THEN {} ELSE {job}
AsOutcome == IF phase = "Idle" THEN outcome ELSE IF Decrypted THEN "Ok" ELSE "running"
AsState == <<AsRequest, Promised, AsOutcome>>

LEMMA PromisedIsMemory ==
  ASSUME BootInv, ~Decrypted PROVE Promised = memory
BY DEF Promised, ToPlace, BootInv

LEMMA MapsInit == Init => Secure!Init
<1> SUFFICES ASSUME Init PROVE Secure!Init
  OBVIOUS
<1>1. phase = "Idle" /\ ~Decrypted /\ outcome = "none"
  BY DEF Init, BootInit, Decrypted
<1>2. Promised = memory
  BY <1>1, BootInvInit, PromisedIsMemory
<1> QED
  BY <1>1, <1>2 DEF Init, BootInit, Secure!Init

LEMMA MapsStart ==
  ASSUME BootInv, BootInv', NEW image \in Images, NEW fuses \in Fuses,
         NEW signer \in Signers, StartBoot(image, fuses, signer)
  PROVE  Secure!Next
<1>1. ~Decrypted /\ ~Decrypted' /\ phase = "Idle" /\ phase' = "EfuseInit"
  BY DEF StartBoot, Advance, Decrypted
<1>2. Promised' = Promised
  BY <1>1, PromisedIsMemory DEF StartBoot, Promised, ToPlace
<1>3. Secure!Ask(image, fuses, signer)
  BY <1>1, <1>2 DEF StartBoot, Secure!Ask
<1> QED
  BY <1>3 DEF Secure!Next

LEMMA MapsStore ==
  ASSUME BootInv, BootInv', NEW address \in StoreAddresses, NEW byte \in Bytes,
         Store(address, byte)
  PROVE  Secure!Next
<1>1. ~Decrypted /\ ~Decrypted' /\ phase = "Idle" /\ phase' = "Idle"
  BY DEF Store, Decrypted
<1>2. Promised = memory /\ Promised' = memory'
  <2>1. Promised = memory
    BY <1>1, PromisedIsMemory
  <2>2. memory' = [a \in RamAddresses |-> memory'[a]]
    BY DEF BootInv
  <2>3. Promised' = [a \in RamAddresses |-> memory'[a]]
    BY <1>1 DEF Promised, ToPlace
  <2> QED
    BY <2>1, <2>2, <2>3
<1>3. address \in RamAddresses
  <2>1. address \in Nat /\ InRam(address)
    BY MachineAssumption DEF Store
  <2>2. address < MemorySize
    <3>1. CoreCount * StackSize \in Nat
      BY MapAssumption
    <3> QED
      BY <2>1, <3>1, MapAssumption, SizeAssumption DEF InRam, Inside, SharedParts, Part
  <2> QED
    BY <2>1, <2>2, MapAssumption DEF RamAddresses
<1>4. Secure!Store
  BY <1>1, <1>2, <1>3 DEF Store, Secure!Store
<1> QED
  BY <1>4 DEF Secure!Next

LEMMA MapsFail ==
  ASSUME BootInv, NEW result, phase \in Phases, phase # "Idle", ~Decrypted, Fail(result),
         ~Secure!Genuine(job.image, job.signer),
         result \in {"InvalidFirmware", "Pk11Parse", "SignatureVerify"}
  PROVE  Secure!Next
<1>1. ~Decrypted' /\ phase' = "Idle" /\ outcome' = result
  BY DEF Fail, Return, Decrypted
<1>2. Promised' = Promised
  BY <1>1 DEF Promised, ToPlace, Fail
<1>3. Secure!Reject(job)
  BY <1>1, <1>2 DEF Secure!Reject
<1> QED
  BY <1>3 DEF Secure!Next

LEMMA MapsParse ==
  ASSUME BootInv, ParsePk11 PROVE Secure!Next \/ UNCHANGED AsState
<1>1. ASSUME phase = "KeyDerivation", NEW result, Fail(result),
             result \in {"InvalidFirmware", "Pk11Parse"},
             job.image.payload = <<>> \/ ~job.image.header.magic
      PROVE  Secure!Next
  <2>1. ~Secure!Genuine(job.image, job.signer)
    BY <1>1 DEF Secure!Genuine
  <2> QED
    BY <1>1, <2>1, MapsFail DEF Decrypted, BootInv
<1>2. ASSUME Advance("KeyDerivation", "Pk11Parse"),
             UNCHANGED <<memory, outcome, job, key, package, placed>>
      PROVE  UNCHANGED AsState
  BY <1>2 DEF Advance, AsState, AsRequest, AsOutcome, Promised, ToPlace, Decrypted
<1> QED
  BY <1>1, <1>2 DEF ParsePk11

LEMMA MapsVerify ==
  ASSUME BootInv, VerifySignature PROVE Secure!Next \/ UNCHANGED AsState
<1>1. ASSUME phase = "Pk11Parse", Fail("SignatureVerify"),
             ~Verify(job.signer, job.image.signature, SignedPart(job.image))
      PROVE  Secure!Next
  <2>1. ~Secure!Genuine(job.image, job.signer)
    BY <1>1 DEF Secure!Genuine, Verify, SignedPart
  <2> QED
    BY <1>1, <2>1, MapsFail DEF Decrypted, BootInv
<1>2. ASSUME Advance("Pk11Parse", "RsaVerify"),
             UNCHANGED <<memory, outcome, job, key, package, placed>>
      PROVE  UNCHANGED AsState
  BY <1>2 DEF Advance, AsState, AsRequest, AsOutcome, Promised, ToPlace, Decrypted
<1> QED
  BY <1>1, <1>2 DEF VerifySignature

(* The step at which SecureBoot loads: everything of the package is still   *)
(* to be placed, and nothing can stop it any more.                          *)
LEMMA MapsDecrypt ==
  ASSUME BootInv, BootInv', DecryptPackage2 PROVE Secure!Next
<1>1. ~Decrypted /\ Decrypted' /\ phase = "RsaVerify" /\ phase' = "CtrDecrypt"
  BY DEF DecryptPackage2, Advance, Decrypted
<1>2. /\ job \in Jobs /\ job' = job /\ placed' = 0 /\ memory' = memory
      /\ package' = PackageOf(job)
  BY <1>1 DEF BootInv, DecryptPackage2
<1>3. Secure!Genuine(job.image, job.signer)
  BY <1>1 DEF BootInv, Parsed, Verified, Secure!Genuine, Verify, SignedPart
<1>4. Promised' = Secure!Loaded(job.image, job.fuses)
  <2> DEFINE image == job.image
             n == Len(image.payload)
  <2>1. Words' = (n + WordBytes - 1) \div WordBytes /\ n \in Nat /\ Len(package') = n
    BY <1>2, LengthOfPackage DEF Words, WordsOf
  <2>2. Secure!Filled(n) = Words' * WordBytes
    BY <2>1 DEF Secure!Filled
  <2>3. placed' * WordBytes = 0
    BY <1>2, PackageAssumption
  <2>4. ASSUME NEW address \in RamAddresses, LoadAddr <= address,
               address < LoadAddr + Words' * WordBytes
        PROVE  ByteAt(address)' = Secure!PackageByte(image, job.fuses, address - LoadAddr + 1)
    <3>1. address \in Nat /\ LoadAddr \in Nat
      BY PackageAssumption, MapAssumption DEF RamAddresses
    <3>2. CASE address - LoadAddr < n
      <4>1. address - LoadAddr + 1 \in 1 .. n
        BY <2>1, <2>4, <3>1, <3>2
      <4>2. package'[address - LoadAddr + 1]
              = Crypt(Secure!DeviceKey(job.fuses), image.header.iv, address - LoadAddr + 1,
                      image.payload[address - LoadAddr + 1])
        BY <1>2, <4>1 DEF PackageOf
      <4>3. address - LoadAddr + 1 <= n
        BY <4>1, <2>1
      <4> QED
        BY <2>1, <3>2, <4>2, <4>3 DEF ByteAt, Secure!PackageByte
    <3>3. CASE ~(address - LoadAddr < n)
      <4>1. ~(address - LoadAddr + 1 <= n)
        BY <2>1, <3>1, <3>3
      <4> QED
        BY <2>1, <3>3, <4>1 DEF ByteAt, Secure!PackageByte
    <3> QED
      BY <3>2, <3>3
  <2>5. ASSUME NEW address \in RamAddresses
        PROVE  Promised'[address] = Secure!Loaded(image, job.fuses)[address]
    <3>1. Promised = memory
      BY <1>1, PromisedIsMemory
    <3>2. ToPlace(address)' <=> LoadAddr <= address /\ address < LoadAddr + Words' * WordBytes
      BY <1>1, <2>3, PackageAssumption DEF ToPlace
    <3>3. Promised'[address] = IF ToPlace(address)' THEN ByteAt(address)' ELSE memory[address]
      BY <1>2 DEF Promised
    <3>4. Secure!Loaded(image, job.fuses)[address]
            = IF LoadAddr <= address /\ address < LoadAddr + Words' * WordBytes
              THEN Secure!PackageByte(image, job.fuses, address - LoadAddr + 1)
              ELSE memory[address]
      BY <2>2, <3>1 DEF Secure!Loaded
    <3> QED
      BY <2>4, <3>2, <3>3, <3>4
  <2>6. /\ Promised' = [address \in RamAddresses |-> Promised'[address]]
        /\ Secure!Loaded(image, job.fuses)
             = [address \in RamAddresses |-> Secure!Loaded(image, job.fuses)[address]]
    BY DEF Promised, Secure!Loaded
  <2> QED
    BY <2>5, <2>6
<1>5. Secure!Accept(job)
  BY <1>1, <1>2, <1>3, <1>4 DEF Secure!Accept
<1> QED
  BY <1>1, <1>5 DEF Secure!Next

(* A word that is placed was promised, and the promise is kept.             *)
LEMMA MapsPlace ==
  ASSUME BootInv, PlaceWord PROVE UNCHANGED AsState
<1>1. Decrypted /\ Decrypted' /\ phase' = phase /\ phase # "Idle"
  BY DEF PlaceWord, Decrypted
<1>2. /\ job \in Jobs /\ package = PackageOf(job) /\ UNCHANGED <<outcome, job, package>>
      /\ placed' = placed + 1
  BY <1>1 DEF BootInv, PlaceWord
<1>3. Words' = Words /\ Words \in Nat /\ placed \in Nat /\ placed < Words
  <2>1. Words \in Nat
    BY <1>2, LengthOfPackage, WordsNat DEF Words, WordsOf
  <2> QED
    BY <1>1, <1>2, <2>1 DEF BootInv, PlaceWord, Words, WordsOf
<1> DEFINE from == LoadAddr + placed * WordBytes
           end == LoadAddr + Words * WordBytes
<1>4. /\ LoadAddr + placed' * WordBytes = from + WordBytes
      /\ from \in Nat /\ end \in Nat /\ LoadAddr \in Nat /\ WordBytes \in Nat \ {0}
      /\ LoadAddr <= from
      /\ from + WordBytes <= end
  <2>1. (placed + 1) * WordBytes = placed * WordBytes + WordBytes
    BY <1>3, PackageAssumption
  <2>2. placed * WordBytes \in Nat /\ Words * WordBytes \in Nat
    BY <1>3, PackageAssumption
  <2>3. (placed + 1) * WordBytes <= Words * WordBytes
    <3>1. (Words - (placed + 1)) * WordBytes >= 0
      <4>1. Words - (placed + 1) \in Nat
        BY <1>3
      <4> QED
        BY <4>1, PackageAssumption
    <3>2. (Words - (placed + 1)) * WordBytes = Words * WordBytes - (placed + 1) * WordBytes
      BY <1>3, PackageAssumption
    <3> QED
      BY <3>1, <3>2, <2>1, <2>2, PackageAssumption
  <2> QED
    BY <1>2, <2>1, <2>2, <2>3, PackageAssumption
<1>5. WordRange(placed) = from .. from + WordBytes - 1
  BY DEF WordRange
<1> HIDE DEF from, end
<1>6. WordRange(placed) \subseteq RamAddresses
  <2> SUFFICES ASSUME NEW address \in WordRange(placed) PROVE address \in RamAddresses
    OBVIOUS
  <2>1. address \in Nat /\ LoadAddr <= address /\ address < end
    BY <1>4, <1>5
  <2> QED
    BY <1>2, <2>1, PackageInRam DEF end, Words
<1>7. ASSUME NEW address \in RamAddresses PROVE Promised'[address] = Promised[address]
  <2>1. address \in Nat
    BY MapAssumption DEF RamAddresses
  <2>2. memory'[address] = IF address \in WordRange(placed) THEN ByteAt(address) ELSE memory[address]
    BY <1>6 DEF PlaceWord
  <2>3. ByteAt(address)' = ByteAt(address)
    BY <1>2 DEF ByteAt
  <2>4. ToPlace(address) <=> from <= address /\ address < end
    BY <1>1 DEF ToPlace, from, end
  <2>5. ToPlace(address)' <=> from + WordBytes <= address /\ address < end
    BY <1>1, <1>3, <1>4 DEF ToPlace, end
  <2>6. address \in WordRange(placed) <=> from <= address /\ address < from + WordBytes
    BY <1>4, <1>5, <2>1
  <2>7. ToPlace(address) <=> ToPlace(address)' \/ address \in WordRange(placed)
    BY <1>4, <2>1, <2>4, <2>5, <2>6
  <2>8. ~(ToPlace(address)' /\ address \in WordRange(placed))
    BY <1>4, <2>1, <2>5, <2>6
  <2> QED
    BY <2>2, <2>3, <2>7, <2>8 DEF Promised
<1>8. Promised' = Promised
  BY <1>7 DEF Promised
<1> QED
  BY <1>1, <1>2, <1>8 DEF AsState, AsRequest, AsOutcome

LEMMA MapsFinish ==
  ASSUME BootInv, FinishBoot PROVE Secure!Next
<1>1. Decrypted /\ ~Decrypted' /\ phase # "Idle" /\ phase' = "Idle" /\ outcome' = "Ok"
  BY DEF FinishBoot, Return, Decrypted
<1>2. ASSUME NEW address \in RamAddresses PROVE ~ToPlace(address)
  <2>1. placed = Words /\ Words \in Nat /\ LoadAddr \in Nat /\ Words * WordBytes \in Nat
    <3>1. Words \in Nat
      BY <1>1, LengthOfPackage, WordsNat DEF BootInv, Words, WordsOf
    <3> QED
      BY <3>1, PackageAssumption DEF FinishBoot
  <2>2. address \in Nat
    BY MapAssumption DEF RamAddresses
  <2> QED
    BY <2>1, <2>2 DEF ToPlace
<1>3. Promised' = Promised
  <2>1. Promised = [address \in RamAddresses |-> memory[address]]
    BY <1>2 DEF Promised
  <2>2. Promised' = [address \in RamAddresses |-> memory[address]]
    BY <1>1 DEF Promised, ToPlace, FinishBoot
  <2> QED
    BY <2>1, <2>2
<1>4. Secure!Return
  BY <1>1, <1>3 DEF Secure!Return
<1> QED
  BY <1>4 DEF Secure!Next

LEMMA MapsNext == BootInv /\ BootInv' /\ [Next]_vars => Secure!Next \/ UNCHANGED AsState
<1> SUFFICES ASSUME BootInv, BootInv', [Next]_vars PROVE Secure!Next \/ UNCHANGED AsState
  OBVIOUS
<1>1. CASE UNCHANGED bootVars
  BY <1>1 DEF bootVars, AsState, AsRequest, AsOutcome, Promised, ToPlace, ByteAt, Decrypted,
              Words, WordsOf
<1>2. CASE DeriveKeys \/ ValidatePackage2
  BY <1>2 DEF DeriveKeys, ValidatePackage2, Advance, AsState, AsRequest, AsOutcome, Promised,
              ToPlace, ByteAt, Decrypted, Words, WordsOf
<1>3. CASE BootStep
  BY <1>2, <1>3, MapsParse, MapsVerify, MapsDecrypt, MapsPlace, MapsFinish DEF BootStep
<1>4. ASSUME NEW image \in Images, NEW fuses \in Fuses, NEW signer \in Signers,
             StartBoot(image, fuses, signer)
      PROVE  Secure!Next
  BY <1>4, MapsStart
<1>5. ASSUME NEW address \in StoreAddresses, NEW byte \in Bytes, Store(address, byte)
      PROVE  Secure!Next
  BY <1>5, MapsStore
<1> QED
  BY <1>1, <1>3, <1>4, <1>5
  DEF Next, vars, RegisterMmioDevice, RegisterOnCore, RegisterGic

(* Whatever the images and keys, and whatever else the machine does between *)
(* boots: a boot loads exactly a genuine image's package, decrypted and     *)
(* padded, or leaves the memory alone.                                      *)
THEOREM BootsAreSecure == Spec => ImplementsSecureBoot
<1>1. BootInv /\ BootInv' /\ [Next]_vars
        => [Secure!Next]_<<IF phase = "Idle" THEN {} ELSE {job}, Promised,
                           IF phase = "Idle" THEN outcome
                           ELSE IF Decrypted THEN "Ok" ELSE "running">>
  BY MapsNext DEF AsState, AsRequest, AsOutcome
<1> QED
  BY <1>1, MapsInit, BootInvInit, BootInvNext, PTL DEF Spec, ImplementsSecureBoot, Secure!Spec
-----------------------------------------------------------------------------
USE DEF Part, Inside

LEMMA SmallRemainder ==
  ASSUME NEW a \in Nat, NEW m \in Nat, a < m PROVE a % m = a
OBVIOUS

LEMMA WindowEnd == End(GicWindow) = MmioEnd /\ GicWindow.base = MmioBase
<1>1. MmioEnd < AddressModulus
  BY MapAssumption, SizeAssumption, MachineAssumption, ModulusAssumption DEF Cores
<1>2. MmioBase + (MmioEnd - MmioBase) = MmioEnd /\ MmioEnd \in Nat
  BY MapAssumption
<1>3. GicWindow.base + GicWindow.size = MmioEnd /\ GicWindow.base = MmioBase
  BY <1>2 DEF GicWindow
<1> QED
  BY <1>1, <1>2, <1>3, SmallRemainder, ModulusAssumption DEF End

(* Ranges that do not overlap have no address in common.                    *)
LEMMA ApartMeansUncommon ==
  ASSUME NEW entry, NEW other, NEW address \in Nat,
         entry.base \in Nat, other.base \in Nat, End(entry) \in Nat, End(other) \in Nat,
         Covers(entry, address), Covers(other, address)
  PROVE  Overlaps(entry, other)
BY DEF Covers, Overlaps

Entries == [base : Nat, size : Nat, device : Instances]

BusesTyped == buses \in [Cores -> Seq(Entries)]

(* No two entries of a bus overlap: what register_device tests one by one.  *)
Disjoint ==
  \A core \in Cores : \A i, j \in DOMAIN buses[core] :
    i # j => ~Overlaps(buses[core][i], buses[core][j])

HasGic(core) ==
  \E i \in DOMAIN buses[core] : buses[core][i] = Entry(GicWindow, Distributor(gic))

Wired ==
  /\ created \in 0 .. MaxDistributors
  /\ gic = created
  /\ ~torn => \A core \in Cores : wired[core] = gic /\ (gic # 0 => HasGic(core))

BusInv == BusesTyped /\ Disjoint /\ Wired

LEMMA EndNat == ASSUME NEW entry \in Entries PROVE End(entry) \in Nat
BY ModulusAssumption DEF End, Entries

LEMMA OverlapsSymmetric ==
  ASSUME NEW entry, NEW other PROVE Overlaps(entry, other) <=> Overlaps(other, entry)
BY DEF Overlaps

(* Whatever the instances: entries put on buses they do not clash with.     *)
LEMMA PutOnDisjoint ==
  ASSUME BusesTyped, Disjoint,
         NEW cores, NEW device, NEW instance,
         device.base \in Nat, device.size \in Nat,
         \A core \in Cores : instance[core] \in Instances,
         \A core \in cores \cap Cores : ~Clashes(buses[core], device),
         PutOn(cores, device, instance)
  PROVE  BusesTyped' /\ Disjoint'
<1> DEFINE new(core) == Entry(device, instance[core])
<1>1. \A core \in Cores : new(core) \in Entries
  BY DEF Entry, Entries
<1>2. \A core \in Cores :
        buses'[core] = IF core \in cores THEN Append(buses[core], new(core)) ELSE buses[core]
  BY DEF PutOn
<1>3. \A core \in Cores : buses[core] \in Seq(Entries)
  BY DEF BusesTyped
<1>4. \A core \in Cores : buses'[core] \in Seq(Entries)
  <2> SUFFICES ASSUME NEW core \in Cores PROVE buses'[core] \in Seq(Entries)
    OBVIOUS
  <2>1. buses[core] \in Seq(Entries) /\ new(core) \in Entries
    BY <1>1, <1>3
  <2> HIDE DEF new
  <2>2. Append(buses[core], new(core)) \in Seq(Entries)
    BY <2>1, AppendProperties
  <2> QED
    BY <1>2, <2>1, <2>2
<1>5. BusesTyped'
  <2>1. buses' = [core \in Cores |-> buses'[core]]
    BY DEF PutOn
  <2> QED
    BY <1>4, <2>1, Instances' = Instances DEF BusesTyped, Entries, Instances
<1>6. Disjoint'
  <2> SUFFICES ASSUME NEW core \in Cores, NEW i \in DOMAIN buses'[core],
                      NEW j \in DOMAIN buses'[core], i # j
               PROVE  ~Overlaps(buses'[core][i], buses'[core][j])
    BY DEF Disjoint, Overlaps, End
  <2>1. CASE core \notin cores
    BY <1>2, <2>1 DEF Disjoint
  <2>2. CASE core \in cores
    <3> DEFINE bus == buses[core]
               last == Len(bus) + 1
    <3>1. buses'[core] = Append(bus, new(core)) /\ bus \in Seq(Entries)
      BY <1>2, <1>3, <2>2
    <3> HIDE DEF new, bus
    <3>2. /\ DOMAIN buses'[core] = 1 .. last
          /\ DOMAIN bus = 1 .. Len(bus) /\ Len(bus) \in Nat
          /\ buses'[core][last] = new(core)
          /\ \A k \in 1 .. Len(bus) : buses'[core][k] = bus[k]
      BY <1>1, <3>1, AppendProperties
    <3>3. \A k \in 1 .. Len(bus) : ~Overlaps(new(core), bus[k])
      <4>1. ~Clashes(bus, device)
        BY <2>2 DEF bus
      <4>2. \A k \in DOMAIN bus : Overlaps(new(core), bus[k]) => Overlaps(device, bus[k])
        BY DEF new, Overlaps, End, Entry
      <4> QED
        BY <3>2, <4>1, <4>2 DEF Clashes
    <3>4. \A k \in 1 .. Len(bus) : ~Overlaps(bus[k], new(core))
      BY <3>3, OverlapsSymmetric
    <3>5. \A k, l \in 1 .. Len(bus) : k # l => ~Overlaps(bus[k], bus[l])
      BY <3>2 DEF Disjoint, bus
    <3>6. (i \in 1 .. Len(bus) \/ i = last) /\ (j \in 1 .. Len(bus) \/ j = last)
      BY <3>2
    <3> HIDE DEF last
    <3> QED
      BY <3>2, <3>3, <3>4, <3>5, <3>6
  <2> QED
    BY <2>1, <2>2
<1> QED
  BY <1>5, <1>6

(* register_device tests the ranges: a bus that is served does not clash.   *)
LEMMA ServedDoNotClash ==
  ASSUME NEW device, NEW core \in Served(device)
  PROVE  core \in Cores /\ ~Clashes(buses[core], device)
BY MapAssumption DEF Served, Cores

LEMMA FreshInstances ==
  ASSUME NEW device \in Devices
  PROVE  \A core \in Cores : Fresh(device.name)[core] \in Instances
BY DEF Fresh, Instances

(* Entries are only added, so the controller's stays.                       *)
LEMMA PutOnKeeps ==
  ASSUME BusesTyped, NEW cores, NEW device, NEW instance,
         \A core \in Cores : instance[core] \in Instances,
         device.base \in Nat, device.size \in Nat,
         PutOn(cores, device, instance), NEW core \in Cores
  PROVE  \A i \in DOMAIN buses[core] :
           i \in DOMAIN buses'[core] /\ buses'[core][i] = buses[core][i]
<1> DEFINE new == Entry(device, instance[core])
<1>1. new \in Entries /\ buses[core] \in Seq(Entries)
  BY DEF Entry, Entries, BusesTyped
<1>2. buses'[core] = IF core \in cores THEN Append(buses[core], new) ELSE buses[core]
  BY DEF PutOn
<1> HIDE DEF new
<1> QED
  BY <1>1, <1>2, AppendProperties

(* After a complete register_gic the new entry is on every bus.             *)
LEMMA PutOnAdds ==
  ASSUME BusesTyped, NEW cores, NEW device, NEW instance,
         \A core \in Cores : instance[core] \in Instances,
         device.base \in Nat, device.size \in Nat,
         PutOn(cores, device, instance), NEW core \in Cores, core \in cores
  PROVE  \E i \in DOMAIN buses'[core] : buses'[core][i] = Entry(device, instance[core])
<1> DEFINE new == Entry(device, instance[core])
<1>1. new \in Entries /\ buses[core] \in Seq(Entries)
  BY DEF Entry, Entries, BusesTyped
<1>2. buses'[core] = Append(buses[core], new)
  BY DEF PutOn
<1>3. \E i \in DOMAIN buses'[core] : buses'[core][i] = new
  <2> HIDE DEF new
  <2>1. Len(buses[core]) + 1 \in DOMAIN Append(buses[core], new)
    BY <1>1, AppendProperties
  <2>2. Append(buses[core], new)[Len(buses[core]) + 1] = new
    BY <1>1, AppendProperties
  <2> QED
    BY <1>2, <2>1, <2>2
<1> QED
  BY <1>3

LEMMA HasGicKept ==
  ASSUME NEW core \in Cores, HasGic(core), gic' = gic,
         \A i \in DOMAIN buses[core] :
           i \in DOMAIN buses'[core] /\ buses'[core][i] = buses[core][i]
  PROVE  HasGic(core)'
BY DEF HasGic, Entry, GicWindow, Distributor

LEMMA BusInit == Init => BusInv
<1> SUFFICES ASSUME Init PROVE BusInv
  OBVIOUS
<1>1. \A core \in Cores : buses[core] = <<>>
  BY DEF Init
<1>2. BusesTyped
  BY EmptySeq DEF Init, BusesTyped
<1>3. Disjoint
  BY <1>1 DEF Disjoint
<1>4. Wired
  BY MachineAssumption DEF Init, Wired
<1> QED
  BY <1>2, <1>3, <1>4 DEF BusInv

LEMMA BusUnchanged ==
  ASSUME BusInv, UNCHANGED busVars PROVE BusInv'
<1> USE DEF BusInv, busVars
<1>1. BusesTyped'
  BY DEF BusesTyped, Entries, Instances
<1>2. Disjoint'
  BY DEF Disjoint, Overlaps, End
<1>3. Wired'
  BY DEF Wired, HasGic, Entry, GicWindow, Distributor
<1> QED
  BY <1>1, <1>2, <1>3

(* A registration of a device, on all cores or one, leaves the wiring.      *)
LEMMA PutOnKeepsWiring ==
  ASSUME BusInv, NEW cores, NEW device \in Devices,
         \A core \in cores \cap Cores : ~Clashes(buses[core], device),
         PutOn(cores, device, Fresh(device.name)),
         torn => torn', UNCHANGED <<wired, gic, created>>
  PROVE  BusInv'
<1> USE DEF BusInv
<1>1. BusesTyped' /\ Disjoint'
  BY FreshInstances, MachineAssumption, PutOnDisjoint
<1>2. Wired'
  <2> SUFFICES ASSUME ~torn', NEW core \in Cores, gic # 0 PROVE HasGic(core)'
    BY DEF Wired
  <2>1. HasGic(core)
    BY DEF Wired
  <2>2. \A i \in DOMAIN buses[core] :
          i \in DOMAIN buses'[core] /\ buses'[core][i] = buses[core][i]
    BY FreshInstances, MachineAssumption, PutOnKeeps
  <2> QED
    BY <2>1, <2>2, HasGicKept
<1> QED
  BY <1>1, <1>2

LEMMA RegisterGicKeeps ==
  ASSUME BusInv, RegisterGic PROVE BusInv'
<1> USE DEF BusInv
<1>1. \A core \in Cores : Shared[core] \in Instances
  <2>1. created + 1 \in 1 .. MaxDistributors
    BY MachineAssumption DEF Wired, RegisterGic
  <2> QED
    BY <2>1 DEF Shared, Instances
<1>2. GicWindow.base \in Nat /\ GicWindow.size \in Nat
  BY MapAssumption DEF GicWindow
<1>3. PutOn(Served(GicWindow), GicWindow, Shared)
  BY DEF RegisterGic
<1>4. BusesTyped' /\ Disjoint'
  BY <1>1, <1>2, <1>3, ServedDoNotClash, PutOnDisjoint
<1>5. Wired'
  <2>1. created' \in 0 .. MaxDistributors /\ gic' = created'
    BY MachineAssumption DEF Wired, RegisterGic
  <2>2. ASSUME ~torn', NEW core \in Cores
        PROVE  wired'[core] = gic' /\ HasGic(core)'
    <3>1. Served(GicWindow) = Cores
      BY <2>2 DEF RegisterGic
    <3>2. wired'[core] = gic'
      BY <3>1 DEF RegisterGic
    <3>3. \E i \in DOMAIN buses'[core] : buses'[core][i] = Entry(GicWindow, Shared[core])
      BY <1>1, <1>2, <1>3, <3>1, PutOnAdds
    <3>4. Shared[core] = Distributor(gic')
      BY DEF Shared, RegisterGic
    <3>5. HasGic(core)'
      BY <3>3, <3>4 DEF HasGic, Entry, GicWindow, Distributor
    <3> QED
      BY <3>2, <3>5
  <2> QED
    BY <2>1, <2>2 DEF Wired
<1> QED
  BY <1>4, <1>5

LEMMA BusNext == BusInv /\ [Next]_vars => BusInv'
<1> SUFFICES ASSUME BusInv, [Next]_vars PROVE BusInv'
  OBVIOUS
<1>1. ASSUME NEW device \in Devices, RegisterMmioDevice(device) PROVE BusInv'
  <2>1. \A core \in Served(device) \cap Cores : ~Clashes(buses[core], device)
    BY ServedDoNotClash
  <2> QED
    BY <1>1, <2>1, PutOnKeepsWiring DEF RegisterMmioDevice
<1>2. ASSUME NEW core \in Cores, NEW device \in Devices, RegisterOnCore(core, device)
      PROVE  BusInv'
  <2>1. \A c \in {core} \cap Cores : ~Clashes(buses[c], device)
    BY <1>2 DEF RegisterOnCore
  <2> QED
    BY <1>2, <2>1, PutOnKeepsWiring DEF RegisterOnCore
<1>3. CASE RegisterGic
  BY <1>3, RegisterGicKeeps
<1>4. CASE UNCHANGED busVars
  BY <1>4, BusUnchanged
<1> QED
  BY <1>1, <1>2, <1>3, <1>4 DEF Next, Store, vars, busVars

THEOREM BusInvariant == Spec => []BusInv
<1> QED
  BY BusInit, BusNext, PTL DEF Spec

(* Two devices that answered for one address would overlap.                 *)
LEMMA DisjointMeansOneOwner == BusInv => OneOwner
<1> SUFFICES ASSUME BusInv, NEW core \in Cores,
                    NEW i \in DOMAIN buses[core], NEW j \in DOMAIN buses[core],
                    NEW address \in 0 .. AddressModulus - 1,
                    Covers(buses[core][i], address), Covers(buses[core][j], address)
             PROVE  i = j
  BY DEF OneOwner
<1>1. buses[core][i] \in Entries /\ buses[core][j] \in Entries
  BY DEF BusInv, BusesTyped
<1>2. End(buses[core][i]) \in Nat /\ End(buses[core][j]) \in Nat
  BY <1>1, EndNat
<1>3. address \in Nat
  BY ModulusAssumption
<1>4. Overlaps(buses[core][i], buses[core][j])
  BY <1>1, <1>2, <1>3, ApartMeansUncommon DEF Entries
<1> QED
  BY <1>4 DEF BusInv, Disjoint

(* Every address of every bus has at most one device, however the devices   *)
(* were registered and whatever panicked on the way.                        *)
THEOREM OneOwnerHolds == Spec => []OneOwner
<1> QED
  BY BusInvariant, DisjointMeansOneOwner, PTL

LEMMA InvMeansOneDistributor == BusInv => OneDistributor
<1> SUFFICES ASSUME BusInv, ~torn, NEW core \in Cores
             PROVE  /\ wired[core] = gic
                    /\ gic # 0 => \A address \in MmioBase .. MmioEnd - 1 :
                                    DeviceAt(buses[core], address) = Distributor(gic)
  BY DEF OneDistributor
<1>1. wired[core] = gic
  BY DEF BusInv, Wired
<1>2. ASSUME gic # 0, NEW address \in MmioBase .. MmioEnd - 1
      PROVE  DeviceAt(buses[core], address) = Distributor(gic)
  <2>1. PICK i \in DOMAIN buses[core] :
          buses[core][i] = Entry(GicWindow, Distributor(gic))
    BY <1>2 DEF BusInv, Wired, HasGic
  <2>2. address \in 0 .. AddressModulus - 1
    BY MapAssumption, SizeAssumption, MachineAssumption, ModulusAssumption
  <2>3. End(buses[core][i]) = MmioEnd /\ buses[core][i].base = MmioBase
    BY <2>1, WindowEnd DEF Entry, End
  <2>4. Covers(buses[core][i], address)
    BY <2>3, MapAssumption DEF Covers
  <2>5. Covering(buses[core], address) = {i}
    BY <2>2, <2>4, DisjointMeansOneOwner DEF OneOwner, Covering
  <2>6. i \in Nat
    BY DEF BusInv, BusesTyped
  <2>7. Min({i}) = i
    BY <2>6 DEF Min
  <2>8. buses[core][i].device = Distributor(gic)
    BY <2>1 DEF Entry
  <2> QED
    BY <2>5, <2>7, <2>8 DEF DeviceAt
<1> QED
  BY <1>1, <1>2

(* Unless a registration panicked between two cores, all cores reach, and   *)
(* are interrupted by, the distributor that gic() returns.                  *)
THEOREM OneDistributorHolds == Spec => []OneDistributor
<1> QED
  BY BusInvariant, InvMeansOneDistributor, PTL

LEMMA ProductGrows ==
  ASSUME NEW a \in Nat, NEW b \in Nat, NEW s \in Nat, a <= b PROVE a * s <= b * s
<1>1. (b - a) * s >= 0 /\ b * s = a * s + (b - a) * s
  OBVIOUS
<1> QED
  BY <1>1

(* A stack begins where the ones of the cores before it end, and the last   *)
(* one is still beyond the fuses.                                           *)
LEMMA StackPlace ==
  ASSUME NEW core \in Cores
  PROVE  /\ Stack(core).from = MemorySize - core * StackSize
         /\ Stack(core).to = MemorySize - (core - 1) * StackSize
         /\ core * StackSize \in Nat /\ (core - 1) * StackSize \in Nat
         /\ EfuseEnd <= MemorySize - core * StackSize
<1>1. core \in Nat /\ core - 1 \in Nat /\ core <= CoreCount /\ CoreCount \in Nat
      /\ StackSize \in Nat /\ MemorySize \in Nat /\ EfuseEnd \in Nat
  BY MapAssumption DEF Cores
<1>2. core * StackSize \in Nat /\ (core - 1) * StackSize \in Nat
      /\ CoreCount * StackSize \in Nat
  BY <1>1
<1>3. core * StackSize <= CoreCount * StackSize
  BY <1>1, ProductGrows
<1>4. core * StackSize = (core - 1) * StackSize + StackSize
  BY <1>1
<1> QED
  BY <1>1, <1>2, <1>3, <1>4, SizeAssumption DEF Stack, StackTop

MemoryMapped == DOMAIN memory = RamAddresses

LEMMA MappedMeansStacksApart == MemoryMapped => StacksApart
<1> SUFFICES ASSUME MemoryMapped, NEW core \in Cores,
                    NEW address \in Stack(core).from .. Stack(core).to - 1
             PROVE  /\ address \in RamAddresses /\ ~InWindow(address)
                    /\ \A other \in Cores \ {core} : ~Inside(Stack(other), address)
  BY DEF StacksApart, MemoryMapped
<1>1. /\ address \in Nat /\ EfuseEnd <= address /\ address < MemorySize
      /\ MemorySize - core * StackSize <= address
      /\ address < MemorySize - (core - 1) * StackSize
  BY StackPlace, MapAssumption
<1>2. Inside([from |-> EfuseEnd, to |-> MemorySize], address)
  BY <1>1
<1>3. Part(EfuseEnd, MemorySize) \in SharedParts
  BY <1>1, MapAssumption DEF SharedParts
<1>4. address \in RamAddresses
  BY <1>1, <1>2, <1>3, MapAssumption DEF RamAddresses, InRam
<1>5. ~InWindow(address)
  BY <1>1, MapAssumption DEF InWindow, Windows
<1>6. ASSUME NEW other \in Cores \ {core} PROVE ~Inside(Stack(other), address)
  <2>1. other \in Nat /\ core \in Nat /\ core # other /\ StackSize \in Nat
    BY MapAssumption DEF Cores
  <2>2. other * StackSize \in Nat /\ (other - 1) * StackSize \in Nat
        /\ core * StackSize \in Nat /\ (core - 1) * StackSize \in Nat
    BY StackPlace
  <2>3. CASE other < core
    <3>1. other * StackSize <= (core - 1) * StackSize
      BY <2>1, <2>3, ProductGrows
    <3> QED
      BY <1>1, <2>2, <3>1, StackPlace, MapAssumption
  <2>4. CASE core < other
    <3>1. core * StackSize <= (other - 1) * StackSize
      BY <2>1, <2>4, ProductGrows
    <3> QED
      BY <1>1, <2>2, <3>1, StackPlace, MapAssumption
  <2> QED
    BY <2>1, <2>3, <2>4
<1> QED
  BY <1>4, <1>5, <1>6

LEMMA MemoryStays == MemoryMapped /\ [Next]_vars => MemoryMapped'
<1> SUFFICES ASSUME MemoryMapped, [Next]_vars PROVE MemoryMapped'
  OBVIOUS
<1> USE DEF MemoryMapped
<1>1. CASE memory' = memory
  BY <1>1 DEF RamAddresses, InRam
<1>2. CASE PlaceWord
  BY <1>2 DEF PlaceWord, RamAddresses, InRam
<1>3. ASSUME NEW address \in StoreAddresses, NEW byte \in Bytes, Store(address, byte)
      PROVE  MemoryMapped'
  BY <1>3 DEF Store, RamAddresses, InRam
<1>4. memory' = memory \/ PlaceWord
        \/ \E address \in StoreAddresses, byte \in Bytes : Store(address, byte)
  BY DEF Next, vars, bootVars, BootStep, RegisterMmioDevice, RegisterOnCore, RegisterGic,
         StartBoot, DeriveKeys, ParsePk11, VerifySignature, DecryptPackage2,
         ValidatePackage2, FinishBoot, Fail, PutOn
<1> QED
  BY <1>1, <1>2, <1>3, <1>4

(* Every core's stack is memory of its own, for any number of cores and any *)
(* size of memory that holds the stacks beyond the window of the fuses.     *)
THEOREM StacksApartHolds == Spec => []StacksApart
<1>1. Init => MemoryMapped
  BY DEF Init, BootInit, MemoryMapped
<1> QED
  BY <1>1, MemoryStays, MappedMeansStacksApart, PTL DEF Spec

-----------------------------------------------------------------------------
(* The types of what the two invariants leave open: the bytes of memory,    *)
(* whose device is on a bus, and the distributors cores are wired to.       *)
MemoryTyped == memory \in [RamAddresses -> Bytes]

OwnDevices ==
  \A core \in Cores : \A i \in DOMAIN buses[core] :
    buses[core][i].device.kind = "gicv3" \/ buses[core][i].device.of = core

WiringTyped == wired \in [Cores -> 0 .. created] /\ torn \in BOOLEAN

MachineInv == BootInv /\ BusInv /\ MemoryTyped /\ OwnDevices /\ WiringTyped

(* What is decrypted are bytes, and the words placed are words of it.       *)
LEMMA PackageTyped == BootInv => package \in Seq(Bytes) /\ placed \in 0 .. Words
<1> SUFFICES ASSUME BootInv PROVE package \in Seq(Bytes) /\ placed \in 0 .. Words
  OBVIOUS
<1>1. CASE Decrypted
  <2> DEFINE payload == job.image.payload
  <2>1. phase \in Keyed /\ job \in Jobs /\ job.image \in Images /\ job.fuses \in Fuses
    BY <1>1 DEF BootInv, Decrypted, Keyed, Phases, Jobs
  <2>2. payload \in Seq(Bytes) /\ Len(payload) \in Nat /\ DOMAIN payload = 1 .. Len(payload)
    BY <2>1, PackageAssumption, LenProperties
  <2>3. \A i \in 1 .. Len(payload) :
          Crypt(Secure!DeviceKey(job.fuses), job.image.header.iv, i, payload[i]) \in Bytes
    BY <2>1, <2>2, BytesAssumption DEF DeriveDeviceKey, DeriveSsk, Secure!DeviceKey
  <2>4. package \in [1 .. Len(payload) -> Bytes]
    BY <1>1, <2>3 DEF BootInv, PackageOf
  <2>5. package \in Seq(Bytes)
    BY <2>2, <2>4, SeqDef
  <2> QED
    BY <1>1, <2>5 DEF BootInv
<1>2. CASE ~Decrypted
  <2>1. package = <<>> /\ placed = 0
    BY <1>2 DEF BootInv
  <2>2. Words \in Nat
    BY <2>1, WordsNat DEF Words, WordsOf
  <2> QED
    BY <2>1, <2>2
<1> QED
  BY <1>1, <1>2

(* A word that is placed consists of the package's bytes and of zeros.      *)
LEMMA ByteAtTyped ==
  ASSUME BootInv, NEW address \in Nat, LoadAddr <= address PROVE ByteAt(address) \in Bytes
<1>1. package \in Seq(Bytes) /\ LoadAddr \in Nat
  BY PackageTyped, PackageAssumption
<1>2. CASE address - LoadAddr < Len(package)
  <2>1. address - LoadAddr + 1 \in 1 .. Len(package)
    BY <1>1, <1>2
  <2> QED
    BY <1>1, <1>2, <2>1, ElementOfSeq DEF ByteAt
<1>3. CASE ~(address - LoadAddr < Len(package))
  BY <1>3, BytesAssumption DEF ByteAt
<1> QED
  BY <1>2, <1>3

LEMMA MemoryTypedNext ==
  ASSUME BootInv, MemoryTyped, [Next]_vars PROVE MemoryTyped'
<1> USE DEF MemoryTyped
<1>1. CASE memory' = memory
  BY <1>1 DEF RamAddresses, InRam
<1>2. CASE PlaceWord
  <2>1. placed \in Nat /\ placed * WordBytes \in Nat /\ LoadAddr \in Nat
    BY PackageTyped, PackageAssumption
  <2>2. ASSUME NEW address \in RamAddresses, address \in WordRange(placed)
        PROVE  ByteAt(address) \in Bytes
    <3>1. address \in Nat /\ LoadAddr <= address
      BY <2>1, <2>2, PackageAssumption, MapAssumption DEF WordRange, RamAddresses
    <3> QED
      BY <3>1, ByteAtTyped
  <2> QED
    BY <1>2, <2>2 DEF PlaceWord, RamAddresses, InRam
<1>3. ASSUME NEW address \in StoreAddresses, NEW byte \in Bytes, Store(address, byte)
      PROVE  MemoryTyped'
  BY <1>3 DEF Store, RamAddresses, InRam
<1>4. memory' = memory \/ PlaceWord
        \/ \E address \in StoreAddresses, byte \in Bytes : Store(address, byte)
  BY DEF Next, vars, bootVars, BootStep, RegisterMmioDevice, RegisterOnCore, RegisterGic,
         StartBoot, DeriveKeys, ParsePk11, VerifySignature, DecryptPackage2,
         ValidatePackage2, FinishBoot, Fail, PutOn
<1> QED
  BY <1>1, <1>2, <1>3, <1>4

(* What is put on a bus is the core's own or the controller's.              *)
LEMMA PutOnOwn ==
  ASSUME BusesTyped, OwnDevices, NEW cores, NEW device, NEW instance,
         \A core \in Cores : instance[core] \in Instances,
         \A core \in Cores : instance[core].kind = "gicv3" \/ instance[core].of = core,
         device.base \in Nat, device.size \in Nat,
         PutOn(cores, device, instance)
  PROVE  OwnDevices'
<1> SUFFICES ASSUME NEW core \in Cores, NEW i \in DOMAIN buses'[core]
             PROVE  \/ buses'[core][i].device.kind = "gicv3"
                    \/ buses'[core][i].device.of = core
  BY DEF OwnDevices
<1> DEFINE new == Entry(device, instance[core])
<1>1. new \in Entries /\ buses[core] \in Seq(Entries) /\ new.device = instance[core]
  BY DEF Entry, Entries, BusesTyped
<1>2. buses'[core] = IF core \in cores THEN Append(buses[core], new) ELSE buses[core]
  BY DEF PutOn
<1>3. CASE i \in DOMAIN buses[core] /\ buses'[core][i] = buses[core][i]
  BY <1>3 DEF OwnDevices
<1>4. CASE buses'[core][i] = new
  BY <1>1, <1>4
<1> HIDE DEF new
<1>5. (i \in DOMAIN buses[core] /\ buses'[core][i] = buses[core][i]) \/ buses'[core][i] = new
  BY <1>1, <1>2, AppendProperties
<1> QED
  BY <1>3, <1>4, <1>5

LEMMA OwnDevicesNext ==
  ASSUME BusInv, OwnDevices, [Next]_vars PROVE OwnDevices'
<1> USE DEF BusInv
<1>1. ASSUME NEW cores, NEW device \in Devices, PutOn(cores, device, Fresh(device.name))
      PROVE  OwnDevices'
  <2>1. \A core \in Cores : Fresh(device.name)[core].of = core
    BY DEF Fresh, Private
  <2> QED
    BY <1>1, <2>1, FreshInstances, MachineAssumption, PutOnOwn
<1>2. CASE RegisterGic
  <2>1. \A core \in Cores : Shared[core] \in Instances /\ Shared[core].kind = "gicv3"
    <3>1. created + 1 \in 1 .. MaxDistributors
      BY <1>2, MachineAssumption DEF Wired, RegisterGic
    <3> QED
      BY <3>1 DEF Shared, Instances, Distributor
  <2>2. GicWindow.base \in Nat /\ GicWindow.size \in Nat
    BY MapAssumption DEF GicWindow
  <2>3. PutOn(Served(GicWindow), GicWindow, Shared)
    BY <1>2 DEF RegisterGic
  <2> QED
    BY <2>1, <2>2, <2>3, PutOnOwn
<1>3. CASE UNCHANGED buses
  BY <1>3 DEF OwnDevices
<1> QED
  BY <1>1, <1>2, <1>3
  DEF Next, Store, vars, busVars, RegisterMmioDevice, RegisterOnCore

LEMMA WiringTypedNext ==
  ASSUME BusInv, WiringTyped, [Next]_vars PROVE WiringTyped'
<1> USE DEF WiringTyped
<1>1. created \in Nat
  BY MachineAssumption DEF BusInv, Wired
<1>2. CASE RegisterGic
  <2>1. created' = created + 1 /\ torn' \in BOOLEAN
    BY <1>2 DEF RegisterGic
  <2>2. \A core \in Cores : wired'[core] \in 0 .. created'
    BY <1>1, <1>2, <2>1 DEF RegisterGic
  <2>3. wired' = [core \in Cores |-> wired'[core]]
    BY <1>2 DEF RegisterGic
  <2> QED
    BY <2>1, <2>2, <2>3
<1>3. CASE UNCHANGED <<wired, created>> /\ torn' \in BOOLEAN
  BY <1>3
<1>4. RegisterGic \/ (UNCHANGED <<wired, created>> /\ torn' \in BOOLEAN)
  BY DEF Next, Store, vars, busVars, RegisterMmioDevice, RegisterOnCore
<1> QED
  BY <1>2, <1>3, <1>4

LEMMA MachineInvInit == Init => MachineInv
<1> SUFFICES ASSUME Init PROVE MachineInv
  OBVIOUS
<1>1. MemoryTyped
  BY BytesAssumption DEF Init, BootInit, MemoryTyped
<1>2. OwnDevices
  <2>1. \A core \in Cores : buses[core] = <<>>
    BY DEF Init
  <2> QED
    BY <2>1 DEF OwnDevices
<1>3. WiringTyped
  <2>1. 0 \in 0 .. created
    BY DEF Init
  <2>2. torn \in BOOLEAN
    BY DEF Init
  <2>3. wired \in [Cores -> 0 .. created]
    BY <2>1 DEF Init
  <2> QED
    BY <2>2, <2>3 DEF WiringTyped
<1> QED
  BY <1>1, <1>2, <1>3, BootInvInit, BusInit DEF MachineInv

LEMMA MachineInvNext == MachineInv /\ [Next]_vars => MachineInv'
BY BootInvNext, BusNext, MemoryTypedNext, OwnDevicesNext, WiringTypedNext DEF MachineInv

LEMMA InvMeansTypes == MachineInv => TypeOK
<1> SUFFICES ASSUME MachineInv PROVE TypeOK
  OBVIOUS
<1>1. \A core \in Cores : \A i \in DOMAIN buses[core] :
        /\ buses[core][i].device \in Instances
        /\ buses[core][i].device.kind = "gicv3" \/ buses[core][i].device.of = core
  <2> SUFFICES ASSUME NEW core \in Cores, NEW i \in DOMAIN buses[core]
               PROVE  /\ buses[core][i].device \in Instances
                      /\ \/ buses[core][i].device.kind = "gicv3"
                         \/ buses[core][i].device.of = core
    OBVIOUS
  <2>1. buses[core][i] \in Entries
    BY DEF MachineInv, BusInv, BusesTyped
  <2> QED
    BY <2>1 DEF MachineInv, OwnDevices, Entries
<1>2. created \in 0 .. MaxDistributors /\ gic = created
  BY DEF MachineInv, BusInv, Wired
<1> QED
  BY <1>1, <1>2, PackageTyped DEF TypeOK, MachineInv, MemoryTyped, WiringTyped

(* The machine's types: memory and packages consist of bytes whatever the   *)
(* cipher makes of an image, a core has no other core's devices on its bus, *)
(* and no core is wired to a distributor that was never created, also after *)
(* a registration that panicked between two cores.                          *)
THEOREM MachineTypes == Spec => []TypeOK
<1> QED
  BY MachineInvInit, MachineInvNext, InvMeansTypes, PTL DEF Spec
=============================================================================
