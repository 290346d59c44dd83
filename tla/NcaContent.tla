------------------------------ MODULE NcaContent ------------------------------
(***************************************************************************)
(* Reading an NCA (core/src/security/nca_decrypt.rs, key_derivation.rs):   *)
(* the header is decrypted sector by sector and parsed, the title key is   *)
(* decrypted from the key area with the device key, and sections with the  *)
(* title key.  The header is three sectors of a block each: magic and      *)
(* version; one block of the key area; the counters of the sections.       *)
(***************************************************************************)
EXTENDS BlockModes

CONSTANTS HeaderKey,              \* the pair of XTS keys the caller has
          Sbk,                    \* the secure boot key of the fuses
          SskSource, DeviceKeySource,
          Files                   \* the files there are: see Sealed

VARIABLES file,     \* the file being read and, for the properties, what is in it
          stage,    \* "header", an NcaError, "parsed" or "keyed"
          opened,   \* bytes of the header decrypted so far
          titleKey,
          contents  \* sections decrypted: section -> bytes

vars == <<file, stage, opened, titleKey, contents>>

Magic == 1
Version == 3
HeaderSectors == 3

DeviceKey(sbk) == Cipher(Cipher(sbk, SskSource), DeviceKeySource)

(* Mutant: the counter is that of aes_ctr_xor.                              *)
SectionCounterXored(counter, i) ==
  CounterXored(BytesOf(counter, Half) \o [j \in 1 .. BlockSize - Half |-> 0], i)

(* The section's counter in the first half, the block's index in the other. *)
SectionCounter(counter, i) == BytesOf(counter, Half) \o BytesOf(i, BlockSize - Half)

DecryptSection(key, data, counter) ==
  Streamed(key, data, [i \in Indices(data) |-> SectionCounter(counter, i)])

(* External: how a file is made from what is in it.                         *)
PlainHeader(content) ==
  Joined(HeaderSectors * BlockSize, [i \in 0 .. HeaderSectors - 1 |->
    CASE i = 0 -> [j \in 1 .. BlockSize |->
                     CASE j = 1 -> content.magic [] j = 2 -> content.version [] OTHER -> 0]
      [] i = 1 -> Cipher(content.deviceKey, content.titleKey)
      [] i = 2 -> content.counters])

SealedHeader(content) ==
  Joined(HeaderSectors * BlockSize, [sector \in 0 .. HeaderSectors - 1 |->
    XtsEncrypt(content.headerKey[1], content.headerKey[2], sector,
               Block(PlainHeader(content), sector))])

SealedSection(key, counter, data) ==
  Joined(Len(data), [b \in Indices(data) |->
    Masked(Block(data, b), Cipher(key, BytesOf(counter, Half) \o BytesOf(b, BlockSize - Half)))])

(* With an encrypted header, or with the first sectors of a plain one.      *)
Sealed(content, sectors) ==
  [content |-> content,
   plain |-> [p \in 1 .. sectors * BlockSize |-> PlainHeader(content)[p]],
   header |-> SealedHeader(content),
   encrypted |-> sectors = HeaderSectors,
   sections |-> [i \in DOMAIN content.sections |->
                   SealedSection(content.titleKey, content.counters[i], content.sections[i])]]

ContentTyped(content) ==
  /\ content.magic \in Bytes /\ content.version \in Bytes
  /\ content.titleKey \in FullBlocks /\ content.deviceKey \in FullBlocks
  /\ content.headerKey[1] \in FullBlocks /\ content.headerKey[2] \in FullBlocks
  /\ content.counters \in FullBlocks
  /\ content.sections \in Seq(Seq(Bytes)) /\ Len(content.sections) <= BlockSize

(* Sections are so short that the index of their last block fits.           *)
ASSUME FilesAssumption ==
  /\ HeaderKey[1] \in FullBlocks /\ HeaderKey[2] \in FullBlocks
  /\ \A f \in Files :
       /\ ContentTyped(f.content)
       /\ \E sectors \in 0 .. HeaderSectors : f = Sealed(f.content, sectors)
       /\ \A i \in DOMAIN f.sections : Fits(Blocks(f.sections[i]), BlockSize - Half)

Init ==
  /\ file \in Files
  /\ stage = "header"
  /\ opened = IF file.encrypted THEN <<>> ELSE file.plain
  /\ titleKey = <<>>
  /\ contents = <<>>

(* Mutant: every sector is decrypted as the first.                          *)
OpenedAsFirst(sector) ==
  XtsDecrypt(HeaderKey[1], HeaderKey[2], 0, Block(file.header, sector))

Opened(sector) ==
  XtsDecrypt(HeaderKey[1], HeaderKey[2], sector, Block(file.header, sector))

(* decrypt_nca_header: the loop over the sectors.  A plain header is given   *)
(* to parse_nca_header as it is.                                            *)
OpenSector ==
  /\ stage = "header" /\ file.encrypted
  /\ Blocks(opened) < HeaderSectors
  /\ opened' = opened \o Opened(Blocks(opened))
  /\ UNCHANGED <<file, stage, titleKey, contents>>

(* parse_nca_header: the length, the magic, then the version.               *)
Verdict(header) ==
  IF Blocks(header) < HeaderSectors THEN "TruncatedFile"
  ELSE IF header[1] # Magic THEN "BadMagic"
  ELSE IF header[2] # Version THEN "UnsupportedVersion"
  ELSE "parsed"

ParseHeader ==
  /\ stage = "header"
  /\ ~file.encrypted \/ Blocks(opened) = HeaderSectors
  /\ stage' = Verdict(opened)
  /\ UNCHANGED <<file, opened, titleKey, contents>>

(* decrypt_nca_key_area with the key of the KeySet made from the fuses.     *)
TakeTitleKey ==
  /\ stage = "parsed"
  /\ stage' = "keyed"
  /\ titleKey' = Decipher(DeviceKey(Sbk), Block(opened, 1))
  /\ UNCHANGED <<file, opened, contents>>

(* The next section, with its counter from the header.                      *)
ReadSection ==
  /\ stage = "keyed"
  /\ Len(contents) < Len(file.sections)
  /\ LET i == Len(contents) + 1
     IN contents' = Append(contents,
                           DecryptSection(titleKey, file.sections[i], Block(opened, 2)[i]))
  /\ UNCHANGED <<file, stage, opened, titleKey>>

Next == OpenSector \/ ParseHeader \/ TakeTitleKey \/ ReadSection

Spec == Init /\ [][Next]_vars /\ WF_vars(Next)
-----------------------------------------------------------------------------
(* What one mode encrypts it decrypts, for data of every length: in ECB the *)
(* padding is found again, in XTS the stolen bytes are.                     *)
ModesInvert ==
  \A data \in {file.header, file.header \o Block(file.header, 0)}
               \union {file.sections[i] : i \in DOMAIN file.sections} :
    LET key == file.content.titleKey
        iv == file.content.deviceKey
    IN /\ EcbDecrypt(key, EcbEncrypt(key, data)) = data
       /\ CtrXor(key, iv, CtrXor(key, iv, data)) = data
       /\ Rest(data) = 0 => CbcDecrypt(key, iv, CbcEncrypt(key, iv, data)) = data
       /\ Len(data) >= BlockSize =>
            XtsDecrypt(key, iv, Len(opened), XtsEncrypt(key, iv, Len(opened), data)) = data

(* Two blocks of a file's sections are never encrypted with one counter     *)
(* under the one title key, unless the sections carry one counter.          *)
CountersApart ==
  \A i, j \in DOMAIN file.sections :
    \A b \in Indices(file.sections[i]), c \in Indices(file.sections[j]) :
      SectionCounter(file.content.counters[i], b) = SectionCounter(file.content.counters[j], c) =>
        b = c /\ file.content.counters[i] = file.content.counters[j]

(* A file made for this console and these header keys is read as it was     *)
(* made: it ends with every section, or with the first error there is.      *)
Made == (file.encrypted => file.content.headerKey = HeaderKey) /\ file.content.deviceKey = DeviceKey(Sbk)

Recovered ==
  IF Verdict(file.plain) = "parsed"
  THEN contents = file.content.sections
  ELSE stage = Verdict(file.plain)

ContentRecovered == Made ~> Recovered
=============================================================================
