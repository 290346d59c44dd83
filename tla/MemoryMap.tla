------------------------------ MODULE MemoryMap ------------------------------
(***************************************************************************)
(* What a core of a CpuManager finds at an address                         *)
(* (core/src/cpu/unicorn_interface.rs, new_with_shared_mem): shared memory *)
(* in three parts, and between them two windows whose accesses go to the   *)
(* core's MMIO bus.                                                        *)
(***************************************************************************)
EXTENDS Naturals, Sequences

CONSTANTS CoreCount,            \* number of cores
          MmioBase, MmioEnd,    \* the window of the interrupt controller
          EfuseBase, EfuseEnd,  \* the window of the fuses
          MemorySize,           \* bytes allocated for the shared memory
          StackSize             \* 1 MB

ASSUME MapAssumption ==
  /\ CoreCount \in Nat \ {0}
  /\ StackSize \in Nat \ {0}
  /\ {MmioBase, MmioEnd, EfuseBase, EfuseEnd, MemorySize} \subseteq Nat
  /\ 0 < MmioBase /\ MmioBase < MmioEnd
  /\ MmioEnd < EfuseBase /\ EfuseBase < EfuseEnd

(* The default of 12 GB satisfies this by far.  The code accepts any size:  *)
(* below EfuseEnd it still maps the second part of the memory in full.      *)
ASSUME SizeAssumption == EfuseEnd + CoreCount * StackSize <= MemorySize

Cores == 1 .. CoreCount

Part(from, to) == [from |-> from, to |-> to]

(* The third part is mapped when the allocation reaches past the fuses.     *)
SharedParts ==
  {Part(0, MmioBase), Part(MmioEnd, EfuseBase)}
    \union (IF EfuseEnd < MemorySize THEN {Part(EfuseEnd, MemorySize)} ELSE {})

Windows == {Part(MmioBase, MmioEnd), Part(EfuseBase, EfuseEnd)}

Inside(part, address) == part.from <= address /\ address < part.to

InRam(address) == \E part \in SharedParts : Inside(part, address)
InWindow(address) == \E part \in Windows : Inside(part, address)

(* Mutant: the stacks are a byte closer to each other than they are long.   *)
StackTopClose(core) == MemorySize - (core - 1) * (StackSize - 1)

(* The initial stack pointer; core 1 is core_id 0.                          *)
StackTop(core) == MemorySize - (core - 1) * StackSize

Stack(core) == Part(StackTop(core) - StackSize, StackTop(core))
=============================================================================
