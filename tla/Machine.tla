------------------------------- MODULE Machine -------------------------------
(***************************************************************************)
(* The CpuManager (core/src/cpu/cpu_manager.rs): cores that share a memory *)
(* and have a bus each, on which devices are registered for all of them or *)
(* for one; the interrupt controller, whose distributor they share; and    *)
(* the boot ROM.  A registration that meets an overlap panics: a caller    *)
(* that catches the panic, as the tests of mmio/mod.rs do, goes on with    *)
(* the cores that came before it registered.                               *)
(***************************************************************************)
EXTENDS BootRom, MmioBus

CONSTANTS Devices,           \* what may be registered: [name, base, size]
          StoreAddresses,    \* where the cores store
          MaxDevices,        \* bound: devices on one bus
          MaxDistributors    \* bound: calls of register_gic

ASSUME MachineAssumption ==
  /\ MemorySize < AddressModulus
  /\ StoreAddresses \subseteq Nat
  /\ MaxDistributors \in Nat
  /\ \A device \in Devices : device.base \in Nat /\ device.size \in Nat

VARIABLES buses,     \* each core's MmioBus
          wired,     \* the distributor deliver_irq of each core looks at; 0 for None
          gic,       \* the manager's gic_dist; 0 for None
          created,   \* distributors created so far
          torn       \* a registration panicked between two cores

vars == <<bootVars, buses, wired, gic, created, torn>>
busVars == <<buses, wired, gic, created, torn>>

Private(name, core) == [kind |-> name, of |-> core]
Distributor(number) == [kind |-> "gicv3", of |-> number]

Instances ==
  {Private(device.name, core) : device \in Devices, core \in Cores}
    \union {Distributor(number) : number \in 1 .. MaxDistributors}

Entry(device, instance) ==
  [base |-> device.base, size |-> device.size, device |-> instance]

(* The whole window, so that nothing else can be registered in it.          *)
GicWindow == [name |-> "gicv3", base |-> MmioBase, size |-> MmioEnd - MmioBase]

Init ==
  /\ BootInit
  /\ buses = [core \in Cores |-> <<>>]
  /\ wired = [core \in Cores |-> 0]
  /\ gic = 0
  /\ created = 0
  /\ torn = FALSE

Room(core) == Len(buses[core]) < MaxDevices

(* The cores are served in order, up to the first whose bus refuses.        *)
Served(device) ==
  {core \in Cores : \A before \in 1 .. core : ~Clashes(buses[before], device)}

(* Mutant: every core but the first is given the next distributor.          *)
SharedOwn == [core \in Cores |-> Distributor(IF core = 1 THEN created + 1 ELSE created + 2)]

(* Mutant: the factory is called once and every core given its instance.    *)
FreshOnce(name) == [core \in Cores |-> Private(name, 1)]

Fresh(name) == [core \in Cores |-> Private(name, core)]
Shared == [core \in Cores |-> Distributor(created + 1)]

PutOn(cores, device, instance) ==
  buses' = [core \in Cores |->
              IF core \in cores THEN Append(buses[core], Entry(device, instance[core]))
              ELSE buses[core]]

(* register_mmio_device: a fresh instance for every core.  Boot and the     *)
(* registrations borrow the manager exclusively.                            *)
RegisterMmioDevice(device) ==
  /\ phase = "Idle"
  /\ \A core \in Cores : Room(core)
  /\ PutOn(Served(device), device, Fresh(device.name))
  /\ torn' = (torn \/ Served(device) \notin {{}, Cores})
  /\ UNCHANGED <<bootVars, wired, gic, created>>

(* mmio_bus_mut().register_device on one core: a panic changes nothing.     *)
RegisterOnCore(core, device) ==
  /\ phase = "Idle"
  /\ Room(core)
  /\ ~Clashes(buses[core], device)
  /\ PutOn({core}, device, Fresh(device.name))
  /\ UNCHANGED <<bootVars, wired, gic, created, torn>>

(* The manager has its distributor before the first core is tried.          *)
RegisterGic ==
  /\ phase = "Idle"
  /\ created < MaxDistributors
  /\ \A core \in Cores : Room(core)
  /\ created' = created + 1
  /\ gic' = created + 1
  /\ PutOn(Served(GicWindow), GicWindow, Shared)
  /\ wired' = [core \in Cores |-> IF core \in Served(GicWindow) THEN created + 1 ELSE wired[core]]
  /\ torn' = (torn \/ Served(GicWindow) # Cores)
  /\ UNCHANGED bootVars

(* A store to memory by any core, or write_u32 on it, while no boot is      *)
(* running; one in a window goes to DeviceAt, and what that does with it is *)
(* the device's own.                                                        *)
Store(address, byte) ==
  /\ phase = "Idle"
  /\ InRam(address)
  /\ memory' = [memory EXCEPT ![address] = byte]
  /\ UNCHANGED <<outcome, phase, job, key, package, placed, busVars>>

Next ==
  \/ \E device \in Devices : RegisterMmioDevice(device)
  \/ \E core \in Cores, device \in Devices : RegisterOnCore(core, device)
  \/ RegisterGic
  \/ \E address \in StoreAddresses, byte \in Bytes : Store(address, byte)
  \/ \E image \in Images, fuses \in Fuses, signer \in Signers :
       StartBoot(image, fuses, signer) /\ UNCHANGED busVars
  \/ BootStep /\ UNCHANGED busVars

Spec == Init /\ [][Next]_vars
-----------------------------------------------------------------------------
TypeOK ==
  /\ memory \in [RamAddresses -> Bytes]
  /\ \A core \in Cores :
       \A i \in DOMAIN buses[core] :
         /\ buses[core][i].device \in Instances
         /\ \/ buses[core][i].device.kind = "gicv3"
            \/ buses[core][i].device.of = core
  /\ created \in 0 .. MaxDistributors
  /\ gic = created
  /\ wired \in [Cores -> 0 .. created]
  /\ torn \in BOOLEAN
  /\ package \in Seq(Bytes)
  /\ placed \in 0 .. Words

(* Every core's megabyte of stack is memory that exists, none of it behind   *)
(* a window, and no other core's (the comment on the stack pointer in       *)
(* new_with_shared_mem: "offset by core ID to avoid collision").            *)
StacksApart ==
  \A core \in Cores :
    \A address \in Stack(core).from .. Stack(core).to - 1 :
      /\ address \in DOMAIN memory /\ ~InWindow(address)
      /\ \A other \in Cores \ {core} : ~Inside(Stack(other), address)

(* No address on a core's bus has two devices, even where a range wraps     *)
(* past the end of the address space.                                       *)
OneOwner ==
  \A core \in Cores : \A i, j \in DOMAIN buses[core] :
    \A address \in 0 .. AddressModulus - 1 :
      Covers(buses[core][i], address) /\ Covers(buses[core][j], address) => i = j

(* Unless a registration panicked halfway: the distributor through which    *)
(* software reaches the interrupts, in the window of any core, is the one   *)
(* deliver_irq of that core looks at and gic() returns, and before          *)
(* register_gic no core has one.                                            *)
OneDistributor ==
  torn \/ \A core \in Cores :
            /\ wired[core] = gic
            /\ gic # 0 => \A address \in MmioBase .. MmioEnd - 1 :
                            DeviceAt(buses[core], address) = Distributor(gic)
=============================================================================
