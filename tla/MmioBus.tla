------------------------------- MODULE MmioBus -------------------------------
(***************************************************************************)
(* One core's MMIO bus (core/src/mmio/mod.rs): the devices registered on   *)
(* it, in order, each with the range of addresses it answers for.          *)
(***************************************************************************)
EXTENDS Naturals, Sequences, FiniteSetsExt

CONSTANT AddressModulus   \* 2^64

ASSUME ModulusAssumption == AddressModulus \in Nat \ {0}

(* The sum is not checked: in a release build it wraps.                     *)
End(entry) == (entry.base + entry.size) % AddressModulus

(* Mutant: only a range that begins inside the other one overlaps it.       *)
OverlapsFromInside(entry, other) ==
  other.base <= entry.base /\ entry.base < End(other)

Overlaps(entry, other) == entry.base < End(other) /\ other.base < End(entry)

Clashes(bus, entry) == \E i \in DOMAIN bus : Overlaps(entry, bus[i])

Covers(entry, address) == entry.base <= address /\ address < End(entry)

Covering(bus, address) == {i \in DOMAIN bus : Covers(bus[i], address)}

NoDevice == [kind |-> "none", of |-> 0]

(* The loop of find_device, read and write: the first match answers.        *)
DeviceAt(bus, address) ==
  IF Covering(bus, address) = {} THEN NoDevice
  ELSE bus[Min(Covering(bus, address))].device
=============================================================================
