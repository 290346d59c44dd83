----------------------------- MODULE HandleSlots -----------------------------
(***************************************************************************)
(* The kernel handle table (core/src/kernel/handle_table.rs): a growable   *)
(* array of reference-counted kernel objects, indexed by handle id, with a *)
(* LIFO free list of recycled ids.                                         *)
(*                                                                         *)
(* One operator per method: a method is a function from a table to a       *)
(* result code, a handle id and the table it leaves behind, so that the    *)
(* services that own a table (SmService) can call several in one step.     *)
(***************************************************************************)
EXTENDS Integers, Sequences, FiniteSets

CONSTANTS
  Types,       (* the KernelObject variants in use                         *)
  Payloads,    (* what distinguishes two objects of one variant            *)
  InitialCap,  (* INITIAL_CAPACITY, 1024 in the code                       *)
  MaxCap,      (* max_capacity, 65536 in the code                          *)
  RefModulus   (* number of values of ref_count, 2^32 in the code          *)

ASSUME CapacityAssumption ==
  /\ InitialCap \in Nat \ {0}
  /\ MaxCap \in Nat
  /\ InitialCap <= MaxCap

Ids == 0 .. (MaxCap - 1)
NoId == -1

KernelObject == [type : Types, payload : Payloads]

(* same_type_as compares the variant, not the payload. *)
SameType(object, expected) == object.type = expected

HandleEntry == [object : KernelObject, ref_count : 0 .. (RefModulus - 1)]

-----------------------------------------------------------------------------
(* The table.  entries is a partial function: its domain is the set of      *)
(* occupied slots, so an id outside the array and an empty slot look alike, *)
(* as they do to entries.get(id).and_then(..).                              *)

NewTable ==
  [entries |-> [id \in {} |-> 0], free_list |-> <<>>,
   next_slot |-> 0, capacity |-> InitialCap]

Occupied(t) == DOMAIN t.entries

WithEntry(t, id, e) ==
  [t EXCEPT !.entries = [i \in DOMAIN @ \cup {id} |-> IF i = id THEN e ELSE @[i]]]

WithoutEntry(t, id) ==
  [t EXCEPT !.entries = [i \in DOMAIN @ \ {id} |-> @[i]]]

(* Mutant: grow forgets .min(max_capacity).                                 *)
GrownCapacityUncapped(t) == 2 * t.capacity

(* grow: the doubled capacity, capped; growth fails when it gains nothing.  *)
GrownCapacity(t) ==
  IF 2 * t.capacity <= MaxCap THEN 2 * t.capacity ELSE MaxCap

CanGrow(t) == GrownCapacity(t) > t.capacity

(* allocate_slot: the top of the free list, else next_slot, else grow.      *)
CanAllocate(t) ==
  \/ t.free_list # <<>>
  \/ t.next_slot < t.capacity
  \/ CanGrow(t)

AllocatedSlot(t) ==
  IF t.free_list # <<>> THEN t.free_list[Len(t.free_list)] ELSE t.next_slot

(* Mutant: grows one slot too early.                                        *)
AllocateSlotEarly(t) ==
  IF t.free_list # <<>>
  THEN [t EXCEPT !.free_list = SubSeq(@, 1, Len(@) - 1)]
  ELSE [t EXCEPT !.capacity = IF t.next_slot + 1 < @ THEN @ ELSE GrownCapacity(t),
                 !.next_slot = @ + 1]

(* Mutant: peeks at the free list where it must pop.                        *)
AllocateSlotKeepsTop(t) ==
  IF t.free_list # <<>>
  THEN t
  ELSE [t EXCEPT !.capacity = IF t.next_slot < @ THEN @ ELSE GrownCapacity(t),
                 !.next_slot = @ + 1]

AllocateSlot(t) ==
  IF t.free_list # <<>>
  THEN [t EXCEPT !.free_list = SubSeq(@, 1, Len(@) - 1)]
  ELSE [t EXCEPT !.capacity = IF t.next_slot < @ THEN @ ELSE GrownCapacity(t),
                 !.next_slot = @ + 1]

CreateHandle(t, object) ==
  IF CanAllocate(t)
  THEN [code |-> "SUCCESS", id |-> AllocatedSlot(t),
        table |-> WithEntry(AllocateSlot(t), AllocatedSlot(t),
                            [object |-> object, ref_count |-> 1])]
  ELSE [code |-> "OUT_OF_HANDLES", id |-> NoId, table |-> t]

(* Mutant: counts the reference before the type is checked.                 *)
GetHandleCountsFirst(t, id, expected) ==
  LET counted == IF id \in Occupied(t)
                 THEN [t EXCEPT !.entries[id].ref_count = @ + 1] ELSE t
  IN  IF id \in Occupied(t) /\ SameType(t.entries[id].object, expected)
      THEN [code |-> "SUCCESS", id |-> id, table |-> counted]
      ELSE [code |-> "INVALID_HANDLE", id |-> NoId, table |-> counted]

(* Mutant: lends the object without counting the reference.                 *)
GetHandleUncounted(t, id, expected) ==
  IF id \in Occupied(t) /\ SameType(t.entries[id].object, expected)
  THEN [code |-> "SUCCESS", id |-> id, table |-> t]
  ELSE [code |-> "INVALID_HANDLE", id |-> NoId, table |-> t]

(* The count is a u32 incremented without a check: a release build wraps.   *)
GetHandle(t, id, expected) ==
  IF id \in Occupied(t) /\ SameType(t.entries[id].object, expected)
  THEN [code |-> "SUCCESS", id |-> id,
        table |-> [t EXCEPT !.entries[id].ref_count = (@ + 1) % RefModulus]]
  ELSE [code |-> "INVALID_HANDLE", id |-> NoId, table |-> t]

DropRef(t, id) == [t EXCEPT !.entries[id].ref_count = @ - 1]

(* Mutant: the id is not returned to the free list.                         *)
FreeSlotLosesId(t, id) == WithoutEntry(t, id)

(* Mutant: the id is returned while its entry is still in place.            *)
FreeSlotKeepsEntry(t, id) == [t EXCEPT !.free_list = Append(@, id)]

FreeSlot(t, id) == [WithoutEntry(t, id) EXCEPT !.free_list = Append(@, id)]

(* Mutant: frees the slot whatever the count.                               *)
ReleaseHandleAlwaysFrees(t, id) ==
  IF id \in Occupied(t)
  THEN [code |-> "SUCCESS", id |-> NoId, table |-> FreeSlot(t, id)]
  ELSE [code |-> "INVALID_HANDLE", id |-> NoId, table |-> t]

ReleaseHandle(t, id) ==
  IF id \in Occupied(t) /\ t.entries[id].ref_count # 0
  THEN [code |-> "SUCCESS", id |-> NoId,
        table |-> IF t.entries[id].ref_count = 1
                  THEN FreeSlot(t, id)
                  ELSE DropRef(t, id)]
  ELSE [code |-> "INVALID_HANDLE", id |-> NoId, table |-> t]

-----------------------------------------------------------------------------
(* What a table looks like. *)

TableTypeOK(t) ==
  /\ Occupied(t) \subseteq Ids
  /\ t \in [entries : [Occupied(t) -> HandleEntry], free_list : Seq(Ids),
            next_slot : 0 .. MaxCap, capacity : InitialCap .. MaxCap]

FreeIds(t) == {t.free_list[i] : i \in DOMAIN t.free_list}

(* The bookkeeping of allocate_slot, grow and release_handle agrees: below  *)
(* next_slot every id is either occupied or on the free list exactly once,  *)
(* above it nothing is used, and no slot lies outside the array.            *)
SlotsExact(t) ==
  /\ t.next_slot <= t.capacity
  /\ Occupied(t) \subseteq 0 .. (t.next_slot - 1)
  /\ FreeIds(t) = (0 .. (t.next_slot - 1)) \ Occupied(t)
  /\ \A i, j \in DOMAIN t.free_list : i # j => t.free_list[i] # t.free_list[j]
=============================================================================
