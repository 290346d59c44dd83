----------------------------- MODULE HandleTable -----------------------------
(***************************************************************************)
(* The handle table of HandleSlots in use: a set of callers, each able to  *)
(* hold one reference, that create, look up and release in any order.      *)
(***************************************************************************)
EXTENDS HandleSlots

CONSTANTS
  Callers,     (* each may hold one reference: bounds the model            *)
  Disciplined  (* TRUE: a caller releases only a reference it holds        *)

ASSUME RefAssumption ==
  /\ RefModulus \in Nat
  /\ IsFiniteSet(Callers)
  /\ Cardinality(Callers) < RefModulus

ASSUME DisciplineAssumption == Disciplined \in BOOLEAN

VARIABLES
  table,   (* the HandleTable                                               *)
  held,    (* held[c]: the id c holds a reference on, or NoId               *)
  stale,   (* stale[c]: an id c has released and still remembers, or NoId;  *)
           (* a disciplined caller forgets it                               *)
  code     (* the result code of the last call                              *)

vars == <<table, held, stale, code>>

Codes == {"SUCCESS", "INVALID_HANDLE", "OUT_OF_HANDLES"}

Init ==
  /\ table = NewTable
  /\ held = [c \in Callers |-> NoId]
  /\ stale = [c \in Callers |-> NoId]
  /\ code = "SUCCESS"

(* c ends a call with result r; what it holds and remembers is given.       *)
Return(c, r, holds, remembers) ==
  /\ table' = r.table
  /\ code' = r.code
  /\ held' = [held EXCEPT ![c] = holds]
  /\ stale' = [stale EXCEPT ![c] = remembers]

Create(c, object) ==
  /\ held[c] = NoId
  /\ LET r == CreateHandle(table, object) IN Return(c, r, r.id, stale[c])

(* The id is the caller's choice: any number a program may come up with.    *)
Get(c, id, expected) ==
  /\ held[c] = NoId
  /\ LET r == GetHandle(table, id, expected) IN Return(c, r, r.id, stale[c])

Release(c) ==
  /\ held[c] # NoId
  /\ Return(c, ReleaseHandle(table, held[c]), NoId,
            IF Disciplined THEN NoId ELSE held[c])

(* A late second release of a reference that was given back before.         *)
ReleaseAgain(c) ==
  /\ ~Disciplined
  /\ stale[c] # NoId
  /\ Return(c, ReleaseHandle(table, stale[c]), held[c], NoId)

Next ==
  \E c \in Callers :
    \/ \E object \in KernelObject : Create(c, object)
    \/ \E id \in 0 .. MaxCap, expected \in Types : Get(c, id, expected)
    \/ Release(c)
    \/ ReleaseAgain(c)

Spec == Init /\ [][Next]_vars

-----------------------------------------------------------------------------
(* Properties. *)

Holders(id) == {c \in Callers : held[c] = id}

(* Every variable stays in its type; in particular no count leaves the u32  *)
(* range and no id is handed out that lies beyond max_capacity.             *)
TypeOK ==
  /\ TableTypeOK(table)
  /\ held \in [Callers -> Ids \cup {NoId}]
  /\ stale \in [Callers -> Ids \cup {NoId}]
  /\ code \in Codes

(* The bookkeeping of allocate_slot, grow and release_handle agrees: below  *)
(* next_slot every id is either occupied or on the free list exactly once,  *)
(* above it nothing is used, and no slot lies outside the array.            *)
SlotsPartitioned == SlotsExact(table)

(* The array has grown only because it was full: it never doubles while     *)
(* half of it has not been handed out at least once.                        *)
GrowsOnDemand ==
  table.capacity > InitialCap => 2 * table.next_slot > table.capacity

(* create_handle reports OUT_OF_HANDLES exactly when all max_capacity slots *)
(* are occupied: ids released in any order are always found again.          *)
FailsOnlyWhenFull == CanAllocate(table) <=> Occupied(table) # Ids

(* The reference count of a slot is the number of callers holding it, an    *)
(* empty slot is held by nobody: nothing leaks and nothing is freed early.  *)
RefsCounted ==
  \A id \in Ids :
    IF id \in Occupied(table)
    THEN /\ table.entries[id].ref_count = Cardinality(Holders(id))
         /\ Holders(id) # {}
    ELSE Holders(id) = {}

(* Whatever the callers do, late second releases included, no slot stays    *)
(* occupied with more references counted than callers hold (a leak), nor    *)
(* with none.                                                               *)
NoLeakedSlot ==
  \A id \in Occupied(table) :
    table.entries[id].ref_count \in 1 .. Cardinality(Holders(id))

(* While a caller keeps its reference, the id it holds names the object it  *)
(* was given: the slot is not recycled under it by other callers' calls.    *)
HeldObjectPinned ==
  [][\A c \in Callers :
       held[c] # NoId /\ held'[c] = held[c]
       => /\ held[c] \in Occupied(table) \cap Occupied(table')
          /\ table'.entries[held[c]].object = table.entries[held[c]].object]_vars

(* The table keeps the promise of HandleRegistry: every call of a caller    *)
(* that releases what it holds, once, is a call of that registry.           *)
Registry == INSTANCE HandleRegistry WITH
  Objects <- KernelObject,
  objects <- [id \in Occupied(table) |-> table.entries[id].object]

ImplementsRegistry == Registry!Spec
=============================================================================
