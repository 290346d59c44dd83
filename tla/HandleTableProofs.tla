--------------------------- MODULE HandleTableProofs ---------------------------
(***************************************************************************)
(* Proofs about HandleTable, for every capacity, every set of callers and  *)
(* every width of the reference count that the assumptions allow.          *)
(***************************************************************************)
EXTENDS HandleTable, FiniteSetTheorems, TLAPS

(* The bookkeeping invariant of the array: it needs no discipline.          *)
Bookkeeping(t) == TableTypeOK(t) /\ SlotsExact(t)

GrownOnDemand(t) == t.capacity > InitialCap => 2 * t.next_slot > t.capacity

-----------------------------------------------------------------------------
(* The methods of the table. *)

(* A fresh table is well formed.                                            *)
LEMMA NewTableOK == Bookkeeping(NewTable) /\ GrownOnDemand(NewTable)
  <1> DEFINE t == NewTable
  <1>1. /\ t.entries = [id \in {} |-> 0] /\ t.free_list = <<>>
        /\ t.next_slot = 0 /\ t.capacity = InitialCap
    BY DEF NewTable
  <1>2. Occupied(t) = {}
    BY <1>1 DEF Occupied
  <1>3. TableTypeOK(t)
    <2>1. [id \in {} |-> 0] \in [{} -> HandleEntry]
      OBVIOUS
    <2>2. <<>> \in Seq(Ids)
      OBVIOUS
    <2> QED
      BY <1>2, <2>1, <2>2, CapacityAssumption DEF TableTypeOK, NewTable
  <1>4. SlotsExact(t)
    BY <1>1, <1>2, CapacityAssumption DEF SlotsExact, FreeIds
  <1> QED
    BY <1>1, <1>3, <1>4, CapacityAssumption DEF Bookkeeping, GrownOnDemand

(* allocate_slot gives an unoccupied slot inside the array, and leaves every *)
(* other id below next_slot where it was.                                   *)
LEMMA AllocateSlotOK ==
  ASSUME NEW t, Bookkeeping(t), GrownOnDemand(t), CanAllocate(t)
  PROVE  LET s == AllocatedSlot(t)
             u == AllocateSlot(t)
         IN  /\ s \in Ids \ Occupied(t)
             /\ u \in [entries : {t.entries}, free_list : Seq(Ids),
                       next_slot : 0 .. MaxCap, capacity : InitialCap .. MaxCap]
             /\ u.next_slot <= u.capacity
             /\ s < u.next_slot
             /\ t.next_slot <= u.next_slot
             /\ FreeIds(u) = (0 .. (u.next_slot - 1)) \ (Occupied(t) \cup {s})
             /\ \A i, j \in DOMAIN u.free_list :
                  i # j => u.free_list[i] # u.free_list[j]
             /\ GrownOnDemand(u)
  <1> DEFINE s == AllocatedSlot(t)
             u == AllocateSlot(t)
             n == Len(t.free_list)
  <1>0. /\ t \in [entries : [Occupied(t) -> HandleEntry], free_list : Seq(Ids),
                  next_slot : 0 .. MaxCap, capacity : InitialCap .. MaxCap]
        /\ Occupied(t) \subseteq Ids
    BY DEF Bookkeeping, TableTypeOK
  <1>1. /\ t.next_slot <= t.capacity
        /\ Occupied(t) \subseteq 0 .. (t.next_slot - 1)
        /\ FreeIds(t) = (0 .. (t.next_slot - 1)) \ Occupied(t)
        /\ \A i, j \in DOMAIN t.free_list : i # j => t.free_list[i] # t.free_list[j]
    BY DEF Bookkeeping, SlotsExact
  <1>2. t.next_slot \in Nat /\ t.capacity \in Nat /\ t.free_list \in Seq(Ids)
    BY <1>0, CapacityAssumption
  <1>3. CASE t.free_list # <<>>
    <2>1. n \in Nat \ {0} /\ DOMAIN t.free_list = 1 .. n
      BY <1>2, <1>3
    <2>2. s = t.free_list[n] /\ s \in FreeIds(t)
      BY <1>3, <2>1 DEF AllocatedSlot, FreeIds
    <2>3. s \in Ids \ Occupied(t) /\ s < t.next_slot
      BY <1>0, <1>1, <1>2, <2>1, <2>2, CapacityAssumption DEF Ids
    <2>4. u = [t EXCEPT !.free_list = SubSeq(t.free_list, 1, n - 1)]
      BY <1>3 DEF AllocateSlot
    <2>5. /\ u.free_list = SubSeq(t.free_list, 1, n - 1)
          /\ u.entries = t.entries
          /\ u.next_slot = t.next_slot
          /\ u.capacity = t.capacity
      BY <1>0, <2>4
    <2>6. /\ u.free_list \in Seq(Ids)
          /\ DOMAIN u.free_list = 1 .. (n - 1)
          /\ \A i \in 1 .. (n - 1) : u.free_list[i] = t.free_list[i]
      BY <1>2, <2>1, <2>5
    <2>7. FreeIds(u) = FreeIds(t) \ {s}
      <3>1. FreeIds(t) = {t.free_list[i] : i \in 1 .. n}
        BY <2>1 DEF FreeIds
      <3>2. FreeIds(u) = {t.free_list[i] : i \in 1 .. (n - 1)}
        BY <2>6 DEF FreeIds
      <3>3. \A i \in 1 .. (n - 1) : t.free_list[i] # s
        BY <1>1, <2>1, <2>2
      <3>4. \A i \in 1 .. n : i \in 1 .. (n - 1) \/ i = n
        BY <2>1
      <3>5. 1 .. (n - 1) \subseteq 1 .. n
        BY <2>1
      <3> HIDE DEF n, s, u
      <3> QED
        BY <2>2, <3>1, <3>2, <3>3, <3>4, <3>5
    <2>8. u \in [entries : {t.entries}, free_list : Seq(Ids),
                 next_slot : 0 .. MaxCap, capacity : InitialCap .. MaxCap]
      BY <1>0, <2>4, <2>5, <2>6
    <2>9. \A i, j \in DOMAIN u.free_list : i # j => u.free_list[i] # u.free_list[j]
      BY <1>1, <2>1, <2>6
    <2>10. FreeIds(u) = (0 .. (u.next_slot - 1)) \ (Occupied(t) \cup {s})
      BY <1>1, <2>5, <2>7
    <2>11. GrownOnDemand(u)
      BY <2>5 DEF GrownOnDemand
    <2> QED
      BY <1>1, <1>2, <2>3, <2>5, <2>8, <2>9, <2>10, <2>11
  <1>4. CASE t.free_list = <<>>
    <2> DEFINE cap == IF t.next_slot < t.capacity THEN t.capacity ELSE GrownCapacity(t)
    <2>1. s = t.next_slot
      BY <1>4 DEF AllocatedSlot
    <2>2. u = [t EXCEPT !.capacity = cap, !.next_slot = t.next_slot + 1]
      BY <1>4 DEF AllocateSlot
    <2>3. /\ u.free_list = <<>>
          /\ u.entries = t.entries
          /\ u.next_slot = t.next_slot + 1
          /\ u.capacity = cap
      BY <1>0, <1>4, <2>2
    <2>4. /\ cap \in InitialCap .. MaxCap
          /\ t.next_slot < cap
          /\ cap > InitialCap => 2 * (t.next_slot + 1) > cap
      <3>1. CASE t.next_slot < t.capacity
        BY <1>0, <1>2, <3>1 DEF GrownOnDemand
      <3>2. CASE ~(t.next_slot < t.capacity)
        <4>1. GrownCapacity(t) > t.capacity /\ t.next_slot = t.capacity
          BY <1>1, <1>2, <1>4, <3>2 DEF CanAllocate, CanGrow
        <4> QED
          BY <1>0, <1>2, <3>2, <4>1, CapacityAssumption DEF GrownCapacity
      <3> QED
        BY <3>1, <3>2
    <2>5. FreeIds(t) = {} /\ FreeIds(u) = {}
      BY <1>4, <2>3 DEF FreeIds
    <2>6. s \in Ids \ Occupied(t)
      BY <1>1, <1>2, <2>1, <2>4, CapacityAssumption DEF Ids
    <2>7. FreeIds(u) = (0 .. (u.next_slot - 1)) \ (Occupied(t) \cup {s})
      BY <1>1, <1>2, <2>1, <2>3, <2>5
    <2>8. u \in [entries : {t.entries}, free_list : Seq(Ids),
                 next_slot : 0 .. MaxCap, capacity : InitialCap .. MaxCap]
      <3>1. t.next_slot + 1 \in 0 .. MaxCap
        BY <1>2, <2>4, CapacityAssumption
      <3> QED
        BY <1>0, <2>2, <2>3, <2>4, <3>1
    <2>9. GrownOnDemand(u)
      BY <2>3, <2>4 DEF GrownOnDemand
    <2>10. u.next_slot <= u.capacity
      BY <1>2, <2>3, <2>4, CapacityAssumption
    <2> QED
      BY <1>2, <2>1, <2>3, <2>6, <2>7, <2>8, <2>9, <2>10
  <1> QED
    BY <1>3, <1>4

(* create_handle fills one free slot with a count of 1 and touches no other *)
(* slot, or refuses and touches nothing.                                    *)
LEMMA CreateHandleOK ==
  ASSUME NEW t, Bookkeeping(t), GrownOnDemand(t), NEW object \in KernelObject,
         CanAllocate(t), RefModulus > 1
  PROVE  LET s == AllocatedSlot(t)
             u == CreateHandle(t, object).table
         IN  /\ Bookkeeping(u) /\ GrownOnDemand(u)
             /\ s \in Ids \ Occupied(t)
             /\ Occupied(u) = Occupied(t) \cup {s}
             /\ u.entries[s] = [object |-> object, ref_count |-> 1]
             /\ \A id \in Occupied(t) : u.entries[id] = t.entries[id]
  <1> DEFINE s == AllocatedSlot(t)
             a == AllocateSlot(t)
             e == [object |-> object, ref_count |-> 1]
             f == [i \in DOMAIN t.entries \cup {s} |-> IF i = s THEN e ELSE t.entries[i]]
             u == CreateHandle(t, object).table
  <1>1. /\ s \in Ids \ Occupied(t)
        /\ a \in [entries : {t.entries}, free_list : Seq(Ids),
                  next_slot : 0 .. MaxCap, capacity : InitialCap .. MaxCap]
        /\ a.next_slot <= a.capacity
        /\ s < a.next_slot
        /\ t.next_slot <= a.next_slot
        /\ FreeIds(a) = (0 .. (a.next_slot - 1)) \ (Occupied(t) \cup {s})
        /\ \A i, j \in DOMAIN a.free_list : i # j => a.free_list[i] # a.free_list[j]
        /\ GrownOnDemand(a)
    BY AllocateSlotOK
  <1>2. /\ Occupied(t) \subseteq Ids
        /\ Occupied(t) \subseteq 0 .. (t.next_slot - 1)
        /\ t.entries \in [Occupied(t) -> HandleEntry]
        /\ t.next_slot \in Nat
    BY CapacityAssumption DEF Bookkeeping, TableTypeOK, SlotsExact
  <1>3. u = [a EXCEPT !.entries = f]
    <2>1. u = WithEntry(a, s, e)
      BY DEF CreateHandle
    <2>2. a.entries = t.entries
      BY <1>1
    <2> QED
      BY <2>1, <2>2 DEF WithEntry
  <1>4. /\ u.entries = f
        /\ u.free_list = a.free_list
        /\ u.next_slot = a.next_slot
        /\ u.capacity = a.capacity
    BY <1>1, <1>3
  <1>5. Occupied(u) = Occupied(t) \cup {s}
    BY <1>4 DEF Occupied
  <1>6. /\ u.entries[s] = e
        /\ \A id \in Occupied(t) : u.entries[id] = t.entries[id]
    BY <1>1, <1>4 DEF Occupied
  <1>7. TableTypeOK(u)
    <2>1. e \in HandleEntry
      BY RefAssumption DEF HandleEntry
    <2>2. f \in [Occupied(u) -> HandleEntry]
      BY <1>2, <1>5, <2>1 DEF Occupied
    <2>3. u \in [entries : [Occupied(u) -> HandleEntry], free_list : Seq(Ids),
                 next_slot : 0 .. MaxCap, capacity : InitialCap .. MaxCap]
      BY <1>1, <1>3, <1>4, <2>2
    <2> QED
      BY <1>1, <1>2, <1>5, <2>3 DEF TableTypeOK
  <1>8. SlotsExact(u)
    <2>1. FreeIds(u) = FreeIds(a)
      BY <1>4 DEF FreeIds
    <2>2. Occupied(u) \subseteq 0 .. (u.next_slot - 1)
      <3>1. s \in 0 .. (a.next_slot - 1)
        BY <1>1, CapacityAssumption DEF Ids
      <3>2. 0 .. (t.next_slot - 1) \subseteq 0 .. (a.next_slot - 1)
        BY <1>1, <1>2, CapacityAssumption
      <3> QED
        BY <1>2, <1>4, <1>5, <3>1, <3>2
    <2> HIDE DEF u, a, s
    <2> QED
      BY <1>1, <1>4, <1>5, <2>1, <2>2 DEF SlotsExact
  <1>9. GrownOnDemand(u)
    BY <1>1, <1>4 DEF GrownOnDemand
  <1> QED
    BY <1>1, <1>5, <1>6, <1>7, <1>8, <1>9 DEF Bookkeeping

(* Changing one count leaves the rest of the table alone.                   *)
LEMMA CountChangeOK ==
  ASSUME NEW t, Bookkeeping(t), GrownOnDemand(t), NEW id \in Occupied(t),
         NEW n \in 0 .. (RefModulus - 1)
  PROVE  LET u == [t EXCEPT !.entries[id].ref_count = n]
         IN  /\ Bookkeeping(u) /\ GrownOnDemand(u)
             /\ Occupied(u) = Occupied(t)
             /\ u.entries[id] = [object |-> t.entries[id].object, ref_count |-> n]
             /\ \A i \in Occupied(t) \ {id} : u.entries[i] = t.entries[i]
  <1> DEFINE e == [t.entries[id] EXCEPT !.ref_count = n]
             f == [t.entries EXCEPT ![id] = e]
             u == [t EXCEPT !.entries[id].ref_count = n]
  <1>1. /\ t \in [entries : [Occupied(t) -> HandleEntry], free_list : Seq(Ids),
                  next_slot : 0 .. MaxCap, capacity : InitialCap .. MaxCap]
        /\ Occupied(t) \subseteq Ids
    BY DEF Bookkeeping, TableTypeOK
  <1>2. t.entries \in [Occupied(t) -> HandleEntry]
    BY <1>1
  <1>3. t.entries[id] \in HandleEntry
    BY <1>2
  <1>4. e \in HandleEntry /\ e = [object |-> t.entries[id].object, ref_count |-> n]
    BY <1>3 DEF HandleEntry
  <1>5. f \in [Occupied(t) -> HandleEntry]
    BY <1>2, <1>4
  <1>6. u = [t EXCEPT !.entries = f]
    OBVIOUS
  <1>7. /\ u.entries = f /\ u.free_list = t.free_list
        /\ u.next_slot = t.next_slot /\ u.capacity = t.capacity
    BY <1>1, <1>6
  <1>8. Occupied(u) = Occupied(t)
    BY <1>5, <1>7 DEF Occupied
  <1>9. u.entries[id] = e /\ \A i \in Occupied(t) \ {id} : u.entries[i] = t.entries[i]
    BY <1>2, <1>7
  <1>10. TableTypeOK(u)
    <2>1. u \in [entries : [Occupied(u) -> HandleEntry], free_list : Seq(Ids),
                 next_slot : 0 .. MaxCap, capacity : InitialCap .. MaxCap]
      BY <1>1, <1>5, <1>6, <1>7, <1>8
    <2> QED
      BY <1>1, <1>8, <2>1 DEF TableTypeOK
  <1>11. SlotsExact(u) /\ GrownOnDemand(u)
    <2> HIDE DEF u
    <2> QED
      BY <1>7, <1>8 DEF SlotsExact, FreeIds, Bookkeeping, GrownOnDemand
  <1> QED
    BY <1>4, <1>8, <1>9, <1>10, <1>11 DEF Bookkeeping

(* Freeing a slot moves its id from the entries to the free list.           *)
LEMMA FreeSlotOK ==
  ASSUME NEW t, Bookkeeping(t), GrownOnDemand(t), NEW id \in Occupied(t)
  PROVE  LET u == FreeSlot(t, id)
         IN  /\ Bookkeeping(u) /\ GrownOnDemand(u)
             /\ Occupied(u) = Occupied(t) \ {id}
             /\ \A i \in Occupied(u) : u.entries[i] = t.entries[i]
  <1> DEFINE f == [i \in DOMAIN t.entries \ {id} |-> t.entries[i]]
             l == Append(t.free_list, id)
             n == Len(t.free_list)
             u == FreeSlot(t, id)
  <1>1. /\ t \in [entries : [Occupied(t) -> HandleEntry], free_list : Seq(Ids),
                  next_slot : 0 .. MaxCap, capacity : InitialCap .. MaxCap]
        /\ Occupied(t) \subseteq Ids
    BY DEF Bookkeeping, TableTypeOK
  <1>2. /\ t.next_slot <= t.capacity
        /\ Occupied(t) \subseteq 0 .. (t.next_slot - 1)
        /\ FreeIds(t) = (0 .. (t.next_slot - 1)) \ Occupied(t)
        /\ \A i, j \in DOMAIN t.free_list : i # j => t.free_list[i] # t.free_list[j]
    BY DEF Bookkeeping, SlotsExact
  <1>3. u = [[t EXCEPT !.entries = f] EXCEPT !.free_list = l]
    <2>1. [t EXCEPT !.entries = f].free_list = t.free_list
      BY <1>1
    <2> QED
      BY <2>1 DEF FreeSlot, WithoutEntry
  <1>4. /\ u.entries = f /\ u.free_list = l
        /\ u.next_slot = t.next_slot /\ u.capacity = t.capacity
    BY <1>1, <1>3
  <1>5. Occupied(u) = Occupied(t) \ {id}
    BY <1>4 DEF Occupied
  <1>6. \A i \in Occupied(u) : u.entries[i] = t.entries[i]
    BY <1>4, <1>5 DEF Occupied
  <1>7. n \in Nat /\ DOMAIN t.free_list = 1 .. n /\ id \in Ids /\ t.free_list \in Seq(Ids)
    BY <1>1
  <1>8. /\ l \in Seq(Ids) /\ DOMAIN l = 1 .. (n + 1) /\ l[n + 1] = id
        /\ \A i \in 1 .. n : l[i] = t.free_list[i]
    BY <1>7
  <1>9. TableTypeOK(u)
    <2>1. f \in [Occupied(u) -> HandleEntry]
      BY <1>1, <1>5 DEF Occupied
    <2>2. u \in [entries : [Occupied(u) -> HandleEntry], free_list : Seq(Ids),
                 next_slot : 0 .. MaxCap, capacity : InitialCap .. MaxCap]
      BY <1>1, <1>3, <1>4, <1>8, <2>1
    <2> QED
      BY <1>1, <1>5, <2>2 DEF TableTypeOK
  <1>10. SlotsExact(u)
    <2>1. FreeIds(u) = FreeIds(t) \cup {id}
      <3>1. FreeIds(t) = {t.free_list[i] : i \in 1 .. n}
        BY <1>7 DEF FreeIds
      <3>2. FreeIds(u) = {l[i] : i \in 1 .. (n + 1)}
        BY <1>4, <1>8 DEF FreeIds
      <3>3. \A i \in 1 .. (n + 1) : i \in 1 .. n \/ i = n + 1
        BY <1>7
      <3>4. 1 .. n \subseteq 1 .. (n + 1) /\ n + 1 \in 1 .. (n + 1)
        BY <1>7
      <3> HIDE DEF n, l, u
      <3> QED
        BY <1>8, <3>1, <3>2, <3>3, <3>4
    <2>2. FreeIds(u) = (0 .. (u.next_slot - 1)) \ Occupied(u)
      <3> HIDE DEF u
      <3> QED
        BY <1>2, <1>4, <1>5, <2>1
    <2>3. \A i \in 1 .. n : t.free_list[i] # id
      BY <1>2, <1>7 DEF FreeIds
    <2>4. \A i, j \in DOMAIN u.free_list : i # j => u.free_list[i] # u.free_list[j]
      <3> HIDE DEF n, l, u
      <3> QED
        BY <1>2, <1>4, <1>7, <1>8, <2>3
    <2> HIDE DEF u
    <2> QED
      BY <1>2, <1>4, <1>5, <2>2, <2>4 DEF SlotsExact
  <1>11. GrownOnDemand(u)
    BY <1>4 DEF GrownOnDemand
  <1> QED
    BY <1>5, <1>6, <1>9, <1>10, <1>11 DEF Bookkeeping

(* get_handle: one more reference on an object of the expected type, or no  *)
(* change.                                                                  *)
LEMMA GetHandleOK ==
  ASSUME NEW t, Bookkeeping(t), GrownOnDemand(t), NEW id, NEW expected
  PROVE  LET r == GetHandle(t, id, expected)
             n == (t.entries[id].ref_count + 1) % RefModulus
         IN  /\ Bookkeeping(r.table) /\ GrownOnDemand(r.table)
             /\ r.id \in Ids \cup {NoId} /\ r.code \in Codes
             /\ Occupied(r.table) = Occupied(t)
             /\ r.id = NoId => r.table = t
             /\ r.id # NoId =>
                  /\ r.id = id /\ id \in Occupied(t)
                  /\ r.table.entries[id] =
                       [object |-> t.entries[id].object, ref_count |-> n]
                  /\ \A i \in Occupied(t) \ {id} : r.table.entries[i] = t.entries[i]
  <1> DEFINE r == GetHandle(t, id, expected)
             n == (t.entries[id].ref_count + 1) % RefModulus
  <1>1. /\ Occupied(t) \subseteq Ids
        /\ t.entries \in [Occupied(t) -> HandleEntry]
    BY DEF Bookkeeping, TableTypeOK
  <1>2. NoId \notin Ids
    BY CapacityAssumption DEF NoId, Ids
  <1>3. CASE id \in Occupied(t) /\ SameType(t.entries[id].object, expected)
    <2>1. r = [code |-> "SUCCESS", id |-> id,
               table |-> [t EXCEPT !.entries[id].ref_count = n]]
      BY <1>3 DEF GetHandle
    <2>2. n \in 0 .. (RefModulus - 1)
      <3>1. t.entries[id].ref_count \in Nat
        BY <1>1, <1>3, RefAssumption DEF HandleEntry
      <3>2. RefModulus \in Nat \ {0}
        BY FS_CardinalityType, RefAssumption
      <3> QED
        BY <3>1, <3>2
    <2> HIDE DEF n, r
    <2>3. LET u == [t EXCEPT !.entries[id].ref_count = n]
          IN  /\ Bookkeeping(u) /\ GrownOnDemand(u)
              /\ Occupied(u) = Occupied(t)
              /\ u.entries[id] = [object |-> t.entries[id].object, ref_count |-> n]
              /\ \A i \in Occupied(t) \ {id} : u.entries[i] = t.entries[i]
      BY <1>3, <2>2, CountChangeOK
    <2>4. r.id # NoId /\ r.id = id /\ r.id \in Ids /\ r.code \in Codes
      BY <1>1, <1>2, <1>3, <2>1 DEF Codes
    <2>5. r.table = [t EXCEPT !.entries[id].ref_count = n]
      BY <2>1
    <2> QED
      BY <1>3, <2>3, <2>4, <2>5 DEF r, n
  <1>4. CASE ~(id \in Occupied(t) /\ SameType(t.entries[id].object, expected))
    BY <1>4 DEF GetHandle, Codes
  <1> QED
    BY <1>3, <1>4

(* release_handle: one reference fewer; the last one frees the slot.        *)
LEMMA ReleaseHandleOK ==
  ASSUME NEW t, Bookkeeping(t), GrownOnDemand(t), NEW id
  PROVE  LET r == ReleaseHandle(t, id)
             n == t.entries[id].ref_count
         IN  /\ Bookkeeping(r.table) /\ GrownOnDemand(r.table)
             /\ r.code \in {"SUCCESS", "INVALID_HANDLE"}
             /\ r.code = "INVALID_HANDLE" => r.table = t
             /\ r.code = "SUCCESS" =>
                  /\ id \in Occupied(t) /\ n \in Nat \ {0}
                  /\ \A i \in Occupied(t) \ {id} : r.table.entries[i] = t.entries[i]
                  /\ n = 1 => Occupied(r.table) = Occupied(t) \ {id}
                  /\ n # 1 => /\ Occupied(r.table) = Occupied(t)
                              /\ r.table.entries[id] =
                                   [object |-> t.entries[id].object, ref_count |-> n - 1]
             /\ id \in Occupied(t) /\ n # 0 => r.code = "SUCCESS"
  <1> DEFINE r == ReleaseHandle(t, id)
             n == t.entries[id].ref_count
  <1>1. t.entries \in [Occupied(t) -> HandleEntry]
    BY DEF Bookkeeping, TableTypeOK
  <1>2. CASE id \in Occupied(t) /\ n # 0
    <2>1. n \in 1 .. (RefModulus - 1)
      BY <1>1, <1>2, RefAssumption DEF HandleEntry
    <2>2. CASE n = 1
      <3>1. r = [code |-> "SUCCESS", id |-> NoId, table |-> FreeSlot(t, id)]
        BY <1>2, <2>2 DEF ReleaseHandle
      <3>2. r.table = FreeSlot(t, id) /\ r.code = "SUCCESS"
        BY <3>1
      <3>3. LET u == FreeSlot(t, id)
            IN  /\ Bookkeeping(u) /\ GrownOnDemand(u)
                /\ Occupied(u) = Occupied(t) \ {id}
                /\ \A i \in Occupied(u) : u.entries[i] = t.entries[i]
        BY <1>2, FreeSlotOK
      <3> HIDE DEF r
      <3>4. /\ Bookkeeping(r.table) /\ GrownOnDemand(r.table)
            /\ Occupied(r.table) = Occupied(t) \ {id}
            /\ \A i \in Occupied(t) \ {id} : r.table.entries[i] = t.entries[i]
        BY <3>2, <3>3
      <3> QED
        BY <1>2, <2>1, <2>2, <3>2, <3>4 DEF r
    <2>3. CASE n # 1
      <3>1. r = [code |-> "SUCCESS", id |-> NoId,
                 table |-> [t EXCEPT !.entries[id].ref_count = n - 1]]
        BY <1>2, <2>3 DEF ReleaseHandle, DropRef
      <3>2. /\ r.table = [t EXCEPT !.entries[id].ref_count = n - 1]
            /\ r.code = "SUCCESS"
        BY <3>1
      <3>3. n - 1 \in 0 .. (RefModulus - 1) /\ n \in Nat \ {0}
        BY <2>1, RefAssumption
      <3> HIDE DEF n, r
      <3>4. LET u == [t EXCEPT !.entries[id].ref_count = n - 1]
            IN  /\ Bookkeeping(u) /\ GrownOnDemand(u)
                /\ Occupied(u) = Occupied(t)
                /\ u.entries[id] = [object |-> t.entries[id].object, ref_count |-> n - 1]
                /\ \A i \in Occupied(t) \ {id} : u.entries[i] = t.entries[i]
        BY <1>2, <3>3, CountChangeOK
      <3> QED
        BY <1>2, <2>3, <3>2, <3>3, <3>4 DEF r, n
    <2> QED
      BY <2>2, <2>3
  <1>3. CASE ~(id \in Occupied(t) /\ n # 0)
    BY <1>3 DEF ReleaseHandle
  <1> QED
    BY <1>2, <1>3

-----------------------------------------------------------------------------
(* The table in use. *)

(* What holds with any callers, late second releases included.              *)
StructInv == TypeOK /\ SlotsPartitioned /\ GrowsOnDemand

LEMMA StructInvFacts ==
  StructInv <=> /\ Bookkeeping(table) /\ GrownOnDemand(table)
                /\ held \in [Callers -> Ids \cup {NoId}]
                /\ stale \in [Callers -> Ids \cup {NoId}]
                /\ code \in Codes
  BY DEF StructInv, TypeOK, SlotsPartitioned, GrowsOnDemand, Bookkeeping, GrownOnDemand

LEMMA CallersCounted == Callers # {} => RefModulus > 1
  <1>1. Cardinality(Callers) \in Nat /\ (Callers # {} => Cardinality(Callers) # 0)
    BY FS_CardinalityType, FS_EmptySet, RefAssumption
  <1> QED
    BY <1>1, RefAssumption

LEMMA StructInvInit == Init => StructInv
  <1> SUFFICES ASSUME Init PROVE StructInv
    OBVIOUS
  <1>1. Bookkeeping(table) /\ GrownOnDemand(table)
    BY NewTableOK DEF Init
  <1> QED
    BY <1>1, StructInvFacts DEF Init, Codes

(* A returned table and its ids are in their types.                         *)
LEMMA ReturnTyped ==
  ASSUME StructInv, NEW c \in Callers, NEW r,
         NEW holds \in Ids \cup {NoId}, NEW remembers \in Ids \cup {NoId},
         Return(c, r, holds, remembers),
         Bookkeeping(r.table), GrownOnDemand(r.table), r.code \in Codes
  PROVE  StructInv'
  <1>1. /\ held' \in [Callers -> Ids \cup {NoId}]
        /\ stale' \in [Callers -> Ids \cup {NoId}]
    BY StructInvFacts DEF Return
  <1>2. Bookkeeping(table') /\ GrownOnDemand(table') /\ code' \in Codes
    BY DEF Return
  <1> QED
    BY <1>1, <1>2
    DEF StructInv, TypeOK, SlotsPartitioned, GrowsOnDemand, Bookkeeping, GrownOnDemand

LEMMA StructInvStep == StructInv /\ [Next]_vars => StructInv'
  <1> SUFFICES ASSUME StructInv, [Next]_vars PROVE StructInv'
    OBVIOUS
  <1>0. /\ Bookkeeping(table) /\ GrownOnDemand(table)
        /\ held \in [Callers -> Ids \cup {NoId}]
        /\ stale \in [Callers -> Ids \cup {NoId}]
    BY StructInvFacts
  <1>1. ASSUME NEW c \in Callers, NEW object \in KernelObject, Create(c, object)
        PROVE  StructInv'
    <2> DEFINE r == CreateHandle(table, object)
    <2>1. Return(c, r, r.id, stale[c])
      BY <1>1 DEF Create
    <2>2. CASE CanAllocate(table)
      <3>1. r.id = AllocatedSlot(table) /\ r.code \in Codes
        BY <2>2 DEF CreateHandle, Codes
      <3>2. RefModulus > 1
        BY CallersCounted
      <3>3. Bookkeeping(r.table) /\ GrownOnDemand(r.table) /\ r.id \in Ids
        BY <1>0, <2>2, <3>1, <3>2, CreateHandleOK
      <3> QED
        BY <1>0, <2>1, <3>1, <3>3, ReturnTyped
    <2>3. CASE ~CanAllocate(table)
      <3>1. r.id = NoId /\ r.code \in Codes /\ r.table = table
        BY <2>3 DEF CreateHandle, Codes
      <3> QED
        BY <1>0, <2>1, <3>1, ReturnTyped
    <2> QED
      BY <2>2, <2>3
  <1>2. ASSUME NEW c \in Callers, NEW id, NEW expected, Get(c, id, expected)
        PROVE  StructInv'
    <2> DEFINE r == GetHandle(table, id, expected)
    <2>1. Return(c, r, r.id, stale[c])
      BY <1>2 DEF Get
    <2>2. /\ Bookkeeping(r.table) /\ GrownOnDemand(r.table)
          /\ r.id \in Ids \cup {NoId} /\ r.code \in Codes
      BY <1>0, GetHandleOK
    <2> QED
      BY <1>0, <2>1, <2>2, ReturnTyped
  <1>3. ASSUME NEW c \in Callers, NEW id, NEW holds \in Ids \cup {NoId},
               NEW remembers \in Ids \cup {NoId},
               Return(c, ReleaseHandle(table, id), holds, remembers)
        PROVE  StructInv'
    <2> DEFINE r == ReleaseHandle(table, id)
    <2>1. Bookkeeping(r.table) /\ GrownOnDemand(r.table) /\ r.code \in Codes
      BY <1>0, ReleaseHandleOK DEF Codes
    <2> QED
      BY <1>3, <2>1, ReturnTyped
  <1>4. ASSUME NEW c \in Callers, Release(c) PROVE StructInv'
    BY <1>0, <1>3, <1>4 DEF Release
  <1>5. ASSUME NEW c \in Callers, ReleaseAgain(c) PROVE StructInv'
    BY <1>0, <1>3, <1>5 DEF ReleaseAgain
  <1>6. CASE UNCHANGED vars
    BY <1>6 DEF vars, StructInv, TypeOK, SlotsPartitioned, GrowsOnDemand
  <1> QED
    BY <1>1, <1>2, <1>4, <1>5, <1>6 DEF Next

(* Type correctness of the table and its bookkeeping, for every capacity,   *)
(* every width of the count and callers that may release too often.         *)
THEOREM Structure == Spec => [](TypeOK /\ SlotsPartitioned /\ GrowsOnDemand)
  <1>1. Spec => []StructInv
    BY StructInvInit, StructInvStep, PTL DEF Spec
  <1>2. StructInv => TypeOK /\ SlotsPartitioned /\ GrowsOnDemand
    BY DEF StructInv
  <1> QED
    BY <1>1, <1>2, PTL

(* allocate_slot can fail only with max_capacity slots occupied.            *)
LEMMA FullIffRefused == StructInv => FailsOnlyWhenFull
  <1> SUFFICES ASSUME StructInv PROVE FailsOnlyWhenFull
    OBVIOUS
  <1>1. /\ Bookkeeping(table) /\ GrownOnDemand(table)
    BY StructInvFacts
  <1>2. ASSUME CanAllocate(table) PROVE Occupied(table) # Ids
    BY <1>1, <1>2, AllocateSlotOK
  <1>3. ASSUME ~CanAllocate(table) PROVE Occupied(table) = Ids
    <2>1. /\ table.next_slot \in Nat /\ table.capacity \in InitialCap .. MaxCap
          /\ table.next_slot <= table.capacity /\ Occupied(table) \subseteq Ids
          /\ FreeIds(table) = (0 .. (table.next_slot - 1)) \ Occupied(table)
      BY <1>1, CapacityAssumption DEF Bookkeeping, TableTypeOK, SlotsExact
    <2>2. table.free_list = <<>> /\ table.next_slot >= table.capacity
          /\ ~(GrownCapacity(table) > table.capacity)
      BY <1>3, <2>1, CapacityAssumption DEF CanAllocate, CanGrow
    <2>3. table.capacity = MaxCap
      BY <2>1, <2>2, CapacityAssumption DEF GrownCapacity
    <2>4. FreeIds(table) = {}
      BY <2>2 DEF FreeIds
    <2>5. table.next_slot = MaxCap
      BY <2>1, <2>2, <2>3, CapacityAssumption
    <2> QED
      BY <2>1, <2>4, <2>5 DEF Ids
  <1> QED
    BY <1>2, <1>3 DEF FailsOnlyWhenFull

(* OUT_OF_HANDLES is returned exactly when the table is full: no released   *)
(* id is ever lost to the allocator.                                        *)
THEOREM NoIdLost == Spec => []FailsOnlyWhenFull
  <1>1. Spec => []StructInv
    BY StructInvInit, StructInvStep, PTL DEF Spec
  <1> QED
    BY <1>1, FullIffRefused, PTL

-----------------------------------------------------------------------------
(* Reference counting, for callers that release only what they hold. *)

HoldersOf(h, id) == {c \in Callers : h[c] = id}

(* A caller that takes up an id joins its holders and nobody else's.        *)
LEMMA HolderJoins ==
  ASSUME held \in [Callers -> Ids \cup {NoId}], NEW c \in Callers,
         held[c] = NoId, NEW id \in Ids, held' = [held EXCEPT ![c] = id]
  PROVE  /\ HoldersOf(held', id) = HoldersOf(held, id) \cup {c}
         /\ Cardinality(HoldersOf(held', id)) = Cardinality(HoldersOf(held, id)) + 1
         /\ \A i \in Ids \ {id} : HoldersOf(held', i) = HoldersOf(held, i)
  <1>1. NoId \notin Ids
    BY CapacityAssumption DEF NoId, Ids
  <1>2. /\ HoldersOf(held', id) = HoldersOf(held, id) \cup {c}
        /\ c \notin HoldersOf(held, id)
        /\ \A i \in Ids \ {id} : HoldersOf(held', i) = HoldersOf(held, i)
    BY <1>1 DEF HoldersOf
  <1>3. IsFiniteSet(HoldersOf(held, id))
    BY FS_Subset, RefAssumption DEF HoldersOf
  <1>4. Cardinality(HoldersOf(held, id) \cup {c}) = Cardinality(HoldersOf(held, id)) + 1
    BY <1>2, <1>3, FS_AddElement
  <1> QED
    BY <1>2, <1>4

(* A caller that gives its id up leaves its holders and nobody else's.      *)
LEMMA HolderLeaves ==
  ASSUME held \in [Callers -> Ids \cup {NoId}], NEW c \in Callers,
         held[c] \in Ids, held' = [held EXCEPT ![c] = NoId]
  PROVE  LET id == held[c]
         IN  /\ HoldersOf(held', id) = HoldersOf(held, id) \ {c}
             /\ Cardinality(HoldersOf(held', id)) = Cardinality(HoldersOf(held, id)) - 1
             /\ \A i \in Ids \ {id} : HoldersOf(held', i) = HoldersOf(held, i)
  <1> DEFINE id == held[c]
  <1>1. NoId \notin Ids
    BY CapacityAssumption DEF NoId, Ids
  <1>2. /\ HoldersOf(held', id) = HoldersOf(held, id) \ {c}
        /\ c \in HoldersOf(held, id)
        /\ \A i \in Ids \ {id} : HoldersOf(held', i) = HoldersOf(held, i)
    BY <1>1 DEF HoldersOf
  <1>3. IsFiniteSet(HoldersOf(held, id))
    BY FS_Subset, RefAssumption DEF HoldersOf
  <1>4. Cardinality(HoldersOf(held, id) \ {c}) = Cardinality(HoldersOf(held, id)) - 1
    BY <1>2, <1>3, FS_RemoveElement
  <1> QED
    BY <1>2, <1>4

(* Fewer holders than values of the counter; no holder means count zero.    *)
LEMMA HoldersBounded ==
  ASSUME NEW h, NEW id
  PROVE  /\ IsFiniteSet(HoldersOf(h, id))
         /\ Cardinality(HoldersOf(h, id)) \in Nat
         /\ Cardinality(HoldersOf(h, id)) < RefModulus
         /\ Cardinality(HoldersOf(h, id)) = 0 <=> HoldersOf(h, id) = {}
  <1>1. HoldersOf(h, id) \in SUBSET Callers
    BY DEF HoldersOf
  <1>2. /\ IsFiniteSet(HoldersOf(h, id))
        /\ Cardinality(HoldersOf(h, id)) <= Cardinality(Callers)
    BY <1>1, FS_Subset, RefAssumption
  <1>3. Cardinality(HoldersOf(h, id)) \in Nat /\ Cardinality(Callers) \in Nat
    BY <1>2, FS_CardinalityType, RefAssumption
  <1> QED
    BY <1>2, <1>3, FS_EmptySet, RefAssumption

(* RefsCounted, over a table and an assignment of ids to callers.           *)
Counted(t, h) ==
  \A id \in Ids :
    IF id \in Occupied(t)
    THEN /\ t.entries[id].ref_count = Cardinality(HoldersOf(h, id))
         /\ HoldersOf(h, id) # {}
    ELSE HoldersOf(h, id) = {}

LEMMA RefsCountedIsCounted == RefsCounted <=> Counted(table, held)
  BY DEF RefsCounted, Counted, Holders, HoldersOf

IInv == StructInv /\ Counted(table, held)

LEMMA CountedCreate ==
  ASSUME IInv, NEW c \in Callers, NEW object \in KernelObject, Create(c, object)
  PROVE  Counted(table', held')
  <1> DEFINE r == CreateHandle(table, object)
             s == AllocatedSlot(table)
  <1>1. /\ Bookkeeping(table) /\ GrownOnDemand(table)
        /\ held \in [Callers -> Ids \cup {NoId}]
        /\ Counted(table, held)
    BY StructInvFacts DEF IInv
  <1>2. /\ table' = r.table /\ held' = [held EXCEPT ![c] = r.id] /\ held[c] = NoId
    BY DEF Create, Return
  <1>3. CASE CanAllocate(table)
    <2>1. r.id = s
      BY <1>3 DEF CreateHandle
    <2>2. /\ s \in Ids \ Occupied(table)
          /\ Occupied(table') = Occupied(table) \cup {s}
          /\ table'.entries[s].ref_count = 1
          /\ \A id \in Occupied(table) : table'.entries[id] = table.entries[id]
      <3>1. RefModulus > 1
        BY CallersCounted
      <3>2. /\ s \in Ids \ Occupied(table)
            /\ Occupied(r.table) = Occupied(table) \cup {s}
            /\ r.table.entries[s] = [object |-> object, ref_count |-> 1]
            /\ \A id \in Occupied(table) : r.table.entries[id] = table.entries[id]
        BY <1>1, <1>3, <3>1, CreateHandleOK
      <3> HIDE DEF r, s
      <3> QED
        BY <1>2, <3>2
    <2>3. HoldersOf(held, s) = {} /\ Cardinality(HoldersOf(held, s)) = 0
      BY <1>1, <2>2, FS_EmptySet DEF Counted
    <2> HIDE DEF r, s
    <2>4. /\ HoldersOf(held', s) = HoldersOf(held, s) \cup {c}
          /\ Cardinality(HoldersOf(held', s)) = Cardinality(HoldersOf(held, s)) + 1
          /\ \A i \in Ids \ {s} : HoldersOf(held', i) = HoldersOf(held, i)
      <3>1. held' = [held EXCEPT ![c] = s]
        BY <1>2, <2>1
      <3>2. s \in Ids /\ held[c] = NoId
        BY <1>2, <2>2
      <3>3. held \in [Callers -> Ids \cup {NoId}]
        BY <1>1
      <3> QED
        BY <3>1, <3>2, <3>3, HolderJoins
    <2> QED
      BY <1>1, <2>2, <2>3, <2>4 DEF Counted
  <1>4. CASE ~CanAllocate(table)
    <2>1. r.id = NoId /\ r.table = table
      BY <1>4 DEF CreateHandle
    <2>2. held' = held /\ table' = table
      BY <1>1, <1>2, <2>1
    <2> QED
      BY <1>1, <2>2
  <1> QED
    BY <1>3, <1>4

LEMMA CountedGet ==
  ASSUME IInv, NEW c \in Callers, NEW id, NEW expected, Get(c, id, expected)
  PROVE  Counted(table', held')
  <1> DEFINE r == GetHandle(table, id, expected)
             n == table.entries[id].ref_count
  <1>1. /\ Bookkeeping(table) /\ GrownOnDemand(table)
        /\ held \in [Callers -> Ids \cup {NoId}]
        /\ Counted(table, held)
        /\ Occupied(table) \subseteq Ids
    BY StructInvFacts DEF IInv, Bookkeeping, TableTypeOK
  <1>2. /\ table' = r.table /\ held' = [held EXCEPT ![c] = r.id] /\ held[c] = NoId
    BY DEF Get, Return
  <1>3. CASE r.id # NoId
    <2>1. /\ r.id = id /\ id \in Occupied(table)
          /\ Occupied(table') = Occupied(table)
          /\ table'.entries[id].ref_count = (n + 1) % RefModulus
          /\ \A i \in Occupied(table) \ {id} : table'.entries[i] = table.entries[i]
      <3>1. /\ r.id = id /\ id \in Occupied(table)
            /\ Occupied(r.table) = Occupied(table)
            /\ r.table.entries[id] = [object |-> table.entries[id].object,
                                      ref_count |-> (n + 1) % RefModulus]
            /\ \A i \in Occupied(table) \ {id} : r.table.entries[i] = table.entries[i]
        BY <1>1, <1>3, GetHandleOK
      <3> HIDE DEF r, n
      <3> QED
        BY <1>2, <3>1
    <2>2. /\ HoldersOf(held', id) = HoldersOf(held, id) \cup {c}
          /\ Cardinality(HoldersOf(held', id)) = Cardinality(HoldersOf(held, id)) + 1
          /\ \A i \in Ids \ {id} : HoldersOf(held', i) = HoldersOf(held, i)
      <3>1. held' = [held EXCEPT ![c] = id]
        BY <1>2, <2>1
      <3>2. id \in Ids /\ held[c] = NoId
        BY <1>1, <1>2, <2>1
      <3> QED
        BY <1>1, <3>1, <3>2, HolderJoins
    <2>3. n = Cardinality(HoldersOf(held, id))
      BY <1>1, <2>1 DEF Counted
    <2>4. (n + 1) % RefModulus = n + 1
      <3>1. n \in Nat /\ n + 1 < RefModulus /\ RefModulus \in Nat
        BY <2>2, <2>3, HoldersBounded, RefAssumption
      <3> HIDE DEF n
      <3> QED
        BY <3>1
    <2> HIDE DEF n, r
    <2> QED
      BY <1>1, <2>1, <2>2, <2>3, <2>4 DEF Counted
  <1>4. CASE r.id = NoId
    <2>1. r.table = table
      <3>1. r.id = NoId => r.table = table
        <4>1. id \in Occupied(table) => id # NoId
          BY <1>1, CapacityAssumption DEF NoId, Ids
        <4> QED
          BY <4>1 DEF GetHandle
      <3> QED
        BY <1>4, <3>1
    <2>2. held' = held /\ table' = table
      BY <1>1, <1>2, <1>4, <2>1
    <2> QED
      BY <1>1, <2>2
  <1> QED
    BY <1>3, <1>4

(* A caller that holds a reference can always give it back.                 *)
LEMMA HeldIsOccupied ==
  ASSUME IInv, NEW c \in Callers, held[c] # NoId
  PROVE  /\ held[c] \in Ids \cap Occupied(table)
         /\ table.entries[held[c]].ref_count = Cardinality(HoldersOf(held, held[c]))
         /\ c \in HoldersOf(held, held[c])
         /\ ReleaseHandle(table, held[c]).code = "SUCCESS"
  <1>1. /\ Bookkeeping(table) /\ GrownOnDemand(table)
        /\ held[c] \in Ids /\ Counted(table, held)
    BY StructInvFacts DEF IInv
  <1>2. c \in HoldersOf(held, held[c])
    BY DEF HoldersOf
  <1>3. /\ held[c] \in Occupied(table)
        /\ table.entries[held[c]].ref_count = Cardinality(HoldersOf(held, held[c]))
    BY <1>1, <1>2 DEF Counted
  <1>4. table.entries[held[c]].ref_count # 0
    BY <1>2, <1>3, HoldersBounded
  <1>5. ReleaseHandle(table, held[c]).code = "SUCCESS"
    BY <1>1, <1>3, <1>4, ReleaseHandleOK
  <1> QED
    BY <1>1, <1>2, <1>3, <1>5

LEMMA CountedRelease ==
  ASSUME IInv, NEW c \in Callers, Release(c)
  PROVE  Counted(table', held')
  <1> DEFINE id == held[c]
             r == ReleaseHandle(table, id)
             n == table.entries[id].ref_count
  <1>1. /\ Bookkeeping(table) /\ GrownOnDemand(table)
        /\ held \in [Callers -> Ids \cup {NoId}]
        /\ Counted(table, held)
        /\ Occupied(table) \subseteq Ids
    BY StructInvFacts DEF IInv, Bookkeeping, TableTypeOK
  <1>2. table' = r.table /\ held' = [held EXCEPT ![c] = NoId] /\ id # NoId
    BY DEF Release, Return
  <1>3. /\ id \in Ids \cap Occupied(table) /\ r.code = "SUCCESS"
        /\ n = Cardinality(HoldersOf(held, id))
    BY <1>2, HeldIsOccupied
  <1>4. /\ HoldersOf(held', id) = HoldersOf(held, id) \ {c}
        /\ Cardinality(HoldersOf(held', id)) = Cardinality(HoldersOf(held, id)) - 1
        /\ \A i \in Ids \ {id} : HoldersOf(held', i) = HoldersOf(held, i)
    BY <1>1, <1>2, <1>3, HolderLeaves
  <1>5. /\ n \in Nat \ {0}
        /\ \A i \in Occupied(table) \ {id} : table'.entries[i] = table.entries[i]
        /\ n = 1 => Occupied(table') = Occupied(table) \ {id}
        /\ n # 1 => /\ Occupied(table') = Occupied(table)
                    /\ table'.entries[id].ref_count = n - 1
    <2>1. /\ n \in Nat \ {0}
          /\ \A i \in Occupied(table) \ {id} : r.table.entries[i] = table.entries[i]
          /\ n = 1 => Occupied(r.table) = Occupied(table) \ {id}
          /\ n # 1 => /\ Occupied(r.table) = Occupied(table)
                      /\ r.table.entries[id] =
                           [object |-> table.entries[id].object, ref_count |-> n - 1]
      BY <1>1, <1>3, ReleaseHandleOK
    <2> HIDE DEF r, n, id
    <2> QED
      BY <1>2, <2>1
  <1>6. Cardinality(HoldersOf(held', id)) = 0 <=> HoldersOf(held', id) = {}
    BY HoldersBounded
  <1> HIDE DEF id, r, n
  <1>7. SUFFICES ASSUME NEW i \in Ids
                 PROVE  IF i \in Occupied(table')
                        THEN /\ table'.entries[i].ref_count
                                  = Cardinality(HoldersOf(held', i))
                             /\ HoldersOf(held', i) # {}
                        ELSE HoldersOf(held', i) = {}
    BY DEF Counted
  <1>8. CASE i # id
    <2>1. /\ HoldersOf(held', i) = HoldersOf(held, i)
          /\ i \in Occupied(table') <=> i \in Occupied(table)
          /\ i \in Occupied(table) => table'.entries[i] = table.entries[i]
      BY <1>4, <1>5, <1>8
    <2> QED
      BY <1>1, <2>1 DEF Counted
  <1>9. CASE i = id
    <2>1. Cardinality(HoldersOf(held', i)) = n - 1
      BY <1>3, <1>4, <1>9
    <2> QED
      BY <1>3, <1>5, <1>6, <1>9, <2>1
  <1> QED
    BY <1>8, <1>9

LEMMA IInvInit == Init => IInv
  <1> SUFFICES ASSUME Init PROVE IInv
    OBVIOUS
  <1>1. Occupied(table) = {}
    BY DEF Init, NewTable, Occupied
  <1>2. \A id \in Ids : HoldersOf(held, id) = {}
    BY CapacityAssumption DEF Init, HoldersOf, NoId, Ids
  <1> QED
    BY <1>1, <1>2, StructInvInit DEF IInv, Counted

LEMMA IInvStep ==
  ASSUME Disciplined
  PROVE  IInv /\ [Next]_vars => IInv'
  <1> SUFFICES ASSUME IInv, [Next]_vars PROVE IInv'
    OBVIOUS
  <1>1. StructInv'
    BY StructInvStep DEF IInv
  <1>2. Counted(table', held')
    <2>1. ASSUME NEW c \in Callers, NEW object \in KernelObject, Create(c, object)
          PROVE  Counted(table', held')
      BY <2>1, CountedCreate
    <2>2. ASSUME NEW c \in Callers, NEW id, NEW expected, Get(c, id, expected)
          PROVE  Counted(table', held')
      BY <2>2, CountedGet
    <2>3. ASSUME NEW c \in Callers, Release(c) PROVE Counted(table', held')
      BY <2>3, CountedRelease
    <2>4. ASSUME NEW c \in Callers, ReleaseAgain(c) PROVE FALSE
      BY <2>4 DEF ReleaseAgain
    <2>5. CASE UNCHANGED vars
      BY <2>5 DEF vars, IInv
    <2> QED
      BY <2>1, <2>2, <2>3, <2>4, <2>5 DEF Next
  <1> QED
    BY <1>1, <1>2 DEF IInv

(* The count of every slot is the number of callers holding it, and an      *)
(* empty slot has no holder: no leak, no early free, no wrapped count.      *)
THEOREM ReferencesCounted ==
  ASSUME Disciplined
  PROVE  Spec => []RefsCounted
  <1>1. Spec => []IInv
    BY IInvInit, IInvStep, PTL DEF Spec
  <1>2. IInv => RefsCounted
    BY RefsCountedIsCounted DEF IInv
  <1> QED
    BY <1>1, <1>2, PTL

(* No call replaces an object in a slot that stays occupied.                *)
LEMMA ObjectsKept ==
  ASSUME StructInv, Next
  PROVE  \A i \in Occupied(table) \cap Occupied(table') :
           table'.entries[i].object = table.entries[i].object
  <1> DEFINE Kept(u) == \A i \in Occupied(table) \cap Occupied(u) :
                          u.entries[i].object = table.entries[i].object
  <1>0. Bookkeeping(table) /\ GrownOnDemand(table)
    BY StructInvFacts
  <1>1. ASSUME NEW c \in Callers, NEW object \in KernelObject, Create(c, object)
        PROVE  Kept(table')
    <2> DEFINE r == CreateHandle(table, object)
    <2>1. table' = r.table
      BY <1>1 DEF Create, Return
    <2>2. CASE CanAllocate(table)
      <3>1. RefModulus > 1
        BY CallersCounted
      <3>2. \A id \in Occupied(table) : r.table.entries[id] = table.entries[id]
        BY <1>0, <2>2, <3>1, CreateHandleOK
      <3> HIDE DEF r
      <3> QED
        BY <2>1, <3>2
    <2>3. CASE ~CanAllocate(table)
      BY <2>1, <2>3 DEF CreateHandle
    <2> QED
      BY <2>2, <2>3
  <1>2. ASSUME NEW c \in Callers, NEW id, NEW expected, Get(c, id, expected)
        PROVE  Kept(table')
    <2> DEFINE r == GetHandle(table, id, expected)
    <2>1. table' = r.table
      BY <1>2 DEF Get, Return
    <2>2. CASE id \in Occupied(table) /\ SameType(table.entries[id].object, expected)
      <3>1. r.id = id /\ r.id # NoId
        <4>1. id \in Ids /\ r.id = id
          BY <1>0, <2>2 DEF GetHandle, Bookkeeping, TableTypeOK
        <4> QED
          BY <4>1, CapacityAssumption DEF NoId, Ids
      <3>2. /\ r.table.entries[id] =
                 [object |-> table.entries[id].object,
                  ref_count |-> (table.entries[id].ref_count + 1) % RefModulus]
            /\ \A i \in Occupied(table) \ {id} : r.table.entries[i] = table.entries[i]
        <4>1. r.id # NoId =>
                /\ r.id = id /\ id \in Occupied(table)
                /\ r.table.entries[id] =
                     [object |-> table.entries[id].object,
                      ref_count |-> (table.entries[id].ref_count + 1) % RefModulus]
                /\ \A i \in Occupied(table) \ {id} : r.table.entries[i] = table.entries[i]
          BY <1>0, GetHandleOK
        <4> HIDE DEF r
        <4> QED
          BY <3>1, <4>1
      <3> HIDE DEF r
      <3> QED
        BY <2>1, <3>2
    <2>3. CASE ~(id \in Occupied(table) /\ SameType(table.entries[id].object, expected))
      BY <2>1, <2>3 DEF GetHandle
    <2> QED
      BY <2>2, <2>3
  <1>3. ASSUME NEW id, table' = ReleaseHandle(table, id).table
        PROVE  Kept(table')
    <2> DEFINE r == ReleaseHandle(table, id)
               n == table.entries[id].ref_count
    <2>1. /\ r.code \in {"SUCCESS", "INVALID_HANDLE"}
          /\ r.code = "INVALID_HANDLE" => r.table = table
          /\ r.code = "SUCCESS" =>
               /\ \A i \in Occupied(table) \ {id} : r.table.entries[i] = table.entries[i]
               /\ n = 1 => Occupied(r.table) = Occupied(table) \ {id}
               /\ n # 1 => r.table.entries[id] =
                             [object |-> table.entries[id].object, ref_count |-> n - 1]
      BY <1>0, ReleaseHandleOK
    <2> HIDE DEF r, n
    <2>2. table' = r.table
      BY <1>3 DEF r
    <2> QED
      BY <2>1, <2>2
  <1>4. ASSUME NEW c \in Callers, Release(c) \/ ReleaseAgain(c) PROVE Kept(table')
    BY <1>3, <1>4 DEF Release, ReleaseAgain, Return
  <1> QED
    BY <1>1, <1>2, <1>4 DEF Next

(* While a caller keeps a reference, its id goes on naming the object it    *)
(* was given.                                                               *)
THEOREM ObjectPinned ==
  ASSUME Disciplined
  PROVE  Spec => HeldObjectPinned
  <1> DEFINE Pinned == \A c \in Callers :
               held[c] # NoId /\ held'[c] = held[c]
               => /\ held[c] \in Occupied(table) \cap Occupied(table')
                  /\ table'.entries[held[c]].object = table.entries[held[c]].object
  <1>1. Spec => []IInv
    BY IInvInit, IInvStep, PTL DEF Spec
  <1>2. IInv /\ IInv' /\ [Next]_vars => [Pinned]_vars
    <2> SUFFICES ASSUME IInv, IInv', Next, NEW c \in Callers,
                        held[c] # NoId, held'[c] = held[c]
                 PROVE  /\ held[c] \in Occupied(table) \cap Occupied(table')
                        /\ table'.entries[held[c]].object = table.entries[held[c]].object
      OBVIOUS
    <2>1. held[c] \in Ids /\ held[c] \in Occupied(table)
      BY HeldIsOccupied
    <2>2. c \in HoldersOf(held', held[c]) /\ Counted(table', held')
      BY DEF HoldersOf, IInv
    <2>3. held[c] \in Occupied(table')
      BY <2>1, <2>2 DEF Counted
    <2> QED
      BY <2>1, <2>3, ObjectsKept DEF IInv
  <1> QED
    BY <1>1, <1>2, PTL DEF Spec, HeldObjectPinned

-----------------------------------------------------------------------------
(* Callers that may release a reference a second time. *)

(* NoLeakedSlot, over a table and an assignment of ids to callers.          *)
Covered(t, h) ==
  \A id \in Occupied(t) :
    t.entries[id].ref_count \in 1 .. Cardinality(HoldersOf(h, id))

LEMMA CoveredCreate ==
  ASSUME StructInv, Covered(table, held),
         NEW c \in Callers, NEW object \in KernelObject, Create(c, object)
  PROVE  Covered(table', held')
  <1> DEFINE r == CreateHandle(table, object)
             s == AllocatedSlot(table)
  <1>1. /\ Bookkeeping(table) /\ GrownOnDemand(table)
        /\ held \in [Callers -> Ids \cup {NoId}]
        /\ Occupied(table) \subseteq Ids
    BY StructInvFacts DEF Bookkeeping, TableTypeOK
  <1>2. /\ table' = r.table /\ held' = [held EXCEPT ![c] = r.id] /\ held[c] = NoId
    BY DEF Create, Return
  <1>3. CASE CanAllocate(table)
    <2>1. r.id = s
      BY <1>3 DEF CreateHandle
    <2>2. /\ s \in Ids \ Occupied(table)
          /\ Occupied(r.table) = Occupied(table) \cup {s}
          /\ r.table.entries[s] = [object |-> object, ref_count |-> 1]
          /\ \A id \in Occupied(table) : r.table.entries[id] = table.entries[id]
      BY <1>1, <1>3, CallersCounted, CreateHandleOK
    <2> HIDE DEF r, s
    <2>3. /\ Cardinality(HoldersOf(held', s)) = Cardinality(HoldersOf(held, s)) + 1
          /\ \A i \in Ids \ {s} : HoldersOf(held', i) = HoldersOf(held, i)
      BY <1>1, <1>2, <2>1, <2>2, HolderJoins
    <2>4. Cardinality(HoldersOf(held, s)) \in Nat
      BY HoldersBounded
    <2>5. table'.entries[s].ref_count \in 1 .. Cardinality(HoldersOf(held', s))
      BY <1>2, <2>2, <2>3, <2>4
    <2>6. \A id \in Occupied(table) :
            table'.entries[id].ref_count \in 1 .. Cardinality(HoldersOf(held', id))
      BY <1>1, <1>2, <2>2, <2>3 DEF Covered
    <2> QED
      BY <1>2, <2>2, <2>5, <2>6 DEF Covered
  <1>4. CASE ~CanAllocate(table)
    <2>1. r.id = NoId /\ r.table = table
      BY <1>4 DEF CreateHandle
    <2>2. held' = held /\ table' = table
      BY <1>1, <1>2, <2>1
    <2> QED
      BY <2>2
  <1> QED
    BY <1>3, <1>4

(* The count never wraps: there are fewer callers than it has values.       *)
LEMMA CoveredGet ==
  ASSUME StructInv, Covered(table, held),
         NEW c \in Callers, NEW id, NEW expected, Get(c, id, expected)
  PROVE  Covered(table', held')
  <1> DEFINE r == GetHandle(table, id, expected)
             n == table.entries[id].ref_count
  <1>1. /\ Bookkeeping(table) /\ GrownOnDemand(table)
        /\ held \in [Callers -> Ids \cup {NoId}]
        /\ Occupied(table) \subseteq Ids
    BY StructInvFacts DEF Bookkeeping, TableTypeOK
  <1>2. /\ table' = r.table /\ held' = [held EXCEPT ![c] = r.id] /\ held[c] = NoId
    BY DEF Get, Return
  <1>3. CASE r.id # NoId
    <2>1. /\ r.id = id /\ id \in Occupied(table)
          /\ Occupied(r.table) = Occupied(table)
          /\ r.table.entries[id] = [object |-> table.entries[id].object,
                                    ref_count |-> (n + 1) % RefModulus]
          /\ \A i \in Occupied(table) \ {id} : r.table.entries[i] = table.entries[i]
      BY <1>1, <1>3, GetHandleOK
    <2> HIDE DEF r
    <2>2. /\ Cardinality(HoldersOf(held', id)) = Cardinality(HoldersOf(held, id)) + 1
          /\ \A i \in Ids \ {id} : HoldersOf(held', i) = HoldersOf(held, i)
      BY <1>1, <1>2, <2>1, HolderJoins
    <2>3. n \in 1 .. Cardinality(HoldersOf(held, id))
      BY <2>1 DEF Covered
    <2>4. (n + 1) % RefModulus = n + 1 /\ n + 1 \in 1 .. Cardinality(HoldersOf(held', id))
      <3>1. /\ Cardinality(HoldersOf(held, id)) \in Nat
            /\ Cardinality(HoldersOf(held', id)) < RefModulus
            /\ RefModulus \in Nat
        BY HoldersBounded, RefAssumption
      <3>2. n \in Nat /\ n + 1 < RefModulus
        BY <2>2, <2>3, <3>1
      <3> HIDE DEF n
      <3> QED
        BY <2>2, <2>3, <3>1, <3>2
    <2> HIDE DEF n
    <2>5. table'.entries[id].ref_count \in 1 .. Cardinality(HoldersOf(held', id))
      BY <1>2, <2>1, <2>4
    <2>6. \A i \in Occupied(table) \ {id} :
            table'.entries[i].ref_count \in 1 .. Cardinality(HoldersOf(held', i))
      BY <1>1, <1>2, <2>1, <2>2 DEF Covered
    <2> QED
      BY <1>2, <2>1, <2>5, <2>6 DEF Covered
  <1>4. CASE r.id = NoId
    <2>1. r.table = table
      <3>1. id \in Occupied(table) => id # NoId
        BY <1>1, CapacityAssumption DEF NoId, Ids
      <3> QED
        BY <1>4, <3>1 DEF GetHandle
    <2>2. held' = held /\ table' = table
      BY <1>1, <1>2, <1>4, <2>1
    <2> QED
      BY <2>2
  <1> QED
    BY <1>3, <1>4

(* A release takes one from the count; the holders of the id lose at most   *)
(* one, and those of other ids none.                                        *)
LEMMA CoveredRelease ==
  ASSUME StructInv, Covered(table, held), NEW id,
         table' = ReleaseHandle(table, id).table,
         \A i \in Ids :
           Cardinality(HoldersOf(held', i))
             >= Cardinality(HoldersOf(held, i)) - (IF i = id THEN 1 ELSE 0)
  PROVE  Covered(table', held')
  <1> DEFINE r == ReleaseHandle(table, id)
             n == table.entries[id].ref_count
  <1>1. /\ Bookkeeping(table) /\ GrownOnDemand(table)
        /\ Occupied(table) \subseteq Ids
    BY StructInvFacts DEF Bookkeeping, TableTypeOK
  <1>2. \A i : Cardinality(HoldersOf(held', i)) \in Nat /\ Cardinality(HoldersOf(held, i)) \in Nat
    BY HoldersBounded
  <1>3. CASE id \notin Occupied(table)
    <2>1. table' = table
      BY <1>3 DEF ReleaseHandle
    <2> QED
      BY <1>1, <1>2, <1>3, <2>1 DEF Covered
  <1>4. CASE id \in Occupied(table)
    <2>1. n \in 1 .. Cardinality(HoldersOf(held, id))
      BY <1>4 DEF Covered
    <2>2. r.code = "SUCCESS"
      BY <1>2, <1>4, <2>1 DEF ReleaseHandle
    <2>3. /\ \A i \in Occupied(table) \ {id} : r.table.entries[i] = table.entries[i]
          /\ n = 1 => Occupied(r.table) = Occupied(table) \ {id}
          /\ n # 1 => /\ Occupied(r.table) = Occupied(table)
                      /\ r.table.entries[id] =
                           [object |-> table.entries[id].object, ref_count |-> n - 1]
      BY <1>1, <2>2, ReleaseHandleOK
    <2>4. table' = r.table
      OBVIOUS
    <2> HIDE DEF r, n
    <2> SUFFICES ASSUME NEW i \in Occupied(table')
                 PROVE  table'.entries[i].ref_count \in 1 .. Cardinality(HoldersOf(held', i))
      BY DEF Covered
    <2>5. CASE i = id
      <3>1. n # 1 /\ table'.entries[i].ref_count = n - 1
        BY <2>3, <2>4, <2>5
      <3>2. Cardinality(HoldersOf(held', i)) >= Cardinality(HoldersOf(held, i)) - 1
        BY <1>1, <1>4, <2>5
      <3> QED
        BY <1>2, <2>1, <2>5, <3>1, <3>2
    <2>6. CASE i # id
      <3>1. i \in Occupied(table) /\ table'.entries[i] = table.entries[i]
        BY <2>3, <2>4, <2>6
      <3>2. Cardinality(HoldersOf(held', i)) >= Cardinality(HoldersOf(held, i)) - 0
        BY <1>1, <2>6, <3>1
      <3>3. table.entries[i].ref_count \in 1 .. Cardinality(HoldersOf(held, i))
        BY <3>1 DEF Covered
      <3> QED
        BY <1>2, <3>1, <3>2, <3>3
    <2> QED
      BY <2>5, <2>6
  <1> QED
    BY <1>3, <1>4

LEMMA CoveredStep ==
  StructInv /\ Covered(table, held) /\ [Next]_vars => Covered(table', held')
  <1> SUFFICES ASSUME StructInv, Covered(table, held), [Next]_vars
               PROVE  Covered(table', held')
    OBVIOUS
  <1>0. held \in [Callers -> Ids \cup {NoId}]
    BY StructInvFacts
  <1>1. ASSUME NEW c \in Callers, Release(c) PROVE Covered(table', held')
    <2>1. /\ table' = ReleaseHandle(table, held[c]).table
          /\ held' = [held EXCEPT ![c] = NoId] /\ held[c] \in Ids
      BY <1>0, <1>1 DEF Release, Return
    <2>2. \A i : Cardinality(HoldersOf(held, i)) \in Nat
      BY HoldersBounded
    <2>3. /\ HoldersOf(held', held[c]) = HoldersOf(held, held[c]) \ {c}
          /\ Cardinality(HoldersOf(held', held[c])) = Cardinality(HoldersOf(held, held[c])) - 1
          /\ \A i \in Ids \ {held[c]} : HoldersOf(held', i) = HoldersOf(held, i)
      BY <1>0, <2>1, HolderLeaves
    <2>4. ASSUME NEW i \in Ids
          PROVE  Cardinality(HoldersOf(held', i))
                   >= Cardinality(HoldersOf(held, i)) - (IF i = held[c] THEN 1 ELSE 0)
      <3>1. CASE i = held[c]
        BY <2>2, <2>3, <3>1
      <3>2. CASE i # held[c]
        BY <2>2, <2>3, <3>2
      <3> QED
        BY <3>1, <3>2
    <2> QED
      BY <2>1, <2>4, CoveredRelease
  <1>2. ASSUME NEW c \in Callers, ReleaseAgain(c) PROVE Covered(table', held')
    <2>1. table' = ReleaseHandle(table, stale[c]).table /\ held' = held
      BY <1>0, <1>2 DEF ReleaseAgain, Return
    <2>2. \A i : Cardinality(HoldersOf(held, i)) \in Nat
      BY HoldersBounded
    <2> QED
      BY <2>1, <2>2, CoveredRelease
  <1>3. CASE UNCHANGED vars
    BY <1>3 DEF vars
  <1> QED
    BY <1>1, <1>2, <1>3, CoveredCreate, CoveredGet DEF Next

(* With any callers, late second releases included: an occupied slot always *)
(* has a count, and never a larger one than it has holders.                 *)
THEOREM NothingLeaks == Spec => []NoLeakedSlot
  <1>1. Init => StructInv /\ Covered(table, held)
    BY StructInvInit DEF Init, Covered, NewTable, Occupied
  <1>2. StructInv /\ Covered(table, held) /\ [Next]_vars
          => StructInv' /\ Covered(table, held)'
    BY StructInvStep, CoveredStep DEF Covered, HoldersOf
  <1>3. Covered(table, held) => NoLeakedSlot
    BY DEF Covered, NoLeakedSlot, Holders, HoldersOf
  <1> QED
    BY <1>1, <1>2, <1>3, PTL DEF Spec

-----------------------------------------------------------------------------
(* The promise of HandleRegistry. *)

ObjectMap(t) == [id \in Occupied(t) |-> t.entries[id].object]

LEMMA RefineCreate ==
  ASSUME IInv, NEW c \in Callers, NEW object \in KernelObject, Create(c, object)
  PROVE  Registry!Create(c, object) \/ Registry!CreateRefused(c)
  <1> DEFINE r == CreateHandle(table, object)
             s == AllocatedSlot(table)
  <1>1. /\ Bookkeeping(table) /\ GrownOnDemand(table)
        /\ held \in [Callers -> Ids \cup {NoId}]
    BY StructInvFacts DEF IInv
  <1>2. /\ table' = r.table /\ code' = r.code
        /\ held' = [held EXCEPT ![c] = r.id] /\ held[c] = NoId
    BY DEF Create, Return
  <1>3. CASE CanAllocate(table)
    <2>1. r.id = s /\ r.code = "SUCCESS"
      BY <1>3 DEF CreateHandle
    <2>2. /\ s \in Ids \ Occupied(table)
          /\ Occupied(r.table) = Occupied(table) \cup {s}
          /\ r.table.entries[s] = [object |-> object, ref_count |-> 1]
          /\ \A id \in Occupied(table) : r.table.entries[id] = table.entries[id]
      <3>1. RefModulus > 1
        BY CallersCounted
      <3> QED
        BY <1>1, <1>3, <3>1, CreateHandleOK
    <2> HIDE DEF r, s
    <2>3. ObjectMap(table)' = [i \in Occupied(table) \cup {s} |->
                                 IF i = s THEN object ELSE ObjectMap(table)[i]]
      BY <1>2, <2>2 DEF ObjectMap
    <2>4. DOMAIN ObjectMap(table) = Occupied(table)
      BY DEF ObjectMap
    <2> QED
      BY <1>2, <2>1, <2>2, <2>3, <2>4
      DEF Registry!Create, Registry!InUse, Registry!Returns, ObjectMap
  <1>4. CASE ~CanAllocate(table)
    <2>1. r.id = NoId /\ r.table = table /\ r.code = "OUT_OF_HANDLES"
      BY <1>4 DEF CreateHandle
    <2>2. Occupied(table) = Ids
      BY <1>4, FullIffRefused DEF IInv, FailsOnlyWhenFull
    <2> HIDE DEF r
    <2>3. ObjectMap(table)' = ObjectMap(table)
      BY <1>2, <2>1 DEF ObjectMap
    <2> QED
      BY <1>2, <2>1, <2>2, <2>3
      DEF Registry!CreateRefused, Registry!InUse, Registry!Returns, ObjectMap
  <1> QED
    BY <1>3, <1>4

LEMMA RefineGet ==
  ASSUME IInv, NEW c \in Callers, NEW id, NEW expected \in Types,
         Get(c, id, expected)
  PROVE  (id \in Ids /\ Registry!Get(c, id, expected)) \/ Registry!GetRefused(c)
  <1> DEFINE r == GetHandle(table, id, expected)
  <1>1. /\ Bookkeeping(table) /\ GrownOnDemand(table)
        /\ Occupied(table) \subseteq Ids
    BY StructInvFacts DEF IInv, Bookkeeping, TableTypeOK
  <1>2. /\ table' = r.table /\ code' = r.code
        /\ held' = [held EXCEPT ![c] = r.id] /\ held[c] = NoId
    BY DEF Get, Return
  <1>3. CASE id \in Occupied(table) /\ SameType(table.entries[id].object, expected)
    <2>1. r.id = id /\ r.code = "SUCCESS" /\ id # NoId
      BY <1>1, <1>3, CapacityAssumption DEF GetHandle, NoId, Ids
    <2>2. /\ Occupied(r.table) = Occupied(table)
          /\ r.table.entries[id] =
               [object |-> table.entries[id].object,
                ref_count |-> (table.entries[id].ref_count + 1) % RefModulus]
          /\ \A i \in Occupied(table) \ {id} : r.table.entries[i] = table.entries[i]
      BY <1>1, <2>1, GetHandleOK
    <2> HIDE DEF r
    <2>3. ObjectMap(table)' = ObjectMap(table)
      BY <1>2, <2>2 DEF ObjectMap
    <2> QED
      BY <1>1, <1>2, <1>3, <2>1, <2>3
      DEF Registry!Get, Registry!InUse, Registry!Returns, ObjectMap, SameType
  <1>4. CASE ~(id \in Occupied(table) /\ SameType(table.entries[id].object, expected))
    <2>1. r.id = NoId /\ r.table = table /\ r.code = "INVALID_HANDLE"
      BY <1>4 DEF GetHandle
    <2> HIDE DEF r
    <2>2. ObjectMap(table)' = ObjectMap(table)
      BY <1>2, <2>1 DEF ObjectMap
    <2> QED
      BY <1>2, <2>1, <2>2 DEF Registry!GetRefused, Registry!Returns, ObjectMap
  <1> QED
    BY <1>3, <1>4

LEMMA RefineRelease ==
  ASSUME IInv, NEW c \in Callers, Release(c)
  PROVE  Registry!Release(c)
  <1> DEFINE id == held[c]
             r == ReleaseHandle(table, id)
             n == table.entries[id].ref_count
             StillHeld(i) == \E d \in Callers \ {c} : held[d] = i
  <1>1. /\ Bookkeeping(table) /\ GrownOnDemand(table)
        /\ held \in [Callers -> Ids \cup {NoId}]
    BY StructInvFacts DEF IInv
  <1>2. /\ table' = r.table /\ held' = [held EXCEPT ![c] = NoId]
        /\ code' = r.code /\ id # NoId
    BY DEF Release, Return
  <1>3. /\ id \in Ids \cap Occupied(table) /\ r.code = "SUCCESS"
        /\ n = Cardinality(HoldersOf(held, id)) /\ c \in HoldersOf(held, id)
    BY <1>2, HeldIsOccupied
  <1>4. /\ \A i \in Occupied(table) \ {id} : r.table.entries[i] = table.entries[i]
        /\ n = 1 => Occupied(r.table) = Occupied(table) \ {id}
        /\ n # 1 => /\ Occupied(r.table) = Occupied(table)
                    /\ r.table.entries[id] =
                         [object |-> table.entries[id].object, ref_count |-> n - 1]
    BY <1>1, <1>3, ReleaseHandleOK
  <1>5. n = 1 <=> ~StillHeld(id)
    <2>1. HoldersOf(held, id) = {c} <=> ~StillHeld(id)
      BY <1>3 DEF HoldersOf
    <2>2. IsFiniteSet(HoldersOf(held, id))
      BY HoldersBounded
    <2>3. Cardinality(HoldersOf(held, id)) = 1 <=> \E x : HoldersOf(held, id) = {x}
      BY <2>2, FS_Singleton
    <2> QED
      BY <1>3, <2>1, <2>3
  <1>6. Occupied(r.table) = {i \in Occupied(table) : i # id \/ StillHeld(i)}
    <2> HIDE DEF id, r, n, StillHeld
    <2> QED
      BY <1>3, <1>4, <1>5
  <1>7. ObjectMap(table)' = [i \in {i \in Occupied(table) : i # id \/ StillHeld(i)}
                               |-> ObjectMap(table)[i]]
    <2>1. \A i \in Occupied(r.table) :
            r.table.entries[i].object = table.entries[i].object
      <3> HIDE DEF id, r, n, StillHeld
      <3> QED
        BY <1>3, <1>4
    <2>2. Occupied(r.table) \subseteq Occupied(table)
      BY <1>6
    <2> HIDE DEF id, r, n, StillHeld
    <2> QED
      BY <1>2, <1>6, <2>1, <2>2 DEF ObjectMap
  <1>8. DOMAIN ObjectMap(table) = Occupied(table)
    BY DEF ObjectMap
  <1> QED
    BY <1>2, <1>3, <1>7, <1>8
    DEF Registry!Release, Registry!InUse, Registry!Returns, ObjectMap

(* Every step of the table with disciplined callers is a step of the        *)
(* registry: ids are opaque names, an object lives exactly as long as its   *)
(* holders, creation is refused only when all ids are in use, and a release *)
(* never fails.                                                             *)
THEOREM TableImplementsRegistry ==
  ASSUME Disciplined
  PROVE  Spec => ImplementsRegistry
  <1>1. Spec => []IInv
    BY IInvInit, IInvStep, PTL DEF Spec
  <1>2. Init => Registry!Init
    <2> SUFFICES ASSUME Init PROVE Registry!Init
      OBVIOUS
    <2>1. Occupied(table) = {}
      BY DEF Init, NewTable, Occupied
    <2>2. [id \in Occupied(table) |-> table.entries[id].object] = [id \in {} |-> 0]
      BY <2>1
    <2> QED
      BY <2>2 DEF Init, Registry!Init
  <1>3. IInv /\ [Next]_vars => [Registry!Next]_(Registry!vars)
    <2> SUFFICES ASSUME IInv, [Next]_vars PROVE [Registry!Next]_(Registry!vars)
      OBVIOUS
    <2>1. ASSUME NEW c \in Callers, NEW object \in KernelObject, Create(c, object)
          PROVE  Registry!Next
      BY <2>1, RefineCreate DEF Registry!Next
    <2>2. ASSUME NEW c \in Callers, NEW id \in 0 .. MaxCap,
                 NEW expected \in Types, Get(c, id, expected)
          PROVE  Registry!Next
      BY <2>2, RefineGet DEF Registry!Next
    <2>3. ASSUME NEW c \in Callers, Release(c) PROVE Registry!Next
      BY <2>3, RefineRelease DEF Registry!Next
    <2>4. ASSUME NEW c \in Callers, ReleaseAgain(c) PROVE FALSE
      BY <2>4 DEF ReleaseAgain
    <2>5. CASE UNCHANGED vars
      BY <2>5 DEF vars, Registry!vars
    <2> QED
      BY <2>1, <2>2, <2>3, <2>4, <2>5 DEF Next
  <1> QED
    BY <1>1, <1>2, <1>3, PTL DEF Spec, ImplementsRegistry, Registry!Spec
================================================================================
