-------------------------------- MODULE SmProofs --------------------------------
(***************************************************************************)
(* Proofs about SmService, for every capacity and every set of messages,   *)
(* names and host replies that the assumptions allow.                      *)
(***************************************************************************)
EXTENDS SmService, SequenceTheorems, TLAPS

(* Sessions are never closed, and each lookup gives back what it took: the  *)
(* table is a stack of entries counted once.                                *)
Stacked(t) ==
  /\ TableTypeOK(t)
  /\ t.free_list = <<>>
  /\ t.next_slot <= t.capacity
  /\ Occupied(t) = 0 .. (t.next_slot - 1)
  /\ \A id \in Occupied(t) : t.entries[id].ref_count = 1

-----------------------------------------------------------------------------
(* The table, as the sm handlers use it. *)

LEMMA NewTableStacked == Stacked(NewTable) /\ NewTable.next_slot = 0
  <1>1. /\ NewTable.entries = [id \in {} |-> 0] /\ NewTable.free_list = <<>>
        /\ NewTable.next_slot = 0 /\ NewTable.capacity = InitialCap
    BY DEF NewTable
  <1>2. Occupied(NewTable) = {}
    BY <1>1 DEF Occupied
  <1>3. [id \in {} |-> 0] \in [{} -> HandleEntry] /\ <<>> \in Seq(Ids)
    OBVIOUS
  <1>4. TableTypeOK(NewTable)
    BY <1>2, <1>3, CapacityAssumption DEF TableTypeOK, NewTable
  <1> QED
    BY <1>1, <1>2, <1>4, CapacityAssumption DEF Stacked

(* A session is pushed on top, unless the table is full.                    *)
LEMMA CreatePushes ==
  ASSUME NEW t, Stacked(t), NEW name \in Payloads
  PROVE  LET r == CreateHandle(t, Session(name))
         IN  IF t.next_slot < MaxCap
             THEN /\ r.code = "SUCCESS"
                  /\ r.id = t.next_slot
                  /\ Stacked(r.table)
                  /\ r.table.next_slot = t.next_slot + 1
                  /\ \A i \in Occupied(t) : r.table.entries[i] = t.entries[i]
                  /\ r.table.entries[t.next_slot].object = Session(name)
             ELSE r.code = "OUT_OF_HANDLES" /\ r.table = t
  <1> DEFINE e == [object |-> Session(name), ref_count |-> 1]
             n == t.next_slot
             cap == IF n < t.capacity THEN t.capacity ELSE GrownCapacity(t)
             grown == [i \in Occupied(t) \cup {n} |-> IF i = n THEN e ELSE t.entries[i]]
             u == [entries |-> grown, free_list |-> <<>>,
                   next_slot |-> n + 1, capacity |-> cap]
  <1>1. /\ t \in [entries : [Occupied(t) -> HandleEntry], free_list : Seq(Ids),
                  next_slot : 0 .. MaxCap, capacity : InitialCap .. MaxCap]
        /\ t.free_list = <<>> /\ n \in Nat /\ n <= t.capacity
        /\ t.capacity \in InitialCap .. MaxCap
        /\ Occupied(t) = 0 .. (n - 1)
        /\ \A id \in Occupied(t) : t.entries[id].ref_count = 1
    BY CapacityAssumption DEF Stacked, TableTypeOK
  <1>2. CanAllocate(t) <=> n < MaxCap
    BY <1>1, CapacityAssumption DEF CanAllocate, CanGrow, GrownCapacity
  <1>3. AllocatedSlot(t) = n
    BY <1>1 DEF AllocatedSlot
  <1>4. CASE n < MaxCap
    <2>1. cap \in InitialCap .. MaxCap /\ n < cap
      BY <1>1, <1>4, CapacityAssumption DEF GrownCapacity
    <2>2. AllocateSlot(t) = [entries |-> t.entries, free_list |-> <<>>,
                             next_slot |-> n + 1, capacity |-> cap]
      BY <1>1 DEF AllocateSlot
    <2>3. WithEntry(AllocateSlot(t), n, e) = u
      BY <2>2 DEF WithEntry, Occupied
    <2>4. e \in HandleEntry
      BY SmAssumption DEF HandleEntry, KernelObject, Session
    <2>5. /\ grown \in [0 .. n -> HandleEntry]
          /\ \A i \in 0 .. n : grown[i].ref_count = 1
          /\ \A i \in Occupied(t) : grown[i] = t.entries[i]
          /\ grown[n] = e
      <3>1. Occupied(t) \cup {n} = 0 .. n
        BY <1>1
      <3>2. \A i \in Occupied(t) : i # n /\ t.entries[i] \in HandleEntry
        BY <1>1
      <3> HIDE DEF n, e
      <3>3. \A i \in 0 .. n : grown[i] = IF i = n THEN e ELSE t.entries[i]
        BY <3>1
      <3>4. e.ref_count = 1
        BY DEF e
      <3> QED
        BY <1>1, <2>4, <3>1, <3>2, <3>3, <3>4
    <2>6. Occupied(u) = 0 .. n
      BY <2>5 DEF Occupied
    <2>7. TableTypeOK(u)
      <3>1. 0 .. n \subseteq Ids
        BY <1>1, <1>4, CapacityAssumption DEF Ids
      <3>2. n + 1 \in 0 .. MaxCap
        BY <1>1, <1>4, CapacityAssumption
      <3>3. <<>> \in Seq(Ids)
        OBVIOUS
      <3> HIDE DEF grown, cap, n
      <3> QED
        BY <2>1, <2>5, <2>6, <3>1, <3>2, <3>3 DEF TableTypeOK
    <2>8. Stacked(u)
      <3>1. n + 1 <= cap /\ 0 .. n = 0 .. ((n + 1) - 1)
        BY <1>1, <2>1, CapacityAssumption
      <3> HIDE DEF grown, cap, n
      <3> QED
        BY <2>5, <2>6, <2>7, <3>1 DEF Stacked
    <2>9. CreateHandle(t, Session(name)) = [code |-> "SUCCESS", id |-> n, table |-> u]
      BY <1>2, <1>3, <1>4, <2>3 DEF CreateHandle
    <2>10. /\ u.next_slot = n + 1 /\ u.entries = grown
           /\ grown[n].object = Session(name)
      BY <2>5
    <2>11. \A i \in Occupied(t) : u.entries[i] = t.entries[i]
      BY <2>5, <2>10
    <2> HIDE DEF u, grown, cap, e
    <2> DEFINE r == CreateHandle(t, Session(name))
    <2>12. r.code = "SUCCESS" /\ r.id = n /\ r.table = u
      BY <2>9
    <2> HIDE DEF r
    <2>13. Stacked(r.table)
      BY <2>8, <2>12
    <2>14. /\ r.table.next_slot = n + 1
           /\ \A i \in Occupied(t) : r.table.entries[i] = t.entries[i]
           /\ r.table.entries[n].object = Session(name)
      BY <2>10, <2>11, <2>12
    <2> QED
      BY <1>4, <2>12, <2>13, <2>14 DEF r
  <1>5. CASE ~(n < MaxCap)
    BY <1>2, <1>5 DEF CreateHandle
  <1> QED
    BY <1>4, <1>5

(* A lookup succeeds for the ids below next_slot, and the release that goes *)
(* with it leaves the table as it was.                                      *)
LEMMA LookupKeeps ==
  ASSUME NEW t, Stacked(t), NEW id
  PROVE  LET r == GetHandle(t, id, "Session")
         IN  IF id \in 0 .. (t.next_slot - 1)
             THEN /\ r.code = "SUCCESS" /\ r.id = id
                  /\ NameOf(r.table, id) = NameOf(t, id)
                  /\ ReleaseHandle(r.table, id).table = t
             ELSE r.code = "INVALID_HANDLE" /\ r.table = t
  <1>1. /\ t \in [entries : [Occupied(t) -> HandleEntry], free_list : Seq(Ids),
                  next_slot : 0 .. MaxCap, capacity : InitialCap .. MaxCap]
        /\ Occupied(t) = 0 .. (t.next_slot - 1)
        /\ \A i \in Occupied(t) : t.entries[i].ref_count = 1
    BY DEF Stacked, TableTypeOK
  <1>2. CASE id \notin Occupied(t)
    BY <1>1, <1>2 DEF GetHandle
  <1>3. CASE id \in Occupied(t)
    <2> DEFINE f == t.entries
               e == f[id]
               twice == [object |-> e.object, ref_count |-> 2]
               g == [f EXCEPT ![id] = twice]
               u == [t EXCEPT !.entries = g]
    <2>1. e \in HandleEntry /\ e.ref_count = 1
      BY <1>1, <1>3
    <2>2. e = [object |-> e.object, ref_count |-> 1] /\ e.object.type = "Session"
      BY <2>1, SmAssumption DEF HandleEntry, KernelObject
    <2>3. (1 + 1) % RefModulus = 2
      <3>1. RefModulus \in Nat /\ 2 < RefModulus
        BY SmAssumption
      <3> QED
        BY <3>1
    <2>4. [e EXCEPT !.ref_count = (@ + 1) % RefModulus] = twice
      BY <2>2, <2>3
    <2>5. [t EXCEPT !.entries[id].ref_count = (@ + 1) % RefModulus] = u
      <3>1. [t EXCEPT !.entries[id].ref_count = (@ + 1) % RefModulus]
              = [t EXCEPT !.entries
                   = [f EXCEPT ![id] = [e EXCEPT !.ref_count = (@ + 1) % RefModulus]]]
        BY <1>1, <1>3
      <3> HIDE DEF e, twice
      <3> QED
        BY <2>4, <3>1
    <2>6. GetHandle(t, id, "Session") = [code |-> "SUCCESS", id |-> id, table |-> u]
      BY <1>3, <2>2, <2>5 DEF GetHandle, SameType
    <2>7. g[id] = twice /\ DOMAIN g = DOMAIN f
      BY <1>1, <1>3 DEF Occupied
    <2>8. u.entries = g
      BY <1>1
    <2>9. NameOf(u, id) = NameOf(t, id)
      BY <2>7, <2>8 DEF NameOf
    <2>10. [u EXCEPT !.entries[id].ref_count = @ - 1] = t
      <3>1. [twice EXCEPT !.ref_count = @ - 1] = e
        BY <2>2
      <3>2. [u EXCEPT !.entries[id].ref_count = @ - 1]
              = [u EXCEPT !.entries
                   = [g EXCEPT ![id] = [twice EXCEPT !.ref_count = @ - 1]]]
        <4> HIDE DEF twice, g
        <4> QED
          BY <1>1, <2>7, <2>8
      <3>3. [g EXCEPT ![id] = e] = f
        <4>1. f \in [Occupied(t) -> HandleEntry]
          BY <1>1
        <4> HIDE DEF f, twice
        <4> QED
          BY <1>3, <4>1
      <3>4. [u EXCEPT !.entries = f] = t
        <4> HIDE DEF g
        <4> QED
          BY <1>1
      <3> HIDE DEF e, f, g, u, twice
      <3> QED
        BY <3>1, <3>2, <3>3, <3>4
    <2>11. ReleaseHandle(u, id).table = t
      <3>1. id \in Occupied(u) /\ u.entries[id].ref_count = 2
        BY <1>3, <2>7, <2>8 DEF Occupied
      <3> HIDE DEF u
      <3> QED
        BY <2>10, <3>1 DEF ReleaseHandle, DropRef
    <2> HIDE DEF u
    <2> QED
      BY <1>1, <1>3, <2>6, <2>9, <2>11
  <1> QED
    BY <1>2, <1>3

-----------------------------------------------------------------------------
(* The handlers. *)

(* u is t with one more session.                                            *)
Pushed(t, u, name) ==
  /\ Stacked(u)
  /\ u.next_slot = t.next_slot + 1
  /\ \A i \in Occupied(t) : u.entries[i] = t.entries[i]
  /\ u.entries[t.next_slot].object = Session(name)

(* A payload of four bytes or more is the one the guest sent; parsing bounds *)
(* its length by the raw data a message can have.                           *)
LEMMA PayloadFacts ==
  ASSUME NEW m \in Messages
  PROVE  LET p == PayloadOf(m)
         IN  /\ p.bytes \in Nat
             /\ p.bytes >= 4 => p.first \in Asked /\ p.first \in Nat
             /\ p.bytes >= 4 /\ 4 + p.first <= p.bytes
                => p.name \in Payloads /\ p.name.bytes = p.first
             /\ Parses(m) => p.bytes <= 2040
  <1>1. /\ m.raw \in Nat /\ m.payload.bytes \in Nat /\ m.payload.first \in Nat
        /\ m.raw > 0 => m.payload.bytes = 4 * (m.raw - 1)
        /\ 4 + m.payload.first <= m.payload.bytes
           => m.payload.name \in Payloads /\ m.payload.name.bytes = m.payload.first
    BY MessageAssumption
  <1>2. m.payload.first \in Asked
    BY DEF Asked
  <1>3. CASE m.raw > 0
    <2>1. PayloadOf(m) = m.payload
      BY <1>3 DEF PayloadOf
    <2>2. Parses(m) => m.raw <= 511
      BY DEF Parses, MaxRawWords
    <2> QED
      BY <1>1, <1>2, <1>3, <2>1, <2>2
  <1>4. CASE ~(m.raw > 0)
    BY <1>4 DEF PayloadOf, NoPayload
  <1> QED
    BY <1>3, <1>4

LEMMA RegisterOutcome ==
  ASSUME NEW t, Stacked(t), NEW m \in Messages
  PROVE  LET p == PayloadOf(m)
             r == RegisterService(p, t)
         IN  \/ r = Answer("register", "INVALID_HANDLE", 0, Empty, 0, t)
             \/ \E name \in Payloads :
                  /\ name.bytes + 4 <= p.bytes
                  /\ t.next_slot = MaxCap
                  /\ r = Answer("register", "OUT_OF_HANDLES", 0, name, 0, t)
             \/ \E name \in Payloads :
                  /\ name.bytes + 4 <= p.bytes
                  /\ t.next_slot < MaxCap
                  /\ r = Answer("register", "SUCCESS", t.next_slot + 1, name, 4, r.table)
                  /\ Pushed(t, r.table, name)
  <1> DEFINE p == PayloadOf(m)
             r == RegisterService(p, t)
             created == CreateHandle(t, Session(p.name))
  <1>1. t.next_slot \in 0 .. MaxCap
    BY DEF Stacked, TableTypeOK
  <1>2. CASE p.bytes < 4 \/ 4 + p.first > p.bytes
    BY <1>2 DEF RegisterService
  <1>3. CASE ~(p.bytes < 4 \/ 4 + p.first > p.bytes)
    <2>1. p.name \in Payloads /\ p.name.bytes + 4 <= p.bytes
      BY <1>3, PayloadFacts
    <2>2. r = IF created.code = "SUCCESS"
              THEN Answer("register", created.code, created.id + 1, p.name, 4, created.table)
              ELSE Answer("register", created.code, 0, p.name, 0, t)
      BY <1>3 DEF RegisterService
    <2> HIDE DEF r, p
    <2>3. CASE t.next_slot < MaxCap
      <3>1. /\ created.code = "SUCCESS" /\ created.id = t.next_slot
            /\ Pushed(t, created.table, p.name)
        BY <2>1, <2>3, CreatePushes DEF Pushed
      <3> HIDE DEF created
      <3>2. r = Answer("register", "SUCCESS", t.next_slot + 1, p.name, 4, created.table)
        BY <2>2, <3>1
      <3>3. r.table = created.table
        BY <3>2 DEF Answer
      <3>4. /\ r = Answer("register", "SUCCESS", t.next_slot + 1, p.name, 4, r.table)
            /\ Pushed(t, r.table, p.name)
        BY <3>1, <3>2, <3>3
      <3> QED
        BY <2>1, <2>3, <3>4 DEF r, p
    <2>4. CASE ~(t.next_slot < MaxCap)
      <3>1. t.next_slot = MaxCap
        BY <1>1, <2>4, CapacityAssumption
      <3>2. created.code = "OUT_OF_HANDLES" /\ created.table = t
        BY <2>1, <2>4, CreatePushes
      <3> HIDE DEF created
      <3>3. r = Answer("register", "OUT_OF_HANDLES", 0, p.name, 0, t)
        BY <2>2, <3>2
      <3> QED
        BY <2>1, <3>1, <3>3 DEF r, p
    <2> QED
      BY <2>3, <2>4
  <1> QED
    BY <1>2, <1>3

LEMMA GetOutcome ==
  ASSUME NEW t, Stacked(t), NEW m \in Messages
  PROVE  LET n == PayloadOf(m).first
             r == GetServiceHandle(PayloadOf(m), t)
         IN  \/ r = Answer("get", "INVALID_HANDLE", 0, Empty, 0, t)
             \/ /\ n \in Asked /\ n \in 1 .. t.next_slot
                /\ r = Answer("get", "SUCCESS", n, NameOf(t, n - 1),
                              4 + StoredBytes(NameOf(t, n - 1)), t)
             \/ /\ n \in Asked /\ n \notin 1 .. t.next_slot
                /\ r = Answer("get", "INVALID_HANDLE", n, Empty, 0, t)
  <1> DEFINE p == PayloadOf(m)
             n == p.first
             got == GetHandle(t, n - 1, "Session")
             r == GetServiceHandle(p, t)
  <1>1. t.next_slot \in Nat
    BY CapacityAssumption DEF Stacked, TableTypeOK
  <1>2. CASE p.bytes < 4
    BY <1>2 DEF GetServiceHandle
  <1>3. CASE ~(p.bytes < 4)
    <2>1. n \in Asked /\ n \in Nat
      BY <1>3, PayloadFacts
    <2>2. r = IF got.code = "SUCCESS"
              THEN Answer("get", got.code, n, NameOf(t, got.id),
                          4 + StoredBytes(NameOf(t, got.id)),
                          ReleaseHandle(got.table, got.id).table)
              ELSE Answer("get", got.code, n, Empty, 0, t)
      BY <1>3 DEF GetServiceHandle
    <2> HIDE DEF r, p
    <2>3. n - 1 \in 0 .. (t.next_slot - 1) <=> n \in 1 .. t.next_slot
      BY <1>1, <2>1
    <2>4. CASE n \in 1 .. t.next_slot
      <3>1. /\ got.code = "SUCCESS" /\ got.id = n - 1
            /\ ReleaseHandle(got.table, n - 1).table = t
        BY <2>3, <2>4, LookupKeeps
      <3> HIDE DEF got
      <3>2. r = Answer("get", "SUCCESS", n, NameOf(t, n - 1),
                       4 + StoredBytes(NameOf(t, n - 1)), t)
        BY <2>2, <3>1
      <3> QED
        BY <2>1, <2>4, <3>2 DEF r, p
    <2>5. CASE n \notin 1 .. t.next_slot
      <3>1. got.code = "INVALID_HANDLE"
        BY <2>3, <2>5, LookupKeeps
      <3> HIDE DEF got
      <3>2. r = Answer("get", "INVALID_HANDLE", n, Empty, 0, t)
        BY <2>2, <3>1
      <3> QED
        BY <2>1, <2>5, <3>2 DEF r, p
    <2> QED
      BY <2>4, <2>5
  <1> QED
    BY <1>2, <1>3

-----------------------------------------------------------------------------
(* The inductive invariant, without and with the length of the names.       *)

SInv ==
  /\ Stacked(table)
  /\ call.op = "register" /\ call.code = "SUCCESS" => call.handle \in 1 .. MaxCap

(* The longest name that fits a response: 511 words less the result code    *)
(* and the length.                                                          *)
NamesFit(t) == \A id \in Occupied(t) : NameOf(t, id).bytes <= 2036

LEMMA NameKept ==
  ASSUME NEW t, Stacked(t), NEW u, NEW name \in Payloads, Pushed(t, u, name)
  PROVE  /\ Occupied(u) = Occupied(t) \cup {t.next_slot}
         /\ \A i \in Occupied(t) : NameOf(u, i) = NameOf(t, i)
         /\ NameOf(u, t.next_slot) = name
  <1>1. t.next_slot \in Nat
    BY CapacityAssumption DEF Stacked, TableTypeOK
  <1>2. /\ Occupied(t) = 0 .. (t.next_slot - 1)
        /\ Occupied(u) = 0 .. ((t.next_slot + 1) - 1)
    BY DEF Stacked, Pushed
  <1>3. Occupied(u) = Occupied(t) \cup {t.next_slot}
    BY <1>1, <1>2
  <1>4. NameOf(u, t.next_slot) = name
    BY DEF NameOf, Pushed, Session
  <1> QED
    BY <1>3, <1>4 DEF NameOf, Pushed

(* What a message leaves of the table and the last call.                    *)
LEMMA MessageOutcome ==
  ASSUME SInv, NEW m \in Messages, DispatchMessage(m)
  PROVE  \/ /\ UNCHANGED <<table, call>>
            /\ response' = {} \/ \E r \in HostReplies : response' = {r}
         \/ \E op \in {"register", "get"} :
              /\ call' = [op |-> op, code |-> "INVALID_HANDLE", handle |-> 0, name |-> Empty]
              /\ table' = table
              /\ response' = {[bytes |-> 0, moved |-> 0]}
         \/ \E name \in Payloads :
              /\ table.next_slot = MaxCap
              /\ call' = [op |-> "register", code |-> "OUT_OF_HANDLES", handle |-> 0, name |-> name]
              /\ table' = table
              /\ response' = {[bytes |-> 0, moved |-> 0]}
         \/ \E name \in Payloads :
              /\ name.bytes <= 2036
              /\ table.next_slot < MaxCap
              /\ call' = [op |-> "register", code |-> "SUCCESS",
                          handle |-> table.next_slot + 1, name |-> name]
              /\ Pushed(table, table', name)
              /\ response' = {[bytes |-> 4, moved |-> 0]}
         \/ \E n \in Asked :
              /\ n \in 1 .. table.next_slot
              /\ call' = [op |-> "get", code |-> "SUCCESS", handle |-> n,
                          name |-> NameOf(table, n - 1)]
              /\ table' = table
              /\ response' = {[bytes |-> 4 + StoredBytes(NameOf(table, n - 1)), moved |-> 0]}
         \/ \E n \in Asked :
              /\ n \notin 1 .. table.next_slot
              /\ call' = [op |-> "get", code |-> "INVALID_HANDLE", handle |-> n, name |-> Empty]
              /\ table' = table
              /\ response' = {[bytes |-> 0, moved |-> 0]}
  <1> DEFINE p == PayloadOf(m)
             reg == RegisterService(p, table)
             get == GetServiceHandle(p, table)
  <1>1. Stacked(table)
    BY DEF SInv
  <1>2. \/ /\ UNCHANGED <<table, call>>
           /\ response' = {} \/ \E r \in HostReplies : response' = {r}
        \/ Parses(m) /\ Respond(reg)
        \/ Respond(get)
    <2>1. Dispatch(services, m).result = "OK" => Parses(m)
      BY DEF Dispatch
    <2> HIDE DEF reg, get
    <2> QED
      BY <2>1 DEF DispatchMessage, reg, get
  <1>3. CASE /\ UNCHANGED <<table, call>>
             /\ response' = {} \/ \E r \in HostReplies : response' = {r}
    BY <1>3
  <1>4. CASE Parses(m) /\ Respond(reg)
    <2>1. /\ table' = reg.table /\ call' = reg.call
          /\ response' = {[bytes |-> reg.bytes, moved |-> 0]}
      BY <1>4 DEF Respond
    <2>2. CASE reg = Answer("register", "INVALID_HANDLE", 0, Empty, 0, table)
      <3> HIDE DEF reg
      <3> QED
        BY <2>1, <2>2 DEF Answer
    <2>3. CASE \E name \in Payloads :
                  /\ name.bytes + 4 <= p.bytes
                  /\ table.next_slot = MaxCap
                  /\ reg = Answer("register", "OUT_OF_HANDLES", 0, name, 0, table)
      <3>1. PICK name \in Payloads :
                  /\ table.next_slot = MaxCap
                  /\ reg = Answer("register", "OUT_OF_HANDLES", 0, name, 0, table)
        BY <2>3
      <3> HIDE DEF reg
      <3>2. /\ call' = [op |-> "register", code |-> "OUT_OF_HANDLES", handle |-> 0, name |-> name]
            /\ table' = table
            /\ response' = {[bytes |-> 0, moved |-> 0]}
        BY <2>1, <3>1 DEF Answer
      <3> QED
        BY <3>1, <3>2
    <2>4. CASE \E name \in Payloads :
                  /\ name.bytes + 4 <= p.bytes
                  /\ table.next_slot < MaxCap
                  /\ reg = Answer("register", "SUCCESS", table.next_slot + 1, name, 4, reg.table)
                  /\ Pushed(table, reg.table, name)
      <3>1. PICK name \in Payloads :
                  /\ name.bytes + 4 <= p.bytes
                  /\ table.next_slot < MaxCap
                  /\ reg = Answer("register", "SUCCESS", table.next_slot + 1, name, 4, reg.table)
                  /\ Pushed(table, reg.table, name)
        BY <2>4
      <3>2. name.bytes <= 2036
        <4>1. p.bytes \in Nat /\ p.bytes <= 2040 /\ name.bytes \in Nat
          BY <1>4, PayloadFacts, SmAssumption
        <4> HIDE DEF p
        <4> QED
          BY <3>1, <4>1
      <3> HIDE DEF reg
      <3>3. /\ call' = [op |-> "register", code |-> "SUCCESS",
                        handle |-> table.next_slot + 1, name |-> name]
            /\ response' = {[bytes |-> 4, moved |-> 0]}
        BY <2>1, <3>1 DEF Answer
      <3>4. Pushed(table, table', name)
        BY <2>1, <3>1
      <3> QED
        BY <3>1, <3>2, <3>3, <3>4
    <2> QED
      BY <1>1, <2>2, <2>3, <2>4, RegisterOutcome
  <1>5. CASE Respond(get)
    <2> DEFINE n == p.first
    <2>1. /\ table' = get.table /\ call' = get.call
          /\ response' = {[bytes |-> get.bytes, moved |-> 0]}
      BY <1>5 DEF Respond
    <2>2. CASE get = Answer("get", "INVALID_HANDLE", 0, Empty, 0, table)
      <3> HIDE DEF get
      <3> QED
        BY <2>1, <2>2 DEF Answer
    <2>3. CASE /\ n \in Asked /\ n \in 1 .. table.next_slot
               /\ get = Answer("get", "SUCCESS", n, NameOf(table, n - 1),
                               4 + StoredBytes(NameOf(table, n - 1)), table)
      <3> HIDE DEF get, n
      <3>1. /\ call' = [op |-> "get", code |-> "SUCCESS", handle |-> n,
                        name |-> NameOf(table, n - 1)]
            /\ table' = table
            /\ response' = {[bytes |-> 4 + StoredBytes(NameOf(table, n - 1)), moved |-> 0]}
        BY <2>1, <2>3 DEF Answer
      <3> QED
        BY <2>3, <3>1
    <2>4. CASE /\ n \in Asked /\ n \notin 1 .. table.next_slot
               /\ get = Answer("get", "INVALID_HANDLE", n, Empty, 0, table)
      <3> HIDE DEF get, n
      <3>1. /\ call' = [op |-> "get", code |-> "INVALID_HANDLE", handle |-> n, name |-> Empty]
            /\ table' = table
            /\ response' = {[bytes |-> 0, moved |-> 0]}
        BY <2>1, <2>4 DEF Answer
      <3> QED
        BY <2>4, <3>1
    <2> QED
      BY <1>1, <2>2, <2>3, <2>4, GetOutcome
  <1> QED
    BY <1>2, <1>3, <1>4, <1>5

LEMMA SInvInit == Init => SInv
  BY NewTableStacked DEF Init, SInv

LEMMA SInvStep == SInv /\ [Next]_vars => SInv'
  <1> SUFFICES ASSUME SInv, [Next]_vars PROVE SInv'
    OBVIOUS
  <1>0. Stacked(table) /\ table.next_slot \in Nat
    BY CapacityAssumption DEF SInv, Stacked, TableTypeOK
  <1>1. CASE UNCHANGED <<table, call>>
    BY <1>1 DEF SInv
  <1>2. CASE ResetHandleTable
    BY <1>2, NewTableStacked DEF ResetHandleTable, SInv
  <1>3. ASSUME NEW m \in Messages, DispatchMessage(m)
        PROVE  SInv'
    <2>1. CASE UNCHANGED <<table, call>>
      BY <2>1, <1>1
    <2>2. CASE table' = table /\ (call'.op = "register" => call'.code # "SUCCESS")
      BY <2>2, <1>0 DEF SInv
    <2>3. CASE \E name \in Payloads :
                 /\ table.next_slot < MaxCap
                 /\ call' = [op |-> "register", code |-> "SUCCESS",
                             handle |-> table.next_slot + 1, name |-> name]
                 /\ Pushed(table, table', name)
      <3>1. Stacked(table')
        BY <2>3 DEF Pushed
      <3>2. call'.handle = table.next_slot + 1 /\ table.next_slot < MaxCap
        BY <2>3
      <3>3. call'.handle \in 1 .. MaxCap
        BY <1>0, <3>2, CapacityAssumption
      <3> QED
        BY <3>1, <3>3 DEF SInv
    <2> QED
      BY <1>3, <2>1, <2>2, <2>3, MessageOutcome
  <1> QED
    BY <1>1, <1>2, <1>3 DEF Next, vars, StartHostServices, RegisterHost

(* Whatever guests send and however often the table is reset, the table is  *)
(* well formed, no handle given out is the invalid one, and every session   *)
(* has exactly its one reference between two messages                       *)
(* (handler_get_service_handle takes one and gives it back).                *)
THEOREM LookupsBalanced == Spec => [](TypeOK /\ SessionsBalanced)
  <1>1. SInv => TypeOK /\ SessionsBalanced
    BY DEF SInv, Stacked, TypeOK, SessionsBalanced
  <1> QED
    BY SInvInit, SInvStep, <1>1, PTL DEF Spec

-----------------------------------------------------------------------------
(* Responses. *)

(* What fits the fields of the header arrives: up to 2040 bytes of data and *)
(* fifteen handles.                                                         *)
LEMMA FittingIsReadable ==
  ASSUME NEW r, r.bytes \in Nat, r.bytes <= 2040, r.moved \in 0 .. 15
  PROVE  Readable(r)
  <1> DEFINE m == ToBytes(r)
             w == RawWords(r)
  <1>1. w \in 1 .. 511
    <2> DEFINE b == r.bytes + 3
               q == b \div 4
    <2>1. b \in Nat /\ b <= 2043
      OBVIOUS
    <2> HIDE DEF b
    <2>2. q \in Nat /\ 4 * q <= b
      BY <2>1
    <2> HIDE DEF q
    <2>3. 1 + q \in 1 .. 511
      BY <2>1, <2>2
    <2> QED
      BY <2>3 DEF q, b, RawWords
  <1>2. m = [ptr |-> r.moved, send |-> 0, recv |-> 0, xchg |-> 0, raw |-> w,
             recv_list |-> 0, special |-> 0, words |-> 2 + w + r.moved]
    <2>1. r.moved % 16 = r.moved /\ r.moved \div 16 = 0
          /\ r.moved \div 256 = 0 /\ r.moved \div 4096 = 0 /\ 0 % 16 = 0
      OBVIOUS
    <2>2. w % 1024 = w
      BY <1>1
    <2>3. 16 * 16 = 256 /\ 16 * 16 * 16 = 4096
      OBVIOUS
    <2> QED
      BY <2>1, <2>2, <2>3 DEF ToBytes, CountField, RawField, HeaderWords
  <1> HIDE DEF m, w
  <1>3. Layout(m) = [raw |-> 2, handles |-> 2 + w,
                     ends |-> {2, 2 + w, 2 + w + r.moved}]
    BY <1>1, <1>2 DEF Layout, HeaderWords
  <1>4. Parses(m)
    BY <1>1, <1>2, <1>3 DEF Parses, HeaderWords, MaxRawWords
  <1>5. Sections(m) = [raw |-> <<2, w>>, handles |-> <<2 + w, r.moved>>]
    BY <1>2, <1>3 DEF Sections
  <1> QED
    BY <1>4, <1>5 DEF Readable, HeaderWords, m, w

DataOnly(n) == [bytes |-> n, moved |-> 0]

LEMMA DataIsReadable ==
  ASSUME NEW n \in Nat, n <= 2040
  PROVE  Readable(DataOnly(n))
  <1>1. DataOnly(n).bytes \in Nat /\ DataOnly(n).bytes <= 2040 /\ DataOnly(n).moved \in 0 .. 15
    BY DEF DataOnly
  <1> HIDE DEF DataOnly
  <1> QED
    BY <1>1, FittingIsReadable

RInv == SInv /\ NamesFit(table) /\ ResponseReadable

LEMMA RInvInit == Init => RInv
  <1>1. Init => Occupied(table) = {}
    BY DEF Init, NewTable, Occupied
  <1> QED
    BY <1>1, SInvInit DEF RInv, NamesFit, Init, ResponseReadable

LEMMA RInvStep ==
  ASSUME \A name \in Payloads : name.invalid = 0,
         \A r \in HostReplies : Readable(r)
  PROVE  RInv /\ [Next]_vars => RInv'
  <1> SUFFICES ASSUME RInv, [Next]_vars PROVE RInv'
    OBVIOUS
  <1>0. SInv /\ SInv' /\ Stacked(table)
    BY SInvStep DEF RInv, SInv
  <1>1. CASE UNCHANGED <<table, response>>
    BY <1>0, <1>1 DEF RInv, NamesFit, ResponseReadable
  <1>2. CASE ResetHandleTable
    <2>1. NamesFit(table')
      BY <1>2 DEF ResetHandleTable, NamesFit, NewTable, Occupied
    <2> QED
      BY <1>0, <1>2, <2>1 DEF ResetHandleTable, RInv, ResponseReadable
  <1>3. ASSUME NEW m \in Messages, DispatchMessage(m)
        PROVE  RInv'
    <2>2. CASE /\ table' = table
               /\ \/ response' = {}
                  \/ \E r \in HostReplies : response' = {r}
                  \/ response' = {DataOnly(0)}
      <3>1. Readable(DataOnly(0))
        BY DataIsReadable
      <3>2. ResponseReadable'
        BY <2>2, <3>1 DEF ResponseReadable
      <3>3. NamesFit(table')
        BY <2>2 DEF RInv
      <3> QED
        BY <1>0, <3>2, <3>3 DEF RInv
    <2>3. CASE \E name \in Payloads :
                 /\ name.bytes <= 2036
                 /\ Pushed(table, table', name)
                 /\ response' = {DataOnly(4)}
      <3>1. PICK name \in Payloads :
                 /\ name.bytes <= 2036
                 /\ Pushed(table, table', name)
        BY <2>3
      <3>2. NamesFit(table')
        BY <1>0, <3>1, NameKept DEF RInv, NamesFit
      <3>3. Readable(DataOnly(4))
        BY DataIsReadable
      <3>4. ResponseReadable'
        BY <2>3, <3>3 DEF ResponseReadable
      <3> QED
        BY <1>0, <3>2, <3>4 DEF RInv
    <2>4. CASE \E n \in Asked :
                 /\ n \in 1 .. table.next_slot
                 /\ table' = table
                 /\ response' = {DataOnly(4 + StoredBytes(NameOf(table, n - 1)))}
      <3>1. PICK n \in Asked :
                 /\ n \in 1 .. table.next_slot
                 /\ response' = {DataOnly(4 + StoredBytes(NameOf(table, n - 1)))}
        BY <2>4
      <3> DEFINE name == NameOf(table, n - 1)
      <3>2. n - 1 \in Occupied(table)
        BY <1>0, <3>1, CapacityAssumption DEF Stacked, TableTypeOK
      <3>3. name \in Payloads
        BY <1>0, <3>2 DEF Stacked, TableTypeOK, HandleEntry, KernelObject, NameOf
      <3>4. name.bytes <= 2036
        BY <3>2 DEF RInv, NamesFit
      <3>5. 4 + StoredBytes(name) \in Nat /\ 4 + StoredBytes(name) <= 2040
        BY <3>3, <3>4, SmAssumption DEF StoredBytes
      <3> DEFINE k == 4 + StoredBytes(name)
      <3>6. Readable(DataOnly(k))
        <4>1. k \in Nat /\ k <= 2040
          BY <3>5
        <4> HIDE DEF k
        <4> QED
          BY <4>1, DataIsReadable
      <3>7. response' = {DataOnly(k)}
        BY <3>1
      <3>8. ResponseReadable'
        BY <3>6, <3>7 DEF ResponseReadable
      <3>9. NamesFit(table')
        BY <2>4 DEF RInv
      <3> QED
        BY <1>0, <3>8, <3>9 DEF RInv
    <2> QED
      BY <1>0, <1>3, <2>2, <2>3, <2>4, MessageOutcome DEF DataOnly
  <1> QED
    BY <1>1, <1>2, <1>3 DEF Next, vars, StartHostServices, RegisterHost

(* While names are valid UTF-8 and the handlers of the host answer within   *)
(* the fields, a guest can parse every response and finds in it all that    *)
(* to_bytes was given: a name that could be sent can be sent back.          *)
THEOREM NamesComeBack ==
  ASSUME \A name \in Payloads : name.invalid = 0,
         \A r \in HostReplies : Readable(r)
  PROVE  Spec => []ResponseReadable
  <1>1. RInv => ResponseReadable
    BY DEF RInv
  <1> QED
    BY RInvInit, RInvStep, <1>1, PTL DEF Spec

-----------------------------------------------------------------------------
(* The promise of ServiceDirectory. *)

NamesIn(t) == [n \in 1 .. t.next_slot |-> t.entries[n - 1].object.payload]

LEMMA NamesInLen ==
  ASSUME NEW t, Stacked(t)
  PROVE  /\ NamesIn(t) \in Seq(Payloads)
         /\ Len(NamesIn(t)) = t.next_slot /\ DOMAIN NamesIn(t) = 1 .. t.next_slot
         /\ t.next_slot \in 0 .. MaxCap
         /\ \A n \in 1 .. t.next_slot : NamesIn(t)[n] = NameOf(t, n - 1)
  <1>1. /\ t.next_slot \in 0 .. MaxCap /\ t.next_slot \in Nat
        /\ Occupied(t) = 0 .. (t.next_slot - 1)
        /\ t.entries \in [Occupied(t) -> HandleEntry]
    BY CapacityAssumption DEF Stacked, TableTypeOK
  <1>2. ASSUME NEW n \in 1 .. t.next_slot
        PROVE  t.entries[n - 1].object.payload \in Payloads
    <2>1. n - 1 \in Occupied(t)
      BY <1>1
    <2>2. t.entries[n - 1] \in HandleEntry
      BY <1>1, <2>1
    <2> QED
      BY <2>2 DEF HandleEntry, KernelObject
  <1>3. NamesIn(t) \in [1 .. t.next_slot -> Payloads]
    BY <1>2 DEF NamesIn
  <1>4. NamesIn(t) \in Seq(Payloads) /\ Len(NamesIn(t)) = t.next_slot
    <2> DEFINE k == t.next_slot
               names == NamesIn(t)
    <2>1. k \in Nat /\ names \in [1 .. k -> Payloads]
      BY <1>1, <1>3
    <2> HIDE DEF k, names
    <2>2. names \in Seq(Payloads) /\ Len(names) = k
      BY <2>1
    <2> QED
      BY <2>2 DEF k, names
  <1>5. \A n \in 1 .. t.next_slot : NamesIn(t)[n] = NameOf(t, n - 1)
    BY DEF NamesIn, NameOf
  <1> QED
    BY <1>1, <1>3, <1>4, <1>5

LEMMA PushAppends ==
  ASSUME NEW t, Stacked(t), NEW u, NEW name \in Payloads, Pushed(t, u, name)
  PROVE  NamesIn(u) = Append(NamesIn(t), name)
  <1> DEFINE k == t.next_slot
  <1>1. /\ k \in Nat /\ u.next_slot = k + 1 /\ Occupied(t) = 0 .. (k - 1)
        /\ \A i \in Occupied(t) : u.entries[i] = t.entries[i]
        /\ u.entries[k].object.payload = name
    BY CapacityAssumption DEF Stacked, Pushed, TableTypeOK, Session
  <1>2. Append(NamesIn(t), name)
          = [n \in 1 .. (k + 1) |-> IF n = k + 1 THEN name ELSE NamesIn(t)[n]]
    <2> DEFINE names == NamesIn(t)
    <2>1. names \in Seq(Payloads) /\ Len(names) = k
      BY NamesInLen
    <2> HIDE DEF names, k
    <2>2. Append(names, name)
            = [n \in 1 .. (k + 1) |-> IF n = k + 1 THEN name ELSE names[n]]
      <3> DEFINE a == Append(names, name)
      <3>1. /\ a \in Seq(Payloads) /\ Len(a) = k + 1 /\ a[k + 1] = name
            /\ \A n \in 1 .. k : a[n] = names[n]
        BY <2>1, AppendProperties
      <3> HIDE DEF a
      <3>2. a = [n \in 1 .. (k + 1) |-> a[n]]
        BY <3>1
      <3>3. \A n \in 1 .. (k + 1) : a[n] = IF n = k + 1 THEN name ELSE names[n]
        BY <1>1, <3>1
      <3>4. a = [n \in 1 .. (k + 1) |-> IF n = k + 1 THEN name ELSE names[n]]
        BY <3>2, <3>3
      <3> QED
        BY <3>4 DEF a
    <2> QED
      BY <2>2 DEF names
  <1>3. ASSUME NEW n \in 1 .. (k + 1)
        PROVE  u.entries[n - 1].object.payload
                 = IF n = k + 1 THEN name ELSE NamesIn(t)[n]
    <2>1. CASE n = k + 1
      <3>1. n - 1 = k
        BY <1>1, <2>1
      <3> QED
        BY <1>1, <2>1, <3>1
    <2>2. CASE n # k + 1
      <3>1. n - 1 \in 0 .. (k - 1) /\ n \in 1 .. k
        BY <1>1, <2>2
      <3>2. NamesIn(t)[n] = t.entries[n - 1].object.payload
        BY <3>1 DEF NamesIn
      <3> QED
        BY <1>1, <2>2, <3>1, <3>2
    <2> QED
      BY <2>1, <2>2
  <1>4. NamesIn(u) = [n \in 1 .. (k + 1) |-> u.entries[n - 1].object.payload]
    BY <1>1 DEF NamesIn
  <1> HIDE DEF k
  <1> QED
    BY <1>2, <1>3, <1>4

(* Every step of the service manager is a step of the directory: handles    *)
(* are given out in order and never change their meaning, a registration is *)
(* refused only when the table is full, and what is not a handle is not     *)
(* resolved.                                                                *)
THEOREM SmImplementsDirectory == Spec => ImplementsDirectory
  <1>1. Spec => []SInv
    BY SInvInit, SInvStep, PTL DEF Spec
  <1>2. Init => Directory!Init
    <2> SUFFICES ASSUME Init PROVE Directory!Init
      OBVIOUS
    <2>1. table.next_slot = 0
      BY NewTableStacked DEF Init
    <2>2. NamesIn(table) = <<>>
      BY <2>1 DEF NamesIn
    <2> QED
      BY <2>2 DEF Init, Directory!Init, NamesIn
  <1>3. SInv /\ [Next]_vars => [Directory!Next]_(Directory!vars)
    <2> SUFFICES ASSUME SInv, [Next]_vars PROVE [Directory!Next]_(Directory!vars)
      OBVIOUS
    <2>1. Stacked(table)
      BY DEF SInv
    <2>2. CASE UNCHANGED <<table, call>>
      BY <2>2 DEF Directory!vars
    <2>3. CASE ResetHandleTable
      <3>1. NamesIn(table') = <<>>
        BY <2>3, NewTableStacked DEF ResetHandleTable, NamesIn
      <3> QED
        BY <2>3, <3>1 DEF ResetHandleTable, NamesIn, Directory!Next, Directory!Reset
    <2>4. ASSUME NEW m \in Messages, DispatchMessage(m)
          PROVE  [Directory!Next]_(Directory!vars)
      <3>1. CASE \E op \in {"register", "get"} :
                   /\ call' = [op |-> op, code |-> "INVALID_HANDLE",
                               handle |-> 0, name |-> Empty]
                   /\ table' = table
        BY <3>1 DEF Directory!Next, Directory!Refuse, Directory!Answered
      <3>2. CASE \E name \in Payloads :
                   /\ table.next_slot = MaxCap
                   /\ call' = [op |-> "register", code |-> "OUT_OF_HANDLES",
                               handle |-> 0, name |-> name]
                   /\ table' = table
        <4>1. PICK name \in Payloads :
                   /\ table.next_slot = MaxCap
                   /\ call' = [op |-> "register", code |-> "OUT_OF_HANDLES",
                               handle |-> 0, name |-> name]
          BY <3>2
        <4>2. Len(NamesIn(table)) = MaxCap
          BY <2>1, <4>1, NamesInLen
        <4>3. Directory!Full(name)
          BY <3>2, <4>1, <4>2 DEF Directory!Full, Directory!Answered, NamesIn
        <4> QED
          BY <4>3 DEF Directory!Next
      <3>3. CASE \E name \in Payloads :
                   /\ table.next_slot < MaxCap
                   /\ call' = [op |-> "register", code |-> "SUCCESS",
                               handle |-> table.next_slot + 1, name |-> name]
                   /\ Pushed(table, table', name)
        <4>1. PICK name \in Payloads :
                   /\ table.next_slot < MaxCap
                   /\ call' = [op |-> "register", code |-> "SUCCESS",
                               handle |-> table.next_slot + 1, name |-> name]
                   /\ Pushed(table, table', name)
          BY <3>3
        <4>2. NamesIn(table') = Append(NamesIn(table), name)
          BY <2>1, <4>1, PushAppends
        <4>3. Len(NamesIn(table)) = table.next_slot
          BY <2>1, NamesInLen
        <4>4. Directory!Register(name)
          BY <4>1, <4>2, <4>3 DEF Directory!Register, Directory!Answered, NamesIn
        <4> QED
          BY <4>4 DEF Directory!Next
      <3>4. CASE \E n \in Asked :
                   /\ n \in 1 .. table.next_slot
                   /\ call' = [op |-> "get", code |-> "SUCCESS", handle |-> n,
                               name |-> NameOf(table, n - 1)]
                   /\ table' = table
        <4>1. PICK n \in Asked :
                   /\ n \in 1 .. table.next_slot
                   /\ call' = [op |-> "get", code |-> "SUCCESS", handle |-> n,
                               name |-> NameOf(table, n - 1)]
          BY <3>4
        <4>2. n \in DOMAIN NamesIn(table) /\ NamesIn(table)[n] = NameOf(table, n - 1)
          BY <2>1, <4>1, NamesInLen
        <4>3. Directory!Resolve(n)
          BY <3>4, <4>1, <4>2 DEF Directory!Resolve, Directory!Answered, NamesIn
        <4> QED
          BY <4>3 DEF Directory!Next
      <3>5. CASE \E n \in Asked :
                   /\ n \notin 1 .. table.next_slot
                   /\ call' = [op |-> "get", code |-> "INVALID_HANDLE", handle |-> n,
                               name |-> Empty]
                   /\ table' = table
        <4>1. PICK n \in Asked :
                   /\ n \notin 1 .. table.next_slot
                   /\ call' = [op |-> "get", code |-> "INVALID_HANDLE", handle |-> n,
                               name |-> Empty]
          BY <3>5
        <4>2. n \notin DOMAIN NamesIn(table)
          BY <2>1, <4>1, NamesInLen
        <4>3. Directory!Unknown(n)
          BY <3>5, <4>1, <4>2 DEF Directory!Unknown, Directory!Answered, NamesIn
        <4> QED
          BY <4>3 DEF Directory!Next
      <3> QED
        BY <2>2, <2>4, <3>1, <3>2, <3>3, <3>4, <3>5, MessageOutcome
    <2> QED
      BY <2>2, <2>3, <2>4 DEF Next, vars, StartHostServices, RegisterHost
  <1> QED
    BY <1>1, <1>2, <1>3, PTL DEF Spec, ImplementsDirectory, Directory!Spec
=================================================================================
