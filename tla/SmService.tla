-------------------------------- MODULE SmService --------------------------------
(***************************************************************************)
(* The service manager (core/src/nn/sm.rs) behind the HIPC router: guests  *)
(* send messages, the router parses them and calls a handler, the handler  *)
(* works on the table of sessions, the response goes back on the wire.     *)
(*                                                                         *)
(* A name is a number of bytes, some of which are not UTF-8: each of those *)
(* becomes a replacement character of three bytes when it is stored.       *)
(* A payload is its length in bytes, its first word and a name.            *)
(***************************************************************************)
EXTENDS Hipc, HandleSlots

CONSTANTS
  Messages,   (* what guests send                                          *)
  HostReplies (* what the handlers of other services answer                *)

Empty == [label |-> "", bytes |-> 0, invalid |-> 0]

ASSUME SmAssumption ==
  /\ Types = {"Session"}
  /\ RefModulus \in Nat /\ RefModulus > 2
  /\ Empty \in Payloads
  /\ \A name \in Payloads : name.bytes \in Nat /\ name.invalid \in 0 .. name.bytes

(* The payload fills the raw data behind the method id, and its first word, *)
(* read as a length, is that of its name.                                   *)
ASSUME MessageAssumption ==
  \A m \in Messages :
    /\ {m.words, m.send, m.recv, m.xchg, m.raw, m.ptr, m.recv_list, m.special} \subseteq Nat
    /\ m.payload.bytes \in Nat /\ m.payload.first \in Nat
    /\ m.raw > 0 => m.payload.bytes = 4 * (m.raw - 1)
    /\ 4 + m.payload.first <= m.payload.bytes
       => m.payload.name \in Payloads /\ m.payload.name.bytes = m.payload.first

VARIABLES
  services,  (* the router's tables                                         *)
  table,     (* SM_HANDLE_TABLE                                             *)
  call,      (* the last call of an sm handler: as in ServiceDirectory      *)
  response   (* the response that goes back, as a set: empty before the     *)
             (* first and after an error of the router                      *)

vars == <<services, table, call, response>>

Session(name) == [type |-> "Session", payload |-> name]

Init ==
  /\ services = NewRouter
  /\ table = NewTable
  /\ call = [op |-> "none", code |-> "SUCCESS", handle |-> 0, name |-> Empty]
  /\ response = {}

-----------------------------------------------------------------------------
(* The handlers: from a payload and a table to the call as ServiceDirectory *)
(* sees it, the length of the response data, and the new table.             *)

Answer(op, code, handle, name, bytes, t) ==
  [call  |-> [op |-> op, code |-> code, handle |-> handle, name |-> name],
   bytes |-> bytes, table |-> t]

(* Mutant: the internal id is given out.                                    *)
RegisterServiceRawId(p, t) ==
  IF p.bytes < 4 \/ 4 + p.first > p.bytes
  THEN Answer("register", "INVALID_HANDLE", 0, Empty, 0, t)
  ELSE LET r == CreateHandle(t, Session(p.name))
       IN  IF r.code = "SUCCESS"
           THEN Answer("register", r.code, r.id, p.name, 4, r.table)
           ELSE Answer("register", r.code, 0, p.name, 0, t)

(* Handles are ids plus one, 0 being the invalid handle.                    *)
RegisterService(p, t) ==
  IF p.bytes < 4 \/ 4 + p.first > p.bytes
  THEN Answer("register", "INVALID_HANDLE", 0, Empty, 0, t)
  ELSE LET r == CreateHandle(t, Session(p.name))
       IN  IF r.code = "SUCCESS"
           THEN Answer("register", r.code, r.id + 1, p.name, 4, r.table)
           ELSE Answer("register", r.code, 0, p.name, 0, t)

NameOf(t, id) == t.entries[id].object.payload

StoredBytes(name) == name.bytes + 2 * name.invalid

(* Mutant: the reference taken for the lookup is kept.                      *)
GetServiceHandleKeeps(p, t) ==
  IF p.bytes < 4 THEN Answer("get", "INVALID_HANDLE", 0, Empty, 0, t)
  ELSE LET r == GetHandle(t, p.first - 1, "Session")
       IN  IF r.code = "SUCCESS"
           THEN Answer("get", r.code, p.first, NameOf(t, r.id),
                       4 + StoredBytes(NameOf(t, r.id)), r.table)
           ELSE Answer("get", r.code, p.first, Empty, 0, t)

(* The lookup takes a reference, reads the name and gives it back.  Handle  *)
(* 0 is refused before the table is asked; here it becomes an id that no    *)
(* table has.                                                               *)
GetServiceHandle(p, t) ==
  IF p.bytes < 4 THEN Answer("get", "INVALID_HANDLE", 0, Empty, 0, t)
  ELSE LET r == GetHandle(t, p.first - 1, "Session")
       IN  IF r.code = "SUCCESS"
           THEN Answer("get", r.code, p.first, NameOf(t, r.id),
                       4 + StoredBytes(NameOf(t, r.id)), ReleaseHandle(r.table, r.id).table)
           ELSE Answer("get", r.code, p.first, Empty, 0, t)

-----------------------------------------------------------------------------
(* The host and the guests. *)

(* start_host_services wires the two handlers.                              *)
StartHostServices ==
  /\ services' = RegisterHandler(RegisterHandler(services, "sm", 0, "register"),
                                 "sm", 1, "get")
  /\ UNCHANGED <<table, call, response>>

(* The host may register handlers of its own.                               *)
RegisterHost(id) ==
  /\ services' = RegisterHandler(services, "host", id, "host")
  /\ UNCHANGED <<table, call, response>>

ResetHandleTable ==
  /\ table' = NewTable
  /\ UNCHANGED <<services, call, response>>

Respond(r) ==
  /\ table' = r.table
  /\ call' = r.call
  /\ response' = {[bytes |-> r.bytes, moved |-> 0]}

DispatchMessage(m) ==
  LET d == Dispatch(services, m)
  IN  /\ UNCHANGED services
      /\ \/ d.result # "OK" /\ response' = {} /\ UNCHANGED <<table, call>>
         \/ /\ d.result = "OK"
            /\ \/ d.handler = "register" /\ Respond(RegisterService(PayloadOf(m), table))
               \/ d.handler = "get" /\ Respond(GetServiceHandle(PayloadOf(m), table))
               \/ /\ d.handler = "host"
                  /\ \E r \in HostReplies : response' = {r}
                  /\ UNCHANGED <<table, call>>

Next ==
  \/ StartHostServices
  \/ \E id \in {0, 2} : RegisterHost(id)
  \/ ResetHandleTable
  \/ \E m \in Messages : DispatchMessage(m)

Spec == Init /\ [][Next]_vars

-----------------------------------------------------------------------------
(* Properties. *)

(* The table keeps its type; a handle that is given out is never 0.         *)
TypeOK ==
  /\ TableTypeOK(table)
  /\ call.op = "register" /\ call.code = "SUCCESS" => call.handle \in 1 .. MaxCap

(* Between two messages every session has the one reference it was created  *)
(* with: lookups leave neither a leak nor a session about to be freed.      *)
SessionsBalanced ==
  \A id \in Occupied(table) : table.entries[id].ref_count = 1

(* A guest can read every response: the parser accepts what to_bytes has    *)
(* written, and finds the data and the handles that were sent.  It holds    *)
(* for valid names of any length a request can carry, and breaks when the   *)
(* replacement characters make a name longer than it came.                  *)
ResponseReadable == \A r \in response : Readable(r)

Asked == {m.payload.first : m \in Messages}

(* Sessions are a directory: a handle stands for the name it was given for, *)
(* whatever is registered, looked up or refused in between.                 *)
Directory == INSTANCE ServiceDirectory WITH
  Names <- Payloads, NoName <- Empty, Capacity <- MaxCap,
  Handles <- Asked,
  names <- [n \in 1 .. table.next_slot |-> table.entries[n - 1].object.payload]

ImplementsDirectory == Directory!Spec
===================================================================================
