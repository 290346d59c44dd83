--------------------------- MODULE ServiceDirectory ---------------------------
(***************************************************************************)
(* What the service manager promises its clients: handle number n stands   *)
(* for the n-th name registered, for as long as the directory lives.       *)
(***************************************************************************)
EXTENDS Integers, Sequences

CONSTANTS
  Names,     (* what may be registered                                      *)
  NoName,    (* the answer to a lookup that failed                          *)
  Capacity,  (* how many names there can be                                 *)
  Handles    (* numbers clients may ask for                                 *)

VARIABLES
  names,     (* the names registered, in order                              *)
  call       (* the last call, its code, and the handle and name it is about *)

vars == <<names, call>>

Answered(op, code, handle, name) ==
  call' = [op |-> op, code |-> code, handle |-> handle, name |-> name]

Init ==
  /\ names = <<>>
  /\ call = [op |-> "none", code |-> "SUCCESS", handle |-> 0, name |-> NoName]

Register(name) ==
  /\ Len(names) < Capacity
  /\ names' = Append(names, name)
  /\ Answered("register", "SUCCESS", Len(names) + 1, name)

Full(name) ==
  /\ Len(names) = Capacity
  /\ Answered("register", "OUT_OF_HANDLES", 0, name)
  /\ UNCHANGED names

Resolve(handle) ==
  /\ handle \in DOMAIN names
  /\ Answered("get", "SUCCESS", handle, names[handle])
  /\ UNCHANGED names

Unknown(handle) ==
  /\ handle \notin DOMAIN names
  /\ Answered("get", "INVALID_HANDLE", handle, NoName)
  /\ UNCHANGED names

(* A request that says nothing is refused.                                  *)
Refuse(op) ==
  /\ Answered(op, "INVALID_HANDLE", 0, NoName)
  /\ UNCHANGED names

Reset == names' = <<>> /\ UNCHANGED call

Next ==
  \/ \E name \in Names : Register(name) \/ Full(name)
  \/ \E handle \in Handles : Resolve(handle) \/ Unknown(handle)
  \/ \E op \in {"register", "get"} : Refuse(op)
  \/ Reset

Spec == Init /\ [][Next]_vars
===============================================================================
