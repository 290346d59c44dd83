---------------------------- MODULE HandleRegistry ----------------------------
(***************************************************************************)
(* What the handle table promises its callers, without slots, free list,   *)
(* growth or counts: a partial map from ids to objects, in which an object *)
(* stays exactly as long as somebody holds a reference to it, and which    *)
(* refuses a new object only when every id is taken.                       *)
(***************************************************************************)
EXTENDS Integers

CONSTANTS
  Objects,  (* the objects callers may register, each with a field type     *)
  Types,    (* the types callers may ask for                                *)
  Ids,      (* every handle id                                              *)
  NoId,     (* not a handle id                                              *)
  Callers   (* each may hold one reference                                  *)

VARIABLES
  objects,  (* the registered objects, a function on the ids in use         *)
  held,     (* held[c]: the id c holds a reference on, or NoId              *)
  code      (* the result of the last call                                  *)

vars == <<objects, held, code>>

InUse == DOMAIN objects

Init ==
  /\ objects = [id \in {} |-> 0]
  /\ held = [c \in Callers |-> NoId]
  /\ code = "SUCCESS"

Returns(c, result, id) ==
  /\ code' = result
  /\ held' = [held EXCEPT ![c] = id]

(* A new object gets some id that is not in use.                            *)
Create(c, object) ==
  /\ held[c] = NoId
  /\ \E id \in Ids \ InUse :
       /\ objects' = [i \in InUse \cup {id} |-> IF i = id THEN object ELSE objects[i]]
       /\ Returns(c, "SUCCESS", id)

CreateRefused(c) ==
  /\ held[c] = NoId
  /\ InUse = Ids
  /\ Returns(c, "OUT_OF_HANDLES", NoId)
  /\ UNCHANGED objects

Get(c, id, type) ==
  /\ held[c] = NoId
  /\ id \in InUse
  /\ objects[id].type = type
  /\ Returns(c, "SUCCESS", id)
  /\ UNCHANGED objects

GetRefused(c) ==
  /\ held[c] = NoId
  /\ Returns(c, "INVALID_HANDLE", NoId)
  /\ UNCHANGED objects

(* A release always succeeds, and drops the object with its last holder.    *)
Release(c) ==
  /\ held[c] # NoId
  /\ LET StillHeld(id) == \E d \in Callers \ {c} : held[d] = id
     IN  objects' = [id \in {i \in InUse : i # held[c] \/ StillHeld(i)} |-> objects[id]]
  /\ Returns(c, "SUCCESS", NoId)

Next ==
  \E c \in Callers :
    \/ \E object \in Objects : Create(c, object)
    \/ CreateRefused(c)
    \/ \E id \in Ids, type \in Types : Get(c, id, type)
    \/ GetRefused(c)
    \/ Release(c)

Spec == Init /\ [][Next]_vars
===============================================================================
