------------------------------ MODULE MCSmService ------------------------------
(* The service manager, model-checked: honest and odd messages.             *)
EXTENDS SmService

Name(label, bytes, invalid) == [label |-> label, bytes |-> bytes, invalid |-> invalid]

(* The longest name a request can carry has 2036 bytes; one byte that is not *)
(* UTF-8 becomes three when the name is stored.                              *)
FittingNames ==
  {Empty, Name("a", 1, 0), Name("longest", 2036, 0), Name("long", 2037, 0),
   Name("odd", 2034, 1)}

PaddedTo4(n) == 4 * ((n + 3) \div 4)

NamePayloads ==
  {[bytes |-> 4 + PaddedTo4(name.bytes), first |-> name.bytes, name |-> name] :
     name \in Payloads}

HandlePayloads == {[bytes |-> 4, first |-> n, name |-> Empty] : n \in 0 .. MaxCap + 1}

NoBytes == [bytes |-> 0, first |-> 0, name |-> Empty]

(* Complete messages, and ones that end a word early.                       *)
ToWire(service, method, special, send, ptr, p, missing) ==
  LET raw == 1 + p.bytes \div 4
  IN  [service |-> service, method |-> method, special |-> special,
       send |-> send, recv |-> 0, xchg |-> 0, ptr |-> ptr, recv_list |-> 0,
       raw |-> raw, payload |-> p,
       words |-> 2 + 2 * send + raw + ptr + 3 * special - missing]

Sent ==
  {ToWire("sm", method, special, n, n, p, missing) :
     method \in {0, 1, 2}, special \in {0, 1}, n \in {0, 1}, missing \in {0, 1},
     p \in NamePayloads \cup HandlePayloads \cup {NoBytes}}
  \cup {ToWire("host", method, 0, 0, 0, NoBytes, 0) : method \in {0, 1}}
  \cup {[ToWire("sm", 1, 0, 0, 0, NoBytes, 0) EXCEPT !.raw = 0, !.words = 2]}

Replies == {[bytes |-> 2040, moved |-> 15], [bytes |-> 1, moved |-> 1]}
=================================================================================
