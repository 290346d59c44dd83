---------------------------------- MODULE Hipc ----------------------------------
(***************************************************************************)
(* HIPC messages and their dispatch (core/src/nn/hipc.rs).                 *)
(*                                                                         *)
(* A message on the wire is the fields of its two header words, the number *)
(* of whole words in the buffer, and what stands in its raw data: the      *)
(* method id and the payload behind it.  All sections consist of whole     *)
(* words, so that left-over bytes at the end are never read.  Addresses    *)
(* and sizes of buffer descriptors are not looked at by any handler.       *)
(***************************************************************************)
EXTENDS Integers, Sequences

MaxRawWords == 511      (* MAX_RAW_SIZE_WORDS                               *)
RawField == 1024        (* raw_count has ten bits                           *)
CountField == 16        (* the descriptor counts have four bits             *)

HeaderWords == 2

-----------------------------------------------------------------------------
(* Parsing. *)

(* Where the sections begin, in words: buffer descriptors take two, handles *)
(* one, receive-list entries two and the special descriptor three.          *)
Layout(m) ==
  LET receive  == HeaderWords + 2 * m.send
      exchange == receive + 2 * m.recv
      raw      == exchange + 2 * m.xchg
      handles  == raw + m.raw
      list     == handles + m.ptr
      special  == list + 2 * m.recv_list
  IN  [raw |-> raw, handles |-> handles,
       ends |-> {receive, exchange, raw, handles, list, special, special + 3 * m.special}]

(* A section that is not empty has to end inside the buffer.  The cursor    *)
(* never moves past the buffer, so that an empty one does.                  *)
Parses(m) ==
  /\ m.words >= HeaderWords
  /\ m.raw <= MaxRawWords
  /\ \A end \in Layout(m).ends : end <= m.words

(* The first word of the raw data; 0 for special and for empty messages.    *)
MethodId(m) == IF m.special = 0 /\ m.raw > 0 THEN m.method ELSE 0

NoPayload == [bytes |-> 0]

(* What dispatch_message hands to the handler: the raw data behind it.      *)
PayloadOf(m) == IF m.raw > 0 THEN m.payload ELSE NoPayload

(* What the receiver of a response finds: where raw data and handles are.   *)
Sections(m) ==
  [raw |-> <<Layout(m).raw, m.raw>>, handles |-> <<Layout(m).handles, m.ptr>>]

-----------------------------------------------------------------------------
(* Responses: a result code, so many bytes of data, so many moved handles.  *)

RawWords(response) == 1 + (response.bytes + 3) \div 4

(* Mutant: the result code is not counted.                                  *)
ToBytesNoCode(response) ==
  [ptr  |-> response.moved, send |-> 0, recv |-> 0, xchg |-> 0,
   raw  |-> (response.bytes + 3) \div 4, recv_list |-> 0, special |-> 0,
   words |-> HeaderWords + RawWords(response) + response.moved]

(* raw_count is cut to its field.  The number of handles is shifted into    *)
(* the first header word as it is, and runs into the fields above it.       *)
ToBytes(response) ==
  [ptr  |-> response.moved % CountField,
   send |-> (response.moved \div CountField) % CountField,
   recv |-> (response.moved \div (CountField * CountField)) % CountField,
   xchg |-> (response.moved \div (CountField * CountField * CountField)) % CountField,
   raw  |-> RawWords(response) % RawField, recv_list |-> 0, special |-> 0,
   words |-> HeaderWords + RawWords(response) + response.moved]

(* The receiver parses the bytes and finds each section where to_bytes has  *)
(* put it, all of it.                                                       *)
Readable(response) ==
  LET m == ToBytes(response)
  IN  /\ Parses(m)
      /\ Sections(m) = [raw     |-> <<HeaderWords, RawWords(response)>>,
                        handles |-> <<HeaderWords + RawWords(response), response.moved>>]

-----------------------------------------------------------------------------
(* The router: services[s][id] is the handler of method id of service s.    *)

NewRouter == [s \in {} |-> [id \in {} |-> 0]]

Methods(services, s) ==
  IF s \in DOMAIN services THEN services[s] ELSE [id \in {} |-> 0]

(* A handler registered before is overwritten.                              *)
RegisterHandler(services, s, id, handler) ==
  LET old == Methods(services, s)
      new == [i \in DOMAIN old \cup {id} |-> IF i = id THEN handler ELSE old[i]]
  IN  [t \in DOMAIN services \cup {s} |-> IF t = s THEN new ELSE services[t]]

(* dispatch_message: the error, or "OK" and the handler to call.            *)
Dispatch(services, m) ==
  IF ~Parses(m) THEN [result |-> "MalformedMessage"]
  ELSE IF m.service \notin DOMAIN services THEN [result |-> "ServiceNotFound"]
  ELSE IF MethodId(m) \notin DOMAIN services[m.service] THEN [result |-> "NotImplemented"]
  ELSE [result |-> "OK", handler |-> services[m.service][MethodId(m)]]
===============================================================================
