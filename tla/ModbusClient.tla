---------------------------- MODULE ModbusClient ----------------------------
(***************************************************************************)
(* The ingestor's Modbus TCP client (gridguard_modbus_ingestor/clients.py) *)
(* against a peer that may answer anything: one connection per read, an    *)
(* answer that arrives in pieces, the checks of the MBAP header and the    *)
(* PDU.  One client object serves the reads of one cycle.                  *)
(*                                                                         *)
(* An answer is the header's fields and the bytes after the header; how    *)
(* many bytes there are need not be what the header's length says.         *)
(***************************************************************************)
EXTENDS RegisterContract

CONSTANTS
    Requests,   \* the reads considered: records [start, count, unit]
    Units,      \* the unit ids that answer
    Lengths,    \* the values of the header's length considered
    Bodies,     \* what may follow the header: sequences of bytes
    TidSize     \* 65536: transaction ids are counted modulo this

ASSUME ClientAssumption ==
  /\ Requests \subseteq [start : Int, count : Int, unit : Int]
  /\ Lengths \subseteq Nat
  /\ Bodies \subseteq Seq(0 .. 255)
  /\ TidSize \in Nat \ {0}

VARIABLES
    pc,         \* "idle", "header", "body", or how the last read ended:
                \* "values", "refused" (the request), "lost" (the connection)
                \* or "protocol" (the answer)
    tid,        \* _transaction_id
    request,    \* the arguments of read_holding_registers
    answer,     \* what the peer sends
    remaining,  \* of _read_exact
    receives,   \* for the properties: calls of recv that gave something
    result      \* the list returned

vars == <<pc, tid, request, answer, remaining, receives, result>>

HeaderSize == 7

Answers ==
  [tid : 0 .. TidSize - 1, protocol : {0, 1}, unit : Units, length : Lengths, body : Bodies]

NoAnswer == [tid |-> 0, protocol |-> 0, unit |-> 0, length |-> 0, body |-> << >>]

Init ==
  /\ pc = "idle"
  /\ tid = 0
  /\ request \in Requests
  /\ answer = NoAnswer
  /\ remaining = 0
  /\ receives = 0
  /\ result = << >>

-----------------------------------------------------------------------------
\* build_client, in the next cycle.
NewClient ==
  /\ pc \in {"values", "refused", "lost", "protocol"}
  /\ pc' = "idle"
  /\ tid' = 0
  /\ answer' = NoAnswer
  /\ remaining' = 0
  /\ receives' = 0
  /\ result' = << >>
  /\ UNCHANGED request

\* The client is free for the next range of the cycle.
Free == pc \in {"idle", "values"}

\* _validate_read_request
RequestAllowed(r) == r.unit \in 1 .. 247 /\ ReadAllowed(<<r.start, r.count>>)

Refuse(r) ==
  /\ Free
  /\ ~RequestAllowed(r)
  /\ pc' = "refused"
  /\ request' = r
  /\ UNCHANGED <<tid, answer, remaining, receives, result>>

NextTid == (tid + 1) % TidSize

ConnectFails(r) ==
  /\ Free
  /\ RequestAllowed(r)
  /\ pc' = "lost"
  /\ request' = r
  /\ tid' = NextTid
  /\ UNCHANGED <<answer, remaining, receives, result>>

\* A connection of its own, the request sent, the peer's answer under way.
Send(r) ==
  /\ Free
  /\ RequestAllowed(r)
  /\ pc' = "header"
  /\ request' = r
  /\ tid' = NextTid
  /\ answer' \in Answers
  /\ remaining' = HeaderSize
  /\ receives' = 0
  /\ result' = << >>

Receiving == pc \in {"header", "body"} /\ remaining > 0

\* Bytes of the answer that have not been received yet.
Unreceived ==
  IF pc = "header" THEN remaining + Len(answer.body)
                   ELSE Len(answer.body) - (answer.length - 1 - remaining)

\* recv(remaining) gives some of what is asked for.
Receive ==
  /\ Receiving
  /\ \E n \in 1 .. remaining :
       /\ n <= Unreceived
       /\ remaining' = remaining - n
  /\ receives' = receives + 1
  /\ UNCHANGED <<pc, tid, request, answer, result>>

\* Mutant of ConnectionLost: an empty chunk is not noticed.
ConnectionKeptOn ==
  /\ Receiving
  /\ UNCHANGED vars

\* recv gives nothing, or raises: closed, reset, timed out.
ConnectionLost ==
  /\ Receiving
  /\ pc' = "lost"
  /\ UNCHANGED <<tid, request, answer, remaining, receives, result>>

\* Mutant of LengthAllowed: the unit byte is not counted.
LengthAllowedWithoutUnit(length) == length \in {2, 2 * request.count + 2}

\* Mutant of LengthAllowed: any length is.
LengthAllowedAlways(length) == length > 0

\* _validate_mbap_response_length: the unit byte with an exception's two
\* bytes, or with function code, byte count and the words.
LengthAllowed(length) == length \in {3, 2 * request.count + 3}

HeaderAccepted ==
  /\ answer.tid = tid
  /\ answer.protocol = 0
  /\ answer.unit = request.unit
  /\ LengthAllowed(answer.length)

CheckHeader ==
  /\ pc = "header"
  /\ remaining = 0
  /\ IF HeaderAccepted
     THEN pc' = "body" /\ remaining' = answer.length - 1
     ELSE pc' = "protocol" /\ UNCHANGED remaining
  /\ UNCHANGED <<tid, request, answer, receives, result>>

Pdu == SubSeq(answer.body, 1, answer.length - 1)

\* Mutant of PduAccepted: function code and byte count are taken for granted.
PduAcceptedUnread == Len(Pdu) = 2 * request.count + 2

\* An exception (131) and any other function code than 3 are refused.
PduAccepted ==
  /\ Pdu[1] = 3
  /\ Pdu[2] = 2 * request.count
  /\ Len(Pdu) = Pdu[2] + 2

\* Big-endian words.
Words(bytes) == [k \in 1 .. Len(bytes) \div 2 |-> 256 * bytes[2 * k - 1] + bytes[2 * k]]

\* _parse_read_holding_registers_response
Parse ==
  /\ pc = "body"
  /\ remaining = 0
  /\ IF PduAccepted
     THEN pc' = "values" /\ result' = Words(SubSeq(Pdu, 3, Len(Pdu)))
     ELSE pc' = "protocol" /\ UNCHANGED result
  /\ UNCHANGED <<tid, request, answer, remaining, receives>>

Next ==
  \/ NewClient
  \/ \E r \in Requests : Refuse(r) \/ ConnectFails(r) \/ Send(r)
  \/ Receive \/ ConnectionLost \/ CheckHeader \/ Parse

Spec == Init /\ [][Next]_vars

\* The process runs, and recv returns: the socket has a time-out.
FairSpec == Spec /\ WF_vars(Receive \/ ConnectionLost) /\ WF_vars(CheckHeader) /\ WF_vars(Parse)

-----------------------------------------------------------------------------
(* The client's state has its type, the transaction id within its 16 bits
   (read_holding_registers). *)
TypeOK ==
  /\ pc \in {"idle", "header", "body", "values", "refused", "lost", "protocol"}
  /\ tid \in 0 .. TidSize - 1
  /\ request \in Requests
  /\ answer \in Answers \union {NoAnswer}
  /\ remaining \in Nat
  /\ receives \in Nat
  /\ result \in Seq(Nat)

\* The protocol's answer to this request: its header, and a PDU of function
\* code 3, byte count and words.
AnswerHeader ==
  /\ answer.tid = tid
  /\ answer.protocol = 0
  /\ answer.unit = request.unit
  /\ answer.length = 2 * request.count + 3

AnswerPdu ==
  /\ Len(answer.body) >= 2 * request.count + 2
  /\ answer.body[1] = 3
  /\ answer.body[2] = 2 * request.count

Carries(words) ==
  /\ Len(words) = request.count
  /\ \A k \in 1 .. request.count :
       /\ words[k] \div 256 = answer.body[2 * k + 1]
       /\ words[k] % 256 = answer.body[2 * k + 2]

(* Whatever the peer sends, in whatever pieces, the words returned are the
   words that an answer to this very request carries, as many as were asked
   for: not those of another read's, a shorter one's or an exception's
   (clients.py's checks of header, length and PDU together). *)
OnlyItsAnswer == pc = "values" => AnswerHeader /\ AnswerPdu /\ Carries(result)

(* An answer that follows the protocol is never refused, however many
   words it has and into how many pieces it falls. *)
GoodAnswerTaken == pc = "protocol" => ~(AnswerHeader /\ AnswerPdu)

(* A read waits for the peer a bounded number of times, each of them no
   longer than the socket's time-out: a peer that trickles its answer, or
   one that announces more than was asked for, cannot hold the cycle
   (_read_exact, _validate_mbap_response_length). *)
WaitsBounded ==
  pc \in {"header", "body", "values", "protocol"} =>
    receives <= HeaderSize + 2 * request.count + 2

(* Every read that was begun ends, with a peer that stops answering at any
   byte (the socket's time-out and _read_exact's empty chunk). *)
ReadEnds == pc = "header" ~> pc \in {"values", "lost", "protocol"}
=============================================================================
