------------------------- MODULE ModbusClientProofs -------------------------
(***************************************************************************)
(* What holds of the Modbus client for every set of requests and whatever  *)
(* bytes a peer answers with.                                              *)
(***************************************************************************)
EXTENDS ModbusClient, SequenceTheorems, TLAPS

LEMMA TidRange ==
  ASSUME NEW n \in Nat \ {0}, NEW t \in Nat
  PROVE  (t + 1) % n \in 0 .. n - 1
  OBVIOUS

\* Two bytes and the word they make.
LEMMA WordBytes ==
  ASSUME NEW high \in 0 .. 255, NEW low \in 0 .. 255
  PROVE  /\ 256 * high + low \in Nat
         /\ (256 * high + low) \div 256 = high
         /\ (256 * high + low) % 256 = low
  OBVIOUS

LEMMA ByteAt ==
  ASSUME NEW s \in Seq(0 .. 255), NEW i \in 1 .. Len(s)
  PROVE  s[i] \in 0 .. 255
<1> DEFINE Byte == 0 .. 255
<1>1. s \in Seq(Byte)
  OBVIOUS
<1> HIDE DEF Byte
<1>2. s[i] \in Byte
  BY <1>1, ElementOfSeq
<1> QED
  BY <1>2 DEF Byte

LEMMA PrefixPart ==
  ASSUME NEW s \in Seq(0 .. 255), NEW n \in Nat, n <= Len(s)
  PROVE  /\ SubSeq(s, 1, n) \in Seq(0 .. 255)
         /\ Len(SubSeq(s, 1, n)) = n
         /\ \A i \in 1 .. n : SubSeq(s, 1, n)[i] = s[i] /\ s[i] \in 0 .. 255
<1> DEFINE Byte == 0 .. 255
<1>0. s \in Seq(Byte)
  OBVIOUS
<1> HIDE DEF Byte
<1>1. ASSUME NEW i \in 1 .. n
      PROVE  s[i] \in Byte
  <2>1. i \in 1 .. Len(s)
    BY <1>0, LenProperties
  <2> QED
    BY <1>0, <2>1, ElementOfSeq
<1>2. /\ SubSeq(s, 1, n) \in Seq(Byte)
      /\ Len(SubSeq(s, 1, n)) = IF 1 <= n THEN n - 1 + 1 ELSE 0
      /\ \A i \in 1 .. n - 1 + 1 : SubSeq(s, 1, n)[i] = s[1 + i - 1]
  BY <1>1, SubSeqProperties
<1> QED
  BY <1>1, <1>2 DEF Byte

\* What follows the function code and the byte count.
LEMMA DataPart ==
  ASSUME NEW s \in Seq(0 .. 255), NEW n \in Nat, Len(s) = 2 * n + 2
  PROVE  /\ SubSeq(s, 3, Len(s)) \in Seq(0 .. 255)
         /\ Len(SubSeq(s, 3, Len(s))) = 2 * n
         /\ \A i \in 1 .. 2 * n : SubSeq(s, 3, Len(s))[i] = s[i + 2]
<1> DEFINE Byte == 0 .. 255
<1>0. s \in Seq(Byte)
  OBVIOUS
<1> HIDE DEF Byte
<1>1. ASSUME NEW i \in 3 .. Len(s)
      PROVE  s[i] \in Byte
  <2>1. i \in 1 .. Len(s)
    OBVIOUS
  <2> QED
    BY <1>0, <2>1, ElementOfSeq
<1>2. /\ SubSeq(s, 3, Len(s)) \in Seq(Byte)
      /\ Len(SubSeq(s, 3, Len(s))) = IF 3 <= Len(s) THEN Len(s) - 3 + 1 ELSE 0
      /\ \A i \in 1 .. Len(s) - 3 + 1 : SubSeq(s, 3, Len(s))[i] = s[3 + i - 1]
  BY <1>1, SubSeqProperties
<1>3. Len(s) - 3 + 1 = 2 * n
  OBVIOUS
<1>4. \A i \in 1 .. 2 * n : 3 + i - 1 = i + 2
  OBVIOUS
<1> QED
  BY <1>2, <1>3, <1>4 DEF Byte

LEMMA WordsOfBytes ==
  ASSUME NEW bytes \in Seq(0 .. 255), NEW n \in Nat, Len(bytes) = 2 * n
  PROVE  /\ Words(bytes) \in Seq(Nat)
         /\ Len(Words(bytes)) = n
         /\ \A k \in 1 .. n : /\ Words(bytes)[k] \div 256 = bytes[2 * k - 1]
                             /\ Words(bytes)[k] % 256 = bytes[2 * k]
<1>1. (2 * n) \div 2 = n
  OBVIOUS
<1>2. Words(bytes) = [k \in 1 .. n |-> 256 * bytes[2 * k - 1] + bytes[2 * k]]
  BY <1>1 DEF Words
<1>3. ASSUME NEW k \in 1 .. n
      PROVE  /\ 256 * bytes[2 * k - 1] + bytes[2 * k] \in Nat
             /\ (256 * bytes[2 * k - 1] + bytes[2 * k]) \div 256 = bytes[2 * k - 1]
             /\ (256 * bytes[2 * k - 1] + bytes[2 * k]) % 256 = bytes[2 * k]
  <2>1. 2 * k - 1 \in 1 .. Len(bytes) /\ 2 * k \in 1 .. Len(bytes)
    OBVIOUS
  <2> DEFINE high == bytes[2 * k - 1]
             low  == bytes[2 * k]
  <2>2. high \in 0 .. 255
    BY <2>1, ByteAt
  <2>3. low \in 0 .. 255
    BY <2>1, ByteAt
  <2> HIDE DEF high, low
  <2>4. /\ 256 * high + low \in Nat
        /\ (256 * high + low) \div 256 = high
        /\ (256 * high + low) % 256 = low
    BY <2>2, <2>3, WordBytes
  <2> QED
    BY <2>4 DEF high, low
<1>4. Words(bytes) \in Seq(Nat) /\ Len(Words(bytes)) = n
  BY <1>2, <1>3
<1> QED
  BY <1>2, <1>3, <1>4

LEMMA AllowedCount ==
  ASSUME NEW r \in Requests, RequestAllowed(r)
  PROVE  r.count \in Nat /\ r.count >= 1
<1>1. r \in [start : Int, count : Int, unit : Int]
  BY ClientAssumption
<1>2. r.count \in Int
  BY <1>1
<1>3. r.count \in 1 .. MaxReadCount
  BY DEF RequestAllowed, ReadAllowed
<1> QED
  BY <1>2, <1>3 DEF MaxReadCount

-----------------------------------------------------------------------------
(* In the middle of a read: the request was allowed, no byte was received  *)
(* twice or out of nothing, and each receive was worth one byte at least.  *)
Reading ==
  /\ pc \in {"header", "body", "values", "protocol"} =>
       /\ RequestAllowed(request)
       /\ answer \in Answers
  /\ pc = "header" => receives + remaining <= HeaderSize
  /\ pc = "body" =>
       /\ HeaderAccepted
       /\ receives + remaining <= HeaderSize + answer.length - 1
       /\ answer.length - 1 - remaining <= Len(answer.body)

ClientInv ==
  /\ TypeOK
  /\ Reading
  /\ OnlyItsAnswer
  /\ GoodAnswerTaken
  /\ WaitsBounded

LEMMA ClientInit == Init => ClientInv
<1> SUFFICES ASSUME Init
             PROVE  ClientInv
  OBVIOUS
<1>1. TypeOK
  BY ClientAssumption DEF Init, TypeOK
<1> QED
  BY <1>1 DEF Init, ClientInv, Reading, OnlyItsAnswer, GoodAnswerTaken, WaitsBounded

\* The fields of an answer, typed.
LEMMA AnswerFacts ==
  ASSUME NEW a \in Answers
  PROVE  /\ a.length \in Nat
         /\ a.body \in Seq(0 .. 255)
         /\ Len(a.body) \in Nat
<1>1. a.length \in Lengths /\ a.body \in Bodies
  BY DEF Answers
<1>2. a.length \in Nat /\ a.body \in Seq(0 .. 255)
  BY <1>1, ClientAssumption
<1> QED
  BY <1>2

\* What has been received in full, and what is made of it.
LEMMA PduFacts ==
  ASSUME ClientInv, pc = "body", remaining = 0
  PROVE  /\ answer.length - 1 <= Len(answer.body)
         /\ answer.length >= 3
         /\ Pdu \in Seq(0 .. 255)
         /\ Len(Pdu) = answer.length - 1
         /\ \A i \in 1 .. answer.length - 1 :
              Pdu[i] = answer.body[i] /\ answer.body[i] \in 0 .. 255
<1>1. answer \in Answers /\ RequestAllowed(request) /\ HeaderAccepted /\ request \in Requests
  BY DEF ClientInv, Reading, TypeOK
<1>2. answer.length \in Nat /\ answer.body \in Seq(0 .. 255) /\ Len(answer.body) \in Nat
  BY <1>1, AnswerFacts
<1>3. request.count \in Nat /\ request.count >= 1
  BY <1>1, AllowedCount
<1>4. answer.length >= 3
  BY <1>1, <1>2, <1>3 DEF HeaderAccepted, LengthAllowed
<1>5. answer.length - 1 <= Len(answer.body)
  BY <1>2 DEF ClientInv, Reading
<1>6. answer.length - 1 \in Nat
  BY <1>2, <1>4
<1> QED
  BY <1>2, <1>4, <1>5, <1>6, PrefixPart DEF Pdu

\* An accepted PDU is the answer's, and its words are the answer's words.
LEMMA ParsedWords ==
  ASSUME ClientInv, pc = "body", remaining = 0, PduAccepted,
         NEW words, words = Words(SubSeq(Pdu, 3, Len(Pdu)))
  PROVE  words \in Seq(Nat) /\ AnswerHeader /\ AnswerPdu /\ Carries(words)
<1>1. answer \in Answers /\ RequestAllowed(request) /\ HeaderAccepted /\ request \in Requests
  BY DEF ClientInv, Reading, TypeOK
<1>2. answer.length \in Nat /\ answer.body \in Seq(0 .. 255) /\ Len(answer.body) \in Nat
  BY <1>1, AnswerFacts
<1>3. request.count \in Nat /\ request.count >= 1
  BY <1>1, AllowedCount
<1>4. Len(Pdu) = 2 * request.count + 2 /\ answer.length = 2 * request.count + 3
  <2>1. Len(Pdu) = 2 * request.count + 2
    <3>1. Pdu[2] = 2 * request.count /\ Len(Pdu) = Pdu[2] + 2
      BY DEF PduAccepted
    <3> QED
      BY <3>1
  <2>2. Len(Pdu) = answer.length - 1
    BY PduFacts
  <2>3. answer.length = Len(Pdu) + 1
    BY <1>2, <2>2
  <2> QED
    BY <1>3, <2>1, <2>3
<1>5. AnswerHeader
  BY <1>1, <1>4 DEF AnswerHeader, HeaderAccepted
<1>6. AnswerPdu
  <2>1. 1 \in 1 .. answer.length - 1 /\ 2 \in 1 .. answer.length - 1
    BY <1>3, <1>4
  <2>2. Pdu[1] = answer.body[1] /\ Pdu[2] = answer.body[2]
    BY <2>1, PduFacts
  <2>3. answer.length - 1 <= Len(answer.body)
    BY PduFacts
  <2>4. Pdu[1] = 3 /\ Pdu[2] = 2 * request.count
    BY DEF PduAccepted
  <2>5. 2 * request.count + 2 <= Len(answer.body)
    BY <1>3, <1>4, <2>3
  <2>6. Len(answer.body) >= 2 * request.count + 2
    BY <1>2, <1>3, <2>5
  <2> QED
    BY <2>2, <2>4, <2>6 DEF AnswerPdu
<1>7. Pdu \in Seq(0 .. 255)
  BY PduFacts
<1> DEFINE data == SubSeq(Pdu, 3, Len(Pdu))
<1>8. /\ data \in Seq(0 .. 255)
      /\ Len(data) = 2 * request.count
      /\ \A i \in 1 .. 2 * request.count : data[i] = Pdu[i + 2]
  BY <1>3, <1>4, <1>7, DataPart
<1> HIDE DEF data
<1>9. /\ words \in Seq(Nat)
      /\ Len(words) = request.count
      /\ \A k \in 1 .. request.count :
           words[k] \div 256 = data[2 * k - 1] /\ words[k] % 256 = data[2 * k]
  <2>1. words = Words(data)
    BY DEF data
  <2>2. request.count \in Nat /\ data \in Seq(0 .. 255) /\ Len(data) = 2 * request.count
    BY <1>3, <1>8
  <2>3. /\ Words(data) \in Seq(Nat)
        /\ Len(Words(data)) = request.count
        /\ \A k \in 1 .. request.count :
             /\ Words(data)[k] \div 256 = data[2 * k - 1]
             /\ Words(data)[k] % 256 = data[2 * k]
    BY <2>2, WordsOfBytes
  <2> QED
    BY <2>1, <2>3
<1>10. ASSUME NEW k \in 1 .. request.count
       PROVE  /\ words[k] \div 256 = answer.body[2 * k + 1]
              /\ words[k] % 256 = answer.body[2 * k + 2]
  <2>1. 2 * k - 1 \in 1 .. 2 * request.count /\ 2 * k \in 1 .. 2 * request.count
    BY <1>3
  <2>2. data[2 * k - 1] = Pdu[(2 * k - 1) + 2] /\ data[2 * k] = Pdu[2 * k + 2]
    BY <1>8, <2>1
  <2>3. /\ (2 * k - 1) + 2 = 2 * k + 1
        /\ 2 * k + 1 \in 1 .. answer.length - 1
        /\ 2 * k + 2 \in 1 .. answer.length - 1
    BY <1>3, <1>4
  <2>4. Pdu[2 * k + 1] = answer.body[2 * k + 1] /\ Pdu[2 * k + 2] = answer.body[2 * k + 2]
    BY <2>3, PduFacts
  <2> QED
    BY <1>9, <2>2, <2>3, <2>4
<1> QED
  BY <1>5, <1>6, <1>9, <1>10 DEF Carries

-----------------------------------------------------------------------------
(* A refused PDU is not the answer to the request.                         *)
LEMMA RefusedPdu ==
  ASSUME ClientInv, pc = "body", remaining = 0, ~PduAccepted
  PROVE  ~(AnswerHeader /\ AnswerPdu)
<1> SUFFICES ASSUME AnswerHeader, AnswerPdu
             PROVE  PduAccepted
  OBVIOUS
<1>1. answer \in Answers /\ RequestAllowed(request) /\ request \in Requests
  BY DEF ClientInv, Reading, TypeOK
<1>2. answer.length \in Nat
  BY <1>1, AnswerFacts
<1>3. request.count \in Nat /\ request.count >= 1
  BY <1>1, AllowedCount
<1>4. answer.length = 2 * request.count + 3
  BY DEF AnswerHeader
<1>5. Len(Pdu) = 2 * request.count + 2
  <2>1. Len(Pdu) = answer.length - 1
    BY PduFacts
  <2> QED
    BY <1>3, <1>4, <2>1
<1>6. 1 \in 1 .. answer.length - 1 /\ 2 \in 1 .. answer.length - 1
  BY <1>3, <1>4
<1>7. Pdu[1] = answer.body[1] /\ Pdu[2] = answer.body[2]
  BY <1>6, PduFacts
<1>8. Pdu[1] = 3 /\ Pdu[2] = 2 * request.count
  BY <1>7 DEF AnswerPdu
<1>9. Len(Pdu) = Pdu[2] + 2
  BY <1>5, <1>8
<1> QED
  BY <1>8, <1>9 DEF PduAccepted

\* A refused header is not one either: its length is the answer's.
LEMMA RefusedHeader ==
  ASSUME ~HeaderAccepted
  PROVE  ~AnswerHeader
  BY DEF HeaderAccepted, AnswerHeader, LengthAllowed

LEMMA NextTidTyped ==
  ASSUME tid \in 0 .. TidSize - 1
  PROVE  NextTid \in 0 .. TidSize - 1
<1>1. TidSize \in Nat \ {0}
  BY ClientAssumption
<1>2. tid \in Nat
  BY <1>1
<1> QED
  BY <1>1, <1>2, TidRange DEF NextTid

-----------------------------------------------------------------------------
\* Every step keeps the types.
LEMMA TypeStep == ClientInv /\ [Next]_vars => TypeOK'
<1> SUFFICES ASSUME ClientInv, [Next]_vars
             PROVE  TypeOK'
  OBVIOUS
<1> USE DEF TypeOK
<1>0. TypeOK
  BY DEF ClientInv
<1>1. CASE NewClient
  <2>1. 0 \in 0 .. TidSize - 1
    BY ClientAssumption
  <2> QED
    BY <1>0, <1>1, <2>1 DEF NewClient
<1>2. ASSUME NEW r \in Requests, Refuse(r)
      PROVE  TypeOK'
  BY <1>0, <1>2 DEF Refuse
<1>3. ASSUME NEW r \in Requests, ConnectFails(r)
      PROVE  TypeOK'
  <2>1. NextTid \in 0 .. TidSize - 1
    BY <1>0, NextTidTyped
  <2> QED
    BY <1>0, <1>3, <2>1 DEF ConnectFails
<1>4. ASSUME NEW r \in Requests, Send(r)
      PROVE  TypeOK'
  <2>1. NextTid \in 0 .. TidSize - 1
    BY <1>0, NextTidTyped
  <2> QED
    BY <1>0, <1>4, <2>1 DEF Send, HeaderSize
<1>5. CASE Receive
  <2> PICK n \in 1 .. remaining : remaining' = remaining - n
    BY <1>5 DEF Receive
  <2>1. remaining' \in Nat /\ receives' \in Nat
    BY <1>0, <1>5 DEF Receive
  <2> QED
    BY <1>0, <1>5, <2>1 DEF Receive
<1>6. CASE ConnectionLost
  BY <1>0, <1>6 DEF ConnectionLost
<1>7. CASE CheckHeader
  <2>1. CASE HeaderAccepted
    <3>1. answer \in Answers /\ RequestAllowed(request)
      BY <1>7 DEF CheckHeader, ClientInv, Reading
    <3>2. answer.length \in Nat /\ request.count \in Nat
      BY <1>0, <3>1, AnswerFacts, AllowedCount
    <3>3. answer.length - 1 \in Nat
      BY <2>1, <3>2 DEF HeaderAccepted, LengthAllowed
    <3> QED
      BY <1>0, <1>7, <2>1, <3>3 DEF CheckHeader
  <2>2. CASE ~HeaderAccepted
    BY <1>0, <1>7, <2>2 DEF CheckHeader
  <2> QED
    BY <2>1, <2>2
<1>8. CASE Parse
  <2>1. CASE PduAccepted
    <3>1. Words(SubSeq(Pdu, 3, Len(Pdu))) \in Seq(Nat)
      BY <1>8, <2>1, ParsedWords DEF Parse
    <3> QED
      BY <1>0, <1>8, <2>1, <3>1 DEF Parse
  <2>2. CASE ~PduAccepted
    BY <1>0, <1>8, <2>2 DEF Parse
  <2> QED
    BY <2>1, <2>2
<1>9. CASE UNCHANGED vars
  BY <1>0, <1>9 DEF vars
<1> QED
  BY <1>1, <1>2, <1>3, <1>4, <1>5, <1>6, <1>7, <1>8, <1>9 DEF Next

\* What the middle of a read keeps.
LEMMA ReadingStep == ClientInv /\ [Next]_vars => Reading'
<1> SUFFICES ASSUME ClientInv, [Next]_vars
             PROVE  Reading'
  OBVIOUS
<1>0. TypeOK /\ Reading
  BY DEF ClientInv
<1>1. CASE NewClient
  BY <1>1 DEF NewClient, Reading
<1>2. ASSUME NEW r \in Requests, Refuse(r)
      PROVE  Reading'
  BY <1>2 DEF Refuse, Reading
<1>3. ASSUME NEW r \in Requests, ConnectFails(r)
      PROVE  Reading'
  BY <1>3 DEF ConnectFails, Reading
<1>4. ASSUME NEW r \in Requests, Send(r)
      PROVE  Reading'
  <2>1. /\ pc' = "header" /\ request' = r /\ answer' \in Answers
        /\ remaining' = HeaderSize /\ receives' = 0 /\ RequestAllowed(r)
    BY <1>4 DEF Send
  <2>2. RequestAllowed(request)'
    BY <2>1 DEF RequestAllowed
  <2>3. (answer \in Answers)'
    BY <2>1 DEF Answers
  <2>4. receives' + remaining' <= HeaderSize
    BY <2>1 DEF HeaderSize
  <2> QED
    BY <2>1, <2>2, <2>3, <2>4 DEF Reading
<1>5. CASE Receive
  <2> PICK n \in 1 .. remaining : n <= Unreceived /\ remaining' = remaining - n
    BY <1>5 DEF Receive
  <2>1. /\ UNCHANGED <<pc, tid, request, answer>>
        /\ receives' = receives + 1
        /\ pc \in {"header", "body"}
    BY <1>5 DEF Receive, Receiving
  <2>2. answer \in Answers /\ RequestAllowed(request)
    BY <1>0, <2>1 DEF Reading
  <2>3. remaining \in Nat /\ receives \in Nat /\ request \in Requests
    BY <1>0 DEF TypeOK
  <2>4. answer.length \in Nat /\ Len(answer.body) \in Nat
    BY <2>2, AnswerFacts
  <2>5. (answer \in Answers)' /\ RequestAllowed(request)'
    BY <2>1, <2>2 DEF RequestAllowed, Answers
  <2>6. receives' + remaining' <= receives + remaining
    BY <2>1, <2>3
  <2>7. CASE pc = "header"
    <3>1. receives' + remaining' <= HeaderSize
      BY <1>0, <2>1, <2>3, <2>7 DEF Reading, HeaderSize
    <3> QED
      BY <2>1, <2>5, <2>7, <3>1 DEF Reading
  <2>8. CASE pc = "body"
    <3>1. HeaderAccepted /\ receives + remaining <= HeaderSize + answer.length - 1
      BY <1>0, <2>8 DEF Reading
    <3>2. HeaderAccepted'
      BY <2>1, <3>1 DEF HeaderAccepted, LengthAllowed
    <3>3. receives' + remaining' <= HeaderSize + answer.length' - 1
      BY <2>1, <2>3, <2>4, <3>1 DEF HeaderSize
    <3>4. n <= Len(answer.body) - (answer.length - 1 - remaining)
      BY <2>8 DEF Unreceived
    <3>5. answer.length' - 1 - remaining' <= Len(answer.body')
      BY <2>1, <2>3, <2>4, <3>4
    <3> QED
      BY <2>1, <2>5, <2>8, <3>2, <3>3, <3>5 DEF Reading
  <2> QED
    BY <2>1, <2>7, <2>8
<1>6. CASE ConnectionLost
  BY <1>6 DEF ConnectionLost, Reading
<1>7. CASE CheckHeader
  <2>1. /\ pc = "header" /\ remaining = 0
        /\ UNCHANGED <<tid, request, answer, receives>>
    BY <1>7 DEF CheckHeader
  <2>2. answer \in Answers /\ RequestAllowed(request)
    BY <1>0, <2>1 DEF Reading
  <2>3. receives \in Nat
    BY <1>0 DEF TypeOK
  <2>4. answer.length \in Nat /\ Len(answer.body) \in Nat
    BY <2>2, AnswerFacts
  <2>5. (answer \in Answers)' /\ RequestAllowed(request)'
    BY <2>1, <2>2 DEF RequestAllowed, Answers
  <2>6. CASE HeaderAccepted
    <3>1. pc' = "body" /\ remaining' = answer.length - 1
      BY <1>7, <2>6 DEF CheckHeader
    <3>2. HeaderAccepted'
      BY <2>1, <2>6 DEF HeaderAccepted, LengthAllowed
    <3>3. receives <= HeaderSize
      BY <1>0, <2>1, <2>3 DEF Reading, HeaderSize
    <3>4. receives' + remaining' <= HeaderSize + answer.length' - 1
      BY <2>1, <2>3, <2>4, <3>1, <3>3 DEF HeaderSize
    <3>5. answer.length' - 1 - remaining' <= Len(answer.body')
      BY <2>1, <2>4, <3>1
    <3> QED
      BY <2>5, <3>1, <3>2, <3>4, <3>5 DEF Reading
  <2>7. CASE ~HeaderAccepted
    BY <1>7, <2>5, <2>7 DEF CheckHeader, Reading
  <2> QED
    BY <2>6, <2>7
<1>8. CASE Parse
  <2>1. pc = "body" /\ UNCHANGED <<request, answer>> /\ pc' \in {"values", "protocol"}
    BY <1>8 DEF Parse
  <2>2. answer \in Answers /\ RequestAllowed(request)
    BY <1>0, <2>1 DEF Reading
  <2>3. (answer \in Answers)' /\ RequestAllowed(request)'
    BY <2>1, <2>2 DEF RequestAllowed, Answers
  <2> QED
    BY <2>1, <2>3 DEF Reading
<1>9. CASE UNCHANGED vars
  BY <1>0, <1>9 DEF vars, Reading, RequestAllowed, Answers, HeaderAccepted, LengthAllowed
<1> QED
  BY <1>1, <1>2, <1>3, <1>4, <1>5, <1>6, <1>7, <1>8, <1>9 DEF Next

\* What is returned, and what is refused as an answer.
LEMMA AnswerStep == ClientInv /\ [Next]_vars => (OnlyItsAnswer /\ GoodAnswerTaken)'
<1> SUFFICES ASSUME ClientInv, [Next]_vars
             PROVE  (OnlyItsAnswer /\ GoodAnswerTaken)'
  OBVIOUS
<1>0. OnlyItsAnswer /\ GoodAnswerTaken
  BY DEF ClientInv
<1>1. CASE CheckHeader
  <2>1. CASE HeaderAccepted
    BY <1>1, <2>1 DEF CheckHeader, OnlyItsAnswer, GoodAnswerTaken
  <2>2. CASE ~HeaderAccepted
    <3>1. pc' = "protocol" /\ UNCHANGED <<tid, request, answer>>
      BY <1>1, <2>2 DEF CheckHeader
    <3>2. ~AnswerHeader
      BY <2>2, RefusedHeader
    <3>3. ~AnswerHeader'
      BY <3>1, <3>2 DEF AnswerHeader
    <3> QED
      BY <3>1, <3>3 DEF OnlyItsAnswer, GoodAnswerTaken
  <2> QED
    BY <2>1, <2>2
<1>2. CASE Parse
  <2>1. pc = "body" /\ remaining = 0 /\ UNCHANGED <<tid, request, answer>>
    BY <1>2 DEF Parse
  <2>2. CASE PduAccepted
    <3>1. pc' = "values" /\ result' = Words(SubSeq(Pdu, 3, Len(Pdu)))
      BY <1>2, <2>2 DEF Parse
    <3>2. AnswerHeader /\ AnswerPdu /\ Carries(result')
      BY <2>1, <2>2, <3>1, ParsedWords
    <3>3. AnswerHeader' /\ AnswerPdu' /\ Carries(result)'
      BY <2>1, <3>2 DEF AnswerHeader, AnswerPdu, Carries
    <3> QED
      BY <3>1, <3>3 DEF OnlyItsAnswer, GoodAnswerTaken
  <2>3. CASE ~PduAccepted
    <3>1. pc' = "protocol"
      BY <1>2, <2>3 DEF Parse
    <3>2. ~(AnswerHeader /\ AnswerPdu)
      BY <2>1, <2>3, RefusedPdu
    <3>3. ~(AnswerHeader' /\ AnswerPdu')
      BY <2>1, <3>2 DEF AnswerHeader, AnswerPdu
    <3> QED
      BY <3>1, <3>3 DEF OnlyItsAnswer, GoodAnswerTaken
  <2> QED
    BY <2>2, <2>3
<1>3. CASE UNCHANGED vars
  BY <1>0, <1>3
  DEF vars, OnlyItsAnswer, GoodAnswerTaken, AnswerHeader, AnswerPdu, Carries
<1>4. ASSUME NEW r \in Requests, Refuse(r) \/ ConnectFails(r) \/ Send(r)
      PROVE  pc' \notin {"values", "protocol"}
  BY <1>4 DEF Refuse, ConnectFails, Send
<1>5. CASE NewClient \/ Receive \/ ConnectionLost
  <2>1. pc' \notin {"values", "protocol"}
    BY <1>5 DEF NewClient, Receive, ConnectionLost, Receiving
  <2> QED
    BY <2>1 DEF OnlyItsAnswer, GoodAnswerTaken
<1>6. ASSUME NEW r \in Requests, Refuse(r) \/ ConnectFails(r) \/ Send(r)
      PROVE  (OnlyItsAnswer /\ GoodAnswerTaken)'
  BY <1>4, <1>6 DEF OnlyItsAnswer, GoodAnswerTaken
<1> QED
  BY <1>1, <1>2, <1>3, <1>5, <1>6 DEF Next

LEMMA FirstSummand ==
  ASSUME NEW a \in Nat, NEW b \in Nat, NEW c \in Nat, a + b <= c
  PROVE  a <= c
  OBVIOUS

\* Within the header and the body the bound is Reading's; afterwards nothing
\* is received.
LEMMA WaitsStep == ClientInv /\ TypeOK' /\ Reading' /\ [Next]_vars => WaitsBounded'
<1> SUFFICES ASSUME ClientInv, TypeOK', Reading', [Next]_vars
             PROVE  WaitsBounded'
  OBVIOUS
<1>1. CASE CheckHeader \/ Parse \/ UNCHANGED vars
  <2>1. /\ UNCHANGED <<request, receives>>
        /\ pc' = pc \/ pc \in {"header", "body"}
    BY <1>1 DEF CheckHeader, Parse, vars
  <2>2. WaitsBounded
    BY DEF ClientInv
  <2> QED
    BY <2>1, <2>2 DEF WaitsBounded
<1>2. ASSUME pc' \in {"header", "body"}
      PROVE  WaitsBounded'
  <2>1. (answer \in Answers)' /\ RequestAllowed(request)' /\ (request \in Requests)'
    BY <1>2 DEF Reading, TypeOK
  <2>2. answer' \in Answers /\ RequestAllowed(request') /\ request' \in Requests
    BY <2>1 DEF Answers, RequestAllowed
  <2>3. answer'.length \in Nat /\ request'.count \in Nat /\ request'.count >= 1
    BY <2>2, AnswerFacts, AllowedCount
  <2>4. remaining' \in Nat /\ receives' \in Nat
    BY DEF TypeOK
  <2>5. CASE pc' = "header"
    <3>1. receives' + remaining' <= 7
      BY <2>5 DEF Reading, HeaderSize
    <3>2. receives' <= 7
      BY <2>4, <3>1, FirstSummand
    <3>3. receives' <= 7 + 2 * request'.count + 2
      BY <2>3, <2>4, <3>2
    <3> QED
      BY <3>3 DEF WaitsBounded, HeaderSize
  <2>6. CASE pc' = "body"
    <3>1. /\ answer'.length \in {3, 2 * request'.count + 3}
          /\ receives' + remaining' <= HeaderSize + answer'.length - 1
      BY <2>6 DEF Reading, HeaderAccepted, LengthAllowed, HeaderSize
    <3>2. answer'.length - 1 <= 2 * request'.count + 2
      BY <2>3, <3>1
    <3> QED
      BY <2>3, <2>4, <2>6, <3>1, <3>2 DEF WaitsBounded, HeaderSize
  <2> QED
    BY <1>2, <2>5, <2>6
<1>3. ASSUME pc' \in {"idle", "refused", "lost"}
      PROVE  WaitsBounded'
  BY <1>3 DEF WaitsBounded
<1>4. ASSUME NEW r \in Requests, Refuse(r) \/ ConnectFails(r) \/ Send(r)
      PROVE  pc' \in {"header", "body", "idle", "refused", "lost"}
  BY <1>4 DEF Refuse, ConnectFails, Send
<1>5. CASE NewClient \/ Receive \/ ConnectionLost
  <2>1. pc' \in {"header", "body", "idle", "refused", "lost"}
    BY <1>5 DEF NewClient, Receive, ConnectionLost, Receiving
  <2> QED
    BY <1>2, <1>3, <2>1
<1>6. ASSUME NEW r \in Requests, Refuse(r) \/ ConnectFails(r) \/ Send(r)
      PROVE  WaitsBounded'
  BY <1>2, <1>3, <1>4, <1>6
<1> QED
  BY <1>1, <1>5, <1>6 DEF Next

-----------------------------------------------------------------------------
(* ClientInv is inductive: what was checked of the answer so far stays     *)
(* true of the answer the words are then taken from.                       *)
LEMMA ClientInvariant == Spec => []ClientInv
<1>1. ClientInv /\ [Next]_vars => ClientInv'
  BY TypeStep, ReadingStep, AnswerStep, WaitsStep DEF ClientInv
<1> QED
  BY <1>1, ClientInit, PTL DEF Spec

(* The client's state always has its type: the transaction id stays within
   its 16 bits for every number of reads (read_holding_registers). *)
THEOREM ClientTypes == Spec => []TypeOK
  BY ClientInvariant, PTL DEF ClientInv

(* For every set of requests and whatever bytes a peer sends in whatever
   pieces: the words returned are those that an answer to this very request
   carries, as many as were asked for (clients.py's header, length and PDU
   checks). *)
THEOREM OnlyItsAnswerReturned == Spec => []OnlyItsAnswer
  BY ClientInvariant, PTL DEF ClientInv

(* An answer that follows the protocol is never refused, for every allowed
   number of words (the same checks, not stricter than the protocol). *)
THEOREM GoodAnswerNeverRefused == Spec => []GoodAnswerTaken
  BY ClientInvariant, PTL DEF ClientInv

(* A read calls recv at most as often as its header and its words have
   bytes, so that a cycle's time is bounded by a number of time-outs
   (_read_exact, _validate_mbap_response_length). *)
THEOREM ReadWaitsBounded == Spec => []WaitsBounded
  BY ClientInvariant, PTL DEF ClientInv
=============================================================================
