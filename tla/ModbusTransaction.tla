-------------------------- MODULE ModbusTransaction --------------------------
(* One request after another over ModbusMasterSerialPort: the thread that    *)
(* makes a request hands it to the serial port's worker and waits; the       *)
(* worker records and writes it; the device answers, perhaps late or not at  *)
(* all; the IO thread puts the answer together from the chunks it gets; the  *)
(* requesting thread matches it.  ModbusProtocol's builders and parsers are  *)
(* here by what they match an answer by.                                     *)
(*                                                                           *)
(* A request is its number.  Its shape is whatever an answer repeats of it   *)
(* besides the transaction id: unit, function, byte count, and for writes    *)
(* address and value.  A frame is two chunks: until the first is there, its  *)
(* length is not known.                                                      *)
EXTENDS ModbusFrameLog, Integers

CONSTANTS
  Shapes,      \* shapes of typed requests
  LateOver,    \* transports over which an answer may come after its timeout
  Ids,         \* number of transaction ids, 2^16 in the code
  MaxRequests, \* bound: requests made
  MaxLosses    \* bound: times the line loses what is on it

ASSUME TransactionAssumption ==
  /\ "custom" \notin Shapes /\ LateOver \subseteq {"rtu", "tcp"}
  /\ Ids \in Nat \ {0} /\ MaxRequests \in Nat /\ MaxLosses \in Nat

VARIABLES
  transport, \* ToTransport(IsTcp())
  requests,  \* the requests made, each with its shape and transaction id
  ids,       \* sequence_id
  waiting,   \* the last request is in WaitForResponse
  toRecord,  \* what its outcome is about to be recorded as, or "nothing"
  quiet,     \* when it was made, no answer was on its way
  outcome,   \* what came of it: verdict and the request that was answered
  sent,      \* m_SentData: a request or 0
  lastSent,  \* m_LastSentData
  writer,    \* where the serial worker is in OnDataSent
  wire,      \* requests that have been written
  device,    \* requests the device has not dealt with yet
  line,      \* chunks on their way from the device
  losses,    \* times the line has lost what was on it
  raw,       \* m_RawRecvData: chunks
  received   \* m_RecvData: an answer, Junk or None

requester == <<requests, ids, waiting, toRecord, quiet, outcome>>
port == <<sent, lastSent, writer, wire>>
link == <<device, line, losses>>
vars == <<transport, requester, port, link, raw, received, log, panel>>

None == [answers |-> 0, kind |-> "none"]
Junk == [answers |-> 0, kind |-> "junk"]
Answer(r, kind) == [answers |-> r, kind |-> kind]
Kinds == {"values", "exception"}
Answers == [answers : 1 .. MaxRequests, kind : Kinds]
Chunks == [of : Answers, part : {"head", "tail"}]
Current == Len(requests)

Init ==
  /\ transport \in {"rtu", "tcp"}
  /\ requests = <<>> /\ ids = 0 /\ waiting = FALSE /\ quiet = TRUE
  /\ toRecord = "nothing"
  /\ outcome = [verdict |-> "none", answers |-> 0]
  /\ sent = 0 /\ lastSent = 0 /\ writer = "idle" /\ wire = <<>>
  /\ device = <<>> /\ line = <<>> /\ losses = 0
  /\ raw = <<>> /\ received = None
  /\ LogInit

(* Without lateness no answer is under way when a request is made or given *)
(* up.                                                                     *)
Silent == device = <<>> /\ line = <<>>
InTime == transport \in LateOver \/ Silent

-----------------------------------------------------------------------------
(* The requesting thread; m_RequestMutex lets one in at a time.            *)

(* Mutant of Request: the bytes of the last answer are kept.               *)
RequestKeepingBytes(shape) ==
  /\ ~waiting /\ toRecord = "nothing" /\ Current < MaxRequests /\ InTime
  /\ requests' = Append(requests, [shape |-> shape, id |-> ids])
  /\ ids' = IF transport = "tcp" /\ shape # "custom" THEN (ids + 1) % Ids ELSE ids
  /\ waiting' = TRUE /\ quiet' = Silent /\ UNCHANGED <<outcome, toRecord>>
  /\ received' = None
  /\ sent' = Current + 1
  /\ UNCHANGED <<transport, raw, lastSent, writer, wire, link, log, panel>>

(* Mutant of Request: every request has the same transaction id.           *)
RequestSameId(shape) ==
  /\ ~waiting /\ toRecord = "nothing" /\ Current < MaxRequests /\ InTime
  /\ requests' = Append(requests, [shape |-> shape, id |-> ids])
  /\ waiting' = TRUE /\ quiet' = Silent /\ UNCHANGED <<ids, outcome, toRecord>>
  /\ raw' = <<>> /\ received' = None
  /\ sent' = Current + 1
  /\ UNCHANGED <<transport, lastSent, writer, wire, link, log, panel>>

(* A typed request is built with the next transaction id, a custom command *)
(* carries what the user has typed.                                        *)
Request(shape) ==
  /\ ~waiting /\ toRecord = "nothing" /\ Current < MaxRequests /\ InTime
  /\ requests' = Append(requests, [shape |-> shape, id |-> ids])
  /\ ids' = IF transport = "tcp" /\ shape # "custom" THEN (ids + 1) % Ids ELSE ids
  /\ waiting' = TRUE /\ quiet' = Silent /\ UNCHANGED <<outcome, toRecord>>
  /\ raw' = <<>> /\ received' = None
  /\ sent' = Current + 1
  /\ UNCHANGED <<transport, lastSent, writer, wire, link, log, panel>>

(* What the parsers compare.  RTU answers carry no transaction id.         *)
Matches(answer) ==
  LET mine == requests[Current]  theirs == requests[answer.answers]
  IN \/ mine.shape = "custom"
     \/ /\ mine.shape = theirs.shape
        /\ transport = "tcp" => mine.id = theirs.id

Verdict(answer) ==
  IF answer = Junk THEN "rejected"
  ELSE IF answer.kind = "exception" THEN "exception"
  ELSE IF Matches(answer) THEN "accepted" ELSE "rejected"

(* WaitForResponse has an answer: it is taken, parsed, and recorded if     *)
(* recording is on now, in the next step.                                  *)
TakeResponse ==
  /\ waiting /\ received # None
  /\ waiting' = FALSE
  /\ outcome' = [verdict |-> Verdict(received), answers |-> received.answers]
  /\ received' = None
  /\ toRecord' = IF recording THEN "RX" ELSE "nothing"
  /\ UNCHANGED <<transport, requests, ids, quiet, port, link, raw, log, panel>>

(* The timeout, or a stop of the worker that polls.                        *)
GiveUp ==
  /\ waiting /\ received = None /\ InTime
  /\ waiting' = FALSE
  /\ outcome' = [verdict |-> "timeout", answers |-> 0]
  /\ toRecord' = IF recording THEN "timeout" ELSE "nothing"
  /\ UNCHANGED <<transport, requests, ids, quiet, port, link, raw, received,
                 log, panel>>

RecordOutcome ==
  /\ toRecord # "nothing"
  /\ toRecord' = "nothing"
  /\ RecordFrame([dir |-> toRecord,
                  of |-> IF toRecord = "RX" THEN outcome.answers ELSE lastSent])
  /\ UNCHANGED <<transport, requests, ids, waiting, quiet, outcome, port, link,
                 raw, received, panel>>

-----------------------------------------------------------------------------
(* OnDataSent on the serial worker, which does not lock m_SentData.        *)

TrimLog ==
  /\ writer = "idle" /\ sent # 0
  /\ IF recording THEN CheckMaxEntries /\ writer' = "trimmed"
                  ELSE UNCHANGED log /\ writer' = "recorded"
  /\ UNCHANGED <<transport, requester, sent, lastSent, wire, link, raw, received,
                 panel>>

RecordSent ==
  /\ writer = "trimmed"
  /\ writer' = "recorded"
  /\ RecordFrame([dir |-> "TX", of |-> sent])
  /\ UNCHANGED <<transport, requester, sent, lastSent, wire, link, raw, received,
                 panel>>

WriteSent ==
  /\ writer = "recorded"
  /\ writer' = "written"
  /\ wire' = Append(wire, sent) /\ device' = Append(device, sent)
  /\ UNCHANGED <<transport, requester, sent, lastSent, line, losses, raw,
                 received, log, panel>>

(* Mutant of MoveSent: m_SentData is copied and not cleared.               *)
CopySent ==
  /\ writer = "written"
  /\ writer' = "idle"
  /\ lastSent' = sent
  /\ UNCHANGED <<transport, requester, sent, wire, link, raw, received, log,
                 panel>>

MoveSent ==
  /\ writer = "written"
  /\ writer' = "idle"
  /\ lastSent' = sent /\ sent' = 0
  /\ UNCHANGED <<transport, requester, wire, link, raw, received, log, panel>>

(* Mutant of OnDataSent: a request is recorded after it is written.        *)
WriteThenRecord ==
  /\ writer = "trimmed"
  /\ writer' = "to record"
  /\ wire' = Append(wire, sent) /\ device' = Append(device, sent)
  /\ UNCHANGED <<transport, requester, sent, lastSent, line, losses, raw,
                 received, log, panel>>

RecordWritten ==
  /\ writer = "to record"
  /\ writer' = "written"
  /\ RecordFrame([dir |-> "TX", of |-> sent])
  /\ UNCHANGED <<transport, requester, sent, lastSent, wire, link, raw, received,
                 panel>>

OnDataSentSwapped ==
  TrimLog \/ WriteThenRecord \/ RecordWritten \/ WriteSent \/ MoveSent

OnDataSent == TrimLog \/ RecordSent \/ WriteSent \/ MoveSent

-----------------------------------------------------------------------------
(* The device answers what it gets in order, or ignores it.                *)

Respond(kind) ==
  /\ device # <<>>
  /\ device' = Tail(device)
  /\ line' = line \o [i \in 1 .. 2 |-> [of |-> Answer(Head(device), kind),
                                        part |-> <<"head", "tail">>[i]]]
  /\ UNCHANGED <<transport, requester, port, losses, raw, received, log, panel>>

Ignore ==
  /\ device # <<>>
  /\ device' = Tail(device)
  /\ UNCHANGED <<transport, requester, port, line, losses, raw, received, log,
                 panel>>

(* The connection goes and comes back.                                     *)
LoseLine ==
  /\ losses < MaxLosses /\ losses' = losses + 1
  /\ line' = <<>> /\ device' = <<>>
  /\ UNCHANGED <<transport, requester, port, raw, received, log, panel>>

-----------------------------------------------------------------------------
(* OnUartDataReceived on the IO thread.                                    *)

(* ExpectedResponseLength, in chunks; 0 while it is not known.  Bytes that *)
(* begin in the middle of a frame may say anything.                        *)
ExpectedLengths(bytes) ==
  IF bytes[1].part = "head" THEN {2} ELSE 0 .. Len(bytes)

(* Such bytes pass no check: the CRC over RTU, the MBAP header over TCP.   *)
FrameOf(bytes) ==
  IF bytes[1].part = "head" THEN bytes[1].of ELSE Junk

Receive(n) ==
  /\ n <= Len(line)
  /\ line' = SubSeq(line, n + 1, Len(line))
  /\ LET bytes == raw \o SubSeq(line, 1, n)
     IN \E expected \in ExpectedLengths(bytes) :
          IF expected = 0 \/ Len(bytes) < expected
          THEN raw' = bytes /\ UNCHANGED received
          ELSE raw' = SubSeq(bytes, 1, expected) /\ received' = FrameOf(bytes)
  /\ UNCHANGED <<transport, requester, port, device, losses, log, panel>>

-----------------------------------------------------------------------------
Next == \/ \E shape \in Shapes \cup {"custom"} : Request(shape)
        \/ TakeResponse \/ GiveUp \/ RecordOutcome
        \/ OnDataSent
        \/ (\E kind \in Kinds : Respond(kind)) \/ Ignore \/ LoseLine
        \/ \E n \in 1 .. 2 * MaxRequests : Receive(n)
        \/ Gui /\ UNCHANGED <<transport, requester, port, link, raw, received>>

Spec == Init /\ [][Next]_vars

-----------------------------------------------------------------------------
TypeOK ==
  /\ transport \in {"rtu", "tcp"}
  /\ requests \in Seq([shape : Shapes \cup {"custom"}, id : 0 .. Ids - 1])
  /\ ids \in 0 .. Ids - 1 /\ waiting \in BOOLEAN /\ quiet \in BOOLEAN
  /\ toRecord \in {"nothing", "RX", "timeout"}
  /\ outcome \in [verdict : {"none", "accepted", "rejected", "exception",
                             "timeout"}, answers : 0 .. MaxRequests]
  /\ sent \in 0 .. Current /\ lastSent \in 0 .. Current
  /\ writer \in {"idle", "trimmed", "recorded", "written"}
  /\ wire \in Seq(1 .. Current) /\ device \in Seq(1 .. Current)
  /\ line \in Seq(Chunks) /\ losses \in 0 .. MaxLosses
  /\ raw \in Seq(Chunks) /\ received \in Answers \cup {None, Junk}
  /\ frames \in Seq([dir : {"TX", "RX", "timeout"}, of : 0 .. MaxRequests])
  /\ view \in Seq([dir : {"TX", "RX", "timeout"}, of : 0 .. MaxRequests])
  /\ generation \in Nat /\ recording \in BOOLEAN
  /\ cursor \in [index : Nat, generation : Nat] /\ uses \in 0 .. MaxUses

(* The values a typed request returns are the answer to that very request: *)
(* over TCP also when answers come late, unless all transaction ids have   *)
(* been used since (ParseReadRegistersResponse and its siblings, with      *)
(* ConsumeSequenceId); over RTU, which has nothing to tell answers of one  *)
(* shape apart by, as long as none comes late.                             *)
OwnAnswer ==
  (outcome.verdict = "accepted" /\ ~waiting /\ requests[Current].shape # "custom") =>
    outcome.answers = Current \/ Current - outcome.answers >= Ids

(* However far behind the answers have been, a request made on a silent    *)
(* line never fails on a wrong or broken answer: nothing of an earlier     *)
(* exchange is left where the next answer is put together.                 *)
SilenceResynchronises ==
  (outcome.verdict = "rejected" /\ ~waiting) => ~quiet

(* No request is written twice, not even one that has been given up, and   *)
(* none before an earlier one, although m_SentData is shared without a     *)
(* lock.                                                                   *)
Channel == INSTANCE FrameChannel WITH accepted <- Current, sent <- wire
WrittenInOrder == Channel!Spec

(* In a recording an answer never stands before the request it answers     *)
(* (RecordFrame comes before write in OnDataSent).                         *)
AnswerAfterRequest ==
  \A i, j \in DOMAIN frames :
    frames[i].dir = "RX" /\ frames[j] = [dir |-> "TX", of |-> frames[i].of]
      => j < i
=============================================================================
