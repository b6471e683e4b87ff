---------------------- MODULE ModbusTransaction_proofs ----------------------
(***************************************************************************)
(* Proofs about ModbusTransaction, for any bounds: types, that requests    *)
(* are written as FrameChannel promises, that the log has an answer after  *)
(* its request, that the panel shows what the log has, that a silent line  *)
(* leaves nothing for the next request to stumble over, and whose answer   *)
(* a request returns.                                                      *)
(***************************************************************************)
EXTENDS ModbusTransaction, SequenceTheorems, TLAPS

Entries == [dir : {"TX", "RX", "timeout"}, of : 0 .. MaxRequests]
Specs == [shape : Shapes \cup {"custom"}, id : 0 .. Ids - 1]
Verdicts == {"none", "accepted", "rejected", "exception", "timeout"}

(* TypeOK in parts.                                                        *)
RequesterType ==
  /\ transport \in {"rtu", "tcp"}
  /\ requests \in Seq(Specs)
  /\ ids \in 0 .. Ids - 1 /\ waiting \in BOOLEAN /\ quiet \in BOOLEAN
  /\ toRecord \in {"nothing", "RX", "timeout"}
  /\ outcome \in [verdict : Verdicts, answers : 0 .. MaxRequests]
PortType ==
  /\ sent \in 0 .. Current /\ lastSent \in 0 .. Current
  /\ writer \in {"idle", "trimmed", "recorded", "written"}
  /\ wire \in Seq(1 .. Current) /\ device \in Seq(1 .. Current)
LineType ==
  /\ line \in Seq(Chunks) /\ losses \in 0 .. MaxLosses
  /\ raw \in Seq(Chunks) /\ received \in Answers \cup {None, Junk}
LogType ==
  /\ frames \in Seq(Entries) /\ view \in Seq(Entries)
  /\ generation \in Nat /\ recording \in BOOLEAN
  /\ cursor \in [index : Nat, generation : Nat] /\ uses \in 0 .. MaxUses

LEMMA TypeParts == TypeOK <=> RequesterType /\ PortType /\ LineType /\ LogType
BY DEF TypeOK, RequesterType, PortType, LineType, LogType, Entries, Specs, Verdicts

(* The writer works on the last request, which is not written before.      *)
Writing ==
  /\ Current <= MaxRequests
  /\ sent \in {0, Current}
  /\ writer # "idle" => sent # 0
  /\ (sent # 0 /\ writer # "written") => \A i \in 1 .. Len(wire) : wire[i] < sent

OnWire(r) == \E i \in 1 .. Len(wire) : wire[i] = r

(* Whatever is an answer answers a request that has been written.          *)
Caused ==
  /\ \A i \in 1 .. Len(device) : OnWire(device[i])
  /\ \A i \in 1 .. Len(line) : OnWire(line[i].of.answers)
  /\ \A i \in 1 .. Len(raw) : OnWire(raw[i].of.answers)
  /\ received.answers = 0 \/ OnWire(received.answers)
  /\ outcome.answers = 0 \/ OnWire(outcome.answers)

Recorded ==
  \A i \in 1 .. Len(frames) :
    /\ frames[i].dir = "RX" => frames[i].of = 0 \/ OnWire(frames[i].of)
    /\ frames[i].dir = "TX" => frames[i].of # 0

(* The panel's cursor is never ahead of the log.                           *)
Cursor == cursor.generation <= generation

(* How far the exchange of a request that was made on a silent line is.    *)
Head1(kind) == [of |-> Answer(Current, kind), part |-> "head"]
Tail1(kind) == [of |-> Answer(Current, kind), part |-> "tail"]
Unanswered == received = None /\ Len(line) = 0 /\ Len(raw) = 0
ToWrite == Unanswered /\ Len(device) = 0
Done == sent = 0 \/ writer = "written"
AtDevice == Done /\ Unanswered /\ Len(device) = 1 /\ device[1] = Current
OnLine(kind) ==
  /\ Done /\ received = None /\ Len(device) = 0 /\ Len(raw) = 0
  /\ Len(line) = 2 /\ line[1] = Head1(kind) /\ line[2] = Tail1(kind)
HalfWay(kind) ==
  /\ Done /\ received = None /\ Len(device) = 0
  /\ Len(raw) = 1 /\ raw[1] = Head1(kind)
  /\ \/ Len(line) = 0
     \/ Len(line) = 1 /\ line[1] = Tail1(kind)
Arrived(kind) ==
  Done /\ received = Answer(Current, kind) /\ Len(device) = 0 /\ Len(line) = 0
Exchange ==
  \/ ToWrite \/ AtDevice
  \/ \E kind \in Kinds : OnLine(kind) \/ HalfWay(kind) \/ Arrived(kind)

Quiet ==
  quiet => IF waiting THEN Exchange ELSE outcome.verdict # "rejected"

IInv == TypeOK /\ Writing /\ Caused /\ Recorded /\ Cursor /\ ViewMatchesLog /\ Quiet

-----------------------------------------------------------------------------
LEMMA IInvInit == Init => IInv
<1> SUFFICES ASSUME Init PROVE IInv
  OBVIOUS
<1> USE TransactionAssumption, LogAssumption
<1>1. /\ Len(requests) = 0 /\ Len(wire) = 0 /\ Len(device) = 0 /\ Len(line) = 0
      /\ Len(raw) = 0 /\ Len(frames) = 0 /\ received = None
  BY DEF Init, LogInit
<1>2. /\ requests \in Seq(Specs) /\ wire \in Seq(1 .. Current)
      /\ device \in Seq(1 .. Current) /\ line \in Seq(Chunks)
      /\ raw \in Seq(Chunks) /\ frames \in Seq(Entries) /\ view \in Seq(Entries)
  BY EmptySeq DEF Init, LogInit
<1>3. RequesterType
  <2>1. outcome \in [verdict : Verdicts, answers : 0 .. MaxRequests]
    BY DEF Init, Verdicts
  <2>2. ids \in 0 .. Ids - 1
    BY DEF Init
  <2>3. waiting \in BOOLEAN /\ quiet \in BOOLEAN
    BY DEF Init
  <2>. QED
    BY <1>2, <2>1, <2>2, <2>3 DEF Init, RequesterType
<1>4. PortType
  BY <1>1, <1>2 DEF Init, PortType, Current
<1>5. LineType
  BY <1>2 DEF Init, LineType
<1>6. LogType
  <2>1. cursor \in [index : Nat, generation : Nat]
    BY DEF Init, LogInit
  <2>2. recording \in BOOLEAN
    BY DEF Init, LogInit
  <2>. QED
    BY <1>2, <2>1, <2>2 DEF Init, LogInit, LogType
<1>7. Writing
  BY <1>1 DEF Init, Writing, Current
<1>8. Caused /\ Recorded
  BY <1>1 DEF Init, Caused, Recorded, None
<1>9. Cursor /\ ViewMatchesLog
  <2>1. SubSeq(frames, 1, cursor.index) = <<>>
    BY SubSeqEmpty DEF Init, LogInit
  <2>. QED
    BY <1>1, <2>1 DEF Init, LogInit, Cursor, ViewMatchesLog
<1>10. Quiet
  BY DEF Init, Quiet
<1>. QED
  BY <1>3, <1>4, <1>5, <1>6, <1>7, <1>8, <1>9, <1>10, TypeParts DEF IInv

-----------------------------------------------------------------------------
(* Steps that leave a part of the state alone.                             *)
LEMMA SameLog ==
  ASSUME IInv, UNCHANGED <<log, panel>>
  PROVE  LogType' /\ Cursor' /\ ViewMatchesLog'
<1>1. /\ frames' = frames /\ generation' = generation /\ recording' = recording
      /\ cursor' = cursor /\ view' = view /\ uses' = uses
  BY DEF log, panel
<1>2. LogType /\ Cursor /\ ViewMatchesLog
  BY TypeParts DEF IInv
<1>. QED
  BY <1>1, <1>2 DEF LogType, Cursor, ViewMatchesLog

LEMMA SameCause ==
  ASSUME IInv, UNCHANGED <<wire, device, line, raw, received, outcome>>
  PROVE  Caused'
BY DEF IInv, Caused, OnWire

LEMMA SameRecord ==
  ASSUME IInv, UNCHANGED <<wire, frames>>
  PROVE  Recorded'
BY DEF IInv, Recorded, OnWire

LEMMA SameExchange ==
  ASSUME IInv,
         UNCHANGED <<requests, waiting, quiet, outcome, sent, writer, device,
                     line, raw, received>>
  PROVE  Quiet'
BY DEF IInv, Quiet, Exchange, ToWrite, AtDevice, OnLine, HalfWay, Arrived, Done,
       Unanswered, Head1, Tail1, Answer, Current

LEMMA SameWriting ==
  ASSUME IInv, UNCHANGED <<requests, sent, writer, wire>>
  PROVE  Writing'
BY DEF IInv, Writing, Current

LEMMA SamePort ==
  ASSUME IInv, UNCHANGED <<requests, sent, lastSent, writer, wire, device>>
  PROVE  PortType'
BY TypeParts DEF IInv, PortType, Current

LEMMA SameLine ==
  ASSUME IInv, UNCHANGED <<line, losses, raw, received>>
  PROVE  LineType'
BY TypeParts DEF IInv, LineType

LEMMA SameRequester ==
  ASSUME IInv, UNCHANGED <<transport, requester>>
  PROVE  RequesterType'
BY TypeParts DEF IInv, RequesterType, requester

LEMMA Stutter ==
  ASSUME IInv, UNCHANGED vars
  PROVE  IInv'
<1> USE DEF vars, requester, port, link
<1>1. RequesterType' /\ PortType' /\ LineType'
  BY SameRequester, SamePort, SameLine
<1>2. Writing' /\ Caused' /\ Recorded' /\ Quiet'
  BY SameWriting, SameCause, SameRecord, SameExchange DEF log
<1>3. LogType' /\ Cursor' /\ ViewMatchesLog'
  BY SameLog
<1>4. TypeOK'
  BY <1>1, <1>3, TypeParts DEF TypeOK, RequesterType, PortType, LineType, LogType, Entries, Specs, Verdicts
<1>. QED
  BY <1>2, <1>3, <1>4 DEF IInv

-----------------------------------------------------------------------------
(* What the actions do to each part.                                       *)
LEMMA Sizes ==
  ASSUME IInv
  PROVE  /\ Current \in Nat /\ Current <= MaxRequests
         /\ Len(wire) \in Nat /\ Len(device) \in Nat /\ Len(line) \in Nat
         /\ Len(raw) \in Nat /\ Len(frames) \in Nat
         /\ \A i \in 1 .. Len(wire) : wire[i] \in 1 .. Current
         /\ \A i \in 1 .. Len(device) : device[i] \in 1 .. Current
         /\ \A i \in 1 .. Len(line) : line[i] \in Chunks
         /\ \A i \in 1 .. Len(raw) : raw[i] \in Chunks
         /\ \A i \in 1 .. Len(frames) : frames[i] \in Entries
<1>1. RequesterType /\ PortType /\ LineType /\ LogType /\ Writing
  BY TypeParts DEF IInv
<1>2. Current \in Nat /\ Current <= MaxRequests
  BY <1>1 DEF RequesterType, Current, Writing
<1>3. wire \in Seq(1 .. Current) /\ device \in Seq(1 .. Current)
  BY <1>1 DEF PortType
<1>4. line \in Seq(Chunks) /\ raw \in Seq(Chunks) /\ frames \in Seq(Entries)
  BY <1>1 DEF LineType, LogType
<1>5. /\ Len(wire) \in Nat /\ Len(device) \in Nat
      /\ \A i \in 1 .. Len(wire) : wire[i] \in 1 .. Current
      /\ \A i \in 1 .. Len(device) : device[i] \in 1 .. Current
  BY <1>3, LenProperties, ElementOfSeq
<1>6. /\ Len(line) \in Nat /\ Len(raw) \in Nat /\ Len(frames) \in Nat
      /\ \A i \in 1 .. Len(line) : line[i] \in Chunks
      /\ \A i \in 1 .. Len(raw) : raw[i] \in Chunks
      /\ \A i \in 1 .. Len(frames) : frames[i] \in Entries
  BY <1>4, LenProperties, ElementOfSeq
<1>. QED
  BY <1>2, <1>5, <1>6

LEMMA Assembled ==
  ASSUME RequesterType', PortType', LineType', LogType', Writing', Caused',
         Recorded', Cursor', ViewMatchesLog', Quiet'
  PROVE  IInv'
<1>1. TypeOK'
  BY DEF TypeOK, RequesterType, PortType, LineType, LogType, Entries, Specs,
         Verdicts
<1>. QED
  BY <1>1 DEF IInv

(* The log gets one more entry: no view that is up to date notices.        *)
LEMMA RecordStep ==
  ASSUME IInv, NEW entry \in Entries, RecordFrame(entry), UNCHANGED panel,
         UNCHANGED wire,
         entry.dir = "RX" => entry.of = 0 \/ OnWire(entry.of),
         entry.dir = "TX" => entry.of # 0
  PROVE  LogType' /\ Cursor' /\ ViewMatchesLog' /\ Recorded'
<1>1. /\ frames' = Append(frames, entry) /\ generation' = generation
      /\ recording' = recording /\ cursor' = cursor /\ view' = view /\ uses' = uses
      /\ wire' = wire
  BY DEF RecordFrame, panel
<1>2. LogType /\ Cursor /\ ViewMatchesLog /\ Recorded
  BY TypeParts DEF IInv
<1>3. /\ frames' \in Seq(Entries) /\ Len(frames') = Len(frames) + 1
      /\ \A i \in 1 .. Len(frames) : frames'[i] = frames[i]
      /\ frames'[Len(frames) + 1] = entry /\ Len(frames) \in Nat
  BY <1>1, <1>2 DEF LogType
<1>4. LogType' /\ Cursor'
  BY <1>1, <1>2, <1>3 DEF LogType, Cursor
<1>5. Recorded'
  <2> SUFFICES ASSUME NEW i \in 1 .. Len(frames')
               PROVE  /\ frames'[i].dir = "RX" => frames'[i].of = 0 \/ OnWire(frames'[i].of)
                      /\ frames'[i].dir = "TX" => frames'[i].of # 0
    BY <1>1 DEF Recorded, OnWire
  <2>2. CASE i = Len(frames) + 1
    BY <1>3, <2>2
  <2>3. CASE i # Len(frames) + 1
    <3>1. i \in 1 .. Len(frames)
      BY <1>3, <2>3
    <3>. QED
      BY <1>2, <1>3, <3>1 DEF Recorded
  <2>. QED
    BY <2>2, <2>3
<1>6. ViewMatchesLog'
  <2> SUFFICES ASSUME cursor.generation = generation
               PROVE  /\ cursor.index <= Len(frames')
                      /\ view = SubSeq(frames', 1, cursor.index)
    BY <1>1 DEF ViewMatchesLog
  <2>1. cursor.index <= Len(frames) /\ view = SubSeq(frames, 1, cursor.index)
    BY <1>2 DEF ViewMatchesLog
  <2>2. cursor.index \in Nat
    BY <1>2 DEF LogType
  <2>3. \A i \in 1 .. cursor.index : frames'[i] = frames[i] /\ frames[i] \in Entries
    <3> SUFFICES ASSUME NEW i \in 1 .. cursor.index
                 PROVE  frames'[i] = frames[i] /\ frames[i] \in Entries
      OBVIOUS
    <3>0. frames \in Seq(Entries)
      BY <1>2 DEF LogType
    <3>1. i \in 1 .. Len(frames)
      BY <3>0, <2>1, <2>2
    <3>2. frames[i] \in Entries
      BY <3>0, <3>1
    <3>3. frames'[i] = frames[i]
      BY <1>3, <3>1
    <3>. QED
      BY <3>2, <3>3
  <2>4. SubSeq(frames', 1, cursor.index) = SubSeq(frames, 1, cursor.index)
    BY <2>2, <2>3, SMT
  <2>. QED
    BY <1>3, <2>1, <2>2, <2>4
<1>. QED
  BY <1>4, <1>5, <1>6

(* The log is emptied: every view is out of date.                          *)
LEMMA DiscardStep ==
  ASSUME IInv, Discard, cursor' = cursor
  PROVE  /\ frames' \in Seq(Entries) /\ generation' \in Nat
         /\ Cursor' /\ ViewMatchesLog' /\ Recorded'
<1>1. generation' = generation + 1 /\ frames' = <<>>
  BY DEF Discard
<1>2. LogType /\ Cursor
  BY TypeParts DEF IInv
<1>3. cursor.generation \in Nat /\ generation \in Nat
  BY <1>2 DEF LogType
<1>4. Cursor' /\ cursor'.generation # generation'
  BY <1>1, <1>2, <1>3 DEF Cursor
<1>5. frames' \in Seq(Entries) /\ Len(frames') = 0
  BY <1>1, EmptySeq
<1>. QED
  BY <1>1, <1>3, <1>4, <1>5 DEF ViewMatchesLog, Recorded

LEMMA CheckStep ==
  ASSUME IInv, CheckMaxEntries, UNCHANGED panel, UNCHANGED wire
  PROVE  LogType' /\ Cursor' /\ ViewMatchesLog' /\ Recorded'
<1>1. CASE UNCHANGED log
  BY <1>1, SameLog, SameRecord DEF log
<1>2. CASE Discard
  <2>1. cursor' = cursor /\ recording' = recording /\ view' = view /\ uses' = uses
    BY DEF panel
  <2>2. LogType
    BY TypeParts DEF IInv
  <2>. QED
    BY <1>2, <2>1, <2>2, DiscardStep DEF LogType
<1>. QED
  BY <1>1, <1>2 DEF CheckMaxEntries

-----------------------------------------------------------------------------
(* The requesting thread.                                                  *)
LEMMA RequestStep ==
  ASSUME IInv, NEW shape \in Shapes \cup {"custom"}, Request(shape)
  PROVE  IInv'
<1> USE TransactionAssumption
<1> DEFINE request == [shape |-> shape, id |-> ids]
<1>1. /\ requests' = Append(requests, request) /\ received' = None /\ raw' = <<>>
      /\ waiting' = TRUE /\ quiet' = Silent /\ sent' = Current + 1
      /\ Current < MaxRequests
      /\ ids' = IF transport = "tcp" /\ shape # "custom" THEN (ids + 1) % Ids ELSE ids
      /\ UNCHANGED <<outcome, toRecord, transport, lastSent, writer, wire,
                     device, line, losses, log, panel>>
  BY DEF Request, link
<1>2. RequesterType /\ PortType /\ LineType /\ Writing
  BY TypeParts DEF IInv
<1>3. request \in Specs /\ ids \in 0 .. Ids - 1
  BY <1>2 DEF RequesterType, Specs
<1>4. requests' \in Seq(Specs) /\ Current' = Current + 1 /\ Current \in Nat
  BY <1>1, <1>2, <1>3, AppendProperties DEF RequesterType, Current
<1>5. ids' \in 0 .. Ids - 1
  <2>1. (ids + 1) % Ids \in 0 .. Ids - 1
    BY <1>3
  <2>. QED
    BY <1>1, <1>3, <2>1
<1>6. RequesterType'
  <2>1. quiet' \in BOOLEAN
    BY <1>1 DEF Silent
  <2>. QED
    BY <1>1, <1>2, <1>4, <1>5, <2>1 DEF RequesterType
<1>7. PortType'
  <2>1. 1 .. Current \subseteq 1 .. Current'
    BY <1>4
  <2>2. wire' \in Seq(1 .. Current') /\ device' \in Seq(1 .. Current')
    BY <1>1, <1>2, <2>1, SeqMonotonic DEF PortType
  <2>. QED
    BY <1>1, <1>2, <1>4, <2>2 DEF PortType
<1>8. LineType'
  BY <1>1, <1>2, EmptySeq DEF LineType
<1>9. Writing'
  <2>1. \A i \in 1 .. Len(wire) : wire[i] < Current + 1
    BY <1>4, Sizes
  <2>. QED
    BY <1>1, <1>2, <1>4, <2>1 DEF Writing
<1>10. Caused'
  <2>1. Len(raw') = 0 /\ received'.answers = 0
    BY <1>1 DEF None
  <2>. QED
    BY <1>1, <2>1 DEF IInv, Caused, OnWire
<1>11. Quiet'
  <2>1. CASE Silent
    <3>1. Len(line') = 0 /\ Len(device') = 0 /\ Len(raw') = 0
      BY <1>1, <2>1 DEF Silent
    <3>. QED
      BY <1>1, <3>1 DEF Quiet, Exchange, ToWrite, Unanswered
  <2>2. CASE ~Silent
    BY <1>1, <2>2 DEF Quiet
  <2>. QED
    BY <2>1, <2>2
<1>. QED
  BY <1>1, <1>6, <1>7, <1>8, <1>9, <1>10, <1>11, SameLog, SameRecord, Assembled
     DEF log

LEMMA TakeResponseStep ==
  ASSUME IInv, TakeResponse
  PROVE  IInv'
<1>1. /\ waiting /\ received # None /\ waiting' = FALSE /\ received' = None
      /\ outcome' = [verdict |-> Verdict(received), answers |-> received.answers]
      /\ toRecord' = IF recording THEN "RX" ELSE "nothing"
      /\ UNCHANGED <<transport, requests, ids, quiet, sent, lastSent, writer, wire,
                     device, line, losses, raw, log, panel>>
  BY DEF TakeResponse, port, link
<1>2. RequesterType /\ LineType /\ Caused
  BY TypeParts DEF IInv
<1>3. received \in Answers \cup {Junk}
  BY <1>1, <1>2 DEF LineType
<1>4. received.answers \in 0 .. MaxRequests
  BY <1>3, TransactionAssumption DEF Answers, Junk
<1>5. RequesterType'
  <2>1. Verdict(received) \in Verdicts
    BY DEF Verdict, Verdicts
  <2>2. outcome' \in [verdict : Verdicts, answers : 0 .. MaxRequests]
    BY <1>1, <1>4, <2>1
  <2>. QED
    BY <1>1, <1>2, <2>2 DEF RequesterType
<1>6. LineType'
  BY <1>1, <1>2 DEF LineType
<1>7. Caused'
  <2>1. received'.answers = 0 /\ outcome'.answers = received.answers
    BY <1>1 DEF None
  <2>. QED
    BY <1>1, <1>2, <2>1 DEF Caused, OnWire
<1>8. Quiet'
  <2> SUFFICES ASSUME quiet PROVE Verdict(received) # "rejected"
    BY <1>1 DEF Quiet
  <2>1. Exchange
    BY <1>1 DEF IInv, Quiet
  <2>2. PICK kind \in Kinds : received = Answer(Current, kind)
    BY <1>1, <2>1 DEF Exchange, ToWrite, AtDevice, OnLine, HalfWay, Arrived,
                      Unanswered
  <2>3. received.kind = kind /\ received.answers = Current
    BY <2>2 DEF Answer
  <2>4. kind # "junk"
    BY DEF Kinds
  <2>5. received # Junk
    BY <2>3, <2>4 DEF Junk
  <2>6. Matches(received)
    BY <2>3 DEF Matches
  <2>. QED
    BY <2>5, <2>6 DEF Verdict
<1>. QED
  BY <1>1, <1>5, <1>6, <1>7, <1>8, SamePort, SameWriting, SameLog, SameRecord,
     Assembled DEF log

LEMMA GiveUpStep ==
  ASSUME IInv, GiveUp
  PROVE  IInv'
<1>1. /\ waiting' = FALSE /\ outcome' = [verdict |-> "timeout", answers |-> 0]
      /\ toRecord' = IF recording THEN "timeout" ELSE "nothing"
      /\ UNCHANGED <<transport, requests, ids, quiet, sent, lastSent, writer, wire,
                     device, line, losses, raw, received, log, panel>>
  BY DEF GiveUp, port, link
<1>2. RequesterType /\ Caused
  BY TypeParts DEF IInv
<1>3. RequesterType'
  <2>1. outcome' \in [verdict : Verdicts, answers : 0 .. MaxRequests]
    BY <1>1, TransactionAssumption DEF Verdicts
  <2>. QED
    BY <1>1, <1>2, <2>1 DEF RequesterType
<1>4. Caused'
  BY <1>1, <1>2 DEF Caused, OnWire
<1>5. Quiet'
  BY <1>1 DEF Quiet
<1>. QED
  BY <1>1, <1>3, <1>4, <1>5, SamePort, SameLine, SameWriting, SameLog, SameRecord,
     Assembled DEF log

LEMMA RecordOutcomeStep ==
  ASSUME IInv, RecordOutcome
  PROVE  IInv'
<1> DEFINE entry == [dir |-> toRecord,
                     of |-> IF toRecord = "RX" THEN outcome.answers ELSE lastSent]
<1>1. /\ toRecord # "nothing" /\ toRecord' = "nothing" /\ RecordFrame(entry)
      /\ UNCHANGED <<transport, requests, ids, waiting, quiet, outcome, sent,
                     lastSent, writer, wire, device, line, losses, raw, received,
                     panel>>
  BY DEF RecordOutcome, port, link
<1>2. RequesterType /\ PortType /\ Caused
  BY TypeParts DEF IInv
<1>3. toRecord \in {"RX", "timeout"}
  BY <1>1, <1>2 DEF RequesterType
<1>4. outcome.answers \in 0 .. MaxRequests /\ lastSent \in 0 .. MaxRequests
  BY <1>2, Sizes, TransactionAssumption DEF RequesterType, PortType
<1>5. entry \in Entries
  BY <1>3, <1>4 DEF Entries
<1>6. entry.dir = "RX" => entry.of = 0 \/ OnWire(entry.of)
  BY <1>2 DEF Caused
<1>7. entry.dir # "TX"
  BY <1>3
<1>8. LogType' /\ Cursor' /\ ViewMatchesLog' /\ Recorded'
  BY <1>1, <1>5, <1>6, <1>7, RecordStep
<1>9. RequesterType'
  BY <1>1, <1>2 DEF RequesterType
<1>. QED
  BY <1>1, <1>8, <1>9, SamePort, SameLine, SameWriting, SameCause, SameExchange,
     Assembled

-----------------------------------------------------------------------------
(* The serial port's worker.                                               *)

(* A request that is not written leaves nothing to be answered.            *)
LEMMA NothingYet ==
  ASSUME IInv, quiet, waiting, ~Done
  PROVE  ToWrite
BY DEF IInv, Quiet, Exchange, AtDevice, OnLine, HalfWay, Arrived

LEMMA SameToWrite ==
  ASSUME IInv, ~Done, UNCHANGED <<waiting, quiet, outcome, device, line, raw, received>>
  PROVE  Quiet'
<1>1. CASE quiet /\ waiting
  <2>1. ToWrite
    BY <1>1, NothingYet
  <2>2. ToWrite'
    BY <2>1 DEF ToWrite, Unanswered
  <2>. QED
    BY <1>1, <2>2 DEF Quiet, Exchange
<1>2. CASE ~(quiet /\ waiting)
  BY <1>2 DEF IInv, Quiet
<1>. QED
  BY <1>1, <1>2

LEMMA TrimLogStep ==
  ASSUME IInv, TrimLog
  PROVE  IInv'
<1>1. /\ writer = "idle" /\ sent # 0 /\ writer' \in {"trimmed", "recorded"}
      /\ UNCHANGED <<transport, requests, ids, waiting, toRecord, quiet, outcome, sent,
                     lastSent, wire, device, line, losses, raw, received, panel>>
  BY DEF TrimLog, requester, link
<1>2. LogType' /\ Cursor' /\ ViewMatchesLog' /\ Recorded'
  <2>1. CASE recording
    BY <1>1, <2>1, CheckStep DEF TrimLog
  <2>2. CASE ~recording
    BY <1>1, <2>2, SameLog, SameRecord DEF TrimLog, log
  <2>. QED
    BY <2>1, <2>2
<1>3. PortType'
  BY <1>1, TypeParts DEF IInv, PortType, Current
<1>4. Writing'
  BY <1>1 DEF IInv, Writing, Current
<1>5. Quiet'
  BY <1>1, SameToWrite DEF Done
<1>. QED
  BY <1>1, <1>2, <1>3, <1>4, <1>5, SameRequester, SameLine, SameCause, Assembled
     DEF requester

LEMMA RecordSentStep ==
  ASSUME IInv, RecordSent
  PROVE  IInv'
<1> DEFINE entry == [dir |-> "TX", of |-> sent]
<1>1. /\ writer = "trimmed" /\ writer' = "recorded" /\ RecordFrame(entry)
      /\ UNCHANGED <<transport, requests, ids, waiting, toRecord, quiet, outcome, sent,
                     lastSent, wire, device, line, losses, raw, received, panel>>
  BY DEF RecordSent, requester, link
<1>2. PortType /\ Writing
  BY TypeParts DEF IInv
<1>3. sent # 0
  BY <1>1, <1>2 DEF Writing
<1>4. entry \in Entries
  BY <1>2, Sizes, TransactionAssumption DEF PortType, Entries
<1>5. LogType' /\ Cursor' /\ ViewMatchesLog' /\ Recorded'
  BY <1>1, <1>3, <1>4, RecordStep
<1>6. PortType'
  BY <1>1, <1>2 DEF PortType, Current
<1>7. Writing'
  BY <1>1, <1>2, <1>3 DEF Writing, Current
<1>8. Quiet'
  BY <1>1, <1>3, SameToWrite DEF Done
<1>. QED
  BY <1>1, <1>5, <1>6, <1>7, <1>8, SameRequester, SameLine, SameCause, Assembled
     DEF requester

LEMMA WriteSentStep ==
  ASSUME IInv, WriteSent
  PROVE  IInv'
<1>1. /\ writer = "recorded" /\ writer' = "written"
      /\ wire' = Append(wire, sent) /\ device' = Append(device, sent)
      /\ UNCHANGED <<transport, requests, ids, waiting, toRecord, quiet, outcome, sent,
                     lastSent, line, losses, raw, received, log, panel>>
  BY DEF WriteSent, requester
<1>2. PortType /\ Writing /\ Caused /\ Recorded
  BY TypeParts DEF IInv
<1>3. sent # 0 /\ sent = Current /\ sent \in 1 .. Current
  BY <1>1, <1>2, Sizes DEF Writing
<1>4. /\ wire' \in Seq(1 .. Current) /\ Len(wire') = Len(wire) + 1
      /\ \A i \in 1 .. Len(wire) : wire'[i] = wire[i]
      /\ wire'[Len(wire) + 1] = sent
      /\ device' \in Seq(1 .. Current) /\ Len(device') = Len(device) + 1
      /\ \A i \in 1 .. Len(device) : device'[i] = device[i]
      /\ device'[Len(device) + 1] = sent
      /\ Len(wire) \in Nat /\ Len(device) \in Nat
  <2>1. wire \in Seq(1 .. Current) /\ device \in Seq(1 .. Current)
    BY <1>2 DEF PortType
  <2>. QED
    BY <1>1, <1>3, <2>1, AppendProperties, LenProperties
<1>5. PortType'
  BY <1>1, <1>2, <1>4 DEF PortType, Current
<1>6. Writing'
  BY <1>1, <1>2 DEF Writing, Current
<1> DEFINE Now(r) == \E j \in 1 .. Len(wire') : wire'[j] = r
<1>7. \A r : OnWire(r) => Now(r)
  BY <1>4 DEF OnWire
<1>8. Now(sent)
  BY <1>4
<1>9. Caused'
  <2>1. \A i \in 1 .. Len(device') : Now(device'[i])
    <3> SUFFICES ASSUME NEW i \in 1 .. Len(device') PROVE Now(device'[i])
      OBVIOUS
    <3> HIDE DEF Now
    <3>1. CASE i = Len(device) + 1
      BY <1>4, <1>8, <3>1
    <3>2. CASE i # Len(device) + 1
      <4>1. i \in 1 .. Len(device) /\ device'[i] = device[i]
        BY <1>4, <3>2
      <4>2. OnWire(device[i])
        BY <1>2, <4>1 DEF Caused
      <4>. QED
        BY <1>7, <4>1, <4>2
    <3>. QED
      BY <3>1, <3>2
  <2>2. /\ \A i \in 1 .. Len(line) : Now(line[i].of.answers)
        /\ \A i \in 1 .. Len(raw) : Now(raw[i].of.answers)
        /\ received.answers = 0 \/ Now(received.answers)
        /\ outcome.answers = 0 \/ Now(outcome.answers)
    <3> HIDE DEF Now
    <3>. QED
      BY <1>2, <1>7 DEF Caused
  <2>. QED
    BY <1>1, <2>1, <2>2 DEF Caused, OnWire
<1>10. Recorded'
  <2>1. \A i \in 1 .. Len(frames) :
          /\ frames[i].dir = "RX" => frames[i].of = 0 \/ Now(frames[i].of)
          /\ frames[i].dir = "TX" => frames[i].of # 0
    <3> HIDE DEF Now
    <3>. QED
      BY <1>2, <1>7 DEF Recorded
  <2>. QED
    BY <1>1, <2>1 DEF Recorded, OnWire, log
<1>11. Quiet'
  <2>1. CASE quiet /\ waiting
    <3>1. ToWrite
      BY <1>1, <1>3, <2>1, NothingYet DEF Done
    <3>2. AtDevice'
      BY <1>1, <1>3, <1>4, <3>1 DEF ToWrite, AtDevice, Unanswered, Done, Current
    <3>. QED
      BY <1>1, <2>1, <3>2 DEF Quiet, Exchange
  <2>2. CASE ~(quiet /\ waiting)
    BY <1>1, <2>2 DEF IInv, Quiet
  <2>. QED
    BY <2>1, <2>2
<1>. QED
  BY <1>1, <1>5, <1>6, <1>9, <1>10, <1>11, SameRequester, SameLine, SameLog,
     Assembled DEF requester

LEMMA MoveSentStep ==
  ASSUME IInv, MoveSent
  PROVE  IInv'
<1>1. /\ writer = "written" /\ writer' = "idle" /\ lastSent' = sent /\ sent' = 0
      /\ UNCHANGED <<transport, requests, ids, waiting, toRecord, quiet, outcome,
                     wire, device, line, losses, raw, received, log, panel>>
  BY DEF MoveSent, requester, link
<1>2. PortType /\ Writing
  BY TypeParts DEF IInv
<1>3. PortType'
  <2>1. 0 \in 0 .. Current
    BY Sizes
  <2>. QED
    BY <1>1, <1>2, <2>1 DEF PortType, Current
<1>4. Writing'
  BY <1>1, <1>2 DEF Writing, Current
<1>5. Quiet'
  BY <1>1 DEF IInv, Quiet, Exchange, ToWrite, AtDevice, OnLine, HalfWay, Arrived,
              Done, Unanswered, Head1, Tail1, Answer, Current
<1>. QED
  BY <1>1, <1>3, <1>4, <1>5, SameRequester, SameLine, SameCause, SameRecord, SameLog,
     Assembled DEF requester, log

-----------------------------------------------------------------------------
(* The device and the line.                                                *)
LEMMA RespondStep ==
  ASSUME IInv, NEW kind \in Kinds, Respond(kind)
  PROVE  IInv'
<1> DEFINE answer == Answer(Head(device), kind)
           two == [i \in 1 .. 2 |-> [of |-> answer, part |-> <<"head", "tail">>[i]]]
<1>1. /\ device # <<>> /\ device' = Tail(device) /\ line' = line \o two
      /\ UNCHANGED <<transport, requests, ids, waiting, toRecord, quiet, outcome,
                     sent, lastSent, writer, wire, losses, raw, received, log, panel>>
  BY DEF Respond, requester, port
<1>2. PortType /\ LineType /\ Caused
  BY TypeParts DEF IInv
<1>3. /\ Head(device) \in 1 .. Current /\ device' \in Seq(1 .. Current)
      /\ Len(device') = Len(device) - 1 /\ Len(device) \in Nat \ {0}
      /\ \A i \in 1 .. Len(device') : device'[i] = device[i + 1]
      /\ Head(device) = device[1]
  <2>1. device \in Seq(1 .. Current)
    BY <1>2 DEF PortType
  <2>2. Len(device) \in Nat \ {0}
    BY <1>1, <2>1, EmptySeq
  <2>3. /\ Head(device) \in 1 .. Current /\ device' \in Seq(1 .. Current)
        /\ Len(device') = Len(device) - 1
        /\ \A i \in 1 .. Len(device') : device'[i] = device[i + 1]
    BY <1>1, <2>1, HeadTailProperties
  <2>4. Head(device) = device[1]
    BY <2>1, <2>2
  <2>. QED
    BY <2>2, <2>3, <2>4
<1>4. answer \in Answers
  BY <1>3, Sizes, TransactionAssumption DEF Answer, Answers
<1>5. two \in Seq(Chunks) /\ Len(two) = 2
  <2>1. <<"head", "tail">>[1] = "head" /\ <<"head", "tail">>[2] = "tail"
    OBVIOUS
  <2>2. \A i \in 1 .. 2 : <<"head", "tail">>[i] \in {"head", "tail"}
    BY <2>1
  <2>3. \A i \in 1 .. 2 : [of |-> answer, part |-> <<"head", "tail">>[i]] \in Chunks
    BY <1>4, <2>2 DEF Chunks
  <2>4. two \in [1 .. 2 -> Chunks]
    BY <2>3
  <2>5. two \in Seq(Chunks)
    BY <2>4, SeqDef
  <2>6. DOMAIN two = 1 .. Len(two) /\ Len(two) \in Nat
    BY <2>5, LenProperties
  <2>7. DOMAIN two = 1 .. 2
    OBVIOUS
  <2>. QED
    BY <2>5, <2>6, <2>7
<1>6. /\ two[1] = [of |-> answer, part |-> "head"]
      /\ two[2] = [of |-> answer, part |-> "tail"]
  OBVIOUS
<1> HIDE DEF two
<1>7. /\ line' \in Seq(Chunks) /\ Len(line') = Len(line) + 2 /\ Len(line) \in Nat
      /\ \A i \in 1 .. Len(line) + 2 :
           line'[i] = IF i <= Len(line) THEN line[i] ELSE two[i - Len(line)]
  <2>1. line \in Seq(Chunks)
    BY <1>2 DEF LineType
  <2>2. /\ line \o two \in Seq(Chunks) /\ Len(line \o two) = Len(line) + Len(two)
        /\ \A i \in 1 .. Len(line) + Len(two) :
             (line \o two)[i] = IF i <= Len(line) THEN line[i] ELSE two[i - Len(line)]
    BY <1>5, <2>1, ConcatProperties
  <2>3. Len(line) \in Nat
    BY <2>1, LenProperties
  <2>. QED
    BY <1>1, <1>5, <2>2, <2>3
<1>8. PortType'
  BY <1>1, <1>2, <1>3 DEF PortType, Current
<1>9. LineType'
  BY <1>1, <1>2, <1>7 DEF LineType
<1>10. Caused'
  <2>1. OnWire(answer.answers)
    BY <1>2, <1>3 DEF Caused, Answer
  <2>2. \A i \in 1 .. Len(device') : OnWire(device'[i])
    BY <1>2, <1>3 DEF Caused
  <2>3. \A i \in 1 .. Len(line') : OnWire(line'[i].of.answers)
    <3> SUFFICES ASSUME NEW i \in 1 .. Len(line') PROVE OnWire(line'[i].of.answers)
      OBVIOUS
    <3>1. CASE i <= Len(line)
      <4>1. i \in 1 .. Len(line) /\ line'[i] = line[i]
        BY <1>7, <3>1
      <4>. QED
        BY <1>2, <4>1 DEF Caused
    <3>2. CASE i > Len(line)
      <4>1. i - Len(line) \in 1 .. 2 /\ line'[i] = two[i - Len(line)]
        BY <1>7, <3>2
      <4>2. line'[i].of = answer
        BY <1>6, <4>1
      <4>. QED
        BY <2>1, <4>2
    <3>. QED
      BY <1>7, <3>1, <3>2
  <2>. QED
    BY <1>1, <1>2, <2>2, <2>3 DEF Caused, OnWire
<1>11. Quiet'
  <2>1. CASE quiet /\ waiting
    <3>1. AtDevice
      BY <1>3, <2>1 DEF IInv, Quiet, Exchange, ToWrite, OnLine, HalfWay, Arrived
    <3>2. Len(line) = 0 /\ Head(device) = Current /\ Len(device') = 0
      BY <1>3, <3>1 DEF AtDevice, Unanswered
    <3>3. line'[1] = two[1] /\ line'[2] = two[2] /\ Len(line') = 2
      BY <1>7, <3>2
    <3>4. OnLine(kind)'
      BY <1>1, <1>6, <3>1, <3>2, <3>3
         DEF AtDevice, OnLine, Unanswered, Done, Head1, Tail1, Answer, Current
    <3>. QED
      BY <1>1, <2>1, <3>4 DEF Quiet, Exchange
  <2>2. CASE ~(quiet /\ waiting)
    BY <1>1, <2>2 DEF IInv, Quiet
  <2>. QED
    BY <2>1, <2>2
<1>. QED
  BY <1>1, <1>8, <1>9, <1>10, <1>11, SameRequester, SameWriting, SameRecord, SameLog,
     Assembled DEF requester, log

LEMMA IgnoreStep ==
  ASSUME IInv, Ignore
  PROVE  IInv'
<1>1. /\ device # <<>> /\ device' = Tail(device)
      /\ UNCHANGED <<transport, requests, ids, waiting, toRecord, quiet, outcome, sent,
                     lastSent, writer, wire, line, losses, raw, received, log, panel>>
  BY DEF Ignore, requester, port
<1>2. PortType /\ Caused
  BY TypeParts DEF IInv
<1>3. /\ device' \in Seq(1 .. Current)
      /\ Len(device') = Len(device) - 1 /\ Len(device) \in Nat \ {0}
      /\ \A i \in 1 .. Len(device') : device'[i] = device[i + 1]
  <2>1. device \in Seq(1 .. Current)
    BY <1>2 DEF PortType
  <2>. QED
    BY <1>1, <2>1, HeadTailProperties, EmptySeq
<1>4. PortType'
  BY <1>1, <1>2, <1>3 DEF PortType, Current
<1>5. Caused'
  <2>1. \A i \in 1 .. Len(device') : OnWire(device'[i])
    BY <1>2, <1>3 DEF Caused
  <2>. QED
    BY <1>1, <1>2, <2>1 DEF Caused, OnWire
<1>6. Quiet'
  <2>1. CASE quiet /\ waiting
    <3>1. AtDevice
      BY <1>3, <2>1 DEF IInv, Quiet, Exchange, ToWrite, OnLine, HalfWay, Arrived
    <3>2. ToWrite'
      BY <1>1, <1>3, <3>1 DEF AtDevice, ToWrite, Unanswered
    <3>. QED
      BY <1>1, <2>1, <3>2 DEF Quiet, Exchange
  <2>2. CASE ~(quiet /\ waiting)
    BY <1>1, <2>2 DEF IInv, Quiet
  <2>. QED
    BY <2>1, <2>2
<1>. QED
  BY <1>1, <1>4, <1>5, <1>6, SameRequester, SameLine, SameWriting, SameRecord, SameLog,
     Assembled DEF requester, log

LEMMA LoseLineStep ==
  ASSUME IInv, LoseLine
  PROVE  IInv'
<1>1. /\ losses < MaxLosses /\ losses' = losses + 1 /\ line' = <<>> /\ device' = <<>>
      /\ UNCHANGED <<transport, requests, ids, waiting, toRecord, quiet, outcome, sent,
                     lastSent, writer, wire, raw, received, log, panel>>
  BY DEF LoseLine, requester, port
<1>2. PortType /\ LineType /\ Caused
  BY TypeParts DEF IInv
<1>3. Len(line') = 0 /\ Len(device') = 0
  BY <1>1
<1>4. PortType'
  BY <1>1, <1>2, EmptySeq DEF PortType, Current
<1>5. LineType'
  BY <1>1, <1>2, EmptySeq, TransactionAssumption DEF LineType
<1>6. Caused'
  BY <1>1, <1>2, <1>3 DEF Caused, OnWire
<1>7. Quiet'
  <2>1. CASE quiet /\ waiting
    <3>1. Exchange
      BY <2>1 DEF IInv, Quiet
    <3>2. CASE ToWrite \/ AtDevice \/ (\E kind \in Kinds : OnLine(kind))
      <4>1. received = None /\ Len(raw) = 0
        BY <3>2 DEF AtDevice, ToWrite, OnLine, Unanswered
      <4>2. ToWrite'
        BY <1>1, <1>3, <4>1 DEF ToWrite, Unanswered
      <4>. QED
        BY <1>1, <2>1, <4>2 DEF Quiet, Exchange
    <3>3. CASE \E kind \in Kinds : HalfWay(kind) \/ Arrived(kind)
      <4>1. PICK kind \in Kinds : HalfWay(kind) \/ Arrived(kind)
        BY <3>3
      <4>2. HalfWay(kind) => HalfWay(kind)'
        BY <1>1, <1>3 DEF HalfWay, Done, Head1, Tail1, Answer, Current
      <4>3. Arrived(kind) => Arrived(kind)'
        BY <1>1, <1>3 DEF Arrived, Done, Answer, Current
      <4>. QED
        BY <1>1, <2>1, <4>1, <4>2, <4>3 DEF Quiet, Exchange
    <3>. QED
      BY <3>1, <3>2, <3>3 DEF Exchange
  <2>2. CASE ~(quiet /\ waiting)
    BY <1>1, <2>2 DEF IInv, Quiet
  <2>. QED
    BY <2>1, <2>2
<1>. QED
  BY <1>1, <1>4, <1>5, <1>6, <1>7, SameRequester, SameWriting, SameRecord, SameLog,
     Assembled DEF requester, log

LEMMA ReceiveStep ==
  ASSUME IInv, NEW n \in 1 .. 2 * MaxRequests, Receive(n)
  PROVE  IInv'
<1> DEFINE taken == SubSeq(line, 1, n)
           bytes == raw \o taken
<1>1. /\ n <= Len(line) /\ line' = SubSeq(line, n + 1, Len(line))
      /\ UNCHANGED <<transport, requests, ids, waiting, toRecord, quiet, outcome, sent,
                     lastSent, writer, wire, device, losses, log, panel>>
  BY DEF Receive, requester, port
<1>2. PICK expected \in ExpectedLengths(bytes) :
        IF expected = 0 \/ Len(bytes) < expected
        THEN raw' = bytes /\ received' = received
        ELSE raw' = SubSeq(bytes, 1, expected) /\ received' = FrameOf(bytes)
  BY DEF Receive
<1>3. PortType /\ LineType /\ Caused
  BY TypeParts DEF IInv
<1>4. line \in Seq(Chunks) /\ raw \in Seq(Chunks) /\ n \in Nat \ {0}
  BY <1>3, TransactionAssumption DEF LineType
<1>5. Len(line) \in Nat /\ Len(raw) \in Nat /\ \A i \in 1 .. Len(line) : line[i] \in Chunks
  BY <1>4, LenProperties, ElementOfSeq
<1>6. /\ taken \in Seq(Chunks) /\ Len(taken) = n
      /\ \A i \in 1 .. n : taken[i] = line[i]
  <2>1. \A i \in 1 .. n : line[i] \in Chunks
    BY <1>1, <1>4, <1>5
  <2>. QED
    BY <1>4, <2>1, SubSeqProperties
<1>7. /\ line' \in Seq(Chunks) /\ Len(line') = Len(line) - n
      /\ \A i \in 1 .. Len(line) - n : line'[i] = line[n + i]
  <2>1. \A i \in n + 1 .. Len(line) : line[i] \in Chunks
    BY <1>4, <1>5
  <2>2. /\ SubSeq(line, n + 1, Len(line)) \in Seq(Chunks)
        /\ Len(SubSeq(line, n + 1, Len(line)))
             = IF n + 1 <= Len(line) THEN Len(line) - (n + 1) + 1 ELSE 0
        /\ \A i \in 1 .. Len(line) - (n + 1) + 1 :
             SubSeq(line, n + 1, Len(line))[i] = line[n + 1 + i - 1]
    BY <1>4, <1>5, <2>1, SubSeqProperties
  <2>3. /\ Len(line) - (n + 1) + 1 = Len(line) - n
        /\ \A i \in 1 .. Len(line) - n : n + 1 + i - 1 = n + i
    BY <1>4, <1>5
  <2>. QED
    BY <1>1, <1>4, <1>5, <2>2, <2>3
<1> HIDE DEF taken
<1>8. /\ bytes \in Seq(Chunks) /\ Len(bytes) = Len(raw) + n
      /\ \A i \in 1 .. Len(raw) + n :
           bytes[i] = IF i <= Len(raw) THEN raw[i] ELSE taken[i - Len(raw)]
  BY <1>4, <1>6, ConcatProperties
<1> HIDE DEF bytes
<1>9. \A i \in 1 .. Len(bytes) : bytes[i] \in Chunks /\ OnWire(bytes[i].of.answers)
  <2> SUFFICES ASSUME NEW i \in 1 .. Len(bytes)
               PROVE  OnWire(bytes[i].of.answers)
    BY <1>8, ElementOfSeq
  <2>1. CASE i <= Len(raw)
    <3>1. i \in 1 .. Len(raw) /\ bytes[i] = raw[i]
      BY <1>5, <1>8, <2>1
    <3>. QED
      BY <1>3, <3>1 DEF Caused
  <2>2. CASE i > Len(raw)
    <3>1. i - Len(raw) \in 1 .. n /\ bytes[i] = taken[i - Len(raw)]
      BY <1>4, <1>5, <1>8, <2>2
    <3>2. i - Len(raw) \in 1 .. Len(line) /\ bytes[i] = line[i - Len(raw)]
      BY <1>1, <1>4, <1>5, <1>6, <3>1
    <3>. QED
      BY <1>3, <3>2 DEF Caused
  <2>. QED
    BY <1>5, <1>8, <2>1, <2>2
<1>10. 1 \in 1 .. Len(bytes) /\ Len(bytes) \in Nat /\ expected \in Nat
  <2>1. 1 \in 1 .. Len(bytes) /\ Len(bytes) \in Nat
    BY <1>4, <1>5, <1>8
  <2>2. expected \in {2} \/ expected \in 0 .. Len(bytes)
    BY <1>2 DEF ExpectedLengths
  <2>. QED
    BY <2>1, <2>2
<1>11. \/ raw' = bytes
       \/ /\ raw' = SubSeq(bytes, 1, expected)
          /\ expected \in 1 .. Len(bytes)
  BY <1>2, <1>10
<1>12. /\ raw' \in Seq(Chunks) /\ Len(raw') \in Nat
       /\ \A i \in 1 .. Len(raw') : i \in 1 .. Len(bytes) /\ raw'[i] = bytes[i]
  <2>1. CASE raw' = bytes
    BY <1>8, <1>10, <2>1
  <2>2. CASE raw' = SubSeq(bytes, 1, expected) /\ expected \in 1 .. Len(bytes)
    <3>1. \A i \in 1 .. expected : bytes[i] \in Chunks
      BY <1>9, <1>10, <2>2
    <3>2. /\ SubSeq(bytes, 1, expected) \in Seq(Chunks)
          /\ Len(SubSeq(bytes, 1, expected)) = expected
          /\ \A i \in 1 .. expected : SubSeq(bytes, 1, expected)[i] = bytes[i]
      BY <1>10, <2>2, <3>1, SubSeqProperties
    <3>. QED
      BY <1>10, <2>2, <3>2
  <2>. QED
    BY <1>11, <2>1, <2>2
<1>13. received' \in Answers \cup {None, Junk} /\ (received'.answers = 0 \/ OnWire(received'.answers))
  <2>1. CASE received' = received
    BY <1>3, <2>1 DEF LineType, Caused
  <2>2. CASE received' = bytes[1].of
    <3>1. bytes[1] \in Chunks /\ OnWire(bytes[1].of.answers)
      BY <1>9, <1>10
    <3>. QED
      BY <2>2, <3>1 DEF Chunks
  <2>3. CASE received' = Junk
    BY <2>3 DEF Junk
  <2>. QED
    BY <1>2, <2>1, <2>2, <2>3 DEF FrameOf
<1>14. LineType'
  BY <1>1, <1>3, <1>7, <1>12, <1>13 DEF LineType
<1>15. PortType'
  BY <1>1, <1>3 DEF PortType, Current
<1>16. Caused'
  <2>1. \A i \in 1 .. Len(raw') : OnWire(raw'[i].of.answers)
    BY <1>9, <1>12
  <2>2. \A i \in 1 .. Len(line') : OnWire(line'[i].of.answers)
    <3> SUFFICES ASSUME NEW i \in 1 .. Len(line') PROVE OnWire(line'[i].of.answers)
      OBVIOUS
    <3>1. n + i \in 1 .. Len(line) /\ line'[i] = line[n + i]
      BY <1>1, <1>4, <1>5, <1>7
    <3>. QED
      BY <1>3, <3>1 DEF Caused
  <2>. QED
    BY <1>1, <1>3, <1>13, <2>1, <2>2 DEF Caused, OnWire
<1>17. Quiet'
  <2>1. CASE quiet /\ waiting
    <3>1. PICK kind \in Kinds : OnLine(kind) \/ (HalfWay(kind) /\ Len(line) # 0)
      BY <1>1, <1>4, <1>5, <2>1
         DEF IInv, Quiet, Exchange, ToWrite, AtDevice, Unanswered, OnLine, HalfWay, Arrived
    <3>2. bytes[1] = Head1(kind)
      <4>1. CASE OnLine(kind)
        <5>1. Len(raw) = 0 /\ line[1] = Head1(kind)
          BY <4>1 DEF OnLine
        <5>2. bytes[1] = taken[1] /\ taken[1] = line[1]
          BY <1>4, <1>6, <1>8, <5>1
        <5>. QED
          BY <5>1, <5>2
      <4>2. CASE HalfWay(kind)
        <5>1. Len(raw) = 1 /\ raw[1] = Head1(kind)
          BY <4>2 DEF HalfWay
        <5>. QED
          BY <1>4, <1>8, <5>1
      <4>. QED
        BY <3>1, <4>1, <4>2
    <3>3. expected = 2
      BY <1>2, <3>2 DEF ExpectedLengths, Head1
    <3>4. FrameOf(bytes) = Answer(Current, kind)
      BY <3>2 DEF FrameOf, Head1
    <3>5. Done /\ Len(device) = 0 /\ received = None
      BY <3>1 DEF OnLine, HalfWay
    <3>6. CASE Len(bytes) < 2
      <4>1. Len(raw) = 0 /\ n = 1 /\ OnLine(kind)
        BY <1>4, <1>5, <1>8, <3>1, <3>6 DEF HalfWay
      <4>2. Len(line) = 2 /\ line[2] = Tail1(kind)
        BY <4>1 DEF OnLine
      <4>3. Len(line') = 1 /\ line'[1] = Tail1(kind)
        BY <1>7, <4>1, <4>2
      <4>4. raw' = bytes /\ received' = None /\ Len(bytes) = 1
        BY <1>2, <1>8, <3>3, <3>5, <3>6, <4>1
      <4>5. HalfWay(kind)'
        BY <1>1, <3>2, <3>5, <4>3, <4>4
           DEF HalfWay, Done, Head1, Tail1, Answer, Current
      <4>. QED
        BY <1>1, <2>1, <4>5 DEF Quiet, Exchange
    <3>7. CASE ~(Len(bytes) < 2)
      <4>1. received' = Answer(Current, kind)
        BY <1>2, <3>3, <3>4, <3>7
      <4>2. Len(line') = 0
        <5>1. CASE OnLine(kind)
          <6>1. Len(raw) = 0 /\ Len(line) = 2
            BY <5>1 DEF OnLine
          <6>. QED
            BY <1>1, <1>4, <1>7, <1>8, <3>7, <6>1
        <5>2. CASE HalfWay(kind) /\ Len(line) # 0
          <6>1. Len(line) = 1
            BY <5>2 DEF HalfWay
          <6>. QED
            BY <1>1, <1>4, <1>7, <6>1
        <5>. QED
          BY <3>1, <5>1, <5>2
      <4>3. Arrived(kind)'
        BY <1>1, <3>5, <4>1, <4>2 DEF Arrived, Done, Answer, Current
      <4>. QED
        BY <1>1, <2>1, <4>3 DEF Quiet, Exchange
    <3>. QED
      BY <3>6, <3>7
  <2>2. CASE ~(quiet /\ waiting)
    BY <1>1, <2>2 DEF IInv, Quiet
  <2>. QED
    BY <2>1, <2>2
<1>. QED
  BY <1>1, <1>14, <1>15, <1>16, <1>17, SameRequester, SameWriting, SameRecord, SameLog,
     Assembled DEF requester, log

-----------------------------------------------------------------------------
(* The GUI.                                                                *)
LEMMA GuiStep ==
  ASSUME IInv, Gui, UNCHANGED <<transport, requester, port, link, raw, received>>
  PROVE  IInv'
<1>1. UNCHANGED <<transport, requests, ids, waiting, toRecord, quiet, outcome, sent,
                  lastSent, writer, wire, device, line, losses, raw, received>>
  BY DEF requester, port, link
<1>2. LogType /\ Cursor /\ ViewMatchesLog
  BY TypeParts DEF IInv
<1>3. LogType' /\ Cursor' /\ ViewMatchesLog' /\ Recorded'
  <2>1. CASE \E on \in BOOLEAN : SetRecording(on)
    <3>1. /\ uses < MaxUses /\ uses' = uses + 1 /\ recording' \in BOOLEAN
          /\ frames' = frames /\ generation' = generation /\ cursor' = cursor
          /\ view' = view
      BY <2>1 DEF SetRecording, log
    <3>2. LogType'
      BY <1>2, <3>1, LogAssumption DEF LogType
    <3>3. Cursor' /\ ViewMatchesLog'
      BY <1>2, <3>1 DEF Cursor, ViewMatchesLog
    <3>. QED
      BY <1>1, <3>1, <3>2, <3>3, SameRecord
  <2>2. CASE StopRecording
    <3>1. /\ uses < MaxUses /\ uses' = uses + 1 /\ recording' = FALSE /\ Discard
          /\ cursor' = cursor /\ view' = view
      BY <2>2 DEF StopRecording
    <3>2. /\ frames' \in Seq(Entries) /\ generation' \in Nat
          /\ Cursor' /\ ViewMatchesLog' /\ Recorded'
      BY <3>1, DiscardStep
    <3>3. LogType'
      <4>1. recording' \in BOOLEAN
        BY <3>1
      <4>2. uses' \in 0 .. MaxUses
        BY <1>2, <3>1, LogAssumption DEF LogType
      <4>. QED
        BY <1>2, <3>1, <3>2, <4>1, <4>2 DEF LogType
    <3>. QED
      BY <3>2, <3>3
  <2>3. CASE ClearRecording
    <3>1. /\ uses < MaxUses /\ uses' = uses + 1 /\ recording' = recording /\ Discard
          /\ cursor' = cursor /\ view' = <<>>
      BY <2>3 DEF ClearRecording
    <3>2. /\ frames' \in Seq(Entries) /\ generation' \in Nat
          /\ Cursor' /\ ViewMatchesLog' /\ Recorded'
      BY <3>1, DiscardStep
    <3>3. LogType'
      BY <1>2, <3>1, <3>2, EmptySeq, LogAssumption DEF LogType
    <3>. QED
      BY <3>2, <3>3
  <2>4. CASE ShowNewFrames
    <3> DEFINE from == IF cursor.generation # generation THEN 0 ELSE cursor.index
               news == SubSeq(frames, from + 1, Len(frames))
    <3>1. /\ view' = (IF cursor.generation # generation THEN <<>> ELSE view) \o news
          /\ cursor' = [index |-> Len(frames), generation |-> generation]
          /\ frames' = frames /\ generation' = generation /\ recording' = recording
          /\ uses' = uses
      BY <2>4 DEF ShowNewFrames, log
    <3>2. frames \in Seq(Entries) /\ Len(frames) \in Nat
      BY <1>2, LenProperties DEF LogType
    <3>3. SubSeq(frames, 1, Len(frames)) = frames
      BY <3>2, SubSeqFull
    <3>4. view' = frames
      <4>1. CASE cursor.generation # generation
        <5>1. news = frames
          BY <3>3, <4>1
        <5>. QED
          BY <3>1, <3>2, <4>1, <5>1, ConcatEmptySeq
      <4>2. CASE cursor.generation = generation
        <5>1. /\ cursor.index <= Len(frames) /\ cursor.index \in Nat
              /\ view = SubSeq(frames, 1, cursor.index)
          BY <1>2, <4>2 DEF ViewMatchesLog, LogType
        <5>2. news = SubSeq(frames, cursor.index + 1, Len(frames))
          BY <4>2
        <5>3. cursor.index \in 1 - 1 .. Len(frames) /\ Len(frames) \in cursor.index .. Len(frames)
              /\ 1 \in 1 .. Len(frames) + 1
          BY <3>2, <5>1
        <5>4. SubSeq(frames, 1, cursor.index) \o SubSeq(frames, cursor.index + 1, Len(frames))
                = SubSeq(frames, 1, Len(frames))
          BY <3>2, <5>3, ConcatAdjacentSubSeq
        <5>. QED
          BY <3>1, <3>3, <4>2, <5>1, <5>2, <5>4
      <4>. QED
        BY <4>1, <4>2
    <3>5. cursor'.index = Len(frames) /\ cursor'.generation = generation
          /\ cursor' \in [index : Nat, generation : Nat]
      BY <1>2, <3>1, <3>2 DEF LogType
    <3>6. LogType'
      BY <1>2, <3>1, <3>2, <3>4, <3>5 DEF LogType
    <3>7. Cursor'
      BY <1>2, <3>1, <3>5 DEF Cursor, LogType
    <3>8. ViewMatchesLog'
      <4>1. cursor'.index <= Len(frames')
        BY <3>1, <3>2, <3>5
      <4>2. view' = SubSeq(frames', 1, cursor'.index)
        BY <3>1, <3>3, <3>4, <3>5
      <4>. QED
        BY <4>1, <4>2 DEF ViewMatchesLog
    <3>. QED
      BY <1>1, <3>1, <3>6, <3>7, <3>8, SameRecord
  <2>. QED
    BY <2>1, <2>2, <2>3, <2>4 DEF Gui
<1>. QED
  BY <1>1, <1>3, SameRequester, SamePort, SameLine, SameWriting, SameCause,
     SameExchange, Assembled DEF requester

-----------------------------------------------------------------------------
LEMMA IInvNext == IInv /\ [Next]_vars => IInv'
<1> SUFFICES ASSUME IInv, [Next]_vars PROVE IInv'
  OBVIOUS
<1>1. CASE \E shape \in Shapes \cup {"custom"} : Request(shape)
  BY <1>1, RequestStep
<1>2. CASE TakeResponse \/ GiveUp \/ RecordOutcome
  BY <1>2, TakeResponseStep, GiveUpStep, RecordOutcomeStep
<1>3. CASE OnDataSent
  BY <1>3, TrimLogStep, RecordSentStep, WriteSentStep, MoveSentStep DEF OnDataSent
<1>4. CASE (\E kind \in Kinds : Respond(kind)) \/ Ignore \/ LoseLine
  BY <1>4, RespondStep, IgnoreStep, LoseLineStep
<1>5. CASE \E n \in 1 .. 2 * MaxRequests : Receive(n)
  BY <1>5, ReceiveStep
<1>6. CASE Gui /\ UNCHANGED <<transport, requester, port, link, raw, received>>
  BY <1>6, GuiStep
<1>7. CASE UNCHANGED vars
  BY <1>7, Stutter
<1>. QED
  BY <1>1, <1>2, <1>3, <1>4, <1>5, <1>6, <1>7 DEF Next

LEMMA Invariance == Spec => []IInv
<1>1. Init => IInv
  BY IInvInit
<1>2. IInv /\ [Next]_vars => IInv'
  BY IInvNext
<1>. QED
  BY <1>1, <1>2, PTL DEF Spec

(* Every variable keeps its type; requests, log entries and what the panel *)
(* shows name requests that have been made.                                *)
THEOREM TypeCorrect == Spec => []TypeOK
<1>1. IInv => TypeOK
  BY DEF IInv
<1>. QED
  BY <1>1, Invariance, PTL

(* What the panel shows is what the log holds up to the panel's cursor,    *)
(* whoever trims and clears the log in between (ModbusLogPanel::On10MsTimer *)
(* against ModbusFrameLog::TrimIfFull and Clear).                          *)
THEOREM ViewMatches == Spec => []ViewMatchesLog
<1>1. IInv => ViewMatchesLog
  BY DEF IInv
<1>. QED
  BY <1>1, Invariance, PTL

(* A request that was made on a silent line never fails on a wrong answer, *)
(* whatever went wrong with earlier ones (NotifyAndWaitForResponse clears  *)
(* the receive buffer).                                                    *)
THEOREM SilenceHelps == Spec => []SilenceResynchronises
<1>1. IInv => SilenceResynchronises
  BY DEF IInv, Quiet, SilenceResynchronises
<1>. QED
  BY <1>1, Invariance, PTL

-----------------------------------------------------------------------------
(* Only RecordSent adds a TX entry, for a request that is not on the wire, *)
(* and an RX entry names a request that is.                                *)
LEMMA AnswerAfterInit == Init => AnswerAfterRequest
<1> SUFFICES ASSUME Init PROVE AnswerAfterRequest
  OBVIOUS
<1>1. DOMAIN frames = {}
  BY DEF Init, LogInit
<1>. QED
  BY <1>1 DEF AnswerAfterRequest

LEMMA AnswerAfterAppend ==
  ASSUME IInv, AnswerAfterRequest, NEW entry \in Entries, frames' = Append(frames, entry),
         entry.dir = "TX" => entry.of # 0 /\ ~OnWire(entry.of)
  PROVE  AnswerAfterRequest'
<1>1. frames \in Seq(Entries)
  BY TypeParts DEF IInv, LogType
<1>2. /\ frames' \in Seq(Entries) /\ Len(frames') = Len(frames) + 1 /\ Len(frames) \in Nat
      /\ DOMAIN frames = 1 .. Len(frames) /\ DOMAIN frames' = 1 .. Len(frames')
      /\ \A i \in 1 .. Len(frames) : frames'[i] = frames[i]
      /\ frames'[Len(frames) + 1] = entry
  BY <1>1, AppendProperties, LenProperties
<1> SUFFICES ASSUME NEW i \in 1 .. Len(frames'), NEW j \in 1 .. Len(frames'),
                    frames'[i].dir = "RX",
                    frames'[j] = [dir |-> "TX", of |-> frames'[i].of]
             PROVE  j < i
  BY <1>2 DEF AnswerAfterRequest
<1>3. i # j
  OBVIOUS
<1>4. CASE i = Len(frames) + 1
  BY <1>2, <1>3, <1>4
<1>5. CASE i # Len(frames) + 1 /\ j # Len(frames) + 1
  <2>1. i \in DOMAIN frames /\ j \in DOMAIN frames
    BY <1>2, <1>5
  <2>2. frames'[i] = frames[i] /\ frames'[j] = frames[j]
    BY <1>2, <2>1
  <2>. QED
    BY <2>1, <2>2 DEF AnswerAfterRequest
<1>6. CASE i # Len(frames) + 1 /\ j = Len(frames) + 1
  <2>1. i \in 1 .. Len(frames) /\ frames'[i] = frames[i] /\ frames'[j] = entry
    BY <1>2, <1>6
  <2>2. entry.dir = "TX" /\ entry.of = frames[i].of /\ frames[i].dir = "RX"
    BY <2>1
  <2>3. frames[i].of = 0 \/ OnWire(frames[i].of)
    BY <2>1, <2>2 DEF IInv, Recorded
  <2>. QED
    BY <2>2, <2>3
<1>. QED
  BY <1>4, <1>5, <1>6

LEMMA AnswerAfterNext == IInv /\ AnswerAfterRequest /\ [Next]_vars => AnswerAfterRequest'
<1> SUFFICES ASSUME IInv, AnswerAfterRequest, [Next]_vars PROVE AnswerAfterRequest'
  OBVIOUS
<1>1. CASE UNCHANGED log
  BY <1>1 DEF AnswerAfterRequest, log
<1>2. CASE frames' = <<>>
  <2>1. DOMAIN frames' = {}
    BY <1>2
  <2>. QED
    BY <2>1 DEF AnswerAfterRequest
<1>3. CASE RecordOutcome
  <2> DEFINE entry == [dir |-> toRecord,
                       of |-> IF toRecord = "RX" THEN outcome.answers ELSE lastSent]
  <2>1. frames' = Append(frames, entry) /\ toRecord # "nothing"
    BY <1>3 DEF RecordOutcome, RecordFrame
  <2>2. RequesterType /\ PortType
    BY TypeParts DEF IInv
  <2>3. toRecord \in {"RX", "timeout"}
    BY <2>1, <2>2 DEF RequesterType
  <2>4. outcome.answers \in 0 .. MaxRequests /\ lastSent \in 0 .. MaxRequests
    BY <2>2, Sizes, TransactionAssumption DEF RequesterType, PortType
  <2>5. entry \in Entries
    BY <2>3, <2>4 DEF Entries
  <2>6. entry.dir # "TX"
    BY <2>3
  <2>. QED
    BY <2>1, <2>5, <2>6, AnswerAfterAppend
<1>4. CASE RecordSent
  <2> DEFINE entry == [dir |-> "TX", of |-> sent]
  <2>1. frames' = Append(frames, entry) /\ writer = "trimmed"
    BY <1>4 DEF RecordSent, RecordFrame
  <2>2. PortType /\ Writing
    BY TypeParts DEF IInv
  <2>3. sent # 0 /\ \A i \in 1 .. Len(wire) : wire[i] < sent
    BY <2>1, <2>2 DEF Writing
  <2>4. sent \in 0 .. MaxRequests
    BY <2>2, Sizes, TransactionAssumption DEF PortType
  <2>5. ~OnWire(sent)
    <3>1. \A i \in 1 .. Len(wire) : wire[i] \in Nat
      BY Sizes
    <3>. QED
      BY <2>3, <2>4, <3>1 DEF OnWire
  <2>6. entry \in Entries
    BY <2>4 DEF Entries
  <2>. QED
    BY <2>1, <2>3, <2>5, <2>6, AnswerAfterAppend
<1>. QED
  BY <1>1, <1>2, <1>3, <1>4
     DEF Next, vars, Request, TakeResponse, GiveUp, OnDataSent, TrimLog,
         CheckMaxEntries, Discard, WriteSent, MoveSent, Respond, Ignore, LoseLine,
         Receive, Gui, SetRecording, StopRecording, ClearRecording, ShowNewFrames

(* In a recording no answer stands before its request, although two        *)
(* threads append (OnDataSent, NotifyAndWaitForResponse).                  *)
THEOREM AnswersFollow == Spec => []AnswerAfterRequest
BY Invariance, AnswerAfterInit, AnswerAfterNext, PTL DEF Spec

-----------------------------------------------------------------------------
(* WrittenInOrder: what the requesting thread makes is accepted, what the  *)
(* serial worker writes is sent.                                           *)
LEMMA WireStep ==
  IInv /\ [Next]_vars => [Channel!Next]_<<Current, wire>>
<1> SUFFICES ASSUME IInv, [Next]_vars
             PROVE  [Channel!Next]_<<Current, wire>>
  OBVIOUS
<1>1. CASE \E shape \in Shapes \cup {"custom"} : Request(shape)
  <2>1. PICK shape \in Shapes \cup {"custom"} : Request(shape)
    BY <1>1
  <2>2. requests' = Append(requests, [shape |-> shape, id |-> ids]) /\ wire' = wire
    BY <2>1 DEF Request
  <2>3. requests \in Seq(Specs)
    BY TypeParts DEF IInv, RequesterType
  <2>4. [shape |-> shape, id |-> ids] \in Specs
    BY TypeParts DEF IInv, RequesterType, Specs
  <2>5. Current' = Current + 1
    BY <2>2, <2>3, <2>4, AppendProperties DEF Current
  <2>. QED
    BY <2>2, <2>5 DEF Channel!Next, Channel!Accept
<1>2. CASE WriteSent
  <2>1. wire' = Append(wire, sent) /\ requests' = requests /\ writer = "recorded"
    BY <1>2 DEF WriteSent, requester
  <2>2. PortType /\ Writing
    BY TypeParts DEF IInv
  <2>3. sent \in 1 .. Current /\ \A i \in 1 .. Len(wire) : wire[i] < sent
    BY <2>1, <2>2, Sizes DEF Writing
  <2>4. DOMAIN wire = 1 .. Len(wire)
    BY <2>2, LenProperties DEF PortType
  <2>5. Current' = Current
    BY <2>1 DEF Current
  <2>6. Channel!Send(sent)
    BY <2>1, <2>3, <2>4, <2>5 DEF Channel!Send
  <2>. QED
    BY <2>3, <2>6 DEF Channel!Next
<1>3. CASE UNCHANGED <<requests, wire>>
  BY <1>3 DEF Current
<1>. QED
  BY <1>1, <1>2, <1>3
     DEF Next, vars, requester, port, TakeResponse, GiveUp, RecordOutcome,
         OnDataSent, TrimLog, RecordSent, MoveSent, Respond, Ignore, LoseLine,
         Receive

(* The master implements FrameChannel: a request is written at most once   *)
(* and never after a later one, although m_SentData is assigned and moved  *)
(* by two threads without a lock.                                          *)
THEOREM ImplementsChannel == Spec => WrittenInOrder
<1>1. Init => Channel!Init
  BY DEF Init, Channel!Init, Current
<1>2. IInv /\ [Next]_vars => [Channel!Next]_<<Current, wire>>
  BY WireStep
<1>. QED
  BY <1>1, <1>2, Invariance, PTL DEF Spec, WrittenInOrder, Channel!Spec

-----------------------------------------------------------------------------
(***************************************************************************)
(* OwnAnswer.  The transaction id that comes next is one to Ids steps ahead*)
(* of that of every typed request, and no further ahead than the requests  *)
(* made since; so an id that comes again has gone all the way round.       *)
(***************************************************************************)
Typed(i) == requests[i].shape # "custom"

Distance(i) ==
  IF ids > requests[i].id THEN ids - requests[i].id ELSE ids - requests[i].id + Ids

Numbering ==
  transport = "tcp" =>
    /\ \A i \in 1 .. Current : Typed(i) => Distance(i) <= Current + 1 - i
    /\ \A i \in 1 .. Current - 1 :
         (Typed(i) /\ Typed(Current) /\ requests[i].id = requests[Current].id)
           => Current - i >= Ids

(* Where no answer is late, every request is made on a silent line.        *)
Punctual == transport \notin LateOver => quiet

Own == Numbering /\ Punctual /\ OwnAnswer

LEMMA NextId ==
  ASSUME NEW n \in 0 .. Ids - 1
  PROVE  (n + 1) % Ids = IF n + 1 = Ids THEN 0 ELSE n + 1
<1>1. Ids \in Nat \ {0}
  BY TransactionAssumption
<1>2. CASE n + 1 = Ids
  <2>1. Ids % Ids = 0
    BY <1>1
  <2>. QED
    BY <1>2, <2>1
<1>3. CASE n + 1 # Ids
  <2>1. n + 1 \in 0 .. Ids - 1
    BY <1>1, <1>3
  <2>2. (n + 1) % Ids = n + 1
    BY <1>1, <2>1
  <2>. QED
    BY <1>3, <2>2
<1>. QED
  BY <1>2, <1>3

LEMMA OwnInit == Init => Own
<1> SUFFICES ASSUME Init PROVE Own
  OBVIOUS
<1>1. Current = 0
  BY DEF Init, Current
<1>2. Numbering
  BY <1>1 DEF Numbering
<1>. QED
  BY <1>2 DEF Init, Own, Punctual, OwnAnswer

LEMMA RequestNumbers ==
  ASSUME IInv, Numbering, NEW shape \in Shapes \cup {"custom"}, Request(shape)
  PROVE  Numbering'
<1> DEFINE request == [shape |-> shape, id |-> ids]
<1>1. /\ requests' = Append(requests, request) /\ transport' = transport
      /\ ids' = IF transport = "tcp" /\ shape # "custom" THEN (ids + 1) % Ids ELSE ids
  BY DEF Request
<1>2. /\ requests \in Seq(Specs) /\ ids \in 0 .. Ids - 1 /\ Current \in Nat
      /\ Ids \in Nat \ {0}
  BY TypeParts, Sizes, TransactionAssumption DEF IInv, RequesterType
<1>3. request \in Specs /\ request.shape = shape /\ request.id = ids
  BY <1>2 DEF Specs
<1> HIDE DEF request
<1>4. /\ Current' = Current + 1
      /\ \A i \in 1 .. Current : requests'[i] = requests[i]
      /\ requests'[Current + 1] = request
  BY <1>1, <1>2, <1>3, AppendProperties DEF Current
<1>5. \A i \in 1 .. Current : requests[i].id \in 0 .. Ids - 1
  <2>1. \A i \in 1 .. Current : requests[i] \in Specs
    BY <1>2, ElementOfSeq DEF Current
  <2>. QED
    BY <2>1 DEF Specs
<1> SUFFICES ASSUME transport = "tcp"
             PROVE  /\ \A i \in 1 .. Current' : Typed(i)' => Distance(i)' <= Current' + 1 - i
                    /\ \A i \in 1 .. Current' - 1 :
                         (Typed(i)' /\ Typed(Current)' /\ requests'[i].id = requests'[Current'].id)
                           => Current' - i >= Ids
  BY <1>1 DEF Numbering, Typed
<1>6. \A i \in 1 .. Current : Typed(i) => Distance(i) <= Current + 1 - i
  BY DEF Numbering
<1>7. ids' = IF shape = "custom" THEN ids ELSE IF ids + 1 = Ids THEN 0 ELSE ids + 1
  BY <1>1, <1>2, NextId
<1>8. ASSUME NEW i \in 1 .. Current + 1, Typed(i)'
      PROVE  Distance(i)' <= Current + 1 + 1 - i
  <2>1. CASE i = Current + 1
    <3>1. shape # "custom" /\ requests'[i].id = ids
      BY <1>3, <1>4, <1>8, <2>1 DEF Typed
    <3>2. Distance(i)' = 1
      BY <1>2, <1>7, <3>1 DEF Distance
    <3>. QED
      BY <1>2, <2>1, <3>2
  <2>2. CASE i # Current + 1
    <3>1. i \in 1 .. Current /\ requests'[i] = requests[i]
      BY <1>2, <1>4, <2>2
    <3>2. Distance(i) <= Current + 1 - i
      BY <1>6, <1>8, <3>1 DEF Typed
    <3>3. Distance(i)' <= Distance(i) + 1 /\ Distance(i)' \in Int /\ Distance(i) \in Int
      <4> DEFINE k == requests[i].id
      <4>1. k \in 0 .. Ids - 1
        BY <1>5, <3>1
      <4>2. /\ Distance(i) = IF ids > k THEN ids - k ELSE ids - k + Ids
            /\ Distance(i)' = IF ids' > k THEN ids' - k ELSE ids' - k + Ids
        BY <3>1 DEF Distance
      <4>3. ids' = ids \/ ids' = ids + 1 \/ (ids' = 0 /\ ids + 1 = Ids)
        BY <1>7
      <4> HIDE DEF k
      <4>. QED
        BY <1>2, <4>1, <4>2, <4>3
    <3>. QED
      BY <1>2, <3>1, <3>2, <3>3
  <2>. QED
    BY <2>1, <2>2
<1>9. ASSUME NEW i \in 1 .. Current, Typed(i)', requests'[i].id = requests'[Current'].id
      PROVE  Current' - i >= Ids
  <2>1. requests[i].id = ids /\ Typed(i)
    BY <1>3, <1>4, <1>9 DEF Typed
  <2>2. Distance(i) = Ids
    BY <1>2, <2>1 DEF Distance
  <2>. QED
    BY <1>2, <1>4, <1>6, <2>1, <2>2
<1>. QED
  BY <1>2, <1>4, <1>8, <1>9

LEMMA TakeOwn ==
  ASSUME "rtu" \notin LateOver, IInv, Own, TakeResponse
  PROVE  OwnAnswer'
<1>1. /\ waiting /\ received # None /\ requests' = requests
      /\ outcome' = [verdict |-> Verdict(received), answers |-> received.answers]
  BY DEF TakeResponse
<1>2. /\ received \in Answers \cup {None, Junk} /\ transport \in {"rtu", "tcp"}
      /\ Current \in Nat /\ Ids \in Nat
  BY TypeParts, Sizes, TransactionAssumption DEF IInv, LineType, RequesterType
<1> SUFFICES ASSUME Verdict(received) = "accepted", requests[Current].shape # "custom"
             PROVE  \/ received.answers = Current
                    \/ Current - received.answers >= Ids
  BY <1>1 DEF OwnAnswer, Current
<1>3. received # Junk /\ Matches(received)
  BY DEF Verdict
<1>4. received \in Answers
  BY <1>1, <1>2, <1>3
<1>5. received.answers \in 1 .. Current
  <2>1. received.answers # 0
    BY <1>4 DEF Answers
  <2>. QED
    BY <2>1, Sizes DEF IInv, Caused, OnWire
<1>6. CASE transport = "tcp"
  <2>1. /\ requests[received.answers].id = requests[Current].id
        /\ requests[received.answers].shape = requests[Current].shape
    BY <1>3, <1>6 DEF Matches
  <2>. QED
    BY <1>2, <1>5, <1>6, <2>1 DEF Own, Numbering, Typed
<1>7. CASE transport = "rtu"
  <2>1. Exchange
    BY <1>1, <1>7 DEF Own, Punctual, IInv, Quiet
  <2>2. \E kind \in Kinds : Arrived(kind)
    BY <1>1, <2>1 DEF Exchange, ToWrite, AtDevice, OnLine, HalfWay, Unanswered
  <2>. QED
    BY <2>2 DEF Arrived, Answer
<1>. QED
  BY <1>2, <1>6, <1>7

LEMMA OwnNext ==
  "rtu" \notin LateOver /\ IInv /\ Own /\ [Next]_vars => Own'
<1> SUFFICES ASSUME "rtu" \notin LateOver, IInv, Own, [Next]_vars PROVE Own'
  OBVIOUS
<1>1. ASSUME NEW shape \in Shapes \cup {"custom"}, Request(shape) PROVE Own'
  <2>1. Punctual'
    BY <1>1 DEF Request, InTime, Silent, Punctual, Own
  <2>2. OwnAnswer'
    BY <1>1 DEF Request, OwnAnswer
  <2>. QED
    BY <1>1, <2>1, <2>2, RequestNumbers DEF Own
<1>2. ASSUME UNCHANGED <<transport, requests, ids, quiet>>
      PROVE  Numbering' /\ Punctual'
  BY <1>2 DEF Own, Numbering, Punctual, Typed, Distance, Current
<1>3. CASE TakeResponse
  BY <1>2, <1>3, TakeOwn DEF TakeResponse, Own
<1>4. CASE GiveUp
  BY <1>2, <1>4 DEF GiveUp, Own, OwnAnswer
<1>5. CASE UNCHANGED <<transport, requests, ids, quiet, waiting, outcome>>
  BY <1>2, <1>5 DEF Own, OwnAnswer, Current
<1>. QED
  BY <1>1, <1>3, <1>4, <1>5
     DEF Next, vars, requester, RecordOutcome, OnDataSent, TrimLog, RecordSent, WriteSent,
         MoveSent, Respond, Ignore, LoseLine, Receive

(* If answers are not late over RTU, which has no ids to tell them apart   *)
(* by, the values that a typed request returns as accepted were sent in    *)
(* answer to that very request; over TCP also when answers are late,       *)
(* unless as many requests as there are transaction ids came in between    *)
(* (ConsumeSequenceId and the parsers).  It says nothing of exceptions and *)
(* custom commands, which take whatever answer comes.                      *)
THEOREM OwnAnswers ==
  ASSUME "rtu" \notin LateOver
  PROVE  Spec => []OwnAnswer
<1>1. Own => OwnAnswer
  BY DEF Own
<1>. QED
  BY <1>1, Invariance, OwnInit, OwnNext, PTL DEF Spec
=============================================================================
