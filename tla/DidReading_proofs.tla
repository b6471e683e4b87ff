------------------------- MODULE DidReading_proofs -------------------------
(***************************************************************************)
(* Proofs about DidReading, for any identifiers and bounds: types, that    *)
(* the panel hears of every change, and that a value is recorded for the   *)
(* identifier it was read from.                                            *)
(***************************************************************************)
EXTENDS DidReading, SequenceTheorems, TLAPS

(* Where the worker is at work on an identifier.                           *)
Busy == {"session", "answer", "parse", "classify", "mark", "remark", "more",
         "pending", "write session", "write answer", "write more",
         "write pending"}

IInv == TypeOK /\ (pc \in Busy => curr \in Dids)

(* Where answers to the last request may still come.                       *)
Waiting == Busy \ {"mark"}

(* The request that the worker made last.                                  *)
Awaited == CASE pc \in {"session", "write session"} -> "session"
             [] pc \in {"write answer", "write more", "write pending"} -> "write"
             [] OTHER -> "read"

(* An answer to the last request, and whether another one may follow it.   *)
Fits(a) == /\ a.service = Awaited
           /\ a.service = "session" => a.kind # "pending"
           /\ a.service = "read" /\ a.kind = "positive" => a.did = curr
Last(a) == a.kind = "pending" \/ air = <<>>

Guarded == /\ gui \notin {"flag", "cancel"}
           /\ aborted \/ cancelled \/ stop => ~Listening
Silent == /\ ~Listening => air = <<>>
          /\ pc \notin Waiting => air = <<>>
OnAir == \A i \in 1 .. Len(air) :
           Fits(air[i]) /\ (i < Len(air) => air[i].kind = "pending")
Arrived == pc \in Waiting /\ buffer # NoAnswer => Fits(buffer) /\ Last(buffer)
Copied == pc \in {"parse", "classify"} => Fits(response) /\ Last(response)
Parts == Guarded /\ Silent /\ OnAir /\ Arrived /\ Copied

(* With a prompt ECU and no abort, what is on its way or has arrived       *)
(* answers the last request, and only a pending response comes before      *)
(* another answer.                                                         *)
Tidy == Prompt /\ quiet => Parts

-----------------------------------------------------------------------------
(* What the ECU sends about one request.                                   *)
LEMMA RepliesProperties ==
  ASSUME NEW service \in Services, NEW did \in Dids \cup {NoDid},
         NEW reply \in Replies(service, did)
  PROVE  /\ reply \in Seq(Answers)
         /\ \A i \in 1 .. Len(reply) :
              /\ reply[i].service = service
              /\ service = "session" => reply[i].kind # "pending"
              /\ service = "read" /\ reply[i].kind = "positive"
                   => reply[i].did = did
              /\ i < Len(reply) => reply[i].kind = "pending"
<1> DEFINE r(kind) ==
             [service |-> service, kind |-> kind,
              did |-> IF service = "read" /\ kind = "positive" THEN did ELSE NoDid]
           final == {<<r(kind)>> : kind \in {"positive", "nrc"} \cup
                       IF service = "write" THEN {"reject"} ELSE {}}
<1>1. \A kind \in Kinds : r(kind) \in Answers
  BY DEF Answers
<1>2. ASSUME NEW f \in final \cup {<<>>}
      PROVE  /\ f \in Seq(Answers) /\ Len(f) \in Nat /\ Len(f) <= 1
             /\ \A i \in 1 .. Len(f) :
                  /\ i = 1 /\ f[i].service = service
                  /\ f[i].kind \in {"positive", "nrc", "reject"}
                  /\ service = "read" /\ f[i].kind = "positive" => f[i].did = did
  <2>1. CASE f = <<>>
    <3>1. <<>> \in Seq(Answers) /\ Len(<<>>) = 0
      BY EmptySeq
    <3>. QED
      BY <2>1, <3>1
  <2>2. ASSUME NEW kind \in {"positive", "nrc", "reject"}, f = <<r(kind)>>
        PROVE  /\ f \in Seq(Answers) /\ Len(f) = 1 /\ f[1] = r(kind)
    BY <1>1, <2>2 DEF Kinds
  <2>3. CASE f \in final
    <3>1. PICK kind \in {"positive", "nrc", "reject"} : f = <<r(kind)>>
      BY <2>3
    <3>2. f \in Seq(Answers) /\ Len(f) = 1 /\ f[1] = r(kind)
      BY <2>2, <3>1
    <3>. QED
      BY <3>2
  <2>. QED
    BY <2>1, <2>3
<1>3. CASE reply \in final \cup {<<>>}
  BY <1>2, <1>3
<1>4. CASE service # "session" /\ reply \in {<<r("pending")>> \o f : f \in final \cup {<<>>}}
  <2>1. PICK f \in final \cup {<<>>} : reply = <<r("pending")>> \o f
    BY <1>4
  <2>2. f \in Seq(Answers) /\ Len(f) \in Nat
    BY <1>2
  <2>3. <<r("pending")>> \in Seq(Answers) /\ Len(<<r("pending")>>) = 1
        /\ <<r("pending")>>[1] = r("pending")
    BY <1>1 DEF Kinds
  <2>4. /\ reply \in Seq(Answers) /\ Len(reply) = 1 + Len(f)
        /\ reply[1] = r("pending")
        /\ \A i \in 1 .. Len(reply) : i > 1 => reply[i] = f[i - 1]
    <3>. HIDE DEF r, final
    <3>. QED
      BY <2>1, <2>2, <2>3, ConcatProperties
  <2>5. \A i \in 1 .. Len(reply) : i > 1 =>
          /\ i = Len(reply) /\ i - 1 \in 1 .. Len(f) /\ reply[i] = f[i - 1]
    BY <1>2, <2>2, <2>4
  <2>. HIDE DEF final
  <2>. QED
    BY <1>2, <1>4, <2>2, <2>4, <2>5
<1>. QED
  BY <1>3, <1>4 DEF Replies

(* Sending appends answers to the new request, and nothing else.           *)
LEMMA SendProperties ==
  ASSUME TypeOK, NEW service \in Services, NEW did \in Dids \cup {NoDid},
         Send(service, did)
  PROVE  /\ buffer' = NoAnswer /\ response' = NoAnswer /\ cancelled' = FALSE
         /\ air' \in Seq(Answers)
         /\ ~Listening => air' = <<>>
         /\ air = <<>> => \A i \in 1 .. Len(air') :
              /\ air'[i].service = service
              /\ service = "session" => air'[i].kind # "pending"
              /\ service = "read" /\ air'[i].kind = "positive"
                   => air'[i].did = did
              /\ i < Len(air') => air'[i].kind = "pending"
<1>1. PICK reply \in Replies(service, did) :
        /\ Len(air \o reply) <= IF Listening THEN MaxAir ELSE 0
        /\ air' = air \o reply
  BY DEF Send
<1>2. air \in Seq(Answers) /\ reply \in Seq(Answers)
  BY RepliesProperties DEF TypeOK
<1>3. air' \in Seq(Answers)
  BY <1>1, <1>2, ConcatProperties
<1>4. ~Listening => air' = <<>>
  BY <1>1, <1>3, EmptySeq
<1>5. ASSUME air = <<>>
      PROVE  \A i \in 1 .. Len(air') :
               /\ air'[i].service = service
               /\ service = "session" => air'[i].kind # "pending"
               /\ service = "read" /\ air'[i].kind = "positive"
                    => air'[i].did = did
               /\ i < Len(air') => air'[i].kind = "pending"
  <2>1. air' = reply
    BY <1>1, <1>2, <1>5, ConcatEmptySeq
  <2>. QED
    BY <2>1, RepliesProperties
<1>6. buffer' = NoAnswer /\ response' = NoAnswer /\ cancelled' = FALSE
  BY DEF Send
<1>. QED
  BY <1>3, <1>4, <1>5, <1>6, Zenon

LEMMA ReleaseType ==
  ASSUME TypeOK, Release PROVE sem' \in 0 .. MaxSem
BY ReadingAssumption DEF Release, TypeOK

-----------------------------------------------------------------------------
LEMMA NothingType == Nothing \in [Dids -> 0 .. MaxWrites]
BY ReadingAssumption DEF Nothing

LEMMA IInvInit == Init => IInv
<1> SUFFICES ASSUME Init PROVE IInv
  OBVIOUS
<1>1. reads \in Seq(Dids) /\ Len(reads) = 0 /\ air \in Seq(Answers)
  BY EmptySeq DEF Init
<1>2. stop \in BOOLEAN /\ aborted \in BOOLEAN /\ cancelled \in BOOLEAN
      /\ quiet \in BOOLEAN
  BY DEF Init
<1>. QED
  BY <1>1, <1>2, ReadingAssumption
  DEF Init, IInv, TypeOK, Nothing, Positions, Busy

LEMMA IInvGui ==
  ASSUME IInv,
         \/ \E d \in Dids : AddDidToReadQueue(d)
         \/ \E d \in Writable : WriteDid(d)
         \/ NotifyDidUpdate \/ Show
         \/ AbortQueues \/ AbortFlag \/ AbortResponse
         \/ Destroy \/ Destructor
  PROVE  IInv'
<1> USE ReadingAssumption DEF IInv, flags, queues, locals, rounds, model
<1>0. /\ reads \in Seq(Dids) /\ Len(reads) \in Nat /\ air \in Seq(Answers)
      /\ <<>> \in Seq(Dids) /\ <<>> \in Seq(Answers) /\ Len(<<>>) = 0
  BY DEF TypeOK
<1>1. ASSUME NEW d \in Dids, AddDidToReadQueue(d) PROVE IInv'
  <2>1. Append(reads, d) \in Seq(Dids) /\ Len(Append(reads, d)) = Len(reads) + 1
    BY <1>0, AppendProperties
  <2>. QED
    BY <1>1, <2>1, <1>0 DEF AddDidToReadQueue, TypeOK
<1>2. ASSUME NEW d \in Writable, WriteDid(d) PROVE IInv'
  BY <1>2 DEF WriteDid, TypeOK
<1>3. CASE NotifyDidUpdate
  BY <1>3, ReleaseType DEF NotifyDidUpdate, TypeOK
<1>4. CASE Show
  BY <1>4 DEF Show, TypeOK
<1>5. CASE AbortQueues
  <2>1. quiet' \in BOOLEAN
    BY <1>5 DEF AbortQueues
  <2>2. Nothing \in [Dids -> 0 .. MaxWrites]
    BY NothingType
  <2>3. /\ gui' = "flag" /\ reads' = <<>> /\ writes' = Nothing
        /\ UNCHANGED <<flags, calls, pc, locals, buffer, response, model, air>>
    BY <1>5 DEF AbortQueues
  <2>. QED
    BY <1>0, <2>1, <2>2, <2>3 DEF TypeOK
<1>6. CASE AbortFlag
  BY <1>6 DEF AbortFlag, TypeOK
<1>7. CASE AbortResponse
  BY <1>7 DEF AbortResponse, TypeOK
<1>8. CASE Destroy
  BY <1>8, <1>0 DEF Destroy, TypeOK
<1>9. CASE DestroyStop
  BY <1>9, ReleaseType DEF DestroyStop, TypeOK
<1>10. CASE DestroyJoin
  BY <1>10, <1>0 DEF DestroyJoin, TypeOK, Nothing
<1>. QED
  BY <1>1, <1>2, <1>3, <1>4, <1>5, <1>6, <1>7, <1>8, <1>9, <1>10 DEF Destructor

(* Steps of the worker without a request and without a change of the queue *)
(* of reads.                                                               *)
LEMMA IInvWorkerQuiet ==
  ASSUME IInv,
         \/ CheckStop \/ Acquire \/ CheckReading \/ NothingToRead
         \/ ReadAnswered \/ ReadUnanswered \/ AwaitPending \/ RecordPending
         \/ Ignore \/ MarkDidUpdated \/ AwaitMore \/ TakeWrites
         \/ WriteUnanswered \/ WriteAnswered \/ ClearWrites \/ EndRound
  PROVE  IInv'
<1> USE ReadingAssumption DEF IInv, TypeOK, flags, queues, locals, rounds, model,
        Positions, Busy
<1>1. CASE CheckStop
  BY <1>1 DEF CheckStop
<1>2. CASE Acquire
  BY <1>2 DEF Acquire
<1>3. CASE CheckReading
  BY <1>3 DEF CheckReading
<1>4. CASE NothingToRead
  BY <1>4 DEF NothingToRead
<1>5. CASE ReadAnswered
  BY <1>5 DEF ReadAnswered
<1>6. CASE ReadUnanswered
  BY <1>6, ZenonT(40) DEF ReadUnanswered
<1>7. CASE AwaitPending
  BY <1>7 DEF AwaitPending
<1>8. CASE RecordPending
  BY <1>8 DEF RecordPending
<1>9. CASE Ignore
  BY <1>9 DEF Ignore
<1>10. CASE MarkDidUpdated
  BY <1>10, ZenonT(40) DEF MarkDidUpdated
<1>11. CASE AwaitMore
  BY <1>11, ZenonT(40) DEF AwaitMore
<1>12. CASE TakeWrites
  BY <1>12, ZenonT(40) DEF TakeWrites, Nothing
<1>13. CASE WriteUnanswered
  BY <1>13 DEF WriteUnanswered
<1>14. CASE WriteAnswered
  BY <1>14, ZenonT(40) DEF WriteAnswered
<1>15. CASE ClearWrites
  BY <1>15 DEF ClearWrites, Nothing
<1>16. CASE EndRound
  <2>1. aborted' \in BOOLEAN /\ snapshot' = Nothing /\ pc' = "top"
    BY <1>16 DEF EndRound
  <2>2. Nothing \in [Dids -> 0 .. MaxWrites]
    BY NothingType
  <2>3. UNCHANGED <<gui, stop, cancelled, sem, queues, curr, retries, todo, buffer,
                    response, model, air, quiet>>
    BY <1>16 DEF EndRound
  <2>. QED
    BY <2>1, <2>2, <2>3
<1>. QED
  BY <1>1, <1>2, <1>3, <1>4, <1>5, <1>6, <1>7, <1>8,
     <1>9, <1>10, <1>11, <1>12, <1>13, <1>14, <1>15, <1>16

LEMMA IInvWorkerBusy ==
  ASSUME IInv,
         \/ TakeFront \/ SessionAnswered \/ NextWrite \/ WriteSessionAnswered
         \/ SessionUnanswered \/ RecordValue \/ RecordNegative
         \/ OnIsoTpDataReceived
  PROVE  IInv'
<1> USE ReadingAssumption DEF IInv, flags, queues, locals, rounds, model
<1>1. /\ reads \in Seq(Dids) /\ Len(reads) \in Nat /\ air \in Seq(Answers)
      /\ reads # <<>> => /\ Head(reads) \in Dids /\ Tail(reads) \in Seq(Dids)
                         /\ Len(Tail(reads)) = Len(reads) - 1
      /\ air # <<>> => Head(air) \in Answers /\ Tail(air) \in Seq(Answers)
      /\ <<>> \in Seq(Dids) /\ Len(<<>>) = 0
  BY HeadTailProperties DEF TypeOK
<1>2. CASE TakeFront
  <2>1. Send("session", NoDid)
    BY <1>2 DEF TakeFront
  <2>2. buffer' = NoAnswer /\ response' = NoAnswer /\ cancelled' = FALSE
        /\ air' \in Seq(Answers)
    BY <2>1, SendProperties DEF Services
  <2>. QED
    BY <1>1, <1>2, <2>2 DEF TakeFront, TypeOK, Positions, Busy
<1>3. CASE SessionAnswered
  <2>1. Send("read", curr) /\ curr \in Dids
    BY <1>3 DEF SessionAnswered, Busy
  <2>2. buffer' = NoAnswer /\ response' = NoAnswer /\ cancelled' = FALSE
        /\ air' \in Seq(Answers)
    BY <2>1, SendProperties DEF Services
  <2>. QED
    <3>1. /\ retries' = 0 /\ pc' = "answer"
          /\ UNCHANGED <<gui, stop, aborted, sem, queues, curr, snapshot, todo,
                         model, quiet>>
      BY <1>3 DEF SessionAnswered
    <3>2. retries' \in 0 .. MaxRetries
      BY <3>1
    <3>3. cancelled' \in BOOLEAN
      BY <2>2
    <3>4. pc' \in Positions /\ curr' \in Dids
      BY <2>1, <3>1 DEF Positions
    <3>5. buffer' \in Answers \cup {NoAnswer} /\ response' \in Answers \cup {NoAnswer}
          /\ air' \in Seq(Answers)
      BY <2>2
    <3>6. TypeOK'
      BY <3>1, <3>2, <3>4, <3>5, <3>3 DEF TypeOK
    <3>. QED
      BY <2>1, <3>1, <3>6
<1>4. CASE NextWrite
  <2>1. Send("session", NoDid)
    BY <1>4 DEF NextWrite
  <2>2. buffer' = NoAnswer /\ response' = NoAnswer /\ cancelled' = FALSE
        /\ air' \in Seq(Answers)
    BY <2>1, SendProperties DEF Services
  <2>. QED
    BY <1>4, <2>2 DEF NextWrite, TypeOK, Positions, Busy
<1>5. CASE WriteSessionAnswered
  <2>1. Send("write", curr) /\ curr \in Dids
    BY <1>5 DEF WriteSessionAnswered, Busy
  <2>2. buffer' = NoAnswer /\ response' = NoAnswer /\ cancelled' = FALSE
        /\ air' \in Seq(Answers)
    BY <2>1, SendProperties DEF Services
  <2>. QED
    BY <1>5, <2>1, <2>2 DEF WriteSessionAnswered, TypeOK, Positions, Busy
<1>6. CASE SessionUnanswered
  <2>0. MaxReads \in Nat /\ retries \in 0 .. MaxRetries /\ MaxRetries \in Nat
        /\ Len(reads) <= MaxReads
    BY DEF TypeOK
  <2>1. /\ reads' \in Seq(Dids) /\ Len(reads') <= MaxReads
        /\ retries' \in 0 .. MaxRetries
    <3>1. CASE retries + 1 > MaxRetries
      BY <2>0, <1>1, <1>6, <3>1 DEF SessionUnanswered
    <3>2. CASE ~(retries + 1 > MaxRetries)
      BY <2>0, <1>1, <1>6, <3>2 DEF SessionUnanswered
    <3>. QED
      BY <3>1, <3>2
  <2>2. pc' \in {"writes", "read"} /\ curr' = NoDid
        /\ UNCHANGED <<gui, flags, writes, calls, snapshot, todo, buffer, response,
                       model, air, quiet>>
    BY <1>6 DEF SessionUnanswered
  <2>. QED
    BY <2>1, <2>2, ZenonT(40) DEF TypeOK, Positions, Busy
<1>7. CASE RecordValue
  <2>1. reads' \in Seq(Dids) /\ Len(reads') <= MaxReads
    BY <1>1, <1>7 DEF RecordValue, Pop, TypeOK
  <2>2. /\ curr \in Dids /\ unseen' = unseen \cup {curr}
        /\ updated' = updated \cup {curr} /\ response' = NoAnswer
        /\ UNCHANGED <<gui, flags, writes, calls, rounds, buffer, air, quiet>>
    BY <1>7 DEF RecordValue, Busy
  <2>3. \/ pc' = "read" /\ curr' = NoDid
        \/ pc' = "mark" /\ curr' = curr
    BY <1>7 DEF RecordValue
  <2>. QED
    BY <2>1, <2>2, <2>3, ZenonT(40) DEF TypeOK, Positions, Busy
<1>8. CASE RecordNegative
  <2>1. reads' \in Seq(Dids) /\ Len(reads') <= MaxReads
    BY <1>1, <1>8 DEF RecordNegative, Pop, TypeOK
  <2>2. /\ curr \in Dids /\ unseen' = unseen \cup {curr}
        /\ response' = NoAnswer
        /\ UNCHANGED <<gui, flags, writes, calls, locals, buffer, updated, air,
                       quiet>>
    BY <1>8 DEF RecordNegative, Busy
  <2>3. pc' = "mark"
    BY <1>8 DEF RecordNegative
  <2>. QED
    BY <2>1, <2>2, <2>3 DEF TypeOK, Positions, Busy
<1>9. CASE OnIsoTpDataReceived
  BY <1>1, <1>9 DEF OnIsoTpDataReceived, TypeOK
<1>. QED
  BY <1>2, <1>3, <1>4, <1>5, <1>6, <1>7, <1>8, <1>9

LEMMA IInvNext == IInv /\ [Next]_vars => IInv'
<1> SUFFICES ASSUME IInv, [Next]_vars PROVE IInv'
  OBVIOUS
<1>1. CASE UNCHANGED vars
  BY <1>1 DEF vars, IInv, TypeOK, flags, queues, locals, rounds, model
<1>2. CASE Next
  BY <1>2, IInvGui, IInvWorkerQuiet, IInvWorkerBusy
  DEF Next, Worker, Reading, Writing
<1>. QED
  BY <1>1, <1>2

LEMMA IInvAlways == Spec => []IInv
BY IInvInit, IInvNext, PTL DEF Spec

(* Every variable of the handler keeps its type: the queue of reads stays  *)
(* within its bound and no queued or recorded identifier is made up.       *)
THEOREM TypeCorrect == Spec => []TypeOK
<1>1. IInv => TypeOK
  BY DEF IInv
<1>. QED
  BY <1>1, IInvAlways, PTL

-----------------------------------------------------------------------------
(* Whatever the worker and the panel's timer do between each other's       *)
(* locked sections, no change of an entry is lost to the view.             *)
THEOREM ViewAlwaysTold == Spec => []ViewIsTold
<1>1. Init => ViewIsTold
  BY DEF Init, ViewIsTold
<1>2. ASSUME ViewIsTold, [Next]_vars PROVE ViewIsTold'
  <2> USE DEF ViewIsTold
  <2>1. CASE RecordValue \/ RecordNegative \/ RecordPending \/ MarkDidUpdated
    BY <1>2, <2>1
    DEF RecordValue, RecordNegative, RecordPending, MarkDidUpdated, locals
  <2>2. CASE Show
    BY <1>2, <2>2 DEF Show, locals
  <2>3. CASE UNCHANGED <<model, pc, curr>>
    BY <1>2, <2>3 DEF model
  <2>4. CASE UNCHANGED model /\ pc \notin {"mark", "remark"}
    BY <1>2, <2>4 DEF model
  <2>5. CASE \/ \E d \in Dids : AddDidToReadQueue(d)
             \/ \E d \in Writable : WriteDid(d)
             \/ NotifyDidUpdate \/ AbortQueues \/ AbortFlag \/ AbortResponse
             \/ Destroy \/ Destructor \/ OnIsoTpDataReceived
    BY <2>5, <2>3 DEF AddDidToReadQueue, WriteDid, NotifyDidUpdate, AbortQueues,
       AbortFlag, AbortResponse, Destroy, Destructor, DestroyStop, DestroyJoin,
       OnIsoTpDataReceived, locals
  <2>6. CASE \/ CheckStop \/ Acquire \/ CheckReading \/ AwaitMore \/ Writing
             \/ EndRound \/ UNCHANGED vars
    BY <2>6, <2>3, <2>4 DEF CheckStop, Acquire, CheckReading, AwaitMore, Writing,
       TakeWrites, NextWrite, WriteSessionAnswered, WriteUnanswered,
       WriteAnswered, ClearWrites, EndRound, locals, vars
  <2>7. CASE \/ TakeFront \/ NothingToRead \/ SessionAnswered
             \/ SessionUnanswered \/ ReadAnswered \/ ReadUnanswered
             \/ AwaitPending \/ Ignore
    BY <2>7, <2>4 DEF TakeFront, NothingToRead, SessionAnswered,
       SessionUnanswered, ReadAnswered, ReadUnanswered, AwaitPending, Ignore
  <2>. QED
    BY <1>2, <2>1, <2>2, <2>5, <2>6, <2>7 DEF Next, Worker, Reading
<1>. QED
  BY <1>1, <1>2, PTL DEF Spec

-----------------------------------------------------------------------------
LEMMA AirElements ==
  ASSUME TypeOK
  PROVE  /\ Len(air) \in Nat
         /\ air = <<>> => Len(air) = 0
         /\ air # <<>> => /\ Head(air) = air[1] /\ Len(air) > 0
                          /\ Len(Tail(air)) = Len(air) - 1
                          /\ \A i \in 1 .. Len(Tail(air)) : Tail(air)[i] = air[i + 1]
                          /\ Len(air) = 1 => Tail(air) = <<>>
<1>1. air \in Seq(Answers) /\ Len(air) \in Nat
  BY DEF TypeOK
<1>2. air = <<>> => Len(air) = 0
  BY EmptySeq
<1>3. ASSUME air # <<>>
      PROVE  /\ Head(air) = air[1] /\ Len(air) > 0
             /\ Tail(air) \in Seq(Answers) /\ Len(Tail(air)) = Len(air) - 1
             /\ \A i \in 1 .. Len(Tail(air)) : Tail(air)[i] = air[i + 1]
  <2>1. Len(air) > 0
    BY <1>1, <1>3, EmptySeq
  <2>2. /\ Head(air) = air[1] /\ Tail(air) \in Seq(Answers)
        /\ Len(Tail(air)) = Len(air) - 1
    BY <1>1, <1>3, HeadTailProperties
  <2>3. \A i \in 1 .. Len(Tail(air)) : Tail(air)[i] = air[i + 1]
    BY <1>1, <1>3, <2>2, HeadTailProperties
  <2>. QED
    BY <2>1, <2>2, <2>3
<1>4. ASSUME air # <<>>, Len(air) = 1 PROVE Tail(air) = <<>>
  <2>1. Tail(air) \in Seq(Answers) /\ Len(Tail(air)) = 0
    BY <1>3, <1>4
  <2>. QED
    BY <2>1, EmptySeq
<1>. QED
  BY <1>1, <1>2, <1>3, <1>4

LEMMA TidyInit == Init => Tidy
BY DEF Init, Tidy, Parts, Guarded, Silent, OnAir, Arrived, Copied, Waiting, Busy,
   Listening

(* Steps that leave the worker and the answers alone.                      *)
LEMMA TidyGui ==
  ASSUME Tidy,
         \/ \E d \in Dids : AddDidToReadQueue(d)
         \/ \E d \in Writable : WriteDid(d)
         \/ NotifyDidUpdate \/ Show
         \/ AbortQueues \/ AbortFlag \/ AbortResponse
         \/ Destroy \/ Destructor
         \/ UNCHANGED vars
  PROVE  Tidy'
<1> SUFFICES ASSUME Prompt, quiet'
             PROVE  Guarded' /\ Silent' /\ OnAir' /\ Arrived' /\ Copied'
  BY DEF Tidy, Parts
<1>1. /\ UNCHANGED <<pc, curr, buffer, response>> /\ quiet
      /\ air' = air \/ air' = <<>>
  BY DEF AddDidToReadQueue, WriteDid, NotifyDidUpdate, Show, AbortQueues,
     AbortFlag, AbortResponse, Destroy, Destructor, DestroyStop, DestroyJoin,
     flags, queues, locals, model, vars
<1>2. Guarded /\ Silent /\ OnAir /\ Arrived /\ Copied
  BY <1>1 DEF Tidy, Parts
<1>3. Guarded' /\ Silent'
  BY <1>1, <1>2
  DEF AddDidToReadQueue, WriteDid, NotifyDidUpdate, Show, AbortQueues,
     AbortFlag, AbortResponse, Destroy, Destructor, DestroyStop, DestroyJoin,
     flags, queues, locals, model, vars, Guarded, Silent, Listening
<1>4. OnAir'
  <2>1. CASE air' = air
    BY <1>1, <1>2, <2>1 DEF OnAir, Fits, Awaited
  <2>2. CASE air' = <<>>
    BY <2>2 DEF OnAir
  <2>. QED
    BY <1>1, <2>1, <2>2
<1>5. Arrived' /\ Copied'
  BY <1>1, <1>2 DEF Arrived, Copied, Fits, Last, Awaited
<1>. QED
  BY <1>3, <1>4, <1>5

LEMMA PartsThenTidy ==
  ASSUME Tidy, quiet' => quiet, Prompt /\ quiet /\ Parts => Parts'
  PROVE  Tidy'
BY DEF Tidy

(* The worker has nothing to wait for and nothing is on its way.           *)
LEMMA Rest ==
  ASSUME Guarded', air' = <<>>, pc' \notin Waiting PROVE Parts'
<1>1. Silent'
  BY DEF Silent
<1>2. OnAir'
  BY DEF OnAir
<1>3. Arrived' /\ Copied'
  BY DEF Arrived, Copied, Waiting, Busy
<1>. QED
  BY <1>1, <1>2, <1>3 DEF Parts

(* The worker goes on waiting for answers to the same request.             *)
LEMMA GoOn ==
  ASSUME Parts, pc \in Waiting, pc' \in Waiting,
         UNCHANGED <<gui, stop, aborted, cancelled, air, curr, Awaited>>,
         buffer' \in {buffer, NoAnswer}, Copied'
  PROVE  Parts'
<1>1. Guarded' /\ Silent'
  BY DEF Parts, Guarded, Silent, Listening
<1>2. OnAir' /\ Arrived'
  BY DEF Parts, OnAir, Arrived, Fits, Last
<1>. QED
  BY <1>1, <1>2 DEF Parts

(* The worker sends the next request when nothing is on its way.           *)
LEMMA Request ==
  ASSUME TypeOK, Parts, air = <<>>, NEW service \in Services,
         NEW did \in Dids \cup {NoDid}, Send(service, did),
         UNCHANGED <<gui, stop, aborted>>, Awaited' = service,
         pc' \in {"session", "answer", "write session", "write answer"},
         service = "read" => did = curr'
  PROVE  Parts'
<1>1. /\ buffer' = NoAnswer /\ cancelled' = FALSE
      /\ ~Listening => air' = <<>>
      /\ \A i \in 1 .. Len(air') :
           /\ air'[i].service = service
           /\ service = "session" => air'[i].kind # "pending"
           /\ service = "read" /\ air'[i].kind = "positive" => air'[i].did = did
           /\ i < Len(air') => air'[i].kind = "pending"
  BY SendProperties
<1>2. Guarded' /\ Silent'
  BY <1>1 DEF Parts, Guarded, Silent, Listening, Waiting, Busy
<1>3. OnAir'
  BY <1>1 DEF OnAir, Fits
<1>4. Arrived' /\ Copied'
  BY <1>1 DEF Arrived, Copied
<1>. QED
  BY <1>2, <1>3, <1>4 DEF Parts

(* Nothing follows an answer that is not a pending response, a timeout of  *)
(* a prompt ECU or the end of listening.                                   *)
LEMMA NothingFollows ==
  ASSUME Prompt, Parts
  PROVE  /\ Unanswered => air = <<>>
         /\ stop \/ aborted => air = <<>>
         /\ pc \in Waiting /\ buffer # NoAnswer /\ buffer.kind # "pending"
              => air = <<>>
         /\ pc \in Waiting /\ pc \in {"session", "write session"}
            /\ buffer # NoAnswer => air = <<>>
BY DEF Parts, Guarded, Silent, Arrived, Unanswered, TimesOut, Fits, Last, Awaited

LEMMA TidyWorker ==
  ASSUME TypeOK, Tidy, pc \in Busy => curr \in Dids, Worker
  PROVE  Tidy'
<1>1. quiet' = quiet /\ gui' = gui
  BY Zenon DEF Worker, Reading, Writing, CheckStop, Acquire, CheckReading, AwaitMore,
     EndRound, TakeFront, NothingToRead, SessionAnswered, SessionUnanswered,
     ReadAnswered, ReadUnanswered, RecordValue, RecordNegative, AwaitPending,
     RecordPending, Ignore, MarkDidUpdated, TakeWrites, NextWrite,
     WriteSessionAnswered, WriteUnanswered, WriteAnswered, ClearWrites
<1>2. SUFFICES ASSUME Prompt, quiet, Parts PROVE Parts'
  BY <1>1, PartsThenTidy
<1> USE DEF flags, queues, locals, rounds, model
<1>3. Guarded /\ Silent /\ OnAir /\ Arrived /\ Copied
  BY <1>2 DEF Parts
<1>4. pc \notin Waiting => air = <<>>
  BY <1>3 DEF Silent
<1>5. /\ Unanswered => air = <<>>
      /\ stop \/ aborted => air = <<>>
      /\ pc \in Waiting /\ buffer # NoAnswer /\ buffer.kind # "pending"
           => air = <<>>
      /\ pc \in {"session", "write session"} /\ buffer # NoAnswer => air = <<>>
  BY <1>2, NothingFollows DEF Waiting, Busy
(* Away from the ECU.                                                      *)
<1>6. CASE CheckStop \/ Acquire \/ CheckReading \/ NothingToRead
  <2>1. pc \notin Waiting /\ pc' \notin Waiting /\ air' = air
        /\ UNCHANGED <<stop, aborted, cancelled>>
    BY <1>6 DEF CheckStop, Acquire, CheckReading, NothingToRead, Waiting, Busy
  <2>. QED
    BY <1>1, <1>3, <1>4, <2>1, Rest DEF Guarded, Listening
<1>7. CASE TakeWrites \/ ClearWrites \/ EndRound \/ (pc = "mark" /\ MarkDidUpdated)
  <2>1. pc \notin Waiting /\ pc' \notin Waiting /\ air' = air
    BY <1>7 DEF TakeWrites, ClearWrites, EndRound, MarkDidUpdated, Waiting, Busy
  <2>2. UNCHANGED <<stop, cancelled>> /\ (aborted' = aborted \/ aborted' = FALSE)
    BY <1>7 DEF TakeWrites, ClearWrites, EndRound, MarkDidUpdated
  <2>3. Guarded'
    BY <1>1, <1>3, <2>2 DEF Guarded, Listening
  <2>. QED
    BY <1>4, <2>1, <2>3, Rest
(* Requests.                                                               *)
<1>8. CASE TakeFront
  <2>1. Send("session", NoDid) /\ pc' = "session" /\ pc = "front"
        /\ UNCHANGED <<gui, stop, aborted>>
    BY <1>8 DEF TakeFront
  <2>2. air = <<>> /\ Awaited' = "session"
    BY <1>4, <2>1 DEF Waiting, Busy, Awaited
  <2>. QED
    BY <1>2, <2>1, <2>2, Request DEF Services
<1>9. CASE SessionAnswered
  <2>1. Send("read", curr) /\ pc' = "answer" /\ pc = "session" /\ curr' = curr
        /\ UNCHANGED <<gui, stop, aborted>> /\ buffer # NoAnswer
    BY <1>9 DEF SessionAnswered, Answered
  <2>2. air = <<>> /\ Awaited' = "read" /\ curr \in Dids
    BY <1>5, <2>1 DEF Busy, Awaited
  <2>. QED
    BY <1>2, <2>1, <2>2, Request DEF Services
<1>10. CASE NextWrite
  <2>1. Send("session", NoDid) /\ pc' = "write session" /\ pc = "next"
        /\ UNCHANGED <<gui, stop, aborted>>
    BY <1>10 DEF NextWrite
  <2>2. air = <<>> /\ Awaited' = "session"
    BY <1>4, <2>1 DEF Waiting, Busy, Awaited
  <2>. QED
    BY <1>2, <2>1, <2>2, Request DEF Services
<1>11. CASE WriteSessionAnswered
  <2>1. Send("write", curr) /\ pc' = "write answer" /\ pc = "write session"
        /\ UNCHANGED <<gui, stop, aborted>> /\ buffer # NoAnswer
    BY <1>11 DEF WriteSessionAnswered, Answered
  <2>2. air = <<>> /\ Awaited' = "write" /\ curr \in Dids
    BY <1>5, <2>1 DEF Busy, Awaited
  <2>. QED
    BY <1>2, <2>1, <2>2, Request DEF Services
(* The end of a wait.                                                      *)
<1>12. CASE SessionUnanswered \/ ReadUnanswered \/ WriteUnanswered
  <2>1. Unanswered /\ pc' \notin Waiting /\ air' = air
        /\ UNCHANGED <<stop, aborted, cancelled>>
    BY <1>12 DEF SessionUnanswered, ReadUnanswered, WriteUnanswered, Waiting, Busy
  <2>. QED
    BY <1>1, <1>3, <1>5, <2>1, Rest DEF Guarded, Listening
<1>13. CASE RecordValue \/ RecordNegative
  <2>1. pc \in {"parse", "classify"} /\ pc' \notin Waiting /\ air' = air
        /\ UNCHANGED <<stop, aborted, cancelled>>
    BY <1>13 DEF RecordValue, RecordNegative, Waiting, Busy
  <2>2. response.service = "read" /\ Last(response)
    BY <1>3, <2>1 DEF Copied, Fits, Awaited
  <2>3. response.kind # "pending"
    BY <1>13, <2>2 DEF RecordValue, RecordNegative, Is, Negative
  <2>. QED
    BY <1>1, <1>3, <2>1, <2>2, <2>3, Rest DEF Guarded, Listening, Last
<1>14. CASE WriteAnswered
  <2>1. /\ pc \in {"write answer", "write pending"} /\ pc \in Waiting
        /\ buffer # NoAnswer /\ air' = air
        /\ UNCHANGED <<stop, aborted, cancelled, buffer>>
    BY <1>14 DEF WriteAnswered, Answered, Waiting, Busy
  <2>2. buffer.service = "write"
    BY <1>3, <2>1 DEF Arrived, Fits, Awaited
  <2>3. CASE pc' = "write more" /\ curr' = curr
    <3>1. pc' \in Waiting /\ Awaited' = Awaited /\ Copied'
      BY <2>1, <2>3 DEF Waiting, Busy, Awaited, Copied
    <3>. QED
      BY <1>1, <1>2, <2>1, <2>3, <3>1, GoOn
  <2>4. CASE pc' = "next" /\ buffer.kind # "pending"
    <3>1. air = <<>> /\ pc' \notin Waiting
      BY <1>5, <2>1, <2>4 DEF Waiting, Busy
    <3>. QED
      BY <1>1, <1>3, <2>1, <3>1, Rest DEF Guarded, Listening
  <2>. QED
    BY <1>14, <2>2, <2>3, <2>4 DEF WriteAnswered
(* The wait goes on.                                                       *)
<1>15. CASE ReadAnswered
  <2>1. /\ pc \in {"answer", "pending"} /\ pc' \in {"parse", "classify"}
        /\ buffer # NoAnswer /\ response' = buffer
        /\ UNCHANGED <<air, curr, buffer, stop, aborted, cancelled>>
    BY <1>15 DEF ReadAnswered, Answered
  <2>2. pc \in Waiting /\ pc' \in Waiting /\ Awaited' = Awaited
    BY <2>1 DEF Waiting, Busy, Awaited
  <2>3. Copied'
    BY <1>3, <2>1, <2>2 DEF Arrived, Copied, Fits, Last
  <2>. QED
    BY <1>1, <1>2, <2>1, <2>2, <2>3, GoOn
<1>16. CASE AwaitPending \/ RecordPending \/ (pc = "remark" /\ MarkDidUpdated)
  <2>1. /\ pc \in {"parse", "classify", "remark"} /\ pc' \in {"more", "remark"}
        /\ UNCHANGED <<air, curr, buffer, stop, aborted, cancelled>>
    BY <1>16 DEF AwaitPending, RecordPending, MarkDidUpdated
  <2>2. pc \in Waiting /\ pc' \in Waiting /\ Awaited' = Awaited /\ Copied'
    BY <2>1 DEF Waiting, Busy, Awaited, Copied
  <2>. QED
    BY <1>1, <1>2, <2>1, <2>2, GoOn
<1>17. CASE Ignore
  <2>1. pc \in {"parse", "classify"} /\ response.service # "read"
    BY <1>17 DEF Ignore
  <2>. QED
    BY <1>3, <2>1 DEF Copied, Fits, Awaited
<1>18. CASE AwaitMore
  <2>1. /\ pc \in {"more", "write more"}
        /\ UNCHANGED <<air, stop, aborted, cancelled>>
    BY <1>18 DEF AwaitMore
  <2>2. CASE stop \/ aborted
    <3>1. air = <<>> /\ pc' \notin Waiting
      BY <1>5, <1>18, <2>2 DEF AwaitMore, Waiting, Busy
    <3>. QED
      BY <1>1, <1>3, <2>1, <3>1, Rest DEF Guarded, Listening
  <2>3. CASE ~stop /\ ~aborted
    <3>1. /\ pc' = IF pc = "more" THEN "pending" ELSE "write pending"
          /\ buffer' = NoAnswer /\ curr' = curr
      BY <1>18, <2>3 DEF AwaitMore
    <3>2. pc \in Waiting /\ pc' \in Waiting /\ Awaited' = Awaited /\ Copied'
      BY <2>1, <3>1 DEF Waiting, Busy, Awaited, Copied
    <3>. QED
      BY <1>1, <1>2, <2>1, <3>1, <3>2, GoOn
  <2>. QED
    BY <2>2, <2>3
<1>19. MarkDidUpdated => pc \in {"mark", "remark"}
  BY DEF MarkDidUpdated
<1>. QED
  BY <1>6, <1>7, <1>8, <1>9, <1>10, <1>11, <1>12, <1>13, <1>14, <1>15, <1>16,
     <1>17, <1>18, <1>19 DEF Worker, Reading, Writing

LEMMA TidyReceive ==
  ASSUME TypeOK, Tidy, OnIsoTpDataReceived PROVE Tidy'
<1>1. /\ air # <<>> /\ air' = Tail(air) /\ buffer' = Head(air)
      /\ UNCHANGED <<gui, stop, aborted, cancelled, pc, curr, response, quiet>>
  BY DEF OnIsoTpDataReceived, flags, locals
<1>2. SUFFICES ASSUME Prompt, quiet, Parts PROVE Parts'
  BY <1>1, PartsThenTidy
<1>3. Guarded /\ Silent /\ OnAir /\ Arrived /\ Copied
  BY <1>2 DEF Parts
<1>4. /\ Len(air) \in Nat /\ Len(air) > 0 /\ Head(air) = air[1]
      /\ Len(Tail(air)) = Len(air) - 1
      /\ \A i \in 1 .. Len(Tail(air)) : Tail(air)[i] = air[i + 1]
      /\ Len(air) = 1 => Tail(air) = <<>>
  BY <1>1, AirElements
<1>5. Guarded' /\ Silent'
  BY <1>1, <1>3 DEF Guarded, Silent, Listening
<1> DEFINE tail == Tail(air)
           head == Head(air)
<1>6. OnAir'
  <2>1. \A i \in 1 .. Len(tail) :
          /\ i + 1 \in 1 .. Len(air) /\ tail[i] = air[i + 1]
          /\ i < Len(tail) => i + 1 < Len(air)
    BY <1>4
  <2>2. air' = tail /\ Awaited' = Awaited /\ curr' = curr
    BY <1>1 DEF Awaited
  <2>. HIDE DEF tail
  <2>3. ASSUME NEW i \in 1 .. Len(tail)
        PROVE  Fits(tail[i]) /\ (i < Len(tail) => tail[i].kind = "pending")
    <3>1. /\ i + 1 \in 1 .. Len(air) /\ tail[i] = air[i + 1]
          /\ i < Len(tail) => i + 1 < Len(air)
      BY <2>1
    <3>2. /\ Fits(air[i + 1])
          /\ i + 1 < Len(air) => air[i + 1].kind = "pending"
      BY <1>3, <3>1 DEF OnAir
    <3>. QED
      BY <3>1, <3>2
  <2>. QED
    BY <2>2, <2>3 DEF OnAir, Fits
<1>7. Fits(buffer)' /\ Last(buffer)'
  <2>1. Fits(head) /\ (1 < Len(air) => head.kind = "pending")
    BY <1>3, <1>4 DEF OnAir
  <2>2. buffer' = head /\ Awaited' = Awaited /\ curr' = curr
        /\ (air' = <<>> \/ 1 < Len(air))
    BY <1>1, <1>4 DEF Awaited
  <2>. HIDE DEF head
  <2>. QED
    BY <2>1, <2>2 DEF Fits, Last
<1>8. Arrived' /\ Copied'
  BY <1>1, <1>3, <1>7 DEF Arrived, Copied, Fits, Last, Awaited
<1>. QED
  BY <1>5, <1>6, <1>8 DEF Parts

(* Although answers are not compared with requests, a value is recorded    *)
(* for the identifier it was read from, if the ECU keeps to the timeout    *)
(* and nothing was aborted.                                                *)
THEOREM OwnValueKept == Spec => []OwnValue
<1>1. ASSUME IInv, Tidy, [Next]_vars PROVE Tidy'
  BY <1>1, TidyGui, TidyWorker, TidyReceive DEF Next, IInv
<1>2. ASSUME Tidy PROVE OwnValue
  BY <1>2 DEF Tidy, Parts, Copied, OwnValue, Is, Fits
<1>3. Spec => []Tidy
  BY <1>1, TidyInit, IInvAlways, PTL DEF Spec
<1>. QED
  BY <1>2, <1>3, PTL
=============================================================================
