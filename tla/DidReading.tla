----------------------------- MODULE DidReading -----------------------------
(* DidHandler: the GUI thread queues reads and writes of diagnostic        *)
(* identifiers (DIDs), aborts them and destroys the handler; one worker    *)
(* asks an ECU over ISO-TP, waits for answers with a timeout, and records  *)
(* them in the entries that the GUI shows.                                 *)
(*                                                                         *)
(* An answer is what it answers and how, and the DID whose value it        *)
(* carries.  Of an entry only its changes are kept.                        *)
EXTENDS Integers, Sequences, FiniteSets

CONSTANTS
  Dids,       \* the identifiers in the list
  Writable,   \* those that the user writes
  NoDid,      \* no identifier
  Prompt,     \* does the ECU answer before the timeout or not at all?
  MaxRetries, \* MAX_EXTENDED_SESSION_RETRIES
  MaxReads,   \* bound: length of m_PendingDidReads
  MaxWrites,  \* bound: calls of WriteDid
  MaxAir,     \* bound: answers on their way
  MaxSem      \* bound: how far the semaphore counts

ASSUME ReadingAssumption ==
  /\ NoDid \notin Dids /\ Writable \subseteq Dids
  /\ Prompt \in BOOLEAN
  /\ MaxRetries \in Nat /\ MaxReads \in Nat /\ MaxWrites \in Nat
  /\ MaxAir \in Nat /\ MaxSem \in Nat \ {0}

VARIABLES
  gui,       \* where the GUI thread is
  stop,      \* the worker's stop token
  aborted,   \* m_IsAborted
  cancelled, \* m_ResponseAborted
  sem,       \* m_Semaphore
  reads,     \* m_PendingDidReads
  writes,    \* m_PendingDidWrites: the number of the call of WriteDid, or 0
  calls,     \* calls of WriteDid so far
  pc,        \* where WorkerThread is
  curr,      \* curr_did, did
  retries,   \* extended_session_retry_count
  snapshot,  \* pending_writes
  todo,      \* the DIDs of the snapshot that have not been looked at
  buffer,    \* m_IsoTpBuffer, unless m_IsoTpBufLen is 0
  response,  \* m_Response while it is looked at
  updated,   \* m_UpdatedDids
  unseen,    \* DIDs whose entry was written after it was last shown
  air,       \* answers of the ECU on their way, in order
  quiet      \* AbortDidUpdate has not been called yet

flags == <<stop, aborted, cancelled, sem>>
queues == <<reads, writes, calls>>
rounds == <<retries, snapshot, todo>>
locals == <<curr, rounds>>
model == <<updated, unseen>>
vars == <<gui, flags, queues, pc, locals, buffer, response, model, air, quiet>>

Services == {"session", "read", "write"}
Kinds == {"positive", "pending", "nrc", "reject"}
Answers == [service : Services, kind : Kinds, did : Dids \cup {NoDid}]
NoAnswer == [service |-> "none", kind |-> "none", did |-> NoDid]
Nothing == [d \in Dids |-> 0]

(* What the ECU may do about a request: nothing, or answer, for a read or  *)
(* a write perhaps after a "response pending" (NRC 0x78).  A reject (NRC   *)
(* 0x10) makes a difference to writes only.                                *)
Replies(service, did) ==
  LET reply(kind) ==
        [service |-> service, kind |-> kind,
         did |-> IF service = "read" /\ kind = "positive" THEN did ELSE NoDid]
      final == {<<reply(kind)>> : kind \in {"positive", "nrc"} \cup
                  IF service = "write" THEN {"reject"} ELSE {}}
  IN {<<>>} \cup final \cup
     IF service = "session" THEN {}
     ELSE {<<reply("pending")>> \o f : f \in final \cup {<<>>}}

Init ==
  /\ gui = "idle"
  /\ stop = FALSE /\ aborted = FALSE /\ cancelled = FALSE /\ sem = 0
  /\ reads = <<>> /\ writes = Nothing /\ calls = 0
  /\ pc = "top" /\ curr = NoDid /\ retries = 0
  /\ snapshot = Nothing /\ todo = {}
  /\ buffer = NoAnswer /\ response = NoAnswer
  /\ updated = {} /\ unseen = {}
  /\ air = <<>> /\ quiet = TRUE

-----------------------------------------------------------------------------
(* The GUI thread.                                                         *)

(* release() of a binary semaphore that holds 1 already is undefined: the  *)
(* libraries let it stay at 1 or count on.                                 *)
Release == sem' \in IF sem = 0 THEN {1} ELSE {sem} \cup ({sem + 1} \cap 1 .. MaxSem)

(* "Refresh selected" adds any number of DIDs and then notifies.           *)
AddDidToReadQueue(d) ==
  /\ gui \in {"idle", "notify"}
  /\ Len(reads) < MaxReads
  /\ gui' = "notify"
  /\ reads' = Append(reads, d)
  /\ UNCHANGED <<flags, writes, calls, pc, locals, buffer, response, model, air,
                 quiet>>

WriteDid(d) ==
  /\ gui = "idle"
  /\ calls < MaxWrites
  /\ gui' = "notify"
  /\ calls' = calls + 1
  /\ writes' = [writes EXCEPT ![d] = calls + 1]
  /\ UNCHANGED <<flags, reads, pc, locals, buffer, response, model, air, quiet>>

NotifyDidUpdate ==
  /\ gui = "notify"
  /\ gui' = "idle"
  /\ Release
  /\ UNCHANGED <<stop, aborted, cancelled, queues, pc, locals, buffer, response,
                 model, air, quiet>>

(* AbortDidUpdate: the queues under m, the flag, and then the cancelled    *)
(* wait under m_CanMessageMutex.                                           *)
AbortQueues ==
  /\ gui = "idle"
  /\ gui' = "flag"
  /\ reads' = <<>> /\ writes' = Nothing
  /\ quiet' = FALSE
  /\ UNCHANGED <<flags, calls, pc, locals, buffer, response, model, air>>

AbortFlag ==
  /\ gui = "flag"
  /\ gui' = "cancel"
  /\ aborted' = TRUE
  /\ UNCHANGED <<stop, cancelled, sem, queues, pc, locals, buffer, response,
                 model, air, quiet>>

AbortResponse ==
  /\ gui = "cancel"
  /\ gui' = "idle"
  /\ cancelled' = TRUE
  /\ UNCHANGED <<stop, aborted, sem, queues, pc, locals, buffer, response,
                 model, air, quiet>>

(* The panel's timer copies the entries of m_UpdatedDids and clears it.    *)
Show ==
  /\ gui = "idle"
  /\ updated # {}
  /\ unseen' = unseen \ updated
  /\ updated' = {}
  /\ UNCHANGED <<gui, flags, queues, pc, locals, buffer, response, air,
                 quiet>>

-----------------------------------------------------------------------------
(* ~DidHandler: unregister, so that no answer comes through any more, and  *)
(* set the flag; the stop token, the cancelled wait and the semaphore; the *)
(* join.                                                                   *)
Destroy ==
  /\ gui = "idle"
  /\ gui' = "unregistered"
  /\ aborted' = TRUE
  /\ air' = <<>>
  /\ UNCHANGED <<stop, cancelled, sem, queues, pc, locals, buffer, response,
                 model, quiet>>

(* Mutant of DestroyStop: the semaphore is not released.                   *)
StopWithoutRelease ==
  /\ gui = "unregistered"
  /\ gui' = "join"
  /\ stop' = TRUE /\ cancelled' = TRUE
  /\ UNCHANGED <<aborted, sem, queues, pc, locals, buffer, response, model, air,
                 quiet>>

DestroyStop ==
  /\ gui = "unregistered"
  /\ gui' = "join"
  /\ stop' = TRUE /\ cancelled' = TRUE
  /\ Release
  /\ UNCHANGED <<aborted, queues, pc, locals, buffer, response, model, air,
                 quiet>>

DestroyJoin ==
  /\ gui = "join" /\ pc = "done"
  /\ gui' = "gone"
  /\ reads' = <<>> /\ writes' = Nothing
  /\ UNCHANGED <<flags, calls, pc, locals, buffer, response, model, air, quiet>>

-----------------------------------------------------------------------------
(* Answers, requests and waits.                                            *)

(* OnIsoTpDataReceived: the next answer overwrites the buffer.             *)
OnIsoTpDataReceived ==
  /\ air # <<>>
  /\ air' = Tail(air)
  /\ buffer' = Head(air)
  /\ UNCHANGED <<gui, flags, queues, pc, locals, response, model, quiet>>

Listening == gui \in {"idle", "notify", "flag", "cancel"}

(* SendUdsFrameAndWaitForResponse up to the wait: forget what has arrived  *)
(* and been cancelled, then send.                                          *)
Send(service, did) ==
  /\ buffer' = NoAnswer /\ cancelled' = FALSE /\ response' = NoAnswer
  /\ \E reply \in Replies(service, did) :
       /\ Len(air \o reply) <= IF Listening THEN MaxAir ELSE 0
       /\ air' = air \o reply

(* Mutant of TimesOut: the wait is shorter than the ECU needs.             *)
TimesOutEarly == buffer = NoAnswer

TimesOut == buffer = NoAnswer /\ (Prompt => air = <<>>)

(* WaitForResponse.  Whatever has arrived is the answer.                   *)
Answered == buffer # NoAnswer /\ ~cancelled
Unanswered == cancelled \/ TimesOut

-----------------------------------------------------------------------------
(* WorkerThread and HandleDidReading.                                      *)

CheckStop ==
  /\ pc = "top"
  /\ pc' = IF stop THEN "done" ELSE "acquire"
  /\ UNCHANGED <<gui, flags, queues, locals, buffer, response, model, air, quiet>>

Acquire ==
  /\ pc = "acquire"
  /\ sem > 0
  /\ sem' = sem - 1
  /\ retries' = 0
  /\ pc' = "read"
  /\ UNCHANGED <<gui, stop, aborted, cancelled, queues, curr, snapshot, todo,
                 buffer, response, model, air, quiet>>

CheckReading ==
  /\ pc = "read"
  /\ pc' = IF stop \/ aborted THEN "writes" ELSE "front"
  /\ UNCHANGED <<gui, flags, queues, locals, buffer, response, model, air, quiet>>

TakeFront ==
  /\ pc = "front"
  /\ reads # <<>>
  /\ curr' = Head(reads)
  /\ Send("session", NoDid)
  /\ pc' = "session"
  /\ UNCHANGED <<gui, stop, aborted, sem, queues, retries, snapshot, todo, model,
                 quiet>>

NothingToRead ==
  /\ pc = "front"
  /\ reads = <<>>
  /\ pc' = "writes"
  /\ UNCHANGED <<gui, flags, queues, locals, buffer, response, model, air, quiet>>

(* Any answer will do for the session request.                             *)
SessionAnswered ==
  /\ pc = "session" /\ Answered
  /\ retries' = 0
  /\ Send("read", curr)
  /\ pc' = "answer"
  /\ UNCHANGED <<gui, stop, aborted, sem, queues, curr, snapshot, todo, model,
                 quiet>>

(* Mutants of SessionUnanswered: one retry too many; no end of retries.    *)
RetryOnceMore ==
  /\ pc = "session" /\ Unanswered
  /\ IF retries > MaxRetries
     THEN retries' = 0 /\ reads' = <<>> /\ pc' = "writes"
     ELSE retries' = retries + 1 /\ pc' = "read" /\ UNCHANGED reads
  /\ curr' = NoDid
  /\ UNCHANGED <<gui, flags, writes, calls, snapshot, todo, buffer, response,
                 model, air, quiet>>
RetryForEver ==
  /\ pc = "session" /\ Unanswered
  /\ pc' = "read"
  /\ curr' = NoDid
  /\ UNCHANGED <<gui, flags, queues, rounds, buffer, response, model, air, quiet>>

(* After too many retries the whole queue is given up.                     *)
SessionUnanswered ==
  /\ pc = "session" /\ Unanswered
  /\ IF retries + 1 > MaxRetries
     THEN retries' = 0 /\ reads' = <<>> /\ pc' = "writes"
     ELSE retries' = retries + 1 /\ pc' = "read" /\ UNCHANGED reads
  /\ curr' = NoDid
  /\ UNCHANGED <<gui, flags, writes, calls, snapshot, todo, buffer, response,
                 model, air, quiet>>

(* The answer is copied, then the worker sleeps before it looks at it.     *)
ReadAnswered ==
  /\ pc \in {"answer", "pending"} /\ Answered
  /\ response' = buffer
  /\ pc' = IF pc = "answer" THEN "parse" ELSE "classify"
  /\ UNCHANGED <<gui, flags, queues, locals, buffer, model, air, quiet>>

(* The DID stays at the head of the queue.                                 *)
ReadUnanswered ==
  /\ pc \in {"answer", "pending"} /\ Unanswered
  /\ IF pc = "answer" THEN pc' = "read" /\ curr' = NoDid
     ELSE pc' = "mark" /\ UNCHANGED curr
  /\ UNCHANGED <<gui, flags, queues, rounds, buffer, response, model, air, quiet>>

Is(service, kind) == response.service = service /\ response.kind = kind
Negative == response.kind # "positive"

(* pop_front, if there is a front: not always the DID that was asked for.  *)
Pop == reads' = IF reads = <<>> THEN <<>> ELSE Tail(reads)

(* ProcessReadDidResponse: the identifier in the answer is not looked at.  *)
RecordValue ==
  /\ pc \in {"parse", "classify"}
  /\ Is("read", "positive")
  /\ unseen' = unseen \cup {curr} /\ updated' = updated \cup {curr}
  /\ Pop
  /\ response' = NoAnswer
  /\ IF pc = "parse" THEN pc' = "read" /\ curr' = NoDid
     ELSE pc' = "mark" /\ UNCHANGED curr
  /\ UNCHANGED <<gui, flags, writes, calls, rounds, buffer, air, quiet>>

(* Any other negative response than "pending" ends the read, also one to   *)
(* another request unless a pending response is being waited for.          *)
RecordNegative ==
  /\ \/ pc = "parse" /\ Negative /\ ~Is("read", "pending")
     \/ pc = "classify" /\ (response.kind = "reject" \/ Is("read", "nrc"))
  /\ unseen' = unseen \cup {curr}
  /\ Pop
  /\ response' = NoAnswer
  /\ pc' = "mark"
  /\ UNCHANGED <<gui, flags, writes, calls, locals, buffer, updated, air, quiet>>

AwaitPending ==
  /\ pc = "parse" /\ Is("read", "pending")
  /\ response' = NoAnswer
  /\ pc' = "more"
  /\ UNCHANGED <<gui, flags, queues, locals, buffer, model, air, quiet>>

(* Mutant of RecordPending: MarkDidUpdated is left out.                    *)
RecordPendingUnmarked ==
  /\ pc = "classify" /\ Is("read", "pending")
  /\ unseen' = unseen \cup {curr}
  /\ response' = NoAnswer
  /\ pc' = "more"
  /\ UNCHANGED <<gui, flags, queues, locals, buffer, updated, air, quiet>>

RecordPending ==
  /\ pc = "classify" /\ Is("read", "pending")
  /\ unseen' = unseen \cup {curr}
  /\ response' = NoAnswer
  /\ pc' = "remark"
  /\ UNCHANGED <<gui, flags, queues, locals, buffer, updated, air, quiet>>

(* Positive answers to other requests and, while a pending response is     *)
(* waited for, whatever else there is.                                     *)
Ignore ==
  /\ \/ pc = "parse" /\ ~Negative /\ response.service # "read"
     \/ /\ pc = "classify" /\ response.service # "read"
        /\ response.kind # "reject"
  /\ response' = NoAnswer
  /\ IF pc = "parse" THEN pc' = "read" /\ curr' = NoDid
     ELSE pc' = "remark" /\ UNCHANGED curr
  /\ UNCHANGED <<gui, flags, queues, rounds, buffer, model, air, quiet>>

MarkDidUpdated ==
  /\ pc \in {"mark", "remark"}
  /\ updated' = updated \cup {curr}
  /\ IF pc = "mark" THEN pc' = "read" /\ curr' = NoDid
     ELSE pc' = "more" /\ UNCHANGED curr
  /\ UNCHANGED <<gui, flags, queues, rounds, buffer, response, unseen,
                 air, quiet>>

(* The loop that waits on after a pending response.  m_IsoTpBufLen = 0     *)
(* drops what has arrived since.                                           *)
AwaitMore ==
  /\ pc \in {"more", "write more"}
  /\ \/ /\ stop \/ aborted
        /\ IF pc = "more" THEN pc' = "mark" /\ UNCHANGED curr
           ELSE pc' = "next" /\ curr' = NoDid
        /\ UNCHANGED buffer
     \/ /\ ~stop /\ ~aborted
        /\ pc' = IF pc = "more" THEN "pending" ELSE "write pending"
        /\ buffer' = NoAnswer
        /\ UNCHANGED curr
  /\ UNCHANGED <<gui, flags, queues, rounds, response, model, air, quiet>>

-----------------------------------------------------------------------------
(* HandleDidWriting.                                                       *)

TakeWrites ==
  /\ pc = "writes"
  /\ IF writes = Nothing \/ stop \/ aborted
     THEN pc' = "end" /\ UNCHANGED <<snapshot, todo>>
     ELSE pc' = "next" /\ snapshot' = writes
          /\ todo' = {d \in Dids : writes[d] # 0}
  /\ UNCHANGED <<gui, flags, queues, curr, retries, buffer, response, model, air,
                 quiet>>

(* The map's order of the DIDs is left out.                                *)
NextWrite ==
  /\ pc = "next"
  /\ \E d \in todo : curr' = d /\ todo' = todo \ {d}
  /\ Send("session", NoDid)
  /\ pc' = "write session"
  /\ UNCHANGED <<gui, stop, aborted, sem, queues, retries, snapshot, model,
                 quiet>>

WriteSessionAnswered ==
  /\ pc = "write session" /\ Answered
  /\ Send("write", curr)
  /\ pc' = "write answer"
  /\ UNCHANGED <<gui, stop, aborted, sem, queues, locals, model, quiet>>

(* A write is not tried again, whatever goes wrong.                        *)
WriteUnanswered ==
  /\ pc \in {"write session", "write answer", "write pending"} /\ Unanswered
  /\ pc' = "next" /\ curr' = NoDid
  /\ UNCHANGED <<gui, flags, queues, rounds, buffer, response, model, air, quiet>>

(* A negative response after a pending one ends the write only if it is a  *)
(* reject.                                                                 *)
WriteAnswered ==
  /\ pc \in {"write answer", "write pending"} /\ Answered
  /\ LET pending == buffer.service = "write" /\ buffer.kind = "pending"
         ends == \/ buffer.service = "write" /\ buffer.kind = "positive"
                 \/ buffer.kind = "reject"
     IN IF IF pc = "write answer" THEN pending ELSE ~ends
        THEN pc' = "write more" /\ UNCHANGED curr
        ELSE pc' = "next" /\ curr' = NoDid
  /\ UNCHANGED <<gui, flags, queues, rounds, buffer, response, model, air, quiet>>

ClearWrites ==
  /\ pc = "next"
  /\ todo = {}
  /\ writes' = Nothing
  /\ pc' = "end"
  /\ UNCHANGED <<gui, flags, reads, calls, locals, buffer, response, model, air,
                 quiet>>

(* An abort that came while there was nothing to abort ends here, too.     *)
EndRound ==
  /\ pc = "end"
  /\ aborted' = FALSE
  /\ snapshot' = Nothing
  /\ pc' = "top"
  /\ UNCHANGED <<gui, stop, cancelled, sem, queues, curr, retries, todo, buffer,
                 response, model, air, quiet>>

-----------------------------------------------------------------------------
Reading ==
  \/ TakeFront \/ NothingToRead \/ SessionAnswered \/ SessionUnanswered
  \/ ReadAnswered \/ ReadUnanswered \/ RecordValue \/ RecordNegative
  \/ AwaitPending \/ RecordPending \/ Ignore \/ MarkDidUpdated

Writing ==
  \/ TakeWrites \/ NextWrite \/ WriteSessionAnswered \/ WriteUnanswered
  \/ WriteAnswered \/ ClearWrites

Worker == \/ CheckStop \/ Acquire \/ CheckReading \/ Reading \/ AwaitMore
          \/ Writing \/ EndRound

Destructor == DestroyStop \/ DestroyJoin

Next == \/ \E d \in Dids : AddDidToReadQueue(d)
        \/ \E d \in Writable : WriteDid(d)
        \/ NotifyDidUpdate \/ Show
        \/ AbortQueues \/ AbortFlag \/ AbortResponse
        \/ Destroy \/ Destructor
        \/ OnIsoTpDataReceived
        \/ Worker

(* Operating system threads, and answers that are on their way arrive.     *)
(* Nobody has to ask for anything and the ECU need not answer.             *)
Spec == /\ Init /\ [][Next]_vars
        /\ WF_vars(Worker) /\ WF_vars(Destructor)
        /\ WF_vars(OnIsoTpDataReceived)

-----------------------------------------------------------------------------
Positions ==
  {"top", "acquire", "read", "front", "session", "answer", "parse", "classify",
   "mark", "remark", "more", "pending", "writes", "next", "write session",
   "write answer", "write more", "write pending", "end", "done"}

TypeOK ==
  /\ gui \in {"idle", "notify", "flag", "cancel", "unregistered", "join",
              "gone"}
  /\ stop \in BOOLEAN /\ aborted \in BOOLEAN /\ cancelled \in BOOLEAN
  /\ sem \in 0 .. MaxSem
  /\ reads \in Seq(Dids) /\ Len(reads) <= MaxReads
  /\ writes \in [Dids -> 0 .. MaxWrites] /\ calls \in 0 .. MaxWrites
  /\ pc \in Positions /\ curr \in Dids \cup {NoDid}
  /\ retries \in 0 .. MaxRetries
  /\ snapshot \in [Dids -> 0 .. MaxWrites] /\ todo \subseteq Dids
  /\ buffer \in Answers \cup {NoAnswer}
  /\ response \in Answers \cup {NoAnswer}
  /\ updated \subseteq Dids /\ unseen \subseteq Dids
  /\ air \in Seq(Answers)
  /\ quiet \in BOOLEAN

(* An entry that has changed since it was shown is on the list from which  *)
(* the panel is refreshed, or the worker is about to put it there: no      *)
(* change is lost between the worker's several locked sections and the     *)
(* panel's copy-and-clear.                                                 *)
ViewIsTold ==
  \A d \in unseen :
    d \in updated \/ (pc \in {"mark", "remark"} /\ d = curr)

(* A value is recorded for the DID it was read from, although answers are  *)
(* not compared with requests: the order of requests, waits and resets     *)
(* suffices as long as the ECU keeps to the timeout and no wait is aborted *)
(* (lost answers, pending responses and retries included).                 *)
OwnValue ==
  (Prompt /\ quiet /\ pc \in {"parse", "classify"} /\ Is("read", "positive"))
    => response.did = curr

(* An ECU that has gone silent does not occupy the worker for ever: again  *)
(* and again there is an answer, or the worker has given up ("abort        *)
(* questioning") and is back at its semaphore.                             *)
WorkerComesToRest ==
  []<>(air # <<>> \/ buffer # NoAnswer \/ pc \in {"acquire", "done"})

(* ~DidHandler returns, wherever the worker is and whatever it waits for.  *)
DestructorReturns == (gui = "unregistered") ~> (gui = "gone")

(* "Write DID with specified data" (WriteDid): what the worker clears from *)
(* the queue of writes it has taken up before.                             *)
WriteIsTaken ==
  [][(pc = "next" /\ pc' = "end") =>
       \A d \in Dids : writes[d] \in {0, snapshot[d]}]_vars
=============================================================================
