--------------------------- MODULE ModbusPolling ---------------------------
(* ModbusEntryHandler: the main thread starts, pauses, enables and stops   *)
(* the polling worker, replaces the register model under it, and queues    *)
(* register edits that the worker drains after each poll, over a serial    *)
(* port whose own worker builds the connection and loses it.               *)
(*                                                                         *)
(* An edit is its number and the model its register id belongs to.  A poll *)
(* makes as many requests as the groups of registers in the four tables    *)
(* and their chunks take, a number that the model leaves open.  Register   *)
(* values are left out.                                                    *)
EXTENDS Integers, Sequences, FiniteSets

CONSTANTS
  MaxTimeouts, \* MAX_INLINE_TIMEOUT_PACKETS
  MaxEdits,    \* bound: edits made
  MaxModels,   \* bound: models loaded
  MaxFaults,   \* bound: connections lost or not obtained
  MaxReads,    \* bound: requests of one poll
  MaxCommands  \* bound: custom frames sent from the panel

ASSUME PollingAssumption ==
  /\ MaxTimeouts \in Nat /\ MaxEdits \in Nat
  /\ MaxModels \in Nat /\ MaxFaults \in Nat
  /\ MaxReads \in Nat /\ MaxCommands \in Nat

VARIABLES
  main,     \* where the main thread is
  resume,   \* was_running in ChangeDevice
  paused,   \* m_isMainThreadPaused
  enabled,  \* is_enabled
  worker,   \* where ModbusWorker is; "none" without m_workerModbus
  stop,     \* its stop has been requested
  pump,     \* the serial port has its worker
  inited,   \* IsInstanceInited
  building, \* the serial worker is about to construct the transport
  open,     \* IsOpen
  faults,   \* connections lost or not obtained so far
  timeouts, \* timeout_packets
  reads,    \* requests the poll has made so far
  commands, \* custom frames sent so far
  model,    \* how many register models have been loaded
  queue,    \* m_WriteQueue
  batch,    \* what Drain returned and HandleWrites has not applied yet
  edits,    \* edits made so far
  written   \* numbers of the edits put on the wire, in order

ui == <<main, resume>>
status == <<paused, enabled>>
thread == <<worker, stop>>
port == <<pump, inited, building, open, faults>>
counter == <<timeouts, reads, commands>>
pending == <<queue, batch, edits>>
vars == <<ui, status, thread, port, counter, model, pending, written>>

Positions == {"none", "top", "pause", "wait", "asleep", "link", "use", "poll",
              "drain", "write", "returned"}
Edits == [n : 1 .. MaxEdits, model : 1 .. MaxModels]
Elements(s) == {s[i] : i \in DOMAIN s}

Init ==
  /\ main = "settings" /\ resume = FALSE
  /\ paused \in BOOLEAN /\ enabled \in BOOLEAN
  /\ worker = "none" /\ stop = FALSE
  /\ pump = FALSE /\ inited = FALSE /\ building = FALSE /\ open = FALSE
  /\ faults = 0 /\ timeouts = 0 /\ reads = 0 /\ commands = 0
  /\ model = 0 /\ queue = <<>> /\ batch = <<>> /\ edits = 0 /\ written = <<>>

-----------------------------------------------------------------------------
(* Pieces of the main thread's operations.                                 *)

(* ModbusMasterSerialPort::Init starts the serial worker once.             *)
InitSerial ==
  /\ pump' = TRUE
  /\ building' = (building \/ ~pump)
  /\ UNCHANGED <<inited, open, faults>>

(* Start: nothing while there is a worker.                                 *)
StartWorker ==
  /\ worker' = "top" /\ stop' = FALSE
  /\ IF enabled THEN InitSerial ELSE UNCHANGED port

(* request_stop and notify_all wake a paused worker.                       *)
RequestStop ==
  /\ stop' = (worker # "none")
  /\ worker' = IF worker = "asleep" THEN "wait" ELSE worker

-----------------------------------------------------------------------------
(* The main thread.                                                        *)

(* LoadSettings at startup; with a Device key it ends in ChangeDevice.     *)
LoadSettings(device) ==
  /\ main = "settings"
  /\ main' = "init"
  /\ model' \in {model} \cup
       (IF device /\ model < MaxModels THEN {model + 1} ELSE {})
  /\ IF device /\ ~paused THEN StartWorker ELSE UNCHANGED <<thread, port>>
  /\ UNCHANGED <<resume, status, counter, pending, written>>

(* Init replaces the layout, without the lock and whatever the worker does.*)
LoadModel ==
  /\ main = "init"
  /\ main' = "start"
  /\ model' \in {model} \cup
       (IF model < MaxModels THEN {model + 1} ELSE {})
  /\ UNCHANGED <<resume, status, thread, port, counter, pending, written>>

Start ==
  /\ main = "start"
  /\ main' = "idle"
  /\ IF worker = "none" THEN StartWorker ELSE UNCHANGED <<thread, port>>
  /\ UNCHANGED <<resume, status, counter, model, pending, written>>

(* Mutant of SetPollingStatus: nobody is notified.                         *)
SetPollingSilently(active) ==
  /\ main = "idle"
  /\ paused' = ~active
  /\ UNCHANGED <<ui, enabled, thread, port, counter, model, pending, written>>

SetPollingStatus(active) ==
  /\ main = "idle"
  /\ paused' = ~active
  /\ worker' = IF active /\ worker = "asleep" THEN "wait" ELSE worker
  /\ UNCHANGED <<ui, enabled, stop, port, counter, model, pending, written>>

SetEnabled(enable) ==
  /\ main = "idle"
  /\ enabled' = enable
  /\ IF enable
     THEN IF worker # "none" THEN InitSerial ELSE UNCHANGED port
     ELSE /\ pump' = FALSE /\ building' = FALSE /\ open' = FALSE
          /\ UNCHANGED <<inited, faults>>
  /\ UNCHANGED <<ui, paused, thread, counter, model, pending, written>>

(* EditCoil, EditHolding..., ImportValues: the GUI shows the present model.*)
Edit ==
  /\ main = "idle"
  /\ model > 0 /\ edits < MaxEdits
  /\ edits' = edits + 1
  /\ queue' = Append(queue, [n |-> edits + 1, model |-> model])
  /\ UNCHANGED <<ui, status, thread, port, counter, model, batch, written>>

(* SendCustomCommand from the panel, for which the main thread waits as the *)
(* worker does; m_RequestMutex puts it between two of the worker's requests.*)
CustomCommand ==
  /\ main = "idle" /\ commands < MaxCommands
  /\ commands' = commands + 1
  /\ \/ timeouts' = timeouts + 1
     \/ open /\ pump /\ timeouts' = 0
  /\ UNCHANGED <<ui, status, thread, port, reads, model, pending, written>>

(* ChangeDevice, up to the join in StopWorker.                             *)
ChangeDevice ==
  /\ main = "idle"
  /\ main' = "change"
  /\ resume' = ~paused
  /\ RequestStop
  /\ UNCHANGED <<status, port, counter, model, pending, written>>

(* Mutant of SwapModel: the queue is not cleared.                          *)
SwapKeepingEdits(loaded) ==
  /\ main = "change" /\ worker \in {"none", "returned"}
  /\ main' = "idle"
  /\ loaded => model < MaxModels
  /\ model' = IF loaded THEN model + 1 ELSE model
  /\ IF resume THEN StartWorker
     ELSE worker' = "none" /\ stop' = FALSE /\ UNCHANGED port
  /\ UNCHANGED <<resume, status, counter, pending, written>>

(* The rest of ChangeDevice.  The device may be unknown or not loadable.   *)
SwapModel(loaded) ==
  /\ main = "change" /\ worker \in {"none", "returned"}
  /\ main' = "idle"
  /\ loaded => model < MaxModels
  /\ model' = IF loaded THEN model + 1 ELSE model
  /\ queue' = IF loaded THEN <<>> ELSE queue
  /\ IF resume THEN StartWorker
     ELSE worker' = "none" /\ stop' = FALSE /\ UNCHANGED port
  /\ UNCHANGED <<resume, status, counter, batch, edits, written>>

(* Shutdown, up to the join, and what follows it.                          *)
Shutdown ==
  /\ main = "idle"
  /\ main' = "quit"
  /\ paused' = FALSE
  /\ RequestStop
  /\ UNCHANGED <<resume, enabled, port, counter, model, pending, written>>

DeInitSerial ==
  /\ main = "quit" /\ worker \in {"none", "returned"}
  /\ main' = "gone"
  /\ worker' = "none" /\ stop' = FALSE
  /\ pump' = FALSE /\ building' = FALSE
  /\ UNCHANGED <<resume, status, inited, open, faults, counter, model, pending,
                 written>>

-----------------------------------------------------------------------------
(* The serial port's worker.                                               *)

Construct ==
  /\ pump /\ building
  /\ \/ building' = FALSE /\ inited' = TRUE /\ open' = TRUE /\ UNCHANGED faults
     \/ /\ faults < MaxFaults
        /\ faults' = faults + 1
        /\ inited' = FALSE /\ open' = FALSE
        /\ UNCHANGED building
  /\ UNCHANGED <<ui, status, thread, pump, counter, model, pending, written>>

LinkLost ==
  /\ open /\ faults < MaxFaults
  /\ open' = FALSE /\ building' = pump
  /\ faults' = faults + 1
  /\ UNCHANGED <<ui, status, thread, pump, inited, counter, model, pending,
                 written>>

-----------------------------------------------------------------------------
(* ModbusWorker.                                                           *)

AwaitInstance ==
  /\ worker = "top" /\ ~stop /\ inited
  /\ worker' = "pause"
  /\ UNCHANGED <<ui, status, stop, port, counter, model, pending, written>>

CloseConnectionIfPaused ==
  /\ worker = "pause"
  /\ worker' = "wait"
  /\ open' = (open /\ ~paused)
  /\ UNCHANGED <<ui, status, stop, pump, inited, building, faults, counter,
                 model, pending, written>>

(* Mutant of WaitIfPaused: it waits without the stop token.                *)
WaitForResume ==
  /\ worker = "wait"
  /\ worker' = IF paused THEN "asleep"
               ELSE IF stop THEN "returned"
               ELSE IF enabled THEN "link" ELSE "top"
  /\ UNCHANGED <<ui, status, stop, port, counter, model, pending, written>>

(* The loop goes straight round while the handler is disabled.             *)
WaitIfPaused ==
  /\ worker = "wait"
  /\ worker' = IF stop THEN "returned"
               ELSE IF paused THEN "asleep"
               ELSE IF enabled THEN "link" ELSE "top"
  /\ UNCHANGED <<ui, status, stop, port, counter, model, pending, written>>

(* Open fails silently before the serial worker has a transport; failing   *)
(* on a transport leaves an error behind, for which it is rebuilt.         *)
OpenConnection ==
  /\ worker = "link"
  /\ worker' = "use"
  /\ \/ (open \/ ~inited) /\ UNCHANGED port
     \/ /\ ~open /\ inited
        /\ open' = TRUE
        /\ UNCHANGED <<pump, inited, building, faults>>
     \/ /\ ~open /\ inited /\ faults < MaxFaults
        /\ faults' = faults + 1
        /\ building' = pump
        /\ UNCHANGED <<pump, inited, open>>
  /\ UNCHANGED <<ui, status, stop, counter, model, pending, written>>

UseConnection ==
  /\ worker = "use"
  /\ worker' = IF open /\ ~stop THEN "poll" ELSE "top"
  /\ UNCHANGED <<ui, status, stop, port, counter, model, pending, written>>

(* An answer takes a link, a serial worker and an unused stop token.       *)
MayAnswer == open /\ pump /\ ~stop

(* One request of PollBitTable or PollRegisterTable; it is answered or it  *)
(* times out, and the poll goes on in either case.                         *)
PollRequest ==
  /\ worker = "poll" /\ reads < MaxReads
  /\ reads' = reads + 1
  /\ \/ timeouts' = timeouts + 1
     \/ MayAnswer /\ timeouts' = 0
  /\ UNCHANGED <<ui, status, thread, port, commands, model, pending, written>>

(* The poll ends when the tables have been asked for: a model may have no  *)
(* registers, and of a table of bits the rest is given up after a failure. *)
HandlePolling ==
  /\ worker = "poll"
  /\ worker' = "drain"
  /\ reads' = 0
  /\ UNCHANGED <<ui, status, stop, port, timeouts, commands, model, pending,
                 written>>

(* Mutant of Drain: edits that wait go before those of the last drain.     *)
DrainReversed ==
  /\ worker = "drain"
  /\ worker' = "write"
  /\ batch' = [i \in DOMAIN queue |-> queue[Len(queue) + 1 - i]]
  /\ queue' = <<>>
  /\ UNCHANGED <<ui, status, stop, port, counter, model, edits, written>>

Drain ==
  /\ worker = "drain"
  /\ worker' = "write"
  /\ batch' = queue /\ queue' = <<>>
  /\ UNCHANGED <<ui, status, stop, port, counter, model, edits, written>>

(* A write that has no address is skipped; one that is not answered may or *)
(* may not have reached the wire, and is not tried again.                  *)
ApplyWrite ==
  /\ worker = "write" /\ batch # <<>>
  /\ batch' = Tail(batch)
  /\ \/ UNCHANGED <<timeouts, written>>
     \/ /\ timeouts' = timeouts + 1
        /\ written' \in {written, Append(written, Head(batch).n)}
     \/ /\ MayAnswer
        /\ timeouts' = 0
        /\ written' = Append(written, Head(batch).n)
  /\ UNCHANGED <<ui, status, thread, port, reads, commands, model, queue, edits>>

(* Mutant of CheckTimeouts: ResetTimeoutPackets is missing.                *)
CloseOnTimeouts ==
  /\ worker = "write" /\ batch = <<>>
  /\ worker' = "top"
  /\ open' = (open /\ timeouts <= MaxTimeouts)
  /\ UNCHANGED <<ui, status, stop, pump, inited, building, faults, counter,
                 model, pending, written>>

CheckTimeouts ==
  /\ worker = "write" /\ batch = <<>>
  /\ worker' = "top"
  /\ IF timeouts > MaxTimeouts THEN open' = FALSE /\ timeouts' = 0
     ELSE UNCHANGED <<open, timeouts>>
  /\ UNCHANGED <<ui, status, stop, pump, inited, building, faults, reads, commands,
                 model, pending, written>>

Leave ==
  /\ worker = "top" /\ stop
  /\ worker' = "returned"
  /\ UNCHANGED <<ui, status, stop, port, counter, model, pending, written>>

-----------------------------------------------------------------------------
Startup == \/ \E device \in BOOLEAN : LoadSettings(device)
           \/ LoadModel \/ Start
Joined == (\E loaded \in BOOLEAN : SwapModel(loaded)) \/ DeInitSerial
ModbusWorker == \/ AwaitInstance \/ CloseConnectionIfPaused \/ WaitIfPaused
                \/ OpenConnection \/ UseConnection \/ PollRequest \/ HandlePolling
                \/ Drain \/ ApplyWrite \/ CheckTimeouts \/ Leave

Next == \/ Startup \/ Joined \/ ModbusWorker
        \/ \E on \in BOOLEAN : SetPollingStatus(on) \/ SetEnabled(on)
        \/ Edit \/ CustomCommand \/ ChangeDevice \/ Shutdown
        \/ Construct \/ LinkLost

(* Operating system threads.  The user never has to do anything.           *)
Spec == /\ Init /\ [][Next]_vars
        /\ WF_vars(Startup) /\ WF_vars(Joined)
        /\ WF_vars(ModbusWorker) /\ WF_vars(Construct)

-----------------------------------------------------------------------------
TypeOK ==
  /\ main \in {"settings", "init", "start", "idle", "change", "quit", "gone"}
  /\ resume \in BOOLEAN /\ paused \in BOOLEAN /\ enabled \in BOOLEAN
  /\ worker \in Positions /\ stop \in BOOLEAN
  /\ pump \in BOOLEAN /\ inited \in BOOLEAN /\ building \in BOOLEAN
  /\ open \in BOOLEAN /\ faults \in 0 .. MaxFaults
  /\ timeouts \in 0 .. MaxTimeouts + MaxReads + MaxEdits + MaxCommands
  /\ reads \in 0 .. MaxReads /\ commands \in 0 .. MaxCommands
  /\ model \in 0 .. MaxModels /\ edits \in 0 .. MaxEdits
  /\ queue \in Seq(Edits) /\ batch \in Seq(Edits)
  /\ written \in Seq(1 .. MaxEdits)

(* A register id is only ever applied to the model it was chosen from,     *)
(* although the model is replaced while edits wait (ModbusWriteQueue.hpp,  *)
(* Clear: "the ids they carry no longer mean anything").                   *)
EditOnItsModel == \A e \in Elements(queue) \cup Elements(batch) :
                     e.model = model

(* "Edits are queued and applied on the next poll, in the order they were  *)
(* made" (ModbusHandler.hpp): once each and in that order, or not at all.  *)
Channel == INSTANCE FrameChannel WITH accepted <- edits, sent <- written
EditsInOrder == Channel!Spec

(* StopWorker returns: neither the device choice nor the exit hangs the    *)
(* main thread on a worker that is paused, without a link or mid-request.  *)
JoinReturns == (main \in {"change", "quit"}) ~> (main \in {"idle", "gone"})

(* A worker that is neither paused, disabled nor stopped keeps polling:    *)
(* it recovers from lost connections and from a resume at any moment.      *)
Wanted == ~paused /\ enabled /\ main = "idle"
PollingContinues == <>[](Wanted /\ worker # "none") => []<>(worker = "poll")

(* "Edits are queued and applied on the next poll": with polling switched  *)
(* on, an edit does not stay in the queue for ever.                        *)
EditIsTaken == (queue # <<>>) ~> (queue = <<>> \/ ~Wanted)
=============================================================================
