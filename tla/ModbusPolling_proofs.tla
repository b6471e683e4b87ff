------------------------ MODULE ModbusPolling_proofs ------------------------
(***************************************************************************)
(* Proofs about ModbusPolling, for any bounds: types, that no edit is      *)
(* applied to a model it was not made for, and that the write queue        *)
(* implements FrameChannel.                                                *)
(***************************************************************************)
EXTENDS ModbusPolling, SequenceTheorems, TLAPS

InOrder(q) == \A i, j \in 1 .. Len(q) : i < j => q[i].n < q[j].n
MadeBefore(q) == \A i \in 1 .. Len(q) : q[i].n <= edits
WrittenBefore(q) == \A i \in 1 .. Len(q), w \in 1 .. Len(written) :
                       written[w] < q[i].n
OnModel(q) == \A i \in 1 .. Len(q) : q[i].model = model

(* What is written precedes what is drained, which precedes what waits.    *)
Line ==
  /\ Len(queue) <= edits
  /\ InOrder(queue) /\ InOrder(batch)
  /\ MadeBefore(queue) /\ MadeBefore(batch)
  /\ WrittenBefore(queue) /\ WrittenBefore(batch)
  /\ \A b \in 1 .. Len(batch), q \in 1 .. Len(queue) : batch[b].n < queue[q].n
  /\ \A w \in 1 .. Len(written) : written[w] <= edits

Models == OnModel(queue) /\ OnModel(batch)

(* No edits before the start; drained edits only while they are applied.   *)
Phases == /\ main \in {"settings", "init", "start"} => edits = 0
          /\ main = "settings" => worker = "none"
          /\ worker # "write" => batch = <<>>

(* The counter is looked at once per pass: till then every request of the  *)
(* poll, every drained edit and every custom frame may have raised it.     *)
Counter ==
  /\ worker \notin {"drain", "write"} => timeouts <= MaxTimeouts + reads + commands
  /\ worker = "drain" => timeouts <= MaxTimeouts + MaxReads + commands
  /\ worker = "write" =>
       timeouts + Len(batch) <= MaxTimeouts + MaxReads + MaxEdits + commands
  /\ worker # "poll" => reads = 0

IInv == TypeOK /\ Line /\ Models /\ Phases /\ Counter

-----------------------------------------------------------------------------
LEMMA IInvInit == Init => IInv
<1> SUFFICES ASSUME Init PROVE IInv
  OBVIOUS
<1> USE PollingAssumption
<1>1. queue \in Seq(Edits) /\ batch \in Seq(Edits) /\ written \in Seq(1 .. MaxEdits)
  BY EmptySeq DEF Init
<1>2. Len(queue) = 0 /\ Len(batch) = 0 /\ Len(written) = 0
  BY DEF Init
<1>3. /\ resume \in BOOLEAN /\ paused \in BOOLEAN /\ enabled \in BOOLEAN
      /\ stop \in BOOLEAN /\ pump \in BOOLEAN /\ inited \in BOOLEAN
      /\ building \in BOOLEAN /\ open \in BOOLEAN
  BY DEF Init
<1>4. TypeOK
  BY <1>1, <1>3 DEF Init, TypeOK, Positions
<1>5. Line /\ Models
  BY <1>2 DEF Init, Line, Models, InOrder, MadeBefore, WrittenBefore, OnModel
<1>6. Phases /\ Counter
  BY DEF Init, Phases, Counter
<1>. QED
  BY <1>4, <1>5, <1>6 DEF IInv

(* What the elements of the three sequences are.                           *)
LEMMA Elements3 ==
  ASSUME TypeOK
  PROVE  /\ \A i \in 1 .. Len(queue) : /\ queue[i] \in Edits
                                       /\ queue[i].n \in 1 .. MaxEdits
         /\ \A i \in 1 .. Len(batch) : /\ batch[i] \in Edits
                                       /\ batch[i].n \in 1 .. MaxEdits
         /\ \A i \in 1 .. Len(written) : written[i] \in 1 .. MaxEdits
         /\ Len(queue) \in Nat /\ Len(batch) \in Nat /\ Len(written) \in Nat
         /\ edits \in Nat /\ timeouts \in Nat /\ model \in Nat
         /\ reads \in Nat /\ commands \in Nat
<1> USE PollingAssumption
<1>1. /\ Len(queue) \in Nat /\ Len(batch) \in Nat /\ Len(written) \in Nat
      /\ \A i \in 1 .. Len(queue) : queue[i] \in Edits
      /\ \A i \in 1 .. Len(batch) : batch[i] \in Edits
      /\ \A i \in 1 .. Len(written) : written[i] \in 1 .. MaxEdits
  BY DEF TypeOK
<1>2. \A e \in Edits : e.n \in 1 .. MaxEdits
  BY DEF Edits
<1>3. /\ edits \in Nat /\ timeouts \in Nat /\ model \in Nat
      /\ reads \in Nat /\ commands \in Nat
  BY DEF TypeOK
<1>. QED
  BY <1>1, <1>2, <1>3

(* Steps that leave the edits, the model and the counters alone.           *)
Still == UNCHANGED <<counter, model, pending, written>>
Control ==
  /\ main' \in {"settings", "init", "start", "idle", "change", "quit", "gone"}
  /\ resume' \in BOOLEAN /\ paused' \in BOOLEAN /\ enabled' \in BOOLEAN
  /\ worker' \in Positions /\ stop' \in BOOLEAN
  /\ pump' \in BOOLEAN /\ inited' \in BOOLEAN /\ building' \in BOOLEAN
  /\ open' \in BOOLEAN /\ faults' \in 0 .. MaxFaults

(* The worker does not enter or leave its write phase, and the main thread *)
(* does not go back to its start.                                          *)
Steady ==
  /\ worker' \in {"drain", "write"} => worker' = worker
  /\ worker = "write" => worker' = worker
  /\ main' \in {"settings", "init", "start"} =>
       main \in {"settings", "init", "start"}
  /\ main' = "settings" => main = "settings" /\ worker' = worker

LEMMA StillStep ==
  ASSUME IInv, Still, Control, Steady,
         worker \in {"poll", "drain"} => worker' = worker
  PROVE  IInv'
<1>1. /\ timeouts' = timeouts /\ reads' = reads /\ commands' = commands
      /\ model' = model /\ queue' = queue
      /\ batch' = batch /\ edits' = edits /\ written' = written
  BY DEF Still, counter, pending
<1>2. TypeOK'
  BY <1>1 DEF IInv, TypeOK, Control
<1>3. Line' /\ Models'
  BY <1>1 DEF IInv, Line, Models, InOrder, MadeBefore, WrittenBefore, OnModel
<1>4. Phases'
  BY <1>1 DEF IInv, Phases, Steady
<1>5. Counter'
  BY <1>1 DEF IInv, Counter, Steady
<1>. QED
  BY <1>2, <1>3, <1>4, <1>5 DEF IInv

(* Starting a worker, as three operations of the main thread may do.       *)
LEMMA StartWorkerType ==
  ASSUME TypeOK, StartWorker
  PROVE  /\ worker' = "top" /\ stop' \in BOOLEAN
         /\ pump' \in BOOLEAN /\ inited' \in BOOLEAN /\ building' \in BOOLEAN
         /\ open' \in BOOLEAN /\ faults' \in 0 .. MaxFaults
BY DEF StartWorker, InitSerial, port, TypeOK

LEMMA RequestStopType ==
  ASSUME TypeOK, RequestStop
  PROVE  /\ stop' \in BOOLEAN /\ worker' \in Positions
         /\ worker' \in {worker, "wait"} /\ (worker # "asleep" => worker' = worker)
BY DEF RequestStop, TypeOK, Positions

LEMMA MainStill ==
  ASSUME IInv,
         \/ Start \/ (\E on \in BOOLEAN : SetPollingStatus(on) \/ SetEnabled(on))
         \/ ChangeDevice \/ Shutdown \/ DeInitSerial
  PROVE  IInv'
<1> USE DEF port, status, thread, ui, Positions
<1>1. TypeOK
  BY DEF IInv
<1>2. CASE Start
  <2>1. Still /\ main' = "idle" /\ UNCHANGED <<resume, status>>
    BY <1>2 DEF Start, Still
  <2>2. CASE worker = "none"
    <3>1. StartWorker
      BY <1>2, <2>2 DEF Start
    <3>2. Control
      BY <1>1, <2>1, <3>1, StartWorkerType DEF TypeOK, Control
    <3>3. worker' = "top"
      BY <3>1 DEF StartWorker
    <3>4. Steady
      BY <2>1, <2>2, <3>3 DEF Steady
    <3>. QED
      BY <2>1, <2>2, <3>2, <3>4, StillStep
  <2>3. CASE worker # "none"
    <3>1. UNCHANGED <<thread, port>>
      BY <1>2, <2>3 DEF Start
    <3>2. Control
      BY <1>1, <2>1, <3>1 DEF TypeOK, Control
    <3>3. Steady /\ worker' = worker
      BY <2>1, <3>1 DEF Steady
    <3>. QED
      BY <2>1, <3>2, <3>3, StillStep
  <2>. QED
    BY <2>2, <2>3
<1>3. CASE \E on \in BOOLEAN : SetPollingStatus(on)
  <2>1. PICK on \in BOOLEAN : SetPollingStatus(on)
    BY <1>3
  <2>2. Still /\ paused' = ~on /\ worker' \in {worker, "wait"}
        /\ (worker # "asleep" => worker' = worker)
    BY <2>1 DEF SetPollingStatus, Still
  <2>3. paused' \in BOOLEAN
    BY <2>2
  <2>4. Control
    BY <1>1, <2>1, <2>2, <2>3 DEF SetPollingStatus, TypeOK, Control
  <2>5. Steady
    BY <2>1, <2>2 DEF SetPollingStatus, Steady
  <2>. QED
    BY <2>2, <2>4, <2>5, StillStep
<1>4. CASE \E on \in BOOLEAN : SetEnabled(on)
  <2>1. PICK on \in BOOLEAN : SetEnabled(on)
    BY <1>4
  <2>2. Still /\ worker' = worker /\ main' = main
    BY <2>1 DEF SetEnabled, Still
  <2>3. /\ pump' \in BOOLEAN /\ inited' \in BOOLEAN /\ building' \in BOOLEAN
        /\ open' \in BOOLEAN /\ faults' \in 0 .. MaxFaults
    BY <1>1, <2>1 DEF SetEnabled, InitSerial, TypeOK
  <2>4. Control
    BY <1>1, <2>1, <2>3 DEF SetEnabled, TypeOK, Control
  <2>5. Steady
    BY <2>2 DEF Steady
  <2>. QED
    BY <2>2, <2>4, <2>5, StillStep
<1>5. CASE ChangeDevice
  <2>1. Still /\ RequestStop /\ main' = "change"
    BY <1>5 DEF ChangeDevice, Still
  <2>2. resume' \in BOOLEAN
    BY <1>5 DEF ChangeDevice
  <2>3. Control
    BY <1>1, <1>5, <2>1, <2>2, RequestStopType DEF ChangeDevice, TypeOK, Control
  <2>4. Steady
    BY <1>1, <2>1, RequestStopType DEF Steady
  <2>. QED
    BY <1>1, <2>1, <2>3, <2>4, RequestStopType, StillStep
<1>6. CASE Shutdown
  <2>1. Still /\ RequestStop /\ main' = "quit"
    BY <1>6 DEF Shutdown, Still
  <2>2. paused' \in BOOLEAN
    BY <1>6 DEF Shutdown
  <2>3. Control
    BY <1>1, <1>6, <2>1, <2>2, RequestStopType DEF Shutdown, TypeOK, Control
  <2>4. Steady
    BY <1>1, <2>1, RequestStopType DEF Steady
  <2>. QED
    BY <1>1, <2>1, <2>3, <2>4, RequestStopType, StillStep
<1>7. CASE DeInitSerial
  <2>1. Still /\ worker \in {"none", "returned"} /\ worker' = "none" /\ main' = "gone"
    BY <1>7 DEF DeInitSerial, Still
  <2>2. stop' \in BOOLEAN /\ pump' \in BOOLEAN /\ building' \in BOOLEAN
    BY <1>7 DEF DeInitSerial
  <2>3. Control
    BY <1>1, <1>7, <2>1, <2>2 DEF DeInitSerial, TypeOK, Control
  <2>4. Steady
    BY <2>1 DEF Steady
  <2>. QED
    BY <2>1, <2>3, <2>4, StillStep
<1>. QED
  BY <1>2, <1>3, <1>4, <1>5, <1>6, <1>7

LEMMA SerialStill ==
  ASSUME IInv, Construct \/ LinkLost
  PROVE  IInv'
<1>1. Still /\ UNCHANGED <<main, worker>>
  BY DEF Construct, LinkLost, Still, ui, thread
<1>2. /\ pump' \in BOOLEAN /\ inited' \in BOOLEAN /\ building' \in BOOLEAN
      /\ open' \in BOOLEAN /\ faults' \in 0 .. MaxFaults
  <2>1. CASE Construct
    <3>1. CASE building' = FALSE /\ inited' = TRUE /\ open' = TRUE /\ UNCHANGED faults
      BY <2>1, <3>1 DEF Construct, IInv, TypeOK
    <3>2. CASE faults < MaxFaults /\ faults' = faults + 1 /\ inited' = FALSE
               /\ open' = FALSE /\ UNCHANGED building
      <4>1. faults' \in 0 .. MaxFaults
        BY <3>2, PollingAssumption DEF IInv, TypeOK
      <4>. QED
        BY <2>1, <3>2, <4>1 DEF Construct, IInv, TypeOK
    <3>. QED
      BY <2>1, <3>1, <3>2 DEF Construct
  <2>2. CASE LinkLost
    <3>1. faults < MaxFaults /\ faults' = faults + 1
      BY <2>2 DEF LinkLost
    <3>2. faults' \in 0 .. MaxFaults
      BY <3>1, PollingAssumption DEF IInv, TypeOK
    <3>. QED
      BY <2>2, <3>2 DEF LinkLost, IInv, TypeOK
  <2>. QED
    BY <2>1, <2>2
<1>3. Control
  BY <1>1, <1>2 DEF Construct, LinkLost, Control, IInv, TypeOK, ui, status, thread
<1>4. Steady
  BY <1>1 DEF Steady
<1>. QED
  BY <1>1, <1>3, <1>4, StillStep

LEMMA WorkerStill ==
  ASSUME IInv,
         \/ AwaitInstance \/ CloseConnectionIfPaused \/ WaitIfPaused
         \/ OpenConnection \/ UseConnection \/ Leave
  PROVE  IInv'
<1>1. Still /\ UNCHANGED <<main, resume, paused, enabled, stop, pump, inited>>
  BY DEF AwaitInstance, CloseConnectionIfPaused, WaitIfPaused, OpenConnection,
         UseConnection, Leave, Still, ui, status, thread, port
<1>2. /\ worker \notin {"poll", "drain", "write"} /\ worker' \notin {"drain", "write"}
      /\ worker' \in Positions
  BY DEF AwaitInstance, CloseConnectionIfPaused, WaitIfPaused, OpenConnection,
         UseConnection, Leave, Positions
<1>3. /\ building' \in BOOLEAN /\ open' \in BOOLEAN /\ faults' \in 0 .. MaxFaults
  <2>1. CASE AwaitInstance \/ WaitIfPaused \/ UseConnection \/ Leave
    BY <2>1 DEF AwaitInstance, WaitIfPaused, UseConnection, Leave, port, IInv, TypeOK
  <2>2. CASE CloseConnectionIfPaused
    BY <2>2 DEF CloseConnectionIfPaused, IInv, TypeOK
  <2>3. CASE OpenConnection
    <3>1. CASE UNCHANGED port
      BY <2>3, <3>1 DEF port, IInv, TypeOK
    <3>2. CASE open' = TRUE /\ UNCHANGED <<pump, inited, building, faults>>
      BY <2>3, <3>2 DEF IInv, TypeOK
    <3>3. CASE /\ faults < MaxFaults /\ faults' = faults + 1
               /\ building' = pump /\ UNCHANGED <<pump, inited, open>>
      <4>1. faults' \in 0 .. MaxFaults
        BY <3>3, PollingAssumption DEF IInv, TypeOK
      <4>. QED
        BY <3>3, <4>1 DEF IInv, TypeOK
    <3>. QED
      BY <2>3, <3>1, <3>2, <3>3 DEF OpenConnection
  <2>. QED
    BY <2>1, <2>2, <2>3
<1>4. Control
  BY <1>1, <1>2, <1>3 DEF Control, IInv, TypeOK
<1>5. Steady
  <2>1. main # "settings"
    BY DEF IInv, Phases, AwaitInstance, CloseConnectionIfPaused, WaitIfPaused,
           OpenConnection, UseConnection, Leave
  <2>. QED
    BY <1>1, <1>2, <2>1 DEF Steady
<1>. QED
  BY <1>1, <1>2, <1>4, <1>5, StillStep

-----------------------------------------------------------------------------
(* The steps that touch the model, the edits or the counter.               *)

LEMMA NoEdits ==
  ASSUME IInv, main \in {"settings", "init", "start"}
  PROVE  edits = 0 /\ Len(queue) = 0 /\ Len(batch) = 0 /\ Len(written) = 0
<1>1. edits = 0
  BY DEF IInv, Phases
<1>2. Len(queue) \in Nat /\ Len(batch) \in Nat /\ Len(written) \in Nat /\ Len(queue) <= 0
  BY <1>1, Elements3 DEF IInv, Line
<1>3. \A i \in 1 .. Len(batch) : batch[i].n <= 0 /\ batch[i].n \in 1 .. MaxEdits
  BY <1>1, Elements3 DEF IInv, Line, MadeBefore
<1>4. \A i \in 1 .. Len(written) : written[i] <= 0 /\ written[i] \in 1 .. MaxEdits
  BY <1>1, Elements3 DEF IInv, Line
<1>5. Len(batch) = 0
  <2>1. SUFFICES ASSUME Len(batch) # 0 PROVE FALSE
    OBVIOUS
  <2>2. 1 \in 1 .. Len(batch)
    BY <1>2, <2>1
  <2>. QED
    BY <1>3, <2>2, PollingAssumption
<1>6. Len(written) = 0
  <2>1. SUFFICES ASSUME Len(written) # 0 PROVE FALSE
    OBVIOUS
  <2>2. 1 \in 1 .. Len(written)
    BY <1>2, <2>1
  <2>. QED
    BY <1>4, <2>2, PollingAssumption
<1>. QED
  BY <1>1, <1>2, <1>5, <1>6

(* Loading a model before the start.                                       *)
LEMMA LoadStep ==
  ASSUME IInv, LoadModel \/ (\E device \in BOOLEAN : LoadSettings(device))
  PROVE  IInv'
<1>1. /\ main \in {"settings", "init", "start"}
      /\ main' \in {"settings", "init", "start"}
      /\ UNCHANGED <<resume, paused, enabled, timeouts, reads, commands, queue,
                     batch, edits, written>>
  BY DEF LoadModel, LoadSettings, status, counter, pending
<1>2. edits = 0 /\ Len(queue) = 0 /\ Len(batch) = 0 /\ Len(written) = 0
  BY <1>1, NoEdits
<1>3. model' \in 0 .. MaxModels
  BY PollingAssumption DEF LoadModel, LoadSettings, IInv, TypeOK
<1>4. /\ worker' = worker \/ (worker = "none" /\ worker' = "top")
      /\ stop' \in BOOLEAN /\ pump' \in BOOLEAN /\ inited' \in BOOLEAN
      /\ building' \in BOOLEAN /\ open' \in BOOLEAN /\ faults' \in 0 .. MaxFaults
  <2>1. CASE UNCHANGED <<thread, port>>
    BY <2>1 DEF thread, port, IInv, TypeOK
  <2>2. CASE main = "settings" /\ StartWorker
    <3>1. worker = "none"
      BY <2>2 DEF IInv, Phases
    <3>. QED
      BY <2>2, <3>1, StartWorkerType DEF IInv
  <2>. QED
    BY <2>1, <2>2 DEF LoadModel, LoadSettings
<1>5. TypeOK'
  <2>1. worker' \in Positions
    BY <1>4 DEF IInv, TypeOK, Positions
  <2>. QED
    BY <1>1, <1>3, <1>4, <2>1 DEF IInv, TypeOK
<1>6. Line' /\ Models'
  BY <1>1, <1>2 DEF IInv, Line, Models, InOrder, MadeBefore, WrittenBefore, OnModel
<1>7. Phases' /\ Counter'
  <2>1. main' # "settings"
    BY DEF LoadModel, LoadSettings
  <2>. QED
    BY <1>1, <1>2, <1>4, <2>1 DEF IInv, Phases, Counter
<1>. QED
  BY <1>5, <1>6, <1>7 DEF IInv

(* The end of ChangeDevice: no worker is left to hold drained edits, and   *)
(* those that wait go with the model they were made for.                   *)
LEMMA SwapStep ==
  ASSUME IInv, NEW loaded \in BOOLEAN, SwapModel(loaded)
  PROVE  IInv'
<1>1. /\ worker \in {"none", "returned"} /\ main' = "idle"
      /\ UNCHANGED <<resume, paused, enabled, timeouts, reads, commands, batch,
                     edits, written>>
  BY DEF SwapModel, status, counter
<1>2. Len(batch) = 0 /\ timeouts <= MaxTimeouts + reads + commands /\ reads = 0
  BY <1>1 DEF IInv, Phases, Counter
<1>3. /\ worker' \in {"none", "top"} /\ stop' \in BOOLEAN
      /\ pump' \in BOOLEAN /\ inited' \in BOOLEAN /\ building' \in BOOLEAN
      /\ open' \in BOOLEAN /\ faults' \in 0 .. MaxFaults
  <2>1. CASE resume
    BY <2>1, StartWorkerType DEF SwapModel, IInv
  <2>2. CASE ~resume
    BY <2>2 DEF SwapModel, port, IInv, TypeOK
  <2>. QED
    BY <2>1, <2>2
<1>4. /\ model' \in 0 .. MaxModels /\ queue' \in Seq(Edits)
      /\ Len(queue') = 0 \/ (queue' = queue /\ model' = model)
  <2>1. CASE loaded
    <3>1. model' \in 0 .. MaxModels
      BY <2>1, PollingAssumption DEF SwapModel, IInv, TypeOK
    <3>2. queue' = <<>>
      BY <2>1 DEF SwapModel
    <3>. QED
      BY <3>1, <3>2, EmptySeq
  <2>2. CASE ~loaded
    BY <2>2 DEF SwapModel, IInv, TypeOK
  <2>. QED
    BY <2>1, <2>2
<1>5. TypeOK'
  BY <1>1, <1>3, <1>4 DEF IInv, TypeOK, Positions
<1>6. Line' /\ Models'
  <2>1. Len(queue') <= edits'
    BY <1>1, <1>4, Elements3 DEF IInv, Line
  <2>2. CASE Len(queue') = 0
    BY <1>1, <1>2, <2>1, <2>2 DEF IInv, Line, Models, InOrder, MadeBefore, WrittenBefore, OnModel
  <2>3. CASE queue' = queue /\ model' = model
    BY <1>1, <1>2, <2>1, <2>3 DEF IInv, Line, Models, InOrder, MadeBefore, WrittenBefore, OnModel
  <2>. QED
    BY <1>4, <2>2, <2>3
<1>7. Phases' /\ Counter'
  BY <1>1, <1>2, <1>3 DEF IInv, Phases, Counter
<1>. QED
  BY <1>5, <1>6, <1>7 DEF IInv

LEMMA EditStep ==
  ASSUME IInv, Edit
  PROVE  IInv'
<1> DEFINE e == [n |-> edits + 1, model |-> model]
<1>1. /\ edits < MaxEdits /\ model > 0 /\ edits' = edits + 1
      /\ queue' = Append(queue, e) /\ main = "idle"
      /\ UNCHANGED <<main, resume, paused, enabled, worker, stop, pump, inited,
                     building, open, faults, timeouts, reads, commands, model,
                     batch, written>>
  BY DEF Edit, ui, status, thread, port, counter
<1>2. edits + 1 \in 1 .. MaxEdits /\ model \in 1 .. MaxModels
  BY <1>1, PollingAssumption DEF IInv, TypeOK
<1>3. e \in Edits /\ e.n = edits + 1 /\ e.model = model
  BY <1>2 DEF Edits
<1>4. queue \in Seq(Edits)
  BY DEF IInv, TypeOK
<1>5. /\ queue' \in Seq(Edits) /\ Len(queue') = Len(queue) + 1
      /\ \A i \in 1 .. Len(queue) : queue'[i] = queue[i]
      /\ queue'[Len(queue) + 1] = e
  BY <1>1, <1>3, <1>4, AppendProperties
<1>6. TypeOK'
  <2>1. edits' \in 0 .. MaxEdits
    BY <1>1, <1>2
  <2>. QED
    BY <1>1, <1>5, <2>1 DEF IInv, TypeOK
<1>. HIDE DEF e
<1>7. /\ Len(queue) \in Nat /\ edits \in Nat
      /\ \A i \in 1 .. Len(queue) : queue[i].n \in Nat /\ queue[i].n <= edits
      /\ \A i \in 1 .. Len(batch) : batch[i].n \in Nat /\ batch[i].n <= edits
      /\ \A i \in 1 .. Len(written) : written[i] \in Nat /\ written[i] <= edits
  <2>1. Line /\ TypeOK
    BY DEF IInv
  <2>. QED
    BY <2>1, Elements3 DEF Line, MadeBefore
<1>8. \A i \in 1 .. Len(queue') :
         \/ i \in 1 .. Len(queue) /\ queue'[i] = queue[i]
         \/ i = Len(queue) + 1 /\ queue'[i] = e
  BY <1>5, <1>7
<1>9. Models'
  BY <1>1, <1>3, <1>8 DEF IInv, Models, OnModel
<1>10. InOrder(queue)'
  BY <1>3, <1>7, <1>8 DEF IInv, Line, InOrder
<1>11. MadeBefore(queue)' /\ MadeBefore(batch)'
  BY <1>1, <1>3, <1>7, <1>8 DEF MadeBefore
<1>12. WrittenBefore(queue)' /\ WrittenBefore(batch)'
  BY <1>1, <1>3, <1>7, <1>8 DEF IInv, Line, WrittenBefore
<1>13. \A b \in 1 .. Len(batch'), q \in 1 .. Len(queue') : batch'[b].n < queue'[q].n
  BY <1>1, <1>3, <1>7, <1>8 DEF IInv, Line
<1>14. Line'
  <2>1. Len(queue') <= edits'
    BY <1>1, <1>5, <1>7 DEF IInv, Line
  <2>2. InOrder(batch)'
    BY <1>1 DEF IInv, Line, InOrder
  <2>3. \A w \in 1 .. Len(written') : written'[w] <= edits'
    BY <1>1, <1>7
  <2>. QED
    BY <1>10, <1>11, <1>12, <1>13, <2>1, <2>2, <2>3 DEF Line
<1>15. Phases' /\ Counter'
  BY <1>1 DEF IInv, Phases, Counter
<1>. QED
  BY <1>6, <1>9, <1>14, <1>15 DEF IInv

LEMMA WithinLimit ==
  ASSUME NEW r \in 0 .. MaxReads, NEW c \in 0 .. MaxCommands,
         NEW t \in Nat, t <= MaxTimeouts + r + c
  PROVE  t \in 0 .. MaxTimeouts + MaxReads + MaxEdits + MaxCommands
BY PollingAssumption

(* A request of a poll raises the counter by one or resets it.             *)
LEMMA RequestStep ==
  ASSUME IInv, PollRequest
  PROVE  IInv'
<1>1. /\ worker = "poll" /\ reads < MaxReads /\ reads' = reads + 1
      /\ timeouts' = timeouts + 1 \/ timeouts' = 0
      /\ UNCHANGED <<main, resume, paused, enabled, worker, stop, pump, inited, building,
                     open, faults, commands, model, queue, batch, edits, written>>
  BY DEF PollRequest, ui, status, thread, port, pending
<1>2. /\ timeouts <= MaxTimeouts + reads + commands
      /\ timeouts \in Nat /\ reads \in Nat /\ commands \in Nat
  BY <1>1, Elements3 DEF IInv, Counter
<1>3. timeouts' \in Nat /\ timeouts' <= MaxTimeouts + reads' + commands
  BY <1>1, <1>2, PollingAssumption
<1>4. TypeOK'
  <2>1. commands <= MaxCommands /\ reads' \in 0 .. MaxReads
    BY <1>1, <1>2, PollingAssumption DEF IInv, TypeOK
  <2>2. commands \in 0 .. MaxCommands
    BY <1>2, <2>1, PollingAssumption
  <2>3. timeouts' \in 0 .. MaxTimeouts + MaxReads + MaxEdits + MaxCommands
    BY <1>3, <2>1, <2>2, WithinLimit
  <2>. QED
    BY <1>1, <2>1, <2>3 DEF IInv, TypeOK
<1>5. Line' /\ Models'
  BY <1>1 DEF IInv, Line, Models, InOrder, MadeBefore, WrittenBefore, OnModel
<1>6. Phases'
  BY <1>1 DEF IInv, Phases
<1>7. Counter'
  BY <1>1, <1>3 DEF Counter
<1>. QED
  BY <1>4, <1>5, <1>6, <1>7 DEF IInv

LEMMA PollStep ==
  ASSUME IInv, HandlePolling
  PROVE  IInv'
<1>1. /\ worker = "poll" /\ worker' = "drain" /\ reads' = 0
      /\ UNCHANGED <<main, resume, paused, enabled, stop, pump, inited, building, open,
                     faults, timeouts, commands, model, queue, batch, edits, written>>
  BY DEF HandlePolling, ui, status, port, pending
<1>2. timeouts <= MaxTimeouts + MaxReads + commands
  <2>1. timeouts <= MaxTimeouts + reads + commands /\ reads \in 0 .. MaxReads
    BY <1>1 DEF IInv, Counter, TypeOK
  <2>. QED
    BY <2>1, Elements3, PollingAssumption DEF IInv
<1>3. TypeOK'
  BY <1>1, PollingAssumption DEF IInv, TypeOK, Positions
<1>4. Line' /\ Models'
  BY <1>1 DEF IInv, Line, Models, InOrder, MadeBefore, WrittenBefore, OnModel
<1>5. Phases'
  BY <1>1 DEF IInv, Phases
<1>6. Counter'
  BY <1>1, <1>2 DEF Counter
<1>. QED
  BY <1>3, <1>4, <1>5, <1>6 DEF IInv

(* A custom frame may raise the counter wherever the worker is.            *)
LEMMA CommandStep ==
  ASSUME IInv, CustomCommand
  PROVE  IInv'
<1>1. /\ main = "idle" /\ commands < MaxCommands /\ commands' = commands + 1
      /\ timeouts' = timeouts + 1 \/ timeouts' = 0
      /\ UNCHANGED <<main, resume, paused, enabled, worker, stop, pump, inited, building,
                     open, faults, reads, model, queue, batch, edits, written>>
  BY DEF CustomCommand, ui, status, thread, port, pending
<1>2. /\ timeouts \in Nat /\ reads \in Nat /\ commands \in Nat /\ Len(batch) \in Nat
      /\ reads <= MaxReads /\ commands' \in 0 .. MaxCommands
  BY <1>1, Elements3, PollingAssumption DEF IInv, TypeOK
<1>3. timeouts <= MaxTimeouts + MaxReads + MaxEdits + commands
  <2>1. CASE worker \notin {"drain", "write"}
    <3>1. timeouts <= MaxTimeouts + reads + commands
      BY <2>1 DEF IInv, Counter
    <3>. QED
      BY <1>2, <3>1, PollingAssumption
  <2>2. CASE worker = "drain"
    <3>1. timeouts <= MaxTimeouts + MaxReads + commands
      BY <2>2 DEF IInv, Counter
    <3>. QED
      BY <1>2, <3>1, PollingAssumption
  <2>3. CASE worker = "write"
    <3>1. timeouts + Len(batch) <= MaxTimeouts + MaxReads + MaxEdits + commands
      BY <2>3 DEF IInv, Counter
    <3>. QED
      BY <1>2, <3>1, PollingAssumption
  <2>. QED
    BY <2>1, <2>2, <2>3
<1>4. TypeOK'
  <2>1. timeouts' \in 0 .. MaxTimeouts + MaxReads + MaxEdits + MaxCommands
    BY <1>1, <1>2, <1>3, PollingAssumption
  <2>. QED
    BY <1>1, <1>2, <2>1 DEF IInv, TypeOK
<1>5. Line' /\ Models'
  BY <1>1 DEF IInv, Line, Models, InOrder, MadeBefore, WrittenBefore, OnModel
<1>6. Phases'
  BY <1>1 DEF IInv, Phases
<1>7. Counter'
  <2>1. CASE timeouts' = timeouts + 1
    BY <1>1, <1>2, <2>1, PollingAssumption DEF IInv, Counter
  <2>2. CASE timeouts' = 0
    <3>1. worker = "write" => Len(batch) <= MaxTimeouts + MaxReads + MaxEdits + commands
      BY <1>2, PollingAssumption DEF IInv, Counter
    <3>. QED
      BY <1>1, <1>2, <2>2, <3>1, PollingAssumption DEF IInv, Counter
  <2>. QED
    BY <1>1, <2>1, <2>2
<1>. QED
  BY <1>4, <1>5, <1>6, <1>7 DEF IInv

LEMMA DrainStep ==
  ASSUME IInv, Drain
  PROVE  IInv'
<1>1. /\ worker = "drain" /\ worker' = "write" /\ batch' = queue /\ queue' = <<>>
      /\ UNCHANGED <<main, resume, paused, enabled, stop, pump, inited, building,
                     open, faults, timeouts, reads, commands, model, edits, written>>
  BY DEF Drain, ui, status, port, counter
<1>2. queue' \in Seq(Edits) /\ Len(queue') = 0
  BY <1>1, EmptySeq
<1>3. TypeOK'
  BY <1>1, <1>2 DEF IInv, TypeOK, Positions
<1>4. Line'
  BY <1>1, <1>2, Elements3 DEF IInv, Line, InOrder, MadeBefore, WrittenBefore
<1>5. Models'
  BY <1>1, <1>2 DEF IInv, Models, OnModel
<1>6. Phases'
  BY <1>1 DEF IInv, Phases
<1>7. Counter'
  <2>1. Len(queue) <= edits /\ edits \in 0 .. MaxEdits
        /\ timeouts <= MaxTimeouts + MaxReads + commands /\ reads = 0
    BY <1>1 DEF IInv, Line, TypeOK, Counter
  <2>2. Len(queue) \in Nat /\ timeouts \in Nat /\ commands \in Nat
    BY Elements3 DEF IInv
  <2>3. timeouts + Len(queue) <= MaxTimeouts + MaxReads + MaxEdits + commands
    BY <2>1, <2>2, PollingAssumption
  <2>. QED
    BY <1>1, <2>1, <2>3 DEF Counter
<1>. QED
  BY <1>3, <1>4, <1>5, <1>6, <1>7 DEF IInv

(* Whatever becomes of a drained edit, it leaves the batch and, at most    *)
(* once, joins what is written.                                            *)
LEMMA ApplyStep ==
  ASSUME IInv, ApplyWrite
  PROVE  IInv'
<1> USE PollingAssumption
<1>1. /\ worker = "write" /\ batch # <<>> /\ batch' = Tail(batch)
      /\ UNCHANGED <<main, resume, paused, enabled, worker, stop, pump, inited,
                     building, open, faults, reads, commands, model, queue, edits>>
  BY DEF ApplyWrite, ui, status, thread, port
<1>2. /\ timeouts' = timeouts \/ timeouts' = timeouts + 1 \/ timeouts' = 0
      /\ written' = written \/ written' = Append(written, Head(batch).n)
  BY DEF ApplyWrite
<1>3. batch \in Seq(Edits) /\ written \in Seq(1 .. MaxEdits)
  BY DEF IInv, TypeOK
<1>4. /\ Len(batch) \in Nat /\ Len(batch) >= 1
      /\ batch' \in Seq(Edits) /\ Len(batch') = Len(batch) - 1
      /\ \A i \in 1 .. Len(batch') : batch'[i] = batch[i + 1]
      /\ Head(batch) = batch[1]
  BY <1>1, <1>3, HeadTailProperties, LenProperties
<1>5. Head(batch).n \in 1 .. MaxEdits
  BY <1>4, Elements3 DEF IInv
<1>6. written' \in Seq(1 .. MaxEdits)
  <2>1. Append(written, Head(batch).n) \in Seq(1 .. MaxEdits)
    BY <1>3, <1>5, AppendProperties
  <2>. QED
    BY <1>2, <1>3, <2>1
<1>7. /\ Len(written) \in Nat /\ Len(written') \in Nat
      /\ \A w \in 1 .. Len(written') :
            \/ w \in 1 .. Len(written) /\ written'[w] = written[w]
            \/ written'[w] = batch[1].n
  <2>1. CASE written' = written
    BY <1>3, <2>1
  <2>2. CASE written' = Append(written, Head(batch).n)
    <3>1. /\ Len(written) \in Nat /\ Len(written') = Len(written) + 1
          /\ \A w \in 1 .. Len(written) : written'[w] = written[w]
          /\ written'[Len(written) + 1] = batch[1].n
      BY <1>3, <1>4, <1>5, <2>2, AppendProperties
    <3>. QED
      BY <3>1
  <2>. QED
    BY <1>2, <2>1, <2>2
<1>8. /\ timeouts \in Nat /\ timeouts' \in Nat /\ commands \in 0 .. MaxCommands
      /\ timeouts + Len(batch) <= MaxTimeouts + MaxReads + MaxEdits + commands
      /\ reads = 0
  BY <1>1, <1>2, Elements3 DEF IInv, Counter, TypeOK
<1>9. timeouts' + Len(batch') <= MaxTimeouts + MaxReads + MaxEdits + commands
  BY <1>2, <1>4, <1>8
<1>10. TypeOK'
  <2>1. timeouts' \in 0 .. MaxTimeouts + MaxReads + MaxEdits + MaxCommands
    BY <1>4, <1>8, <1>9
  <2>. QED
    BY <1>1, <1>4, <1>6, <2>1 DEF IInv, TypeOK
<1>11. /\ \A i \in 1 .. Len(batch) : batch[i].n \in Nat /\ batch[i].n <= edits
       /\ \A i \in 1 .. Len(queue) : queue[i].n \in Nat
       /\ \A i \in 1 .. Len(written) : written[i] \in Nat
       /\ edits \in Nat
  BY Elements3 DEF IInv, Line, MadeBefore
<1>12. InOrder(batch)' /\ MadeBefore(batch)'
  BY <1>1, <1>4, <1>11 DEF IInv, Line, InOrder, MadeBefore
<1>13. WrittenBefore(batch)'
  <2>1. \A i \in 1 .. Len(batch') : batch[1].n < batch'[i].n
    BY <1>4 DEF IInv, Line, InOrder
  <2>2. \A i \in 1 .. Len(batch'), w \in 1 .. Len(written) : written[w] < batch'[i].n
    <3>1. \A i \in 1 .. Len(batch') : i + 1 \in 1 .. Len(batch)
      BY <1>4
    <3>2. WrittenBefore(batch)
      BY DEF IInv, Line
    <3>3. \A i \in 1 .. Len(batch), w \in 1 .. Len(written) : written[w] < batch[i].n
      BY <3>2 DEF WrittenBefore
    <3>. QED
      BY <1>4, <3>1, <3>3
  <2>. QED
    BY <1>7, <2>1, <2>2 DEF WrittenBefore
<1>14. WrittenBefore(queue)'
  <2>1. \A i \in 1 .. Len(queue) : batch[1].n < queue[i].n
    BY <1>4 DEF IInv, Line
  <2>. QED
    BY <1>1, <1>7, <2>1 DEF IInv, Line, WrittenBefore
<1>15. \A b \in 1 .. Len(batch'), q \in 1 .. Len(queue') : batch'[b].n < queue'[q].n
  BY <1>1, <1>4 DEF IInv, Line
<1>16. \A w \in 1 .. Len(written') : written'[w] <= edits'
  BY <1>1, <1>4, <1>7, <1>11 DEF IInv, Line
<1>17. Line'
  <2>1. Len(queue') <= edits' /\ InOrder(queue)' /\ MadeBefore(queue)'
    BY <1>1 DEF IInv, Line, InOrder, MadeBefore
  <2>. QED
    BY <1>12, <1>13, <1>14, <1>15, <1>16, <2>1 DEF Line
<1>18. Models'
  BY <1>1, <1>4 DEF IInv, Models, OnModel
<1>19. Phases' /\ Counter'
  BY <1>1, <1>8, <1>9 DEF IInv, Phases, Counter
<1>. QED
  BY <1>10, <1>17, <1>18, <1>19 DEF IInv

LEMMA CheckStep ==
  ASSUME IInv, CheckTimeouts
  PROVE  IInv'
<1>1. /\ worker = "write" /\ batch = <<>> /\ worker' = "top"
      /\ UNCHANGED <<main, resume, paused, enabled, stop, pump, inited, building,
                     faults, reads, commands, model, queue, batch, edits, written>>
  BY DEF CheckTimeouts, ui, status, pending
<1>2. /\ open' \in BOOLEAN
      /\ timeouts' = 0 \/ (timeouts' = timeouts /\ ~ (timeouts > MaxTimeouts))
  <2>1. CASE timeouts > MaxTimeouts
    BY <2>1 DEF CheckTimeouts
  <2>2. CASE ~ (timeouts > MaxTimeouts)
    BY <2>2 DEF CheckTimeouts, IInv, TypeOK
  <2>. QED
    BY <2>1, <2>2
<1>3. timeouts' \in Nat /\ timeouts' <= MaxTimeouts
  BY <1>2, Elements3, PollingAssumption DEF IInv
<1>4. TypeOK'
  <2>1. timeouts' \in 0 .. MaxTimeouts + MaxReads + MaxEdits + MaxCommands
    BY <1>3, PollingAssumption
  <2>. QED
    BY <1>1, <1>2, <2>1 DEF IInv, TypeOK, Positions
<1>5. Line' /\ Models'
  BY <1>1 DEF IInv, Line, Models, InOrder, MadeBefore, WrittenBefore, OnModel
<1>6. Phases' /\ Counter'
  <2>1. main' # "settings"
    BY <1>1 DEF IInv, Phases
  <2>2. reads = 0 /\ commands \in Nat
    BY <1>1, Elements3 DEF IInv, Counter
  <2>3. timeouts' <= MaxTimeouts + reads + commands
    BY <1>3, <2>2, PollingAssumption
  <2>. QED
    BY <1>1, <2>1, <2>2, <2>3 DEF IInv, Phases, Counter
<1>. QED
  BY <1>4, <1>5, <1>6 DEF IInv

LEMMA IInvStep == IInv /\ [Next]_vars => IInv'
<1> SUFFICES ASSUME IInv, [Next]_vars PROVE IInv'
  OBVIOUS
<1>1. CASE Startup
  BY <1>1, LoadStep, MainStill DEF Startup
<1>2. CASE Joined
  BY <1>2, SwapStep, MainStill DEF Joined
<1>3. CASE ModbusWorker
  BY <1>3, WorkerStill, RequestStep, PollStep, DrainStep, ApplyStep, CheckStep DEF ModbusWorker
<1>4. CASE \E on \in BOOLEAN : SetPollingStatus(on) \/ SetEnabled(on)
  BY <1>4, MainStill
<1>5. CASE Edit \/ CustomCommand \/ ChangeDevice \/ Shutdown
  BY <1>5, EditStep, CommandStep, MainStill
<1>6. CASE Construct \/ LinkLost
  BY <1>6, SerialStill
<1>7. CASE UNCHANGED vars
  BY <1>7 DEF vars, ui, status, thread, port, counter, pending, IInv, TypeOK, Line, Models,
     InOrder, MadeBefore, WrittenBefore, OnModel, Phases, Counter
<1>. QED
  BY <1>1, <1>2, <1>3, <1>4, <1>5, <1>6, <1>7 DEF Next

LEMMA Invariance == Spec => []IInv
BY IInvInit, IInvStep, PTL DEF Spec

(* Every variable keeps its type, and the timeout counter stays within its *)
(* limit plus the requests of one poll, the edits of one drain and the     *)
(* custom frames of the panel.                                             *)
THEOREM TypeCorrect == Spec => []TypeOK
BY Invariance, PTL DEF IInv

(* ChangeDevice joins the worker and clears the queue before an edit can   *)
(* meet a model it was not made for, and the loop never hoards edits.      *)
THEOREM EditsMatchModel == Spec => []EditOnItsModel
<1>1. IInv => EditOnItsModel
  <2> SUFFICES ASSUME IInv, NEW e \in Elements(queue) \cup Elements(batch)
               PROVE  e.model = model
    BY DEF EditOnItsModel
  <2>1. /\ DOMAIN queue = 1 .. Len(queue) /\ DOMAIN batch = 1 .. Len(batch)
    BY LenProperties DEF IInv, TypeOK
  <2>. QED
    BY <2>1 DEF Elements, IInv, Models, OnModel
<1>. QED
  BY <1>1, Invariance, PTL

-----------------------------------------------------------------------------
(* Every step of the handler is one of FrameChannel or leaves it alone.    *)
LEMMA ChannelStep == IInv /\ [Next]_vars => [Channel!Next]_<<edits, written>>
<1> SUFFICES ASSUME IInv, [Next]_vars, ~ UNCHANGED <<edits, written>>
             PROVE  Channel!Next
  OBVIOUS
<1>1. CASE Edit
  <2>1. edits' = edits + 1 /\ written' = written
    BY <1>1 DEF Edit
  <2>. QED
    BY <2>1 DEF Channel!Next, Channel!Accept
<1>2. CASE ApplyWrite
  <2>1. /\ batch # <<>> /\ edits' = edits
        /\ written' = written \/ written' = Append(written, Head(batch).n)
    BY <1>2 DEF ApplyWrite
  <2>2. written' = Append(written, Head(batch).n)
    BY <2>1
  <2>3. batch \in Seq(Edits) /\ written \in Seq(1 .. MaxEdits)
    BY DEF IInv, TypeOK
  <2>4. Len(batch) \in Nat /\ Len(batch) >= 1 /\ Head(batch) = batch[1]
    BY <2>1, <2>3, HeadTailProperties, LenProperties
  <2>5. batch[1].n \in 1 .. edits
    BY <2>4, Elements3, PollingAssumption DEF IInv, Line, MadeBefore
  <2>6. \A i \in DOMAIN written : written[i] < batch[1].n
    BY <2>3, <2>4, LenProperties DEF IInv, Line, WrittenBefore
  <2>7. Channel!Send(batch[1].n)
    BY <2>1, <2>2, <2>4, <2>6 DEF Channel!Send
  <2>. QED
    BY <2>5, <2>7 DEF Channel!Next
<1>3. ~ Edit /\ ~ ApplyWrite => UNCHANGED <<edits, written>>
  <2> SUFFICES ASSUME ~ Edit, ~ ApplyWrite PROVE UNCHANGED <<edits, written>>
    OBVIOUS
  <2>1. CASE Startup \/ Joined
    BY <2>1 DEF Startup, LoadSettings, LoadModel, Start, Joined, SwapModel,
       DeInitSerial, pending
  <2>2. CASE ModbusWorker
    BY <2>2 DEF ModbusWorker, AwaitInstance, CloseConnectionIfPaused, WaitIfPaused,
       OpenConnection, UseConnection, PollRequest, HandlePolling, Drain, CheckTimeouts, Leave, pending
  <2>3. CASE \E on \in BOOLEAN : SetPollingStatus(on) \/ SetEnabled(on)
    BY <2>3 DEF SetPollingStatus, SetEnabled, pending
  <2>4. CASE CustomCommand \/ ChangeDevice \/ Shutdown \/ Construct \/ LinkLost
    BY <2>4 DEF CustomCommand, ChangeDevice, Shutdown, Construct, LinkLost, pending
  <2>5. CASE UNCHANGED vars
    BY <2>5 DEF vars, pending
  <2>. QED
    BY <2>1, <2>2, <2>3, <2>4, <2>5 DEF Next
<1>. QED
  BY <1>1, <1>2, <1>3

(* Edits go out once each and in the order they were made, across pauses,  *)
(* lost connections and device changes.                                    *)
THEOREM ImplementsChannel == Spec => EditsInOrder
<1>1. Init => Channel!Init
  BY DEF Init, Channel!Init
<1>. QED
  BY <1>1, Invariance, ChannelStep, PTL DEF Spec, EditsInOrder, Channel!Spec
=============================================================================
