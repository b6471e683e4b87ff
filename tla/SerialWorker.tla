---------------------------- MODULE SerialWorker ----------------------------
(* The worker thread of SerialPortBase over a COM port (AsyncSerial), the  *)
(* base of CanSerialPort, SerialPort and ModbusMasterSerialPort.  What the *)
(* send callback does is the derived class's: its module takes the step    *)
(* that leaves pc = "send".                                                *)
EXTENDS Naturals

CONSTANT MaxFaults   \* bound: how often the port fails or cannot be opened
ASSUME FaultsAssumption == MaxFaults \in Nat

VARIABLES
  pc,       \* where WorkerThread is
  stop,     \* its stop token
  notified, \* is_notification_pending
  opened,   \* AsyncSerialImpl::open
  error,    \* AsyncSerialImpl::error
  io,       \* the IO thread: "none", "running", "ended" (run() returned)
  faults    \* failures so far

port == <<opened, error, io, faults>>
link == <<pc, stop, notified, port>>

Positions == {"boot", "opening", "backoff", "check", "wait", "tested",
              "asleep", "wake", "send", "closing", "done", "crashed"}

LinkType == /\ pc \in Positions
            /\ stop \in BOOLEAN /\ notified \in BOOLEAN
            /\ opened \in BOOLEAN /\ error \in BOOLEAN
            /\ io \in {"none", "running", "ended"}
            /\ faults \in 0 .. MaxFaults

(* The owner's Init has started the worker.                                *)
LinkInit == /\ pc = "boot" /\ stop = FALSE /\ notified = FALSE
            /\ opened = FALSE /\ error = FALSE /\ io = "none" /\ faults = 0

(* NotifiyMainThread.  A notify_all between the test of the predicate and  *)
(* the sleep reaches nobody.                                               *)
Notify == /\ notified' = TRUE
          /\ pc' = IF pc = "asleep" THEN "wait" ELSE pc

-----------------------------------------------------------------------------
(* The port.                                                               *)

(* Mutant of Construct: the outer loop does not ask for the stop token.    *)
ConstructForEver ==
  /\ pc = "boot"
  /\ \/ pc' = "opening" /\ io' = "running" /\ UNCHANGED faults
     \/ /\ faults < MaxFaults
        /\ faults' = faults + 1
        /\ pc' = "backoff"
        /\ UNCHANGED io
  /\ UNCHANGED <<stop, notified, opened, error>>

(* The constructor opens the port and starts the IO thread, or throws.     *)
Construct ==
  /\ pc = "boot"
  /\ ~stop
  /\ \/ pc' = "opening" /\ io' = "running" /\ UNCHANGED faults
     \/ /\ faults < MaxFaults
        /\ faults' = faults + 1
        /\ pc' = "backoff"
        /\ UNCHANGED io
  /\ UNCHANGED <<stop, notified, opened, error>>

(* The end of StartIoThread, after the thread has begun to read.           *)
DeclareOpen ==
  /\ pc = "opening"
  /\ error' = FALSE
  /\ opened' = TRUE
  /\ pc' = "check"
  /\ UNCHANGED <<stop, notified, io, faults>>

(* A read or write fails.  readEnd ignores an error on a port that is not  *)
(* open, which a port is not before DeclareOpen; then no work is left and  *)
(* run() returns.                                                          *)
IoFails ==
  /\ io = "running"
  /\ faults < MaxFaults
  /\ faults' = faults + 1
  /\ io' = "ended"
  /\ error' = (error \/ opened)
  /\ opened' = FALSE
  /\ UNCHANGED <<pc, stop, notified>>

-----------------------------------------------------------------------------
(* WorkerThread.                                                           *)

(* Mutant of CheckLink: it looks for a failure of an open port.            *)
CheckOpenLink ==
  /\ pc = "check"
  /\ pc' = IF stop \/ (error /\ opened) THEN "closing" ELSE "wait"
  /\ UNCHANGED <<stop, notified, port>>

(* Mutant of CheckLink: the notification is reset before every wait.       *)
ResetThenWait ==
  /\ pc = "check"
  /\ notified' = FALSE
  /\ pc' = IF stop \/ (error /\ ~opened) THEN "closing" ELSE "wait"
  /\ UNCHANGED <<stop, port>>

CheckLink ==
  /\ pc = "check"
  /\ pc' = IF stop \/ (error /\ ~opened) THEN "closing" ELSE "wait"
  /\ UNCHANGED <<stop, notified, port>>

(* wait_until on m_cv: the predicate is tested under m_mutex ("tested":    *)
(* m_mutex is still held), and only then does the thread sleep.            *)
TestPredicate ==
  /\ pc = "wait"
  /\ pc' = IF stop \/ notified THEN "wake" ELSE "tested"
  /\ UNCHANGED <<stop, notified, port>>

Sleep ==
  /\ pc = "tested"
  /\ pc' = IF stop THEN "wake" ELSE "asleep"
  /\ UNCHANGED <<stop, notified, port>>

(* m_MainTimeout has passed.                                               *)
Timeout ==
  /\ pc = "asleep"
  /\ pc' = "wake"
  /\ UNCHANGED <<stop, notified, port>>

(* exchange(false): whatever is queued from here on notifies anew.         *)
Wake ==
  /\ pc = "wake"
  /\ \/ stop /\ pc' = "closing" /\ UNCHANGED notified
     \/ /\ ~stop
        /\ notified' = FALSE
        /\ pc' = IF notified THEN "send" ELSE "check"
  /\ UNCHANGED <<stop, port>>

(* m_serial->close() joins the IO thread.                                  *)
CloseLink ==
  /\ pc = "closing"
  /\ opened' = FALSE
  /\ io' = "none"
  /\ pc' = "boot"
  /\ UNCHANGED <<stop, notified, error, faults>>

Backoff ==
  /\ pc = "backoff"
  /\ pc' = "boot"
  /\ UNCHANGED <<stop, notified, port>>

Return ==
  /\ pc = "boot"
  /\ stop
  /\ pc' = "done"
  /\ UNCHANGED <<stop, notified, port>>

(* DestroyWorkerThread; the caller then waits for pc = "done".             *)
RequestStop ==
  /\ ~stop
  /\ stop' = TRUE
  /\ pc' = IF pc = "asleep" THEN "wait" ELSE pc
  /\ UNCHANGED <<notified, port>>

WorkerLoop ==
  \/ Construct \/ DeclareOpen \/ CheckLink \/ TestPredicate \/ Sleep
  \/ Timeout \/ Wake \/ CloseLink \/ Backoff \/ Return

-----------------------------------------------------------------------------
(* A port that has failed is constructed again, however the failure falls  *)
(* between the worker's two looks at it.                                   *)
LinkReopens == (~opened) ~> (opened \/ stop \/ pc = "crashed")

(* The join in DestroyWorkerThread returns.                                *)
WorkerStops == stop ~> (pc \in {"done", "crashed"})
=============================================================================
