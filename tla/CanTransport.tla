---------------------------- MODULE CanTransport ----------------------------
(* CanSerialPort: the transmit queue, filled by any thread and drained by  *)
(* the serial worker's send callback, and the receive buffer, filled by    *)
(* the IO thread and drained by the same callback, with the two wire       *)
(* protocols (CanDeviceStm32, CanDeviceLawicel) and the destructor.        *)
(*                                                                         *)
(* A frame is its number and whether its identifier has at most 29 bits,   *)
(* which no caller of AddToTxQueue is asked to ensure.  std::queue is      *)
(* modelled with atomic operations, although front and pop run unlocked.   *)
EXTENDS SerialWorker, Sequences, FiniteSets

CONSTANTS
  Devices,       \* the protocols that may be configured
  Ids,           \* Ids[device]: do identifiers that callers submit fit?
  HandshakeSize, \* std::size(kHandshake)
  TxMax,         \* TX_QUEUE_MAX_SIZE
  RxMax,         \* RX_CIRCBUFF_SIZE, in chunks
  MaxFrames,     \* bound: frames submitted
  MaxChunks,     \* bound: chunks received
  NoFrame        \* before the first frame is looked at

DeviceType == {"STM32", "LAWICEL"}
ASSUME TransportAssumption ==
  /\ Devices \subseteq DeviceType
  /\ Ids \in [DeviceType -> SUBSET BOOLEAN]
  /\ HandshakeSize \in Nat /\ TxMax \in Nat \ {0} /\ RxMax \in Nat \ {0}
  /\ MaxFrames \in Nat /\ MaxChunks \in Nat

VARIABLES
  owner,     \* the CanSerialPort: "alive", or "gone" once its members are
  selected,  \* m_DeviceType
  created,   \* m_Device is set
  cb,        \* where the send callback is
  queue,     \* m_TxQueue
  head,      \* data_ptr in SendPendingCanFrames
  remove,    \* is_remove
  step,      \* m_HandshakeStep
  ring,      \* m_CircBuff
  arrived,   \* chunks received so far
  accepted,  \* frames accepted so far
  overflows, \* how often AddToTxQueue has popped
  refused,   \* numbers of the frames an encoder has refused
  wire       \* numbers of the frames written, in order

tx == <<queue, accepted, overflows>>
rx == <<ring, arrived>>
out == <<refused, wire>>
callback == <<cb, head, remove, step>>
device == <<selected, created>>
vars == <<link, owner, device, callback, tx, rx, out>>

Frames == [n : 1 .. MaxFrames, fits : BOOLEAN]
Elements(s) == {s[i] : i \in DOMAIN s}
Queued == {f.n : f \in Elements(queue)}

Init ==
  /\ LinkInit
  /\ owner = "alive" /\ selected \in Devices /\ created = FALSE
  /\ cb = "none" /\ head = NoFrame /\ remove = FALSE /\ step = 0
  /\ queue = <<>> /\ accepted = 0 /\ overflows = 0
  /\ ring = <<>> /\ arrived = 0
  /\ refused = {} /\ wire = <<>>

(* Init creates the device after it has started the worker.                *)
CreateDevice ==
  /\ ~created
  /\ created' = TRUE
  /\ UNCHANGED <<link, owner, selected, callback, tx, rx, out>>

-----------------------------------------------------------------------------
(* The other threads.                                                      *)

(* Mutant of AddToTxQueue: the limit is tested before the push.            *)
AddThenTestOld(fits) ==
  /\ owner = "alive"
  /\ pc \notin {"tested", "crashed"}
  /\ accepted < MaxFrames
  /\ accepted' = accepted + 1
  /\ LET frame == [n |-> accepted + 1, fits |-> fits]
     IN IF Len(queue) > TxMax
        THEN queue' = Append(Tail(queue), frame) /\ overflows' = overflows + 1
        ELSE queue' = Append(queue, frame) /\ UNCHANGED overflows
  /\ Notify
  /\ UNCHANGED <<stop, port, owner, device, callback, rx, out>>

(* AddToTxQueue, holding m_mutex.  The oldest frame makes room.            *)
AddToTxQueue(fits) ==
  /\ owner = "alive"
  /\ pc \notin {"tested", "crashed"}
  /\ accepted < MaxFrames
  /\ accepted' = accepted + 1
  /\ LET longer == Append(queue, [n |-> accepted + 1, fits |-> fits])
     IN IF Len(longer) > TxMax
        THEN queue' = Tail(longer) /\ overflows' = overflows + 1
        ELSE queue' = longer /\ UNCHANGED overflows
  /\ Notify
  /\ UNCHANGED <<stop, port, owner, device, callback, rx, out>>

(* Mutant of OnDataReceived: it leaves the chunk for the next send.        *)
ReceiveSilently ==
  /\ owner = "alive"
  /\ io = "running"
  /\ pc \notin {"opening", "crashed"}
  /\ arrived < MaxChunks
  /\ arrived' = arrived + 1
  /\ LET longer == Append(ring, arrived + 1)
     IN ring' = IF Len(longer) > RxMax THEN Tail(longer) ELSE longer
  /\ UNCHANGED <<link, owner, device, callback, tx, out>>

(* OnDataReceived, on the IO thread and without m_mutex, once the port has *)
(* its callback.  The circular buffer overwrites its oldest bytes.         *)
OnDataReceived ==
  /\ owner = "alive"
  /\ io = "running"
  /\ pc \notin {"opening", "crashed"}
  /\ arrived < MaxChunks
  /\ arrived' = arrived + 1
  /\ LET longer == Append(ring, arrived + 1)
     IN ring' = IF Len(longer) > RxMax THEN Tail(longer) ELSE longer
  /\ Notify
  /\ UNCHANGED <<stop, port, owner, device, callback, tx, out>>

-----------------------------------------------------------------------------
(* The send callback, on the worker thread.                                *)

(* OnDataSent: empty the receive buffer and decode it.                     *)
DrainRx ==
  /\ pc = "send" /\ cb = "none" /\ owner = "alive" /\ created
  /\ ring' = <<>>
  /\ cb' = "loop"
  /\ UNCHANGED <<link, owner, device, head, remove, step, tx, arrived, out>>

(* SendPendingCanFrames.                                                   *)
TakeFront ==
  /\ pc = "send" /\ cb = "loop" /\ owner = "alive"
  /\ queue # <<>>
  /\ head' = Head(queue)
  /\ cb' = "encode"
  /\ UNCHANGED <<link, owner, device, remove, step, tx, rx, out>>

NothingPending ==
  /\ pc = "send" /\ cb = "loop" /\ owner = "alive"
  /\ queue = <<>>
  /\ cb' = "none"
  /\ pc' = "check"
  /\ UNCHANGED <<stop, notified, port, owner, device, head, remove, step, tx,
                 rx, out>>

(* Mutant of Handshake: is_remove is set before the handshake is looked at.*)
HandshakeEatsFrame ==
  /\ pc = "send" /\ cb = "encode" /\ owner = "alive"
  /\ selected = "LAWICEL" /\ step < HandshakeSize
  /\ step' = step + 1
  /\ remove' = TRUE
  /\ cb' = "remove"
  /\ UNCHANGED <<link, owner, device, head, tx, rx, out>>

(* PrepareSendDataFormat of CanDeviceLawicel before its handshake is over: *)
(* the next command goes out and the frame stays.                          *)
Handshake ==
  /\ pc = "send" /\ cb = "encode" /\ owner = "alive"
  /\ selected = "LAWICEL" /\ step < HandshakeSize
  /\ step' = step + 1
  /\ remove' = FALSE
  /\ cb' = "remove"
  /\ UNCHANGED <<link, owner, device, head, tx, rx, out>>

(* PrepareSendDataFormat and the write, holding m_mutex.  A frame that     *)
(* cannot be encoded is dropped by Lawicel and kept by STM32.              *)
Encode ==
  /\ pc = "send" /\ cb = "encode" /\ owner = "alive"
  /\ selected = "LAWICEL" => step = HandshakeSize
  /\ remove' = (head.fits \/ selected = "LAWICEL")
  /\ wire' = IF head.fits THEN Append(wire, head.n) ELSE wire
  /\ refused' = IF head.fits THEN refused ELSE refused \cup {head.n}
  /\ cb' = "remove"
  /\ UNCHANGED <<link, owner, device, head, step, tx, rx>>

(* Mutant of Remove: the frame stays after a write.                        *)
RemoveNothing ==
  /\ pc = "send" /\ cb = "remove" /\ owner = "alive"
  /\ cb' = "loop"
  /\ UNCHANGED <<link, owner, device, head, remove, step, tx, rx, out>>

(* After OnFrameSent, unlocked: pop whatever is at the front by now.       *)
Remove ==
  /\ pc = "send" /\ cb = "remove" /\ owner = "alive"
  /\ queue' = IF remove THEN Tail(queue) ELSE queue
  /\ cb' = "loop"
  /\ UNCHANGED <<link, owner, device, head, remove, step, accepted, overflows,
                 rx, out>>

-----------------------------------------------------------------------------
(* ~CanSerialPort joins nothing: its members go first, then the base class *)
(* stops the worker.                                                       *)
DestroyMembers ==
  /\ owner = "alive" /\ created /\ pc # "crashed"
  /\ owner' = "gone"
  /\ UNCHANGED <<link, device, callback, tx, rx, out>>

StopWorker ==
  /\ owner = "gone"
  /\ RequestStop
  /\ UNCHANGED <<owner, device, callback, tx, rx, out>>

(* The callback runs before m_Device is set, or uses members that are      *)
(* gone: the process crashes, or gets away with it.                        *)
CallbackOnNothing ==
  /\ pc = "send"
  /\ ~created \/ owner = "gone"
  /\ pc' \in IF created THEN {"crashed", "check"} ELSE {"crashed"}
  /\ cb' = "none"
  /\ UNCHANGED <<stop, notified, port, owner, device, head, remove, step, tx,
                 rx, out>>

-----------------------------------------------------------------------------
Idle == UNCHANGED <<owner, device, callback, tx, rx, out>>

Callback == \/ DrainRx \/ TakeFront \/ NothingPending \/ Handshake \/ Encode
            \/ Remove \/ CallbackOnNothing
Worker == (WorkerLoop /\ Idle) \/ Callback

Next == \/ CreateDevice
        \/ \E fits \in Ids[selected] : AddToTxQueue(fits)
        \/ OnDataReceived
        \/ pc # "crashed" /\ IoFails /\ Idle
        \/ Worker
        \/ DestroyMembers \/ StopWorker

(* Operating system threads: the worker, the main thread in Init, and the  *)
(* destructor once it has begun.  Nobody has to send or to shut down.      *)
Spec == /\ Init /\ [][Next]_vars
        /\ WF_vars(Worker) /\ WF_vars(CreateDevice) /\ WF_vars(StopWorker)

-----------------------------------------------------------------------------
TypeOK ==
  /\ LinkType
  /\ owner \in {"alive", "gone"} /\ selected \in Devices
  /\ created \in BOOLEAN
  /\ cb \in {"none", "loop", "encode", "remove"}
  /\ head \in Frames \cup {NoFrame}
  /\ remove \in BOOLEAN /\ step \in 0 .. HandshakeSize
  /\ queue \in Seq(Frames) /\ Len(queue) <= TxMax
  /\ accepted \in 0 .. MaxFrames /\ overflows \in 0 .. MaxFrames
  /\ ring \in Seq(1 .. MaxChunks) /\ Len(ring) <= RxMax
  /\ arrived \in 0 .. MaxChunks
  /\ refused \subseteq 1 .. MaxFrames
  /\ wire \in Seq(1 .. MaxFrames)

(* Every accepted frame is queued, written or refused, but for one frame   *)
(* per overflow.  An overflow may pop the very frame that is being written,*)
(* and the pop after the write then drops another one, never a third.      *)
Missing == (1 .. accepted) \ (Queued \cup Elements(wire) \cup refused)
OneLostPerOverflow == Cardinality(Missing) <= overflows

(* Frames go out once each and in the order of AddToTxQueue, whatever is   *)
(* popped between the write and the pop.                                   *)
Channel == INSTANCE FrameChannel WITH sent <- wire
InOrderOnce == Channel!Spec

(* "Send pending CAN Frames from the internal buffer" (CanSerialPort.hpp): *)
(* a frame does not stay queued for ever.                                  *)
Stopping == stop \/ owner = "gone" \/ pc = "crashed"
QueueDrains == (queue # <<>>) ~> (queue = <<>> \/ Stopping)

(* Received bytes reach the decoder, even when their notification falls    *)
(* between the worker's test of its predicate and its sleep.               *)
RxDrains == (ring # <<>>) ~> (ring = <<>> \/ Stopping)
=============================================================================
