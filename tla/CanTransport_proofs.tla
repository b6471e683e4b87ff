------------------------ MODULE CanTransport_proofs ------------------------
(***************************************************************************)
(* Proofs about CanTransport, for any devices, queue lengths and bounds:   *)
(* types, that the transport implements FrameChannel, and what a full      *)
(* queue costs.                                                            *)
(***************************************************************************)
EXTENDS CanTransport, SequenceTheorems, FiniteSetTheorems, TLAPS

(* The queue is in the order of AddToTxQueue.                              *)
QueueInOrder ==
  /\ \A i \in 1 .. Len(queue) : queue[i].n <= accepted
  /\ \A i, j \in 1 .. Len(queue) : i < j => queue[i].n < queue[j].n

(* Between the write and the pop the front of the queue may be a frame     *)
(* that is already written; at any other time nothing queued is.           *)
Written(front) == \A w \in 1 .. Len(wire) : wire[w] < front
WrittenAtMost(front) == \A w \in 1 .. Len(wire) : wire[w] <= front

InFlight ==
  /\ (cb \in {"none", "loop"} \/ (cb = "remove" /\ ~remove)) =>
       \A i \in 1 .. Len(queue) : Written(queue[i].n)
  /\ cb = "encode" =>
       /\ head \in Frames /\ head.n <= accepted
       /\ queue # <<>>
       /\ Written(head.n)
       /\ \A i \in 1 .. Len(queue) : head.n <= queue[i].n
  /\ (cb = "remove" /\ remove) =>
       /\ queue # <<>>
       /\ \A i \in 1 .. Len(queue) : WrittenAtMost(queue[i].n)

WireAccepted == \A w \in 1 .. Len(wire) : wire[w] <= accepted

Counted == overflows <= accepted /\ (cb # "none" => created)

Order == QueueInOrder /\ WireAccepted /\ (owner = "alive" => InFlight)

IInv == TypeOK /\ Counted /\ Order

-----------------------------------------------------------------------------
LEMMA IInvInit == Init => IInv
<1> SUFFICES ASSUME Init PROVE IInv
  OBVIOUS
<1> USE TransportAssumption, FaultsAssumption
<1>1. queue \in Seq(Frames) /\ ring \in Seq(1 .. MaxChunks) /\ wire \in Seq(1 .. MaxFrames)
  BY EmptySeq DEF Init
<1>2. Len(queue) = 0 /\ Len(ring) = 0 /\ Len(wire) = 0
  BY DEF Init
<1>3. LinkType
  <2>1. stop \in BOOLEAN /\ notified \in BOOLEAN /\ opened \in BOOLEAN /\ error \in BOOLEAN
    BY DEF Init, LinkInit
  <2>2. pc \in Positions /\ io \in {"none", "running", "ended"} /\ faults \in 0 .. MaxFaults
    BY DEF Init, LinkInit, Positions
  <2>. QED
    BY <2>1, <2>2 DEF LinkType
<1>4. created \in BOOLEAN /\ remove \in BOOLEAN
  BY DEF Init
<1>5. TypeOK
  BY <1>1, <1>2, <1>3, <1>4 DEF Init, TypeOK
<1>6. Counted /\ Order
  BY <1>2 DEF Init, Counted, Order, QueueInOrder, WireAccepted, InFlight
<1>. QED
  BY <1>5, <1>6 DEF IInv

-----------------------------------------------------------------------------
(* One lemma for every group of actions that leaves the frames alone.      *)
LEMMA FramesAlone ==
  ASSUME Counted, Order, UNCHANGED <<owner, device, callback, tx, out>>
  PROVE  Counted' /\ Order'
BY DEF Counted, Order, QueueInOrder, WireAccepted, InFlight, Written,
       WrittenAtMost, device, callback, tx, out

LEMMA LoopType ==
  ASSUME LinkType, WorkerLoop
  PROVE  LinkType'
<1> USE FaultsAssumption DEF LinkType, Positions, port
<1>1. CASE Construct
  BY <1>1 DEF Construct
<1>2. CASE DeclareOpen
  BY <1>2 DEF DeclareOpen
<1>3. CASE CheckLink
  BY <1>3 DEF CheckLink
<1>4. CASE TestPredicate
  BY <1>4 DEF TestPredicate
<1>5. CASE Sleep
  BY <1>5 DEF Sleep
<1>6. CASE Timeout
  BY <1>6 DEF Timeout
<1>7. CASE Wake
  BY <1>7 DEF Wake
<1>8. CASE CloseLink
  BY <1>8 DEF CloseLink
<1>9. CASE Backoff
  BY <1>9 DEF Backoff
<1>10. CASE Return
  BY <1>10 DEF Return
<1>. QED
  BY <1>1, <1>2, <1>3, <1>4, <1>5, <1>6, <1>7, <1>8, <1>9, <1>10
  DEF WorkerLoop

LEMMA NotifyType ==
  ASSUME LinkType, Notify, UNCHANGED <<stop, port>>
  PROVE  LinkType'
BY DEF LinkType, Notify, Positions, port

LEMMA FailureType ==
  ASSUME LinkType, IoFails
  PROVE  LinkType'
<1>1. faults' \in 0 .. MaxFaults
  BY FaultsAssumption DEF IoFails, LinkType
<1>2. error' \in BOOLEAN /\ opened' \in BOOLEAN
  BY DEF IoFails, LinkType
<1>. QED
  BY <1>1, <1>2 DEF IoFails, LinkType, Positions

Push(q, f) ==
  IF Len(Append(q, f)) > TxMax THEN Tail(Append(q, f)) ELSE Append(q, f)

(* What a thread that adds a frame finds in the queue afterwards: each     *)
(* frame was there already, in the same order, or is the new one.          *)
LEMMA Pushed ==
  ASSUME NEW q \in Seq(Frames), NEW f \in Frames, Len(q) <= TxMax
  PROVE  /\ Push(q, f) \in Seq(Frames)
         /\ Len(Push(q, f)) <= TxMax
         /\ Push(q, f) # <<>>
         /\ \E shift \in {0, 1} :
              /\ Len(Push(q, f)) = Len(q) + 1 - shift
              /\ shift = 1 => q # <<>> /\ Len(q) = TxMax
              /\ \A i \in 1 .. Len(Push(q, f)) :
                   Push(q, f)[i] = IF i + shift <= Len(q) THEN q[i + shift] ELSE f
<1> DEFINE longer == Append(q, f)
           r == Push(q, f)
<1>1. /\ longer \in Seq(Frames) /\ Len(longer) = Len(q) + 1 /\ longer # <<>>
      /\ \A i \in 1 .. Len(longer) : longer[i] = IF i <= Len(q) THEN q[i] ELSE f
  BY AppendProperties
<1>2. CASE Len(longer) > TxMax
  <2>1. /\ Tail(longer) \in Seq(Frames) /\ Len(Tail(longer)) = Len(q)
        /\ \A i \in 1 .. Len(Tail(longer)) : Tail(longer)[i] = longer[i + 1]
    BY <1>1, HeadTailProperties
  <2>2. r = Tail(longer) /\ Len(q) = TxMax /\ TxMax >= 1
    BY <1>1, <1>2, TransportAssumption DEF Push
  <2>3. r # <<>> /\ q # <<>>
    BY <2>1, <2>2
  <2>4. /\ Len(r) = Len(q) + 1 - 1
        /\ \A i \in 1 .. Len(r) : r[i] = IF i + 1 <= Len(q) THEN q[i + 1] ELSE f
    BY <1>1, <2>1, <2>2
  <2>. QED
    BY <2>1, <2>2, <2>3, <2>4
<1>3. CASE ~ (Len(longer) > TxMax)
  <2>1. r = longer
    BY <1>3 DEF Push
  <2>2. Len(r) <= TxMax /\ Len(r) = Len(q) + 1 - 0
    BY <1>1, <1>3, <2>1, TransportAssumption
  <2>. QED
    BY <1>1, <2>1, <2>2
<1>. QED
  BY <1>2, <1>3

LEMMA QueueElements ==
  ASSUME TypeOK
  PROVE  /\ accepted \in Nat /\ queue \in Seq(Frames) /\ Len(queue) \in Nat
         /\ wire \in Seq(1 .. MaxFrames) /\ Len(wire) \in Nat
         /\ \A i \in 1 .. Len(queue) : queue[i] \in Frames /\ queue[i].n \in Nat
         /\ \A w \in 1 .. Len(wire) : wire[w] \in Nat
<1>1. queue \in Seq(Frames) /\ wire \in Seq(1 .. MaxFrames) /\ accepted \in Nat
  BY TransportAssumption DEF TypeOK
<1>2. \A i \in 1 .. Len(queue) : queue[i] \in Frames
  BY <1>1, ElementOfSeq
<1>3. \A g \in Frames : g.n \in Nat
  BY DEF Frames
<1>4. \A w \in 1 .. Len(wire) : wire[w] \in 1 .. MaxFrames
  BY <1>1, ElementOfSeq
<1>. QED
  BY <1>1, <1>2, <1>3, <1>4, LenProperties

LEMMA AddType ==
  ASSUME IInv, NEW fits \in BOOLEAN, AddToTxQueue(fits)
  PROVE  TypeOK' /\ Counted'
<1> DEFINE f == [n |-> accepted + 1, fits |-> fits]
<1>1. accepted + 1 \in 1 .. MaxFrames /\ f \in Frames
  BY TransportAssumption DEF IInv, TypeOK, AddToTxQueue, Frames
<1>2. queue' = Push(queue, f)
  BY DEF AddToTxQueue, Push
<1>3. queue' \in Seq(Frames) /\ Len(queue') <= TxMax
  <2>1. queue \in Seq(Frames) /\ Len(queue) <= TxMax
    BY DEF IInv, TypeOK
  <2> HIDE DEF f
  <2>. QED
    BY <1>1, <1>2, <2>1, Pushed
<1>4. accepted' = accepted + 1 /\ overflows' \in {overflows, overflows + 1}
  BY DEF AddToTxQueue
<1>5. /\ accepted' \in 0 .. MaxFrames /\ overflows' \in 0 .. MaxFrames
      /\ overflows' <= accepted'
  BY <1>4, <1>1, TransportAssumption DEF IInv, TypeOK, Counted
<1>6. LinkType'
  BY NotifyType DEF IInv, TypeOK, AddToTxQueue
<1>7. UNCHANGED <<owner, device, callback, rx, out>>
  BY DEF AddToTxQueue
<1>8. TypeOK'
  BY <1>3, <1>5, <1>6, <1>7
  DEF IInv, TypeOK, device, callback, rx, out
<1>9. Counted'
  BY <1>5, <1>7 DEF IInv, Counted, device, callback
<1>. QED
  BY <1>8, <1>9

LEMMA AddOrder ==
  ASSUME IInv, NEW fits \in BOOLEAN, AddToTxQueue(fits)
  PROVE  Order'
<1> DEFINE f == [n |-> accepted + 1, fits |-> fits]
<1>1. f \in Frames /\ f.n = accepted + 1 /\ accepted \in Nat
  BY TransportAssumption DEF IInv, TypeOK, AddToTxQueue, Frames
<1>2. queue' = Push(queue, f)
  BY DEF AddToTxQueue, Push
<1>3. /\ queue \in Seq(Frames) /\ Len(queue) <= TxMax /\ Len(queue) \in Nat
      /\ Len(wire) \in Nat
      /\ \A w \in 1 .. Len(wire) : wire[w] \in Nat /\ wire[w] <= accepted
      /\ \A i \in 1 .. Len(queue) : queue[i].n \in Nat /\ queue[i].n <= accepted
      /\ \A i, j \in 1 .. Len(queue) : i < j => queue[i].n < queue[j].n
  <2>1. Len(queue) <= TxMax /\ QueueInOrder /\ WireAccepted
    BY DEF IInv, TypeOK, Order
  <2>. QED
    BY <2>1, QueueElements DEF IInv, QueueInOrder, WireAccepted
<1>4. /\ owner' = owner /\ cb' = cb /\ head' = head /\ remove' = remove
      /\ wire' = wire /\ accepted' = accepted + 1
  BY DEF AddToTxQueue, callback, out
<1> HIDE DEF f
<1>5. /\ queue' \in Seq(Frames) /\ Len(queue') <= TxMax /\ queue' # <<>>
      /\ \E shift \in {0, 1} :
           /\ Len(queue') = Len(queue) + 1 - shift
           /\ shift = 1 => queue # <<>> /\ Len(queue) = TxMax
           /\ \A i \in 1 .. Len(queue') :
                queue'[i] = IF i + shift <= Len(queue) THEN queue[i + shift] ELSE f
  <2>1. queue \in Seq(Frames) /\ f \in Frames /\ Len(queue) <= TxMax
    BY <1>1, <1>3, QueueElements DEF IInv
  <2>2. /\ Push(queue, f) \in Seq(Frames)
        /\ Len(Push(queue, f)) <= TxMax
        /\ Push(queue, f) # <<>>
        /\ \E shift \in {0, 1} :
             /\ Len(Push(queue, f)) = Len(queue) + 1 - shift
             /\ shift = 1 => queue # <<>> /\ Len(queue) = TxMax
             /\ \A i \in 1 .. Len(Push(queue, f)) :
                  Push(queue, f)[i] =
                    IF i + shift <= Len(queue) THEN queue[i + shift] ELSE f
    BY <2>1, Pushed
  <2>. QED
    BY <1>2, <2>2
<1>10. PICK shift \in {0, 1} :
         /\ Len(queue') = Len(queue) + 1 - shift
         /\ \A i \in 1 .. Len(queue') :
              queue'[i] = IF i + shift <= Len(queue) THEN queue[i + shift] ELSE f
  BY <1>5
<1>6. QueueInOrder'
  <2>1. \A i \in 1 .. Len(queue') : queue'[i].n <= accepted + 1
    BY <1>1, <1>3, <1>10
  <2>2. \A i, j \in 1 .. Len(queue') : i < j => queue'[i].n < queue'[j].n
    <3> SUFFICES ASSUME NEW i \in 1 .. Len(queue'), NEW j \in 1 .. Len(queue'), i < j
                 PROVE  queue'[i].n < queue'[j].n
      OBVIOUS
    <3>1. i + shift \in 1 .. Len(queue) /\ queue'[i] = queue[i + shift]
      BY <1>3, <1>10
    <3>2. CASE j + shift <= Len(queue)
      <4>1. j + shift \in 1 .. Len(queue) /\ queue'[j] = queue[j + shift]
        BY <1>3, <1>10, <3>2
      <4>2. i + shift < j + shift
        OBVIOUS
      <4>. QED
        BY <1>3, <3>1, <4>1, <4>2
    <3>3. CASE j + shift > Len(queue)
      <4>1. queue'[j] = f
        BY <1>3, <1>10, <3>3
      <4>2. queue[i + shift].n <= accepted /\ queue[i + shift].n \in Nat
        BY <1>3, <3>1
      <4>. QED
        BY <1>1, <3>1, <4>1, <4>2
    <3>. QED
      BY <1>3, <3>2, <3>3
  <2>. QED
    BY <1>4, <2>1, <2>2 DEF QueueInOrder
<1>7. WireAccepted'
  <2>1. \A w \in 1 .. Len(wire) : wire[w] <= accepted + 1
    BY <1>1, <1>3
  <2>. QED
    BY <1>4, <2>1 DEF WireAccepted
<1>8. ASSUME owner' = "alive" PROVE InFlight'
  <2>1. InFlight
    BY <1>4, <1>8 DEF IInv, Order
  <2>2. ASSUME NEW x \in Nat, x <= accepted,
               \A i \in 1 .. Len(queue) : x <= queue[i].n
        PROVE  \A i \in 1 .. Len(queue') : x <= queue'[i].n
    BY <1>1, <1>3, <1>10, <2>2
  <2>3. ASSUME NEW x \in Nat, x <= accepted,
               \A i \in 1 .. Len(queue) : x < queue[i].n
        PROVE  \A i \in 1 .. Len(queue') : x < queue'[i].n
    BY <1>1, <1>3, <1>10, <2>3
  <2>4. (cb' \in {"none", "loop"} \/ (cb' = "remove" /\ ~remove')) =>
          \A i \in 1 .. Len(queue') : Written(queue[i].n)'
    BY <1>3, <1>4, <2>1, <2>3 DEF InFlight, Written
  <2>5. cb' = "encode" =>
          /\ head' \in Frames /\ head'.n <= accepted'
          /\ queue' # <<>>
          /\ Written(head.n)'
          /\ \A i \in 1 .. Len(queue') : head'.n <= queue'[i].n
    <3> SUFFICES ASSUME cb' = "encode" PROVE
          /\ head' \in Frames /\ head'.n <= accepted'
          /\ Written(head.n)'
          /\ \A i \in 1 .. Len(queue') : head'.n <= queue'[i].n
      BY <1>5
    <3>1. /\ head \in Frames /\ head.n <= accepted /\ Written(head.n)
          /\ \A i \in 1 .. Len(queue) : head.n <= queue[i].n
      BY <1>4, <2>1 DEF InFlight
    <3>2. head.n \in Nat
      BY <3>1 DEF Frames
    <3>. QED
      <4>1. \A i \in 1 .. Len(queue') : head.n <= queue'[i].n
        BY <2>2, <3>1, <3>2
      <4>2. head'.n <= accepted'
        BY <1>1, <1>4, <3>1, <3>2
      <4>. QED
        BY <1>4, <3>1, <4>1, <4>2 DEF Written
  <2>6. (cb' = "remove" /\ remove') =>
          /\ queue' # <<>>
          /\ \A i \in 1 .. Len(queue') : WrittenAtMost(queue[i].n)'
    BY <1>3, <1>4, <1>5, <2>1, <2>2 DEF InFlight, WrittenAtMost
  <2>. QED
    BY <2>4, <2>5, <2>6 DEF InFlight
<1>. QED
  BY <1>6, <1>7, <1>8 DEF Order

LEMMA ReceiveType ==
  ASSUME TypeOK, OnDataReceived
  PROVE  TypeOK'
<1>1. LinkType'
  BY NotifyType DEF TypeOK, OnDataReceived
<1>2. arrived' \in 0 .. MaxChunks
  BY TransportAssumption DEF TypeOK, OnDataReceived
<1>3. ring' \in Seq(1 .. MaxChunks) /\ Len(ring') <= RxMax
  <2> DEFINE longer == Append(ring, arrived + 1)
  <2>1. /\ arrived + 1 \in 1 .. MaxChunks /\ ring \in Seq(1 .. MaxChunks)
        /\ Len(ring) <= RxMax /\ Len(ring) \in Nat /\ RxMax \in Nat
    BY TransportAssumption, LenProperties DEF TypeOK, OnDataReceived
  <2>2. /\ longer \in Seq(1 .. MaxChunks) /\ Len(longer) = Len(ring) + 1
        /\ longer # <<>>
    BY <2>1, AppendProperties
  <2>3. Tail(longer) \in Seq(1 .. MaxChunks) /\ Len(Tail(longer)) = Len(ring)
    BY <2>1, <2>2, HeadTailProperties
  <2>4. ring' = IF Len(longer) > RxMax THEN Tail(longer) ELSE longer
    BY DEF OnDataReceived
  <2> HIDE DEF longer
  <2>5. CASE Len(longer) > RxMax
    BY <2>1, <2>3, <2>4, <2>5
  <2>6. CASE ~ (Len(longer) > RxMax)
    BY <2>1, <2>2, <2>4, <2>6
  <2>. QED
    BY <2>5, <2>6
<1>4. UNCHANGED <<owner, device, callback, tx, out>>
  BY DEF OnDataReceived
<1>. QED
  BY <1>1, <1>2, <1>3, <1>4 DEF TypeOK, device, callback, tx, out

LEMMA TakeFrontStep ==
  ASSUME IInv, TakeFront
  PROVE  IInv'
<1>1. /\ Head(queue) \in Frames /\ Head(queue) = queue[1]
      /\ Len(queue) \in Nat /\ Len(queue) >= 1 /\ queue # <<>>
  BY QueueElements, HeadTailProperties, EmptySeq DEF IInv, TakeFront
<1>2. /\ head' = Head(queue) /\ cb' = "encode"
      /\ owner' = owner /\ queue' = queue /\ wire' = wire
      /\ accepted' = accepted /\ remove' = remove
      /\ UNCHANGED <<link, owner, device, step, tx, rx, out>>
  BY DEF TakeFront, tx, out
<1>3. TypeOK' /\ Counted'
  BY <1>1, <1>2 DEF IInv, TypeOK, LinkType, Counted, TakeFront, link, port,
       device, tx, rx, out
<1>4. QueueInOrder' /\ WireAccepted'
  BY <1>2 DEF IInv, Order, QueueInOrder, WireAccepted
<1>5. ASSUME owner' = "alive" PROVE InFlight'
  <2>1. \A i \in 1 .. Len(queue) : Written(queue[i].n)
    BY <1>2, <1>5 DEF IInv, Order, InFlight, TakeFront
  <2>2. \A i \in 1 .. Len(queue) : queue[1].n <= queue[i].n
    BY <1>1, QueueElements DEF IInv, Order, QueueInOrder
  <2>3. queue[1].n <= accepted /\ Written(queue[1].n)
    BY <1>1, <2>1 DEF IInv, Order, QueueInOrder
  <2>. QED
    BY <1>1, <1>2, <2>2, <2>3 DEF InFlight, Written
<1>. QED
  BY <1>3, <1>4, <1>5 DEF IInv, Order

LEMMA EncodeStep ==
  ASSUME IInv, Encode
  PROVE  IInv'
<1>1. /\ head \in Frames /\ head.n <= accepted /\ queue # <<>>
      /\ Written(head.n)
      /\ \A i \in 1 .. Len(queue) : head.n <= queue[i].n
  BY DEF IInv, Order, InFlight, Encode
<1>2. /\ owner' = owner /\ queue' = queue /\ accepted' = accepted
      /\ cb' = "remove" /\ head' = head
      /\ UNCHANGED <<link, owner, device, head, step, tx, rx>>
  BY DEF Encode, tx
<1>3. remove' \in BOOLEAN
  BY <1>1 DEF Encode, Frames
<1>4. head.n \in 1 .. MaxFrames /\ head.n \in Nat /\ accepted \in Nat
  BY <1>1, QueueElements, TransportAssumption DEF IInv, Frames
<1>5. /\ wire' \in Seq(1 .. MaxFrames) /\ Len(wire') \in Nat
      /\ \A w \in 1 .. Len(wire') : wire'[w] = head.n \/
           (w \in 1 .. Len(wire) /\ wire'[w] = wire[w])
  <2>1. wire \in Seq(1 .. MaxFrames) /\ Len(wire) \in Nat
    BY QueueElements DEF IInv
  <2>2. CASE head.fits
    <3>1. wire' = Append(wire, head.n)
      BY <2>2 DEF Encode
    <3>2. /\ Append(wire, head.n) \in Seq(1 .. MaxFrames)
          /\ Len(Append(wire, head.n)) = Len(wire) + 1
          /\ \A w \in 1 .. Len(wire) + 1 : Append(wire, head.n)[w] =
               IF w <= Len(wire) THEN wire[w] ELSE head.n
      BY <1>4, <2>1, AppendProperties
    <3>. QED
      BY <2>1, <3>1, <3>2
  <2>3. CASE ~head.fits
    BY <2>1, <2>3 DEF Encode
  <2>. QED
    BY <2>2, <2>3
<1>6. refused' \subseteq 1 .. MaxFrames
  BY <1>4 DEF IInv, TypeOK, Encode
<1>7. TypeOK'
  BY <1>2, <1>3, <1>5, <1>6 DEF IInv, TypeOK, LinkType, link, port, device, tx, rx
<1>8. Counted' /\ QueueInOrder'
  BY <1>2 DEF IInv, Counted, Order, QueueInOrder, tx, device, Encode
<1>9. WireAccepted'
  BY <1>1, <1>2, <1>4, <1>5 DEF IInv, Order, WireAccepted
<1>10. ASSUME owner' = "alive" PROVE InFlight'
  <2>1. \A w \in 1 .. Len(wire) : wire[w] < head.n /\ wire[w] \in Nat
    BY <1>1, QueueElements DEF Written, IInv
  <2>2. \A w \in 1 .. Len(wire') : wire'[w] <= head.n /\ wire'[w] \in Nat
    BY <1>4, <1>5, <2>1
  <2>3. \A i \in 1 .. Len(queue) : WrittenAtMost(queue[i].n)'
    BY <1>1, <1>2, <1>4, <2>2, QueueElements DEF IInv, WrittenAtMost
  <2>4. ~remove' => wire' = wire
    BY DEF Encode
  <2>5. ~remove' => \A i \in 1 .. Len(queue) : Written(queue[i].n)'
    <3>1. \A i \in 1 .. Len(queue) : Written(queue[i].n)
      BY <1>1, <1>4, <2>1, QueueElements DEF IInv, Written
    <3>. QED
      BY <1>2, <2>4, <3>1 DEF Written
  <2>. QED
    BY <1>1, <1>2, <2>3, <2>5 DEF InFlight
<1>. QED
  BY <1>7, <1>8, <1>9, <1>10 DEF IInv, Order

LEMMA RemoveStep ==
  ASSUME IInv, Remove
  PROVE  IInv'
<1>1. /\ owner = "alive" /\ cb = "remove" /\ cb' = "loop"
      /\ owner' = owner /\ accepted' = accepted /\ wire' = wire
      /\ remove' = remove /\ queue' = IF remove THEN Tail(queue) ELSE queue
      /\ UNCHANGED <<link, owner, device, head, step, accepted, overflows, rx, out>>
  BY DEF Remove, out
<1>2. InFlight
  BY <1>1 DEF IInv, Order
<1>3. CASE ~remove
  <2>1. queue' = queue
    BY <1>1, <1>3
  <2>2. TypeOK' /\ Counted' /\ QueueInOrder' /\ WireAccepted'
    BY <1>1, <2>1 DEF IInv, TypeOK, LinkType, Counted, Order, QueueInOrder,
         WireAccepted, link, port, device, rx, out
  <2>3. InFlight'
    BY <1>1, <1>2, <1>3, <2>1 DEF InFlight, Written
  <2>. QED
    BY <2>2, <2>3 DEF IInv, Order
<1>4. CASE remove
  <2>1. /\ queue # <<>> /\ queue' = Tail(queue)
        /\ \A i \in 1 .. Len(queue) : WrittenAtMost(queue[i].n)
    BY <1>1, <1>2, <1>4 DEF InFlight
  <2>2. /\ Tail(queue) \in Seq(Frames) /\ Len(Tail(queue)) = Len(queue) - 1
        /\ \A i \in 1 .. Len(Tail(queue)) : Tail(queue)[i] = queue[i + 1]
        /\ Len(queue) \in Nat /\ Len(queue) >= 1
    BY <2>1, QueueElements, HeadTailProperties, EmptySeq DEF IInv
  <2>3. Len(queue') <= TxMax /\ queue' \in Seq(Frames)
    BY <2>1, <2>2, TransportAssumption DEF IInv, TypeOK
  <2>4. TypeOK' /\ Counted'
    BY <1>1, <2>3 DEF IInv, TypeOK, LinkType, Counted, link, port, device, rx, out
  <2>5. QueueInOrder' /\ WireAccepted'
    BY <1>1, <2>1, <2>2, QueueElements DEF IInv, Order, QueueInOrder, WireAccepted
  <2>6. \A i \in 1 .. Len(Tail(queue)) : Written(Tail(queue)[i].n)
    <3>1. \A i \in 1 .. Len(queue), w \in 1 .. Len(wire) : wire[w] <= queue[1].n
      BY <2>1, <2>2 DEF WrittenAtMost
    <3>2. \A i \in 1 .. Len(Tail(queue)) : queue[1].n < Tail(queue)[i].n
      BY <2>2 DEF IInv, Order, QueueInOrder
    <3>. QED
      BY <2>2, <3>1, <3>2, QueueElements, SMTT(20) DEF IInv, Written
  <2>7. InFlight'
    BY <1>1, <2>1, <2>6 DEF InFlight, Written
  <2>. QED
    BY <2>4, <2>5, <2>7 DEF IInv, Order
<1>. QED
  BY <1>3, <1>4 DEF IInv, TypeOK

(* The steps that touch neither the queue nor the wire.                    *)
LEMMA QuietType ==
  ASSUME IInv, CreateDevice \/ DrainRx \/ NothingPending \/ Handshake
               \/ DestroyMembers \/ StopWorker \/ CallbackOnNothing
               \/ (WorkerLoop /\ Idle) \/ (IoFails /\ Idle)
  PROVE  TypeOK'
<1> USE DEF IInv, TypeOK, device, callback, tx, rx, out
<1>1. CASE CreateDevice
  BY <1>1 DEF CreateDevice, LinkType, link, port
<1>2. CASE DrainRx
  <2>1. ring' \in Seq(1 .. MaxChunks) /\ Len(ring') <= RxMax
    BY <1>2, EmptySeq, TransportAssumption DEF DrainRx
  <2>. QED
    BY <1>2, <2>1 DEF DrainRx, LinkType, link, port
<1>3. CASE NothingPending
  BY <1>3 DEF NothingPending, LinkType, Positions, port
<1>4. CASE Handshake
  <2>1. step' \in 0 .. HandshakeSize
    BY <1>4, TransportAssumption DEF Handshake
  <2>2. remove' \in BOOLEAN
    BY <1>4 DEF Handshake
  <2>. QED
    BY <1>4, <2>1, <2>2 DEF Handshake, LinkType, link, port
<1>5. CASE DestroyMembers
  BY <1>5 DEF DestroyMembers, LinkType, link, port
<1>6. CASE StopWorker
  BY <1>6 DEF StopWorker, RequestStop, LinkType, Positions, port
<1>7. CASE CallbackOnNothing
  BY <1>7 DEF CallbackOnNothing, LinkType, Positions, port
<1>8. CASE WorkerLoop /\ Idle
  BY <1>8, LoopType DEF Idle
<1>9. CASE IoFails /\ Idle
  BY <1>9, FailureType DEF Idle
<1>. QED
  BY <1>1, <1>2, <1>3, <1>4, <1>5, <1>6, <1>7, <1>8, <1>9

LEMMA QuietOrder ==
  ASSUME IInv, CreateDevice \/ DrainRx \/ NothingPending \/ Handshake
               \/ DestroyMembers \/ StopWorker \/ CallbackOnNothing
               \/ (WorkerLoop /\ Idle) \/ (IoFails /\ Idle)
  PROVE  Counted' /\ Order'
<1> USE DEF IInv, device, callback, tx, out
<1>1. CASE CreateDevice \/ DestroyMembers
  BY <1>1 DEF CreateDevice, DestroyMembers, Counted, Order, QueueInOrder,
       WireAccepted, InFlight, Written, WrittenAtMost
<1>2. CASE DrainRx \/ NothingPending
  BY <1>2 DEF DrainRx, NothingPending, Counted, Order, QueueInOrder,
       WireAccepted, InFlight, Written, WrittenAtMost
<1>3. CASE Handshake
  <2>1. /\ owner = "alive" /\ cb = "encode" /\ cb' = "remove" /\ ~remove'
        /\ owner' = owner /\ queue' = queue /\ wire' = wire
        /\ accepted' = accepted /\ overflows' = overflows /\ created' = created
    BY <1>3 DEF Handshake
  <2>2. Counted' /\ QueueInOrder' /\ WireAccepted'
    BY <2>1 DEF Counted, Order, QueueInOrder, WireAccepted
  <2>3. /\ head \in Frames /\ Written(head.n)
        /\ \A i \in 1 .. Len(queue) : head.n <= queue[i].n
    BY <2>1 DEF Order, InFlight
  <2>4. \A i \in 1 .. Len(queue) : Written(queue[i].n)
    BY <2>3, QueueElements DEF Written, Frames
  <2>5. InFlight'
    BY <2>1, <2>4 DEF InFlight, Written
  <2>. QED
    BY <2>2, <2>5 DEF Order
<1>4. CASE CallbackOnNothing
  <2>1. cb' = "none" /\ UNCHANGED <<owner, device, head, remove, step, tx, out>>
    BY <1>4 DEF CallbackOnNothing
  <2>2. owner' = "alive" => cb = "none"
    BY <1>4, <2>1 DEF CallbackOnNothing, Counted, TypeOK
  <2>. QED
    BY <2>1, <2>2 DEF Counted, Order, QueueInOrder, WireAccepted, InFlight, Written
<1>5. CASE StopWorker \/ (WorkerLoop /\ Idle) \/ (IoFails /\ Idle)
  <2>1. UNCHANGED <<owner, device, callback, tx, out>>
    BY <1>5 DEF StopWorker, Idle
  <2>. QED
    BY <2>1, FramesAlone
<1>. QED
  BY <1>1, <1>2, <1>3, <1>4, <1>5

LEMMA IInvStep == IInv /\ [Next]_vars => IInv'
<1> SUFFICES ASSUME IInv, [Next]_vars PROVE IInv'
  OBVIOUS
<1>1. ASSUME NEW fits \in Ids[selected], AddToTxQueue(fits) PROVE IInv'
  <2>1. fits \in BOOLEAN
    BY TransportAssumption DEF IInv, TypeOK
  <2>. QED
    BY <1>1, <2>1, AddType, AddOrder DEF IInv
<1>2. CASE OnDataReceived
  <2>1. UNCHANGED <<owner, device, callback, tx, out>>
    BY <1>2 DEF OnDataReceived
  <2>. QED
    BY <1>2, <2>1, ReceiveType, FramesAlone DEF IInv
<1>3. CASE TakeFront
  BY <1>3, TakeFrontStep
<1>4. CASE Encode
  BY <1>4, EncodeStep
<1>5. CASE Remove
  BY <1>5, RemoveStep
<1>6. CASE \/ CreateDevice \/ DrainRx \/ NothingPending \/ Handshake
           \/ DestroyMembers \/ StopWorker \/ CallbackOnNothing
           \/ (WorkerLoop /\ Idle) \/ (IoFails /\ Idle)
  BY <1>6, QuietType, QuietOrder DEF IInv
<1>7. CASE UNCHANGED vars
  <2>1. UNCHANGED <<owner, device, callback, tx, out>>
    BY <1>7 DEF vars
  <2>2. TypeOK'
    BY <1>7 DEF IInv, TypeOK, LinkType, vars, link, port, device, callback, tx, rx, out
  <2>. QED
    BY <2>1, <2>2, FramesAlone DEF IInv
<1>. QED
  BY <1>1, <1>2, <1>3, <1>4, <1>5, <1>6, <1>7 DEF Next, Worker, Callback

LEMMA Invariance == Spec => []IInv
BY IInvInit, IInvStep, PTL DEF Spec

(* Every variable keeps its type: the queue never exceeds TX_QUEUE_MAX_SIZE*)
(* between calls, nor the receive buffer its capacity.                     *)
THEOREM TypeCorrect == Spec => []TypeOK
BY Invariance, PTL DEF IInv

-----------------------------------------------------------------------------
(* Every step of the transport is one of FrameChannel or leaves it alone.  *)
LEMMA ChannelStep ==
  IInv /\ [Next]_vars => [Channel!Next]_<<accepted, wire>>
<1> SUFFICES ASSUME IInv, [Next]_vars,
                    ~ UNCHANGED <<accepted, wire>>
             PROVE  Channel!Next
  OBVIOUS
<1>1. CASE \E fits \in Ids[selected] : AddToTxQueue(fits)
  <2>1. accepted' = accepted + 1 /\ wire' = wire
    BY <1>1 DEF AddToTxQueue, out
  <2>. QED
    BY <2>1 DEF Channel!Next, Channel!Accept
<1>2. CASE Encode
  <2>1. accepted' = accepted /\ wire' = Append(wire, head.n)
    BY <1>2 DEF Encode, tx
  <2>2. head \in Frames /\ head.n <= accepted /\ Written(head.n)
    BY <1>2 DEF IInv, Order, InFlight, Encode
  <2>3. head.n \in 1 .. accepted
    BY <2>2, QueueElements, TransportAssumption DEF IInv, Frames
  <2>4. \A i \in DOMAIN wire : wire[i] < head.n
    BY <2>2, QueueElements, LenProperties DEF IInv, Written
  <2>5. Channel!Send(head.n)
    BY <2>1, <2>4 DEF Channel!Send
  <2>. QED
    BY <2>3, <2>5 DEF Channel!Next
<1>3. CASE \/ CreateDevice \/ OnDataReceived \/ (IoFails /\ Idle)
           \/ (WorkerLoop /\ Idle) \/ DrainRx \/ TakeFront \/ NothingPending
           \/ Handshake \/ Remove \/ CallbackOnNothing
           \/ DestroyMembers \/ StopWorker \/ UNCHANGED vars
  <2>1. accepted' = accepted /\ wire' = wire
    <3>1. CASE CreateDevice \/ OnDataReceived \/ DrainRx \/ TakeFront \/ NothingPending
      BY <3>1 DEF CreateDevice, OnDataReceived, DrainRx, TakeFront,
           NothingPending, tx, out
    <3>2. CASE Handshake \/ Remove \/ CallbackOnNothing \/ DestroyMembers \/ StopWorker
      BY <3>2 DEF Handshake, Remove, CallbackOnNothing, DestroyMembers,
           StopWorker, tx, out
    <3>3. CASE Idle \/ UNCHANGED vars
      BY <3>3 DEF Idle, vars, tx, out
    <3>. QED
      BY <1>3, <3>1, <3>2, <3>3
  <2>2. UNCHANGED <<accepted, wire>>
    BY <2>1
  <2>. QED
    BY <2>2
<1>. QED
  BY <1>1, <1>2, <1>3 DEF Next, Worker, Callback

(* The transport implements FrameChannel: whatever a full queue drops and  *)
(* however late the pop, frames go out once each and in order.             *)
THEOREM ImplementsChannel == Spec => InOrderOnce
<1>1. Init => Channel!Init
  BY DEF Init, Channel!Init
<1>. QED
  BY <1>1, Invariance, ChannelStep, PTL DEF Spec, InOrderOnce, Channel!Spec

-----------------------------------------------------------------------------
(***************************************************************************)
(* What an overflow costs.  While a frame is being encoded or written the  *)
(* front of the queue is that frame, or an overflow has popped it, and the *)
(* frame that the late pop will take in its place is already paid for.     *)
(***************************************************************************)
Sacrificed ==
  (cb = "encode" \/ (cb = "remove" /\ remove)) =>
    \/ queue # <<>> /\ Head(queue).n = head.n
    \/ Cardinality(Missing \ {head.n}) + 1 <= overflows

Settled == (cb = "remove" /\ remove) => head.n \in Elements(wire) \cup refused

Loss == OneLostPerOverflow /\ Sacrificed /\ Settled

LEMMA NoMore ==
  ASSUME NEW S, NEW T \in SUBSET S, IsFiniteSet(S)
  PROVE  /\ IsFiniteSet(T) /\ Cardinality(T) \in Nat
         /\ Cardinality(T) <= Cardinality(S) /\ Cardinality(S) \in Nat
BY FS_Subset, FS_CardinalityType

LEMMA OneMore ==
  ASSUME NEW S, NEW x, NEW T \in SUBSET (S \cup {x}), IsFiniteSet(S)
  PROVE  /\ IsFiniteSet(T) /\ Cardinality(T) \in Nat
         /\ Cardinality(T) <= Cardinality(S) + 1 /\ Cardinality(S) \in Nat
<1>1. Cardinality(S) \in Nat
  BY FS_CardinalityType
<1>2. /\ IsFiniteSet(S \cup {x})
      /\ \/ Cardinality(S \cup {x}) = Cardinality(S)
         \/ Cardinality(S \cup {x}) = Cardinality(S) + 1
  BY FS_AddElement
<1>3. /\ IsFiniteSet(T) /\ Cardinality(T) \in Nat
      /\ Cardinality(T) <= Cardinality(S \cup {x})
  BY <1>2, NoMore
<1>. QED
  BY <1>1, <1>2, <1>3

LEMMA MissingFinite ==
  ASSUME TypeOK
  PROVE  /\ IsFiniteSet(Missing) /\ Cardinality(Missing) \in Nat
         /\ \A h : /\ IsFiniteSet(Missing \ {h}) /\ Cardinality(Missing \ {h}) \in Nat
                   /\ Cardinality(Missing \ {h}) <= Cardinality(Missing)
<1>1. accepted \in Int /\ 1 \in Int
  BY QueueElements
<1>2. IsFiniteSet(1 .. accepted) /\ Missing \subseteq 1 .. accepted
  BY <1>1, FS_Interval DEF Missing
<1>3. IsFiniteSet(Missing)
  BY <1>2, FS_Subset
<1>. QED
  BY <1>3, NoMore

(* A pop takes no number out of the queue but the front's.                 *)
LEMMA PopTakesFront ==
  ASSUME NEW q \in Seq(Frames), q # <<>>
  PROVE  \A i \in 1 .. Len(q) :
           i = 1 \/ \E j \in 1 .. Len(Tail(q)) : Tail(q)[j] = q[i]
<1>1. /\ Len(Tail(q)) = Len(q) - 1 /\ Len(q) \in Nat
      /\ \A j \in 1 .. Len(Tail(q)) : Tail(q)[j] = q[j + 1]
  BY HeadTailProperties, LenProperties
<1>2. ASSUME NEW i \in 1 .. Len(q), i # 1
      PROVE  i - 1 \in 1 .. Len(Tail(q)) /\ Tail(q)[i - 1] = q[i]
  <2>1. i - 1 \in 1 .. Len(Tail(q)) /\ (i - 1) + 1 = i
    BY <1>1, <1>2
  <2>. QED
    BY <1>1, <2>1
<1>. QED
  BY <1>2

LEMMA QueuedIs ==
  ASSUME TypeOK
  PROVE  /\ Queued = {queue[i].n : i \in 1 .. Len(queue)}
         /\ Elements(wire) = {wire[i] : i \in 1 .. Len(wire)}
<1>1. DOMAIN queue = 1 .. Len(queue) /\ DOMAIN wire = 1 .. Len(wire)
  BY QueueElements, LenProperties
<1>. QED
  BY <1>1 DEF Queued, Elements

LEMMA LossInit == Init => Loss
<1> SUFFICES ASSUME Init PROVE Loss
  OBVIOUS
<1>1. Missing = {}
  BY DEF Init, Missing
<1>2. Cardinality({}) = 0
  BY FS_EmptySet
<1>. QED
  BY <1>1, <1>2 DEF Init, Loss, OneLostPerOverflow, Sacrificed, Settled

(* An accepted frame is queued; an overflow takes the front.               *)
LEMMA AddLoses ==
  ASSUME IInv, NEW fits \in BOOLEAN, AddToTxQueue(fits)
  PROVE  \/ /\ overflows' = overflows /\ Missing' \subseteq Missing
            /\ queue # <<>> => queue' # <<>> /\ Head(queue') = Head(queue)
         \/ /\ overflows' = overflows + 1 /\ queue # <<>>
            /\ Missing' \subseteq Missing \cup {Head(queue).n}
<1> DEFINE f == [n |-> accepted + 1, fits |-> fits]
           longer == Append(queue, f)
<1>1. /\ f \in Frames /\ f.n = accepted + 1 /\ accepted \in Nat
      /\ accepted' = accepted + 1 /\ wire' = wire /\ refused' = refused
      /\ TypeOK /\ TypeOK'
  <2>1. f \in Frames /\ f.n = accepted + 1 /\ accepted \in Nat
    BY TransportAssumption DEF IInv, TypeOK, AddToTxQueue, Frames
  <2>2. accepted' = accepted + 1 /\ wire' = wire /\ refused' = refused
    BY DEF AddToTxQueue, out
  <2>3. TypeOK /\ TypeOK'
    BY AddType DEF IInv
  <2>. QED
    BY <2>1, <2>2, <2>3
<1>2. queue \in Seq(Frames) /\ Len(queue) \in Nat /\ Len(queue) <= TxMax
  BY <1>1, QueueElements DEF TypeOK
<1>3. \/ Len(longer) > TxMax /\ queue' = Tail(longer) /\ overflows' = overflows + 1
      \/ queue' = longer /\ overflows' = overflows
  BY DEF AddToTxQueue
<1> HIDE DEF f
<1>4. /\ longer \in Seq(Frames) /\ Len(longer) = Len(queue) + 1 /\ longer # <<>>
      /\ \A i \in 1 .. Len(longer) : longer[i] = IF i <= Len(queue) THEN queue[i] ELSE f
  BY <1>1, <1>2, AppendProperties
<1>5. /\ \A i \in 1 .. Len(queue) : i \in 1 .. Len(longer) /\ longer[i] = queue[i]
      /\ Len(longer) \in 1 .. Len(longer) /\ longer[Len(longer)] = f
      /\ Len(queue) + 1 = Len(longer)
  BY <1>2, <1>4
<1> HIDE DEF longer
<1>6. /\ Queued = {queue[i].n : i \in 1 .. Len(queue)}
      /\ Queued' = {queue'[i].n : i \in 1 .. Len(queue')}
      /\ Elements(wire)' = Elements(wire)
  <2>1. DOMAIN queue' = 1 .. Len(queue')
    BY <1>1, LenProperties DEF TypeOK
  <2>. QED
    BY <1>1, <2>1, QueuedIs DEF Queued, Elements
<1>7. 1 .. accepted + 1 = (1 .. accepted) \cup {accepted + 1}
  BY <1>1
<1>8. ASSUME NEW X, Queued \subseteq Queued' \cup X, accepted + 1 \in Queued'
      PROVE  Missing' \subseteq Missing \cup X
  BY <1>1, <1>6, <1>7, <1>8 DEF Missing
<1>9. CASE Len(longer) > TxMax /\ queue' = Tail(longer) /\ overflows' = overflows + 1
  <2>1. /\ queue # <<>> /\ Len(queue) >= 1 /\ Head(queue) = queue[1]
    BY <1>2, <1>4, <1>9, EmptySeq, HeadTailProperties, TransportAssumption
  <2>2. \A i \in 1 .. Len(longer) :
          i = 1 \/ \E j \in 1 .. Len(queue') : queue'[j] = longer[i]
    BY <1>4, <1>9, PopTakesFront
  <2>3. \A i \in 1 .. Len(queue) :
          i = 1 \/ \E j \in 1 .. Len(queue') : queue'[j].n = queue[i].n
    <3>1. \A i \in 1 .. Len(queue) :
            i = 1 \/ \E j \in 1 .. Len(queue') : queue'[j] = queue[i]
      BY <1>5, <2>2
    <3>. QED
      BY <3>1
  <2>4. Queued \subseteq Queued' \cup {Head(queue).n}
    BY <1>6, <2>1, <2>3
  <2>5. accepted + 1 \in Queued'
    <3>1. Len(longer) # 1
      BY <1>2, <1>4, <2>1
    <3>2. \E j \in 1 .. Len(queue') : queue'[j] = f
      BY <1>5, <2>2, <3>1
    <3>. QED
      BY <1>1, <1>6, <3>2
  <2>. QED
    BY <1>8, <1>9, <2>1, <2>4, <2>5
<1>10. CASE queue' = longer /\ overflows' = overflows
  <2>1. \A i \in 1 .. Len(queue) : i \in 1 .. Len(queue') /\ queue'[i] = queue[i]
    BY <1>5, <1>10
  <2>2. Queued \subseteq Queued' \cup {}
    BY <1>6, <2>1
  <2>3. accepted + 1 \in Queued'
    BY <1>1, <1>5, <1>6, <1>10
  <2>4. queue # <<>> => queue' # <<>> /\ Head(queue') = Head(queue)
    <3> SUFFICES ASSUME queue # <<>> PROVE queue' # <<>> /\ Head(queue') = Head(queue)
      OBVIOUS
    <3>1. Len(queue) >= 1 /\ Head(queue) = queue[1] /\ Head(longer) = longer[1]
      BY <1>2, <1>4, EmptySeq, HeadTailProperties
    <3>. QED
      BY <1>2, <1>4, <1>5, <1>10, <3>1
  <2>. QED
    BY <1>8, <1>10, <2>2, <2>3, <2>4
<1>. QED
  BY <1>3, <1>9, <1>10

LEMMA AddLoss ==
  ASSUME IInv, Loss, NEW fits \in BOOLEAN, AddToTxQueue(fits)
  PROVE  Loss'
<1>1. UNCHANGED <<cb, head, remove, wire, refused>> /\ TypeOK /\ overflows \in Nat
  BY TransportAssumption DEF AddToTxQueue, callback, out, IInv, TypeOK
<1>2. Settled'
  BY <1>1 DEF Loss, Settled, Elements
<1>3. CASE /\ overflows' = overflows /\ Missing' \subseteq Missing
           /\ queue # <<>> => queue' # <<>> /\ Head(queue') = Head(queue)
  <2>1. OneLostPerOverflow'
    BY <1>1, <1>3, MissingFinite, NoMore DEF Loss, OneLostPerOverflow
  <2>2. Cardinality(Missing' \ {head.n}) <= Cardinality(Missing \ {head.n})
        /\ Cardinality(Missing' \ {head.n}) \in Nat
    <3>1. Missing' \ {head.n} \subseteq Missing \ {head.n}
      BY <1>3
    <3>. QED
      BY <1>1, <3>1, MissingFinite, NoMore
  <2>3. Cardinality(Missing \ {head.n}) \in Nat
    BY <1>1, MissingFinite
  <2>4. Sacrificed'
    BY <1>1, <1>3, <2>2, <2>3 DEF Loss, Sacrificed
  <2>. QED
    BY <1>2, <2>1, <2>4 DEF Loss
<1>4. CASE /\ overflows' = overflows + 1 /\ queue # <<>>
           /\ Missing' \subseteq Missing \cup {Head(queue).n}
  <2>1. OneLostPerOverflow'
    <3>1. /\ Cardinality(Missing') <= Cardinality(Missing) + 1
          /\ Cardinality(Missing') \in Nat /\ Cardinality(Missing) \in Nat
      BY <1>1, <1>4, MissingFinite, OneMore
    <3>. QED
      BY <1>1, <1>4, <3>1 DEF Loss, OneLostPerOverflow
  <2>2. ASSUME cb = "encode" \/ (cb = "remove" /\ remove)
        PROVE  Cardinality(Missing' \ {head.n}) + 1 <= overflows'
    <3>1. CASE Head(queue).n = head.n
      <4>1. Missing' \ {head.n} \subseteq Missing
        BY <1>4, <3>1
      <4>2. /\ Cardinality(Missing' \ {head.n}) <= Cardinality(Missing)
            /\ Cardinality(Missing' \ {head.n}) \in Nat /\ Cardinality(Missing) \in Nat
        BY <1>1, <4>1, MissingFinite, NoMore
      <4>. QED
        BY <1>1, <1>4, <4>2 DEF Loss, OneLostPerOverflow
    <3>2. CASE Cardinality(Missing \ {head.n}) + 1 <= overflows
      <4>1. Missing' \ {head.n} \subseteq (Missing \ {head.n}) \cup {Head(queue).n}
        BY <1>4
      <4>2. /\ Cardinality(Missing' \ {head.n}) <= Cardinality(Missing \ {head.n}) + 1
            /\ Cardinality(Missing' \ {head.n}) \in Nat
            /\ Cardinality(Missing \ {head.n}) \in Nat
        BY <1>1, <4>1, MissingFinite, OneMore
      <4>. QED
        BY <1>1, <1>4, <3>2, <4>2
    <3>. QED
      BY <2>2, <3>1, <3>2 DEF Loss, Sacrificed
  <2>3. Sacrificed'
    BY <1>1, <2>2 DEF Sacrificed
  <2>. QED
    BY <1>2, <2>1, <2>3 DEF Loss
<1>. QED
  BY <1>3, <1>4, AddLoses

LEMMA EncodeLoss ==
  ASSUME IInv, Loss, Encode
  PROVE  Loss'
<1>1. /\ cb = "encode" /\ cb' = "remove" /\ head' = head /\ queue' = queue
      /\ accepted' = accepted /\ overflows' = overflows /\ TypeOK
      /\ wire' = IF head.fits THEN Append(wire, head.n) ELSE wire
      /\ refused' = IF head.fits THEN refused ELSE refused \cup {head.n}
  BY DEF Encode, tx, IInv
<1>2. /\ Elements(wire) \subseteq Elements(wire')
      /\ head.fits => head.n \in Elements(wire')
  <2>1. wire \in Seq(1 .. MaxFrames) /\ Len(wire) \in Nat
    BY <1>1, QueueElements
  <2>2. head.n \in 1 .. MaxFrames
    BY <1>1 DEF Encode, IInv, Order, InFlight, Frames
  <2>3. CASE head.fits
    <3>1. /\ wire' \in Seq(1 .. MaxFrames) /\ Len(wire') = Len(wire) + 1
          /\ \A w \in 1 .. Len(wire') : wire'[w] = IF w <= Len(wire) THEN wire[w] ELSE head.n
      BY <1>1, <2>1, <2>2, <2>3, AppendProperties
    <3>2. DOMAIN wire = 1 .. Len(wire) /\ DOMAIN wire' = 1 .. Len(wire')
      BY <2>1, <3>1, LenProperties
    <3>3. \A w \in 1 .. Len(wire) : w \in 1 .. Len(wire') /\ wire'[w] = wire[w]
      BY <2>1, <3>1
    <3>4. Len(wire') \in 1 .. Len(wire') /\ wire'[Len(wire')] = head.n
      BY <2>1, <3>1
    <3>. QED
      BY <3>2, <3>3, <3>4 DEF Elements
  <2>4. CASE ~head.fits
    BY <1>1, <2>4
  <2>. QED
    BY <2>3, <2>4
<1>3. Missing' \subseteq Missing /\ Elements(wire)' = Elements(wire')
      /\ Queued' = Queued
  BY <1>1, <1>2 DEF Missing, Elements, Queued
<1>4. Settled'
  BY <1>1, <1>2, <1>3 DEF Settled
<1>5. /\ Cardinality(Missing') <= Cardinality(Missing)
      /\ Cardinality(Missing') \in Nat /\ Cardinality(Missing) \in Nat
      /\ Cardinality(Missing' \ {head.n}) <= Cardinality(Missing \ {head.n})
      /\ Cardinality(Missing' \ {head.n}) \in Nat /\ Cardinality(Missing \ {head.n}) \in Nat
  <2>1. Missing' \ {head.n} \subseteq Missing \ {head.n}
    BY <1>3
  <2>. QED
    BY <1>1, <1>3, <2>1, MissingFinite, NoMore
<1>6. overflows \in Nat
  BY <1>1, TransportAssumption DEF TypeOK
<1>7. OneLostPerOverflow'
  BY <1>1, <1>5, <1>6 DEF Loss, OneLostPerOverflow
<1>8. Sacrificed'
  BY <1>1, <1>5, <1>6 DEF Loss, Sacrificed
<1>. QED
  BY <1>4, <1>7, <1>8 DEF Loss

LEMMA RemoveLoss ==
  ASSUME IInv, Loss, Remove
  PROVE  Loss'
<1>1. /\ owner = "alive" /\ cb = "remove" /\ cb' = "loop" /\ TypeOK
      /\ UNCHANGED <<accepted, overflows, wire, refused>>
      /\ queue' = IF remove THEN Tail(queue) ELSE queue
  BY DEF Remove, out, IInv
<1>2. Settled' /\ Sacrificed'
  BY <1>1 DEF Settled, Sacrificed
<1>3. CASE ~remove
  <2>1. Missing' = Missing
    BY <1>1, <1>3 DEF Missing, Queued, Elements
  <2>. QED
    BY <1>1, <1>2, <2>1 DEF Loss, OneLostPerOverflow
<1>4. CASE remove
  <2>1. queue # <<>> /\ queue' = Tail(queue)
    BY <1>1, <1>4 DEF IInv, Order, InFlight, TypeOK
  <2>2. /\ queue \in Seq(Frames) /\ Tail(queue) \in Seq(Frames) /\ Head(queue) = queue[1]
    BY <1>1, <2>1, QueueElements, HeadTailProperties
  <2>3. Queued \subseteq Queued' \cup {Head(queue).n}
    <3>1. Queued' = {queue'[i].n : i \in 1 .. Len(queue')}
      <4>1. DOMAIN queue' = 1 .. Len(queue')
        BY <2>1, <2>2, LenProperties
      <4>. QED
        BY <4>1 DEF Queued, Elements
    <3>2. \A i \in 1 .. Len(queue) :
            i = 1 \/ \E j \in 1 .. Len(queue') : queue'[j].n = queue[i].n
      <4>1. \A i \in 1 .. Len(queue) :
              i = 1 \/ \E j \in 1 .. Len(queue') : queue'[j] = queue[i]
        BY <2>1, <2>2, PopTakesFront
      <4>. QED
        BY <4>1
    <3>3. Queued = {queue[i].n : i \in 1 .. Len(queue)}
      BY <1>1, QueuedIs
    <3>4. ASSUME NEW i \in 1 .. Len(queue)
          PROVE  queue[i].n \in Queued' \cup {Head(queue).n}
      <4>1. CASE i = 1
        BY <2>2, <4>1
      <4>2. CASE i # 1
        BY <3>1, <3>2, <4>2
      <4>. QED
        BY <4>1, <4>2
    <3>. QED
      BY <3>3, <3>4
  <2>4. Missing' \subseteq Missing \cup {Head(queue).n} /\ head.n \notin Missing
        /\ head.n \notin Missing'
    BY <1>1, <1>4, <2>3 DEF Missing, Elements, Loss, Settled
  <2>5. overflows \in Nat
    BY <1>1, TransportAssumption DEF TypeOK
  <2>6. OneLostPerOverflow'
    <3>1. CASE Head(queue).n = head.n
      <4>1. Missing' \subseteq Missing
        BY <2>4, <3>1
      <4>. QED
        BY <1>1, <2>5, <4>1, MissingFinite, NoMore DEF Loss, OneLostPerOverflow
    <3>2. CASE Cardinality(Missing \ {head.n}) + 1 <= overflows
      <4>1. Missing \ {head.n} = Missing
        BY <2>4
      <4>2. Cardinality(Missing) + 1 <= overflows
        BY <3>2, <4>1
      <4>3. /\ Cardinality(Missing') <= Cardinality(Missing) + 1
            /\ Cardinality(Missing') \in Nat /\ Cardinality(Missing) \in Nat
        BY <1>1, <2>4, MissingFinite, OneMore
      <4>. QED
        BY <1>1, <2>5, <4>2, <4>3 DEF OneLostPerOverflow
    <3>. QED
      BY <1>1, <1>4, <3>1, <3>2 DEF Loss, Sacrificed
  <2>. QED
    BY <1>2, <2>6 DEF Loss
<1>. QED
  BY <1>3, <1>4 DEF TypeOK

LEMMA LossStep == IInv /\ Loss /\ [Next]_vars => Loss'
<1> SUFFICES ASSUME IInv, Loss, [Next]_vars PROVE Loss'
  OBVIOUS
<1>1. ASSUME NEW fits \in Ids[selected], AddToTxQueue(fits) PROVE Loss'
  <2>1. fits \in BOOLEAN
    BY TransportAssumption DEF IInv, TypeOK
  <2>. QED
    BY <1>1, <2>1, AddLoss
<1>2. CASE Encode
  BY <1>2, EncodeLoss
<1>3. CASE Remove
  BY <1>3, RemoveLoss
<1>4. ASSUME UNCHANGED <<tx, out>> PROVE Missing' = Missing /\ OneLostPerOverflow'
  <2>1. UNCHANGED <<queue, accepted, overflows, refused, wire>>
    BY <1>4 DEF tx, out
  <2>. QED
    BY <2>1 DEF Missing, Queued, Elements, Loss, OneLostPerOverflow
<1>5. CASE TakeFront
  <2>1. /\ queue # <<>> /\ queue' = queue /\ head' = Head(queue) /\ cb' = "encode"
        /\ UNCHANGED <<tx, out>>
    BY <1>5 DEF TakeFront, tx
  <2>. QED
    BY <1>4, <2>1 DEF Loss, Sacrificed, Settled
<1>6. CASE Handshake \/ DrainRx \/ NothingPending \/ CallbackOnNothing
  <2>1. /\ UNCHANGED <<tx, out>>
        /\ cb' \in {"none", "loop"} \/ (cb' = "remove" /\ ~remove')
    BY <1>6 DEF Handshake, DrainRx, NothingPending, CallbackOnNothing, tx
  <2>. QED
    BY <1>4, <2>1 DEF Loss, Sacrificed, Settled
<1>7. CASE \/ CreateDevice \/ OnDataReceived \/ DestroyMembers \/ StopWorker
           \/ Idle \/ UNCHANGED vars
  <2>1. /\ UNCHANGED <<tx, out>>
        /\ UNCHANGED <<cb, head, remove, queue, wire, refused, overflows>>
    BY <1>7 DEF CreateDevice, OnDataReceived, DestroyMembers, StopWorker, Idle,
         vars, callback, tx, out
  <2>. QED
    BY <1>4, <2>1 DEF Loss, Sacrificed, Settled, Elements
<1>. QED
  BY <1>1, <1>2, <1>3, <1>5, <1>6, <1>7 DEF Next, Worker, Callback

(* The accepted frames that are neither queued, written nor refused by an  *)
(* encoder are at most as many as the overflows, even when AddToTxQueue    *)
(* pops the frame that SendPendingCanFrames is writing and the pop after   *)
(* the write then takes another.  Nobody is told of a frame that is lost.  *)
THEOREM OverflowsCostOneFrame == Spec => []OneLostPerOverflow
<1>1. Loss => OneLostPerOverflow
  BY DEF Loss
<1>. QED
  BY <1>1, Invariance, LossInit, LossStep, PTL DEF Spec
=============================================================================
