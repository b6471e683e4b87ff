-------------------------- MODULE IsoTpLink_proofs --------------------------
(***************************************************************************)
(* Proofs about IsoTpLink, for any lengths, block size and number of       *)
(* messages: what the link that sends and the link that receives agree on, *)
(* whatever frames the bus loses, and that what is delivered is therefore  *)
(* one whole message; and, with no such agreement, that messages which are *)
(* whole arrive in order.                                                  *)
(***************************************************************************)
EXTENDS IsoTpLink, Integers, SequenceTheorems, TLAPS

Message == [to : Ecus, size : Lengths, overrun : BOOLEAN]
SendState == [status : {"idle", "inprogress", "error"}, offset : Nat, sn : 0 .. Sns - 1,
              bs : 0 .. BlockSize, wft : 0 .. MaxWft + 1, overdue : BOOLEAN]
ReceiveState == [status : {"idle", "inprogress"}, sn : 0 .. Sns - 1, bs : 0 .. BlockSize,
                 size : Nat, segs : Seq(Segments)]
DataFrame == [to : Ecus, kind : {"SF", "FF", "CF"}, of : Segments, sn : 0 .. Sns - 1]
Control == [from : Ecus, fs : {"continue", "wait", "overflow"}]

Sending == send.status = "inprogress"

(* What the types of the sender's and the receivers' counters rest on.     *)
Bounds ==
  /\ Current <= MaxMessages
  /\ \A i \in 1 .. Len(bus) : bus[i].of.msg <= Current
  /\ Sending => Current >= 1 /\ send.wft <= MaxWft /\ ~messages[Current].overrun
  /\ \A e \in Ecus : receive[e].status = "inprogress" => receive[e].bs >= 1

Base == TypeOK /\ Bounds

LEMMA Types ==
  ASSUME TypeOK
  PROVE  /\ messages \in Seq(Message) /\ Current \in Nat
         /\ \A m \in 1 .. Current : messages[m] \in Message
         /\ send \in SendState /\ responseId \in Ecus
         /\ receive \in [Ecus -> ReceiveState]
         /\ bus \in Seq(DataFrame) /\ Len(bus) \in Nat /\ DOMAIN bus = 1 .. Len(bus)
         /\ \A i \in 1 .. Len(bus) : bus[i] \in DataFrame
         /\ back \in Seq(Control) /\ Len(back) \in Nat /\ DOMAIN back = 1 .. Len(back)
         /\ \A i \in 1 .. Len(back) : back[i] \in Control
         /\ delivered \in Seq(Seq(Segments))
<1>1. /\ messages \in Seq(Message) /\ send \in SendState /\ responseId \in Ecus
      /\ receive \in [Ecus -> ReceiveState] /\ bus \in Seq(DataFrame) /\ back \in Seq(Control)
      /\ delivered \in Seq(Seq(Segments))
  BY DEF TypeOK, Message, SendState, ReceiveState, DataFrame, Control
<1>2. /\ Current \in Nat /\ \A m \in 1 .. Current : messages[m] \in Message
  BY <1>1, LenProperties, ElementOfSeq DEF Current
<1>3. /\ Len(bus) \in Nat /\ DOMAIN bus = 1 .. Len(bus)
      /\ \A i \in 1 .. Len(bus) : bus[i] \in DataFrame
  BY <1>1, LenProperties, ElementOfSeq
<1>4. /\ Len(back) \in Nat /\ DOMAIN back = 1 .. Len(back)
      /\ \A i \in 1 .. Len(back) : back[i] \in Control
  BY <1>1, LenProperties, ElementOfSeq
<1>. QED
  BY <1>1, <1>2, <1>3, <1>4

(* The prover names of the types, put back together.                       *)
LEMMA Typed ==
  ASSUME messages' \in Seq(Message), send' \in SendState, responseId' \in Ecus,
         receive' \in [Ecus -> ReceiveState], bus' \in Seq(DataFrame), back' \in Seq(Control),
         delivered' \in Seq(Seq(Segments))
  PROVE  TypeOK'
BY Zenon DEF TypeOK, Message, SendState, ReceiveState, DataFrame, Control

LEMMA AppendedIs ==
  ASSUME NEW S, NEW s \in Seq(S), NEW x \in S
  PROVE  /\ Append(s, x) \in Seq(S) /\ Len(Append(s, x)) = Len(s) + 1 /\ Len(s) \in Nat
         /\ \A i \in 1 .. Len(s) : Append(s, x)[i] = s[i]
         /\ Append(s, x)[Len(s) + 1] = x
BY AppendProperties, LenProperties

LEMMA TailIs ==
  ASSUME NEW S, NEW s \in Seq(S), s # <<>>
  PROVE  /\ Tail(s) \in Seq(S) /\ Len(Tail(s)) = Len(s) - 1 /\ Len(s) \in Nat /\ Len(s) >= 1
         /\ \A i \in 1 .. Len(s) - 1 : Tail(s)[i] = s[i + 1]
         /\ Head(s) = s[1] /\ Head(s) \in S
<1>1. /\ Tail(s) \in Seq(S) /\ Len(Tail(s)) = Len(s) - 1 /\ Head(s) \in S
      /\ \A i \in 1 .. Len(Tail(s)) : Tail(s)[i] = s[i + 1]
  BY HeadTailProperties
<1>2. Len(s) \in Nat /\ Len(s) # 0
  BY EmptySeq
<1>. QED
  BY <1>1, <1>2

LEMMA Constants ==
  /\ DefaultEcu \in Ecus /\ Lengths \subseteq Nat \ {0} /\ BufferSize \in Nat \ {0}
  /\ MaxMessages \in Nat /\ MaxWaits \in Nat /\ MaxWft \in Nat
  /\ BlockSize \in Nat \ {0} /\ Sns \in Nat /\ BlockSize < Sns /\ 1 \in 0 .. Sns - 1
  /\ BlockSize \in 0 .. BlockSize /\ \A n \in Nat : n % Sns \in 0 .. Sns - 1
BY LinkAssumption

LEMMA OneOfSns == 1 % Sns = 1
BY LinkAssumption

-----------------------------------------------------------------------------
(* Each step, field by field.                                              *)
LEMMA SendIs ==
  ASSUME Base, NEW e \in Ecus, NEW size \in Lengths, Send(e, size)
  PROVE  /\ Base' /\ ~Sending /\ Current' = Current + 1
         /\ messages' = Append(messages, [to |-> e, size |-> size, overrun |-> FALSE])
         /\ \A m \in 1 .. Current : messages'[m] = messages[m]
         /\ messages'[Current'] = [to |-> e, size |-> size, overrun |-> FALSE]
         /\ Len(bus') = Len(bus) + 1
         /\ \A i \in 1 .. Len(bus) : bus'[i] = bus[i]
         /\ bus'[Len(bus) + 1] = Frame(e, IF size = 1 THEN "SF" ELSE "FF", Current', 1, 0)
         /\ size = 1 => send' = send
         /\ size # 1 => /\ Sending' /\ send'.offset = 1 /\ send'.sn = 1 /\ send'.bs = 0
                        /\ send'.overdue = FALSE
         /\ UNCHANGED <<responseId, receive, back, delivered>>
<1>. DEFINE message == [to |-> e, size |-> size, overrun |-> FALSE]
            frame == Frame(e, IF size = 1 THEN "SF" ELSE "FF", Current + 1, 1, 0)
<1>1. /\ ~Sending /\ Current < MaxMessages /\ messages' = Append(messages, message)
      /\ bus' = Append(bus, frame)
      /\ UNCHANGED <<responseId, receive, back, delivered>>
  BY DEF Send, Sending
<1>3. /\ messages \in Seq(Message) /\ Current \in Nat /\ send \in SendState
      /\ responseId \in Ecus /\ receive \in [Ecus -> ReceiveState] /\ bus \in Seq(DataFrame)
      /\ Len(bus) \in Nat /\ back \in Seq(Control) /\ delivered \in Seq(Seq(Segments))
  BY Types DEF Base
<1>4. message \in Message
  BY DEF Message
<1>5. frame \in DataFrame /\ frame.of.msg = Current + 1
  BY <1>1, <1>3, Constants DEF Frame, DataFrame, Segments
<1>. HIDE DEF message, frame
<1>6. /\ messages' \in Seq(Message) /\ Current' = Current + 1
      /\ \A m \in 1 .. Current : messages'[m] = messages[m]
      /\ messages'[Current + 1] = message
  BY <1>1, <1>3, <1>4, AppendedIs DEF Current
<1>7. /\ bus' \in Seq(DataFrame) /\ Len(bus') = Len(bus) + 1
      /\ \A i \in 1 .. Len(bus) : bus'[i] = bus[i]
      /\ bus'[Len(bus) + 1] = frame
  BY <1>1, <1>3, <1>5, AppendedIs
<1>8. /\ size = 1 => send' = send
      /\ size # 1 => send' = [status |-> "inprogress", offset |-> 1, sn |-> 1,
                              bs |-> 0, wft |-> 0, overdue |-> FALSE]
  BY DEF Send
<1>9. /\ send' \in SendState
      /\ size # 1 => /\ Sending' /\ send'.offset = 1 /\ send'.sn = 1 /\ send'.bs = 0
                     /\ send'.wft = 0 /\ send'.overdue = FALSE
  <2>1. CASE size = 1
    BY <1>3, <1>8, <2>1
  <2>2. CASE size # 1
    <3> DEFINE start == [status |-> "inprogress", offset |-> 1, sn |-> 1,
                         bs |-> 0, wft |-> 0, overdue |-> FALSE]
    <3>1. 0 \in 0 .. BlockSize /\ 0 \in 0 .. MaxWft + 1 /\ 1 \in 0 .. Sns - 1 /\ 1 \in Nat
      BY Constants
    <3>2. start \in SendState
      BY <3>1 DEF SendState
    <3>3. /\ start.status = "inprogress" /\ start.offset = 1 /\ start.sn = 1 /\ start.bs = 0
          /\ start.wft = 0 /\ start.overdue = FALSE
      OBVIOUS
    <3>4. send' = start
      BY <1>8, <2>2, Zenon
    <3> HIDE DEF start
    <3>. QED
      BY <3>2, <3>3, <3>4, Zenon DEF Sending
  <2>. QED
    BY <2>1, <2>2
<1>10. TypeOK'
  BY <1>1, <1>3, <1>6, <1>7, <1>9, Typed
<1>11. Bounds'
  <2>1. Current' <= MaxMessages /\ Current' >= 1
    BY <1>1, <1>3, <1>6, Constants
  <2>2. ASSUME NEW i \in 1 .. Len(bus') PROVE bus'[i].of.msg <= Current'
    <3>1. CASE i = Len(bus) + 1
      BY <1>3, <1>5, <1>6, <1>7, <3>1
    <3>2. CASE i \in 1 .. Len(bus)
      <4>1. bus[i].of.msg <= Current /\ bus[i].of.msg \in Nat
        BY <3>2, Types DEF Base, Bounds, DataFrame, Segments
      <4>. QED
        BY <1>3, <1>6, <1>7, <3>2, <4>1
    <3>. QED
      BY <1>3, <1>7, <3>1, <3>2
  <2>3. Sending' => send'.wft <= MaxWft /\ ~messages'[Current'].overrun
    <3>1. message.overrun = FALSE
      BY DEF message
    <3>2. ~messages'[Current'].overrun
      BY <1>6, <3>1, Zenon
    <3>3. Sending' => size # 1
      BY <1>1, <1>8 DEF Sending
    <3>4. Sending' => send'.wft = 0
      BY <1>9, <3>3
    <3>. QED
      BY <3>2, <3>4, Constants
  <2>4. \A f \in Ecus : receive'[f].status = "inprogress" => receive'[f].bs >= 1
    BY <1>1 DEF Base, Bounds
  <2>. QED
    BY <2>1, <2>2, <2>3, <2>4 DEF Bounds
<1>. QED
  BY <1>1, <1>6, <1>7, <1>8, <1>9, <1>10, <1>11 DEF Base, message, frame

LEMMA PollSendIs ==
  ASSUME Base, PollSend
  PROVE  /\ Base' /\ Sending /\ send.bs >= 1 /\ Current' = Current
         /\ Len(bus') = Len(bus) + 1
         /\ \A i \in 1 .. Len(bus) : bus'[i] = bus[i]
         /\ bus'[Len(bus) + 1] = Frame(DefaultEcu, "CF", Current, send.offset + 1, send.sn)
         /\ send'.offset = send.offset + 1 /\ send'.sn = (send.sn + 1) % Sns
         /\ send'.bs = send.bs - 1 /\ send'.overdue = send.overdue
         /\ Sending' <=> send.offset + 1 < Size(Current)
         /\ UNCHANGED <<messages, responseId, receive, back, delivered>>
<1> DEFINE frame == Frame(DefaultEcu, "CF", Current, send.offset + 1, send.sn)
           status == IF send.offset + 1 >= Size(Current) THEN "idle" ELSE send.status
<1>1. /\ Sending /\ send.bs > 0 /\ bus' = Append(bus, frame)
      /\ send' = [send EXCEPT !.status = status, !.offset = @ + 1, !.sn = (@ + 1) % Sns,
                              !.bs = @ - 1]
      /\ UNCHANGED <<messages, responseId, receive, back, delivered>>
  BY DEF PollSend, Sending
<1>2. /\ messages \in Seq(Message) /\ Current \in Nat /\ send \in SendState
      /\ responseId \in Ecus /\ receive \in [Ecus -> ReceiveState] /\ bus \in Seq(DataFrame)
      /\ Len(bus) \in Nat /\ back \in Seq(Control) /\ delivered \in Seq(Seq(Segments))
      /\ messages[Current] \in Message /\ Current \in 1 .. MaxMessages
  <2>1. Current \in 1 .. MaxMessages
    BY <1>1, Types, Constants DEF Base, Bounds
  <2>2. Current \in 1 .. Current
    BY <2>1
  <2>. QED
    BY <2>1, <2>2, Types DEF Base
<1>3. send.offset \in Nat /\ send.sn \in Nat /\ send.sn \in 0 .. Sns - 1
      /\ send.bs \in 0 .. BlockSize
      /\ send.wft \in 0 .. MaxWft + 1 /\ send.overdue \in BOOLEAN
  BY <1>2 DEF SendState
<1>4. Size(Current) \in Nat
  BY <1>2, Constants DEF Size, Message
<1>5. frame \in DataFrame /\ frame.of.msg = Current
  <2>1. send.offset + 1 \in Nat \ {0}
    BY <1>3
  <2>2. DefaultEcu \in Ecus /\ "CF" \in {"SF", "FF", "CF"}
    BY Constants
  <2>3. [msg |-> Current, seg |-> send.offset + 1] \in Segments
    BY <1>2, <2>1 DEF Segments
  <2>. QED
    BY <1>3, <2>2, <2>3 DEF Frame, DataFrame
<1>6. status \in {"idle", "inprogress"} /\ (status = "inprogress" <=> send.offset + 1 < Size(Current))
  BY <1>1, <1>3, <1>4 DEF Sending
<1> HIDE DEF frame, status
<1>7. /\ bus' \in Seq(DataFrame) /\ Len(bus') = Len(bus) + 1
      /\ \A i \in 1 .. Len(bus) : bus'[i] = bus[i]
      /\ bus'[Len(bus) + 1] = frame
  BY <1>1, <1>2, <1>5, AppendedIs
<1>8. /\ send'.offset = send.offset + 1 /\ send'.sn = (send.sn + 1) % Sns
      /\ send'.bs = send.bs - 1 /\ send'.overdue = send.overdue /\ send'.status = status
      /\ send'.wft = send.wft
  BY <1>1, <1>2 DEF SendState
<1>9. send' \in SendState
  <2>1. (send.sn + 1) % Sns \in 0 .. Sns - 1
    <3>1. send.sn + 1 \in Nat
      BY <1>3
    <3>. QED
      BY <3>1, Constants, Zenon
  <2>2. send.offset + 1 \in Nat /\ send.bs - 1 \in 0 .. BlockSize
    <3>1. send.offset \in Nat /\ send.bs \in 0 .. BlockSize /\ send.bs > 0 /\ BlockSize \in Nat
      BY <1>1, <1>3, Constants
    <3>. QED
      BY <3>1
  <2>3. status \in {"idle", "inprogress", "error"}
    BY <1>6
  <2>. QED
    BY <1>1, <1>2, <2>1, <2>2, <2>3 DEF SendState
<1>10. TypeOK'
  BY <1>1, <1>2, <1>7, <1>9, Typed
<1>11. Current' = Current
  BY <1>1 DEF Current
<1>12. Bounds'
  <2>1. ASSUME NEW i \in 1 .. Len(bus') PROVE bus'[i].of.msg <= Current
    <3>1. CASE i = Len(bus) + 1
      BY <1>2, <1>5, <1>7, <3>1
    <3>2. CASE i \in 1 .. Len(bus)
      BY <1>7, <3>2 DEF Base, Bounds
    <3>. QED
      BY <1>2, <1>7, <3>1, <3>2
  <2>2. Current <= MaxMessages /\ Current >= 1 /\ send.wft <= MaxWft /\ ~messages[Current].overrun
        /\ \A f \in Ecus : receive[f].status = "inprogress" => receive[f].bs >= 1
    BY <1>1 DEF Base, Bounds
  <2>. QED
    BY <1>1, <1>8, <1>11, <2>1, <2>2 DEF Bounds
<1>13. Sending' <=> send.offset + 1 < Size(Current)
  BY <1>6, <1>8 DEF Sending
<1>. QED
  BY <1>1, <1>3, <1>7, <1>8, <1>10, <1>11, <1>12, <1>13 DEF Base, frame

LEMMA ElapseIs ==
  ASSUME Base, Elapse
  PROVE  /\ Base' /\ Sending /\ Sending' /\ send.bs = 0 /\ bus = <<>> /\ back = <<>>
         /\ send'.offset = send.offset /\ send'.sn = send.sn /\ send'.bs = send.bs
         /\ UNCHANGED <<messages, responseId, receive, bus, back, delivered>>
<1>1. /\ Sending /\ send.bs = 0 /\ bus = <<>> /\ back = <<>>
      /\ send' = [send EXCEPT !.overdue = TRUE]
      /\ UNCHANGED <<messages, responseId, receive, bus, back, delivered>>
  BY DEF Elapse, Sending
<1>2. send \in SendState
  BY Types DEF Base
<1>3. /\ send'.status = send.status /\ send'.offset = send.offset /\ send'.sn = send.sn
      /\ send'.bs = send.bs /\ send'.wft = send.wft /\ send' \in SendState
  BY <1>1, <1>2 DEF SendState
<1>4. TypeOK'
  BY <1>1, <1>3, Types, Typed DEF Base
<1>5. Bounds'
  BY <1>1, <1>3 DEF Base, Bounds, Sending, Current
<1>. QED
  BY <1>1, <1>3, <1>4, <1>5 DEF Base, Sending

LEMMA PollTimeoutIs ==
  ASSUME Base, PollTimeout
  PROVE  /\ Base' /\ Sending /\ send.overdue /\ ~Sending'
         /\ UNCHANGED <<messages, responseId, receive, bus, back, delivered>>
<1>1. /\ Sending /\ send.overdue /\ send' = [send EXCEPT !.status = "error"]
      /\ UNCHANGED <<messages, responseId, receive, bus, back, delivered>>
  BY DEF PollTimeout, Sending
<1>2. send \in SendState
  BY Types DEF Base
<1>3. send'.status = "error" /\ send' \in SendState
  BY <1>1, <1>2 DEF SendState
<1>4. TypeOK'
  BY <1>1, <1>3, Types, Typed DEF Base
<1>5. Bounds' /\ ~Sending'
  BY <1>1, <1>3 DEF Base, Bounds, Sending, Current
<1>. QED
  BY <1>1, <1>4, <1>5 DEF Base

(* What a flow control frame does to the sender.                           *)
LEMMA FlowControlIs ==
  ASSUME Base, Sending, NEW fs \in {"continue", "wait", "overflow"}, OnFlowControl(fs)
  PROVE  /\ send' \in SendState /\ messages' \in Seq(Message) /\ Current' = Current
         /\ \A m \in 1 .. Current : /\ messages'[m].to = messages[m].to
                                    /\ messages'[m].size = messages[m].size
                                    /\ messages[m].overrun => messages'[m].overrun
         /\ send'.offset = send.offset /\ send'.sn = send.sn /\ send'.overdue = FALSE
         /\ send'.bs = IF fs = "continue" THEN BlockSize ELSE send.bs
         /\ Sending' => fs # "overflow" /\ send'.wft <= MaxWft /\ ~messages'[Current].overrun
         /\ ~Sending' => fs = "overflow" \/ messages'[Current].overrun
<1> DEFINE waited == CASE fs = "continue" -> 0
                       [] fs = "wait" -> send.wft + 1
                       [] fs = "overflow" -> send.wft
           over == waited > MaxWft
           status == IF fs = "overflow" \/ over THEN "error" ELSE send.status
           bs == IF fs = "continue" THEN BlockSize ELSE send.bs
<1>1. /\ send' = [send EXCEPT !.overdue = FALSE, !.wft = waited, !.bs = bs, !.status = status]
      /\ messages' = [messages EXCEPT ![Current].overrun = over]
  BY DEF OnFlowControl, Sending
<1>2. /\ send \in SendState /\ messages \in Seq(Message) /\ Current \in Nat
      /\ Current \in 1 .. Current /\ send.wft <= MaxWft /\ ~messages[Current].overrun
      /\ send.wft \in Nat /\ send.bs \in 0 .. BlockSize
  BY Types DEF Base, Bounds, SendState
<1>3. waited \in 0 .. MaxWft + 1
  BY <1>2, Constants
<1>4. bs \in 0 .. BlockSize /\ status \in {"idle", "inprogress", "error"} /\ over \in BOOLEAN
      /\ (status = "inprogress" <=> fs # "overflow" /\ ~over)
  BY <1>2, Constants DEF Sending
<1>5. over <=> waited > MaxWft
  OBVIOUS
<1> HIDE DEF waited, over, status
<1>6. /\ send'.offset = send.offset /\ send'.sn = send.sn /\ send'.overdue = FALSE
      /\ send'.bs = bs /\ send'.wft = waited /\ send'.status = status
  BY <1>1, <1>2 DEF SendState
<1>7. send' \in SendState
  <2> HIDE DEF bs
  <2> DEFINE quiet == [send EXCEPT !.overdue = FALSE]
  <2>1. quiet \in SendState
    BY <1>2 DEF SendState
  <2>2. send' = [quiet EXCEPT !.wft = waited, !.bs = bs, !.status = status]
    BY <1>1, <1>2 DEF SendState
  <2> HIDE DEF quiet
  <2>. QED
    BY <1>3, <1>4, <2>1, <2>2 DEF SendState
<1>8. /\ \A m \in 1 .. Current : m # Current => messages'[m] = messages[m]
      /\ messages'[Current] = [messages[Current] EXCEPT !.overrun = over]
      /\ messages[Current] \in Message
      /\ Len(messages') = Len(messages) /\ DOMAIN messages' = DOMAIN messages
  BY <1>1, <1>2, LenProperties, ElementOfSeq DEF Current
<1>9. /\ messages'[Current].to = messages[Current].to
      /\ messages'[Current].size = messages[Current].size
      /\ messages'[Current].overrun = over /\ messages'[Current] \in Message
  BY <1>4, <1>8 DEF Message
<1>10. messages' \in Seq(Message)
  <2>1. messages' = [m \in 1 .. Current |-> messages'[m]]
    BY <1>1, <1>2, LenProperties DEF Current
  <2>2. \A m \in 1 .. Current : messages'[m] \in Message
    BY <1>2, <1>8, <1>9, Types DEF Base
  <2>3. messages' \in [1 .. Current -> Message]
    BY <2>1, <2>2
  <2>. QED
    BY <1>2, <2>3
<1>11. Current' = Current
  BY <1>8 DEF Current
<1>12. Sending' <=> fs # "overflow" /\ ~over
  BY <1>4, <1>6 DEF Sending
<1>13. \A m \in 1 .. Current : /\ messages'[m].to = messages[m].to
                               /\ messages'[m].size = messages[m].size
                               /\ messages[m].overrun => messages'[m].overrun
  BY <1>2, <1>8, <1>9
<1>14. ~over => send'.wft <= MaxWft
  BY <1>3, <1>5, <1>6, Constants
<1>. QED
  BY <1>6, <1>7, <1>9, <1>10, <1>11, <1>12, <1>13, <1>14

LEMMA ReceiveBackIs ==
  ASSUME Base, ReceiveBack
  PROVE  /\ Base' /\ back # <<>> /\ back' = Tail(back) /\ Current' = Current
         /\ UNCHANGED <<responseId, receive, bus, delivered>>
         /\ \A m \in 1 .. Current : /\ messages'[m].to = messages[m].to
                                    /\ messages'[m].size = messages[m].size
                                    /\ messages[m].overrun => messages'[m].overrun
         /\ \/ send' = send
            \/ /\ Sending /\ ~Sending' /\ \/ Head(back).fs = "overflow"
                                          \/ messages'[Current].overrun
            \/ /\ Sending /\ Sending' /\ Head(back).fs # "overflow"
               /\ send'.offset = send.offset /\ send'.sn = send.sn /\ send'.overdue = FALSE
               /\ send'.bs = IF Head(back).fs = "continue" THEN BlockSize ELSE send.bs
<1>1. /\ back # <<>> /\ back' = Tail(back)
      /\ \/ Sending /\ OnFlowControl(Head(back).fs)
         \/ send' = send /\ messages' = messages
      /\ UNCHANGED <<responseId, receive, bus, delivered>>
  BY DEF ReceiveBack, OnFlowControl, Sending
<1>2. /\ back' \in Seq(Control) /\ Head(back) \in Control
  BY <1>1, TailIs, Types DEF Base
<1>3. responseId \in Ecus /\ receive \in [Ecus -> ReceiveState] /\ bus \in Seq(DataFrame)
      /\ delivered \in Seq(Seq(Segments)) /\ messages \in Seq(Message) /\ send \in SendState
  BY Types DEF Base
<1>4. CASE Sending /\ OnFlowControl(Head(back).fs)
  <2> DEFINE fs == Head(back).fs
  <2>1. fs \in {"continue", "wait", "overflow"}
    BY <1>2 DEF Control
  <2> HIDE DEF fs
  <2>2. /\ send' \in SendState /\ messages' \in Seq(Message) /\ Current' = Current
        /\ \A m \in 1 .. Current : /\ messages'[m].to = messages[m].to
                                   /\ messages'[m].size = messages[m].size
                                   /\ messages[m].overrun => messages'[m].overrun
        /\ send'.offset = send.offset /\ send'.sn = send.sn /\ send'.overdue = FALSE
        /\ send'.bs = IF fs = "continue" THEN BlockSize ELSE send.bs
        /\ Sending' => fs # "overflow" /\ send'.wft <= MaxWft /\ ~messages'[Current].overrun
        /\ ~Sending' => fs = "overflow" \/ messages'[Current].overrun
    BY <1>4, <2>1, FlowControlIs DEF fs
  <2>3. TypeOK'
    BY <1>1, <1>2, <1>3, <2>2, Typed
  <2>4. Bounds'
    BY <1>1, <1>4, <2>2 DEF Base, Bounds
  <2>. QED
    BY <1>1, <1>4, <2>2, <2>3, <2>4 DEF Base, fs
<1>5. CASE send' = send /\ messages' = messages
  <2>1. TypeOK'
    BY <1>1, <1>2, <1>3, <1>5, Typed
  <2>2. Bounds' /\ Current' = Current
    BY <1>1, <1>5 DEF Base, Bounds, Current, Sending
  <2>. QED
    BY <1>1, <1>5, <2>1, <2>2 DEF Base
<1>. QED
  BY <1>1, <1>4, <1>5

(* What a receiving link makes of a frame.                                 *)
Takes(e, f) ==
  CASE f.kind = "SF" -> OnSingleFrame(e, f)
    [] f.kind = "FF" -> OnFirstFrame(e, f)
    [] f.kind = "CF" -> OnConsecutiveFrame(e, f)

LEMMA IdleIs ==
  ASSUME NEW s \in ReceiveState
  PROVE  Idle(s) \in ReceiveState /\ Idle(s).status = "idle"
BY DEF Idle, ReceiveState

LEMMA ControlIs ==
  ASSUME TypeOK, NEW e \in Ecus, NEW fs \in {"continue", "wait", "overflow"},
         SendFlowControl(e, fs)
  PROVE  /\ back' \in Seq(Control) /\ Len(back') = Len(back) + 1
         /\ \A i \in 1 .. Len(back) : back'[i] = back[i]
         /\ back'[Len(back) + 1] = [from |-> e, fs |-> fs]
<1>1. [from |-> e, fs |-> fs] \in Control
  BY DEF Control
<1>2. back' = Append(back, [from |-> e, fs |-> fs])
  BY DEF SendFlowControl
<1>. QED
  BY <1>1, <1>2, AppendedIs, Types

(* A receiver's state after a consecutive frame it expects, and when that  *)
(* was not the last.                                                       *)
Taken(s, f) == [s EXCEPT !.segs = Append(@, f.of), !.sn = (@ + 1) % Sns]
Onward(s, f) == [Taken(s, f) EXCEPT !.bs = IF s.bs = 1 THEN BlockSize ELSE @ - 1]

LEMMA GotIs ==
  ASSUME NEW s \in ReceiveState, NEW f, f.of \in Segments
  PROVE  /\ Taken(s, f) \in ReceiveState /\ Taken(s, f).status = s.status
         /\ Taken(s, f).sn = (s.sn + 1) % Sns
         /\ Taken(s, f).bs = s.bs /\ Taken(s, f).size = s.size
         /\ Taken(s, f).segs = Append(s.segs, f.of)
<1>1. s.segs \in Seq(Segments) /\ s.sn \in 0 .. Sns - 1
  BY DEF ReceiveState
<1>2. Append(s.segs, f.of) \in Seq(Segments)
  BY <1>1, AppendedIs
<1>3. (s.sn + 1) % Sns \in 0 .. Sns - 1
  <2>1. s.sn + 1 \in Nat
    <3>1. Sns \in Nat
      BY Constants
    <3>. QED
      BY <1>1, <3>1
  <2>. QED
    BY <2>1, Constants, Zenon
<1>. QED
  BY <1>2, <1>3 DEF ReceiveState, Taken

LEMMA ConsecutiveIs ==
  ASSUME NEW e, NEW f, OnConsecutiveFrame(e, f)
  PROVE  \/ /\ receive[e].status # "inprogress" /\ UNCHANGED <<receive, delivered, back>>
         \/ /\ receive' = [receive EXCEPT ![e] = Idle(receive[e])]
            /\ UNCHANGED <<delivered, back>>
         \/ /\ receive[e].status = "inprogress" /\ f.sn = receive[e].sn
            /\ Len(Taken(receive[e], f).segs) >= receive[e].size
            /\ receive' = [receive EXCEPT ![e] = Idle(Taken(receive[e], f))]
            /\ delivered' = Append(delivered, Taken(receive[e], f).segs) /\ UNCHANGED back
         \/ /\ receive[e].status = "inprogress" /\ f.sn = receive[e].sn
            /\ ~(Len(Taken(receive[e], f).segs) >= receive[e].size)
            /\ receive' = [receive EXCEPT ![e] = Onward(receive[e], f)] /\ UNCHANGED delivered
            /\ IF receive[e].bs = 1 THEN SendFlowControl(e, "continue") ELSE UNCHANGED back
<1> DEFINE s == receive[e]
           got == Taken(s, f)
           next == Onward(s, f)
<1>1. IF s.status # "inprogress"
      THEN UNCHANGED <<receive, delivered, back>>
      ELSE IF f.sn # s.sn
      THEN receive' = [receive EXCEPT ![e] = Idle(s)] /\ UNCHANGED <<delivered, back>>
      ELSE IF Len(got.segs) >= s.size
      THEN /\ receive' = [receive EXCEPT ![e] = Idle(got)]
           /\ delivered' = Append(delivered, got.segs)
           /\ UNCHANGED back
      ELSE /\ receive' = [receive EXCEPT ![e] = next]
           /\ IF s.bs = 1 THEN SendFlowControl(e, "continue") ELSE UNCHANGED back
           /\ UNCHANGED delivered
  BY Zenon DEF OnConsecutiveFrame, Taken, Onward
<1> HIDE DEF s, got, next
<1>2. CASE s.status # "inprogress"
  BY <1>1, <1>2, Zenon DEF s
<1>3. CASE s.status = "inprogress" /\ f.sn # s.sn
  BY <1>1, <1>3, Zenon DEF s
<1>4. CASE s.status = "inprogress" /\ f.sn = s.sn /\ Len(got.segs) >= s.size
  BY <1>1, <1>4, Zenon DEF s, got
<1>5. CASE s.status = "inprogress" /\ f.sn = s.sn /\ ~(Len(got.segs) >= s.size)
  BY <1>1, <1>5, Zenon DEF s, got, next
<1>. QED
  BY <1>2, <1>3, <1>4, <1>5

LEMMA TakesIs ==
  ASSUME Base, NEW f \in DataFrame, f.of.msg <= Current, Takes(f.to, f)
  PROVE  /\ receive' \in [Ecus -> ReceiveState] /\ back' \in Seq(Control)
         /\ delivered' \in Seq(Seq(Segments))
         /\ \A e \in Ecus : receive'[e].status = "inprogress" => receive'[e].bs >= 1
         /\ \A e \in Ecus \ {f.to} : receive'[e] = receive[e]
<1> DEFINE e == f.to
           s == receive[e]
<1>1. e \in Ecus /\ f.of \in Segments /\ f.kind \in {"SF", "FF", "CF"}
  BY DEF DataFrame
<1>2. /\ receive \in [Ecus -> ReceiveState] /\ back \in Seq(Control)
      /\ delivered \in Seq(Seq(Segments)) /\ s \in ReceiveState
  BY <1>1, Types DEF Base
<1>3. \A g \in Ecus : receive[g].status = "inprogress" => receive[g].bs >= 1
  BY DEF Base, Bounds
<1>4. Size(f.of.msg) \in Nat
  <2>1. f.of.msg \in 1 .. Current
    BY <1>1, Types DEF Base, Segments
  <2>2. messages[f.of.msg] \in Message
    BY <2>1, Types DEF Base
  <2>. QED
    BY <2>2, Constants DEF Message, Size
<1>5. /\ Idle(s) \in ReceiveState /\ Idle(s).status = "idle"
  BY <1>2, IdleIs
<1> HIDE DEF e, s
<1>6. ASSUME NEW t \in ReceiveState, t.status = "inprogress" => t.bs >= 1,
             receive' = [receive EXCEPT ![e] = t]
      PROVE  /\ receive' \in [Ecus -> ReceiveState]
             /\ \A g \in Ecus : receive'[g].status = "inprogress" => receive'[g].bs >= 1
             /\ \A g \in Ecus \ {e} : receive'[g] = receive[g]
  BY <1>1, <1>2, <1>3, <1>6
<1>7. CASE f.kind = "SF"
  <2>1. /\ receive' = [receive EXCEPT ![e] = Idle(s)] /\ back' = back
        /\ delivered' = Append(delivered, <<f.of>>)
    BY <1>7 DEF Takes, OnSingleFrame, e, s
  <2>2. <<f.of>> \in Seq(Segments)
    BY <1>1
  <2>3. delivered' \in Seq(Seq(Segments))
    BY <1>2, <2>1, <2>2, AppendedIs
  <2>. QED
    BY <1>2, <1>5, <1>6, <2>1, <2>3 DEF e
<1>8. CASE f.kind = "FF"
  <2> DEFINE t == [status |-> "inprogress", sn |-> 1, bs |-> BlockSize,
                   size |-> Size(f.of.msg), segs |-> <<f.of>>]
  <2>1. /\ delivered' = delivered
        /\ \/ receive' = [receive EXCEPT ![e] = Idle(s)] /\ SendFlowControl(e, "overflow")
           \/ receive' = [receive EXCEPT ![e] = t] /\ SendFlowControl(e, "continue")
    BY <1>8 DEF Takes, OnFirstFrame, e, s
  <2>2. t \in ReceiveState /\ t.bs >= 1
    BY <1>1, <1>4, Constants DEF ReceiveState
  <2>3. back' \in Seq(Control)
    BY <1>1, <2>1, ControlIs DEF Base
  <2> HIDE DEF t
  <2>. QED
    BY <1>2, <1>5, <1>6, <2>1, <2>2, <2>3 DEF e
<1>9. CASE f.kind = "CF"
  <2> DEFINE got == Taken(s, f)
             next == Onward(s, f)
  <2>1. \/ receive' = receive /\ delivered' = delivered /\ back' = back
        \/ receive' = [receive EXCEPT ![e] = Idle(s)] /\ delivered' = delivered /\ back' = back
        \/ /\ receive' = [receive EXCEPT ![e] = Idle(got)]
           /\ delivered' = Append(delivered, got.segs) /\ back' = back
        \/ /\ s.status = "inprogress" /\ receive' = [receive EXCEPT ![e] = next]
           /\ back' = back \/ SendFlowControl(e, "continue")
           /\ delivered' = delivered
    <3>1. OnConsecutiveFrame(e, f)
      BY <1>9, Zenon DEF Takes, e
    <3>. QED
      BY <3>1, ConsecutiveIs, Zenon DEF s
  <2>2. got \in ReceiveState /\ got.bs = s.bs
    BY <1>1, <1>2, GotIs
  <2>3. Idle(got) \in ReceiveState /\ Idle(got).status = "idle"
    BY <2>2, IdleIs
  <2> HIDE DEF got
  <2>4. s.status = "inprogress" => next \in ReceiveState /\ next.bs >= 1
    <3> SUFFICES ASSUME s.status = "inprogress" PROVE next \in ReceiveState /\ next.bs >= 1
      OBVIOUS
    <3> DEFINE bs == IF s.bs = 1 THEN BlockSize ELSE got.bs - 1
    <3>1. s.bs \in 0 .. BlockSize /\ s.bs >= 1
      BY <1>1, <1>2, <1>3 DEF ReceiveState, s
    <3>2. bs \in 0 .. BlockSize /\ bs >= 1
      BY <2>2, <3>1, Constants
    <3>3. next = [got EXCEPT !.bs = bs]
      BY DEF Onward, got
    <3> HIDE DEF next, bs
    <3>. QED
      BY <2>2, <3>2, <3>3 DEF ReceiveState
  <2>5. got.segs \in Seq(Segments)
    BY <2>2 DEF ReceiveState
  <2>6. Append(delivered, got.segs) \in Seq(Seq(Segments))
    BY <1>2, <2>5, AppendedIs
  <2>7. back' \in Seq(Control)
    BY <1>1, <1>2, <2>1, ControlIs DEF Base
  <2> HIDE DEF next
  <2>8. CASE receive' = receive /\ delivered' = delivered
    BY <1>2, <1>3, <2>7, <2>8
  <2>9. CASE receive' = [receive EXCEPT ![e] = Idle(s)] /\ delivered' = delivered
    BY <1>2, <1>5, <1>6, <2>7, <2>9 DEF e
  <2>10. CASE /\ receive' = [receive EXCEPT ![e] = Idle(got)]
              /\ delivered' = Append(delivered, got.segs)
    BY <1>6, <2>3, <2>6, <2>7, <2>10 DEF e
  <2>11. CASE /\ s.status = "inprogress" /\ receive' = [receive EXCEPT ![e] = next]
              /\ delivered' = delivered
    BY <1>2, <1>6, <2>4, <2>7, <2>11 DEF e
  <2>. QED
    BY <2>1, <2>8, <2>9, <2>10, <2>11
<1>. QED
  BY <1>1, <1>7, <1>8, <1>9

(* The bus after its first frame has been taken or lost.                   *)
LEMMA BusTail ==
  ASSUME Base, bus # <<>>, bus' = Tail(bus)
  PROVE  /\ bus' \in Seq(DataFrame) /\ Len(bus') = Len(bus) - 1 /\ Len(bus) \in Nat /\ Len(bus) >= 1
         /\ \A i \in 1 .. Len(bus') : i + 1 \in 1 .. Len(bus) /\ bus'[i] = bus[i + 1]
         /\ Head(bus) = bus[1] /\ Head(bus) \in DataFrame
         /\ Head(bus).of.msg <= Current /\ Head(bus).of.msg \in 1 .. Current
         /\ \A i \in 1 .. Len(bus') : bus'[i].of.msg <= Current
<1>1. bus \in Seq(DataFrame) /\ Len(bus) \in Nat /\ Current \in Nat
  BY Types DEF Base
<1>2. /\ bus' \in Seq(DataFrame) /\ Len(bus') = Len(bus) - 1 /\ Len(bus) >= 1
      /\ \A i \in 1 .. Len(bus) - 1 : bus'[i] = bus[i + 1]
      /\ Head(bus) = bus[1] /\ Head(bus) \in DataFrame
  BY <1>1, TailIs
<1>3. \A i \in 1 .. Len(bus') : i + 1 \in 1 .. Len(bus) /\ bus'[i] = bus[i + 1]
  BY <1>1, <1>2
<1>4. \A i \in 1 .. Len(bus) : bus[i].of.msg <= Current
  BY DEF Base, Bounds
<1>5. 1 \in 1 .. Len(bus) /\ Head(bus).of.msg \in Nat \ {0}
  BY <1>1, <1>2 DEF DataFrame, Segments
<1>6. Head(bus).of.msg <= Current /\ Head(bus).of.msg \in 1 .. Current
  BY <1>1, <1>2, <1>4, <1>5
<1>. QED
  BY <1>1, <1>2, <1>3, <1>4, <1>6

LEMMA ReceiveFrameIs ==
  ASSUME Base, ReceiveFrame
  PROVE  /\ Base' /\ bus # <<>> /\ bus' = Tail(bus) /\ Takes(Head(bus).to, Head(bus))
         /\ UNCHANGED <<messages, send, responseId>>
         /\ \A e \in Ecus \ {Head(bus).to} : receive'[e] = receive[e]
<1>1. /\ bus # <<>> /\ bus' = Tail(bus) /\ Takes(Head(bus).to, Head(bus))
      /\ UNCHANGED <<messages, send, responseId>>
  BY DEF ReceiveFrame, Takes
<1>2. /\ bus' \in Seq(DataFrame) /\ Head(bus) \in DataFrame /\ Head(bus).of.msg <= Current
      /\ \A i \in 1 .. Len(bus') : bus'[i].of.msg <= Current
  BY <1>1, BusTail
<1>3. /\ receive' \in [Ecus -> ReceiveState] /\ back' \in Seq(Control)
      /\ delivered' \in Seq(Seq(Segments))
      /\ \A e \in Ecus : receive'[e].status = "inprogress" => receive'[e].bs >= 1
      /\ \A e \in Ecus \ {Head(bus).to} : receive'[e] = receive[e]
  BY <1>1, <1>2, TakesIs
<1>4. TypeOK'
  BY <1>1, <1>2, <1>3, Types, Typed DEF Base
<1>5. Bounds'
  BY <1>1, <1>2, <1>3 DEF Base, Bounds, Sending, Current
<1>. QED
  BY <1>1, <1>3, <1>4, <1>5 DEF Base

LEMMA CrTimeoutIs ==
  ASSUME Base, NEW e \in Ecus, CrTimeout(e)
  PROVE  /\ Base' /\ UNCHANGED <<messages, send, responseId, bus, back, delivered>>
         /\ receive'[e].status = "idle" /\ \A g \in Ecus \ {e} : receive'[g] = receive[g]
<1>1. /\ receive' = [receive EXCEPT ![e] = Idle(receive[e])]
      /\ UNCHANGED <<messages, send, responseId, bus, back, delivered>>
  BY DEF CrTimeout
<1>2. receive \in [Ecus -> ReceiveState]
  BY Types DEF Base
<1>3. Idle(receive[e]) \in ReceiveState /\ Idle(receive[e]).status = "idle"
  BY <1>2, IdleIs
<1>4. /\ receive' \in [Ecus -> ReceiveState] /\ receive'[e].status = "idle"
      /\ \A g \in Ecus \ {e} : receive'[g] = receive[g]
  BY <1>1, <1>2, <1>3
<1>5. TypeOK'
  BY <1>1, <1>4, Types, Typed DEF Base
<1>6. Bounds'
  BY <1>1, <1>4 DEF Base, Bounds, Sending, Current
<1>. QED
  BY <1>1, <1>4, <1>5, <1>6 DEF Base

LEMMA AskToWaitIs ==
  ASSUME Base, NEW e \in Ecus, AskToWait(e)
  PROVE  /\ Base' /\ receive[e].status = "inprogress"
         /\ Len(back') = Len(back) + 1 /\ \A i \in 1 .. Len(back) : back'[i] = back[i]
         /\ back'[Len(back) + 1] = [from |-> e, fs |-> "wait"]
         /\ UNCHANGED <<messages, send, responseId, receive, bus, delivered>>
<1>1. /\ receive[e].status = "inprogress" /\ SendFlowControl(e, "wait")
      /\ UNCHANGED <<messages, send, responseId, receive, bus, delivered>>
  BY DEF AskToWait
<1>2. /\ back' \in Seq(Control) /\ Len(back') = Len(back) + 1
      /\ \A i \in 1 .. Len(back) : back'[i] = back[i]
      /\ back'[Len(back) + 1] = [from |-> e, fs |-> "wait"]
  BY <1>1, ControlIs DEF Base
<1>3. TypeOK'
  BY <1>1, <1>2, Types, Typed DEF Base
<1>4. Bounds'
  BY <1>1 DEF Base, Bounds, Sending, Current
<1>. QED
  BY <1>1, <1>2, <1>3, <1>4 DEF Base

(* A frame is lost at the end from which the other side takes it, or the   *)
(* user listens to another ECU.                                            *)
LEMMA LostIs ==
  ASSUME Base, UNCHANGED <<messages, send, receive, delivered>>, responseId' \in Ecus,
         \/ bus # <<>> /\ bus' = Tail(bus) /\ back' = back
         \/ back # <<>> /\ back' = Tail(back) /\ bus' = bus
         \/ bus' = bus /\ back' = back
  PROVE  Base'
<1>1. /\ bus' \in Seq(DataFrame) /\ \A i \in 1 .. Len(bus') : bus'[i].of.msg <= Current
  <2>1. CASE bus # <<>> /\ bus' = Tail(bus)
    BY <2>1, BusTail
  <2>2. CASE bus' = bus
    BY <2>2, Types DEF Base, Bounds
  <2>. QED
    BY <2>1, <2>2
<1>2. back' \in Seq(Control)
  <2>1. CASE back # <<>> /\ back' = Tail(back)
    BY <2>1, TailIs, Types DEF Base
  <2>2. CASE back' = back
    BY <2>2, Types DEF Base
  <2>. QED
    BY <2>1, <2>2
<1>3. TypeOK'
  BY <1>1, <1>2, Types, Typed DEF Base
<1>4. Bounds'
  BY <1>1 DEF Base, Bounds, Sending, Current
<1>. QED
  BY <1>3, <1>4 DEF Base

-----------------------------------------------------------------------------
LEMMA BaseInit == Init => Base
<1> SUFFICES ASSUME Init PROVE Base
  OBVIOUS
<1>1. /\ messages = <<>> /\ responseId = DefaultEcu /\ bus = <<>> /\ back = <<>> /\ delivered = <<>>
      /\ send = [status |-> "idle", offset |-> 0, sn |-> 0, bs |-> 0, wft |-> 0, overdue |-> FALSE]
      /\ receive = [e \in Ecus |-> [status |-> "idle", sn |-> 0, bs |-> 0, size |-> 0,
                                    segs |-> <<>>]]
  BY DEF Init
<1>2. 0 \in 0 .. BlockSize /\ 0 \in 0 .. MaxWft + 1 /\ 0 \in 0 .. Sns - 1 /\ 0 \in Nat
      /\ 0 <= MaxMessages
  BY Constants
<1>3. send \in SendState /\ ~Sending
  BY <1>1, <1>2 DEF SendState, Sending
<1>4. [status |-> "idle", sn |-> 0, bs |-> 0, size |-> 0, segs |-> <<>>] \in ReceiveState
  BY <1>2 DEF ReceiveState
<1>5. receive \in [Ecus -> ReceiveState] /\ \A e \in Ecus : receive[e].status = "idle"
  BY <1>1, <1>4
<1>6. /\ messages \in Seq(Message) /\ bus \in Seq(DataFrame) /\ back \in Seq(Control)
      /\ delivered \in Seq(Seq(Segments)) /\ Current = 0 /\ Len(bus) = 0
  BY <1>1 DEF Current
<1>7. TypeOK
  BY <1>1, <1>3, <1>5, <1>6, Constants
  DEF TypeOK, Message, SendState, ReceiveState, DataFrame, Control
<1>8. Bounds
  BY <1>2, <1>3, <1>5, <1>6 DEF Bounds
<1>. QED
  BY <1>7, <1>8 DEF Base

-----------------------------------------------------------------------------
(* Sequence numbers count modulo Sns, which tells apart what is less than  *)
(* Sns segments away.                                                      *)
LEMMA Above ==
  ASSUME NEW s \in Nat \ {0}, NEW p \in Int, NEW q \in Int, p < q
  PROVE  s * q >= s * p + s
<1>1. s * (q - p - 1) >= 0
  BY q - p - 1 \in Nat, s \in Nat
<1>2. s * (q - p - 1) = s * q - s * p - s
  OBVIOUS
<1>. QED
  BY <1>1, <1>2

LEMMA Unique ==
  ASSUME NEW s \in Nat \ {0}, NEW q \in Int, NEW p \in Int,
         NEW a \in 0 .. s - 1, NEW b \in 0 .. s - 1,
         s * p + a = s * q + b
  PROVE  p = q /\ a = b
<1>1. ~ (p < q)
  <2> SUFFICES ASSUME p < q PROVE FALSE
    OBVIOUS
  <2>1. s * q >= s * p + s
    BY Above
  <2>. QED
    BY <2>1
<1>2. ~ (q < p)
  <2> SUFFICES ASSUME q < p PROVE FALSE
    OBVIOUS
  <2>1. s * p >= s * q + s
    BY Above
  <2>. QED
    BY <2>1
<1>. QED
  BY <1>1, <1>2

LEMMA Division ==
  ASSUME NEW s \in Nat \ {0}, NEW n \in Nat
  PROVE  \E p \in Int, m \in 0 .. s - 1 : m = n % s /\ n = s * p + m
<1>1. n \div s \in Int /\ n % s \in 0 .. s - 1
  OBVIOUS
<1>2. n % s = n - s * (n \div s)
  BY <1>1
<1> DEFINE p == n \div s
           m == n % s
           x == s * p
<1>3. p \in Int /\ m \in 0 .. s - 1 /\ m = n - x /\ x \in Int
  BY <1>1, <1>2
<1>4. n = x + m
  <2> HIDE DEF p, m, x
  <2>. QED
    BY <1>3
<1>5. m = n % s /\ n = s * p + m
  BY <1>4
<1> HIDE DEF p, m
<1>. QED
  BY <1>3, <1>5

LEMMA ModWindow ==
  ASSUME NEW s \in Nat \ {0}, NEW a \in Nat, NEW b \in Nat, a <= b, b < a + s, a % s = b % s
  PROVE  a = b
<1>1. PICK p \in Int, m \in 0 .. s - 1 : m = a % s /\ a = s * p + m
  BY Division
<1>2. PICK q \in Int, l \in 0 .. s - 1 : l = b % s /\ b = s * q + l
  BY Division
<1>3. m = l
  BY <1>1, <1>2
<1> DEFINE x == s * p
           y == s * q
<1>4. x \in Int /\ y \in Int /\ a = x + m /\ b = y + m
  BY <1>1, <1>2, <1>3
<1>5. b - a \in 0 .. s - 1 /\ 0 \in 0 .. s - 1
  OBVIOUS
<1>6. s * p + (b - a) = s * q + 0
  <2> HIDE DEF x, y
  <2>1. x + (b - a) = y + 0
    BY <1>4
  <2>. QED
    BY <2>1 DEF x, y
<1>7. b - a = 0
  BY <1>5, <1>6, Unique
<1>. QED
  BY <1>7

LEMMA ModStep ==
  ASSUME NEW s \in Nat \ {0}, s > 1, NEW n \in Nat
  PROVE  ((n % s) + 1) % s = (n + 1) % s
<1>1. PICK p \in Int, m \in 0 .. s - 1 : m = n % s /\ n = s * p + m
  BY Division
<1>2. PICK q \in Int, l \in 0 .. s - 1 : l = (n + 1) % s /\ n + 1 = s * q + l
  BY Division
<1>3. PICK r \in Int, k \in 0 .. s - 1 : k = (m + 1) % s /\ m + 1 = s * r + k
  <2>1. m + 1 \in Nat
    BY <1>1
  <2>. QED
    BY <2>1, Division
<1>4. s * (p + r) + k = s * q + l
  <2> DEFINE x == s * p
             y == s * q
             z == s * r
  <2>1. x \in Int /\ y \in Int /\ z \in Int
    OBVIOUS
  <2>2. n = x + m /\ n + 1 = y + l /\ m + 1 = z + k
    BY <1>1, <1>2, <1>3
  <2>3. s * (p + r) = x + z
    OBVIOUS
  <2> HIDE DEF x, y, z
  <2>4. x + z + k = y + l
    BY <2>1, <2>2
  <2>. QED
    BY <2>3, <2>4 DEF y
<1>5. p + r \in Int
  OBVIOUS
<1>6. k = l
  BY <1>4, <1>5, Unique
<1>. QED
  BY <1>1, <1>2, <1>3, <1>6

-----------------------------------------------------------------------------
(* What the two links agree on as long as all that is sent goes to the     *)
(* link's own id and no ECU has asked to wait too often.                   *)
Regular == \A m \in 1 .. Current : messages[m].to = DefaultEcu /\ ~messages[m].overrun

ecu == receive[DefaultEcu]
Busy == ecu.status = "inprogress"
Got == Len(ecu.segs)
Taking == ecu.segs[1].msg     \* the message it puts together
Permitted == Got + ecu.bs     \* the segment up to which it lets the sender go on
Partial(m, k) == [i \in 1 .. k |-> [msg |-> m, seg |-> i]]

(* A frame of the bus carries the segment that its sequence number says.   *)
Genuine(f) ==
  /\ f.to = DefaultEcu
  /\ f.kind = "SF" => f.of.seg = 1 /\ Size(f.of.msg) = 1
  /\ f.kind = "FF" => f.of.seg = 1 /\ Size(f.of.msg) > 1
  /\ f.kind = "CF" => /\ 2 <= f.of.seg /\ f.of.seg <= Size(f.of.msg)
                      /\ f.sn = (f.of.seg - 1) % Sns

Before(f, g) ==
  \/ f.of.msg < g.of.msg /\ g.kind # "CF"
  \/ /\ f.of.msg = g.of.msg /\ f.kind = "CF" /\ g.kind = "CF"
     /\ f.of.seg < g.of.seg

(* Frames are on the bus in the order they were sent in, and no segments   *)
(* are before the ECU has let the sender go on: a first frame is the last. *)
Bus ==
  /\ \A i \in 1 .. Len(bus) : Genuine(bus[i])
  /\ \A i, j \in 1 .. Len(bus) : i < j => Before(bus[i], bus[j])
  /\ \A i \in 1 .. Len(bus) : bus[i].kind = "FF" =>
       Sending /\ bus[i].of.msg = Current /\ send.offset = 1 /\ send.bs = 0

(* The ECU has a beginning of one message.                                 *)
Receiver ==
  /\ \A e \in Ecus \ {DefaultEcu} : receive[e].status = "idle"
  /\ Busy => /\ 1 <= Got /\ Got < Size(Taking) /\ Taking \in 1 .. Current
             /\ ecu.segs = Partial(Taking, Got) /\ ecu.size = Size(Taking)
             /\ ecu.sn = Got % Sns

(* The segments on the bus are those that the ECU has let pass and not yet *)
(* got, all of its message; the last of them are its last, or the sender   *)
(* is still at it.                                                         *)
Window ==
  \A i \in 1 .. Len(bus) :
    Busy /\ bus[i].kind = "CF" =>
      /\ bus[i].of.msg = Taking /\ Got < bus[i].of.seg /\ bus[i].of.seg <= Permitted
      /\ (Sending /\ Taking = Current) \/ Size(Taking) <= Permitted

Sender ==
  Sending =>
    /\ 1 <= send.offset /\ send.offset < Size(Current) /\ send.sn = send.offset % Sns
    /\ \A i \in 1 .. Len(bus) : bus[i].of.msg = Current => bus[i].of.seg <= send.offset
    /\ Busy /\ Taking = Current => Got <= send.offset /\ send.offset + send.bs <= Permitted
    /\ send.bs > 0 => /\ \A i \in 1 .. Len(bus) : bus[i].kind = "CF" /\ bus[i].of.msg = Current
                      /\ Busy => Taking = Current
                      /\ ~send.overdue
    /\ send.overdue => bus = <<>>

(* An answer to the sender is the only one, and nothing else is under way. *)
Answers ==
  /\ \A i \in 1 .. Len(back) : back[i].from = DefaultEcu
  /\ \A i \in 1 .. Len(back) : back[i].fs # "wait" =>
       /\ Sending /\ ~send.overdue /\ send.bs = 0 /\ bus = <<>>
       /\ \A j \in 1 .. Len(back) : j # i => back[j].fs = "wait"
       /\ Busy /\ back[i].fs = "continue" =>
            Taking = Current /\ send.offset = Got /\ ecu.bs = BlockSize

AllWhole == \A i \in 1 .. Len(delivered) : Whole(delivered[i])

Agreed == Bus /\ Receiver /\ Window /\ Sender /\ Answers /\ AllWhole

IInv == Base /\ (Regular => Agreed)

LEMMA Numbers ==
  ASSUME Base
  PROVE  /\ ecu \in ReceiveState /\ Got \in Nat /\ ecu.bs \in 0 .. BlockSize /\ Permitted \in Nat
         /\ (Busy => ecu.bs >= 1) /\ ecu.sn \in Nat
         /\ send.offset \in Nat /\ send.bs \in 0 .. BlockSize /\ send.sn \in Nat
         /\ Current \in Nat /\ Len(bus) \in Nat /\ Len(back) \in Nat /\ Len(delivered) \in Nat
         /\ \A m \in 1 .. Current : Size(m) \in Nat /\ Size(m) >= 1
         /\ \A i \in 1 .. Len(bus) : /\ bus[i].of \in Segments /\ bus[i].kind \in {"SF", "FF", "CF"}
                                     /\ bus[i].of.msg \in 1 .. Current /\ bus[i].of.seg \in Nat
<1>1. ecu \in ReceiveState
  BY Types, Constants DEF Base, ecu
<1>2. ecu.segs \in Seq(Segments) /\ ecu.bs \in 0 .. BlockSize /\ ecu.sn \in Nat
  BY <1>1 DEF ReceiveState
<1>3. Got \in Nat /\ Permitted \in Nat
  <2>1. Got \in Nat
    BY <1>2, LenProperties DEF Got
  <2>2. ecu.bs \in Nat
    BY <1>2
  <2>. QED
    BY <2>1, <2>2 DEF Permitted
<1>4. Busy => ecu.bs >= 1
  BY Constants DEF Base, Bounds, Busy, ecu
<1>5. send.offset \in Nat /\ send.bs \in 0 .. BlockSize /\ send.sn \in Nat
  BY Types DEF Base, SendState
<1>6. Current \in Nat /\ Len(bus) \in Nat /\ Len(back) \in Nat /\ Len(delivered) \in Nat
  BY Types, LenProperties DEF Base
<1>7. ASSUME NEW m \in 1 .. Current PROVE Size(m) \in Nat /\ Size(m) >= 1
  <2>1. messages[m] \in Message
    BY Types DEF Base
  <2>2. Size(m) \in Nat \ {0}
    BY <2>1, Constants DEF Message, Size
  <2>. QED
    BY <2>2
<1>8. ASSUME NEW i \in 1 .. Len(bus)
      PROVE  /\ bus[i].of \in Segments /\ bus[i].kind \in {"SF", "FF", "CF"}
             /\ bus[i].of.msg \in 1 .. Current /\ bus[i].of.seg \in Nat
  <2>1. bus[i] \in DataFrame /\ bus[i].of.msg <= Current
    BY Types DEF Base, Bounds
  <2>. QED
    BY <1>6, <2>1 DEF DataFrame, Segments
<1>. QED
  BY <1>1, <1>2, <1>3, <1>4, <1>5, <1>6, <1>7, <1>8

(* Before a step messages were regular if they are after it.               *)
LEMMA StillRegular ==
  ASSUME Base, Regular', Current' >= Current, Current' \in Nat,
         \A m \in 1 .. Current : /\ messages'[m].to = messages[m].to
                                 /\ messages[m].overrun => messages'[m].overrun
  PROVE  Regular
<1>1. \A m \in 1 .. Current : m \in 1 .. Current'
  BY Numbers
<1>. QED
  BY <1>1 DEF Regular

LEMMA SameEcu ==
  ASSUME receive'[DefaultEcu] = receive[DefaultEcu]
  PROVE  ecu' = ecu /\ Busy' = Busy /\ Got' = Got /\ Taking' = Taking /\ Permitted' = Permitted
BY DEF ecu, Busy, Got, Taking, Permitted

LEMMA SameSender ==
  ASSUME send' = send, messages' = messages
  PROVE  /\ Sending' = Sending /\ Current' = Current /\ \A m : Size(m)' = Size(m)
         /\ Regular' = Regular
BY DEF Sending, Current, Size, Regular

(* A message stays whole while others are sent.                            *)
LEMMA StillWhole ==
  ASSUME Base, AllWhole, delivered' = delivered, Current' \in Nat, Current' >= Current,
         \A m \in 1 .. Current : messages'[m].size = messages[m].size
  PROVE  AllWhole'
<1> SUFFICES ASSUME NEW i \in 1 .. Len(delivered) PROVE Whole(delivered[i])'
  BY DEF AllWhole
<1>1. PICK m \in 1 .. Current : delivered[i] = [k \in 1 .. Size(m) |-> [msg |-> m, seg |-> k]]
  BY DEF AllWhole, Whole
<1>2. m \in 1 .. Current' /\ Size(m)' = Size(m)
  BY Numbers DEF Size
<1>. QED
  BY <1>1, <1>2 DEF Whole

LEMMA SendAgreed ==
  ASSUME Base, Agreed, Regular', NEW e \in Ecus, NEW size \in Lengths, Send(e, size)
  PROVE  Agreed'
<1>1. /\ ~Sending /\ Current' = Current + 1
      /\ \A m \in 1 .. Current : messages'[m] = messages[m]
      /\ messages'[Current'] = [to |-> e, size |-> size, overrun |-> FALSE]
      /\ Len(bus') = Len(bus) + 1
      /\ \A i \in 1 .. Len(bus) : bus'[i] = bus[i]
      /\ bus'[Len(bus) + 1] = Frame(e, IF size = 1 THEN "SF" ELSE "FF", Current', 1, 0)
      /\ size = 1 => send' = send
      /\ size # 1 => /\ Sending' /\ send'.offset = 1 /\ send'.sn = 1 /\ send'.bs = 0
                     /\ send'.overdue = FALSE
      /\ UNCHANGED <<responseId, receive, back, delivered>>
  BY SendIs
<1>2. /\ Got \in Nat /\ Permitted \in Nat /\ Current \in Nat /\ Len(bus) \in Nat
      /\ \A i \in 1 .. Len(bus) : /\ bus[i].of \in Segments /\ bus[i].kind \in {"SF", "FF", "CF"}
                                  /\ bus[i].of.msg \in 1 .. Current /\ bus[i].of.seg \in Nat
      /\ size \in Nat /\ size >= 1
  BY Numbers, Constants
<1>3. /\ Busy' = Busy /\ ecu' = ecu /\ Got' = Got /\ Taking' = Taking /\ Permitted' = Permitted
  BY <1>1, SameEcu
<1>4. /\ \A m \in 1 .. Current : messages'[m].size = Size(m)
      /\ messages'[Current'].size = size /\ e = DefaultEcu
  <2>1. messages'[Current'].to = e /\ messages'[Current'].size = size
    BY <1>1
  <2>2. Current' \in 1 .. Current'
    BY <1>1, <1>2
  <2>. QED
    BY <1>1, <2>1, <2>2 DEF Regular, Size
<1> DEFINE n == Len(bus) + 1
           new == bus'[n]
<1>5. /\ new.to = DefaultEcu /\ new.of.msg = Current' /\ new.of.seg = 1 /\ new.kind # "CF"
      /\ (new.kind = "SF" => size = 1) /\ (new.kind = "FF" => size > 1)
  BY <1>1, <1>2, <1>4 DEF Frame
<1>6. ~Sending /\ Sending' <=> size # 1
  BY <1>1 DEF Sending
<1>7. \A i \in 1 .. Len(bus') : i = n \/ i \in 1 .. Len(bus)
  BY <1>1, <1>2
<1> HIDE DEF new
<1>8. Bus'
  <2>1. ASSUME NEW i \in 1 .. Len(bus') PROVE Genuine(bus[i])'
    <3>1. CASE i = n
      BY <1>4, <1>5, <3>1 DEF Genuine, Size, new
    <3>2. CASE i \in 1 .. Len(bus)
      <4>1. Genuine(bus[i]) /\ bus[i].of.msg \in 1 .. Current /\ bus'[i] = bus[i]
        BY <1>1, <1>2, <3>2 DEF Agreed, Bus
      <4>2. messages'[bus[i].of.msg].size = Size(bus[i].of.msg)
        BY <1>4, <4>1
      <4>. QED
        BY <4>1, <4>2 DEF Genuine, Size
    <3>. QED
      BY <1>7, <3>1, <3>2
  <2>2. ASSUME NEW i \in 1 .. Len(bus'), NEW j \in 1 .. Len(bus'), i < j
        PROVE  Before(bus[i], bus[j])'
    <3>1. i \in 1 .. Len(bus)
      BY <1>1, <1>2, <2>2
    <3>2. CASE j = n
      BY <1>1, <1>2, <1>5, <3>1, <3>2 DEF Before, new
    <3>3. CASE j \in 1 .. Len(bus)
      BY <1>1, <2>2, <3>1, <3>3 DEF Before, Agreed, Bus
    <3>. QED
      BY <1>7, <3>2, <3>3
  <2>3. ASSUME NEW i \in 1 .. Len(bus'), bus'[i].kind = "FF"
        PROVE  Sending' /\ bus'[i].of.msg = Current' /\ send'.offset = 1 /\ send'.bs = 0
    <3>1. CASE i = n
      BY <1>1, <1>5, <2>3, <3>1 DEF new
    <3>2. CASE i \in 1 .. Len(bus)
      BY <1>1, <2>3, <3>2 DEF Agreed, Bus
    <3>. QED
      BY <1>7, <3>1, <3>2
  <2>. QED
    BY <2>1, <2>2, <2>3 DEF Bus
<1>9. Receiver'
  <2>1. Receiver
    BY DEF Agreed
  <2>2. Taking \in 1 .. Current =>
          Taking \in 1 .. Current' /\ messages'[Taking].size = Size(Taking)
    BY <1>1, <1>2, <1>4
  <2>. QED
    BY <1>1, <1>3, <2>1, <2>2 DEF Receiver, Partial, Size
<1>10. Window'
  <2> SUFFICES ASSUME NEW i \in 1 .. Len(bus'), Busy, bus'[i].kind = "CF"
               PROVE  /\ bus'[i].of.msg = Taking /\ Got < bus'[i].of.seg
                      /\ bus'[i].of.seg <= Permitted
                      /\ messages'[Taking].size <= Permitted
    BY <1>3 DEF Window, Size
  <2>1. i \in 1 .. Len(bus) /\ bus'[i] = bus[i]
    BY <1>1, <1>5, <1>7 DEF new
  <2>2. /\ bus[i].of.msg = Taking /\ Got < bus[i].of.seg
        /\ bus[i].of.seg <= Permitted /\ Size(Taking) <= Permitted
    BY <1>1, <2>1 DEF Agreed, Window
  <2>3. Taking \in 1 .. Current
    BY <1>2, <2>1, <2>2
  <2>. QED
    BY <1>4, <2>1, <2>2, <2>3
<1>11. Sender'
  <2> SUFFICES ASSUME Sending'
               PROVE  /\ 1 <= send'.offset /\ send'.offset < messages'[Current'].size
                      /\ send'.sn = send'.offset % Sns
                      /\ \A i \in 1 .. Len(bus') : bus'[i].of.msg = Current' =>
                           bus'[i].of.seg <= send'.offset
                      /\ ~(Busy /\ Taking = Current') /\ ~(send'.bs > 0) /\ ~send'.overdue
    BY <1>3 DEF Sender, Size
  <2>1. /\ send'.offset = 1 /\ send'.sn = 1 /\ send'.bs = 0 /\ send'.overdue = FALSE /\ size # 1
    BY <1>1 DEF Sending
  <2>2. 1 % Sns = 1
    BY OneOfSns
  <2>3. \A i \in 1 .. Len(bus') : bus'[i].of.msg = Current' => bus'[i].of.seg <= 1
    BY <1>1, <1>2, <1>5, <1>7 DEF new
  <2>4. ~(Busy /\ Taking = Current')
    BY <1>1, <1>2 DEF Agreed, Receiver
  <2>. QED
    BY <1>2, <1>4, <2>1, <2>2, <2>3, <2>4
<1>12. Answers'
  BY <1>1 DEF Agreed, Answers
<1>13. AllWhole'
  BY <1>1, <1>2, StillWhole DEF Agreed
<1>. QED
  BY <1>8, <1>9, <1>10, <1>11, <1>12, <1>13 DEF Agreed

LEMMA PollSendAgreed ==
  ASSUME Base, Agreed, Regular', PollSend
  PROVE  Agreed'
<1>1. /\ Sending /\ send.bs >= 1 /\ Current' = Current
      /\ Len(bus') = Len(bus) + 1
      /\ \A i \in 1 .. Len(bus) : bus'[i] = bus[i]
      /\ bus'[Len(bus) + 1] = Frame(DefaultEcu, "CF", Current, send.offset + 1, send.sn)
      /\ send'.offset = send.offset + 1 /\ send'.sn = (send.sn + 1) % Sns
      /\ send'.bs = send.bs - 1 /\ send'.overdue = send.overdue
      /\ Sending' <=> send.offset + 1 < Size(Current)
      /\ UNCHANGED <<messages, responseId, receive, back, delivered>>
  BY PollSendIs
<1>2. /\ Got \in Nat /\ Permitted \in Nat /\ Current \in Nat /\ Len(bus) \in Nat
      /\ send.offset \in Nat /\ send.bs \in Nat /\ Size(Current) \in Nat
      /\ \A i \in 1 .. Len(bus) : bus[i].of.seg \in Nat
  <2>1. Current \in 1 .. Current
    BY <1>1, Numbers DEF Base, Bounds
  <2>2. send.bs \in Nat
    BY Numbers
  <2>. QED
    BY <2>1, <2>2, Numbers
<1>3. /\ Busy' = Busy /\ ecu' = ecu /\ Got' = Got /\ Taking' = Taking /\ Permitted' = Permitted
      /\ \A m : messages'[m].size = Size(m)
  BY <1>1, SameEcu DEF Size
<1>4. /\ 1 <= send.offset /\ send.offset < Size(Current) /\ send.sn = send.offset % Sns
      /\ \A i \in 1 .. Len(bus) : /\ bus[i].kind = "CF" /\ bus[i].of.msg = Current
                                  /\ bus[i].of.seg <= send.offset
      /\ Busy => Taking = Current /\ Got <= send.offset /\ send.offset + send.bs <= Permitted
      /\ ~send.overdue
  BY <1>1, <1>2 DEF Agreed, Sender
<1> DEFINE n == Len(bus) + 1
           new == bus'[n]
<1>5. /\ new.to = DefaultEcu /\ new.kind = "CF" /\ new.of.msg = Current
      /\ new.of.seg = send.offset + 1 /\ new.sn = send.sn
  BY <1>1 DEF Frame
<1>6. \A i \in 1 .. Len(bus') : i = n \/ i \in 1 .. Len(bus)
  BY <1>1, <1>2
<1>7. \A i \in 1 .. Len(bus') : bus'[i].kind = "CF" /\ bus'[i].of.msg = Current
  BY <1>1, <1>4, <1>5, <1>6
<1> HIDE DEF new
<1>8. Bus'
  <2>1. ASSUME NEW i \in 1 .. Len(bus') PROVE Genuine(bus[i])'
    <3>1. CASE i = n
      <4>1. new.of.seg - 1 = send.offset
        BY <1>2, <1>5
      <4>2. new.sn = (new.of.seg - 1) % Sns
        BY <1>4, <1>5, <4>1, Zenon
      <4>3. 2 <= new.of.seg /\ new.of.seg <= Size(new.of.msg)
        BY <1>2, <1>4, <1>5
      <4>. QED
        BY <1>3, <1>5, <3>1, <4>2, <4>3 DEF Genuine, Size, new
    <3>2. CASE i \in 1 .. Len(bus)
      <4>1. Genuine(bus[i]) /\ bus'[i] = bus[i]
        BY <1>1, <3>2 DEF Agreed, Bus
      <4>. QED
        BY <1>3, <4>1 DEF Genuine, Size
    <3>. QED
      BY <1>6, <3>1, <3>2
  <2>2. ASSUME NEW i \in 1 .. Len(bus'), NEW j \in 1 .. Len(bus'), i < j
        PROVE  Before(bus[i], bus[j])'
    <3>1. i \in 1 .. Len(bus)
      BY <1>1, <1>2, <2>2
    <3>2. CASE j = n
      BY <1>1, <1>2, <1>4, <1>5, <3>1, <3>2 DEF Before, new
    <3>3. CASE j \in 1 .. Len(bus)
      BY <1>1, <2>2, <3>1, <3>3 DEF Before, Agreed, Bus
    <3>. QED
      BY <1>6, <3>2, <3>3
  <2>3. \A i \in 1 .. Len(bus') : bus'[i].kind # "FF"
    BY <1>7
  <2>. QED
    BY <2>1, <2>2, <2>3 DEF Bus
<1>9. Receiver'
  BY <1>1, <1>3 DEF Agreed, Receiver, Partial, Size
<1>10. Window'
  <2> SUFFICES ASSUME NEW i \in 1 .. Len(bus'), Busy
               PROVE  /\ bus'[i].of.msg = Taking /\ Got < bus'[i].of.seg
                      /\ bus'[i].of.seg <= Permitted
                      /\ (Sending' /\ Taking = Current) \/ Size(Taking) <= Permitted
    BY <1>1, <1>3 DEF Window, Size
  <2>1. Taking = Current /\ Got <= send.offset /\ send.offset + send.bs <= Permitted
    BY <1>4
  <2>2. Sending' \/ Size(Taking) <= Permitted
    BY <1>1, <1>2, <2>1
  <2>3. CASE i = n
    BY <1>1, <1>2, <1>5, <2>1, <2>2, <2>3 DEF new
  <2>4. CASE i \in 1 .. Len(bus)
    BY <1>1, <1>4, <2>1, <2>2, <2>4 DEF Agreed, Window
  <2>. QED
    BY <1>6, <2>3, <2>4
<1>11. Sender'
  <2>1. send'.sn = send'.offset % Sns
    <3>1. Sns \in Nat \ {0} /\ Sns > 1
      BY Constants
    <3>2. ((send.offset % Sns) + 1) % Sns = (send.offset + 1) % Sns
      BY <1>2, <3>1, ModStep
    <3>. QED
      BY <1>1, <1>4, <3>2, Zenon
  <2>2. /\ 1 <= send'.offset
        /\ Sending' => send'.offset < Size(Current)
        /\ Busy => Got <= send'.offset /\ send'.offset + send'.bs <= Permitted
    BY <1>1, <1>2, <1>4
  <2>3. \A i \in 1 .. Len(bus') : bus'[i].of.seg <= send'.offset
    BY <1>1, <1>2, <1>4, <1>5, <1>6 DEF new
  <2>4. Busy => Taking = Current
    BY <1>4
  <2>5. ~send'.overdue
    BY <1>1, <1>4, Zenon
  <2>6. SUFFICES ASSUME Sending'
        PROVE  /\ 1 <= send'.offset /\ send'.offset < Size(Current)
               /\ send'.sn = send'.offset % Sns
               /\ \A i \in 1 .. Len(bus') : bus'[i].of.seg <= send'.offset
               /\ \A i \in 1 .. Len(bus') : bus'[i].kind = "CF" /\ bus'[i].of.msg = Current
               /\ Busy => Taking = Current /\ Got <= send'.offset
                          /\ send'.offset + send'.bs <= Permitted
               /\ ~send'.overdue
    BY <1>1, <1>3 DEF Sender, Size
  <2>. QED
    BY <1>7, <2>1, <2>2, <2>3, <2>4, <2>5, <2>6
<1>12. Answers'
  <2>1. \A i \in 1 .. Len(back) : back[i].from = DefaultEcu /\ back[i].fs = "wait"
    BY <1>1, <1>2 DEF Agreed, Answers
  <2>. QED
    BY <1>1, <2>1 DEF Answers
<1>13. AllWhole'
  BY <1>1, <1>2, StillWhole DEF Agreed
<1>. QED
  BY <1>8, <1>9, <1>10, <1>11, <1>12, <1>13 DEF Agreed

(* Steps that only change the sender, with nothing on the bus.             *)
LEMMA ElapseAgreed ==
  ASSUME Base, Agreed, Elapse
  PROVE  Agreed'
<1>1. /\ Sending /\ Sending' /\ send.bs = 0 /\ bus = <<>> /\ back = <<>>
      /\ send'.offset = send.offset /\ send'.sn = send.sn /\ send'.bs = send.bs
      /\ UNCHANGED <<messages, responseId, receive, bus, back, delivered>>
  BY ElapseIs
<1>2. /\ Busy' = Busy /\ ecu' = ecu /\ Got' = Got /\ Taking' = Taking /\ Permitted' = Permitted
      /\ (\A m : messages'[m].size = Size(m)) /\ Current' = Current /\ Current \in Nat
  BY <1>1, SameEcu, Numbers DEF Size, Current
<1>3. Len(bus) = 0 /\ Len(back) = 0
  BY <1>1
<1>4. Bus' /\ Window' /\ Answers'
  BY <1>1, <1>3 DEF Bus, Window, Answers
<1>5. Receiver'
  BY <1>1, <1>2 DEF Agreed, Receiver, Partial, Size
<1>6. Sender'
  <2>1. /\ 1 <= send.offset /\ send.offset < Size(Current) /\ send.sn = send.offset % Sns
        /\ Busy /\ Taking = Current => Got <= send.offset /\ send.offset + send.bs <= Permitted
    BY <1>1 DEF Agreed, Sender
  <2>2. ~(send.bs > 0)
    BY <1>1
  <2>. QED
    BY <1>1, <1>2, <1>3, <2>1, <2>2 DEF Sender, Size
<1>7. AllWhole'
  BY <1>1, <1>2, StillWhole DEF Agreed, Size
<1>. QED
  BY <1>4, <1>5, <1>6, <1>7 DEF Agreed

(* The sender stops only where nothing is on the bus.                      *)
LEMMA StopAgreed ==
  ASSUME Base, Agreed, Sending, ~Sending', bus = <<>>, Current' = Current,
         \A m \in 1 .. Current : messages'[m].size = messages[m].size,
         UNCHANGED <<receive, bus, delivered>>,
         \A i \in 1 .. Len(back') : back'[i].from = DefaultEcu /\ back'[i].fs = "wait"
  PROVE  Agreed'
<1>1. /\ Busy' = Busy /\ ecu' = ecu /\ Got' = Got /\ Taking' = Taking /\ Permitted' = Permitted
      /\ (\A m \in 1 .. Current : messages'[m].size = Size(m)) /\ Current \in Nat
  BY SameEcu, Numbers DEF Size
<1>2. Len(bus) = 0
  OBVIOUS
<1>3. Bus' /\ Window' /\ Answers' /\ Sender'
  BY <1>2 DEF Bus, Window, Answers, Sender
<1>4. Receiver'
  BY <1>1 DEF Agreed, Receiver, Partial, Size
<1>5. AllWhole'
  BY <1>1, StillWhole DEF Agreed, Size
<1>. QED
  BY <1>3, <1>4, <1>5 DEF Agreed

LEMMA PollTimeoutAgreed ==
  ASSUME Base, Agreed, PollTimeout
  PROVE  Agreed'
<1>1. /\ Sending /\ send.overdue /\ ~Sending'
      /\ UNCHANGED <<messages, responseId, receive, bus, back, delivered>>
  BY PollTimeoutIs
<1>2. bus = <<>> /\ \A i \in 1 .. Len(back) : back[i].from = DefaultEcu /\ back[i].fs = "wait"
  BY <1>1 DEF Agreed, Sender, Answers
<1>3. Current' = Current
  BY <1>1 DEF Current
<1>. QED
  BY <1>1, <1>2, <1>3, StopAgreed

LEMMA BackTail ==
  ASSUME Base, back # <<>>, back' = Tail(back)
  PROVE  /\ Len(back) \in Nat /\ Len(back) >= 1
         /\ Len(back') = Len(back) - 1 /\ Head(back) = back[1]
         /\ \A i \in 1 .. Len(back') : i + 1 \in 1 .. Len(back) /\ back'[i] = back[i + 1]
<1>1. back \in Seq(Control)
  BY Types DEF Base
<1>2. /\ Len(back) \in Nat /\ Len(back) >= 1 /\ Len(back') = Len(back) - 1 /\ Head(back) = back[1]
      /\ \A i \in 1 .. Len(back) - 1 : back'[i] = back[i + 1]
  BY <1>1, TailIs
<1>. QED
  BY <1>2

(* The answers that are left when one has been taken or lost.              *)
LEMMA AnswersTail ==
  ASSUME Base, Answers, back # <<>>, back' = Tail(back), Current' = Current,
         Sending => /\ Sending' /\ send'.offset = send.offset /\ send'.bs = send.bs
                    /\ ~send.overdue => ~send'.overdue,
         UNCHANGED <<receive, bus>>
  PROVE  Answers'
<1>1. /\ Busy' = Busy /\ ecu' = ecu /\ Got' = Got /\ Taking' = Taking
  BY SameEcu
<1>2. /\ Len(back) \in Nat /\ Len(back') = Len(back) - 1
      /\ \A i \in 1 .. Len(back') : i + 1 \in 1 .. Len(back) /\ back'[i] = back[i + 1]
  BY BackTail
<1>3. SUFFICES ASSUME NEW i \in 1 .. Len(back')
      PROVE  /\ back'[i].from = DefaultEcu
             /\ back'[i].fs # "wait" =>
                  /\ Sending' /\ ~send'.overdue /\ send'.bs = 0 /\ bus = <<>>
                  /\ \A j \in 1 .. Len(back') : j # i => back'[j].fs = "wait"
                  /\ Busy /\ back'[i].fs = "continue" =>
                       Taking = Current /\ send'.offset = Got /\ ecu.bs = BlockSize
  BY <1>1 DEF Answers
<1> DEFINE k == i + 1
<1>4. k \in 1 .. Len(back) /\ back'[i] = back[k]
  BY <1>2
<1>5. \A j \in 1 .. Len(back') : j # i => j + 1 # k
  BY <1>2
<1> HIDE DEF k
<1>6. /\ back[k].from = DefaultEcu
      /\ back[k].fs # "wait" =>
           /\ Sending /\ ~send.overdue /\ send.bs = 0 /\ bus = <<>>
           /\ \A j \in 1 .. Len(back) : j # k => back[j].fs = "wait"
           /\ Busy /\ back[k].fs = "continue" =>
                Taking = Current /\ send.offset = Got /\ ecu.bs = BlockSize
  BY <1>4 DEF Answers
<1>7. back[k].fs # "wait" => \A j \in 1 .. Len(back') : j # i => back'[j].fs = "wait"
  BY <1>2, <1>5, <1>6
<1>. QED
  BY <1>4, <1>6, <1>7

LEMMA ReceiveBackAgreed ==
  ASSUME Base, Agreed, Regular', ReceiveBack
  PROVE  Agreed'
<1> DEFINE fs == Head(back).fs
<1>1. /\ back # <<>> /\ back' = Tail(back) /\ Current' = Current
      /\ UNCHANGED <<responseId, receive, bus, delivered>>
      /\ \A m \in 1 .. Current : messages'[m].size = messages[m].size
      /\ \/ send' = send
         \/ Sending /\ ~Sending' /\ (fs = "overflow" \/ messages'[Current].overrun)
         \/ /\ Sending /\ Sending' /\ fs # "overflow"
            /\ send'.offset = send.offset /\ send'.sn = send.sn /\ send'.overdue = FALSE
            /\ send'.bs = IF fs = "continue" THEN BlockSize ELSE send.bs
  BY ReceiveBackIs
<1>2. /\ Len(back) \in Nat /\ Len(back) >= 1 /\ Len(back') = Len(back) - 1 /\ fs = back[1].fs
      /\ \A i \in 1 .. Len(back') : i + 1 \in 1 .. Len(back) /\ back'[i] = back[i + 1]
  BY <1>1, BackTail
<1> HIDE DEF fs
<1>3. /\ Busy' = Busy /\ ecu' = ecu /\ Got' = Got /\ Taking' = Taking /\ Permitted' = Permitted
      /\ (\A m \in 1 .. Current : messages'[m].size = Size(m)) /\ Current \in Nat
      /\ Len(bus) \in Nat
      /\ \A i \in 1 .. Len(bus) : bus[i].of.msg \in 1 .. Current
  BY <1>1, SameEcu, Numbers DEF Size
<1>4. /\ \A i \in 1 .. Len(back) : back[i].from = DefaultEcu
      /\ \A i \in 1 .. Len(back) : back[i].fs # "wait" =>
           /\ Sending /\ ~send.overdue /\ send.bs = 0 /\ bus = <<>>
           /\ \A j \in 1 .. Len(back) : j # i => back[j].fs = "wait"
           /\ Busy /\ back[i].fs = "continue" =>
                Taking = Current /\ send.offset = Got /\ ecu.bs = BlockSize
  BY DEF Agreed, Answers
<1>5. 1 \in 1 .. Len(back)
  BY <1>2
<1>6. fs # "wait" => /\ Sending /\ bus = <<>> /\ ~send.overdue /\ send.bs = 0
                     /\ \A i \in 1 .. Len(back') : back'[i].fs = "wait"
  BY <1>2, <1>4, <1>5
<1>7. Receiver' /\ AllWhole'
  <2>1. Receiver'
    BY <1>1, <1>3 DEF Agreed, Receiver, Partial, Size
  <2>2. AllWhole'
    BY <1>1, <1>3, StillWhole DEF Agreed
  <2>. QED
    BY <2>1, <2>2
<1>8. ASSUME NEW i \in 1 .. Len(bus) PROVE Genuine(bus[i])'
  <2>1. Genuine(bus[i]) /\ bus'[i] = bus[i] /\ messages'[bus[i].of.msg].size = Size(bus[i].of.msg)
    BY <1>1, <1>3 DEF Agreed, Bus
  <2>. QED
    BY <2>1 DEF Genuine, Size
<1>9. Busy => Taking \in 1 .. Current
  BY DEF Agreed, Receiver
<1>10. CASE send' = send
  <2>1. Sending' = Sending
    BY <1>10 DEF Sending
  <2>2. Bus'
    BY <1>1, <1>8, <1>10, <2>1 DEF Agreed, Bus, Before
  <2>3. Window'
    BY <1>1, <1>3, <1>9, <2>1 DEF Agreed, Window, Size
  <2>4. Sender'
    <3>1. Sending => messages'[Current].size = Size(Current)
      BY <1>3 DEF Base, Bounds
    <3>. QED
      BY <1>1, <1>3, <1>10, <2>1, <3>1 DEF Agreed, Sender, Size
  <2>5. Answers'
    BY <1>1, <1>10, <2>1, AnswersTail DEF Agreed
  <2>. QED
    BY <1>7, <2>2, <2>3, <2>4, <2>5 DEF Agreed
<1>11. CASE Sending /\ ~Sending' /\ (fs = "overflow" \/ messages'[Current].overrun)
  <2>1. Current \in 1 .. Current'
    BY <1>1, <1>3, <1>11 DEF Base, Bounds
  <2>2. fs = "overflow"
    BY <1>11, <2>1 DEF Regular
  <2>3. bus = <<>> /\ \A i \in 1 .. Len(back') : back'[i].from = DefaultEcu /\ back'[i].fs = "wait"
    BY <1>2, <1>4, <1>6, <2>2
  <2>. QED
    BY <1>1, <1>11, <2>3, StopAgreed
<1>12. CASE /\ Sending /\ Sending' /\ fs # "overflow"
            /\ send'.offset = send.offset /\ send'.sn = send.sn /\ send'.overdue = FALSE
            /\ send'.bs = IF fs = "continue" THEN BlockSize ELSE send.bs
  <2>1. messages'[Current].size = Size(Current)
    BY <1>3, <1>12 DEF Base, Bounds
  <2>2. /\ 1 <= send.offset /\ send.offset < Size(Current) /\ send.sn = send.offset % Sns
        /\ \A i \in 1 .. Len(bus) : bus[i].of.msg = Current => bus[i].of.seg <= send.offset
        /\ Busy /\ Taking = Current => Got <= send.offset /\ send.offset + send.bs <= Permitted
        /\ send.bs > 0 => /\ \A i \in 1 .. Len(bus) : bus[i].kind = "CF" /\ bus[i].of.msg = Current
                          /\ Busy => Taking = Current
    BY <1>12 DEF Agreed, Sender
  <2>3. ~send'.overdue
    BY <1>12, Zenon
  <2>4. CASE fs = "continue"
    <3>1. /\ bus = <<>> /\ Len(bus) = 0 /\ send'.bs = BlockSize
          /\ \A i \in 1 .. Len(back') : back'[i].fs = "wait" /\ back'[i].from = DefaultEcu
          /\ Busy => Taking = Current /\ send.offset = Got /\ ecu.bs = BlockSize
      BY <1>2, <1>4, <1>5, <1>6, <1>12, <2>4
    <3>2. Bus' /\ Window' /\ Answers'
      BY <1>1, <3>1 DEF Bus, Window, Answers
    <3>3. Busy => send.offset + BlockSize <= Permitted
      <4>1. Got \in Nat /\ BlockSize \in Nat /\ Permitted = Got + ecu.bs
        BY Numbers, Constants DEF Permitted
      <4>. QED
        BY <3>1, <4>1
    <3>4. Sender'
      BY <1>1, <1>3, <1>12, <2>1, <2>2, <2>3, <3>1, <3>3 DEF Sender, Size
    <3>. QED
      BY <1>7, <3>2, <3>4 DEF Agreed
  <2>5. CASE fs # "continue"
    <3>1. send'.bs = send.bs
      BY <1>12, <2>5
    <3>2. Bus'
      BY <1>1, <1>8, <1>12, <3>1 DEF Agreed, Bus, Before
    <3>3. Window'
      BY <1>1, <1>3, <1>9, <1>12 DEF Agreed, Window, Size
    <3>4. Sender'
      BY <1>1, <1>3, <1>12, <2>1, <2>2, <2>3, <3>1 DEF Sender, Size
    <3>5. Answers'
      BY <1>1, <1>12, <2>3, <3>1, AnswersTail DEF Agreed
    <3>. QED
      BY <1>7, <3>2, <3>3, <3>4, <3>5 DEF Agreed
  <2>. QED
    BY <2>4, <2>5
<1>. QED
  BY <1>1, <1>10, <1>11, <1>12

(* A step of neither link nor the bus.                                     *)
LEMMA Unmoved ==
  ASSUME Agreed, UNCHANGED <<messages, send, receive, bus, delivered>>
  PROVE  Bus' /\ Receiver' /\ Window' /\ Sender' /\ AllWhole'
<1>1. /\ Busy' = Busy /\ ecu' = ecu /\ Got' = Got /\ Taking' = Taking /\ Permitted' = Permitted
      /\ Sending' = Sending /\ Current' = Current /\ \A m : messages'[m].size = Size(m)
  BY SameEcu, SameSender DEF Size
<1>2. Bus'
  BY <1>1 DEF Agreed, Bus, Genuine, Before, Size
<1>3. Receiver'
  BY <1>1 DEF Agreed, Receiver, Partial, Size
<1>4. Window'
  BY <1>1 DEF Agreed, Window, Size
<1>5. Sender'
  BY <1>1 DEF Agreed, Sender, Size
<1>6. AllWhole'
  BY <1>1 DEF Agreed, AllWhole, Whole, Size
<1>. QED
  BY <1>2, <1>3, <1>4, <1>5, <1>6

LEMMA SetResponseIdAgreed ==
  ASSUME Base, Agreed, NEW e \in Ecus, SetResponseId(e)
  PROVE  Base' /\ Agreed'
<1>1. responseId' \in Ecus /\ UNCHANGED <<messages, send, receive, bus, back, delivered>>
  BY DEF SetResponseId
<1>2. Base'
  BY <1>1, LostIs
<1>3. Bus' /\ Receiver' /\ Window' /\ Sender' /\ AllWhole'
  BY <1>1, Unmoved
<1>4. Answers'
  BY <1>1, SameEcu, SameSender DEF Agreed, Answers
<1>. QED
  BY <1>2, <1>3, <1>4 DEF Agreed

LEMMA LoseBackAgreed ==
  ASSUME Base, Agreed, LoseBack
  PROVE  Base' /\ Agreed'
<1>1. /\ back # <<>> /\ back' = Tail(back) /\ responseId' \in Ecus
      /\ UNCHANGED <<messages, send, receive, bus, delivered>>
  BY Types DEF LoseBack, Base
<1>2. Base'
  BY <1>1, LostIs
<1>3. Bus' /\ Receiver' /\ Window' /\ Sender' /\ AllWhole'
  BY <1>1, Unmoved
<1>4. Answers'
  <2>1. Sending' = Sending /\ Current' = Current
    BY <1>1, SameSender
  <2>. QED
    BY <1>1, <2>1, AnswersTail DEF Agreed
<1>. QED
  BY <1>2, <1>3, <1>4 DEF Agreed

(* Only the link's own ECU puts anything together, so only it asks.        *)
LEMMA AskToWaitAgreed ==
  ASSUME Base, Agreed, NEW e \in Ecus, AskToWait(e)
  PROVE  Agreed'
<1>1. /\ receive[e].status = "inprogress"
      /\ Len(back') = Len(back) + 1 /\ \A i \in 1 .. Len(back) : back'[i] = back[i]
      /\ back'[Len(back) + 1] = [from |-> e, fs |-> "wait"]
      /\ UNCHANGED <<messages, send, responseId, receive, bus, delivered>>
  BY AskToWaitIs
<1>2. e = DefaultEcu
  BY <1>1 DEF Agreed, Receiver
<1>3. Bus' /\ Receiver' /\ Window' /\ Sender' /\ AllWhole'
  BY <1>1, Unmoved
<1>4. Answers'
  <2> DEFINE n == Len(back) + 1
  <2>1. \A i \in 1 .. Len(back') : i = n \/ i \in 1 .. Len(back)
    BY <1>1, Numbers
  <2>2. back'[n].from = DefaultEcu /\ back'[n].fs = "wait"
    BY <1>1, <1>2
  <2> HIDE DEF n
  <2>3. /\ Busy' = Busy /\ ecu' = ecu /\ Got' = Got /\ Taking' = Taking
        /\ Sending' = Sending /\ Current' = Current
    BY <1>1, SameEcu, SameSender
  <2>4. \A i \in 1 .. Len(back') : back'[i].from = DefaultEcu
    BY <1>1, <2>1, <2>2 DEF Agreed, Answers
  <2>5. ASSUME NEW i \in 1 .. Len(back'), back'[i].fs # "wait"
        PROVE  /\ Sending /\ ~send.overdue /\ send.bs = 0 /\ bus = <<>>
               /\ \A j \in 1 .. Len(back') : j # i => back'[j].fs = "wait"
               /\ Busy /\ back'[i].fs = "continue" =>
                    Taking = Current /\ send.offset = Got /\ ecu.bs = BlockSize
    <3>1. i \in 1 .. Len(back) /\ back'[i] = back[i]
      BY <1>1, <2>1, <2>2, <2>5
    <3>. QED
      BY <1>1, <2>1, <2>2, <2>5, <3>1 DEF Agreed, Answers
  <2>. QED
    BY <1>1, <2>3, <2>4, <2>5 DEF Answers
<1>. QED
  BY <1>3, <1>4 DEF Agreed

LEMMA CrTimeoutAgreed ==
  ASSUME Base, Agreed, NEW e \in Ecus, CrTimeout(e)
  PROVE  Agreed'
<1>1. /\ UNCHANGED <<messages, send, responseId, bus, back, delivered>>
      /\ receive'[e].status = "idle" /\ \A g \in Ecus \ {e} : receive'[g] = receive[g]
      /\ receive[e].status = "inprogress"
  BY CrTimeoutIs DEF CrTimeout
<1>2. e = DefaultEcu
  BY <1>1 DEF Agreed, Receiver
<1>3. ~Busy' /\ \A g \in Ecus \ {DefaultEcu} : receive'[g].status = "idle"
  BY <1>1, <1>2 DEF Agreed, Receiver, Busy, ecu
<1>4. Sending' = Sending /\ Current' = Current /\ \A m : messages'[m].size = Size(m)
  BY <1>1, SameSender DEF Size
<1>5. Bus'
  BY <1>1, <1>4 DEF Agreed, Bus, Genuine, Before, Size
<1>6. Receiver' /\ Window'
  BY <1>3 DEF Receiver, Window
<1>7. Sender'
  BY <1>1, <1>3, <1>4 DEF Agreed, Sender, Size
<1>8. Answers'
  BY <1>1, <1>3, <1>4 DEF Agreed, Answers
<1>9. AllWhole'
  BY <1>1, <1>4 DEF Agreed, AllWhole, Whole, Size
<1>. QED
  BY <1>5, <1>6, <1>7, <1>8, <1>9 DEF Agreed

(* The bus after its first frame has been taken or lost: no answer can be  *)
(* under way.                                                              *)
LEMMA BusShift ==
  ASSUME Base, Agreed, bus # <<>>, bus' = Tail(bus), UNCHANGED <<messages, send>>
  PROVE  /\ Bus' /\ Len(bus) \in Nat /\ Len(bus) >= 1 /\ Len(bus') = Len(bus) - 1
         /\ \A i \in 1 .. Len(bus') : i + 1 \in 1 .. Len(bus) /\ bus'[i] = bus[i + 1]
         /\ \A i \in 1 .. Len(bus') : Before(bus[1], bus'[i])
         /\ \A i \in 1 .. Len(back) : back[i].from = DefaultEcu /\ back[i].fs = "wait"
         /\ ~(Sending /\ send.overdue)
         /\ Sending' = Sending /\ Current' = Current /\ \A m : messages'[m].size = Size(m)
<1>1. /\ Len(bus) \in Nat /\ Len(bus) >= 1 /\ Len(bus') = Len(bus) - 1
      /\ \A i \in 1 .. Len(bus') : i + 1 \in 1 .. Len(bus) /\ bus'[i] = bus[i + 1]
  BY BusTail
<1>2. Sending' = Sending /\ Current' = Current /\ \A m : messages'[m].size = Size(m)
  BY SameSender DEF Size
<1>3. Bus
  BY DEF Agreed
<1>4. ASSUME NEW i \in 1 .. Len(bus') PROVE Genuine(bus[i])'
  <2>1. Genuine(bus[i + 1]) /\ bus'[i] = bus[i + 1]
    BY <1>1, <1>3 DEF Bus
  <2>. QED
    BY <1>2, <2>1 DEF Genuine, Size
<1>5. ASSUME NEW i \in 1 .. Len(bus'), NEW j \in 1 .. Len(bus'), i < j
      PROVE  Before(bus[i], bus[j])'
  <2>1. i + 1 \in 1 .. Len(bus) /\ j + 1 \in 1 .. Len(bus) /\ i + 1 < j + 1
    BY <1>1, <1>5
  <2>2. Before(bus[i + 1], bus[j + 1])
    BY <1>3, <2>1 DEF Bus
  <2>. QED
    BY <1>1, <2>2 DEF Before
<1>6. \A i \in 1 .. Len(bus') : bus'[i].kind = "FF" =>
        Sending /\ bus'[i].of.msg = Current /\ send.offset = 1 /\ send.bs = 0
  BY <1>1, <1>3 DEF Bus
<1>7. Bus'
  BY <1>2, <1>4, <1>5, <1>6 DEF Bus
<1>8. ASSUME NEW i \in 1 .. Len(bus') PROVE Before(bus[1], bus'[i])
  <2>1. 1 \in 1 .. Len(bus) /\ i + 1 \in 1 .. Len(bus) /\ 1 < i + 1
    BY <1>1
  <2>2. Before(bus[1], bus[i + 1])
    BY <1>3, <2>1 DEF Bus
  <2>. QED
    BY <1>1, <2>2
<1>9. \A i \in 1 .. Len(back) : back[i].from = DefaultEcu /\ back[i].fs = "wait"
  BY DEF Agreed, Answers
<1>10. ~(Sending /\ send.overdue)
  BY DEF Agreed, Sender
<1>. QED
  BY <1>1, <1>2, <1>7, <1>8, <1>9, <1>10

(* The sender's side of such a step, given what the ECU then has.          *)
LEMMA SenderShift ==
  ASSUME Base, Agreed, bus # <<>>, bus' = Tail(bus), UNCHANGED <<messages, send>>,
         Busy' /\ Sending =>
           /\ Taking' = Current => Got' <= send.offset /\ send.offset + send.bs <= Permitted'
           /\ send.bs > 0 => Taking' = Current
  PROVE  Sender'
<1>1. /\ \A i \in 1 .. Len(bus') : i + 1 \in 1 .. Len(bus) /\ bus'[i] = bus[i + 1]
      /\ ~(Sending /\ send.overdue)
      /\ Sending' = Sending /\ Current' = Current /\ \A m : messages'[m].size = Size(m)
  BY BusShift
<1>2. SUFFICES ASSUME Sending
      PROVE  /\ 1 <= send.offset /\ send.offset < Size(Current) /\ send.sn = send.offset % Sns
             /\ \A i \in 1 .. Len(bus') : bus'[i].of.msg = Current => bus'[i].of.seg <= send.offset
             /\ send.bs > 0 => \A i \in 1 .. Len(bus') : bus'[i].kind = "CF" /\ bus'[i].of.msg = Current
  BY <1>1 DEF Sender, Size
<1>. QED
  BY <1>1, <1>2 DEF Agreed, Sender

LEMMA LoseFrameAgreed ==
  ASSUME Base, Agreed, LoseFrame
  PROVE  Base' /\ Agreed'
<1>1. /\ bus # <<>> /\ bus' = Tail(bus) /\ responseId' \in Ecus
      /\ UNCHANGED <<messages, send, receive, back, delivered>>
  BY Types DEF LoseFrame, Base
<1>2. Base'
  BY <1>1, LostIs
<1>3. /\ Bus' /\ \A i \in 1 .. Len(bus') : i + 1 \in 1 .. Len(bus) /\ bus'[i] = bus[i + 1]
      /\ \A i \in 1 .. Len(back) : back[i].from = DefaultEcu /\ back[i].fs = "wait"
      /\ Sending' = Sending /\ Current' = Current /\ \A m : messages'[m].size = Size(m)
  BY <1>1, BusShift
<1>4. /\ Busy' = Busy /\ ecu' = ecu /\ Got' = Got /\ Taking' = Taking /\ Permitted' = Permitted
  BY <1>1, SameEcu
<1>5. Receiver'
  BY <1>1, <1>3, <1>4 DEF Agreed, Receiver, Partial, Size
<1>6. Window'
  BY <1>1, <1>3, <1>4 DEF Agreed, Window, Size
<1>7. Sender'
  <2>1. Busy /\ Sending =>
          /\ Taking = Current => Got <= send.offset /\ send.offset + send.bs <= Permitted
          /\ send.bs > 0 => Taking = Current
    BY DEF Agreed, Sender
  <2>. QED
    BY <1>1, <1>4, <2>1, SenderShift
<1>8. Answers'
  BY <1>1, <1>3 DEF Answers
<1>9. AllWhole'
  BY <1>1, <1>3 DEF Agreed, AllWhole, Whole, Size
<1>. QED
  BY <1>2, <1>3, <1>5, <1>6, <1>7, <1>8, <1>9 DEF Agreed

LEMMA WholeToo ==
  ASSUME Base, AllWhole, UNCHANGED messages, NEW d \in Seq(Segments), Whole(d),
         delivered' = Append(delivered, d)
  PROVE  AllWhole'
<1>1. delivered \in Seq(Seq(Segments))
  BY Types DEF Base
<1>2. /\ Len(delivered') = Len(delivered) + 1 /\ Len(delivered) \in Nat
      /\ \A i \in 1 .. Len(delivered) : delivered'[i] = delivered[i]
      /\ delivered'[Len(delivered) + 1] = d
  BY <1>1, AppendedIs
<1>3. ASSUME NEW i \in 1 .. Len(delivered') PROVE Whole(delivered'[i])
  <2>1. CASE i = Len(delivered) + 1
    BY <1>2, <2>1
  <2>2. CASE i \in 1 .. Len(delivered)
    BY <1>2, <2>2 DEF AllWhole
  <2>. QED
    BY <1>2, <2>1, <2>2
<1>4. Current' = Current /\ \A m : messages'[m].size = Size(m)
  BY DEF Current, Size
<1>. QED
  BY <1>3, <1>4 DEF AllWhole, Whole, Size

(* The ECU gives up or hands on what it has: nothing is expected of it.    *)
LEMMA Freed ==
  ASSUME Base, Agreed, bus # <<>>, bus' = Tail(bus), UNCHANGED <<messages, send>>,
         ~Busy', \A e \in Ecus \ {DefaultEcu} : receive'[e] = receive[e]
  PROVE  Bus' /\ Receiver' /\ Window' /\ Sender'
<1>1. Bus'
  BY BusShift
<1>2. Receiver'
  BY DEF Agreed, Receiver
<1>3. Window'
  BY DEF Window
<1>4. Sender'
  BY SenderShift
<1>. QED
  BY <1>1, <1>2, <1>3, <1>4

(* An answer is the only one, and what it needs holds of the sender.       *)
LEMMA Answered ==
  ASSUME TypeOK, NEW fs \in {"continue", "wait", "overflow"}, SendFlowControl(DefaultEcu, fs),
         \A i \in 1 .. Len(back) : back[i].from = DefaultEcu /\ back[i].fs = "wait",
         UNCHANGED send, Current' = Current,
         Sending, ~send.overdue, send.bs = 0, bus' = <<>>,
         Busy' => Taking' = Current /\ send.offset = Got' /\ ecu'.bs = BlockSize
  PROVE  Answers'
<1> DEFINE n == Len(back) + 1
<1>1. /\ Len(back') = n /\ Len(back) \in Nat
      /\ \A i \in 1 .. Len(back) : back'[i] = back[i]
      /\ back'[n] = [from |-> DefaultEcu, fs |-> fs]
  BY Constants, ControlIs, Types
<1>2. \A i \in 1 .. Len(back') : i = n \/ i \in 1 .. Len(back)
  BY <1>1
<1>3. back'[n].from = DefaultEcu
  BY <1>1
<1> HIDE DEF n
<1>4. \A i \in 1 .. Len(back') : /\ back'[i].from = DefaultEcu
                                 /\ i # n => back'[i].fs = "wait"
  BY <1>1, <1>2, <1>3
<1>5. Sending'
  BY DEF Sending
<1>. QED
  BY <1>4, <1>5 DEF Answers

LEMMA SingleAgreed ==
  ASSUME Base, Agreed, bus # <<>>, bus' = Tail(bus), UNCHANGED <<messages, send>>,
         bus[1] \in DataFrame, bus[1].kind = "SF", OnSingleFrame(DefaultEcu, bus[1]),
         \A e \in Ecus \ {DefaultEcu} : receive'[e] = receive[e]
  PROVE  Agreed'
<1> DEFINE f == bus[1]
<1>1. /\ receive' = [receive EXCEPT ![DefaultEcu] = Idle(ecu)]
      /\ delivered' = Append(delivered, <<f.of>>) /\ back' = back
  BY DEF OnSingleFrame, ecu
<1>2. ~Busy'
  <2>1. receive \in [Ecus -> ReceiveState] /\ ecu \in ReceiveState
    BY Types, Numbers DEF Base
  <2>2. receive'[DefaultEcu] = Idle(ecu)
    BY <1>1, <2>1, Constants
  <2>. QED
    BY <2>1, <2>2, IdleIs DEF Busy, ecu
<1>3. Bus' /\ Receiver' /\ Window' /\ Sender'
  BY <1>2, Freed
<1>4. Answers'
  BY <1>1, BusShift DEF Answers
<1>5. Whole(<<f.of>>) /\ <<f.of>> \in Seq(Segments)
  <2>1. 1 \in 1 .. Len(bus)
    BY BusShift
  <2>2. f.of.seg = 1 /\ Size(f.of.msg) = 1
    BY <2>1 DEF Agreed, Bus, Genuine
  <2>3. f.of \in Segments /\ f.of.msg \in 1 .. Current
    BY <2>1, Numbers
  <2>4. f.of = [msg |-> f.of.msg, seg |-> 1]
    BY <2>2, <2>3 DEF Segments
  <2> DEFINE m == f.of.msg
  <2> HIDE DEF f, m
  <2>5. <<f.of>> = [i \in 1 .. 1 |-> [msg |-> m, seg |-> i]]
    BY <2>4 DEF m
  <2>6. <<f.of>> = [i \in 1 .. Size(m) |-> [msg |-> m, seg |-> i]]
    BY <2>2, <2>5 DEF m
  <2>. QED
    BY <2>3, <2>6 DEF Whole, m
<1>6. AllWhole'
  BY <1>1, <1>5, WholeToo DEF Agreed
<1>. QED
  BY <1>3, <1>4, <1>6 DEF Agreed

LEMMA FirstAgreed ==
  ASSUME Base, Agreed, bus # <<>>, bus' = Tail(bus), UNCHANGED <<messages, send>>,
         bus[1].kind = "FF", OnFirstFrame(DefaultEcu, bus[1]),
         \A e \in Ecus \ {DefaultEcu} : receive'[e] = receive[e]
  PROVE  Agreed'
<1> DEFINE f == bus[1]
           s == [status |-> "inprogress", sn |-> 1, bs |-> BlockSize,
                 size |-> Size(f.of.msg), segs |-> <<f.of>>]
<1>1. /\ Bus' /\ Len(bus) \in Nat /\ 1 \in 1 .. Len(bus) /\ Len(bus') = Len(bus) - 1
      /\ \A i \in 1 .. Len(bus') : i + 1 \in 1 .. Len(bus) /\ bus'[i] = bus[i + 1]
      /\ \A i \in 1 .. Len(bus') : Before(f, bus'[i])
      /\ \A i \in 1 .. Len(back) : back[i].from = DefaultEcu /\ back[i].fs = "wait"
      /\ ~(Sending /\ send.overdue)
      /\ Sending' = Sending /\ Current' = Current /\ \A m : messages'[m].size = Size(m)
  BY BusShift
<1>2. /\ Sending /\ f.of.msg = Current /\ send.offset = 1 /\ send.bs = 0
      /\ f.of.seg = 1 /\ Size(Current) > 1
  BY <1>1 DEF Agreed, Bus, Genuine
<1>3. f.of \in Segments /\ Current \in Nat /\ Current \in 1 .. Current
  BY <1>1, <1>2, Numbers
<1>4. bus' = <<>> /\ \A i \in 1 .. Len(bus') : FALSE
  <2>1. ASSUME NEW i \in 1 .. Len(bus') PROVE FALSE
    <3>1. Before(f, bus'[i]) /\ bus'[i].of.msg \in 1 .. Current
      BY <1>1, Numbers
    <3>. QED
      BY <1>2, <1>3, <3>1 DEF Before
  <2>2. Len(bus') = 0 /\ bus' \in Seq(DataFrame)
    BY <1>1, <2>1, BusTail
  <2>. QED
    BY <2>1, <2>2, EmptySeq
<1>5. /\ receive \in [Ecus -> ReceiveState] /\ ecu \in ReceiveState /\ DefaultEcu \in Ecus
      /\ Idle(ecu).status = "idle"
  BY Types, Numbers, Constants, IdleIs DEF Base
<1>6. delivered' = delivered /\ AllWhole'
  <2>1. delivered' = delivered
    BY DEF OnFirstFrame
  <2>. QED
    BY <1>1, <2>1 DEF Agreed, AllWhole, Whole, Size
<1>7. CASE Size(f.of.msg) > BufferSize
  <2>1. receive' = [receive EXCEPT ![DefaultEcu] = Idle(ecu)] /\ SendFlowControl(DefaultEcu, "overflow")
    BY <1>7 DEF OnFirstFrame, ecu
  <2>2. ~Busy'
    BY <1>5, <2>1 DEF Busy, ecu
  <2>3. Bus' /\ Receiver' /\ Window' /\ Sender'
    BY <2>2, Freed
  <2>4. Answers'
    BY <1>1, <1>2, <1>4, <2>1, <2>2, Answered DEF Base
  <2>. QED
    BY <1>6, <2>3, <2>4 DEF Agreed
<1>8. CASE ~(Size(f.of.msg) > BufferSize)
  <2>1. receive' = [receive EXCEPT ![DefaultEcu] = s] /\ SendFlowControl(DefaultEcu, "continue")
    BY <1>8 DEF OnFirstFrame
  <2>2. ecu' = s
    BY <1>5, <2>1 DEF ecu
  <2>3. /\ Busy' /\ Got' = 1 /\ Taking' = Current /\ ecu'.bs = BlockSize
        /\ ecu'.size = Size(Current) /\ ecu'.sn = 1 /\ ecu'.segs = <<f.of>>
    BY <1>2, <2>2 DEF Busy, Got, Taking
  <2>4. Permitted' = 1 + BlockSize /\ BlockSize \in Nat
    BY <2>3, Constants DEF Permitted
  <2>5. Receiver'
    <3>1. 1 % Sns = 1
      BY OneOfSns
    <3>2. <<f.of>> = [i \in 1 .. 1 |-> [msg |-> Current, seg |-> i]]
      <4>1. f.of = [msg |-> Current, seg |-> 1]
        BY <1>2, <1>3 DEF Segments
      <4> HIDE DEF f
      <4>. QED
        BY <4>1
    <3>3. \A e \in Ecus \ {DefaultEcu} : receive'[e].status = "idle"
      BY DEF Agreed, Receiver
    <3> HIDE DEF f, s
    <3>. QED
      BY <1>1, <1>2, <1>3, <2>3, <3>1, <3>2, <3>3 DEF Receiver, Partial, Size
  <2>6. Window'
    BY <1>4 DEF Window
  <2>7. Sender'
    BY <1>2, <2>3, <2>4, SenderShift
  <2>8. Answers'
    BY <1>1, <1>2, <1>4, <2>1, <2>3, Answered DEF Base
  <2>. QED
    BY <1>1, <1>6, <2>5, <2>6, <2>7, <2>8 DEF Agreed
<1>. QED
  BY <1>7, <1>8

(* A consecutive frame with the expected sequence number is the next       *)
(* segment: the window is shorter than the sequence numbers.               *)
LEMMA NextSegment ==
  ASSUME Base, Agreed, 1 \in 1 .. Len(bus), bus[1].kind = "CF", Busy, bus[1].sn = ecu.sn
  PROVE  /\ bus[1].of = [msg |-> Taking, seg |-> Got + 1] /\ Got + 1 <= Size(Taking)
         /\ Got + 1 <= Permitted
<1> DEFINE f == bus[1]
<1>1. /\ f.of.msg = Taking /\ Got < f.of.seg /\ f.of.seg <= Permitted
      /\ f.of.seg <= Size(f.of.msg)
  BY DEF Agreed, Window, Bus, Genuine
<1>2. /\ f.of \in Segments /\ f.of.seg \in Nat /\ Got \in Nat /\ Permitted = Got + ecu.bs
      /\ ecu.bs \in 0 .. BlockSize
  BY Numbers DEF Permitted
<1> DEFINE n == f.of.seg - 1
<1>3. /\ BlockSize \in Nat /\ Sns \in Nat \ {0} /\ BlockSize < Sns
  BY Constants
<1>4. n \in Nat /\ Got <= n /\ n < Got + Sns
  <2>1. Got < f.of.seg /\ f.of.seg <= Got + ecu.bs
    BY <1>1, <1>2
  <2> HIDE DEF f
  <2>. QED
    BY <1>2, <1>3, <2>1
<1>5. Got % Sns = n % Sns
  BY DEF Agreed, Bus, Genuine, Receiver
<1>6. Got = n
  <2> HIDE DEF n
  <2>. QED
    BY <1>2, <1>3, <1>4, <1>5, ModWindow
<1>7. f.of.seg = Got + 1
  BY <1>2, <1>6
<1>. QED
  BY <1>1, <1>2, <1>7 DEF Segments

(* What the ECU has with one segment more.                                 *)
LEMMA OneMore ==
  ASSUME Base, Receiver, Busy
  PROVE  /\ Append(ecu.segs, [msg |-> Taking, seg |-> Got + 1]) = Partial(Taking, Got + 1)
         /\ Len(Append(ecu.segs, [msg |-> Taking, seg |-> Got + 1])) = Got + 1
         /\ Append(ecu.segs, [msg |-> Taking, seg |-> Got + 1])[1].msg = Taking
<1> DEFINE t == Taking
           g == Got
           x == [msg |-> t, seg |-> g + 1]
           a == Append(ecu.segs, x)
<1>1. g \in Nat /\ 1 <= g /\ ecu.segs = Partial(t, g)
  BY Numbers DEF Receiver
<1>2. Len(ecu.segs) = g
  BY DEF Got
<1> HIDE DEF t, g
<1>3. ecu.segs = [i \in 1 .. g |-> [msg |-> t, seg |-> i]]
  BY <1>1 DEF Partial
<1>4. a = [i \in 1 .. g + 1 |-> IF i = g + 1 THEN x ELSE ecu.segs[i]]
  BY <1>2
<1>5. \A i \in 1 .. g + 1 : a[i] = [msg |-> t, seg |-> i]
  <2> SUFFICES ASSUME NEW i \in 1 .. g + 1 PROVE a[i] = [msg |-> t, seg |-> i]
    OBVIOUS
  <2>1. CASE i = g + 1
    BY <1>4, <2>1
  <2>2. CASE i # g + 1
    <3>1. i \in 1 .. g
      BY <1>1, <2>2
    <3>. QED
      BY <1>3, <1>4, <2>2, <3>1
  <2>. QED
    BY <2>1, <2>2
<1>6. a = Partial(t, g + 1)
  BY <1>4, <1>5 DEF Partial
<1>7. Len(a) = g + 1
  BY <1>1, <1>4
<1>8. a[1].msg = t
  <2>1. a[1] = [msg |-> t, seg |-> 1]
    BY <1>1, <1>5
  <2> HIDE DEF a
  <2>. QED
    BY <2>1
<1>. QED
  BY <1>6, <1>7, <1>8 DEF t, g

LEMMA ConsecutiveAgreed ==
  ASSUME Base, Agreed, bus # <<>>, bus' = Tail(bus), UNCHANGED <<messages, send>>,
         bus[1] \in DataFrame, bus[1].kind = "CF", OnConsecutiveFrame(DefaultEcu, bus[1]),
         \A e \in Ecus \ {DefaultEcu} : receive'[e] = receive[e]
  PROVE  Agreed'
<1> DEFINE f == bus[1]
           got == Taken(ecu, f)
           next == Onward(ecu, f)
<1>1. /\ Bus' /\ Len(bus) \in Nat /\ 1 \in 1 .. Len(bus) /\ Len(bus') = Len(bus) - 1
      /\ \A i \in 1 .. Len(bus') : i + 1 \in 1 .. Len(bus) /\ bus'[i] = bus[i + 1]
      /\ \A i \in 1 .. Len(bus') : Before(f, bus'[i])
      /\ \A i \in 1 .. Len(back) : back[i].from = DefaultEcu /\ back[i].fs = "wait"
      /\ ~(Sending /\ send.overdue)
      /\ Sending' = Sending /\ Current' = Current /\ \A m : messages'[m].size = Size(m)
  BY BusShift
<1>2. /\ receive \in [Ecus -> ReceiveState] /\ ecu \in ReceiveState /\ DefaultEcu \in Ecus
      /\ Idle(ecu).status = "idle" /\ f.of \in Segments
  BY <1>1, Types, Numbers, Constants, IdleIs DEF Base
<1>3. \/ ~Busy /\ receive' = receive /\ delivered' = delivered /\ back' = back
      \/ /\ receive' = [receive EXCEPT ![DefaultEcu] = Idle(ecu)]
         /\ delivered' = delivered /\ back' = back
      \/ /\ Busy /\ f.sn = ecu.sn /\ Len(got.segs) >= ecu.size
         /\ receive' = [receive EXCEPT ![DefaultEcu] = Idle(got)]
         /\ delivered' = Append(delivered, got.segs) /\ back' = back
      \/ /\ Busy /\ f.sn = ecu.sn /\ ~(Len(got.segs) >= ecu.size)
         /\ receive' = [receive EXCEPT ![DefaultEcu] = next] /\ delivered' = delivered
         /\ IF ecu.bs = 1 THEN SendFlowControl(DefaultEcu, "continue") ELSE back' = back
  <2>1. OnConsecutiveFrame(DefaultEcu, f)
    OBVIOUS
  <2>2. ecu = receive[DefaultEcu] /\ (Busy <=> receive[DefaultEcu].status = "inprogress")
    BY DEF Busy, ecu
  <2> HIDE DEF f
  <2>. QED
    BY <2>1, <2>2, ConsecutiveIs, Zenon
<1>4. /\ got \in ReceiveState /\ got.status = ecu.status /\ got.sn = (ecu.sn + 1) % Sns
      /\ got.bs = ecu.bs /\ got.size = ecu.size /\ got.segs = Append(ecu.segs, f.of)
  BY <1>2, GotIs
<1>5. Idle(got).status = "idle"
  BY <1>4, IdleIs
<1> HIDE DEF got
<1>6. ASSUME back' = back PROVE Answers'
  BY <1>1, <1>6 DEF Answers
<1>7. ASSUME delivered' = delivered PROVE AllWhole'
  BY <1>1, <1>7 DEF Agreed, AllWhole, Whole, Size
<1>8. ASSUME ~Busy' PROVE Bus' /\ Receiver' /\ Window' /\ Sender'
  BY <1>8, Freed
<1>9. CASE ~Busy /\ receive' = receive /\ delivered' = delivered /\ back' = back
  BY <1>6, <1>7, <1>8, <1>9, SameEcu DEF Agreed
<1>10. CASE /\ receive' = [receive EXCEPT ![DefaultEcu] = Idle(ecu)]
            /\ delivered' = delivered /\ back' = back
  <2>1. ~Busy'
    BY <1>2, <1>10 DEF Busy, ecu
  <2>. QED
    BY <1>6, <1>7, <1>8, <1>10, <2>1 DEF Agreed
<1>11. ASSUME Busy, f.sn = ecu.sn
       PROVE  /\ f.of = [msg |-> Taking, seg |-> Got + 1]
              /\ Got + 1 <= Size(Taking) /\ Got + 1 <= Permitted
              /\ got.segs = Partial(Taking, Got + 1) /\ Len(got.segs) = Got + 1
              /\ got.segs[1].msg = Taking /\ ecu.size = Size(Taking) /\ ecu.sn = Got % Sns
              /\ Taking \in 1 .. Current /\ 1 <= Got
  <2>1. /\ f.of = [msg |-> Taking, seg |-> Got + 1]
        /\ Got + 1 <= Size(Taking) /\ Got + 1 <= Permitted
    BY <1>1, <1>11, NextSegment
  <2>2. /\ got.segs = Partial(Taking, Got + 1) /\ Len(got.segs) = Got + 1
        /\ got.segs[1].msg = Taking
    <3>1. got.segs = Append(ecu.segs, [msg |-> Taking, seg |-> Got + 1])
      BY <1>4, <2>1
    <3>. QED
      BY <1>11, <3>1, OneMore DEF Agreed
  <2>3. ecu.size = Size(Taking) /\ ecu.sn = Got % Sns /\ Taking \in 1 .. Current /\ 1 <= Got
    BY <1>11 DEF Agreed, Receiver
  <2>. QED
    BY <2>1, <2>2, <2>3
<1>12. CASE /\ Busy /\ f.sn = ecu.sn /\ Len(got.segs) >= ecu.size
            /\ receive' = [receive EXCEPT ![DefaultEcu] = Idle(got)]
            /\ delivered' = Append(delivered, got.segs) /\ back' = back
  <2>1. ~Busy'
    BY <1>2, <1>5, <1>12 DEF Busy, ecu
  <2>2. Got + 1 = Size(Taking) /\ got.segs = Partial(Taking, Got + 1) /\ Taking \in 1 .. Current
    <3>1. Got \in Nat /\ Size(Taking) \in Nat
      BY <1>11, <1>12, Numbers
    <3>. QED
      BY <1>11, <1>12, <3>1
  <2>3. Whole(got.segs)
    BY <2>2 DEF Whole, Partial
  <2>4. got.segs \in Seq(Segments)
    BY <1>4 DEF ReceiveState
  <2>5. AllWhole'
    BY <1>12, <2>3, <2>4, WholeToo DEF Agreed
  <2>. QED
    BY <1>6, <1>8, <1>12, <2>1, <2>5 DEF Agreed
<1>13. CASE /\ Busy /\ f.sn = ecu.sn /\ ~(Len(got.segs) >= ecu.size)
            /\ receive' = [receive EXCEPT ![DefaultEcu] = next] /\ delivered' = delivered
            /\ IF ecu.bs = 1 THEN SendFlowControl(DefaultEcu, "continue") ELSE back' = back
  <2> DEFINE bs == IF ecu.bs = 1 THEN BlockSize ELSE ecu.bs - 1
  <2>1. ecu' = next
    BY <1>2, <1>13 DEF ecu
  <2>2. /\ ecu'.status = ecu.status /\ ecu'.sn = got.sn /\ ecu'.bs = bs
        /\ ecu'.size = ecu.size /\ ecu'.segs = got.segs
    BY <1>4, <2>1 DEF ReceiveState, Onward, got
  <2> HIDE DEF next
  <2>3. /\ f.of = [msg |-> Taking, seg |-> Got + 1]
        /\ got.segs = Partial(Taking, Got + 1) /\ Len(got.segs) = Got + 1
        /\ got.segs[1].msg = Taking /\ ecu.size = Size(Taking) /\ ecu.sn = Got % Sns
        /\ Taking \in 1 .. Current /\ 1 <= Got /\ Got + 1 <= Permitted
    BY <1>11, <1>13
  <2>4. /\ Got \in Nat /\ Size(Taking) \in Nat /\ Permitted \in Nat /\ Permitted = Got + ecu.bs
        /\ ecu.bs \in Nat /\ ecu.bs >= 1 /\ BlockSize \in Nat
        /\ send.offset \in Nat /\ send.bs \in Nat /\ Current \in Nat
    <3>1. /\ Got \in Nat /\ Permitted \in Nat /\ ecu.bs \in 0 .. BlockSize /\ ecu.bs >= 1
          /\ send.offset \in Nat /\ send.bs \in 0 .. BlockSize /\ Current \in Nat
          /\ BlockSize \in Nat
      BY <1>13, Numbers, Constants
    <3>2. Size(Taking) \in Nat
      BY <2>3, Numbers
    <3>. QED
      BY <3>1, <3>2 DEF Permitted
  <2>5. Got + 1 < Size(Taking)
    BY <1>13, <2>3, <2>4
  <2>6. /\ Busy' /\ Got' = Got + 1 /\ Taking' = Taking
    BY <1>13, <2>2, <2>3 DEF Busy, Got, Taking
  <2>7. Permitted' \in Nat /\ Permitted <= Permitted'
    <3>1. Permitted' = Got + 1 + bs
      BY <2>2, <2>6 DEF Permitted
    <3>2. bs \in Nat /\ ecu.bs <= bs + 1
      BY <2>4
    <3> HIDE DEF bs
    <3>3. Got \in Nat /\ ecu.bs \in Nat /\ Permitted = Got + ecu.bs
      BY <2>4
    <3>. QED
      BY <3>1, <3>2, <3>3
  <2>8. Receiver'
    <3>1. ecu'.sn = Got' % Sns
      <4>1. Sns \in Nat \ {0} /\ Sns > 1
        BY Constants
      <4>2. ((Got % Sns) + 1) % Sns = (Got + 1) % Sns
        BY <2>4, <4>1, ModStep
      <4>. QED
        BY <1>4, <2>2, <2>3, <2>6, <4>2, Zenon
    <3>2. \A e \in Ecus \ {DefaultEcu} : receive'[e].status = "idle"
      BY DEF Agreed, Receiver
    <3>3. ecu'.segs = Partial(Taking', Got') /\ ecu'.size = Size(Taking)
      BY <2>2, <2>3, <2>6, Zenon DEF Partial
    <3>4. Taking' \in 1 .. Current' /\ messages'[Taking'].size = Size(Taking)
      BY <1>1, <2>3, <2>6
    <3>5. 1 <= Got' /\ Got' < Size(Taking)
      BY <2>4, <2>5, <2>6
    <3>. QED
      BY <3>1, <3>2, <3>3, <3>4, <3>5 DEF Receiver, Partial, Size
  <2>9. Window'
    <3> SUFFICES ASSUME NEW i \in 1 .. Len(bus'), bus'[i].kind = "CF"
                 PROVE  /\ bus'[i].of.msg = Taking /\ Got + 1 < bus'[i].of.seg
                        /\ bus'[i].of.seg <= Permitted'
                        /\ (Sending /\ Taking = Current) \/ Size(Taking) <= Permitted'
      BY <1>1, <2>6 DEF Window, Size
    <3>1. i + 1 \in 1 .. Len(bus) /\ bus'[i] = bus[i + 1]
      BY <1>1
    <3>2. /\ bus'[i].of.msg = Taking /\ bus'[i].of.seg <= Permitted
          /\ (Sending /\ Taking = Current) \/ Size(Taking) <= Permitted
      BY <1>13, <3>1 DEF Agreed, Window
    <3>3. f.of.seg < bus'[i].of.seg /\ bus'[i].of.seg \in Nat
      BY <1>1, <3>1, Numbers DEF Before
    <3>4. Permitted' \in Nat /\ Permitted <= Permitted' /\ Permitted \in Nat
      BY <2>4, <2>7
    <3>5. f.of.seg = Got + 1
      BY <2>3
    <3>6. (Sending /\ Taking = Current) \/ Size(Taking) <= Permitted'
      BY <2>4, <3>2, <3>4
    <3>7. bus'[i].of.seg <= Permitted'
      BY <3>2, <3>3, <3>4
    <3> HIDE DEF f
    <3>. QED
      BY <3>2, <3>3, <3>5, <3>6, <3>7
  <2>10. Sending /\ Taking = Current =>
           Got + 1 <= send.offset /\ send.offset + send.bs <= Permitted
    <3>1. Sending /\ Taking = Current => f.of.seg <= send.offset
      BY <1>1, <2>3 DEF Agreed, Sender
    <3>2. Sending /\ Taking = Current => send.offset + send.bs <= Permitted
      BY <1>13 DEF Agreed, Sender
    <3>. QED
      BY <2>3, <3>1, <3>2
  <2>11. Sender'
    <3>1. Sending /\ send.bs > 0 => Taking = Current
      BY <1>13 DEF Agreed, Sender
    <3>2. Sending /\ Taking = Current =>
            Got + 1 <= send.offset /\ send.offset + send.bs <= Permitted'
      <4>1. send.offset + send.bs \in Nat /\ Permitted \in Nat
        BY <2>4
      <4>. QED
        BY <2>7, <2>10, <4>1
    <3>. QED
      BY <1>1, <2>6, <3>1, <3>2, SenderShift
  <2>12. Answers'
    <3>1. CASE ecu.bs # 1
      BY <1>6, <1>13, <3>1
    <3>2. CASE ecu.bs = 1
      <4>1. Sending /\ Taking = Current
        <5>1. (Sending /\ Taking = Current) \/ Size(Taking) <= Permitted
          BY <1>1, <1>13 DEF Agreed, Window
        <5>. QED
          BY <2>4, <2>5, <3>2, <5>1
      <4>2. send.offset = Got + 1 /\ send.bs = 0
        BY <2>4, <2>10, <3>2, <4>1
      <4>3. bus' = <<>>
        <5>1. ASSUME NEW i \in 1 .. Len(bus') PROVE FALSE
          <6>1. Before(f, bus'[i]) /\ i + 1 \in 1 .. Len(bus) /\ bus'[i] = bus[i + 1]
            BY <1>1
          <6>2. bus'[i].of.msg \in 1 .. Current /\ bus'[i].of.seg \in Nat
            BY <6>1, Numbers
          <6>3. bus'[i].of.msg = Current => bus'[i].of.seg <= send.offset
            BY <4>1, <6>1 DEF Agreed, Sender
          <6>4. f.of.msg = Current /\ f.of.seg = Got + 1
            BY <2>3, <4>1
          <6>5. bus'[i].of.msg = Current /\ Got + 1 < bus'[i].of.seg
            BY <2>4, <6>1, <6>2, <6>4 DEF Before
          <6>. QED
            BY <2>4, <4>2, <6>2, <6>3, <6>5
        <5>2. Len(bus') = 0 /\ bus' \in Seq(DataFrame)
          BY <1>1, <5>1, BusTail
        <5>. QED
          BY <5>2, EmptySeq
      <4>4. SendFlowControl(DefaultEcu, "continue") /\ ecu'.bs = BlockSize
        BY <1>13, <2>2, <3>2
      <4>. QED
        BY <1>1, <2>6, <4>1, <4>2, <4>3, <4>4, Answered DEF Base
    <3>. QED
      BY <3>1, <3>2
  <2>. QED
    BY <1>1, <1>7, <1>13, <2>8, <2>9, <2>11, <2>12 DEF Agreed
<1>. QED
  BY <1>3, <1>9, <1>10, <1>12, <1>13

LEMMA ReceiveFrameAgreed ==
  ASSUME Base, Agreed, ReceiveFrame
  PROVE  Agreed'
<1> DEFINE f == bus[1]
<1>1. /\ bus # <<>> /\ bus' = Tail(bus) /\ Head(bus) = f /\ 1 \in 1 .. Len(bus)
      /\ Takes(f.to, f) /\ f \in DataFrame /\ UNCHANGED <<messages, send>>
      /\ \A e \in Ecus \ {f.to} : receive'[e] = receive[e]
  BY ReceiveFrameIs, BusTail
<1>2. f.to = DefaultEcu
  BY <1>1 DEF Agreed, Bus, Genuine
<1>3. /\ Takes(DefaultEcu, f) /\ \A e \in Ecus \ {DefaultEcu} : receive'[e] = receive[e]
      /\ f.kind \in {"SF", "FF", "CF"}
  BY <1>1, <1>2 DEF DataFrame
<1>4. CASE f.kind = "SF"
  <2>1. OnSingleFrame(DefaultEcu, f)
    BY <1>3, <1>4 DEF Takes
  <2>. QED
    BY <1>1, <1>3, <1>4, <2>1, SingleAgreed
<1>5. CASE f.kind = "FF"
  <2>1. OnFirstFrame(DefaultEcu, f)
    BY <1>3, <1>5 DEF Takes
  <2>. QED
    BY <1>1, <1>3, <1>5, <2>1, FirstAgreed
<1>6. CASE f.kind = "CF"
  <2>1. OnConsecutiveFrame(DefaultEcu, f)
    BY <1>3, <1>6 DEF Takes
  <2>. QED
    BY <1>1, <1>3, <1>6, <2>1, ConsecutiveAgreed
<1>. QED
  BY <1>3, <1>4, <1>5, <1>6

-----------------------------------------------------------------------------
LEMMA IInvInit == Init => IInv
<1> SUFFICES ASSUME Init PROVE IInv
  OBVIOUS
<1>1. Base
  BY BaseInit
<1>2. /\ Len(bus) = 0 /\ Len(back) = 0 /\ Len(delivered) = 0 /\ ~Sending
      /\ \A e \in Ecus : receive[e].status = "idle"
  BY DEF Init, Sending
<1>3. ~Busy
  BY <1>2, Constants DEF Busy, ecu
<1>4. Bus /\ Window /\ Answers /\ AllWhole
  BY <1>2 DEF Bus, Window, Answers, AllWhole
<1>5. Receiver /\ Sender
  BY <1>2, <1>3 DEF Receiver, Sender
<1>. QED
  BY <1>1, <1>4, <1>5 DEF IInv, Agreed

(* A step that sends nothing leaves the messages as they are, regular ones *)
(* too.                                                                    *)
LEMMA SameRegular ==
  ASSUME messages' = messages
  PROVE  Regular' = Regular
BY DEF Regular, Current

LEMMA IInvNext ==
  ASSUME IInv, [Next]_vars
  PROVE  IInv'
<1>1. Base /\ (Regular => Agreed)
  BY DEF IInv
<1>2. ASSUME NEW e \in Ecus, NEW size \in Lengths, Send(e, size) PROVE IInv'
  <2>1. /\ Base' /\ Current' = Current + 1 /\ Current \in Nat
        /\ \A m \in 1 .. Current : messages'[m] = messages[m]
    BY <1>1, <1>2, SendIs, Numbers
  <2>2. Regular' => Regular
    <3>1. Current' >= Current /\ Current' \in Nat
      BY <2>1
    <3>. QED
      BY <1>1, <2>1, <3>1, StillRegular
  <2>3. Regular' => Agreed'
    BY <1>1, <1>2, <2>2, SendAgreed
  <2>. QED
    BY <2>1, <2>3 DEF IInv
<1>3. ASSUME PollSend PROVE IInv'
  <2>1. Base' /\ messages' = messages
    BY <1>1, <1>3, PollSendIs
  <2>2. Regular' => Agreed'
    BY <1>1, <1>3, <2>1, SameRegular, PollSendAgreed
  <2>. QED
    BY <2>1, <2>2 DEF IInv
<1>4. ASSUME PollTimeout PROVE IInv'
  <2>1. Base' /\ messages' = messages
    BY <1>1, <1>4, PollTimeoutIs
  <2>2. Regular' => Agreed'
    BY <1>1, <1>4, <2>1, SameRegular, PollTimeoutAgreed
  <2>. QED
    BY <2>1, <2>2 DEF IInv
<1>5. ASSUME Elapse PROVE IInv'
  <2>1. Base' /\ messages' = messages
    BY <1>1, <1>5, ElapseIs
  <2>2. Regular' => Agreed'
    BY <1>1, <1>5, <2>1, SameRegular, ElapseAgreed
  <2>. QED
    BY <2>1, <2>2 DEF IInv
<1>6. ASSUME ReceiveBack PROVE IInv'
  <2>1. /\ Base' /\ Current' = Current
        /\ \A m \in 1 .. Current : /\ messages'[m].to = messages[m].to
                                   /\ messages[m].overrun => messages'[m].overrun
    BY <1>1, <1>6, ReceiveBackIs
  <2>2. Regular' => Regular
    <3>1. Current' >= Current /\ Current' \in Nat
      BY <1>1, <2>1, Numbers
    <3>. QED
      BY <1>1, <2>1, <3>1, StillRegular
  <2>3. Regular' => Agreed'
    BY <1>1, <1>6, <2>2, ReceiveBackAgreed
  <2>. QED
    BY <2>1, <2>3 DEF IInv
<1>7. ASSUME ReceiveFrame PROVE IInv'
  <2>1. Base' /\ messages' = messages
    BY <1>1, <1>7, ReceiveFrameIs
  <2>2. Regular' => Agreed'
    BY <1>1, <1>7, <2>1, SameRegular, ReceiveFrameAgreed
  <2>. QED
    BY <2>1, <2>2 DEF IInv
<1>8. ASSUME LoseFrame \/ LoseBack PROVE IInv'
  <2>1. messages' = messages /\ Base'
    <3>1. /\ UNCHANGED <<messages, send, receive, delivered>> /\ responseId' \in Ecus
          /\ \/ bus # <<>> /\ bus' = Tail(bus) /\ back' = back
             \/ back # <<>> /\ back' = Tail(back) /\ bus' = bus
      BY <1>1, <1>8, Types DEF LoseFrame, LoseBack, Base
    <3>. QED
      BY <1>1, <3>1, LostIs
  <2>2. Regular' => Agreed'
    BY <1>1, <1>8, <2>1, SameRegular, LoseFrameAgreed, LoseBackAgreed
  <2>. QED
    BY <2>1, <2>2 DEF IInv
<1>9. ASSUME NEW e \in Ecus, SetResponseId(e) PROVE IInv'
  <2>1. messages' = messages /\ Base'
    <3>1. /\ UNCHANGED <<messages, send, receive, delivered, bus, back>> /\ responseId' \in Ecus
      BY <1>9 DEF SetResponseId
    <3>. QED
      BY <1>1, <3>1, LostIs
  <2>2. Regular' => Agreed'
    BY <1>1, <1>9, <2>1, SameRegular, SetResponseIdAgreed
  <2>. QED
    BY <2>1, <2>2 DEF IInv
<1>10. ASSUME NEW e \in Ecus, CrTimeout(e) PROVE IInv'
  <2>1. Base' /\ messages' = messages
    BY <1>1, <1>10, CrTimeoutIs
  <2>2. Regular' => Agreed'
    BY <1>1, <1>10, <2>1, SameRegular, CrTimeoutAgreed
  <2>. QED
    BY <2>1, <2>2 DEF IInv
<1>11. ASSUME NEW e \in Ecus, AskToWait(e) PROVE IInv'
  <2>1. Base' /\ messages' = messages
    BY <1>1, <1>11, AskToWaitIs
  <2>2. Regular' => Agreed'
    BY <1>1, <1>11, <2>1, SameRegular, AskToWaitAgreed
  <2>. QED
    BY <2>1, <2>2 DEF IInv
<1>12. ASSUME UNCHANGED vars PROVE IInv'
  <2>1. UNCHANGED <<messages, send, responseId, receive, bus, back, delivered>>
    BY <1>12 DEF vars
  <2>2. Base'
    BY <1>1, <2>1, LostIs, Types DEF Base
  <2>3. Agreed => Agreed'
    <3> SUFFICES ASSUME Agreed PROVE Agreed'
      OBVIOUS
    <3>1. Bus' /\ Receiver' /\ Window' /\ Sender' /\ AllWhole'
      BY <2>1, Unmoved
    <3>2. Answers'
      BY <2>1, SameEcu, SameSender DEF Agreed, Answers
    <3>. QED
      BY <3>1, <3>2 DEF Agreed
  <2>. QED
    BY <1>1, <2>1, <2>2, <2>3, SameRegular DEF IInv
<1>13. \/ \E e \in Ecus, size \in Lengths : Send(e, size)
       \/ \E e \in Ecus : SetResponseId(e) \/ CrTimeout(e) \/ AskToWait(e)
       \/ PollSend \/ PollTimeout \/ Elapse
       \/ ReceiveFrame \/ LoseFrame \/ ReceiveBack \/ LoseBack
       \/ UNCHANGED vars
  BY DEF Next, Poll
<1>. QED
  BY <1>2, <1>3, <1>4, <1>5, <1>6, <1>7, <1>8, <1>9, <1>10, <1>11, <1>12, <1>13

(* What each variable of the link can hold: the counters stay within what  *)
(* their fields are for, and frames name messages that were sent.          *)
THEOREM TypeCorrect == Spec => []TypeOK
<1>1. IInv => TypeOK
  BY DEF IInv, Base
<1>. QED
  BY IInvInit, IInvNext, <1>1, PTL DEF Spec

(* What an ECU is handed is one message, with all its segments in order,   *)
(* whatever frames the bus loses and whenever the user sends again: as     *)
(* long as everything goes to the link's own id and none of it ended with  *)
(* too many wait frames (isotp_on_can_message).                            *)
THEOREM MessagesAreWhole == Spec => []WholeMessages
<1>1. IInv => WholeMessages
  <2> SUFFICES ASSUME IInv,
                      ~ \E m \in 1 .. Current :
                          messages[m].to # DefaultEcu \/ messages[m].overrun
               PROVE  \A i \in DOMAIN delivered : Whole(delivered[i])
    BY DEF WholeMessages
  <2>1. Regular
    BY DEF Regular
  <2>2. delivered \in Seq(Seq(Segments)) /\ AllWhole
    BY <2>1, Types DEF IInv, Base, Agreed
  <2>3. DOMAIN delivered = 1 .. Len(delivered)
    BY <2>2, LenProperties
  <2>. QED
    BY <2>2, <2>3 DEF AllWhole
<1>. QED
  BY IInvInit, IInvNext, <1>1, PTL DEF Spec

-----------------------------------------------------------------------------
(* Whole messages arrive once each and in order, whichever ids they are    *)
(* sent to: the frames of the bus are in order, those of one message too,  *)
(* and behind the last segment of a message nothing of it follows.         *)
InOrder ==
  \A i, j \in 1 .. Len(delivered) : i < j =>
    \A m, n \in 1 .. Current :
      delivered[i] = Partial(m, Size(m)) /\ delivered[j] = Partial(n, Size(n)) => m < n

Ahead(f, g) ==
  f.of.msg < g.of.msg \/ (f.of.msg = g.of.msg /\ f.of.seg < g.of.seg)

Cut ==
  /\ \A i \in 1 .. Len(bus) : bus[i].of.seg <= Size(bus[i].of.msg)
  /\ \A i, j \in 1 .. Len(bus) : i < j => Ahead(bus[i], bus[j])
  /\ Sending => /\ 1 <= send.offset /\ send.offset < Size(Current)
                /\ \A i \in 1 .. Len(bus) :
                     bus[i].of.msg = Current => bus[i].of.seg <= send.offset

Over ==
  \A i \in 1 .. Len(delivered), m \in 1 .. Current : delivered[i] = Partial(m, Size(m)) =>
    /\ \A j \in 1 .. Len(bus) : m < bus[j].of.msg
    /\ Sending => m < Current

(* What is handed on ends with a segment of a message that was sent.       *)
Known == \A i \in 1 .. Len(delivered) : delivered[i][Len(delivered[i])].msg \in 1 .. Current

Ordered == Cut /\ Over /\ Known /\ InOrder

LEMMA CutKept ==
  ASSUME Base, Cut, Current' = Current,
         \A m \in 1 .. Current : messages'[m].size = messages[m].size,
         Sending' => Sending /\ send'.offset = send.offset,
         bus' = bus \/ (bus # <<>> /\ bus' = Tail(bus))
  PROVE  Cut' /\ \A i \in 1 .. Len(bus') : \E k \in 1 .. Len(bus) : bus'[i] = bus[k]
<1> DEFINE d == IF bus' = bus THEN 0 ELSE 1
<1>1. /\ Len(bus) \in Nat
      /\ \A i \in 1 .. Len(bus') : i + d \in 1 .. Len(bus) /\ bus'[i] = bus[i + d]
  <2>1. CASE bus' = bus
    BY <2>1, Numbers
  <2>2. CASE bus' # bus
    BY <2>2, BusTail
  <2>. QED
    BY <2>1, <2>2
<1>2. d \in Nat
  OBVIOUS
<1> HIDE DEF d
<1>3. \A i \in 1 .. Len(bus') : bus'[i].of.seg <= messages'[bus'[i].of.msg].size
  <2> SUFFICES ASSUME NEW i \in 1 .. Len(bus')
               PROVE  bus'[i].of.seg <= messages'[bus'[i].of.msg].size
    OBVIOUS
  <2>1. i + d \in 1 .. Len(bus) /\ bus'[i] = bus[i + d]
    BY <1>1
  <2>2. bus'[i].of.msg \in 1 .. Current /\ bus'[i].of.seg <= Size(bus'[i].of.msg)
    BY <2>1, Numbers DEF Cut
  <2>. QED
    BY <2>2 DEF Size
<1>4. \A i, j \in 1 .. Len(bus') : i < j => Ahead(bus'[i], bus'[j])
  <2> SUFFICES ASSUME NEW i \in 1 .. Len(bus'), NEW j \in 1 .. Len(bus'), i < j
               PROVE  Ahead(bus'[i], bus'[j])
    OBVIOUS
  <2>1. /\ i + d \in 1 .. Len(bus) /\ bus'[i] = bus[i + d]
        /\ j + d \in 1 .. Len(bus) /\ bus'[j] = bus[j + d]
    BY <1>1
  <2>2. i + d < j + d
    BY <1>2
  <2>3. Ahead(bus[i + d], bus[j + d])
    BY <2>1, <2>2 DEF Cut
  <2>. QED
    BY <2>1, <2>3
<1>5. Sending' =>
        /\ 1 <= send'.offset /\ send'.offset < messages'[Current].size
        /\ \A i \in 1 .. Len(bus') : bus'[i].of.msg = Current => bus'[i].of.seg <= send'.offset
  <2> SUFFICES ASSUME Sending'
               PROVE  /\ 1 <= send.offset /\ send.offset < messages'[Current].size
                      /\ \A i \in 1 .. Len(bus') :
                           bus'[i].of.msg = Current => bus'[i].of.seg <= send.offset
    OBVIOUS
  <2>1. /\ 1 <= send.offset /\ send.offset < Size(Current)
        /\ \A i \in 1 .. Len(bus) : bus[i].of.msg = Current => bus[i].of.seg <= send.offset
    BY DEF Cut
  <2>2. messages'[Current].size = Size(Current)
    BY Numbers DEF Base, Bounds, Size
  <2>. QED
    BY <1>1, <2>1, <2>2
<1>6. Cut'
  <2>1. \A i, j \in 1 .. Len(bus') : i < j => Ahead(bus[i], bus[j])'
    BY <1>4 DEF Ahead
  <2>. QED
    BY <1>3, <1>5, <2>1 DEF Cut, Size
<1>. QED
  BY <1>1, <1>6

(* Nothing is handed on in such a step.                                    *)
LEMMA OrderKept ==
  ASSUME Base, Ordered, Current' = Current, delivered' = delivered,
         \A m \in 1 .. Current : messages'[m].size = messages[m].size,
         Sending' => Sending /\ send'.offset = send.offset,
         bus' = bus \/ (bus # <<>> /\ bus' = Tail(bus))
  PROVE  Ordered'
<1>1. Cut' /\ \A i \in 1 .. Len(bus') : \E k \in 1 .. Len(bus) : bus'[i] = bus[k]
  BY CutKept DEF Ordered
<1>2. \A m \in 1 .. Current : Size(m)' = Size(m)
  BY DEF Size
<1>3. Over'
  BY <1>1, <1>2 DEF Ordered, Over, Partial
<1>4. InOrder'
  BY <1>2 DEF Ordered, InOrder, Partial
<1>5. Known'
  BY DEF Ordered, Known
<1>. QED
  BY <1>1, <1>3, <1>4, <1>5 DEF Ordered

LEMMA WholeLength ==
  ASSUME NEW m, NEW k \in Nat \ {0}
  PROVE  Len(Partial(m, k)) = k /\ Partial(m, k)[k] = [msg |-> m, seg |-> k]
BY DEF Partial

LEMMA SendOrdered ==
  ASSUME Base, Ordered, NEW e \in Ecus, NEW size \in Lengths, Send(e, size)
  PROVE  Ordered'
<1>1. /\ ~Sending /\ Current' = Current + 1
      /\ \A m \in 1 .. Current : messages'[m] = messages[m]
      /\ messages'[Current'] = [to |-> e, size |-> size, overrun |-> FALSE]
      /\ Len(bus') = Len(bus) + 1
      /\ \A i \in 1 .. Len(bus) : bus'[i] = bus[i]
      /\ bus'[Len(bus) + 1] = Frame(e, IF size = 1 THEN "SF" ELSE "FF", Current', 1, 0)
      /\ size = 1 => send' = send
      /\ size # 1 => Sending' /\ send'.offset = 1
      /\ delivered' = delivered
  BY SendIs
<1>2. /\ Current \in Nat /\ Len(bus) \in Nat /\ Len(delivered) \in Nat /\ size \in Nat /\ size >= 1
      /\ \A i \in 1 .. Len(bus) : bus[i].of.msg \in 1 .. Current /\ bus[i].of.seg \in Nat
      /\ \A m \in 1 .. Current : Size(m) \in Nat /\ Size(m) >= 1
  <2>1. size \in Nat /\ size >= 1
    BY Constants
  <2>. QED
    BY <2>1, Numbers
<1>3. /\ \A m \in 1 .. Current : messages'[m].size = Size(m)
      /\ messages'[Current'].size = size /\ Current' \in Nat
  BY <1>1, <1>2 DEF Size
<1> DEFINE n == Len(bus) + 1
           new == bus'[n]
<1>4. new.of.msg = Current' /\ new.of.seg = 1
  BY <1>1 DEF Frame
<1>5. \A i \in 1 .. Len(bus') : i = n \/ i \in 1 .. Len(bus)
  BY <1>1, <1>2
<1>6. Sending' => size # 1 /\ send'.offset = 1
  BY <1>1 DEF Sending
<1> HIDE DEF new
<1>7. Cut'
  <2>1. ASSUME NEW i \in 1 .. Len(bus') PROVE bus'[i].of.seg <= messages'[bus'[i].of.msg].size
    <3>1. CASE i = n
      BY <1>2, <1>3, <1>4, <3>1 DEF new
    <3>2. CASE i \in 1 .. Len(bus)
      BY <1>1, <1>2, <1>3, <3>2 DEF Ordered, Cut
    <3>. QED
      BY <1>5, <3>1, <3>2
  <2>2. ASSUME NEW i \in 1 .. Len(bus'), NEW j \in 1 .. Len(bus'), i < j
        PROVE  Ahead(bus'[i], bus'[j])
    <3>1. i \in 1 .. Len(bus)
      BY <1>1, <1>2, <2>2
    <3>2. CASE j = n
      BY <1>1, <1>2, <1>4, <3>1, <3>2 DEF Ahead, new
    <3>3. CASE j \in 1 .. Len(bus)
      BY <1>1, <2>2, <3>1, <3>3 DEF Ordered, Cut
    <3>. QED
      BY <1>5, <3>2, <3>3
  <2>3. \A i \in 1 .. Len(bus') : bus'[i].of.msg = Current' => bus'[i].of.seg <= 1
    BY <1>1, <1>2, <1>4, <1>5 DEF new
  <2>4. Sending' => /\ 1 <= send'.offset /\ send'.offset < messages'[Current'].size
                    /\ \A i \in 1 .. Len(bus') :
                         bus'[i].of.msg = Current' => bus'[i].of.seg <= send'.offset
    BY <1>2, <1>3, <1>6, <2>3
  <2>5. \A i, j \in 1 .. Len(bus') : i < j => Ahead(bus[i], bus[j])'
    BY <2>2 DEF Ahead
  <2>. QED
    BY <2>1, <2>4, <2>5 DEF Cut, Size
<1>8. ASSUME NEW i \in 1 .. Len(delivered), NEW m \in 1 .. Current',
             delivered[i] = Partial(m, messages'[m].size)
      PROVE  m \in 1 .. Current /\ delivered[i] = Partial(m, Size(m))
  <2>1. m \in 1 .. Current
    <3> SUFFICES ASSUME m = Current' PROVE FALSE
      BY <1>1, <1>2
    <3>1. delivered[i] = Partial(Current', size)
      BY <1>3, <1>8
    <3>2. Len(delivered[i]) = size /\ delivered[i][size] = [msg |-> Current', seg |-> size]
      BY <1>2, <3>1, WholeLength
    <3>3. delivered[i][size].msg \in 1 .. Current
      BY <3>2 DEF Ordered, Known
    <3>. QED
      BY <1>1, <1>2, <3>2, <3>3
  <2>. QED
    BY <1>3, <1>8, <2>1
<1>9. Over'
  <2>1. ASSUME NEW i \in 1 .. Len(delivered), NEW m \in 1 .. Current',
               delivered[i] = Partial(m, messages'[m].size)
        PROVE  /\ \A j \in 1 .. Len(bus') : m < bus'[j].of.msg
               /\ Sending' => m < Current'
    <3>1. m \in 1 .. Current /\ delivered[i] = Partial(m, Size(m))
      BY <1>8, <2>1
    <3>2. m < Current' /\ \A j \in 1 .. Len(bus) : m < bus[j].of.msg
      <4>1. m < Current'
        BY <1>1, <1>2, <3>1
      <4>2. i \in 1 .. Len(delivered)
        BY <2>1
      <4>. QED
        BY <3>1, <4>1, <4>2, Zenon DEF Ordered, Over
    <3>3. ASSUME NEW j \in 1 .. Len(bus') PROVE m < bus'[j].of.msg
      <4>1. CASE j = n
        BY <1>4, <3>2, <4>1 DEF new
      <4>2. CASE j \in 1 .. Len(bus)
        BY <1>1, <3>2, <4>2
      <4>. QED
        BY <1>5, <4>1, <4>2
    <3>. QED
      BY <3>2, <3>3
  <2>. QED
    BY <1>1, <2>1 DEF Over, Partial, Size
<1>10. InOrder'
  <2>1. ASSUME NEW i \in 1 .. Len(delivered), NEW j \in 1 .. Len(delivered), i < j,
               NEW m \in 1 .. Current', NEW k \in 1 .. Current',
               delivered[i] = Partial(m, messages'[m].size),
               delivered[j] = Partial(k, messages'[k].size)
        PROVE  m < k
    <3>1. m \in 1 .. Current /\ delivered[i] = Partial(m, Size(m))
      BY <1>8, <2>1
    <3>2. k \in 1 .. Current /\ delivered[j] = Partial(k, Size(k))
      BY <1>8, <2>1
    <3>. QED
      BY <2>1, <3>1, <3>2 DEF Ordered, InOrder
  <2>. QED
    BY <1>1, <2>1 DEF InOrder, Partial, Size
<1>11. Known'
  <2>1. \A m \in 1 .. Current : m \in 1 .. Current'
    BY <1>1, <1>2
  <2>. QED
    BY <1>1, <2>1 DEF Ordered, Known
<1>. QED
  BY <1>7, <1>9, <1>10, <1>11 DEF Ordered

LEMMA PollSendOrdered ==
  ASSUME Base, Ordered, PollSend
  PROVE  Ordered'
<1>1. /\ Sending /\ Current' = Current
      /\ Len(bus') = Len(bus) + 1
      /\ \A i \in 1 .. Len(bus) : bus'[i] = bus[i]
      /\ bus'[Len(bus) + 1] = Frame(DefaultEcu, "CF", Current, send.offset + 1, send.sn)
      /\ send'.offset = send.offset + 1 /\ (Sending' <=> send.offset + 1 < Size(Current))
      /\ messages' = messages /\ delivered' = delivered
  BY PollSendIs
<1>2. /\ Current \in Nat /\ Len(bus) \in Nat /\ send.offset \in Nat /\ Current \in 1 .. Current
      /\ \A i \in 1 .. Len(bus) : bus[i].of.msg \in 1 .. Current /\ bus[i].of.seg \in Nat
      /\ Size(Current) \in Nat
  <2>1. Current \in 1 .. Current
    BY <1>1, Numbers DEF Base, Bounds
  <2>. QED
    BY <2>1, Numbers
<1>3. /\ 1 <= send.offset /\ send.offset < Size(Current)
      /\ \A i \in 1 .. Len(bus) : bus[i].of.msg = Current => bus[i].of.seg <= send.offset
  BY <1>1 DEF Ordered, Cut
<1> DEFINE n == Len(bus) + 1
           new == bus'[n]
<1>4. new.of.msg = Current /\ new.of.seg = send.offset + 1
  BY <1>1 DEF Frame
<1>5. \A i \in 1 .. Len(bus') : i = n \/ i \in 1 .. Len(bus)
  BY <1>1, <1>2
<1>6. \A m : messages'[m].size = Size(m)
  BY <1>1 DEF Size
<1> HIDE DEF new
<1>7. Cut'
  <2>1. ASSUME NEW i \in 1 .. Len(bus') PROVE bus'[i].of.seg <= Size(bus'[i].of.msg)
    <3>1. CASE i = n
      BY <1>2, <1>3, <1>4, <3>1 DEF new
    <3>2. CASE i \in 1 .. Len(bus)
      BY <1>1, <3>2 DEF Ordered, Cut
    <3>. QED
      BY <1>5, <3>1, <3>2
  <2>2. ASSUME NEW i \in 1 .. Len(bus'), NEW j \in 1 .. Len(bus'), i < j
        PROVE  Ahead(bus'[i], bus'[j])
    <3>1. i \in 1 .. Len(bus)
      BY <1>1, <1>2, <2>2
    <3>2. CASE j = n
      BY <1>1, <1>2, <1>3, <1>4, <3>1, <3>2 DEF Ahead, new
    <3>3. CASE j \in 1 .. Len(bus)
      BY <1>1, <2>2, <3>1, <3>3 DEF Ordered, Cut
    <3>. QED
      BY <1>5, <3>2, <3>3
  <2>3. \A i, j \in 1 .. Len(bus') : i < j => Ahead(bus[i], bus[j])'
    BY <2>2 DEF Ahead
  <2>4. ASSUME NEW i \in 1 .. Len(bus'), bus'[i].of.msg = Current
        PROVE  bus'[i].of.seg <= send'.offset
    <3>1. CASE i = n
      BY <1>1, <1>2, <1>4, <3>1 DEF new
    <3>2. CASE i \in 1 .. Len(bus)
      BY <1>1, <1>2, <1>3, <2>4, <3>2
    <3>. QED
      BY <1>5, <3>1, <3>2
  <2>5. Sending' => 1 <= send'.offset /\ send'.offset < Size(Current)
    BY <1>1, <1>2
  <2>. QED
    BY <1>1, <1>6, <2>1, <2>3, <2>4, <2>5 DEF Cut, Size
<1>8. Over'
  <2>1. ASSUME NEW i \in 1 .. Len(delivered), NEW m \in 1 .. Current,
               delivered[i] = Partial(m, Size(m))
        PROVE  m < Current /\ \A j \in 1 .. Len(bus') : m < bus'[j].of.msg
    <3>1. m < Current /\ \A j \in 1 .. Len(bus) : m < bus[j].of.msg
      BY <1>1, <2>1, Zenon DEF Ordered, Over
    <3>2. ASSUME NEW j \in 1 .. Len(bus') PROVE m < bus'[j].of.msg
      <4>1. CASE j = n
        BY <1>4, <3>1, <4>1 DEF new
      <4>2. CASE j \in 1 .. Len(bus)
        BY <1>1, <3>1, <4>2
      <4>. QED
        BY <1>5, <4>1, <4>2
    <3>. QED
      BY <3>1, <3>2
  <2>. QED
    BY <1>1, <1>6, <2>1 DEF Over, Partial, Size
<1>9. InOrder'
  BY <1>1, <1>6 DEF Ordered, InOrder, Partial, Size
<1>10. Known'
  BY <1>1 DEF Ordered, Known
<1>. QED
  BY <1>7, <1>8, <1>9, <1>10 DEF Ordered

(* What a link hands on when it takes a frame ends with that frame.        *)
LEMMA HandedOn ==
  ASSUME Base, NEW f \in DataFrame, Takes(f.to, f)
  PROVE  \/ delivered' = delivered
         \/ \E d \in Seq(Segments) :
              delivered' = Append(delivered, d) /\ Len(d) \in Nat \ {0} /\ d[Len(d)] = f.of
<1>1. f.to \in Ecus /\ f.of \in Segments /\ f.kind \in {"SF", "FF", "CF"}
  BY DEF DataFrame
<1>2. CASE f.kind = "SF"
  <2> DEFINE d == <<f.of>>
  <2>1. delivered' = Append(delivered, d)
    BY <1>2 DEF Takes, OnSingleFrame
  <2>2. d \in Seq(Segments) /\ Len(d) \in Nat \ {0} /\ d[Len(d)] = f.of
    BY <1>1
  <2> HIDE DEF d
  <2>. QED
    BY <2>1, <2>2
<1>3. CASE f.kind = "FF"
  BY <1>3 DEF Takes, OnFirstFrame
<1>4. CASE f.kind = "CF"
  <2> DEFINE s == receive[f.to]
             got == Taken(s, f)
  <2>1. delivered' = delivered \/ delivered' = Append(delivered, got.segs)
    <3>1. OnConsecutiveFrame(f.to, f)
      BY <1>4, Zenon DEF Takes
    <3>. QED
      BY <3>1, ConsecutiveIs
  <2>2. s \in ReceiveState
    BY <1>1, Types DEF Base
  <2>3. s.segs \in Seq(Segments) /\ got.segs = Append(s.segs, f.of)
    <3> HIDE DEF s
    <3>. QED
      BY <1>1, <2>2, GotIs DEF ReceiveState
  <2> HIDE DEF s, got
  <2>4. /\ got.segs \in Seq(Segments) /\ Len(got.segs) \in Nat \ {0}
        /\ got.segs[Len(got.segs)] = f.of
    BY <1>1, <2>3, AppendedIs
  <2>. QED
    BY <2>1, <2>4
<1>. QED
  BY <1>1, <1>2, <1>3, <1>4

LEMMA ReceiveFrameOrdered ==
  ASSUME Base, Ordered, ReceiveFrame
  PROVE  Ordered'
<1> DEFINE f == bus[1]
<1>1. /\ bus # <<>> /\ bus' = Tail(bus) /\ Head(bus) = f /\ 1 \in 1 .. Len(bus)
      /\ Takes(f.to, f) /\ f \in DataFrame /\ UNCHANGED <<messages, send>>
      /\ f.of.msg \in 1 .. Current /\ f.of.seg \in Nat
      /\ \A i \in 1 .. Len(bus') : i + 1 \in 1 .. Len(bus) /\ bus'[i] = bus[i + 1]
  <2>1. /\ bus # <<>> /\ bus' = Tail(bus) /\ Takes(Head(bus).to, Head(bus))
        /\ UNCHANGED <<messages, send>>
    BY ReceiveFrameIs
  <2>2. /\ Head(bus) = f /\ 1 \in 1 .. Len(bus) /\ Head(bus) \in DataFrame
        /\ \A i \in 1 .. Len(bus') : i + 1 \in 1 .. Len(bus) /\ bus'[i] = bus[i + 1]
    BY <2>1, BusTail
  <2>3. f.of.msg \in 1 .. Current /\ f.of.seg \in Nat
    BY <2>2, Numbers
  <2>. QED
    BY <2>1, <2>2, <2>3, Zenon
<1>2. /\ Sending' = Sending /\ Current' = Current /\ \A m : messages'[m].size = Size(m)
  BY <1>1, SameSender DEF Size
<1> HIDE DEF f
<1>3. CASE delivered' = delivered
  BY <1>1, <1>2, <1>3, OrderKept
<1>4. ASSUME NEW d \in Seq(Segments), delivered' = Append(delivered, d),
             Len(d) \in Nat \ {0}, d[Len(d)] = f.of
      PROVE  Ordered'
  <2> DEFINE n == Len(delivered) + 1
  <2>1. /\ Len(delivered') = n /\ Len(delivered) \in Nat
        /\ \A i \in 1 .. Len(delivered) : delivered'[i] = delivered[i]
        /\ delivered'[n] = d
    <3>1. delivered \in Seq(Seq(Segments))
      BY Types DEF Base
    <3>. QED
      BY <1>4, <3>1, AppendedIs
  <2>2. \A i \in 1 .. Len(delivered') : i = n \/ i \in 1 .. Len(delivered)
    BY <2>1
  <2> HIDE DEF n
  <2>3. Cut'
    BY <1>1, <1>2, CutKept DEF Ordered
  <2>4. \A i \in 1 .. Len(bus) : bus[i].of.msg \in 1 .. Current /\ bus[i].of.seg \in Nat
    BY Numbers
  <2>5. /\ Current \in Nat /\ send.offset \in Nat
        /\ \A m \in 1 .. Current : Size(m) \in Nat \ {0}
    BY Numbers
  <2>6. ASSUME NEW m \in 1 .. Current, d = Partial(m, Size(m))
        PROVE  /\ f.of.msg = m /\ f.of.seg = Size(m)
               /\ \A j \in 1 .. Len(bus') : m < bus'[j].of.msg
               /\ Sending => m < Current
    <3>1. f.of.msg = m /\ f.of.seg = Size(m)
      <4>1. Size(m) \in Nat \ {0}
        BY <2>5
      <4>2. Len(d) = Size(m) /\ d[Size(m)] = [msg |-> m, seg |-> Size(m)]
        BY <2>6, <4>1, WholeLength
      <4>3. f.of = [msg |-> m, seg |-> Size(m)]
        BY <1>4, <4>2
      <4>. QED
        BY <4>3
    <3>2. ASSUME NEW j \in 1 .. Len(bus') PROVE m < bus'[j].of.msg
      <4>1. /\ j + 1 \in 1 .. Len(bus) /\ 1 < j + 1 /\ bus'[j] = bus[j + 1]
        BY <1>1
      <4>2. Ahead(f, bus[j + 1]) /\ bus[j + 1].of.seg <= Size(bus[j + 1].of.msg)
        BY <1>1, <4>1 DEF Ordered, Cut, f
      <4>3. bus[j + 1].of.msg \in 1 .. Current /\ bus[j + 1].of.seg \in Nat
        BY <2>4, <4>1
      <4>4. ~(bus[j + 1].of.msg = m /\ Size(m) < bus[j + 1].of.seg)
        BY <2>5, <4>2, <4>3
      <4>. QED
        BY <3>1, <4>1, <4>2, <4>4 DEF Ahead
    <3>3. Sending => m < Current
      <4> SUFFICES ASSUME Sending, m = Current PROVE FALSE
        BY <2>5
      <4>1. f.of.seg <= send.offset /\ send.offset < Size(Current)
        BY <1>1, <3>1 DEF Ordered, Cut, f
      <4>. QED
        BY <2>5, <3>1, <4>1
    <3>. QED
      BY <3>1, <3>2, <3>3
  <2>7. Over'
    <3>1. ASSUME NEW i \in 1 .. Len(delivered'), NEW m \in 1 .. Current,
                 delivered'[i] = Partial(m, Size(m))
          PROVE  /\ \A j \in 1 .. Len(bus') : m < bus'[j].of.msg
                 /\ Sending => m < Current
      <4>1. CASE i = n
        BY <2>1, <2>6, <3>1, <4>1
      <4>2. CASE i \in 1 .. Len(delivered)
        <5>1. delivered[i] = Partial(m, Size(m))
          BY <2>1, <3>1, <4>2
        <5>2. /\ \A j \in 1 .. Len(bus) : m < bus[j].of.msg
              /\ Sending => m < Current
          BY <4>2, <5>1, Zenon DEF Ordered, Over
        <5>. QED
          BY <1>1, <5>2
      <4>. QED
        BY <2>2, <4>1, <4>2
    <3>. QED
      BY <1>2, <3>1 DEF Over, Partial, Size
  <2>8. InOrder'
    <3>1. ASSUME NEW i \in 1 .. Len(delivered'), NEW j \in 1 .. Len(delivered'), i < j,
                 NEW m \in 1 .. Current, NEW k \in 1 .. Current,
                 delivered'[i] = Partial(m, Size(m)), delivered'[j] = Partial(k, Size(k))
          PROVE  m < k
      <4>1. i \in 1 .. Len(delivered) /\ delivered[i] = Partial(m, Size(m))
        <5>1. i \in 1 .. Len(delivered)
          BY <2>1, <2>2, <3>1 DEF n
        <5>. QED
          BY <2>1, <3>1, <5>1
      <4>2. CASE j = n
        <5>1. d = Partial(k, Size(k))
          BY <2>1, <3>1, <4>2
        <5>2. f.of.msg = k
          BY <2>6, <5>1
        <5>3. m < f.of.msg
          BY <1>1, <4>1, Zenon DEF Ordered, Over, f
        <5>. QED
          BY <5>2, <5>3
      <4>3. CASE j \in 1 .. Len(delivered)
        <5>1. delivered[j] = Partial(k, Size(k))
          BY <2>1, <3>1, <4>3
        <5>. QED
          BY <3>1, <4>1, <4>3, <5>1, Zenon DEF Ordered, InOrder
      <4>. QED
        BY <2>2, <4>2, <4>3
    <3>. QED
      BY <1>2, <3>1 DEF InOrder, Partial, Size
  <2>9. Known'
    <3>1. ASSUME NEW i \in 1 .. Len(delivered')
          PROVE  delivered'[i][Len(delivered'[i])].msg \in 1 .. Current
      <4>1. CASE i = n
        BY <1>1, <1>4, <2>1, <4>1
      <4>2. CASE i \in 1 .. Len(delivered)
        BY <2>1, <4>2 DEF Ordered, Known
      <4>. QED
        BY <2>2, <4>1, <4>2
    <3>. QED
      BY <1>2, <3>1 DEF Known
  <2>. QED
    BY <2>3, <2>7, <2>8, <2>9 DEF Ordered
<1>. QED
  BY <1>1, <1>3, <1>4, HandedOn

LEMMA OrderedNext ==
  ASSUME Base, Ordered, [Next]_vars
  PROVE  Ordered'
<1>1. ASSUME NEW e \in Ecus, NEW size \in Lengths, Send(e, size) PROVE Ordered'
  BY <1>1, SendOrdered
<1>2. CASE PollSend
  BY <1>2, PollSendOrdered
<1>3. CASE ReceiveFrame
  BY <1>3, ReceiveFrameOrdered
<1>4. CASE ReceiveBack
  <2>1. /\ Current' = Current /\ bus' = bus /\ delivered' = delivered
        /\ \A m \in 1 .. Current : messages'[m].size = messages[m].size
        /\ Sending' => Sending /\ send'.offset = send.offset
    BY <1>4, ReceiveBackIs DEF Sending
  <2>. QED
    BY <2>1, OrderKept
<1>5. CASE Elapse
  <2>1. Sending /\ send'.offset = send.offset /\ UNCHANGED <<messages, bus, delivered>>
    BY <1>5, ElapseIs
  <2>2. Current' = Current
    BY <2>1 DEF Current
  <2>. QED
    BY <2>1, <2>2, OrderKept
<1>6. CASE PollTimeout
  <2>1. ~Sending' /\ UNCHANGED <<messages, bus, delivered>>
    BY <1>6, PollTimeoutIs
  <2>2. Current' = Current
    BY <2>1 DEF Current
  <2>. QED
    BY <2>1, <2>2, OrderKept
<1>7. CASE /\ UNCHANGED <<messages, send, delivered>>
           /\ bus' = bus \/ (bus # <<>> /\ bus' = Tail(bus))
  <2>1. Current' = Current /\ Sending' = Sending
    BY <1>7, SameSender
  <2>. QED
    BY <1>7, <2>1, OrderKept
<1>8. \/ \E e \in Ecus, size \in Lengths : Send(e, size)
      \/ PollSend \/ ReceiveFrame \/ ReceiveBack \/ Elapse \/ PollTimeout
      \/ /\ UNCHANGED <<messages, send, delivered>>
         /\ bus' = bus \/ (bus # <<>> /\ bus' = Tail(bus))
  BY DEF Next, Poll, vars, SetResponseId, CrTimeout, AskToWait, LoseFrame, LoseBack
<1>. QED
  BY <1>1, <1>2, <1>3, <1>4, <1>5, <1>6, <1>7, <1>8

LEMMA OrderedInit == Init => Ordered
<1> SUFFICES ASSUME Init PROVE Ordered
  OBVIOUS
<1>1. Len(bus) = 0 /\ Len(delivered) = 0 /\ ~Sending
  BY DEF Init, Sending
<1>. QED
  BY <1>1 DEF Ordered, Cut, Over, Known, InOrder

(* Of any two messages that are handed on whole, to whichever ids they     *)
(* were sent, the first was sent first: none is handed on twice or late,   *)
(* whatever is lost, given up and sent again (isotp_on_can_message).  This *)
(* is DeliveredInOrder without the sequence of the whole messages.         *)
THEOREM WholeInOrder == Spec => []InOrder
<1>1. Ordered => InOrder
  BY DEF Ordered
<1>2. IInv => Base
  BY DEF IInv
<1>. QED
  BY IInvInit, IInvNext, OrderedInit, OrderedNext, <1>1, <1>2, PTL DEF Spec
=============================================================================
