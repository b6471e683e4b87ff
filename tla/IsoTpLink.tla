------------------------------ MODULE IsoTpLink ------------------------------
(* Segmented messages over CAN: CanIsoTpEndpoint and the ISO-TP link it      *)
(* drives (libs/isotp).  The endpoint sends; each ECU receives with the same *)
(* link code, which is also how the endpoint receives: the sending and the   *)
(* receiving half of a link share no field.  Frames pass through one CAN     *)
(* queue each way and may be lost there.                                     *)
(*                                                                           *)
(* A message is its number.  It is cut into segments: one is a single frame, *)
(* more are a first frame and consecutive frames.                            *)
EXTENDS Naturals, Sequences, SequencesExt

CONSTANTS
  Ecus,        \* CAN ids the user may send to
  DefaultEcu,  \* send_arbitration_id, by SetDefaultEcuId
  Lengths,     \* lengths of messages, in segments
  BufferSize,  \* receive_buf_size, in segments
  BlockSize,   \* ISO_TP_DEFAULT_BLOCK_SIZE
  Sns,         \* number of sequence numbers, 16 in the code
  MaxWft,      \* ISO_TP_MAX_WFT_NUMBER
  MaxMessages, \* bound: messages sent
  MaxWaits     \* bound: wait frames on the bus

ASSUME LinkAssumption ==
  /\ DefaultEcu \in Ecus /\ Lengths \subseteq Nat \ {0}
  /\ BufferSize \in Nat \ {0} /\ MaxMessages \in Nat /\ MaxWaits \in Nat
  /\ BlockSize \in Nat \ {0} /\ Sns \in Nat /\ BlockSize < Sns
  /\ MaxWft \in Nat

VARIABLES
  messages,   \* those sent: length, the ECU the first frame is for, and
              \* whether it ended with ISOTP_PROTOCOL_RESULT_WFT_OVRN
  send,       \* send_status, send_offset, send_sn, send_bs_remain,
              \* send_wtf_count, and whether send_timer_bs has run out
  responseId, \* m_ResponseId, by the ECU that answers on it
  receive,    \* of each ECU's link: receive_status, receive_sn,
              \* receive_bs_count, the size wanted and the segments so far
  bus,        \* frames on their way to the ECUs
  back,       \* flow control frames on their way back
  delivered   \* messages the ECUs have put together, as segments

vars == <<messages, send, responseId, receive, bus, back, delivered>>

Segments == [msg : 1 .. MaxMessages, seg : Nat \ {0}]
Current == Len(messages)
Size(m) == messages[m].size

Init ==
  /\ messages = <<>>
  /\ send = [status |-> "idle", offset |-> 0, sn |-> 0, bs |-> 0, wft |-> 0,
             overdue |-> FALSE]
  /\ responseId = DefaultEcu
  /\ receive = [e \in Ecus |-> [status |-> "idle", sn |-> 0, bs |-> 0,
                                size |-> 0, segs |-> <<>>]]
  /\ bus = <<>> /\ back = <<>> /\ delivered = <<>>

Frame(to, kind, m, seg, sn) ==
  [to |-> to, kind |-> kind, of |-> [msg |-> m, seg |-> seg], sn |-> sn]

-----------------------------------------------------------------------------
(* The sending half.                                                       *)

(* isotp_send_with_id.  The first frame goes to the id that is given.  One *)
(* made while another is in progress is refused, and nobody is told.       *)
Send(e, size) ==
  /\ send.status # "inprogress" /\ Current < MaxMessages
  /\ messages' = Append(messages, [to |-> e, size |-> size, overrun |-> FALSE])
  /\ IF size = 1
     THEN bus' = Append(bus, Frame(e, "SF", Current + 1, 1, 0)) /\ UNCHANGED send
     ELSE /\ bus' = Append(bus, Frame(e, "FF", Current + 1, 1, 0))
          /\ send' = [status |-> "inprogress", offset |-> 1, sn |-> 1,
                      bs |-> 0, wft |-> 0, overdue |-> FALSE]
  /\ UNCHANGED <<responseId, receive, back, delivered>>

(* The consecutive frame a poll sends goes to the link's own id.           *)
PollSend ==
  /\ send.status = "inprogress" /\ send.bs > 0
  /\ bus' = Append(bus, Frame(DefaultEcu, "CF", Current, send.offset + 1, send.sn))
  /\ send' = [send EXCEPT
       !.status = IF send.offset + 1 >= Size(Current) THEN "idle" ELSE @,
       !.offset = @ + 1, !.sn = (@ + 1) % Sns, !.bs = @ - 1]
  /\ UNCHANGED <<messages, responseId, receive, back, delivered>>

(* 10 s without flow control, against which a frame's way over the bus     *)
(* counts as nothing.                                                      *)
Elapse ==
  /\ send.status = "inprogress" /\ send.bs = 0 /\ bus = <<>> /\ back = <<>>
  /\ send' = [send EXCEPT !.overdue = TRUE]
  /\ UNCHANGED <<messages, responseId, receive, bus, back, delivered>>

PollTimeout ==
  /\ send.status = "inprogress" /\ send.overdue
  /\ send' = [send EXCEPT !.status = "error"]
  /\ UNCHANGED <<messages, responseId, receive, bus, back, delivered>>

(* Mutant of OnFlowControl: wait frames are not counted.                   *)
OnFlowControlPatient(fs) ==
  /\ send' = IF send.status # "inprogress" THEN send
             ELSE [send EXCEPT !.overdue = FALSE,
                     !.bs = IF fs = "continue" THEN BlockSize ELSE @,
                     !.status = IF fs = "overflow" THEN "error" ELSE @]
  /\ UNCHANGED messages

(* A flow control frame in isotp_on_can_message.                           *)
OnFlowControl(fs) ==
  LET waited == CASE fs = "continue" -> 0
                  [] fs = "wait" -> send.wft + 1
                  [] fs = "overflow" -> send.wft
  IN IF send.status # "inprogress" THEN UNCHANGED <<send, messages>>
     ELSE /\ send' = [send EXCEPT !.overdue = FALSE, !.wft = waited,
                        !.bs = IF fs = "continue" THEN BlockSize ELSE @,
                        !.status = IF fs = "overflow" \/ waited > MaxWft
                                   THEN "error" ELSE @]
          /\ messages' = [messages EXCEPT ![Current].overrun = waited > MaxWft]

(* OnFrameReceived hands the link only frames with the response id.        *)
ReceiveBack ==
  /\ back # <<>>
  /\ back' = Tail(back)
  /\ IF Head(back).from = responseId THEN OnFlowControl(Head(back).fs)
     ELSE UNCHANGED <<send, messages>>
  /\ UNCHANGED <<responseId, receive, bus, delivered>>

(* The raw UDS dialog listens to another ECU for a while.                  *)
SetResponseId(e) ==
  /\ e # responseId
  /\ responseId' = e
  /\ UNCHANGED <<messages, send, receive, bus, back, delivered>>

-----------------------------------------------------------------------------
(* The receiving half.                                                     *)

Idle(r) == [r EXCEPT !.status = "idle"]

SendFlowControl(e, fs) == back' = Append(back, [from |-> e, fs |-> fs])

(* A single frame also replaces a message in progress; OnCanFrame takes    *)
(* what is complete at once.                                               *)
OnSingleFrame(e, f) ==
  /\ receive' = [receive EXCEPT ![e] = Idle(@)]
  /\ delivered' = Append(delivered, <<f.of>>)
  /\ UNCHANGED back

(* Mutant of OnFirstFrame: receive_offset is not set back.                 *)
OnFirstFrameAppending(e, f) ==
  /\ UNCHANGED delivered
  /\ IF Size(f.of.msg) > BufferSize
     THEN /\ receive' = [receive EXCEPT ![e] = Idle(@)]
          /\ SendFlowControl(e, "overflow")
     ELSE /\ receive' = [receive EXCEPT ![e] =
                [status |-> "inprogress", sn |-> 1, bs |-> BlockSize,
                 size |-> Size(f.of.msg), segs |-> Append(@.segs, f.of)]]
          /\ SendFlowControl(e, "continue")

OnFirstFrame(e, f) ==
  /\ UNCHANGED delivered
  /\ IF Size(f.of.msg) > BufferSize
     THEN /\ receive' = [receive EXCEPT ![e] = Idle(@)]
          /\ SendFlowControl(e, "overflow")
     ELSE /\ receive' = [receive EXCEPT ![e] =
                [status |-> "inprogress", sn |-> 1, bs |-> BlockSize,
                 size |-> Size(f.of.msg), segs |-> <<f.of>>]]
          /\ SendFlowControl(e, "continue")

(* Mutant of OnConsecutiveFrame: a message that has been taken is handed   *)
(* on with every later frame (isotp_receive leaves the status full).       *)
OnConsecutiveFrameAgain(e, f) ==
  LET r == receive[e]
      got == [r EXCEPT !.segs = Append(@, f.of), !.sn = (@ + 1) % Sns]
  IN IF r.status # "inprogress"
     THEN /\ delivered' = Append(delivered, r.segs)
          /\ UNCHANGED <<receive, back>>
     ELSE IF f.sn # r.sn
     THEN /\ receive' = [receive EXCEPT ![e] = Idle([@ EXCEPT !.segs = <<>>])]
          /\ UNCHANGED <<delivered, back>>
     ELSE IF Len(got.segs) >= r.size
     THEN /\ receive' = [receive EXCEPT ![e] = Idle(got)]
          /\ delivered' = Append(delivered, got.segs)
          /\ UNCHANGED back
     ELSE /\ receive' = [receive EXCEPT ![e] =
                [got EXCEPT !.bs = IF r.bs = 1 THEN BlockSize ELSE @ - 1]]
          /\ IF r.bs = 1 THEN SendFlowControl(e, "continue") ELSE UNCHANGED back
          /\ UNCHANGED delivered

OnConsecutiveFrame(e, f) ==
  LET r == receive[e]
      got == [r EXCEPT !.segs = Append(@, f.of), !.sn = (@ + 1) % Sns]
  IN IF r.status # "inprogress"
     THEN UNCHANGED <<receive, delivered, back>>
     ELSE IF f.sn # r.sn
     THEN receive' = [receive EXCEPT ![e] = Idle(@)] /\ UNCHANGED <<delivered, back>>
     ELSE IF Len(got.segs) >= r.size
     THEN /\ receive' = [receive EXCEPT ![e] = Idle(got)]
          /\ delivered' = Append(delivered, got.segs)
          /\ UNCHANGED back
     ELSE /\ receive' = [receive EXCEPT ![e] =
                [got EXCEPT !.bs = IF r.bs = 1 THEN BlockSize ELSE @ - 1]]
          /\ IF r.bs = 1 THEN SendFlowControl(e, "continue") ELSE UNCHANGED back
          /\ UNCHANGED delivered

(* isotp_on_can_message for the data frames.                               *)
ReceiveFrame ==
  /\ bus # <<>>
  /\ bus' = Tail(bus)
  /\ LET f == Head(bus)
     IN CASE f.kind = "SF" -> OnSingleFrame(f.to, f)
          [] f.kind = "FF" -> OnFirstFrame(f.to, f)
          [] f.kind = "CF" -> OnConsecutiveFrame(f.to, f)
  /\ UNCHANGED <<messages, send, responseId>>

(* A poll finds the next consecutive frame overdue.                        *)
CrTimeout(e) ==
  /\ receive[e].status = "inprogress"
  /\ receive' = [receive EXCEPT ![e] = Idle(@)]
  /\ UNCHANGED <<messages, send, responseId, bus, back, delivered>>

(* This code never asks to wait, but the ECU may be another's.             *)
AskToWait(e) ==
  /\ receive[e].status = "inprogress"
  /\ Len(SelectSeq(back, LAMBDA b : b.fs = "wait")) < MaxWaits
  /\ SendFlowControl(e, "wait")
  /\ UNCHANGED <<messages, send, responseId, receive, bus, delivered>>

-----------------------------------------------------------------------------
(* The CAN queues lose frames.                                             *)

LoseFrame ==
  /\ bus # <<>> /\ bus' = Tail(bus)
  /\ UNCHANGED <<messages, send, responseId, receive, back, delivered>>

LoseBack ==
  /\ back # <<>> /\ back' = Tail(back)
  /\ UNCHANGED <<messages, send, responseId, receive, bus, delivered>>

Poll == PollSend \/ PollTimeout

Next ==
  \/ \E e \in Ecus, size \in Lengths : Send(e, size)
  \/ \E e \in Ecus : SetResponseId(e) \/ CrTimeout(e) \/ AskToWait(e)
  \/ Poll \/ Elapse
  \/ ReceiveFrame \/ LoseFrame
  \/ ReceiveBack \/ LoseBack

(* The worker polls every millisecond, frames do not stay on the bus, and  *)
(* time passes however many of them are lost on it.                        *)
Fairness ==
  /\ WF_vars(Poll) /\ SF_vars(Elapse)
  /\ WF_vars(ReceiveFrame \/ LoseFrame) /\ WF_vars(ReceiveBack \/ LoseBack)

Spec == Init /\ [][Next]_vars /\ Fairness

-----------------------------------------------------------------------------
TypeOK ==
  /\ messages \in Seq([to : Ecus, size : Lengths, overrun : BOOLEAN])
  /\ send \in [status : {"idle", "inprogress", "error"}, offset : Nat,
               sn : 0 .. Sns - 1, bs : 0 .. BlockSize, wft : 0 .. MaxWft + 1,
               overdue : BOOLEAN]
  /\ responseId \in Ecus
  /\ receive \in [Ecus -> [status : {"idle", "inprogress"}, sn : 0 .. Sns - 1,
                           bs : 0 .. BlockSize, size : Nat, segs : Seq(Segments)]]
  /\ bus \in Seq([to : Ecus, kind : {"SF", "FF", "CF"}, of : Segments,
                  sn : 0 .. Sns - 1])
  /\ back \in Seq([from : Ecus, fs : {"continue", "wait", "overflow"}])
  /\ delivered \in Seq(Seq(Segments))

(* What is delivered is one message, with all its segments in order,       *)
(* whatever frames the bus loses and whenever the user sends again, as     *)
(* long as everything is sent to the link's own id and no ECU asks to wait *)
(* too often.  (The first frame goes to the id given to Send and the       *)
(* consecutive frames to the link's, so an ECU may complete its message    *)
(* with segments of another's; and an ECU whose message has been given up  *)
(* may permit the next.)                                                   *)
Whole(d) == \E m \in 1 .. Current :
              d = [i \in 1 .. Size(m) |-> [msg |-> m, seg |-> i]]
WholeMessages ==
  \/ \E m \in 1 .. Current : messages[m].to # DefaultEcu \/ messages[m].overrun
  \/ \A i \in DOMAIN delivered : Whole(delivered[i])

(* The messages that arrive whole arrive once each and in the order they   *)
(* were sent in, to whichever ids: none is handed on again.                *)
Channel == INSTANCE FrameChannel WITH
  accepted <- Current,
  sent <- LET whole == SelectSeq(delivered, Whole)
          IN [i \in DOMAIN whole |-> whole[i][1].msg]
DeliveredInOrder == Channel!Spec

(* A message that has been started ends, sent or given up, whatever is     *)
(* lost and however often the ECU asks to wait; until then every other     *)
(* message would be refused.                                               *)
SendEnds == send.status = "inprogress" ~> send.status # "inprogress"
=============================================================================
