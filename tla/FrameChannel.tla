---------------------------- MODULE FrameChannel ----------------------------
(* What a queue drained by another thread promises: items (CAN frames,     *)
(* register edits) may be lost, but those that are sent are sent once each *)
(* and in the order in which they were accepted.                           *)
EXTENDS Naturals, Sequences

VARIABLES
  accepted, \* items accepted so far; they are numbered 1..accepted
  sent      \* the numbers of the items sent

Init == accepted = 0 /\ sent = <<>>

Accept == accepted' = accepted + 1 /\ UNCHANGED sent

Send(n) == /\ \A i \in DOMAIN sent : sent[i] < n
           /\ sent' = Append(sent, n)
           /\ UNCHANGED accepted

Next == Accept \/ \E n \in 1 .. accepted : Send(n)

Spec == Init /\ [][Next]_<<accepted, sent>>
=============================================================================
