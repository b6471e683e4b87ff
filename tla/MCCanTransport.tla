--------------------------- MODULE MCCanTransport ---------------------------
(* Small instances of CanTransport for TLC.                                *)
EXTENDS CanTransport

(* The Lawicel protocol meets identifiers of more than 29 bits, the STM32  *)
(* protocol only identifiers that it can encode.                           *)
MCFitting == [d \in DeviceType |-> IF d = "LAWICEL" THEN BOOLEAN ELSE {TRUE}]
=============================================================================
