--------------------------- MODULE MCReplyPath ---------------------------
(***************************************************************************)
(* Instances of ReplyPath for TLC.                                         *)
(***************************************************************************)
EXTENDS ReplyPath, TLC

CONSTANTS E1, E2, D1, D2

OneEvent == {E1}
TwoEvents == {E1, E2}
OneDelivery == {D1}
TwoDeliveries == {D1, D2}
=============================================================================
