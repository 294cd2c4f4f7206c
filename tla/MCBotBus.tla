----------------------------- MODULE MCBotBus -----------------------------
(***************************************************************************)
(* Instances of BotBus for TLC.                                            *)
(***************************************************************************)
EXTENDS BotBus, TLC

CONSTANTS M1, M2, E1, E2, I1

TwoMembers == {M1, M2}
OneEvent == {E1}
TwoEvents == {E1, E2}
OnePartition == {I1}
=============================================================================
