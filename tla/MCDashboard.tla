---------------------------- MODULE MCDashboard ----------------------------
(***************************************************************************)
(* Instances of Dashboard for TLC.                                         *)
(***************************************************************************)
EXTENDS Dashboard

CONSTANTS S1, S2, C1, L1, L2, Q1, K1

OneSlot == {S1}
TwoSlots == {S1, S2}
OneCode == {C1}
OneLoad == {L1}
TwoLoads == {L1, L2}
OnePoll == {Q1}
OneLink == {K1}
=============================================================================
