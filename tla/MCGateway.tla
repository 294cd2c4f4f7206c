---------------------------- MODULE MCGateway ----------------------------
(***************************************************************************)
(* Instances of Gateway for TLC.                                           *)
(***************************************************************************)
EXTENDS Gateway, TLC

CONSTANTS P1, P2, S1, J1, J2

OnePod == {P1}
TwoPods == {P1, P2}
OneSlot == {S1}

OneJid == {J1}
TwoJids == {J1, J2}

PodSymmetry == Permutations(TwoPods)
JidSymmetry == Permutations(TwoJids)
Symmetry == PodSymmetry \cup JidSymmetry
=============================================================================
