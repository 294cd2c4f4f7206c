-------------------------- MODULE MCClaimLease --------------------------
(***************************************************************************)
(* Instances of ClaimLease for TLC.                                        *)
(***************************************************************************)
EXTENDS ClaimLease, TLC

CONSTANTS P1, P2, S1, S2

OnePod == {P1}
TwoPods == {P1, P2}
OneSlot == {S1}
TwoSlots == {S1, S2}

PodSymmetry == Permutations(TwoPods)
=============================================================================
