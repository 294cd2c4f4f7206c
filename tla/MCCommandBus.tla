--------------------------- MODULE MCCommandBus ---------------------------
(***************************************************************************)
(* Instances of CommandBus for TLC.                                        *)
(***************************************************************************)
EXTENDS CommandBus, TLC

CONSTANTS P1, P2, S1, S2, I1, I2

OnePod == {P1}
TwoPods == {P1, P2}
OneSlot == {S1}
TwoSlots == {S1, S2}
OnePartition == {I1}
TwoPartitions == {I1, I2}

\* One slot to a partition.
Split == [s \in Slots |-> IF s = S1 THEN I1 ELSE I2]
=============================================================================
