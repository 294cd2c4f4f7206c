\* Two pods that come and go share two partitions, one of which has two commands.
CONSTANTS
    P1 = P1  P2 = P2  S1 = S1  S2 = S2  I1 = I1  I2 = I2
    NoMember = NoMember
    Members <- TwoPods
    Slots <- OneSlot
    Partitions <- TwoPartitions
    PartitionOf <- Split
    MaxCommands = 2
    Faults = {"fetch", "handler"}
    Observed = {}
SPECIFICATION FairSpec
INVARIANTS TypeOK DispatchedBeforeCommit
PROPERTIES CommittedAdvances EveryCommandDispatched
