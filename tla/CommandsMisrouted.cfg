\* A command comes to the pod that does not own the slot.
CONSTANTS
    P1 = P1  P2 = P2  S1 = S1  S2 = S2  I1 = I1  I2 = I2
    NoMember = NoMember
    Members <- TwoPods
    Slots <- OneSlot
    Partitions <- OnePartition
    PartitionOf <- Split
    MaxCommands = 1
    Faults = {}
    Observed = {"misrouted", "closed"}
SPECIFICATION Spec
INVARIANTS LeftToOwner
