\* One pod, two slots, one row per claim, with fairness.
CONSTANTS
    P1 = P1  P2 = P2  S1 = S1  S2 = S2
    NoPod = NoPod
    Pods <- OnePod
    Slots <- TwoSlots
    BatchSize = 1
    HeartbeatInterval = 2
    ClaimInterval = 2
    MaxClaim = 0
    MaxMissed = 0
    Staleness = 2
SPECIFICATION FairSpec
PROPERTIES NoSlotStarves
