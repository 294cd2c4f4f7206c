\* Two pods, one slot; one heartbeat in a row may be lost.
CONSTANTS
    P1 = P1  P2 = P2  S1 = S1  S2 = S2
    NoPod = NoPod
    Pods <- TwoPods
    Slots <- OneSlot
    BatchSize = 1
    HeartbeatInterval = 2
    ClaimInterval = 2
    MaxClaim = 1
    MaxMissed = 1
    Staleness = 5
SPECIFICATION Spec
SYMMETRY PodSymmetry

INVARIANTS TypeOK ClaimsDisjoint ClaimStillValid LeaseFresh
PROPERTIES LeaseKept ImplementsSlotLease
