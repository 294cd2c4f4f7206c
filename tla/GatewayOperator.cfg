\* An operator disconnects a slot that is being brought up.
CONSTANTS
    P1 = P1  P2 = P2  S1 = S1  J1 = J1  J2 = J2
    NoPod = NoPod
    Pods <- TwoPods
    Slots <- OneSlot
    Jids <- TwoJids  NoJid = NoJid
    BatchSize = 1
    Staleness = 0
    Inputs = {"operator"}
SPECIFICATION Spec
INVARIANTS AtMostOneLive
