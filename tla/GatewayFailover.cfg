\* A pod dies; sessions drop; writes fail.
CONSTANTS
    P1 = P1  P2 = P2  S1 = S1  J1 = J1  J2 = J2
    NoPod = NoPod
    Pods <- TwoPods
    Slots <- OneSlot
    Jids <- OneJid  NoJid = NoJid
    BatchSize = 1
    Staleness = 0
    Inputs = {"crash", "drop", "dbError"}
SPECIFICATION FairSpec
PROPERTIES Failover ClaimedComesUp
