\* One pod that creates, claims, pairs, is operated, fails and is shut down.
CONSTANTS
    P1 = P1  P2 = P2  S1 = S1  J1 = J1  J2 = J2
    NoPod = NoPod
    Pods <- OnePod
    Slots <- OneSlot
    Jids <- TwoJids  NoJid = NoJid
    BatchSize = 1
    Staleness = 0
    Inputs = {"create", "operator", "shutdown", "logout", "qrTimeout",
              "dbError", "deviceError", "connectError"}
SPECIFICATION Spec
INVARIANTS OneClient ConnectedHasJid
PROPERTIES EvictsExpired
