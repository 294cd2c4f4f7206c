\* One slot; two requests for the list are under way at once.
CONSTANTS
    S1 = S1  S2 = S2  C1 = C1  L1 = L1  L2 = L2  Q1 = Q1  K1 = K1
    NoSlot = NoSlot  NoCode = NoCode
    Slots <- OneSlot
    Codes <- OneCode
    Loads <- TwoLoads
    Polls <- OnePoll
    Links <- OneLink
    MaxChanges = 2
SPECIFICATION FairSpec
INVARIANTS PageInv
PROPERTIES ListSettles CreatedIsSeen CodeShown
