\* Two bots share a partition of two records; everything that may fail does.
CONSTANTS
    M1 = M1  M2 = M2  E1 = E1  E2 = E2  I1 = I1
    NoMember = NoMember  Poison = Poison  Blank = Blank
    Members <- TwoMembers
    Events <- OneEvent
    Partitions <- OnePartition
    MaxRecords = 2
    Faults = {"redis", "rag", "ollama", "kafka"}
SPECIFICATION FairSpec
INVARIANTS TypeOK AnsweredOnce ClaimExplained PassedIsSettled
PROPERTIES EveryRecordHandled
