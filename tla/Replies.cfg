\* Two deliveries, of one message or of two, with every failure on the way.
CONSTANTS
    E1 = E1  E2 = E2  D1 = D1  D2 = D2
    NoEvent = NoEvent
    Events <- TwoEvents
    Deliveries <- TwoDeliveries
SPECIFICATION FairSpec
INVARIANTS TypeOK RepliedOnce OutboundWasSent
PROPERTIES ImplementsSingleAnswer ReleaseIsSafe OrphanedByCut HandlerEnds
