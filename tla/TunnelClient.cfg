SPECIFICATION FairSpec
CONSTANT MaxInFlight = 2
INVARIANTS TypeOK NotifiesThisConnection StateIsReal
PROPERTIES CloseIsSeen Reconnects
