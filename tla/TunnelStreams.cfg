SPECIFICATION FairSpec
CONSTANTS
    None = None
    Reqs = {r1, r2, w1}
    Upgrades = {w1}
    AcceptBacklog = 2
INVARIANTS AStreamForEveryone AnswersItsRequest AnsweredIsClosed
PROPERTIES HangUpReachesAll RequestSettles StreamsEnd
CHECK_DEADLOCK FALSE
