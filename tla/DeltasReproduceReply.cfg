\* The promise of splitTokens, for replies with unusual blanks among others.
SPECIFICATION Spec
CONSTANTS
    r1 = r1
    r2 = r2
    Requests <- Two
    Traffic <- SomeTraffic
    ReasoningText <- TwoTokens
    ErrorRate = 5000
    Hashes = {0, 501}
INVARIANT DeltasReproduceReply
\* Every request is sent once, and then the system may stop.
CHECK_DEADLOCK FALSE
