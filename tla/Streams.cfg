\* Every shape of stream next to a competitor, clients leaving at any moment,
\* the error injection able to hit or miss.
SPECIFICATION Spec
CONSTANTS
    r1 = r1
    r2 = r2
    Requests <- Two
    Traffic <- SomeTraffic
    ReasoningText <- TwoTokens
    ErrorRate = 5000
    Hashes = {0, 501}
INVARIANTS TypeOK LegalSoFar StreamTellsAll UniqueIds
PROPERTIES StopsAtFirstError AbandonedHandlersReturn
\* Every request is sent once, and then the system may stop.
CHECK_DEADLOCK FALSE
