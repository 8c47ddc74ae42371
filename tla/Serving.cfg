\* Every shape of request beside an image, delays of one to three ticks against
\* a grace of two, an error status that is none.
SPECIFICATION Spec
CONSTANTS
    r1 = r1
    r2 = r2
    Requests <- Two
    Traffic <- SomeTraffic
    FailRate = 5000
    ErrorStatus = 0
    MinDelay = 1
    MaxDelay = 4
    Hashes = {0, 501, 503}
    PrefixSize <- Prefix
    EntrySize <- Entry
    SuffixSize <- Suffix
    Grace = 2
    MaxClock = 4
INVARIANTS TypeOK MediaAreWhole FailuresArrive CutOnlyIfSlow
PROPERTIES ProcessExits
\* The process stops.
CHECK_DEADLOCK FALSE
