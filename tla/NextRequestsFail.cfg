\* "The next N requests fail", taken at its word: one request already under way
\* when a rule of one charge is posted, one sent after it.
SPECIFICATION Spec
CONSTANTS
    Requests = {r1, r2}
    chat = chat
    embeddings = embeddings
    Paths <- SomePaths
    PostedFilters <- SomeFilters
    RingCap = 1
    RuleStatuses = {500}
    RuleTimes = {0, 1}
    MaxRules = 1
    Enforce = FALSE
    ErrorRate = 5000
    Hashes = {0, 501}
    PostedStatuses <- SomeStatuses
    PostedTimes <- FewTimes
INVARIANT NextRequestsFail
\* Every request is sent once, and then the system may stop.
CHECK_DEADLOCK FALSE
