\* Two requests, two rules (so one replaces another), a ring of one, keys
\* enforced and the sampled error injection able to hit or miss.
SPECIFICATION Spec
CONSTANTS
    Requests = {r1, r2}
    chat = chat
    embeddings = embeddings
    Paths <- SomePaths
    PostedFilters <- SomeFilters
    RingCap = 1
    RuleStatuses = {500}
    RuleTimes = {0, 1}
    MaxRules = 2
    Enforce = TRUE
    ErrorRate = 5000
    Hashes = {0, 501}
    PostedStatuses <- SomeStatuses
    PostedTimes <- FewTimes
INVARIANTS FailsExactly ChargesExact
PROPERTIES UsesInspector
\* Every request is sent once, and then the system may stop.
CHECK_DEADLOCK FALSE
