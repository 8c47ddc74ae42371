\* Three requests on two paths, a ring of two (so one is pushed out), one rule
\* of 0, 1 or 2 charges.
SPECIFICATION Spec
CONSTANTS
    Requests = {r1, r2, r3}
    chat = chat
    embeddings = embeddings
    Paths <- SomePaths
    PostedFilters <- SomeFilters
    RingCap = 2
    RuleStatuses = {500}
    RuleTimes = {0, 1, 2}
    MaxRules = 1
    Enforce = FALSE
    ErrorRate = 5000
    Hashes = {501}
    PostedStatuses <- SomeStatuses
    PostedTimes <- SomeTimes
SYMMETRY Symmetry
INVARIANTS TypeOK RingIsWindow ChargesExact ListShowsNewest AnsweredIsListed UnlimitedRuleHolds FailsExactly
\* Every request is sent once, and then the system may stop.
CHECK_DEADLOCK FALSE
