\* Loads of two or three requests, twice.
SPECIFICATION Spec
CONSTANTS
    a = a
    b = b
    Clients <- Both
    Names <- Models
    Loads <- SomeLoads
    Hashes = {0, 501, 502}
    FailRate = 5000
    MinDelay = 1
    MaxDelay = 3
    MaxPolls = 2
INVARIANTS RepeatsInOrder SameFailures
\* Both runs end.
CHECK_DEADLOCK FALSE
