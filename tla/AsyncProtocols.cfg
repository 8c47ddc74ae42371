\* One submit and two polls at a time, one video slot, tasks of one or two
\* ticks, two polls in all and one restart.
SPECIFICATION Spec
CONSTANTS
    Handlers = {h1}
    VideoConcurrency = 1
    VideoDurationMin = 1
    VideoDurationMax = 3
    ImageDurationMin = 1
    ImageDurationMax = 1
    TaskFailRate = 5000
    Hashes = {0, 501}
    MaxTasks = 2
    MaxStamp = 1
    MaxClock = 4
    Pollers = {p1, p2}
    MaxPolls = 2
    MaxLives = 2
SYMMETRY Symmetry
INVARIANTS TypeOK PollsNeverGoBack TicketsResolve OldTicketsStayDead ResultIsEarned
\* The bounds on polls, tasks and time stop the model.
CHECK_DEADLOCK FALSE
