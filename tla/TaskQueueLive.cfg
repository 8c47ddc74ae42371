\* The queue as a service, with the settings nobody validates: a concurrency
\* below one (one slot) and an image range that is inverted (always its
\* minimum, 1).  Three tasks, one after another, of at most 2: the last ends
\* by MaxStamp + 6, within the horizon.
SPECIFICATION Spec
CONSTANTS
    Handlers = {h1, h2}
    VideoConcurrency = 0
    VideoDurationMin = 1
    VideoDurationMax = 3
    ImageDurationMin = 1
    ImageDurationMax = 0
    TaskFailRate = 5000
    Hashes = {0, 501}
    MaxTasks = 3
    MaxStamp = 2
    MaxClock = 9
PROPERTIES EveryTaskEnds ImplementsService
\* The horizon MaxClock stops the clock, and with it the model.
CHECK_DEADLOCK FALSE
