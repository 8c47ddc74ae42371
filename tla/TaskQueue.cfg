\* Two video slots, three handlers, durations of 1 or 2 (video) and 2 (image):
\* up to four tasks, so two can queue behind two that run.
SPECIFICATION Spec
CONSTANTS
    Handlers = {h1, h2, h3}
    VideoConcurrency = 2
    VideoDurationMin = 1
    VideoDurationMax = 3
    ImageDurationMin = 2
    ImageDurationMax = 2
    TaskFailRate = 5000
    Hashes = {0, 501}
    MaxTasks = 4
    MaxStamp = 2
    MaxClock = 5
SYMMETRY Symmetry
INVARIANTS TypeOK SlotCap WorkConserving Fifo ScheduleBySorting
PROPERTIES NeverRescheduled
\* The horizon MaxClock stops the clock, and with it the model.
CHECK_DEADLOCK FALSE
