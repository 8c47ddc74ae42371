----------------------------- MODULE TaskQueue -----------------------------
(***************************************************************************)
(* The async task queue (taskqueue.go) and the submit handlers that call   *)
(* it.  A handler goroutine reads time.Now() as an argument of             *)
(* queue.Submit, BEFORE q.mu is taken, so between the two any number of    *)
(* other handlers may submit and any amount of time may pass: stamps reach *)
(* the queue late and out of order.  Under the lock, Submit numbers the    *)
(* task, fixes its start, finish and outcome for good, and stores it.      *)
(* Nothing ever runs: a task's status is computed from its two instants    *)
(* and the clock of whoever asks.                                          *)
(***************************************************************************)
EXTENDS Integers, FiniteSets, Behavior

CONSTANTS
    Handlers,            \* the handler goroutines that submit
    VideoConcurrency,    \* cfg.VideoConcurrency; any integer, never validated
    VideoDurationMin,    \* cfg.Video/ImageDurationMin/Max, in clock units;
    VideoDurationMax,    \*   any integers, never validated
    ImageDurationMin,
    ImageDurationMax,
    TaskFailRate,        \* cfg.TaskFailRate in units of 1 / RateScale
    Hashes,              \* the values hashString(id) may take
    MaxTasks,            \* bound: tasks submitted in one run of the process
    MaxStamp,            \* bound: no submit call reads the clock after this
    MaxClock             \* bound: the horizon of the clock

ASSUME ConfigAssumption ==
    /\ VideoConcurrency \in Int
    /\ VideoDurationMin \in Int /\ VideoDurationMax \in Int
    /\ ImageDurationMin \in Int /\ ImageDurationMax \in Int
    /\ TaskFailRate \in Int
ASSUME HashesAssumption == Hashes \subseteq Nat
ASSUME BoundsAssumption == MaxTasks \in Nat /\ MaxStamp \in Nat /\ MaxClock \in Nat

VARIABLES
    clock,    \* what time.Now() returns
    tasks,    \* q.tasks: from task id to task
    seq,      \* q.seq
    call      \* per handler, its call of Submit: where it is, kind, stamp

vars == <<clock, tasks, seq, call>>

Kinds == {"image", "video"}

\* An id is the text "mock-task-<now>-<seq>", one to one with the pair.
TaskId == Nat \X Nat

Task == [kind : Kinds, submitAt : Nat, startAt : Int, finishAt : Int,
         willFail : BOOLEAN]

\* The handlers that have read the clock and wait for q.mu.
Submitting == {h \in Handlers : call[h].pc = "submitting"}

NoCall == [pc |-> "idle", kind |-> "image", now |-> 0]

-----------------------------------------------------------------------------
\* The parallel slots of a kind: at least one for video, 1 << 30 for images.
Concurrency(kind) ==
    IF kind = "video"
    THEN IF VideoConcurrency < 1 THEN 1 ELSE VideoConcurrency
    ELSE 1073741824

Duration(kind, h) ==
    IF kind = "video"
    THEN RandomDelay(h, VideoDurationMin, VideoDurationMax)
    ELSE RandomDelay(h, ImageDurationMin, ImageDurationMax)

\* The tasks of a kind that still hold or await a slot at instant now.
InFlight(kind, now) ==
    {id \in DOMAIN tasks : tasks[id].kind = kind /\ tasks[id].finishAt > now}

\* Seeded fault of NthFinish: a task queues behind the last of them all.
NthFinishLast(S, n) ==
    CHOOSE f \in {tasks[id].finishAt : id \in S} :
        \A id \in S : tasks[id].finishAt <= f

\* Seeded fault of NthFinish: the list is indexed without being sorted.
NthFinishUnsorted(S, n) ==
    LET at == CHOOSE i \in S : Cardinality({j \in S : j[2] < i[2]}) = n
    IN  tasks[at].finishAt

\* The element at index n of the ascending finish times of the tasks in S,
\* equal times counted as often as they occur: the one finish time that at
\* most n tasks precede and more than n do not exceed.
NthFinish(S, n) ==
    CHOOSE f \in {tasks[id].finishAt : id \in S} :
        /\ Cardinality({id \in S : tasks[id].finishAt < f}) <= n
        /\ n < Cardinality({id \in S : tasks[id].finishAt <= f})

\* Seeded fault of ScheduleStart: one task too many starts at once.
ScheduleStartOneMore(kind, now) ==
    LET flying == InFlight(kind, now)
        k      == Cardinality(flying)
    IN  IF k <= Concurrency(kind)
        THEN now
        ELSE NthFinish(flying, k - Concurrency(kind))

\* The instant a slot is free for one more task of the kind.
ScheduleStart(kind, now) ==
    LET flying == InFlight(kind, now)
        k      == Cardinality(flying)
    IN  IF k < Concurrency(kind)
        THEN now
        ELSE NthFinish(flying, k - Concurrency(kind))

\* The task that Submit stores, h being the hash of its id: the same hash
\* gives the duration and decides whether it will fail.
NewTask(kind, now, h) ==
    LET start == ScheduleStart(kind, now)
    IN  [kind     |-> kind,
         submitAt |-> now,
         startAt  |-> start,
         finishAt |-> start + Duration(kind, h),
         willFail |-> ShouldInject(h, TaskFailRate)]

\* Seeded faults of NewId: no counter in the id, no clock in it, or a second
\* reading of the clock.
NewIdByTime(now) == <<now, 0>>
NewIdBySeq(now) == <<1, seq + 1>>
NewIdByClock(now) == <<clock, seq + 1>>

NewId(now) == <<now, seq + 1>>

\* Seeded fault of Status: the failed tasks have no terminal status.
StatusNeverFailed(t, now) ==
    CASE now < t.startAt                        -> "PENDING"
      [] now >= t.startAt /\ (now < t.finishAt \/ t.willFail) -> "RUNNING"
      [] now >= t.startAt /\ now >= t.finishAt /\ ~t.willFail -> "SUCCEEDED"

\* Seeded fault of Status: the outcome is looked up before the clock.
StatusFailedFirst(t, now) ==
    CASE t.willFail -> "FAILED"
      [] ~t.willFail /\ now < t.startAt -> "PENDING"
      [] ~t.willFail /\ now >= t.startAt /\ now < t.finishAt -> "RUNNING"
      [] ~t.willFail /\ now >= t.startAt /\ now >= t.finishAt -> "SUCCEEDED"

\* Task.Status at instant now.
Status(t, now) ==
    CASE now < t.startAt                         -> "PENDING"
      [] now >= t.startAt /\ now < t.finishAt    -> "RUNNING"
      [] now >= t.startAt /\ now >= t.finishAt   ->
            IF t.willFail THEN "FAILED" ELSE "SUCCEEDED"

-----------------------------------------------------------------------------
Init == /\ clock = 0
        /\ tasks = << >>
        /\ seq = 0
        /\ call = [h \in Handlers |-> NoCall]

\* Time passes.
Tick == /\ clock < MaxClock
        /\ clock' = clock + 1
        /\ UNCHANGED <<tasks, seq, call>>

\* A submit handler evaluates time.Now() and then waits for q.mu.
ReadClock(h, kind) ==
    /\ call[h].pc = "idle"
    /\ clock <= MaxStamp
    /\ seq + Cardinality(Submitting) < MaxTasks
    /\ call' = [call EXCEPT ![h] = [pc |-> "submitting", kind |-> kind, now |-> clock]]
    /\ UNCHANGED <<clock, tasks, seq>>

\* Submit: the whole critical section of q.mu.
Submit(h) ==
    /\ call[h].pc = "submitting"
    /\ \E hash \in Hashes :
         LET id == NewId(call[h].now)
             t  == NewTask(call[h].kind, call[h].now, hash)
         IN  tasks' = [i \in DOMAIN tasks \cup {id} |-> IF i = id THEN t ELSE tasks[i]]
    /\ seq' = seq + 1
    /\ call' = [call EXCEPT ![h] = NoCall]
    /\ UNCHANGED clock

Next == \/ Tick
        \/ \E h \in Handlers, kind \in Kinds : ReadClock(h, kind)
        \/ \E h \in Handlers : Submit(h)

\* Time goes on, and a goroutine waiting for q.mu gets it: no holder blocks.
Fairness == WF_vars(Tick) /\ \A h \in Handlers : WF_vars(Submit(h))

Spec == Init /\ [][Next]_vars /\ Fairness

-----------------------------------------------------------------------------
TypeOK ==
    /\ clock \in Nat
    /\ seq \in Nat
    /\ DOMAIN tasks \subseteq TaskId
    /\ IsFiniteSet(DOMAIN tasks)
    /\ \A id \in DOMAIN tasks :
           /\ tasks[id] \in Task
           /\ id[1] = tasks[id].submitAt /\ id[1] <= clock
           /\ id[2] \in 1 .. seq
    /\ \A h \in Handlers : call[h].now <= clock
    /\ call \in [Handlers -> [pc : {"idle", "submitting"}, kind : Kinds, now : Nat]]

\* The tasks of a kind that occupy a slot at instant t.
RunningAt(kind, t) ==
    {id \in DOMAIN tasks : /\ tasks[id].kind = kind
                           /\ tasks[id].startAt <= t
                           /\ t < tasks[id].finishAt}

PendingAt(kind, t) ==
    {id \in DOMAIN tasks : tasks[id].kind = kind /\ t < tasks[id].startAt}

\* The slots of a kind are never oversubscribed, now or at any instant the
\* schedule already covers, however late and in whatever order the stamps
\* reached the queue ("With `concurrency` parallel slots ...",
\* scheduleStart).  Occupancy only rises at a start, so it is enough to look
\* at the starts.
SlotCap ==
    \A kind \in Kinds :
        \A t \in {clock} \cup {tasks[id].startAt : id \in DOMAIN tasks} :
            Cardinality(RunningAt(kind, t)) <= Concurrency(kind)

\* No slot is left idle while a task of its kind waits: a task is PENDING only
\* when every slot is taken, so the schedule is never later than it must be.
\* It holds from the current instant on, at every instant the schedule covers.
WorkConserving ==
    \A kind \in Kinds :
        \A t \in {clock} \cup {tasks[id].finishAt : id \in DOMAIN tasks} :
            t >= clock /\ PendingAt(kind, t) # {}
                => Cardinality(RunningAt(kind, t)) >= Concurrency(kind)

\* First come, first served: of two tasks of a kind, the one that got the
\* lock first, with no later a stamp, does not start after the other.
Fifo ==
    \A i, j \in DOMAIN tasks :
        /\ tasks[i].kind = tasks[j].kind
        /\ i[2] < j[2]
        /\ tasks[i].submitAt <= tasks[j].submitAt
        => tasks[i].startAt <= tasks[j].startAt

\* The lists that sort.Slice may make of the tasks of S, by their finish times.
Sorted(S) ==
    {s \in [1 .. Cardinality(S) -> S] :
        \A i, j \in DOMAIN s :
            i < j => s[i] # s[j] /\ tasks[s[i]].finishAt <= tasks[s[j]].finishAt}

\* The order statistic by counting is the one by sorting and indexing
\* (scheduleStart: sort.Slice, then finishes[len(finishes)-concurrency]), for
\* the schedule as it stands, any stamp a handler may bring, and however equal
\* finish times are sorted.
ScheduleBySorting ==
    \A kind \in Kinds, now \in 0 .. clock :
        LET flying == InFlight(kind, now)
            k      == Cardinality(flying)
        IN  /\ Sorted(flying) # {}
            /\ \A s \in Sorted(flying) :
                  ScheduleStart(kind, now) =
                    IF k < Concurrency(kind) THEN now
                    ELSE tasks[s[k - Concurrency(kind) + 1]].finishAt

\* No submit ever overwrites or reschedules a task that was stored before:
\* two handlers with the same stamp still get two ids, and what a poll
\* computes from a task it fetched stays true after the lock is released.
NeverRescheduled ==
    [][\A id \in DOMAIN tasks :
           id \in DOMAIN tasks' /\ tasks'[id] = tasks[id]]_vars

\* Every task that a handler has begun to submit reaches a terminal status: no
\* handler waits for the lock, and no task in the queue, for ever.
EveryTaskEnds ==
    \A n \in 1 .. MaxTasks :
        seq + Cardinality(Submitting) >= n ~> \E id \in DOMAIN tasks :
            id[2] = n /\ Status(tasks[id], clock) \in {"SUCCEEDED", "FAILED"}

-----------------------------------------------------------------------------
\* What a client of the queue is promised, in terms of statuses alone.
Jobs == [id \in DOMAIN tasks |->
            [kind |-> tasks[id].kind, status |-> Status(tasks[id], clock)]]

Service == INSTANCE AsyncTaskService WITH jobs <- Jobs, Slots <- Concurrency

\* The queue implements the service it stands for: statuses only move forward,
\* jobs are never lost, and the slots are used fully but never oversubscribed.
ImplementsService == Service!Spec
=============================================================================
