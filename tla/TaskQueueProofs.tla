-------------------------- MODULE TaskQueueProofs --------------------------
(***************************************************************************)
(* Proofs about TaskQueue, for every set of handlers, every configuration  *)
(* and every bound: the schedule that Submit fixes never oversubscribes a  *)
(* slot, never leaves one idle while a task waits, is first come first     *)
(* served, and is final; and what a client can see of the queue, the       *)
(* statuses at the current instant, is a behaviour of AsyncTaskService.    *)
(***************************************************************************)
EXTENDS TaskQueue, CountingLemmas, FiniteSetTheorems, TLAPS

-----------------------------------------------------------------------------
(* The inductive invariant.                                                *)

\* The tasks of a kind that end at t or later.
EndFrom(kind, t) ==
    {id \in DOMAIN tasks : tasks[id].kind = kind /\ tasks[id].finishAt >= t}

\* The tasks submitted before task id that end no earlier than it starts.
Ahead(id) ==
    {j \in DOMAIN tasks : /\ tasks[j].kind = tasks[id].kind
                          /\ j[2] < id[2]
                          /\ tasks[j].finishAt >= tasks[id].startAt}

\* SlotCap at every instant, not only at the starts.
SlotCapAlways ==
    \A kind \in Kinds, t \in Int :
        Cardinality(RunningAt(kind, t)) <= Concurrency(kind)

\* WorkConserving at every instant from now on.
WorkConservingAlways ==
    \A kind \in Kinds, t \in Int :
        t >= clock /\ PendingAt(kind, t) # {}
            => Cardinality(RunningAt(kind, t)) >= Concurrency(kind)

\* A task starts at its stamp, or has slots' worth of tasks ahead of it that
\* last until it starts.
StartJustified ==
    \A id \in DOMAIN tasks :
        /\ tasks[id].startAt >= tasks[id].submitAt
        /\ \/ tasks[id].startAt = tasks[id].submitAt
           \/ Cardinality(Ahead(id)) >= Concurrency(tasks[id].kind)

IInv == TypeOK /\ SlotCapAlways /\ WorkConservingAlways /\ StartJustified /\ Fifo

-----------------------------------------------------------------------------
(* The pure parts.                                                         *)

LEMMA ConcurrencyType == \A kind \in Kinds : Concurrency(kind) \in Nat \ {0}
BY ConfigAssumption DEF Concurrency, Kinds

\* randomDelay returns an integer for any limits, inverted ones included.
LEMMA RandomDelayType ==
    ASSUME NEW h \in Nat, NEW min \in Int, NEW max \in Int
    PROVE  RandomDelay(h, min, max) \in Int
<1>1. CASE min >= max
  BY <1>1 DEF RandomDelay
<1>2. CASE ~ (min >= max)
  <2> DEFINE span == max - min
  <2>1. span \in Nat \ {0}
    BY <1>2
  <2> HIDE DEF span
  <2>2. h % span \in Int
    BY <2>1
  <2> QED
    BY <1>2, <2>2 DEF RandomDelay, span
<1> QED
  BY <1>1, <1>2

LEMMA NewTaskFields ==
    ASSUME NEW kind \in Kinds, NEW now \in Nat, NEW hash \in Hashes,
           ScheduleStart(kind, now) \in Int
    PROVE  /\ NewTask(kind, now, hash) \in Task
           /\ NewTask(kind, now, hash).kind = kind
           /\ NewTask(kind, now, hash).submitAt = now
           /\ NewTask(kind, now, hash).startAt = ScheduleStart(kind, now)
<1>1. Duration(kind, hash) \in Int
  BY RandomDelayType, ConfigAssumption, HashesAssumption DEF Duration
<1>2. ShouldInject(hash, TaskFailRate) \in BOOLEAN
  BY DEF ShouldInject
<1> QED
  BY <1>1, <1>2 DEF NewTask, Task

\* NthFinish is a finish time of S, and what it leaves on its two sides.
LEMMA NthFinishFacts ==
    ASSUME TypeOK, NEW S \in SUBSET DOMAIN tasks,
           NEW n \in Nat, n < Cardinality(S)
    PROVE  LET v == NthFinish(S, n) IN
           /\ \E id \in S : v = tasks[id].finishAt
           /\ v \in Int
           /\ Cardinality({id \in S : tasks[id].finishAt > v}) < Cardinality(S) - n
           /\ Cardinality({id \in S : tasks[id].finishAt >= v}) >= Cardinality(S) - n
<1> DEFINE f == [id \in S |-> tasks[id].finishAt]
           v == NthFinish(S, n)
<1>1. IsFiniteSet(S)
  BY FS_Subset DEF TypeOK
<1>2. f \in [S -> Int]
  BY DEF TypeOK, Task
<1>3. PICK m \in S : CountBelow(S, f, f[m]) <= n /\ n < CountUpTo(S, f, f[m])
  <2> HIDE DEF f
  <2> QED BY <1>1, <1>2, OrderStatistic
<1>4. ASSUME NEW w
      PROVE  /\ CountBelow(S, f, w) = Cardinality({id \in S : tasks[id].finishAt < w})
             /\ CountUpTo(S, f, w) = Cardinality({id \in S : tasks[id].finishAt <= w})
             /\ {i \in S : f[i] > w} = {id \in S : tasks[id].finishAt > w}
             /\ {i \in S : f[i] >= w} = {id \in S : tasks[id].finishAt >= w}
  <2>1. /\ {i \in S : f[i] < w} = {id \in S : tasks[id].finishAt < w}
        /\ {i \in S : f[i] <= w} = {id \in S : tasks[id].finishAt <= w}
    OBVIOUS
  <2> QED BY <2>1 DEF CountBelow, CountUpTo
<1> DEFINE IsNth(w) == /\ Cardinality({id \in S : tasks[id].finishAt < w}) <= n
                       /\ n < Cardinality({id \in S : tasks[id].finishAt <= w})
<1>5. v \in {tasks[id].finishAt : id \in S} /\ IsNth(v)
  <2>1. v = CHOOSE w \in {tasks[id].finishAt : id \in S} : IsNth(w)
    BY DEF NthFinish
  <2>2. f[m] \in {tasks[id].finishAt : id \in S} /\ IsNth(f[m])
    BY <1>3, <1>4
  <2> HIDE DEF v, f, IsNth
  <2> QED
    BY <2>1, <2>2
<1>6. CountBelow(S, f, v) <= n /\ n < CountUpTo(S, f, v)
  <2> HIDE DEF f, v
  <2> QED BY <1>4, <1>5 DEF IsNth
<1> HIDE DEF v, IsNth
<1>7. v \in Int
  BY <1>5 DEF TypeOK, Task
<1>8. /\ Cardinality({i \in S : f[i] > v}) < Cardinality(S) - n
      /\ Cardinality({i \in S : f[i] >= v}) >= Cardinality(S) - n
  <2> HIDE DEF f
  <2> QED BY <1>1, <1>2, <1>6, <1>7, OrderStatisticAbove
<1>9. /\ Cardinality({id \in S : tasks[id].finishAt > v}) < Cardinality(S) - n
       /\ Cardinality({id \in S : tasks[id].finishAt >= v}) >= Cardinality(S) - n
  <2> HIDE DEF f
  <2> QED BY <1>4, <1>8
<1> QED
  BY <1>5, <1>7, <1>9 DEF v

\* What scheduleStart returns: not before now, late enough that fewer tasks
\* than there are slots outlast it, and, when it is later than now, no later
\* than that requires.
LEMMA ScheduleStartFacts ==
    ASSUME TypeOK, NEW kind \in Kinds, NEW now \in Nat
    PROVE  LET start == ScheduleStart(kind, now) IN
           /\ start \in Int
           /\ start >= now
           /\ Cardinality(InFlight(kind, start)) < Concurrency(kind)
           /\ start # now => Cardinality(EndFrom(kind, start)) >= Concurrency(kind)
<1> DEFINE start == ScheduleStart(kind, now)
           S == InFlight(kind, now)
           k == Cardinality(S)
           C == Concurrency(kind)
<1>1. S \in SUBSET DOMAIN tasks /\ k \in Nat /\ C \in Nat \ {0}
  BY FS_Subset, FS_CardinalityType, ConcurrencyType DEF InFlight, TypeOK
<1>2. CASE k < C
  BY <1>2 DEF ScheduleStart
<1>3. CASE ~ (k < C)
  <2> DEFINE n == k - C
  <2>1. n \in Nat /\ n < k /\ k - n = C
    <3> HIDE DEF k, C
    <3> QED BY <1>1, <1>3
  <2>2. start = NthFinish(S, n)
    BY <1>3 DEF ScheduleStart
  <2>3. /\ \E id \in S : start = tasks[id].finishAt
        /\ start \in Int
        /\ Cardinality({id \in S : tasks[id].finishAt > start}) < C
        /\ Cardinality({id \in S : tasks[id].finishAt >= start}) >= C
    <3>1. /\ \E id \in S : start = tasks[id].finishAt
          /\ start \in Int
          /\ Cardinality({id \in S : tasks[id].finishAt > start}) < k - n
          /\ Cardinality({id \in S : tasks[id].finishAt >= start}) >= k - n
      <4> HIDE DEF S, n, start
      <4> QED BY <1>1, <2>1, <2>2, NthFinishFacts
    <3> HIDE DEF S, n, start, k, C
    <3> QED BY <2>1, <3>1
  <2> HIDE DEF start
  <2>4. start > now
    BY <2>3 DEF InFlight
  <2>5. /\ {id \in S : tasks[id].finishAt > start} = InFlight(kind, start)
        /\ {id \in S : tasks[id].finishAt >= start} = EndFrom(kind, start)
    BY <2>3, <2>4 DEF InFlight, EndFrom, TypeOK, Task
  <2>6. /\ start \in Int
        /\ Cardinality(InFlight(kind, start)) < Concurrency(kind)
        /\ Cardinality(EndFrom(kind, start)) >= Concurrency(kind)
    BY <2>3, <2>5
  <2> QED
    BY <2>4, <2>6 DEF start
<1> QED
  BY <1>1, <1>2, <1>3

-----------------------------------------------------------------------------
(* What one submit does to the table.                                      *)

LEMMA SubmitEffect ==
    ASSUME TypeOK, NEW h \in Handlers, Submit(h)
    PROVE  \E id \in TaskId :
             /\ id = NewId(call[h].now)
             /\ id \notin DOMAIN tasks
             /\ \A j \in DOMAIN tasks : j[2] < id[2]
             /\ DOMAIN tasks' = DOMAIN tasks \cup {id}
             /\ \A j \in DOMAIN tasks : tasks'[j] = tasks[j]
             /\ tasks'[id] \in Task
             /\ tasks'[id].kind = call[h].kind
             /\ tasks'[id].submitAt = call[h].now
             /\ tasks'[id].startAt = ScheduleStart(call[h].kind, call[h].now)
<1> DEFINE id == NewId(call[h].now)
<1>1. call[h].now \in Nat /\ call[h].kind \in Kinds /\ seq \in Nat
  BY DEF TypeOK
<1>2. id \in TaskId /\ id[2] = seq + 1
  BY <1>1 DEF NewId, TaskId
<1>3. \A j \in DOMAIN tasks : j[2] \in 1 .. seq
  BY DEF TypeOK
<1>4. id \notin DOMAIN tasks /\ \A j \in DOMAIN tasks : j[2] < id[2]
  <2> HIDE DEF id
  <2> QED BY <1>1, <1>2, <1>3
<1>5. PICK hash \in Hashes :
         tasks' = [i \in DOMAIN tasks \cup {id} |->
                     IF i = id THEN NewTask(call[h].kind, call[h].now, hash) ELSE tasks[i]]
  BY DEF Submit
<1>6. ScheduleStart(call[h].kind, call[h].now) \in Int
  BY <1>1, ScheduleStartFacts
<1>7. tasks'[id] = NewTask(call[h].kind, call[h].now, hash)
  BY <1>5
<1>8. DOMAIN tasks' = DOMAIN tasks \cup {id} /\ \A j \in DOMAIN tasks : tasks'[j] = tasks[j]
  BY <1>4, <1>5
<1> QED
  <2> HIDE DEF id
  <2>1. /\ tasks'[id] \in Task
        /\ tasks'[id].kind = call[h].kind
        /\ tasks'[id].submitAt = call[h].now
        /\ tasks'[id].startAt = ScheduleStart(call[h].kind, call[h].now)
    BY <1>1, <1>6, <1>7, NewTaskFields
  <2> QED
    BY <1>2, <1>4, <1>8, <2>1 DEF id

-----------------------------------------------------------------------------
(* Type correctness.                                                       *)

LEMMA InitTypeOK == Init => TypeOK
BY FS_EmptySet DEF Init, TypeOK, NoCall, Kinds

LEMMA StepTypeOK == TypeOK /\ [Next]_vars => TypeOK'
<1> SUFFICES ASSUME TypeOK, [Next]_vars PROVE TypeOK'
  OBVIOUS
<1>1. CASE Tick
  <2>1. /\ clock \in Nat /\ clock' = clock + 1 /\ tasks' = tasks /\ seq' = seq /\ call' = call
        /\ \A id \in DOMAIN tasks : id[1] \in Nat
        /\ \A h \in Handlers : call[h].now \in Nat
    BY <1>1 DEF Tick, TypeOK, TaskId
  <2>2. clock' \in Nat /\ \A n \in Nat : n <= clock => n <= clock'
    BY <2>1
  <2> QED
    BY <2>1, <2>2 DEF TypeOK
<1>2. ASSUME NEW h \in Handlers, NEW kind \in Kinds, ReadClock(h, kind)
      PROVE  TypeOK'
  BY <1>2 DEF TypeOK, ReadClock
<1>3. ASSUME NEW h \in Handlers, Submit(h)
      PROVE  TypeOK'
  <2>1. PICK id \in TaskId :
           /\ id = NewId(call[h].now)
           /\ DOMAIN tasks' = DOMAIN tasks \cup {id}
           /\ \A j \in DOMAIN tasks : tasks'[j] = tasks[j]
           /\ tasks'[id] \in Task
           /\ tasks'[id].submitAt = call[h].now
    BY <1>3, SubmitEffect
  <2>2. /\ clock' = clock /\ seq' = seq + 1
        /\ call' = [call EXCEPT ![h] = NoCall]
    BY <1>3 DEF Submit
  <2>3. /\ clock' \in Nat /\ seq' \in Nat
        /\ call' \in [Handlers -> [pc : {"idle", "submitting"}, kind : Kinds, now : Nat]]
        /\ \A g \in Handlers : call'[g].now <= clock'
    BY <2>2 DEF TypeOK, NoCall, Kinds
  <2>4. DOMAIN tasks' \subseteq TaskId /\ IsFiniteSet(DOMAIN tasks')
    BY <2>1, FS_AddElement DEF TypeOK
  <2>5. id[1] = call[h].now /\ id[2] = seq + 1 /\ call[h].now <= clock
    BY <2>1 DEF NewId, TypeOK
  <2>6. ASSUME NEW i \in DOMAIN tasks'
        PROVE  /\ tasks'[i] \in Task
               /\ i[1] = tasks'[i].submitAt /\ i[1] <= clock'
               /\ i[2] \in 1 .. seq'
    <3>1. CASE i \in DOMAIN tasks
      BY <2>1, <2>2, <3>1 DEF TypeOK
    <3>2. CASE i = id
      BY <2>1, <2>2, <2>5, <3>2 DEF TypeOK
    <3> QED
      BY <2>1, <3>1, <3>2
  <2> QED
    BY <2>3, <2>4, <2>6 DEF TypeOK
<1>4. CASE UNCHANGED vars
  BY <1>4 DEF TypeOK, vars
<1> QED
  BY <1>1, <1>2, <1>3, <1>4 DEF Next

\* Every reachable state is well typed; in particular the ids carry the
\* stamps of their tasks and the counter is never behind an id.
THEOREM TypeCorrect == Spec => []TypeOK
<1>1. Init => TypeOK
  BY InitTypeOK
<1>2. TypeOK /\ [Next]_vars => TypeOK'
  BY StepTypeOK
<1> QED
  BY <1>1, <1>2, PTL DEF Spec

\* Once stored, a task is never replaced or rescheduled: the id of a new task
\* is fresh, since its counter is above every id in the table (Submit).
THEOREM ScheduleIsFinal == Spec => NeverRescheduled
<1>1. TypeOK /\ [Next]_vars =>
         [\A id \in DOMAIN tasks : id \in DOMAIN tasks' /\ tasks'[id] = tasks[id]]_vars
  <2> SUFFICES ASSUME TypeOK, Next
               PROVE  \A id \in DOMAIN tasks : id \in DOMAIN tasks' /\ tasks'[id] = tasks[id]
    OBVIOUS
  <2>1. CASE Tick
    BY <2>1 DEF Tick
  <2>2. ASSUME NEW h \in Handlers, NEW kind \in Kinds, ReadClock(h, kind)
        PROVE  tasks' = tasks
    BY <2>2 DEF ReadClock
  <2>3. ASSUME NEW h \in Handlers, Submit(h)
        PROVE  \A id \in DOMAIN tasks : id \in DOMAIN tasks' /\ tasks'[id] = tasks[id]
    BY <2>3, SubmitEffect
  <2> QED
    BY <2>1, <2>2, <2>3 DEF Next
<1> QED
  BY <1>1, TypeCorrect, PTL DEF Spec, NeverRescheduled

-----------------------------------------------------------------------------
(* The schedule as the code computes it.                                   *)

\* Counting finds what sorting and indexing finds.
LEMMA NthFinishSorts ==
    ASSUME TypeOK, NEW S \in SUBSET DOMAIN tasks, NEW s \in Sorted(S),
           NEW n \in Nat, n < Cardinality(S)
    PROVE  NthFinish(S, n) = tasks[s[n + 1]].finishAt
<1> DEFINE f == [id \in S |-> tasks[id].finishAt]
           v == NthFinish(S, n)
           w == f[s[n + 1]]
<1>1. IsFiniteSet(S)
  BY FS_Subset DEF TypeOK
<1>2. f \in [S -> Int]
  BY DEF TypeOK, Task
<1>3. Sorts(s, S, f)
  BY DEF Sorted, Sorts
<1>4. s[n + 1] \in S /\ CountBelow(S, f, w) <= n /\ n < CountUpTo(S, f, w)
  <2> HIDE DEF f
  <2> QED BY <1>1, <1>2, <1>3, SortedIndex
<1>5. ASSUME NEW a
      PROVE  /\ CountBelow(S, f, a) = Cardinality({id \in S : tasks[id].finishAt < a})
             /\ CountUpTo(S, f, a) = Cardinality({id \in S : tasks[id].finishAt <= a})
  <2>1. /\ {i \in S : f[i] < a} = {id \in S : tasks[id].finishAt < a}
        /\ {i \in S : f[i] <= a} = {id \in S : tasks[id].finishAt <= a}
    OBVIOUS
  <2> QED BY <2>1 DEF CountBelow, CountUpTo
<1> DEFINE IsNth(a) == /\ Cardinality({id \in S : tasks[id].finishAt < a}) <= n
                       /\ n < Cardinality({id \in S : tasks[id].finishAt <= a})
<1>6. v \in {tasks[id].finishAt : id \in S} /\ IsNth(v)
  <2>1. v = CHOOSE a \in {tasks[id].finishAt : id \in S} : IsNth(a)
    BY DEF NthFinish
  <2>2. w \in {tasks[id].finishAt : id \in S} /\ IsNth(w)
    BY <1>4, <1>5
  <2> HIDE DEF v, w, IsNth
  <2> QED BY <2>1, <2>2
<1>7. CountBelow(S, f, v) <= n /\ n < CountUpTo(S, f, v)
  <2> HIDE DEF f, v
  <2> QED BY <1>5, <1>6 DEF IsNth
<1> HIDE DEF v, IsNth
<1>8. v \in Int /\ w \in Int
  BY <1>2, <1>4, <1>6 DEF TypeOK, Task
<1>9. v = w
  <2> HIDE DEF f, w
  <2> QED BY <1>1, <1>2, <1>4, <1>7, <1>8, OneAtIndex
<1> QED BY <1>4, <1>9 DEF v

\* scheduleStart sorts the finish times in flight and indexes them: for any
\* number of tasks, slots and equal finish times the model's count is that.
THEOREM ScheduledBySorting == Spec => []ScheduleBySorting
<1>1. TypeOK => ScheduleBySorting
  <2> SUFFICES ASSUME TypeOK, NEW kind \in Kinds, NEW now \in 0 .. clock
               PROVE  LET flying == InFlight(kind, now)
                          k      == Cardinality(flying)
                      IN  /\ Sorted(flying) # {}
                          /\ \A s \in Sorted(flying) :
                                ScheduleStart(kind, now) =
                                  IF k < Concurrency(kind) THEN now
                                  ELSE tasks[s[k - Concurrency(kind) + 1]].finishAt
    BY DEF ScheduleBySorting
  <2> DEFINE S == InFlight(kind, now)
             f == [id \in S |-> tasks[id].finishAt]
             k == Cardinality(S)
             c == Concurrency(kind)
  <2>1. S \in SUBSET DOMAIN tasks /\ IsFiniteSet(S)
    BY FS_Subset DEF InFlight, TypeOK
  <2>2. c \in Nat \ {0} /\ k \in Nat
    BY <2>1, ConcurrencyType, FS_CardinalityType
  <2> HIDE DEF S, c
  <2>3. Sorted(S) # {}
    <3>1. f \in [S -> Int]
      BY <2>1 DEF TypeOK, Task
    <3>2. PICK s : Sorts(s, S, f)
      <4> HIDE DEF f
      <4> QED BY <2>1, <3>1, Sortable
    <3>3. s \in Sorted(S)
      BY <3>2 DEF Sorts, Sorted
    <3> QED BY <3>3
  <2>4. ASSUME NEW s \in Sorted(S)
        PROVE  ScheduleStart(kind, now) = IF k < c THEN now ELSE tasks[s[k - c + 1]].finishAt
    <3>1. ScheduleStart(kind, now) = IF k < c THEN now ELSE NthFinish(S, k - c)
      BY DEF ScheduleStart, S, c
    <3> HIDE DEF k
    <3>2. CASE k < c
      BY <3>1, <3>2
    <3>3. CASE ~(k < c)
      <4>1. PICK n \in Nat : n = k - c /\ n < k
        BY <2>2, <3>3
      <4>2. NthFinish(S, n) = tasks[s[n + 1]].finishAt
        BY <2>1, <4>1, NthFinishSorts DEF k
      <4> QED BY <3>1, <3>3, <4>1, <4>2
    <3> QED BY <3>2, <3>3
  <2> QED BY <2>3, <2>4 DEF S, c
<1> QED BY <1>1, TypeCorrect, PTL

-----------------------------------------------------------------------------
(* One submit, seen by each part of the invariant.  The new task is id, it *)
(* starts at start; everything stored before is untouched.                 *)

\* Finite, and therefore countable, sets of tasks.
LEMMA TaskSetsFinite ==
    ASSUME TypeOK, NEW T \in SUBSET DOMAIN tasks
    PROVE  IsFiniteSet(T) /\ Cardinality(T) \in Nat
BY FS_Subset, FS_CardinalityType DEF TypeOK

LEMMA TaskSetsMonotone ==
    ASSUME TypeOK, NEW T \in SUBSET DOMAIN tasks, NEW U \in SUBSET T
    PROVE  Cardinality(U) <= Cardinality(T)
BY TaskSetsFinite, FS_Subset

LEMMA SubmitSlotCap ==
    ASSUME TypeOK, SlotCapAlways, NEW h \in Handlers, Submit(h)
    PROVE  SlotCapAlways'
<1>1. PICK id \in TaskId :
         /\ id \notin DOMAIN tasks
         /\ DOMAIN tasks' = DOMAIN tasks \cup {id}
         /\ \A j \in DOMAIN tasks : tasks'[j] = tasks[j]
         /\ tasks'[id] \in Task
         /\ tasks'[id].kind = call[h].kind
         /\ tasks'[id].startAt = ScheduleStart(call[h].kind, call[h].now)
  BY SubmitEffect
<1> SUFFICES ASSUME NEW kind \in Kinds, NEW t \in Int
             PROVE  Cardinality(RunningAt(kind, t)') <= Concurrency(kind)
  BY DEF SlotCapAlways, Concurrency
<1>2. Concurrency(kind) \in Nat
  BY ConcurrencyType
<1>3. RunningAt(kind, t) \in SUBSET DOMAIN tasks
  BY DEF RunningAt
<1>4. Cardinality(RunningAt(kind, t)) <= Concurrency(kind)
  BY DEF SlotCapAlways
<1>5. CASE id \notin RunningAt(kind, t)'
  <2>1. RunningAt(kind, t)' = RunningAt(kind, t)
    BY <1>1, <1>5 DEF RunningAt
  <2> QED
    BY <1>4, <2>1
<1>6. CASE id \in RunningAt(kind, t)'
  <2>1. RunningAt(kind, t)' = RunningAt(kind, t) \cup {id}
    BY <1>1, <1>6 DEF RunningAt
  <2>2. /\ call[h].kind = kind /\ call[h].now \in Nat
        /\ ScheduleStart(kind, call[h].now) <= t
    BY <1>1, <1>6 DEF RunningAt, TypeOK
  <2> DEFINE start == ScheduleStart(kind, call[h].now)
  <2>3. start \in Int /\ Cardinality(InFlight(kind, start)) < Concurrency(kind)
    BY <2>2, ScheduleStartFacts
  <2>4. start <= t
    BY <2>2
  <2> HIDE DEF start
  <2>5. RunningAt(kind, t) \in SUBSET InFlight(kind, start)
    BY <2>3, <2>4 DEF RunningAt, InFlight, TypeOK, Task
  <2>6. InFlight(kind, start) \in SUBSET DOMAIN tasks
    BY DEF InFlight
  <2>7. Cardinality(RunningAt(kind, t)) <= Cardinality(InFlight(kind, start))
    BY <2>5, <2>6, TaskSetsMonotone
  <2>8. /\ IsFiniteSet(RunningAt(kind, t))
        /\ Cardinality(RunningAt(kind, t)) \in Nat
        /\ Cardinality(InFlight(kind, start)) \in Nat
    BY <1>3, <2>6, TaskSetsFinite
  <2>9. id \notin RunningAt(kind, t)
    BY <1>1, <1>3
  <2>10. Cardinality(RunningAt(kind, t) \cup {id}) = Cardinality(RunningAt(kind, t)) + 1
    BY <2>8, <2>9, FS_AddElement
  <2> QED
    BY <1>2, <2>1, <2>3, <2>7, <2>8, <2>10
<1> QED
  BY <1>5, <1>6

LEMMA SubmitWorkConserving ==
    ASSUME TypeOK, WorkConservingAlways, NEW h \in Handlers, Submit(h), TypeOK'
    PROVE  WorkConservingAlways'
<1>1. PICK id \in TaskId :
         /\ id \notin DOMAIN tasks
         /\ DOMAIN tasks' = DOMAIN tasks \cup {id}
         /\ \A j \in DOMAIN tasks : tasks'[j] = tasks[j]
         /\ tasks'[id] \in Task
         /\ tasks'[id].kind = call[h].kind
         /\ tasks'[id].startAt = ScheduleStart(call[h].kind, call[h].now)
  BY SubmitEffect
<1>2. clock' = clock
  BY DEF Submit
<1> SUFFICES ASSUME NEW kind \in Kinds, NEW t \in Int, t >= clock,
                    PendingAt(kind, t)' # {}
             PROVE  Cardinality(RunningAt(kind, t)') >= Concurrency(kind)
  BY <1>2 DEF WorkConservingAlways, Concurrency
<1>3. Concurrency(kind) \in Nat
  BY ConcurrencyType
<1>4. RunningAt(kind, t) \in SUBSET RunningAt(kind, t)'
  BY <1>1 DEF RunningAt
<1>5. /\ Cardinality(RunningAt(kind, t)) <= Cardinality(RunningAt(kind, t)')
      /\ Cardinality(RunningAt(kind, t)) \in Nat
      /\ Cardinality(RunningAt(kind, t)') \in Nat
  <2>1. IsFiniteSet(DOMAIN tasks')
    BY DEF TypeOK
  <2>2. RunningAt(kind, t)' \in SUBSET DOMAIN tasks' /\ RunningAt(kind, t) \in SUBSET DOMAIN tasks
    BY DEF RunningAt
  <2>3. IsFiniteSet(RunningAt(kind, t)')
    BY <2>1, <2>2, FS_Subset
  <2> QED
    BY <1>4, <2>2, <2>3, FS_Subset, FS_CardinalityType, TaskSetsFinite
<1>6. Cardinality(RunningAt(kind, t)) >= Concurrency(kind)
  <2>1. CASE PendingAt(kind, t) # {}
    BY <2>1 DEF WorkConservingAlways
  <2>2. CASE PendingAt(kind, t) = {}
    <3>1. /\ call[h].kind = kind
          /\ t < ScheduleStart(kind, call[h].now)
      BY <1>1, <2>2 DEF PendingAt
    <3>2. call[h].now \in Nat /\ call[h].now <= clock /\ clock \in Nat
      BY DEF TypeOK
    <3> DEFINE start == ScheduleStart(kind, call[h].now)
    <3>3. /\ start \in Int
          /\ start # call[h].now => Cardinality(EndFrom(kind, start)) >= Concurrency(kind)
      BY <3>2, ScheduleStartFacts
    <3>4. t < start
      BY <3>1
    <3> HIDE DEF start
    <3>5. Cardinality(EndFrom(kind, start)) >= Concurrency(kind)
      BY <3>2, <3>3, <3>4
    <3>6. EndFrom(kind, start) \in SUBSET RunningAt(kind, t)
      BY <2>2, <3>3, <3>4 DEF EndFrom, RunningAt, PendingAt, TypeOK, Task
    <3>7. RunningAt(kind, t) \in SUBSET DOMAIN tasks
      BY DEF RunningAt
    <3>8. /\ Cardinality(EndFrom(kind, start)) <= Cardinality(RunningAt(kind, t))
          /\ Cardinality(EndFrom(kind, start)) \in Nat
      BY <3>6, <3>7, TaskSetsMonotone, TaskSetsFinite
    <3> QED
      BY <1>3, <1>5, <3>5, <3>8
  <2> QED
    BY <2>1, <2>2
<1> QED
  BY <1>3, <1>5, <1>6

LEMMA SubmitStartJustified ==
    ASSUME TypeOK, StartJustified, NEW h \in Handlers, Submit(h)
    PROVE  StartJustified'
<1>1. PICK id \in TaskId :
         /\ id \notin DOMAIN tasks
         /\ \A j \in DOMAIN tasks : j[2] < id[2]
         /\ DOMAIN tasks' = DOMAIN tasks \cup {id}
         /\ \A j \in DOMAIN tasks : tasks'[j] = tasks[j]
         /\ tasks'[id].kind = call[h].kind
         /\ tasks'[id].submitAt = call[h].now
         /\ tasks'[id].startAt = ScheduleStart(call[h].kind, call[h].now)
  BY SubmitEffect
<1>2. call[h].now \in Nat /\ call[h].kind \in Kinds
  BY DEF TypeOK
<1>3. \A j \in DOMAIN tasks : j[2] \in Nat /\ ~ (id[2] < j[2])
  <2>1. id[2] \in Nat /\ \A j \in DOMAIN tasks : j[2] \in Nat
    BY DEF TypeOK, TaskId
  <2> QED
    BY <1>1, <2>1
<1> SUFFICES ASSUME NEW i \in DOMAIN tasks'
             PROVE  /\ tasks'[i].startAt >= tasks'[i].submitAt
                    /\ \/ tasks'[i].startAt = tasks'[i].submitAt
                       \/ Cardinality(Ahead(i)') >= Concurrency(tasks'[i].kind)
  BY DEF StartJustified, Concurrency
<1>4. CASE i \in DOMAIN tasks
  <2>1. Ahead(i)' = Ahead(i)
    BY <1>1, <1>3, <1>4 DEF Ahead
  <2> QED
    BY <1>1, <1>4, <2>1 DEF StartJustified
<1>5. CASE i = id
  <2> DEFINE start == ScheduleStart(call[h].kind, call[h].now)
  <2>1. /\ start >= call[h].now
        /\ start # call[h].now =>
              Cardinality(EndFrom(call[h].kind, start)) >= Concurrency(call[h].kind)
    BY <1>2, ScheduleStartFacts
  <2>2. tasks'[id].startAt = start
    BY <1>1
  <2> HIDE DEF start
  <2>3. Ahead(id)' = EndFrom(call[h].kind, start)
    <3>1. ~ (id[2] < id[2])
      BY DEF TaskId
    <3> QED
      BY <1>1, <2>2, <3>1 DEF Ahead, EndFrom
  <2> QED
    BY <1>1, <1>5, <2>1, <2>2, <2>3
<1> QED
  BY <1>1, <1>4, <1>5

LEMMA SubmitFifo ==
    ASSUME TypeOK, StartJustified, Fifo, NEW h \in Handlers, Submit(h)
    PROVE  Fifo'
<1>1. PICK id \in TaskId :
         /\ id \notin DOMAIN tasks
         /\ \A j \in DOMAIN tasks : j[2] < id[2]
         /\ DOMAIN tasks' = DOMAIN tasks \cup {id}
         /\ \A j \in DOMAIN tasks : tasks'[j] = tasks[j]
         /\ tasks'[id].kind = call[h].kind
         /\ tasks'[id].submitAt = call[h].now
         /\ tasks'[id].startAt = ScheduleStart(call[h].kind, call[h].now)
  BY SubmitEffect
<1>2. call[h].now \in Nat /\ call[h].kind \in Kinds
  BY DEF TypeOK
<1>3. id[2] \in Nat /\ \A j \in DOMAIN tasks : j[2] \in Nat /\ ~ (id[2] < j[2])
  <2>1. id[2] \in Nat /\ \A j \in DOMAIN tasks : j[2] \in Nat
    BY DEF TypeOK, TaskId
  <2> QED
    BY <1>1, <2>1
<1> SUFFICES ASSUME NEW i \in DOMAIN tasks', NEW j \in DOMAIN tasks',
                    tasks'[i].kind = tasks'[j].kind, i[2] < j[2],
                    tasks'[i].submitAt <= tasks'[j].submitAt
             PROVE  tasks'[i].startAt <= tasks'[j].startAt
  BY DEF Fifo
<1>4. i # id
  BY <1>1, <1>3
<1>5. CASE j \in DOMAIN tasks
  BY <1>1, <1>4, <1>5 DEF Fifo
<1>6. CASE j = id
  <2> DEFINE kind == call[h].kind
             start == ScheduleStart(kind, call[h].now)
  <2>1. /\ i \in DOMAIN tasks /\ tasks[i].kind = kind
        /\ tasks[i].submitAt <= call[h].now /\ tasks[i].startAt \in Int
        /\ tasks[i].submitAt \in Nat
    BY <1>1, <1>4, <1>6 DEF TypeOK, Task
  <2>2. /\ start \in Int /\ start >= call[h].now
        /\ Cardinality(InFlight(kind, start)) < Concurrency(kind)
    BY <1>2, ScheduleStartFacts
  <2> HIDE DEF start
  <2>3. tasks[i].startAt <= start
    <3>1. CASE tasks[i].startAt = tasks[i].submitAt
      BY <1>2, <2>1, <2>2, <3>1
    <3>2. CASE Cardinality(Ahead(i)) >= Concurrency(kind)
      <4> SUFFICES ASSUME start < tasks[i].startAt PROVE FALSE
        BY <2>1, <2>2
      <4>1. Ahead(i) \in SUBSET InFlight(kind, start)
        BY <2>1, <2>2 DEF Ahead, InFlight, TypeOK, Task
      <4>2. InFlight(kind, start) \in SUBSET DOMAIN tasks /\ Ahead(i) \in SUBSET DOMAIN tasks
        BY DEF InFlight, Ahead
      <4>3. Cardinality(Ahead(i)) <= Cardinality(InFlight(kind, start))
        BY <4>1, <4>2, TaskSetsMonotone
      <4>4. /\ Cardinality(Ahead(i)) \in Nat /\ Cardinality(InFlight(kind, start)) \in Nat
            /\ Concurrency(kind) \in Nat
        BY <1>2, <4>2, TaskSetsFinite, ConcurrencyType
      <4> QED
        BY <2>2, <3>2, <4>3, <4>4
    <3> QED
      BY <2>1, <3>1, <3>2 DEF StartJustified
  <2> QED
    BY <1>1, <1>6, <2>1, <2>3 DEF start
<1> QED
  BY <1>1, <1>5, <1>6

-----------------------------------------------------------------------------
(* The invariant.                                                          *)

LEMMA InitIInv == Init => IInv
<1> SUFFICES ASSUME Init PROVE IInv
  OBVIOUS
<1>1. TypeOK /\ DOMAIN tasks = {}
  BY InitTypeOK DEF Init
<1>2. \A kind \in Kinds, t \in Int : RunningAt(kind, t) = {} /\ PendingAt(kind, t) = {}
  BY <1>1 DEF RunningAt, PendingAt
<1>3. SlotCapAlways
  BY <1>2, ConcurrencyType, FS_EmptySet DEF SlotCapAlways
<1> QED
  BY <1>1, <1>2, <1>3 DEF IInv, WorkConservingAlways, StartJustified, Fifo

\* A step that leaves the table alone and does not turn the clock back.
LEMMA TableUnchanged ==
    ASSUME IInv, tasks' = tasks, clock' \in Int, clock' >= clock
    PROVE  SlotCapAlways' /\ WorkConservingAlways' /\ StartJustified' /\ Fifo'
<1>1. \A kind, t : RunningAt(kind, t)' = RunningAt(kind, t) /\ PendingAt(kind, t)' = PendingAt(kind, t)
  BY DEF RunningAt, PendingAt
<1>2. clock \in Nat
  BY DEF IInv, TypeOK
<1>3. SlotCapAlways'
  BY <1>1 DEF IInv, SlotCapAlways, Concurrency
<1>4. WorkConservingAlways'
  BY <1>1, <1>2 DEF IInv, WorkConservingAlways, Concurrency
<1>5. StartJustified' /\ Fifo'
  BY DEF IInv, StartJustified, Ahead, Fifo, Concurrency
<1> QED
  BY <1>3, <1>4, <1>5

LEMMA StepIInv == IInv /\ [Next]_vars => IInv'
<1> SUFFICES ASSUME IInv, [Next]_vars PROVE IInv'
  OBVIOUS
<1>1. TypeOK /\ TypeOK'
  BY StepTypeOK DEF IInv
<1>2. clock \in Nat /\ clock' \in Nat
  BY <1>1 DEF TypeOK
<1>3. CASE Tick
  BY <1>1, <1>2, <1>3, TableUnchanged DEF Tick, IInv
<1>4. ASSUME NEW h \in Handlers, NEW kind \in Kinds, ReadClock(h, kind)
      PROVE  IInv'
  BY <1>1, <1>2, <1>4, TableUnchanged DEF ReadClock, IInv
<1>5. ASSUME NEW h \in Handlers, Submit(h)
      PROVE  IInv'
  BY <1>1, <1>5, SubmitSlotCap, SubmitWorkConserving, SubmitStartJustified, SubmitFifo DEF IInv
<1>6. CASE UNCHANGED vars
  BY <1>1, <1>2, <1>6, TableUnchanged DEF vars, IInv
<1> QED
  BY <1>3, <1>4, <1>5, <1>6 DEF Next

THEOREM Invariance == Spec => []IInv
<1> QED
  BY InitIInv, StepIInv, PTL DEF Spec

\* The slots of a kind are never oversubscribed, for any number of handlers,
\* however late their stamps reach Submit, and for any configured limits.
THEOREM SlotsNeverOversubscribed == Spec => []SlotCap
<1>1. IInv => SlotCap
  <2>1. IInv => \A t \in {clock} \cup {tasks[id].startAt : id \in DOMAIN tasks} : t \in Int
    BY DEF IInv, TypeOK, Task
  <2> QED
    BY <2>1 DEF IInv, SlotCapAlways, SlotCap
<1> QED
  BY <1>1, Invariance, PTL

\* scheduleStart never makes a task wait while a slot of its kind is idle.
THEOREM NoSlotIdles == Spec => []WorkConserving
<1>1. IInv => WorkConserving
  <2>1. IInv => \A t \in {clock} \cup {tasks[id].finishAt : id \in DOMAIN tasks} : t \in Int
    BY DEF IInv, TypeOK, Task
  <2> QED
    BY <2>1 DEF IInv, WorkConservingAlways, WorkConserving
<1> QED
  BY <1>1, Invariance, PTL

\* Of two tasks of a kind, the one that took q.mu first with no later a stamp
\* starts no later.
THEOREM FirstComeFirstServed == Spec => []Fifo
<1>1. IInv => Fifo
  BY DEF IInv
<1> QED
  BY <1>1, Invariance, PTL

-----------------------------------------------------------------------------
(* The refinement of AsyncTaskService: the slots are used as the invariant *)
(* says; statuses move forward because a task's two instants never change  *)
(* and the clock never goes back.                                          *)

LEMMA StatusCases ==
    ASSUME NEW t \in Task, NEW now \in Nat
    PROVE  /\ Status(t, now) = "PENDING" <=> now < t.startAt
           /\ Status(t, now) = "RUNNING" <=> t.startAt <= now /\ now < t.finishAt
           /\ Status(t, now) \in Service!Statuses
<1>1. t.startAt \in Int /\ t.finishAt \in Int
  BY DEF Task
<1> QED
  BY <1>1 DEF Status, Service!Statuses, Service!Terminal

\* A fixed task's status never moves back as the clock goes on.
LEMMA StatusOnward ==
    ASSUME NEW t \in Task, NEW now \in Nat, NEW later \in Nat, now <= later
    PROVE  Status(t, later) \in Service!Onward(Status(t, now))
<1>1. t.startAt \in Int /\ t.finishAt \in Int
  BY DEF Task
<1>2. CASE now < t.startAt
  <2>1. Service!Onward(Status(t, now)) = Service!Statuses
    BY <1>2, StatusCases DEF Service!Onward, Service!Terminal
  <2> QED
    BY <2>1, StatusCases
<1>3. CASE t.startAt <= now /\ now < t.finishAt
  BY <1>1, <1>3 DEF Status, Service!Onward, Service!Terminal
<1>4. CASE t.startAt <= now /\ t.finishAt <= now
  BY <1>1, <1>4 DEF Status, Service!Onward, Service!Terminal
<1> QED
  BY <1>1, <1>2, <1>3, <1>4

\* The instance counts as the module that instantiates it does.
LEMMA SameCardinality == \A S : Service!Cardinality(S) = Cardinality(S)
BY Zenon DEF Service!Cardinality, Cardinality

\* The invariant is the service's claim about its slots.
LEMMA SlotsWellUsed == IInv => Service!SlotsWellUsed
<1> SUFFICES ASSUME IInv, NEW kind \in Kinds
             PROVE  /\ Cardinality(Service!With(kind, "RUNNING")) <= Concurrency(kind)
                    /\ Service!With(kind, "PENDING") # {} =>
                           Cardinality(Service!With(kind, "RUNNING")) = Concurrency(kind)
  BY SameCardinality DEF Service!SlotsWellUsed
<1>1. clock \in Nat /\ \A id \in DOMAIN tasks : tasks[id] \in Task
  BY DEF IInv, TypeOK
<1>2. /\ Service!With(kind, "RUNNING") = RunningAt(kind, clock)
      /\ Service!With(kind, "PENDING") = PendingAt(kind, clock)
  BY <1>1, StatusCases DEF Service!With, Jobs, RunningAt, PendingAt
<1>3. /\ Cardinality(RunningAt(kind, clock)) <= Concurrency(kind)
      /\ PendingAt(kind, clock) # {} =>
             Cardinality(RunningAt(kind, clock)) >= Concurrency(kind)
  BY <1>1 DEF IInv, SlotCapAlways, WorkConservingAlways
<1>4. Cardinality(RunningAt(kind, clock)) \in Nat /\ Concurrency(kind) \in Nat
  BY TaskSetsFinite, ConcurrencyType DEF IInv, RunningAt
<1> QED
  BY <1>2, <1>3, <1>4

LEMMA InitRefines == Init => Service!Init
<1> SUFFICES ASSUME Init PROVE Jobs = << >>
  BY DEF Service!Init
<1>1. DOMAIN tasks = {}
  BY DEF Init
<1> QED
  BY <1>1 DEF Jobs

LEMMA TickRefines ==
    ASSUME IInv, Tick
    PROVE  Service!Advance
<1>1. /\ clock \in Nat /\ clock' = clock + 1 /\ tasks' = tasks
      /\ \A id \in DOMAIN tasks : tasks[id] \in Task
  BY DEF Tick, IInv, TypeOK
<1>2. \A id \in DOMAIN tasks : Status(tasks[id], clock') \in Service!Onward(Status(tasks[id], clock))
  BY <1>1, StatusOnward
<1>3. /\ Jobs' = [id \in DOMAIN tasks |-> [kind |-> tasks[id].kind, status |-> Status(tasks[id], clock')]]
      /\ Jobs = [id \in DOMAIN tasks |-> [kind |-> tasks[id].kind, status |-> Status(tasks[id], clock)]]
  BY <1>1 DEF Jobs
<1> QED
  BY <1>2, <1>3 DEF Service!Advance

LEMMA SubmitRefines ==
    ASSUME IInv, IInv', NEW h \in Handlers, Submit(h)
    PROVE  Service!Accept
<1>1. PICK id \in TaskId :
         /\ id \notin DOMAIN tasks
         /\ DOMAIN tasks' = DOMAIN tasks \cup {id}
         /\ \A j \in DOMAIN tasks : tasks'[j] = tasks[j]
         /\ tasks'[id] \in Task
  BY SubmitEffect DEF IInv
<1>2. clock' = clock /\ clock \in Nat
  BY DEF Submit, IInv, TypeOK
<1>3. /\ DOMAIN Jobs = DOMAIN tasks
      /\ DOMAIN Jobs' = DOMAIN tasks'
  BY DEF Jobs
<1>4. \A j \in DOMAIN Jobs : Jobs'[j] = Jobs[j]
  BY <1>1, <1>2 DEF Jobs
<1>5. Jobs'[id].kind \in Kinds /\ Jobs'[id].status \in Service!Statuses
  <2>1. Jobs'[id] = [kind |-> tasks'[id].kind, status |-> Status(tasks'[id], clock')]
    BY <1>1 DEF Jobs
  <2> QED
    BY <1>1, <1>2, <2>1, StatusCases DEF Task
<1> QED
  BY <1>1, <1>3, <1>4, <1>5 DEF Service!Accept

LEMMA StepRefines == IInv /\ IInv' /\ [Next]_vars => [Service!Next]_Jobs
<1> SUFFICES ASSUME IInv, IInv', [Next]_vars PROVE [Service!Next]_Jobs
  OBVIOUS
<1>1. Service!SlotsWellUsed'
  BY SlotsWellUsed, PTL
<1>2. CASE Tick
  BY <1>1, <1>2, TickRefines DEF Service!Next
<1>3. ASSUME NEW h \in Handlers, NEW kind \in Kinds, ReadClock(h, kind)
      PROVE  Jobs' = Jobs
  BY <1>3 DEF ReadClock, Jobs
<1>4. ASSUME NEW h \in Handlers, Submit(h)
      PROVE  Service!Next
  BY <1>1, <1>4, SubmitRefines DEF Service!Next
<1>5. CASE UNCHANGED vars
  BY <1>5 DEF vars, Jobs
<1> QED
  BY <1>2, <1>3, <1>4, <1>5 DEF Next

\* Clients of the queue see a lawful service: every job accepted once and
\* kept, statuses moving forward only, slots full whenever a job waits and
\* never oversubscribed (the safety part of ImplementsService is all of it).
THEOREM QueueImplementsService == Spec => ImplementsService
<1>1. Init => Service!Init
  BY InitRefines
<1>2. IInv /\ IInv' /\ [Next]_vars => [Service!Next]_Jobs
  BY StepRefines
<1> QED
  BY <1>1, <1>2, Invariance, PTL DEF Spec, ImplementsService, Service!Spec

-----------------------------------------------------------------------------
(* What a module that works with an instance of the queue needs to know of *)
(* it, as formulas.                                                        *)

LEMMA SubmitAdds ==
    TypeOK => \A h \in Handlers : Submit(h) =>
        /\ NewId(call[h].now) \notin DOMAIN tasks
        /\ DOMAIN tasks' = DOMAIN tasks \cup {NewId(call[h].now)}
        /\ \A j \in DOMAIN tasks : tasks'[j] = tasks[j]
        /\ tasks'[NewId(call[h].now)].kind = call[h].kind
<1> SUFFICES ASSUME TypeOK, NEW h \in Handlers, Submit(h)
             PROVE  /\ NewId(call[h].now) \notin DOMAIN tasks
                    /\ DOMAIN tasks' = DOMAIN tasks \cup {NewId(call[h].now)}
                    /\ \A j \in DOMAIN tasks : tasks'[j] = tasks[j]
                    /\ tasks'[NewId(call[h].now)].kind = call[h].kind
  OBVIOUS
<1> QED
  BY SubmitEffect

LEMMA StatusMovesOnward ==
    \A t \in Task, now, later \in Nat : now <= later =>
        Status(t, later) \in Service!Onward(Status(t, now))
BY StatusOnward
=============================================================================
