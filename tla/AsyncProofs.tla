----------------------------- MODULE AsyncProofs -----------------------------
(***************************************************************************)
(* Theorems of the async endpoints, for every number of handlers, pollers, *)
(* polls, tasks and restarts: ids resolve for as long as the process lives *)
(* and are dead afterwards, no poll goes back behind an answer that came   *)
(* before it was sent, and results are earned.  What is known of the queue *)
(* is taken from its own proofs (QP); the argument here is about what      *)
(* clients hold: ids, answers under way, and the answers they have seen.   *)
(***************************************************************************)
EXTENDS AsyncProtocols, FiniteSetTheorems, TLAPS

QP == INSTANCE TaskQueueProofs

Statuses == Queue!Service!Statuses
Onward(status) == Queue!Service!Onward(status)

\* What a poll judged now would find.
StatusNow(id) == Queue!Status(tasks[id], clock)

-----------------------------------------------------------------------------
(* The inductive invariant.                                                *)

\* No task in the table is, and none on its way into it will be, stamped as
\* early as the id was.
Stale(id) ==
    /\ id[1] < clock
    /\ \A i \in DOMAIN tasks : id[1] < i[1]
    /\ \A h \in Handlers : call[h].pc = "submitting" => id[1] < call[h].now

\* A handler has its protocol's kind in hand until it has the id.
SubmitOK(h) ==
    /\ call[h].pc = "submitting" =>
          submit[h].id = NoId /\ call[h].kind \in Offers(submit[h].proto)
    /\ submit[h].id # NoId => tasks[submit[h].id].kind \in Offers(submit[h].proto)

\* A ticket names a task that is no further back than its client was told, or
\* is stale.
TicketOK(g) ==
    /\ g.life = life =>
          /\ g.id \in DOMAIN tasks /\ tasks[g.id].kind = g.kind
          /\ g.kind \in Offers(g.proto)
          /\ StatusNow(g.id) \in Onward(told[g])
    /\ g.life # life => Stale(g.id)

\* An answer under way tells of some status between what the client knew when
\* it asked and what the task has become since.
AnswerOK(p) ==
    LET g == poll[p].ticket
    IN  \E status \in Onward(poll[p].floor) :
           /\ poll[p].shown = Shown(g.proto, status)
           /\ poll[p].result = Result(g.proto, tasks[g.id], status)
           /\ StatusNow(g.id) \in Onward(status)

PollOK(p) ==
    /\ poll[p].pc \in {"idle", "get", "judge", "answer"}
    /\ poll[p].pc # "idle" => poll[p].floor \in Statuses
    /\ poll[p].pc \in {"get", "judge"} /\ poll[p].ticket.life = life =>
          StatusNow(poll[p].ticket.id) \in Onward(poll[p].floor)
    /\ poll[p].pc = "judge" =>
          poll[p].ticket.life = life /\ poll[p].task = tasks[poll[p].ticket.id]
    /\ poll[p].pc = "answer" =>
          IF poll[p].ticket.life = life THEN AnswerOK(p) ELSE poll[p].shown = "UNKNOWN"

AInv ==
    /\ TypeOK
    /\ DOMAIN poll = Pollers
    /\ \A h \in Handlers : SubmitOK(h)
    /\ \A g \in DOMAIN told : TicketOK(g)
    /\ \A p \in Pollers : PollOK(p)

-----------------------------------------------------------------------------
(* The queue of the specification and the queue of the proofs are one and  *)
(* the same: two instances of TaskQueue with the same parameters.          *)

LEMMA SameType == QP!TypeOK <=> Queue!TypeOK
<1>1. \A S : QP!IsFiniteSet(S) <=> Queue!IsFiniteSet(S)
  BY Zenon DEF QP!IsFiniteSet, Queue!IsFiniteSet
<1> QED BY <1>1 DEF QP!TypeOK, Queue!TypeOK, QP!TaskId, Queue!TaskId,
                    QP!Task, Queue!Task, QP!Kinds, Queue!Kinds

LEMMA SameStatus ==
    /\ QP!Task = Queue!Task
    /\ \A t, now : QP!Status(t, now) = Queue!Status(t, now)
    /\ \A status : QP!Service!Onward(status) = Queue!Service!Onward(status)
<1>1. QP!Task = Queue!Task
  BY DEF QP!Task, Queue!Task, QP!Kinds, Queue!Kinds
<1>2. \A t, now : QP!Status(t, now) = Queue!Status(t, now)
  BY DEF QP!Status, Queue!Status
<1>3. \A status : QP!Service!Onward(status) = Queue!Service!Onward(status)
  BY DEF QP!Service!Onward, Queue!Service!Onward, QP!Service!Statuses,
         Queue!Service!Statuses, QP!Service!Terminal, Queue!Service!Terminal
<1> QED BY <1>1, <1>2, <1>3

LEMMA SameSchedule ==
    \A kind, now : QP!ScheduleStart(kind, now) = Queue!ScheduleStart(kind, now)
<1>1. \A S : QP!Cardinality(S) = Queue!Cardinality(S)
  BY Zenon DEF QP!Cardinality, Queue!Cardinality
<1>2. \A kind, now : QP!InFlight(kind, now) = Queue!InFlight(kind, now)
  BY DEF QP!InFlight, Queue!InFlight
<1>3. \A S, n : QP!NthFinish(S, n) = Queue!NthFinish(S, n)
  BY Zenon DEF QP!NthFinish, Queue!NthFinish, QP!Cardinality, Queue!Cardinality
<1>4. \A kind : QP!Concurrency(kind) = Queue!Concurrency(kind)
  BY DEF QP!Concurrency, Queue!Concurrency
<1> QED BY <1>1, <1>2, <1>3, <1>4 DEF QP!ScheduleStart, Queue!ScheduleStart

LEMMA SameNewTask ==
    \A kind, now, h : QP!NewTask(kind, now, h) = Queue!NewTask(kind, now, h)
<1>1. \A kind, h : QP!Duration(kind, h) = Queue!Duration(kind, h)
  BY DEF QP!Duration, Queue!Duration, QP!RandomDelay, Queue!RandomDelay
<1>2. \A h, rate : QP!ShouldInject(h, rate) = Queue!ShouldInject(h, rate)
  BY DEF QP!ShouldInject, Queue!ShouldInject, QP!RateScale, Queue!RateScale
<1> QED BY Zenon, <1>1, <1>2, SameSchedule DEF QP!NewTask, Queue!NewTask

LEMMA SameSubmit == \A h : QP!Submit(h) <=> Queue!Submit(h)
BY Zenon, SameNewTask DEF QP!Submit, Queue!Submit, QP!NewId, Queue!NewId,
                          QP!NoCall, Queue!NoCall

LEMMA SameNext == QP!Next <=> Queue!Next
<1>1. QP!Tick <=> Queue!Tick
  BY DEF QP!Tick, Queue!Tick
<1>2. \A h, kind : QP!ReadClock(h, kind) <=> Queue!ReadClock(h, kind)
  <2>1. \A S : QP!Cardinality(S) = Queue!Cardinality(S)
    BY Zenon DEF QP!Cardinality, Queue!Cardinality
  <2> QED BY <2>1 DEF QP!ReadClock, Queue!ReadClock, QP!Submitting, Queue!Submitting
<1> QED BY <1>1, <1>2, SameSubmit DEF QP!Next, Queue!Next, QP!Kinds, Queue!Kinds

-----------------------------------------------------------------------------
(* What the queue does, and how statuses follow one another.               *)

LEMMA QueueInit == Queue!Init => Queue!TypeOK
<1>1. QP!Init <=> Queue!Init
  BY DEF QP!Init, Queue!Init, QP!NoCall, Queue!NoCall
<1> QED BY <1>1, QP!InitTypeOK, SameType, AsyncQueueAssumption

LEMMA QueueStep == Queue!TypeOK /\ (Queue!Next \/ UNCHANGED queue) => Queue!TypeOK'
<1>1. (QP!TypeOK <=> Queue!TypeOK)'
  BY SameType, PTL
<1> QED BY <1>1, QP!StepTypeOK, SameType, SameNext, AsyncQueueAssumption DEF queue, QP!vars

LEMMA QueueSubmit ==
    ASSUME Queue!TypeOK, NEW h \in Handlers, Queue!Submit(h)
    PROVE  /\ Queue!NewId(call[h].now) \notin DOMAIN tasks
           /\ DOMAIN tasks' = DOMAIN tasks \cup {Queue!NewId(call[h].now)}
           /\ \A j \in DOMAIN tasks : tasks'[j] = tasks[j]
           /\ tasks'[Queue!NewId(call[h].now)].kind = call[h].kind
BY QP!SubmitAdds, SameType, SameSubmit, AsyncQueueAssumption DEF QP!NewId, Queue!NewId

LEMMA StatusMoves ==
    ASSUME NEW t \in Queue!Task, NEW now \in Nat, NEW later \in Nat, now <= later
    PROVE  Queue!Status(t, later) \in Onward(Queue!Status(t, now))
BY QP!StatusMovesOnward, SameStatus, AsyncQueueAssumption DEF Onward

LEMMA StatusTyped ==
    ASSUME NEW t \in Queue!Task, NEW now \in Nat
    PROVE  /\ Queue!Status(t, now) \in Statuses
           /\ Queue!Status(t, now) \in {"SUCCEEDED", "FAILED"} => t.finishAt <= now
           /\ Queue!Status(t, now) = "FAILED" => t.willFail
           /\ Queue!Status(t, now) = "SUCCEEDED" => ~t.willFail
<1>1. t.startAt \in Int /\ t.finishAt \in Int /\ t.willFail \in BOOLEAN
  BY DEF Queue!Task
<1>2. CASE now < t.startAt
  BY <1>1, <1>2 DEF Queue!Status, Statuses, Queue!Service!Statuses
<1>3. CASE t.startAt <= now /\ now < t.finishAt
  BY <1>1, <1>3 DEF Queue!Status, Statuses, Queue!Service!Statuses
<1>4. CASE t.startAt <= now /\ t.finishAt <= now
  BY <1>1, <1>4 DEF Queue!Status, Statuses, Queue!Service!Statuses, Queue!Service!Terminal
<1> QED BY <1>1, <1>2, <1>3, <1>4

\* Onward is a reflexive and transitive relation on the statuses.
LEMMA OnwardOrder ==
    /\ \A s \in Statuses : s \in Onward(s) /\ Onward(s) \subseteq Statuses
    /\ \A s \in Statuses : \A t \in Onward(s) : Onward(t) \subseteq Onward(s)
<1> USE DEF Statuses, Onward, Queue!Service!Statuses, Queue!Service!Onward, Queue!Service!Terminal
<1>1. /\ Onward("PENDING") = Statuses
      /\ Onward("RUNNING") = {"RUNNING", "SUCCEEDED", "FAILED"}
      /\ Onward("SUCCEEDED") = {"SUCCEEDED"} /\ Onward("FAILED") = {"FAILED"}
  OBVIOUS
<1>2. Statuses = {"PENDING", "RUNNING", "SUCCEEDED", "FAILED"}
  OBVIOUS
<1> HIDE DEF Onward, Statuses
<1> QED BY <1>1, <1>2

-----------------------------------------------------------------------------
(* What an answer says.                                                    *)

\* An answer means the status it was made from; zhipuTaskStatus alone leaves
\* two of them open, and nothing stands for an unknown task.
LEMMA ShownMeans ==
    ASSUME NEW proto \in Protocols, NEW s \in Statuses
    PROVE  /\ Shown(proto, s) # "UNKNOWN"
           /\ s \in Means(Shown(proto, s))
           /\ \/ Means(Shown(proto, s)) = {s}
              \/ Means(Shown(proto, s)) = {"PENDING", "RUNNING"}
<1> USE DEF Shown, ZhipuStatus, MiniMaxStatus, Means, Protocols
<1>0. s \in {"PENDING", "RUNNING", "SUCCEEDED", "FAILED"}
  BY DEF Statuses, Queue!Service!Statuses, Queue!Service!Terminal
<1>1. CASE proto = "dashscope"
  BY <1>0, <1>1
<1>2. CASE proto = "zhipu"
  <2>1. CASE s \in {"PENDING", "RUNNING"} BY <1>2, <2>1
  <2>2. CASE s = "SUCCEEDED" BY <1>2, <2>2
  <2>3. CASE s = "FAILED" BY <1>2, <2>3
  <2> QED BY <1>0, <2>1, <2>2, <2>3
<1>3. CASE proto = "minimax"
  <2>1. CASE s = "PENDING" BY <1>3, <2>1
  <2>2. CASE s = "RUNNING" BY <1>3, <2>2
  <2>3. CASE s = "SUCCEEDED" BY <1>3, <2>3
  <2>4. CASE s = "FAILED" BY <1>3, <2>4
  <2> QED BY <1>0, <2>1, <2>2, <2>3, <2>4
<1> QED BY <1>1, <1>2, <1>3

\* What a client makes of an answer stays behind the task: if the task may be
\* what the client knew (k) and what the answer was made from (s) say, it may be
\* what the client concludes.
LEMMA EarliestSound ==
    ASSUME NEW k \in Statuses, NEW s \in Statuses, NEW S,
           S = {s} \/ (S = {"PENDING", "RUNNING"} /\ s \in S),
           NEW now \in Onward(k) \cap Onward(s)
    PROVE  Earliest(k, S) \in Statuses /\ now \in Onward(Earliest(k, S))
<1> DEFINE later == S \cap Onward(k)
<1>0. Earliest(k, S) = IF later = {} THEN k
                       ELSE CHOOSE x \in later : later \subseteq Onward(x)
  BY DEF Earliest, Onward
<1>1. /\ Onward("PENDING") = Statuses
      /\ Onward("RUNNING") = {"RUNNING", "SUCCEEDED", "FAILED"}
      /\ Onward("SUCCEEDED") = {"SUCCEEDED"} /\ Onward("FAILED") = {"FAILED"}
      /\ Statuses = {"PENDING", "RUNNING", "SUCCEEDED", "FAILED"}
  BY DEF Statuses, Onward, Queue!Service!Statuses, Queue!Service!Onward, Queue!Service!Terminal
<1>2. CASE later = {}
  BY <1>0, <1>2
<1>3. CASE later # {} /\ S = {s}
  <2>1. later = {s} /\ s \in Onward(s)
    BY <1>3, OnwardOrder
  <2>2. Earliest(k, S) = s
    BY <1>0, <2>1
  <2> QED BY <2>2
<1>4. CASE later # {} /\ S = {"PENDING", "RUNNING"}
  <2>1. CASE k = "PENDING"
    <3>1. later = {"PENDING", "RUNNING"}
      BY <1>1, <1>4, <2>1
    <3>2. /\ \E x \in later : later \subseteq Onward(x)
          /\ \A x \in later : later \subseteq Onward(x) => x = "PENDING"
      BY <1>1, <3>1
    <3>3. (CHOOSE x \in later : later \subseteq Onward(x)) = "PENDING"
      BY <3>2
    <3>4. Earliest(k, S) = "PENDING"
      BY <1>0, <3>1, <3>3
    <3> QED BY <1>1, <3>4
  <2>2. CASE k = "RUNNING"
    <3>1. later = {"RUNNING"}
      BY <1>1, <1>4, <2>2
    <3>2. Earliest(k, S) = "RUNNING"
      BY <1>0, <1>1, <3>1
    <3> QED BY <2>2, <3>2
  <2>3. CASE k \in {"SUCCEEDED", "FAILED"}
    BY <1>1, <1>4, <2>3
  <2> QED BY <1>1, <2>1, <2>2, <2>3
<1> QED BY <1>2, <1>3, <1>4

-----------------------------------------------------------------------------
(* Steps within one life of the process.                                   *)

\* Time does not go back, no task changes, a new one carries the stamp of a
\* submit that waited for the lock, and no submit reads an old clock.
SameLife ==
    /\ life' = life
    /\ Queue!TypeOK'
    /\ clock \in Nat /\ clock' \in Nat /\ clock <= clock'
    /\ \A i \in DOMAIN tasks : i \in DOMAIN tasks' /\ tasks'[i] = tasks[i]
    /\ \A i \in DOMAIN tasks' :
          \/ i \in DOMAIN tasks
          \/ \E h \in Handlers : call[h].pc = "submitting" /\ i[1] = call[h].now
    /\ \A h \in Handlers : call'[h].pc = "submitting" =>
          \/ call'[h].now = clock
          \/ call[h].pc = "submitting" /\ call'[h].now = call[h].now

LEMMA StepInLife ==
    ASSUME TypeOK, life' = life,
           \/ UNCHANGED queue
           \/ Queue!Tick
           \/ \E h \in Handlers, kind \in Queue!Kinds : Queue!ReadClock(h, kind)
           \/ \E h \in Handlers : Queue!Submit(h)
    PROVE  SameLife
<1> USE DEF TypeOK
<1>1. Queue!TypeOK' /\ Queue!TypeOK
  BY QueueStep DEF Queue!Next
<1>2. clock \in Nat /\ clock' \in Nat /\ call \in [Handlers -> [pc : {"idle", "submitting"},
                                                   kind : Queue!Kinds, now : Nat]]
  BY <1>1 DEF Queue!TypeOK
<1>3. CASE UNCHANGED queue
  BY <1>1, <1>2, <1>3 DEF queue, SameLife
<1>4. CASE Queue!Tick
  BY <1>1, <1>2, <1>4 DEF Queue!Tick, SameLife
<1>5. ASSUME NEW h \in Handlers, NEW kind \in Queue!Kinds, Queue!ReadClock(h, kind)
      PROVE  SameLife
  <2>1. UNCHANGED <<clock, tasks>>
    BY <1>5 DEF Queue!ReadClock
  <2>2. \A i \in Handlers : call'[i].now = clock \/ call'[i] = call[i]
    BY <1>2, <1>5 DEF Queue!ReadClock
  <2> QED BY <1>1, <1>2, <2>1, <2>2 DEF SameLife
<1>6. ASSUME NEW h \in Handlers, Queue!Submit(h)
      PROVE  SameLife
  <2>1. /\ DOMAIN tasks' = DOMAIN tasks \cup {Queue!NewId(call[h].now)}
        /\ \A j \in DOMAIN tasks : tasks'[j] = tasks[j]
    BY <1>1, <1>6, QueueSubmit
  <2>2. Queue!NewId(call[h].now)[1] = call[h].now /\ call[h].pc = "submitting"
    BY <1>6 DEF Queue!NewId, Queue!Submit
  <2>3. clock' = clock
    BY <1>6 DEF Queue!Submit
  <2>4. \A i \in Handlers : call'[i].pc = "idle" \/ call'[i] = call[i]
    BY <1>2, <1>6 DEF Queue!Submit, Queue!NoCall
  <2> QED BY <1>1, <1>2, <2>1, <2>2, <2>3, <2>4 DEF SameLife
<1> QED BY <1>3, <1>4, <1>5, <1>6

\* What a task may be it may still be later on.
LEMMA StatusKept ==
    ASSUME Queue!TypeOK, SameLife, NEW i \in DOMAIN tasks
    PROVE  /\ StatusNow(i) \in Statuses /\ StatusNow(i)' \in Statuses
           /\ \A s \in Statuses : StatusNow(i) \in Onward(s) => StatusNow(i)' \in Onward(s)
<1>1. tasks[i] \in Queue!Task /\ tasks'[i] = tasks[i]
  BY DEF Queue!TypeOK, SameLife
<1>2. clock \in Nat /\ clock' \in Nat /\ clock <= clock'
  BY DEF SameLife
<1>3. StatusNow(i)' = Queue!Status(tasks[i], clock')
  BY <1>1 DEF StatusNow, Queue!Status
<1>4. StatusNow(i) \in Statuses /\ StatusNow(i)' \in Statuses
  BY <1>1, <1>2, <1>3, StatusTyped DEF StatusNow
<1>5. StatusNow(i)' \in Onward(StatusNow(i))
  BY <1>1, <1>2, <1>3, StatusMoves DEF StatusNow
<1> QED BY <1>4, <1>5, OnwardOrder

LEMMA StaleKept ==
    ASSUME Queue!TypeOK, SameLife, NEW id \in Queue!TaskId, Stale(id)
    PROVE  Stale(id)'
<1>1. /\ id[1] \in Nat /\ clock \in Nat /\ clock' \in Nat
      /\ id[1] < clock /\ clock <= clock'
  BY DEF Queue!TaskId, Stale, SameLife
<1>2. ASSUME NEW i \in DOMAIN tasks' PROVE id[1] < i[1]
  BY <1>2 DEF SameLife, Stale
<1>3. ASSUME NEW h \in Handlers, call'[h].pc = "submitting" PROVE id[1] < call'[h].now
  BY <1>3 DEF SameLife, Stale
<1>4. id[1] < clock'
  BY <1>1
<1> QED BY <1>2, <1>3, <1>4 DEF Stale

\* What a step within one life does not touch stays as it should be.
LEMMA SubmitKept ==
    ASSUME AInv, SameLife, NEW h \in Handlers, submit'[h] = submit[h],
           call'[h] = call[h]
    PROVE  SubmitOK(h)'
<1>1. SubmitOK(h) /\ (submit[h].id # NoId => submit[h].id \in DOMAIN tasks)
  BY DEF AInv, TypeOK
<1> QED BY <1>1 DEF SubmitOK, SameLife, Offers, Queue!Kinds

LEMMA TicketKept ==
    ASSUME AInv, SameLife, NEW g \in DOMAIN told, told'[g] = told[g]
    PROVE  TicketOK(g)'
<1>1. /\ TicketOK(g) /\ g \in Ticket /\ told[g] \in Statuses /\ Queue!TypeOK
      /\ g.id \in Queue!TaskId
  BY DEF AInv, TypeOK, Statuses, Ticket
<1>2. CASE g.life = life
  <2>1. g.id \in DOMAIN tasks /\ StatusNow(g.id) \in Onward(told[g])
    BY <1>1, <1>2 DEF TicketOK
  <2>2. StatusNow(g.id)' \in Onward(told[g])
    BY <1>1, <2>1, StatusKept
  <2>3. g.id \in DOMAIN tasks' /\ tasks'[g.id] = tasks[g.id] /\ life' = life
    BY <2>1 DEF SameLife
  <2> QED BY <1>1, <1>2, <2>1, <2>2, <2>3 DEF TicketOK, Onward
<1>3. CASE g.life # life
  BY <1>1, <1>3, StaleKept DEF TicketOK, SameLife
<1> QED BY <1>2, <1>3

LEMMA PollKept ==
    ASSUME AInv, SameLife, NEW p \in Pollers, poll'[p] = poll[p]
    PROVE  PollOK(p)'
<1> DEFINE g == poll[p].ticket
<1>1. /\ PollOK(p) /\ Queue!TypeOK /\ life' = life
      /\ poll[p].pc # "idle" => g \in DOMAIN told /\ TicketOK(g)
  BY DEF AInv, TypeOK, SameLife
<1>2. ASSUME poll[p].pc # "idle", g.life = life
      PROVE  /\ g.id \in DOMAIN tasks /\ tasks'[g.id] = tasks[g.id]
             /\ \A s \in Statuses : StatusNow(g.id) \in Onward(s) => StatusNow(g.id)' \in Onward(s)
  <2>1. g.id \in DOMAIN tasks
    BY <1>1, <1>2 DEF TicketOK
  <2> QED BY <1>1, <2>1, StatusKept DEF SameLife
<1>3. CASE poll[p].pc = "idle"
  BY <1>1, <1>3 DEF PollOK
<1>4. CASE poll[p].pc \in {"get", "judge"}
  <2>1. poll[p].floor \in Statuses
    BY <1>1, <1>4 DEF PollOK
  <2>2. g.life = life => StatusNow(g.id)' \in Onward(poll[p].floor)
    BY <1>1, <1>2, <1>4, <2>1 DEF PollOK
  <2>3. poll[p].pc = "judge" => g.life = life /\ poll[p].task = tasks'[g.id]
    BY <1>1, <1>2, <1>4 DEF PollOK
  <2> QED BY <1>1, <1>4, <2>1, <2>2, <2>3 DEF PollOK, Onward, StatusNow
<1>5. CASE poll[p].pc = "answer"
  <2>1. poll[p].floor \in Statuses
    BY <1>1, <1>5 DEF PollOK
  <2>2. CASE g.life = life
    <3>1. PICK s \in Onward(poll[p].floor) :
             /\ poll[p].shown = Shown(g.proto, s)
             /\ poll[p].result = Result(g.proto, tasks[g.id], s)
             /\ StatusNow(g.id) \in Onward(s)
      BY <1>1, <1>5, <2>2 DEF PollOK, AnswerOK
    <3>2. s \in Statuses
      BY <2>1, OnwardOrder
    <3>3. StatusNow(g.id)' \in Onward(s) /\ tasks'[g.id] = tasks[g.id]
      BY <1>2, <1>5, <2>2, <3>1, <3>2
    <3>4. AnswerOK(p)'
      BY <3>1, <3>3 DEF AnswerOK, Onward, Result, StatusNow
    <3> QED BY <1>1, <1>5, <2>1, <2>2, <3>4 DEF PollOK
  <2>3. CASE g.life # life
    BY <1>1, <1>5, <2>1, <2>3 DEF PollOK
  <2> QED BY <2>2, <2>3
<1> QED BY <1>1, <1>3, <1>4, <1>5 DEF PollOK

-----------------------------------------------------------------------------
(* The actions.                                                            *)

LEMMA TypeKept ==
    ASSUME TypeOK, SameLife, sent' \in 0 .. MaxPolls, reqSeq' \in Nat,
           submit' \in [Handlers -> [proto : Protocols, id : {NoId} \cup DOMAIN tasks']],
           DOMAIN told' \subseteq Ticket,
           \A g \in DOMAIN told' : g.life <= life /\ told'[g] \in Statuses,
           \A p \in Pollers : poll'[p].pc # "idle" => poll'[p].ticket \in DOMAIN told'
    PROVE  TypeOK'
BY DEF TypeOK, SameLife, Statuses, Queue!Service!Statuses, Queue!Service!Terminal,
       Ticket, Queue!TaskId, Queue!Kinds, Protocols, NoId

LEMMA SubmitsTyped ==
    ASSUME TypeOK, SameLife
    PROVE  submit \in [Handlers -> [proto : Protocols, id : {NoId} \cup DOMAIN tasks']]
<1>1. DOMAIN tasks \subseteq DOMAIN tasks'
  BY DEF SameLife
<1> QED BY <1>1 DEF TypeOK

\* What the type invariant says of the variables a step leaves alone.
LEMMA Typed ==
    ASSUME TypeOK
    PROVE  /\ Queue!TypeOK /\ reqSeq \in Nat /\ sent \in 0 .. MaxPolls
           /\ DOMAIN told \subseteq Ticket
           /\ \A g \in DOMAIN told : g.life <= life /\ told[g] \in Statuses
           /\ \A p \in Pollers : poll[p].pc # "idle" => poll[p].ticket \in DOMAIN told
BY DEF TypeOK, Statuses

LEMMA InitAInv == Init => AInv
<1> SUFFICES ASSUME Init PROVE AInv
  OBVIOUS
<1> USE DEF Init
<1>1. /\ Queue!TypeOK /\ DOMAIN told = {} /\ DOMAIN poll = Pollers
      /\ \A h \in Handlers : call[h].pc = "idle" /\ submit[h] = NoSubmit
      /\ \A p \in Pollers : poll[p].pc = "idle"
  BY QueueInit DEF Queue!Init, Queue!NoCall, NoPoll
<1>2. NoSubmit \in [proto : Protocols, id : {NoId} \cup DOMAIN tasks] /\ NoSubmit.id = NoId
  BY DEF NoSubmit, Protocols
<1>3. TypeOK
  BY <1>1, <1>2, AsyncBoundsAssumption DEF TypeOK
<1>4. \A h \in Handlers : SubmitOK(h)
  BY <1>1, <1>2 DEF SubmitOK
<1>5. \A p \in Pollers : PollOK(p)
  BY <1>1 DEF PollOK
<1> QED BY <1>1, <1>3, <1>4, <1>5 DEF AInv

LEMMA TickStep ==
    ASSUME AInv, Tick \/ UNCHANGED vars
    PROVE  AInv'
<1>1. /\ UNCHANGED <<call, submit, poll, reqSeq, life, sent, told>>
      /\ UNCHANGED queue \/ Queue!Tick
  BY DEF Tick, Queue!Tick, vars, queue
<1>2. SameLife
  BY <1>1, StepInLife DEF AInv
<1>3. TypeOK'
  BY <1>1, <1>2, Typed, SubmitsTyped, TypeKept DEF AInv
<1>4. \A h \in Handlers : SubmitOK(h)'
  BY <1>1, <1>2, SubmitKept
<1>5. \A g \in DOMAIN told : TicketOK(g)'
  BY <1>1, <1>2, TicketKept
<1>6. \A p \in Pollers : PollOK(p)'
  BY <1>1, <1>2, PollKept
<1> QED BY <1>1, <1>3, <1>4, <1>5, <1>6 DEF AInv

LEMMA SubmitRequestStep ==
    ASSUME AInv, NEW h \in Handlers, NEW proto \in Protocols, NEW kind \in Queue!Kinds,
           SubmitRequest(h, proto, kind)
    PROVE  AInv'
<1>1. /\ UNCHANGED <<poll, reqSeq, life, sent, told>>
      /\ submit[h].id = NoId /\ kind \in Offers(proto)
      /\ submit' = [submit EXCEPT ![h].proto = proto]
      /\ Queue!ReadClock(h, kind)
  BY DEF SubmitRequest
<1>2. SameLife
  BY <1>1, StepInLife DEF AInv
<1>3. /\ UNCHANGED <<tasks, clock>>
      /\ call' = [call EXCEPT ![h] = [pc |-> "submitting", kind |-> kind, now |-> clock]]
  BY <1>1 DEF Queue!ReadClock
<1>4. /\ call \in [Handlers -> [pc : {"idle", "submitting"}, kind : Queue!Kinds, now : Nat]]
      /\ submit \in [Handlers -> [proto : Protocols, id : {NoId} \cup DOMAIN tasks]]
  BY DEF AInv, TypeOK, Queue!TypeOK
<1>5. submit' \in [Handlers -> [proto : Protocols, id : {NoId} \cup DOMAIN tasks']]
  BY <1>1, <1>3, <1>4
<1>6. TypeOK'
  BY <1>1, <1>2, <1>5, Typed, TypeKept DEF AInv
<1>7. ASSUME NEW i \in Handlers PROVE SubmitOK(i)'
  <2>1. CASE i = h
    <3>1. call'[h].kind = kind /\ submit'[h].id = NoId /\ submit'[h].proto = proto
      BY <1>1, <1>3, <1>4
    <3> QED BY <1>1, <2>1, <3>1 DEF SubmitOK, Offers, Queue!Kinds
  <2>2. CASE i # h
    <3>1. call'[i] = call[i] /\ submit'[i] = submit[i]
      BY <1>1, <1>3, <1>4, <2>2
    <3> QED BY <1>2, <3>1, SubmitKept
  <2> QED BY <2>1, <2>2
<1>8. \A g \in DOMAIN told : TicketOK(g)'
  BY <1>1, <1>2, TicketKept
<1>9. \A p \in Pollers : PollOK(p)'
  BY <1>1, <1>2, PollKept
<1> QED BY <1>1, <1>6, <1>7, <1>8, <1>9 DEF AInv

LEMMA EnqueueStep ==
    ASSUME AInv, NEW h \in Handlers, Enqueue(h)
    PROVE  AInv'
<1> DEFINE id == Queue!NewId(call[h].now)
<1>1. /\ UNCHANGED <<poll, reqSeq, life, sent, told>>
      /\ submit' = [submit EXCEPT ![h].id = id]
      /\ Queue!Submit(h)
  BY DEF Enqueue
<1>2. SameLife
  BY <1>1, StepInLife DEF AInv
<1>3. /\ DOMAIN tasks' = DOMAIN tasks \cup {id}
      /\ \A i \in DOMAIN tasks : tasks'[i] = tasks[i]
      /\ tasks'[id].kind = call[h].kind
  BY <1>1, QueueSubmit, Typed DEF AInv
<1>4. /\ call' = [call EXCEPT ![h] = Queue!NoCall]
      /\ call[h].pc = "submitting"
  BY <1>1 DEF Queue!Submit
<1>5. /\ call \in [Handlers -> [pc : {"idle", "submitting"}, kind : Queue!Kinds, now : Nat]]
      /\ submit \in [Handlers -> [proto : Protocols, id : {NoId} \cup DOMAIN tasks]]
  BY DEF AInv, TypeOK, Queue!TypeOK
<1> HIDE DEF id
<1>6. submit' \in [Handlers -> [proto : Protocols, id : {NoId} \cup DOMAIN tasks']]
  BY <1>1, <1>3, <1>5
<1>7. TypeOK'
  BY <1>1, <1>2, <1>6, Typed, TypeKept DEF AInv
<1>8. ASSUME NEW i \in Handlers PROVE SubmitOK(i)'
  <2>1. CASE i = h
    <3>1. submit'[h].id = id /\ submit'[h].proto = submit[h].proto
      BY <1>1, <1>5
    <3>2. call'[h].pc = "idle"
      BY <1>4, <1>5 DEF Queue!NoCall
    <3>3. call[h].kind \in Offers(submit[h].proto)
      BY <1>4 DEF AInv, SubmitOK
    <3> QED BY <1>3, <2>1, <3>1, <3>2, <3>3 DEF SubmitOK, Offers, Queue!Kinds
  <2>2. CASE i # h
    <3>1. call'[i] = call[i] /\ submit'[i] = submit[i]
      BY <1>1, <1>4, <1>5, <2>2
    <3> QED BY <1>2, <3>1, SubmitKept
  <2> QED BY <2>1, <2>2
<1>9. \A g \in DOMAIN told : TicketOK(g)'
  BY <1>1, <1>2, TicketKept
<1>10. \A p \in Pollers : PollOK(p)'
  BY <1>1, <1>2, PollKept
<1> QED BY <1>1, <1>7, <1>8, <1>9, <1>10 DEF AInv

LEMMA AnswerSubmitStep ==
    ASSUME AInv, NEW h \in Handlers, AnswerSubmit(h)
    PROVE  AInv'
<1> DEFINE given == [id |-> submit[h].id, life |-> life, proto |-> submit[h].proto,
                      kind |-> tasks[submit[h].id].kind]
<1>1. /\ UNCHANGED <<queue, poll, life, sent>>
      /\ submit[h].id # NoId
      /\ told' = [g \in DOMAIN told \cup {given} |->
                     IF g = given THEN "PENDING" ELSE told[g]]
      /\ reqSeq' = reqSeq + Numbered(submit[h].proto, TRUE)
      /\ submit' = [submit EXCEPT ![h] = NoSubmit]
  BY DEF AnswerSubmit
<1>2. SameLife
  BY <1>1, StepInLife DEF AInv
<1>3. /\ submit \in [Handlers -> [proto : Protocols, id : {NoId} \cup DOMAIN tasks]]
      /\ Queue!TypeOK /\ life \in Nat
      /\ submit[h].id \in DOMAIN tasks /\ submit[h].proto \in Protocols
      /\ tasks[submit[h].id].kind \in Offers(submit[h].proto)
  BY <1>1, AsyncBoundsAssumption DEF AInv, TypeOK, SubmitOK
<1>0. given \in Ticket
  BY <1>3 DEF Ticket, Queue!TypeOK, Queue!Task
<1>4. PICK ticket \in Ticket :
         /\ ticket = given
         /\ ticket.life = life /\ ticket.id = submit[h].id
         /\ ticket.kind = tasks[ticket.id].kind /\ ticket.kind \in Offers(ticket.proto)
  BY <1>0, <1>3
<1> HIDE DEF given
<1>5. /\ submit' \in [Handlers -> [proto : Protocols, id : {NoId} \cup DOMAIN tasks']]
      /\ \A i \in Handlers : i # h => submit'[i] = submit[i]
      /\ submit'[h].id = NoId
  <2>1. NoSubmit \in [proto : Protocols, id : {NoId} \cup DOMAIN tasks'] /\ NoSubmit.id = NoId
    BY DEF NoSubmit, Protocols
  <2>2. tasks' = tasks
    BY <1>1 DEF queue
  <2> QED BY <1>1, <1>3, <2>1, <2>2
<1>6. reqSeq' \in Nat
  BY <1>1, Typed DEF AInv, Numbered
<1>7. "PENDING" \in Statuses
  BY DEF Statuses, Queue!Service!Statuses
<1>8. /\ DOMAIN told' = DOMAIN told \cup {ticket} /\ told'[ticket] = "PENDING"
      /\ \A g \in DOMAIN told : g # ticket => told'[g] = told[g]
  BY <1>1, <1>4
<1>9. TypeOK'
  <2>1. DOMAIN told' \subseteq Ticket
    BY <1>4, <1>8, Typed DEF AInv
  <2>2. \A g \in DOMAIN told' : g.life <= life /\ told'[g] \in Statuses
    BY <1>3, <1>4, <1>7, <1>8, Typed DEF AInv
  <2>3. \A p \in Pollers : poll'[p].pc # "idle" => poll'[p].ticket \in DOMAIN told'
    BY <1>1, <1>8, Typed DEF AInv
  <2> QED BY <1>1, <1>2, <1>5, <1>6, <2>1, <2>2, <2>3, Typed, TypeKept DEF AInv
<1>10. ASSUME NEW i \in Handlers PROVE SubmitOK(i)'
  <2>1. CASE i = h
    <3>1. submit[h].id = NoId \/ call[h].pc # "submitting"
      BY DEF AInv, SubmitOK
    <3> QED BY <1>1, <1>5, <2>1, <3>1 DEF SubmitOK, queue
  <2>2. CASE i # h
    BY <1>1, <1>2, <1>5, <2>2, SubmitKept DEF queue
  <2> QED BY <2>1, <2>2
<1>11. ASSUME NEW g \in DOMAIN told' PROVE TicketOK(g)'
  <2>1. CASE g = ticket
    <3>0. ticket.id \in DOMAIN tasks
      BY <1>3, <1>4
    <3>1. StatusNow(ticket.id)' \in Statuses
      BY <1>2, <1>3, <3>0, StatusKept
    <3>2. Onward("PENDING") = Statuses
      BY DEF Onward, Statuses, Queue!Service!Onward, Queue!Service!Terminal
    <3>3. StatusNow(ticket.id)' \in Onward(told'[ticket])
      BY <1>8, <3>1, <3>2
    <3>4. tasks' = tasks /\ life' = life
      BY <1>1 DEF queue
    <3>5. ticket.life = life' /\ ticket.id \in DOMAIN tasks'
          /\ tasks'[ticket.id].kind = ticket.kind
      BY <1>3, <1>4, <3>4
    <3> QED BY <1>4, <2>1, <3>3, <3>5 DEF TicketOK, Offers, Queue!Kinds, Onward
  <2>2. CASE g # ticket
    BY <1>2, <1>8, <2>2, TicketKept
  <2> QED BY <2>1, <2>2
<1>12. \A p \in Pollers : PollOK(p)'
  BY <1>1, <1>2, PollKept
<1> QED BY <1>1, <1>9, <1>10, <1>11, <1>12 DEF AInv

\* A step of one poller: the tickets and the other polls are not its business.
LEMMA PollerStep ==
    ASSUME AInv, NEW p \in Pollers, UNCHANGED <<queue, submit, life, told>>,
           sent' \in 0 .. MaxPolls, reqSeq' \in Nat, DOMAIN poll' = Pollers,
           \A q \in Pollers : q # p => poll'[q] = poll[q],
           poll'[p].pc # "idle" => poll'[p].ticket \in DOMAIN told,
           PollOK(p)'
    PROVE  AInv'
<1>1. SameLife
  BY StepInLife DEF AInv
<1>2. TypeOK'
  BY <1>1, Typed, SubmitsTyped, TypeKept DEF AInv
<1>3. \A h \in Handlers : SubmitOK(h)'
  BY <1>1, SubmitKept DEF queue
<1>4. \A g \in DOMAIN told : TicketOK(g)'
  BY <1>1, TicketKept
<1>5. \A q \in Pollers : PollOK(q)'
  BY <1>1, PollKept
<1> QED BY <1>2, <1>3, <1>4, <1>5 DEF AInv

LEMMA PollStep ==
    ASSUME AInv, NEW p \in Pollers, NEW g \in DOMAIN told, Poll(p, g)
    PROVE  AInv'
<1>1. /\ UNCHANGED <<queue, submit, reqSeq, life, told>>
      /\ sent < MaxPolls /\ sent' = sent + 1
      /\ poll' = [poll EXCEPT ![p] = [pc |-> "get", ticket |-> g, floor |-> told[g]]]
  BY DEF Poll
<1>2. /\ sent' \in 0 .. MaxPolls /\ reqSeq' \in Nat
      /\ told[g] \in Statuses /\ TicketOK(g) /\ DOMAIN poll = Pollers
  BY <1>1, AsyncBoundsAssumption, Typed DEF AInv
<1>3. /\ poll'[p].pc = "get" /\ poll'[p].ticket = g /\ poll'[p].floor = told[g]
      /\ \A q \in Pollers : q # p => poll'[q] = poll[q]
      /\ DOMAIN poll' = Pollers
  BY <1>1, <1>2
<1>4. PollOK(p)'
  <2>1. g.life = life => StatusNow(g.id) \in Onward(told[g])
    BY <1>2 DEF TicketOK
  <2>2. StatusNow(g.id)' = StatusNow(g.id) /\ life' = life
    BY <1>1 DEF StatusNow, queue, Queue!Status
  <2> QED BY <1>2, <1>3, <2>1, <2>2 DEF PollOK, Onward, StatusNow, Statuses
<1> QED BY <1>1, <1>2, <1>3, <1>4, PollerStep

LEMMA GetStep ==
    ASSUME AInv, NEW p \in Pollers, Get(p)
    PROVE  AInv'
<1> DEFINE g == poll[p].ticket
           id == g.id
<1>1. /\ UNCHANGED <<queue, submit, life, sent, told>> /\ poll[p].pc = "get"
      /\ IF id \in DOMAIN tasks
         THEN /\ poll' = [poll EXCEPT ![p] = [pc |-> "judge", ticket |-> poll[p].ticket,
                                             floor |-> poll[p].floor, task |-> tasks[id]]]
              /\ reqSeq' = reqSeq
         ELSE /\ poll' = [poll EXCEPT ![p] = [pc |-> "answer", ticket |-> poll[p].ticket,
                                             floor |-> poll[p].floor, shown |-> "UNKNOWN",
                                             result |-> "none"]]
              /\ reqSeq' = reqSeq + Numbered(g.proto, FALSE)
  BY DEF Get, Answering
<1>2. /\ DOMAIN poll = Pollers /\ g \in DOMAIN told /\ TicketOK(g) /\ PollOK(p)
      /\ sent \in 0 .. MaxPolls /\ reqSeq \in Nat
  BY <1>1, Typed DEF AInv
<1>3. sent' \in 0 .. MaxPolls /\ reqSeq' \in Nat
  BY <1>1, <1>2 DEF Numbered
<1>4. /\ \A q \in Pollers : q # p => poll'[q] = poll[q]
      /\ DOMAIN poll' = Pollers
      /\ poll'[p].ticket = g /\ poll'[p].floor = poll[p].floor
  <2>1. PICK new : /\ poll' = [poll EXCEPT ![p] = new]
                   /\ new.ticket = g /\ new.floor = poll[p].floor
    <3>1. CASE id \in DOMAIN tasks BY <1>1, <3>1
    <3>2. CASE id \notin DOMAIN tasks BY <1>1, <3>2
    <3> QED BY <3>1, <3>2
  <2> QED BY <1>2, <2>1
<1>5. life' = life /\ tasks' = tasks /\ clock' = clock
  BY <1>1 DEF queue
<1>6. PollOK(p)'
  <2>0. poll[p].floor \in Statuses
    BY <1>1, <1>2 DEF PollOK
  <2>1. CASE id \in DOMAIN tasks
    <3>1. poll'[p].pc = "judge" /\ poll'[p].task = tasks[id]
      BY <1>1, <1>2, <2>1
    <3>2. g.life = life
      <4> SUFFICES ASSUME g.life # life PROVE FALSE
        OBVIOUS
      <4>1. id[1] < id[1]
        BY <1>2, <2>1 DEF TicketOK, Stale
      <4>2. id[1] \in Nat
        BY <1>2, Typed DEF AInv, Ticket, Queue!TaskId
      <4> QED BY <4>1, <4>2
    <3>3. StatusNow(id) \in Onward(poll[p].floor)
      BY <1>1, <1>2, <3>2 DEF PollOK
    <3>4. Queue!Status(tasks'[id], clock') \in Onward(poll'[p].floor)
      BY <1>4, <1>5, <3>3 DEF StatusNow
    <3> QED BY <1>4, <1>5, <2>0, <3>1, <3>2, <3>4 DEF PollOK, StatusNow, Onward, Statuses
  <2>2. CASE id \notin DOMAIN tasks
    <3>1. poll'[p].pc = "answer" /\ poll'[p].shown = "UNKNOWN"
      BY <1>1, <1>2, <2>2
    <3>2. g.life # life
      BY <1>2, <2>2 DEF TicketOK
    <3> QED BY <1>4, <1>5, <2>0, <3>1, <3>2 DEF PollOK, Statuses
  <2> QED BY <2>1, <2>2
<1> QED BY <1>1, <1>2, <1>3, <1>4, <1>6, PollerStep

LEMMA JudgeStep ==
    ASSUME AInv, NEW p \in Pollers, Judge(p)
    PROVE  AInv'
<1> DEFINE g == poll[p].ticket
           status == Queue!Status(poll[p].task, clock)
<1>1. /\ UNCHANGED <<queue, submit, life, sent, told>> /\ poll[p].pc = "judge"
      /\ poll' = [poll EXCEPT ![p] = [pc |-> "answer", ticket |-> poll[p].ticket,
                                     floor |-> poll[p].floor,
                                     shown |-> Shown(g.proto, status),
                                     result |-> Result(g.proto, poll[p].task, status)]]
      /\ reqSeq' = reqSeq + Numbered(g.proto, TRUE)
  BY DEF Judge, Answering
<1>2. /\ DOMAIN poll = Pollers /\ g \in DOMAIN told /\ TicketOK(g) /\ PollOK(p)
      /\ sent \in 0 .. MaxPolls /\ reqSeq \in Nat /\ Queue!TypeOK
  BY <1>1, Typed DEF AInv
<1>3. sent' \in 0 .. MaxPolls /\ reqSeq' \in Nat
  BY <1>1, <1>2 DEF Numbered
<1>4. /\ poll[p].floor \in Statuses /\ g.life = life /\ poll[p].task = tasks[g.id]
      /\ StatusNow(g.id) \in Onward(poll[p].floor)
      /\ g.id \in DOMAIN tasks
  BY <1>1, <1>2 DEF PollOK, TicketOK
<1>5. status = StatusNow(g.id)
  BY <1>4 DEF StatusNow
<1>6. PICK s \in Onward(poll[p].floor) : s = status
  BY <1>4, <1>5
<1> HIDE DEF status
<1>7. /\ \A q \in Pollers : q # p => poll'[q] = poll[q]
      /\ DOMAIN poll' = Pollers
      /\ poll'[p].pc = "answer"
      /\ poll'[p].ticket = g /\ poll'[p].floor = poll[p].floor
      /\ poll'[p].shown = Shown(g.proto, s)
      /\ poll'[p].result = Result(g.proto, tasks[g.id], s)
  BY <1>1, <1>2, <1>4, <1>6
<1>8. life' = life /\ tasks' = tasks /\ clock' = clock
  BY <1>1 DEF queue
<1>9. StatusNow(g.id) \in Onward(s)
  BY <1>4, <1>5, <1>6, OnwardOrder
<1>10. Queue!Status(tasks'[g.id], clock') \in Onward(s)
  BY <1>8, <1>9 DEF StatusNow
<1>11. AnswerOK(p)'
  <2>1. /\ poll'[p].shown = Shown(poll'[p].ticket.proto, s)
        /\ poll'[p].result = Result(poll'[p].ticket.proto, tasks'[poll'[p].ticket.id], s)
        /\ Queue!Status(tasks'[poll'[p].ticket.id], clock') \in Onward(s)
        /\ s \in Onward(poll'[p].floor)
    BY <1>7, <1>8, <1>10
  <2> HIDE <1>1, <1>2, <1>4, <1>5, <1>7, <1>8, <1>9, <1>10
  <2> QED BY <2>1 DEF AnswerOK, StatusNow, Onward
<1>12. PollOK(p)'
  BY <1>4, <1>7, <1>8, <1>11 DEF PollOK, Statuses
<1> QED BY <1>1, <1>2, <1>3, <1>7, <1>12, PollerStep

\* An answer a client may believe: what it concludes is not ahead of the task.
LEMMA AnswerMeans ==
    ASSUME AInv, NEW p \in Pollers, poll[p].pc = "answer", poll[p].ticket.life = life
    PROVE  \E s \in Statuses :
              /\ s \in Onward(poll[p].floor)
              /\ s \in Means(poll[p].shown)
              /\ \/ Means(poll[p].shown) = {s}
                 \/ Means(poll[p].shown) = {"PENDING", "RUNNING"}
              /\ poll[p].shown = Shown(poll[p].ticket.proto, s)
              /\ poll[p].result = Result(poll[p].ticket.proto, tasks[poll[p].ticket.id], s)
              /\ StatusNow(poll[p].ticket.id) \in Onward(s)
<1>1. AnswerOK(p) /\ poll[p].floor \in Statuses
  BY DEF AInv, PollOK
<1>2. PICK s \in Onward(poll[p].floor) :
         /\ poll[p].shown = Shown(poll[p].ticket.proto, s)
         /\ poll[p].result = Result(poll[p].ticket.proto, tasks[poll[p].ticket.id], s)
         /\ StatusNow(poll[p].ticket.id) \in Onward(s)
  BY <1>1 DEF AnswerOK
<1>3. s \in Statuses /\ poll[p].ticket.proto \in Protocols
  BY <1>1, OnwardOrder, Typed DEF AInv, Ticket
<1> QED BY <1>2, <1>3, ShownMeans

LEMMA DeliverStep ==
    ASSUME AInv, NEW p \in Pollers, Deliver(p)
    PROVE  AInv'
<1>1. PICK g \in DOMAIN told : g = poll[p].ticket
  BY Typed DEF AInv, Deliver
<1>2. PICK k \in Statuses : k = told[g]
  BY Typed DEF AInv
<1> DEFINE concluded == Earliest(k, Means(poll[p].shown))
<1>3. /\ UNCHANGED <<queue, submit, reqSeq, life, sent>> /\ poll[p].pc = "answer"
      /\ told' = [told EXCEPT ![g] = concluded]
      /\ poll' = [poll EXCEPT ![p] = NoPoll]
  BY <1>1, <1>2 DEF Deliver
<1>4. /\ DOMAIN poll = Pollers /\ TicketOK(g) /\ PollOK(p) /\ Queue!TypeOK
      /\ poll[p].floor \in Statuses
  BY <1>3, Typed DEF AInv, PollOK
<1>5. SameLife /\ life' = life /\ tasks' = tasks /\ clock' = clock
  BY <1>3, StepInLife DEF AInv, queue
<1>6. g.life # life => concluded = k
  <2> SUFFICES ASSUME g.life # life PROVE concluded = k
    OBVIOUS
  <2>1. poll[p].shown = "UNKNOWN"
    BY <1>1, <1>3, <1>4 DEF PollOK
  <2>2. Means(poll[p].shown) = {}
    BY <2>1 DEF Means
  <2> QED BY <2>2 DEF Earliest
<1>7. g.life = life => concluded \in Statuses /\ StatusNow(g.id) \in Onward(concluded)
  <2> SUFFICES ASSUME g.life = life
               PROVE  concluded \in Statuses /\ StatusNow(g.id) \in Onward(concluded)
    OBVIOUS
  <2>1. PICK s \in Statuses :
           /\ s \in Means(poll[p].shown)
           /\ \/ Means(poll[p].shown) = {s}
              \/ Means(poll[p].shown) = {"PENDING", "RUNNING"}
           /\ StatusNow(g.id) \in Onward(s)
    BY <1>1, <1>3, AnswerMeans
  <2>2. StatusNow(g.id) \in Onward(k)
    BY <1>2, <1>4 DEF TicketOK
  <2> QED BY <2>1, <2>2, EarliestSound
<1>8. PICK c \in Statuses : c = concluded
  BY <1>6, <1>7
<1> HIDE DEF concluded
<1>9. /\ DOMAIN told' = DOMAIN told /\ told'[g] = c
      /\ \A f \in DOMAIN told : f # g => told'[f] = told[f]
  BY <1>3, <1>8
<1>10. /\ DOMAIN poll' = Pollers /\ poll'[p].pc = "idle"
       /\ \A q \in Pollers : q # p => poll'[q] = poll[q]
  BY <1>3, <1>4 DEF NoPoll
<1>11. TypeOK'
  <2>1. \A f \in DOMAIN told' : f.life <= life /\ told'[f] \in Statuses
    BY <1>9, Typed DEF AInv
  <2>2. DOMAIN told' \subseteq Ticket
    BY <1>9, Typed DEF AInv
  <2>3. \A q \in Pollers : poll'[q].pc # "idle" => poll'[q].ticket \in DOMAIN told'
    BY <1>9, <1>10, Typed DEF AInv
  <2>4. /\ submit' \in [Handlers -> [proto : Protocols, id : {NoId} \cup DOMAIN tasks']]
        /\ sent' \in 0 .. MaxPolls /\ reqSeq' \in Nat
    BY <1>3, <1>5, Typed, SubmitsTyped DEF AInv
  <2> QED BY <1>5, <2>1, <2>2, <2>3, <2>4, TypeKept DEF AInv
<1>12. \A h \in Handlers : SubmitOK(h)'
  BY <1>3, <1>5, SubmitKept DEF queue
<1>13. ASSUME NEW f \in DOMAIN told' PROVE TicketOK(f)'
  <2>1. CASE f = g
    <3>1. g.life = life =>
             /\ g.id \in DOMAIN tasks /\ tasks[g.id].kind = g.kind
             /\ g.kind \in Offers(g.proto) /\ StatusNow(g.id) \in Onward(c)
      BY <1>4, <1>7, <1>8 DEF TicketOK
    <3>2. g.life # life => Stale(g.id)'
      <4>1. g.life # life => Stale(g.id)
        BY <1>4 DEF TicketOK
      <4> QED BY <1>3, <4>1 DEF Stale, queue
    <3>3. g.life = life => Queue!Status(tasks'[g.id], clock') \in Onward(told'[g])
      BY <1>5, <1>9, <3>1 DEF StatusNow
    <3> QED BY <1>5, <2>1, <3>1, <3>2, <3>3 DEF TicketOK, StatusNow, Onward, Offers, Queue!Kinds
  <2>2. CASE f # g
    BY <1>5, <1>9, <2>2, TicketKept
  <2> QED BY <2>1, <2>2
<1>14. ASSUME NEW q \in Pollers PROVE PollOK(q)'
  <2>1. CASE q = p
    BY <1>10, <2>1 DEF PollOK
  <2>2. CASE q # p
    BY <1>5, <1>10, <2>2, PollKept
  <2> QED BY <2>1, <2>2
<1> QED BY <1>10, <1>11, <1>12, <1>13, <1>14 DEF AInv

\* A restart makes every ticket stale: each carries a stamp of before it.
LEMMA RestartStep ==
    ASSUME AInv, Restart
    PROVE  AInv'
<1>1. /\ life < MaxLives /\ life' = life + 1 /\ clock' = clock + 1
      /\ tasks' = << >> /\ seq' = 0 /\ reqSeq' = 0
      /\ call' = [h \in Handlers |-> Queue!NoCall]
      /\ submit' = [h \in Handlers |-> NoSubmit]
      /\ poll' = [p \in Pollers |-> NoPoll]
      /\ UNCHANGED <<sent, told>>
  BY DEF Restart
<1>2. life \in 1 .. MaxLives /\ clock \in Nat /\ Queue!TypeOK
  BY DEF AInv, TypeOK, Queue!TypeOK
<1>3. /\ DOMAIN tasks' = {}
      /\ \A h \in Handlers : call'[h].pc = "idle" /\ submit'[h].id = NoId
      /\ \A p \in Pollers : poll'[p].pc = "idle"
      /\ DOMAIN poll' = Pollers
  BY <1>1 DEF Queue!NoCall, NoSubmit, NoPoll
<1>4. Queue!TypeOK'
  <2>1. Queue!IsFiniteSet({})
    <3>1. \A S : Queue!IsFiniteSet(S) <=> IsFiniteSet(S)
      BY Zenon DEF Queue!IsFiniteSet, IsFiniteSet
    <3> QED BY <3>1, FS_EmptySet
  <2> QED BY <1>1, <1>2, <1>3, <2>1 DEF Queue!TypeOK, Queue!NoCall, Queue!Kinds
<1>5. TypeOK'
  <2>1. submit' \in [Handlers -> [proto : Protocols, id : {NoId} \cup DOMAIN tasks']]
    BY <1>1 DEF NoSubmit, Protocols
  <2>2. life' \in 1 .. MaxLives /\ \A g \in DOMAIN told' : g.life <= life'
    BY <1>1, <1>2, AsyncBoundsAssumption, Typed DEF AInv, Ticket
  <2> QED BY <1>1, <1>3, <1>4, <2>1, <2>2, Typed
          DEF AInv, TypeOK, Statuses, Queue!Service!Statuses, Queue!Service!Terminal,
              Ticket, Queue!TaskId, Queue!Kinds, Protocols, NoId
<1>6. ASSUME NEW g \in DOMAIN told' PROVE TicketOK(g)'
  <2>1. /\ g \in DOMAIN told /\ TicketOK(g) /\ g.life <= life /\ g.life \in Nat
        /\ g.id[1] \in Nat
    BY <1>1, <1>6, Typed DEF AInv, Ticket, Queue!TaskId
  <2>2. g.id[1] <= clock
    <3>1. CASE g.life = life
      BY <1>2, <2>1, <3>1 DEF TicketOK, Queue!TypeOK
    <3>2. CASE g.life # life
      BY <1>2, <2>1, <3>2 DEF TicketOK, Stale
    <3> QED BY <3>1, <3>2
  <2>3. g.life # life' /\ g.id[1] < clock'
    BY <1>1, <1>2, <2>1, <2>2
  <2> QED BY <1>3, <2>3 DEF TicketOK, Stale
<1> QED BY <1>3, <1>5, <1>6 DEF AInv, SubmitOK, PollOK

LEMMA NextAInv == AInv /\ [Next]_vars => AInv'
<1> SUFFICES ASSUME AInv, [Next]_vars PROVE AInv'
  OBVIOUS
<1>1. CASE Tick \/ UNCHANGED vars
  BY <1>1, TickStep
<1>2. ASSUME NEW h \in Handlers, NEW proto \in Protocols, NEW kind \in Queue!Kinds,
             SubmitRequest(h, proto, kind)
      PROVE  AInv'
  BY <1>2, SubmitRequestStep
<1>3. ASSUME NEW h \in Handlers, Enqueue(h) \/ AnswerSubmit(h)
      PROVE  AInv'
  BY <1>3, EnqueueStep, AnswerSubmitStep
<1>4. ASSUME NEW p \in Pollers, NEW ticket \in DOMAIN told, Poll(p, ticket)
      PROVE  AInv'
  BY <1>4, PollStep
<1>5. ASSUME NEW p \in Pollers, Get(p) \/ Judge(p) \/ Deliver(p)
      PROVE  AInv'
  BY <1>5, GetStep, JudgeStep, DeliverStep
<1>6. CASE Restart
  BY <1>6, RestartStep
<1> QED BY <1>1, <1>2, <1>3, <1>4, <1>5, <1>6 DEF Next

-----------------------------------------------------------------------------
THEOREM AsyncInvariance == Spec => []AInv
BY InitAInv, NextAInv, PTL DEF Spec

\* Types; in particular a handler answers with an id of the table, and every
\* poll under way is for a ticket that some client was given.
THEOREM AsyncTyped == Spec => []TypeOK
<1>1. AInv => TypeOK
  BY DEF AInv
<1> QED BY <1>1, AsyncInvariance, PTL

\* An id that a submit handed out is known to every poll of the same life of
\* the process, however many tasks, polls and restarts there are.
THEOREM AsyncTicketsResolve == Spec => []TicketsResolve
<1>1. AInv => TicketsResolve
  <2> SUFFICES ASSUME AInv, NEW p \in Pollers, Answered(p)
               PROVE  poll[p].shown # "UNKNOWN"
    BY DEF TicketsResolve
  <2>1. PICK s \in Statuses : poll[p].shown = Shown(poll[p].ticket.proto, s)
    BY AnswerMeans DEF Answered
  <2>2. poll[p].ticket.proto \in Protocols
    BY Typed DEF AInv, Answered, Ticket
  <2> QED BY <2>1, <2>2, ShownMeans
<1> QED BY <1>1, AsyncInvariance, PTL

\* An id of an earlier life is answered as unknown, never with somebody else's
\* task: the ids of a life carry stamps from after the restart before it.
THEOREM AsyncOldTicketsStayDead == Spec => []OldTicketsStayDead
<1>1. AInv => OldTicketsStayDead
  BY DEF AInv, PollOK, OldTicketsStayDead
<1> QED BY <1>1, AsyncInvariance, PTL

\* No poll goes back behind an answer that had reached its client when it was
\* sent, whichever answers overtake each other.
THEOREM AsyncPollsNeverGoBack == Spec => []PollsNeverGoBack
<1>1. AInv => PollsNeverGoBack
  <2> SUFFICES ASSUME AInv, NEW p \in Pollers, Answered(p)
               PROVE  Means(poll[p].shown) \cap Queue!Service!Onward(poll[p].floor) # {}
    BY DEF PollsNeverGoBack
  <2>1. \E s \in Statuses : s \in Onward(poll[p].floor) /\ s \in Means(poll[p].shown)
    BY AnswerMeans DEF Answered
  <2> QED BY <2>1 DEF Onward
<1> QED BY <1>1, AsyncInvariance, PTL

\* A client gets a result exactly when it is told of success, of the kind it
\* asked for, and a final answer only of a task that has run its full time.
THEOREM AsyncResultIsEarned == Spec => []ResultIsEarned
<1>1. AInv => ResultIsEarned
  <2> SUFFICES ASSUME AInv, NEW p \in Pollers, Answered(p)
               PROVE  /\ poll[p].result = IF Means(poll[p].shown) = {"SUCCEEDED"}
                                          THEN poll[p].ticket.kind ELSE "none"
                      /\ Means(poll[p].shown) \in {{"SUCCEEDED"}, {"FAILED"}} =>
                            LET task == tasks[poll[p].ticket.id]
                            IN  /\ poll[p].ticket.id \in DOMAIN tasks
                                /\ task.finishAt <= clock
                                /\ task.willFail <=> Means(poll[p].shown) = {"FAILED"}
    BY DEF ResultIsEarned
  <2> DEFINE g == poll[p].ticket
             said == Means(poll[p].shown)
             task == tasks[g.id]
  <2>1. PICK s \in Statuses :
           /\ s \in said /\ (said = {s} \/ said = {"PENDING", "RUNNING"})
           /\ poll[p].result = Result(g.proto, task, s)
           /\ StatusNow(g.id) \in Onward(s)
    BY AnswerMeans DEF Answered
  <2>2. /\ g \in Ticket /\ g.life = life /\ TicketOK(g) /\ Queue!TypeOK
    BY Typed DEF AInv, Answered
  <2>3. /\ g.id \in DOMAIN tasks /\ task.kind = g.kind /\ g.kind \in Offers(g.proto)
        /\ g.proto \in Protocols /\ task \in Queue!Task /\ clock \in Nat
    BY <2>2 DEF TicketOK, Queue!TypeOK, Ticket
  <2> HIDE DEF g, said, task
  <2>4. s = "SUCCEEDED" <=> said = {"SUCCEEDED"}
    BY <2>1
  <2>5. Result(g.proto, task, s) = IF s = "SUCCEEDED" THEN g.kind ELSE "none"
    <3>1. CASE s # "SUCCEEDED"
      BY <3>1 DEF Result
    <3>2. CASE s = "SUCCEEDED" /\ g.proto = "dashscope"
      BY <2>3, <3>2 DEF Result
    <3>3. CASE s = "SUCCEEDED" /\ g.proto # "dashscope"
      BY <2>3, <3>3 DEF Result, Offers
    <3> QED BY <3>1, <3>2, <3>3
  <2>6. poll[p].result = IF said = {"SUCCEEDED"} THEN g.kind ELSE "none"
    BY <2>1, <2>4, <2>5
  <2>7. ASSUME said \in {{"SUCCEEDED"}, {"FAILED"}}
        PROVE  task.finishAt <= clock /\ (task.willFail <=> said = {"FAILED"})
    <3>1. s \in {"SUCCEEDED", "FAILED"} /\ said = {s}
      BY <2>1, <2>7
    <3>2. Onward(s) = {s}
      BY <3>1 DEF Onward, Queue!Service!Onward, Queue!Service!Terminal
    <3>3. Queue!Status(task, clock) = s
      BY <2>1, <3>2 DEF StatusNow, task
    <3>4. /\ task.finishAt <= clock
          /\ s = "FAILED" => task.willFail
          /\ s = "SUCCEEDED" => ~task.willFail
      BY <2>3, <3>1, <3>3, StatusTyped
    <3> QED BY <3>1, <3>4
  <2> QED BY <2>3, <2>6, <2>7 DEF g, said, task
<1> QED BY <1>1, AsyncInvariance, PTL
=============================================================================
