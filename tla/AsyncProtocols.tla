--------------------------- MODULE AsyncProtocols ---------------------------
(***************************************************************************)
(* The async image and video endpoints of three protocols over one queue:  *)
(* DashScope (dashscope.go), Zhipu (zhipu.go) and MiniMax (minimax.go).  A *)
(* submit handler enqueues and answers with the task's id; a poll fetches  *)
(* the task under q.mu, lets go of the lock, reads the clock, works out    *)
(* the status and answers.  Answers to different polls overtake each       *)
(* other, and a restart of the process takes the table with it while the   *)
(* clients keep their ids.                                                 *)
(***************************************************************************)
EXTENDS Integers, FiniteSets, Behavior

CONSTANTS
    Handlers, VideoConcurrency, VideoDurationMin, VideoDurationMax,
    ImageDurationMin, ImageDurationMax, TaskFailRate, Hashes,
    MaxTasks, MaxStamp, MaxClock,   \* as in TaskQueue
    Pollers,      \* the handler goroutines that serve polls
    MaxPolls,     \* bound: polls sent in all
    MaxLives      \* bound: lives of the process, a restart between two

ASSUME AsyncBoundsAssumption == MaxPolls \in Nat /\ MaxLives \in Nat \ {0}

\* What TaskQueue assumes of its constants: an instance does not bring it along.
ASSUME AsyncQueueAssumption ==
    /\ VideoConcurrency \in Int
    /\ VideoDurationMin \in Int /\ VideoDurationMax \in Int
    /\ ImageDurationMin \in Int /\ ImageDurationMax \in Int
    /\ TaskFailRate \in Int
    /\ Hashes \subseteq Nat
    /\ MaxTasks \in Nat /\ MaxStamp \in Nat /\ MaxClock \in Nat

VARIABLES
    clock, tasks, seq, call,   \* as in TaskQueue
    submit,       \* per handler: its protocol, and the id it is to answer with
    poll,         \* per poller: the poll it serves
    reqSeq,       \* seqCounter, the numbers in "mock-req-<n>"
    life,         \* how many times the process has been started
    sent,         \* the polls sent so far
    told          \* clients: the earliest status each ticket's owner, having
                  \*   seen the answers it has seen, can take it to have

queue == <<clock, tasks, seq, call>>
vars == <<queue, submit, poll, reqSeq, life, sent, told>>

Queue == INSTANCE TaskQueue

Protocols == {"dashscope", "zhipu", "minimax"}

\* The kinds a protocol's submit endpoints enqueue.
Offers(proto) == IF proto = "dashscope" THEN Queue!Kinds ELSE {"video"}

NoId == <<0, 0>>
NoSubmit == [proto |-> "dashscope", id |-> NoId]

\* What a client was given: an id, by which life of the process, and for what.
Ticket == [id : Queue!TaskId, life : Nat, proto : Protocols, kind : Queue!Kinds]

NoPoll == [pc |-> "idle"]

-----------------------------------------------------------------------------
\* zhipuTaskStatus: waiting and running are one.
ZhipuStatus(status) ==
    CASE status = "SUCCEEDED" -> "SUCCESS"
      [] status = "FAILED"    -> "FAIL"
      [] status \in {"PENDING", "RUNNING"} -> "PROCESSING"

\* Seeded fault of MiniMaxStatus: the two unfinished statuses are swapped.
MiniMaxStatusSwapped(status) ==
    CASE status = "PENDING"   -> "Processing"
      [] status = "SUCCEEDED" -> "Success"
      [] status = "FAILED"    -> "Fail"
      [] status = "RUNNING"   -> "Queueing"

\* minimaxTaskStatus.
MiniMaxStatus(status) ==
    CASE status = "PENDING"   -> "Queueing"
      [] status = "SUCCEEDED" -> "Success"
      [] status = "FAILED"    -> "Fail"
      [] status = "RUNNING"   -> "Processing"

\* What a client of a protocol is shown; DashScope shows the status itself.
Shown(proto, status) ==
    CASE proto = "dashscope" -> status
      [] proto = "zhipu"     -> ZhipuStatus(status)
      [] proto = "minimax"   -> MiniMaxStatus(status)

\* Seeded fault of Result: every finished task is taken for an image.
ResultImage(proto, task, status) == IF status = "SUCCEEDED" THEN "image" ELSE "none"

\* What comes with the status: fillSuccess looks at the task's kind, Zhipu and
\* MiniMax (a file_id that files/retrieve turns into the video) have one only.
Result(proto, task, status) ==
    CASE status # "SUCCEEDED" -> "none"
      [] status = "SUCCEEDED" /\ proto = "dashscope" -> task.kind
      [] status = "SUCCEEDED" /\ proto # "dashscope" -> "video"

\* MiniMax numbers no answers; Zhipu none to an unknown id.
Numbered(proto, known) == IF proto = "dashscope" \/ (proto = "zhipu" /\ known) THEN 1 ELSE 0

-----------------------------------------------------------------------------
Init ==
    /\ Queue!Init
    /\ submit = [h \in Handlers |-> NoSubmit]
    /\ poll = [p \in Pollers |-> NoPoll]
    /\ reqSeq = 0 /\ life = 1 /\ sent = 0
    /\ told = << >>

Tick == Queue!Tick /\ UNCHANGED <<submit, poll, reqSeq, life, sent, told>>

\* A submit request comes in and its handler reads the clock.
SubmitRequest(h, proto, kind) ==
    /\ submit[h].id = NoId
    /\ kind \in Offers(proto)
    /\ Queue!ReadClock(h, kind)
    /\ submit' = [submit EXCEPT ![h].proto = proto]
    /\ UNCHANGED <<poll, reqSeq, life, sent, told>>

Enqueue(h) ==
    /\ Queue!Submit(h)
    /\ submit' = [submit EXCEPT ![h].id = Queue!NewId(call[h].now)]
    /\ UNCHANGED <<poll, reqSeq, life, sent, told>>

\* The id goes out, with the answer that the task is waiting (DashScope says
\* PENDING, Zhipu PROCESSING, MiniMax nothing), whatever its status is.
AnswerSubmit(h) ==
    /\ submit[h].id # NoId
    /\ LET ticket == [id |-> submit[h].id, life |-> life, proto |-> submit[h].proto,
                      kind |-> tasks[submit[h].id].kind]
       IN  told' = [g \in DOMAIN told \cup {ticket} |->
                        IF g = ticket THEN "PENDING" ELSE told[g]]
    /\ reqSeq' = reqSeq + Numbered(submit[h].proto, TRUE)
    /\ submit' = [submit EXCEPT ![h] = NoSubmit]
    /\ UNCHANGED <<queue, poll, life, sent>>

\* A client polls for its ticket, knowing what it has been told.
Poll(p, ticket) ==
    /\ poll[p].pc = "idle" /\ sent < MaxPolls
    /\ sent' = sent + 1
    /\ poll' = [poll EXCEPT ![p] =
                   [pc |-> "get", ticket |-> ticket, floor |-> told[ticket]]]
    /\ UNCHANGED <<queue, submit, reqSeq, life, told>>

\* The poll is answered with "shown" and "result".
Answering(p, shown, result) ==
    poll' = [poll EXCEPT ![p] = [pc |-> "answer", ticket |-> @.ticket, floor |-> @.floor,
                                 shown |-> shown, result |-> result]]

\* Seeded fault of Get: a finished task is dropped once it has been fetched.
GetEvicting(p) ==
    /\ poll[p].pc = "get"
    /\ LET id == poll[p].ticket.id
           known == id \in DOMAIN tasks
       IN  /\ IF known
              THEN poll' = [poll EXCEPT ![p] = [pc |-> "judge", ticket |-> @.ticket,
                                                floor |-> @.floor, task |-> tasks[id]]]
              ELSE Answering(p, "UNKNOWN", "none")
           /\ tasks' = IF known /\ tasks[id].finishAt <= clock
                       THEN [i \in DOMAIN tasks \ {id} |-> tasks[i]] ELSE tasks
    /\ UNCHANGED <<clock, seq, call, submit, reqSeq, life, sent, told>>

\* q.Get, and the answer to an unknown id: 404, or 200 with status Fail and
\* code 2013 from MiniMax.
Get(p) ==
    /\ poll[p].pc = "get"
    /\ LET id == poll[p].ticket.id
           known == id \in DOMAIN tasks
       IN  /\ IF known
              THEN poll' = [poll EXCEPT ![p] = [pc |-> "judge", ticket |-> @.ticket,
                                                floor |-> @.floor, task |-> tasks[id]]]
              ELSE Answering(p, "UNKNOWN", "none")
           /\ reqSeq' = IF known THEN reqSeq
                        ELSE reqSeq + Numbered(poll[p].ticket.proto, FALSE)
    /\ UNCHANGED <<queue, submit, life, sent, told>>

\* time.Now(), task.Status, and the answer made from it.
Judge(p) ==
    /\ poll[p].pc = "judge"
    /\ LET proto  == poll[p].ticket.proto
           status == Queue!Status(poll[p].task, clock)
       IN  /\ Answering(p, Shown(proto, status), Result(proto, poll[p].task, status))
           /\ reqSeq' = reqSeq + Numbered(proto, TRUE)
    /\ UNCHANGED <<queue, submit, life, sent, told>>

\* The statuses an answer may stand for.
Means(shown) ==
    CASE shown = "UNKNOWN" -> {}
      [] shown \in {"PENDING", "Queueing"}                -> {"PENDING"}
      [] shown \in {"RUNNING", "Processing"}              -> {"RUNNING"}
      [] shown = "PROCESSING"                             -> {"PENDING", "RUNNING"}
      [] shown \in {"SUCCEEDED", "SUCCESS", "Success"}    -> {"SUCCEEDED"}
      [] shown \in {"FAILED", "FAIL", "Fail"}             -> {"FAILED"}

\* The earliest status of S that may follow one already reported, which stands
\* when S holds none (an answer that was overtaken by a later one).
Earliest(status, S) ==
    LET later == S \cap Queue!Service!Onward(status)
    IN  IF later = {} THEN status
        ELSE CHOOSE s \in later : later \subseteq Queue!Service!Onward(s)

\* The answer reaches the client.
Deliver(p) ==
    /\ poll[p].pc = "answer"
    /\ told' = [told EXCEPT ![poll[p].ticket] = Earliest(@, Means(poll[p].shown))]
    /\ poll' = [poll EXCEPT ![p] = NoPoll]
    /\ UNCHANGED <<queue, submit, reqSeq, life, sent>>

\* The process is stopped and started, which takes time: the queue lives in
\* memory, the handlers go with it, and so does the request counter.
Restart ==
    /\ life < MaxLives /\ clock < MaxClock
    /\ life' = life + 1
    /\ clock' = clock + 1
    /\ tasks' = << >> /\ seq' = 0 /\ reqSeq' = 0
    /\ call' = [h \in Handlers |-> Queue!NoCall]
    /\ submit' = [h \in Handlers |-> NoSubmit]
    /\ poll' = [p \in Pollers |-> NoPoll]
    /\ UNCHANGED <<sent, told>>

Next ==
    \/ Tick
    \/ \E h \in Handlers, proto \in Protocols, kind \in Queue!Kinds :
          SubmitRequest(h, proto, kind)
    \/ \E h \in Handlers : Enqueue(h) \/ AnswerSubmit(h)
    \/ \E p \in Pollers, ticket \in DOMAIN told : Poll(p, ticket)
    \/ \E p \in Pollers : Get(p) \/ Judge(p) \/ Deliver(p)
    \/ Restart

Spec == Init /\ [][Next]_vars

-----------------------------------------------------------------------------
TypeOK ==
    /\ Queue!TypeOK
    /\ submit \in [Handlers -> [proto : Protocols, id : {NoId} \cup DOMAIN tasks]]
    /\ life \in 1 .. MaxLives /\ sent \in 0 .. MaxPolls /\ reqSeq \in Nat
    /\ DOMAIN told \subseteq Ticket
    /\ \A g \in DOMAIN told : g.life <= life /\ told[g] \in Queue!Service!Statuses
    /\ \A p \in Pollers : poll[p].pc # "idle" => poll[p].ticket \in DOMAIN told

\* The answer a poll is about to get, and its ticket is of this life.
Answered(p) == poll[p].pc = "answer" /\ poll[p].ticket.life = life

\* No poll goes back behind an answer that reached the client before the poll
\* was sent (handleTaskQuery and its siblings read the clock after the lock is
\* released, so answers do overtake each other, but only those of polls under
\* way together).
PollsNeverGoBack ==
    \A p \in Pollers :
        Answered(p) => Means(poll[p].shown) \cap Queue!Service!Onward(poll[p].floor) # {}

\* An id that a submit handed out is known to every later poll for as long as
\* the process lives ("Kept for the life of the process", TaskQueue).
TicketsResolve ==
    \A p \in Pollers : Answered(p) => poll[p].shown # "UNKNOWN"

\* An id from before a restart is unknown, never somebody else's task of the
\* new life: the counter in it starts again, the clock in it does not.
OldTicketsStayDead ==
    \A p \in Pollers :
        /\ poll[p].pc = "judge" => poll[p].ticket.life = life
        /\ poll[p].pc = "answer" /\ poll[p].ticket.life # life =>
               poll[p].shown = "UNKNOWN"

\* A client gets a result exactly when it is told of success, of the kind it
\* asked for, and only once the task has run its full time.
ResultIsEarned ==
    \A p \in Pollers :
        Answered(p) =>
            /\ poll[p].result = IF Means(poll[p].shown) = {"SUCCEEDED"}
                                THEN poll[p].ticket.kind ELSE "none"
            /\ Means(poll[p].shown) \in {{"SUCCEEDED"}, {"FAILED"}} =>
                  LET task == tasks[poll[p].ticket.id]
                  IN  /\ poll[p].ticket.id \in DOMAIN tasks
                      /\ task.finishAt <= clock
                      /\ task.willFail <=> Means(poll[p].shown) = {"FAILED"}
=============================================================================
