--------------------------- MODULE Repeatability ---------------------------
(***************************************************************************)
(* Two runs of the program under the same load.  Every client has a fixed  *)
(* sequence of requests and sends the next when the last is answered; the  *)
(* second run is a fresh process.  The hash of a key is unknown but the    *)
(* same in both runs; the order in which concurrent requests get their     *)
(* numbers, how often a client polls, and the time in a task's id are not. *)
(***************************************************************************)
EXTENDS Behavior, Sequences, FiniteSets

CONSTANTS
    Clients,
    Names,       \* models, and prompts of media requests
    Loads,       \* the functions from Clients to sequences of Request in question
    Hashes,      \* the values hashString may take
    FailRate,    \* cfg.ErrorRate and cfg.SyncFailRate
    MinDelay, MaxDelay,
    MaxPolls     \* bound: a job's client polls at most so often

\* chat:     chat completions, responses and generateContent, without streaming
\* message:  Anthropic's endpoint, and streamed responses
\* stream:   OpenAI's and Zhipu's streams
\* gemini stream, image, and job (submission and polling of a task)
Kinds == {"chat", "message", "stream", "gemini stream", "image", "job"}

Request == [kind : Kinds, name : Names]

ASSUME RepeatabilityAssumption ==
    /\ \A l \in Loads : l \in [Clients -> Seq(Request)]
    /\ IsFiniteSet(Clients)
    /\ Hashes \subseteq Nat /\ FailRate \in Int
    /\ MinDelay \in Nat /\ MaxDelay \in Nat /\ MaxPolls \in Nat

VARIABLES
    load,        \* what each client will send
    run,         \* the first run or the second
    hash,        \* hashString, as far as it has been asked
    globalSeq,   \* seqCounter
    pc,          \* per client: idle, about to open a stream, or polling
    polls,       \* per client: polls of its job so far
    answers      \* per run and client: what it was answered, in order

vars == <<load, run, hash, globalSeq, pc, polls, answers>>

\* An answer: failed or not, the number in its id, the delay before it.
Answer(hit, no, delay) == [hit |-> hit, no |-> no, delay |-> delay]

Failure == Answer(TRUE, 0, 0)

Init ==
    /\ load \in Loads
    /\ run = 1
    /\ hash = << >>
    /\ globalSeq = 0
    /\ pc = [c \in Clients |-> "idle"]
    /\ polls = [c \in Clients |-> 0]
    /\ answers = [k \in 1 .. 2 |-> [c \in Clients |-> << >>]]

Answered(c) == Len(answers[run][c])

Over(c) == Answered(c) = Len(load[c])

Give(c, a) == answers' = [answers EXCEPT ![run][c] = Append(@, a)]

\* hashString of these keys: what was found before is found again.
Ask(keys, f) ==
    /\ f \in [keys -> Hashes]
    /\ \A k \in keys \cap DOMAIN hash : f[k] = hash[k]
    /\ hash' = [k \in keys \cup DOMAIN hash |-> IF k \in keys THEN f[k] ELSE hash[k]]

\* What the handlers hash, n being the request's number: "model#n", an id with the
\* number in it, or the model or prompt alone (a zero for the number).
ByContent == {"image", "gemini stream"}

\* Seeded fault of InjectKey: the prompt is followed by a number.
InjectKeyNumbered(q, n) == <<q.name, n>>

InjectKey(q, n) == IF q.kind \in ByContent THEN <<q.name, 0>> ELSE <<q.name, n>>

DelayKey(q, n) == CASE q.kind \in ByContent         -> <<q.name, 0>>
                    [] q.kind \in {"chat", "job"}   -> <<q.name, n>>
                    [] q.kind \in {"message", "stream"} -> <<q.kind, n>>

\* A request that one step answers, or a stream up to its first number.  The
\* requests decided by their content take no number, and Gemini's streams are
\* never hit.
Begin(c) ==
    LET q    == load[c][Answered(c) + 1]
        n    == globalSeq + 1
        keys == {InjectKey(q, n), DelayKey(q, n)}
    IN  /\ pc[c] = "idle" /\ ~Over(c) /\ q.kind # "job"
        /\ globalSeq' = IF q.kind \in ByContent THEN globalSeq ELSE n
        /\ \E f \in [keys -> Hashes] :
             /\ Ask(keys, f)
             /\ IF q.kind # "gemini stream" /\ ShouldInject(f[InjectKey(q, n)], FailRate)
                THEN Give(c, Failure) /\ UNCHANGED pc
                ELSE IF q.kind = "stream"
                THEN pc' = [pc EXCEPT ![c] = "open"] /\ UNCHANGED answers
                ELSE /\ Give(c, Answer(FALSE, IF q.kind \in ByContent THEN 0 ELSE n,
                                       RandomDelay(f[DelayKey(q, n)], MinDelay, MaxDelay)))
                     /\ UNCHANGED pc
        /\ UNCHANGED <<load, run, polls>>

\* The second number of a stream: its id, and the key of its delay.
Open(c) ==
    LET q == load[c][Answered(c) + 1]
        n == globalSeq + 1
    IN  /\ pc[c] = "open"
        /\ globalSeq' = n
        /\ \E f \in [{DelayKey(q, n)} -> Hashes] :
             /\ Ask({DelayKey(q, n)}, f)
             /\ Give(c, Answer(FALSE, n, RandomDelay(f[DelayKey(q, n)], MinDelay, MaxDelay)))
        /\ pc' = [pc EXCEPT ![c] = "idle"]
        /\ UNCHANGED <<load, run, polls>>

\* A task is submitted; the submission's request_id takes a number.
Submit(c) ==
    /\ pc[c] = "idle" /\ ~Over(c) /\ load[c][Answered(c) + 1].kind = "job"
    /\ globalSeq' = globalSeq + 1
    /\ pc' = [pc EXCEPT ![c] = "poll"]
    /\ polls' = [polls EXCEPT ![c] = 0]
    /\ UNCHANGED <<load, run, hash, answers>>

\* A poll (of DashScope or Zhipu) takes a number as well.  The task is over
\* hangs on the hash of an id that has the time in it, another in every run.
Poll(c) ==
    /\ pc[c] = "poll"
    /\ globalSeq' = globalSeq + 1
    /\ polls' = [polls EXCEPT ![c] = @ + 1]
    /\ \/ polls[c] + 1 < MaxPolls /\ UNCHANGED <<pc, answers>>
       \/ /\ \E h \in Hashes :
               Give(c, Answer(ShouldInject(h, FailRate), 0,
                              RandomDelay(h, MinDelay, MaxDelay)))
          /\ pc' = [pc EXCEPT ![c] = "idle"]
    /\ UNCHANGED <<load, run, hash>>

\* Seeded fault of SecondRun: the numbers go on where the first run ended.
SecondRunWarm ==
    /\ run = 1 /\ \A c \in Clients : Over(c)
    /\ run' = 2
    /\ polls' = [c \in Clients |-> 0]
    /\ UNCHANGED <<load, hash, globalSeq, pc, answers>>

\* The load is over; a fresh process gets it again.
SecondRun ==
    /\ run = 1 /\ \A c \in Clients : Over(c)
    /\ run' = 2
    /\ globalSeq' = 0
    /\ polls' = [c \in Clients |-> 0]
    /\ UNCHANGED <<load, hash, pc, answers>>

Next ==
    \/ \E c \in Clients : Begin(c) \/ Open(c) \/ Submit(c) \/ Poll(c)
    \/ SecondRun

Spec == Init /\ [][Next]_vars

-----------------------------------------------------------------------------
\* Are the requests of the load numbered in one order only?
InOrder == /\ \E c \in Clients : \A d \in Clients \ {c} : load[d] = << >>
           /\ \A c \in Clients : \A i \in DOMAIN load[c] : load[c][i].kind # "job"

\* The second run answers as the first did, failures, ids and delays, what is
\* decided by the content of a request under any load, and everything when one
\* client sends one request after the other and polls for none.
RepeatsInOrder ==
    run = 2 =>
        \A c \in Clients : \A i \in DOMAIN answers[2][c] :
            InOrder \/ load[c][i].kind \in ByContent
                => answers[2][c][i] = answers[1][c][i]

\* The requests that failed in a run.
Failures(k) ==
    UNION {{c} \X {i \in DOMAIN answers[k][c] : answers[k][c][i].hit} : c \in Clients}

\* Concurrent plain requests to one model: another client may be hit in the
\* second run, but as many requests are.
SameFailures ==
    /\ run = 2 /\ \A c \in Clients : Over(c)
    /\ \E m \in Names : \A c \in Clients : \A i \in DOMAIN load[c] :
          load[c][i].name = m /\ load[c][i].kind \in {"chat", "message"}
    => Cardinality(Failures(1)) = Cardinality(Failures(2))

-----------------------------------------------------------------------------
\* "The same load repeats the same delays and errors across runs" (README,
\* on the determinism of all randomness; payload.go, seq).
LoadRepeats ==
    run = 2 =>
        \A c \in Clients : \A i \in DOMAIN answers[2][c] :
            answers[2][c][i].hit = answers[1][c][i].hit
=============================================================================
