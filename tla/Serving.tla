------------------------------ MODULE Serving ------------------------------
(***************************************************************************)
(* The life of the process (main.go) and of the responses it is writing    *)
(* meanwhile: the synchronous media handlers (openai_media.go), audio,     *)
(* a chat body, and the failures of the middleware and the handlers.       *)
(*                                                                         *)
(* A handler writes into a net/http response, which is modelled from how   *)
(* the handlers use it: what WriteHeader makes of a status, what becomes   *)
(* of a Content-Length, and what the client takes for a whole response.    *)
(* A response is the sequence of its parts (what is before the entries,    *)
(* one part per entry, what is after them), each with a size.              *)
(***************************************************************************)
EXTENDS Behavior

CONSTANTS
    Requests,
    Traffic,        \* the functions from Requests to Request in question
    FailRate,       \* cfg.SyncFailRate and cfg.ErrorRate, as in Behavior
    ErrorStatus,    \* cfg.ErrorStatus, any integer: it is not validated
    MinDelay, MaxDelay,  \* the bounds of the handlers' delay, in ticks
    Hashes,         \* the values a hash may take
    PrefixSize, EntrySize, SuffixSize,  \* per kind: bytes of the parts
    Grace,          \* the five seconds of Shutdown's context, in ticks
    MaxClock        \* bound: the clock stops here

\* The kinds whose bodies have entries, and the others, which are one part.
Lists == {"image", "gpt-image", "video"}
Kinds == Lists \cup {"speech", "transcription", "chat"}

\* A request: what it asks for, the n it posted and in which encoding, and the
\* status of the failure rule that hits it (0 when none does).
Request == [kind : Kinds, n : Int, multipart : BOOLEAN, rule : Int]

ASSUME ServingAssumption ==
    /\ \A t \in Traffic : t \in [Requests -> Request]
    /\ FailRate \in Int /\ ErrorStatus \in Int
    /\ MinDelay \in Nat /\ MaxDelay \in Nat /\ Hashes \subseteq Nat
    /\ \A size \in {PrefixSize, EntrySize, SuffixSize} :
          size \in [Lists -> Nat \ {0}]
    /\ Grace \in Nat \ {0} /\ MaxClock \in Nat

-----------------------------------------------------------------------------
(* What a handler is about to write.                                       *)

\* Seeded fault of Count: only a negative n is clamped.
CountNegative(q) == IF ~q.multipart /\ q.n < 0 THEN 1 ELSE q.n

\* parseMediaRequest: the form branch returns before n is clamped.
Count(q) == IF ~q.multipart /\ q.n < 1 THEN 1 ELSE q.n

Commas(q) == IF Count(q) > 1 THEN Count(q) - 1 ELSE 0

\* "total" of writeMediaJSON and writeGPTImageJSON.
Total(q) ==
    PrefixSize[q.kind] + Count(q) * EntrySize[q.kind] + Commas(q) + SuffixSize[q.kind]

\* How many entries the loop writes.
Entries(q) == IF Count(q) < 0 THEN 0 ELSE Count(q)

\* The parts of a list body, and the size of the k-th: every entry but the
\* first has a comma before it.
Parts(q) == Entries(q) + 2

PartSize(q, k) ==
    CASE k = 1 -> PrefixSize[q.kind]
      [] k \in 2 .. Parts(q) - 1 -> EntrySize[q.kind] + (IF k > 2 THEN 1 ELSE 0)
      [] k = Parts(q) -> SuffixSize[q.kind]

-----------------------------------------------------------------------------
(* net/http's side of a response.                                          *)

Unset == -1

\* WriteHeader panics on what is no status code at all ...
ValidStatus(status) == status \in 100 .. 999

\* ... and sends an informational one ahead of the response, whose own status
\* is then the 200 that the first Write implies.
FinalStatus(status) == IF status \in 100 .. 199 \ {101} THEN 200 ELSE status

\* A Content-Length that is not a number of bytes is dropped, and the response
\* is framed by net/http itself.
KnownLength(length) == IF length < 0 THEN Unset ELSE length

\* May a body follow this status?
BodyAllowed(status) == status \notin {101, 204, 304}

NoResponse == [status |-> 0, list |-> FALSE, length |-> Unset, parts |-> 0,
               written |-> 0, sent |-> 0, got |-> 0]

\* The response after WriteHeader(status), with this Content-Length set.
Headed(status, list, length) ==
    [NoResponse EXCEPT !.status = FinalStatus(status), !.list = list,
                       !.length = KnownLength(length)]

\* The response after one more Write: data past the announced length, or after
\* a status without a body, is refused whole, and counted all the same.
Written(p, size) ==
    LET taken == /\ BodyAllowed(p.status)
                 /\ p.length = Unset \/ p.written + size <= p.length
    IN  [p EXCEPT !.parts = @ + 1,
                  !.written = @ + size,
                  !.sent = IF taken THEN @ + size ELSE @,
                  !.got = IF taken THEN @ + 1 ELSE @]

\* Does the client take what it has got for the whole response, once the
\* handler has returned?
Complete(p) == p.length = Unset \/ p.sent = p.length
-----------------------------------------------------------------------------
VARIABLES
    proc,        \* the process: starting, listening, draining or down
    now,         \* time.Now()
    deadline,    \* when the context given to Shutdown expires
    signalled,   \* history: when the signal came
    req,         \* per request: what it is
    pc,          \* per request: the step its handler is about to take
    until,       \* per request: when its delay is over
    resp,        \* per request: its response
    alive,       \* per request: has its client stayed?
    asked,       \* history: the status a failure was written with, else 200
    seen         \* what its client makes of it: nothing yet, a whole response,
                 \*   or one that broke off

requests == <<req, pc, until, resp, alive, asked, seen>>
vars == <<proc, now, deadline, signalled, requests>>

Init ==
    /\ proc = "starting" /\ now = 0 /\ deadline = 0 /\ signalled = 0
    /\ req \in Traffic
    /\ pc = [r \in Requests |-> "unsent"]
    /\ until = [r \in Requests |-> 0]
    /\ resp = [r \in Requests |-> NoResponse]
    /\ alive = [r \in Requests |-> TRUE]
    /\ asked = [r \in Requests |-> 200]
    /\ seen = [r \in Requests |-> "nothing"]

InService(r) == pc[r] \in {"serve", "sleep", "write"}

Goto(r, step) == pc' = [pc EXCEPT ![r] = step]

\* The handler is over; a client that is still there has got what it has got.
Return(r, verdict) ==
    /\ Goto(r, "done")
    /\ seen' = [seen EXCEPT ![r] = IF alive[r] THEN verdict ELSE "nothing"]

\* Seeded fault of Fail: the body is written without a WriteHeader before it.
FailImplicit(r, status) ==
    /\ asked' = [asked EXCEPT ![r] = status]
    /\ resp' = [resp EXCEPT ![r] = Headed(200, FALSE, Unset)]
    /\ Goto(r, "write")
    /\ UNCHANGED <<until, seen>>

\* A plain body under this status: a panic closes the connection instead.
Fail(r, status) ==
    /\ asked' = [asked EXCEPT ![r] = status]
    /\ IF ValidStatus(status)
       THEN /\ resp' = [resp EXCEPT ![r] = Headed(status, FALSE, Unset)]
            /\ Goto(r, "write") /\ UNCHANGED seen
       ELSE Return(r, "broken") /\ UNCHANGED resp
    /\ UNCHANGED until

-----------------------------------------------------------------------------
(* The requests.                                                           *)

\* The connection is accepted; shouldFail may answer in the handler's place.
Arrive(r) ==
    /\ proc = "listening" /\ pc[r] = "unsent"
    /\ IF req[r].rule # 0
       THEN Fail(r, req[r].rule)
       ELSE Goto(r, "serve") /\ UNCHANGED <<until, resp, asked, seen>>
    /\ UNCHANGED <<proc, now, deadline, signalled, req, alive>>

\* The handler up to its delay: one hash decides on the failure and the delay.
\* Media fail with 500 (by prompt), chat with the configured status (by
\* number), audio never.
Serve(r) ==
    /\ pc[r] = "serve"
    /\ \E h \in Hashes :
         IF req[r].kind \in Lists \cup {"chat"} /\ ShouldInject(h, FailRate)
         THEN Fail(r, IF req[r].kind = "chat" THEN ErrorStatus ELSE 500)
         ELSE /\ Goto(r, "sleep")
              /\ until' = [until EXCEPT ![r] = now + RandomDelay(h, MinDelay, MaxDelay)]
              /\ UNCHANGED <<resp, asked, seen>>
    /\ UNCHANGED <<proc, now, deadline, signalled, req, alive>>

\* The delay is over and the header goes out ...
Wake(r) ==
    /\ pc[r] = "sleep" /\ now >= until[r]
    /\ resp' = [resp EXCEPT ![r] =
                   Headed(200, req[r].kind \in Lists,
                          CASE req[r].kind \in Lists -> Total(req[r])
                            [] req[r].kind = "speech" -> 1
                            [] req[r].kind \in {"transcription", "chat"} -> Unset)]
    /\ Goto(r, "write")
    /\ UNCHANGED <<proc, now, deadline, signalled, req, until, alive, asked, seen>>

\* ... or the client has gone, and nothing does.
Abandon(r) ==
    /\ pc[r] = "sleep" /\ ~alive[r]
    /\ Return(r, "nothing")
    /\ UNCHANGED <<proc, now, deadline, signalled, req, until, resp, alive, asked>>

\* The next part of the body; nobody looks at the error of a Write.
Write(r) ==
    LET p    == resp[r]
        last == IF p.list THEN Parts(req[r]) ELSE 1
        size == IF p.list THEN PartSize(req[r], p.parts + 1) ELSE 1
        q    == Written(p, size)
    IN  /\ pc[r] = "write"
        /\ resp' = [resp EXCEPT ![r] = q]
        /\ IF q.parts = last
           THEN Return(r, IF Complete(q) THEN "whole" ELSE "broken")
           ELSE UNCHANGED <<pc, seen>>
        /\ UNCHANGED <<proc, now, deadline, signalled, req, until, alive, asked>>

\* The client goes away.
Leave(r) ==
    /\ InService(r) /\ alive[r]
    /\ alive' = [alive EXCEPT ![r] = FALSE]
    /\ UNCHANGED <<proc, now, deadline, signalled, req, pc, until, resp, asked, seen>>

-----------------------------------------------------------------------------
(* The process.                                                            *)

\* ListenAndServe gets its port, or the process exits.
Listen ==
    /\ proc = "starting"
    /\ proc' \in {"listening", "down"}
    /\ UNCHANGED <<now, deadline, signalled, requests>>

\* Seeded fault of Signal: the context expires a tick early.
SignalEarly ==
    /\ proc \in {"starting", "listening"}
    /\ now + Grace <= MaxClock
    /\ proc' = "draining" /\ deadline' = now + Grace - 1
    /\ signalled' = now
    /\ UNCHANGED <<now, requests>>

\* Seeded fault of Signal: the five seconds are minutes.
SignalLate ==
    /\ proc \in {"starting", "listening"}
    /\ now + Grace <= MaxClock
    /\ proc' = "draining" /\ deadline' = now + 60 * Grace
    /\ signalled' = now
    /\ UNCHANGED <<now, requests>>

\* SIGINT or SIGTERM: Shutdown closes the listener and starts its five seconds.
\* (A second signal stays in the channel, which nobody reads any more.)
Signal ==
    /\ proc \in {"starting", "listening"}
    /\ now + Grace <= MaxClock
    /\ proc' = "draining" /\ deadline' = now + Grace
    /\ signalled' = now
    /\ UNCHANGED <<now, requests>>

\* Shutdown finds every connection idle, and main returns.
Drained ==
    /\ proc = "draining"
    /\ \A r \in Requests : ~InService(r)
    /\ proc' = "down"
    /\ UNCHANGED <<now, deadline, signalled, requests>>

\* Seeded fault of GraceOver: the context has no deadline.
GraceOverNever ==
    /\ proc = "draining" /\ \A r \in Requests : ~InService(r)
    /\ proc' = "down"
    /\ UNCHANGED <<now, deadline, signalled, requests>>

\* The five seconds are over, and main returns all the same: what is in service
\* is cut off.
GraceOver ==
    /\ proc = "draining" /\ now >= deadline
    /\ proc' = "down"
    /\ pc' = [r \in Requests |-> IF InService(r) THEN "cut" ELSE pc[r]]
    /\ seen' = [r \in Requests |->
                  CASE ~InService(r) \/ ~alive[r] -> seen[r]
                    [] InService(r) /\ alive[r] -> "broken"]
    /\ UNCHANGED <<now, deadline, signalled, req, until, resp, alive, asked>>

\* A second goes by, or a fraction of one.  Straight-line code takes none: a
\* delay that is over is acted on first.
Tick ==
    /\ proc # "down" /\ now < MaxClock
    /\ \A r \in Requests : pc[r] # "serve" /\ (pc[r] = "sleep" => now < until[r])
    /\ now' = now + 1
    /\ UNCHANGED <<proc, deadline, signalled, requests>>

Handle(r) == Serve(r) \/ Wake(r) \/ Abandon(r)

Next ==
    \/ \E r \in Requests : Arrive(r) \/ Handle(r) \/ Write(r) \/ Leave(r)
    \/ Listen \/ Signal \/ Drained \/ GraceOver \/ Tick

\* Goroutines are scheduled, timers fire and time goes on.  No fairness of
\* Write: there is no WriteTimeout, and a client that stays and does not read
\* may hold a handler up for ever.
Fairness == WF_vars(Tick) /\ WF_vars(Drained) /\ WF_vars(GraceOver)
            /\ \A r \in Requests : WF_vars(Handle(r))

Spec == Init /\ [][Next]_vars /\ Fairness

-----------------------------------------------------------------------------
TypeOK ==
    /\ proc \in {"starting", "listening", "draining", "down"}
    /\ now \in 0 .. MaxClock /\ deadline \in 0 .. MaxClock /\ signalled \in 0 .. MaxClock
    /\ req \in Traffic
    /\ pc \in [Requests -> {"unsent", "serve", "sleep", "write", "done", "cut"}]
    /\ until \in [Requests -> Nat]
    /\ \A r \in Requests : resp[r].sent <= resp[r].written /\ resp[r].got <= resp[r].parts
    /\ alive \in [Requests -> BOOLEAN]
    /\ asked \in [Requests -> Int]
    /\ seen \in [Requests -> {"nothing", "whole", "broken"}]

\* Is the announced length a wrong one that net/http believes?  Only a form
\* with a negative n beside a tiny image gets there.
Misannounced(q) == Count(q) < 0 /\ Total(q) >= 0

\* A list of media whose handler has returned is whole for the client that
\* stayed, and what a client takes for whole has all its entries: as many as it
\* asked for, and at least one when it asked in JSON.  The announced length is
\* the length written ("Content-Length is exact").
MediaAreWhole ==
    \A r \in Requests :
        LET q == req[r]
            p == resp[r]
        IN  p.list /\ ~Misannounced(q) =>
              /\ pc[r] = "done" /\ alive[r] => seen[r] = "whole"
              /\ seen[r] = "whole" =>
                    p.got = 2 + (IF q.n > 0 THEN q.n ELSE IF q.multipart THEN 0 ELSE 1)

\* No failure is taken for a success: what a client takes for a whole response
\* has the status it was written with, the rule's or the configured one, and a
\* number that is no status never makes a response.  (The exception are the
\* statuses of 100 to 199 that a rule may have: they arrive as 200.)
FailuresArrive ==
    \A r \in Requests :
        /\ seen[r] = "whole" /\ asked[r] \notin 100 .. 199 => resp[r].status = asked[r]
        /\ pc[r] = "done" /\ alive[r] /\ ~resp[r].list =>
              (seen[r] = "whole" <=> ValidStatus(asked[r]))

\* A request cut off by the end of the process was not one that the five seconds
\* were enough for: its delay outlasted them, or it was being written already,
\* to a client that did not read.
CutOnlyIfSlow ==
    \A r \in Requests : pc[r] = "cut" => until[r] >= signalled + Grace \/ resp[r].status # 0

\* After a signal the process is down in the end, whatever its handlers and
\* their clients do.
ProcessExits == proc = "draining" ~> proc = "down"
=============================================================================
