-------------------------- MODULE RequestPipeline --------------------------
(***************************************************************************)
(* Business requests on their way through withMiddleware (server.go) to a  *)
(* non-streaming chat handler (openai.go), each on its own goroutine, with *)
(* the management endpoints that read and change the inspector meanwhile.  *)
(* A request takes in.mu twice, once to be captured and once to be judged  *)
(* by the failure rule; anything may happen in between.                    *)
(***************************************************************************)
EXTENDS Inspector, FiniteSets, Behavior

CONSTANTS
    Enforce,          \* are credentials checked (RequireKey or an APIKey set)?
    ErrorRate,        \* cfg.ErrorRate in units of 1 / RateScale
    Hashes,           \* the values hashString(model#n) may take
    PostedStatuses,   \* the "status" and "times" fields that clients post to
    PostedTimes,      \*   /__mock/behavior, invalid values included,
    PostedFilters     \*   and the sets of paths their "path_suffix" selects

ASSUME PipelineAssumption ==
    /\ Enforce \in BOOLEAN /\ ErrorRate \in Int /\ Hashes \subseteq Nat
    /\ PostedStatuses \subseteq Int /\ PostedTimes \subseteq Int
    /\ PostedFilters \subseteq SUBSET Paths
    /\ IsFiniteSet(Requests)
    \* RuleStatuses and RuleTimes hold every value that passes validation.
    /\ \A status \in PostedStatuses \cup {500} :
          status \in 100 .. 599 => status \in RuleStatuses
    /\ PostedTimes \cap Nat \subseteq RuleTimes

VARIABLES
    pc,           \* per request: the step it is about to take
    path,         \* per request: its URL path
    outcome,      \* per request: what it was answered
    globalSeq,    \* seqCounter, the process-wide request sequence
    captured,     \* history: the number each request was recorded under
    forcedBy,     \* history: the rule (its gen) that failed the request
    due           \* history: the rule (its gen) in force when the request came
                  \*   in, if it is among the next N that rule is to fail

pipeline == <<pc, path, outcome, globalSeq, captured, forcedBy, due>>
vars == <<inspector, pipeline>>

Steps == {"unsent", "record", "shouldFail", "auth", "serve", "sleep", "done"}

Outcomes == {"none", "forced", "unauthorized", "injected", "ok", "gone"}

Init ==
    /\ InspectorInit
    /\ pc = [r \in Requests |-> "unsent"]
    /\ path \in [Requests -> Paths]
    /\ outcome = [r \in Requests |-> "none"]
    /\ globalSeq = 0
    /\ captured = [r \in Requests |-> 0]
    /\ forcedBy = [r \in Requests |-> 0]
    /\ due = [r \in Requests |-> 0]

Goto(r, step) == pc' = [pc EXCEPT ![r] = step]

\* The response is written, or dropped, and the request is over.
Answer(r, what) == Goto(r, "done") /\ outcome' = [outcome EXCEPT ![r] = what]

-----------------------------------------------------------------------------
(* The path of a business request.                                         *)

\* Seeded fault of Arrive: the rule is looked at first and the requests it
\* fails are not captured.
ArriveUnseen(r) ==
    /\ pc[r] = "unsent"
    /\ Goto(r, IF Fires(path[r]) THEN "shouldFail" ELSE "record")
    /\ UNCHANGED <<inspector, path, outcome, globalSeq, captured, forcedBy, due>>

\* Is a request that comes in now among the next N of the rule in force (N being
\* what was posted, every request when that is 0)?
IsNext ==
    LET posted == rules[rule.gen].posted
    IN  posted = 0 \/ Cardinality({q \in Requests : due[q] = rule.gen}) < posted

\* A request comes in; the middleware logs it and re-buffers its body.
Arrive(r) ==
    /\ pc[r] = "unsent"
    /\ Goto(r, "record")
    /\ due' = IF Fires(path[r]) /\ IsNext
              THEN [due EXCEPT ![r] = rule.gen]
              ELSE due
    /\ UNCHANGED <<inspector, path, outcome, globalSeq, captured, forcedBy>>

\* s.insp.record.
Capture(r) ==
    /\ pc[r] = "record"
    /\ Record(r, path[r])
    /\ captured' = [captured EXCEPT ![r] = seq + 1]
    /\ Goto(r, "shouldFail")
    /\ UNCHANGED <<path, outcome, globalSeq, forcedBy, due>>

\* Seeded fault of Judge: times = 0 is taken for no charges left.
JudgeCounted(r) ==
    /\ pc[r] = "shouldFail"
    /\ IF Fires(path[r]) /\ rule.times > 0
       THEN Charge /\ Answer(r, "forced") /\ forcedBy' = [forcedBy EXCEPT ![r] = rule.gen]
       ELSE Goto(r, "auth") /\ UNCHANGED <<inspector, outcome, forcedBy>>
    /\ UNCHANGED <<path, globalSeq, captured, due>>

\* s.insp.shouldFail, and writeFailResponse when the rule fires.
Judge(r) ==
    /\ pc[r] = "shouldFail"
    /\ IF Fires(path[r])
       THEN Charge /\ Answer(r, "forced") /\ forcedBy' = [forcedBy EXCEPT ![r] = rule.gen]
       ELSE Goto(r, "auth") /\ UNCHANGED <<inspector, outcome, forcedBy>>
    /\ UNCHANGED <<path, globalSeq, captured, due>>

\* authOK, when keys are enforced: a request may or may not carry a good one.
Authorize(r) ==
    /\ pc[r] = "auth"
    /\ \/ Goto(r, "serve") /\ UNCHANGED outcome
       \/ Enforce /\ Answer(r, "unauthorized")
    /\ UNCHANGED <<inspector, path, globalSeq, captured, forcedBy, due>>

\* dispatch and handleChatCompletions up to its latency: one number of the
\* process-wide sequence, and the error injection sampled from its hash.
Serve(r) ==
    /\ pc[r] = "serve"
    /\ globalSeq' = globalSeq + 1
    /\ \E h \in Hashes :
         IF ShouldInject(h, ErrorRate)
         THEN Answer(r, "injected")
         ELSE Goto(r, "sleep") /\ UNCHANGED outcome
    /\ UNCHANGED <<inspector, path, captured, forcedBy, due>>

\* The latency elapses and the completion is written ...
Complete(r) ==
    /\ pc[r] = "sleep"
    /\ Answer(r, "ok")
    /\ UNCHANGED <<inspector, path, globalSeq, captured, forcedBy, due>>

\* ... or the client goes away during it and nothing is.
ClientGone(r) ==
    /\ pc[r] = "sleep"
    /\ Answer(r, "gone")
    /\ UNCHANGED <<inspector, path, globalSeq, captured, forcedBy, due>>

-----------------------------------------------------------------------------
(* The management endpoints, each one critical section.  Their GET forms   *)
(* change nothing.                                                         *)

\* Seeded fault of PostBehavior: the sign of times is not checked.
PostBehaviorUnchecked(status, times, paths) ==
    /\ Len(rules) < MaxRules
    /\ SetRule(IF status = 0 THEN 500 ELSE status, times, paths)
    /\ UNCHANGED pipeline

\* POST /__mock/behavior: the status defaults to 500, an invalid rule is
\* refused with 400 and leaves the rule in force alone.
PostBehavior(status, times, paths) ==
    LET effective == IF status = 0 THEN 500 ELSE status
    IN  /\ Len(rules) < MaxRules
        /\ effective \in 100 .. 599 /\ times >= 0
        /\ SetRule(effective, times, paths)
        /\ UNCHANGED pipeline

\* DELETE /__mock/behavior.
DeleteBehavior == ClearRule /\ UNCHANGED pipeline

\* DELETE /__mock/requests.
DeleteRequests == ClearRequests /\ UNCHANGED pipeline

Handle(r) == \/ Capture(r) \/ Judge(r) \/ Authorize(r) \/ Serve(r)
             \/ Complete(r) \/ ClientGone(r)

Next ==
    \/ \E r \in Requests : Arrive(r) \/ Handle(r)
    \/ \E status \in PostedStatuses, times \in PostedTimes, paths \in PostedFilters :
          PostBehavior(status, times, paths)
    \/ DeleteBehavior
    \/ DeleteRequests

\* Clients owe nobody a request, and of what they are owed only safety is asked:
\* a handler walks a straight path, which fairness alone would bring to its end.
Spec == Init /\ [][Next]_vars

-----------------------------------------------------------------------------
TypeOK ==
    /\ InspectorTypeOK
    /\ pc \in [Requests -> Steps]
    /\ path \in [Requests -> Paths]
    /\ outcome \in [Requests -> Outcomes]
    /\ globalSeq \in Nat
    /\ captured \in [Requests -> 0 .. seq]
    /\ forcedBy \in [Requests -> 0 .. Len(rules)]
    /\ due \in [Requests -> 0 .. Len(rules)]

\* A request that has been answered, whatever the answer, was captured exactly
\* once, under its own number, and is still listed unless it was cleared or 256
\* newer ones pushed it out: a client that has its answer finds its request.
AnsweredIsListed ==
    \A r \in Requests :
        pc[r] = "done" =>
            /\ captured[r] > 0
            /\ \A i \in 1 .. Len(ring) : ring[i].of = r <=> ring[i].seq = captured[r]
            /\ captured[r] > clearedSeq /\ captured[r] > seq - RingCap =>
                  \E i \in 1 .. Len(ring) :
                      ring[i] = [seq |-> captured[r], path |-> path[r], of |-> r]

\* A rule without a count holds until DELETE: while it is in force no matching
\* request that came in after it was posted gets past it.
UnlimitedRuleHolds ==
    \A r \in Requests :
        /\ Active /\ due[r] = rule.gen /\ rules[rule.gen].posted = 0
        => pc[r] \in {"record", "shouldFail"} \/ outcome[r] = "forced"

\* A counted rule fails exactly as many requests as were asked for (README,
\* times): never more, and by the time it is exhausted never fewer, while the
\* hits that GET /__mock/behavior reports are the requests it has failed.
FailsExactly ==
    \A g \in 1 .. Len(rules) :
        LET failed == Cardinality({r \in Requests : forcedBy[r] = g})
        IN  /\ rules[g].posted > 0 =>
                  /\ failed <= rules[g].posted
                  /\ rules[g].fate = "exhausted" <=> failed = rules[g].posted
            /\ Active /\ rule.gen = g => rule.hits = failed

\* The middleware uses the inspector only through its operations.
UsesInspector == InspectorSpec

-----------------------------------------------------------------------------
\* "The next N requests fail" (withMiddleware; README, times): a request that
\* came in after the rule was posted, among the first N to match it, does not
\* get past the rule, as long as nobody clears or replaces it.
NextRequestsFail ==
    \A r \in Requests :
        due[r] > 0 /\ rules[due[r]].fate \in {"active", "exhausted"}
            => pc[r] \in {"record", "shouldFail"} \/ outcome[r] = "forced"
=============================================================================
