-------------------------- MODULE AsyncTaskService --------------------------
(***************************************************************************)
(* What the async image/video endpoints promise their clients, without     *)
(* clocks, schedules or locks: a job is accepted once, is never lost,      *)
(* moves PENDING -> RUNNING -> SUCCEEDED or FAILED and never back, and of  *)
(* each kind at most Slots(kind) jobs run, all of them busy whenever a job *)
(* waits.                                                                  *)
(***************************************************************************)
EXTENDS Naturals, FiniteSets

CONSTANTS Kinds,      \* the kinds of job, each with slots of its own
          Slots(_)    \* how many jobs of a kind may run at once

VARIABLE jobs         \* from the ids of the accepted jobs to [kind, status]

Terminal == {"SUCCEEDED", "FAILED"}
Statuses == {"PENDING", "RUNNING"} \cup Terminal

\* The statuses a job may show later, given the one it shows now.
Onward(status) ==
    CASE status = "PENDING" -> Statuses
      [] status = "RUNNING" -> {"RUNNING"} \cup Terminal
      [] status \in Terminal -> {status}

With(kind, status) ==
    {id \in DOMAIN jobs : jobs[id].kind = kind /\ jobs[id].status = status}

\* Slots are never oversubscribed, nor idle while a job waits.
SlotsWellUsed ==
    \A kind \in Kinds :
        /\ Cardinality(With(kind, "RUNNING")) <= Slots(kind)
        /\ With(kind, "PENDING") # {} =>
               Cardinality(With(kind, "RUNNING")) = Slots(kind)

Init == jobs = << >>

\* One new job is accepted; with no wait it may even be seen finished at once.
Accept ==
    \E id \in DOMAIN jobs' \ DOMAIN jobs :
        /\ DOMAIN jobs' = DOMAIN jobs \cup {id}
        /\ \A i \in DOMAIN jobs : jobs'[i] = jobs[i]
        /\ jobs'[id].kind \in Kinds
        /\ jobs'[id].status \in Statuses

\* Some jobs make progress.
Advance ==
    /\ DOMAIN jobs' = DOMAIN jobs
    /\ \A i \in DOMAIN jobs :
           /\ jobs'[i].kind = jobs[i].kind
           /\ jobs'[i].status \in Onward(jobs[i].status)

Next == (Accept \/ Advance) /\ SlotsWellUsed'

Spec == Init /\ [][Next]_jobs
=============================================================================
