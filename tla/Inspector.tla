----------------------------- MODULE Inspector -----------------------------
(***************************************************************************)
(* The inspector (inspect.go): the ring of captured requests and the one   *)
(* on-demand failure rule, both guarded by in.mu.  Every operation is one  *)
(* critical section and one action here; what the callers do between two   *)
(* of them is RequestPipeline's business.  Beside the program's state the  *)
(* module keeps a history of what was cleared, posted and charged, for the *)
(* properties to speak about.                                              *)
(***************************************************************************)
EXTENDS Integers, Sequences, FiniteSets

CONSTANTS
    Requests,     \* the business requests, each sent at most once
    Paths,        \* their URL paths
    RingCap,      \* captureCap (256 in the code)
    RuleStatuses, \* the statuses of the rules that pass validation
    RuleTimes,    \* their times, 0 meaning until DELETE
    MaxRules      \* bound: rules posted in one run of the process

ASSUME RingAssumption == RingCap \in Nat \ {0}
ASSUME RuleAssumption == RuleStatuses \subseteq 100 .. 599 /\ RuleTimes \subseteq Nat
ASSUME MaxRulesAssumption == MaxRules \in Nat

VARIABLES
    seq,          \* in.seq
    ring,         \* in.ring, oldest first
    rule,         \* in.rule, or NoRule
    clearedSeq,   \* history: seq when the ring was last cleared
    rules         \* history: every rule posted, its charges and its fate

inspector == <<seq, ring, rule, clearedSeq, rules>>

\* A captured request: its number, its path, and which request it is (for the
\* method, headers and body, copied before the lock).
Entry == [seq : Nat, path : Paths, of : Requests]

\* A rule: a path suffix is the set of paths that end in it, the empty suffix
\* selects them all; gen tells the rules of a run apart.
Rule == [gen : Nat, status : 100 .. 599, times : Nat, hits : Nat, paths : SUBSET Paths]

NoRule == [gen |-> 0, status |-> 500, times |-> 0, hits |-> 0, paths |-> {}]

Active == rule.gen # 0

-----------------------------------------------------------------------------
InspectorInit ==
    /\ seq = 0
    /\ ring = << >>
    /\ rule = NoRule
    /\ clearedSeq = 0
    /\ rules = << >>

\* Seeded fault of Trim: what is new is dropped once the ring is full.
TrimNewest(s) == IF Len(s) > RingCap THEN SubSeq(s, 1, RingCap) ELSE s

\* The last captureCap entries.
Trim(s) == IF Len(s) > RingCap THEN SubSeq(s, Len(s) - RingCap + 1, Len(s)) ELSE s

\* record: number the entry and append it.
Record(r, p) ==
    /\ seq' = seq + 1
    /\ ring' = Trim(Append(ring, [seq |-> seq + 1, path |-> p, of |-> r]))
    /\ UNCHANGED <<rule, clearedSeq, rules>>

\* Does the rule fire for a path?
Fires(p) == Active /\ p \in rule.paths

\* Seeded fault of Charge: an exhausted rule is not removed.
ChargeForever ==
    /\ rule' = [rule EXCEPT !.hits = @ + 1,
                            !.times = IF @ > 0 THEN @ - 1 ELSE @]
    /\ rules' = [rules EXCEPT ![rule.gen].spent = @ + 1]
    /\ UNCHANGED <<seq, ring, clearedSeq>>

\* Seeded fault of Charge: a rule without a count is taken for a used-up one.
ChargeOnce ==
    /\ rule' = IF rule.times <= 1 THEN NoRule
               ELSE [rule EXCEPT !.hits = @ + 1, !.times = @ - 1]
    /\ rules' = [rules EXCEPT ![rule.gen].spent = @ + 1]
    /\ UNCHANGED <<seq, ring, clearedSeq>>

\* shouldFail, when the rule fires: a hit more and, of a counted rule, a charge
\* less; the last charge removes the rule.
Charge ==
    LET last  == rule.times = 1
        spent == rules[rule.gen].spent + 1
    IN  /\ rule' = IF last THEN NoRule
                   ELSE [rule EXCEPT !.hits = rule.hits + 1,
                                     !.times = IF rule.times > 0 THEN rule.times - 1
                                              ELSE rule.times]
        /\ rules' = [rules EXCEPT ![rule.gen] =
                        [posted |-> rules[rule.gen].posted, spent |-> spent,
                         fate   |-> IF last THEN "exhausted" ELSE "active"]]
        /\ UNCHANGED <<seq, ring, clearedSeq>>

\* The rule that is in force, if any, meets its end in the history.
RulesEnded(fate) ==
    IF Active THEN [rules EXCEPT ![rule.gen].fate = fate] ELSE rules

\* Seeded fault of SetRule: the fields are set one by one and hits is forgotten.
SetRuleKeepHits(status, times, paths) ==
    /\ rule' = [gen |-> Len(rules) + 1, status |-> status, times |-> times,
                hits |-> rule.hits, paths |-> paths]
    /\ rules' = Append(RulesEnded("replaced"),
                       [posted |-> times, spent |-> 0, fate |-> "active"])
    /\ UNCHANGED <<seq, ring, clearedSeq>>

\* setRule: the new rule replaces the old one and starts with no hits.
SetRule(status, times, paths) ==
    /\ rule' = [gen |-> Len(rules) + 1, status |-> status, times |-> times,
                hits |-> 0, paths |-> paths]
    /\ rules' = Append(RulesEnded("replaced"),
                       [posted |-> times, spent |-> 0, fate |-> "active"])
    /\ UNCHANGED <<seq, ring, clearedSeq>>

ClearRule ==
    /\ rule' = NoRule
    /\ rules' = RulesEnded("cleared")
    /\ UNCHANGED <<seq, ring, clearedSeq>>

\* clearRequests: in.seq goes on counting.
ClearRequests ==
    /\ ring' = << >>
    /\ clearedSeq' = seq
    /\ UNCHANGED <<seq, rule, rules>>

\* Seeded fault of List: the limit is applied before the path filter.
ListLimitFirst(limit, paths) ==
    LET newest == [i \in 1 .. (IF Len(ring) < limit THEN Len(ring) ELSE limit) |->
                      ring[Len(ring) + 1 - i]]
    IN  SelectSeq(newest, LAMBDA e : e.path \in paths)

\* Where the matching entries are.
Matching(paths) == {i \in DOMAIN ring : ring[i].path \in paths}

\* The k-th newest of them: k of them are as new as it or newer.
Newest(paths, k) ==
    CHOOSE i \in Matching(paths) : Cardinality({j \in Matching(paths) : j >= i}) = k

\* list: the newest matching entries, newest first, at most limit of them.
List(limit, paths) ==
    LET found == Cardinality(Matching(paths))
    IN  [k \in 1 .. (IF found < limit THEN found ELSE limit) |-> ring[Newest(paths, k)]]

InspectorNext ==
    \/ \E r \in Requests, p \in Paths : Record(r, p)
    \/ Active /\ Charge
    \/ \E status \in RuleStatuses, times \in RuleTimes, paths \in SUBSET Paths :
          Len(rules) < MaxRules /\ SetRule(status, times, paths)
    \/ ClearRule
    \/ ClearRequests

\* Every behaviour of the inspector's state, whoever calls it.
InspectorSpec == InspectorInit /\ [][InspectorNext]_inspector

-----------------------------------------------------------------------------
RuleRecord == [posted : Nat, spent : Nat,
               fate : {"active", "exhausted", "replaced", "cleared"}]

InspectorTypeOK ==
    /\ seq \in Nat
    /\ clearedSeq \in 0 .. seq
    /\ ring \in Seq(Entry)
    /\ rule \in Rule
    /\ rule.gen \in 0 .. Len(rules)
    /\ rules \in Seq(RuleRecord)

\* The ring is the window onto the numbered requests that list promises: the
\* last captureCap of those recorded since the last DELETE, none missing, none
\* twice, in order.
RingIsWindow ==
    /\ Len(ring) = IF seq - clearedSeq < RingCap THEN seq - clearedSeq ELSE RingCap
    /\ \A i \in 1 .. Len(ring) : ring[i].seq = seq - Len(ring) + i

\* Charges are exact (shouldFail): the rule in force has fired as often as its
\* hits say, and hits and remaining times add up to what was posted; a counted
\* rule ends by exhaustion after exactly its posted count, and ends in no other
\* way once that count is reached.
ChargesExact ==
    /\ Active =>
          /\ rules[rule.gen].fate = "active"
          /\ rule.hits = rules[rule.gen].spent
          /\ rules[rule.gen].posted = 0 => rule.times = 0
          /\ rules[rule.gen].posted > 0 =>
                rule.times > 0 /\ rule.times + rule.hits = rules[rule.gen].posted
    /\ \A g \in 1 .. Len(rules) :
          /\ rules[g].fate = "active" => Active /\ rule.gen = g
          /\ rules[g].posted > 0 =>
                (rules[g].fate = "exhausted" <=> rules[g].spent >= rules[g].posted)
          /\ rules[g].fate = "exhausted" => rules[g].spent = rules[g].posted

\* What GET /__mock/requests answers: matching entries of the ring, newest
\* first, and no matching entry is left out while an older one is shown or
\* room is left (list).
ListIsNewest(limits) ==
    \A limit \in limits, paths \in SUBSET Paths :
        LET out     == List(limit, paths)
            shown   == {out[i] : i \in 1 .. Len(out)}
            matches == {ring[i] : i \in {j \in 1 .. Len(ring) : ring[j].path \in paths}}
        IN  /\ shown \subseteq matches
            /\ \A i, j \in 1 .. Len(out) : i < j => out[i].seq > out[j].seq
            /\ \A e \in matches \ shown :
                  Len(out) = limit /\ \A f \in shown : e.seq < f.seq

\* It is so for limits below, at and above the size of the ring.
ListShowsNewest == ListIsNewest(1 .. RingCap + 1)
=============================================================================
