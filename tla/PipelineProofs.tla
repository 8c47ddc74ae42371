--------------------------- MODULE PipelineProofs ---------------------------
(***************************************************************************)
(* Theorems of the inspector, for every capacity of the ring and however   *)
(* many requests are recorded and rules posted, and of the request         *)
(* pipeline.  The pipeline drives the inspector through the inspector's    *)
(* own operations, so what is proved of the one holds of the other; a      *)
(* counted rule fails exactly as many requests as were asked for, however  *)
(* many goroutines judge at once, an unlimited one fails every request     *)
(* that arrives after it, and an answered request is in the list.          *)
(***************************************************************************)
EXTENDS RequestPipeline, CountingLemmas, SequenceTheorems, FiniteSetTheorems, TLAPS

-----------------------------------------------------------------------------
(* The inspector.  Its three facts are inductive together: the ring and    *)
(* the rule do not meet, and the typing of the history is what the charges *)
(* are counted in.                                                         *)

IInv == InspectorTypeOK /\ RingIsWindow /\ ChargesExact

-----------------------------------------------------------------------------
\* Trimming keeps the last RingCap elements in their order.
LEMMA TrimKeepsLast ==
    ASSUME NEW S, NEW s \in Seq(S)
    PROVE  /\ Trim(s) \in Seq(S)
           /\ Len(Trim(s)) = IF Len(s) > RingCap THEN RingCap ELSE Len(s)
           /\ \A i \in 1 .. Len(Trim(s)) : Trim(s)[i] = s[Len(s) - Len(Trim(s)) + i]
<1> USE RingAssumption
<1>1. /\ Len(s) \in Nat
      /\ \A i \in 1 .. Len(s) : s[i] \in S
  BY LenProperties, ElementOfSeq
<1>2. CASE Len(s) > RingCap
  <2> DEFINE m == Len(s) - RingCap + 1
  <2>1. /\ m \in Int /\ Len(s) \in Int
        /\ \A i \in m .. Len(s) : s[i] \in S
    BY <1>1, <1>2
  <2>2. /\ SubSeq(s, m, Len(s)) \in Seq(S)
        /\ Len(SubSeq(s, m, Len(s))) = IF m <= Len(s) THEN Len(s) - m + 1 ELSE 0
        /\ \A i \in 1 .. Len(s) - m + 1 : SubSeq(s, m, Len(s))[i] = s[m + i - 1]
    <3> HIDE DEF m
    <3> QED BY <2>1, SubSeqProperties
  <2>3. Trim(s) = SubSeq(s, m, Len(s))
    BY <1>2 DEF Trim
  <2>4. Len(s) - m + 1 = RingCap /\ m <= Len(s)
    BY <1>1, <1>2
  <2>5. \A i \in 1 .. RingCap : m + i - 1 = Len(s) - RingCap + i
    BY <1>1, <1>2
  <2> QED BY <1>2, <2>2, <2>3, <2>4, <2>5
<1>3. CASE ~(Len(s) > RingCap)
  BY <1>1, <1>3 DEF Trim
<1> QED BY <1>2, <1>3

LEMMA NoRuleTyped == NoRule \in Rule /\ NoRule.gen = 0
BY DEF NoRule, Rule

LEMMA InitIInv == InspectorInit => IInv
<1> SUFFICES ASSUME InspectorInit PROVE IInv
  OBVIOUS
<1> USE RingAssumption DEF InspectorInit
<1>1. /\ << >> \in Seq(Entry) /\ << >> \in Seq(RuleRecord)
      /\ Len(ring) = 0 /\ Len(rules) = 0
  BY EmptySeq
<1>2. InspectorTypeOK
  BY <1>1, NoRuleTyped DEF InspectorTypeOK
<1>3. RingIsWindow
  BY <1>1 DEF RingIsWindow
<1>4. ChargesExact
  BY <1>1, NoRuleTyped DEF ChargesExact, Active
<1> QED BY <1>2, <1>3, <1>4 DEF IInv

-----------------------------------------------------------------------------
(* The steps on the ring.                                                  *)

LEMMA RecordStep ==
    ASSUME IInv, NEW r \in Requests, NEW p \in Paths, Record(r, p)
    PROVE  IInv'
<1> USE RingAssumption DEF IInv
<1> DEFINE e == [seq |-> seq + 1, path |-> p, of |-> r]
           longer == Append(ring, e)
<1>1. /\ seq \in Nat /\ clearedSeq \in 0 .. seq
      /\ ring \in Seq(Entry) /\ Len(ring) \in Nat
      /\ e \in Entry
  BY LenProperties DEF InspectorTypeOK, Entry
<1>2. /\ longer \in Seq(Entry)
      /\ Len(longer) = Len(ring) + 1
      /\ \A i \in 1 .. Len(ring) : longer[i] = ring[i]
      /\ longer[Len(ring) + 1] = e
  <2> HIDE DEF e
  <2> QED BY <1>1, AppendProperties
<1>3. ring' = Trim(longer) /\ seq' = seq + 1 /\ UNCHANGED <<rule, clearedSeq, rules>>
  BY DEF Record
<1> HIDE DEF longer
<1>4. /\ ring' \in Seq(Entry)
      /\ Len(ring') = IF Len(ring) + 1 > RingCap THEN RingCap ELSE Len(ring) + 1
      /\ \A i \in 1 .. Len(ring') : ring'[i] = longer[Len(ring) + 1 - Len(ring') + i]
  BY <1>2, <1>3, TrimKeepsLast
<1>5. InspectorTypeOK'
  BY <1>1, <1>3, <1>4 DEF InspectorTypeOK
<1>6. RingIsWindow'
  <2>1. Len(ring') = IF seq' - clearedSeq' < RingCap THEN seq' - clearedSeq' ELSE RingCap
    BY <1>1, <1>3, <1>4 DEF RingIsWindow
  <2>2. ASSUME NEW i \in 1 .. Len(ring')
        PROVE  ring'[i].seq = seq' - Len(ring') + i
    <3> DEFINE j == Len(ring) + 1 - Len(ring') + i
    <3>1. j \in 1 .. Len(ring) + 1 /\ i = j - Len(ring) - 1 + Len(ring') /\ Len(ring') \in Nat
      BY <1>1, <1>4
    <3>2. longer[j].seq = seq - Len(ring) + j
      <4>1. CASE j \in 1 .. Len(ring)
        BY <1>1, <1>2, <4>1 DEF RingIsWindow
      <4>2. CASE j = Len(ring) + 1
        BY <1>1, <1>2, <4>2
      <4> QED BY <1>1, <3>1, <4>1, <4>2
    <3>3. ring'[i] = longer[j]
      BY <1>4
    <3>4. seq - Len(ring) + j = seq' - Len(ring') + i
      BY <1>1, <1>3, <3>1
    <3> QED BY <3>2, <3>3, <3>4
  <2> QED BY <2>1, <2>2 DEF RingIsWindow
<1>7. ChargesExact'
  BY <1>3 DEF ChargesExact, Active
<1> QED BY <1>5, <1>6, <1>7

LEMMA ClearRequestsStep ==
    ASSUME IInv, ClearRequests
    PROVE  IInv'
<1> USE RingAssumption DEF IInv, ClearRequests
<1>1. << >> \in Seq(Entry) /\ Len(ring') = 0
  BY EmptySeq
<1>2. InspectorTypeOK'
  BY <1>1 DEF InspectorTypeOK
<1>3. RingIsWindow'
  BY <1>1 DEF RingIsWindow, InspectorTypeOK
<1>4. ChargesExact'
  BY DEF ChargesExact, Active
<1> QED BY <1>2, <1>3, <1>4

-----------------------------------------------------------------------------
(* The steps on the rule.                                                  *)

LEMMA ChargeStep ==
    ASSUME IInv, Active, Charge
    PROVE  IInv'
<1> USE RingAssumption DEF IInv
<1> DEFINE g == rule.gen
           old == rules[g]
           new == [posted |-> old.posted, spent |-> old.spent + 1,
                   fate   |-> IF rule.times = 1 THEN "exhausted" ELSE "active"]
<1>1. /\ rule \in Rule /\ rules \in Seq(RuleRecord)
      /\ Len(rules) \in Nat /\ g \in 1 .. Len(rules)
      /\ old \in RuleRecord
  <2>1. rule \in Rule /\ rules \in Seq(RuleRecord) /\ g \in 0 .. Len(rules)
    BY DEF InspectorTypeOK
  <2>2. Len(rules) \in Nat /\ g # 0
    BY <2>1, LenProperties DEF Active
  <2> QED BY <2>1, <2>2, ElementOfSeq
<1>2. /\ new \in RuleRecord
      /\ new.posted = old.posted /\ new.spent = old.spent + 1
      /\ new.fate = IF rule.times = 1 THEN "exhausted" ELSE "active"
  BY <1>1 DEF RuleRecord
<1>3. rules' = [rules EXCEPT ![g] = new]
  BY DEF Charge
<1>4. /\ rules' \in Seq(RuleRecord)
      /\ Len(rules') = Len(rules)
      /\ \A k \in 1 .. Len(rules) : rules'[k] = IF k = g THEN new ELSE rules[k]
  <2> HIDE DEF new, g
  <2> QED BY <1>1, <1>2, <1>3, ExceptSeq
<1>5. /\ old.fate = "active" /\ rule.hits = old.spent
      /\ old.posted = 0 => rule.times = 0
      /\ old.posted > 0 => rule.times > 0 /\ rule.times + rule.hits = old.posted
  BY DEF ChargesExact
<1>6. /\ rule.gen \in Nat /\ rule.times \in Nat /\ rule.hits \in Nat
      /\ old.posted \in Nat /\ old.spent \in Nat
  BY <1>1 DEF Rule, RuleRecord
<1>7. /\ rule.times = 1 => rule' = NoRule
      /\ rule.times # 1 =>
            /\ rule' \in Rule
            /\ rule'.gen = g /\ rule'.hits = rule.hits + 1
            /\ rule'.times = IF rule.times > 0 THEN rule.times - 1 ELSE 0
  <2> DEFINE left == IF rule.times > 0 THEN rule.times - 1 ELSE rule.times
             next == [rule EXCEPT !.hits = rule.hits + 1, !.times = left]
  <2>1. rule' = IF rule.times = 1 THEN NoRule ELSE next
    BY DEF Charge
  <2>2. left \in Nat /\ left = IF rule.times > 0 THEN rule.times - 1 ELSE 0
    BY <1>6
  <2>3. rule.hits + 1 \in Nat
    BY <1>6
  <2>4. next \in Rule /\ next.gen = g /\ next.hits = rule.hits + 1 /\ next.times = left
    <3>1. rule \in Rule /\ left \in Nat /\ rule.hits + 1 \in Nat
      BY <1>1, <2>2, <2>3
    <3> HIDE DEF left, old, new
    <3> QED BY <3>1 DEF Rule
  <2> HIDE DEF left
  <2> HIDE DEF next
  <2> QED BY <2>1, <2>2, <2>4
<1>8. UNCHANGED <<seq, ring, clearedSeq>>
  BY DEF Charge
<1> HIDE DEF new, old
<1>9. InspectorTypeOK'
  <2>1. rule' \in Rule /\ rule'.gen \in 0 .. Len(rules')
    BY <1>1, <1>4, <1>6, <1>7, NoRuleTyped
  <2> QED BY <1>4, <1>8, <2>1 DEF InspectorTypeOK
<1>10. RingIsWindow'
  BY <1>8 DEF RingIsWindow
<1>11. ChargesExact'
  <2>1. ASSUME Active'
        PROVE  /\ rules'[rule'.gen].fate = "active"
               /\ rule'.hits = rules'[rule'.gen].spent
               /\ rules'[rule'.gen].posted = 0 => rule'.times = 0
               /\ rules'[rule'.gen].posted > 0 =>
                     /\ rule'.times > 0
                     /\ rule'.times + rule'.hits = rules'[rule'.gen].posted
    <3>1. rule.times # 1 /\ rule'.gen = g /\ rules'[g] = new
      BY <2>1, <1>1, <1>4, <1>7, NoRuleTyped DEF Active
    <3> QED BY <3>1, <1>2, <1>5, <1>6, <1>7
  <2>2. ASSUME NEW k \in 1 .. Len(rules')
        PROVE  /\ rules'[k].fate = "active" => Active' /\ rule'.gen = k
               /\ rules'[k].posted > 0 =>
                     (rules'[k].fate = "exhausted" <=> rules'[k].spent >= rules'[k].posted)
               /\ rules'[k].fate = "exhausted" => rules'[k].spent = rules'[k].posted
    <3>1. CASE k = g
      <4>1. rules'[k] = new
        BY <1>1, <1>4, <3>1
      <4>2. CASE rule.times = 1
        <5>1. old.posted > 0 /\ old.spent + 1 = old.posted
          BY <1>5, <1>6, <4>2
        <5> QED BY <4>1, <4>2, <5>1, <1>2, <1>6
      <4>3. CASE rule.times # 1
        <5>1. Active' /\ rule'.gen = k
          BY <1>7, <3>1, <4>3 DEF Active
        <5>2. new.fate = "active" /\ new.posted > 0 => new.spent < new.posted
          BY <1>2, <1>5, <1>6, <4>3
        <5> QED BY <4>1, <5>1, <5>2, <1>2, <1>5, <1>6, <4>3
      <4> QED BY <4>2, <4>3
    <3>2. CASE k # g
      <4>1. rules'[k] = rules[k] /\ k \in 1 .. Len(rules)
        BY <1>4, <3>2
      <4>2. rules[k].fate # "active"
        BY <3>2, <4>1 DEF ChargesExact
      <4> QED BY <4>1, <4>2 DEF ChargesExact
    <3> QED BY <3>1, <3>2
  <2> QED BY <2>1, <2>2 DEF ChargesExact
<1> QED BY <1>9, <1>10, <1>11

\* How a rule's end is written down.
LEMMA RulesEndedProperties ==
    ASSUME IInv, NEW fate \in {"replaced", "cleared"}
    PROVE  /\ RulesEnded(fate) \in Seq(RuleRecord)
           /\ Len(RulesEnded(fate)) = Len(rules) /\ Len(rules) \in Nat
           /\ \A k \in 1 .. Len(rules) :
                 LET x == RulesEnded(fate)[k]
                 IN  /\ x.fate # "active" /\ x.spent = rules[k].spent
                     /\ x.posted > 0 => (x.fate = "exhausted" <=> x.spent >= x.posted)
                     /\ x.fate = "exhausted" => x.spent = x.posted
<1> USE DEF IInv
<1>1. /\ rules \in Seq(RuleRecord) /\ rule \in Rule
      /\ rule.gen \in 0 .. Len(rules) /\ Len(rules) \in Nat
  BY LenProperties DEF InspectorTypeOK
<1>2. CASE ~Active
  BY <1>1, <1>2 DEF RulesEnded, ChargesExact
<1>3. CASE Active
  <2> DEFINE g == rule.gen
             old == rules[g]
             new == [old EXCEPT !.fate = fate]
  <2>1. g \in 1 .. Len(rules) /\ old \in RuleRecord
    <3>1. g \in 1 .. Len(rules)
      BY <1>1, <1>3 DEF Active
    <3> QED BY <1>1, <3>1, ElementOfSeq
  <2>2. /\ new \in RuleRecord /\ new.fate = fate
        /\ new.posted = old.posted /\ new.spent = old.spent
    BY <2>1 DEF RuleRecord
  <2>3. RulesEnded(fate) = [rules EXCEPT ![g] = new]
    BY <1>3 DEF RulesEnded
  <2>4. /\ RulesEnded(fate) \in Seq(RuleRecord)
        /\ Len(RulesEnded(fate)) = Len(rules)
        /\ \A k \in 1 .. Len(rules) :
              RulesEnded(fate)[k] = IF k = g THEN new ELSE rules[k]
    <3> HIDE DEF new, g
    <3> QED BY <1>1, <2>1, <2>2, <2>3, ExceptSeq
  <2>5. old.posted > 0 => old.spent < old.posted
    <3>1. /\ rule.hits = old.spent
          /\ old.posted > 0 => rule.times > 0 /\ rule.times + rule.hits = old.posted
      BY <1>3 DEF ChargesExact
    <3>2. rule.times \in Nat /\ rule.hits \in Nat /\ old.posted \in Nat
      BY <1>1, <2>1 DEF Rule, RuleRecord
    <3> QED BY <3>1, <3>2
  <2>6. old.posted \in Nat /\ old.spent \in Nat /\ old = rules[g]
    BY <2>1 DEF RuleRecord
  <2> HIDE DEF new, old
  <2>7. ASSUME NEW k \in 1 .. Len(rules)
        PROVE  LET x == RulesEnded(fate)[k]
               IN  /\ x.fate # "active" /\ x.spent = rules[k].spent
                   /\ x.posted > 0 => (x.fate = "exhausted" <=> x.spent >= x.posted)
                   /\ x.fate = "exhausted" => x.spent = x.posted
    <3>1. CASE k = g
      BY <2>2, <2>4, <2>5, <2>6, <3>1
    <3>2. CASE k # g
      <4>1. rules[k].fate # "active"
        BY <3>2 DEF ChargesExact
      <4> QED BY <2>4, <3>2, <4>1 DEF ChargesExact
    <3> QED BY <3>1, <3>2
  <2> QED BY <1>1, <2>4, <2>7
<1> QED BY <1>2, <1>3

LEMMA SetRuleStep ==
    ASSUME IInv, NEW status \in RuleStatuses, NEW times \in RuleTimes,
           NEW paths \in SUBSET Paths, SetRule(status, times, paths)
    PROVE  IInv'
<1> DEFINE ended == RulesEnded("replaced")
           fresh == [posted |-> times, spent |-> 0, fate |-> "active"]
           n     == Len(rules)
<1>1. /\ ended \in Seq(RuleRecord) /\ Len(ended) = n /\ n \in Nat
      /\ \A k \in 1 .. n :
            /\ ended[k].fate # "active"
            /\ ended[k].posted > 0 =>
                  (ended[k].fate = "exhausted" <=> ended[k].spent >= ended[k].posted)
            /\ ended[k].fate = "exhausted" => ended[k].spent = ended[k].posted
  BY RulesEndedProperties
<1>2. fresh \in RuleRecord /\ times \in Nat /\ status \in 100 .. 599
  BY RuleAssumption DEF RuleRecord
<1>3. /\ rules' = Append(ended, fresh)
      /\ rule' = [gen |-> n + 1, status |-> status, times |-> times,
                  hits |-> 0, paths |-> paths]
      /\ UNCHANGED <<seq, ring, clearedSeq>>
  BY DEF SetRule
<1>4. /\ rules' \in Seq(RuleRecord) /\ Len(rules') = n + 1
      /\ \A k \in 1 .. n : rules'[k] = ended[k]
      /\ rules'[n + 1] = fresh
  <2> HIDE DEF ended, fresh, n
  <2> QED BY <1>1, <1>2, <1>3, AppendProperties
<1>5. rule' \in Rule /\ rule'.gen = n + 1 /\ Active'
  BY <1>1, <1>2, <1>3 DEF Rule, Active
<1> HIDE DEF ended, n
<1>6. InspectorTypeOK'
  BY <1>1, <1>3, <1>4, <1>5 DEF IInv, InspectorTypeOK
<1>7. RingIsWindow'
  BY <1>3 DEF IInv, RingIsWindow
<1>8. ChargesExact'
  <2>1. /\ rules'[rule'.gen] = fresh /\ rule'.hits = 0 /\ rule'.times = times
    BY <1>3, <1>4, <1>5
  <2>2. ASSUME NEW k \in 1 .. Len(rules')
        PROVE  /\ rules'[k].fate = "active" => Active' /\ rule'.gen = k
               /\ rules'[k].posted > 0 =>
                     (rules'[k].fate = "exhausted" <=> rules'[k].spent >= rules'[k].posted)
               /\ rules'[k].fate = "exhausted" => rules'[k].spent = rules'[k].posted
    <3>1. CASE k \in 1 .. n
      BY <1>1, <1>4, <3>1
    <3>2. CASE k = n + 1
      BY <1>2, <1>4, <1>5, <3>2
    <3> QED BY <1>1, <1>4, <3>1, <3>2
  <2> QED BY <1>2, <1>5, <2>1, <2>2 DEF ChargesExact
<1> QED BY <1>6, <1>7, <1>8 DEF IInv

LEMMA ClearRuleStep ==
    ASSUME IInv, ClearRule
    PROVE  IInv'
<1> DEFINE ended == RulesEnded("cleared")
<1>1. /\ ended \in Seq(RuleRecord) /\ Len(ended) = Len(rules) /\ Len(rules) \in Nat
      /\ \A k \in 1 .. Len(rules) :
            /\ ended[k].fate # "active"
            /\ ended[k].posted > 0 =>
                  (ended[k].fate = "exhausted" <=> ended[k].spent >= ended[k].posted)
            /\ ended[k].fate = "exhausted" => ended[k].spent = ended[k].posted
  BY RulesEndedProperties
<1>2. rules' = ended /\ rule' = NoRule /\ UNCHANGED <<seq, ring, clearedSeq>>
  BY DEF ClearRule
<1>3. ~Active'
  BY <1>2, NoRuleTyped DEF Active
<1> HIDE DEF ended
<1>4. InspectorTypeOK'
  BY <1>1, <1>2, NoRuleTyped DEF IInv, InspectorTypeOK
<1>5. RingIsWindow'
  BY <1>2 DEF IInv, RingIsWindow
<1>6. ChargesExact'
  BY <1>1, <1>2, <1>3 DEF ChargesExact
<1> QED BY <1>4, <1>5, <1>6 DEF IInv

-----------------------------------------------------------------------------
LEMMA NextIInv == IInv /\ [InspectorNext]_inspector => IInv'
<1> SUFFICES ASSUME IInv, [InspectorNext]_inspector PROVE IInv'
  OBVIOUS
<1>1. CASE \E r \in Requests, p \in Paths : Record(r, p)
  BY <1>1, RecordStep
<1>2. CASE Active /\ Charge
  BY <1>2, ChargeStep
<1>3. CASE \E status \in RuleStatuses, times \in RuleTimes, paths \in SUBSET Paths :
              Len(rules) < MaxRules /\ SetRule(status, times, paths)
  BY <1>3, SetRuleStep
<1>4. CASE ClearRule
  BY <1>4, ClearRuleStep
<1>5. CASE ClearRequests
  BY <1>5, ClearRequestsStep
<1>6. CASE UNCHANGED inspector
  BY <1>6 DEF inspector, IInv, InspectorTypeOK, RingIsWindow, ChargesExact, Active
<1> QED BY <1>1, <1>2, <1>3, <1>4, <1>5, <1>6 DEF InspectorNext

\* The inductive invariant holds throughout.
THEOREM InspectorInvariance == InspectorSpec => []IInv
BY InitIInv, NextIInv, PTL DEF InspectorSpec

\* The ring is always the window onto the last RingCap requests recorded since
\* the last DELETE, whatever RingCap is.
THEOREM RingAlwaysWindow == InspectorSpec => []RingIsWindow
<1>1. IInv => RingIsWindow
  BY DEF IInv
<1> QED BY <1>1, InspectorInvariance, PTL

\* A rule never fires more often than posted, and is gone exactly when it has
\* fired as often, whatever rules are posted, replaced and cleared.
THEOREM ChargesAlwaysExact == InspectorSpec => []ChargesExact
<1>1. IInv => ChargesExact
  BY DEF IInv
<1> QED BY <1>1, InspectorInvariance, PTL

\* The positions of the matching entries have a k-th newest, and no two of them
\* are it.
LEMMA NewestFound ==
    ASSUME ring \in Seq(Entry), NEW paths
    PROVE  LET hits == Matching(paths)
               n    == Cardinality(hits)
               Place(i) == Cardinality({j \in hits : j >= i})
           IN  /\ n \in Nat
               /\ \A k \in 1 .. n : Newest(paths, k) \in hits /\ Place(Newest(paths, k)) = k
               /\ \A i \in hits : Place(i) \in 1 .. n /\ Newest(paths, Place(i)) = i
               /\ \A i, j \in hits : Place(i) < Place(j) => i > j
<1> DEFINE hits == Matching(paths)
           n    == Cardinality(hits)
           Place(i) == Cardinality({j \in hits : j >= i})
           Later == {p \in hits \X hits : p[1] > p[2]}
<1>1. hits \in SUBSET (1 .. Len(ring)) /\ Len(ring) \in Nat
  BY LenProperties DEF Matching
<1>2. IsFiniteSet(hits) /\ n \in Nat
  <2>1. IsFiniteSet(1 .. Len(ring))
    BY <1>1, FS_Interval
  <2> HIDE DEF hits
  <2> QED BY <1>1, <2>1, FS_Subset, FS_CardinalityType
<1> HIDE DEF hits
<1>3. Lines(Later, hits)
  BY <1>1 DEF Lines
<1>4. ASSUME NEW i \in hits PROVE Rank(Later, hits, i) = Place(i)
  <2>0. \A j \in hits : (j = i \/ <<j, i>> \in Later) <=> j >= i
    BY <1>1
  <2>1. {j \in hits : j = i \/ <<j, i>> \in Later} = {j \in hits : j >= i}
    <3> HIDE DEF Later
    <3> QED BY <2>0
  <2> QED BY <2>1 DEF Rank
<1>5. ASSUME NEW i \in hits, NEW j \in hits, <<i, j>> \in Later PROVE Place(i) < Place(j)
  <2> HIDE DEF Place, Later
  <2> QED BY <1>2, <1>3, <1>4, <1>5, RankGrows
<1>6. /\ \A i \in hits : Place(i) \in 1 .. n
      /\ \A k \in 1 .. n : \E i \in hits : Place(i) = k
      /\ \A i, j \in hits : Place(i) = Place(j) => i = j
  <2> HIDE DEF Place, Later
  <2> QED BY <1>2, <1>3, <1>4, RanksCover
<1>7. \A k : Newest(paths, k) = CHOOSE i \in hits : Place(i) = k
  BY DEF Newest, hits
<1>8. ASSUME NEW i \in hits, NEW j \in hits, Place(i) < Place(j) PROVE i > j
  <2>1. i # j /\ ~(j > i)
    <3> HIDE DEF Place
    <3>1. Place(i) \in Nat /\ Place(j) \in Nat
      BY <1>2, <1>6
    <3>2. j > i => Place(j) < Place(i)
      BY <1>5
    <3> QED BY <1>8, <3>1, <3>2
  <2> QED BY <1>1, <2>1
<1> HIDE DEF Place
<1>9. ASSUME NEW k \in 1 .. n
      PROVE  Newest(paths, k) \in hits /\ Place(Newest(paths, k)) = k
  BY <1>6, <1>7
<1>10. ASSUME NEW i \in hits PROVE Newest(paths, Place(i)) = i
  BY <1>6, <1>9
<1> QED BY <1>2, <1>6, <1>8, <1>9, <1>10 DEF hits, Place

\* list answers with the newest matching entries, for every limit.
LEMMA ListsNewest ==
    ASSUME InspectorTypeOK, RingIsWindow
    PROVE  ListIsNewest(Nat)
<1> SUFFICES ASSUME NEW limit \in Nat, NEW paths \in SUBSET Paths
             PROVE  LET out     == List(limit, paths)
                        shown   == {out[i] : i \in 1 .. Len(out)}
                        matches == {ring[i] : i \in {j \in 1 .. Len(ring) : ring[j].path \in paths}}
                    IN  /\ shown \subseteq matches
                        /\ \A i, j \in 1 .. Len(out) : i < j => out[i].seq > out[j].seq
                        /\ \A e \in matches \ shown :
                              Len(out) = limit /\ \A f \in shown : e.seq < f.seq
  BY DEF ListIsNewest
<1> DEFINE out     == List(limit, paths)
           shown   == {out[i] : i \in 1 .. Len(out)}
           hits    == Matching(paths)
           n       == Cardinality(hits)
           count   == IF n < limit THEN n ELSE limit
           matches == {ring[i] : i \in hits}
           Place(i) == Cardinality({j \in hits : j >= i})
           at(k) == Newest(paths, k)
<1>1. /\ ring \in Seq(Entry) /\ Len(ring) \in Nat
      /\ hits = {j \in 1 .. Len(ring) : ring[j].path \in paths}
  BY LenProperties DEF InspectorTypeOK, Matching
<1>2. /\ n \in Nat
      /\ \A k \in 1 .. n : at(k) \in hits /\ Place(at(k)) = k
      /\ \A i \in hits : Place(i) \in 1 .. n /\ at(Place(i)) = i
      /\ \A i, j \in hits : Place(i) < Place(j) => i > j
  BY <1>1, NewestFound
<1>3. count \in Nat /\ count <= n /\ out = [k \in 1 .. count |-> ring[at(k)]]
  BY <1>2 DEF List
<1>4. \A i, j \in hits : i > j => ring[i].seq > ring[j].seq
  <2>1. seq \in Nat /\ \A i \in hits : i \in 1 .. Len(ring)
    BY <1>1 DEF InspectorTypeOK
  <2> QED BY <1>1, <2>1 DEF RingIsWindow
<1> HIDE DEF hits, n, Place, at
<1>5. Len(out) = count /\ \A k \in 1 .. count : out[k] = ring[at(k)]
  <2> HIDE DEF count, out
  <2> QED BY <1>3
<1>6. n < limit => count = n
  BY <1>2
<1>7. ~(n < limit) => count = limit
  OBVIOUS
<1> HIDE DEF out, count
<1>8. shown \subseteq matches
  BY <1>2, <1>3, <1>5
<1>9. ASSUME NEW i \in 1 .. Len(out), NEW j \in 1 .. Len(out), i < j
      PROVE  out[i].seq > out[j].seq
  <2>1. i \in 1 .. n /\ j \in 1 .. n /\ i \in 1 .. count /\ j \in 1 .. count
    BY <1>2, <1>3, <1>5
  <2>2. at(i) \in hits /\ at(j) \in hits /\ at(i) > at(j)
    BY <1>2, <1>9, <2>1
  <2> QED BY <1>4, <1>5, <2>1, <2>2
<1>10. ASSUME NEW e \in matches \ shown
       PROVE  Len(out) = limit /\ \A f \in shown : e.seq < f.seq
  <2>1. PICK p \in hits : e = ring[p]
    OBVIOUS
  <2>2. Place(p) \in 1 .. n /\ at(Place(p)) = p
    BY <1>2
  <2>3. Place(p) \notin 1 .. count
    BY <1>5, <1>10, <2>1, <2>2
  <2>4. count < Place(p)
    BY <1>2, <1>3, <2>2, <2>3
  <2>5. Len(out) = limit
    BY <1>2, <1>3, <1>5, <1>6, <1>7, <2>2, <2>4
  <2>6. ASSUME NEW f \in shown PROVE e.seq < f.seq
    <3>1. PICK k \in 1 .. count : f = ring[at(k)]
      BY <1>5
    <3>2. k \in 1 .. n /\ k < Place(p)
      BY <1>2, <1>3, <2>2, <2>4, <3>1
    <3>3. at(k) \in hits /\ at(k) > p
      BY <1>2, <3>2
    <3>4. ring[at(k)].seq > ring[p].seq
      BY <1>4, <3>3
    <3>5. ring[at(k)].seq \in Nat /\ ring[p].seq \in Nat
      <4>1. at(k) \in 1 .. Len(ring) /\ p \in 1 .. Len(ring)
        BY <1>1, <3>3
      <4>2. ring[at(k)] \in Entry /\ ring[p] \in Entry
        BY <1>1, <4>1, ElementOfSeq
      <4> QED BY <4>2 DEF Entry
    <3> QED BY <2>1, <3>1, <3>4, <3>5
  <2> QED BY <2>5, <2>6
<1> QED BY <1>1, <1>8, <1>9, <1>10 DEF out

\* What GET /__mock/requests shows is the newest of what matches, whatever the
\* capacity of the ring and the limit asked for.
THEOREM ListAlwaysNewest == InspectorSpec => []ListShowsNewest
<1>1. IInv => ListShowsNewest
  <2>1. IInv => ListIsNewest(Nat)
    BY ListsNewest DEF IInv
  <2>2. 1 .. RingCap + 1 \subseteq Nat
    BY RingAssumption
  <2> QED BY <2>1, <2>2 DEF ListIsNewest, ListShowsNewest
<1> QED BY <1>1, InspectorInvariance, PTL

-----------------------------------------------------------------------------
(* The pipeline.                                                           *)

\* The requests that a rule has failed.
Failed(g) == {r \in Requests : forcedBy[r] = g}

\* A request is failed by a rule in its last step only.
Unforced == \A r \in Requests : pc[r] # "done" => forcedBy[r] = 0

\* The charges of a rule are requests, one each.
ChargesAreRequests ==
    \A g \in 1 .. Len(rules) : Cardinality(Failed(g)) = rules[g].spent

PInv == TypeOK /\ IInv /\ Unforced /\ ChargesAreRequests

-----------------------------------------------------------------------------
LEMMA StepUsesInspector ==
    ASSUME TypeOK, [Next]_vars
    PROVE  [InspectorNext]_inspector
<1> USE PipelineAssumption DEF TypeOK
<1>1. ASSUME NEW r \in Requests, Arrive(r) \/ Handle(r)
      PROVE  [InspectorNext]_inspector
  <2>1. CASE Capture(r)
    BY <2>1 DEF Capture, InspectorNext
  <2>2. CASE Judge(r)
    BY <2>2 DEF Judge, Fires, InspectorNext
  <2>3. CASE Arrive(r) \/ Authorize(r) \/ Serve(r) \/ Complete(r) \/ ClientGone(r)
    BY <2>3 DEF Arrive, Authorize, Serve, Complete, ClientGone
  <2> QED BY <1>1, <2>1, <2>2, <2>3 DEF Handle
<1>2. ASSUME NEW status \in PostedStatuses, NEW times \in PostedTimes,
             NEW paths \in PostedFilters, PostBehavior(status, times, paths)
      PROVE  [InspectorNext]_inspector
  <2> DEFINE effective == IF status = 0 THEN 500 ELSE status
  <2>1. /\ Len(rules) < MaxRules /\ SetRule(effective, times, paths)
        /\ effective \in 100 .. 599 /\ times >= 0
    BY <1>2 DEF PostBehavior
  <2>2. effective \in RuleStatuses /\ times \in RuleTimes /\ paths \in SUBSET Paths
    BY <2>1
  <2> HIDE DEF effective
  <2> QED BY <2>1, <2>2 DEF InspectorNext
<1>3. CASE DeleteBehavior \/ DeleteRequests
  BY <1>3 DEF DeleteBehavior, DeleteRequests, InspectorNext
<1>4. CASE UNCHANGED vars
  BY <1>4 DEF vars
<1> QED BY <1>1, <1>2, <1>3, <1>4 DEF Next

\* The inspector's counters only grow.
LEMMA CountersGrow ==
    ASSUME IInv, [InspectorNext]_inspector
    PROVE  /\ seq \in Nat /\ seq' \in Nat /\ seq <= seq'
           /\ Len(rules) \in Nat /\ Len(rules') \in Nat /\ Len(rules) <= Len(rules')
<1>1. IInv'
  BY NextIInv
<1>2. seq \in Nat /\ seq' \in Nat /\ Len(rules) \in Nat /\ Len(rules') \in Nat
  BY <1>1, LenProperties DEF IInv, InspectorTypeOK
<1>3. CASE \E r \in Requests, p \in Paths : Record(r, p)
  BY <1>2, <1>3 DEF Record
<1>4. CASE Active /\ Charge
  <2>1. seq' = seq /\ \E x : rules' = [rules EXCEPT ![rule.gen] = x]
    BY <1>4 DEF Charge
  <2>2. DOMAIN rules = 1 .. Len(rules) /\ DOMAIN rules' = 1 .. Len(rules')
    BY <1>1, LenProperties DEF IInv, InspectorTypeOK
  <2>3. DOMAIN rules' = DOMAIN rules
    BY <2>1
  <2> QED BY <1>2, <2>1, <2>2, <2>3
<1>5. ASSUME NEW status, NEW times, NEW paths, SetRule(status, times, paths)
      PROVE  seq' = seq /\ Len(rules) <= Len(rules')
  <2> DEFINE fresh == [posted |-> times, spent |-> 0, fate |-> "active"]
             ended == RulesEnded("replaced")
  <2>1. rules' = Append(ended, fresh) /\ seq' = seq
    BY <1>5 DEF SetRule
  <2>2. ended \in Seq(RuleRecord) /\ Len(ended) = Len(rules)
    BY RulesEndedProperties
  <2>3. Len(Append(ended, fresh)) = Len(ended) + 1
    <3> HIDE DEF ended, fresh
    <3>1. ended \in Seq(RuleRecord \cup {fresh})
      BY <2>2, SeqMonotonic
    <3> QED BY <3>1, AppendProperties
  <2> HIDE DEF ended
  <2> QED BY <1>2, <2>1, <2>2, <2>3
<1>6. CASE ClearRule
  <2>1. rules' = RulesEnded("cleared") /\ seq' = seq
    BY <1>6 DEF ClearRule
  <2>2. Len(RulesEnded("cleared")) = Len(rules)
    BY RulesEndedProperties
  <2> QED BY <1>2, <2>1, <2>2
<1>7. CASE ClearRequests \/ UNCHANGED inspector
  BY <1>2, <1>7 DEF ClearRequests, inspector
<1> QED BY <1>2, <1>3, <1>4, <1>5, <1>6, <1>7 DEF InspectorNext

-----------------------------------------------------------------------------
LEMMA InitPInv == Init => PInv
<1> SUFFICES ASSUME Init PROVE PInv
  OBVIOUS
<1> USE DEF Init
<1>1. IInv /\ InspectorTypeOK /\ Len(rules) = 0 /\ seq = 0
  <2>1. IInv
    BY InitIInv
  <2> QED BY <2>1, EmptySeq DEF IInv, InspectorInit
<1>2. TypeOK
  BY <1>1 DEF TypeOK, Steps, Outcomes
<1>3. Unforced
  BY DEF Unforced
<1>4. ChargesAreRequests
  BY <1>1 DEF ChargesAreRequests
<1> QED BY <1>1, <1>2, <1>3, <1>4 DEF PInv

LEMMA TypeStep ==
    ASSUME PInv, [Next]_vars
    PROVE  TypeOK' /\ IInv'
<1> USE DEF PInv
<1>1. [InspectorNext]_inspector
  BY StepUsesInspector
<1>2. IInv' /\ InspectorTypeOK'
  BY <1>1, NextIInv DEF IInv
<1>3. /\ seq \in Nat /\ seq' \in Nat /\ seq <= seq'
      /\ Len(rules) \in Nat /\ Len(rules') \in Nat /\ Len(rules) <= Len(rules')
  BY <1>1, CountersGrow
<1>4. 0 .. seq \subseteq 0 .. seq' /\ 0 .. Len(rules) \subseteq 0 .. Len(rules')
  BY <1>3
<1>5. rule.gen \in 0 .. Len(rules)
  BY DEF TypeOK, InspectorTypeOK
<1>6. ASSUME NEW r \in Requests, Arrive(r) \/ Handle(r)
      PROVE  TypeOK'
  <2> USE DEF Goto, Answer, Steps, Outcomes
  <2>1. CASE Arrive(r)
    BY <1>2, <1>4, <1>5, <2>1 DEF Arrive, TypeOK
  <2>2. CASE Capture(r)
    <3>1. seq + 1 \in 0 .. seq'
      BY <1>3, <2>2 DEF Capture, Record
    <3>2. captured' \in [Requests -> 0 .. seq']
      BY <1>4, <2>2, <3>1 DEF Capture, TypeOK
    <3> QED BY <1>2, <1>4, <2>2, <3>2 DEF Capture, TypeOK
  <2>3. CASE Judge(r)
    BY <1>2, <1>4, <1>5, <2>3 DEF Judge, TypeOK
  <2>4. CASE Authorize(r)
    BY <1>2, <1>4, <2>4 DEF Authorize, TypeOK
  <2>5. CASE Serve(r)
    <3>1. /\ UNCHANGED <<inspector, path, captured, forcedBy, due>>
          /\ globalSeq' = globalSeq + 1
          /\ \/ pc' = [pc EXCEPT ![r] = "done"] /\ outcome' = [outcome EXCEPT ![r] = "injected"]
             \/ pc' = [pc EXCEPT ![r] = "sleep"] /\ outcome' = outcome
      BY <2>5 DEF Serve
    <3>0. /\ pc \in [Requests -> Steps] /\ outcome \in [Requests -> Outcomes]
          /\ globalSeq \in Nat
      BY DEF TypeOK
    <3>2. /\ pc' \in [Requests -> Steps] /\ outcome' \in [Requests -> Outcomes]
          /\ globalSeq' \in Nat
      <4>1. globalSeq' \in Nat
        BY <3>0, <3>1
      <4>2. pc' \in [Requests -> Steps]
        BY <3>0, <3>1
      <4>3. outcome' \in [Requests -> Outcomes]
        BY <3>0, <3>1
      <4> QED BY <4>1, <4>2, <4>3
    <3>3. UNCHANGED <<seq, rules>>
      BY <3>1 DEF inspector
    <3> QED BY <1>2, <3>1, <3>2, <3>3 DEF PInv, TypeOK
  <2>6. CASE Complete(r) \/ ClientGone(r)
    <3>1. /\ UNCHANGED <<inspector, path, globalSeq, captured, forcedBy, due>>
          /\ pc' = [pc EXCEPT ![r] = "done"]
          /\ \E what \in {"ok", "gone"} : outcome' = [outcome EXCEPT ![r] = what]
      BY <2>6 DEF Complete, ClientGone
    <3>0. pc \in [Requests -> Steps] /\ outcome \in [Requests -> Outcomes]
      BY DEF TypeOK
    <3>2. pc' \in [Requests -> Steps]
      BY <3>0, <3>1
    <3>3. outcome' \in [Requests -> Outcomes]
      BY <3>0, <3>1
    <3>4. UNCHANGED <<seq, rules>>
      BY <3>1 DEF inspector
    <3> QED BY <1>2, <3>1, <3>2, <3>3, <3>4 DEF TypeOK
  <2> QED BY <1>6, <2>1, <2>2, <2>3, <2>4, <2>5, <2>6 DEF Handle
<1>7. CASE \/ \E status \in PostedStatuses, times \in PostedTimes, paths \in PostedFilters :
                PostBehavior(status, times, paths)
           \/ DeleteBehavior \/ DeleteRequests \/ UNCHANGED vars
  <2>1. UNCHANGED pipeline
    BY <1>7 DEF PostBehavior, DeleteBehavior, DeleteRequests, vars
  <2> QED BY <1>2, <1>4, <2>1 DEF pipeline, TypeOK
<1> QED BY <1>2, <1>6, <1>7 DEF Next

\* A step that touches neither the forced requests nor what was spent.
LEMMA ChargesKept ==
    ASSUME PInv, UNCHANGED <<rules, forcedBy>>
    PROVE  ChargesAreRequests'
BY DEF PInv, ChargesAreRequests, Failed

LEMMA JudgeCharges ==
    ASSUME PInv, NEW r \in Requests, Judge(r)
    PROVE  ChargesAreRequests'
<1> USE DEF PInv
<1>1. CASE ~Fires(path[r])
  BY <1>1, ChargesKept DEF Judge, inspector
<1>2. CASE Fires(path[r])
  <2>0. rule.gen \in 1 .. Len(rules) /\ Len(rules) \in Nat
    BY <1>2, LenProperties DEF IInv, InspectorTypeOK, Fires, Active
  <2>1. PICK g \in 1 .. Len(rules) : g = rule.gen
    BY <2>0
  <2> DEFINE new == [posted |-> rules[g].posted, spent |-> rules[g].spent + 1,
                     fate |-> IF rule.times = 1 THEN "exhausted" ELSE "active"]
  <2>2. /\ rules' = [rules EXCEPT ![g] = new]
        /\ forcedBy' = [forcedBy EXCEPT ![r] = g]
        /\ forcedBy[r] = 0
    BY <1>2, <2>1 DEF Judge, Charge, Unforced
  <2>3. /\ DOMAIN rules = 1 .. Len(rules)
        /\ DOMAIN rules' = 1 .. Len(rules')
        /\ Len(rules') \in Nat
    <3>1. rules \in Seq(RuleRecord) /\ rules' \in Seq(RuleRecord)
      <4>1. [Next]_vars
        BY DEF Next, Handle
      <4> QED BY <4>1, TypeStep DEF IInv, InspectorTypeOK
    <3> QED BY <3>1, LenProperties
  <2>4. Len(rules') = Len(rules)
    BY <2>0, <2>2, <2>3
  <2>5. /\ Failed(g)' = Failed(g) \cup {r} /\ r \notin Failed(g)
        /\ \A k \in 1 .. Len(rules) : k # g => Failed(k)' = Failed(k)
    BY <2>1, <2>2 DEF Failed, TypeOK
  <2>6. Cardinality(Failed(g)') = Cardinality(Failed(g)) + 1
    <3>1. IsFiniteSet(Failed(g))
      BY FS_Subset, PipelineAssumption DEF Failed
    <3> QED BY <2>5, <3>1, FS_AddElement
  <2>7. rules'[g].spent = rules[g].spent + 1
    BY <2>1, <2>2, <2>3
  <2>8. \A k \in 1 .. Len(rules) : k # g => rules'[k] = rules[k]
    BY <2>2, <2>3
  <2>9. ASSUME NEW k \in 1 .. Len(rules)
        PROVE  Cardinality(Failed(k)') = rules'[k].spent
    <3>1. Cardinality(Failed(k)) = rules[k].spent
      BY DEF ChargesAreRequests
    <3> HIDE DEF new, PInv
    <3>2. CASE k = g
      BY <2>6, <2>7, <3>1, <3>2
    <3>3. CASE k # g
      BY <2>5, <2>8, <3>1, <3>3
    <3> QED BY <3>2, <3>3
  <2> QED BY <2>4, <2>9 DEF ChargesAreRequests, Failed
<1> QED BY <1>1, <1>2

LEMMA PostCharges ==
    ASSUME PInv, NEW status, NEW times \in Nat, NEW paths,
           SetRule(status, times, paths), UNCHANGED pipeline
    PROVE  ChargesAreRequests'
<1> DEFINE ended == RulesEnded("replaced")
           fresh == [posted |-> times, spent |-> 0, fate |-> "active"]
<1>1. /\ ended \in Seq(RuleRecord) /\ Len(ended) = Len(rules) /\ Len(rules) \in Nat
      /\ \A k \in 1 .. Len(rules) : ended[k].spent = rules[k].spent
  BY RulesEndedProperties DEF PInv
<1>2. fresh \in RuleRecord
  BY DEF RuleRecord
<1>3. rules' = Append(ended, fresh) /\ forcedBy' = forcedBy
  BY DEF SetRule, pipeline
<1> HIDE DEF ended
<1>4. /\ Len(rules') = Len(rules) + 1
      /\ \A k \in 1 .. Len(rules) : rules'[k] = ended[k]
      /\ rules'[Len(rules) + 1].spent = 0
  <2>1. fresh.spent = 0
    OBVIOUS
  <2> HIDE DEF fresh
  <2> QED BY <1>1, <1>2, <1>3, <2>1, AppendProperties
<1>5. Failed(Len(rules) + 1) = {}
  BY <1>1 DEF PInv, TypeOK, Failed
<1>6. \A k : Failed(k)' = Failed(k)
  BY <1>3 DEF Failed
<1>7. ASSUME NEW k \in 1 .. Len(rules')
      PROVE  Cardinality(Failed(k)') = rules'[k].spent
  <2>1. CASE k \in 1 .. Len(rules)
    BY <1>1, <1>4, <1>6, <2>1 DEF PInv, ChargesAreRequests
  <2>2. CASE k = Len(rules) + 1
    BY <1>4, <1>5, <1>6, <2>2, FS_EmptySet
  <2> QED BY <1>1, <1>4, <2>1, <2>2
<1> QED BY <1>7 DEF ChargesAreRequests, Failed

LEMMA ClearCharges ==
    ASSUME PInv, ClearRule, UNCHANGED pipeline
    PROVE  ChargesAreRequests'
<1>1. /\ Len(RulesEnded("cleared")) = Len(rules)
      /\ \A k \in 1 .. Len(rules) : RulesEnded("cleared")[k].spent = rules[k].spent
  BY RulesEndedProperties DEF PInv
<1>2. rules' = RulesEnded("cleared") /\ forcedBy' = forcedBy
  BY DEF ClearRule, pipeline
<1> QED BY <1>1, <1>2 DEF PInv, ChargesAreRequests, Failed

-----------------------------------------------------------------------------
LEMMA NextPInv == PInv /\ [Next]_vars => PInv'
<1> SUFFICES ASSUME PInv, [Next]_vars PROVE PInv'
  OBVIOUS
<1>1. TypeOK' /\ IInv'
  BY TypeStep
<1>2. ASSUME NEW r \in Requests, Arrive(r) \/ Handle(r)
      PROVE  Unforced' /\ ChargesAreRequests'
  <2> USE DEF PInv, TypeOK, Goto, Answer
  <2>1. CASE Judge(r)
    <3>1. Unforced'
      BY <2>1 DEF Judge, Unforced
    <3> QED BY <2>1, <3>1, JudgeCharges
  <2>2. CASE Arrive(r) \/ Capture(r) \/ Authorize(r) \/ Serve(r) \/ Complete(r) \/ ClientGone(r)
    <3>1. /\ UNCHANGED <<rules, forcedBy>>
          /\ pc[r] # "done"
          /\ \A q \in Requests : q # r => pc'[q] = pc[q]
      <4>1. CASE Arrive(r) BY <4>1 DEF Arrive, inspector
      <4>2. CASE Capture(r) BY <4>2 DEF Capture, Record
      <4>3. CASE Authorize(r) BY <4>3 DEF Authorize, inspector
      <4>4. CASE Serve(r) BY <4>4 DEF Serve, inspector
      <4>5. CASE Complete(r) BY <4>5 DEF Complete, inspector
      <4>6. CASE ClientGone(r) BY <4>6 DEF ClientGone, inspector
      <4> QED BY <2>2, <4>1, <4>2, <4>3, <4>4, <4>5, <4>6
    <3>2. Unforced'
      BY <3>1 DEF Unforced
    <3> QED BY <3>1, <3>2, ChargesKept
  <2> QED BY <1>2, <2>1, <2>2 DEF Handle
<1>3. ASSUME NEW status \in PostedStatuses, NEW times \in PostedTimes,
             NEW paths \in PostedFilters, PostBehavior(status, times, paths)
      PROVE  Unforced' /\ ChargesAreRequests'
  <2> DEFINE effective == IF status = 0 THEN 500 ELSE status
  <2>1. SetRule(effective, times, paths) /\ UNCHANGED pipeline /\ times \in Nat
    BY <1>3, PipelineAssumption DEF PostBehavior
  <2>2. Unforced'
    BY <2>1 DEF PInv, Unforced, pipeline
  <2> HIDE DEF effective
  <2> QED BY <2>1, <2>2, PostCharges
<1>4. ASSUME DeleteBehavior PROVE Unforced' /\ ChargesAreRequests'
  <2>1. ClearRule /\ UNCHANGED pipeline
    BY <1>4 DEF DeleteBehavior
  <2>2. Unforced'
    BY <2>1 DEF PInv, Unforced, pipeline
  <2> QED BY <2>1, <2>2, ClearCharges
<1>5. ASSUME DeleteRequests \/ UNCHANGED vars
      PROVE  Unforced' /\ ChargesAreRequests'
  <2>1. UNCHANGED <<rules, forcedBy, pc>>
    BY <1>5 DEF DeleteRequests, ClearRequests, vars, inspector, pipeline
  <2> QED BY <2>1, ChargesKept DEF PInv, Unforced
<1>6. Unforced' /\ ChargesAreRequests'
  BY <1>2, <1>3, <1>4, <1>5 DEF Next
<1> QED BY <1>1, <1>6 DEF PInv

THEOREM PipelineInvariance == Spec => []PInv
BY InitPInv, NextPInv, PTL DEF Spec

\* Types, and that every request's history names rules and numbers that exist.
THEOREM PipelineTyped == Spec => []TypeOK
BY PipelineInvariance, PTL DEF PInv

\* The middleware uses the inspector through its operations only, so that all
\* that is proved of InspectorSpec is true of the running server.
THEOREM PipelineUsesInspector == Spec => UsesInspector
<1>1. Init => InspectorInit
  BY DEF Init
<1>2. PInv /\ [Next]_vars => [InspectorNext]_inspector
  BY StepUsesInspector DEF PInv
<1> QED BY <1>1, <1>2, PipelineInvariance, PTL DEF Spec, UsesInspector, InspectorSpec

\* A counted rule fails exactly as many requests as it was posted for, never
\* more, and its hits are those requests, for any number of requests at once.
THEOREM PipelineFailsExactly == Spec => []FailsExactly
<1>1. PInv => FailsExactly
  <2> SUFFICES ASSUME PInv, NEW g \in 1 .. Len(rules)
               PROVE  LET failed == Cardinality(Failed(g))
                      IN  /\ rules[g].posted > 0 =>
                                /\ failed <= rules[g].posted
                                /\ rules[g].fate = "exhausted" <=> failed = rules[g].posted
                          /\ Active /\ rule.gen = g => rule.hits = failed
    BY DEF FailsExactly, Failed
  <2>1. Cardinality(Failed(g)) = rules[g].spent
    BY DEF PInv, ChargesAreRequests
  <2>2. rules[g].posted \in Nat /\ rules[g].spent \in Nat
    <3>1. rules[g] \in RuleRecord
      BY ElementOfSeq DEF PInv, IInv, InspectorTypeOK
    <3> QED BY <3>1 DEF RuleRecord
  <2>3. /\ rules[g].posted > 0 =>
              (rules[g].fate = "exhausted" <=> rules[g].spent >= rules[g].posted)
        /\ rules[g].fate = "exhausted" => rules[g].spent = rules[g].posted
        /\ Active /\ rule.gen = g => rule.hits = rules[g].spent
    BY DEF PInv, IInv, ChargesExact
  <2> QED BY <2>1, <2>2, <2>3
<1> QED BY <1>1, PipelineInvariance, PTL

-----------------------------------------------------------------------------
(* What a client that has its answer finds in the listing.                 *)

\* Every step between "record" and the answer comes after the capture, and a
\* number is given to one request only.
CapturedOnce ==
    /\ \A r \in Requests : captured[r] = 0 <=> pc[r] \in {"unsent", "record"}
    /\ \A q, r \in Requests : captured[q] = captured[r] /\ captured[r] > 0 => q = r

\* The entries of the ring are of the requests that were recorded under them.
RingTellsTruth ==
    \A i \in 1 .. Len(ring) :
        /\ ring[i].seq = captured[ring[i].of]
        /\ ring[i].path = path[ring[i].of]

LInv == CapturedOnce /\ RingTellsTruth

\* The numbers in the ring are positive, and those of the window are all there.
LEMMA RingNumbers ==
    ASSUME IInv
    PROVE  /\ ring \in Seq(Entry) /\ Len(ring) \in Nat
           /\ \A i \in 1 .. Len(ring) : ring[i] \in Entry /\ ring[i].seq \in 1 .. seq
           /\ \A n \in Nat : n > clearedSeq /\ n > seq - RingCap /\ n <= seq =>
                 \E i \in 1 .. Len(ring) : ring[i].seq = n
<1>1. /\ ring \in Seq(Entry) /\ Len(ring) \in Nat
      /\ \A i \in 1 .. Len(ring) : ring[i] \in Entry
  BY LenProperties, ElementOfSeq DEF IInv, InspectorTypeOK
<1>2. seq \in Nat /\ clearedSeq \in 0 .. seq /\ RingCap \in Nat
  BY RingAssumption DEF IInv, InspectorTypeOK
<1>3. /\ Len(ring) = IF seq - clearedSeq < RingCap THEN seq - clearedSeq ELSE RingCap
      /\ \A i \in 1 .. Len(ring) : ring[i].seq = seq - Len(ring) + i
  BY DEF IInv, RingIsWindow
<1>4. \A i \in 1 .. Len(ring) : ring[i].seq \in 1 .. seq
  BY <1>1, <1>2, <1>3
<1>5. ASSUME NEW n \in Nat, n > clearedSeq, n > seq - RingCap, n <= seq
      PROVE  \E i \in 1 .. Len(ring) : ring[i].seq = n
  <2> DEFINE i == n - seq + Len(ring)
  <2>1. i \in 1 .. Len(ring)
    <3> DEFINE len == Len(ring)
    <3>1. /\ len \in Nat
          /\ len = IF seq - clearedSeq < RingCap THEN seq - clearedSeq ELSE RingCap
      BY <1>1, <1>3
    <3> HIDE DEF len
    <3>2. n - seq + len \in 1 .. len
      BY <1>2, <1>5, <3>1
    <3> QED BY <3>2 DEF len
  <2>2. ring[i].seq = n
    <3>1. ring[i].seq = seq - Len(ring) + i
      BY <1>3, <2>1
    <3> QED BY <1>1, <1>2, <3>1
  <2> QED BY <2>1, <2>2
<1> QED BY <1>1, <1>4, <1>5

LEMMA InitLInv == Init => LInv
BY EmptySeq DEF Init, InspectorInit, LInv, CapturedOnce, RingTellsTruth

\* Capturing a request numbers it and adds one entry; what else the ring holds
\* afterwards it held before.
LEMMA CaptureLInv ==
    ASSUME PInv, LInv, NEW r \in Requests, Capture(r)
    PROVE  LInv'
<1> DEFINE e == [seq |-> seq + 1, path |-> path[r], of |-> r]
           longer == Append(ring, e)
<1>1. /\ seq \in Nat /\ path[r] \in Paths /\ pc[r] = "record" /\ captured[r] = 0
      /\ captured \in [Requests -> 0 .. seq] /\ pc \in [Requests -> Steps]
  BY DEF PInv, IInv, InspectorTypeOK, TypeOK, Capture, LInv, CapturedOnce
<1>2. /\ ring' = Trim(longer) /\ seq' = seq + 1 /\ path' = path
      /\ captured' = [captured EXCEPT ![r] = seq + 1]
      /\ pc' = [pc EXCEPT ![r] = "shouldFail"]
  BY DEF Capture, Record, Goto
<1>3. CapturedOnce'
  <2>1. \A q \in Requests : captured'[q] = IF q = r THEN seq + 1 ELSE captured[q]
    BY <1>1, <1>2
  <2>2. \A q \in Requests : pc'[q] = IF q = r THEN "shouldFail" ELSE pc[q]
    BY <1>1, <1>2
  <2>3. \A q \in Requests : captured[q] \in 0 .. seq
    BY <1>1
  <2>4. \A q \in Requests : captured'[q] = 0 <=> pc'[q] \in {"unsent", "record"}
    BY <1>1, <2>1, <2>2 DEF LInv, CapturedOnce
  <2>5. ASSUME NEW p \in Requests, NEW q \in Requests,
               captured'[p] = captured'[q], captured'[q] > 0
        PROVE  p = q
    BY <1>1, <2>1, <2>3, <2>5 DEF LInv, CapturedOnce
  <2> QED BY <2>4, <2>5 DEF CapturedOnce
<1>4. IInv /\ e \in Entry
  BY <1>1 DEF PInv, Entry
<1>5. /\ longer \in Seq(Entry) /\ Len(longer) = Len(ring) + 1
      /\ \A i \in 1 .. Len(ring) : longer[i] = ring[i]
      /\ longer[Len(ring) + 1] = e
  <2> HIDE DEF e
  <2> QED BY <1>4, RingNumbers, AppendProperties
<1>6. /\ e.seq = seq + 1 /\ e.path = path[r] /\ e.of = r
  OBVIOUS
<1> HIDE DEF e, longer
<1>7. ASSUME NEW j \in 1 .. Len(ring) + 1
      PROVE  /\ longer[j].seq = captured'[longer[j].of]
             /\ longer[j].path = path'[longer[j].of]
  <2>0. Len(ring) \in Nat
    BY <1>4, RingNumbers
  <2>1. CASE j \in 1 .. Len(ring)
    <3>1. /\ ring[j] \in Entry /\ ring[j].seq \in 1 .. seq
          /\ ring[j].seq = captured[ring[j].of] /\ ring[j].path = path[ring[j].of]
      BY <1>4, <2>1, RingNumbers DEF LInv, RingTellsTruth
    <3>2. ring[j].of \in Requests /\ ring[j].of # r
      BY <1>1, <3>1 DEF Entry
    <3> QED BY <1>1, <1>2, <1>5, <2>1, <3>1, <3>2
  <2>2. CASE j = Len(ring) + 1
    BY <1>1, <1>2, <1>5, <1>6, <2>2
  <2> QED BY <2>0, <2>1, <2>2
<1>8. ASSUME NEW i \in 1 .. Len(ring')
      PROVE  \E j \in 1 .. Len(ring) + 1 : ring'[i] = longer[j]
  <2>1. /\ Len(ring') = IF Len(longer) > RingCap THEN RingCap ELSE Len(longer)
        /\ ring'[i] = longer[Len(longer) - Len(ring') + i]
    BY <1>2, <1>5, TrimKeepsLast
  <2>2. Len(ring) \in Nat /\ RingCap \in Nat \ {0}
    BY <1>4, RingNumbers, RingAssumption
  <2>3. Len(longer) - Len(ring') + i \in 1 .. Len(ring) + 1
    BY <1>5, <2>1, <2>2
  <2> QED BY <2>1, <2>3
<1>9. RingTellsTruth'
  BY <1>7, <1>8 DEF RingTellsTruth
<1> QED BY <1>3, <1>9 DEF LInv

\* Every other step leaves the ring alone or empties it.
LEMMA OtherLInv ==
    ASSUME LInv, UNCHANGED <<captured, path>>,
           ring' = ring \/ ring' = << >>,
           \A r \in Requests : pc[r] \in {"unsent", "record"} <=> pc'[r] \in {"unsent", "record"}
    PROVE  LInv'
<1>1. CapturedOnce'
  BY DEF LInv, CapturedOnce
<1>2. RingTellsTruth'
  <2>1. CASE ring' = ring
    BY <2>1 DEF LInv, RingTellsTruth
  <2>2. CASE ring' = << >>
    BY <2>2, EmptySeq DEF RingTellsTruth
  <2> QED BY <2>1, <2>2
<1> QED BY <1>1, <1>2 DEF LInv

LEMMA NextLInv == PInv /\ LInv /\ [Next]_vars => LInv'
<1> SUFFICES ASSUME PInv, LInv, [Next]_vars PROVE LInv'
  OBVIOUS
<1> USE DEF PInv, TypeOK
<1>1. ASSUME NEW r \in Requests, Arrive(r) \/ Handle(r)
      PROVE  LInv'
  <2>1. CASE Capture(r)
    BY <2>1, CaptureLInv
  <2>2. CASE \/ Arrive(r) \/ Judge(r) \/ Authorize(r) \/ Serve(r)
             \/ Complete(r) \/ ClientGone(r)
    <3>1. /\ UNCHANGED <<captured, path, ring>>
          /\ \E step \in Steps :
                /\ pc' = [pc EXCEPT ![r] = step]
                /\ pc[r] \in {"unsent", "record"} <=> step \in {"unsent", "record"}
      <4> USE DEF inspector, Goto, Answer, Steps
      <4>1. CASE Arrive(r) BY <4>1 DEF Arrive
      <4>2. CASE Judge(r) BY <4>2 DEF Judge, Charge
      <4>3. CASE Authorize(r) BY <4>3 DEF Authorize
      <4>4. CASE Serve(r) BY <4>4 DEF Serve
      <4>5. CASE Complete(r) BY <4>5 DEF Complete
      <4>6. CASE ClientGone(r) BY <4>6 DEF ClientGone
      <4> QED BY <2>2, <4>1, <4>2, <4>3, <4>4, <4>5, <4>6
    <3>2. \A q \in Requests : pc[q] \in {"unsent", "record"} <=> pc'[q] \in {"unsent", "record"}
      BY <3>1
    <3> QED BY <3>1, <3>2, OtherLInv
  <2> QED BY <1>1, <2>1, <2>2 DEF Handle
<1>2. CASE \/ \E status \in PostedStatuses, times \in PostedTimes, paths \in PostedFilters :
                PostBehavior(status, times, paths)
           \/ DeleteBehavior \/ DeleteRequests \/ UNCHANGED vars
  <2>1. UNCHANGED pipeline /\ (ring' = ring \/ ring' = << >>)
    BY <1>2 DEF PostBehavior, SetRule, DeleteBehavior, ClearRule, DeleteRequests,
                ClearRequests, vars, inspector
  <2> QED BY <2>1, OtherLInv DEF pipeline
<1> QED BY <1>1, <1>2 DEF Next

\* A client that has its answer finds its request in the listing, once and
\* under its own number, unless it was cleared or pushed out of the ring, for
\* any number of requests and any capacity of the ring.
THEOREM PipelineAnsweredIsListed == Spec => []AnsweredIsListed
<1>1. PInv /\ LInv => AnsweredIsListed
  <2> SUFFICES ASSUME PInv, LInv, NEW r \in Requests, pc[r] = "done"
               PROVE  /\ captured[r] > 0
                      /\ \A i \in 1 .. Len(ring) : ring[i].of = r <=> ring[i].seq = captured[r]
                      /\ captured[r] > clearedSeq /\ captured[r] > seq - RingCap =>
                            \E i \in 1 .. Len(ring) :
                                ring[i] = [seq |-> captured[r], path |-> path[r], of |-> r]
    BY DEF AnsweredIsListed
  <2>1. captured[r] \in 1 .. seq /\ seq \in Nat /\ captured[r] \in Nat /\ captured[r] > 0
    <3>1. captured[r] \in 0 .. seq /\ seq \in Nat
      BY DEF PInv, TypeOK, IInv, InspectorTypeOK
    <3>2. captured[r] # 0
      BY DEF LInv, CapturedOnce
    <3> QED BY <3>1, <3>2
  <2>2. \A i \in 1 .. Len(ring) : ring[i].of = r <=> ring[i].seq = captured[r]
    <3> SUFFICES ASSUME NEW i \in 1 .. Len(ring)
                 PROVE  ring[i].of = r <=> ring[i].seq = captured[r]
      OBVIOUS
    <3>1. ring[i].of \in Requests /\ ring[i].seq = captured[ring[i].of]
      BY RingNumbers DEF PInv, Entry, LInv, RingTellsTruth
    <3> QED BY <2>1, <3>1 DEF LInv, CapturedOnce
  <2>3. ASSUME captured[r] > clearedSeq, captured[r] > seq - RingCap
        PROVE  \E i \in 1 .. Len(ring) :
                  ring[i] = [seq |-> captured[r], path |-> path[r], of |-> r]
    <3>1. PICK i \in 1 .. Len(ring) : ring[i].seq = captured[r]
      BY <2>1, <2>3, RingNumbers DEF PInv
    <3>2. ring[i] \in Entry /\ ring[i].of = r /\ ring[i].path = path[r]
      BY <2>2, <3>1, RingNumbers DEF PInv, LInv, RingTellsTruth
    <3>3. ring[i] = [seq |-> captured[r], path |-> path[r], of |-> r]
      BY <3>1, <3>2 DEF Entry
    <3> QED BY <3>3
  <2> QED BY <2>1, <2>2, <2>3
<1> QED BY <1>1, InitLInv, NextLInv, PipelineInvariance, PTL DEF Spec

-----------------------------------------------------------------------------
(* A rule without a count.                                                 *)

\* A request is due under a rule only if it came in while that rule was in force
\* for its path, and then stays with the rule until it has been failed by it.
DueIsHeld(r) ==
    /\ pc[r] = "unsent" => due[r] = 0
    /\ pc[r] # "done" => outcome[r] = "none"
    /\ Active /\ due[r] = rule.gen =>
          /\ path[r] \in rule.paths
          /\ rules[rule.gen].posted = 0 =>
                pc[r] \in {"record", "shouldFail"} \/ outcome[r] = "forced"

UInv == \A r \in Requests : DueIsHeld(r)

\* The rule in force stays as it was posted for as long as it is in force.
LEMMA RuleInForce ==
    ASSUME IInv, Active, Active', rule'.gen = rule.gen, [InspectorNext]_inspector
    PROVE  /\ rule'.paths = rule.paths
           /\ rules'[rule.gen].posted = rules[rule.gen].posted
<1>1. /\ rule \in Rule /\ rule.gen \in 1 .. Len(rules) /\ Len(rules) \in Nat
      /\ rules \in Seq(RuleRecord) /\ DOMAIN rules = 1 .. Len(rules)
  BY LenProperties DEF IInv, InspectorTypeOK, Active
<1>2. CASE Active /\ Charge
  <2>1. rule' = [rule EXCEPT !.hits = rule.hits + 1,
                             !.times = IF rule.times > 0 THEN rule.times - 1 ELSE rule.times]
    BY <1>2 DEF Charge, Active, NoRule
  <2>2. rules'[rule.gen].posted = rules[rule.gen].posted
    BY <1>1, <1>2 DEF Charge
  <2> QED BY <1>1, <2>1, <2>2 DEF Rule
<1>3. ASSUME NEW status, NEW times, NEW paths, SetRule(status, times, paths)
      PROVE  FALSE
  BY <1>1, <1>3 DEF SetRule
<1>4. CASE ClearRule
  BY <1>4, NoRuleTyped DEF ClearRule, Active
<1>5. CASE \/ \E r \in Requests, p \in Paths : Record(r, p)
           \/ ClearRequests \/ UNCHANGED inspector
  BY <1>5 DEF Record, ClearRequests, inspector
<1> QED BY <1>2, <1>3, <1>4, <1>5 DEF InspectorNext

\* The rule in force was in force before, or is a new one of its own.
LEMMA RuleOrigin ==
    ASSUME IInv, Active', [InspectorNext]_inspector
    PROVE  (Active /\ rule'.gen = rule.gen) \/ rule'.gen = Len(rules) + 1
<1>1. rule \in Rule
  BY DEF IInv, InspectorTypeOK
<1>2. CASE Active /\ Charge
  <2>1. rule' = [rule EXCEPT !.hits = rule.hits + 1,
                             !.times = IF rule.times > 0 THEN rule.times - 1 ELSE rule.times]
    BY <1>2 DEF Charge, Active, NoRule
  <2> QED BY <1>1, <1>2, <2>1 DEF Rule
<1>3. ASSUME NEW status, NEW times, NEW paths, SetRule(status, times, paths)
      PROVE  rule'.gen = Len(rules) + 1
  BY <1>3 DEF SetRule
<1>4. CASE ClearRule
  BY <1>4, NoRuleTyped DEF ClearRule, Active
<1>5. CASE \/ \E r \in Requests, p \in Paths : Record(r, p)
           \/ ClearRequests \/ UNCHANGED inspector
  BY <1>5 DEF Record, ClearRequests, inspector, Active
<1> QED BY <1>2, <1>3, <1>4, <1>5 DEF InspectorNext

\* A step that leaves a request where it is, or takes it no further than its
\* judgement.
LEMMA HeldKept ==
    ASSUME PInv, [Next]_vars, NEW r \in Requests, DueIsHeld(r),
           due'[r] = due[r], path'[r] = path[r],
           \/ pc'[r] = pc[r] /\ outcome'[r] = outcome[r]
           \/ pc[r] = "record" /\ pc'[r] = "shouldFail" /\ outcome'[r] = outcome[r]
    PROVE  DueIsHeld(r)'
<1>1. IInv /\ [InspectorNext]_inspector
  BY StepUsesInspector DEF PInv
<1>2. due[r] \in 0 .. Len(rules) /\ Len(rules) \in Nat
  BY LenProperties DEF PInv, TypeOK, IInv, InspectorTypeOK
<1>3. /\ pc'[r] = "unsent" => due'[r] = 0
      /\ pc'[r] # "done" => outcome'[r] = "none"
  BY DEF DueIsHeld
<1>4. ASSUME Active', due'[r] = rule'.gen
      PROVE  /\ path'[r] \in rule'.paths
             /\ rules'[rule'.gen].posted = 0 =>
                   pc'[r] \in {"record", "shouldFail"} \/ outcome'[r] = "forced"
  <2>1. Active /\ rule'.gen = rule.gen
    BY <1>1, <1>2, <1>4, RuleOrigin
  <2>2. /\ rule'.paths = rule.paths
        /\ rules'[rule.gen].posted = rules[rule.gen].posted
    BY <1>1, <1>4, <2>1, RuleInForce
  <2> QED BY <1>4, <2>1, <2>2 DEF DueIsHeld
<1> QED BY <1>3, <1>4 DEF DueIsHeld, Active

LEMMA InitUInv == Init => UInv
BY NoRuleTyped DEF Init, InspectorInit, UInv, DueIsHeld, Active

LEMMA StepUInv ==
    ASSUME PInv, UInv, NEW r \in Requests, Arrive(r) \/ Handle(r)
    PROVE  UInv'
<1> USE DEF TypeOK, Goto, Answer
<1>0. [Next]_vars /\ TypeOK
  BY DEF Next, PInv
<1>1. ASSUME NEW q \in Requests, q # r
      PROVE  due'[q] = due[q] /\ path'[q] = path[q] /\ pc'[q] = pc[q] /\ outcome'[q] = outcome[q]
  <2>1. CASE Arrive(r) BY <1>0, <1>1, <2>1 DEF Arrive
  <2>2. CASE Capture(r) BY <1>0, <1>1, <2>2 DEF Capture
  <2>3. CASE Judge(r) BY <1>0, <1>1, <2>3 DEF Judge
  <2>4. CASE Authorize(r) BY <1>0, <1>1, <2>4 DEF Authorize
  <2>5. CASE Serve(r) BY <1>0, <1>1, <2>5 DEF Serve
  <2>6. CASE Complete(r) \/ ClientGone(r) BY <1>0, <1>1, <2>6 DEF Complete, ClientGone
  <2> QED BY <2>1, <2>2, <2>3, <2>4, <2>5, <2>6 DEF Handle
<1>2. ASSUME NEW q \in Requests, q # r
      PROVE  DueIsHeld(q)'
  BY <1>0, <1>1, <1>2, HeldKept DEF UInv
<1>3. DueIsHeld(r)
  BY DEF UInv
<1>4. DueIsHeld(r)'
  <2>1. CASE Arrive(r)
    <3>1. /\ pc[r] = "unsent" /\ due[r] = 0 /\ pc'[r] = "record"
          /\ UNCHANGED <<rule, rules, path, outcome>> /\ outcome[r] = "none"
          /\ due'[r] = 0 \/ (Fires(path[r]) /\ due'[r] = rule.gen)
      BY <1>0, <1>3, <2>1 DEF Arrive, DueIsHeld, inspector
    <3> QED BY <3>1 DEF DueIsHeld, Active, Fires
  <2>2. CASE Capture(r)
    <3>1. /\ due'[r] = due[r] /\ path'[r] = path[r]
          /\ pc[r] = "record" /\ pc'[r] = "shouldFail" /\ outcome'[r] = outcome[r]
      BY <1>0, <2>2 DEF Capture
    <3> QED BY <1>0, <1>3, <3>1, HeldKept
  <2>3. CASE Judge(r)
    <3>1. CASE Fires(path[r])
      <4>1. pc'[r] = "done" /\ outcome'[r] = "forced" /\ due'[r] = due[r] /\ path'[r] = path[r]
        BY <1>0, <2>3, <3>1 DEF Judge
      <4>2. Active' /\ due'[r] = rule'.gen => path'[r] \in rule'.paths
        <5> SUFFICES ASSUME Active', due'[r] = rule'.gen PROVE path'[r] \in rule'.paths
          OBVIOUS
        <5>1. IInv /\ [InspectorNext]_inspector
          BY <1>0, StepUsesInspector DEF PInv
        <5>2. rule'.gen # Len(rules) + 1
          <6>1. due[r] \in 0 .. Len(rules) /\ Len(rules) \in Nat
            BY <1>0, LenProperties DEF InspectorTypeOK
          <6> QED BY <4>1, <6>1
        <5>3. Active /\ rule'.gen = rule.gen
          BY <5>1, <5>2, RuleOrigin
        <5>4. rule'.paths = rule.paths
          BY <5>1, <5>3, RuleInForce
        <5> QED BY <3>1, <4>1, <5>4 DEF Fires
      <4> QED BY <4>1, <4>2 DEF DueIsHeld, Active
    <3>2. CASE ~Fires(path[r])
      <4>1. /\ UNCHANGED <<rule, rules, path, due, outcome>> /\ pc'[r] = "auth"
        BY <1>0, <2>3, <3>2 DEF Judge, inspector
      <4>2. ~(Active /\ due[r] = rule.gen)
        BY <1>3, <3>2 DEF DueIsHeld, Fires
      <4> QED BY <1>3, <2>3, <4>1, <4>2 DEF Judge, DueIsHeld, Active
    <3> QED BY <3>1, <3>2
  <2>4. CASE Authorize(r) \/ Serve(r) \/ Complete(r) \/ ClientGone(r)
    <3>1. /\ UNCHANGED <<rule, rules, path, due>>
          /\ pc[r] \in {"auth", "serve", "sleep"} /\ pc'[r] # "unsent"
          /\ pc'[r] # "done" => outcome'[r] = outcome[r]
      <4> USE DEF inspector
      <4>1. CASE Authorize(r) BY <1>0, <4>1 DEF Authorize
      <4>2. CASE Serve(r) BY <1>0, <4>2 DEF Serve
      <4>3. CASE Complete(r) \/ ClientGone(r) BY <1>0, <4>3 DEF Complete, ClientGone
      <4> QED BY <2>4, <4>1, <4>2, <4>3
    <3>2. outcome[r] = "none"
      BY <1>3, <3>1 DEF DueIsHeld
    <3> QED BY <1>3, <3>1, <3>2 DEF DueIsHeld, Active
  <2> QED BY <2>1, <2>2, <2>3, <2>4 DEF Handle
<1> QED BY <1>2, <1>4 DEF UInv

LEMMA NextUInv == PInv /\ UInv /\ [Next]_vars => UInv'
<1> SUFFICES ASSUME PInv, UInv, [Next]_vars PROVE UInv'
  OBVIOUS
<1>1. ASSUME NEW r \in Requests, Arrive(r) \/ Handle(r)
      PROVE  UInv'
  BY <1>1, StepUInv
<1>2. CASE \/ \E status \in PostedStatuses, times \in PostedTimes, paths \in PostedFilters :
                PostBehavior(status, times, paths)
           \/ DeleteBehavior \/ DeleteRequests \/ UNCHANGED vars
  <2>1. UNCHANGED pipeline
    BY <1>2 DEF PostBehavior, DeleteBehavior, DeleteRequests, vars
  <2> QED BY <2>1, HeldKept DEF UInv, pipeline
<1> QED BY <1>1, <1>2 DEF Next

\* A rule without a count holds until it is cleared or replaced: no matching
\* request that came in after it was posted gets past it, for any number of
\* requests and of rules.
THEOREM PipelineUnlimitedRuleHolds == Spec => []UnlimitedRuleHolds
<1>1. UInv => UnlimitedRuleHolds
  BY DEF UInv, DueIsHeld, UnlimitedRuleHolds
<1> QED BY <1>1, InitUInv, NextUInv, PipelineInvariance, PTL DEF Spec
=============================================================================
