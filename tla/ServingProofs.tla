--------------------------- MODULE ServingProofs ---------------------------
(***************************************************************************)
(* Theorems of Serving, for any number of requests, any n, sizes of parts, *)
(* delays, statuses and grace: the three safety properties of the run, and *)
(* its type invariant.                                                     *)
(*                                                                         *)
(* The invariant has a part about time (what is in service when the five   *)
(* seconds are over), one about the status on its way to the client, and   *)
(* one about the bytes written so far, which are the first parts of a body *)
(* whose sizes add up to the announced length.                             *)
(***************************************************************************)
EXTENDS Serving, TLAPS

Response == [status : Int, list : BOOLEAN, length : Int, parts : Nat,
             written : Nat, sent : Nat, got : Nat]

Typed ==
    /\ TypeOK
    /\ resp \in [Requests -> Response]

\* Straight-line code takes no time, so nothing is about to be served when a
\* context that is older than its signal expires, and no delay is overdue.
Timely(r) ==
    /\ pc[r] = "serve" =>
          proc = "listening" \/ (proc = "draining" /\ now = signalled)
    /\ pc[r] = "sleep" => now <= until[r]
    /\ pc[r] = "write" => resp[r].status # 0
    /\ pc[r] = "cut" =>
          /\ proc = "down"
          /\ until[r] >= signalled + Grace \/ resp[r].status # 0

\* The status a handler has chosen is the one that net/http makes of it.
Honest(r) ==
    /\ pc[r] \in {"unsent", "serve", "sleep"} =>
          resp[r] = NoResponse /\ asked[r] = 200 /\ seen[r] = "nothing"
    /\ pc[r] = "write" =>
          /\ seen[r] = "nothing"
          /\ ValidStatus(asked[r]) /\ resp[r].status = FinalStatus(asked[r])
          /\ ~resp[r].list =>
                /\ resp[r].parts = 0 /\ resp[r].written = 0 /\ resp[r].sent = 0
                /\ resp[r].length = Unset \/ (resp[r].length = 1 /\ asked[r] = 200)
    /\ seen[r] = "whole" =>
          /\ pc[r] = "done"
          /\ ValidStatus(asked[r]) /\ resp[r].status = FinalStatus(asked[r])
    /\ pc[r] = "done" /\ alive[r] /\ ~resp[r].list =>
          (seen[r] = "whole" <=> ValidStatus(asked[r]))

\* The bytes of the first k parts of a list body.
Sum(q, k) ==
    CASE k = 0 -> 0
      [] k \in 1 .. Parts(q) - 1 ->
           PrefixSize[q.kind] + (k - 1) * EntrySize[q.kind] + (IF k > 2 THEN k - 2 ELSE 0)
      [] k = Parts(q) ->
           PrefixSize[q.kind] + Entries(q) * EntrySize[q.kind] + Commas(q) + SuffixSize[q.kind]

\* Of a list body the parts written are the first ones, all of them taken.
Exact(r) ==
    LET q == req[r]
        p == resp[r]
    IN  p.list =>
          /\ q.kind \in Lists /\ p.status = 200 /\ p.length = KnownLength(Total(q))
          /\ pc[r] \in {"write", "done", "cut"}
          /\ pc[r] = "write" => p.parts < Parts(q)
          /\ p.parts \in 0 .. Parts(q) /\ p.written = Sum(q, p.parts)
          /\ ~Misannounced(q) =>
                /\ p.got = p.parts /\ p.sent = p.written
                /\ seen[r] = "whole" => p.parts = Parts(q)
                /\ pc[r] = "done" /\ alive[r] => seen[r] = "whole"

IInv ==
    /\ Typed
    /\ proc = "draining" => deadline = signalled + Grace
    /\ \A r \in Requests : Timely(r) /\ Honest(r) /\ Exact(r)

-----------------------------------------------------------------------------
(* Sums of sizes.                                                          *)

LEMMA TrafficTyped == ASSUME req \in Traffic, NEW r \in Requests
                      PROVE  req[r] \in Request
BY ServingAssumption

LEMMA Sizes ==
    ASSUME NEW q \in Request, q.kind \in Lists
    PROVE  /\ PrefixSize[q.kind] \in Nat /\ EntrySize[q.kind] \in Nat /\ SuffixSize[q.kind] \in Nat
           /\ Count(q) \in Int /\ Commas(q) \in Nat
           /\ Entries(q) \in Nat /\ Parts(q) = Entries(q) + 2
           /\ Count(q) >= 0 => Entries(q) = Count(q)
BY ServingAssumption DEF Request, Count, Commas, Entries, Parts

LEMMA TotalTyped ==
    ASSUME NEW q \in Request, q.kind \in Lists
    PROVE  Total(q) \in Int
<1>1. /\ PrefixSize[q.kind] \in Int /\ SuffixSize[q.kind] \in Int /\ Commas(q) \in Int
      /\ Count(q) * EntrySize[q.kind] \in Int
  BY Sizes
<1> QED BY <1>1 DEF Total

\* A product grows by its second factor, and with its first.
LEMMA Products ==
    ASSUME NEW a \in Nat, NEW b \in Nat, NEW e \in Nat
    PROVE  /\ a * e \in Nat
           /\ (a + 1) * e = a * e + e
           /\ a <= b => a * e <= b * e
<1>1. a * e \in Nat /\ (a + 1) * e = a * e + e
  OBVIOUS
<1>2. ASSUME a <= b PROVE a * e <= b * e
  <2>1. PICK d \in Nat : b = a + d
    <3>1. b - a \in Nat /\ b = a + (b - a)
      BY <1>2
    <3> QED BY <3>1
  <2>2. (a + d) * e = a * e + d * e /\ d * e \in Nat /\ a * e \in Nat
    OBVIOUS
  <2> QED BY <2>1, <2>2
<1> QED BY <1>1, <1>2

\* The first k parts are the first k - 1 and the k-th.
LEMMA SumStep ==
    ASSUME NEW q \in Request, q.kind \in Lists, NEW k \in 0 .. Parts(q) - 1
    PROVE  /\ PartSize(q, k + 1) \in Nat /\ Sum(q, k) \in Nat
           /\ Sum(q, k + 1) = Sum(q, k) + PartSize(q, k + 1)
<1> DEFINE pre == PrefixSize[q.kind]
           ent == EntrySize[q.kind]
           suf == SuffixSize[q.kind]
<1>1. /\ pre \in Nat /\ ent \in Nat /\ suf \in Nat /\ Commas(q) \in Nat
      /\ Entries(q) \in Nat /\ Parts(q) = Entries(q) + 2
  BY Sizes
<1>2. CASE k = 0
  <2>1. Sum(q, 0) = 0 /\ PartSize(q, 1) = pre /\ Sum(q, 1) = pre + 0 * ent
    BY <1>1 DEF Sum, PartSize
  <2>2. 0 * ent = 0
    BY <1>1
  <2> HIDE DEF pre, ent
  <2> QED BY <1>1, <1>2, <2>1, <2>2
<1>3. CASE k \in 1 .. Parts(q) - 2
  <2>1. /\ Sum(q, k) = pre + (k - 1) * ent + (IF k > 2 THEN k - 2 ELSE 0)
        /\ Sum(q, k + 1) = pre + k * ent + (IF k + 1 > 2 THEN k - 1 ELSE 0)
        /\ PartSize(q, k + 1) = ent + (IF k + 1 > 2 THEN 1 ELSE 0)
    BY <1>1, <1>3 DEF Sum, PartSize
  <2>2. (k - 1) * ent \in Nat /\ k * ent = (k - 1) * ent + ent
    <3>1. k - 1 \in Nat /\ (k - 1) + 1 = k
      BY <1>1, <1>3
    <3> QED BY <1>1, <3>1, Products
  <2> HIDE DEF pre, ent
  <2> QED BY <1>1, <1>3, <2>1, <2>2
<1>4. CASE k = Parts(q) - 1
  <2>1. /\ Sum(q, k) = pre + (k - 1) * ent + (IF k > 2 THEN k - 2 ELSE 0)
        /\ Sum(q, k + 1) = pre + Entries(q) * ent + Commas(q) + suf
        /\ PartSize(q, k + 1) = suf
    BY <1>1, <1>4 DEF Sum, PartSize
  <2>2. k - 1 = Entries(q) /\ Entries(q) * ent \in Nat
    BY <1>1, <1>4, Products
  <2>3. Commas(q) = IF k > 2 THEN k - 2 ELSE 0
    BY <1>1, <1>4 DEF Commas, Entries, Request, Count
  <2> HIDE DEF pre, ent, suf
  <2> QED BY <1>1, <1>4, <2>1, <2>2, <2>3
<1> QED BY <1>1, <1>2, <1>3, <1>4

\* No beginning of a body is longer than its announced length, and the whole
\* body is exactly as long, unless n is negative.
LEMMA SumBounded ==
    ASSUME NEW q \in Request, q.kind \in Lists, NEW k \in 0 .. Parts(q), Count(q) >= 0
    PROVE  Sum(q, k) <= Total(q) /\ Sum(q, Parts(q)) = Total(q) /\ Total(q) \in Nat
<1> DEFINE pre == PrefixSize[q.kind]
           ent == EntrySize[q.kind]
           suf == SuffixSize[q.kind]
<1>1. /\ pre \in Nat /\ ent \in Nat /\ suf \in Nat /\ Commas(q) \in Nat
      /\ Entries(q) \in Nat /\ Parts(q) = Entries(q) + 2 /\ Entries(q) = Count(q)
  BY Sizes
<1>2. Sum(q, Parts(q)) = Total(q)
  <2>1. Parts(q) # 0 /\ Parts(q) \notin 1 .. Parts(q) - 1
    BY <1>1
  <2>2. Sum(q, Parts(q)) = pre + Entries(q) * ent + Commas(q) + suf
    BY <2>1 DEF Sum
  <2> QED BY <1>1, <2>2 DEF Total
<1>3. Total(q) = pre + Entries(q) * ent + Commas(q) + suf /\ Entries(q) * ent \in Nat
  BY <1>1, Products DEF Total
<1>4. Total(q) \in Nat
  <2> HIDE DEF pre, ent, suf
  <2> QED BY <1>1, <1>3
<1>5. CASE k = 0
  <2>1. Sum(q, k) = 0
    BY <1>1, <1>5 DEF Sum
  <2> QED BY <1>2, <1>4, <2>1
<1>6. CASE k \in 1 .. Parts(q) - 1
  <2>1. Sum(q, k) = pre + (k - 1) * ent + (IF k > 2 THEN k - 2 ELSE 0)
    BY <1>1, <1>6 DEF Sum
  <2>2. /\ k - 1 \in Nat /\ k - 1 <= Entries(q)
        /\ (IF k > 2 THEN k - 2 ELSE 0) <= Commas(q)
    BY <1>1, <1>6 DEF Commas, Entries, Request, Count
  <2>3. (k - 1) * ent <= Entries(q) * ent /\ (k - 1) * ent \in Nat
    BY <1>1, <2>2, Products
  <2> HIDE DEF pre, ent, suf
  <2> QED BY <1>1, <1>2, <1>3, <1>4, <2>1, <2>2, <2>3
<1>7. CASE k = Parts(q)
  BY <1>2, <1>4, <1>7
<1> QED BY <1>1, <1>2, <1>4, <1>5, <1>6, <1>7

-----------------------------------------------------------------------------
(* The beginning.                                                          *)

LEMMA NoResponseTyped == NoResponse \in Response /\ NoResponse.list = FALSE
BY DEF NoResponse, Response, Unset

LEMMA InitIInv == Init => IInv
<1> SUFFICES ASSUME Init PROVE IInv
  OBVIOUS
<1> USE ServingAssumption DEF Init
<1>1. Typed
  <2>1. resp \in [Requests -> Response]
    BY NoResponseTyped
  <2>2. \A r \in Requests : resp[r].sent <= resp[r].written /\ resp[r].got <= resp[r].parts
    BY DEF NoResponse
  <2> QED BY <2>1, <2>2 DEF Typed, TypeOK
<1>2. \A r \in Requests : Timely(r) /\ Honest(r) /\ Exact(r)
  BY NoResponseTyped DEF Timely, Honest, Exact
<1> QED BY <1>1, <1>2 DEF IInv

-----------------------------------------------------------------------------
(* Time.                                                                   *)

LEMMA DelayTyped ==
    ASSUME NEW h \in Hashes
    PROVE  RandomDelay(h, MinDelay, MaxDelay) \in Nat
<1>1. CASE MinDelay >= MaxDelay
  BY <1>1, ServingAssumption DEF RandomDelay
<1>2. CASE MinDelay < MaxDelay
  <2>1. MaxDelay - MinDelay \in Nat \ {0} /\ h \in Nat
    BY <1>2, ServingAssumption
  <2>2. h % (MaxDelay - MinDelay) \in Nat
    BY <2>1
  <2> QED BY <1>2, <2>2, ServingAssumption DEF RandomDelay
<1> QED BY <1>1, <1>2, ServingAssumption

\* A response before its first byte.
LEMMA HeadedTyped ==
    ASSUME NEW status \in Int, NEW list \in BOOLEAN, NEW length \in Int
    PROVE  LET p == Headed(status, list, length)
           IN  /\ p \in Response
               /\ p.status = FinalStatus(status) /\ p.list = list
               /\ p.length = KnownLength(length)
               /\ p.parts = 0 /\ p.written = 0 /\ p.sent = 0 /\ p.got = 0
               /\ ValidStatus(status) => p.status # 0
<1>1. FinalStatus(status) \in Int /\ KnownLength(length) \in Int
  BY DEF FinalStatus, KnownLength, Unset
<1>2. ValidStatus(status) => FinalStatus(status) # 0
  BY DEF ValidStatus, FinalStatus
<1>3. Headed(status, list, length) \in Response
  BY <1>1, NoResponseTyped DEF Headed, Response
<1>4. LET p == Headed(status, list, length)
      IN  /\ p.status = FinalStatus(status) /\ p.list = list
          /\ p.length = KnownLength(length)
          /\ p.parts = 0 /\ p.written = 0 /\ p.sent = 0 /\ p.got = 0
  BY DEF Headed, NoResponse
<1> QED BY <1>2, <1>3, <1>4

LEMMA HeadedOK ==
    ASSUME NEW list \in BOOLEAN, NEW length \in Int
    PROVE  LET p == Headed(200, list, length)
           IN  /\ p \in Response /\ p.status = 200 /\ p.list = list
               /\ p.length = KnownLength(length)
               /\ p.parts = 0 /\ p.written = 0 /\ p.sent = 0 /\ p.got = 0
<1>1. ASSUME NEW ok \in Int, ok = 200
      PROVE  LET p == Headed(ok, list, length)
             IN  /\ p \in Response /\ p.status = FinalStatus(ok) /\ p.list = list
                 /\ p.length = KnownLength(length)
                 /\ p.parts = 0 /\ p.written = 0 /\ p.sent = 0 /\ p.got = 0
  BY HeadedTyped
<1>2. FinalStatus(200) = 200
  BY DEF FinalStatus
<1> QED BY <1>1, <1>2

\* A response after one more write.
LEMMA WrittenTyped ==
    ASSUME NEW p \in Response, NEW size \in Nat, p.sent <= p.written, p.got <= p.parts
    PROVE  LET q == Written(p, size)
           IN  /\ q \in Response /\ q.sent <= q.written /\ q.got <= q.parts
               /\ q.status = p.status /\ q.list = p.list /\ q.length = p.length
               /\ q.parts = p.parts + 1 /\ q.written = p.written + size
               /\ BodyAllowed(p.status) /\ (p.length = Unset \/ p.written + size <= p.length) =>
                      q.sent = p.sent + size /\ q.got = p.got + 1
<1> DEFINE taken == /\ BodyAllowed(p.status)
                    /\ p.length = Unset \/ p.written + size <= p.length
           q == Written(p, size)
<1>1. q = [p EXCEPT !.parts = @ + 1, !.written = @ + size,
                    !.sent = IF taken THEN @ + size ELSE @,
                    !.got = IF taken THEN @ + 1 ELSE @]
  BY DEF Written
<1> HIDE DEF taken, q
<1>2. /\ q.status = p.status /\ q.list = p.list /\ q.length = p.length
      /\ q.parts = p.parts + 1 /\ q.written = p.written + size
      /\ q.sent = IF taken THEN p.sent + size ELSE p.sent
      /\ q.got = IF taken THEN p.got + 1 ELSE p.got
  BY <1>1 DEF Response
<1>3. q \in Response
  <2> DEFINE sent == IF taken THEN p.sent + size ELSE p.sent
             got == IF taken THEN p.got + 1 ELSE p.got
  <2>1. sent \in Nat /\ got \in Nat /\ p.parts + 1 \in Nat /\ p.written + size \in Nat
    BY DEF Response
  <2>2. q = [p EXCEPT !.parts = p.parts + 1, !.written = p.written + size,
                      !.sent = sent, !.got = got]
    BY <1>1
  <2> HIDE DEF sent, got
  <2> QED BY <2>1, <2>2 DEF Response
<1>4. q.sent <= q.written /\ q.got <= q.parts
  BY <1>2 DEF Response
<1> QED BY <1>2, <1>3, <1>4 DEF taken, q

-----------------------------------------------------------------------------
(* The steps of one request.                                               *)

\* A step of r leaves the others as they are.
LEMMA OthersKept ==
    ASSUME IInv, NEW r \in Requests, NEW s \in Requests, s # r,
           UNCHANGED <<proc, now, signalled, req>>,
           UNCHANGED <<pc[s], until[s], resp[s], alive[s], asked[s], seen[s]>>
    PROVE  Timely(s)' /\ Honest(s)' /\ Exact(s)'
<1>1. Timely(s) /\ Honest(s) /\ Exact(s)
  BY DEF IInv
<1>2. Timely(s)' BY <1>1 DEF Timely
<1>3. Honest(s)' BY <1>1 DEF Honest
<1>4. Exact(s)'  BY <1>1 DEF Exact
<1> QED BY <1>2, <1>3, <1>4

\* A failure is about to be written, or has broken the connection.
LEMMA FailStep ==
    ASSUME IInv, NEW r \in Requests, NEW status \in Int, pc[r] \in {"unsent", "serve"},
           Fail(r, status), UNCHANGED <<proc, now, deadline, signalled, req, alive>>
    PROVE  IInv'
<1>1. Typed /\ Timely(r) /\ Honest(r)
  BY DEF IInv
<1>2. CASE ValidStatus(status)
  <2> DEFINE p == Headed(status, FALSE, Unset)
  <2>1. /\ p \in Response /\ p.status = FinalStatus(status) /\ p.list = FALSE
        /\ p.length = Unset /\ p.parts = 0 /\ p.written = 0 /\ p.sent = 0 /\ p.got = 0
        /\ p.status # 0
    <3>1. FALSE \in BOOLEAN /\ Unset \in Int /\ KnownLength(Unset) = Unset
      BY DEF Unset, KnownLength
    <3> QED BY <1>2, <3>1, HeadedTyped
  <2>2. /\ asked' = [asked EXCEPT ![r] = status] /\ resp' = [resp EXCEPT ![r] = p]
        /\ pc' = [pc EXCEPT ![r] = "write"] /\ UNCHANGED <<seen, until>>
    BY <1>2 DEF Fail, Goto
  <2> HIDE DEF p
  <2>3. Typed'
    BY <1>1, <2>1, <2>2 DEF Typed, TypeOK
  <2>4. \A s \in Requests : s # r => Timely(s)' /\ Honest(s)' /\ Exact(s)'
    BY <1>1, <2>2, OthersKept DEF Typed, TypeOK
  <2>5. /\ pc'[r] = "write" /\ resp'[r] = p /\ asked'[r] = status
        /\ seen'[r] = "nothing"
    BY <1>1, <2>2 DEF Typed, TypeOK, Honest
  <2>6. Timely(r)' /\ Honest(r)' /\ Exact(r)'
    BY <1>2, <2>1, <2>5 DEF Timely, Honest, Exact
  <2> QED BY <2>3, <2>4, <2>6 DEF IInv
<1>3. CASE ~ValidStatus(status)
  <2>1. /\ asked' = [asked EXCEPT ![r] = status] /\ UNCHANGED <<resp, until>>
        /\ pc' = [pc EXCEPT ![r] = "done"]
        /\ seen' = [seen EXCEPT ![r] = IF alive[r] THEN "broken" ELSE "nothing"]
    BY <1>3 DEF Fail, Goto, Return
  <2>2. Typed'
    BY <1>1, <2>1 DEF Typed, TypeOK
  <2>3. \A s \in Requests : s # r => Timely(s)' /\ Honest(s)' /\ Exact(s)'
    BY <1>1, <2>1, OthersKept DEF Typed, TypeOK
  <2>4. /\ pc'[r] = "done" /\ resp'[r] = NoResponse /\ asked'[r] = status
        /\ seen'[r] \in {"broken", "nothing"}
    BY <1>1, <2>1 DEF Typed, TypeOK, Honest
  <2>5. Timely(r)' /\ Honest(r)' /\ Exact(r)'
    BY <1>3, <2>4, NoResponseTyped DEF Timely, Honest, Exact
  <2> QED BY <2>2, <2>3, <2>5 DEF IInv
<1> QED BY <1>2, <1>3

LEMMA ArriveStep ==
    ASSUME IInv, NEW r \in Requests, Arrive(r)
    PROVE  IInv'
<1>1. Typed /\ Timely(r) /\ Honest(r)
  BY DEF IInv
<1>2. CASE req[r].rule # 0
  <2>1. req[r].rule \in Int
    BY <1>1, TrafficTyped DEF Typed, TypeOK, Request
  <2> QED BY <1>2, <2>1, FailStep DEF Arrive
<1>3. CASE req[r].rule = 0
  <2>1. /\ pc' = [pc EXCEPT ![r] = "serve"] /\ proc = "listening" /\ pc[r] = "unsent"
        /\ UNCHANGED <<proc, now, deadline, signalled, req, until, resp, alive, asked, seen>>
    BY <1>3 DEF Arrive, Goto
  <2>2. Typed'
    BY <1>1, <2>1 DEF Typed, TypeOK
  <2>3. \A s \in Requests : s # r => Timely(s)' /\ Honest(s)' /\ Exact(s)'
    BY <1>1, <2>1, OthersKept DEF Typed, TypeOK
  <2>4. pc'[r] = "serve" /\ resp[r] = NoResponse /\ asked[r] = 200 /\ seen[r] = "nothing"
    BY <1>1, <2>1 DEF Typed, TypeOK, Honest
  <2>5. Timely(r)' /\ Honest(r)' /\ Exact(r)'
    BY <2>1, <2>4, NoResponseTyped DEF Timely, Honest, Exact
  <2> QED BY <2>1, <2>2, <2>3, <2>5 DEF IInv
<1> QED BY <1>2, <1>3

LEMMA ServeStep ==
    ASSUME IInv, NEW r \in Requests, Serve(r)
    PROVE  IInv'
<1>1. Typed /\ Timely(r) /\ Honest(r) /\ pc[r] = "serve"
  BY DEF IInv, Serve
<1>2. PICK h \in Hashes :
        IF req[r].kind \in Lists \cup {"chat"} /\ ShouldInject(h, FailRate)
        THEN Fail(r, IF req[r].kind = "chat" THEN ErrorStatus ELSE 500)
        ELSE /\ Goto(r, "sleep")
             /\ until' = [until EXCEPT ![r] = now + RandomDelay(h, MinDelay, MaxDelay)]
             /\ UNCHANGED <<resp, asked, seen>>
  BY DEF Serve
<1>3. UNCHANGED <<proc, now, deadline, signalled, req, alive>>
  BY DEF Serve
<1>4. CASE req[r].kind \in Lists \cup {"chat"} /\ ShouldInject(h, FailRate)
  <2>1. PICK status \in Int : Fail(r, status)
    BY <1>2, <1>4, ServingAssumption
  <2> QED BY <1>1, <1>3, <2>1, FailStep
<1>5. CASE ~(req[r].kind \in Lists \cup {"chat"} /\ ShouldInject(h, FailRate))
  <2> DEFINE delay == RandomDelay(h, MinDelay, MaxDelay)
  <2>1. /\ pc' = [pc EXCEPT ![r] = "sleep"] /\ until' = [until EXCEPT ![r] = now + delay]
        /\ UNCHANGED <<resp, asked, seen>> /\ delay \in Nat
    BY <1>2, <1>5, DelayTyped DEF Goto
  <2> HIDE DEF delay
  <2>2. Typed'
    BY <1>1, <1>3, <2>1 DEF Typed, TypeOK
  <2>3. \A s \in Requests : s # r => Timely(s)' /\ Honest(s)' /\ Exact(s)'
    BY <1>1, <1>3, <2>1, OthersKept DEF Typed, TypeOK
  <2>4. /\ pc'[r] = "sleep" /\ until'[r] = now + delay /\ now \in Nat
        /\ resp[r] = NoResponse /\ asked[r] = 200 /\ seen[r] = "nothing"
    BY <1>1, <2>1 DEF Typed, TypeOK, Honest
  <2>5. Timely(r)' /\ Honest(r)' /\ Exact(r)'
    BY <1>3, <2>1, <2>4, NoResponseTyped DEF Timely, Honest, Exact
  <2> QED BY <1>3, <2>2, <2>3, <2>5 DEF IInv
<1> QED BY <1>4, <1>5

LEMMA WakeStep ==
    ASSUME IInv, NEW r \in Requests, Wake(r)
    PROVE  IInv'
<1> DEFINE q == req[r]
           announced == CASE q.kind \in Lists -> Total(q)
                       [] q.kind = "speech" -> 1
                       [] q.kind \in {"transcription", "chat"} -> Unset
           p == Headed(200, q.kind \in Lists, announced)
<1>1. Typed /\ Timely(r) /\ Honest(r) /\ pc[r] = "sleep"
  BY DEF IInv, Wake
<1>2. /\ q \in Request /\ q.kind \in Kinds
      /\ q.kind \in Lists => q.kind \notin {"speech", "transcription", "chat"}
  BY <1>1, TrafficTyped DEF Typed, TypeOK, Request, Lists
<1>3. /\ announced \in Int
      /\ q.kind \in Lists => announced = Total(q)
      /\ q.kind \notin Lists => KnownLength(announced) \in {1, Unset}
  <2>1. CASE q.kind \in Lists
    <3>1. Total(q) \in Int
      BY <1>2, <2>1, TotalTyped
    <3> QED BY <1>2, <2>1, <3>1
  <2>2. CASE q.kind \notin Lists
    BY <1>2, <2>2 DEF Kinds, KnownLength, Unset
  <2> QED BY <2>1, <2>2
<1>4. /\ pc' = [pc EXCEPT ![r] = "write"] /\ resp' = [resp EXCEPT ![r] = p]
      /\ UNCHANGED <<proc, now, deadline, signalled, req, until, alive, asked, seen>>
  BY DEF Wake, Goto
<1> HIDE DEF announced
<1>5. /\ p \in Response /\ p.status = 200 /\ (p.list <=> q.kind \in Lists)
      /\ p.length = KnownLength(announced)
      /\ p.parts = 0 /\ p.written = 0 /\ p.sent = 0 /\ p.got = 0
      /\ FinalStatus(200) = 200 /\ ValidStatus(200)
  <2>1. FinalStatus(200) = 200 /\ ValidStatus(200)
    BY DEF FinalStatus, ValidStatus
  <2>2. CASE q.kind \in Lists
    <3>1. (q.kind \in Lists) = TRUE
      BY <2>2
    <3>2. p = Headed(200, TRUE, announced)
      BY <3>1, Zenon
    <3> DEFINE h == Headed(200, TRUE, announced)
    <3>3. /\ h \in Response /\ h.status = 200 /\ h.list = TRUE
          /\ h.length = KnownLength(announced)
          /\ h.parts = 0 /\ h.written = 0 /\ h.sent = 0 /\ h.got = 0
      <4>1. TRUE \in BOOLEAN /\ announced \in Int
        BY <1>3
      <4> QED BY <4>1, HeadedOK
    <3> HIDE DEF h, p
    <3>4. p = h
      BY <3>2 DEF h
    <3> QED BY <2>1, <2>2, <3>3, <3>4
  <2>3. CASE q.kind \notin Lists
    <3>1. (q.kind \in Lists) = FALSE
      BY <2>3
    <3>2. p = Headed(200, FALSE, announced)
      BY <3>1, Zenon
    <3> DEFINE h == Headed(200, FALSE, announced)
    <3>3. /\ h \in Response /\ h.status = 200 /\ h.list = FALSE
          /\ h.length = KnownLength(announced)
          /\ h.parts = 0 /\ h.written = 0 /\ h.sent = 0 /\ h.got = 0
      <4>1. FALSE \in BOOLEAN /\ announced \in Int
        BY <1>3
      <4> QED BY <4>1, HeadedOK
    <3> HIDE DEF h, p
    <3>4. p = h
      BY <3>2 DEF h
    <3> QED BY <2>1, <2>3, <3>3, <3>4
  <2> QED BY <2>2, <2>3
<1> HIDE DEF p
<1>6. Typed'
  BY <1>1, <1>4, <1>5 DEF Typed, TypeOK
<1>7. \A s \in Requests : s # r => Timely(s)' /\ Honest(s)' /\ Exact(s)'
  BY <1>1, <1>4, OthersKept DEF Typed, TypeOK
<1>8. pc'[r] = "write" /\ resp'[r] = p /\ asked'[r] = 200 /\ seen'[r] = "nothing"
  BY <1>1, <1>4 DEF Typed, TypeOK, Honest
<1>9. Timely(r)'
  BY <1>5, <1>8 DEF Timely
<1>10. Honest(r)'
  BY <1>3, <1>5, <1>8 DEF Honest
<1>11. Exact(r)'
  <2>1. CASE q.kind \in Lists
    <3>1. Sum(q, 0) = 0 /\ Parts(q) \in Nat /\ 0 < Parts(q)
      BY <1>2, <2>1, Sizes DEF Sum
    <3>2. p.length = KnownLength(Total(q)) /\ req'[r] = q
      BY <1>3, <1>4, <1>5, <2>1
    <3> QED BY <1>5, <1>8, <2>1, <3>1, <3>2 DEF Exact
  <2>2. CASE q.kind \notin Lists
    BY <1>5, <1>8, <2>2 DEF Exact
  <2> QED BY <2>1, <2>2
<1> QED BY <1>4, <1>6, <1>7, <1>9, <1>10, <1>11 DEF IInv

LEMMA AbandonStep ==
    ASSUME IInv, NEW r \in Requests, Abandon(r)
    PROVE  IInv'
<1>1. Typed /\ Timely(r) /\ Honest(r) /\ pc[r] = "sleep" /\ ~alive[r]
  BY DEF IInv, Abandon
<1>2. /\ pc' = [pc EXCEPT ![r] = "done"] /\ seen' = [seen EXCEPT ![r] = "nothing"]
      /\ UNCHANGED <<proc, now, deadline, signalled, req, until, resp, alive, asked>>
  BY <1>1 DEF Abandon, Return, Goto
<1>3. Typed'
  BY <1>1, <1>2 DEF Typed, TypeOK
<1>4. \A s \in Requests : s # r => Timely(s)' /\ Honest(s)' /\ Exact(s)'
  BY <1>1, <1>2, OthersKept DEF Typed, TypeOK
<1>5. pc'[r] = "done" /\ resp'[r] = NoResponse /\ ~alive'[r] /\ seen'[r] = "nothing"
  BY <1>1, <1>2 DEF Typed, TypeOK, Honest
<1>6. Timely(r)' /\ Honest(r)' /\ Exact(r)'
  BY <1>5, NoResponseTyped DEF Timely, Honest, Exact
<1> QED BY <1>2, <1>3, <1>4, <1>6 DEF IInv

LEMMA LeaveStep ==
    ASSUME IInv, NEW r \in Requests, Leave(r)
    PROVE  IInv'
<1>1. Typed /\ Timely(r) /\ Honest(r) /\ Exact(r) /\ pc[r] \in {"serve", "sleep", "write"}
  BY DEF IInv, Leave, InService
<1>2. /\ alive' = [alive EXCEPT ![r] = FALSE]
      /\ UNCHANGED <<proc, now, deadline, signalled, req, pc, until, resp, asked, seen>>
  BY DEF Leave
<1>3. Typed'
  BY <1>1, <1>2 DEF Typed, TypeOK
<1>4. \A s \in Requests : s # r => Timely(s)' /\ Honest(s)' /\ Exact(s)'
  BY <1>1, <1>2, OthersKept DEF Typed, TypeOK
<1>5. Timely(r)' /\ Honest(r)' /\ Exact(r)'
  BY <1>1, <1>2 DEF Timely, Honest, Exact
<1> QED BY <1>2, <1>3, <1>4, <1>5 DEF IInv

\* One more part: of a list the next one, of which the announced length has
\* room, and of a plain body the only one.
LEMMA WriteStep ==
    ASSUME IInv, NEW r \in Requests, Write(r)
    PROVE  IInv'
<1> DEFINE q == req[r]
           p == resp[r]
           last == IF p.list THEN Parts(q) ELSE 1
           size == IF p.list THEN PartSize(q, p.parts + 1) ELSE 1
           p2 == Written(p, size)
           verdict == IF Complete(p2) THEN "whole" ELSE "broken"
<1>1. /\ Typed /\ Timely(r) /\ Honest(r) /\ Exact(r) /\ pc[r] = "write"
      /\ q \in Request /\ p \in Response /\ p.sent <= p.written /\ p.got <= p.parts
  BY TrafficTyped DEF IInv, Write, Typed, TypeOK
<1>2. /\ resp' = [resp EXCEPT ![r] = p2]
      /\ IF p2.parts = last
         THEN /\ pc' = [pc EXCEPT ![r] = "done"]
              /\ seen' = [seen EXCEPT ![r] = IF alive[r] THEN verdict ELSE "nothing"]
         ELSE UNCHANGED <<pc, seen>>
      /\ UNCHANGED <<proc, now, deadline, signalled, req, until, alive, asked>>
  BY DEF Write, Return, Goto
<1>3. /\ p.list => q.kind \in Lists /\ p.parts \in 0 .. Parts(q) - 1
      /\ size \in Nat
  <2>1. CASE p.list
    <3>1. q.kind \in Lists /\ p.parts \in 0 .. Parts(q) - 1
      <4>1. q.kind \in Lists /\ p.parts \in 0 .. Parts(q) /\ p.parts < Parts(q)
        BY <1>1, <2>1 DEF Exact
      <4>2. Parts(q) \in Nat
        BY <1>1, <4>1, Sizes
      <4> QED BY <4>1, <4>2
    <3> QED BY <1>1, <2>1, <3>1, SumStep
  <2>2. CASE ~p.list
    BY <2>2
  <2> QED BY <2>1, <2>2
<1> HIDE DEF size
<1>4. /\ p2 \in Response /\ p2.sent <= p2.written /\ p2.got <= p2.parts
      /\ p2.status = p.status /\ p2.list = p.list /\ p2.length = p.length
      /\ p2.parts = p.parts + 1 /\ p2.written = p.written + size
      /\ BodyAllowed(p.status) /\ (p.length = Unset \/ p.written + size <= p.length) =>
             p2.sent = p.sent + size /\ p2.got = p.got + 1
  BY <1>1, <1>3, WrittenTyped
<1>5. verdict \in {"whole", "broken"} /\ (verdict = "whole" <=> Complete(p2))
  OBVIOUS
<1> HIDE DEF p2, verdict
<1>6. Typed'
  BY <1>1, <1>2, <1>4, <1>5 DEF Typed, TypeOK
<1>7. \A s \in Requests : s # r => Timely(s)' /\ Honest(s)' /\ Exact(s)'
  BY <1>1, <1>2, OthersKept DEF Typed, TypeOK
<1>8. /\ resp'[r] = p2 /\ req'[r] = q /\ asked'[r] = asked[r] /\ alive'[r] = alive[r]
      /\ seen[r] = "nothing" /\ ValidStatus(asked[r]) /\ p.status = FinalStatus(asked[r])
      /\ p.status # 0
      /\ \/ p2.parts = last /\ pc'[r] = "done"
            /\ seen'[r] = IF alive[r] THEN verdict ELSE "nothing"
         \/ p2.parts # last /\ pc'[r] = "write" /\ seen'[r] = "nothing"
  BY <1>1, <1>2 DEF Typed, TypeOK, Honest, Timely
<1>9. Timely(r)'
  BY <1>4, <1>8 DEF Timely
<1>10. ASSUME ~p.list PROVE Honest(r)' /\ Exact(r)'
  <2>1. /\ p.parts = 0 /\ p.written = 0 /\ p.sent = 0 /\ size = 1 /\ last = 1
        /\ p.length = Unset \/ (p.length = 1 /\ p.status = 200)
    BY <1>1, <1>10 DEF Honest, FinalStatus, size
  <2>2. Complete(p2)
    BY <1>4, <2>1 DEF Complete, BodyAllowed
  <2> QED BY <1>4, <1>5, <1>8, <1>10, <2>1, <2>2 DEF Honest, Exact
<1>11. ASSUME p.list PROVE Honest(r)' /\ Exact(r)'
  <2>1. Honest(r)'
    BY <1>4, <1>5, <1>8, <1>11 DEF Honest
  <2>2. /\ q.kind \in Lists /\ p.status = 200 /\ p.length = KnownLength(Total(q))
        /\ p.written = Sum(q, p.parts) /\ p.parts \in 0 .. Parts(q) - 1
        /\ ~Misannounced(q) => p.got = p.parts /\ p.sent = p.written
        /\ last = Parts(q) /\ size = PartSize(q, p.parts + 1)
    BY <1>1, <1>3, <1>11 DEF Exact, size
  <2>3. /\ p2.written = Sum(q, p2.parts) /\ p2.parts \in 0 .. Parts(q)
        /\ p2.parts # last => p2.parts < Parts(q)
        /\ Parts(q) \in Nat
    <3>1. Sum(q, p.parts + 1) = Sum(q, p.parts) + PartSize(q, p.parts + 1)
      BY <1>1, <2>2, SumStep
    <3>2. Parts(q) \in Nat
      BY <1>1, <2>2, Sizes
    <3> QED BY <1>4, <2>2, <3>1, <3>2
  <2>4. ASSUME ~Misannounced(q)
        PROVE  /\ p2.got = p2.parts /\ p2.sent = p2.written
               /\ p2.parts = last => Complete(p2)
    <3>1. CASE Count(q) >= 0
      <4>1. /\ p2.written <= Total(q) /\ Total(q) \in Nat
            /\ Sum(q, Parts(q)) = Total(q)
        BY <1>1, <2>2, <2>3, <3>1, SumBounded
      <4>2. p.length = Total(q)
        BY <2>2, <4>1 DEF KnownLength
      <4>3. p2.got = p2.parts /\ p2.sent = p2.written
        BY <1>4, <2>2, <2>4, <4>1, <4>2 DEF BodyAllowed
      <4>4. p2.parts = last => p2.written = Total(q)
        BY <2>2, <2>3, <4>1
      <4> QED BY <1>4, <4>2, <4>3, <4>4 DEF Complete
    <3>2. CASE ~(Count(q) >= 0)
      <4>1. p.length = Unset
        <5>1. Total(q) \in Int /\ Count(q) \in Int
          BY <1>1, <2>2, Sizes, TotalTyped
        <5>2. Total(q) < 0
          BY <2>4, <3>2, <5>1 DEF Misannounced
        <5> QED BY <2>2, <5>2 DEF KnownLength
      <4> QED BY <1>4, <2>2, <2>4, <4>1 DEF BodyAllowed, Complete
    <3> QED BY <3>1, <3>2
  <2>5. Exact(r)'
    BY <1>4, <1>5, <1>8, <1>11, <2>2, <2>3, <2>4 DEF Exact
  <2> QED BY <2>1, <2>5
<1> QED BY <1>2, <1>6, <1>7, <1>9, <1>10, <1>11 DEF IInv

-----------------------------------------------------------------------------
(* The steps of the process.                                               *)

\* Starting, the signal and the passing of time leave the responses alone.
LEMMA ProcessStep ==
    ASSUME IInv, Listen \/ Signal \/ Tick
    PROVE  IInv'
<1>1. Typed /\ (proc = "draining" => deadline = signalled + Grace)
  BY DEF IInv
<1>2. UNCHANGED requests
  BY DEF Listen, Signal, Tick
<1>3. Typed'
  <2>1. CASE Listen BY <1>1, <1>2, <2>1 DEF Listen, Typed, TypeOK, requests
  <2>2. CASE Signal
    <3>1. now + Grace \in 0 .. MaxClock
      BY <1>1, <2>2, ServingAssumption DEF Signal, Typed, TypeOK
    <3> QED BY <1>1, <1>2, <2>2, <3>1 DEF Signal, Typed, TypeOK, requests
  <2>3. CASE Tick
    <3>1. now + 1 \in 0 .. MaxClock
      BY <1>1, <2>3, ServingAssumption DEF Tick, Typed, TypeOK
    <3> QED BY <1>1, <1>2, <2>3, <3>1 DEF Tick, Typed, TypeOK, requests
  <2> QED BY <2>1, <2>2, <2>3
<1>4. proc' = "draining" => deadline' = signalled' + Grace
  BY <1>1 DEF Listen, Signal, Tick
<1>5. ASSUME NEW r \in Requests PROVE Timely(r)' /\ Honest(r)' /\ Exact(r)'
  <2>1. Timely(r) /\ Honest(r) /\ Exact(r)
    BY DEF IInv
  <2>2. Honest(r)' /\ Exact(r)'
    BY <1>2, <2>1 DEF requests, Honest, Exact
  <2>3. Timely(r)'
    <3>1. CASE Listen BY <1>2, <2>1, <3>1 DEF Listen, requests, Timely
    <3>2. CASE Signal BY <1>2, <2>1, <3>2 DEF Signal, requests, Timely
    <3>3. CASE Tick
      <4>1. now \in Nat /\ until[r] \in Nat
        BY <1>1 DEF Typed, TypeOK
      <4> QED BY <1>2, <2>1, <3>3, <4>1 DEF Tick, requests, Timely
    <3> QED BY <3>1, <3>2, <3>3
  <2> QED BY <2>2, <2>3
<1> QED BY <1>3, <1>4, <1>5 DEF IInv

\* The process goes down; what is in service then has waited for as long as the
\* five seconds, or is being written.
LEMMA ExitStep ==
    ASSUME IInv, Drained \/ GraceOver
    PROVE  IInv'
<1>1. Typed /\ (proc = "draining" => deadline = signalled + Grace) /\ proc = "draining"
  BY DEF IInv, Drained, GraceOver
<1>2. proc' = "down"
  BY DEF Drained, GraceOver
<1>3. CASE Drained
  <2>1. Typed'
    BY <1>1, <1>3 DEF Drained, requests, Typed, TypeOK
  <2>2. ASSUME NEW r \in Requests PROVE Timely(r)' /\ Honest(r)' /\ Exact(r)'
    <3>1. Timely(r) /\ Honest(r) /\ Exact(r) /\ ~InService(r)
      BY <1>3 DEF IInv, Drained
    <3>2. UNCHANGED <<signalled, requests>>
      BY <1>3 DEF Drained
    <3> QED BY <1>1, <1>2, <3>1, <3>2 DEF requests, InService, Timely, Honest, Exact
  <2> QED BY <1>2, <2>1, <2>2 DEF IInv
<1>4. CASE GraceOver
  <2>1. /\ pc' = [r \in Requests |-> IF InService(r) THEN "cut" ELSE pc[r]]
        /\ seen' = [r \in Requests |->
                       IF ~InService(r) \/ ~alive[r] THEN seen[r] ELSE "broken"]
        /\ now >= signalled + Grace
        /\ UNCHANGED <<now, deadline, signalled, req, until, resp, alive, asked>>
    BY <1>1, <1>4 DEF GraceOver
  <2>2. Typed'
    BY <1>1, <1>2, <2>1 DEF Typed, TypeOK
  <2>3. ASSUME NEW r \in Requests PROVE Timely(r)' /\ Honest(r)' /\ Exact(r)'
    <3>1. Timely(r) /\ Honest(r) /\ Exact(r)
      BY DEF IInv
    <3>2. now \in Nat /\ signalled \in Nat /\ until[r] \in Nat
      BY <1>1 DEF Typed, TypeOK
    <3>3. CASE InService(r)
      <4>1. /\ pc'[r] = "cut" /\ seen'[r] \in {"nothing", "broken"}
            /\ pc[r] \in {"serve", "sleep", "write"}
        BY <2>1, <3>1, <3>3 DEF InService, Honest
      <4>2. until[r] >= signalled + Grace \/ resp[r].status # 0
        BY <1>1, <2>1, <3>1, <3>2, <4>1, ServingAssumption DEF Timely
      <4>3. Timely(r)'
        BY <1>2, <2>1, <4>1, <4>2 DEF Timely
      <4> QED BY <2>1, <3>1, <4>1, <4>3 DEF Honest, Exact
    <3>4. CASE ~InService(r)
      <4>1. pc'[r] = pc[r] /\ seen'[r] = seen[r]
        BY <2>1, <3>4
      <4> QED BY <1>1, <1>2, <2>1, <3>1, <3>4, <4>1 DEF InService, Timely, Honest, Exact
    <3> QED BY <3>3, <3>4
  <2> QED BY <1>2, <2>2, <2>3 DEF IInv
<1> QED BY <1>3, <1>4

-----------------------------------------------------------------------------
LEMMA NextIInv == IInv /\ [Next]_vars => IInv'
<1> SUFFICES ASSUME IInv, [Next]_vars PROVE IInv'
  OBVIOUS
<1>1. ASSUME NEW r \in Requests, Arrive(r) \/ Handle(r) \/ Write(r) \/ Leave(r)
      PROVE  IInv'
  BY <1>1, ArriveStep, ServeStep, WakeStep, AbandonStep, WriteStep, LeaveStep DEF Handle
<1>2. CASE Listen \/ Signal \/ Tick
  BY <1>2, ProcessStep
<1>3. CASE Drained \/ GraceOver
  BY <1>3, ExitStep
<1>4. CASE UNCHANGED vars
  BY <1>4 DEF vars, requests, IInv, Typed, TypeOK, Timely, Honest, Exact
<1> QED BY <1>1, <1>2, <1>3, <1>4 DEF Next

LEMMA Invariance == Spec => []IInv
BY InitIInv, NextIInv, PTL DEF Spec

\* Types, and that no more is ever taken of a response than was written to it.
THEOREM ServingTyped == Spec => []TypeOK
<1>1. IInv => TypeOK
  BY DEF IInv, Typed
<1> QED BY <1>1, Invariance, PTL

\* A list of media is whole for every client that stayed until its handler
\* returned, and nothing else is taken for a whole one, for every n and all
\* sizes of its parts: the announced length is the length written.
THEOREM MediaAlwaysWhole == Spec => []MediaAreWhole
<1>1. IInv => MediaAreWhole
  <2> SUFFICES ASSUME IInv, NEW r \in Requests, resp[r].list, ~Misannounced(req[r])
               PROVE  /\ pc[r] = "done" /\ alive[r] => seen[r] = "whole"
                      /\ seen[r] = "whole" =>
                            resp[r].got = 2 + (IF req[r].n > 0 THEN req[r].n
                                               ELSE IF req[r].multipart THEN 0 ELSE 1)
    BY DEF MediaAreWhole
  <2>1. Exact(r) /\ req[r] \in Request
    BY TrafficTyped DEF IInv, Typed, TypeOK
  <2>2. seen[r] = "whole" => resp[r].got = Parts(req[r])
    BY <2>1 DEF Exact
  <2>3. Parts(req[r]) = 2 + (IF req[r].n > 0 THEN req[r].n
                             ELSE IF req[r].multipart THEN 0 ELSE 1)
    BY <2>1 DEF Request, Parts, Entries, Count
  <2> QED BY <2>1, <2>2, <2>3 DEF Exact
<1> QED BY <1>1, Invariance, PTL

\* No failure is taken for a success, whatever status file, environment or rule
\* ask for, but those of 100 to 199.
THEOREM FailuresAlwaysArrive == Spec => []FailuresArrive
<1>1. IInv => FailuresArrive
  BY DEF IInv, Honest, FailuresArrive, FinalStatus
<1> QED BY <1>1, Invariance, PTL

\* The end of the process cuts off only what the five seconds were not enough
\* for, or what its client was being sent.
THEOREM OnlySlowIsCut == Spec => []CutOnlyIfSlow
<1>1. IInv => CutOnlyIfSlow
  BY DEF IInv, Timely, CutOnlyIfSlow
<1> QED BY <1>1, Invariance, PTL
=============================================================================
