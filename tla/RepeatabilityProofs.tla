------------------------ MODULE RepeatabilityProofs ------------------------
(***************************************************************************)
(* Theorems about Repeatability, for any clients, loads, hash values and   *)
(* rates: what a request is answered is a function of the hash and of how  *)
(* many numbers were taken before it, so a second run repeats the first    *)
(* wherever the numbers come in the same order or do not matter, and       *)
(* repeats the number of failures where only their order can differ.       *)
(***************************************************************************)
EXTENDS Repeatability, FiniteSetTheorems, SequenceTheorems, TLAPS

-----------------------------------------------------------------------------
(* What a request is answered when n numbers have been taken before it.    *)

Given == [hit : BOOLEAN, no : Nat, delay : Int]

\* The error injection hits it.
HitBy(q, n) ==
    q.kind # "gemini stream" /\ ShouldInject(hash[InjectKey(q, n + 1)], FailRate)

\* The number in its id: a stream takes two.
Last(q, n) == IF q.kind = "stream" THEN n + 2 ELSE n + 1

Used(q, n) == IF q.kind \in ByContent THEN 0
              ELSE IF q.kind = "stream" /\ ~HitBy(q, n) THEN 2 ELSE 1

Told(q, n) ==
    IF HitBy(q, n) THEN Failure
    ELSE Answer(FALSE, IF q.kind \in ByContent THEN 0 ELSE Last(q, n),
                RandomDelay(hash[DelayKey(q, Last(q, n))], MinDelay, MaxDelay))

\* The hashes that the answer hangs on have been asked.
Known(q, n) ==
    /\ InjectKey(q, n + 1) \in DOMAIN hash
    /\ (q.kind = "stream" /\ HitBy(q, n)) \/ DelayKey(q, Last(q, n)) \in DOMAIN hash

\* What has been asked is never answered otherwise.
HashGrows == \A k \in DOMAIN hash : k \in DOMAIN hash' /\ hash'[k] = hash[k]

LEMMA KnownStays ==
    ASSUME NEW q, NEW n, HashGrows, Known(q, n)
    PROVE  Known(q, n)' /\ Told(q, n)' = Told(q, n) /\ Used(q, n)' = Used(q, n)
<1>1. hash'[InjectKey(q, n + 1)] = hash[InjectKey(q, n + 1)] /\ InjectKey(q, n + 1) \in DOMAIN hash'
  BY DEF HashGrows, Known
<1>2. HitBy(q, n)' <=> HitBy(q, n)
  BY <1>1 DEF HitBy
<1>3. CASE q.kind = "stream" /\ HitBy(q, n)
  BY <1>1, <1>2, <1>3 DEF Known, Told, Used
<1>4. CASE DelayKey(q, Last(q, n)) \in DOMAIN hash
  <2>1. /\ hash'[DelayKey(q, Last(q, n))] = hash[DelayKey(q, Last(q, n))]
        /\ DelayKey(q, Last(q, n)) \in DOMAIN hash'
    BY <1>4 DEF HashGrows
  <2>2. QED
    BY <1>1, <1>2, <2>1 DEF Known, Told, Used
<1>5. QED
  BY <1>3, <1>4 DEF Known

\* Where the content decides, it does not matter how many numbers were taken.
LEMMA ContentDecides ==
    ASSUME NEW q, NEW n, q.kind \in ByContent
    PROVE  /\ (Known(q, n) <=> Known(q, 0)) /\ Told(q, n) = Told(q, 0)
           /\ (Known(q, n)' <=> Known(q, 0)') /\ Told(q, n)' = Told(q, 0)'
<1>1. InjectKey(q, n + 1) = InjectKey(q, 0 + 1) /\ q.kind # "stream"
  BY DEF InjectKey, ByContent
<1>2. DelayKey(q, Last(q, n)) = DelayKey(q, Last(q, 0))
  BY DEF DelayKey
<1>3. (HitBy(q, n) <=> HitBy(q, 0)) /\ (HitBy(q, n)' <=> HitBy(q, 0)')
  BY <1>1 DEF HitBy
<1>4. QED
  BY <1>1, <1>2, <1>3 DEF Known, Told

-----------------------------------------------------------------------------
(* Types, and the steps taken apart once for all the invariants.           *)

RTyped ==
    /\ load \in Loads
    /\ run \in 1 .. 2
    /\ hash \in [DOMAIN hash -> Hashes]
    /\ globalSeq \in Nat
    /\ pc \in [Clients -> {"idle", "open", "poll"}]
    /\ answers \in [1 .. 2 -> [Clients -> Seq(Given)]]
    /\ \A c \in Clients :
         /\ Answered(c) <= Len(load[c])
         /\ pc[c] # "idle" => Answered(c) < Len(load[c])
         /\ pc[c] = "open" => load[c][Answered(c) + 1].kind = "stream"
         /\ pc[c] = "poll" => load[c][Answered(c) + 1].kind = "job"
         /\ run = 1 => answers[2][c] = << >>
         /\ run = 2 => Len(answers[1][c]) = Len(load[c])

LEMMA LoadTyped ==
    ASSUME RTyped, NEW c \in Clients
    PROVE  /\ load[c] \in Seq(Request) /\ Len(load[c]) \in Nat
           /\ \A k \in 1 .. 2 : answers[k][c] \in Seq(Given) /\ Len(answers[k][c]) \in Nat
                                /\ DOMAIN answers[k][c] = 1 .. Len(answers[k][c])
           /\ Answered(c) \in Nat
<1>1. load \in [Clients -> Seq(Request)]
  BY RepeatabilityAssumption DEF RTyped
<1>2. load[c] \in Seq(Request)
  BY <1>1
<1>3. \A k \in 1 .. 2 : answers[k][c] \in Seq(Given)
  BY DEF RTyped
<1>4. \A k \in 1 .. 2 : Len(answers[k][c]) \in Nat /\ DOMAIN answers[k][c] = 1 .. Len(answers[k][c])
  BY <1>3, LenProperties
<1>5. Len(load[c]) \in Nat
  BY <1>2, LenProperties
<1>6. QED
  BY <1>2, <1>3, <1>4, <1>5 DEF RTyped, Answered

LEMMA DelayTyped ==
    ASSUME NEW h \in Hashes
    PROVE  /\ RandomDelay(h, MinDelay, MaxDelay) \in Int
           /\ ShouldInject(h, FailRate) \in BOOLEAN
<1>1. h \in Nat /\ MinDelay \in Nat /\ MaxDelay \in Nat
  BY RepeatabilityAssumption
<1>2. CASE MinDelay >= MaxDelay
  BY <1>1, <1>2 DEF RandomDelay, ShouldInject
<1>3. CASE ~(MinDelay >= MaxDelay)
  <2>1. MaxDelay - MinDelay \in Nat /\ MaxDelay - MinDelay > 0
    BY <1>1, <1>3
  <2>2. h % (MaxDelay - MinDelay) \in Int
    BY <1>1, <2>1
  <2>3. QED
    BY <1>1, <1>3, <2>2 DEF RandomDelay, ShouldInject
<1>4. QED
  BY <1>2, <1>3

LEMMA AskEffect ==
    ASSUME hash \in [DOMAIN hash -> Hashes], NEW keys, NEW f, Ask(keys, f)
    PROVE  /\ HashGrows
           /\ hash' \in [DOMAIN hash' -> Hashes]
           /\ \A k \in keys : k \in DOMAIN hash' /\ hash'[k] = f[k] /\ f[k] \in Hashes
<1>1. /\ f \in [keys -> Hashes]
      /\ \A k \in keys \cap DOMAIN hash : f[k] = hash[k]
      /\ hash' = [k \in keys \cup DOMAIN hash |-> IF k \in keys THEN f[k] ELSE hash[k]]
  BY DEF Ask
<1>2. DOMAIN hash' = keys \cup DOMAIN hash
  BY <1>1
<1>3. \A k \in keys \cup DOMAIN hash : hash'[k] = IF k \in keys THEN f[k] ELSE hash[k]
  BY <1>1
<1>4. HashGrows
  BY <1>1, <1>2, <1>3 DEF HashGrows
<1>5. QED
  BY <1>1, <1>2, <1>3, <1>4

\* Client c has one answer more, which is a; nothing else was answered.
Gets(c, a) ==
    /\ answers' \in [1 .. 2 -> [Clients -> Seq(Given)]]
    /\ Len(answers'[run][c]) = Answered(c) + 1
    /\ answers'[run][c][Answered(c) + 1] = a
    /\ \A i \in 1 .. Answered(c) : answers'[run][c][i] = answers[run][c][i]
    /\ \A k \in 1 .. 2, d \in Clients : k # run \/ d # c => answers'[k][d] = answers[k][d]

LEMMA GiveEffect ==
    ASSUME RTyped, NEW c \in Clients, NEW a \in Given, Give(c, a)
    PROVE  Gets(c, a)
<1>1. answers' = [answers EXCEPT ![run] = [answers[run] EXCEPT ![c] = Append(answers[run][c], a)]]
  BY DEF Give
<1>2. answers[run][c] \in Seq(Given) /\ run \in 1 .. 2
  BY LoadTyped DEF RTyped
<1>3. Append(answers[run][c], a) \in Seq(Given)
  BY <1>2
<1>4. answers' \in [1 .. 2 -> [Clients -> Seq(Given)]]
  BY <1>1, <1>2, <1>3 DEF RTyped
<1>5. answers'[run][c] = Append(answers[run][c], a)
  BY <1>1, <1>2 DEF RTyped
<1>6. \A k \in 1 .. 2, d \in Clients : k # run \/ d # c => answers'[k][d] = answers[k][d]
  BY <1>1, <1>2 DEF RTyped
<1>7. /\ Len(answers'[run][c]) = Len(answers[run][c]) + 1
      /\ answers'[run][c][Len(answers[run][c]) + 1] = a
      /\ \A i \in 1 .. Len(answers[run][c]) : answers'[run][c][i] = answers[run][c][i]
  BY <1>2, <1>5
<1>8. QED
  BY <1>4, <1>6, <1>7 DEF Gets, Answered

\* A request's first step answers it, or opens a stream.
LEMMA BeginEffect ==
    ASSUME RTyped, NEW c \in Clients, Begin(c), NEW q, NEW n,
           q = load[c][Answered(c) + 1], n = globalSeq
    PROVE  /\ pc[c] = "idle" /\ Answered(c) < Len(load[c]) /\ q \in Request /\ q.kind # "job"
           /\ UNCHANGED <<load, run>>
           /\ HashGrows /\ hash' \in [DOMAIN hash' -> Hashes]
           /\ \/ /\ pc' = pc /\ Known(q, n)' /\ globalSeq' = n + Used(q, n)'
                 /\ \E a \in Given : Gets(c, a) /\ a = Told(q, n)'
              \/ /\ pc' = [pc EXCEPT ![c] = "open"] /\ answers' = answers
                 /\ q.kind = "stream" /\ globalSeq' = n + 1
                 /\ InjectKey(q, n + 1) \in DOMAIN hash' /\ ~HitBy(q, n)'
<1>1. /\ pc[c] = "idle" /\ ~Over(c) /\ q.kind # "job" /\ UNCHANGED <<load, run, polls>>
      /\ globalSeq' = IF q.kind \in ByContent THEN n ELSE n + 1
  BY DEF Begin
<1>2. Answered(c) < Len(load[c]) /\ q \in Request
  <2>1. Answered(c) \in Nat /\ Len(load[c]) \in Nat /\ Answered(c) <= Len(load[c])
        /\ Answered(c) # Len(load[c]) /\ load[c] \in Seq(Request)
    BY <1>1, LoadTyped DEF RTyped, Over
  <2>2. Answered(c) + 1 \in 1 .. Len(load[c])
    BY <2>1
  <2>3. QED
    BY <2>1, <2>2, ElementOfSeq
<1> DEFINE i == InjectKey(q, n + 1)
           d == DelayKey(q, n + 1)
<1>3. PICK f : /\ Ask({i, d}, f)
               /\ IF q.kind # "gemini stream" /\ ShouldInject(f[i], FailRate)
                  THEN Give(c, Failure) /\ UNCHANGED pc
                  ELSE IF q.kind = "stream"
                  THEN pc' = [pc EXCEPT ![c] = "open"] /\ UNCHANGED answers
                  ELSE /\ Give(c, Answer(FALSE, IF q.kind \in ByContent THEN 0 ELSE n + 1,
                                         RandomDelay(f[d], MinDelay, MaxDelay)))
                       /\ UNCHANGED pc
  BY DEF Begin
<1>4. /\ HashGrows /\ hash' \in [DOMAIN hash' -> Hashes]
      /\ i \in DOMAIN hash' /\ hash'[i] = f[i] /\ f[i] \in Hashes
      /\ d \in DOMAIN hash' /\ hash'[d] = f[d] /\ f[d] \in Hashes
  <2>1. Ask({i, d}, f)
    BY <1>3
  <2>2. hash \in [DOMAIN hash -> Hashes]
    BY DEF RTyped
  <2> HIDE DEF i, d
  <2>3. QED
    BY <2>1, <2>2, AskEffect
<1>5. HitBy(q, n)' <=> q.kind # "gemini stream" /\ ShouldInject(f[i], FailRate)
  BY <1>4 DEF HitBy
<1>6. n \in Nat
  BY DEF RTyped
<1>7. CASE HitBy(q, n)'
  <2>1. Give(c, Failure) /\ UNCHANGED pc
    BY <1>3, <1>5, <1>7
  <2>2. Failure \in Given
    BY DEF Failure, Answer, Given
  <2>3. Gets(c, Failure)
    BY <2>1, <2>2, GiveEffect
  <2>4. Told(q, n)' = Failure
    BY <1>7 DEF Told
  <2>5. Known(q, n)'
    <3>1. q.kind = "stream" \/ Last(q, n) = n + 1
      BY DEF Last
    <3>2. QED
      BY <3>1, <1>4, <1>7 DEF Known
  <2>6. globalSeq' = n + Used(q, n)'
    BY <1>1, <1>6, <1>7 DEF Used
  <2>7. QED
    BY <1>1, <1>2, <1>4, <2>1, <2>2, <2>3, <2>4, <2>5, <2>6
<1>8. CASE ~HitBy(q, n)' /\ q.kind = "stream"
  BY <1>1, <1>2, <1>3, <1>4, <1>5, <1>8 DEF ByContent
<1>9. CASE ~HitBy(q, n)' /\ q.kind # "stream"
  <2> DEFINE a == Answer(FALSE, IF q.kind \in ByContent THEN 0 ELSE n + 1,
                         RandomDelay(f[d], MinDelay, MaxDelay))
  <2>1. Give(c, a) /\ UNCHANGED pc
    BY <1>3, <1>5, <1>9
  <2>2. a \in Given
    BY <1>4, <1>6, DelayTyped DEF Answer, Given
  <2>3. Gets(c, a)
    BY <2>1, <2>2, GiveEffect
  <2>4. Last(q, n) = n + 1
    BY <1>9 DEF Last
  <2>5. Told(q, n)' = a
    BY <1>4, <1>9, <2>4 DEF Told
  <2>6. Known(q, n)'
    BY <1>4, <2>4 DEF Known
  <2>7. globalSeq' = n + Used(q, n)'
    BY <1>1, <1>6, <1>9 DEF Used
  <2>8. QED
    BY <1>1, <1>2, <1>4, <2>1, <2>2, <2>3, <2>5, <2>6, <2>7
<1>10. QED
  BY <1>7, <1>8, <1>9

\* A stream's second number answers it.
LEMMA OpenEffect ==
    ASSUME RTyped, NEW c \in Clients, Open(c), NEW q, NEW n,
           q = load[c][Answered(c) + 1], n = globalSeq - 1
    PROVE  /\ pc[c] = "open" /\ pc' = [pc EXCEPT ![c] = "idle"]
           /\ Answered(c) < Len(load[c]) /\ q.kind = "stream"
           /\ UNCHANGED <<load, run>> /\ globalSeq' = n + 2
           /\ HashGrows /\ hash' \in [DOMAIN hash' -> Hashes]
           /\ DelayKey(q, Last(q, n)) \in DOMAIN hash'
           /\ \E a \in Given : Gets(c, a) /\ (~HitBy(q, n)' => a = Told(q, n)')
<1>1. /\ pc[c] = "open" /\ pc' = [pc EXCEPT ![c] = "idle"] /\ globalSeq' = globalSeq + 1
      /\ UNCHANGED <<load, run, polls>>
  BY DEF Open
<1>2. Answered(c) < Len(load[c]) /\ q.kind = "stream" /\ globalSeq \in Nat
  BY <1>1 DEF RTyped
<1>3. globalSeq + 1 = n + 2 /\ Last(q, n) = n + 2 /\ n + 2 \in Nat
  BY <1>2 DEF Last
<1> DEFINE d == DelayKey(q, n + 2)
           a == Answer(FALSE, n + 2, RandomDelay(hash'[d], MinDelay, MaxDelay))
<1>4. PICK f : Ask({d}, f) /\ Give(c, Answer(FALSE, n + 2, RandomDelay(f[d], MinDelay, MaxDelay)))
  BY <1>3 DEF Open
<1>5. /\ HashGrows /\ hash' \in [DOMAIN hash' -> Hashes]
      /\ d \in DOMAIN hash' /\ hash'[d] = f[d] /\ f[d] \in Hashes
  BY <1>4, AskEffect DEF RTyped
<1>6. a \in Given
  BY <1>3, <1>5, DelayTyped DEF Answer, Given
<1>7. Gets(c, a)
  BY <1>4, <1>5, <1>6, GiveEffect
<1>8. ~HitBy(q, n)' => Told(q, n)' = a
  BY <1>2, <1>3 DEF Told, ByContent
<1>9. QED
  BY <1>1, <1>2, <1>3, <1>5, <1>6, <1>7, <1>8

\* A poll goes on, or ends the job with an answer.
LEMMA PollEffect ==
    ASSUME RTyped, NEW c \in Clients, Poll(c)
    PROVE  /\ pc[c] = "poll" /\ UNCHANGED <<load, run, hash>> /\ globalSeq' = globalSeq + 1
           /\ Answered(c) < Len(load[c]) /\ load[c][Answered(c) + 1].kind = "job"
           /\ \/ UNCHANGED <<pc, answers>>
              \/ pc' = [pc EXCEPT ![c] = "idle"] /\ \E a \in Given : Gets(c, a)
<1>1. /\ pc[c] = "poll" /\ UNCHANGED <<load, run, hash>> /\ globalSeq' = globalSeq + 1
  BY DEF Poll
<1>2. Answered(c) < Len(load[c]) /\ load[c][Answered(c) + 1].kind = "job"
  BY <1>1 DEF RTyped
<1>3. CASE UNCHANGED <<pc, answers>>
  BY <1>1, <1>2, <1>3
<1>4. CASE pc' = [pc EXCEPT ![c] = "idle"]
           /\ \E h \in Hashes : Give(c, Answer(ShouldInject(h, FailRate), 0,
                                               RandomDelay(h, MinDelay, MaxDelay)))
  <2>1. PICK h \in Hashes : Give(c, Answer(ShouldInject(h, FailRate), 0,
                                           RandomDelay(h, MinDelay, MaxDelay)))
    BY <1>4
  <2> DEFINE a == Answer(ShouldInject(h, FailRate), 0, RandomDelay(h, MinDelay, MaxDelay))
  <2>2. a \in Given
    BY DelayTyped DEF Answer, Given
  <2>3. QED
    BY <1>1, <1>2, <1>4, <2>1, <2>2, GiveEffect
<1>5. QED
  BY <1>3, <1>4 DEF Poll

-----------------------------------------------------------------------------
(* RTyped is inductive.                                                    *)

\* The shape of a state after client c was answered.
LEMMA GetsTyped ==
    ASSUME RTyped, NEW c \in Clients, NEW a \in Given, Gets(c, a), UNCHANGED <<load, run>>,
           Answered(c) < Len(load[c]), pc' \in [Clients -> {"idle", "open", "poll"}],
           pc'[c] = "idle", \A d \in Clients \ {c} : pc'[d] = pc[d],
           hash' \in [DOMAIN hash' -> Hashes], globalSeq' \in Nat
    PROVE  RTyped'
<1>1. run \in 1 .. 2
  BY DEF RTyped
<1>2. \A d \in Clients \ {c} : \A k \in 1 .. 2 : answers'[k][d] = answers[k][d]
  BY DEF Gets
<1>3. \A d \in Clients \ {c} : Answered(d)' = Answered(d)
  BY <1>1, <1>2 DEF Answered
<1>4. Answered(c)' = Answered(c) + 1 /\ Answered(c)' <= Len(load[c])
  BY LoadTyped DEF Gets, Answered
<1>5. run = 1 => answers'[2][c] = answers[2][c]
  BY DEF Gets
<1>6. run = 2 => answers'[1][c] = answers[1][c]
  BY DEF Gets
<1>7. ASSUME NEW d \in Clients
      PROVE  /\ Answered(d)' <= Len(load'[d])
             /\ pc'[d] # "idle" => Answered(d)' < Len(load'[d])
             /\ pc'[d] = "open" => load'[d][Answered(d)' + 1].kind = "stream"
             /\ pc'[d] = "poll" => load'[d][Answered(d)' + 1].kind = "job"
             /\ run' = 1 => answers'[2][d] = << >>
             /\ run' = 2 => Len(answers'[1][d]) = Len(load'[d])
  <2>1. CASE d = c
    <3>1. Answered(c)' <= Len(load'[c]) /\ pc'[c] = "idle"
      BY <1>4
    <3>2. run' = 1 => answers'[2][c] = << >>
      BY <1>5 DEF RTyped
    <3>3. run' = 2 => Len(answers'[1][c]) = Len(load'[c])
      BY <1>6 DEF RTyped
    <3>4. QED
      BY <2>1, <3>1, <3>2, <3>3
  <2>2. CASE d # c
    <3>1. /\ Answered(d)' = Answered(d) /\ pc'[d] = pc[d] /\ load'[d] = load[d] /\ run' = run
          /\ answers'[1][d] = answers[1][d] /\ answers'[2][d] = answers[2][d]
      BY <2>2, <1>2, <1>3
    <3>2. QED
      BY <3>1 DEF RTyped
  <2>3. QED
    BY <2>1, <2>2
<1>8. answers' \in [1 .. 2 -> [Clients -> Seq(Given)]]
  BY DEF Gets
<1>9. QED
  BY <1>7, <1>8 DEF RTyped

\* The shape of a state in which nobody was answered.
LEMMA NoneAnsweredTyped ==
    ASSUME RTyped, NEW c \in Clients, UNCHANGED <<load, run, answers>>,
           NEW step \in {"idle", "open", "poll"}, pc' = [pc EXCEPT ![c] = step],
           Answered(c) < Len(load[c]),
           step = "open" => load[c][Answered(c) + 1].kind = "stream",
           step = "poll" => load[c][Answered(c) + 1].kind = "job",
           hash' \in [DOMAIN hash' -> Hashes], globalSeq' \in Nat
    PROVE  RTyped'
<1>1. \A d \in Clients : Answered(d)' = Answered(d)
  BY DEF Answered
<1>2. pc' \in [Clients -> {"idle", "open", "poll"}] /\ pc'[c] = step
      /\ \A d \in Clients \ {c} : pc'[d] = pc[d]
  BY DEF RTyped
<1>3. ASSUME NEW d \in Clients
      PROVE  /\ Answered(d)' <= Len(load'[d])
             /\ pc'[d] # "idle" => Answered(d)' < Len(load'[d])
             /\ pc'[d] = "open" => load'[d][Answered(d)' + 1].kind = "stream"
             /\ pc'[d] = "poll" => load'[d][Answered(d)' + 1].kind = "job"
             /\ run' = 1 => answers'[2][d] = << >>
             /\ run' = 2 => Len(answers'[1][d]) = Len(load'[d])
  <2>1. CASE d = c
    BY <2>1, <1>1, <1>2 DEF RTyped
  <2>2. CASE d # c
    BY <2>2, <1>1, <1>2 DEF RTyped
  <2>3. QED
    BY <2>1, <2>2
<1>4. QED
  BY <1>2, <1>3 DEF RTyped

LEMMA SubmitEffect ==
    ASSUME RTyped, NEW c \in Clients, Submit(c)
    PROVE  /\ Answered(c) < Len(load[c]) /\ load[c][Answered(c) + 1].kind = "job"
           /\ UNCHANGED <<load, run, hash, answers>> /\ globalSeq' = globalSeq + 1
           /\ pc' = [pc EXCEPT ![c] = "poll"]
<1>1. Answered(c) \in Nat /\ Len(load[c]) \in Nat /\ Answered(c) <= Len(load[c])
  BY LoadTyped DEF RTyped
<1>2. QED
  BY <1>1 DEF Submit, Over

LEMMA SecondRunEffect ==
    ASSUME RTyped, SecondRun
    PROVE  /\ run = 1 /\ run' = 2 /\ globalSeq' = 0 /\ UNCHANGED <<load, hash, pc, answers>>
           /\ \A c \in Clients : /\ Answered(c) = Len(load[c]) /\ pc[c] = "idle"
                                /\ answers[2][c] = << >> /\ Answered(c)' = 0
<1>1. run = 1 /\ run' = 2 /\ globalSeq' = 0 /\ UNCHANGED <<load, hash, pc, answers>>
      /\ \A c \in Clients : Answered(c) = Len(load[c])
  BY DEF SecondRun, Over
<1>2. \A c \in Clients : pc[c] = "idle" /\ answers[2][c] = << >>
  BY <1>1, LoadTyped DEF RTyped
<1>3. Len(<< >>) = 0
  OBVIOUS
<1>4. QED
  BY <1>1, <1>2, <1>3 DEF Answered

LEMMA InitRTyped == Init => RTyped
<1> SUFFICES ASSUME Init PROVE RTyped
  OBVIOUS
<1>1. << >> \in Seq(Given) /\ Len(<< >>) = 0
  OBVIOUS
<1>2. answers \in [1 .. 2 -> [Clients -> Seq(Given)]]
  BY <1>1 DEF Init
<1>3. \A c \in Clients : answers[1][c] = << >> /\ answers[2][c] = << >> /\ Answered(c) = 0
  BY <1>1 DEF Init, Answered
<1>4. \A c \in Clients : Len(load[c]) \in Nat
  <2>1. load \in [Clients -> Seq(Request)]
    BY RepeatabilityAssumption DEF Init
  <2>2. QED
    BY <2>1, LenProperties
<1>5. hash \in [DOMAIN hash -> Hashes]
  BY DEF Init
<1>6. load \in Loads /\ run = 1 /\ globalSeq = 0 /\ pc = [c \in Clients |-> "idle"]
  BY DEF Init
<1>7. QED
  BY <1>2, <1>3, <1>4, <1>5, <1>6 DEF RTyped

LEMMA NextRTyped == RTyped /\ [Next]_vars => RTyped'
<1> SUFFICES ASSUME RTyped, [Next]_vars PROVE RTyped'
  OBVIOUS
<1>1. ASSUME NEW c \in Clients, Begin(c) PROVE RTyped'
  <2>1. PICK q, n : q = load[c][Answered(c) + 1] /\ n = globalSeq
    OBVIOUS
  <2>2. /\ pc[c] = "idle" /\ Answered(c) < Len(load[c]) /\ UNCHANGED <<load, run>>
        /\ hash' \in [DOMAIN hash' -> Hashes]
        /\ \/ /\ pc' = pc /\ globalSeq' = n + Used(q, n)'
              /\ \E a \in Given : Gets(c, a)
           \/ /\ pc' = [pc EXCEPT ![c] = "open"] /\ answers' = answers
              /\ q.kind = "stream" /\ globalSeq' = n + 1
    BY <1>1, <2>1, BeginEffect
  <2>3. n \in Nat /\ Used(q, n)' \in Nat
    BY <2>1 DEF RTyped, Used
  <2>4. CASE /\ pc' = pc /\ globalSeq' = n + Used(q, n)'
             /\ \E a \in Given : Gets(c, a)
    <3>1. globalSeq' \in Nat
      BY <2>3, <2>4
    <3>2. pc' \in [Clients -> {"idle", "open", "poll"}]
      BY <2>4 DEF RTyped
    <3>3. QED
      BY <2>2, <2>4, <3>1, <3>2, GetsTyped
  <2>5. CASE /\ pc' = [pc EXCEPT ![c] = "open"] /\ answers' = answers
             /\ q.kind = "stream" /\ globalSeq' = n + 1
    <3>1. globalSeq' \in Nat
      BY <2>3, <2>5
    <3> DEFINE step == "open"
    <3>2. /\ step \in {"idle", "open", "poll"} /\ pc' = [pc EXCEPT ![c] = step]
          /\ step = "open" => load[c][Answered(c) + 1].kind = "stream"
          /\ step = "poll" => load[c][Answered(c) + 1].kind = "job"
      BY <2>1, <2>5
    <3> HIDE DEF step
    <3>3. QED
      BY <2>2, <2>5, <3>1, <3>2, NoneAnsweredTyped
  <2>6. QED
    BY <2>2, <2>4, <2>5
<1>2. ASSUME NEW c \in Clients, Open(c) PROVE RTyped'
  <2>1. PICK q, n : q = load[c][Answered(c) + 1] /\ n = globalSeq - 1
    OBVIOUS
  <2>2. /\ pc' = [pc EXCEPT ![c] = "idle"] /\ Answered(c) < Len(load[c])
        /\ UNCHANGED <<load, run>> /\ globalSeq' = n + 2
        /\ hash' \in [DOMAIN hash' -> Hashes]
        /\ \E a \in Given : Gets(c, a)
    BY <1>2, <2>1, OpenEffect
  <2>3. globalSeq' \in Nat
    BY <2>1, <2>2 DEF RTyped
  <2>4. pc' \in [Clients -> {"idle", "open", "poll"}] /\ pc'[c] = "idle"
        /\ \A d \in Clients \ {c} : pc'[d] = pc[d]
    BY <2>2 DEF RTyped
  <2>5. QED
    BY <2>2, <2>3, <2>4, GetsTyped
<1>3. ASSUME NEW c \in Clients, Submit(c) PROVE RTyped'
  <2>1. /\ Answered(c) < Len(load[c]) /\ load[c][Answered(c) + 1].kind = "job"
        /\ UNCHANGED <<load, run, hash, answers>> /\ globalSeq' = globalSeq + 1
        /\ pc' = [pc EXCEPT ![c] = "poll"]
    BY <1>3, SubmitEffect
  <2>2. hash' \in [DOMAIN hash' -> Hashes] /\ globalSeq' \in Nat
    BY <2>1 DEF RTyped
  <2> DEFINE step == "poll"
  <2>3. /\ step \in {"idle", "open", "poll"} /\ pc' = [pc EXCEPT ![c] = step]
        /\ step = "open" => load[c][Answered(c) + 1].kind = "stream"
        /\ step = "poll" => load[c][Answered(c) + 1].kind = "job"
    BY <2>1
  <2> HIDE DEF step
  <2>4. QED
    BY <2>1, <2>2, <2>3, NoneAnsweredTyped
<1>4. ASSUME NEW c \in Clients, Poll(c) PROVE RTyped'
  <2>1. /\ UNCHANGED <<load, run, hash>> /\ globalSeq' = globalSeq + 1
        /\ Answered(c) < Len(load[c])
        /\ \/ UNCHANGED <<pc, answers>>
           \/ pc' = [pc EXCEPT ![c] = "idle"] /\ \E a \in Given : Gets(c, a)
    BY <1>4, PollEffect
  <2>2. hash' \in [DOMAIN hash' -> Hashes] /\ globalSeq' \in Nat
    BY <2>1 DEF RTyped
  <2>3. CASE UNCHANGED <<pc, answers>>
    <3>1. \A d \in Clients : Answered(d)' = Answered(d)
      BY <2>1, <2>3 DEF Answered
    <3>2. QED
      BY <2>1, <2>2, <2>3, <3>1 DEF RTyped
  <2>4. CASE pc' = [pc EXCEPT ![c] = "idle"] /\ \E a \in Given : Gets(c, a)
    <3>1. pc' \in [Clients -> {"idle", "open", "poll"}] /\ pc'[c] = "idle"
          /\ \A d \in Clients \ {c} : pc'[d] = pc[d]
      BY <2>4 DEF RTyped
    <3>2. QED
      BY <2>1, <2>2, <2>4, <3>1, GetsTyped
  <2>5. QED
    BY <2>1, <2>3, <2>4
<1>5. CASE SecondRun
  <2>1. \A c \in Clients : Len(load[c]) \in Nat /\ Answered(c) = Len(answers[1][c])
    BY <1>5, SecondRunEffect, LoadTyped DEF Answered
  <2>2. QED
    BY <1>5, <2>1, SecondRunEffect DEF RTyped
<1>6. CASE UNCHANGED vars
  <2>1. \A d \in Clients : Answered(d)' = Answered(d)
    BY <1>6 DEF Answered, vars
  <2>2. QED
    BY <1>6, <2>1 DEF RTyped, vars
<1>7. QED
  BY <1>1, <1>2, <1>3, <1>4, <1>5, <1>6 DEF Next

-----------------------------------------------------------------------------
(* Requests decided by their content.                                      *)

ContentInv ==
    \A k \in 1 .. 2, c \in Clients : \A i \in 1 .. Len(answers[k][c]) :
        load[c][i].kind \in ByContent =>
            Known(load[c][i], 0) /\ answers[k][c][i] = Told(load[c][i], 0)

\* Nothing is forgotten while nobody is answered.
LEMMA ContentStays ==
    ASSUME ContentInv, HashGrows, UNCHANGED <<load, answers>>
    PROVE  ContentInv'
<1>1. ASSUME NEW k \in 1 .. 2, NEW c \in Clients, NEW i \in 1 .. Len(answers[k][c]),
             NEW q, q = load[c][i], q.kind \in ByContent
      PROVE  Known(q, 0)' /\ answers'[k][c][i] = Told(q, 0)'
  <2>1. Known(q, 0) /\ answers[k][c][i] = Told(q, 0)
    BY <1>1 DEF ContentInv
  <2>2. QED
    BY <2>1, KnownStays
<1>2. ASSUME NEW k \in 1 .. 2, NEW c \in Clients, NEW i \in 1 .. Len(answers'[k][c]),
             load'[c][i].kind \in ByContent
      PROVE  Known(load[c][i], 0)' /\ answers'[k][c][i] = Told(load[c][i], 0)'
  <2>1. PICK q : q = load[c][i] /\ q = load'[c][i]
    OBVIOUS
  <2>2. Known(q, 0)' /\ answers'[k][c][i] = Told(q, 0)'
    BY <1>1, <1>2, <2>1
  <2>3. Known(load[c][i], 0)' = Known(q, 0)' /\ Told(load[c][i], 0)' = Told(q, 0)'
    BY <2>1
  <2>4. QED
    BY <2>2, <2>3
<1>3. QED
  BY <1>2 DEF ContentInv

LEMMA ContentAnswered ==
    ASSUME RTyped, ContentInv, HashGrows, UNCHANGED <<load, run>>,
           NEW c \in Clients, NEW a, Gets(c, a), NEW q, q = load[c][Answered(c) + 1],
           q.kind \in ByContent => Known(q, 0)' /\ a = Told(q, 0)'
    PROVE  ContentInv'
<1> SUFFICES ASSUME NEW k \in 1 .. 2, NEW d \in Clients, NEW i \in 1 .. Len(answers'[k][d]),
                    load'[d][i].kind \in ByContent
             PROVE  Known(load[d][i], 0)' /\ answers'[k][d][i] = Told(load[d][i], 0)'
  BY DEF ContentInv
<1>1. PICK p : p = load[d][i] /\ p = load'[d][i]
  OBVIOUS
<1>2. Known(load[d][i], 0)' = Known(p, 0)' /\ Told(load[d][i], 0)' = Told(p, 0)'
  BY <1>1
<1>3. CASE k = run /\ d = c /\ i = Answered(c) + 1
  <2>1. answers'[k][d][i] = a /\ p = q
    BY <1>1, <1>3 DEF Gets
  <2>2. QED
    BY <1>1, <1>2, <2>1
<1>4. CASE ~(k = run /\ d = c /\ i = Answered(c) + 1)
  <2>1. i \in 1 .. Len(answers[k][d]) /\ answers'[k][d][i] = answers[k][d][i]
    <3>1. CASE k = run /\ d = c
      <4>1. i # Answered(c) + 1 /\ i \in 1 .. Answered(c) + 1 /\ Answered(c) \in Nat
        BY <1>4, <3>1, LoadTyped DEF Gets
      <4>2. i \in 1 .. Answered(c)
        BY <4>1
      <4>3. QED
        BY <3>1, <4>2 DEF Gets, Answered
    <3>2. CASE k # run \/ d # c
      BY <3>2 DEF Gets
    <3>3. QED
      BY <3>1, <3>2
  <2>2. Known(p, 0) /\ answers[k][d][i] = Told(p, 0)
    BY <1>1, <2>1 DEF ContentInv
  <2>3. Known(p, 0)' /\ Told(p, 0)' = Told(p, 0)
    BY <2>2, KnownStays
  <2>4. QED
    BY <1>2, <2>1, <2>2, <2>3
<1>5. QED
  BY <1>3, <1>4

LEMMA NextContentInv == RTyped /\ ContentInv /\ [Next]_vars => ContentInv'
<1> SUFFICES ASSUME RTyped, ContentInv, [Next]_vars PROVE ContentInv'
  OBVIOUS
<1>1. ASSUME NEW c \in Clients, Begin(c) PROVE ContentInv'
  <2>1. PICK q, n : q = load[c][Answered(c) + 1] /\ n = globalSeq
    OBVIOUS
  <2>2. /\ HashGrows /\ UNCHANGED <<load, run>>
        /\ \/ Known(q, n)' /\ \E a \in Given : Gets(c, a) /\ a = Told(q, n)'
           \/ answers' = answers
    BY <1>1, <2>1, BeginEffect
  <2>3. CASE answers' = answers
    BY <2>2, <2>3, ContentStays
  <2>4. CASE Known(q, n)' /\ \E a \in Given : Gets(c, a) /\ a = Told(q, n)'
    <3>1. PICK a \in Given : Gets(c, a) /\ a = Told(q, n)'
      BY <2>4
    <3>2. q.kind \in ByContent => (Known(q, n)' <=> Known(q, 0)') /\ Told(q, n)' = Told(q, 0)'
      BY ContentDecides
    <3>3. QED
      BY <2>1, <2>2, <2>4, <3>1, <3>2, ContentAnswered
  <2>5. QED
    BY <2>2, <2>3, <2>4
<1>2. ASSUME NEW c \in Clients, Open(c) PROVE ContentInv'
  <2>1. PICK q, n : q = load[c][Answered(c) + 1] /\ n = globalSeq - 1
    OBVIOUS
  <2>2. HashGrows /\ UNCHANGED <<load, run>> /\ q.kind = "stream" /\ \E a \in Given : Gets(c, a)
    BY <1>2, <2>1, OpenEffect
  <2>3. q.kind \notin ByContent
    BY <2>2 DEF ByContent
  <2>4. QED
    BY <2>1, <2>2, <2>3, ContentAnswered
<1>3. ASSUME NEW c \in Clients, Submit(c) PROVE ContentInv'
  <2>1. HashGrows /\ UNCHANGED <<load, answers>>
    BY <1>3, SubmitEffect DEF HashGrows
  <2>2. QED
    BY <2>1, ContentStays
<1>4. ASSUME NEW c \in Clients, Poll(c) PROVE ContentInv'
  <2>1. /\ UNCHANGED <<load, run, hash>> /\ load[c][Answered(c) + 1].kind = "job"
        /\ answers' = answers \/ \E a \in Given : Gets(c, a)
    BY <1>4, PollEffect
  <2>2. HashGrows /\ load[c][Answered(c) + 1].kind \notin ByContent
    BY <2>1 DEF HashGrows, ByContent
  <2>3. CASE answers' = answers
    BY <2>1, <2>2, <2>3, ContentStays
  <2>4. CASE \E a \in Given : Gets(c, a)
    <3>1. PICK q : q = load[c][Answered(c) + 1]
      OBVIOUS
    <3>2. QED
      BY <2>1, <2>2, <2>4, <3>1, ContentAnswered
  <2>5. QED
    BY <2>1, <2>3, <2>4
<1>5. CASE SecondRun
  <2>1. HashGrows /\ UNCHANGED <<load, answers>>
    BY <1>5 DEF SecondRun, HashGrows
  <2>2. QED
    BY <2>1, ContentStays
<1>6. CASE UNCHANGED vars
  <2>1. HashGrows /\ UNCHANGED <<load, answers>>
    BY <1>6 DEF vars, HashGrows
  <2>2. QED
    BY <2>1, ContentStays
<1>7. QED
  BY <1>1, <1>2, <1>3, <1>4, <1>5, <1>6 DEF Next

-----------------------------------------------------------------------------
(* One client alone.  s[i] is how many numbers were taken when i of its    *)
(* requests had been answered: a function that the first run finds and the *)
(* second goes along.                                                      *)

Lone(a) ==
    /\ a \in Clients
    /\ \A d \in Clients \ {a} : load[d] = << >>
    /\ \A i \in DOMAIN load[a] : load[a][i].kind # "job"

\* In the first run, the answer to q, n numbers having been taken before it
\* and next after it.
Accounts(q, answer, n, next) == Known(q, n) /\ answer = Told(q, n) /\ next = n + Used(q, n)

\* A stream that is open was not hit.
Opened(q, n) == InjectKey(q, n + 1) \in DOMAIN hash /\ ~HitBy(q, n)

OrderBy(a, s) ==
    /\ s[0] = 0
    /\ \A i \in 1 .. Len(answers[1][a]) : Accounts(load[a][i], answers[1][a][i], s[i - 1], s[i])
    /\ \A i \in 1 .. Len(answers[2][a]) : answers[2][a][i] = answers[1][a][i]
    /\ pc[a] = "open" => Opened(load[a][Answered(a) + 1], s[Answered(a)])
    /\ globalSeq = s[Answered(a)] + (IF pc[a] = "open" THEN 1 ELSE 0)

OrderInv == \A a : Lone(a) => \E s \in [Nat -> Nat] : OrderBy(a, s)

LEMMA AccountsStay ==
    ASSUME NEW q, NEW answer, NEW n, NEW next, HashGrows, Accounts(q, answer, n, next)
    PROVE  Accounts(q, answer, n, next)'
BY KnownStays DEF Accounts

LEMMA OpenedStays ==
    ASSUME NEW q, NEW n, HashGrows, Opened(q, n)
    PROVE  Opened(q, n)'
<1>1. /\ InjectKey(q, n + 1) \in DOMAIN hash'
      /\ hash'[InjectKey(q, n + 1)] = hash[InjectKey(q, n + 1)]
  BY DEF Opened, HashGrows
<1>2. QED
  BY <1>1 DEF Opened, HitBy

\* Only the lone client has requests to send.
LEMMA LoneActs ==
    ASSUME RTyped, NEW a, Lone(a), NEW c \in Clients, Answered(c) < Len(load[c])
    PROVE  c = a /\ Answered(c) + 1 \in DOMAIN load[c] /\ load[c][Answered(c) + 1].kind # "job"
<1>1. Answered(c) \in Nat /\ Len(load[c]) \in Nat /\ load[c] \in Seq(Request)
  BY LoadTyped
<1>2. Len(<< >>) = 0
  OBVIOUS
<1>3. c = a
  BY <1>1, <1>2 DEF Lone
<1>4. Answered(c) + 1 \in DOMAIN load[c]
  BY <1>1
<1>5. QED
  BY <1>3, <1>4 DEF Lone

\* The answers so far stay accounted for, while the run is the same.
LEMMA AccountStays ==
    ASSUME HashGrows, UNCHANGED load, NEW a, NEW s, OrderBy(a, s), NEW t,
           NEW i \in 1 .. Len(answers[1][a]), answers'[1][a][i] = answers[1][a][i],
           t[i - 1] = s[i - 1], t[i] = s[i]
    PROVE  (Accounts(load[a][i], answers[1][a][i], t[i - 1], t[i]))'
<1>1. PICK q, answer, n, next : /\ q = load[a][i] /\ q = load'[a][i]
                                /\ answer = answers[1][a][i] /\ answer = answers'[1][a][i]
                                /\ n = s[i - 1] /\ next = s[i]
  OBVIOUS
<1>2. Accounts(q, answer, n, next)
  BY <1>1 DEF OrderBy
<1>3. Accounts(q, answer, n, next)'
  BY <1>2, AccountsStay
<1>4. QED
  BY <1>1, <1>3

\* Arithmetic of places in a sequence.
LEMMA Places ==
    ASSUME NEW m \in Nat
    PROVE  /\ (m + 1) - 1 = m /\ m \in 0 .. m /\ m + 1 \in 1 .. m + 1
           /\ \A i \in 1 .. m + 1 : i # m + 1 => i \in 1 .. m /\ i \in 0 .. m /\ i - 1 \in 0 .. m
           /\ \A l \in Nat : m < l => m + 1 \in 1 .. l
OBVIOUS

LEMMA Extension ==
    ASSUME NEW s \in [Nat -> Nat], NEW m \in Nat, NEW u \in Nat
    PROVE  \E t \in [Nat -> Nat] : t[m + 1] = u /\ \A i \in 0 .. m : t[i] = s[i]
<1> DEFINE t == [s EXCEPT ![m + 1] = u]
<1>1. t \in [Nat -> Nat] /\ t[m + 1] = u /\ \A i \in 0 .. m : t[i] = s[i]
  OBVIOUS
<1>2. QED
  BY <1>1

\* The next request of a, which is q, is answered, n numbers having been taken.
AnswersNext(a, s, q, n, answer) ==
    /\ n = s[Answered(a)]
    /\ Answered(a) < Len(load[a]) /\ q = load[a][Answered(a) + 1]
    /\ UNCHANGED <<load, run>>
    /\ Known(q, n)' /\ Gets(a, answer) /\ answer = Told(q, n)'
    /\ globalSeq' = n + Used(q, n)' /\ pc'[a] = "idle"

\* It is answered as its place demands.
LEMMA OrderAnswered ==
    ASSUME RTyped, NEW a, Lone(a), NEW s \in [Nat -> Nat], OrderBy(a, s), HashGrows,
           NEW q, NEW n, NEW answer, AnswersNext(a, s, q, n, answer)
    PROVE  \E t \in [Nat -> Nat] : OrderBy(a, t)'
<1>1. /\ a \in Clients /\ UNCHANGED <<load, run>> /\ Gets(a, answer) /\ pc'[a] = "idle"
      /\ q = load[a][Answered(a) + 1] /\ n = s[Answered(a)] /\ Answered(a) < Len(load[a])
      /\ Known(q, n)' /\ answer = Told(q, n)' /\ globalSeq' = n + Used(q, n)'
  BY DEF Lone, AnswersNext
<1>2. PICK m : m = Answered(a)
  OBVIOUS
<1>3. m \in Nat /\ n \in Nat
  BY <1>1, <1>2, LoadTyped
<1>4. PICK u \in Nat : u = n + Used(q, n)'
  <2>1. PICK w : w = Used(q, n)'
    OBVIOUS
  <2>2. w \in Nat
    BY <2>1 DEF Used
  <2>3. n + w \in Nat
    BY <1>3, <2>2
  <2>4. QED
    BY <2>1, <2>3
<1>5. Answered(a)' = m + 1 /\ globalSeq' = u
  BY <1>1, <1>2, <1>4 DEF Gets, Answered
<1>6. CASE run = 1
  <2>1. PICK t \in [Nat -> Nat] : t[m + 1] = u /\ \A i \in 0 .. m : t[i] = s[i]
    <3>1. m \in Nat /\ u \in Nat /\ s \in [Nat -> Nat]
      BY <1>3, <1>4
    <3>2. QED
      BY <3>1, Extension, Zenon
  <2>2. /\ m = Len(answers[1][a]) /\ Len(answers'[1][a]) = m + 1
        /\ answers'[1][a][m + 1] = answer
        /\ \A i \in 1 .. m : answers'[1][a][i] = answers[1][a][i]
        /\ answers'[2][a] = answers[2][a] /\ answers[2][a] = << >>
    <3>1. m = Len(answers[1][a])
      BY <1>2, <1>6 DEF Answered
    <3>2. answers[2][a] = << >>
      BY <1>1, <1>6 DEF RTyped
    <3>3. /\ Len(answers'[1][a]) = m + 1 /\ answers'[1][a][m + 1] = answer
          /\ \A i \in 1 .. m : answers'[1][a][i] = answers[1][a][i]
      BY <1>1, <1>2, <1>6 DEF Gets
    <3>4. answers'[2][a] = answers[2][a]
      BY <1>1, <1>6 DEF Gets
    <3>5. QED
      BY <3>1, <3>2, <3>3, <3>4
  <2>3. ASSUME NEW i \in 1 .. m + 1
        PROVE  (Accounts(load[a][i], answers[1][a][i], t[i - 1], t[i]))'
    <3>1. CASE i = m + 1
      <4>1. /\ load'[a][i] = q /\ answers'[1][a][i] = answer /\ t[i - 1] = n /\ t[i] = u
        <5>1. t[m + 1] = u /\ t[(m + 1) - 1] = s[m]
          BY <1>3, <2>1, Places
        <5>2. QED
          BY <1>1, <1>2, <2>2, <3>1, <5>1
      <4>2. Accounts(q, answer, n, u)'
        BY <1>1, <1>4 DEF Accounts
      <4>3. QED
        BY <4>1, <4>2
    <3>2. CASE i # m + 1
      <4>1. i \in 1 .. m /\ i \in 0 .. m /\ i - 1 \in 0 .. m
        BY <1>3, <3>2, Places
      <4>2. t[i - 1] = s[i - 1] /\ t[i] = s[i] /\ answers'[1][a][i] = answers[1][a][i]
            /\ i \in 1 .. Len(answers[1][a])
        BY <2>1, <2>2, <4>1
      <4>3. QED
        BY <1>1, <4>2, AccountStays
    <3>3. QED
      BY <3>1, <3>2
  <2>4. t[0] = 0
    BY <1>3, <2>1 DEF OrderBy
  <2>5. Len(<< >>) = 0
    OBVIOUS
  <2>6. \A i \in 1 .. Len(answers'[2][a]) : answers'[2][a][i] = answers'[1][a][i]
    BY <2>2, <2>5
  <2>7. globalSeq' = t[Answered(a)'] + 0
    BY <1>5, <2>1
  <2>8. OrderBy(a, t)'
    BY <1>1, <2>2, <2>3, <2>4, <2>6, <2>7 DEF OrderBy
  <2>9. QED
    BY <2>1, <2>8
<1>7. CASE run = 2
  <2>1. /\ m = Len(answers[2][a]) /\ Len(answers'[2][a]) = m + 1
        /\ answers'[2][a][m + 1] = answer
        /\ \A i \in 1 .. m : answers'[2][a][i] = answers[2][a][i]
        /\ answers'[1][a] = answers[1][a] /\ Len(answers[1][a]) = Len(load[a])
    <3>1. m = Len(answers[2][a])
      BY <1>2, <1>7 DEF Answered
    <3>2. Len(answers[1][a]) = Len(load[a])
      BY <1>1, <1>7 DEF RTyped
    <3>3. /\ Len(answers'[2][a]) = m + 1 /\ answers'[2][a][m + 1] = answer
          /\ \A i \in 1 .. m : answers'[2][a][i] = answers[2][a][i]
      BY <1>1, <1>2, <1>7 DEF Gets
    <3>4. answers'[1][a] = answers[1][a]
      BY <1>1, <1>7 DEF Gets
    <3>5. QED
      BY <3>1, <3>2, <3>3, <3>4
  <2>2. m + 1 \in 1 .. Len(answers[1][a])
    <3>1. Len(load[a]) \in Nat /\ m < Len(load[a])
      BY <1>1, <1>2, LoadTyped
    <3>2. QED
      BY <1>3, <2>1, <3>1, Places
  <2>3. Accounts(q, answers[1][a][m + 1], n, s[m + 1])
    <3>1. (m + 1) - 1 = m
      BY <1>3, Places
    <3>2. QED
      BY <1>1, <1>2, <2>2, <3>1 DEF OrderBy
  <2>4. answers[1][a][m + 1] = answer /\ s[m + 1] = u
    BY <1>1, <1>4, <2>3, KnownStays DEF Accounts
  <2>5. ASSUME NEW i \in 1 .. Len(answers'[1][a])
        PROVE  (Accounts(load[a][i], answers[1][a][i], s[i - 1], s[i]))'
    BY <1>1, <2>1, AccountStays
  <2>6. \A i \in 1 .. Len(answers'[2][a]) : answers'[2][a][i] = answers'[1][a][i]
    <3>1. TAKE i \in 1 .. Len(answers'[2][a])
    <3>2. CASE i = m + 1
      BY <2>1, <2>4, <3>2
    <3>3. CASE i # m + 1
      <4>1. i \in 1 .. m
        BY <1>3, <2>1, <3>3, Places
      <4>2. QED
        BY <2>1, <4>1 DEF OrderBy
    <3>4. QED
      BY <3>2, <3>3
  <2>7. globalSeq' = s[Answered(a)'] + 0
    BY <1>4, <1>5, <2>4
  <2>8. s[0] = 0
    BY DEF OrderBy
  <2>9. OrderBy(a, s)'
    BY <1>1, <2>5, <2>6, <2>7, <2>8 DEF OrderBy
  <2>10. QED
    BY <2>9
<1>8. run = 1 \/ run = 2
  BY DEF RTyped
<1>9. QED
  BY <1>6, <1>7, <1>8

\* The lone client opens a stream, or nothing happens to it.
LEMMA OrderOpened ==
    ASSUME RTyped, NEW a, Lone(a), NEW s \in [Nat -> Nat], OrderBy(a, s), HashGrows,
           UNCHANGED <<load, run, answers>>,
           pc'[a] = "open" => Opened(load[a][Answered(a) + 1], s[Answered(a)])',
           globalSeq' = s[Answered(a)] + (IF pc'[a] = "open" THEN 1 ELSE 0)
    PROVE  OrderBy(a, s)'
<1>1. Answered(a)' = Answered(a)
  BY DEF Answered
<1>2. \A i \in 1 .. Len(answers'[1][a]) :
         (Accounts(load[a][i], answers[1][a][i], s[i - 1], s[i]))'
  BY AccountStays
<1>3. s[0] = 0 /\ \A i \in 1 .. Len(answers'[2][a]) : answers'[2][a][i] = answers'[1][a][i]
  BY DEF OrderBy
<1>4. QED
  BY <1>1, <1>2, <1>3 DEF OrderBy

LEMMA OrderUntouched ==
    ASSUME RTyped, NEW a, Lone(a), NEW s \in [Nat -> Nat], OrderBy(a, s),
           UNCHANGED <<load, run, hash, pc, answers, globalSeq>>
    PROVE  OrderBy(a, s)'
<1>1. Answered(a)' = Answered(a)
  BY DEF Answered
<1>2. QED
  BY <1>1 DEF OrderBy, Accounts, Opened, Known, Told, Used, HitBy

LEMMA NextOrderInv == RTyped /\ OrderInv /\ [Next]_vars => OrderInv'
<1> SUFFICES ASSUME RTyped, OrderInv, [Next]_vars, NEW a, Lone(a)'
             PROVE  \E t \in [Nat -> Nat] : OrderBy(a, t)'
  BY DEF OrderInv
<1>1. load' = load
  BY DEF Next, Begin, Open, Submit, Poll, SecondRun, vars
<1>2. Lone(a) /\ a \in Clients
  BY <1>1 DEF Lone
<1>3. PICK s \in [Nat -> Nat] : OrderBy(a, s)
  BY <1>2 DEF OrderInv
<1>4. ASSUME NEW c \in Clients, Begin(c) PROVE \E t \in [Nat -> Nat] : OrderBy(a, t)'
  <2>1. PICK q, n : q = load[c][Answered(c) + 1] /\ n = globalSeq
    OBVIOUS
  <2>2. /\ pc[c] = "idle" /\ Answered(c) < Len(load[c])
        /\ UNCHANGED <<load, run>> /\ HashGrows
        /\ \/ /\ pc' = pc /\ Known(q, n)' /\ globalSeq' = n + Used(q, n)'
              /\ \E answer \in Given : Gets(c, answer) /\ answer = Told(q, n)'
           \/ /\ pc' = [pc EXCEPT ![c] = "open"] /\ answers' = answers
              /\ globalSeq' = n + 1
              /\ InjectKey(q, n + 1) \in DOMAIN hash' /\ ~HitBy(q, n)'
    BY <1>4, <2>1, BeginEffect
  <2>3. c = a
    BY <1>2, <2>2, LoneActs
  <2>4. n = s[Answered(a)]
    <3>1. s[Answered(a)] \in Nat
      <4>1. Answered(a) \in Nat
        BY <1>2, LoadTyped
      <4>2. QED
        BY <1>3, <4>1
    <3>2. n = s[Answered(a)] + 0
      BY <1>3, <2>1, <2>2, <2>3 DEF OrderBy
    <3>3. QED
      BY <3>1, <3>2
  <2>5. CASE /\ pc' = pc /\ Known(q, n)' /\ globalSeq' = n + Used(q, n)'
             /\ \E answer \in Given : Gets(c, answer) /\ answer = Told(q, n)'
    <3>1. PICK answer \in Given : Gets(a, answer) /\ answer = Told(q, n)'
      BY <2>3, <2>5
    <3>2. AnswersNext(a, s, q, n, answer)
      BY <2>1, <2>2, <2>3, <2>4, <2>5, <3>1 DEF AnswersNext
    <3>3. QED
      BY <1>2, <1>3, <2>2, <3>2, OrderAnswered
  <2>6. CASE /\ pc' = [pc EXCEPT ![c] = "open"] /\ answers' = answers
             /\ globalSeq' = n + 1
             /\ InjectKey(q, n + 1) \in DOMAIN hash' /\ ~HitBy(q, n)'
    <3>1. pc'[a] = "open"
      BY <2>3, <2>6 DEF RTyped
    <3>2. Opened(q, n)'
      BY <2>6 DEF Opened
    <3>3. Answered(a)' = Answered(a)
      BY <2>2, <2>6 DEF Answered
    <3>4. load'[a][Answered(a)' + 1] = q /\ s[Answered(a)'] = n
      BY <2>1, <2>2, <2>3, <2>4, <3>3
    <3>5. Opened(load[a][Answered(a) + 1], s[Answered(a)])'
      BY <3>2, <3>4
    <3>6. globalSeq' = s[Answered(a)] + (IF pc'[a] = "open" THEN 1 ELSE 0)
      BY <2>4, <2>6, <3>1
    <3>7. OrderBy(a, s)'
      BY <1>2, <1>3, <2>2, <2>6, <3>5, <3>6, OrderOpened
    <3>8. QED
      BY <3>7
  <2>7. QED
    BY <2>2, <2>5, <2>6
<1>5. ASSUME NEW c \in Clients, Open(c) PROVE \E t \in [Nat -> Nat] : OrderBy(a, t)'
  <2>1. PICK q, n : q = load[c][Answered(c) + 1] /\ n = globalSeq - 1
    OBVIOUS
  <2>2. /\ pc[c] = "open" /\ pc' = [pc EXCEPT ![c] = "idle"]
        /\ Answered(c) < Len(load[c]) /\ q.kind = "stream"
        /\ UNCHANGED <<load, run>> /\ globalSeq' = n + 2 /\ HashGrows
        /\ DelayKey(q, Last(q, n)) \in DOMAIN hash'
        /\ \E answer \in Given : Gets(c, answer) /\ (~HitBy(q, n)' => answer = Told(q, n)')
    <3>1. /\ pc[c] = "open" /\ pc' = [pc EXCEPT ![c] = "idle"]
          /\ Answered(c) < Len(load[c]) /\ q.kind = "stream"
          /\ UNCHANGED <<load, run>> /\ globalSeq' = n + 2 /\ HashGrows
      BY <1>5, <2>1, OpenEffect
    <3>2. DelayKey(q, Last(q, n)) \in DOMAIN hash'
      BY <1>5, <2>1, OpenEffect
    <3>3. \E answer \in Given : Gets(c, answer) /\ (~HitBy(q, n)' => answer = Told(q, n)')
      BY <1>5, <2>1, OpenEffect
    <3>4. QED
      BY <3>1, <3>2, <3>3
  <2>3. c = a
    BY <1>2, <2>2, LoneActs
  <2>4. n = s[Answered(a)] /\ Opened(q, n)
    <3>1. s[Answered(a)] \in Nat
      <4>1. Answered(a) \in Nat
        BY <1>2, LoadTyped
      <4>2. QED
        BY <1>3, <4>1
    <3>2. globalSeq = s[Answered(a)] + 1 /\ Opened(load[a][Answered(a) + 1], s[Answered(a)])
      BY <1>3, <2>2, <2>3 DEF OrderBy
    <3>3. n = s[Answered(a)]
      BY <2>1, <3>1, <3>2
    <3>4. QED
      BY <2>1, <2>3, <3>2, <3>3
  <2>5. Opened(q, n)'
    BY <2>2, <2>4, OpenedStays
  <2>6. InjectKey(q, n + 1) \in DOMAIN hash' /\ ~HitBy(q, n)'
    BY <2>5 DEF Opened
  <2>7. Known(q, n)' /\ globalSeq' = n + Used(q, n)'
    BY <2>2, <2>6 DEF Known, Used, ByContent
  <2>8. PICK answer \in Given : Gets(a, answer) /\ answer = Told(q, n)'
    BY <2>2, <2>3, <2>6
  <2>9. pc'[a] = "idle"
    BY <2>2, <2>3 DEF RTyped
  <2>10. AnswersNext(a, s, q, n, answer)
    BY <2>1, <2>2, <2>3, <2>4, <2>7, <2>8, <2>9 DEF AnswersNext
  <2>11. QED
    BY <1>2, <1>3, <2>2, <2>10, OrderAnswered
<1>6. ASSUME NEW c \in Clients, Submit(c) PROVE FALSE
  BY <1>2, <1>6, SubmitEffect, LoneActs
<1>7. ASSUME NEW c \in Clients, Poll(c) PROVE FALSE
  BY <1>2, <1>7, PollEffect, LoneActs
<1>8. CASE SecondRun
  <2>1. /\ run = 1 /\ run' = 2 /\ globalSeq' = 0 /\ UNCHANGED <<load, hash, pc, answers>>
        /\ pc[a] = "idle" /\ Answered(a)' = 0
    BY <1>2, <1>8, SecondRunEffect
  <2>2. HashGrows
    BY <2>1 DEF HashGrows
  <2>3. \A i \in 1 .. Len(answers'[1][a]) :
           (Accounts(load[a][i], answers[1][a][i], s[i - 1], s[i]))'
    BY <1>3, <2>1, <2>2, AccountStays
  <2>4. s[0] = 0 /\ \A i \in 1 .. Len(answers'[2][a]) : answers'[2][a][i] = answers'[1][a][i]
    BY <1>3, <2>1 DEF OrderBy
  <2>5. OrderBy(a, s)'
    BY <2>1, <2>3, <2>4 DEF OrderBy
  <2>6. QED
    BY <2>5
<1>9. CASE UNCHANGED vars
  <2>1. UNCHANGED <<load, run, hash, pc, answers, globalSeq>>
    BY <1>9 DEF vars
  <2>2. QED
    BY <1>2, <1>3, <2>1, OrderUntouched
<1>10. QED
  BY <1>4, <1>5, <1>6, <1>7, <1>8, <1>9 DEF Next

LEMMA InitOrderInv == Init => ContentInv /\ OrderInv
<1> SUFFICES ASSUME Init PROVE ContentInv /\ OrderInv
  OBVIOUS
<1>1. Len(<< >>) = 0
  OBVIOUS
<1>2. \A k \in 1 .. 2, c \in Clients : answers[k][c] = << >>
  BY DEF Init
<1>3. ContentInv
  BY <1>1, <1>2 DEF ContentInv
<1>4. ASSUME NEW a, Lone(a) PROVE \E s \in [Nat -> Nat] : OrderBy(a, s)
  <2> DEFINE s == [i \in Nat |-> 0]
  <2>1. s \in [Nat -> Nat] /\ s[0] = 0
    OBVIOUS
  <2>2. a \in Clients /\ pc[a] = "idle" /\ globalSeq = 0 /\ run = 1
    BY <1>4 DEF Init, Lone
  <2>3. Answered(a) = 0
    BY <1>1, <1>2, <2>2 DEF Answered
  <2> HIDE DEF s
  <2>4. answers[1][a] = << >> /\ answers[2][a] = << >>
    BY <1>2, <2>2
  <2>5. OrderBy(a, s)
    BY <1>1, <2>1, <2>2, <2>3, <2>4 DEF OrderBy
  <2>6. QED
    BY <2>1, <2>5
<1>5. QED
  BY <1>3, <1>4 DEF OrderInv

-----------------------------------------------------------------------------
\* The invariant of both runs.
THEOREM RepeatabilityInvariance == Spec => [](RTyped /\ ContentInv /\ OrderInv)
<1>1. Init => RTyped /\ ContentInv /\ OrderInv
  BY InitRTyped, InitOrderInv
<1>2. (RTyped /\ ContentInv /\ OrderInv) /\ [Next]_vars => (RTyped /\ ContentInv /\ OrderInv)'
  BY NextRTyped, NextContentInv, NextOrderInv
<1>3. QED
  BY <1>1, <1>2, PTL DEF Spec

\* The README's promise where it holds: under a load sent in one order, and for
\* what is decided by a request's content under any, a second process gives
\* the answers of the first, failures, ids and delays (behavior.go, payload.go).
THEOREM AnswersRepeatInOrder == Spec => []RepeatsInOrder
<1>1. RTyped /\ ContentInv /\ OrderInv => RepeatsInOrder
  <2> SUFFICES ASSUME RTyped, ContentInv, OrderInv, run = 2,
                      NEW c \in Clients, NEW i \in DOMAIN answers[2][c],
                      InOrder \/ load[c][i].kind \in ByContent
               PROVE  answers[2][c][i] = answers[1][c][i]
    BY DEF RepeatsInOrder
  <2>1. i \in 1 .. Len(answers[2][c])
    BY LoadTyped
  <2>2. i \in 1 .. Len(answers[1][c]) /\ i \in 1 .. Len(load[c]) /\ DOMAIN load[c] = 1 .. Len(load[c])
    <3>1. Len(answers[2][c]) <= Len(load[c]) /\ Len(answers[1][c]) = Len(load[c])
      BY DEF RTyped, Answered
    <3>2. Len(load[c]) \in Nat /\ Len(answers[2][c]) \in Nat /\ load[c] \in Seq(Request)
      BY LoadTyped
    <3>3. QED
      BY <2>1, <3>1, <3>2
  <2>3. CASE load[c][i].kind \in ByContent
    BY <2>1, <2>2, <2>3 DEF ContentInv
  <2>4. CASE InOrder
    <3>1. PICK a \in Clients : \A d \in Clients \ {a} : load[d] = << >>
      BY <2>4 DEF InOrder
    <3>2. Lone(a)
      BY <2>4, <3>1 DEF InOrder, Lone
    <3>3. Len(<< >>) = 0
      OBVIOUS
    <3>4. c = a
      BY <2>2, <3>1, <3>3
    <3>5. QED
      BY <2>1, <3>2, <3>4 DEF OrderInv, OrderBy
  <2>5. QED
    BY <2>3, <2>4
<1>2. QED
  BY <1>1, RepeatabilityInvariance, PTL

-----------------------------------------------------------------------------
(* Plain requests to one model m: as many failures as hits among the       *)
(* numbers taken, and as many numbers taken as answers given.              *)

Uniform(m) ==
    \A c \in Clients : \A i \in DOMAIN load[c] :
        load[c][i].name = m /\ load[c][i].kind \in {"chat", "message"}

\* The answers of run k.
Pairs(k) == UNION {{c} \X DOMAIN answers[k][c] : c \in Clients}

\* The first n numbers: those that are hit, and have all been asked for?
Hits(m, n) == {j \in 1 .. n : ShouldInject(hash[<<m, j>>], FailRate)}
Asked(m, n) == \A j \in 1 .. n : <<m, j>> \in DOMAIN hash

\* The account of run k, which has taken n numbers.
Balanced(m, k, n) ==
    /\ IsFiniteSet(Pairs(k)) /\ IsFiniteSet(Failures(k)) /\ n \in Nat
    /\ Cardinality(Pairs(k)) = n
    /\ Asked(m, n)
    /\ Cardinality(Failures(k)) = Cardinality(Hits(m, n))

CountInv ==
    \A m : Uniform(m) =>
        /\ \A c \in Clients : pc[c] = "idle"
        /\ Balanced(m, run, globalSeq)
        /\ run = 2 => Balanced(m, 1, Cardinality(Pairs(1)))

\* The account of a run that nobody adds to stays.
LEMMA BalancedStays ==
    ASSUME RTyped, NEW m, NEW k \in 1 .. 2, NEW n, HashGrows, Balanced(m, k, n),
           \A c \in Clients : answers'[k][c] = answers[k][c]
    PROVE  Balanced(m, k, n)' /\ Pairs(k)' = Pairs(k)
<1>1. Pairs(k)' = Pairs(k)
  BY DEF Pairs
<1>2. Failures(k)' = Failures(k)
  BY DEF Failures
<1>3. Asked(m, n)' /\ Hits(m, n)' = Hits(m, n)
  BY DEF Balanced, Asked, Hits, HashGrows
<1>4. QED
  BY <1>1, <1>2, <1>3 DEF Balanced

\* One answer more, hit or not as its number says.
LEMMA BalancedAnswered ==
    ASSUME RTyped, NEW m, NEW c \in Clients, NEW k, k = run, NEW n, NEW next, next = n + 1, HashGrows,
           Balanced(m, k, n), NEW a \in Given, Gets(c, a),
           <<m, next>> \in DOMAIN hash',
           a.hit <=> ShouldInject(hash'[<<m, next>>], FailRate)
    PROVE  Balanced(m, k, next)'
<1>1. n \in Nat /\ next \in Nat /\ k \in 1 .. 2
  BY DEF Balanced, RTyped
<1>2. PICK x : x = <<c, Answered(c) + 1>>
  OBVIOUS
<1>3. /\ DOMAIN answers'[k][c] = DOMAIN answers[k][c] \cup {Answered(c) + 1}
      /\ Answered(c) + 1 \notin DOMAIN answers[k][c]
      /\ answers'[k][c][Answered(c) + 1] = a
      /\ \A i \in DOMAIN answers[k][c] : answers'[k][c][i] = answers[k][c][i]
  <2>1. PICK l \in Nat : l = Answered(c) /\ l = Len(answers[k][c]) /\ DOMAIN answers[k][c] = 1 .. l
    BY <1>1, LoadTyped DEF Answered
  <2>2. Len(answers'[k][c]) = l + 1
    BY <2>1 DEF Gets
  <2>3. answers'[k][c] \in Seq(Given)
    BY <1>1 DEF Gets
  <2>4. DOMAIN answers'[k][c] = 1 .. l + 1
    BY <2>2, <2>3, LenProperties
  <2>5. 1 .. l + 1 = (1 .. l) \cup {l + 1} /\ l + 1 \notin 1 .. l
    BY <2>1
  <2>6. answers'[k][c][l + 1] = a /\ \A i \in 1 .. l : answers'[k][c][i] = answers[k][c][i]
    BY <2>1 DEF Gets
  <2>7. QED
    BY <2>1, <2>4, <2>5, <2>6
<1>4. \A d \in Clients : d # c => answers'[k][d] = answers[k][d]
  BY <1>1 DEF Gets
<1>5. Pairs(k)' = Pairs(k) \cup {x} /\ x \notin Pairs(k)
  BY <1>2, <1>3, <1>4 DEF Pairs
<1>6. Failures(k)' = (IF a.hit THEN Failures(k) \cup {x} ELSE Failures(k)) /\ x \notin Failures(k)
  BY <1>2, <1>3, <1>4 DEF Failures
<1>7. Hits(m, next)' = (IF a.hit THEN Hits(m, n) \cup {next} ELSE Hits(m, n)) /\ next \notin Hits(m, n)
  <2>1. 1 .. next = (1 .. n) \cup {next} /\ next \notin 1 .. n
    BY <1>1
  <2>2. \A j \in 1 .. n : hash'[<<m, j>>] = hash[<<m, j>>]
    BY DEF Balanced, Asked, HashGrows
  <2>3. QED
    BY <2>1, <2>2 DEF Hits
<1>8. Asked(m, next)'
  <2>1. 1 .. next = (1 .. n) \cup {next}
    BY <1>1
  <2>2. QED
    BY <2>1 DEF Balanced, Asked, HashGrows
<1>9. IsFiniteSet(Hits(m, n))
  <2>1. Hits(m, n) \in SUBSET (1 .. n) /\ IsFiniteSet(1 .. n)
    BY <1>1, FS_Interval DEF Hits
  <2>2. QED
    BY <2>1, FS_Subset
<1>10. IsFiniteSet(Pairs(k)') /\ Cardinality(Pairs(k)') = next
  BY <1>1, <1>5, FS_AddElement DEF Balanced
<1>11. IsFiniteSet(Failures(k)') /\ Cardinality(Failures(k)') = Cardinality(Hits(m, next)')
  <2>1. CASE a.hit
    <3>1. IsFiniteSet(Failures(k)') /\ Cardinality(Failures(k)') = Cardinality(Failures(k)) + 1
      <4>1. Failures(k)' = Failures(k) \cup {x} /\ x \notin Failures(k) /\ IsFiniteSet(Failures(k))
        BY <1>6, <2>1 DEF Balanced
      <4>2. QED
        BY <4>1, FS_AddElement
    <3>2. Cardinality(Hits(m, next)') = Cardinality(Hits(m, n)) + 1
      BY <1>7, <1>9, <2>1, FS_AddElement
    <3>3. QED
      BY <3>1, <3>2 DEF Balanced
  <2>2. CASE ~a.hit
    BY <1>6, <1>7, <2>2 DEF Balanced
  <2>3. QED
    BY <2>1, <2>2
<1>12. QED
  BY <1>1, <1>8, <1>10, <1>11 DEF Balanced

LEMMA NextCountInv == RTyped /\ CountInv /\ [Next]_vars => CountInv'
<1> SUFFICES ASSUME RTyped, CountInv, [Next]_vars, NEW m, Uniform(m)'
             PROVE  /\ \A c \in Clients : pc'[c] = "idle"
                    /\ Balanced(m, run, globalSeq)'
                    /\ run' = 2 => Balanced(m, 1, Cardinality(Pairs(1)))'
  BY DEF CountInv
<1>1. load' = load
  BY DEF Next, Begin, Open, Submit, Poll, SecondRun, vars
<1>2. Uniform(m)
  BY <1>1 DEF Uniform
<1>3. PICK k, n : k = run /\ n = globalSeq
  OBVIOUS
<1>4. /\ \A c \in Clients : pc[c] = "idle"
      /\ Balanced(m, k, n) /\ k \in 1 .. 2
      /\ k = 2 => Balanced(m, 1, Cardinality(Pairs(1)))
  BY <1>2, <1>3 DEF CountInv, RTyped
<1>5. ASSUME HashGrows, k = 2, \A d \in Clients : answers'[1][d] = answers[1][d]
      PROVE  Balanced(m, 1, Cardinality(Pairs(1)))'
  <2>1. PICK one \in 1 .. 2 : one = 1
    OBVIOUS
  <2>2. PICK total : total = Cardinality(Pairs(one))
    OBVIOUS
  <2>3. Balanced(m, one, total)
    BY <1>4, <1>5, <2>1, <2>2
  <2>4. \A d \in Clients : answers'[one][d] = answers[one][d]
    BY <1>5, <2>1
  <2>5. Balanced(m, one, total)' /\ Pairs(one)' = Pairs(one)
    BY <1>5, <2>3, <2>4, BalancedStays
  <2>6. Cardinality(Pairs(1))' = total
    BY <2>1, <2>2, <2>5
  <2>7. QED
    BY <2>1, <2>5, <2>6
<1>6. ASSUME NEW c \in Clients, Begin(c)
      PROVE  /\ \A d \in Clients : pc'[d] = "idle"
             /\ Balanced(m, run, globalSeq)'
             /\ run' = 2 => Balanced(m, 1, Cardinality(Pairs(1)))'
  <2>1. PICK q : q = load[c][Answered(c) + 1]
    OBVIOUS
  <2>2. /\ Answered(c) < Len(load[c])
        /\ UNCHANGED <<load, run>> /\ HashGrows
        /\ \/ /\ pc' = pc /\ Known(q, n)' /\ globalSeq' = n + Used(q, n)'
              /\ \E a \in Given : Gets(c, a) /\ a = Told(q, n)'
           \/ q.kind = "stream"
    BY <1>3, <1>6, <2>1, BeginEffect
  <2>3. q.name = m /\ q.kind \in {"chat", "message"}
    <3>1. Answered(c) \in Nat /\ Len(load[c]) \in Nat /\ load[c] \in Seq(Request)
      BY LoadTyped
    <3>2. Answered(c) + 1 \in DOMAIN load[c]
      BY <2>2, <3>1
    <3>3. QED
      BY <1>2, <2>1, <3>2 DEF Uniform
  <2>4. PICK a \in Given : Gets(c, a) /\ a = Told(q, n)'
    BY <2>2, <2>3
  <2>5. PICK next : next = n + 1
    OBVIOUS
  <2>6. InjectKey(q, n + 1) = <<m, next>>
    BY <2>3, <2>5 DEF InjectKey, ByContent
  <2>7. <<m, next>> \in DOMAIN hash' /\ globalSeq' = next /\ pc' = pc
    BY <2>2, <2>3, <2>5, <2>6 DEF Known, Used, ByContent
  <2>8. HitBy(q, n)' <=> ShouldInject(hash'[<<m, next>>], FailRate)
    BY <2>3, <2>6 DEF HitBy
  <2>9. a.hit <=> HitBy(q, n)'
    <3>1. CASE HitBy(q, n)'
      BY <2>4, <3>1 DEF Told, Failure, Answer
    <3>2. CASE ~HitBy(q, n)'
      BY <2>4, <3>2 DEF Told, Answer
    <3>3. QED
      BY <3>1, <3>2
  <2>10. a.hit <=> ShouldInject(hash'[<<m, next>>], FailRate)
    BY <2>8, <2>9
  <2>11. Balanced(m, k, next)'
    BY <1>3, <1>4, <2>2, <2>4, <2>5, <2>7, <2>10, BalancedAnswered
  <2>12. Balanced(m, run, globalSeq)'
    BY <1>3, <2>2, <2>7, <2>11
  <2>13. run' = 2 => Balanced(m, 1, Cardinality(Pairs(1)))'
    BY <1>3, <1>5, <2>2, <2>4 DEF Gets
  <2>14. QED
    BY <1>4, <2>7, <2>12, <2>13
<1>7. ASSUME NEW c \in Clients, Open(c) \/ Poll(c)
      PROVE  FALSE
  BY <1>4, <1>7 DEF Open, Poll
<1>8. ASSUME NEW c \in Clients, Submit(c)
      PROVE  FALSE
  <2>1. Answered(c) < Len(load[c]) /\ load[c][Answered(c) + 1].kind = "job"
    BY <1>8, SubmitEffect
  <2>2. Answered(c) \in Nat /\ Len(load[c]) \in Nat /\ load[c] \in Seq(Request)
    BY LoadTyped
  <2>3. Answered(c) + 1 \in DOMAIN load[c]
    BY <2>1, <2>2
  <2>4. QED
    BY <1>2, <2>1, <2>3 DEF Uniform
<1>9. CASE SecondRun
  <2>1. /\ k = 1 /\ run' = 2 /\ globalSeq' = 0 /\ UNCHANGED <<load, hash, pc, answers>>
        /\ \A c \in Clients : answers[2][c] = << >>
    BY <1>3, <1>9, SecondRunEffect
  <2>2. HashGrows
    BY <2>1 DEF HashGrows
  <2>3. Balanced(m, 1, Cardinality(Pairs(1)))'
    <3>1. Balanced(m, 1, n) /\ Cardinality(Pairs(1)) = n
      BY <1>4, <2>1 DEF Balanced
    <3>2. PICK one \in 1 .. 2 : one = 1
      OBVIOUS
    <3>3. Balanced(m, one, n)' /\ Pairs(one)' = Pairs(one)
      BY <2>1, <2>2, <3>1, <3>2, BalancedStays
    <3>4. Cardinality(Pairs(1))' = n
      BY <3>1, <3>2, <3>3
    <3>5. QED
      BY <3>2, <3>3, <3>4
  <2>4. Balanced(m, 2, 0)'
    <3>1. Pairs(2)' = {} /\ Failures(2)' = {}
      BY <2>1 DEF Pairs, Failures
    <3>2. 1 .. 0 = {}
      OBVIOUS
    <3>3. Hits(m, 0)' = {} /\ Asked(m, 0)'
      BY <3>2 DEF Hits, Asked
    <3>4. QED
      BY <3>1, <3>3, FS_EmptySet DEF Balanced
  <2>5. Balanced(m, run, globalSeq)'
    BY <2>1, <2>4
  <2>6. QED
    BY <1>4, <2>1, <2>3, <2>5
<1>10. CASE UNCHANGED vars
  <2>1. UNCHANGED <<load, run, hash, pc, answers, globalSeq>> /\ HashGrows
    BY <1>10 DEF vars, HashGrows
  <2>2. Balanced(m, k, n)'
    BY <1>4, <2>1, BalancedStays
  <2>3. Balanced(m, run, globalSeq)'
    BY <1>3, <2>1, <2>2
  <2>4. QED
    BY <1>3, <1>4, <1>5, <2>1, <2>3
<1>11. QED
  BY <1>6, <1>7, <1>8, <1>9, <1>10 DEF Next

LEMMA InitCountInv == Init => CountInv
<1> SUFFICES ASSUME Init, NEW m PROVE Balanced(m, 1, 0) /\ run = 1 /\ globalSeq = 0
                                      /\ \A c \in Clients : pc[c] = "idle"
  BY DEF CountInv
<1>1. \A c \in Clients : answers[1][c] = << >>
  BY DEF Init
<1>2. Pairs(1) = {} /\ Failures(1) = {}
  BY <1>1 DEF Pairs, Failures
<1>3. 1 .. 0 = {}
  OBVIOUS
<1>4. Hits(m, 0) = {} /\ Asked(m, 0)
  BY <1>3 DEF Hits, Asked
<1>5. Balanced(m, 1, 0)
  BY <1>2, <1>4, FS_EmptySet DEF Balanced
<1>6. QED
  BY <1>5 DEF Init

\* Concurrency moves the error injection from one plain request to another and
\* changes nothing else: as many fail in the second process as did in the first
\* (shouldInject on "model#n", behavior.go and payload.go).
THEOREM AsManyFail == Spec => []SameFailures
<1>1. Init => RTyped /\ CountInv
  BY InitRTyped, InitCountInv
<1>2. RTyped /\ CountInv /\ [Next]_vars => (RTyped /\ CountInv)'
  BY NextRTyped, NextCountInv
<1>3. RTyped /\ CountInv => SameFailures
  <2> SUFFICES ASSUME RTyped, CountInv, run = 2, \A c \in Clients : Over(c),
                      NEW m \in Names, Uniform(m)
               PROVE  Cardinality(Failures(1)) = Cardinality(Failures(2))
    BY DEF SameFailures, Uniform
  <2>1. Balanced(m, 2, globalSeq) /\ Balanced(m, 1, Cardinality(Pairs(1)))
    BY DEF CountInv
  <2>2. \A c \in Clients : DOMAIN answers[1][c] = DOMAIN answers[2][c]
    <3>1. TAKE c \in Clients
    <3>2. Len(answers[1][c]) = Len(answers[2][c])
      BY DEF RTyped, Over, Answered
    <3>3. QED
      BY <3>2, LoadTyped
  <2>3. Pairs(1) = Pairs(2)
    BY <2>2 DEF Pairs
  <2>4. QED
    BY <2>1, <2>3 DEF Balanced
<1>4. QED
  BY <1>1, <1>2, <1>3, PTL DEF Spec

=============================================================================
