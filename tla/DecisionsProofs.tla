-------------------------- MODULE DecisionsProofs --------------------------
(***************************************************************************)
(* The decisions the program takes of one input - the configuration, the   *)
(* capture of a body, the token figures, the embeddings, the handler of a  *)
(* path and the strict checks - are right for every input, not only for    *)
(* those TLC asks about.                                                   *)
(***************************************************************************)
EXTENDS Decisions, SequenceTheorems, CountingLemmas, TLAPS

-----------------------------------------------------------------------------
(* config.go.                                                              *)

\* The remainder of a division by any positive number.
LEMMA Remainder == ASSUME NEW h \in Nat, NEW n \in Nat, n > 0 PROVE h % n \in 0 .. n - 1
  OBVIOUS

\* randomDelay stays in a range that is in order, whatever the hash.
LEMMA DelayInRange ==
  ASSUME NEW h \in Nat, NEW min \in Int, NEW max \in Int, min <= max
  PROVE  min <= RandomDelay(h, min, max) /\ RandomDelay(h, min, max) <= max
  <1>1. CASE min = max BY <1>1 DEF RandomDelay
  <1>2. CASE min < max
    <2>1. h % (max - min) \in 0 .. (max - min) - 1
      <3> DEFINE n == max - min
      <3>1. n \in Nat /\ n > 0 BY <1>2
      <3> HIDE DEF n
      <3>2. h % n \in 0 .. n - 1 BY <3>1, Remainder
      <3> QED BY <3>2 DEF n
    <2> DEFINE r == h % (max - min)
    <2>2. RandomDelay(h, min, max) = min + r BY <1>2 DEF RandomDelay
    <2> HIDE DEF r
    <2>3. r \in 0 .. (max - min) - 1 BY <2>1 DEF r
    <2> QED BY <2>2, <2>3
  <1> QED BY <1>1, <1>2

\* Some layer always says something: the built-in defaults say it of every field.
LEMMA SpeakerSpeaks ==
  ASSUME NEW start, IsStart(start), NEW f \in Fields
  PROVE  /\ Speaker(start, f) \in 1 .. 3
         /\ Layers(start, f)[Speaker(start, f)] \in Int
         /\ \A j \in Speaker(start, f) + 1 .. 3 : Layers(start, f)[j] \notin Int
  <1> DEFINE L == Layers(start, f)
  <1>1. L[1] \in Int
    BY ConfigurationAssumption DEF Layers
  <1>2. \E i \in 1..3 : L[i] \in Int /\ \A j \in i+1..3 : L[j] \notin Int
    <2> HIDE DEF L
    <2>1. CASE L[3] \in Int  BY <2>1
    <2>2. CASE L[3] \notin Int /\ L[2] \in Int BY <2>2
    <2>3. CASE L[3] \notin Int /\ L[2] \notin Int BY <2>3, <1>1
    <2> QED BY <2>1, <2>2, <2>3
  <1> QED BY <1>2 DEF Speaker

\* applyFile and the env helpers together give every field its topmost value.
LEMMA TopLayerWins ==
  ASSUME NEW start, IsStart(start), NEW f \in Fields,
         NamedFile(start).state \in {"unnamed", "legible"}
  PROVE  /\ LoadConfig(start)[f] = Layers(start, f)[Speaker(start, f)]
         /\ LoadConfig(start)[f] \in Int
  <1> DEFINE L == Layers(start, f)
             s == Speaker(start, f)
             v == NamedFile(start).settings[f]
             e == start.env[f]
             below == IF v = Unset THEN Defaults[f] ELSE v
  <1>1. s \in 1 .. 3 /\ L[s] \in Int /\ \A j \in s + 1 .. 3 : L[j] \notin Int
    BY SpeakerSpeaks
  <1>2. /\ v \in Int \cup {Unset} /\ e \in Int \cup {Unset, Malformed}
        /\ Unset \notin Int /\ Malformed \notin Int
    BY ConfigurationAssumption DEF IsStart, IsFile, NamedFile, Values
  <1>3. LoadConfig(start)[f] = ReadEnv(f, e, below)
    <2>1. CASE NamedFile(start).state = "legible"
      BY <2>1 DEF LoadConfig, ApplyEnv, ApplyFile
    <2>2. CASE NamedFile(start).state = "unnamed"
      <3>1. v = Unset BY <2>2 DEF IsStart, IsFile, NamedFile
      <3> QED BY <2>2, <3>1 DEF LoadConfig, ApplyEnv
    <2> QED BY <2>1, <2>2
  <1>4. L[1] = Defaults[f] /\ L[2] = v /\ L[3] = IF f \in Texts /\ e = 0 THEN Unset ELSE e
    BY DEF Layers
  <1>5. ReadEnv(f, e, below) = IF L[3] \in Int THEN L[3] ELSE IF L[2] \in Int THEN L[2] ELSE L[1]
    <2> HIDE DEF L, s, v, e
    <2> QED BY <1>2, <1>4 DEF ReadEnv, SaysNothing
  <1> HIDE DEF L, s, v, e
  <1>6. s = 1 \/ s = 2 \/ s = 3 BY <1>1
  <1>7. CASE s = 1
    <2>1. L[1] \in Int /\ L[2] \notin Int /\ L[3] \notin Int BY <1>7, <1>1
    <2> QED BY <2>1, <1>7, <1>3, <1>5 DEF L, s
  <1>8. CASE s = 2
    <2>1. L[2] \in Int /\ L[3] \notin Int BY <1>8, <1>1
    <2> QED BY <2>1, <1>8, <1>3, <1>5 DEF L, s
  <1>9. CASE s = 3
    <2>1. L[3] \in Int BY <1>9, <1>1
    <2> QED BY <2>1, <1>9, <1>3, <1>5 DEF L, s
  <1> QED BY <1>6, <1>7, <1>8, <1>9

\* LoadConfig resolves every start as documented, whatever the files and the
\* environment say: see LayersResolveFor.
THEOREM LayersAlwaysResolve ==
  ASSUME NEW start, IsStart(start)
  PROVE  LayersResolveFor(start)
  <1> DEFINE cfg  == LoadConfig(start)
             file == NamedFile(start).state
             low  == Speaker(start, "ttft_min")
             high == Speaker(start, "ttft_max")
  <1>1. Started(start) = "config error" <=> file \in {"missing", "illegible"}
    BY DEF Started, IsStart
  <1>2. Started(start) = "panic" =>
              ~start.probe /\ start.image = "unreadable" /\ cfg["assets_dir"] # 0
    BY DEF Started, IsStart
  <1>3. ASSUME file \in {"unnamed", "legible"}, NEW f \in Fields
        PROVE  cfg[f] = Layers(start, f)[Speaker(start, f)] /\ cfg[f] \in Int
    BY <1>3, TopLayerWins
  <1>4. ASSUME file \in {"unnamed", "legible"}, NEW h \in 0 .. 5
        PROVE  LET d == FirstDelay(cfg, h)
               IN  \/ cfg["ttft_min"] <= d /\ d <= cfg["ttft_max"]
                   \/ /\ d = cfg["ttft_min"]
                      /\ low # high \/ Layers(start, "ttft_min")[low]
                                         > Layers(start, "ttft_max")[high]
    <2>1. "ttft_min" \in Fields /\ "ttft_max" \in Fields BY DEF Fields
    <2>2. PICK a \in Int : a = cfg["ttft_min"] /\ a = Layers(start, "ttft_min")[low]
      BY <2>1, <1>3, <1>4
    <2>3. PICK b \in Int : b = cfg["ttft_max"] /\ b = Layers(start, "ttft_max")[high]
      BY <2>1, <1>3, <1>4
    <2> HIDE DEF cfg, low, high
    <2>4. FirstDelay(cfg, h) = RandomDelay(h, a, b) BY <2>2, <2>3 DEF FirstDelay
    <2>5. CASE a <= b
      BY <2>2, <2>3, <2>4, <2>5, DelayInRange
    <2>6. CASE a > b
      <3>1. RandomDelay(h, a, b) = a BY <2>6 DEF RandomDelay
      <3> QED BY <2>2, <2>3, <2>4, <2>6, <3>1
    <2> QED BY <2>5, <2>6
  <1> QED BY <1>1, <1>2, <1>3, <1>4 DEF LayersResolveFor

-----------------------------------------------------------------------------
(* server.go and inspect.go: the body of a request.                        *)

\* io.LimitReader gives the beginning of what it reads.
LEMMA TakeTakes ==
  ASSUME NEW s \in Seq(Bytes), NEW n \in Nat
  PROVE  /\ Take(s, n) \in Seq(Bytes)
         /\ Len(Take(s, n)) = IF n < Len(s) THEN n ELSE Len(s)
         /\ \A i \in 1 .. Len(Take(s, n)) : Take(s, n)[i] = s[i]
  <1> DEFINE k == IF n < Len(s) THEN n ELSE Len(s)
  <1>1. k \in 0 .. Len(s) OBVIOUS
  <1>2. Take(s, n) = SubSeq(s, 1, k) BY DEF Take
  <1> HIDE DEF k
  <1>3. Take(s, n) \in Seq(Bytes) /\ Len(Take(s, n)) = k
    BY <1>1, <1>2, SubSeqProperties
  <1>4. \A i \in 1 .. k : Take(s, n)[i] = s[i]
    BY <1>1, <1>2, SubSeqProperties
  <1> QED BY <1>3, <1>4 DEF k

\* A limit that is not reached cuts nothing.
LEMMA TakeAll ==
  ASSUME NEW s \in Seq(Bytes), NEW n \in Nat, Len(s) <= n
  PROVE  Take(s, n) = s
  <1>1. Take(s, n) \in Seq(Bytes) /\ Len(Take(s, n)) = Len(s)
    BY TakeTakes
  <1>2. \A i \in 1 .. Len(s) : Take(s, n)[i] = s[i]
    BY <1>1, TakeTakes
  <1> QED BY <1>1, <1>2, SeqEqual

\* Reading again what was read up to a limit gives the same.
LEMMA TakeTwice ==
  ASSUME NEW s \in Seq(Bytes), NEW n \in Nat
  PROVE  Take(Take(s, n), n) = Take(s, n)
  BY TakeTakes, TakeAll

\* What is taken is a beginning.
LEMMA TakeIsPrefix ==
  ASSUME NEW s \in Seq(Bytes), NEW n \in Nat
  PROVE  IsPrefix(Take(s, n), s)
  <1> DEFINE t == Take(s, n)
  <1>1. t \in Seq(Bytes) /\ Len(t) <= Len(s) /\ \A i \in 1 .. Len(t) : t[i] = s[i]
    BY TakeTakes
  <1> HIDE DEF t
  <1>2. SubSeq(t, 1, Len(t)) \in Seq(Bytes) /\ Len(SubSeq(t, 1, Len(t))) = Len(t)
        /\ \A i \in 1 .. Len(t) : SubSeq(t, 1, Len(t))[i] = t[i]
    BY <1>1, SubSeqProperties
  <1>3. SubSeq(s, 1, Len(t)) \in Seq(Bytes) /\ Len(SubSeq(s, 1, Len(t))) = Len(t)
        /\ \A i \in 1 .. Len(t) : SubSeq(s, 1, Len(t))[i] = s[i]
    BY <1>1, SubSeqProperties
  <1>4. SubSeq(t, 1, Len(t)) = SubSeq(s, 1, Len(t))
    BY <1>1, <1>2, <1>3, SeqEqual
  <1> QED BY <1>1, <1>4 DEF IsPrefix, t

\* So is what is taken of it in turn.
LEMMA TakeOfTakeIsPrefix ==
  ASSUME NEW r \in Seq(Bytes), NEW m \in Nat, NEW n \in Nat
  PROVE  IsPrefix(Take(Take(r, m), n), r)
  <1> DEFINE k == IF m < n THEN m ELSE n
  <1>0. k \in Nat OBVIOUS
  <1>1. Take(Take(r, m), n) = Take(r, k)
    <2> DEFINE a == Take(Take(r, m), n)
               b == Take(r, k)
               c == Take(r, m)
    <2>1. c \in Seq(Bytes) /\ Len(c) = (IF m < Len(r) THEN m ELSE Len(r))
          /\ \A i \in 1 .. Len(c) : c[i] = r[i]
      BY TakeTakes
    <2>2. b \in Seq(Bytes) /\ Len(b) = (IF k < Len(r) THEN k ELSE Len(r))
          /\ \A i \in 1 .. Len(b) : b[i] = r[i]
      BY <1>0, TakeTakes
    <2> HIDE DEF b, c
    <2>3. a \in Seq(Bytes) /\ Len(a) = (IF n < Len(c) THEN n ELSE Len(c))
          /\ \A i \in 1 .. Len(a) : a[i] = c[i]
      BY <2>1, TakeTakes DEF c
    <2> HIDE DEF a
    <2>4. Len(a) = Len(b) /\ Len(a) <= Len(c) BY <2>1, <2>2, <2>3
    <2>5. \A i \in 1 .. Len(a) : a[i] = b[i] BY <2>1, <2>2, <2>3, <2>4
    <2> QED BY <2>2, <2>3, <2>4, <2>5, SeqEqual DEF a, b
  <1> QED BY <1>0, <1>1, TakeIsPrefix

\* Text that is no text any more once it is cut was cut inside a character, and
\* the last byte kept is the first of it.
LEMMA CutSplitsOneCharacter ==
  ASSUME NEW s \in Seq(Bytes), NEW n \in Nat, Shows(s), ~Shows(Take(s, n))
  PROVE  Len(s) > n /\ Take(s, n)[n] = "lead"
  <1> DEFINE t == Take(s, n)
  <1>1. t \in Seq(Bytes) /\ Len(t) = (IF n < Len(s) THEN n ELSE Len(s))
        /\ \A i \in 1 .. Len(t) : t[i] = s[i]
    BY TakeTakes
  <1>2. Len(s) > n BY TakeAll
  <1>3. Len(t) = n BY <1>1, <1>2
  <1>4. ~Contains(t, "nul") BY <1>1, <1>2 DEF Shows, Contains
  <1> HIDE DEF t
  <1>5. ~ValidText(t) BY <1>4 DEF Shows, t
  <1>6. PICK i \in 1 .. n : ~ /\ t[i] = "lead" => i < Len(t) /\ t[i + 1] = "tail"
                              /\ t[i] = "tail" => i > 1 /\ t[i - 1] = "lead"
    BY <1>1, <1>3, <1>5 DEF ValidText
  <1>7. /\ s[i] = "lead" => i < Len(s) /\ s[i + 1] = "tail"
        /\ s[i] = "tail" => i > 1 /\ s[i - 1] = "lead"
    <2>1. i \in DOMAIN s BY <1>2, <1>6
    <2> QED BY <2>1 DEF Shows, ValidText
  <1>8. t[i] = s[i] BY <1>1, <1>3, <1>6
  <1>9. ~(t[i] = "tail" /\ ~(i > 1 /\ t[i - 1] = "lead"))
    BY <1>1, <1>3, <1>6, <1>7, <1>8
  <1>10. t[i] = "lead" /\ ~(i < n /\ t[i + 1] = "tail") BY <1>3, <1>6, <1>9
  <1>11. i = n BY <1>1, <1>3, <1>6, <1>7, <1>8, <1>10
  <1> QED BY <1>2, <1>10, <1>11 DEF t

\* The captured entry is what the handler reads, for every upload and for all
\* limits: see CaptureIsHonestFor.
THEOREM CaptureAlwaysHonest ==
  ASSUME NEW u, IsUpload(u)
  PROVE  CaptureIsHonestFor(u)
  <1> SUFFICES ASSUME ~u.bodyless PROVE CaptureIsHonestFor(u)
    BY DEF CaptureIsHonestFor
  <1> DEFINE body   == Take(u.sent, u.arrives)
             logged == Logged(u)
             data   == Captured(u)
             cut    == Take(data, StoreLimit)
             entry  == Entry(data)
             stored == entry.text \o entry.base64
  <1>1. u.sent \in Seq(Bytes) /\ u.arrives \in Nat /\ ReadLimit \in Nat /\ StoreLimit \in Nat
    BY CaptureAssumption DEF IsUpload
  <1>2. body \in Seq(Bytes) BY <1>1, TakeTakes
  <1>3. data = Take(body, ReadLimit)
    <2>1. logged = body \/ logged = Take(body, ReadLimit)
      BY DEF Logged, ReadAll
    <2>2. data = Take(logged, ReadLimit) BY DEF Captured, Rebuffer, ReadAll
    <2> HIDE DEF body, logged, data
    <2> QED BY <1>1, <1>2, <2>1, <2>2, TakeTwice
  <1>4. HandlerReads(u) = data
    <2>1. HandlerReads(u) = Take(Take(logged, ReadLimit), ReadLimit)
          /\ data = Take(logged, ReadLimit)
      BY DEF HandlerReads, Captured, Rebuffer, ReadAll
    <2> HIDE DEF body, logged
    <2>2. Take(data, ReadLimit) = data BY <1>1, <1>2, <1>3, TakeTwice
    <2> QED BY <2>1, <2>2
  <1>5. data \in Seq(Bytes) BY <1>1, <1>2, <1>3, TakeTakes
  <1>6. IsPrefix(data, u.sent) BY <1>1, <1>3, TakeOfTakeIsPrefix
  <1>7. u.arrives >= Len(u.sent) /\ Len(u.sent) <= ReadLimit => data = u.sent
    BY <1>1, <1>3, TakeAll
  <1> HIDE DEF data, body, logged
  <1>8. cut \in Seq(Bytes) /\ IsPrefix(cut, data)
    BY <1>1, <1>5, TakeTakes, TakeIsPrefix
  <1>9. Len(data) > StoreLimit <=> cut # data
    BY <1>1, <1>5, TakeTakes, TakeAll
  <1>10. /\ entry.digest = data /\ entry.bytes = Len(data)
         /\ entry.truncated <=> Len(data) > StoreLimit
         /\ entry.text = IF Shows(cut) THEN cut ELSE << >>
         /\ entry.base64 = IF Shows(cut) THEN << >> ELSE cut
    BY DEF Entry
  <1> HIDE DEF cut, entry
  <1>11. stored = cut BY <1>8, <1>10
  <1>12. entry.text # << >> => Shows(entry.text) BY <1>10
  <1>13. Shows(data) /\ entry.base64 # << >> =>
                entry.truncated /\ stored[StoreLimit] = "lead"
    BY <1>1, <1>5, <1>10, <1>11, CutSplitsOneCharacter DEF cut
  <1>14. IsPrefix(stored, data) /\ (entry.truncated <=> stored # data)
    BY <1>8, <1>9, <1>10, <1>11
  <1> QED BY <1>4, <1>6, <1>7, <1>10, <1>12, <1>13, <1>14
          DEF CaptureIsHonestFor, data, entry

-----------------------------------------------------------------------------
(* payload.go and the usage blocks of the protocols.                       *)

\* One more character costs at most one more token, and no text is free.
LEMMA EstimateGrows ==
  ASSUME NEW n \in Nat
  PROVE  /\ EstimateTokens(n) \in Nat
         /\ EstimateTokens(n + 1) - EstimateTokens(n) \in 0 .. 1
         /\ n > 0 => EstimateTokens(n) > 0
  BY DEF EstimateTokens

\* The entries of the details of geminiUsageMetadata.
Modality == [modality : {"TEXT", "IMAGE", "AUDIO"}, tokens : Nat]

\* TEXT comes first with the main figure; what follows counts something.
Details(s, text) ==
    /\ s \in Seq(Modality) /\ s # << >>
    /\ s[1].tokens = text
    /\ \A i \in DOMAIN s : i > 1 => s[i].tokens > 0

\* One more modality leaves the details as they should be.
LEMMA DetailsGrow ==
  ASSUME NEW s, NEW text \in Nat, Details(s, text), NEW name \in {"IMAGE", "AUDIO"}, NEW n \in Nat
  PROVE  Details(s \o IfAny(name, n), text)
  <1>1. CASE n > 0
    <2> DEFINE m == [modality |-> name, tokens |-> n]
    <2>1. m \in Modality /\ m.tokens > 0 BY <1>1 DEF Modality
    <2>2. IfAny(name, n) = <<m>> BY <1>1 DEF IfAny
    <2> HIDE DEF m
    <2>3. s \in Seq(Modality) /\ Len(s) \in Nat \ {0} BY DEF Details
    <2>4. s \o <<m>> = Append(s, m) BY <2>1, <2>3
    <2>5. /\ Append(s, m) \in Seq(Modality)
          /\ Len(Append(s, m)) = Len(s) + 1
          /\ \A i \in 1 .. Len(s) : Append(s, m)[i] = s[i]
          /\ Append(s, m)[Len(s) + 1] = m
      BY <2>1, <2>3
    <2> QED BY <2>1, <2>2, <2>3, <2>4, <2>5 DEF Details
  <1>2. CASE ~(n > 0)
    <2>1. IfAny(name, n) = << >> BY <1>2 DEF IfAny
    <2>2. s \o << >> = s BY DEF Details
    <2> QED BY <2>1, <2>2
  <1> QED BY <1>1, <1>2

\* geminiUsageMetadata builds such details from any figures.
LEMMA TextFirst ==
  ASSUME NEW text \in Nat, NEW image \in Nat, NEW audio \in Nat
  PROVE  Details(Modalities(text, image, audio), text)
  <1> DEFINE m == [modality |-> "TEXT", tokens |-> text]
  <1>1. Details(<<m>>, text)
    <2>1. m \in Modality /\ m.tokens = text BY DEF Modality
    <2> HIDE DEF m
    <2> QED BY <2>1 DEF Details
  <1>2. Details(<<m>> \o IfAny("IMAGE", image), text)
    <2> HIDE DEF m
    <2>1. PICK name \in {"IMAGE", "AUDIO"} : name = "IMAGE" OBVIOUS
    <2>2. Details(<<m>> \o IfAny(name, image), text) BY <1>1, DetailsGrow
    <2> QED BY <2>1, <2>2
  <1>3. Details(<<m>> \o IfAny("IMAGE", image) \o IfAny("AUDIO", audio), text)
    <2> DEFINE s == <<m>> \o IfAny("IMAGE", image)
    <2>1. PICK name \in {"IMAGE", "AUDIO"} : name = "AUDIO" OBVIOUS
    <2> HIDE DEF s
    <2>2. Details(s \o IfAny(name, audio), text) BY <1>2, DetailsGrow DEF s
    <2> QED BY <2>1, <2>2 DEF s
  <1> QED BY <1>3 DEF Modalities

\* usage: the two figures, and that they are numbers.
LEMMA CountCounts ==
  ASSUME NEW cfg, IsSettled(cfg), NEW p \in Nat, NEW r \in Nat
  PROVE  /\ Count(cfg, p, r)[1] = IF cfg.fixed THEN 10 ELSE EstimateTokens(p)
         /\ Count(cfg, p, r)[2] = IF cfg.fixed THEN 20 ELSE EstimateTokens(r)
         /\ Count(cfg, p, r)[1] \in Nat /\ Count(cfg, p, r)[2] \in Nat
  BY EstimateGrows DEF Count, IsSettled

\* All protocols charge the same for an exchange, whatever its size and whatever
\* figures are configured: see FiguresAgreeFor.
THEOREM ExchangesAlwaysAgree ==
  ASSUME NEW cfg, IsSettled(cfg), NEW x, IsExchange(x)
  PROVE  FiguresAgreeFor(cfg, x)
  <1> DEFINE chat   == OpenAIUsage(cfg, x)
             claude == AnthropicUsage(cfg, x)
             google == GeminiUsage(cfg, x)
             speech == GeminiSpeechUsage(cfg, x)
             resp   == ResponsesUsage(cfg, x)
             image  == GPTImageUsage(cfg, x)
             p == Count(cfg, ExtractPrompt(x), x.reply)[1]
             r == Count(cfg, ExtractPrompt(x), x.reply)[2]
             q == Count(cfg, ExtractResponsesPrompt(x), x.reply)[1]
             k == IF x.reasoning THEN EstimateTokens(MockReasoning) ELSE 0
             c == CacheCreationSplit(cfg)
  <1>1. /\ ExtractPrompt(x) = x.chars + x.parts /\ ExtractPrompt(x) \in Nat /\ ExtractPrompt(x) > 0
        /\ ExtractResponsesPrompt(x) \in Nat
        /\ x.bare => ExtractResponsesPrompt(x) = x.chars
        /\ x.bare => ExtractPrompt(x) = ExtractResponsesPrompt(x) + 1
        /\ ~x.bare => ExtractResponsesPrompt(x) = ExtractPrompt(x)
    BY DEF ExtractPrompt, ExtractResponsesPrompt, IsExchange
  <1>2. /\ p = IF cfg.fixed THEN 10 ELSE EstimateTokens(ExtractPrompt(x))
        /\ r = IF cfg.fixed THEN 20 ELSE EstimateTokens(x.reply)
        /\ q = IF cfg.fixed THEN 10 ELSE EstimateTokens(ExtractResponsesPrompt(x))
        /\ r = Count(cfg, ExtractResponsesPrompt(x), x.reply)[2]
        /\ p \in Nat /\ r \in Nat /\ q \in Nat
    BY <1>1, CountCounts DEF IsExchange
  <1>3. k \in Nat BY EstimateGrows DEF MockReasoning
  <1>4. chat.prompt = p /\ chat.completion = r /\ chat.total = p + r
    BY DEF OpenAIUsage
  <1>5. /\ claude.input = p /\ claude.output = r /\ claude.cacheCreation = c[1] + c[2]
        /\ claude.ephemeral5m = c[1] /\ claude.ephemeral1h = c[2]
    BY DEF AnthropicUsage
  <1>6. /\ google.prompt = p /\ google.candidates = r /\ google.total = p + r
        /\ google.promptDetails = Modalities(p, cfg.imageIn, cfg.audioIn)
        /\ google.candidatesDetails = Modalities(r, cfg.imageOut, cfg.audioOut)
    BY DEF GeminiUsage, GeminiUsageMetadata
  <1>7. speech.total = p /\ speech.promptDetails = Modalities(p, cfg.imageIn, cfg.audioIn)
    BY <1>2 DEF GeminiSpeechUsage, GeminiUsageMetadata
  <1>8. /\ resp.input = q /\ resp.output = r + k /\ resp.total = q + r + k
        /\ resp.reasoning = k
    BY <1>2 DEF ResponsesUsage
  <1>9. /\ image.input = (IF cfg.fixed THEN 10 ELSE EstimateTokens(x.chars))
        /\ image.total = image.input + image.image /\ image.text = image.input
    BY DEF GPTImageUsage
  <1>10. c[1] + c[2] = IF cfg.c5m + cfg.c1h > 0 THEN cfg.c5m + cfg.c1h ELSE cfg.legacy
    BY DEF CacheCreationSplit, IsSettled
  <1>11. /\ google.promptDetails[1].tokens = p
         /\ \A i \in DOMAIN google.candidatesDetails : i > 1 =>
              google.candidatesDetails[i].tokens > 0
    <2>1. cfg.imageIn \in Nat /\ cfg.audioIn \in Nat /\ cfg.imageOut \in Nat /\ cfg.audioOut \in Nat
      BY DEF IsSettled
    <2>2. p \in Nat /\ r \in Nat BY <1>2
    <2> HIDE DEF p, r, google
    <2>3. Details(google.promptDetails, p) /\ Details(google.candidatesDetails, r)
      BY <1>6, <2>1, <2>2, TextFirst
    <2> QED BY <2>3 DEF Details
  <1>12. p - q \in (IF x.bare THEN 0 .. 1 ELSE {0})
    <2>1. CASE cfg.fixed BY <1>2, <2>1
    <2>2. CASE ~cfg.fixed /\ x.bare
      BY <1>1, <1>2, <2>2, EstimateGrows
    <2>3. CASE ~cfg.fixed /\ ~x.bare
      BY <1>1, <1>2, <2>3
    <2> QED BY <2>1, <2>2, <2>3
  <1>13. x.chars > 0 => p > 0 /\ q > 0 /\ image.input > 0
    <2>1. x.chars \in Nat /\ ExtractResponsesPrompt(x) >= x.chars
      BY DEF ExtractResponsesPrompt, IsExchange
    <2> QED BY <1>1, <1>2, <1>9, <2>1, EstimateGrows
  <1>14. cfg.fixed => p = 10 /\ p + r = 30 /\ image.input = 10
    BY <1>2, <1>9
  <1> HIDE DEF chat, claude, google, speech, resp, image, p, q, r, k, c
  <1>15. /\ chat.prompt = claude.input /\ chat.prompt = google.prompt
         /\ chat.completion = claude.output /\ chat.completion = google.candidates
         /\ resp.output - resp.reasoning = chat.completion
         /\ google.total = chat.total /\ resp.total = resp.input + resp.output
    BY <1>2, <1>3, <1>4, <1>5, <1>6, <1>8
  <1>16. /\ image.total = image.text + image.image
         /\ claude.cacheCreation = claude.ephemeral5m + claude.ephemeral1h
         /\ claude.cacheCreation
              = IF cfg.c5m + cfg.c1h > 0 THEN cfg.c5m + cfg.c1h ELSE cfg.legacy
         /\ speech.total = chat.prompt /\ speech.promptDetails = google.promptDetails
         /\ google.promptDetails[1].tokens = chat.prompt
    BY <1>4, <1>5, <1>6, <1>7, <1>9, <1>10, <1>11
  <1>17. /\ chat.prompt - resp.input \in (IF x.bare THEN 0 .. 1 ELSE {0})
         /\ cfg.fixed => chat.prompt = 10 /\ chat.total = 30 /\ image.input = 10
         /\ x.chars > 0 => chat.prompt > 0 /\ resp.input > 0 /\ image.input > 0
    BY <1>4, <1>8, <1>12, <1>13, <1>14
  <1> QED
    BY <1>11, <1>15, <1>16, <1>17
       DEF FiguresAgreeFor, chat, claude, google, speech, resp, image

-----------------------------------------------------------------------------
(* openai_extra.go: the embeddings.                                        *)

\* The loop of normalizeInputs goes through the array element by element.
LEMMA CollectedLoops ==
  ASSUME NEW input, IsInput(input)
  PROVE  /\ Collected(input)[0] = << >>
         /\ \A n \in 1 .. Len(input) :
              Collected(input)[n] = AfterElement(Collected(input)[n - 1], input[n])
  <1> DEFINE N == Len(input)
             Loops(f, m) == f = [n \in 0 .. m |->
               IF n = 0 THEN << >> ELSE AfterElement(f[n - 1], input[n])]
             S == {m \in Nat : \E f : Loops(f, m)}
  <1>1. N \in Nat BY DEF IsInput
  <1>2. 0 \in S
    <2> DEFINE f == [n \in 0 .. 0 |-> << >>]
    <2>1. Loops(f, 0) OBVIOUS
    <2> HIDE DEF Loops, f
    <2> QED BY <2>1
  <1>3. ASSUME NEW m \in Nat, m \in S PROVE m + 1 \in S
    <2>1. PICK f : Loops(f, m) BY <1>3, Zenon
    <2> DEFINE last == AfterElement(f[m], input[m + 1])
               g == [n \in 0 .. m + 1 |-> IF n <= m THEN f[n] ELSE last]
    <2>2. g[m + 1] = last /\ \A n \in 0 .. m : g[n] = f[n] OBVIOUS
    <2>3. \A n \in 1 .. m : f[n] = AfterElement(f[n - 1], input[n])
      BY <2>1
    <2>4. f[0] = << >> BY <2>1
    <2>5. ASSUME NEW n \in 0 .. m + 1
          PROVE  g[n] = IF n = 0 THEN << >> ELSE AfterElement(g[n - 1], input[n])
      <3>1. CASE n = 0 BY <2>2, <2>4, <3>1
      <3>2. CASE n \in 1 .. m
        <4>1. n - 1 \in 0 .. m BY <3>2
        <4> HIDE DEF g
        <4> QED BY <2>2, <2>3, <3>2, <4>1
      <3>3. CASE n = m + 1
        <4>1. m \in 0 .. m /\ n - 1 = m BY <3>3
        <4>2. g[n] = last /\ g[n - 1] = f[m] BY <2>2, <3>3, <4>1
        <4> HIDE DEF g
        <4> QED BY <3>3, <4>1, <4>2
      <3> QED BY <3>1, <3>2, <3>3
    <2>6. Loops(g, m + 1)
      <3>1. g = [n \in 0 .. m + 1 |-> g[n]] OBVIOUS
      <3> HIDE DEF g
      <3> QED BY <2>5, <3>1
    <2> HIDE DEF Loops, g
    <2> QED BY <2>6
  <1>4. N \in S
    <2> HIDE DEF S, N
    <2> QED BY <1>1, <1>2, <1>3, AllNumbers
  <1>5. Loops(Collected(input), N)
    <2>1. Collected(input) = CHOOSE f : Loops(f, N) BY Zenon DEF Collected
    <2> HIDE DEF Loops
    <2>2. \E f : Loops(f, N) BY <1>4
    <2> QED BY <2>1, <2>2, Zenon
  <1> QED BY <1>1, <1>5

\* So does the loop of handleEmbeddings through the texts.
LEMMA TokensLoop ==
  ASSUME NEW texts \in Seq(Nat)
  PROVE  /\ PromptTokens(texts)[0] = 0
         /\ \A n \in 1 .. Len(texts) :
              PromptTokens(texts)[n] = PromptTokens(texts)[n - 1] + EstimateTokens(texts[n])
  <1> DEFINE N == Len(texts)
             Loops(f, m) == f = [n \in 0 .. m |->
               IF n = 0 THEN 0 ELSE f[n - 1] + EstimateTokens(texts[n])]
             S == {m \in Nat : \E f : Loops(f, m)}
  <1>1. N \in Nat OBVIOUS
  <1>2. 0 \in S
    <2> DEFINE f == [n \in 0 .. 0 |-> 0]
    <2>1. Loops(f, 0) OBVIOUS
    <2> HIDE DEF Loops, f
    <2> QED BY <2>1
  <1>3. ASSUME NEW m \in Nat, m \in S PROVE m + 1 \in S
    <2>1. PICK f : Loops(f, m) BY <1>3, Zenon
    <2> DEFINE last == f[m] + EstimateTokens(texts[m + 1])
               g == [n \in 0 .. m + 1 |-> IF n <= m THEN f[n] ELSE last]
    <2>2. g[m + 1] = last /\ \A n \in 0 .. m : g[n] = f[n] OBVIOUS
    <2>3. \A n \in 1 .. m : f[n] = f[n - 1] + EstimateTokens(texts[n])
      BY <2>1
    <2>4. f[0] = 0 BY <2>1
    <2>5. ASSUME NEW n \in 0 .. m + 1
          PROVE  g[n] = IF n = 0 THEN 0 ELSE g[n - 1] + EstimateTokens(texts[n])
      <3>1. CASE n = 0 BY <2>2, <2>4, <3>1
      <3>2. CASE n \in 1 .. m
        <4>1. n - 1 \in 0 .. m BY <3>2
        <4> HIDE DEF g
        <4> QED BY <2>2, <2>3, <3>2, <4>1
      <3>3. CASE n = m + 1
        <4>1. m \in 0 .. m /\ n - 1 = m BY <3>3
        <4>2. g[n] = last /\ g[n - 1] = f[m] BY <2>2, <3>3, <4>1
        <4> HIDE DEF g
        <4> QED BY <3>3, <4>1, <4>2
      <3> QED BY <3>1, <3>2, <3>3
    <2>6. Loops(g, m + 1)
      <3>1. g = [n \in 0 .. m + 1 |-> g[n]] OBVIOUS
      <3> HIDE DEF g
      <3> QED BY <2>5, <3>1
    <2> HIDE DEF Loops, g
    <2> QED BY <2>6
  <1>4. N \in S
    <2> HIDE DEF S, N
    <2> QED BY <1>1, <1>2, <1>3, AllNumbers
  <1>5. Loops(PromptTokens(texts), N)
    <2>1. PromptTokens(texts) = CHOOSE f : Loops(f, N) BY Zenon DEF PromptTokens
    <2> HIDE DEF Loops
    <2>2. \E f : Loops(f, N) BY <1>4
    <2> QED BY <2>1, <2>2, Zenon
  <1> QED BY <1>1, <1>5

\* The texts are free exactly if each is empty.
LEMMA FreeIfEmpty ==
  ASSUME NEW texts \in Seq(Nat)
  PROVE  PromptTokens(texts)[Len(texts)] = 0 <=> \A i \in 1 .. Len(texts) : texts[i] = 0
  <1> DEFINE t == PromptTokens(texts)
             S == {n \in Nat : n <= Len(texts) =>
                     /\ t[n] \in Nat
                     /\ (t[n] = 0 <=> \A i \in 1 .. n : texts[i] = 0)}
  <1>1. 0 \in S BY TokensLoop
  <1>2. ASSUME NEW n \in Nat, n \in S PROVE n + 1 \in S
    <2> SUFFICES ASSUME n + 1 <= Len(texts)
                 PROVE  /\ t[n + 1] \in Nat
                        /\ (t[n + 1] = 0 <=> \A i \in 1 .. n + 1 : texts[i] = 0)
      OBVIOUS
    <2>1. t[n] \in Nat /\ (t[n] = 0 <=> \A i \in 1 .. n : texts[i] = 0)
      BY <1>2
    <2>2. PICK x \in Nat : x = texts[n + 1] OBVIOUS
    <2>3. PICK e \in Nat : e = EstimateTokens(x) BY EstimateGrows
    <2>4. e = 0 <=> x = 0 BY <2>3, EstimateGrows DEF EstimateTokens
    <2>5. t[n + 1] = t[n] + e
      <3>1. n + 1 \in 1 .. Len(texts) /\ (n + 1) - 1 = n OBVIOUS
      <3> HIDE DEF t
      <3> QED BY <2>2, <2>3, <3>1, TokensLoop DEF t
    <2>6. (\A i \in 1 .. n + 1 : texts[i] = 0) <=> (\A i \in 1 .. n : texts[i] = 0) /\ x = 0
      BY <2>2
    <2>7. PICK p \in Nat : p = t[n] BY <2>1
    <2>8. p + e \in Nat /\ (p + e = 0 <=> p = 0 /\ e = 0) OBVIOUS
    <2> HIDE DEF t
    <2> QED BY <2>1, <2>4, <2>5, <2>6, <2>7, <2>8, Zenon
  <1>3. Len(texts) \in S
    <2> HIDE DEF S
    <2> QED BY <1>1, <1>2, AllNumbers
  <1> QED BY <1>3

\* The strings of an array, and the place each takes among them.
Strings(input) == {i \in DOMAIN input : input[i] # NoText}
Place(input, n) == Cardinality({j \in Strings(input) : j <= n})

\* Every string moves the place on by one.
LEMMA PlacesCount ==
  ASSUME NEW input, IsInput(input)
  PROVE  /\ IsFiniteSet(Strings(input))
         /\ Place(input, 0) = 0 /\ Place(input, Len(input)) = Cardinality(Strings(input))
         /\ \A n \in 0 .. Len(input) : Place(input, n) \in Nat
         /\ \A n \in 1 .. Len(input) :
              Place(input, n) = Place(input, n - 1) + (IF input[n] = NoText THEN 0 ELSE 1)
  <1> DEFINE S == Strings(input)
             upTo(n) == {j \in S : j <= n}
  <1>1. S \subseteq 1 .. Len(input) /\ Len(input) \in Nat
        /\ \A i \in 1 .. Len(input) : i \in S <=> input[i] # NoText
    BY DEF IsInput, Strings
  <1> HIDE DEF S
  <1>2. IsFiniteSet(S) /\ \A n \in Int : IsFiniteSet(upTo(n)) /\ Cardinality(upTo(n)) \in Nat
    <2>1. IsFiniteSet(1 .. Len(input)) BY <1>1, FS_Interval
    <2>2. IsFiniteSet(S) BY <1>1, <2>1, FS_Subset
    <2>3. \A n \in Int : upTo(n) \in SUBSET S OBVIOUS
    <2> HIDE DEF upTo
    <2> QED BY <2>2, <2>3, FS_Subset, FS_CardinalityType
  <1>3. ASSUME NEW n \in Int PROVE Place(input, n) = Cardinality(upTo(n))
    <2>1. upTo(n) = {j \in Strings(input) : j <= n} BY DEF S
    <2> HIDE DEF upTo
    <2> QED BY <2>1, Zenon DEF Place
  <1>4. \A j \in S : j \in Int /\ 1 <= j /\ j <= Len(input) BY <1>1
  <1>5. upTo(0) = {} /\ upTo(Len(input)) = S BY <1>4
  <1>6. ASSUME NEW n \in 1 .. Len(input)
        PROVE  Place(input, n) = Place(input, n - 1) + (IF input[n] = NoText THEN 0 ELSE 1)
    <2>1. n - 1 \in Int /\ n \notin upTo(n - 1) /\ n \in Int BY <1>1
    <2>2. n \in S <=> input[n] # NoText BY <1>1
    <2>3. \A j \in S : j <= n <=> j <= n - 1 \/ j = n BY <1>1, <1>4
    <2>4. CASE input[n] = NoText
      <3>1. upTo(n) = upTo(n - 1) BY <2>4, <2>2, <2>3
      <3> HIDE DEF upTo
      <3>2. Place(input, n) = Cardinality(upTo(n)) BY <1>3, <2>1
      <3>3. Place(input, n - 1) = Cardinality(upTo(n - 1)) BY <1>3, <2>1
      <3> QED BY <1>2, <2>1, <2>4, <3>1, <3>2, <3>3
    <2>5. CASE input[n] # NoText
      <3>1. upTo(n) = upTo(n - 1) \cup {n} BY <2>5, <2>2, <2>3
      <3> HIDE DEF upTo
      <3>2. Cardinality(upTo(n)) = Cardinality(upTo(n - 1)) + 1
        BY <1>2, <2>1, <3>1, FS_AddElement
      <3>3. Place(input, n) = Cardinality(upTo(n)) BY <1>3, <2>1
      <3>4. Place(input, n - 1) = Cardinality(upTo(n - 1)) BY <1>3, <2>1
      <3> QED BY <2>5, <3>2, <3>3, <3>4
    <2> QED BY <2>4, <2>5
  <1>7. Place(input, 0) = 0 /\ Place(input, Len(input)) = Cardinality(S)
    <2>1. 0 \in Int /\ Len(input) \in Int BY <1>1
    <2> HIDE DEF upTo
    <2>2. Place(input, 0) = Cardinality(upTo(0)) BY <1>3, <2>1
    <2>3. Place(input, Len(input)) = Cardinality(upTo(Len(input))) BY <1>3, <2>1
    <2> QED BY <1>5, <2>2, <2>3, FS_EmptySet
  <1>8. \A n \in 0 .. Len(input) : Place(input, n) \in Nat
    <2> HIDE DEF upTo
    <2> QED BY <1>1, <1>2, <1>3
  <1> QED BY <1>2, <1>6, <1>7, <1>8 DEF S

\* out holds the strings among the first n elements, each at its place.
Placed(input, n, out) ==
    /\ out \in Seq(Nat) /\ Len(out) = Place(input, n)
    /\ \A i \in Strings(input) : i <= n =>
          Place(input, i) \in 1 .. Place(input, n) /\ out[Place(input, i)] = input[i]
    /\ \A k \in 1 .. Place(input, n) : \E i \in Strings(input) : i <= n /\ Place(input, i) = k

\* One more element, be it a string or not.
LEMMA OneMorePlaced ==
  ASSUME NEW input, IsInput(input), NEW n \in Nat, n + 1 <= Len(input),
         NEW out, Placed(input, n, out)
  PROVE  Placed(input, n + 1, AfterElement(out, input[n + 1]))
  <1> DEFINE m == n + 1
             next == AfterElement(out, input[m])
  <1>1. /\ m \in 1 .. Len(input) /\ m - 1 = n /\ n \in 0 .. Len(input) /\ Len(input) \in Nat
        /\ input[m] \in Nat \cup {NoText}
        /\ \A i \in Strings(input) : i \in 1 .. Len(input) /\ (i <= m <=> i <= n \/ i = m)
        /\ (m \in Strings(input) <=> input[m] # NoText)
    BY DEF IsInput, Strings
  <1>2. PICK p \in Nat : p = Place(input, n) BY <1>1, PlacesCount
  <1>3. /\ out \in Seq(Nat) /\ Len(out) = p
        /\ \A i \in Strings(input) : i <= n =>
              Place(input, i) \in 1 .. p /\ out[Place(input, i)] = input[i]
        /\ \A k \in 1 .. p : \E i \in Strings(input) : i <= n /\ Place(input, i) = k
    BY <1>2 DEF Placed
  <1>4. Place(input, m) = Place(input, m - 1) + (IF input[m] = NoText THEN 0 ELSE 1)
    <2> HIDE DEF m
    <2> QED BY <1>1, PlacesCount
  <1> HIDE DEF m
  <1>5. CASE input[m] = NoText
    <2>1. next = out BY <1>5 DEF AfterElement
    <2>2. Place(input, m) = p /\ m \notin Strings(input) BY <1>1, <1>2, <1>4, <1>5
    <2> HIDE DEF next
    <2> QED BY <1>1, <1>3, <2>1, <2>2 DEF Placed, next, m
  <1>6. CASE input[m] # NoText
    <2>1. PICK x \in Nat : x = input[m] BY <1>1, <1>6
    <2>2. next = Append(out, x) BY <1>6, <2>1 DEF AfterElement
    <2>3. Place(input, m) = p + 1 /\ m \in Strings(input) BY <1>1, <1>2, <1>4, <1>6
    <2> HIDE DEF next
    <2>4. /\ next \in Seq(Nat) /\ Len(next) = p + 1
          /\ \A k \in 1 .. p : next[k] = out[k]
          /\ next[p + 1] = x
      BY <1>3, <2>2
    <2>5. ASSUME NEW i \in Strings(input), i <= m
          PROVE  Place(input, i) \in 1 .. p + 1 /\ next[Place(input, i)] = input[i]
      <3>1. CASE i <= n
        <4>1. Place(input, i) \in 1 .. p /\ out[Place(input, i)] = input[i] BY <1>3, <3>1
        <4> QED BY <2>4, <4>1
      <3>2. CASE i = m BY <2>1, <2>3, <2>4, <3>2
      <3> QED BY <1>1, <2>5, <3>1, <3>2
    <2>6. ASSUME NEW k \in 1 .. p + 1
          PROVE  \E i \in Strings(input) : i <= m /\ Place(input, i) = k
      <3>1. CASE k \in 1 .. p BY <1>1, <1>3, <3>1
      <3>2. CASE k = p + 1 BY <1>1, <2>3, <3>2
      <3> QED BY <3>1, <3>2
    <2> QED BY <2>3, <2>4, <2>5, <2>6 DEF Placed, next, m
  <1> QED BY <1>5, <1>6

\* normalizeInputs keeps the strings and their order.
LEMMA StringsKept ==
  ASSUME NEW input, IsInput(input)
  PROVE  Placed(input, Len(input), Collected(input)[Len(input)])
  <1> DEFINE S == {n \in Nat : n <= Len(input) => Placed(input, n, Collected(input)[n])}
  <1>0. Len(input) \in Nat /\ \A i \in Strings(input) : i \in 1 .. Len(input)
    BY DEF IsInput, Strings
  <1>1. 0 \in S
    <2>1. Place(input, 0) = 0 BY PlacesCount
    <2>2. Collected(input)[0] = << >> BY CollectedLoops
    <2>3. Placed(input, 0, << >>) BY <1>0, <2>1 DEF Placed
    <2> QED BY <2>2, <2>3
  <1>2. ASSUME NEW n \in Nat, n \in S PROVE n + 1 \in S
    <2> SUFFICES ASSUME n + 1 <= Len(input)
                 PROVE  Placed(input, n + 1, Collected(input)[n + 1])
      OBVIOUS
    <2>1. Placed(input, n, Collected(input)[n]) BY <1>0, <1>2
    <2>2. Placed(input, n + 1, AfterElement(Collected(input)[n], input[n + 1]))
      BY <2>1, OneMorePlaced
    <2>3. Collected(input)[n + 1] = AfterElement(Collected(input)[n], input[n + 1])
      <3>1. n + 1 \in 1 .. Len(input) /\ (n + 1) - 1 = n BY <1>0
      <3> QED BY <3>1, CollectedLoops
    <2> QED BY <2>2, <2>3
  <1>3. Len(input) \in S
    <2> HIDE DEF S
    <2> QED BY <1>0, <1>1, <1>2, AllNumbers
  <1> QED BY <1>3

\* Whatever is sent to be embedded, the vectors are those of its strings in their
\* order: see EmbeddingsInOrder.
THEOREM EmbeddingsAlwaysInOrder ==
  ASSUME NEW input, IsInput(input)
  PROVE  EmbeddingsInOrder(input)
  <1> DEFINE out == Collected(input)[Len(input)]
             texts == NormalizeInputs(input)
             e == Embeddings(input)
             c == Cardinality(Strings(input))
  <1>1. /\ Place(input, Len(input)) = c /\ c \in Nat /\ IsFiniteSet(Strings(input))
        /\ Strings(input) = {} <=> c = 0
    BY PlacesCount, FS_CardinalityType, FS_EmptySet
  <1>2. /\ out \in Seq(Nat) /\ Len(out) = c
        /\ \A i \in Strings(input) : Place(input, i) \in 1 .. c /\ out[Place(input, i)] = input[i]
        /\ \A k \in 1 .. c : \E i \in Strings(input) : Place(input, i) = k
    <2>1. \A i \in Strings(input) : i <= Len(input) BY DEF Strings, IsInput
    <2>2. Placed(input, Len(input), out) BY StringsKept
    <2> HIDE DEF out, c
    <2> QED BY <1>1, <2>1, <2>2 DEF Placed
  <1>3. texts = IF c = 0 THEN <<0>> ELSE out
    <2>1. out = << >> <=> c = 0 BY <1>1, <1>2
    <2>2. texts = IF out = << >> THEN <<0>> ELSE out BY DEF NormalizeInputs
    <2> HIDE DEF out, c, texts
    <2> QED BY <2>1, <2>2
  <1>4. texts \in Seq(Nat) /\ Len(texts) = IF c = 0 THEN 1 ELSE c
    <2> HIDE DEF out, c, texts
    <2>1. <<0>> \in Seq(Nat) /\ Len(<<0>>) = 1 OBVIOUS
    <2> QED BY <1>2, <1>3, <2>1
  <1>5. /\ e.vectors = [i \in DOMAIN texts |-> [index |-> i - 1, text |-> texts[i]]]
        /\ e.tokens = PromptTokens(texts)[Len(texts)]
    BY DEF Embeddings
  <1> HIDE DEF out, texts, e
  <1>6. Len(e.vectors) = Len(texts) /\ DOMAIN e.vectors = DOMAIN texts
    <2>1. PICK n \in Nat : n = Len(texts) BY <1>4
    <2>2. DOMAIN texts = 1 .. n BY <1>4, <2>1, LenProperties
    <2>3. e.vectors = [i \in 1 .. n |-> [index |-> i - 1, text |-> texts[i]]]
      BY <1>5, <2>2
    <2>4. Len(e.vectors) = n /\ DOMAIN e.vectors = 1 .. n BY <2>3
    <2> QED BY <2>1, <2>2, <2>4
  <1>7. \A i \in DOMAIN e.vectors : e.vectors[i].index = i - 1 /\ e.vectors[i].text = texts[i]
    BY <1>4, <1>5
  <1>8. \A i \in Strings(input) : e.vectors[Place(input, i)].text = input[i]
    <2> SUFFICES ASSUME NEW i \in Strings(input) PROVE e.vectors[Place(input, i)].text = input[i]
      OBVIOUS
    <2>1. Place(input, i) \in 1 .. c /\ c # 0 /\ out[Place(input, i)] = input[i]
      BY <1>1, <1>2
    <2>2. texts = out /\ Place(input, i) \in DOMAIN e.vectors
      <3> HIDE DEF c
      <3> QED BY <1>1, <1>3, <1>4, <1>6, <2>1
    <2> QED BY <1>7, <2>1, <2>2
  <1>9. e.tokens = 0 <=> \A i \in Strings(input) : input[i] = 0
    <2>1. e.tokens = 0 <=> \A k \in 1 .. Len(texts) : texts[k] = 0
      BY <1>4, <1>5, FreeIfEmpty
    <2>2. CASE c = 0
      <3>1. texts = <<0>> /\ Strings(input) = {}
        <4> HIDE DEF c
        <4> QED BY <1>1, <1>3, <2>2
      <3> QED BY <2>1, <3>1
    <2>3. CASE c # 0
      <3>1. texts = out /\ Len(texts) = c
        <4> HIDE DEF c
        <4> QED BY <1>3, <1>4, <2>3
      <3>2. (\A k \in 1 .. c : texts[k] = 0) <=> (\A i \in Strings(input) : input[i] = 0)
        <4> HIDE DEF c
        <4> QED BY <1>2, <3>1
      <3> QED BY <2>1, <3>1, <3>2
    <2> QED BY <2>2, <2>3
  <1>10. Len(e.vectors) = IF Strings(input) = {} THEN 1 ELSE Cardinality(Strings(input))
    BY <1>1, <1>4, <1>6
  <1> HIDE DEF c
  <1> QED BY <1>7, <1>8, <1>9, <1>10 DEF EmbeddingsInOrder, e, Strings, Place

-----------------------------------------------------------------------------
(* gemini.go and anthropic.go: the strict mode.                            *)

\* strictAnthropicCheck refuses exactly the documented faults, for all numbers.
LEMMA AnthropicFaults ==
  ASSUME NEW b, IsBody(b)
  PROVE  StrictAnthropicCheck(b) <=> Faults("anthropic", b) # {}
  <1> DEFINE wrong(r) ==
        CASE r = "max_tokens" -> b.maxTokens \notin Nat \ {0}
          [] r = "budget_tokens" -> b.thinking /\ b.budget \notin 1024 .. b.maxTokens - 1
          [] r = "temperature" -> b.thinking /\ b.temperature \in Nat \ {10}
  <1>1. Faults("anthropic", b) =
          {r \in {"max_tokens", "budget_tokens", "temperature"} : wrong(r)}
    BY DEF Faults
  <1>2. /\ wrong("max_tokens") <=> b.maxTokens < 1
        /\ wrong("budget_tokens") <=> b.thinking /\ (b.budget < 1024 \/ b.budget >= b.maxTokens)
        /\ wrong("temperature") <=> b.thinking /\ b.temperature \notin {NoNumber, 10}
    BY DEF IsBody, NoNumber
  <1> HIDE DEF wrong
  <1>3. Faults("anthropic", b) # {} <=>
          wrong("max_tokens") \/ wrong("budget_tokens") \/ wrong("temperature")
    BY <1>1
  <1> QED BY <1>2, <1>3 DEF StrictAnthropicCheck

\* strictGeminiCheck does, for any contents.
LEMMA GeminiFaults ==
  ASSUME NEW b, IsBody(b), NEW by \in {"generateContent", "streamGenerateContent"}
  PROVE  StrictGeminiCheck(b) <=> Faults(by, b) # {}
  <1> DEFINE wrong(r) ==
        CASE r = "signature missing" ->
               b.thinkingModel /\ "call without signature" \in b.parts
          [] r = "id present" -> "response with id" \in b.parts
  <1>1. Faults(by, b) = {r \in {"signature missing", "id present"} : wrong(r)}
    BY DEF Faults
  <1>2. /\ wrong("signature missing") <=>
             b.thinkingModel /\ "call without signature" \in b.parts
        /\ wrong("id present") <=> "response with id" \in b.parts
    OBVIOUS
  <1> HIDE DEF wrong
  <1>3. Faults(by, b) # {} <=> wrong("signature missing") \/ wrong("id present")
    BY <1>1
  <1> QED BY <1>2, <1>3 DEF StrictGeminiCheck

\* Wherever a path leads, the strict mode refuses there what the documentation
\* says is refused there and nothing else, and with it off every request is
\* answered by its own handler; the actions are those the documentation lists.
THEOREM StrictRefusesTheFaults ==
  ASSUME NEW strict \in BOOLEAN, NEW path, NEW b, IsBody(b)
  PROVE  /\ Handler(path) = "anthropic" =>
              Answer(strict, path, b) =
                IF strict /\ Faults("anthropic", b) # {} THEN "refused" ELSE "anthropic"
         /\ Handler(path) = Gemini /\ ~ModelMissing(path)
            /\ GeminiAction(path) \in {"generateContent", "streamGenerateContent", "countTokens"} =>
              Answer(strict, path, b) =
                IF strict /\ Faults(GeminiAction(path), b) # {} THEN "refused"
                ELSE GeminiAction(path)
         /\ Handler(path) \notin {"anthropic", Gemini} => Answer(strict, path, b) = Handler(path)
  <1>1. ASSUME Handler(path) = "anthropic"
        PROVE  Answer(strict, path, b) =
                IF strict /\ Faults("anthropic", b) # {} THEN "refused" ELSE "anthropic"
    BY <1>1, AnthropicFaults DEF Answer, Gemini
  <1>2. ASSUME Handler(path) = Gemini, ~ModelMissing(path),
               GeminiAction(path) \in {"generateContent", "streamGenerateContent", "countTokens"}
        PROVE  Answer(strict, path, b) =
                IF strict /\ Faults(GeminiAction(path), b) # {} THEN "refused"
                ELSE GeminiAction(path)
    <2> DEFINE a == GeminiAction(path)
               refused == strict /\ StrictGeminiCheck(b)
    <2>1. Answer(strict, path, b) = GeminiAnswer(a, refused)
      BY <1>2 DEF Answer, Gemini
    <2>2. refused \in BOOLEAN BY DEF StrictGeminiCheck
    <2>3. CASE a \in {"generateContent", "streamGenerateContent"}
      <3>1. refused <=> strict /\ Faults(a, b) # {} BY <2>3, GeminiFaults
      <3> HIDE DEF a, refused
      <3> QED BY <2>1, <2>2, <2>3, <3>1 DEF GeminiAnswer, a
    <2>4. CASE a = "countTokens"
      <3>1. Faults(a, b) = {} BY <2>4 DEF Faults
      <3> HIDE DEF a, refused
      <3> QED BY <2>1, <2>2, <2>4, <3>1 DEF GeminiAnswer, a
    <2> QED BY <1>2, <2>3, <2>4
  <1>3. ASSUME Handler(path) \notin {"anthropic", Gemini}
        PROVE  Answer(strict, path, b) = Handler(path)
    BY <1>3 DEF Answer
  <1> QED BY <1>1, <1>2, <1>3

-----------------------------------------------------------------------------
(* server.go: the switch of dispatch.                                      *)

\* The cases that are about how a path ends; the handler of a case, the end it
\* asks for and the last word of that.
EndRoutes == (1 .. 23) \ {1, 7, 9}
Kind(i) == Routes[i][1]
Ending(i) == Routes[i][2]
By(i) == Routes[i][3]
LastWord(i) == Ending(i)[Len(Ending(i))]
Row(i) == [ending |-> Ending(i), by |-> By(i)]

\* The table of the cases, part by part.
LEMMA RouteTable ==
  /\ DOMAIN Routes = 1 .. 23
  /\ Kind(7) = Gemini /\ By(7) = Gemini
  /\ Kind(1) = "under" /\ Ending(1) = <<"api", "v1", "tasks">> /\ By(1) = "task query"
  /\ Kind(9) = "under" /\ Ending(9) = <<"api", "paas", "v4", "async-result">> /\ By(9) = "zhipu result"
  /\ Kind(2) = "ends" /\ Ending(2) = <<"image-synthesis">> /\ By(2) = "dashscope image"
  /\ Kind(3) = "ends" /\ Ending(3) = <<"video-synthesis">> /\ By(3) = "dashscope video"
  /\ Kind(4) = "ends" /\ Ending(4) = <<"query", "video_generation">> /\ By(4) = "minimax query"
  /\ Kind(5) = "ends" /\ Ending(5) = <<"video_generation">> /\ By(5) = "minimax video"
  /\ Kind(6) = "ends" /\ Ending(6) = <<"files", "retrieve">> /\ By(6) = "minimax file"
  /\ Kind(8) = "ends" /\ Ending(8) = <<"messages">> /\ By(8) = "anthropic"
  /\ Kind(10) = "ends" /\ Ending(10) = <<"paas", "v4", "videos", "generations">> /\ By(10) = "zhipu video"
  /\ Kind(11) = "ends" /\ Ending(11) = <<"paas", "v4", "images", "generations">> /\ By(11) = "zhipu image"
  /\ Kind(12) = "ends" /\ Ending(12) = <<"paas", "v4", "chat", "completions">> /\ By(12) = "zhipu chat"
  /\ Kind(13) = "ends" /\ Ending(13) = <<"chat", "completions">> /\ By(13) = "chat"
  /\ Kind(14) = "ends" /\ Ending(14) = <<"responses">> /\ By(14) = "responses"
  /\ Kind(15) = "ends" /\ Ending(15) = <<"embeddings">> /\ By(15) = "embeddings"
  /\ Kind(16) = "ends" /\ Ending(16) = <<"images", "generations">> /\ By(16) = "image"
  /\ Kind(17) = "ends" /\ Ending(17) = <<"images", "edits">> /\ By(17) = "image"
  /\ Kind(18) = "ends" /\ Ending(18) = <<"images", "variations">> /\ By(18) = "image"
  /\ Kind(19) = "ends" /\ Ending(19) = <<"videos", "generations">> /\ By(19) = "video"
  /\ Kind(20) = "ends" /\ Ending(20) = <<"videos", "edits">> /\ By(20) = "video"
  /\ Kind(21) = "ends" /\ Ending(21) = <<"audio", "speech">> /\ By(21) = "speech"
  /\ Kind(22) = "ends" /\ Ending(22) = <<"audio", "transcriptions">> /\ By(22) = "transcription"
  /\ Kind(23) = "ends" /\ Ending(23) = <<"models">> /\ By(23) = "models"
  BY DEF Routes, Kind, Ending, By

\* The length and the last word of every ending.
LEMMA EndingTable ==
  /\ (\E W : Ending(2) \in Seq(W)) /\ Len(Ending(2)) = 1 /\ LastWord(2) = "image-synthesis"
  /\ (\E W : Ending(3) \in Seq(W)) /\ Len(Ending(3)) = 1 /\ LastWord(3) = "video-synthesis"
  /\ (\E W : Ending(4) \in Seq(W)) /\ Len(Ending(4)) = 2 /\ LastWord(4) = "video_generation"
  /\ (\E W : Ending(5) \in Seq(W)) /\ Len(Ending(5)) = 1 /\ LastWord(5) = "video_generation"
  /\ (\E W : Ending(6) \in Seq(W)) /\ Len(Ending(6)) = 2 /\ LastWord(6) = "retrieve"
  /\ (\E W : Ending(8) \in Seq(W)) /\ Len(Ending(8)) = 1 /\ LastWord(8) = "messages"
  /\ (\E W : Ending(10) \in Seq(W)) /\ Len(Ending(10)) = 4 /\ LastWord(10) = "generations"
  /\ (\E W : Ending(11) \in Seq(W)) /\ Len(Ending(11)) = 4 /\ LastWord(11) = "generations"
  /\ (\E W : Ending(12) \in Seq(W)) /\ Len(Ending(12)) = 4 /\ LastWord(12) = "completions"
  /\ (\E W : Ending(13) \in Seq(W)) /\ Len(Ending(13)) = 2 /\ LastWord(13) = "completions"
  /\ (\E W : Ending(14) \in Seq(W)) /\ Len(Ending(14)) = 1 /\ LastWord(14) = "responses"
  /\ (\E W : Ending(15) \in Seq(W)) /\ Len(Ending(15)) = 1 /\ LastWord(15) = "embeddings"
  /\ (\E W : Ending(16) \in Seq(W)) /\ Len(Ending(16)) = 2 /\ LastWord(16) = "generations"
  /\ (\E W : Ending(17) \in Seq(W)) /\ Len(Ending(17)) = 2 /\ LastWord(17) = "edits"
  /\ (\E W : Ending(18) \in Seq(W)) /\ Len(Ending(18)) = 2 /\ LastWord(18) = "variations"
  /\ (\E W : Ending(19) \in Seq(W)) /\ Len(Ending(19)) = 2 /\ LastWord(19) = "generations"
  /\ (\E W : Ending(20) \in Seq(W)) /\ Len(Ending(20)) = 2 /\ LastWord(20) = "edits"
  /\ (\E W : Ending(21) \in Seq(W)) /\ Len(Ending(21)) = 2 /\ LastWord(21) = "speech"
  /\ (\E W : Ending(22) \in Seq(W)) /\ Len(Ending(22)) = 2 /\ LastWord(22) = "transcriptions"
  /\ (\E W : Ending(23) \in Seq(W)) /\ Len(Ending(23)) = 1 /\ LastWord(23) = "models"
  <1>2. (\E W : Ending(2) \in Seq(W)) /\ Len(Ending(2)) = 1 /\ LastWord(2) = "image-synthesis"
    <2>1. Ending(2) = <<"image-synthesis">> BY RouteTable, Zenon
    <2>2. <<"image-synthesis">> \in Seq({"image-synthesis"}) OBVIOUS
    <2>5. \E W : Ending(2) \in Seq(W) BY <2>1, <2>2, Zenon
    <2>3. Len(Ending(2)) = 1 BY <2>1
    <2>4. Ending(2)[1] = "image-synthesis" BY <2>1
    <2> QED BY <2>3, <2>4, <2>5 DEF LastWord
  <1>3. (\E W : Ending(3) \in Seq(W)) /\ Len(Ending(3)) = 1 /\ LastWord(3) = "video-synthesis"
    <2>1. Ending(3) = <<"video-synthesis">> BY RouteTable, Zenon
    <2>2. <<"video-synthesis">> \in Seq({"video-synthesis"}) OBVIOUS
    <2>5. \E W : Ending(3) \in Seq(W) BY <2>1, <2>2, Zenon
    <2>3. Len(Ending(3)) = 1 BY <2>1
    <2>4. Ending(3)[1] = "video-synthesis" BY <2>1
    <2> QED BY <2>3, <2>4, <2>5 DEF LastWord
  <1>4. (\E W : Ending(4) \in Seq(W)) /\ Len(Ending(4)) = 2 /\ LastWord(4) = "video_generation"
    <2>1. Ending(4) = <<"query", "video_generation">> BY RouteTable, Zenon
    <2>2. <<"query", "video_generation">> \in Seq({"query", "video_generation"}) OBVIOUS
    <2>5. \E W : Ending(4) \in Seq(W) BY <2>1, <2>2, Zenon
    <2>3. Len(Ending(4)) = 2 BY <2>1
    <2>4. Ending(4)[2] = "video_generation" BY <2>1
    <2> QED BY <2>3, <2>4, <2>5 DEF LastWord
  <1>5. (\E W : Ending(5) \in Seq(W)) /\ Len(Ending(5)) = 1 /\ LastWord(5) = "video_generation"
    <2>1. Ending(5) = <<"video_generation">> BY RouteTable, Zenon
    <2>2. <<"video_generation">> \in Seq({"video_generation"}) OBVIOUS
    <2>5. \E W : Ending(5) \in Seq(W) BY <2>1, <2>2, Zenon
    <2>3. Len(Ending(5)) = 1 BY <2>1
    <2>4. Ending(5)[1] = "video_generation" BY <2>1
    <2> QED BY <2>3, <2>4, <2>5 DEF LastWord
  <1>6. (\E W : Ending(6) \in Seq(W)) /\ Len(Ending(6)) = 2 /\ LastWord(6) = "retrieve"
    <2>1. Ending(6) = <<"files", "retrieve">> BY RouteTable, Zenon
    <2>2. <<"files", "retrieve">> \in Seq({"files", "retrieve"}) OBVIOUS
    <2>5. \E W : Ending(6) \in Seq(W) BY <2>1, <2>2, Zenon
    <2>3. Len(Ending(6)) = 2 BY <2>1
    <2>4. Ending(6)[2] = "retrieve" BY <2>1
    <2> QED BY <2>3, <2>4, <2>5 DEF LastWord
  <1>8. (\E W : Ending(8) \in Seq(W)) /\ Len(Ending(8)) = 1 /\ LastWord(8) = "messages"
    <2>1. Ending(8) = <<"messages">> BY RouteTable, Zenon
    <2>2. <<"messages">> \in Seq({"messages"}) OBVIOUS
    <2>5. \E W : Ending(8) \in Seq(W) BY <2>1, <2>2, Zenon
    <2>3. Len(Ending(8)) = 1 BY <2>1
    <2>4. Ending(8)[1] = "messages" BY <2>1
    <2> QED BY <2>3, <2>4, <2>5 DEF LastWord
  <1>10. (\E W : Ending(10) \in Seq(W)) /\ Len(Ending(10)) = 4 /\ LastWord(10) = "generations"
    <2>1. Ending(10) = <<"paas", "v4", "videos", "generations">> BY RouteTable, Zenon
    <2>2. <<"paas", "v4", "videos", "generations">> \in Seq({"paas", "v4", "videos", "generations"}) OBVIOUS
    <2>5. \E W : Ending(10) \in Seq(W) BY <2>1, <2>2, Zenon
    <2>3. Len(Ending(10)) = 4 BY <2>1
    <2>4. Ending(10)[4] = "generations" BY <2>1
    <2> QED BY <2>3, <2>4, <2>5 DEF LastWord
  <1>11. (\E W : Ending(11) \in Seq(W)) /\ Len(Ending(11)) = 4 /\ LastWord(11) = "generations"
    <2>1. Ending(11) = <<"paas", "v4", "images", "generations">> BY RouteTable, Zenon
    <2>2. <<"paas", "v4", "images", "generations">> \in Seq({"paas", "v4", "images", "generations"}) OBVIOUS
    <2>5. \E W : Ending(11) \in Seq(W) BY <2>1, <2>2, Zenon
    <2>3. Len(Ending(11)) = 4 BY <2>1
    <2>4. Ending(11)[4] = "generations" BY <2>1
    <2> QED BY <2>3, <2>4, <2>5 DEF LastWord
  <1>12. (\E W : Ending(12) \in Seq(W)) /\ Len(Ending(12)) = 4 /\ LastWord(12) = "completions"
    <2>1. Ending(12) = <<"paas", "v4", "chat", "completions">> BY RouteTable, Zenon
    <2>2. <<"paas", "v4", "chat", "completions">> \in Seq({"paas", "v4", "chat", "completions"}) OBVIOUS
    <2>5. \E W : Ending(12) \in Seq(W) BY <2>1, <2>2, Zenon
    <2>3. Len(Ending(12)) = 4 BY <2>1
    <2>4. Ending(12)[4] = "completions" BY <2>1
    <2> QED BY <2>3, <2>4, <2>5 DEF LastWord
  <1>13. (\E W : Ending(13) \in Seq(W)) /\ Len(Ending(13)) = 2 /\ LastWord(13) = "completions"
    <2>1. Ending(13) = <<"chat", "completions">> BY RouteTable, Zenon
    <2>2. <<"chat", "completions">> \in Seq({"chat", "completions"}) OBVIOUS
    <2>5. \E W : Ending(13) \in Seq(W) BY <2>1, <2>2, Zenon
    <2>3. Len(Ending(13)) = 2 BY <2>1
    <2>4. Ending(13)[2] = "completions" BY <2>1
    <2> QED BY <2>3, <2>4, <2>5 DEF LastWord
  <1>14. (\E W : Ending(14) \in Seq(W)) /\ Len(Ending(14)) = 1 /\ LastWord(14) = "responses"
    <2>1. Ending(14) = <<"responses">> BY RouteTable, Zenon
    <2>2. <<"responses">> \in Seq({"responses"}) OBVIOUS
    <2>5. \E W : Ending(14) \in Seq(W) BY <2>1, <2>2, Zenon
    <2>3. Len(Ending(14)) = 1 BY <2>1
    <2>4. Ending(14)[1] = "responses" BY <2>1
    <2> QED BY <2>3, <2>4, <2>5 DEF LastWord
  <1>15. (\E W : Ending(15) \in Seq(W)) /\ Len(Ending(15)) = 1 /\ LastWord(15) = "embeddings"
    <2>1. Ending(15) = <<"embeddings">> BY RouteTable, Zenon
    <2>2. <<"embeddings">> \in Seq({"embeddings"}) OBVIOUS
    <2>5. \E W : Ending(15) \in Seq(W) BY <2>1, <2>2, Zenon
    <2>3. Len(Ending(15)) = 1 BY <2>1
    <2>4. Ending(15)[1] = "embeddings" BY <2>1
    <2> QED BY <2>3, <2>4, <2>5 DEF LastWord
  <1>16. (\E W : Ending(16) \in Seq(W)) /\ Len(Ending(16)) = 2 /\ LastWord(16) = "generations"
    <2>1. Ending(16) = <<"images", "generations">> BY RouteTable, Zenon
    <2>2. <<"images", "generations">> \in Seq({"images", "generations"}) OBVIOUS
    <2>5. \E W : Ending(16) \in Seq(W) BY <2>1, <2>2, Zenon
    <2>3. Len(Ending(16)) = 2 BY <2>1
    <2>4. Ending(16)[2] = "generations" BY <2>1
    <2> QED BY <2>3, <2>4, <2>5 DEF LastWord
  <1>17. (\E W : Ending(17) \in Seq(W)) /\ Len(Ending(17)) = 2 /\ LastWord(17) = "edits"
    <2>1. Ending(17) = <<"images", "edits">> BY RouteTable, Zenon
    <2>2. <<"images", "edits">> \in Seq({"images", "edits"}) OBVIOUS
    <2>5. \E W : Ending(17) \in Seq(W) BY <2>1, <2>2, Zenon
    <2>3. Len(Ending(17)) = 2 BY <2>1
    <2>4. Ending(17)[2] = "edits" BY <2>1
    <2> QED BY <2>3, <2>4, <2>5 DEF LastWord
  <1>18. (\E W : Ending(18) \in Seq(W)) /\ Len(Ending(18)) = 2 /\ LastWord(18) = "variations"
    <2>1. Ending(18) = <<"images", "variations">> BY RouteTable, Zenon
    <2>2. <<"images", "variations">> \in Seq({"images", "variations"}) OBVIOUS
    <2>5. \E W : Ending(18) \in Seq(W) BY <2>1, <2>2, Zenon
    <2>3. Len(Ending(18)) = 2 BY <2>1
    <2>4. Ending(18)[2] = "variations" BY <2>1
    <2> QED BY <2>3, <2>4, <2>5 DEF LastWord
  <1>19. (\E W : Ending(19) \in Seq(W)) /\ Len(Ending(19)) = 2 /\ LastWord(19) = "generations"
    <2>1. Ending(19) = <<"videos", "generations">> BY RouteTable, Zenon
    <2>2. <<"videos", "generations">> \in Seq({"videos", "generations"}) OBVIOUS
    <2>5. \E W : Ending(19) \in Seq(W) BY <2>1, <2>2, Zenon
    <2>3. Len(Ending(19)) = 2 BY <2>1
    <2>4. Ending(19)[2] = "generations" BY <2>1
    <2> QED BY <2>3, <2>4, <2>5 DEF LastWord
  <1>20. (\E W : Ending(20) \in Seq(W)) /\ Len(Ending(20)) = 2 /\ LastWord(20) = "edits"
    <2>1. Ending(20) = <<"videos", "edits">> BY RouteTable, Zenon
    <2>2. <<"videos", "edits">> \in Seq({"videos", "edits"}) OBVIOUS
    <2>5. \E W : Ending(20) \in Seq(W) BY <2>1, <2>2, Zenon
    <2>3. Len(Ending(20)) = 2 BY <2>1
    <2>4. Ending(20)[2] = "edits" BY <2>1
    <2> QED BY <2>3, <2>4, <2>5 DEF LastWord
  <1>21. (\E W : Ending(21) \in Seq(W)) /\ Len(Ending(21)) = 2 /\ LastWord(21) = "speech"
    <2>1. Ending(21) = <<"audio", "speech">> BY RouteTable, Zenon
    <2>2. <<"audio", "speech">> \in Seq({"audio", "speech"}) OBVIOUS
    <2>5. \E W : Ending(21) \in Seq(W) BY <2>1, <2>2, Zenon
    <2>3. Len(Ending(21)) = 2 BY <2>1
    <2>4. Ending(21)[2] = "speech" BY <2>1
    <2> QED BY <2>3, <2>4, <2>5 DEF LastWord
  <1>22. (\E W : Ending(22) \in Seq(W)) /\ Len(Ending(22)) = 2 /\ LastWord(22) = "transcriptions"
    <2>1. Ending(22) = <<"audio", "transcriptions">> BY RouteTable, Zenon
    <2>2. <<"audio", "transcriptions">> \in Seq({"audio", "transcriptions"}) OBVIOUS
    <2>5. \E W : Ending(22) \in Seq(W) BY <2>1, <2>2, Zenon
    <2>3. Len(Ending(22)) = 2 BY <2>1
    <2>4. Ending(22)[2] = "transcriptions" BY <2>1
    <2> QED BY <2>3, <2>4, <2>5 DEF LastWord
  <1>23. (\E W : Ending(23) \in Seq(W)) /\ Len(Ending(23)) = 1 /\ LastWord(23) = "models"
    <2>1. Ending(23) = <<"models">> BY RouteTable, Zenon
    <2>2. <<"models">> \in Seq({"models"}) OBVIOUS
    <2>5. \E W : Ending(23) \in Seq(W) BY <2>1, <2>2, Zenon
    <2>3. Len(Ending(23)) = 1 BY <2>1
    <2>4. Ending(23)[1] = "models" BY <2>1
    <2> QED BY <2>3, <2>4, <2>5 DEF LastWord
  <1> QED
    BY <1>2, <1>3, <1>4, <1>5, <1>6, <1>8, <1>10, <1>11, <1>12, <1>13, <1>14,
       <1>15, <1>16, <1>17, <1>18, <1>19, <1>20, <1>21, <1>22, <1>23,
       Zenon

\* Every end is a sequence of words.
LEMMA EndsAreWords ==
  ASSUME NEW i \in EndRoutes
  PROVE  (\E W : Ending(i) \in Seq(W)) /\ Len(Ending(i)) > 0 /\ Kind(i) = "ends"
  <1>2. CASE i = 2
    <2>1. \A n : n = 1 => n > 0 OBVIOUS
    <2> QED BY <1>2, <2>1, EndingTable, RouteTable, Zenon
  <1>3. CASE i = 3
    <2>1. \A n : n = 1 => n > 0 OBVIOUS
    <2> QED BY <1>3, <2>1, EndingTable, RouteTable, Zenon
  <1>4. CASE i = 4
    <2>1. \A n : n = 2 => n > 0 OBVIOUS
    <2> QED BY <1>4, <2>1, EndingTable, RouteTable, Zenon
  <1>5. CASE i = 5
    <2>1. \A n : n = 1 => n > 0 OBVIOUS
    <2> QED BY <1>5, <2>1, EndingTable, RouteTable, Zenon
  <1>6. CASE i = 6
    <2>1. \A n : n = 2 => n > 0 OBVIOUS
    <2> QED BY <1>6, <2>1, EndingTable, RouteTable, Zenon
  <1>8. CASE i = 8
    <2>1. \A n : n = 1 => n > 0 OBVIOUS
    <2> QED BY <1>8, <2>1, EndingTable, RouteTable, Zenon
  <1>10. CASE i = 10
    <2>1. \A n : n = 4 => n > 0 OBVIOUS
    <2> QED BY <1>10, <2>1, EndingTable, RouteTable, Zenon
  <1>11. CASE i = 11
    <2>1. \A n : n = 4 => n > 0 OBVIOUS
    <2> QED BY <1>11, <2>1, EndingTable, RouteTable, Zenon
  <1>12. CASE i = 12
    <2>1. \A n : n = 4 => n > 0 OBVIOUS
    <2> QED BY <1>12, <2>1, EndingTable, RouteTable, Zenon
  <1>13. CASE i = 13
    <2>1. \A n : n = 2 => n > 0 OBVIOUS
    <2> QED BY <1>13, <2>1, EndingTable, RouteTable, Zenon
  <1>14. CASE i = 14
    <2>1. \A n : n = 1 => n > 0 OBVIOUS
    <2> QED BY <1>14, <2>1, EndingTable, RouteTable, Zenon
  <1>15. CASE i = 15
    <2>1. \A n : n = 1 => n > 0 OBVIOUS
    <2> QED BY <1>15, <2>1, EndingTable, RouteTable, Zenon
  <1>16. CASE i = 16
    <2>1. \A n : n = 2 => n > 0 OBVIOUS
    <2> QED BY <1>16, <2>1, EndingTable, RouteTable, Zenon
  <1>17. CASE i = 17
    <2>1. \A n : n = 2 => n > 0 OBVIOUS
    <2> QED BY <1>17, <2>1, EndingTable, RouteTable, Zenon
  <1>18. CASE i = 18
    <2>1. \A n : n = 2 => n > 0 OBVIOUS
    <2> QED BY <1>18, <2>1, EndingTable, RouteTable, Zenon
  <1>19. CASE i = 19
    <2>1. \A n : n = 2 => n > 0 OBVIOUS
    <2> QED BY <1>19, <2>1, EndingTable, RouteTable, Zenon
  <1>20. CASE i = 20
    <2>1. \A n : n = 2 => n > 0 OBVIOUS
    <2> QED BY <1>20, <2>1, EndingTable, RouteTable, Zenon
  <1>21. CASE i = 21
    <2>1. \A n : n = 2 => n > 0 OBVIOUS
    <2> QED BY <1>21, <2>1, EndingTable, RouteTable, Zenon
  <1>22. CASE i = 22
    <2>1. \A n : n = 2 => n > 0 OBVIOUS
    <2> QED BY <1>22, <2>1, EndingTable, RouteTable, Zenon
  <1>23. CASE i = 23
    <2>1. \A n : n = 1 => n > 0 OBVIOUS
    <2> QED BY <1>23, <2>1, EndingTable, RouteTable, Zenon
  <1> QED
    BY <1>2, <1>3, <1>4, <1>5, <1>6, <1>8, <1>10, <1>11, <1>12, <1>13, <1>14,
       <1>15, <1>16, <1>17, <1>18, <1>19, <1>20, <1>21, <1>22, <1>23 DEF EndRoutes

\* The last words alone.
LEMMA LastWords ==
  /\ LastWord(2) = "image-synthesis"
  /\ LastWord(3) = "video-synthesis"
  /\ LastWord(4) = "video_generation"
  /\ LastWord(5) = "video_generation"
  /\ LastWord(6) = "retrieve"
  /\ LastWord(8) = "messages"
  /\ LastWord(10) = "generations"
  /\ LastWord(11) = "generations"
  /\ LastWord(12) = "completions"
  /\ LastWord(13) = "completions"
  /\ LastWord(14) = "responses"
  /\ LastWord(15) = "embeddings"
  /\ LastWord(16) = "generations"
  /\ LastWord(17) = "edits"
  /\ LastWord(18) = "variations"
  /\ LastWord(19) = "generations"
  /\ LastWord(20) = "edits"
  /\ LastWord(21) = "speech"
  /\ LastWord(22) = "transcriptions"
  /\ LastWord(23) = "models"
  BY EndingTable, Zenon

\* Of two ends with the same last word the longer is asked for first.
LEMMA SpecificFirst ==
  ASSUME NEW i \in EndRoutes, NEW j \in EndRoutes, i < j, LastWord(i) = LastWord(j)
  PROVE  Len(Ending(j)) <= Len(Ending(i))
  <1>1. j \in {2, 3, 4, 5, 6, 8, 10, 11, 12, 13, 14, 15, 16, 17, 18, 19, 20, 21, 22, 23}
    BY DEF EndRoutes
  <1>2. CASE i = 2
    <2>1. LastWord(j) = "image-synthesis" BY <1>2, EndingTable, Zenon
    <2> QED BY <1>1, <1>2, <2>1, LastWords
  <1>3. CASE i = 3
    <2>1. LastWord(j) = "video-synthesis" BY <1>3, EndingTable, Zenon
    <2> QED BY <1>1, <1>3, <2>1, LastWords
  <1>4. CASE i = 4
    <2>1. LastWord(j) = "video_generation" BY <1>4, EndingTable, Zenon
    <2>2. j = 5 BY <1>1, <1>4, <2>1, LastWords
    <2>3. \A a, b : (a = 1 /\ b = 2) => a <= b OBVIOUS
    <2> QED BY <1>4, <2>2, <2>3, EndingTable, Zenon
  <1>5. CASE i = 5
    <2>1. LastWord(j) = "video_generation" BY <1>5, EndingTable, Zenon
    <2> QED BY <1>1, <1>5, <2>1, LastWords
  <1>6. CASE i = 6
    <2>1. LastWord(j) = "retrieve" BY <1>6, EndingTable, Zenon
    <2> QED BY <1>1, <1>6, <2>1, LastWords
  <1>8. CASE i = 8
    <2>1. LastWord(j) = "messages" BY <1>8, EndingTable, Zenon
    <2> QED BY <1>1, <1>8, <2>1, LastWords
  <1>10. CASE i = 10
    <2>1. LastWord(j) = "generations" BY <1>10, EndingTable, Zenon
    <2>2. j = 11 \/ j = 16 \/ j = 19 BY <1>1, <1>10, <2>1, LastWords
    <2>3. \A a, b : (a = 2 /\ b = 4) \/ (a = 4 /\ b = 4) => a <= b OBVIOUS
    <2> QED BY <1>10, <2>2, <2>3, EndingTable, Zenon
  <1>11. CASE i = 11
    <2>1. LastWord(j) = "generations" BY <1>11, EndingTable, Zenon
    <2>2. j = 16 \/ j = 19 BY <1>1, <1>11, <2>1, LastWords
    <2>3. \A a, b : (a = 2 /\ b = 4) => a <= b OBVIOUS
    <2> QED BY <1>11, <2>2, <2>3, EndingTable, Zenon
  <1>12. CASE i = 12
    <2>1. LastWord(j) = "completions" BY <1>12, EndingTable, Zenon
    <2>2. j = 13 BY <1>1, <1>12, <2>1, LastWords
    <2>3. \A a, b : (a = 2 /\ b = 4) => a <= b OBVIOUS
    <2> QED BY <1>12, <2>2, <2>3, EndingTable, Zenon
  <1>13. CASE i = 13
    <2>1. LastWord(j) = "completions" BY <1>13, EndingTable, Zenon
    <2> QED BY <1>1, <1>13, <2>1, LastWords
  <1>14. CASE i = 14
    <2>1. LastWord(j) = "responses" BY <1>14, EndingTable, Zenon
    <2> QED BY <1>1, <1>14, <2>1, LastWords
  <1>15. CASE i = 15
    <2>1. LastWord(j) = "embeddings" BY <1>15, EndingTable, Zenon
    <2> QED BY <1>1, <1>15, <2>1, LastWords
  <1>16. CASE i = 16
    <2>1. LastWord(j) = "generations" BY <1>16, EndingTable, Zenon
    <2>2. j = 19 BY <1>1, <1>16, <2>1, LastWords
    <2>3. \A a, b : (a = 2 /\ b = 2) => a <= b OBVIOUS
    <2> QED BY <1>16, <2>2, <2>3, EndingTable, Zenon
  <1>17. CASE i = 17
    <2>1. LastWord(j) = "edits" BY <1>17, EndingTable, Zenon
    <2>2. j = 20 BY <1>1, <1>17, <2>1, LastWords
    <2>3. \A a, b : (a = 2 /\ b = 2) => a <= b OBVIOUS
    <2> QED BY <1>17, <2>2, <2>3, EndingTable, Zenon
  <1>18. CASE i = 18
    <2>1. LastWord(j) = "variations" BY <1>18, EndingTable, Zenon
    <2> QED BY <1>1, <1>18, <2>1, LastWords
  <1>19. CASE i = 19
    <2>1. LastWord(j) = "generations" BY <1>19, EndingTable, Zenon
    <2> QED BY <1>1, <1>19, <2>1, LastWords
  <1>20. CASE i = 20
    <2>1. LastWord(j) = "edits" BY <1>20, EndingTable, Zenon
    <2> QED BY <1>1, <1>20, <2>1, LastWords
  <1>21. CASE i = 21
    <2>1. LastWord(j) = "speech" BY <1>21, EndingTable, Zenon
    <2> QED BY <1>1, <1>21, <2>1, LastWords
  <1>22. CASE i = 22
    <2>1. LastWord(j) = "transcriptions" BY <1>22, EndingTable, Zenon
    <2> QED BY <1>1, <1>22, <2>1, LastWords
  <1>23. CASE i = 23
    <2>1. LastWord(j) = "models" BY <1>23, EndingTable, Zenon
    <2> QED BY <1>1, <1>23, <2>1, LastWords
  <1> QED
    BY <1>2, <1>3, <1>4, <1>5, <1>6, <1>8, <1>10, <1>11, <1>12, <1>13, <1>14,
       <1>15, <1>16, <1>17, <1>18, <1>19, <1>20, <1>21, <1>22, <1>23 DEF EndRoutes

\* The README's table has a row for every such case and no other.
LEMMA TableIsRows == Documented = {Row(i) : i \in EndRoutes}
  <1>2. Row(2) = [ending |-> <<"image-synthesis">>, by |-> "dashscope image"] BY RouteTable, Zenon DEF Row
  <1>3. Row(3) = [ending |-> <<"video-synthesis">>, by |-> "dashscope video"] BY RouteTable, Zenon DEF Row
  <1>4. Row(4) = [ending |-> <<"query", "video_generation">>, by |-> "minimax query"] BY RouteTable, Zenon DEF Row
  <1>5. Row(5) = [ending |-> <<"video_generation">>, by |-> "minimax video"] BY RouteTable, Zenon DEF Row
  <1>6. Row(6) = [ending |-> <<"files", "retrieve">>, by |-> "minimax file"] BY RouteTable, Zenon DEF Row
  <1>8. Row(8) = [ending |-> <<"messages">>, by |-> "anthropic"] BY RouteTable, Zenon DEF Row
  <1>10. Row(10) = [ending |-> <<"paas", "v4", "videos", "generations">>, by |-> "zhipu video"] BY RouteTable, Zenon DEF Row
  <1>11. Row(11) = [ending |-> <<"paas", "v4", "images", "generations">>, by |-> "zhipu image"] BY RouteTable, Zenon DEF Row
  <1>12. Row(12) = [ending |-> <<"paas", "v4", "chat", "completions">>, by |-> "zhipu chat"] BY RouteTable, Zenon DEF Row
  <1>13. Row(13) = [ending |-> <<"chat", "completions">>, by |-> "chat"] BY RouteTable, Zenon DEF Row
  <1>14. Row(14) = [ending |-> <<"responses">>, by |-> "responses"] BY RouteTable, Zenon DEF Row
  <1>15. Row(15) = [ending |-> <<"embeddings">>, by |-> "embeddings"] BY RouteTable, Zenon DEF Row
  <1>16. Row(16) = [ending |-> <<"images", "generations">>, by |-> "image"] BY RouteTable, Zenon DEF Row
  <1>17. Row(17) = [ending |-> <<"images", "edits">>, by |-> "image"] BY RouteTable, Zenon DEF Row
  <1>18. Row(18) = [ending |-> <<"images", "variations">>, by |-> "image"] BY RouteTable, Zenon DEF Row
  <1>19. Row(19) = [ending |-> <<"videos", "generations">>, by |-> "video"] BY RouteTable, Zenon DEF Row
  <1>20. Row(20) = [ending |-> <<"videos", "edits">>, by |-> "video"] BY RouteTable, Zenon DEF Row
  <1>21. Row(21) = [ending |-> <<"audio", "speech">>, by |-> "speech"] BY RouteTable, Zenon DEF Row
  <1>22. Row(22) = [ending |-> <<"audio", "transcriptions">>, by |-> "transcription"] BY RouteTable, Zenon DEF Row
  <1>23. Row(23) = [ending |-> <<"models">>, by |-> "models"] BY RouteTable, Zenon DEF Row
  <1>31. ASSUME NEW d \in Documented PROVE \E i \in EndRoutes : d = Row(i)
    <2>1. \/ d = [ending |-> <<"image-synthesis">>, by |-> "dashscope image"]
          \/ d = [ending |-> <<"video-synthesis">>, by |-> "dashscope video"]
          \/ d = [ending |-> <<"query", "video_generation">>, by |-> "minimax query"]
          \/ d = [ending |-> <<"video_generation">>, by |-> "minimax video"]
          \/ d = [ending |-> <<"files", "retrieve">>, by |-> "minimax file"]
          \/ d = [ending |-> <<"messages">>, by |-> "anthropic"]
          \/ d = [ending |-> <<"paas", "v4", "videos", "generations">>, by |-> "zhipu video"]
          \/ d = [ending |-> <<"paas", "v4", "images", "generations">>, by |-> "zhipu image"]
          \/ d = [ending |-> <<"paas", "v4", "chat", "completions">>, by |-> "zhipu chat"]
          \/ d = [ending |-> <<"chat", "completions">>, by |-> "chat"]
          \/ d = [ending |-> <<"responses">>, by |-> "responses"]
          \/ d = [ending |-> <<"embeddings">>, by |-> "embeddings"]
          \/ d = [ending |-> <<"images", "generations">>, by |-> "image"]
          \/ d = [ending |-> <<"images", "edits">>, by |-> "image"]
          \/ d = [ending |-> <<"images", "variations">>, by |-> "image"]
          \/ d = [ending |-> <<"videos", "generations">>, by |-> "video"]
          \/ d = [ending |-> <<"videos", "edits">>, by |-> "video"]
          \/ d = [ending |-> <<"audio", "speech">>, by |-> "speech"]
          \/ d = [ending |-> <<"audio", "transcriptions">>, by |-> "transcription"]
          \/ d = [ending |-> <<"models">>, by |-> "models"]
      BY <1>31, Zenon DEF Documented
    <2>2. 2 \in EndRoutes /\ 3 \in EndRoutes /\ 4 \in EndRoutes /\ 5 \in EndRoutes
          /\ 6 \in EndRoutes /\ 8 \in EndRoutes /\ 10 \in EndRoutes
          /\ 11 \in EndRoutes /\ 12 \in EndRoutes /\ 13 \in EndRoutes
          /\ 14 \in EndRoutes /\ 15 \in EndRoutes /\ 16 \in EndRoutes
          /\ 17 \in EndRoutes /\ 18 \in EndRoutes /\ 19 \in EndRoutes
          /\ 20 \in EndRoutes /\ 21 \in EndRoutes /\ 22 \in EndRoutes
          /\ 23 \in EndRoutes
      BY DEF EndRoutes
    <2> QED BY <2>1, <2>2, <1>2, <1>3, <1>4, <1>5, <1>6, <1>8, <1>10, <1>11, <1>12,
        <1>13, <1>14, <1>15, <1>16, <1>17, <1>18, <1>19, <1>20, <1>21, <1>22, <1>23,
        Zenon
  <1>32. ASSUME NEW i \in EndRoutes PROVE Row(i) \in Documented
    <2>1. i = 2 \/ i = 3 \/ i = 4 \/ i = 5 \/ i = 6 \/ i = 8 \/ i = 10 \/ i = 11
          \/ i = 12 \/ i = 13 \/ i = 14 \/ i = 15 \/ i = 16 \/ i = 17 \/ i = 18
          \/ i = 19 \/ i = 20 \/ i = 21 \/ i = 22 \/ i = 23
      BY DEF EndRoutes
    <2> QED BY <2>1, <1>2, <1>3, <1>4, <1>5, <1>6, <1>8, <1>10, <1>11, <1>12, <1>13,
        <1>14, <1>15, <1>16, <1>17, <1>18, <1>19, <1>20, <1>21, <1>22, <1>23, Zenon
        DEF Documented
  <1> QED BY <1>31, <1>32, Zenon

\* The segments of an end that is spelled out in words.
LEMMA PlainWords ==
  ASSUME NEW W, NEW s \in Seq(W)
  PROVE  /\ Plain(s) \in Seq({<<w>> : w \in W}) /\ Len(Plain(s)) = Len(s)
         /\ \A k \in 1 .. Len(s) : Plain(s)[k] = <<s[k]>>
  <1>1. DOMAIN s = 1 .. Len(s) /\ Len(s) \in Nat /\ \A k \in 1 .. Len(s) : s[k] \in W
    OBVIOUS
  <1>2. Plain(s) = [k \in 1 .. Len(s) |-> <<s[k]>>] BY <1>1, Zenon DEF Plain
  <1> QED BY <1>1, <1>2

\* What ends like another has its last element.
LEMMA EndsAlike ==
  ASSUME NEW V, NEW W, NEW s \in Seq(V), NEW t \in Seq(W), Len(s) > 0, IsSuffix(s, t)
  PROVE  t[Len(t)] = s[Len(s)]
  <1>1. PICK m \in Nat : m = Len(s) OBVIOUS
  <1>2. PICK n \in Nat : n = Len(t) OBVIOUS
  <1>3. /\ Reverse(s) = [i \in 1 .. m |-> s[(m - i) + 1]]
        /\ Reverse(t) = [i \in 1 .. n |-> t[(n - i) + 1]]
    BY <1>1, <1>2 DEF Reverse
  <1>4. Len(Reverse(s)) = m /\ Len(Reverse(t)) = n BY <1>3
  <1>5. m > 0 /\ m <= n BY <1>1, <1>2, <1>4 DEF IsSuffix, IsPrefix
  <1>6. SubSeq(Reverse(s), 1, m) = SubSeq(Reverse(t), 1, m)
    BY <1>4 DEF IsSuffix, IsPrefix
  <1>7. Reverse(s)[1] = Reverse(t)[1]
    <2>1. SubSeq(Reverse(s), 1, m)[1] = Reverse(s)[1] BY <1>3, <1>4, <1>5
    <2>2. SubSeq(Reverse(t), 1, m)[1] = Reverse(t)[1] BY <1>3, <1>4, <1>5
    <2> QED BY <1>6, <2>1, <2>2
  <1>8. Reverse(s)[1] = s[m] /\ Reverse(t)[1] = t[n] BY <1>3, <1>5
  <1> QED BY <1>1, <1>2, <1>7, <1>8

\* A path that ends like a case asks for ends in its last word.
LEMMA LastSegment ==
  ASSUME NEW path, IsPath(path), NEW i \in EndRoutes, IsSuffix(Plain(Ending(i)), path)
  PROVE  path[Len(path)] = <<LastWord(i)>>
  <1>1. PICK W : Ending(i) \in Seq(W) BY EndsAreWords
  <1>2. PICK e \in Seq(W) : e = Ending(i) BY <1>1
  <1>3. PICK V : path \in Seq(V) BY DEF IsPath
  <1>4. /\ Plain(e) \in Seq({<<w>> : w \in W}) /\ Len(Plain(e)) = Len(e)
        /\ \A k \in 1 .. Len(e) : Plain(e)[k] = <<e[k]>>
    BY PlainWords
  <1>5. Len(e) > 0 /\ Len(e) \in Nat BY <1>2, EndsAreWords
  <1>6. path[Len(path)] = Plain(e)[Len(Plain(e))]
    <2>1. Len(Plain(e)) > 0 /\ IsSuffix(Plain(e), path) BY <1>2, <1>4, <1>5
    <2> QED BY <1>3, <1>4, <2>1, EndsAlike
  <1>7. Plain(e)[Len(Plain(e))] = <<e[Len(e)]>> BY <1>4, <1>5
  <1> QED BY <1>2, <1>6, <1>7 DEF LastWord

\* The cases a path matches.
LEMMA MatchingCases ==
  ASSUME NEW path
  PROVE  /\ Matching(path) \subseteq 1 .. 23
         /\ 1 \in Matching(path) <=> IsStrictPrefix(Plain(Ending(1)), path)
         /\ 9 \in Matching(path) <=> IsStrictPrefix(Plain(Ending(9)), path)
         /\ 7 \in Matching(path) <=> ModelAt(path) > 0 /\ HasColon(path)
         /\ \A i \in EndRoutes :
              i \in Matching(path) <=> IsSuffix(Plain(Ending(i)), path)
  <1>1. \A i : i \in Matching(path) <=> i \in 1 .. 23 /\ Matches(Routes[i], path)
    BY RouteTable, Zenon DEF Matching
  <1>2. "under" # "ends" /\ "under" # "gemini" /\ "ends" # "gemini" OBVIOUS
  <1>3. ASSUME NEW i, Kind(i) = "under"
        PROVE  Matches(Routes[i], path) <=> IsStrictPrefix(Plain(Ending(i)), path)
    BY <1>2, <1>3, Zenon DEF Matches, Kind, Ending, Gemini
  <1>4. ASSUME NEW i, Kind(i) = "ends"
        PROVE  Matches(Routes[i], path) <=> IsSuffix(Plain(Ending(i)), path)
    BY <1>2, <1>4, Zenon DEF Matches, Kind, Ending, Gemini
  <1>5. Matches(Routes[7], path) <=> ModelAt(path) > 0 /\ HasColon(path)
    BY <1>2, RouteTable, Zenon DEF Matches, Kind, Gemini
  <1>6. 1 \in 1 .. 23 /\ 9 \in 1 .. 23 /\ 7 \in 1 .. 23 /\ EndRoutes \subseteq 1 .. 23
    BY DEF EndRoutes
  <1>7. \A i \in EndRoutes : Kind(i) = "ends" BY EndsAreWords
  <1>8. Kind(1) = "under" /\ Kind(9) = "under" BY RouteTable, Zenon
  <1>9. /\ 1 \in Matching(path) <=> IsStrictPrefix(Plain(Ending(1)), path)
        /\ 9 \in Matching(path) <=> IsStrictPrefix(Plain(Ending(9)), path)
    BY <1>1, <1>3, <1>6, <1>8, Zenon
  <1>10. 7 \in Matching(path) <=> ModelAt(path) > 0 /\ HasColon(path)
    BY <1>1, <1>5, <1>6, Zenon
  <1>11. \A i \in EndRoutes : i \in Matching(path) <=> IsSuffix(Plain(Ending(i)), path)
    BY <1>1, <1>4, <1>6, <1>7, Zenon
  <1> QED BY <1>1, <1>9, <1>10, <1>11, Zenon

\* The first of the cases that match decides.
LEMMA FirstMatch ==
  ASSUME NEW path, Matching(path) # {}
  PROVE  \E i \in Matching(path) :
            /\ \A j \in Matching(path) : i <= j
            /\ Handler(path) = By(i)
  <1> DEFINE M == Matching(path)
             f == [i \in M |-> i]
  <1>1. M \subseteq Nat BY MatchingCases
  <1>2. f \in [M -> Nat] BY <1>1
  <1>3. PICK i \in M : \A j \in M : f[i] <= f[j]
    <2> HIDE DEF f, M
    <2> QED BY <1>2, LeastMeasure DEF M
  <1>4. \A j \in M : i <= j BY <1>3
  <1>5. Min(M) \in M /\ \A j \in M : Min(M) <= j
    <2> HIDE DEF f, M
    <2> QED BY <1>4, Zenon DEF Min
  <1>6. Handler(path) = By(Min(M)) BY Zenon DEF Handler, By
  <1> QED BY <1>5, <1>6

\* The README's two polls are the two cases that are about a prefix.
Poll(i) == [prefix |-> Ending(i), by |-> By(i)]

LEMMA PollsAreRows == Polls = {Poll(1), Poll(9)}
  <1>1. Poll(1) = [prefix |-> <<"api", "v1", "tasks">>, by |-> "task query"]
    BY RouteTable, Zenon DEF Poll
  <1>2. Poll(9) = [prefix |-> <<"api", "paas", "v4", "async-result">>, by |-> "zhipu result"]
    BY RouteTable, Zenon DEF Poll
  <1> QED BY <1>1, <1>2, Zenon DEF Polls

\* The three parts of what a path is documented to be answered by.
EndsOf(path) == {d \in Documented : IsSuffix(Plain(d.ending), path)}
BestOf(path) == {d \in EndsOf(path) : \A e \in EndsOf(path) : Len(e.ending) <= Len(d.ending)}
PollsOf(path) == {p \in Polls : IsStrictPrefix(Plain(p.prefix), path)}

LEMMA DocumentedParts ==
  ASSUME NEW path
  PROVE  DocumentedBy(path) =
           {d.by : d \in BestOf(path)} \cup {q.by : q \in PollsOf(path)} \cup GeminiCall(path)
  BY Zenon DEF DocumentedBy, BestOf, EndsOf, PollsOf

\* "/models/" is found in front of a segment, if at all.
LEMMA ModelSegment ==
  ASSUME NEW path, IsPath(path)
  PROVE  ModelAt(path) \in 0 .. Len(path)
  <1> DEFINE S == {0} \cup {i \in 2 .. Len(path) : path[i - 1] = <<"models">>}
             n == Len(path)
             f == [i \in S |-> n - i]
  <1>1. n \in Nat BY DEF IsPath
  <1>2. S \subseteq 0 .. n /\ S # {} BY <1>1
  <1> HIDE DEF n, S
  <1>3. f \in [S -> Nat] BY <1>1, <1>2
  <1>4. PICK m \in S : \A j \in S : f[m] <= f[j]
    <2> HIDE DEF f
    <2> QED BY <1>2, <1>3, LeastMeasure
  <1>5. \A j \in S : m >= j BY <1>1, <1>2, <1>4
  <1>6. Max(S) \in S BY <1>5, Zenon DEF Max
  <1>7. ModelAt(path) = Max(S) BY DEF ModelAt, S
  <1> QED BY <1>2, <1>6, <1>7 DEF n

\* A path that matches no case is documented nowhere.
LEMMA NowhereDocumented ==
  ASSUME NEW path, IsPath(path), Matching(path) = {}
  PROVE  DocumentedBy(path) = {}
  <1>1. ASSUME NEW d \in EndsOf(path) PROVE FALSE
    <2>1. PICK i \in EndRoutes : d = Row(i) BY TableIsRows, Zenon DEF EndsOf
    <2>2. d.ending = Ending(i) BY <2>1 DEF Row
    <2>3. IsSuffix(Plain(d.ending), path) BY Zenon DEF EndsOf
    <2>4. IsSuffix(Plain(Ending(i)), path) BY <2>2, <2>3, Zenon
    <2>5. i \in Matching(path) BY <2>4, MatchingCases
    <2> QED BY <2>5
  <1>2. ASSUME NEW q \in PollsOf(path) PROVE FALSE
    <2>1. q = Poll(1) \/ q = Poll(9) BY PollsAreRows, Zenon DEF PollsOf
    <2>2. IsStrictPrefix(Plain(q.prefix), path) BY Zenon DEF PollsOf
    <2>3. \A i : q = Poll(i) => q.prefix = Ending(i) BY DEF Poll
    <2>4. 1 \in Matching(path) \/ 9 \in Matching(path)
      BY <2>1, <2>2, <2>3, MatchingCases, Zenon
    <2> QED BY <2>4
  <1>3. GeminiCall(path) = {}
    <2>1. 7 \notin Matching(path) OBVIOUS
    <2>2. ~(ModelAt(path) > 0 /\ HasColon(path)) BY <2>1, MatchingCases, Zenon
    <2>3. ModelAt(path) = 0 \/ ~HasColon(path)
      <3>1. ModelAt(path) \in Nat BY ModelSegment DEF IsPath
      <3> QED BY <2>2, <3>1
    <2> QED BY <2>3, Zenon DEF GeminiCall
  <1>4. BestOf(path) = {} BY <1>1, Zenon DEF BestOf
  <1>5. PollsOf(path) = {} BY <1>2, Zenon
  <1> QED BY <1>3, <1>4, <1>5, DocumentedParts

\* A case about the end of a path is the most specific row it ends like.
LEMMA BestRow ==
  ASSUME NEW path, IsPath(path), NEW i \in EndRoutes, i \in Matching(path),
         \A j \in Matching(path) : i <= j
  PROVE  By(i) \in DocumentedBy(path)
  <1>1. Row(i) \in Documented BY TableIsRows, Zenon
  <1>2. \A j : Row(j).ending = Ending(j) /\ Row(j).by = By(j) BY DEF Row
  <1>3. IsSuffix(Plain(Ending(i)), path) BY MatchingCases
  <1>4. Row(i) \in EndsOf(path) BY <1>1, <1>2, <1>3, Zenon DEF EndsOf
  <1>5. ASSUME NEW e \in EndsOf(path) PROVE Len(e.ending) <= Len(Row(i).ending)
    <2>1. PICK j \in EndRoutes : e = Row(j) BY TableIsRows, Zenon DEF EndsOf
    <2>2. e.ending = Ending(j) BY <1>2, <2>1, Zenon
    <2>3. IsSuffix(Plain(e.ending), path) BY Zenon DEF EndsOf
    <2>4. IsSuffix(Plain(Ending(j)), path) BY <2>2, <2>3, Zenon
    <2>5. i <= j BY <2>4, MatchingCases
    <2>6. Len(Ending(j)) <= Len(Ending(i))
      <3>1. CASE i = j
        <4>1. PICK W : Ending(i) \in Seq(W) BY EndsAreWords
        <4>2. Len(Ending(i)) \in Nat BY <4>1
        <4> QED BY <3>1, <4>2
      <3>2. CASE i < j
        <4>1. <<LastWord(i)>> = <<LastWord(j)>> BY <1>3, <2>4, LastSegment
        <4>2. LastWord(i) = LastWord(j) BY <4>1
        <4> QED BY <3>2, <4>2, SpecificFirst
      <3> QED BY <2>5, <3>1, <3>2 DEF EndRoutes
    <2> QED BY <1>2, <2>2, <2>6, Zenon
  <1>6. Row(i) \in BestOf(path) BY <1>4, <1>5, Zenon DEF BestOf
  <1> QED BY <1>2, <1>6, DocumentedParts, Zenon

\* A case about a prefix is a poll.
LEMMA PollRow ==
  ASSUME NEW path, NEW i \in {1, 9}, i \in Matching(path)
  PROVE  By(i) \in DocumentedBy(path)
  <1>1. Poll(i) \in Polls BY PollsAreRows
  <1>2. IsStrictPrefix(Plain(Ending(i)), path) BY MatchingCases
  <1>3. Poll(i).prefix = Ending(i) /\ Poll(i).by = By(i) BY DEF Poll
  <1>4. Poll(i) \in PollsOf(path) BY <1>1, <1>2, <1>3, Zenon DEF PollsOf
  <1> QED BY <1>3, <1>4, DocumentedParts, Zenon

\* Every case but the Gemini one plays a handler of its own, and none of theirs
\* is one that has faults, save "anthropic".
LEMMA Handlers ==
  ASSUME NEW i \in (1 .. 23) \ {7}
  PROVE  By(i) \notin GeminiActions \cup {Gemini, "other action"}
  <1>1. CASE i = 1
    <2>1. By(i) = "task query" BY <1>1, RouteTable, Zenon
    <2> QED BY <2>1 DEF GeminiActions, Gemini
  <1>2. CASE i = 2
    <2>1. By(i) = "dashscope image" BY <1>2, RouteTable, Zenon
    <2> QED BY <2>1 DEF GeminiActions, Gemini
  <1>3. CASE i = 3
    <2>1. By(i) = "dashscope video" BY <1>3, RouteTable, Zenon
    <2> QED BY <2>1 DEF GeminiActions, Gemini
  <1>4. CASE i = 4
    <2>1. By(i) = "minimax query" BY <1>4, RouteTable, Zenon
    <2> QED BY <2>1 DEF GeminiActions, Gemini
  <1>5. CASE i = 5
    <2>1. By(i) = "minimax video" BY <1>5, RouteTable, Zenon
    <2> QED BY <2>1 DEF GeminiActions, Gemini
  <1>6. CASE i = 6
    <2>1. By(i) = "minimax file" BY <1>6, RouteTable, Zenon
    <2> QED BY <2>1 DEF GeminiActions, Gemini
  <1>8. CASE i = 8
    <2>1. By(i) = "anthropic" BY <1>8, RouteTable, Zenon
    <2> QED BY <2>1 DEF GeminiActions, Gemini
  <1>9. CASE i = 9
    <2>1. By(i) = "zhipu result" BY <1>9, RouteTable, Zenon
    <2> QED BY <2>1 DEF GeminiActions, Gemini
  <1>10. CASE i = 10
    <2>1. By(i) = "zhipu video" BY <1>10, RouteTable, Zenon
    <2> QED BY <2>1 DEF GeminiActions, Gemini
  <1>11. CASE i = 11
    <2>1. By(i) = "zhipu image" BY <1>11, RouteTable, Zenon
    <2> QED BY <2>1 DEF GeminiActions, Gemini
  <1>12. CASE i = 12
    <2>1. By(i) = "zhipu chat" BY <1>12, RouteTable, Zenon
    <2> QED BY <2>1 DEF GeminiActions, Gemini
  <1>13. CASE i = 13
    <2>1. By(i) = "chat" BY <1>13, RouteTable, Zenon
    <2> QED BY <2>1 DEF GeminiActions, Gemini
  <1>14. CASE i = 14
    <2>1. By(i) = "responses" BY <1>14, RouteTable, Zenon
    <2> QED BY <2>1 DEF GeminiActions, Gemini
  <1>15. CASE i = 15
    <2>1. By(i) = "embeddings" BY <1>15, RouteTable, Zenon
    <2> QED BY <2>1 DEF GeminiActions, Gemini
  <1>16. CASE i = 16
    <2>1. By(i) = "image" BY <1>16, RouteTable, Zenon
    <2> QED BY <2>1 DEF GeminiActions, Gemini
  <1>17. CASE i = 17
    <2>1. By(i) = "image" BY <1>17, RouteTable, Zenon
    <2> QED BY <2>1 DEF GeminiActions, Gemini
  <1>18. CASE i = 18
    <2>1. By(i) = "image" BY <1>18, RouteTable, Zenon
    <2> QED BY <2>1 DEF GeminiActions, Gemini
  <1>19. CASE i = 19
    <2>1. By(i) = "video" BY <1>19, RouteTable, Zenon
    <2> QED BY <2>1 DEF GeminiActions, Gemini
  <1>20. CASE i = 20
    <2>1. By(i) = "video" BY <1>20, RouteTable, Zenon
    <2> QED BY <2>1 DEF GeminiActions, Gemini
  <1>21. CASE i = 21
    <2>1. By(i) = "speech" BY <1>21, RouteTable, Zenon
    <2> QED BY <2>1 DEF GeminiActions, Gemini
  <1>22. CASE i = 22
    <2>1. By(i) = "transcription" BY <1>22, RouteTable, Zenon
    <2> QED BY <2>1 DEF GeminiActions, Gemini
  <1>23. CASE i = 23
    <2>1. By(i) = "models" BY <1>23, RouteTable, Zenon
    <2> QED BY <2>1 DEF GeminiActions, Gemini
  <1>24. i = 1 \/ i = 2 \/ i = 3 \/ i = 4 \/ i = 5 \/ i = 6 \/ i = 8 \/ i = 9 \/
         i = 10 \/ i = 11 \/ i = 12 \/ i = 13 \/ i = 14 \/ i = 15 \/ i =
         16 \/ i = 17 \/ i = 18 \/ i = 19 \/ i = 20 \/ i = 21 \/ i = 22
         \/ i = 23
    OBVIOUS
  <1> QED
    BY <1>1, <1>2, <1>3, <1>4, <1>5, <1>6, <1>8, <1>9, <1>10, <1>11, <1>12,
       <1>13, <1>14, <1>15, <1>16, <1>17, <1>18, <1>19, <1>20, <1>21,
       <1>22, <1>23, <1>24, Zenon

\* The Gemini case is answered as the action the path calls.
LEMMA GeminiAnswered ==
  ASSUME NEW strict \in BOOLEAN, NEW path, IsPath(path), NEW b, IsBody(b),
         7 \in Matching(path), Handler(path) = Gemini
  PROVE  \E d \in GeminiCall(path) :
            Answer(strict, path, b) = IF strict /\ Faults(d, b) # {} THEN "refused" ELSE Reply(d)
  <1>1. ModelAt(path) > 0 /\ HasColon(path) BY MatchingCases
  <1>2. ModelAt(path) \in 1 .. Len(path) /\ Len(path) \in Nat
    BY <1>1, ModelSegment DEF IsPath
  <1>3. ~(ModelAt(path) = 0 \/ ~HasColon(path)) BY <1>1
  <1>4. CASE ModelMissing(path)
    <2>1. "unknown endpoint" \in GeminiCall(path) BY <1>3, <1>4 DEF GeminiCall
    <2>2. Answer(strict, path, b) = "unknown endpoint" BY <1>4 DEF Answer, Gemini
    <2>3. Faults("unknown endpoint", b) = {} BY DEF Faults
    <2> QED BY <2>1, <2>2, <2>3 DEF Reply
  <1>5. CASE ~ModelMissing(path)
    <2> DEFINE last == Last(path)
               colons == {i \in ModelAt(path) .. Len(path) : Len(path[i]) > 1}
    <2>1. Len(path) \in colons <=> Len(last) > 1 BY <1>2 DEF Last
    <2>2. CASE Len(last) > 1 /\ Last(last) \in GeminiActions
      <3>1. GeminiAction(path) = Last(last) BY <2>1, <2>2 DEF GeminiAction
      <3>2. Last(last) \in GeminiCall(path) BY <1>3, <1>5, <2>2 DEF GeminiCall
      <3>3. Reply(Last(last)) = Last(last) BY <2>2 DEF Reply, GeminiActions
      <3> HIDE DEF last
      <3>4. Answer(strict, path, b) =
              IF strict /\ Faults(Last(last), b) # {} THEN "refused" ELSE Last(last)
        BY <1>5, <2>2, <3>1, StrictRefusesTheFaults DEF GeminiActions
      <3> QED BY <3>2, <3>3, <3>4, Zenon
    <2>3. CASE ~(Len(last) > 1 /\ Last(last) \in GeminiActions)
      <3> DEFINE a == GeminiAction(path)
                 refused == strict /\ StrictGeminiCheck(b)
      <3>1. a \notin GeminiActions
        <4>1. a = IF colons = {} THEN ""
                  ELSE IF Len(path) \in colons THEN Last(last) ELSE "a/b"
          BY DEF GeminiAction
        <4>2. "" \notin GeminiActions /\ "a/b" \notin GeminiActions BY DEF GeminiActions
        <4> HIDE DEF a, last, colons
        <4> QED BY <2>1, <2>3, <4>1, <4>2, Zenon
      <3>2. "other action" \in GeminiCall(path)
        <4> HIDE DEF a, refused, colons
        <4> QED BY <1>3, <1>5, <2>3 DEF GeminiCall
      <3>3. Answer(strict, path, b) = GeminiAnswer(a, refused)
        BY <1>5 DEF Answer, Gemini
      <3>4. GeminiAnswer(a, refused) = "generateContent"
        <4> HIDE DEF a, refused
        <4> QED BY <3>1 DEF GeminiAnswer, GeminiActions
      <3>5. Faults("other action", b) = {} BY DEF Faults
      <3>6. Reply("other action") = "generateContent" BY DEF Reply
      <3> HIDE DEF a, refused
      <3> QED BY <3>2, <3>3, <3>4, <3>5, <3>6, Zenon
    <2> QED BY <2>2, <2>3
  <1> QED BY <1>4, <1>5

\* A request is answered as documented, whatever its path and its body, with the
\* strict mode on or off: see AnsweredAsDocumentedFor.
THEOREM AlwaysAnsweredAsDocumented ==
  ASSUME NEW strict \in BOOLEAN, NEW path, IsPath(path), NEW b, IsBody(b)
  PROVE  AnsweredAsDocumentedFor(strict, path, b)
  <1> DEFINE Right(d) ==
        Answer(strict, path, b) = IF strict /\ Faults(d, b) # {} THEN "refused" ELSE Reply(d)
  <1>1. CASE Matching(path) = {}
    <2>1. DocumentedBy(path) = {} BY <1>1, NowhereDocumented
    <2>2. Handler(path) = "unknown endpoint" BY <1>1, Zenon DEF Handler
    <2>3. Answer(strict, path, b) = "unknown endpoint"
      BY <2>2, StrictRefusesTheFaults DEF Gemini
    <2> QED BY <2>1, <2>3, Zenon DEF AnsweredAsDocumentedFor
  <1>2. CASE Matching(path) # {}
    <2>1. PICK i \in Matching(path) :
              /\ \A j \in Matching(path) : i <= j
              /\ Handler(path) = By(i)
      BY <1>2, FirstMatch
    <2>2. i \in 1 .. 23 BY MatchingCases
    <2>3. CASE i = 7
      <3>1. Handler(path) = Gemini BY <2>1, <2>3, RouteTable, Zenon
      <3>2. \E d \in GeminiCall(path) : Right(d) BY <2>1, <2>3, <3>1, GeminiAnswered
      <3>3. GeminiCall(path) \subseteq DocumentedBy(path) BY DocumentedParts
      <3> HIDE DEF Right
      <3>4. \E d \in DocumentedBy(path) : Right(d) BY <3>2, <3>3, Zenon
      <3> QED BY <3>4, Zenon DEF AnsweredAsDocumentedFor, Right
    <2>4. CASE i # 7
      <3>1. By(i) \in DocumentedBy(path)
        <4>1. CASE i \in {1, 9} BY <2>1, <4>1, PollRow
        <4>2. CASE i \in EndRoutes BY <2>1, <4>2, BestRow
        <4> QED BY <2>2, <2>4, <4>1, <4>2 DEF EndRoutes
      <3>2. By(i) \notin GeminiActions \cup {Gemini, "other action"}
        BY <2>2, <2>4, Handlers
      <3>3. Reply(By(i)) = By(i) BY <3>2 DEF Reply
      <3>4. Right(By(i))
        <4>1. CASE By(i) = "anthropic"
          BY <2>1, <3>3, <4>1, StrictRefusesTheFaults, Zenon
        <4>2. CASE By(i) # "anthropic"
          <5>1. Faults(By(i), b) = {} BY <3>2, <4>2 DEF Faults, GeminiActions
          <5>2. Answer(strict, path, b) = By(i)
            BY <2>1, <3>2, <4>2, StrictRefusesTheFaults
          <5> QED BY <3>3, <5>1, <5>2, Zenon
        <4> QED BY <4>1, <4>2
      <3> HIDE DEF Right
      <3>5. \E d \in DocumentedBy(path) : Right(d) BY <3>1, <3>4, Zenon
      <3> QED BY <3>5, Zenon DEF AnsweredAsDocumentedFor, Right
    <2> QED BY <2>3, <2>4
  <1> QED BY <1>1, <1>2

-----------------------------------------------------------------------------
\* The question is one of those that may be asked.
DInv ==
    /\ about = "start" => question \in Starts
    /\ about = "path" => question \in [strict : BOOLEAN, path : Paths, body : Bodies]
    /\ about = "upload" => question \in Uploads
    /\ about = "exchange" => question \in [cfg : Settled, of : Exchanges]
    /\ about = "texts" => question \in [input : Inputs]

\* The question does not change while it is answered.
LEMMA QuestionKept == Spec => []DInv
  <1>1. Init => DInv
    BY DEF Init, DInv
  <1>2. DInv /\ [Next]_vars => DInv'
    BY DEF DInv, Next, vars
  <1> QED BY <1>1, <1>2, PTL DEF Spec

\* Every start the specification asks about resolves as documented.
THEOREM DecisionsResolveLayers == Spec => []LayersResolve
  <1>1. DInv => LayersResolve
    BY DecisionsAssumption, LayersAlwaysResolve DEF DInv, LayersResolve
  <1> QED BY <1>1, QuestionKept, PTL

\* Every upload the specification asks about is captured honestly.
THEOREM DecisionsCaptureHonestly == Spec => []CaptureIsHonest
  <1>1. DInv => CaptureIsHonest
    BY DecisionsAssumption, CaptureAlwaysHonest DEF DInv, CaptureIsHonest
  <1> QED BY <1>1, QuestionKept, PTL

\* Every request the specification asks about is answered as documented.
THEOREM DecisionsAnswerAsDocumented == Spec => []AnsweredAsDocumented
  <1>1. DInv => AnsweredAsDocumented
    <2> SUFFICES ASSUME DInv, about = "path"
                 PROVE  AnsweredAsDocumentedFor(question.strict, question.path, question.body)
      BY DEF AnsweredAsDocumented
    <2>1. /\ question.strict \in BOOLEAN /\ question.path \in Paths
          /\ question.body \in Bodies
      BY DEF DInv
    <2>2. IsPath(question.path) /\ IsBody(question.body) BY <2>1, DecisionsAssumption
    <2> QED BY <2>1, <2>2, AlwaysAnsweredAsDocumented
  <1> QED BY <1>1, QuestionKept, PTL

\* The figures of every exchange the specification asks about agree, and the
\* vectors of every list of texts are in its order.
THEOREM DecisionsAgreeOnFigures == Spec => []FiguresAgree
  <1>1. ASSUME DInv, about = "exchange"
        PROVE  FiguresAgreeFor(question.cfg, question.of)
    <2>1. question.cfg \in Settled /\ question.of \in Exchanges BY <1>1 DEF DInv
    <2>2. IsSettled(question.cfg) /\ IsExchange(question.of) BY <2>1, DecisionsAssumption
    <2> QED BY <2>2, ExchangesAlwaysAgree
  <1>2. ASSUME DInv, about = "texts" PROVE EmbeddingsInOrder(question.input)
    <2>1. question.input \in Inputs BY <1>2 DEF DInv
    <2>2. IsInput(question.input) BY <2>1, DecisionsAssumption
    <2> QED BY <2>2, EmbeddingsAlwaysInOrder
  <1>3. DInv => FiguresAgree BY <1>1, <1>2, Zenon DEF FiguresAgree
  <1> QED BY <1>3, QuestionKept, PTL
=============================================================================
