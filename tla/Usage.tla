------------------------------- MODULE Usage -------------------------------
(***************************************************************************)
(* The token figures of the protocols (payload.go, anthropic.go,           *)
(* gemini.go, openai_responses.go, openai_media.go) and the embeddings     *)
(* (openai_extra.go).  A text is its number of characters.                 *)
(***************************************************************************)
EXTENDS Integers, Sequences, FiniteSets

\* The configured figures.
IsSettled(cfg) ==
    /\ cfg.fixed \in BOOLEAN
    /\ {cfg.cacheRead, cfg.legacy, cfg.c5m, cfg.c1h} \subseteq Nat
    /\ {cfg.imageIn, cfg.imageOut, cfg.audioIn, cfg.audioOut} \subseteq Nat

\* An exchange: the text of the prompt and the parts it comes in, whether the
\* Responses API gets it as a bare string, the reply, and whether reasoning is
\* wanted.
IsExchange(x) ==
    /\ x.chars \in Nat /\ x.parts \in Nat \ {0} /\ x.reply \in Nat
    /\ x.bare \in BOOLEAN /\ x.reasoning \in BOOLEAN
    /\ x.bare => x.parts = 1

\* estimateTokens.
EstimateTokens(n) == IF n = 0 THEN 0 ELSE IF n < 4 THEN 1 ELSE n \div 4

\* extractPrompt, extractAnthropicPrompt and extractGeminiPrompt put a blank
\* after every part.
ExtractPrompt(x) == x.chars + x.parts

\* extractResponsesPrompt takes a string as it is.
ExtractResponsesPrompt(x) == IF x.bare THEN x.chars ELSE x.chars + x.parts

\* usage: prompt and completion tokens; the total is their sum.
Count(cfg, prompt, reply) ==
    IF cfg.fixed THEN <<10, 20>> ELSE <<EstimateTokens(prompt), EstimateTokens(reply)>>

\* Seeded fault of CacheCreationSplit: one field left at zero falls back.
CacheCreationSplitEither(cfg) ==
    IF cfg.c5m = 0 \/ cfg.c1h = 0 THEN <<cfg.legacy, cfg.c1h>> ELSE <<cfg.c5m, cfg.c1h>>

CacheCreationSplit(cfg) ==
    IF cfg.c5m = 0 /\ cfg.c1h = 0 THEN <<cfg.legacy, 0>> ELSE <<cfg.c5m, cfg.c1h>>

\* openAIUsage, for OpenAI and Zhipu.
OpenAIUsage(cfg, x) ==
    LET c == Count(cfg, ExtractPrompt(x), x.reply)
    IN  [prompt |-> c[1], completion |-> c[2], total |-> c[1] + c[2],
         cached |-> cfg.cacheRead, audio |-> <<cfg.audioIn, cfg.audioOut>>, reasoning |-> 0]

AnthropicUsage(cfg, x) ==
    LET c == Count(cfg, ExtractPrompt(x), x.reply)
        s == CacheCreationSplit(cfg)
    IN  [input |-> c[1], output |-> c[2], cacheRead |-> cfg.cacheRead,
         cacheCreation |-> s[1] + s[2], ephemeral5m |-> s[1], ephemeral1h |-> s[2]]

\* The modalities of geminiUsageMetadata: TEXT always, the others if configured.
IfAny(name, n) == IF n > 0 THEN <<[modality |-> name, tokens |-> n]>> ELSE << >>

Modalities(text, image, audio) ==
    <<[modality |-> "TEXT", tokens |-> text]>>
    \o IfAny("IMAGE", image) \o IfAny("AUDIO", audio)

GeminiUsageMetadata(cfg, prompt, candidates) ==
    [prompt |-> prompt, candidates |-> candidates, total |-> prompt + candidates,
     cached |-> cfg.cacheRead,
     promptDetails |-> Modalities(prompt, cfg.imageIn, cfg.audioIn),
     candidatesDetails |-> Modalities(candidates, cfg.imageOut, cfg.audioOut)]

GeminiUsage(cfg, x) ==
    LET c == Count(cfg, ExtractPrompt(x), x.reply)
    IN  GeminiUsageMetadata(cfg, c[1], c[2])

\* geminiAudioResponse: speech counts for no text.
GeminiSpeechUsage(cfg, x) ==
    GeminiUsageMetadata(cfg, Count(cfg, ExtractPrompt(x), x.reply)[1], 0)

MockReasoning == 55   \* characters of mockReasoningText

\* The usage of responsesEnvelope: reasoning is folded into the output.
ResponsesUsage(cfg, x) ==
    LET c == Count(cfg, ExtractResponsesPrompt(x), x.reply)
        r == IF x.reasoning THEN EstimateTokens(MockReasoning) ELSE 0
    IN  [input |-> c[1], output |-> c[2] + r, total |-> c[1] + c[2] + r,
         cached |-> cfg.cacheRead, reasoning |-> r]

\* The usage of writeGPTImageJSON, whose prompt is one field.
GPTImageUsage(cfg, x) ==
    LET in  == IF cfg.fixed THEN 10 ELSE EstimateTokens(x.chars)
        out == IF cfg.imageOut > 0 THEN cfg.imageOut ELSE 7024
    IN  [input |-> in, output |-> out, total |-> in + out, text |-> in, image |-> out]

-----------------------------------------------------------------------------
NoText == -1   \* an element of "input" that is no string

\* An input: an array, each element the length of a text or NoText.
IsInput(input) == input \in Seq(Nat \cup {NoText})

\* The loop of normalizeInputs: the texts among the first n elements.
AfterElement(out, e) == IF e = NoText THEN out ELSE Append(out, e)

Collected(input) ==
    LET out[n \in 0 .. Len(input)] ==
          IF n = 0 THEN << >> ELSE AfterElement(out[n - 1], input[n])
    IN  out

NormalizeInputs(input) ==
    LET texts == Collected(input)[Len(input)]
    IN  IF texts = << >> THEN <<0>> ELSE texts

\* The loop of handleEmbeddings: what the first n texts cost.
PromptTokens(texts) ==
    LET tokens[n \in 0 .. Len(texts)] ==
          IF n = 0 THEN 0 ELSE tokens[n - 1] + EstimateTokens(texts[n])
    IN  tokens

\* handleEmbeddings: a vector is known by the text it is computed from.
Embeddings(input) ==
    LET texts == NormalizeInputs(input)
    IN  [vectors |-> [i \in DOMAIN texts |-> [index |-> i - 1, text |-> texts[i]]],
         tokens |-> PromptTokens(texts)[Len(texts)]]
-----------------------------------------------------------------------------
\* One exchange costs the same under every protocol, details never change the
\* main figures, and the parts of a sum add up to it: the two TTLs to the cache
\* creation, whose old field counts when neither is set; input and output to the
\* total, reasoning included.  A bare string given to Responses may cost one
\* token less, or none, because the others put a blank after each part.
FiguresAgreeFor(cfg, x) ==
    LET chat   == OpenAIUsage(cfg, x)
        claude == AnthropicUsage(cfg, x)
        google == GeminiUsage(cfg, x)
        speech == GeminiSpeechUsage(cfg, x)
        resp   == ResponsesUsage(cfg, x)
        image  == GPTImageUsage(cfg, x)
    IN  /\ chat.prompt = claude.input /\ chat.prompt = google.prompt
        /\ chat.completion = claude.output /\ chat.completion = google.candidates
        /\ resp.output - resp.reasoning = chat.completion
        /\ chat.prompt - resp.input \in (IF x.bare THEN 0 .. 1 ELSE {0})
        /\ cfg.fixed => chat.prompt = 10 /\ chat.total = 30 /\ image.input = 10
        /\ x.chars > 0 => chat.prompt > 0 /\ resp.input > 0 /\ image.input > 0
        /\ google.total = chat.total /\ resp.total = resp.input + resp.output
        /\ image.total = image.text + image.image
        /\ claude.cacheCreation = claude.ephemeral5m + claude.ephemeral1h
        /\ claude.cacheCreation
              = IF cfg.c5m + cfg.c1h > 0 THEN cfg.c5m + cfg.c1h ELSE cfg.legacy
        /\ speech.total = chat.prompt /\ speech.promptDetails = google.promptDetails
        /\ google.promptDetails[1].tokens = chat.prompt
        /\ \A i \in DOMAIN google.candidatesDetails : i > 1 =>
              google.candidatesDetails[i].tokens > 0

\* There is always a vector; there are as many as strings, numbered in their
\* order: the vector of an input has as many before it as strings precede that
\* input, so it has the input's own index as long as all inputs are strings.  The
\* list is free exactly if there is nothing in it to be charged for.
EmbeddingsInOrder(input) ==
    LET e       == Embeddings(input)
        strings == {i \in DOMAIN input : input[i] # NoText}
    IN  /\ Len(e.vectors) = IF strings = {} THEN 1 ELSE Cardinality(strings)
        /\ \A i \in DOMAIN e.vectors : e.vectors[i].index = i - 1
        /\ \A i \in strings :
              e.vectors[Cardinality({j \in strings : j <= i})].text = input[i]
        /\ e.tokens = 0 <=> \A i \in strings : input[i] = 0
=============================================================================
