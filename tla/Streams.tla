------------------------------ MODULE Streams ------------------------------
(***************************************************************************)
(* The chat endpoints from the first request number to the last frame:     *)
(* OpenAI (openai.go), Zhipu (zhipu.go), Anthropic (anthropic.go), OpenAI  *)
(* Responses (openai_responses.go) and Gemini (gemini.go), streaming or    *)
(* not.  A streaming handler works through a fixed script of waits and     *)
(* frames; each wait races the client's disconnection and each write may   *)
(* fail.  Against the scripts stands a client that reads the frames one by *)
(* one, written from the protocols and not from the handlers.              *)
(***************************************************************************)
EXTENDS Integers, Sequences, FiniteSets, Behavior

CONSTANTS
    Requests,      \* one handler goroutine each
    Traffic,       \* which request does each send: a set of functions to Request
    ReasoningText, \* mockReasoningText
    ErrorRate,     \* cfg.ErrorRate in units of 1 / RateScale
    Hashes         \* the values hashString(model#n) may take

Protocols == {"openai", "zhipu", "anthropic", "responses", "gemini"}

\* A text is a sequence of letters and Blanks.
Blank == " "

\* Single blanks between words, and none before or after them.
Spaced(text) ==
    \A i \in DOMAIN text : text[i] = Blank => i + 1 \in DOMAIN text /\ i > 1 /\ text[i + 1] # Blank

\* What a request asks for: reply is cfg.ReplyText.
Request == [proto : Protocols, stream : BOOLEAN, reply : Seq(STRING),
            reasoning : BOOLEAN, usage : BOOLEAN, image : BOOLEAN]

ASSUME TrafficAssumption == Traffic \subseteq [Requests -> Request]
\* The text is a constant of the program, its words one blank apart.
ASSUME ReasoningAssumption == ReasoningText \in Seq(STRING) /\ Spaced(ReasoningText)
ASSUME SamplingAssumption == ErrorRate \in Int /\ Hashes \subseteq Nat

-----------------------------------------------------------------------------
(* Pieces of text.                                                         *)

WordStarts(text) ==
    {i \in DOMAIN text : text[i] # Blank /\ (i > 1 => text[i - 1] = Blank)}

\* The word of text that starts at i.
WordAt(text, i) ==
    LET blank == {j \in i .. Len(text) : text[j] = Blank}
        end == IF blank = {} THEN Len(text) ELSE (CHOOSE j \in blank : \A k \in blank : j <= k) - 1
    IN  SubSeq(text, i, end)

\* Where the k-th word starts.
NthStart(text, k) ==
    CHOOSE i \in WordStarts(text) : Cardinality({j \in WordStarts(text) : j <= i}) = k

\* strings.Fields: the words of a text.
Fields(text) ==
    [k \in 1 .. Cardinality(WordStarts(text)) |-> WordAt(text, NthStart(text, k))]

\* Seeded fault of SplitTokens: the words lose the blank between them.
SplitTokensBare(text) == Fields(text)

\* splitTokens: every word but the last is followed by one blank.
SplitTokens(text) ==
    LET words == Fields(text)
    IN  [k \in DOMAIN words |-> IF k < Len(words) THEN Append(words[k], Blank) ELSE words[k]]

-----------------------------------------------------------------------------
(* Frames.  "what" is the frame's role in the conversation, index the      *)
(* block or output item it belongs to, kind the content it carries.  usage *)
(* says which token figures come with it: none, those of the prompt with   *)
(* no output yet, or the final ones.  output lists the finished items of a *)
(* Responses object, each whole.                                           *)

Frame(what, index, kind, text) ==
    [what |-> what, index |-> index, kind |-> kind, text |-> text, no |-> 0,
     finish |-> FALSE, usage |-> "none", image |-> FALSE, output |-> << >>]

Bare(what) == Frame(what, 0, "none", << >>)

\* The steps of a script.
Wait == [op |-> "wait"]
Send(frame) == [op |-> "send", frame |-> frame]

\* One wait and one delta for every token of a text.
Deltas(index, kind, text) ==
    LET tokens == SplitTokens(text)
    IN  [i \in 1 .. 2 * Len(tokens) |->
            IF i % 2 = 1 THEN Wait ELSE Send(Frame("delta", index, kind, tokens[i \div 2]))]

When(condition, steps) == IF condition THEN steps ELSE << >>

\* streamChat.
ChatScript(q) ==
    <<Wait, Send(Bare("start"))>>
    \o When(q.reasoning, Deltas(0, "thinking", ReasoningText))
    \o Deltas(0, "text", q.reply)
    \o <<Send([Bare("finish") EXCEPT !.finish = TRUE])>>
    \o When(q.usage, <<Send([Bare("usage") EXCEPT !.usage = "final"])>>)
    \o <<Send(Bare("end"))>>

\* streamZhipuChat: "byte-for-byte the OpenAI chat.completion.chunk shape".
ZhipuScript(q) == ChatScript(q)

\* Seeded fault of AnthropicScript: the text block keeps index 0.
AnthropicScriptIndex0(q) ==
    <<Wait, Send([Bare("start") EXCEPT !.usage = "input"])>>
    \o When(q.reasoning,
            <<Send(Frame("open", 0, "thinking", << >>))>>
            \o Deltas(0, "thinking", ReasoningText)
            \o <<Send(Frame("delta", 0, "signature", << >>)),
                 Send(Frame("close", 0, "thinking", << >>))>>)
    \o <<Send(Frame("open", 0, "text", << >>))>>
    \o Deltas(0, "text", q.reply)
    \o <<Send(Frame("close", 0, "text", << >>)),
         Send([Bare("finish") EXCEPT !.finish = TRUE, !.usage = "final"]),
         Send(Bare("end"))>>

\* streamAnthropic: message_start has the figures of the prompt, message_delta
\* the final ones; the thinking block pushes the text block to index 1.
AnthropicScript(q) ==
    LET textIndex == IF q.reasoning THEN 1 ELSE 0
    IN  <<Wait, Send([Bare("start") EXCEPT !.usage = "input"])>>
        \o When(q.reasoning,
                <<Send(Frame("open", 0, "thinking", << >>))>>
                \o Deltas(0, "thinking", ReasoningText)
                \o <<Send(Frame("delta", 0, "signature", << >>)),
                     Send(Frame("close", 0, "thinking", << >>))>>)
        \o <<Send(Frame("open", textIndex, "text", << >>))>>
        \o Deltas(textIndex, "text", q.reply)
        \o <<Send(Frame("close", textIndex, "text", << >>)),
             Send([Bare("finish") EXCEPT !.finish = TRUE, !.usage = "final"]),
             Send(Bare("end"))>>

\* The output of a response object: the reasoning item is there from the first
\* one on, before any of it is streamed, the message only in the last.
Output(q, status) ==
    When(q.reasoning, <<[kind |-> "thinking", text |-> ReasoningText]>>)
    \o When(status = "completed", <<[kind |-> "text", text |-> q.reply]>>)

\* responsesEnvelope, in the frame that brings it: whatever the status, the
\* figures are the final ones.
Envelope(what, q, status) ==
    [Bare(what) EXCEPT !.usage = "final", !.output = Output(q, status)]

\* streamResponses: response.created and in_progress, the reasoning item, the
\* message item with its one content part, and response.completed.
ResponsesScript(q) ==
    LET outputIndex == IF q.reasoning THEN 1 ELSE 0
    IN  <<Wait, Send(Envelope("start", q, "in_progress")),
                 Send(Envelope("progress", q, "in_progress"))>>
        \o When(q.reasoning,
                <<Send(Frame("open", 0, "thinking", << >>))>>
                \o Deltas(0, "thinking", ReasoningText)
                \o <<Send(Frame("close", 0, "thinking", ReasoningText))>>)
        \o <<Send(Frame("open", outputIndex, "text", << >>)),
             Send(Frame("part", outputIndex, "text", << >>))>>
        \o Deltas(outputIndex, "text", q.reply)
        \o <<Send(Frame("part done", outputIndex, "text", q.reply)),
             Send(Frame("part done", outputIndex, "text", q.reply)),
             Send(Frame("close", outputIndex, "text", q.reply)),
             Send([Envelope("end", q, "completed") EXCEPT !.finish = TRUE])>>

\* streamGemini: the last chunk carries the finish reason, the usage and the
\* image; a reply without tokens has no chunk at all.
GeminiScript(q) ==
    LET chunks == Deltas(0, "text", q.reply)
        last   == Len(chunks)
    IN  <<Wait>> \o
        [i \in DOMAIN chunks |->
            IF i = last
            THEN Send([chunks[i].frame EXCEPT !.finish = TRUE, !.usage = "final", !.image = q.image])
            ELSE chunks[i]]

Script(q) ==
    CASE q.proto = "openai"    -> ChatScript(q)
      [] q.proto = "zhipu"     -> ZhipuScript(q)
      [] q.proto = "anthropic" -> AnthropicScript(q)
      [] q.proto = "responses" -> ResponsesScript(q)
      [] q.proto = "gemini"    -> GeminiScript(q)

-----------------------------------------------------------------------------
(* The client.  It keeps what it has put together so far, and whether every *)
(* frame was one the protocol allows there.                                *)

Blocks == {"anthropic", "responses"}

Nothing == [ok |-> TRUE, count |-> 0, open |-> "none", index |-> 0, blocks |-> 0,
            thinking |-> << >>, text |-> << >>, image |-> FALSE,
            finish |-> FALSE, usage |-> "none", output |-> << >>, ended |-> FALSE]

\* What has been said of a kind, delta by delta.
Said(seen, kind) == IF kind = "text" THEN seen.text ELSE seen.thinking

\* The frames that bring a response object.
Objects == {"start", "progress", "end"}

\* May f bring the figures it brings?  Anthropic has those of the prompt at the
\* start and the final ones with the finish, a response object always has the
\* final ones, and in the others they come once, with the finish or after it.
UsageAllowed(proto, seen, f) ==
    /\ proto = "anthropic" =>
          (f.usage = "input" <=> f.what = "start") /\ (f.usage = "final" <=> f.finish)
    /\ proto = "responses" =>
          f.usage = IF f.what \in Objects THEN "final" ELSE "none"
    /\ proto \notin Blocks /\ f.usage # "none" =>
          f.usage = "final" /\ seen.usage # "final" /\ (seen.finish \/ f.finish)

\* May f bring the items it brings?  A response object keeps the items of the
\* one before it, and the last has every item that was streamed, each with the
\* words that were streamed for it.
OutputAllowed(seen, f) ==
    /\ f.what \in Objects =>
          /\ Len(seen.output) <= Len(f.output)
          /\ \A i \in DOMAIN seen.output : f.output[i] = seen.output[i]
    /\ f.what = "end" =>
          /\ Len(f.output) = seen.blocks
          /\ \A i \in DOMAIN f.output :
                Fields(f.output[i].text) = Fields(Said(seen, f.output[i].kind))

\* May frame f follow, in this protocol, what the client has seen?
Allowed(proto, seen, f) ==
    /\ ~seen.ended
    /\ proto # "gemini" => (f.what = "start" <=> seen.count = 0)
    /\ proto = "responses" => f.no = seen.count
    /\ f.what = "open" => seen.open = "none" /\ f.index = seen.blocks
    /\ f.what \in {"close", "part", "part done"} => seen.open = f.kind /\ seen.index = f.index
    /\ f.what = "delta" =>
          /\ ~seen.finish
          /\ f.kind = "thinking" => seen.text = << >>
          /\ proto \in Blocks =>
                /\ seen.index = f.index
                /\ seen.open = IF f.kind = "signature" THEN "thinking" ELSE f.kind
    /\ proto = "responses" /\ f.what \in {"close", "part done"} =>
          Fields(f.text) = Fields(Said(seen, f.kind))
    /\ f.finish => seen.open = "none" /\ ~seen.finish
    /\ UsageAllowed(proto, seen, f)
    /\ proto = "responses" => OutputAllowed(seen, f)
    /\ f.what = "end" => seen.finish \/ f.finish

\* The client reads one frame more.
Read(proto, seen, f) ==
    LET delta(kind) == IF f.what = "delta" /\ f.kind = kind THEN f.text ELSE << >>
    IN  [ok       |-> seen.ok /\ Allowed(proto, seen, f),
         count    |-> seen.count + 1,
         open     |-> CASE f.what = "open"  -> f.kind
                        [] f.what = "close" -> "none"
                        [] f.what \notin {"open", "close"} -> seen.open,
         index    |-> IF f.what = "open" THEN f.index ELSE seen.index,
         blocks   |-> IF f.what = "open" THEN seen.blocks + 1 ELSE seen.blocks,
         thinking |-> seen.thinking \o delta("thinking"),
         text     |-> seen.text \o delta("text"),
         image    |-> seen.image \/ f.image,
         finish   |-> seen.finish \/ f.finish,
         usage    |-> IF f.usage = "none" THEN seen.usage ELSE f.usage,
         output   |-> IF f.what \in Objects THEN f.output ELSE seen.output,
         ended    |-> seen.ended \/ f.what = "end"]

-----------------------------------------------------------------------------
VARIABLES
    req,         \* per handler: what it was asked
    pc,          \* per handler: the step it is about to take
    todo,        \* per handler: what is left of its script
    emitted,     \* per handler: frames it has written (seqNo in streamResponses)
    seen,        \* per handler: what its client has made of the frames it got
    alive,       \* per handler: has its client stayed? (clientGone not closed)
    failed,      \* per handler, history: has a write failed?
    id,          \* per handler: the number in its response's id, 0 without one
    outcome,     \* per handler: how it ended
    globalSeq    \* seqCounter

vars == <<req, pc, todo, emitted, seen, alive, failed, id, outcome, globalSeq>>

Outcomes == {"none", "injected", "complete", "aborted", "gone"}

Init ==
    /\ req \in Traffic
    /\ pc = [r \in Requests |-> "idle"]
    /\ todo = [r \in Requests |-> << >>]
    /\ emitted = [r \in Requests |-> 0]
    /\ seen = [r \in Requests |-> Nothing]
    /\ alive = [r \in Requests |-> TRUE]
    /\ failed = [r \in Requests |-> FALSE]
    /\ id = [r \in Requests |-> 0]
    /\ outcome = [r \in Requests |-> "none"]
    /\ globalSeq = 0

Goto(r, step) == pc' = [pc EXCEPT ![r] = step]

Return(r, how) == Goto(r, "done") /\ outcome' = [outcome EXCEPT ![r] = how]

\* The handler begins: a number of the global sequence, the error injection
\* sampled from it, and the fork into streaming or not.  Gemini's streams take
\* no number and are never hit.
Begin(r) ==
    /\ pc[r] = "idle"
    /\ IF req[r].proto = "gemini" /\ req[r].stream
       THEN Goto(r, "open") /\ UNCHANGED <<globalSeq, id, outcome>>
       ELSE /\ globalSeq' = globalSeq + 1
            /\ \E h \in Hashes :
                 IF ShouldInject(h, ErrorRate)
                 THEN Return(r, "injected") /\ UNCHANGED id
                 ELSE /\ Goto(r, IF req[r].stream THEN "open" ELSE "sleep")
                      /\ id' = [id EXCEPT ![r] =
                                   IF req[r].proto = "gemini" THEN 0 ELSE globalSeq + 1]
                      /\ UNCHANGED outcome
    /\ UNCHANGED <<req, todo, emitted, seen, alive, failed>>

\* The two protocols whose streams take a second number for their id.
Renumbered(q) == q.proto \in {"openai", "zhipu"}

\* Seeded faults of Open: the counter is read and not advanced, or what is used
\* is the number it will have next.
OpenStale(r) ==
    /\ pc[r] = "open"
    /\ id' = IF Renumbered(req[r]) THEN [id EXCEPT ![r] = globalSeq] ELSE id
    /\ Goto(r, "run")
    /\ todo' = [todo EXCEPT ![r] = Script(req[r])]
    /\ UNCHANGED <<req, emitted, seen, alive, failed, outcome, globalSeq>>
OpenAhead(r) ==
    /\ pc[r] = "open"
    /\ id' = IF Renumbered(req[r]) THEN [id EXCEPT ![r] = globalSeq + 1] ELSE id
    /\ Goto(r, "run")
    /\ todo' = [todo EXCEPT ![r] = Script(req[r])]
    /\ UNCHANGED <<req, emitted, seen, alive, failed, outcome, globalSeq>>

\* newSSE: the headers go out; the chat streams take a number for their id.
Open(r) ==
    /\ pc[r] = "open"
    /\ IF Renumbered(req[r])
       THEN /\ globalSeq' = globalSeq + 1
            /\ id' = [id EXCEPT ![r] = globalSeq + 1]
       ELSE UNCHANGED <<globalSeq, id>>
    /\ Goto(r, "run")
    /\ todo' = [todo EXCEPT ![r] = Script(req[r])]
    /\ UNCHANGED <<req, emitted, seen, alive, failed, outcome>>

\* On to the next step of the script, or out of the handler after the last.
Advance(r) ==
    /\ todo' = [todo EXCEPT ![r] = Tail(@)]
    /\ IF Len(todo[r]) > 1 THEN UNCHANGED <<pc, outcome>> ELSE Return(r, "complete")

\* Is an op the next step of the handler's script?
Doing(r, op) == pc[r] = "run" /\ Head(todo[r]).op = op

\* sleepCtx, the full delay: the timer fires, or there is none.  When the client
\* has gone by then as well, select takes either branch.
Fire(r) ==
    /\ Doing(r, "wait")
    /\ Advance(r)
    /\ UNCHANGED <<req, emitted, seen, alive, failed, id, globalSeq>>

\* Seeded fault of Notice: only the waits before the first frame listen.
NoticeEarly(r) ==
    /\ ~alive[r]
    /\ Doing(r, "wait") \/ pc[r] = "sleep"
    /\ emitted[r] = 0
    /\ Return(r, "gone")
    /\ UNCHANGED <<req, todo, emitted, seen, alive, failed, id, globalSeq>>

\* sleepCtx cut short: the client has gone.
Notice(r) ==
    /\ ~alive[r]
    /\ Doing(r, "wait") \/ pc[r] = "sleep"
    /\ Return(r, "gone")
    /\ UNCHANGED <<req, todo, emitted, seen, alive, failed, id, globalSeq>>

\* The frame the handler is about to write; streamResponses numbers it.
FrameOf(r) ==
    [Head(todo[r]).frame EXCEPT
        !.no = IF req[r].proto = "responses" THEN emitted[r] ELSE 0]

\* The client of r reads that frame.
Receive(r) == seen' = [seen EXCEPT ![r] = Read(req[r].proto, @, FrameOf(r))]

\* Seeded fault of Write: the error is not looked at.
WriteOn(r) ==
    /\ Doing(r, "send")
    /\ emitted' = [emitted EXCEPT ![r] = @ + 1]
    /\ IF alive[r]
       THEN Receive(r) /\ UNCHANGED failed
       ELSE failed' \in {failed, [failed EXCEPT ![r] = TRUE]} /\ UNCHANGED seen
    /\ Advance(r)
    /\ UNCHANGED <<req, alive, id, globalSeq>>

\* sse.data, sse.event or writeChunk: the frame reaches the client, or is lost
\* on a connection nobody reads, or the write fails and the handler returns.
Write(r) ==
    /\ Doing(r, "send")
    /\ emitted' = [emitted EXCEPT ![r] = @ + 1]
    /\ \/ /\ IF alive[r] THEN Receive(r) ELSE UNCHANGED seen
          /\ Advance(r)
          /\ UNCHANGED failed
       \/ /\ ~alive[r]
          /\ failed' = [failed EXCEPT ![r] = TRUE]
          /\ Return(r, "aborted")
          /\ UNCHANGED <<todo, seen>>
    /\ UNCHANGED <<req, alive, id, globalSeq>>

\* Without streaming: the latency has passed, and the body goes out in one piece.
Respond(r) ==
    /\ pc[r] = "sleep"
    /\ Return(r, "complete")
    /\ UNCHANGED <<req, todo, emitted, seen, alive, failed, id, globalSeq>>

\* The client goes away.
Leave(r) ==
    /\ pc[r] \notin {"idle", "done"} /\ alive[r]
    /\ alive' = [alive EXCEPT ![r] = FALSE]
    /\ UNCHANGED <<req, pc, todo, emitted, seen, failed, id, outcome, globalSeq>>

Handle(r) == Open(r) \/ Fire(r) \/ Notice(r) \/ Write(r) \/ Respond(r)

Next == \E r \in Requests : Begin(r) \/ Handle(r) \/ Leave(r)

\* What a handler without a client can count on: its connection closed, a wait
\* listens and a write fails or is swallowed.
Unwind(r) == ~alive[r] /\ (Open(r) \/ Notice(r) \/ Write(r))

\* No timer has to fire, for a delay may be as long as it is set to, and no write
\* to a client that stays has to return: the server sets no WriteTimeout.
Spec == Init /\ [][Next]_vars /\ \A r \in Requests : WF_vars(Unwind(r))

\* The handler has sent its whole script to a client that stayed.
Streamed(r) == req[r].stream /\ outcome[r] = "complete" /\ alive[r]

-----------------------------------------------------------------------------
TypeOK ==
    /\ req \in Traffic
    /\ pc \in [Requests -> {"idle", "open", "sleep", "run", "done"}]
    /\ \A r \in Requests : pc[r] = "run" => todo[r] # << >>
    /\ \A r \in Requests : seen[r].count <= emitted[r]
    /\ alive \in [Requests -> BOOLEAN] /\ failed \in [Requests -> BOOLEAN]
    /\ globalSeq \in Nat
    /\ id \in [Requests -> 0 .. globalSeq]
    /\ outcome \in [Requests -> Outcomes]

\* At every moment, however the stream goes on or breaks off, the frames a
\* client has got are a legal beginning of its protocol: blocks opened and
\* closed in order under rising indices, thinking before text, sequence numbers
\* without gaps, the token figures where the protocol has them and never going
\* back, the end after the finish, and what a response object lists in accord
\* with what is streamed.
LegalSoFar == \A r \in Requests : seen[r].ok

\* What a client that stayed to the end of the stream of q has been told:
\* all the words of the reply, and the very reply if its words stand one blank
\* apart, the reasoning before it, the finish reason and the final figures, the
\* protocol's end, and in Responses the whole output of the body without
\* streaming.  (A Gemini reply without words is the exception.)
Tells(q, m) ==
    /\ Fields(m.text) = Fields(q.reply)
    /\ Spaced(q.reply) => m.text = q.reply
    /\ m.thinking = IF q.reasoning /\ q.proto # "gemini" THEN ReasoningText ELSE << >>
    /\ ~(q.proto = "gemini" /\ Fields(q.reply) = << >>) =>
          /\ m.finish
          /\ m.usage = "final" <=> (q.proto \in {"openai", "zhipu"} => q.usage)
          /\ m.image <=> (q.proto = "gemini" /\ q.image)
    /\ q.proto # "gemini" => m.ended
    /\ q.proto = "responses" => m.output = Output(q, "completed")

\* A stream that ran to its end tells its client what the non-streaming body
\* would have.
StreamTellsAll == \A r \in Requests : Streamed(r) => Tells(req[r], seen[r])

\* No two responses of a protocol have the same id, streams taking a second
\* number while other handlers take theirs.
UniqueIds ==
    \A r, s \in Requests :
        r # s /\ req[r].proto = req[s].proto /\ id[r] = id[s] /\ id[r] # 0
            => pc[r] = "open" \/ pc[s] = "open"

\* After a write has failed the handler writes nothing more ("so streaming
\* loops can stop early instead of writing into a dead connection").
StopsAtFirstError ==
    [][\A r \in Requests : failed[r] => emitted'[r] = emitted[r]]_vars

\* A handler whose client goes away returns, in whatever wait or write that finds
\* it, though no timer ever fires again (sleepCtx, "returns early if done fires";
\* clientGone).
AbandonedHandlersReturn ==
    \A r \in Requests : ~alive[r] ~> pc[r] = "done"

-----------------------------------------------------------------------------
\* "Concatenating the deltas reproduces the original text exactly"
\* (splitTokens).
DeltasReproduceReply ==
    \A r \in Requests : Streamed(r) => seen[r].text = req[r].reply
=============================================================================
