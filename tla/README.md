# mock-openai-upstream: specification and verification

This directory holds TLA+ modules that model the mock upstream service of this
repository, the TLC configurations that check them on small instances, and
proofs, checked by TLAPS, that the most important results hold for every value
of the constants.  Paths below are relative to `src/`; `mu/` stands for
`internal/mockupstream/`.

## 1. The system

The service is one Go process.  `net/http` runs every request on a goroutine of
its own, and all of them share four pieces of state: the task table, the
inspector, the process-wide request counter, and the read-only configuration
and assets.

| Component | State | Operations | Talks to |
|---|---|---|---|
| Behaviour knobs (`mu/behavior.go`) | none | `shouldInject`, `randomDelay`, `sleepCtx`, `jitter` (no caller) | called by every handler |
| Async task queue (`mu/taskqueue.go`) | `tasks`, `seq`, under `q.mu` | `Submit` (with `scheduleStart`), `Get`, `Task.Status` (no lock) | the async handlers |
| Async endpoints (`mu/dashscope.go`, `zhipu.go`, `minimax.go`) | none | submit, poll, file retrieval | the queue, the request counter |
| Inspector (`mu/inspect.go`) | `seq`, `ring`, `rule`, under `in.mu` | `record`, `list`, `clearRequests`, `shouldFail`, `setRule`, `getRule`, `clearRule` | the middleware, the management endpoints |
| Middleware (`mu/server.go`) | none | log, re-buffer, `record`, `shouldFail`, `authOK`, dispatch | the inspector, every handler |
| Chat endpoints (`mu/openai.go`, `zhipu.go`, `anthropic.go`, `openai_responses.go`, `gemini.go`, with `sse.go`, `payload.go`) | the request counter (`payload.go`) | five protocols, one body or a stream | the counter, the knobs, the client's connection |
| Synchronous media (`mu/openai_media.go`) | none | delayed image and video bodies of a known length | the knobs, the assets |
| Embeddings, audio, models (`mu/openai_extra.go`) | none | pure answers | - |
| Usage figures (`mu/payload.go`, and in the protocol files) | none | token estimates and sums | - |
| Strict checks (`mu/anthropic.go`, `gemini.go`) | none | predicates over a body | - |
| Routing (`mu/server.go` `dispatch`) | none | suffix matching in a fixed order | every handler |
| Configuration (`mu/config.go`, `config_file.go`) | set once | defaults, file, environment | everything |
| Assets (`mu/assets.go`) | set once | serve bytes | - |
| Life cycle (`cmd/mockupstream/main.go`) | the process | start, five-second shutdown | everything |

**What is hard here, and what makes each part correct**

* *Task queue.*  There is no worker.  A task's start, finish and outcome are
  fixed once, under `q.mu`, from a stamp that was read *before* the lock: stamps
  reach the queue late and out of order.  The start is an order statistic of the
  finish times in flight.  Correct means: slots never oversubscribed, never idle
  while a task waits, first come first served, nothing stored is ever changed,
  every task ends.
* *Async endpoints.*  A poll fetches under the lock, then reads the clock and
  judges without it, so answers overtake one another; three protocols spell one
  status in three vocabularies; a restart loses the table but not the clients'
  ids.  Correct means: a client never sees a job go back, is never told another
  job's outcome, and gets a result exactly with success.
* *Inspector and middleware.*  A request takes `in.mu` twice, to be captured and
  to be judged, and rules come and go between the two.  Correct means: the ring
  is exactly the last 256 requests since it was cleared, an answered request can
  be found in it, and a rule of N charges fails exactly N requests.
* *Chat streams.*  Before every frame a timer races the client's disconnection, any
  write may fail, and the sequence of frames has a grammar of its own in each
  protocol.  Correct means: what a client has got is always a legal beginning,
  a stream that ran out is complete, nothing is written after a failed write,
  a handler whose client has gone returns, and ids taken from the shared counter
  are unique.
* *Media and the end of the process.*  A media body announces its length before
  its entries are written, from an `n` that one of two parsers clamps; nobody
  looks at the error of a write; a failure's status is whatever the file, the
  environment or a rule says; and the process goes down five seconds after a
  signal whatever its handlers do.  Correct means: the announced length is the
  written one, a client never takes a failure or half a body for a success, only
  what is slow is cut off, and the process ends.
* *Determinism.*  Failures and delays are keyed by a prompt, a model, or a
  process-wide number, and a task's id holds the time.  Correct means: what is
  decided by content, and everything in a load sent one request after the other,
  repeats itself on a fresh process, and concurrent plain requests to one model
  fail in the same number, if not the same ones.
* *Decisions.*  The layers of the configuration, the overlapping cases of
  `dispatch`, the strict checks, the cuts made to a captured body and the token
  figures are functions of one input, with edges that no test stands on: a key
  that is there but zero, a malformed or a negative number, a path with two endings, a body
  cut inside a character, an old field beside its successors.

## 2. The modules

| Module | What it is |
|---|---|
| `Behavior` | `shouldInject` and `randomDelay` as operators of a hash value |
| `TaskQueue` | the queue and the handlers that submit; the core state machine |
| `AsyncTaskService` | the abstract service: jobs, statuses, slots, and no clock |
| `AsyncProtocols` | submit and poll handlers of three protocols and restarts, over `INSTANCE TaskQueue` |
| `Inspector` | ring and rule, one action per critical section, with a history |
| `RequestPipeline` | EXTENDS `Inspector`: requests through the middleware and a chat handler, with the management endpoints |
| `Streams` | the five chat protocols as scripts of waits and frames, and a client that reads them |
| `Serving` | the process from start to exit, and the responses it is writing meanwhile |
| `Repeatability` | one load, run twice on fresh processes |
| `Configuration`, `Capture`, `Usage`, `Dispatch` | pure operators: settings and start, captured bodies, token figures and embeddings, routing and strict checks |
| `Decisions` | asks the four modules above the questions of given sets |
| `MCDecisions`, `MCTaskQueue`, `MCAsyncProtocols`, `MCRequestPipeline`, `MCStreams`, `MCServing`, `MCRepeatability` | model values, symmetry and input sets for TLC |
| `CountingLemmas` | the order statistic, ranks, sorted listings, and induction over a set of numbers; what the proofs share |
| `TaskQueueProofs`, `PipelineProofs`, `AsyncProofs`, `ServingProofs`, `StreamsProofs`, `RepeatabilityProofs`, `DecisionsProofs` | the proofs about the module each is named for; `PipelineProofs` begins with those about `Inspector` |

### TaskQueue

| TLA+ | Code |
|---|---|
| `clock` | `time.Now()`; one tick is any unit in which durations are expressed |
| `tasks`, `seq` | `q.tasks`, `q.seq`.  An id is the pair in `"mock-task-<now>-<seq>"` |
| `call[h]` | a handler between evaluating the argument `time.Now()` and getting `q.mu` |
| `ReadClock`, `Submit` | `queue.Submit(kind, model, time.Now())`: the argument, and the critical section |
| `ScheduleStart`, `NthFinish` | `scheduleStart`; the sort and the index are stated by counting, and `ScheduleBySorting` says that every listing `Sorted` by finish time has that finish at that index |
| `Status` | `Task.Status` |
| `Hashes` | what `hashString(id)` may be.  One hash gives both the duration and the outcome, as in the code |

A task's duration is never random once its id is known; since an id's hash is
unpredictable from the model's point of view, `Submit` draws it from `Hashes`.

### AsyncProtocols

`Queue == INSTANCE TaskQueue` shares the queue's variables; `Enqueue` and `Tick`
are the queue's own actions with the handlers' state added.  A poll is three
steps, `Get` (under `q.mu`), `Judge` (clock, status, answer, request number) and
`Deliver` (the answer reaches the client), with anything between them.  `told`
is what the owner of an id can conclude from the answers it has seen.
`MiniMax`'s `files/retrieve` is part of the success answer: its `file_id` always
resolves to the placeholder video.  A client polls by the protocol it submitted
by; the code would serve any id on any of the three endpoints.

### Inspector and RequestPipeline

`seq`, `ring` and `rule` are the fields of `inspector`; `clearedSeq` and `rules`
are history.  `List` finds its entries by rank: an entry is the k-th shown when
k - 1 that match are newer.  An entry keeps which request it is instead of its headers and body,
a path suffix is the set of paths that end in it.  In `RequestPipeline` each
request's `pc` walks through `withMiddleware`: `Arrive` (log and re-buffer),
`Capture`, `Judge` (`shouldFail` and `writeFailResponse`), `Authorize`, and then
`handleChatCompletions` without streaming, `Serve`, `Complete` or `ClientGone`.
`PostBehavior` takes any status and times that fits JSON and has the code's own
validation as its guards.

### Streams

A handler's script is what it would write and where it would wait if nothing
went wrong, one definition per protocol, translated from the function it names.
`Fire`, `Notice` and `Write` run the script: a wait ends with its timer or with
the client's departure, whichever `select` takes, and a write to a client that
has gone may be swallowed by a buffer or fail.
`Begin` and `Open` take the numbers of the global counter where the handlers do:
the two chat streams take a second one for their id, a Gemini stream takes none
and is never hit by the error injection.  A frame keeps its role, block index,
content kind, text, sequence number, whether it carries the finish reason and the
image, which token figures it carries (none, those of the prompt with no output
yet, or the final ones), and the items of a Responses object; the rest of its
JSON is left out.  So `message_start` has the figures of the prompt, and
`response.created` and `response.in_progress` have the final figures and the whole
reasoning item before a word was streamed, as `responsesEnvelope` builds them.
The client (`Nothing`, `Allowed`, `Read`) is written from the protocols' event
grammars and shares nothing with the scripts but the frames' field names.  It
reads a frame when it gets it (`Receive`): `seen` is what it has put together so
far, and whether every frame was allowed where it came.

### Serving

A response is a sequence of parts with sizes: what is before the entries, one
part per entry, what is after them.  `Count` is the `n` a request comes to
(`parseMediaRequest`, whose form branch returns before the clamp), `Total` the
announced length, `Entries` and `PartSize` what the loops write.  A request's
`pc` goes from `Arrive` (the connection is accepted, and a failure rule may
answer) over `Serve` (failure by hash, or a delay), `Wake` or `Abandon` (the
delay ends, or the client has gone) to `Write`, part after part.  `Fail` is a
plain body under a status.  What `net/http` does with a status, a length and a
write too many is modelled from how the handlers use it, and mapped as external:
`WriteHeader` panics outside of 100 to 999, an informational status is not the
final one, a negative length is dropped, a write past the announced length is
refused whole.  The process is `main`: `Listen`, `Signal` (Shutdown with a
context of five seconds), `Drained` or `GraceOver`.

### Repeatability

`hash` is `hashString` as far as it has been asked: a key gets any value the
first time and the same one ever after, in both runs.  `InjectKey` and
`DelayKey` are the keys of the handlers, `Begin`, `Open`, `Submit` and `Poll`
where they take numbers from the process-wide counter.  `SecondRun` starts a
fresh process: the counter is zero again, and the clients send what they sent
before, in any order among themselves and with any number of polls.

### Configuration, Capture, Usage, Dispatch

No state, only decisions.  `Configuration` keeps one field of every way to be
read (a text, and two numbers that bound one delay) for the forty there are, and
follows a start up to the listener.  A number may be negative wherever it is
written, for nothing rejects it: it overrides the layers below like any other.
`Unset` and `Malformed` stand for no number at all.  In `Capture` a body is a sequence of four
kinds of bytes, and both limits are constants.  In `Usage` a text is its number
of characters, and the loops over a list of texts are recursive functions, whose
steps are the loop's own.  In `Dispatch` a path is the sequence of its segments
and a segment the sequence of the texts between its colons, which is what
`parseGeminiPath` tells apart; the cases of the switch are a table in their order.
Each module ends with what is
promised of it, written from the endpoint table, the settings and the protocols'
own sums, not from the operators above it.  `Decisions` puts the questions: a
start, a request, an upload or a setting with an exchange, out of sets that are
its constants and need only hold well-formed ones (`DecisionsAssumption`).

## 3. The runs

| Run | Bounds | Shows |
|---|---|---|
| `task_queue` | 3 handlers, 2 video slots, 4 tasks, durations 1 and 2, stamps to 2, clock to 5 | type correctness, `SlotCap`, `WorkConserving`, `Fifo`, `ScheduleBySorting`, `NeverRescheduled` |
| `task_queue_service` | 2 handlers, concurrency 0, inverted image range, 3 tasks, clock to 9 | `EveryTaskEnds`; the queue implements `AsyncTaskService` |
| `request_pipeline` | 3 requests, 2 paths, ring of 2, one rule of 0, 1 or 2 charges | `RingIsWindow`, `ChargesExact`, `ListShowsNewest`, `AnsweredIsListed`, `UnlimitedRuleHolds`, `FailsExactly` |
| `pipeline_rules` | 2 requests, 2 rules, ring of 1, keys enforced, injection on | `FailsExactly` and `ChargesExact` across the replacement of a rule; `UsesInspector` |
| `async_protocols` | 1 submitting handler, 2 pollers, 1 slot, 2 tasks, 2 polls, 2 lives, clock to 4 | `PollsNeverGoBack`, `TicketsResolve`, `OldTicketsStayDead`, `ResultIsEarned` |
| `streams` | every protocol, option and three reply texts, beside one of three competitors, the client leaving anywhere | `LegalSoFar`, `StreamTellsAll`, `UniqueIds`, `StopsAtFirstError`, `AbandonedHandlersReturn` |
| `serving` | a request of any shape (`n` from -1 to 2, JSON or form, rule status none, 429, 204 or 102, audio, chat) beside an image; an error status that is none; delays around a grace of 2 | `MediaAreWhole`, `FailuresArrive`, `CutOnlyIfSlow`, `ProcessExits` |
| `repeatability` | one client with two or three requests, two with one each, three plain requests to one model; all kinds, 2 names, 2 polls | `RepeatsInOrder`, `SameFailures` |
| `decisions` | every question of five sets: 70,200 starts, 309 paths with 151 bodies, uploads of up to 4 bytes around limits of 3 and 2, 512 settings with 72 exchanges, lists of up to 3 texts | `LayersResolve`, `AnsweredAsDocumented`, `CaptureIsHonest`, `FiguresAgree` |
| `next_requests_fail` | 2 requests, one rule | a violation, below |
| `deltas_reproduce_reply` | as `streams` | a violation, below |
| `load_repeats` | as `repeatability` | a violation, below |

**Why the bounds are enough.**  Four tasks and two slots are the least in which
two tasks queue behind two that run, so the order statistic is taken at index 0
and 1, with equal and different finish times; three handlers let two overtake
one.  A ring of two pushes one of three requests out, a ring of one replaces its
only entry.  A rule of two charges can be used up by two of three requests, and
two rules are what it takes to replace one with a request in flight.  Two polls
are what it takes for one answer to overtake another, two lives for an id to
outlive its process.  `TwoTokens` and a two-word reply make a first and a last
token differ, the empty reply and the one with odd blanks are the cases at the
edge of `splitTokens`.  With `n` from -1 to 2 the announced length is negative,
positive and too small, exact without a comma and exact with one; the delays of
`serving` end before, at and after the five seconds.  Two concurrent clients are
the least that can swap their numbers, two requests of one client the least that
can be moved by a poll.  An upload of four bytes can be cut by both limits,
inside a character or beside one.  The sets of `decisions` hold every way an
input can be special, once; the operators look no further.  The proofs of
section 4 remove the bounds for all safety properties but those listed there.

**Symmetry** is used for handlers, pollers and requests in runs without
liveness.  **Deadlock** checking is off throughout: requests are sent once,
a load is run twice, a question is asked once, and the clock has a horizon, so every bounded behaviour stops.

**Fairness.**  `TaskQueue` assumes weak fairness of the steps of a handler that
has begun, because `q.mu` is held for straight-line code without I/O and the Go
runtime schedules every runnable goroutine, and that time goes on.  In `Streams`
and `Serving` no write to a client that stays has to return: there is no
`WriteTimeout` (`cmd/mockupstream/main.go:42-48`), so a client that does not read
holds its handler up for ever.  `Streams` assumes no timer to fire either.  Its
only fairness, `Unwind`, is of a handler whose client has gone: a wait then
listens to `done`, and a write to a connection that is closed fails or is
swallowed.  A client that closes its own direction and reads on, which
`net/http` takes for one that has gone, is not modelled.  In `Serving`
`ProcessExits` holds because the five seconds end whatever a write does; it
assumes that time goes on, that a runnable goroutine runs, and that
straight-line code takes no time (a delay that is over is acted on before the
next tick).  `RequestPipeline`, `AsyncProtocols`, `Repeatability` and the
decisions state safety only and assume no fairness.  No fairness is
assumed of clients: nobody owes a request, a poll, a POST or a DELETE, and a
client may stay or leave.  The horizon of `task_queue_service` is late enough
for its last task to end.

### Where code and documentation disagree

* `next_requests_fail`.  `mu/server.go:70-72` and `README.md:224` say the next N
  requests are certain to fail.  Capture and judgement are separate critical
  sections, so a request that was captured before the rule was posted can use up
  a charge, and a request sent after the POST was answered passes.  What does
  hold is that exactly N requests fail (`FailsExactly`, proved).
* `deltas_reproduce_reply`.  `mu/payload.go:105-107` promises that the deltas add
  up to the text exactly; `strings.Fields` loses leading, trailing and repeated
  blanks.  What does hold is that all words arrive in order, and the very text if its words
  stand one blank apart (`StreamTellsAll`).
* `load_repeats`.  `README.md:183` says that one load repeats its delays and
  errors across runs.  The chat endpoints hash the model and a process-wide
  number, so two requests sent together may swap their numbers and with them the
  error; a client that polls once more moves the failures of all later requests;
  a task's failure and duration hang on an id with the time in it.  What does
  hold is `RepeatsInOrder` and `SameFailures`.

Met while modelling, and described by a property's exception or bound instead of
a run of their own:

* `README.md:158` puts the image part on the last chunk of a Gemini stream; a
  reply without words has no chunk, so image, finish reason and usage are all
  missing (`Streams`, the condition in `StreamTellsAll`).
* A rule may have a status of 100 to 599 (`mu/inspect.go:260`), and
  `README.md:224` says that the next requests return it.  One of 100 to 199 goes
  out ahead of the response, which is then a 200 (`FailuresArrive`).
* `README.md:204` says the digest covers the full payload even when the copy is
  cut.  A body beyond 32 MiB is cut before it is digested, and one whose
  connection failed is digested as far as it came (`CaptureIsHonest`).
* A form with `n` below one gets an empty list and, when `n` is negative, a
  length that is dropped or, for a tiny image, wrong (`Misannounced`).
* Overriding one bound of a delay can turn the range round; the delay is then
  the lower bound, above the maximum (`LayersResolve`).  A negative delay is taken
  as it is and comes to no wait.  A setting cannot be
  emptied from the environment: an empty variable says nothing.
* The poll routes of DashScope and Zhipu are matched by prefix, the submissions
  by suffix, so behind a base path a job can be submitted and not be polled
  (`Polls` in `Dispatch`).
* A Gemini action that `handleGemini` does not know is answered like
  `generateContent`, but the strict checks of `generateContent` are not asked
  (`GeminiCall` and `Reply` in `Dispatch`).
* The environment table of `README.md` still lists `MOCK_TTFT_MS`,
  `MOCK_LATENCY_MS`, and single delays with a jitter (lines 116-133);
  `applyEnv` reads other names.

## 4. The proofs

All theorems hold for arbitrary constants under the modules' named assumptions:
settings are integers, hashes, stamps and bounds natural numbers, the ring has
room for one entry, valid rules have a status of 100 to 599 and no negative
count, the parts of a body are not empty, the grace of a shutdown is not zero, a
reasoning text is a sequence of letters with single blanks between words, as the
constant in `payload.go:86` is, and the questions of `Decisions`, paths and lists
of texts included, are well formed.  Nothing assumes that durations are positive, a concurrency is at least
one or a range is not inverted, because nothing in the code checks it.

**The queue** (`CountingLemmas`, `TaskQueueProofs`).  `CountingLemmas` shows that
in a finite set with an integer measure the order statistic exists: there is a
value that at most n elements precede and more than n do not exceed.  That makes
the `CHOOSE` in `NthFinish` meaningful.  Numbering a set by rank, ties broken by
any order on its members, gives a sorted listing (`Sortable`), every sorted
listing has the order statistic at its index (`SortedIndex`), and so
`ScheduledBySorting`: the queue's start times are those the code reads off its
sorted slice, whatever the sort does with ties.  `SlotCap` is not inductive as checked,
because it looks only at starts and at the present.  The invariant proved is
`IInv`:

* `TypeOK`, with the clause that an id carries its task's stamp and a number
  already used, so a new id is always fresh;
* `SlotCapAlways`: at every instant, past, present or scheduled;
* `WorkConservingAlways`: at every instant from now on;
* `StartJustified`: a task starts at its stamp, or as many tasks as there are
  slots got the lock before it and last until it starts;
* `Fifo`.

For a new task that must wait, the order statistic gives both bounds at once: up
to its start enough tasks are in flight to keep all slots busy, and from its
start on at most `Concurrency - 1` others run.  The step lemmas
(`SubmitSlotCap`, `SubmitWorkConserving`, `SubmitStartJustified`, `SubmitFifo`)
do this one conjunct at a time.

**The refinement** (last section of `TaskQueueProofs`).  Under the mapping `Jobs`, that
computes each status from the clock, `Submit` is `Accept` and `Tick` is
`Advance`; `SlotsWellUsed` after the step comes from `IInv'`.

**The inspector** (first section of `PipelineProofs`).  `InspectorTypeOK`, `RingIsWindow` and
`ChargesExact` together are inductive.  They are proved of `InspectorSpec`, that
is, for any caller.  From them `ListAlwaysNewest`: for every limit and suffix the
answer has as many entries as there are matching ones, up to the limit, each is
in the ring and matches, they go from new to old, and none is left out that is
newer than one shown (`NewestFound`: each rank is taken by one entry).

**The pipeline** (`PipelineProofs`).  Every step of the middleware is an
inspector step or leaves the inspector alone (`StepUsesInspector`), which gives
`UsesInspector`.  `FailsExactly` needs two more conjuncts: `Unforced`, a request
is failed by a rule in its last step only, and `ChargesAreRequests`, the charges
spent by a rule are as many as the requests it has failed.  With `TypeOK` and the
inspector's invariant they make the inductive `PInv`.  `AnsweredIsListed` needs
that a request is captured at most once and, from then on, under the number its
handler holds (`CapturedOnce`), and that the ring's entry with that number is that
request's (`RingTellsTruth`).  `UnlimitedRuleHolds` is inductive once it is said
of every rule and every request that is held by it, judged or not (`DueIsHeld`).

**The asynchronous endpoints** (`AsyncProofs`).  All four safety properties, with
any number of lives, polls and protocols.  `AInv` follows an id from hand to hand:
`SubmitOK`, a handler has its protocol's kind in hand until it has the id;
`TicketOK`, a ticket of this life names a task of its kind, no further back than
its client was told, and one of an earlier life is `Stale`: older than the clock,
every task and every stamp a handler has read; `PollOK`, a poll that has found
its task belongs to this life; `AnswerOK`, an answer under way tells of some
status between what the client knew when it asked and what the task has become
since.  `TicketsResolve` and `PollsNeverGoBack` come from `TicketOK`, which also
keeps a new task from reusing an old id (`OldTicketsStayDead`), and
`ResultIsEarned` from `AnswerOK`.

**The streams** (`StreamsProofs`).  All safety properties of `Streams`, for any
replies, competitors and options: `StreamsLegalSoFar` and `StreamsTellAll` are
about texts of any length with blanks anywhere.  The argument has four parts.

* *Texts.*  `Told(text, j, heard)` says what the first j tokens of a text add up
  to: its first j words, a blank to keep the next one apart, and a beginning of
  the text itself if that is `Spaced`.  It holds of nothing (`NothingTold`), one
  token leads from j to j + 1 (`TokenTold`), and at the end it gives all the
  words (`AllTold`).  This step by step form is what takes the place of an
  induction over the text: the steps are the handler's own.
* *Layouts.*  `ChatLaidOut`, `AnthropicLaidOut`, `ResponsesLaidOut` and
  `GeminiLaidOut` say which step of a script stands where, with and without
  reasoning; the `Layout` lemmas prove it of the scripts.
* *Knowledge.*  `Knows` says what a client has after p steps of a script: how
  much it was told, whether it saw the finish reason, the final figures and the end;
  `Standing` adds which block is open under which index, and `Listed` which items
  the last Responses object had.  For each protocol a
  `Begins` lemma starts it, a `Step` lemma shows that the frame that comes next
  is allowed and leads to the knowledge after it, and a `Tells` lemma reads
  `Tells` off it at the end.
* *Handlers.*  `LegalSoFar` and `StreamTellsAll` are not inductive, because
  whether a frame may come depends on the place in the script.  The invariant
  `SInv` says that a running handler is at some place of its script and that a
  client that has stayed knows what `ScriptKnows` says of that place, with as
  many frames as were written (the sequence numbers of Responses rest on this).
  A client that left may miss frames, but gets none after those it missed.

`SInv` also has `NumbersTakenOnce` (no two streams have the same number in their
ids, whatever their protocols) and that only a handler that has returned can
have failed: `StopsAtFirstError` is about a step, and such a handler takes no
other.

**Repeatability** (`RepeatabilityProofs`).  `RepeatsInOrder` is inductive with the
table `hash` (`RTyped`), with the fact that an entry decided by content alone is the
same function of it in both runs (`ContentInv`), and, for a load sent one request
after another, with `OrderInv`: there is one sequence of counter values, after so many answers, either run has taken as many numbers as that sequence says.  `SameFailures` rests on `CountInv`:
the numbers drawn by concurrent plain requests are those from one up to how
many there are, whoever drew which, so that the failures are as many as
these numbers that hash to one (`Balanced`).

**The decisions** (`DecisionsProofs`).  All four properties of `Decisions`, each
first about one input, whatever it is, and then of the specification, whose
invariant `DInv` says that the question asked is one of its set.

* `LayersAlwaysResolve`, `CaptureAlwaysHonest` and `ExchangesAlwaysAgree` are about
  every start, every upload and pair of limits, and every setting and exchange
  that is well formed, of any size.  A start's numbers are any integers.  An
  exchange's configured figures are natural numbers: what a negative token count
  comes to is not looked at.
* `EmbeddingsAlwaysInOrder` is about an input of any length.  `Collected` and
  `PromptTokens` do what their loops do (`CollectedLoops`, `TokensLoop`: the
  recursive functions exist and take the loop's step at every index).  Then the
  induction is over a set of numbers, `AllNumbers` of `CountingLemmas`, which needs
  no operator as a parameter: after n elements there is one text for each string
  among them, at the place that counting gives it (`OneMorePlaced`).
* `AlwaysAnsweredAsDocumented` is about every path and every body, strict or not.
  The table of the code and the table of the documentation have the same rows
  (`TableIsRows`, `PollsAreRows`); the least case that matches decides
  (`FirstMatch`); two endings of one path have their last word in common
  (`LastSegment`), and of two cases with the same last word the one with the longer
  ending comes first (`SpecificFirst`), so the case that decides is the most
  specific row (`BestRow`).  For the Gemini case `ModelSegment` makes the last
  "/models/" meaningful, and `GeminiAnswered` compares the two ways of reading the
  action.  `StrictRefusesTheFaults` says that the strict checks let a body pass
  exactly if it has none of the documented faults.

**The responses** (`ServingProofs`).  All three safety properties of `Serving`,
for any number of requests, any `n`, sizes, delays, statuses and grace.  The
invariant says, of each request, three things.  `Timely`: straight-line code
takes no time, so nothing is about to be served when a context older than its
signal expires, and a delay that still runs then ends after it.  `Honest`: from
the moment a status is chosen until the client has the response, the response's
status is what `net/http` makes of it.  `Exact`: the bytes of a list body so far
are the `Sum` of its first parts and all were taken.  `SumStep` (each write adds
its part) and `SumBounded` (no beginning exceeds the announced length, the whole
body meets it) are the arithmetic behind it, products of two unknowns included.
`MediaAlwaysWhole` leaves out one case, as the property does: a form with a
negative `n` beside a list so short that the wrong length is not negative.

**What TLC alone checks.**  Liveness (`EveryTaskEnds`,
`AbandonedHandlersReturn`, `ProcessExits`), which is out of the prover's reach, as is
anything about fairness and `ENABLED`.  Every safety property, every action
property and both uses of an abstract specification (`ImplementsService`,
`UsesInspector`) are proved.

## 5. Assumptions and abstractions

* The wall clock never goes back and has advanced by the time a restarted
  process serves its first submission.  `OldTicketsStayDead` rests on this; a
  clock set back could make an old id a new task's.
* Hashes are values of a small set with an in-bucket and an out-of-bucket member
  and both parities of duration.  Which request is hit by which hash is free.
* Rates are ten-thousandths; the rounding of `rate*1000` in binary floating point
  is not modelled.
* `uint64` counters do not wrap.
* A text has one kind of blank; tabs and line ends, at which `strings.Fields` splits
  as well and which `splitTokens` turns into blanks, are left out.
* In `Serving` no request comes in on an open connection after the signal.
* `http.ResponseWriter` supports flushing, as `net/http`'s own does; the branches
  for one that does not are left out.
* The sizes of a response's parts are small numbers; that a part is as long as
  it is in the code is not modelled, that lengths add up is.
* A part of a response reaches the client or does not; buffering, chunked framing
  and partial writes of one part are `net/http`'s.

**Not modelled:** `jitter`, which has no caller; the components of an embedding
vector and the static model list; building, serving and naming of asset bytes;
access to the fields of a JSON body, and with it the wording of errors and the
echoing of request fields; that each of the forty lines of `applyFile` and
`applyEnv` names the field it should; overflow of a `time.Duration` made from an
absurd number of milliseconds; the health probe beyond ending a start.  All of
these are pure functions of one input without state, pure I/O, or constants.

## 6. Plan

1. Done: `TaskQueue` with `AsyncTaskService`, `AsyncProtocols`, `Inspector` and
   `RequestPipeline`, `Streams`; proofs of the queue, the inspector and the
   pipeline.
2. Done: `Serving`, `Repeatability`, and `Configuration`, `Capture`, `Usage` and
   `Dispatch` with `MCDecisions`; proofs of `Serving`.
3. Done: proofs of `AsyncProtocols`, `Streams`, `Repeatability`, and the decisions;
   the rest of the queue, the inspector and the pipeline.
4. Done: proofs of the order of embeddings and of the documented routes, for inputs
   and paths of any length.

## 7. Running the checks

    tlc -workers 2 -config TaskQueue.cfg MCTaskQueue
    tlapm TaskQueueProofs.tla

`PROJECT.json` lists every run with its configuration, the seeded fault that
each property detects, and the source lines of every definition.
