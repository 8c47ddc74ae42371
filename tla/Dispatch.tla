------------------------------ MODULE Dispatch ------------------------------
(***************************************************************************)
(* Which handler a path reaches (dispatch of server.go, handleGemini of    *)
(* gemini.go), and what the strict mode refuses there (gemini.go,          *)
(* anthropic.go).                                                          *)
(*                                                                         *)
(* A path is the sequence of its segments.  A segment is the sequence of   *)
(* its texts between colons: <<"models">>, or <<"gemini-pro", "countTokens">>. *)
(***************************************************************************)
EXTENDS Integers, Sequences, SequencesExt, FiniteSetsExt

\* No segment is without a text, though the text may be empty.
IsPath(path) == path \in Seq(Seq(STRING) \ {<< >>})

Plain(texts) == [i \in DOMAIN texts |-> <<texts[i]>>]

\* The case of the switch that is not about a prefix or a suffix: "/models/" and
\* a colon, anywhere.
Gemini == "gemini"

\* The cases of dispatch, in their order: a prefix with something behind it
\* ("under"), or a suffix.
Routes == <<
    <<"under", <<"api", "v1", "tasks">>, "task query">>,
    <<"ends", <<"image-synthesis">>, "dashscope image">>,
    <<"ends", <<"video-synthesis">>, "dashscope video">>,
    <<"ends", <<"query", "video_generation">>, "minimax query">>,
    <<"ends", <<"video_generation">>, "minimax video">>,
    <<"ends", <<"files", "retrieve">>, "minimax file">>,
    <<Gemini, << >>, Gemini>>,
    <<"ends", <<"messages">>, "anthropic">>,
    <<"under", <<"api", "paas", "v4", "async-result">>, "zhipu result">>,
    <<"ends", <<"paas", "v4", "videos", "generations">>, "zhipu video">>,
    <<"ends", <<"paas", "v4", "images", "generations">>, "zhipu image">>,
    <<"ends", <<"paas", "v4", "chat", "completions">>, "zhipu chat">>,
    <<"ends", <<"chat", "completions">>, "chat">>,
    <<"ends", <<"responses">>, "responses">>,
    <<"ends", <<"embeddings">>, "embeddings">>,
    <<"ends", <<"images", "generations">>, "image">>,
    <<"ends", <<"images", "edits">>, "image">>,
    <<"ends", <<"images", "variations">>, "image">>,
    <<"ends", <<"videos", "generations">>, "video">>,
    <<"ends", <<"videos", "edits">>, "video">>,
    <<"ends", <<"audio", "speech">>, "speech">>,
    <<"ends", <<"audio", "transcriptions">>, "transcription">>,
    <<"ends", <<"models">>, "models">> >>

\* The segment that "/models/" was found in front of, for the last time: the
\* first of the model's own (0 if there is none).
ModelAt(path) ==
    Max({0} \cup {i \in 2 .. Len(path) : path[i - 1] = <<"models">>})

HasColon(path) == \E i \in DOMAIN path : Len(path[i]) > 1

Matches(route, path) ==
    CASE route[1] = "under" -> IsStrictPrefix(Plain(route[2]), path)
      [] route[1] = "ends"  -> IsSuffix(Plain(route[2]), path)
      [] route[1] = Gemini  -> ModelAt(path) > 0 /\ HasColon(path)

Matching(path) == {i \in DOMAIN Routes : Matches(Routes[i], path)}

\* Seeded fault of Handler: the general cases go before the special ones.
HandlerLast(path) == IF Matching(path) = {} THEN "unknown endpoint"
                     ELSE Routes[Max(Matching(path))][3]

\* The first case that matches.
Handler(path) == IF Matching(path) = {} THEN "unknown endpoint"
                 ELSE Routes[Min(Matching(path))][3]

\* parseGeminiPath: the action is what follows the last colon behind "/models/";
\* one with a slash in it is no action handleGemini knows.
GeminiAction(path) ==
    LET colons == {i \in ModelAt(path) .. Len(path) : Len(path[i]) > 1}
    IN  IF colons = {} THEN ""
        ELSE IF Len(path) \in colons THEN Last(Last(path)) ELSE "a/b"

\* Is there no model between the last "/models/" and the last colon behind it?
ModelMissing(path) ==
    LET at == ModelAt(path)
    IN  /\ path[at][1] = "" /\ Len(path[at]) <= 2
        /\ Len(path[at]) = 1 => Len(path) = at
        /\ \A i \in at + 1 .. Len(path) : Len(path[i]) = 1

-----------------------------------------------------------------------------
(* A body, as far as the strict checks look at it.  thinkingModel says that  *)
(* the model is of Gemini 2.5 or 3; parts are the kinds of parts in the    *)
(* contents; a number is NoNumber when it is left out; temperature is in   *)
(* tenths.                                                                 *)

NoNumber == -1

PartKinds == {"text", "call", "call without signature", "response with id"}

IsBody(b) ==
    /\ b.thinkingModel \in BOOLEAN /\ b.thinking \in BOOLEAN /\ b.parts \subseteq PartKinds
    /\ {b.maxTokens, b.budget, b.temperature} \subseteq Nat \cup {NoNumber}

\* strictGeminiCheck.
StrictGeminiCheck(b) ==
    \/ "call without signature" \in b.parts /\ b.thinkingModel
    \/ "response with id" \in b.parts

\* strictAnthropicCheck; what is missing fails like what is too small.
StrictAnthropicCheck(b) ==
    \/ b.maxTokens < 1
    \/ b.thinking /\ (b.budget < 1024 \/ b.budget >= b.maxTokens \/ b.temperature \notin {NoNumber, 10})

\* handleGemini, given the verdict of the strict check, which two actions ask for.
GeminiAnswer(action, refused) ==
    CASE refused /\ action \in {"generateContent", "streamGenerateContent"} -> "refused"
      [] ~refused /\ action = "streamGenerateContent" -> action
      [] action = "countTokens" -> action
      [] OTHER -> "generateContent"

\* What the request is answered by, the error injection left aside.
Answer(strict, path, b) ==
    LET handler == Handler(path)
    IN  CASE handler = "anthropic" /\ strict /\ StrictAnthropicCheck(b) -> "refused"
          [] handler = Gemini /\ ModelMissing(path) -> "unknown endpoint"
          [] handler = Gemini /\ ~ModelMissing(path) ->
               GeminiAnswer(GeminiAction(path), strict /\ StrictGeminiCheck(b))
          [] OTHER -> handler
-----------------------------------------------------------------------------
\* The endpoints of the README's table that are told by how they end, and what
\* answers them.
Documented == {
    [ending |-> <<"chat", "completions">>, by |-> "chat"],
    [ending |-> <<"responses">>, by |-> "responses"],
    [ending |-> <<"embeddings">>, by |-> "embeddings"],
    [ending |-> <<"images", "generations">>, by |-> "image"],
    [ending |-> <<"images", "edits">>, by |-> "image"],
    [ending |-> <<"images", "variations">>, by |-> "image"],
    [ending |-> <<"videos", "generations">>, by |-> "video"],
    [ending |-> <<"videos", "edits">>, by |-> "video"],
    [ending |-> <<"audio", "speech">>, by |-> "speech"],
    [ending |-> <<"audio", "transcriptions">>, by |-> "transcription"],
    [ending |-> <<"models">>, by |-> "models"],
    [ending |-> <<"messages">>, by |-> "anthropic"],
    [ending |-> <<"image-synthesis">>, by |-> "dashscope image"],
    [ending |-> <<"video-synthesis">>, by |-> "dashscope video"],
    [ending |-> <<"paas", "v4", "chat", "completions">>, by |-> "zhipu chat"],
    [ending |-> <<"paas", "v4", "images", "generations">>, by |-> "zhipu image"],
    [ending |-> <<"paas", "v4", "videos", "generations">>, by |-> "zhipu video"],
    [ending |-> <<"video_generation">>, by |-> "minimax video"],
    [ending |-> <<"query", "video_generation">>, by |-> "minimax query"],
    [ending |-> <<"files", "retrieve">>, by |-> "minimax file"]}

\* The two polls whose ids are in the path: they are found behind no base.
Polls == {
    [prefix |-> <<"api", "v1", "tasks">>, by |-> "task query"],
    [prefix |-> <<"api", "paas", "v4", "async-result">>, by |-> "zhipu result"]}

GeminiActions == {"generateContent", "streamGenerateContent", "countTokens"}

\* The Gemini endpoints, {model}:{action} behind any "/models/": the action that
\* is called, if the path is of this form.
GeminiCall(path) ==
    IF ModelAt(path) = 0 \/ ~HasColon(path) THEN {}
    ELSE IF ModelMissing(path) THEN {"unknown endpoint"}
    ELSE IF Len(Last(path)) > 1 /\ Last(Last(path)) \in GeminiActions THEN {Last(Last(path))}
    ELSE {"other action"}

\* handleGemini's comment: an action it does not recognize is answered like
\* generateContent.
Reply(by) == IF by = "other action" THEN "generateContent" ELSE by

\* The rows of the README's table of strict checks that apply to a body.
Faults(by, b) ==
    CASE by \in {"generateContent", "streamGenerateContent"} ->
           {r \in {"signature missing", "id present"} :
               CASE r = "signature missing" ->
                      b.thinkingModel /\ "call without signature" \in b.parts
                 [] r = "id present" -> "response with id" \in b.parts}
      [] by = "anthropic" ->
           {r \in {"max_tokens", "budget_tokens", "temperature"} :
               CASE r = "max_tokens" -> b.maxTokens \notin Nat \ {0}
                 [] r = "budget_tokens" -> b.thinking /\ b.budget \notin 1024 .. b.maxTokens - 1
                 [] r = "temperature" -> b.thinking /\ b.temperature \in Nat \ {10}}
      [] OTHER -> {}

\* What the README's table has a path answered by: the most specific of the
\* endpoints it ends like (Zhipu's behind its own base, MiniMax's query), the poll
\* it is behind, the Gemini action it calls.
DocumentedBy(path) ==
    LET ends == {d \in Documented : IsSuffix(Plain(d.ending), path)}
        best == {d \in ends : \A e \in ends : Len(e.ending) <= Len(d.ending)}
    IN  {d.by : d \in best} \cup {q.by : q \in {p \in Polls : IsStrictPrefix(Plain(p.prefix), path)}}
        \cup GeminiCall(path)

\* Every documented endpoint is answered by its own handler behind any base
\* path; a poll with its id in the path is found without a base path only, though
\* the job may have been submitted behind one.  A path of two of the three forms
\* is answered as one of them, an endpoint that is not listed not at all.  With
\* the strict mode on exactly the documented faults are refused, and with it off
\* none.
AnsweredAsDocumentedFor(strict, path, b) ==
    LET by == DocumentedBy(path)
    IN  IF by = {} THEN Answer(strict, path, b) = "unknown endpoint"
        ELSE \E d \in by : Answer(strict, path, b)
                             = IF strict /\ Faults(d, b) # {} THEN "refused" ELSE Reply(d)
=============================================================================
