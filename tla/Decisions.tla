----------------------------- MODULE Decisions -----------------------------
(***************************************************************************)
(* The decisions the program takes of one input, each asked of a set: a    *)
(* start of the process, a path and a body, an upload, an exchange, and a  *)
(* list of texts to embed.                                                 *)
(***************************************************************************)
EXTENDS Configuration, Capture, Usage, Dispatch

CONSTANTS Starts, Paths, Bodies, Uploads, Settled, Exchanges, Inputs

ASSUME DecisionsAssumption ==
    /\ \A start \in Starts : IsStart(start)
    /\ \A path \in Paths : IsPath(path)
    /\ \A b \in Bodies : IsBody(b)
    /\ \A u \in Uploads : IsUpload(u)
    /\ \A cfg \in Settled : IsSettled(cfg)
    /\ \A x \in Exchanges : IsExchange(x)
    /\ \A input \in Inputs : IsInput(input)

VARIABLES
    about,      \* what is decided
    question,   \* of which input
    answered

vars == <<about, question, answered>>

Init ==
    /\ answered = FALSE
    /\ \/ about = "start" /\ question \in Starts
       \/ about = "path" /\ question \in [strict : BOOLEAN, path : Paths, body : Bodies]
       \/ about = "upload" /\ question \in Uploads
       \/ about = "exchange" /\ question \in [cfg : Settled, of : Exchanges]
       \/ about = "texts" /\ question \in [input : Inputs]

Next == ~answered /\ answered' = TRUE /\ UNCHANGED <<about, question>>

Spec == Init /\ [][Next]_vars

-----------------------------------------------------------------------------
\* config.go: the layers resolve as documented, see LayersResolveFor.
LayersResolve == answered /\ about = "start" => LayersResolveFor(question)

\* server.go, dispatch: see AnsweredAsDocumentedFor.
AnsweredAsDocumented ==
    answered /\ about = "path" =>
        AnsweredAsDocumentedFor(question.strict, question.path, question.body)

\* server.go and inspect.go: see CaptureIsHonestFor.
CaptureIsHonest == answered /\ about = "upload" => CaptureIsHonestFor(question)

\* payload.go and openai_extra.go: see FiguresAgreeFor and EmbeddingsInOrder.
FiguresAgree ==
    /\ answered /\ about = "exchange" => FiguresAgreeFor(question.cfg, question.of)
    /\ answered /\ about = "texts" => EmbeddingsInOrder(question.input)
=============================================================================
