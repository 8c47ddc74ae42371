--------------------------- MODULE Configuration ---------------------------
(***************************************************************************)
(* How the process comes by its settings (config.go, config_file.go) and   *)
(* its assets (assets.go), up to the moment main listens.                  *)
(*                                                                         *)
(* Every value is a number: a duration, negative ones too, for nothing is  *)
(* validated, or a text by its number, the empty one being 0.  A layer     *)
(* that leaves a field out holds Unset there.                              *)
(***************************************************************************)
EXTENDS Behavior

CONSTANTS
    Defaults,    \* defaults(): a value for every field
    Unset,       \* no value: the key or the variable is not there
    Malformed    \* no value: the variable holds no number

\* One field of every way to be read and used stands for the forty there are.
Texts == {"assets_dir"}
Fields == Texts \cup {"ttft_min", "ttft_max"}

ASSUME ConfigurationAssumption ==
    /\ Defaults \in [Fields -> Nat]
    /\ Unset \notin Int /\ Malformed \notin Int

\* What may be written for a field: a number of any sign, or some text.
Values(f) == IF f \in Texts THEN Nat ELSE Int

\* A file that -config or MOCK_CONFIG names, or that none does.  Illegible is
\* what is no JSON, and an unknown key as well.
NoFile == [state |-> "unnamed", settings |-> [f \in Fields |-> Unset]]

IsFile(file) ==
    /\ file.state \in {"unnamed", "missing", "illegible", "legible"}
    /\ \A f \in Fields : file.settings[f] \in Values(f) \cup {Unset}
    /\ file.state # "legible" => \A f \in Fields : file.settings[f] = Unset

\* A start: the two files, the environment, the state of mock-image.png in the
\* assets directory, and whether -healthcheck was given.
IsStart(start) ==
    /\ IsFile(start.arg) /\ IsFile(start.envFile)
    /\ \A f \in Fields : start.env[f] \in Values(f) \cup {Unset, Malformed}
    /\ start.image \in {"absent", "present", "unreadable"}
    /\ start.probe \in BOOLEAN

-----------------------------------------------------------------------------
\* applyFile: a key that is there overrides, be it to zero or below.
ApplyFile(cfg, settings) ==
    [f \in Fields |-> IF settings[f] = Unset THEN cfg[f] ELSE settings[f]]

\* A variable says nothing of its field when it is not there, when it holds no
\* number, and, of a text, when it is empty.
SaysNothing(f, setting) ==
    setting \in {Unset, Malformed} \/ (f \in Texts /\ setting = 0)

\* Seeded fault of ReadEnv: what it falls back to is the built-in default.
ReadEnvFromDefaults(f, setting, below) ==
    IF SaysNothing(f, setting) THEN Defaults[f] ELSE setting

\* envStr, and envInt, envFloat, envBool, envMS and envSec: what says nothing
\* leaves the layer below alone, and every number that parses overrides it.
ReadEnv(f, setting, below) ==
    IF SaysNothing(f, setting) THEN below ELSE setting

ApplyEnv(cfg, env) == [f \in Fields |-> ReadEnv(f, env[f], cfg[f])]

\* LoadConfig's file: the argument goes before the environment variable.
NamedFile(start) ==
    IF start.arg.state # "unnamed" THEN start.arg ELSE start.envFile

\* The configuration LoadConfig resolves when it returns one.
LoadConfig(start) ==
    ApplyEnv(IF NamedFile(start).state = "legible"
             THEN ApplyFile(Defaults, NamedFile(start).settings)
             ELSE Defaults,
             start.env)

\* main up to ListenAndServe: how the start ends.  newAssetStore keeps the
\* built-in asset where the directory has none, and panics on one it cannot read.
Started(start) ==
    LET cfg == LoadConfig(start)
    IN  CASE NamedFile(start).state \in {"missing", "illegible"} -> "config error"
          [] OTHER ->
               CASE start.probe -> "probe"
                 [] ~start.probe /\ cfg["assets_dir"] # 0 /\ start.image = "unreadable" ->
                      "panic"
                 [] OTHER -> "listening"

\* The wait before the first frame of a stream under this configuration.
FirstDelay(cfg, h) == RandomDelay(h, cfg["ttft_min"], cfg["ttft_max"])
-----------------------------------------------------------------------------
\* The layers from the bottom to the top, each with what it says of a field.
Layers(start, f) ==
    << Defaults[f],
       NamedFile(start).settings[f],
       IF f \in Texts /\ start.env[f] = 0 THEN Unset ELSE start.env[f] >>

\* The topmost layer with something to say of a field.
Speaker(start, f) ==
    CHOOSE i \in 1 .. 3 :
        /\ Layers(start, f)[i] \in Int
        /\ \A j \in i + 1 .. 3 : Layers(start, f)[j] \notin Int

\* The three layers resolve as documented: the process does not start exactly if
\* a file was named and cannot be used, or an asset cannot be read by one that
\* would serve it; otherwise every field has the value of the topmost layer that
\* says something legible of it.  A delay stays in its range whenever one layer
\* gave both bounds in order: only layers that know nothing of each other turn a
\* range round, and then the lower bound is waited for, unless it is negative and
\* there is no wait at all.
LayersResolveFor(start) ==
    LET cfg  == LoadConfig(start)
        file == NamedFile(start).state
        low  == Speaker(start, "ttft_min")
        high == Speaker(start, "ttft_max")
    IN  /\ Started(start) = "config error" <=> file \in {"missing", "illegible"}
        /\ Started(start) = "panic" =>
              ~start.probe /\ start.image = "unreadable" /\ cfg["assets_dir"] # 0
        /\ file \in {"unnamed", "legible"} =>
              /\ \A f \in Fields : cfg[f] = Layers(start, f)[Speaker(start, f)]
              /\ \A h \in 0 .. 5 :
                    LET d == FirstDelay(cfg, h)
                    IN  \/ cfg["ttft_min"] <= d /\ d <= cfg["ttft_max"]
                        \/ /\ d = cfg["ttft_min"]
                           /\ low # high \/ Layers(start, "ttft_min")[low]
                                              > Layers(start, "ttft_max")[high]
=============================================================================
