---------------------------- MODULE MCDecisions ----------------------------
(***************************************************************************)
(* The inputs about which TLC asks Decisions.                              *)
(***************************************************************************)
EXTENDS Decisions

BuiltIn == [assets_dir |-> 0, ttft_min |-> 1, ttft_max |-> 4]

Legible(settings) == [state |-> "legible", settings |-> settings]
Useless == {[NoFile EXCEPT !.state = s] : s \in {"unnamed", "missing", "illegible"}}

Files == Useless \cup
    {Legible([assets_dir |-> d, ttft_min |-> l, ttft_max |-> h]) :
        d \in {Unset, 0, 1}, l \in {Unset, -2, 0, 3}, h \in {Unset, -1, 2}}

MCStarts ==
    [arg : Files, envFile : Useless \cup {Legible([assets_dir |-> 1, ttft_min |-> 0, ttft_max |-> 0])},
     env : {[assets_dir |-> d, ttft_min |-> l, ttft_max |-> h] :
              d \in {Unset, 0, 2}, l \in {Unset, Malformed, -3, 0, 2}, h \in {Unset, Malformed, -1, 0, 3}},
     image : {"absent", "present", "unreadable"}, probe : BOOLEAN]

Bases == {<< >>, <<"v1">>, <<"api", "v1">>, <<"query">>, <<"models">>, <<"paas", "v4">>,
          <<"api", "paas", "v4">>, <<"v1", "projects", "p">>}

\* A call of a Gemini action, of a model with a slash in its name too, and one
\* that names no model.
Calls == {<<<<"models">>, <<m, a>>>> : m \in {"m", ""}, a \in GeminiActions \cup {"embed"}}
    \cup {<<<<"models">>, <<"m">>, <<"n", "countTokens">>>>,
          <<<<"models">>, <<"", "m">>, <<"n">>>>, <<<<"models">>, <<"", "m">>, <<"n", "embed">>>>,
          <<<<"models">>, <<"m", "messages">>>>, <<<<"models">>, <<"m", "n">>, <<"messages">>>>,
          <<<<"p", "q">>, <<"models">>, <<"">>>>}

\* Endpoints of no protocol here, though they end much like one.
Unlisted == {Plain(<<"completions">>), Plain(<<"images", "upscale">>),
             Plain(<<"models", "m">>), Plain(<<"async-result", "id">>)}

MCPaths == {Plain(base) \o ending : base \in Bases,
             ending \in {Plain(d.ending) : d \in Documented} \cup Calls \cup Unlisted}
         \cup {Plain(q.prefix) \o id : q \in Polls,
                 id \in {<< >>, <<<<"id">>>>, <<<<"a", "b">>>>, <<<<"messages">>>>,
                         <<<<"models">>, <<"m", "countTokens">>>>}}

MCBodies ==
    [thinkingModel : BOOLEAN, parts : SUBSET PartKinds, maxTokens : {1},
     thinking : {FALSE}, budget : {NoNumber}, temperature : {NoNumber}]
    \cup [thinkingModel : {FALSE}, parts : {{}}, maxTokens : {NoNumber, 0, 1, 1024, 1025},
          thinking : BOOLEAN, budget : {NoNumber, 1023, 1024, 1025},
          temperature : {NoNumber, 7, 10}]

MCUploads == {u \in [sent : BoundedSeq(Bytes, 4), arrives : 0 .. 4,
                   bodyless : BOOLEAN, multipart : BOOLEAN] : u.arrives <= Len(u.sent)}

MCSettled ==
    [fixed : BOOLEAN, cacheRead : {0, 9}, legacy : {0, 25}, c5m : {0, 30}, c1h : {0, 7},
     imageIn : {0, 11}, imageOut : {0, 12}, audioIn : {0, 13}, audioOut : {0, 14}]

MCExchanges == {x \in [chars : {0, 1, 3, 4, 7, 8}, parts : {1, 2}, bare : BOOLEAN,
                     reply : {0, 5}, reasoning : BOOLEAN] : x.bare => x.parts = 1}

MCInputs == BoundedSeq({NoText, 0, 3, 9}, 3)
=============================================================================
