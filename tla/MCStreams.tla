----------------------------- MODULE MCStreams -----------------------------
(***************************************************************************)
(* Streams for TLC: one request of every shape beside a competitor for     *)
(* numbers of the global sequence.                                         *)
(***************************************************************************)
EXTENDS Streams

CONSTANTS r1, r2

Two == {r1, r2}

TwoTokens == <<"t", " ", "u">>

\* Nothing, two words, and blanks in unusual places.
Replies == {<< >>, <<"a", " ", "b">>, <<" ", "a", " ", " ", "b">>}

\* Every combination of options that a protocol's handler looks at.
Shapes ==
    {q \in [proto : Protocols, stream : {TRUE}, reply : Replies,
            reasoning : BOOLEAN, usage : BOOLEAN, image : BOOLEAN] :
        /\ q.usage => q.proto \in {"openai", "zhipu"}
        /\ q.image => q.proto = "gemini"
        /\ q.reasoning => q.proto # "gemini"}

\* What else is under way: a plain request, a short stream, a Gemini request.
Other(proto, stream) ==
    [proto |-> proto, stream |-> stream, reply |-> << >>, reasoning |-> FALSE,
     usage |-> FALSE, image |-> FALSE]

Others == {Other("openai", FALSE), Other("openai", TRUE), Other("gemini", FALSE)}

\* Every shape beside a plain request; the plain shapes beside every other.
SomeTraffic ==
    {[r \in Two |-> IF r = r1 THEN q ELSE o] :
        q \in Shapes, o \in {Other("openai", FALSE)}}
    \cup
    {[r \in Two |-> IF r = r1 THEN q ELSE o] :
        q \in {s \in Shapes : /\ s.reply = <<"a", " ", "b">>
                              /\ ~s.reasoning /\ ~s.usage /\ ~s.image},
        o \in Others}
=============================================================================
