-------------------------- MODULE MCRepeatability --------------------------
(***************************************************************************)
(* Repeatability for TLC: one client with two or three requests, two       *)
(* clients with one each, and three plain requests to one model between    *)
(* two clients.                                                            *)
(***************************************************************************)
EXTENDS Repeatability

CONSTANTS a, b

Both == {a, b}
Models == {"m", "n"}

Load(s, t) == [c \in Both |-> IF c = a THEN s ELSE t]

Ask1(kind) == [kind |-> kind, name |-> "m"]

Alone == {Load(s, << >>) : s \in [1 .. 2 -> Request]}
         \cup {Load(<<Ask1(k), Ask1("stream"), Ask1("chat")>>, << >>) : k \in Kinds}

Beside == {Load(<<Ask1(k)>>, <<q>>) : k \in Kinds, q \in Request}

OneModel == {Load(s, <<Ask1("chat")>>) : s \in [1 .. 2 -> {Ask1("chat"), Ask1("message")}]}

SomeLoads == Alone \cup Beside \cup OneModel
=============================================================================
