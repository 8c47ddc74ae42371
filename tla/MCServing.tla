----------------------------- MODULE MCServing -----------------------------
(***************************************************************************)
(* Serving for TLC.                                                        *)
(***************************************************************************)
EXTENDS Serving

CONSTANTS r1, r2

Two == {r1, r2}

\* Bytes of the parts.  The entry of a gpt-image is that of a tiny override,
\* so that with n = -1 the announced length is positive and wrong; for the
\* other kinds it is negative.
Prefix == [k \in Lists |-> 3]
Entry == [k \in Lists |-> IF k = "gpt-image" THEN 2 ELSE 5]
Suffix == [k \in Lists |-> IF k = "gpt-image" THEN 4 ELSE 1]

Lists2 == [kind : {"image", "gpt-image"}, n : {-1, 0, 1, 2}, multipart : BOOLEAN, rule : {0}]

\* The rule's status: none, an error, one without a body, an informational one.
Others == [kind : {"chat"}, n : {1}, multipart : {FALSE}, rule : {0, 429, 204, 102}]
          \cup [kind : {"speech", "transcription", "video"}, n : {1}, multipart : {FALSE}, rule : {0}]

\* A request of any shape beside a second that is being served.
SomeTraffic ==
    {[r \in Two |-> IF r = r1 THEN q ELSE o] :
        q \in Lists2 \cup Others,
        o \in {[kind |-> "image", n |-> 1, multipart |-> FALSE, rule |-> 0]}}
=============================================================================
