------------------------------ MODULE Capture ------------------------------
(***************************************************************************)
(* The way of a request body through the middleware: logRequest and        *)
(* rebufferBody (server.go), the entry that record makes of it             *)
(* (inspect.go), and what is left for the handler (readBody).              *)
(*                                                                         *)
(* A body is a sequence of bytes: an ASCII letter, NUL, or one of the two  *)
(* bytes of a longer character.                                            *)
(***************************************************************************)
EXTENDS Integers, Sequences, SequencesExt

CONSTANTS ReadLimit,   \* maxBody, 32 MiB
          StoreLimit   \* captureBodyMax, 1 MiB

ASSUME CaptureAssumption == ReadLimit \in Nat /\ StoreLimit \in Nat

Bytes == {"letter", "nul", "lead", "tail"}

\* An upload: arrives is how much comes before the connection fails, and bodyless
\* says it is a GET or a HEAD.
IsUpload(u) ==
    /\ u.sent \in Seq(Bytes) /\ u.arrives \in Nat
    /\ u.bodyless \in BOOLEAN /\ u.multipart \in BOOLEAN

Take(s, n) == SubSeq(s, 1, IF n < Len(s) THEN n ELSE Len(s))

\* utf8.Valid, for characters of one and two bytes.
ValidText(s) ==
    \A i \in DOMAIN s :
        /\ s[i] = "lead" => i < Len(s) /\ s[i + 1] = "tail"
        /\ s[i] = "tail" => i > 1 /\ s[i - 1] = "lead"

\* May record show it as it is?
Shows(s) == ValidText(s) /\ ~Contains(s, "nul")

\* Reading r.Body, a read error being ignored: [data, left], where left is what
\* a later reader of the same r.Body finds.
ReadAll(body) == [data |-> Take(body, ReadLimit), left |-> Take(body, ReadLimit)]

\* Seeded fault of Rebuffer: the copy is not handed back.
RebufferDrained(body) == [ReadAll(body) EXCEPT !.left = SubSeq(body, ReadLimit + 1, Len(body))]

Rebuffer(body) == ReadAll(body)

\* r.Body after logRequest, which does not read what it summarises.
Logged(u) ==
    LET body == Take(u.sent, u.arrives)
    IN  IF u.bodyless \/ u.multipart THEN body ELSE ReadAll(body).left

\* What rebufferBody gives record, and what it leaves the handler to read.
Captured(u) == IF u.bodyless THEN << >> ELSE Rebuffer(Logged(u)).data

HandlerReads(u) ==
    Take(IF u.bodyless THEN Logged(u) ELSE Rebuffer(Logged(u)).left, ReadLimit)

\* The fields record derives from the body; the body stands for its own digest.
Entry(data) ==
    LET stored == Take(data, StoreLimit)
    IN  [bytes |-> Len(data), digest |-> data,
         truncated |-> Len(data) > StoreLimit,
         text |-> IF Shows(stored) THEN stored ELSE << >>,
         base64 |-> IF Shows(stored) THEN << >> ELSE stored]
-----------------------------------------------------------------------------
\* The captured entry is what the handler was given, whole in digest and size,
\* and the handler was given what was sent, unless the connection failed or the
\* body exceeds 32 MiB: then both got the same beginning, and nothing in the
\* entry tells.  The copy is cut at 1 MiB and says so, text is never shown
\* altered, and text is taken for binary only where the cut splits a character.
\* (A body sent with a GET is read by the handler and not captured.)
CaptureIsHonestFor(u) ==
    LET data   == Captured(u)
        entry  == Entry(data)
        stored == entry.text \o entry.base64
    IN  ~u.bodyless =>
          /\ HandlerReads(u) = data /\ entry.digest = data /\ entry.bytes = Len(data)
          /\ IsPrefix(data, u.sent)
          /\ u.arrives >= Len(u.sent) /\ Len(u.sent) <= ReadLimit => data = u.sent
          /\ IsPrefix(stored, data) /\ (entry.truncated <=> stored # data)
          /\ entry.text # << >> => Shows(entry.text)
          /\ Shows(data) /\ entry.base64 # << >> =>
                entry.truncated /\ stored[StoreLimit] = "lead"
=============================================================================
