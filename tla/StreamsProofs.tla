--------------------------- MODULE StreamsProofs ---------------------------
(***************************************************************************)
(* Theorems about Streams, for any set of requests, any traffic, replies    *)
(* and reasoning text and any error rate: a handler that runs always has a *)
(* step left of its script, no number of the global sequence is used for   *)
(* two ids, a handler whose write has failed never writes again, whatever  *)
(* a client has got is a legal beginning of its protocol, and a client     *)
(* that stayed to the end has been told everything.                        *)
(*                                                                         *)
(* The argument has four parts: what the tokens of a text add up to, how   *)
(* each protocol's script is laid out, what a client knows after each step *)
(* of it, and the inductive invariant that ties this to the handlers.      *)
(***************************************************************************)
EXTENDS Streams, CountingLemmas, SequenceTheorems

-----------------------------------------------------------------------------
(* The words of a text.                                                    *)

Letter == STRING \cup {Blank}
Text == Seq(Letter)

Words(text) == Cardinality(WordStarts(text))

LEMMA FunctionLength ==
    ASSUME NEW f, NEW n \in Nat, DOMAIN f = 1 .. n, f = [i \in 1 .. n |-> f[i]]
    PROVE  Len(f) = n
<1>1. f \in [1 .. n -> {f[i] : i \in 1 .. n}]
  OBVIOUS
<1> QED BY <1>1

\* The starts of the words of a text are its first, its second, and so on.
LEMMA StartsInOrder ==
    ASSUME NEW text \in Text
    PROVE  /\ IsFiniteSet(WordStarts(text)) /\ Cardinality(WordStarts(text)) \in Nat
           /\ WordStarts(text) \subseteq 1 .. Len(text) /\ Len(text) \in Nat
           /\ \A k \in 1 .. Cardinality(WordStarts(text)) :
                /\ NthStart(text, k) \in WordStarts(text)
                /\ Cardinality({j \in WordStarts(text) : j <= NthStart(text, k)}) = k
           /\ \A i \in WordStarts(text) :
                \E k \in 1 .. Cardinality(WordStarts(text)) : NthStart(text, k) = i
           /\ \A k, l \in 1 .. Cardinality(WordStarts(text)) :
                k < l => NthStart(text, k) < NthStart(text, l)
<1> DEFINE W == WordStarts(text)
           R == {p \in (1 .. Len(text)) \X (1 .. Len(text)) : p[1] < p[2]}
           c == Cardinality(W)
<1>1. Len(text) \in Nat /\ DOMAIN text = 1 .. Len(text) /\ W \subseteq 1 .. Len(text)
  BY LenProperties DEF Text, WordStarts
<1>2. IsFiniteSet(W) /\ c \in Nat
  <2>1. IsFiniteSet(1 .. Len(text))
    BY <1>1, FS_Interval
  <2>2. W \in SUBSET (1 .. Len(text))
    BY <1>1
  <2>3. IsFiniteSet(W)
    BY <2>1, <2>2, FS_Subset
  <2> QED BY <2>3, FS_CardinalityType
<1>3. \A x, y \in W : <<x, y>> \in R <=> x < y
  BY <1>1
<1>4. W \subseteq Int
  BY <1>1
<1> HIDE DEF W, R
<1>5. Lines(R, W)
  BY <1>3, <1>4 DEF Lines
<1>6. \A x \in W : Rank(R, W, x) = Cardinality({j \in W : j <= x})
  <2>1. TAKE x \in W
  <2>2. \A y \in W : (y = x \/ <<y, x>> \in R) <=> y <= x
    BY <1>3, <1>4
  <2>3. {y \in W : y = x \/ <<y, x>> \in R} = {j \in W : j <= x}
    BY <2>2
  <2> QED BY <2>3 DEF Rank
<1>7. \A k \in 1 .. c : NthStart(text, k) \in W
                        /\ Cardinality({j \in W : j <= NthStart(text, k)}) = k
  <2>1. TAKE k \in 1 .. c
  <2>2. \E x \in W : Cardinality({j \in W : j <= x}) = k
    BY <1>2, <1>5, <1>6, RanksCover
  <2> QED BY <2>2 DEF NthStart, W
<1>8. \A i \in W : \E k \in 1 .. c : NthStart(text, k) = i
  <2>1. TAKE i \in W
  <2>2. PICK k \in 1 .. c : Rank(R, W, i) = k
    BY <1>2, <1>5, RanksCover
  <2>3. NthStart(text, k) \in W /\ Rank(R, W, NthStart(text, k)) = k
    BY <1>6, <1>7
  <2>4. NthStart(text, k) = i
    BY <1>2, <1>5, <2>2, <2>3, RanksCover
  <2> QED BY <2>4
<1>9. \A k, l \in 1 .. c : k < l => NthStart(text, k) < NthStart(text, l)
  <2>1. SUFFICES ASSUME NEW k \in 1 .. c, NEW l \in 1 .. c, k < l,
                        ~ (NthStart(text, k) < NthStart(text, l))
                 PROVE  FALSE
    OBVIOUS
  <2>2. PICK x, y : x = NthStart(text, k) /\ y = NthStart(text, l)
    OBVIOUS
  <2>3. x \in W /\ y \in W /\ Rank(R, W, x) = k /\ Rank(R, W, y) = l
    BY <1>6, <1>7, <2>2
  <2>4. x = y \/ <<y, x>> \in R
    BY <1>3, <1>4, <2>1, <2>2, <2>3
  <2>5. <<y, x>> \in R => l < k
    BY <1>2, <1>5, <2>3, RankGrows
  <2> QED BY <2>1, <2>3, <2>4, <2>5
<1> QED BY <1>1, <1>2, <1>7, <1>8, <1>9 DEF W

LEMMA StartsWithin ==
    ASSUME NEW text \in Text
    PROVE  /\ Words(text) \in Nat /\ Len(text) \in Nat /\ DOMAIN text = 1 .. Len(text)
           /\ \A k \in 1 .. Words(text) :
                NthStart(text, k) \in WordStarts(text) /\ NthStart(text, k) \in 1 .. Len(text)
           /\ \A k, l \in 1 .. Words(text) : k < l => NthStart(text, k) < NthStart(text, l)
<1>1. \A k \in 1 .. Words(text) : NthStart(text, k) \in WordStarts(text)
  BY StartsInOrder DEF Words
<1>2. WordStarts(text) \subseteq 1 .. Len(text) /\ Words(text) \in Nat /\ Len(text) \in Nat
  BY StartsInOrder DEF Words
<1>3. \A k, l \in 1 .. Words(text) : k < l => NthStart(text, k) < NthStart(text, l)
  BY StartsInOrder DEF Words
<1>4. DOMAIN text = 1 .. Len(text)
  BY LenProperties DEF Text
<1> QED BY <1>1, <1>2, <1>3, <1>4

\* Every word has its place in the order: nothing starts between one word and
\* the next, before the first or after the last.
LEMMA NothingBetween ==
    ASSUME NEW text \in Text, NEW i \in WordStarts(text),
           NEW k \in 0 .. Cardinality(WordStarts(text)),
           k > 0 => NthStart(text, k) < i,
           k < Cardinality(WordStarts(text)) => i < NthStart(text, k + 1)
    PROVE  FALSE
<1>1. PICK c \in Nat : c = Cardinality(WordStarts(text))
  BY StartsInOrder
<1>2. PICK l \in 1 .. c : NthStart(text, l) = i
  BY <1>1, StartsInOrder
<1>3. i \in Int /\ \A m \in 1 .. c : NthStart(text, m) \in Int
  <2>1. WordStarts(text) \subseteq Int
    BY StartsInOrder
  <2> QED BY <1>1, <2>1, StartsInOrder
<1>4. CASE l <= k
  <2>1. k \in 1 .. c /\ (l < k => NthStart(text, l) < NthStart(text, k))
    BY <1>1, <1>2, <1>4, StartsInOrder
  <2>2. NthStart(text, k) \in Int /\ NthStart(text, k) < i
    BY <1>3, <2>1
  <2> QED BY <1>2, <1>3, <1>4, <2>1, <2>2
<1>5. CASE l > k
  <2>1. k + 1 \in 1 .. c /\ (k + 1 < l => NthStart(text, k + 1) < NthStart(text, l))
    BY <1>1, <1>2, <1>5, StartsInOrder
  <2>2. NthStart(text, k + 1) \in Int /\ i < NthStart(text, k + 1)
    BY <1>1, <1>3, <1>5, <2>1
  <2> QED BY <1>2, <1>3, <1>5, <2>1, <2>2
<1> QED BY <1>1, <1>2, <1>4, <1>5

\* The word that starts at i ends at e.
Ends(text, i, e) ==
    /\ e \in i .. Len(text)
    /\ \A j \in i .. e : text[j] # Blank
    /\ e < Len(text) => text[e + 1] = Blank

LEMMA WordEnds ==
    ASSUME NEW text \in Text, NEW i \in WordStarts(text)
    PROVE  \E e : Ends(text, i, e) /\ WordAt(text, i) = SubSeq(text, i, e)
<1> DEFINE blank == {j \in i .. Len(text) : text[j] = Blank}
<1>1. Len(text) \in Nat /\ i \in 1 .. Len(text) /\ text[i] # Blank
  BY LenProperties DEF Text, WordStarts
<1>2. CASE blank = {}
  <2>1. WordAt(text, i) = SubSeq(text, i, Len(text))
    BY <1>2 DEF WordAt
  <2>2. Ends(text, i, Len(text))
    BY <1>1, <1>2 DEF Ends
  <2> QED BY <2>1, <2>2
<1>3. CASE blank # {}
  <2> DEFINE b == CHOOSE j \in blank : \A k \in blank : j <= k
  <2>1. b \in blank /\ \A k \in blank : b <= k
    <3> DEFINE f == [j \in blank |-> j]
    <3>1. f \in [blank -> Nat]
      BY <1>1
    <3>2. \E x \in blank : \A y \in blank : f[x] <= f[y]
      <4> HIDE DEF blank, f
      <4> QED BY <1>3, <3>1, LeastMeasure
    <3>3. \E j \in blank : \A k \in blank : j <= k
      BY <3>2
    <3> HIDE DEF blank
    <3> QED BY <3>3
  <2>2. WordAt(text, i) = SubSeq(text, i, b - 1)
    BY <1>3 DEF WordAt
  <2> HIDE DEF b
  <2>3. Ends(text, i, b - 1)
    BY <1>1, <2>1 DEF Ends
  <2> QED BY <2>2, <2>3
<1> QED BY <1>2, <1>3

\* Where it ends is for the text to say.
LEMMA EndUnique ==
    ASSUME NEW text \in Text, NEW i \in WordStarts(text), NEW e, Ends(text, i, e)
    PROVE  WordAt(text, i) = SubSeq(text, i, e)
<1>1. PICK d : Ends(text, i, d) /\ WordAt(text, i) = SubSeq(text, i, d)
  BY WordEnds
<1>2. Len(text) \in Nat /\ i \in 1 .. Len(text)
  BY LenProperties DEF Text, WordStarts
<1>3. d = e
  BY <1>1, <1>2 DEF Ends
<1> QED BY <1>1, <1>3

\* The start with k starts up to it is the k-th.
LEMMA StartByCount ==
    ASSUME NEW text \in Text, NEW i \in WordStarts(text)
    PROVE  NthStart(text, Cardinality({j \in WordStarts(text) : j <= i})) = i
<1>1. PICK k \in 1 .. Cardinality(WordStarts(text)) : NthStart(text, k) = i
  BY StartsInOrder
<1>2. Cardinality({j \in WordStarts(text) : j <= NthStart(text, k)}) = k
  BY StartsInOrder
<1> QED BY <1>1, <1>2

\* A piece of a text is the same piece of another that agrees with it there.
LEMMA SamePiece ==
    ASSUME NEW s \in Text, NEW t \in Text, NEW m \in Int, NEW n \in Int, NEW d \in Int,
           \A i \in m .. n : i \in 1 .. Len(s) /\ i + d \in 1 .. Len(t) /\ s[i] = t[i + d]
    PROVE  SubSeq(s, m, n) = SubSeq(t, m + d, n + d)
<1> DEFINE u == SubSeq(s, m, n)
           v == SubSeq(t, m + d, n + d)
<1>1. \A i \in m .. n : s[i] \in Letter
  BY ElementOfSeq DEF Text
<1>2. \A i \in m + d .. n + d : t[i] \in Letter
  <2>1. TAKE i \in m + d .. n + d
  <2>2. i - d \in m .. n /\ (i - d) + d = i
    OBVIOUS
  <2>3. i \in 1 .. Len(t)
    BY <2>2
  <2> QED BY <2>3, ElementOfSeq DEF Text
<1>3. /\ u \in Seq(Letter) /\ Len(u) = IF m <= n THEN n - m + 1 ELSE 0
      /\ \A i \in 1 .. n - m + 1 : u[i] = s[m + i - 1]
  BY <1>1, SubSeqProperties
<1>4. /\ v \in Seq(Letter)
      /\ Len(v) = IF m + d <= n + d THEN (n + d) - (m + d) + 1 ELSE 0
      /\ \A i \in 1 .. (n + d) - (m + d) + 1 : v[i] = t[(m + d) + i - 1]
  <2>1. PICK a \in Int, e \in Int : a = m + d /\ e = n + d
    OBVIOUS
  <2>2. /\ SubSeq(t, a, e) \in Seq(Letter)
        /\ Len(SubSeq(t, a, e)) = IF a <= e THEN e - a + 1 ELSE 0
        /\ \A i \in 1 .. e - a + 1 : SubSeq(t, a, e)[i] = t[a + i - 1]
    BY <1>2, <2>1, SubSeqProperties
  <2> QED BY <2>1, <2>2
<1> HIDE DEF u, v
<1>5. Len(u) = Len(v)
  BY <1>3, <1>4
<1>6. \A i \in 1 .. Len(u) : u[i] = v[i]
  <2>1. TAKE i \in 1 .. Len(u)
  <2>2. m <= n /\ i \in 1 .. n - m + 1 /\ i \in 1 .. (n + d) - (m + d) + 1
    BY <1>3
  <2>3. u[i] = s[m + i - 1] /\ v[i] = t[(m + i - 1) + d]
    <3>1. (m + d) + i - 1 = (m + i - 1) + d
      BY <2>2
    <3> QED BY <1>3, <1>4, <2>2, <3>1
  <2>4. m + i - 1 \in m .. n
    BY <2>2
  <2> QED BY <2>3, <2>4
<1> QED BY <1>3, <1>4, <1>5, <1>6, SeqEqual DEF u, v

\* Another word, after a blank: the words before it stay what they were.
LEMMA AnotherWord ==
    ASSUME NEW heard \in Text, NEW w \in Text, NEW h \in Text,
           heard # << >> => heard[Len(heard)] = Blank,
           Len(w) > 0, \A i \in 1 .. Len(w) : w[i] # Blank,
           Len(h) \in Len(heard) + Len(w) .. Len(heard) + Len(w) + 1,
           \A i \in 1 .. Len(heard) : h[i] = heard[i],
           \A i \in 1 .. Len(w) : h[Len(heard) + i] = w[i],
           Len(h) > Len(heard) + Len(w) => h[Len(h)] = Blank
    PROVE  /\ Words(h) = Words(heard) + 1
           /\ \A k \in 1 .. Words(heard) : Fields(h)[k] = Fields(heard)[k]
           /\ Fields(h)[Words(heard) + 1] = w
<1> DEFINE W == WordStarts(heard)
           V == WordStarts(h)
<1>1. PICK n, m, l : n = Len(heard) /\ m = Len(w) /\ l = Len(h)
  OBVIOUS
<1>2. /\ n \in Nat /\ m \in Nat \ {0} /\ l \in {n + m, n + m + 1}
      /\ DOMAIN heard = 1 .. n /\ DOMAIN h = 1 .. l
      /\ n > 0 => heard[n] = Blank
  <2>1. n \in Nat /\ m \in Nat /\ DOMAIN heard = 1 .. n /\ DOMAIN h = 1 .. l /\ l \in Nat
    BY <1>1, LenProperties DEF Text
  <2>2. n > 0 => heard # << >>
    BY <1>1
  <2> QED BY <1>1, <2>1, <2>2
<1>3. /\ \A i \in 1 .. n : h[i] = heard[i]
      /\ \A i \in n + 1 .. n + m : h[i] = w[i - n] /\ h[i] # Blank
      /\ l = n + m + 1 => h[l] = Blank
  <2>1. ASSUME NEW i \in n + 1 .. n + m PROVE h[i] = w[i - n] /\ h[i] # Blank
    <3>1. i - n \in 1 .. m /\ n + (i - n) = i
      BY <1>2
    <3> QED BY <1>1, <3>1
  <2> QED BY <1>1, <1>2, <2>1
<1>4. V = W \cup {n + 1} /\ n + 1 \notin W /\ W \subseteq 1 .. n
  <2>1. ASSUME NEW i \in 1 .. n PROVE i \in V <=> i \in W
    BY <1>2, <1>3 DEF WordStarts
  <2>2. n + 1 \in V
    BY <1>2, <1>3 DEF WordStarts
  <2>3. ASSUME NEW i \in n + 2 .. l PROVE i \notin V
    BY <1>2, <1>3 DEF WordStarts
  <2>4. V \subseteq 1 .. l /\ W \subseteq 1 .. n
    BY <1>2 DEF WordStarts
  <2>5. \A i \in V : i \in 1 .. n \/ i = n + 1
    BY <1>2, <2>3, <2>4
  <2>6. W \subseteq V
    BY <2>1, <2>4
  <2> QED BY <1>2, <2>1, <2>2, <2>4, <2>5, <2>6
<1>5. PICK c \in Nat : c = Cardinality(W) /\ IsFiniteSet(W)
  BY StartsInOrder
<1> HIDE DEF W, V
<1>6. Cardinality(V) = c + 1 /\ IsFiniteSet(V)
  BY <1>4, <1>5, FS_AddElement
<1>7. ASSUME NEW k \in 1 .. c PROVE Fields(h)[k] = Fields(heard)[k]
  <2>1. PICK i \in W : i = NthStart(heard, k) /\ Cardinality({j \in W : j <= i}) = k
    BY <1>5, StartsInOrder DEF W
  <2>2. i \in V /\ i \in 1 .. n
    BY <1>4
  <2>3. {j \in V : j <= i} = {j \in W : j <= i}
    <3>1. \A j \in V : j <= i => j \in W
      BY <1>2, <1>4, <2>2
    <3> QED BY <1>4, <3>1
  <2>4. NthStart(h, k) = i
    BY <2>1, <2>2, <2>3, StartByCount DEF V
  <2>5. PICK e : Ends(heard, i, e) /\ WordAt(heard, i) = SubSeq(heard, i, e)
    BY WordEnds DEF W
  <2>6. e \in i .. n - 1 /\ heard[e + 1] = Blank
    BY <1>1, <1>2, <2>2, <2>5 DEF Ends
  <2>7. Ends(h, i, e)
    <3>1. e \in i .. l /\ e + 1 \in 1 .. n
      BY <1>2, <2>2, <2>6
    <3>2. \A j \in i .. e : j \in 1 .. n /\ heard[j] # Blank
      BY <1>2, <2>2, <2>5, <2>6 DEF Ends
    <3>3. \A j \in i .. e : h[j] # Blank
      BY <1>3, <3>2
    <3>4. h[e + 1] = Blank
      BY <1>3, <2>6, <3>1
    <3> QED BY <1>1, <3>1, <3>3, <3>4 DEF Ends
  <2>8. SubSeq(heard, i, e) = SubSeq(h, i, e)
    <3>1. \A j \in i .. e : j \in 1 .. Len(heard) /\ j + 0 \in 1 .. Len(h) /\ heard[j] = h[j + 0]
      BY <1>1, <1>2, <1>3, <2>2, <2>6
    <3>2. i \in Int /\ e \in Int /\ i + 0 = i /\ e + 0 = e
      BY <2>2, <2>6
    <3>3. SubSeq(heard, i, e) = SubSeq(h, i + 0, e + 0)
      BY <3>1, <3>2, SamePiece
    <3> QED BY <3>2, <3>3
  <2>9. WordAt(h, i) = WordAt(heard, i)
    BY <2>2, <2>5, <2>7, <2>8, EndUnique DEF V
  <2> QED BY <1>5, <1>6, <2>1, <2>4, <2>9 DEF Fields, W, V
<1>8. Fields(h)[c + 1] = w
  <2>1. {j \in V : j <= n + 1} = V /\ n + 1 \in V
    <3>1. \A j \in V : j <= n + 1
      BY <1>2, <1>4
    <3> QED BY <1>4, <3>1
  <2>2. NthStart(h, c + 1) = n + 1
    BY <1>6, <2>1, StartByCount DEF V
  <2>3. Ends(h, n + 1, n + m)
    BY <1>1, <1>2, <1>3 DEF Ends
  <2>4. WordAt(h, n + 1) = SubSeq(h, n + 1, n + m)
    BY <2>1, <2>3, EndUnique DEF V
  <2>5. SubSeq(w, 1, m) = SubSeq(h, n + 1, n + m)
    <3>1. \A j \in 1 .. m : j \in 1 .. Len(w) /\ j + n \in 1 .. Len(h) /\ w[j] = h[j + n]
      BY <1>1, <1>2
    <3>2. 1 + n = n + 1 /\ m + n = n + m /\ n \in Int /\ m \in Int
      BY <1>2
    <3>3. SubSeq(w, 1, m) = SubSeq(h, 1 + n, m + n)
      BY <3>1, <3>2, SamePiece
    <3> QED BY <3>2, <3>3
  <2>6. SubSeq(w, 1, m) = w
    BY <1>1, SubSeqFull DEF Text
  <2>7. c + 1 \in 1 .. Cardinality(V)
    BY <1>6
  <2> QED BY <2>2, <2>4, <2>5, <2>6, <2>7 DEF Fields, V
<1> QED BY <1>5, <1>6, <1>7, <1>8 DEF W, V, Words

-----------------------------------------------------------------------------
(* What the first tokens of a text come to.                                *)

\* heard is what j tokens of text add up to: its words, in order, and a blank
\* to keep the next one apart; a beginning of the text if that is Spaced.
Told(text, j, heard) ==
    /\ heard \in Text
    /\ Words(heard) = j
    /\ \A k \in 1 .. j : Fields(heard)[k] = Fields(text)[k]
    /\ j = 0 => heard = << >>
    /\ j < Words(text) /\ heard # << >> => heard[Len(heard)] = Blank
    /\ Spaced(text) =>
          /\ Len(heard) <= Len(text)
          /\ \A i \in 1 .. Len(heard) : heard[i] = text[i]
          /\ j < Words(text) => NthStart(text, j + 1) = Len(heard) + 1
          /\ j = Words(text) => Len(heard) = Len(text)

\* In a text that is Spaced the first word starts at once.
LEMMA NothingTold ==
    ASSUME NEW text \in Text
    PROVE  Told(text, 0, << >>)
<1>1. WordStarts(<< >>) = {} /\ << >> \in Text /\ Len(<< >>) = 0
  BY DEF WordStarts, Text
<1>2. Words(<< >>) = 0
  BY <1>1, FS_EmptySet DEF Words
<1>3. PICK n \in Nat : n = Words(text) /\ Len(text) \in Nat /\ WordStarts(text) \subseteq Int
  BY StartsInOrder DEF Words
<1>4. ASSUME Spaced(text), Len(text) > 0
      PROVE  n > 0 /\ NthStart(text, 1) = 1
  <2>1. 1 \in WordStarts(text)
    <3>1. 1 \in DOMAIN text
      BY <1>3, <1>4, StartsWithin
    <3> QED BY <1>4, <3>1 DEF Spaced, WordStarts
  <2>2. PICK k \in 1 .. n : NthStart(text, k) = 1
    BY <1>3, <2>1, StartsInOrder DEF Words
  <2>3. 1 \in 1 .. n /\ NthStart(text, 1) \in 1 .. Len(text)
        /\ (1 < k => NthStart(text, 1) < NthStart(text, k))
    BY <1>3, <2>2, StartsWithin
  <2> QED BY <1>3, <2>2, <2>3
<1>5. Spaced(text) /\ n > 0 => Len(text) > 0
  <2>1. n > 0 => NthStart(text, 1) \in 1 .. Len(text)
    BY <1>3, StartsWithin
  <2> QED BY <1>3, <2>1
<1> QED BY <1>1, <1>2, <1>3, <1>4, <1>5 DEF Told

\* All told: the words of the text, and the text itself if it is Spaced.
LEMMA AllTold ==
    ASSUME NEW text \in Text, NEW heard, Told(text, Words(text), heard)
    PROVE  Fields(heard) = Fields(text) /\ (Spaced(text) => heard = text)
<1>1. /\ heard \in Text /\ Words(heard) = Words(text)
      /\ \A k \in 1 .. Words(text) : Fields(heard)[k] = Fields(text)[k]
  BY DEF Told
<1>2. Fields(heard) = Fields(text)
  BY <1>1 DEF Fields, Words
<1>3. ASSUME Spaced(text) PROVE heard = text
  <2>1. Len(heard) = Len(text) /\ \A i \in 1 .. Len(heard) : heard[i] = text[i]
    BY <1>3 DEF Told
  <2> QED BY <1>1, <2>1, SeqEqual DEF Text
<1> QED BY <1>2, <1>3

\* A word has letters and no blanks, and its token is the word and at most one
\* blank.
IsToken(text, k, w, token, i) ==
    /\ w \in Text /\ Len(w) \in Nat \ {0}
    /\ i \in 1 .. Len(text) /\ i \in WordStarts(text)
    /\ Ends(text, i, i + Len(w) - 1)
    /\ \A m \in 1 .. Len(w) : w[m] # Blank /\ w[m] = text[i + m - 1]
    /\ token \in Text
    /\ Len(token) = Len(w) + (IF k < Words(text) THEN 1 ELSE 0)
    /\ \A m \in 1 .. Len(w) : token[m] = w[m]
    /\ k < Words(text) => token[Len(token)] = Blank

LEMMA TokenOfWord ==
    ASSUME NEW text \in Text, NEW k \in 1 .. Words(text)
    PROVE  IsToken(text, k, Fields(text)[k], SplitTokens(text)[k], NthStart(text, k))
<1> DEFINE w == Fields(text)[k]
           token == SplitTokens(text)[k]
<1>1. PICK i \in WordStarts(text) : i = NthStart(text, k)
  BY StartsInOrder DEF Words
<1>2. i \in 1 .. Len(text) /\ Len(text) \in Nat /\ Words(text) \in Nat
  BY StartsInOrder DEF Words
<1>3. w = WordAt(text, i)
  BY <1>1 DEF Fields, Words
<1>4. PICK e : Ends(text, i, e) /\ WordAt(text, i) = SubSeq(text, i, e)
  BY WordEnds
<1>5. e \in i .. Len(text) /\ \A j \in i .. e : text[j] # Blank /\ text[j] \in Letter
  <2>1. e \in i .. Len(text) /\ \A j \in i .. e : text[j] # Blank
    BY <1>4 DEF Ends
  <2>2. \A j \in i .. e : j \in 1 .. Len(text)
    BY <1>2, <2>1
  <2> QED BY <2>1, <2>2, ElementOfSeq DEF Text
<1>6. /\ w \in Seq(Letter) /\ Len(w) = e - i + 1
      /\ \A m \in 1 .. e - i + 1 : w[m] = text[i + m - 1]
  <2>1. i \in Int /\ e \in Int /\ i <= e
    BY <1>2, <1>5
  <2> QED BY <1>3, <1>4, <1>5, <2>1, SubSeqProperties
<1>7. /\ Len(w) \in Nat \ {0} /\ e = i + Len(w) - 1
      /\ \A m \in 1 .. Len(w) : w[m] # Blank /\ w[m] = text[i + m - 1]
  <2>1. \A m \in 1 .. e - i + 1 : i + m - 1 \in i .. e
    BY <1>2, <1>5
  <2>2. e - i + 1 \in Nat \ {0} /\ e = i + (e - i + 1) - 1
    BY <1>2, <1>5
  <2>3. \A m \in 1 .. e - i + 1 : w[m] # Blank /\ w[m] = text[i + m - 1]
    BY <1>5, <1>6, <2>1
  <2>4. Len(w) = e - i + 1
    BY <1>6
  <2> HIDE DEF w
  <2> QED BY <2>2, <2>3, <2>4
<1>8. token = IF k < Words(text) THEN Append(w, Blank) ELSE w
  <2>1. DOMAIN Fields(text) = 1 .. Words(text)
    BY DEF Fields, Words
  <2>2. Fields(text) = [j \in 1 .. Words(text) |-> Fields(text)[j]]
    BY DEF Fields, Words
  <2>3. Len(Fields(text)) = Words(text)
    BY <1>2, <2>1, <2>2, FunctionLength
  <2> QED BY <2>1, <2>3 DEF SplitTokens
<1> HIDE DEF w, token
<1>9. /\ token \in Text
      /\ Len(token) = Len(w) + (IF k < Words(text) THEN 1 ELSE 0)
      /\ \A m \in 1 .. Len(w) : token[m] = w[m]
      /\ k < Words(text) => token[Len(token)] = Blank
  <2>1. CASE k < Words(text)
    <3>1. token = Append(w, Blank)
      BY <1>8, <2>1
    <3>2. Blank \in Letter
      BY DEF Letter
    <3>3. /\ token \in Seq(Letter) /\ Len(token) = Len(w) + 1
          /\ \A m \in 1 .. Len(w) : token[m] = w[m]
          /\ token[Len(w) + 1] = Blank
      BY <1>6, <3>1, <3>2, AppendProperties
    <3> QED BY <2>1, <3>3 DEF Text
  <2>2. CASE ~ (k < Words(text))
    BY <1>6, <1>7, <1>8, <2>2 DEF Text
  <2> QED BY <2>1, <2>2
<1> QED BY <1>1, <1>2, <1>4, <1>6, <1>7, <1>9 DEF w, token, Text, IsToken

\* One token more.
LEMMA TokenTold ==
    ASSUME NEW text \in Text, NEW j \in Nat, j < Words(text), NEW heard, Told(text, j, heard)
    PROVE  Told(text, j + 1, heard \o SplitTokens(text)[j + 1])
<1>1. PICK w, token, i, n, s : /\ w = Fields(text)[j + 1] /\ token = SplitTokens(text)[j + 1]
                               /\ i = NthStart(text, j + 1) /\ n = Words(text)
                               /\ s = heard \o token
  OBVIOUS
<1>2. n \in Nat /\ j + 1 \in 1 .. n /\ heard \in Text /\ Len(heard) \in Nat
      /\ Len(text) \in Nat
  BY <1>1, StartsInOrder, LenProperties DEF Words, Told, Text
<1>3. /\ w \in Text /\ Len(w) \in Nat \ {0}
      /\ i \in 1 .. Len(text) /\ i \in WordStarts(text)
      /\ Ends(text, i, i + Len(w) - 1)
      /\ \A m \in 1 .. Len(w) : w[m] # Blank /\ w[m] = text[i + m - 1]
      /\ token \in Text
      /\ Len(token) = Len(w) + (IF j + 1 < n THEN 1 ELSE 0)
      /\ \A m \in 1 .. Len(w) : token[m] = w[m]
      /\ j + 1 < n => token[Len(token)] = Blank
  <2>1. IsToken(text, j + 1, w, token, i)
    BY <1>1, <1>2, TokenOfWord
  <2> QED BY <1>1, <2>1 DEF IsToken
<1>4. /\ s \in Text /\ Len(s) = Len(heard) + Len(token) /\ Len(token) \in Nat
      /\ \A m \in 1 .. Len(heard) : s[m] = heard[m]
      /\ \A m \in 1 .. Len(token) : s[Len(heard) + m] = token[m]
  <2>1. /\ s \in Seq(Letter) /\ Len(s) = Len(heard) + Len(token) /\ Len(token) \in Nat
        /\ \A m \in 1 .. Len(heard) + Len(token) :
              s[m] = IF m <= Len(heard) THEN heard[m] ELSE token[m - Len(heard)]
    <3>1. heard \in Seq(Letter) /\ token \in Seq(Letter)
      BY <1>2, <1>3 DEF Text
    <3>2. Len(token) \in Nat
      BY <3>1, LenProperties
    <3> QED BY <1>1, <3>1, <3>2, ConcatProperties
  <2>2. ASSUME NEW m \in 1 .. Len(token) PROVE s[Len(heard) + m] = token[m]
    <3>1. /\ Len(heard) + m \in 1 .. Len(heard) + Len(token)
          /\ ~ (Len(heard) + m <= Len(heard)) /\ (Len(heard) + m) - Len(heard) = m
      BY <1>2, <2>1
    <3> QED BY <2>1, <3>1
  <2> QED BY <1>2, <2>1, <2>2 DEF Text
<1>5. /\ Words(s) = j + 1
      /\ \A k \in 1 .. j : Fields(s)[k] = Fields(heard)[k]
      /\ Fields(s)[j + 1] = w
  <2>1. heard # << >> => heard[Len(heard)] = Blank
    BY DEF Told
  <2>2. Len(s) \in Len(heard) + Len(w) .. Len(heard) + Len(w) + 1
    BY <1>2, <1>3, <1>4
  <2>3. \A m \in 1 .. Len(w) : s[Len(heard) + m] = w[m]
    BY <1>2, <1>3, <1>4
  <2>4. Len(s) > Len(heard) + Len(w) => s[Len(s)] = Blank
    <3>1. SUFFICES ASSUME Len(s) > Len(heard) + Len(w) PROVE s[Len(s)] = Blank
      OBVIOUS
    <3>2. j + 1 < n /\ Len(token) \in 1 .. Len(token)
      BY <1>2, <1>3, <1>4, <3>1
    <3> QED BY <1>3, <1>4, <3>2
  <2>5. Words(heard) = j
    BY DEF Told
  <2>6. /\ Len(w) > 0 /\ \A m \in 1 .. Len(w) : w[m] # Blank
        /\ \A m \in 1 .. Len(heard) : s[m] = heard[m]
    BY <1>3, <1>4
  <2>7. /\ Words(s) = Words(heard) + 1
        /\ \A k \in 1 .. Words(heard) : Fields(s)[k] = Fields(heard)[k]
        /\ Fields(s)[Words(heard) + 1] = w
    <3>1. heard \in Text /\ w \in Text /\ s \in Text
      BY <1>2, <1>3, <1>4
    <3> QED BY <2>1, <2>2, <2>3, <2>4, <2>6, <3>1, AnotherWord
  <2> QED BY <2>5, <2>7
<1>6. \A k \in 1 .. j + 1 : Fields(s)[k] = Fields(text)[k]
  <2>1. \A k \in 1 .. j + 1 : k \in 1 .. j \/ k = j + 1
    OBVIOUS
  <2> QED BY <1>1, <1>5, <2>1 DEF Told
<1>7. j + 1 < n => s[Len(s)] = Blank
  <2>1. SUFFICES ASSUME j + 1 < n PROVE s[Len(s)] = Blank
    OBVIOUS
  <2>2. Len(token) \in 1 .. Len(token) /\ token[Len(token)] = Blank
    BY <1>3, <1>4, <2>1
  <2> QED BY <1>4, <2>2
<1>8. ASSUME Spaced(text)
      PROVE  /\ Len(s) <= Len(text)
             /\ \A m \in 1 .. Len(s) : s[m] = text[m]
             /\ j + 1 < n => NthStart(text, j + 2) = Len(s) + 1
             /\ j + 1 = n => Len(s) = Len(text)
  <2>1. /\ Len(heard) <= Len(text) /\ i = Len(heard) + 1
        /\ \A m \in 1 .. Len(heard) : heard[m] = text[m]
    <3>1. /\ Len(heard) <= Len(text) /\ \A m \in 1 .. Len(heard) : heard[m] = text[m]
          /\ NthStart(text, j + 1) = Len(heard) + 1
      BY <1>8 DEF Told
    <3> QED BY <1>1, <3>1
  <2>2. PICK e \in Int : e = i + Len(w) - 1
    <3>1. i \in Int /\ Len(w) \in Int
      BY <1>2, <1>3
    <3>2. i + Len(w) - 1 \in Int
      BY <3>1
    <3> QED BY <3>2
  <2>3. /\ e \in i .. Len(text) /\ \A m \in i .. e : text[m] # Blank
        /\ e < Len(text) => text[e + 1] = Blank
    BY <1>3, <2>2 DEF Ends
  <2>4. e < Len(text) => e + 2 \in WordStarts(text) /\ e + 2 \in 1 .. Len(text)
    <3>1. SUFFICES ASSUME e < Len(text) PROVE e + 2 \in WordStarts(text) /\ e + 2 \in 1 .. Len(text)
      OBVIOUS
    <3>2. DOMAIN text = 1 .. Len(text) /\ e + 1 \in 1 .. Len(text) /\ text[e + 1] = Blank
      BY <1>2, <1>3, <2>3, <3>1, LenProperties DEF Text
    <3>3. (e + 1) + 1 \in 1 .. Len(text) /\ text[(e + 1) + 1] # Blank
      BY <1>8, <3>2 DEF Spaced
    <3>4. (e + 1) + 1 = e + 2 /\ (e + 2) - 1 = e + 1
      OBVIOUS
    <3> QED BY <3>2, <3>3, <3>4 DEF WordStarts
  <2>5. \A m \in 1 .. Len(w) : s[Len(heard) + m] = text[Len(heard) + m]
    <3>1. TAKE m \in 1 .. Len(w)
    <3>2. i + m - 1 = Len(heard) + m /\ m \in 1 .. Len(token)
      BY <1>2, <1>3, <1>4, <2>1
    <3> QED BY <1>3, <1>4, <3>2
  <2>6. \A m \in 1 .. e : s[m] = text[m]
    <3>1. TAKE m \in 1 .. e
    <3>2. m \in 1 .. Len(heard) \/ (m - Len(heard) \in 1 .. Len(w) /\ Len(heard) + (m - Len(heard)) = m)
      BY <1>2, <1>3, <2>1, <2>2
    <3> QED BY <1>4, <2>1, <2>5, <3>2
  <2>7. CASE j + 1 < n
    <3>1. PICK k \in WordStarts(text) : k = NthStart(text, j + 2) /\ i < k
      <4>1. j + 2 \in 1 .. n /\ j + 1 < j + 2
        BY <1>2, <2>7
      <4> QED BY <1>1, <1>2, <4>1, StartsWithin
    <3>2. k \in 1 .. Len(text) /\ text[k] # Blank /\ text[k - 1] = Blank
      BY <1>2, <1>3, <3>1, LenProperties DEF WordStarts, Text
    <3>3. k - 1 \notin i .. e
      BY <2>3, <3>2
    <3>4. k > e + 1
      BY <1>2, <1>3, <2>3, <3>1, <3>2, <3>3
    <3>5. e < Len(text) /\ text[e + 1] = Blank
      BY <1>2, <2>3, <3>2, <3>4
    <3>6. k = e + 2
      <4>1. SUFFICES ASSUME e + 2 < k PROVE FALSE
        BY <3>2, <3>4
      <4>2. PICK a \in WordStarts(text) : a = e + 2
        BY <2>4, <3>5
      <4>3. /\ j + 1 \in 0 .. Cardinality(WordStarts(text)) /\ NthStart(text, j + 1) < a
            /\ a < NthStart(text, (j + 1) + 1)
        <5>1. (j + 1) + 1 = j + 2
          OBVIOUS
        <5>2. i < a
          BY <1>2, <1>3, <2>3, <4>2
        <5> QED BY <1>1, <1>2, <3>1, <4>1, <4>2, <5>1, <5>2 DEF Words
      <4> QED BY <4>3, NothingBetween
    <3>7. Len(s) = e + 1
      BY <1>2, <1>3, <1>4, <2>1, <2>2, <2>7
    <3>8. s[e + 1] = Blank
      BY <1>7, <2>7, <3>7
    <3>9. \A m \in 1 .. Len(s) : s[m] = text[m]
      <4>1. \A m \in 1 .. Len(s) : m \in 1 .. e \/ m = e + 1
        BY <3>7
      <4> QED BY <2>6, <3>5, <3>8, <4>1
    <3> QED BY <1>2, <2>7, <3>1, <3>5, <3>6, <3>7, <3>9
  <2>8. CASE j + 1 = n
    <3>1. e = Len(text)
      <4>1. SUFFICES ASSUME e < Len(text) PROVE FALSE
        BY <1>2, <2>3
      <4>2. PICK a \in WordStarts(text) : a = e + 2
        BY <2>4, <4>1
      <4>3. i < a
        BY <1>2, <1>3, <2>3, <4>2
      <4>4. /\ j + 1 \in 0 .. Cardinality(WordStarts(text)) /\ NthStart(text, j + 1) < a
            /\ ~ (j + 1 < Cardinality(WordStarts(text)))
        BY <1>1, <1>2, <2>8, <4>3 DEF Words
      <4> QED BY <4>4, NothingBetween
    <3>2. Len(s) = e
      BY <1>2, <1>3, <1>4, <2>1, <2>2, <2>8
    <3> QED BY <1>2, <2>6, <2>8, <3>1, <3>2
  <2> QED BY <1>2, <2>7, <2>8
<1>9. (j + 1) + 1 = j + 2 /\ j + 1 # 0
  OBVIOUS
<1> QED BY <1>1, <1>4, <1>5, <1>6, <1>7, <1>8, <1>9 DEF Told

-----------------------------------------------------------------------------
(* Scripts: where each part of a concatenation stands.                     *)

IsSequence(s) == \E S : s \in Seq(S)

\* s continues with part after its first b steps.
Placed(s, b, part) ==
    /\ b + Len(part) <= Len(s)
    /\ \A i \in 1 .. Len(part) : s[b + i] = part[i]

LEMMA Concatenated ==
    ASSUME NEW s, NEW t, IsSequence(s), IsSequence(t)
    PROVE  /\ IsSequence(s \o t) /\ Len(s \o t) = Len(s) + Len(t)
           /\ Len(s) \in Nat /\ Len(t) \in Nat
           /\ Placed(s \o t, Len(s), t)
           /\ \A part : \A b \in Nat : Len(part) \in Nat /\ Placed(s, b, part) => Placed(s \o t, b, part)
<1>1. PICK S : s \in Seq(S)
  BY DEF IsSequence
<1>2. PICK T : t \in Seq(T)
  BY DEF IsSequence
<1>3. s \in Seq(S \cup T) /\ t \in Seq(S \cup T)
  BY <1>1, <1>2, SeqMonotonic
<1>4. PICK l, m, u : l = Len(s) /\ m = Len(t) /\ u = s \o t
  OBVIOUS
<1>5. /\ u \in Seq(S \cup T) /\ Len(u) = l + m /\ l \in Nat /\ m \in Nat
      /\ \A i \in 1 .. l + m : u[i] = IF i <= l THEN s[i] ELSE t[i - l]
  BY <1>3, <1>4, ConcatProperties, LenProperties
<1>6. Placed(u, l, t)
  <2>1. ASSUME NEW i \in 1 .. m PROVE u[l + i] = t[i]
    <3>1. l + i \in 1 .. l + m /\ ~ (l + i <= l) /\ (l + i) - l = i
      BY <1>5
    <3> QED BY <1>5, <3>1
  <2> QED BY <1>4, <1>5, <2>1 DEF Placed
<1>7. ASSUME NEW b \in Nat, NEW part, Len(part) \in Nat, Placed(s, b, part)
      PROVE  Placed(u, b, part)
  <2>1. b + Len(part) <= l
    BY <1>4, <1>7 DEF Placed
  <2>2. ASSUME NEW i \in 1 .. Len(part) PROVE u[b + i] = part[i]
    <3>1. b + i \in 1 .. l + m /\ b + i <= l
      BY <1>5, <1>7, <2>1
    <3>2. u[b + i] = s[b + i]
      BY <1>5, <3>1
    <3> QED BY <1>7, <3>2 DEF Placed
  <2> QED BY <1>5, <1>7, <2>1, <2>2 DEF Placed
<1> QED BY <1>4, <1>5, <1>6, <1>7 DEF IsSequence

LEMMA Literals ==
    /\ IsSequence(<< >>) /\ Len(<< >>) = 0
    /\ \A a : IsSequence(<<a>>) /\ Len(<<a>>) = 1 /\ <<a>>[1] = a
    /\ \A a, b : IsSequence(<<a, b>>) /\ Len(<<a, b>>) = 2
    /\ \A a, b, c : IsSequence(<<a, b, c>>) /\ Len(<<a, b, c>>) = 3
    /\ \A a, b, c, d : IsSequence(<<a, b, c, d>>) /\ Len(<<a, b, c, d>>) = 4
<1>1. << >> \in Seq({}) /\ Len(<< >>) = 0
  OBVIOUS
<1>2. \A a : <<a>> \in Seq({a}) /\ Len(<<a>>) = 1 /\ <<a>>[1] = a
  OBVIOUS
<1>3. \A a, b : <<a, b>> \in Seq({a, b}) /\ Len(<<a, b>>) = 2
  OBVIOUS
<1>4. \A a, b, c : <<a, b, c>> \in Seq({a, b, c}) /\ Len(<<a, b, c>>) = 3
  OBVIOUS
<1>5. \A a, b, c, d : <<a, b, c, d>> \in Seq({a, b, c, d}) /\ Len(<<a, b, c, d>>) = 4
  OBVIOUS
<1> QED BY <1>1, <1>2, <1>3, <1>4, <1>5 DEF IsSequence

\* The parts of s that are written out.
LEMMA PlacedLiterals ==
    ASSUME NEW s, NEW b \in Nat
    PROVE  /\ \A a : Placed(s, b, <<a>>) => s[b + 1] = a
           /\ \A a, c : Placed(s, b, <<a, c>>) => s[b + 1] = a /\ s[b + 2] = c
           /\ \A a, c, d : Placed(s, b, <<a, c, d>>) =>
                 s[b + 1] = a /\ s[b + 2] = c /\ s[b + 3] = d
           /\ \A a, c, d, e : Placed(s, b, <<a, c, d, e>>) =>
                 s[b + 1] = a /\ s[b + 2] = c /\ s[b + 3] = d /\ s[b + 4] = e
<1>1. ASSUME NEW a, Placed(s, b, <<a>>) PROVE s[b + 1] = a
  BY <1>1 DEF Placed
<1>2. ASSUME NEW a, NEW c, Placed(s, b, <<a, c>>) PROVE s[b + 1] = a /\ s[b + 2] = c
  BY <1>2 DEF Placed
<1>3. ASSUME NEW a, NEW c, NEW d, Placed(s, b, <<a, c, d>>)
      PROVE  s[b + 1] = a /\ s[b + 2] = c /\ s[b + 3] = d
  BY <1>3 DEF Placed
<1>4. ASSUME NEW a, NEW c, NEW d, NEW e, Placed(s, b, <<a, c, d, e>>)
      PROVE  s[b + 1] = a /\ s[b + 2] = c /\ s[b + 3] = d /\ s[b + 4] = e
  BY <1>4 DEF Placed
<1> QED BY <1>1, <1>2, <1>3, <1>4

LEMMA FourLiterals ==
    ASSUME NEW a, NEW c, NEW d, NEW e
    PROVE  /\ IsSequence(<<a, c, d, e>>) /\ Len(<<a, c, d, e>>) = 4
           /\ \A s, b : b \in Nat /\ Placed(s, b, <<a, c, d, e>>) =>
                 s[b + 1] = a /\ s[b + 2] = c /\ s[b + 3] = d /\ s[b + 4] = e
BY Literals, PlacedLiterals

\* After its first b steps s waits and sends, n times, a token of text.
Talks(s, b, n, index, kind, text) ==
    /\ b + 2 * n <= Len(s)
    /\ \A k \in 1 .. n :
         /\ s[b + 2 * k - 1] = Wait
         /\ s[b + 2 * k] = Send(Frame("delta", index, kind, SplitTokens(text)[k]))

LEMMA TokensLength ==
    ASSUME NEW text \in Text
    PROVE  Len(SplitTokens(text)) = Words(text) /\ Words(text) \in Nat
<1>1. Words(text) \in Nat
  BY StartsWithin
<1>2. DOMAIN Fields(text) = 1 .. Words(text)
  BY DEF Fields, Words
<1>3. SplitTokens(text) = [k \in 1 .. Words(text) |-> SplitTokens(text)[k]]
      /\ DOMAIN SplitTokens(text) = 1 .. Words(text)
  BY <1>2 DEF SplitTokens
<1> QED BY <1>1, <1>3, FunctionLength

LEMMA DeltasTalk ==
    ASSUME NEW text \in Text, NEW index, NEW kind
    PROVE  /\ IsSequence(Deltas(index, kind, text))
           /\ Len(Deltas(index, kind, text)) = 2 * Words(text)
           /\ Words(text) \in Nat
           /\ \A s, b : b \in Nat /\ Placed(s, b, Deltas(index, kind, text)) =>
                 Talks(s, b, Words(text), index, kind, text)
<1> DEFINE d == Deltas(index, kind, text)
<1>1. PICK n \in Nat : n = Words(text) /\ Len(SplitTokens(text)) = n
  BY TokensLength
<1>2. d = [i \in 1 .. 2 * n |->
             IF i % 2 = 1 THEN Wait
             ELSE Send(Frame("delta", index, kind, SplitTokens(text)[i \div 2]))]
  BY <1>1 DEF Deltas
<1>3. d \in Seq({d[i] : i \in 1 .. 2 * n}) /\ Len(d) = 2 * n
  <2>1. d \in [1 .. 2 * n -> {d[i] : i \in 1 .. 2 * n}]
    BY <1>2
  <2> HIDE DEF d
  <2> QED BY <1>1, <2>1
<1>4. ASSUME NEW k \in 1 .. n
      PROVE  /\ d[2 * k - 1] = Wait
             /\ d[2 * k] = Send(Frame("delta", index, kind, SplitTokens(text)[k]))
  <2>1. /\ 2 * k - 1 \in 1 .. 2 * n /\ 2 * k \in 1 .. 2 * n
        /\ (2 * k - 1) % 2 = 1 /\ (2 * k) % 2 # 1 /\ (2 * k) \div 2 = k
    BY <1>1
  <2> QED BY <1>2, <2>1
<1>5. ASSUME NEW s, NEW b \in Nat, Placed(s, b, d)
      PROVE  Talks(s, b, n, index, kind, text)
  <2>1. b + 2 * n <= Len(s) /\ \A i \in 1 .. 2 * n : s[b + i] = d[i]
    BY <1>3, <1>5 DEF Placed
  <2>2. ASSUME NEW k \in 1 .. n
        PROVE  /\ s[b + 2 * k - 1] = Wait
               /\ s[b + 2 * k] = Send(Frame("delta", index, kind, SplitTokens(text)[k]))
    <3>1. /\ 2 * k - 1 \in 1 .. 2 * n /\ 2 * k \in 1 .. 2 * n
          /\ b + (2 * k - 1) = b + 2 * k - 1
      BY <1>1
    <3> QED BY <1>4, <2>1, <3>1
  <2> QED BY <2>1, <2>2 DEF Talks
<1> QED BY <1>1, <1>3, <1>5 DEF IsSequence

-----------------------------------------------------------------------------
(* The scripts, step by step.                                              *)

LEMMA TextsAreTexts ==
    ASSUME NEW q \in Request
    PROVE  q.reply \in Text /\ ReasoningText \in Text /\ Spaced(ReasoningText)
<1>1. STRING \subseteq Letter
  BY DEF Letter
<1>2. q.reply \in Seq(STRING) /\ ReasoningText \in Seq(STRING) /\ Spaced(ReasoningText)
  BY ReasoningAssumption DEF Request
<1> QED BY <1>1, <1>2, SeqMonotonic DEF Text

\* How many tokens of reasoning and of the reply a script has, and what else
\* it has only with reasoning.
Thoughts(q) == IF q.reasoning THEN Words(ReasoningText) ELSE 0
Tokens(q) == Words(q.reply)
Extra(q) == IF q.reasoning THEN 1 ELSE 0

LEMMA Numbers ==
    ASSUME NEW q \in Request
    PROVE  Thoughts(q) \in Nat /\ Tokens(q) \in Nat /\ Extra(q) \in {0, 1}
<1>1. Words(ReasoningText) \in Nat /\ Words(q.reply) \in Nat
  BY TextsAreTexts, StartsWithin
<1> QED BY <1>1 DEF Thoughts, Tokens, Extra

\* Where the tokens of the reply begin in a chat script.
ChatText(q) == 2 + 2 * Thoughts(q)

ChatLaidOut(q, s) ==
    LET e == ChatText(q) + 2 * Tokens(q)
        u == IF q.usage THEN 1 ELSE 0
    IN  /\ IsSequence(s) /\ Len(s) = e + 2 + u
        /\ s[1] = Wait /\ s[2] = Send(Bare("start"))
        /\ Talks(s, 2, Thoughts(q), 0, "thinking", ReasoningText)
        /\ Talks(s, ChatText(q), Tokens(q), 0, "text", q.reply)
        /\ s[e + 1] = Send([Bare("finish") EXCEPT !.finish = TRUE])
        /\ q.usage => s[e + 2] = Send([Bare("usage") EXCEPT !.usage = "final"])
        /\ s[e + 2 + u] = Send(Bare("end"))

LEMMA ChatLayout ==
    ASSUME NEW q \in Request
    PROVE  ChatLaidOut(q, ChatScript(q))
<1> DEFINE head    == <<Wait, Send(Bare("start"))>>
           thought == When(q.reasoning, Deltas(0, "thinking", ReasoningText))
           reply   == Deltas(0, "text", q.reply)
           finish  == <<Send([Bare("finish") EXCEPT !.finish = TRUE])>>
           usage   == When(q.usage, <<Send([Bare("usage") EXCEPT !.usage = "final"])>>)
           end     == <<Send(Bare("end"))>>
           s2 == head \o thought
           s3 == s2 \o reply
           s4 == s3 \o finish
           s5 == s4 \o usage
           s  == s5 \o end
           t == Thoughts(q)
           n == Tokens(q)
           u == IF q.usage THEN 1 ELSE 0
<1>1. /\ IsSequence(head) /\ Len(head) = 2 /\ IsSequence(finish) /\ Len(finish) = 1
      /\ IsSequence(end) /\ Len(end) = 1
  BY Literals
<1>2. q.reply \in Text /\ ReasoningText \in Text /\ t \in Nat /\ n \in Nat
  BY TextsAreTexts, Numbers
<1>3. /\ IsSequence(reply) /\ Len(reply) = 2 * n
      /\ \A z, b : b \in Nat /\ Placed(z, b, reply) => Talks(z, b, n, 0, "text", q.reply)
  BY <1>2, DeltasTalk DEF Tokens
<1>4. /\ IsSequence(thought) /\ Len(thought) = 2 * t
      /\ \A z, b : b \in Nat /\ Placed(z, b, thought) => Talks(z, b, t, 0, "thinking", ReasoningText)
  <2>1. CASE q.reasoning
    BY <1>2, <2>1, DeltasTalk DEF Thoughts, When
  <2>2. CASE ~ q.reasoning
    <3>1. thought = << >> /\ t = 0
      BY <2>2 DEF Thoughts, When
    <3> QED BY <3>1, Literals DEF Talks, Placed
  <2> QED BY <2>1, <2>2
<1>5. /\ IsSequence(usage) /\ Len(usage) = u /\ u \in Nat
      /\ q.usage => usage = <<Send([Bare("usage") EXCEPT !.usage = "final"])>>
  BY Literals DEF When
<1>6. ChatScript(q) = s
  BY DEF ChatScript
<1> HIDE DEF head, thought, reply, finish, usage, end, t, n, u
<1>7. /\ IsSequence(s2) /\ Len(s2) = 2 + 2 * t /\ Placed(s2, 2, thought)
      /\ Placed(s2, 0, head)
  <2>1. Placed(head, 0, head)
    BY <1>1 DEF Placed
  <2>2. 0 \in Nat /\ Len(head) \in Nat
    BY <1>1
  <2> QED BY <1>1, <1>4, <2>1, <2>2, Concatenated
<1> HIDE DEF s2
<1>8. /\ IsSequence(s3) /\ Len(s3) = 2 + 2 * t + 2 * n /\ Placed(s3, 2 + 2 * t, reply)
      /\ Placed(s3, 2, thought) /\ Placed(s3, 0, head)
  <2>1. 0 \in Nat /\ 2 \in Nat /\ Len(head) \in Nat /\ Len(thought) \in Nat
    BY <1>1, <1>2, <1>4
  <2> QED BY <1>3, <1>7, <2>1, Concatenated
<1> HIDE DEF s3
<1>9. PICK e \in Nat : e = 2 + 2 * t + 2 * n
  BY <1>2
<1>10. PICK b \in Nat : b = 2 + 2 * t
  BY <1>2
<1>11. /\ 0 \in Nat /\ 2 \in Nat /\ Len(head) \in Nat /\ Len(thought) \in Nat
       /\ Len(reply) \in Nat /\ Len(finish) \in Nat /\ Len(usage) \in Nat
  BY <1>1, <1>2, <1>3, <1>4, <1>5
<1>12. /\ IsSequence(s4) /\ Len(s4) = e + 1 /\ Placed(s4, e, finish)
       /\ Placed(s4, b, reply) /\ Placed(s4, 2, thought) /\ Placed(s4, 0, head)
  BY <1>1, <1>8, <1>9, <1>10, <1>11, Concatenated
<1> HIDE DEF s4
<1>13. /\ IsSequence(s5) /\ Len(s5) = e + 1 + u /\ Placed(s5, e + 1, usage)
       /\ Placed(s5, e, finish)
       /\ Placed(s5, b, reply) /\ Placed(s5, 2, thought) /\ Placed(s5, 0, head)
  BY <1>5, <1>11, <1>12, Concatenated
<1> HIDE DEF s5
<1>14. /\ IsSequence(s) /\ Len(s) = e + 1 + u + 1 /\ Placed(s, e + 1 + u, end)
       /\ Placed(s, e + 1, usage) /\ Placed(s, e, finish)
       /\ Placed(s, b, reply) /\ Placed(s, 2, thought) /\ Placed(s, 0, head)
  <2>1. e + 1 \in Nat
    OBVIOUS
  <2> QED BY <1>1, <1>11, <1>13, <2>1, Concatenated
<1> HIDE DEF s
<1>15. s[1] = Wait /\ s[2] = Send(Bare("start"))
  <2>1. s[0 + 1] = Wait /\ s[0 + 2] = Send(Bare("start"))
    BY <1>14, PlacedLiterals DEF head
  <2> QED BY <2>1
<1>16. s[e + 1] = Send([Bare("finish") EXCEPT !.finish = TRUE])
  BY <1>14, PlacedLiterals DEF finish
<1>17. q.usage => s[(e + 1) + 1] = Send([Bare("usage") EXCEPT !.usage = "final"])
  <2>1. e + 1 \in Nat
    OBVIOUS
  <2> QED BY <1>5, <1>14, <2>1, PlacedLiterals
<1>18. s[(e + 1 + u) + 1] = Send(Bare("end"))
  <2>1. e + 1 + u \in Nat
    BY <1>5
  <2> QED BY <1>14, <2>1, PlacedLiterals DEF end
<1>19. Talks(s, 2, t, 0, "thinking", ReasoningText) /\ Talks(s, b, n, 0, "text", q.reply)
  BY <1>3, <1>4, <1>14
<1>20. (e + 1) + 1 = e + 2 /\ (e + 1 + u) + 1 = e + 2 + u
  BY <1>5
<1> QED BY <1>6, <1>9, <1>10, <1>14, <1>15, <1>16, <1>17, <1>18, <1>19, <1>20
        DEF ChatLaidOut, ChatText, t, n, u

LEMMA PlacedWithin ==
    ASSUME NEW s, NEW b \in Nat, NEW part, Placed(s, b, part), Len(part) \in Nat, Len(s) \in Nat,
           NEW d \in Nat, NEW sub, Len(sub) \in Nat, Placed(part, d, sub)
    PROVE  Placed(s, b + d, sub)
<1>1. d + Len(sub) <= Len(part) /\ b + Len(part) <= Len(s)
  BY DEF Placed
<1>2. ASSUME NEW i \in 1 .. Len(sub) PROVE s[(b + d) + i] = sub[i]
  <2>1. d + i \in 1 .. Len(part) /\ (b + d) + i = b + (d + i)
    BY <1>1
  <2>2. s[b + (d + i)] = part[d + i] /\ part[d + i] = sub[i]
    BY <2>1 DEF Placed
  <2> QED BY <2>1, <2>2
<1> QED BY <1>1, <1>2 DEF Placed

\* A block of reasoning, where there is one.
Block(q, open, close) ==
    When(q.reasoning, (<<open>> \o Deltas(0, "thinking", ReasoningText)) \o close)

LEMMA ReasoningBlock ==
    ASSUME NEW q \in Request, NEW open, NEW close, IsSequence(close), NEW c \in Nat, Len(close) = c
    PROVE  /\ IsSequence(Block(q, open, close))
           /\ Len(Block(q, open, close)) = IF q.reasoning THEN 1 + 2 * Thoughts(q) + c ELSE 0
           /\ \A s, b : b \in Nat /\ Len(s) \in Nat /\ Placed(s, b, Block(q, open, close)) =>
                 /\ Talks(s, b + Extra(q), Thoughts(q), 0, "thinking", ReasoningText)
                 /\ q.reasoning =>
                       /\ s[b + 1] = open
                       /\ Placed(s, b + (1 + 2 * Thoughts(q)), close)
<1>1. PICK t, block : t \in Nat /\ t = Thoughts(q) /\ block = Block(q, open, close)
  BY Numbers
<1>2. CASE ~ q.reasoning
  <2>1. block = << >> /\ t = 0 /\ Extra(q) = 0
    BY <1>1, <1>2 DEF Block, When, Thoughts, Extra
  <2> QED BY <1>1, <1>2, <2>1, Literals DEF Talks, Placed
<1>3. CASE q.reasoning
  <2> DEFINE think == Deltas(0, "thinking", ReasoningText)
             first == <<open>>
             s2 == first \o think
  <2>1. t = Words(ReasoningText) /\ Extra(q) = 1 /\ ReasoningText \in Text
    BY <1>1, <1>3, TextsAreTexts DEF Thoughts, Extra
  <2>2. /\ IsSequence(think) /\ Len(think) = 2 * t
        /\ \A s, b : b \in Nat /\ Placed(s, b, think) => Talks(s, b, t, 0, "thinking", ReasoningText)
    BY <2>1, DeltasTalk
  <2>3. IsSequence(first) /\ Len(first) = 1 /\ first[1] = open /\ Placed(first, 0, first)
    BY Literals DEF Placed
  <2>4. block = s2 \o close
    BY <1>1, <1>3 DEF Block, When
  <2> HIDE DEF first, think
  <2>5. /\ 0 \in Nat /\ 1 \in Nat /\ Len(first) \in Nat /\ Len(think) \in Nat
        /\ Len(close) \in Nat /\ 1 + 2 * t \in Nat
    BY <2>2, <2>3
  <2>6. /\ IsSequence(s2) /\ Len(s2) = 1 + 2 * t /\ Placed(s2, 1, think) /\ Placed(s2, 0, first)
    BY <2>2, <2>3, <2>5, Concatenated
  <2> HIDE DEF s2
  <2>7. /\ IsSequence(block) /\ Len(block) = 1 + 2 * t + c /\ Placed(block, 1 + 2 * t, close)
        /\ Placed(block, 1, think) /\ Placed(block, 0, first)
    BY <2>4, <2>5, <2>6, Concatenated
  <2>8. ASSUME NEW s, NEW b \in Nat, Len(s) \in Nat, Placed(s, b, block)
        PROVE  /\ Talks(s, b + 1, t, 0, "thinking", ReasoningText)
               /\ s[b + 1] = open /\ Placed(s, b + (1 + 2 * t), close)
    <3>1. Len(block) \in Nat
      BY <2>5, <2>7
    <3>2. /\ Placed(s, b + 1, think) /\ Placed(s, b + 0, first)
          /\ Placed(s, b + (1 + 2 * t), close)
      BY <2>5, <2>7, <2>8, <3>1, PlacedWithin
    <3>3. b + 0 = b /\ b + 1 \in Nat
      OBVIOUS
    <3>4. s[b + 1] = open
      BY <3>2, <3>3, PlacedLiterals DEF first
    <3> QED BY <2>2, <3>2, <3>3, <3>4
  <2> QED BY <1>1, <1>3, <2>1, <2>7, <2>8
<1> QED BY <1>2, <1>3

\* Where the tokens of the reply begin in an Anthropic script.
AnthropicText(q) == 3 + 2 * Thoughts(q) + 3 * Extra(q)

AnthropicLaidOut(q, s) ==
    LET b == AnthropicText(q)
        e == b + 2 * Tokens(q)
    IN  /\ IsSequence(s) /\ Len(s) = e + 3
        /\ s[1] = Wait /\ s[2] = Send([Bare("start") EXCEPT !.usage = "input"])
        /\ q.reasoning =>
              /\ s[3] = Send(Frame("open", 0, "thinking", << >>))
              /\ s[b - 2] = Send(Frame("delta", 0, "signature", << >>))
              /\ s[b - 1] = Send(Frame("close", 0, "thinking", << >>))
        /\ Talks(s, 2 + Extra(q), Thoughts(q), 0, "thinking", ReasoningText)
        /\ s[b] = Send(Frame("open", Extra(q), "text", << >>))
        /\ Talks(s, b, Tokens(q), Extra(q), "text", q.reply)
        /\ s[e + 1] = Send(Frame("close", Extra(q), "text", << >>))
        /\ s[e + 2] = Send([Bare("finish") EXCEPT !.finish = TRUE, !.usage = "final"])
        /\ s[e + 3] = Send(Bare("end"))

LEMMA AnthropicLayout ==
    ASSUME NEW q \in Request
    PROVE  AnthropicLaidOut(q, AnthropicScript(q))
<1> DEFINE textIndex == IF q.reasoning THEN 1 ELSE 0
           head  == <<Wait, Send([Bare("start") EXCEPT !.usage = "input"])>>
           open  == Send(Frame("open", 0, "thinking", << >>))
           close == <<Send(Frame("delta", 0, "signature", << >>)),
                      Send(Frame("close", 0, "thinking", << >>))>>
           block == Block(q, open, close)
           text  == <<Send(Frame("open", textIndex, "text", << >>))>>
           reply == Deltas(textIndex, "text", q.reply)
           end   == <<Send(Frame("close", textIndex, "text", << >>)),
                      Send([Bare("finish") EXCEPT !.finish = TRUE, !.usage = "final"]),
                      Send(Bare("end"))>>
           s2 == head \o block
           s3 == s2 \o text
           s4 == s3 \o reply
           s  == s4 \o end
<1>1. PICK t, n, x : t = Thoughts(q) /\ n = Tokens(q) /\ x = Extra(q)
  OBVIOUS
<1>2. t \in Nat /\ n \in Nat /\ x \in {0, 1} /\ (q.reasoning => x = 1)
      /\ (~ q.reasoning => x = 0 /\ t = 0) /\ textIndex = x /\ q.reply \in Text
  BY <1>1, TextsAreTexts, Numbers DEF Extra, Thoughts
<1>3. /\ IsSequence(reply) /\ Len(reply) = 2 * n
      /\ \A z, b : b \in Nat /\ Placed(z, b, reply) => Talks(z, b, n, x, "text", q.reply)
  BY <1>1, <1>2, DeltasTalk DEF Tokens
<1>4. /\ IsSequence(head) /\ Len(head) = 2 /\ IsSequence(text) /\ Len(text) = 1
      /\ IsSequence(end) /\ Len(end) = 3 /\ IsSequence(close) /\ Len(close) = 2
  BY Literals
<1>5. AnthropicScript(q) = s
  BY DEF AnthropicScript, Block
<1> HIDE DEF textIndex
<1>6. /\ \A z : Placed(z, 0, head) => z[0 + 1] = Wait /\ z[0 + 2] = Send([Bare("start") EXCEPT !.usage = "input"])
      /\ \A z, b : b \in Nat /\ Placed(z, b, text) => z[b + 1] = Send(Frame("open", x, "text", << >>))
      /\ \A z, b : b \in Nat /\ Placed(z, b, close) =>
            /\ z[b + 1] = Send(Frame("delta", 0, "signature", << >>))
            /\ z[b + 2] = Send(Frame("close", 0, "thinking", << >>))
      /\ \A z, b : b \in Nat /\ Placed(z, b, end) =>
            /\ z[b + 1] = Send(Frame("close", x, "text", << >>))
            /\ z[b + 2] = Send([Bare("finish") EXCEPT !.finish = TRUE, !.usage = "final"])
            /\ z[b + 3] = Send(Bare("end"))
  <2>1. \A z : Placed(z, 0, head) => z[0 + 1] = Wait /\ z[0 + 2] = Send([Bare("start") EXCEPT !.usage = "input"])
    <3>1. PICK f : f = Send([Bare("start") EXCEPT !.usage = "input"])
      OBVIOUS
    <3>2. head = <<Wait, f>>
      BY <3>1
    <3> HIDE DEF head
    <3> QED BY <3>1, <3>2, PlacedLiterals
  <2>2. \A z, b : b \in Nat /\ Placed(z, b, text) => z[b + 1] = Send(Frame("open", x, "text", << >>))
    <3>1. PICK f : f = Send(Frame("open", x, "text", << >>))
      OBVIOUS
    <3>2. text = <<f>>
      BY <1>2, <3>1
    <3> HIDE DEF text
    <3> QED BY <3>1, <3>2, PlacedLiterals
  <2>3. \A z, b : b \in Nat /\ Placed(z, b, close) =>
            /\ z[b + 1] = Send(Frame("delta", 0, "signature", << >>))
            /\ z[b + 2] = Send(Frame("close", 0, "thinking", << >>))
    <3>1. PICK f, g : /\ f = Send(Frame("delta", 0, "signature", << >>))
                      /\ g = Send(Frame("close", 0, "thinking", << >>))
      OBVIOUS
    <3>2. close = <<f, g>>
      BY <3>1
    <3> HIDE DEF close
    <3> QED BY <3>1, <3>2, PlacedLiterals
  <2>4. \A z, b : b \in Nat /\ Placed(z, b, end) =>
            /\ z[b + 1] = Send(Frame("close", x, "text", << >>))
            /\ z[b + 2] = Send([Bare("finish") EXCEPT !.finish = TRUE, !.usage = "final"])
            /\ z[b + 3] = Send(Bare("end"))
    <3>1. PICK f, g, h : /\ f = Send(Frame("close", x, "text", << >>))
                         /\ g = Send([Bare("finish") EXCEPT !.finish = TRUE, !.usage = "final"])
                         /\ h = Send(Bare("end"))
      OBVIOUS
    <3>2. end = <<f, g, h>>
      BY <1>2, <3>1
    <3> HIDE DEF end
    <3> QED BY <3>1, <3>2, PlacedLiterals
  <2> QED BY <2>1, <2>2, <2>3, <2>4
<1> HIDE DEF head, close, text, reply, end
<1>7. PICK l \in Nat : l = IF q.reasoning THEN 1 + 2 * t + 2 ELSE 0
  BY <1>2
<1>8. /\ IsSequence(block) /\ Len(block) = l
      /\ \A z, b : b \in Nat /\ Len(z) \in Nat /\ Placed(z, b, block) =>
            /\ Talks(z, b + x, t, 0, "thinking", ReasoningText)
            /\ q.reasoning => /\ z[b + 1] = open
                              /\ Placed(z, b + (1 + 2 * t), close)
  <2> HIDE DEF open
  <2>1. /\ IsSequence(block)
        /\ Len(block) = IF q.reasoning THEN 1 + 2 * Thoughts(q) + 2 ELSE 0
        /\ \A z, b : b \in Nat /\ Len(z) \in Nat /\ Placed(z, b, block) =>
              /\ Talks(z, b + Extra(q), Thoughts(q), 0, "thinking", ReasoningText)
              /\ q.reasoning =>
                    /\ z[b + 1] = open
                    /\ Placed(z, b + (1 + 2 * Thoughts(q)), close)
    BY <1>4, ReasoningBlock
  <2> QED BY <1>1, <1>7, <2>1
<1> HIDE DEF block
<1>9. 0 \in Nat /\ 2 \in Nat /\ Len(head) \in Nat /\ Len(block) \in Nat /\ Len(text) \in Nat
      /\ Len(reply) \in Nat /\ Len(end) \in Nat
  BY <1>2, <1>3, <1>4, <1>8
<1>10. PICK b \in Nat : b = 3 + l
  OBVIOUS
<1>11. PICK e \in Nat : e = b + 2 * n
  BY <1>2
<1>12. /\ IsSequence(s2) /\ Len(s2) = 2 + l /\ Placed(s2, 2, block) /\ Placed(s2, 0, head)
  <2>1. Placed(head, 0, head)
    BY <1>4 DEF Placed
  <2> QED BY <1>4, <1>8, <1>9, <2>1, Concatenated
<1> HIDE DEF s2
<1>13. /\ IsSequence(s3) /\ Len(s3) = b /\ Placed(s3, 2 + l, text)
       /\ Placed(s3, 2, block) /\ Placed(s3, 0, head)
  <2>1. 2 + l + 1 = b
    BY <1>10
  <2> QED BY <1>4, <1>9, <1>12, <2>1, Concatenated
<1> HIDE DEF s3
<1>14. /\ IsSequence(s4) /\ Len(s4) = e /\ Placed(s4, b, reply) /\ Placed(s4, 2 + l, text)
       /\ Placed(s4, 2, block) /\ Placed(s4, 0, head)
  <2>1. 2 + l \in Nat
    OBVIOUS
  <2> QED BY <1>3, <1>9, <1>11, <1>13, <2>1, Concatenated
<1> HIDE DEF s4
<1>15. /\ IsSequence(s) /\ Len(s) = e + 3 /\ Placed(s, e, end)
       /\ Placed(s, b, reply) /\ Placed(s, 2 + l, text)
       /\ Placed(s, 2, block) /\ Placed(s, 0, head)
  <2>1. 2 + l \in Nat
    OBVIOUS
  <2> QED BY <1>4, <1>9, <1>14, <2>1, Concatenated
<1> HIDE DEF s
<1>16. b = AnthropicText(q) /\ e = b + 2 * Tokens(q) /\ (2 + l) + 1 = b
  <2>1. l = 2 * t + 3 * x
    BY <1>2, <1>7
  <2> QED BY <1>1, <1>2, <1>10, <1>11, <2>1 DEF AnthropicText
<1>17. s[1] = Wait /\ s[2] = Send([Bare("start") EXCEPT !.usage = "input"])
  <2>1. s[0 + 1] = Wait /\ s[0 + 2] = Send([Bare("start") EXCEPT !.usage = "input"])
    BY <1>6, <1>15
  <2> QED BY <2>1
<1>18. /\ Talks(s, 2 + x, t, 0, "thinking", ReasoningText)
       /\ q.reasoning => s[2 + 1] = open /\ Placed(s, 2 + (1 + 2 * t), close)
  <2>1. Len(s) \in Nat
    BY <1>15
  <2> QED BY <1>8, <1>15, <2>1
<1>19. q.reasoning =>
          /\ s[3] = Send(Frame("open", 0, "thinking", << >>))
          /\ s[b - 2] = Send(Frame("delta", 0, "signature", << >>))
          /\ s[b - 1] = Send(Frame("close", 0, "thinking", << >>))
  <2>1. SUFFICES ASSUME q.reasoning
                 PROVE  /\ s[3] = open
                        /\ s[b - 2] = Send(Frame("delta", 0, "signature", << >>))
                        /\ s[b - 1] = Send(Frame("close", 0, "thinking", << >>))
    OBVIOUS
  <2>2. 2 + (1 + 2 * t) \in Nat /\ 2 + (1 + 2 * t) + 1 = b - 2 /\ 2 + (1 + 2 * t) + 2 = b - 1
    BY <1>2, <1>7, <1>10, <2>1
  <2>3. s[2 + 1] = open /\ Placed(s, 2 + (1 + 2 * t), close)
    BY <1>18, <2>1
  <2>4. /\ s[2 + (1 + 2 * t) + 1] = Send(Frame("delta", 0, "signature", << >>))
        /\ s[2 + (1 + 2 * t) + 2] = Send(Frame("close", 0, "thinking", << >>))
    BY <1>6, <2>2, <2>3
  <2> QED BY <2>2, <2>3, <2>4
<1>20. s[b] = Send(Frame("open", x, "text", << >>))
  <2>1. 2 + l \in Nat
    OBVIOUS
  <2>2. s[(2 + l) + 1] = Send(Frame("open", x, "text", << >>))
    BY <1>6, <1>15, <2>1
  <2> QED BY <1>16, <2>2
<1>21. Talks(s, b, n, x, "text", q.reply)
  BY <1>3, <1>15
<1>22. /\ s[e + 1] = Send(Frame("close", x, "text", << >>))
       /\ s[e + 2] = Send([Bare("finish") EXCEPT !.finish = TRUE, !.usage = "final"])
       /\ s[e + 3] = Send(Bare("end"))
  BY <1>6, <1>15
<1> QED BY <1>1, <1>5, <1>15, <1>16, <1>17, <1>18, <1>19, <1>20, <1>21, <1>22
        DEF AnthropicLaidOut

\* Where the tokens of the reply begin in a Responses script.
ResponsesText(q) == 5 + 2 * Thoughts(q) + 2 * Extra(q)

ResponsesLaidOut(q, s) ==
    LET b == ResponsesText(q)
        e == b + 2 * Tokens(q)
    IN  /\ IsSequence(s) /\ Len(s) = e + 4
        /\ s[1] = Wait /\ s[2] = Send(Envelope("start", q, "in_progress")) /\ s[3] = Send(Envelope("progress", q, "in_progress"))
        /\ q.reasoning =>
              /\ s[4] = Send(Frame("open", 0, "thinking", << >>))
              /\ s[b - 2] = Send(Frame("close", 0, "thinking", ReasoningText))
        /\ Talks(s, 3 + Extra(q), Thoughts(q), 0, "thinking", ReasoningText)
        /\ s[b - 1] = Send(Frame("open", Extra(q), "text", << >>))
        /\ s[b] = Send(Frame("part", Extra(q), "text", << >>))
        /\ Talks(s, b, Tokens(q), Extra(q), "text", q.reply)
        /\ s[e + 1] = Send(Frame("part done", Extra(q), "text", q.reply))
        /\ s[e + 2] = Send(Frame("part done", Extra(q), "text", q.reply))
        /\ s[e + 3] = Send(Frame("close", Extra(q), "text", q.reply))
        /\ s[e + 4] = Send([Envelope("end", q, "completed") EXCEPT !.finish = TRUE])

LEMMA ResponsesLayout ==
    ASSUME NEW q \in Request
    PROVE  ResponsesLaidOut(q, ResponsesScript(q))
<1> DEFINE outputIndex == IF q.reasoning THEN 1 ELSE 0
           head  == <<Wait, Send(Envelope("start", q, "in_progress")), Send(Envelope("progress", q, "in_progress"))>>
           open  == Send(Frame("open", 0, "thinking", << >>))
           close == <<Send(Frame("close", 0, "thinking", ReasoningText))>>
           block == Block(q, open, close)
           text  == <<Send(Frame("open", outputIndex, "text", << >>)),
                      Send(Frame("part", outputIndex, "text", << >>))>>
           reply == Deltas(outputIndex, "text", q.reply)
           end   == <<Send(Frame("part done", outputIndex, "text", q.reply)),
                      Send(Frame("part done", outputIndex, "text", q.reply)),
                      Send(Frame("close", outputIndex, "text", q.reply)),
                      Send([Envelope("end", q, "completed") EXCEPT !.finish = TRUE])>>
           s2 == head \o block
           s3 == s2 \o text
           s4 == s3 \o reply
           s  == s4 \o end
<1>1. PICK t, n, x : t = Thoughts(q) /\ n = Tokens(q) /\ x = Extra(q)
  OBVIOUS
<1>2. t \in Nat /\ n \in Nat /\ x \in {0, 1} /\ (q.reasoning => x = 1)
      /\ (~ q.reasoning => x = 0 /\ t = 0) /\ outputIndex = x /\ q.reply \in Text
  BY <1>1, TextsAreTexts, Numbers DEF Extra, Thoughts
<1>3. /\ IsSequence(reply) /\ Len(reply) = 2 * n
      /\ \A z, b : b \in Nat /\ Placed(z, b, reply) => Talks(z, b, n, x, "text", q.reply)
  BY <1>1, <1>2, DeltasTalk DEF Tokens
<1>4. /\ IsSequence(head) /\ Len(head) = 3 /\ IsSequence(text) /\ Len(text) = 2
      /\ IsSequence(end) /\ Len(end) = 4 /\ IsSequence(close) /\ Len(close) = 1
  <2>1. IsSequence(head) /\ Len(head) = 3
    BY Literals
  <2>2. IsSequence(text) /\ Len(text) = 2
    BY Literals
  <2>3. IsSequence(end) /\ Len(end) = 4
    <3>1. PICK d, f, g, h : end = <<d, f, g, h>>
      OBVIOUS
    <3> HIDE DEF end
    <3> QED BY <3>1, FourLiterals
  <2>4. IsSequence(close) /\ Len(close) = 1
    BY Literals
  <2> QED BY <2>1, <2>2, <2>3, <2>4
<1>5. ResponsesScript(q) = s
  BY DEF ResponsesScript, Block
<1> HIDE DEF outputIndex
<1>6. /\ \A z : Placed(z, 0, head) => /\ z[0 + 1] = Wait /\ z[0 + 2] = Send(Envelope("start", q, "in_progress"))
                                       /\ z[0 + 3] = Send(Envelope("progress", q, "in_progress"))
      /\ \A z, b : b \in Nat /\ Placed(z, b, text) =>
            /\ z[b + 1] = Send(Frame("open", x, "text", << >>))
            /\ z[b + 2] = Send(Frame("part", x, "text", << >>))
      /\ \A z, b : b \in Nat /\ Placed(z, b, close) =>
            z[b + 1] = Send(Frame("close", 0, "thinking", ReasoningText))
      /\ \A z, b : b \in Nat /\ Placed(z, b, end) =>
            /\ z[b + 1] = Send(Frame("part done", x, "text", q.reply))
            /\ z[b + 2] = Send(Frame("part done", x, "text", q.reply))
            /\ z[b + 3] = Send(Frame("close", x, "text", q.reply))
            /\ z[b + 4] = Send([Envelope("end", q, "completed") EXCEPT !.finish = TRUE])
  <2>1. \A z : Placed(z, 0, head) => /\ z[0 + 1] = Wait /\ z[0 + 2] = Send(Envelope("start", q, "in_progress"))
                                     /\ z[0 + 3] = Send(Envelope("progress", q, "in_progress"))
    <3>1. PICK f, g : f = Send(Envelope("start", q, "in_progress")) /\ g = Send(Envelope("progress", q, "in_progress"))
      OBVIOUS
    <3>2. head = <<Wait, f, g>>
      BY <3>1
    <3> HIDE DEF head
    <3> QED BY <3>1, <3>2, PlacedLiterals
  <2>2. \A z, b : b \in Nat /\ Placed(z, b, text) =>
            /\ z[b + 1] = Send(Frame("open", x, "text", << >>))
            /\ z[b + 2] = Send(Frame("part", x, "text", << >>))
    <3>1. PICK f, g : /\ f = Send(Frame("open", x, "text", << >>))
                      /\ g = Send(Frame("part", x, "text", << >>))
      OBVIOUS
    <3>2. text = <<f, g>>
      BY <1>2, <3>1
    <3> HIDE DEF text
    <3> QED BY <3>1, <3>2, PlacedLiterals
  <2>3. \A z, b : b \in Nat /\ Placed(z, b, close) =>
            z[b + 1] = Send(Frame("close", 0, "thinking", ReasoningText))
    <3>1. PICK f : f = Send(Frame("close", 0, "thinking", ReasoningText))
      OBVIOUS
    <3>2. close = <<f>>
      BY <3>1
    <3> HIDE DEF close
    <3> QED BY <3>1, <3>2, PlacedLiterals
  <2>4. \A z, b : b \in Nat /\ Placed(z, b, end) =>
            /\ z[b + 1] = Send(Frame("part done", x, "text", q.reply))
            /\ z[b + 2] = Send(Frame("part done", x, "text", q.reply))
            /\ z[b + 3] = Send(Frame("close", x, "text", q.reply))
            /\ z[b + 4] = Send([Envelope("end", q, "completed") EXCEPT !.finish = TRUE])
    <3>1. PICK d, f, g, h :
                         /\ d = Send(Frame("part done", x, "text", q.reply))
                         /\ f = Send(Frame("part done", x, "text", q.reply))
                         /\ g = Send(Frame("close", x, "text", q.reply))
                         /\ h = Send([Envelope("end", q, "completed") EXCEPT !.finish = TRUE])
      OBVIOUS
    <3>2. end = <<d, f, g, h>>
      BY <1>2, <3>1
    <3> HIDE DEF end
    <3>3. \A z, b : b \in Nat /\ Placed(z, b, end) =>
             z[b + 1] = d /\ z[b + 2] = f /\ z[b + 3] = g /\ z[b + 4] = h
      BY <3>2, FourLiterals
    <3> QED BY <3>1, <3>3
  <2> QED BY <2>1, <2>2, <2>3, <2>4
<1> HIDE DEF head, close, text, reply, end
<1>7. PICK l \in Nat : l = IF q.reasoning THEN 1 + 2 * t + 1 ELSE 0
  BY <1>2
<1>8. /\ IsSequence(block) /\ Len(block) = l
      /\ \A z, b : b \in Nat /\ Len(z) \in Nat /\ Placed(z, b, block) =>
            /\ Talks(z, b + x, t, 0, "thinking", ReasoningText)
            /\ q.reasoning => /\ z[b + 1] = open
                              /\ Placed(z, b + (1 + 2 * t), close)
  <2> HIDE DEF open
  <2>1. /\ IsSequence(block)
        /\ Len(block) = IF q.reasoning THEN 1 + 2 * Thoughts(q) + 1 ELSE 0
        /\ \A z, b : b \in Nat /\ Len(z) \in Nat /\ Placed(z, b, block) =>
              /\ Talks(z, b + Extra(q), Thoughts(q), 0, "thinking", ReasoningText)
              /\ q.reasoning =>
                    /\ z[b + 1] = open
                    /\ Placed(z, b + (1 + 2 * Thoughts(q)), close)
    <3>1. PICK c \in Nat : c = 1
      OBVIOUS
    <3>2. Len(close) = c
      BY <1>4, <3>1
    <3>3. /\ IsSequence(block)
          /\ Len(block) = IF q.reasoning THEN 1 + 2 * Thoughts(q) + c ELSE 0
          /\ \A z, b : b \in Nat /\ Len(z) \in Nat /\ Placed(z, b, block) =>
                /\ Talks(z, b + Extra(q), Thoughts(q), 0, "thinking", ReasoningText)
                /\ q.reasoning =>
                      /\ z[b + 1] = open
                      /\ Placed(z, b + (1 + 2 * Thoughts(q)), close)
      BY <1>4, <3>2, ReasoningBlock
    <3> QED BY <3>1, <3>3
  <2> QED BY <1>1, <1>7, <2>1
<1> HIDE DEF block
<1>9. 0 \in Nat /\ 3 \in Nat /\ Len(head) \in Nat /\ Len(block) \in Nat /\ Len(text) \in Nat
      /\ Len(reply) \in Nat /\ Len(end) \in Nat
  BY <1>2, <1>3, <1>4, <1>8
<1>10. PICK b \in Nat : b = 5 + l
  OBVIOUS
<1>11. PICK e \in Nat : e = b + 2 * n
  BY <1>2
<1>12. /\ IsSequence(s2) /\ Len(s2) = 3 + l /\ Placed(s2, 3, block) /\ Placed(s2, 0, head)
  <2>1. Placed(head, 0, head)
    BY <1>4 DEF Placed
  <2> QED BY <1>4, <1>8, <1>9, <2>1, Concatenated
<1> HIDE DEF s2
<1>13. /\ IsSequence(s3) /\ Len(s3) = b /\ Placed(s3, 3 + l, text)
       /\ Placed(s3, 3, block) /\ Placed(s3, 0, head)
  <2>1. 3 + l + 2 = b
    BY <1>10
  <2> QED BY <1>4, <1>9, <1>12, <2>1, Concatenated
<1> HIDE DEF s3
<1>14. /\ IsSequence(s4) /\ Len(s4) = e /\ Placed(s4, b, reply) /\ Placed(s4, 3 + l, text)
       /\ Placed(s4, 3, block) /\ Placed(s4, 0, head)
  <2>1. 3 + l \in Nat
    OBVIOUS
  <2> QED BY <1>3, <1>9, <1>11, <1>13, <2>1, Concatenated
<1> HIDE DEF s4
<1>15. /\ IsSequence(s) /\ Len(s) = e + 4 /\ Placed(s, e, end)
       /\ Placed(s, b, reply) /\ Placed(s, 3 + l, text)
       /\ Placed(s, 3, block) /\ Placed(s, 0, head)
  <2>1. 3 + l \in Nat
    OBVIOUS
  <2> QED BY <1>4, <1>9, <1>14, <2>1, Concatenated
<1> HIDE DEF s
<1>16. b = ResponsesText(q) /\ e = b + 2 * Tokens(q) /\ (3 + l) + 2 = b /\ (3 + l) + 1 = b - 1
  <2>1. l = 2 * t + 2 * x
    BY <1>2, <1>7
  <2> QED BY <1>1, <1>2, <1>10, <1>11, <2>1 DEF ResponsesText
<1>17. s[1] = Wait /\ s[2] = Send(Envelope("start", q, "in_progress")) /\ s[3] = Send(Envelope("progress", q, "in_progress"))
  <2>1. s[0 + 1] = Wait /\ s[0 + 2] = Send(Envelope("start", q, "in_progress")) /\ s[0 + 3] = Send(Envelope("progress", q, "in_progress"))
    BY <1>6, <1>15
  <2> QED BY <2>1
<1>18. /\ Talks(s, 3 + x, t, 0, "thinking", ReasoningText)
       /\ q.reasoning => s[3 + 1] = open /\ Placed(s, 3 + (1 + 2 * t), close)
  <2>1. Len(s) \in Nat
    BY <1>15
  <2> QED BY <1>8, <1>9, <1>15, <2>1
<1>19. q.reasoning =>
          /\ s[4] = Send(Frame("open", 0, "thinking", << >>))
          /\ s[b - 2] = Send(Frame("close", 0, "thinking", ReasoningText))
  <2>1. SUFFICES ASSUME q.reasoning
                 PROVE  /\ s[4] = open
                        /\ s[b - 2] = Send(Frame("close", 0, "thinking", ReasoningText))
    OBVIOUS
  <2>2. 3 + (1 + 2 * t) \in Nat /\ 3 + (1 + 2 * t) + 1 = b - 2
    BY <1>2, <1>7, <1>10, <2>1
  <2>3. s[3 + 1] = open /\ Placed(s, 3 + (1 + 2 * t), close)
    BY <1>18, <2>1
  <2>4. s[3 + (1 + 2 * t) + 1] = Send(Frame("close", 0, "thinking", ReasoningText))
    BY <1>6, <2>2, <2>3
  <2> QED BY <2>2, <2>3, <2>4
<1>20. /\ s[b - 1] = Send(Frame("open", x, "text", << >>))
       /\ s[b] = Send(Frame("part", x, "text", << >>))
  <2>1. 3 + l \in Nat
    OBVIOUS
  <2>2. /\ s[(3 + l) + 1] = Send(Frame("open", x, "text", << >>))
        /\ s[(3 + l) + 2] = Send(Frame("part", x, "text", << >>))
    BY <1>6, <1>15, <2>1
  <2> QED BY <1>16, <2>2
<1>21. Talks(s, b, n, x, "text", q.reply)
  BY <1>3, <1>15
<1>22. /\ s[e + 1] = Send(Frame("part done", x, "text", q.reply))
       /\ s[e + 2] = Send(Frame("part done", x, "text", q.reply))
       /\ s[e + 3] = Send(Frame("close", x, "text", q.reply))
       /\ s[e + 4] = Send([Envelope("end", q, "completed") EXCEPT !.finish = TRUE])
  BY <1>6, <1>15
<1> QED BY <1>1, <1>5, <1>15, <1>16, <1>17, <1>18, <1>19, <1>20, <1>21, <1>22
        DEF ResponsesLaidOut


\* A Gemini chunk, the last of them with all that ends the stream.
Chunk(q, k) ==
    LET f == Frame("delta", 0, "text", SplitTokens(q.reply)[k])
    IN  IF k = Tokens(q)
        THEN [f EXCEPT !.finish = TRUE, !.usage = "final", !.image = q.image]
        ELSE f

GeminiLaidOut(q, s) ==
    /\ IsSequence(s) /\ Len(s) = 1 + 2 * Tokens(q)
    /\ s[1] = Wait
    /\ \A k \in 1 .. Tokens(q) : s[2 * k] = Wait /\ s[2 * k + 1] = Send(Chunk(q, k))

LEMMA GeminiLayout ==
    ASSUME NEW q \in Request
    PROVE  GeminiLaidOut(q, GeminiScript(q))
<1> DEFINE chunks == Deltas(0, "text", q.reply)
           last == Len(chunks)
           dressed == [i \in DOMAIN chunks |->
                         IF i = last
                         THEN Send([chunks[i].frame EXCEPT !.finish = TRUE, !.usage = "final",
                                                           !.image = q.image])
                         ELSE chunks[i]]
           s == <<Wait>> \o dressed
<1>1. PICK n \in Nat : n = Tokens(q) /\ q.reply \in Text
  BY TextsAreTexts, Numbers
<1>2. /\ IsSequence(chunks) /\ last = 2 * n
      /\ \A z, b : b \in Nat /\ Placed(z, b, chunks) => Talks(z, b, n, 0, "text", q.reply)
  BY <1>1, DeltasTalk DEF Tokens
<1>3. DOMAIN chunks = 1 .. 2 * n
  <2> HIDE DEF chunks
  <2>1. PICK S : chunks \in Seq(S)
    BY <1>2 DEF IsSequence
  <2> QED BY <1>2, <2>1, LenProperties
<1>4. Talks(chunks, 0, n, 0, "text", q.reply)
  <2> HIDE DEF chunks
  <2>1. Placed(chunks, 0, chunks)
    BY <1>1, <1>2 DEF Placed
  <2> QED BY <1>2, <2>1
<1>5. \A k \in 1 .. n : /\ chunks[2 * k - 1] = Wait
                        /\ chunks[2 * k] = Send(Frame("delta", 0, "text", SplitTokens(q.reply)[k]))
  <2> HIDE DEF chunks
  <2>1. TAKE k \in 1 .. n
  <2>2. /\ chunks[0 + 2 * k - 1] = Wait
        /\ chunks[0 + 2 * k] = Send(Frame("delta", 0, "text", SplitTokens(q.reply)[k]))
    BY <1>4 DEF Talks
  <2>3. 0 + 2 * k - 1 = 2 * k - 1 /\ 0 + 2 * k = 2 * k
    BY <1>1
  <2> QED BY <2>2, <2>3
<1>6. ASSUME NEW k \in 1 .. n
      PROVE  dressed[2 * k - 1] = Wait /\ dressed[2 * k] = Send(Chunk(q, k))
  <2> HIDE DEF chunks, last
  <2>1. 2 * k - 1 \in 1 .. 2 * n /\ 2 * k \in 1 .. 2 * n /\ 2 * k - 1 # 2 * n
    BY <1>1
  <2>2. dressed[2 * k - 1] = Wait
    BY <1>2, <1>3, <1>5, <2>1
  <2>3. CASE k = n
    <3>1. PICK f : f = Frame("delta", 0, "text", SplitTokens(q.reply)[k])
      OBVIOUS
    <3>2. chunks[2 * k].frame = f
      <4>1. chunks[2 * k] = Send(f)
        BY <1>5, <3>1
      <4> HIDE DEF dressed, s
      <4> QED BY <4>1 DEF Send
    <3>3. dressed[2 * k] =
             Send([chunks[2 * k].frame EXCEPT !.finish = TRUE, !.usage = "final", !.image = q.image])
      BY <1>2, <1>3, <2>1, <2>3
    <3>4. dressed[2 * k] = Send([f EXCEPT !.finish = TRUE, !.usage = "final", !.image = q.image])
      BY <3>2, <3>3
    <3> QED BY <1>1, <2>2, <2>3, <3>1, <3>4 DEF Chunk
  <2>4. CASE k # n
    <3>1. 2 * k # 2 * n
      BY <1>1, <2>4
    <3> QED BY <1>1, <1>2, <1>3, <1>5, <2>1, <2>2, <2>4, <3>1 DEF Chunk
  <2> QED BY <2>3, <2>4
<1>7. IsSequence(dressed) /\ Len(dressed) = 2 * n
  <2>1. dressed \in [1 .. 2 * n -> {dressed[i] : i \in 1 .. 2 * n}]
    BY <1>3
  <2> HIDE DEF dressed
  <2>2. dressed \in Seq({dressed[i] : i \in 1 .. 2 * n}) /\ Len(dressed) = 2 * n
    BY <1>1, <2>1
  <2> QED BY <2>2 DEF IsSequence
<1>8. GeminiScript(q) = s
  BY DEF GeminiScript
<1> HIDE DEF dressed
<1>9. /\ IsSequence(s) /\ Len(s) = 1 + 2 * n /\ Placed(s, 1, dressed) /\ Placed(s, 0, <<Wait>>)
  <2>1. IsSequence(<<Wait>>) /\ Len(<<Wait>>) = 1
    BY Literals
  <2>2. Placed(<<Wait>>, 0, <<Wait>>) /\ 0 \in Nat /\ Len(<<Wait>>) \in Nat
    BY <2>1 DEF Placed
  <2> QED BY <1>7, <2>1, <2>2, Concatenated
<1> HIDE DEF s
<1>10. s[1] = Wait
  <2>1. s[0 + 1] = Wait
    BY <1>9, PlacedLiterals
  <2> QED BY <2>1
<1>11. \A k \in 1 .. n : s[2 * k] = Wait /\ s[2 * k + 1] = Send(Chunk(q, k))
  <2>1. TAKE k \in 1 .. n
  <2>2. /\ 2 * k - 1 \in 1 .. Len(dressed) /\ 2 * k \in 1 .. Len(dressed)
        /\ 1 + (2 * k - 1) = 2 * k /\ 1 + 2 * k = 2 * k + 1
    BY <1>1, <1>7
  <2>3. s[1 + (2 * k - 1)] = dressed[2 * k - 1] /\ s[1 + 2 * k] = dressed[2 * k]
    BY <1>9, <2>2 DEF Placed
  <2> QED BY <1>6, <2>2, <2>3
<1> QED BY <1>1, <1>8, <1>9, <1>10, <1>11 DEF GeminiLaidOut

-----------------------------------------------------------------------------
(* Along a script: after p steps, i tokens of t are out of those that begin *)
(* after step b, and j of n of those that begin after step c.              *)

Along(p, b, t, c, n, i, j) ==
    /\ i \in 0 .. t /\ j \in 0 .. n
    /\ p <= b => i = 0
    /\ b <= p /\ p <= b + 2 * t => p = b + 2 * i \/ p = b + 2 * i + 1
    /\ p >= b + 2 * t => i = t
    /\ p <= c => j = 0
    /\ c <= p /\ p <= c + 2 * n => p = c + 2 * j \/ p = c + 2 * j + 1
    /\ p >= c + 2 * n => j = n

LEMMA AlongNext ==
    ASSUME NEW p \in Nat, NEW b \in Nat, NEW t \in Nat, NEW c \in Nat, NEW n \in Nat,
           b + 2 * t <= c, NEW i, NEW j, Along(p, b, t, c, n, i, j)
    PROVE  /\ i \in 0 .. t /\ j \in 0 .. n
           /\ \/ /\ p < b \/ (b + 2 * t <= p /\ p < c) \/ p >= c + 2 * n
                 /\ Along(p + 1, b, t, c, n, i, j)
                 /\ p < b => i = 0
                 /\ p < c => j = 0
                 /\ p >= b + 2 * t => i = t
                 /\ p >= c + 2 * n => j = n
              \/ p = b + 2 * i /\ i < t /\ j = 0 /\ Along(p + 1, b, t, c, n, i, j)
              \/ p = b + 2 * i + 1 /\ i < t /\ j = 0 /\ Along(p + 1, b, t, c, n, i + 1, j)
              \/ p = c + 2 * j /\ j < n /\ i = t /\ Along(p + 1, b, t, c, n, i, j)
              \/ p = c + 2 * j + 1 /\ j < n /\ i = t /\ Along(p + 1, b, t, c, n, i, j + 1)
<1>1. i \in 0 .. t /\ j \in 0 .. n
  BY DEF Along
<1>2. CASE p < b
  BY <1>1, <1>2 DEF Along
<1>3. CASE b <= p /\ p < b + 2 * t
  BY <1>1, <1>3 DEF Along
<1>4. CASE b + 2 * t <= p /\ p < c
  BY <1>1, <1>4 DEF Along
<1>5. CASE c <= p /\ p < c + 2 * n
  BY <1>1, <1>5 DEF Along
<1>6. CASE p >= c + 2 * n
  BY <1>1, <1>6 DEF Along
<1> QED BY <1>1, <1>2, <1>3, <1>4, <1>5, <1>6

-----------------------------------------------------------------------------
(* What reading a frame does to the client.                                *)

\* A frame as it is written.
Numbered(f, z) == [f EXCEPT !.no = z]

\* What becomes of the rest of what a client knows when it reads a token.
TokenRead(m, f, x) ==
    /\ x.open = m.open /\ x.index = m.index /\ x.blocks = m.blocks
    /\ x.image <=> m.image \/ f.image
    /\ x.finish <=> m.finish \/ f.finish
    /\ x.usage = IF f.usage = "none" THEN m.usage ELSE f.usage
    /\ x.ended <=> m.ended
    /\ x.count = m.count + 1 /\ x.output = m.output

LEMMA ReadThought ==
    ASSUME NEW i \in Nat, i < Words(ReasoningText), NEW j, NEW q \in Request, NEW m,
           Told(ReasoningText, i, m.thinking), Told(q.reply, j, m.text),
           NEW proto, NEW f, NEW x, x = Read(proto, m, f),
           f.what = "delta", f.kind = "thinking", f.text = SplitTokens(ReasoningText)[i + 1]
    PROVE  /\ Told(ReasoningText, i + 1, x.thinking) /\ Told(q.reply, j, x.text)
           /\ TokenRead(m, f, x)
           /\ m.ok /\ Allowed(proto, m, f) => x.ok
<1>1. x.thinking = m.thinking \o SplitTokens(ReasoningText)[i + 1] /\ x.text = m.text \o << >>
  BY DEF Read
<1>2. x.text = m.text
  <2>1. m.text \in Text
    BY DEF Told
  <2> QED BY <1>1, <2>1, ConcatEmptySeq DEF Text
<1>3. Told(ReasoningText, i + 1, x.thinking)
  BY <1>1, TextsAreTexts, TokenTold
<1>4. /\ x.open = m.open /\ x.index = m.index /\ x.blocks = m.blocks /\ x.count = m.count + 1
      /\ x.output = m.output
  BY DEF Read, Objects
<1>5. /\ x.image <=> m.image \/ f.image
      /\ x.finish <=> m.finish \/ f.finish
      /\ x.usage = IF f.usage = "none" THEN m.usage ELSE f.usage
      /\ x.ended <=> m.ended
      /\ x.ok <=> m.ok /\ Allowed(proto, m, f)
  <2> HIDE DEF Allowed
  <2> QED BY DEF Read
<1> QED BY <1>2, <1>3, <1>4, <1>5 DEF TokenRead

LEMMA ReadWord ==
    ASSUME NEW q \in Request, NEW j \in Nat, j < Tokens(q), NEW i, NEW m,
           Told(ReasoningText, i, m.thinking), Told(q.reply, j, m.text),
           NEW proto, NEW f, NEW x, x = Read(proto, m, f),
           f.what = "delta", f.kind = "text", f.text = SplitTokens(q.reply)[j + 1]
    PROVE  /\ Told(ReasoningText, i, x.thinking) /\ Told(q.reply, j + 1, x.text)
           /\ TokenRead(m, f, x)
           /\ m.ok /\ Allowed(proto, m, f) => x.ok
<1>1. x.thinking = m.thinking \o << >> /\ x.text = m.text \o SplitTokens(q.reply)[j + 1]
  BY DEF Read
<1>2. x.thinking = m.thinking
  <2>1. m.thinking \in Text
    BY DEF Told
  <2> QED BY <1>1, <2>1, ConcatEmptySeq DEF Text
<1>3. Told(q.reply, j + 1, x.text)
  BY <1>1, TextsAreTexts, TokenTold DEF Tokens
<1>4. /\ x.open = m.open /\ x.index = m.index /\ x.blocks = m.blocks /\ x.count = m.count + 1
      /\ x.output = m.output
  BY DEF Read, Objects
<1>5. /\ x.image <=> m.image \/ f.image
      /\ x.finish <=> m.finish \/ f.finish
      /\ x.usage = IF f.usage = "none" THEN m.usage ELSE f.usage
      /\ x.ended <=> m.ended
      /\ x.ok <=> m.ok /\ Allowed(proto, m, f)
  <2> HIDE DEF Allowed
  <2> QED BY DEF Read
<1> QED BY <1>2, <1>3, <1>4, <1>5 DEF TokenRead

\* A frame without a token.
OtherRead(m, f, x) ==
    /\ x.thinking = m.thinking /\ x.text = m.text
    /\ f.what = "open" =>
          x.open = f.kind /\ x.index = f.index /\ x.blocks = m.blocks + 1
    /\ f.what = "close" =>
          x.open = "none" /\ x.index = m.index /\ x.blocks = m.blocks
    /\ f.what # "open" /\ f.what # "close" =>
          x.open = m.open /\ x.index = m.index /\ x.blocks = m.blocks
    /\ x.image <=> m.image \/ f.image
    /\ x.finish <=> m.finish \/ f.finish
    /\ x.usage = IF f.usage = "none" THEN m.usage ELSE f.usage
    /\ x.ended <=> m.ended \/ f.what = "end"
    /\ x.count = m.count + 1
    /\ x.output = IF f.what \in Objects THEN f.output ELSE m.output

LEMMA ReadOther ==
    ASSUME NEW m, m.thinking \in Text, m.text \in Text,
           NEW proto, NEW f, NEW x, x = Read(proto, m, f),
           f.what # "delta" \/ (f.kind # "thinking" /\ f.kind # "text")
    PROVE  OtherRead(m, f, x) /\ (m.ok /\ Allowed(proto, m, f) => x.ok)
<1>1. x.thinking = m.thinking \o << >> /\ x.text = m.text \o << >>
  BY DEF Read
<1>2. x.thinking = m.thinking /\ x.text = m.text
  BY <1>1, ConcatEmptySeq DEF Text
<1>3. /\ f.what = "open" =>
            x.open = f.kind /\ x.index = f.index /\ x.blocks = m.blocks + 1
      /\ f.what = "close" =>
            x.open = "none" /\ x.index = m.index /\ x.blocks = m.blocks
      /\ f.what # "open" /\ f.what # "close" =>
            x.open = m.open /\ x.index = m.index /\ x.blocks = m.blocks
      /\ x.count = m.count + 1
      /\ x.output = IF f.what \in Objects THEN f.output ELSE m.output
  BY DEF Read
<1>4. /\ x.image <=> m.image \/ f.image
      /\ x.finish <=> m.finish \/ f.finish
      /\ x.usage = IF f.usage = "none" THEN m.usage ELSE f.usage
      /\ x.ended <=> m.ended \/ f.what = "end"
      /\ x.ok <=> m.ok /\ Allowed(proto, m, f)
  <2> HIDE DEF Allowed
  <2> QED BY DEF Read
<1> QED BY <1>2, <1>3, <1>4 DEF OtherRead

-----------------------------------------------------------------------------
(* What a client knows after p steps of a script whose thoughts begin after *)
(* step b and whose words after step c, and in which the finish reason, the *)
(* first final figures and the end come with the steps after fin, use, end. *)

Knows(q, p, b, t, c, n, fin, use, end, m) ==
    /\ \E i, j : /\ Along(p, b, t, c, n, i, j)
                 /\ Told(ReasoningText, i, m.thinking) /\ Told(q.reply, j, m.text)
    /\ m.ok /\ ~ m.image
    /\ m.count \in Nat /\ (m.count = 0 <=> p <= 1)
    /\ m.finish <=> p > fin
    /\ m.usage = "final" <=> p > use
    /\ m.ended <=> p > end

\* How b, t, c and the rest lie.
Laid(b, t, c, n, fin, use, end) ==
    /\ t \in {0, Words(ReasoningText)}
    /\ 2 <= b /\ b + 2 * t <= c
    /\ c + 2 * n <= fin /\ (use = 1 \/ c + 2 * n <= use) /\ c + 2 * n <= end

LEMMA KnowsNothing ==
    ASSUME NEW q \in Request,
           NEW b \in Nat, NEW t \in Nat, NEW c \in Nat, NEW n \in Nat,
           NEW fin \in Nat, NEW use \in Nat, NEW end \in Nat, Laid(b, t, c, n, fin, use, end)
    PROVE  Knows(q, 0, b, t, c, n, fin, use, end, Nothing)
<1>1. /\ Told(ReasoningText, 0, << >>) /\ Told(q.reply, 0, << >>)
      /\ 2 <= b /\ b + 2 * t <= c
  BY TextsAreTexts, NothingTold DEF Laid
<1>2. Along(0, b, t, c, n, 0, 0)
  BY <1>1 DEF Along
<1>3. /\ Nothing.thinking = << >> /\ Nothing.text = << >> /\ Nothing.ok /\ ~ Nothing.image
      /\ ~ Nothing.finish /\ Nothing.usage # "final" /\ ~ Nothing.ended /\ Nothing.count = 0
  BY DEF Nothing
<1>4. ~ (0 > fin) /\ ~ (0 > use) /\ ~ (0 > end) /\ 0 <= 1 /\ 0 \in Nat
  OBVIOUS
<1> QED BY <1>1, <1>2, <1>3, <1>4 DEF Knows

\* What Along leaves of the next step in each part of a script.
LEMMA KnowsAlong ==
    ASSUME NEW q \in Request, NEW p \in Nat,
           NEW b \in Nat, NEW t \in Nat, NEW c \in Nat, NEW n \in Nat,
           NEW fin \in Nat, NEW use \in Nat, NEW end \in Nat, Laid(b, t, c, n, fin, use, end),
           NEW i, NEW j, Along(p, b, t, c, n, i, j)
    PROVE  /\ i \in 0 .. t /\ j \in 0 .. n
           /\ p < b \/ (b + 2 * t <= p /\ p < c) \/ p >= c + 2 * n =>
                 Along(p + 1, b, t, c, n, i, j)
           /\ b <= p /\ p < b + 2 * t =>
                 /\ i < t /\ j = 0
                 /\ \/ p = b + 2 * i /\ Along(p + 1, b, t, c, n, i, j)
                    \/ p = b + 2 * i + 1 /\ Along(p + 1, b, t, c, n, i + 1, j)
           /\ c <= p /\ p < c + 2 * n =>
                 /\ j < n /\ i = t
                 /\ \/ p = c + 2 * j /\ Along(p + 1, b, t, c, n, i, j)
                    \/ p = c + 2 * j + 1 /\ Along(p + 1, b, t, c, n, i, j + 1)
<1>1. b + 2 * t <= c /\ Along(p, b, t, c, n, i, j)
  BY DEF Laid
<1>2. /\ i \in 0 .. t /\ j \in 0 .. n
      /\ \/ /\ p < b \/ (b + 2 * t <= p /\ p < c) \/ p >= c + 2 * n
            /\ Along(p + 1, b, t, c, n, i, j)
            /\ p < b => i = 0
            /\ p < c => j = 0
            /\ p >= b + 2 * t => i = t
            /\ p >= c + 2 * n => j = n
         \/ p = b + 2 * i /\ i < t /\ j = 0 /\ Along(p + 1, b, t, c, n, i, j)
         \/ p = b + 2 * i + 1 /\ i < t /\ j = 0 /\ Along(p + 1, b, t, c, n, i + 1, j)
         \/ p = c + 2 * j /\ j < n /\ i = t /\ Along(p + 1, b, t, c, n, i, j)
         \/ p = c + 2 * j + 1 /\ j < n /\ i = t /\ Along(p + 1, b, t, c, n, i, j + 1)
  BY <1>1, AlongNext
<1>3. ASSUME p < b \/ (b + 2 * t <= p /\ p < c) \/ p >= c + 2 * n
      PROVE  Along(p + 1, b, t, c, n, i, j)
  BY <1>1, <1>2, <1>3
<1>4. ASSUME b <= p, p < b + 2 * t
      PROVE  /\ i < t /\ j = 0
             /\ \/ p = b + 2 * i /\ Along(p + 1, b, t, c, n, i, j)
                \/ p = b + 2 * i + 1 /\ Along(p + 1, b, t, c, n, i + 1, j)
  BY <1>1, <1>2, <1>4
<1>5. ASSUME c <= p, p < c + 2 * n
      PROVE  /\ j < n /\ i = t
             /\ \/ p = c + 2 * j /\ Along(p + 1, b, t, c, n, i, j)
                \/ p = c + 2 * j + 1 /\ Along(p + 1, b, t, c, n, i, j + 1)
  BY <1>1, <1>2, <1>5
<1> QED BY <1>2, <1>3, <1>4, <1>5

\* The first step is a wait.
LEMMA FirstTurn ==
    ASSUME NEW q \in Request,
           NEW b \in Nat, NEW t \in Nat, NEW c \in Nat, NEW n \in Nat,
           NEW fin \in Nat, NEW use \in Nat, NEW end \in Nat, Laid(b, t, c, n, fin, use, end),
           NEW m, Knows(q, 0, b, t, c, n, fin, use, end, m)
    PROVE  Knows(q, 1, b, t, c, n, fin, use, end, m)
<1>1. PICK i, j : /\ Along(0, b, t, c, n, i, j)
                  /\ Told(ReasoningText, i, m.thinking) /\ Told(q.reply, j, m.text)
  BY DEF Knows
<1>2. 2 <= b /\ b + 2 * t <= c /\ c <= fin /\ 1 <= use /\ c <= end
  BY DEF Laid
<1>3. Along(1, b, t, c, n, i, j)
  BY <1>1, <1>2 DEF Along
<1>4. /\ ~ (0 > fin) /\ ~ (0 > use) /\ ~ (0 > end) /\ 0 <= 1
      /\ ~ (1 > fin) /\ ~ (1 > use) /\ ~ (1 > end) /\ 1 <= 1
  BY <1>2
<1>5. /\ m.ok /\ ~ m.image /\ m.count \in Nat /\ m.count = 0
      /\ ~ m.finish /\ m.usage # "final" /\ ~ m.ended
  BY <1>4 DEF Knows
<1> QED BY <1>1, <1>3, <1>4, <1>5 DEF Knows

\* A frame f without a token that comes with step p + 1.
OtherFrame(p, b, t, c, n, fin, use, end, f) ==
    /\ p > 0
    /\ p < b \/ (b + 2 * t <= p /\ p < c) \/ p >= c + 2 * n
    /\ f.what # "delta" \/ (f.kind # "thinking" /\ f.kind # "text")
    /\ f.finish <=> p = fin
    /\ p = use => f.usage = "final"
    /\ f.usage = "final" => p = use \/ p > use
    /\ f.usage # "none" /\ f.usage # "final" => ~ (p > use)
    /\ f.what = "end" <=> p = end
    /\ ~ f.image

LEMMA OtherTurn ==
    ASSUME NEW q \in Request, NEW p \in Nat,
           NEW b \in Nat, NEW t \in Nat, NEW c \in Nat, NEW n \in Nat,
           NEW fin \in Nat, NEW use \in Nat, NEW end \in Nat, Laid(b, t, c, n, fin, use, end),
           NEW m, Knows(q, p, b, t, c, n, fin, use, end, m),
           NEW proto, NEW f, Allowed(proto, m, f), OtherFrame(p, b, t, c, n, fin, use, end, f)
    PROVE  /\ Knows(q, p + 1, b, t, c, n, fin, use, end, Read(proto, m, f))
           /\ OtherRead(m, f, Read(proto, m, f))
<1>1. PICK i, j : /\ Along(p, b, t, c, n, i, j)
                  /\ Told(ReasoningText, i, m.thinking) /\ Told(q.reply, j, m.text)
  BY DEF Knows
<1>2. /\ p > 0
      /\ p < b \/ (b + 2 * t <= p /\ p < c) \/ p >= c + 2 * n
  BY DEF OtherFrame
<1>3. /\ f.what # "delta" \/ (f.kind # "thinking" /\ f.kind # "text")
      /\ f.finish <=> p = fin
      /\ p = use => f.usage = "final"
      /\ f.usage = "final" => p = use \/ p > use
      /\ f.usage # "none" /\ f.usage # "final" => ~ (p > use)
      /\ f.what = "end" <=> p = end
      /\ ~ f.image
  BY DEF OtherFrame
<1>4. Along(p + 1, b, t, c, n, i, j)
  BY <1>1, <1>2, KnowsAlong
<1>5. PICK x : x = Read(proto, m, f)
  OBVIOUS
<1>6. /\ m.ok /\ ~ m.image /\ m.count \in Nat /\ (m.count = 0 <=> p <= 1)
      /\ m.finish <=> p > fin
      /\ m.usage = "final" <=> p > use
      /\ m.ended <=> p > end
  BY DEF Knows
<1>7. OtherRead(m, f, x) /\ x.ok
  <2>1. m.thinking \in Text /\ m.text \in Text
    BY <1>1 DEF Told
  <2> QED BY <1>5, <1>6, <2>1, <1>3, ReadOther
<1>8. x.count \in Nat /\ (x.count = 0 <=> p + 1 <= 1)
  BY <1>6, <1>7, <1>2 DEF OtherRead
<1>9. /\ p > fin \/ p = fin <=> p + 1 > fin
      /\ p > use \/ p = use <=> p + 1 > use
      /\ p > end \/ p = end <=> p + 1 > end
  OBVIOUS
<1>10. /\ ~ x.image
       /\ x.finish <=> p > fin \/ p = fin
       /\ x.ended <=> p > end \/ p = end
  BY <1>6, <1>7, <1>3, Zenon DEF OtherRead
<1>11. x.thinking = m.thinking /\ x.text = m.text
  BY <1>7 DEF OtherRead
<1>12. x.finish <=> p + 1 > fin
  BY <1>9, <1>10, Zenon
<1>13. x.usage = "final" <=> p + 1 > use
  <2>1. x.usage = IF f.usage = "none" THEN m.usage ELSE f.usage
    BY <1>7 DEF OtherRead
  <2>2. CASE f.usage = "none"
    BY <1>3, <1>6, <1>9, <2>1, <2>2
  <2>3. CASE f.usage # "none"
    BY <1>3, <1>9, <2>1, <2>3
  <2> QED BY <2>2, <2>3
<1>14. x.ended <=> p + 1 > end
  BY <1>9, <1>10, Zenon
<1>15. Knows(q, p + 1, b, t, c, n, fin, use, end, x)
  BY <1>1, <1>4, <1>7, <1>8, <1>10, <1>11, <1>12, <1>13, <1>14 DEF Knows
<1> QED BY <1>5, <1>7, <1>15

\* A frame with the k-th token of text.
TokenFrame(f, kind, text, k) ==
    /\ f.what = "delta" /\ f.kind = kind /\ f.text = SplitTokens(text)[k]
    /\ ~ f.finish /\ f.usage = "none" /\ ~ f.image

\* Step p + 1 is the wait before the k-th of the tokens of text that begin
\* after step first, or that token.
TokenStep(q, p, b, t, c, n, fin, use, end, m, first, kind, text, k) ==
    \/ p + 1 = first + 2 * k - 1 /\ Knows(q, p + 1, b, t, c, n, fin, use, end, m)
    \/ /\ p + 1 = first + 2 * k
       /\ \A proto, f :
            TokenFrame(f, kind, text, k) /\ Allowed(proto, m, f) =>
               /\ Knows(q, p + 1, b, t, c, n, fin, use, end, Read(proto, m, f))
               /\ TokenRead(m, f, Read(proto, m, f))

\* Whatever the token, the rest of what the client knows follows.
LEMMA AnyToken ==
    ASSUME NEW q \in Request, NEW p \in Nat,
           NEW b \in Nat, NEW t \in Nat, NEW c \in Nat, NEW n \in Nat,
           NEW fin \in Nat, NEW use \in Nat, NEW end \in Nat, Laid(b, t, c, n, fin, use, end),
           NEW m, Knows(q, p, b, t, c, n, fin, use, end, m), b <= p, p < c + 2 * n,
           NEW x, NEW i, NEW j, Along(p + 1, b, t, c, n, i, j),
           Told(ReasoningText, i, x.thinking), Told(q.reply, j, x.text),
           x.ok, x.image <=> m.image, x.finish <=> m.finish, x.usage = m.usage,
           x.ended <=> m.ended, x.count = m.count \/ x.count = m.count + 1
    PROVE  Knows(q, p + 1, b, t, c, n, fin, use, end, x)
<1>1. /\ 2 <= p /\ p < fin /\ (use = 1 \/ p < use) /\ p < end
  <2>1. n \in Nat
    BY Numbers
  <2> QED BY <2>1 DEF Laid
<1>2. /\ ~ (p > fin) /\ ~ (p > end) /\ ~ (p <= 1) /\ (p > use <=> p + 1 > use)
      /\ ~ (p + 1 > fin) /\ ~ (p + 1 > end) /\ ~ (p + 1 <= 1)
  BY <1>1
<1>3. ~ m.image /\ ~ m.finish /\ ~ m.ended /\ m.count \in Nat /\ m.count # 0
  BY <1>2 DEF Knows
<1>4. x.count \in Nat /\ x.count # 0
  BY <1>3
<1>5. x.usage = "final" <=> p + 1 > use
  BY <1>2 DEF Knows
<1> QED BY <1>2, <1>3, <1>4, <1>5 DEF Knows

LEMMA ThoughtTurn ==
    ASSUME NEW q \in Request, NEW p \in Nat,
           NEW b \in Nat, NEW t \in Nat, NEW c \in Nat, NEW n \in Nat,
           NEW fin \in Nat, NEW use \in Nat, NEW end \in Nat, Laid(b, t, c, n, fin, use, end),
           NEW m, Knows(q, p, b, t, c, n, fin, use, end, m), b <= p, p < b + 2 * t
    PROVE  /\ m.text = << >>
           /\ \E k \in 1 .. t :
                TokenStep(q, p, b, t, c, n, fin, use, end, m, b, "thinking", ReasoningText, k)
<1>1. PICK i, j : /\ Along(p, b, t, c, n, i, j)
                  /\ Told(ReasoningText, i, m.thinking) /\ Told(q.reply, j, m.text)
  BY DEF Knows
<1>2. /\ i \in Nat /\ i < t /\ j = 0
      /\ \/ p = b + 2 * i /\ Along(p + 1, b, t, c, n, i, j)
         \/ p = b + 2 * i + 1 /\ Along(p + 1, b, t, c, n, i + 1, j)
  <2>1. i \in 0 .. t
    BY <1>1, KnowsAlong
  <2>2. /\ i < t /\ j = 0
        /\ \/ p = b + 2 * i /\ Along(p + 1, b, t, c, n, i, j)
           \/ p = b + 2 * i + 1 /\ Along(p + 1, b, t, c, n, i + 1, j)
    BY <1>1, KnowsAlong
  <2> QED BY <2>1, <2>2
<1>3. i + 1 \in 1 .. t /\ i < Words(ReasoningText) /\ p < c + 2 * n
  <2>1. i + 1 \in 1 .. t /\ t # 0
    BY <1>2
  <2>2. t = Words(ReasoningText) /\ b + 2 * t <= c
    BY <2>1 DEF Laid
  <2>3. n \in Nat
    BY Numbers
  <2> QED BY <1>2, <2>1, <2>2, <2>3
<1>4. PICK k \in 1 .. t : k = i + 1
  BY <1>3
<1>5. m.ok
  BY DEF Knows
<1>6. ASSUME p = b + 2 * i /\ Along(p + 1, b, t, c, n, i, j)
      PROVE  TokenStep(q, p, b, t, c, n, fin, use, end, m, b, "thinking", ReasoningText, k)
  <2>1. p + 1 = b + 2 * (i + 1) - 1
    BY <1>2, <1>6
  <2>2. Knows(q, p + 1, b, t, c, n, fin, use, end, m)
    BY <1>1, <1>3, <1>5, <1>6, AnyToken
  <2> QED BY <1>4, <2>1, <2>2 DEF TokenStep
<1>7. ASSUME p = b + 2 * i + 1 /\ Along(p + 1, b, t, c, n, i + 1, j)
      PROVE  TokenStep(q, p, b, t, c, n, fin, use, end, m, b, "thinking", ReasoningText, k)
  <2>1. p + 1 = b + 2 * (i + 1)
    BY <1>2, <1>7
  <2>2. ASSUME NEW proto, NEW f, TokenFrame(f, "thinking", ReasoningText, k),
               Allowed(proto, m, f)
        PROVE  /\ Knows(q, p + 1, b, t, c, n, fin, use, end, Read(proto, m, f))
               /\ TokenRead(m, f, Read(proto, m, f))
    <3>1. PICK x : x = Read(proto, m, f)
      OBVIOUS
    <3>2. /\ f.what = "delta" /\ f.kind = "thinking" /\ f.text = SplitTokens(ReasoningText)[i + 1]
          /\ ~ f.finish /\ f.usage = "none" /\ ~ f.image
      BY <1>4, <2>2 DEF TokenFrame
    <3>3. /\ Told(ReasoningText, i + 1, x.thinking) /\ Told(q.reply, j, x.text)
          /\ TokenRead(m, f, x) /\ x.ok
      <4>1. i \in Nat /\ i < Words(ReasoningText)
        BY <1>2, <1>3
      <4>2. Told(ReasoningText, i, m.thinking) /\ Told(q.reply, j, m.text)
        BY <1>1
      <4>3. /\ Told(ReasoningText, i + 1, x.thinking) /\ Told(q.reply, j, x.text)
            /\ TokenRead(m, f, x)
            /\ m.ok /\ Allowed(proto, m, f) => x.ok
        BY <3>1, <3>2, <4>1, <4>2, ReadThought
      <4> QED BY <1>5, <2>2, <4>3
    <3>4. /\ x.image <=> m.image
          /\ x.finish <=> m.finish
          /\ x.usage = m.usage
          /\ x.ended <=> m.ended
          /\ x.count = m.count + 1
      BY <3>2, <3>3, Zenon DEF TokenRead
    <3>5. Knows(q, p + 1, b, t, c, n, fin, use, end, x)
      <4> HIDE DEF Knows, Told, Along
      <4> QED BY <1>3, <1>7, <3>3, <3>4, AnyToken
    <3> QED BY <3>1, <3>3, <3>5
  <2> QED BY <1>4, <2>1, <2>2 DEF TokenStep
<1>8. m.text = << >>
  BY <1>1, <1>2 DEF Told
<1> QED BY <1>2, <1>6, <1>7, <1>8

LEMMA WordTurn ==
    ASSUME NEW q \in Request, NEW p \in Nat,
           NEW b \in Nat, NEW t \in Nat, NEW c \in Nat, NEW n \in Nat,
           NEW fin \in Nat, NEW use \in Nat, NEW end \in Nat,
           n <= Tokens(q), Laid(b, t, c, n, fin, use, end),
           NEW m, Knows(q, p, b, t, c, n, fin, use, end, m), c <= p, p < c + 2 * n
    PROVE  \E k \in 1 .. n :
             TokenStep(q, p, b, t, c, n, fin, use, end, m, c, "text", q.reply, k)
<1>1. PICK i, j : /\ Along(p, b, t, c, n, i, j)
                  /\ Told(ReasoningText, i, m.thinking) /\ Told(q.reply, j, m.text)
  BY DEF Knows
<1>2. /\ j \in Nat /\ j < n
      /\ \/ p = c + 2 * j /\ Along(p + 1, b, t, c, n, i, j)
         \/ p = c + 2 * j + 1 /\ Along(p + 1, b, t, c, n, i, j + 1)
  <2>1. j \in 0 .. n
    BY <1>1, KnowsAlong
  <2>2. /\ j < n
        /\ \/ p = c + 2 * j /\ Along(p + 1, b, t, c, n, i, j)
           \/ p = c + 2 * j + 1 /\ Along(p + 1, b, t, c, n, i, j + 1)
    <3>1. Along(p, b, t, c, n, i, j)
      BY <1>1
    <3>2. c <= p /\ p < c + 2 * n =>
             /\ j < n /\ i = t
             /\ \/ p = c + 2 * j /\ Along(p + 1, b, t, c, n, i, j)
                \/ p = c + 2 * j + 1 /\ Along(p + 1, b, t, c, n, i, j + 1)
      BY <3>1, KnowsAlong
    <3> QED BY <3>2
  <2> QED BY <2>1, <2>2
<1>3. j + 1 \in 1 .. n /\ b <= p
  <2>1. b + 2 * t <= c
    BY DEF Laid
  <2> QED BY <1>2, <2>1
<1>4. j < Tokens(q)
  <2>1. Tokens(q) \in Nat
    BY Numbers
  <2> QED BY <1>2, <2>1
<1>5. PICK k \in 1 .. n : k = j + 1
  BY <1>3
<1>6. m.ok
  BY DEF Knows
<1>7. ASSUME p = c + 2 * j /\ Along(p + 1, b, t, c, n, i, j)
      PROVE  TokenStep(q, p, b, t, c, n, fin, use, end, m, c, "text", q.reply, k)
  <2>1. p + 1 = c + 2 * (j + 1) - 1
    BY <1>2, <1>7
  <2>2. Knows(q, p + 1, b, t, c, n, fin, use, end, m)
    BY <1>1, <1>3, <1>6, <1>7, AnyToken
  <2> QED BY <1>5, <2>1, <2>2 DEF TokenStep
<1>8. ASSUME p = c + 2 * j + 1 /\ Along(p + 1, b, t, c, n, i, j + 1)
      PROVE  TokenStep(q, p, b, t, c, n, fin, use, end, m, c, "text", q.reply, k)
  <2>1. p + 1 = c + 2 * (j + 1)
    BY <1>2, <1>8
  <2>2. ASSUME NEW proto, NEW f, TokenFrame(f, "text", q.reply, k), Allowed(proto, m, f)
        PROVE  /\ Knows(q, p + 1, b, t, c, n, fin, use, end, Read(proto, m, f))
               /\ TokenRead(m, f, Read(proto, m, f))
    <3>1. PICK x : x = Read(proto, m, f)
      OBVIOUS
    <3>2. /\ f.what = "delta" /\ f.kind = "text" /\ f.text = SplitTokens(q.reply)[j + 1]
          /\ ~ f.finish /\ f.usage = "none" /\ ~ f.image
      BY <1>5, <2>2 DEF TokenFrame
    <3>3. /\ Told(ReasoningText, i, x.thinking) /\ Told(q.reply, j + 1, x.text)
          /\ TokenRead(m, f, x) /\ x.ok
      BY <1>1, <1>2, <1>6, <1>4, <2>2, <3>1, <3>2, ReadWord
    <3>4. /\ x.image <=> m.image
          /\ x.finish <=> m.finish
          /\ x.usage = m.usage
          /\ x.ended <=> m.ended
          /\ x.count = m.count + 1
      BY <3>2, <3>3, Zenon DEF TokenRead
    <3>5. Knows(q, p + 1, b, t, c, n, fin, use, end, x)
      <4> HIDE DEF Knows, Told, Along
      <4> QED BY <1>3, <1>8, <3>3, <3>4, AnyToken
    <3> QED BY <3>1, <3>3, <3>5
  <2> QED BY <1>5, <2>1, <2>2 DEF TokenStep
<1> QED BY <1>2, <1>7, <1>8

\* What the client has heard once the thoughts, or the words, are all out.
LEMMA ThoughtsTold ==
    ASSUME NEW q \in Request, NEW p \in Nat,
           NEW b \in Nat, NEW t \in Nat, NEW c \in Nat, NEW n \in Nat,
           NEW fin \in Nat, NEW use \in Nat, NEW end \in Nat, Laid(b, t, c, n, fin, use, end),
           NEW m, Knows(q, p, b, t, c, n, fin, use, end, m), p >= b + 2 * t
    PROVE  Told(ReasoningText, t, m.thinking)
<1>1. PICK i, j : /\ Along(p, b, t, c, n, i, j)
                  /\ Told(ReasoningText, i, m.thinking) /\ Told(q.reply, j, m.text)
  BY DEF Knows
<1>2. i = t
  BY <1>1 DEF Along
<1> QED BY <1>1, <1>2

LEMMA WordsTold ==
    ASSUME NEW q \in Request, NEW p \in Nat,
           NEW b \in Nat, NEW t \in Nat, NEW c \in Nat, NEW n \in Nat,
           NEW fin \in Nat, NEW use \in Nat, NEW end \in Nat, Laid(b, t, c, n, fin, use, end),
           n <= Tokens(q), Tokens(q) <= n,
           NEW m, Knows(q, p, b, t, c, n, fin, use, end, m), p >= c + 2 * n
    PROVE  /\ Fields(m.text) = Fields(q.reply)
           /\ Spaced(q.reply) => m.text = q.reply
<1>1. PICK i, j : /\ Along(p, b, t, c, n, i, j)
                  /\ Told(ReasoningText, i, m.thinking) /\ Told(q.reply, j, m.text)
  BY DEF Knows
<1>2. j = n
  BY <1>1 DEF Along
<1>3. n = Tokens(q)
  BY Numbers
<1>4. Told(q.reply, Words(q.reply), m.text)
  BY <1>1, <1>2, <1>3 DEF Tokens
<1> QED BY <1>4, TextsAreTexts, AllTold

-----------------------------------------------------------------------------
(* Chat streams: no blocks, and the usage only if it was asked for.        *)

ChatFinish(q) == ChatText(q) + 2 * Tokens(q)
ChatUsage(q) == IF q.usage THEN ChatFinish(q) + 1 ELSE ChatFinish(q) + 2
ChatEnd(q) == IF q.usage THEN ChatFinish(q) + 2 ELSE ChatFinish(q) + 1

ChatKnows(q, p, m) ==
    /\ Knows(q, p, 2, Thoughts(q), ChatText(q), Tokens(q),
             ChatFinish(q), ChatUsage(q), ChatEnd(q), m)
    /\ m.open = "none"

\* How the numbers of its layout lie.
ChatShape(q, b, t, c, n, fin, use, end) ==
    /\ b = 2 /\ t = Thoughts(q) /\ c = ChatText(q) /\ n = Tokens(q)
    /\ fin = ChatFinish(q) /\ use = ChatUsage(q) /\ end = ChatEnd(q)
    /\ c = b + 2 * t /\ fin = c + 2 * n
    /\ (q.usage /\ use = fin + 1 /\ end = fin + 2) \/ (~ q.usage /\ use = fin + 2 /\ end = fin + 1)
    /\ Laid(b, t, c, n, fin, use, end)

LEMMA ChatLies ==
    ASSUME NEW q \in Request
    PROVE  \E b, t, c, n, fin, use, end \in Nat : ChatShape(q, b, t, c, n, fin, use, end)
<1>1. PICK b \in Nat, t \in Nat, n \in Nat :
        b = 2 /\ t = Thoughts(q) /\ n = Tokens(q) /\ t \in {0, Words(ReasoningText)}
  BY Numbers DEF Thoughts
<1>2. PICK c \in Nat, fin \in Nat : c = ChatText(q) /\ fin = ChatFinish(q)
                               /\ c = b + 2 * t /\ fin = c + 2 * n
  BY <1>1 DEF ChatText, ChatFinish
<1>3. PICK use, end : use = ChatUsage(q) /\ end = ChatEnd(q)
  OBVIOUS
<1>4. (q.usage /\ use = fin + 1 /\ end = fin + 2) \/ (~ q.usage /\ use = fin + 2 /\ end = fin + 1)
  <2>1. fin = ChatFinish(q)
    BY <1>2
  <2>2. CASE q.usage
    BY <1>3, <2>1, <2>2 DEF ChatUsage, ChatEnd
  <2>3. CASE ~ q.usage
    BY <1>3, <2>1, <2>3 DEF ChatUsage, ChatEnd
  <2> QED BY <2>2, <2>3
<1>5. /\ b \in Nat /\ t \in Nat /\ n \in Nat /\ c \in Nat /\ fin \in Nat
      /\ b = 2 /\ c = b + 2 * t /\ fin = c + 2 * n
  BY <1>1, <1>2
<1>6. /\ use \in Nat /\ end \in Nat
      /\ fin < use /\ fin < end /\ use # end /\ end <= fin + 2
      /\ q.usage <=> use = fin + 1
      /\ q.usage <=> end = fin + 2
  BY <1>4, <1>5
<1>7. /\ 2 <= b /\ b + 2 * t <= c
      /\ c + 2 * n <= fin /\ c + 2 * n <= use /\ c + 2 * n <= end
  BY <1>5, <1>6
<1>8. Laid(b, t, c, n, fin, use, end)
  <2>1. t \in {0, Words(ReasoningText)}
    BY <1>1
  <2> QED BY <1>7, <2>1, Zenon DEF Laid
<1> QED BY <1>1, <1>2, <1>3, <1>4, <1>5, <1>6, <1>8 DEF ChatShape

LEMMA ChatBegins ==
    ASSUME NEW q \in Request
    PROVE  ChatKnows(q, 0, Nothing)
<1>1. PICK b, t, c, n, fin, use, end \in Nat : ChatShape(q, b, t, c, n, fin, use, end)
  BY ChatLies
<1>2. Laid(b, t, c, n, fin, use, end)
  BY <1>1 DEF ChatShape
<1>3. Knows(q, 0, b, t, c, n, fin, use, end, Nothing)
  BY <1>2, KnowsNothing
<1>4. Nothing.open = "none"
  BY DEF Nothing
<1> QED BY <1>1, <1>3, <1>4 DEF ChatKnows, ChatShape

LEMMA ChatStep ==
    ASSUME NEW q \in Request, NEW s, ChatLaidOut(q, s), NEW p \in Nat, p < Len(s),
           NEW m, ChatKnows(q, p, m), NEW proto, proto \in {"openai", "zhipu"}
    PROVE  \/ s[p + 1] = Wait /\ ChatKnows(q, p + 1, m)
           \/ \E f : /\ s[p + 1] = Send(f)
                     /\ \A z : ChatKnows(q, p + 1, Read(proto, m, Numbered(f, z)))
<1>1. PICK b, t, c, n, fin, use, end \in Nat : ChatShape(q, b, t, c, n, fin, use, end)
  BY ChatLies
<1>2. /\ b = 2 /\ t = Thoughts(q) /\ c = ChatText(q) /\ n = Tokens(q)
      /\ fin = ChatFinish(q) /\ use = ChatUsage(q) /\ end = ChatEnd(q)
      /\ fin = c + 2 * n
  BY <1>1 DEF ChatShape
<1>3. (q.usage /\ use = fin + 1 /\ end = fin + 2) \/ (~ q.usage /\ use = fin + 2 /\ end = fin + 1)
  BY <1>1 DEF ChatShape
<1>4. b = 2 /\ c = b + 2 * t /\ fin = c + 2 * n
  BY <1>1 DEF ChatShape
<1>5. /\ b \in Nat /\ t \in Nat /\ c \in Nat /\ n \in Nat
      /\ fin \in Nat /\ use \in Nat /\ end \in Nat
      /\ b = 2 /\ c = b + 2 * t /\ fin = c + 2 * n
      /\ fin < use /\ fin < end /\ use # end /\ end <= fin + 2
  BY <1>4, <1>3
<1>6. Laid(b, t, c, n, fin, use, end)
  BY <1>1 DEF ChatShape
<1>7. Knows(q, p, b, t, c, n, fin, use, end, m) /\ m.open = "none"
  BY <1>2 DEF ChatKnows
<1>8. /\ Laid(b, t, c, n, fin, use, end)
      /\ Knows(q, p, b, t, c, n, fin, use, end, m)
  BY <1>6, <1>7
<1>9. n \in Nat /\ n <= Tokens(q)
  <2>1. n = Tokens(q) /\ Tokens(q) \in Nat
    BY <1>2, Numbers
  <2> QED BY <2>1
<1>10. /\ m.open = "none" /\ ~ m.image
       /\ m.count \in Nat /\ (m.count = 0 <=> p <= 1)
       /\ m.finish <=> p > fin
       /\ m.usage = "final" <=> p > use
       /\ m.ended <=> p > end
  BY <1>7 DEF Knows
<1>11. /\ Len(s) = end + 1
       /\ s[1] = Wait /\ s[2] = Send(Bare("start"))
       /\ \A k \in 1 .. t :
            /\ s[b + 2 * k - 1] = Wait
            /\ s[b + 2 * k] = Send(Frame("delta", 0, "thinking", SplitTokens(ReasoningText)[k]))
       /\ \A k \in 1 .. n :
            /\ s[c + 2 * k - 1] = Wait
            /\ s[c + 2 * k] = Send(Frame("delta", 0, "text", SplitTokens(q.reply)[k]))
       /\ s[fin + 1] = Send([Bare("finish") EXCEPT !.finish = TRUE])
       /\ q.usage => s[use + 1] = Send([Bare("usage") EXCEPT !.usage = "final"])
       /\ s[end + 1] = Send(Bare("end"))
  <2>1. PICK u \in {0, 1} : u = IF q.usage THEN 1 ELSE 0
    OBVIOUS
  <2>2. /\ fin + 2 + u = end + 1
        /\ q.usage => fin + 2 = use + 1
    BY <1>5, <1>3, <2>1
  <2>3. ChatLaidOut(q, s) /\ fin = ChatText(q) + 2 * Tokens(q)
    BY <1>2
  <2> HIDE DEF Wait, Send, Bare
  <2>4. /\ Len(s) = fin + 2 + u
        /\ s[1] = Wait /\ s[2] = Send(Bare("start"))
        /\ Talks(s, 2, t, 0, "thinking", ReasoningText)
        /\ Talks(s, c, n, 0, "text", q.reply)
        /\ s[fin + 1] = Send([Bare("finish") EXCEPT !.finish = TRUE])
        /\ q.usage => s[fin + 2] = Send([Bare("usage") EXCEPT !.usage = "final"])
        /\ s[fin + 2 + u] = Send(Bare("end"))
    BY <1>2, <2>1, <2>3 DEF ChatLaidOut
  <2> QED BY <1>2, <2>2, <2>4 DEF Talks
<1>12. ASSUME NEW y, Knows(q, p + 1, b, t, c, n, fin, use, end, y), y.open = "none"
       PROVE  ChatKnows(q, p + 1, y)
  BY <1>2, <1>12 DEF ChatKnows
<1>13. CASE p = 0
  <2>1. Knows(q, 1, b, t, c, n, fin, use, end, m)
    BY <1>6, <1>7, <1>13, FirstTurn
  <2> QED BY <1>7, <1>11, <1>12, <1>13, <2>1
<1>14. CASE p = 1
  <2>1. s[p + 1] = Send(Bare("start"))
    <3>1. p + 1 = 2
      BY <1>5, <1>14
    <3> QED BY <1>11, <1>14, <3>1
  <2>2. ASSUME NEW z
        PROVE  ChatKnows(q, p + 1,
                   Read(proto, m, Numbered(Bare("start"), z)))
    <3> DEFINE f == Numbered(Bare("start"), z)
    <3>1. /\ f.what = "start" /\ f.kind = "none"
          /\ ~ f.finish /\ f.usage = "none" /\ ~ f.image
      BY DEF Numbered, Bare, Frame
    <3> HIDE DEF f
    <3>2. m.count = 0 /\ ~ m.finish /\ m.usage # "final" /\ ~ m.ended
      BY <1>10, <1>5, <1>14
    <3>3. Allowed(proto, m, f)
      BY <3>1, <3>2 DEF Allowed, UsageAllowed, Objects, Blocks
    <3>4. /\ p > 0
          /\ p < b \/ (b + 2 * t <= p /\ p < c) \/ p >= c + 2 * n
          /\ p # fin /\ p # use /\ p # end
      BY <1>5, <1>14
    <3>5. /\ f.finish <=> p = fin
          /\ p = use => f.usage = "final"
          /\ f.usage = "final" => p = use \/ p > use
          /\ f.usage # "none" /\ f.usage # "final" => ~ (p > use)
          /\ f.what = "end" <=> p = end
          /\ f.what # "delta" \/ (f.kind # "thinking" /\ f.kind # "text")
      BY <3>1, <3>4, Zenon
    <3>6. PICK y : y = Read(proto, m, f)
      OBVIOUS
    <3>7. OtherFrame(p, b, t, c, n, fin, use, end, f)
      BY <3>1, <3>4, <3>5, Zenon DEF OtherFrame
    <3>8. Knows(q, p + 1, b, t, c, n, fin, use, end, y) /\ OtherRead(m, f, y)
      BY <1>8, <3>3, <3>6, <3>7, OtherTurn
    <3>9. y.open = "none"
      BY <1>5, <1>7, <1>14, <3>1, <3>2, <3>8 DEF OtherRead
    <3>10. ChatKnows(q, p + 1, y)
      BY <1>12, <3>8, <3>9
    <3> QED BY <3>6, <3>10 DEF f
  <2> QED BY <2>1, <2>2
<1>15. CASE b <= p /\ p < b + 2 * t
  <2>1. PICK k \in 1 .. t :
          TokenStep(q, p, b, t, c, n, fin, use, end, m, b, "thinking", ReasoningText, k)
    BY <1>8, <1>15, ThoughtTurn
  <2>2. m.text = << >>
    BY <1>8, <1>15, ThoughtTurn
  <2>3. m.count # 0 /\ ~ m.finish /\ ~ m.ended
    BY <1>10, <1>5, <1>15
  <2>4. CASE p + 1 = b + 2 * k - 1 /\ Knows(q, p + 1, b, t, c, n, fin, use, end, m)
    <3>1. s[p + 1] = Wait
      BY <1>11, <2>4
    <3>2. m.open = "none"
      BY <1>5, <1>7, <1>15, <2>3
    <3> QED BY <1>12, <2>4, <3>1, <3>2
  <2>5. CASE /\ p + 1 = b + 2 * k
             /\ \A g, f :
                  TokenFrame(f, "thinking", ReasoningText, k) /\ Allowed(g, m, f) =>
                     /\ Knows(q, p + 1, b, t, c, n, fin, use, end, Read(g, m, f))
                     /\ TokenRead(m, f, Read(g, m, f))
    <3>1. s[p + 1] = Send(Frame("delta", 0, "thinking", SplitTokens(ReasoningText)[k]))
      BY <1>11, <2>5
    <3>2. ASSUME NEW z
          PROVE  ChatKnows(q, p + 1, Read(proto, m,
                    Numbered(Frame("delta", 0, "thinking", SplitTokens(ReasoningText)[k]), z)))
      <4> DEFINE f == Numbered(Frame("delta", 0, "thinking", SplitTokens(ReasoningText)[k]), z)
      <4>1. /\ f.what = "delta" /\ f.kind = "thinking" /\ f.index = 0
            /\ f.text = SplitTokens(ReasoningText)[k]
            /\ ~ f.finish /\ f.usage = "none" /\ ~ f.image
        BY DEF Numbered, Frame
      <4> HIDE DEF f
      <4>2. TokenFrame(f, "thinking", ReasoningText, k)
        BY <4>1 DEF TokenFrame
      <4>3. Allowed(proto, m, f)
        BY <2>3, <2>2, <4>1 DEF Allowed, UsageAllowed, Objects, Blocks
      <4>4. PICK y : y = Read(proto, m, f)
        OBVIOUS
      <4>5. Knows(q, p + 1, b, t, c, n, fin, use, end, y) /\ TokenRead(m, f, y)
        BY <2>5, <4>2, <4>3, <4>4
      <4>6. y.open = "none"
        BY <1>5, <1>7, <1>15, <2>3, <4>5 DEF TokenRead
      <4>7. ChatKnows(q, p + 1, y)
        BY <1>12, <4>5, <4>6
      <4> QED BY <4>4, <4>7 DEF f
    <3> QED BY <3>1, <3>2
  <2> QED BY <2>1, <2>4, <2>5 DEF TokenStep
<1>16. CASE c <= p /\ p < fin
  <2>1. c <= p /\ p < c + 2 * n /\ n <= Tokens(q)
    BY <1>5, <1>9, <1>16
  <2>2. PICK k \in 1 .. n :
          TokenStep(q, p, b, t, c, n, fin, use, end, m, c, "text", q.reply, k)
    BY <1>8, <2>1, WordTurn
  <2>3. m.count # 0 /\ ~ m.finish /\ ~ m.ended
    BY <1>10, <1>5, <1>16
  <2>4. CASE p + 1 = c + 2 * k - 1 /\ Knows(q, p + 1, b, t, c, n, fin, use, end, m)
    <3>1. s[p + 1] = Wait
      BY <1>11, <2>4
    <3>2. m.open = "none"
      BY <1>5, <1>7, <1>16, <2>3
    <3> QED BY <1>12, <2>4, <3>1, <3>2
  <2>5. CASE /\ p + 1 = c + 2 * k
             /\ \A g, f :
                  TokenFrame(f, "text", q.reply, k) /\ Allowed(g, m, f) =>
                     /\ Knows(q, p + 1, b, t, c, n, fin, use, end, Read(g, m, f))
                     /\ TokenRead(m, f, Read(g, m, f))
    <3>1. s[p + 1] = Send(Frame("delta", 0, "text", SplitTokens(q.reply)[k]))
      BY <1>11, <2>5
    <3>2. ASSUME NEW z
          PROVE  ChatKnows(q, p + 1, Read(proto, m,
                    Numbered(Frame("delta", 0, "text", SplitTokens(q.reply)[k]), z)))
      <4> DEFINE f == Numbered(Frame("delta", 0, "text", SplitTokens(q.reply)[k]), z)
      <4>1. /\ f.what = "delta" /\ f.kind = "text" /\ f.index = 0
            /\ f.text = SplitTokens(q.reply)[k]
            /\ ~ f.finish /\ f.usage = "none" /\ ~ f.image
        BY DEF Numbered, Frame
      <4> HIDE DEF f
      <4>2. TokenFrame(f, "text", q.reply, k)
        BY <4>1 DEF TokenFrame
      <4>3. Allowed(proto, m, f)
        BY <2>3, <4>1 DEF Allowed, UsageAllowed, Objects, Blocks
      <4>4. PICK y : y = Read(proto, m, f)
        OBVIOUS
      <4>5. Knows(q, p + 1, b, t, c, n, fin, use, end, y) /\ TokenRead(m, f, y)
        BY <2>5, <4>2, <4>3, <4>4
      <4>6. y.open = "none"
        BY <1>5, <1>7, <1>16, <2>3, <4>5 DEF TokenRead
      <4>7. ChatKnows(q, p + 1, y)
        BY <1>12, <4>5, <4>6
      <4> QED BY <4>4, <4>7 DEF f
    <3> QED BY <3>1, <3>2
  <2> QED BY <2>2, <2>4, <2>5 DEF TokenStep
<1>17. CASE p = fin
  <2>1. s[p + 1] = Send([Bare("finish") EXCEPT !.finish = TRUE])
    <3>1. p + 1 = fin + 1
      BY <1>5, <1>17
    <3> QED BY <1>11, <1>17, <3>1
  <2>2. ASSUME NEW z
        PROVE  ChatKnows(q, p + 1,
                   Read(proto, m, Numbered([Bare("finish") EXCEPT !.finish = TRUE], z)))
    <3> DEFINE f == Numbered([Bare("finish") EXCEPT !.finish = TRUE], z)
    <3>1. /\ f.what = "finish" /\ f.kind = "none"
          /\ f.finish /\ f.usage = "none" /\ ~ f.image
      BY DEF Numbered, Bare, Frame
    <3> HIDE DEF f
    <3>2. m.count # 0 /\ m.open = "none" /\ ~ m.finish /\ m.usage # "final" /\ ~ m.ended
      BY <1>10, <1>5, <1>17
    <3>3. Allowed(proto, m, f)
      BY <3>1, <3>2 DEF Allowed, UsageAllowed, Objects, Blocks
    <3>4. /\ p > 0
          /\ p < b \/ (b + 2 * t <= p /\ p < c) \/ p >= c + 2 * n
          /\ p = fin /\ p # use /\ p # end
      BY <1>5, <1>17
    <3>5. /\ f.finish <=> p = fin
          /\ p = use => f.usage = "final"
          /\ f.usage = "final" => p = use \/ p > use
          /\ f.usage # "none" /\ f.usage # "final" => ~ (p > use)
          /\ f.what = "end" <=> p = end
          /\ f.what # "delta" \/ (f.kind # "thinking" /\ f.kind # "text")
      BY <3>1, <3>4, Zenon
    <3>6. PICK y : y = Read(proto, m, f)
      OBVIOUS
    <3>7. OtherFrame(p, b, t, c, n, fin, use, end, f)
      BY <3>1, <3>4, <3>5, Zenon DEF OtherFrame
    <3>8. Knows(q, p + 1, b, t, c, n, fin, use, end, y) /\ OtherRead(m, f, y)
      BY <1>8, <3>3, <3>6, <3>7, OtherTurn
    <3>9. y.open = "none"
      BY <1>5, <1>7, <1>17, <3>1, <3>2, <3>8 DEF OtherRead
    <3>10. ChatKnows(q, p + 1, y)
      BY <1>12, <3>8, <3>9
    <3> QED BY <3>6, <3>10 DEF f
  <2> QED BY <2>1, <2>2
<1>18. CASE q.usage /\ p = use /\ use = fin + 1
  <2>1. s[p + 1] = Send([Bare("usage") EXCEPT !.usage = "final"])
    <3>1. p + 1 = use + 1
      BY <1>5, <1>18
    <3> QED BY <1>11, <1>18, <3>1
  <2>2. ASSUME NEW z
        PROVE  ChatKnows(q, p + 1,
                   Read(proto, m, Numbered([Bare("usage") EXCEPT !.usage = "final"], z)))
    <3> DEFINE f == Numbered([Bare("usage") EXCEPT !.usage = "final"], z)
    <3>1. /\ f.what = "usage" /\ f.kind = "none"
          /\ ~ f.finish /\ f.usage = "final" /\ ~ f.image
      BY DEF Numbered, Bare, Frame
    <3> HIDE DEF f
    <3>2. m.count # 0 /\ m.finish /\ m.usage # "final" /\ ~ m.ended
      BY <1>10, <1>5, <1>18
    <3>3. Allowed(proto, m, f)
      BY <3>1, <3>2 DEF Allowed, UsageAllowed, Objects, Blocks
    <3>4. /\ p > 0
          /\ p < b \/ (b + 2 * t <= p /\ p < c) \/ p >= c + 2 * n
          /\ p # fin /\ p = use /\ p # end
      BY <1>5, <1>18
    <3>5. /\ f.finish <=> p = fin
          /\ p = use => f.usage = "final"
          /\ f.usage = "final" => p = use \/ p > use
          /\ f.usage # "none" /\ f.usage # "final" => ~ (p > use)
          /\ f.what = "end" <=> p = end
          /\ f.what # "delta" \/ (f.kind # "thinking" /\ f.kind # "text")
      BY <3>1, <3>4, Zenon
    <3>6. PICK y : y = Read(proto, m, f)
      OBVIOUS
    <3>7. OtherFrame(p, b, t, c, n, fin, use, end, f)
      BY <3>1, <3>4, <3>5, Zenon DEF OtherFrame
    <3>8. Knows(q, p + 1, b, t, c, n, fin, use, end, y) /\ OtherRead(m, f, y)
      BY <1>8, <3>3, <3>6, <3>7, OtherTurn
    <3>9. y.open = "none"
      BY <1>5, <1>7, <1>18, <3>1, <3>2, <3>8 DEF OtherRead
    <3>10. ChatKnows(q, p + 1, y)
      BY <1>12, <3>8, <3>9
    <3> QED BY <3>6, <3>10 DEF f
  <2> QED BY <2>1, <2>2
<1>19. CASE p = end
  <2>1. s[p + 1] = Send(Bare("end"))
    <3>1. p + 1 = end + 1
      BY <1>5, <1>19
    <3> QED BY <1>11, <1>19, <3>1
  <2>2. ASSUME NEW z
        PROVE  ChatKnows(q, p + 1,
                   Read(proto, m, Numbered(Bare("end"), z)))
    <3> DEFINE f == Numbered(Bare("end"), z)
    <3>1. /\ f.what = "end" /\ f.kind = "none"
          /\ ~ f.finish /\ f.usage = "none" /\ ~ f.image
      BY DEF Numbered, Bare, Frame
    <3> HIDE DEF f
    <3>2. m.count # 0 /\ m.finish /\ ~ m.ended
      BY <1>10, <1>5, <1>19
    <3>3. Allowed(proto, m, f)
      BY <3>1, <3>2 DEF Allowed, UsageAllowed, Objects, Blocks
    <3>4. /\ p > 0
          /\ p < b \/ (b + 2 * t <= p /\ p < c) \/ p >= c + 2 * n
          /\ p # fin /\ p # use /\ p = end
      BY <1>5, <1>19
    <3>5. /\ f.finish <=> p = fin
          /\ p = use => f.usage = "final"
          /\ f.usage = "final" => p = use \/ p > use
          /\ f.usage # "none" /\ f.usage # "final" => ~ (p > use)
          /\ f.what = "end" <=> p = end
          /\ f.what # "delta" \/ (f.kind # "thinking" /\ f.kind # "text")
      BY <3>1, <3>4, Zenon
    <3>6. PICK y : y = Read(proto, m, f)
      OBVIOUS
    <3>7. OtherFrame(p, b, t, c, n, fin, use, end, f)
      BY <3>1, <3>4, <3>5, Zenon DEF OtherFrame
    <3>8. Knows(q, p + 1, b, t, c, n, fin, use, end, y) /\ OtherRead(m, f, y)
      BY <1>8, <3>3, <3>6, <3>7, OtherTurn
    <3>9. y.open = "none"
      BY <1>5, <1>7, <1>19, <3>1, <3>2, <3>8 DEF OtherRead
    <3>10. ChatKnows(q, p + 1, y)
      BY <1>12, <3>8, <3>9
    <3> QED BY <3>6, <3>10 DEF f
  <2> QED BY <2>1, <2>2
<1>20. \/ p = 0 \/ p = 1 \/ (b <= p /\ p < b + 2 * t) \/ (c <= p /\ p < fin)
       \/ p = fin \/ (q.usage /\ p = use /\ use = fin + 1) \/ p = end
  <2>1. p < end + 1
    BY <1>11
  <2> QED BY <1>5, <1>3, <2>1
<1> QED BY <1>13, <1>14, <1>15, <1>16, <1>17, <1>18, <1>19, <1>20

-----------------------------------------------------------------------------
(* The blocks of a client's stream after p steps: a block of reasoning      *)
(* (x = 1) opens with the step after a and closes with the one before o,    *)
(* and the text block opens with step o and closes with step d.            *)

Standing(p, x, a, o, d, open, index, blocks) ==
    /\ p <= a => open = "none" /\ blocks = 0
    /\ x = 1 /\ a < p /\ p < o - 1 => open = "thinking" /\ index = 0
    /\ x = 1 /\ a < p /\ p < o => blocks = 1
    /\ p = o - 1 => open = "none"
    /\ o <= p /\ p < d => open = "text" /\ index = x
    /\ o <= p => blocks = x + 1
    /\ p >= d => open = "none"

-----------------------------------------------------------------------------
(* Anthropic streams.                                                      *)

AnthropicEnd(q) == AnthropicText(q) + 2 * Tokens(q)

AnthropicKnows(q, p, m) ==
    /\ Knows(q, p, 2 + Extra(q), Thoughts(q), AnthropicText(q), Tokens(q),
             AnthropicEnd(q) + 1, AnthropicEnd(q) + 1, AnthropicEnd(q) + 2, m)
    /\ Standing(p, Extra(q), 2, AnthropicText(q), AnthropicEnd(q) + 1, m.open, m.index, m.blocks)

\* How the numbers of the layout lie.
AnthropicShape(q, x, b, t, c, n, e, fin, use, end) ==
    /\ x = Extra(q) /\ b = 2 + Extra(q) /\ t = Thoughts(q) /\ c = AnthropicText(q)
    /\ n = Tokens(q) /\ e = AnthropicEnd(q)
    /\ fin = AnthropicEnd(q) + 1 /\ use = AnthropicEnd(q) + 1 /\ end = AnthropicEnd(q) + 2
    /\ x \in {0, 1} /\ (x = 0 => t = 0) /\ (q.reasoning <=> x = 1)
    /\ b = 2 + x /\ c = 3 + 2 * t + 3 * x /\ e = c + 2 * n
    /\ fin = e + 1 /\ use = e + 1 /\ end = e + 2
    /\ Laid(b, t, c, n, fin, use, end)

LEMMA AnthropicLies ==
    ASSUME NEW q \in Request
    PROVE  \E x, b, t, c, n, e, fin, use, end \in Nat :
             AnthropicShape(q, x, b, t, c, n, e, fin, use, end)
<1>1. PICK t \in Nat, n \in Nat, x \in Nat :
        t = Thoughts(q) /\ n = Tokens(q) /\ x = Extra(q) /\ x \in {0, 1}
  BY Numbers
<1>2. t \in {0, Words(ReasoningText)} /\ (x = 0 => t = 0) /\ (q.reasoning <=> x = 1)
  BY <1>1 DEF Thoughts, Extra
<1>3. PICK c \in Nat, e \in Nat :
        c = AnthropicText(q) /\ e = AnthropicEnd(q) /\ c = 3 + 2 * t + 3 * x /\ e = c + 2 * n
  BY <1>1 DEF AnthropicText, AnthropicEnd
<1>4. PICK b \in Nat, fin \in Nat, use \in Nat, end \in Nat :
        b = 2 + x /\ fin = e + 1 /\ use = e + 1 /\ end = e + 2
  OBVIOUS
<1>5. /\ b = 2 + Extra(q) /\ fin = AnthropicEnd(q) + 1 /\ use = AnthropicEnd(q) + 1
      /\ end = AnthropicEnd(q) + 2
  BY <1>1, <1>3, <1>4
<1>6. /\ 2 <= b /\ b + 2 * t <= c
      /\ c + 2 * n <= fin /\ c + 2 * n <= use /\ c + 2 * n <= end
  <2>1. /\ c = 3 + 2 * t + 3 * x /\ e = c + 2 * n
        /\ b = 2 + x /\ fin = e + 1 /\ use = e + 1 /\ end = e + 2
    BY <1>3, <1>4
  <2> QED BY <2>1
<1>7. Laid(b, t, c, n, fin, use, end)
  BY <1>2, <1>6, Zenon DEF Laid
<1> QED BY <1>1, <1>2, <1>3, <1>4, <1>7, <1>5 DEF AnthropicShape

LEMMA AnthropicBegins ==
    ASSUME NEW q \in Request
    PROVE  AnthropicKnows(q, 0, Nothing)
<1>1. PICK x, b, t, c, n, e, fin, use, end \in Nat :
        AnthropicShape(q, x, b, t, c, n, e, fin, use, end)
  BY AnthropicLies
<1>2. Laid(b, t, c, n, fin, use, end)
  BY <1>1 DEF AnthropicShape
<1>3. Knows(q, 0, b, t, c, n, fin, use, end, Nothing)
  BY <1>2, KnowsNothing
<1>4. Nothing.open = "none" /\ Nothing.blocks = 0
  BY DEF Nothing
<1>5. x \in {0, 1} /\ c = 3 + 2 * t + 3 * x /\ e = c + 2 * n
  BY <1>1 DEF AnthropicShape
<1>6. Standing(0, x, 2, c, e + 1, Nothing.open, Nothing.index, Nothing.blocks)
  BY <1>4, <1>5 DEF Standing
<1> QED BY <1>1, <1>3, <1>6 DEF AnthropicKnows, AnthropicShape

LEMMA AnthropicStep ==
    ASSUME NEW q \in Request, NEW s, AnthropicLaidOut(q, s), NEW p \in Nat, p < Len(s),
           NEW m, AnthropicKnows(q, p, m), NEW proto, proto = "anthropic"
    PROVE  \/ s[p + 1] = Wait /\ AnthropicKnows(q, p + 1, m)
           \/ \E f : /\ s[p + 1] = Send(f)
                     /\ \A z : AnthropicKnows(q, p + 1, Read(proto, m, Numbered(f, z)))
<1>1. proto = "anthropic"
  OBVIOUS
<1>2. PICK x, b, t, c, n, e, fin, use, end \in Nat :
        AnthropicShape(q, x, b, t, c, n, e, fin, use, end)
  BY AnthropicLies
<1>3. /\ x \in {0, 1} /\ (x = 0 => t = 0)
      /\ b = 2 + x /\ c = 3 + 2 * t + 3 * x /\ e = c + 2 * n
      /\ fin = e + 1 /\ use = e + 1 /\ end = e + 2
  BY <1>2 DEF AnthropicShape
<1>4. /\ x = Extra(q) /\ b = 2 + Extra(q) /\ t = Thoughts(q) /\ c = AnthropicText(q)
      /\ n = Tokens(q) /\ e = AnthropicEnd(q) /\ (q.reasoning <=> x = 1)
      /\ fin = AnthropicEnd(q) + 1 /\ use = AnthropicEnd(q) + 1 /\ end = AnthropicEnd(q) + 2
  BY <1>2 DEF AnthropicShape
<1>5. /\ ~ m.image
      /\ m.count \in Nat /\ (m.count = 0 <=> p <= 1)
      /\ m.finish <=> p > fin
      /\ m.usage = "final" <=> p > use
      /\ m.ended <=> p > end
  BY <1>4 DEF AnthropicKnows, Knows
<1>6. /\ Laid(b, t, c, n, fin, use, end)
      /\ Knows(q, p, b, t, c, n, fin, use, end, m)
  BY <1>2, <1>4 DEF AnthropicKnows, AnthropicShape
<1>7. n <= Tokens(q) /\ Tokens(q) <= n
  BY <1>4, Numbers
<1>8. Standing(p, x, 2, c, e + 1, m.open, m.index, m.blocks)
  BY <1>4 DEF AnthropicKnows
<1>9. /\ Len(s) = e + 3
      /\ s[1] = Wait /\ s[2] = Send([Bare("start") EXCEPT !.usage = "input"])
      /\ x = 1 => /\ s[3] = Send(Frame("open", 0, "thinking", << >>))
                  /\ s[c - 2] = Send(Frame("delta", 0, "signature", << >>))
                  /\ s[c - 1] = Send(Frame("close", 0, "thinking", << >>))
      /\ \A k \in 1 .. t :
           /\ s[b + 2 * k - 1] = Wait
           /\ s[b + 2 * k] = Send(Frame("delta", 0, "thinking", SplitTokens(ReasoningText)[k]))
      /\ s[c] = Send(Frame("open", x, "text", << >>))
      /\ \A k \in 1 .. n :
           /\ s[c + 2 * k - 1] = Wait
           /\ s[c + 2 * k] = Send(Frame("delta", x, "text", SplitTokens(q.reply)[k]))
      /\ s[e + 1] = Send(Frame("close", x, "text", << >>))
      /\ s[e + 2] = Send([Bare("finish") EXCEPT !.finish = TRUE, !.usage = "final"])
      /\ s[e + 3] = Send(Bare("end"))
  <2>1. AnthropicLaidOut(q, s) /\ e = AnthropicText(q) + 2 * Tokens(q)
    BY <1>4 DEF AnthropicEnd
  <2> HIDE DEF Wait, Send, Bare
  <2> QED BY <1>3, <1>4, <2>1 DEF AnthropicLaidOut, Talks
<1>10. ASSUME NEW y, Knows(q, p + 1, b, t, c, n, fin, use, end, y),
              Standing(p + 1, x, 2, c, e + 1, y.open, y.index, y.blocks)
       PROVE  AnthropicKnows(q, p + 1, y)
  BY <1>4, <1>10 DEF AnthropicKnows
<1>11. CASE p = 0
  <2>1. Knows(q, 1, b, t, c, n, fin, use, end, m)
    BY <1>6, <1>11, FirstTurn
  <2>2. Standing(p + 1, x, 2, c, e + 1, m.open, m.index, m.blocks)
    <3>1. m.open = "none" /\ m.blocks = 0
      BY <1>8, <1>11 DEF Standing
    <3> QED BY <1>3, <1>11, <3>1 DEF Standing
  <2>3. s[p + 1] = Wait /\ p + 1 = 1
    <3>1. p + 1 = 1
      BY <1>11
    <3>2. s[1] = Wait
      BY <1>9
    <3> QED BY <3>1, <3>2
  <2>4. Knows(q, p + 1, b, t, c, n, fin, use, end, m)
    BY <2>1, <2>3
  <2> QED BY <1>10, <2>2, <2>3, <2>4
<1>12. CASE p = 1
  <2>1. s[p + 1] = Send([Bare("start") EXCEPT !.usage = "input"])
    <3>1. p + 1 = 2
      BY <1>3, <1>12
    <3> QED BY <1>9, <1>12, <3>1
  <2>2. ASSUME NEW z
        PROVE  AnthropicKnows(q, p + 1, Read(proto, m, Numbered([Bare("start") EXCEPT !.usage = "input"], z)))
    <3> DEFINE f == Numbered([Bare("start") EXCEPT !.usage = "input"], z)
    <3>1. /\ f.what = "start" /\ f.kind = "none"
          /\ ~ f.finish /\ f.usage = "input" /\ ~ f.image
      BY DEF Numbered, Bare, Frame
    <3> HIDE DEF f
    <3>2. m.count = 0 /\ m.open = "none" /\ ~ m.finish /\ m.usage # "final" /\ ~ m.ended
      BY <1>3, <1>5, <1>8, <1>12 DEF Standing
    <3>3. Allowed(proto, m, f)
      BY <3>1, <3>2, <1>1 DEF Allowed, UsageAllowed, Objects, Blocks
    <3>4. /\ p > 0
          /\ p < b \/ (b + 2 * t <= p /\ p < c) \/ p >= c + 2 * n
          /\ p # fin /\ p # use /\ ~ (p > use) /\ p # end
      BY <1>3, <1>12
    <3>5. OtherFrame(p, b, t, c, n, fin, use, end, f)
      BY <3>1, <3>4, Zenon DEF OtherFrame
    <3>6. PICK y : y = Read(proto, m, f)
      OBVIOUS
    <3>7. Knows(q, p + 1, b, t, c, n, fin, use, end, y) /\ OtherRead(m, f, y)
      BY <1>6, <3>3, <3>5, <3>6, OtherTurn
    <3>8. y.open = m.open /\ y.index = m.index /\ y.blocks = m.blocks
      BY <3>1, <3>2, <3>7 DEF OtherRead
    <3>9. Standing(p + 1, x, 2, c, e + 1, m.open, m.index, m.blocks)
      BY <1>3, <1>8, <1>12, <3>2 DEF Standing
    <3>10. Standing(p + 1, x, 2, c, e + 1, y.open, y.index, y.blocks)
      BY <3>8, <3>9
    <3>11. AnthropicKnows(q, p + 1, y)
      BY <1>10, <3>7, <3>10
    <3> QED BY <3>6, <3>11 DEF f
  <2> QED BY <2>1, <2>2
<1>13. CASE x = 1 /\ p = 2
  <2>1. s[p + 1] = Send(Frame("open", 0, "thinking", << >>))
    <3>1. p + 1 = 3
      BY <1>3, <1>13
    <3> QED BY <1>9, <1>13, <3>1
  <2>2. ASSUME NEW z
        PROVE  AnthropicKnows(q, p + 1, Read(proto, m, Numbered(Frame("open", 0, "thinking", << >>), z)))
    <3> DEFINE f == Numbered(Frame("open", 0, "thinking", << >>), z)
    <3>1. /\ f.what = "open" /\ f.kind = "thinking" /\ f.index = 0
          /\ ~ f.finish /\ f.usage = "none" /\ ~ f.image
      BY DEF Numbered, Bare, Frame
    <3> HIDE DEF f
    <3>2. m.count # 0 /\ m.open = "none" /\ m.blocks = 0 /\ ~ m.finish /\ m.usage # "final" /\ ~ m.ended
      BY <1>3, <1>5, <1>8, <1>13 DEF Standing
    <3>3. Allowed(proto, m, f)
      BY <3>1, <3>2, <1>1 DEF Allowed, UsageAllowed, Objects, Blocks
    <3>4. /\ p > 0
          /\ p < b \/ (b + 2 * t <= p /\ p < c) \/ p >= c + 2 * n
          /\ p # fin /\ p # use /\ p # end
      BY <1>3, <1>13
    <3>5. OtherFrame(p, b, t, c, n, fin, use, end, f)
      BY <3>1, <3>4, Zenon DEF OtherFrame
    <3>6. PICK y : y = Read(proto, m, f)
      OBVIOUS
    <3>7. Knows(q, p + 1, b, t, c, n, fin, use, end, y) /\ OtherRead(m, f, y)
      BY <1>6, <3>3, <3>5, <3>6, OtherTurn
    <3>8. y.open = "thinking" /\ y.index = 0 /\ y.blocks = 1
      BY <3>1, <3>2, <3>7 DEF OtherRead
    <3>9. Standing(p + 1, x, 2, c, e + 1, "thinking", 0, 1)
      BY <1>3, <1>8, <1>13, <3>2 DEF Standing
    <3>10. Standing(p + 1, x, 2, c, e + 1, y.open, y.index, y.blocks)
      BY <3>8, <3>9
    <3>11. AnthropicKnows(q, p + 1, y)
      BY <1>10, <3>7, <3>10
    <3> QED BY <3>6, <3>11 DEF f
  <2> QED BY <2>1, <2>2
<1>14. CASE b <= p /\ p < b + 2 * t
  <2>1. PICK k \in 1 .. t :
          TokenStep(q, p, b, t, c, n, fin, use, end, m, b, "thinking", ReasoningText, k)
    BY <1>6, <1>14, ThoughtTurn
  <2>2. m.text = << >>
    BY <1>6, <1>14, ThoughtTurn
  <2>3. x = 1
    <3>1. x = 0 => t = 0
      BY <1>3
    <3> QED BY <1>3, <1>14, <3>1
  <2>4. m.count # 0 /\ m.open = "thinking" /\ m.index = 0 /\ ~ m.finish /\ ~ m.ended
    BY <2>3, <1>3, <1>5, <1>8, <1>14 DEF Standing
  <2>5. Standing(p + 1, x, 2, c, e + 1, m.open, m.index, m.blocks)
    BY <1>3, <1>8, <1>14 DEF Standing
  <2>6. CASE p + 1 = b + 2 * k - 1 /\ Knows(q, p + 1, b, t, c, n, fin, use, end, m)
    <3>1. s[p + 1] = Wait
      BY <1>9, <2>6
    <3> QED BY <1>10, <2>5, <2>6, <3>1
  <2>7. CASE /\ p + 1 = b + 2 * k
             /\ \A g, f :
                  TokenFrame(f, "thinking", ReasoningText, k) /\ Allowed(g, m, f) =>
                     /\ Knows(q, p + 1, b, t, c, n, fin, use, end, Read(g, m, f))
                     /\ TokenRead(m, f, Read(g, m, f))
    <3>1. s[p + 1] = Send(Frame("delta", 0, "thinking", SplitTokens(ReasoningText)[k]))
      BY <1>9, <2>7
    <3>2. ASSUME NEW z
          PROVE  AnthropicKnows(q, p + 1, Read(proto, m,
                    Numbered(Frame("delta", 0, "thinking", SplitTokens(ReasoningText)[k]), z)))
      <4> DEFINE f == Numbered(Frame("delta", 0, "thinking", SplitTokens(ReasoningText)[k]), z)
      <4>1. /\ f.what = "delta" /\ f.kind = "thinking" /\ f.index = 0
            /\ f.text = SplitTokens(ReasoningText)[k]
            /\ ~ f.finish /\ f.usage = "none" /\ ~ f.image
        BY DEF Numbered, Frame
      <4> HIDE DEF f
      <4>2. TokenFrame(f, "thinking", ReasoningText, k)
        BY <4>1 DEF TokenFrame
      <4>3. Allowed(proto, m, f)
        BY <1>1, <2>4, <2>2, <4>1 DEF Allowed, UsageAllowed, Objects, Blocks
      <4>4. PICK y : y = Read(proto, m, f)
        OBVIOUS
      <4>5. Knows(q, p + 1, b, t, c, n, fin, use, end, y) /\ TokenRead(m, f, y)
        BY <2>7, <4>2, <4>3, <4>4
      <4>6. y.open = m.open /\ y.index = m.index /\ y.blocks = m.blocks
        BY <4>5 DEF TokenRead
      <4>7. Standing(p + 1, x, 2, c, e + 1, y.open, y.index, y.blocks)
        BY <2>5, <4>6
      <4>8. AnthropicKnows(q, p + 1, y)
        BY <1>10, <4>5, <4>7
      <4> QED BY <4>4, <4>8 DEF f
    <3> QED BY <3>1, <3>2
  <2> QED BY <2>1, <2>6, <2>7 DEF TokenStep
<1>15. CASE x = 1 /\ p = c - 3
  <2>1. s[p + 1] = Send(Frame("delta", 0, "signature", << >>))
    <3>1. p + 1 = c - 2
      BY <1>3, <1>15
    <3> QED BY <1>9, <1>15, <3>1
  <2>2. ASSUME NEW z
        PROVE  AnthropicKnows(q, p + 1, Read(proto, m, Numbered(Frame("delta", 0, "signature", << >>), z)))
    <3> DEFINE f == Numbered(Frame("delta", 0, "signature", << >>), z)
    <3>1. /\ f.what = "delta" /\ f.kind = "signature" /\ f.index = 0
          /\ ~ f.finish /\ f.usage = "none" /\ ~ f.image
      BY DEF Numbered, Bare, Frame
    <3> HIDE DEF f
    <3>2. m.count # 0 /\ m.open = "thinking" /\ m.index = 0 /\ ~ m.finish /\ m.usage # "final" /\ ~ m.ended
      BY <1>3, <1>5, <1>8, <1>15 DEF Standing
    <3>3. Allowed(proto, m, f)
      BY <3>1, <3>2, <1>1 DEF Allowed, UsageAllowed, Objects, Blocks
    <3>4. /\ p > 0
          /\ p < b \/ (b + 2 * t <= p /\ p < c) \/ p >= c + 2 * n
          /\ p # fin /\ p # use /\ p # end
      BY <1>3, <1>15
    <3>5. OtherFrame(p, b, t, c, n, fin, use, end, f)
      BY <3>1, <3>4, Zenon DEF OtherFrame
    <3>6. PICK y : y = Read(proto, m, f)
      OBVIOUS
    <3>7. Knows(q, p + 1, b, t, c, n, fin, use, end, y) /\ OtherRead(m, f, y)
      BY <1>6, <3>3, <3>5, <3>6, OtherTurn
    <3>8. y.open = m.open /\ y.index = m.index /\ y.blocks = m.blocks
      BY <3>1, <3>2, <3>7 DEF OtherRead
    <3>9. Standing(p + 1, x, 2, c, e + 1, m.open, m.index, m.blocks)
      BY <1>3, <1>8, <1>15, <3>2 DEF Standing
    <3>10. Standing(p + 1, x, 2, c, e + 1, y.open, y.index, y.blocks)
      BY <3>8, <3>9
    <3>11. AnthropicKnows(q, p + 1, y)
      BY <1>10, <3>7, <3>10
    <3> QED BY <3>6, <3>11 DEF f
  <2> QED BY <2>1, <2>2
<1>16. CASE x = 1 /\ p = c - 2
  <2>1. s[p + 1] = Send(Frame("close", 0, "thinking", << >>))
    <3>1. p + 1 = c - 1
      BY <1>3, <1>16
    <3> QED BY <1>9, <1>16, <3>1
  <2>2. ASSUME NEW z
        PROVE  AnthropicKnows(q, p + 1, Read(proto, m, Numbered(Frame("close", 0, "thinking", << >>), z)))
    <3> DEFINE f == Numbered(Frame("close", 0, "thinking", << >>), z)
    <3>1. /\ f.what = "close" /\ f.kind = "thinking" /\ f.index = 0
          /\ ~ f.finish /\ f.usage = "none" /\ ~ f.image
      BY DEF Numbered, Bare, Frame
    <3> HIDE DEF f
    <3>2. m.count # 0 /\ m.open = "thinking" /\ m.index = 0 /\ ~ m.finish /\ m.usage # "final" /\ ~ m.ended
      BY <1>3, <1>5, <1>8, <1>16 DEF Standing
    <3>3. Allowed(proto, m, f)
      BY <3>1, <3>2, <1>1 DEF Allowed, UsageAllowed, Objects, Blocks
    <3>4. /\ p > 0
          /\ p < b \/ (b + 2 * t <= p /\ p < c) \/ p >= c + 2 * n
          /\ p # fin /\ p # use /\ p # end
      BY <1>3, <1>16
    <3>5. OtherFrame(p, b, t, c, n, fin, use, end, f)
      BY <3>1, <3>4, Zenon DEF OtherFrame
    <3>6. PICK y : y = Read(proto, m, f)
      OBVIOUS
    <3>7. Knows(q, p + 1, b, t, c, n, fin, use, end, y) /\ OtherRead(m, f, y)
      BY <1>6, <3>3, <3>5, <3>6, OtherTurn
    <3>8. y.open = "none" /\ y.index = m.index /\ y.blocks = m.blocks
      BY <3>1, <3>2, <3>7 DEF OtherRead
    <3>9. Standing(p + 1, x, 2, c, e + 1, "none", m.index, m.blocks)
      BY <1>3, <1>8, <1>16, <3>2 DEF Standing
    <3>10. Standing(p + 1, x, 2, c, e + 1, y.open, y.index, y.blocks)
      BY <3>8, <3>9
    <3>11. AnthropicKnows(q, p + 1, y)
      BY <1>10, <3>7, <3>10
    <3> QED BY <3>6, <3>11 DEF f
  <2> QED BY <2>1, <2>2
<1>17. CASE p = c - 1
  <2>1. s[p + 1] = Send(Frame("open", x, "text", << >>))
    <3>1. p + 1 = c
      BY <1>3, <1>17
    <3> QED BY <1>9, <1>17, <3>1
  <2>2. ASSUME NEW z
        PROVE  AnthropicKnows(q, p + 1, Read(proto, m, Numbered(Frame("open", x, "text", << >>), z)))
    <3> DEFINE f == Numbered(Frame("open", x, "text", << >>), z)
    <3>1. /\ f.what = "open" /\ f.kind = "text" /\ f.index = x
          /\ ~ f.finish /\ f.usage = "none" /\ ~ f.image
      BY DEF Numbered, Bare, Frame
    <3> HIDE DEF f
    <3>2. m.count # 0 /\ m.open = "none" /\ m.blocks = x /\ ~ m.finish /\ m.usage # "final" /\ ~ m.ended
      <4>1. CASE x = 0
        BY <1>3, <1>5, <1>8, <1>17, <4>1 DEF Standing
      <4>2. CASE x = 1
        BY <1>3, <1>5, <1>8, <1>17, <4>2 DEF Standing
      <4> QED BY <1>3, <4>1, <4>2
    <3>3. Allowed(proto, m, f)
      BY <3>1, <3>2, <1>1 DEF Allowed, UsageAllowed, Objects, Blocks
    <3>4. /\ p > 0
          /\ p < b \/ (b + 2 * t <= p /\ p < c) \/ p >= c + 2 * n
          /\ p # fin /\ p # use /\ p # end
      BY <1>3, <1>17
    <3>5. OtherFrame(p, b, t, c, n, fin, use, end, f)
      BY <3>1, <3>4, Zenon DEF OtherFrame
    <3>6. PICK y : y = Read(proto, m, f)
      OBVIOUS
    <3>7. Knows(q, p + 1, b, t, c, n, fin, use, end, y) /\ OtherRead(m, f, y)
      BY <1>6, <3>3, <3>5, <3>6, OtherTurn
    <3>8. y.open = "text" /\ y.index = x /\ y.blocks = x + 1
      BY <3>1, <3>2, <3>7 DEF OtherRead
    <3>9. Standing(p + 1, x, 2, c, e + 1, "text", x, x + 1)
      BY <1>3, <1>8, <1>17, <3>2 DEF Standing
    <3>10. Standing(p + 1, x, 2, c, e + 1, y.open, y.index, y.blocks)
      BY <3>8, <3>9
    <3>11. AnthropicKnows(q, p + 1, y)
      BY <1>10, <3>7, <3>10
    <3> QED BY <3>6, <3>11 DEF f
  <2> QED BY <2>1, <2>2
<1>18. CASE c <= p /\ p < e
  <2>1. c <= p /\ p < c + 2 * n /\ n <= Tokens(q)
    BY <1>3, <1>7, <1>18
  <2>2. PICK k \in 1 .. n :
          TokenStep(q, p, b, t, c, n, fin, use, end, m, c, "text", q.reply, k)
    BY <1>6, <2>1, WordTurn
  <2>3. m.count # 0 /\ m.open = "text" /\ m.index = x /\ ~ m.finish /\ ~ m.ended
    BY <1>3, <1>5, <1>8, <1>18 DEF Standing
  <2>4. Standing(p + 1, x, 2, c, e + 1, m.open, m.index, m.blocks)
    BY <1>3, <1>8, <1>18 DEF Standing
  <2>5. CASE p + 1 = c + 2 * k - 1 /\ Knows(q, p + 1, b, t, c, n, fin, use, end, m)
    <3>1. s[p + 1] = Wait
      BY <1>9, <2>5
    <3> QED BY <1>10, <2>4, <2>5, <3>1
  <2>6. CASE /\ p + 1 = c + 2 * k
             /\ \A g, f :
                  TokenFrame(f, "text", q.reply, k) /\ Allowed(g, m, f) =>
                     /\ Knows(q, p + 1, b, t, c, n, fin, use, end, Read(g, m, f))
                     /\ TokenRead(m, f, Read(g, m, f))
    <3>1. s[p + 1] = Send(Frame("delta", x, "text", SplitTokens(q.reply)[k]))
      BY <1>9, <2>6
    <3>2. ASSUME NEW z
          PROVE  AnthropicKnows(q, p + 1, Read(proto, m,
                    Numbered(Frame("delta", x, "text", SplitTokens(q.reply)[k]), z)))
      <4> DEFINE f == Numbered(Frame("delta", x, "text", SplitTokens(q.reply)[k]), z)
      <4>1. /\ f.what = "delta" /\ f.kind = "text" /\ f.index = x
            /\ f.text = SplitTokens(q.reply)[k]
            /\ ~ f.finish /\ f.usage = "none" /\ ~ f.image
        BY DEF Numbered, Frame
      <4> HIDE DEF f
      <4>2. TokenFrame(f, "text", q.reply, k)
        BY <4>1 DEF TokenFrame
      <4>3. Allowed(proto, m, f)
        BY <1>1, <2>3, <4>1 DEF Allowed, UsageAllowed, Objects, Blocks
      <4>4. PICK y : y = Read(proto, m, f)
        OBVIOUS
      <4>5. Knows(q, p + 1, b, t, c, n, fin, use, end, y) /\ TokenRead(m, f, y)
        BY <2>6, <4>2, <4>3, <4>4
      <4>6. y.open = m.open /\ y.index = m.index /\ y.blocks = m.blocks
        BY <4>5 DEF TokenRead
      <4>7. Standing(p + 1, x, 2, c, e + 1, y.open, y.index, y.blocks)
        BY <2>4, <4>6
      <4>8. AnthropicKnows(q, p + 1, y)
        BY <1>10, <4>5, <4>7
      <4> QED BY <4>4, <4>8 DEF f
    <3> QED BY <3>1, <3>2
  <2> QED BY <2>2, <2>5, <2>6 DEF TokenStep
<1>19. CASE p = e
  <2>1. s[p + 1] = Send(Frame("close", x, "text", << >>))
    <3>1. p + 1 = e + 1
      BY <1>3, <1>19
    <3> QED BY <1>9, <1>19, <3>1
  <2>2. ASSUME NEW z
        PROVE  AnthropicKnows(q, p + 1, Read(proto, m, Numbered(Frame("close", x, "text", << >>), z)))
    <3> DEFINE f == Numbered(Frame("close", x, "text", << >>), z)
    <3>1. /\ f.what = "close" /\ f.kind = "text" /\ f.index = x
          /\ ~ f.finish /\ f.usage = "none" /\ ~ f.image
      BY DEF Numbered, Bare, Frame
    <3> HIDE DEF f
    <3>2. m.count # 0 /\ m.open = "text" /\ m.index = x /\ ~ m.finish /\ m.usage # "final" /\ ~ m.ended
      BY <1>3, <1>5, <1>8, <1>19 DEF Standing
    <3>3. Allowed(proto, m, f)
      BY <3>1, <3>2, <1>1 DEF Allowed, UsageAllowed, Objects, Blocks
    <3>4. /\ p > 0
          /\ p < b \/ (b + 2 * t <= p /\ p < c) \/ p >= c + 2 * n
          /\ p # fin /\ p # use /\ p # end
      BY <1>3, <1>19
    <3>5. OtherFrame(p, b, t, c, n, fin, use, end, f)
      BY <3>1, <3>4, Zenon DEF OtherFrame
    <3>6. PICK y : y = Read(proto, m, f)
      OBVIOUS
    <3>7. Knows(q, p + 1, b, t, c, n, fin, use, end, y) /\ OtherRead(m, f, y)
      BY <1>6, <3>3, <3>5, <3>6, OtherTurn
    <3>8. y.open = "none" /\ y.index = m.index /\ y.blocks = m.blocks
      BY <3>1, <3>2, <3>7 DEF OtherRead
    <3>9. Standing(p + 1, x, 2, c, e + 1, "none", m.index, m.blocks)
      BY <1>3, <1>8, <1>19, <3>2 DEF Standing
    <3>10. Standing(p + 1, x, 2, c, e + 1, y.open, y.index, y.blocks)
      BY <3>8, <3>9
    <3>11. AnthropicKnows(q, p + 1, y)
      BY <1>10, <3>7, <3>10
    <3> QED BY <3>6, <3>11 DEF f
  <2> QED BY <2>1, <2>2
<1>20. CASE p = e + 1
  <2>1. s[p + 1] = Send([Bare("finish") EXCEPT !.finish = TRUE, !.usage = "final"])
    <3>1. p + 1 = e + 2
      BY <1>3, <1>20
    <3> QED BY <1>9, <1>20, <3>1
  <2>2. ASSUME NEW z
        PROVE  AnthropicKnows(q, p + 1, Read(proto, m, Numbered([Bare("finish") EXCEPT !.finish = TRUE, !.usage = "final"], z)))
    <3> DEFINE f == Numbered([Bare("finish") EXCEPT !.finish = TRUE, !.usage = "final"], z)
    <3>1. /\ f.what = "finish" /\ f.kind = "none"
          /\ f.finish /\ f.usage = "final" /\ ~ f.image
      BY DEF Numbered, Bare, Frame
    <3> HIDE DEF f
    <3>2. m.count # 0 /\ m.open = "none" /\ ~ m.finish /\ m.usage # "final" /\ ~ m.ended
      BY <1>3, <1>5, <1>8, <1>20 DEF Standing
    <3>3. Allowed(proto, m, f)
      BY <3>1, <3>2, <1>1 DEF Allowed, UsageAllowed, Objects, Blocks
    <3>4. /\ p > 0
          /\ p < b \/ (b + 2 * t <= p /\ p < c) \/ p >= c + 2 * n
          /\ p = fin /\ p = use /\ p # end
      BY <1>3, <1>20
    <3>5. OtherFrame(p, b, t, c, n, fin, use, end, f)
      BY <3>1, <3>4, Zenon DEF OtherFrame
    <3>6. PICK y : y = Read(proto, m, f)
      OBVIOUS
    <3>7. Knows(q, p + 1, b, t, c, n, fin, use, end, y) /\ OtherRead(m, f, y)
      BY <1>6, <3>3, <3>5, <3>6, OtherTurn
    <3>8. y.open = m.open /\ y.index = m.index /\ y.blocks = m.blocks
      BY <3>1, <3>2, <3>7 DEF OtherRead
    <3>9. Standing(p + 1, x, 2, c, e + 1, m.open, m.index, m.blocks)
      BY <1>3, <1>8, <1>20, <3>2 DEF Standing
    <3>10. Standing(p + 1, x, 2, c, e + 1, y.open, y.index, y.blocks)
      BY <3>8, <3>9
    <3>11. AnthropicKnows(q, p + 1, y)
      BY <1>10, <3>7, <3>10
    <3> QED BY <3>6, <3>11 DEF f
  <2> QED BY <2>1, <2>2
<1>21. CASE p = e + 2
  <2>1. s[p + 1] = Send(Bare("end"))
    <3>1. p + 1 = e + 3
      BY <1>3, <1>21
    <3> QED BY <1>9, <1>21, <3>1
  <2>2. ASSUME NEW z
        PROVE  AnthropicKnows(q, p + 1, Read(proto, m, Numbered(Bare("end"), z)))
    <3> DEFINE f == Numbered(Bare("end"), z)
    <3>1. /\ f.what = "end" /\ f.kind = "none"
          /\ ~ f.finish /\ f.usage = "none" /\ ~ f.image
      BY DEF Numbered, Bare, Frame
    <3> HIDE DEF f
    <3>2. m.count # 0 /\ m.open = "none" /\ m.finish /\ ~ m.ended
      BY <1>3, <1>5, <1>8, <1>21 DEF Standing
    <3>3. Allowed(proto, m, f)
      BY <3>1, <3>2, <1>1 DEF Allowed, UsageAllowed, Objects, Blocks
    <3>4. /\ p > 0
          /\ p < b \/ (b + 2 * t <= p /\ p < c) \/ p >= c + 2 * n
          /\ p # fin /\ p # use /\ p = end
      BY <1>3, <1>21
    <3>5. OtherFrame(p, b, t, c, n, fin, use, end, f)
      BY <3>1, <3>4, Zenon DEF OtherFrame
    <3>6. PICK y : y = Read(proto, m, f)
      OBVIOUS
    <3>7. Knows(q, p + 1, b, t, c, n, fin, use, end, y) /\ OtherRead(m, f, y)
      BY <1>6, <3>3, <3>5, <3>6, OtherTurn
    <3>8. y.open = m.open /\ y.index = m.index /\ y.blocks = m.blocks
      BY <3>1, <3>2, <3>7 DEF OtherRead
    <3>9. Standing(p + 1, x, 2, c, e + 1, m.open, m.index, m.blocks)
      BY <1>3, <1>8, <1>21, <3>2 DEF Standing
    <3>10. Standing(p + 1, x, 2, c, e + 1, y.open, y.index, y.blocks)
      BY <3>8, <3>9
    <3>11. AnthropicKnows(q, p + 1, y)
      BY <1>10, <3>7, <3>10
    <3> QED BY <3>6, <3>11 DEF f
  <2> QED BY <2>1, <2>2
<1>22. \/ p = 0 \/ p = 1 \/ (x = 1 /\ p = 2) \/ (b <= p /\ p < b + 2 * t)
       \/ (x = 1 /\ p = c - 3) \/ (x = 1 /\ p = c - 2) \/ p = c - 1 \/ (c <= p /\ p < e)
       \/ p = e \/ p = e + 1 \/ p = e + 2
  <2>1. p < e + 3
    BY <1>9
  <2>2. CASE x = 0
    BY <1>3, <2>1, <2>2
  <2>3. CASE x = 1
    BY <1>3, <2>1, <2>3
  <2> QED BY <1>3, <2>2, <2>3
<1> QED BY <1>11, <1>12, <1>13, <1>14, <1>15, <1>16, <1>17, <1>18, <1>19, <1>20, <1>21, <1>22

-----------------------------------------------------------------------------
(* Responses streams.                                                      *)

ResponsesEnd(q) == ResponsesText(q) + 2 * Tokens(q)

\* What the last response object listed that came with the first p steps.
Listed(q, p, end, out) ==
    /\ p <= 1 => out = << >>
    /\ 1 < p /\ p <= end => out = Output(q, "in_progress")
    /\ p > end => out = Output(q, "completed")

\* What the lists are made of.
LEMMA OutputItems ==
    ASSUME NEW q \in Request
    PROVE  \E x, early, late, a, d :
             /\ x \in {0, 1} /\ x = Extra(q)
             /\ early = Output(q, "in_progress") /\ late = Output(q, "completed")
             /\ Len(early) = x /\ DOMAIN early = 1 .. x
             /\ Len(late) = x + 1 /\ DOMAIN late = 1 .. x + 1
             /\ x = 1 => early[1] = a /\ late[1] = a
             /\ late[x + 1] = d
             /\ a.kind = "thinking" /\ a.text = ReasoningText
             /\ d.kind = "text" /\ d.text = q.reply
<1>1. PICK a, d : /\ a = [kind |-> "thinking", text |-> ReasoningText]
                  /\ d = [kind |-> "text", text |-> q.reply]
  OBVIOUS
<1>2. /\ a.kind = "thinking" /\ a.text = ReasoningText
      /\ d.kind = "text" /\ d.text = q.reply
  BY <1>1
<1>3. PICK x, early, late :
        x \in {0, 1} /\ x = Extra(q) /\ early = Output(q, "in_progress") /\ late = Output(q, "completed")
  BY Numbers
<1>4. CASE q.reasoning
  <2>1. x = 1 /\ early = <<a>> \o << >> /\ late = <<a>> \o <<d>>
    BY <1>1, <1>3, <1>4 DEF Output, When, Extra
  <2>2. /\ Len(early) = 1 /\ DOMAIN early = 1 .. 1 /\ early[1] = a
        /\ Len(late) = 2 /\ DOMAIN late = 1 .. 2 /\ late[1] = a /\ late[2] = d
    BY <2>1
  <2> QED BY <1>2, <1>3, <2>1, <2>2
<1>5. CASE ~ q.reasoning
  <2>1. x = 0 /\ early = << >> \o << >> /\ late = << >> \o <<d>>
    BY <1>1, <1>3, <1>5 DEF Output, When, Extra
  <2>2. /\ Len(early) = 0 /\ DOMAIN early = 1 .. 0
        /\ Len(late) = 1 /\ DOMAIN late = 1 .. 1 /\ late[1] = d
    BY <2>1
  <2>3. x = 0 /\ x + 1 = 1 /\ x # 1
    BY <2>1
  <2> QED BY <1>2, <1>3, <2>2, <2>3
<1> QED BY <1>4, <1>5

\* Nothing was listed before the first response object.
LEMMA EmptyBefore ==
    ASSUME NEW q \in Request, NEW m, m.output = << >>,
           NEW f, f.what = "start", f.output = Output(q, "in_progress")
    PROVE  OutputAllowed(m, f)
<1>1. PICK x \in {0, 1} : Len(Output(q, "in_progress")) = x
  BY OutputItems
<1>2. Len(m.output) = 0 /\ DOMAIN m.output = {}
  OBVIOUS
<1> QED BY <1>1, <1>2 DEF OutputAllowed

LEMMA SameBefore ==
    ASSUME NEW q \in Request, NEW m, m.output = Output(q, "in_progress"),
           NEW f, f.what = "progress", f.output = Output(q, "in_progress")
    PROVE  OutputAllowed(m, f)
<1>1. PICK x \in {0, 1} : Len(Output(q, "in_progress")) = x
  BY OutputItems
<1> QED BY <1>1 DEF OutputAllowed

\* The last object lists what was streamed, the reasoning first.
LEMMA WholeAtEnd ==
    ASSUME NEW q \in Request, NEW m, m.output = Output(q, "in_progress"),
           m.blocks = Extra(q) + 1,
           Fields(m.text) = Fields(q.reply), q.reasoning => m.thinking = ReasoningText,
           NEW f, f.what = "end", f.output = Output(q, "completed")
    PROVE  OutputAllowed(m, f)
<1>1. PICK x, early, late, a, d :
        /\ x \in {0, 1} /\ x = Extra(q)
        /\ early = Output(q, "in_progress") /\ late = Output(q, "completed")
        /\ Len(early) = x /\ DOMAIN early = 1 .. x
        /\ Len(late) = x + 1 /\ DOMAIN late = 1 .. x + 1
        /\ x = 1 => early[1] = a /\ late[1] = a
        /\ late[x + 1] = d
        /\ a.kind = "thinking" /\ a.text = ReasoningText
        /\ d.kind = "text" /\ d.text = q.reply
  BY OutputItems
<1>2. Len(early) <= Len(late) /\ \A i \in DOMAIN early : late[i] = early[i]
  BY <1>1
<1>3. x = 1 => Fields(a.text) = Fields(Said(m, a.kind))
  BY <1>1 DEF Said, Extra
<1>4. Fields(d.text) = Fields(Said(m, d.kind))
  BY <1>1 DEF Said
<1>5. \A i \in DOMAIN late : Fields(late[i].text) = Fields(Said(m, late[i].kind))
  <2> SUFFICES ASSUME NEW i \in 1 .. x + 1
               PROVE  Fields(late[i].text) = Fields(Said(m, late[i].kind))
    BY <1>1
  <2>1. (i = 1 /\ x = 1) \/ i = x + 1
    BY <1>1
  <2> QED BY <1>1, <1>3, <1>4, <2>1
<1> QED BY <1>1, <1>2, <1>5 DEF OutputAllowed

ResponsesKnows(q, p, m) ==
    /\ Knows(q, p, 3 + Extra(q), Thoughts(q), ResponsesText(q), Tokens(q),
             ResponsesEnd(q) + 3, 1, ResponsesEnd(q) + 3, m)
    /\ Standing(p, Extra(q), 3, ResponsesText(q) - 1, ResponsesEnd(q) + 3, m.open, m.index, m.blocks)
    /\ Listed(q, p, ResponsesEnd(q) + 3, m.output)

\* How the numbers of the layout lie.
ResponsesShape(q, x, b, t, c, n, e, fin, use, end) ==
    /\ x = Extra(q) /\ b = 3 + Extra(q) /\ t = Thoughts(q) /\ c = ResponsesText(q)
    /\ n = Tokens(q) /\ e = ResponsesEnd(q)
    /\ fin = ResponsesEnd(q) + 3 /\ use = 1 /\ end = ResponsesEnd(q) + 3
    /\ x \in {0, 1} /\ (x = 0 => t = 0) /\ (q.reasoning <=> x = 1)
    /\ b = 3 + x /\ c = 5 + 2 * t + 2 * x /\ e = c + 2 * n
    /\ fin = e + 3 /\ use = 1 /\ end = e + 3
    /\ Laid(b, t, c, n, fin, use, end)

LEMMA ResponsesLies ==
    ASSUME NEW q \in Request
    PROVE  \E x, b, t, c, n, e, fin, use, end \in Nat :
             ResponsesShape(q, x, b, t, c, n, e, fin, use, end)
<1>1. PICK t \in Nat, n \in Nat, x \in Nat :
        t = Thoughts(q) /\ n = Tokens(q) /\ x = Extra(q) /\ x \in {0, 1}
  BY Numbers
<1>2. t \in {0, Words(ReasoningText)} /\ (x = 0 => t = 0) /\ (q.reasoning <=> x = 1)
  BY <1>1 DEF Thoughts, Extra
<1>3. PICK c \in Nat, e \in Nat :
        c = ResponsesText(q) /\ e = ResponsesEnd(q) /\ c = 5 + 2 * t + 2 * x /\ e = c + 2 * n
  BY <1>1 DEF ResponsesText, ResponsesEnd
<1>4. PICK b \in Nat, fin \in Nat, use \in Nat, end \in Nat :
        b = 3 + x /\ fin = e + 3 /\ use = 1 /\ end = e + 3
  OBVIOUS
<1>5. /\ b = 3 + Extra(q) /\ fin = ResponsesEnd(q) + 3 /\ use = 1
      /\ end = ResponsesEnd(q) + 3
  BY <1>1, <1>3, <1>4
<1>6. /\ 2 <= b /\ b + 2 * t <= c
      /\ c + 2 * n <= fin /\ use = 1 /\ c + 2 * n <= end
  <2>1. /\ c = 5 + 2 * t + 2 * x /\ e = c + 2 * n
        /\ b = 3 + x /\ fin = e + 3 /\ use = 1 /\ end = e + 3
    BY <1>3, <1>4
  <2> QED BY <2>1
<1>7. Laid(b, t, c, n, fin, use, end)
  BY <1>2, <1>6, Zenon DEF Laid
<1> QED BY <1>1, <1>2, <1>3, <1>4, <1>7, <1>5 DEF ResponsesShape

LEMMA ResponsesBegins ==
    ASSUME NEW q \in Request
    PROVE  ResponsesKnows(q, 0, Nothing)
<1>1. PICK x, b, t, c, n, e, fin, use, end \in Nat :
        ResponsesShape(q, x, b, t, c, n, e, fin, use, end)
  BY ResponsesLies
<1>2. Laid(b, t, c, n, fin, use, end)
  BY <1>1 DEF ResponsesShape
<1>3. Knows(q, 0, b, t, c, n, fin, use, end, Nothing)
  BY <1>2, KnowsNothing
<1>4. Nothing.open = "none" /\ Nothing.blocks = 0 /\ Nothing.output = << >>
  BY DEF Nothing
<1>5. x \in {0, 1} /\ c = 5 + 2 * t + 2 * x /\ e = c + 2 * n
  BY <1>1 DEF ResponsesShape
<1>6. Standing(0, x, 3, c - 1, e + 3, Nothing.open, Nothing.index, Nothing.blocks)
  BY <1>4, <1>5 DEF Standing
<1>7. Listed(q, 0, e + 3, Nothing.output)
  BY <1>4, <1>5 DEF Listed
<1> QED BY <1>1, <1>3, <1>6, <1>7 DEF ResponsesKnows, ResponsesShape

LEMMA ResponsesStep ==
    ASSUME NEW q \in Request, NEW s, ResponsesLaidOut(q, s), NEW p \in Nat, p < Len(s),
           NEW m, ResponsesKnows(q, p, m), NEW proto, proto = "responses"
    PROVE  \/ s[p + 1] = Wait /\ ResponsesKnows(q, p + 1, m)
           \/ \E f : /\ s[p + 1] = Send(f)
                     /\ \A z : z = m.count => ResponsesKnows(q, p + 1, Read(proto, m, Numbered(f, z)))
<1>1. proto = "responses"
  OBVIOUS
<1>2. PICK x, b, t, c, n, e, fin, use, end \in Nat :
        ResponsesShape(q, x, b, t, c, n, e, fin, use, end)
  BY ResponsesLies
<1>3. /\ x \in {0, 1} /\ (x = 0 => t = 0)
      /\ b = 3 + x /\ c = 5 + 2 * t + 2 * x /\ e = c + 2 * n
      /\ fin = e + 3 /\ use = 1 /\ end = e + 3
  BY <1>2 DEF ResponsesShape
<1>4. /\ x = Extra(q) /\ b = 3 + Extra(q) /\ t = Thoughts(q) /\ c = ResponsesText(q)
      /\ n = Tokens(q) /\ e = ResponsesEnd(q) /\ (q.reasoning <=> x = 1)
      /\ fin = ResponsesEnd(q) + 3 /\ use = 1 /\ end = ResponsesEnd(q) + 3
  BY <1>2 DEF ResponsesShape
<1>5. /\ ~ m.image
      /\ m.count \in Nat /\ (m.count = 0 <=> p <= 1)
      /\ m.finish <=> p > fin
      /\ m.usage = "final" <=> p > use
      /\ m.ended <=> p > end
  BY <1>4 DEF ResponsesKnows, Knows
<1>6. /\ Laid(b, t, c, n, fin, use, end)
      /\ Knows(q, p, b, t, c, n, fin, use, end, m)
  BY <1>2, <1>4 DEF ResponsesKnows, ResponsesShape
<1>7. n <= Tokens(q) /\ Tokens(q) <= n
  BY <1>4, Numbers
<1>8. /\ Standing(p, x, 3, c - 1, e + 3, m.open, m.index, m.blocks)
      /\ Listed(q, p, e + 3, m.output)
  BY <1>4 DEF ResponsesKnows
<1>9. /\ Len(s) = e + 4
      /\ s[1] = Wait /\ s[2] = Send(Envelope("start", q, "in_progress")) /\ s[3] = Send(Envelope("progress", q, "in_progress"))
      /\ x = 1 => /\ s[4] = Send(Frame("open", 0, "thinking", << >>))
                  /\ s[c - 2] = Send(Frame("close", 0, "thinking", ReasoningText))
      /\ \A k \in 1 .. t :
           /\ s[b + 2 * k - 1] = Wait
           /\ s[b + 2 * k] = Send(Frame("delta", 0, "thinking", SplitTokens(ReasoningText)[k]))
      /\ s[c - 1] = Send(Frame("open", x, "text", << >>))
      /\ s[c] = Send(Frame("part", x, "text", << >>))
      /\ \A k \in 1 .. n :
           /\ s[c + 2 * k - 1] = Wait
           /\ s[c + 2 * k] = Send(Frame("delta", x, "text", SplitTokens(q.reply)[k]))
      /\ s[e + 1] = Send(Frame("part done", x, "text", q.reply))
      /\ s[e + 2] = Send(Frame("part done", x, "text", q.reply))
      /\ s[e + 3] = Send(Frame("close", x, "text", q.reply))
      /\ s[e + 4] = Send([Envelope("end", q, "completed") EXCEPT !.finish = TRUE])
  <2>1. ResponsesLaidOut(q, s) /\ e = ResponsesText(q) + 2 * Tokens(q)
    BY <1>4 DEF ResponsesEnd
  <2> HIDE DEF Wait, Send, Bare
  <2> QED BY <1>3, <1>4, <2>1 DEF ResponsesLaidOut, Talks
<1>10. ASSUME NEW y, Knows(q, p + 1, b, t, c, n, fin, use, end, y),
              Standing(p + 1, x, 3, c - 1, e + 3, y.open, y.index, y.blocks),
              Listed(q, p + 1, e + 3, y.output)
       PROVE  ResponsesKnows(q, p + 1, y)
  BY <1>4, <1>10 DEF ResponsesKnows
\* Only three frames bring a list.
<1>list. ASSUME p # 1, p # e + 3 PROVE Listed(q, p + 1, e + 3, m.output)
  BY <1>3, <1>8, <1>list DEF Listed
<1>11. CASE p = 0
  <2>1. Knows(q, 1, b, t, c, n, fin, use, end, m)
    BY <1>6, <1>11, FirstTurn
  <2>2. Standing(p + 1, x, 3, c - 1, e + 3, m.open, m.index, m.blocks)
    <3>1. m.open = "none" /\ m.blocks = 0
      BY <1>8, <1>11 DEF Standing
    <3> QED BY <1>3, <1>11, <3>1 DEF Standing
  <2>3. s[p + 1] = Wait /\ p + 1 = 1
    <3>1. p + 1 = 1
      BY <1>11
    <3>2. s[1] = Wait
      BY <1>9
    <3> QED BY <3>1, <3>2
  <2>4. Knows(q, p + 1, b, t, c, n, fin, use, end, m)
    BY <2>1, <2>3
  <2>5. Listed(q, p + 1, e + 3, m.output)
    BY <1>3, <1>list, <1>11
  <2> QED BY <1>10, <2>2, <2>3, <2>4, <2>5
<1>12. CASE p = 1
  <2>1. s[p + 1] = Send(Envelope("start", q, "in_progress"))
    <3>1. p + 1 = 2
      BY <1>3, <1>12
    <3> QED BY <1>9, <1>12, <3>1
  <2>2. ASSUME NEW z, z = m.count
        PROVE  ResponsesKnows(q, p + 1, Read(proto, m, Numbered(Envelope("start", q, "in_progress"), z)))
    <3> DEFINE f == Numbered(Envelope("start", q, "in_progress"), z)
    <3>1. /\ f.what = "start" /\ f.kind = "none"
          /\ ~ f.finish /\ f.usage = "final" /\ ~ f.image
          /\ f.no = z /\ f.output = Output(q, "in_progress")
      BY DEF Numbered, Envelope, Bare, Frame
    <3> HIDE DEF f
    <3>2. m.count = 0 /\ m.open = "none" /\ ~ m.finish /\ ~ m.ended
      BY <1>3, <1>5, <1>8, <1>12 DEF Standing
    <3>items. OutputAllowed(m, f)
      <4>1. m.output = << >>
        BY <1>3, <1>8, <1>12 DEF Listed
      <4> QED BY <3>1, <4>1, EmptyBefore
    <3>3. Allowed(proto, m, f)
      BY <2>2, <3>1, <3>2, <3>items, <1>1 DEF Allowed, UsageAllowed, Objects, Blocks
    <3>4. /\ p > 0
          /\ p < b \/ (b + 2 * t <= p /\ p < c) \/ p >= c + 2 * n
          /\ p # fin /\ p = use /\ p # end
      BY <1>3, <1>12
    <3>5. OtherFrame(p, b, t, c, n, fin, use, end, f)
      BY <3>1, <3>4, Zenon DEF OtherFrame
    <3>6. PICK y : y = Read(proto, m, f)
      OBVIOUS
    <3>7. Knows(q, p + 1, b, t, c, n, fin, use, end, y) /\ OtherRead(m, f, y)
      BY <1>6, <3>3, <3>5, <3>6, OtherTurn
    <3>8. y.open = m.open /\ y.index = m.index /\ y.blocks = m.blocks /\ y.output = f.output
      BY <3>1, <3>2, <3>7 DEF OtherRead, Objects
    <3>9. Standing(p + 1, x, 3, c - 1, e + 3, m.open, m.index, m.blocks)
      BY <1>3, <1>8, <1>12, <3>2 DEF Standing
    <3>10. Standing(p + 1, x, 3, c - 1, e + 3, y.open, y.index, y.blocks)
      BY <3>8, <3>9
    <3>list. Listed(q, p + 1, e + 3, y.output)
      BY <1>3, <1>12, <3>1, <3>8 DEF Listed
    <3>11. ResponsesKnows(q, p + 1, y)
      BY <1>10, <3>7, <3>10, <3>list
    <3> QED BY <3>6, <3>11 DEF f
  <2> QED BY <2>1, <2>2
<1>13. CASE p = 2
  <2>1. s[p + 1] = Send(Envelope("progress", q, "in_progress"))
    <3>1. p + 1 = 3
      BY <1>3, <1>13
    <3> QED BY <1>9, <1>13, <3>1
  <2>2. ASSUME NEW z, z = m.count
        PROVE  ResponsesKnows(q, p + 1, Read(proto, m, Numbered(Envelope("progress", q, "in_progress"), z)))
    <3> DEFINE f == Numbered(Envelope("progress", q, "in_progress"), z)
    <3>1. /\ f.what = "progress" /\ f.kind = "none"
          /\ ~ f.finish /\ f.usage = "final" /\ ~ f.image
          /\ f.no = z /\ f.output = Output(q, "in_progress")
      BY DEF Numbered, Envelope, Bare, Frame
    <3> HIDE DEF f
    <3>2. m.count # 0 /\ m.open = "none" /\ ~ m.finish /\ ~ m.ended
      BY <1>3, <1>5, <1>8, <1>13 DEF Standing
    <3>items. OutputAllowed(m, f)
      <4>1. m.output = Output(q, "in_progress")
        BY <1>3, <1>8, <1>13 DEF Listed
      <4> QED BY <3>1, <4>1, SameBefore
    <3>3. Allowed(proto, m, f)
      BY <2>2, <3>1, <3>2, <3>items, <1>1 DEF Allowed, UsageAllowed, Objects, Blocks
    <3>4. /\ p > 0
          /\ p < b \/ (b + 2 * t <= p /\ p < c) \/ p >= c + 2 * n
          /\ p # fin /\ p # use /\ p > use /\ p # end
      BY <1>3, <1>13
    <3>5. OtherFrame(p, b, t, c, n, fin, use, end, f)
      BY <3>1, <3>4, Zenon DEF OtherFrame
    <3>6. PICK y : y = Read(proto, m, f)
      OBVIOUS
    <3>7. Knows(q, p + 1, b, t, c, n, fin, use, end, y) /\ OtherRead(m, f, y)
      BY <1>6, <3>3, <3>5, <3>6, OtherTurn
    <3>8. y.open = m.open /\ y.index = m.index /\ y.blocks = m.blocks /\ y.output = f.output
      BY <3>1, <3>2, <3>7 DEF OtherRead, Objects
    <3>9. Standing(p + 1, x, 3, c - 1, e + 3, m.open, m.index, m.blocks)
      BY <1>3, <1>8, <1>13, <3>2 DEF Standing
    <3>10. Standing(p + 1, x, 3, c - 1, e + 3, y.open, y.index, y.blocks)
      BY <3>8, <3>9
    <3>list. Listed(q, p + 1, e + 3, y.output)
      BY <1>3, <1>13, <3>1, <3>8 DEF Listed
    <3>11. ResponsesKnows(q, p + 1, y)
      BY <1>10, <3>7, <3>10, <3>list
    <3> QED BY <3>6, <3>11 DEF f
  <2> QED BY <2>1, <2>2
<1>14. CASE x = 1 /\ p = 3
  <2>1. s[p + 1] = Send(Frame("open", 0, "thinking", << >>))
    <3>1. p + 1 = 4
      BY <1>3, <1>14
    <3> QED BY <1>9, <1>14, <3>1
  <2>2. ASSUME NEW z, z = m.count
        PROVE  ResponsesKnows(q, p + 1, Read(proto, m, Numbered(Frame("open", 0, "thinking", << >>), z)))
    <3> DEFINE f == Numbered(Frame("open", 0, "thinking", << >>), z)
    <3>1. /\ f.what = "open" /\ f.kind = "thinking" /\ f.index = 0
          /\ ~ f.finish /\ f.usage = "none" /\ ~ f.image
          /\ f.no = z
      BY DEF Numbered, Bare, Frame
    <3> HIDE DEF f
    <3>2. m.count # 0 /\ m.open = "none" /\ m.blocks = 0 /\ ~ m.finish /\ ~ m.ended
      BY <1>3, <1>5, <1>8, <1>14 DEF Standing
    <3>3. Allowed(proto, m, f)
      BY <2>2, <3>1, <3>2, <1>1 DEF Allowed, UsageAllowed, OutputAllowed, Objects, Said, Blocks
    <3>4. /\ p > 0
          /\ p < b \/ (b + 2 * t <= p /\ p < c) \/ p >= c + 2 * n
          /\ p # fin /\ p # use /\ p # end
      BY <1>3, <1>14
    <3>5. OtherFrame(p, b, t, c, n, fin, use, end, f)
      BY <3>1, <3>4, Zenon DEF OtherFrame
    <3>6. PICK y : y = Read(proto, m, f)
      OBVIOUS
    <3>7. Knows(q, p + 1, b, t, c, n, fin, use, end, y) /\ OtherRead(m, f, y)
      BY <1>6, <3>3, <3>5, <3>6, OtherTurn
    <3>8. y.open = "thinking" /\ y.index = 0 /\ y.blocks = 1 /\ y.output = m.output
      BY <3>1, <3>2, <3>7 DEF OtherRead, Objects
    <3>9. Standing(p + 1, x, 3, c - 1, e + 3, "thinking", 0, 1)
      BY <1>3, <1>8, <1>14, <3>2 DEF Standing
    <3>10. /\ Standing(p + 1, x, 3, c - 1, e + 3, y.open, y.index, y.blocks)
           /\ Listed(q, p + 1, e + 3, y.output)
      <4>1. p # 1 /\ p # e + 3
        BY <1>3, <1>14
      <4>2. Listed(q, p + 1, e + 3, m.output)
        BY <1>list, <4>1
      <4> QED BY <4>2, <3>8, <3>9
    <3>11. ResponsesKnows(q, p + 1, y)
      BY <1>10, <3>7, <3>10
    <3> QED BY <3>6, <3>11 DEF f
  <2> QED BY <2>1, <2>2
<1>15. CASE b <= p /\ p < b + 2 * t
  <2>1. PICK k \in 1 .. t :
          TokenStep(q, p, b, t, c, n, fin, use, end, m, b, "thinking", ReasoningText, k)
    BY <1>6, <1>15, ThoughtTurn
  <2>2. m.text = << >>
    BY <1>6, <1>15, ThoughtTurn
  <2>3. x = 1
    <3>1. x = 0 => t = 0
      BY <1>3
    <3> QED BY <1>3, <1>15, <3>1
  <2>4. m.count # 0 /\ m.open = "thinking" /\ m.index = 0 /\ ~ m.finish /\ ~ m.ended
    BY <2>3, <1>3, <1>5, <1>8, <1>15 DEF Standing
  <2>5. Standing(p + 1, x, 3, c - 1, e + 3, m.open, m.index, m.blocks)
    BY <1>3, <1>8, <1>15 DEF Standing
  <2>list. Listed(q, p + 1, e + 3, m.output)
    BY <1>3, <1>list, <1>15
  <2>6. CASE p + 1 = b + 2 * k - 1 /\ Knows(q, p + 1, b, t, c, n, fin, use, end, m)
    <3>1. s[p + 1] = Wait
      BY <1>9, <2>6
    <3> QED BY <1>10, <2>5, <2>list, <2>6, <3>1
  <2>7. CASE /\ p + 1 = b + 2 * k
             /\ \A g, f :
                  TokenFrame(f, "thinking", ReasoningText, k) /\ Allowed(g, m, f) =>
                     /\ Knows(q, p + 1, b, t, c, n, fin, use, end, Read(g, m, f))
                     /\ TokenRead(m, f, Read(g, m, f))
    <3>1. s[p + 1] = Send(Frame("delta", 0, "thinking", SplitTokens(ReasoningText)[k]))
      BY <1>9, <2>7
    <3>2. ASSUME NEW z, z = m.count
          PROVE  ResponsesKnows(q, p + 1, Read(proto, m,
                    Numbered(Frame("delta", 0, "thinking", SplitTokens(ReasoningText)[k]), z)))
      <4> DEFINE f == Numbered(Frame("delta", 0, "thinking", SplitTokens(ReasoningText)[k]), z)
      <4>1. /\ f.what = "delta" /\ f.kind = "thinking" /\ f.index = 0
            /\ f.text = SplitTokens(ReasoningText)[k]
            /\ ~ f.finish /\ f.usage = "none" /\ ~ f.image
            /\ f.no = z
        BY DEF Numbered, Frame
      <4> HIDE DEF f
      <4>2. TokenFrame(f, "thinking", ReasoningText, k)
        BY <4>1 DEF TokenFrame
      <4>3. Allowed(proto, m, f)
        BY <1>1, <2>4, <2>2, <3>2, <4>1 DEF Allowed, UsageAllowed, OutputAllowed, Objects, Said, Blocks
      <4>4. PICK y : y = Read(proto, m, f)
        OBVIOUS
      <4>5. Knows(q, p + 1, b, t, c, n, fin, use, end, y) /\ TokenRead(m, f, y)
        BY <2>7, <4>2, <4>3, <4>4
      <4>6. y.open = m.open /\ y.index = m.index /\ y.blocks = m.blocks /\ y.output = m.output
        BY <4>5 DEF TokenRead
      <4>7. /\ Standing(p + 1, x, 3, c - 1, e + 3, y.open, y.index, y.blocks)
            /\ Listed(q, p + 1, e + 3, y.output)
        BY <2>5, <2>list, <4>6
      <4>8. ResponsesKnows(q, p + 1, y)
        BY <1>10, <4>5, <4>7
      <4> QED BY <4>4, <4>8 DEF f
    <3> QED BY <3>1, <3>2
  <2> QED BY <2>1, <2>6, <2>7 DEF TokenStep
<1>16. CASE x = 1 /\ p = c - 3
  <2>1. s[p + 1] = Send(Frame("close", 0, "thinking", ReasoningText))
    <3>1. p + 1 = c - 2
      BY <1>3, <1>16
    <3> QED BY <1>9, <1>16, <3>1
  <2>2. ASSUME NEW z, z = m.count
        PROVE  ResponsesKnows(q, p + 1, Read(proto, m, Numbered(Frame("close", 0, "thinking", ReasoningText), z)))
    <3> DEFINE f == Numbered(Frame("close", 0, "thinking", ReasoningText), z)
    <3>1. /\ f.what = "close" /\ f.kind = "thinking" /\ f.index = 0 /\ f.text = ReasoningText
          /\ ~ f.finish /\ f.usage = "none" /\ ~ f.image
          /\ f.no = z
      BY DEF Numbered, Bare, Frame
    <3> HIDE DEF f
    <3>2. m.count # 0 /\ m.open = "thinking" /\ m.index = 0 /\ ~ m.finish /\ ~ m.ended
      BY <1>3, <1>5, <1>8, <1>16 DEF Standing
    <3>3. m.thinking = ReasoningText
      <4>1. p >= b + 2 * t
        BY <1>3, <1>16
      <4>2. Told(ReasoningText, t, m.thinking)
        BY <1>6, <1>7, <4>1, ThoughtsTold
      <4> QED BY <4>2, <1>4, <1>16, TextsAreTexts, AllTold DEF Thoughts
    <3>4. Allowed(proto, m, f)
      BY <2>2, <3>1, <3>2, <3>3, <1>1 DEF Allowed, UsageAllowed, OutputAllowed, Objects, Said, Blocks
    <3>5. /\ p > 0
          /\ p < b \/ (b + 2 * t <= p /\ p < c) \/ p >= c + 2 * n
          /\ p # fin /\ p # use /\ p # end
      BY <1>3, <1>16
    <3>6. OtherFrame(p, b, t, c, n, fin, use, end, f)
      BY <3>1, <3>5, Zenon DEF OtherFrame
    <3>7. PICK y : y = Read(proto, m, f)
      OBVIOUS
    <3>8. Knows(q, p + 1, b, t, c, n, fin, use, end, y) /\ OtherRead(m, f, y)
      BY <1>6, <3>4, <3>6, <3>7, OtherTurn
    <3>9. y.open = "none" /\ y.index = m.index /\ y.blocks = m.blocks /\ y.output = m.output
      BY <3>1, <3>2, <3>8 DEF OtherRead, Objects
    <3>10. Standing(p + 1, x, 3, c - 1, e + 3, "none", m.index, m.blocks)
      BY <1>3, <1>8, <1>16, <3>2 DEF Standing
    <3>11. /\ Standing(p + 1, x, 3, c - 1, e + 3, y.open, y.index, y.blocks)
           /\ Listed(q, p + 1, e + 3, y.output)
      <4>1. p # 1 /\ p # e + 3
        BY <1>3, <1>16
      <4>2. Listed(q, p + 1, e + 3, m.output)
        BY <1>list, <4>1
      <4> QED BY <4>2, <3>9, <3>10
    <3>12. ResponsesKnows(q, p + 1, y)
      BY <1>10, <3>8, <3>11
    <3> QED BY <3>7, <3>12 DEF f
  <2> QED BY <2>1, <2>2
<1>17. CASE p = c - 2
  <2>1. s[p + 1] = Send(Frame("open", x, "text", << >>))
    <3>1. p + 1 = c - 1
      BY <1>3, <1>17
    <3> QED BY <1>9, <1>17, <3>1
  <2>2. ASSUME NEW z, z = m.count
        PROVE  ResponsesKnows(q, p + 1, Read(proto, m, Numbered(Frame("open", x, "text", << >>), z)))
    <3> DEFINE f == Numbered(Frame("open", x, "text", << >>), z)
    <3>1. /\ f.what = "open" /\ f.kind = "text" /\ f.index = x
          /\ ~ f.finish /\ f.usage = "none" /\ ~ f.image
          /\ f.no = z
      BY DEF Numbered, Bare, Frame
    <3> HIDE DEF f
    <3>2. m.count # 0 /\ m.open = "none" /\ m.blocks = x /\ ~ m.finish /\ ~ m.ended
      <4>1. CASE x = 0
        BY <1>3, <1>5, <1>8, <1>17, <4>1 DEF Standing
      <4>2. CASE x = 1
        BY <1>3, <1>5, <1>8, <1>17, <4>2 DEF Standing
      <4> QED BY <1>3, <4>1, <4>2
    <3>3. Allowed(proto, m, f)
      BY <2>2, <3>1, <3>2, <1>1 DEF Allowed, UsageAllowed, OutputAllowed, Objects, Said, Blocks
    <3>4. /\ p > 0
          /\ p < b \/ (b + 2 * t <= p /\ p < c) \/ p >= c + 2 * n
          /\ p # fin /\ p # use /\ p # end
      BY <1>3, <1>17
    <3>5. OtherFrame(p, b, t, c, n, fin, use, end, f)
      BY <3>1, <3>4, Zenon DEF OtherFrame
    <3>6. PICK y : y = Read(proto, m, f)
      OBVIOUS
    <3>7. Knows(q, p + 1, b, t, c, n, fin, use, end, y) /\ OtherRead(m, f, y)
      BY <1>6, <3>3, <3>5, <3>6, OtherTurn
    <3>8. y.open = "text" /\ y.index = x /\ y.blocks = x + 1 /\ y.output = m.output
      BY <3>1, <3>2, <3>7 DEF OtherRead, Objects
    <3>9. Standing(p + 1, x, 3, c - 1, e + 3, "text", x, x + 1)
      BY <1>3, <1>8, <1>17, <3>2 DEF Standing
    <3>10. /\ Standing(p + 1, x, 3, c - 1, e + 3, y.open, y.index, y.blocks)
           /\ Listed(q, p + 1, e + 3, y.output)
      <4>1. p # 1 /\ p # e + 3
        BY <1>3, <1>17
      <4>2. Listed(q, p + 1, e + 3, m.output)
        BY <1>list, <4>1
      <4> QED BY <4>2, <3>8, <3>9
    <3>11. ResponsesKnows(q, p + 1, y)
      BY <1>10, <3>7, <3>10
    <3> QED BY <3>6, <3>11 DEF f
  <2> QED BY <2>1, <2>2
<1>18. CASE p = c - 1
  <2>1. s[p + 1] = Send(Frame("part", x, "text", << >>))
    <3>1. p + 1 = c
      BY <1>3, <1>18
    <3> QED BY <1>9, <1>18, <3>1
  <2>2. ASSUME NEW z, z = m.count
        PROVE  ResponsesKnows(q, p + 1, Read(proto, m, Numbered(Frame("part", x, "text", << >>), z)))
    <3> DEFINE f == Numbered(Frame("part", x, "text", << >>), z)
    <3>1. /\ f.what = "part" /\ f.kind = "text" /\ f.index = x
          /\ ~ f.finish /\ f.usage = "none" /\ ~ f.image
          /\ f.no = z
      BY DEF Numbered, Bare, Frame
    <3> HIDE DEF f
    <3>2. m.count # 0 /\ m.open = "text" /\ m.index = x /\ ~ m.finish /\ ~ m.ended
      BY <1>3, <1>5, <1>8, <1>18 DEF Standing
    <3>3. Allowed(proto, m, f)
      BY <2>2, <3>1, <3>2, <1>1 DEF Allowed, UsageAllowed, OutputAllowed, Objects, Said, Blocks
    <3>4. /\ p > 0
          /\ p < b \/ (b + 2 * t <= p /\ p < c) \/ p >= c + 2 * n
          /\ p # fin /\ p # use /\ p # end
      BY <1>3, <1>18
    <3>5. OtherFrame(p, b, t, c, n, fin, use, end, f)
      BY <3>1, <3>4, Zenon DEF OtherFrame
    <3>6. PICK y : y = Read(proto, m, f)
      OBVIOUS
    <3>7. Knows(q, p + 1, b, t, c, n, fin, use, end, y) /\ OtherRead(m, f, y)
      BY <1>6, <3>3, <3>5, <3>6, OtherTurn
    <3>8. y.open = m.open /\ y.index = m.index /\ y.blocks = m.blocks /\ y.output = m.output
      BY <3>1, <3>2, <3>7 DEF OtherRead, Objects
    <3>9. Standing(p + 1, x, 3, c - 1, e + 3, m.open, m.index, m.blocks)
      BY <1>3, <1>8, <1>18, <3>2 DEF Standing
    <3>10. /\ Standing(p + 1, x, 3, c - 1, e + 3, y.open, y.index, y.blocks)
           /\ Listed(q, p + 1, e + 3, y.output)
      <4>1. p # 1 /\ p # e + 3
        BY <1>3, <1>18
      <4>2. Listed(q, p + 1, e + 3, m.output)
        BY <1>list, <4>1
      <4> QED BY <4>2, <3>8, <3>9
    <3>11. ResponsesKnows(q, p + 1, y)
      BY <1>10, <3>7, <3>10
    <3> QED BY <3>6, <3>11 DEF f
  <2> QED BY <2>1, <2>2
<1>19. CASE c <= p /\ p < e
  <2>1. c <= p /\ p < c + 2 * n /\ n <= Tokens(q)
    BY <1>3, <1>7, <1>19
  <2>2. PICK k \in 1 .. n :
          TokenStep(q, p, b, t, c, n, fin, use, end, m, c, "text", q.reply, k)
    BY <1>6, <2>1, WordTurn
  <2>3. m.count # 0 /\ m.open = "text" /\ m.index = x /\ ~ m.finish /\ ~ m.ended
    BY <1>3, <1>5, <1>8, <1>19 DEF Standing
  <2>4. Standing(p + 1, x, 3, c - 1, e + 3, m.open, m.index, m.blocks)
    BY <1>3, <1>8, <1>19 DEF Standing
  <2>list. Listed(q, p + 1, e + 3, m.output)
    BY <1>3, <1>list, <1>19
  <2>5. CASE p + 1 = c + 2 * k - 1 /\ Knows(q, p + 1, b, t, c, n, fin, use, end, m)
    <3>1. s[p + 1] = Wait
      BY <1>9, <2>5
    <3> QED BY <1>10, <2>4, <2>list, <2>5, <3>1
  <2>6. CASE /\ p + 1 = c + 2 * k
             /\ \A g, f :
                  TokenFrame(f, "text", q.reply, k) /\ Allowed(g, m, f) =>
                     /\ Knows(q, p + 1, b, t, c, n, fin, use, end, Read(g, m, f))
                     /\ TokenRead(m, f, Read(g, m, f))
    <3>1. s[p + 1] = Send(Frame("delta", x, "text", SplitTokens(q.reply)[k]))
      BY <1>9, <2>6
    <3>2. ASSUME NEW z, z = m.count
          PROVE  ResponsesKnows(q, p + 1, Read(proto, m,
                    Numbered(Frame("delta", x, "text", SplitTokens(q.reply)[k]), z)))
      <4> DEFINE f == Numbered(Frame("delta", x, "text", SplitTokens(q.reply)[k]), z)
      <4>1. /\ f.what = "delta" /\ f.kind = "text" /\ f.index = x
            /\ f.text = SplitTokens(q.reply)[k]
            /\ ~ f.finish /\ f.usage = "none" /\ ~ f.image
            /\ f.no = z
        BY DEF Numbered, Frame
      <4> HIDE DEF f
      <4>2. TokenFrame(f, "text", q.reply, k)
        BY <4>1 DEF TokenFrame
      <4>3. Allowed(proto, m, f)
        BY <1>1, <2>3, <3>2, <4>1 DEF Allowed, UsageAllowed, OutputAllowed, Objects, Said, Blocks
      <4>4. PICK y : y = Read(proto, m, f)
        OBVIOUS
      <4>5. Knows(q, p + 1, b, t, c, n, fin, use, end, y) /\ TokenRead(m, f, y)
        BY <2>6, <4>2, <4>3, <4>4
      <4>6. y.open = m.open /\ y.index = m.index /\ y.blocks = m.blocks /\ y.output = m.output
        BY <4>5 DEF TokenRead
      <4>7. /\ Standing(p + 1, x, 3, c - 1, e + 3, y.open, y.index, y.blocks)
            /\ Listed(q, p + 1, e + 3, y.output)
        BY <2>4, <2>list, <4>6
      <4>8. ResponsesKnows(q, p + 1, y)
        BY <1>10, <4>5, <4>7
      <4> QED BY <4>4, <4>8 DEF f
    <3> QED BY <3>1, <3>2
  <2> QED BY <2>2, <2>5, <2>6 DEF TokenStep
<1>20. CASE p = e
  <2>1. s[p + 1] = Send(Frame("part done", x, "text", q.reply))
    <3>1. p + 1 = e + 1
      BY <1>3, <1>20
    <3> QED BY <1>9, <1>20, <3>1
  <2>2. ASSUME NEW z, z = m.count
        PROVE  ResponsesKnows(q, p + 1, Read(proto, m, Numbered(Frame("part done", x, "text", q.reply), z)))
    <3> DEFINE f == Numbered(Frame("part done", x, "text", q.reply), z)
    <3>1. /\ f.what = "part done" /\ f.kind = "text" /\ f.index = x /\ f.text = q.reply
          /\ ~ f.finish /\ f.usage = "none" /\ ~ f.image
          /\ f.no = z
      BY DEF Numbered, Bare, Frame
    <3> HIDE DEF f
    <3>2. m.count # 0 /\ m.open = "text" /\ m.index = x /\ ~ m.finish /\ ~ m.ended
      BY <1>3, <1>5, <1>8, <1>20 DEF Standing
    <3>3. Fields(m.text) = Fields(q.reply)
      <4>1. p >= c + 2 * n
        BY <1>3, <1>20
      <4>2. /\ Fields(m.text) = Fields(q.reply)
            /\ Spaced(q.reply) => m.text = q.reply
        BY <1>6, <1>7, <4>1, WordsTold, Zenon
      <4> QED BY <4>2
    <3>4. Allowed(proto, m, f)
      BY <2>2, <3>1, <3>2, <3>3, <1>1 DEF Allowed, UsageAllowed, OutputAllowed, Objects, Said, Blocks
    <3>5. /\ p > 0
          /\ p < b \/ (b + 2 * t <= p /\ p < c) \/ p >= c + 2 * n
          /\ p # fin /\ p # use /\ p # end
      BY <1>3, <1>20
    <3>6. OtherFrame(p, b, t, c, n, fin, use, end, f)
      BY <3>1, <3>5, Zenon DEF OtherFrame
    <3>7. PICK y : y = Read(proto, m, f)
      OBVIOUS
    <3>8. Knows(q, p + 1, b, t, c, n, fin, use, end, y) /\ OtherRead(m, f, y)
      BY <1>6, <3>4, <3>6, <3>7, OtherTurn
    <3>9. y.open = m.open /\ y.index = m.index /\ y.blocks = m.blocks /\ y.output = m.output
      BY <3>1, <3>2, <3>8 DEF OtherRead, Objects
    <3>10. Standing(p + 1, x, 3, c - 1, e + 3, m.open, m.index, m.blocks)
      BY <1>3, <1>8, <1>20, <3>2 DEF Standing
    <3>11. /\ Standing(p + 1, x, 3, c - 1, e + 3, y.open, y.index, y.blocks)
           /\ Listed(q, p + 1, e + 3, y.output)
      <4>1. p # 1 /\ p # e + 3
        BY <1>3, <1>20
      <4>2. Listed(q, p + 1, e + 3, m.output)
        BY <1>list, <4>1
      <4> QED BY <4>2, <3>9, <3>10
    <3>12. ResponsesKnows(q, p + 1, y)
      BY <1>10, <3>8, <3>11
    <3> QED BY <3>7, <3>12 DEF f
  <2> QED BY <2>1, <2>2
<1>21. CASE p = e + 1
  <2>1. s[p + 1] = Send(Frame("part done", x, "text", q.reply))
    <3>1. p + 1 = e + 2
      BY <1>3, <1>21
    <3> QED BY <1>9, <1>21, <3>1
  <2>2. ASSUME NEW z, z = m.count
        PROVE  ResponsesKnows(q, p + 1, Read(proto, m, Numbered(Frame("part done", x, "text", q.reply), z)))
    <3> DEFINE f == Numbered(Frame("part done", x, "text", q.reply), z)
    <3>1. /\ f.what = "part done" /\ f.kind = "text" /\ f.index = x /\ f.text = q.reply
          /\ ~ f.finish /\ f.usage = "none" /\ ~ f.image
          /\ f.no = z
      BY DEF Numbered, Bare, Frame
    <3> HIDE DEF f
    <3>2. m.count # 0 /\ m.open = "text" /\ m.index = x /\ ~ m.finish /\ ~ m.ended
      BY <1>3, <1>5, <1>8, <1>21 DEF Standing
    <3>3. Fields(m.text) = Fields(q.reply)
      <4>1. p >= c + 2 * n
        BY <1>3, <1>21
      <4>2. /\ Fields(m.text) = Fields(q.reply)
            /\ Spaced(q.reply) => m.text = q.reply
        BY <1>6, <1>7, <4>1, WordsTold, Zenon
      <4> QED BY <4>2
    <3>4. Allowed(proto, m, f)
      BY <2>2, <3>1, <3>2, <3>3, <1>1 DEF Allowed, UsageAllowed, OutputAllowed, Objects, Said, Blocks
    <3>5. /\ p > 0
          /\ p < b \/ (b + 2 * t <= p /\ p < c) \/ p >= c + 2 * n
          /\ p # fin /\ p # use /\ p # end
      BY <1>3, <1>21
    <3>6. OtherFrame(p, b, t, c, n, fin, use, end, f)
      BY <3>1, <3>5, Zenon DEF OtherFrame
    <3>7. PICK y : y = Read(proto, m, f)
      OBVIOUS
    <3>8. Knows(q, p + 1, b, t, c, n, fin, use, end, y) /\ OtherRead(m, f, y)
      BY <1>6, <3>4, <3>6, <3>7, OtherTurn
    <3>9. y.open = m.open /\ y.index = m.index /\ y.blocks = m.blocks /\ y.output = m.output
      BY <3>1, <3>2, <3>8 DEF OtherRead, Objects
    <3>10. Standing(p + 1, x, 3, c - 1, e + 3, m.open, m.index, m.blocks)
      BY <1>3, <1>8, <1>21, <3>2 DEF Standing
    <3>11. /\ Standing(p + 1, x, 3, c - 1, e + 3, y.open, y.index, y.blocks)
           /\ Listed(q, p + 1, e + 3, y.output)
      <4>1. p # 1 /\ p # e + 3
        BY <1>3, <1>21
      <4>2. Listed(q, p + 1, e + 3, m.output)
        BY <1>list, <4>1
      <4> QED BY <4>2, <3>9, <3>10
    <3>12. ResponsesKnows(q, p + 1, y)
      BY <1>10, <3>8, <3>11
    <3> QED BY <3>7, <3>12 DEF f
  <2> QED BY <2>1, <2>2
<1>22. CASE p = e + 2
  <2>1. s[p + 1] = Send(Frame("close", x, "text", q.reply))
    <3>1. p + 1 = e + 3
      BY <1>3, <1>22
    <3> QED BY <1>9, <1>22, <3>1
  <2>2. ASSUME NEW z, z = m.count
        PROVE  ResponsesKnows(q, p + 1, Read(proto, m, Numbered(Frame("close", x, "text", q.reply), z)))
    <3> DEFINE f == Numbered(Frame("close", x, "text", q.reply), z)
    <3>1. /\ f.what = "close" /\ f.kind = "text" /\ f.index = x /\ f.text = q.reply
          /\ ~ f.finish /\ f.usage = "none" /\ ~ f.image
          /\ f.no = z
      BY DEF Numbered, Bare, Frame
    <3> HIDE DEF f
    <3>2. m.count # 0 /\ m.open = "text" /\ m.index = x /\ ~ m.finish /\ ~ m.ended
      BY <1>3, <1>5, <1>8, <1>22 DEF Standing
    <3>3. Fields(m.text) = Fields(q.reply)
      <4>1. p >= c + 2 * n
        BY <1>3, <1>22
      <4>2. /\ Fields(m.text) = Fields(q.reply)
            /\ Spaced(q.reply) => m.text = q.reply
        BY <1>6, <1>7, <4>1, WordsTold, Zenon
      <4> QED BY <4>2
    <3>4. Allowed(proto, m, f)
      BY <2>2, <3>1, <3>2, <3>3, <1>1 DEF Allowed, UsageAllowed, OutputAllowed, Objects, Said, Blocks
    <3>5. /\ p > 0
          /\ p < b \/ (b + 2 * t <= p /\ p < c) \/ p >= c + 2 * n
          /\ p # fin /\ p # use /\ p # end
      BY <1>3, <1>22
    <3>6. OtherFrame(p, b, t, c, n, fin, use, end, f)
      BY <3>1, <3>5, Zenon DEF OtherFrame
    <3>7. PICK y : y = Read(proto, m, f)
      OBVIOUS
    <3>8. Knows(q, p + 1, b, t, c, n, fin, use, end, y) /\ OtherRead(m, f, y)
      BY <1>6, <3>4, <3>6, <3>7, OtherTurn
    <3>9. y.open = "none" /\ y.index = m.index /\ y.blocks = m.blocks /\ y.output = m.output
      BY <3>1, <3>2, <3>8 DEF OtherRead, Objects
    <3>10. Standing(p + 1, x, 3, c - 1, e + 3, "none", m.index, m.blocks)
      BY <1>3, <1>8, <1>22, <3>2 DEF Standing
    <3>11. /\ Standing(p + 1, x, 3, c - 1, e + 3, y.open, y.index, y.blocks)
           /\ Listed(q, p + 1, e + 3, y.output)
      <4>1. p # 1 /\ p # e + 3
        BY <1>3, <1>22
      <4>2. Listed(q, p + 1, e + 3, m.output)
        BY <1>list, <4>1
      <4> QED BY <4>2, <3>9, <3>10
    <3>12. ResponsesKnows(q, p + 1, y)
      BY <1>10, <3>8, <3>11
    <3> QED BY <3>7, <3>12 DEF f
  <2> QED BY <2>1, <2>2
<1>23. CASE p = e + 3
  <2>1. s[p + 1] = Send([Envelope("end", q, "completed") EXCEPT !.finish = TRUE])
    <3>1. p + 1 = e + 4
      BY <1>3, <1>23
    <3> QED BY <1>9, <1>23, <3>1
  <2>2. ASSUME NEW z, z = m.count
        PROVE  ResponsesKnows(q, p + 1, Read(proto, m, Numbered([Envelope("end", q, "completed") EXCEPT !.finish = TRUE], z)))
    <3> DEFINE f == Numbered([Envelope("end", q, "completed") EXCEPT !.finish = TRUE], z)
    <3>1. /\ f.what = "end" /\ f.kind = "none"
          /\ f.finish /\ f.usage = "final" /\ ~ f.image
          /\ f.no = z /\ f.output = Output(q, "completed")
      BY DEF Numbered, Envelope, Bare, Frame
    <3> HIDE DEF f
    <3>2. m.count # 0 /\ m.open = "none" /\ ~ m.finish /\ ~ m.ended
      BY <1>3, <1>5, <1>8, <1>23 DEF Standing
    <3>items. OutputAllowed(m, f)
      <4>1. m.output = Output(q, "in_progress") /\ m.blocks = x + 1
        BY <1>3, <1>8, <1>23 DEF Listed, Standing
      <4>2. p >= b + 2 * t
        BY <1>3, <1>23
      <4>3. /\ Fields(m.text) = Fields(q.reply)
            /\ Spaced(q.reply) => m.text = q.reply
        <5>1. p >= c + 2 * n
          BY <1>3, <1>23
        <5> QED BY <1>6, <1>7, <5>1, WordsTold, Zenon
      <4>4. q.reasoning => m.thinking = ReasoningText
        <5>1. Told(ReasoningText, t, m.thinking)
          BY <1>6, <4>2, ThoughtsTold
        <5> QED BY <5>1, <1>4, TextsAreTexts, AllTold DEF Thoughts
      <4> QED BY <1>4, <3>1, <4>1, <4>3, <4>4, WholeAtEnd
    <3>3. Allowed(proto, m, f)
      BY <2>2, <3>1, <3>2, <3>items, <1>1 DEF Allowed, UsageAllowed, Objects, Blocks
    <3>4. /\ p > 0
          /\ p < b \/ (b + 2 * t <= p /\ p < c) \/ p >= c + 2 * n
          /\ p = fin /\ p # use /\ p > use /\ p = end
      BY <1>3, <1>23
    <3>5. OtherFrame(p, b, t, c, n, fin, use, end, f)
      BY <3>1, <3>4, Zenon DEF OtherFrame
    <3>6. PICK y : y = Read(proto, m, f)
      OBVIOUS
    <3>7. Knows(q, p + 1, b, t, c, n, fin, use, end, y) /\ OtherRead(m, f, y)
      BY <1>6, <3>3, <3>5, <3>6, OtherTurn
    <3>8. y.open = m.open /\ y.index = m.index /\ y.blocks = m.blocks /\ y.output = f.output
      BY <3>1, <3>2, <3>7 DEF OtherRead, Objects
    <3>9. Standing(p + 1, x, 3, c - 1, e + 3, m.open, m.index, m.blocks)
      BY <1>3, <1>8, <1>23, <3>2 DEF Standing
    <3>10. Standing(p + 1, x, 3, c - 1, e + 3, y.open, y.index, y.blocks)
      BY <3>8, <3>9
    <3>list. Listed(q, p + 1, e + 3, y.output)
      <4>1. ~ (p + 1 <= 1) /\ ~ (p + 1 <= e + 3)
        BY <1>3, <1>23
      <4>2. y.output = Output(q, "completed")
        BY <3>1, <3>8
      <4> QED BY <4>1, <4>2 DEF Listed
    <3>11. ResponsesKnows(q, p + 1, y)
      BY <1>10, <3>7, <3>10, <3>list
    <3> QED BY <3>6, <3>11 DEF f
  <2> QED BY <2>1, <2>2
<1>24. \/ p = 0 \/ p = 1 \/ p = 2 \/ (x = 1 /\ p = 3) \/ (b <= p /\ p < b + 2 * t)
       \/ (x = 1 /\ p = c - 3) \/ p = c - 2 \/ p = c - 1 \/ (c <= p /\ p < e)
       \/ p = e \/ p = e + 1 \/ p = e + 2 \/ p = e + 3
  <2>1. p < e + 4
    BY <1>9
  <2>2. CASE x = 0
    BY <1>3, <2>1, <2>2
  <2>3. CASE x = 1
    BY <1>3, <2>1, <2>3
  <2> QED BY <1>3, <2>2, <2>3
<1> QED BY <1>11, <1>12, <1>13, <1>14, <1>15, <1>16, <1>17, <1>18, <1>19, <1>20, <1>21, <1>22,
           <1>23, <1>24

-----------------------------------------------------------------------------
(* Gemini streams: the last token carries all the rest.                    *)

GeminiKnows(q, p, m) ==
    /\ \E j : Along(p, 1, 0, 1, Tokens(q), 0, j) /\ Told(q.reply, j, m.text)
    /\ Told(ReasoningText, 0, m.thinking)
    /\ m.ok /\ m.open = "none" /\ ~ m.ended
    /\ m.count \in Nat
    /\ m.finish <=> Tokens(q) > 0 /\ p > 2 * Tokens(q)
    /\ m.usage = "final" <=> Tokens(q) > 0 /\ p > 2 * Tokens(q)
    /\ m.image <=> q.image /\ Tokens(q) > 0 /\ p > 2 * Tokens(q)

LEMMA GeminiBegins ==
    ASSUME NEW q \in Request
    PROVE  GeminiKnows(q, 0, Nothing)
<1>1. PICK n \in Nat : n = Tokens(q)
  BY Numbers
<1>2. Along(0, 1, 0, 1, n, 0, 0)
  BY DEF Along
<1>3. /\ Nothing.thinking = << >> /\ Nothing.text = << >> /\ Nothing.ok /\ Nothing.open = "none"
      /\ ~ Nothing.image /\ ~ Nothing.finish /\ Nothing.usage # "final" /\ ~ Nothing.ended
      /\ Nothing.count = 0
  BY DEF Nothing
<1>4. Told(ReasoningText, 0, << >>) /\ Told(q.reply, 0, << >>)
  BY TextsAreTexts, NothingTold
<1>5. ~ (0 > 2 * n) /\ 0 \in Nat
  OBVIOUS
<1> QED BY <1>1, <1>2, <1>3, <1>4, <1>5 DEF GeminiKnows

LEMMA GeminiStep ==
    ASSUME NEW q \in Request, NEW s, GeminiLaidOut(q, s), NEW p \in Nat, p < Len(s),
           NEW m, GeminiKnows(q, p, m), NEW proto, proto = "gemini"
    PROVE  \/ s[p + 1] = Wait /\ GeminiKnows(q, p + 1, m)
           \/ \E f : /\ s[p + 1] = Send(f)
                     /\ \A z : GeminiKnows(q, p + 1, Read(proto, m, Numbered(f, z)))
<1>1. PICK n \in Nat : n = Tokens(q)
  BY Numbers
<1>2. PICK i \in Nat, t \in Nat, b \in Nat, c \in Nat : i = 0 /\ t = 0 /\ b = 1 /\ c = 1
  OBVIOUS
<1>3. PICK j : Along(p, b, t, c, n, i, j) /\ Told(q.reply, j, m.text)
  BY <1>1, <1>2 DEF GeminiKnows
<1>4. /\ Told(ReasoningText, i, m.thinking)
      /\ m.ok /\ m.open = "none" /\ ~ m.ended
      /\ m.count \in Nat
  BY <1>2 DEF GeminiKnows
<1>5. /\ m.finish <=> n > 0 /\ p > 2 * n
      /\ m.usage = "final" <=> n > 0 /\ p > 2 * n
      /\ m.image <=> q.image /\ n > 0 /\ p > 2 * n
  BY <1>1 DEF GeminiKnows
<1>6. /\ Len(s) = 1 + 2 * n
      /\ s[1] = Wait
      /\ \A k \in 1 .. n : s[2 * k] = Wait /\ s[2 * k + 1] = Send(Chunk(q, k))
  BY <1>1 DEF GeminiLaidOut
<1>7. p < 1 + 2 * n
  BY <1>6
<1>8. /\ j \in 0 .. n
      /\ \/ p = 0 /\ Along(p + 1, b, t, c, n, i, j)
         \/ p = c + 2 * j /\ j < n /\ Along(p + 1, b, t, c, n, i, j)
         \/ p = c + 2 * j + 1 /\ j < n /\ Along(p + 1, b, t, c, n, i, j + 1)
  <2>1. b + 2 * t <= c
    BY <1>2
  <2>2. Along(p, b, t, c, n, i, j)
    BY <1>3
  <2>3. /\ i \in 0 .. t /\ j \in 0 .. n
        /\ \/ /\ p < b \/ (b + 2 * t <= p /\ p < c) \/ p >= c + 2 * n
              /\ Along(p + 1, b, t, c, n, i, j)
              /\ p < b => i = 0
              /\ p < c => j = 0
              /\ p >= b + 2 * t => i = t
              /\ p >= c + 2 * n => j = n
           \/ p = b + 2 * i /\ i < t /\ j = 0 /\ Along(p + 1, b, t, c, n, i, j)
           \/ p = b + 2 * i + 1 /\ i < t /\ j = 0 /\ Along(p + 1, b, t, c, n, i + 1, j)
           \/ p = c + 2 * j /\ j < n /\ i = t /\ Along(p + 1, b, t, c, n, i, j)
           \/ p = c + 2 * j + 1 /\ j < n /\ i = t /\ Along(p + 1, b, t, c, n, i, j + 1)
    BY <2>1, <2>2, AlongNext
  <2> QED BY <1>2, <1>7, <2>3
<1>9. ASSUME NEW y, NEW l, Along(p + 1, b, t, c, n, i, l), Told(q.reply, l, y.text),
             Told(ReasoningText, i, y.thinking), y.ok, y.open = "none", ~ y.ended,
             y.count \in Nat,
             y.finish <=> n > 0 /\ p + 1 > 2 * n,
             y.usage = "final" <=> n > 0 /\ p + 1 > 2 * n,
             y.image <=> q.image /\ n > 0 /\ p + 1 > 2 * n
      PROVE  GeminiKnows(q, p + 1, y)
  BY <1>1, <1>2, <1>9 DEF GeminiKnows
\* A wait changes nothing.
<1>10. ASSUME Along(p + 1, b, t, c, n, i, j), (n > 0 /\ p + 1 > 2 * n) <=> (n > 0 /\ p > 2 * n)
       PROVE  GeminiKnows(q, p + 1, m)
  <2>1. /\ m.finish <=> n > 0 /\ p + 1 > 2 * n
        /\ m.usage = "final" <=> n > 0 /\ p + 1 > 2 * n
        /\ m.image <=> q.image /\ n > 0 /\ p + 1 > 2 * n
    BY <1>5, <1>10, Zenon
  <2> QED BY <1>3, <1>4, <1>9, <1>10, <2>1
<1>11. CASE p = 0 /\ Along(p + 1, b, t, c, n, i, j)
  <2>1. (n > 0 /\ p + 1 > 2 * n) <=> (n > 0 /\ p > 2 * n)
    BY <1>11
  <2>2. s[p + 1] = Wait
    BY <1>6, <1>11
  <2> QED BY <1>10, <1>11, <2>1, <2>2
<1>12. CASE p = c + 2 * j /\ j < n /\ Along(p + 1, b, t, c, n, i, j)
  <2>1. (n > 0 /\ p + 1 > 2 * n) <=> (n > 0 /\ p > 2 * n)
    BY <1>2, <1>8, <1>12
  <2>2. j + 1 \in 1 .. n /\ p + 1 = 2 * (j + 1)
    BY <1>2, <1>8, <1>12
  <2>3. s[p + 1] = Wait
    BY <1>6, <2>2
  <2> QED BY <1>10, <1>12, <2>1, <2>3
<1>13. CASE p = c + 2 * j + 1 /\ j < n /\ Along(p + 1, b, t, c, n, i, j + 1)
  <2>1. /\ j \in Nat /\ j + 1 \in 1 .. n /\ p + 1 = 2 * (j + 1) + 1
        /\ ~ (p > 2 * n) /\ n > 0
    BY <1>2, <1>8, <1>13
  <2>2. p + 1 > 2 * n <=> j + 1 = n
    BY <2>1
  <2>3. s[p + 1] = Send(Chunk(q, j + 1))
    BY <1>6, <2>1
  <2>4. ASSUME NEW z
        PROVE  GeminiKnows(q, p + 1, Read(proto, m, Numbered(Chunk(q, j + 1), z)))
    <3> DEFINE f == Numbered(Chunk(q, j + 1), z)
    <3>1. /\ f.what = "delta" /\ f.kind = "text"
          /\ f.text = SplitTokens(q.reply)[j + 1]
          /\ f.finish <=> j + 1 = n
          /\ f.usage = IF j + 1 = n THEN "final" ELSE "none"
          /\ f.image <=> q.image /\ j + 1 = n
      BY <1>1 DEF Numbered, Chunk, Frame
    <3> HIDE DEF f
    <3>2. ~ m.finish /\ m.usage # "final" /\ ~ m.image
      BY <1>5, <2>1, Zenon
    <3>3. Allowed(proto, m, f)
      BY <1>4, <3>1, <3>2 DEF Allowed, UsageAllowed, Objects, Blocks
    <3>4. PICK y : y = Read(proto, m, f)
      OBVIOUS
    <3>5. j < Tokens(q)
      BY <1>1, <1>13
    <3>6. /\ Told(ReasoningText, i, y.thinking) /\ Told(q.reply, j + 1, y.text)
          /\ TokenRead(m, f, y)
          /\ m.ok /\ Allowed(proto, m, f) => y.ok
      BY <1>3, <1>4, <2>1, <3>1, <3>4, <3>5, ReadWord
    <3>7. y.open = "none" /\ y.count \in Nat /\ ~ y.ended
      BY <1>4, <3>6 DEF TokenRead
    <3>8. /\ y.finish <=> n > 0 /\ p + 1 > 2 * n
          /\ y.usage = "final" <=> n > 0 /\ p + 1 > 2 * n
          /\ y.image <=> q.image /\ n > 0 /\ p + 1 > 2 * n
      BY <2>1, <2>2, <3>1, <3>2, <3>6, Zenon DEF TokenRead
    <3>9. GeminiKnows(q, p + 1, y)
      BY <1>4, <1>9, <1>13, <3>3, <3>6, <3>7, <3>8
    <3> QED BY <3>4, <3>9 DEF f
  <2> QED BY <2>3, <2>4
<1> QED BY <1>8, <1>11, <1>12, <1>13

-----------------------------------------------------------------------------
(* Any stream.                                                             *)

ScriptKnows(q, p, m) ==
    /\ q.proto \in {"openai", "zhipu"} => ChatKnows(q, p, m)
    /\ q.proto = "anthropic" => AnthropicKnows(q, p, m)
    /\ q.proto = "responses" => ResponsesKnows(q, p, m)
    /\ q.proto = "gemini" => GeminiKnows(q, p, m)

ScriptLaidOut(q, s) ==
    /\ q.proto \in {"openai", "zhipu"} => ChatLaidOut(q, s)
    /\ q.proto = "anthropic" => AnthropicLaidOut(q, s)
    /\ q.proto = "responses" => ResponsesLaidOut(q, s)
    /\ q.proto = "gemini" => GeminiLaidOut(q, s)

LEMMA ProtocolCases ==
    ASSUME NEW q \in Request
    PROVE  \/ q.proto \in {"openai", "zhipu"}
           \/ q.proto = "anthropic" \/ q.proto = "responses" \/ q.proto = "gemini"
BY DEF Request, Protocols

LEMMA ScriptLayout ==
    ASSUME NEW q \in Request
    PROVE  ScriptLaidOut(q, Script(q))
<1>1. CASE q.proto = "openai"
  BY <1>1, ChatLayout DEF Script, ScriptLaidOut
<1>2. CASE q.proto = "zhipu"
  BY <1>2, ChatLayout DEF Script, ZhipuScript, ScriptLaidOut
<1>3. CASE q.proto = "anthropic"
  BY <1>3, AnthropicLayout DEF Script, ScriptLaidOut
<1>4. CASE q.proto = "responses"
  BY <1>4, ResponsesLayout DEF Script, ScriptLaidOut
<1>5. CASE q.proto = "gemini"
  BY <1>5, GeminiLayout DEF Script, ScriptLaidOut
<1> QED BY <1>1, <1>2, <1>3, <1>4, <1>5 DEF Request, Protocols

\* A script has steps.
LEMMA ScriptSequence ==
    ASSUME NEW q \in Request
    PROVE  IsSequence(Script(q)) /\ Script(q) # << >> /\ Len(Script(q)) \in Nat
<1>1. PICK s : s = Script(q)
  OBVIOUS
<1>2. ScriptLaidOut(q, s)
  BY <1>1, ScriptLayout
<1>3. IsSequence(s)
  <2> HIDE DEF IsSequence
  <2>1. CASE q.proto \in {"openai", "zhipu"}
    BY <1>2, <2>1 DEF ScriptLaidOut, ChatLaidOut
  <2>2. CASE q.proto = "anthropic"
    BY <1>2, <2>2 DEF ScriptLaidOut, AnthropicLaidOut
  <2>3. CASE q.proto = "responses"
    BY <1>2, <2>3 DEF ScriptLaidOut, ResponsesLaidOut
  <2>4. CASE q.proto = "gemini"
    BY <1>2, <2>4 DEF ScriptLaidOut, GeminiLaidOut
  <2> QED BY <2>1, <2>2, <2>3, <2>4, ProtocolCases
<1>4. PICK t \in Nat, n \in Nat, x \in Nat : t = Thoughts(q) /\ n = Tokens(q) /\ x = Extra(q)
  BY Numbers
<1>5. Len(s) \in Nat /\ Len(s) # 0
  <2>1. CASE q.proto \in {"openai", "zhipu"}
    <3>1. PICK u \in {0, 1} : u = IF q.usage THEN 1 ELSE 0
      OBVIOUS
    <3>2. Len(s) = 2 + 2 * t + 2 * n + 2 + u
      BY <1>2, <1>4, <2>1, <3>1 DEF ScriptLaidOut, ChatLaidOut, ChatText
    <3> QED BY <3>2
  <2>2. CASE q.proto = "anthropic"
    <3>1. Len(s) = 3 + 2 * t + 3 * x + 2 * n + 3
      BY <1>2, <1>4, <2>2 DEF ScriptLaidOut, AnthropicLaidOut, AnthropicText
    <3> QED BY <3>1
  <2>3. CASE q.proto = "responses"
    <3>1. Len(s) = 5 + 2 * t + 2 * x + 2 * n + 4
      BY <1>2, <1>4, <2>3 DEF ScriptLaidOut, ResponsesLaidOut, ResponsesText
    <3> QED BY <3>1
  <2>4. CASE q.proto = "gemini"
    <3>1. Len(s) = 1 + 2 * n
      BY <1>2, <1>4, <2>4 DEF ScriptLaidOut, GeminiLaidOut
    <3> QED BY <3>1
  <2> QED BY <2>1, <2>2, <2>3, <2>4, ProtocolCases
<1>6. Len(<< >>) = 0
  OBVIOUS
<1> QED BY <1>1, <1>3, <1>5, <1>6

LEMMA ScriptBegins ==
    ASSUME NEW q \in Request
    PROVE  ScriptKnows(q, 0, Nothing)
BY ChatBegins, AnthropicBegins, ResponsesBegins, GeminiBegins DEF ScriptKnows

LEMMA ScriptStep ==
    ASSUME NEW q \in Request, NEW s, ScriptLaidOut(q, s), NEW p \in Nat, p < Len(s),
           NEW m, ScriptKnows(q, p, m), NEW proto, proto = q.proto
    PROVE  \/ s[p + 1] = Wait /\ ScriptKnows(q, p + 1, m)
           \/ \E f : /\ s[p + 1] = Send(f)
                     /\ \A z : (proto = "responses" => z = m.count) =>
                                  ScriptKnows(q, p + 1, Read(proto, m, Numbered(f, z)))
<1>1. CASE q.proto \in {"openai", "zhipu"}
  <2>1. ChatLaidOut(q, s) /\ ChatKnows(q, p, m) /\ proto \in {"openai", "zhipu"}
    BY <1>1 DEF ScriptLaidOut, ScriptKnows
  <2>2. \/ s[p + 1] = Wait /\ ChatKnows(q, p + 1, m)
        \/ \E f : /\ s[p + 1] = Send(f)
                  /\ \A z : ChatKnows(q, p + 1, Read(proto, m, Numbered(f, z)))
    BY <2>1, ChatStep
  <2>3. \A y : ChatKnows(q, p + 1, y) => ScriptKnows(q, p + 1, y)
    BY <1>1 DEF ScriptKnows
  <2> QED BY <2>2, <2>3
<1>2. CASE q.proto = "anthropic"
  <2>1. AnthropicLaidOut(q, s) /\ AnthropicKnows(q, p, m) /\ proto = "anthropic"
    BY <1>2 DEF ScriptLaidOut, ScriptKnows
  <2>2. \/ s[p + 1] = Wait /\ AnthropicKnows(q, p + 1, m)
        \/ \E f : /\ s[p + 1] = Send(f)
                  /\ \A z : AnthropicKnows(q, p + 1, Read(proto, m, Numbered(f, z)))
    BY <2>1, AnthropicStep
  <2>3. \A y : AnthropicKnows(q, p + 1, y) => ScriptKnows(q, p + 1, y)
    BY <1>2 DEF ScriptKnows
  <2> QED BY <2>2, <2>3
<1>3. CASE q.proto = "responses"
  <2>1. ResponsesLaidOut(q, s) /\ ResponsesKnows(q, p, m) /\ proto = "responses"
    BY <1>3 DEF ScriptLaidOut, ScriptKnows
  <2>2. \/ s[p + 1] = Wait /\ ResponsesKnows(q, p + 1, m)
        \/ \E f : /\ s[p + 1] = Send(f)
                  /\ \A z : z = m.count => ResponsesKnows(q, p + 1, Read(proto, m, Numbered(f, z)))
    BY <2>1, ResponsesStep
  <2>3. \A y : ResponsesKnows(q, p + 1, y) => ScriptKnows(q, p + 1, y)
    BY <1>3 DEF ScriptKnows
  <2> QED BY <2>1, <2>2, <2>3
<1>4. CASE q.proto = "gemini"
  <2>1. GeminiLaidOut(q, s) /\ GeminiKnows(q, p, m) /\ proto = "gemini"
    BY <1>4 DEF ScriptLaidOut, ScriptKnows
  <2>2. \/ s[p + 1] = Wait /\ GeminiKnows(q, p + 1, m)
        \/ \E f : /\ s[p + 1] = Send(f)
                  /\ \A z : GeminiKnows(q, p + 1, Read(proto, m, Numbered(f, z)))
    BY <2>1, GeminiStep
  <2>3. \A y : GeminiKnows(q, p + 1, y) => ScriptKnows(q, p + 1, y)
    BY <1>4 DEF ScriptKnows
  <2> QED BY <2>2, <2>3
<1> QED BY <1>1, <1>2, <1>3, <1>4, ProtocolCases

\* What the client knows includes that all was legal.
LEMMA KnowsLegal ==
    ASSUME NEW q \in Request, NEW p, NEW m, ScriptKnows(q, p, m)
    PROVE  m.ok
<1>1. q.proto \in {"openai", "zhipu"} => m.ok
  BY DEF ScriptKnows, ChatKnows, Knows
<1>2. q.proto = "anthropic" => m.ok
  BY DEF ScriptKnows, AnthropicKnows, Knows
<1>3. q.proto = "responses" => m.ok
  BY DEF ScriptKnows, ResponsesKnows, Knows
<1>4. q.proto = "gemini" => m.ok
  BY DEF ScriptKnows, GeminiKnows
<1> QED BY <1>1, <1>2, <1>3, <1>4, ProtocolCases

-----------------------------------------------------------------------------
(* What it knows at the end.                                               *)

LEMMA ThinkingTold ==
    ASSUME NEW q \in Request, NEW t \in Nat, t <= Thoughts(q), Thoughts(q) <= t,
           NEW heard, Told(ReasoningText, t, heard)
    PROVE  heard = IF q.reasoning THEN ReasoningText ELSE << >>
<1>1. t = Thoughts(q)
  BY Numbers
<1>2. CASE q.reasoning
  <2>1. Told(ReasoningText, Words(ReasoningText), heard)
    BY <1>1, <1>2 DEF Thoughts
  <2> QED BY <1>2, <2>1, TextsAreTexts, AllTold
<1>3. CASE ~ q.reasoning
  <2>1. t = 0
    BY <1>1, <1>3 DEF Thoughts
  <2> QED BY <1>3, <2>1 DEF Told
<1> QED BY <1>2, <1>3

\* The streams of the four protocols with an end frame, after their last step.
Over(q, p, fin, use, end) ==
    /\ q.proto # "gemini" /\ p > fin /\ p > end
    /\ p > use <=> (q.proto \in {"openai", "zhipu"} => q.usage)

OutputWhole(q, m) == q.proto = "responses" => m.output = Output(q, "completed")

LEMMA KnowsTells ==
    ASSUME NEW q \in Request, NEW p \in Nat,
           NEW b \in Nat, NEW t \in Nat, NEW c \in Nat, NEW n \in Nat,
           NEW fin \in Nat, NEW use \in Nat, NEW end \in Nat, Laid(b, t, c, n, fin, use, end),
           t <= Thoughts(q), Thoughts(q) <= t, n <= Tokens(q), Tokens(q) <= n,
           NEW m, Knows(q, p, b, t, c, n, fin, use, end, m), Over(q, p, fin, use, end),
           OutputWhole(q, m)
    PROVE  Tells(q, m)
<1>1. p >= b + 2 * t /\ p >= c + 2 * n
  <2>1. b + 2 * t <= c /\ c + 2 * n <= fin /\ p > fin
    BY DEF Laid, Over
  <2> QED BY <2>1
<1>2. Told(ReasoningText, t, m.thinking)
  BY <1>1, ThoughtsTold
<1>3. m.thinking = IF q.reasoning THEN ReasoningText ELSE << >>
  BY <1>2, ThinkingTold
<1>4. /\ Fields(m.text) = Fields(q.reply)
      /\ Spaced(q.reply) => m.text = q.reply
  <2>1. p >= c + 2 * n
    BY <1>1
  <2> QED BY <2>1, WordsTold, Zenon
<1>5. /\ m.finish /\ m.ended /\ ~ m.image
      /\ m.usage = "final" <=> p > use
  BY DEF Knows, Over
<1>6. q.proto # "gemini" /\ (m.usage = "final" <=> (q.proto \in {"openai", "zhipu"} => q.usage))
  BY <1>5, Zenon DEF Over
<1> QED BY <1>3, <1>4, <1>5, <1>6, Zenon DEF Tells, OutputWhole

LEMMA ChatTells ==
    ASSUME NEW q \in Request, q.proto \in {"openai", "zhipu"},
           NEW s, ChatLaidOut(q, s), NEW p \in Nat, p = Len(s), NEW m, ChatKnows(q, p, m)
    PROVE  Tells(q, m)
<1>1. PICK b, t, c, n, fin, use, end \in Nat : ChatShape(q, b, t, c, n, fin, use, end)
  BY ChatLies
<1>2. Laid(b, t, c, n, fin, use, end) /\ Knows(q, p, b, t, c, n, fin, use, end, m)
  BY <1>1 DEF ChatShape, ChatKnows
<1>3. t <= Thoughts(q) /\ Thoughts(q) <= t /\ n <= Tokens(q) /\ Tokens(q) <= n
  <2>1. t = Thoughts(q) /\ n = Tokens(q) /\ Thoughts(q) \in Nat /\ Tokens(q) \in Nat
    BY <1>1, Numbers DEF ChatShape
  <2> QED BY <2>1
<1>4. /\ (q.usage /\ use = fin + 1 /\ end = fin + 2) \/ (~ q.usage /\ use = fin + 2 /\ end = fin + 1)
      /\ q.usage => p = fin + 3
      /\ ~ q.usage => p = fin + 2
  <2>1. fin = ChatText(q) + 2 * Tokens(q)
    BY <1>1 DEF ChatShape, ChatFinish
  <2>2. /\ q.usage => p = fin + 2 + 1
        /\ ~ q.usage => p = fin + 2 + 0
    BY <2>1 DEF ChatLaidOut
  <2>3. (q.usage /\ use = fin + 1 /\ end = fin + 2) \/ (~ q.usage /\ use = fin + 2 /\ end = fin + 1)
    BY <1>1 DEF ChatShape
  <2> QED BY <2>2, <2>3
<1>5. p > fin /\ p > end
  BY <1>4
<1>6. p > use <=> q.usage
  BY <1>4
<1>7. p > use <=> (q.proto \in {"openai", "zhipu"} => q.usage)
  BY <1>6, Zenon
<1>8. Over(q, p, fin, use, end)
  BY <1>5, <1>7 DEF Over
<1>9. OutputWhole(q, m)
  BY DEF OutputWhole
<1> QED BY <1>2, <1>3, <1>8, <1>9, KnowsTells

LEMMA AnthropicTells ==
    ASSUME NEW q \in Request, q.proto = "anthropic",
           NEW s, AnthropicLaidOut(q, s), NEW p \in Nat, p = Len(s), NEW m, AnthropicKnows(q, p, m)
    PROVE  Tells(q, m)
<1>1. PICK x, b, t, c, n, e, fin, use, end \in Nat :
        AnthropicShape(q, x, b, t, c, n, e, fin, use, end)
  BY AnthropicLies
<1>2. Laid(b, t, c, n, fin, use, end) /\ Knows(q, p, b, t, c, n, fin, use, end, m)
  BY <1>1 DEF AnthropicShape, AnthropicKnows
<1>3. t <= Thoughts(q) /\ Thoughts(q) <= t /\ n <= Tokens(q) /\ Tokens(q) <= n
  <2>1. t = Thoughts(q) /\ n = Tokens(q) /\ Thoughts(q) \in Nat /\ Tokens(q) \in Nat
    BY <1>1, Numbers DEF AnthropicShape
  <2> QED BY <2>1
<1>4. p = e + 3 /\ fin = e + 1 /\ use = e + 1 /\ end = e + 2
  <2>1. e = AnthropicText(q) + 2 * Tokens(q)
    BY <1>1 DEF AnthropicShape, AnthropicEnd
  <2>2. p = e + 3
    BY <2>1 DEF AnthropicLaidOut
  <2> QED BY <1>1, <2>2 DEF AnthropicShape
<1>5. p > fin /\ p > use /\ p > end
  BY <1>4
<1>6. q.proto # "gemini" /\ q.proto \notin {"openai", "zhipu"}
  OBVIOUS
<1>7. p > use <=> (q.proto \in {"openai", "zhipu"} => q.usage)
  BY <1>5, <1>6, Zenon
<1>8. Over(q, p, fin, use, end)
  BY <1>5, <1>6, <1>7 DEF Over
<1>9. OutputWhole(q, m)
  BY DEF OutputWhole
<1> QED BY <1>2, <1>3, <1>8, <1>9, KnowsTells

LEMMA ResponsesTells ==
    ASSUME NEW q \in Request, q.proto = "responses",
           NEW s, ResponsesLaidOut(q, s), NEW p \in Nat, p = Len(s), NEW m, ResponsesKnows(q, p, m)
    PROVE  Tells(q, m)
<1>1. PICK x, b, t, c, n, e, fin, use, end \in Nat :
        ResponsesShape(q, x, b, t, c, n, e, fin, use, end)
  BY ResponsesLies
<1>2. Laid(b, t, c, n, fin, use, end) /\ Knows(q, p, b, t, c, n, fin, use, end, m)
  BY <1>1 DEF ResponsesShape, ResponsesKnows
<1>3. t <= Thoughts(q) /\ Thoughts(q) <= t /\ n <= Tokens(q) /\ Tokens(q) <= n
  <2>1. t = Thoughts(q) /\ n = Tokens(q) /\ Thoughts(q) \in Nat /\ Tokens(q) \in Nat
    BY <1>1, Numbers DEF ResponsesShape
  <2> QED BY <2>1
<1>4. p = e + 4 /\ fin = e + 3 /\ use = 1 /\ end = e + 3
  <2>1. e = ResponsesText(q) + 2 * Tokens(q)
    BY <1>1 DEF ResponsesShape, ResponsesEnd
  <2>2. p = e + 4
    BY <2>1 DEF ResponsesLaidOut
  <2> QED BY <1>1, <2>2 DEF ResponsesShape
<1>5. p > fin /\ p > use /\ p > end
  BY <1>4
<1>6. q.proto # "gemini" /\ q.proto \notin {"openai", "zhipu"}
  OBVIOUS
<1>7. p > use <=> (q.proto \in {"openai", "zhipu"} => q.usage)
  BY <1>5, <1>6, Zenon
<1>8. Over(q, p, fin, use, end)
  BY <1>5, <1>6, <1>7 DEF Over
<1>9. OutputWhole(q, m)
  <2>1. p > ResponsesEnd(q) + 3 /\ Listed(q, p, ResponsesEnd(q) + 3, m.output)
    BY <1>1, <1>5 DEF ResponsesShape, ResponsesKnows
  <2>2. e = ResponsesEnd(q) /\ p > e + 3
    BY <1>1, <1>4 DEF ResponsesShape
  <2> QED BY <2>1, <2>2 DEF Listed, OutputWhole
<1> QED BY <1>2, <1>3, <1>8, <1>9, KnowsTells

LEMMA GeminiTells ==
    ASSUME NEW q \in Request, q.proto = "gemini",
           NEW s, GeminiLaidOut(q, s), NEW p \in Nat, p = Len(s), NEW m, GeminiKnows(q, p, m)
    PROVE  Tells(q, m)
<1>1. PICK n \in Nat : n = Tokens(q)
  BY Numbers
<1>2. p = 1 + 2 * n
  BY <1>1 DEF GeminiLaidOut
<1>3. PICK j : Along(p, 1, 0, 1, n, 0, j) /\ Told(q.reply, j, m.text)
  BY <1>1 DEF GeminiKnows
<1>4. j = n
  BY <1>2, <1>3 DEF Along
<1>5. Fields(m.text) = Fields(q.reply) /\ (Spaced(q.reply) => m.text = q.reply)
  <2>1. Told(q.reply, Words(q.reply), m.text)
    BY <1>1, <1>3, <1>4 DEF Tokens
  <2> QED BY <2>1, TextsAreTexts, AllTold
<1>6. m.thinking = << >>
  BY DEF GeminiKnows, Told
<1>7. n = 0 => Fields(q.reply) = << >>
  BY <1>1 DEF Fields, Tokens, Words
<1>8. n # 0 => n > 0 /\ p > 2 * n
  BY <1>2
<1>9. n # 0 => /\ m.finish /\ m.usage = "final"
               /\ m.image <=> q.image
  BY <1>1, <1>8 DEF GeminiKnows
<1>10. q.proto = "gemini" /\ q.proto \notin {"openai", "zhipu"}
  OBVIOUS
<1> QED BY <1>5, <1>6, <1>7, <1>9, <1>10, Zenon DEF Tells

LEMMA ScriptTells ==
    ASSUME NEW q \in Request, NEW s, ScriptLaidOut(q, s), NEW p \in Nat, p = Len(s),
           NEW m, ScriptKnows(q, p, m)
    PROVE  Tells(q, m)
<1>1. CASE q.proto \in {"openai", "zhipu"}
  BY <1>1, ChatTells DEF ScriptLaidOut, ScriptKnows
<1>2. CASE q.proto = "anthropic"
  BY <1>2, AnthropicTells DEF ScriptLaidOut, ScriptKnows
<1>3. CASE q.proto = "responses"
  BY <1>3, ResponsesTells DEF ScriptLaidOut, ScriptKnows
<1>4. CASE q.proto = "gemini"
  BY <1>4, GeminiTells DEF ScriptLaidOut, ScriptKnows
<1> QED BY <1>1, <1>2, <1>3, <1>4, ProtocolCases

-----------------------------------------------------------------------------
(* The inductive invariant.  TypeOK, UniqueIds, LegalSoFar and              *)
(* StreamTellsAll are not inductive: what a client has put together depends *)
(* on how far its handler is in its script, and on whether the client has   *)
(* stayed.                                                                 *)

\* left is what there is of the script of q after p steps.
At(q, p, left) ==
    /\ p \in Nat /\ p < Len(Script(q))
    /\ left = SubSeq(Script(q), p + 1, Len(Script(q)))

\* A running handler is somewhere in its script, and a client that has stayed
\* knows what there is to know there.
Follows(r) ==
    \E p : /\ At(req[r], p, todo[r])
           /\ alive[r] => ScriptKnows(req[r], p, seen[r]) /\ seen[r].count = emitted[r]

HandlerOK(r) ==
    /\ seen[r].ok
    /\ seen[r].count \in Nat /\ emitted[r] \in Nat /\ seen[r].count <= emitted[r]
    /\ pc[r] \in {"idle", "open", "sleep"} => seen[r] = Nothing /\ emitted[r] = 0
    /\ pc[r] = "sleep" => ~ req[r].stream
    /\ pc[r] = "run" => Follows(r)
    /\ Streamed(r) => Tells(req[r], seen[r])
    /\ outcome[r] # "none" \/ failed[r] => pc[r] = "done"

\* The number of an id was taken once, whatever the protocols of the two.
NumbersTakenOnce == \A r, s \in Requests : r # s /\ id[r] # 0 => id[r] # id[s]

SInv ==
    /\ req \in Traffic
    /\ pc \in [Requests -> {"idle", "open", "sleep", "run", "done"}]
    /\ alive \in [Requests -> BOOLEAN] /\ failed \in [Requests -> BOOLEAN]
    /\ globalSeq \in Nat
    /\ id \in [Requests -> 0 .. globalSeq]
    /\ outcome \in [Requests -> Outcomes]
    /\ DOMAIN todo = Requests /\ DOMAIN seen = Requests /\ DOMAIN emitted = Requests
    /\ \A r \in Requests : HandlerOK(r)
    /\ NumbersTakenOnce

LEMMA AtStart ==
    ASSUME NEW q \in Request
    PROVE  At(q, 0, Script(q))
<1>1. PICK s : s = Script(q)
  OBVIOUS
<1>2. PICK S : s \in Seq(S)
  BY <1>1, ScriptSequence DEF IsSequence
<1>3. Len(s) \in Nat /\ 0 < Len(s)
  <2>1. s # << >>
    BY <1>1, ScriptSequence
  <2> QED BY <1>2, <2>1
<1>4. s = SubSeq(s, 1, Len(s))
  BY <1>2, <1>3
<1>5. 0 \in Nat /\ 0 + 1 = 1
  OBVIOUS
<1> QED BY <1>1, <1>3, <1>4, <1>5 DEF At

LEMMA AtNext ==
    ASSUME NEW q \in Request, NEW p \in Nat, NEW left, At(q, p, left)
    PROVE  /\ left # << >> /\ Head(left) = Script(q)[p + 1]
           /\ Len(left) > 1 => At(q, p + 1, Tail(left))
           /\ ~ (Len(left) > 1) => p + 1 = Len(Script(q))
<1>1. PICK s : s = Script(q)
  OBVIOUS
<1>2. PICK S : s \in Seq(S)
  BY <1>1, ScriptSequence DEF IsSequence
<1>3. PICK k \in Nat : k = Len(s)
  BY <1>2
<1>4. p < k /\ left = SubSeq(s, p + 1, k)
  BY <1>1, <1>3 DEF At
<1>5. left \in Seq(S) /\ Len(left) = k - p /\ left # << >> /\ Head(left) = s[p + 1]
  <2>1. p + 1 \in 1 .. Len(s) /\ k \in p + 1 .. Len(s)
    BY <1>3, <1>4
  <2>2. Head(left) = s[p + 1]
    BY <1>2, <1>4, <2>1, HeadTailOfSubSeq
  <2>3. p + 1 \in Int /\ k \in Int /\ \A i \in p + 1 .. k : s[i] \in S
    BY <1>2, <1>3
  <2>4. left \in Seq(S) /\ Len(left) = IF p + 1 <= k THEN k - (p + 1) + 1 ELSE 0
    BY <1>4, <2>3, SubSeqProperties
  <2>5. Len(left) = k - p /\ Len(left) # 0
    BY <1>3, <1>4, <2>4
  <2> QED BY <2>2, <2>4, <2>5
<1>6. Tail(left) = SubSeq(s, p + 2, k)
  BY <1>2, <1>3, <1>4
<1>7. p + 1 \in Nat /\ (p + 1) + 1 = p + 2
  OBVIOUS
<1>8. Len(left) > 1 => p + 1 < k
  BY <1>3, <1>5
<1>9. ~ (Len(left) > 1) => p + 1 = k
  BY <1>3, <1>4, <1>5
<1>10. Len(left) > 1 => At(q, p + 1, Tail(left))
  BY <1>1, <1>3, <1>6, <1>7, <1>8 DEF At
<1> QED BY <1>1, <1>3, <1>5, <1>9, <1>10

\* A step of the script that the handler has at hand: its client knows what
\* there is to know after it.
LEMMA WaitFollows ==
    ASSUME NEW q \in Request, NEW p \in Nat, NEW left, At(q, p, left), Head(left).op = "wait",
           NEW m, ScriptKnows(q, p, m)
    PROVE  ScriptKnows(q, p + 1, m)
<1>1. PICK s, proto : s = Script(q) /\ proto = q.proto
  OBVIOUS
<1>2. Head(left) = s[p + 1] /\ p < Len(s) /\ ScriptLaidOut(q, s)
  BY <1>1, AtNext, ScriptLayout DEF At
<1>3. \A f : s[p + 1] # Send(f)
  BY <1>2 DEF Send
<1> QED BY <1>1, <1>2, <1>3, ScriptStep

LEMMA FrameFollows ==
    ASSUME NEW q \in Request, NEW p \in Nat, NEW left, At(q, p, left), Head(left).op = "send",
           NEW m, ScriptKnows(q, p, m), NEW z, q.proto = "responses" => z = m.count
    PROVE  ScriptKnows(q, p + 1, Read(q.proto, m, [Head(left).frame EXCEPT !.no = z]))
<1>1. PICK s, proto : s = Script(q) /\ proto = q.proto
  OBVIOUS
<1>2. Head(left) = s[p + 1] /\ p < Len(s) /\ ScriptLaidOut(q, s)
  BY <1>1, AtNext, ScriptLayout DEF At
<1>3. s[p + 1] # Wait
  BY <1>2 DEF Wait
<1>4. PICK f : /\ s[p + 1] = Send(f)
               /\ \A y : (proto = "responses" => y = m.count) =>
                            ScriptKnows(q, p + 1, Read(proto, m, Numbered(f, y)))
  BY <1>1, <1>2, <1>3, ScriptStep
<1>5. Head(left).frame = f
  BY <1>2, <1>4 DEF Send
<1>6. ScriptKnows(q, p + 1, Read(proto, m, Numbered(f, z)))
  BY <1>1, <1>4
<1> QED BY <1>1, <1>5, <1>6 DEF Numbered

LEMMA InitSInv == Init => SInv
<1> SUFFICES ASSUME Init PROVE SInv
  OBVIOUS
<1>1. Nothing.ok /\ Nothing.count = 0
  BY DEF Nothing
<1>2. \A r \in Requests : HandlerOK(r)
  BY <1>1 DEF Init, HandlerOK, Streamed
<1>3. NumbersTakenOnce
  BY DEF Init, NumbersTakenOnce
<1> QED BY <1>2, <1>3 DEF Init, SInv, Outcomes

\* What was asked does not change.
LEMMA Asked ==
    ASSUME SInv, NEW r \in Requests
    PROVE  req[r] \in Request
BY TrafficAssumption DEF SInv

\* A handler that a step leaves alone stays as it is.
LEMMA OthersKept ==
    ASSUME NEW r \in Requests, HandlerOK(r),
           req'[r] = req[r], todo'[r] = todo[r], seen'[r] = seen[r], emitted'[r] = emitted[r],
           pc'[r] = pc[r], failed'[r] = failed[r], outcome'[r] = outcome[r],
           alive'[r] = alive[r] \/ alive'[r] = FALSE
    PROVE  HandlerOK(r)'
<1>1. Follows(r) => Follows(r)'
  BY DEF Follows
<1>2. Streamed(r)' => Streamed(r)
  BY DEF Streamed
<1> QED BY <1>1, <1>2 DEF HandlerOK

\* A number just drawn is another than all before.
LEMMA FreshNumber ==
    ASSUME SInv, NEW r \in Requests, globalSeq' = globalSeq + 1,
           id' = [id EXCEPT ![r] = globalSeq + 1]
    PROVE  /\ globalSeq' \in Nat
           /\ id' \in [Requests -> 0 .. globalSeq']
           /\ NumbersTakenOnce'
<1>1. \A s \in Requests : id[s] \in 0 .. globalSeq /\ globalSeq \in Nat
  BY DEF SInv
<1>2. \A s \in Requests : id'[s] = IF s = r THEN globalSeq + 1 ELSE id[s]
  BY DEF SInv
<1>3. NumbersTakenOnce'
  BY <1>1, <1>2 DEF NumbersTakenOnce, SInv
<1> QED BY <1>1, <1>2, <1>3 DEF SInv

LEMMA BeginSInv ==
    ASSUME SInv, NEW r \in Requests, Begin(r)
    PROVE  SInv'
<1>1. UNCHANGED <<req, todo, emitted, seen, alive, failed>> /\ pc[r] = "idle"
  BY DEF Begin
<1>2. \/ pc' = [pc EXCEPT ![r] = "open"] /\ outcome' = outcome
      \/ pc' = [pc EXCEPT ![r] = "sleep"] /\ outcome' = outcome /\ ~ req[r].stream
      \/ pc' = [pc EXCEPT ![r] = "done"] /\ outcome' = [outcome EXCEPT ![r] = "injected"]
  <2>1. CASE req[r].proto = "gemini" /\ req[r].stream
    BY <2>1 DEF Begin, Goto
  <2>2. CASE ~ (req[r].proto = "gemini" /\ req[r].stream)
    BY <2>2 DEF Begin, Goto, Return
  <2> QED BY <2>1, <2>2
<1>3. \/ UNCHANGED <<globalSeq, id>>
      \/ globalSeq' = globalSeq + 1 /\ UNCHANGED id
      \/ globalSeq' = globalSeq + 1 /\ id' = [id EXCEPT ![r] = 0]
      \/ globalSeq' = globalSeq + 1 /\ id' = [id EXCEPT ![r] = globalSeq + 1]
  BY DEF Begin, Goto, Return
<1>4. /\ pc' \in [Requests -> {"idle", "open", "sleep", "run", "done"}]
      /\ outcome' \in [Requests -> Outcomes]
      /\ \A s \in Requests \ {r} : pc'[s] = pc[s] /\ outcome'[s] = outcome[s]
      /\ \/ pc'[r] = "open" /\ outcome'[r] = outcome[r]
         \/ pc'[r] = "sleep" /\ outcome'[r] = outcome[r] /\ ~ req[r].stream
         \/ pc'[r] = "done" /\ outcome'[r] = "injected"
  BY <1>2 DEF SInv, Outcomes
<1>5. HandlerOK(r)'
  <2>1. HandlerOK(r) /\ outcome[r] \in Outcomes
    BY DEF SInv
  <2>2. ~ Streamed(r)' /\ (pc'[r] # "done" => outcome'[r] = "none" /\ ~ failed'[r])
    BY <1>1, <1>4, <2>1 DEF HandlerOK, Streamed
  <2> HIDE DEF Nothing
  <2> QED BY <1>1, <1>4, <2>1, <2>2 DEF HandlerOK
<1>6. \A s \in Requests : HandlerOK(s)'
  <2> SUFFICES ASSUME NEW s \in Requests, s # r PROVE HandlerOK(s)'
    BY <1>5
  <2> QED BY <1>1, <1>4, OthersKept DEF SInv
<1>7. globalSeq' \in Nat /\ id' \in [Requests -> 0 .. globalSeq'] /\ NumbersTakenOnce'
  <2>1. globalSeq \in Nat /\ id \in [Requests -> 0 .. globalSeq] /\ NumbersTakenOnce
    BY DEF SInv
  <2>2. CASE UNCHANGED <<globalSeq, id>>
    BY <2>1, <2>2 DEF NumbersTakenOnce
  <2>3. CASE globalSeq' = globalSeq + 1 /\ UNCHANGED id
    BY <2>1, <2>3 DEF NumbersTakenOnce
  <2>4. CASE globalSeq' = globalSeq + 1 /\ id' = [id EXCEPT ![r] = 0]
    BY <2>1, <2>4 DEF NumbersTakenOnce
  <2>5. CASE globalSeq' = globalSeq + 1 /\ id' = [id EXCEPT ![r] = globalSeq + 1]
    BY <2>5, FreshNumber
  <2> QED BY <1>3, <2>2, <2>3, <2>4, <2>5
<1> QED BY <1>1, <1>4, <1>6, <1>7 DEF SInv

LEMMA OpenSInv ==
    ASSUME SInv, NEW r \in Requests, Open(r)
    PROVE  SInv'
<1>1. /\ UNCHANGED <<req, emitted, seen, alive, failed, outcome>> /\ pc[r] = "open"
      /\ pc' = [pc EXCEPT ![r] = "run"] /\ todo' = [todo EXCEPT ![r] = Script(req[r])]
  BY DEF Open, Goto
<1>2. \/ UNCHANGED <<globalSeq, id>>
      \/ globalSeq' = globalSeq + 1 /\ id' = [id EXCEPT ![r] = globalSeq + 1]
  BY DEF Open
<1>3. /\ pc' \in [Requests -> {"idle", "open", "sleep", "run", "done"}] /\ pc'[r] = "run"
      /\ \A s \in Requests \ {r} : pc'[s] = pc[s] /\ todo'[s] = todo[s]
      /\ todo'[r] = Script(req[r]) /\ DOMAIN todo' = Requests
  BY <1>1 DEF SInv
<1>4. HandlerOK(r)'
  <2>1. HandlerOK(r) /\ outcome[r] \in Outcomes
    BY DEF SInv
  <2>2. At(req[r], 0, Script(req[r])) /\ ScriptKnows(req[r], 0, Nothing)
    BY Asked, AtStart, ScriptBegins
  <2>3. seen[r] = Nothing /\ emitted[r] = 0 /\ seen[r].count = emitted[r]
    BY <1>1, <2>1 DEF HandlerOK, Nothing
  <2>4. Follows(r)'
    BY <1>1, <1>3, <2>2, <2>3 DEF Follows
  <2>5. outcome[r] = "none" /\ ~ failed[r]
    BY <1>1, <2>1 DEF HandlerOK
  <2>6. ~ Streamed(r)'
    BY <1>1, <2>5 DEF Streamed
  <2> QED BY <1>1, <1>3, <2>1, <2>4, <2>5, <2>6 DEF HandlerOK
<1>5. \A s \in Requests : HandlerOK(s)'
  <2> SUFFICES ASSUME NEW s \in Requests, s # r PROVE HandlerOK(s)'
    BY <1>4
  <2> QED BY <1>1, <1>3, OthersKept DEF SInv
<1>6. globalSeq' \in Nat /\ id' \in [Requests -> 0 .. globalSeq'] /\ NumbersTakenOnce'
  <2>1. CASE UNCHANGED <<globalSeq, id>>
    BY <2>1 DEF SInv, NumbersTakenOnce
  <2>2. CASE globalSeq' = globalSeq + 1 /\ id' = [id EXCEPT ![r] = globalSeq + 1]
    BY <2>2, FreshNumber
  <2> QED BY <1>2, <2>1, <2>2
<1> QED BY <1>1, <1>3, <1>5, <1>6 DEF SInv

\* The end of a step: the script goes on, or the handler returns and a client
\* that has stayed has been told everything.
LEMMA AdvanceSteps ==
    ASSUME SInv, NEW r \in Requests, pc[r] = "run", Advance(r), UNCHANGED <<req, alive>>,
           NEW p \in Nat, At(req[r], p, todo[r]),
           alive[r] => /\ ScriptKnows(req[r], p + 1, seen'[r])
                       /\ seen'[r].count = emitted'[r]
    PROVE  /\ DOMAIN todo' = Requests
           /\ pc' \in [Requests -> {"idle", "open", "sleep", "run", "done"}]
           /\ outcome' \in [Requests -> Outcomes]
           /\ \A s \in Requests \ {r} :
                pc'[s] = pc[s] /\ todo'[s] = todo[s] /\ outcome'[s] = outcome[s]
           /\ pc'[r] \in {"run", "done"} /\ (pc'[r] = "run" => outcome'[r] = outcome[r])
           /\ (pc'[r] = "run" => Follows(r)')
           /\ (Streamed(r)' => Tells(req[r], seen'[r]))
<1>1. todo' = [todo EXCEPT ![r] = Tail(todo[r])]
  BY DEF Advance
<1>2. /\ todo'[r] = Tail(todo[r]) /\ DOMAIN todo' = Requests
      /\ \A s \in Requests \ {r} : todo'[s] = todo[s]
  BY <1>1 DEF SInv
<1>3. /\ Len(todo[r]) > 1 => At(req[r], p + 1, Tail(todo[r]))
      /\ ~ (Len(todo[r]) > 1) => p + 1 = Len(Script(req[r]))
  BY Asked, AtNext
<1>4. pc[r] = "run" /\ HandlerOK(r) /\ outcome[r] = "none"
  BY DEF SInv, HandlerOK
<1>5. CASE Len(todo[r]) > 1
  <2>1. UNCHANGED <<pc, outcome>>
    BY <1>5 DEF Advance
  <2>2. Follows(r)'
    BY <1>2, <1>3, <1>5 DEF Follows
  <2>3. ~ Streamed(r)'
    BY <1>4, <2>1 DEF Streamed
  <2> QED BY <1>2, <1>4, <2>1, <2>2, <2>3 DEF SInv
<1>6. CASE ~ (Len(todo[r]) > 1)
  <2>1. pc' = [pc EXCEPT ![r] = "done"] /\ outcome' = [outcome EXCEPT ![r] = "complete"]
    BY <1>6 DEF Advance, Return, Goto
  <2>2. /\ pc' \in [Requests -> {"idle", "open", "sleep", "run", "done"}]
        /\ outcome' \in [Requests -> Outcomes] /\ pc'[r] = "done"
        /\ \A s \in Requests \ {r} : pc'[s] = pc[s] /\ outcome'[s] = outcome[s]
    BY <2>1 DEF SInv, Outcomes
  <2>3. Streamed(r)' => Tells(req[r], seen'[r])
    <3> SUFFICES ASSUME alive[r] PROVE Tells(req[r], seen'[r])
      BY DEF Streamed
    <3>1. PICK q \in Request : q = req[r]
      BY Asked
    <3>2. PICK k \in Nat : k = p + 1
      OBVIOUS
    <3>3. PICK s, m : s = Script(q) /\ m = seen'[r]
      OBVIOUS
    <3>4. ScriptLaidOut(q, s) /\ k = Len(s) /\ ScriptKnows(q, k, m)
      BY <1>3, <1>6, <3>1, <3>2, <3>3, ScriptLayout
    <3> QED BY <3>1, <3>3, <3>4, ScriptTells
  <2> QED BY <1>2, <2>2, <2>3
<1> QED BY <1>5, <1>6

\* A handler returns in any way but by completing its script.
LEMMA ReturnSteps ==
    ASSUME SInv, NEW r \in Requests, NEW how \in Outcomes, Return(r, how)
    PROVE  /\ pc'[r] = "done" /\ outcome'[r] = how
           /\ pc' \in [Requests -> {"idle", "open", "sleep", "run", "done"}]
           /\ outcome' \in [Requests -> Outcomes]
           /\ \A s \in Requests \ {r} : pc'[s] = pc[s] /\ outcome'[s] = outcome[s]
BY DEF SInv, Return, Goto

LEMMA FireSInv ==
    ASSUME SInv, NEW r \in Requests, Fire(r)
    PROVE  SInv'
<1>1. /\ UNCHANGED <<req, emitted, seen, alive, failed, id, globalSeq>>
      /\ pc[r] = "run" /\ Head(todo[r]).op = "wait"
  BY DEF Fire, Doing
<1>2. HandlerOK(r) /\ Follows(r) /\ ~ failed[r]
  BY <1>1 DEF SInv, HandlerOK
<1>3. /\ DOMAIN todo' = Requests
      /\ pc' \in [Requests -> {"idle", "open", "sleep", "run", "done"}]
      /\ outcome' \in [Requests -> Outcomes]
      /\ \A s \in Requests \ {r} :
           pc'[s] = pc[s] /\ todo'[s] = todo[s] /\ outcome'[s] = outcome[s]
      /\ pc'[r] \in {"run", "done"} /\ (pc'[r] = "run" => outcome'[r] = outcome[r])
      /\ (pc'[r] = "run" => Follows(r)')
      /\ (Streamed(r)' => Tells(req[r], seen'[r]))
  <2>1. Advance(r)
    BY DEF Fire
  <2>2. PICK p \in Nat : /\ At(req[r], p, todo[r])
                         /\ alive[r] => /\ ScriptKnows(req[r], p, seen[r])
                                        /\ seen[r].count = emitted[r]
    BY <1>2 DEF Follows, At
  <2>3. alive[r] => ScriptKnows(req[r], p + 1, seen'[r]) /\ seen'[r].count = emitted'[r]
    BY <1>1, <2>2, Asked, WaitFollows
  <2> QED BY <1>1, <2>1, <2>2, <2>3, AdvanceSteps
<1>4. HandlerOK(r)'
  BY <1>1, <1>2, <1>3 DEF HandlerOK
<1>5. \A s \in Requests : HandlerOK(s)'
  <2> SUFFICES ASSUME NEW s \in Requests, s # r PROVE HandlerOK(s)'
    BY <1>4
  <2> QED BY <1>1, <1>3, OthersKept DEF SInv
<1>6. NumbersTakenOnce'
  BY <1>1 DEF SInv, NumbersTakenOnce
<1> QED BY <1>1, <1>3, <1>5, <1>6 DEF SInv

LEMMA NoticeSInv ==
    ASSUME SInv, NEW r \in Requests, Notice(r)
    PROVE  SInv'
<1>1. /\ UNCHANGED <<req, todo, emitted, seen, alive, failed, id, globalSeq>>
      /\ pc[r] = "run" \/ pc[r] = "sleep"
      /\ ~ alive[r]
  BY DEF Notice, Doing
<1>2. Return(r, "gone") /\ "gone" \in Outcomes
  BY DEF Notice, Outcomes
<1>3. /\ pc'[r] = "done"
      /\ pc' \in [Requests -> {"idle", "open", "sleep", "run", "done"}]
      /\ outcome' \in [Requests -> Outcomes]
      /\ \A s \in Requests \ {r} : pc'[s] = pc[s] /\ outcome'[s] = outcome[s]
  BY <1>2, ReturnSteps
<1>4. HandlerOK(r)'
  <2>1. HandlerOK(r)
    BY DEF SInv
  <2>2. ~ Streamed(r)'
    BY <1>1 DEF Streamed
  <2> QED BY <1>1, <1>3, <2>1, <2>2 DEF HandlerOK
<1>5. \A s \in Requests : HandlerOK(s)'
  <2> SUFFICES ASSUME NEW s \in Requests, s # r PROVE HandlerOK(s)'
    BY <1>4
  <2> QED BY <1>1, <1>3, OthersKept DEF SInv
<1>6. NumbersTakenOnce'
  BY <1>1 DEF SInv, NumbersTakenOnce
<1> QED BY <1>1, <1>3, <1>5, <1>6 DEF SInv

LEMMA WriteSInv ==
    ASSUME SInv, NEW r \in Requests, Write(r)
    PROVE  SInv'
<1>1. /\ UNCHANGED <<req, alive, id, globalSeq>>
      /\ pc[r] = "run" /\ Head(todo[r]).op = "send"
      /\ emitted' = [emitted EXCEPT ![r] = emitted[r] + 1]
  BY DEF Write, Doing
<1>2. /\ DOMAIN emitted' = Requests /\ emitted'[r] = emitted[r] + 1
      /\ \A s \in Requests \ {r} : emitted'[s] = emitted[s]
  BY <1>1 DEF SInv
<1>3. HandlerOK(r) /\ Follows(r) /\ ~ failed[r] /\ outcome[r] = "none"
  BY <1>1 DEF SInv, HandlerOK
<1>4. PICK p \in Nat : /\ At(req[r], p, todo[r])
                       /\ alive[r] => /\ ScriptKnows(req[r], p, seen[r])
                                      /\ seen[r].count = emitted[r]
  BY <1>3 DEF Follows, At
\* What the client makes of the frame, or does not get.
<1>5. /\ DOMAIN seen' = Requests /\ \A s \in Requests \ {r} : seen'[s] = seen[s]
      /\ \/ seen'[r] = seen[r]
         \/ alive[r] /\ seen'[r] = Read(req[r].proto, seen[r], FrameOf(r))
      /\ Advance(r) /\ alive[r] => seen'[r] = Read(req[r].proto, seen[r], FrameOf(r))
  <2>1. CASE UNCHANGED seen /\ ~ alive[r]
    BY <2>1 DEF SInv
  <2>2. CASE alive[r] /\ seen' = [seen EXCEPT ![r] = Read(req[r].proto, seen[r], FrameOf(r))]
    BY <2>2 DEF SInv
  <2> QED BY <2>1, <2>2 DEF Write, Receive
<1>6. alive[r] => /\ ScriptKnows(req[r], p + 1, Read(req[r].proto, seen[r], FrameOf(r)))
                  /\ Read(req[r].proto, seen[r], FrameOf(r)).count = emitted'[r]
  <2> SUFFICES ASSUME alive[r]
               PROVE  /\ ScriptKnows(req[r], p + 1, Read(req[r].proto, seen[r], FrameOf(r)))
                      /\ Read(req[r].proto, seen[r], FrameOf(r)).count = emitted'[r]
    OBVIOUS
  <2>1. PICK q \in Request : q = req[r]
    BY Asked
  <2>2. PICK m, left, z : /\ m = seen[r] /\ left = todo[r]
                          /\ z = IF req[r].proto = "responses" THEN emitted[r] ELSE 0
    OBVIOUS
  <2>3. /\ At(q, p, left) /\ Head(left).op = "send" /\ ScriptKnows(q, p, m)
        /\ q.proto = "responses" => z = m.count
    BY <1>1, <1>4, <2>1, <2>2
  <2>4. ScriptKnows(q, p + 1, Read(q.proto, m, [Head(left).frame EXCEPT !.no = z]))
    BY <2>3, FrameFollows
  <2>5. FrameOf(r) = [Head(left).frame EXCEPT !.no = z]
    BY <2>2 DEF FrameOf
  <2>6. Read(req[r].proto, seen[r], FrameOf(r)).count = seen[r].count + 1
    BY DEF Read
  <2> QED BY <1>2, <1>4, <2>1, <2>2, <2>4, <2>5, <2>6
<1>7. seen'[r].ok /\ seen'[r].count \in Nat /\ emitted'[r] \in Nat /\ seen'[r].count <= emitted'[r]
  <2>1. CASE seen'[r] = seen[r]
    BY <1>2, <1>3, <2>1 DEF HandlerOK
  <2>2. CASE alive[r] /\ seen'[r] = Read(req[r].proto, seen[r], FrameOf(r))
    <3>1. ScriptKnows(req[r], p + 1, seen'[r]) /\ seen'[r].count = emitted'[r]
      BY <1>6, <2>2
    <3>2. seen'[r].ok
      BY <3>1, Asked, KnowsLegal
    <3> QED BY <1>2, <1>3, <3>1, <3>2 DEF HandlerOK
  <2> QED BY <1>5, <2>1, <2>2
<1>8. /\ DOMAIN todo' = Requests
      /\ pc' \in [Requests -> {"idle", "open", "sleep", "run", "done"}]
      /\ outcome' \in [Requests -> Outcomes]
      /\ failed' \in [Requests -> BOOLEAN]
      /\ \A s \in Requests \ {r} : /\ pc'[s] = pc[s] /\ todo'[s] = todo[s]
                                   /\ outcome'[s] = outcome[s] /\ failed'[s] = failed[s]
      /\ pc'[r] \in {"run", "done"}
      /\ (pc'[r] = "run" => outcome'[r] = "none" /\ ~ failed'[r] /\ Follows(r)')
      /\ (Streamed(r)' => Tells(req[r], seen'[r]))
  <2>1. CASE Advance(r) /\ UNCHANGED failed
    <3>1. alive[r] => ScriptKnows(req[r], p + 1, seen'[r]) /\ seen'[r].count = emitted'[r]
      BY <1>5, <1>6, <2>1
    <3>2. failed' \in [Requests -> BOOLEAN] /\ ~failed'[r]
      BY <2>1, <1>3 DEF SInv
    <3>3. /\ DOMAIN todo' = Requests
          /\ pc' \in [Requests -> {"idle", "open", "sleep", "run", "done"}]
          /\ outcome' \in [Requests -> Outcomes]
          /\ \A s \in Requests \ {r} :
               pc'[s] = pc[s] /\ todo'[s] = todo[s] /\ outcome'[s] = outcome[s]
          /\ pc'[r] \in {"run", "done"} /\ (pc'[r] = "run" => outcome'[r] = outcome[r])
          /\ (pc'[r] = "run" => Follows(r)')
          /\ (Streamed(r)' => Tells(req[r], seen'[r]))
      BY <1>1, <1>4, <2>1, <3>1, AdvanceSteps
    <3> QED BY <1>3, <2>1, <3>2, <3>3
  <2>2. CASE /\ ~alive[r] /\ Return(r, "aborted") /\ UNCHANGED todo
             /\ failed' = [failed EXCEPT ![r] = TRUE]
    <3>1. "aborted" \in Outcomes
      BY DEF Outcomes
    <3>2. ~ Streamed(r)'
      BY <1>1, <2>2 DEF Streamed
    <3>3. /\ failed' \in [Requests -> BOOLEAN] /\ DOMAIN todo = Requests
          /\ \A s \in Requests \ {r} : failed'[s] = failed[s]
      BY <2>2 DEF SInv
    <3> QED BY <2>2, <3>1, <3>2, <3>3, ReturnSteps
  <2> QED BY <2>1, <2>2 DEF Write
<1>9. HandlerOK(r)'
  BY <1>1, <1>7, <1>8 DEF HandlerOK
<1>10. \A s \in Requests : HandlerOK(s)'
  <2> SUFFICES ASSUME NEW s \in Requests, s # r PROVE HandlerOK(s)'
    BY <1>9
  <2> QED BY <1>1, <1>2, <1>5, <1>8, OthersKept DEF SInv
<1>11. NumbersTakenOnce'
  BY <1>1 DEF SInv, NumbersTakenOnce
<1> QED BY <1>1, <1>2, <1>5, <1>8, <1>10, <1>11 DEF SInv

LEMMA RespondSInv ==
    ASSUME SInv, NEW r \in Requests, Respond(r)
    PROVE  SInv'
<1>1. UNCHANGED <<req, todo, emitted, seen, alive, failed, id, globalSeq>> /\ pc[r] = "sleep"
  BY DEF Respond
<1>2. Return(r, "complete") /\ "complete" \in Outcomes
  BY DEF Respond, Outcomes
<1>3. /\ pc'[r] = "done"
      /\ pc' \in [Requests -> {"idle", "open", "sleep", "run", "done"}]
      /\ outcome' \in [Requests -> Outcomes]
      /\ \A s \in Requests \ {r} : pc'[s] = pc[s] /\ outcome'[s] = outcome[s]
  BY <1>2, ReturnSteps
<1>4. HandlerOK(r)'
  <2>1. HandlerOK(r)
    BY DEF SInv
  <2>2. ~ Streamed(r)'
    BY <1>1, <2>1 DEF HandlerOK, Streamed
  <2> QED BY <1>1, <1>3, <2>1, <2>2 DEF HandlerOK
<1>5. \A s \in Requests : HandlerOK(s)'
  <2> SUFFICES ASSUME NEW s \in Requests, s # r PROVE HandlerOK(s)'
    BY <1>4
  <2> QED BY <1>1, <1>3, OthersKept DEF SInv
<1>6. NumbersTakenOnce'
  BY <1>1 DEF SInv, NumbersTakenOnce
<1> QED BY <1>1, <1>3, <1>5, <1>6 DEF SInv

LEMMA LeaveSInv ==
    ASSUME SInv, NEW r \in Requests, Leave(r)
    PROVE  SInv'
<1>1. UNCHANGED <<req, pc, todo, emitted, seen, failed, id, outcome, globalSeq>>
      /\ alive' = [alive EXCEPT ![r] = FALSE]
  BY DEF Leave
<1>2. /\ alive' \in [Requests -> BOOLEAN]
      /\ \A s \in Requests : alive'[s] = alive[s] \/ alive'[s] = FALSE
  BY <1>1 DEF SInv
<1>3. \A s \in Requests : HandlerOK(s)'
  BY <1>1, <1>2, OthersKept DEF SInv
<1>4. NumbersTakenOnce'
  BY <1>1 DEF SInv, NumbersTakenOnce
<1> QED BY <1>1, <1>2, <1>3, <1>4 DEF SInv

LEMMA NextSInv == SInv /\ [Next]_vars => SInv'
<1> SUFFICES ASSUME SInv, [Next]_vars PROVE SInv'
  OBVIOUS
<1>1. ASSUME NEW r \in Requests, Begin(r) PROVE SInv'
  BY <1>1, BeginSInv
<1>2. ASSUME NEW r \in Requests, Handle(r) PROVE SInv'
  BY <1>2, OpenSInv, FireSInv, NoticeSInv, WriteSInv, RespondSInv DEF Handle
<1>3. ASSUME NEW r \in Requests, Leave(r) PROVE SInv'
  BY <1>3, LeaveSInv
<1>4. CASE UNCHANGED vars
  <2>1. \A r \in Requests : HandlerOK(r)'
    BY <1>4, OthersKept DEF SInv, vars
  <2> QED BY <1>4, <2>1 DEF SInv, NumbersTakenOnce, vars
<1> QED BY <1>1, <1>2, <1>3, <1>4 DEF Next

-----------------------------------------------------------------------------
\* The invariant holds of every behaviour of the chat endpoints.
THEOREM StreamsInvariance == Spec => []SInv
<1>1. Init => SInv
  BY InitSInv
<1>2. SInv /\ [Next]_vars => SInv'
  BY NextSInv
<1> QED BY <1>1, <1>2, PTL DEF Spec

\* Type correctness of the chat endpoints: a running handler has a step left,
\* and no client has more frames than its handler wrote.
THEOREM StreamsTyped == Spec => []TypeOK
<1>1. SInv => TypeOK
  <2> SUFFICES ASSUME SInv PROVE TypeOK
    OBVIOUS
  <2>1. ASSUME NEW r \in Requests, pc[r] = "run" PROVE todo[r] # << >>
    <3>1. PICK p \in Nat : At(req[r], p, todo[r])
      BY <2>1 DEF SInv, HandlerOK, Follows, At
    <3> QED BY <3>1, Asked, AtNext
  <2>2. \A r \in Requests : seen[r].count <= emitted[r]
    BY DEF SInv, HandlerOK
  <2> QED BY <2>1, <2>2 DEF SInv, TypeOK
<1> QED BY <1>1, StreamsInvariance, PTL

\* No two ids have a number in common (nextSeq, payload.go): in
\* fact no two ids at all, of one protocol or two, opened or not.
THEOREM StreamsUniqueIds == Spec => []UniqueIds
<1>1. SInv => UniqueIds
  BY DEF SInv, UniqueIds, NumbersTakenOnce
<1> QED BY <1>1, StreamsInvariance, PTL

\* Whatever is asked, however long the texts, and wherever the stream breaks
\* off, what the client has got is a legal beginning of its protocol (streamChat,
\* streamZhipuChat, streamAnthropic, streamResponses, streamGemini).
THEOREM StreamsLegalSoFar == Spec => []LegalSoFar
<1>1. SInv => LegalSoFar
  BY DEF SInv, HandlerOK, LegalSoFar
<1> QED BY <1>1, StreamsInvariance, PTL

\* A stream that ran to its end has told its client all it was asked for, for
\* every reply and reasoning text: splitTokens loses no word and changes no text
\* whose words stand one blank apart.
THEOREM StreamsTellAll == Spec => []StreamTellsAll
<1>1. SInv => StreamTellsAll
  BY DEF SInv, HandlerOK, StreamTellsAll
<1> QED BY <1>1, StreamsInvariance, PTL

\* Once a write has failed nothing more is written (sse.data, sse.event).
THEOREM StreamsStopAtFirstError == Spec => StopsAtFirstError
<1>1. SInv /\ [Next]_vars => [\A r \in Requests : failed[r] => emitted'[r] = emitted[r]]_vars
  <2> SUFFICES ASSUME SInv, Next, NEW r \in Requests, failed[r] PROVE emitted'[r] = emitted[r]
    BY DEF vars
  <2>1. pc[r] = "done"
    BY DEF SInv, HandlerOK
  <2>2. PICK s \in Requests : Begin(s) \/ Handle(s) \/ Leave(s)
    BY DEF Next
  <2>3. CASE Write(s)
    <3>1. s # r /\ emitted' = [emitted EXCEPT ![s] = emitted[s] + 1]
      BY <2>1, <2>3 DEF Write, Doing
    <3> QED BY <3>1 DEF SInv
  <2>4. CASE UNCHANGED emitted
    BY <2>4
  <2> QED BY <2>2, <2>3, <2>4 DEF Begin, Handle, Open, Fire, Notice, Respond, Leave
<1> QED BY <1>1, StreamsInvariance, PTL DEF Spec, StopsAtFirstError

=============================================================================
