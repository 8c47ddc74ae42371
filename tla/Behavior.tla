------------------------------ MODULE Behavior ------------------------------
(***************************************************************************)
(* The deterministic "realism" decisions of behavior.go.  Every decision   *)
(* of the program is taken from the 64-bit FNV-1a hash of a key; here the  *)
(* hash is the argument h, a natural number, and the two operators say     *)
(* what the code computes from it.  The callers draw h from a small set.   *)
(***************************************************************************)
EXTENDS Integers

\* A rate of [0, 1] is carried in ten-thousandths, fine enough to express the
\* rates below one per mille that the code's bucketing rounds down to zero.
RateScale == 10000

\* The bucket test of shouldInject: 1000 buckets, compared with rate * 1000
\* truncated to an integer.
ShouldInject(h, rate) ==
    \/ rate >= RateScale
    \/ rate > 0 /\ h % 1000 < (rate * 1000) \div RateScale

\* randomDelay: min when the range is empty or inverted (the configuration is
\* not validated), else a point of the half-open range [min, max).
RandomDelay(h, min, max) ==
    IF min >= max THEN min ELSE min + (h % (max - min))
=============================================================================
