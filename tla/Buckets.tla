------------------------------- MODULE Buckets -------------------------------
(***************************************************************************)
(* Significant-figure bucketing and 64-bit integers                        *)
(* (goodmetrics/src/aggregation/bucket.rs), with words of any width.        *)
(*                                                                         *)
(* The code computes buckets in f64; the numbers here are small enough     *)
(* that its arithmetic on them is exact, and their buckets fit in a word.  *)
(***************************************************************************)
EXTENDS Integers, FiniteSetsExt

CONSTANTS Figures,   \* significant figures, 2 in the code
          MaxPower,  \* no number is beyond 10^MaxPower
          MinWord,   \* i64::MIN
          MaxWord    \* i64::MAX

ASSUME BucketsAssumption == /\ Figures \in Nat \ {0}
                            /\ MaxPower \in Nat
                            /\ MinWord \in Int /\ MaxWord \in Int
                            /\ MinWord <= 0 /\ 0 <= MaxWord

Word == MinWord..MaxWord
Modulus == MaxWord - MinWord + 1

(* "as i64" of an unsigned number, and what a sum rolls over to. *)
Wrap(n) == ((n - MinWord) % Modulus) + MinWord

Absolute(v) == IF v < 0 THEN -v ELSE v
Sign(v) == IF v < 0 THEN -1 ELSE 1
DivideUp(n, d) == (n + d - 1) \div d

(* 10^p at p *)
PowersOfTen ==
  LET power[p \in 0..MaxPower] == IF p = 0 THEN 1 ELSE 10 * power[p - 1]
  IN power

(* log10(n).ceil() *)
Digits(n) == Min({p \in 0..MaxPower : n <= PowersOfTen[p]})

(* What a unit of the last significant figure is worth. *)
Magnitude(v) == PowersOfTen[Max({0, Digits(Absolute(v)) - Figures})]

(* The significant figures of v, rounded away from 0. *)
Rounded(v) == Sign(v) * DivideUp(Absolute(v), Magnitude(v))

(* Faulty variant: the quotient is truncated. *)
bucket_10_truncating(v) ==
  IF v = 0 THEN 0 ELSE Sign(v) * (Absolute(v) \div Magnitude(v)) * Magnitude(v)

bucket_10(v) == IF v = 0 THEN 0 ELSE Rounded(v) * Magnitude(v)

bucket_10_below(v) == IF v = 0 THEN -1 ELSE (Rounded(v) - 1) * Magnitude(v)
=============================================================================
