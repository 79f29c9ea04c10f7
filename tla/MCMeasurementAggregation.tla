---------------------- MODULE MCMeasurementAggregation ----------------------
(* MeasurementAggregation with a word of 12 bits, around the places where the       *)
(* magnitude changes.  The numbers that are observed and added up are multiples of   *)
(* an eighth of the word, so that their sums roll over and are few; 3072, which is    *)
(* only observed, and 3000 are beyond the word.                                       *)
EXTENDS MeasurementAggregation

MinWord12 == -2048
MaxWord12 == 2047

Eighths == {-1024, 512, 1536, 3072}
Positives == {0, 1, 9, 10, 11, 99, 100, 101, 109, 110, 111, 990, 991, 1000, 1001, 1101}
Negatives == {-v : v \in {1, 101}}
Collections == {<<v>> : v \in Positives \cup Negatives \cup {3000}}
                 \cup {<<>>, <<100, 101>>}
=============================================================================
