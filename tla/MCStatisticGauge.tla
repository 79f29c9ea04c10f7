-------------------------- MODULE MCStatisticGauge --------------------------
(* StatisticGauge on a small instance: two overlapping calls and reporters. *)
EXTENDS StatisticGauge

CONSTANTS o1, o2, r1, r2

OneValue == {2}
TwoValues == {-1, 2}
MCI64Min == -3
MCI64Max == 3
=============================================================================
