------------------------ MODULE MCAggregationWindow ------------------------
(* AggregationWindow on a small instance: a window of some sleeps, the last *)
(* of which is shorter than the others.                                     *)
EXTENDS AggregationWindow
=============================================================================
