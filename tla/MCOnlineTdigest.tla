-------------------------- MODULE MCOnlineTdigest --------------------------
(* OnlineTdigest with a buffer of three, a digest of four centroids, and values that *)
(* are uneven, so that means lie between them.                                       *)
EXTENDS OnlineTdigest

SomeQuantiles ==
  {Ratio(0, 1), Ratio(1, 10), Ratio(1, 4), Ratio(1, 2), Ratio(3, 4), Ratio(9, 10), Ratio(1, 1)}
=============================================================================
