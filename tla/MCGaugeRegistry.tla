--------------------------- MODULE MCGaugeRegistry ---------------------------
(* GaugeRegistry on a small instance. *)
EXTENDS GaugeRegistry

CONSTANTS gr1, gr2, p1, sum, histogram, h1, h2, g1, g2

=============================================================================
