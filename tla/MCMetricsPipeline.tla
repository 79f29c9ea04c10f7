------------------------- MODULE MCMetricsPipeline -------------------------
(* MetricsPipeline on a small instance: two threads, queues of one or two. *)
EXTENDS MetricsPipeline

CONSTANTS t1, t2

AnyTask == {"aggregator", "downstream"}
=============================================================================
