-------------------------- MODULE MCIntrospection --------------------------
(* Introspection with two allocating threads and one registration. *)
EXTENDS Introspection

CONSTANTS t1, t2, f1
=============================================================================
