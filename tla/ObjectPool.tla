----------------------------- MODULE ObjectPool -----------------------------
(***************************************************************************)
(* What a MetricsAllocator promises (goodmetrics/src/allocator/mod.rs): an *)
(* object it vends is in nobody else's hands, and an object that comes     *)
(* back may be kept for reuse or be destroyed.                             *)
(***************************************************************************)
CONSTANT Objects

VARIABLES idle,     \* objects kept for reuse
          vended    \* objects in somebody's hands

Init == idle = {} /\ vended = {}

(* A new object, or one kept for reuse. *)
Vend(o) ==
  /\ o \notin vended
  /\ vended' = vended \cup {o}
  /\ idle' = idle \ {o}

Return(o) ==
  /\ o \in vended
  /\ vended' = vended \ {o}
  /\ idle' \in {idle, idle \cup {o}}

Next == \E o \in Objects : Vend(o) \/ Return(o)

Spec == Init /\ [][Next]_<<idle, vended>>
=============================================================================
