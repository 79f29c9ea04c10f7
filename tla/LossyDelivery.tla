--------------------------- MODULE LossyDelivery ---------------------------
(***************************************************************************)
(* What the metrics pipeline promises to those who emit: every record is   *)
(* delivered at most once, the delivered records of one source arrive in   *)
(* the order they were emitted, and a record may be lost at any time.      *)
(***************************************************************************)
EXTENDS Naturals

CONSTANT Record    \* what may be emitted: a source (from) and its n-th emission

VARIABLES accepted,   \* records emitted so far
          pending,    \* records on their way
          delivered,  \* records the server has
          lost        \* records nobody will see

Before(a, b) == a.from = b.from /\ a.n < b.n

Init ==
  /\ accepted = {}
  /\ pending = {}
  /\ delivered = {}
  /\ lost = {}

(* A source emits its next record, which may be lost at once. *)
Accept(rec) ==
  /\ rec \notin accepted
  /\ \A a \in accepted : a.from = rec.from => Before(a, rec)
  /\ accepted' = accepted \cup {rec}
  /\ \/ pending' = pending \cup {rec} /\ lost' = lost
     \/ pending' = pending /\ lost' = lost \cup {rec}
  /\ delivered' = delivered

(* Records D reach the server and records L are lost.  Nothing is delivered while *)
(* an older record of its source stays on its way.                                *)
Settle(D, L) ==
  /\ D \cup L \subseteq pending
  /\ D \cap L = {}
  /\ \A d \in D, q \in pending \ (D \cup L) : ~Before(q, d)
  /\ pending' = pending \ (D \cup L)
  /\ delivered' = delivered \cup D
  /\ lost' = lost \cup L
  /\ UNCHANGED accepted

Next ==
  \/ \E rec \in Record : Accept(rec)
  \/ \E D, L \in SUBSET pending : Settle(D, L)

vars == <<accepted, pending, delivered, lost>>

Spec == Init /\ [][Next]_vars

(* Every accepted record has exactly one fate: nothing is duplicated or forgotten. *)
OneFate ==
  /\ accepted = pending \cup delivered \cup lost
  /\ pending \cap delivered = {}
  /\ pending \cap lost = {}
  /\ delivered \cap lost = {}
=============================================================================
