--------------------------- MODULE OnlineTdigest ---------------------------
(***************************************************************************)
(* OnlineTdigest (goodmetrics/src/aggregation/online_tdigest.rs): a        *)
(* T-digest that collects observations in a buffer and merges them when it *)
(* is full, or when somebody asks for the digest.                          *)
(*                                                                         *)
(* Every operation holds the mutex, or has &mut, from its beginning to its *)
(* end: each is one step.                                                  *)
(***************************************************************************)
EXTENDS TDigests

CONSTANTS Values,          \* what is observed
          BufferSize,      \* 32: the length of amortized_observations
          MaxSize,         \* 100: the max_size of TDigest::default()
          MaxObservations, \* bound: observations before and after the last reset
          Quantiles        \* the quantiles that are asked for

ASSUME OnlineAssumption ==
  /\ Values \subseteq Int
  /\ BufferSize \in Nat \ {0}
  /\ MaxSize \in Nat \ {0}
  /\ NaN \notin Int

(* A quantile is a fraction of the whole: between 0 and 1. *)
ASSUME QuantilesAssumption ==
  \A q \in Quantiles : q.num \in Nat /\ q.den \in Nat \ {0} /\ q.num <= q.den

VARIABLES
  current,    \* State.current
  buffer,     \* the first i of amortized_observations
  snapshot,   \* the digest that was last given to a caller
  observed,   \* history: the observations since the last reset
  given       \* history: those since the reset before the snapshot

vars == <<current, buffer, snapshot, observed, given>>

IsDigest(d) ==
  /\ DOMAIN d = {"centroids", "max_size", "sum", "count", "min", "max"}
  /\ d.centroids \in Seq(Centroid)
  /\ d.max_size = MaxSize
  /\ d.sum \in Int
  /\ d.count \in Nat
  /\ d.min \in Int \cup {NaN} /\ d.max \in Int \cup {NaN}

TypeOK ==
  /\ IsDigest(current)
  /\ IsDigest(snapshot)
  /\ buffer \in Seq(Values)
  /\ observed \in Seq(Values)
  /\ given \in Seq(Values)

Init ==
  /\ current = Empty(MaxSize)
  /\ buffer = <<>>
  /\ snapshot = Empty(MaxSize)
  /\ observed = <<>>
  /\ given = <<>>

(* flush_state() of a state with these values in its buffer *)
Flushed(values) == merge_unsorted(current, values)

(* Faulty variant: the buffer is flushed when it is not full any more. *)
ObserveLate(v) ==
  /\ Len(given) + Len(observed) < MaxObservations
  /\ observed' = Append(observed, v)
  /\ LET recorded == Append(buffer, v) IN
       \/ /\ Len(recorded) > BufferSize
          /\ current' = Flushed(recorded)
          /\ buffer' = <<>>
       \/ /\ Len(recorded) <= BufferSize
          /\ buffer' = recorded
          /\ current' = current
  /\ UNCHANGED <<snapshot, given>>

(* observe() and observe_mut() *)
Observe(v) ==
  /\ Len(given) + Len(observed) < MaxObservations
  /\ observed' = Append(observed, v)
  /\ LET recorded == Append(buffer, v) IN
       \/ /\ Len(recorded) = BufferSize
          /\ current' = Flushed(recorded)
          /\ buffer' = <<>>
       \/ /\ Len(recorded) # BufferSize
          /\ buffer' = recorded
          /\ current' = current
  /\ UNCHANGED <<snapshot, given>>

(* get() and get_mut(): get_snapshot() leaves what it gives. *)
Get ==
  /\ current' = Flushed(buffer)
  /\ buffer' = <<>>
  /\ UNCHANGED <<snapshot, observed, given>>

(* The snapshot goes to the caller with all that was observed. *)
TakeSnapshot ==
  /\ snapshot' = Flushed(buffer)
  /\ buffer' = <<>>
  /\ given' = observed
  /\ observed' = <<>>

(* reset() puts a digest of its own in the place of the old one ... *)
Reset ==
  /\ TakeSnapshot
  /\ current' = Empty(MaxSize)

(* ... and reset_mut() clears it. *)
ResetMut ==
  /\ TakeSnapshot
  /\ current' = reset(snapshot')

Next ==
  \/ \E v \in Values : Observe(v)
  \/ Get
  \/ Reset
  \/ ResetMut

Spec == Init /\ [][Next]_vars
-----------------------------------------------------------------------------
(* No observation is forgotten or counted twice, and there is room for the next: the *)
(* count of the digest and what is in the buffer make up the observations since the  *)
(* last reset, and the count of the digest given away those before it                *)
(* (online_tdigest.rs:129, online_tdigest.rs:137).                                   *)
NothingForgotten ==
  /\ Len(buffer) < BufferSize
  /\ current.count + Len(buffer) = Len(observed)
  /\ snapshot.count = Len(given)

(* A digest of exactly these values, whose centroids are in order, between its       *)
(* extremes, and at most as many as it may have.                                     *)
Describes(d, values, size) ==
  /\ d.count = Len(values)
  /\ WeightOf(d.centroids) = Len(values)
  /\ d.sum = Total(values)
  /\ values # <<>> => d.min = Min(ToSet(values)) /\ d.max = Max(ToSet(values))
  /\ Len(d.centroids) <= size
  /\ \A i \in 2..Len(d.centroids) : ~Before(d.centroids[i], d.centroids[i - 1])
  /\ \A c \in ToSet(d.centroids) : d.min * c.weight <= c.sum /\ c.sum <= d.max * c.weight

(* What has been observed and is no longer in the buffer *)
Digested == SubSeq(observed, 1, Len(observed) - Len(buffer))

(* Whatever was compressed into it how often, and although reset() leaves extremes   *)
(* of 0 behind, a digest is one of what was observed since the reset before it; and  *)
(* two digests merge into one of what both have taken, though one centroid larger    *)
(* than it may be, for merge_digests() passes the first limit twice                  *)
(* (tdigest.rs:262, tdigest.rs:455).                                                 *)
DigestsDescribe ==
  /\ Describes(current, Digested, MaxSize)
  /\ Describes(snapshot, given, MaxSize)
  /\ Describes(merge_digests(<<snapshot, current>>), given \o Digested, MaxSize + 1)

Smaller(x) == Cardinality({i \in DOMAIN Digested : Less(Ratio(Digested[i], 1), x)})
NotGreater(x) == Cardinality({i \in DOMAIN Digested : ~Less(x, Ratio(Digested[i], 1))})

(* An estimated quantile lies between the extremes, and is half a rank off at most   *)
(* as long as no two values share a centroid (tdigest.rs:475).                       *)
QuantilesAreClose ==
  current.count > 0 =>
    \A q \in Quantiles : LET x == estimate_quantile(current, q) IN
      /\ ~Less(x, Ratio(current.min, 1))
      /\ ~Less(Ratio(current.max, 1), x)
      /\ Len(current.centroids) = current.count =>
           /\ 2 * q.den * Smaller(x) <= 2 * q.num * current.count + q.den
           /\ 2 * q.den * NotGreater(x) >= 2 * q.num * current.count - q.den
=============================================================================
