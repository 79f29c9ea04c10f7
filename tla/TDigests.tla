------------------------------ MODULE TDigests ------------------------------
(***************************************************************************)
(* T-digests (goodmetrics/src/aggregation/tdigest.rs): the distribution of *)
(* the values a digest has taken, as at most max_size centroids that are   *)
(* finer towards its ends, from which quantiles are estimated.             *)
(*                                                                         *)
(* The code computes in f64.  Here a mean is the ratio of a sum to a       *)
(* weight, a scale limit is compared after multiplication with its         *)
(* denominator, and arithmetic is exact; for a max_size that is a power of *)
(* two the scale limits of the code are exact too.                         *)
(***************************************************************************)
EXTENDS Integers, Sequences, SequencesExt, FiniteSetsExt

CONSTANT NaN   \* the extremes of a digest that never took a value

Centroid == [sum : Int, weight : Nat \ {0}]
Single(value) == [sum |-> value, weight |-> 1]

(* Centroid::cmp: one mean is below the other. *)
Before(c, e) == c.sum * e.weight < e.sum * c.weight

(* Centroid::add *)
Add(c, e) == [sum |-> c.sum + e.sum, weight |-> c.weight + e.weight]

(* What the first n numbers add up to *)
Totals(numbers) ==
  LET total[n \in 0..Len(numbers)] == IF n = 0 THEN 0 ELSE total[n - 1] + numbers[n]
  IN total

Total(numbers) == Totals(numbers)[Len(numbers)]

WeightOf(centroids) == Total([i \in DOMAIN centroids |-> centroids[i].weight])
SumOf(centroids) == Total([i \in DOMAIN centroids |-> centroids[i].sum])

(* TDigest::new_with_size, and TDigest::default with its size of 100. *)
Empty(size) ==
  [centroids |-> <<>>, max_size |-> size, sum |-> 0, count |-> 0, min |-> NaN, max |-> NaN]

(* Faulty variant: reset() forgets the size, too. *)
reset_resizing(d) == [Empty(0) EXCEPT !.min = 0, !.max = 0]

(* TDigest::reset leaves 0 where an empty digest has NaN. *)
reset(d) == [Empty(d.max_size) EXCEPT !.min = 0, !.max = 0]
-----------------------------------------------------------------------------
(* The next of two sequences in order; of equal means the first one's come first. *)
MergeNext(first, second, m) ==
  IF m.j < Len(second) /\ (m.i = Len(first) \/ Before(second[m.j + 1], first[m.i + 1]))
  THEN [m EXCEPT !.j = @ + 1, !.result = Append(@, second[m.j + 1])]
  ELSE [m EXCEPT !.i = @ + 1, !.result = Append(@, first[m.i + 1])]

(* What has been merged after n steps, with i of the first and j of the second *)
Merging(first, second) ==
  LET merge[n \in 0..(Len(first) + Len(second))] ==
        IF n = 0 THEN [i |-> 0, j |-> 0, result |-> <<>>]
        ELSE MergeNext(first, second, merge[n - 1])
  IN merge

Merged(first, second) == Merging(first, second)[Len(first) + Len(second)].result

(* weight_so_far <= k_to_q(k, size) * count *)
WithinLimit(weight, k, size, count) ==
  weight * size * size <=
    count * (IF 2 * k >= size THEN size * size - 2 * (size - k) * (size - k) ELSE 2 * k * k)

(* Neighbours are joined as long as all the weight so far is within the limit, and   *)
(* after each centroid the next limit holds, but the first one once more as often as *)
(* it is repeated.                                                                   *)
Join(a, c, size, count, repeated) ==
  LET weight == a.weight + c.weight IN
  IF WithinLimit(weight, Max({1, Len(a.done) + 1 - repeated}), size, count)
  THEN [a EXCEPT !.curr = Add(@, c), !.weight = weight]
  ELSE [done |-> Append(a.done, a.curr), curr |-> c, weight |-> weight]

Joining(centroids, size, count, repeated) ==
  LET join[n \in 0..(Len(centroids) - 1)] ==
        IF n = 0 THEN [done |-> <<>>, curr |-> centroids[1], weight |-> centroids[1].weight]
        ELSE Join(join[n - 1], centroids[n + 1], size, count, repeated)
  IN join

(* What compressed.sort() gets is in order. *)
Compressed(centroids, size, count, repeated) ==
  LET joined == Joining(centroids, size, count, repeated)[Len(centroids) - 1]
  IN Append(joined.done, joined.curr)

Digest(compressed, size, count, min, max) ==
  [centroids |-> compressed, max_size |-> size, sum |-> SumOf(compressed),
   count |-> count, min |-> min, max |-> max]

(* The extremes of a digest and of another value. *)
Lowest(d, v) == IF d.count > 0 THEN Min({d.min, v}) ELSE v
Highest(d, v) == IF d.count > 0 THEN Max({d.max, v}) ELSE v

(* Faulty variant: the extremes of a digest that was reset() count. *)
merge_sorted_stale(d, values) ==
  IF values = <<>> THEN d ELSE
  LET count == d.count + Len(values)
      first == values[1].sum
      last == values[Len(values)].sum
  IN Digest(Compressed(Merged(values, d.centroids), d.max_size, count, 0), d.max_size, count,
            IF d.min # NaN THEN Min({d.min, first}) ELSE first,
            IF d.max # NaN THEN Max({d.max, last}) ELSE last)

(* The values come as centroids of weight 1. *)
merge_sorted(d, values) ==
  IF values = <<>> THEN d ELSE
  LET count == d.count + Len(values) IN
  Digest(Compressed(Merged(values, d.centroids), d.max_size, count, 0), d.max_size, count,
         Lowest(d, values[1].sum), Highest(d, values[Len(values)].sum))

(* sort() of the first n values, one after the other *)
Sorting(values) ==
  LET sort[n \in 0..Len(values)] ==
        IF n = 0 THEN <<>> ELSE Merged(sort[n - 1], <<Single(values[n])>>)
  IN sort

Sorted(values) == Sorting(values)[Len(values)]

merge_unsorted(d, values) == merge_sorted(d, Sorted(values))

(* A digest joins those that are to be merged. *)
Gather(all, d) ==
  IF d.count > 0
  THEN [all EXCEPT !.centroids = Merged(@, d.centroids), !.count = @ + d.count,
                   !.min = Lowest(all, d.min), !.max = Highest(all, d.max)]
  ELSE all

Gathering(digests, size) ==
  LET gather[n \in 0..Len(digests)] ==
        IF n = 0 THEN Empty(size) ELSE Gather(gather[n - 1], digests[n])
  IN gather

(* merge_digests() merges the centroids of digests by twos, in their order, and      *)
(* passes the first limit twice.                                                     *)
merge_digests(digests) ==
  IF \A i \in DOMAIN digests : digests[i].centroids = <<>> THEN Empty(100) ELSE
  LET size == Head(digests).max_size
      all == Gathering(digests, size)[Len(digests)]
  IN Digest(Compressed(all.centroids, size, all.count, 1), size, all.count, all.min, all.max)
-----------------------------------------------------------------------------
(* Ratios with a positive denominator *)
Ratio(n, d) == [num |-> n, den |-> d]
Less(a, b) == a.num * b.den < b.num * a.den
Mean(c) == Ratio(c.sum, c.weight)
Plus(a, b) == Ratio(a.num * b.den + b.num * a.den, a.den * b.den)
Minus(a, b) == Ratio(a.num * b.den - b.num * a.den, a.den * b.den)
Times(a, b) == Ratio(a.num * b.num, a.den * b.den)

clamp(v, lo, hi) == IF Less(hi, v) THEN hi ELSE IF Less(v, lo) THEN lo ELSE v

WeightBefore(d, k) == WeightOf(SubSeq(d.centroids, 1, k - 1))

(* Faulty variant: a centroid is passed before its weight is. *)
PositionLate(d, q) ==
  Max({k \in DOMAIN d.centroids : (WeightBefore(d, k) - 1) * q.den <= q.num * d.count})

(* The centroid that holds rank q * count: the code looks for it from the nearer end. *)
Position(d, q) ==
  Max({k \in DOMAIN d.centroids : WeightBefore(d, k) * q.den <= q.num * d.count})

(* Between the means of its neighbours a centroid's values lie along a line.          *)
estimate_quantile(d, q) ==
  IF d.centroids = <<>> THEN Ratio(0, 1)
  ELSE IF q.num >= q.den THEN Ratio(d.max, 1)
  ELSE IF q.num <= 0 THEN Ratio(d.min, 1)
  ELSE
  LET pos == Position(d, q)
      last == Len(d.centroids)
      c == d.centroids[pos]
      below == Mean(d.centroids[Max({1, pos - 1})])
      above == Mean(d.centroids[Min({last, pos + 1})])
      delta == Times(Minus(above, below), Ratio(1, IF pos \in {1, last} THEN 1 ELSE 2))
      along == Ratio(2 * (q.num * d.count - WeightBefore(d, pos) * q.den) - c.weight * q.den,
                     2 * c.weight * q.den)
  IN clamp(Plus(Mean(c), Times(along, delta)),
           IF pos = 1 THEN Ratio(d.min, 1) ELSE below,
           IF pos = last THEN Ratio(d.max, 1) ELSE above)
=============================================================================
