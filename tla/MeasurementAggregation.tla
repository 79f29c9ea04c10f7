----------------------- MODULE MeasurementAggregation -----------------------
(***************************************************************************)
(* One measurement name at one dimension position of one metric, from the  *)
(* calls that record it in a scope's Metrics object (goodmetrics/src/      *)
(* metrics.rs:141-181) over the aggregator's entry for it                  *)
(* (pipeline/aggregator.rs:287-441, aggregation/) to what a batcher makes  *)
(* of the entry (downstream/opentelemetry_downstream.rs:185-552,           *)
(* downstream/goodmetrics_downstream.rs:150-250).                          *)
(*                                                                         *)
(* Names and positions do not influence each other, so one stands for all. *)
(* A name can be recorded as an observation, a distribution or a sum: the  *)
(* object decides by its last write, except for sums, and the window by    *)
(* its first kind.  Sums are those of a release build, which roll over.    *)
(*                                                                         *)
(* A t-digest and an exponential histogram are the bags of what they took: *)
(* their compression is not modelled.                                      *)
(***************************************************************************)
EXTENDS Buckets, Sequences, SequencesExt, Bags

CONSTANTS Numbers,        \* what callers observe; words they add up, too
          Distributions,  \* what callers record as distributions: sequences of values
          MaxSamples,     \* bound: measurements aggregated in a window
          Nothing         \* no measurement, no entry, no data point

Types == {"Observation", "Distribution", "Sum"}
Measurements == [type : Types, values : Seq(Nat \cup Word)]

Modes == {"Histogram", "ExponentialHistogram", "TDigest"}
Kinds == {"StatisticSet", "Sum"} \cup Modes

(* The values whose rounding is exact and stays in the word *)
Roundable == {v \in Nat \cup Word : /\ Absolute(Wrap(v)) <= PowersOfTen[MaxPower]
                                   /\ bucket_10(Wrap(v)) \in Word}

ASSUME MeasurementAssumption ==
  Numbers \subseteq Nat \cup Word /\ Distributions \subseteq Seq(Roundable)

ASSUME NothingAssumption == Nothing \notin Word \cup Measurements \cup Types \cup Kinds

VARIABLES
  mode,     \* the aggregator's distribution_mode
  object,   \* the name's measurement in the scope's object
  entry,    \* the name's aggregation in the window
  phase,    \* of the window
  heap,     \* buckets that as_otel_histogram() has not come to
  bounds,   \* explicit_bounds
  counts,   \* bucket_counts
  point,    \* the rest of the data point
  first,    \* history: the type that was aggregated first in the window
  samples,  \* history: the values of that type that were aggregated
  added     \* history: what sum() added since the window, or the object in it, began,
            \* or Nothing if anything else was recorded under the name

exportVars == <<phase, heap, bounds, counts, point>>
vars == <<mode, object, entry, exportVars, first, samples, added>>
-----------------------------------------------------------------------------
(* What the members of a finite set have under a function, in total *)
TotalOver(f, S) ==
  LET total[T \in SUBSET S] ==
        IF T = {} THEN 0
        ELSE LET e == CHOOSE e \in T : TRUE IN f[e] + total[T \ {e}]
  IN total[S]

(* How many values are in a bag, or in the buckets of a sequence, and their sum *)
CountOf(counted) == TotalOver(counted, DOMAIN counted)
SumOf(bag) == TotalOver([v \in DOMAIN bag |-> v * bag[v]], DOMAIN bag)

Observation(n) == [type |-> "Observation", values |-> <<n>>]
Distribution(d) == [type |-> "Distribution", values |-> d]
Sum(n) == [type |-> "Sum", values |-> <<n>>]

(* The kind of aggregation that a type of measurement makes if there is none. *)
KindFor(type) == CASE type = "Observation" -> "StatisticSet"
                   [] type = "Distribution" -> mode
                   [] type = "Sum" -> "Sum"

EmptyData(kind) ==
  CASE kind = "StatisticSet" -> [min |-> MaxWord, max |-> MinWord, sum |-> 0, count |-> 0]
    [] kind = "Sum" -> 0
    [] kind \in Modes -> EmptyBag

(* Which measurements an aggregation takes; the others are logged. *)
Takes(kind, type) == CASE type = "Observation" -> kind = "StatisticSet"
                       [] type = "Distribution" -> kind \in Modes
                       [] type = "Sum" -> kind = "Sum"

StatisticSetWith(data, v) ==
  [min |-> Min({v, data.min}), max |-> Max({v, data.max}),
   sum |-> Wrap(data.sum + v), count |-> data.count + 1]

(* Faulty variant: the sum has no sign. *)
SumWithUnsigned(data, n) == (data + n) % Modulus

SumWith(data, n) == Wrap(data + n)

HistogramWith(data, values) ==
  data (+) ToBag([i \in DOMAIN values |-> bucket_10(Wrap(values[i]))])

(* An aggregation with the values of a measurement that it takes. *)
Accumulated(kind, data, values) ==
  CASE kind = "StatisticSet" -> StatisticSetWith(data, Wrap(Head(values)))
    [] kind = "Sum" -> SumWith(data, Head(values))
    [] kind = "Histogram" -> HistogramWith(data, values)
    [] OTHER -> data (+) ToBag(values)

NoEntry == [kind |-> Nothing, data |-> Nothing]

StatisticSets == [min : Word, max : Word, sum : Word, count : Nat]

TypeOK ==
  /\ mode \in Modes
  /\ object = Nothing \/ object \in Measurements
  /\ \/ entry = NoEntry
     \/ entry.kind = mode /\ IsABag(entry.data) /\ BagToSet(entry.data) \subseteq Nat \cup Word
     \/ entry.kind = "StatisticSet" /\ entry.data \in StatisticSets
     \/ entry.kind = "Sum" /\ entry.data \in Word
  /\ phase \in {"window", "exporting", "exported", "panicked"}
  /\ heap \subseteq Int
  /\ heap # {} => phase = "exporting" /\ heap \subseteq BagToSet(entry.data)
  /\ bounds \in Seq(Int)
  /\ counts \in Seq(Nat)
  /\ point # Nothing => phase \in {"exporting", "exported"}
  /\ first \in Types \cup {Nothing}
  /\ IsABag(samples) /\ BagToSet(samples) \subseteq Nat \cup Word
  /\ added = Nothing \/ added \in Word

Init ==
  /\ mode \in Modes
  /\ object = Nothing /\ entry = NoEntry
  /\ phase = "window" /\ heap = {} /\ bounds = <<>> /\ counts = <<>> /\ point = Nothing
  /\ first = Nothing /\ samples = EmptyBag
  /\ added = 0
-----------------------------------------------------------------------------
(* Scopes record while the window is open.  They do so while a batch is made, too,  *)
(* but the batcher knows nothing of their objects, so that order does not matter.   *)
Recorded ==
  /\ phase = "window"
  /\ UNCHANGED <<mode, entry, exportVars, first, samples>>

(* Metrics::measurement *)
RecordObservation(n) ==
  /\ object' = Observation(n)
  /\ added' = Nothing
  /\ Recorded

(* Metrics::distribution *)
RecordDistribution(d) ==
  /\ object' = Distribution(d)
  /\ added' = Nothing
  /\ Recorded

(* Faulty variant: a sum is inserted as the others are. *)
RecordSumInserting(n) ==
  /\ object' = Sum(n)
  /\ added' = IF added = Nothing THEN Nothing ELSE Wrap(added + n)
  /\ Recorded

(* Metrics::sum adds to the object's sum and leaves any other measurement alone. *)
RecordSum(n) ==
  /\ \/ object = Nothing /\ object' = Sum(n)
     \/ /\ object # Nothing
        /\ object' = IF object.type = "Sum" THEN Sum(Wrap(Head(object.values) + n)) ELSE object
  /\ added' = IF added = Nothing THEN Nothing ELSE Wrap(added + n)
  /\ Recorded

History ==
  /\ first' = IF first = Nothing THEN object.type ELSE first
  /\ samples' = IF object.type = first' THEN samples (+) ToBag(object.values) ELSE samples

(* Faulty variant: a measurement of another kind replaces the aggregation. *)
AggregateReplacing ==
  /\ phase = "window" /\ object # Nothing
  /\ CountOf(samples) < MaxSamples
  /\ LET kind == KindFor(object.type)
         data == IF entry # NoEntry /\ entry.kind = kind THEN entry.data ELSE EmptyData(kind)
     IN entry' = [kind |-> kind, data |-> Accumulated(kind, data, object.values)]
  /\ object' = Nothing
  /\ History
  /\ UNCHANGED <<mode, exportVars, added>>

(* The measurement of a drained object: accumulate_statisticset, accumulate_sum and  *)
(* the three that the mode chooses from for a distribution.                          *)
Aggregate ==
  /\ phase = "window" /\ object # Nothing
  /\ CountOf(samples) < MaxSamples
  /\ LET kind == IF entry = NoEntry THEN KindFor(object.type) ELSE entry.kind
         data == IF entry = NoEntry THEN EmptyData(kind) ELSE entry.data
     IN entry' = [kind |-> kind,
                  data |-> IF Takes(kind, object.type)
                           THEN Accumulated(kind, data, object.values) ELSE data]
  /\ object' = Nothing
  /\ History
  /\ UNCHANGED <<mode, exportVars, added>>
-----------------------------------------------------------------------------
(* The aggregator hands its map to the batcher. *)
HandOver(kinds) ==
  /\ phase = "window"
  /\ entry # NoEntry /\ entry.kind \in kinds
  /\ UNCHANGED <<mode, object, entry, first, samples, added>>

(* Faulty variant: the buckets are counted, not the values in them. *)
BeginHistogramByKeys ==
  /\ HandOver({"Histogram"})
  /\ phase' = "exporting"
  /\ heap' = BagToSet(entry.data)
  /\ point' = [count |-> Cardinality(heap'),
               min |-> IF heap' = {} THEN 0 ELSE Min(heap'),
               max |-> IF heap' = {} THEN 0 ELSE Max(heap')]
  /\ UNCHANGED <<bounds, counts>>

(* as_otel_histogram() begins.  The number of values is summed up from the buckets, *)
(* and the extremes are those of the buckets.                                       *)
BeginHistogram ==
  /\ HandOver({"Histogram"})
  /\ phase' = "exporting"
  /\ heap' = BagToSet(entry.data)
  /\ point' = [count |-> CountOf(entry.data),
               min |-> IF heap' = {} THEN 0 ELSE Min(heap'),
               max |-> IF heap' = {} THEN 0 ELSE Max(heap')]
  /\ UNCHANGED <<bounds, counts>>

Exporting == phase = "exporting" /\ UNCHANGED <<mode, object, entry, first, samples, added>>

(* Faulty variant: the bound below is put there although it is there. *)
PopBucketPadding ==
  /\ Exporting /\ heap # {}
  /\ LET bucket == Min(heap) IN
       /\ heap' = heap \ {bucket}
       /\ bounds' = bounds \o <<bucket_10_below(bucket), bucket>>
       /\ counts' = counts \o <<0, entry.data[bucket]>>
  /\ UNCHANGED <<phase, point>>

(* The least bucket goes into the data point, after an empty bucket unless the last *)
(* bound is at or above its lower bound.                                            *)
PopBucket ==
  /\ Exporting /\ heap # {}
  /\ LET bucket == Min(heap)
         below == bucket_10_below(bucket)
         apart == bounds = <<>> \/ Last(bounds) < below
     IN
       /\ heap' = heap \ {bucket}
       /\ bounds' = bounds \o (IF apart THEN <<below, bucket>> ELSE <<bucket>>)
       /\ counts' = counts \o (IF apart THEN <<0>> ELSE <<>>) \o <<entry.data[bucket]>>
  /\ UNCHANGED <<phase, point>>

(* The bucket up to infinity is empty. *)
EndHistogram ==
  /\ Exporting /\ heap = {}
  /\ phase' = "exported"
  /\ counts' = Append(counts, 0)
  /\ UNCHANGED <<heap, bounds, point>>

(* An aggregation whose data point takes no loop. *)
ExportAtOnce(kind, data) ==
  /\ HandOver({kind})
  /\ phase' = "exported"
  /\ point' = data
  /\ UNCHANGED <<heap, bounds, counts>>

(* as_otel_statistic_set makes a metric of each component. *)
ExportStatisticSet == ExportAtOnce("StatisticSet", entry.data)

(* as_otel_sum *)
ExportSum == ExportAtOnce("Sum", [sum |-> entry.data])

(* as_otel_exponential_histogram leaves the sum out if a value is negative. *)
ExportExponentialHistogram ==
  ExportAtOnce("ExponentialHistogram",
               [count |-> CountOf(entry.data),
                sum |-> IF \E v \in BagToSet(entry.data) : v < 0 THEN 0 ELSE SumOf(entry.data)])

(* OpentelemetryBatcher has no t-digests: unimplemented!() ends the aggregator's task. *)
BatcherPanics ==
  /\ HandOver({"TDigest"})
  /\ phase' = "panicked"
  /\ UNCHANGED <<heap, bounds, counts, point>>

(* GoodmetricsBatcher hands over the aggregation as it is; of a t-digest the number  *)
(* and the sum are kept beside the centroids.                                        *)
ExportDatum ==
  \/ ExportStatisticSet
  \/ ExportSum
  \/ ExportAtOnce("TDigest", [count |-> CountOf(entry.data), sum |-> SumOf(entry.data)])
  \/ \E kind \in {"Histogram", "ExponentialHistogram"} :
       ExportAtOnce(kind, [buckets |-> entry.data])

(* The batcher has drained the map and the aggregator begins anew, with what the     *)
(* object holds still to come.                                                       *)
NextWindow ==
  /\ phase = "exported"
  /\ phase' = "window"
  /\ entry' = NoEntry
  /\ bounds' = <<>> /\ counts' = <<>> /\ point' = Nothing
  /\ first' = Nothing /\ samples' = EmptyBag
  /\ added' = CASE object = Nothing -> 0
                [] object # Nothing /\ object.type = "Sum" -> Head(object.values)
                [] OTHER -> Nothing
  /\ UNCHANGED <<mode, object, heap>>

(* measurement() takes unsigned numbers as well, sum() takes an i64. *)
Next ==
  \/ \E n \in Numbers : RecordObservation(n)
  \/ \E n \in Numbers \cap Word : RecordSum(n)
  \/ \E d \in Distributions : RecordDistribution(d)
  \/ Aggregate
  \/ BeginHistogram \/ PopBucket \/ EndHistogram
  \/ ExportStatisticSet \/ ExportSum \/ ExportExponentialHistogram \/ BatcherPanics
  \/ ExportDatum
  \/ NextWindow

Spec == Init /\ [][Next]_vars
-----------------------------------------------------------------------------
(* The type that comes first in a window decides; the entry is then the aggregate of *)
(* every value of that type, as if computed at once, and nothing else that is         *)
(* recorded under the name or was in an earlier window leaves a trace in it           *)
(* (aggregator.rs:330).  An unsigned observation beyond i64 counts as the word it     *)
(* turns into, in the extremes and in the sum alike (types.rs:281).                   *)
EntryAggregatesFirstType ==
  /\ entry = NoEntry <=> first = Nothing
  /\ first = "Observation" =>
       LET observed == {Wrap(v) : v \in BagToSet(samples)} IN
         /\ entry.kind = "StatisticSet"
         /\ entry.data.min = Min(observed)
         /\ entry.data.max = Max(observed)
         /\ entry.data.sum = Wrap(SumOf(samples))
         /\ entry.data.count = CountOf(samples)
  /\ first = "Sum" => entry.kind = "Sum" /\ entry.data = Wrap(SumOf(samples))
  /\ first = "Distribution" =>
       entry.kind = mode /\ CountOf(entry.data) = CountOf(samples)

(* A name that only sum() is called with loses nothing between the objects and the   *)
(* window: the window's sum and the object's make up all that was added, modulo the   *)
(* word (metrics.rs:162, "Repeated reports add together in this object", and          *)
(* aggregation/sum.rs).                                                               *)
SumsAddUp ==
  added # Nothing /\ phase = "window" =>
    added = Wrap((IF entry = NoEntry THEN 0 ELSE entry.data) +
                 (IF object = Nothing THEN 0 ELSE Head(object.values)))

(* A data point's number of values is the number aggregated, and for a histogram the *)
(* sum of its buckets (metrics.proto:402, "must be equal"); its sum is that of the    *)
(* values if none is negative.                                                        *)
PointCountsItsValues ==
  phase = "exported" =>
    /\ "count" \in DOMAIN point => point.count = CountOf(samples)
    /\ counts # <<>> => CountOf(counts) = point.count
    /\ "sum" \in DOMAIN point /\ BagToSet(samples) \subseteq Nat =>
         Wrap(point.sum) = Wrap(SumOf(samples))

(* The values that bucket i of the data point stands for: metrics.proto:431,         *)
(* "(explicit_bounds[i-1], explicit_bounds[i]] for 0 < i < size(explicit_bounds)".   *)
RangeOf(i) == {v \in BagToSet(samples) : /\ i > 1 => bounds[i - 1] < v
                                         /\ i <= Len(bounds) => v <= bounds[i]}

CountsItsRange(i) == counts[i] = TotalOver(samples, RangeOf(i))

(* Each bucket of a histogram of words that are not negative counts the values in    *)
(* its range, although rounding, the bounds below and the order of export are         *)
(* computed apart (bucket.rs:2, bucket.rs:19, opentelemetry_downstream.rs:447).       *)
BucketsCountTheirRange ==
  phase = "exported" /\ BagToSet(samples) \subseteq 0..MaxWord =>
    /\ Len(counts) = Len(bounds) + (IF counts = <<>> THEN 0 ELSE 1)
    /\ \A i \in DOMAIN counts : CountsItsRange(i)

(* What the protocol says of a bucket, for values of either sign (metrics.proto:431). *)
SignedBucketsCountTheirRange ==
  phase = "exported" /\ BagToSet(samples) \subseteq Word =>
    \A i \in DOMAIN counts : CountsItsRange(i)

(* metrics.proto:434: "The values in the explicit_bounds array must be strictly       *)
(* increasing": whichever buckets neighbour (opentelemetry_downstream.rs:471).        *)
BoundsIncrease == \A i \in 2..Len(bounds) : bounds[i - 1] < bounds[i]
=============================================================================
