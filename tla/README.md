# Verification of goodmetrics

TLA+ models of the goodmetrics client library (`src/goodmetrics`), the TLC
configurations that check them on small instances, and proofs of the theorems
that hold for every value of the constants.

The library collects metrics in an application's threads and sends aggregates to
a server. Its difficulty is not in any one function: threads observe into
gauges beside a reporter that resets them, objects are pooled and handed from
thread to thread, handles outlive what they belong to, and every hand-over on
the way to the server may drop what it is given. That is what is modelled.

## 1. The system

```
 thread --record_scope--> Metrics (pooled) --drop--> StreamSink --queue--> Aggregator --+
                            ^  guards, timers                       (window's map)      |
                            |                                                           v
                       ArcAllocator <-- objects come back when drained          batches (mpsc)
                                                                                 ^      |
 thread --handle.observe--> Gauge <--weak-- GaugeFactory --report_gauges_forever-+      v
                                                            downstream task --RPC--> server
```

| Component | State | Operations | What is hard | What makes it correct |
|---|---|---|---|---|
| StatisticSet gauge (`gauge.rs`) | four atomics, all Relaxed | `observe`, `reset` | `reset` reads, then subtracts; both run beside observers; RMWs of different atomics are unordered | no underflow of the count, no observation lost, extremes kept, the count drains |
| Gauge registry (`gauge_factory.rs`, `gauge_group.rs`) | map of groups, in each a map of `Weak<Gauge>` | look-up, creation, clone, drop, observe; `aggregate_and_reset` | handles are dropped without the mutex; the reporter's upgrade may be the last reference | callers of one key share a gauge; the reporter finds every gauge in use; observations are reported once |
| Metrics object (`metrics.rs`) | dimensions, measurements, guards, behaviors | `dimension`, `guarded_dimension`, `time`, `drain`, `restart` | guards and timers outlive the scope and even the object's life | lives do not mix; what `drain` takes is what it reports |
| Metrics factory, returning reference | behaviors, gauges of its own | `record_scope`, `emit` | the end of a scope is a `Drop` | every scope's record has one fate |
| Pooling allocator (`arc_allocator.rs`) | 8 caches with a mutex each, a clock | `new_metrics`, `return_instance` | try_lock, several threads, a shared clock | an object is vended to one holder, clean |
| Sinks (`stream_sink.rs`, ...) | bounded channel | `accept` | full or closed channel | loses only the one record, never blocks |
| Aggregator (`aggregator.rs`) | map of the window, `last_emit` | `receive_one`, `drain_into`, `aggregate_metrics_forever` | two clocks, sleeps cut in pieces, a busy queue | windows last a cadence and end; what is in the map is sent |
| Measurements and their aggregation (`metrics.rs:141-181`, `aggregator.rs:255-441`, `aggregation/mod.rs`, `sum.rs`, `statistic_set.rs`) | a measurement in the object, an `Aggregation` in the window | `measurement`, `distribution`, `sum`, `accumulate_*`, `absorb`, conversions | kinds of one name in conflict, other rules in the object than in the window, sums that roll over | the first kind's values and nothing else are aggregated; sums add up |
| Bucketed histogram (`bucket.rs`, `histogram.rs`, `as_otel_histogram`) | sparse map of buckets | `accumulate`, export | rounding at powers of ten, sparse to dense | a bucket counts its range; bounds increase |
| T-digest (`tdigest.rs`, `online_tdigest.rs`) | a digest and a buffer of 32 observations under a mutex | `observe`, `get`, `reset`, `merge_sorted`, `merge_digests`, `estimate_quantile` | a buffer that must be flushed exactly when it is full, extremes that a reset leaves behind, compression that is repeated | a digest describes exactly what was observed; quantiles are close |
| Exponential histogram (`exponential_histogram.rs`) | a histogram of the crate | accumulate, merge | floating point, in another crate | - |
| Downstreams (`downstream/*.rs`) | channel of batches, one running RPC | `send_metrics_stream_forever`, conversions | failures, unknown outcomes, a batcher that panics on t-digests | at most once, in order |
| Introspection (`introspect/*.rs`, `always_new_metrics_allocator.rs`) | the registered factory, a `OnceLock` in each lazy gauge | registration, first use, `observe` | the first use races the registration, and what it found is kept | what is allocated after the registration is counted |

The components interact by shared state (gauges, caches, cells of guards), by
bounded channels with `try_send` (queue, batches), and by `Drop` (scopes,
handles, timers, pooled objects). `PROJECT.json` lists every component with what
is modelled of it, and under `hazards` the places where the code can go wrong
and a test would hardly reach.

## 2. Modules

| Module | Models | Composition |
|---|---|---|
| `StatisticGauge` | one StatisticSet gauge | - |
| `GaugeRegistry` | `GaugeFactory`, `GaugeGroup`, handles | a gauge is an observation count here, what `StatisticGauge` does inside is one step |
| `ObjectPool` | what an allocator promises | abstract |
| `ArcAllocator` | the pooling allocator | implements `ObjectPool` |
| `MetricsScope` | the lives of one pooled object | what `ArcAllocator` vends and takes back |
| `AggregationWindow` | when windows end | the timing of `MetricsPipeline`'s `EndWindow` |
| `LossyDelivery` | what the pipeline promises | abstract |
| `MetricsPipeline` | scope to server: factory, sink, aggregator, gauge reporter, downstream | implements `LossyDelivery` |
| `Buckets` | rounding, word arithmetic | operators only |
| `MeasurementAggregation` | a measurement name from calls to data point | the entry of `MetricsPipeline`'s `map` in detail; uses `Buckets` |
| `TDigests` | merging, compressing and estimating | operators only |
| `OnlineTdigest` | the digest with its buffer, what it gives away and what of it is merged | uses `TDigests`; the digests that `MeasurementAggregation` has as bags |
| `Introspection` | lazy gauges beside the registration of their factory | - |

Each `MC*` module gives a module its small sets. Each `*Proofs` module extends
the module it proves about. Operators marked *Faulty variant* are deliberate
errors that replace the definition below them in a run, to see that a property
notices; no specification uses them.

### StatisticGauge
`count`, `sum`, `min`, `max` are the atomics. A member of `Observers` is one
running `observe()` call, and `todo` the atomic operations it has still to make,
in any order: they are Relaxed and touch different locations. A reporter takes
the `gauge_groups` mutex (`holder`), and `left` is what its `reset()` has still to
do; only data dependencies (subtract what was read) and the early return at
count 0 order it. `seen`, `told`, `late` and `twice` are history.

### GaugeRegistry
`registered` is the `Weak<Gauge>` at each key; a gauge is `Alive` while a handle or
the reporter's temporary `Arc` (`temp`) refers to it. `GetGauge` is one step, for
under the mutex only the upgrade can race, with the drop of the last handle. The
reporter goes through the two passes of `GaugeGroup::reset` key by key, with its
upgraded reference in hand in between: `Sweep` is `retain`, `Collect` and `Reset`
the second pass, `DropTemp` the end of the reference, which may drop the gauge.

### ObjectPool, ArcAllocator
`pc`, `slot` and `local` are a thread's running call: `TakeSlot` is the
`fetch_add`, `TryNew`/`TryReturn` the `try_lock`, `Pop`/`Push` what is done under
the lock, up to its release, `Reuse`/`Allocate` the hand-over. The mapping to
`ObjectPool` takes what is in caches as idle, and what is vended or in a call's
hand as vended.

### MetricsScope
`phase` follows the object from the pool through an open scope and the queue.
`cell` is the `Arc<Mutex<Dimension>>` behind each guard; holders write to it at any
time, while `Redeem` (one turn of `drain`'s loop) takes it. Each value carries the
life it was given in, so that a value of an earlier life would show. `latest` and
`writer` are history: what was written to a name last, and the guard it was written
with, if any. A guard given by a suppressed object is none of the object's own, so what
is written with it counts for nothing.

`DrainedDimensions` speaks of names whose last write came through their first guard, and
of names without a guard: the last write is what is reported, however the holders'
writes fall between the turns of the loop. The other names are left out because the
code does with them what nobody promises (see the disagreements below).

### AggregationWindow
Time is discrete and relative: `elapsed` since `last_emit`, `sleepFor`, and `phase`,
the wall clock modulo the cadence. `Tick` passes a millisecond; a step may be
late by at most `MaxLag`, a sleep never ends early. The other actions are the
steps of `aggregate_metrics_forever` between reads of the clock. `waitFor` is the
`wait_for` of `receive_one`.

### LossyDelivery, MetricsPipeline
A record is a source and a number. The variables are the stages: `queue`, `map`,
`batches`, `sending`, `received`; `lost` is history. `Accept` and `TrySendBatch`
are the `try_send`s, with their failures; `RpcEnds` leaves open whether the server
got the batch, because an error after a time-out says nothing about it.
`BatcherPanics` is `unimplemented!()` for t-digests, which ends the aggregator's
task; `AggregatorStops` and `DownstreamStops` are tasks the runtime drops. Windows
may end at any time here, so that what holds does not rest on timing.

### Buckets, MeasurementAggregation
One measurement name at one dimension position: names and positions do not
influence each other. `object` is what `Metrics.measurements` holds under the name
(`RecordObservation`, `RecordDistribution`, `RecordSum`: the last write wins, but
a sum adds to a sum and gives way to anything else), `entry` the `Aggregation` of
the window (`KindFor` and `EmptyData` are the `or_insert_with`s, `Takes` the
matches of the five `accumulate_*`, `Accumulated` the `absorb` and `accumulate`
methods). The mode is the aggregator's. `first`, `samples` and `added` are
history: they do not look at the object or the entry, except that an object still
open when a window ends counts for the next. Every batcher conversion is an
action; only `as_otel_histogram` has a loop over a heap (`BeginHistogram`,
`PopBucket`, `EndHistogram`). T-digests and exponential histograms are the bags of
what they took.

`bucket_10` and `bucket_10_below` are the code's, in integers: for the modelled
values the `f64` arithmetic of the code is exact. Sums roll over at the ends of
the word (`MinWord`, `MaxWord`) as in a release build (a debug build panics), and
an unsigned number beyond the word becomes negative, as `as i64` makes it. What a
distribution may hold is `Roundable`: its magnitude at most 10^`MaxPower`, its
bucket in the word. `MaxPower` is any number, so this leaves out just the values
near the ends of `i64` for which `bucket_10` itself overflows. `TotalOver` adds up
a function over a finite set; counts of buckets and sums of bags are such totals.

### TDigests, OnlineTdigest
A centroid is a sum and a weight, its mean their ratio, and all arithmetic is
exact: means are compared by multiplying out, and so is the scale limit
(`WithinLimit`). The code's `f64` limits are exact, too, where `max_size` is a power
of two, as in the run; for the default of 100 they may differ in the last digit.
The loops are recursive functions that say what there is after n steps: `Merging`
merges two sorted runs; `Joining` joins neighbours within the limit, where `repeated`
is 1 for `merge_digests`, which uses its first limit for its second centroid again;
`Gathering` merges the digests' centroids one digest after another. `Sorting` is the
buffer in order, as centroids of weight 1, one value inserted after another.

Each operation of `OnlineTdigest` holds the mutex (or `&mut`) throughout, so each
is one step. `current` and `buffer` are its state; `snapshot` is what was given
away last, and stays to be merged with what is observed since. `reset` and
`reset_mut` differ in what they leave: a new digest with the extremes of none, or
the old one with extremes of 0. `observed` and `given` are history.

### Introspection
`factory` is `INTROSPECTION_GAUGE_FACTORY`, `gauge` the `OnceLock` of the one lazy
gauge there is. `LoadFactory` and `SetGauge` are the beginning and the end of
`get_or_init`, in between the factory may be registered. `due` and `missed` are
history: calls that began after a registration and were not counted.

## 3. Runs

Bounds are the `Max...` constants and the sizes of the sets in the `.cfg` files.

| Run | Instance | Shows |
|---|---|---|
| `statistic_gauge` | 2 calls, 2 reporters, 2 observations, one value; 280,220 states | `CountNeverUnderflows`, `TotalsAccounted`, `CountedAtMostTwice`, `ExtremesKept`; with fairness `CountDrains` |
| `statistic_gauge_torn` | 1 reporter, two values | `ReportedMinimumWasObserved` is violated |
| `pipeline` | 2 threads and the gauge reporter, queue 2, batch channel 1, 2 records each, all failures; 82,175 states | `OneFate`, `ReceivedInOrder`, `LossHasCause`, `ImplementsDelivery`; with fairness `CollectingEnds` |
| `aggregation_window` | cadence 5, poll 2, queue 2, lateness up to 2; 39,840 states | `WindowNotShort`, `WindowEndsOnTime`, `BatchesSpaced`; with fairness `MapIsDrained` |
| `arc_allocator` | 2 threads, 2 slots of 1, 5 objects; 67,411 states | `OnePlace`, `VendedClean`, `ImplementsPool` |
| `arc_allocator_reuse` | 1 thread, the code's 8 slots | `ReuseRecurs` is violated |
| `metrics_scope` | 1 name, 2 inputs, 3 guards, a timer, 2 lives; 156,672 states | `NoCrossTalk`, `DrainedDimensions` |
| `gauge_registry` | 2 groups with a gauge position each, 2 kinds, 2 handles, 2 gauges; 184,810 states | `OneGaugePerKey`, `AliveGaugesRegistered`, `ObservationsAccounted`; with fairness `ObservationReported`, `DeadEntriesCollected` |
| `measurement` | a word of 12 bits; 4 numbers whose sums roll over, one of them beyond the word and only observed, 21 distributions at every change of magnitude up to 10^3, of either sign, empty, of two values and beyond the word; windows of 3 and the three modes; 793,100 states | `EntryAggregatesFirstType`, `SumsAddUp`, `PointCountsItsValues`, `BucketsCountTheirRange`, `BoundsIncrease` |
| `measurement_negative` | windows of 2 | `SignedBucketsCountTheirRange` is violated |
| `online_tdigest` | values 1, 2 and 9, a buffer of 3, digests of 4 centroids, 7 observations before and after the last reset; 94,534 states | `NothingForgotten`, `DigestsDescribe`, `QuantilesAreClose` |
| `introspection` | 2 threads that allocate, 1 registration | `RegisteredIsCounted` is violated |

Why the bounds are enough for what the runs ask:
- *Gauge.* A race needs a reset and an observation that overlaps it; two calls
  and two reporters give an observation in the window of one reset that is then
  met by the next, and a second reporter at the mutex. One value suffices here
  for the theorems cover the others; the torn run uses two.
- *Pipeline.* Two records of a thread give order, two threads interleave, a queue
  of 2 and a channel of 1 are full and overflow. The theorems lift the capacities.
- *Window.* A cadence of 5 and a poll of 2 make three sleeps, the last cut short;
  a lateness of 2 is as long as a sleep, so that steps overrun.
- *Allocator.* Two threads meet in a slot both ways round; one place per cache
  makes it empty, full, and locked. 8 slots where their number matters.
- *Scope.* Cross-talk needs a handle of one life and an object in the next: two
  lives; the order of guards needs two, and a third is open when the next life
  begins. Names do not interact, one suffices.
- *Registry.* Two gauges are what two handles can keep alive; a dropped gauge's
  entry and its successor need two allocations of one key; two groups let the
  reporter be in one while the other changes.
- *Measurement.* Neighbouring buckets decide about an empty bucket between them:
  three values give a bucket with a neighbour on either side. A conflict needs two
  measurements; multiples of an eighth of the word roll over in the object, in the
  window and between them, and one beyond the word is negative when it is observed.
- *T-digest.* Seven observations fill the buffer twice, and one is left over; a
  digest of 4 centroids has to compress five and six values, so that what is
  compressed already is compressed again. The values are uneven, so that a mean
  lies far from the middle of its neighbours'.
- *Introspection.* One thread looks for the factory while it is registered, the
  other waits for what it finds.

Deadlock is checked except where everything may come to rest: in `pipeline` (all
records of the bound are emitted and settled), `metrics_scope` (the lives of the
bound are over), `measurement` and `measurement_negative` (a t-digest ends the
aggregator's task), and `online_tdigest` (all observations of the bound are made).

### Fairness
- Gauge: a thread inside `observe()` or `reset()` goes on (weak fairness; neither
  waits), and some reporter returns for the free mutex (the interval ticks for
  ever). Nobody has to observe.
- Registry: the reporter goes on; callers need not do anything.
- Pipeline: the aggregator's future is polled, so that it receives and its windows
  end (`AggregationWindow` has the timing). It waits for nothing but its own timer, so
  this needs no thread of its own for it: `aggregator.rs:163` only suggests "a separate
  1-2 thread runtime", and `benches/lightstep.rs:58` joins it with the downstream.
  Nothing is assumed of the downstream: neither downstream sets a deadline for its
  RPC (`goodmetrics_downstream.rs:74`, `opentelemetry_downstream.rs:117`), so that one
  may hang for ever, with its batch and with the channel full behind it.
  `CollectingEnds` says that the aggregator passes every record on regardless. No
  thread has to emit, no task has to die.
- Window: time passes and the aggregator's task is polled. Arrivals are not fair
  and are not limited: `MapIsDrained` holds with a queue that never empties.
- Allocator (`arc_allocator_reuse` only): a thread that creates and drops for ever.

### Disagreements between code and documentation
The four violation runs are disagreements met while modelling; `findings` quotes
each. In short: a StatisticSet report can carry `i64::MAX` as its minimum beside a
positive count (`gauge.rs:193`); with 8 slots a thread that creates and drops by
turns never reuses an object (`arc_allocator.rs:102`); a negative value is
counted in a bucket whose exported range lies below it
(`opentelemetry_downstream.rs:466`); and a lazy introspection gauge that is used
once before its factory is registered never counts anything (`lazy_gauge.rs:20`).

A fifth has no run of its own. `metrics.rs:132` says of `dimension()` "last write per
metrics object wins!", but `drain` writes each guard's value over the dimensions, the
youngest guard first (`metrics.rs:295`): the first guard of a name wins over its later
guards, and even with its default, never set, over a later `dimension()`.
`DrainedDimensions` says what holds beside that; without its condition on `writer` TLC
finds a guard's default drained in place of a later `dimension()` in a few steps.

The models show some more behaviour that a reader of the code may not expect. The
first window ends at twice its offset from the column, not on it
(`aggregator.rs:181`). `bucket_10` rounds away from 0, as its tests expect, where its
comments say "toward 0" (`bucket.rs:1`, `bucket.rs:35`). `merge_digests` may give one
centroid more than the size it was asked for (`tdigest.rs:434`), and digests that
are compressed again and again need not keep each centroid within its limit, so
that `DigestsDescribe` bounds only their number. An estimated quantile need not
grow with `q` where a centroid holds several values, for the slopes of neighbours
differ (`tdigest.rs:518`). `OnlineTdigest` displays `current`, without what is in
the buffer (`online_tdigest.rs:37`).

## 4. Proofs

| Module | Theorems | Inductive invariant |
|---|---|---|
| `StatisticGaugeProofs` | `TypeCorrect`, `NeverUnderflows`, `AtMostTwice`, `NothingUncounted`, `ExtremesSurvive` | `GaugeInvariant` |
| `MetricsPipelineProofs` | `TypeCorrect`, `EveryRecordHasOneFate`, `RecordsStayInLine`, `ServerReceivesInOrder`, `LossesHaveCauses`, `PipelineImplementsDelivery` | `PipelineInvariant` |
| `AggregationWindowProofs` | `TypeCorrect`, `WindowsAreNotShort`, `BatchesAreSpaced`, `WindowsEndOnTime` | `WindowInvariant`, `Timely` |
| `GaugeRegistryProofs` | `TypeCorrect`, `GaugesInUseAreRegistered`, `CallersShareAGauge`, `ObservationsAreAccounted` | `RegistryInvariant`, `AccountsInvariant` |
| `ArcAllocatorProofs` | `TypeCorrect`, `ObjectsHaveOnePlace`, `ObjectsAreVendedClean`, `AllocatorImplementsPool` | `PoolInvariant` |
| `MetricsScopeProofs` | `TypeCorrect`, `LivesDoNotMix`, `LastWritesAreDrained` | `ScopeInvariant` |
| `OnlineTdigestProofs` | `TypeCorrect`, `NoObservationIsForgotten`, `DigestsDescribeObservations`, `QuantilesLieClose` | `DigestInvariant`, `WholeInvariant` |
| `MeasurementAggregationProofs` | `TypeCorrect`, `FirstTypeIsAggregated`, `SumsAreComplete`, `PointsCountTheirValues`, `BucketsCountTheirRanges`, `BoundsAreIncreasing` | `AggregationInvariant` |

*Gauge.* `CountNeverUnderflows` is not inductive: that the amount to subtract is
still there needs `WindowExact` (while a reporter has still to subtract, the atomic
holds what it read and what arrived since), which needs `ResetOrdered` (only the
holder of the mutex is inside a reset). `CountedAtMostTwice` needs `LateOnce`: an
observation falls into the window of one reset only. Assumed: there are two
distinct extremes, values lie between them, and the free mutex is no reporter.

*Pipeline.* Order at the server is not inductive either: one must know that every
stage holds other, older records than the stages behind it. That is `InLine`, and
with it `OneFate` and the types give `PipelineInvariant`. The refinement follows
step by step: an emission is `Accept`, a window, RPC, panic or stop is `Settle`,
and all else stutters. `LossHasCause` needs no invariant: each action that loses a
record has the cause in its guard or its step. Assumed: positive capacities, and
that the gauge reporter is no application thread.

*Window.* `WaitsLongEnough` says that the time gone by, the running sleep and what
is left to wait make up the cadence while `receive_one` polls, although it does
not look at the clock again; `StampedAfterEmit` ties the last timestamp to
`last_emit`. `Timely` is what bounds a window from above: at the k-th sleep, k
delays of waking up and k of polling have added up at most, and no more than
`Sleeps - k` sleeps are left to wait for (`SleepsSuffice`, `DelaysGrow`). Assumed:
positive cadence, poll interval and capacity.

*Registry.* The key of a gauge in use leads back to that gauge
(`AliveGaugesRegistered`), from which sharing follows; it survives `Sweep` because
only dead entries go, and `GetGauge` because only dead entries are replaced. What is
observed at a key is reported or still in the key's gauge: since at most one
gauge per key is in use, this needs no sum over gauges, but that an entry's gauge
is of the entry's kind (`EntriesMadeForTheirKey`), so that a gauge dropped or
replaced held nothing. Assumed: `None` is no gauge.

*Allocator.* That an object is in one place says nothing of what a call will do
with it next. `HandsFull` adds that a call has an object in hand from `Pop`, or
from its drop, on, and none before; with `OnePlace` and the types that is
inductive. A vended object is clean since `Reuse` restarts it and `Allocate` makes
a new one. The refinement goes step by step: `Pop` and `Allocate` vend, a dropped
object that finds room goes back, one that does not is forgotten, and all else
stutters. Assumed: at least one slot, and that `None` is no thread and no object.

*Scope.* A guard's cell may outlive the object's life, so the invariant says that
the object's own guards, dimensions and timer are of its present life
(`PresentLife`), that each guard it keeps has a value and a cell of its own
(`GuardsFull`), and that no handle is older than the first life (`LivesBegun`).
`FirstGuardWins` says where the last write is if it came through a name's first guard:
in that guard's cell, below all other guards of the name, until `drain`, which goes
from the last guard to the first, has redeemed it, and in the dimension from then on.
That no dimension is ever "__none__" is part of `TypeCorrect` and follows from
`GuardsFull`. Assumed: the different kinds of texts and of "nothing" are distinct.

*T-digest.* What the loops compute is proved by induction. `InductionOnNat` has it
for a set in place of an operator, from the library's theorem that `<` is
well-founded; `Loop` and `LoopInvariant` are what follows for recursive functions:
a loop that stays within given sets has results, and what holds of them.
`MergeState`, `SortState` and `JoinState` say what a loop has made of its first n
steps. A digest in the model is `Made` of a sequence of values: its centroids are in
order, weigh as much as there are values and sum up to their sum, and its extremes
are those of the values. Joining keeps order and extremes because the mean of two
centroids joined lies between theirs, and bounds the number of centroids because
the last limit lies at the count (`DigestOf`); what `merge_digests` may have beyond
the size is one centroid (`DigestOfTwo`). `DigestInvariant` has each digest of the
specification made of the observations it stands for.

`QuantilesAreClose` has two parts. An estimate lies between the extremes because it
is clamped between the means of a centroid's neighbours, which do
(`EstimateIsBetween`). How far its rank may be off is more than `DigestInvariant` can
say: weight, sum and extremes do not tell one set of values from another. So
`WholeInvariant` adds that there are never more centroids than values, and that,
when there are as many, every set of centroids is met as often among the digest's
as among the values (`Whole`). Merging and sorting keep these counts (`CountOfMerged`,
`CountOfSorted`), and a compression that ends with as many centroids as it began
with joined none (`CompressedKeeps`); one that joined two can never catch up again,
for each further value adds at most one centroid. The counts say that each centroid
weighs 1 (`EachWeighsOne`), so the rank of a position is its number less one
(`WeightOfSingles`), and that the values lie below an estimate as often as the means
do (`PlacesOfWhole`). Between the neighbours of its position an estimate lies on the
side of the mean that the sought rank lies on (`SideOfLine`, `ClampFacts`): above it
at most `pos` means are below the estimate, below it at least `pos - 1` are not above,
and either is within half a rank (`EstimateIsClose`). The quantiles 0 and 1 are the
extremes themselves (`ExtremeIsClose`). Ratios are compared by products, which
`RatioArithmetic` and `AtMostIsTransitive` treat once.

Assumed (`OnlineAssumption`, `QuantilesAssumption`): positive sizes, integer values,
extremes of an empty digest that are no number, and quantiles from 0 to 1, which is
what the code asks for. `WholeInvariant` speaks of every set of centroids, so TLC has no
run of it; what it is for, `QuantilesAreClose`, is checked by `online_tdigest`.

*Measurement.* `AggregationInvariant` is three invariants.

`SumInvariant`: `RemainderOfSum` says that a remainder may be taken at once or on the
way, and `WrapOfSum` the same of words that roll over. With them the window's part and
the object's keep making up what was added (`SumsAddUp`), for `OnlySums`: whoever
has only called `sum()` since the window began has a sum in the object and in the
entry, or nothing.

`KindsInvariant`: the entry is what `Aggregates` says of the values of the first
type, `samples`: a statistic set of them as words, their sum modulo the word, the list of
them, or a histogram, each of whose buckets holds as many values as round to it
(`IsHistogramOf`). One more measurement of the type keeps that (`AggregatesMore`,
with `StatisticSetMore` and `HistogramMore`), another type's is not taken
(`AggregatesOneType`).
Totals over finite sets are proved about once (`TotalOfOneMore`, `TotalOfSum`,
`TotalOfPart`, `TotalOfPlaces`): that a total does not depend on the order of
adding is an induction over the size of the set, and that totals of bags add up
follows.

`ExportInvariant`: `BoundsMatch` is the invariant of `as_otel_histogram`'s loop. Bounds
increase and lie below the buckets left in the heap; the count at a bound is that of
its bucket, or 0 where the bound is none; every bound is a bucket or the bound below
one; the counts and what is left make up the count. It holds whether or not an empty
bucket goes in first (`PadBound`, `AddBound`).

`BucketsCountTheirRange` follows at the end of the loop. `Rounding` says of
`bucket_10` that the values of a bucket are exactly those between its bounds, for
values that are not negative, because rounding up cannot leave a power of ten behind
(`PowersDivide`): all of them have the magnitude of the first. Then a bucket lies at
or below the lower bound of every greater one (`BucketsApart`), no bound comes in
between (`BoundBelow`), and a value lies in the range of its own bucket and in no
other. Assumed (`BucketsAssumption`, `MeasurementAssumption`, `NothingAssumption`): at
least one significant figure, a word that holds 0 and the numbers that callers add,
natural numbers beyond it among those they observe, distributions of `Roundable`
values, and a `Nothing` that is nothing else.

Only model-checked: liveness (`CountDrains`, `CollectingEnds`, `MapIsDrained`,
`ObservationReported`, `DeadEntriesCollected`), which the prover cannot treat. Every
invariant, every action property and both refinements that the runs check are
theorems. The violation runs prove nothing: each is one behaviour.

## 5. What is not modelled

- Floating point: rounding in `bucket_10` and in t-digests where `f64` is inexact,
  NaN and infinities, which digests order as the largest.
- A digest's `Display`, its serialization and `TDigest::new` with all its fields given.
- The `exponential_histogram` crate, gRPC, TLS, generated protocol code.
- Widths: sums of gauges are unbounded (the code lets them roll over,
  `gauge.rs:22`), the count's wrap below zero is what `CountNeverUnderflows`
  excludes; the ends of `i64` in `bucket_10` (`MeasurementAssumption` keeps buckets
  in the word). Sums of a debug build, which panic instead of rolling over.
- Observations of fractions, which are cut to integers; names, dimensions,
  attributes and timestamps of the exported messages.
- What a data point calls its extremes: they are those of the buckets, up to a tenth
  beyond the values (`opentelemetry_downstream.rs:503`).
- Clocks that jump, and a cadence below a millisecond (a division by zero).
- Applications' own sinks, and their panics under `SerializingSink`'s mutex.
- What the downstream gets to do when it is joined with the aggregator on one task
  (`benches/lightstep.rs:58`): no liveness is claimed of it, nor of an RPC.
- A timer that outlives its scope is aggregated with 0 (`MetricsScope` allows it;
  no property is about the time lost). Batches are stamped with the cadence and
  not with the time they cover, so stamped intervals overlap or leave gaps by the
  lateness of a window; `BatchesSpaced` and `WindowEndsOnTime` bound both.

## 6. What is left

The modules above are the plan, most important first: gauge, pipeline with its
abstract specification, window, allocator with its abstract specification, scope,
registry, measurement, digest, introspection. What would come next:
1. Joined futures: whether the downstream is polled beside an aggregator whose queue
   never empties, which needs a model of the executor.
2. `bucket_10` at the ends of a small word, with `f64`'s rounding there.
3. `SerializingSink` with a sink that may panic, as an application's own may.
4. How far an estimate may be off where centroids were joined: `QuantilesAreClose`
   bounds it by the extremes only. `k_to_q` suggests a rank error within a centroid's
   weight, but `DigestsDescribe` cannot bound that weight (see section 3).
