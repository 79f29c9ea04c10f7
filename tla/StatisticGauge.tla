--------------------------- MODULE StatisticGauge ---------------------------
(***************************************************************************)
(* StatisticSetGauge (goodmetrics/src/gauge.rs): four Relaxed atomics that *)
(* any number of threads observe() into while one reporter at a time       *)
(* reset()s them under the gauge_groups mutex of GaugeFactory.             *)
(*                                                                         *)
(* Every read-modify-write of an atomic is one step.  The ordering is      *)
(* Relaxed, so the RMWs one call makes to DIFFERENT atomics may take       *)
(* effect in any order; only data and control dependencies order them      *)
(* (reset() subtracts what it read, and goes on only if the count it read  *)
(* is not 0).  A member of Observers is one running observe() call, not a  *)
(* thread: two calls of a thread may overlap in effect.                    *)
(*                                                                         *)
(* Arithmetic is unbounded: the u64 count of the code wraps below exactly  *)
(* when the count here becomes negative (CountNeverUnderflows), and above  *)
(* only after 2^64 observations; gauge.rs:21-23 owns up to a sum that      *)
(* rolls over.                                                             *)
(***************************************************************************)
EXTENDS Integers, FiniteSets

CONSTANTS Observers,       \* observe() calls that may run at once
          Reporters,       \* report_gauges_forever tasks on clones of one factory
          NoReporter,      \* the mutex is free
          Values,          \* what is observed
          I64Min, I64Max,  \* i64::MIN and i64::MAX
          MaxObservations  \* bound: observe() calls of a behaviour

ASSUME NoReporterAssumption == NoReporter \notin Reporters
ASSUME IntAssumption == /\ I64Min \in Int
                        /\ I64Max \in Int
                        /\ I64Min < I64Max
ASSUME ValuesAssumption == Values \subseteq I64Min..I64Max
ASSUME MaxObservationsAssumption == MaxObservations \in Nat

VARIABLES
  count, sum, min, max,    \* the atomics of the gauge
  todo,                    \* RMWs each running observe() call has still to make
  value,                   \* what each call observes
  holder,                  \* who holds the gauge_groups mutex
  left,                    \* RMWs each running reset() has still to make
  readCount, readSum,      \* locals `count` and `sum` of reset()
  report,                  \* the StatisticSet reset() is building
  started,                 \* observe() calls made so far
  seen,                    \* history: what observers have put into the atomics
  told,                    \* history: what reporters have taken out of them
  late,                    \* history: put in between a reporter's read and its subtraction
  twice                    \* history: late observations of the finished resets

gaugeVars    == <<count, sum, min, max>>
observerVars == <<todo, value, started>>
reporterVars == <<holder, left, readCount, readSum, report>>
historyVars  == <<seen, told, late, twice>>
vars == <<gaugeVars, observerVars, reporterVars, historyVars>>

ObserveOps == {"count", "sum", "min", "max"}
ResetOps   == ObserveOps \cup {"readCount", "readSum"}
I64        == I64Min..I64Max
Totals     == [count : Nat, sum : Int]
StatisticSet == [count : Nat, sum : Int, min : I64, max : I64]

Least(a, b)    == IF a <= b THEN a ELSE b
Greatest(a, b) == IF a >= b THEN a ELSE b

EmptyStatisticSet == [count |-> 0, sum |-> 0, min |-> I64Max, max |-> I64Min]
NoTotals == [count |-> 0, sum |-> 0]

(* Counts are unsigned, gauge.rs:27. *)
TypeOK ==
  /\ count \in Nat /\ sum \in Int /\ min \in I64 /\ max \in I64
  /\ todo \in [Observers -> SUBSET ObserveOps]
  /\ value \in [Observers -> Values]
  /\ started \in Nat
  /\ holder \in Reporters \cup {NoReporter}
  /\ left \in [Reporters -> SUBSET ResetOps]
  /\ readCount \in [Reporters -> Nat] /\ readSum \in [Reporters -> Int]
  /\ report \in [Reporters -> StatisticSet]
  /\ seen \in StatisticSet /\ told \in StatisticSet
  /\ late \in Totals /\ twice \in Totals

Init ==
  /\ count = 0 /\ sum = 0 /\ min = I64Max /\ max = I64Min
  /\ todo = [o \in Observers |-> {}]
  /\ value \in {[o \in Observers |-> v] : v \in Values}
  /\ started = 0
  /\ holder = NoReporter
  /\ left = [r \in Reporters |-> {}]
  /\ readCount = [r \in Reporters |-> 0]
  /\ readSum = [r \in Reporters |-> 0]
  /\ report = [r \in Reporters |-> EmptyStatisticSet]
  /\ seen = EmptyStatisticSet /\ told = EmptyStatisticSet
  /\ late = NoTotals /\ twice = NoTotals
-----------------------------------------------------------------------------
(* observe(value): the call begins, then makes its four RMWs.              *)

BeginObserve(o) ==
  /\ todo[o] = {}
  /\ started < MaxObservations
  /\ \E v \in Values : value' = [value EXCEPT ![o] = v]
  /\ todo' = [todo EXCEPT ![o] = ObserveOps]
  /\ started' = started + 1
  /\ UNCHANGED <<gaugeVars, reporterVars, historyVars>>

Makes(o, op) ==
  /\ op \in todo[o]
  /\ todo' = [todo EXCEPT ![o] = @ \ {op}]
  /\ UNCHANGED <<value, started, reporterVars>>

(* A reporter has read the atomic and has not yet subtracted what it read. *)
Subtracting(op) == \E r \in Reporters : op \in left[r]

ObserveCount(o) ==
  /\ Makes(o, "count")
  /\ count' = count + 1
  /\ seen' = [seen EXCEPT !.count = @ + 1]
  /\ late' = IF Subtracting("count") THEN [late EXCEPT !.count = @ + 1] ELSE late
  /\ UNCHANGED <<sum, min, max, told, twice>>

ObserveSum(o) ==
  /\ Makes(o, "sum")
  /\ sum' = sum + value[o]
  /\ seen' = [seen EXCEPT !.sum = @ + value[o]]
  /\ late' = IF Subtracting("sum") THEN [late EXCEPT !.sum = @ + value[o]] ELSE late
  /\ UNCHANGED <<count, min, max, told, twice>>

ObserveMin(o) ==
  /\ Makes(o, "min")
  /\ min' = Least(min, value[o])
  /\ seen' = [seen EXCEPT !.min = Least(@, value[o])]
  /\ UNCHANGED <<count, sum, max, told, late, twice>>

ObserveMax(o) ==
  /\ Makes(o, "max")
  /\ max' = Greatest(max, value[o])
  /\ seen' = [seen EXCEPT !.max = Greatest(@, value[o])]
  /\ UNCHANGED <<count, sum, min, told, late, twice>>

Observe(o) ==
  \/ ObserveCount(o)
  \/ ObserveSum(o)
  \/ ObserveMin(o)
  \/ ObserveMax(o)
-----------------------------------------------------------------------------
(* aggregate_and_reset(): lock gauge_groups, reset() the gauge, unlock.    *)

(* Faulty variant: reset() without the mutex. *)
LockUnguarded(r) ==
  /\ left[r] = {}
  /\ holder' = r
  /\ left' = [left EXCEPT ![r] = {"readCount"}]
  /\ UNCHANGED <<gaugeVars, observerVars, historyVars, readCount, readSum, report>>

Lock(r) ==
  /\ holder = NoReporter
  /\ holder' = r
  /\ left' = [left EXCEPT ![r] = {"readCount"}]
  /\ UNCHANGED <<gaugeVars, observerVars, historyVars, readCount, readSum, report>>

(* Faulty variant: a count of 1 is taken for an empty gauge. *)
ReadCountOffByOne(r) ==
  /\ "readCount" \in left[r]
  /\ readCount' = [readCount EXCEPT ![r] = count]
  /\ left' = [left EXCEPT ![r] = IF count <= 1 THEN {}
                                 ELSE {"readSum", "min", "max", "count"}]
  /\ UNCHANGED <<gaugeVars, observerVars, historyVars, holder, readSum, report>>

ReadCount(r) ==
  /\ "readCount" \in left[r]
  /\ readCount' = [readCount EXCEPT ![r] = count]
  /\ left' = [left EXCEPT ![r] = IF count = 0 THEN {}
                                 ELSE {"readSum", "min", "max", "count"}]
  /\ UNCHANGED <<gaugeVars, observerVars, historyVars, holder, readSum, report>>

ReadSum(r) ==
  /\ "readSum" \in left[r]
  /\ readSum' = [readSum EXCEPT ![r] = sum]
  /\ left' = [left EXCEPT ![r] = (@ \ {"readSum"}) \cup {"sum"}]
  /\ UNCHANGED <<gaugeVars, observerVars, historyVars, holder, readCount, report>>

Takes(r, op) ==
  /\ op \in left[r]
  /\ left' = [left EXCEPT ![r] = @ \ {op}]
  /\ UNCHANGED <<observerVars, holder, readCount, readSum, seen>>

(* Faulty variant: the minimum is stored over, so the old one is read apart from it. *)
ResetMinForgetting(r) ==
  /\ Takes(r, "min")
  /\ min' = I64Max
  /\ UNCHANGED <<count, sum, max, told, late, twice, report>>

ResetMin(r) ==
  /\ Takes(r, "min")
  /\ min' = I64Max
  /\ report' = [report EXCEPT ![r].min = min]
  /\ told' = [told EXCEPT !.min = Least(@, min)]
  /\ UNCHANGED <<count, sum, max, late, twice>>

ResetMax(r) ==
  /\ Takes(r, "max")
  /\ max' = I64Min
  /\ report' = [report EXCEPT ![r].max = max]
  /\ told' = [told EXCEPT !.max = Greatest(@, max)]
  /\ UNCHANGED <<count, sum, min, late, twice>>

SubtractSum(r) ==
  /\ Takes(r, "sum")
  /\ sum' = sum - readSum[r]
  /\ report' = [report EXCEPT ![r].sum = sum]
  /\ told' = [told EXCEPT !.sum = @ + sum]
  /\ twice' = [twice EXCEPT !.sum = @ + late.sum]
  /\ late' = [late EXCEPT !.sum = 0]
  /\ UNCHANGED <<count, min, max>>

(* Faulty variants: store(0) in place of fetch_sub(count), and nothing subtracted. *)
SubtractCountStoring(r) ==
  /\ Takes(r, "count")
  /\ count' = 0
  /\ report' = [report EXCEPT ![r].count = readCount[r]]
  /\ told' = [told EXCEPT !.count = @ + readCount[r]]
  /\ twice' = [twice EXCEPT !.count = @ + late.count]
  /\ late' = [late EXCEPT !.count = 0]
  /\ UNCHANGED <<sum, min, max>>

SubtractCountNot(r) ==
  /\ Takes(r, "count")
  /\ report' = [report EXCEPT ![r].count = count]
  /\ told' = [told EXCEPT !.count = @ + count]
  /\ twice' = [twice EXCEPT !.count = @ + late.count]
  /\ late' = [late EXCEPT !.count = 0]
  /\ UNCHANGED gaugeVars

SubtractCount(r) ==
  /\ Takes(r, "count")
  /\ count' = count - readCount[r]
  /\ report' = [report EXCEPT ![r].count = count]
  /\ told' = [told EXCEPT !.count = @ + count]
  /\ twice' = [twice EXCEPT !.count = @ + late.count]
  /\ late' = [late EXCEPT !.count = 0]
  /\ UNCHANGED <<sum, min, max>>

(* Faulty variant: the guard of the mutex is bound to _, which releases it at once. *)
UnlockAtOnce(r) ==
  /\ holder = r
  /\ holder' = NoReporter
  /\ UNCHANGED <<gaugeVars, observerVars, historyVars, left, readCount, readSum, report>>

(* reset() has returned (None after a count of 0) and the mutex is released. *)
Unlock(r) ==
  /\ holder = r
  /\ left[r] = {}
  /\ holder' = NoReporter
  /\ readCount' = [readCount EXCEPT ![r] = 0]
  /\ readSum' = [readSum EXCEPT ![r] = 0]
  /\ report' = [report EXCEPT ![r] = EmptyStatisticSet]
  /\ UNCHANGED <<gaugeVars, observerVars, historyVars, left>>

Reset(r) ==
  \/ ReadCount(r)
  \/ ReadSum(r)
  \/ ResetMin(r)
  \/ ResetMax(r)
  \/ SubtractSum(r)
  \/ SubtractCount(r)
  \/ Unlock(r)
-----------------------------------------------------------------------------
Next ==
  \/ \E o \in Observers : BeginObserve(o) \/ Observe(o)
  \/ \E r \in Reporters : Lock(r) \/ Reset(r)

Spec == Init /\ [][Next]_vars

(***************************************************************************)
(* A thread inside observe() or reset() goes on: neither waits for         *)
(* anything.  The interval of report_gauges_forever ticks for ever, so     *)
(* some reporter always comes back for the free mutex.  Nobody has to      *)
(* observe.                                                                *)
(***************************************************************************)
FairSpec ==
  /\ Spec
  /\ \A o \in Observers : WF_vars(Observe(o))
  /\ \A r \in Reporters : WF_vars(Reset(r))
  /\ WF_vars(\E r \in Reporters : Lock(r))
-----------------------------------------------------------------------------
(* Properties *)

(* fetch_sub never takes more than the count holds: the u64 cannot wrap, although  *)
(* the amount was read some steps earlier.  It rests on the mutex alone.           *)
CountNeverUnderflows ==
  /\ count >= 0
  /\ \A r \in Reporters : "count" \in left[r] => readCount[r] <= count

(* Nothing put into an atomic is lost, and what is reported again is exactly what  *)
(* landed between a reset's read of that atomic and its subtraction.               *)
CountAccounted == told.count + count = seen.count + twice.count
SumAccounted   == told.sum + sum = seen.sum + twice.sum

(* Counts and sums, each with a window of its own, add up in all the reports.      *)
TotalsAccounted == CountAccounted /\ SumAccounted

(* However resets and observations interleave, an observation is counted at most   *)
(* twice in all the reports.                                                       *)
CountedAtMostTwice == told.count + count <= 2 * seen.count

(* The extremes are never lost: what observers put in was reported or is still     *)
(* there, though a reset may put min and max into a later report than the count.   *)
ExtremesKept ==
  /\ Least(told.min, min) = seen.min
  /\ Greatest(told.max, max) = seen.max

(* Once observers stop, the count drains: no observation stays unreported.         *)
CountDrains ==
  <>[](\A o \in Observers : todo[o] = {}) => <>[](count = 0)

(* statistic_set.rs:6: "Minimum observed value" - the minimum of a returned report *)
(* is a value somebody observed.                                                   *)
ReportedMinimumWasObserved ==
  \A r \in Reporters :
    holder = r /\ left[r] = {} /\ report[r].count > 0 => report[r].min \in Values
-----------------------------------------------------------------------------
(* The inductive invariant behind the properties above *)

(* Only the holder of the mutex is inside reset(), and its remaining RMWs respect  *)
(* the data dependencies of the code.                                              *)
ResetOrdered ==
  \A r \in Reporters :
    /\ left[r] # {} => holder = r
    /\ "readCount" \in left[r] => left[r] = {"readCount"}
    /\ "sum" \in left[r] => "readSum" \notin left[r]

(* While a reporter has still to subtract, the atomic holds what the reporter read *)
(* and the late observations; otherwise nothing counts as late.                    *)
WindowExact ==
  /\ \A r \in Reporters :
       /\ "count" \in left[r] => readCount[r] > 0 /\ count = readCount[r] + late.count
       /\ "sum" \in left[r] => sum = readSum[r] + late.sum
  /\ ~Subtracting("count") => late.count = 0
  /\ ~Subtracting("sum") => late.sum = 0

(* An observation is late in one reset only.                                       *)
LateOnce ==
  /\ count >= 0
  /\ late.count >= 0
  /\ twice.count + late.count <= seen.count

GaugeInvariant ==
  /\ TypeOK
  /\ ResetOrdered
  /\ WindowExact
  /\ LateOnce
  /\ CountAccounted
  /\ SumAccounted
  /\ ExtremesKept
=============================================================================
