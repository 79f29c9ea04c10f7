------------------------ MODULE StatisticGaugeProofs ------------------------
(***************************************************************************)
(* Proofs about StatisticGauge, for any number of observe() calls, of      *)
(* reporters and of observations.  GaugeInvariant is inductive; the        *)
(* properties the runs check follow from it.                               *)
(***************************************************************************)
EXTENDS StatisticGauge, TLAPS

USE DEF ObserveOps, ResetOps, I64, Totals, StatisticSet

(* The gauge starts out empty, with nobody inside reset(). *)
LEMMA GaugeInit == Init => GaugeInvariant
  <1> SUFFICES ASSUME Init PROVE GaugeInvariant
    OBVIOUS
  <1> USE IntAssumption, NoReporterAssumption DEF Init, EmptyStatisticSet, NoTotals
  <1>1. TypeOK
    BY ValuesAssumption DEF TypeOK
  <1>2. ResetOrdered /\ WindowExact /\ LateOnce
    BY DEF ResetOrdered, WindowExact, LateOnce, Subtracting
  <1>3. CountAccounted /\ SumAccounted /\ ExtremesKept
    BY DEF CountAccounted, SumAccounted, ExtremesKept, Least, Greatest
  <1> QED BY <1>1, <1>2, <1>3 DEF GaugeInvariant

(* An observer's steps: what is put into an atomic is accounted for as late exactly *)
(* when a reporter has read that atomic and not yet subtracted.                     *)
LEMMA ObserverStep ==
  ASSUME GaugeInvariant, NEW o \in Observers, BeginObserve(o) \/ Observe(o)
  PROVE  GaugeInvariant'
  <1> USE IntAssumption, ValuesAssumption
  <1> USE DEF observerVars, reporterVars, historyVars, gaugeVars
  <1>1. CASE BeginObserve(o)
    <2>1. TypeOK'
      BY <1>1 DEF GaugeInvariant, TypeOK, BeginObserve
    <2> QED BY <1>1, <2>1 DEF GaugeInvariant, BeginObserve, ResetOrdered, WindowExact,
              LateOnce, CountAccounted, SumAccounted, ExtremesKept, Subtracting
  <1>2. CASE ObserveCount(o)
    <2>1. TypeOK'
      BY <1>2 DEF GaugeInvariant, TypeOK, ObserveCount, Makes
    <2>2. ResetOrdered'
      BY <1>2 DEF GaugeInvariant, ObserveCount, Makes, ResetOrdered
    <2>3. WindowExact'
      BY <1>2 DEF GaugeInvariant, TypeOK, ObserveCount, Makes, WindowExact, Subtracting
    <2>4. LateOnce'
      BY <1>2 DEF GaugeInvariant, TypeOK, ObserveCount, Makes, LateOnce
    <2>5. CountAccounted'
      BY <1>2 DEF GaugeInvariant, TypeOK, ObserveCount, Makes, CountAccounted
    <2>6. SumAccounted' /\ ExtremesKept'
      BY <1>2 DEF GaugeInvariant, TypeOK, ObserveCount, Makes, SumAccounted, ExtremesKept
    <2> QED BY <2>1, <2>2, <2>3, <2>4, <2>5, <2>6 DEF GaugeInvariant
  <1>3. CASE ObserveSum(o)
    <2>1. TypeOK' /\ value[o] \in Int
      BY <1>3 DEF GaugeInvariant, TypeOK, ObserveSum, Makes
    <2>2. ResetOrdered'
      BY <1>3 DEF GaugeInvariant, ObserveSum, Makes, ResetOrdered
    <2>3. WindowExact'
      BY <1>3, <2>1 DEF GaugeInvariant, TypeOK, ObserveSum, Makes, WindowExact, Subtracting
    <2>4. LateOnce'
      BY <1>3, <2>1 DEF GaugeInvariant, TypeOK, ObserveSum, Makes, LateOnce
    <2>5. CountAccounted' /\ SumAccounted' /\ ExtremesKept'
      BY <1>3, <2>1 DEF GaugeInvariant, TypeOK, ObserveSum, Makes, CountAccounted,
                  SumAccounted, ExtremesKept
    <2> QED BY <2>1, <2>2, <2>3, <2>4, <2>5 DEF GaugeInvariant
  <1>4. CASE ObserveMin(o)
    <2>1. TypeOK'
      BY <1>4 DEF GaugeInvariant, TypeOK, ObserveMin, Makes, Least
    <2>2. ExtremesKept'
      BY <1>4 DEF GaugeInvariant, TypeOK, ObserveMin, Makes, Least, Greatest, ExtremesKept
    <2> QED BY <1>4, <2>1, <2>2 DEF GaugeInvariant, ObserveMin, Makes, ResetOrdered,
              WindowExact, LateOnce, CountAccounted, SumAccounted, Subtracting
  <1>5. CASE ObserveMax(o)
    <2>1. TypeOK'
      BY <1>5 DEF GaugeInvariant, TypeOK, ObserveMax, Makes, Greatest
    <2>2. ExtremesKept'
      BY <1>5 DEF GaugeInvariant, TypeOK, ObserveMax, Makes, Least, Greatest, ExtremesKept
    <2> QED BY <1>5, <2>1, <2>2 DEF GaugeInvariant, ObserveMax, Makes, ResetOrdered,
              WindowExact, LateOnce, CountAccounted, SumAccounted, Subtracting
  <1> QED BY <1>1, <1>2, <1>3, <1>4, <1>5 DEF Observe

(* Entering reset(): only the holder of the mutex reads, and nothing is late yet.    *)
LEMMA ReadStep ==
  ASSUME GaugeInvariant, NEW r \in Reporters,
         Lock(r) \/ ReadCount(r) \/ ReadSum(r) \/ Unlock(r)
  PROVE  GaugeInvariant'
  <1> USE IntAssumption, NoReporterAssumption
  <1> USE DEF observerVars, historyVars, gaugeVars
  <1>0. /\ holder = NoReporter => \A q \in Reporters : left[q] = {}
        /\ left[r] # {} => \A q \in Reporters : q # r => left[q] = {}
    BY DEF GaugeInvariant, ResetOrdered
  <1>1. CASE Lock(r)
    <2>1. TypeOK' /\ ResetOrdered'
      BY <1>0, <1>1 DEF GaugeInvariant, TypeOK, Lock, ResetOrdered
    <2>2. WindowExact'
      BY <1>0, <1>1 DEF GaugeInvariant, TypeOK, Lock, WindowExact, Subtracting
    <2> QED BY <1>1, <2>1, <2>2 DEF GaugeInvariant, Lock, LateOnce, CountAccounted,
              SumAccounted, ExtremesKept
  <1>2. CASE ReadCount(r)
    <2>1. TypeOK' /\ ResetOrdered'
      BY <1>0, <1>2 DEF GaugeInvariant, TypeOK, ReadCount, ResetOrdered
    <2>2. late.count = 0 /\ late.sum = 0
      <3>1. left[r] = {"readCount"} /\ \A q \in Reporters : q # r => left[q] = {}
        BY <1>0, <1>2 DEF GaugeInvariant, ReadCount, ResetOrdered
      <3>2. ~Subtracting("count") /\ ~Subtracting("sum")
        BY <3>1 DEF Subtracting
      <3> QED BY <3>2 DEF GaugeInvariant, WindowExact
    <2>3. WindowExact'
      BY <1>0, <1>2, <2>2 DEF GaugeInvariant, TypeOK, ReadCount, WindowExact, Subtracting, LateOnce
    <2> QED BY <1>2, <2>1, <2>3 DEF GaugeInvariant, ReadCount, LateOnce, CountAccounted,
              SumAccounted, ExtremesKept
  <1>3. CASE ReadSum(r)
    <2>1. TypeOK' /\ ResetOrdered'
      BY <1>0, <1>3 DEF GaugeInvariant, TypeOK, ReadSum, ResetOrdered
    <2>2. late.sum = 0
      BY <1>0, <1>3 DEF GaugeInvariant, TypeOK, ReadSum, ResetOrdered, WindowExact, Subtracting
    <2>3. WindowExact'
      BY <1>0, <1>3, <2>2 DEF GaugeInvariant, TypeOK, ReadSum, WindowExact, Subtracting
    <2> QED BY <1>3, <2>1, <2>3 DEF GaugeInvariant, ReadSum, LateOnce, CountAccounted,
              SumAccounted, ExtremesKept
  <1>4. CASE Unlock(r)
    <2>1. TypeOK' /\ ResetOrdered'
      BY <1>0, <1>4 DEF GaugeInvariant, TypeOK, Unlock, ResetOrdered, EmptyStatisticSet
    <2>2. WindowExact'
      BY <1>0, <1>4 DEF GaugeInvariant, TypeOK, Unlock, WindowExact, Subtracting
    <2> QED BY <1>4, <2>1, <2>2 DEF GaugeInvariant, Unlock, LateOnce, CountAccounted,
              SumAccounted, ExtremesKept
  <1> QED BY <1>1, <1>2, <1>3, <1>4

(* Taking a value out of an atomic: what was late becomes reported twice.            *)
LEMMA TakeStep ==
  ASSUME GaugeInvariant, NEW r \in Reporters,
         ResetMin(r) \/ ResetMax(r) \/ SubtractSum(r) \/ SubtractCount(r)
  PROVE  GaugeInvariant'
  <1> USE IntAssumption, NoReporterAssumption
  <1> USE DEF observerVars
  <1>0. left[r] # {} => \A q \in Reporters : q # r => left[q] = {}
    BY DEF GaugeInvariant, ResetOrdered
  <1>1. CASE ResetMin(r)
    <2>1. TypeOK' /\ ResetOrdered'
      BY <1>1 DEF GaugeInvariant, TypeOK, ResetMin, Takes, ResetOrdered, Least
    <2>2. WindowExact'
      BY <1>1 DEF GaugeInvariant, TypeOK, ResetMin, Takes, WindowExact, Subtracting
    <2>3. ExtremesKept'
      BY <1>1 DEF GaugeInvariant, TypeOK, ResetMin, Takes, ExtremesKept, Least, Greatest
    <2> QED BY <1>1, <2>1, <2>2, <2>3 DEF GaugeInvariant, TypeOK, ResetMin, Takes, LateOnce,
              CountAccounted, SumAccounted
  <1>2. CASE ResetMax(r)
    <2>1. TypeOK' /\ ResetOrdered'
      BY <1>2 DEF GaugeInvariant, TypeOK, ResetMax, Takes, ResetOrdered, Greatest
    <2>2. WindowExact'
      BY <1>2 DEF GaugeInvariant, TypeOK, ResetMax, Takes, WindowExact, Subtracting
    <2>3. ExtremesKept'
      BY <1>2 DEF GaugeInvariant, TypeOK, ResetMax, Takes, ExtremesKept, Least, Greatest
    <2> QED BY <1>2, <2>1, <2>2, <2>3 DEF GaugeInvariant, TypeOK, ResetMax, Takes, LateOnce,
              CountAccounted, SumAccounted
  <1>3. CASE SubtractSum(r)
    <2>7. /\ sum - readSum[r] \in Int
          /\ [told EXCEPT !.sum = @ + sum] \in StatisticSet
          /\ [twice EXCEPT !.sum = @ + late.sum] \in Totals
          /\ [late EXCEPT !.sum = 0] \in Totals
      BY DEF GaugeInvariant, TypeOK
    <2>8. [report EXCEPT ![r].sum = sum] \in [Reporters -> StatisticSet]
      BY DEF GaugeInvariant, TypeOK
    <2>1. TypeOK'
      BY <1>3, <2>7, <2>8 DEF GaugeInvariant, TypeOK, SubtractSum, Takes
    <2>4. ResetOrdered'
      BY <1>3 DEF GaugeInvariant, TypeOK, SubtractSum, Takes, ResetOrdered
    <2>2. WindowExact'
      BY <1>0, <1>3 DEF GaugeInvariant, TypeOK, SubtractSum, Takes, WindowExact, Subtracting
    <2>3. SumAccounted'
      BY <1>3 DEF GaugeInvariant, TypeOK, SubtractSum, Takes, WindowExact, SumAccounted
    <2>5. /\ UNCHANGED <<count, seen, min, max>>
          /\ told' = [told EXCEPT !.sum = @ + sum]
          /\ twice' = [twice EXCEPT !.sum = @ + late.sum]
          /\ late' = [late EXCEPT !.sum = 0]
      BY <1>3 DEF SubtractSum, Takes
    <2>6. LateOnce' /\ CountAccounted' /\ ExtremesKept'
      BY <2>5 DEF GaugeInvariant, TypeOK, LateOnce, CountAccounted, ExtremesKept
    <2> QED BY <2>1, <2>2, <2>3, <2>4, <2>6 DEF GaugeInvariant
  <1>4. CASE SubtractCount(r)
    <2>4. count - readCount[r] \in Nat
      BY <1>4 DEF GaugeInvariant, TypeOK, SubtractCount, Takes, WindowExact
    <2>5. twice.count + late.count \in Nat /\ told.count + count \in Nat
      BY DEF GaugeInvariant, TypeOK
    <2>6. TypeOK'
      BY <1>4, <2>4, <2>5 DEF GaugeInvariant, TypeOK, SubtractCount, Takes
    <2>7. ResetOrdered'
      BY <1>4 DEF GaugeInvariant, TypeOK, SubtractCount, Takes, ResetOrdered
    <2>1. TypeOK' /\ ResetOrdered'
      BY <2>6, <2>7
    <2>2. WindowExact'
      BY <1>0, <1>4 DEF GaugeInvariant, TypeOK, SubtractCount, Takes, WindowExact, Subtracting
    <2>3. CountAccounted' /\ LateOnce'
      BY <1>4 DEF GaugeInvariant, TypeOK, SubtractCount, Takes, WindowExact, CountAccounted, LateOnce
    <2> QED BY <1>4, <2>1, <2>2, <2>3 DEF GaugeInvariant, TypeOK, SubtractCount, Takes,
              SumAccounted, ExtremesKept
  <1> QED BY <1>1, <1>2, <1>3, <1>4

(* GaugeInvariant holds in every reachable state: in particular, the accounts of the *)
(* count and of the sum balance and the extremes are kept.                           *)
THEOREM GaugeInvariantHolds == Spec => []GaugeInvariant
  <1>1. GaugeInvariant /\ [Next]_vars => GaugeInvariant'
    <2> SUFFICES ASSUME GaugeInvariant, [Next]_vars PROVE GaugeInvariant'
      OBVIOUS
    <2>1. ASSUME NEW o \in Observers, BeginObserve(o) \/ Observe(o) PROVE GaugeInvariant'
      BY <2>1, ObserverStep
    <2>2. ASSUME NEW r \in Reporters, Lock(r) \/ Reset(r) PROVE GaugeInvariant'
      BY <2>2, ReadStep, TakeStep DEF Reset
    <2>3. CASE UNCHANGED vars
      BY <2>3 DEF vars, gaugeVars, observerVars, reporterVars, historyVars, GaugeInvariant,
           TypeOK, ResetOrdered, WindowExact, LateOnce, CountAccounted, SumAccounted,
           ExtremesKept, Subtracting
    <2> QED BY <2>1, <2>2, <2>3 DEF Next
  <1> QED BY GaugeInit, <1>1, PTL DEF Spec

(* The variables keep their types. *)
THEOREM TypeCorrect == Spec => []TypeOK
  <1>1. GaugeInvariant => TypeOK
    BY DEF GaugeInvariant
  <1> QED BY <1>1, GaugeInvariantHolds, PTL

(* reset()'s fetch_sub(count) never wraps the u64, however many calls overlap. *)
THEOREM NeverUnderflows == Spec => []CountNeverUnderflows
  <1>1. GaugeInvariant => CountNeverUnderflows
    BY DEF GaugeInvariant, TypeOK, WindowExact, LateOnce, CountNeverUnderflows
  <1> QED BY <1>1, GaugeInvariantHolds, PTL

(* No observation is counted more than twice in all the reports together. *)
THEOREM AtMostTwice == Spec => []CountedAtMostTwice
  <1>1. GaugeInvariant => CountedAtMostTwice
    BY DEF GaugeInvariant, TypeOK, LateOnce, CountAccounted, CountedAtMostTwice
  <1> QED BY <1>1, GaugeInvariantHolds, PTL

(* What observers counted and what reports and gauge hold differ by exactly the late *)
(* observations; nothing is lost.                                                    *)
THEOREM NothingUncounted == Spec => []TotalsAccounted
  <1>1. GaugeInvariant => TotalsAccounted
    BY DEF GaugeInvariant, TotalsAccounted
  <1> QED BY <1>1, GaugeInvariantHolds, PTL

(* Minimum and maximum of all observations survive every interleaving of resets. *)
THEOREM ExtremesSurvive == Spec => []ExtremesKept
  <1>1. GaugeInvariant => ExtremesKept
    BY DEF GaugeInvariant
  <1> QED BY <1>1, GaugeInvariantHolds, PTL
=============================================================================
