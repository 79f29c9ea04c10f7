---------------------- MODULE AggregationWindowProofs ----------------------
(* What AggregationWindow keeps for every cadence, poll interval, queue and *)
(* delay.                                                                   *)
EXTENDS AggregationWindow, TLAPS

LEMMA PhaseStaysInRange ==
  ASSUME NEW p \in Nat
  PROVE  p % Cadence \in 0..(Cadence - 1)
<1>1. Cadence \in Int /\ Cadence > 0
  BY TimesAssumption, SMT
<1> QED
  BY <1>1, Z3

LEMMA InitInvariant == Init => WindowInvariant
<1> SUFFICES ASSUME Init PROVE WindowInvariant
  OBVIOUS
<1>1. mapped \in BOOLEAN
  BY DEF Init
<1>2. TypeOK
  BY <1>1, TimesAssumption, SMT DEF Init, TypeOK, Steps, Far
<1>3. WaitsLongEnough /\ WindowNotShort /\ BatchesSpaced
  BY SMT DEF Init, WaitsLongEnough, WindowNotShort, BatchesSpaced
<1>4. StampedAfterEmit
  BY SMT DEF Init, StampedAfterEmit
<1> QED
  BY <1>1, <1>2, <1>3, <1>4 DEF WindowInvariant

(* One step of the aggregator, of a producer or of time keeps the invariant. *)
LEMMA NextInvariant == WindowInvariant /\ [Next]_vars => WindowInvariant'
<1> SUFFICES ASSUME WindowInvariant, [Next]_vars
             PROVE  WindowInvariant'
  OBVIOUS
<1> USE TimesAssumption
<1> USE DEF WindowInvariant, TypeOK, WaitsLongEnough, StampedAfterEmit,
            WindowNotShort, BatchesSpaced, Steps, Far, Goes
<1>1. CASE Tick
  <2>1. phase' \in 0..(Cadence - 1)
    BY <1>1, PhaseStaysInRange, SMT DEF Tick
  <2> QED
    BY <1>1, <2>1, SMT DEF Tick, Shorter, dataVars
<1>2. CASE Arrive
  BY <1>2, SMT DEF Arrive, taskVars
<1>3. CASE Align
  BY <1>3, SMT DEF Align, dataVars
<1>4. CASE Begin
  BY <1>4, SMT DEF Begin, dataVars
<1>5. CASE Look
  BY <1>5, SMT DEF Look, dataVars
<1>6. CASE Receive
  BY <1>6, SMT DEF Receive
<1>7. CASE Sleep
  BY <1>7, SMT DEF Sleep, Shorter, dataVars
<1>8. CASE Wake
  BY <1>8, SMT DEF Wake, dataVars
<1>9. CASE TimeIsUp
  BY <1>9, SMT DEF TimeIsUp, dataVars
<1>10. CASE Emit
  BY <1>10, SMT DEF Emit, dataVars
<1>11. CASE Stamp
  <2>1. sinceBatch' = 0 \/ sinceBatch' = sinceBatch
    BY <1>11 DEF Stamp
  <2>2. mapped' = FALSE
    BY <1>11 DEF Stamp
  <2>3. mapped' \in BOOLEAN
    BY <2>2, Zenon
  <2>4. elapsed <= MaxLag /\ elapsed \in Nat /\ MaxLag \in Nat
    BY <1>11, SMT DEF Stamp
  <2>5. /\ step' = "look" /\ lag' = 0 /\ phase' = phase
        /\ UNCHANGED <<waitFor, sleepFor, queued, elapsed>>
    BY <1>11 DEF Stamp
  <2>6. sinceBatch' \in 0..Far /\ sinceBatch' >= elapsed - MaxLag
    BY <2>1, <2>4, SMT
  <2>7. sleepFor = 0
    BY <1>11 DEF Stamp
  <2> QED
    BY <2>3, <2>4, <2>5, <2>6, <2>7, SMT
<1>12. CASE UNCHANGED vars
  BY <1>12, SMT DEF vars, taskVars, dataVars
<1> QED
  BY <1>1, <1>2, <1>3, <1>4, <1>5, <1>6, <1>7, <1>8, <1>9, <1>10, <1>11, <1>12
     DEF Next, AggregateMetricsForever

(* The inductive invariant holds in every reachable state of the aggregator. *)
THEOREM WindowInvariantHolds == Spec => []WindowInvariant
BY InitInvariant, NextInvariant, PTL DEF Spec

(* The aggregator's clock variables keep their types and bounds. *)
THEOREM TypeCorrect == Spec => []TypeOK
<1>1. WindowInvariant => TypeOK
  BY DEF WindowInvariant
<1> QED
  BY <1>1, WindowInvariantHolds, PTL

(* No window of the aggregator is shorter than the cadence, for any poll interval *)
(* and however records arrive.                                                    *)
THEOREM WindowsAreNotShort == Spec => []WindowNotShort
<1>1. WindowInvariant => WindowNotShort
  BY DEF WindowInvariant
<1> QED
  BY <1>1, WindowInvariantHolds, PTL

(* The timestamps of successive batches are a cadence apart, less at most MaxLag. *)
THEOREM BatchesAreSpaced == Spec => []BatchesSpaced
<1>1. WindowInvariant => BatchesSpaced
  BY DEF WindowInvariant
<1> QED
  BY <1>1, WindowInvariantHolds, PTL
-----------------------------------------------------------------------------
(* The inductive invariant behind WindowEndsOnTime.  After k sleeps the window is   *)
(* late by at most the delays of 2 * k steps and of the present one, and as many    *)
(* sleeps are left as what is still to wait for takes.                              *)
Timely ==
  /\ step = "poll" => \E k \in 0..Sleeps :
       /\ waitFor <= (Sleeps - k) * PollInterval
       /\ elapsed + waitFor <= Cadence + 2 * (k * MaxLag) + lag
  /\ step = "sleeping" => \E k \in 1..Sleeps :
       /\ waitFor <= (Sleeps - k) * PollInterval
       /\ elapsed + sleepFor + waitFor <= Cadence + 2 * (k * MaxLag) - MaxLag + lag
  /\ step = "look" => elapsed <= Cadence + 2 * (Sleeps * MaxLag) + MaxLag + lag
  /\ step = "emit" => elapsed <= Cadence + 2 * (Sleeps * MaxLag) + 2 * MaxLag + lag

(* The sleeps of a window make up the cadence. *)
LEMMA SleepsSuffice == Sleeps \in Nat /\ Cadence <= Sleeps * PollInterval
<1> DEFINE a == Cadence + PollInterval - 1
<1>1. /\ PollInterval \in Int /\ PollInterval > 0
      /\ a \in Nat /\ a = Cadence + PollInterval - 1 /\ Cadence \in Int
  BY TimesAssumption
<1> HIDE DEF a
<1>2. a \div PollInterval \in Nat /\ a - PollInterval < (a \div PollInterval) * PollInterval
  BY <1>1, Z3
<1> QED
  BY <1>1, <1>2 DEF Sleeps, a

(* Delays add up. *)
LEMMA DelaysGrow ==
  ASSUME NEW k \in Nat, NEW n \in Nat, k <= n, NEW p \in Nat
  PROVE  /\ k * p \in Nat /\ k * p <= n * p
         /\ (k + 1) * p = k * p + p
         /\ (n - (k + 1)) * p = (n - k) * p - p
<1>1. (n - k) * p \in Nat /\ k * p \in Nat
  BY Z3
<1>2. n * p = (n - k) * p + k * p
  BY Z3
<1>3. (k + 1) * p = k * p + p /\ (n - (k + 1)) * p = (n - k) * p - p
  BY Z3
<1> QED
  BY <1>1, <1>2, <1>3

LEMMA NextTimely == WindowInvariant /\ Timely /\ [Next]_vars => Timely'
<1> SUFFICES ASSUME WindowInvariant, Timely, [Next]_vars
             PROVE  Timely'
  OBVIOUS
<1> DEFINE late == Sleeps * MaxLag
<1>1. /\ Sleeps \in Nat /\ MaxLag \in Nat /\ Cadence \in Nat /\ PollInterval \in Nat \ {0}
      /\ elapsed \in Nat /\ waitFor \in Nat /\ sleepFor \in Nat /\ lag \in 0..MaxLag
  BY SleepsSuffice, TimesAssumption DEF WindowInvariant, TypeOK
<1>2. late \in Nat
  BY <1>1, DelaysGrow
<1>3. ASSUME NEW k \in 0..Sleeps
      PROVE  k * MaxLag \in Nat /\ k * MaxLag <= late /\ (Sleeps - k) * PollInterval \in Nat
  BY <1>1, DelaysGrow
<1>4. CASE Tick
  <2>1. step' = step /\ waitFor' = waitFor
    BY <1>4 DEF Tick
  <2>2. step \in {"poll", "sleeping", "look", "emit"} => elapsed' = elapsed + 1
    BY <1>4 DEF Tick
  <2>3. \/ sleepFor > 0 /\ sleepFor' = sleepFor - 1 /\ lag' = lag
        \/ sleepFor = 0 /\ sleepFor' = 0 /\ lag' = lag + 1
    BY <1>4 DEF Tick
  <2>4. step \notin {"aligning", "sleeping"} => sleepFor = 0
    BY DEF WindowInvariant, WaitsLongEnough
  <2>5. ASSUME step = "poll" PROVE Timely'
    <3>1. PICK k \in 0..Sleeps : /\ waitFor <= (Sleeps - k) * PollInterval
                                 /\ elapsed + waitFor <= Cadence + 2 * (k * MaxLag) + lag
      BY <2>5 DEF Timely
    <3>2. elapsed' + waitFor' <= Cadence + 2 * (k * MaxLag) + lag'
      BY <1>1, <1>3, <2>1, <2>2, <2>3, <2>4, <2>5, <3>1
    <3> QED
      BY <2>1, <2>5, <3>1, <3>2 DEF Timely
  <2>6. ASSUME step = "sleeping" PROVE Timely'
    <3>1. PICK k \in 1..Sleeps :
            /\ waitFor <= (Sleeps - k) * PollInterval
            /\ elapsed + sleepFor + waitFor <= Cadence + 2 * (k * MaxLag) - MaxLag + lag
      BY <2>6 DEF Timely
    <3>2. elapsed' + sleepFor' + waitFor' <= Cadence + 2 * (k * MaxLag) - MaxLag + lag'
      BY <1>1, <1>3, <2>1, <2>2, <2>3, <2>6, <3>1
    <3> QED
      BY <2>1, <2>6, <3>1, <3>2 DEF Timely
  <2>7. ASSUME step \in {"look", "emit"} PROVE Timely'
    BY <1>1, <1>2, <2>1, <2>2, <2>3, <2>4, <2>7 DEF Timely
  <2>8. ASSUME step \notin {"poll", "sleeping", "look", "emit"} PROVE Timely'
    BY <2>1, <2>8 DEF Timely
  <2> QED
    BY <2>5, <2>6, <2>7, <2>8
<1>5. CASE Arrive \/ UNCHANGED vars
  BY <1>5 DEF Arrive, vars, taskVars, Timely
<1>6. CASE Align \/ Emit
  BY <1>6 DEF Align, Emit, Goes, Timely
<1>7. CASE Begin
  <2>1. step' = "look" /\ elapsed' = 0 /\ lag' = 0
    BY <1>7 DEF Begin, Goes
  <2> QED
    BY <1>1, <1>2, <2>1 DEF Timely
<1>8. CASE Look
  <2>1. step = "look" /\ lag' = 0 /\ elapsed' = elapsed
    BY <1>8 DEF Look, Goes
  <2>2. elapsed <= Cadence + 2 * late + 2 * MaxLag
    BY <1>1, <1>2, <2>1 DEF Timely
  <2>3. CASE elapsed <= Cadence /\ step' = "poll" /\ waitFor' = Cadence - elapsed
    <3>1. 0 \in 0..Sleeps /\ 0 * MaxLag = 0 /\ (Sleeps - 0) * PollInterval = Sleeps * PollInterval
      BY <1>1
    <3>2. waitFor' <= (Sleeps - 0) * PollInterval
      BY <1>1, <2>3, <3>1, SleepsSuffice
    <3>3. elapsed' + waitFor' <= Cadence + 2 * (0 * MaxLag) + lag'
      BY <1>1, <2>1, <2>3, <3>1
    <3> QED
      BY <2>3, <3>1, <3>2, <3>3 DEF Timely
  <2>4. CASE step' = "emit"
    BY <1>1, <1>2, <2>1, <2>2, <2>4 DEF Timely
  <2> QED
    BY <1>8, <2>3, <2>4 DEF Look, Goes
<1>9. CASE Receive \/ TimeIsUp
  <2>1. step = "poll" /\ lag' = 0 /\ elapsed' = elapsed /\ step' \in {"look", "emit"}
    BY <1>9 DEF Receive, TimeIsUp, Goes
  <2>2. PICK k \in 0..Sleeps : elapsed + waitFor <= Cadence + 2 * (k * MaxLag) + lag
    BY <2>1 DEF Timely
  <2>3. elapsed <= Cadence + 2 * late + MaxLag
    BY <1>1, <1>2, <1>3, <2>2
  <2> QED
    BY <1>1, <1>2, <2>1, <2>3 DEF Timely
<1>10. CASE Sleep
  <2>1. /\ step = "poll" /\ step' = "sleeping" /\ lag' = 0 /\ elapsed' = elapsed
        /\ waitFor > 0 /\ sleepFor' + waitFor' = waitFor
        /\ waitFor' = waitFor - PollInterval \/ waitFor' = 0
    BY <1>1, <1>10 DEF Sleep, Goes, Shorter
  <2>2. PICK k \in 0..Sleeps : /\ waitFor <= (Sleeps - k) * PollInterval
                               /\ elapsed + waitFor <= Cadence + 2 * (k * MaxLag) + lag
    BY <2>1 DEF Timely
  <2>3. k # Sleeps
    <3>1. (Sleeps - Sleeps) * PollInterval = 0
      BY <1>1
    <3> QED
      BY <1>1, <2>1, <2>2, <3>1
  <2>4. k + 1 \in 1..Sleeps
    BY <1>1, <2>3
  <2>5. /\ (k + 1) * MaxLag = k * MaxLag + MaxLag
        /\ (Sleeps - (k + 1)) * PollInterval = (Sleeps - k) * PollInterval - PollInterval
        /\ (Sleeps - (k + 1)) * PollInterval \in Nat
    BY <1>1, <1>3, <2>4, DelaysGrow
  <2>6. waitFor' <= (Sleeps - (k + 1)) * PollInterval
    BY <1>1, <1>3, <2>1, <2>2, <2>5
  <2>7. elapsed' + sleepFor' + waitFor' <= Cadence + 2 * ((k + 1) * MaxLag) - MaxLag + lag'
    <3> DEFINE slack == k * MaxLag
    <3>1. elapsed' + sleepFor' + waitFor' = elapsed + waitFor
      <4>1. sleepFor' \in Int /\ waitFor' \in Int /\ elapsed \in Int /\ waitFor \in Int
        BY <1>1, <1>10 DEF Sleep, Shorter
      <4>2. elapsed' + sleepFor' + waitFor' = elapsed' + (sleepFor' + waitFor')
        BY <2>1, <4>1
      <4> QED
        BY <2>1, <4>1, <4>2
    <3>2. slack \in Int /\ (k + 1) * MaxLag = slack + MaxLag
      BY <1>1, <1>3, <2>4, <2>5
    <3>3. elapsed + waitFor <= Cadence + 2 * slack + lag
      BY <2>2
    <3> HIDE DEF slack
    <3>4. 2 * ((k + 1) * MaxLag) - MaxLag = 2 * slack + MaxLag
      BY <1>1, <3>2
    <3>5. Cadence + 2 * ((k + 1) * MaxLag) - MaxLag + lag' = Cadence + 2 * slack + MaxLag
      <4>1. (k + 1) * MaxLag \in Int
        BY <1>1, <3>2
      <4> QED
        BY <1>1, <2>1, <3>2, <3>4, <4>1
    <3> QED
      BY <1>1, <3>1, <3>2, <3>3, <3>5
  <2> QED
    BY <2>1, <2>4, <2>6, <2>7 DEF Timely
<1>11. CASE Wake
  <2>1. /\ step = "sleeping" /\ step' = "poll" /\ lag' = 0 /\ sleepFor = 0
        /\ elapsed' = elapsed /\ waitFor' = waitFor
    BY <1>11 DEF Wake, Goes
  <2>2. PICK k \in 1..Sleeps :
          /\ waitFor <= (Sleeps - k) * PollInterval
          /\ elapsed + sleepFor + waitFor <= Cadence + 2 * (k * MaxLag) - MaxLag + lag
    BY <2>1 DEF Timely
  <2>3. elapsed' + waitFor' <= Cadence + 2 * (k * MaxLag) + lag'
    BY <1>1, <1>3, <2>1, <2>2
  <2> QED
    BY <2>1, <2>2, <2>3 DEF Timely
<1>12. CASE Stamp
  <2>1. step' = "look" /\ lag' = 0 /\ elapsed' = elapsed /\ elapsed = lag
    BY <1>12 DEF Stamp, Goes, WindowInvariant, StampedAfterEmit
  <2> QED
    BY <1>1, <1>2, <2>1 DEF Timely
<1> QED
  BY <1>4, <1>5, <1>6, <1>7, <1>8, <1>9, <1>10, <1>11, <1>12
     DEF Next, AggregateMetricsForever

(* No window of the aggregator stays open for longer than the cadence and the       *)
(* delays of its steps, for any poll interval and however records arrive.           *)
THEOREM WindowsEndOnTime == Spec => []WindowEndsOnTime
<1>1. Init => Timely
  BY DEF Init, Timely
<1>2. WindowInvariant /\ Timely => WindowEndsOnTime
  <2> SUFFICES ASSUME WindowInvariant, Timely, step = "emit"
               PROVE  elapsed <= Cadence + (2 * Sleeps + 3) * MaxLag
    BY DEF WindowEndsOnTime
  <2>1. Sleeps \in Nat /\ MaxLag \in Nat /\ Cadence \in Nat /\ elapsed \in Nat /\ lag \in 0..MaxLag
    BY SleepsSuffice, TimesAssumption DEF WindowInvariant, TypeOK
  <2>2. Sleeps * MaxLag \in Nat /\ (2 * Sleeps + 3) * MaxLag = 2 * (Sleeps * MaxLag) + 3 * MaxLag
    BY <2>1, Z3
  <2> QED
    BY <2>1, <2>2 DEF Timely
<1> QED
  BY <1>1, <1>2, NextTimely, WindowInvariantHolds, PTL DEF Spec
=============================================================================
