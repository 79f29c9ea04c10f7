------------------------- MODULE AggregationWindow -------------------------
(***************************************************************************)
(* When Aggregator::aggregate_metrics_forever ends its windows             *)
(* (goodmetrics/src/pipeline/aggregator.rs).                               *)
(*                                                                         *)
(* Time is counted in milliseconds and kept relative: how long ago         *)
(* last_emit was read, how long a sleep has still to run, where in its     *)
(* period the wall clock is.  Both clocks run at the same rate.  A task    *)
(* that is ready to run may be kept waiting, at each of its steps, for up  *)
(* to MaxLag; tokio's sleep never ends early.                              *)
(*                                                                         *)
(* Of the queue only its length matters here, of the map only whether it   *)
(* holds anything.                                                         *)
(***************************************************************************)
EXTENDS Integers

CONSTANTS Cadence,        \* length of a window
          PollInterval,   \* 5 in Aggregator::new
          QueueCapacity,  \* 1024 in StreamSink::new
          MaxLag          \* bound: how long a step of the task may be delayed

(* A cadence below 1ms makes aggregate_metrics_forever divide by zero. *)
ASSUME TimesAssumption == /\ Cadence \in Nat \ {0}
                          /\ PollInterval \in Nat \ {0}
                          /\ QueueCapacity \in Nat \ {0}
                          /\ MaxLag \in Nat

VARIABLES
  step,        \* where aggregate_metrics_forever is
  elapsed,     \* now_timer() - last_emit
  waitFor,     \* receive_one's wait_for
  sleepFor,    \* what the running sleep has still to wait
  lag,         \* how long the next step of the task has been delayed
  phase,       \* now_wall_clock() modulo the cadence
  queued,      \* records in the queue
  mapped,      \* Aggregator.map is not empty
  sinceBatch   \* history: now_wall_clock() - timestamp of the last batch, up to Far

taskVars == <<step, waitFor, sleepFor, lag>>
dataVars == <<queued, mapped>>
vars == <<taskVars, dataVars, sinceBatch, elapsed, phase>>

Steps == {"start", "aligning", "look", "poll", "sleeping", "emit", "stamp"}
Far == 2 * Cadence
Shorter(a, b) == IF a <= b THEN a ELSE b

TypeOK ==
  /\ step \in Steps
  /\ elapsed \in Nat
  /\ waitFor \in 0..Cadence
  /\ sleepFor \in 0..Cadence
  /\ lag \in 0..MaxLag
  /\ phase \in 0..(Cadence - 1)
  /\ queued \in 0..QueueCapacity
  /\ mapped \in BOOLEAN
  /\ sinceBatch \in 0..Far

Init ==
  /\ step = "start"
  /\ elapsed = 0
  /\ waitFor = 0
  /\ sleepFor = 0
  /\ lag = 0
  /\ phase \in 0..(Cadence - 1)
  /\ queued = 0
  /\ mapped = FALSE
  /\ sinceBatch = Far
-----------------------------------------------------------------------------
(* A millisecond goes by: the task sleeps on, or its next step is delayed. *)
Tick ==
  /\ \/ sleepFor > 0 /\ sleepFor' = sleepFor - 1 /\ lag' = lag
     \/ sleepFor = 0 /\ lag < MaxLag /\ sleepFor' = 0 /\ lag' = lag + 1
  /\ elapsed' = IF step \in {"start", "aligning"} THEN 0 ELSE elapsed + 1
  /\ phase' = (phase + 1) % Cadence
  /\ sinceBatch' = Shorter(sinceBatch + 1, Far)
  /\ UNCHANGED <<step, waitFor, dataVars>>

(* StreamSink::accept puts a record into the queue. *)
Arrive ==
  /\ queued < QueueCapacity
  /\ queued' = queued + 1
  /\ UNCHANGED <<taskVars, mapped, sinceBatch, elapsed, phase>>

Goes(from, to) ==
  /\ step = from
  /\ sleepFor = 0
  /\ step' = to
  /\ lag' = 0
  /\ UNCHANGED phase

(* extra_start_offset = now_wall_clock() % cadence, and a sleep of that length. *)
Align ==
  /\ Goes("start", "aligning")
  /\ sleepFor' = phase
  /\ UNCHANGED <<waitFor, dataVars, sinceBatch, elapsed>>

(* The first last_emit. *)
Begin ==
  /\ Goes("aligning", "look")
  /\ elapsed' = 0
  /\ UNCHANGED <<waitFor, sleepFor, dataVars, sinceBatch>>

(* Faulty variant: the subtraction from the cadence is not checked. *)
LookUnchecked ==
  /\ Goes("look", "poll")
  /\ waitFor' = Cadence - elapsed
  /\ UNCHANGED <<sleepFor, dataVars, sinceBatch, elapsed>>

(* receive_until_next_batch: is any of the cadence left? *)
Look ==
  /\ \/ elapsed <= Cadence /\ Goes("look", "poll") /\ waitFor' = Cadence - elapsed
     \/ elapsed > Cadence /\ Goes("look", "emit") /\ waitFor' = waitFor
  /\ UNCHANGED <<sleepFor, dataVars, sinceBatch, elapsed>>

(* Faulty variant: receive_one goes on receiving without a look at the clock. *)
ReceiveGreedily ==
  /\ queued > 0
  /\ Goes("poll", "poll")
  /\ queued' = queued - 1
  /\ mapped' = TRUE
  /\ UNCHANGED <<waitFor, sleepFor, sinceBatch, elapsed>>

(* receive_one: try_recv has a record, which is aggregated. *)
Receive ==
  /\ queued > 0
  /\ Goes("poll", "look")
  /\ queued' = queued - 1
  /\ mapped' = TRUE
  /\ UNCHANGED <<waitFor, sleepFor, sinceBatch, elapsed>>

(* Faulty variant: a whole poll interval is taken off wait_for, however short the sleep. *)
SleepShort ==
  /\ queued = 0
  /\ waitFor > 0
  /\ Goes("poll", "sleeping")
  /\ sleepFor' = Shorter(waitFor, PollInterval) - 1
  /\ waitFor' = waitFor - Shorter(waitFor, PollInterval)
  /\ UNCHANGED <<dataVars, sinceBatch, elapsed>>

(* receive_one: nothing there, so sleep for min(wait_for, poll_interval). *)
Sleep ==
  /\ queued = 0
  /\ waitFor > 0
  /\ Goes("poll", "sleeping")
  /\ sleepFor' = Shorter(waitFor, PollInterval)
  /\ waitFor' = waitFor - Shorter(waitFor, PollInterval)
  /\ UNCHANGED <<dataVars, sinceBatch, elapsed>>

Wake ==
  /\ Goes("sleeping", "poll")
  /\ UNCHANGED <<waitFor, sleepFor, dataVars, sinceBatch, elapsed>>

(* receive_one: nothing there and nothing left to wait for. *)
TimeIsUp ==
  /\ queued = 0
  /\ waitFor = 0
  /\ Goes("poll", "emit")
  /\ UNCHANGED <<waitFor, sleepFor, dataVars, sinceBatch, elapsed>>

(* Faulty variant: last_emit stays that of the window before. *)
EmitKeeping ==
  /\ Goes("emit", "stamp")
  /\ UNCHANGED <<waitFor, sleepFor, dataVars, sinceBatch, elapsed>>

(* last_emit = now_timer() *)
Emit ==
  /\ Goes("emit", "stamp")
  /\ elapsed' = 0
  /\ UNCHANGED <<waitFor, sleepFor, dataVars, sinceBatch>>

(* Faulty variant: the batcher leaves the aggregations in the map. *)
StampKeeping ==
  /\ Goes("stamp", "look")
  /\ sinceBatch' = IF mapped THEN 0 ELSE sinceBatch
  /\ UNCHANGED <<mapped, waitFor, sleepFor, queued, elapsed>>

(* drain_into(now_wall_clock(), ...) and try_send: a batch stamped with the wall *)
(* clock's time, said to cover the cadence before it, unless the map is empty.   *)
Stamp ==
  /\ Goes("stamp", "look")
  /\ mapped' = FALSE
  /\ sinceBatch' = IF mapped THEN 0 ELSE sinceBatch
  /\ UNCHANGED <<waitFor, sleepFor, queued, elapsed>>

AggregateMetricsForever ==
  \/ Align
  \/ Begin
  \/ Look
  \/ Receive
  \/ Sleep
  \/ Wake
  \/ TimeIsUp
  \/ Emit
  \/ Stamp
-----------------------------------------------------------------------------
Next == Tick \/ Arrive \/ AggregateMetricsForever

Spec == Init /\ [][Next]_vars

(* The runtime polls the task and time goes by.  Nobody has to send anything, and *)
(* nobody has to stop sending.                                                    *)
FairSpec == Spec /\ WF_vars(Tick) /\ WF_vars(AggregateMetricsForever)
-----------------------------------------------------------------------------
(* Properties *)

(* A window never ends early, although it is waited for in pieces and the clock is *)
(* looked at again only after a record.                                            *)
WindowNotShort == step = "emit" => elapsed >= Cadence

Sleeps == (Cadence + PollInterval - 1) \div PollInterval

(* Nor does a window stay open: whatever arrives, it is late by no more than the   *)
(* delays of its steps, of which an idle window has two for each sleep.            *)
WindowEndsOnTime == step = "emit" => elapsed <= Cadence + (2 * Sleeps + 3) * MaxLag

(* Batches follow each other by a cadence, less the delay between the reading of   *)
(* the two clocks in the window before.                                            *)
BatchesSpaced == step = "stamp" => sinceBatch >= Cadence - MaxLag

(* Records cannot hold the aggregator in a window: what is in the map is sent.     *)
MapIsDrained == mapped ~> ~mapped

-----------------------------------------------------------------------------
(* The inductive invariant behind WindowNotShort and BatchesSpaced *)

(* While receive_one waits, the time gone by and the time left make up the cadence. *)
WaitsLongEnough ==
  /\ step \in {"poll", "sleeping"} => elapsed + sleepFor + waitFor >= Cadence
  /\ step \notin {"aligning", "sleeping"} => sleepFor = 0

(* The last batch was stamped within MaxLag of the last_emit of its window.         *)
StampedAfterEmit ==
  /\ step = "stamp" => elapsed = lag
  /\ step \notin {"start", "aligning", "stamp"} =>
       sinceBatch >= elapsed - MaxLag \/ sinceBatch = Far

WindowInvariant ==
  /\ TypeOK
  /\ WaitsLongEnough
  /\ StampedAfterEmit
  /\ WindowNotShort
  /\ BatchesSpaced
=============================================================================
