--------------------------- MODULE Introspection ---------------------------
(***************************************************************************)
(* The library's metrics about itself (goodmetrics/src/introspect, and     *)
(* allocator/always_new_metrics_allocator.rs, their only user): a static   *)
(* LazySumGauge looks for the factory of introspection gauges when it is   *)
(* used first, and keeps what it found in a OnceLock.                      *)
(*                                                                         *)
(* Threads allocate beside the task that registers the factory.  What a    *)
(* SumHandle does is one step: its gauge stays alive, for the OnceLock     *)
(* owns the handle.                                                        *)
(***************************************************************************)
EXTENDS Naturals

CONSTANTS Threads,
          Factories,  \* one for each call of run_introspection_metrics
          None,       \* no factory, no gauge: none of Factories
          Unset,      \* an empty OnceLock: neither None nor one of Factories
          MaxCalls    \* bound: calls of new_metrics

VARIABLES
  factory,   \* INTROSPECTION_GAUGE_FACTORY
  gauge,     \* LazySumGauge.gauge: the factory of the gauge it keeps
  pc,        \* where each thread is
  found,     \* the factory a thread has found for the OnceLock
  held,      \* what each factory's gauge holds
  reported,  \* what report_gauges_forever has sent
  calls,     \* history: calls of new_metrics
  due,       \* history: threads in a call that began after a registration
  missed     \* history: such calls that were not observed

historyVars == <<calls, due, missed>>
vars == <<factory, gauge, pc, found, held, reported, historyVars>>

Init ==
  /\ factory = None
  /\ gauge = Unset
  /\ pc = [t \in Threads |-> "idle"]
  /\ found = [t \in Threads |-> None]
  /\ held = [f \in Factories |-> 0]
  /\ reported = 0
  /\ calls = 0 /\ due = {} /\ missed = 0

(* run_introspection_metrics() stores its factory, over another one's if it is      *)
(* called again.                                                                    *)
Register(f) ==
  /\ factory' = f
  /\ UNCHANGED <<gauge, pc, found, held, reported, historyVars>>

(* The reporter of a factory swaps its gauge with 0. *)
Report(f) ==
  /\ held[f] > 0
  /\ held' = [held EXCEPT ![f] = 0]
  /\ reported' = reported + held[f]
  /\ UNCHANGED <<factory, gauge, pc, found, historyVars>>

NewMetrics(t) ==
  /\ pc[t] = "idle"
  /\ calls < MaxCalls
  /\ pc' = [pc EXCEPT ![t] = "gauge"]
  /\ calls' = calls + 1
  /\ due' = IF factory # None THEN due \cup {t} ELSE due
  /\ UNCHANGED <<factory, gauge, found, held, reported, missed>>

(* get_or_init(): one thread initializes, and the others wait for it. *)
LoadFactory(t) ==
  /\ pc[t] = "gauge"
  /\ gauge = Unset
  /\ \A u \in Threads : pc[u] # "init"
  /\ pc' = [pc EXCEPT ![t] = "init"]
  /\ found' = [found EXCEPT ![t] = factory]
  /\ UNCHANGED <<factory, gauge, held, reported, historyVars>>

SetGauge(t) ==
  /\ pc[t] = "init"
  /\ gauge' = found[t]
  /\ pc' = [pc EXCEPT ![t] = "gauge"]
  /\ UNCHANGED <<factory, found, held, reported, historyVars>>

(* if let Some(gauge): observe(1), and new_metrics() is done. *)
Observe(t) ==
  /\ pc[t] = "gauge"
  /\ gauge # Unset
  /\ \/ /\ gauge # None
        /\ held' = [held EXCEPT ![gauge] = @ + 1]
        /\ missed' = missed
     \/ /\ gauge = None
        /\ missed' = IF t \in due THEN missed + 1 ELSE missed
        /\ held' = held
  /\ pc' = [pc EXCEPT ![t] = "idle"]
  /\ due' = due \ {t}
  /\ UNCHANGED <<factory, gauge, found, reported, calls>>

Next ==
  \/ \E f \in Factories : Register(f) \/ Report(f)
  \/ \E t \in Threads : NewMetrics(t) \/ LoadFactory(t) \/ SetGauge(t) \/ Observe(t)

Spec == Init /\ [][Next]_vars
-----------------------------------------------------------------------------
(* introspection_factory.rs:49: "This registers pipeline introspection metrics to   *)
(* be emitted through the configured downstream sink" - what is allocated after     *)
(* that is counted (lazy_gauge.rs:20).                                              *)
RegisteredIsCounted == missed = 0
=============================================================================
