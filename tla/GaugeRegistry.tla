---------------------------- MODULE GaugeRegistry ----------------------------
(***************************************************************************)
(* The gauges of a GaugeFactory (goodmetrics/src/gauge_factory.rs and      *)
(* gauge_group.rs): who keeps a gauge alive, how a thread finds it again,  *)
(* and what becomes of what was observed.                                  *)
(*                                                                         *)
(* The factory refers to a gauge weakly (Weak<Gauge>): the handles own it, *)
(* and so does the reporter for a moment, when it upgrades the factory's   *)
(* reference.  Whoever drops the last of these references drops the gauge, *)
(* with what it holds.  Handles are cloned, used and dropped by any thread *)
(* without the factory's mutex; the mutex is held while a handle is looked *)
(* up and while the reporter goes through all gauges.                      *)
(*                                                                         *)
(* What one gauge does in observe() and reset() is StatisticGauge's        *)
(* subject; here both are one step and a gauge holds a number of           *)
(* observations.                                                           *)
(***************************************************************************)
EXTENDS Naturals, FiniteSets

CONSTANTS Groups,          \* names of groups
          Positions,       \* dimensions and name of a gauge in its group
          Kinds,           \* StatisticSet, Sum, Histogram
          Handles,         \* places for a handle, of whatever threads
          Gauges,          \* allocations of a gauge
          None,            \* no gauge
          MaxObservations  \* bound: observations of one key

ASSUME NoneAssumption == None \notin Gauges

Keys == Groups \X Positions

VARIABLES
  groups,      \* keys of gauge_groups
  registered,  \* the Weak<Gauge> at each key
  keyOf,       \* the key each gauge was made for
  kindOf,      \* the kind each gauge was made with
  pending,     \* observations each gauge holds
  handle,      \* the gauge and the kind of each handle
  pc,          \* where the reporter is; it holds the mutex unless "idle"
  groupsLeft,  \* groups the reporter has not come to
  group,       \* the group it is in
  keysLeft,    \* keys it has not come to in this pass over the group
  temp,        \* the gauge it has upgraded
  observed,    \* history: observations of each key
  reported,    \* history: observations reported of each key
  perished     \* history: observations dropped with a gauge of each key

factoryVars == <<groups, registered>>
gaugeVars == <<keyOf, kindOf, pending>>
reporterVars == <<pc, groupsLeft, group, keysLeft, temp>>
historyVars == <<observed, reported, perished>>
vars == <<factoryVars, gaugeVars, handle, reporterVars, historyVars>>

NoHandle == [gauge |-> None, kind |-> None]
Handle == [gauge : Gauges, kind : Kinds]
PassSteps == {"sweep", "collect"}
UpgradedSteps == {"swept", "reset", "collected"}

TypeOK ==
  /\ groups \in SUBSET Groups
  /\ registered \in [Keys -> Gauges \cup {None}]
  /\ keyOf \in [Gauges -> Keys \cup {None}]
  /\ kindOf \in [Gauges -> Kinds \cup {None}]
  /\ pending \in [Gauges -> Nat]
  /\ handle \in [Handles -> Handle \cup {NoHandle}]
  /\ pc \in {"idle", "group"} \cup PassSteps \cup UpgradedSteps
  /\ groupsLeft \in SUBSET groups
  /\ group \in groups \cup {None}
  /\ keysLeft \in SUBSET Keys
  /\ temp \in Gauges \cup {None}
  /\ pc \in UpgradedSteps <=> temp # None
  /\ observed \in [Keys -> Nat]
  /\ reported \in [Keys -> Nat]
  /\ perished \in [Keys -> Nat]

Init ==
  /\ groups = {}
  /\ registered = [k \in Keys |-> None]
  /\ keyOf = [g \in Gauges |-> None]
  /\ kindOf = [g \in Gauges |-> None]
  /\ pending = [g \in Gauges |-> 0]
  /\ handle = [h \in Handles |-> NoHandle]
  /\ pc = "idle" /\ groupsLeft = {} /\ group = None /\ keysLeft = {} /\ temp = None
  /\ observed = [k \in Keys |-> 0]
  /\ reported = [k \in Keys |-> 0]
  /\ perished = [k \in Keys |-> 0]

HandlesOf(g) == {h \in Handles : handle[h].gauge = g}
Alive(g) == g \in Gauges /\ (temp = g \/ HandlesOf(g) # {})
Unused == {g \in Gauges : ~Alive(g) /\ \A k \in Keys : registered[k] # g}
-----------------------------------------------------------------------------
(* The caller gets a handle of the kind it asked for, to whatever gauge is there. *)
Vend(h, g, kind) ==
  handle' = [handle EXCEPT ![h] = [gauge |-> g, kind |-> kind]]

(* A new gauge at key k: Arc::new(default().into()), Arc::downgrade. *)
Make(k, g, kind) ==
  /\ keyOf' = [keyOf EXCEPT ![g] = k]
  /\ kindOf' = [kindOf EXCEPT ![g] = kind]
  /\ pending' = [pending EXCEPT ![g] = 0]

(* Faulty variant: a gauge made in the place of a dropped one is not registered. *)
GetGaugeUnregistered(h, k, kind) ==
  /\ pc = "idle"
  /\ handle[h] = NoHandle
  /\ groups' = groups \cup {k[1]}
  /\ \/ /\ Alive(registered[k])
        /\ Vend(h, registered[k], kind)
        /\ UNCHANGED <<registered, gaugeVars>>
     \/ /\ ~Alive(registered[k])
        /\ \E g \in Unused :
             /\ Make(k, g, kind)
             /\ registered' = [registered EXCEPT ![k] = IF @ = None THEN g ELSE @]
             /\ Vend(h, g, kind)
  /\ UNCHANGED <<reporterVars, historyVars>>

(* get_gauge(): one step, because under the mutex only the upgrade can meet *)
(* another thread, one that drops the last handle.                          *)
GetGauge(h, k, kind) ==
  /\ pc = "idle"
  /\ handle[h] = NoHandle
  /\ groups' = groups \cup {k[1]}
  /\ \/ /\ Alive(registered[k])
        /\ Vend(h, registered[k], kind)
        /\ UNCHANGED <<registered, gaugeVars>>
     \/ /\ ~Alive(registered[k])
        /\ \E g \in Unused :
             /\ Make(k, g, kind)
             /\ registered' = [registered EXCEPT ![k] = g]
             /\ Vend(h, g, kind)
  /\ UNCHANGED <<reporterVars, historyVars>>

(* Handles are Clone; a TimeGuard holds a clone of its handle. *)
CloneHandle(from, to) ==
  /\ handle[from] # NoHandle
  /\ handle[to] = NoHandle
  /\ handle' = [handle EXCEPT ![to] = handle[from]]
  /\ UNCHANGED <<factoryVars, gaugeVars, reporterVars, historyVars>>

(* observe() on a gauge of another kind only logs an error. *)
Observe(h) ==
  LET g == handle[h].gauge IN
  /\ handle[h] # NoHandle
  /\ handle[h].kind = kindOf[g]
  /\ observed[keyOf[g]] < MaxObservations
  /\ pending' = [pending EXCEPT ![g] = @ + 1]
  /\ observed' = [observed EXCEPT ![keyOf[g]] = @ + 1]
  /\ UNCHANGED <<factoryVars, keyOf, kindOf, handle, reporterVars, reported, perished>>

(* A reference to g was dropped; if it was the last, what g holds goes with it. *)
Dropped(g, last) ==
  IF last
  THEN /\ pending' = [pending EXCEPT ![g] = 0]
       /\ perished' = [perished EXCEPT ![keyOf[g]] = @ + pending[g]]
  ELSE UNCHANGED <<pending, perished>>

DropHandle(h) ==
  LET g == handle[h].gauge IN
  /\ handle[h] # NoHandle
  /\ handle' = [handle EXCEPT ![h] = NoHandle]
  /\ Dropped(g, HandlesOf(g) = {h} /\ temp # g)
  /\ UNCHANGED <<factoryVars, keyOf, kindOf, reporterVars, observed, reported>>
-----------------------------------------------------------------------------
(* aggregate_and_reset(): the reporter takes the mutex ... *)
Lock ==
  /\ pc = "idle"
  /\ pc' = "group"
  /\ groupsLeft' = groups
  /\ UNCHANGED <<factoryVars, gaugeVars, handle, group, keysLeft, temp, historyVars>>

RegisteredIn(gr) == {k \in Keys : k[1] = gr /\ registered[k] # None}

(* Faulty variant: a group is reset without the gauges of one it has seen. *)
NextGroupSkipping ==
  /\ pc = "group"
  /\ \E gr \in groupsLeft :
       /\ groupsLeft' = {}
       /\ group' = gr
       /\ pc' = "sweep"
       /\ keysLeft' = RegisteredIn(gr)
  /\ UNCHANGED <<factoryVars, gaugeVars, handle, temp, historyVars>>

(* ... resets the groups one after the other, in the order of a HashMap ... *)
NextGroup ==
  /\ pc = "group"
  /\ \E gr \in groupsLeft :
       /\ groupsLeft' = groupsLeft \ {gr}
       /\ group' = gr
       /\ pc' = "sweep"
       /\ keysLeft' = RegisteredIn(gr)
  /\ UNCHANGED <<factoryVars, gaugeVars, handle, temp, historyVars>>

(* ... and gives the mutex back. *)
Unlock ==
  /\ pc = "group"
  /\ groupsLeft = {}
  /\ pc' = "idle"
  /\ group' = None
  /\ UNCHANGED <<factoryVars, gaugeVars, handle, groupsLeft, keysLeft, temp, historyVars>>

(* In either pass over a group the reporter upgrades the gauge at k; from there it  *)
(* goes on to "alive", or to the next key.                                          *)
Upgrade(k, alive) ==
  /\ keysLeft' = keysLeft \ {k}
  /\ \/ /\ Alive(registered[k])
        /\ temp' = registered[k]
        /\ pc' = alive
     \/ /\ ~Alive(registered[k])
        /\ UNCHANGED <<temp, pc>>
  /\ UNCHANGED <<gaugeVars, handle, groups, groupsLeft, group, historyVars>>

(* Faulty variant: retain() keeps the entries of dropped gauges. *)
SweepKeeping(k) ==
  /\ pc = "sweep"
  /\ k \in keysLeft
  /\ Upgrade(k, "swept")
  /\ registered' = registered

(* Faulty variant: retain() looks whether the gauge holds anything. *)
SweepIdle(k) ==
  /\ pc = "sweep"
  /\ k \in keysLeft
  /\ Upgrade(k, "swept")
  /\ registered' = [registered EXCEPT ![k] = IF pending[@] = 0 THEN None ELSE @]

(* retain(|gauge| gauge.upgrade().is_some()) *)
Sweep(k) ==
  /\ pc = "sweep"
  /\ k \in keysLeft
  /\ Upgrade(k, "swept")
  /\ registered' = [registered EXCEPT ![k] = IF Alive(@) THEN @ ELSE None]

(* The second pass is over the gauges that the first has left. *)
EndSweep ==
  /\ pc = "sweep"
  /\ keysLeft = {}
  /\ keysLeft' = RegisteredIn(group)
  /\ pc' = "collect"
  /\ UNCHANGED <<factoryVars, gaugeVars, handle, groupsLeft, group, temp, historyVars>>

Collect(k) ==
  /\ pc = "collect"
  /\ k \in keysLeft
  /\ Upgrade(k, "reset")
  /\ registered' = registered

(* Faulty variant: the gauge keeps what it reports. *)
ResetKeeping ==
  /\ pc = "reset"
  /\ reported' = [reported EXCEPT ![keyOf[temp]] = @ + pending[temp]]
  /\ pc' = "collected"
  /\ UNCHANGED <<factoryVars, gaugeVars, handle, groupsLeft, group, keysLeft, temp, observed, perished>>

(* gauge.reset(): None if it holds nothing. *)
Reset ==
  /\ pc = "reset"
  /\ reported' = [reported EXCEPT ![keyOf[temp]] = @ + pending[temp]]
  /\ pending' = [pending EXCEPT ![temp] = 0]
  /\ pc' = "collected"
  /\ UNCHANGED <<factoryVars, keyOf, kindOf, handle, groupsLeft, group, keysLeft, temp, observed, perished>>

(* Faulty variant: the reporter's reference to the gauge leaks. *)
DropTempLeaking ==
  /\ pc \in {"swept", "collected"}
  /\ pc' = IF pc = "swept" THEN "sweep" ELSE "collect"
  /\ UNCHANGED <<factoryVars, gaugeVars, handle, groupsLeft, group, keysLeft, temp, historyVars>>

(* The reporter's own reference to the gauge ends. *)
DropTemp ==
  /\ pc \in {"swept", "collected"}
  /\ pc' = IF pc = "swept" THEN "sweep" ELSE "collect"
  /\ temp' = None
  /\ Dropped(temp, HandlesOf(temp) = {})
  /\ UNCHANGED <<factoryVars, keyOf, kindOf, handle, groupsLeft, group, keysLeft, observed, reported>>

EndGroup ==
  /\ pc = "collect"
  /\ keysLeft = {}
  /\ pc' = "group"
  /\ UNCHANGED <<factoryVars, gaugeVars, handle, groupsLeft, group, keysLeft, temp, historyVars>>

ReportGauges ==
  \/ Lock \/ NextGroup \/ Unlock
  \/ \E k \in Keys : Sweep(k) \/ Collect(k)
  \/ EndSweep \/ Reset \/ DropTemp \/ EndGroup

Next ==
  \/ \E h \in Handles :
       \/ \E k \in Keys, kind \in Kinds : GetGauge(h, k, kind)
       \/ \E to \in Handles : CloneHandle(h, to)
       \/ Observe(h)
       \/ DropHandle(h)
  \/ ReportGauges

Spec == Init /\ [][Next]_vars

(* report_gauges_forever ticks again and again, and nothing in aggregate_and_reset  *)
(* waits; callers need not do anything.                                             *)
FairSpec == Spec /\ WF_vars(ReportGauges)
-----------------------------------------------------------------------------
(* Callers that ask for one group, dimensions and name share one gauge: two gauges  *)
(* made for the same key are never alive together, however drops, look-ups and the  *)
(* reporter's upgrades meet (lazy_gauge.rs:25, gauge_group.rs:32).                  *)
OneGaugePerKey ==
  \A g, g2 \in Gauges : Alive(g) /\ Alive(g2) /\ keyOf[g] = keyOf[g2] => g = g2

(* The factory can find every gauge that somebody can still observe: retain() never *)
(* forgets a gauge in use (gauge_group.rs:53).                                      *)
AliveGaugesRegistered ==
  \A g \in Gauges : Alive(g) => keyOf[g] \in Keys /\ registered[keyOf[g]] = g

(* What the gauge at key k holds. *)
Held(k) == IF registered[k] = None THEN 0 ELSE pending[registered[k]]

(* No observation is counted twice or forgotten: it is reported once, or is in the  *)
(* gauge that the factory finds at its key, or went with a gauge whose last         *)
(* reference was dropped; a gauge nobody refers to holds nothing.                   *)
ObservationsAccounted ==
  /\ \A k \in Keys : observed[k] = reported[k] + perished[k] + Held(k)
  /\ \A g \in Gauges : pending[g] > 0 => Alive(g)

(* What a gauge holds is reported sooner or later if the gauge stays alive          *)
(* (gauge_factory.rs:197).                                                          *)
ObservationReported ==
  \A g \in Gauges : pending[g] > 0 ~> pending[g] = 0

(* The entry of a dropped gauge does not stay for ever (gauge_group.rs:51).         *)
DeadEntriesCollected ==
  \A k \in Keys : registered[k] # None /\ ~Alive(registered[k])
                    ~> registered[k] = None \/ Alive(registered[k])
=============================================================================
