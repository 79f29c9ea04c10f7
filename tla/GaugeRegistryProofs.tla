------------------------- MODULE GaugeRegistryProofs -------------------------
(***************************************************************************)
(* That a key's callers share one gauge, that the factory finds every      *)
(* gauge in use, and that no observation is counted twice or forgotten,    *)
(* for any groups, kinds, handles and gauges.                              *)
(*                                                                         *)
(* AliveGaugesRegistered is inductive beside the types: retain() and the   *)
(* making of a new gauge overwrite an entry only when its gauge is dead,   *)
(* and every live gauge is the one at its key.  That two live gauges never *)
(* share a key follows.  The accounts also need that an entry's gauge was  *)
(* made for the entry's key: whatever a gauge holds is then held at one    *)
(* key, whose account every observation, report and drop settles.          *)
(***************************************************************************)
EXTENDS GaugeRegistry, TLAPS

RegistryInvariant == TypeOK /\ AliveGaugesRegistered

LEMMA InitEstablishes == Init => RegistryInvariant
<1> SUFFICES ASSUME Init PROVE RegistryInvariant
  OBVIOUS
<1>1. TypeOK
  BY NoneAssumption DEF Init, TypeOK, UpgradedSteps, PassSteps
<1>2. \A g \in Gauges : ~Alive(g)
  BY NoneAssumption DEF Init, Alive, HandlesOf, NoHandle
<1> QED
  BY <1>1, <1>2 DEF RegistryInvariant, AliveGaugesRegistered

(* A handle in use refers to a live gauge, made for a key. *)
LEMMA HandleInUse ==
  ASSUME RegistryInvariant, NEW h \in Handles, handle[h] # NoHandle
  PROVE  /\ handle[h] \in Handle
         /\ handle[h].gauge \in Gauges
         /\ Alive(handle[h].gauge)
         /\ keyOf[handle[h].gauge] \in Keys
<1>1. handle[h] \in Handle
  BY DEF RegistryInvariant, TypeOK
<1>2. handle[h].gauge \in Gauges
  BY <1>1 DEF Handle
<1>3. Alive(handle[h].gauge)
  BY <1>2 DEF Alive, HandlesOf
<1> QED
  BY <1>1, <1>2, <1>3 DEF RegistryInvariant, AliveGaugesRegistered

(* So is the gauge that the reporter has upgraded. *)
LEMMA TempInUse ==
  ASSUME RegistryInvariant, pc \in UpgradedSteps
  PROVE  temp \in Gauges /\ Alive(temp) /\ keyOf[temp] \in Keys
<1>1. temp \in Gauges
  BY DEF RegistryInvariant, TypeOK
<1> QED
  BY <1>1 DEF Alive, RegistryInvariant, AliveGaugesRegistered

(* No step that takes references away can break AliveGaugesRegistered. *)
LEMMA FewerAlive ==
  ASSUME AliveGaugesRegistered, UNCHANGED <<registered, keyOf>>,
         \A g \in Gauges : Alive(g)' => Alive(g)
  PROVE  AliveGaugesRegistered'
BY DEF AliveGaugesRegistered, Keys

LEMMA GetGaugePreserves ==
  ASSUME RegistryInvariant, NEW h \in Handles, NEW k \in Keys, NEW kind \in Kinds,
         GetGauge(h, k, kind)
  PROVE  RegistryInvariant'
<1>1. CASE /\ Alive(registered[k])
           /\ Vend(h, registered[k], kind)
           /\ UNCHANGED <<registered, gaugeVars>>
  <2>1. registered[k] \in Gauges
    BY <1>1 DEF Alive
  <2>2. [gauge |-> registered[k], kind |-> kind] \in Handle
    BY <2>1 DEF Handle
  <2>3. TypeOK'
    BY <1>1, <2>2 DEF GetGauge, Vend, RegistryInvariant, TypeOK, gaugeVars, reporterVars,
                      historyVars, Keys
  <2>4. \A g \in Gauges : Alive(g)' => Alive(g)
    BY <1>1 DEF GetGauge, Vend, RegistryInvariant, TypeOK, Alive, HandlesOf, reporterVars
  <2> QED
    BY <1>1, <2>3, <2>4, FewerAlive DEF RegistryInvariant, gaugeVars
<1>2. ASSUME ~Alive(registered[k]), NEW n \in Unused,
             Make(k, n, kind), registered' = [registered EXCEPT ![k] = n], Vend(h, n, kind)
      PROVE  RegistryInvariant'
  <2>1. n \in Gauges /\ ~Alive(n)
    BY <1>2 DEF Unused
  <2>2. [gauge |-> n, kind |-> kind] \in Handle
    BY <2>1 DEF Handle
  <2>3. TypeOK'
    <3>1. /\ groups' \in SUBSET Groups
          /\ groupsLeft' \in SUBSET groups'
          /\ group' \in groups' \cup {None}
      BY DEF GetGauge, RegistryInvariant, TypeOK, reporterVars, Keys
    <3>2. /\ registered' \in [Keys -> Gauges \cup {None}]
          /\ keyOf' \in [Gauges -> Keys \cup {None}]
          /\ kindOf' \in [Gauges -> Kinds \cup {None}]
      BY <1>2, <2>1 DEF Make, RegistryInvariant, TypeOK
    <3>3. pending' \in [Gauges -> Nat]
      BY <1>2, <2>1 DEF Make, RegistryInvariant, TypeOK
    <3>4. handle' \in [Handles -> Handle \cup {NoHandle}]
      BY <1>2, <2>2 DEF Vend, RegistryInvariant, TypeOK
    <3> QED
      BY <3>1, <3>2, <3>3, <3>4 DEF GetGauge, RegistryInvariant, TypeOK, reporterVars,
                                    historyVars
  <2>4. ASSUME NEW g \in Gauges, Alive(g)', g # n
        PROVE  Alive(g) /\ keyOf[g] # k
    <3>1. Alive(g)
      BY <1>2, <2>4 DEF GetGauge, Vend, RegistryInvariant, TypeOK, Alive, HandlesOf, reporterVars
    <3> QED
      BY <1>2, <3>1 DEF RegistryInvariant, AliveGaugesRegistered
  <2>5. AliveGaugesRegistered'
    BY <1>2, <2>1, <2>4 DEF Make, RegistryInvariant, TypeOK, AliveGaugesRegistered
  <2> QED
    BY <2>3, <2>5 DEF RegistryInvariant
<1> QED
  BY <1>1, <1>2 DEF GetGauge

LEMMA CloneHandlePreserves ==
  ASSUME RegistryInvariant, NEW from \in Handles, NEW to \in Handles, CloneHandle(from, to)
  PROVE  RegistryInvariant'
<1>1. handle[from] \in Handle
  BY HandleInUse DEF CloneHandle
<1>2. TypeOK'
  BY <1>1 DEF CloneHandle, RegistryInvariant, TypeOK, factoryVars, gaugeVars, reporterVars,
              historyVars
<1>3. \A g \in Gauges : Alive(g)' => Alive(g)
  BY DEF CloneHandle, RegistryInvariant, TypeOK, Alive, HandlesOf, reporterVars
<1> QED
  BY <1>2, <1>3, FewerAlive DEF CloneHandle, RegistryInvariant, factoryVars, gaugeVars

LEMMA ObservePreserves ==
  ASSUME RegistryInvariant, NEW h \in Handles, Observe(h)
  PROVE  RegistryInvariant'
<1>1. handle[h].gauge \in Gauges /\ keyOf[handle[h].gauge] \in Keys
  BY HandleInUse DEF Observe
<1>2. pending' \in [Gauges -> Nat] /\ observed' \in [Keys -> Nat]
  BY <1>1 DEF Observe, RegistryInvariant, TypeOK
<1>3. TypeOK'
  BY <1>2 DEF Observe, RegistryInvariant, TypeOK, factoryVars, reporterVars
<1>4. \A g \in Gauges : Alive(g)' => Alive(g)
  BY DEF Observe, Alive, HandlesOf, reporterVars
<1> QED
  BY <1>3, <1>4, FewerAlive DEF Observe, RegistryInvariant, factoryVars

(* Dropping a reference keeps the types of what is counted. *)
LEMMA DroppedTypes ==
  ASSUME RegistryInvariant, NEW g \in Gauges, keyOf[g] \in Keys, NEW last, Dropped(g, last)
  PROVE  pending' \in [Gauges -> Nat] /\ perished' \in [Keys -> Nat]
BY DEF Dropped, RegistryInvariant, TypeOK

LEMMA DropHandlePreserves ==
  ASSUME RegistryInvariant, NEW h \in Handles, DropHandle(h)
  PROVE  RegistryInvariant'
<1>1. handle[h].gauge \in Gauges /\ keyOf[handle[h].gauge] \in Keys
  BY HandleInUse DEF DropHandle
<1>2. pending' \in [Gauges -> Nat] /\ perished' \in [Keys -> Nat]
  BY <1>1, DroppedTypes DEF DropHandle
<1>3. TypeOK'
  BY <1>2 DEF DropHandle, RegistryInvariant, TypeOK, factoryVars, reporterVars
<1>4. \A g \in Gauges : Alive(g)' => Alive(g)
  BY NoneAssumption DEF DropHandle, RegistryInvariant, TypeOK, Alive, HandlesOf, NoHandle,
                        reporterVars
<1> QED
  BY <1>3, <1>4, FewerAlive DEF DropHandle, RegistryInvariant, factoryVars
-----------------------------------------------------------------------------
(* The reporter moves on: it touches neither gauges nor references to them. *)
LEMMA WalkPreserves ==
  ASSUME RegistryInvariant, Lock \/ NextGroup \/ Unlock \/ EndSweep \/ EndGroup
  PROVE  RegistryInvariant'
<1>1. \A gr : RegisteredIn(gr) \in SUBSET Keys
  BY DEF RegisteredIn
<1>2. UNCHANGED <<factoryVars, gaugeVars, handle, temp, historyVars>>
  BY DEF Lock, NextGroup, Unlock, EndSweep, EndGroup
<1>3. pc \notin UpgradedSteps /\ pc' \notin UpgradedSteps
  BY DEF Lock, NextGroup, Unlock, EndSweep, EndGroup, UpgradedSteps
<1>4. TypeOK'
  <2>1. /\ pc' \in {"idle", "group"} \cup PassSteps \cup UpgradedSteps
        /\ groupsLeft' \in SUBSET groups'
        /\ group' \in groups' \cup {None}
        /\ keysLeft' \in SUBSET Keys
    BY <1>1, <1>2 DEF Lock, NextGroup, Unlock, EndSweep, EndGroup, RegistryInvariant, TypeOK,
                      PassSteps, factoryVars
  <2> QED
    BY <1>2, <1>3, <2>1 DEF RegistryInvariant, TypeOK, factoryVars, gaugeVars, historyVars
<1>5. \A g \in Gauges : Alive(g)' => Alive(g)
  BY <1>2 DEF Alive, HandlesOf
<1> QED
  BY <1>2, <1>4, <1>5, FewerAlive DEF RegistryInvariant, factoryVars, gaugeVars

(* An upgrade gives a reference only to a gauge that is alive. *)
LEMMA UpgradeKeepsAlive ==
  ASSUME NEW k \in Keys, NEW alive, Upgrade(k, alive)
  PROVE  \A g \in Gauges : Alive(g)' => Alive(g)
BY DEF Upgrade, Alive, HandlesOf

LEMMA SweepPreserves ==
  ASSUME RegistryInvariant, NEW k \in Keys, Sweep(k)
  PROVE  RegistryInvariant'
<1>1. TypeOK'
  <2>1. /\ pc' \in {"idle", "group"} \cup PassSteps \cup UpgradedSteps
        /\ temp' \in Gauges \cup {None}
        /\ pc' \in UpgradedSteps <=> temp' # None
    BY NoneAssumption DEF Sweep, Upgrade, Alive, RegistryInvariant, TypeOK, PassSteps,
                          UpgradedSteps
  <2>2. registered' \in [Keys -> Gauges \cup {None}] /\ keysLeft' \in SUBSET Keys
    BY DEF Sweep, Upgrade, RegistryInvariant, TypeOK
  <2> QED
    BY <2>1, <2>2 DEF Sweep, Upgrade, RegistryInvariant, TypeOK, gaugeVars, historyVars
<1>2. \A g \in Gauges : Alive(g)' => Alive(g)
  BY UpgradeKeepsAlive DEF Sweep
<1>3. ASSUME NEW g \in Gauges, Alive(g)
      PROVE  registered'[keyOf[g]] = g
  <2>1. keyOf[g] \in Keys /\ registered[keyOf[g]] = g
    BY <1>3 DEF RegistryInvariant, AliveGaugesRegistered
  <2> QED
    BY <1>3, <2>1 DEF Sweep, RegistryInvariant, TypeOK
<1>4. keyOf' = keyOf
  BY DEF Sweep, Upgrade, gaugeVars
<1>5. AliveGaugesRegistered'
  BY <1>2, <1>3, <1>4 DEF RegistryInvariant, AliveGaugesRegistered, Keys
<1> QED
  BY <1>1, <1>5 DEF RegistryInvariant

LEMMA CollectPreserves ==
  ASSUME RegistryInvariant, NEW k \in Keys, Collect(k)
  PROVE  RegistryInvariant'
<1>1. TypeOK'
  <2>1. /\ pc' \in {"idle", "group"} \cup PassSteps \cup UpgradedSteps
        /\ temp' \in Gauges \cup {None}
        /\ pc' \in UpgradedSteps <=> temp' # None
    BY NoneAssumption DEF Collect, Upgrade, Alive, RegistryInvariant, TypeOK, PassSteps,
                          UpgradedSteps
  <2>2. keysLeft' \in SUBSET Keys
    BY DEF Collect, Upgrade, RegistryInvariant, TypeOK
  <2> QED
    BY <2>1, <2>2 DEF Collect, Upgrade, RegistryInvariant, TypeOK, gaugeVars, historyVars
<1>2. \A g \in Gauges : Alive(g)' => Alive(g)
  BY UpgradeKeepsAlive DEF Collect
<1> QED
  BY <1>1, <1>2, FewerAlive DEF Collect, Upgrade, RegistryInvariant, gaugeVars

LEMMA ResetPreserves ==
  ASSUME RegistryInvariant, Reset
  PROVE  RegistryInvariant'
<1>1. temp \in Gauges /\ keyOf[temp] \in Keys
  BY TempInUse DEF Reset, UpgradedSteps
<1>2. pending' \in [Gauges -> Nat] /\ reported' \in [Keys -> Nat]
  BY <1>1 DEF Reset, RegistryInvariant, TypeOK
<1>3. /\ pc' \in {"idle", "group"} \cup PassSteps \cup UpgradedSteps
      /\ pc' \in UpgradedSteps <=> temp' # None
  BY DEF Reset, RegistryInvariant, TypeOK, UpgradedSteps
<1>4. TypeOK'
  BY <1>2, <1>3 DEF Reset, RegistryInvariant, TypeOK, factoryVars
<1>5. \A g \in Gauges : Alive(g)' => Alive(g)
  BY DEF Reset, Alive, HandlesOf
<1> QED
  BY <1>4, <1>5, FewerAlive DEF Reset, RegistryInvariant, factoryVars

LEMMA DropTempPreserves ==
  ASSUME RegistryInvariant, DropTemp
  PROVE  RegistryInvariant'
<1>1. temp \in Gauges /\ keyOf[temp] \in Keys
  BY TempInUse DEF DropTemp, UpgradedSteps
<1>2. pending' \in [Gauges -> Nat] /\ perished' \in [Keys -> Nat]
  BY <1>1, DroppedTypes DEF DropTemp
<1>3. /\ pc' \in {"idle", "group"} \cup PassSteps \cup UpgradedSteps
      /\ temp' = None
      /\ pc' \notin UpgradedSteps
  BY DEF DropTemp, PassSteps, UpgradedSteps
<1>4. TypeOK'
  BY <1>2, <1>3 DEF DropTemp, RegistryInvariant, TypeOK, factoryVars
<1>5. \A g \in Gauges : Alive(g)' => Alive(g)
  BY NoneAssumption DEF DropTemp, Alive, HandlesOf
<1> QED
  BY <1>4, <1>5, FewerAlive DEF DropTemp, RegistryInvariant, factoryVars
-----------------------------------------------------------------------------
(* The invariant of the gauge registry. *)
THEOREM RegistryInvariantHolds == Spec => []RegistryInvariant
<1>1. Init => RegistryInvariant
  BY InitEstablishes
<1>2. RegistryInvariant /\ [Next]_vars => RegistryInvariant'
  <2> SUFFICES ASSUME RegistryInvariant, [Next]_vars PROVE RegistryInvariant'
    OBVIOUS
  <2>1. CASE UNCHANGED vars
    <3>1. TypeOK'
      BY <2>1 DEF RegistryInvariant, TypeOK, vars, factoryVars, gaugeVars, reporterVars,
                  historyVars
    <3>2. \A g \in Gauges : Alive(g)' => Alive(g)
      BY <2>1 DEF vars, reporterVars, Alive, HandlesOf
    <3> QED
      BY <2>1, <3>1, <3>2, FewerAlive DEF RegistryInvariant, vars, factoryVars, gaugeVars
  <2>2. ASSUME NEW h \in Handles, NEW k \in Keys, NEW kind \in Kinds, GetGauge(h, k, kind)
        PROVE  RegistryInvariant'
    BY <2>2, GetGaugePreserves
  <2>3. ASSUME NEW h \in Handles, NEW to \in Handles, CloneHandle(h, to)
        PROVE  RegistryInvariant'
    BY <2>3, CloneHandlePreserves
  <2>4. ASSUME NEW h \in Handles, Observe(h) \/ DropHandle(h)
        PROVE  RegistryInvariant'
    BY <2>4, ObservePreserves, DropHandlePreserves
  <2>5. ASSUME NEW k \in Keys, Sweep(k) \/ Collect(k)
        PROVE  RegistryInvariant'
    BY <2>5, SweepPreserves, CollectPreserves
  <2>6. CASE Reset \/ DropTemp
    BY <2>6, ResetPreserves, DropTempPreserves
  <2>7. CASE Lock \/ NextGroup \/ Unlock \/ EndSweep \/ EndGroup
    BY <2>7, WalkPreserves
  <2> QED
    BY <2>1, <2>2, <2>3, <2>4, <2>5, <2>6, <2>7 DEF Next, ReportGauges
<1> QED
  BY <1>1, <1>2, PTL DEF Spec

(* The types of the registry's variables. *)
THEOREM TypeCorrect == Spec => []TypeOK
<1>1. RegistryInvariant => TypeOK
  BY DEF RegistryInvariant
<1> QED
  BY <1>1, RegistryInvariantHolds, PTL

(* The factory finds every gauge in use: retain() forgets only dropped gauges. *)
THEOREM GaugesInUseAreRegistered == Spec => []AliveGaugesRegistered
<1>1. RegistryInvariant => AliveGaugesRegistered
  BY DEF RegistryInvariant
<1> QED
  BY <1>1, RegistryInvariantHolds, PTL

(* All who ask for one key share one gauge. *)
THEOREM CallersShareAGauge == Spec => []OneGaugePerKey
<1>1. RegistryInvariant => OneGaugePerKey
  BY DEF RegistryInvariant, AliveGaugesRegistered, OneGaugePerKey
<1> QED
  BY <1>1, RegistryInvariantHolds, PTL
-----------------------------------------------------------------------------
(* Every entry refers to a gauge made for its key; so an observation that goes into *)
(* a gauge, or out of it, is one of the key whose entry refers to that gauge.       *)
EntriesMadeForTheirKey ==
  \A k \in Keys : registered[k] # None => keyOf[registered[k]] = k

AccountsInvariant == RegistryInvariant /\ EntriesMadeForTheirKey /\ ObservationsAccounted

(* A live gauge is the one at its key and at no other. *)
LEMMA AliveEntry ==
  ASSUME AccountsInvariant, NEW g \in Gauges, Alive(g)
  PROVE  /\ keyOf[g] \in Keys
         /\ \A k \in Keys : registered[k] = g <=> k = keyOf[g]
BY NoneAssumption DEF AccountsInvariant, RegistryInvariant, AliveGaugesRegistered,
                      EntriesMadeForTheirKey

(* Counts of one live gauge and of its key change together. *)
LEMMA OneAccount ==
  ASSUME AccountsInvariant, NEW g \in Gauges, Alive(g),
         UNCHANGED <<registered, keyOf>>,
         RegistryInvariant',
         \A g2 \in Gauges : g2 # g => pending'[g2] = pending[g2] /\ (Alive(g2) => Alive(g2)'),
         pending'[g] > 0 => Alive(g)',
         \A k \in Keys : k # keyOf[g] => /\ observed'[k] = observed[k]
                                       /\ reported'[k] = reported[k]
                                       /\ perished'[k] = perished[k],
         observed[keyOf[g]] = reported[keyOf[g]] + perished[keyOf[g]] + pending[g]
           => observed'[keyOf[g]] = reported'[keyOf[g]] + perished'[keyOf[g]] + pending'[g]
  PROVE  EntriesMadeForTheirKey' /\ ObservationsAccounted'
<1>1. EntriesMadeForTheirKey'
  BY DEF AccountsInvariant, EntriesMadeForTheirKey, Keys
<1>2. ASSUME NEW k \in Keys
      PROVE  observed'[k] = reported'[k] + perished'[k] + Held(k)'
  <2>1. CASE k = keyOf[g]
    <3>1. registered[k] = g /\ registered'[k] = g
      BY <2>1, AliveEntry
    <3>2. Held(k) = pending[g] /\ Held(k)' = pending'[g]
      BY <3>1, NoneAssumption DEF Held
    <3> QED
      BY <2>1, <3>2 DEF AccountsInvariant, ObservationsAccounted
  <2>2. CASE k # keyOf[g]
    <3>1. registered[k] # g /\ registered'[k] = registered[k]
      BY <2>2, AliveEntry
    <3>2. Held(k)' = Held(k)
      BY <3>1 DEF Held, AccountsInvariant, RegistryInvariant, TypeOK
    <3> QED
      BY <2>2, <3>2 DEF AccountsInvariant, ObservationsAccounted
  <2> QED
    BY <2>1, <2>2
<1>3. ASSUME NEW g2 \in Gauges, pending'[g2] > 0
      PROVE  Alive(g2)'
  BY <1>3 DEF AccountsInvariant, ObservationsAccounted
<1> QED
  BY <1>1, <1>2, <1>3 DEF ObservationsAccounted, Keys

(* A step that leaves all counts alone, and all gauges in use. *)
LEMMA NoAccount ==
  ASSUME AccountsInvariant, UNCHANGED <<registered, gaugeVars, historyVars>>,
         \A g \in Gauges : Alive(g) => Alive(g)'
  PROVE  EntriesMadeForTheirKey' /\ ObservationsAccounted'
BY DEF AccountsInvariant, EntriesMadeForTheirKey, ObservationsAccounted, Held, Keys, gaugeVars,
       historyVars

LEMMA GetGaugeAccounts ==
  ASSUME AccountsInvariant, NEW h \in Handles, NEW k \in Keys, NEW kind \in Kinds,
         GetGauge(h, k, kind)
  PROVE  EntriesMadeForTheirKey' /\ ObservationsAccounted'
<1>1. \A g \in Gauges : Alive(g) => Alive(g)'
  BY NoneAssumption DEF GetGauge, Vend, AccountsInvariant, RegistryInvariant, TypeOK, Alive,
                        HandlesOf, NoHandle, reporterVars
<1>2. CASE UNCHANGED <<registered, gaugeVars>>
  BY <1>1, <1>2, NoAccount DEF GetGauge
<1>3. ASSUME ~Alive(registered[k]), NEW n \in Unused,
             Make(k, n, kind), registered' = [registered EXCEPT ![k] = n], Vend(h, n, kind)
      PROVE  EntriesMadeForTheirKey' /\ ObservationsAccounted'
  <2>1. /\ n \in Gauges /\ ~Alive(n)
        /\ \A k2 \in Keys : registered[k2] # n
    BY <1>3 DEF Unused
  <2>2. pending[n] = 0 /\ pending' = pending
    BY <1>3, <2>1 DEF Make, AccountsInvariant, ObservationsAccounted, RegistryInvariant, TypeOK
  <2>3. Held(k) = 0 /\ Held(k)' = 0
    BY <1>3, <2>1, <2>2 DEF Held, AccountsInvariant, ObservationsAccounted, RegistryInvariant,
                            TypeOK
  <2>4. \A k2 \in Keys : k2 # k => Held(k2)' = Held(k2)
    BY <1>3, <2>2 DEF Held, AccountsInvariant, RegistryInvariant, TypeOK
  <2>5. UNCHANGED historyVars
    BY DEF GetGauge
  <2>6. ObservationsAccounted'
    BY <1>1, <2>2, <2>3, <2>4, <2>5 DEF ObservationsAccounted, AccountsInvariant, historyVars,
                                        Keys
  <2>7. EntriesMadeForTheirKey'
    BY <1>3, <2>1 DEF EntriesMadeForTheirKey, AccountsInvariant, RegistryInvariant, TypeOK, Make,
                      Keys
  <2> QED
    BY <2>6, <2>7
<1> QED
  BY <1>2, <1>3 DEF GetGauge

LEMMA ObserveAccounts ==
  ASSUME AccountsInvariant, RegistryInvariant', NEW h \in Handles, Observe(h)
  PROVE  EntriesMadeForTheirKey' /\ ObservationsAccounted'
<1> DEFINE g == handle[h].gauge
<1>1. g \in Gauges /\ Alive(g) /\ keyOf[g] \in Keys
  BY HandleInUse DEF Observe, AccountsInvariant
<1>2. \A g2 : Alive(g2)' <=> Alive(g2)
  BY DEF Observe, Alive, HandlesOf, reporterVars
<1>3. /\ pending'[g] = pending[g] + 1
      /\ observed'[keyOf[g]] = observed[keyOf[g]] + 1
      /\ \A g2 \in Gauges : g2 # g => pending'[g2] = pending[g2]
      /\ \A k \in Keys : k # keyOf[g] => observed'[k] = observed[k]
  BY <1>1 DEF Observe, AccountsInvariant, RegistryInvariant, TypeOK
<1>4. UNCHANGED <<registered, keyOf, reported, perished>>
  BY DEF Observe, factoryVars
<1>5. /\ observed[keyOf[g]] \in Nat /\ reported[keyOf[g]] \in Nat
      /\ perished[keyOf[g]] \in Nat /\ pending[g] \in Nat
  BY <1>1 DEF AccountsInvariant, RegistryInvariant, TypeOK
<1> HIDE DEF g
<1> QED
  BY <1>1, <1>2, <1>3, <1>4, <1>5, OneAccount

(* The last reference to a live gauge is dropped, or another one. *)
LEMMA DroppedAccounts ==
  ASSUME AccountsInvariant, RegistryInvariant', NEW g \in Gauges, Alive(g),
         NEW last \in BOOLEAN, Dropped(g, last),
         UNCHANGED <<registered, keyOf, observed, reported>>,
         \A g2 \in Gauges : g2 # g => (Alive(g2) => Alive(g2)'),
         ~last => Alive(g)'
  PROVE  EntriesMadeForTheirKey' /\ ObservationsAccounted'
<1>1. keyOf[g] \in Keys
  BY AliveEntry
<1>2. /\ observed[keyOf[g]] \in Nat /\ reported[keyOf[g]] \in Nat
      /\ perished[keyOf[g]] \in Nat /\ pending[g] \in Nat
  BY <1>1 DEF AccountsInvariant, RegistryInvariant, TypeOK
<1>3. /\ \A g2 \in Gauges : g2 # g => pending'[g2] = pending[g2]
      /\ \A k \in Keys : k # keyOf[g] => perished'[k] = perished[k]
      /\ perished'[keyOf[g]] + pending'[g] = perished[keyOf[g]] + pending[g]
      /\ perished'[keyOf[g]] \in Nat
      /\ last => pending'[g] = 0
  BY <1>1, <1>2 DEF Dropped, AccountsInvariant, RegistryInvariant, TypeOK
<1>4. pending'[g] \in Nat
  BY <1>2 DEF RegistryInvariant, TypeOK
<1>5. pending'[g] > 0 => Alive(g)'
  BY <1>3, <1>4
<1> QED
  BY <1>1, <1>2, <1>3, <1>4, <1>5, OneAccount

LEMMA DropHandleAccounts ==
  ASSUME AccountsInvariant, RegistryInvariant', NEW h \in Handles, DropHandle(h)
  PROVE  EntriesMadeForTheirKey' /\ ObservationsAccounted'
<1>1. handle[h].gauge \in Gauges /\ Alive(handle[h].gauge)
  BY HandleInUse DEF DropHandle, AccountsInvariant
<1>2. PICK g \in Gauges : g = handle[h].gauge
  BY <1>1
<1>3. PICK last \in BOOLEAN : last = (HandlesOf(g) = {h} /\ temp # g)
  OBVIOUS
<1>4. Alive(g) /\ Dropped(g, last) /\ UNCHANGED <<registered, keyOf, observed, reported>>
  BY <1>1, <1>2, <1>3 DEF DropHandle, factoryVars
<1>5. \A g2 \in Gauges : g2 # g => (Alive(g2) => Alive(g2)')
  BY <1>2 DEF DropHandle, AccountsInvariant, RegistryInvariant, TypeOK, Alive, HandlesOf,
              reporterVars
<1>6. ~last => Alive(g)'
  <2>1. CASE temp = g
    BY <2>1 DEF DropHandle, Alive, reporterVars
  <2>2. CASE HandlesOf(g) # {h}
    <3>1. PICK h2 \in Handles : h2 # h /\ handle[h2].gauge = g
      BY <1>2, <2>2 DEF HandlesOf
    <3>2. handle'[h2].gauge = g
      BY <3>1 DEF DropHandle, AccountsInvariant, RegistryInvariant, TypeOK
    <3> QED
      BY <3>1, <3>2 DEF Alive, HandlesOf
  <2> QED
    BY <1>3, <2>1, <2>2
<1> QED
  BY <1>4, <1>5, <1>6, DroppedAccounts

LEMMA DropTempAccounts ==
  ASSUME AccountsInvariant, RegistryInvariant', DropTemp
  PROVE  EntriesMadeForTheirKey' /\ ObservationsAccounted'
<1> DEFINE last == HandlesOf(temp) = {}
<1>1. temp \in Gauges /\ Alive(temp)
  BY TempInUse DEF DropTemp, UpgradedSteps, AccountsInvariant
<1>2. \A g2 \in Gauges : g2 # temp => (Alive(g2) => Alive(g2)')
  BY DEF DropTemp, Alive, HandlesOf
<1>3. ~last => temp \in Gauges /\ \E h \in Handles : handle'[h].gauge = temp
  BY <1>1 DEF DropTemp, HandlesOf
<1>4. \A g \in Gauges : g = temp /\ ~last => Alive(g)'
  BY <1>3 DEF Alive, HandlesOf
<1>5. Dropped(temp, last) /\ UNCHANGED <<registered, keyOf, observed, reported>>
  BY DEF DropTemp, factoryVars
<1>6. last \in BOOLEAN
  OBVIOUS
<1>7. PICK g \in Gauges : g = temp
  BY <1>1
<1> HIDE DEF last
<1> QED
  BY <1>1, <1>2, <1>4, <1>5, <1>6, <1>7, DroppedAccounts

(* Before an upgrade the reporter refers to no gauge. *)
LEMMA UpgradeLosesNone ==
  ASSUME AccountsInvariant, NEW k \in Keys, NEW alive, Upgrade(k, alive), pc \in PassSteps
  PROVE  \A g \in Gauges : Alive(g) => Alive(g)'
<1>1. temp \notin Gauges
  BY NoneAssumption DEF AccountsInvariant, RegistryInvariant, TypeOK, PassSteps, UpgradedSteps
<1>2. handle' = handle
  BY DEF Upgrade
<1> QED
  BY <1>1, <1>2 DEF Alive, HandlesOf

LEMMA SweepAccounts ==
  ASSUME AccountsInvariant, NEW k \in Keys, Sweep(k)
  PROVE  EntriesMadeForTheirKey' /\ ObservationsAccounted'
<1>1. \A g \in Gauges : Alive(g) => Alive(g)'
  BY UpgradeLosesNone DEF Sweep, PassSteps
<1>2. CASE Alive(registered[k])
  <2>1. registered' = registered
    BY <1>2 DEF Sweep, AccountsInvariant, RegistryInvariant, TypeOK
  <2> QED
    BY <1>1, <2>1, NoAccount DEF Sweep, Upgrade
<1>3. CASE ~Alive(registered[k])
  <2>1. registered' = [registered EXCEPT ![k] = None]
    BY <1>3 DEF Sweep
  <2>2. Held(k) = 0
    BY <1>3 DEF Held, AccountsInvariant, ObservationsAccounted, RegistryInvariant, TypeOK
  <2>3. UNCHANGED <<gaugeVars, historyVars>>
    BY DEF Sweep, Upgrade
  <2>4. \A k2 \in Keys : Held(k2)' = Held(k2)
    BY <2>1, <2>2, <2>3 DEF Held, AccountsInvariant, RegistryInvariant, TypeOK, gaugeVars
  <2>5. ObservationsAccounted'
    BY <1>1, <2>3, <2>4 DEF ObservationsAccounted, AccountsInvariant, gaugeVars, historyVars,
                            Keys
  <2>6. EntriesMadeForTheirKey'
    BY <2>1, <2>3 DEF EntriesMadeForTheirKey, AccountsInvariant, RegistryInvariant, TypeOK,
                      gaugeVars, Keys
  <2> QED
    BY <2>5, <2>6
<1> QED
  BY <1>2, <1>3

LEMMA CollectAccounts ==
  ASSUME AccountsInvariant, NEW k \in Keys, Collect(k)
  PROVE  EntriesMadeForTheirKey' /\ ObservationsAccounted'
<1>1. \A g \in Gauges : Alive(g) => Alive(g)'
  BY UpgradeLosesNone DEF Collect, PassSteps
<1> QED
  BY <1>1, NoAccount DEF Collect, Upgrade

LEMMA ResetAccounts ==
  ASSUME AccountsInvariant, RegistryInvariant', Reset
  PROVE  EntriesMadeForTheirKey' /\ ObservationsAccounted'
<1>1. temp \in Gauges /\ Alive(temp) /\ keyOf[temp] \in Keys
  BY TempInUse DEF Reset, UpgradedSteps, AccountsInvariant
<1>2. PICK g \in Gauges : g = temp
  BY <1>1
<1>3. \A g2 : Alive(g2)' <=> Alive(g2)
  BY DEF Reset, Alive, HandlesOf
<1>4. /\ pending'[g] = 0
      /\ reported'[keyOf[g]] = reported[keyOf[g]] + pending[g]
      /\ \A g2 \in Gauges : g2 # g => pending'[g2] = pending[g2]
      /\ \A k \in Keys : k # keyOf[g] => reported'[k] = reported[k]
  BY <1>1, <1>2 DEF Reset, AccountsInvariant, RegistryInvariant, TypeOK
<1>5. UNCHANGED <<registered, keyOf, observed, perished>>
  BY DEF Reset, factoryVars
<1>6. /\ observed[keyOf[g]] \in Nat /\ reported[keyOf[g]] \in Nat
      /\ perished[keyOf[g]] \in Nat /\ pending[g] \in Nat
  BY <1>1, <1>2 DEF AccountsInvariant, RegistryInvariant, TypeOK
<1>7. keyOf[g] \in Keys /\ Alive(g)
  BY <1>1, <1>2
<1>8. pending'[g] > 0 => Alive(g)'
  BY <1>3, <1>7
<1>9. observed[keyOf[g]] = reported[keyOf[g]] + perished[keyOf[g]] + pending[g]
        => observed'[keyOf[g]] = reported'[keyOf[g]] + perished'[keyOf[g]] + pending'[g]
  BY <1>4, <1>5, <1>6
<1> QED
  BY <1>3, <1>4, <1>5, <1>7, <1>8, <1>9, OneAccount

(* No observation of a gauge is lost or counted twice. *)
THEOREM ObservationsAreAccounted == Spec => []ObservationsAccounted
<1>1. Init => AccountsInvariant
  <2> SUFFICES ASSUME Init PROVE AccountsInvariant
    OBVIOUS
  <2>1. EntriesMadeForTheirKey /\ ObservationsAccounted
    BY DEF Init, EntriesMadeForTheirKey, ObservationsAccounted, Held
  <2> QED
    BY <2>1, InitEstablishes DEF AccountsInvariant
<1>2. AccountsInvariant /\ RegistryInvariant' /\ [Next]_vars => AccountsInvariant'
  <2> SUFFICES ASSUME AccountsInvariant, RegistryInvariant', [Next]_vars
               PROVE  EntriesMadeForTheirKey' /\ ObservationsAccounted'
    BY DEF AccountsInvariant
  <2>1. CASE UNCHANGED vars
    <3>1. \A g \in Gauges : Alive(g) => Alive(g)'
      BY <2>1 DEF vars, reporterVars, Alive, HandlesOf
    <3> QED
      BY <2>1, <3>1, NoAccount DEF vars, factoryVars
  <2>2. ASSUME NEW h \in Handles, NEW k \in Keys, NEW kind \in Kinds, GetGauge(h, k, kind)
        PROVE  EntriesMadeForTheirKey' /\ ObservationsAccounted'
    BY <2>2, GetGaugeAccounts
  <2>3. ASSUME NEW h \in Handles, NEW to \in Handles, CloneHandle(h, to)
        PROVE  EntriesMadeForTheirKey' /\ ObservationsAccounted'
    <3>1. \A g \in Gauges : Alive(g) => Alive(g)'
      BY <2>3, NoneAssumption DEF CloneHandle, Alive, HandlesOf, AccountsInvariant,
                                  RegistryInvariant, TypeOK, NoHandle, reporterVars
    <3> QED
      BY <2>3, <3>1, NoAccount DEF CloneHandle, factoryVars
  <2>4. ASSUME NEW h \in Handles, Observe(h) \/ DropHandle(h)
        PROVE  EntriesMadeForTheirKey' /\ ObservationsAccounted'
    BY <2>4, ObserveAccounts, DropHandleAccounts
  <2>5. ASSUME NEW k \in Keys, Sweep(k) \/ Collect(k)
        PROVE  EntriesMadeForTheirKey' /\ ObservationsAccounted'
    BY <2>5, SweepAccounts, CollectAccounts
  <2>6. CASE Reset \/ DropTemp
    BY <2>6, ResetAccounts, DropTempAccounts
  <2>7. CASE Lock \/ NextGroup \/ Unlock \/ EndSweep \/ EndGroup
    <3>1. UNCHANGED <<factoryVars, gaugeVars, handle, temp, historyVars>>
      BY <2>7 DEF Lock, NextGroup, Unlock, EndSweep, EndGroup
    <3>2. \A g \in Gauges : Alive(g) => Alive(g)'
      BY <3>1 DEF Alive, HandlesOf
    <3> QED
      BY <3>1, <3>2, NoAccount DEF factoryVars
  <2> QED
    BY <2>1, <2>2, <2>3, <2>4, <2>5, <2>6, <2>7 DEF Next, ReportGauges
<1>3. AccountsInvariant => ObservationsAccounted
  BY DEF AccountsInvariant
<1> QED
  BY <1>1, <1>2, <1>3, RegistryInvariantHolds, PTL DEF Spec
=============================================================================
