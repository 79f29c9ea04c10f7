---------------------------- MODULE ArcAllocator ----------------------------
(***************************************************************************)
(* ArcAllocator (goodmetrics/src/allocator/arc_allocator.rs): Metrics      *)
(* objects are kept for reuse in a few caches, each behind a Mutex.  Every *)
(* call takes the next slot from a shared clock and tries the lock of that *)
(* slot's cache once: new_metrics() makes a new object when the lock is    *)
(* taken or the cache is empty, and a dropped object is destroyed when the *)
(* lock is taken or the cache is full.                                     *)
(*                                                                         *)
(* A call is a sequence of steps of its thread: take a slot, try its lock, *)
(* use the cache and unlock, hand the object out.  A vended object may be  *)
(* dropped by any thread: the aggregator drops what application threads    *)
(* have sent it.                                                           *)
(*                                                                         *)
(* The clock of the code wraps at 2^64, a multiple of the 8 slots: only    *)
(* its value modulo Slots matters.                                         *)
(***************************************************************************)
EXTENDS Naturals, Sequences, SequencesExt

CONSTANTS Threads,
          Objects,        \* Metrics objects, identified by their allocation
          None,           \* no object, no thread
          Slots,          \* 8
          SlotCapacity,   \* capacity of a cache's Vec: max(16, cache_size / 8)
          Behaviors,      \* the bits of MetricsBehavior
          MaxRefs         \* bound: vended objects and calls at any time

ASSUME NoneAssumption == None \notin Threads /\ None \notin Objects
ASSUME SlotsAssumption == Slots \in Nat \ {0} /\ SlotCapacity \in Nat

VARIABLES
  cache,      \* metrics_cache: the Vec of each slot
  locked,     \* who holds the Mutex of each slot
  clock,      \* cache_clock
  pc,         \* where each thread is
  slot,       \* the slot of its running call
  local,      \* the object its running call has in hand
  refs,       \* objects behind a live CachedMetrics
  recorded,   \* objects that hold dimensions, measurements or guards
  behaviors   \* the behavior bits of each object

callVars == <<pc, slot, local>>
contentVars == <<recorded, behaviors>>
vars == <<cache, locked, clock, callVars, refs, contentVars>>

SlotIds == 0..(Slots - 1)
NewSteps == {"tryNew", "pop", "fill"}
DropSteps == {"tryReturn", "push"}

Cached == UNION {ToSet(cache[s]) : s \in SlotIds}
InHand == {local[t] : t \in Threads} \ {None}
Known == Cached \cup InHand \cup refs

TypeOK ==
  /\ cache \in [SlotIds -> Seq(Objects)]
  /\ \A s \in SlotIds : Len(cache[s]) <= SlotCapacity
  /\ locked \in [SlotIds -> Threads \cup {None}]
  /\ clock \in SlotIds
  /\ pc \in [Threads -> NewSteps \cup DropSteps \cup {"idle"}]
  /\ slot \in [Threads -> SlotIds]
  /\ local \in [Threads -> Objects \cup {None}]
  /\ refs \in SUBSET Objects
  /\ recorded \in SUBSET Objects
  /\ behaviors \in [Objects -> SUBSET Behaviors]

Init ==
  /\ cache = [s \in SlotIds |-> <<>>]
  /\ locked = [s \in SlotIds |-> None]
  /\ clock = 0
  /\ pc = [t \in Threads |-> "idle"]
  /\ slot = [t \in Threads |-> 0]
  /\ local = [t \in Threads |-> None]
  /\ refs = {}
  /\ recorded = {}
  /\ behaviors = [o \in Objects |-> {}]
-----------------------------------------------------------------------------
(* slot = cache_clock.fetch_add(1) % metrics_cache.len() *)
TakeSlot(t, next) ==
  /\ pc[t] = "idle"
  /\ pc' = [pc EXCEPT ![t] = next]
  /\ slot' = [slot EXCEPT ![t] = clock]
  /\ clock' = (clock + 1) % Slots

Calls == {t \in Threads : pc[t] \in NewSteps}

(* new_metrics() begins. *)
NewMetrics(t) ==
  /\ Cardinality(refs) + Cardinality(Calls) < MaxRefs
  /\ TakeSlot(t, "tryNew")
  /\ UNCHANGED <<cache, locked, local, refs, contentVars>>

(* metrics_cache[slot].try_lock() *)
TryLock(t, from, whenLocked, otherwise) ==
  /\ pc[t] = from
  /\ \/ /\ locked[slot[t]] = None
        /\ locked' = [locked EXCEPT ![slot[t]] = t]
        /\ pc' = [pc EXCEPT ![t] = whenLocked]
     \/ /\ locked[slot[t]] # None
        /\ locked' = locked
        /\ pc' = [pc EXCEPT ![t] = otherwise]

TryNew(t) ==
  /\ TryLock(t, "tryNew", "pop", "fill")
  /\ UNCHANGED <<cache, clock, slot, local, refs, contentVars>>

Unlock(t) == locked' = [locked EXCEPT ![slot[t]] = None]

(* Faulty variant: last() in place of pop(). *)
PopPeeking(t) ==
  /\ pc[t] = "pop"
  /\ local' = [local EXCEPT ![t] =
                 IF cache[slot[t]] = <<>> THEN None ELSE Last(cache[slot[t]])]
  /\ Unlock(t)
  /\ pc' = [pc EXCEPT ![t] = "fill"]
  /\ UNCHANGED <<cache, clock, slot, refs, contentVars>>

(* cache.pop(): the object put in last, if there is one. *)
Pop(t) ==
  /\ pc[t] = "pop"
  /\ \/ /\ cache[slot[t]] = <<>>
        /\ UNCHANGED <<cache, local>>
     \/ /\ cache[slot[t]] # <<>>
        /\ local' = [local EXCEPT ![t] = Last(cache[slot[t]])]
        /\ cache' = [cache EXCEPT ![slot[t]] = Front(@)]
  /\ Unlock(t)
  /\ pc' = [pc EXCEPT ![t] = "fill"]
  /\ UNCHANGED <<clock, slot, refs, contentVars>>

(* CachedMetrics { metrics: Some(o) } *)
HandOut(t, o) ==
  /\ refs' = refs \cup {o}
  /\ local' = [local EXCEPT ![t] = None]
  /\ pc' = [pc EXCEPT ![t] = "idle"]
  /\ UNCHANGED <<cache, locked, clock, slot>>

(* Faulty variant: the behaviors of a reused object are left to restart(). *)
ReuseKeepingBehaviors(t) ==
  /\ pc[t] = "fill"
  /\ local[t] # None
  /\ recorded' = recorded \ {local[t]}
  /\ behaviors' = behaviors
  /\ HandOut(t, local[t])

(* Some(reused_metrics): restart() and the default behavior. *)
Reuse(t) ==
  /\ pc[t] = "fill"
  /\ local[t] # None
  /\ recorded' = recorded \ {local[t]}
  /\ behaviors' = [behaviors EXCEPT ![local[t]] = {}]
  /\ HandOut(t, local[t])

(* None: Metrics::new(). *)
Allocate(t) ==
  /\ pc[t] = "fill"
  /\ local[t] = None
  /\ \E o \in Objects \ Known :
       /\ recorded' = recorded \ {o}
       /\ behaviors' = [behaviors EXCEPT ![o] = {}]
       /\ HandOut(t, o)
-----------------------------------------------------------------------------
(* The holder of a vended object records into it, which a suppressed one ignores, *)
(* or adds a behavior.                                                            *)
Use(o) ==
  /\ o \in refs
  /\ \/ /\ "Suppress" \notin behaviors[o]
        /\ recorded' = recorded \cup {o}
        /\ behaviors' = behaviors
     \/ \E b \in Behaviors :
          /\ recorded' = recorded
          /\ behaviors' = [behaviors EXCEPT ![o] = @ \cup {b}]
  /\ UNCHANGED <<cache, locked, clock, callVars, refs>>
-----------------------------------------------------------------------------
(* CachedMetrics::drop: return_instance() begins. *)
DropMetrics(t, o) ==
  /\ o \in refs
  /\ refs' = refs \ {o}
  /\ TakeSlot(t, "tryReturn")
  /\ local' = [local EXCEPT ![t] = o]
  /\ UNCHANGED <<cache, locked, contentVars>>

(* A failed try_lock destroys the object. *)
TryReturn(t) ==
  /\ TryLock(t, "tryReturn", "push", "idle")
  /\ local' = IF pc'[t] = "idle" THEN [local EXCEPT ![t] = None] ELSE local
  /\ UNCHANGED <<cache, clock, slot, refs, contentVars>>

(* Faulty variant: the capacity is compared one too late. *)
PushOverfull(t) ==
  /\ pc[t] = "push"
  /\ cache' = IF Len(cache[slot[t]]) <= SlotCapacity
              THEN [cache EXCEPT ![slot[t]] = Append(@, local[t])] ELSE cache
  /\ recorded' = recorded \ {local[t]}
  /\ local' = [local EXCEPT ![t] = None]
  /\ Unlock(t)
  /\ pc' = [pc EXCEPT ![t] = "idle"]
  /\ UNCHANGED <<clock, slot, refs, behaviors>>

(* With the lock: restart() and push(), unless the cache is full. *)
Push(t) ==
  /\ pc[t] = "push"
  /\ \/ /\ Len(cache[slot[t]]) < SlotCapacity
        /\ cache' = [cache EXCEPT ![slot[t]] = Append(@, local[t])]
        /\ recorded' = recorded \ {local[t]}
     \/ /\ Len(cache[slot[t]]) >= SlotCapacity
        /\ UNCHANGED <<cache, recorded>>
  /\ local' = [local EXCEPT ![t] = None]
  /\ Unlock(t)
  /\ pc' = [pc EXCEPT ![t] = "idle"]
  /\ UNCHANGED <<clock, slot, refs, behaviors>>

GoOn(t) ==
  \/ TryNew(t)
  \/ Pop(t)
  \/ Reuse(t)
  \/ Allocate(t)
  \/ TryReturn(t)
  \/ Push(t)
-----------------------------------------------------------------------------
Next ==
  \/ \E t \in Threads : NewMetrics(t) \/ GoOn(t)
  \/ \E t \in Threads, o \in Objects : DropMetrics(t, o)
  \/ \E o \in Objects : Use(o)

Spec == Init /\ [][Next]_vars

(* Threads that make and drop objects for ever. *)
FairSpec ==
  /\ Spec
  /\ \A t \in Threads :
       /\ WF_vars(NewMetrics(t))
       /\ WF_vars(GoOn(t))
       /\ WF_vars(\E o \in Objects : DropMetrics(t, o))
-----------------------------------------------------------------------------
(* Properties *)

(* mod.rs:38: "Return a clean Metrics instance, possibly reused."  Whatever was     *)
(* recorded into an object, or suppressed in it, does not come back with it.        *)
VendedClean ==
  [][\A o \in refs' \ refs : o \notin recorded' /\ behaviors'[o] = {}]_vars

(* An object is in one place only: in one cache, once, or in one call, or vended.   *)
OnePlace ==
  /\ \A s \in SlotIds : IsInjective(cache[s])
  /\ \A s, u \in SlotIds : s # u => ToSet(cache[s]) \cap ToSet(cache[u]) = {}
  /\ \A s \in SlotIds : ToSet(cache[s]) \cap (InHand \cup refs) = {}
  /\ InHand \cap refs = {}
  /\ \A t, u \in Threads : t # u => local[t] = None \/ local[t] # local[u]

Pool == INSTANCE ObjectPool WITH
  idle <- Cached, vended <- refs \cup InHand

(* The caches implement an object pool: while somebody has an object in hand nobody *)
(* else is given it, through whichever slots, locks and threads it has gone.        *)
ImplementsPool == Pool!Spec

(* arc_allocator.rs:17: "A metrics allocator that prioritizes reusing Metrics       *)
(* objects" - whoever goes on making and dropping objects goes on reusing some.     *)
ReuseRecurs == []<><<\E t \in Threads : Reuse(t)>>_vars
=============================================================================
