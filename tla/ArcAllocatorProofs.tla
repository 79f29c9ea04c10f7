------------------------- MODULE ArcAllocatorProofs -------------------------
(***************************************************************************)
(* That the allocator's caches implement an object pool: an object is in   *)
(* one place only, is vended clean and to nobody else meanwhile, for any   *)
(* threads, slots and capacities.                                          *)
(*                                                                         *)
(* OnePlace becomes inductive with HandsFull, which says at which steps of *)
(* a call its thread has an object in hand: without it an object could be  *)
(* forgotten there, or nothing be put into a cache.                        *)
(***************************************************************************)
EXTENDS ArcAllocator, SequenceTheorems, TLAPS

(* A call has an object in hand from Pop, or from its drop, on. *)
HandsFull ==
  \A t \in Threads :
    /\ local[t] # None => pc[t] \in {"fill", "tryReturn", "push"}
    /\ pc[t] \in DropSteps => local[t] # None

PoolInvariant == TypeOK /\ OnePlace /\ HandsFull

(* The invariant and, for the refinement, the abstract step it takes. *)
GoodStep == PoolInvariant' /\ [Pool!Next]_<<Cached, refs \cup InHand>>
-----------------------------------------------------------------------------
(* A cache as a stack *)
LEMMA AppendFacts ==
  ASSUME NEW S, NEW q \in Seq(S), NEW o \in S
  PROVE  /\ Append(q, o) \in Seq(S) /\ Len(Append(q, o)) = Len(q) + 1
         /\ ToSet(Append(q, o)) = ToSet(q) \cup {o}
         /\ IsInjective(q) /\ o \notin ToSet(q) => IsInjective(Append(q, o))
<1>1. /\ Append(q, o) \in Seq(S) /\ Len(Append(q, o)) = Len(q) + 1
      /\ Append(q, o)[Len(q) + 1] = o
      /\ \A i \in DOMAIN q : Append(q, o)[i] = q[i]
      /\ DOMAIN Append(q, o) = DOMAIN q \cup {Len(q) + 1}
  OBVIOUS
<1>2. ToSet(Append(q, o)) = ToSet(q) \cup {o}
  BY <1>1, Zenon DEF ToSet
<1>3. ASSUME IsInjective(q), o \notin ToSet(q) PROVE IsInjective(Append(q, o))
  BY <1>1, <1>3 DEF IsInjective, ToSet
<1> QED
  BY <1>1, <1>2, <1>3

LEMMA FrontFacts ==
  ASSUME NEW S, NEW q \in Seq(S), q # <<>>
  PROVE  /\ Front(q) \in Seq(S) /\ Len(Front(q)) = Len(q) - 1
         /\ Last(q) \in S /\ Last(q) \in ToSet(q)
         /\ ToSet(q) = ToSet(Front(q)) \cup {Last(q)}
         /\ IsInjective(q) => IsInjective(Front(q)) /\ Last(q) \notin ToSet(Front(q))
<1>1. Len(q) \in Nat \ {0} /\ DOMAIN q = 1..Len(q)
  OBVIOUS
<1>2. /\ Front(q) \in Seq(S) /\ Len(Front(q)) = Len(q) - 1
      /\ DOMAIN Front(q) = 1..(Len(q) - 1)
      /\ \A i \in 1..(Len(q) - 1) : Front(q)[i] = q[i]
  BY <1>1, SubSeqProperties DEF Front
<1>3. Last(q) \in S /\ Last(q) \in ToSet(q)
  BY <1>1 DEF Last, ToSet
<1>4. ASSUME NEW i \in DOMAIN q PROVE q[i] \in ToSet(Front(q)) \cup {Last(q)}
  BY <1>1, <1>2 DEF Last, ToSet
<1>5. ToSet(Front(q)) \subseteq ToSet(q)
  BY <1>1, <1>2 DEF ToSet
<1>6. ASSUME IsInjective(q)
      PROVE  IsInjective(Front(q)) /\ Last(q) \notin ToSet(Front(q))
  BY <1>1, <1>2, <1>6 DEF IsInjective, ToSet, Last
<1>7. ToSet(q) = ToSet(Front(q)) \cup {Last(q)}
  BY <1>3, <1>4, <1>5 DEF ToSet
<1> QED
  BY <1>2, <1>3, <1>6, <1>7

(* What a thread has in hand *)
LEMMA HandFills ==
  ASSUME TypeOK, NEW t \in Threads, NEW o \in Objects,
         local[t] = None, local' = [local EXCEPT ![t] = o]
  PROVE  InHand' = InHand \cup {o}
<1>1. local'[t] = o /\ \A u \in Threads \ {t} : local'[u] = local[u]
  BY DEF TypeOK
<1> QED
  BY <1>1, NoneAssumption DEF InHand

LEMMA HandEmpties ==
  ASSUME TypeOK, OnePlace, NEW t \in Threads,
         local[t] # None, local' = [local EXCEPT ![t] = None]
  PROVE  InHand' = InHand \ {local[t]} /\ local[t] \in InHand
<1>1. local'[t] = None /\ \A u \in Threads \ {t} : local'[u] = local[u]
  BY DEF TypeOK
<1>2. \A u \in Threads \ {t} : local[u] # local[t]
  BY DEF OnePlace
<1> QED
  BY <1>1, <1>2 DEF InHand

(* Popping takes an object out of all caches ... *)
LEMMA CachePops ==
  ASSUME TypeOK, OnePlace, NEW s \in SlotIds, cache[s] # <<>>,
         cache' = [cache EXCEPT ![s] = Front(@)]
  PROVE  /\ Last(cache[s]) \in Objects /\ Last(cache[s]) \in ToSet(cache[s])
         /\ cache' \in [SlotIds -> Seq(Objects)]
         /\ \A u \in SlotIds : /\ Len(cache'[u]) <= SlotCapacity
                               /\ IsInjective(cache'[u])
                               /\ ToSet(cache'[u]) = ToSet(cache[u]) \ {Last(cache[s])}
<1> DEFINE o == Last(cache[s])
<1>1. cache[s] \in Seq(Objects) /\ IsInjective(cache[s]) /\ Len(cache[s]) <= SlotCapacity
  BY DEF TypeOK, OnePlace
<1>2. /\ Front(cache[s]) \in Seq(Objects) /\ Len(Front(cache[s])) = Len(cache[s]) - 1
      /\ o \in Objects /\ o \in ToSet(cache[s])
      /\ ToSet(cache[s]) = ToSet(Front(cache[s])) \cup {o}
      /\ IsInjective(Front(cache[s])) /\ o \notin ToSet(Front(cache[s]))
  BY <1>1, FrontFacts
<1>3. /\ cache' \in [SlotIds -> Seq(Objects)]
      /\ cache'[s] = Front(cache[s])
      /\ \A u \in SlotIds \ {s} : cache'[u] = cache[u]
  BY <1>2 DEF TypeOK
<1>4. Len(Front(cache[s])) <= SlotCapacity
  BY <1>1, <1>2, SlotsAssumption
<1>5. \A u \in SlotIds \ {s} : o \notin ToSet(cache[u])
  BY <1>2 DEF OnePlace
<1>6. ASSUME NEW u \in SlotIds
      PROVE  /\ Len(cache'[u]) <= SlotCapacity
             /\ IsInjective(cache'[u])
             /\ ToSet(cache'[u]) = ToSet(cache[u]) \ {o}
  <2>1. CASE u = s
    BY <1>2, <1>3, <1>4, <2>1
  <2>2. CASE u # s
    BY <1>3, <1>5, <2>2 DEF TypeOK, OnePlace
  <2> QED
    BY <2>1, <2>2
<1> QED
  BY <1>2, <1>3, <1>6

(* ... and pushing puts one that is in none of them into one. *)
LEMMA CachePushes ==
  ASSUME TypeOK, OnePlace, NEW s \in SlotIds, NEW o \in Objects,
         Len(cache[s]) < SlotCapacity, o \notin Cached,
         cache' = [cache EXCEPT ![s] = Append(@, o)]
  PROVE  /\ cache' \in [SlotIds -> Seq(Objects)]
         /\ \A u \in SlotIds :
              /\ Len(cache'[u]) <= SlotCapacity
              /\ IsInjective(cache'[u])
              /\ ToSet(cache'[u]) = IF u = s THEN ToSet(cache[u]) \cup {o} ELSE ToSet(cache[u])
<1>1. cache[s] \in Seq(Objects) /\ IsInjective(cache[s]) /\ o \notin ToSet(cache[s])
  BY DEF TypeOK, OnePlace, Cached
<1>2. /\ Append(cache[s], o) \in Seq(Objects) /\ Len(Append(cache[s], o)) = Len(cache[s]) + 1
      /\ ToSet(Append(cache[s], o)) = ToSet(cache[s]) \cup {o}
      /\ IsInjective(Append(cache[s], o))
  BY <1>1, AppendFacts
<1>3. Len(Append(cache[s], o)) <= SlotCapacity
  BY <1>1, <1>2, SlotsAssumption
<1>4. /\ cache' \in [SlotIds -> Seq(Objects)]
      /\ cache'[s] = Append(cache[s], o)
      /\ \A u \in SlotIds \ {s} : cache'[u] = cache[u]
  BY <1>2 DEF TypeOK
<1> QED
  BY <1>2, <1>3, <1>4 DEF TypeOK, OnePlace
-----------------------------------------------------------------------------
LEMMA PoolInit == Init => PoolInvariant /\ Pool!Init
<1> SUFFICES ASSUME Init PROVE PoolInvariant /\ Pool!Init
  OBVIOUS
<1> USE DEF Init
<1>1. TypeOK
  BY SlotsAssumption, NoneAssumption DEF TypeOK, SlotIds, NewSteps, DropSteps
<1>2. \A s \in SlotIds : ToSet(cache[s]) = {} /\ IsInjective(cache[s])
  BY DEF ToSet, IsInjective
<1>3. Cached = {} /\ InHand = {}
  BY <1>2 DEF Cached, InHand
<1>4. OnePlace
  BY <1>2, <1>3 DEF OnePlace
<1>5. HandsFull
  BY DEF HandsFull, DropSteps
<1> QED
  BY <1>1, <1>3, <1>4, <1>5 DEF PoolInvariant, Pool!Init

(* The clock stays below the number of slots. *)
LEMMA SlotTaken ==
  ASSUME TypeOK, NEW t \in Threads, NEW next \in NewSteps \cup DropSteps, TakeSlot(t, next)
  PROVE  /\ clock' \in SlotIds
         /\ slot' \in [Threads -> SlotIds]
         /\ pc' \in [Threads -> NewSteps \cup DropSteps \cup {"idle"}]
<1>1. clock + 1 \in Nat
  BY SlotsAssumption DEF TypeOK, SlotIds
<1>2. (clock + 1) % Slots \in 0..(Slots - 1)
  BY <1>1, SlotsAssumption
<1> QED
  BY <1>2 DEF TypeOK, TakeSlot, SlotIds

LEMMA NewMetricsStep ==
  ASSUME PoolInvariant, NEW t \in Threads, NewMetrics(t)
  PROVE  GoodStep
<1> USE DEF NewMetrics, PoolInvariant
<1>1. TypeOK'
  BY SlotTaken DEF TypeOK, NewSteps, contentVars
<1>2. Cached' = Cached /\ InHand' = InHand /\ refs' = refs
  BY DEF Cached, InHand
<1>3. OnePlace'
  BY <1>2 DEF OnePlace
<1>4. HandsFull'
  BY DEF HandsFull, TakeSlot, TypeOK, DropSteps
<1> QED
  BY <1>1, <1>2, <1>3, <1>4 DEF GoodStep

LEMMA DropMetricsStep ==
  ASSUME PoolInvariant, NEW t \in Threads, NEW o \in Objects, DropMetrics(t, o)
  PROVE  GoodStep
<1> USE DEF DropMetrics, PoolInvariant
<1>1. TypeOK'
  BY SlotTaken DEF TypeOK, DropSteps, contentVars
<1>2. local[t] = None /\ pc[t] = "idle"
  BY DEF HandsFull, TakeSlot
<1>3. InHand' = InHand \cup {o} /\ Cached' = Cached /\ refs' = refs \ {o}
  BY <1>2, HandFills DEF Cached
<1>4. \A u \in Threads : local[u] # o
  BY NoneAssumption DEF OnePlace, InHand
<1>5. local'[t] = o /\ \A u \in Threads \ {t} : local'[u] = local[u]
  BY DEF TypeOK
<1>6. OnePlace'
  BY <1>3, <1>4, <1>5 DEF OnePlace
<1>7. HandsFull'
  BY <1>5, NoneAssumption DEF HandsFull, TakeSlot, TypeOK, DropSteps
<1> QED
  BY <1>1, <1>3, <1>6, <1>7 DEF GoodStep

(* Trying a lock changes it and the thread's place only. *)
LEMMA LockTried ==
  ASSUME TypeOK, NEW t \in Threads, NEW from,
         NEW whenLocked \in NewSteps \cup DropSteps \cup {"idle"},
         NEW otherwise \in NewSteps \cup DropSteps \cup {"idle"},
         TryLock(t, from, whenLocked, otherwise)
  PROVE  /\ locked' \in [SlotIds -> Threads \cup {None}]
         /\ pc' \in [Threads -> NewSteps \cup DropSteps \cup {"idle"}]
<1>1. CASE /\ locked' = [locked EXCEPT ![slot[t]] = t]
           /\ pc' = [pc EXCEPT ![t] = whenLocked]
  BY <1>1 DEF TypeOK
<1>2. CASE locked' = locked /\ pc' = [pc EXCEPT ![t] = otherwise]
  BY <1>2 DEF TypeOK
<1> QED
  BY <1>1, <1>2 DEF TryLock

LEMMA TryNewStep ==
  ASSUME PoolInvariant, NEW t \in Threads, TryNew(t)
  PROVE  GoodStep
<1> USE DEF TryNew, PoolInvariant
<1>1. TypeOK'
  <2>1. TryLock(t, "tryNew", "pop", "fill")
    OBVIOUS
  <2>2. "pop" \in NewSteps /\ "fill" \in NewSteps
    BY DEF NewSteps
  <2>3. /\ locked' \in [SlotIds -> Threads \cup {None}]
        /\ pc' \in [Threads -> NewSteps \cup DropSteps \cup {"idle"}]
    BY <2>1, <2>2, LockTried
  <2> QED
    BY <2>3 DEF TypeOK, contentVars
<1>2. Cached' = Cached /\ InHand' = InHand /\ refs' = refs
  BY DEF Cached, InHand
<1>3. OnePlace'
  BY <1>2 DEF OnePlace
<1>4. HandsFull'
  BY DEF HandsFull, TypeOK, DropSteps, TryLock
<1> QED
  BY <1>1, <1>2, <1>3, <1>4 DEF GoodStep

(* A popped object is vended from here on; with an empty cache nothing happens. *)
LEMMA PopStep ==
  ASSUME PoolInvariant, NEW t \in Threads, Pop(t)
  PROVE  GoodStep
<1> DEFINE s == slot[t]
           o == Last(cache[s])
<1> USE DEF PoolInvariant
<1>1. /\ pc[t] = "pop" /\ pc' = [pc EXCEPT ![t] = "fill"] /\ s \in SlotIds
      /\ locked' = [locked EXCEPT ![s] = None]
      /\ UNCHANGED <<clock, slot, refs, recorded, behaviors>>
  BY DEF Pop, Unlock, TypeOK, contentVars
<1>2. local[t] = None
  BY <1>1 DEF HandsFull
<1>3. HandsFull'
  BY <1>1 DEF HandsFull, Pop, TypeOK, DropSteps
<1>4. CASE UNCHANGED <<cache, local>>
  <2>1. TypeOK'
    BY <1>1, <1>4 DEF TypeOK, NewSteps
  <2>2. Cached' = Cached /\ InHand' = InHand
    BY <1>4 DEF Cached, InHand
  <2>3. OnePlace'
    BY <1>1, <1>4, <2>2 DEF OnePlace
  <2> QED
    BY <1>1, <1>3, <2>1, <2>2, <2>3 DEF GoodStep
<1>5. CASE /\ cache[s] # <<>>
           /\ local' = [local EXCEPT ![t] = o]
           /\ cache' = [cache EXCEPT ![s] = Front(@)]
  <2>1. /\ o \in Objects /\ o \in ToSet(cache[s])
        /\ cache' \in [SlotIds -> Seq(Objects)]
        /\ \A u \in SlotIds : /\ Len(cache'[u]) <= SlotCapacity
                              /\ IsInjective(cache'[u])
                              /\ ToSet(cache'[u]) = ToSet(cache[u]) \ {o}
    BY <1>1, <1>5, CachePops
  <2>2. TypeOK'
    BY <1>1, <1>5, <2>1 DEF TypeOK, NewSteps
  <2>3. InHand' = InHand \cup {o}
    BY <1>2, <1>5, <2>1, HandFills
  <2>4. Cached' = Cached \ {o} /\ o \notin refs /\ o \notin InHand
    BY <1>1, <2>1 DEF Cached, OnePlace
  <2>5. \A u \in Threads : local[u] # o
    BY <2>1, <2>4, NoneAssumption DEF InHand
  <2>6. local'[t] = o /\ \A u \in Threads \ {t} : local'[u] = local[u]
    BY <1>5 DEF TypeOK
  <2>7. OnePlace'
    <3>1. \A u, w \in SlotIds : u # w => ToSet(cache'[u]) \cap ToSet(cache'[w]) = {}
      BY <2>1 DEF OnePlace
    <3>2. \A u \in SlotIds : ToSet(cache'[u]) \cap (InHand' \cup refs') = {}
      BY <1>1, <2>1, <2>3 DEF OnePlace
    <3>3. InHand' \cap refs' = {}
      BY <1>1, <2>3, <2>4 DEF OnePlace
    <3>4. \A u, w \in Threads : u # w => local'[u] = None \/ local'[u] # local'[w]
      BY <2>5, <2>6 DEF OnePlace
    <3> QED
      BY <2>1, <3>1, <3>2, <3>3, <3>4 DEF OnePlace
  <2>8. Pool!Vend(o)
    BY <1>1, <2>3, <2>4 DEF Pool!Vend
  <2> QED
    BY <1>3, <2>1, <2>2, <2>7, <2>8 DEF GoodStep, Pool!Next
<1> QED
  BY <1>4, <1>5 DEF Pop

(* A reused object stays vended: only the hands change. *)
LEMMA ReuseStep ==
  ASSUME PoolInvariant, NEW t \in Threads, Reuse(t)
  PROVE  GoodStep
<1> DEFINE o == local[t]
<1> USE DEF PoolInvariant
<1>1. /\ pc[t] = "fill" /\ o # None /\ o \in Objects
      /\ recorded' = recorded \ {o} /\ behaviors' = [behaviors EXCEPT ![o] = {}]
      /\ refs' = refs \cup {o}
      /\ local' = [local EXCEPT ![t] = None] /\ pc' = [pc EXCEPT ![t] = "idle"]
      /\ UNCHANGED <<cache, locked, clock, slot>>
  BY DEF Reuse, HandOut, TypeOK
<1>2. TypeOK'
  BY <1>1 DEF TypeOK
<1>3. InHand' = InHand \ {o} /\ o \in InHand /\ Cached' = Cached
  BY <1>1, HandEmpties DEF Cached
<1>4. local'[t] = None /\ \A u \in Threads \ {t} : local'[u] = local[u]
  BY <1>1 DEF TypeOK
<1>5. OnePlace'
  BY <1>1, <1>3, <1>4 DEF OnePlace
<1>6. HandsFull'
  BY <1>1, <1>4 DEF HandsFull, TypeOK, DropSteps
<1>7. refs' \cup InHand' = refs \cup InHand
  BY <1>1, <1>3
<1> QED
  BY <1>2, <1>3, <1>5, <1>6, <1>7 DEF GoodStep

LEMMA AllocateStep ==
  ASSUME PoolInvariant, NEW t \in Threads, Allocate(t)
  PROVE  GoodStep
<1> USE DEF PoolInvariant
<1>1. PICK o \in Objects \ Known :
        /\ recorded' = recorded \ {o}
        /\ behaviors' = [behaviors EXCEPT ![o] = {}]
        /\ HandOut(t, o)
  BY DEF Allocate
<1>2. /\ pc[t] = "fill" /\ local[t] = None
      /\ refs' = refs \cup {o}
      /\ local' = [local EXCEPT ![t] = None] /\ pc' = [pc EXCEPT ![t] = "idle"]
      /\ UNCHANGED <<cache, locked, clock, slot>>
  BY <1>1 DEF Allocate, HandOut
<1>3. local' = local
  BY <1>2 DEF TypeOK
<1>4. TypeOK'
  BY <1>1, <1>2, <1>3 DEF TypeOK
<1>5. InHand' = InHand /\ Cached' = Cached
  BY <1>2, <1>3 DEF InHand, Cached
<1>6. o \notin Cached /\ o \notin InHand /\ o \notin refs
  BY DEF Known
<1>7. \A s \in SlotIds : o \notin ToSet(cache[s])
  BY <1>6 DEF Cached
<1>8. OnePlace'
  BY <1>2, <1>3, <1>5, <1>6, <1>7 DEF OnePlace
<1>9. HandsFull'
  BY <1>2, <1>3 DEF HandsFull, TypeOK, DropSteps
<1>10. Pool!Vend(o)
  BY <1>2, <1>5, <1>6 DEF Pool!Vend
<1> QED
  BY <1>4, <1>8, <1>9, <1>10 DEF GoodStep, Pool!Next

LEMMA TryReturnStep ==
  ASSUME PoolInvariant, NEW t \in Threads, TryReturn(t)
  PROVE  GoodStep
<1> DEFINE o == local[t]
<1> USE DEF PoolInvariant
<1>1. /\ pc[t] = "tryReturn" /\ TryLock(t, "tryReturn", "push", "idle")
      /\ UNCHANGED <<cache, clock, slot, refs, recorded, behaviors>>
  BY DEF TryReturn, TryLock, contentVars
<1>2. o \in Objects /\ o # None
  BY <1>1 DEF HandsFull, DropSteps, TypeOK
<1>3. /\ locked' \in [SlotIds -> Threads \cup {None}]
      /\ pc' \in [Threads -> NewSteps \cup DropSteps \cup {"idle"}]
  BY <1>1, LockTried DEF DropSteps
<1>4. Cached' = Cached
  BY <1>1 DEF Cached
<1>5. CASE pc' = [pc EXCEPT ![t] = "push"]
  <2>1. local' = local
    BY <1>5 DEF TryReturn, TypeOK
  <2>2. InHand' = InHand
    BY <2>1 DEF InHand
  <2>3. TypeOK' /\ OnePlace'
    BY <1>1, <1>3, <2>1, <2>2 DEF TypeOK, OnePlace
  <2>4. HandsFull'
    BY <1>2, <1>5, <2>1 DEF HandsFull, TypeOK, DropSteps
  <2> QED
    BY <1>1, <1>4, <2>2, <2>3, <2>4 DEF GoodStep
<1>6. CASE pc' = [pc EXCEPT ![t] = "idle"]
  <2>1. local' = [local EXCEPT ![t] = None]
    BY <1>6 DEF TryReturn, TypeOK
  <2>2. InHand' = InHand \ {o} /\ o \in InHand
    BY <1>2, <2>1, HandEmpties
  <2>3. local'[t] = None /\ \A u \in Threads \ {t} : local'[u] = local[u]
    BY <2>1 DEF TypeOK
  <2>4. TypeOK'
    BY <1>1, <1>3, <2>1 DEF TypeOK
  <2>5. OnePlace'
    BY <1>1, <2>2, <2>3 DEF OnePlace
  <2>6. HandsFull'
    <3>1. pc'[t] = "idle" /\ \A u \in Threads \ {t} : pc'[u] = pc[u]
      BY <1>6 DEF TypeOK
    <3> QED
      BY <2>3, <3>1 DEF HandsFull, DropSteps
  <2>7. Pool!Return(o)
    BY <1>1, <1>4, <2>2 DEF Pool!Return, OnePlace
  <2> QED
    BY <1>2, <2>4, <2>5, <2>6, <2>7 DEF GoodStep, Pool!Next
<1> QED
  BY <1>1, <1>5, <1>6 DEF TryLock

(* The object is idle in the cache, or there is no room for it. *)
LEMMA PushStep ==
  ASSUME PoolInvariant, NEW t \in Threads, Push(t)
  PROVE  GoodStep
<1> DEFINE o == local[t]
           s == slot[t]
<1> USE DEF PoolInvariant
<1>1. /\ pc[t] = "push" /\ pc' = [pc EXCEPT ![t] = "idle"] /\ s \in SlotIds
      /\ local' = [local EXCEPT ![t] = None]
      /\ locked' = [locked EXCEPT ![s] = None]
      /\ UNCHANGED <<clock, slot, refs, behaviors>>
  BY DEF Push, Unlock, TypeOK
<1>2. o \in Objects /\ o # None
  BY <1>1 DEF HandsFull, DropSteps, TypeOK
<1>3. InHand' = InHand \ {o} /\ o \in InHand
  BY <1>1, <1>2, HandEmpties
<1>4. local'[t] = None /\ \A u \in Threads \ {t} : local'[u] = local[u]
  BY <1>1 DEF TypeOK
<1>5. HandsFull'
  BY <1>1, <1>4 DEF HandsFull, TypeOK, DropSteps
<1>6. o \notin refs /\ o \notin Cached /\ \A u \in SlotIds : o \notin ToSet(cache[u])
  BY <1>3 DEF OnePlace, Cached
<1>7. CASE UNCHANGED <<cache, recorded>>
  <2>1. Cached' = Cached
    BY <1>7 DEF Cached
  <2>2. TypeOK'
    BY <1>1, <1>7 DEF TypeOK
  <2>3. OnePlace'
    BY <1>1, <1>3, <1>4, <1>7 DEF OnePlace
  <2>4. Pool!Return(o)
    BY <1>1, <1>3, <1>6, <2>1 DEF Pool!Return
  <2> QED
    BY <1>2, <1>5, <2>2, <2>3, <2>4 DEF GoodStep, Pool!Next
<1>8. CASE /\ Len(cache[s]) < SlotCapacity
           /\ cache' = [cache EXCEPT ![s] = Append(@, o)]
           /\ recorded' = recorded \ {o}
  <2>1. /\ cache' \in [SlotIds -> Seq(Objects)]
        /\ \A u \in SlotIds :
             /\ Len(cache'[u]) <= SlotCapacity
             /\ IsInjective(cache'[u])
             /\ ToSet(cache'[u]) = IF u = s THEN ToSet(cache[u]) \cup {o} ELSE ToSet(cache[u])
    BY <1>1, <1>2, <1>6, <1>8, CachePushes
  <2>2. TypeOK'
    BY <1>1, <1>8, <2>1 DEF TypeOK
  <2>3. Cached' = Cached \cup {o}
    BY <1>1, <2>1 DEF Cached
  <2>4. OnePlace'
    <3>1. \A u, w \in SlotIds : u # w => ToSet(cache'[u]) \cap ToSet(cache'[w]) = {}
      BY SMTT(30), <1>6, <2>1 DEF OnePlace
    <3>2. \A u \in SlotIds : ToSet(cache'[u]) \cap (InHand' \cup refs') = {}
      BY SMTT(30), <1>1, <1>3, <1>6, <2>1 DEF OnePlace
    <3>3. InHand' \cap refs' = {}
      BY <1>1, <1>3 DEF OnePlace
    <3>4. \A u, w \in Threads : u # w => local'[u] = None \/ local'[u] # local'[w]
      BY <1>4 DEF OnePlace
    <3> QED
      BY <2>1, <3>1, <3>2, <3>3, <3>4 DEF OnePlace
  <2>5. Pool!Return(o)
    BY <1>1, <1>3, <1>6, <2>3 DEF Pool!Return
  <2> QED
    BY <1>2, <1>5, <2>2, <2>4, <2>5 DEF GoodStep, Pool!Next
<1> QED
  BY <1>7, <1>8 DEF Push

LEMMA UseStep ==
  ASSUME PoolInvariant, NEW o \in Objects, Use(o)
  PROVE  GoodStep
<1> USE DEF PoolInvariant
<1>1. UNCHANGED <<cache, locked, clock, pc, slot, local, refs>>
  BY DEF Use, callVars
<1>2. recorded' \in SUBSET Objects /\ behaviors' \in [Objects -> SUBSET Behaviors]
  <2>1. CASE recorded' = recorded \cup {o} /\ behaviors' = behaviors
    BY <2>1 DEF TypeOK
  <2>2. ASSUME NEW b \in Behaviors, recorded' = recorded,
               behaviors' = [behaviors EXCEPT ![o] = @ \cup {b}]
        PROVE  recorded' \in SUBSET Objects /\ behaviors' \in [Objects -> SUBSET Behaviors]
    BY <2>2 DEF TypeOK
  <2> QED
    BY <2>1, <2>2 DEF Use
<1>3. TypeOK'
  BY <1>1, <1>2 DEF TypeOK
<1>4. Cached' = Cached /\ InHand' = InHand /\ OnePlace' /\ HandsFull'
  BY <1>1 DEF Cached, InHand, OnePlace, HandsFull
<1> QED
  BY <1>1, <1>3, <1>4 DEF GoodStep
-----------------------------------------------------------------------------
LEMMA PoolStep == PoolInvariant /\ [Next]_vars => GoodStep
<1> SUFFICES ASSUME PoolInvariant, [Next]_vars PROVE GoodStep
  OBVIOUS
<1>1. ASSUME NEW t \in Threads, NewMetrics(t) PROVE GoodStep
  BY <1>1, NewMetricsStep
<1>2. ASSUME NEW t \in Threads, GoOn(t) PROVE GoodStep
  BY <1>2, TryNewStep, PopStep, ReuseStep, AllocateStep, TryReturnStep, PushStep DEF GoOn
<1>3. ASSUME NEW t \in Threads, NEW o \in Objects, DropMetrics(t, o) PROVE GoodStep
  BY <1>3, DropMetricsStep
<1>4. ASSUME NEW o \in Objects, Use(o) PROVE GoodStep
  BY <1>4, UseStep
<1>5. CASE UNCHANGED vars
  BY <1>5 DEF vars, callVars, contentVars, GoodStep, PoolInvariant, TypeOK, OnePlace,
              HandsFull, Cached, InHand
<1> QED
  BY <1>1, <1>2, <1>3, <1>4, <1>5 DEF Next

THEOREM PoolInvariantHolds == Spec => []PoolInvariant
<1>1. PoolInvariant /\ [Next]_vars => PoolInvariant'
  BY PoolStep DEF GoodStep
<1> QED
  BY PoolInit, <1>1, PTL DEF Spec

(* The allocator's variables keep their types, and no cache grows beyond its        *)
(* capacity (arc_allocator.rs:107).                                                 *)
THEOREM TypeCorrect == Spec => []TypeOK
<1>1. PoolInvariant => TypeOK
  BY DEF PoolInvariant
<1> QED
  BY <1>1, PoolInvariantHolds, PTL

(* An object is in one cache, or in one call, or vended.                            *)
THEOREM ObjectsHaveOnePlace == Spec => []OnePlace
<1>1. PoolInvariant => OnePlace
  BY DEF PoolInvariant
<1> QED
  BY <1>1, PoolInvariantHolds, PTL

(* What is vended next is vended clean, whoever had it before and whatever was       *)
(* recorded into it (arc_allocator.rs:74).                                           *)
THEOREM ObjectsAreVendedClean == Spec => VendedClean
<1> DEFINE Clean == \A o \in refs' \ refs : o \notin recorded' /\ behaviors'[o] = {}
<1>1. ASSUME PoolInvariant, [Next]_vars PROVE Clean
  <2>1. ASSUME NEW t \in Threads, NewMetrics(t) PROVE Clean
    BY <2>1 DEF NewMetrics
  <2>2. ASSUME NEW t \in Threads, GoOn(t) PROVE Clean
    <3>1. CASE TryNew(t) \/ Pop(t) \/ TryReturn(t) \/ Push(t)
      BY <3>1 DEF TryNew, Pop, TryReturn, Push
    <3>2. CASE Reuse(t)
      <4>1. local[t] \in Objects
        BY <1>1, <3>2 DEF Reuse, PoolInvariant, TypeOK
      <4> QED
        BY <1>1, <3>2, <4>1 DEF Reuse, HandOut, PoolInvariant, TypeOK
    <3>3. CASE Allocate(t)
      BY <1>1, <3>3 DEF Allocate, HandOut, PoolInvariant, TypeOK
    <3> QED
      BY <2>2, <3>1, <3>2, <3>3 DEF GoOn
  <2>3. ASSUME NEW t \in Threads, NEW o \in Objects, DropMetrics(t, o) PROVE Clean
    BY <2>3 DEF DropMetrics
  <2>4. ASSUME NEW o \in Objects, Use(o) PROVE Clean
    BY <2>4 DEF Use
  <2>5. CASE UNCHANGED vars
    BY <2>5 DEF vars
  <2> QED
    BY <1>1, <2>1, <2>2, <2>3, <2>4, <2>5 DEF Next
<1> QED
  BY <1>1, PoolInvariantHolds, PTL DEF Spec, VendedClean

(* The caches with their slots, locks and threads implement an object pool.         *)
THEOREM AllocatorImplementsPool == Spec => ImplementsPool
<1>1. Init => Pool!Init
  BY PoolInit
<1>2. PoolInvariant /\ [Next]_vars => [Pool!Next]_<<Cached, refs \cup InHand>>
  BY PoolStep DEF GoodStep
<1> QED
  BY <1>1, <1>2, PoolInvariantHolds, PTL DEF Spec, ImplementsPool, Pool!Spec
=============================================================================
