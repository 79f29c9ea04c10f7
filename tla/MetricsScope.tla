---------------------------- MODULE MetricsScope ----------------------------
(***************************************************************************)
(* The lives of one pooled Metrics object (goodmetrics/src/metrics.rs): it *)
(* is vended as a scope, recorded into, sent through the sink, drained by  *)
(* the aggregator and given back for its next life.                        *)
(*                                                                         *)
(* The owner of the scope also gives away handles that may outlive it: a   *)
(* DimensionGuard, whose holder may write its dimension at any time, and a *)
(* Timer, which stores its time when it is dropped.  They refer to cells   *)
(* of their own (Arc<Mutex<Dimension>>, Arc<AtomicUsize>), so that their   *)
(* holders run beside the aggregator, which takes the cells one by one.    *)
(*                                                                         *)
(* A value carries the life it was given in, to tell the lives apart.  Of  *)
(* the measurements only the timer is here: its owner alone writes the     *)
(* others.  A handle names its cell; it is used again when nobody refers   *)
(* to the cell any more.                                                   *)
(***************************************************************************)
EXTENDS Naturals, Sequences, SequencesExt

CONSTANTS Names,      \* names of dimensions
          Inputs,     \* what callers give as a dimension
          Guards,     \* handles of DimensionGuards
          Timers,     \* handles of Timers
          Nothing,    \* no value, no handle
          NoneText,   \* "__none__", what redeem() leaves in a cell
          MaxLives    \* bound: lives of the object

Values == [life : 1..MaxLives, input : Inputs]
Cell == Values \cup {NoneText, Nothing}

ASSUME DistinctAssumption == /\ Nothing \notin Guards \cup Timers
                             /\ Nothing \notin Values /\ NoneText \notin Values
                             /\ MaxLives \in Nat

VARIABLES
  phase,        \* where the object is
  life,         \* which life it is in
  suppressed,   \* MetricsBehavior::Suppress
  dimensions,   \* Metrics.dimensions
  guards,       \* Metrics.dimension_guards: name and handle, oldest first
  timer,        \* the timer in Metrics.measurements
  cell,         \* the dimension behind each guard
  stopped,      \* timers whose time has been stored
  held,         \* handles their holders have not given up
  oldest,       \* history: the first guard of each name in this life
  latest,       \* history: what was written to each name last in this life
  writer,       \* history: the guard it was written with; Nothing for dimension()
  born          \* history: the life each handle was given in

objectVars == <<phase, life, suppressed, dimensions, guards, timer>>
handleVars == <<cell, stopped, held>>
historyVars == <<oldest, latest, writer, born>>
vars == <<objectVars, handleVars, historyVars>>

Given(v) == [life |-> life, input |-> v]

(* A guard is redeemed once: no dimension is NoneText. *)
TypeOK ==
  /\ phase \in {"pooled", "open", "queued"}
  /\ life \in 0..MaxLives
  /\ suppressed \in BOOLEAN
  /\ dimensions \in [Names -> Values \cup {Nothing}]
  /\ guards \in Seq([name : Names, handle : Guards])
  /\ timer \in Timers \cup {Nothing}
  /\ cell \in [Guards -> Cell]
  /\ stopped \in SUBSET Timers
  /\ held \in SUBSET (Guards \cup Timers)
  /\ oldest \in [Names -> Guards \cup {Nothing}]
  /\ latest \in [Names -> Values \cup {Nothing}]
  /\ writer \in [Names -> Guards \cup {Nothing}]
  /\ born \in [Guards \cup Timers -> 0..MaxLives]

Unnamed == [n \in Names |-> Nothing]

Init ==
  /\ phase = "pooled" /\ life = 0 /\ suppressed = FALSE
  /\ dimensions = Unnamed /\ guards = <<>> /\ timer = Nothing
  /\ cell = [g \in Guards |-> Nothing] /\ stopped = {} /\ held = {}
  /\ oldest = Unnamed /\ latest = Unnamed /\ writer = Unnamed
  /\ born = [h \in Guards \cup Timers |-> 0]

GuardsIn(s) == {s[i].handle : i \in DOMAIN s}
Free == (Guards \cup Timers) \ (held \cup GuardsIn(guards) \cup {timer})
-----------------------------------------------------------------------------
(* Faulty variant: restart() forgets the guards. *)
RestartKeepingGuards ==
  /\ dimensions' = Unnamed
  /\ guards' = guards
  /\ timer' = Nothing

(* Metrics::restart() *)
Restart ==
  /\ dimensions' = Unnamed
  /\ guards' = <<>>
  /\ timer' = Nothing

(* new_metrics() restarts the object; the factory may add Suppress. *)
RecordScope ==
  /\ phase = "pooled"
  /\ life < MaxLives
  /\ phase' = "open"
  /\ life' = life + 1
  /\ suppressed' \in BOOLEAN
  /\ Restart
  /\ oldest' = Unnamed /\ latest' = Unnamed /\ writer' = Unnamed
  /\ UNCHANGED <<handleVars, born>>

Suppress ==
  /\ phase = "open"
  /\ suppressed' = TRUE
  /\ UNCHANGED <<phase, life, dimensions, guards, timer, handleVars, historyVars>>

(* dimension(name, value): nothing happens to a suppressed object. *)
Dimension(n, v) ==
  /\ phase = "open"
  /\ ~suppressed
  /\ dimensions' = [dimensions EXCEPT ![n] = Given(v)]
  /\ latest' = [latest EXCEPT ![n] = Given(v)]
  /\ writer' = [writer EXCEPT ![n] = Nothing]
  /\ UNCHANGED <<phase, life, suppressed, guards, timer, handleVars, oldest, born>>

(* guarded_dimension(name, default): a suppressed object keeps no reference to the *)
(* cell, but the caller gets its guard.                                            *)
GuardedDimension(n, v, g) ==
  /\ phase = "open"
  /\ g \in Free
  /\ cell' = [cell EXCEPT ![g] = Given(v)]
  /\ held' = held \cup {g}
  /\ born' = [born EXCEPT ![g] = life]
  /\ IF suppressed
     THEN UNCHANGED <<guards, oldest, latest, writer>>
     ELSE /\ guards' = Append(guards, [name |-> n, handle |-> g])
          /\ oldest' = [oldest EXCEPT ![n] = IF @ = Nothing THEN g ELSE @]
          /\ latest' = [latest EXCEPT ![n] = Given(v)]
          /\ writer' = [writer EXCEPT ![n] = g]
  /\ UNCHANGED <<phase, life, suppressed, dimensions, timer, stopped>>

(* time(name): a timer put in the place of the one before. *)
Time(h) ==
  /\ phase = "open"
  /\ h \in Free
  /\ stopped' = stopped \ {h}
  /\ held' = held \cup {h}
  /\ born' = [born EXCEPT ![h] = life]
  /\ timer' = IF suppressed THEN timer ELSE h
  /\ UNCHANGED <<phase, life, suppressed, dimensions, guards, cell, oldest, latest, writer>>
-----------------------------------------------------------------------------
(* The holders of handles, on whatever thread, in whatever phase of the object. *)

(* The names that the object has a guard of with handle g. *)
NamesOf(g) == {n \in Names : \E i \in DOMAIN guards : guards[i] = [name |-> n, handle |-> g]}

(* A holder gives values of the life its guard was made in.  As long as the object *)
(* has the guard, they are for its name.                                           *)
Write(g, v) ==
  /\ g \in held
  /\ LET w == [life |-> born[g], input |-> v] IN
       /\ cell' = [cell EXCEPT ![g] = w]
       /\ latest' = [n \in Names |-> IF n \in NamesOf(g) THEN w ELSE latest[n]]
       /\ writer' = [n \in Names |-> IF n \in NamesOf(g) THEN g ELSE writer[n]]
  /\ UNCHANGED <<objectVars, stopped, oldest, born>>

(* breadcrumb(dimension) *)
Breadcrumb(g, v) ==
  /\ Write(g, v)
  /\ held' = held

(* set(dimension) consumes the guard. *)
Set(g, v) ==
  /\ Write(g, v)
  /\ held' = held \ {g}

DropGuard(g) ==
  /\ g \in held
  /\ held' = held \ {g}
  /\ UNCHANGED <<objectVars, cell, stopped, historyVars>>

(* Timer::drop stores the time. *)
DropTimer(h) ==
  /\ h \in held
  /\ held' = held \ {h}
  /\ stopped' = stopped \cup {h}
  /\ UNCHANGED <<objectVars, cell, historyVars>>
-----------------------------------------------------------------------------
(* The object goes back to its allocator, restarted. *)
Release ==
  /\ phase' = "pooled"
  /\ Restart

(* The scope is dropped: emit() gives the object to the sink, which may be full and *)
(* refuse it, unless it is suppressed.                                              *)
Emit ==
  /\ phase = "open"
  /\ \/ /\ ~suppressed
        /\ phase' = "queued"
        /\ UNCHANGED <<dimensions, guards, timer>>
     \/ Release
  /\ UNCHANGED <<life, suppressed, handleVars, historyVars>>

(* Faulty variant: drain() walks the guards from the oldest. *)
RedeemOldestFirst ==
  /\ phase = "queued"
  /\ guards # <<>>
  /\ LET d == Head(guards) IN
       /\ guards' = Tail(guards)
       /\ dimensions' = [dimensions EXCEPT ![d.name] = cell[d.handle]]
       /\ cell' = [cell EXCEPT ![d.handle] = NoneText]
  /\ UNCHANGED <<phase, life, suppressed, timer, stopped, held, historyVars>>

(* Faulty variant: drain() visits the guards and leaves them in the object. *)
RedeemAgain ==
  /\ phase = "queued"
  /\ \E i \in DOMAIN guards : LET d == guards[i] IN
       /\ dimensions' = [dimensions EXCEPT ![d.name] = cell[d.handle]]
       /\ cell' = [cell EXCEPT ![d.handle] = NoneText]
       /\ guards' = IF cell[d.handle] = NoneText THEN Front(guards) ELSE guards
  /\ UNCHANGED <<phase, life, suppressed, timer, stopped, held, historyVars>>

(* One turn of drain()'s loop: the youngest guard is popped and redeemed. *)
Redeem ==
  /\ phase = "queued"
  /\ guards # <<>>
  /\ LET d == Last(guards) IN
       /\ guards' = Front(guards)
       /\ dimensions' = [dimensions EXCEPT ![d.name] = cell[d.handle]]
       /\ cell' = [cell EXCEPT ![d.handle] = NoneText]
  /\ UNCHANGED <<phase, life, suppressed, timer, stopped, held, historyVars>>

Drained == phase = "queued" /\ guards = <<>>

(* The aggregator takes the drained dimensions and the timer's value, and drops the object. *)
Aggregate ==
  /\ Drained
  /\ Release
  /\ UNCHANGED <<life, suppressed, handleVars, historyVars>>

Next ==
  \/ RecordScope
  \/ Suppress
  \/ \E n \in Names, v \in Inputs :
       \/ Dimension(n, v)
       \/ \E g \in Guards : GuardedDimension(n, v, g)
  \/ \E g \in Guards, v \in Inputs : Breadcrumb(g, v) \/ Set(g, v)
  \/ \E g \in Guards : DropGuard(g)
  \/ \E h \in Timers : Time(h) \/ DropTimer(h)
  \/ Emit
  \/ Redeem
  \/ Aggregate

Spec == Init /\ [][Next]_vars
-----------------------------------------------------------------------------
(* An object that is vended, queued or drained holds values of its present life *)
(* only, and guards and a timer given in that life, although the holders of the  *)
(* handles of its earlier lives go on writing (restart(), metrics.rs:223).       *)
NoCrossTalk ==
  phase # "pooled" =>
    /\ \A n \in Names : dimensions[n] \in Values => dimensions[n].life = life
    /\ \A i \in DOMAIN guards : LET g == guards[i].handle IN
         born[g] = life /\ (cell[g] \in Values => cell[g].life = life)
    /\ timer # Nothing => born[timer] = life

(* When drain() is done, a dimension has what was written to it last, unless that    *)
(* came beside its first guard: by dimension() or with another guard of the name.    *)
(* Holders may write while drain() goes through the guards; what counts is written    *)
(* before redeem() comes to the guard (metrics.rs:92, metrics.rs:295).               *)
(*                                                                                   *)
(* The exception is not promised to anybody: metrics.rs:132 says "last write per     *)
(* metrics object wins!", and there drain() lets the first guard win.                *)
DrainedDimensions ==
  Drained => \A n \in Names : writer[n] = oldest[n] => dimensions[n] = latest[n]
=============================================================================
