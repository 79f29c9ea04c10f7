------------------------- MODULE MetricsScopeProofs -------------------------
(***************************************************************************)
(* That the lives of a pooled object do not mix and what it holds when it  *)
(* is drained, for any names, guards and lives, and whatever the holders   *)
(* of its handles do meanwhile.                                            *)
(*                                                                         *)
(* Two facts are added to make this inductive.  GuardsFull: the cells      *)
(* behind the guards of the object are different ones, not yet redeemed.   *)
(* FirstGuardWins: a name's first guard stands before its other ones until *)
(* it is redeemed, the last of them, and its cell has the last write if    *)
(* that was its own; from then on the dimension has it.                    *)
(***************************************************************************)
EXTENDS MetricsScope, SequenceTheorems, TLAPS

GuardsFull ==
  /\ \A i \in DOMAIN guards : cell[guards[i].handle] \in Values
  /\ \A i, j \in DOMAIN guards : guards[i].handle = guards[j].handle => i = j

(* In the pool, too, for there the object is restarted. *)
PresentLife ==
  /\ \A n \in Names : dimensions[n] \in Values => dimensions[n].life = life
  /\ \A i \in DOMAIN guards : LET g == guards[i].handle IN
       born[g] = life /\ (cell[g] \in Values => cell[g].life = life)
  /\ timer # Nothing => born[timer] = life

(* A handle is given to nobody before the first life. *)
LivesBegun ==
  /\ phase # "pooled" => life >= 1
  /\ \A h \in held : born[h] >= 1

NoGuard(n) == \A i \in DOMAIN guards : guards[i].name # n

(* Guard i is the first of name n, and what was written with it last is in its cell *)
(* if nobody has written to n since.                                                *)
FirstOf(n, i) ==
  /\ guards[i].name = n /\ guards[i].handle = oldest[n]
  /\ \A j \in DOMAIN guards : j < i => guards[j].name # n
  /\ writer[n] = oldest[n] => cell[oldest[n]] = latest[n]

FirstGuardWins ==
  phase # "pooled" => \A n \in Names :
    \/ oldest[n] = Nothing /\ writer[n] = Nothing /\ NoGuard(n) /\ dimensions[n] = latest[n]
    \/ oldest[n] # Nothing /\ \E i \in DOMAIN guards : FirstOf(n, i)
    \/ /\ oldest[n] # Nothing
       /\ phase = "queued" /\ NoGuard(n)
       /\ writer[n] = oldest[n] => dimensions[n] = latest[n]

ScopeInvariant ==
  TypeOK /\ GuardsFull /\ PresentLife /\ LivesBegun /\ FirstGuardWins
-----------------------------------------------------------------------------
Guarded == [name : Names, handle : Guards]

(* The guards of an object as a stack *)
LEMMA GuardsAppend ==
  ASSUME NEW s \in Seq(Guarded), NEW d \in Guarded
  PROVE  /\ Append(s, d) \in Seq(Guarded)
         /\ DOMAIN s = 1..Len(s) /\ Len(s) \in Nat
         /\ DOMAIN Append(s, d) = 1..(Len(s) + 1)
         /\ Append(s, d)[Len(s) + 1] = d
         /\ \A i \in DOMAIN s : Append(s, d)[i] = s[i]
OBVIOUS

LEMMA GuardsFront ==
  ASSUME NEW s \in Seq(Guarded), s # <<>>
  PROVE  /\ Front(s) \in Seq(Guarded)
         /\ DOMAIN s = 1..Len(s) /\ Len(s) \in Nat \ {0}
         /\ DOMAIN Front(s) = 1..(Len(s) - 1)
         /\ Last(s) = s[Len(s)] /\ Last(s) \in Guarded
         /\ \A i \in DOMAIN Front(s) : Front(s)[i] = s[i]
<1>1. Len(s) \in Nat \ {0} /\ DOMAIN s = 1..Len(s)
  OBVIOUS
<1>2. /\ Front(s) \in Seq(Guarded) /\ Len(Front(s)) = Len(s) - 1
      /\ \A i \in 1..(Len(s) - 1) : Front(s)[i] = s[i]
  BY <1>1, SubSeqProperties DEF Front
<1> QED
  BY <1>1, <1>2 DEF Last

LEMMA GuardsTyped ==
  ASSUME TypeOK
  PROVE  guards \in Seq(Guarded) /\ \A i \in DOMAIN guards : guards[i] \in Guarded
<1>1. guards \in Seq(Guarded)
  BY DEF TypeOK, Guarded
<1> QED
  BY <1>1

LEMMA InitEstablishes == Init => ScopeInvariant
<1> SUFFICES ASSUME Init PROVE ScopeInvariant
  OBVIOUS
<1> USE DistinctAssumption DEF Init, Unnamed
<1>1. TypeOK
  <2>1. guards \in Seq([name : Names, handle : Guards])
    OBVIOUS
  <2>2. /\ dimensions \in [Names -> Values \cup {Nothing}] /\ cell \in [Guards -> Cell]
        /\ oldest \in [Names -> Guards \cup {Nothing}]
        /\ latest \in [Names -> Values \cup {Nothing}]
        /\ writer \in [Names -> Guards \cup {Nothing}]
    BY DEF Cell
  <2>3. life \in 0..MaxLives /\ born \in [Guards \cup Timers -> 0..MaxLives]
    OBVIOUS
  <2> QED
    BY <2>1, <2>2, <2>3 DEF TypeOK
<1>2. DOMAIN guards = {}
  OBVIOUS
<1> QED
  BY <1>1, <1>2 DEF ScopeInvariant, GuardsFull, PresentLife, LivesBegun, FirstGuardWins

(* A restarted object holds nothing of any life. *)
LEMMA Restarted ==
  ASSUME TypeOK, Restart
  PROVE  /\ dimensions' \in [Names -> Values \cup {Nothing}]
         /\ guards' \in Seq([name : Names, handle : Guards])
         /\ timer' \in Timers \cup {Nothing}
         /\ GuardsFull' /\ PresentLife'
<1>1. DOMAIN guards' = {} /\ timer' = Nothing /\ \A n \in Names : dimensions'[n] = Nothing
  BY DEF Restart, Unnamed
<1>2. GuardsFull' /\ PresentLife'
  BY <1>1, DistinctAssumption DEF GuardsFull, PresentLife
<1> QED
  BY <1>2 DEF Restart, Unnamed, Cell

LEMMA RecordScopePreserves ==
  ASSUME ScopeInvariant, RecordScope PROVE ScopeInvariant'
<1> USE DEF ScopeInvariant, RecordScope
<1>1. TypeOK'
  BY Restarted, DistinctAssumption DEF TypeOK, handleVars, Unnamed
<1>2. LivesBegun'
  BY DEF LivesBegun, handleVars, TypeOK
<1>3. /\ DOMAIN guards' = {}
      /\ \A n \in Names :
           oldest'[n] = Nothing /\ writer'[n] = Nothing /\ dimensions'[n] = latest'[n]
  BY DEF Restart, Unnamed
<1>4. FirstGuardWins'
  BY <1>3 DEF FirstGuardWins, NoGuard
<1> QED
  BY <1>1, <1>2, <1>4, Restarted

LEMMA SuppressPreserves ==
  ASSUME ScopeInvariant, Suppress PROVE ScopeInvariant'
BY DEF ScopeInvariant, Suppress, TypeOK, GuardsFull, PresentLife, LivesBegun, FirstGuardWins,
       FirstOf, NoGuard, handleVars, historyVars

LEMMA DimensionPreserves ==
  ASSUME ScopeInvariant, NEW n \in Names, NEW v \in Inputs, Dimension(n, v)
  PROVE  ScopeInvariant'
<1> USE DEF ScopeInvariant
<1>1. /\ phase = "open" /\ life >= 1 /\ life \in 1..MaxLives
      /\ Given(v) \in Values /\ Given(v).life = life
  BY DistinctAssumption DEF Dimension, LivesBegun, TypeOK, Given, Values
<1>2. /\ dimensions' = [dimensions EXCEPT ![n] = Given(v)]
      /\ latest' = [latest EXCEPT ![n] = Given(v)]
      /\ writer' = [writer EXCEPT ![n] = Nothing]
      /\ UNCHANGED <<phase, life, suppressed, guards, timer, cell, stopped, held, oldest, born>>
  BY DEF Dimension, handleVars
<1>3. TypeOK'
  BY <1>1, <1>2 DEF TypeOK, Cell
<1>4. GuardsFull' /\ LivesBegun'
  BY <1>2 DEF GuardsFull, LivesBegun
<1>5. PresentLife'
  BY <1>1, <1>2 DEF PresentLife, TypeOK
<1>6. FirstGuardWins'
  <2> SUFFICES ASSUME NEW m \in Names
               PROVE  \/ /\ oldest'[m] = Nothing /\ writer'[m] = Nothing /\ NoGuard(m)'
                         /\ dimensions'[m] = latest'[m]
                      \/ oldest'[m] # Nothing /\ \E i \in DOMAIN guards' : FirstOf(m, i)'
    BY DEF FirstGuardWins
  <2>1. CASE m = n
    BY <1>1, <1>2, <2>1 DEF FirstGuardWins, FirstOf, NoGuard, TypeOK
  <2>2. CASE m # n
    BY <1>1, <1>2, <2>2 DEF FirstGuardWins, FirstOf, NoGuard, TypeOK
  <2> QED
    BY <2>1, <2>2
<1> QED
  BY <1>3, <1>4, <1>5, <1>6

LEMMA GuardedDimensionPreserves ==
  ASSUME ScopeInvariant, NEW n \in Names, NEW v \in Inputs, NEW g \in Guards,
         GuardedDimension(n, v, g)
  PROVE  ScopeInvariant'
<1> DEFINE d == [name |-> n, handle |-> g]
<1> USE DEF ScopeInvariant
<1>1. /\ phase = "open" /\ life >= 1 /\ life \in 1..MaxLives
      /\ Given(v) \in Values /\ Given(v).life = life
  BY DistinctAssumption DEF GuardedDimension, LivesBegun, TypeOK, Given, Values
<1>2. /\ cell' = [cell EXCEPT ![g] = Given(v)]
      /\ held' = held \cup {g} /\ born' = [born EXCEPT ![g] = life]
      /\ UNCHANGED <<phase, life, suppressed, dimensions, timer, stopped>>
  BY DEF GuardedDimension
<1>3. g # timer /\ \A i \in DOMAIN guards : guards[i].handle # g
  BY DEF GuardedDimension, Free, GuardsIn
<1>4. \A i \in DOMAIN guards : guards[i] \in Guarded
  BY GuardsTyped
<1>5. LivesBegun'
  BY <1>1, <1>2 DEF LivesBegun, TypeOK
<1>6. CASE UNCHANGED <<guards, oldest, latest, writer>>
  <2>1. TypeOK'
    BY <1>1, <1>2, <1>6 DEF TypeOK, Cell
  <2>2. GuardsFull' /\ PresentLife'
    BY <1>2, <1>3, <1>4, <1>6 DEF GuardsFull, PresentLife, TypeOK, Guarded
  <2>3. \A m \in Names, i \in DOMAIN guards : FirstOf(m, i) => FirstOf(m, i)'
    BY <1>2, <1>3, <1>6 DEF FirstOf, TypeOK
  <2>4. FirstGuardWins'
    BY <1>1, <1>2, <1>6, <2>3 DEF FirstGuardWins, NoGuard
  <2> QED
    BY <1>5, <2>1, <2>2, <2>4
<1>7. CASE /\ guards' = Append(guards, d)
           /\ oldest' = [oldest EXCEPT ![n] = IF @ = Nothing THEN g ELSE @]
           /\ latest' = [latest EXCEPT ![n] = Given(v)]
           /\ writer' = [writer EXCEPT ![n] = g]
  <2>1. d \in Guarded /\ guards \in Seq(Guarded)
    BY DEF Guarded, TypeOK
  <2>2. /\ guards' \in Seq(Guarded)
        /\ DOMAIN guards = 1..Len(guards) /\ Len(guards) \in Nat
        /\ DOMAIN guards' = 1..(Len(guards) + 1)
        /\ guards'[Len(guards) + 1] = d
        /\ \A i \in DOMAIN guards : guards'[i] = guards[i]
    BY <1>7, <2>1, GuardsAppend
  <2>3. TypeOK'
    BY <1>1, <1>2, <1>7, <2>2 DEF TypeOK, Cell, Guarded
  <2>4. ASSUME NEW i \in DOMAIN guards'
        PROVE  /\ cell'[guards'[i].handle] \in Values
               /\ cell'[guards'[i].handle].life = life
               /\ born'[guards'[i].handle] = life
               /\ guards'[i].handle = g => i = Len(guards) + 1
    <3>1. CASE i = Len(guards) + 1
      BY <1>1, <1>2, <2>2, <3>1 DEF TypeOK
    <3>2. CASE i \in DOMAIN guards
      BY <1>2, <1>3, <1>4, <2>2, <3>2 DEF TypeOK, GuardsFull, PresentLife, Guarded
    <3> QED
      BY <2>2, <3>1, <3>2
  <2>5. ASSUME NEW i \in DOMAIN guards', NEW j \in DOMAIN guards',
               guards'[i].handle = guards'[j].handle
        PROVE  i = j
    <3>1. CASE i \in DOMAIN guards /\ j \in DOMAIN guards
      BY <2>2, <2>5, <3>1 DEF GuardsFull
    <3> QED
      BY <2>2, <2>4, <2>5, <3>1
  <2>6. GuardsFull'
    BY <2>4, <2>5 DEF GuardsFull
  <2>7. PresentLife'
    BY <1>2, <1>3, <2>4 DEF PresentLife, TypeOK
  <2>8. FirstGuardWins'
    <3> SUFFICES ASSUME NEW m \in Names
                 PROVE  \/ /\ oldest'[m] = Nothing /\ writer'[m] = Nothing /\ NoGuard(m)'
                           /\ dimensions'[m] = latest'[m]
                        \/ oldest'[m] # Nothing /\ \E i \in DOMAIN guards' : FirstOf(m, i)'
      BY DEF FirstGuardWins
    <3>1. CASE oldest[m] # Nothing
      <4>1. oldest'[m] = oldest[m]
        BY <1>7, <3>1 DEF TypeOK
      <4>2. PICK i \in DOMAIN guards : FirstOf(m, i)
        BY <1>1, <3>1 DEF FirstGuardWins
      <4>3. i \in DOMAIN guards' /\ guards'[i] = guards[i] /\ oldest[m] # g /\ oldest[m] \in Guards
        BY <1>3, <1>4, <2>2, <4>2 DEF FirstOf, Guarded
      <4>4. \A j \in DOMAIN guards' : j < i => guards'[j].name # m
        BY <2>2, <4>2 DEF FirstOf
      <4>5. writer'[m] = oldest'[m] => cell'[oldest'[m]] = latest'[m]
        BY <1>2, <1>7, <4>1, <4>2, <4>3 DEF FirstOf, TypeOK
      <4> QED
        BY <3>1, <4>1, <4>2, <4>3, <4>4, <4>5 DEF FirstOf
    <3>2. CASE oldest[m] = Nothing /\ m = n
      <4>1. /\ oldest'[m] = g /\ g # Nothing
            /\ cell'[g] = Given(v) /\ latest'[m] = Given(v)
        BY <1>2, <1>7, <3>2, DistinctAssumption DEF TypeOK
      <4>2. \A j \in DOMAIN guards : guards[j].name # m
        BY <1>1, <3>2 DEF FirstGuardWins, NoGuard
      <4>3. PICK k \in DOMAIN guards' : k = Len(guards) + 1
        BY <2>2
      <4>4. guards'[k].name = m /\ guards'[k].handle = oldest'[m]
        BY <2>2, <3>2, <4>1, <4>3
      <4>5. \A j \in DOMAIN guards' : j < k => guards'[j].name # m
        BY <2>2, <4>2, <4>3
      <4> QED
        BY <4>1, <4>4, <4>5 DEF FirstOf
    <3>3. CASE oldest[m] = Nothing /\ m # n
      <4>1. oldest'[m] = Nothing /\ writer'[m] = writer[m] /\ latest'[m] = latest[m]
        BY <1>7, <3>3 DEF TypeOK
      <4>2. /\ \A j \in DOMAIN guards : guards[j].name # m
            /\ writer[m] = Nothing /\ dimensions[m] = latest[m]
        BY <1>1, <3>3 DEF FirstGuardWins, NoGuard
      <4>3. \A j \in DOMAIN guards' : guards'[j].name # m
        BY <2>2, <3>3, <4>2
      <4> QED
        BY <1>2, <4>1, <4>2, <4>3 DEF NoGuard
    <3> QED
      BY <3>1, <3>2, <3>3
  <2> QED
    BY <1>5, <2>3, <2>6, <2>7, <2>8
<1> QED
  BY <1>6, <1>7 DEF GuardedDimension

LEMMA TimePreserves ==
  ASSUME ScopeInvariant, NEW h \in Timers, Time(h) PROVE ScopeInvariant'
<1> USE DEF ScopeInvariant
<1>1. /\ phase = "open" /\ life >= 1 /\ life \in 1..MaxLives
      /\ stopped' = stopped \ {h} /\ held' = held \cup {h}
      /\ born' = [born EXCEPT ![h] = life]
      /\ timer' = IF suppressed THEN timer ELSE h
      /\ UNCHANGED <<phase, life, suppressed, dimensions, guards, cell, oldest, latest, writer>>
  BY DistinctAssumption DEF Time, LivesBegun, TypeOK
<1>2. h # timer /\ \A i \in DOMAIN guards : guards[i].handle # h
  BY DEF Time, Free, GuardsIn
<1>3. TypeOK'
  BY <1>1 DEF TypeOK
<1>4. GuardsFull' /\ FirstGuardWins'
  BY <1>1 DEF GuardsFull, FirstGuardWins, FirstOf, NoGuard
<1>5. LivesBegun'
  BY <1>1 DEF LivesBegun, TypeOK
<1>6. \A i \in DOMAIN guards : guards[i].handle \in Guards
  BY GuardsTyped DEF Guarded
<1>7. PresentLife'
  BY <1>1, <1>2, <1>6 DEF PresentLife, TypeOK
<1> QED
  BY <1>3, <1>4, <1>5, <1>7

(* What a holder writes has the life its handle was given in. *)
LEMMA WritePreserves ==
  ASSUME ScopeInvariant, NEW g \in Guards, NEW v \in Inputs, Write(g, v),
         held' \in {held, held \ {g}}
  PROVE  ScopeInvariant'
<1> DEFINE w == [life |-> born[g], input |-> v]
<1> USE DEF ScopeInvariant
<1>1. /\ g \in held /\ cell' = [cell EXCEPT ![g] = w]
      /\ latest' = [n \in Names |-> IF n \in NamesOf(g) THEN w ELSE latest[n]]
      /\ writer' = [n \in Names |-> IF n \in NamesOf(g) THEN g ELSE writer[n]]
      /\ UNCHANGED <<phase, life, suppressed, dimensions, guards, timer, stopped, oldest, born>>
  BY DEF Write, objectVars
<1>2. w \in Values /\ w.life = born[g]
  BY <1>1, DistinctAssumption DEF LivesBegun, TypeOK, Values
<1>3. TypeOK'
  BY <1>1, <1>2 DEF TypeOK, Cell
<1>4. \A i \in DOMAIN guards : guards[i] \in Guarded /\ guards[i].handle \in Guards
  BY GuardsTyped DEF Guarded
<1>5. GuardsFull' /\ PresentLife'
  BY <1>1, <1>2, <1>4 DEF GuardsFull, PresentLife, TypeOK
<1>6. LivesBegun'
  BY <1>1 DEF LivesBegun
<1>7. ASSUME NEW n \in Names, NoGuard(n)
      PROVE  latest'[n] = latest[n] /\ writer'[n] = writer[n]
  BY <1>1, <1>7 DEF NoGuard, NamesOf
<1>8. ASSUME NEW n \in Names, NEW i \in DOMAIN guards, FirstOf(n, i)
      PROVE  FirstOf(n, i)'
  <2>1. CASE oldest[n] = g
    <3>1. guards[i] = [name |-> n, handle |-> g]
      BY <1>4, <1>8, <2>1 DEF FirstOf, Guarded
    <3>2. n \in NamesOf(g)
      BY <3>1 DEF NamesOf
    <3> QED
      BY <1>1, <1>8, <2>1, <3>2 DEF FirstOf, TypeOK
  <2>2. CASE oldest[n] # g
    <3>1. cell'[oldest[n]] = cell[oldest[n]]
      BY <1>1, <1>4, <1>8, <2>2 DEF FirstOf, TypeOK
    <3>2. writer'[n] = oldest[n] => writer[n] = oldest[n] /\ latest'[n] = latest[n]
      BY <1>1, <2>2
    <3> QED
      BY <1>1, <1>8, <3>1, <3>2 DEF FirstOf
  <2> QED
    BY <2>1, <2>2
<1>9. FirstGuardWins'
  BY <1>1, <1>7, <1>8 DEF FirstGuardWins, NoGuard
<1> QED
  BY <1>3, <1>5, <1>6, <1>9

LEMMA HandleDropPreserves ==
  ASSUME ScopeInvariant, NEW h \in Guards \cup Timers, held' = held \ {h},
         UNCHANGED <<objectVars, cell, historyVars>>, stopped' \in SUBSET Timers
  PROVE  ScopeInvariant'
BY DEF ScopeInvariant, objectVars, historyVars, TypeOK, GuardsFull, PresentLife, LivesBegun,
       FirstGuardWins, FirstOf, NoGuard

(* The object comes back to the pool, or waits in the queue. *)
LEMMA ReleasePreserves ==
  ASSUME ScopeInvariant, Release, UNCHANGED <<life, suppressed, handleVars, historyVars>>
  PROVE  ScopeInvariant'
<1> USE DEF ScopeInvariant, Release
<1>1. TypeOK'
  BY Restarted DEF TypeOK, handleVars, historyVars
<1>2. LivesBegun' /\ FirstGuardWins'
  BY DEF LivesBegun, FirstGuardWins, handleVars, historyVars
<1> QED
  BY <1>1, <1>2, Restarted

LEMMA EmitPreserves ==
  ASSUME ScopeInvariant, Emit PROVE ScopeInvariant'
<1>1. CASE Release
  BY <1>1, ReleasePreserves DEF Emit
<1>2. CASE phase' = "queued" /\ UNCHANGED <<dimensions, guards, timer>>
  <2>1. UNCHANGED <<life, suppressed, cell, stopped, held, oldest, latest, writer, born>>
    BY DEF Emit, handleVars, historyVars
  <2>2. phase = "open"
    BY DEF Emit
  <2> QED
    BY <1>2, <2>1, <2>2 DEF ScopeInvariant, TypeOK, GuardsFull, PresentLife, LivesBegun,
                            FirstGuardWins, FirstOf, NoGuard
<1> QED
  BY <1>1, <1>2 DEF Emit

LEMMA RedeemPreserves ==
  ASSUME ScopeInvariant, Redeem PROVE ScopeInvariant'
<1> DEFINE d == Last(guards)
           c == cell[d.handle]
           last == Len(guards)
<1> USE DEF ScopeInvariant
<1>1. /\ phase = "queued" /\ guards # <<>> /\ guards' = Front(guards)
      /\ dimensions' = [dimensions EXCEPT ![d.name] = c]
      /\ cell' = [cell EXCEPT ![d.handle] = NoneText]
      /\ UNCHANGED <<phase, life, suppressed, timer, stopped, held, oldest, latest, writer, born>>
  BY DEF Redeem, historyVars
<1>2. guards \in Seq(Guarded) /\ \A i \in DOMAIN guards : guards[i] \in Guarded
  BY GuardsTyped
<1>3. /\ guards' \in Seq(Guarded)
      /\ DOMAIN guards = 1..last /\ last \in Nat \ {0}
      /\ DOMAIN guards' = 1..(last - 1)
      /\ d = guards[last] /\ d.name \in Names /\ d.handle \in Guards
      /\ \A i \in DOMAIN guards' : guards'[i] = guards[i]
  BY <1>1, <1>2, GuardsFront DEF Guarded
<1>4. c \in Values /\ c.life = life
  BY <1>3 DEF GuardsFull, PresentLife
<1>5. \A i \in DOMAIN guards' : guards'[i].handle # d.handle /\ guards'[i].handle \in Guards
  BY <1>2, <1>3 DEF GuardsFull, Guarded
<1>6. TypeOK'
  BY <1>1, <1>3, <1>4 DEF TypeOK, Cell, Guarded
<1>7. GuardsFull'
  BY <1>1, <1>3, <1>5 DEF GuardsFull, TypeOK
<1>8. PresentLife'
  BY <1>1, <1>3, <1>4, <1>5 DEF PresentLife, TypeOK
<1>9. LivesBegun'
  BY <1>1 DEF LivesBegun
<1>10. FirstGuardWins'
  <2> SUFFICES ASSUME NEW n \in Names
               PROVE  \/ /\ oldest'[n] = Nothing /\ writer'[n] = Nothing /\ NoGuard(n)'
                         /\ dimensions'[n] = latest'[n]
                      \/ oldest'[n] # Nothing /\ \E i \in DOMAIN guards' : FirstOf(n, i)'
                      \/ /\ oldest'[n] # Nothing /\ NoGuard(n)'
                         /\ writer'[n] = oldest'[n] => dimensions'[n] = latest'[n]
    BY <1>1 DEF FirstGuardWins
  <2>1. CASE /\ oldest[n] = Nothing /\ writer[n] = Nothing /\ NoGuard(n)
             /\ dimensions[n] = latest[n]
    <3>1. d.name # n
      BY <1>3, <2>1 DEF NoGuard
    <3> QED
      BY <1>1, <1>3, <2>1, <3>1 DEF NoGuard, TypeOK
  <2>2. ASSUME oldest[n] # Nothing, NEW i \in DOMAIN guards, FirstOf(n, i)
        PROVE  \/ \E k \in DOMAIN guards' : FirstOf(n, k)'
               \/ NoGuard(n)' /\ (writer'[n] = oldest'[n] => dimensions'[n] = latest'[n])
    <3>1. CASE i = last
      <4>1. d.name = n /\ d.handle = oldest[n]
        BY <1>3, <2>2, <3>1 DEF FirstOf
      <4>2. \A j \in DOMAIN guards' : guards'[j].name # n
        BY <1>3, <2>2, <3>1 DEF FirstOf
      <4>3. dimensions'[n] = c
        BY <1>1, <1>3, <4>1 DEF TypeOK
      <4> QED
        BY <1>1, <2>2, <4>1, <4>2, <4>3 DEF FirstOf, NoGuard
    <3>2. CASE i # last
      <4>1. i \in DOMAIN guards' /\ guards'[i] = guards[i]
        BY <1>3, <3>2
      <4>2. cell'[oldest[n]] = cell[oldest[n]]
        BY <1>1, <1>5, <2>2, <4>1 DEF FirstOf, TypeOK
      <4>3. FirstOf(n, i)'
        BY <1>1, <1>3, <2>2, <4>1, <4>2 DEF FirstOf
      <4> QED
        BY <4>1, <4>3
    <3> QED
      BY <3>1, <3>2
  <2>3. CASE /\ oldest[n] # Nothing /\ NoGuard(n)
             /\ writer[n] = oldest[n] => dimensions[n] = latest[n]
    <3>1. d.name # n
      BY <1>3, <2>3 DEF NoGuard
    <3> QED
      BY <1>1, <1>3, <2>3, <3>1 DEF NoGuard, TypeOK
  <2> QED
    BY <1>1, <2>1, <2>2, <2>3 DEF FirstGuardWins
<1> QED
  BY <1>6, <1>7, <1>8, <1>9, <1>10
-----------------------------------------------------------------------------
LEMMA NextPreserves == ScopeInvariant /\ [Next]_vars => ScopeInvariant'
<1> SUFFICES ASSUME ScopeInvariant, [Next]_vars PROVE ScopeInvariant'
  OBVIOUS
<1>1. CASE RecordScope \/ Suppress \/ Emit \/ Redeem
  BY <1>1, RecordScopePreserves, SuppressPreserves, EmitPreserves, RedeemPreserves
<1>2. CASE Aggregate
  BY <1>2, ReleasePreserves DEF Aggregate
<1>3. ASSUME NEW n \in Names, NEW v \in Inputs,
             Dimension(n, v) \/ \E g \in Guards : GuardedDimension(n, v, g)
      PROVE  ScopeInvariant'
  BY <1>3, DimensionPreserves, GuardedDimensionPreserves
<1>4. ASSUME NEW g \in Guards, NEW v \in Inputs, Breadcrumb(g, v) \/ Set(g, v)
      PROVE  ScopeInvariant'
  BY <1>4, WritePreserves DEF Breadcrumb, Set
<1>5. ASSUME NEW g \in Guards, DropGuard(g) PROVE ScopeInvariant'
  BY <1>5, HandleDropPreserves DEF DropGuard, ScopeInvariant, TypeOK
<1>6. ASSUME NEW h \in Timers, Time(h) \/ DropTimer(h) PROVE ScopeInvariant'
  BY <1>6, TimePreserves, HandleDropPreserves DEF DropTimer, ScopeInvariant, TypeOK
<1>7. CASE UNCHANGED vars
  BY <1>7 DEF vars, objectVars, handleVars, historyVars, ScopeInvariant, TypeOK, GuardsFull,
              PresentLife, LivesBegun, FirstGuardWins, FirstOf, NoGuard
<1> QED
  BY <1>1, <1>2, <1>3, <1>4, <1>5, <1>6, <1>7 DEF Next

THEOREM ScopeInvariantHolds == Spec => []ScopeInvariant
BY InitEstablishes, NextPreserves, PTL DEF Spec

(* The variables of an object and of its handles keep their types; among them, that *)
(* no guard is redeemed twice (metrics.rs:92).                                      *)
THEOREM TypeCorrect == Spec => []TypeOK
<1>1. ScopeInvariant => TypeOK
  BY DEF ScopeInvariant
<1> QED
  BY <1>1, ScopeInvariantHolds, PTL

(* Nothing of an earlier life reaches an object, whoever still holds its handles    *)
(* (metrics.rs:223).                                                                *)
THEOREM LivesDoNotMix == Spec => []NoCrossTalk
<1>1. ScopeInvariant => NoCrossTalk
  BY DEF ScopeInvariant, PresentLife, NoCrossTalk
<1> QED
  BY <1>1, ScopeInvariantHolds, PTL

(* What drain() hands over was written last, unless that came beside the first guard *)
(* of the name: by dimension() or with another guard (metrics.rs:295).              *)
THEOREM LastWritesAreDrained == Spec => []DrainedDimensions
<1>1. ScopeInvariant => DrainedDimensions
  BY DEF ScopeInvariant, FirstGuardWins, DrainedDimensions, Drained
<1> QED
  BY <1>1, ScopeInvariantHolds, PTL
=============================================================================
