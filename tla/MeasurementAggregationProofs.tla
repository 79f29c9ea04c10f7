-------------------- MODULE MeasurementAggregationProofs --------------------
(***************************************************************************)
(* That a name's aggregation is that of the type that came first, that     *)
(* sums add up over objects and windows, and that data points count what   *)
(* they stand for: for words of any width, any numbers and distributions,  *)
(* windows of any size, and any significant figures.                       *)
(*                                                                         *)
(* The invariant has three parts.  SumInvariant accounts for what sum()    *)
(* added; nothing is claimed of a name with anything else in its window or *)
(* object.  KindsInvariant says what the entry is of the values aggregated *)
(* so far, and ExportInvariant what bounds and counts are of the entry     *)
(* while as_otel_histogram's loop runs and when it has ended.  That buckets *)
(* count their range then follows from how rounding divides the numbers.   *)
(***************************************************************************)
EXTENDS MeasurementAggregation, FiniteSetTheorems, SequenceTheorems,
        WellFoundedInduction, TLAPS

(* Sums over finite sets, and bags *)

(* A set of naturals that is not empty has a least element. *)
LEMMA LeastElement ==
  ASSUME NEW T \in SUBSET Nat, T # {}
  PROVE  \E m \in T : \A n \in T : m <= n
<1> DEFINE R == OpToRel(<, Nat)
<1>1. IsWellFoundedOn(R, Nat)
  BY NatLessThanWellFounded
<1>2. PICK m \in T : \A n \in T : ~(<<n, m>> \in R)
  <2> HIDE DEF R
  <2> QED BY <1>1, WFMin
<1>3. \A n \in T : n \in Nat /\ m \in Nat /\ ~(n < m)
  BY <1>2 DEF OpToRel
<1>4. \A n \in T : m <= n
  BY <1>3
<1> QED
  BY <1>4

(* Induction over sets of naturals *)
LEMMA InductionOnNat ==
  ASSUME NEW T, 0 \in T, \A n \in Nat : n \in T => n + 1 \in T
  PROVE  Nat \subseteq T
<1> SUFFICES ASSUME NEW x \in Nat, x \notin T PROVE FALSE
  OBVIOUS
<1>1. PICK m \in Nat \ T : \A n \in Nat \ T : m <= n
  BY LeastElement
<1>2. m - 1 \in Nat /\ m - 1 \in T
  BY <1>1
<1>3. (m - 1) + 1 \in T
  BY <1>2
<1> QED
  BY <1>1, <1>3

(* Induction over the subsets of a finite set *)
LEMMA FiniteInduction ==
  ASSUME NEW S, IsFiniteSet(S), NEW P, {} \in P,
         \A T \in SUBSET S : \A e \in S \ T : T \in P => T \cup {e} \in P
  PROVE  SUBSET S \subseteq P
<1> DEFINE K == {k \in Nat : \A T \in SUBSET S : Cardinality(T) = k => T \in P}
<1>1. \A T \in SUBSET S : IsFiniteSet(T) /\ Cardinality(T) \in Nat
  BY FS_Subset, FS_CardinalityType
<1>2. 0 \in K
  BY <1>1, FS_EmptySet
<1>3. ASSUME NEW k \in Nat, k \in K PROVE k + 1 \in K
  <2> SUFFICES ASSUME NEW T \in SUBSET S, Cardinality(T) = k + 1 PROVE T \in P
    OBVIOUS
  <2>1. PICK e : e \in T
    BY <1>1, FS_EmptySet
  <2>2. Cardinality(T \ {e}) = k
    <3>1. Cardinality(T \ {e}) = Cardinality(T) - 1
      BY <1>1, <2>1, FS_RemoveElement
    <3> QED
      BY <3>1
  <2>3. T \ {e} \in P
    BY <1>3, <2>2
  <2>4. T = (T \ {e}) \cup {e}
    BY <2>1
  <2> QED
    BY <2>1, <2>3, <2>4
<1>4. Nat \subseteq K
  <2> HIDE DEF K
  <2> QED
    BY <1>2, <1>3, InductionOnNat
<1> QED
  BY <1>1, <1>4
-----------------------------------------------------------------------------
(* What TotalOver() computes on the subsets of a set *)
Some(T) == CHOOSE e \in T : TRUE

IsTotal(f, S, g) ==
  g = [T \in SUBSET S |-> IF T = {} THEN 0 ELSE f[Some(T)] + g[T \ {Some(T)}]]

LEMMA TotalExists ==
  ASSUME NEW S, IsFiniteSet(S), NEW f, \A e \in S : f[e] \in Int
  PROVE  \E g : IsTotal(f, S, g) /\ \A T \in SUBSET S : g[T] \in Int
<1> DEFINE Step(g) == [T \in SUBSET S |-> IF T = {} THEN 0 ELSE f[Some(T)] + g[T \ {Some(T)}]]
           Upto(k, g) == /\ g \in [SUBSET S -> Int]
                         /\ \A T \in SUBSET S : Cardinality(T) <= k => g[T] = Step(g)[T]
           K == {k \in Nat : \E g : Upto(k, g)}
<1>1. \A T \in SUBSET S : IsFiniteSet(T) /\ Cardinality(T) \in Nat
  BY FS_Subset, FS_CardinalityType
<1>2. \A T \in SUBSET S : T # {} => /\ Some(T) \in T /\ T \ {Some(T)} \in SUBSET S
                                    /\ Cardinality(T \ {Some(T)}) = Cardinality(T) - 1
                                    /\ f[Some(T)] \in Int
  <2> SUFFICES ASSUME NEW T \in SUBSET S, T # {}
               PROVE  /\ Some(T) \in T /\ T \ {Some(T)} \in SUBSET S
                      /\ Cardinality(T \ {Some(T)}) = Cardinality(T) - 1
                      /\ f[Some(T)] \in Int
    OBVIOUS
  <2>1. Some(T) \in T
    BY DEF Some
  <2> QED
    BY <1>1, <2>1, FS_RemoveElement
<1>3. ASSUME NEW g \in [SUBSET S -> Int] PROVE Step(g) \in [SUBSET S -> Int]
  <2> SUFFICES ASSUME NEW T \in SUBSET S
               PROVE  (IF T = {} THEN 0 ELSE f[Some(T)] + g[T \ {Some(T)}]) \in Int
    OBVIOUS
  <2>1. CASE T # {}
    <3>1. f[Some(T)] \in Int /\ g[T \ {Some(T)}] \in Int
      BY <1>2, <1>3, <2>1
    <3> QED
      BY <2>1, <3>1
  <2> QED
    BY <2>1
<1>4. 0 \in K
  <2> DEFINE g == [T \in SUBSET S |-> 0]
  <2>1. \A T \in SUBSET S : Cardinality(T) <= 0 => T = {}
    BY <1>1, FS_EmptySet
  <2>2. Upto(0, g)
    BY <2>1
  <2> HIDE DEF g, Upto
  <2> QED
    BY <2>2
<1>5. ASSUME NEW k \in Nat, k \in K PROVE k + 1 \in K
  <2>1. PICK g : Upto(k, g)
    BY <1>5
  <2> DEFINE h == Step(g)
  <2>2. h \in [SUBSET S -> Int]
    BY <1>3, <2>1
  <2>3. ASSUME NEW T \in SUBSET S, Cardinality(T) <= k + 1
        PROVE  h[T] = Step(h)[T]
    <3>1. CASE T = {}
      BY <3>1
    <3>2. CASE T # {}
      <4>1. T \ {Some(T)} \in SUBSET S /\ Cardinality(T \ {Some(T)}) <= k
        <5>1. Cardinality(T) \in Nat /\ Cardinality(T \ {Some(T)}) = Cardinality(T) - 1
          BY <1>1, <1>2, <3>2
        <5> QED
          BY <1>2, <2>3, <3>2, <5>1
      <4>2. g[T \ {Some(T)}] = h[T \ {Some(T)}]
        BY <2>1, <4>1
      <4>3. h[T] = f[Some(T)] + g[T \ {Some(T)}]
        BY <3>2
      <4>4. Step(h)[T] = f[Some(T)] + h[T \ {Some(T)}]
        <5> HIDE DEF h
        <5> QED
          BY <3>2
      <4> QED
        BY <4>2, <4>3, <4>4
    <3> QED
      BY <3>1, <3>2
  <2>4. Upto(k + 1, h)
    <3> HIDE DEF h, Step
    <3> QED
      BY <2>2, <2>3
  <2>5. \E g2 : Upto(k + 1, g2)
    <3> HIDE DEF h, Upto
    <3> QED
      BY <2>4
  <2> QED
    <3> HIDE DEF Upto
    <3> QED
      BY <2>5
<1>6. Nat \subseteq K
  <2> HIDE DEF K
  <2> QED
    BY <1>4, <1>5, InductionOnNat
<1>7. PICK g : Upto(Cardinality(S), g)
  BY <1>1, <1>6
<1>8. \A T \in SUBSET S : Cardinality(T) <= Cardinality(S)
  BY FS_Subset
<1>9. g = Step(g)
  <2>1. g = [T \in SUBSET S |-> g[T]]
    BY <1>7
  <2>2. \A T \in SUBSET S : g[T] = Step(g)[T]
    BY <1>7, <1>8
  <2> QED
    BY <2>1, <2>2
<1>10. IsTotal(f, S, g)
  BY <1>9 DEF IsTotal
<1> QED
  BY <1>7, <1>10

LEMMA TotalEquation ==
  ASSUME NEW S, NEW f, NEW g, IsTotal(f, S, g)
  PROVE  /\ g[{}] = 0
         /\ \A T \in SUBSET S : T # {} => /\ Some(T) \in T
                                         /\ g[T] = f[Some(T)] + g[T \ {Some(T)}]
<1>1. \A T \in SUBSET S : g[T] = IF T = {} THEN 0 ELSE f[Some(T)] + g[T \ {Some(T)}]
  BY Zenon DEF IsTotal
<1>2. g[{}] = 0
  BY <1>1
<1> QED
  BY <1>1, <1>2 DEF Some

(* Two totals agree where both are defined. *)
LEMMA TotalsAgree ==
  ASSUME NEW S, NEW R \in SUBSET S, IsFiniteSet(R), NEW f, NEW g, NEW h,
         IsTotal(f, S, g), IsTotal(f, R, h)
  PROVE  g[R] = h[R]
<1> DEFINE K == {k \in Nat : \A T \in SUBSET R : Cardinality(T) = k => g[T] = h[T]}
<1>1. \A T \in SUBSET R : IsFiniteSet(T) /\ Cardinality(T) \in Nat
  BY FS_Subset, FS_CardinalityType
<1>2. 0 \in K
  <2>1. g[{}] = 0 /\ h[{}] = 0
    BY TotalEquation
  <2> QED
    BY <1>1, <2>1, FS_EmptySet
<1>3. ASSUME NEW k \in Nat, k \in K PROVE k + 1 \in K
  <2> SUFFICES ASSUME NEW T \in SUBSET R, Cardinality(T) = k + 1 PROVE g[T] = h[T]
    OBVIOUS
  <2>1. T # {} /\ T \in SUBSET S
    BY FS_EmptySet
  <2> DEFINE e == Some(T)
  <2>2. e \in T /\ g[T] = f[e] + g[T \ {e}]
    BY <2>1, TotalEquation
  <2>3. h[T] = f[e] + h[T \ {e}]
    BY <2>1, TotalEquation
  <2> HIDE DEF e
  <2>4. Cardinality(T \ {e}) = k
    <3>1. Cardinality(T \ {e}) = Cardinality(T) - 1
      BY <1>1, <2>2, FS_RemoveElement
    <3> QED
      BY <3>1
  <2>5. g[T \ {e}] = h[T \ {e}]
    BY <1>3, <2>2, <2>4
  <2> QED
    BY <2>2, <2>3, <2>5
<1>4. Nat \subseteq K
  <2> HIDE DEF K
  <2> QED
    BY <1>2, <1>3, InductionOnNat
<1> QED
  BY <1>1, <1>4

LEMMA TotalOverIs ==
  ASSUME NEW S, IsFiniteSet(S), NEW f, \A e \in S : f[e] \in Int,
         NEW g, IsTotal(f, S, g), NEW R \in SUBSET S
  PROVE  TotalOver(f, R) = g[R]
<1>1. IsFiniteSet(R) /\ \A e \in R : f[e] \in Int
  BY FS_Subset
<1>2. \E h : IsTotal(f, R, h)
  BY <1>1, TotalExists
<1>3. IsTotal(f, R, CHOOSE h : IsTotal(f, R, h))
  BY <1>2, Zenon
<1>4. TotalOver(f, R) = (CHOOSE h : IsTotal(f, R, h))[R]
  BY Zenon DEF TotalOver, IsTotal, Some
<1> QED
  BY <1>1, <1>3, <1>4, TotalsAgree

LEMMA TotalOfNone ==
  ASSUME NEW f
  PROVE  TotalOver(f, {}) = 0
<1>1. \A e \in {} : f[e] \in Int
  OBVIOUS
<1>2. PICK g : IsTotal(f, {}, g)
  BY <1>1, FS_EmptySet, TotalExists
<1>3. g[{}] = 0
  BY <1>2, TotalEquation
<1>4. TotalOver(f, {}) = g[{}]
  BY <1>1, <1>2, FS_EmptySet, TotalOverIs
<1> QED
  BY <1>3, <1>4

LEMMA TotalType ==
  ASSUME NEW S, IsFiniteSet(S), NEW f, \A e \in S : f[e] \in Int
  PROVE  TotalOver(f, S) \in Int
<1>1. PICK g : IsTotal(f, S, g) /\ \A T \in SUBSET S : g[T] \in Int
  BY TotalExists
<1> QED
  BY <1>1, TotalOverIs

(* It does not matter which member is added last. *)
LEMMA TotalOfOneMore ==
  ASSUME NEW R, IsFiniteSet(R), NEW x, x \notin R,
         NEW f, \A e \in R \cup {x} : f[e] \in Int
  PROVE  TotalOver(f, R \cup {x}) = TotalOver(f, R) + f[x]
<1> DEFINE S == R \cup {x}
<1>1. IsFiniteSet(S)
  BY FS_AddElement
<1>2. PICK g : IsTotal(f, S, g) /\ \A T \in SUBSET S : g[T] \in Int
  BY <1>1, TotalExists
<1>3. \A T \in SUBSET S : IsFiniteSet(T) /\ Cardinality(T) \in Nat
  BY <1>1, FS_Subset, FS_CardinalityType
<1> DEFINE K == {k \in Nat : \A T \in SUBSET S : \A e \in S \ T :
                               Cardinality(T) = k => g[T \cup {e}] = g[T] + f[e]}
<1> HIDE DEF S
<1>4. \A e \in S : f[e] \in Int
  BY DEF S
<1>5. \A e \in S : g[{e}] = f[e]
  <2> SUFFICES ASSUME NEW e \in S PROVE g[{e}] = f[e]
    OBVIOUS
  <2>1. {e} \in SUBSET S /\ {e} # {}
    OBVIOUS
  <2>2. Some({e}) \in {e} /\ g[{e}] = f[Some({e})] + g[{e} \ {Some({e})}]
    BY <1>2, <2>1, TotalEquation
  <2>3. Some({e}) = e /\ {e} \ {e} = {}
    BY <2>2
  <2>4. g[{}] = 0
    BY <1>2, TotalEquation
  <2>5. g[{e}] = f[e] + g[{}]
    BY <2>2, <2>3
  <2> QED
    BY <1>4, <2>4, <2>5
<1>6. 0 \in K
  <2> SUFFICES ASSUME NEW T \in SUBSET S, NEW e \in S \ T, Cardinality(T) = 0
               PROVE  g[T \cup {e}] = g[T] + f[e]
    OBVIOUS
  <2>1. T = {} /\ T \cup {e} = {e} /\ g[T] = 0
    BY <1>2, <1>3, FS_EmptySet, TotalEquation
  <2> QED
    BY <1>4, <1>5, <2>1
<1>7. ASSUME NEW k \in Nat, k \in K PROVE k + 1 \in K
  <2> SUFFICES ASSUME NEW T \in SUBSET S, NEW e \in S \ T, Cardinality(T) = k + 1
               PROVE  g[T \cup {e}] = g[T] + f[e]
    OBVIOUS
  <2> DEFINE c == Some(T \cup {e})
  <2>1. c \in T \cup {e} /\ g[T \cup {e}] = f[c] + g[(T \cup {e}) \ {c}]
    <3> DEFINE V == T \cup {e}
    <3>1. V \in SUBSET S /\ V # {}
      OBVIOUS
    <3>2. Some(V) \in V /\ g[V] = f[Some(V)] + g[V \ {Some(V)}]
      <4> HIDE DEF V
      <4> QED
        BY <1>2, <3>1, TotalEquation
    <3> QED
      BY <3>2
  <2> HIDE DEF c
  <2>2. CASE c = e
    <3>1. (T \cup {e}) \ {c} = T /\ g[T] \in Int /\ f[e] \in Int
      BY <1>2, <1>4, <2>2
    <3>2. g[T \cup {e}] = f[e] + g[T]
      BY <2>1, <2>2, <3>1
    <3> QED
      BY <3>1, <3>2
  <2>3. CASE c # e
    <3> DEFINE U == T \ {c}
    <3>1. /\ U \in SUBSET S /\ e \in S \ U /\ c \in S \ U
          /\ (T \cup {e}) \ {c} = U \cup {e} /\ T = U \cup {c}
      BY <2>1, <2>3
    <3>2. Cardinality(U) = k
      <4>1. Cardinality(T \ {c}) = Cardinality(T) - 1
        BY <1>3, <2>1, <2>3, FS_RemoveElement
      <4> QED
        BY <4>1
    <3> HIDE DEF U
    <3>3. g[U \cup {e}] = g[U] + f[e]
      BY <1>7, <3>1, <3>2
    <3>4. g[U \cup {c}] = g[U] + f[c]
      BY <1>7, <3>1, <3>2
    <3>5. g[U] \in Int /\ f[e] \in Int /\ f[c] \in Int
      BY <1>2, <1>4, <3>1
    <3>6. g[T \cup {e}] = f[c] + g[U \cup {e}] /\ g[T] = g[U \cup {c}]
      BY <2>1, <3>1
    <3> QED
      BY <3>3, <3>4, <3>5, <3>6
  <2> QED
    BY <2>2, <2>3
<1>8. Nat \subseteq K
  <2> HIDE DEF K
  <2> QED
    BY <1>6, <1>7, InductionOnNat
<1>9. R \in SUBSET S /\ x \in S \ R /\ S \in SUBSET S /\ S = R \cup {x}
  BY DEF S
<1>10. g[R \cup {x}] = g[R] + f[x]
  BY <1>3, <1>8, <1>9
<1>11. TotalOver(f, R) = g[R] /\ TotalOver(f, S) = g[S]
  BY <1>1, <1>2, <1>4, <1>9, TotalOverIs
<1> QED
  BY <1>9, <1>10, <1>11

(* Induction for what two totals over the same sets say of each other *)
LEMMA TotalOfSame ==
  ASSUME NEW S, IsFiniteSet(S), NEW f, NEW g,
         \A e \in S : f[e] \in Int /\ f[e] = g[e]
  PROVE  TotalOver(f, S) = TotalOver(g, S)
<1> DEFINE P == {T \in SUBSET S : TotalOver(f, T) = TotalOver(g, T)}
<1>1. {} \in P
  BY TotalOfNone
<1>2. ASSUME NEW T \in SUBSET S, NEW e \in S \ T, T \in P PROVE T \cup {e} \in P
  <2>1. IsFiniteSet(T)
    BY FS_Subset
  <2>2. TotalOver(f, T \cup {e}) = TotalOver(f, T) + f[e]
    BY <2>1, TotalOfOneMore
  <2>3. TotalOver(g, T \cup {e}) = TotalOver(g, T) + g[e]
    BY <2>1, TotalOfOneMore
  <2> QED
    BY <1>2, <2>2, <2>3
<1>3. SUBSET S \subseteq P
  <2> HIDE DEF P
  <2> QED
    BY <1>1, <1>2, FiniteInduction
<1> QED
  BY <1>3

LEMMA TotalOfSum ==
  ASSUME NEW S, IsFiniteSet(S), NEW f, NEW g, NEW h,
         \A e \in S : f[e] \in Int /\ g[e] \in Int /\ h[e] = f[e] + g[e]
  PROVE  TotalOver(h, S) = TotalOver(f, S) + TotalOver(g, S)
<1> DEFINE P == {T \in SUBSET S : TotalOver(h, T) = TotalOver(f, T) + TotalOver(g, T)}
<1>1. {} \in P
  BY TotalOfNone
<1>2. ASSUME NEW T \in SUBSET S, NEW e \in S \ T, T \in P PROVE T \cup {e} \in P
  <2>1. IsFiniteSet(T) /\ \A d \in T \cup {e} : f[d] \in Int /\ g[d] \in Int /\ h[d] \in Int
    BY FS_Subset
  <2>2. TotalOver(f, T) \in Int /\ TotalOver(g, T) \in Int
    BY <2>1, TotalType
  <2>3. TotalOver(f, T \cup {e}) = TotalOver(f, T) + f[e]
    BY <2>1, TotalOfOneMore
  <2>4. TotalOver(g, T \cup {e}) = TotalOver(g, T) + g[e]
    BY <2>1, TotalOfOneMore
  <2>5. TotalOver(h, T \cup {e}) = TotalOver(h, T) + h[e]
    BY <2>1, TotalOfOneMore
  <2>6. TotalOver(h, T) = TotalOver(f, T) + TotalOver(g, T)
    BY <1>2
  <2>7. f[e] \in Int /\ g[e] \in Int /\ h[e] = f[e] + g[e]
    OBVIOUS
  <2>8. TotalOver(h, T \cup {e}) = TotalOver(f, T \cup {e}) + TotalOver(g, T \cup {e})
    BY <2>2, <2>3, <2>4, <2>5, <2>6, <2>7
  <2> QED
    BY <2>8
<1>3. SUBSET S \subseteq P
  <2> HIDE DEF P
  <2> QED
    BY <1>1, <1>2, FiniteInduction
<1> QED
  BY <1>3

LEMMA TotalOfNothing ==
  ASSUME NEW S, IsFiniteSet(S), NEW f, \A e \in S : f[e] = 0
  PROVE  TotalOver(f, S) = 0
<1> DEFINE P == {T \in SUBSET S : TotalOver(f, T) = 0}
<1>1. {} \in P
  BY TotalOfNone
<1>2. ASSUME NEW T \in SUBSET S, NEW e \in S \ T, T \in P PROVE T \cup {e} \in P
  <2>1. IsFiniteSet(T) /\ \A d \in T \cup {e} : f[d] \in Int
    BY FS_Subset
  <2>2. TotalOver(f, T \cup {e}) = TotalOver(f, T) + f[e]
    BY <2>1, TotalOfOneMore
  <2> QED
    BY <1>2, <2>2
<1>3. SUBSET S \subseteq P
  <2> HIDE DEF P
  <2> QED
    BY <1>1, <1>2, FiniteInduction
<1> QED
  BY <1>3

(* Members that have nothing do not count. *)
LEMMA TotalOfPart ==
  ASSUME NEW S, IsFiniteSet(S), NEW R \in SUBSET S, NEW f,
         \A e \in S : f[e] \in Int, \A e \in S \ R : f[e] = 0
  PROVE  TotalOver(f, S) = TotalOver(f, R)
<1> DEFINE P == {T \in SUBSET S : TotalOver(f, T) = TotalOver(f, T \cap R)}
<1>1. {} \in P
  <2>1. {} \cap R = {}
    OBVIOUS
  <2> QED
    BY <2>1
<1>2. ASSUME NEW T \in SUBSET S, NEW e \in S \ T, T \in P PROVE T \cup {e} \in P
  <2>1. IsFiniteSet(T) /\ IsFiniteSet(T \cap R) /\ T \cap R \subseteq S
    BY FS_Subset
  <2>2. TotalOver(f, T \cup {e}) = TotalOver(f, T) + f[e]
    BY <2>1, TotalOfOneMore
  <2>3. CASE e \in R
    <3>1. (T \cup {e}) \cap R = (T \cap R) \cup {e} /\ e \notin T \cap R
      BY <2>3
    <3>2. TotalOver(f, (T \cap R) \cup {e}) = TotalOver(f, T \cap R) + f[e]
      BY <2>1, <3>1, TotalOfOneMore
    <3> QED
      BY <1>2, <2>2, <3>1, <3>2
  <2>4. CASE e \notin R
    <3>1. (T \cup {e}) \cap R = T \cap R /\ f[e] = 0
      BY <2>4
    <3>2. TotalOver(f, T) \in Int
      BY <2>1, TotalType
    <3>3. TotalOver(f, T \cup {e}) = TotalOver(f, T)
      BY <2>2, <3>1, <3>2
    <3> QED
      BY <1>2, <3>1, <3>3
  <2> QED
    BY <2>3, <2>4
<1>3. SUBSET S \subseteq P
  <2> HIDE DEF P
  <2> QED
    BY <1>1, <1>2, FiniteInduction
<1>4. S \cap R = R
  OBVIOUS
<1> QED
  BY <1>3, <1>4

(* Where in a sequence some values are *)
Places(s, V) == {i \in DOMAIN s : s[i] \in V}

(* Counting the places of each of some values counts the places of them all. *)
LEMMA TotalOfPlaces ==
  ASSUME NEW s, IsFiniteSet(DOMAIN s), NEW V, IsFiniteSet(V), NEW f,
         \A v \in V : f[v] = Cardinality(Places(s, {v}))
  PROVE  TotalOver(f, V) = Cardinality(Places(s, V))
<1> DEFINE P == {T \in SUBSET V : TotalOver(f, T) = Cardinality(Places(s, T))}
<1>1. \A T : IsFiniteSet(Places(s, T)) /\ Cardinality(Places(s, T)) \in Nat
  <2> SUFFICES ASSUME NEW T PROVE IsFiniteSet(Places(s, T)) /\ Cardinality(Places(s, T)) \in Nat
    OBVIOUS
  <2>1. Places(s, T) \in SUBSET DOMAIN s
    BY DEF Places
  <2> QED
    BY <2>1, FS_Subset, FS_CardinalityType
<1>3. {} \in P
  <2>1. Places(s, {}) = {}
    BY DEF Places
  <2> QED
    BY <2>1, TotalOfNone, FS_EmptySet
<1>4. ASSUME NEW T \in SUBSET V, NEW e \in V \ T, T \in P PROVE T \cup {e} \in P
  <2>1. Places(s, T \cup {e}) = Places(s, T) \cup Places(s, {e}) /\ Places(s, T) \cap Places(s, {e}) = {}
    BY DEF Places
  <2>2. \A v \in V : f[v] \in Int
    <3>1. \A v \in V : Cardinality(Places(s, {v})) \in Nat
      BY <1>1
    <3>2. \A v \in V : f[v] \in Nat
      BY <3>1, Zenon
    <3> QED
      BY <3>2
  <2>3. IsFiniteSet(T) /\ \A d \in T \cup {e} : f[d] \in Int
    BY <2>2, FS_Subset
  <2>4. TotalOver(f, T \cup {e}) = TotalOver(f, T) + f[e]
    BY <2>3, TotalOfOneMore
  <2>5. Cardinality(Places(s, T) \cup Places(s, {e})) = Cardinality(Places(s, T)) + Cardinality(Places(s, {e}))
    <3>1. Cardinality(Places(s, T) \cup Places(s, {e}))
            = Cardinality(Places(s, T)) + Cardinality(Places(s, {e})) - Cardinality(Places(s, T) \cap Places(s, {e}))
      BY <1>1, FS_Union
    <3>2. Cardinality(Places(s, T) \cap Places(s, {e})) = 0
      BY <2>1, FS_EmptySet
    <3> QED
      BY <1>1, <3>1, <3>2
  <2>6. f[e] = Cardinality(Places(s, {e})) /\ TotalOver(f, T) = Cardinality(Places(s, T))
    BY <1>4
  <2> QED
    BY <2>1, <2>4, <2>5, <2>6
<1>5. SUBSET V \subseteq P
  <2> HIDE DEF P
  <2> QED
    BY <1>3, <1>4, FiniteInduction
<1> QED
  BY <1>5
-----------------------------------------------------------------------------
(* Bags *)
FiniteBag(B) == IsFiniteSet(DOMAIN B) /\ B \in [DOMAIN B -> Nat \ {0}]

Copies(v, B) == IF v \in DOMAIN B THEN B[v] ELSE 0

(* How many of the values V are in a bag *)
Amount(B, V) == TotalOver([v \in V |-> Copies(v, B)], V)

LEMMA CopiesType ==
  ASSUME NEW B, FiniteBag(B), NEW v
  PROVE  Copies(v, B) \in Nat /\ (v \in DOMAIN B <=> Copies(v, B) # 0)
BY DEF FiniteBag, Copies

LEMMA CopiesOfUnion ==
  ASSUME NEW A, NEW B, FiniteBag(A), FiniteBag(B)
  PROVE  /\ FiniteBag(A (+) B) /\ DOMAIN (A (+) B) = DOMAIN A \cup DOMAIN B
         /\ \A v : Copies(v, A (+) B) = Copies(v, A) + Copies(v, B)
<1>1. DOMAIN (A (+) B) = DOMAIN A \cup DOMAIN B /\ IsFiniteSet(DOMAIN (A (+) B))
  BY FS_Union DEF (+), FiniteBag
<1>2. \A v \in DOMAIN A \cup DOMAIN B : (A (+) B)[v] = Copies(v, A) + Copies(v, B)
  BY DEF (+), Copies
<1>3. \A v \in DOMAIN A \cup DOMAIN B : (A (+) B)[v] \in Nat \ {0}
  <2> SUFFICES ASSUME NEW v \in DOMAIN A \cup DOMAIN B PROVE (A (+) B)[v] \in Nat \ {0}
    OBVIOUS
  <2>1. Copies(v, A) \in Nat /\ Copies(v, B) \in Nat /\ (Copies(v, A) # 0 \/ Copies(v, B) # 0)
    BY CopiesType
  <2> QED
    BY <1>2, <2>1
<1>4. A (+) B = [v \in DOMAIN A \cup DOMAIN B |-> (A (+) B)[v]]
  BY DEF (+)
<1>5. A (+) B \in [DOMAIN (A (+) B) -> Nat \ {0}]
  <2> DEFINE C == A (+) B
             D == DOMAIN A \cup DOMAIN B
  <2>1. C = [v \in D |-> C[v]] /\ \A v \in D : C[v] \in Nat \ {0}
    BY <1>3, <1>4
  <2>2. DOMAIN C = D
    BY <1>1
  <2> HIDE DEF C, D
  <2>3. C \in [DOMAIN C -> Nat \ {0}]
    BY <2>1, <2>2
  <2> QED
    BY <2>3 DEF C
<1>6. \A v : v \notin DOMAIN A \cup DOMAIN B => Copies(v, A (+) B) = 0 /\ Copies(v, A) = 0 /\ Copies(v, B) = 0
  BY <1>1 DEF Copies
<1>7. \A v \in DOMAIN A \cup DOMAIN B : Copies(v, A (+) B) = (A (+) B)[v]
  BY <1>1 DEF Copies
<1> QED
  BY <1>1, <1>2, <1>5, <1>6, <1>7 DEF FiniteBag

LEMMA AmountType ==
  ASSUME NEW B, FiniteBag(B), NEW V, IsFiniteSet(V)
  PROVE  Amount(B, V) \in Int
<1> DEFINE f == [v \in V |-> Copies(v, B)]
<1>1. \A v \in V : f[v] \in Int
  BY CopiesType
<1> HIDE DEF f
<1>2. TotalOver(f, V) \in Int
  BY <1>1, TotalType
<1> QED
  BY <1>2 DEF Amount, f

LEMMA AmountOfUnion ==
  ASSUME NEW A, NEW B, FiniteBag(A), FiniteBag(B), NEW V, IsFiniteSet(V)
  PROVE  Amount(A (+) B, V) = Amount(A, V) + Amount(B, V)
<1> DEFINE f == [v \in V |-> Copies(v, A)]
           g == [v \in V |-> Copies(v, B)]
           h == [v \in V |-> Copies(v, A (+) B)]
<1>1. \A v \in V : f[v] \in Int /\ g[v] \in Int /\ h[v] = f[v] + g[v]
  <2>1. \A v \in V : f[v] = Copies(v, A) /\ g[v] = Copies(v, B) /\ h[v] = Copies(v, A (+) B)
    OBVIOUS
  <2>2. \A v : Copies(v, A) \in Nat /\ Copies(v, B) \in Nat
    BY CopiesType
  <2>3. \A v : Copies(v, A (+) B) = Copies(v, A) + Copies(v, B)
    BY CopiesOfUnion
  <2> HIDE DEF f, g, h
  <2> QED
    BY <2>1, <2>2, <2>3
<1> HIDE DEF f, g, h
<1>2. TotalOver(h, V) = TotalOver(f, V) + TotalOver(g, V)
  BY <1>1, TotalOfSum
<1> QED
  BY <1>2 DEF Amount, f, g, h

(* The values may be more than there are in the bag, or some of these. *)
LEMMA AmountWithin ==
  ASSUME NEW B, FiniteBag(B), NEW V, IsFiniteSet(V), NEW U \in SUBSET V, DOMAIN B \cap V \subseteq U
  PROVE  Amount(B, V) = Amount(B, U)
<1> DEFINE f == [v \in V |-> Copies(v, B)]
           g == [v \in U |-> Copies(v, B)]
<1>1. /\ \A v \in V : f[v] \in Int
      /\ \A v \in V \ U : f[v] = 0
      /\ \A v \in U : f[v] \in Int /\ f[v] = g[v]
  BY CopiesType DEF Copies
<1>2. IsFiniteSet(U)
  BY FS_Subset
<1> HIDE DEF f, g
<1>3. TotalOver(f, V) = TotalOver(f, U)
  BY <1>1, TotalOfPart
<1>4. TotalOver(f, U) = TotalOver(g, U)
  BY <1>1, <1>2, TotalOfSame
<1> QED
  BY <1>3, <1>4 DEF Amount, f, g

LEMMA AmountIsTotal ==
  ASSUME NEW B, FiniteBag(B), NEW V \in SUBSET DOMAIN B
  PROVE  Amount(B, V) = TotalOver(B, V)
<1> DEFINE f == [v \in V |-> Copies(v, B)]
<1>1. IsFiniteSet(V) /\ \A v \in V : f[v] \in Int /\ f[v] = B[v]
  BY FS_Subset, CopiesType DEF FiniteBag, Copies
<1> HIDE DEF f
<1>2. TotalOver(f, V) = TotalOver(B, V)
  BY <1>1, TotalOfSame
<1> QED
  BY <1>2 DEF Amount, f

LEMMA AmountIsCount ==
  ASSUME NEW B, FiniteBag(B), NEW V, IsFiniteSet(V), DOMAIN B \subseteq V
  PROVE  Amount(B, V) = CountOf(B)
<1>1. Amount(B, V) = Amount(B, DOMAIN B)
  BY AmountWithin
<1>2. Amount(B, DOMAIN B) = TotalOver(B, DOMAIN B)
  BY AmountIsTotal
<1> QED
  BY <1>1, <1>2 DEF CountOf

LEMMA BagOfSequence ==
  ASSUME NEW X, NEW s \in Seq(X)
  PROVE  /\ FiniteBag(ToBag(s))
         /\ DOMAIN ToBag(s) = {s[i] : i \in DOMAIN s}
         /\ DOMAIN ToBag(s) \subseteq X
         /\ \A v : Copies(v, ToBag(s)) = Cardinality(Places(s, {v}))
         /\ \A V : IsFiniteSet(V) =>
              Amount(ToBag(s), V) = Cardinality(Places(s, V))
         /\ CountOf(ToBag(s)) = Len(s)
<1>1. DOMAIN s = 1..Len(s) /\ Len(s) \in Nat /\ IsFiniteSet(DOMAIN s) /\ Cardinality(DOMAIN s) = Len(s)
  <2>1. DOMAIN s = 1..Len(s) /\ Len(s) \in Nat
    OBVIOUS
  <2>2. IsFiniteSet(1..Len(s)) /\ Cardinality(1..Len(s)) = IF 1 > Len(s) THEN 0 ELSE Len(s) - 1 + 1
    BY <2>1, FS_Interval
  <2> QED
    BY <2>1, <2>2
<1>2. DOMAIN ToBag(s) = {s[i] : i \in DOMAIN s} /\ IsFiniteSet(DOMAIN ToBag(s))
  <2>1. DOMAIN ToBag(s) = {s[i] : i \in DOMAIN s}
    BY DEF ToBag, Range
  <2>2. s \in Surjection(DOMAIN s, {s[i] : i \in DOMAIN s})
    BY DEF Surjection
  <2> QED
    BY <1>1, <2>1, <2>2, FS_Surjection
<1>3. \A v : /\ IsFiniteSet(Places(s, {v})) /\ Cardinality(Places(s, {v})) \in Nat
             /\ Cardinality(Places(s, {v})) = 0 <=> Places(s, {v}) = {}
  <2> SUFFICES ASSUME NEW v
               PROVE  /\ IsFiniteSet(Places(s, {v})) /\ Cardinality(Places(s, {v})) \in Nat
                      /\ Cardinality(Places(s, {v})) = 0 <=> Places(s, {v}) = {}
    OBVIOUS
  <2>1. Places(s, {v}) \in SUBSET DOMAIN s
    BY DEF Places
  <2> QED
    BY <1>1, <2>1, FS_Subset, FS_CardinalityType, FS_EmptySet
<1>9. \A v \in DOMAIN ToBag(s) : ToBag(s)[v] = Cardinality(Places(s, {v}))
  <2>1. \A v : {i \in DOMAIN s : s[i] = v} = Places(s, {v})
    BY DEF Places
  <2> QED
    BY <2>1 DEF ToBag
<1>4. \A v : Copies(v, ToBag(s)) = Cardinality(Places(s, {v}))
  <2> SUFFICES ASSUME NEW v PROVE Copies(v, ToBag(s)) = Cardinality(Places(s, {v}))
    OBVIOUS
  <2>1. CASE v \in DOMAIN ToBag(s)
    BY <1>9, <2>1 DEF Copies
  <2>2. CASE v \notin DOMAIN ToBag(s)
    <3>1. Places(s, {v}) = {}
      BY <1>2, <2>2 DEF Places
    <3> QED
      BY <1>3, <2>2, <3>1 DEF Copies
  <2> QED
    BY <2>1, <2>2
<1>5. FiniteBag(ToBag(s))
  <2>2. \A v \in DOMAIN ToBag(s) : Places(s, {v}) # {}
    BY <1>2 DEF Places
  <2>3. \A v \in DOMAIN ToBag(s) : ToBag(s)[v] \in Nat \ {0}
    BY <1>3, <1>9, <2>2
  <2>4. ToBag(s) = [v \in DOMAIN ToBag(s) |-> ToBag(s)[v]]
    BY DEF ToBag
  <2> DEFINE B == ToBag(s)
  <2>5. IsFiniteSet(DOMAIN B) /\ B = [v \in DOMAIN B |-> B[v]] /\ \A v \in DOMAIN B : B[v] \in Nat \ {0}
    BY <1>2, <2>3, <2>4
  <2> HIDE DEF B
  <2>6. FiniteBag(B)
    BY <2>5 DEF FiniteBag
  <2> QED
    BY <2>6 DEF B
<1>6. ASSUME NEW V, IsFiniteSet(V)
      PROVE  Amount(ToBag(s), V) = Cardinality(Places(s, V))
  <2> DEFINE f == [v \in V |-> Copies(v, ToBag(s))]
  <2>1. \A v \in V : f[v] = Cardinality(Places(s, {v}))
    BY <1>4
  <2> HIDE DEF f
  <2>2. TotalOver(f, V) = Cardinality(Places(s, V))
    BY <1>1, <1>6, <2>1, TotalOfPlaces
  <2> QED
    BY <2>2 DEF f, Amount
<1>7. CountOf(ToBag(s)) = Len(s)
  <2> DEFINE V == DOMAIN ToBag(s)
  <2>1. Places(s, V) = DOMAIN s
    BY <1>2 DEF Places
  <2>2. Amount(ToBag(s), V) = Cardinality(Places(s, V))
    BY <1>2, <1>6
  <2>3. Amount(ToBag(s), V) = CountOf(ToBag(s))
    BY <1>2, <1>5, AmountIsCount
  <2> QED
    BY <1>1, <2>1, <2>2, <2>3
<1>8. DOMAIN ToBag(s) \subseteq X
  BY <1>1, <1>2
<1> QED
  BY <1>2, <1>4, <1>5, <1>6, <1>7, <1>8

LEMMA CountOfUnion ==
  ASSUME NEW A, NEW B, FiniteBag(A), FiniteBag(B)
  PROVE  /\ CountOf(A (+) B) = CountOf(A) + CountOf(B)
         /\ CountOf(A) \in Int
<1> DEFINE V == DOMAIN A \cup DOMAIN B
<1>1. IsFiniteSet(V)
  BY FS_Union DEF FiniteBag
<1>2. FiniteBag(A (+) B) /\ DOMAIN (A (+) B) = V /\ DOMAIN A \subseteq V /\ DOMAIN B \subseteq V
  BY CopiesOfUnion
<1> HIDE DEF V
<1>3. CountOf(A (+) B) = Amount(A (+) B, V) /\ CountOf(A) = Amount(A, V) /\ CountOf(B) = Amount(B, V)
  BY <1>1, <1>2, AmountIsCount
<1>4. Amount(A (+) B, V) = Amount(A, V) + Amount(B, V) /\ Amount(A, V) \in Int
  BY <1>1, AmountOfUnion, AmountType
<1> QED
  BY <1>3, <1>4

LEMMA SumWithin ==
  ASSUME NEW B, FiniteBag(B), NEW V \in SUBSET Int, IsFiniteSet(V), DOMAIN B \subseteq V
  PROVE  SumOf(B) = TotalOver([v \in V |-> v * Copies(v, B)], V) /\ SumOf(B) \in Int
<1> DEFINE f == [v \in V |-> v * Copies(v, B)]
           g == [v \in DOMAIN B |-> v * B[v]]
           U == DOMAIN B
<1>1. \A v \in V : f[v] = v * Copies(v, B) /\ v \in Int /\ Copies(v, B) \in Nat
  BY CopiesType
<1>2. \A v \in V : f[v] \in Int
  <2> HIDE DEF f
  <2> QED
    BY <1>1
<1>3. \A v \in V \ U : f[v] = 0
  <2>1. \A v \in V \ U : Copies(v, B) = 0
    BY DEF Copies
  <2> HIDE DEF f
  <2> QED
    BY <1>1, <2>1
<1>4. \A v \in U : f[v] = g[v]
  BY DEF Copies
<1>5. SumOf(B) = TotalOver(g, U)
  BY DEF SumOf
<1>6. U \in SUBSET V /\ IsFiniteSet(U)
  BY DEF FiniteBag
<1> HIDE DEF f, g, U
<1>7. TotalOver(f, V) = TotalOver(f, U)
  BY <1>2, <1>3, <1>6, TotalOfPart
<1>8. TotalOver(f, U) = TotalOver(g, U)
  BY <1>2, <1>4, <1>6, TotalOfSame
<1>9. TotalOver(f, V) \in Int
  BY <1>2, TotalType
<1> QED
  BY <1>5, <1>7, <1>8, <1>9 DEF f

LEMMA SumOfUnion ==
  ASSUME NEW A, NEW B, FiniteBag(A), FiniteBag(B), DOMAIN A \subseteq Int, DOMAIN B \subseteq Int
  PROVE  SumOf(A (+) B) = SumOf(A) + SumOf(B)
<1> DEFINE V == DOMAIN A \cup DOMAIN B
           f == [v \in V |-> v * Copies(v, A)]
           g == [v \in V |-> v * Copies(v, B)]
           h == [v \in V |-> v * Copies(v, A (+) B)]
<1>1. IsFiniteSet(V) /\ V \in SUBSET Int
  BY FS_Union DEF FiniteBag
<1>2. FiniteBag(A (+) B) /\ DOMAIN (A (+) B) = V /\ DOMAIN A \subseteq V /\ DOMAIN B \subseteq V
  BY CopiesOfUnion
<1>3. \A v \in V : f[v] \in Int /\ g[v] \in Int /\ h[v] = f[v] + g[v]
  <2> SUFFICES ASSUME NEW v \in V PROVE f[v] \in Int /\ g[v] \in Int /\ h[v] = f[v] + g[v]
    OBVIOUS
  <2> DEFINE a == Copies(v, A)
             b == Copies(v, B)
             c == Copies(v, A (+) B)
  <2>1. f[v] = v * a /\ g[v] = v * b /\ h[v] = v * c
    OBVIOUS
  <2>2. a \in Nat /\ b \in Nat /\ c = a + b /\ v \in Int
    BY <1>1, CopiesType, CopiesOfUnion
  <2> HIDE DEF a, b, c, f, g, h
  <2>3. v * a \in Int /\ v * b \in Int /\ v * (a + b) = v * a + v * b
    BY <2>2
  <2> QED
    BY <2>1, <2>2, <2>3
<1>4. SumOf(A) = TotalOver(f, V) /\ SumOf(B) = TotalOver(g, V) /\ SumOf(A (+) B) = TotalOver(h, V)
  <2> HIDE DEF V
  <2> QED
    BY <1>1, <1>2, SumWithin
<1> HIDE DEF f, g, h, V
<1>5. TotalOver(h, V) = TotalOver(f, V) + TotalOver(g, V)
  BY <1>1, <1>3, TotalOfSum
<1> QED
  BY <1>4, <1>5

(* A single value *)
LEMMA BagOfOne ==
  ASSUME NEW n \in Int
  PROVE  /\ FiniteBag(ToBag(<<n>>)) /\ DOMAIN ToBag(<<n>>) = {n}
         /\ CountOf(ToBag(<<n>>)) = 1 /\ SumOf(ToBag(<<n>>)) = n
<1> DEFINE s == <<n>>
<1>1. s \in Seq(Int) /\ DOMAIN s = {1} /\ Len(s) = 1 /\ s[1] = n
  OBVIOUS
<1>2. DOMAIN ToBag(s) = {n}
  <2>1. {s[i] : i \in DOMAIN s} = {n}
    BY <1>1
  <2> QED
    BY <1>1, <2>1, BagOfSequence
<1>3. FiniteBag(ToBag(s)) /\ CountOf(ToBag(s)) = 1
  BY <1>1, BagOfSequence
<1>4. ToBag(s)[n] = 1
  <2>1. Places(s, {n}) = {1}
    BY <1>1 DEF Places
  <2>2. ToBag(s)[n] = Cardinality({i \in DOMAIN s : s[i] = n})
    BY <1>1 DEF ToBag, Range
  <2>3. {i \in DOMAIN s : s[i] = n} = {1}
    BY <1>1
  <2> QED
    BY <2>2, <2>3, FS_Singleton
<1>5. SumOf(ToBag(s)) = n
  <2> DEFINE g == [v \in {n} |-> v * ToBag(s)[v]]
  <2>1. SumOf(ToBag(s)) = TotalOver(g, {n})
    BY <1>2 DEF SumOf
  <2>2. g[n] = n
    BY <1>4
  <2> HIDE DEF g
  <2>3. {} \cup {n} = {n} /\ \A e \in {} \cup {n} : g[e] \in Int
    BY <2>2
  <2>4. TotalOver(g, {} \cup {n}) = TotalOver(g, {}) + g[n]
    BY <2>3, FS_EmptySet, TotalOfOneMore
  <2> QED
    BY <2>1, <2>2, <2>3, <2>4, TotalOfNone
<1> QED
  BY <1>2, <1>3, <1>5

LEMMA EmptyBagFacts ==
  /\ FiniteBag(EmptyBag) /\ DOMAIN EmptyBag = {}
  /\ CountOf(EmptyBag) = 0 /\ SumOf(EmptyBag) = 0
<1>1. DOMAIN EmptyBag = {}
  BY DEF EmptyBag, SetToBag
<1>2. FiniteBag(EmptyBag)
  BY <1>1, FS_EmptySet DEF FiniteBag, EmptyBag, SetToBag
<1>3. CountOf(EmptyBag) = 0 /\ SumOf(EmptyBag) = 0
  BY <1>1, TotalOfNone DEF CountOf, SumOf
<1> QED
  BY <1>1, <1>2, <1>3

(* The counts of a sequence of buckets *)
LEMMA CountOfAppend ==
  ASSUME NEW s \in Seq(Int), NEW x \in Int
  PROVE  CountOf(Append(s, x)) = CountOf(s) + x /\ CountOf(s) \in Int
<1> DEFINE t == Append(s, x)
           N == Len(s)
<1>1. N \in Nat /\ DOMAIN s = 1..N /\ DOMAIN t = (1..N) \cup {N + 1} /\ N + 1 \notin 1..N
  OBVIOUS
<1>2. \A i \in 1..N : s[i] \in Int /\ t[i] = s[i]
  OBVIOUS
<1>3. t[N + 1] = x
  OBVIOUS
<1>4. IsFiniteSet(1..N)
  BY <1>1, FS_Interval
<1> HIDE DEF t
<1>5. \A i \in (1..N) \cup {N + 1} : t[i] \in Int
  BY <1>2, <1>3
<1>6. TotalOver(t, (1..N) \cup {N + 1}) = TotalOver(t, 1..N) + t[N + 1]
  <2> HIDE DEF N
  <2> QED
    BY <1>1, <1>4, <1>5, TotalOfOneMore
<1>7. TotalOver(t, 1..N) = TotalOver(s, 1..N)
  <2> HIDE DEF N
  <2> QED
    BY <1>2, <1>4, <1>5, TotalOfSame
<1>8. TotalOver(s, 1..N) \in Int
  <2> HIDE DEF N
  <2> QED
    BY <1>2, <1>4, TotalType
<1>9. CountOf(t) = TotalOver(t, (1..N) \cup {N + 1}) /\ CountOf(s) = TotalOver(s, 1..N)
  <2> HIDE DEF N
  <2> QED
    BY <1>1 DEF CountOf
<1> QED
  BY <1>3, <1>6, <1>7, <1>8, <1>9 DEF t

LEMMA CountOfEmpty == CountOf(<<>>) = 0
<1>1. DOMAIN <<>> = {}
  OBVIOUS
<1> QED
  BY <1>1, TotalOfNone DEF CountOf

-----------------------------------------------------------------------------
(* Powers of ten *)
LEMMA PowersOfTenEquation ==
  /\ PowersOfTen[0] = 1
  /\ \A p \in 0..MaxPower : PowersOfTen[p] \in Nat \ {0}
  /\ \A p \in 1..MaxPower : PowersOfTen[p] = 10 * PowersOfTen[p - 1]
<1> DEFINE IsPower(k, g) == g = [p \in 0..k |-> IF p = 0 THEN 1 ELSE 10 * g[p - 1]]
           Upto(k, g) == IsPower(k, g) /\ \A p \in 0..k : g[p] \in Nat \ {0}
           K == {k \in Nat : \E g : Upto(k, g)}
<1>1. 0 \in K
  <2> DEFINE h == [p \in 0..0 |-> 1]
  <2>1. Upto(0, h)
    OBVIOUS
  <2> HIDE DEF h, Upto
  <2> QED
    BY <2>1
<1>2. ASSUME NEW k \in Nat, k \in K PROVE k + 1 \in K
  <2>1. PICK g : Upto(k, g)
    BY <1>2
  <2> DEFINE h == [p \in 0..(k + 1) |-> IF p = k + 1 THEN 10 * g[k] ELSE g[p]]
  <2>2. \A p \in 0..k : h[p] = g[p]
    OBVIOUS
  <2>3. h[k + 1] = 10 * g[k]
    OBVIOUS
  <2>4. \A p \in 0..k : g[p] = IF p = 0 THEN 1 ELSE 10 * g[p - 1]
    BY <2>1
  <2>5. \A p \in 0..(k + 1) : h[p] = IF p = 0 THEN 1 ELSE 10 * h[p - 1]
    <3> SUFFICES ASSUME NEW p \in 0..(k + 1) PROVE h[p] = IF p = 0 THEN 1 ELSE 10 * h[p - 1]
      OBVIOUS
    <3> HIDE DEF h
    <3>1. CASE p = k + 1
      <4>1. p # 0 /\ p - 1 = k /\ k \in 0..k
        BY <3>1
      <4> QED
        BY <2>2, <2>3, <3>1, <4>1
    <3>2. CASE p # k + 1
      <4>1. p \in 0..k /\ (p # 0 => p - 1 \in 0..k)
        BY <3>2
      <4> QED
        BY <2>2, <2>4, <4>1
    <3> QED
      BY <3>1, <3>2
  <2>6. h = [p \in 0..(k + 1) |-> h[p]]
    OBVIOUS
  <2>7. \A p \in 0..(k + 1) : h[p] \in Nat \ {0}
    <3>1. g[k] \in Nat \ {0} /\ 10 * g[k] \in Nat \ {0}
      BY <2>1
    <3>2. \A p \in 0..(k + 1) : p = k + 1 \/ p \in 0..k
      OBVIOUS
    <3> HIDE DEF h
    <3> QED
      BY <2>1, <2>2, <2>3, <3>1, <3>2
  <2>8. Upto(k + 1, h)
    <3> HIDE DEF h
    <3>1. IsPower(k + 1, h)
      BY <2>5, <2>6, Zenon
    <3> QED
      BY <2>7, <3>1
  <2> HIDE DEF h, Upto
  <2> QED
    BY <2>8
<1>3. Nat \subseteq K
  <2> HIDE DEF K
  <2> QED
    BY <1>1, <1>2, InductionOnNat
<1>4. \E g : IsPower(MaxPower, g)
  BY <1>3, BucketsAssumption
<1>5. IsPower(MaxPower, PowersOfTen)
  <2>1. IsPower(MaxPower, CHOOSE g : IsPower(MaxPower, g))
    BY <1>4, Zenon
  <2> QED
    BY <2>1, Zenon DEF PowersOfTen
<1>6. \A p \in 0..MaxPower : PowersOfTen[p] = IF p = 0 THEN 1 ELSE 10 * PowersOfTen[p - 1]
  BY <1>5, Zenon
<1> DEFINE L == {k \in Nat : k <= MaxPower => PowersOfTen[k] \in Nat \ {0}}
<1>7. 0 \in L
  BY <1>6, BucketsAssumption
<1>8. ASSUME NEW k \in Nat, k \in L PROVE k + 1 \in L
  <2>1. CASE k + 1 <= MaxPower
    <3>1. k + 1 \in 0..MaxPower /\ k + 1 # 0 /\ (k + 1) - 1 = k /\ k <= MaxPower
      BY <2>1, BucketsAssumption
    <3>2. PowersOfTen[k + 1] = 10 * PowersOfTen[k] /\ PowersOfTen[k] \in Nat \ {0}
      BY <1>6, <1>8, <3>1
    <3> QED
      BY <3>2
  <2> QED
    BY <2>1
<1>9. Nat \subseteq L
  <2> HIDE DEF L
  <2> QED
    BY <1>7, <1>8, InductionOnNat
<1> QED
  BY <1>6, <1>9, BucketsAssumption

LEMMA PowersDivide ==
  ASSUME NEW j \in 0..MaxPower, NEW k \in 0..MaxPower, j <= k
  PROVE  \E m \in Nat \ {0} : PowersOfTen[k] = m * PowersOfTen[j]
<1> DEFINE K == {d \in Nat : j + d <= MaxPower =>
                   \E m \in Nat \ {0} : PowersOfTen[j + d] = m * PowersOfTen[j]}
<1>1. 0 \in K
  <2>1. PowersOfTen[j] = 1 * PowersOfTen[j] /\ j + 0 = j
    BY PowersOfTenEquation, BucketsAssumption
  <2> QED
    BY <2>1
<1>2. ASSUME NEW d \in Nat, d \in K PROVE d + 1 \in K
  <2> SUFFICES ASSUME j + (d + 1) <= MaxPower
               PROVE  \E m \in Nat \ {0} : PowersOfTen[j + (d + 1)] = m * PowersOfTen[j]
    OBVIOUS
  <2>1. j + d <= MaxPower /\ j + (d + 1) \in 1..MaxPower /\ (j + (d + 1)) - 1 = j + d
    BY BucketsAssumption
  <2>2. PICK m \in Nat \ {0} : PowersOfTen[j + d] = m * PowersOfTen[j]
    BY <1>2, <2>1
  <2>3. PowersOfTen[j + (d + 1)] = 10 * PowersOfTen[j + d]
    BY <2>1, PowersOfTenEquation
  <2>4. PowersOfTen[j] \in Nat
    BY PowersOfTenEquation
  <2>5. 10 * (m * PowersOfTen[j]) = (10 * m) * PowersOfTen[j] /\ 10 * m \in Nat \ {0}
    BY <2>4
  <2> QED
    BY <2>2, <2>3, <2>5
<1>3. Nat \subseteq K
  <2> HIDE DEF K
  <2> QED
    BY <1>1, <1>2, InductionOnNat
<1>4. k - j \in Nat /\ j + (k - j) = k /\ k <= MaxPower
  BY BucketsAssumption
<1> QED
  BY <1>3, <1>4

LEMMA PowersGrow ==
  ASSUME NEW j \in 0..MaxPower, NEW k \in 0..MaxPower, j <= k
  PROVE  PowersOfTen[j] <= PowersOfTen[k]
<1>1. PICK m \in Nat \ {0} : PowersOfTen[k] = m * PowersOfTen[j]
  BY PowersDivide
<1>2. PowersOfTen[j] \in Nat
  BY PowersOfTenEquation
<1> DEFINE x == PowersOfTen[j]
<1> HIDE DEF x
<1>3. x \in Nat => m * x >= x
  BY Z3
<1> QED
  BY <1>1, <1>2, <1>3 DEF x

LEMMA DigitsAre ==
  ASSUME NEW n \in Nat, n <= PowersOfTen[MaxPower]
  PROVE  /\ Digits(n) \in 0..MaxPower
         /\ n <= PowersOfTen[Digits(n)]
         /\ Digits(n) > 0 => PowersOfTen[Digits(n) - 1] < n
<1> DEFINE P == {p \in 0..MaxPower : n <= PowersOfTen[p]}
<1>1. MaxPower \in P /\ P \in SUBSET Nat
  BY BucketsAssumption
<1>2. \E m \in P : \A p \in P : m <= p
  BY <1>1, LeastElement
<1>3. Digits(n) = CHOOSE m \in P : \A p \in P : m <= p
  BY DEF Digits, Min
<1>4. Digits(n) \in P /\ \A p \in P : Digits(n) <= p
  <2> HIDE DEF P
  <2> QED
    BY <1>2, <1>3
<1>5. Digits(n) > 0 => Digits(n) - 1 \notin P /\ Digits(n) - 1 \in 0..MaxPower
  BY <1>4, BucketsAssumption
<1>6. \A p \in 0..MaxPower : PowersOfTen[p] \in Nat
  BY PowersOfTenEquation
<1> QED
  BY <1>4, <1>5, <1>6

LEMMA DigitsFrom ==
  ASSUME NEW n \in Nat, NEW k \in 0..MaxPower, n <= PowersOfTen[k],
         k > 0 => PowersOfTen[k - 1] < n
  PROVE  Digits(n) = k /\ n <= PowersOfTen[MaxPower]
<1>1. PowersOfTen[k] \in Nat /\ PowersOfTen[MaxPower] \in Nat /\ PowersOfTen[k] <= PowersOfTen[MaxPower]
  BY PowersOfTenEquation, PowersGrow, BucketsAssumption
<1>2. n <= PowersOfTen[MaxPower]
  BY <1>1
<1> DEFINE q == Digits(n)
<1>3. q \in 0..MaxPower /\ n <= PowersOfTen[q] /\ (q > 0 => PowersOfTen[q - 1] < n)
  BY <1>2, DigitsAre
<1> HIDE DEF q
<1>4. ~(q < k)
  <2> SUFFICES ASSUME q < k PROVE FALSE
    OBVIOUS
  <2>1. k > 0 /\ k - 1 \in 0..MaxPower /\ q <= k - 1
    BY <1>3, BucketsAssumption
  <2>2. PowersOfTen[q] <= PowersOfTen[k - 1] /\ PowersOfTen[q] \in Nat /\ PowersOfTen[k - 1] \in Nat
    BY <1>3, <2>1, PowersGrow, PowersOfTenEquation
  <2> QED
    BY <1>3, <2>1, <2>2
<1>5. ~(k < q)
  <2> SUFFICES ASSUME k < q PROVE FALSE
    OBVIOUS
  <2>1. q > 0 /\ q - 1 \in 0..MaxPower /\ k <= q - 1
    BY <1>3, BucketsAssumption
  <2>2. PowersOfTen[k] <= PowersOfTen[q - 1] /\ PowersOfTen[q - 1] \in Nat
    BY <1>3, <2>1, PowersGrow, PowersOfTenEquation
  <2> QED
    BY <1>1, <1>3, <2>1, <2>2
<1>6. q = k
  BY <1>3, <1>4, <1>5, BucketsAssumption
<1> QED
  BY <1>2, <1>6 DEF q
-----------------------------------------------------------------------------
(* Rounding *)
LEMMA DivisionUp ==
  ASSUME NEW n \in Nat \ {0}, NEW m \in Nat \ {0}
  PROVE  /\ DivideUp(n, m) \in Nat \ {0}
         /\ (DivideUp(n, m) - 1) * m < n /\ n <= DivideUp(n, m) * m
<1> DEFINE a == n + m - 1
           d == a \div m
<1>1. a \in Nat /\ a >= m
  OBVIOUS
<1> HIDE DEF a
<1>2. d \in Int /\ m * d <= a /\ a < m * d + m
  BY <1>1, Z3
<1> HIDE DEF d
<1>3. (d - 1) * m = m * d - m /\ d * m = m * d /\ m * d \in Int
  BY <1>2, Z3
<1>4. (d - 1) * m < n /\ n <= d * m
  BY <1>2, <1>3 DEF a
<1>5. d > 0
  <2> SUFFICES ASSUME d <= 0 PROVE FALSE
    BY <1>2
  <2>1. d * m <= 0
    BY <1>2, Z3
  <2> QED
    BY <1>3, <1>4, <2>1
<1> QED
  BY <1>2, <1>4, <1>5 DEF DivideUp, a, d

LEMMA DivisionUpIs ==
  ASSUME NEW n \in Nat \ {0}, NEW m \in Nat \ {0}, NEW d \in Int, (d - 1) * m < n, n <= d * m
  PROVE  DivideUp(n, m) = d
<1> DEFINE e == DivideUp(n, m)
<1>1. e \in Nat /\ (e - 1) * m < n /\ n <= e * m
  BY DivisionUp
<1> HIDE DEF e
<1>2. ~(e <= d - 1)
  <2> SUFFICES ASSUME e <= d - 1 PROVE FALSE
    OBVIOUS
  <2>1. e * m <= (d - 1) * m
    BY <1>1, Z3
  <2>2. e * m \in Int /\ (d - 1) * m \in Int
    BY <1>1
  <2> QED
    BY <1>1, <2>1, <2>2
<1>3. ~(d <= e - 1)
  <2> SUFFICES ASSUME d <= e - 1 PROVE FALSE
    OBVIOUS
  <2>1. d * m <= (e - 1) * m
    BY <1>1, Z3
  <2>2. d * m \in Int /\ (e - 1) * m \in Int
    BY <1>1
  <2> QED
    BY <1>1, <2>1, <2>2
<1>4. e = d
  BY <1>1, <1>2, <1>3
<1> QED
  BY <1>4 DEF e

(* What is rounded up to d units of v's magnitude m has the magnitude of v. *)
RoundsTo(v, d, m) ==
  /\ Magnitude(v) = m /\ DivideUp(Absolute(v), m) = d
  /\ (d - 1) * m < Absolute(v) /\ Absolute(v) <= d * m

LEMMA MagnitudeIs ==
  ASSUME NEW n \in Nat \ {0}, NEW k \in 0..MaxPower, Digits(n) = k
  PROVE  \E e \in 0..k : /\ Magnitude(n) = PowersOfTen[e]
                         /\ e = 0 \/ e = k - Figures
                         /\ e = 0 => k - Figures <= 0
<1> DEFINE S == {0, k - Figures}
           e == IF k - Figures <= 0 THEN 0 ELSE k - Figures
<1>1. Absolute(n) = n
  BY DEF Absolute
<1>2. Magnitude(n) = PowersOfTen[Max(S)]
  BY <1>1 DEF Magnitude
<1>3. k \in Nat /\ Figures \in Nat \ {0}
  BY BucketsAssumption
<1>4. e \in S /\ \A x \in S : e >= x
  BY <1>3
<1>5. \A x \in S : (\A y \in S : x >= y) => x = e
  BY <1>3
<1>6. Max(S) = CHOOSE x \in S : \A y \in S : x >= y
  BY DEF Max
<1>7. Max(S) = e
  <2> HIDE DEF S, e
  <2> QED
    BY <1>4, <1>5, <1>6
<1> QED
  BY <1>2, <1>3, <1>7

LEMMA Rounding ==
  ASSUME NEW v \in Nat \ {0}, v <= PowersOfTen[MaxPower]
  PROVE  \E d \in Nat \ {0}, m \in Nat \ {0} :
           /\ RoundsTo(v, d, m)
           /\ d * m <= PowersOfTen[MaxPower]
           /\ \A w \in Nat \ {0} : (d - 1) * m < w /\ w <= d * m => RoundsTo(w, d, m)
<1> DEFINE k == Digits(v)
<1>1. k \in 0..MaxPower /\ v <= PowersOfTen[k] /\ (k > 0 => PowersOfTen[k - 1] < v)
  BY DigitsAre
<1> HIDE DEF k
<1>2. PICK e \in 0..k : /\ Magnitude(v) = PowersOfTen[e]
                        /\ e = 0 \/ e = k - Figures
                        /\ e = 0 => k - Figures <= 0
  BY <1>1, MagnitudeIs DEF k
<1>3. e \in 0..MaxPower /\ k \in Nat /\ e \in Nat /\ Figures \in Nat \ {0} /\ MaxPower \in Nat
  BY <1>1, BucketsAssumption
<1> DEFINE m == PowersOfTen[e]
           d == DivideUp(v, m)
<1>4. m \in Nat \ {0}
  BY <1>3, PowersOfTenEquation
<1>5. d \in Nat \ {0} /\ (d - 1) * m < v /\ v <= d * m
  BY <1>4, DivisionUp
<1>6. PICK i \in Nat \ {0} : PowersOfTen[k] = i * m
  BY <1>1, <1>3, PowersDivide
<1> HIDE DEF m, d
<1>7. d * m <= PowersOfTen[k]
  <2> SUFFICES ASSUME ~(d <= i) PROVE FALSE
    <3>1. d <= i => d * m <= i * m
      BY <1>4, <1>5, Z3
    <3> QED
      BY <1>6, <3>1
  <2>1. i * m <= (d - 1) * m
    BY <1>4, <1>5, Z3
  <2>2. i * m \in Int /\ (d - 1) * m \in Int
    BY <1>4, <1>5
  <2> QED
    BY <1>1, <1>5, <1>6, <2>1, <2>2
<1>8. (d - 1) * m \in Int /\ d * m \in Int /\ PowersOfTen[k] \in Nat
  BY <1>1, <1>4, <1>5, PowersOfTenEquation
<1>9. d * m <= PowersOfTen[MaxPower]
  <2>1. PowersOfTen[k] <= PowersOfTen[MaxPower] /\ PowersOfTen[MaxPower] \in Nat
    BY <1>1, <1>3, PowersGrow, PowersOfTenEquation
  <2> QED
    BY <1>7, <1>8, <2>1
<1>10. ASSUME NEW w \in Nat \ {0}, (d - 1) * m < w, w <= d * m
       PROVE  RoundsTo(w, d, m)
  <2>1. w <= PowersOfTen[k]
    BY <1>7, <1>8, <1>10
  <2>2. k > 0 => PowersOfTen[k - 1] < w
    <3> SUFFICES ASSUME k > 0 PROVE PowersOfTen[k - 1] < w
      OBVIOUS
    <3>1. k - 1 \in 0..MaxPower /\ PowersOfTen[k - 1] \in Nat
      BY <1>1, <1>3, PowersOfTenEquation
    <3>2. CASE e = 0
      <4>1. m = 1
        BY <3>2, PowersOfTenEquation DEF m
      <4>2. (d - 1) * m = d - 1 /\ d * m = d
        BY <1>5, <4>1
      <4>3. w = v
        BY <1>5, <1>10, <4>2
      <4> QED
        BY <1>1, <4>3
    <3>3. CASE e # 0
      <4>1. e <= k - 1
        BY <1>2, <1>3, <3>3
      <4>2. PICK j \in Nat \ {0} : PowersOfTen[k - 1] = j * m
        BY <1>3, <3>1, <4>1, PowersDivide DEF m
      <4>3. j < d
        <5> SUFFICES ASSUME d <= j PROVE FALSE
          BY <1>5
        <5>1. d * m <= j * m
          BY <1>4, <1>5, Z3
        <5>2. j * m \in Int /\ j * m < v
          BY <1>1, <1>4, <4>2
        <5> QED
          BY <1>5, <1>8, <5>1, <5>2
      <4>4. j * m <= (d - 1) * m
        BY <1>4, <1>5, <4>3, Z3
      <4> QED
        BY <1>8, <1>10, <3>1, <4>2, <4>4
    <3> QED
      BY <3>2, <3>3
  <2>3. Digits(w) = k
    BY <1>1, <2>1, <2>2, DigitsFrom
  <2>4. PICK c \in 0..k : /\ Magnitude(w) = PowersOfTen[c]
                          /\ c = 0 \/ c = k - Figures
                          /\ c = 0 => k - Figures <= 0
    BY <1>1, <2>3, MagnitudeIs
  <2>5. c = e
    BY <1>2, <1>3, <2>4
  <2>6. Magnitude(w) = m
    BY <2>4, <2>5 DEF m
  <2>7. DivideUp(w, m) = d
    BY <1>4, <1>5, <1>10, DivisionUpIs
  <2>8. Absolute(w) = w
    BY DEF Absolute
  <2> QED
    BY <1>10, <2>6, <2>7, <2>8 DEF RoundsTo
<1>11. RoundsTo(v, d, m)
  BY <1>5, <1>10
<1> QED
  BY <1>4, <1>5, <1>9, <1>10, <1>11

(* The bucket of a number lies at or beyond it, and within the digits that are exact. *)
LEMMA BucketType ==
  ASSUME NEW v \in Int, Absolute(v) <= PowersOfTen[MaxPower]
  PROVE  /\ bucket_10(v) \in Int
         /\ bucket_10_below(bucket_10(v)) \in Int
         /\ bucket_10_below(bucket_10(v)) < bucket_10(v)
<1>1. CASE v = 0
  BY <1>1 DEF bucket_10, bucket_10_below
<1>2. CASE v # 0
  <2> DEFINE a == Absolute(v)
  <2>1. a \in Nat \ {0} /\ a <= PowersOfTen[MaxPower] /\ Absolute(a) = a
    BY <1>2 DEF Absolute
  <2> HIDE DEF a
  <2>2. PICK d \in Nat \ {0}, m \in Nat \ {0} :
           /\ RoundsTo(a, d, m)
           /\ \A w \in Nat \ {0} : (d - 1) * m < w /\ w <= d * m => RoundsTo(w, d, m)
    BY <2>1, Rounding
  <2> DEFINE b == bucket_10(v)
             s == Sign(v)
  <2>3. Magnitude(v) = m /\ DivideUp(Absolute(v), m) = d
    BY <2>1, <2>2 DEF RoundsTo, Magnitude, a
  <2>4. s \in {-1, 1} /\ b = s * d * m
    BY <1>2, <2>3 DEF bucket_10, Rounded, Sign
  <2>5. d * m \in Nat \ {0}
    BY <2>2, Z3
  <2>6. (d - 1) * m < d * m
    BY <2>2, Z3
  <2>7. RoundsTo(d * m, d, m)
    BY <2>2, <2>5, <2>6
  <2>8. b \in Int /\ b # 0 /\ Sign(b) = s /\ Absolute(b) = d * m
    <3>1. CASE s = 1
      <4>1. b = d * m
        BY <2>4, <2>5, <3>1
      <4> HIDE DEF b, s
      <4> QED
        BY <2>5, <3>1, <4>1 DEF Sign, Absolute
    <3>2. CASE s = -1
      <4>1. b = -(d * m)
        BY <2>4, <2>5, <3>2, Z3
      <4> HIDE DEF b, s
      <4> QED
        BY <2>5, <3>2, <4>1 DEF Sign, Absolute
    <3> QED
      BY <2>4, <3>1, <3>2
  <2> HIDE DEF b, s
  <2>9. Magnitude(b) = m /\ DivideUp(Absolute(b), m) = d
    <3>1. Absolute(d * m) = d * m
      BY <2>5 DEF Absolute
    <3>2. Magnitude(d * m) = m /\ DivideUp(d * m, m) = d
      BY <2>7, <3>1 DEF RoundsTo
    <3> QED
      BY <2>8, <3>1, <3>2 DEF Magnitude
  <2>10. Rounded(b) = s * d
    BY <2>8, <2>9 DEF Rounded
  <2>11. bucket_10_below(b) = (s * d - 1) * m
    BY <2>8, <2>9, <2>10 DEF bucket_10_below
  <2>12. (s * d - 1) * m = s * d * m - m /\ s * d * m \in Int
    BY <2>4, Z3
  <2> QED
    BY <2>2, <2>4, <2>11, <2>12 DEF b
<1> QED
  BY <1>1, <1>2

(* The numbers in a bucket are those between its bounds. *)
LEMMA BucketRange ==
  ASSUME NEW v \in Nat, v <= PowersOfTen[MaxPower]
  PROVE  /\ bucket_10_below(bucket_10(v)) < v /\ v <= bucket_10(v)
         /\ bucket_10(v) \in Nat
         /\ \A w \in Nat : bucket_10_below(bucket_10(v)) < w /\ w <= bucket_10(v)
                             => bucket_10(w) = bucket_10(v)
<1>1. CASE v = 0
  <2>1. bucket_10(v) = 0 /\ bucket_10_below(0) = -1
    BY <1>1 DEF bucket_10, bucket_10_below
  <2>2. \A w \in Nat : w <= 0 => w = v
    BY <1>1
  <2> QED
    BY <1>1, <2>1, <2>2
<1>2. CASE v # 0
  <2>1. PICK d \in Nat \ {0}, m \in Nat \ {0} :
           /\ RoundsTo(v, d, m)
           /\ \A w \in Nat \ {0} : (d - 1) * m < w /\ w <= d * m => RoundsTo(w, d, m)
    BY <1>2, Rounding
  <2>2. ASSUME NEW w \in Nat \ {0}, RoundsTo(w, d, m)
        PROVE  bucket_10(w) = d * m /\ bucket_10_below(w) = (d - 1) * m
    <3>1. Rounded(w) = d /\ Magnitude(w) = m
      <4>1. Sign(w) = 1 /\ 1 * d = d
        BY DEF Sign
      <4> QED
        BY <2>2, <4>1 DEF RoundsTo, Rounded
    <3> QED
      BY <3>1 DEF bucket_10, bucket_10_below
  <2>3. d * m \in Nat \ {0}
    BY <2>1, Z3
  <2>4. (d - 1) * m < d * m /\ (d - 1) * m \in Nat
    BY <2>1, Z3
  <2>5. RoundsTo(d * m, d, m)
    BY <2>1, <2>3, <2>4
  <2>6. bucket_10(v) = d * m /\ bucket_10_below(d * m) = (d - 1) * m
    BY <1>2, <2>1, <2>2, <2>3, <2>5
  <2>7. (d - 1) * m < v /\ v <= d * m
    BY <1>2, <2>1 DEF RoundsTo, Absolute
  <2>8. ASSUME NEW w \in Nat, (d - 1) * m < w, w <= d * m
        PROVE  bucket_10(w) = d * m
    <3>1. w \in Nat \ {0}
      BY <2>4, <2>8
    <3> QED
      BY <2>1, <2>2, <2>8, <3>1
  <2> QED
    BY <2>3, <2>6, <2>7, <2>8
<1> QED
  BY <1>1, <1>2

LEMMA BucketsApart ==
  ASSUME NEW u \in Nat, NEW v \in Nat, u <= PowersOfTen[MaxPower], v <= PowersOfTen[MaxPower],
         bucket_10(u) < bucket_10(v)
  PROVE  bucket_10(u) <= bucket_10_below(bucket_10(v))
<1> DEFINE b == bucket_10(u)
           c == bucket_10(v)
<1>1. /\ b \in Nat /\ bucket_10_below(b) < b
      /\ \A w \in Nat : bucket_10_below(b) < w /\ w <= b => bucket_10(w) = b
  <2>1. Absolute(u) = u
    BY DEF Absolute
  <2> QED
    BY <2>1, BucketRange, BucketType
<1>2. \A w \in Nat : bucket_10_below(c) < w /\ w <= c => bucket_10(w) = c
  BY BucketRange
<1>3. c \in Nat /\ bucket_10_below(c) \in Int
  <2>1. Absolute(v) = v
    BY DEF Absolute
  <2> QED
    BY <2>1, BucketRange, BucketType
<1> HIDE DEF b, c
<1>4. bucket_10(b) = b
  BY <1>1
<1>5. b < c
  BY DEF b, c
<1>6. ~(bucket_10_below(c) < b)
  BY <1>1, <1>2, <1>3, <1>4, <1>5
<1>7. b <= bucket_10_below(c)
  BY <1>1, <1>3, <1>6
<1> QED
  BY <1>7 DEF b, c

-----------------------------------------------------------------------------
(* Words *)

(* There is one remainder. *)
LEMMA RemaindersAreUnique ==
  ASSUME NEW m \in Nat \ {0}, NEW d \in Int, NEW s \in 0..(m - 1), NEW t \in 0..(m - 1),
         m * d = s - t
  PROVE  s = t
<1>1. CASE d = 0
  BY <1>1, Z3
<1>2. CASE d >= 1
  <2>1. m * d >= m
    BY <1>2, Z3
  <2> QED
    BY <2>1, Z3
<1>3. CASE d <= -1
  <2>1. m * d <= -m
    BY <1>3, Z3
  <2> QED
    BY <2>1, Z3
<1> QED
  BY <1>1, <1>2, <1>3

LEMMA Division ==
  ASSUME NEW m \in Nat \ {0}, NEW a \in Int
  PROVE  /\ a \div m \in Int /\ a % m \in 0..(m - 1)
         /\ a = m * (a \div m) + (a % m)
BY Z3

(* Adding up modulo m, it does not matter when the remainder is taken. *)
LEMMA RemainderOfSum ==
  ASSUME NEW m \in Nat \ {0}, NEW a \in Int, NEW b \in Int
  PROVE  ((a % m) + b) % m = (a + b) % m
<1> DEFINE q == a \div m
           r == a % m
           p == (r + b) \div m
           s == (r + b) % m
           x == a + b
           u == x \div m
           t == x % m
<1>1. q \in Int /\ r \in 0..(m - 1) /\ a = m * q + r
  BY Division
<1>2. p \in Int /\ s \in 0..(m - 1) /\ r + b = m * p + s
  BY SMTT(30), <1>1, Division
<1>3. x \in Int /\ x = a + b
  OBVIOUS
<1> HIDE DEF x
<1>4. u \in Int /\ t \in 0..(m - 1) /\ x = m * u + t
  BY <1>3, Division
<1> HIDE DEF q, r, p, s, u, t
<1>5. u - q - p \in Int /\ m * (u - q - p) = s - t
  BY <1>1, <1>2, <1>3, <1>4, Z3
<1>6. s = t
  BY <1>2, <1>4, <1>5, RemaindersAreUnique
<1> QED
  BY <1>6 DEF s, t, r, x

LEMMA WordFacts ==
  /\ MinWord \in Int /\ MaxWord \in Int /\ Modulus \in Nat \ {0}
  /\ 0 \in Word /\ Word \subseteq Int /\ Nat \cup Word \subseteq Int
  /\ Numbers \subseteq Nat \cup Word
BY BucketsAssumption, MeasurementAssumption DEF Modulus, Word

LEMMA WrapIsWord ==
  ASSUME NEW n \in Int
  PROVE  Wrap(n) \in Word
<1>1. (n - MinWord) % Modulus \in 0..(Modulus - 1)
  BY WordFacts, Division
<1> QED
  BY <1>1, WordFacts DEF Wrap, Word, Modulus

(* A word does not roll over. *)
LEMMA WrapOfWord ==
  ASSUME NEW n \in Word
  PROVE  Wrap(n) = n
<1> DEFINE a == n - MinWord
<1>1. a \in 0..(Modulus - 1) /\ a \in Int /\ n = a + MinWord /\ n - MinWord = a
  BY WordFacts DEF Word, Modulus
<1> HIDE DEF a
<1>2. a \div Modulus \in Int /\ a % Modulus \in 0..(Modulus - 1)
      /\ a = Modulus * (a \div Modulus) + (a % Modulus)
  BY <1>1, WordFacts, Division
<1>3. Modulus * (a \div Modulus) = a - (a % Modulus)
  BY <1>1, <1>2, WordFacts
<1>4. a % Modulus = a
  BY <1>1, <1>2, <1>3, WordFacts, RemaindersAreUnique
<1> QED
  BY <1>1, <1>4 DEF Wrap

(* A sum may roll over at once or on the way. *)
LEMMA WrapOfSum ==
  ASSUME NEW a \in Int, NEW b \in Int
  PROVE  Wrap(Wrap(a) + b) = Wrap(a + b)
<1> DEFINE c == a - MinWord
<1>1. c \in Int /\ c % Modulus \in Int
  BY WordFacts, Division
<1>2. ((c % Modulus) + b) % Modulus = (c + b) % Modulus
  BY <1>1, WordFacts, RemainderOfSum
<1>3. (Wrap(a) + b) - MinWord = (c % Modulus) + b /\ (a + b) - MinWord = c + b
  BY <1>1, WordFacts DEF Wrap
<1> HIDE DEF c
<1>4. Wrap(Wrap(a) + b) = (((c % Modulus) + b) % Modulus) + MinWord
  <2> DEFINE e == Wrap(a) + b
  <2>1. e - MinWord = (c % Modulus) + b
    BY <1>3
  <2> HIDE DEF e
  <2>2. Wrap(e) = (((c % Modulus) + b) % Modulus) + MinWord
    BY <2>1 DEF Wrap
  <2> QED
    BY <2>2 DEF e
<1>5. Wrap(a + b) = ((c + b) % Modulus) + MinWord
  <2> DEFINE e == a + b
  <2>1. e - MinWord = c + b
    BY <1>3
  <2> HIDE DEF e
  <2>2. Wrap(e) = ((c + b) % Modulus) + MinWord
    BY <2>1 DEF Wrap
  <2> QED
    BY <2>2 DEF e
<1> QED
  BY <1>2, <1>4, <1>5
-----------------------------------------------------------------------------
SumObjects == {Sum(n) : n \in Word}
SumEntries == [kind : {"Sum"}, data : Word]

(* The parts of what was added, in the window and in the object. *)
InWindow == IF entry = NoEntry THEN 0 ELSE entry.data
InObject == IF object = Nothing THEN 0 ELSE Head(object.values)

OnlySums ==
  /\ object # Nothing /\ object.type = "Sum" => object \in SumObjects
  /\ added # Nothing => /\ added \in Word
                        /\ object \in SumObjects \cup {Nothing}
                        /\ phase = "window" => entry \in SumEntries \cup {NoEntry}

SumInvariant == OnlySums /\ SumsAddUp

LEMMA SumFacts ==
  ASSUME NEW n \in Word
  PROVE  /\ Sum(n) # Nothing /\ Sum(n).type = "Sum" /\ Head(Sum(n).values) = n
         /\ Sum(n) \in SumObjects
         /\ [kind |-> "Sum", data |-> n] # NoEntry
         /\ [kind |-> "Sum", data |-> n] \in SumEntries
<1>1. Sum(n) \in Measurements
  <2>1. <<n>> \in Seq(Nat \cup Word)
    OBVIOUS
  <2> QED
    BY <2>1 DEF Sum, Measurements, Types
<1>2. Nothing # "Sum"
  BY NothingAssumption DEF Types
<1> QED
  BY <1>1, <1>2, NothingAssumption DEF Sum, SumObjects, SumEntries, NoEntry

(* The window and the object of a name that only sum() is called with *)
LEMMA PartsAreWords ==
  ASSUME SumInvariant, added # Nothing
  PROVE  InObject \in Word /\ (phase = "window" => InWindow \in Word /\ added = Wrap(InWindow + InObject))
<1>1. InObject \in Word
  BY SumFacts, WordFacts DEF SumInvariant, OnlySums, InObject, SumObjects
<1>2. phase = "window" => InWindow \in Word
  BY WordFacts DEF SumInvariant, OnlySums, InWindow, SumEntries
<1> QED
  BY <1>1, <1>2 DEF SumInvariant, SumsAddUp, InWindow, InObject

LEMMA SumInit == Init => SumInvariant
<1> SUFFICES ASSUME Init PROVE SumInvariant
  OBVIOUS
<1>1. 0 \in Word /\ Wrap(0 + 0) = 0
  BY WordFacts, WrapOfWord
<1> QED
  BY <1>1 DEF Init, SumInvariant, OnlySums, SumsAddUp

LEMMA RecordSumStep ==
  ASSUME SumInvariant, NEW n \in Word, RecordSum(n)
  PROVE  SumInvariant'
<1>1. n \in Word /\ n \in Int
  BY WordFacts
<1>2. /\ phase = "window" /\ phase' = phase /\ entry' = entry
      /\ added' = IF added = Nothing THEN Nothing ELSE Wrap(added + n)
  BY DEF RecordSum, Recorded, exportVars
<1>3. CASE object = Nothing
  <2>1. object' = Sum(n) /\ object' \in SumObjects /\ InObject' = n /\ InObject = 0
    BY <1>1, <1>3, SumFacts DEF RecordSum, InObject
  <2>2. ASSUME added # Nothing
        PROVE  added' \in Word /\ added' = Wrap(InWindow + n)
    <3>1. InWindow \in Int /\ added = Wrap(InWindow)
      <4>1. InWindow \in Int /\ added = Wrap(InWindow + InObject)
        BY <1>2, <2>2, PartsAreWords, WordFacts
      <4>2. InWindow + InObject = InWindow
        BY <2>1, <4>1
      <4> QED
        BY <4>1, <4>2
    <3> QED
      BY <1>1, <1>2, <2>2, <3>1, WrapOfSum, WrapIsWord
  <2>3. added = Nothing => added' = Nothing
    BY <1>2
  <2> QED
    BY <1>2, <2>1, <2>2, <2>3 DEF SumInvariant, OnlySums, SumsAddUp, InWindow, InObject
<1>4. CASE object # Nothing /\ object.type = "Sum"
  <2>1. PICK o \in Word : object = Sum(o)
    BY <1>4 DEF SumInvariant, OnlySums, SumObjects
  <2>2. InObject = o /\ o \in Int
    BY <1>4, <2>1, SumFacts, WordFacts DEF InObject
  <2>3. object' = Sum(Wrap(o + n)) /\ Wrap(o + n) \in Word
    <3>1. object.type = "Sum" /\ Head(object.values) = o
      BY <1>4, <2>1, SumFacts
    <3>2. object' = Sum(Wrap(o + n))
      BY <1>4, <3>1 DEF RecordSum
    <3>3. o + n \in Int
      BY <1>1, <2>2
    <3> QED
      BY <3>2, <3>3, WrapIsWord
  <2>4. object' \in SumObjects /\ InObject' = Wrap(o + n) /\ object' # Nothing
    BY <2>3, SumFacts DEF InObject
  <2>5. ASSUME added # Nothing
        PROVE  added' \in Word /\ added' = Wrap(InWindow + InObject')
    <3>1. InWindow \in Int /\ added = Wrap(InWindow + o) /\ added \in Int
      BY <1>2, <2>2, <2>5, PartsAreWords, WordFacts DEF SumInvariant, OnlySums
    <3>2. added' = Wrap((InWindow + o) + n)
      BY <1>1, <1>2, <2>2, <2>5, <3>1, WrapOfSum
    <3>3. Wrap(Wrap(o + n) + InWindow) = Wrap((o + n) + InWindow)
      BY <1>1, <2>2, <3>1, WrapOfSum
    <3>4. (InWindow + o) + n = (o + n) + InWindow /\ (InWindow + o) + n \in Int
      BY <1>1, <2>2, <3>1
    <3>5. Wrap(o + n) + InWindow = InWindow + Wrap(o + n)
      <4>1. Wrap(o + n) \in Int
        BY <2>3, WordFacts
      <4> QED
        BY <3>1, <4>1
    <3> QED
      BY <2>4, <3>2, <3>3, <3>4, <3>5, WrapIsWord
  <2>6. added = Nothing => added' = Nothing
    BY <1>2
  <2> QED
    BY <1>2, <2>4, <2>5, <2>6 DEF SumInvariant, OnlySums, SumsAddUp, InWindow, InObject
<1>5. CASE object # Nothing /\ object.type # "Sum"
  <2>1. object' = object /\ object \notin SumObjects
    BY <1>5, SumFacts DEF RecordSum, SumObjects
  <2>2. added = Nothing /\ added' = Nothing
    BY <1>2, <1>5, <2>1 DEF SumInvariant, OnlySums
  <2> QED
    BY <1>5, <2>1, <2>2 DEF SumInvariant, OnlySums, SumsAddUp
<1> QED
  BY <1>3, <1>4, <1>5

LEMMA AggregateStep ==
  ASSUME SumInvariant, Aggregate
  PROVE  SumInvariant'
<1>1. /\ phase = "window" /\ phase' = phase /\ added' = added
      /\ object # Nothing /\ object' = Nothing
  BY DEF Aggregate, exportVars
<1>2. CASE added = Nothing
  BY <1>1, <1>2 DEF SumInvariant, OnlySums, SumsAddUp
<1>3. CASE added # Nothing
  <2>1. PICK n \in Word : object = Sum(n)
    BY <1>1, <1>3 DEF SumInvariant, OnlySums, SumObjects
  <2>2. /\ n \in Int /\ object.type = "Sum" /\ Head(object.values) = n /\ InObject = n
        /\ InWindow \in Word /\ InWindow \in Int /\ added = Wrap(InWindow + n)
    BY <1>1, <1>3, <2>1, SumFacts, PartsAreWords, WordFacts DEF InObject
  <2>3. entry' = [kind |-> "Sum", data |-> Wrap(InWindow + n)]
    <3>1. CASE entry = NoEntry
      BY <2>2, <3>1 DEF Aggregate, KindFor, EmptyData, Takes, Accumulated, SumWith, InWindow, Modes
    <3>2. CASE entry # NoEntry
      <4>1. entry.kind = "Sum" /\ InWindow = entry.data
        BY <1>1, <1>3, <3>2 DEF SumInvariant, OnlySums, SumEntries, InWindow
      <4> QED
        BY <2>2, <3>2, <4>1 DEF Aggregate, Takes, Accumulated, SumWith
    <3> QED
      BY <3>1, <3>2
  <2>4. Wrap(InWindow + n) \in Word
    BY <2>2, WrapIsWord
  <2>5. entry' # NoEntry /\ entry' \in SumEntries /\ entry'.data = added
    BY <2>2, <2>3, <2>4, SumFacts
  <2>6. added \in Word /\ Wrap(added + 0) = added
    <3>1. added \in Word /\ added \in Int
      BY <2>2, <2>4, WordFacts
    <3>2. added + 0 = added
      BY <3>1
    <3> QED
      BY <3>1, <3>2, WrapOfWord
  <2> QED
    BY <1>1, <2>2, <2>4, <2>5, <2>6 DEF SumInvariant, OnlySums, SumsAddUp
<1> QED
  BY <1>2, <1>3

LEMMA NextWindowStep ==
  ASSUME SumInvariant, NextWindow
  PROVE  SumInvariant'
<1>1. entry' = NoEntry /\ object' = object
  BY DEF NextWindow
<1>2. CASE object = Nothing
  <2>1. added' = 0 /\ 0 \in Word /\ Wrap(0 + 0) = 0
    BY <1>2, WordFacts, WrapOfWord DEF NextWindow
  <2> QED
    BY <1>1, <1>2, <2>1 DEF SumInvariant, OnlySums, SumsAddUp
<1>3. CASE object # Nothing /\ object.type = "Sum"
  <2>1. PICK n \in Word : object = Sum(n)
    BY <1>3 DEF SumInvariant, OnlySums, SumObjects
  <2>2. added' = n /\ Head(object.values) = n /\ n \in Int
    BY <1>3, <2>1, SumFacts, WordFacts DEF NextWindow
  <2>3. Wrap(0 + n) = n
    BY <2>2, WrapOfWord
  <2> QED
    BY <1>1, <1>3, <2>1, <2>2, <2>3, SumFacts DEF SumInvariant, OnlySums, SumsAddUp
<1>4. CASE object # Nothing /\ object.type # "Sum"
  <2>1. added' = Nothing
    BY <1>4 DEF NextWindow
  <2> QED
    BY <1>1, <1>4, <2>1 DEF SumInvariant, OnlySums, SumsAddUp
<1> QED
  BY <1>2, <1>3, <1>4

LEMMA SumNext == SumInvariant /\ [Next]_vars => SumInvariant'
<1> SUFFICES ASSUME SumInvariant, [Next]_vars PROVE SumInvariant'
  OBVIOUS
<1>1. ASSUME NEW n \in Numbers, RecordObservation(n) PROVE SumInvariant'
  BY <1>1 DEF RecordObservation, Observation, SumInvariant, OnlySums, SumsAddUp
<1>2. ASSUME NEW d \in Distributions, RecordDistribution(d) PROVE SumInvariant'
  BY <1>2 DEF RecordDistribution, Distribution, SumInvariant, OnlySums, SumsAddUp
<1>3. ASSUME NEW n \in Word, RecordSum(n) PROVE SumInvariant'
  BY <1>3, RecordSumStep
<1>4. CASE Aggregate
  BY <1>4, AggregateStep
<1>5. ASSUME object' = object, added' = added, phase' # "window" PROVE SumInvariant'
  BY <1>5 DEF SumInvariant, OnlySums, SumsAddUp
<1>6. ASSUME NEW kind, NEW data, ExportAtOnce(kind, data) PROVE SumInvariant'
  BY <1>5, <1>6 DEF ExportAtOnce, HandOver
<1>7. CASE BeginHistogram \/ PopBucket \/ EndHistogram
  BY <1>5, <1>7 DEF BeginHistogram, HandOver, PopBucket, EndHistogram, Exporting
<1>8. CASE ExportStatisticSet \/ ExportSum \/ ExportExponentialHistogram \/ ExportDatum
  BY <1>6, <1>8 DEF ExportStatisticSet, ExportSum, ExportExponentialHistogram, ExportDatum
<1>9. CASE BatcherPanics
  BY <1>5, <1>9 DEF BatcherPanics, HandOver
<1>10. CASE NextWindow
  BY <1>10, NextWindowStep
<1>11. CASE UNCHANGED vars
  BY <1>11 DEF vars, exportVars, SumInvariant, OnlySums, SumsAddUp
<1> QED
  BY <1>1, <1>2, <1>3, <1>4, <1>7, <1>8, <1>9, <1>10, <1>11 DEF Next

(* The inductive invariant of a name that only sum() is called with. *)
THEOREM SumInvariantHolds == Spec => []SumInvariant
BY SumInit, SumNext, PTL DEF Spec

(* For a word of any width, whatever else is recorded before the window began: what *)
(* sum() added is in the object and in the window, modulo the word, however it is    *)
(* divided between objects (metrics.rs:162, aggregation/sum.rs:9).                   *)
THEOREM SumsAreComplete == Spec => []SumsAddUp
<1>1. SumInvariant => SumsAddUp
  BY DEF SumInvariant
<1> QED
  BY <1>1, SumInvariantHolds, PTL

-----------------------------------------------------------------------------
(* What the entry is of the values of the type that came first *)
Objects == {Observation(n) : n \in Nat \cup Word} \cup SumObjects
             \cup {Distribution(d) : d \in Distributions}

Bucket(v) == bucket_10(Wrap(v))
InBucket(b, V) == {v \in V : Bucket(v) = b}

Words(bag) == {Wrap(v) : v \in DOMAIN bag}

IsStatisticSetOf(data, bag) ==
  /\ data \in StatisticSets
  /\ data.sum = Wrap(SumOf(bag)) /\ data.count = CountOf(bag)
  /\ \A w \in Words(bag) : data.min <= w /\ w <= data.max
  /\ DOMAIN bag # {} => data.min \in Words(bag) /\ data.max \in Words(bag)
  /\ DOMAIN bag = {} => data.min = MaxWord /\ data.max = MinWord

IsHistogramOf(data, bag) ==
  /\ FiniteBag(data)
  /\ DOMAIN data = {Bucket(v) : v \in DOMAIN bag}
  /\ \A b : Copies(b, data) = Amount(bag, InBucket(b, DOMAIN bag))
  /\ CountOf(data) = CountOf(bag)

Aggregates(type, kind, data, bag) ==
  /\ FiniteBag(bag)
  /\ type = "Observation" => /\ kind = "StatisticSet" /\ DOMAIN bag \subseteq Nat \cup Word
                             /\ IsStatisticSetOf(data, bag)
  /\ type = "Sum" => kind = "Sum" /\ DOMAIN bag \subseteq Word /\ data = Wrap(SumOf(bag))
  /\ type = "Distribution" => /\ kind = mode /\ DOMAIN bag \subseteq Roundable
                              /\ mode = "Histogram" => IsHistogramOf(data, bag)
                              /\ mode # "Histogram" => data = bag

LEMMA RoundableFacts ==
  ASSUME NEW v \in Roundable
  PROVE  /\ v \in Nat \cup Word /\ v \in Int /\ Wrap(v) \in Word
         /\ Absolute(Wrap(v)) <= PowersOfTen[MaxPower]
         /\ Bucket(v) \in Word
<1>1. v \in Nat \cup Word /\ v \in Int
  BY WordFacts DEF Roundable
<1> QED
  BY <1>1, WrapIsWord DEF Roundable, Bucket

LEMMA ObjectFacts ==
  ASSUME NEW o \in Objects
  PROVE  /\ o \in Measurements /\ o # Nothing /\ o.type \in Types
         /\ o.type = "Observation" => \E n \in Nat \cup Word : o.values = <<n>>
         /\ o.type = "Sum" => \E n \in Word : o.values = <<n>>
         /\ o.type = "Distribution" => o.values \in Seq(Roundable)
         /\ o.type = "Sum" => o \in SumObjects
<1>1. CASE o \in {Observation(n) : n \in Nat \cup Word}
  <2>1. PICK n \in Nat \cup Word : o = Observation(n)
    BY <1>1
  <2>2. <<n>> \in Seq(Nat \cup Word)
    OBVIOUS
  <2>3. o \in Measurements
    BY <2>1, <2>2 DEF Observation, Measurements, Types
  <2> QED
    BY <2>1, <2>3, NothingAssumption DEF Observation, Types
<1>2. CASE o \in SumObjects
  <2>1. PICK n \in Word : o = Sum(n)
    BY <1>2 DEF SumObjects
  <2>2. <<n>> \in Seq(Nat \cup Word)
    OBVIOUS
  <2>3. o \in Measurements
    BY <2>1, <2>2 DEF Sum, Measurements, Types
  <2> QED
    BY <1>2, <2>1, <2>3, NothingAssumption DEF Sum, Types
<1>3. CASE o \in {Distribution(d) : d \in Distributions}
  <2>1. PICK d \in Distributions : o = Distribution(d)
    BY <1>3
  <2>2. d \in Seq(Roundable)
    BY MeasurementAssumption
  <2>3. d \in Seq(Nat \cup Word)
    <3>1. Len(d) \in Nat /\ d \in [1..Len(d) -> Roundable] /\ Roundable \subseteq Nat \cup Word
      BY <2>2 DEF Roundable
    <3>2. d \in [1..Len(d) -> Nat \cup Word]
      BY <3>1
    <3> QED
      BY <3>1, <3>2, SeqDef
  <2>4. o \in Measurements
    BY <2>1, <2>3 DEF Distribution, Measurements, Types
  <2> QED
    BY <2>1, <2>2, <2>4, NothingAssumption DEF Distribution, Types
<1> QED
  BY <1>1, <1>2, <1>3 DEF Objects

LEMMA MinOfTwo ==
  ASSUME NEW a \in Int, NEW b \in Int
  PROVE  Min({a, b}) = IF a <= b THEN a ELSE b
<1> DEFINE S == {a, b}
           e == IF a <= b THEN a ELSE b
<1>1. e \in S /\ \A x \in S : e <= x
  OBVIOUS
<1>2. \A x \in S : (\A y \in S : x <= y) => x = e
  OBVIOUS
<1>3. Min(S) = CHOOSE x \in S : \A y \in S : x <= y
  BY DEF Min
<1>4. Min(S) = e
  <2> HIDE DEF S, e
  <2> QED
    BY <1>1, <1>2, <1>3
<1> QED
  BY <1>4

LEMMA MaxOfTwo ==
  ASSUME NEW a \in Int, NEW b \in Int
  PROVE  Max({a, b}) = IF a >= b THEN a ELSE b
<1> DEFINE S == {a, b}
           e == IF a >= b THEN a ELSE b
<1>1. e \in S /\ \A x \in S : e >= x
  OBVIOUS
<1>2. \A x \in S : (\A y \in S : x >= y) => x = e
  OBVIOUS
<1>3. Max(S) = CHOOSE x \in S : \A y \in S : x >= y
  BY DEF Max
<1>4. Max(S) = e
  <2> HIDE DEF S, e
  <2> QED
    BY <1>1, <1>2, <1>3
<1> QED
  BY <1>4

(* One observation more *)
LEMMA StatisticSetMore ==
  ASSUME NEW bag, FiniteBag(bag), DOMAIN bag \subseteq Nat \cup Word,
         NEW data, IsStatisticSetOf(data, bag), NEW n \in Nat \cup Word
  PROVE  IsStatisticSetOf(StatisticSetWith(data, Wrap(n)), bag (+) ToBag(<<n>>))
<1> DEFINE A == ToBag(<<n>>)
           new == StatisticSetWith(data, Wrap(n))
           w == Wrap(n)
<1>1. /\ Word \subseteq Int /\ Nat \cup Word \subseteq Int /\ n \in Int
      /\ w \in Word /\ w \in Int
      /\ data \in StatisticSets /\ data.min \in Word /\ data.max \in Word
      /\ data.sum \in Word /\ data.count \in Nat
  <2>1. n \in Int
    BY WordFacts
  <2>2. w \in Word
    BY <2>1, WrapIsWord
  <2> HIDE DEF w
  <2> QED
    BY <2>1, <2>2, WordFacts DEF IsStatisticSetOf, StatisticSets
<1>2. FiniteBag(A) /\ DOMAIN A = {n} /\ CountOf(A) = 1 /\ SumOf(A) = n
  BY <1>1, BagOfOne
<1>3. DOMAIN (bag (+) A) = DOMAIN bag \cup {n} /\ Words(bag (+) A) = Words(bag) \cup {w}
  <2>1. DOMAIN (bag (+) A) = DOMAIN bag \cup {n}
    BY <1>2, CopiesOfUnion
  <2> QED
    BY <2>1 DEF Words
<1>4. CountOf(bag (+) A) = CountOf(bag) + 1 /\ SumOf(bag (+) A) = SumOf(bag) + n /\ SumOf(bag) \in Int
  <2>1. CountOf(bag (+) A) = CountOf(bag) + CountOf(A)
    BY <1>2, CountOfUnion
  <2>2. DOMAIN bag \subseteq Int /\ DOMAIN A \subseteq Int /\ IsFiniteSet(DOMAIN bag)
    BY <1>1, <1>2 DEF FiniteBag
  <2>3. SumOf(bag (+) A) = SumOf(bag) + SumOf(A)
    BY <1>2, <2>2, SumOfUnion
  <2>4. SumOf(bag) \in Int
    BY <2>2, SumWithin
  <2> QED
    BY <1>2, <2>1, <2>3, <2>4
<1>5. /\ new.min = (IF w <= data.min THEN w ELSE data.min)
      /\ new.max = (IF w >= data.max THEN w ELSE data.max)
      /\ new.sum = Wrap(data.sum + w) /\ new.count = data.count + 1
  <2>1. data.min \in Int /\ data.max \in Int
    BY <1>1
  <2> QED
    BY <1>1, <2>1, MinOfTwo, MaxOfTwo DEF StatisticSetWith
<1>6. new \in StatisticSets
  <2>1. data.sum + w \in Int
    <3>1. data.sum \in Int
      BY <1>1
    <3> QED
      BY <1>1, <3>1
  <2>2. Wrap(data.sum + w) \in Word
    BY <2>1, WrapIsWord
  <2>3. new.min \in Word /\ new.max \in Word /\ new.sum \in Word /\ new.count \in Nat
    BY <1>1, <1>5, <2>2
  <2> QED
    BY <2>3 DEF StatisticSetWith, StatisticSets
<1>7. new.sum = Wrap(SumOf(bag) + n)
  <2>1. new.sum = Wrap(Wrap(SumOf(bag)) + w)
    BY <1>5 DEF IsStatisticSetOf
  <2>2. Wrap(Wrap(SumOf(bag)) + w) = Wrap(SumOf(bag) + w)
    BY <1>1, <1>4, WrapOfSum
  <2>3. SumOf(bag) + w = w + SumOf(bag) /\ n + SumOf(bag) = SumOf(bag) + n
    BY <1>1, <1>4
  <2>4. Wrap(w + SumOf(bag)) = Wrap(n + SumOf(bag))
    BY <1>1, <1>4, WrapOfSum
  <2> QED
    BY <2>1, <2>2, <2>3, <2>4
<1>8. new.count = CountOf(bag) + 1
  BY <1>5 DEF IsStatisticSetOf
<1> HIDE DEF new, A, w
<1>9. \A u \in Words(bag) \cup {w} : new.min <= u /\ u <= new.max
  <2>1. \A u \in Words(bag) : u \in Int /\ data.min <= u /\ u <= data.max
    <3>1. \A v \in DOMAIN bag : Wrap(v) \in Int
      BY <1>1, WrapIsWord
    <3> QED
      BY <3>1 DEF IsStatisticSetOf, Words
  <2>2. data.min \in Int /\ data.max \in Int
    BY <1>1
  <2> QED
    BY <1>1, <1>5, <2>1, <2>2
<1>10. new.min \in Words(bag) \cup {w} /\ new.max \in Words(bag) \cup {w}
  <2>1. CASE DOMAIN bag = {}
    <3>1. data.min = MaxWord /\ data.max = MinWord
      BY <2>1 DEF IsStatisticSetOf
    <3>2. MinWord <= w /\ w <= MaxWord
      BY <1>1 DEF Word
    <3> QED
      BY <1>1, <1>5, <3>1, <3>2, WordFacts
  <2>2. CASE DOMAIN bag # {}
    BY <1>5, <2>2 DEF IsStatisticSetOf
  <2> QED
    BY <2>1, <2>2
<1> QED
  <2>1. /\ \A u \in Words(bag (+) A) : new.min <= u /\ u <= new.max
        /\ new.min \in Words(bag (+) A) /\ new.max \in Words(bag (+) A)
        /\ DOMAIN (bag (+) A) # {}
    BY <1>3, <1>9, <1>10
  <2>2. IsStatisticSetOf(new, bag (+) A)
    BY <1>4, <1>6, <1>7, <1>8, <2>1 DEF IsStatisticSetOf
  <2> QED
    BY <2>2 DEF new, A

(* One distribution more *)
LEMMA HistogramMore ==
  ASSUME NEW bag, FiniteBag(bag), NEW data, IsHistogramOf(data, bag), NEW s \in Seq(Roundable)
  PROVE  IsHistogramOf(HistogramWith(data, s), bag (+) ToBag(s))
<1> DEFINE t == [i \in DOMAIN s |-> Bucket(s[i])]
           A == ToBag(s)
           B == ToBag(t)
<1>1. DOMAIN s = 1..Len(s) /\ Len(s) \in Nat /\ \A i \in DOMAIN s : s[i] \in Roundable
  OBVIOUS
<1>2. t \in Seq(Word) /\ DOMAIN t = DOMAIN s /\ Len(t) = Len(s) /\ \A i \in DOMAIN s : t[i] = Bucket(s[i])
  <2>1. \A i \in DOMAIN s : Bucket(s[i]) \in Word
    BY <1>1, RoundableFacts
  <2> QED
    BY <1>1, <2>1
<1>3. HistogramWith(data, s) = data (+) B
  BY DEF HistogramWith, Bucket
<1> HIDE DEF t
<1>4. /\ FiniteBag(A) /\ FiniteBag(B)
      /\ DOMAIN A = {s[i] : i \in DOMAIN s} /\ DOMAIN B = {t[i] : i \in DOMAIN s}
      /\ \A v : Copies(v, B) = Cardinality(Places(t, {v}))
      /\ \A V : IsFiniteSet(V) => Amount(A, V) = Cardinality(Places(s, V))
      /\ CountOf(A) = Len(s) /\ CountOf(B) = Len(s)
  BY <1>2, BagOfSequence
<1>5. FiniteBag(data)
  BY DEF IsHistogramOf
<1> HIDE DEF A, B
<1>6. /\ FiniteBag(data (+) B) /\ FiniteBag(bag (+) A)
      /\ DOMAIN (data (+) B) = DOMAIN data \cup DOMAIN B
      /\ DOMAIN (bag (+) A) = DOMAIN bag \cup DOMAIN A
      /\ \A v : Copies(v, data (+) B) = Copies(v, data) + Copies(v, B)
  BY <1>4, <1>5, CopiesOfUnion
<1>7. DOMAIN (data (+) B) = {Bucket(v) : v \in DOMAIN (bag (+) A)}
  <2>1. DOMAIN B = {Bucket(v) : v \in DOMAIN A}
    BY <1>2, <1>4
  <2>2. DOMAIN data = {Bucket(v) : v \in DOMAIN bag}
    BY DEF IsHistogramOf
  <2> QED
    BY <1>6, <2>1, <2>2
<1>8. CountOf(data (+) B) = CountOf(bag (+) A)
  <2>1. CountOf(data (+) B) = CountOf(data) + Len(s) /\ CountOf(bag (+) A) = CountOf(bag) + Len(s)
    BY <1>4, <1>5, CountOfUnion
  <2> QED
    BY <2>1 DEF IsHistogramOf
<1>9. ASSUME NEW b
      PROVE  Copies(b, data (+) B) = Amount(bag (+) A, InBucket(b, DOMAIN (bag (+) A)))
  <2> DEFINE V == InBucket(b, DOMAIN (bag (+) A))
             U == InBucket(b, DOMAIN bag)
  <2>1. IsFiniteSet(V) /\ U \in SUBSET V /\ DOMAIN bag \cap V \subseteq U
    <3>1. V \in SUBSET DOMAIN (bag (+) A) /\ IsFiniteSet(DOMAIN (bag (+) A))
      BY <1>6 DEF InBucket, FiniteBag
    <3>2. IsFiniteSet(V)
      BY <3>1, FS_Subset
    <3> QED
      BY <1>6, <3>2 DEF InBucket
  <2>2. Places(t, {b}) = Places(s, V)
    BY <1>2, <1>4, <1>6 DEF Places, InBucket
  <2>3. Copies(b, data) = Amount(bag, U)
    BY DEF IsHistogramOf
  <2> HIDE DEF U, V
  <2>4. Copies(b, B) = Amount(A, V)
    BY <1>4, <2>1, <2>2
  <2>5. Amount(bag, V) = Amount(bag, U)
    BY <2>1, AmountWithin
  <2>6. Amount(bag (+) A, V) = Amount(bag, V) + Amount(A, V)
    BY <1>4, <2>1, AmountOfUnion
  <2>7. Copies(b, data (+) B) = Amount(bag (+) A, V)
    BY <1>6, <2>3, <2>4, <2>5, <2>6
  <2> QED
    BY <2>7 DEF V
<1>10. IsHistogramOf(data (+) B, bag (+) A)
  BY <1>6, <1>7, <1>8, <1>9 DEF IsHistogramOf
<1> QED
  BY <1>3, <1>10 DEF A

-----------------------------------------------------------------------------
(* One measurement more *)
LEMMA Beginnings ==
  ASSUME mode \in Modes
  PROVE  /\ KindFor("Observation") = "StatisticSet" /\ KindFor("Sum") = "Sum"
         /\ KindFor("Distribution") = mode
         /\ EmptyData("StatisticSet") = [min |-> MaxWord, max |-> MinWord, sum |-> 0, count |-> 0]
         /\ EmptyData("Sum") = 0
         /\ \A kind \in Modes : EmptyData(kind) = EmptyBag
<1>1. /\ KindFor("Observation") = "StatisticSet" /\ KindFor("Sum") = "Sum"
      /\ KindFor("Distribution") = mode
  BY DEF KindFor
<1>2. EmptyData("StatisticSet") = [min |-> MaxWord, max |-> MinWord, sum |-> 0, count |-> 0]
  BY DEF EmptyData, Modes
<1>3. EmptyData("Sum") = 0
  BY DEF EmptyData, Modes
<1>4. \A kind \in Modes : EmptyData(kind) = EmptyBag
  BY DEF EmptyData, Modes
<1> QED
  BY <1>1, <1>2, <1>3, <1>4

LEMMA AggregatesNone ==
  ASSUME mode \in Modes, NEW type \in Types
  PROVE  Aggregates(type, KindFor(type), EmptyData(KindFor(type)), EmptyBag)
<1> DEFINE data == EmptyData(KindFor(type))
<1>1. FiniteBag(EmptyBag) /\ DOMAIN EmptyBag = {} /\ CountOf(EmptyBag) = 0 /\ SumOf(EmptyBag) = 0
  BY EmptyBagFacts
<1>2. 0 \in Word /\ MinWord \in Word /\ MaxWord \in Word /\ Wrap(0) = 0
  BY WordFacts, WrapOfWord, BucketsAssumption DEF Word
<1>3. CASE type = "Observation"
  <2>1. KindFor(type) = "StatisticSet"
    BY <1>3, Beginnings
  <2>2. data = [min |-> MaxWord, max |-> MinWord, sum |-> 0, count |-> 0]
    BY <2>1, Beginnings
  <2>3. IsStatisticSetOf(data, EmptyBag)
    BY <1>1, <1>2, <2>2 DEF IsStatisticSetOf, StatisticSets, Words
  <2> QED
    BY <1>1, <1>3, <2>1, <2>3 DEF Aggregates
<1>4. CASE type = "Sum"
  <2>1. KindFor(type) = "Sum" /\ data = 0
    BY <1>4, Beginnings
  <2> QED
    BY <1>1, <1>2, <1>4, <2>1 DEF Aggregates
<1>5. CASE type = "Distribution"
  <2>1. KindFor(type) = mode /\ data = EmptyBag
    BY <1>5, Beginnings
  <2>2. IsHistogramOf(EmptyBag, EmptyBag)
    <3>1. \A b : InBucket(b, {}) = {} /\ Copies(b, EmptyBag) = 0
      BY <1>1 DEF InBucket, Copies
    <3>2. \A b : Amount(EmptyBag, InBucket(b, DOMAIN EmptyBag)) = 0
      BY <1>1, <3>1, TotalOfNone DEF Amount
    <3> QED
      BY <1>1, <3>1, <3>2 DEF IsHistogramOf
  <2> QED
    BY <1>1, <1>5, <2>1, <2>2 DEF Aggregates
<1> QED
  BY <1>3, <1>4, <1>5 DEF Types

LEMMA AggregatesMore ==
  ASSUME mode \in Modes, NEW o \in Objects, NEW kind, NEW data, NEW bag,
         Aggregates(o.type, kind, data, bag)
  PROVE  /\ Takes(kind, o.type)
         /\ Aggregates(o.type, kind, Accumulated(kind, data, o.values), bag (+) ToBag(o.values))
         /\ o.type = "Observation" => DOMAIN (bag (+) ToBag(o.values)) # {}
<1> DEFINE more == bag (+) ToBag(o.values)
<1>1. FiniteBag(bag)
  BY DEF Aggregates
<1>2. CASE o.type = "Observation"
  <2>1. PICK n \in Nat \cup Word : o.values = <<n>>
    BY <1>2, ObjectFacts
  <2>2. n \in Int
    BY WordFacts
  <2>3. kind = "StatisticSet" /\ IsStatisticSetOf(data, bag) /\ DOMAIN bag \subseteq Nat \cup Word
    BY <1>2 DEF Aggregates
  <2>4. IsStatisticSetOf(StatisticSetWith(data, Wrap(n)), bag (+) ToBag(<<n>>))
    BY <1>1, <2>3, StatisticSetMore
  <2>5. FiniteBag(more) /\ DOMAIN more = DOMAIN bag \cup {n}
    <3>1. FiniteBag(ToBag(<<n>>)) /\ DOMAIN ToBag(<<n>>) = {n}
      BY <2>2, BagOfOne
    <3> QED
      BY <1>1, <2>1, <3>1, CopiesOfUnion
  <2>6. Accumulated(kind, data, o.values) = StatisticSetWith(data, Wrap(n))
    BY <2>1, <2>3 DEF Accumulated
  <2>7. Takes(kind, o.type)
    BY <1>2, <2>3 DEF Takes
  <2> QED
    BY <1>2, <2>1, <2>3, <2>4, <2>5, <2>6, <2>7 DEF Aggregates
<1>3. CASE o.type = "Sum"
  <2>1. PICK n \in Word : o.values = <<n>>
    BY <1>3, ObjectFacts
  <2>2. n \in Int /\ Word \subseteq Int
    BY WordFacts
  <2>3. kind = "Sum" /\ data = Wrap(SumOf(bag)) /\ DOMAIN bag \subseteq Word
    BY <1>3 DEF Aggregates
  <2> DEFINE A == ToBag(<<n>>)
  <2>4. FiniteBag(A) /\ DOMAIN A = {n} /\ SumOf(A) = n
    BY <2>2, BagOfOne
  <2>5. FiniteBag(bag (+) A) /\ DOMAIN (bag (+) A) = DOMAIN bag \cup {n}
    BY <1>1, <2>4, CopiesOfUnion
  <2>6. SumOf(bag (+) A) = SumOf(bag) + n /\ SumOf(bag) \in Int
    <3>1. DOMAIN bag \subseteq Int /\ DOMAIN A \subseteq Int /\ IsFiniteSet(DOMAIN bag)
      BY <1>1, <2>2, <2>3, <2>4 DEF FiniteBag
    <3>2. SumOf(bag (+) A) = SumOf(bag) + SumOf(A)
      BY <1>1, <2>4, <3>1, SumOfUnion
    <3>3. SumOf(bag) \in Int
      BY <1>1, <3>1, SumWithin
    <3> QED
      BY <2>4, <3>2, <3>3
  <2>7. Accumulated(kind, data, o.values) = Wrap(Wrap(SumOf(bag)) + n)
    BY <2>1, <2>3 DEF Accumulated, SumWith
  <2>8. Accumulated(kind, data, o.values) = Wrap(SumOf(bag (+) A))
    BY <2>2, <2>6, <2>7, WrapOfSum
  <2>9. Takes(kind, o.type)
    BY <1>3, <2>3 DEF Takes
  <2> QED
    BY <1>3, <2>1, <2>3, <2>5, <2>8, <2>9 DEF Aggregates
<1>4. CASE o.type = "Distribution"
  <2>1. o.values \in Seq(Roundable)
    BY <1>4, ObjectFacts
  <2>2. kind = mode /\ DOMAIN bag \subseteq Roundable
    BY <1>4 DEF Aggregates
  <2> DEFINE A == ToBag(o.values)
  <2>3. FiniteBag(A) /\ DOMAIN A \subseteq Roundable
    BY <2>1, BagOfSequence
  <2>4. FiniteBag(bag (+) A) /\ DOMAIN (bag (+) A) \subseteq Roundable
    <3>1. FiniteBag(bag (+) A) /\ DOMAIN (bag (+) A) = DOMAIN bag \cup DOMAIN A
      BY <1>1, <2>3, CopiesOfUnion
    <3> QED
      BY <2>2, <2>3, <3>1
  <2>5. CASE mode = "Histogram"
    <3>1. IsHistogramOf(data, bag)
      BY <1>4, <2>5 DEF Aggregates
    <3>2. IsHistogramOf(HistogramWith(data, o.values), bag (+) A)
      BY <1>1, <2>1, <3>1, HistogramMore
    <3>3. Accumulated(kind, data, o.values) = HistogramWith(data, o.values)
      BY <2>2, <2>5 DEF Accumulated
    <3>4. Takes(kind, o.type)
      BY <1>4, <2>2 DEF Takes
    <3> QED
      BY <1>4, <2>2, <2>4, <2>5, <3>2, <3>3, <3>4 DEF Aggregates
  <2>6. CASE mode # "Histogram"
    <3>1. data = bag
      BY <1>4, <2>6 DEF Aggregates
    <3>2. Accumulated(kind, data, o.values) = bag (+) A
      BY <2>2, <2>6, <3>1 DEF Accumulated, Modes
    <3>3. Takes(kind, o.type)
      BY <1>4, <2>2 DEF Takes
    <3> QED
      BY <1>4, <2>2, <2>4, <2>6, <3>2, <3>3 DEF Aggregates
  <2> QED
    BY <2>5, <2>6
<1> QED
  BY <1>2, <1>3, <1>4, ObjectFacts DEF Types

(* An aggregation takes no measurements of another type. *)
LEMMA AggregatesOneType ==
  ASSUME mode \in Modes, NEW type \in Types, NEW other \in Types, other # type,
         NEW kind, NEW data, NEW bag, Aggregates(type, kind, data, bag)
  PROVE  ~Takes(kind, other) /\ kind \in Kinds
BY DEF Aggregates, Takes, Types, Modes, Kinds

LEMMA AggregatesKind ==
  ASSUME mode \in Modes, NEW type \in Types, NEW kind, NEW data, NEW bag,
         Aggregates(type, kind, data, bag)
  PROVE  kind \in Kinds
BY DEF Aggregates, Types, Kinds
-----------------------------------------------------------------------------
KindsInvariant ==
  /\ mode \in Modes
  /\ object \in Objects \cup {Nothing}
  /\ first \in Types \cup {Nothing}
  /\ first = Nothing => entry = NoEntry /\ samples = EmptyBag
  /\ first # Nothing => Aggregates(first, entry.kind, entry.data, samples)
  /\ first = "Observation" => DOMAIN samples # {}

LEMMA EntryKind ==
  ASSUME KindsInvariant
  PROVE  /\ first # Nothing => entry # NoEntry /\ entry.kind \in Kinds
         /\ entry.kind = Nothing <=> first = Nothing
         /\ entry = NoEntry <=> first = Nothing
<1>1. first # Nothing => entry.kind \in Kinds
  BY AggregatesKind DEF KindsInvariant
<1> QED
  BY <1>1, NothingAssumption DEF KindsInvariant, NoEntry

LEMMA KindsInit == Init => KindsInvariant
BY NothingAssumption DEF Init, KindsInvariant, Types

LEMMA RecordObservationKinds ==
  ASSUME NEW n \in Nat \cup Word, RecordObservation(n)
  PROVE  object' \in Objects /\ Recorded
BY DEF RecordObservation, Objects

LEMMA RecordDistributionKinds ==
  ASSUME NEW d \in Distributions, RecordDistribution(d)
  PROVE  object' \in Objects /\ Recorded
BY DEF RecordDistribution, Objects

LEMMA RecordSumKinds ==
  ASSUME KindsInvariant, NEW n \in Word, RecordSum(n)
  PROVE  object' \in Objects /\ Recorded
<1>1. n \in Word /\ n \in Int
  BY WordFacts
<1>2. CASE object = Nothing
  BY <1>1, <1>2, SumFacts DEF RecordSum, Objects
<1>3. CASE object # Nothing /\ object.type = "Sum"
  <2>1. object \in SumObjects
    BY <1>3, ObjectFacts DEF KindsInvariant
  <2>2. PICK o \in Word : object = Sum(o)
    BY <2>1 DEF SumObjects
  <2>3. o + n \in Int
    BY <1>1, WordFacts
  <2>4. object' = Sum(Wrap(o + n))
    BY <1>3, <2>2, SumFacts DEF RecordSum
  <2> QED
    BY <2>3, <2>4, WrapIsWord, SumFacts DEF RecordSum, Objects
<1>4. CASE object # Nothing /\ object.type # "Sum"
  BY <1>4 DEF RecordSum, KindsInvariant
<1> QED
  BY <1>2, <1>3, <1>4

LEMMA AggregateKinds ==
  ASSUME KindsInvariant, Aggregate
  PROVE  KindsInvariant'
<1> DEFINE o == object
           kind == IF entry = NoEntry THEN KindFor(o.type) ELSE entry.kind
           data == IF entry = NoEntry THEN EmptyData(kind) ELSE entry.data
<1>1. /\ o \in Objects /\ object' = Nothing /\ mode' = mode
      /\ entry' = [kind |-> kind, data |-> IF Takes(kind, o.type)
                                           THEN Accumulated(kind, data, o.values) ELSE data]
      /\ first' = IF first = Nothing THEN o.type ELSE first
      /\ samples' = IF o.type = first' THEN samples (+) ToBag(o.values) ELSE samples
  BY DEF Aggregate, History, KindsInvariant
<1>2. o.type \in Types /\ o.type # Nothing /\ mode \in Modes
  BY <1>1, ObjectFacts, NothingAssumption DEF KindsInvariant
<1>3. entry = NoEntry <=> first = Nothing
  BY EntryKind
<1>4. CASE first = Nothing \/ o.type = first
  <2>1. first' = o.type /\ samples' = samples (+) ToBag(o.values)
    BY <1>1, <1>4
  <2>2. Aggregates(o.type, kind, data, samples)
    <3>1. CASE first = Nothing
      BY <1>2, <1>3, <3>1, AggregatesNone DEF KindsInvariant
    <3>2. CASE first # Nothing
      BY <1>3, <1>4, <3>2 DEF KindsInvariant
    <3> QED
      BY <3>1, <3>2
  <2> HIDE DEF o, kind, data
  <2>3. /\ Takes(kind, o.type)
        /\ Aggregates(o.type, kind, Accumulated(kind, data, o.values), samples (+) ToBag(o.values))
        /\ o.type = "Observation" => DOMAIN (samples (+) ToBag(o.values)) # {}
    BY <1>1, <1>2, <2>2, AggregatesMore
  <2>4. entry'.kind = kind /\ entry'.data = Accumulated(kind, data, o.values)
    BY <1>1, <2>3
  <2>5. Aggregates(first', entry'.kind, entry'.data, samples')
    BY <2>1, <2>3, <2>4
  <2>6. Aggregates(first, entry.kind, entry.data, samples)'
    BY <1>1, <2>5 DEF Aggregates
  <2> QED
    BY <1>1, <1>2, <2>1, <2>3, <2>6 DEF KindsInvariant
<1>5. CASE first # Nothing /\ o.type # first
  <2>1. first' = first /\ samples' = samples /\ kind = entry.kind /\ data = entry.data
    BY <1>1, <1>2, <1>3, <1>5
  <2>2. Aggregates(first, kind, data, samples) /\ first \in Types
    BY <1>5, <2>1 DEF KindsInvariant
  <2> HIDE DEF o, kind, data
  <2>3. ~Takes(kind, o.type)
    BY <1>2, <1>5, <2>2, AggregatesOneType
  <2>4. entry'.kind = kind /\ entry'.data = data
    BY <1>1, <2>3
  <2>5. Aggregates(first', entry'.kind, entry'.data, samples')
    BY <2>1, <2>2, <2>4
  <2>6. Aggregates(first, entry.kind, entry.data, samples)'
    BY <1>1, <2>5 DEF Aggregates
  <2> QED
    BY <1>1, <1>2, <1>5, <2>1, <2>6 DEF KindsInvariant
<1> QED
  BY <1>4, <1>5

(* What leaves the entry and the histories alone. *)
LEMMA ExportKinds ==
  ASSUME KindsInvariant, UNCHANGED <<mode, object, entry, first, samples>>
  PROVE  KindsInvariant'
BY DEF KindsInvariant, Aggregates

LEMMA NextWindowKinds ==
  ASSUME KindsInvariant, NextWindow
  PROVE  KindsInvariant'
BY NothingAssumption DEF KindsInvariant, NextWindow, Types

LEMMA KindsNext == KindsInvariant /\ [Next]_vars => KindsInvariant'
<1> SUFFICES ASSUME KindsInvariant, [Next]_vars PROVE KindsInvariant'
  OBVIOUS
<1>1. ASSUME object' \in Objects, Recorded PROVE KindsInvariant'
  BY <1>1 DEF Recorded, exportVars, KindsInvariant, Aggregates
<1>2. /\ \A n \in Numbers : RecordObservation(n) => KindsInvariant'
      /\ \A n \in Word : RecordSum(n) => KindsInvariant'
  BY <1>1, WordFacts, RecordObservationKinds, RecordSumKinds
<1>3. ASSUME NEW d \in Distributions, RecordDistribution(d) PROVE KindsInvariant'
  BY <1>1, <1>3, RecordDistributionKinds
<1>4. CASE Aggregate
  BY <1>4, AggregateKinds
<1>5. ASSUME NEW kind, NEW data, ExportAtOnce(kind, data) PROVE KindsInvariant'
  BY <1>5, ExportKinds DEF ExportAtOnce, HandOver
<1>6. CASE BeginHistogram \/ PopBucket \/ EndHistogram
  BY <1>6, ExportKinds DEF BeginHistogram, HandOver, PopBucket, EndHistogram, Exporting
<1>7. CASE ExportStatisticSet \/ ExportSum \/ ExportExponentialHistogram \/ ExportDatum
  BY <1>5, <1>7 DEF ExportStatisticSet, ExportSum, ExportExponentialHistogram, ExportDatum
<1>8. CASE BatcherPanics
  BY <1>8, ExportKinds DEF BatcherPanics, HandOver
<1>9. CASE NextWindow
  BY <1>9, NextWindowKinds
<1>10. CASE UNCHANGED vars
  BY <1>10, ExportKinds DEF vars
<1> QED
  BY <1>2, <1>3, <1>4, <1>6, <1>7, <1>8, <1>9, <1>10 DEF Next

LEMMA MinIs ==
  ASSUME NEW S \in SUBSET Int, NEW e \in S, \A x \in S : e <= x
  PROVE  Min(S) = e
<1>1. \A x \in S : (\A y \in S : x <= y) => x = e
  OBVIOUS
<1> QED
  BY <1>1 DEF Min

LEMMA MaxIs ==
  ASSUME NEW S \in SUBSET Int, NEW e \in S, \A x \in S : e >= x
  PROVE  Max(S) = e
<1>1. \A x \in S : (\A y \in S : x >= y) => x = e
  OBVIOUS
<1> QED
  BY <1>1 DEF Max

LEMMA KindsAggregate == KindsInvariant => EntryAggregatesFirstType
<1> SUFFICES ASSUME KindsInvariant PROVE EntryAggregatesFirstType
  OBVIOUS
<1>1. entry = NoEntry <=> first = Nothing
  BY EntryKind
<1>2. first \in Types => Aggregates(first, entry.kind, entry.data, samples)
  BY NothingAssumption DEF KindsInvariant
<1>3. ASSUME first = "Observation"
      PROVE  LET observed == {Wrap(v) : v \in BagToSet(samples)} IN
               /\ entry.kind = "StatisticSet"
               /\ entry.data.min = Min(observed)
               /\ entry.data.max = Max(observed)
               /\ entry.data.sum = Wrap(SumOf(samples))
               /\ entry.data.count = CountOf(samples)
  <2>1. /\ entry.kind = "StatisticSet" /\ IsStatisticSetOf(entry.data, samples)
        /\ DOMAIN samples \subseteq Nat \cup Word /\ DOMAIN samples # {}
    BY <1>2, <1>3 DEF Aggregates, KindsInvariant, Types
  <2>2. Words(samples) \subseteq Int
    <3>1. DOMAIN samples \subseteq Int
      BY <2>1, WordFacts
    <3> QED
      BY <3>1, WrapIsWord, WordFacts DEF Words
  <2>3. /\ entry.data.min \in Words(samples) /\ \A w \in Words(samples) : entry.data.min <= w
        /\ entry.data.max \in Words(samples) /\ \A w \in Words(samples) : w <= entry.data.max
        /\ entry.data.sum = Wrap(SumOf(samples)) /\ entry.data.count = CountOf(samples)
    BY <2>1 DEF IsStatisticSetOf
  <2>4. Min(Words(samples)) = entry.data.min
    BY <2>2, <2>3, MinIs
  <2>5. Max(Words(samples)) = entry.data.max
    BY <2>2, <2>3, MaxIs
  <2> QED
    BY <2>1, <2>3, <2>4, <2>5 DEF BagToSet, Words
<1>4. first = "Sum" => entry.kind = "Sum" /\ entry.data = Wrap(SumOf(samples))
  BY <1>2 DEF Aggregates, Types
<1>5. first = "Distribution" => entry.kind = mode /\ CountOf(entry.data) = CountOf(samples)
  BY <1>2 DEF Aggregates, Types, IsHistogramOf
<1> QED
  BY <1>1, <1>3, <1>4, <1>5 DEF EntryAggregatesFirstType

-----------------------------------------------------------------------------
(* The loop that makes a histogram's data point *)
LEMMA LeastWord ==
  ASSUME NEW T \in SUBSET Word, T # {}
  PROVE  Min(T) \in T /\ \A b \in T : Min(T) <= b
<1> DEFINE U == {b - MinWord : b \in T}
<1>1. MinWord \in Int /\ \A b \in T : b \in Int /\ b - MinWord \in Nat
  BY BucketsAssumption DEF Word
<1>2. PICK u \in U : \A x \in U : u <= x
  <2>1. U \in SUBSET Nat /\ U # {}
    BY <1>1
  <2> HIDE DEF U
  <2> QED
    BY <2>1, LeastElement
<1>3. PICK e \in T : u = e - MinWord
  BY <1>2
<1>4. \A b \in T : e <= b
  <2> SUFFICES ASSUME NEW b \in T PROVE e <= b
    OBVIOUS
  <2>1. u <= b - MinWord
    BY <1>2
  <2> QED
    BY <1>1, <1>3, <2>1
<1>5. Min(T) = e
  BY <1>1, <1>4, MinIs
<1> QED
  BY <1>4, <1>5

(* Bounds and counts that stand for the buckets of data other than the rest *)
BoundsMatch(bs, cs, rest, data) ==
  /\ bs \in Seq(Int) /\ cs \in Seq(Nat) /\ Len(cs) = Len(bs)
  /\ \A i \in 1..Len(bs) : cs[i] = Copies(bs[i], data)
  /\ \A i \in 1..Len(bs) : \A j \in 1..Len(bs) : i < j => bs[i] < bs[j]
  /\ rest \subseteq DOMAIN data
  /\ \A b \in DOMAIN data \ rest : \E i \in 1..Len(bs) : bs[i] = b
  /\ \A i \in 1..Len(bs) : \A b \in rest : bs[i] < b
  /\ \A i \in 1..Len(bs) : \/ bs[i] \in DOMAIN data
                           \/ \E b \in DOMAIN data : bs[i] = bucket_10_below(b)
  /\ CountOf(cs) + Amount(data, rest) = CountOf(data)

LEMMA NoBounds ==
  ASSUME NEW data, FiniteBag(data)
  PROVE  BoundsMatch(<<>>, <<>>, DOMAIN data, data)
<1>1. CountOf(<<>>) = 0 /\ CountOf(data) \in Int /\ IsFiniteSet(DOMAIN data)
  BY CountOfEmpty, CountOfUnion DEF FiniteBag
<1>2. Amount(data, DOMAIN data) = CountOf(data)
  BY <1>1, AmountIsCount
<1> QED
  BY <1>1, <1>2 DEF BoundsMatch

LEMMA AppendFacts ==
  ASSUME NEW S, NEW s \in Seq(S), NEW x \in S
  PROVE  /\ Append(s, x) \in Seq(S) /\ Len(Append(s, x)) = Len(s) + 1 /\ Len(s) \in Nat
         /\ \A i \in 1..Len(s) : Append(s, x)[i] = s[i]
         /\ Append(s, x)[Len(s) + 1] = x
         /\ 1..(Len(s) + 1) = 1..Len(s) \cup {Len(s) + 1}
OBVIOUS

LEMMA CountOfCounts ==
  ASSUME NEW s \in Seq(Nat), NEW x \in Nat
  PROVE  CountOf(Append(s, x)) = CountOf(s) + x /\ CountOf(s) \in Int
<1>1. s \in Seq(Int) /\ x \in Int
  <2>1. Len(s) \in Nat /\ s \in [1..Len(s) -> Int]
    OBVIOUS
  <2> QED
    BY <2>1, SeqDef
<1> QED
  BY <1>1, CountOfAppend

(* The empty bucket below the least one that is left *)
LEMMA PadBound ==
  ASSUME NEW data, FiniteBag(data), DOMAIN data \subseteq Int, NEW bs, NEW cs, NEW rest,
         BoundsMatch(bs, cs, rest, data),
         NEW b \in rest, \A c \in rest : b <= c,
         bucket_10_below(b) \in Int, bucket_10_below(b) < b,
         bs = <<>> \/ bs[Len(bs)] < bucket_10_below(b)
  PROVE  BoundsMatch(Append(bs, bucket_10_below(b)), Append(cs, 0), rest, data)
<1> DEFINE below == bucket_10_below(b)
           n == Len(bs)
           ds == Append(bs, below)
           es == Append(cs, 0)
<1>1. /\ bs \in Seq(Int) /\ cs \in Seq(Nat) /\ Len(cs) = n /\ n \in Nat
      /\ below \in Int /\ b \in Int /\ below < b
  BY DEF BoundsMatch
<1>2. /\ ds \in Seq(Int) /\ Len(ds) = n + 1 /\ ds[n + 1] = below
      /\ \A i \in 1..n : ds[i] = bs[i]
  BY <1>1, AppendFacts
<1>3. /\ es \in Seq(Nat) /\ Len(es) = n + 1 /\ es[n + 1] = 0
      /\ \A i \in 1..n : es[i] = cs[i]
  BY <1>1, AppendFacts
<1>4. \A i \in 1..n : bs[i] \in Int /\ bs[i] < below
  <2> SUFFICES ASSUME NEW i \in 1..n PROVE bs[i] \in Int /\ bs[i] < below
    OBVIOUS
  <2>1. n \in 1..n /\ bs # <<>> /\ bs[i] \in Int /\ bs[n] \in Int
    BY <1>1
  <2>2. i = n \/ i < n
    BY <1>1
  <2>3. i < n => bs[i] < bs[n]
    BY <2>1 DEF BoundsMatch
  <2> QED
    BY <1>1, <2>1, <2>2, <2>3
<1>5. below \notin DOMAIN data
  <2> SUFFICES ASSUME below \in DOMAIN data PROVE FALSE
    OBVIOUS
  <2>1. below \notin rest
    BY <1>1
  <2>2. \E i \in 1..n : bs[i] = below
    BY <2>1 DEF BoundsMatch
  <2> QED
    BY <1>1, <1>4, <2>2
<1>6. CountOf(es) = CountOf(cs)
  BY <1>1, CountOfCounts
<1> HIDE DEF ds, es
<1>7. \A i \in 1..Len(ds) : i \in 1..n \/ i = n + 1
  BY <1>1, <1>2
<1> DEFINE low == below
<1>8. \A i \in 1..Len(ds) : es[i] = Copies(ds[i], data)
  <2>1. Copies(below, data) = 0
    BY <1>5 DEF Copies
  <2>2. \A i \in 1..n : cs[i] = Copies(bs[i], data)
    BY DEF BoundsMatch
  <2> QED
    BY <1>2, <1>3, <1>7, <2>1, <2>2
<1>9. ASSUME NEW i \in 1..Len(ds), NEW j \in 1..Len(ds), i < j
      PROVE  ds[i] < ds[j]
  <2>1. i \in 1..n
    BY <1>1, <1>2, <1>9
  <2>2. CASE j = n + 1
    BY <1>2, <1>4, <2>1, <2>2
  <2>3. CASE j \in 1..n
    BY <1>2, <1>9, <2>1, <2>3 DEF BoundsMatch
  <2> QED
    BY <1>7, <2>2, <2>3
<1>10. \A c \in DOMAIN data \ rest : \E i \in 1..Len(ds) : ds[i] = c
  <2> SUFFICES ASSUME NEW c \in DOMAIN data \ rest PROVE \E i \in 1..Len(ds) : ds[i] = c
    OBVIOUS
  <2>1. PICK i \in 1..n : bs[i] = c
    BY DEF BoundsMatch
  <2>2. i \in 1..Len(ds)
    BY <1>1, <1>2
  <2> QED
    BY <1>2, <2>1, <2>2
<1>11. \A i \in 1..Len(ds) : \A c \in rest : ds[i] < c
  <2> SUFFICES ASSUME NEW i \in 1..Len(ds), NEW c \in rest PROVE ds[i] < c
    OBVIOUS
  <2>1. CASE i \in 1..n
    BY <1>2, <2>1 DEF BoundsMatch
  <2>2. CASE i = n + 1
    <3>1. c \in Int /\ b <= c
      BY DEF BoundsMatch
    <3> QED
      BY <1>1, <1>2, <2>2, <3>1
  <2> QED
    BY <1>7, <2>1, <2>2
<1>12. \A i \in 1..Len(ds) : \/ ds[i] \in DOMAIN data
                             \/ \E c \in DOMAIN data : ds[i] = bucket_10_below(c)
  <2>1. b \in DOMAIN data
    BY DEF BoundsMatch
  <2>2. \A i \in 1..n : \/ bs[i] \in DOMAIN data
                        \/ \E c \in DOMAIN data : bs[i] = bucket_10_below(c)
    BY DEF BoundsMatch
  <2> QED
    BY <1>2, <1>7, <2>1, <2>2
<1>13. CountOf(es) + Amount(data, rest) = CountOf(data)
  BY <1>6 DEF BoundsMatch
<1>14. rest \subseteq DOMAIN data
  BY DEF BoundsMatch
<1> HIDE DEF n, below
<1>15. BoundsMatch(ds, es, rest, data)
  BY <1>2, <1>3, <1>8, <1>9, <1>10, <1>11, <1>12, <1>13, <1>14 DEF BoundsMatch
<1> QED
  BY <1>15 DEF ds, es, below

(* The least bucket that is left *)
LEMMA AddBound ==
  ASSUME NEW data, FiniteBag(data), DOMAIN data \subseteq Int, NEW bs, NEW cs, NEW rest,
         BoundsMatch(bs, cs, rest, data),
         NEW b \in rest, \A c \in rest : b <= c
  PROVE  BoundsMatch(Append(bs, b), Append(cs, data[b]), rest \ {b}, data)
<1> DEFINE n == Len(bs)
           ds == Append(bs, b)
           es == Append(cs, data[b])
<1>1. /\ bs \in Seq(Int) /\ cs \in Seq(Nat) /\ Len(cs) = n /\ n \in Nat
      /\ b \in DOMAIN data /\ b \in Int /\ rest \subseteq DOMAIN data
      /\ data[b] \in Nat /\ data[b] = Copies(b, data)
  BY DEF BoundsMatch, FiniteBag, Copies
<1>2. /\ ds \in Seq(Int) /\ Len(ds) = n + 1 /\ ds[n + 1] = b
      /\ \A i \in 1..n : ds[i] = bs[i]
  BY <1>1, AppendFacts
<1>3. /\ es \in Seq(Nat) /\ Len(es) = n + 1 /\ es[n + 1] = data[b]
      /\ \A i \in 1..n : es[i] = cs[i]
  BY <1>1, AppendFacts
<1>4. CountOf(es) + Amount(data, rest \ {b}) = CountOf(data)
  <2> DEFINE S == rest \ {b}
  <2>1. IsFiniteSet(S) /\ S \in SUBSET DOMAIN data /\ b \notin S /\ rest = S \cup {b}
    BY <1>1, FS_Subset DEF FiniteBag
  <2> HIDE DEF S
  <2>2. \A c \in S \cup {b} : data[c] \in Int
    BY <1>1, <2>1 DEF FiniteBag
  <2>3. TotalOver(data, S \cup {b}) = TotalOver(data, S) + data[b]
    BY <2>1, <2>2, TotalOfOneMore
  <2>4. Amount(data, rest) = TotalOver(data, rest) /\ Amount(data, S) = TotalOver(data, S)
    <3>1. rest \in SUBSET DOMAIN data
      BY <1>1
    <3> QED
      BY <2>1, <3>1, AmountIsTotal
  <2>5. Amount(data, S) \in Int
    BY <2>1, AmountType
  <2>6. CountOf(es) = CountOf(cs) + data[b] /\ CountOf(cs) \in Int
    BY <1>1, CountOfCounts
  <2>7. CountOf(cs) + Amount(data, rest) = CountOf(data)
    BY DEF BoundsMatch
  <2>8. CountOf(es) + Amount(data, S) = CountOf(data)
    <3>1. Amount(data, rest) = Amount(data, S) + data[b]
      BY <2>1, <2>3, <2>4
    <3> HIDE DEF es
    <3> QED
      BY <1>1, <2>5, <2>6, <2>7, <3>1
  <2> QED
    BY <2>8 DEF S
<1> HIDE DEF ds, es
<1>5. \A i \in 1..Len(ds) : i \in 1..n \/ i = n + 1
  BY <1>1, <1>2
<1>6. \A i \in 1..Len(ds) : es[i] = Copies(ds[i], data)
  <2>1. \A i \in 1..n : cs[i] = Copies(bs[i], data)
    BY DEF BoundsMatch
  <2> QED
    BY <1>1, <1>2, <1>3, <1>5, <2>1
<1>7. ASSUME NEW i \in 1..Len(ds), NEW j \in 1..Len(ds), i < j
      PROVE  ds[i] < ds[j]
  <2>1. i \in 1..n
    BY <1>1, <1>2, <1>7
  <2>2. CASE j = n + 1
    BY <1>2, <2>1, <2>2 DEF BoundsMatch
  <2>3. CASE j \in 1..n
    BY <1>2, <1>7, <2>1, <2>3 DEF BoundsMatch
  <2> QED
    BY <1>5, <2>2, <2>3
<1>8. ASSUME NEW c \in DOMAIN data \ (rest \ {b})
      PROVE  \E i \in 1..Len(ds) : ds[i] = c
  <2>1. CASE c = b
    <3>1. n + 1 \in 1..Len(ds)
      BY <1>1, <1>2
    <3> QED
      BY <1>2, <2>1, <3>1
  <2>2. CASE c # b
    <3>1. PICK i \in 1..n : bs[i] = c
      BY <1>8, <2>2 DEF BoundsMatch
    <3>2. i \in 1..Len(ds)
      BY <1>1, <1>2
    <3> QED
      BY <1>2, <3>1, <3>2
  <2> QED
    BY <2>1, <2>2
<1>9. ASSUME NEW i \in 1..Len(ds), NEW c \in rest \ {b} PROVE ds[i] < c
  <2>1. CASE i \in 1..n
    BY <1>2, <2>1 DEF BoundsMatch
  <2>2. CASE i = n + 1
    <3>1. c \in Int /\ b <= c /\ b # c
      BY <1>1
    <3> QED
      BY <1>1, <1>2, <2>2, <3>1
  <2> QED
    BY <1>5, <2>1, <2>2
<1>10. \A i \in 1..Len(ds) : \/ ds[i] \in DOMAIN data
                             \/ \E c \in DOMAIN data : ds[i] = bucket_10_below(c)
  <2>1. \A i \in 1..n : \/ bs[i] \in DOMAIN data
                        \/ \E c \in DOMAIN data : bs[i] = bucket_10_below(c)
    BY DEF BoundsMatch
  <2> QED
    BY <1>1, <1>2, <1>5, <2>1
<1>11. rest \ {b} \subseteq DOMAIN data
  BY <1>1
<1> HIDE DEF n
<1>12. BoundsMatch(ds, es, rest \ {b}, data)
  BY <1>2, <1>3, <1>4, <1>6, <1>7, <1>8, <1>9, <1>10, <1>11 DEF BoundsMatch
<1> QED
  BY <1>12 DEF ds, es

-----------------------------------------------------------------------------
(* What the phases of a window say of the entry and of its data point *)
Begun ==
  /\ entry.kind = "Histogram"
  /\ BoundsMatch(bounds, counts, heap, entry.data)
  /\ DOMAIN point = {"count", "min", "max"} /\ point.count = CountOf(entry.data)

Finished ==
  /\ heap = {}
  /\ \/ bounds = <<>> /\ counts = <<>>
     \/ /\ entry.kind = "Histogram"
        /\ \E cs : counts = Append(cs, 0) /\ BoundsMatch(bounds, cs, {}, entry.data)
        /\ DOMAIN point = {"count", "min", "max"} /\ point.count = CountOf(entry.data)

ExportInvariant ==
  /\ phase \in {"window", "exporting", "exported", "panicked"}
  /\ phase \in {"window", "panicked"} =>
       heap = {} /\ bounds = <<>> /\ counts = <<>> /\ point = Nothing
  /\ phase \in {"exporting", "exported"} => first # Nothing
  /\ phase = "exporting" => Begun
  /\ phase = "exported" => Finished
  /\ PointCountsItsValues

(* A histogram in the entry *)
LEMMA HistogramEntry ==
  ASSUME KindsInvariant, first # Nothing, entry.kind = "Histogram"
  PROVE  /\ IsHistogramOf(entry.data, samples) /\ FiniteBag(entry.data)
         /\ FiniteBag(samples) /\ DOMAIN samples \subseteq Roundable
         /\ CountOf(entry.data) = CountOf(samples)
<1>1. first = "Distribution" /\ mode = "Histogram" /\ Aggregates(first, entry.kind, entry.data, samples)
  BY DEF KindsInvariant, Aggregates, Types, Modes
<1>2. IsHistogramOf(entry.data, samples) /\ FiniteBag(samples) /\ DOMAIN samples \subseteq Roundable
  BY <1>1 DEF Aggregates
<1> QED
  BY <1>2 DEF IsHistogramOf

LEMMA BucketFacts ==
  ASSUME NEW data, NEW bag, IsHistogramOf(data, bag), DOMAIN bag \subseteq Roundable,
         NEW b \in DOMAIN data
  PROVE  b \in Word /\ b \in Int /\ bucket_10_below(b) \in Int /\ bucket_10_below(b) < b
<1>1. PICK v \in DOMAIN bag : b = Bucket(v)
  BY DEF IsHistogramOf
<1>2. v \in Roundable /\ Wrap(v) \in Int /\ Absolute(Wrap(v)) <= PowersOfTen[MaxPower] /\ b \in Word
  BY <1>1, RoundableFacts, WordFacts
<1>3. bucket_10_below(bucket_10(Wrap(v))) \in Int /\ bucket_10_below(bucket_10(Wrap(v))) < bucket_10(Wrap(v))
  BY <1>2, BucketType
<1> QED
  BY <1>1, <1>2, <1>3, WordFacts DEF Bucket

LEMMA HandOverFacts ==
  ASSUME KindsInvariant, NEW kinds, kinds \in SUBSET Kinds, HandOver(kinds)
  PROVE  /\ first # Nothing /\ first \in Types /\ entry.kind \in kinds /\ phase = "window"
         /\ Aggregates(first, entry.kind, entry.data, samples)
         /\ UNCHANGED <<mode, object, entry, first, samples, added>>
BY EntryKind DEF KindsInvariant, HandOver

LEMMA ExportInit == Init => ExportInvariant
BY DEF Init, ExportInvariant, PointCountsItsValues

(* What leaves the window, its data point and the histories of it alone *)
LEMMA OpenWindow ==
  ASSUME ExportInvariant, phase = "window", UNCHANGED exportVars
  PROVE  ExportInvariant'
BY DEF ExportInvariant, PointCountsItsValues, exportVars

LEMMA ExportUnchanged ==
  ASSUME ExportInvariant, UNCHANGED vars
  PROVE  ExportInvariant'
BY DEF ExportInvariant, PointCountsItsValues, Begun, Finished, vars, exportVars

LEMMA BeginHistogramExports ==
  ASSUME KindsInvariant, ExportInvariant, BeginHistogram
  PROVE  ExportInvariant'
<1>1. /\ first # Nothing /\ entry.kind = "Histogram" /\ phase = "window"
      /\ UNCHANGED <<mode, object, entry, first, samples, added>>
  BY HandOverFacts DEF BeginHistogram, Kinds, Modes
<1>2. FiniteBag(entry.data)
  BY <1>1, HistogramEntry
<1>3. bounds = <<>> /\ counts = <<>>
  BY <1>1 DEF ExportInvariant
<1>4. BoundsMatch(<<>>, <<>>, DOMAIN entry.data, entry.data)
  BY <1>2, NoBounds
<1>5. /\ phase' = "exporting" /\ heap' = DOMAIN entry.data /\ bounds' = <<>> /\ counts' = <<>>
      /\ DOMAIN point' = {"count", "min", "max"} /\ point'.count = CountOf(entry.data)
  BY <1>3 DEF BeginHistogram, BagToSet
<1>6. BoundsMatch(bounds', counts', heap', entry'.data) /\ entry'.kind = "Histogram"
  BY <1>1, <1>4, <1>5
<1>7. Begun'
  BY <1>1, <1>5, <1>6 DEF Begun, BoundsMatch
<1> QED
  BY <1>1, <1>5, <1>7 DEF ExportInvariant, PointCountsItsValues

LEMMA TwoMore ==
  ASSUME NEW S, NEW s \in Seq(S), NEW x \in S, NEW y \in S
  PROVE  /\ s \o <<x, y>> = Append(Append(s, x), y)
         /\ s \o <<y>> = Append(s, y)
         /\ s \o <<>> \o <<y>> = Append(s, y)
OBVIOUS

LEMMA PopBucketExports ==
  ASSUME KindsInvariant, ExportInvariant, PopBucket
  PROVE  ExportInvariant'
<1> DEFINE b == Min(heap)
           below == bucket_10_below(b)
           data == entry.data
<1>1. /\ phase = "exporting" /\ heap # {}
      /\ UNCHANGED <<mode, object, entry, first, samples, added, phase, point>>
  BY DEF PopBucket, Exporting
<1>2. Begun /\ first # Nothing
  BY <1>1 DEF ExportInvariant
<1>3. BoundsMatch(bounds, counts, heap, data)
  BY <1>2 DEF Begun
<1>4. IsHistogramOf(data, samples) /\ DOMAIN samples \subseteq Roundable /\ FiniteBag(data)
  BY <1>2, HistogramEntry DEF Begun
<1>5. /\ \A c \in DOMAIN data : c \in Word /\ c \in Int /\ bucket_10_below(c) \in Int /\ bucket_10_below(c) < c
      /\ DOMAIN data \subseteq Int
  <2>1. ASSUME NEW c \in DOMAIN data
        PROVE  c \in Word /\ c \in Int /\ bucket_10_below(c) \in Int /\ bucket_10_below(c) < c
    BY <1>4, BucketFacts
  <2> QED
    BY <2>1
<1>6. b \in heap /\ \A c \in heap : b <= c
  <2>1. heap \in SUBSET Word
    BY <1>3, <1>5 DEF BoundsMatch
  <2> QED
    BY <1>1, <2>1, LeastWord
<1>7. /\ bounds \in Seq(Int) /\ counts \in Seq(Nat) /\ b \in DOMAIN data
      /\ b \in Int /\ below \in Int /\ below < b /\ data[b] \in Nat
  BY <1>3, <1>4, <1>5, <1>6 DEF BoundsMatch, FiniteBag
<1>8. heap' = heap \ {b} /\ bounds' = bounds \o (IF bounds = <<>> \/ Last(bounds) < below THEN <<below, b>> ELSE <<b>>)
      /\ counts' = counts \o (IF bounds = <<>> \/ Last(bounds) < below THEN <<0>> ELSE <<>>) \o <<data[b]>>
  BY DEF PopBucket
<1> HIDE DEF b, below, data
<1>9. BoundsMatch(bounds', counts', heap', data)
  <2>1. CASE bounds = <<>> \/ Last(bounds) < below
    <3>1. bounds' = Append(Append(bounds, below), b)
      BY <1>7, <1>8, <2>1, TwoMore
    <3>2. counts' = Append(Append(counts, 0), data[b])
      <4>1. counts' = counts \o <<0>> \o <<data[b]>>
        BY <1>8, <2>1
      <4>2. counts \in Seq(Nat) /\ 0 \in Nat /\ data[b] \in Nat
        BY <1>7
      <4>3. counts \o <<0>> = Append(counts, 0) /\ Append(counts, 0) \in Seq(Nat)
        BY <4>2
      <4>4. Append(counts, 0) \o <<data[b]>> = Append(Append(counts, 0), data[b])
        BY <4>2, <4>3, TwoMore
      <4> QED
        BY <4>1, <4>3, <4>4
    <3>3. BoundsMatch(Append(bounds, below), Append(counts, 0), heap, data)
      <4>1. bounds = <<>> \/ bounds[Len(bounds)] < below
        BY <2>1 DEF Last
      <4> QED
        BY <1>3, <1>4, <1>5, <1>6, <1>7, <4>1, PadBound DEF below
    <3>4. BoundsMatch(Append(Append(bounds, below), b), Append(Append(counts, 0), data[b]), heap \ {b}, data)
      BY <1>4, <1>5, <1>6, <3>3, AddBound
    <3> QED
      BY <1>8, <3>1, <3>2, <3>4
  <2>2. CASE ~(bounds = <<>> \/ Last(bounds) < below)
    <3>1. bounds' = Append(bounds, b)
      BY <1>7, <1>8, <2>2, TwoMore
    <3>2. counts' = Append(counts, data[b])
      BY <1>7, <1>8, <2>2, TwoMore
    <3>3. BoundsMatch(Append(bounds, b), Append(counts, data[b]), heap \ {b}, data)
      BY <1>3, <1>4, <1>5, <1>6, AddBound
    <3> QED
      BY <1>8, <3>1, <3>2, <3>3
  <2> QED
    BY <2>1, <2>2
<1>10. Begun'
  <2>1. BoundsMatch(bounds', counts', heap', entry'.data)
    BY <1>1, <1>9 DEF data
  <2> QED
    BY <1>1, <1>2, <2>1 DEF Begun, BoundsMatch
<1> QED
  BY <1>1, <1>2, <1>10 DEF ExportInvariant, PointCountsItsValues

LEMMA EndHistogramExports ==
  ASSUME KindsInvariant, ExportInvariant, EndHistogram
  PROVE  ExportInvariant'
<1>1. /\ phase = "exporting" /\ heap = {} /\ phase' = "exported" /\ counts' = Append(counts, 0)
      /\ UNCHANGED <<mode, object, entry, first, samples, added, heap, bounds, point>>
  BY DEF EndHistogram, Exporting
<1>2. Begun /\ first # Nothing
  BY <1>1 DEF ExportInvariant
<1>3. BoundsMatch(bounds, counts, {}, entry.data)
  BY <1>1, <1>2 DEF Begun
<1>4. Finished'
  <2>1. counts' = Append(counts, 0) /\ BoundsMatch(bounds', counts, {}, entry'.data)
    BY <1>1, <1>3
  <2>2. \E cs : counts' = Append(cs, 0) /\ BoundsMatch(bounds', cs, {}, entry'.data)
    BY <2>1
  <2>3. (\E cs : counts = Append(cs, 0) /\ BoundsMatch(bounds, cs, {}, entry.data))'
    BY <2>2 DEF BoundsMatch
  <2> QED
    BY <1>1, <1>2, <2>3 DEF Finished, Begun
<1>5. point'.count = CountOf(samples') /\ "sum" \notin DOMAIN point'
  <2>1. CountOf(entry.data) = CountOf(samples)
    BY <1>2, HistogramEntry DEF Begun
  <2> QED
    BY <1>1, <1>2, <2>1 DEF Begun
<1>6. CountOf(counts') = point'.count
  <2>1. counts \in Seq(Nat)
    BY <1>3 DEF BoundsMatch
  <2>2. CountOf(counts') = CountOf(counts) + 0 /\ CountOf(counts) \in Int
    BY <1>1, <2>1, CountOfCounts
  <2>3. Amount(entry.data, {}) = 0
    BY TotalOfNone DEF Amount
  <2>4. CountOf(counts) + 0 = CountOf(entry.data)
    BY <1>3, <2>3 DEF BoundsMatch
  <2> QED
    BY <1>1, <1>2, <2>2, <2>4 DEF Begun
<1>7. PointCountsItsValues'
  BY <1>5, <1>6 DEF PointCountsItsValues, CountOf, TotalOver
<1> QED
  BY <1>1, <1>2, <1>4, <1>7 DEF ExportInvariant

(* A data point without buckets *)
LEMMA ExportedAtOnce ==
  ASSUME KindsInvariant, ExportInvariant, NEW kind \in Kinds, NEW data, ExportAtOnce(kind, data),
         "count" \in DOMAIN data => data.count = CountOf(samples),
         "sum" \in DOMAIN data /\ BagToSet(samples) \subseteq Nat =>
           Wrap(data.sum) = Wrap(SumOf(samples))
  PROVE  ExportInvariant'
<1>1. /\ first # Nothing /\ phase = "window"
      /\ UNCHANGED <<mode, object, entry, first, samples, added>>
  BY HandOverFacts DEF ExportAtOnce
<1>2. heap = {} /\ bounds = <<>> /\ counts = <<>>
  BY <1>1 DEF ExportInvariant
<1>3. phase' = "exported" /\ point' = data /\ UNCHANGED <<heap, bounds, counts>>
  BY DEF ExportAtOnce
<1>4. Finished'
  BY <1>2, <1>3 DEF Finished
<1>5. PointCountsItsValues'
  <2>1. "count" \in DOMAIN point' => point'.count = CountOf(samples')
    BY <1>1, <1>3
  <2>2. counts' = <<>>
    BY <1>2, <1>3
  <2>3. "sum" \in DOMAIN point' /\ BagToSet(samples') \subseteq Nat =>
          Wrap(point'.sum) = Wrap(SumOf(samples'))
    BY <1>1, <1>3
  <2> QED
    BY <1>1, <1>3, <2>1, <2>2, <2>3 DEF PointCountsItsValues, CountOf, SumOf, TotalOver, BagToSet
<1> QED
  BY <1>1, <1>3, <1>4, <1>5 DEF ExportInvariant

LEMMA WrapTwice ==
  ASSUME NEW n \in Int
  PROVE  Wrap(Wrap(n)) = Wrap(n)
BY WrapIsWord, WrapOfWord

LEMMA SumOfSamples ==
  ASSUME NEW bag, FiniteBag(bag), DOMAIN bag \subseteq Int
  PROVE  SumOf(bag) \in Int
BY SumWithin DEF FiniteBag

LEMMA ExportStatisticSetExports ==
  ASSUME KindsInvariant, ExportInvariant, ExportStatisticSet
  PROVE  ExportInvariant'
<1>1. entry.kind = "StatisticSet" /\ first \in Types /\ Aggregates(first, entry.kind, entry.data, samples)
  BY HandOverFacts DEF ExportStatisticSet, ExportAtOnce, Kinds
<1>2. first = "Observation" /\ mode \in Modes
  BY <1>1 DEF Aggregates, Types, Modes, KindsInvariant
<1>3. IsStatisticSetOf(entry.data, samples) /\ FiniteBag(samples) /\ DOMAIN samples \subseteq Int
  BY <1>1, <1>2, WordFacts DEF Aggregates
<1>4. entry.data.count = CountOf(samples) /\ entry.data.sum = Wrap(SumOf(samples))
  BY <1>3 DEF IsStatisticSetOf
<1>5. Wrap(entry.data.sum) = Wrap(SumOf(samples))
  BY <1>3, <1>4, SumOfSamples, WrapTwice
<1> QED
  BY <1>4, <1>5, ExportedAtOnce DEF ExportStatisticSet, Kinds

LEMMA ExportSumExports ==
  ASSUME KindsInvariant, ExportInvariant, ExportSum
  PROVE  ExportInvariant'
<1>1. entry.kind = "Sum" /\ first \in Types /\ Aggregates(first, entry.kind, entry.data, samples)
  BY HandOverFacts DEF ExportSum, ExportAtOnce, Kinds
<1>2. first = "Sum"
  BY <1>1 DEF Aggregates, Types, Modes, KindsInvariant
<1>3. entry.data = Wrap(SumOf(samples)) /\ FiniteBag(samples) /\ DOMAIN samples \subseteq Int
  BY <1>1, <1>2, WordFacts DEF Aggregates
<1>4. Wrap(entry.data) = Wrap(SumOf(samples))
  BY <1>3, SumOfSamples, WrapTwice
<1> DEFINE data == [sum |-> entry.data]
<1>5. "count" \notin DOMAIN data /\ data.sum = entry.data
  OBVIOUS
<1>6. ExportAtOnce("Sum", data)
  BY DEF ExportSum
<1> HIDE DEF data
<1> QED
  BY <1>4, <1>5, <1>6, ExportedAtOnce DEF Kinds

LEMMA ListEntry ==
  ASSUME KindsInvariant, first # Nothing, entry.kind \in {"ExponentialHistogram", "TDigest"}
  PROVE  entry.data = samples
<1>1. first = "Distribution" /\ mode = entry.kind /\ Aggregates(first, entry.kind, entry.data, samples)
  BY DEF KindsInvariant, Aggregates, Types, Modes
<1> QED
  BY <1>1 DEF Aggregates

LEMMA ExportExponentialHistogramExports ==
  ASSUME KindsInvariant, ExportInvariant, ExportExponentialHistogram
  PROVE  ExportInvariant'
<1> DEFINE data == [count |-> CountOf(entry.data),
                    sum |-> IF \E v \in BagToSet(entry.data) : v < 0 THEN 0 ELSE SumOf(entry.data)]
<1>1. ExportAtOnce("ExponentialHistogram", data) /\ "ExponentialHistogram" \in Kinds
  BY DEF ExportExponentialHistogram, Kinds, Modes
<1>2. entry.data = samples
  BY <1>1, HandOverFacts, ListEntry DEF ExportAtOnce
<1>3. data.count = CountOf(samples)
  BY <1>2
<1>4. BagToSet(samples) \subseteq Nat => data.sum = SumOf(samples)
  <2>1. BagToSet(samples) \subseteq Nat => ~\E v \in BagToSet(samples) : v < 0
    OBVIOUS
  <2> QED
    BY <1>2, <2>1
<1> HIDE DEF data
<1> QED
  BY <1>1, <1>3, <1>4, ExportedAtOnce

LEMMA ExportDatumExports ==
  ASSUME KindsInvariant, ExportInvariant, ExportDatum
  PROVE  ExportInvariant'
<1>1. ASSUME ExportAtOnce("TDigest", [count |-> CountOf(entry.data), sum |-> SumOf(entry.data)])
      PROVE  ExportInvariant'
  <2> DEFINE data == [count |-> CountOf(entry.data), sum |-> SumOf(entry.data)]
  <2>1. "TDigest" \in Kinds
    BY DEF Kinds, Modes
  <2>2. entry.data = samples
    BY <1>1, <2>1, HandOverFacts, ListEntry DEF ExportAtOnce
  <2>3. data.count = CountOf(samples) /\ data.sum = SumOf(samples)
    BY <2>2
  <2> HIDE DEF data
  <2> QED
    BY <1>1, <2>1, <2>3, ExportedAtOnce DEF data
<1>2. ASSUME NEW kind \in {"Histogram", "ExponentialHistogram"},
             ExportAtOnce(kind, [buckets |-> entry.data])
      PROVE  ExportInvariant'
  <2> DEFINE data == [buckets |-> entry.data]
  <2>1. "count" \notin DOMAIN data /\ "sum" \notin DOMAIN data
    OBVIOUS
  <2>2. kind \in Kinds
    BY DEF Kinds, Modes
  <2>3. ExportAtOnce(kind, data)
    BY <1>2
  <2> HIDE DEF data
  <2> QED
    BY <2>1, <2>2, <2>3, ExportedAtOnce
<1> QED
  BY <1>1, <1>2, ExportStatisticSetExports, ExportSumExports DEF ExportDatum

LEMMA ExportNext ==
  KindsInvariant /\ ExportInvariant /\ [Next]_vars => ExportInvariant'
<1> SUFFICES ASSUME KindsInvariant, ExportInvariant, [Next]_vars PROVE ExportInvariant'
  OBVIOUS
<1>1. ASSUME Recorded PROVE ExportInvariant'
  BY <1>1, OpenWindow DEF Recorded
<1>2. ASSUME NEW n, RecordObservation(n) \/ RecordSum(n) PROVE ExportInvariant'
  BY <1>1, <1>2 DEF RecordObservation, RecordSum
<1>3. ASSUME NEW d \in Distributions, RecordDistribution(d) PROVE ExportInvariant'
  BY <1>1, <1>3 DEF RecordDistribution
<1>4. CASE Aggregate
  BY <1>4, OpenWindow DEF Aggregate
<1>5. CASE BatcherPanics
  BY <1>5 DEF BatcherPanics, HandOver, ExportInvariant, PointCountsItsValues
<1>6. CASE NextWindow
  BY <1>6 DEF NextWindow, ExportInvariant, Finished, PointCountsItsValues
<1> QED
  BY <1>2, <1>3, <1>4, <1>5, <1>6, BeginHistogramExports, PopBucketExports, EndHistogramExports,
     ExportStatisticSetExports, ExportSumExports, ExportExponentialHistogramExports,
     ExportDatumExports, ExportUnchanged DEF Next

AggregationInvariant == KindsInvariant /\ ExportInvariant /\ SumInvariant

(* The three parts hold together: what an export reads is what was aggregated, and   *)
(* nothing but the loop of as_otel_histogram touches bounds and counts               *)
(* (aggregator.rs:330, opentelemetry_downstream.rs:447).                             *)
THEOREM AggregationInvariantHolds == Spec => []AggregationInvariant
<1>1. Init => AggregationInvariant
  BY KindsInit, ExportInit, SumInit DEF AggregationInvariant
<1>2. AggregationInvariant /\ [Next]_vars => AggregationInvariant'
  BY KindsNext, ExportNext, SumNext DEF AggregationInvariant
<1> QED
  BY <1>1, <1>2, PTL DEF Spec

-----------------------------------------------------------------------------
(* What follows *)
LEMMA AggregationTypes == AggregationInvariant => TypeOK
<1> SUFFICES ASSUME AggregationInvariant PROVE TypeOK
  OBVIOUS
<1>1. KindsInvariant /\ ExportInvariant /\ OnlySums
  BY DEF AggregationInvariant, SumInvariant
<1>2. mode \in Modes /\ first \in Types \cup {Nothing} /\ (object = Nothing \/ object \in Measurements)
  BY <1>1, ObjectFacts DEF KindsInvariant
<1>3. first # Nothing => /\ first \in Types /\ Aggregates(first, entry.kind, entry.data, samples)
  BY <1>1 DEF KindsInvariant
<1>4. FiniteBag(samples) /\ DOMAIN samples \subseteq Nat \cup Word
  <2>1. CASE first = Nothing
    <3>1. samples = EmptyBag
      BY <1>1, <2>1 DEF KindsInvariant
    <3> QED
      BY <3>1, EmptyBagFacts
  <2>2. CASE first # Nothing
    BY <1>3, <2>2 DEF Aggregates, Types, Roundable
  <2> QED
    BY <2>1, <2>2
<1>5. ASSUME NEW B, FiniteBag(B) PROVE IsABag(B)
  <2>1. B \in [DOMAIN B -> Nat \ {0}] /\ Nat \ {0} = {n \in Nat : n > 0}
    BY <1>5 DEF FiniteBag
  <2> QED
    BY <2>1 DEF IsABag
<1>6. \/ entry = NoEntry
      \/ entry.kind = mode /\ IsABag(entry.data) /\ BagToSet(entry.data) \subseteq Nat \cup Word
      \/ entry.kind = "StatisticSet" /\ entry.data \in StatisticSets
      \/ entry.kind = "Sum" /\ entry.data \in Word
  <2>1. CASE first = Nothing
    BY <1>1, <2>1 DEF KindsInvariant
  <2>2. CASE first = "Observation"
    <3>1. first # Nothing
      BY <2>2, NothingAssumption DEF Types
    <3> QED
      BY <1>3, <2>2, <3>1 DEF Aggregates, IsStatisticSetOf
  <2>3. CASE first = "Sum"
    <3>1. first # Nothing
      BY <2>3, NothingAssumption DEF Types
    <3>2. entry.kind = "Sum" /\ entry.data = Wrap(SumOf(samples)) /\ DOMAIN samples \subseteq Int
      BY <1>3, <2>3, <3>1, WordFacts DEF Aggregates
    <3> QED
      BY <1>4, <3>2, SumOfSamples, WrapIsWord
  <2>4. CASE first = "Distribution"
    <3>1. first # Nothing
      BY <2>4, NothingAssumption DEF Types
    <3>2. entry.kind = mode /\ (mode # "Histogram" => entry.data = samples)
      BY <1>3, <2>4, <3>1 DEF Aggregates
    <3>3. CASE mode = "Histogram"
      <4>1. /\ IsHistogramOf(entry.data, samples) /\ FiniteBag(entry.data)
            /\ DOMAIN samples \subseteq Roundable
        BY <1>1, <3>1, <3>2, <3>3, HistogramEntry
      <4>2. \A b \in DOMAIN entry.data : b \in Word
        BY <4>1, BucketFacts
      <4> QED
        BY <1>5, <3>2, <4>1, <4>2 DEF BagToSet
    <3>4. CASE mode # "Histogram"
      BY <1>4, <1>5, <3>2, <3>4 DEF BagToSet
    <3> QED
      BY <3>3, <3>4
  <2> QED
    BY <1>2, <2>1, <2>2, <2>3, <2>4 DEF Types
<1>7. /\ phase \in {"window", "exporting", "exported", "panicked"}
      /\ point # Nothing => phase \in {"exporting", "exported"}
  BY <1>1 DEF ExportInvariant
<1>8. /\ heap \subseteq Int /\ (heap # {} => phase = "exporting" /\ heap \subseteq BagToSet(entry.data))
      /\ bounds \in Seq(Int) /\ counts \in Seq(Nat)
  <2>1. CASE phase \in {"window", "panicked"}
    <3>1. heap = {} /\ bounds = <<>> /\ counts = <<>>
      BY <1>1, <2>1 DEF ExportInvariant
    <3> QED
      BY <3>1
  <2>2. CASE phase = "exporting"
    <3>1. Begun /\ first # Nothing
      BY <1>1, <2>2 DEF ExportInvariant
    <3>2. /\ IsHistogramOf(entry.data, samples) /\ DOMAIN samples \subseteq Roundable
          /\ BoundsMatch(bounds, counts, heap, entry.data)
      BY <1>1, <3>1, HistogramEntry DEF Begun
    <3>3. \A b \in DOMAIN entry.data : b \in Int
      BY <3>2, BucketFacts
    <3> QED
      BY <2>2, <3>2, <3>3 DEF BoundsMatch, BagToSet
  <2>3. CASE phase = "exported"
    <3>1. Finished
      BY <1>1, <2>3 DEF ExportInvariant
    <3>2. CASE bounds = <<>> /\ counts = <<>>
      BY <3>1, <3>2 DEF Finished
    <3>3. CASE ~(bounds = <<>> /\ counts = <<>>)
      <4>1. PICK cs : counts = Append(cs, 0) /\ BoundsMatch(bounds, cs, {}, entry.data)
        BY <3>1, <3>3 DEF Finished
      <4>2. cs \in Seq(Nat) /\ bounds \in Seq(Int)
        BY <4>1 DEF BoundsMatch
      <4>3. Append(cs, 0) \in Seq(Nat)
        BY <4>2, AppendFacts
      <4> QED
        BY <3>1, <4>1, <4>2, <4>3 DEF Finished
    <3> QED
      BY <3>2, <3>3
  <2> QED
    BY <1>7, <2>1, <2>2, <2>3
<1>9. added = Nothing \/ added \in Word
  BY <1>1 DEF OnlySums
<1> QED
  BY <1>2, <1>4, <1>5, <1>6, <1>7, <1>8, <1>9 DEF TypeOK, BagToSet

LEMMA AggregationBounds == AggregationInvariant => BoundsIncrease
<1> SUFFICES ASSUME AggregationInvariant, NEW i \in 2..Len(bounds) PROVE bounds[i - 1] < bounds[i]
  BY DEF BoundsIncrease
<1>1. KindsInvariant /\ ExportInvariant /\ bounds # <<>>
  <2>1. bounds = <<>> => Len(bounds) = 0
    OBVIOUS
  <2> QED
    BY <2>1 DEF AggregationInvariant
<1>2. \E cs, rest : BoundsMatch(bounds, cs, rest, entry.data)
  BY <1>1 DEF ExportInvariant, Begun, Finished
<1>3. PICK cs, rest : BoundsMatch(bounds, cs, rest, entry.data)
  BY <1>2
<1>4. Len(bounds) \in Nat
  BY <1>3 DEF BoundsMatch
<1>5. i \in 1..Len(bounds) /\ i - 1 \in 1..Len(bounds) /\ i - 1 < i
  BY <1>4
<1> QED
  BY <1>3, <1>5 DEF BoundsMatch

(* Rounding a word that is not negative *)
LEMMA SampleFacts ==
  ASSUME NEW v \in Roundable, v \in 0..MaxWord
  PROVE  /\ v \in Nat /\ v <= PowersOfTen[MaxPower] /\ Bucket(v) = bucket_10(v)
         /\ Bucket(v) \in Nat /\ bucket_10_below(Bucket(v)) \in Int
         /\ bucket_10_below(Bucket(v)) < v /\ v <= Bucket(v)
         /\ bucket_10_below(Bucket(v)) < Bucket(v)
<1>1. v \in Nat /\ v \in Word
  BY BucketsAssumption DEF Word
<1>2. Wrap(v) = v /\ Absolute(v) = v
  BY <1>1, WrapOfWord DEF Absolute
<1>3. v <= PowersOfTen[MaxPower] /\ Bucket(v) = bucket_10(v)
  BY <1>2, RoundableFacts DEF Bucket
<1>4. Bucket(v) \in Nat /\ bucket_10_below(Bucket(v)) < v /\ v <= Bucket(v)
  BY <1>1, <1>3, BucketRange
<1>5. bucket_10_below(Bucket(v)) \in Int /\ bucket_10_below(Bucket(v)) < Bucket(v)
  BY <1>1, <1>2, <1>3, BucketType
<1> QED
  BY <1>1, <1>3, <1>4, <1>5

(* No bound comes between a bucket and the bucket below it. *)
LEMMA BoundBelow ==
  ASSUME NEW data, NEW bag, IsHistogramOf(data, bag),
         DOMAIN bag \subseteq Roundable, DOMAIN bag \subseteq 0..MaxWord,
         NEW b \in DOMAIN data, NEW bound \in Int, bound < b,
         bound \in DOMAIN data \/ \E c \in DOMAIN data : bound = bucket_10_below(c)
  PROVE  bound <= bucket_10_below(b)
<1>1. PICK v \in DOMAIN bag : b = Bucket(v)
  BY DEF IsHistogramOf
<1>2. v \in Roundable /\ v \in 0..MaxWord
  BY <1>1
<1>3. v \in Nat /\ v <= PowersOfTen[MaxPower] /\ b = bucket_10(v) /\ b \in Nat /\ bucket_10_below(b) \in Int
  BY <1>1, <1>2, SampleFacts
<1>4. ASSUME NEW c \in DOMAIN data
      PROVE  /\ c \in Nat /\ bucket_10_below(c) \in Int /\ bucket_10_below(c) < c
             /\ c < b => c <= bucket_10_below(b)
             /\ b < c => b <= bucket_10_below(c)
  <2>1. PICK u \in DOMAIN bag : c = Bucket(u)
    BY DEF IsHistogramOf
  <2>2. u \in Roundable /\ u \in 0..MaxWord
    BY <2>1
  <2>3. /\ u \in Nat /\ u <= PowersOfTen[MaxPower] /\ c = bucket_10(u) /\ c \in Nat
        /\ bucket_10_below(c) \in Int /\ bucket_10_below(c) < c
    BY <2>1, <2>2, SampleFacts
  <2>4. c < b => c <= bucket_10_below(b)
    BY <1>3, <2>3, BucketsApart
  <2>5. b < c => b <= bucket_10_below(c)
    BY <1>3, <2>3, BucketsApart
  <2> QED
    BY <2>3, <2>4, <2>5
<1>5. CASE bound \in DOMAIN data
  BY <1>4, <1>5
<1>6. ASSUME NEW c \in DOMAIN data, bound = bucket_10_below(c)
      PROVE  bound <= bucket_10_below(b)
  <2>1. /\ c \in Nat /\ bucket_10_below(c) \in Int /\ bucket_10_below(c) < c
        /\ c < b => c <= bucket_10_below(b)
        /\ b < c => b <= bucket_10_below(c)
    BY <1>4
  <2>2. CASE c < b
    BY <1>3, <1>6, <2>1, <2>2
  <2>3. CASE c = b
    BY <1>3, <1>6, <2>3
  <2>4. CASE b < c
    BY <1>3, <1>6, <2>1, <2>4
  <2> QED
    BY <1>3, <2>1, <2>2, <2>3, <2>4
<1> QED
  BY <1>5, <1>6

LEMMA AggregationRanges == AggregationInvariant => BucketsCountTheirRange
<1> SUFFICES ASSUME AggregationInvariant, phase = "exported", BagToSet(samples) \subseteq 0..MaxWord
             PROVE  /\ Len(counts) = Len(bounds) + (IF counts = <<>> THEN 0 ELSE 1)
                    /\ \A i \in DOMAIN counts : CountsItsRange(i)
  BY DEF BucketsCountTheirRange
<1>1. KindsInvariant /\ ExportInvariant /\ Finished /\ first # Nothing
  BY DEF AggregationInvariant, ExportInvariant
<1>2. CASE bounds = <<>> /\ counts = <<>>
  BY <1>2
<1>3. CASE ~(bounds = <<>> /\ counts = <<>>)
  <2> DEFINE data == entry.data
             n == Len(bounds)
             V == DOMAIN samples
  <2>1. PICK cs : counts = Append(cs, 0) /\ BoundsMatch(bounds, cs, {}, data)
    BY <1>1, <1>3 DEF Finished
  <2>2. IsHistogramOf(data, samples) /\ FiniteBag(samples) /\ V \subseteq Roundable /\ V \subseteq 0..MaxWord
    BY <1>1, <1>3, HistogramEntry DEF Finished, BagToSet
  <2>3. /\ bounds \in Seq(Int) /\ cs \in Seq(Nat) /\ Len(cs) = n /\ n \in Nat
        /\ \A i \in 1..n : bounds[i] \in Int
    BY <2>1 DEF BoundsMatch
  <2>4. /\ counts \in Seq(Nat) /\ Len(counts) = n + 1 /\ counts[n + 1] = 0
        /\ \A i \in 1..n : counts[i] = cs[i]
    BY <2>1, <2>3, AppendFacts
  <2> HIDE DEF n, V, data
  <2>5. \A i \in 1..n : counts[i] = Amount(samples, InBucket(bounds[i], V))
    <3>1. \A i \in 1..n : cs[i] = Copies(bounds[i], data)
      BY <2>1 DEF BoundsMatch, n
    <3> QED
      BY <2>2, <2>4, <3>1 DEF IsHistogramOf, V
  <2>6. \A i \in 1..n : \A j \in 1..n : i < j => bounds[i] < bounds[j]
    BY <2>1 DEF BoundsMatch, n
  <2>7. ASSUME NEW v \in V
        PROVE  /\ v \in Int /\ v <= Bucket(v)
               /\ \E j \in 1..n : /\ bounds[j] = Bucket(v)
                                  /\ \A i \in 1..n : i < j => bounds[i] < v
    <3>1. v \in Roundable /\ v \in 0..MaxWord /\ Bucket(v) \in DOMAIN data
      BY <2>2 DEF IsHistogramOf, V
    <3>2. v \in Nat /\ bucket_10_below(Bucket(v)) \in Int /\ bucket_10_below(Bucket(v)) < v /\ v <= Bucket(v)
      BY <3>1, SampleFacts
    <3>3. PICK j \in 1..n : bounds[j] = Bucket(v)
      BY <2>1, <3>1 DEF BoundsMatch, n
    <3>4. ASSUME NEW i \in 1..n, i < j PROVE bounds[i] < v
      <4>1. bounds[i] \in Int /\ bounds[i] < Bucket(v)
        BY <2>3, <2>6, <3>3, <3>4
      <4>2. bounds[i] \in DOMAIN data \/ \E c \in DOMAIN data : bounds[i] = bucket_10_below(c)
        BY <2>1 DEF BoundsMatch, n
      <4>3. bounds[i] <= bucket_10_below(Bucket(v))
        BY <2>2, <3>1, <4>1, <4>2, BoundBelow DEF V
      <4> QED
        BY <3>2, <4>1, <4>3
    <3> QED
      BY <3>2, <3>3, <3>4
  <2>8. ASSUME NEW i \in 1..n, NEW v \in V
        PROVE  v \in RangeOf(i) <=> Bucket(v) = bounds[i]
    <3>1. PICK j \in 1..n : bounds[j] = Bucket(v) /\ \A k \in 1..n : k < j => bounds[k] < v
      BY <2>7
    <3>2. v \in Int /\ v <= bounds[j] /\ bounds[i] \in Int /\ bounds[j] \in Int
      BY <2>3, <2>7, <3>1
    <3>3. v \in RangeOf(i) <=> (i > 1 => bounds[i - 1] < v) /\ v <= bounds[i]
      BY <2>3 DEF RangeOf, BagToSet, V, n
    <3>4. CASE i = j
      <4>1. i > 1 => i - 1 \in 1..n /\ i - 1 < j
        BY <2>3, <3>4
      <4> QED
        BY <3>1, <3>2, <3>3, <3>4, <4>1
    <3>5. CASE i < j
      <4>1. bounds[i] < v /\ bounds[i] < bounds[j]
        BY <2>6, <3>1, <3>5
      <4> QED
        BY <3>1, <3>2, <3>3, <4>1
    <3>6. CASE j < i
      <4>1. i > 1 /\ i - 1 \in 1..n /\ (j = i - 1 \/ j < i - 1)
        BY <2>3, <3>6
      <4>2. bounds[i - 1] \in Int /\ bounds[j] <= bounds[i - 1]
        <5>1. bounds[i - 1] \in Int
          BY <2>3, <4>1
        <5>2. CASE j = i - 1
          BY <3>2, <5>1, <5>2
        <5>3. CASE j < i - 1
          <6>1. bounds[j] < bounds[i - 1]
            BY <2>6, <4>1, <5>3
          <6> QED
            BY <3>2, <5>1, <6>1
        <5> QED
          BY <4>1, <5>2, <5>3
      <4>3. bounds[j] < bounds[i]
        BY <2>6, <3>6
      <4> QED
        BY <3>1, <3>2, <3>3, <4>1, <4>2, <4>3
    <3> QED
      BY <2>3, <3>4, <3>5, <3>6
  <2>9. ASSUME NEW i \in 1..n PROVE CountsItsRange(i)
    <3>1. RangeOf(i) = InBucket(bounds[i], V)
      <4>1. RangeOf(i) \subseteq V /\ InBucket(bounds[i], V) \subseteq V
        BY DEF RangeOf, InBucket, BagToSet, V
      <4>2. \A v \in V : v \in InBucket(bounds[i], V) <=> Bucket(v) = bounds[i]
        BY DEF InBucket
      <4>3. \A v \in V : v \in RangeOf(i) <=> Bucket(v) = bounds[i]
        BY <2>8
      <4> QED
        BY <4>1, <4>2, <4>3
    <3>2. InBucket(bounds[i], V) \in SUBSET DOMAIN samples
      BY DEF InBucket, V
    <3>3. Amount(samples, InBucket(bounds[i], V)) = TotalOver(samples, InBucket(bounds[i], V))
      BY <2>2, <3>2, AmountIsTotal
    <3> QED
      BY <2>5, <3>1, <3>3 DEF CountsItsRange
  <2>10. CountsItsRange(n + 1)
    <3>1. RangeOf(n + 1) = {}
      <4> SUFFICES ASSUME NEW v \in RangeOf(n + 1) PROVE FALSE
        OBVIOUS
      <4>1. v \in V /\ (n + 1 > 1 => bounds[(n + 1) - 1] < v)
        BY DEF RangeOf, BagToSet, V
      <4>2. PICK j \in 1..n : bounds[j] = Bucket(v)
        BY <2>7, <4>1
      <4>3. v \in Int /\ v <= bounds[j]
        BY <2>7, <4>1, <4>2
      <4>4. n \in 1..n /\ n + 1 > 1 /\ (n + 1) - 1 = n /\ (j = n \/ j < n)
        BY <2>3, <4>2
      <4>5. bounds[n] \in Int /\ bounds[j] \in Int /\ bounds[j] <= bounds[n]
        BY <2>3, <2>6, <4>4
      <4> QED
        BY <4>1, <4>3, <4>4, <4>5
    <3> QED
      BY <2>4, <3>1, TotalOfNone DEF CountsItsRange
  <2>11. DOMAIN counts = 1..(n + 1) /\ counts # <<>>
    BY <2>3, <2>4
  <2>12. \A i \in 1..(n + 1) : i \in 1..n \/ i = n + 1
    BY <2>3
  <2> QED
    BY <2>3, <2>4, <2>9, <2>10, <2>11, <2>12 DEF n
<1> QED
  BY <1>2, <1>3

(* The aggregation of a name has the kind its mode allows, its extremes and sums are  *)
(* words, and buckets are left only while a histogram's data point is made            *)
(* (aggregator.rs:330, opentelemetry_downstream.rs:447).                              *)
THEOREM TypeCorrect == Spec => []TypeOK
BY AggregationInvariantHolds, AggregationTypes, PTL

(* For any measurements: the type that comes first in a window decides, and the entry *)
(* is the aggregate of every value of that type and of nothing else, however they     *)
(* were divided between objects (aggregator.rs:330, aggregation/statistic_set.rs:4).  *)
THEOREM FirstTypeIsAggregated == Spec => []EntryAggregatesFirstType
<1>1. AggregationInvariant => EntryAggregatesFirstType
  BY KindsAggregate DEF AggregationInvariant
<1> QED
  BY <1>1, AggregationInvariantHolds, PTL

(* A data point's count is the number of values aggregated and what its buckets add   *)
(* up to, though its buckets come from a loop that also makes empty ones; its sum is  *)
(* theirs (opentelemetry_downstream.rs:447, metrics.proto:402).                       *)
THEOREM PointsCountTheirValues == Spec => []PointCountsItsValues
<1>1. AggregationInvariant => PointCountsItsValues
  BY DEF AggregationInvariant, ExportInvariant
<1> QED
  BY <1>1, AggregationInvariantHolds, PTL

(* Each bucket of a histogram of words that are not negative counts the values in its *)
(* range, whatever the significant figures: the values that round to a bucket are     *)
(* those beyond the bound before it, and no two roundings overlap (bucket.rs:2,       *)
(* bucket.rs:19, opentelemetry_downstream.rs:447).                                    *)
THEOREM BucketsCountTheirRanges == Spec => []BucketsCountTheirRange
BY AggregationInvariantHolds, AggregationRanges, PTL

(* A histogram's bounds increase strictly, while they are made and when they are      *)
(* done: a bound below is put in only where it is above the last bound                *)
(* (opentelemetry_downstream.rs:471).                                                 *)
THEOREM BoundsAreIncreasing == Spec => []BoundsIncrease
BY AggregationInvariantHolds, AggregationBounds, PTL
=============================================================================
