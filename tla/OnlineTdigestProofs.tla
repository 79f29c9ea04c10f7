------------------------- MODULE OnlineTdigestProofs -------------------------
(***************************************************************************)
(* That a digest is one of exactly the observations it stands for, however *)
(* they were buffered, sorted, merged and compressed, for any values and   *)
(* any sizes of buffer and digest.                                         *)
(*                                                                         *)
(* Its operations are loops over sequences.  InductionOnNat follows from   *)
(* the library's theorem that < is well-founded, for a set in place of an  *)
(* operator; Loop and LoopInvariant are what it gives of recursive         *)
(* functions: that a loop which stays within given sets has results, and   *)
(* what holds of them.  A loop's state (MergeState, SortState, JoinState)  *)
(* says what it has made of the first n steps.                             *)
(*                                                                         *)
(* And that its quantiles are close: an estimate is clamped between the    *)
(* means of the neighbours of a centroid whose rank is known, and when     *)
(* there are as many centroids as values no two were joined, so that the   *)
(* digest holds each value exactly as often as it was observed (Whole).    *)
(***************************************************************************)
EXTENDS OnlineTdigest, FiniteSetTheorems, SequenceTheorems, WellFoundedInduction, TLAPS

(* A set of naturals that is not empty has a least element. *)
LEMMA LeastElement ==
  ASSUME NEW T \in SUBSET Nat, T # {}
  PROVE  \E m \in T : \A n \in T : m <= n
<1> DEFINE R == OpToRel(<, Nat)
<1>1. IsWellFoundedOn(R, Nat)
  BY NatLessThanWellFounded
<1>2. PICK m \in T : \A n \in T : ~(<<n, m>> \in R)
  <2> HIDE DEF R
  <2> QED BY <1>1, WFMin
<1>3. \A n \in T : n \in Nat /\ m \in Nat /\ ~(n < m)
  BY <1>2 DEF OpToRel
<1>4. \A n \in T : m <= n
  BY <1>3
<1> QED
  BY <1>4

(* Induction over sets of naturals *)
LEMMA InductionOnNat ==
  ASSUME NEW T, 0 \in T, \A n \in Nat : n \in T => n + 1 \in T
  PROVE  Nat \subseteq T
<1> SUFFICES ASSUME NEW x \in Nat, x \notin T PROVE FALSE
  OBVIOUS
<1>1. PICK m \in Nat \ T : \A n \in Nat \ T : m <= n
  BY LeastElement
<1>2. m - 1 \in Nat /\ m - 1 \in T
  BY <1>1
<1>3. (m - 1) + 1 \in T
  BY <1>2
<1> QED
  BY <1>1, <1>3

(* A loop that begins with b, and whose n-th step F[n] goes from T[n - 1] to T[n] *)
IsLoop(N, b, F, T) ==
  /\ b \in T[0]
  /\ \A n \in 1..N : \A x \in T[n - 1] : F[n][x] \in T[n]

LEMMA Loop ==
  ASSUME NEW N \in Nat, NEW b, NEW F, NEW T, IsLoop(N, b, F, T)
  PROVE  \E g : /\ g = [n \in 0..N |-> g[n]]
                /\ g[0] = b
                /\ \A n \in 1..N : g[n] = F[n][g[n - 1]]
                /\ \A n \in 0..N : g[n] \in T[n]
<1> USE DEF IsLoop
<1> DEFINE Upto(k, g) == /\ g = [n \in 0..k |-> IF n = 0 THEN b ELSE F[n][g[n - 1]]]
                         /\ \A n \in 0..k : g[n] \in T[n]
           K == {k \in Nat : k <= N => \E g : Upto(k, g)}
<1>1. 0 \in K
  <2> DEFINE h == [n \in 0..0 |-> b]
  <2>1. Upto(0, h)
    OBVIOUS
  <2> QED
    BY <2>1
<1>2. ASSUME NEW k \in Nat, k \in K, k + 1 <= N
      PROVE  k + 1 \in K
  <2>1. PICK g : Upto(k, g)
    BY <1>2
  <2> DEFINE h == [n \in 0..(k + 1) |-> IF n = k + 1 THEN F[k + 1][g[k]] ELSE g[n]]
  <2>2. \A n \in 0..(k + 1) : h[n] = IF n = 0 THEN b ELSE F[n][h[n - 1]]
    <3> SUFFICES ASSUME NEW n \in 0..(k + 1) PROVE h[n] = IF n = 0 THEN b ELSE F[n][h[n - 1]]
      OBVIOUS
    <3>1. CASE n = 0
      BY <2>1, <3>1
    <3>2. CASE n # 0 /\ n # k + 1
      <4>1. n \in 0..k /\ n - 1 \in 0..k /\ n - 1 # k + 1
        BY <3>2
      <4>2. g[n] = F[n][g[n - 1]] 
        BY <2>1, <3>2, <4>1
      <4> QED
        BY <3>2, <4>1, <4>2
    <3>3. CASE n = k + 1
      BY <3>3
    <3> QED
      BY <3>1, <3>2, <3>3
  <2>3. h = [n \in 0..(k + 1) |-> IF n = 0 THEN b ELSE F[n][h[n - 1]]]
    <3>1. h = [n \in 0..(k + 1) |-> h[n]]
      OBVIOUS
    <3> HIDE DEF h
    <3> QED
      BY <2>2, <3>1, Zenon
  <2>4. \A n \in 0..(k + 1) : h[n] \in T[n]
    <3>1. g[k] \in T[k]
      BY <2>1
    <3>2. k + 1 \in 1..N /\ (k + 1) - 1 = k
      BY <1>2
    <3>3. F[k + 1][g[k]] \in T[k + 1]
      BY <3>1, <3>2
    <3>4. \A n \in 0..(k + 1) : n # k + 1 => n \in 0..k
      OBVIOUS
    <3> QED
      BY <2>1, <3>3, <3>4
  <2>5. Upto(k + 1, h)
    <3> HIDE DEF h
    <3> QED
      BY <2>3, <2>4
  <2>6. \E h2 : Upto(k + 1, h2)
    <3> HIDE DEF h, Upto
    <3> QED
      BY <2>5
  <2> QED
    BY <2>6
<1>3. \A k \in Nat : k \in K => k + 1 \in K
  <2> SUFFICES ASSUME NEW k \in Nat, k \in K PROVE k + 1 \in K
    OBVIOUS
  <2>1. CASE k + 1 <= N
    BY <1>2, <2>1
  <2>2. CASE ~(k + 1 <= N)
    BY <2>2
  <2> QED
    BY <2>1, <2>2
<1>4. Nat \subseteq K
  <2> HIDE DEF K
  <2> QED
    BY <1>1, <1>3, InductionOnNat
<1>5. PICK g : Upto(N, g)
  BY <1>4
<1>6. g = [n \in 0..N |-> g[n]] /\ g[0] = b
  BY <1>5
<1>7. \A n \in 1..N : g[n] = F[n][g[n - 1]]
  BY <1>5
<1> QED
  BY <1>5, <1>6, <1>7

(* What holds of the results of a loop *)
LEMMA LoopInvariant ==
  ASSUME NEW N \in Nat, NEW T, NEW g,
         g[0] \in T[0],
         \A n \in 1..N : g[n - 1] \in T[n - 1] => g[n] \in T[n]
  PROVE  \A n \in 0..N : g[n] \in T[n]
<1> DEFINE K == {k \in Nat : k <= N => g[k] \in T[k]}
<1>1. 0 \in K
  OBVIOUS
<1>2. ASSUME NEW k \in Nat, k \in K PROVE k + 1 \in K
  <2>1. k + 1 <= N => k + 1 \in 1..N /\ (k + 1) - 1 = k
    OBVIOUS
  <2> QED
    BY <1>2, <2>1
<1>3. Nat \subseteq K
  <2> HIDE DEF K
  <2> QED
    BY <1>1, <1>2, InductionOnNat
<1> QED
  BY <1>3
-----------------------------------------------------------------------------
(* Sums *)
LEMMA TotalsEquation ==
  ASSUME NEW s \in Seq(Int)
  PROVE  /\ Totals(s) = [n \in 0..Len(s) |-> IF n = 0 THEN 0 ELSE Totals(s)[n - 1] + s[n]]
         /\ \A n \in 0..Len(s) : Totals(s)[n] \in Int
<1> DEFINE N == Len(s)
           T == [n \in 0..N |-> Int]
           F == [n \in 1..N |-> [x \in Int |-> x + s[n]]]
<1>1. N \in Nat /\ \A n \in 1..N : s[n] \in Int
  OBVIOUS
<1>2. \A n \in 1..N : \A x \in T[n - 1] : F[n][x] = x + s[n] /\ F[n][x] \in T[n]
  BY <1>1
<1>3. PICK g : /\ g = [n \in 0..N |-> g[n]]
               /\ g[0] = 0
               /\ \A n \in 1..N : g[n] = F[n][g[n - 1]]
               /\ \A n \in 0..N : g[n] \in T[n]
  <2>1. IsLoop(N, 0, F, T)
    <3>1. 0 \in T[0]
      BY <1>1
    <3> HIDE DEF T, F, N
    <3> QED
      BY <1>2, <3>1 DEF IsLoop
  <2> HIDE DEF T, F, N
  <2> QED
    BY <1>1, <2>1, Loop
<1>4. g = [n \in 0..N |-> IF n = 0 THEN 0 ELSE g[n - 1] + s[n]]
  <2>1. \A n \in 0..N : n # 0 => n \in 1..N /\ n - 1 \in 0..N
    BY <1>1
  <2> HIDE DEF T, F, N
  <2> QED
    BY <1>2, <1>3, <2>1
<1>5. Totals(s) = [n \in 0..N |-> IF n = 0 THEN 0 ELSE Totals(s)[n - 1] + s[n]]
  BY <1>4, Zenon DEF Totals
<1>6. \A n \in 0..N : Totals(s)[n] \in T[n]
  <2>1. Totals(s)[0] \in T[0]
    BY <1>1, <1>5
  <2>2. \A n \in 1..N : Totals(s)[n - 1] \in T[n - 1] => Totals(s)[n] \in T[n]
    BY <1>1, <1>5
  <2> HIDE DEF T, F, N
  <2> QED
    BY <1>1, <2>1, <2>2, LoopInvariant
<1> QED
  BY <1>1, <1>5, <1>6

LEMMA TotalOfEmpty == Total(<<>>) = 0
<1>1. <<>> \in Seq(Int) /\ Len(<<>>) = 0
  OBVIOUS
<1>2. 0 \in 0..0
  OBVIOUS
<1> QED
  BY <1>1, <1>2, TotalsEquation DEF Total

LEMMA TotalOfAppend ==
  ASSUME NEW s \in Seq(Int), NEW v \in Int
  PROVE  Total(s) \in Int /\ Total(Append(s, v)) = Total(s) + v
<1> DEFINE t == Append(s, v)
           N == Len(s)
           T == [n \in 0..N |-> {Totals(s)[n]}]
           g == Totals(t)
<1>1. /\ N \in Nat /\ t \in Seq(Int) /\ Len(t) = N + 1
      /\ t[N + 1] = v /\ \A n \in 1..N : t[n] = s[n]
  OBVIOUS
<1>2. /\ g = [n \in 0..(N + 1) |-> IF n = 0 THEN 0 ELSE g[n - 1] + t[n]]
      /\ \A n \in 0..(N + 1) : g[n] \in Int
  <2> HIDE DEF t
  <2> QED
    BY <1>1, TotalsEquation
<1>3. /\ Totals(s) = [n \in 0..N |-> IF n = 0 THEN 0 ELSE Totals(s)[n - 1] + s[n]]
      /\ \A n \in 0..N : Totals(s)[n] \in Int
  BY TotalsEquation
<1> HIDE DEF t, g, N
<1>4. g[0] = 0 /\ \A n \in 1..(N + 1) : g[n] = g[n - 1] + t[n]
  BY <1>1, <1>2
<1>5. Totals(s)[0] = 0 /\ \A n \in 1..N : Totals(s)[n] = Totals(s)[n - 1] + s[n]
  BY <1>1, <1>3
<1>6. \A n \in 0..N : g[n] \in T[n]
  <2>1. g[0] \in T[0]
    BY <1>1, <1>4, <1>5
  <2>2. ASSUME NEW n \in 1..N, g[n - 1] \in T[n - 1] PROVE g[n] \in T[n]
    <3>1. n - 1 \in 0..N /\ n \in 1..(N + 1) /\ n \in 0..N
      BY <1>1
    <3>2. g[n - 1] = Totals(s)[n - 1]
      BY <2>2, <3>1
    <3> QED
      BY <1>1, <1>4, <1>5, <3>1, <3>2
  <2> HIDE DEF T
  <2> QED
    BY <1>1, <2>1, <2>2, LoopInvariant
<1>7. g[N] = Totals(s)[N]
  BY <1>1, <1>6
<1>8. g[N + 1] = g[N] + v
  BY <1>1, <1>4
<1> QED
  BY <1>1, <1>3, <1>7, <1>8 DEF Total, g, N, t
-----------------------------------------------------------------------------
(* Centroids *)
LEMMA CentroidFacts ==
  /\ \A c \in Centroid : c.sum \in Int /\ c.weight \in Nat /\ c.weight > 0
  /\ \A c, e \in Centroid : /\ Add(c, e) \in Centroid
                           /\ Add(c, e).sum = c.sum + e.sum
                           /\ Add(c, e).weight = c.weight + e.weight
  /\ \A v \in Int : /\ Single(v) \in Centroid
                    /\ Single(v).sum = v /\ Single(v).weight = 1
BY DEF Centroid, Add, Single

LEMMA SumsOfEmpty == WeightOf(<<>>) = 0 /\ SumOf(<<>>) = 0
<1>1. /\ [i \in DOMAIN <<>> |-> <<>>[i].weight] = <<>>
      /\ [i \in DOMAIN <<>> |-> <<>>[i].sum] = <<>>
  OBVIOUS
<1> QED
  BY <1>1, TotalOfEmpty DEF WeightOf, SumOf

LEMMA SumsOfAppend ==
  ASSUME NEW cs \in Seq(Centroid), NEW c \in Centroid
  PROVE  /\ WeightOf(cs) \in Int /\ WeightOf(Append(cs, c)) = WeightOf(cs) + c.weight
         /\ SumOf(cs) \in Int /\ SumOf(Append(cs, c)) = SumOf(cs) + c.sum
<1> DEFINE t == Append(cs, c)
           w == [i \in DOMAIN cs |-> cs[i].weight]
           s == [i \in DOMAIN cs |-> cs[i].sum]
<1>1. w \in Seq(Int) /\ s \in Seq(Int) /\ c.weight \in Int /\ c.sum \in Int
  <2>1. \A i \in 1..Len(cs) : cs[i] \in Centroid
    OBVIOUS
  <2>2. \A i \in 1..Len(cs) : cs[i].weight \in Int /\ cs[i].sum \in Int
    BY <2>1, CentroidFacts
  <2>3. w \in [1..Len(cs) -> Int] /\ s \in [1..Len(cs) -> Int] /\ Len(cs) \in Nat
    BY <2>2
  <2> QED
    BY <2>3, CentroidFacts, SeqDef
<1>2. /\ t \in Seq(Centroid) /\ Len(t) = Len(cs) + 1 /\ Len(cs) \in Nat
      /\ DOMAIN t = 1..(Len(cs) + 1) /\ DOMAIN cs = 1..Len(cs)
      /\ t[Len(cs) + 1] = c /\ \A i \in 1..Len(cs) : t[i] = cs[i]
  OBVIOUS
<1>3. [i \in DOMAIN t |-> t[i].weight] = Append(w, c.weight)
  BY <1>1, <1>2
<1>4. [i \in DOMAIN t |-> t[i].sum] = Append(s, c.sum)
  BY <1>1, <1>2
<1> HIDE DEF w, s
<1>5. /\ Total(w) \in Int /\ Total(Append(w, c.weight)) = Total(w) + c.weight
      /\ Total(s) \in Int /\ Total(Append(s, c.sum)) = Total(s) + c.sum
  BY <1>1, TotalOfAppend
<1> QED
  BY <1>3, <1>4, <1>5 DEF WeightOf, SumOf, w, s, t

(* The mean of c is not above that of e. *)
NotAbove(c, e) == ~Before(e, c)

LEMMA NotAboveIsProducts ==
  ASSUME NEW c \in Centroid, NEW e \in Centroid
  PROVE  NotAbove(c, e) <=> c.sum * e.weight <= e.sum * c.weight
<1> DEFINE x == e.sum * c.weight
           y == c.sum * e.weight
<1>1. x \in Int /\ y \in Int
  BY CentroidFacts
<1> HIDE DEF x, y
<1>2. ~(x < y) <=> y <= x
  BY <1>1
<1> QED
  BY <1>2 DEF NotAbove, Before, x, y

LEMMA Products ==
  ASSUME NEW p \in Int, NEW q \in Int, NEW r \in Int,
         NEW a \in Nat \ {0}, NEW b \in Nat \ {0}, NEW c \in Nat \ {0},
         p * b <= q * a, q * c <= r * b
  PROVE  p * c <= r * a
<1>1. (p * b) * c <= (q * a) * c
  BY Z3
<1>2. (q * c) * a <= (r * b) * a
  BY Z3
<1>3. (p * c) * b <= (r * a) * b
  BY <1>1, <1>2, Z3
<1> QED
  BY <1>3, Z3

LEMMA NotAboveIsTransitive ==
  ASSUME NEW c \in Centroid, NEW e \in Centroid, NEW f \in Centroid,
         NotAbove(c, e), NotAbove(e, f)
  PROVE  NotAbove(c, f)
<1>1. /\ c.sum * e.weight <= e.sum * c.weight
      /\ e.sum * f.weight <= f.sum * e.weight
  BY NotAboveIsProducts
<1>2. /\ c.weight \in Nat \ {0} /\ e.weight \in Nat \ {0} /\ f.weight \in Nat \ {0}
      /\ c.sum \in Int /\ e.sum \in Int /\ f.sum \in Int
  BY CentroidFacts
<1>3. c.sum * f.weight <= f.sum * c.weight
  BY <1>1, <1>2, Products
<1> QED
  BY <1>3, NotAboveIsProducts

(* The mean of two lies between theirs. *)
LEMMA Mediant ==
  ASSUME NEW c \in Centroid, NEW e \in Centroid, NotAbove(c, e)
  PROVE  NotAbove(c, Add(c, e)) /\ NotAbove(Add(c, e), e)
<1> DEFINE p == c.sum
           q == e.sum
           a == c.weight
           b == e.weight
<1>1. p \in Int /\ q \in Int /\ a \in Int /\ b \in Int
  BY CentroidFacts
<1>2. p * b <= q * a
  BY NotAboveIsProducts
<1> HIDE DEF p, q, a, b
<1>3. p * (a + b) <= (p + q) * a /\ (p + q) * b <= q * (a + b)
  BY <1>1, <1>2, Z3
<1>4. Add(c, e) \in Centroid /\ Add(c, e).sum = p + q /\ Add(c, e).weight = a + b
  BY CentroidFacts DEF p, q, a, b
<1> QED
  BY <1>3, <1>4, NotAboveIsProducts DEF p, q, a, b

(* Neither is more extreme than both. *)
Between(c, lo, hi) == lo * c.weight <= c.sum /\ c.sum <= hi * c.weight

LEMMA BetweenOfAdd ==
  ASSUME NEW c \in Centroid, NEW e \in Centroid, NEW lo \in Int, NEW hi \in Int,
         Between(c, lo, hi), Between(e, lo, hi)
  PROVE  Between(Add(c, e), lo, hi)
<1> DEFINE p == c.sum
           q == e.sum
           a == c.weight
           b == e.weight
<1>1. p \in Int /\ q \in Int /\ a \in Int /\ b \in Int
  BY CentroidFacts
<1>2. lo * a <= p /\ p <= hi * a /\ lo * b <= q /\ q <= hi * b
  BY DEF Between
<1> HIDE DEF p, q, a, b
<1>3. lo * (a + b) <= p + q /\ p + q <= hi * (a + b)
  BY <1>1, <1>2, Z3
<1> QED
  BY <1>3, CentroidFacts DEF Between, p, q, a, b
-----------------------------------------------------------------------------
(* Sequences of centroids *)
InOrder(cs) == \A i \in 2..Len(cs) : NotAbove(cs[i - 1], cs[i])

LEMMA AppendCentroid ==
  ASSUME NEW r \in Seq(Centroid), NEW c \in Centroid, InOrder(r),
         Len(r) > 0 => NotAbove(r[Len(r)], c)
  PROVE  /\ Append(r, c) \in Seq(Centroid) /\ Len(Append(r, c)) = Len(r) + 1
         /\ Append(r, c)[Len(r) + 1] = c
         /\ InOrder(Append(r, c))
         /\ ToSet(Append(r, c)) = ToSet(r) \cup {c}
         /\ WeightOf(Append(r, c)) = WeightOf(r) + c.weight
         /\ SumOf(Append(r, c)) = SumOf(r) + c.sum
         /\ WeightOf(r) \in Int /\ SumOf(r) \in Int
<1> DEFINE t == Append(r, c)
           N == Len(r)
<1>1. /\ t \in Seq(Centroid) /\ Len(t) = N + 1 /\ N \in Nat
      /\ t[N + 1] = c /\ \A i \in 1..N : t[i] = r[i]
      /\ DOMAIN t = 1..(N + 1) /\ DOMAIN r = 1..N
  OBVIOUS
<1> HIDE DEF t, N
<1>2. InOrder(t)
  <2> SUFFICES ASSUME NEW i \in 2..(N + 1) PROVE NotAbove(t[i - 1], t[i])
    BY <1>1 DEF InOrder
  <2>1. CASE i = N + 1
    <3>1. N > 0 /\ N \in 1..N /\ i - 1 = N
      BY <1>1, <2>1
    <3>2. t[i - 1] = r[N] /\ t[i] = c
      BY <1>1, <2>1, <3>1
    <3> QED
      BY <3>1, <3>2 DEF N
  <2>2. CASE i # N + 1
    <3>1. i \in 2..N /\ i - 1 \in 1..N /\ i \in 1..N
      BY <1>1, <2>2
    <3> QED
      BY <1>1, <3>1 DEF InOrder, N
  <2> QED
    BY <2>1, <2>2
<1>3. ToSet(t) = ToSet(r) \cup {c}
  <2>1. 1..(N + 1) = 1..N \cup {N + 1}
    BY <1>1
  <2> QED
    BY <1>1, <2>1 DEF ToSet
<1> QED
  BY <1>1, <1>2, <1>3, SumsOfAppend DEF t, N

(* The first k centroids, and the next *)
LEMMA PrefixGrows ==
  ASSUME NEW cs \in Seq(Centroid), NEW k \in Nat, k < Len(cs)
  PROVE  /\ cs[k + 1] \in Centroid
         /\ SubSeq(cs, 1, k) \in Seq(Centroid)
         /\ SubSeq(cs, 1, k + 1) = Append(SubSeq(cs, 1, k), cs[k + 1])
         /\ WeightOf(SubSeq(cs, 1, k)) \in Int /\ SumOf(SubSeq(cs, 1, k)) \in Int
         /\ WeightOf(SubSeq(cs, 1, k + 1)) = WeightOf(SubSeq(cs, 1, k)) + cs[k + 1].weight
         /\ SumOf(SubSeq(cs, 1, k + 1)) = SumOf(SubSeq(cs, 1, k)) + cs[k + 1].sum
         /\ ToSet(SubSeq(cs, 1, k + 1)) = ToSet(SubSeq(cs, 1, k)) \cup {cs[k + 1]}
<1> DEFINE p == SubSeq(cs, 1, k)
           c == cs[k + 1]
<1>1. /\ c \in Centroid /\ p \in Seq(Centroid) /\ Len(p) = k
      /\ DOMAIN p = 1..k /\ \A i \in 1..k : p[i] = cs[i]
  OBVIOUS
<1>2. SubSeq(cs, 1, k + 1) = Append(p, c)
  OBVIOUS
<1>3. ToSet(Append(p, c)) = ToSet(p) \cup {c}
  <2>1. /\ DOMAIN Append(p, c) = 1..(k + 1) /\ Append(p, c)[k + 1] = c
        /\ \A i \in 1..k : Append(p, c)[i] = p[i]
    BY <1>1
  <2>2. 1..(k + 1) = 1..k \cup {k + 1}
    OBVIOUS
  <2> HIDE DEF p, c
  <2> QED
    BY <1>1, <2>1, <2>2 DEF ToSet
<1> HIDE DEF p, c
<1>4. /\ WeightOf(p) \in Int /\ WeightOf(Append(p, c)) = WeightOf(p) + c.weight
      /\ SumOf(p) \in Int /\ SumOf(Append(p, c)) = SumOf(p) + c.sum
  BY <1>1, SumsOfAppend
<1> QED
  BY <1>1, <1>2, <1>3, <1>4 DEF p, c

LEMMA EmptyPrefix ==
  ASSUME NEW cs \in Seq(Centroid)
  PROVE  SubSeq(cs, 1, 0) = <<>> /\ SubSeq(cs, 1, Len(cs)) = cs
OBVIOUS
-----------------------------------------------------------------------------
(* Merging: what there is after n steps. *)
MergeRecords == [i : Nat, j : Nat, result : Seq(Centroid)]

MergeState(first, second, n, m) ==
  /\ m.i <= Len(first) /\ m.j <= Len(second) /\ m.i + m.j = n
  /\ Len(m.result) = n
  /\ InOrder(m.result)
  /\ WeightOf(m.result) = WeightOf(SubSeq(first, 1, m.i)) + WeightOf(SubSeq(second, 1, m.j))
  /\ SumOf(m.result) = SumOf(SubSeq(first, 1, m.i)) + SumOf(SubSeq(second, 1, m.j))
  /\ ToSet(m.result) = ToSet(SubSeq(first, 1, m.i)) \cup ToSet(SubSeq(second, 1, m.j))
  /\ n > 0 => /\ m.i < Len(first) => NotAbove(m.result[n], first[m.i + 1])
              /\ m.j < Len(second) => NotAbove(m.result[n], second[m.j + 1])

LEMMA OneMore ==
  ASSUME NEW i \in Nat, NEW j \in Nat, NEW n \in Nat, i + j = n - 1
  PROVE  i + (j + 1) = n /\ (i + 1) + j = n
OBVIOUS

LEMMA MergeStep ==
  ASSUME NEW first \in Seq(Centroid), NEW second \in Seq(Centroid),
         InOrder(first), InOrder(second),
         NEW n \in 1..(Len(first) + Len(second)),
         NEW m \in MergeRecords, MergeState(first, second, n - 1, m)
  PROVE  /\ MergeNext(first, second, m) \in MergeRecords
         /\ MergeState(first, second, n, MergeNext(first, second, m))
<1> DEFINE x == MergeNext(first, second, m)
<1>1. /\ m.i \in Nat /\ m.j \in Nat /\ m.result \in Seq(Centroid) /\ Len(m.result) = n - 1
      /\ n \in Nat /\ Len(first) \in Nat /\ Len(second) \in Nat
      /\ m.i <= Len(first) /\ m.j <= Len(second) /\ m.i + m.j = n - 1
  BY DEF MergeRecords, MergeState
<1>2. CASE m.j < Len(second) /\ (m.i = Len(first) \/ Before(second[m.j + 1], first[m.i + 1]))
  <2> DEFINE c == second[m.j + 1]
             r == Append(m.result, c)
  <2>1. x = [i |-> m.i, j |-> m.j + 1, result |-> r]
    BY <1>2 DEF MergeNext, MergeRecords
  <2>2. c \in Centroid /\ (Len(m.result) > 0 => NotAbove(m.result[Len(m.result)], c))
    BY <1>1, <1>2, PrefixGrows DEF MergeState
  <2>3. /\ r \in Seq(Centroid) /\ Len(r) = n /\ r[n] = c /\ InOrder(r)
        /\ ToSet(r) = ToSet(m.result) \cup {c}
        /\ WeightOf(r) = WeightOf(m.result) + c.weight
        /\ SumOf(r) = SumOf(m.result) + c.sum
    <3>1. InOrder(m.result) /\ (n - 1) + 1 = n
      BY <1>1 DEF MergeState
    <3> HIDE DEF c
    <3> QED
      BY <1>1, <2>2, <3>1, AppendCentroid
  <2>4. m.i < Len(first) => NotAbove(c, first[m.i + 1])
    <3>1. ASSUME m.i < Len(first) PROVE NotAbove(c, first[m.i + 1])
      <4>1. first[m.i + 1] \in Centroid /\ Before(c, first[m.i + 1])
        BY <1>1, <1>2, <3>1, PrefixGrows
      <4> HIDE DEF c
      <4>2. first[m.i + 1] \in Centroid /\ ~Before(first[m.i + 1], c)
        <5> DEFINE f == first[m.i + 1]
        <5>1. /\ c.sum * f.weight \in Int /\ f.sum * c.weight \in Int
              /\ c.sum * f.weight < f.sum * c.weight
          BY SMTT(30), <2>2, <4>1, CentroidFacts DEF Before
        <5> QED
          BY <4>1, <5>1 DEF Before
      <4> QED
        BY <4>2 DEF NotAbove
    <3> QED
      BY <3>1
  <2>5. m.j + 1 < Len(second) => NotAbove(c, second[(m.j + 1) + 1])
    <3>1. ASSUME m.j + 1 < Len(second) PROVE NotAbove(c, second[(m.j + 1) + 1])
      <4>1. m.j + 2 \in 2..Len(second) /\ (m.j + 2) - 1 = m.j + 1 /\ (m.j + 1) + 1 = m.j + 2
        BY SMTT(30), <1>1, <3>1
      <4> QED
        BY <4>1 DEF InOrder
    <3> QED
      BY <3>1
  <2>6. /\ WeightOf(r) = WeightOf(SubSeq(first, 1, m.i)) + WeightOf(SubSeq(second, 1, m.j + 1))
        /\ SumOf(r) = SumOf(SubSeq(first, 1, m.i)) + SumOf(SubSeq(second, 1, m.j + 1))
        /\ ToSet(r) = ToSet(SubSeq(first, 1, m.i)) \cup ToSet(SubSeq(second, 1, m.j + 1))
    <3> DEFINE p == SubSeq(second, 1, m.j)
               q == SubSeq(second, 1, m.j + 1)
               o == SubSeq(first, 1, m.i)
    <3>1. /\ WeightOf(p) \in Int /\ SumOf(p) \in Int
          /\ WeightOf(q) = WeightOf(p) + c.weight
          /\ SumOf(q) = SumOf(p) + c.sum
          /\ ToSet(q) = ToSet(p) \cup {c}
      BY <1>1, <1>2, PrefixGrows
    <3>2. WeightOf(o) \in Int /\ SumOf(o) \in Int /\ c.weight \in Int /\ c.sum \in Int
      <4>1. o \in Seq(Centroid)
        BY <1>1
      <4> HIDE DEF o, c
      <4> QED
        BY SMTT(30), <2>2, <4>1, SumsOfAppend, CentroidFacts
    <3>3. /\ WeightOf(m.result) = WeightOf(o) + WeightOf(p)
          /\ SumOf(m.result) = SumOf(o) + SumOf(p)
          /\ ToSet(m.result) = ToSet(o) \cup ToSet(p)
      BY DEF MergeState
    <3> HIDE DEF p, q, o, r, c
    <3>4. WeightOf(r) = WeightOf(o) + WeightOf(q)
      BY <2>3, <3>1, <3>2, <3>3
    <3>6. SumOf(r) = SumOf(o) + SumOf(q)
      BY <2>3, <3>1, <3>2, <3>3
    <3>5. ToSet(r) = ToSet(o) \cup ToSet(q)
      BY <2>3, <3>1, <3>3
    <3> QED
      BY <3>4, <3>5, <3>6 DEF p, q, o
  <2>7. m.j + 1 <= Len(second) /\ m.i + (m.j + 1) = n
    <3> HIDE DEF x, c, r
    <3>1. m.j + 1 <= Len(second)
      BY <1>1, <1>2
    <3>2. m.i + (m.j + 1) = n
      <4> DEFINE i == m.i
                 j == m.j
      <4>1. i \in Nat /\ j \in Nat /\ n \in Nat /\ i + j = n - 1
        BY <1>1
      <4> HIDE DEF i, j
      <4>2. i + (j + 1) = n
        BY <4>1, OneMore
      <4> QED
        BY <4>2 DEF i, j
    <3> QED
      BY <3>1, <3>2
  <2> HIDE DEF c, r
  <2>8. x \in MergeRecords
    BY <1>1, <2>1, <2>3 DEF MergeRecords
  <2>9. MergeState(first, second, n, x)
    <3> HIDE DEF x
    <3>1. x.i = m.i /\ x.j = m.j + 1 /\ x.result = r
      BY <2>1
    <3> QED
      BY <1>1, <2>3, <2>4, <2>5, <2>6, <2>7, <3>1 DEF MergeState
  <2> QED
    BY <2>8, <2>9
<1>3. CASE ~(m.j < Len(second) /\ (m.i = Len(first) \/ Before(second[m.j + 1], first[m.i + 1])))
  <2> DEFINE c == first[m.i + 1]
             r == Append(m.result, c)
  <2>0. m.i < Len(first)
    BY <1>1, <1>3
  <2>1. x = [i |-> m.i + 1, j |-> m.j, result |-> r]
    BY <1>3 DEF MergeNext, MergeRecords
  <2>2. c \in Centroid /\ (Len(m.result) > 0 => NotAbove(m.result[Len(m.result)], c))
    BY <1>1, <2>0, PrefixGrows DEF MergeState
  <2>3. /\ r \in Seq(Centroid) /\ Len(r) = n /\ r[n] = c /\ InOrder(r)
        /\ ToSet(r) = ToSet(m.result) \cup {c}
        /\ WeightOf(r) = WeightOf(m.result) + c.weight
        /\ SumOf(r) = SumOf(m.result) + c.sum
    <3>1. InOrder(m.result) /\ (n - 1) + 1 = n
      BY <1>1 DEF MergeState
    <3> HIDE DEF c
    <3> QED
      BY <1>1, <2>2, <3>1, AppendCentroid
  <2>4. m.j < Len(second) => NotAbove(c, second[m.j + 1])
    BY <1>1, <1>3, <2>0 DEF NotAbove
  <2>5. m.i + 1 < Len(first) => NotAbove(c, first[(m.i + 1) + 1])
    <3>1. ASSUME m.i + 1 < Len(first) PROVE NotAbove(c, first[(m.i + 1) + 1])
      <4>1. m.i + 2 \in 2..Len(first) /\ (m.i + 2) - 1 = m.i + 1 /\ (m.i + 1) + 1 = m.i + 2
        BY SMTT(30), <1>1, <3>1
      <4> QED
        BY <4>1 DEF InOrder
    <3> QED
      BY <3>1
  <2>6. /\ WeightOf(r) = WeightOf(SubSeq(first, 1, m.i + 1)) + WeightOf(SubSeq(second, 1, m.j))
        /\ SumOf(r) = SumOf(SubSeq(first, 1, m.i + 1)) + SumOf(SubSeq(second, 1, m.j))
        /\ ToSet(r) = ToSet(SubSeq(first, 1, m.i + 1)) \cup ToSet(SubSeq(second, 1, m.j))
    <3> DEFINE p == SubSeq(first, 1, m.i)
               q == SubSeq(first, 1, m.i + 1)
               o == SubSeq(second, 1, m.j)
    <3>1. /\ WeightOf(p) \in Int /\ SumOf(p) \in Int
          /\ WeightOf(q) = WeightOf(p) + c.weight
          /\ SumOf(q) = SumOf(p) + c.sum
          /\ ToSet(q) = ToSet(p) \cup {c}
      BY <1>1, <2>0, PrefixGrows
    <3>2. WeightOf(o) \in Int /\ SumOf(o) \in Int /\ c.weight \in Int /\ c.sum \in Int
      <4>1. o \in Seq(Centroid)
        BY <1>1
      <4> HIDE DEF o, c
      <4> QED
        BY SMTT(30), <2>2, <4>1, SumsOfAppend, CentroidFacts
    <3>3. /\ WeightOf(m.result) = WeightOf(p) + WeightOf(o)
          /\ SumOf(m.result) = SumOf(p) + SumOf(o)
          /\ ToSet(m.result) = ToSet(p) \cup ToSet(o)
      BY DEF MergeState
    <3> HIDE DEF p, q, o, r, c
    <3>4. WeightOf(r) = WeightOf(q) + WeightOf(o) /\ SumOf(r) = SumOf(q) + SumOf(o)
      BY SMTT(30), <2>3, <3>1, <3>2, <3>3
    <3>5. ToSet(r) = ToSet(q) \cup ToSet(o)
      BY <2>3, <3>1, <3>3
    <3> QED
      BY <3>4, <3>5 DEF p, q, o
  <2>7. m.i + 1 <= Len(first) /\ (m.i + 1) + m.j = n
    <3> HIDE DEF x, c, r
    <3>1. m.i + 1 <= Len(first)
      BY <1>1, <2>0
    <3>2. (m.i + 1) + m.j = n
      <4> DEFINE i == m.i
                 j == m.j
      <4>1. i \in Nat /\ j \in Nat /\ n \in Nat /\ i + j = n - 1
        BY <1>1
      <4> HIDE DEF i, j
      <4>2. (i + 1) + j = n
        BY <4>1, OneMore
      <4> QED
        BY <4>2 DEF i, j
    <3> QED
      BY <3>1, <3>2
  <2> HIDE DEF c, r
  <2>8. x \in MergeRecords
    BY <1>1, <2>1, <2>3 DEF MergeRecords
  <2>9. MergeState(first, second, n, x)
    <3> HIDE DEF x
    <3>1. x.i = m.i + 1 /\ x.j = m.j /\ x.result = r
      BY <2>1
    <3> QED
      BY <1>1, <2>3, <2>4, <2>5, <2>6, <2>7, <3>1 DEF MergeState
  <2> QED
    BY <2>8, <2>9
<1> QED
  BY <1>2, <1>3

(* The steps of a merge, each in its state *)
LEMMA MergingStates ==
  ASSUME NEW first \in Seq(Centroid), NEW second \in Seq(Centroid),
         InOrder(first), InOrder(second)
  PROVE  LET N == Len(first) + Len(second)
             merging == Merging(first, second)
         IN /\ merging[0] = [i |-> 0, j |-> 0, result |-> <<>>]
            /\ \A n \in 1..N : merging[n] = MergeNext(first, second, merging[n - 1])
            /\ \A n \in 0..N : /\ merging[n] \in MergeRecords
                               /\ MergeState(first, second, n, merging[n])
<1> DEFINE N == Len(first) + Len(second)
           T == [n \in 0..N |-> {m \in MergeRecords : MergeState(first, second, n, m)}]
           F == [n \in 1..N |-> [m \in MergeRecords |-> MergeNext(first, second, m)]]
           b == [i |-> 0, j |-> 0, result |-> <<>>]
           merging == Merging(first, second)
<1>1. N \in Nat /\ \A n \in 1..N : n - 1 \in 0..N /\ n \in 0..N /\ n # 0
  OBVIOUS
<1>2. b \in T[0]
  <2>1. b \in MergeRecords /\ 0 \in 0..N
    BY <1>1 DEF MergeRecords
  <2>2. ToSet(<<>>) = {} /\ InOrder(<<>>)
    BY DEF ToSet, InOrder
  <2>3. b.i = 0 /\ b.j = 0 /\ b.result = <<>>
    OBVIOUS
  <2>4. SubSeq(first, 1, 0) = <<>> /\ SubSeq(second, 1, 0) = <<>>
    BY EmptyPrefix
  <2>5. Len(first) \in Nat /\ Len(second) \in Nat
    OBVIOUS
  <2>6. MergeState(first, second, 0, b)
    <3> HIDE DEF b
    <3>1. b.i <= Len(first) /\ b.j <= Len(second) /\ b.i + b.j = 0 /\ Len(b.result) = 0
      BY <2>3, <2>5
    <3>2. InOrder(b.result)
      BY <2>2, <2>3
    <3>3. /\ WeightOf(b.result) =
               WeightOf(SubSeq(first, 1, b.i)) + WeightOf(SubSeq(second, 1, b.j))
          /\ SumOf(b.result) = SumOf(SubSeq(first, 1, b.i)) + SumOf(SubSeq(second, 1, b.j))
      <4>1. SubSeq(first, 1, b.i) = <<>> /\ SubSeq(second, 1, b.j) = <<>> /\ b.result = <<>>
        BY <2>3, <2>4
      <4>2. /\ WeightOf(<<>>) = WeightOf(<<>>) + WeightOf(<<>>)
            /\ SumOf(<<>>) = SumOf(<<>>) + SumOf(<<>>)
        BY SumsOfEmpty
      <4> QED
        BY <4>1, <4>2, Zenon
    <3>4. ToSet(b.result) = ToSet(SubSeq(first, 1, b.i)) \cup ToSet(SubSeq(second, 1, b.j))
      BY <2>2, <2>3, <2>4
    <3>5. ~(0 > 0)
      OBVIOUS
    <3> QED
      BY <3>1, <3>2, <3>3, <3>4, <3>5, Zenon DEF MergeState
  <2> QED
    BY <2>1, <2>6
<1>3. \A n \in 1..N : \A m \in T[n - 1] : /\ m \in MergeRecords
                                          /\ MergeNext(first, second, m) \in T[n]
  BY <1>1, MergeStep
<1>4. \A n \in 1..N : \A m \in T[n - 1] : F[n][m] = MergeNext(first, second, m)
  BY <1>3
<1>5. IsLoop(N, b, F, T)
  <2> HIDE DEF N, T, F, b
  <2> QED
    BY <1>2, <1>3, <1>4 DEF IsLoop
<1>6. PICK g : /\ g = [n \in 0..N |-> g[n]]
               /\ g[0] = b
               /\ \A n \in 1..N : g[n] = F[n][g[n - 1]]
               /\ \A n \in 0..N : g[n] \in T[n]
  <2> HIDE DEF N, T, F, b
  <2> QED
    BY <1>1, <1>5, Loop
<1>7. g = [n \in 0..N |-> IF n = 0 THEN b ELSE MergeNext(first, second, g[n - 1])]
  <2>1. \A n \in 0..N : n # 0 => n \in 1..N /\ n - 1 \in 0..N
    BY <1>1
  <2> HIDE DEF N, T, F, b
  <2> QED
    BY <1>4, <1>6, <2>1
<1>8. merging = [n \in 0..N |-> IF n = 0 THEN b ELSE MergeNext(first, second, merging[n - 1])]
  BY <1>7, Zenon DEF Merging
<1>9. \A n \in 0..N : merging[n] \in T[n]
  <2> HIDE DEF N, T, F, b, merging
  <2>1. merging[0] \in T[0]
    BY <1>1, <1>2, <1>8
  <2>2. \A n \in 1..N : merging[n - 1] \in T[n - 1] => merging[n] \in T[n]
    BY <1>1, <1>3, <1>8
  <2> QED
    BY <1>1, <2>1, <2>2, LoopInvariant
<1>10. merging[0] = b /\ \A n \in 1..N : merging[n] = MergeNext(first, second, merging[n - 1])
  <2> HIDE DEF N, b, merging
  <2> QED
    BY <1>1, <1>8
<1>11. \A n \in 0..N : merging[n] \in MergeRecords /\ MergeState(first, second, n, merging[n])
  <2> HIDE DEF merging
  <2> QED
    BY <1>9
<1> HIDE DEF merging
<1> QED
  BY <1>10, <1>11 DEF merging

(* Merging two sequences in order neither loses nor makes weight. *)
LEMMA MergedFacts ==
  ASSUME NEW first \in Seq(Centroid), NEW second \in Seq(Centroid),
         InOrder(first), InOrder(second)
  PROVE  LET r == Merged(first, second) IN
         /\ r \in Seq(Centroid) /\ Len(r) = Len(first) + Len(second)
         /\ InOrder(r)
         /\ WeightOf(r) = WeightOf(first) + WeightOf(second)
         /\ SumOf(r) = SumOf(first) + SumOf(second)
         /\ ToSet(r) = ToSet(first) \cup ToSet(second)
<1> DEFINE N == Len(first) + Len(second)
           merging == Merging(first, second)
<1>1. N \in Nat /\ N \in 0..N
  OBVIOUS
<1>2. /\ merging[N] \in MergeRecords
      /\ MergeState(first, second, N, merging[N])
  BY <1>1, MergingStates
<1> HIDE DEF merging
<1>3. /\ merging[N].i \in Nat /\ merging[N].j \in Nat
      /\ merging[N].i = Len(first) /\ merging[N].j = Len(second)
  BY <1>2 DEF MergeRecords, MergeState
<1>4. Merged(first, second) = merging[N].result
  BY DEF Merged, merging
<1> QED
  BY <1>2, <1>3, <1>4, EmptyPrefix DEF MergeRecords, MergeState
-----------------------------------------------------------------------------
(* Sorting *)
LEMMA OneCentroid ==
  ASSUME NEW c \in Centroid
  PROVE  /\ <<c>> \in Seq(Centroid) /\ Len(<<c>>) = 1 /\ InOrder(<<c>>)
         /\ WeightOf(<<c>>) = c.weight /\ SumOf(<<c>>) = c.sum /\ ToSet(<<c>>) = {c}
<1>1. <<>> \in Seq(Centroid) /\ Append(<<>>, c) = <<c>> /\ Len(<<>>) = 0
  OBVIOUS
<1>2. c.weight \in Int /\ c.sum \in Int
  BY CentroidFacts
<1>3. WeightOf(<<c>>) = 0 + c.weight /\ SumOf(<<c>>) = 0 + c.sum
  <2>1. /\ WeightOf(Append(<<>>, c)) = WeightOf(<<>>) + c.weight
        /\ SumOf(Append(<<>>, c)) = SumOf(<<>>) + c.sum
    BY <1>1, SumsOfAppend
  <2> QED
    BY <1>1, <2>1, SumsOfEmpty
<1>4. <<c>> \in Seq(Centroid) /\ Len(<<c>>) = 1 /\ InOrder(<<c>>)
  BY DEF InOrder
<1>5. ToSet(<<c>>) = {c}
  BY DEF ToSet
<1> QED
  BY <1>2, <1>3, <1>4, <1>5

SortState(values, n, r) ==
  /\ Len(r) = n
  /\ InOrder(r)
  /\ WeightOf(r) = n
  /\ SumOf(r) = Totals(values)[n]
  /\ ToSet(r) = {Single(values[i]) : i \in 1..n}

SortNext(values, n, r) == Merged(r, <<Single(values[n])>>)

LEMMA SortStep ==
  ASSUME NEW values \in Seq(Int), NEW n \in 1..Len(values),
         NEW r \in Seq(Centroid), SortState(values, n - 1, r)
  PROVE  /\ SortNext(values, n, r) \in Seq(Centroid)
         /\ SortState(values, n, SortNext(values, n, r))
<1> DEFINE v == values[n]
           c == Single(v)
           s == <<c>>
           x == Merged(r, s)
<1>1. v \in Int /\ n \in Nat /\ Len(values) \in Nat
  OBVIOUS
<1>2. c \in Centroid /\ c.weight = 1 /\ c.sum = v
  <2> HIDE DEF v
  <2> QED
    BY <1>1, CentroidFacts
<1> HIDE DEF c
<1>3. /\ s \in Seq(Centroid) /\ Len(s) = 1 /\ InOrder(s)
      /\ WeightOf(s) = 1 /\ SumOf(s) = v /\ ToSet(s) = {c}
  BY <1>2, OneCentroid
<1> HIDE DEF s, v
<1>4. /\ x \in Seq(Centroid) /\ Len(x) = Len(r) + 1 /\ InOrder(x)
      /\ WeightOf(x) = WeightOf(r) + 1 /\ SumOf(x) = SumOf(r) + v
      /\ ToSet(x) = ToSet(r) \cup {c}
  BY <1>3, MergedFacts DEF SortState
<1>5. Totals(values)[n] = Totals(values)[n - 1] + v
  <2>1. n \in 0..Len(values) /\ n # 0
    BY <1>1
  <2> QED
    BY <2>1, TotalsEquation DEF v
<1>6. 1..n = 1..(n - 1) \cup {n}
  BY <1>1
<1>7. ToSet(x) = {Single(values[i]) : i \in 1..n}
  BY <1>4, <1>6 DEF SortState, c, v
<1>8. (n - 1) + 1 = n
  BY <1>1
<1>9. x = SortNext(values, n, r)
  BY DEF SortNext, s, c, v
<1> HIDE DEF x
<1> QED
  BY <1>4, <1>5, <1>7, <1>8, <1>9 DEF SortState

LEMMA SortingStates ==
  ASSUME NEW values \in Seq(Int)
  PROVE  LET N == Len(values)
             sorting == Sorting(values)
         IN /\ sorting[0] = <<>>
            /\ \A n \in 1..N : sorting[n] = SortNext(values, n, sorting[n - 1])
            /\ \A n \in 0..N : sorting[n] \in Seq(Centroid) /\ SortState(values, n, sorting[n])
<1> DEFINE N == Len(values)
           T == [n \in 0..N |-> {r \in Seq(Centroid) : SortState(values, n, r)}]
           F == [n \in 1..N |-> [r \in Seq(Centroid) |-> SortNext(values, n, r)]]
           sorting == Sorting(values)
<1>1. N \in Nat /\ \A n \in 1..N : n - 1 \in 0..N /\ n \in 0..N /\ n # 0
  OBVIOUS
<1>2. <<>> \in T[0]
  <2>1. <<>> \in Seq(Centroid) /\ 0 \in 0..N /\ Len(<<>>) = 0
    BY <1>1
  <2>2. ToSet(<<>>) = {} /\ InOrder(<<>>)
    BY DEF ToSet, InOrder
  <2>3. Totals(values)[0] = 0
    BY <2>1, TotalsEquation
  <2>4. {Single(values[i]) : i \in 1..0} = {}
    OBVIOUS
  <2>5. SortState(values, 0, <<>>)
    BY <2>1, <2>2, <2>3, <2>4, SumsOfEmpty DEF SortState
  <2> QED
    BY <2>1, <2>5
<1>3. \A n \in 1..N : \A r \in T[n - 1] : /\ r \in Seq(Centroid)
                                          /\ SortNext(values, n, r) \in T[n]
  BY <1>1, SortStep
<1>4. \A n \in 1..N : \A r \in T[n - 1] : F[n][r] = SortNext(values, n, r)
  BY <1>3
<1>5. IsLoop(N, <<>>, F, T)
  <2> HIDE DEF N, T, F
  <2> QED
    BY <1>2, <1>3, <1>4 DEF IsLoop
<1>6. PICK g : /\ g = [n \in 0..N |-> g[n]]
               /\ g[0] = <<>>
               /\ \A n \in 1..N : g[n] = F[n][g[n - 1]]
               /\ \A n \in 0..N : g[n] \in T[n]
  <2> HIDE DEF N, T, F
  <2> QED
    BY <1>1, <1>5, Loop
<1>7. g = [n \in 0..N |-> IF n = 0 THEN <<>> ELSE SortNext(values, n, g[n - 1])]
  <2>1. \A n \in 0..N : n # 0 => n \in 1..N /\ n - 1 \in 0..N
    BY <1>1
  <2> HIDE DEF N, T, F
  <2> QED
    BY <1>4, <1>6, <2>1
<1>8. sorting = [n \in 0..N |-> IF n = 0 THEN <<>> ELSE SortNext(values, n, sorting[n - 1])]
  BY <1>7, Zenon DEF Sorting, SortNext
<1>9. \A n \in 0..N : sorting[n] \in T[n]
  <2> HIDE DEF N, T, F, sorting
  <2>1. sorting[0] \in T[0]
    BY <1>1, <1>2, <1>8
  <2>2. \A n \in 1..N : sorting[n - 1] \in T[n - 1] => sorting[n] \in T[n]
    BY <1>1, <1>3, <1>8
  <2> QED
    BY <1>1, <2>1, <2>2, LoopInvariant
<1>10. sorting[0] = <<>> /\ \A n \in 1..N : sorting[n] = SortNext(values, n, sorting[n - 1])
  <2> HIDE DEF N, sorting
  <2> QED
    BY <1>1, <1>8
<1>11. \A n \in 0..N : sorting[n] \in Seq(Centroid) /\ SortState(values, n, sorting[n])
  <2> HIDE DEF sorting
  <2> QED
    BY <1>9
<1> HIDE DEF sorting
<1> QED
  BY <1>10, <1>11 DEF sorting

LEMMA SortedFacts ==
  ASSUME NEW values \in Seq(Int)
  PROVE  /\ Sorted(values) \in Seq(Centroid)
         /\ Len(Sorted(values)) = Len(values)
         /\ InOrder(Sorted(values))
         /\ WeightOf(Sorted(values)) = Len(values)
         /\ SumOf(Sorted(values)) = Total(values)
         /\ ToSet(Sorted(values)) = {Single(values[i]) : i \in 1..Len(values)}
<1> DEFINE N == Len(values)
           sorting == Sorting(values)
<1>1. N \in Nat /\ N \in 0..N
  OBVIOUS
<1>2. sorting[N] \in Seq(Centroid) /\ SortState(values, N, sorting[N])
  BY <1>1, SortingStates
<1> QED
  BY <1>2 DEF SortState, Sorted, Total
-----------------------------------------------------------------------------
(* Compression *)

(* The weight of the first k centroids is at most that of all. *)
LEMMA PrefixWeight ==
  ASSUME NEW cs \in Seq(Centroid), NEW k \in 0..Len(cs)
  PROVE  WeightOf(SubSeq(cs, 1, k)) <= WeightOf(cs)
<1> DEFINE N == Len(cs) - k
           g == [n \in 0..N |-> WeightOf(SubSeq(cs, 1, k + n))]
           T == [n \in 0..N |-> {w \in Int : WeightOf(SubSeq(cs, 1, k)) <= w}]
<1>1. N \in Nat /\ k \in Nat /\ Len(cs) \in Nat /\ k + 0 = k /\ k + N = Len(cs)
  OBVIOUS
<1>2. WeightOf(SubSeq(cs, 1, k)) \in Int
  <2>1. SubSeq(cs, 1, k) \in Seq(Centroid) /\ Single(0) \in Centroid
    BY CentroidFacts
  <2> QED
    BY <2>1, SumsOfAppend
<1>3. g[0] \in T[0]
  <2>1. 0 \in 0..N
    BY <1>1
  <2> QED
    BY <1>1, <1>2, <2>1
<1>4. ASSUME NEW n \in 1..N, g[n - 1] \in T[n - 1]
      PROVE  g[n] \in T[n]
  <2> DEFINE i == k + (n - 1)
  <2>1. i \in Nat /\ i < Len(cs) /\ k + n = i + 1 /\ n \in 0..N /\ n - 1 \in 0..N
    BY <1>1
  <2> HIDE DEF i
  <2>2. /\ cs[i + 1].weight \in Nat
        /\ WeightOf(SubSeq(cs, 1, i)) \in Int
        /\ WeightOf(SubSeq(cs, 1, i + 1)) = WeightOf(SubSeq(cs, 1, i)) + cs[i + 1].weight
    BY <2>1, PrefixGrows, CentroidFacts
  <2>3. g[n] = WeightOf(SubSeq(cs, 1, i + 1)) /\ g[n - 1] = WeightOf(SubSeq(cs, 1, i))
    BY <2>1 DEF i
  <2>4. WeightOf(SubSeq(cs, 1, k)) <= WeightOf(SubSeq(cs, 1, i))
    BY <1>4, <2>1, <2>3
  <2>5. /\ WeightOf(SubSeq(cs, 1, i + 1)) \in Int
        /\ WeightOf(SubSeq(cs, 1, k)) <= WeightOf(SubSeq(cs, 1, i + 1))
    BY <1>2, <2>2, <2>4
  <2> HIDE DEF g
  <2> QED
    BY <2>1, <2>3, <2>5
<1>5. \A n \in 0..N : g[n] \in T[n]
  <2> HIDE DEF N, g, T
  <2> QED
    BY <1>1, <1>3, <1>4, LoopInvariant
<1>6. g[N] \in T[N] /\ g[N] = WeightOf(SubSeq(cs, 1, Len(cs))) /\ N \in 0..N
  BY <1>1, <1>5
<1>7. g[N] = WeightOf(cs)
  BY <1>6, EmptyPrefix
<1> HIDE DEF g
<1> QED
  BY <1>6, <1>7

(* All the weight is within the last limit. *)
LEMMA LastLimit ==
  ASSUME NEW weight \in Int, NEW count \in Int, weight <= count, NEW size \in Nat \ {0}
  PROVE  WithinLimit(weight, size, size, count)
<1>1. 2 * size >= size /\ size - size = 0
  OBVIOUS
<1>2. size * size - 2 * 0 * 0 = size * size
  BY Z3
<1>3. (weight * size) * size <= count * (size * size)
  BY Z3
<1> QED
  BY <1>1, <1>2, <1>3 DEF WithinLimit

LEMMA GreaterOfTwo ==
  ASSUME NEW a \in Int, NEW b \in Int
  PROVE  Max({a, b}) = IF a >= b THEN a ELSE b
BY DEF Max

LEMMA LesserOfTwo ==
  ASSUME NEW a \in Int, NEW b \in Int
  PROVE  Min({a, b}) = IF a <= b THEN a ELSE b
BY DEF Min

JoinRecords == [done : Seq(Centroid), curr : Centroid, weight : Int]

JoinState(cs, most, lo, hi, n, a) ==
  /\ a.weight = WeightOf(SubSeq(cs, 1, n + 1))
  /\ WeightOf(a.done) + a.curr.weight = a.weight
  /\ SumOf(a.done) + a.curr.sum = SumOf(SubSeq(cs, 1, n + 1))
  /\ InOrder(a.done)
  /\ Len(a.done) > 0 => NotAbove(a.done[Len(a.done)], a.curr)
  /\ NotAbove(a.curr, cs[n + 1])
  /\ Len(a.done) + 1 <= most
  /\ Between(a.curr, lo, hi)
  /\ \A c \in ToSet(a.done) : Between(c, lo, hi)

JoinNext(cs, size, count, repeated, n, a) == Join(a, cs[n + 1], size, count, repeated)

LEMMA JoinStep ==
  ASSUME NEW cs \in Seq(Centroid), InOrder(cs),
         NEW size \in Nat \ {0}, NEW repeated \in Nat,
         NEW count \in Int, WeightOf(cs) <= count,
         NEW lo \in Int, NEW hi \in Int, \A c \in ToSet(cs) : Between(c, lo, hi),
         NEW n \in 1..(Len(cs) - 1),
         NEW a \in JoinRecords, JoinState(cs, size + repeated, lo, hi, n - 1, a)
  PROVE  /\ JoinNext(cs, size, count, repeated, n, a) \in JoinRecords
         /\ JoinState(cs, size + repeated, lo, hi, n, JoinNext(cs, size, count, repeated, n, a))
<1> DEFINE x == JoinNext(cs, size, count, repeated, n, a)
           c == cs[n + 1]
           w == a.weight + c.weight
           p == SubSeq(cs, 1, n)
           q == SubSeq(cs, 1, n + 1)
           k == Max({1, Len(a.done) + 1 - repeated})
<1>1. /\ n \in Nat /\ n < Len(cs) /\ Len(cs) \in Nat /\ (n - 1) + 1 = n
      /\ n + 1 \in 0..Len(cs) /\ n + 1 \in 2..Len(cs) /\ (n + 1) - 1 = n
      /\ n + 1 \in DOMAIN cs
  OBVIOUS
<1>2. /\ c \in Centroid /\ WeightOf(p) \in Int /\ SumOf(p) \in Int
      /\ WeightOf(q) = WeightOf(p) + c.weight
      /\ SumOf(q) = SumOf(p) + c.sum
  BY <1>1, PrefixGrows
<1>3. WeightOf(q) <= WeightOf(cs)
  BY <1>1, PrefixWeight
<1>4. Between(c, lo, hi) /\ cs[n] \in Centroid /\ NotAbove(cs[n], c)
  <2>1. c \in ToSet(cs)
    BY <1>1 DEF ToSet
  <2>2. cs[n] \in Centroid
    BY <1>1
  <2> QED
    BY <1>1, <2>1, <2>2 DEF InOrder
<1>5. /\ a.done \in Seq(Centroid) /\ Len(a.done) \in Nat /\ a.curr \in Centroid
      /\ a.weight \in Int /\ c.weight \in Int /\ c.sum \in Int
      /\ a.curr.weight \in Int /\ a.curr.sum \in Int
      /\ WeightOf(a.done) \in Int /\ SumOf(a.done) \in Int
  <2>1. a.done \in Seq(Centroid) /\ a.curr \in Centroid /\ a.weight \in Int
    BY DEF JoinRecords
  <2> HIDE DEF x, c, w, p, q, k
  <2>2. WeightOf(a.done) \in Int /\ SumOf(a.done) \in Int
    BY <2>1, SumsOfAppend
  <2>3. c.weight \in Int /\ c.sum \in Int
    BY <1>2, CentroidFacts
  <2>4. a.curr.weight \in Int /\ a.curr.sum \in Int
    BY <2>1, CentroidFacts
  <2>5. Len(a.done) \in Nat
    BY <2>1
  <2> QED
    BY <2>1, <2>2, <2>3, <2>4, <2>5
<1>6. /\ a.weight = WeightOf(p)
      /\ WeightOf(a.done) + a.curr.weight = WeightOf(p)
      /\ SumOf(a.done) + a.curr.sum = SumOf(p)
      /\ InOrder(a.done)
      /\ Len(a.done) > 0 => NotAbove(a.done[Len(a.done)], a.curr)
      /\ NotAbove(a.curr, cs[n])
      /\ Len(a.done) + 1 <= size + repeated
      /\ Between(a.curr, lo, hi)
      /\ \A e \in ToSet(a.done) : Between(e, lo, hi)
  BY <1>1 DEF JoinState
<1>7. NotAbove(a.curr, c)
  BY <1>2, <1>4, <1>5, <1>6, NotAboveIsTransitive
<1>8. w = WeightOf(q) /\ w \in Int /\ w <= count
  <2> DEFINE v == WeightOf(p)
             u == WeightOf(q)
             g == c.weight
  <2>1. v \in Int /\ g \in Int /\ u = v + g
    BY <1>2, <1>5
  <2>2. w = v + g
    BY <1>6
  <2>3. WeightOf(cs) \in Int
    BY <1>2, SumsOfAppend
  <2>4. u <= WeightOf(cs)
    BY <1>3
  <2> HIDE DEF v, u, g, w
  <2>5. w = u /\ w \in Int
    BY <2>1, <2>2
  <2>6. w <= count
    BY <2>3, <2>4, <2>5
  <2> QED
    BY <2>5, <2>6 DEF u
<1>9. CASE WithinLimit(w, k, size, count)
  <2> DEFINE e == Add(a.curr, c)
  <2>1. x = [done |-> a.done, curr |-> e, weight |-> w]
    BY <1>9 DEF JoinNext, Join, JoinRecords
  <2>2. e \in Centroid /\ e.sum = a.curr.sum + c.sum /\ e.weight = a.curr.weight + c.weight
    BY <1>2, <1>5, CentroidFacts
  <2>3. NotAbove(a.curr, e) /\ NotAbove(e, c)
    BY <1>2, <1>5, <1>7, Mediant
  <2>4. Between(e, lo, hi)
    BY <1>2, <1>4, <1>5, <1>6, BetweenOfAdd
  <2> HIDE DEF e, c, w, p, q, k
  <2>5. Len(a.done) > 0 => NotAbove(a.done[Len(a.done)], e)
    <3>1. ASSUME Len(a.done) > 0 PROVE NotAbove(a.done[Len(a.done)], e)
      <4>1. a.done[Len(a.done)] \in Centroid
        BY <1>5, <3>1
      <4> QED
        BY <1>5, <1>6, <2>2, <2>3, <3>1, <4>1, NotAboveIsTransitive
    <3> QED
      BY <3>1
  <2>6. WeightOf(a.done) + e.weight = w /\ SumOf(a.done) + e.sum = SumOf(q)
    <3> DEFINE dw == WeightOf(a.done)
               ds == SumOf(a.done)
               aw == a.curr.weight
               az == a.curr.sum
               cw == c.weight
               cz == c.sum
               ew == e.weight
               es == e.sum
               qs == SumOf(q)
    <3>1. /\ dw \in Int /\ ds \in Int /\ aw \in Int /\ az \in Int /\ cw \in Int /\ cz \in Int
          /\ w = (dw + aw) + cw /\ qs = (ds + az) + cz
          /\ ew = aw + cw /\ es = az + cz
      BY <1>2, <1>5, <1>6, <1>8, <2>2
    <3> HIDE DEF dw, ds, aw, az, cw, cz, ew, es, qs
    <3>2. dw + ew = w /\ ds + es = qs
      BY <3>1
    <3> QED
      BY <3>2 DEF dw, ds, ew, es, qs
  <2>7. x \in JoinRecords
    BY <1>5, <1>8, <2>1, <2>2 DEF JoinRecords
  <2>8. x.done = a.done /\ x.curr = e /\ x.weight = w
    BY <2>1
  <2> HIDE DEF x
  <2>9. JoinState(cs, size + repeated, lo, hi, n, x)
    BY <1>6, <1>8, <2>3, <2>4, <2>5, <2>6, <2>8 DEF JoinState, q, c
  <2> QED
    BY <2>7, <2>9 DEF x
<1>10. CASE ~WithinLimit(w, k, size, count)
  <2> DEFINE d == Append(a.done, a.curr)
  <2>1. x = [done |-> d, curr |-> c, weight |-> w]
    BY <1>10 DEF JoinNext, Join, JoinRecords
  <2>2. /\ d \in Seq(Centroid) /\ Len(d) = Len(a.done) + 1 /\ d[Len(a.done) + 1] = a.curr
        /\ InOrder(d)
        /\ ToSet(d) = ToSet(a.done) \cup {a.curr}
        /\ WeightOf(d) = WeightOf(a.done) + a.curr.weight
        /\ SumOf(d) = SumOf(a.done) + a.curr.sum
    BY <1>5, <1>6, AppendCentroid
  <2>3. Len(a.done) + 1 # size + repeated
    <3> SUFFICES ASSUME Len(a.done) + 1 = size + repeated PROVE FALSE
      OBVIOUS
    <3>1. Len(a.done) + 1 - repeated = size
      BY <1>5
    <3>2. k = size
      BY <3>1, GreaterOfTwo
    <3> QED
      BY <1>8, <1>10, <3>2, LastLimit
  <2>4. Len(d) + 1 <= size + repeated
    BY <1>5, <1>6, <2>2, <2>3
  <2> HIDE DEF d, c, w, p, q, k
  <2>5. \A e \in ToSet(d) : Between(e, lo, hi)
    BY <1>6, <2>2
  <2>6. WeightOf(d) + c.weight = w /\ SumOf(d) + c.sum = SumOf(q)
    BY <1>2, <1>5, <1>6, <1>8, <2>2
  <2>7. x \in JoinRecords
    BY <1>2, <1>8, <2>1, <2>2 DEF JoinRecords
  <2>8. x.done = d /\ x.curr = c /\ x.weight = w
    BY <2>1
  <2>9. NotAbove(c, c)
    <3>1. c.sum * c.weight \in Int
      BY <1>5
    <3> QED
      BY <1>2, <3>1, NotAboveIsProducts
  <2> HIDE DEF x
  <2>10. JoinState(cs, size + repeated, lo, hi, n, x)
    BY <1>4, <1>7, <1>8, <2>2, <2>4, <2>5, <2>6, <2>8, <2>9 DEF JoinState, q, c
  <2> QED
    BY <2>7, <2>10 DEF x
<1> QED
  BY <1>9, <1>10

(* The steps of a compression, each in its state *)
LEMMA JoiningStates ==
  ASSUME NEW cs \in Seq(Centroid), cs # <<>>, InOrder(cs),
         NEW size \in Nat \ {0}, NEW repeated \in Nat,
         NEW count \in Int, WeightOf(cs) <= count,
         NEW lo \in Int, NEW hi \in Int, \A c \in ToSet(cs) : Between(c, lo, hi)
  PROVE  LET N == Len(cs) - 1
             joining == Joining(cs, size, count, repeated)
         IN /\ joining[0] = [done |-> <<>>, curr |-> cs[1], weight |-> cs[1].weight]
            /\ \A n \in 1..N :
                 joining[n] = JoinNext(cs, size, count, repeated, n, joining[n - 1])
            /\ \A n \in 0..N : /\ joining[n] \in JoinRecords
                               /\ JoinState(cs, size + repeated, lo, hi, n, joining[n])
<1> DEFINE N == Len(cs) - 1
           most == size + repeated
           T == [n \in 0..N |-> {a \in JoinRecords : JoinState(cs, most, lo, hi, n, a)}]
           F == [n \in 1..N |->
                   [a \in JoinRecords |-> JoinNext(cs, size, count, repeated, n, a)]]
           b == [done |-> <<>>, curr |-> cs[1], weight |-> cs[1].weight]
           joining == Joining(cs, size, count, repeated)
<1>1. /\ N \in Nat /\ N + 1 = Len(cs) /\ 0 + 1 = 1 /\ 0 \in Nat /\ 0 < Len(cs)
      /\ \A n \in 1..N : n - 1 \in 0..N /\ n \in 0..N /\ n # 0
      /\ 1 \in DOMAIN cs
  OBVIOUS
<1>2. b \in T[0]
  <2> DEFINE c == cs[1]
  <2>1. c \in Centroid /\ c.weight \in Int /\ c.sum \in Int
    BY <1>1, CentroidFacts
  <2>2. WeightOf(SubSeq(cs, 1, 1)) = c.weight /\ SumOf(SubSeq(cs, 1, 1)) = c.sum
    <3>1. /\ WeightOf(SubSeq(cs, 1, 0 + 1)) = WeightOf(SubSeq(cs, 1, 0)) + cs[0 + 1].weight
          /\ SumOf(SubSeq(cs, 1, 0 + 1)) = SumOf(SubSeq(cs, 1, 0)) + cs[0 + 1].sum
      BY <1>1, PrefixGrows
    <3>2. WeightOf(SubSeq(cs, 1, 0)) = 0 /\ SumOf(SubSeq(cs, 1, 0)) = 0
      BY EmptyPrefix, SumsOfEmpty
    <3> HIDE DEF c
    <3> QED
      BY <1>1, <2>1, <3>1, <3>2 DEF c
  <2>3. Between(c, lo, hi)
    <3>1. c \in ToSet(cs)
      BY <1>1 DEF ToSet
    <3> QED
      BY <3>1
  <2>4. NotAbove(c, c)
    <3>1. c.sum * c.weight \in Int
      BY <2>1
    <3> QED
      BY <2>1, <3>1, NotAboveIsProducts
  <2>5. ToSet(<<>>) = {} /\ InOrder(<<>>) /\ Len(<<>>) = 0
    BY DEF ToSet, InOrder
  <2>6. b \in JoinRecords /\ b.done = <<>> /\ b.curr = c /\ b.weight = c.weight
    BY <2>1 DEF JoinRecords
  <2>7. 0 + 1 <= most /\ 0 + c.weight = c.weight /\ 0 + c.sum = c.sum
    BY <2>1
  <2>8. 0 \in 0..N
    BY <1>1
  <2> HIDE DEF b, most
  <2>9. JoinState(cs, most, lo, hi, 0, b)
    <3>1. b.weight = WeightOf(SubSeq(cs, 1, 0 + 1))
      BY <1>1, <2>2, <2>6
    <3>2. /\ WeightOf(b.done) + b.curr.weight = b.weight
          /\ SumOf(b.done) + b.curr.sum = SumOf(SubSeq(cs, 1, 0 + 1))
      <4>1. WeightOf(b.done) = 0 /\ SumOf(b.done) = 0
        BY <2>6, SumsOfEmpty
      <4> HIDE DEF c
      <4> QED
        BY <1>1, <2>2, <2>6, <2>7, <4>1
    <3>3. /\ InOrder(b.done) /\ ~(Len(b.done) > 0) /\ Len(b.done) + 1 <= most
          /\ \A e \in ToSet(b.done) : Between(e, lo, hi)
      BY <2>5, <2>6, <2>7
    <3>4. NotAbove(b.curr, cs[0 + 1]) /\ Between(b.curr, lo, hi)
      BY <1>1, <2>3, <2>4, <2>6
    <3> QED
      BY <3>1, <3>2, <3>3, <3>4, Zenon DEF JoinState
  <2> QED
    BY <2>6, <2>8, <2>9
<1>3. \A n \in 1..N : \A a \in T[n - 1] : /\ a \in JoinRecords
                                          /\ JoinNext(cs, size, count, repeated, n, a) \in T[n]
  BY <1>1, JoinStep
<1>4. \A n \in 1..N : \A a \in T[n - 1] : F[n][a] = JoinNext(cs, size, count, repeated, n, a)
  BY <1>3
<1>5. IsLoop(N, b, F, T)
  <2> HIDE DEF N, T, F, b
  <2> QED
    BY <1>2, <1>3, <1>4 DEF IsLoop
<1>6. PICK g : /\ g = [n \in 0..N |-> g[n]]
               /\ g[0] = b
               /\ \A n \in 1..N : g[n] = F[n][g[n - 1]]
               /\ \A n \in 0..N : g[n] \in T[n]
  <2> HIDE DEF N, T, F, b
  <2> QED
    BY <1>1, <1>5, Loop
<1>7. g = [n \in 0..N |-> IF n = 0 THEN b ELSE JoinNext(cs, size, count, repeated, n, g[n - 1])]
  <2>1. \A n \in 0..N : n # 0 => n \in 1..N /\ n - 1 \in 0..N
    BY <1>1
  <2> HIDE DEF N, T, F, b
  <2> QED
    BY <1>4, <1>6, <2>1
<1>8. joining = [n \in 0..N |-> IF n = 0 THEN b
                                ELSE JoinNext(cs, size, count, repeated, n, joining[n - 1])]
  BY <1>7, Zenon DEF Joining, JoinNext
<1>9. \A n \in 0..N : joining[n] \in T[n]
  <2> HIDE DEF N, T, F, b, joining
  <2>1. joining[0] \in T[0]
    BY <1>1, <1>2, <1>8
  <2>2. \A n \in 1..N : joining[n - 1] \in T[n - 1] => joining[n] \in T[n]
    BY <1>1, <1>3, <1>8
  <2> QED
    BY <1>1, <2>1, <2>2, LoopInvariant
<1>10. /\ joining[0] = b
       /\ \A n \in 1..N : joining[n] = JoinNext(cs, size, count, repeated, n, joining[n - 1])
  <2> HIDE DEF N, b, joining
  <2> QED
    BY <1>1, <1>8
<1>11. \A n \in 0..N : joining[n] \in JoinRecords /\ JoinState(cs, most, lo, hi, n, joining[n])
  <2> HIDE DEF joining
  <2> QED
    BY <1>9
<1> HIDE DEF joining
<1> QED
  BY <1>10, <1>11 DEF joining

(* Compression keeps the weight, the sum and the order, and ends within the size. *)
LEMMA CompressedFacts ==
  ASSUME NEW cs \in Seq(Centroid), cs # <<>>, InOrder(cs),
         NEW size \in Nat \ {0}, NEW repeated \in Nat,
         NEW count \in Int, WeightOf(cs) <= count,
         NEW lo \in Int, NEW hi \in Int, \A c \in ToSet(cs) : Between(c, lo, hi)
  PROVE  LET r == Compressed(cs, size, count, repeated) IN
         /\ r \in Seq(Centroid) /\ r # <<>> /\ Len(r) <= size + repeated
         /\ InOrder(r)
         /\ WeightOf(r) = WeightOf(cs)
         /\ SumOf(r) = SumOf(cs)
         /\ \A c \in ToSet(r) : Between(c, lo, hi)
<1> DEFINE N == Len(cs) - 1
           most == size + repeated
           joining == Joining(cs, size, count, repeated)
           a == joining[N]
<1>1. N \in Nat /\ N + 1 = Len(cs) /\ N \in 0..N
  OBVIOUS
<1>2. a \in JoinRecords /\ JoinState(cs, most, lo, hi, N, a)
  BY <1>1, JoiningStates
<1>3. Compressed(cs, size, count, repeated) = Append(a.done, a.curr)
  BY DEF Compressed
<1> HIDE DEF joining, a
<1>4. a.done \in Seq(Centroid) /\ a.curr \in Centroid /\ Len(a.done) \in Nat
  BY <1>2 DEF JoinRecords
<1>5. SubSeq(cs, 1, N + 1) = cs
  BY <1>1, EmptyPrefix
<1>6. /\ WeightOf(a.done) + a.curr.weight = WeightOf(cs)
      /\ SumOf(a.done) + a.curr.sum = SumOf(cs)
      /\ InOrder(a.done)
      /\ Len(a.done) > 0 => NotAbove(a.done[Len(a.done)], a.curr)
      /\ Len(a.done) + 1 <= most
      /\ Between(a.curr, lo, hi)
      /\ \A c \in ToSet(a.done) : Between(c, lo, hi)
  BY <1>2, <1>5 DEF JoinState
<1> DEFINE r == Append(a.done, a.curr)
<1>7. /\ r \in Seq(Centroid) /\ Len(r) = Len(a.done) + 1
      /\ InOrder(r)
      /\ ToSet(r) = ToSet(a.done) \cup {a.curr}
      /\ WeightOf(r) = WeightOf(a.done) + a.curr.weight
      /\ SumOf(r) = SumOf(a.done) + a.curr.sum
  BY <1>4, <1>6, AppendCentroid
<1>8. r # <<>>
  BY <1>4, <1>7
<1> HIDE DEF r
<1>9. \A c \in ToSet(r) : Between(c, lo, hi)
  BY <1>6, <1>7
<1> QED
  BY <1>3, <1>6, <1>7, <1>8, <1>9 DEF r
-----------------------------------------------------------------------------
(* Values *)
LEMMA Concatenation ==
  ASSUME NEW s \in Seq(Int), NEW t \in Seq(Int)
  PROVE  /\ s \o t \in Seq(Int)
         /\ Len(s \o t) = Len(s) + Len(t)
         /\ Total(s \o t) = Total(s) + Total(t)
         /\ ToSet(s \o t) = ToSet(s) \cup ToSet(t)
<1> DEFINE u == s \o t
           L == Len(s)
           N == Len(t)
           g == [n \in 0..N |-> Totals(u)[L + n]]
           T == [n \in 0..N |-> {Totals(s)[L] + Totals(t)[n]}]
<1>1. /\ u \in Seq(Int) /\ Len(u) = L + N /\ L \in Nat /\ N \in Nat
      /\ \A n \in 1..L : u[n] = s[n] /\ s[n] \in Int
      /\ \A n \in 1..N : u[L + n] = t[n] /\ t[n] \in Int
      /\ DOMAIN u = 1..(L + N) /\ DOMAIN s = 1..L /\ DOMAIN t = 1..N
  OBVIOUS
<1> HIDE DEF u, L, N
<1>2. /\ Totals(u) = [n \in 0..(L + N) |-> IF n = 0 THEN 0 ELSE Totals(u)[n - 1] + u[n]]
      /\ \A n \in 0..(L + N) : Totals(u)[n] \in Int
  BY <1>1, TotalsEquation
<1>3. /\ Totals(s) = [n \in 0..L |-> IF n = 0 THEN 0 ELSE Totals(s)[n - 1] + s[n]]
      /\ \A n \in 0..L : Totals(s)[n] \in Int
  BY TotalsEquation DEF L
<1>4. /\ Totals(t) = [n \in 0..N |-> IF n = 0 THEN 0 ELSE Totals(t)[n - 1] + t[n]]
      /\ \A n \in 0..N : Totals(t)[n] \in Int
  BY TotalsEquation DEF N
<1>5. Totals(u)[L] = Totals(s)[L]
  <2> DEFINE V == [n \in 0..L |-> {Totals(s)[n]}]
             h == [n \in 0..L |-> Totals(u)[n]]
  <2>1. h[0] \in V[0]
    BY <1>1, <1>2, <1>3
  <2>2. ASSUME NEW n \in 1..L, h[n - 1] \in V[n - 1] PROVE h[n] \in V[n]
    <3>1. n \in 0..(L + N) /\ n - 1 \in 0..L /\ n \in 0..L /\ n # 0
      BY <1>1
    <3>2. Totals(u)[n - 1] = Totals(s)[n - 1]
      BY <2>2, <3>1
    <3>3. Totals(u)[n] = Totals(u)[n - 1] + u[n] /\ Totals(s)[n] = Totals(s)[n - 1] + s[n]
      BY <1>2, <1>3, <3>1
    <3> QED
      BY <1>1, <3>1, <3>2, <3>3
  <2>3. \A n \in 0..L : h[n] \in V[n]
    <3> HIDE DEF V, h
    <3> QED
      BY <1>1, <2>1, <2>2, LoopInvariant
  <2> QED
    BY <1>1, <2>3
<1>6. \A n \in 0..N : g[n] \in T[n]
  <2>1. g[0] \in T[0]
    <3>1. Totals(t)[0] = 0 /\ Totals(s)[L] \in Int /\ L + 0 = L /\ 0 \in 0..N
      BY <1>1, <1>3, <1>4
    <3>2. g[0] = Totals(s)[L] /\ T[0] = {Totals(s)[L] + 0}
      BY <1>5, <3>1
    <3> HIDE DEF g, T
    <3> QED
      BY <3>1, <3>2
  <2>2. ASSUME NEW n \in 1..N, g[n - 1] \in T[n - 1] PROVE g[n] \in T[n]
    <3> DEFINE i == L + n
               p == Totals(s)[L]
               q == Totals(t)[n - 1]
    <3>1. /\ n \in 0..N /\ n - 1 \in 0..N /\ n # 0 /\ i # 0 /\ i \in 0..(L + N)
          /\ i - 1 = L + (n - 1)
      BY <1>1
    <3>2. Totals(u)[i - 1] = p + q /\ p \in Int /\ q \in Int
      <4>1. g[n - 1] = p + q
        BY <2>2, <3>1
      <4>2. g[n - 1] = Totals(u)[i - 1]
        BY <3>1
      <4>3. p \in Int /\ q \in Int
        <5>1. L \in 0..L /\ n - 1 \in 0..N
          BY <1>1, <3>1
        <5> HIDE DEF g, T
        <5> QED
          BY <1>3, <1>4, <5>1
      <4> QED
        BY <4>1, <4>2, <4>3
    <3>3. Totals(u)[i] = Totals(u)[i - 1] + u[i]
      BY <1>2, <3>1
    <3>4. Totals(t)[n] = q + t[n] /\ t[n] \in Int /\ u[i] = t[n]
      BY <1>1, <1>4, <3>1
    <3>5. g[n] = Totals(u)[i] /\ T[n] = {p + Totals(t)[n]}
      BY <3>1
    <3> HIDE DEF i, p, q, g, T
    <3>6. Totals(u)[i] = p + Totals(t)[n]
      BY <3>2, <3>3, <3>4
    <3> QED
      BY <3>5, <3>6
  <2> HIDE DEF g, T
  <2> QED
    BY <1>1, <2>1, <2>2, LoopInvariant
<1>7. Totals(u)[L + N] = Totals(s)[L] + Totals(t)[N]
  <2>1. N \in 0..N
    BY <1>1
  <2> QED
    BY <1>6, <2>1
<1>8. ToSet(u) = ToSet(s) \cup ToSet(t)
  <2>1. ASSUME NEW n \in 1..(L + N) PROVE u[n] \in ToSet(s) \cup ToSet(t)
    <3>1. CASE n \in 1..L
      BY <1>1, <3>1 DEF ToSet
    <3>2. CASE n \notin 1..L
      <4>1. n - L \in 1..N /\ L + (n - L) = n
        BY <1>1, <3>2
      <4>2. u[n] = t[n - L]
        BY <1>1, <4>1
      <4> QED
        BY <1>1, <4>1, <4>2 DEF ToSet
    <3> QED
      BY <3>1, <3>2
  <2>2. \A n \in 1..L : s[n] \in ToSet(u)
    <3>1. \A n \in 1..L : n \in 1..(L + N)
      BY <1>1
    <3> QED
      BY <1>1, <3>1 DEF ToSet
  <2>3. \A n \in 1..N : t[n] \in ToSet(u)
    <3>1. \A n \in 1..N : L + n \in 1..(L + N)
      BY <1>1
    <3> QED
      BY <1>1, <3>1 DEF ToSet
  <2> QED
    BY <1>1, <2>1, <2>2, <2>3 DEF ToSet
<1> QED
  BY <1>1, <1>7, <1>8 DEF Total, u, L, N

(* lo and hi are the least and the greatest of the values. *)
Extremes(values, lo, hi) ==
  /\ lo \in ToSet(values) /\ hi \in ToSet(values)
  /\ \A v \in ToSet(values) : lo <= v /\ v <= hi

LEMMA ExtremesAreMinAndMax ==
  ASSUME NEW values \in Seq(Int), NEW lo, NEW hi, Extremes(values, lo, hi)
  PROVE  lo = Min(ToSet(values)) /\ hi = Max(ToSet(values))
<1> DEFINE S == ToSet(values)
<1>1. S \subseteq Int
  BY DEF ToSet
<1>2. lo \in S /\ hi \in S /\ \A v \in S : lo <= v /\ v <= hi
  BY DEF Extremes
<1> HIDE DEF S
<1>3. Min(S) \in S /\ \A v \in S : Min(S) <= v
  BY <1>2 DEF Min
<1>4. Max(S) \in S /\ \A v \in S : Max(S) >= v
  <2>1. \E x \in S : \A v \in S : x >= v
    BY <1>1, <1>2
  <2> QED
    BY <2>1 DEF Max
<1> QED
  BY <1>1, <1>2, <1>3, <1>4 DEF S
-----------------------------------------------------------------------------
(* Centroids in order that are made of exactly these values, lo and hi the extremes *)
Made(cs, values, lo, hi) ==
  /\ cs \in Seq(Centroid)
  /\ InOrder(cs)
  /\ WeightOf(cs) = Len(values)
  /\ SumOf(cs) = Total(values)
  /\ cs = <<>> <=> values = <<>>
  /\ values # <<>> => /\ lo \in Int /\ hi \in Int
                      /\ Extremes(values, lo, hi)
                      /\ \A c \in ToSet(cs) : Between(c, lo, hi)

LEMMA MadeOfNone ==
  ASSUME NEW lo, NEW hi
  PROVE  Made(<<>>, <<>>, lo, hi)
<1>1. /\ <<>> \in Seq(Centroid) /\ InOrder(<<>>) /\ Len(<<>>) = 0
      /\ WeightOf(<<>>) = 0 /\ SumOf(<<>>) = 0 /\ Total(<<>>) = 0
  BY SumsOfEmpty, TotalOfEmpty DEF InOrder
<1> QED
  BY <1>1, Zenon DEF Made

(* What lies between extremes lies between wider ones. *)
LEMMA BetweenWidens ==
  ASSUME NEW c \in Centroid, NEW lo \in Int, NEW hi \in Int, NEW lo2 \in Int, NEW hi2 \in Int,
         Between(c, lo, hi), lo2 <= lo, hi <= hi2
  PROVE  Between(c, lo2, hi2)
<1> DEFINE p == c.sum
           a == c.weight
<1>1. p \in Int /\ a \in Nat /\ lo * a <= p /\ p <= hi * a
  BY CentroidFacts DEF Between
<1> HIDE DEF p, a
<1>2. lo2 * a <= lo * a /\ hi * a <= hi2 * a
  BY <1>1, Z3
<1>3. lo2 * a <= p /\ p <= hi2 * a
  BY <1>1, <1>2, Z3
<1> QED
  BY <1>3 DEF Between, p, a

LEMMA ExtremesOfBoth ==
  ASSUME NEW s \in Seq(Int), NEW t \in Seq(Int), NEW u,
         ToSet(u) = ToSet(s) \cup ToSet(t),
         NEW lo \in Int, NEW hi \in Int, NEW lo2 \in Int, NEW hi2 \in Int,
         Extremes(s, lo, hi), Extremes(t, lo2, hi2)
  PROVE  Extremes(u, Min({lo2, lo}), Max({hi2, hi}))
<1> DEFINE a == Min({lo2, lo})
           b == Max({hi2, hi})
<1>1. a = IF lo2 <= lo THEN lo2 ELSE lo
  BY LesserOfTwo
<1>2. b = IF hi2 >= hi THEN hi2 ELSE hi
  BY GreaterOfTwo
<1>3. \A v \in ToSet(s) \cup ToSet(t) : v \in Int
  BY DEF ToSet
<1>4. a <= lo /\ a <= lo2 /\ hi <= b /\ hi2 <= b /\ a \in Int /\ b \in Int
  BY <1>1, <1>2
<1>5. a \in ToSet(u) /\ b \in ToSet(u)
  BY <1>1, <1>2 DEF Extremes
<1> HIDE DEF a, b
<1>6. \A v \in ToSet(u) : a <= v /\ v <= b
  <2> SUFFICES ASSUME NEW v \in ToSet(s) \cup ToSet(t) PROVE a <= v /\ v <= b
    OBVIOUS
  <2>1. v \in Int
    BY <1>3
  <2>2. (lo <= v /\ v <= hi) \/ (lo2 <= v /\ v <= hi2)
    BY DEF Extremes
  <2> QED
    BY <1>4, <2>1, <2>2
<1> QED
  BY <1>5, <1>6 DEF Extremes, a, b

(* What is made of new values and of what there was, merged *)
LEMMA MadeOfBoth ==
  ASSUME NEW cs, NEW s \in Seq(Int), NEW lo, NEW hi, Made(cs, s, lo, hi), s # <<>>,
         NEW ds, NEW t \in Seq(Int), NEW lo2, NEW hi2, Made(ds, t, lo2, hi2),
         NEW m \in Seq(Centroid), InOrder(m),
         WeightOf(m) = WeightOf(cs) + WeightOf(ds), SumOf(m) = SumOf(cs) + SumOf(ds),
         ToSet(m) = ToSet(cs) \cup ToSet(ds)
  PROVE  Made(m, t \o s, IF Len(t) > 0 THEN Min({lo2, lo}) ELSE lo,
                         IF Len(t) > 0 THEN Max({hi2, hi}) ELSE hi)
<1> DEFINE u == t \o s
           l == IF Len(t) > 0 THEN Min({lo2, lo}) ELSE lo
           h == IF Len(t) > 0 THEN Max({hi2, hi}) ELSE hi
<1>1. /\ u \in Seq(Int) /\ Len(u) = Len(t) + Len(s) /\ Total(u) = Total(t) + Total(s)
      /\ ToSet(u) = ToSet(t) \cup ToSet(s)
  BY Concatenation
<1>2. /\ cs \in Seq(Centroid) /\ cs # <<>> /\ ds \in Seq(Centroid)
      /\ WeightOf(cs) = Len(s) /\ SumOf(cs) = Total(s)
      /\ WeightOf(ds) = Len(t) /\ SumOf(ds) = Total(t)
      /\ lo \in Int /\ hi \in Int /\ Extremes(s, lo, hi)
      /\ \A c \in ToSet(cs) : Between(c, lo, hi)
  BY DEF Made
<1>3. Len(s) \in Nat /\ Len(s) > 0 /\ Len(t) \in Nat
  OBVIOUS
<1>4. Total(s) \in Int /\ Total(t) \in Int
  <2>1. 0 \in Int
    OBVIOUS
  <2> QED
    BY <2>1, TotalOfAppend
<1>5. WeightOf(m) = Len(u) /\ SumOf(m) = Total(u)
  <2> HIDE DEF u
  <2> QED
    BY <1>1, <1>2, <1>3, <1>4
<1>6. u # <<>>
  <2> HIDE DEF u
  <2> QED
    BY <1>1, <1>3
<1>7. m # <<>>
  <2>1. 1 \in DOMAIN cs /\ cs[1] \in ToSet(cs)
    BY <1>2 DEF ToSet
  <2>2. ToSet(<<>>) = {}
    BY DEF ToSet
  <2> QED
    BY <2>1, <2>2
<1>8. /\ l \in Int /\ h \in Int /\ Extremes(u, l, h)
      /\ \A c \in ToSet(m) : Between(c, l, h)
  <2>1. CASE t = <<>>
    <3>1. l = lo /\ h = hi /\ ds = <<>> /\ ToSet(<<>>) = {}
      BY <2>1 DEF Made, ToSet
    <3>2. ToSet(u) = ToSet(s) /\ ToSet(m) = ToSet(cs)
      BY <1>1, <2>1, <3>1
    <3> HIDE DEF u, l, h
    <3> QED
      BY <1>2, <3>1, <3>2 DEF Extremes
  <2>2. CASE t # <<>>
    <3>1. Len(t) > 0
      BY <2>2
    <3>2. l = Min({lo2, lo}) /\ h = Max({hi2, hi})
      BY <3>1
    <3>3. /\ lo2 \in Int /\ hi2 \in Int /\ Extremes(t, lo2, hi2)
          /\ \A c \in ToSet(ds) : Between(c, lo2, hi2)
      BY <2>2 DEF Made
    <3>4. l \in Int /\ h \in Int /\ l <= lo /\ l <= lo2 /\ hi <= h /\ hi2 <= h
      <4>1. l = IF lo2 <= lo THEN lo2 ELSE lo
        BY <1>2, <3>2, <3>3, LesserOfTwo
      <4>2. h = IF hi2 >= hi THEN hi2 ELSE hi
        BY <1>2, <3>2, <3>3, GreaterOfTwo
      <4> HIDE DEF l, h
      <4> QED
        BY <1>2, <3>3, <4>1, <4>2
    <3> HIDE DEF u, l, h
    <3>5. Extremes(u, l, h)
      BY <1>1, <1>2, <3>2, <3>3, ExtremesOfBoth
    <3>6. ASSUME NEW c \in ToSet(m) PROVE Between(c, l, h)
      <4>1. c \in Centroid
        BY DEF ToSet
      <4>2. CASE c \in ToSet(cs)
        BY <1>2, <3>4, <4>1, <4>2, BetweenWidens
      <4>3. CASE c \in ToSet(ds)
        BY <3>3, <3>4, <4>1, <4>3, BetweenWidens
      <4> QED
        BY <4>2, <4>3
    <3> QED
      BY <3>4, <3>5, <3>6
  <2> QED
    BY <2>1, <2>2
<1> HIDE DEF u, l, h
<1>9. Made(m, u, l, h)
  BY <1>5, <1>6, <1>7, <1>8 DEF Made
<1> QED
  BY <1>9 DEF u, l, h

(* Of centroids of weight 1 in order, the first and the last are the extremes. *)
LEMMA MadeOfSorted ==
  ASSUME NEW s \in Seq(Int), s # <<>>
  PROVE  LET r == Sorted(s) IN
         Made(r, s, r[1].sum, r[Len(s)].sum) /\ r # <<>> /\ Len(r) = Len(s)
<1> DEFINE r == Sorted(s)
           N == Len(s) - 1
           lo == r[1].sum
           hi == r[Len(s)].sum
<1>1. /\ r \in Seq(Centroid) /\ Len(r) = Len(s) /\ InOrder(r)
      /\ WeightOf(r) = Len(s) /\ SumOf(r) = Total(s)
      /\ ToSet(r) = {Single(s[i]) : i \in 1..Len(s)}
  BY SortedFacts
<1> HIDE DEF r
<1>2. /\ N \in Nat /\ N + 1 = Len(s) /\ Len(s) \in Nat /\ r # <<>>
      /\ \A i \in 1..Len(s) : s[i] \in Int
      /\ DOMAIN r = 1..Len(s) /\ DOMAIN s = 1..Len(s)
  BY <1>1
<1>3. \A i \in 1..Len(s) : r[i].sum \in ToSet(s) /\ r[i].weight = 1 /\ r[i].sum \in Int
  <2> SUFFICES ASSUME NEW i \in 1..Len(s)
               PROVE  r[i].sum \in ToSet(s) /\ r[i].weight = 1 /\ r[i].sum \in Int
    OBVIOUS
  <2>1. r[i] \in ToSet(r)
    BY <1>2 DEF ToSet
  <2>2. PICK j \in 1..Len(s) : r[i] = Single(s[j])
    BY <1>1, <2>1
  <2>3. s[j] \in Int /\ s[j] \in ToSet(s)
    BY <1>2 DEF ToSet
  <2> QED
    BY <2>2, <2>3, CentroidFacts
<1>4. \A v \in ToSet(s) : \E i \in 1..Len(s) : r[i].sum = v
  <2> SUFFICES ASSUME NEW j \in 1..Len(s) PROVE \E i \in 1..Len(s) : r[i].sum = s[j]
    BY <1>2 DEF ToSet
  <2>1. Single(s[j]) \in ToSet(r)
    BY <1>1
  <2>2. PICK i \in 1..Len(s) : r[i] = Single(s[j])
    BY <1>2, <2>1 DEF ToSet
  <2> QED
    BY <1>2, <2>2, CentroidFacts
<1> DEFINE g == [n \in 0..N |-> r[n + 1].sum]
           T == [n \in 0..N |-> {x \in Int : \A j \in 0..n : g[j] <= x}]
<1>5. \A n \in 0..N : g[n] \in Int /\ n + 1 \in 1..Len(s)
  BY <1>2, <1>3
<1>6. ASSUME NEW n \in 1..N PROVE g[n - 1] <= g[n]
  <2>1. n \in 1..Len(s) /\ n + 1 \in 2..Len(r) /\ (n + 1) - 1 = n /\ n + 1 \in 1..Len(s)
    BY <1>1, <1>2
  <2>2. NotAbove(r[n], r[n + 1]) /\ r[n] \in Centroid /\ r[n + 1] \in Centroid
    BY <1>1, <2>1 DEF InOrder
  <2>3. r[n].sum * r[n + 1].weight <= r[n + 1].sum * r[n].weight
    BY <2>2, NotAboveIsProducts
  <2>4. g[n - 1] = r[n].sum /\ g[n] = r[n + 1].sum
    BY <1>2, <2>1
  <2> HIDE DEF g
  <2>5. r[n].sum * 1 <= r[n + 1].sum * 1
    BY <1>3, <2>1, <2>3
  <2> QED
    BY SMTT(30), <1>3, <2>1, <2>4, <2>5
<1>7. g[0] \in T[0]
  <2>1. g[0] \in Int /\ 0 \in 0..N
    BY <1>2, <1>5
  <2> HIDE DEF g
  <2> QED
    BY <2>1
<1>8. ASSUME NEW n \in 1..N, g[n - 1] \in T[n - 1] PROVE g[n] \in T[n]
  <2>1. /\ n \in 0..N /\ n - 1 \in 0..N /\ g[n] \in Int /\ g[n - 1] \in Int
        /\ \A j \in 0..n : j = n \/ j \in 0..(n - 1)
        /\ \A j \in 0..n : j \in 0..N
    <3>1. n \in 0..N /\ n - 1 \in 0..N
      BY <1>2
    <3>2. \A j \in 0..n : j = n \/ j \in 0..(n - 1)
      OBVIOUS
    <3>3. \A j \in 0..n : j \in 0..N
      BY <1>2
    <3> HIDE DEF g, T
    <3> QED
      BY <1>5, <3>1, <3>2, <3>3
  <2>2. \A j \in 0..n : g[j] \in Int
    BY <1>5, <2>1
  <2> HIDE DEF g
  <2>3. \A j \in 0..(n - 1) : g[j] <= g[n - 1]
    BY <1>8, <2>1
  <2>4. \A j \in 0..n : g[j] <= g[n]
    <3> SUFFICES ASSUME NEW j \in 0..n PROVE g[j] <= g[n]
      OBVIOUS
    <3>1. g[n - 1] <= g[n]
      BY <1>6
    <3>2. CASE j = n
      BY <2>1, <3>2
    <3>3. CASE j # n
      <4>1. g[j] <= g[n - 1] /\ g[j] \in Int
        BY <2>1, <2>2, <2>3, <3>3
      <4> QED
        BY <2>1, <3>1, <4>1
    <3> QED
      BY <3>2, <3>3
  <2> QED
    BY <2>1, <2>4
<1>9. \A n \in 0..N : \A j \in 0..n : g[j] <= g[n]
  <2>1. \A n \in 0..N : g[n] \in T[n]
    <3> HIDE DEF g, T, N
    <3> QED
      BY <1>2, <1>7, <1>8, LoopInvariant
  <2> HIDE DEF g
  <2> QED
    BY <2>1
<1>10. \A i \in 1..Len(s) : lo <= r[i].sum /\ r[i].sum <= hi
  <2> SUFFICES ASSUME NEW i \in 1..Len(s) PROVE lo <= r[i].sum /\ r[i].sum <= hi
    OBVIOUS
  <2>1. /\ i - 1 \in 0..N /\ 0 \in 0..(i - 1) /\ i - 1 \in 0..N /\ N \in 0..N /\ 0 \in 0..N
        /\ (i - 1) + 1 = i /\ 0 + 1 = 1
    BY <1>2
  <2>2. g[0] = lo /\ g[i - 1] = r[i].sum /\ g[N] = hi
    BY <1>2, <2>1
  <2> HIDE DEF g
  <2> QED
    BY <1>9, <2>1, <2>2
<1>11. lo \in Int /\ hi \in Int /\ lo \in ToSet(s) /\ hi \in ToSet(s)
  <2>1. 1 \in 1..Len(s) /\ Len(s) \in 1..Len(s)
    BY <1>2
  <2> QED
    BY <1>3, <2>1
<1>12. Extremes(s, lo, hi)
  BY <1>4, <1>10, <1>11 DEF Extremes
<1>13. \A c \in ToSet(r) : Between(c, lo, hi)
  <2> SUFFICES ASSUME NEW i \in 1..Len(s) PROVE Between(r[i], lo, hi)
    BY <1>2 DEF ToSet
  <2> DEFINE v == r[i].sum
  <2>1. lo <= v /\ v <= hi /\ v \in Int /\ r[i].weight = 1
    BY <1>3, <1>10
  <2> HIDE DEF lo, hi, v
  <2>2. lo * 1 <= v /\ v <= hi * 1
    BY <1>11, <2>1
  <2> QED
    BY <2>1, <2>2 DEF Between, v
<1> HIDE DEF lo, hi
<1>14. Made(r, s, lo, hi)
  BY <1>1, <1>2, <1>11, <1>12, <1>13 DEF Made
<1> QED
  BY <1>1, <1>2, <1>14 DEF r, lo, hi

(* Compression leaves what centroids are made of. *)
LEMMA MadeOfCompressed ==
  ASSUME NEW cs, NEW s \in Seq(Int), NEW lo, NEW hi, Made(cs, s, lo, hi), s # <<>>,
         NEW size \in Nat \ {0}, NEW repeated \in Nat
  PROVE  /\ Made(Compressed(cs, size, Len(s), repeated), s, lo, hi)
         /\ Len(Compressed(cs, size, Len(s), repeated)) <= size + repeated
<1>1. /\ cs \in Seq(Centroid) /\ cs # <<>> /\ InOrder(cs)
      /\ WeightOf(cs) = Len(s) /\ SumOf(cs) = Total(s)
      /\ lo \in Int /\ hi \in Int /\ Extremes(s, lo, hi)
      /\ \A c \in ToSet(cs) : Between(c, lo, hi)
      /\ Len(s) \in Int /\ WeightOf(cs) <= Len(s)
  BY DEF Made
<1> DEFINE r == Compressed(cs, size, Len(s), repeated)
<1>2. /\ r \in Seq(Centroid) /\ r # <<>> /\ Len(r) <= size + repeated
      /\ InOrder(r)
      /\ WeightOf(r) = WeightOf(cs)
      /\ SumOf(r) = SumOf(cs)
      /\ \A c \in ToSet(r) : Between(c, lo, hi)
  BY <1>1, CompressedFacts
<1> HIDE DEF r
<1> QED
  BY <1>1, <1>2 DEF Made, r
-----------------------------------------------------------------------------
(* Digests *)
DigestRecords ==
  [centroids : Seq(Centroid), max_size : Nat, sum : Int, count : Nat,
   min : Int \cup {NaN}, max : Int \cup {NaN}]

(* What a digest of these values is, but for its sum and its size *)
Gathered(d, values) ==
  d \in DigestRecords /\ d.count = Len(values) /\ Made(d.centroids, values, d.min, d.max)

DigestOf(d, values, size, most) ==
  /\ Gathered(d, values)
  /\ d.sum = Total(values)
  /\ d.max_size = size
  /\ Len(d.centroids) <= most

LEMMA EmptyIsDigestOfNone ==
  ASSUME NEW size \in Nat, NEW most \in Nat
  PROVE  DigestOf(Empty(size), <<>>, size, most)
<1> DEFINE d == Empty(size)
<1>1. /\ d.centroids = <<>> /\ d.max_size = size /\ d.sum = 0 /\ d.count = 0
      /\ d \in DigestRecords
  <2>1. <<>> \in Seq(Centroid) /\ 0 \in Int /\ 0 \in Nat /\ NaN \in Int \cup {NaN}
    OBVIOUS
  <2> QED
    BY <2>1 DEF Empty, DigestRecords
<1> HIDE DEF d
<1>2. Len(<<>>) = 0 /\ 0 <= most /\ Total(<<>>) = 0 /\ Made(<<>>, <<>>, d.min, d.max)
  BY TotalOfEmpty, MadeOfNone
<1>3. DigestOf(d, <<>>, size, most)
  BY <1>1, <1>2, Zenon DEF DigestOf, Gathered
<1> QED
  BY <1>3 DEF d

LEMMA ResetIsDigestOfNone ==
  ASSUME NEW d, NEW size \in Nat, NEW most \in Nat, d.max_size = size
  PROVE  DigestOf(reset(d), <<>>, size, most)
<1> DEFINE e == Empty(size)
           r == reset(d)
<1>1. e \in DigestRecords /\ e.centroids = <<>> /\ e.max_size = size /\ e.sum = 0 /\ e.count = 0
  <2>1. <<>> \in Seq(Centroid) /\ 0 \in Int /\ 0 \in Nat /\ NaN \in Int \cup {NaN}
    OBVIOUS
  <2> QED
    BY <2>1 DEF Empty, DigestRecords
<1>2. r = [e EXCEPT !.min = 0, !.max = 0]
  BY DEF reset
<1> HIDE DEF e, r
<1>3. /\ r.centroids = <<>> /\ r.max_size = size /\ r.sum = 0 /\ r.count = 0
      /\ r \in DigestRecords
  BY <1>1, <1>2 DEF DigestRecords
<1>4. Len(<<>>) = 0 /\ 0 <= most /\ Total(<<>>) = 0 /\ Made(<<>>, <<>>, r.min, r.max)
  BY TotalOfEmpty, MadeOfNone
<1>5. DigestOf(r, <<>>, size, most)
  BY <1>3, <1>4, Zenon DEF DigestOf, Gathered
<1> QED
  BY <1>5 DEF r

(* A compressed digest of what centroids are made of *)
LEMMA DigestOfCompressed ==
  ASSUME NEW cs, NEW s \in Seq(Int), NEW lo, NEW hi, Made(cs, s, lo, hi), s # <<>>,
         NEW size \in Nat \ {0}, NEW repeated \in Nat
  PROVE  DigestOf(Digest(Compressed(cs, size, Len(s), repeated), size, Len(s), lo, hi),
                  s, size, size + repeated)
<1> DEFINE r == Compressed(cs, size, Len(s), repeated)
           d == Digest(r, size, Len(s), lo, hi)
<1>1. Made(r, s, lo, hi) /\ Len(r) <= size + repeated
  BY MadeOfCompressed
<1> HIDE DEF r
<1>2. /\ r \in Seq(Centroid) /\ SumOf(r) = Total(s)
      /\ lo \in Int /\ hi \in Int /\ Len(s) \in Nat /\ Total(s) \in Int
  <2>1. 0 \in Int
    OBVIOUS
  <2> QED
    BY <1>1, <2>1, TotalOfAppend DEF Made
<1>3. /\ d \in DigestRecords /\ d.centroids = r /\ d.max_size = size /\ d.sum = Total(s)
      /\ d.count = Len(s) /\ d.min = lo /\ d.max = hi
  BY <1>2 DEF Digest, DigestRecords
<1> HIDE DEF d
<1>4. DigestOf(d, s, size, size + repeated)
  BY <1>1, <1>3 DEF DigestOf, Gathered
<1> QED
  BY <1>4 DEF d, r

(* A digest that takes values is one of these, too. *)
LEMMA DigestOfMerged ==
  ASSUME NEW size \in Nat \ {0}, NEW t \in Seq(Int), NEW s \in Seq(Int),
         NEW d, DigestOf(d, t, size, size)
  PROVE  DigestOf(merge_unsorted(d, s), t \o s, size, size)
<1> DEFINE r == Sorted(s)
<1>1. CASE s = <<>>
  <2>1. Len(r) = 0 /\ r \in Seq(Centroid) /\ Len(<<>>) = 0
    BY <1>1, SortedFacts
  <2>2. r = <<>> /\ t \o s = t
    BY <1>1, <2>1
  <2> QED
    BY <2>2 DEF merge_unsorted, merge_sorted
<1>2. CASE s # <<>>
  <2> DEFINE lo == r[1].sum
             hi == r[Len(r)].sum
             m == Merged(r, d.centroids)
             u == t \o s
             l == Lowest(d, lo)
             h == Highest(d, hi)
  <2>1. Made(r, s, lo, hi) /\ r # <<>> /\ Len(r) = Len(s)
    BY <1>2, MadeOfSorted
  <2>2. /\ d.count = Len(t) /\ Made(d.centroids, t, d.min, d.max) /\ d.max_size = size
    BY DEF DigestOf, Gathered
  <2> HIDE DEF r, lo, hi
  <2>3. /\ m \in Seq(Centroid) /\ InOrder(m)
        /\ WeightOf(m) = WeightOf(r) + WeightOf(d.centroids)
        /\ SumOf(m) = SumOf(r) + SumOf(d.centroids)
        /\ ToSet(m) = ToSet(r) \cup ToSet(d.centroids)
    BY <2>1, <2>2, MergedFacts DEF Made
  <2>4. /\ l = IF Len(t) > 0 THEN Min({d.min, lo}) ELSE lo
        /\ h = IF Len(t) > 0 THEN Max({d.max, hi}) ELSE hi
    BY <2>2 DEF Lowest, Highest
  <2> HIDE DEF m, l, h
  <2>5. Made(m, u, l, h)
    BY <1>2, <2>1, <2>2, <2>3, <2>4, MadeOfBoth
  <2>6. u \in Seq(Int) /\ Len(u) = d.count + Len(r) /\ u # <<>>
    <3>1. u \in Seq(Int) /\ Len(u) = Len(t) + Len(s)
      BY Concatenation
    <3>2. Len(t) \in Nat /\ Len(s) \in Nat /\ Len(s) > 0
      BY <1>2
    <3> HIDE DEF u
    <3> QED
      BY <2>1, <2>2, <3>1, <3>2
  <2>7. merge_unsorted(d, s) = Digest(Compressed(m, size, Len(u), 0), size, Len(u), l, h)
    BY <2>1, <2>2, <2>6 DEF merge_unsorted, merge_sorted, r, m, l, h, lo, hi
  <2>8. size + 0 = size /\ 0 \in Nat
    OBVIOUS
  <2> HIDE DEF u
  <2>9. DigestOf(Digest(Compressed(m, size, Len(u), 0), size, Len(u), l, h), u, size, size + 0)
    BY <2>5, <2>6, <2>8, DigestOfCompressed
  <2> QED
    BY <2>7, <2>8, <2>9 DEF u
<1> QED
  BY <1>1, <1>2

(* What another digest leaves of those that are to be merged *)
LEMMA GatheredOfBoth ==
  ASSUME NEW t \in Seq(Int), NEW s \in Seq(Int), NEW all, NEW d, Gathered(all, t), Gathered(d, s)
  PROVE  Gathered(Gather(all, d), t \o s)
<1>1. /\ all \in DigestRecords /\ all.count = Len(t) /\ Made(all.centroids, t, all.min, all.max)
      /\ d \in DigestRecords /\ d.count = Len(s) /\ Made(d.centroids, s, d.min, d.max)
  BY DEF Gathered
<1>2. CASE s = <<>>
  <2>1. d.count = 0 /\ t \o s = t
    BY <1>1, <1>2
  <2> QED
    BY <2>1 DEF Gather
<1>3. CASE s # <<>>
  <2> DEFINE m == Merged(all.centroids, d.centroids)
             u == t \o s
             l == Lowest(all, d.min)
             h == Highest(all, d.max)
             x == Gather(all, d)
  <2>1. d.count > 0 /\ Len(s) \in Nat /\ Len(t) \in Nat
    BY <1>1, <1>3
  <2>2. /\ m \in Seq(Centroid) /\ InOrder(m)
        /\ WeightOf(m) = WeightOf(all.centroids) + WeightOf(d.centroids)
        /\ SumOf(m) = SumOf(all.centroids) + SumOf(d.centroids)
        /\ ToSet(m) = ToSet(all.centroids) \cup ToSet(d.centroids)
    BY <1>1, MergedFacts DEF Made
  <2>3. /\ WeightOf(m) = WeightOf(d.centroids) + WeightOf(all.centroids)
        /\ SumOf(m) = SumOf(d.centroids) + SumOf(all.centroids)
        /\ ToSet(m) = ToSet(d.centroids) \cup ToSet(all.centroids)
    <3>1. /\ all.centroids \in Seq(Centroid) /\ d.centroids \in Seq(Centroid)
          /\ Single(0) \in Centroid
      BY <1>1, CentroidFacts DEF Made
    <3>2. /\ WeightOf(all.centroids) \in Int /\ WeightOf(d.centroids) \in Int
          /\ SumOf(all.centroids) \in Int /\ SumOf(d.centroids) \in Int
      BY <3>1, SumsOfAppend
    <3> DEFINE aw == WeightOf(all.centroids)
               dw == WeightOf(d.centroids)
               az == SumOf(all.centroids)
               dz == SumOf(d.centroids)
    <3> HIDE DEF aw, dw, az, dz, m
    <3>3. aw + dw = dw + aw /\ az + dz = dz + az
      BY <3>2 DEF aw, dw, az, dz
    <3> QED
      BY <2>2, <3>3 DEF aw, dw, az, dz
  <2>4. /\ l = IF Len(t) > 0 THEN Min({all.min, d.min}) ELSE d.min
        /\ h = IF Len(t) > 0 THEN Max({all.max, d.max}) ELSE d.max
    BY <1>1 DEF Lowest, Highest
  <2>5. x = [all EXCEPT !.centroids = m, !.count = all.count + d.count, !.min = l, !.max = h]
    BY <2>1 DEF Gather
  <2> HIDE DEF m, l, h, x
  <2>6. Made(m, u, l, h)
    BY <1>1, <1>3, <2>2, <2>3, <2>4, MadeOfBoth
  <2>7. u # <<>> /\ Len(u) = all.count + d.count
    <3>1. u \in Seq(Int) /\ Len(u) = Len(t) + Len(s)
      BY Concatenation
    <3> HIDE DEF u
    <3> QED
      BY <1>1, <2>1, <3>1
  <2> HIDE DEF u
  <2>8. l \in Int /\ h \in Int
    BY <2>6, <2>7 DEF Made
  <2>9. /\ x \in DigestRecords
        /\ x.centroids = m /\ x.count = all.count + d.count /\ x.min = l /\ x.max = h
    <3> DEFINE k == all.count + d.count
    <3>1. k \in Nat
      BY <1>1, <2>1
    <3> HIDE DEF k
    <3>2. x = [all EXCEPT !.centroids = m, !.count = k, !.min = l, !.max = h]
      BY <2>5 DEF k
    <3>3. all \in DigestRecords
      BY <1>1
    <3>4. x \in DigestRecords /\ x.centroids = m /\ x.count = k /\ x.min = l /\ x.max = h
      BY <2>2, <2>8, <3>1, <3>2, <3>3 DEF DigestRecords
    <3> QED
      BY <3>4 DEF k
  <2>10. Gathered(x, u)
    BY <2>6, <2>7, <2>9 DEF Gathered
  <2> QED
    BY <2>10 DEF x, u
<1> QED
  BY <1>2, <1>3

LEMMA GatheringOfTwo ==
  ASSUME NEW d, NEW e, NEW size
  PROVE  Gathering(<<d, e>>, size)[Len(<<d, e>>)] = Gather(Gather(Empty(size), d), e)
<1> DEFINE ds == <<d, e>>
           b == Empty(size)
           b1 == Gather(b, d)
           b2 == Gather(b1, e)
           g == [n \in 0..2 |-> IF n = 0 THEN b ELSE IF n = 1 THEN b1 ELSE b2]
           gathering == Gathering(ds, size)
<1>1. /\ ds[1] = d /\ ds[2] = e /\ Len(ds) = 2
      /\ \A n \in 0..2 : n = 0 \/ n = 1 \/ n = 2
      /\ 0 \in 0..2 /\ 1 \in 0..2 /\ 2 \in 0..2 /\ 1 - 1 = 0 /\ 2 - 1 = 1
  OBVIOUS
<1> HIDE DEF b, b1, b2, ds
<1>2. g[0] = b /\ g[1] = Gather(g[0], ds[1]) /\ g[2] = Gather(g[1], ds[2])
  BY <1>1 DEF b1, b2
<1>3. g = [n \in 0..2 |-> g[n]]
  OBVIOUS
<1> HIDE DEF g
<1>4. \A n \in 0..2 : g[n] = IF n = 0 THEN b ELSE Gather(g[n - 1], ds[n])
  BY <1>1, <1>2
<1>5. g = [n \in 0..Len(ds) |-> IF n = 0 THEN b ELSE Gather(g[n - 1], ds[n])]
  BY <1>1, <1>3, <1>4
<1>6. gathering = [n \in 0..Len(ds) |-> IF n = 0 THEN b ELSE Gather(gathering[n - 1], ds[n])]
  BY <1>5, Zenon DEF Gathering, b
<1> HIDE DEF gathering
<1>7. gathering[0] = b /\ gathering[1] = Gather(gathering[0], d)
  BY <1>1, <1>6
<1>8. gathering[2] = Gather(gathering[1], e)
  BY <1>1, <1>6
<1> QED
  BY <1>1, <1>7, <1>8 DEF gathering, ds, b

(* Two digests merge into one of what both have taken. *)
LEMMA DigestOfTwo ==
  ASSUME NEW size \in Nat \ {0}, NEW t \in Seq(Int), NEW s \in Seq(Int),
         NEW d, NEW e, DigestOf(d, t, size, size), DigestOf(e, s, size, size)
  PROVE  \E n \in Nat : DigestOf(merge_digests(<<d, e>>), t \o s, n, size + 1)
<1> DEFINE ds == <<d, e>>
<1>1. ds[1] = d /\ ds[2] = e /\ Head(ds) = d /\ DOMAIN ds = {1, 2}
  OBVIOUS
<1>2. /\ Gathered(d, t) /\ Gathered(e, s) /\ d.max_size = size
      /\ d.centroids = <<>> <=> t = <<>>
      /\ e.centroids = <<>> <=> s = <<>>
  BY DEF DigestOf, Gathered, Made
<1>3. CASE \A i \in DOMAIN ds : ds[i].centroids = <<>>
  <2>1. d.centroids = <<>> /\ e.centroids = <<>>
    BY <1>1, <1>3
  <2>2. t \o s = <<>>
    BY <1>2, <2>1
  <2>3. merge_digests(ds) = Empty(100)
    BY <1>3 DEF merge_digests
  <2>4. 100 \in Nat /\ size + 1 \in Nat
    OBVIOUS
  <2>5. DigestOf(Empty(100), <<>>, 100, size + 1)
    BY <2>4, EmptyIsDigestOfNone
  <2> QED
    BY <2>2, <2>3, <2>4, <2>5
<1>4. CASE ~ \A i \in DOMAIN ds : ds[i].centroids = <<>>
  <2> DEFINE u == t \o s
             all == Gather(Gather(Empty(size), d), e)
             r == Compressed(all.centroids, size, all.count, 1)
  <2>1. u \in Seq(Int) /\ u # <<>>
    <3>1. t # <<>> \/ s # <<>>
      BY <1>1, <1>2, <1>4
    <3>2. u \in Seq(Int) /\ Len(u) = Len(t) + Len(s) /\ Len(t) \in Nat /\ Len(s) \in Nat
      BY Concatenation
    <3>3. Len(t) > 0 \/ Len(s) > 0
      BY <3>1
    <3> HIDE DEF u
    <3> QED
      BY <3>2, <3>3
  <2>2. Gathered(all, u)
    <3>1. DigestOf(Empty(size), <<>>, size, 0)
      BY EmptyIsDigestOfNone
    <3>2. <<>> \in Seq(Int) /\ <<>> \o t = t
      OBVIOUS
    <3>3. Gathered(Empty(size), <<>>)
      BY <3>1 DEF DigestOf
    <3>4. Gathered(Gather(Empty(size), d), t)
      <4>1. Gathered(Gather(Empty(size), d), <<>> \o t)
        BY <1>2, <3>2, <3>3, GatheredOfBoth
      <4> QED
        BY <3>2, <4>1
    <3> QED
      BY <1>2, <3>4, GatheredOfBoth
  <2>3. merge_digests(ds) = Digest(r, size, all.count, all.min, all.max)
    <3>1. Gathering(ds, size)[Len(ds)] = all
      BY GatheringOfTwo
    <3>2. merge_digests(ds) =
            LET a == Gathering(ds, Head(ds).max_size)[Len(ds)] IN
            Digest(Compressed(a.centroids, Head(ds).max_size, a.count, 1), Head(ds).max_size,
                   a.count, a.min, a.max)
      BY <1>4, Zenon DEF merge_digests
    <3>3. Head(ds).max_size = size
      BY <1>1, <1>2
    <3> HIDE DEF ds, all
    <3> QED
      BY <3>1, <3>2, <3>3
  <2> HIDE DEF u, all
  <2>4. Made(all.centroids, u, all.min, all.max) /\ all.count = Len(u)
    BY <2>2 DEF Gathered
  <2>5. DigestOf(Digest(r, size, all.count, all.min, all.max), u, size, size + 1)
    BY <2>1, <2>4, DigestOfCompressed
  <2> HIDE DEF ds, r
  <2> QED
    BY <2>3, <2>5 DEF u, ds
<1> QED
  BY <1>3, <1>4

LEMMA DigestDescribes ==
  ASSUME NEW d, NEW values \in Seq(Int), NEW size, NEW most, DigestOf(d, values, size, most)
  PROVE  Describes(d, values, most)
<1>1. /\ d.count = Len(values) /\ d.sum = Total(values) /\ Len(d.centroids) <= most
      /\ Made(d.centroids, values, d.min, d.max)
  BY DEF DigestOf, Gathered
<1>2. /\ WeightOf(d.centroids) = Len(values) /\ InOrder(d.centroids)
      /\ d.centroids = <<>> <=> values = <<>>
      /\ values # <<>> => /\ Extremes(values, d.min, d.max)
                          /\ \A c \in ToSet(d.centroids) : Between(c, d.min, d.max)
  BY <1>1 DEF Made
<1>3. values # <<>> => d.min = Min(ToSet(values)) /\ d.max = Max(ToSet(values))
  BY <1>2, ExtremesAreMinAndMax
<1>4. \A c \in ToSet(d.centroids) : d.min * c.weight <= c.sum /\ c.sum <= d.max * c.weight
  <2>1. CASE values = <<>>
    <3>1. ToSet(d.centroids) = {}
      BY <1>2, <2>1 DEF ToSet
    <3> QED
      BY <3>1
  <2>2. CASE values # <<>>
    BY <1>2, <2>2 DEF Between
  <2> QED
    BY <2>1, <2>2
<1>5. \A i \in 2..Len(d.centroids) : ~Before(d.centroids[i], d.centroids[i - 1])
  BY <1>2 DEF InOrder, NotAbove
<1> QED
  BY <1>1, <1>2, <1>3, <1>4, <1>5 DEF Describes
-----------------------------------------------------------------------------
(* The inductive invariant: each digest is one of the observations it stands for.    *)
DigestInvariant ==
  /\ buffer \in Seq(Values) /\ observed \in Seq(Values) /\ given \in Seq(Values)
  /\ Len(buffer) < BufferSize
  /\ Len(buffer) <= Len(observed)
  /\ observed = Digested \o buffer
  /\ DigestOf(current, Digested, MaxSize, MaxSize)
  /\ DigestOf(snapshot, given, MaxSize, MaxSize)

LEMMA ValuesAreInt ==
  ASSUME NEW s \in Seq(Values) PROVE s \in Seq(Int)
<1>1. Values \subseteq Int
  BY OnlineAssumption
<1>2. Len(s) \in Nat /\ s \in [1..Len(s) -> Int]
  <2>1. Len(s) \in Nat /\ s \in [1..Len(s) -> Values]
    OBVIOUS
  <2> QED
    BY <1>1, <2>1
<1> QED
  BY <1>2, SeqDef

LEMMA DigestedFacts ==
  ASSUME NEW o \in Seq(Values), NEW b \in Seq(Values), Len(b) <= Len(o)
  PROVE  /\ SubSeq(o, 1, Len(o) - Len(b)) \in Seq(Values)
         /\ Len(SubSeq(o, 1, Len(o) - Len(b))) = Len(o) - Len(b)
         /\ Len(o) \in Nat /\ Len(b) \in Nat
OBVIOUS

LEMMA InitEstablishes == Init => DigestInvariant
<1> SUFFICES ASSUME Init PROVE DigestInvariant
  OBVIOUS
<1>1. /\ buffer = <<>> /\ observed = <<>> /\ given = <<>>
      /\ current = Empty(MaxSize) /\ snapshot = Empty(MaxSize)
  BY DEF Init
<1>2. Digested = <<>> /\ Len(<<>>) = 0 /\ <<>> \o <<>> = <<>> /\ <<>> \in Seq(Values)
  BY <1>1 DEF Digested
<1>3. DigestOf(Empty(MaxSize), <<>>, MaxSize, MaxSize)
  BY OnlineAssumption, EmptyIsDigestOfNone
<1> QED
  BY <1>1, <1>2, <1>3, OnlineAssumption DEF DigestInvariant

(* Flushed, a digest is one of all that was observed, ... *)
LEMMA FlushedIsDigest ==
  ASSUME DigestInvariant, NEW s \in Seq(Values)
  PROVE  DigestOf(Flushed(s), Digested \o s, MaxSize, MaxSize)
<1>1. Digested \in Seq(Values)
  BY DigestedFacts DEF DigestInvariant, Digested
<1>2. Digested \in Seq(Int) /\ s \in Seq(Int)
  BY <1>1, ValuesAreInt
<1> QED
  BY <1>2, OnlineAssumption, DigestOfMerged DEF DigestInvariant, Flushed

(* ... whether the buffer is empty then ... *)
LEMMA WithoutBuffer ==
  ASSUME NEW o \in Seq(Values)
  PROVE  SubSeq(o, 1, Len(o) - Len(<<>>)) = o /\ o \o <<>> = o
OBVIOUS

(* ... or takes one more. *)
LEMMA WithOneMore ==
  ASSUME NEW o \in Seq(Values), NEW b \in Seq(Values), NEW v \in Values, Len(b) <= Len(o),
         o = SubSeq(o, 1, Len(o) - Len(b)) \o b
  PROVE  /\ Append(o, v) \in Seq(Values) /\ Append(b, v) \in Seq(Values)
         /\ Len(Append(b, v)) = Len(b) + 1 /\ Len(Append(o, v)) = Len(o) + 1
         /\ SubSeq(Append(o, v), 1, Len(Append(o, v)) - Len(Append(b, v))) =
              SubSeq(o, 1, Len(o) - Len(b))
         /\ Append(o, v) = SubSeq(o, 1, Len(o) - Len(b)) \o Append(b, v)
<1> DEFINE p == SubSeq(o, 1, Len(o) - Len(b))
<1>1. /\ Append(o, v) \in Seq(Values) /\ Append(b, v) \in Seq(Values)
      /\ Len(Append(b, v)) = Len(b) + 1 /\ Len(Append(o, v)) = Len(o) + 1
      /\ Len(o) \in Nat /\ Len(b) \in Nat
  OBVIOUS
<1>2. Len(Append(o, v)) - Len(Append(b, v)) = Len(o) - Len(b)
  BY <1>1
<1>3. SubSeq(Append(o, v), 1, Len(o) - Len(b)) = p
  OBVIOUS
<1>4. Append(p \o b, v) = p \o Append(b, v)
  <2>1. p \in Seq(Values)
    OBVIOUS
  <2> HIDE DEF p
  <2>2. /\ Append(b, v) = b \o <<v>> /\ Append(p \o b, v) = (p \o b) \o <<v>>
        /\ <<v>> \in Seq(Values)
    BY <2>1, AppendIsConcat
  <2> QED
    BY SMTT(30), <2>1, <2>2, ConcatAssociative
<1> QED
  BY <1>1, <1>2, <1>3, <1>4

(* What is recorded and what was digested make up all that was observed. *)
LEMMA ObservedFacts ==
  ASSUME DigestInvariant, NEW v \in Values, Observe(v)
  PROVE  LET recorded == Append(buffer, v) IN
         /\ observed' \in Seq(Values) /\ recorded \in Seq(Values)
         /\ Len(recorded) = Len(buffer) + 1 /\ Len(observed') = Len(observed) + 1
         /\ SubSeq(observed', 1, Len(observed') - Len(recorded)) = Digested
         /\ observed' = Digested \o recorded
         /\ Len(buffer) \in Nat /\ Len(observed) \in Nat
<1> DEFINE recorded == Append(buffer, v)
           o == observed
           b == buffer
<1>1. o \in Seq(Values) /\ b \in Seq(Values) /\ o' = Append(o, v)
  BY DEF DigestInvariant, Observe
<1>2. o = SubSeq(o, 1, Len(o) - Len(b)) \o b /\ Len(b) <= Len(o)
  BY DEF DigestInvariant, Digested
<1>3. /\ Append(o, v) \in Seq(Values) /\ recorded \in Seq(Values)
      /\ Len(recorded) = Len(b) + 1 /\ Len(Append(o, v)) = Len(o) + 1
      /\ SubSeq(Append(o, v), 1, Len(Append(o, v)) - Len(recorded)) =
           SubSeq(o, 1, Len(o) - Len(b))
      /\ Append(o, v) = SubSeq(o, 1, Len(o) - Len(b)) \o recorded
  BY <1>1, <1>2, WithOneMore
<1>4. Len(b) \in Nat /\ Len(o) \in Nat
  BY <1>1
<1> HIDE DEF recorded
<1> QED
  BY <1>1, <1>3, <1>4 DEF Digested, recorded

LEMMA ObservePreserves ==
  ASSUME DigestInvariant, NEW v \in Values, Observe(v)
  PROVE  DigestInvariant'
<1> DEFINE recorded == Append(buffer, v)
<1>1. /\ buffer \in Seq(Values) /\ observed \in Seq(Values) /\ given \in Seq(Values)
      /\ Len(buffer) <= Len(observed) /\ Len(buffer) < BufferSize
      /\ observed = Digested \o buffer
  BY DEF DigestInvariant
<1>2. /\ observed' = Append(observed, v) /\ snapshot' = snapshot /\ given' = given
  BY DEF Observe
<1>3. /\ observed' \in Seq(Values) /\ recorded \in Seq(Values)
      /\ Len(recorded) = Len(buffer) + 1 /\ Len(observed') = Len(observed) + 1
      /\ SubSeq(observed', 1, Len(observed') - Len(recorded)) = Digested
      /\ observed' = Digested \o recorded
      /\ Len(buffer) \in Nat /\ Len(observed) \in Nat
  BY ObservedFacts
<1>4. DigestOf(snapshot, given, MaxSize, MaxSize)'
  BY <1>2 DEF DigestInvariant
<1> HIDE DEF recorded
<1>5. CASE Len(recorded) = BufferSize /\ current' = Flushed(recorded) /\ buffer' = <<>>
  <2>1. Digested' = observed' /\ observed' \o <<>> = observed'
    BY <1>3, <1>5, WithoutBuffer DEF Digested
  <2>2. DigestOf(current', Digested', MaxSize, MaxSize)
    BY <1>3, <1>5, <2>1, FlushedIsDigest
  <2>3. buffer' \in Seq(Values) /\ Len(buffer') = 0
    BY <1>5
  <2> QED
    BY <1>1, <1>2, <1>3, <1>4, <1>5, <2>1, <2>2, <2>3, OnlineAssumption DEF DigestInvariant
<1>6. CASE Len(recorded) # BufferSize /\ buffer' = recorded /\ current' = current
  <2>1. Digested' = Digested
    BY <1>3, <1>6 DEF Digested
  <2>2. DigestOf(current, Digested, MaxSize, MaxSize)
    BY DEF DigestInvariant
  <2>3. Len(recorded) < BufferSize /\ Len(recorded) <= Len(observed')
    BY <1>1, <1>3, <1>6, OnlineAssumption
  <2> QED
    BY <1>1, <1>2, <1>3, <1>4, <1>6, <2>1, <2>2, <2>3 DEF DigestInvariant
<1> QED
  BY <1>5, <1>6 DEF Observe, recorded

LEMMA GetPreserves ==
  ASSUME DigestInvariant, Get PROVE DigestInvariant'
<1>1. /\ current' = Flushed(buffer) /\ buffer' = <<>>
      /\ snapshot' = snapshot /\ observed' = observed /\ given' = given
  BY DEF Get
<1>2. /\ buffer \in Seq(Values) /\ observed \in Seq(Values) /\ given \in Seq(Values)
      /\ observed = Digested \o buffer /\ DigestOf(snapshot, given, MaxSize, MaxSize)
      /\ Len(observed) \in Nat
  BY DEF DigestInvariant
<1>3. Digested' = observed /\ observed \o <<>> = observed
  BY <1>1, <1>2, WithoutBuffer DEF Digested
<1>4. DigestOf(current', observed, MaxSize, MaxSize)
  BY <1>1, <1>2, FlushedIsDigest
<1>5. <<>> \in Seq(Values) /\ Len(<<>>) = 0
  OBVIOUS
<1> QED
  BY <1>1, <1>2, <1>3, <1>4, <1>5, OnlineAssumption DEF DigestInvariant

(* Both resets give away what was observed and begin with none. *)
LEMMA ResetPreserves ==
  ASSUME DigestInvariant, TakeSnapshot, DigestOf(current', <<>>, MaxSize, MaxSize)
  PROVE  DigestInvariant'
<1>1. /\ snapshot' = Flushed(buffer) /\ buffer' = <<>> /\ given' = observed /\ observed' = <<>>
  BY DEF TakeSnapshot
<1>2. /\ buffer \in Seq(Values) /\ observed \in Seq(Values) /\ observed = Digested \o buffer
  BY DEF DigestInvariant
<1>3. <<>> \in Seq(Values) /\ Len(<<>>) = 0 /\ <<>> \o <<>> = <<>>
  OBVIOUS
<1>4. Digested' = <<>>
  BY <1>1, <1>3, WithoutBuffer DEF Digested
<1>5. DigestOf(snapshot', given', MaxSize, MaxSize)
  BY <1>1, <1>2, FlushedIsDigest
<1> QED
  BY <1>1, <1>2, <1>3, <1>4, <1>5, OnlineAssumption DEF DigestInvariant

LEMMA NextPreserves == DigestInvariant /\ [Next]_vars => DigestInvariant'
<1> SUFFICES ASSUME DigestInvariant, [Next]_vars PROVE DigestInvariant'
  OBVIOUS
<1>1. ASSUME NEW v \in Values, Observe(v) PROVE DigestInvariant'
  BY <1>1, ObservePreserves
<1>2. CASE Get
  BY <1>2, GetPreserves
<1>3. CASE Reset
  <2>1. DigestOf(current', <<>>, MaxSize, MaxSize)
    BY <1>3, OnlineAssumption, EmptyIsDigestOfNone DEF Reset
  <2> QED
    BY <1>3, <2>1, ResetPreserves DEF Reset
<1>4. CASE ResetMut
  <2>1. snapshot'.max_size = MaxSize
    <3>1. snapshot' = Flushed(buffer) /\ buffer \in Seq(Values)
      BY <1>4 DEF ResetMut, TakeSnapshot, DigestInvariant
    <3> QED
      BY <3>1, FlushedIsDigest DEF DigestOf
  <2>2. DigestOf(current', <<>>, MaxSize, MaxSize)
    BY <1>4, <2>1, OnlineAssumption, ResetIsDigestOfNone DEF ResetMut
  <2> QED
    BY <1>4, <2>2, ResetPreserves DEF ResetMut
<1>5. CASE UNCHANGED vars
  BY <1>5 DEF vars, DigestInvariant, Digested
<1> QED
  BY <1>1, <1>2, <1>3, <1>4, <1>5 DEF Next

THEOREM DigestInvariantHolds == Spec => []DigestInvariant
BY InitEstablishes, NextPreserves, PTL DEF Spec
-----------------------------------------------------------------------------
(* The digests, the buffer and the histories keep their types (online_tdigest.rs:18). *)
THEOREM TypeCorrect == Spec => []TypeOK
<1>1. ASSUME NEW d, NEW values, DigestOf(d, values, MaxSize, MaxSize) PROVE IsDigest(d)
  <2>1. d \in DigestRecords /\ d.max_size = MaxSize
    BY <1>1 DEF DigestOf, Gathered
  <2> QED
    BY <2>1 DEF IsDigest, DigestRecords
<1>2. DigestInvariant => TypeOK
  BY <1>1 DEF DigestInvariant, TypeOK
<1> QED
  BY <1>2, DigestInvariantHolds, PTL

(* No observation is forgotten or counted twice, and the buffer has room for the    *)
(* next (online_tdigest.rs:129, online_tdigest.rs:137).                             *)
THEOREM NoObservationIsForgotten == Spec => []NothingForgotten
<1>1. DigestInvariant => NothingForgotten
  <2> SUFFICES ASSUME DigestInvariant PROVE NothingForgotten
    OBVIOUS
  <2>1. /\ current.count = Len(Digested) /\ snapshot.count = Len(given)
        /\ Len(buffer) < BufferSize
    BY DEF DigestInvariant, DigestOf, Gathered
  <2>2. /\ Len(Digested) = Len(observed) - Len(buffer)
        /\ Len(observed) \in Nat /\ Len(buffer) \in Nat
    BY DigestedFacts DEF DigestInvariant, Digested
  <2> DEFINE n == current.count
             m == Len(buffer)
             k == Len(observed)
  <2>3. n = k - m /\ k \in Nat /\ m \in Nat
    BY <2>1, <2>2
  <2> HIDE DEF n, m, k
  <2>4. n + m = k
    BY <2>3
  <2> QED
    BY <2>1, <2>4 DEF NothingForgotten, n, m, k
<1> QED
  BY <1>1, DigestInvariantHolds, PTL

(* However often it was compressed, a digest is one of exactly the observations since *)
(* the reset before it, its centroids in order, between the extremes and within its   *)
(* size; and two digests merge into one of what both have taken, one centroid larger  *)
(* at most (tdigest.rs:262, tdigest.rs:455).                                          *)
THEOREM DigestsDescribeObservations == Spec => []DigestsDescribe
<1>1. DigestInvariant => DigestsDescribe
  <2> SUFFICES ASSUME DigestInvariant PROVE DigestsDescribe
    OBVIOUS
  <2>1. Digested \in Seq(Values) /\ given \in Seq(Values)
    BY DigestedFacts DEF DigestInvariant, Digested
  <2>2. Digested \in Seq(Int) /\ given \in Seq(Int)
    BY <2>1, ValuesAreInt
  <2>3. /\ DigestOf(current, Digested, MaxSize, MaxSize)
        /\ DigestOf(snapshot, given, MaxSize, MaxSize)
    BY DEF DigestInvariant
  <2>4. PICK n \in Nat :
          DigestOf(merge_digests(<<snapshot, current>>), given \o Digested, n, MaxSize + 1)
    BY <2>2, <2>3, OnlineAssumption, DigestOfTwo
  <2>5. given \o Digested \in Seq(Int)
    BY <2>2, Concatenation
  <2> QED
    BY <2>2, <2>3, <2>4, <2>5, DigestDescribes DEF DigestsDescribe
<1> QED
  BY <1>1, DigestInvariantHolds, PTL
-----------------------------------------------------------------------------
(* The places of a sequence that grows *)
LEMMA AppendPlaces ==
  ASSUME NEW A, NEW s \in Seq(A), NEW x \in A
  PROVE  /\ Append(s, x) = [i \in 1..(Len(s) + 1) |-> Append(s, x)[i]]
         /\ Append(s, x)[Len(s) + 1] = x
         /\ \A i \in 1..Len(s) : Append(s, x)[i] = s[i]
<1>1. Append(s, x) \in Seq(A) /\ Len(Append(s, x)) = Len(s) + 1
  OBVIOUS
<1>2. Append(s, x) = [i \in 1..Len(Append(s, x)) |-> Append(s, x)[i]]
  <2> DEFINE t == Append(s, x)
  <2>1. t \in Seq(A)
    BY <1>1
  <2> HIDE DEF t
  <2>2. t \in [1..Len(t) -> A]
    BY <2>1
  <2> QED
    BY <2>2 DEF t
<1> QED
  BY <1>1, <1>2

LEMMA ConcatPlaces ==
  ASSUME NEW A, NEW s \in Seq(A), NEW t \in Seq(A)
  PROVE  /\ s \o t = [i \in 1..(Len(s) + Len(t)) |-> (s \o t)[i]]
         /\ \A i \in 1..Len(s) : (s \o t)[i] = s[i]
         /\ \A i \in 1..(Len(s) + Len(t)) : i \notin 1..Len(s) => (s \o t)[i] = t[i - Len(s)]
<1>1. s \o t \in Seq(A) /\ Len(s \o t) = Len(s) + Len(t)
  OBVIOUS
<1>2. s \o t = [i \in 1..Len(s \o t) |-> (s \o t)[i]]
  <2> DEFINE u == s \o t
  <2>1. u \in Seq(A)
    BY <1>1
  <2> HIDE DEF u
  <2>2. u \in [1..Len(u) -> A]
    BY <2>1
  <2> QED
    BY <2>2 DEF u
<1>3. \A i \in 1..Len(s) : (s \o t)[i] = s[i]
  OBVIOUS
<1>4. \A i \in 1..(Len(s) + Len(t)) : i \notin 1..Len(s) => (s \o t)[i] = t[i - Len(s)]
  OBVIOUS
<1> QED
  BY <1>1, <1>2, <1>3, <1>4

(* Counting: how many of a sequence are in Y *)
Marks(s, Y) == [i \in 1..Len(s) |-> IF s[i] \in Y THEN 1 ELSE 0]
Count(s, Y) == Total(Marks(s, Y))

LEMMA MarksFacts ==
  ASSUME NEW A, NEW s \in Seq(A), NEW Y
  PROVE  /\ Marks(s, Y) \in Seq(Int) /\ Len(Marks(s, Y)) = Len(s)
         /\ \A i \in 1..Len(s) : Marks(s, Y)[i] = IF s[i] \in Y THEN 1 ELSE 0
<1>1. Len(s) \in Nat /\ \A i \in 1..Len(s) : Marks(s, Y)[i] = IF s[i] \in Y THEN 1 ELSE 0
  BY DEF Marks
<1>2. Marks(s, Y) \in [1..Len(s) -> Int]
  BY DEF Marks
<1> HIDE DEF Marks
<1>3. Marks(s, Y) \in Seq(Int)
  BY <1>1, <1>2, SeqDef
<1> QED
  BY <1>1, <1>2, <1>3

LEMMA CountOfEmpty ==
  ASSUME NEW Y
  PROVE  Count(<<>>, Y) = 0
<1>1. Marks(<<>>, Y) = <<>>
  BY DEF Marks
<1> QED
  BY <1>1, TotalOfEmpty DEF Count

LEMMA CountIsInt ==
  ASSUME NEW A, NEW s \in Seq(A), NEW Y
  PROVE  Count(s, Y) \in Int
<1>1. Marks(s, Y) \in Seq(Int) /\ 0 \in Int
  BY MarksFacts
<1> QED
  BY <1>1, TotalOfAppend DEF Count

LEMMA CountOfAppend ==
  ASSUME NEW A, NEW s \in Seq(A), NEW x \in A, NEW Y
  PROVE  /\ Count(s, Y) \in Int
         /\ Count(Append(s, x), Y) = Count(s, Y) + (IF x \in Y THEN 1 ELSE 0)
<1> DEFINE t == Append(s, x)
           m == Marks(s, Y)
           b == IF x \in Y THEN 1 ELSE 0
<1>1. /\ t \in Seq(A) /\ Len(t) = Len(s) + 1 /\ Len(s) \in Nat
      /\ t[Len(s) + 1] = x /\ \A i \in 1..Len(s) : t[i] = s[i]
  OBVIOUS
<1>2. m \in Seq(Int) /\ Len(m) = Len(s) /\ b \in Int
  BY MarksFacts
<1>3. Marks(t, Y) = Append(m, b)
  <2>1. /\ Append(m, b) = [i \in 1..(Len(s) + 1) |-> Append(m, b)[i]]
        /\ Append(m, b)[Len(s) + 1] = b /\ \A i \in 1..Len(s) : Append(m, b)[i] = m[i]
    <3> HIDE DEF m, b, t
    <3>1. /\ Append(m, b) = [i \in 1..(Len(m) + 1) |-> Append(m, b)[i]]
          /\ Append(m, b)[Len(m) + 1] = b /\ \A i \in 1..Len(m) : Append(m, b)[i] = m[i]
      BY <1>2, AppendPlaces
    <3> QED
      BY <1>2, <3>1
  <2>2. \A i \in 1..Len(s) : m[i] = IF s[i] \in Y THEN 1 ELSE 0
    BY DEF Marks
  <2>3. \A i \in 1..(Len(s) + 1) : i # Len(s) + 1 => i \in 1..Len(s)
    BY <1>1
  <2>4. \A i \in 1..(Len(s) + 1) : Append(m, b)[i] = IF t[i] \in Y THEN 1 ELSE 0
    <3> SUFFICES ASSUME NEW i \in 1..(Len(s) + 1)
                 PROVE  Append(m, b)[i] = IF t[i] \in Y THEN 1 ELSE 0
      OBVIOUS
    <3> HIDE DEF m, t
    <3>1. CASE i = Len(s) + 1
      BY <1>1, <2>1, <3>1
    <3>2. CASE i # Len(s) + 1
      BY <1>1, <2>1, <2>2, <2>3, <3>2
    <3> QED
      BY <3>1, <3>2
  <2> HIDE DEF m, b, t
  <2> QED
    BY <1>1, <2>1, <2>4 DEF Marks
<1>4. Total(m) \in Int /\ Total(Append(m, b)) = Total(m) + b
  <2> HIDE DEF m, b
  <2> QED
    BY <1>2, TotalOfAppend
<1> QED
  BY <1>3, <1>4 DEF Count

LEMMA CountOfPrefix ==
  ASSUME NEW A, NEW s \in Seq(A), NEW k \in Nat, k < Len(s), NEW Y
  PROVE  /\ Count(SubSeq(s, 1, k), Y) \in Int
         /\ Count(SubSeq(s, 1, k + 1), Y) =
              Count(SubSeq(s, 1, k), Y) + (IF s[k + 1] \in Y THEN 1 ELSE 0)
<1> DEFINE p == SubSeq(s, 1, k)
           x == s[k + 1]
<1>1. x \in A /\ p \in Seq(A)
  OBVIOUS
<1>2. SubSeq(s, 1, k + 1) = Append(p, x)
  OBVIOUS
<1> HIDE DEF p, x
<1>3. Count(p, Y) \in Int /\ Count(Append(p, x), Y) = Count(p, Y) + (IF x \in Y THEN 1 ELSE 0)
  BY <1>1, CountOfAppend
<1> QED
  BY <1>2, <1>3 DEF p, x

LEMMA CountOfBoth ==
  ASSUME NEW A, NEW s \in Seq(A), NEW t \in Seq(A), NEW Y
  PROVE  Count(s \o t, Y) = Count(s, Y) + Count(t, Y)
<1> DEFINE m == Marks(s, Y)
           n == Marks(t, Y)
           u == s \o t
<1>1. /\ u \in Seq(A) /\ Len(u) = Len(s) + Len(t) /\ Len(s) \in Nat /\ Len(t) \in Nat
      /\ \A i \in 1..Len(s) : u[i] = s[i]
      /\ \A i \in 1..Len(u) : i \notin 1..Len(s) => /\ i - Len(s) \in 1..Len(t)
                                                    /\ u[i] = t[i - Len(s)]
  OBVIOUS
<1>2. /\ m \in Seq(Int) /\ Len(m) = Len(s)
      /\ \A i \in 1..Len(s) : m[i] = IF s[i] \in Y THEN 1 ELSE 0
      /\ n \in Seq(Int) /\ Len(n) = Len(t)
      /\ \A i \in 1..Len(t) : n[i] = IF t[i] \in Y THEN 1 ELSE 0
  BY MarksFacts
<1> HIDE DEF m, n, u
<1>3. Marks(u, Y) = m \o n
  <2>1. /\ m \o n = [i \in 1..Len(u) |-> (m \o n)[i]]
        /\ \A i \in 1..Len(s) : (m \o n)[i] = m[i]
        /\ \A i \in 1..Len(u) : i \notin 1..Len(s) => (m \o n)[i] = n[i - Len(s)]
    <3>0. m \in Seq(Int) /\ n \in Seq(Int)
      BY <1>2
    <3>1. /\ m \o n = [i \in 1..(Len(m) + Len(n)) |-> (m \o n)[i]]
          /\ \A i \in 1..Len(m) : (m \o n)[i] = m[i]
          /\ \A i \in 1..(Len(m) + Len(n)) : i \notin 1..Len(m) => (m \o n)[i] = n[i - Len(m)]
      BY <3>0, ConcatPlaces, Zenon
    <3> QED
      BY <1>1, <1>2, <3>1
  <2>2. \A i \in 1..Len(u) : (m \o n)[i] = IF u[i] \in Y THEN 1 ELSE 0
    BY <1>1, <1>2, <2>1
  <2> QED
    BY <2>1, <2>2 DEF Marks
<1>4. Total(m \o n) = Total(m) + Total(n)
  BY <1>2, Concatenation
<1> QED
  BY <1>3, <1>4 DEF Count, m, n, u

(* The places of a sequence that hold an element of Y *)
Places(s, Y) == {i \in 1..Len(s) : s[i] \in Y}

LEMMA CountIsCardinality ==
  ASSUME NEW A, NEW s \in Seq(A), NEW Y
  PROVE  Count(s, Y) = Cardinality(Places(s, Y))
<1> DEFINE N == Len(s)
           P(n) == {i \in 1..n : s[i] \in Y}
           g == [n \in 0..N |-> Count(SubSeq(s, 1, n), Y)]
           T == [n \in 0..N |-> {Cardinality(P(n))}]
<1>1. N \in Nat /\ 0 \in 0..N /\ N \in 0..N
  OBVIOUS
<1>2. g[0] \in T[0]
  <2>1. SubSeq(s, 1, 0) = <<>> /\ P(0) = {}
    OBVIOUS
  <2>2. Count(<<>>, Y) = 0 /\ Cardinality({}) = 0
    BY CountOfEmpty, FS_EmptySet
  <2>3. g[0] = 0 /\ T[0] = {0}
    <3>1. g[0] = Count(SubSeq(s, 1, 0), Y) /\ T[0] = {Cardinality(P(0))}
      BY <1>1
    <3> HIDE DEF g, T, P
    <3> QED
      BY <2>1, <2>2, <3>1
  <2> QED
    BY <2>3
<1>3. ASSUME NEW n \in 1..N, g[n - 1] \in T[n - 1] PROVE g[n] \in T[n]
  <2> DEFINE k == n - 1
  <2>1. k \in Nat /\ k < Len(s) /\ n = k + 1 /\ n \in 0..N /\ k \in 0..N
    BY <1>1
  <2> HIDE DEF k
  <2>2. Count(SubSeq(s, 1, k), Y) = Cardinality(P(k))
    BY <1>3, <2>1 DEF k
  <2>3. /\ Count(SubSeq(s, 1, k), Y) \in Int
        /\ Count(SubSeq(s, 1, n), Y) =
             Count(SubSeq(s, 1, k), Y) + (IF s[n] \in Y THEN 1 ELSE 0)
    BY <2>1, CountOfPrefix
  <2>4. IsFiniteSet(P(k))
    <3>1. IsFiniteSet(1..k) /\ P(k) \subseteq 1..k
      BY <2>1, FS_Interval
    <3> HIDE DEF P
    <3> QED
      BY <3>1, FS_Subset
  <2>5. P(n) = IF s[n] \in Y THEN P(k) \cup {n} ELSE P(k)
    <3>1. 1..n = 1..k \cup {n}
      BY <2>1
    <3> QED
      BY <3>1
  <2>6. n \notin P(k)
    BY <2>1
  <2> HIDE DEF P
  <2>7. Cardinality(P(n)) = Cardinality(P(k)) + (IF s[n] \in Y THEN 1 ELSE 0)
    <3>1. CASE s[n] \in Y
      BY <2>4, <2>5, <2>6, <3>1, FS_AddElement
    <3>2. CASE s[n] \notin Y
      <4>1. P(n) = P(k)
        BY <2>5, <3>2
      <4>2. Cardinality(P(k)) \in Int
        BY <2>2, <2>3
      <4> HIDE DEF P
      <4> QED
        BY <3>2, <4>1, <4>2
    <3> QED
      BY <3>1, <3>2
  <2>8. g[n] = Count(SubSeq(s, 1, n), Y) /\ T[n] = {Cardinality(P(n))}
    BY <2>1
  <2> HIDE DEF g, T
  <2> QED
    BY <2>2, <2>3, <2>7, <2>8
<1>4. \A n \in 0..N : g[n] \in T[n]
  <2> HIDE DEF N, g, T
  <2> QED
    BY <1>1, <1>2, <1>3, LoopInvariant
<1>5. g[N] \in T[N] /\ g[N] = Count(SubSeq(s, 1, N), Y) /\ T[N] = {Cardinality(P(N))}
  BY <1>1, <1>4
<1>6. SubSeq(s, 1, N) = s
  OBVIOUS
<1>7. P(N) = Places(s, Y)
  BY DEF Places
<1> HIDE DEF g, T, P
<1> QED
  BY <1>5, <1>6, <1>7
-----------------------------------------------------------------------------
(* What is merged is in the result as often as in both. *)
MergeCount(first, second, Y, m) ==
  Count(m.result, Y) =
    Count(SubSeq(first, 1, m.i), Y) + Count(SubSeq(second, 1, m.j), Y)

LEMMA MergeCounts ==
  ASSUME NEW first \in Seq(Centroid), NEW second \in Seq(Centroid), NEW Y,
         NEW n \in 1..(Len(first) + Len(second)),
         NEW m \in MergeRecords, MergeState(first, second, n - 1, m),
         MergeCount(first, second, Y, m)
  PROVE  MergeCount(first, second, Y, MergeNext(first, second, m))
<1> DEFINE x == MergeNext(first, second, m)
           f == Count(SubSeq(first, 1, m.i), Y)
           s == Count(SubSeq(second, 1, m.j), Y)
<1>1. /\ m.i \in Nat /\ m.j \in Nat /\ m.result \in Seq(Centroid)
      /\ n \in Nat /\ Len(first) \in Nat /\ Len(second) \in Nat
      /\ m.i <= Len(first) /\ m.j <= Len(second) /\ m.i + m.j = n - 1
  BY DEF MergeRecords, MergeState
<1>2. Count(m.result, Y) = f + s
  BY DEF MergeCount
<1>3. f \in Int /\ s \in Int
  <2>1. SubSeq(first, 1, m.i) \in Seq(Centroid) /\ SubSeq(second, 1, m.j) \in Seq(Centroid)
    BY <1>1
  <2> QED
    BY <2>1, CountIsInt
<1> HIDE DEF f, s
<1>4. CASE m.j < Len(second) /\ (m.i = Len(first) \/ Before(second[m.j + 1], first[m.i + 1]))
  <2> DEFINE c == second[m.j + 1]
             b == IF c \in Y THEN 1 ELSE 0
  <2>1. x.i = m.i /\ x.j = m.j + 1 /\ x.result = Append(m.result, c)
    BY <1>4 DEF MergeNext, MergeRecords
  <2>2. c \in Centroid /\ b \in Int
    BY <1>1, <1>4
  <2>3. Count(SubSeq(second, 1, m.j + 1), Y) = s + b
    BY <1>1, <1>4, CountOfPrefix DEF s
  <2> HIDE DEF c, x
  <2>4. Count(Append(m.result, c), Y) = Count(m.result, Y) + b
    BY <1>1, <2>2, CountOfAppend, SMTT(30)
  <2> HIDE DEF b
  <2>5. (f + s) + b = f + (s + b)
    BY <1>3, <2>2
  <2>6. MergeCount(first, second, Y, x)
    BY <1>2, <2>1, <2>3, <2>4, <2>5 DEF MergeCount, f
  <2> QED
    BY <2>6 DEF x
<1>5. CASE ~(m.j < Len(second) /\ (m.i = Len(first) \/ Before(second[m.j + 1], first[m.i + 1])))
  <2> DEFINE c == first[m.i + 1]
             b == IF c \in Y THEN 1 ELSE 0
  <2>1. x.i = m.i + 1 /\ x.j = m.j /\ x.result = Append(m.result, c)
    BY <1>5 DEF MergeNext, MergeRecords
  <2>2. m.i < Len(first)
    BY <1>1, <1>5
  <2>3. c \in Centroid /\ b \in Int
    BY <1>1, <2>2
  <2>4. Count(SubSeq(first, 1, m.i + 1), Y) = f + b
    BY <1>1, <2>2, CountOfPrefix DEF f
  <2> HIDE DEF c, x
  <2>5. Count(Append(m.result, c), Y) = Count(m.result, Y) + b
    BY <1>1, <2>3, CountOfAppend, SMTT(30)
  <2> HIDE DEF b
  <2>6. (f + s) + b = (f + b) + s
    BY <1>3, <2>3
  <2>7. MergeCount(first, second, Y, x)
    BY <1>2, <2>1, <2>4, <2>5, <2>6 DEF MergeCount, s
  <2> QED
    BY <2>7 DEF x
<1> QED
  BY <1>4, <1>5

LEMMA CountOfMerged ==
  ASSUME NEW first \in Seq(Centroid), NEW second \in Seq(Centroid),
         InOrder(first), InOrder(second), NEW Y
  PROVE  Count(Merged(first, second), Y) = Count(first, Y) + Count(second, Y)
<1> DEFINE N == Len(first) + Len(second)
           merging == Merging(first, second)
           T == [n \in 0..N |-> {m \in MergeRecords : MergeCount(first, second, Y, m)}]
<1>1. N \in Nat /\ 0 \in 0..N /\ N \in 0..N /\ \A n \in 1..N : n - 1 \in 0..N /\ n \in 0..N
  OBVIOUS
<1>2. /\ merging[0] = [i |-> 0, j |-> 0, result |-> <<>>]
      /\ \A n \in 1..N : merging[n] = MergeNext(first, second, merging[n - 1])
      /\ \A n \in 0..N : /\ merging[n] \in MergeRecords
                         /\ MergeState(first, second, n, merging[n])
  BY MergingStates
<1> HIDE DEF merging
<1>3. merging[0] \in T[0]
  <2>1. merging[0].i = 0 /\ merging[0].j = 0 /\ merging[0].result = <<>>
    BY <1>2
  <2>2. SubSeq(first, 1, 0) = <<>> /\ SubSeq(second, 1, 0) = <<>> /\ 0 = 0 + 0
    OBVIOUS
  <2>3. MergeCount(first, second, Y, merging[0])
    BY <2>1, <2>2, CountOfEmpty DEF MergeCount
  <2> QED
    BY <1>1, <1>2, <2>3
<1>4. ASSUME NEW n \in 1..N, merging[n - 1] \in T[n - 1] PROVE merging[n] \in T[n]
  <2>1. MergeCount(first, second, Y, merging[n - 1])
    BY <1>1, <1>4
  <2>2. merging[n - 1] \in MergeRecords /\ MergeState(first, second, n - 1, merging[n - 1])
    BY <1>1, <1>2
  <2>3. MergeCount(first, second, Y, merging[n])
    BY <1>2, <2>1, <2>2, MergeCounts
  <2> QED
    BY <1>1, <1>2, <2>3
<1>5. \A n \in 0..N : merging[n] \in T[n]
  <2> HIDE DEF N, T
  <2> QED
    BY <1>1, <1>3, <1>4, LoopInvariant
<1>6. MergeCount(first, second, Y, merging[N])
  BY <1>1, <1>5
<1>7. merging[N] \in MergeRecords /\ MergeState(first, second, N, merging[N])
  BY <1>1, <1>2
<1>8. merging[N].i = Len(first) /\ merging[N].j = Len(second)
  BY <1>7 DEF MergeRecords, MergeState
<1>9. Merged(first, second) = merging[N].result
  BY DEF Merged, merging
<1> QED
  BY <1>6, <1>8, <1>9, EmptyPrefix DEF MergeCount

(* The centroids that values come as *)
Singles(values) == [i \in 1..Len(values) |-> Single(values[i])]

LEMMA SinglesFacts ==
  ASSUME NEW values \in Seq(Int)
  PROVE  /\ Singles(values) \in Seq(Centroid) /\ Len(Singles(values)) = Len(values)
         /\ \A i \in 1..Len(values) : Singles(values)[i] = Single(values[i])
<1>1. Len(values) \in Nat /\ \A i \in 1..Len(values) : values[i] \in Int
  OBVIOUS
<1>2. Singles(values) \in [1..Len(values) -> Centroid]
  BY <1>1, CentroidFacts DEF Singles
<1>3. \A i \in 1..Len(values) : Singles(values)[i] = Single(values[i])
  BY DEF Singles
<1> HIDE DEF Singles
<1>4. Singles(values) \in Seq(Centroid)
  BY <1>1, <1>2, SeqDef
<1> QED
  BY <1>1, <1>2, <1>3, <1>4

LEMMA SinglesOfBoth ==
  ASSUME NEW s \in Seq(Int), NEW t \in Seq(Int)
  PROVE  Singles(s \o t) = Singles(s) \o Singles(t)
<1> DEFINE m == Singles(s)
           n == Singles(t)
           u == s \o t
<1>1. /\ Len(u) = Len(s) + Len(t) /\ Len(s) \in Nat /\ Len(t) \in Nat
      /\ \A i \in 1..Len(s) : u[i] = s[i]
      /\ \A i \in 1..Len(u) : i \notin 1..Len(s) => /\ i - Len(s) \in 1..Len(t)
                                                    /\ u[i] = t[i - Len(s)]
  OBVIOUS
<1>2. /\ m \in Seq(Centroid) /\ Len(m) = Len(s) /\ \A i \in 1..Len(s) : m[i] = Single(s[i])
      /\ n \in Seq(Centroid) /\ Len(n) = Len(t) /\ \A i \in 1..Len(t) : n[i] = Single(t[i])
  BY SinglesFacts
<1> HIDE DEF m, n, u
<1>3. m \in Seq(Centroid) /\ n \in Seq(Centroid)
  BY <1>2
<1>4. /\ m \o n = [i \in 1..(Len(m) + Len(n)) |-> (m \o n)[i]]
      /\ \A i \in 1..Len(m) : (m \o n)[i] = m[i]
      /\ \A i \in 1..(Len(m) + Len(n)) : i \notin 1..Len(m) => (m \o n)[i] = n[i - Len(m)]
  BY <1>3, ConcatPlaces, Zenon
<1>5. /\ m \o n = [i \in 1..Len(u) |-> (m \o n)[i]]
      /\ \A i \in 1..Len(s) : (m \o n)[i] = m[i]
      /\ \A i \in 1..Len(u) : i \notin 1..Len(s) => (m \o n)[i] = n[i - Len(s)]
  BY <1>1, <1>2, <1>4
<1>6. \A i \in 1..Len(u) : (m \o n)[i] = Single(u[i])
  BY <1>1, <1>2, <1>5
<1>7. Singles(u) = m \o n
  BY <1>5, <1>6 DEF Singles
<1> QED
  BY <1>7 DEF m, n, u

(* Sorting leaves the values it is given. *)
LEMMA CountOfSorted ==
  ASSUME NEW values \in Seq(Int), NEW Y
  PROVE  Count(Sorted(values), Y) = Count(Singles(values), Y)
<1> DEFINE N == Len(values)
           sorting == Sorting(values)
           cs == Singles(values)
           T == [n \in 0..N |-> {r \in Seq(Centroid) : Count(r, Y) = Count(SubSeq(cs, 1, n), Y)}]
<1>1. N \in Nat /\ 0 \in 0..N /\ N \in 0..N /\ \A n \in 1..N : n - 1 \in 0..N /\ n \in 0..N
  OBVIOUS
<1>2. /\ sorting[0] = <<>>
      /\ \A n \in 1..N : sorting[n] = SortNext(values, n, sorting[n - 1])
      /\ \A n \in 0..N : sorting[n] \in Seq(Centroid) /\ SortState(values, n, sorting[n])
  BY SortingStates
<1>3. /\ cs \in Seq(Centroid) /\ Len(cs) = N
      /\ \A i \in 1..N : cs[i] = Single(values[i])
  BY SinglesFacts
<1> HIDE DEF sorting, cs
<1>4. sorting[0] \in T[0]
  <2>1. SubSeq(cs, 1, 0) = <<>> /\ <<>> \in Seq(Centroid)
    BY <1>3
  <2> QED
    BY <1>1, <1>2, <2>1
<1>5. ASSUME NEW n \in 1..N, sorting[n - 1] \in T[n - 1] PROVE sorting[n] \in T[n]
  <2> DEFINE k == n - 1
             r == sorting[k]
             c == cs[n]
             b == IF c \in Y THEN 1 ELSE 0
  <2>1. k \in Nat /\ k < Len(cs) /\ n = k + 1 /\ b \in Int
    BY <1>1, <1>3
  <2>2. r \in Seq(Centroid) /\ InOrder(r)
    BY <1>1, <1>2 DEF SortState
  <2>3. Count(r, Y) = Count(SubSeq(cs, 1, k), Y)
    BY <1>1, <1>5
  <2>4. c \in Centroid /\ c = Single(values[n])
    BY <1>3
  <2>5. sorting[n] = Merged(r, <<c>>)
    BY <1>2, <2>4 DEF SortNext
  <2> HIDE DEF k, r, c, T
  <2>6. <<c>> \in Seq(Centroid) /\ InOrder(<<c>>)
    BY <2>4, OneCentroid
  <2>7. Count(<<c>>, Y) = b
    <3> DEFINE e == <<>>
    <3>1. e \in Seq(Centroid) /\ Append(e, c) = <<c>> /\ Count(e, Y) = 0
      BY CountOfEmpty
    <3> HIDE DEF e
    <3>2. Count(Append(e, c), Y) = Count(e, Y) + (IF c \in Y THEN 1 ELSE 0)
      <4>1. c \in Centroid /\ e \in Seq(Centroid)
        BY <2>4, <3>1
      <4> HIDE DEF b
      <4> QED
        BY <4>1, CountOfAppend
    <3> QED
      BY <3>1, <3>2
  <2>8. Count(Merged(r, <<c>>), Y) = Count(r, Y) + Count(<<c>>, Y)
    BY <2>2, <2>6, CountOfMerged
  <2>9. Count(SubSeq(cs, 1, n), Y) = Count(SubSeq(cs, 1, k), Y) + b
    BY <1>3, <2>1, CountOfPrefix DEF c
  <2> HIDE DEF b
  <2>10. Count(sorting[n], Y) = Count(SubSeq(cs, 1, n), Y)
    BY <2>3, <2>5, <2>7, <2>8, <2>9
  <2> QED
    BY <1>1, <1>2, <2>10 DEF T
<1>6. \A n \in 0..N : sorting[n] \in T[n]
  <2> HIDE DEF N, T
  <2> QED
    BY <1>1, <1>4, <1>5, LoopInvariant
<1>7. Count(sorting[N], Y) = Count(SubSeq(cs, 1, N), Y)
  BY <1>1, <1>6
<1>8. SubSeq(cs, 1, N) = cs
  BY <1>3
<1>9. Sorted(values) = sorting[N]
  BY DEF Sorted, sorting
<1> QED
  BY <1>7, <1>8, <1>9 DEF cs
-----------------------------------------------------------------------------
(* A compression that ends with as many centroids as there were joined none. *)
JoinKeeps(cs, n, a) ==
  /\ Len(a.done) <= n
  /\ Len(a.done) = n => a.done = SubSeq(cs, 1, n) /\ a.curr = cs[n + 1]

LEMMA JoinKeepsStep ==
  ASSUME NEW cs \in Seq(Centroid), NEW size, NEW count, NEW repeated,
         NEW n \in 1..(Len(cs) - 1), NEW a \in JoinRecords, JoinKeeps(cs, n - 1, a)
  PROVE  JoinKeeps(cs, n, JoinNext(cs, size, count, repeated, n, a))
<1> DEFINE x == JoinNext(cs, size, count, repeated, n, a)
           c == cs[n + 1]
           w == a.weight + c.weight
           k == Max({1, Len(a.done) + 1 - repeated})
           l == Len(a.done)
<1>1. a.done \in Seq(Centroid) /\ l \in Nat /\ n \in Nat /\ n < Len(cs) /\ Len(cs) \in Nat
  BY DEF JoinRecords
<1>2. l <= n - 1 /\ (l = n - 1 => a.done = SubSeq(cs, 1, n - 1) /\ a.curr = cs[n])
  BY DEF JoinKeeps
<1>3. CASE WithinLimit(w, k, size, count)
  <2>1. x.done = a.done
    BY <1>3 DEF JoinNext, Join, JoinRecords
  <2>2. l <= n /\ l # n
    BY <1>1, <1>2
  <2> HIDE DEF x
  <2>3. JoinKeeps(cs, n, x)
    BY <2>1, <2>2 DEF JoinKeeps
  <2> QED
    BY <2>3 DEF x
<1>4. CASE ~WithinLimit(w, k, size, count)
  <2>1. x.done = Append(a.done, a.curr) /\ x.curr = c
    BY <1>4 DEF JoinNext, Join, JoinRecords
  <2>2. Len(x.done) = l + 1
    BY <1>1, <2>1
  <2>3. l + 1 <= n /\ (l + 1 = n => l = n - 1)
    BY <1>1, <1>2
  <2>4. Append(SubSeq(cs, 1, n - 1), cs[n]) = SubSeq(cs, 1, n)
    BY <1>1
  <2> HIDE DEF x, c, l
  <2>5. JoinKeeps(cs, n, x)
    BY <1>2, <2>1, <2>2, <2>3, <2>4 DEF JoinKeeps, c
  <2> QED
    BY <2>5 DEF x
<1> QED
  BY <1>3, <1>4

LEMMA CompressedKeeps ==
  ASSUME NEW cs \in Seq(Centroid), cs # <<>>, InOrder(cs),
         NEW size \in Nat \ {0}, NEW repeated \in Nat,
         NEW count \in Int, WeightOf(cs) <= count,
         NEW lo \in Int, NEW hi \in Int, \A c \in ToSet(cs) : Between(c, lo, hi)
  PROVE  LET r == Compressed(cs, size, count, repeated) IN
         Len(r) <= Len(cs) /\ (Len(r) = Len(cs) => r = cs)
<1> DEFINE N == Len(cs) - 1
           joining == Joining(cs, size, count, repeated)
           T == [n \in 0..N |-> {a \in JoinRecords : JoinKeeps(cs, n, a)}]
           a == joining[N]
           r == Append(a.done, a.curr)
<1>1. /\ N \in Nat /\ N + 1 = Len(cs) /\ 0 \in 0..N /\ N \in 0..N /\ Len(cs) \in Nat
      /\ \A n \in 1..N : n - 1 \in 0..N /\ n \in 0..N
  OBVIOUS
<1>2. /\ joining[0] = [done |-> <<>>, curr |-> cs[1], weight |-> cs[1].weight]
      /\ \A n \in 1..N : joining[n] = JoinNext(cs, size, count, repeated, n, joining[n - 1])
      /\ \A n \in 0..N : joining[n] \in JoinRecords
  BY JoiningStates
<1>3. Compressed(cs, size, count, repeated) = r
  BY DEF Compressed
<1> HIDE DEF joining
<1>4. joining[0] \in T[0]
  <2>1. joining[0].done = <<>> /\ joining[0].curr = cs[1]
    BY <1>2
  <2>2. Len(<<>>) = 0 /\ <<>> = SubSeq(cs, 1, 0) /\ 0 + 1 = 1 /\ 0 <= 0
    OBVIOUS
  <2>3. JoinKeeps(cs, 0, joining[0])
    BY <2>1, <2>2 DEF JoinKeeps
  <2> QED
    BY <1>1, <1>2, <2>3
<1>5. ASSUME NEW n \in 1..N, joining[n - 1] \in T[n - 1] PROVE joining[n] \in T[n]
  <2>1. joining[n - 1] \in JoinRecords /\ JoinKeeps(cs, n - 1, joining[n - 1])
    BY <1>1, <1>5
  <2>2. JoinKeeps(cs, n, joining[n])
    BY <1>2, <2>1, JoinKeepsStep
  <2> QED
    BY <1>1, <1>2, <2>2
<1>6. \A n \in 0..N : joining[n] \in T[n]
  <2> HIDE DEF N, T
  <2> QED
    BY <1>1, <1>4, <1>5, LoopInvariant
<1>7. a \in JoinRecords /\ JoinKeeps(cs, N, a)
  BY <1>1, <1>6
<1> HIDE DEF a
<1>8. a.done \in Seq(Centroid) /\ a.curr \in Centroid /\ Len(a.done) \in Nat
  BY <1>7 DEF JoinRecords
<1>9. Len(r) = Len(a.done) + 1
  BY <1>8
<1>10. Len(r) <= Len(cs) /\ (Len(r) = Len(cs) => Len(a.done) = N)
  <2> DEFINE k == Len(a.done)
             p == Len(r)
             m == Len(cs)
  <2>1. p = k + 1 /\ k \in Nat /\ N \in Nat /\ N + 1 = m /\ k <= N
    BY <1>1, <1>7, <1>8, <1>9 DEF JoinKeeps
  <2> HIDE DEF k, p, m, N
  <2>2. p <= m /\ (p = m => k = N)
    BY <2>1
  <2> QED
    BY <2>2 DEF k, p, m
<1>11. Len(a.done) = N => r = cs
  <2>1. Append(SubSeq(cs, 1, N), cs[N + 1]) = cs
    <3>1. N < Len(cs)
      BY <1>1
    <3>2. SubSeq(cs, 1, N + 1) = Append(SubSeq(cs, 1, N), cs[N + 1])
      BY <1>1, <3>1, PrefixGrows
    <3>3. SubSeq(cs, 1, Len(cs)) = cs
      BY EmptyPrefix
    <3> QED
      BY <1>1, <3>2, <3>3
  <2> QED
    BY <1>7, <2>1 DEF JoinKeeps
<1> HIDE DEF r
<1> QED
  BY <1>3, <1>10, <1>11

(* There are no more centroids than values; and when there are as many, they hold *)
(* one value each.                                                                *)
Whole(cs, values) ==
  /\ Len(cs) <= Len(values)
  /\ Len(cs) = Len(values) => \A Y : Count(cs, Y) = Count(Singles(values), Y)

LEMMA WholeOfNone == Whole(<<>>, <<>>)
<1>1. Singles(<<>>) = <<>>
  BY DEF Singles
<1> QED
  BY <1>1 DEF Whole

(* Values merged into centroids, and all compressed *)
LEMMA WholeOfMerged ==
  ASSUME NEW size \in Nat \ {0}, NEW t \in Seq(Int), NEW s \in Seq(Int),
         NEW d, DigestOf(d, t, size, size), Whole(d.centroids, t)
  PROVE  Whole(merge_unsorted(d, s).centroids, t \o s)
<1> DEFINE r == Sorted(s)
           cs == d.centroids
<1>1. CASE s = <<>>
  <2>1. Len(r) = 0 /\ r \in Seq(Centroid) /\ Len(<<>>) = 0
    BY <1>1, SortedFacts
  <2>2. r = <<>> /\ t \o s = t
    BY <1>1, <2>1
  <2> QED
    BY <2>2 DEF merge_unsorted, merge_sorted
<1>2. CASE s # <<>>
  <2> DEFINE lo == r[1].sum
             hi == r[Len(r)].sum
             m == Merged(r, cs)
             u == t \o s
             l == Lowest(d, lo)
             h == Highest(d, hi)
             e == Compressed(m, size, Len(u), 0)
  <2>1. Made(r, s, lo, hi) /\ r # <<>> /\ Len(r) = Len(s)
    BY <1>2, MadeOfSorted
  <2>2. /\ d.count = Len(t) /\ Made(cs, t, d.min, d.max) /\ d.max_size = size
    BY DEF DigestOf, Gathered
  <2>3. cs \in Seq(Centroid) /\ InOrder(cs)
    BY <2>2 DEF Made
  <2>4. Len(cs) <= Len(t) /\ (Len(cs) = Len(t) => \A Y : Count(cs, Y) = Count(Singles(t), Y))
    BY DEF Whole
  <2> HIDE DEF r, lo, hi, cs
  <2>5. r \in Seq(Centroid) /\ InOrder(r)
    BY <2>1 DEF Made
  <2>6. /\ m \in Seq(Centroid) /\ InOrder(m) /\ Len(m) = Len(r) + Len(cs)
        /\ WeightOf(m) = WeightOf(r) + WeightOf(cs)
        /\ SumOf(m) = SumOf(r) + SumOf(cs)
        /\ ToSet(m) = ToSet(r) \cup ToSet(cs)
    BY <2>3, <2>5, MergedFacts
  <2>7. /\ l = IF Len(t) > 0 THEN Min({d.min, lo}) ELSE lo
        /\ h = IF Len(t) > 0 THEN Max({d.max, hi}) ELSE hi
    BY <2>2 DEF Lowest, Highest
  <2>8. \A Y : Count(m, Y) = Count(r, Y) + Count(cs, Y)
    BY <2>3, <2>5, CountOfMerged
  <2> HIDE DEF m, l, h
  <2>9. Made(m, u, l, h)
    BY <1>2, <2>1, <2>2, <2>6, <2>7, MadeOfBoth
  <2>10. /\ u \in Seq(Int) /\ Len(u) = Len(t) + Len(s) /\ u # <<>>
         /\ Len(t) \in Nat /\ Len(s) \in Nat /\ Len(cs) \in Nat
    <3>1. u \in Seq(Int) /\ Len(u) = Len(t) + Len(s)
      BY Concatenation
    <3>2. Len(t) \in Nat /\ Len(s) \in Nat /\ Len(s) > 0
      BY <1>2
    <3> HIDE DEF u
    <3> QED
      BY <2>3, <3>1, <3>2
  <2>11. merge_unsorted(d, s).centroids = e
    <3>1. d.count + Len(r) = Len(u)
      BY <2>1, <2>2, <2>10
    <3> HIDE DEF u
    <3> QED
      BY <2>1, <2>2, <3>1 DEF merge_unsorted, merge_sorted, Digest, r, m, cs
  <2>12. Singles(u) = Singles(t) \o Singles(s)
    BY SinglesOfBoth
  <2> HIDE DEF u
  <2>13. Len(e) <= Len(m) /\ (Len(e) = Len(m) => e = m)
    <3>1. /\ m # <<>> /\ WeightOf(m) <= Len(u) /\ l \in Int /\ h \in Int /\ Len(u) \in Int
          /\ \A c \in ToSet(m) : Between(c, l, h)
      BY <2>9, <2>10 DEF Made
    <3>2. 0 \in Nat
      OBVIOUS
    <3> QED
      BY <2>6, <3>1, <3>2, CompressedKeeps
  <2> HIDE DEF e
  <2>14. e \in Seq(Centroid) /\ Len(e) \in Nat
    <3>1. DigestOf(merge_unsorted(d, s), u, size, size)
      BY DigestOfMerged DEF u
    <3>2. e \in Seq(Centroid)
      BY <2>11, <3>1 DEF DigestOf, Gathered, Made
    <3> QED
      BY <3>2
  <2>15. Len(e) <= Len(u) /\ (Len(e) = Len(u) => Len(e) = Len(m) /\ Len(cs) = Len(t))
    <3> DEFINE a == Len(e)
               b == Len(m)
               c == Len(cs)
               i == Len(t)
               j == Len(s)
    <3>1. /\ a \in Nat /\ b = j + c /\ c \in Nat /\ i \in Nat /\ j \in Nat
          /\ a <= b /\ c <= i /\ Len(u) = i + j
      BY <2>1, <2>4, <2>6, <2>10, <2>13, <2>14
    <3> HIDE DEF a, b, c, i, j
    <3>2. a <= Len(u) /\ (a = Len(u) => a = b /\ c = i)
      BY <3>1
    <3> QED
      BY <3>2 DEF a, b, c, i
  <2>16. ASSUME Len(e) = Len(u), NEW Y PROVE Count(e, Y) = Count(Singles(u), Y)
    <3>1. Count(e, Y) = Count(r, Y) + Count(cs, Y) /\ Count(cs, Y) = Count(Singles(t), Y)
      BY <2>4, <2>8, <2>13, <2>15, <2>16
    <3>2. Count(r, Y) = Count(Singles(s), Y)
      BY CountOfSorted DEF r
    <3>3. Singles(t) \in Seq(Centroid) /\ Singles(s) \in Seq(Centroid)
      BY SinglesFacts
    <3>4. /\ Count(Singles(u), Y) = Count(Singles(t), Y) + Count(Singles(s), Y)
          /\ Count(Singles(t), Y) \in Int /\ Count(Singles(s), Y) \in Int
      BY <2>12, <3>3, CountOfBoth, CountIsInt
    <3> QED
      BY <3>1, <3>2, <3>4
  <2>17. Whole(e, u)
    BY <2>15, <2>16 DEF Whole
  <2> QED
    BY <2>11, <2>17 DEF u
<1> QED
  BY <1>1, <1>2
-----------------------------------------------------------------------------
(* Ratios *)
IsRatio(a) == a.num \in Int /\ a.den \in Nat \ {0}
AtMost(a, b) == ~Less(b, a)

LEMMA RatioFacts ==
  ASSUME NEW n \in Int, NEW d \in Nat \ {0}
  PROVE  IsRatio(Ratio(n, d)) /\ Ratio(n, d).num = n /\ Ratio(n, d).den = d
BY DEF IsRatio, Ratio

LEMMA AtMostIsProducts ==
  ASSUME NEW a, NEW b, IsRatio(a), IsRatio(b)
  PROVE  AtMost(a, b) <=> a.num * b.den <= b.num * a.den
<1> DEFINE x == a.num * b.den
           y == b.num * a.den
<1>1. x \in Int /\ y \in Int
  BY DEF IsRatio
<1> HIDE DEF x, y
<1>2. ~(y < x) <=> x <= y
  BY <1>1
<1> QED
  BY <1>2 DEF AtMost, Less, x, y

LEMMA LessIsProducts ==
  ASSUME NEW a, NEW b
  PROVE  Less(a, b) <=> a.num * b.den < b.num * a.den
BY DEF Less

LEMMA AtMostIsTransitive ==
  ASSUME NEW a, NEW b, NEW c, IsRatio(a), IsRatio(b), IsRatio(c), AtMost(a, b), AtMost(b, c)
  PROVE  AtMost(a, c)
<1>1. a.num * b.den <= b.num * a.den /\ b.num * c.den <= c.num * b.den
  BY AtMostIsProducts
<1>2. /\ a.num \in Int /\ b.num \in Int /\ c.num \in Int
      /\ a.den \in Nat \ {0} /\ b.den \in Nat \ {0} /\ c.den \in Nat \ {0}
  BY DEF IsRatio
<1>3. a.num * c.den <= c.num * a.den
  BY <1>1, <1>2, Products
<1> QED
  BY <1>3, AtMostIsProducts

LEMMA LessIsAtMost ==
  ASSUME NEW a, NEW b, IsRatio(a), IsRatio(b), Less(a, b)
  PROVE  AtMost(a, b)
<1> DEFINE x == a.num * b.den
           y == b.num * a.den
<1>1. x \in Int /\ y \in Int
  BY DEF IsRatio
<1>2. x < y
  BY DEF Less
<1> HIDE DEF x, y
<1>3. x <= y
  BY <1>1, <1>2
<1> QED
  BY <1>3, AtMostIsProducts DEF x, y

(* Between lo and hi, and beyond m only if v is, too. *)
LEMMA ClampFacts ==
  ASSUME NEW v, NEW lo, NEW hi, NEW m, IsRatio(v), IsRatio(lo), IsRatio(hi), IsRatio(m),
         AtMost(lo, m), AtMost(m, hi)
  PROVE  LET x == clamp(v, lo, hi) IN
         /\ IsRatio(x) /\ AtMost(lo, x) /\ AtMost(x, hi)
         /\ Less(m, x) => Less(m, v)
         /\ Less(x, m) => Less(v, m)
<1> DEFINE x == clamp(v, lo, hi)
<1>1. AtMost(lo, hi)
  BY AtMostIsTransitive
<1>2. \A a : IsRatio(a) => AtMost(a, a)
  <2> SUFFICES ASSUME NEW a, IsRatio(a) PROVE AtMost(a, a)
    OBVIOUS
  <2>1. a.num * a.den \in Int
    BY DEF IsRatio
  <2> QED
    BY <2>1, AtMostIsProducts
<1>3. CASE Less(hi, v)
  <2>1. x = hi
    BY <1>3 DEF clamp
  <2> HIDE DEF x
  <2>2. Less(m, v)
    <3> SUFFICES ASSUME ~Less(m, v) PROVE FALSE
      OBVIOUS
    <3>1. AtMost(v, m)
      BY DEF AtMost
    <3>2. AtMost(v, hi)
      BY <3>1, AtMostIsTransitive
    <3> QED
      BY <1>3, <3>2 DEF AtMost
  <2> QED
    BY <1>1, <1>2, <2>1, <2>2 DEF AtMost, x
<1>4. CASE ~Less(hi, v) /\ Less(v, lo)
  <2>1. x = lo
    BY <1>4 DEF clamp
  <2> HIDE DEF x
  <2>2. Less(v, m)
    <3> SUFFICES ASSUME ~Less(v, m) PROVE FALSE
      OBVIOUS
    <3>1. AtMost(m, v)
      BY DEF AtMost
    <3>2. AtMost(lo, v)
      BY <3>1, AtMostIsTransitive
    <3> QED
      BY <1>4, <3>2 DEF AtMost
  <2> QED
    BY <1>1, <1>2, <2>1, <2>2 DEF AtMost, x
<1>5. CASE ~Less(hi, v) /\ ~Less(v, lo)
  <2>1. x = v
    BY <1>5 DEF clamp
  <2> HIDE DEF x
  <2> QED
    BY <1>5, <2>1 DEF AtMost, x
<1> QED
  BY <1>3, <1>4, <1>5

LEMMA PositiveProduct ==
  ASSUME NEW a \in Nat \ {0}, NEW b \in Nat \ {0}
  PROVE  a * b \in Nat \ {0}
BY Z3

LEMMA RatioArithmetic ==
  ASSUME NEW a, NEW b, IsRatio(a), IsRatio(b)
  PROVE  /\ IsRatio(Plus(a, b)) /\ IsRatio(Minus(a, b)) /\ IsRatio(Times(a, b))
         /\ Plus(a, b).num = a.num * b.den + b.num * a.den
         /\ Plus(a, b).den = a.den * b.den
         /\ Minus(a, b).num = a.num * b.den - b.num * a.den
         /\ Times(a, b).num = a.num * b.num
<1>1. a.num \in Int /\ b.num \in Int /\ a.den \in Nat \ {0} /\ b.den \in Nat \ {0}
  BY DEF IsRatio
<1>2. a.den * b.den \in Nat \ {0}
  BY <1>1, PositiveProduct
<1>3. /\ a.num * b.den \in Int /\ b.num * a.den \in Int /\ a.num * b.num \in Int
      /\ a.num * b.den + b.num * a.den \in Int /\ a.num * b.den - b.num * a.den \in Int
  BY <1>1
<1> QED
  BY <1>2, <1>3 DEF IsRatio, Plus, Minus, Times, Ratio

(* On a line that does not fall, what lies beyond m is on that side of m's place. *)
LEMMA SideOfLine ==
  ASSUME NEW m, NEW t, NEW s, IsRatio(m), IsRatio(t), IsRatio(s), s.num >= 0
  PROVE  LET v == Plus(m, Times(t, s)) IN
         /\ Less(m, v) => t.num > 0
         /\ Less(v, m) => t.num < 0
<1> DEFINE p == Times(t, s)
           v == Plus(m, p)
           mn == m.num
           md == m.den
           pn == p.num
           pd == p.den
           tn == t.num
           sn == s.num
<1>1. IsRatio(p) /\ pn = tn * sn
  BY RatioArithmetic
<1>2. mn \in Int /\ md \in Nat \ {0} /\ tn \in Int /\ sn \in Nat
  BY DEF IsRatio
<1> HIDE DEF p
<1>3. v.num = mn * pd + pn * md /\ v.den = md * pd
  BY <1>1, RatioArithmetic
<1>4. pn \in Int /\ pd \in Int
  BY <1>1 DEF IsRatio
<1> HIDE DEF v
<1>5. /\ Less(m, v) => mn * (md * pd) < (mn * pd + pn * md) * md
      /\ Less(v, m) => (mn * pd + pn * md) * md < mn * (md * pd)
  BY <1>3 DEF Less
<1> HIDE DEF mn, md, pn, pd, tn, sn
<1>6. (mn * pd + pn * md) * md = mn * (md * pd) + pn * (md * md)
  BY <1>2, <1>4, Z3
<1>7. md * md \in Nat \ {0}
  BY <1>2, PositiveProduct
<1> DEFINE e == mn * (md * pd)
           f == md * md
           g == pn * f
<1>8. e \in Int /\ g \in Int
  BY <1>2, <1>4
<1>9. /\ Less(m, v) => g > 0
      /\ Less(v, m) => g < 0
  <2> HIDE DEF e
  <2> HIDE DEF g
  <2>1. /\ Less(m, v) => e < e + g
        /\ Less(v, m) => e + g < e
    BY <1>5, <1>6 DEF e, f, g
  <2> QED
    BY <1>8, <2>1
<1>10. /\ g > 0 => pn > 0
       /\ g < 0 => pn < 0
  <2> HIDE DEF f
  <2>1. f \in Nat \ {0}
    BY <1>7 DEF f
  <2>2. ASSUME pn <= 0 PROVE ~(g > 0)
    BY <1>4, <2>1, <2>2, Z3
  <2>3. ASSUME pn >= 0 PROVE ~(g < 0)
    BY <1>4, <2>1, <2>3, Z3
  <2> HIDE DEF g
  <2> QED
    BY <1>4, <2>2, <2>3
<1>11. /\ pn > 0 => tn > 0
       /\ pn < 0 => tn < 0
  <2>1. ASSUME tn <= 0 PROVE ~(tn * sn > 0)
    BY <1>2, <2>1, Z3
  <2>2. ASSUME tn >= 0 PROVE ~(tn * sn < 0)
    BY <1>2, <2>2, Z3
  <2>3. pn = tn * sn
    BY <1>1 DEF pn, tn, sn
  <2> QED
    BY <1>2, <2>1, <2>2, <2>3
<1> HIDE DEF g
<1> QED
  BY <1>9, <1>10, <1>11 DEF v, p, tn
-----------------------------------------------------------------------------
(* In order, no centroid is above a later one. *)
LEMMA LaterIsNotBelow ==
  ASSUME NEW cs \in Seq(Centroid), InOrder(cs),
         NEW i \in 1..Len(cs), NEW j \in 1..Len(cs), i <= j
  PROVE  NotAbove(cs[i], cs[j])
<1> DEFINE N == Len(cs) - i
           g == [n \in 0..N |-> i + n]
           T == [n \in 0..N |-> {k \in Nat : k = i + n /\ NotAbove(cs[i], cs[k])}]
<1>1. N \in Nat /\ i \in Nat /\ 0 \in 0..N /\ \A n \in 1..N : n - 1 \in 0..N /\ n \in 0..N
  OBVIOUS
<1>2. g[0] \in T[0]
  <2>1. cs[i] \in Centroid /\ cs[i].sum * cs[i].weight \in Int
    BY CentroidFacts
  <2>2. NotAbove(cs[i], cs[i])
    BY <2>1, NotAboveIsProducts
  <2>3. g[0] = i /\ i = i + 0
    BY <1>1
  <2> QED
    BY <1>1, <2>2, <2>3
<1>3. ASSUME NEW n \in 1..N, g[n - 1] \in T[n - 1] PROVE g[n] \in T[n]
  <2> DEFINE k == i + n
  <2>1. /\ k \in 2..Len(cs) /\ k - 1 = i + (n - 1) /\ k \in Nat
        /\ n - 1 \in 0..N /\ n \in 0..N
    BY <1>1
  <2>2. NotAbove(cs[i], cs[k - 1])
    BY <1>3, <2>1
  <2>3. NotAbove(cs[k - 1], cs[k])
    BY <2>1 DEF InOrder
  <2>4. cs[i] \in Centroid /\ cs[k - 1] \in Centroid /\ cs[k] \in Centroid
    BY <2>1
  <2> HIDE DEF T
  <2>5. NotAbove(cs[i], cs[k])
    BY <2>2, <2>3, <2>4, NotAboveIsTransitive
  <2> QED
    BY <2>1, <2>5 DEF T
<1>4. \A n \in 0..N : g[n] \in T[n]
  <2> HIDE DEF N, g, T
  <2> QED
    BY <1>1, <1>2, <1>3, LoopInvariant
<1> DEFINE n == j - i
<1>5. n \in 0..N /\ i + n = j
  BY <1>1
<1>6. g[n] \in T[n] /\ g[n] = j
  BY <1>4, <1>5
<1> QED
  BY <1>5, <1>6

LEMMA MeanFacts ==
  /\ \A c \in Centroid : IsRatio(Mean(c)) /\ Mean(c).num = c.sum /\ Mean(c).den = c.weight
  /\ \A c, e \in Centroid : NotAbove(c, e) <=> AtMost(Mean(c), Mean(e))
<1>1. ASSUME NEW c \in Centroid
      PROVE  IsRatio(Mean(c)) /\ Mean(c).num = c.sum /\ Mean(c).den = c.weight
  <2>1. c.sum \in Int /\ c.weight \in Nat \ {0}
    BY CentroidFacts
  <2> QED
    BY <2>1, RatioFacts DEF Mean
<1>2. ASSUME NEW c \in Centroid, NEW e \in Centroid
      PROVE  NotAbove(c, e) <=> AtMost(Mean(c), Mean(e))
  BY <1>1 DEF NotAbove, Before, AtMost, Less
<1> QED
  BY <1>1, <1>2

LEMMA MeanIsBetween ==
  ASSUME NEW c \in Centroid, NEW lo \in Int, NEW hi \in Int, Between(c, lo, hi)
  PROVE  AtMost(Ratio(lo, 1), Mean(c)) /\ AtMost(Mean(c), Ratio(hi, 1))
<1>1. /\ IsRatio(Ratio(lo, 1)) /\ Ratio(lo, 1).num = lo /\ Ratio(lo, 1).den = 1
      /\ IsRatio(Ratio(hi, 1)) /\ Ratio(hi, 1).num = hi /\ Ratio(hi, 1).den = 1
      /\ IsRatio(Mean(c)) /\ Mean(c).num = c.sum /\ Mean(c).den = c.weight
  BY RatioFacts, MeanFacts
<1>2. c.sum \in Int /\ c.sum * 1 = c.sum
  BY CentroidFacts
<1>3. lo * c.weight <= c.sum * 1 /\ c.sum * 1 <= hi * c.weight
  BY <1>2 DEF Between
<1> QED
  BY <1>1, <1>3, AtMostIsProducts

(* The greatest of some of the first numbers *)
LEMMA GreatestElement ==
  ASSUME NEW N \in Nat, NEW S \in SUBSET (1..N), S # {}
  PROVE  Max(S) \in S /\ \A k \in S : k <= Max(S)
<1> DEFINE D == {N - k : k \in S}
<1>0. \A k \in S : k \in Int /\ N - k \in Nat
  OBVIOUS
<1>1. D \in SUBSET Nat /\ D # {}
  <2>1. D # {}
    OBVIOUS
  <2> QED
    BY <1>0, <2>1
<1>2. PICK m \in D : \A n \in D : m <= n
  <2> HIDE DEF D
  <2> QED
    BY <1>1, LeastElement
<1>3. PICK x \in S : m = N - x
  BY <1>2
<1>4. \A k \in S : x >= k
  <2> SUFFICES ASSUME NEW k \in S PROVE x >= k
    OBVIOUS
  <2>1. m <= N - k
    BY <1>2
  <2> QED
    BY <1>0, <1>3, <2>1
<1>5. Max(S) \in S /\ \A k \in S : Max(S) >= k
  BY <1>4 DEF Max
<1>6. Max(S) \in Int /\ \A k \in S : k \in Int
  BY <1>0, <1>5
<1> QED
  BY <1>5, <1>6

(* A digest with centroids, and a quantile of it that is not an extreme *)
Digesting(d) ==
  /\ d.centroids \in Seq(Centroid) /\ d.centroids # <<>> /\ InOrder(d.centroids)
  /\ d.count \in Nat /\ d.min \in Int /\ d.max \in Int /\ d.min <= d.max
  /\ \A c \in ToSet(d.centroids) : Between(c, d.min, d.max)

Inner(q) == q.num \in Nat \ {0} /\ q.den \in Nat \ {0} /\ q.num < q.den

Reached(d, q) == {k \in DOMAIN d.centroids : WeightBefore(d, k) * q.den <= q.num * d.count}

LEMMA WeightBeforeIsInt ==
  ASSUME NEW d, Digesting(d), NEW k \in 1..Len(d.centroids)
  PROVE  WeightBefore(d, k) \in Int
<1> DEFINE cs == d.centroids
           i == k - 1
<1>1. cs \in Seq(Centroid) /\ i \in Nat /\ i < Len(cs)
  BY DEF Digesting
<1> HIDE DEF cs
<1>2. WeightOf(SubSeq(cs, 1, i)) \in Int
  BY <1>1, PrefixGrows
<1> QED
  BY <1>2 DEF WeightBefore, cs

LEMMA PositionFacts ==
  ASSUME NEW d, NEW q, Digesting(d), Inner(q)
  PROVE  /\ Position(d, q) \in 1..Len(d.centroids)
         /\ WeightBefore(d, Position(d, q)) * q.den <= q.num * d.count
         /\ \A k \in 1..Len(d.centroids) :
              WeightBefore(d, k) * q.den <= q.num * d.count => k <= Position(d, q)
<1> DEFINE N == Len(d.centroids)
           S == Reached(d, q)
<1>1. N \in Nat /\ DOMAIN d.centroids = 1..N /\ 1 \in 1..N
  BY DEF Digesting
<1>2. S \in SUBSET (1..N)
  BY <1>1 DEF Reached
<1>3. 1 \in S
  <2>1. WeightBefore(d, 1) = 0
    <3>1. SubSeq(d.centroids, 1, 1 - 1) = <<>>
      BY DEF Digesting
    <3> QED
      BY <3>1, SumsOfEmpty DEF WeightBefore
  <2>2. q.num * d.count >= 0 /\ 0 * q.den = 0
    <3>1. q.num \in Nat /\ d.count \in Nat /\ q.den \in Nat
      BY DEF Inner, Digesting
    <3>2. q.num * d.count >= 0
      BY <3>1, Z3
    <3> QED
      BY <3>1, <3>2
  <2>3. WeightBefore(d, 1) * q.den <= q.num * d.count
    BY <2>1, <2>2
  <2> QED
    BY <1>1, <2>3 DEF Reached
<1> HIDE DEF S, N
<1>4. Max(S) \in S /\ \A k \in S : k <= Max(S)
  BY <1>1, <1>2, <1>3, GreatestElement
<1>5. Position(d, q) = Max(S)
  BY DEF Position, S, Reached
<1> QED
  BY <1>1, <1>2, <1>4, <1>5 DEF S, N, Reached

(* What estimate_quantile() makes of a position: the means of its neighbours, ... *)
Below(d, pos) == Mean(d.centroids[Max({1, pos - 1})])
Above(d, pos) == Mean(d.centroids[Min({Len(d.centroids), pos + 1})])

(* ... the limits of the estimate, ... *)
Lower(d, pos) == IF pos = 1 THEN Ratio(d.min, 1) ELSE Below(d, pos)
Upper(d, pos) == IF pos = Len(d.centroids) THEN Ratio(d.max, 1) ELSE Above(d, pos)

(* ... and the line through the mean. *)
Slope(d, pos) ==
  Times(Minus(Above(d, pos), Below(d, pos)),
        Ratio(1, IF pos \in {1, Len(d.centroids)} THEN 1 ELSE 2))

Along(d, q, pos) ==
  Ratio(2 * (q.num * d.count - WeightBefore(d, pos) * q.den) - d.centroids[pos].weight * q.den,
        2 * d.centroids[pos].weight * q.den)

Line(d, q, pos) == Plus(Mean(d.centroids[pos]), Times(Along(d, q, pos), Slope(d, pos)))

LEMMA EstimateIsClamped ==
  ASSUME NEW d, NEW q, Digesting(d), Inner(q)
  PROVE  LET pos == Position(d, q) IN
         estimate_quantile(d, q) = clamp(Line(d, q, pos), Lower(d, pos), Upper(d, pos))
<1>1. d.centroids # <<>> /\ ~(q.num >= q.den) /\ ~(q.num <= 0)
  BY DEF Digesting, Inner
<1> QED
  BY <1>1, Zenon DEF estimate_quantile, Line, Along, Slope, Upper, Lower, Above, Below

LEMMA NeighbourFacts ==
  ASSUME NEW d, Digesting(d), NEW pos \in 1..Len(d.centroids)
  PROVE  /\ IsRatio(Mean(d.centroids[pos]))
         /\ IsRatio(Below(d, pos)) /\ IsRatio(Above(d, pos))
         /\ AtMost(Below(d, pos), Above(d, pos))
         /\ IsRatio(Lower(d, pos)) /\ IsRatio(Upper(d, pos))
         /\ AtMost(Lower(d, pos), Mean(d.centroids[pos]))
         /\ AtMost(Mean(d.centroids[pos]), Upper(d, pos))
         /\ AtMost(Ratio(d.min, 1), Lower(d, pos)) /\ AtMost(Upper(d, pos), Ratio(d.max, 1))
         /\ pos > 1 => Lower(d, pos) = Mean(d.centroids[pos - 1])
         /\ pos < Len(d.centroids) => Upper(d, pos) = Mean(d.centroids[pos + 1])
<1> DEFINE cs == d.centroids
           N == Len(cs)
           i == Max({1, pos - 1})
           j == Min({N, pos + 1})
           c == cs[pos]
           b == cs[i]
           a == cs[j]
           lo == Ratio(d.min, 1)
           hi == Ratio(d.max, 1)
<1>1. /\ cs \in Seq(Centroid) /\ InOrder(cs) /\ N \in Nat /\ pos \in Nat
      /\ d.min \in Int /\ d.max \in Int
      /\ \A e \in ToSet(cs) : Between(e, d.min, d.max)
  BY DEF Digesting
<1>2. /\ i \in 1..N /\ i <= pos /\ (pos > 1 => i = pos - 1)
      /\ j \in 1..N /\ pos <= j /\ (pos < N => j = pos + 1)
      /\ i <= j
  <2>1. i = IF 1 >= pos - 1 THEN 1 ELSE pos - 1
    BY <1>1, GreaterOfTwo
  <2>2. j = IF N <= pos + 1 THEN N ELSE pos + 1
    BY <1>1, LesserOfTwo
  <2> HIDE DEF i, j
  <2> QED
    BY <1>1, <2>1, <2>2
<1>3. Below(d, pos) = Mean(b) /\ Above(d, pos) = Mean(a)
  BY DEF Below, Above
<1> HIDE DEF cs, i, j, N
<1>4. b \in Centroid /\ c \in Centroid /\ a \in Centroid
  BY <1>1, <1>2 DEF N
<1>5. NotAbove(b, c) /\ NotAbove(c, a) /\ NotAbove(b, a)
  BY <1>1, <1>2, LaterIsNotBelow DEF N
<1>6. Between(b, d.min, d.max) /\ Between(c, d.min, d.max) /\ Between(a, d.min, d.max)
  <2>1. b \in ToSet(cs) /\ c \in ToSet(cs) /\ a \in ToSet(cs)
    BY <1>1, <1>2 DEF ToSet, N
  <2> QED
    BY <1>1, <2>1
<1> HIDE DEF a, b, c
<1>7. /\ IsRatio(Mean(b)) /\ IsRatio(Mean(c)) /\ IsRatio(Mean(a))
      /\ AtMost(Mean(b), Mean(c)) /\ AtMost(Mean(c), Mean(a)) /\ AtMost(Mean(b), Mean(a))
  BY <1>4, <1>5, MeanFacts
<1>8. IsRatio(lo) /\ IsRatio(hi)
  BY <1>1, RatioFacts
<1>9. /\ AtMost(lo, Mean(b)) /\ AtMost(Mean(b), hi)
      /\ AtMost(lo, Mean(c)) /\ AtMost(Mean(c), hi)
      /\ AtMost(lo, Mean(a)) /\ AtMost(Mean(a), hi)
  BY <1>1, <1>4, <1>6, MeanIsBetween
<1> HIDE DEF lo, hi
<1>10. /\ AtMost(lo, lo) /\ AtMost(hi, hi)
  <2>1. lo.num * lo.den \in Int /\ hi.num * hi.den \in Int
    BY <1>8 DEF IsRatio
  <2> QED
    BY <1>8, <2>1, AtMostIsProducts
<1>11. Lower(d, pos) = IF pos = 1 THEN lo ELSE Mean(b)
  BY <1>3 DEF Lower, lo
<1>12. Upper(d, pos) = IF pos = N THEN hi ELSE Mean(a)
  BY <1>3 DEF Upper, hi, N, cs
<1>13. pos > 1 => Lower(d, pos) = Mean(cs[pos - 1])
  BY <1>2, <1>11 DEF b
<1>14. pos < N => Upper(d, pos) = Mean(cs[pos + 1])
  BY <1>1, <1>2, <1>12 DEF a
<1> QED
  BY <1>3, <1>7, <1>8, <1>9, <1>10, <1>11, <1>12, <1>13, <1>14, Zenon DEF c, cs, N, lo, hi

LEMMA LineFacts ==
  ASSUME NEW d, NEW q, Digesting(d), Inner(q), NEW pos \in 1..Len(d.centroids)
  PROVE  /\ IsRatio(Along(d, q, pos)) /\ IsRatio(Slope(d, pos)) /\ Slope(d, pos).num >= 0
         /\ IsRatio(Line(d, q, pos))
         /\ Along(d, q, pos).num =
              2 * (q.num * d.count - WeightBefore(d, pos) * q.den)
                - d.centroids[pos].weight * q.den
<1> DEFINE b == Below(d, pos)
           a == Above(d, pos)
           m == Minus(a, b)
           h == IF pos \in {1, Len(d.centroids)} THEN 1 ELSE 2
           s == Slope(d, pos)
           t == Along(d, q, pos)
           c == d.centroids[pos]
           w == c.weight
           n == 2 * (q.num * d.count - WeightBefore(d, pos) * q.den) - w * q.den
           e == 2 * w * q.den
<1>1. IsRatio(Mean(c)) /\ IsRatio(b) /\ IsRatio(a) /\ AtMost(b, a)
  BY NeighbourFacts
<1>2. IsRatio(m) /\ m.num >= 0
  <2> HIDE DEF a, b
  <2>1. IsRatio(m) /\ m.num = a.num * b.den - b.num * a.den
    BY <1>1, RatioArithmetic
  <2>2. b.num * a.den <= a.num * b.den
    BY <1>1, AtMostIsProducts
  <2> DEFINE x == a.num * b.den
             y == b.num * a.den
  <2>3. x \in Int /\ y \in Int
    BY <1>1 DEF IsRatio
  <2> HIDE DEF x, y
  <2>4. x - y >= 0
    BY <2>2, <2>3 DEF x, y
  <2> QED
    BY <2>1, <2>4 DEF x, y
<1>3. IsRatio(Ratio(1, h)) /\ Ratio(1, h).num = 1
  <2>1. h \in Nat \ {0}
    OBVIOUS
  <2> QED
    BY <2>1, RatioFacts
<1>4. s = Times(m, Ratio(1, h))
  BY DEF Slope
<1> HIDE DEF m, h, s, a, b
<1>5. IsRatio(s) /\ s.num = m.num * 1
  BY <1>2, <1>3, <1>4, RatioArithmetic
<1>6. s.num >= 0
  <2>1. m.num \in Int
    BY <1>2 DEF IsRatio
  <2> QED
    BY <1>2, <1>5, <2>1
<1>7. w \in Nat \ {0} /\ q.den \in Nat \ {0} /\ q.num \in Nat /\ d.count \in Nat
  <2>1. c \in Centroid
    BY DEF Digesting
  <2> HIDE DEF c
  <2> QED
    BY <2>1, CentroidFacts DEF Inner, Digesting
<1>8. WeightBefore(d, pos) \in Int
  BY WeightBeforeIsInt
<1>9. t = Ratio(n, e)
  BY DEF Along
<1> HIDE DEF t, w
<1>10. n \in Int /\ e \in Nat \ {0}
  <2>1. n \in Int
    <3> DEFINE i == q.num * d.count
               j == WeightBefore(d, pos) * q.den
               k == w * q.den
    <3>1. i \in Int /\ j \in Int /\ k \in Int
      BY <1>7, <1>8
    <3> HIDE DEF i, j, k
    <3>2. 2 * (i - j) - k \in Int
      BY <3>1
    <3> QED
      BY <3>2 DEF i, j, k
  <2>2. 2 * w \in Nat \ {0}
    BY <1>7
  <2> HIDE DEF n
  <2>3. e \in Nat \ {0}
    BY <1>7, <2>2, PositiveProduct
  <2> QED
    BY <2>1, <2>3
<1> HIDE DEF n, e
<1>11. IsRatio(t) /\ t.num = n
  BY <1>9, <1>10, RatioFacts
<1>12. IsRatio(Times(t, s))
  BY <1>5, <1>11, RatioArithmetic
<1>13. IsRatio(Plus(Mean(c), Times(t, s)))
  <2> HIDE DEF c
  <2> QED
    BY <1>1, <1>12, RatioArithmetic
<1> QED
  BY <1>5, <1>6, <1>11, <1>13 DEF Line, s, t, c, w, n
-----------------------------------------------------------------------------
(* Estimates *)
LEMMA EstimateIsBetween ==
  ASSUME NEW d, NEW q, Digesting(d), q.num \in Nat, q.den \in Nat \ {0}
  PROVE  LET x == estimate_quantile(d, q) IN
         IsRatio(x) /\ AtMost(Ratio(d.min, 1), x) /\ AtMost(x, Ratio(d.max, 1))
<1> DEFINE x == estimate_quantile(d, q)
           lo == Ratio(d.min, 1)
           hi == Ratio(d.max, 1)
<1>1. /\ d.centroids # <<>> /\ d.min \in Int /\ d.max \in Int /\ d.min <= d.max
  BY DEF Digesting
<1>2. /\ IsRatio(lo) /\ IsRatio(hi)
      /\ AtMost(lo, lo) /\ AtMost(lo, hi) /\ AtMost(hi, hi)
  <2>1. /\ IsRatio(lo) /\ lo.num = d.min /\ lo.den = 1
        /\ IsRatio(hi) /\ hi.num = d.max /\ hi.den = 1
    BY <1>1, RatioFacts
  <2>2. d.min * 1 <= d.min * 1 /\ d.min * 1 <= d.max * 1 /\ d.max * 1 <= d.max * 1
    BY <1>1
  <2> HIDE DEF lo, hi
  <2> QED
    BY <2>1, <2>2, AtMostIsProducts
<1>3. CASE q.num >= q.den
  <2>1. x = hi
    BY <1>1, <1>3 DEF estimate_quantile
  <2> HIDE DEF x, lo, hi
  <2> QED
    BY <1>2, <2>1 DEF x, lo, hi
<1>4. CASE ~(q.num >= q.den) /\ q.num <= 0
  <2>1. x = lo
    BY <1>1, <1>4 DEF estimate_quantile
  <2> HIDE DEF x, lo, hi
  <2> QED
    BY <1>2, <2>1 DEF x, lo, hi
<1>5. CASE ~(q.num >= q.den) /\ ~(q.num <= 0)
  <2> DEFINE pos == Position(d, q)
             v == Line(d, q, pos)
             l == Lower(d, pos)
             h == Upper(d, pos)
             m == Mean(d.centroids[pos])
  <2>1. Inner(q)
    BY <1>5 DEF Inner
  <2>2. pos \in 1..Len(d.centroids)
    BY <2>1, PositionFacts
  <2>3. x = clamp(v, l, h)
    BY <2>1, EstimateIsClamped
  <2> HIDE DEF pos
  <2>4. IsRatio(v)
    BY <2>1, <2>2, LineFacts
  <2>5. /\ IsRatio(m) /\ IsRatio(l) /\ IsRatio(h) /\ AtMost(l, m) /\ AtMost(m, h)
        /\ AtMost(lo, l) /\ AtMost(h, hi)
    BY <2>2, NeighbourFacts
  <2> HIDE DEF v, l, h, m, x
  <2>6. IsRatio(x) /\ AtMost(l, x) /\ AtMost(x, h)
    BY <2>3, <2>4, <2>5, ClampFacts
  <2> HIDE DEF lo, hi
  <2>7. AtMost(lo, x) /\ AtMost(x, hi)
    BY <1>2, <2>5, <2>6, AtMostIsTransitive
  <2> QED
    BY <2>6, <2>7 DEF x, lo, hi
<1> QED
  BY <1>3, <1>4, <1>5

(* The weight before a centroid is the number of those before it, if each weighs 1. *)
LEMMA WeightOfSingles ==
  ASSUME NEW cs \in Seq(Centroid), \A k \in 1..Len(cs) : cs[k].weight = 1,
         NEW n \in 0..Len(cs)
  PROVE  WeightOf(SubSeq(cs, 1, n)) = n
<1> DEFINE N == Len(cs)
           g == [k \in 0..N |-> WeightOf(SubSeq(cs, 1, k))]
           T == [k \in 0..N |-> {k}]
<1>1. N \in Nat /\ 0 \in 0..N
  OBVIOUS
<1>2. g[0] \in T[0]
  <2>1. WeightOf(SubSeq(cs, 1, 0)) = 0
    BY EmptyPrefix, SumsOfEmpty
  <2> QED
    BY <1>1, <2>1
<1>3. ASSUME NEW k \in 1..N, g[k - 1] \in T[k - 1] PROVE g[k] \in T[k]
  <2> DEFINE i == k - 1
  <2>1. i \in Nat /\ i < Len(cs) /\ k = i + 1 /\ i \in 0..N /\ k \in 0..N
    BY <1>1
  <2>2. WeightOf(SubSeq(cs, 1, i)) = i
    BY <1>3, <2>1
  <2> HIDE DEF i, g, T
  <2>3. WeightOf(SubSeq(cs, 1, k)) = i + 1
    BY <2>1, <2>2, PrefixGrows
  <2> QED
    BY <2>1, <2>3 DEF g, T
<1>4. \A k \in 0..N : g[k] \in T[k]
  <2> HIDE DEF N, g, T
  <2> QED
    BY <1>1, <1>2, <1>3, LoopInvariant
<1> QED
  BY <1>4

(* The number of places up to a bound, and from it *)
LEMMA AtMostUpto ==
  ASSUME NEW n \in Nat, NEW S \in SUBSET (1..n)
  PROVE  IsFiniteSet(S) /\ Cardinality(S) \in Nat /\ Cardinality(S) <= n
<1>1. IsFiniteSet(1..n) /\ Cardinality(1..n) = n
  BY FS_Interval
<1>2. IsFiniteSet(S) /\ Cardinality(S) <= Cardinality(1..n)
  BY <1>1, FS_Subset
<1> QED
  BY <1>1, <1>2, FS_CardinalityType

LEMMA AtLeastUpto ==
  ASSUME NEW n \in Nat, NEW S, IsFiniteSet(S), 1..n \subseteq S
  PROVE  Cardinality(S) >= n
<1>1. IsFiniteSet(1..n) /\ Cardinality(1..n) = n
  BY FS_Interval
<1>2. Cardinality(1..n) <= Cardinality(S) /\ Cardinality(S) \in Nat
  BY FS_Subset, FS_CardinalityType
<1> QED
  BY <1>1, <1>2

(* The centroids whose means are below x, and those whose means are not above *)
Under(x) == {c \in Centroid : Less(Mean(c), x)}
Upto(x) == {c \in Centroid : ~Less(x, Mean(c))}

(* Those below x end before a mean that is not, ... *)
LEMMA UnderEnds ==
  ASSUME NEW cs \in Seq(Centroid), InOrder(cs), NEW x, IsRatio(x),
         NEW k \in 1..Len(cs), AtMost(x, Mean(cs[k]))
  PROVE  Places(cs, Under(x)) \subseteq 1..(k - 1)
<1> SUFFICES ASSUME NEW i \in 1..Len(cs), cs[i] \in Under(x), ~(i \in 1..(k - 1)) PROVE FALSE
  BY DEF Places
<1>1. k <= i /\ cs[k] \in Centroid /\ cs[i] \in Centroid /\ Less(Mean(cs[i]), x)
  BY DEF Under
<1>2. NotAbove(cs[k], cs[i])
  BY <1>1, LaterIsNotBelow
<1>3. IsRatio(Mean(cs[k])) /\ IsRatio(Mean(cs[i])) /\ AtMost(Mean(cs[k]), Mean(cs[i]))
  BY <1>1, <1>2, MeanFacts
<1>4. AtMost(x, Mean(cs[i]))
  BY <1>3, AtMostIsTransitive
<1> QED
  BY <1>1, <1>4 DEF AtMost

(* ... and those up to x begin with all before a mean that is one. *)
LEMMA UptoBegins ==
  ASSUME NEW cs \in Seq(Centroid), InOrder(cs), NEW x, IsRatio(x),
         NEW k \in 1..Len(cs), AtMost(Mean(cs[k]), x)
  PROVE  1..k \subseteq Places(cs, Upto(x))
<1> SUFFICES ASSUME NEW i \in 1..k PROVE i \in Places(cs, Upto(x))
  OBVIOUS
<1>1. i \in 1..Len(cs) /\ i <= k /\ cs[k] \in Centroid /\ cs[i] \in Centroid
  OBVIOUS
<1>2. NotAbove(cs[i], cs[k])
  BY <1>1, LaterIsNotBelow
<1>3. IsRatio(Mean(cs[k])) /\ IsRatio(Mean(cs[i])) /\ AtMost(Mean(cs[i]), Mean(cs[k]))
  BY <1>1, <1>2, MeanFacts
<1>4. AtMost(Mean(cs[i]), x)
  BY <1>3, AtMostIsTransitive
<1> QED
  BY <1>1, <1>4 DEF AtMost, Upto, Places

(* The rank that n centroids stand for, p the position and r the rank that is sought *)
LEMMA RankArithmetic ==
  ASSUME NEW D \in Nat \ {0}, NEW r \in Int, NEW p \in Int, NEW n \in Int
  PROVE  /\ n <= p /\ 2 * (r - (p - 1) * D) - D > 0 => 2 * (D * n) <= 2 * r + D
         /\ n <= p - 1 /\ (p - 1) * D <= r => 2 * (D * n) <= 2 * r + D
         /\ n >= p - 1 /\ 2 * (r - (p - 1) * D) - D < 0 => 2 * (D * n) >= 2 * r - D
         /\ n >= p /\ r < p * D => 2 * (D * n) >= 2 * r - D
<1> DEFINE a == D * n
           b == (p - 1) * D
           c == p * D
<1>1. a \in Int /\ b \in Int /\ c \in Int
  OBVIOUS
<1>2. c = b + D
  BY Z3
<1>3. n <= p => a <= c
  BY Z3
<1>4. n <= p - 1 => a <= b
  BY Z3
<1>5. n >= p - 1 => a >= b
  BY Z3
<1>6. n >= p => a >= c
  BY Z3
<1> HIDE DEF a, b, c
<1>7. /\ n <= p /\ 2 * (r - b) - D > 0 => 2 * a <= 2 * r + D
      /\ n <= p - 1 /\ b <= r => 2 * a <= 2 * r + D
      /\ n >= p - 1 /\ 2 * (r - b) - D < 0 => 2 * a >= 2 * r - D
      /\ n >= p /\ r < c => 2 * a >= 2 * r - D
  BY <1>1, <1>2, <1>3, <1>4, <1>5, <1>6
<1> QED
  BY <1>7 DEF a, b, c

(* Half a rank off at most: the centroids below an estimate, and those up to it *)
IsClose(cs, x, q, count) ==
  /\ 2 * q.den * Cardinality(Places(cs, Under(x))) <= 2 * q.num * count + q.den
  /\ 2 * q.den * Cardinality(Places(cs, Upto(x))) >= 2 * q.num * count - q.den

LEMMA EstimateIsClose ==
  ASSUME NEW d, NEW q, Digesting(d), Inner(q),
         d.count = Len(d.centroids), \A k \in 1..Len(d.centroids) : d.centroids[k].weight = 1
  PROVE  IsClose(d.centroids, estimate_quantile(d, q), q, d.count)
<1> DEFINE cs == d.centroids
           N == Len(cs)
           D == q.den
           r == q.num * d.count
           pos == Position(d, q)
           x == estimate_quantile(d, q)
           v == Line(d, q, pos)
           t == Along(d, q, pos)
           s == Slope(d, pos)
           m == Mean(cs[pos])
           l == Lower(d, pos)
           h == Upper(d, pos)
           U == Cardinality(Places(cs, Under(x)))
           W == Cardinality(Places(cs, Upto(x)))
<1>1. /\ cs \in Seq(Centroid) /\ InOrder(cs) /\ N \in Nat
      /\ D \in Nat \ {0} /\ q.num \in Nat \ {0} /\ q.num < D /\ d.count = N /\ r \in Int
  BY DEF Digesting, Inner
<1>2. \A k \in 1..N : WeightBefore(d, k) = k - 1
  <2> SUFFICES ASSUME NEW k \in 1..N PROVE WeightBefore(d, k) = k - 1
    OBVIOUS
  <2>1. k - 1 \in 0..N
    BY <1>1
  <2> QED
    BY <1>1, <2>1, WeightOfSingles DEF WeightBefore
<1>3. /\ pos \in 1..N
      /\ WeightBefore(d, pos) * D <= r
      /\ \A k \in 1..N : WeightBefore(d, k) * D <= r => k <= pos
  BY PositionFacts
<1>4. x = clamp(v, l, h)
  BY EstimateIsClamped
<1> HIDE DEF pos, x
<1>5. (pos - 1) * D <= r /\ r < pos * D
  <2>1. (pos - 1) * D <= r
    BY <1>2, <1>3
  <2>2. CASE pos < N
    <3>1. pos + 1 \in 1..N /\ ~(pos + 1 <= pos) /\ (pos + 1) - 1 = pos
      BY <1>1, <1>3, <2>2
    <3>2. ~(WeightBefore(d, pos + 1) * D <= r)
      BY <1>3, <3>1
    <3>3. ~(pos * D <= r)
      BY <1>2, <3>1, <3>2
    <3>4. pos * D \in Int
      BY <1>1, <1>3
    <3> HIDE DEF r, D
    <3> QED
      BY <1>1, <2>1, <3>3, <3>4
  <2>3. CASE pos = N
    <3>1. N > 0
      BY <1>1, <1>3
    <3> DEFINE n == q.num
    <3>2. n \in Int /\ n < D /\ r = n * N
      BY <1>1
    <3> HIDE DEF n, D, r, N
    <3>3. n * N < N * D
      BY <1>1, <3>1, <3>2, Z3
    <3> QED
      BY <2>1, <2>3, <3>2, <3>3
  <2> QED
    BY <1>1, <1>3, <2>2, <2>3
<1>6. IsRatio(t) /\ IsRatio(s) /\ s.num >= 0 /\ IsRatio(v) /\ t.num = 2 * (r - (pos - 1) * D) - D
  <2>1. /\ IsRatio(t) /\ IsRatio(s) /\ s.num >= 0 /\ IsRatio(v)
        /\ t.num = 2 * (r - WeightBefore(d, pos) * D) - cs[pos].weight * D
    BY <1>3, LineFacts
  <2>2. cs[pos].weight * D = D
    BY <1>1, <1>3
  <2> HIDE DEF t, s, v, cs, r, D
  <2> QED
    BY <1>2, <1>3, <2>1, <2>2
<1>7. /\ IsRatio(m) /\ IsRatio(l) /\ IsRatio(h) /\ AtMost(l, m) /\ AtMost(m, h)
      /\ pos > 1 => l = Mean(cs[pos - 1])
      /\ pos < N => h = Mean(cs[pos + 1])
  BY <1>3, NeighbourFacts
<1>8. v = Plus(m, Times(t, s))
  BY DEF Line
<1> HIDE DEF v, t, s, m, l, h
<1>9. /\ IsRatio(x) /\ AtMost(l, x) /\ AtMost(x, h)
      /\ Less(m, x) => Less(m, v)
      /\ Less(x, m) => Less(v, m)
  BY <1>4, <1>6, <1>7, ClampFacts
<1>10. (Less(m, v) => t.num > 0) /\ (Less(v, m) => t.num < 0)
  BY <1>6, <1>7, <1>8, SideOfLine
<1>11. /\ Less(m, x) => 2 * (r - (pos - 1) * D) - D > 0
       /\ Less(x, m) => 2 * (r - (pos - 1) * D) - D < 0
  BY <1>6, <1>9, <1>10
<1> HIDE DEF r, D, cs
<1>12. Places(cs, Under(x)) \subseteq 1..N /\ Places(cs, Upto(x)) \subseteq 1..N
  BY DEF Places
<1>13. U \in Nat /\ U <= N /\ W \in Nat /\ IsFiniteSet(Places(cs, Upto(x)))
  BY <1>1, <1>12, AtMostUpto
<1>14. 2 * (D * U) <= 2 * r + D
  <2>1. CASE Less(m, x)
    <3>1. U <= pos
      <4>1. CASE pos < N
        <5>1. pos + 1 \in 1..N /\ (pos + 1) - 1 = pos /\ pos \in Nat
          BY <1>1, <1>3, <4>1
        <5>2. AtMost(x, Mean(cs[pos + 1]))
          BY <1>7, <1>9, <4>1
        <5>3. Places(cs, Under(x)) \subseteq 1..((pos + 1) - 1)
          BY <1>1, <1>9, <5>1, <5>2, UnderEnds
        <5>4. Places(cs, Under(x)) \in SUBSET (1..pos)
          BY <5>1, <5>3
        <5> QED
          BY <5>1, <5>4, AtMostUpto
      <4>2. CASE pos = N
        BY <1>13, <4>2
      <4> QED
        BY <1>1, <1>3, <4>1, <4>2
    <3>2. pos \in Int /\ U \in Int /\ 2 * (r - (pos - 1) * D) - D > 0
      BY <1>3, <1>11, <1>13, <2>1
    <3> HIDE DEF U
    <3> QED
      BY <1>1, <3>1, <3>2, RankArithmetic
  <2>2. CASE ~Less(m, x)
    <3>1. Places(cs, Under(x)) \subseteq 1..(pos - 1)
      <4>1. AtMost(x, Mean(cs[pos]))
        BY <2>2 DEF AtMost, m
      <4> QED
        BY <1>1, <1>3, <1>9, <4>1, UnderEnds
    <3>2. U <= pos - 1
      <4>1. pos - 1 \in Nat /\ Places(cs, Under(x)) \in SUBSET (1..(pos - 1))
        BY <1>1, <1>3, <3>1
      <4> QED
        BY <4>1, AtMostUpto
    <3>3. pos \in Int /\ U \in Int
      BY <1>3, <1>13
    <3> HIDE DEF U
    <3> QED
      BY <1>1, <1>5, <3>2, <3>3, RankArithmetic
  <2> QED
    BY <2>1, <2>2
<1>15. 2 * (D * W) >= 2 * r - D
  <2>1. CASE Less(x, m)
    <3>1. W >= pos - 1
      <4>1. CASE pos > 1
        <5>1. pos - 1 \in 1..N /\ pos - 1 \in Nat
          BY <1>1, <1>3, <4>1
        <5>2. AtMost(Mean(cs[pos - 1]), x)
          BY <1>7, <1>9, <4>1
        <5>3. 1..(pos - 1) \subseteq Places(cs, Upto(x))
          BY <1>1, <1>9, <5>1, <5>2, UptoBegins
        <5> QED
          BY <1>13, <5>1, <5>3, AtLeastUpto
      <4>2. CASE pos = 1
        BY <1>13, <4>2
      <4> QED
        BY <1>1, <1>3, <4>1, <4>2
    <3>2. pos \in Int /\ W \in Int /\ 2 * (r - (pos - 1) * D) - D < 0
      BY <1>3, <1>11, <1>13, <2>1
    <3> HIDE DEF W
    <3> QED
      BY <1>1, <3>1, <3>2, RankArithmetic
  <2>2. CASE ~Less(x, m)
    <3>1. 1..pos \subseteq Places(cs, Upto(x))
      <4>1. AtMost(Mean(cs[pos]), x)
        BY <2>2 DEF AtMost, m
      <4> QED
        BY <1>1, <1>3, <1>9, <4>1, UptoBegins
    <3>2. W >= pos
      <4>1. pos \in Nat
        BY <1>1, <1>3
      <4> QED
        BY <1>13, <3>1, <4>1, AtLeastUpto
    <3>3. pos \in Int /\ W \in Int
      BY <1>3, <1>13
    <3> HIDE DEF W
    <3> QED
      BY <1>1, <1>5, <3>2, <3>3, RankArithmetic
  <2> QED
    BY <2>1, <2>2
<1>16. 2 * D * U = 2 * (D * U) /\ 2 * D * W = 2 * (D * W)
  <2>1. D \in Int /\ U \in Int /\ W \in Int
    BY <1>1, <1>13
  <2> HIDE DEF U, W
  <2> QED
    BY <2>1, Z3
<1>17. 2 * q.num * d.count = 2 * r
  <2> DEFINE n == q.num
             c == d.count
  <2>1. n \in Int /\ c \in Int /\ r = n * c
    BY <1>1 DEF r
  <2> HIDE DEF n, c
  <2>2. 2 * n * c = 2 * r
    BY <2>1, Z3
  <2> QED
    BY <2>2 DEF n, c
<1> HIDE DEF U, W
<1>18. 2 * D * U <= 2 * q.num * d.count + D /\ 2 * D * W >= 2 * q.num * d.count - D
  BY <1>14, <1>15, <1>16, <1>17
<1> QED
  BY <1>18 DEF IsClose, U, W, D, cs, x
(* Those of the quantiles 0 and 1 are the extremes. *)
LEMMA ExtremeIsClose ==
  ASSUME NEW d, NEW q, Digesting(d), d.count = Len(d.centroids),
         q.num \in Nat, q.den \in Nat \ {0}, q.num <= q.den, ~Inner(q)
  PROVE  IsClose(d.centroids, estimate_quantile(d, q), q, d.count)
<1> DEFINE cs == d.centroids
           N == Len(cs)
           D == q.den
           x == estimate_quantile(d, q)
           lo == Ratio(d.min, 1)
           hi == Ratio(d.max, 1)
           U == Cardinality(Places(cs, Under(x)))
           W == Cardinality(Places(cs, Upto(x)))
<1>1. /\ cs \in Seq(Centroid) /\ cs # <<>> /\ N \in Nat /\ D \in Nat \ {0} /\ d.count = N
      /\ d.min \in Int /\ d.max \in Int
  BY DEF Digesting
<1>2. \A k \in 1..N : AtMost(lo, Mean(cs[k])) /\ AtMost(Mean(cs[k]), hi)
  <2> SUFFICES ASSUME NEW k \in 1..N
               PROVE  AtMost(lo, Mean(cs[k])) /\ AtMost(Mean(cs[k]), hi)
    OBVIOUS
  <2>1. cs[k] \in Centroid /\ Between(cs[k], d.min, d.max)
    BY <1>1 DEF Digesting, ToSet
  <2> QED
    BY <1>1, <2>1, MeanIsBetween
<1>3. Places(cs, Under(x)) \subseteq 1..N /\ Places(cs, Upto(x)) \subseteq 1..N
  BY DEF Places
<1> HIDE DEF cs
<1>4. U \in Nat /\ U <= N /\ W \in Nat /\ IsFiniteSet(Places(cs, Upto(x)))
  BY <1>1, <1>3, AtMostUpto
<1>5. CASE q.num = 0
  <2>1. x = lo
    BY <1>1, <1>5 DEF estimate_quantile, cs
  <2> HIDE DEF x, lo
  <2>2. Places(cs, Under(x)) \in SUBSET (1..0)
    BY <1>2, <2>1 DEF Places, Under, AtMost
  <2>3. U <= 0
    BY <2>2, AtMostUpto
  <2> HIDE DEF U, W, N, D
  <2>4. 2 * D * U <= D /\ 2 * D * W >= 0 - D
    <3>1. U = 0 /\ 2 * D * 0 = 0
      BY <1>1, <1>4, <2>3
    <3> DEFINE w == 2 * D * W
    <3>2. w \in Int /\ w >= 0
      BY <1>1, <1>4, Z3
    <3> HIDE DEF w
    <3>3. w >= 0 - D
      BY <1>1, <3>2
    <3>4. 2 * D * U <= D
      BY <1>1, <3>1
    <3> QED
      BY <3>3, <3>4 DEF w
  <2>5. 2 * q.num * d.count = 0
    BY <1>1, <1>5
  <2>6. 2 * D * U <= 2 * q.num * d.count + D /\ 2 * D * W >= 2 * q.num * d.count - D
    BY <1>1, <2>4, <2>5
  <2> QED
    BY <2>6 DEF IsClose, U, W, D, cs, x
<1>6. CASE q.num = D
  <2>1. x = hi
    BY <1>1, <1>6 DEF estimate_quantile, cs
  <2> HIDE DEF x, hi
  <2>2. 1..N \subseteq Places(cs, Upto(x))
    BY <1>1, <1>2, <2>1 DEF Places, Upto, AtMost
  <2>3. W >= N
    BY <1>1, <1>4, <2>2, AtLeastUpto
  <2> HIDE DEF U, W, N, D
  <2>4. 2 * D * U <= 2 * D * N /\ 2 * D * W >= 2 * D * N /\ 2 * D * N \in Int
    BY <1>1, <1>4, <2>3, Z3
  <2>5. 2 * D * U <= 2 * D * N + D /\ 2 * D * W >= 2 * D * N - D
    <3> DEFINE a == 2 * D * U
               b == 2 * D * W
               c == 2 * D * N
    <3>1. a \in Int /\ b \in Int /\ c \in Int
      BY <1>1, <1>4
    <3> HIDE DEF a, b, c
    <3>2. a <= c + D /\ b >= c - D
      BY <1>1, <2>4, <3>1 DEF a, b, c
    <3> QED
      BY <3>2 DEF a, b, c
  <2> QED
    BY <1>1, <1>6, <2>5 DEF IsClose, U, W, D, cs, x
<1> QED
  BY <1>5, <1>6 DEF Inner

(* As many centroids as values lie where the values do, ... *)
LEMMA PlacesOfWhole ==
  ASSUME NEW cs \in Seq(Centroid), NEW values \in Seq(Int), Whole(cs, values),
         Len(cs) = Len(values), NEW Y
  PROVE  Cardinality(Places(cs, Y)) = Cardinality(Places(Singles(values), Y))
<1>1. Count(cs, Y) = Count(Singles(values), Y)
  BY DEF Whole
<1>2. Count(cs, Y) = Cardinality(Places(cs, Y))
  BY CountIsCardinality
<1>3. Singles(values) \in Seq(Centroid)
  BY SinglesFacts
<1>4. Count(Singles(values), Y) = Cardinality(Places(Singles(values), Y))
  BY <1>3, CountIsCardinality
<1> QED
  BY <1>1, <1>2, <1>4

(* ... and none of them is of several. *)
Heavy == {c \in Centroid : c.weight # 1}

LEMMA EachWeighsOne ==
  ASSUME NEW cs \in Seq(Centroid), NEW values \in Seq(Int), Whole(cs, values),
         Len(cs) = Len(values)
  PROVE  \A k \in 1..Len(cs) : cs[k].weight = 1
<1>1. Places(Singles(values), Heavy) = {}
  BY SinglesFacts, CentroidFacts DEF Places, Heavy
<1>2. Cardinality(Places(cs, Heavy)) = 0
  <2>1. Cardinality(Places(Singles(values), Heavy)) = 0
    BY <1>1, FS_EmptySet
  <2> QED
    BY <2>1, PlacesOfWhole
<1>3. Places(cs, Heavy) \in SUBSET (1..Len(cs)) /\ Len(cs) \in Nat
  BY DEF Places
<1>4. Places(cs, Heavy) = {}
  BY <1>2, <1>3, AtMostUpto, FS_EmptySet
<1> QED
  BY <1>4 DEF Places, Heavy

(* The values below x, and those not above it, by their centroids *)
LEMMA PlacesOfSingles ==
  ASSUME NEW values \in Seq(Int), NEW x
  PROVE  /\ Places(Singles(values), Under(x)) =
              {i \in DOMAIN values : Less(Ratio(values[i], 1), x)}
         /\ Places(Singles(values), Upto(x)) =
              {i \in DOMAIN values : ~Less(x, Ratio(values[i], 1))}
<1> DEFINE s == Singles(values)
           N == Len(values)
<1>1. Len(s) = N /\ DOMAIN values = 1..N
  BY SinglesFacts
<1>2. \A i \in 1..N : s[i] \in Centroid /\ Mean(s[i]) = Ratio(values[i], 1)
  <2> SUFFICES ASSUME NEW i \in 1..N
               PROVE  s[i] \in Centroid /\ Mean(s[i]) = Ratio(values[i], 1)
    OBVIOUS
  <2>1. s[i] = Single(values[i]) /\ values[i] \in Int
    BY SinglesFacts
  <2> HIDE DEF s
  <2> QED
    BY <2>1, CentroidFacts DEF Mean
<1> HIDE DEF s, N
<1> QED
  BY <1>1, <1>2 DEF Places, Under, Upto, s

(* The estimates of a digest that has a centroid for each of its values *)
LEMMA EstimatesAreClose ==
  ASSUME NEW d, Digesting(d), NEW values \in Seq(Int), Whole(d.centroids, values),
         d.count = Len(values), Len(d.centroids) = Len(values),
         NEW q, q.num \in Nat, q.den \in Nat \ {0}, q.num <= q.den
  PROVE  LET x == estimate_quantile(d, q) IN
         /\ 2 * q.den * Cardinality({i \in DOMAIN values : Less(Ratio(values[i], 1), x)})
              <= 2 * q.num * d.count + q.den
         /\ 2 * q.den * Cardinality({i \in DOMAIN values : ~Less(x, Ratio(values[i], 1))})
              >= 2 * q.num * d.count - q.den
<1> DEFINE x == estimate_quantile(d, q)
           cs == d.centroids
<1>1. cs \in Seq(Centroid)
  BY DEF Digesting
<1>2. \A k \in 1..Len(cs) : cs[k].weight = 1
  BY <1>1, EachWeighsOne
<1>3. IsClose(cs, x, q, d.count)
  <2>1. CASE Inner(q)
    BY <1>2, <2>1, EstimateIsClose
  <2>2. CASE ~Inner(q)
    BY <2>2, ExtremeIsClose
  <2> QED
    BY <2>1, <2>2
<1> HIDE DEF x, cs
<1>4. /\ Cardinality(Places(cs, Under(x))) = Cardinality(Places(Singles(values), Under(x)))
      /\ Cardinality(Places(cs, Upto(x))) = Cardinality(Places(Singles(values), Upto(x)))
  BY <1>1, PlacesOfWhole DEF cs
<1> QED
  BY <1>3, <1>4, PlacesOfSingles DEF IsClose, x

LEMMA DigestOfSome ==
  ASSUME NEW d, NEW values \in Seq(Int), NEW size, NEW most,
         DigestOf(d, values, size, most), values # <<>>
  PROVE  Digesting(d)
<1>1. /\ d \in DigestRecords /\ d.count = Len(values)
      /\ Made(d.centroids, values, d.min, d.max)
  BY DEF DigestOf, Gathered
<1>2. /\ d.centroids \in Seq(Centroid) /\ d.centroids # <<>> /\ InOrder(d.centroids)
      /\ d.min \in Int /\ d.max \in Int /\ Extremes(values, d.min, d.max)
      /\ \A c \in ToSet(d.centroids) : Between(c, d.min, d.max)
  BY <1>1 DEF Made
<1>3. d.min <= d.max
  BY <1>2 DEF Extremes
<1>4. d.count \in Nat
  BY <1>1
<1> QED
  BY <1>2, <1>3, <1>4 DEF Digesting
-----------------------------------------------------------------------------
(* What the estimates need to know of a digest beside DigestInvariant *)
WholeInvariant == Whole(current.centroids, Digested)

LEMMA FlushedIsWhole ==
  ASSUME DigestInvariant, WholeInvariant, NEW s \in Seq(Values)
  PROVE  Whole(Flushed(s).centroids, Digested \o s)
<1>1. Digested \in Seq(Values)
  BY DigestedFacts DEF DigestInvariant, Digested
<1>2. Digested \in Seq(Int) /\ s \in Seq(Int)
  BY <1>1, ValuesAreInt
<1> QED
  BY <1>2, OnlineAssumption, WholeOfMerged DEF DigestInvariant, WholeInvariant, Flushed

LEMMA InitIsWhole == Init => WholeInvariant
<1> SUFFICES ASSUME Init PROVE WholeInvariant
  OBVIOUS
<1>1. Digested = <<>> /\ current.centroids = <<>>
  BY DEF Init, Digested, Empty
<1> QED
  BY <1>1, WholeOfNone DEF WholeInvariant

LEMMA NextKeepsWhole ==
  DigestInvariant /\ WholeInvariant /\ [Next]_vars => WholeInvariant'
<1> SUFFICES ASSUME DigestInvariant, WholeInvariant, [Next]_vars PROVE WholeInvariant'
  OBVIOUS
<1>1. ASSUME NEW v \in Values, Observe(v) PROVE WholeInvariant'
  <2> DEFINE recorded == Append(buffer, v)
  <2>1. /\ recorded \in Seq(Values) /\ observed' \in Seq(Values)
        /\ SubSeq(observed', 1, Len(observed') - Len(recorded)) = Digested
        /\ observed' = Digested \o recorded
    BY <1>1, ObservedFacts
  <2> HIDE DEF recorded
  <2>2. CASE current' = Flushed(recorded) /\ buffer' = <<>>
    <3>1. Digested' = Digested \o recorded
      BY <2>1, <2>2, WithoutBuffer DEF Digested
    <3> QED
      BY <2>1, <2>2, <3>1, FlushedIsWhole DEF WholeInvariant
  <2>3. CASE buffer' = recorded /\ current' = current
    <3>1. Digested' = Digested
      BY <2>1, <2>3 DEF Digested
    <3> QED
      BY <2>3, <3>1 DEF WholeInvariant
  <2> QED
    BY <1>1, <2>2, <2>3 DEF Observe, recorded
<1>2. CASE Get
  <2>1. /\ current' = Flushed(buffer) /\ buffer' = <<>> /\ observed' = observed
        /\ buffer \in Seq(Values) /\ observed \in Seq(Values) /\ observed = Digested \o buffer
    BY <1>2 DEF Get, DigestInvariant
  <2>2. Digested' = Digested \o buffer
    BY <2>1, WithoutBuffer DEF Digested
  <2> QED
    BY <2>1, <2>2, FlushedIsWhole DEF WholeInvariant
<1>3. CASE Reset \/ ResetMut
  <2>1. current'.centroids = <<>>
    <3>1. \A size : Empty(size).centroids = <<>>
      BY DEF Empty
    <3>2. \A d : reset(d).centroids = <<>>
      BY DEF reset, Empty
    <3>3. current' = Empty(MaxSize) \/ current' = reset(snapshot')
      BY <1>3 DEF Reset, ResetMut
    <3> QED
      BY <3>1, <3>2, <3>3
  <2>2. Digested' = <<>>
    BY <1>3 DEF Reset, ResetMut, TakeSnapshot, Digested
  <2> QED
    BY <2>1, <2>2, WholeOfNone DEF WholeInvariant
<1>4. CASE UNCHANGED vars
  BY <1>4 DEF vars, WholeInvariant, Digested
<1> QED
  BY <1>1, <1>2, <1>3, <1>4 DEF Next

(* A digest that has as many centroids as observations were merged into it holds     *)
(* exactly these: merging, compressing and merging again neither joined two of them  *)
(* nor took one for another (tdigest.rs:262).                                        *)
THEOREM WholeInvariantHolds == Spec => []WholeInvariant
BY InitIsWhole, NextKeepsWhole, DigestInvariantHolds, PTL DEF Spec

(* However a digest came about, an estimated quantile of it lies between its         *)
(* extremes; and while no two values share a centroid, at most half a rank more than *)
(* q times the count are below the estimate, and at most half a rank less are not    *)
(* above it (tdigest.rs:475).                                                        *)
THEOREM QuantilesLieClose == Spec => []QuantilesAreClose
<1>1. DigestInvariant /\ WholeInvariant => QuantilesAreClose
  <2> SUFFICES ASSUME DigestInvariant, WholeInvariant, current.count > 0, NEW q \in Quantiles
               PROVE  LET x == estimate_quantile(current, q) IN
                      /\ ~Less(x, Ratio(current.min, 1))
                      /\ ~Less(Ratio(current.max, 1), x)
                      /\ Len(current.centroids) = current.count =>
                           /\ 2 * q.den * Smaller(x) <= 2 * q.num * current.count + q.den
                           /\ 2 * q.den * NotGreater(x) >= 2 * q.num * current.count - q.den
    BY Zenon DEF QuantilesAreClose
  <2> DEFINE x == estimate_quantile(current, q)
  <2>1. q.num \in Nat /\ q.den \in Nat \ {0} /\ q.num <= q.den
    BY QuantilesAssumption
  <2>2. Digested \in Seq(Int)
    <3>1. Digested \in Seq(Values)
      BY DigestedFacts DEF DigestInvariant, Digested
    <3> QED
      BY <3>1, ValuesAreInt
  <2>3. DigestOf(current, Digested, MaxSize, MaxSize) /\ current.count = Len(Digested)
    BY DEF DigestInvariant, DigestOf, Gathered
  <2>4. Digested # <<>>
    BY <2>3
  <2>5. Digesting(current)
    BY <2>2, <2>3, <2>4, DigestOfSome
  <2>6. AtMost(Ratio(current.min, 1), x) /\ AtMost(x, Ratio(current.max, 1))
    BY <2>1, <2>5, EstimateIsBetween
  <2>7. ASSUME Len(current.centroids) = current.count
        PROVE  /\ 2 * q.den * Smaller(x) <= 2 * q.num * current.count + q.den
               /\ 2 * q.den * NotGreater(x) >= 2 * q.num * current.count - q.den
    BY <2>1, <2>2, <2>3, <2>5, <2>7, EstimatesAreClose
       DEF WholeInvariant, Smaller, NotGreater
  <2> HIDE DEF x
  <2> QED
    BY <2>6, <2>7 DEF AtMost, x
<1> QED
  BY <1>1, DigestInvariantHolds, WholeInvariantHolds, PTL
=============================================================================
