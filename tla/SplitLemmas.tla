---------------------------- MODULE SplitLemmas ----------------------------
(***************************************************************************)
(* Facts about the operators of module Split: rounding, list positions,    *)
(* and the slices of a temporal split.                                     *)
(***************************************************************************)
EXTENDS Split, FiniteSetTheorems, WellFoundedInduction, TLAPS

(* Rounding to the nearest is off by at most one half.                     *)
LEMMA RoundBound ==
  ASSUME NEW m \in Nat, NEW d \in Nat \ {0}
  PROVE  /\ RoundHalfEven(m, d) \in Nat
         /\ 2 * (d * RoundHalfEven(m, d)) <= 2 * m + d
<1> DEFINE q == m \div d
           r == m % d
<1>1. q \in Nat /\ r \in 0..(d - 1) /\ m = d * q + r
  OBVIOUS
<1> HIDE DEF q, r
<1>2. CASE RoundHalfEven(m, d) = q
  BY <1>1, <1>2
<1>3. CASE RoundHalfEven(m, d) = q + 1 /\ 2 * r >= d
  <2>1. d * (q + 1) = d * q + d
    BY <1>1
  <2> QED
    BY <1>1, <1>3, <2>1
<1> QED
  BY <1>1, <1>2, <1>3 DEF RoundHalfEven, q, r

(* n_train, n_val and n_test are counts that add up to n, n_train not zero. *)
LEMMA CountBounds ==
  ASSUME NEW n \in Nat \ {0}, NEW V \in Nat, NEW T \in Nat, NEW B \in Nat \ {0},
         2 * (V + T) < B
  PROVE  /\ ValCount(n, V, B) \in Nat
         /\ TestCount(n, T, B) \in Nat
         /\ TrainCount(n, V, T, B) \in Nat \ {0}
         /\ n >= 2 => ValCount(n, V, B) >= 1
         /\ n >= 3 => TestCount(n, T, B) >= 1
<1>1. CASE n < 3
  BY <1>1 DEF ValCount, TestCount, TrainCount
<1>2. CASE n >= 3
  <2> DEFINE rv == RoundHalfEven(n * V, B)
             rt == RoundHalfEven(n * T, B)
  <2>1. n * V \in Nat /\ n * T \in Nat
    OBVIOUS
  <2>2. /\ rv \in Nat /\ 2 * (B * rv) <= 2 * (n * V) + B
        /\ rt \in Nat /\ 2 * (B * rt) <= 2 * (n * T) + B
    BY <2>1, RoundBound
  <2>3. ValCount(n, V, B) = AtLeastOne(rv) /\ TestCount(n, T, B) = AtLeastOne(rt)
    BY <1>2 DEF ValCount, TestCount
  <2> HIDE DEF rv, rt
  <2>4. 2 * (n * V) + 2 * (n * T) + n <= n * B
    <3>1. 2 * (V + T) + 1 <= B
      OBVIOUS
    <3>2. n * (2 * (V + T) + 1) <= n * B
      BY <3>1
    <3>3. n * (2 * (V + T) + 1) = 2 * (n * V) + 2 * (n * T) + n
      OBVIOUS
    <3> QED
      BY <3>2, <3>3
  <2>5. 2 * (rv + rt) <= n + 1
    <3>1. B * (2 * (rv + rt)) = 2 * (B * rv) + 2 * (B * rt)
      BY <2>2
    <3>2. B * (2 * (rv + rt)) < B * (n + 2)
      BY <2>1, <2>2, <2>4, <3>1
    <3> QED
      BY <2>2, <3>2
  <2>6. 2 * rv <= n /\ 2 * rt <= n
    <3>1. B * (2 * rv) < B * (n + 1) /\ B * (2 * rt) < B * (n + 1)
      BY <2>1, <2>2, <2>4
    <3> QED
      BY <2>2, <3>1
  <2> QED
    BY <1>2, <2>2, <2>3, <2>5, <2>6 DEF AtLeastOne, TrainCount
<1> QED
  BY <1>1, <1>2

(* List positions are below the length, and follow the order of the runs.  *)
LEMMA RankFacts ==
  ASSUME NEW S \in SUBSET Nat, IsFiniteSet(S)
  PROVE  /\ Cardinality(S) \in Nat
         /\ \A r \in S : Rank(S, r) \in Nat /\ Rank(S, r) < Cardinality(S)
         /\ \A r, s \in S : Rank(S, r) < Rank(S, s) => r < s
<1>1. Cardinality(S) \in Nat
  BY FS_CardinalityType
<1>2. ASSUME NEW r \in S
      PROVE  Rank(S, r) \in Nat /\ Rank(S, r) < Cardinality(S)
  <2> DEFINE below == {x \in S : x < r}
  <2>1. below \subseteq S /\ below # S /\ IsFiniteSet(below)
    BY FS_Subset
  <2>2. Cardinality(below) \in Nat /\ Cardinality(below) <= Cardinality(S)
    BY <2>1, FS_CardinalityType, FS_Subset
  <2>3. Cardinality(below) # Cardinality(S)
    BY <2>1, FS_Subset
  <2> QED
    BY <1>1, <2>2, <2>3 DEF Rank
<1>3. ASSUME NEW r \in S, NEW s \in S, s <= r
      PROVE  Rank(S, s) <= Rank(S, r)
  <2> DEFINE bs == {x \in S : x < s}
             br == {x \in S : x < r}
  <2>1. bs \subseteq br
    <3>1. \A x \in S : x \in Nat
      OBVIOUS
    <3>2. \A x \in S : x < s => x < r
      BY <1>3, <3>1
    <3> QED
      BY <3>2
  <2>2. IsFiniteSet(br)
    BY FS_Subset
  <2> HIDE DEF bs, br
  <2>3. Cardinality(bs) <= Cardinality(br)
    BY <2>1, <2>2, FS_Subset
  <2> USE DEF bs, br
  <2> QED
    BY <2>3 DEF Rank
<1>4. ASSUME NEW r \in S, NEW s \in S, Rank(S, r) < Rank(S, s)
      PROVE  r < s
  <2>1. CASE s <= r
    BY <1>2, <1>3, <1>4, <2>1
  <2> QED
    BY <2>1
<1> QED
  BY <1>1, <1>2, <1>4

(* Later runs have higher positions, and every position is some run's.     *)
LEMMA RankOnto ==
  ASSUME NEW S \in SUBSET Nat, IsFiniteSet(S)
  PROVE  /\ \A r, s \in S : r < s => Rank(S, r) < Rank(S, s)
         /\ \A i \in 0..Cardinality(S) - 1 : \E r \in S : Rank(S, r) = i
<1>1. ASSUME NEW r \in S, NEW s \in S, r < s
      PROVE  Rank(S, r) < Rank(S, s)
  <2> DEFINE br == {x \in S : x < r}
             bs == {x \in S : x < s}
  <2>1. br \cup {r} \subseteq bs /\ r \notin br
    <3>1. \A x \in S : x \in Nat
      OBVIOUS
    <3>2. \A x \in S : x < r => x < s
      BY <1>1, <3>1
    <3>3. ~ (r < r)
      BY <3>1
    <3> QED
      BY <1>1, <3>2, <3>3
  <2>2. IsFiniteSet(bs) /\ IsFiniteSet(br)
    BY FS_Subset
  <2> HIDE DEF br, bs
  <2>3. Cardinality(br \cup {r}) = Cardinality(br) + 1
    BY <2>1, <2>2, FS_AddElement
  <2>4. Cardinality(br \cup {r}) <= Cardinality(bs)
    BY <2>1, <2>2, FS_Subset
  <2>5. Cardinality(br) \in Nat /\ Cardinality(bs) \in Nat
    BY <2>2, FS_CardinalityType
  <2>6. Cardinality(br) < Cardinality(bs)
    BY <2>3, <2>4, <2>5
  <2> USE DEF br, bs
  <2> QED
    BY <2>6 DEF Rank
<1>2. ASSUME NEW i \in 0..Cardinality(S) - 1 PROVE \E r \in S : Rank(S, r) = i
  <2> DEFINE T == 0..Cardinality(S) - 1
             f == [r \in S |-> Rank(S, r)]
  <2>1. Cardinality(S) \in Nat
    BY FS_CardinalityType
  <2>2. IsFiniteSet(T) /\ Cardinality(T) = Cardinality(S)
    BY <2>1, FS_Interval
  <2>3. f \in [S -> T]
    BY <2>1, RankFacts
  <2>4. \A r, s \in S : f[r] = f[s] => r = s
    <3> SUFFICES ASSUME NEW r \in S, NEW s \in S, Rank(S, r) = Rank(S, s)
                 PROVE  r = s
      OBVIOUS
    <3>1. Rank(S, r) \in Nat /\ ~ (Rank(S, r) < Rank(S, r))
      BY RankFacts
    <3>2. ~ (r < s) /\ ~ (s < r)
      BY <1>1, <3>1
    <3> QED
      BY <3>2
  <2>5. f \in Injection(S, T)
    BY <2>3, <2>4 DEF Injection, IsInjective
  <2> HIDE DEF f, T
  <2>6. f \in Surjection(S, T)
    BY <2>2, <2>5, FS_Injection
  <2>7. PICK r \in S : f[r] = i
    BY <2>6 DEF Surjection, T
  <2> QED
    BY <2>7 DEF f
<1> QED
  BY <1>1, <1>2

(* A list that is not empty has a first run, the one at position 0.        *)
LEMMA FirstRun ==
  ASSUME NEW S \in SUBSET Nat, IsFiniteSet(S), S # {}
  PROVE  \E r \in S : Rank(S, r) = 0
<1> DEFINE R == {p \in Nat \X Nat : p[1] < p[2]}
<1>1. IsWellFoundedOn(R, Nat)
  BY NatLessThanWellFounded DEF OpToRel
<1>2. PICK m \in S : \A x \in S : ~ (<<x, m>> \in R)
  BY <1>1, WFMin
<1>3. {x \in S : x < m} = {}
  BY <1>2
<1> QED
  BY <1>3, FS_EmptySet DEF Rank

(* On a list with a run in it the three slices are intervals of positions. *)
LEMMA SplitFacts ==
  ASSUME NEW S \in SUBSET Nat, IsFiniteSet(S), S # {},
         NEW V \in Nat, NEW T \in Nat, NEW B \in Nat \ {0}, 2 * (V + T) < B,
         NEW c, c = TemporalSplit(S, V, T, B)
  PROVE  /\ c.train \in SUBSET S /\ c.val \in SUBSET S /\ c.test \in SUBSET S
         /\ c.train \cup c.val \cup c.test = S
         /\ c.train \cap c.val = {}
         /\ c.train \cap c.test = {}
         /\ c.val \cap c.test = {}
         /\ \A a \in c.train, b \in c.val \cup c.test : a < b
         /\ \A a \in c.val, b \in c.test : a < b
         /\ c.train # {}
<1> DEFINE n  == Cardinality(S)
           tr == TrainCount(n, V, T, B)
           va == ValCount(n, V, B)
<1>1. n \in Nat \ {0}
  BY FS_CardinalityType, FS_EmptySet
<1>2. va \in Nat /\ tr \in Nat \ {0} /\ tr + va <= n
  <2>1. /\ ValCount(n, V, B) \in Nat
        /\ TestCount(n, T, B) \in Nat
        /\ TrainCount(n, V, T, B) \in Nat \ {0}
    BY <1>1, CountBounds
  <2> HIDE DEF n
  <2> QED
    BY <1>1, <2>1 DEF TrainCount
<1>3. /\ \A r \in S : Rank(S, r) \in Nat /\ Rank(S, r) < n
      /\ \A r, s \in S : Rank(S, r) < Rank(S, s) => r < s
  BY RankFacts
<1>4. c = [train |-> Slice(S, 0, tr), val |-> Slice(S, tr, tr + va),
           test |-> Slice(S, tr + va, n)]
  BY DEF TemporalSplit
<1>5. ASSUME NEW a \in 0..n, NEW b \in 0..n
      PROVE  Slice(S, a, b) = {r \in S : a <= Rank(S, r) /\ Rank(S, r) < b}
  <2>1. SliceBound(n, a) = a /\ SliceBound(n, b) = b
    <3> HIDE DEF n
    <3> QED
      BY <1>1 DEF SliceBound
  <2> QED
    BY <2>1 DEF Slice
<1> HIDE DEF n, tr, va
<1>6. /\ c.train = {r \in S : Rank(S, r) < tr}
      /\ c.val   = {r \in S : tr <= Rank(S, r) /\ Rank(S, r) < tr + va}
      /\ c.test  = {r \in S : tr + va <= Rank(S, r)}
  <2>1. 0 \in 0..n /\ tr \in 0..n /\ tr + va \in 0..n /\ n \in 0..n
    BY <1>1, <1>2
  <2>2. /\ c.train = {r \in S : 0 <= Rank(S, r) /\ Rank(S, r) < tr}
        /\ c.val   = {r \in S : tr <= Rank(S, r) /\ Rank(S, r) < tr + va}
        /\ c.test  = {r \in S : tr + va <= Rank(S, r) /\ Rank(S, r) < n}
    BY <1>4, <1>5, <2>1
  <2> QED
    BY <1>3, <2>2
<1>7. c.train # {}
  <2>1. PICK r \in S : Rank(S, r) = 0
    BY FirstRun
  <2> QED
    BY <1>2, <1>6, <2>1
<1>8. /\ \A a \in c.train, b \in c.val \cup c.test : Rank(S, a) < Rank(S, b)
      /\ \A a \in c.val, b \in c.test : Rank(S, a) < Rank(S, b)
  BY <1>2, <1>3, <1>6
<1>9. c.train \cup c.val \cup c.test = S
  <2>1. ASSUME NEW r \in S
        PROVE  r \in c.train \/ r \in c.val \/ r \in c.test
    BY <1>2, <1>3, <1>6
  <2> QED
    BY <1>6, <2>1
<1>10. /\ c.train \cap c.val = {}
       /\ c.train \cap c.test = {}
       /\ c.val \cap c.test = {}
  <2>1. ASSUME NEW r \in S
        PROVE  /\ ~ (r \in c.train /\ r \in c.val)
               /\ ~ (r \in c.train /\ r \in c.test)
               /\ ~ (r \in c.val /\ r \in c.test)
    BY <1>2, <1>3, <1>6
  <2> QED
    BY <1>6, <2>1
<1> QED
  BY <1>3, <1>6, <1>7, <1>8, <1>9, <1>10

(* The parts of a split are disjoint, of the empty list too.               *)
LEMMA SplitDisjoint ==
  ASSUME NEW S \in SUBSET Nat, IsFiniteSet(S),
         NEW V \in Nat, NEW T \in Nat, NEW B \in Nat \ {0}, 2 * (V + T) < B,
         NEW c, c = TemporalSplit(S, V, T, B)
  PROVE  /\ c.train \in SUBSET S /\ c.val \in SUBSET S /\ c.test \in SUBSET S
         /\ c.test \cap (c.train \cup c.val) = {}
<1>1. CASE S # {}
  <2>1. /\ c.train \in SUBSET S /\ c.val \in SUBSET S /\ c.test \in SUBSET S
        /\ c.train \cap c.test = {}
        /\ c.val \cap c.test = {}
    BY <1>1, SplitFacts
  <2> QED
    BY <2>1
<1>2. CASE S = {}
  BY <1>2 DEF TemporalSplit, Slice
<1> QED
  BY <1>1, <1>2
=============================================================================
