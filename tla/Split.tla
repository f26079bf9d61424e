------------------------------- MODULE Split -------------------------------
(***************************************************************************)
(* The temporal split of src/gnnid/dataset.py: runs in timestamp order are *)
(* cut into train, val and test, the latest runs last.  A run is its       *)
(* timestamp, a natural number, and a list of runs without duplicates,     *)
(* sorted by timestamp, is the set of its runs; Rank is the list index.    *)
(*                                                                         *)
(* The configured fractions are rationals with the common denominator D:   *)
(* data.val_frac = V / D and data.test_frac = T / D.                       *)
(***************************************************************************)
EXTENDS Integers, FiniteSets

(* Slip: rounding up. *)
RoundUp(m, d) == (m + d - 1) \div d

(* Python's round(m / d): nearest integer, halves to the even neighbour.   *)
RoundHalfEven(m, d) ==
  LET q == m \div d
      r == m % d
  IN  IF 2 * r < d \/ (2 * r = d /\ q % 2 = 0) THEN q ELSE q + 1

AtLeastOne(k) == IF k < 1 THEN 1 ELSE k

(* n_test and n_val: with three runs or more each gets at least one.       *)
TestCount(n, T, D) == IF n >= 3 THEN AtLeastOne(RoundHalfEven(n * T, D)) ELSE 0

ValCount(n, V, D) ==
  IF n >= 3 THEN AtLeastOne(RoundHalfEven(n * V, D))
            ELSE IF n = 2 THEN 1 ELSE 0

(* n_train is what is left: nothing stops it from being negative.          *)
TrainCount(n, V, T, D) == n - ValCount(n, V, D) - TestCount(n, T, D)

(* Slip: the list sorted the other way. *)
RankFromNewest(S, r) == Cardinality({s \in S : s > r})

(* The position of run r in the sorted list of the runs S.                 *)
Rank(S, r) == Cardinality({s \in S : s < r})

(* A Python slice bound on a list of n elements: a negative bound counts   *)
(* from the end, and a bound beyond either end is clipped to it.           *)
SliceBound(n, i) ==
  IF i < 0 THEN IF n + i < 0 THEN 0 ELSE n + i
           ELSE IF i > n THEN n ELSE i

(* Slip: an inclusive upper bound. *)
SliceInclusive(S, a, b) ==
  LET n == Cardinality(S)
  IN  {r \in S : SliceBound(n, a) <= Rank(S, r) /\ Rank(S, r) <= SliceBound(n, b)}

(* Slip: list indices returned instead of the runs. *)
SliceOfRanks(S, a, b) ==
  LET n == Cardinality(S)
  IN  {i \in 0..n - 1 : SliceBound(n, a) <= i /\ i < SliceBound(n, b)}

(* run_ids[a:b] *)
Slice(S, a, b) ==
  LET n == Cardinality(S)
  IN  {r \in S : SliceBound(n, a) <= Rank(S, r) /\ Rank(S, r) < SliceBound(n, b)}

TemporalSplit(S, V, T, D) ==
  LET n  == Cardinality(S)
      tr == TrainCount(n, V, T, D)
      va == ValCount(n, V, D)
  IN  [train |-> Slice(S, 0, tr),
       val   |-> Slice(S, tr, tr + va),
       test  |-> Slice(S, tr + va, n)]
============================================================================
