----------------------------- MODULE SplitCases -----------------------------
(***************************************************************************)
(* dataset.temporal_split on every list of runs and every pair of          *)
(* fractions val_frac = v / D, test_frac = t / D whose sum is below one    *)
(* half: one call, its arguments chosen at the start.                      *)
(***************************************************************************)
EXTENDS Split

CONSTANTS Times,  \* the timestamps of the runs there may be
          D       \* denominator of the fractions

ASSUME TimesAssumption == Times \subseteq Nat /\ IsFiniteSet(Times)
ASSUME DAssumption == D \in Nat \ {0}

VARIABLES ids, v, t,  \* the arguments
          called,     \* the call was made
          cut         \* its result, NoCut before the call

splitVars == <<ids, v, t, called, cut>>

NoCut == [train |-> {}, val |-> {}, test |-> {}]

SplitInit ==
  /\ ids \in SUBSET Times
  /\ v \in 0..D
  /\ t \in 0..D
  /\ 2 * (v + t) < D
  /\ called = FALSE /\ cut = NoCut

CallTemporalSplit ==
  /\ ~ called
  /\ called' = TRUE
  /\ cut' = TemporalSplit(ids, v, t, D)
  /\ UNCHANGED <<ids, v, t>>

SplitSpec == SplitInit /\ [][CallTemporalSplit]_splitVars

SplitTypeOK ==
  /\ ids \in SUBSET Times
  /\ v \in 0..D /\ t \in 0..D /\ 2 * (v + t) < D
  /\ called \in BOOLEAN
  /\ cut \in [train : SUBSET Times, val : SUBSET Times, test : SUBSET Times]

(* Every run is in exactly one of train, val and test: the slices meet and *)
(* do not overlap, although n_train is whatever the two rounded counts     *)
(* leave over (dataset.py:58-63).                                          *)
SplitIsPartition ==
  called =>
    /\ cut.train \cup cut.val \cup cut.test = ids
    /\ cut.train \cap cut.val = {}
    /\ cut.train \cap cut.test = {}
    /\ cut.val \cap cut.test = {}

(* The split is by time: no run of a later part is older than one of an    *)
(* earlier part (dataset.py:56-57).                                        *)
SplitIsTemporal ==
  called =>
    /\ \A a \in cut.train, b \in cut.val \cup cut.test : a < b
    /\ \A a \in cut.val, b \in cut.test : a < b

(* Rounding never eats up the train part: with fractions that sum to less  *)
(* than one half there is a run to train on, whatever the number of runs,  *)
(* none apart.                                                             *)
TrainIsNeverEmpty == called /\ ids # {} => cut.train # {}

(* All that a training asks of temporal_split.                             *)
SplitIsSound == SplitIsPartition /\ SplitIsTemporal /\ TrainIsNeverEmpty
=============================================================================
