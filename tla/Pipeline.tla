------------------------------ MODULE Pipeline ------------------------------
(***************************************************************************)
(* The command line as a whole: `gnnid ingest`, `train`, `score` and       *)
(* `eval` are separate processes that communicate through files, the       *)
(* parquet store of module Ingest and the detector bundle.  Module Bundle  *)
(* refines the bundle to its files; here saving it is one step.            *)
(***************************************************************************)
EXTENDS Ingest, Split

CONSTANTS
  ValFrac, TestFrac, FracBase,  \* data.val_frac = ValFrac / FracBase, and so on
  AttackRunsInTest,             \* data.attack_runs_in_test
  Overlap                       \* TRUE: ingest and train may run at the same time

ASSUME FracAssumption ==
  /\ ValFrac \in Nat /\ TestFrac \in Nat
  /\ FracBase \in Nat \ {0}
ASSUME SwitchAssumption == AttackRunsInTest \in BOOLEAN /\ Overlap \in BOOLEAN

VARIABLES
  tr,      \* the train process
  bundle,  \* splits of the saved manifest, and the events it was fitted on
  report   \* outcome of the last command, while it is a score or an eval

pipeVars == <<src, store, ing, tr, bundle, report>>

NoSplit == [train |-> {}, val |-> {}, test |-> {}]
Splits  == [train : SUBSET Runs, val : SUBSET Runs, test : SUBSET Runs]

(* What load_run returned for a run: the run and the state of its events.  *)
Loads == [run : Runs, events : EventsFile]

NoTrain  == [pc |-> "idle", split |-> NoSplit, pass |-> 1, todo |-> {}, corpus |-> {}]
NoBundle == [saved |-> FALSE, split |-> NoSplit, corpus |-> {}]
NoReport == [kind |-> "none", runs |-> {}, attack |-> {}, benign |-> {}]

PipelineTypeOK ==
  /\ IngestTypeOK
  /\ tr \in [pc : {"idle", "load"}, split : Splits, pass : 1..3, todo : SUBSET Runs,
             corpus : SUBSET Loads]
  /\ bundle \in [saved : BOOLEAN, split : Splits, corpus : SUBSET Loads]
  /\ report \in [kind : {"none", "score", "eval"}, runs : SUBSET Runs,
                 attack : SUBSET Runs, benign : SUBSET Runs]

PipelineInit ==
  /\ IngestInit
  /\ tr = NoTrain
  /\ bundle = NoBundle
  /\ report = NoReport

----------------------------------------------------------------------------
(* dataset.list_run_ids: a directory counts once it holds events.parquet,  *)
(* and its benchmark is the part of its name before the first "-".         *)
Listed ==
  {r \in Runs : /\ store[r].events # "none"
                /\ Benchmarks = {} \/ <<Head(Bench[r])>> \in Benchmarks}

(* dataset.is_attack_run: a missing or unreadable meta.json is no attack.  *)
IsAttackRun(r) == store[r].meta = "attack"

(* Slip: attack runs are added to test and not taken out of the rest. *)
SplitRunsKeepingAttacks(ids) ==
  LET attacks == {r \in ids : IsAttackRun(r)}
      cut     == TemporalSplit(ids, ValFrac, TestFrac, FracBase)
  IN  IF AttackRunsInTest THEN [cut EXCEPT !.test = @ \cup attacks] ELSE cut

(* dataset.split_runs *)
SplitRuns(ids) ==
  LET attacks == {r \in ids : IsAttackRun(r)}
      cut     == TemporalSplit(ids \ attacks, ValFrac, TestFrac, FracBase)
  IN  IF AttackRunsInTest THEN [cut EXCEPT !.test = @ \cup attacks] ELSE cut

(* Both detectors read the train runs twice (flash: for the sentences and  *)
(* the labels; ppt: for the labels and the features) before they build the *)
(* graphs of the train and the val runs.                                   *)
PassRuns(split, pass) == IF pass = 3 THEN split.train \cup split.val ELSE split.train

MayStart == ing.pc = "idle" /\ tr.pc = "idle"

(* train.run_training up to Detector.train: the split is made once, from   *)
(* the store as it is now.  No listed run: the command exits.              *)
TrainStart ==
  /\ IF Overlap THEN tr.pc = "idle" ELSE MayStart
  /\ Listed # {}
  /\ LET split == SplitRuns(Listed)
     IN  tr' = [pc |-> "load", split |-> split, pass |-> 1,
                todo |-> PassRuns(split, 1), corpus |-> {}]
  /\ report' = NoReport
  /\ UNCHANGED <<src, store, ing, bundle>>

(* The run that the current pass reads next: lists are in temporal order.  *)
UpNext(r) == tr.pc = "load" /\ r \in tr.todo /\ \A s \in tr.todo : r <= s

(* The current pass is done with run r, having loaded the set `loads`.     *)
PassOn(r, loads) ==
  LET over == tr.todo = {r} /\ tr.pass < 3
  IN  /\ tr' = [tr EXCEPT !.todo = IF over THEN PassRuns(tr.split, tr.pass + 1) ELSE @ \ {r},
                          !.pass = IF over THEN @ + 1 ELSE @,
                          !.corpus = @ \cup loads]
      /\ UNCHANGED <<src, store, ing, bundle, report>>

(* load_run of the next run of the pass.                                   *)
TrainLoad(r) ==
  /\ UpNext(r)
  /\ Loadable(r)
  /\ PassOn(r, {[run |-> r, events |-> store[r].events]})

(* Slip: a failed training leaves a state nothing leads out of. *)
TrainFailOff ==
  /\ tr.pc = "load"
  /\ tr.split.train = {} \/ Crashes
  /\ tr' = [NoTrain EXCEPT !.pc = "failed"]
  /\ UNCHANGED <<src, store, ing, bundle, report>>

(* load_run raises, there is nothing to train on, or the command is        *)
(* killed: nothing is saved.                                               *)
TrainFail ==
  /\ tr.pc = "load"
  /\ \/ \E r \in tr.todo : UpNext(r) /\ ~ Loadable(r)
     \/ tr.split.train = {}
     \/ Crashes
  /\ tr' = NoTrain
  /\ UNCHANGED <<src, store, ing, bundle, report>>

(* Slip: the manifest gets the split of the store as it is now. *)
TrainSaveSplitAgain ==
  /\ tr.pc = "load" /\ tr.pass = 3
  /\ tr.todo = {}
  /\ tr.split.train # {}
  /\ bundle' = [saved |-> TRUE, split |-> SplitRuns(Listed), corpus |-> tr.corpus]
  /\ tr' = NoTrain
  /\ UNCHANGED <<src, store, ing, report>>

(* save_detector: the bundle of an earlier training is replaced.           *)
TrainSave ==
  /\ tr.pc = "load" /\ tr.pass = 3
  /\ tr.todo = {}
  /\ tr.split.train # {}
  /\ bundle' = [saved |-> TRUE, split |-> tr.split, corpus |-> tr.corpus]
  /\ tr' = NoTrain
  /\ UNCHANGED <<src, store, ing, report>>

----------------------------------------------------------------------------
(* Slip: the manifest is not consulted. *)
AllListed == Listed

(* manifest.splits.test, or every listed run when that list is empty.      *)
TestRuns == IF bundle.split.test # {} THEN bundle.split.test ELSE Listed

(* score.run_scoring: each of the runs is loaded; one that cannot be ends  *)
(* the command before it writes anything.                                  *)
Score ==
  /\ bundle.saved
  /\ MayStart
  /\ \A r \in TestRuns : Loadable(r)
  /\ report' = [kind |-> "score", runs |-> TestRuns, attack |-> {}, benign |-> {}]
  /\ UNCHANGED <<src, store, ing, tr, bundle>>

(* eval.run_eval: the attack runs are told apart by the store as it is now *)
(* and the proxies fall back to all test runs when no benign one is left.  *)
Eval ==
  /\ bundle.saved
  /\ MayStart
  /\ \A r \in TestRuns : Loadable(r)
  /\ LET attacks == {r \in TestRuns : IsAttackRun(r)}
         benign  == TestRuns \ attacks
     IN  report' = [kind |-> "eval", runs |-> TestRuns, attack |-> attacks,
                    benign |-> IF benign # {} THEN benign ELSE TestRuns]
  /\ UNCHANGED <<src, store, ing, tr, bundle>>

----------------------------------------------------------------------------
(* gnnid ingest is started: next to a training only when they may overlap. *)
IngestCommand ==
  /\ IF Overlap THEN TRUE ELSE MayStart
  /\ \E labels \in BOOLEAN : IngestStart(labels)
  /\ report' = NoReport
  /\ UNCHANGED <<tr, bundle>>

(* The steps of a started ingest and of the collector.                     *)
IngestOrCollect ==
  /\ Environment \/ IngestStep \/ IngestCrash
  /\ UNCHANGED <<tr, bundle, report>>

IngestGoesOn == IngestStep /\ UNCHANGED <<tr, bundle, report>>

TrainStep == (\E r \in Runs : TrainLoad(r)) \/ TrainFail \/ TrainSave

PipelineNext ==
  \/ IngestCommand
  \/ IngestOrCollect
  \/ TrainStart
  \/ TrainStep
  \/ Score
  \/ Eval

(* A command that runs keeps taking its steps; nobody has to start one.    *)
PipelineSpec ==
  /\ PipelineInit
  /\ [][PipelineNext]_pipeVars
  /\ WF_pipeVars(IngestGoesOn)
  /\ WF_pipeVars(TrainStep)
----------------------------------------------------------------------------
Trained == {l.run : l \in bundle.corpus}

(* The benign-only training contract (dataset.py:78-83): no model, saved   *)
(* or in training, is fitted on events that ingest knew to be of an attack *)
(* run when it wrote them.  Ingest writes the mark after the events and    *)
(* train reads it before them.                                             *)
NoAttackTraining ==
  \A l \in bundle.corpus \cup tr.corpus : l.events \notin {"attack", "labelled"}

(* Scores and reports are of runs the saved model has never seen, whenever *)
(* the manifest lists a test run, whatever happened to the store since     *)
(* (score.py:59-60, eval.py:236-238).                                      *)
TestRunsAreUnseen ==
  report.kind # "none" /\ bundle.split.test # {} =>
    report.runs \cap Trained = {}

(* The manifest never claims training data that was not read: what it      *)
(* calls train and val is what was loaded, all of it, in every saved       *)
(* bundle (train.py:36-41).                                                *)
ManifestIsExact ==
  bundle.saved => bundle.split.train \cup bundle.split.val = Trained

(* A training that was started ends, with a bundle or without one, even    *)
(* if files change under it.                                               *)
TrainEnds == tr.pc # "idle" ~> tr.pc = "idle"

(* So does every command that writes.                                      *)
CommandsEnd == TrainEnds /\ IngestEnds
=============================================================================
