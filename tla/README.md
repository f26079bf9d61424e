# gnnid in TLA+

gnnid detects intrusions in Kubernetes microservice clusters. It reads what a
cluster recorded during a run (Envoy access logs, Hubble flows, audit lines, two
snapshots of the objects), turns it into one event list per run, cuts the list
into windows, builds graphs, trains one of two graph detectors (`flash`, `ppt`)
on benign runs and alerts on entities whose scores pass a threshold calibrated
on benign runs. This directory holds TLA+ modules of the parts that keep state
or have control flow worth an argument, the TLC runs that check them on small
instances, and TLAPS proofs of what holds for all values of the constants.

Contents: 1 inventory, 2 modules, 3 runs, 4 fairness and deadlock, 5 proofs,
6 disagreements with the code, 7 abstractions, 8 not modelled, 9 plan.
Paths are relative to the repository; `gnnid/` stands for `src/gnnid/`.

## 1. Inventory

| component | source | state | operations | interacts with |
|---|---|---|---|---|
| ingest store | `gnnid/ingest/run_dir.py`, `store.py` | run directories; per run `events.parquet`, `entities.parquet`, `meta.json` | `ingest_all`, `ingest_run`, `load_run` | reads directories the collector writes; read by training, score, eval |
| telemetry parsers | `gnnid/ingest/{envoy,hubble,audit}.py` | bookings by request id, events | `parse_envoy_logs`, `parse_hubble`, `parse_audit` | ask and extend the resolver |
| entity resolver | `gnnid/resolve.py` | `entities`, `ip_to_pod`, `ip_to_service`, `node_ips` | `add_objects`, `resolve_ip`, `register_pod` | shared by all parsers of one run |
| attack labeler | `gnnid/ingest/labeler.py` | attacker entities, session window | `label_events` | reads the resolver and `attack.json` |
| command line pipeline | `gnnid/{cli,dataset,train,score,eval}.py` | store, bundle directory, results | `ingest`, `train`, `score`, `eval` | processes that share only files |
| temporal split | `gnnid/dataset.py` | none | `temporal_split` | called by training |
| training loops | `gnnid/detectors/flash.py`, `ppt/train.py` | losses, best weights, patience | `train_gnn`, `pretrain`, `finetune` | follow the split, precede calibration |
| detector bundle | `gnnid/detectors/{__init__,flash}.py`, `ppt/` | files of one directory | `save_detector`, `load_detector` | written by train, read by score and eval |
| calibration and alerts | `gnnid/{artifacts,score}.py` | benign tables, thresholds, rows | `normalize`, `is_alert`, `alerts.json` | tables are part of the bundle |
| windows | `gnnid/windows.py` | generator: `t0`, `w_idx` | `iter_windows` | consumed by both detectors |
| behaviour sentences | `gnnid/sentences.py` | none | `event_tokens`, `build_sentences` | flash: windows to sentences, sentences to node vectors |
| flash window graph | `gnnid/graph.py`, `detectors/flash.py` | one window's nodes and edges | `build_window_graph`, `score_events` | consumes windows, yields score rows |
| ppt memory graphs and scoring | `gnnid/detectors/ppt/{graph,model,score}.py` | sliding list of windows, heterogeneous graph | `build_memory_graphs`, the encoder, `_score_frame` | consumes windows, yields score rows |
| ppt features | `gnnid/detectors/ppt/features.py` | vocabularies fitted in training | `fit`, `event_features` | vectors of the event nodes |
| evaluation | `gnnid/{eval,perturb}.py` | none | `perturbation_eval`, `labeled_detection`, four perturbations | scores stored and perturbed runs with the loaded detector |
| embedding, networks, configuration | several | see section 8 | | |

What makes each part correct, and what is hard about it:

* **Ingest store.** Directories appear and change while `ingest_all` walks over
  them; one loop iteration writes three files in place, so a kill leaves new
  events next to an old mark. Correct: the store holds only what complete and
  valid directories gave, a finished ingest repairs what killed ones left, an
  attack mark never turns benign. A directory that ended badly is passed over; a half
  written file in one (`meta.json`, `attack.json`, the snapshot) raises out of the
  loop and costs all directories after it, which is what the code does.
* **Pipeline.** Training reads the marks once and the events of the same runs two
  or three times. Nothing locks the store. Correct: no model is fitted on
  events of an attack; the manifest names exactly the runs that were read; test
  runs were never trained on; every command ends.
* **Split.** Python rounding (half to even), counts raised to one, a train count
  that may be negative and is then a slice from the end. Correct: a partition,
  oldest runs in train, newest in test, train not empty.
* **Training loops.** Early stopping around losses that may be NaN. Correct: what
  leaves a loop are the best weights seen; it stops when patience says so.
* **Bundle.** Both detectors may be saved to one directory, optional files are
  not removed, a kill may hit between any two files. Correct: a load gives the
  last training or fails.
* **Calibration.** Ties, empty tables, types without a table, workloads outside
  the vocabulary. Correct: alerts follow raw scores, keep a budget on benign
  data, and an unknown workload alerts.
* **Windows and memory.** Half-open windows, a last partial window, gaps, a
  stride below or above the width, entities copied into later graphs. Correct:
  only a short tail is lost; each entity is scored once per window; memory goes
  by time; the event cap keeps what it must.
* **Graphs and scoring.** Both detectors build a graph of a window, each with code
  of its own; ppt's has copies of the entities of earlier windows, and what an
  event says may travel over several edges, and only ppt caps the events of a window.
  Correct: ppt scores no row and links no pair that flash does not, and lacks only what
  the cap may take out; a DNS name is not classified with the help of the queries
  for it; nothing flows back in time; the whole memory is in reach; a link that
  pre-training asks for is not among those it encodes with.
* **Sentences and features.** Repeats are dropped, long sentences thinned, rare
  words share a slot, offsets are added up by hand. Correct: no kind of
  behaviour goes missing; vectors differ where events do and only there.
* **Evaluation.** A victim is compared with itself before and after a synthetic
  attack; the scores of an attack run with the events labelled in it. Correct:
  no window in which the detector reads of the victim, or of the attack, is without its row;
  what is not read (a dropped tail, what the cap took out) is known; the AUC counts
  pairs with ties half.
* **Telemetry.** Addresses are used again, pods come and go between the
  snapshots, lines are lost, requests are tried again under the same id.
  Correct: each line counts once, pairs are two views of one request, endpoints
  exist, blame falls on the attacker and on no one else.

`PROJECT.json` lists the hazards one by one, each at its line, with the property
that would catch it.

## 2. Modules

    Pipeline    extends Ingest and Split; its steps are steps of Ingest or leave it alone
    Training    extends SplitCases, which extends Split: the split is its first step
    Memory      extends Windows and EventCap and implements ScoreOnce
    Bundle      implements BundleRegister
    Calibration, Telemetry stand alone
    EventCap    extends Split (for its ranks): the event cap of ppt, for Memory and MemoryGraph
    Rows        the stored run that the detectors read; extended by
      WindowGraph                         flash's graph
      MemoryGraph <- PptPass              ppt's graph, a pass of the encoder over it
      Sentences <- Features <- Describe   what is told of events
    Evaluation  extends WindowGraph and MemoryGraph
    Totals      sums, for Features, Describe and Evaluation
    Detection   composes PptPass, Evaluation and Describe over one stored run

`MC*` modules hold the constants of
the TLC instances only; `*Proofs` and `SplitLemmas` hold theorems (section 5).

| module | models | state | actions and the code they stand for |
|---|---|---|---|
| `Ingest` | `run_dir.py` 20-130 and the collector | `src` (directory states), `store` (three files per run, each possibly torn), `ing` (process) | `Collect`: collector; `IngestStart`: the command with or without `--labels`; `GroundTruth`: `attack.json` arrives, at once or half written; `IngestSkip`, `IngestAbort`, `IngestRun`: one loop iteration by outcome, `IngestAbort` the raise on a half written file; `OpenFile`, `WriteFile`: each file is opened (torn), then written; `IngestReturn`, `IngestCrash` |
| `Pipeline` | `cli.py`, `dataset.py`, `train.py`, `score.py`, `eval.py` over `Ingest` | `tr`, `bundle`, `report` | `TrainStart` (listing, marks, split), `TrainLoad` (one `load_run` of a pass), `TrainFail`, `TrainSave`, `Score`, `Eval`, and ingest's actions, interleaved if `Overlap`, killable if `Crashes` |
| `Split` | `temporal_split` | operators | `RoundHalfEven`, `TestCount`, `ValCount`, `TrainCount`, `Slice`, `TemporalSplit` |
| `SplitCases` | its call | arguments and result | every list of runs by time, every fraction `v/D`, `t/D` |
| `Training` | `Detector.train` after the split | stage, losses, best, misses, weights | `SplitCall`, `BuildGraphs` (is there a val graph), `Epoch` with any loss, `LoopOver` (hand-over pretrain to finetune) |
| `Bundle` | `save_detector`, `load_detector` of both detectors | `disk`, `save`, `loaded`, `trained` | `Train`, then per file `SkipPart` / `OpenPart` / `WritePart` in the order of the code, `SaveCrash`, `Load` (tag first) |
| `BundleRegister` | what a bundle promises | a register that may be broken | write, break, read |
| `Calibration` | tables, `normalize`, thresholds, alerts | val scores, the scored pod, its row | `Calibrated`, `ScoreWindow`, `PodAlert` |
| `Windows` | `iter_windows` | the generator's variables and what it yielded | `DropTail`, `YieldWindow`, `SkipEmpty`, `LoopOver` |
| `EventCap` | `_cap_events` (`ppt/graph.py` 70-85) | operators | `Spread`, `CapEvents` |
| `Memory` | `build_memory_graphs` and `score_memory_graph` of ppt, over `Windows` | yielded graphs: window, position in memory, entity copies | `BuildGraph` (cap, memory, copies) |
| `ScoreOnce` | what scoring promises | set of scored entity-windows | score each due pair once |
| `Rows` | a run as `load_run` gives it, its windows with the short tail dropped | `rows` | |
| `WindowGraph` | `graph.py` 32-91, `flash.py` 338-366 | operators | `FlashNodes`, `FlashLinks`, `FlashWindows` (which windows `score_events` skips), `FlashScores` |
| `MemoryGraph` | `ppt/graph.py` 70-103, 125-245 | operators | `CappedAt`, `Copies`, `EventNodes`, one operator per edge relation, `PptScores` |
| `PptPass` | `ppt/model.py` 30-65, `ppt/train.py` 48-85 | the graph, the edges that carry messages, those held out, what each node has seen | `HoldOutLinks` (pre-training) or `UseAllLinks` (scoring), then `Layer` |
| `Totals` | the sums in `features.py` and `eval.py`, and those that a property of sentences counts with | operators | `Total`: a sum as the number of pairs it counts, so that theorems about it need no induction |
| `Sentences`, `Features` | `sentences.py` 139-261; `ppt/features.py` | operators | `FieldsTold`, `Tokens`, `Items`, `Kept` (placed by rank, `InOrder`), `Thinned`; `Fit`, `FirstSlot`, `Vector` |
| `Describe` | their use | `said`, `seen` | `Say` (one sentence), `Vectorize` (vocabulary of the first events, vectors of all) |
| `Evaluation` | `eval.py` 24-39, 88-121, 138-152, 179-228; `perturb.py` | `probe`, `found` | `Perturb` (`Rewire`, `DnsExfil`, `SentenceSwap`, `ApiBurst`), `ScoreVictim`, `LabeledDetection` |
| `Detection` | the three above on one run | theirs | one of: a pass, a part of eval, a description |
| `Telemetry` | `ingest_run`: resolver, parsers, labeler, in their order, and the cluster they observe | cluster (`addr`, `calls`), recorded (`file`, `start`, `end`, `attack`), ingest (`entities`, `byAddress`, `views`, `events`) | cluster: pods get and lose addresses, `Request`, `Retry`, `Flow`, `Audit`, session; ingest: `ReadSnapshot`, `ReadLog`, `MergeViews`, `ParseFlows`, `ParseAudit`, `Label` |

Several modules contain *slips*: an operator such as `IngestSkipStored`
placed before the definition it resembles and commented as a slip. The
specification never uses them. They are the definition as a plausible bug would have it
and serve to show that a property is sensitive: with the slip in place of the
definition TLC finds the property violated. `PROJECT.json` lists, for every
property of every run, the slip that breaks it.

## 3. Runs

`cd tla; tlc -config <run>.cfg <module>`; the modules are in `PROJECT.json`.

| run | module | instance | properties |
|---|---|---|---|
| `training` | `MCTraining` | 0 to 5 runs at times 1..5, all pairs of fractions in tenths with a sum below one half; 4, 3 and 4 epochs, patience 2, 1, 2; losses 0..2 or NaN; 860 k states | `TrainingTypeOK`, `SplitIsSound`, `KeepsBest`, `StopsInTime`, `TrainingEnds` |
| `ingest_crash` | `MCIngest` | 3 runs of 2 benchmarks, one not selected; kills, half written files and collector at any step; 1 M states | `FinishedStoreIsWhole`, `StoreComesFromRunDirs`, `AttackMarkSticks` |
| `pipeline_sequential` | `MCPipeline` | 4 runs that may become attack runs at any time, one of them still written by the collector; one command at a time, none killed; 620 k states | `PipelineTypeOK`, `NoAttackTraining`, `CommandsEnd`, `ValidRunsGetStored` |
| `pipeline_disturbed` | `MCPipeline` | 2 runs; ingest and train overlap, both killed anywhere; 5.2 M states | `TestRunsAreUnseen`, `ManifestIsExact` |
| `bundle` | `MCBundle` | up to 3 trainings of either detector, with and without optional files, kills between and inside file writes | `BundleTypeOK`, `LoadsLastTraining`, `NewerPartsFirst`, `BundleIsRegister` |
| `calibration` | `Calibration` | all sequences of up to 4 benign scores 0..3 of 2 types, quantile 3/4, up to 2 windows | `AlertBudget`, `AlertsFollowRawScores`, `UnknownWorkloadsAlertUnlessCommon` |
| `windows` | `Memory` | all non-empty sets of timestamps in 0..5; widths 2, 6; strides 1, 2, 3; tails 1, 3; memory 2, cap 3; 930 k states | `OnlyTailIsLost`, `WindowsAsExpected`, `MemoryIsTime`, `CapIsExact`, `ScoresEachOnce` |
| `telemetry` | `MCTelemetry` | 2 meshed pods, an attacker, a pod on the host network; 2 addresses; either 2 requests with up to 4 lines in a quiet cluster, or 1 line with up to 2 pods moving; 3.5 M states | `TelemetryTypeOK`, `EndpointsAreEntities`, `EveryViewOnce`, `RequestsArePairs`, `LabelsAreTrue` |
| `detection` | `MCDetection` | up to 3 events of 6 kinds between 2 pods, 2 Services, a DNS name and the API server, in 3 windows of 2 ticks, of which a tail of less than 1 tick is dropped; at most 2 events of a window kept by ppt; 2 layers, memory 3, hold-out 1/10, 2 injected events, 2 repeats, 12 tokens, vocabularies of 1 word; 750 k states | `DetectionTypeOK`, `DetectorsAgree`, `HeldOutBothWays`, `NothingLeaks`, `ScoreSeesMemory`, `VictimRowsComplete`, `TruthIsScored`, `SentenceTellsAll`, `FeaturesTellApart` |
| `crash_trains_on_attack` | `MCPipeline` | 3 runs, kills | `NoAttackTraining`, violated (section 6) |
| `bundle_stale` | `MCBundle` | flash only, no kills | `RoundTrip`, violated (section 6) |
| `host_audit` | `MCTelemetry` | as `telemetry` | `ControlPlaneIsDropped`, violated (section 6) |

What the properties say:

* `SplitIsSound`: no run is in two
  parts or in none, train is older than val, val older than test, and there is
  something to train on if there is a run. Five runs with tenths reach every case of rounding,
  the ties at one half included, and every case of a count raised to one.
* `KeepsBest`, `StopsInTime`: when a loop is left, the weights handed on are
  those of an epoch that no later one undercut by more than 1e-4; a loop ends at
  the first epoch that uses up its patience or at its last epoch, not before.
  Patience 2 with 4 epochs and patience 1 with 3 allow a reset of the counter
  before the stop. The proofs drop the bounds.
* `FinishedStoreIsWhole`: when ingest comes to the end of its loop, the three files
  of every stored run are readable and agree, whatever killed ingests left before. `AttackMarkSticks`
  is an action property: no step makes a mark benign that was an attack's.
  Three runs give one before, one at and one after the position of the loop.
* `CommandsEnd`: every ingest and every training that was started ends, whatever
  the collector does meanwhile. `ValidRunsGetStored`: a valid directory that the
  loop has yet to reach gets whole into the store, as long as there is no half written
  `meta.json`, nor a half written `attack.json` or snapshot of a selected run. Each of
  these raises out of `ingest_all` (`run_dir.py:106`, `labeler.py:39-40` and
  `resolve.py:84-89` from 112) and the directories after it wait for the next ingest.
* `NoAttackTraining`: no event of a known attack run is in the training corpus.
  It holds when commands follow each other undisturbed, and each of the two
  disturbances breaks it (section 6). `ManifestIsExact` and `TestRunsAreUnseen`
  survive both. Two runs are enough to be in different parts of the split and
  to change between two passes; larger sets are covered by the proofs.
* `LoadsLastTraining`: once a save has ended, `load_detector` gives the detector
  trained last, with every part it produced (what it did not produce is the subject of
  `RoundTrip`). `NewerPartsFirst`: with one kind of
  detector, parts that load are never newer than those saved before them, so a
  killed save cannot put new thresholds next to an old model.
  `BundleIsRegister`: the refinement of `BundleRegister`. Three trainings are
  flash, ppt, flash in any order, the shortest history in which a stale file of
  the first meets the third.
* `AlertBudget`: at most `2(1-q)` of the benign table alerts. The factor 2 is
  what the code gives: normalization averages the two ranks of a tie, and
  thresholds are compared with `>=`. `AlertsFollowRawScores`: of two scores of one
  type the higher alerts if the lower does. `UnknownWorkloadsAlertUnlessCommon`:
  a pod outside the vocabulary alerts, unless benign val pods outside of
  it are so many that its score is common.
* `WindowsAsExpected` compares the generator with an independent definition;
  `OnlyTailIsLost` says which events may be in no window; `ScoresEachOnce` is the
  refinement of `ScoreOnce`; `MemoryIsTime` that graphs remember exactly the
  windows that began less than `memory` strides ago; `CapIsExact` that a
  capped window has exactly as many events as the cap says, keeps all flows that were
  not forwarded (also if they are more than the cap) and samples the others from end
  to end. Timestamps 0..5 with these widths have gaps of more than the memory,
  overlaps, tails below and above the minimum, and strides on both sides of the
  width.
* `EveryViewOnce`: every line an ingested log holds is in exactly one event.
  `RequestsArePairs`: an event of two lines joins the two views of one request.
  `EndpointsAreEntities`: events never point at an entity that is not there.
  `LabelsAreTrue` has two halves. When the session window is known, a malicious label falls on events
  the attacker took part in only, also with reused addresses (`BlameIsTrue`); and
  the attacker's flows within the session are labelled, also when no snapshot saw the
  pod, if `attack.json` has its namespace (`AttackerFlowsAreLabelled`). The two bounds of the run separate two
  sources of difficulty: booking and pairing needs several lines and a quiet
  cluster, attribution needs one line and a moving cluster.
* `DetectorsAgree`: given the same windows, of a stored run or of a perturbed one, what
  ppt scores and links is scored and linked by flash; the other way round it
  holds for every event that no sampling takes out (`Sure`: all events of a window up to
  the cap, the refused flows beyond it). flash has no cap, so in an overfull window
  ppt may lack entities and counterparts. `NothingLeaks`:
  after any number of layers no DNS name has seen a query for itself, and no node an
  event of a later window. `ScoreSeesMemory`: after two layers a scored
  entity has seen its events of the whole memory. `HeldOutBothWays`: a link and its
  reverse are both held out or both used. Three events give a query, another event of the
  pod that asks, and a window between the first and the last copy of an entity: the
  shortest ways for a name to come back and for a copy to be skipped; three in one window
  are one more than the cap. Memory 3 with
  three windows is the shortest that has a copy which is neither newest nor next.
* `VictimRowsComplete`: asking for the victim alone gives all the rows it has, before and
  after; it has one in every window in which the detector reads of it (`IsRead`: the
  event is in a window that is yielded and, with ppt, is not sampled out); no pod falls silent;
  and with flash, adding or retargeting events takes no window of it away. A victim
  that sends only in the dropped tail, or whose events were capped out, has no row:
  section 6. Two injected events are the first of a burst and the last, which may fall
  into the next window, open a new last one, or be in the dropped tail.
  `TruthIsScored`: a malicious event that the detector reads has
  rows for both its ends, rows of entities that a malicious event touches are benign
  only if they are of a Service in front, `attacker_nodes` has an attacker of unknown role wherever
  it is read of and besides it only entities that it had to do with (`TruthIsFound`), and the AUC counts
  pairs (`AucIsChance`).
* `SentenceTellsAll`: up to `MaxRepeats` occurrences of every signature are told, or
  some of it when the sentence is thinned; names and stripped verdicts are kept back.
  With 2 repeats the third event is one too many, and 12 tokens are
  less than two requests have, so both limits are met. `FeaturesTellApart`: vectors
  of two events are equal exactly if the events agree up to unknown words and stripped
  verdicts, whatever part of the run the vocabularies were fitted on. The widths of all fixed
  blocks are those of the code; requests, flows, queries and API calls set slots
  at both ends of their blocks.

`Addresses` are symmetric: they are model values that no definition orders or
chooses from, and the run checks invariants only.

## 4. Fairness and deadlock

Fairness is on the steps of a process that was started, never on starting one:
nobody has to type a command. An ingest keeps going until it returns
(`IngestGoesOn`), a training until it saves or fails (`TrainStep`), a training
loop, the window generator and the graph builder until they end. All are
sequential Python code without waiting, so weak fairness is what the operating
system's scheduling gives. The collector and kills are not fair.
`ValidRunsGetStored` therefore assumes explicitly that the run's directory stays
valid and that there is no half written `meta.json`, and no half written `attack.json` or
snapshot of a selected run, since the code lets each of them end the
loop (`run_dir.py:106`, 112).

`CHECK_DEADLOCK FALSE` is used where the modelled thing really ends: one call of the
generator, one training, one recorded run, one calibration, one use of a stored
run (`detection`), and a bundle directory with a bounded number of trainings. Ingest and the pipeline
are checked for deadlock.

Bounds in the modules: `MaxTrainings` (Bundle), `MaxVal` and `MaxWindows`
(Calibration), `Bounds` (Telemetry), `MaxLoss` (Training), `MaxRows`, `Ticks` (Rows), `Injections`
(Evaluation, 20 and 15 in the code); everything else is
bounded by the constants' sets.

## 5. Proofs

`tlapm <module>.tla`. All theorems hold for every value of the constants that
satisfies the named assumptions of the module that declares them.

| module | theorems | argument |
|---|---|---|
| `SplitLemmas`, `TrainingProofs` | `TemporalSplitCorrect`, `TrainingSplits` | Counts: rounding to even stays within one half of the quotient, so with `2(V+T) < D` the three counts are at least one where they must be and add up to `n`. Ranks are a bijection onto `1..n` (`RankOnto`), so slices by rank partition the runs; the empty list has three empty parts. |
| `TrainingProofs` | `TrainingTypeCorrect`, `LoopsKeepBest`, `LoopsStopInTime` | `TrainingInv` adds `BestInv` to the types: `best` is the loss of epoch `bestAt`, no loss since lies more than `Delta` below it, and `misses` is the number of epochs since. The theorems need it because `best`, `bestAt` and `misses` alone do not mention the history. |
| `PipelineProofs` on `Ingest` | `IngestTypeCorrect`, `IngestStoreOrigin`, `IngestRepairs`, `IngestMarkSticks` | `IngestInv`: type, origin of the store, what is true while a run is being written (`Writing`: which of the three files are new), and that all directories passed are whole (`Passed`). `FinishedStoreIsWhole` by itself is not inductive: it says nothing about the run in between. |
| `PipelineProofs` on `Pipeline` | `PipelineTypeCorrect`, `PipelineManifest`, `UnseenTestRuns`, `BenignOnlyTraining` | `TrainInv` ties the corpus to the passes already made, with any overlap and any kill. `UnseenInv` uses `SplitLemmas` and `2(ValFrac+TestFrac) < FracBase`. `ContractInv`, under no kills and no overlap, adds that the store is settled whenever no ingest runs, that ingest and train exclude each other, and that a training's runs are benign by mark. |
| `BundleProofs` | `BundleTypeCorrect`, `BundleLoadsLast`, `BundleImplementsRegister`, `BundleInLayers`, `RoundTripOfSameExtras` | `CompleteInv`: every file of the last training before the position of the save is whole and its own. `LayerInv`, for one kind: files are in layers, newest first, along the order of saving (`Owned`, `InLayers`, `PassedByLast`, `OneKind`). `SourceInv`: a file on disk was written by a training that has it (`Brought`), and what is loaded is what is on disk; no optional file belongs to both detectors (`OptionalIsOwn`), so a part that the last training lacks can come from a training of its own kind only. Kills are allowed throughout. |
| `CalibrationProofs` | `AlertBudgetHolds`, `AlertsAreMonotone`, `UnknownsAlert` | Counting over the table: normalization is monotone, and scores that reach the threshold have at least `q` of the table around or under them. An unknown pod's raw score is the top one (`UnknownInv`), so only the pods that tie with it count against it, and the bound on their number puts its normalized score over the quantile. |
| `MemoryProofs` on `Windows` | `WindowsTypeCorrect`, `WindowsCover`, `WindowsExist`, `WindowsNumbered`, `WindowsWhereExpected` | `WindowsInv`: windows yielded lie behind `t0`, every event before `t0` is covered when the stride does not exceed the width, and the first window holds the first event. `PlaceInv`: the loop stands at some place `start + n * stride`, none before was partial, and the windows so far are the expected ones before it. The equation of `WindowsAsExpected` says nothing of a loop that is still running; the invariant adds where it is. |
| `MemoryProofs` on `Memory` | `MemoryGoesByTime`, `CapLeavesExactly`, `MemoryImplementsScoreOnce` | `GraphsInv`: each graph is that of one of the windows passed. All windows start at multiples of the stride, so the rounded positions are exact (`RoundExact`) and differ as the times do. The indices that the cap keeps are strictly increasing and reach both ends (`SpreadFacts`), so ranks through them pick exactly as many events as asked (`RankOnto`). Every step is one of `ScoreOnce` or leaves it alone: a window appends its pairs to what is due (`OnceWindow`), a graph scores the first of it (`OnceBuild`); `IndexInv` bounds the window numbers by the end of the run. |
| `TelemetryProofs` | `TelemetryTypeCorrect`, `EveryEndpointIsAnEntity`, `EveryLineIsInOneEvent`, `PairsAreRequests`, `LabelsTellTheTruth` | `Typed`; `RegisteredInv`: addresses that are booked lead to entities. `OnceInv`: no two events share a line, events come from files already parsed, every view merged is in one; uniqueness of ids follows. `CallsInv`: a log line reports a request that its pod took part in; `PairsInv` lifts this from lines to pairs, given that the books hold one view of an id in each direction. Labels need who had an address when: `HistoryInv` (a snapshot's address stays the pod's until it is gone), `FootholdInv` (the attacker's address is the one in `attack.json`, and no snapshot has another), `SessionInv` (the pods that a line of the session names were then elsewhere, so the address is the attacker's alone), `ResolverInv` (addresses are booked from snapshots only), `WitnessInv` (an event's ends come from its line or from the booking of the line's address), `LabelInv`. `LabelsAreTrue` mentions the end of ingest only; all of these carry it there from the session. |
| `DetectionProofs` on `PptPass` | `PassTypeCorrect`, `PassLeaksNothing`, `PassHoldsOutBothWays`, `PassSeesMemory`, `DetectionImplementsPass` | `GraphInv`: the edges are those of the graph and messages go along some of them. Links and their reverses are held out together by `PairIdIsUnique`: event indices are below the number of events, so a number determines its pair. `BlindInv`: the copies of a DNS name have seen nothing at all, since they hear from one another only; `NameStaysBlind` itself is not inductive, as it says nothing of what an earlier copy has seen. `SeesInv` says how far an event has come: after one layer to the copies in its own window, after two to all later copies; without the first the second has no step to stand on. `DetectionImplementsPass` carries the four over to whatever else is done with the run. |
| `DetectionProofs` on `Evaluation` | `PptSeesPartOfFlash`, `VictimIsCompared`, `TruthIsScoredAlways`, `DetectionTypeCorrect` | `PptNodes` are the entities of the events the cap has left: among flash's nodes, and all those that events in `Sure` touch (`CappedFacts`, `NodesFacts`). `NewestAreNodes`: the copies in the newest window are these, because a Service in front stands on requests only (`Fronted`). `ProbeInv`: every perturbation leaves a table that is `Fronted` and in which every sender still sends (`Usable`); all but `sentence_swap` keep the victim at the ends it was at (`Keeps`; for an injection `WovenPlaces`, `WovenIsKept`: the places left over are those of the old rows in their order), and the scores compared are those of all windows in which the victim shows; a pod is never in front of another, so asking for it alone loses none (`VictimWindowsFact`). `FoundInv`, from `TruthFacts`: an end of a malicious event in `Sure` of a yielded window is a row that counts as malicious, and a touched entity-window that is no row at an end of a malicious event is of a Service in front. For the AUC, a sum over rows is the number of pairs of a relation (`TotalOfRelation`, `TotalAdds`), and the pairs within one set of rows, ties twice, are all its pairs whatever the scores (`AucCountsPairs`). |
| `DetectionProofs` on sentences | `SentencesTellAll` | `DescribeInv`: what was said is the sentence of an entity in a window of the rows at hand (`Spoken`), and what was seen are the vectors, under the vocabularies of the first events. A concatenation lies in consecutive blocks (`FlattenFacts`). The items of a signature are strictly ordered, so rank gives each a place of its own and as many are kept as the cap allows, each once (`KeptFacts`, `KeptCounts`); a token of one signature only is then in the sentence as often as its items are kept (`FlatCounts`). Thinning takes one position of any stretch as long as its step, so it leaves something of every block that is not shorter (`ThinnedTells`). Who is told what follows from the tokens of each type and direction (`TokenFacts`, `ItemsFacts`). |
| `DetectionProofs` on vectors | `DetectionTypeCorrect`, `VectorsTellEventsApart` | `DescribeInv`, as above. Slots stay in the vector and those of different blocks apart because a block's first slot counts the pairs of the blocks before it, a subset of the pairs of all (`TotalPart`, `BlocksFollow`, `SlotFacts`). Words have different indices below the size of their vocabulary, as they are strictly ordered by count and first occurrence (`VocabularyFacts`). Equal vectors then have equal settings block by block (`SettingsAgree`); a DNS name takes two blocks, its kind and its word, to tell (`NamesAgree`). |

Only model-checked, and why:

* liveness: `TrainingEnds`, `CommandsEnd`, `ValidRunsGetStored`, and of `ScoresEachOnce` the
  part that every due pair is scored in the end. Liveness under fairness and
  ENABLED are out of the prover's reach.

Every invariant and every other action property of the passing runs is a theorem.
The library's induction takes an operator as a parameter, which the backends
cannot instantiate. Where a proof needs induction it is over a set of numbers: if
the set were not all of `Nat`, it would lack a least number (`AllNumbers`,
`LeastNumber`). The modules are written to need little of it: no RECURSIVE operators,
sums are counted as pairs (`Totals`) instead of folded, and sorted lists are placed by rank.

## 6. Disagreements with the code

Runs that end in a violation, each with TLC's counterexample:

* **`crash_trains_on_attack`.** `ingest_all` rewrites `events.parquet`
  (`run_dir.py:117`) before `meta.json` (119-120). A stored benign run is
  ingested again after its `attack.json` arrived; the command is killed between
  the two files; training finds a benign mark and attack events. `README.md:54-55`
  and `dataset.py:77` promise that attack runs are held out. The next ingest
  that comes to its end repairs the store (`IngestRepairs`).
* **`bundle_stale`.** `flash.py:286` writes `xgb.json` only if there is a booster and
  never removes one; `flash.py:309-311` loads the file if it is there. A training
  without a booster, saved over one with a booster, is loaded with the old one.
  That is the only way: if all trainings of a kind had the same optional files, the round
  trip is exact, whatever else was saved or killed in between (`RoundTripOfSameExtras`).
  `tests/test_detector_contract.py:85` states that a round trip preserves scoring.
* **`host_audit`.** Pods on the host network have their node's address as
  `podIP`; `resolve.py:134` books it, and `resolve_ip` (153) looks at pods before
  `node_ips` (157). The kubelet's audit lines become events of such a pod, where
  `ingest/audit.py:4-7` says they are dropped.

Consequences of the code that no run states. For some the documentation says
otherwise, and the disagreement is quoted; there the passing runs state what the
code does. For the others no document says anything, or it says that they are so.

* An ingest that runs next to a training breaks the benign-only contract without
  any kill: marks are read at `dataset.py:83`, events later.
* Eval falls back to all listed runs if there are fewer than three benign runs
  (`eval.py:237`), so its test runs were trained on; a labelled attack run
  ingested after the training is not in the manifest and not evaluated
  (`eval.py:236`); with attack runs only in the test list the benign proxies are
  computed over attack runs (`eval.py:243`, comment at 240).
* A half written file in one run directory ends the ingest of all after it
  (`run_dir.py:106`, 112). The collector is assumed by the code to be done with
  what the glob finds.
* In a window above `graph.max_events_per_window` ppt has no row for an entity whose events
  were all sampled out, and flash has (`ppt/graph.py:125`). `DetectorsAgree` says how much can be lost.
  `labeled_detection` counts rows (`eval.py:199-202`), so a touched
  entity-window without a row silently leaves the recall, as does one in a dropped tail.
* The victim of a perturbation that shows only in a dropped tail, or is sampled out wherever it shows,
  has no row; with an empty `pert` it counts as a miss (`eval.py:114-116`), and `base` may be empty too.
* `attacker_nodes` is documented as the recall on "the attacker's own <other>
  node-windows" (`eval.py:185-186`). The code takes every touched row whose role is unknown
  (203-207), so also an unknown pod or external endpoint that the attacker talked to. `TruthIsFound` says
  just that.
* `UnknownWorkloadsAlertUnlessCommon` has its second half because unknown
  benign pods push the normalized score of unknown pods down (`artifacts.py:55`);
  `labels.py:6-7` speaks of unknown workloads as maximally surprising, without that exception.
  `AlertBudget` has its factor 2 for a similar reason; the docstring at
  `artifacts.py:38-40` speaks of the top 0.5%.
* `_dedup_and_cap` is documented to keep the first, middle and last occurrence of a
  signature (`sentences.py:211`, `configs/default.yaml:30`). It keeps the
  first `max_repeats`: the indices are put together, sorted and then cut
  (222-224), so the middle and the last are dropped whenever there are more
  than three of them to choose from. `Picks` models what it does; how many are
  kept is as documented and checked.
* `flash.py:356` skips windows that have the entity at neither end. For a Service
  that only fronts requests rows are missing then, against `base.py:61-62`. Eval
  asks for pods only, for which `VictimRowsComplete` holds.
* The truth about an attack run has the ends of malicious events (`eval.py:150`),
  the graphs also the Service in front of them (`graph.py:37-39`); its rows count as
  benign. `TruthIsScored` says that no others do.
* `rewire` counts a Service as called if it is a destination (`perturb.py:30`), not if
  it stands in front of one, so the "service it never calls" (23) may be one that the
  pod calls by its front. Without a candidate the run is unperturbed and counts as a
  miss (32, `eval.py:116`).
* The copies of a DNS name hear from no event (`BlindInv` in section 5), so ppt's
  score of a DNS name depends on the windows it occurs in and on nothing
  that was observed in them. `ppt/graph.py:15-20` wants its name kept from it; flash's
  "in" sentence tells it query types and answers.
* Flows that were not forwarded survive the event cap also when verdicts are
  stripped (`ppt/graph.py:75`), so their number still shows.
* A request id that an application hands on, or the `-` that the text format
  writes for a missing one, is booked like any other (`envoy.py:142`).
* An attacker pod that is pending in the first snapshot has no `pod_ip` and is
  found by namespace only (`resolve.py:145`).

## 7. Abstractions

* *Ingest, Pipeline.* What the parsers make of a run is one of three contents of
  `events.parquet` (benign, attack, labelled). A parquet or JSON file is whole or
  torn; a torn one fails to load. The bundle is saved in one step in `Pipeline`,
  since kills inside a save are `Bundle`'s subject.
* *Split, Training.* Fractions are integers over a common base. Losses are
  integers in units of which `Delta` make 1e-4; infinity and NaN are treated
  alike, as both fail the comparison in the code.
* *Calibration.* Scores are integers, normalized ones exact fractions.
* *Ingest.* A half written `attack.json` and a half written snapshot are one state, "broken", of a
  directory whose `meta.json` is complete; the collector may finish it. A half written file that is
  read as text (logs, flows, audit lines) raises nothing (`run_dir.py:63`).
* *Windows, Memory.* Time is an integer. `np.linspace` in the event cap is exact.
  Graph nodes are entity copies; edges are in `MemoryGraph`.
* *Rows and what reads them.* Windows are as wide as their stride here, `Ticks` long, and a short tail is
  dropped; overlaps and gaps are the subject of `Windows`. An event is in one window. Both detectors are
  given the same windows; the default configuration gives flash 30 s every 15 s and ppt
  5 s every 5 s, so `DetectorsAgree` speaks of the code that selects, not of two result files.
  ppt caps the events of a window (`EventCap`), flash does not. Workloads are left out of the
  entities, as both graphs leave them out by default. A DNS name is the destination of
  queries only and a fronting Service belongs to requests only, as the parsers have it.
* *PptPass.* Of a node's vector the model keeps which events have flowed
  into it, so weights, means and non-linearities do not matter. The cap on held-out
  links and the negative samples are left out. One graph makes a batch.
* *Sentences, Features.* A field is a class (its word or slot), not a string. The
  step of thinning is an exact fraction. Of a vector the model keeps the slots that
  are one; positional encodings, time and the three scaled numbers are left out. Assumed of
  events (`FieldsAssumption`): each has the fields of the blocks of its type, and each
  field is a class of its block; the code's `_slot` puts every other
  value into one of these.
* *Evaluation.* The random generator is a choice. The score that the AUC is taken of
  is the number of an entity's events in the window, which has ties. The AUC is
  counted in half pairs; for an empty side, where the code gives NaN, it is zero.
  Who is malicious is a pod and a span of events. A burst (2 s in the code) is shorter than a window, as
  `Inject` has it; its events are put anywhere among events of the same time.
* *Telemetry.* Assumed of the cluster: the attacker outlives its session; a pod
  has one address in its life; a deleted pod leaves the snapshot; request ids are
  unique or absent; a Service's cluster address is never the source of a line;
  the attacker has no sidecar, hence no access log.
  These are guards of the cluster's actions. Two more are named assumptions on the
  constants: the attack acts from one pod (`FootholdAssumption`, `DATA.md:238-240`), and each
  meshed pod has one log file (`FilesAssumption`). Paths, status codes,
  durations and the other payload columns are left out, as are the role names
  derived from labels and owners.

## 8. Not modelled

Word2Vec (`embed.py`), the weights and objectives of the networks and FlashSAGE
are numerical code without control of their own; of the networks only the
message flow of ppt's encoder is modelled. Strings become classes before the models see them,
so `template_path`, `port_class`, `dns_dst_token` and the like are left out. Of
the features, encodings of order and time and the scaled numbers are missing; of
evaluation, precision, the weak signal, ablations and benign proxies; of the
training loops, batches, class weights and the booster. The configuration is a
recursive merge of dictionaries read once per command; models take its values as
constants.

## 9. Plan

Done, in this order: the store and the pipeline over it (the contract that no attack is
trained on is the system's most important one), split, bundle, calibration,
windows, memory, training loops, telemetry; then what the detectors make of a
stored run: both graphs, ppt's message passing, sentences, features, evaluation.

Then the proofs: the invariants of each of these, from the store to telemetry,
memory, evaluation, the layout of the feature vectors and the sentences, the refinements of
`BundleRegister` and `ScoreOnce`, and the case in which a round trip of a bundle is exact.

Left: liveness, which stays with TLC, and the parts of section 8. Of these the
benign proxies and the fallbacks of `eval.py:236-243` have the most control flow.
