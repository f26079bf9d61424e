--------------------------- MODULE PipelineProofs ---------------------------
(***************************************************************************)
(* Safety of ingest for every set of runs, every benchmark filter and any  *)
(* number of crashes; then the benign-only training contract, the          *)
(* exactness of the manifest and the separation of test runs from          *)
(* training.  Every step of the pipeline is a step of ingest or leaves     *)
(* ingest alone, so the invariant of ingest carries over.                  *)
(***************************************************************************)
EXTENDS Pipeline, SplitLemmas

----------------------------------------------------------------------------
(* Ingest.  The inductive invariant adds to the types what a command in    *)
(* the middle of its loop has established: which files of the current run  *)
(* are already rewritten (Writing), and that every directory the loop has  *)
(* left behind is whole in the store (Passed).                             *)

(* What ingest knows of the run whose files it is writing.                 *)
Writing ==
  ing.pc \in Files =>
    /\ ing.run \in ing.todo
    /\ src[ing.run].meta \in {"broken", "valid"}
    /\ Selected(ing.run)
    /\ ing.attack => src[ing.run].attack
    /\ ing.pc \in {"entities", "meta"} =>
         /\ store[ing.run].events \notin {"none", "torn"}
         /\ CarriesAttack(ing.run) <=> ing.attack
    /\ ing.pc = "meta" => store[ing.run].entities = "ok"

Passed ==
  ing.pc # "idle" =>
    \A r \in Runs \ ing.todo : store[r].events # "none" => Whole(r)

IngestInv ==
  /\ IngestTypeOK
  /\ StoreComesFromRunDirs
  /\ Writing
  /\ Passed

(* The invariant holds of an empty store.                                  *)
LEMMA IngestInvInit == IngestInit => IngestInv
  BY RunsAssumption, CollectedAssumption
  DEF IngestInit, IngestInv, IngestTypeOK, MetaStates, EventsFile, EntitiesFile,
      MetaFile, Files, Idle, NoRun, StoreComesFromRunDirs, CarriesAttack,
      MarkedAttack, Writing, Passed

(* The state of the store after the current file of the current run got    *)
(* the content c: every other file is as it was.                           *)
FilePut(c) ==
  /\ store' \in [Runs -> [events : EventsFile, entities : EntitiesFile, meta : MetaFile]]
  /\ \A r \in Runs \ {ing.run} : store'[r] = store[r]
  /\ store'[ing.run].events = IF ing.pc = "events" THEN c ELSE store[ing.run].events
  /\ store'[ing.run].entities = IF ing.pc = "entities" THEN c ELSE store[ing.run].entities
  /\ store'[ing.run].meta = IF ing.pc = "meta" THEN c ELSE store[ing.run].meta

LEMMA PutFile ==
  ASSUME IngestTypeOK, ing.run \in Runs, ing.pc \in Files, NEW c,
         store' = [store EXCEPT ![ing.run][ing.pc] = c],
         ing.pc = "events" => c \in EventsFile,
         ing.pc = "entities" => c \in EntitiesFile,
         ing.pc = "meta" => c \in MetaFile
  PROVE  FilePut(c)
<1>1. CASE ing.pc = "events"
  BY <1>1 DEF IngestTypeOK, FilePut
<1>2. CASE ing.pc = "entities"
  BY <1>2 DEF IngestTypeOK, FilePut
<1>3. CASE ing.pc = "meta"
  BY <1>3 DEF IngestTypeOK, FilePut
<1> QED
  BY <1>1, <1>2, <1>3 DEF Files

(* Every step of the collector or of a command preserves the invariant.    *)
LEMMA IngestInvNext == IngestInv /\ [IngestNext]_ingestVars => IngestInv'
<1> SUFFICES ASSUME IngestInv, [IngestNext]_ingestVars
             PROVE  IngestInv'
  OBVIOUS
<1>0. IngestTypeOK /\ StoreComesFromRunDirs /\ Writing /\ Passed
  BY DEF IngestInv
<1>a. ing.pc \in Files => ing.run \in Runs
  BY <1>0 DEF Writing, IngestTypeOK
<1>1. ASSUME NEW r \in Runs, NEW m \in MetaStates, GroundTruth(r, m)
      PROVE  IngestInv'
  <2>1. src' \in [Runs -> [meta : MetaStates, attack : BOOLEAN]]
    BY <1>0, <1>1 DEF GroundTruth, IngestTypeOK
  <2>2. \A s \in Runs : /\ src'[s].meta = src[s].meta \/ (src[s].meta = "valid" /\ src'[s].meta = "broken")
                        /\ src[s].attack => src'[s].attack
    BY <1>0, <1>1 DEF GroundTruth, IngestTypeOK
  <2> QED
    BY <1>0, <1>1, <1>a, <2>1, <2>2
    DEF GroundTruth, IngestInv, IngestTypeOK, StoreComesFromRunDirs, Writing,
        Passed, CarriesAttack, MarkedAttack, Whole, Loadable, Selected
<1>2. CASE OpenFile
  <2>1. /\ ing.pc \in Files
        /\ ing' = [ing EXCEPT !.open = TRUE]
        /\ src' = src
        /\ store' = [store EXCEPT ![ing.run][ing.pc] = "torn"]
    BY <1>2 DEF OpenFile
  <2>2. "torn" \in EventsFile /\ "torn" \in EntitiesFile /\ "torn" \in MetaFile
    BY DEF EventsFile, EntitiesFile, MetaFile
  <2>3. FilePut("torn")
    BY <1>0, <1>a, <2>1, <2>2, PutFile
  <2>4. IngestTypeOK'
    BY <1>0, <1>a, <2>1, <2>3 DEF FilePut, IngestTypeOK, Files
  <2>5. StoreComesFromRunDirs'
    BY <1>0, <1>a, <2>1, <2>3
    DEF FilePut, IngestTypeOK, StoreComesFromRunDirs, CarriesAttack, MarkedAttack,
        Writing, Selected, Files
  <2>6. Writing'
    BY <1>0, <1>a, <2>1, <2>3
    DEF FilePut, IngestTypeOK, Writing, CarriesAttack, Selected, Files
  <2>7. Passed'
    BY <1>0, <1>a, <2>1, <2>3
    DEF FilePut, IngestTypeOK, Writing, Passed, CarriesAttack, MarkedAttack,
        Whole, Loadable, Files
  <2> QED
    BY <2>4, <2>5, <2>6, <2>7 DEF IngestInv
<1>3. CASE WriteFile
  <2>1. /\ ing.pc \in Files
        /\ ing' = [ing EXCEPT !.open = FALSE, !.pc = NextFile(ing.pc),
                        !.todo = IF ing.pc = "meta" THEN @ \ {ing.run} ELSE @]
        /\ src' = src
        /\ store' = [store EXCEPT ![ing.run][ing.pc] = FileContent(ing.pc)]
    BY <1>3 DEF WriteFile
  <2>2. /\ ing.pc = "events" => FileContent(ing.pc) \in EventsFile
        /\ ing.pc = "entities" => FileContent(ing.pc) \in EntitiesFile
        /\ ing.pc = "meta" => FileContent(ing.pc) \in MetaFile
    BY DEF FileContent, EventsFile, EntitiesFile, MetaFile
  <2>3. FilePut(FileContent(ing.pc))
    BY <1>0, <1>a, <2>1, <2>2, PutFile
  <2>4. IngestTypeOK'
    BY <1>0, <1>a, <2>1, <2>3 DEF FilePut, IngestTypeOK, Files, FileContent, NextFile
  <2>5. StoreComesFromRunDirs'
    BY <1>0, <1>a, <2>1, <2>3
    DEF FilePut, IngestTypeOK, StoreComesFromRunDirs, CarriesAttack, MarkedAttack,
        Writing, Selected, Files, FileContent, NextFile
  <2>6. Writing'
    BY <1>0, <1>a, <2>1, <2>3
    DEF FilePut, IngestTypeOK, Writing, CarriesAttack, Selected, Files, FileContent, NextFile
  <2>7. Passed'
    BY <1>0, <1>a, <2>1, <2>3
    DEF FilePut, IngestTypeOK, Writing, Passed, CarriesAttack, MarkedAttack,
        Whole, Loadable, Files, FileContent, NextFile
  <2> QED
    BY <2>4, <2>5, <2>6, <2>7 DEF IngestInv
<1> USE DEF IngestInv, IngestTypeOK, MetaStates, EventsFile, EntitiesFile, MetaFile,
      Files, NoRun, StoreComesFromRunDirs, CarriesAttack, MarkedAttack,
      Writing, Passed, Whole, Loadable, Selected
<1>4. ASSUME NEW r \in Runs, NEW m \in MetaStates, Collect(r, m)
      PROVE  IngestInv'
  BY <1>0, <1>4 DEF Collect
<1>5. ASSUME NEW labels \in BOOLEAN, IngestStart(labels)
      PROVE  IngestInv'
  BY <1>0, <1>5 DEF IngestStart, Idle
<1>6. ASSUME NEW r \in Runs, IngestSkip(r)
      PROVE  IngestInv'
  BY <1>0, <1>6 DEF IngestSkip, AtDir
<1>7. ASSUME NEW r \in Runs, IngestAbort(r)
      PROVE  IngestInv'
  BY <1>0, <1>7 DEF IngestAbort, Idle
<1>8. ASSUME NEW r \in Runs, IngestRun(r)
      PROVE  IngestInv'
  BY <1>0, <1>8 DEF IngestRun, AtDir
<1>9. CASE IngestReturn
  BY <1>0, <1>9 DEF IngestReturn, Idle
<1>10. CASE IngestCrash
  BY <1>0, <1>10 DEF IngestCrash, Idle
<1>11. CASE UNCHANGED ingestVars
  BY <1>0, <1>11 DEF ingestVars
<1> HIDE DEF IngestInv, IngestTypeOK, MetaStates, EventsFile, EntitiesFile, MetaFile,
      Files, NoRun, StoreComesFromRunDirs, CarriesAttack, MarkedAttack,
      Writing, Passed, Whole, Loadable, Selected
<1> QED
  BY <1>1, <1>2, <1>3, <1>4, <1>5, <1>6, <1>7, <1>8, <1>9, <1>10, <1>11
  DEF IngestNext, Environment, IngestStep

(* The state of ingest is always one of its types.                         *)
THEOREM IngestTypeCorrect == IngestSpec => []IngestTypeOK
<1>1. IngestInv => IngestTypeOK
  BY DEF IngestInv
<1> QED
  BY <1>1, IngestInvInit, IngestInvNext, PTL DEF IngestSpec

(* The store holds only valid, selected runs and no invented attack.       *)
THEOREM IngestStoreOrigin == IngestSpec => []StoreComesFromRunDirs
<1>1. IngestInv => StoreComesFromRunDirs
  BY DEF IngestInv
<1> QED
  BY <1>1, IngestInvInit, IngestInvNext, PTL DEF IngestSpec

(* An ingest that reaches the end of its loop leaves a whole store, however *)
(* many earlier ones were killed between two of their file operations.      *)
THEOREM IngestRepairs == IngestSpec => []FinishedStoreIsWhole
<1>1. IngestInv => FinishedStoreIsWhole
  BY DEF IngestInv, Passed, FinishedStoreIsWhole
<1> QED
  BY <1>1, IngestInvInit, IngestInvNext, PTL DEF IngestSpec

----------------------------------------------------------------------------
(* Once run r was marked, its attack.json exists, and so any ingest that   *)
(* rewrites it later has read that file.                                   *)
Rewriting(r) == ing.pc \in Files /\ ing.run = r
MarkRead(r)  == MarkedAttack(r) /\ Rewriting(r) => ing.attack
Sticky(r) ==
  /\ src[r].attack
  /\ Rewriting(r) => ing.attack
  /\ store[r].meta # "benign"

(* A step either touches the current file, or leaves the store alone; and  *)
(* a rewriting that a step begins or goes on with has read attack.json.    *)
LEMMA IngestSteps ==
  ASSUME NEW r \in Runs, IngestInv, [IngestNext]_ingestVars
  PROVE  /\ src[r].attack => src'[r].attack
         /\ \/ OpenFile
            \/ WriteFile
            \/ /\ store' = store
               /\ Rewriting(r)' => \/ Rewriting(r) /\ ing'.attack = ing.attack
                                  \/ ing'.attack = src[r].attack
               /\ ~ Crashes /\ Rewriting(r) => Rewriting(r)'
<1>0. IngestTypeOK
  BY DEF IngestInv
<1>1. ASSUME NEW s \in Runs, NEW m \in MetaStates, Collect(s, m)
      PROVE  (src[r].attack => src'[r].attack) /\ store' = store /\ ing' = ing
  BY <1>0, <1>1 DEF Collect, IngestTypeOK
<1>2. ASSUME NEW labels \in BOOLEAN, IngestStart(labels)
      PROVE  src' = src /\ store' = store /\ ing.pc \notin Files /\ ing'.pc \notin Files
  BY <1>2 DEF IngestStart, Idle, Files
<1>3. ASSUME NEW s \in Runs, IngestSkip(s) \/ IngestAbort(s)
      PROVE  src' = src /\ store' = store /\ ing.pc \notin Files /\ ing'.pc \notin Files
  <2>1. CASE IngestSkip(s)
    BY <1>0, <2>1 DEF IngestSkip, AtDir, Files, IngestTypeOK
  <2>2. CASE IngestAbort(s)
    BY <2>2 DEF IngestAbort, AtDir, Idle, Files
  <2> QED
    BY <1>3, <2>1, <2>2
<1>4. ASSUME NEW s \in Runs, IngestRun(s)
      PROVE  /\ src' = src /\ store' = store /\ ing.pc \notin Files
             /\ ing'.run = s /\ ing'.attack = src[s].attack
  BY <1>0, <1>4 DEF IngestRun, AtDir, Files, IngestTypeOK
<1>5. CASE OpenFile \/ WriteFile
  BY <1>5 DEF OpenFile, WriteFile
<1>6. CASE UNCHANGED ingestVars
  BY <1>6 DEF ingestVars, Rewriting
<1>7. CASE IngestReturn \/ IngestCrash
  BY <1>7 DEF IngestReturn, IngestCrash, Idle, Files, Rewriting
<1>8. ASSUME NEW s \in Runs, NEW m \in MetaStates, GroundTruth(s, m)
      PROVE  (src[r].attack => src'[r].attack) /\ store' = store /\ ing' = ing
  BY <1>0, <1>8 DEF GroundTruth, IngestTypeOK
<1> QED
  BY <1>1, <1>2, <1>3, <1>4, <1>5, <1>6, <1>7, <1>8
  DEF IngestNext, Environment, IngestStep, Rewriting

(* The two file operations, seen from the marks.                           *)
LEMMA IngestWrites ==
  ASSUME NEW r \in Runs, IngestInv, OpenFile \/ WriteFile
  PROVE  /\ src' = src
         /\ ing.pc \in Files
         /\ ing'.run = ing.run /\ ing'.attack = ing.attack
         /\ \/ store'[r].meta = store[r].meta
            \/ /\ Rewriting(r)
               /\ store'[r].meta = "torn"
            \/ /\ Rewriting(r)
               /\ ing'.pc = "scan"
               /\ store'[r].meta = IF ing.attack THEN "attack" ELSE "benign"
<1>0. IngestTypeOK /\ ing.pc \in Files /\ ing.run \in Runs
  BY DEF IngestInv, IngestTypeOK, Writing, OpenFile, WriteFile
<1>1. CASE OpenFile
  <2>1. FilePut("torn")
    BY <1>0, <1>1, PutFile DEF OpenFile, EventsFile, EntitiesFile, MetaFile
  <2>2. src' = src /\ ing'.run = ing.run /\ ing'.attack = ing.attack
    BY <1>0, <1>1 DEF OpenFile, IngestTypeOK
  <2>3. CASE r = ing.run
    BY <1>0, <2>1, <2>2, <2>3 DEF FilePut, Rewriting
  <2>4. CASE r # ing.run
    BY <1>0, <2>1, <2>2, <2>4 DEF FilePut
  <2> QED
    BY <2>3, <2>4
<1>2. CASE WriteFile
  <2>1. /\ ing.pc = "events" => FileContent(ing.pc) \in EventsFile
        /\ ing.pc = "entities" => FileContent(ing.pc) \in EntitiesFile
        /\ ing.pc = "meta" => FileContent(ing.pc) \in MetaFile
    BY DEF FileContent, EventsFile, EntitiesFile, MetaFile
  <2>2. FilePut(FileContent(ing.pc))
    BY <1>0, <1>2, <2>1, PutFile DEF WriteFile
  <2>3. /\ src' = src /\ ing'.run = ing.run /\ ing'.attack = ing.attack
        /\ ing'.pc = NextFile(ing.pc)
    BY <1>0, <1>2 DEF WriteFile, IngestTypeOK
  <2>4. CASE r = ing.run /\ ing.pc = "meta"
    BY <1>0, <2>2, <2>3, <2>4 DEF FilePut, Rewriting, FileContent, NextFile
  <2>5. CASE r = ing.run /\ ing.pc # "meta"
    BY <1>0, <2>2, <2>3, <2>5 DEF FilePut
  <2>6. CASE r # ing.run
    BY <1>0, <2>2, <2>3, <2>6 DEF FilePut
  <2> QED
    BY <2>4, <2>5, <2>6
<1> QED
  BY <1>1, <1>2

LEMMA MarkReadNext ==
  ASSUME NEW r \in Runs, IngestInv, MarkRead(r), [IngestNext]_ingestVars
  PROVE  MarkRead(r)'
<1>1. MarkedAttack(r) => src[r].attack
  BY DEF IngestInv, StoreComesFromRunDirs
<1>2. CASE OpenFile \/ WriteFile
  BY <1>2, IngestWrites DEF MarkRead, MarkedAttack, Rewriting, Files
<1> QED
  BY <1>1, <1>2, IngestSteps DEF MarkRead, MarkedAttack, Rewriting

LEMMA StickyNext ==
  ASSUME NEW r \in Runs, IngestInv, Sticky(r), [IngestNext]_ingestVars
  PROVE  Sticky(r)'
<1>1. CASE OpenFile \/ WriteFile
  BY <1>1, IngestWrites DEF Sticky, Rewriting, Files
<1> QED
  BY <1>1, IngestSteps DEF Sticky, Rewriting

(* A run once marked as an attack is never benign in the store again.      *)
THEOREM IngestMarkSticks == IngestSpec => AttackMarkSticks
<1> SUFFICES ASSUME NEW r \in Runs
             PROVE  IngestSpec => [](MarkedAttack(r) => [](store[r].meta # "benign"))
  BY DEF AttackMarkSticks
<1>1. IngestInit => MarkRead(r)
  BY DEF IngestInit, MarkRead, MarkedAttack
<1>2. IngestInv /\ MarkRead(r) /\ [IngestNext]_ingestVars => MarkRead(r)'
  BY MarkReadNext
<1>3. IngestInv /\ Sticky(r) /\ [IngestNext]_ingestVars => Sticky(r)'
  BY StickyNext
<1>4. IngestInv /\ MarkRead(r) /\ MarkedAttack(r) => Sticky(r)
  BY DEF IngestInv, StoreComesFromRunDirs, MarkRead, MarkedAttack, Sticky
<1>5. Sticky(r) => store[r].meta # "benign"
  BY DEF Sticky
<1> QED
  BY <1>1, <1>2, <1>3, <1>4, <1>5, IngestInvInit, IngestInvNext, PTL DEF IngestSpec

----------------------------------------------------------------------------
(* The pipeline.                                                           *)

LEMMA PipelineStepsIngest == [PipelineNext]_pipeVars => [IngestNext]_ingestVars
  BY DEF PipelineNext, pipeVars, ingestVars, IngestNext, IngestCommand,
         IngestOrCollect, TrainStart, TrainStep, TrainLoad, PassOn, TrainFail, TrainSave,
         Score, Eval

(* train and val are runs that are listed and not marked as attacks.       *)
LEMMA SplitRunsBenign ==
  ASSUME NEW ids \in SUBSET Runs
  PROVE  /\ SplitRuns(ids) \in Splits
         /\ \A r \in SplitRuns(ids).train \cup SplitRuns(ids).val :
              r \in ids /\ ~ MarkedAttack(r)
<1> DEFINE attacks == {r \in ids : IsAttackRun(r)}
           cut     == TemporalSplit(ids \ attacks, ValFrac, TestFrac, FracBase)
<1>1. /\ cut.train \in SUBSET (ids \ attacks)
      /\ cut.val \in SUBSET (ids \ attacks)
      /\ cut.test \in SUBSET (ids \ attacks)
      /\ cut = [train |-> cut.train, val |-> cut.val, test |-> cut.test]
  BY DEF TemporalSplit, Slice
<1>2. SplitRuns(ids) = IF AttackRunsInTest THEN [cut EXCEPT !.test = @ \cup attacks] ELSE cut
  BY DEF SplitRuns
<1> HIDE DEF cut
<1>3. /\ SplitRuns(ids).train = cut.train
      /\ SplitRuns(ids).val = cut.val
      /\ SplitRuns(ids) \in Splits
  BY <1>1, <1>2 DEF Splits
<1> QED
  BY <1>1, <1>3 DEF MarkedAttack, IsAttackRun

----------------------------------------------------------------------------
(* What training has established while it loads its runs.                  *)
Loading ==
  tr.pc = "load" =>
    LET seen == tr.todo \cup {l.run : l \in tr.corpus}
        list == tr.split.train \cup tr.split.val
    IN  seen \subseteq list /\ (tr.pass = 3 => seen = list)

TrainInv == PipelineTypeOK /\ IngestInv /\ Loading /\ ManifestIsExact

LEMMA TrainInvInit == PipelineInit => TrainInv
  BY IngestInvInit
  DEF PipelineInit, TrainInv, PipelineTypeOK, IngestInv, NoTrain, NoBundle,
      NoReport, NoSplit, Splits, Loading, ManifestIsExact, Trained

LEMMA TrainInvNext == TrainInv /\ [PipelineNext]_pipeVars => TrainInv'
<1> SUFFICES ASSUME TrainInv, [PipelineNext]_pipeVars
             PROVE  TrainInv'
  OBVIOUS
<1>1. IngestInv' /\ IngestTypeOK'
  BY PipelineStepsIngest, IngestInvNext DEF TrainInv, IngestInv
<1>2. PipelineTypeOK /\ Loading /\ ManifestIsExact
  BY DEF TrainInv
<1>3. CASE UNCHANGED <<tr, bundle, report>>
  BY <1>1, <1>2, <1>3
  DEF TrainInv, PipelineTypeOK, Loading, ManifestIsExact, Trained
<1>4. CASE IngestCommand
  BY <1>1, <1>2, <1>4
  DEF IngestCommand, NoReport, TrainInv, PipelineTypeOK, Loading,
      ManifestIsExact, Trained
<1>5. CASE TrainStart
  <2>1. Listed \in SUBSET Runs
    BY DEF Listed
  <2> DEFINE split == SplitRuns(Listed)
  <2>2. /\ tr' = [pc |-> "load", split |-> split, pass |-> 1,
                  todo |-> split.train, corpus |-> {}]
        /\ report' = NoReport /\ bundle' = bundle
    BY <1>5 DEF TrainStart, PassRuns
  <2>3. split \in Splits
    BY <2>1, SplitRunsBenign
  <2> HIDE DEF split
  <2> QED
    BY <1>1, <1>2, <2>2, <2>3
    DEF NoReport, TrainInv, PipelineTypeOK, Splits, Loading, ManifestIsExact, Trained
<1>6. ASSUME NEW r \in Runs, TrainLoad(r)
      PROVE  TrainInv'
  <2> DEFINE load == [run |-> r, events |-> store[r].events]
             over == tr.todo = {r} /\ tr.pass < 3
             todo == IF over THEN PassRuns(tr.split, tr.pass + 1) ELSE tr.todo \ {r}
             pass == IF over THEN tr.pass + 1 ELSE tr.pass
  <2>1. /\ tr.pc = "load" /\ r \in tr.todo
        /\ tr' = [tr EXCEPT !.todo = todo, !.pass = pass, !.corpus = @ \cup {load}]
        /\ report' = report /\ bundle' = bundle
    BY <1>6 DEF TrainLoad, UpNext, PassOn
  <2>2. load \in Loads /\ load.run = r
    BY <1>2 DEF PipelineTypeOK, IngestTypeOK, Loads
  <2>3. /\ tr.split \in Splits /\ tr.pass \in 1..3 /\ tr.todo \in SUBSET Runs
        /\ tr.split.train \in SUBSET Runs /\ tr.split.val \in SUBSET Runs
    BY <1>2 DEF PipelineTypeOK, Splits
  <2>4. /\ todo \in SUBSET Runs /\ pass \in 1..3
        /\ ~ over => todo = tr.todo \ {r} /\ pass = tr.pass
        /\ over => todo = tr.split.train \/ todo = tr.split.train \cup tr.split.val
        /\ over /\ pass = 3 => todo = tr.split.train \cup tr.split.val
    BY <2>3 DEF PassRuns
  <2> HIDE DEF load, over, todo, pass
  <2>5. /\ tr'.pc = "load" /\ tr'.split = tr.split
        /\ tr'.todo = todo /\ tr'.pass = pass /\ tr'.corpus = tr.corpus \cup {load}
    BY <1>2, <2>1 DEF PipelineTypeOK
  <2>6. PipelineTypeOK'
    BY <1>1, <1>2, <2>1, <2>2, <2>4 DEF PipelineTypeOK
  <2>7. {l.run : l \in tr'.corpus} = {l.run : l \in tr.corpus} \cup {r}
    BY <2>2, <2>5
  <2>8. Loading'
    BY <1>2, <2>1, <2>4, <2>5, <2>7 DEF Loading
  <2> QED
    BY <1>1, <1>2, <2>1, <2>6, <2>8 DEF TrainInv, ManifestIsExact, Trained
<1>7. CASE TrainFail
  BY <1>1, <1>2, <1>7
  DEF TrainFail, NoTrain, NoSplit, Splits, TrainInv, PipelineTypeOK, Loading,
      ManifestIsExact, Trained
<1>8. CASE TrainSave
  BY <1>1, <1>2, <1>8
  DEF TrainSave, NoTrain, NoSplit, Splits, TrainInv, PipelineTypeOK, Loading,
      ManifestIsExact, Trained
<1>9. CASE Score \/ Eval
  <2>1. tr' = tr /\ bundle' = bundle
    BY <1>9 DEF Score, Eval
  <2>2. TestRuns \in SUBSET Runs
    BY <1>2 DEF TestRuns, Listed, PipelineTypeOK, Splits
  <2> DEFINE attacks == {r \in TestRuns : IsAttackRun(r)}
             proxies == IF TestRuns \ attacks # {} THEN TestRuns \ attacks ELSE TestRuns
  <2>3. attacks \in SUBSET Runs /\ proxies \in SUBSET Runs
    BY <2>2
  <2>4. \/ report' = [kind |-> "score", runs |-> TestRuns, attack |-> {}, benign |-> {}]
        \/ report' = [kind |-> "eval", runs |-> TestRuns, attack |-> attacks, benign |-> proxies]
    BY <1>9 DEF Score, Eval
  <2> HIDE DEF attacks, proxies
  <2>5. report' \in [kind : {"none", "score", "eval"}, runs : SUBSET Runs,
                     attack : SUBSET Runs, benign : SUBSET Runs]
    BY <2>2, <2>3, <2>4
  <2> QED
    BY <1>1, <1>2, <2>1, <2>5
    DEF TrainInv, PipelineTypeOK, Loading, ManifestIsExact, Trained
<1> QED
  BY <1>3, <1>4, <1>5, <1>6, <1>7, <1>8, <1>9
  DEF PipelineNext, TrainStep, IngestOrCollect, pipeVars

(* The pipeline's state is always one of its types.                        *)
THEOREM PipelineTypeCorrect == PipelineSpec => []PipelineTypeOK
<1>1. TrainInv => PipelineTypeOK
  BY DEF TrainInv
<1> QED
  BY <1>1, TrainInvInit, TrainInvNext, PTL DEF PipelineSpec

(* train and val of a saved manifest are exactly the runs that were loaded, *)
(* also when ingest overlaps training and when commands are killed.         *)
THEOREM PipelineManifest == PipelineSpec => []ManifestIsExact
<1>1. TrainInv => ManifestIsExact
  BY DEF TrainInv
<1> QED
  BY <1>1, TrainInvInit, TrainInvNext, PTL DEF PipelineSpec

----------------------------------------------------------------------------
(* Without crashes the events of a run are ahead of its mark only while    *)
(* ingest is writing that run; without overlap no training runs then.      *)
Settled   == \A r \in Runs : CarriesAttack(r) => MarkedAttack(r) \/ Rewriting(r)
Exclusive == tr.pc = "load" => ing.pc = "idle"
TrainingBenign ==
  tr.pc = "load" => \A r \in tr.split.train \cup tr.split.val : ~ MarkedAttack(r)

ContractInv == TrainInv /\ Settled /\ Exclusive /\ TrainingBenign /\ NoAttackTraining

LEMMA ContractInvInit == PipelineInit => ContractInv
  BY TrainInvInit
  DEF PipelineInit, IngestInit, ContractInv, Settled, Exclusive, TrainingBenign,
      NoAttackTraining, NoTrain, NoBundle, CarriesAttack

LEMMA SettledNext ==
  ASSUME ~ Crashes, IngestInv, Settled, [IngestNext]_ingestVars
  PROVE  Settled'
<1> SUFFICES ASSUME NEW r \in Runs, CarriesAttack(r)'
             PROVE  MarkedAttack(r)' \/ Rewriting(r)'
  BY DEF Settled
<1>0. IngestTypeOK /\ Writing
  BY DEF IngestInv
<1>1. CASE OpenFile \/ WriteFile
  <2>1. ing.pc \in Files /\ ing.run \in Runs
    BY <1>0, <1>1 DEF OpenFile, WriteFile, Writing, IngestTypeOK
  <2>2. r # ing.run => store'[r] = store[r]
    BY <1>0, <1>1, <2>1 DEF OpenFile, WriteFile, IngestTypeOK
  <2>3. ing'.run = ing.run
    BY <1>0, <1>1 DEF OpenFile, WriteFile, IngestTypeOK
  <2>4. CASE r = ing.run /\ OpenFile
    BY <1>0, <2>1, <2>4 DEF OpenFile, Rewriting, IngestTypeOK
  <2>5. CASE r = ing.run /\ WriteFile /\ ing.pc # "meta"
    BY <1>0, <2>1, <2>5 DEF WriteFile, NextFile, Files, Rewriting, IngestTypeOK
  <2>6. CASE r = ing.run /\ WriteFile /\ ing.pc = "meta"
    <3>1. store' = [store EXCEPT ![r].meta = IF ing.attack THEN "attack" ELSE "benign"]
      BY <1>0, <2>1, <2>6 DEF WriteFile, FileContent, IngestTypeOK
    <3>2. store'[r].events = store[r].events
      BY <1>0, <2>1, <2>6, <3>1 DEF IngestTypeOK
    <3>3. ing.attack
      BY <1>0, <2>6, <3>2 DEF Writing, CarriesAttack, Files
    <3> QED
      BY <1>0, <2>1, <2>6, <3>1, <3>3 DEF MarkedAttack, IngestTypeOK
  <2>7. CASE r # ing.run
    BY <2>2, <2>3, <2>7 DEF Settled, CarriesAttack, MarkedAttack, Rewriting
  <2> QED
    BY <1>1, <2>4, <2>5, <2>6, <2>7
<1> QED
  BY <1>1, IngestSteps DEF Settled, CarriesAttack, MarkedAttack

(* The contract's invariant: one step per action that touches training.    *)
LEMMA ContractInvNext ==
  ASSUME ~ Crashes, ~ Overlap, ContractInv, [PipelineNext]_pipeVars
  PROVE  ContractInv'
<1>1. TrainInv' /\ Settled'
  BY TrainInvNext, SettledNext, PipelineStepsIngest DEF ContractInv, TrainInv
<1>2. PipelineTypeOK /\ IngestTypeOK /\ Loading
  BY DEF ContractInv, TrainInv, PipelineTypeOK
<1>3. CASE IngestCommand
  BY <1>1, <1>2, <1>3
  DEF IngestCommand, IngestStart, MayStart, ContractInv, Exclusive, TrainingBenign,
      NoAttackTraining, MarkedAttack
<1>4. CASE IngestOrCollect
  <2>1. tr.pc = "load" => store' = store /\ ing'.pc = "idle"
    BY <1>2, <1>4
    DEF IngestOrCollect, Environment, IngestStep, ContractInv, Exclusive, Collect,
        GroundTruth, IngestSkip, IngestAbort, IngestRun, AtDir, OpenFile, WriteFile,
        IngestReturn, IngestCrash, Files
  <2> QED
    BY <1>1, <1>4, <2>1
    DEF IngestOrCollect, ContractInv, Exclusive, TrainingBenign, NoAttackTraining,
        MarkedAttack
<1>5. CASE TrainStart
  <2>1. Listed \in SUBSET Runs
    BY DEF Listed
  <2> DEFINE split == SplitRuns(Listed)
  <2>2. /\ tr'.pc = "load" /\ tr'.split = split /\ tr'.corpus = {}
        /\ ing.pc = "idle" /\ ing' = ing /\ store' = store /\ bundle' = bundle
    BY <1>5 DEF TrainStart, MayStart
  <2>3. \A r \in split.train \cup split.val : ~ MarkedAttack(r)
    BY <2>1, SplitRunsBenign
  <2> HIDE DEF split
  <2> QED
    BY <1>1, <2>2, <2>3
    DEF ContractInv, Exclusive, TrainingBenign, NoAttackTraining, MarkedAttack
<1>6. ASSUME NEW r \in Runs, TrainLoad(r)
      PROVE  ContractInv'
  <2> DEFINE load == [run |-> r, events |-> store[r].events]
  <2>1. /\ tr.pc = "load" /\ r \in tr.todo
        /\ tr'.pc = tr.pc /\ tr'.split = tr.split
        /\ tr'.corpus = tr.corpus \cup {load}
        /\ ing' = ing /\ store' = store /\ bundle' = bundle
    BY <1>2, <1>6 DEF TrainLoad, UpNext, PassOn, PipelineTypeOK
  <2>2. ~ CarriesAttack(r)
    BY <1>2, <2>1
    DEF Loading, ContractInv, Exclusive, TrainingBenign, Settled, Rewriting, Files
  <2>3. load.events \notin {"attack", "labelled"}
    BY <2>2 DEF CarriesAttack
  <2> HIDE DEF load
  <2> QED
    BY <1>1, <2>1, <2>3
    DEF ContractInv, Exclusive, TrainingBenign, NoAttackTraining, MarkedAttack
<1>7. CASE TrainFail \/ TrainSave
  BY <1>1, <1>7
  DEF TrainFail, TrainSave, NoTrain, ContractInv, Exclusive, TrainingBenign,
      NoAttackTraining
<1>8. CASE Score \/ Eval \/ UNCHANGED pipeVars
  BY <1>1, <1>8
  DEF Score, Eval, pipeVars, ContractInv, Exclusive, TrainingBenign,
      NoAttackTraining, MarkedAttack
<1> QED
  BY <1>3, <1>4, <1>5, <1>6, <1>7, <1>8 DEF PipelineNext, TrainStep

(* The benign-only training contract: with commands that run one after the *)
(* other and are not killed, no model is fitted on events of a run that    *)
(* carried ground truth when it was ingested.                              *)
THEOREM BenignOnlyTraining ==
  ASSUME ~ Crashes, ~ Overlap
  PROVE  PipelineSpec => []NoAttackTraining
<1>1. ContractInv => NoAttackTraining
  BY DEF ContractInv
<1>2. ContractInv /\ [PipelineNext]_pipeVars => ContractInv'
  BY ContractInvNext
<1> QED
  BY <1>1, <1>2, ContractInvInit, PTL DEF PipelineSpec

----------------------------------------------------------------------------
(* Test runs are separate from the moment the split is made, and a report  *)
(* is about the bundle that is still there.                                *)
HeldOut(split) == split.test \cap (split.train \cup split.val) = {}

UnseenInv ==
  /\ TrainInv
  /\ tr.pc = "load" => HeldOut(tr.split) /\ report.kind = "none"
  /\ bundle.saved => HeldOut(bundle.split)
  /\ report.kind # "none" =>
       bundle.saved /\ (bundle.split.test # {} => report.runs = bundle.split.test)

LEMMA SplitRunsHeldOut ==
  ASSUME 2 * (ValFrac + TestFrac) < FracBase, NEW ids \in SUBSET Runs
  PROVE  HeldOut(SplitRuns(ids))
<1> DEFINE attacks == {r \in ids : IsAttackRun(r)}
           cut     == TemporalSplit(ids \ attacks, ValFrac, TestFrac, FracBase)
<1>1. ids \ attacks \in SUBSET Nat /\ IsFiniteSet(ids \ attacks)
  <2> HIDE DEF attacks
  <2>1. ids \ attacks \in SUBSET Runs /\ Runs \in SUBSET Nat /\ IsFiniteSet(Runs)
    BY RunsAssumption
  <2>2. IsFiniteSet(ids \ attacks)
    BY <2>1, FS_Subset
  <2> QED
    BY <2>1, <2>2
<1>2. /\ cut.train \in SUBSET (ids \ attacks) /\ cut.val \in SUBSET (ids \ attacks)
      /\ cut.test \cap (cut.train \cup cut.val) = {}
  <2> DEFINE benign == ids \ attacks
  <2>1. cut = TemporalSplit(benign, ValFrac, TestFrac, FracBase)
    OBVIOUS
  <2> HIDE DEF cut, attacks, benign
  <2>2. benign \in SUBSET Nat /\ IsFiniteSet(benign)
    BY <1>1 DEF benign
  <2>3. /\ cut.train \in SUBSET benign /\ cut.val \in SUBSET benign
        /\ cut.test \cap (cut.train \cup cut.val) = {}
    BY <2>1, <2>2, FracAssumption, SplitDisjoint
  <2> QED
    BY <2>3 DEF benign
<1>3. cut = [train |-> cut.train, val |-> cut.val, test |-> cut.test]
  BY DEF TemporalSplit
<1>4. SplitRuns(ids) = IF AttackRunsInTest THEN [cut EXCEPT !.test = @ \cup attacks] ELSE cut
  BY DEF SplitRuns
<1> HIDE DEF cut
<1>5. /\ SplitRuns(ids).train = cut.train
      /\ SplitRuns(ids).val = cut.val
      /\ SplitRuns(ids).test \subseteq cut.test \cup attacks
  BY <1>3, <1>4
<1> QED
  BY <1>2, <1>5 DEF HeldOut

LEMMA UnseenInvNext ==
  ASSUME 2 * (ValFrac + TestFrac) < FracBase, UnseenInv, [PipelineNext]_pipeVars
  PROVE  UnseenInv'
<1>1. TrainInv'
  BY TrainInvNext DEF UnseenInv
<1>2. PipelineTypeOK
  BY DEF UnseenInv, TrainInv
<1>3. CASE UNCHANGED <<tr, bundle, report>>
  BY <1>1, <1>3 DEF UnseenInv
<1>4. CASE IngestCommand
  BY <1>1, <1>4 DEF IngestCommand, NoReport, UnseenInv
<1>5. CASE TrainStart
  <2>1. Listed \in SUBSET Runs
    BY DEF Listed
  <2>2. tr'.split = SplitRuns(Listed) /\ report'.kind = "none" /\ bundle' = bundle
    BY <1>5 DEF TrainStart, NoReport
  <2> QED
    BY <1>1, <2>1, <2>2, SplitRunsHeldOut DEF UnseenInv
<1>6. CASE \E r \in Runs : TrainLoad(r)
  <2>1. /\ tr.pc = "load" /\ tr'.split = tr.split
        /\ report' = report /\ bundle' = bundle
    BY <1>2, <1>6 DEF TrainLoad, UpNext, PassOn, PipelineTypeOK
  <2> QED
    BY <1>1, <2>1 DEF UnseenInv
<1>7. CASE TrainFail
  BY <1>1, <1>7 DEF TrainFail, NoTrain, UnseenInv
<1>8. CASE TrainSave
  BY <1>1, <1>8 DEF TrainSave, NoTrain, UnseenInv
<1>9. CASE Score \/ Eval
  <2>1. /\ tr' = tr /\ bundle' = bundle /\ tr.pc = "idle"
        /\ bundle.saved /\ report'.runs = TestRuns
    BY <1>9 DEF Score, Eval, MayStart
  <2> QED
    BY <1>1, <2>1 DEF UnseenInv, TestRuns
<1> QED
  BY <1>3, <1>4, <1>5, <1>6, <1>7, <1>8, <1>9
  DEF PipelineNext, TrainStep, IngestOrCollect, pipeVars

(* Scores and reports are never of runs that the saved model was trained   *)
(* or calibrated on while the manifest lists a test run, also when ingest  *)
(* overlaps training, when commands are killed and when runs are ingested  *)
(* again between training and scoring.                                     *)
THEOREM UnseenTestRuns ==
  ASSUME 2 * (ValFrac + TestFrac) < FracBase
  PROVE  PipelineSpec => []TestRunsAreUnseen
<1>1. PipelineInit => UnseenInv
  BY TrainInvInit DEF PipelineInit, NoTrain, NoBundle, NoReport, UnseenInv
<1>2. UnseenInv => TestRunsAreUnseen
  BY DEF UnseenInv, TrainInv, ManifestIsExact, HeldOut, TestRunsAreUnseen
<1>3. UnseenInv /\ [PipelineNext]_pipeVars => UnseenInv'
  BY UnseenInvNext
<1> QED
  BY <1>1, <1>2, <1>3, PTL DEF PipelineSpec
=============================================================================
