------------------------------- MODULE Ingest -------------------------------
(***************************************************************************)
(* `gnnid ingest` (src/gnnid/ingest/run_dir.py): it walks the run          *)
(* directories that the collector produces and writes, for each valid run, *)
(* three files in the parquet store, one after the other and none of them  *)
(* atomically:  events.parquet, entities.parquet, meta.json.               *)
(*                                                                         *)
(* The collector (ubench, not part of this repository) is the environment: *)
(* it creates a run directory, writes meta.json in it and, for an attack   *)
(* run, drops attack/attack.json in it at some time.                       *)
(***************************************************************************)
EXTENDS Naturals, Sequences, FiniteSets

CONSTANTS
  Runs,        \* the runs, named by their timestamps
  DirPos,      \* place of a run directory in sorted(glob(runs_glob))
  Bench,       \* benchmark of a run, as the sequence of its "-"-separated parts
  Benchmarks,  \* data.benchmarks; the empty set filters nothing
  Collected,   \* the runs whose directories are complete and valid at the start
  Crashes      \* TRUE: a command may be killed between any two steps

ASSUME RunsAssumption == Runs \subseteq Nat \ {0} /\ IsFiniteSet(Runs)
ASSUME DirPosAssumption ==
  /\ DirPos \in [Runs -> Nat]
  /\ \A r, s \in Runs : DirPos[r] = DirPos[s] => r = s
ASSUME CollectedAssumption == Collected \subseteq Runs
ASSUME CrashesAssumption == Crashes \in BOOLEAN

VARIABLES
  src,    \* run directories: state of their files, presence of attack.json
  store,  \* the parquet store: content of the three files of each run
  ing     \* the ingest process

ingestVars == <<src, store, ing>>

(* A run directory: none; one without meta.json; with a partly written     *)
(* meta.json; with run_status # 0; with run_status = 0, and then "broken"  *)
(* while attack.json or a file of the snapshot is only partly written,     *)
(* "valid" when ingest_run can read all it parses.                         *)
MetaStates == {"none", "open", "partial", "failed", "broken", "valid"}

(* events.parquet: "benign" when ingest saw no attack.json; "attack" when  *)
(* it saw one and --labels was not given; "labelled" when every event is   *)
(* stamped benign or malicious.  "torn" is a file opened and not closed.   *)
EventsFile   == {"none", "torn", "benign", "attack", "labelled"}
EntitiesFile == {"none", "torn", "ok"}
MetaFile     == {"none", "torn", "benign", "attack"}

Files == {"events", "entities", "meta"}

NoRun == 0
Idle == [pc |-> "idle", open |-> FALSE, todo |-> {}, run |-> NoRun,
         attack |-> FALSE, labels |-> FALSE]

IngestTypeOK ==
  /\ src \in [Runs -> [meta : MetaStates, attack : BOOLEAN]]
  /\ store \in [Runs -> [events : EventsFile, entities : EntitiesFile,
                         meta : MetaFile]]
  /\ ing \in [pc : {"idle", "scan"} \cup Files, open : BOOLEAN,
              todo : SUBSET Runs, run : Runs \cup {NoRun},
              attack : BOOLEAN, labels : BOOLEAN]

IngestInit ==
  /\ src = [r \in Runs |-> [meta |-> IF r \in Collected THEN "valid" ELSE "none",
                            attack |-> FALSE]]
  /\ store = [r \in Runs |-> [events |-> "none", entities |-> "none",
                              meta |-> "none"]]
  /\ ing = Idle

----------------------------------------------------------------------------
(* The collector. *)

(* The files of a run directory advance; meta.json is final once complete. *)
Collect(r, m) ==
  /\ \/ src[r].meta = "none" /\ m = "open"
     \/ src[r].meta = "open" /\ m \in {"partial", "failed", "broken", "valid"}
     \/ src[r].meta = "partial" /\ m \in {"failed", "broken", "valid"}
     \/ src[r].meta = "broken" /\ m = "valid"
  /\ src' = [src EXCEPT ![r].meta = m]
  /\ UNCHANGED <<store, ing>>

(* attack/attack.json is dropped into an existing run directory, at once   *)
(* or first the beginning of it.                                           *)
GroundTruth(r, m) ==
  /\ src[r].meta # "none"
  /\ ~ src[r].attack
  /\ m = src[r].meta \/ (src[r].meta = "valid" /\ m = "broken")
  /\ src' = [src EXCEPT ![r].attack = TRUE, ![r].meta = m]
  /\ UNCHANGED <<store, ing>>

----------------------------------------------------------------------------
(* The ingest command. *)

Selected(r) == Benchmarks = {} \/ Bench[r] \in Benchmarks

(* sorted(repo_root.glob(...)): the run directories that exist now.        *)
IngestStart(labels) ==
  /\ ing.pc = "idle"
  /\ ing' = [Idle EXCEPT !.pc = "scan", !.labels = labels,
                         !.todo = {r \in Runs : src[r].meta # "none"}]
  /\ UNCHANGED <<src, store>>

(* The loop is about to look at the run directory of r.                    *)
AtDir(r) ==
  /\ ing.pc = "scan"
  /\ r \in ing.todo
  /\ \A s \in ing.todo : DirPos[r] <= DirPos[s]

(* Slip: a run that is in the store already is skipped. *)
IngestSkipStored(r) ==
  /\ AtDir(r)
  /\ \/ src[r].meta = "open"
     \/ src[r].meta \in {"failed", "broken", "valid"} /\ ~ Selected(r)
     \/ src[r].meta = "failed"
     \/ src[r].meta = "valid" /\ store[r].events # "none"
  /\ ing' = [ing EXCEPT !.todo = @ \ {r}]
  /\ UNCHANGED <<src, store>>

(* No meta.json, another benchmark, or run_status # 0: next directory.     *)
IngestSkip(r) ==
  /\ AtDir(r)
  /\ \/ src[r].meta = "open"
     \/ src[r].meta \in {"failed", "broken", "valid"} /\ ~ Selected(r)
     \/ src[r].meta = "failed"
  /\ ing' = [ing EXCEPT !.todo = @ \ {r}]
  /\ UNCHANGED <<src, store>>

(* Slip: run_status # 0 raises too. *)
IngestAbortFailed(r) ==
  /\ AtDir(r)
  /\ \/ src[r].meta \in {"partial", "failed"}
     \/ src[r].meta = "broken" /\ Selected(r)
  /\ ing' = Idle
  /\ UNCHANGED <<src, store>>

(* json.load raises on a partly written meta.json, before the benchmark    *)
(* filter, and ingest_run on a partly written attack.json or snapshot, both *)
(* outside any try: the whole command ends.                                *)
IngestAbort(r) ==
  /\ AtDir(r)
  /\ \/ src[r].meta = "partial"
     \/ src[r].meta = "broken" /\ Selected(r)
  /\ ing' = Idle
  /\ UNCHANGED <<src, store>>

(* Slip: run_status is not looked at. *)
IngestRunFailed(r) ==
  /\ AtDir(r)
  /\ src[r].meta \in {"valid", "failed"}
  /\ Selected(r)
  /\ ing' = [ing EXCEPT !.pc = "events", !.run = r, !.attack = src[r].attack]
  /\ UNCHANGED <<src, store>>

(* ingest_run returns: the telemetry and attack.json are in memory.        *)
IngestRun(r) ==
  /\ AtDir(r)
  /\ src[r].meta = "valid"
  /\ Selected(r)
  /\ ing' = [ing EXCEPT !.pc = "events", !.run = r, !.attack = src[r].attack]
  /\ UNCHANGED <<src, store>>

(* Opening a file for writing truncates what it held.                      *)
OpenFile ==
  /\ ing.pc \in Files
  /\ ~ ing.open
  /\ store' = [store EXCEPT ![ing.run][ing.pc] = "torn"]
  /\ ing' = [ing EXCEPT !.open = TRUE]
  /\ UNCHANGED src

(* Slip: the mark is written only when labels are. *)
MarkWithLabels(file) ==
  CASE file = "events"   -> IF ~ ing.attack THEN "benign"
                            ELSE IF ing.labels THEN "labelled" ELSE "attack"
    [] file = "entities" -> "ok"
    [] file = "meta"     -> IF ing.attack /\ ing.labels THEN "attack" ELSE "benign"

(* What ingest_run computed for each of the three files.                   *)
FileContent(file) ==
  CASE file = "events"   -> IF ~ ing.attack THEN "benign"
                            ELSE IF ing.labels THEN "labelled" ELSE "attack"
    [] file = "entities" -> "ok"
    [] file = "meta"     -> IF ing.attack THEN "attack" ELSE "benign"

NextFile(file) ==
  CASE file = "events"   -> "entities"
    [] file = "entities" -> "meta"
    [] file = "meta"     -> "scan"

(* Slip: the loop does not advance. *)
WriteFileAgain ==
  /\ ing.pc \in Files
  /\ ing.open
  /\ store' = [store EXCEPT ![ing.run][ing.pc] = FileContent(ing.pc)]
  /\ ing' = [ing EXCEPT !.open = FALSE, !.pc = NextFile(ing.pc)]
  /\ UNCHANGED src

(* The file is written and closed; after meta.json the loop goes on.       *)
WriteFile ==
  /\ ing.pc \in Files
  /\ ing.open
  /\ store' = [store EXCEPT ![ing.run][ing.pc] = FileContent(ing.pc)]
  /\ ing' = [ing EXCEPT !.open = FALSE, !.pc = NextFile(ing.pc),
                        !.todo = IF ing.pc = "meta" THEN @ \ {ing.run} ELSE @]
  /\ UNCHANGED src

(* The loop is over: ingest_all returns the run ids it wrote.              *)
IngestReturn ==
  /\ ing.pc = "scan"
  /\ ing.todo = {}
  /\ ing' = Idle
  /\ UNCHANGED <<src, store>>

(* The command is killed: files keep what was written, memory is lost.     *)
IngestCrash ==
  /\ Crashes
  /\ ing.pc # "idle"
  /\ ing' = Idle
  /\ UNCHANGED <<src, store>>

----------------------------------------------------------------------------
Environment == \E r \in Runs, m \in MetaStates : GroundTruth(r, m) \/ Collect(r, m)

IngestStep ==
  \/ \E r \in Runs : IngestSkip(r) \/ IngestAbort(r) \/ IngestRun(r)
  \/ OpenFile
  \/ WriteFile
  \/ IngestReturn

IngestNext ==
  \/ Environment
  \/ \E labels \in BOOLEAN : IngestStart(labels)
  \/ IngestStep
  \/ IngestCrash

(* A command that runs keeps taking its steps; nobody has to start one.    *)
IngestSpec == IngestInit /\ [][IngestNext]_ingestVars /\ WF_ingestVars(IngestStep)

----------------------------------------------------------------------------
(* The files of a run that dataset.load_run can read back.                 *)
Loadable(r) ==
  /\ store[r].events \notin {"none", "torn"}
  /\ store[r].entities = "ok"
  /\ store[r].meta \notin {"none", "torn"}

MarkedAttack(r)  == store[r].meta = "attack"
CarriesAttack(r) == store[r].events \in {"attack", "labelled"}

(* A stored run is whole: every file readable and meta.json says of the    *)
(* events what ingest knew when it wrote them.                             *)
Whole(r) == Loadable(r) /\ (MarkedAttack(r) <=> CarriesAttack(r))

(* When ingest comes to the end of its loop, the whole store is sound,     *)
(* whatever earlier ingests were killed in the middle of: every run with a *)
(* file in the store was rewritten (run_dir.py:103-121).                   *)
FinishedStoreIsWhole ==
  ing.pc = "scan" /\ ing.todo = {} =>
    \A r \in Runs : store[r].events # "none" => Whole(r)

(* Only runs that ended well, of the configured benchmarks, reach the      *)
(* store, and no attack mark or label is invented: an attack.json was      *)
(* there (run_dir.py:105-114).                                             *)
StoreComesFromRunDirs ==
  \A r \in Runs :
    /\ store[r].events # "none" => src[r].meta \in {"broken", "valid"} /\ Selected(r)
    /\ CarriesAttack(r) \/ MarkedAttack(r) => src[r].attack

(* A stored run that is marked as an attack is never marked benign again,  *)
(* by any later ingest, interrupted or not (run_dir.py:84-86).             *)
AttackMarkSticks ==
  \A r \in Runs : [](MarkedAttack(r) => [](store[r].meta # "benign"))

(* An ingest that was started ends: the loop over the directories shrinks. *)
IngestEnds == ing.pc # "idle" ~> ing.pc = "idle"

(* One partly written file ends the command for every directory after it:  *)
(* a meta.json of any run, the attack.json or the snapshot of a selected   *)
(* one.  While there is none, each valid run the loop has yet to reach     *)
(* gets whole in the store (run_dir.py:103-121).                           *)
NoPartialFile ==
  [](\A r \in Runs : /\ src[r].meta # "partial"
                     /\ src[r].meta = "broken" => ~ Selected(r))
Awaited(r) == ing.pc # "idle" /\ r \in ing.todo /\ src[r].meta = "valid" /\ Selected(r)
ValidRunsGetStored == NoPartialFile => \A r \in Runs : Awaited(r) ~> Whole(r)
============================================================================
