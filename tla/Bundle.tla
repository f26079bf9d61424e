------------------------------- MODULE Bundle -------------------------------
(***************************************************************************)
(* The detector bundle on disk (detectors/__init__.py, flash.py,           *)
(* ppt/__init__.py).  Saving a detector overwrites the files of the        *)
(* directory one by one and deletes none; files a detector does not have   *)
(* (no booster, no pre-trained encoder) are left as they are.  Loading     *)
(* checks the detector tag and takes what files there are.                 *)
(***************************************************************************)
EXTENDS Naturals, Sequences

CONSTANTS
  Kinds,         \* the detectors whose artifacts_dir is this directory
  Extras,        \* Extras[k]: the sets of optional files a training may yield
  MaxTrainings,  \* bound on the number of trainings
  Crashes        \* TRUE: a save may be killed between any two steps

(* The files in the order in which save and save_detector write them.      *)
Order == [flash |-> <<"w2v", "label_vocab", "gnn", "xgb", "xgb_w2v", "norm",
                      "thresholds", "manifest", "detector">>,
          ppt   |-> <<"label_vocab", "feature_spec", "ppt", "pretrained", "norm",
                      "thresholds", "manifest", "detector">>]

Optional == {"xgb", "xgb_w2v", "pretrained"}

PartsOf(k) == {Order[k][i] : i \in DOMAIN Order[k]}
Parts == PartsOf("flash") \cup PartsOf("ppt")

ASSUME KindsAssumption == Kinds \subseteq {"flash", "ppt"}
ASSUME ExtrasAssumption ==
  /\ Extras \in [Kinds -> SUBSET SUBSET Optional]
  /\ \A k \in Kinds : \A e \in Extras[k] : e \subseteq PartsOf(k)
ASSUME MaxTrainingsAssumption == MaxTrainings \in Nat
ASSUME BundleCrashesAssumption == Crashes \in BOOLEAN

VARIABLES
  trained,  \* the detectors trained so far: kind and optional files
  disk,     \* each file: the training that wrote it last, and whether it is whole
  save,     \* the save in progress: position in the order, 0 when there is none
  loaded    \* the detector that the last score or eval loaded

bundleVars == <<trained, disk, save, loaded>>

NotLoaded == [kind |-> "none", parts |-> [f \in Parts |-> 0]]
NotSaving == [at |-> 0, open |-> FALSE]
Detectors == [kind : Kinds, extras : SUBSET Optional]

Last == Len(trained)

(* Has the n-th trained detector the part f?                               *)
Has(n, f) ==
  /\ f \in PartsOf(trained[n].kind)
  /\ f \in Optional => f \in trained[n].extras

BundleTypeOK ==
  /\ trained \in Seq(Detectors)
  /\ disk \in [Parts -> [by : 0..Last, whole : BOOLEAN]]
  /\ save \in [at : 0..9, open : BOOLEAN]
  /\ save.at # 0 => Last # 0 /\ save.at \in DOMAIN Order[trained[Last].kind]
  /\ loaded \in [kind : {"none"} \cup Kinds, parts : [Parts -> 0..Last]]

BundleInit ==
  /\ trained = <<>>
  /\ disk = [f \in Parts |-> [by |-> 0, whole |-> FALSE]]
  /\ save = NotSaving
  /\ loaded = NotLoaded

----------------------------------------------------------------------------
(* Detector.train is over: a detector without boosters when the train      *)
(* nodes have fewer than two roles, without encoder when pretrain is off.  *)
Train(k, extras) ==
  /\ save.at = 0
  /\ Last < MaxTrainings
  /\ trained' = Append(trained, [kind |-> k, extras |-> extras])
  /\ save' = [at |-> 1, open |-> FALSE]
  /\ loaded' = NotLoaded
  /\ UNCHANGED disk

Saving == save.at # 0
ThisPart == Order[trained[Last].kind][save.at]
(* Slip: the save does not know its last file. *)
NextPartForever == save' = [at |-> save.at + 1, open |-> FALSE]

NextPart ==
  save' = [at   |-> IF save.at = Len(Order[trained[Last].kind]) THEN 0 ELSE save.at + 1,
           open |-> FALSE]

(* Slip: a file that is there is not written again. *)
SkipPresent ==
  /\ Saving /\ ~ save.open
  /\ ~ Has(Last, ThisPart) \/ disk[ThisPart].whole
  /\ NextPart
  /\ UNCHANGED <<trained, disk, loaded>>

SkipPart ==
  /\ Saving /\ ~ Has(Last, ThisPart)
  /\ NextPart
  /\ UNCHANGED <<trained, disk, loaded>>

(* Opening a file for writing truncates what it held.                      *)
OpenPart ==
  /\ Saving /\ Has(Last, ThisPart) /\ ~ save.open
  /\ disk' = [disk EXCEPT ![ThisPart] = [by |-> Last, whole |-> FALSE]]
  /\ save' = [save EXCEPT !.open = TRUE]
  /\ UNCHANGED <<trained, loaded>>

WritePart ==
  /\ Saving /\ save.open
  /\ disk' = [disk EXCEPT ![ThisPart] = [by |-> Last, whole |-> TRUE]]
  /\ NextPart
  /\ UNCHANGED <<trained, loaded>>

SaveCrash ==
  /\ Crashes /\ Saving
  /\ save' = NotSaving
  /\ UNCHANGED <<trained, disk, loaded>>

----------------------------------------------------------------------------
OnDisk(f) == disk[f].by # 0

(* detector.json, and "flash" for a directory without one.                 *)
Tag == IF OnDisk("detector") THEN trained[disk["detector"].by].kind ELSE "flash"

(* load opens every file but the optional ones and the manifest            *)
(* unconditionally; any file it opens must be readable.                    *)
Readable(k) ==
  /\ OnDisk("detector") => disk["detector"].whole
  /\ \A f \in PartsOf(k) \ {"detector"} :
       /\ f \notin Optional \cup {"manifest"} => OnDisk(f)
       /\ OnDisk(f) => disk[f].whole

(* Slip: the detector tag is not compared. *)
LoadAnyTag(want) ==
  /\ ~ Saving
  /\ Readable(want)
  /\ loaded' = [kind  |-> want,
                parts |-> [f \in Parts |-> IF f \in PartsOf(want) THEN disk[f].by ELSE 0]]
  /\ UNCHANGED <<trained, disk, save>>

(* load_detector for the configured detector `want`: another tag, a        *)
(* missing or an unreadable file ends the command.                         *)
Load(want) ==
  /\ ~ Saving
  /\ Tag = want
  /\ Readable(want)
  /\ loaded' = [kind  |-> want,
                parts |-> [f \in Parts |-> IF f \in PartsOf(want) THEN disk[f].by ELSE 0]]
  /\ UNCHANGED <<trained, disk, save>>

BundleNext ==
  \/ \E k \in Kinds : \E extras \in Extras[k] : Train(k, extras)
  \/ SkipPart
  \/ OpenPart
  \/ WritePart
  \/ SaveCrash
  \/ \E want \in Kinds : Load(want)

BundleSpec == BundleInit /\ [][BundleNext]_bundleVars

----------------------------------------------------------------------------
(* The tag is what save_detector writes last: it commits the save.         *)
Committed == disk["detector"] = [by |-> Last, whole |-> TRUE]

(* Whatever was in the directory before, of either detector and of killed  *)
(* saves, once the tag is the last training's, what score and eval load is *)
(* its detector, with every part that it produced (flash.py:274-325,       *)
(* ppt/__init__.py:80-117, detectors/__init__.py:24-28).                   *)
LoadsLastTraining ==
  loaded.kind # "none" /\ Committed =>
    /\ loaded.kind = trained[Last].kind
    /\ \A f \in Parts : Has(Last, f) => loaded.parts[f] = Last

OneKind == \A n, m \in 1..Last : trained[n].kind = trained[m].kind

(* After a killed save too, a bundle of one detector that loads at all is  *)
(* in layers: no part is newer than one that is saved before it.  So the   *)
(* alert thresholds and the manifest are never newer than the model they   *)
(* were fitted with; they may be older (flash.py:277-295).                 *)
NewerPartsFirst ==
  OneKind /\ loaded.kind # "none" =>
    \A i, j \in DOMAIN Order[loaded.kind] :
      LET f == Order[loaded.kind][i]
          g == Order[loaded.kind][j]
      IN  i < j /\ {f, g} \cap Optional = {} => loaded.parts[f] >= loaded.parts[g]

(* tests/test_detector_contract.py:85: "save/load round trip preserves     *)
(* scoring exactly"; so a part the detector does not have is not loaded.   *)
RoundTrip ==
  loaded.kind # "none" =>
    \A f \in Parts : loaded.parts[f] = IF Has(Last, f) THEN Last ELSE 0

(* The training that the mandatory parts of the loaded detector come from; *)
(* Last + 1, which is no training, when they come from several.            *)
Origin ==
  IF loaded.kind = "none" THEN 0
  ELSE LET n == loaded.parts["norm"]
       IN  IF \A f \in PartsOf(loaded.kind) \ Optional : loaded.parts[f] = n
           THEN n ELSE Last + 1

(* The files implement the register, whose content a killed save breaks    *)
(* until the next save comes to its end.                                   *)
Register == INSTANCE BundleRegister WITH
              current <- Last, got <- Origin,
              intact  <- Last = 0 \/ Saving \/ Committed
BundleIsRegister == Register!RegisterSpec
=============================================================================
