---------------------------- MODULE BundleProofs ----------------------------
(***************************************************************************)
(* Once a save has come to its end the bundle loads as the last training   *)
(* left it; it implements a register that killed saves may break; and the  *)
(* bundle of one detector stays in layers.  In each case the argument is   *)
(* about the position of the save: the mandatory parts before it are of    *)
(* the last training, and the tag, which commits the save, comes last.     *)
(***************************************************************************)
EXTENDS Bundle, TLAPS

Kind(n) == trained[n].kind

(* Order is a sequence without repetition for each kind of detector.       *)
LEMMA OrderFacts ==
  ASSUME NEW k \in {"flash", "ppt"}
  PROVE  /\ Len(Order[k]) \in 1..9
         /\ DOMAIN Order[k] = 1..Len(Order[k])
         /\ \A i \in DOMAIN Order[k] : Order[k][i] \in Parts
         /\ \A i, j \in DOMAIN Order[k] : Order[k][i] = Order[k][j] => i = j
         /\ Order[k][Len(Order[k])] = "detector"
<1>1. CASE k = "flash"
  BY <1>1 DEF Order, Parts, PartsOf
<1>2. CASE k = "ppt"
  BY <1>2 DEF Order, Parts, PartsOf
<1> QED
  BY <1>1, <1>2

(* The parts that loading relies on.                                       *)
LEMMA PartFacts ==
  /\ "w2v" \in PartsOf("flash") \ Optional
  /\ \A k \in {"flash", "ppt"} :
       {"detector", "norm", "manifest"} \subseteq PartsOf(k) \ Optional
  /\ "detector" \in Parts
<1>1. /\ Order["flash"][1] = "w2v" /\ Order["flash"][9] = "detector"
      /\ Order["flash"][6] = "norm" /\ Order["flash"][8] = "manifest"
      /\ DOMAIN Order["flash"] = 1..9
  BY DEF Order
<1>2. /\ Order["ppt"][8] = "detector" /\ Order["ppt"][5] = "norm"
      /\ Order["ppt"][7] = "manifest" /\ DOMAIN Order["ppt"] = 1..8
  BY DEF Order
<1>3. {"w2v", "detector", "norm", "manifest"} \subseteq PartsOf("flash")
  BY <1>1 DEF PartsOf
<1>4. {"detector", "norm", "manifest"} \subseteq PartsOf("ppt")
  BY <1>2 DEF PartsOf
<1> QED
  BY <1>3, <1>4 DEF Parts, Optional

(* Type correctness, one step per action.                                  *)
LEMMA BundleTypeInit == BundleInit => BundleTypeOK
  BY DEF BundleInit, BundleTypeOK, NotSaving, NotLoaded, Last

LEMMA TrainFacts ==
  ASSUME BundleTypeOK, NEW k \in Kinds, NEW extras \in Extras[k], Train(k, extras)
  PROVE  /\ Last' = Last + 1 /\ Last \in Nat
         /\ trained' \in Seq(Detectors)
         /\ trained'[Last'].kind = k /\ k \in {"flash", "ppt"}
         /\ \A n \in 1..Last : trained'[n] = trained[n]
<1>1. [kind |-> k, extras |-> extras] \in Detectors
  BY ExtrasAssumption DEF Detectors
<1> QED
  BY <1>1, KindsAssumption DEF Train, BundleTypeOK, Last

(* What is known of the part that is being saved.                          *)
LEMMA SavingFacts ==
  ASSUME BundleTypeOK, Saving
  PROVE  /\ Last \in Nat \ {0}
         /\ trained[Last].kind \in {"flash", "ppt"}
         /\ save.at \in DOMAIN Order[trained[Last].kind]
         /\ ThisPart \in Parts
<1>1. Last \in Nat \ {0} /\ trained[Last] \in Detectors
  BY DEF BundleTypeOK, Saving, Last
<1>2. trained[Last].kind \in {"flash", "ppt"}
  BY <1>1, KindsAssumption DEF Detectors
<1>3. save.at \in DOMAIN Order[trained[Last].kind]
  BY DEF BundleTypeOK, Saving
<1> QED
  BY <1>1, <1>2, <1>3, OrderFacts DEF ThisPart

LEMMA NextPartFacts ==
  ASSUME BundleTypeOK, Saving, NextPart
  PROVE  /\ save' \in [at : 0..9, open : BOOLEAN]
         /\ save'.at # 0 => save'.at = save.at + 1
                             /\ save'.at \in DOMAIN Order[trained[Last].kind]
         /\ save'.at = 0 => save.at = Len(Order[trained[Last].kind])
         /\ ~ save'.open
<1> DEFINE o == Order[trained[Last].kind]
<1>1. save' = [at |-> IF save.at = Len(o) THEN 0 ELSE save.at + 1, open |-> FALSE]
  BY DEF NextPart
<1>2. Len(o) \in 1..9 /\ DOMAIN o = 1..Len(o) /\ save.at \in DOMAIN o
  BY SavingFacts, OrderFacts
<1> HIDE DEF o
<1>3. /\ save' \in [at : 0..9, open : BOOLEAN]
      /\ save'.at # 0 => save'.at = save.at + 1 /\ save'.at \in DOMAIN o
      /\ save'.at = 0 => save.at = Len(o)
      /\ ~ save'.open
  BY <1>1, <1>2
<1> QED
  BY <1>3 DEF o

LEMMA BundleTypeNext == BundleTypeOK /\ [BundleNext]_bundleVars => BundleTypeOK'
<1> SUFFICES ASSUME BundleTypeOK, [BundleNext]_bundleVars
             PROVE  BundleTypeOK'
  OBVIOUS
<1>1. ASSUME NEW k \in Kinds, NEW extras \in Extras[k], Train(k, extras)
      PROVE  BundleTypeOK'
  <2>1. /\ Last' = Last + 1 /\ Last \in Nat /\ trained' \in Seq(Detectors)
        /\ trained'[Last'].kind = k /\ k \in {"flash", "ppt"}
    BY <1>1, TrainFacts
  <2>2. disk' = disk /\ loaded' = NotLoaded /\ save' = [at |-> 1, open |-> FALSE]
    BY <1>1 DEF Train
  <2>3. disk' \in [Parts -> [by : 0..Last', whole : BOOLEAN]]
    <3>1. 0..Last \subseteq 0..Last'
      BY <2>1
    <3> QED
      BY <2>2, <3>1 DEF BundleTypeOK
  <2>4. loaded' \in [kind : {"none"} \cup Kinds, parts : [Parts -> 0..Last']]
    <3>1. 0 \in 0..Last'
      BY <2>1
    <3> QED
      BY <2>2, <3>1 DEF NotLoaded
  <2>5. 1 \in DOMAIN Order[k]
    BY <2>1, OrderFacts
  <2>6. save' \in [at : 0..9, open : BOOLEAN]
    BY <2>2
  <2>7. save'.at # 0 => Last' # 0 /\ save'.at \in DOMAIN Order[trained'[Last'].kind]
    BY <2>1, <2>2, <2>5
  <2> QED
    BY <2>1, <2>3, <2>4, <2>6, <2>7 DEF BundleTypeOK, Last
<1>2. CASE SkipPart
  <2>1. Saving /\ NextPart /\ UNCHANGED <<trained, disk, loaded>> /\ Last' = Last
    BY <1>2 DEF SkipPart, Last
  <2>2. /\ save' \in [at : 0..9, open : BOOLEAN]
        /\ save'.at # 0 => save'.at \in DOMAIN Order[trained[Last].kind]
    BY <2>1, NextPartFacts
  <2> QED
    BY <2>1, <2>2, SavingFacts DEF BundleTypeOK
<1>3. CASE OpenPart \/ WritePart
  <2>1. Saving /\ trained' = trained /\ loaded' = loaded /\ Last' = Last
    BY <1>3 DEF OpenPart, WritePart, Last
  <2>2. Last \in Nat \ {0} /\ ThisPart \in Parts
    BY <2>1, SavingFacts
  <2>3. \E b \in BOOLEAN : disk' = [disk EXCEPT ![ThisPart] = [by |-> Last, whole |-> b]]
    BY <1>3 DEF OpenPart, WritePart
  <2>4. disk' \in [Parts -> [by : 0..Last, whole : BOOLEAN]]
    BY <2>2, <2>3 DEF BundleTypeOK
  <2>5. /\ save' \in [at : 0..9, open : BOOLEAN]
        /\ save'.at # 0 => save'.at \in DOMAIN Order[trained[Last].kind]
    BY <1>3, <2>1, NextPartFacts DEF OpenPart, WritePart, BundleTypeOK
  <2> QED
    BY <2>1, <2>2, <2>4, <2>5 DEF BundleTypeOK
<1>4. CASE SaveCrash
  BY <1>4 DEF SaveCrash, NotSaving, BundleTypeOK, Last
<1>5. ASSUME NEW want \in Kinds, Load(want)
      PROVE  BundleTypeOK'
  <2>1. /\ trained' = trained /\ disk' = disk /\ save' = save /\ Last' = Last
        /\ loaded' = [kind |-> want,
                      parts |-> [f \in Parts |-> IF f \in PartsOf(want) THEN disk[f].by ELSE 0]]
    BY <1>5 DEF Load, Last
  <2>2. \A f \in Parts : disk[f].by \in 0..Last
    BY DEF BundleTypeOK
  <2>3. Last \in Nat
    BY DEF BundleTypeOK, Last
  <2>4. loaded' \in [kind : {"none"} \cup Kinds, parts : [Parts -> 0..Last]]
    BY <2>1, <2>2, <2>3
  <2> QED
    BY <2>1, <2>4 DEF BundleTypeOK
<1>6. CASE UNCHANGED bundleVars
  BY <1>6 DEF bundleVars, BundleTypeOK, Last
<1> QED
  BY <1>1, <1>2, <1>3, <1>4, <1>5, <1>6 DEF BundleNext

----------------------------------------------------------------------------
(* The parts the save has passed are the last training's; none has been    *)
(* passed, so to speak, after a save that was killed.                      *)
Passed(i) ==
  \/ save.at = 0 /\ Committed
  \/ save.at # 0 /\ (i < save.at \/ (i = save.at /\ save.open))

WrittenByLast(i) ==
  Has(Last, Order[Kind(Last)][i]) => disk[Order[Kind(Last)][i]].by = Last

CompleteInv ==
  /\ BundleTypeOK
  /\ Last # 0 =>
       \A i \in DOMAIN Order[Kind(Last)] : Passed(i) => WrittenByLast(i)
  /\ Saving => ~ Committed /\ loaded.kind = "none"
  /\ LoadsLastTraining
  /\ loaded.kind # "none" => Last # 0

(* A write changes the part at the save's position and no other.           *)
LEMMA WriteFacts ==
  ASSUME BundleTypeOK, OpenPart \/ WritePart
  PROVE  /\ Saving /\ trained' = trained /\ loaded' = loaded /\ Last' = Last
         /\ Last \in Nat \ {0} /\ Kind(Last) \in {"flash", "ppt"}
         /\ save.at \in DOMAIN Order[Kind(Last)]
         /\ disk'[Order[Kind(Last)][save.at]].by = Last
         /\ \A i \in DOMAIN Order[Kind(Last)] :
              i # save.at => disk'[Order[Kind(Last)][i]] = disk[Order[Kind(Last)][i]]
<1>1. Saving /\ trained' = trained /\ loaded' = loaded /\ Last' = Last
  BY DEF OpenPart, WritePart, Last
<1>2. /\ Last \in Nat \ {0} /\ Kind(Last) \in {"flash", "ppt"}
      /\ save.at \in DOMAIN Order[Kind(Last)] /\ ThisPart \in Parts
  BY <1>1, SavingFacts DEF Kind
<1>3. \E b \in BOOLEAN : disk' = [disk EXCEPT ![ThisPart] = [by |-> Last, whole |-> b]]
  BY DEF OpenPart, WritePart
<1>4. disk'[ThisPart].by = Last /\ \A f \in Parts : f # ThisPart => disk'[f] = disk[f]
  BY <1>2, <1>3 DEF BundleTypeOK
<1>5. /\ \A i \in DOMAIN Order[Kind(Last)] : Order[Kind(Last)][i] \in Parts
      /\ \A i \in DOMAIN Order[Kind(Last)] :
           Order[Kind(Last)][i] = Order[Kind(Last)][save.at] => i = save.at
  BY <1>2, OrderFacts
<1> QED
  BY <1>1, <1>2, <1>4, <1>5 DEF ThisPart, Kind

(* The tag is the last training's exactly from the end of its save on.     *)
LEMMA CommitFacts ==
  ASSUME BundleTypeOK, Saving => ~ Committed, SkipPart \/ OpenPart \/ WritePart
  PROVE  /\ Saving' => ~ Committed'
         /\ ~ Saving' => Committed'
<1> DEFINE o == Order[trained[Last].kind]
<1>1. Saving /\ ~ Committed /\ trained' = trained /\ Last' = Last
  BY DEF SkipPart, OpenPart, WritePart, Last
<1>2. /\ Len(o) \in 1..9 /\ DOMAIN o = 1..Len(o) /\ o[Len(o)] = "detector"
      /\ save.at \in DOMAIN o
      /\ ThisPart = "detector" <=> save.at = Len(o)
      /\ trained[Last].kind \in {"flash", "ppt"}
      /\ ThisPart \in Parts
  BY <1>1, SavingFacts, OrderFacts DEF ThisPart
<1>3. Has(Last, "detector")
  BY <1>2, PartFacts DEF Has
<1>4. NextPart => /\ save.at = Len(o) => save'.at = 0
                  /\ save.at # Len(o) => save'.at = save.at + 1
  BY DEF NextPart
<1> HIDE DEF o
<1>5. CASE SkipPart
  <2>1. ThisPart # "detector" /\ NextPart /\ disk' = disk
    BY <1>3, <1>5 DEF SkipPart
  <2>2. save'.at # 0
    BY <1>2, <1>4, <2>1
  <2> QED
    BY <1>1, <2>1, <2>2 DEF Saving, Committed
<1>6. CASE OpenPart
  <2>1. save'.at = save.at
    BY <1>6 DEF OpenPart, BundleTypeOK
  <2>2. disk' = [disk EXCEPT ![ThisPart] = [by |-> Last, whole |-> FALSE]]
    BY <1>6 DEF OpenPart
  <2>3. disk'["detector"] = disk["detector"]
        \/ disk'["detector"] = [by |-> Last, whole |-> FALSE]
    BY <1>2, <2>2, PartFacts DEF BundleTypeOK
  <2>4. [by |-> Last, whole |-> FALSE].whole # [by |-> Last, whole |-> TRUE].whole
    OBVIOUS
  <2>5. ~ Committed'
    BY <1>1, <2>3, <2>4 DEF Committed
  <2> QED
    BY <1>1, <2>1, <2>5 DEF Saving
<1>7. CASE WritePart
  <2>1. NextPart /\ disk' = [disk EXCEPT ![ThisPart] = [by |-> Last, whole |-> TRUE]]
    BY <1>7 DEF WritePart
  <2>2. CASE save.at = Len(o)
    <3>1. disk'["detector"] = [by |-> Last, whole |-> TRUE]
      BY <1>2, <2>1, <2>2 DEF BundleTypeOK
    <3> QED
      BY <1>1, <1>4, <2>1, <2>2, <3>1 DEF Saving, Committed
  <2>3. CASE save.at # Len(o)
    <3>1. disk'["detector"] = disk["detector"]
      BY <1>2, <2>1, <2>3, PartFacts DEF BundleTypeOK
    <3>2. save'.at # 0
      BY <1>2, <1>4, <2>1, <2>3
    <3> QED
      BY <1>1, <3>1, <3>2 DEF Saving, Committed
  <2> QED
    BY <2>2, <2>3
<1> QED
  BY <1>5, <1>6, <1>7

LEMMA CompleteInvNext ==
  ASSUME CompleteInv, [BundleNext]_bundleVars
  PROVE  CompleteInv'
<1>1. BundleTypeOK /\ BundleTypeOK' /\ (Saving => ~ Committed)
  BY BundleTypeNext DEF CompleteInv
<1>2. ASSUME NEW k \in Kinds, NEW extras \in Extras[k], Train(k, extras)
      PROVE  CompleteInv'
  <2>1. save' = [at |-> 1, open |-> FALSE] /\ loaded' = NotLoaded /\ disk' = disk
    BY <1>2 DEF Train
  <2>2. /\ Kind(Last)' \in {"flash", "ppt"} /\ Last' = Last + 1 /\ Last \in Nat
    BY <1>1, <1>2, TrainFacts DEF Kind
  <2>3. \A i \in DOMAIN Order[Kind(Last)'] : ~ Passed(i)'
    BY <2>1, <2>2, OrderFacts DEF Passed
  <2>4. disk["detector"].by \in 0..Last
    BY <1>1, PartFacts DEF BundleTypeOK
  <2>5. ~ Committed'
    BY <2>1, <2>2, <2>4 DEF Committed
  <2> QED
    BY <1>1, <2>1, <2>3, <2>5 DEF CompleteInv, LoadsLastTraining, NotLoaded
<1>3. CASE SkipPart
  <2>1. /\ Saving /\ ~ Has(Last, ThisPart) /\ NextPart /\ trained' = trained
        /\ disk' = disk /\ loaded' = loaded /\ Last' = Last
    BY <1>3 DEF SkipPart, Last
  <2>2. /\ Kind(Last) \in {"flash", "ppt"} /\ save.at \in DOMAIN Order[Kind(Last)]
        /\ DOMAIN Order[Kind(Last)] = 1..Len(Order[Kind(Last)])
        /\ Len(Order[Kind(Last)]) \in 1..9
    BY <1>1, <2>1, SavingFacts, OrderFacts DEF Kind
  <2>3. \A i \in DOMAIN Order[Kind(Last)] : Passed(i)' => Passed(i) \/ i = save.at
    BY <1>1, <2>1, <2>2, NextPartFacts DEF Passed, Kind, Saving
  <2>4. WrittenByLast(save.at)
    BY <2>1 DEF WrittenByLast, ThisPart, Kind
  <2>5. \A i \in DOMAIN Order[Kind(Last)] : Passed(i)' => WrittenByLast(i)
    BY <2>3, <2>4, <1>1, <2>1, SavingFacts DEF CompleteInv
  <2>6. (Saving => ~ Committed)' /\ Committed' = Committed
    BY <1>1, <1>3, <2>1, CommitFacts DEF Committed
  <2> QED
    BY <1>1, <2>1, <2>5, <2>6
    DEF CompleteInv, WrittenByLast, Has, Kind, LoadsLastTraining
<1>4. CASE OpenPart \/ WritePart
  <2>1. /\ Saving /\ trained' = trained /\ loaded' = loaded /\ Last' = Last
        /\ Last \in Nat \ {0} /\ save.at \in DOMAIN Order[Kind(Last)]
        /\ disk'[Order[Kind(Last)][save.at]].by = Last
        /\ \A i \in DOMAIN Order[Kind(Last)] :
             i # save.at => disk'[Order[Kind(Last)][i]] = disk[Order[Kind(Last)][i]]
    BY <1>1, <1>4, WriteFacts
  <2>2. \A i \in DOMAIN Order[Kind(Last)] : Passed(i)' => Passed(i) \/ i = save.at
    <3>1. Kind(Last) \in {"flash", "ppt"}
      BY <1>1, <1>4, WriteFacts
    <3>2. /\ DOMAIN Order[Kind(Last)] = 1..Len(Order[Kind(Last)])
          /\ Len(Order[Kind(Last)]) \in 1..9
      BY <3>1, OrderFacts
    <3>3. CASE OpenPart
      BY <1>1, <2>1, <3>2, <3>3 DEF OpenPart, Passed, BundleTypeOK, Saving
    <3>4. CASE WritePart
      BY <1>1, <2>1, <3>2, <3>4, NextPartFacts DEF WritePart, Passed, Kind, Saving
    <3> QED
      BY <1>4, <3>3, <3>4
  <2>3. ASSUME NEW i \in DOMAIN Order[Kind(Last)], Passed(i)'
        PROVE  WrittenByLast(i)'
    BY <2>1, <2>2, <2>3 DEF CompleteInv, WrittenByLast, Has, Kind
  <2>4. loaded.kind = "none"
    BY <2>1 DEF CompleteInv
  <2>5. (Saving => ~ Committed)'
    BY <1>1, <1>4, CommitFacts
  <2> QED
    BY <1>1, <2>1, <2>3, <2>4, <2>5 DEF CompleteInv, Has, Kind, LoadsLastTraining
<1>5. CASE SaveCrash
  <2>1. /\ Saving /\ ~ Saving' /\ save'.at = 0
        /\ UNCHANGED <<trained, disk, loaded>> /\ Last' = Last
    BY <1>5 DEF SaveCrash, NotSaving, Saving, Last
  <2>2. ~ Committed' /\ Committed' = Committed
    BY <1>1, <2>1 DEF Committed
  <2> QED
    BY <1>1, <2>1, <2>2 DEF CompleteInv, LoadsLastTraining, Passed, Has
<1>6. ASSUME NEW want \in Kinds, Load(want)
      PROVE  CompleteInv'
  <2>1. /\ save.at = 0 /\ trained' = trained /\ disk' = disk /\ save' = save
        /\ Last' = Last /\ Tag = want /\ Readable(want)
        /\ loaded'.kind = want
        /\ \A f \in Parts :
             loaded'.parts[f] = IF f \in PartsOf(want) THEN disk[f].by ELSE 0
    BY <1>6 DEF Load, Last, Saving
  <2>2. Last # 0
    <3>1. SUFFICES ASSUME Last = 0 PROVE FALSE
      OBVIOUS
    <3>2. ~ OnDisk("detector") /\ ~ OnDisk("w2v")
      <4>1. "w2v" \in Parts /\ "detector" \in Parts
        BY PartFacts DEF Parts
      <4>2. \A f \in Parts : disk[f].by \in 0..0
        BY <1>1, <3>1 DEF BundleTypeOK
      <4> QED
        BY <4>1, <4>2 DEF OnDisk
    <3>3. want = "flash"
      BY <2>1, <3>2 DEF Tag
    <3> QED
      BY <2>1, <3>2, <3>3, PartFacts DEF Readable
  <2>3. Last \in Nat \ {0} /\ Kind(Last) \in {"flash", "ppt"}
    <3>1. Last \in Nat \ {0} /\ trained[Last] \in Detectors
      BY <1>1, <2>2 DEF BundleTypeOK, Last
    <3> QED
      BY <3>1, KindsAssumption DEF Kind, Detectors
  <2>4. Committed' = Committed
    BY <2>1 DEF Committed
  <2>5. ASSUME Committed
        PROVE  LoadsLastTraining'
    <3>1. \A f \in PartsOf(Kind(Last)) : Has(Last, f) => disk[f].by = Last
      BY <2>1, <2>2, <2>5 DEF CompleteInv, Passed, WrittenByLast, PartsOf
    <3>2. disk["detector"].by = Last
      BY <2>5 DEF Committed
    <3>3. want = Kind(Last)
      BY <2>1, <2>3, <3>2 DEF Tag, OnDisk, Kind
    <3> QED
      BY <2>1, <3>1, <3>3 DEF LoadsLastTraining, Has, Kind
  <2>6. LoadsLastTraining'
    BY <2>4, <2>5 DEF LoadsLastTraining
  <2>7. \A i \in DOMAIN Order[Kind(Last)] : Passed(i)' => WrittenByLast(i)'
    BY <2>1, <2>2, <2>4 DEF CompleteInv, Passed, WrittenByLast, Has, Kind
  <2> QED
    BY <1>1, <2>1, <2>2, <2>6, <2>7 DEF CompleteInv, Kind, Saving
<1>7. CASE UNCHANGED bundleVars
  BY <1>1, <1>7
  DEF bundleVars, CompleteInv, Passed, WrittenByLast, Has, Kind, Last, LoadsLastTraining,
      Saving, Committed
<1> QED
  BY <1>2, <1>3, <1>4, <1>5, <1>6, <1>7 DEF BundleNext

LEMMA CompleteInvInit == BundleInit => CompleteInv
  BY BundleTypeInit
  DEF BundleInit, CompleteInv, LoadsLastTraining, NotLoaded, NotSaving, Saving, Last

LEMMA CompleteInvHolds == BundleSpec => []CompleteInv
  BY CompleteInvInit, CompleteInvNext, PTL DEF BundleSpec

(* The state of a bundle is always one of its types.                       *)
THEOREM BundleTypeCorrect == BundleSpec => []BundleTypeOK
  BY BundleTypeInit, BundleTypeNext, PTL DEF BundleSpec

(* Once a save has come to its end, whatever detectors were saved to the   *)
(* directory before and however many saves were killed, the bundle loads   *)
(* as the last training's detector.                                        *)
THEOREM BundleLoadsLast == BundleSpec => []LoadsLastTraining
<1>1. CompleteInv => LoadsLastTraining
  BY DEF CompleteInv
<1> QED
  BY <1>1, CompleteInvHolds, PTL

(* The mandatory parts of a loaded detector determine its origin.          *)
LEMMA OriginIsLast ==
  BundleTypeOK /\ LoadsLastTraining /\ Committed /\ loaded.kind # "none" =>
    Origin = Last
<1> SUFFICES ASSUME BundleTypeOK, LoadsLastTraining, Committed, loaded.kind # "none"
             PROVE  Origin = Last
  OBVIOUS
<1>1. Kind(Last) = loaded.kind /\ loaded.kind \in {"flash", "ppt"}
  BY KindsAssumption DEF LoadsLastTraining, BundleTypeOK, Kind
<1>2. \A f \in PartsOf(loaded.kind) \ Optional : loaded.parts[f] = Last
  BY <1>1 DEF LoadsLastTraining, Has, Kind, Parts
<1>3. loaded.parts["norm"] = Last
  BY <1>1, <1>2, PartFacts
<1> QED
  BY <1>2, <1>3 DEF Origin

LEMMA OriginType == BundleTypeOK => Origin \in Nat
<1> SUFFICES ASSUME BundleTypeOK PROVE Origin \in Nat
  OBVIOUS
<1>1. "norm" \in Parts
  BY PartFacts DEF Parts
<1>2. loaded.parts["norm"] \in 0..Last /\ Last \in Nat
  BY <1>1 DEF BundleTypeOK, Last
<1> QED
  BY <1>2 DEF Origin

(* What the abstract register calls intact.                                *)
Intact == Last = 0 \/ Saving \/ Committed

(* The bundle implements the register: every step of the files is a        *)
(* replacement, a break of it, a read of the whole detector, or nothing.   *)
THEOREM BundleImplementsRegister == BundleSpec => BundleIsRegister
<1>1. BundleInit => Register!RegisterInit
  BY DEF BundleInit, Register!RegisterInit, Origin, NotLoaded, Last
<1>2. CompleteInv /\ CompleteInv' /\ [BundleNext]_bundleVars =>
        [Register!Replace \/ Register!Break \/ Register!Get]_<<Last, Origin, Intact>>
  <2> SUFFICES ASSUME CompleteInv, CompleteInv', [BundleNext]_bundleVars
               PROVE  [Register!Replace \/ Register!Break \/ Register!Get]_<<Last, Origin, Intact>>
    OBVIOUS
  <2>1. ASSUME NEW k \in Kinds, NEW extras \in Extras[k], Train(k, extras)
        PROVE  Register!Replace
    <3>1. Saving'
      BY <2>1 DEF Train, Saving
    <3>2. (Last = 0 \/ Saving \/ Committed)' = TRUE
      BY <3>1
    <3>3. Last' = Last + 1 /\ Origin' = 0
      BY <2>1, TrainFacts DEF CompleteInv, Train, Origin, NotLoaded
    <3> QED
      BY <3>2, <3>3 DEF Register!Replace
  <2>2. ASSUME NEW want \in Kinds, Load(want)
        PROVE  Register!Get
    <3>1. /\ loaded'.kind # "none" /\ Last' = Last /\ ~ Saving /\ ~ Saving'
          /\ Committed' = Committed
      BY <2>2, KindsAssumption DEF Load, Last, Saving, Committed
    <3>2. (BundleTypeOK /\ LoadsLastTraining /\ Committed /\ loaded.kind # "none" =>
             Origin = Last)'
      BY OriginIsLast, PTL
    <3>3. (BundleTypeOK => Origin \in Nat)'
      BY OriginType, PTL
    <3>4. Last # 0 /\ Origin' \in Nat
      BY <3>1, <3>3 DEF CompleteInv
    <3>5. Last = 0 \/ Saving \/ Committed => Origin' = Last
      BY <3>1, <3>2, <3>4 DEF CompleteInv
    <3>6. (Last = 0 \/ Saving \/ Committed)' = (Last = 0 \/ Saving \/ Committed)
      BY <3>1
    <3> QED
      BY <3>1, <3>4, <3>5, <3>6 DEF Register!Get
  <2>3. CASE SkipPart \/ OpenPart \/ WritePart
    <3>1. Saving /\ UNCHANGED <<Last, Origin>>
      BY <2>3 DEF SkipPart, OpenPart, WritePart, Last, Origin
    <3>2. Saving' \/ Committed'
      BY <2>3, CommitFacts DEF CompleteInv
    <3>3. Intact /\ Intact'
      BY <3>1, <3>2 DEF Intact
    <3>4. Intact' = Intact
      BY <3>3 DEF Intact
    <3> QED
      BY <3>1, <3>4
  <2>4. CASE SaveCrash
    <3>1. /\ Saving /\ ~ Saving' /\ UNCHANGED <<Last, Origin>>
          /\ Committed' = Committed /\ ~ Committed
      BY <2>4 DEF SaveCrash, NotSaving, Saving, Last, Origin, Committed, CompleteInv
    <3>2. Last # 0
      BY <3>1, SavingFacts DEF CompleteInv
    <3>3. (Last = 0 \/ Saving \/ Committed)' = FALSE
      BY <3>1, <3>2
    <3> QED
      BY <3>1, <3>3 DEF Register!Break
  <2>5. CASE UNCHANGED bundleVars
    BY <2>5 DEF bundleVars, Last, Origin, Intact, Saving, Committed
  <2> QED
    BY <2>1, <2>2, <2>3, <2>4, <2>5 DEF BundleNext
<1> QED
  BY <1>1, <1>2, CompleteInvHolds, PTL
  DEF BundleSpec, BundleIsRegister, Register!RegisterSpec, Register!registerVars, Intact

----------------------------------------------------------------------------
(* Killed saves, one kind of detector: the mandatory parts on disk are     *)
(* ordered by age, and those the save has passed are the newest of all.    *)
Mandatory(k, i) == Order[k][i] \notin Optional

(* Each file was written by a training of a detector that has it.          *)
Owned ==
  \A f \in Parts : disk[f].by # 0 => f \in PartsOf(Kind(disk[f].by))

InLayers(k) ==
  \A i, j \in DOMAIN Order[k] :
    i < j /\ Mandatory(k, i) /\ Mandatory(k, j) =>
      disk[Order[k][i]].by >= disk[Order[k][j]].by

PassedByLast ==
  \A i \in DOMAIN Order[Kind(Last)] :
    Mandatory(Kind(Last), i) /\ (i < save.at \/ (i = save.at /\ save.open)) =>
      disk[Order[Kind(Last)][i]].by = Last

LayerInv ==
  /\ BundleTypeOK
  /\ Owned
  /\ OneKind /\ Last # 0 => InLayers(Kind(Last))
  /\ Saving => PassedByLast
  /\ NewerPartsFirst

(* Word vectors are found only where FLASH was trained.                    *)
LEMMA OnlyFlashHasWord2Vec == "w2v" \notin PartsOf("ppt")
  BY DEF PartsOf, Order

LEMMA LastKind ==
  ASSUME BundleTypeOK, NEW n \in 1..Last
  PROVE  Kind(n) \in {"flash", "ppt"} /\ Kind(n) \in Kinds
<1>1. trained[n] \in Detectors
  BY DEF BundleTypeOK, Last
<1> QED
  BY <1>1, KindsAssumption DEF Kind, Detectors

LEMMA LayerInvInit == BundleInit => LayerInv
<1> SUFFICES ASSUME BundleInit PROVE LayerInv
  OBVIOUS
<1>1. BundleTypeOK
  BY BundleTypeInit
<1>2. Owned
  BY DEF BundleInit, Owned
<1>3. ~ Saving /\ NewerPartsFirst /\ Last = 0
  BY DEF BundleInit, NewerPartsFirst, NotLoaded, NotSaving, Saving, Last
<1> QED
  BY <1>1, <1>2, <1>3 DEF LayerInv

LEMMA LayerInvTrain ==
  ASSUME LayerInv, BundleTypeOK', NEW k \in Kinds, NEW extras \in Extras[k],
         Train(k, extras)
  PROVE  LayerInv'
<1>1. /\ save' = [at |-> 1, open |-> FALSE] /\ loaded' = NotLoaded /\ disk' = disk
  BY DEF Train
<1>2. /\ Last' = Last + 1 /\ Last \in Nat /\ Kind(Last)' = k /\ k \in {"flash", "ppt"}
      /\ \A n \in 1..Last : trained'[n] = trained[n]
  BY TrainFacts DEF LayerInv, Kind
<1>3. PassedByLast'
  <2>1. DOMAIN Order[k] = 1..Len(Order[k])
    BY <1>2, OrderFacts
  <2> QED
    BY <1>1, <1>2, <2>1 DEF PassedByLast, Mandatory
<1>4. NewerPartsFirst'
  BY <1>1 DEF NewerPartsFirst, NotLoaded
<1>5. \A f \in Parts : disk[f].by \in 0..Last
  BY DEF LayerInv, BundleTypeOK
<1>6. Owned'
  BY <1>1, <1>2, <1>5 DEF LayerInv, Owned, Kind
<1>7. ASSUME OneKind'
      PROVE  InLayers(Kind(Last))'
  <2>1. CASE Last = 0
    <3>1. \A i \in DOMAIN Order[k] : disk[Order[k][i]].by = 0
      BY <1>2, <1>5, <2>1, OrderFacts
    <3>2. \A i, j \in DOMAIN Order[k] : disk'[Order[k][i]].by >= disk'[Order[k][j]].by
      BY <1>1, <3>1
    <3> QED
      BY <1>2, <3>2 DEF InLayers
  <2>2. CASE Last # 0
    <3>1. OneKind
      BY <1>2, <1>7 DEF OneKind
    <3>2. Kind(Last) = k
      BY <1>2, <1>7, <2>2 DEF OneKind, Kind
    <3> QED
      BY <1>1, <1>2, <2>2, <3>1, <3>2 DEF LayerInv, InLayers, Mandatory
  <2> QED
    BY <2>1, <2>2
<1> QED
  BY <1>3, <1>4, <1>6, <1>7 DEF LayerInv

LEMMA LayerInvSkip ==
  ASSUME LayerInv, BundleTypeOK', SkipPart
  PROVE  LayerInv'
<1> DEFINE k == Kind(Last)
<1>1. /\ Saving /\ ~ Has(Last, ThisPart) /\ NextPart /\ trained' = trained
      /\ disk' = disk /\ loaded' = loaded /\ Last' = Last
  BY DEF SkipPart, Last
<1>2. /\ k \in {"flash", "ppt"} /\ save.at \in DOMAIN Order[k]
      /\ DOMAIN Order[k] = 1..Len(Order[k]) /\ Len(Order[k]) \in 1..9
  BY <1>1, SavingFacts, OrderFacts DEF Kind, LayerInv
<1>3. ~ Mandatory(k, save.at)
  BY <1>1, <1>2 DEF Has, ThisPart, Mandatory, PartsOf, Kind
<1>4. ASSUME Saving', NEW i \in DOMAIN Order[k], Mandatory(k, i),
             i < save'.at \/ (i = save'.at /\ save'.open)
      PROVE  disk[Order[k][i]].by = Last
  <2>1. save'.at = save.at + 1 /\ ~ save'.open /\ save.at \in Nat
    BY <1>1, <1>2, <1>4, NextPartFacts DEF Saving, Kind, LayerInv
  <2>2. i < save.at
    BY <1>2, <1>3, <1>4, <2>1
  <2> QED
    BY <1>1, <1>4, <2>2 DEF LayerInv, PassedByLast
<1>5. (Saving => PassedByLast)'
  BY <1>1, <1>4 DEF PassedByLast, Mandatory, Kind
<1> QED
  BY <1>1, <1>5
  DEF LayerInv, Owned, OneKind, InLayers, NewerPartsFirst, Mandatory, Kind

LEMMA LayerInvWrite ==
  ASSUME LayerInv, BundleTypeOK', OpenPart \/ WritePart
  PROVE  LayerInv'
<1> DEFINE k == Kind(Last)
           by(i) == disk[Order[k][i]].by
           newBy(i) == disk'[Order[k][i]].by
<1>1. /\ Saving /\ trained' = trained /\ loaded' = loaded /\ Last' = Last
      /\ Last \in Nat \ {0} /\ k \in {"flash", "ppt"}
      /\ save.at \in DOMAIN Order[k]
      /\ newBy(save.at) = Last
      /\ \A i \in DOMAIN Order[k] : i # save.at => newBy(i) = by(i)
  BY WriteFacts DEF LayerInv
<1>2. /\ DOMAIN Order[k] = 1..Len(Order[k]) /\ Len(Order[k]) \in 1..9
      /\ \A i \in DOMAIN Order[k] : Order[k][i] \in Parts
  BY <1>1, OrderFacts
<1>3. \A i \in DOMAIN Order[k] : by(i) \in 0..Last
  BY <1>2 DEF LayerInv, BundleTypeOK
<1>4. \A i \in DOMAIN Order[k] :
        Mandatory(k, i) /\ (i < save.at \/ (i = save.at /\ save.open)) => by(i) = Last
  BY <1>1 DEF LayerInv, PassedByLast
<1>5. save'.at # 0 => save'.at = save.at \/ (save'.at = save.at + 1 /\ ~ save'.open)
  <2>1. CASE OpenPart
    BY <2>1 DEF OpenPart, LayerInv, BundleTypeOK
  <2>2. CASE WritePart
    BY <1>1, <2>2, NextPartFacts DEF WritePart, LayerInv
  <2> QED
    BY <2>1, <2>2
<1>6. Kind(Last)' = k /\ OneKind' = OneKind
  BY <1>1 DEF Kind, OneKind
<1>7. OneKind => \A i, j \in DOMAIN Order[k] :
        i < j /\ Mandatory(k, i) /\ Mandatory(k, j) => by(i) >= by(j)
  BY <1>1 DEF LayerInv, InLayers
<1>8. Owned'
  <2>1. ThisPart = Order[k][save.at] /\ ThisPart \in PartsOf(k) /\ ThisPart \in Parts
    BY <1>1, <1>2 DEF ThisPart, PartsOf, Kind
  <2>2. \E b \in BOOLEAN : disk' = [disk EXCEPT ![ThisPart] = [by |-> Last, whole |-> b]]
    BY DEF OpenPart, WritePart
  <2>3. /\ disk'[ThisPart].by = Last
        /\ \A f \in Parts : f # ThisPart => disk'[f] = disk[f]
    BY <2>1, <2>2 DEF LayerInv, BundleTypeOK
  <2> QED
    BY <1>1, <2>1, <2>3 DEF LayerInv, Owned, Kind
<1> HIDE DEF k, by, newBy
<1>9. ASSUME OneKind, NEW i \in DOMAIN Order[k], NEW j \in DOMAIN Order[k],
             i < j, Mandatory(k, i), Mandatory(k, j)
      PROVE  newBy(i) >= newBy(j)
  BY <1>1, <1>2, <1>3, <1>4, <1>7, <1>9
<1>10. ASSUME save'.at # 0, NEW i \in DOMAIN Order[k], Mandatory(k, i),
              i < save'.at \/ (i = save'.at /\ save'.open)
       PROVE  newBy(i) = Last
  BY <1>1, <1>2, <1>4, <1>5, <1>10
<1>11. OneKind' => InLayers(Kind(Last))'
  BY <1>6, <1>9 DEF newBy, InLayers, Mandatory
<1>12. (Saving => PassedByLast)'
  BY <1>1, <1>6, <1>10 DEF newBy, PassedByLast, Mandatory, Saving
<1>13. NewerPartsFirst'
  BY <1>1, <1>6 DEF LayerInv, NewerPartsFirst
<1> QED
  BY <1>8, <1>11, <1>12, <1>13 DEF LayerInv

LEMMA LayerInvLoad ==
  ASSUME LayerInv, BundleTypeOK', NEW want \in Kinds, Load(want)
  PROVE  LayerInv'
<1>1. /\ trained' = trained /\ disk' = disk /\ ~ Saving' /\ Last' = Last
      /\ Tag = want /\ Readable(want) /\ loaded'.kind = want
      /\ \A f \in Parts :
           loaded'.parts[f] = IF f \in PartsOf(want) THEN disk[f].by ELSE 0
  BY DEF Load, Saving, Last
<1>2. \A f \in Parts : OnDisk(f) => disk[f].by \in 1..Last
  BY DEF LayerInv, BundleTypeOK, OnDisk, Last
<1>3. ASSUME OneKind
      PROVE  want = Kind(Last) /\ Last # 0
  <2>1. PICK f \in Parts : OnDisk(f) /\ Kind(disk[f].by) = want
    <3>1. CASE OnDisk("detector")
      BY <1>1, <3>1, PartFacts DEF Tag, Kind
    <3>2. CASE ~ OnDisk("detector")
      <4>1. want = "flash" /\ OnDisk("w2v") /\ "w2v" \in Parts
        BY <1>1, <3>2, PartFacts DEF Tag, Readable, Parts
      <4>2. "w2v" \in PartsOf(Kind(disk["w2v"].by))
        BY <4>1 DEF LayerInv, Owned, OnDisk
      <4>3. Kind(disk["w2v"].by) \in {"flash", "ppt"}
        BY <1>2, <4>1, LastKind DEF LayerInv
      <4> QED
        BY <4>1, <4>2, <4>3, OnlyFlashHasWord2Vec
    <3> QED
      BY <3>1, <3>2
  <2>2. disk[f].by \in 1..Last /\ Last \in Nat
    BY <1>2, <2>1 DEF LayerInv, BundleTypeOK, Last
  <2>3. Last \in 1..Last
    BY <2>2
  <2> QED
    BY <1>3, <2>1, <2>2, <2>3 DEF OneKind, Kind
<1>4. \A i \in DOMAIN Order[want] :
        loaded'.parts[Order[want][i]] = disk[Order[want][i]].by
  BY <1>1, KindsAssumption, OrderFacts DEF PartsOf
<1>5. OneKind => InLayers(want)
  BY <1>3 DEF LayerInv
<1>6. NewerPartsFirst'
  BY <1>1, <1>4, <1>5 DEF NewerPartsFirst, OneKind, InLayers, Mandatory
<1> QED
  BY <1>1, <1>6 DEF LayerInv, Owned, OneKind, InLayers, Mandatory, Kind

LEMMA LayerInvNext ==
  ASSUME LayerInv, [BundleNext]_bundleVars
  PROVE  LayerInv'
<1>1. BundleTypeOK'
  BY BundleTypeNext DEF LayerInv
<1>2. CASE SaveCrash
  BY <1>1, <1>2
  DEF SaveCrash, NotSaving, Saving, LayerInv, Owned, OneKind, InLayers, NewerPartsFirst,
      Mandatory, Kind, Last
<1>3. CASE UNCHANGED bundleVars
  BY <1>1, <1>3
  DEF bundleVars, LayerInv, Owned, OneKind, InLayers, PassedByLast, NewerPartsFirst,
      Mandatory, Saving, Kind, Last
<1> QED
  BY <1>1, <1>2, <1>3, LayerInvTrain, LayerInvSkip, LayerInvWrite, LayerInvLoad
  DEF BundleNext

(* While its directory serves one kind of detector, a bundle is in layers  *)
(* after any number of killed saves: what loads is never calibrated by,    *)
(* nor labelled with the splits of, a training newer than its model.       *)
THEOREM BundleInLayers == BundleSpec => []NewerPartsFirst
<1>1. LayerInv => NewerPartsFirst
  BY DEF LayerInv
<1>2. LayerInv /\ [BundleNext]_bundleVars => LayerInv'
  BY LayerInvNext
<1> QED
  BY <1>1, <1>2, LayerInvInit, PTL DEF BundleSpec

----------------------------------------------------------------------------
(* When a round trip preserves the detector.  A file on disk was written   *)
(* by a training that has it, and what is loaded is what is on disk.       *)
Brought == \A f \in Parts : disk[f].by # 0 => Has(disk[f].by, f)

SourceInv ==
  /\ CompleteInv
  /\ Brought
  /\ Saving /\ save.open => Has(Last, ThisPart)
  /\ loaded.kind # "none" =>
       \A f \in Parts : loaded.parts[f] = IF f \in PartsOf(loaded.kind) THEN disk[f].by ELSE 0

(* Trainings of one kind have the same optional files, as with the same    *)
(* configuration and boosters every time.                                  *)
SameExtras ==
  \A n, m \in 1..Last : Kind(n) = Kind(m) => trained[n].extras = trained[m].extras

(* No optional file is one of both detectors.                              *)
LEMMA OptionalIsOwn ==
  ASSUME NEW f \in Optional, NEW k \in {"flash", "ppt"}, NEW l \in {"flash", "ppt"},
         f \in PartsOf(k), f \in PartsOf(l)
  PROVE  k = l
<1>1. f \in {"xgb", "xgb_w2v"} => f \notin PartsOf("ppt")
  BY DEF PartsOf, Order
<1>2. f = "pretrained" => f \notin PartsOf("flash")
  BY DEF PartsOf, Order
<1> QED
  BY <1>1, <1>2 DEF Optional

LEMMA SourceInvNext ==
  ASSUME SourceInv, [BundleNext]_bundleVars
  PROVE  SourceInv'
<1>1. CompleteInv' /\ BundleTypeOK /\ (Saving => loaded.kind = "none")
  BY CompleteInvNext DEF SourceInv, CompleteInv
<1>2. ASSUME NEW k \in Kinds, NEW extras \in Extras[k], Train(k, extras)
      PROVE  SourceInv'
  <2>1. /\ Last \in Nat /\ \A n \in 1..Last : trained'[n] = trained[n]
        /\ disk' = disk /\ loaded' = NotLoaded /\ ~ save'.open
    BY <1>1, <1>2, TrainFacts DEF Train
  <2>2. \A f \in Parts : disk[f].by \in 0..Last
    BY <1>1 DEF BundleTypeOK
  <2>3. Brought'
    BY <2>1, <2>2 DEF SourceInv, Brought, Has
  <2> QED
    BY <1>1, <2>1, <2>3 DEF SourceInv, NotLoaded
<1>3. CASE SkipPart
  <2>1. Saving /\ NextPart /\ UNCHANGED <<trained, disk, loaded>> /\ Last' = Last
    BY <1>3 DEF SkipPart, Last
  <2>2. ~ save'.open
    BY <1>1, <2>1, NextPartFacts
  <2> QED
    BY <1>1, <2>1, <2>2 DEF SourceInv, Brought, Has
<1>4. CASE OpenPart \/ WritePart
  <2>1. Saving /\ trained' = trained /\ loaded' = loaded /\ Last' = Last /\ ThisPart \in Parts
    BY <1>1, <1>4, SavingFacts DEF OpenPart, WritePart, Last
  <2>2. Has(Last, ThisPart)
    BY <1>4, <2>1 DEF OpenPart, WritePart, SourceInv
  <2>3. \E b \in BOOLEAN : disk' = [disk EXCEPT ![ThisPart] = [by |-> Last, whole |-> b]]
    BY <1>4 DEF OpenPart, WritePart
  <2>4. \A f \in Parts : disk'[f].by = IF f = ThisPart THEN Last ELSE disk[f].by
    BY <1>1, <2>1, <2>3 DEF BundleTypeOK
  <2>5. Brought'
    BY <2>1, <2>2, <2>4 DEF SourceInv, Brought, Has
  <2>6. save'.open => Has(Last, ThisPart)'
    <3>1. CASE OpenPart
      <4>1. save'.at = save.at
        BY <1>1, <3>1 DEF OpenPart, BundleTypeOK
      <4>2. ThisPart' = ThisPart
        BY <2>1, <4>1 DEF ThisPart
      <4> QED
        BY <2>1, <2>2, <4>2 DEF Has
    <3>2. CASE WritePart
      BY <1>1, <2>1, <3>2, NextPartFacts DEF WritePart
    <3> QED
      BY <1>4, <3>1, <3>2
  <2>7. loaded'.kind = "none"
    BY <1>1, <2>1
  <2> QED
    BY <1>1, <2>5, <2>6, <2>7 DEF SourceInv
<1>5. CASE SaveCrash
  BY <1>1, <1>5 DEF SaveCrash, NotSaving, SourceInv, Brought, Has, Last
<1>6. ASSUME NEW want \in Kinds, Load(want)
      PROVE  SourceInv'
  <2>1. /\ ~ Saving' /\ trained' = trained /\ disk' = disk /\ loaded'.kind = want
        /\ \A f \in Parts :
             loaded'.parts[f] = IF f \in PartsOf(want) THEN disk[f].by ELSE 0
    BY <1>6 DEF Load, Saving
  <2> QED
    BY <1>1, <2>1 DEF SourceInv, Brought, Has
<1>7. CASE UNCHANGED bundleVars
  BY <1>1, <1>7 DEF bundleVars, SourceInv, Brought, Has, Saving, ThisPart, Last
<1> QED
  BY <1>2, <1>3, <1>4, <1>5, <1>6, <1>7 DEF BundleNext

(* Where a round trip does preserve the detector, part by part, those that *)
(* it does not have included: once the save has ended, if no training of   *)
(* its kind had other optional files than the last, whatever was saved in  *)
(* between and however many saves were killed                              *)
(* (tests/test_detector_contract.py:85).                                   *)
THEOREM RoundTripOfSameExtras == BundleSpec => [](Committed /\ SameExtras => RoundTrip)
<1>1. BundleInit => SourceInv
  BY CompleteInvInit DEF BundleInit, SourceInv, Brought, NotLoaded, NotSaving, Saving
<1>2. ASSUME SourceInv, Committed, SameExtras
      PROVE  RoundTrip
  <2> SUFFICES ASSUME loaded.kind # "none", NEW f \in Parts
               PROVE  loaded.parts[f] = IF Has(Last, f) THEN Last ELSE 0
    BY DEF RoundTrip
  <2>1. /\ BundleTypeOK /\ loaded.kind = Kind(Last) /\ Last # 0
        /\ Has(Last, f) => loaded.parts[f] = Last
        /\ loaded.parts[f] = IF f \in PartsOf(Kind(Last)) THEN disk[f].by ELSE 0
    BY <1>2 DEF SourceInv, CompleteInv, LoadsLastTraining, Kind
  <2>2. PICK n : n = disk[f].by
    OBVIOUS
  <2>3. n \in 0..Last /\ Last \in 1..Last
    BY <2>1, <2>2 DEF BundleTypeOK, Last
  <2>4. ASSUME ~ Has(Last, f), f \in PartsOf(Kind(Last)), n # 0
        PROVE  FALSE
    <3>1. f \in Optional /\ f \notin trained[Last].extras
      BY <2>4 DEF Has, Kind
    <3>2. Has(n, f)
      BY <1>2, <2>2, <2>4 DEF SourceInv, Brought
    <3>3. n \in 1..Last /\ f \in PartsOf(Kind(n)) /\ f \in trained[n].extras
      BY <2>3, <2>4, <3>1, <3>2 DEF Has, Kind
    <3>4. Kind(n) = Kind(Last)
      BY <2>1, <2>3, <2>4, <3>1, <3>3, LastKind, OptionalIsOwn
    <3> QED
      BY <1>2, <2>3, <3>1, <3>3, <3>4 DEF SameExtras
  <2> QED
    BY <2>1, <2>2, <2>4
<1> QED
  BY <1>1, <1>2, SourceInvNext, PTL DEF BundleSpec
=============================================================================
