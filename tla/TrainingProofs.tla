--------------------------- MODULE TrainingProofs ---------------------------
(***************************************************************************)
(* temporal_split partitions every list of runs in temporal order and      *)
(* leaves a run to train on, when the fractions sum to less than one half. *)
(* For losses of any kind and any number of epochs, the training loops     *)
(* hand on the best weights they have seen and stop in time.  The          *)
(* invariant ties the loop's three variables to the losses so far.         *)
(***************************************************************************)
EXTENDS Training, SplitLemmas

(* The invariant: the result, once there is one, is that of the call.      *)
SplitInv ==
  /\ SplitTypeOK
  /\ called => cut = TemporalSplit(ids, v, t, D)

LEMMA SplitArguments ==
  ASSUME SplitTypeOK
  PROVE  /\ ids \in SUBSET Nat /\ IsFiniteSet(ids)
         /\ v \in Nat /\ t \in Nat /\ D \in Nat \ {0} /\ 2 * (v + t) < D
<1>1. ids \in SUBSET Times /\ v \in 0..D /\ t \in 0..D /\ 2 * (v + t) < D
  BY DEF SplitTypeOK
<1>2. IsFiniteSet(ids)
  BY <1>1, TimesAssumption, FS_Subset
<1> QED
  BY <1>1, <1>2, TimesAssumption, DAssumption

LEMMA SplitInvInit == SplitInit => SplitInv
<1> SUFFICES ASSUME SplitInit PROVE SplitInv
  OBVIOUS
<1>1. called = FALSE /\ ~ called
  BY DEF SplitInit
<1>2. SplitTypeOK
  BY <1>1 DEF SplitInit, SplitTypeOK, NoCut
<1> QED
  BY <1>1, <1>2 DEF SplitInv

LEMMA SplitInvNext ==
  ASSUME SplitInv, [CallTemporalSplit]_splitVars
  PROVE  SplitInv'
<1>1. CASE CallTemporalSplit
  <2>1. /\ ids' = ids /\ v' = v /\ t' = t /\ called' = TRUE
        /\ cut' = TemporalSplit(ids, v, t, D)
    BY <1>1 DEF CallTemporalSplit
  <2>2. /\ ids \in SUBSET Nat /\ IsFiniteSet(ids)
        /\ v \in Nat /\ t \in Nat /\ D \in Nat \ {0} /\ 2 * (v + t) < D
    BY SplitArguments DEF SplitInv
  <2>3. cut'.train \in SUBSET ids /\ cut'.val \in SUBSET ids /\ cut'.test \in SUBSET ids
    BY <2>1, <2>2, SplitDisjoint
  <2>4. cut' \in [train : SUBSET Times, val : SUBSET Times, test : SUBSET Times]
    BY <2>1, <2>3 DEF TemporalSplit, SplitInv, SplitTypeOK
  <2> QED
    BY <2>1, <2>4 DEF SplitInv, SplitTypeOK
<1>2. CASE UNCHANGED splitVars
  BY <1>2 DEF splitVars, SplitInv, SplitTypeOK
<1> QED
  BY <1>1, <1>2

(* What the invariant says of the result.                                  *)
LEMMA SplitInvMeans == SplitInv => SplitIsSound
<1> SUFFICES ASSUME SplitInv, called
             PROVE  SplitIsSound
  BY DEF SplitIsSound, SplitIsPartition, SplitIsTemporal, TrainIsNeverEmpty
<1>1. cut = TemporalSplit(ids, v, t, D)
  BY DEF SplitInv
<1>2. /\ ids \in SUBSET Nat /\ IsFiniteSet(ids)
      /\ v \in Nat /\ t \in Nat /\ D \in Nat \ {0} /\ 2 * (v + t) < D
  BY SplitArguments DEF SplitInv
<1>3. CASE ids # {}
  <2>1. /\ cut.train \cup cut.val \cup cut.test = ids
        /\ cut.train \cap cut.val = {}
        /\ cut.train \cap cut.test = {}
        /\ cut.val \cap cut.test = {}
        /\ \A a \in cut.train, b \in cut.val \cup cut.test : a < b
        /\ \A a \in cut.val, b \in cut.test : a < b
        /\ cut.train # {}
    BY <1>1, <1>2, <1>3, SplitFacts
  <2> QED
    BY <2>1 DEF SplitIsSound, SplitIsPartition, SplitIsTemporal, TrainIsNeverEmpty
<1>4. CASE ids = {}
  <2>1. cut.train = {} /\ cut.val = {} /\ cut.test = {}
    BY <1>1, <1>4 DEF TemporalSplit, Slice
  <2> QED
    BY <1>4, <2>1 DEF SplitIsSound, SplitIsPartition, SplitIsTemporal, TrainIsNeverEmpty
<1> QED
  BY <1>3, <1>4

(* Every split of a list of runs, whatever its length, partitions it, in   *)
(* the order of time, with a run to train on if there is a run at all,     *)
(* when val_frac + test_frac is below one half (dataset.temporal_split).   *)
THEOREM TemporalSplitCorrect == SplitSpec => []SplitIsSound
<1>1. SplitInv /\ [CallTemporalSplit]_splitVars => SplitInv'
  BY SplitInvNext
<1> QED
  BY <1>1, SplitInvInit, SplitInvMeans, PTL DEF SplitSpec

----------------------------------------------------------------------------
(* `best_val` is within Delta of every loss, `patience` counts from it.    *)
BestInv ==
  /\ bestAt = 0 => /\ best = Infinity
                   /\ \A e \in DOMAIN losses : losses[e] = NaN
  /\ bestAt # 0 => /\ best = losses[bestAt] /\ best \in Losses
                   /\ \A e \in DOMAIN losses :
                        losses[e] # NaN => best <= losses[e] + Delta
  /\ misses = Len(losses) - bestAt
  /\ stage \in Stages => misses <= Budget
  /\ stage = "split" => misses = 0

TrainingInv == SplitInv /\ TrainingTypeOK /\ BestInv

(* A number improves on the initial value of best_val.                     *)
LEMMA ImprovesFacts ==
  ASSUME TrainingTypeOK, NEW loss \in Losses \cup {NaN}
  PROVE  /\ Improves(loss) => loss \in Losses /\ loss < best - Delta
         /\ best = Infinity /\ loss \in Losses => Improves(loss)
         /\ ~ Improves(loss) /\ loss # NaN => loss \in Losses /\ best <= loss + Delta
         /\ Losses \subseteq Nat /\ best \in Nat /\ Delta \in Nat
         /\ \A x \in Losses : x # NaN
<1>1. MaxLoss \in Nat /\ Delta \in Nat
  BY LoopAssumption
<1> QED
  BY <1>1 DEF Improves, TrainingTypeOK, Losses, NaN, Infinity

LEMMA TrainingInvInit == TrainingInit => TrainingInv
<1> SUFFICES ASSUME TrainingInit PROVE TrainingInv
  OBVIOUS
<1>1. SplitInv
  BY SplitInvInit DEF TrainingInit
<1>2. /\ stage = "split" /\ hasVal = FALSE /\ losses = <<>> /\ best = Infinity
      /\ bestAt = 0 /\ misses = 0 /\ encoder = <<>> /\ model = 0
  BY DEF TrainingInit
<1>3. stage \notin Stages /\ Len(losses) = 0 /\ DOMAIN losses = {}
  BY <1>2 DEF Stages
<1>4. TrainingTypeOK
  <2>1. losses \in Seq(Losses \cup {NaN}) /\ encoder \in Seq(Nat) /\ Len(encoder) <= 1
    BY <1>2
  <2>2. best \in Losses \cup {Infinity} /\ bestAt \in 0..Len(losses) /\ misses \in Nat
    BY <1>2, <1>3
  <2> QED
    BY <1>1, <1>2, <2>1, <2>2 DEF TrainingTypeOK, SplitInv
<1>5. BestInv
  BY <1>2, <1>3 DEF BestInv
<1> QED
  BY <1>1, <1>4, <1>5 DEF TrainingInv

LEMMA EpochInv ==
  ASSUME TrainingInv, Epoch
  PROVE  TrainingTypeOK' /\ BestInv'
<1>1. /\ GoesOn /\ stage \in Stages
      /\ UNCHANGED <<splitVars, stage, hasVal, encoder, model>>
  BY DEF Epoch, GoesOn
<1>2. PICK loss \in Losses \cup {NaN} :
        /\ losses' = Append(losses, loss)
        /\ IF Improves(loss)
           THEN best' = loss /\ bestAt' = Len(losses) + 1 /\ misses' = 0
           ELSE misses' = misses + 1 /\ UNCHANGED <<best, bestAt>>
  BY DEF Epoch
<1>3. /\ losses \in Seq(Losses \cup {NaN}) /\ bestAt \in 0..Len(losses)
      /\ misses \in Nat /\ best \in Losses \cup {Infinity} /\ Len(losses) \in Nat
  BY DEF TrainingInv, TrainingTypeOK
<1>4. /\ Len(losses') = Len(losses) + 1
      /\ losses' \in Seq(Losses \cup {NaN})
      /\ losses'[Len(losses) + 1] = loss
      /\ \A e \in DOMAIN losses : losses'[e] = losses[e]
      /\ DOMAIN losses = 1..Len(losses) /\ DOMAIN losses' = 1..Len(losses) + 1
  BY <1>2, <1>3
<1>5. /\ Improves(loss) => loss \in Losses /\ loss < best - Delta
      /\ best = Infinity /\ loss \in Losses => Improves(loss)
      /\ ~ Improves(loss) /\ loss # NaN => loss \in Losses /\ best <= loss + Delta
      /\ Losses \subseteq Nat /\ best \in Nat /\ Delta \in Nat
      /\ \A x \in Losses : x # NaN
  BY ImprovesFacts DEF TrainingInv
<1>6. TrainingTypeOK'
  <2>1. best' \in Losses \cup {Infinity} /\ bestAt' \in 0..Len(losses') /\ misses' \in Nat
    BY <1>2, <1>3, <1>4, <1>5
  <2> QED
    BY <1>1, <1>4, <2>1 DEF TrainingInv, TrainingTypeOK, SplitTypeOK, splitVars
<1>7. misses' = Len(losses') - bestAt'
  BY <1>2, <1>3, <1>4 DEF TrainingInv, BestInv
<1>8. misses' <= Budget'
  <2>1. Patience[stage] \in Nat
    BY <1>1, LoopAssumption
  <2>2. misses' = 0 \/ misses' = misses + 1
    BY <1>2
  <2> QED
    BY <1>1, <1>3, <2>1, <2>2 DEF GoesOn, Budget
<1>9. stage' \in Stages /\ stage' # "split"
  BY <1>1 DEF Stages
<1>10. CASE Improves(loss)
  <2>1. bestAt' = Len(losses) + 1 /\ best' = loss /\ best' = losses'[bestAt']
    BY <1>2, <1>4, <1>10
  <2>2. ASSUME NEW e \in DOMAIN losses', losses'[e] # NaN
        PROVE  best' <= losses'[e] + Delta
    <3>1. CASE e = Len(losses) + 1
      BY <1>4, <1>5, <1>10, <2>1, <3>1
    <3>2. CASE e \in DOMAIN losses
      <4>1. losses'[e] = losses[e] /\ losses[e] \in Losses
        BY <1>3, <1>4, <2>2, <3>2
      <4>2. bestAt # 0 /\ best <= losses[e] + Delta
        BY <2>2, <3>2, <4>1 DEF TrainingInv, BestInv
      <4> QED
        <5> DEFINE l == losses[e]
        <5>1. l \in Nat /\ loss \in Nat /\ best \in Nat /\ Delta \in Nat
          BY <1>5, <1>10, <4>1
        <5>2. loss < best - Delta /\ best <= l + Delta
          BY <1>5, <1>10, <4>2
        <5> HIDE DEF l
        <5>3. loss <= l + Delta
          BY <5>1, <5>2
        <5> QED
          BY <2>1, <4>1, <5>3 DEF l
    <3> QED
      BY <1>4, <3>1, <3>2
  <2> QED
    BY <1>3, <1>5, <1>6, <1>7, <1>8, <1>9, <1>10, <2>1, <2>2 DEF BestInv
<1>11. CASE ~ Improves(loss)
  <2>1. bestAt' = bestAt /\ best' = best
    BY <1>2, <1>11
  <2>2. CASE bestAt = 0
    <3>1. best = Infinity /\ loss = NaN
      BY <1>5, <1>11, <2>2 DEF TrainingInv, BestInv
    <3>2. \A e \in DOMAIN losses' : losses'[e] = NaN
      BY <1>4, <2>2, <3>1 DEF TrainingInv, BestInv
    <3> QED
      BY <1>6, <1>7, <1>8, <1>9, <2>1, <2>2, <3>1, <3>2 DEF TrainingInv, BestInv
  <2>3. CASE bestAt # 0
    <3>1. best' = losses'[bestAt'] /\ best' \in Losses
      BY <1>3, <1>4, <2>1, <2>3 DEF TrainingInv, BestInv
    <3>2. \A e \in DOMAIN losses' : losses'[e] # NaN => best' <= losses'[e] + Delta
      BY <1>4, <1>5, <1>11, <2>1, <2>3 DEF TrainingInv, BestInv
    <3> QED
      BY <1>6, <1>7, <1>8, <1>9, <2>1, <2>3, <3>1, <3>2 DEF BestInv
  <2> QED
    BY <2>2, <2>3
<1> QED
  BY <1>6, <1>10, <1>11

LEMMA TrainingInvNext ==
  ASSUME TrainingInv, [TrainingNext]_allVars
  PROVE  TrainingInv'
<1>1. SplitInv'
  <2>1. [CallTemporalSplit]_splitVars
    BY DEF TrainingNext, allVars, SplitCall, BuildGraphs, Epoch, LoopOver, splitVars
  <2> QED
    BY <2>1, SplitInvNext DEF TrainingInv
<1>2. CASE SplitCall
  <2>1. UNCHANGED trainVars /\ SplitTypeOK'
    BY <1>1, <1>2 DEF SplitCall, SplitInv
  <2> QED
    BY <1>1, <2>1
    DEF TrainingInv, TrainingTypeOK, BestInv, trainVars, loopVars, Budget
<1>3. ASSUME NEW first \in Stages, NEW g \in BOOLEAN, NEW h \in BOOLEAN,
             BuildGraphs(first, g, h)
      PROVE  TrainingInv'
  <2>1. /\ stage' \in {"failed"} \cup Stages /\ hasVal' \in BOOLEAN
        /\ stage = "split"
        /\ UNCHANGED <<losses, best, bestAt, misses, encoder, model>>
    BY <1>3 DEF BuildGraphs, loopVars
  <2>2. TrainingTypeOK'
    <3>1. SplitTypeOK'
      BY <1>1 DEF SplitInv
    <3> QED
      BY <2>1, <3>1 DEF TrainingInv, TrainingTypeOK
  <2>3. misses' = 0 /\ stage' # "split" /\ (stage' \in Stages => misses' <= Budget')
    <3>1. misses' = 0 /\ stage' # "split"
      BY <2>1 DEF TrainingInv, BestInv, Stages
    <3>2. ASSUME stage' \in Stages PROVE Budget' \in Nat
      <4>1. Patience[stage'] \in Nat
        BY <3>2, LoopAssumption
      <4> QED
        BY <4>1 DEF Budget
    <3> QED
      BY <3>1, <3>2
  <2>4. BestInv'
    BY <2>1, <2>3 DEF TrainingInv, BestInv
  <2> QED
    BY <1>1, <2>2, <2>4 DEF TrainingInv
<1>4. CASE Epoch
  BY <1>1, <1>4, EpochInv DEF TrainingInv
<1>5. CASE LoopOver
  <2>1. Kept \in Nat
    BY DEF TrainingInv, TrainingTypeOK, Kept
  <2>2. CASE stage = "pretrain"
    <3>1. /\ stage' = "finetune" /\ encoder' = <<Kept>> /\ losses' = <<>>
          /\ best' = Infinity /\ bestAt' = 0 /\ misses' = 0
          /\ UNCHANGED <<hasVal, model>>
      BY <1>5, <2>2 DEF LoopOver
    <3>2. TrainingTypeOK'
      BY <1>1, <2>1, <3>1 DEF TrainingInv, TrainingTypeOK, SplitInv, Stages
    <3>3. Budget' \in Nat
      <4>1. Patience["finetune"] \in Nat
        BY LoopAssumption DEF Stages
      <4> QED
        BY <3>1, <4>1 DEF Budget
    <3>4. BestInv'
      BY <3>1, <3>3 DEF BestInv
    <3> QED
      BY <1>1, <3>2, <3>4 DEF TrainingInv
  <2>3. CASE stage # "pretrain"
    <3>1. /\ stage' = "over" /\ model' = Kept
          /\ UNCHANGED <<encoder, losses, best, bestAt, misses, hasVal>>
      BY <1>5, <2>3 DEF LoopOver, loopVars
    <3>2. TrainingTypeOK'
      BY <1>1, <2>1, <3>1 DEF TrainingInv, TrainingTypeOK, SplitInv
    <3>3. BestInv'
      BY <3>1 DEF TrainingInv, BestInv, Stages
    <3> QED
      BY <1>1, <3>2, <3>3 DEF TrainingInv
  <2> QED
    BY <2>2, <2>3
<1>6. CASE UNCHANGED allVars
  BY <1>1, <1>6
  DEF allVars, trainVars, loopVars, TrainingInv, TrainingTypeOK, BestInv, SplitInv, Budget
<1> QED
  BY <1>2, <1>3, <1>4, <1>5, <1>6 DEF TrainingNext

LEMMA TrainingInvHolds == TrainingSpec => []TrainingInv
<1>1. TrainingInv /\ [TrainingNext]_allVars => TrainingInv'
  BY TrainingInvNext
<1> QED
  BY <1>1, TrainingInvInit, PTL DEF TrainingSpec

(* A loop is left by the action LoopOver only.                             *)
LEMMA LeavingIsLoopOver ==
  ASSUME [TrainingNext]_allVars, LeavesLoop
  PROVE  LoopOver
BY DEF TrainingNext, allVars, trainVars, LeavesLoop, SplitCall, BuildGraphs, Epoch, Stages

(* Every reachable state of a training is well typed.                      *)
THEOREM TrainingTypeCorrect == TrainingSpec => []TrainingTypeOK
<1>1. TrainingInv => TrainingTypeOK
  BY DEF TrainingInv
<1> QED
  BY <1>1, TrainingInvHolds, PTL

(* The split that a training makes is a partition in the order of time     *)
(* with a run to train on if there is a run at all.                        *)
THEOREM TrainingSplits ==
  TrainingSpec => []SplitIsSound
<1>1. TrainingInv => SplitIsSound
  BY SplitInvMeans DEF TrainingInv
<1> QED
  BY <1>1, TrainingInvHolds, PTL

(* The weights that a loop hands on are the best it has seen, up to Delta, *)
(* for every sequence of losses.                                           *)
THEOREM LoopsKeepBest == TrainingSpec => KeepsBest
<1>1. ASSUME TrainingInv, [TrainingNext]_allVars, LeavesLoop
      PROVE  LET w      == IF stage = "pretrain" THEN encoder'[1] ELSE model'
                 finite == {e \in DOMAIN losses : losses[e] # NaN}
             IN  /\ finite # {} => w \in finite
                 /\ \A e \in finite : losses[w] <= losses[e] + Delta
  <2> DEFINE w      == IF stage = "pretrain" THEN encoder'[1] ELSE model'
             finite == {e \in DOMAIN losses : losses[e] # NaN}
  <2>1. w = Kept
    BY <1>1, LeavingIsLoopOver DEF LoopOver
  <2>2. CASE bestAt = 0
    <3>1. finite = {}
      BY <1>1, <2>2 DEF TrainingInv, BestInv
    <3> QED
      BY <3>1
  <2>3. CASE bestAt # 0
    <3>1. w = bestAt /\ bestAt \in DOMAIN losses
      BY <1>1, <2>1, <2>3 DEF Kept, TrainingInv, TrainingTypeOK
    <3>2. losses[w] = best /\ best \in Losses /\ best # NaN
      BY <1>1, <2>3, <3>1, LoopAssumption DEF TrainingInv, BestInv, Losses, NaN
    <3>3. w \in finite
      BY <3>1, <3>2
    <3>4. \A e \in finite : losses[w] <= losses[e] + Delta
      BY <1>1, <2>3, <3>2 DEF TrainingInv, BestInv
    <3> QED
      BY <3>3, <3>4
  <2> QED
    BY <2>2, <2>3
<1>2. TrainingInv /\ [TrainingNext]_allVars =>
        [LeavesLoop =>
           LET w      == IF stage = "pretrain" THEN encoder'[1] ELSE model'
               finite == {e \in DOMAIN losses : losses[e] # NaN}
           IN  /\ finite # {} => w \in finite
               /\ \A e \in finite : losses[w] <= losses[e] + Delta]_allVars
  BY <1>1
<1> QED
  BY <1>2, TrainingInvHolds, PTL DEF TrainingSpec, KeepsBest

(* No loop gives up before its patience is used up, nor trains on after.   *)
THEOREM LoopsStopInTime == TrainingSpec => StopsInTime
<1>1. ASSUME TrainingInv, [TrainingNext]_allVars, LeavesLoop
      PROVE  IF Len(losses) < Epochs[stage] THEN Len(losses) - bestAt = Budget
             ELSE Len(losses) - bestAt <= Budget
  <2>1. LoopOver /\ stage \in Stages
    BY <1>1, LeavingIsLoopOver DEF LeavesLoop
  <2>2. ~ GoesOn
    BY <2>1 DEF LoopOver
  <2>3. /\ misses = Len(losses) - bestAt /\ misses \in Nat /\ misses <= Budget
        /\ Len(losses) \in Nat /\ Epochs[stage] \in Nat /\ Patience[stage] \in Nat
    BY <1>1, <2>1, LoopAssumption DEF TrainingInv, BestInv, TrainingTypeOK
  <2> QED
    BY <2>1, <2>2, <2>3 DEF GoesOn, Budget
<1>2. TrainingInv /\ [TrainingNext]_allVars =>
        [LeavesLoop =>
           IF Len(losses) < Epochs[stage] THEN Len(losses) - bestAt = Budget
           ELSE Len(losses) - bestAt <= Budget]_allVars
  BY <1>1
<1> QED
  BY <1>2, TrainingInvHolds, PTL DEF TrainingSpec, StopsInTime
=============================================================================
