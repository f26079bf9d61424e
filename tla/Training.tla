------------------------------ MODULE Training ------------------------------
(***************************************************************************)
(* Detector.train after the split: the loops that fit the networks, the    *)
(* FLASH role classifier (flash.train_gnn) or PPT's two stages, pretrain   *)
(* and finetune.  The three loops are the same early stopping around other *)
(* networks: weights stand for the epoch after which they were taken, the  *)
(* loss of an epoch may be anything, "not a number" included.              *)
(***************************************************************************)
EXTENDS SplitCases, Sequences

CONSTANTS
  Epochs,    \* Epochs[stage]: train.max_epochs, train.pretrain.epochs, ...
  Patience,  \* Patience[stage]: train.patience, ...
  MaxLoss,   \* bound on the losses, in units of which Delta make 1e-4
  Delta

Stages == {"gnn", "pretrain", "finetune"}

ASSUME LoopAssumption ==
  /\ Epochs \in [Stages -> Nat]
  /\ Patience \in [Stages -> Nat]
  /\ MaxLoss \in Nat /\ Delta \in Nat

VARIABLES
  stage,    \* the loop that runs, or where Detector.train is outside of them
  hasVal,   \* the val runs yield a graph: there is a val_loader
  losses,   \* vloss of the epochs of this loop
  best,     \* best_val
  bestAt,   \* the epoch of best_state, 0 for None
  misses,   \* the loop's counter, named patience there
  encoder,  \* enc_state: <<epoch>> of the pretrain loop, <<>> for None
  model     \* the epoch whose weights the detector got

loopVars  == <<losses, best, bestAt, misses>>
trainVars == <<stage, hasVal, loopVars, encoder, model>>
allVars   == <<splitVars, trainVars>>

NaN      == MaxLoss + 1
Infinity == MaxLoss + 2 + Delta
Losses   == 0..MaxLoss

TrainingTypeOK ==
  /\ SplitTypeOK
  /\ stage \in {"split", "failed", "over"} \cup Stages
  /\ hasVal \in BOOLEAN
  /\ losses \in Seq(Losses \cup {NaN})
  /\ best \in Losses \cup {Infinity}
  /\ bestAt \in 0..Len(losses)
  /\ misses \in Nat
  /\ encoder \in Seq(Nat) /\ Len(encoder) <= 1
  /\ model \in Nat

TrainingInit ==
  /\ SplitInit
  /\ stage = "split"
  /\ hasVal = FALSE
  /\ losses = <<>> /\ best = Infinity /\ bestAt = 0 /\ misses = 0
  /\ encoder = <<>>
  /\ model = 0

SplitCall == CallTemporalSplit /\ UNCHANGED trainVars

(* The graphs of the train and the val runs are built; a run may yield     *)
(* none.  Without a train graph the train_loader cannot be made.           *)
BuildGraphs(first, trainGraphs, valGraphs) ==
  /\ stage = "split" /\ called
  /\ trainGraphs => cut.train # {}
  /\ valGraphs => cut.val # {}
  /\ stage' = IF trainGraphs THEN first ELSE "failed"
  /\ hasVal' = valGraphs
  /\ UNCHANGED <<splitVars, loopVars, encoder, model>>

Improves(loss) == loss # NaN /\ loss < best - Delta

(* The loop has not come to its break, nor to its last epoch.              *)
GoesOn ==
  /\ stage \in Stages
  /\ Len(losses) < Epochs[stage]
  /\ misses = 0 \/ misses < Patience[stage]

(* Slip: the counter is not set back. *)
EpochCounting ==
  /\ GoesOn
  /\ \E loss \in Losses \cup {NaN} :
       /\ losses' = Append(losses, loss)
       /\ IF Improves(loss)
          THEN best' = loss /\ bestAt' = Len(losses) + 1 /\ UNCHANGED misses
          ELSE misses' = misses + 1 /\ UNCHANGED <<best, bestAt>>
  /\ UNCHANGED <<splitVars, stage, hasVal, encoder, model>>

(* Slip: the state_dict is kept, not a copy of it. *)
EpochNoClone ==
  /\ GoesOn
  /\ \E loss \in Losses \cup {NaN} :
       /\ losses' = Append(losses, loss)
       /\ bestAt' = IF bestAt # 0 \/ Improves(loss) THEN Len(losses) + 1 ELSE 0
       /\ IF Improves(loss) THEN best' = loss /\ misses' = 0
                            ELSE misses' = misses + 1 /\ UNCHANGED best
  /\ UNCHANGED <<splitVars, stage, hasVal, encoder, model>>

(* One epoch of training and the loss after it, over the val graphs or,    *)
(* when there are none, over the train graphs.                             *)
Epoch ==
  /\ GoesOn
  /\ \E loss \in Losses \cup {NaN} :
       /\ losses' = Append(losses, loss)
       /\ IF Improves(loss)
          THEN best' = loss /\ bestAt' = Len(losses) + 1 /\ misses' = 0
          ELSE misses' = misses + 1 /\ UNCHANGED <<best, bestAt>>
  /\ UNCHANGED <<splitVars, stage, hasVal, encoder, model>>

(* best_state, and the weights as they are when there is none.             *)
Kept == IF bestAt # 0 THEN bestAt ELSE Len(losses)

(* Slip: a loop without a best state is not left. *)
LoopOverWithBest ==
  /\ stage \in Stages
  /\ ~ GoesOn /\ bestAt # 0
  /\ stage' = IF stage = "pretrain" THEN "finetune" ELSE "over"
  /\ encoder' = IF stage = "pretrain" THEN <<Kept>> ELSE encoder
  /\ model' = IF stage = "pretrain" THEN model ELSE Kept
  /\ losses' = <<>> /\ best' = Infinity /\ bestAt' = 0 /\ misses' = 0
  /\ UNCHANGED <<splitVars, hasVal>>

(* After the loop: pretrain hands the encoder's weights on to finetune,    *)
(* the other loops end with the weights of the detector.                   *)
LoopOver ==
  /\ stage \in Stages
  /\ ~ GoesOn
  /\ IF stage = "pretrain"
     THEN /\ stage' = "finetune"
          /\ encoder' = <<Kept>>
          /\ losses' = <<>> /\ best' = Infinity /\ bestAt' = 0 /\ misses' = 0
          /\ UNCHANGED model
     ELSE /\ stage' = "over"
          /\ model' = Kept
          /\ UNCHANGED <<encoder, loopVars>>
  /\ UNCHANGED <<splitVars, hasVal>>

TrainingNext ==
  \/ SplitCall
  \/ \E first \in Stages, trainGraphs, valGraphs \in BOOLEAN :
       BuildGraphs(first, trainGraphs, valGraphs)
  \/ Epoch
  \/ LoopOver

(* The process keeps going.                                                *)
TrainingSpec == TrainingInit /\ [][TrainingNext]_allVars /\ WF_allVars(TrainingNext)

----------------------------------------------------------------------------
LeavesLoop == stage \in Stages /\ stage' # stage

(* The weights a loop hands on are the best it has seen: no epoch had a    *)
(* loss lower by more than 1e-4, however slowly the loss drifted, and they *)
(* are of an epoch with a finite loss if there was any (flash.py:87-97,    *)
(* ppt/train.py:160-170, 241-249).                                         *)
KeepsBest ==
  [][LeavesLoop =>
       LET w      == IF stage = "pretrain" THEN encoder'[1] ELSE model'
           finite == {e \in DOMAIN losses : losses[e] # NaN}
       IN  /\ finite # {} => w \in finite
           /\ \A e \in finite : losses[w] <= losses[e] + Delta]_allVars

(* A loop is left after exactly `patience` epochs without a new best, or   *)
(* after its last epoch; it neither gives up on a network that improved    *)
(* within its patience nor trains on (flash.py:91-94).                     *)
Budget == IF Patience[stage] = 0 THEN 1 ELSE Patience[stage]
StopsInTime ==
  [][LeavesLoop =>
       IF Len(losses) < Epochs[stage] THEN Len(losses) - bestAt = Budget
       ELSE Len(losses) - bestAt <= Budget]_allVars

(* Every training comes to an end, whatever the losses are.                *)
TrainingEnds == called ~> stage \in {"failed", "over"}
=============================================================================
