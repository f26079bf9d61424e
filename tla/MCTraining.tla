----------------------------- MODULE MCTraining -----------------------------
(* Four epochs with a patience of two, three and one for the pre-training. *)
EXTENDS Training

MCEpochs   == [s \in Stages |-> IF s = "pretrain" THEN 3 ELSE 4]
MCPatience == [s \in Stages |-> IF s = "pretrain" THEN 1 ELSE 2]
=============================================================================
