------------------------------ MODULE MCBundle ------------------------------
(* Bundle with boosters that come both or not at all, as they are trained  *)
(* from the same labels, and with and without a pre-trained encoder.       *)
EXTENDS Bundle

MCExtras == [k \in Kinds |-> IF k = "flash" THEN {{}, {"xgb", "xgb_w2v"}}
                                            ELSE {{}, {"pretrained"}}]
=============================================================================
