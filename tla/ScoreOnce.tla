----------------------------- MODULE ScoreOnce -----------------------------
(***************************************************************************)
(* What the scoring of a run promises (ppt/score.py): "each entity-window  *)
(* is scored exactly once across a run", the windows in temporal order.    *)
(* The windows are known before the first one is scored.                   *)
(***************************************************************************)
EXTENDS Naturals

CONSTANTS Indices, Entities  \* window indices and entities there may be

VARIABLES
  due,    \* the entity-windows <<w_idx, entity>> to be scored
  scored  \* those that were

onceVars == <<due, scored>>

OnceInit == due = {} /\ scored = {}

(* A window comes up, later than all those before.                         *)
Arrive ==
  \E n \in Indices : \E present \in SUBSET Entities :
    /\ scored = {}
    /\ \A d \in due : d[1] < n
    /\ due' = due \cup ({n} \X present)
    /\ UNCHANGED scored

(* The first window that is due is scored.                                 *)
ScoreFirst ==
  \E n \in {d[1] : d \in due} :
    LET window == {d \in due : d[1] = n}
    IN  /\ \A d \in due : n <= d[1]
        /\ window \cap scored = {}
        /\ due' = due \ window
        /\ scored' = scored \cup window

OnceSafety == OnceInit /\ [][Arrive \/ ScoreFirst]_onceVars
OnceSpec   == OnceSafety /\ WF_onceVars(ScoreFirst)
============================================================================
