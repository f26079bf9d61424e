----------------------------- MODULE Calibration -----------------------------
(***************************************************************************)
(* From node scores to pod alerts (artifacts.py, score.py, score_nodes in  *)
(* flash.py and score_memory_graph in ppt/score.py).  The raw score of a   *)
(* node is 1 - p(true label); it is normalized to its rank among the raw   *)
(* scores of the benign val nodes of the same type, and alerts when the    *)
(* rank reaches threshold_q.  Ranks are fractions, kept exact here.        *)
(***************************************************************************)
EXTENDS Integers, Sequences, FiniteSets

CONSTANTS
  Types,        \* the node types, "Pod" among them
  Top,          \* the raw score 1.0; p(true label) and raw scores are in 0..Top
  Q, QBase,     \* scoring.threshold_q = Q / QBase
  MaxVal,       \* bound on the number of val nodes
  MaxWindows    \* bound on the number of windows the pod is scored in

ASSUME TypesAssumption == "Pod" \in Types
ASSUME TopAssumption == Top \in Nat \ {0}
ASSUME QAssumption == QBase \in Nat \ {0} /\ Q \in 1..QBase
ASSUME BoundsAssumption == MaxVal \in Nat /\ MaxWindows \in Nat

VARIABLES
  val,     \* the val nodes scored so far: type and raw score
  pod,     \* the pod that is scored: "none" before calibration is over, then
           \* "role" or "other", whether its label is in the vocabulary
  scores,  \* the pod's score records, one per window
  row      \* its row of alerts.json

calVars == <<val, pod, scores, row>>

Fractions == [num : Nat, den : Nat \ {0}]
NoRow == [done |-> FALSE, max |-> [num |-> 0, den |-> 1], alert |-> FALSE]

CalTypeOK ==
  /\ val \in Seq([type : Types, raw : 0..Top])
  /\ pod \in {"none", "role", "other"}
  /\ scores \in Seq([raw : 0..Top, norm : Fractions, alert : BOOLEAN])
  /\ row \in [done : BOOLEAN, max : Fractions, alert : BOOLEAN]

CalInit == val = <<>> /\ pod = "none" /\ scores = <<>> /\ row = NoRow

(* score_raw: a node outside the vocabulary is at the top.                 *)
Raw(label, p) == IF label = "other" THEN Top ELSE Top - p

(* _benign_val_norm, one node of a val graph, scored without normalization. *)
ValNode(t, label, p) ==
  /\ pod = "none"
  /\ Len(val) < MaxVal
  /\ val' = Append(val, [type |-> t, raw |-> Raw(label, p)])
  /\ UNCHANGED <<pod, scores, row>>

(* The calibration is over and a pod of some run comes up for scoring.     *)
Calibrated(label) ==
  /\ pod = "none"
  /\ pod' = label
  /\ UNCHANGED <<val, scores, row>>

----------------------------------------------------------------------------
(* quantile_norm_tables: the positions of the scores of one type.          *)
Table(t)    == {i \in DOMAIN val : val[i].type = t}
Below(t, s) == {i \in Table(t) : val[i].raw < s}
UpTo(t, s)  == {i \in Table(t) : val[i].raw <= s}

(* Slips: ties get the upper rank; the ranks above are counted.            *)
NormalizeUpper(t, s) ==
  IF Table(t) = {} THEN [num |-> s, den |-> Top]
  ELSE [num |-> Cardinality(UpTo(t, s)), den |-> Cardinality(Table(t))]

NormalizeAbove(t, s) ==
  IF Table(t) = {} THEN [num |-> s, den |-> Top]
  ELSE [num |-> Cardinality(Table(t) \ Below(t, s)), den |-> Cardinality(Table(t))]

(* artifacts.normalize: the middle of the ranks that tie with s.           *)
Normalize(t, s) ==
  IF Table(t) = {} THEN [num |-> s, den |-> Top]
  ELSE [num |-> Cardinality(Below(t, s)) + Cardinality(UpTo(t, s)),
        den |-> 2 * Cardinality(Table(t))]

(* fit_norm_thresholds, and 1.0 for a type without a table.                *)
Threshold(t) ==
  IF Table(t) = {} THEN [num |-> 1, den |-> 1] ELSE [num |-> Q, den |-> QBase]

AtLeast(a, b) == a.num * b.den >= b.num * a.den

(* Slip: a score equal to the threshold does not alert. *)
IsAlertAbove(t, s) == ~ AtLeast(Threshold(t), Normalize(t, s))

(* apply_thresholds *)
IsAlert(t, s) == AtLeast(Normalize(t, s), Threshold(t))

(* The detector scores the pod in one more window.                         *)
ScoreWindow(p) ==
  /\ pod # "none"
  /\ Len(scores) < MaxWindows
  /\ ~ row.done
  /\ LET s == Raw(pod, p)
     IN  scores' = Append(scores, [raw |-> s, norm |-> Normalize("Pod", s),
                                   alert |-> IsAlert("Pod", s)])
  /\ UNCHANGED <<val, pod, row>>

(* pod_alerts *)
PodAlert ==
  /\ scores # <<>>
  /\ ~ row.done
  /\ \E i \in DOMAIN scores :
       /\ \A j \in DOMAIN scores : AtLeast(scores[i].norm, scores[j].norm)
       /\ row' = [done |-> TRUE, max |-> scores[i].norm,
                  alert |-> \E j \in DOMAIN scores : scores[j].alert]
  /\ UNCHANGED <<val, pod, scores>>

CalNext ==
  \/ \E t \in Types, label \in {"role", "other"}, p \in 0..Top : ValNode(t, label, p)
  \/ \E label \in {"role", "other"} : Calibrated(label)
  \/ \E p \in 0..Top : ScoreWindow(p)
  \/ PodAlert

CalSpec == CalInit /\ [][CalNext]_calVars

----------------------------------------------------------------------------
(* The val nodes of type t that would alert if they were scored again.     *)
BenignAlerts(t) == {i \in Table(t) : IsAlert(t, val[i].raw)}

(* Whatever the distribution of the benign scores, ties included, at most  *)
(* twice the share 1 - threshold_q of them alerts (artifacts.py:38-41).    *)
AlertBudget ==
  \A t \in Types :
    Cardinality(BenignAlerts(t)) * QBase <= 2 * Cardinality(Table(t)) * (QBase - Q)

(* Normalization keeps the order: a window in which the pod is at least as *)
(* anomalous as in one that alerted alerts too, also when both score above *)
(* or below every benign score (artifacts.py:55-60).                       *)
AlertsFollowRawScores ==
  \A i, j \in DOMAIN scores :
    scores[i].raw <= scores[j].raw /\ scores[i].alert => scores[j].alert

(* An unknown workload has the raw score 1.0, and so has every benign val  *)
(* pod outside the vocabulary.  It alerts as long as they are not more     *)
(* than the share 2 * (1 - threshold_q) of the val pods, or there are none *)
(* (labels.py:6-7, artifacts.py:55-60, score.py:24).                       *)
UnknownWorkloadsAlertUnlessCommon ==
  LET common == {k \in Table("Pod") : val[k].raw = Top}
  IN  pod = "other" /\ Cardinality(common) * QBase
                         <= 2 * Cardinality(Table("Pod")) * (QBase - Q) =>
        \A i \in DOMAIN scores : scores[i].alert
=============================================================================
