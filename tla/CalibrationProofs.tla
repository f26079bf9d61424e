-------------------------- MODULE CalibrationProofs --------------------------
(***************************************************************************)
(* The alert budget and the order of alerts, for every number of val       *)
(* nodes, every threshold_q and every distribution of scores.              *)
(***************************************************************************)
EXTENDS Calibration, FiniteSetTheorems, WellFoundedInduction, TLAPS

(* The parts of a table are finite, and their sizes follow inclusion.      *)
LEMMA TableFacts ==
  ASSUME NEW t, val \in Seq([type : Types, raw : 0..Top])
  PROVE  /\ Table(t) \subseteq 1..Len(val) /\ IsFiniteSet(Table(t))
         /\ \A i \in Table(t) : val[i].raw \in Nat
         /\ Cardinality(Table(t)) \in Nat
         /\ Table(t) # {} => Cardinality(Table(t)) # 0
<1>1. Table(t) \subseteq 1..Len(val)
  BY DEF Table
<1>2. IsFiniteSet(1..Len(val))
  BY FS_Interval
<1>3. IsFiniteSet(Table(t))
  BY <1>1, <1>2, FS_Subset
<1>4. \A i \in Table(t) : val[i].raw \in Nat
  <2> DEFINE Nodes == [type : Types, raw : 0..Top]
  <2>1. \A i \in 1..Len(val) : val[i] \in Nodes
    <3>1. val \in Seq(Nodes)
      OBVIOUS
    <3> HIDE DEF Nodes
    <3> QED
      BY <3>1
  <2>2. \A i \in 1..Len(val) : val[i].raw \in 0..Top
    BY <2>1
  <2> QED
    BY <1>1, <2>2, TopAssumption
<1> QED
  BY <1>1, <1>3, <1>4, FS_CardinalityType, FS_EmptySet

LEMMA RankFacts ==
  ASSUME NEW t, val \in Seq([type : Types, raw : 0..Top]), NEW s \in Nat
  PROVE  /\ Below(t, s) \subseteq Table(t) /\ UpTo(t, s) \subseteq Table(t)
         /\ IsFiniteSet(Below(t, s)) /\ IsFiniteSet(UpTo(t, s))
         /\ Cardinality(Below(t, s)) \in Nat /\ Cardinality(UpTo(t, s)) \in Nat
         /\ Cardinality(Below(t, s)) <= Cardinality(Table(t))
         /\ Cardinality(UpTo(t, s)) <= Cardinality(Table(t))
<1>1. Below(t, s) \subseteq Table(t) /\ UpTo(t, s) \subseteq Table(t)
  BY DEF Below, UpTo
<1> QED
  BY <1>1, TableFacts, FS_Subset, FS_CardinalityType

(* When the table is not empty, a score alerts if its ranks add up to      *)
(* enough.                                                                 *)
LEMMA AlertRule ==
  ASSUME NEW t, NEW s, Table(t) # {}
  PROVE  IsAlert(t, s) <=>
           (Cardinality(Below(t, s)) + Cardinality(UpTo(t, s))) * QBase
             >= Q * (2 * Cardinality(Table(t)))
  BY DEF IsAlert, AtLeast, Normalize, Threshold

(* A score that is not lower has ranks that are not lower.                 *)
LEMMA AlertMonotone ==
  ASSUME val \in Seq([type : Types, raw : 0..Top]),
         NEW t, NEW a \in 0..Top, NEW b \in 0..Top, a <= b, IsAlert(t, a)
  PROVE  IsAlert(t, b)
<1>1. CASE Table(t) = {}
  BY <1>1, TopAssumption DEF IsAlert, AtLeast, Normalize, Threshold
<1>2. CASE Table(t) # {}
  <2>1. a \in Nat /\ b \in Nat
    BY TopAssumption
  <2>2. Below(t, a) \subseteq Below(t, b) /\ UpTo(t, a) \subseteq UpTo(t, b)
    <3>1. \A i \in Table(t) : val[i].raw \in Nat
      BY TableFacts
    <3>2. \A i \in Table(t) : (val[i].raw < a => val[i].raw < b)
                              /\ (val[i].raw <= a => val[i].raw <= b)
      BY <2>1, <3>1
    <3> QED
      BY <3>2 DEF Below, UpTo
  <2> DEFINE la == Cardinality(Below(t, a))  ua == Cardinality(UpTo(t, a))
             lb == Cardinality(Below(t, b))  ub == Cardinality(UpTo(t, b))
             n  == Cardinality(Table(t))
  <2>3. /\ la \in Nat /\ ua \in Nat /\ lb \in Nat /\ ub \in Nat /\ n \in Nat
        /\ la <= lb /\ ua <= ub
    BY <2>1, <2>2, RankFacts, TableFacts, FS_Subset
  <2>4. (la + ua) * QBase >= Q * (2 * n)
    BY <1>2, AlertRule
  <2> HIDE DEF la, ua, lb, ub, n
  <2>5. (la + ua) * QBase <= (lb + ub) * QBase
    BY <2>3, QAssumption
  <2>6. (lb + ub) * QBase >= Q * (2 * n)
    BY <2>3, <2>4, <2>5, QAssumption
  <2> QED
    BY <1>2, <2>6, AlertRule DEF lb, ub, n
<1> QED
  BY <1>1, <1>2

(* Of the scores that alert take the lowest: all that alert are among      *)
(* those that are not below it, and its rank bounds how many there are.    *)
LEMMA Budget ==
  ASSUME NEW t, val \in Seq([type : Types, raw : 0..Top])
  PROVE  Cardinality(BenignAlerts(t)) * QBase
           <= 2 * Cardinality(Table(t)) * (QBase - Q)
<1> DEFINE A == BenignAlerts(t)
           n == Cardinality(Table(t))
<1>1. A \subseteq Table(t) /\ IsFiniteSet(Table(t)) /\ n \in Nat
      /\ \A i \in Table(t) : val[i].raw \in Nat
  BY TableFacts DEF BenignAlerts
<1>2. CASE A = {}
  <2>1. Cardinality(A) = 0
    BY <1>2, FS_EmptySet
  <2> HIDE DEF A, n
  <2>2. 2 * n * (QBase - Q) >= 0
    BY <1>1, QAssumption
  <2>3. Cardinality(A) * QBase = 0
    BY <2>1, QAssumption
  <2> QED
    BY <2>2, <2>3 DEF A, n
<1>3. CASE A # {}
  <2> DEFINE R == {p \in Nat \X Nat : p[1] < p[2]}
             raws == {val[i].raw : i \in A}
  <2>1. IsWellFoundedOn(R, Nat) /\ raws \in SUBSET Nat /\ raws # {}
    BY <1>1, <1>3, NatLessThanWellFounded DEF OpToRel
  <2>2. PICK m \in raws : \A x \in raws : ~ (<<x, m>> \in R)
    BY <2>1, WFMin
  <2>3. PICK i \in A : val[i].raw = m
    BY <2>2
  <2>4. m \in Nat /\ IsAlert(t, m) /\ Table(t) # {}
    BY <1>1, <2>3 DEF BenignAlerts
  <2> DEFINE low == Cardinality(Below(t, m))
             high == Cardinality(UpTo(t, m))
             k == Cardinality(A)
  <2>5. (low + high) * QBase >= Q * (2 * n)
    BY <2>4, AlertRule
  <2>6. low \in Nat /\ high \in Nat /\ low <= n /\ high <= n
    BY <2>4, RankFacts
  <2>7. A \subseteq Table(t) \ Below(t, m)
    <3>1. ASSUME NEW j \in A
          PROVE  ~ (val[j].raw < m)
      BY <1>1, <2>1, <2>2
    <3> QED
      BY <1>1, <3>1 DEF Below
  <2>8. IsFiniteSet(Table(t) \ Below(t, m))
        /\ Cardinality(Table(t) \ Below(t, m)) = n - low
    <3>1. Table(t) \cap Below(t, m) = Below(t, m)
      BY DEF Below
    <3> QED
      BY <1>1, <3>1, FS_Difference
  <2>9. k \in Nat /\ k <= n - low
    BY <2>7, <2>8, FS_Subset, FS_CardinalityType
  <2> HIDE DEF A, n, low, high, k
  <2>10. k * QBase <= (n - low) * QBase
    BY <1>1, <2>6, <2>9, QAssumption
  <2>11. (low + high) * QBase <= (low + n) * QBase
    BY <1>1, <2>6, QAssumption
  <2>12. (n - low) * QBase = 2 * n * QBase - (low + n) * QBase
    BY <1>1, <2>6, QAssumption
  <2>13. 2 * n * (QBase - Q) = 2 * n * QBase - Q * (2 * n)
    BY <1>1, QAssumption
  <2>14. k * QBase \in Int /\ Q * (2 * n) \in Int /\ (low + n) * QBase \in Int
         /\ 2 * n * QBase \in Int /\ (low + high) * QBase \in Int
    BY <1>1, <2>6, <2>9, QAssumption
  <2> QED
    BY <2>5, <2>10, <2>11, <2>12, <2>13, <2>14 DEF A, n, k
<1> QED
  BY <1>2, <1>3

----------------------------------------------------------------------------
(* The invariant: records say what calibration makes of the raw scores.    *)
CalInv ==
  /\ CalTypeOK
  /\ pod = "none" => scores = <<>>
  /\ \A i \in DOMAIN scores : scores[i].alert = IsAlert("Pod", scores[i].raw)

LEMMA FractionFacts ==
  ASSUME CalTypeOK, NEW t, NEW s \in 0..Top
  PROVE  Normalize(t, s) \in Fractions /\ IsAlert(t, s) \in BOOLEAN
<1>1. s \in Nat /\ val \in Seq([type : Types, raw : 0..Top])
  BY TopAssumption DEF CalTypeOK
<1>2. CASE Table(t) = {}
  BY <1>1, <1>2, TopAssumption DEF Normalize, Fractions, IsAlert, AtLeast
<1>3. CASE Table(t) # {}
  <2>1. /\ Cardinality(Below(t, s)) \in Nat /\ Cardinality(UpTo(t, s)) \in Nat
        /\ Cardinality(Table(t)) \in Nat \ {0}
    BY <1>1, <1>3, RankFacts, TableFacts
  <2> QED
    BY <1>3, <2>1 DEF Normalize, Fractions, IsAlert, AtLeast
<1> QED
  BY <1>2, <1>3

LEMMA RecordFacts ==
  ASSUME CalTypeOK
  PROVE  \A i \in DOMAIN scores :
           scores[i].raw \in 0..Top /\ scores[i].norm \in Fractions
<1> DEFINE Records == [raw : 0..Top, norm : Fractions, alert : BOOLEAN]
<1>1. scores \in Seq(Records)
  BY DEF CalTypeOK
<1> HIDE DEF Records
<1>2. \A i \in DOMAIN scores : scores[i] \in Records
  BY <1>1
<1> QED
  BY <1>2 DEF Records

LEMMA RawRange ==
  ASSUME NEW label, NEW p \in 0..Top
  PROVE  Raw(label, p) \in 0..Top
  BY TopAssumption DEF Raw

LEMMA CalInvNext == CalInv /\ [CalNext]_calVars => CalInv'
<1> SUFFICES ASSUME CalInv, [CalNext]_calVars
             PROVE  CalInv'
  OBVIOUS
<1> USE DEF CalInv
<1>1. ASSUME NEW t \in Types, NEW label \in {"role", "other"}, NEW p \in 0..Top,
             ValNode(t, label, p)
      PROVE  CalInv'
  <2>1. [type |-> t, raw |-> Raw(label, p)] \in [type : Types, raw : 0..Top]
    BY RawRange
  <2>2. /\ val' = Append(val, [type |-> t, raw |-> Raw(label, p)])
        /\ pod' = pod /\ scores' = scores /\ row' = row /\ scores = <<>>
    BY <1>1 DEF ValNode
  <2>3. val' \in Seq([type : Types, raw : 0..Top])
    BY <2>1, <2>2 DEF CalTypeOK
  <2> QED
    BY <2>2, <2>3 DEF CalTypeOK
<1>2. ASSUME NEW label \in {"role", "other"}, Calibrated(label)
      PROVE  CalInv'
  BY <1>2 DEF Calibrated, CalTypeOK, IsAlert, Normalize, Threshold, Table, Below, UpTo
<1>3. ASSUME NEW p \in 0..Top, ScoreWindow(p)
      PROVE  CalInv'
  <2> DEFINE s == Raw(pod, p)
             record == [raw |-> s, norm |-> Normalize("Pod", s),
                        alert |-> IsAlert("Pod", s)]
             Records == [raw : 0..Top, norm : Fractions, alert : BOOLEAN]
  <2>1. /\ scores' = Append(scores, record)
        /\ val' = val /\ pod' = pod /\ row' = row /\ pod # "none"
    BY <1>3 DEF ScoreWindow
  <2>2. record \in Records /\ record.raw = s /\ record.alert = IsAlert("Pod", s)
    BY RawRange, FractionFacts
  <2>3. scores \in Seq(Records)
    BY DEF CalTypeOK
  <2>4. \A r : IsAlert("Pod", r)' = IsAlert("Pod", r)
    BY <2>1 DEF IsAlert, Normalize, Threshold, Table, Below, UpTo
  <2> HIDE DEF record, Records
  <2>5. /\ scores' \in Seq(Records) /\ Len(scores') = Len(scores) + 1
        /\ DOMAIN scores = 1..Len(scores) /\ DOMAIN scores' = 1..Len(scores')
        /\ Len(scores) \in Nat
        /\ scores'[Len(scores) + 1] = record
        /\ \A i \in 1..Len(scores) : scores'[i] = scores[i]
    BY <2>1, <2>2, <2>3
  <2>6. \A i \in DOMAIN scores' : scores'[i].alert = IsAlert("Pod", scores'[i].raw)
    BY <2>2, <2>5
  <2>7. CalTypeOK'
    BY <2>1, <2>5 DEF CalTypeOK, Records
  <2> QED
    BY <2>1, <2>4, <2>6, <2>7
<1>4. CASE PodAlert
  <2>1. /\ val' = val /\ pod' = pod /\ scores' = scores
        /\ \E i \in DOMAIN scores :
             row' = [done |-> TRUE, max |-> scores[i].norm,
                     alert |-> \E j \in DOMAIN scores : scores[j].alert]
    BY <1>4 DEF PodAlert
  <2>2. \A i \in DOMAIN scores : scores[i].norm \in Fractions
    BY RecordFacts
  <2>3. row' \in [done : BOOLEAN, max : Fractions, alert : BOOLEAN]
    BY <2>1, <2>2
  <2>4. \A r : IsAlert("Pod", r)' = IsAlert("Pod", r)
    BY <2>1 DEF IsAlert, Normalize, Threshold, Table, Below, UpTo
  <2> QED
    BY <2>1, <2>3, <2>4 DEF CalTypeOK
<1>5. CASE UNCHANGED calVars
  BY <1>5 DEF calVars, CalTypeOK, IsAlert, Normalize, Threshold, Table, Below, UpTo
<1> QED
  BY <1>1, <1>2, <1>3, <1>4, <1>5 DEF CalNext

LEMMA CalInvHolds == CalSpec => []CalInv
<1>1. CalInit => CalInv
  <2>1. NoRow \in [done : BOOLEAN, max : Fractions, alert : BOOLEAN]
    BY DEF NoRow, Fractions
  <2> QED
    BY <2>1 DEF CalInit, CalInv, CalTypeOK
<1> QED
  BY <1>1, CalInvNext, PTL DEF CalSpec

(* At most twice the nominal share of the benign val nodes alerts.         *)
THEOREM AlertBudgetHolds == CalSpec => []AlertBudget
<1>1. CalInv => AlertBudget
  BY Budget DEF CalInv, CalTypeOK, AlertBudget
<1> QED
  BY <1>1, CalInvHolds, PTL

(* A pod's windows alert in the order of their raw scores.                 *)
THEOREM AlertsAreMonotone == CalSpec => []AlertsFollowRawScores
<1>1. CalInv => AlertsFollowRawScores
  <2> SUFFICES ASSUME CalInv, NEW i \in DOMAIN scores, NEW j \in DOMAIN scores,
                      scores[i].raw <= scores[j].raw, scores[i].alert
               PROVE  scores[j].alert
    BY DEF AlertsFollowRawScores
  <2>1. scores[i].raw \in 0..Top /\ scores[j].raw \in 0..Top
    BY RecordFacts DEF CalInv
  <2>2. IsAlert("Pod", scores[i].raw)
    BY DEF CalInv
  <2>3. IsAlert("Pod", scores[j].raw)
    BY <2>1, <2>2, AlertMonotone DEF CalInv, CalTypeOK
  <2> QED
    BY <2>3 DEF CalInv
<1> QED
  BY <1>1, CalInvHolds, PTL

----------------------------------------------------------------------------
(* Unknown workloads: their records are at the top.                        *)
UnknownInv == pod = "other" => \A i \in DOMAIN scores : scores[i].raw = Top

LEMMA UnknownInvHolds == CalSpec => []UnknownInv
<1>1. CalInit => UnknownInv
  BY DEF CalInit, UnknownInv
<1>2. CalInv /\ UnknownInv /\ [CalNext]_calVars => UnknownInv'
  <2> SUFFICES ASSUME CalInv, UnknownInv, [CalNext]_calVars PROVE UnknownInv'
    OBVIOUS
  <2>1. scores \in Seq([raw : 0..Top, norm : Fractions, alert : BOOLEAN])
    BY DEF CalInv, CalTypeOK
  <2>2. ASSUME NEW p \in 0..Top, ScoreWindow(p) PROVE UnknownInv'
    <3>1. PICK r : r = [raw |-> Raw(pod, p), norm |-> Normalize("Pod", Raw(pod, p)),
                        alert |-> IsAlert("Pod", Raw(pod, p))]
      OBVIOUS
    <3>2. scores' = Append(scores, r) /\ pod' = pod
      BY <2>2, <3>1 DEF ScoreWindow
    <3>3. \A i \in DOMAIN scores' :
            \/ i \in DOMAIN scores /\ scores'[i] = scores[i]
            \/ scores'[i] = r
      BY <2>1, <3>2
    <3>4. pod = "other" => r.raw = Top
      BY <3>1 DEF Raw
    <3> QED
      BY <3>2, <3>3, <3>4 DEF UnknownInv
  <2>3. ASSUME NEW label \in {"role", "other"}, Calibrated(label) PROVE UnknownInv'
    BY <2>3 DEF Calibrated, CalInv, UnknownInv
  <2>4. ASSUME pod' = pod, scores' = scores PROVE UnknownInv'
    BY <2>4 DEF UnknownInv
  <2> QED
    BY <2>2, <2>3, <2>4 DEF CalNext, ValNode, PodAlert, calVars
<1> QED
  BY <1>1, <1>2, CalInvHolds, PTL DEF CalSpec

LEMMA TopAlerts ==
  ASSUME val \in Seq([type : Types, raw : 0..Top]), NEW common,
         common = {k \in Table("Pod") : val[k].raw = Top},
         Cardinality(common) * QBase <= 2 * Cardinality(Table("Pod")) * (QBase - Q)
  PROVE  IsAlert("Pod", Top)
<1>1. CASE Table("Pod") = {}
  BY <1>1, TopAssumption DEF IsAlert, AtLeast, Normalize, Threshold
<1>2. CASE Table("Pod") # {}
  <2>1. PICK T : T = Table("Pod")
    OBVIOUS
  <2>2. IsFiniteSet(T) /\ Cardinality(T) \in Nat
        /\ \A i \in T : val[i].raw \in 0..Top
    <3>1. \A i \in DOMAIN val : val[i].raw \in 0..Top
      <4> SUFFICES ASSUME NEW i \in DOMAIN val PROVE val[i].raw \in 0..Top
        OBVIOUS
      <4> DEFINE Records == [type : Types, raw : 0..Top]
      <4>1. val \in Seq(Records)
        OBVIOUS
      <4> HIDE DEF Records
      <4>2. val[i] \in Records
        BY <4>1
      <4> QED
        BY <4>2 DEF Records
    <3> QED
      BY <2>1, <3>1, TableFacts DEF Table
  <2>3. UpTo("Pod", Top) = T
    BY <2>1, <2>2, TopAssumption DEF UpTo
  <2>4. PICK B : B = Below("Pod", Top)
    OBVIOUS
  <2>5. B = T \ common /\ common \subseteq T
    BY <2>1, <2>2, <2>4, TopAssumption DEF Below
  <2>6. IsFiniteSet(B) /\ IsFiniteSet(common) /\ B \cap common = {} /\ B \cup common = T
    BY <2>2, <2>5, FS_Subset
  <2>7. Cardinality(B) \in Nat /\ Cardinality(common) \in Nat
    BY <2>6, FS_CardinalityType
  <2>8. Cardinality(T) = Cardinality(B) + Cardinality(common)
    <3>1. Cardinality(B \cap common) = 0
      BY <2>6, FS_EmptySet
    <3>2. Cardinality(B \cup common) = Cardinality(B) + Cardinality(common)
                                        - Cardinality(B \cap common)
      BY <2>6, FS_Union
    <3>3. Cardinality(B \cup common) = Cardinality(T)
      BY <2>6, Zenon
    <3> QED
      BY <2>7, <3>1, <3>2, <3>3
  <2>9. PICK b \in Nat : b = Cardinality(B)
    BY <2>7
  <2>10. PICK c \in Nat : c = Cardinality(common)
    BY <2>7
  <2>11. PICK n \in Nat : n = Cardinality(T) /\ n = b + c
    BY <2>2, <2>8, <2>9, <2>10
  <2>12. c * QBase <= 2 * n * (QBase - Q)
    BY <2>1, <2>10, <2>11
  <2>13. (b + n) * QBase >= Q * (2 * n)
    <3>1. QBase \in Nat /\ Q \in Nat
      BY QAssumption
    <3>2. (b + n) * QBase = 2 * n * QBase - c * QBase
      <4>1. b + n = 2 * n - c
        BY <2>11
      <4> QED
        BY <3>1, <4>1
    <3>3. 2 * n * (QBase - Q) = 2 * n * QBase - Q * (2 * n)
      BY <3>1
    <3>4. c * QBase \in Nat /\ 2 * n * QBase \in Nat /\ Q * (2 * n) \in Nat
      BY <3>1
    <3> QED
      <4>1. PICK x \in Nat : x = c * QBase
        BY <3>4
      <4>2. PICK y \in Nat : y = 2 * n * QBase
        BY <3>4
      <4>3. PICK z \in Nat : z = Q * (2 * n)
        BY <3>4
      <4>4. x <= y - z /\ (b + n) * QBase = y - x
        BY <2>12, <3>2, <3>3, <4>1, <4>2, <4>3
      <4> QED
        BY <4>3, <4>4
  <2> QED
    BY <1>2, <2>1, <2>3, <2>4, <2>9, <2>11, <2>13, AlertRule
<1> QED
  BY <1>1, <1>2

(* An unknown workload alerts in every window, unless benign pods outside  *)
(* the vocabulary are more than twice the nominal share of the val pods,   *)
(* for every table and every threshold: its raw score is the top one, so   *)
(* only the pods that tie with it count against it (artifacts.py:55-60).   *)
THEOREM UnknownsAlert == CalSpec => []UnknownWorkloadsAlertUnlessCommon
<1>1. CalInv /\ UnknownInv => UnknownWorkloadsAlertUnlessCommon
  BY TopAlerts DEF CalInv, CalTypeOK, UnknownInv, UnknownWorkloadsAlertUnlessCommon
<1> QED
  BY <1>1, CalInvHolds, UnknownInvHolds, PTL
=============================================================================
