----------------------------- MODULE Evaluation -----------------------------
(***************************************************************************)
(* What `gnnid eval` makes of a stored run (eval.py, perturb.py): a        *)
(* synthetic attack on a benign run, with the scores of its victim before  *)
(* and after, and the truth about an attack run to compare its scores      *)
(* with.                                                                   *)
(***************************************************************************)
EXTENDS WindowGraph, MemoryGraph, Totals

CONSTANTS
  ExfilName,  \* the name that dns_exfil asks for, which is in no entities table
  KubeApi,    \* KUBEAPI_ID
  Injections, \* the number of injected events
  Others      \* the entities whose role is outside the vocabulary

ASSUME EvaluationAssumption ==
  /\ ExfilName \in Nat \ Entities
  /\ KubeApi \in Nat
  /\ Injections \in Nat \ {0}
  /\ {"exfil", "burst"} \subseteq Looks
  /\ Others \subseteq Entities

VARIABLES
  probe,  \* the perturbation under test, with the windows of its victim's scores
  found   \* the result of the labelled detection

evalVars == <<probe, found>>

Pods     == {n \in Entities : TypeOf[n] = "Pod"}
Services == {n \in Entities : TypeOf[n] = "Service"}

Detectors == {"flash", "ppt"}
Scores(det, R, only) == IF det = "flash" THEN FlashScores(R, only) ELSE PptScores(R, only)

Row2 == [pos : Nat, since : Nat, e : KindRecords]
NoProbe == [name |-> "none", victim |-> Anyone, table |-> <<>>, det |-> "none", base |-> {}, pert |-> {}]
NoFind  == [det |-> "none", attacker |-> Anyone, mal |-> {}, pos |-> {}, neg |-> {}, atk |-> {}, auc |-> 0]

EvalTypeOK ==
  /\ probe.name \in {"none", "rewire", "dns_exfil", "sentence_swap", "api_burst"}
  /\ probe.victim \in Pods \cup {Anyone}
  /\ probe.table \in Seq(Row2)
  /\ probe.det \in Detectors \cup {"none"}
  /\ probe.base \subseteq Nat /\ probe.pert \subseteq Nat
  /\ found.det \in Detectors \cup {"none"}
  /\ found.attacker \in Pods \cup {Anyone}
  /\ found.mal \subseteq DOMAIN rows
  /\ found.pos \cup found.neg \cup found.atk \subseteq Yielded(rows) \X Entities

EvalInit == probe = NoProbe /\ found = NoFind

----------------------------------------------------------------------------
SentBy(v)   == {i \in DOMAIN rows : rows[i].e.src = v}
Requests(v) == {i \in SentBy(v) : rows[i].e.type = "RPC_CALL"}
PodsIn      == {v \in Pods : SentBy(v) # {}}

Chosen(name, v, R) ==
  probe' = [NoProbe EXCEPT !.name = name, !.victim = v, !.table = R]

(* The pod's requests go to a Service that is the destination of none.     *)
Rewire(v) ==
  /\ Requests(v) # {}
  /\ LET unused == Services \ {rows[i].e.dst : i \in Requests(v)}
     IN  \/ unused = {} /\ Chosen("rewire", v, rows)
         \/ \E s \in unused :
              Chosen("rewire", v, [i \in DOMAIN rows |->
                IF i \in Requests(v) THEN [rows[i] EXCEPT !.e.dst = s, !.e.svc = s] ELSE rows[i]])

(* Slip: b's events are given to a, then all of a's to b. *)
SwappedInTurn(a, b) ==
  [i \in DOMAIN rows |->
     IF i \in SentBy(a) \cup SentBy(b) THEN [rows[i] EXCEPT !.e.src = b] ELSE rows[i]]

(* Both pods' events with the senders exchanged.                           *)
Swapped(a, b) ==
  [i \in DOMAIN rows |->
     IF i \in SentBy(a) THEN [rows[i] EXCEPT !.e.src = b]
     ELSE IF i \in SentBy(b) THEN [rows[i] EXCEPT !.e.src = a] ELSE rows[i]]

SentenceSwap(a) ==
  /\ a \in PodsIn
  /\ \E b \in PodsIn \ {a} : Chosen("sentence_swap", a, Swapped(a, b))

(* The table with the rows `added` at the places S.                        *)
Woven(S, added) ==
  [j \in 1..Len(rows) + Injections |->
     LET k == Cardinality({s \in S : s < j})
     IN  IF j \in S THEN added[k + 1] ELSE rows[j - k]]

(* Events e are added at the time of the victim's first event and in the   *)
(* next seconds, less than a window; the table is sorted again, in no      *)
(* certain order of equal times.  The last of them may be the last of all. *)
Inject(name, v, e) ==
  \E i \in SentBy(v), S \in SUBSET (1..Len(rows) + Injections) :
    \E added \in [1..Injections -> [pos : {rows[i].pos, rows[i].pos + 1}, since : Offsets, e : {e}]] :
      /\ \A j \in SentBy(v) : i <= j
      /\ Cardinality(S) = Injections
      /\ added[1].pos = rows[i].pos /\ added[1].since = rows[i].since
      /\ \A k \in 1..Injections : added[k].pos = rows[i].pos \/ added[k].since < rows[i].since
      /\ Sorted(Woven(S, added))
      /\ Chosen(name, v, Woven(S, added))

DnsExfil(v) ==
  /\ v \in PodsIn
  /\ Inject("dns_exfil", v,
            [type |-> "DNS_QUERY", src |-> v, dst |-> ExfilName, svc |-> NoSvc, look |-> "exfil"])

(* From a pod that has not called the API server.                          *)
ApiBurst(v) ==
  /\ v \in PodsIn
  /\ \A i \in SentBy(v) : rows[i].e.type # "K8S_API_CALL"
  /\ Inject("api_burst", v,
            [type |-> "K8S_API_CALL", src |-> v, dst |-> KubeApi, svc |-> NoSvc, look |-> "burst"])

(* perturbation_eval: one of PERTURBATIONS applied to the run.             *)
Perturb ==
  /\ probe = NoProbe /\ found = NoFind
  /\ \E v \in Pods : Rewire(v) \/ DnsExfil(v) \/ SentenceSwap(v) \/ ApiBurst(v)
  /\ UNCHANGED found

(* _victim_scores: the windows of the victim's rows.                       *)
VictimWindows(det, R, v) == {r[1] : r \in {s \in Scores(det, R, v) : s[2] = v}}

ScoreVictim(det) ==
  /\ probe # NoProbe /\ probe.det = "none"
  /\ probe' = [probe EXCEPT !.det = det, !.base = VictimWindows(det, rows, probe.victim),
                            !.pert = VictimWindows(det, probe.table, probe.victim)]
  /\ UNCHANGED found

----------------------------------------------------------------------------
InWindow(i) == rows[i].pos \in Yielded(rows)

(* Slip: only what the attack sends. *)
TouchedSources(mal) == {<<rows[i].pos, rows[i].e.src>> : i \in {j \in mal : InWindow(j)}}

(* _malicious_node_windows: the ends of the malicious events.              *)
TouchedBy(mal) ==
  UNION {{rows[i].pos} \X {rows[i].e.src, rows[i].e.dst} : i \in {j \in mal : InWindow(j)}}

(* A score of entity-windows that has ties: the events they take part in.  *)
Score(r) == Cardinality({i \in At(rows, r[1]) : r[2] \in Touched(rows[i].e)})

(* Slip: of a tie every row has the last rank. *)
AucLast(P, N, score) ==
  LET V == P \cup N
      upTo(x) == Cardinality({y \in V : score[y] <= score[x]})
      rank2 == [x \in P |-> 2 * upTo(x)]
  IN  Total(rank2) - Cardinality(P) * (Cardinality(P) + 1)

(* _auc, times twice the number of pairs, of the rows P against N: the     *)
(* ranks are averaged over ties and those of P summed up.                  *)
Auc(P, N, score) ==
  LET V == P \cup N
      ties(x)  == {y \in V : score[y] = score[x]}
      below(x) == Cardinality({y \in V : score[y] < score[x]})
      rank2 == [x \in P |-> 2 * below(x) + Cardinality(ties(x)) + 1]
  IN  Total(rank2) - Cardinality(P) * (Cardinality(P) + 1)

(* labeled_detection on an attack run: malicious are a pod's events within *)
(* the session; the rows of attacker_nodes are those of any entity outside *)
(* the vocabulary.                                                         *)
LabeledDetection(det) ==
  /\ probe = NoProbe /\ found = NoFind
  /\ LET all == Scores(det, rows, Anyone)
     IN  \E attacker \in Pods, lo, hi \in DOMAIN rows :
           LET mal == {i \in lo..hi : attacker \in {rows[i].e.src, rows[i].e.dst}}
               hit == all \cap TouchedBy(mal)
           IN  /\ mal # {}
               /\ found' = [det |-> det, attacker |-> attacker, mal |-> mal, pos |-> hit,
                            neg |-> all \ hit, atk |-> {r \in hit : r[2] \in Others},
                            auc |-> Auc(hit, all \ hit, [r \in all |-> Score(r)])]
  /\ UNCHANGED probe

EvalNext ==
  \/ Perturb
  \/ \E det \in Detectors : ScoreVictim(det) \/ LabeledDetection(det)

----------------------------------------------------------------------------
(* The event is read by the detector: it is in a window, and no sampling   *)
(* takes it out of a memory graph.                                         *)
IsRead(det, R, i) ==
  R[i].pos \in Yielded(R) /\ (det = "ppt" => i \in Sure(R, R[i].pos))

(* Scoring for one entity loses none of its windows (base.py:61-62); the   *)
(* victim has a row, before and after, in every window in which the        *)
(* detector reads of it, so where the attack shows; no pod falls silent    *)
(* under a perturbation; and with flash adding events or retargeting them  *)
(* takes no window of the victim's away, though it may move the end of the *)
(* run and so the tail that is dropped (eval.py:101-116, perturb.py:18-109, *)
(* windows.py:34-35).                                                      *)
VictimRowsComplete ==
  probe.det # "none" =>
    /\ \A v \in PodsIn : \E j \in DOMAIN probe.table : probe.table[j].e.src = v
    /\ LET windows(R) == {r[1] : r \in {s \in Scores(probe.det, R, Anyone) : s[2] = probe.victim}}
           shows(R)   == {R[i].pos : i \in {j \in DOMAIN R :
                            /\ probe.victim \in {R[j].e.src, R[j].e.dst}
                            /\ IsRead(probe.det, R, j)}}
       IN  /\ probe.base = windows(rows) /\ shows(rows) \subseteq probe.base
           /\ probe.pert = windows(probe.table) /\ shows(probe.table) \subseteq probe.pert
           /\ probe.det = "flash" /\ probe.name # "sentence_swap" => probe.base \subseteq probe.pert

(* Of an attack run, every entity-window at an end of a malicious event    *)
(* that the detector reads has a row to be found by, so recall misses no   *)
(* more than the dropped tail and what the cap took out of memory graphs;  *)
(* rows that count as benign although a malicious event touches them are   *)
(* those of Services that only front its requests (eval.py:150-151, 200    *)
(* against graph.py:37-39); and attacker_nodes has the attacker wherever   *)
(* it is read of, if its role is unknown, and besides it only entities it  *)
(* had to do with there (eval.py:203-207).                                 *)
TruthIsFound ==
  found # NoFind =>
    /\ \A i \in found.mal : IsRead(found.det, rows, i) =>
         \A n \in Entities \cap {rows[i].e.src, rows[i].e.dst} : <<rows[i].pos, n>> \in found.pos
    /\ \A r \in found.neg : \A i \in found.mal \cap At(rows, r[1]) :
         r[2] \in Touched(rows[i].e) => TypeOf[r[2]] = "Service" /\ r[2] = rows[i].e.svc
    /\ \A i \in found.mal : IsRead(found.det, rows, i) /\ found.attacker \in Others =>
         <<rows[i].pos, found.attacker>> \in found.atk
    /\ \A r \in found.atk : \E i \in found.mal \cap At(rows, r[1]) :
         {r[2], found.attacker} \subseteq {rows[i].e.src, rows[i].e.dst}

(* The AUC is the chance that a malicious row scores above a benign one,   *)
(* ties half (eval.py:25).                                                 *)
AucIsChance ==
  found # NoFind =>
    found.auc = 2 * Cardinality({d \in found.pos \X found.neg : Score(d[1]) > Score(d[2])})
                  + Cardinality({d \in found.pos \X found.neg : Score(d[1]) = Score(d[2])})

(* The truth is what the scores of an attack run are compared with.        *)
TruthIsScored == TruthIsFound /\ AucIsChance
=============================================================================
