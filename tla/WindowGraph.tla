----------------------------- MODULE WindowGraph -----------------------------
(***************************************************************************)
(* The window graphs of the flash detector (graph.py) and the scores of an *)
(* event table that is not stored (FlashDetector.score_events).            *)
(***************************************************************************)
EXTENDS Rows

(* incident_entities: both ends of an event and the Service in front.      *)
Touched(e) == {e.src, e.dst} \cup ({e.svc} \ {NoSvc})

(* build_window_graph: an entity of the table with an event in the window. *)
FlashNodes(R, p) == Entities \cap UNION {Touched(R[i].e) : i \in At(R, p)}

(* Who talks to whom in an event: a request also to the Service in front.  *)
Pairs(e) ==
  {<<e.src, e.dst>>} \cup
  {<<e.src, s>> : s \in IF e.type = "RPC_CALL" THEN {e.svc} \ {NoSvc, e.dst} ELSE {}}

(* Slip: no pair for the Service in front. *)
LinksDirect(R, p) ==
  LET seen == {l \in {<<R[i].e.src, R[i].e.dst>> : i \in At(R, p)} :
                 l[1] # l[2] /\ {l[1], l[2]} \subseteq FlashNodes(R, p)}
  IN  seen \cup {<<l[2], l[1]>> : l \in seen}

(* The edges, each with its reverse (graph.reverse_edges).                 *)
FlashLinks(R, p) ==
  LET seen == {l \in UNION {Pairs(R[i].e) : i \in At(R, p)} :
                 l[1] # l[2] /\ {l[1], l[2]} \subseteq FlashNodes(R, p)}
  IN  seen \cup {<<l[2], l[1]>> : l \in seen}

(* Slip: windows in which the entity only answers are left out. *)
FlashWindowsOut(R, only) ==
  {p \in Yielded(R) : only = Anyone \/ \E i \in At(R, p) : R[i].e.src = only}

(* score_events: with only_entity, the windows where it is at one end.     *)
FlashWindows(R, only) ==
  {p \in Yielded(R) : only = Anyone \/ \E i \in At(R, p) : only \in {R[i].e.src, R[i].e.dst}}

(* The score rows <<window, entity>>: one for each node of such a window.  *)
FlashScores(R, only) == UNION {{p} \X FlashNodes(R, p) : p \in FlashWindows(R, only)}
=============================================================================
