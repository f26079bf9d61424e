------------------------------ MODULE Detection ------------------------------
(***************************************************************************)
(* What is done with a stored run: how its events are described, a pass of *)
(* the ppt encoder to score or to pre-train, or a part of eval.            *)
(***************************************************************************)
EXTENDS PptPass, Evaluation, Describe

detVars == <<passVars, evalVars, descVars>>

Idle == probe = NoProbe /\ found = NoFind /\ said = NoWords /\ seen = NoVectors

DetectionInit == PassInit /\ EvalInit /\ DescribeInit

(* One graph at a time takes a pass; the rest needs no graph.              *)
Rest == task = "built" /\ newest = rows[1].pos
Pass == Idle /\ PassNext /\ UNCHANGED <<evalVars, descVars>>
Eval == Rest /\ said = NoWords /\ seen = NoVectors /\ EvalNext /\ UNCHANGED <<passVars, descVars>>
Tell == Rest /\ Idle /\ DescribeNext /\ UNCHANGED <<passVars, evalVars>>

DetectionSpec == DetectionInit /\ [][Pass \/ Eval \/ Tell]_detVars

DetectionTypeOK == PassTypeOK /\ EvalTypeOK /\ DescribeTypeOK

(* Given the same windows, ppt scores no entity and links no pair that     *)
(* flash does not, in a run, perturbed or not; and it has all of flash's   *)
(* rows and counterparts that come of events no sampling takes out: all    *)
(* the events of a window up to the cap, and beyond it the refused flows   *)
(* (ppt/graph.py:14, 70-85, 89 against graph.py:33-86).                    *)
DetectorsAgree ==
  Rest /\ found = NoFind /\ probe.det = "none" /\ said = NoWords /\ seen = NoVectors =>
    \A R \in {rows, probe.table} :
      LET ppt == PptScores(R, Anyone)
      IN  /\ ppt \subseteq FlashScores(R, Anyone)
          /\ \A p \in Yielded(R) :
               LET G     == Edges(R, p)
                   links == FlashLinks(R, p)
                   talk(a, b) == \E i \in At(R, p) :
                     <<<<p, a>>, i>> \in G.src_of /\ <<<<p, b>>, i>> \in G.dst_of
                   linked(a, b) == a # b /\ (talk(a, b) \/ talk(b, a))
                   pairs == UNION {Pairs(R[i].e) : i \in Sure(R, p)}
               IN  /\ \A i \in Sure(R, p) : {p} \X (Entities \cap Touched(R[i].e)) \subseteq ppt
                   /\ \A a, b \in FlashNodes(R, p) :
                        /\ linked(a, b) => <<a, b>> \in links
                        /\ <<a, b>> \in links /\ (<<a, b>> \in pairs \/ <<b, a>> \in pairs) =>
                             linked(a, b)
=============================================================================
