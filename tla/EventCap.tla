------------------------------ MODULE EventCap ------------------------------
(***************************************************************************)
(* _cap_events of ppt/graph.py: which events of a window the ppt detector  *)
(* makes nodes of, when the window has more than graph.max_events_per_window. *)
(***************************************************************************)
EXTENDS Split

(* Slip: evenly spaced from the first, and never the last. *)
SpreadByStep(len, num) == {i \in 0..len - 1 : i % ((len + num - 1) \div num) = 0}

(* numpy.unique(numpy.linspace(0, len - 1, num, dtype=int))                *)
Spread(len, num) ==
  IF num = 1 THEN {0} ELSE {(i * (len - 1)) \div (num - 1) : i \in 0..num - 1}

(* Of the events E the flows that were not forwarded, `must`, and, as far  *)
(* as the cap allows, a sample of the rest.  Events are numbered by time.  *)
CapEvents(E, must, cap) ==
  LET rest == E \ must
      n    == cap - Cardinality(E \cap must)
  IN  IF Cardinality(E) <= cap THEN E
      ELSE IF n <= 0 \/ rest = {} THEN E \cap must
      ELSE (E \cap must) \cup
           {e \in rest : Rank(rest, e) \in Spread(Cardinality(rest), n)}
=============================================================================
