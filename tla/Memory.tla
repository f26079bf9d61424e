------------------------------- MODULE Memory -------------------------------
(***************************************************************************)
(* The memory graphs of the ppt detector (ppt/graph.py) and which of their *)
(* nodes are scored (ppt/score.py).  The graph of a window holds copies of *)
(* the entities of that window and of the windows before it, as far as the *)
(* memory reaches; only the copies of the newest window are scored.        *)
(***************************************************************************)
EXTENDS Windows, EventCap

CONSTANTS
  Entities,   \* the entities of a run
  Incidents,  \* the sets of entities that the events of a timestamp connect
  Memories,   \* values of windows.memory
  Caps        \* values of graph.max_events_per_window

ASSUME MemoryAssumption ==
  /\ Incidents \subseteq SUBSET Entities
  /\ Memories \subseteq Nat \ {0}
  /\ Caps \subseteq Nat

VARIABLES
  incident,  \* the entities that each event connects
  must,      \* the L4 flows that were not forwarded
  memory, cap,  \* arguments
  k,         \* the number of windows whose graph was built
  graphs     \* the graphs yielded so far

memArgs == <<incident, must, memory, cap>>
memVars == <<winVars, memArgs, k, graphs>>

MemoryInit ==
  /\ WindowsInit
  /\ incident \in [events -> Incidents]
  /\ must \in SUBSET events
  /\ memory \in Memories /\ cap \in Caps
  /\ k = 0
  /\ graphs = <<>>

----------------------------------------------------------------------------
(* The events of a window that are made nodes of.                          *)
Capped(E) == CapEvents(E, must, cap)

(* Slip: the index among the windows that were yielded. *)
PositionYielded(i) == i - 1

(* The place of the i-th window in the sequence of all windows, the empty  *)
(* ones included.                                                          *)
Position(i) == RoundHalfEven(out[i].t0 - out[1].t0, stride)

(* The windows in the memory of the i-th.                                  *)
Remembered(i) == {j \in 1..i : Position(j) > Position(i) - memory}

(* Copies(i): the nodes <<position, entity>> of the graph of window i.     *)
Present(i) == UNION {incident[e] : e \in Capped(out[i].events)}
Copies(i)  == UNION {{Position(j)} \X Present(j) : j \in Remembered(i)}

(* The iteration of build_memory_graphs for the next window.  A graph      *)
(* without any node is not yielded.                                        *)
BuildGraph ==
  /\ done
  /\ k < Len(out)
  /\ k' = k + 1
  /\ graphs' =
       IF \A j \in Remembered(k') : Capped(out[j].events) = {} THEN graphs
       ELSE Append(graphs, [w_idx |-> out[k'].w_idx, pos |-> Position(k'),
                            copies |-> Copies(k')])
  /\ UNCHANGED <<winVars, memArgs>>

WindowPhase == WindowStep /\ UNCHANGED <<memArgs, k, graphs>>

MemorySpec ==
  MemoryInit /\ [][WindowPhase \/ BuildGraph]_memVars /\ WF_memVars(WindowPhase \/ BuildGraph)

----------------------------------------------------------------------------
(* Slip: every copy is scored. *)
RecordsOfAll(g) == {<<g.w_idx, c[2]>> : c \in g.copies}

(* score_memory_graph: the records <<w_idx, entity>> of a graph, one for   *)
(* each copy in score_mask.                                                *)
Records(g) == {<<g.w_idx, c[2]>> : c \in {n \in g.copies : n[1] = g.pos}}

(* ppt/score.py:5-6: each entity-window is scored exactly once, the        *)
(* windows in temporal order, and none is left over.                       *)
DueAt(i) == {out[i].w_idx} \X Present(i)
Once == INSTANCE ScoreOnce WITH
          Indices <- UNION {0..t : t \in Times},
          due     <- UNION {DueAt(i) : i \in k + 1..Len(out)},
          scored  <- UNION {Records(graphs[g]) : g \in DOMAIN graphs}
ScoresEachOnce == Once!OnceSpec

(* A gap in the telemetry ages what is remembered: the copies in a graph   *)
(* and their ages go by the time that passed and not by the number of      *)
(* windows that had events (ppt/graph.py:120-129).                         *)
MemoryIsTime ==
  \A g \in DOMAIN graphs :
    LET n          == graphs[g].w_idx + 1
        elapsed(i) == out[n].t0 - out[i].t0
        recent     == {i \in 1..n : elapsed(i) < memory * stride}
    IN  {<<(graphs[g].pos - c[1]) * stride, c[2]>> : c \in graphs[g].copies} =
          UNION {{elapsed(i)} \X Present(i) : i \in recent}

(* The cap cuts a window down to exactly the allowed number of events, or  *)
(* to the flows that are always kept when they are more, and the sample of *)
(* the others reaches from the first to the last one (ppt/graph.py:70-85). *)
CapIsExact ==
  \A i \in DOMAIN out :
    LET E      == out[i].events
        always == E \cap must
        kept   == Capped(E)
        isEnd(e) == (\A f \in E \ must : e <= f) \/ (\A f \in E \ must : f <= e)
    IN  /\ always \subseteq kept
        /\ Cardinality(E) > cap =>
             Cardinality(kept) = IF Cardinality(always) > cap THEN Cardinality(always) ELSE cap
        /\ cap >= Cardinality(always) + 2 =>
             \A e \in E \ must : isEnd(e) => e \in kept
=============================================================================
