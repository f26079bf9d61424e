----------------------------- MODULE MemoryGraph -----------------------------
(***************************************************************************)
(* One memory graph of the ppt detector with its edges (ppt/graph.py,      *)
(* _build_one).  The nodes are the events in the memory of the newest      *)
(* window p that the cap has left and copies <<window, entity>> of the     *)
(* entities they connect; each relation is a set of pairs <<from, to>>.    *)
(***************************************************************************)
EXTENDS Rows, EventCap

CONSTANTS
  MemoryLen,  \* windows.memory
  FlowMemory, \* graph.flow_memory
  MaxEvents,  \* graph.max_events_per_window
  Refused     \* the looks of flows with a verdict other than FORWARDED

ASSUME MemoryGraphAssumption ==
  /\ MemoryLen \in Nat \ {0} /\ FlowMemory \in Nat
  /\ MaxEvents \in Nat \ {0}
  /\ Refused \subseteq Looks

(* The Service in front of a request, unless it is the destination.        *)
Fronting(e) == IF e.type = "RPC_CALL" THEN {e.svc} \ {NoSvc, e.dst} ELSE {}

(* _incident *)
Incident(e) == Entities \cap ({e.src, e.dst} \cup Fronting(e))

(* The events of window p that are always kept, and all that are.          *)
Must(R, p) == {i \in At(R, p) : R[i].e.type = "L4_FLOW" /\ R[i].e.look \in Refused}
CappedAt(R, p) == CapEvents(At(R, p), Must(R, p), MaxEvents)

(* The nodes of the graph of window p.                                     *)
EventNodes(R, p) ==
  {i \in DOMAIN R : R[i].pos <= p /\ p < R[i].pos + MemoryLen /\ i \in CappedAt(R, R[i].pos)}
Copies(R, p) == UNION {{R[i].pos} \X Incident(R[i].e) : i \in EventNodes(R, p)}

(* Edges from the copy of an entity in an event's window to the event.     *)
SrcOf(R, p) ==
  {<<<<R[i].pos, R[i].e.src>>, i>> : i \in EventNodes(R, p)}
DstOf(R, p) ==
  UNION {{<<R[i].pos, n>> : n \in {R[i].e.dst} \cup Fronting(R[i].e)} \X {i} : i \in EventNodes(R, p)}

(* Slip: a query is told to the name that it asks for. *)
RevDstOfAll(R, p) == {<<l[2], l[1]>> : l \in {m \in DstOf(R, p) : m[1] \in Copies(R, p)}}

(* The other direction, except that a DNS query is not told to the name    *)
(* it asks for.                                                            *)
RevDstOf(R, p) ==
  LET copies == Copies(R, p)
  IN  {<<l[2], l[1]>> : l \in {m \in DstOf(R, p) :
                                 m[1] \in copies /\ R[m[2]].e.type # "DNS_QUERY"}}

(* An event follows up to FlowMemory earlier ones of the same window with  *)
(* the same end.                                                           *)
Follows(R, p, end) ==
  LET nodes == EventNodes(R, p)
      same(j) == {i \in nodes : R[i].pos = R[j].pos /\ R[i].e[end] = R[j].e[end]}
  IN  {f \in nodes \X nodes :
         /\ f[1] < f[2]
         /\ f[1] \in same(f[2])
         /\ Cardinality({i \in same(f[2]) : f[1] < i /\ i < f[2]}) < FlowMemory}

(* Slip: only to the next one. *)
RecursNext(R, p) ==
  {c \in Copies(R, p) \X Copies(R, p) :
     /\ c[1][2] = c[2][2] /\ c[1][1] < c[2][1]
     /\ \A q \in c[1][1] + 1 .. c[2][1] - 1 : <<q, c[1][2]>> \notin Copies(R, p)}

(* A copy of an entity is told to all its later copies.                    *)
Recurs(R, p) ==
  LET copies == Copies(R, p)
  IN  {c \in copies \X copies : c[1][2] = c[2][2] /\ c[1][1] < c[2][1]}

Forward   == {"src_of", "dst_of", "follows_src", "follows_dst", "recurs"}
Mirror    == [src_of |-> "rev_src_of", dst_of |-> "rev_dst_of"]
Relations == Forward \cup {Mirror[r] : r \in DOMAIN Mirror}

(* The edges by relation.                                                  *)
Edges(R, p) ==
  LET copies == Copies(R, p)
      srcOf  == {l \in SrcOf(R, p) : l[1] \in copies}
  IN  [src_of      |-> srcOf,
       rev_src_of  |-> {<<l[2], l[1]>> : l \in srcOf},
       dst_of      |-> {l \in DstOf(R, p) : l[1] \in copies},
       rev_dst_of  |-> RevDstOf(R, p),
       follows_src |-> Follows(R, p, "src"),
       follows_dst |-> Follows(R, p, "dst"),
       recurs      |-> Recurs(R, p)]

(* score_mask: the copies in the newest window.                            *)
Newest(R, p) == {c \in Copies(R, p) : c[1] = p}

(* _score_frame and score_memory_graph: the score rows of all windows, or  *)
(* of those in which the one entity has a copy.                            *)
PptScores(R, only) ==
  UNION {Newest(R, p) : p \in {q \in Yielded(R) : only = Anyone \/ <<q, only>> \in Newest(R, q)}}

(* The events of window p that no sampling takes out.                      *)
Sure(R, p) == IF Cardinality(At(R, p)) <= MaxEvents THEN At(R, p) ELSE Must(R, p)
=============================================================================
