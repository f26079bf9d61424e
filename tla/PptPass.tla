------------------------------- MODULE PptPass -------------------------------
(***************************************************************************)
(* One pass of the ppt encoder over a memory graph.  To score, messages go *)
(* along all edges; in pre-training some edges are held out first, which   *)
(* the decoders then have to predict (ppt/train.py, _link_loss).  Of a     *)
(* node's vector the model keeps which events have flowed into it.         *)
(***************************************************************************)
EXTENDS MemoryGraph

CONSTANTS
  Layers,            \* model.layers
  HoldOut, HoldBase  \* train.pretrain.holdout_frac = HoldOut / HoldBase

ASSUME PassAssumption ==
  /\ Layers \in Nat \ {0}
  /\ HoldBase \in Nat \ {0} /\ HoldOut \in 0..HoldBase

VARIABLES
  newest, edges,          \* the newest window of the graph, its edges
  task,                   \* "built", then "score" or "pretrain"
  msg, held,              \* the edges that carry messages, and those held out
  seenEvent, seenEntity,  \* the events that have flowed into each node
  depth                   \* the number of layers applied

passVars == <<rows, newest, edges, task, msg, held, seenEvent, seenEntity, depth>>

NoEdges == [r \in Relations |-> {}]

EdgeSet(r) ==
  LET ev == DOMAIN seenEvent
      en == DOMAIN seenEntity
  IN  CASE r \in {"src_of", "dst_of"}           -> SUBSET (en \X ev)
        [] r \in {"rev_src_of", "rev_dst_of"}   -> SUBSET (ev \X en)
        [] r \in {"follows_src", "follows_dst"} -> SUBSET (ev \X ev)
        [] OTHER                                -> SUBSET (en \X en)

PassTypeOK ==
  /\ rows \in Seq(Row) /\ Len(rows) \in 1..MaxRows
  /\ newest \in Yielded(rows)
  /\ task \in {"built", "score", "pretrain"}
  /\ \A graph \in {edges, msg, held} :
       DOMAIN graph = Relations /\ \A r \in Relations : graph[r] \in EdgeSet(r)
  /\ seenEvent \in [EventNodes(rows, newest) -> SUBSET DOMAIN rows]
  /\ seenEntity \in [Copies(rows, newest) -> SUBSET DOMAIN rows]
  /\ depth \in 0..Layers

(* An event node starts with the features of its event, a copy of an       *)
(* entity with its age only (ppt/features.py).                             *)
PassInit ==
  /\ rows \in Tables
  /\ newest \in Yielded(rows)
  /\ edges = Edges(rows, newest)
  /\ task = "built"
  /\ msg = NoEdges /\ held = NoEdges
  /\ seenEvent = [i \in EventNodes(rows, newest) |-> {i}]
  /\ seenEntity = [c \in Copies(rows, newest) |-> {}]
  /\ depth = 0

----------------------------------------------------------------------------
(* The indices of the nodes in the graph's tensors, from 0.                *)
CopyIndex(c) ==
  Cardinality({d \in DOMAIN seenEntity : d[1] < c[1] \/ (d[1] = c[1] /\ d[2] < c[2])})
EventIndex(i) == Cardinality({j \in DOMAIN seenEvent : j < i})

(* Slip: scaled by the greatest index instead of the number of nodes. *)
PairIdByLast(l) == CopyIndex(l[1]) * (Cardinality(DOMAIN seenEvent) - 1) + EventIndex(l[2])

(* The number that stands for a pair <<copy, event>>.                      *)
PairId(l) == CopyIndex(l[1]) * Cardinality(DOMAIN seenEvent) + EventIndex(l[2])

(* The random choices of the edges of a forward relation that stay.        *)
Stays(r) ==
  {S \in SUBSET edges[r] :
     Cardinality(S) = ((HoldBase - HoldOut) * Cardinality(edges[r])) \div HoldBase}

(* Slip: all reverse edges stay. *)
TwinsAll(r, out) == edges[Mirror[r]]

(* The reverse edges that stay when the edges out of r are held out: those *)
(* whose pair is not among them.                                           *)
TwinsStay(r, out) ==
  LET gone == {PairId(o) : o \in out}
  IN  {l \in edges[Mirror[r]] : PairId(<<l[2], l[1]>>) \notin gone}

(* Training has the graph in a batch: _link_loss up to the encoder.        *)
HoldOutLinks ==
  /\ task = "built"
  /\ task' = "pretrain"
  /\ \E kept \in [src_of : Stays("src_of"), dst_of : Stays("dst_of"), recurs : Stays("recurs"),
                  follows_src : Stays("follows_src"), follows_dst : Stays("follows_dst")] :
       LET twins(r) == TwinsStay(r, edges[r] \ kept[r])
       IN  msg' = [r \in Relations |->
                     CASE r = "rev_src_of" -> twins("src_of")
                       [] r = "rev_dst_of" -> twins("dst_of")
                       [] OTHER            -> kept[r]]
  /\ held' = [r \in Relations |-> edges[r] \ msg'[r]]
  /\ UNCHANGED <<rows, newest, edges, seenEvent, seenEntity, depth>>

(* The graph is scored, or a batch of the fine-tuning has it.              *)
UseAllLinks ==
  /\ task = "built"
  /\ task' = "score"
  /\ msg' = edges
  /\ UNCHANGED <<rows, newest, edges, held, seenEvent, seenEntity, depth>>

----------------------------------------------------------------------------
(* The nodes that node x hears along relation r.                           *)
Heard(r, x) == {l[1] : l \in {m \in msg[r] : m[2] = x}}

(* What a node takes up first: from the past.                              *)
Past(i) == seenEvent[i] \cup
             UNION {seenEvent[j] : j \in Heard("follows_src", i) \cup Heard("follows_dst", i)}
Self(c) == seenEntity[c] \cup UNION {seenEntity[d] : d \in Heard("recurs", c)}

(* PPTLayer: first the relations in time, then those between entities and  *)
(* events, each node keeping what it had.                                  *)
Layer ==
  /\ task # "built"
  /\ depth < Layers
  /\ seenEvent' = [i \in DOMAIN seenEvent |->
       Past(i) \cup UNION {Self(c) : c \in Heard("src_of", i) \cup Heard("dst_of", i)}]
  /\ seenEntity' = [c \in DOMAIN seenEntity |->
       Self(c) \cup UNION {Past(i) : i \in Heard("rev_src_of", c) \cup Heard("rev_dst_of", c)}]
  /\ depth' = depth + 1
  /\ UNCHANGED <<rows, newest, edges, task, msg, held>>

PassNext == HoldOutLinks \/ UseAllLinks \/ Layer
PassSpec == PassInit /\ [][PassNext]_passVars

----------------------------------------------------------------------------
(* A link between an entity and an event is held out in both directions or *)
(* carries messages in both, so that no decoder is asked for a link that   *)
(* the encoder has used, and none is kept from the encoder without being   *)
(* asked for (ppt/train.py:69-82).                                         *)
HeldOutBothWays ==
  task = "pretrain" =>
    \A r \in DOMAIN Mirror : \A l \in edges[Mirror[r]] :
      LET twin == <<l[2], l[1]>>
      IN  \/ l \in held[Mirror[r]] /\ twin \in held[r] \ msg[r]
          \/ l \in msg[Mirror[r]] /\ twin \in msg[r] \ held[r]

(* No DNS name is classified with the help of queries for that name,       *)
(* however far their features travel over other events and entities        *)
(* (ppt/graph.py:15-20).                                                   *)
NameStaysBlind ==
  \A c \in DOMAIN seenEntity : \A i \in seenEntity[c] :
    ~ (rows[i].e.type = "DNS_QUERY" /\ rows[i].e.dst = c[2])

(* Nothing flows back in time: what a node has seen is not later than its  *)
(* own window (ppt/graph.py:21-26).                                        *)
NothingLater ==
  /\ \A c \in DOMAIN seenEntity : \A i \in seenEntity[c] : rows[i].pos <= c[1]
  /\ \A j \in DOMAIN seenEvent : \A i \in seenEvent[j] : rows[i].pos <= rows[j].pos

(* Neither leak.                                                           *)
NothingLeaks == NameStaysBlind /\ NothingLater

(* Two layers reach the whole memory: a scored entity has seen every event *)
(* of the graph that it sent, received or fronted, of the windows in which *)
(* it last occurred too, but for the DNS queries that name it              *)
(* (ppt/graph.py:24-26).  What the cap took out is in no graph.            *)
ScoreSeesMemory ==
  task = "score" /\ depth >= 2 =>
    \A c \in Newest(rows, newest) : \A i \in DOMAIN seenEvent :
      LET e == rows[i].e
      IN  c[2] \in Incident(e) /\ (e.type = "DNS_QUERY" => c[2] = e.src) =>
            i \in seenEntity[c]
=============================================================================
