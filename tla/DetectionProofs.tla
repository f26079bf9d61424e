----------------------------- MODULE DetectionProofs -----------------------------
(***************************************************************************)
(* What a pass of the ppt encoder may never do, for every table of events, *)
(* every length of memory and any number of layers; what one detector  *)
(* sees of a table and the other does not; what eval finds in their        *)
(* scores; and what the feature vectors tell, for vocabularies of every    *)
(* size.                                                                   *)
(***************************************************************************)
EXTENDS Detection, FiniteSetTheorems, WellFoundedInduction, TLAPS

LEMMA RelationNames ==
  Relations = {"src_of", "dst_of", "follows_src", "follows_dst", "recurs",
               "rev_src_of", "rev_dst_of"}
  BY DEF Relations, Forward, Mirror

(* The columns of a row.                                                   *)
LEMMA RowFacts ==
  ASSUME NEW R \in Seq(Row), NEW i \in DOMAIN R
  PROVE  /\ R[i].pos \in Nat /\ R[i].pos \in Positions /\ i \in Nat
         /\ R[i].e \in Kinds
         /\ R[i].e.src \in Nat /\ R[i].e.dst \in Nat /\ R[i].e.svc \in Nat
<1>1. R[i] \in Row
  OBVIOUS
<1>2. R[i].pos \in Positions /\ R[i].e \in Kinds
  BY <1>1 DEF Row
<1>3. R[i].e \in KindRecords
  BY <1>2, KindsAssumption
<1>4. R[i].e.src \in Nat /\ R[i].e.dst \in Nat /\ R[i].e.svc \in Nat
  BY <1>3 DEF KindRecords
<1>5. R[i].pos \in Nat
  BY <1>2, BoundsAssumption
<1>6. i \in Nat
  OBVIOUS
<1> QED
  BY <1>2, <1>4, <1>5, <1>6

(* A copy is that of an entity in the window of an event it takes part in. *)
LEMMA CopyFacts ==
  ASSUME NEW R \in Seq(Row), NEW p, NEW c \in Copies(R, p)
  PROVE  /\ c = <<c[1], c[2]>> /\ c[1] \in Nat /\ c[2] \in Entities /\ c[2] \in Nat
         /\ \E i \in EventNodes(R, p) : c[1] = R[i].pos /\ c[2] \in Incident(R[i].e)
<1>1. PICK i \in EventNodes(R, p) : c \in {R[i].pos} \X Incident(R[i].e)
  BY DEF Copies
<1>2. i \in DOMAIN R
  BY DEF EventNodes
<1>3. c = <<c[1], c[2]>> /\ c[1] = R[i].pos /\ c[2] \in Incident(R[i].e)
  BY <1>1
<1>4. c[2] \in Entities
  BY <1>3 DEF Incident
<1>5. c[1] \in Nat
  BY <1>2, <1>3, RowFacts
<1> QED
  BY <1>3, <1>4, <1>5, EntitiesAssumption

(* The ends of the edges between entities and events.                      *)
LEMMA LinkFacts ==
  ASSUME NEW R \in Seq(Row), NEW p
  PROVE  /\ \A l \in Edges(R, p)["src_of"] \cup Edges(R, p)["dst_of"] :
              l = <<l[1], l[2]>> /\ l[1] \in Copies(R, p) /\ l[2] \in EventNodes(R, p)
         /\ \A l \in Edges(R, p)["src_of"] : l[1] = <<R[l[2]].pos, R[l[2]].e.src>>
         /\ \A l \in Edges(R, p)["dst_of"] :
              \E n \in {R[l[2]].e.dst} \cup Fronting(R[l[2]].e) : l[1] = <<R[l[2]].pos, n>>
<1>1. /\ Edges(R, p)["src_of"] = {l \in SrcOf(R, p) : l[1] \in Copies(R, p)}
      /\ Edges(R, p)["dst_of"] = {l \in DstOf(R, p) : l[1] \in Copies(R, p)}
  BY DEF Edges
<1>2. ASSUME NEW l \in Edges(R, p)["src_of"]
      PROVE  /\ l = <<l[1], l[2]>> /\ l[1] \in Copies(R, p) /\ l[2] \in EventNodes(R, p)
             /\ l[1] = <<R[l[2]].pos, R[l[2]].e.src>>
  BY <1>1, <1>2 DEF SrcOf
<1>3. ASSUME NEW l \in Edges(R, p)["dst_of"]
      PROVE  /\ l = <<l[1], l[2]>> /\ l[1] \in Copies(R, p) /\ l[2] \in EventNodes(R, p)
             /\ \E n \in {R[l[2]].e.dst} \cup Fronting(R[l[2]].e) : l[1] = <<R[l[2]].pos, n>>
  <2>1. PICK i \in EventNodes(R, p) :
          l \in {<<R[i].pos, n>> : n \in {R[i].e.dst} \cup Fronting(R[i].e)} \X {i}
    BY <1>1, <1>3 DEF DstOf
  <2> QED
    BY <1>1, <1>3, <2>1
<1> QED
  BY <1>2, <1>3

(* The reverse edges are turned round, without those to a queried name.    *)
LEMMA TwinFacts ==
  ASSUME NEW R, NEW p
  PROVE  /\ \A l \in Edges(R, p)["rev_src_of"] :
              l = <<l[1], l[2]>> /\ <<l[2], l[1]>> \in Edges(R, p)["src_of"]
         /\ \A l \in Edges(R, p)["rev_dst_of"] :
              /\ l = <<l[1], l[2]>> /\ <<l[2], l[1]>> \in Edges(R, p)["dst_of"]
              /\ R[l[1]].e.type # "DNS_QUERY"
<1>1. /\ Edges(R, p)["src_of"] = {l \in SrcOf(R, p) : l[1] \in Copies(R, p)}
      /\ Edges(R, p)["dst_of"] = {l \in DstOf(R, p) : l[1] \in Copies(R, p)}
      /\ Edges(R, p)["rev_src_of"] =
           {<<l[2], l[1]>> : l \in {m \in SrcOf(R, p) : m[1] \in Copies(R, p)}}
      /\ Edges(R, p)["rev_dst_of"] = RevDstOf(R, p)
  BY DEF Edges
<1>2. \A l \in SrcOf(R, p) : l = <<l[1], l[2]>>
  BY DEF SrcOf
<1>3. \A l \in DstOf(R, p) : l = <<l[1], l[2]>>
  BY DEF DstOf
<1> QED
  BY <1>1, <1>2, <1>3 DEF RevDstOf

(* The edges in time lead from earlier to later.                           *)
LEMMA TimeFacts ==
  ASSUME NEW R \in Seq(Row), NEW p
  PROVE  /\ \A f \in Edges(R, p)["follows_src"] \cup Edges(R, p)["follows_dst"] :
              /\ f[1] \in EventNodes(R, p) /\ f[2] \in EventNodes(R, p)
              /\ R[f[1]].pos = R[f[2]].pos
         /\ \A l \in Edges(R, p)["recurs"] :
              /\ l[1] \in Copies(R, p) /\ l[2] \in Copies(R, p)
              /\ l[1][2] = l[2][2] /\ l[1][1] < l[2][1]
<1>1. /\ Edges(R, p)["follows_src"] = Follows(R, p, "src")
      /\ Edges(R, p)["follows_dst"] = Follows(R, p, "dst")
      /\ Edges(R, p)["recurs"] = Recurs(R, p)
  BY DEF Edges
<1>2. \A f \in Follows(R, p, "src") \cup Follows(R, p, "dst") :
        /\ f[1] \in EventNodes(R, p) /\ f[2] \in EventNodes(R, p)
        /\ R[f[1]].pos = R[f[2]].pos
  BY DEF Follows, At
<1> QED
  BY <1>1, <1>2 DEF Recurs

----------------------------------------------------------------------------
(* The graph does not change, messages go along its edges only.            *)
GraphInv ==
  /\ rows \in Seq(Row) /\ Len(rows) \in 1..MaxRows
  /\ newest \in Yielded(rows)
  /\ edges = Edges(rows, newest)
  /\ task \in {"built", "score", "pretrain"}
  /\ depth \in 0..Layers
  /\ task = "built" => depth = 0
  /\ DOMAIN msg = Relations /\ DOMAIN held = Relations
  /\ \A r \in Relations : msg[r] \subseteq edges[r] /\ held[r] \subseteq edges[r]
  /\ seenEvent \in [EventNodes(rows, newest) -> SUBSET DOMAIN rows]
  /\ seenEntity \in [Copies(rows, newest) -> SUBSET DOMAIN rows]

LEMMA TablesAreSorted ==
  ASSUME NEW R \in Tables
  PROVE  R \in Seq(Row) /\ Len(R) \in 1..MaxRows
<1>1. PICK n \in 1..MaxRows : R \in [1..n -> Row]
  BY DEF Tables
<1> QED
  BY <1>1, BoundsAssumption

LEMMA GraphInvInit == PassInit => GraphInv
<1> SUFFICES ASSUME PassInit PROVE GraphInv
  OBVIOUS
<1>1. rows \in Seq(Row) /\ Len(rows) \in 1..MaxRows
  BY TablesAreSorted DEF PassInit
<1>2. DOMAIN rows = 1..Len(rows)
  BY <1>1
<1>3. seenEvent \in [EventNodes(rows, newest) -> SUBSET DOMAIN rows]
  BY DEF PassInit, EventNodes
<1>4. seenEntity \in [Copies(rows, newest) -> SUBSET DOMAIN rows]
  BY DEF PassInit
<1> QED
  BY <1>1, <1>3, <1>4, PassAssumption DEF PassInit, GraphInv, NoEdges

----------------------------------------------------------------------------
(* From whom a node hears.                                                 *)
LEMMA HeardFacts ==
  ASSUME GraphInv
  PROVE  /\ \A i : \A j \in Heard("follows_src", i) \cup Heard("follows_dst", i) :
              j \in DOMAIN seenEvent /\ rows[j].pos = rows[i].pos
         /\ \A i : \A c \in Heard("src_of", i) \cup Heard("dst_of", i) :
              c \in DOMAIN seenEntity /\ c[1] = rows[i].pos
         /\ \A c : \A i \in Heard("rev_src_of", c) \cup Heard("rev_dst_of", c) :
              i \in DOMAIN seenEvent /\ c[1] = rows[i].pos
         /\ \A c : \A d \in Heard("recurs", c) :
              d \in DOMAIN seenEntity /\ d[2] = c[2] /\ d[1] < c[1]
<1> DEFINE E == Edges(rows, newest)
<1>1. /\ DOMAIN seenEvent = EventNodes(rows, newest)
      /\ DOMAIN seenEntity = Copies(rows, newest)
      /\ \A r \in Relations : msg[r] \subseteq E[r]
      /\ rows \in Seq(Row)
  BY DEF GraphInv
<1>2. ASSUME NEW i, NEW j \in Heard("follows_src", i) \cup Heard("follows_dst", i)
      PROVE  j \in DOMAIN seenEvent /\ rows[j].pos = rows[i].pos
  <2>1. PICK f \in E["follows_src"] \cup E["follows_dst"] : f[1] = j /\ f[2] = i
    BY <1>1, <1>2, RelationNames DEF Heard
  <2> QED
    BY <1>1, <2>1, TimeFacts
<1>3. ASSUME NEW i, NEW c \in Heard("src_of", i) \cup Heard("dst_of", i)
      PROVE  c \in DOMAIN seenEntity /\ c[1] = rows[i].pos
  <2>1. PICK l \in E["src_of"] \cup E["dst_of"] : l[1] = c /\ l[2] = i
    BY <1>1, <1>3, RelationNames DEF Heard
  <2> QED
    BY <1>1, <2>1, LinkFacts
<1>4. ASSUME NEW c, NEW i \in Heard("rev_src_of", c) \cup Heard("rev_dst_of", c)
      PROVE  i \in DOMAIN seenEvent /\ c[1] = rows[i].pos
  <2>1. PICK l \in E["rev_src_of"] \cup E["rev_dst_of"] : l[1] = i /\ l[2] = c
    BY <1>1, <1>4, RelationNames DEF Heard
  <2>2. <<c, i>> \in E["src_of"] \cup E["dst_of"]
    BY <2>1, TwinFacts
  <2>3. i \in EventNodes(rows, newest)
    BY <1>1, <2>2, LinkFacts
  <2>4. c[1] = rows[i].pos
    <3>1. CASE <<c, i>> \in E["src_of"]
      BY <1>1, <3>1, LinkFacts
    <3>2. CASE <<c, i>> \in E["dst_of"]
      BY <1>1, <3>2, LinkFacts
    <3> QED
      BY <2>2, <3>1, <3>2
  <2> QED
    BY <1>1, <2>3, <2>4
<1>5. ASSUME NEW c, NEW d \in Heard("recurs", c)
      PROVE  d \in DOMAIN seenEntity /\ d[2] = c[2] /\ d[1] < c[1]
  <2>1. PICK l \in E["recurs"] : l[1] = d /\ l[2] = c
    BY <1>1, <1>5, RelationNames DEF Heard
  <2> QED
    BY <1>1, <2>1, TimeFacts
<1> QED
  BY <1>2, <1>3, <1>4, <1>5

(* What is taken up are events of the table.                               *)
LEMMA TakenUp ==
  ASSUME GraphInv
  PROVE  /\ \A i \in DOMAIN seenEvent : Past(i) \subseteq DOMAIN rows
         /\ \A c \in DOMAIN seenEntity : Self(c) \subseteq DOMAIN rows
<1>1. \A i \in DOMAIN seenEvent : seenEvent[i] \subseteq DOMAIN rows
  BY DEF GraphInv
<1>2. \A c \in DOMAIN seenEntity : seenEntity[c] \subseteq DOMAIN rows
  BY DEF GraphInv
<1> QED
  BY <1>1, <1>2, HeardFacts DEF Past, Self

LEMMA GraphInvNext ==
  ASSUME GraphInv, [PassNext]_passVars
  PROVE  GraphInv'
<1>1. CASE HoldOutLinks
  <2>1. PICK kept \in [src_of : Stays("src_of"), dst_of : Stays("dst_of"),
                       recurs : Stays("recurs"), follows_src : Stays("follows_src"),
                       follows_dst : Stays("follows_dst")] :
          msg' = [r \in Relations |->
                    CASE r = "rev_src_of" -> TwinsStay("src_of", edges["src_of"] \ kept["src_of"])
                      [] r = "rev_dst_of" -> TwinsStay("dst_of", edges["dst_of"] \ kept["dst_of"])
                      [] OTHER            -> kept[r]]
    BY <1>1 DEF HoldOutLinks
  <2>2. /\ TwinsStay("src_of", edges["src_of"] \ kept["src_of"]) \subseteq edges["rev_src_of"]
        /\ TwinsStay("dst_of", edges["dst_of"] \ kept["dst_of"]) \subseteq edges["rev_dst_of"]
    BY DEF TwinsStay, Mirror
  <2>3. \A r \in {"src_of", "dst_of", "recurs", "follows_src", "follows_dst"} :
          kept[r] \subseteq edges[r]
    BY <2>1 DEF Stays
  <2>4. DOMAIN msg' = Relations /\ \A r \in Relations : msg'[r] \subseteq edges[r]
    BY <2>1, <2>2, <2>3, RelationNames
  <2>5. held' = [r \in Relations |-> edges[r] \ msg'[r]]
    BY <1>1 DEF HoldOutLinks
  <2> QED
    BY <1>1, <2>4, <2>5 DEF HoldOutLinks, GraphInv
<1>2. CASE UseAllLinks
  <2>1. DOMAIN edges = Relations
    BY RelationNames DEF GraphInv, Edges
  <2> QED
    BY <1>2, <2>1 DEF UseAllLinks, GraphInv
<1>3. CASE Layer
  <2>1. /\ \A i \in DOMAIN seenEvent :
             Past(i) \cup UNION {Self(c) : c \in Heard("src_of", i) \cup Heard("dst_of", i)}
               \subseteq DOMAIN rows
        /\ \A c \in DOMAIN seenEntity :
             Self(c) \cup UNION {Past(i) : i \in Heard("rev_src_of", c) \cup Heard("rev_dst_of", c)}
               \subseteq DOMAIN rows
    BY TakenUp, HeardFacts
  <2>2. /\ seenEvent' \in [EventNodes(rows, newest) -> SUBSET DOMAIN rows]
        /\ seenEntity' \in [Copies(rows, newest) -> SUBSET DOMAIN rows]
    BY <1>3, <2>1 DEF Layer, GraphInv
  <2>3. depth' \in 0..Layers /\ task' # "built"
    BY <1>3, PassAssumption DEF Layer, GraphInv
  <2> QED
    BY <1>3, <2>2, <2>3 DEF Layer, GraphInv
<1>4. CASE UNCHANGED passVars
  BY <1>4 DEF passVars, GraphInv
<1> QED
  BY <1>1, <1>2, <1>3, <1>4 DEF PassNext

LEMMA GraphInvHolds == PassSpec => []GraphInv
<1>1. GraphInv /\ [PassNext]_passVars => GraphInv'
  BY GraphInvNext
<1> QED
  BY <1>1, GraphInvInit, PTL DEF PassSpec

(* The graph keeps its shape: messages and held out links are edges, and   *)
(* what flows are events of the table.                                     *)
THEOREM PassTypeCorrect == PassSpec => []PassTypeOK
<1>1. ASSUME GraphInv
      PROVE  PassTypeOK
  <2>1. /\ DOMAIN seenEvent = EventNodes(rows, newest)
        /\ DOMAIN seenEntity = Copies(rows, newest)
        /\ rows \in Seq(Row)
        /\ DOMAIN edges = Relations
    BY <1>1, RelationNames DEF GraphInv, Edges
  <2>2. /\ \A l \in edges["src_of"] \cup edges["dst_of"] :
             l \in (DOMAIN seenEntity) \X (DOMAIN seenEvent)
        /\ \A l \in edges["rev_src_of"] \cup edges["rev_dst_of"] :
             l \in (DOMAIN seenEvent) \X (DOMAIN seenEntity)
    <3>1. ASSUME NEW l \in edges["src_of"] \cup edges["dst_of"]
          PROVE  l \in (DOMAIN seenEntity) \X (DOMAIN seenEvent)
      <4>1. l = <<l[1], l[2]>> /\ l[1] \in DOMAIN seenEntity /\ l[2] \in DOMAIN seenEvent
        BY <1>1, <2>1, <3>1, LinkFacts DEF GraphInv
      <4>2. <<l[1], l[2]>> \in (DOMAIN seenEntity) \X (DOMAIN seenEvent)
        BY <4>1
      <4> QED
        BY <4>1, <4>2
    <3>2. ASSUME NEW l \in edges["rev_src_of"] \cup edges["rev_dst_of"]
          PROVE  l \in (DOMAIN seenEvent) \X (DOMAIN seenEntity)
      <4>1. l = <<l[1], l[2]>> /\ <<l[2], l[1]>> \in edges["src_of"] \cup edges["dst_of"]
        BY <1>1, <3>2, TwinFacts DEF GraphInv
      <4>2. l[2] \in DOMAIN seenEntity /\ l[1] \in DOMAIN seenEvent
        BY <3>1, <4>1
      <4>3. <<l[1], l[2]>> \in (DOMAIN seenEvent) \X (DOMAIN seenEntity)
        BY <4>2
      <4> QED
        BY <4>1, <4>3
    <3> QED
      BY <3>1, <3>2
  <2>3. /\ edges["follows_src"] \cup edges["follows_dst"]
             \subseteq (DOMAIN seenEvent) \X (DOMAIN seenEvent)
        /\ edges["recurs"] \subseteq (DOMAIN seenEntity) \X (DOMAIN seenEntity)
    <3>1. /\ edges["follows_src"] = Follows(rows, newest, "src")
          /\ edges["follows_dst"] = Follows(rows, newest, "dst")
          /\ edges["recurs"] = Recurs(rows, newest)
      BY <1>1 DEF GraphInv, Edges
    <3>2. /\ Follows(rows, newest, "src")
               \subseteq EventNodes(rows, newest) \X EventNodes(rows, newest)
          /\ Follows(rows, newest, "dst")
               \subseteq EventNodes(rows, newest) \X EventNodes(rows, newest)
      BY DEF Follows
    <3>3. Recurs(rows, newest) \subseteq Copies(rows, newest) \X Copies(rows, newest)
      BY DEF Recurs
    <3> QED
      BY <2>1, <3>1, <3>2, <3>3
  <2>4. ASSUME NEW r \in Relations, NEW S \in SUBSET edges[r]
        PROVE  S \in EdgeSet(r)
    <3>1. CASE r \in {"src_of", "dst_of"}
      BY <2>2, <3>1 DEF EdgeSet
    <3>2. CASE r \in {"rev_src_of", "rev_dst_of"}
      BY <2>2, <3>2 DEF EdgeSet
    <3>3. CASE r \in {"follows_src", "follows_dst"}
      BY <2>3, <3>3 DEF EdgeSet
    <3>4. CASE r = "recurs"
      BY <2>3, <3>4 DEF EdgeSet
    <3> QED
      BY <3>1, <3>2, <3>3, <3>4, RelationNames
  <2>5. \A r \in Relations :
          edges[r] \in EdgeSet(r) /\ msg[r] \in EdgeSet(r) /\ held[r] \in EdgeSet(r)
    BY <1>1, <2>4 DEF GraphInv
  <2> QED
    BY <1>1, <2>1, <2>5 DEF GraphInv, PassTypeOK
<1> QED
  BY <1>1, GraphInvHolds, PTL

----------------------------------------------------------------------------
(* The copies of DNS names see nothing at all.                             *)
BlindInv == \A c \in DOMAIN seenEntity : TypeOf[c[2]] = "DNSName" => seenEntity[c] = {}

(* No DNS name hears of an event.                                          *)
LEMMA NamesHearNothing ==
  ASSUME GraphInv, NEW c \in DOMAIN seenEntity, TypeOf[c[2]] = "DNSName"
  PROVE  Heard("rev_src_of", c) \cup Heard("rev_dst_of", c) = {}
<1> DEFINE E == Edges(rows, newest)
<1>1. /\ \A r \in Relations : msg[r] \subseteq E[r]
      /\ rows \in Seq(Row) /\ c \in Copies(rows, newest)
  BY DEF GraphInv
<1>2. c[2] \in Entities
  BY <1>1, CopyFacts
<1>3. ASSUME NEW l \in E["rev_src_of"], l[2] = c
      PROVE  FALSE
  <2>0. <<c, l[1]>> \in E["src_of"]
    BY <1>3, TwinFacts
  <2>1. l[1] \in EventNodes(rows, newest) /\ c[2] = rows[l[1]].e.src
    BY <1>1, <2>0, LinkFacts
  <2>2. rows[l[1]].e \in Kinds
    BY <1>1, <2>1, RowFacts DEF EventNodes
  <2> QED
    BY <1>2, <2>1, <2>2, KindsAssumption
<1>4. ASSUME NEW l \in E["rev_dst_of"], l[2] = c
      PROVE  FALSE
  <2>0. <<c, l[1]>> \in E["dst_of"] /\ rows[l[1]].e.type # "DNS_QUERY"
    BY <1>4, TwinFacts
  <2>1. PICK n \in {rows[l[1]].e.dst} \cup Fronting(rows[l[1]].e) :
          /\ c[2] = n
          /\ l[1] \in EventNodes(rows, newest) /\ rows[l[1]].e.type # "DNS_QUERY"
    BY <1>1, <2>0, LinkFacts
  <2>2. rows[l[1]].e \in Kinds
    BY <1>1, <2>1, RowFacts DEF EventNodes
  <2>3. CASE n = rows[l[1]].e.dst
    BY <1>2, <2>1, <2>2, <2>3, KindsAssumption
  <2>4. CASE n \in Fronting(rows[l[1]].e)
    <3>1. n = rows[l[1]].e.svc /\ n # NoSvc
      BY <2>4 DEF Fronting
    <3> QED
      BY <2>1, <2>2, <3>1, KindsAssumption
  <2> QED
    BY <2>1, <2>3, <2>4
<1> QED
  BY <1>1, <1>3, <1>4, RelationNames DEF Heard

LEMMA BlindInvNext ==
  ASSUME GraphInv, BlindInv, [PassNext]_passVars
  PROVE  BlindInv'
<1>1. CASE Layer
  <2>1. ASSUME NEW c \in DOMAIN seenEntity, TypeOf[c[2]] = "DNSName"
        PROVE  seenEntity'[c] = {}
    <3>1. Self(c) = {}
      BY <2>1, HeardFacts DEF Self, BlindInv
    <3>2. Heard("rev_src_of", c) \cup Heard("rev_dst_of", c) = {}
      BY <2>1, NamesHearNothing
    <3> QED
      BY <1>1, <3>1, <3>2 DEF Layer
  <2>2. DOMAIN seenEntity' = DOMAIN seenEntity
    BY <1>1 DEF Layer
  <2> QED
    BY <2>1, <2>2 DEF BlindInv
<1>2. CASE UNCHANGED seenEntity
  BY <1>2 DEF BlindInv
<1> QED
  BY <1>1, <1>2 DEF PassNext, HoldOutLinks, UseAllLinks, passVars

LEMMA NothingLaterNext ==
  ASSUME GraphInv, NothingLater, [PassNext]_passVars
  PROVE  NothingLater'
<1>1. CASE Layer
  <2>1. /\ rows \in Seq(Row)
        /\ DOMAIN seenEvent \subseteq DOMAIN rows
        /\ \A c \in DOMAIN seenEntity : c[1] \in Nat
        /\ \A i \in DOMAIN rows : rows[i].pos \in Nat
        /\ \A c \in DOMAIN seenEntity : seenEntity[c] \subseteq DOMAIN rows
        /\ \A i \in DOMAIN seenEvent : seenEvent[i] \subseteq DOMAIN rows
    BY CopyFacts, RowFacts DEF GraphInv, EventNodes
  <2>2. \A i \in DOMAIN seenEvent : \A x \in Past(i) : rows[x].pos <= rows[i].pos
    BY HeardFacts DEF Past, NothingLater
  <2>3. ASSUME NEW c \in DOMAIN seenEntity, NEW x \in Self(c)
        PROVE  rows[x].pos <= c[1]
    <3>1. CASE x \in seenEntity[c]
      BY <3>1 DEF NothingLater
    <3>2. CASE \E d \in Heard("recurs", c) : x \in seenEntity[d]
      <4>1. PICK d \in Heard("recurs", c) : x \in seenEntity[d]
        BY <3>2
      <4>2. d \in DOMAIN seenEntity /\ d[1] < c[1]
        BY <4>1, HeardFacts
      <4>3. rows[x].pos <= d[1] /\ x \in DOMAIN rows
        BY <2>1, <4>1, <4>2 DEF NothingLater
      <4>4. rows[x].pos \in Nat /\ d[1] \in Nat /\ c[1] \in Nat
        BY <2>1, <4>2, <4>3
      <4> QED
        BY <4>2, <4>3, <4>4
    <3> QED
      BY <3>1, <3>2 DEF Self
  <2>4. ASSUME NEW j \in DOMAIN seenEvent, NEW x \in seenEvent'[j]
        PROVE  rows[x].pos <= rows[j].pos
    <3>1. x \in Past(j) \/ \E c \in Heard("src_of", j) \cup Heard("dst_of", j) : x \in Self(c)
      BY <1>1, <2>4 DEF Layer
    <3> QED
      BY <2>2, <2>3, <3>1, HeardFacts
  <2>5. ASSUME NEW c \in DOMAIN seenEntity, NEW x \in seenEntity'[c]
        PROVE  rows[x].pos <= c[1]
    <3>1. x \in Self(c) \/ \E i \in Heard("rev_src_of", c) \cup Heard("rev_dst_of", c) : x \in Past(i)
      BY <1>1, <2>5 DEF Layer
    <3> QED
      BY <2>2, <2>3, <3>1, HeardFacts
  <2>6. /\ DOMAIN seenEntity' = DOMAIN seenEntity /\ DOMAIN seenEvent' = DOMAIN seenEvent
        /\ rows' = rows
    BY <1>1 DEF Layer
  <2> QED
    BY <2>4, <2>5, <2>6 DEF NothingLater
<1>2. CASE UNCHANGED <<rows, seenEvent, seenEntity>>
  BY <1>2 DEF NothingLater
<1> QED
  BY <1>1, <1>2 DEF PassNext, HoldOutLinks, UseAllLinks, passVars

(* No DNS name learns of the queries for it, and no node of what comes     *)
(* after its window, through any number of layers and however messages     *)
(* are held out (ppt/graph.py:15-26).                                      *)
THEOREM PassLeaksNothing == PassSpec => []NothingLeaks
<1>1. PassInit => BlindInv /\ NothingLater
  <2> SUFFICES ASSUME PassInit PROVE BlindInv /\ NothingLater
    OBVIOUS
  <2>1. GraphInv
    BY GraphInvInit
  <2>2. \A i \in DOMAIN seenEvent : rows[i].pos \in Nat
    BY <2>1, RowFacts DEF GraphInv, EventNodes
  <2> QED
    BY <2>2 DEF PassInit, BlindInv, NothingLater
<1>2. GraphInv /\ BlindInv /\ NothingLater /\ [PassNext]_passVars => BlindInv' /\ NothingLater'
  BY BlindInvNext, NothingLaterNext
<1>3. ASSUME GraphInv, BlindInv
      PROVE  NameStaysBlind
  <2> SUFFICES ASSUME NEW c \in DOMAIN seenEntity, NEW i \in seenEntity[c],
                      rows[i].e.type = "DNS_QUERY", rows[i].e.dst = c[2]
               PROVE  FALSE
    BY DEF NameStaysBlind
  <2>1. rows \in Seq(Row) /\ c \in Copies(rows, newest) /\ i \in DOMAIN rows
    BY <1>3 DEF GraphInv
  <2>2. c[2] \in Entities /\ rows[i].e \in Kinds
    BY <2>1, CopyFacts, RowFacts
  <2>3. TypeOf[c[2]] = "DNSName"
    BY <2>2, KindsAssumption
  <2> QED
    BY <1>3, <2>3 DEF BlindInv
<1> QED
  BY <1>1, <1>2, <1>3, GraphInvHolds, PTL DEF PassSpec, NothingLeaks

----------------------------------------------------------------------------
(* A place in rows and columns determines the row and the column.          *)
LEMMA PlaceIsUnique ==
  ASSUME NEW n \in Nat, NEW a \in Nat, NEW b \in Nat, NEW x \in 0..n - 1, NEW y \in 0..n - 1,
         a * n + x = b * n + y
  PROVE  a = b /\ x = y
<1>1. \A k \in Nat : k * n \in Nat
  OBVIOUS
<1>2. ASSUME NEW c \in Nat, NEW d \in Nat, c < d
      PROVE  d * n >= c * n + n
  <2>1. d - c - 1 \in Nat
    BY <1>2
  <2>2. d * n = c * n + n + (d - c - 1) * n
    BY <2>1
  <2>3. (d - c - 1) * n \in Nat
    BY <1>1, <2>1
  <2> QED
    BY <1>1, <2>2, <2>3
<1>3. ~ (a < b)
  <2> SUFFICES ASSUME a < b PROVE FALSE
    OBVIOUS
  <2>1. b * n >= a * n + n /\ a * n \in Nat /\ b * n \in Nat
    BY <1>1, <1>2
  <2> QED
    BY <2>1
<1>4. ~ (b < a)
  <2> SUFFICES ASSUME b < a PROVE FALSE
    OBVIOUS
  <2>1. a * n >= b * n + n /\ a * n \in Nat /\ b * n \in Nat
    BY <1>1, <1>2
  <2> QED
    BY <2>1
<1>5. a = b
  BY <1>3, <1>4
<1>6. a * n \in Nat
  BY <1>1
<1> QED
  BY <1>5, <1>6

LEMMA NodesAreFinite ==
  ASSUME NEW R \in Seq(Row), NEW p
  PROVE  IsFiniteSet(EventNodes(R, p)) /\ IsFiniteSet(Copies(R, p))
<1>1. IsFiniteSet(EventNodes(R, p))
  <2>1. DOMAIN R = 1..Len(R) /\ Len(R) \in Nat
    OBVIOUS
  <2>2. IsFiniteSet(1..Len(R))
    BY <2>1, FS_Interval
  <2>3. EventNodes(R, p) \in SUBSET (1..Len(R))
    BY <2>1 DEF EventNodes
  <2> QED
    BY <2>2, <2>3, FS_Subset
<1> DEFINE copies(i) == {R[i].pos} \X Incident(R[i].e)
           T == {copies(i) : i \in EventNodes(R, p)}
           f == [i \in EventNodes(R, p) |-> copies(i)]
<1>2. IsFiniteSet(T)
  <2>1. f \in Surjection(EventNodes(R, p), T)
    BY DEF Surjection
  <2> QED
    BY <1>1, <2>1, FS_Surjection
<1>3. ASSUME NEW i \in EventNodes(R, p)
      PROVE  IsFiniteSet(copies(i))
  <2>1. IsFiniteSet({R[i].e.src, R[i].e.dst, R[i].e.svc})
    <3>1. IsFiniteSet({R[i].e.src})
      BY FS_Singleton
    <3>2. IsFiniteSet({R[i].e.src} \cup {R[i].e.dst})
      BY <3>1, FS_AddElement
    <3>3. IsFiniteSet({R[i].e.src} \cup {R[i].e.dst} \cup {R[i].e.svc})
      BY <3>2, FS_AddElement
    <3>4. {R[i].e.src} \cup {R[i].e.dst} \cup {R[i].e.svc} = {R[i].e.src, R[i].e.dst, R[i].e.svc}
      OBVIOUS
    <3> QED
      BY <3>3, <3>4
  <2>2. Incident(R[i].e) \in SUBSET {R[i].e.src, R[i].e.dst, R[i].e.svc}
    BY DEF Incident, Fronting
  <2>3. IsFiniteSet(Incident(R[i].e))
    BY <2>1, <2>2, FS_Subset
  <2>4. IsFiniteSet({R[i].pos})
    BY FS_Singleton
  <2> QED
    BY <2>3, <2>4, FS_Product
<1>4. IsFiniteSet(UNION T)
  <2>1. \A t \in T : IsFiniteSet(t)
    BY <1>3
  <2> HIDE DEF T
  <2> QED
    BY <1>2, <2>1, FS_UNION
<1>5. Copies(R, p) = UNION T
  BY DEF Copies
<1> QED
  BY <1>1, <1>4, <1>5

(* A member that a set lacks makes another set with all its members larger. *)
LEMMA ProperSubset ==
  ASSUME NEW T, IsFiniteSet(T), NEW S \in SUBSET T, NEW x \in T, x \notin S
  PROVE  Cardinality(S) \in Nat /\ Cardinality(T) \in Nat /\ Cardinality(S) < Cardinality(T)
<1>1. IsFiniteSet(S) /\ Cardinality(S) <= Cardinality(T) /\ Cardinality(S) # Cardinality(T)
  BY FS_Subset
<1>2. Cardinality(S) \in Nat /\ Cardinality(T) \in Nat
  BY <1>1, FS_CardinalityType
<1> QED
  BY <1>1, <1>2

(* The indices in the tensors tell the nodes apart.                        *)
LEMMA IndexFacts ==
  ASSUME GraphInv
  PROVE  /\ \A c \in DOMAIN seenEntity : CopyIndex(c) \in Nat
         /\ \A c, d \in DOMAIN seenEntity : CopyIndex(c) = CopyIndex(d) => c = d
         /\ Cardinality(DOMAIN seenEvent) \in Nat
         /\ \A i \in DOMAIN seenEvent : EventIndex(i) \in 0..Cardinality(DOMAIN seenEvent) - 1
         /\ \A i, j \in DOMAIN seenEvent : EventIndex(i) = EventIndex(j) => i = j
<1> DEFINE C == DOMAIN seenEntity
           N == DOMAIN seenEvent
           before(c, d) == c[1] < d[1] \/ (c[1] = d[1] /\ c[2] < d[2])
<1>1. rows \in Seq(Row) /\ C = Copies(rows, newest) /\ N = EventNodes(rows, newest)
  BY DEF GraphInv
<1>2. IsFiniteSet(C) /\ IsFiniteSet(N) /\ N \subseteq Nat
  BY <1>1, NodesAreFinite, RowFacts DEF EventNodes
<1>3. \A c \in C : c = <<c[1], c[2]>> /\ c[1] \in Nat /\ c[2] \in Nat
  BY <1>1, CopyFacts
<1>4. ASSUME NEW c \in C
      PROVE  CopyIndex(c) \in Nat
  <2>1. {d \in C : before(d, c)} \in SUBSET C
    OBVIOUS
  <2>2. Cardinality({d \in C : before(d, c)}) \in Nat
    BY <1>2, <2>1, FS_Subset, FS_CardinalityType
  <2> QED
    BY <2>2 DEF CopyIndex
<1>5. ASSUME NEW c \in C, NEW d \in C, before(c, d)
      PROVE  CopyIndex(c) < CopyIndex(d)
  <2> DEFINE T == {x \in C : before(x, d)}
             S == {x \in C : before(x, c)}
  <2>1. S \in SUBSET T
    BY <1>3, <1>5
  <2>2. c \in T /\ c \notin S
    BY <1>3, <1>5
  <2>3. IsFiniteSet(T)
    BY <1>2, FS_Subset
  <2>4. Cardinality(S) < Cardinality(T)
    <3> HIDE DEF S, T
    <3> QED
      BY <2>1, <2>2, <2>3, ProperSubset
  <2> QED
    BY <2>4 DEF CopyIndex
<1>6. ASSUME NEW c \in C, NEW d \in C, CopyIndex(c) = CopyIndex(d)
      PROVE  c = d
  <2>1. ~ before(c, d) /\ ~ before(d, c)
    BY <1>4, <1>5, <1>6
  <2>2. c[1] = d[1] /\ c[2] = d[2]
    <3>1. c[1] \in Nat /\ d[1] \in Nat /\ c[2] \in Nat /\ d[2] \in Nat
      BY <1>3
    <3> QED
      BY <2>1, <3>1
  <2> QED
    BY <1>3, <2>2
<1>7. Cardinality(N) \in Nat
  BY <1>2, FS_CardinalityType
<1>8. ASSUME NEW i \in N
      PROVE  EventIndex(i) \in 0..Cardinality(N) - 1
  <2> DEFINE S == {j \in N : j < i}
  <2>1. S \in SUBSET N /\ i \notin S
    BY <1>2
  <2>2. Cardinality(S) \in Nat /\ Cardinality(S) < Cardinality(N)
    <3> HIDE DEF S, N
    <3> QED
      BY <1>2, <1>8, <2>1, ProperSubset
  <2> QED
    BY <1>7, <2>2 DEF EventIndex
<1>9. ASSUME NEW i \in N, NEW j \in N, i < j
      PROVE  EventIndex(i) < EventIndex(j)
  <2> DEFINE T == {k \in N : k < j}
             S == {k \in N : k < i}
  <2>1. S \in SUBSET T
    BY <1>2, <1>9
  <2>2. i \in T /\ i \notin S
    BY <1>2, <1>9
  <2>3. IsFiniteSet(T)
    BY <1>2, FS_Subset
  <2>4. Cardinality(S) < Cardinality(T)
    <3> HIDE DEF S, T
    <3> QED
      BY <2>1, <2>2, <2>3, ProperSubset
  <2> QED
    BY <2>4 DEF EventIndex
<1>10. ASSUME NEW i \in N, NEW j \in N, EventIndex(i) = EventIndex(j)
       PROVE  i = j
  <2>1. EventIndex(i) \in Nat /\ EventIndex(j) \in Nat
    BY <1>7, <1>8
  <2>2. ~ (i < j) /\ ~ (j < i)
    BY <1>9, <1>10, <2>1
  <2> QED
    BY <1>2, <2>2
<1> QED
  BY <1>4, <1>6, <1>7, <1>8, <1>10

(* The numbers of pairs stand for one pair each.                           *)
LEMMA PairIdIsUnique ==
  ASSUME GraphInv,
         NEW c \in DOMAIN seenEntity, NEW i \in DOMAIN seenEvent,
         NEW d \in DOMAIN seenEntity, NEW j \in DOMAIN seenEvent,
         PairId(<<c, i>>) = PairId(<<d, j>>)
  PROVE  c = d /\ i = j
<1>1. /\ CopyIndex(c) \in Nat /\ CopyIndex(d) \in Nat
      /\ Cardinality(DOMAIN seenEvent) \in Nat
      /\ EventIndex(i) \in 0..Cardinality(DOMAIN seenEvent) - 1
      /\ EventIndex(j) \in 0..Cardinality(DOMAIN seenEvent) - 1
  BY IndexFacts
<1>2. CopyIndex(c) * Cardinality(DOMAIN seenEvent) + EventIndex(i)
        = CopyIndex(d) * Cardinality(DOMAIN seenEvent) + EventIndex(j)
  BY DEF PairId
<1>3. CopyIndex(c) = CopyIndex(d) /\ EventIndex(i) = EventIndex(j)
  BY <1>1, <1>2, PlaceIsUnique
<1> QED
  BY <1>3, IndexFacts

(* An edge that a decoder has to predict never carried a message, in       *)
(* neither direction, for every graph and every choice of what to hold out *)
(* (ppt/train.py:48-85).                                                   *)
THEOREM PassHoldsOutBothWays == PassSpec => []HeldOutBothWays
<1>1. PassInit => HeldOutBothWays
  BY DEF PassInit, HeldOutBothWays
<1>2. ASSUME GraphInv, HeldOutBothWays, [PassNext]_passVars
      PROVE  HeldOutBothWays'
  <2>1. CASE HoldOutLinks
    <3>1. PICK kept \in [src_of : Stays("src_of"), dst_of : Stays("dst_of"),
                         recurs : Stays("recurs"), follows_src : Stays("follows_src"),
                         follows_dst : Stays("follows_dst")] :
            msg' = [r \in Relations |->
                      CASE r = "rev_src_of" -> TwinsStay("src_of", edges["src_of"] \ kept["src_of"])
                        [] r = "rev_dst_of" -> TwinsStay("dst_of", edges["dst_of"] \ kept["dst_of"])
                        [] OTHER            -> kept[r]]
      BY <2>1 DEF HoldOutLinks
    <3>2. /\ held' = [r \in Relations |-> edges[r] \ msg'[r]]
          /\ edges' = edges
      BY <2>1 DEF HoldOutLinks
    <3>3. ASSUME NEW r \in DOMAIN Mirror, NEW l \in edges[Mirror[r]]
          PROVE  \/ l \in held'[Mirror[r]] /\ <<l[2], l[1]>> \in held'[r] \ msg'[r]
                 \/ l \in msg'[Mirror[r]] /\ <<l[2], l[1]>> \in msg'[r] \ held'[r]
      <4> DEFINE twin == <<l[2], l[1]>>
                 out  == edges[r] \ kept[r]
      <4>1. r \in {"src_of", "dst_of"} /\ r \in Relations /\ Mirror[r] \in Relations
        BY RelationNames DEF Mirror
      <4>2. /\ msg'[r] = kept[r] /\ msg'[Mirror[r]] = TwinsStay(r, out)
            /\ held'[r] = edges[r] \ msg'[r] /\ held'[Mirror[r]] = edges[Mirror[r]] \ msg'[Mirror[r]]
        <5>1. CASE r = "src_of"
          <6>1. Mirror[r] = "rev_src_of" /\ Mirror[r] \in Relations /\ r \in Relations
            BY <4>1, <5>1 DEF Mirror
          <6> QED
            BY <3>1, <3>2, <5>1, <6>1
        <5>2. CASE r = "dst_of"
          <6>1. Mirror[r] = "rev_dst_of" /\ Mirror[r] \in Relations /\ r \in Relations
            BY <4>1, <5>2 DEF Mirror
          <6> QED
            BY <3>1, <3>2, <5>2, <6>1
        <5> QED
          BY <4>1, <5>1, <5>2
      <4>3. twin \in edges[r]
        BY <1>2, <4>1, TwinFacts DEF GraphInv, Mirror
      <4>4. \A o \in edges[r] : o = <<o[1], o[2]>> /\ o[1] \in DOMAIN seenEntity
                                                   /\ o[2] \in DOMAIN seenEvent
        BY <1>2, <4>1, LinkFacts DEF GraphInv
      <4>5. ASSUME NEW o \in out, PairId(twin) = PairId(o)
            PROVE  twin = o
        <5>1. /\ o = <<o[1], o[2]>> /\ o[1] \in DOMAIN seenEntity /\ o[2] \in DOMAIN seenEvent
              /\ l[2] \in DOMAIN seenEntity /\ l[1] \in DOMAIN seenEvent
          BY <4>3, <4>4
        <5>2. PairId(<<l[2], l[1]>>) = PairId(<<o[1], o[2]>>)
          BY <4>5, <5>1
        <5> QED
          BY <1>2, <5>1, <5>2, PairIdIsUnique
      <4>6. PairId(twin) \in {PairId(o) : o \in out} <=> twin \in out
        BY <4>5
      <4>7. l \in msg'[Mirror[r]] <=> twin \notin out
        BY <4>2, <4>6 DEF TwinsStay
      <4> QED
        BY <4>2, <4>3, <4>7
    <3> QED
      BY <3>2, <3>3 DEF HeldOutBothWays
  <2>2. CASE UseAllLinks
    BY <2>2 DEF UseAllLinks, HeldOutBothWays
  <2>3. CASE UNCHANGED <<edges, task, msg, held>>
    BY <1>2, <2>3 DEF HeldOutBothWays
  <2> QED
    BY <1>2, <2>1, <2>2, <2>3 DEF PassNext, Layer, passVars
<1> QED
  BY <1>1, <1>2, GraphInvHolds, PTL DEF PassSpec

----------------------------------------------------------------------------
(* The events that are told to an entity in their own window.              *)
Told(e, n) == n \in Incident(e) /\ (e.type = "DNS_QUERY" => n = e.src)

(* How far the events have come: after one layer to the copies in their    *)
(* own window, after two to all later copies.                              *)
SeesInv ==
  /\ \A i \in DOMAIN seenEvent : i \in seenEvent[i]
  /\ task = "score" => msg = edges
  /\ task = "score" /\ depth >= 1 =>
       \A i \in DOMAIN seenEvent : \A n : Told(rows[i].e, n) => i \in seenEntity[<<rows[i].pos, n>>]
  /\ task = "score" /\ depth >= 2 =>
       \A i \in DOMAIN seenEvent : \A c \in DOMAIN seenEntity :
         Told(rows[i].e, c[2]) /\ rows[i].pos <= c[1] => i \in seenEntity[c]

(* There is an edge on which they are told.                                *)
LEMMA TellFacts ==
  ASSUME GraphInv, NEW i \in DOMAIN seenEvent, NEW n, Told(rows[i].e, n)
  PROVE  /\ <<rows[i].pos, n>> \in DOMAIN seenEntity
         /\ <<i, <<rows[i].pos, n>>>> \in edges["rev_src_of"] \cup edges["rev_dst_of"]
<1> DEFINE c == <<rows[i].pos, n>>
           nodes == EventNodes(rows, newest)
<1>1. i \in nodes /\ DOMAIN seenEntity = Copies(rows, newest) /\ edges = Edges(rows, newest)
  BY DEF GraphInv
<1>2. n \in Incident(rows[i].e) /\ (rows[i].e.type = "DNS_QUERY" => n = rows[i].e.src)
  BY DEF Told
<1>3. c \in Copies(rows, newest)
  BY <1>1, <1>2 DEF Copies
<1>4. CASE n = rows[i].e.src
  <2>1. <<c, i>> \in SrcOf(rows, newest)
    BY <1>1, <1>4 DEF SrcOf
  <2>2. edges["rev_src_of"] =
          {<<l[2], l[1]>> : l \in {m \in SrcOf(rows, newest) : m[1] \in Copies(rows, newest)}}
    BY <1>1 DEF Edges
  <2>3. <<i, c>> \in edges["rev_src_of"]
    BY <1>3, <2>1, <2>2
  <2> QED
    BY <1>1, <1>3, <2>3
<1>5. CASE n # rows[i].e.src
  <2>1. n \in {rows[i].e.dst} \cup Fronting(rows[i].e) /\ rows[i].e.type # "DNS_QUERY"
    BY <1>2, <1>5 DEF Incident
  <2>2. <<c, i>> \in DstOf(rows, newest)
    BY <1>1, <2>1 DEF DstOf
  <2>3. edges["rev_dst_of"] = RevDstOf(rows, newest)
    BY <1>1 DEF Edges
  <2>4. <<i, c>> \in RevDstOf(rows, newest)
    <3> DEFINE M == {m \in DstOf(rows, newest) :
                       m[1] \in Copies(rows, newest) /\ rows[m[2]].e.type # "DNS_QUERY"}
    <3>1. <<c, i>> \in M
      BY <1>3, <2>1, <2>2
    <3>2. RevDstOf(rows, newest) = {<<l[2], l[1]>> : l \in M}
      BY DEF RevDstOf
    <3> QED
      BY <3>1, <3>2
  <2> QED
    BY <1>1, <1>3, <2>3, <2>4
<1> QED
  BY <1>4, <1>5

LEMMA SeesInvNext ==
  ASSUME GraphInv, SeesInv, [PassNext]_passVars
  PROVE  SeesInv'
<1>1. CASE HoldOutLinks
  BY <1>1 DEF HoldOutLinks, SeesInv
<1>2. CASE UseAllLinks
  <2>1. depth' = 0 /\ msg' = edges' /\ seenEvent' = seenEvent
    BY <1>2 DEF UseAllLinks, GraphInv
  <2> QED
    BY <2>1 DEF SeesInv
<1>3. CASE Layer
  <2>1. /\ DOMAIN seenEvent' = DOMAIN seenEvent /\ DOMAIN seenEntity' = DOMAIN seenEntity
        /\ \A i \in DOMAIN seenEvent : Past(i) \subseteq seenEvent'[i]
        /\ \A c \in DOMAIN seenEntity :
             /\ Self(c) \subseteq seenEntity'[c]
             /\ \A i \in Heard("rev_src_of", c) \cup Heard("rev_dst_of", c) :
                  Past(i) \subseteq seenEntity'[c]
        /\ rows' = rows /\ edges' = edges /\ task' = task /\ msg' = msg /\ depth' = depth + 1
    BY <1>3 DEF Layer
  <2>2. \A i \in DOMAIN seenEvent : i \in Past(i) /\ i \in seenEvent'[i]
    BY <2>1 DEF Past, SeesInv
  <2>3. ASSUME task = "score", NEW i \in DOMAIN seenEvent, NEW n, Told(rows[i].e, n)
        PROVE  i \in seenEntity'[<<rows[i].pos, n>>]
    <3>1. <<rows[i].pos, n>> \in DOMAIN seenEntity
      BY <2>3, TellFacts
    <3>2. <<i, <<rows[i].pos, n>>>> \in msg["rev_src_of"] \cup msg["rev_dst_of"]
      BY <2>3, TellFacts DEF SeesInv
    <3>3. i \in Heard("rev_src_of", <<rows[i].pos, n>>) \cup Heard("rev_dst_of", <<rows[i].pos, n>>)
      BY <3>2 DEF Heard
    <3> QED
      BY <2>1, <2>2, <3>1, <3>3
  <2>4. ASSUME task = "score", depth >= 1, NEW i \in DOMAIN seenEvent,
               NEW c \in DOMAIN seenEntity, Told(rows[i].e, c[2]), rows[i].pos <= c[1]
        PROVE  i \in seenEntity'[c]
    <3> DEFINE b == <<rows[i].pos, c[2]>>
    <3>1. b \in DOMAIN seenEntity /\ i \in seenEntity[b]
      BY <2>4, TellFacts DEF SeesInv
    <3>2. /\ DOMAIN seenEntity = Copies(rows, newest) /\ edges = Edges(rows, newest)
          /\ rows \in Seq(Row) /\ i \in DOMAIN rows
      BY DEF GraphInv, EventNodes
    <3>3. c = <<c[1], c[2]>> /\ c[1] \in Nat /\ rows[i].pos \in Nat
      BY <3>2, CopyFacts, RowFacts
    <3>4. CASE rows[i].pos = c[1]
      BY <2>1, <3>1, <3>3, <3>4 DEF Self
    <3>5. CASE rows[i].pos < c[1]
      <4>1. b[1] = rows[i].pos /\ b[2] = c[2]
        OBVIOUS
      <4>2. <<b, c>> \in Recurs(rows, newest)
        BY <3>1, <3>2, <3>5, <4>1 DEF Recurs
      <4>3. <<b, c>> \in msg["recurs"]
        BY <2>4, <3>2, <4>2 DEF SeesInv, Edges
      <4>4. b \in Heard("recurs", c)
        BY <4>3 DEF Heard
      <4>5. i \in Self(c)
        BY <3>1, <4>4 DEF Self
      <4> QED
        BY <2>1, <4>5
    <3> QED
      BY <2>4, <3>3, <3>4, <3>5
  <2>5. depth \in Nat
    BY PassAssumption DEF GraphInv
  <2>6. depth' >= 2 => depth >= 1
    BY <2>1, <2>5
  <2> QED
    BY <2>1, <2>2, <2>3, <2>4, <2>6 DEF SeesInv
<1>4. CASE UNCHANGED passVars
  BY <1>4 DEF passVars, SeesInv
<1> QED
  BY <1>1, <1>2, <1>3, <1>4 DEF PassNext

(* From the second layer on a scored entity has seen the whole memory, as  *)
(* far as it is told of it, however long the memory is and however many    *)
(* windows the entity skips (ppt/graph.py:24-26, 204-227).                 *)
THEOREM PassSeesMemory == PassSpec => []ScoreSeesMemory
<1>1. PassInit => SeesInv
  <2> SUFFICES ASSUME PassInit PROVE SeesInv
    OBVIOUS
  <2>1. task = "built" /\ seenEvent = [i \in EventNodes(rows, newest) |-> {i}]
    BY DEF PassInit
  <2> QED
    BY <2>1 DEF SeesInv
<1>2. GraphInv /\ SeesInv /\ [PassNext]_passVars => SeesInv'
  BY SeesInvNext
<1>3. ASSUME GraphInv, SeesInv
      PROVE  ScoreSeesMemory
  <2> SUFFICES ASSUME task = "score", depth >= 2, NEW c \in Newest(rows, newest),
                      NEW i \in DOMAIN seenEvent, c[2] \in Incident(rows[i].e),
                      rows[i].e.type = "DNS_QUERY" => c[2] = rows[i].e.src
               PROVE  i \in seenEntity[c]
    BY DEF ScoreSeesMemory
  <2>1. c \in DOMAIN seenEntity /\ c[1] = newest
    BY <1>3 DEF Newest, GraphInv
  <2>2. rows[i].pos <= newest
    BY <1>3 DEF GraphInv, EventNodes
  <2>3. Told(rows[i].e, c[2])
    BY DEF Told
  <2> QED
    BY <1>3, <2>1, <2>2, <2>3 DEF SeesInv
<1> QED
  BY <1>1, <1>2, <1>3, GraphInvHolds, PTL DEF PassSpec
----------------------------------------------------------------------------
(* Nothing else that is done with a run touches the graph of a pass, so    *)
(* what holds of passes holds of them all.                                 *)
THEOREM DetectionImplementsPass == DetectionSpec => PassSpec
<1>1. DetectionInit => PassInit
  BY DEF DetectionInit
<1>2. [Pass \/ Eval \/ Tell]_detVars => [PassNext]_passVars
  BY DEF Pass, Eval, Tell, detVars
<1> QED
  BY <1>1, <1>2, PTL DEF DetectionSpec, PassSpec

----------------------------------------------------------------------------
(* A table of events, stored or not: only requests have a Service in front.*)
Fronted(R) ==
  /\ R \in Seq(Row2)
  /\ \A i \in DOMAIN R : R[i].e.svc # NoSvc =>
       R[i].e.type = "RPC_CALL" /\ R[i].e.svc \in Entities /\ TypeOf[R[i].e.svc] = "Service"

LEMMA Row2Facts ==
  ASSUME NEW R \in Seq(Row2), NEW i \in DOMAIN R
  PROVE  /\ R[i].pos \in Nat /\ R[i].since \in Nat /\ i \in Nat /\ R[i].e \in KindRecords
         /\ R[i].e.src \in Nat /\ R[i].e.dst \in Nat /\ R[i].e.svc \in Nat
<1>1. R[i] \in Row2
  OBVIOUS
<1>2. R[i].pos \in Nat /\ R[i].since \in Nat /\ R[i].e \in KindRecords
  BY <1>1 DEF Row2
<1> QED
  BY <1>2 DEF KindRecords

LEMMA StoredIsFronted ==
  ASSUME NEW R \in Seq(Row)
  PROVE  Fronted(R)
<1>1. Row \subseteq Row2
  <2> SUFFICES ASSUME NEW r \in Row PROVE r \in Row2
    OBVIOUS
  <2>1. /\ r = [pos |-> r.pos, since |-> r.since, e |-> r.e]
        /\ r.pos \in Positions /\ r.since \in Offsets /\ r.e \in Kinds
    BY DEF Row
  <2>2. r.pos \in Nat /\ r.since \in Nat /\ r.e \in KindRecords
    BY <2>1, BoundsAssumption, KindsAssumption DEF Offsets
  <2> QED
    BY <2>1, <2>2 DEF Row2
<1>2. R \in Seq(Row2)
  BY <1>1
<1> QED
  BY <1>2, RowFacts, KindsAssumption DEF Fronted

(* An event's ends and the Service in front are the same to both.          *)
LEMMA IncidentIsTouched ==
  ASSUME NEW R, Fronted(R), NEW i \in DOMAIN R
  PROVE  Incident(R[i].e) = Entities \cap Touched(R[i].e)
  BY DEF Incident, Touched, Fronting, Fronted

(* The cap leaves events of the window, and those it must.                 *)
LEMMA CappedFacts ==
  ASSUME NEW R, NEW p
  PROVE  Sure(R, p) \subseteq CappedAt(R, p) /\ CappedAt(R, p) \subseteq At(R, p)
<1>1. Must(R, p) \subseteq At(R, p)
  BY DEF Must
<1>2. CASE Cardinality(At(R, p)) <= MaxEvents
  BY <1>2 DEF Sure, CappedAt, CapEvents
<1>3. CASE ~ (Cardinality(At(R, p)) <= MaxEvents)
  BY <1>1, <1>3 DEF Sure, CappedAt, CapEvents
<1> QED
  BY <1>2, <1>3

(* The entities of the events of a window that the cap has left.           *)
PptNodes(R, p) == Entities \cap UNION {Touched(R[i].e) : i \in CappedAt(R, p)}

Nodes(det, R, p) == IF det = "flash" THEN FlashNodes(R, p) ELSE PptNodes(R, p)

LEMMA NodesFacts ==
  ASSUME NEW R, NEW p
  PROVE  /\ PptNodes(R, p) \subseteq FlashNodes(R, p)
         /\ \A i \in Sure(R, p) : Entities \cap Touched(R[i].e) \subseteq PptNodes(R, p)
  BY CappedFacts DEF PptNodes, FlashNodes

(* So an entity has a copy in the newest window just when it is an end of  *)
(* such an event, or in front of one.                                      *)
LEMMA NewestAreNodes ==
  ASSUME NEW R, Fronted(R), NEW p \in Nat
  PROVE  Newest(R, p) = {p} \X PptNodes(R, p)
<1>1. \A i \in CappedAt(R, p) : i \in EventNodes(R, p) /\ i \in DOMAIN R /\ R[i].pos = p
  BY MemoryGraphAssumption, CappedFacts DEF At, EventNodes
<1>2. ASSUME NEW c \in Newest(R, p)
      PROVE  c \in {p} \X PptNodes(R, p)
  <2>1. PICK i \in EventNodes(R, p) : c \in {R[i].pos} \X Incident(R[i].e)
    BY <1>2 DEF Newest, Copies
  <2>2. c[1] = p
    BY <1>2 DEF Newest
  <2>3. c = <<c[1], c[2]>> /\ R[i].pos = p /\ c[2] \in Incident(R[i].e)
    BY <2>1, <2>2
  <2>4. i \in CappedAt(R, p) /\ i \in DOMAIN R
    BY <2>3 DEF EventNodes
  <2>5. c[2] \in PptNodes(R, p)
    BY <2>3, <2>4, IncidentIsTouched DEF PptNodes
  <2> QED
    BY <2>2, <2>3, <2>5
<1>3. ASSUME NEW n \in PptNodes(R, p)
      PROVE  <<p, n>> \in Newest(R, p)
  <2>1. PICK i \in CappedAt(R, p) : n \in Touched(R[i].e) /\ n \in Entities
    BY <1>3 DEF PptNodes
  <2>2. n \in Incident(R[i].e)
    BY <1>1, <2>1, IncidentIsTouched
  <2>3. <<p, n>> \in {R[i].pos} \X Incident(R[i].e)
    BY <1>1, <2>1, <2>2
  <2>4. <<p, n>> \in Copies(R, p)
    BY <1>1, <2>1, <2>3 DEF Copies
  <2> QED
    BY <2>4 DEF Newest
<1> QED
  BY <1>2, <1>3

LEMMA YieldedAreNumbers ==
  ASSUME NEW R \in Seq(Row2)
  PROVE  Yielded(R) \subseteq Nat
  BY Row2Facts DEF Yielded

(* Without a choice of one entity, every node of every window is scored.   *)
LEMMA ScoresOfAll ==
  ASSUME NEW R, Fronted(R), NEW det \in Detectors
  PROVE  Scores(det, R, Anyone) = UNION {{p} \X Nodes(det, R, p) : p \in Yielded(R)}
<1>1. CASE det = "flash"
  <2>1. FlashWindows(R, Anyone) = Yielded(R)
    BY DEF FlashWindows
  <2> QED
    BY <1>1, <2>1 DEF Scores, FlashScores, Nodes
<1>2. CASE det = "ppt"
  <2>1. {q \in Yielded(R) : Anyone = Anyone \/ <<q, Anyone>> \in Newest(R, q)} = Yielded(R)
    OBVIOUS
  <2>2. PptScores(R, Anyone) = UNION {Newest(R, p) : p \in Yielded(R)}
    BY <2>1 DEF PptScores
  <2>3. \A p \in Yielded(R) : Newest(R, p) = {p} \X PptNodes(R, p)
    BY YieldedAreNumbers, NewestAreNodes DEF Fronted
  <2>4. UNION {Newest(R, p) : p \in Yielded(R)} = UNION {{p} \X PptNodes(R, p) : p \in Yielded(R)}
    BY <2>3
  <2> QED
    BY <1>2, <2>2, <2>4 DEF Scores, Nodes
<1> QED
  BY <1>1, <1>2 DEF Detectors

(* In the newest window of a memory graph, an event hears a and is heard   *)
(* by b just when it is in the graph and a talks to b in it.               *)
LEMMA TalkIsPair ==
  ASSUME NEW R, Fronted(R), NEW p \in Nat, NEW i \in At(R, p),
         NEW a \in Entities, NEW b \in Entities
  PROVE  (/\ <<<<p, a>>, i>> \in Edges(R, p).src_of
          /\ <<<<p, b>>, i>> \in Edges(R, p).dst_of) <=>
         i \in CappedAt(R, p) /\ <<a, b>> \in Pairs(R[i].e)
<1>1. R[i].pos = p /\ i \in DOMAIN R /\ (i \in EventNodes(R, p) <=> i \in CappedAt(R, p))
  BY MemoryGraphAssumption DEF At, EventNodes
<1>2. ASSUME NEW n \in Touched(R[i].e) \cap Entities, i \in CappedAt(R, p)
      PROVE  <<p, n>> \in Copies(R, p)
  <2>1. n \in PptNodes(R, p)
    BY <1>2 DEF PptNodes
  <2>2. <<p, n>> \in Newest(R, p)
    BY <2>1, NewestAreNodes
  <2> QED
    BY <2>2 DEF Newest
<1>3. <<<<p, a>>, i>> \in Edges(R, p).src_of <=> i \in CappedAt(R, p) /\ a = R[i].e.src
  <2>1. Edges(R, p).src_of = {l \in SrcOf(R, p) : l[1] \in Copies(R, p)}
    BY DEF Edges
  <2>2. <<<<p, a>>, i>> \in SrcOf(R, p) <=> i \in CappedAt(R, p) /\ a = R[i].e.src
    BY <1>1 DEF SrcOf
  <2> QED
    BY <1>2, <2>1, <2>2 DEF Touched
<1>4. <<<<p, b>>, i>> \in Edges(R, p).dst_of <=>
        i \in CappedAt(R, p) /\ b \in {R[i].e.dst} \cup Fronting(R[i].e)
  <2>1. Edges(R, p).dst_of = {l \in DstOf(R, p) : l[1] \in Copies(R, p)}
    BY DEF Edges
  <2>2. <<<<p, b>>, i>> \in DstOf(R, p) <=>
          i \in CappedAt(R, p) /\ b \in {R[i].e.dst} \cup Fronting(R[i].e)
    BY <1>1 DEF DstOf
  <2>3. {R[i].e.dst} \cup Fronting(R[i].e) \subseteq Touched(R[i].e)
    BY DEF Touched, Fronting
  <2> QED
    BY <1>2, <2>1, <2>2, <2>3
<1>5. <<a, b>> \in Pairs(R[i].e) <=>
        a = R[i].e.src /\ b \in {R[i].e.dst} \cup Fronting(R[i].e)
  BY DEF Pairs, Fronting
<1> QED
  BY <1>3, <1>4, <1>5

LEMMA LinksArePairs ==
  ASSUME NEW R, NEW p, NEW a, NEW b
  PROVE  <<a, b>> \in FlashLinks(R, p) <=>
           /\ a # b /\ a \in FlashNodes(R, p) /\ b \in FlashNodes(R, p)
           /\ \E i \in At(R, p) : <<a, b>> \in Pairs(R[i].e) \/ <<b, a>> \in Pairs(R[i].e)
<1> DEFINE met == {l \in UNION {Pairs(R[i].e) : i \in At(R, p)} :
                      l[1] # l[2] /\ {l[1], l[2]} \subseteq FlashNodes(R, p)}
<1>1. FlashLinks(R, p) = met \cup {<<l[2], l[1]>> : l \in met}
  BY DEF FlashLinks
<1>2. \A c, d : <<c, d>> \in met <=>
        /\ c # d /\ c \in FlashNodes(R, p) /\ d \in FlashNodes(R, p)
        /\ \E i \in At(R, p) : <<c, d>> \in Pairs(R[i].e)
  OBVIOUS
<1>3. \A l \in met : l = <<l[1], l[2]>>
  BY DEF Pairs
<1>4. <<a, b>> \in {<<l[2], l[1]>> : l \in met} <=> <<b, a>> \in met
  <2> HIDE DEF met
  <2> QED
    BY <1>3
<1> QED
  BY <1>1, <1>2, <1>4

(* In each window the counterparts of an entity in ppt's graph are some of *)
(* those in flash's, and all that come of events surely kept.              *)
LEMMA LinksAgree ==
  ASSUME NEW R, Fronted(R), NEW p \in Yielded(R),
         NEW a \in FlashNodes(R, p), NEW b \in FlashNodes(R, p)
  PROVE  LET G == Edges(R, p)
             talk(c, d) == \E i \in At(R, p) :
               <<<<p, c>>, i>> \in G.src_of /\ <<<<p, d>>, i>> \in G.dst_of
             linked == a # b /\ (talk(a, b) \/ talk(b, a))
             pairs  == UNION {Pairs(R[i].e) : i \in Sure(R, p)}
         IN  /\ linked => <<a, b>> \in FlashLinks(R, p)
             /\ <<a, b>> \in FlashLinks(R, p) /\ (<<a, b>> \in pairs \/ <<b, a>> \in pairs) => linked
<1>1. p \in Nat /\ a \in Entities /\ b \in Entities
  BY YieldedAreNumbers DEF Fronted, FlashNodes
<1>2. \A i \in At(R, p) :
        /\ (/\ <<<<p, a>>, i>> \in Edges(R, p).src_of
            /\ <<<<p, b>>, i>> \in Edges(R, p).dst_of) <=>
           i \in CappedAt(R, p) /\ <<a, b>> \in Pairs(R[i].e)
        /\ (/\ <<<<p, b>>, i>> \in Edges(R, p).src_of
            /\ <<<<p, a>>, i>> \in Edges(R, p).dst_of) <=>
           i \in CappedAt(R, p) /\ <<b, a>> \in Pairs(R[i].e)
  BY <1>1, TalkIsPair
<1> QED
  BY <1>2, LinksArePairs, CappedFacts

----------------------------------------------------------------------------
(* The windows of an entity's scores.                                      *)
WindowsOf(det, R, v) == {p \in Yielded(R) : v \in Nodes(det, R, p)}

(* A pod is no Service, so the windows in which it sends or receives are   *)
(* all in which it shows; and its scores are not lost by asking for them   *)
(* only.                                                                   *)
LEMMA VictimWindowsFact ==
  ASSUME NEW R, Fronted(R), NEW v \in Pods, NEW det \in Detectors
  PROVE  /\ VictimWindows(det, R, v) = WindowsOf(det, R, v)
         /\ {r[1] : r \in {s \in Scores(det, R, Anyone) : s[2] = v}} = WindowsOf(det, R, v)
<1>1. v # Anyone /\ v # NoSvc /\ v \in Entities /\ TypeOf[v] = "Pod"
  BY EntitiesAssumption DEF Pods, Anyone, NoSvc
<1>2. {r[1] : r \in {s \in Scores(det, R, Anyone) : s[2] = v}} = WindowsOf(det, R, v)
  <2>1. Scores(det, R, Anyone) = UNION {{p} \X Nodes(det, R, p) : p \in Yielded(R)}
    BY ScoresOfAll
  <2>2. \A s : s \in Scores(det, R, Anyone) =>
                 s[1] \in Yielded(R) /\ s[2] \in Nodes(det, R, s[1])
    BY <2>1
  <2>3. ASSUME NEW p \in WindowsOf(det, R, v)
        PROVE  \E r \in {s \in Scores(det, R, Anyone) : s[2] = v} : r[1] = p
    <3>1. <<p, v>> \in {p} \X Nodes(det, R, p) /\ p \in Yielded(R)
      BY DEF WindowsOf
    <3>2. <<p, v>> \in Scores(det, R, Anyone)
      BY <2>1, <3>1
    <3> QED
      BY <3>2
  <2>4. \A r \in {s \in Scores(det, R, Anyone) : s[2] = v} : r[1] \in WindowsOf(det, R, v)
    BY <2>2 DEF WindowsOf
  <2> QED
    BY <2>3, <2>4
<1>3. Scores(det, R, v) = UNION {{p} \X Nodes(det, R, p) : p \in WindowsOf(det, R, v)}
  <2>1. CASE det = "flash"
    <3>1. \A i \in DOMAIN R : v \in Touched(R[i].e) <=> v \in {R[i].e.src, R[i].e.dst}
      BY <1>1 DEF Touched, Fronted
    <3>2. FlashWindows(R, v) = WindowsOf(det, R, v)
      BY <1>1, <2>1, <3>1 DEF FlashWindows, WindowsOf, Nodes, FlashNodes, At
    <3> QED
      BY <2>1, <3>2 DEF Scores, FlashScores, Nodes
  <2>2. CASE det = "ppt"
    <3> DEFINE own == {q \in Yielded(R) : v = Anyone \/ <<q, v>> \in Newest(R, q)}
    <3>1. \A p \in Yielded(R) : Newest(R, p) = {p} \X Nodes(det, R, p)
      BY <2>2, YieldedAreNumbers, NewestAreNodes DEF Fronted, Nodes
    <3>2. own = WindowsOf(det, R, v)
      <4>1. \A q \in Yielded(R) : <<q, v>> \in Newest(R, q) <=> v \in Nodes(det, R, q)
        BY <3>1
      <4> QED
        BY <1>1, <4>1 DEF WindowsOf
    <3>3. Scores(det, R, v) = UNION {Newest(R, p) : p \in own}
      BY <2>2 DEF Scores, PptScores
    <3>4. \A p \in WindowsOf(det, R, v) : Newest(R, p) = {p} \X Nodes(det, R, p)
      BY <3>1 DEF WindowsOf
    <3> HIDE DEF own
    <3> QED
      BY <3>2, <3>3, <3>4
  <2> QED
    BY <2>1, <2>2 DEF Detectors
<1>4. \A s : s \in Scores(det, R, v) => s[1] \in WindowsOf(det, R, v)
  BY <1>3
<1>5. ASSUME NEW p \in WindowsOf(det, R, v)
      PROVE  \E r \in {s \in Scores(det, R, v) : s[2] = v} : r[1] = p
  <2>1. <<p, v>> \in {p} \X Nodes(det, R, p)
    BY DEF WindowsOf
  <2>2. <<p, v>> \in Scores(det, R, v)
    BY <1>3, <2>1
  <2> QED
    BY <2>2
<1>6. {r[1] : r \in {s \in Scores(det, R, v) : s[2] = v}} = WindowsOf(det, R, v)
  BY <1>4, <1>5
<1> QED
  BY <1>2, <1>6 DEF VictimWindows

(* An entity shows in every window in which the detector reads an event    *)
(* that it sends or receives.                                              *)
LEMMA EndsShow ==
  ASSUME NEW R, NEW det \in Detectors, NEW i \in DOMAIN R, IsRead(det, R, i),
         NEW n \in Entities \cap {R[i].e.src, R[i].e.dst}
  PROVE  R[i].pos \in WindowsOf(det, R, n)
<1>1. i \in At(R, R[i].pos) /\ n \in Touched(R[i].e) /\ R[i].pos \in Yielded(R)
  BY DEF At, Touched, IsRead
<1>2. CASE det = "flash"
  BY <1>1, <1>2 DEF FlashNodes, WindowsOf, Nodes
<1>3. CASE det = "ppt"
  <2>1. i \in Sure(R, R[i].pos)
    BY <1>3 DEF IsRead
  <2>2. n \in PptNodes(R, R[i].pos)
    BY <1>1, <2>1, NodesFacts
  <2> QED
    BY <1>1, <1>3, <2>2 DEF WindowsOf, Nodes
<1> QED
  BY <1>2, <1>3 DEF Detectors

----------------------------------------------------------------------------
(* What a perturbation leaves to be scored: a table in which every pod     *)
(* that sent still sends.                                                  *)
Usable(R) ==
  /\ Fronted(R)
  /\ \A w \in PodsIn : \E j \in DOMAIN R : R[j].e.src = w

(* And, unless pods were exchanged, one that has every event of the stored *)
(* one, at its time and from its sender, with v at an end if it had been.  *)
Keeps(v, R) ==
  \A i \in DOMAIN rows : \E j \in DOMAIN R :
    /\ R[j].pos = rows[i].pos /\ R[j].since = rows[i].since /\ R[j].e.src = rows[i].e.src
    /\ v \in {rows[i].e.src, rows[i].e.dst} => v \in {R[j].e.src, R[j].e.dst}

LEMMA KeepingIsUsable ==
  ASSUME NEW v, NEW R, Fronted(R), Keeps(v, R)
  PROVE  Usable(R)
<1> SUFFICES ASSUME NEW w \in PodsIn PROVE \E j \in DOMAIN R : R[j].e.src = w
  BY DEF Usable
<1>1. PICK i \in DOMAIN rows : rows[i].e.src = w
  BY DEF PodsIn, SentBy
<1> QED
  BY <1>1 DEF Keeps

(* All windows of a pod's rows are then windows of its rows in flash's     *)
(* scores of that table: no event is gone, and the end of the run, which   *)
(* decides on the tail, can only be later.                                 *)
LEMMA KeptWindows ==
  ASSUME rows \in Seq(Row), NEW v \in Pods, NEW R, Fronted(R), Keeps(v, R)
  PROVE  WindowsOf("flash", rows, v) \subseteq WindowsOf("flash", R, v)
<1> SUFFICES ASSUME NEW p \in WindowsOf("flash", rows, v) PROVE p \in WindowsOf("flash", R, v)
  OBVIOUS
<1>1. v # NoSvc /\ v \in Entities /\ TypeOf[v] = "Pod"
  BY EntitiesAssumption DEF Pods, NoSvc
<1>2. Fronted(rows)
  BY StoredIsFronted
<1>3. p \in Yielded(rows) /\ v \in FlashNodes(rows, p)
  BY DEF WindowsOf, Nodes
<1>4. PICK i \in At(rows, p) : v \in Touched(rows[i].e)
  BY <1>3 DEF FlashNodes
<1>5. i \in DOMAIN rows /\ rows[i].pos = p
  BY <1>4 DEF At
<1>6. v \in {rows[i].e.src, rows[i].e.dst}
  BY <1>1, <1>2, <1>4, <1>5 DEF Touched, Fronted
<1>7. PICK j \in DOMAIN R : R[j].pos = p /\ v \in {R[j].e.src, R[j].e.dst}
  BY <1>5, <1>6 DEF Keeps
<1>8. v \in FlashNodes(R, p)
  BY <1>1, <1>7 DEF FlashNodes, At, Touched
<1>9. ~ ShortTail(R, p)
  <2> SUFFICES ASSUME ShortTail(R, p) PROVE ShortTail(rows, p)
    BY <1>3 DEF Yielded
  <2>1. ASSUME NEW k \in DOMAIN rows
        PROVE  rows[k].pos < p \/ (rows[k].pos = p /\ rows[k].since < MinTail)
    <3>1. PICK l \in DOMAIN R : R[l].pos = rows[k].pos /\ R[l].since = rows[k].since
      BY <2>1 DEF Keeps
    <3> QED
      BY <3>1 DEF ShortTail
  <2> QED
    BY <2>1 DEF ShortTail
<1>10. p \in Yielded(R)
  BY <1>7, <1>9 DEF Yielded
<1> QED
  BY <1>8, <1>10 DEF WindowsOf, Nodes

LEMMA StoredIsKept ==
  ASSUME rows \in Seq(Row), NEW v
  PROVE  Fronted(rows) /\ Keeps(v, rows)
  BY StoredIsFronted DEF Keeps

(* A row with another destination, behind the Service that it is.          *)
LEMMA RewiredIsKept ==
  ASSUME rows \in Seq(Row), NEW v, NEW s \in Services
  PROVE  LET R == [i \in DOMAIN rows |->
                     IF i \in Requests(v) THEN [rows[i] EXCEPT !.e.dst = s, !.e.svc = s] ELSE rows[i]]
         IN  Fronted(R) /\ Keeps(v, R)
<1> DEFINE row(i) == IF i \in Requests(v) THEN [rows[i] EXCEPT !.e.dst = s, !.e.svc = s] ELSE rows[i]
           R == [i \in DOMAIN rows |-> row(i)]
<1>1. Fronted(rows)
  BY StoredIsFronted
<1>2. s \in Nat /\ s \in Entities /\ TypeOf[s] = "Service"
  BY EntitiesAssumption DEF Services
<1>3. ASSUME NEW i \in DOMAIN rows
      PROVE  /\ row(i) \in Row2
             /\ row(i).pos = rows[i].pos /\ row(i).since = rows[i].since
             /\ row(i).e.src = rows[i].e.src
             /\ row(i).e.dst = rows[i].e.dst \/ rows[i].e.src = v
             /\ row(i).e.svc # NoSvc =>
                  row(i).e.type = "RPC_CALL" /\ row(i).e.svc \in Entities
                                            /\ TypeOf[row(i).e.svc] = "Service"
  <2>1. rows[i] \in Row2
    BY <1>1 DEF Fronted
  <2>2. CASE i \notin Requests(v)
    BY <1>1, <1>3, <2>1, <2>2 DEF Fronted
  <2>3. CASE i \in Requests(v)
    <3>1. row(i) = [rows[i] EXCEPT !.e = [rows[i].e EXCEPT !.dst = s, !.svc = s]]
      BY <2>1, <2>3 DEF Row2, KindRecords
    <3>2. /\ rows[i].e \in KindRecords /\ rows[i].pos \in Nat /\ rows[i].since \in Nat
          /\ rows[i].e.type = "RPC_CALL" /\ rows[i].e.src = v
      BY <2>1, <2>3 DEF Row2, Requests, SentBy
    <3>3. [rows[i].e EXCEPT !.dst = s, !.svc = s] \in KindRecords
      BY <1>2, <3>2 DEF KindRecords
    <3>4. /\ row(i) \in Row2 /\ row(i).e = [rows[i].e EXCEPT !.dst = s, !.svc = s]
          /\ row(i).pos = rows[i].pos /\ row(i).since = rows[i].since
      BY <2>1, <3>1, <3>3 DEF Row2
    <3>5. row(i).e.src = rows[i].e.src /\ row(i).e.svc = s /\ row(i).e.type = "RPC_CALL"
      BY <3>2, <3>4 DEF KindRecords
    <3> QED
      BY <1>2, <3>2, <3>4, <3>5
  <2> QED
    BY <2>2, <2>3
<1>4. DOMAIN R = DOMAIN rows /\ \A i \in DOMAIN rows : R[i] = row(i)
  OBVIOUS
<1>5. R \in Seq(Row2)
  <2>1. DOMAIN rows = 1..Len(rows) /\ Len(rows) \in Nat
    OBVIOUS
  <2>2. R \in [1..Len(rows) -> Row2]
    <3> HIDE DEF row
    <3> QED
      BY <1>3, <2>1
  <2> HIDE DEF R
  <2> QED
    BY <2>1, <2>2
<1> HIDE DEF R, row
<1>6. Fronted(R)
  BY <1>3, <1>4, <1>5 DEF Fronted
<1>7. Keeps(v, R)
  BY <1>3, <1>4 DEF Keeps
<1> QED
  BY <1>6, <1>7 DEF R, row

(* The senders of two pods' rows exchanged.                                *)
LEMMA SwappedIsUsable ==
  ASSUME rows \in Seq(Row), NEW a \in PodsIn, NEW b \in PodsIn, a # b
  PROVE  Usable(Swapped(a, b))
<1> DEFINE R == Swapped(a, b)
<1>1. Fronted(rows)
  BY StoredIsFronted
<1>2. a \in Nat /\ b \in Nat
  BY EntitiesAssumption DEF PodsIn, Pods
<1>3. DOMAIN R = DOMAIN rows
  BY DEF Swapped
<1>4. ASSUME NEW i \in DOMAIN rows
      PROVE  /\ R[i] \in Row2
             /\ R[i].e.svc = rows[i].e.svc /\ R[i].e.type = rows[i].e.type
             /\ rows[i].e.src = b => R[i].e.src = a
             /\ rows[i].e.src = a => R[i].e.src = b
             /\ rows[i].e.src \notin {a, b} => R[i].e.src = rows[i].e.src
  <2> DEFINE given(n) == [rows[i] EXCEPT !.e.src = n]
  <2>1. rows[i] \in Row2
    BY <1>1 DEF Fronted
  <2>2. ASSUME NEW n \in Nat
        PROVE  /\ given(n) \in Row2 /\ given(n).e.src = n
               /\ given(n).e.svc = rows[i].e.svc /\ given(n).e.type = rows[i].e.type
    <3>1. given(n) = [rows[i] EXCEPT !.e = [rows[i].e EXCEPT !.src = n]]
      BY <2>1 DEF Row2, KindRecords
    <3>2. rows[i].e \in KindRecords
      BY <2>1 DEF Row2
    <3>3. [rows[i].e EXCEPT !.src = n] \in KindRecords
      BY <2>2, <3>2 DEF KindRecords
    <3>4. given(n) \in Row2 /\ given(n).e = [rows[i].e EXCEPT !.src = n]
      BY <2>1, <3>1, <3>3 DEF Row2
    <3> QED
      BY <3>2, <3>4 DEF KindRecords
  <2>3. R[i] = IF i \in SentBy(a) THEN given(b) ELSE IF i \in SentBy(b) THEN given(a) ELSE rows[i]
    BY <1>4 DEF Swapped
  <2>4. i \in SentBy(a) <=> rows[i].e.src = a
    BY <1>4 DEF SentBy
  <2>5. i \in SentBy(b) <=> rows[i].e.src = b
    BY <1>4 DEF SentBy
  <2> HIDE DEF given
  <2> QED
    BY <1>2, <2>1, <2>2, <2>3, <2>4, <2>5
<1>5. R \in Seq(Row2)
  <2>1. DOMAIN rows = 1..Len(rows) /\ Len(rows) \in Nat
    OBVIOUS
  <2>2. R = [i \in 1..Len(rows) |-> R[i]]
    BY <2>1 DEF Swapped
  <2>3. R \in [1..Len(rows) -> Row2]
    <3> HIDE DEF R
    <3> QED
      BY <1>4, <2>1, <2>2
  <2> HIDE DEF R
  <2> QED
    BY <2>1, <2>3
<1>6. \A w \in PodsIn : \E i \in DOMAIN rows : rows[i].e.src = w
  BY DEF PodsIn, SentBy
<1> HIDE DEF R
<1>7. Fronted(R)
  BY <1>1, <1>3, <1>4, <1>5 DEF Fronted
<1>8. ASSUME NEW w \in PodsIn
      PROVE  \E j \in DOMAIN R : R[j].e.src = w
  <2>1. CASE w = a
    BY <1>3, <1>4, <1>6, <2>1
  <2>2. CASE w = b
    BY <1>3, <1>4, <1>6, <2>2
  <2>3. CASE w \notin {a, b}
    BY <1>3, <1>4, <1>6, <2>3
  <2> QED
    BY <2>1, <2>2, <2>3
<1>9. Usable(R)
  BY <1>7, <1>8 DEF Usable
<1> QED
  BY <1>9 DEF R

(* In a strict order, how many are before a member is its place.           *)
StrictOrder(R, K) ==
  /\ \A x \in K : <<x, x>> \notin R
  /\ \A x, y, z \in K : <<x, y>> \in R /\ <<y, z>> \in R => <<x, z>> \in R
  /\ \A x, y \in K : x = y \/ <<x, y>> \in R \/ <<y, x>> \in R

PlaceIn(R, K) == [x \in K |-> Cardinality({y \in K : <<y, x>> \in R})]

LEMMA PlacesAreOnto ==
  ASSUME NEW K, IsFiniteSet(K), NEW R, StrictOrder(R, K)
  PROVE  PlaceIn(R, K) \in Bijection(K, 0..Cardinality(K) - 1)
<1> DEFINE before(x) == {y \in K : <<y, x>> \in R}
           p == PlaceIn(R, K)
           T == 0..Cardinality(K) - 1
<1>1. \A x \in K : p[x] = Cardinality(before(x))
  BY DEF PlaceIn
<1>2. Cardinality(K) \in Nat
  BY FS_CardinalityType
<1>3. ASSUME NEW x \in K PROVE p[x] \in T
  <2>1. before(x) \in SUBSET K /\ x \notin before(x)
    BY DEF StrictOrder
  <2> HIDE DEF before, p
  <2>2. Cardinality(before(x)) \in Nat /\ Cardinality(before(x)) < Cardinality(K)
    BY <2>1, ProperSubset
  <2> QED
    BY <1>1, <1>2, <2>2
<1>4. ASSUME NEW x \in K, NEW y \in K, <<x, y>> \in R
      PROVE  p[x] < p[y]
  <2>1. before(x) \in SUBSET before(y) /\ x \in before(y) /\ x \notin before(x)
    BY <1>4 DEF StrictOrder
  <2>2. before(y) \in SUBSET K
    OBVIOUS
  <2> HIDE DEF before, p
  <2>3. IsFiniteSet(before(y))
    BY <2>2, FS_Subset
  <2> QED
    BY <1>1, <2>1, <2>3, ProperSubset
<1>5. ASSUME NEW x \in K, NEW y \in K, p[x] = p[y]
      PROVE  x = y
  <2>1. p[x] \in T /\ ~ (p[x] < p[x])
    BY <1>2, <1>3
  <2> HIDE DEF p
  <2> QED
    BY <1>4, <1>5, <2>1 DEF StrictOrder
<1>6. p = [x \in K |-> p[x]]
  BY DEF PlaceIn
<1> HIDE DEF p
<1>7. p \in Injection(K, T)
  BY <1>3, <1>5, <1>6 DEF Injection, IsInjective
<1>8. IsFiniteSet(T) /\ Cardinality(T) = Cardinality(K)
  BY <1>2, FS_Interval
<1> HIDE DEF T
<1>9. p \in Surjection(K, T)
  BY <1>7, <1>8, FS_Injection
<1> QED
  BY <1>7, <1>9 DEF Bijection, p, T

(* How many of a set of numbers are before one.                            *)
Before(S, j) == Cardinality({s \in S : s < j})

(* Rows woven into a table take places of their own, and leave the others  *)
(* to the rows of the table, each of which gets one.                       *)
LEMMA WovenPlaces ==
  ASSUME NEW n \in Nat, NEW m \in Nat, NEW S \in SUBSET (1..n + m), Cardinality(S) = m
  PROVE  /\ \A j \in S : Before(S, j) + 1 \in 1..m
         /\ \A j \in (1..n + m) \ S : j - Before(S, j) \in 1..n
         /\ \A i \in 1..n : \E j \in (1..n + m) \ S : j - Before(S, j) = i
<1> DEFINE A == 1..n + m
           T == A \ S
           R == {d \in T \X T : d[1] < d[2]}
           k(j) == Before(S, j)
           p == PlaceIn(R, T)
<1>1. IsFiniteSet(A) /\ Cardinality(A) = n + m
  <2>1. 1 \in Int /\ n + m \in Int
    OBVIOUS
  <2> QED
    BY <2>1, FS_Interval
<1>2. IsFiniteSet(S) /\ IsFiniteSet(T) /\ Cardinality(T) = n
  <2>1. IsFiniteSet(S)
    BY <1>1, FS_Subset
  <2>2. S \cap A = S /\ A \cap S = S
    OBVIOUS
  <2>3. IsFiniteSet(T) /\ Cardinality(T) = Cardinality(A) - Cardinality(A \cap S)
    BY <1>1, FS_Difference
  <2> HIDE DEF A, T
  <2> QED
    BY <1>1, <2>1, <2>2, <2>3
<1>3. StrictOrder(R, T)
  BY DEF StrictOrder
<1>4. p \in Bijection(T, 0..n - 1)
  <2> HIDE DEF T, R
  <2> QED
    BY <1>2, <1>3, PlacesAreOnto
<1>5. ASSUME NEW j \in S PROVE k(j) + 1 \in 1..m
  <2>1. {s \in S : s < j} \in SUBSET S /\ j \notin {s \in S : s < j}
    OBVIOUS
  <2>2. k(j) \in Nat /\ k(j) < Cardinality(S)
    BY <1>2, <2>1, ProperSubset DEF Before
  <2> HIDE DEF k
  <2> QED
    BY <2>2
<1>6. ASSUME NEW j \in T PROVE j - k(j) = p[j] + 1 /\ p[j] \in 0..n - 1
  <2> DEFINE below == {t \in T : <<t, j>> \in R}
             gone  == {s \in S : s < j}
  <2>1. p[j] = Cardinality(below) /\ p[j] \in 0..n - 1
    <3>1. p[j] = Cardinality(below)
      BY DEF PlaceIn
    <3> HIDE DEF p, below
    <3> QED
      BY <1>4, <3>1 DEF Bijection, Injection
  <2>2. below \cup gone = 1..j - 1 /\ below \cap gone = {}
    <3>1. \A t \in T : <<t, j>> \in R <=> t < j
      OBVIOUS
    <3>2. \A t : t \in below <=> t \in A /\ t \notin S /\ t < j
      BY <3>1
    <3>3. \A t : t \in gone <=> t \in S /\ t < j
      OBVIOUS
    <3>4. \A t : t \in 1..j - 1 <=> t \in A /\ t < j
      OBVIOUS
    <3> HIDE DEF below, gone
    <3>5. \A t : t \in below \cup gone <=> t \in 1..j - 1
      BY <3>2, <3>3, <3>4
    <3> QED
      BY <3>2, <3>3, <3>5
  <2>3. IsFiniteSet(below) /\ IsFiniteSet(gone)
    <3>1. below \in SUBSET T /\ gone \in SUBSET S
      OBVIOUS
    <3> HIDE DEF below, gone, T
    <3> QED
      BY <1>2, <3>1, FS_Subset
  <2>4. Cardinality(1..j - 1) = j - 1 /\ j \in Nat
    <3>1. j \in Nat /\ j >= 1 /\ 1 \in Int /\ j - 1 \in Int
      OBVIOUS
    <3> QED
      BY <3>1, FS_Interval
  <2>5. Cardinality(below \cap gone) = 0
    BY <2>2, FS_EmptySet
  <2>6. Cardinality(below \cup gone) = Cardinality(below) + Cardinality(gone) - Cardinality(below \cap gone)
    <3> HIDE DEF below, gone
    <3> QED
      BY <2>3, FS_Union
  <2>7. Cardinality(gone) \in Nat /\ k(j) = Cardinality(gone)
    BY <2>3, FS_CardinalityType DEF Before
  <2> HIDE DEF below, gone, p, k
  <2>8. Cardinality(below) + Cardinality(gone) - 0 = j - 1
    BY <2>2, <2>4, <2>5, <2>6
  <2>9. p[j] + k(j) = j - 1 /\ p[j] \in Nat /\ k(j) \in Nat /\ j \in Nat
    BY <2>1, <2>4, <2>7, <2>8
  <2> QED
    BY <2>1, <2>9
<1>7. ASSUME NEW i \in 1..n PROVE \E j \in T : j - k(j) = i
  <2>1. i - 1 \in 0..n - 1
    OBVIOUS
  <2> HIDE DEF p, T, k
  <2>2. PICK j \in T : p[j] = i - 1
    BY <1>4, <2>1 DEF Bijection, Surjection
  <2> QED
    BY <1>6, <2>2
<1>8. \A j \in T : j - k(j) \in 1..n
  <2> HIDE DEF p, T, k
  <2> QED
    BY <1>6
<1> QED
  BY <1>5, <1>7, <1>8

(* Events woven in that have no Service in front.                          *)
LEMMA WovenIsKept ==
  ASSUME rows \in Seq(Row), NEW v, NEW e \in KindRecords, e.svc = NoSvc,
         NEW S \in SUBSET (1..Len(rows) + Injections), Cardinality(S) = Injections,
         NEW P \in SUBSET Nat,
         NEW added \in [1..Injections -> [pos : P, since : Offsets, e : {e}]]
  PROVE  Fronted(Woven(S, added)) /\ Keeps(v, Woven(S, added))
<1> DEFINE n == Len(rows)
           m == Injections
           k(j) == Before(S, j)
           R == Woven(S, added)
<1>1. Fronted(rows) /\ rows \in Seq(Row2)
  BY StoredIsFronted DEF Fronted
<1>2. n \in Nat /\ m \in Nat /\ DOMAIN rows = 1..n
  BY EvaluationAssumption
<1>3. /\ \A j \in S : k(j) + 1 \in 1..m
      /\ \A j \in (1..n + m) \ S : j - k(j) \in 1..n
      /\ \A i \in 1..n : \E j \in (1..n + m) \ S : j - k(j) = i
  <2>1. S \in SUBSET (1..n + m) /\ Cardinality(S) = m
    OBVIOUS
  <2> HIDE DEF n, m
  <2> QED
    BY <1>2, <2>1, WovenPlaces
<1>4. R = [j \in 1..n + m |-> IF j \in S THEN added[k(j) + 1] ELSE rows[j - k(j)]]
  BY DEF Woven, Before
<1>5. \A l \in 1..m : added[l] \in Row2 /\ added[l].e.svc = NoSvc
  <2> SUFFICES ASSUME NEW l \in 1..m PROVE added[l] \in Row2 /\ added[l].e.svc = NoSvc
    OBVIOUS
  <2>1. added[l] \in [pos : P, since : Offsets, e : {e}]
    OBVIOUS
  <2>2. Offsets \in SUBSET Nat
    BY BoundsAssumption DEF Offsets
  <2>3. /\ added[l] = [pos |-> added[l].pos, since |-> added[l].since, e |-> added[l].e]
        /\ added[l].pos \in P /\ added[l].since \in Offsets /\ added[l].e = e
    BY <2>1
  <2> QED
    BY <2>2, <2>3 DEF Row2
<1> HIDE DEF k, n, m, R
<1>6. ASSUME NEW j \in 1..n + m
      PROVE  /\ R[j] \in Row2
             /\ R[j].e.svc # NoSvc => R[j].e.type = "RPC_CALL" /\ R[j].e.svc \in Entities
                                                              /\ TypeOf[R[j].e.svc] = "Service"
  <2>1. CASE j \in S
    <3>1. R[j] = added[k(j) + 1] /\ k(j) + 1 \in 1..m
      BY <1>3, <1>4, <2>1
    <3> QED
      BY <1>5, <3>1
  <2>2. CASE j \notin S
    <3>1. R[j] = rows[j - k(j)] /\ j - k(j) \in DOMAIN rows
      BY <1>2, <1>3, <1>4, <2>2
    <3> QED
      BY <1>1, <3>1 DEF Fronted
  <2> QED
    BY <2>1, <2>2
<1>7. R \in Seq(Row2) /\ DOMAIN R = 1..n + m
  <2>1. R \in [1..n + m -> Row2]
    BY <1>4, <1>6
  <2> QED
    BY <1>2, <2>1
<1>8. Fronted(R)
  BY <1>6, <1>7 DEF Fronted
<1>9. ASSUME NEW i \in DOMAIN rows
      PROVE  \E j \in DOMAIN R : R[j] = rows[i]
  <2>1. PICK j \in (1..n + m) \ S : j - k(j) = i
    BY <1>2, <1>3
  <2> QED
    BY <1>4, <1>7, <2>1
<1>10. Keeps(v, R)
  BY <1>9 DEF Keeps
<1> QED
  BY <1>8, <1>10 DEF R

Perturbations == {"rewire", "dns_exfil", "sentence_swap", "api_burst"}

LEMMA InjectChooses ==
  ASSUME rows \in Seq(Row), NEW name, NEW v,
         NEW e \in KindRecords, e.svc = NoSvc, Inject(name, v, e)
  PROVE  \E R : Chosen(name, v, R) /\ Fronted(R) /\ Keeps(v, R)
<1>1. PICK i \in SentBy(v), S \in SUBSET (1..Len(rows) + Injections) :
        \E added \in [1..Injections -> [pos : {rows[i].pos, rows[i].pos + 1}, since : Offsets, e : {e}]] :
          Cardinality(S) = Injections /\ Chosen(name, v, Woven(S, added))
  BY DEF Inject
<1>2. {rows[i].pos, rows[i].pos + 1} \in SUBSET Nat
  BY RowFacts DEF SentBy
<1>3. PICK P \in SUBSET Nat : P = {rows[i].pos, rows[i].pos + 1}
  BY <1>2
<1>4. PICK added \in [1..Injections -> [pos : P, since : Offsets, e : {e}]] :
        Cardinality(S) = Injections /\ Chosen(name, v, Woven(S, added))
  BY <1>1, <1>3
<1>5. Fronted(Woven(S, added)) /\ Keeps(v, Woven(S, added))
  BY <1>4, WovenIsKept
<1> QED
  BY <1>4, <1>5

LEMMA PerturbChooses ==
  ASSUME rows \in Seq(Row), Perturb
  PROVE  \E name \in Perturbations, v \in Pods : \E R :
           /\ Chosen(name, v, R) /\ Usable(R)
           /\ name # "sentence_swap" => Keeps(v, R)
<1>1. PICK v \in Pods : Rewire(v) \/ DnsExfil(v) \/ SentenceSwap(v) \/ ApiBurst(v)
  BY DEF Perturb
<1>2. v \in Nat
  BY EntitiesAssumption DEF Pods
<1>3. CASE Rewire(v)
  <2>1. \E R : Chosen("rewire", v, R) /\ Fronted(R) /\ Keeps(v, R)
    <3>1. CASE Chosen("rewire", v, rows)
      BY <3>1, StoredIsKept
    <3>2. ASSUME NEW s \in Services,
                 Chosen("rewire", v, [i \in DOMAIN rows |->
                   IF i \in Requests(v) THEN [rows[i] EXCEPT !.e.dst = s, !.e.svc = s] ELSE rows[i]])
          PROVE  \E R : Chosen("rewire", v, R) /\ Fronted(R) /\ Keeps(v, R)
      BY <3>2, RewiredIsKept
    <3> QED
      BY <1>3, <3>1, <3>2 DEF Rewire
  <2> QED
    BY <2>1, KeepingIsUsable DEF Perturbations
<1>4. CASE DnsExfil(v)
  <2> DEFINE e == [type |-> "DNS_QUERY", src |-> v, dst |-> ExfilName, svc |-> NoSvc, look |-> "exfil"]
  <2>1. e \in KindRecords /\ e.svc = NoSvc
    BY <1>2, EvaluationAssumption DEF KindRecords, EventTypes, NoSvc
  <2>2. Inject("dns_exfil", v, e)
    BY <1>4 DEF DnsExfil
  <2> HIDE DEF e
  <2>3. \E R : Chosen("dns_exfil", v, R) /\ Fronted(R) /\ Keeps(v, R)
    BY <2>1, <2>2, InjectChooses
  <2> QED
    BY <2>3, KeepingIsUsable DEF Perturbations
<1>5. CASE SentenceSwap(v)
  <2>1. PICK b \in PodsIn : v # b /\ v \in PodsIn /\ Chosen("sentence_swap", v, Swapped(v, b))
    BY <1>5 DEF SentenceSwap
  <2> QED
    BY <2>1, SwappedIsUsable DEF Perturbations
<1>6. CASE ApiBurst(v)
  <2> DEFINE e == [type |-> "K8S_API_CALL", src |-> v, dst |-> KubeApi, svc |-> NoSvc, look |-> "burst"]
  <2>1. e \in KindRecords /\ e.svc = NoSvc
    BY <1>2, EvaluationAssumption DEF KindRecords, EventTypes, NoSvc
  <2>2. Inject("api_burst", v, e)
    BY <1>6 DEF ApiBurst
  <2> HIDE DEF e
  <2>3. \E R : Chosen("api_burst", v, R) /\ Fronted(R) /\ Keeps(v, R)
    BY <2>1, <2>2, InjectChooses
  <2> QED
    BY <2>3, KeepingIsUsable DEF Perturbations
<1> QED
  BY <1>1, <1>3, <1>4, <1>5, <1>6

----------------------------------------------------------------------------
(* A perturbed table is usable, and its scores are those of its victim's   *)
(* windows.                                                                *)
Probes == [name : Perturbations \cup {"none"}, victim : Pods \cup {Anyone}, table : Seq(Row2),
           det : Detectors \cup {"none"}, base : SUBSET Nat, pert : SUBSET Nat]

ProbeInv ==
  /\ probe \in Probes
  /\ Fronted(probe.table)
  /\ probe # NoProbe =>
       /\ probe.victim \in Pods /\ Usable(probe.table)
       /\ probe.name # "sentence_swap" => Keeps(probe.victim, probe.table)
  /\ probe.det # "none" =>
       /\ probe # NoProbe
       /\ probe.base = WindowsOf(probe.det, rows, probe.victim)
       /\ probe.pert = WindowsOf(probe.det, probe.table, probe.victim)

LEMMA ProbeInvInit == EvalInit => ProbeInv
<1> SUFFICES ASSUME EvalInit PROVE ProbeInv
  OBVIOUS
<1>1. probe = NoProbe
  BY DEF EvalInit
<1>2. NoProbe \in Probes
  BY DEF NoProbe, Probes, Row2
<1>3. Fronted(NoProbe.table)
  BY DEF NoProbe, Fronted, Row2
<1>4. NoProbe.det = "none"
  BY DEF NoProbe
<1> QED
  BY <1>1, <1>2, <1>3, <1>4 DEF ProbeInv

(* It is a matter of the table and the probe only.                         *)
LEMMA ProbeInvStays ==
  ASSUME ProbeInv, rows' = rows, probe' = probe
  PROVE  ProbeInv'
<1>1. /\ Usable(probe.table)' <=> Usable(probe.table)
      /\ Keeps(probe.victim, probe.table)' <=> Keeps(probe.victim, probe.table)
  BY DEF Usable, Keeps, Fronted, PodsIn, SentBy
<1>2. /\ WindowsOf(probe.det, rows, probe.victim)' = WindowsOf(probe.det, rows, probe.victim)
      /\ WindowsOf(probe.det, probe.table, probe.victim)' = WindowsOf(probe.det, probe.table, probe.victim)
  OBVIOUS
<1>3. Fronted(probe.table)'
  BY DEF ProbeInv, Fronted
<1> QED
  BY <1>1, <1>2, <1>3 DEF ProbeInv

LEMMA ProbeInvEval ==
  ASSUME GraphInv, ProbeInv, EvalNext, rows' = rows
  PROVE  ProbeInv'
<1>1. rows \in Seq(Row)
  BY DEF GraphInv
<1>2. CASE Perturb
  <2>a. PICK name \in Perturbations, v \in Pods : \E R :
          /\ Chosen(name, v, R) /\ Usable(R)
          /\ name # "sentence_swap" => Keeps(v, R)
    BY <1>1, <1>2, PerturbChooses
  <2>1. PICK R : /\ Chosen(name, v, R) /\ Usable(R)
                 /\ name # "sentence_swap" => Keeps(v, R)
    BY <2>a
  <2>2. probe' = [name |-> name, victim |-> v, table |-> R, det |-> "none", base |-> {}, pert |-> {}]
    BY <2>1 DEF Chosen, NoProbe
  <2>3. Fronted(R) /\ R \in Seq(Row2)
    BY <2>1 DEF Usable, Fronted
  <2>4. probe' \in Probes
    BY <2>2, <2>3 DEF Probes
  <2>5. probe'.table = R /\ probe'.victim = v /\ probe'.det = "none" /\ probe'.name = name
    BY <2>2
  <2>6. /\ Usable(probe.table)' /\ Fronted(probe.table)'
        /\ probe'.name # "sentence_swap" => Keeps(probe.victim, probe.table)'
    BY <2>1, <2>3, <2>5 DEF Usable, Keeps, Fronted, PodsIn, SentBy
  <2> QED
    BY <2>4, <2>5, <2>6 DEF ProbeInv
<1>3. ASSUME NEW det \in Detectors, ScoreVictim(det)
      PROVE  ProbeInv'
  <2> DEFINE base == VictimWindows(det, rows, probe.victim)
             pert == VictimWindows(det, probe.table, probe.victim)
  <2>1. /\ probe # NoProbe /\ probe \in Probes /\ probe.victim \in Pods
        /\ Usable(probe.table) /\ Fronted(probe.table)
        /\ probe.name # "sentence_swap" => Keeps(probe.victim, probe.table)
    BY <1>3 DEF ScoreVictim, ProbeInv
  <2>2. Fronted(rows)
    BY <1>1, StoredIsFronted
  <2>3. base = WindowsOf(det, rows, probe.victim) /\ pert = WindowsOf(det, probe.table, probe.victim)
    BY <2>1, <2>2, VictimWindowsFact
  <2>4. base \in SUBSET Nat /\ pert \in SUBSET Nat
    BY <2>1, <2>2, <2>3, YieldedAreNumbers DEF WindowsOf, Fronted
  <2>5. probe' = [probe EXCEPT !.det = det, !.base = base, !.pert = pert]
    BY <1>3 DEF ScoreVictim
  <2> HIDE DEF base, pert
  <2>6. /\ probe' \in Probes /\ probe'.victim = probe.victim /\ probe'.table = probe.table
        /\ probe'.name = probe.name
        /\ probe'.det = det /\ probe'.base = base /\ probe'.pert = pert
    <3> DEFINE T == Seq(Row2)
    <3>1. probe \in [name : Perturbations \cup {"none"}, victim : Pods \cup {Anyone}, table : T,
                     det : Detectors \cup {"none"}, base : SUBSET Nat, pert : SUBSET Nat]
      BY <2>1 DEF Probes
    <3> HIDE DEF T
    <3>2. probe' \in [name : Perturbations \cup {"none"}, victim : Pods \cup {Anyone}, table : T,
                     det : Detectors \cup {"none"}, base : SUBSET Nat, pert : SUBSET Nat]
      BY <2>4, <2>5, <3>1
    <3>3. /\ probe'.victim = probe.victim /\ probe'.table = probe.table /\ probe'.name = probe.name
          /\ probe'.det = det /\ probe'.base = base /\ probe'.pert = pert
      BY <2>5, <3>1
    <3> QED
      BY <3>2, <3>3 DEF T, Probes
  <2>7. probe' # NoProbe
    BY <2>6 DEF NoProbe, Detectors
  <2>8. /\ Usable(probe.table)' /\ Fronted(probe.table)'
        /\ probe'.name # "sentence_swap" => Keeps(probe.victim, probe.table)'
    BY <2>1, <2>6 DEF Usable, Keeps, Fronted, PodsIn, SentBy
  <2>9. /\ probe'.base = WindowsOf(probe.det, rows, probe.victim)'
        /\ probe'.pert = WindowsOf(probe.det, probe.table, probe.victim)'
    BY <2>3, <2>6
  <2> QED
    BY <2>1, <2>6, <2>7, <2>8, <2>9 DEF ProbeInv
<1>4. ASSUME NEW det \in Detectors, LabeledDetection(det)
      PROVE  ProbeInv'
  BY <1>4, ProbeInvStays DEF LabeledDetection
<1> QED
  BY <1>2, <1>3, <1>4 DEF EvalNext

LEMMA ProbeInvHolds == DetectionSpec => [](GraphInv /\ ProbeInv)
<1>1. DetectionInit => GraphInv /\ ProbeInv
  BY GraphInvInit, ProbeInvInit DEF DetectionInit
<1>2. ASSUME GraphInv, ProbeInv, [Pass \/ Eval \/ Tell]_detVars
      PROVE  GraphInv' /\ ProbeInv'
  <2>1. GraphInv'
    <3>1. [PassNext]_passVars
      BY <1>2 DEF Pass, Eval, Tell, detVars
    <3> QED
      BY <1>2, <3>1, GraphInvNext
  <2>2. CASE Eval
    <3>1. EvalNext /\ rows' = rows
      BY <2>2 DEF Eval, passVars
    <3> QED
      BY <1>2, <2>1, <3>1, ProbeInvEval
  <2>3. CASE Pass
    <3>1. rows' = rows /\ probe' = probe
      BY <2>3 DEF Pass, PassNext, HoldOutLinks, UseAllLinks, Layer, evalVars
    <3> QED
      BY <1>2, <2>1, <3>1, ProbeInvStays
  <2>4. CASE Tell \/ UNCHANGED detVars
    <3>1. rows' = rows /\ probe' = probe
      BY <2>4 DEF Tell, detVars, passVars, evalVars
    <3> QED
      BY <1>2, <2>1, <3>1, ProbeInvStays
  <2> QED
    BY <1>2, <2>2, <2>3, <2>4
<1> QED
  BY <1>1, <1>2, PTL DEF DetectionSpec

(* Of every table, stored or perturbed, ppt scores no entity-window and    *)
(* links no pair that flash does not, and all of those that come of events *)
(* surely kept by its cap: every event of a window up to the cap, and the  *)
(* refused flows above it (ppt/graph.py:14, 70-85, 89, graph.py:33-86).    *)
THEOREM PptSeesPartOfFlash == DetectionSpec => []DetectorsAgree
<1>1. ASSUME GraphInv, ProbeInv
      PROVE  DetectorsAgree
  <2>1. \A R \in {rows, probe.table} : Fronted(R)
    BY <1>1, StoredIsFronted DEF GraphInv, ProbeInv
  <2>2. ASSUME NEW R \in {rows, probe.table}
        PROVE  /\ FlashScores(R, Anyone) = UNION {{p} \X FlashNodes(R, p) : p \in Yielded(R)}
               /\ PptScores(R, Anyone) = UNION {{p} \X PptNodes(R, p) : p \in Yielded(R)}
    <3>1. /\ Scores("flash", R, Anyone) = UNION {{p} \X Nodes("flash", R, p) : p \in Yielded(R)}
          /\ Scores("ppt", R, Anyone) = UNION {{p} \X Nodes("ppt", R, p) : p \in Yielded(R)}
      BY <2>1, ScoresOfAll DEF Detectors
    <3> QED
      BY <3>1 DEF Scores, Nodes
  <2>3. ASSUME NEW R \in {rows, probe.table}
        PROVE  PptScores(R, Anyone) \subseteq FlashScores(R, Anyone)
    BY <2>2, NodesFacts
  <2>4. ASSUME NEW R \in {rows, probe.table}, NEW p \in Yielded(R), NEW i \in Sure(R, p)
        PROVE  {p} \X (Entities \cap Touched(R[i].e)) \subseteq PptScores(R, Anyone)
    <3>1. Entities \cap Touched(R[i].e) \subseteq PptNodes(R, p)
      BY NodesFacts
    <3> QED
      BY <2>2, <3>1
  <2> QED
    BY <2>1, <2>3, <2>4, LinksAgree DEF DetectorsAgree
<1> QED
  BY <1>1, ProbeInvHolds, PTL

(* Whichever the detector, the perturbation and the run, the victim has    *)
(* before and after the rows that a scoring of the whole table gives it,   *)
(* among them one for each window in which the detector reads of it; no    *)
(* pod falls silent; and with flash no attack takes a window of its        *)
(* victim's rows away but by exchanging pods (eval.py:101-116,             *)
(* detectors/base.py:61-62, perturb.py:18-109, windows.py:34-35).          *)
THEOREM VictimIsCompared == DetectionSpec => []VictimRowsComplete
<1>1. ASSUME GraphInv, ProbeInv
      PROVE  VictimRowsComplete
  <2> SUFFICES ASSUME probe.det # "none"
               PROVE  /\ \A w \in PodsIn : \E j \in DOMAIN probe.table : probe.table[j].e.src = w
                      /\ LET windows(R) == {r[1] : r \in {s \in Scores(probe.det, R, Anyone) :
                                                             s[2] = probe.victim}}
                             shows(R)   == {R[i].pos : i \in {j \in DOMAIN R :
                               /\ probe.victim \in {R[j].e.src, R[j].e.dst}
                               /\ IsRead(probe.det, R, j)}}
                         IN  /\ probe.base = windows(rows) /\ shows(rows) \subseteq probe.base
                             /\ probe.pert = windows(probe.table)
                             /\ shows(probe.table) \subseteq probe.pert
                             /\ probe.det = "flash" /\ probe.name # "sentence_swap" =>
                                  probe.base \subseteq probe.pert
    BY DEF VictimRowsComplete
  <2> DEFINE v == probe.victim
             windows(R) == {r[1] : r \in {s \in Scores(probe.det, R, Anyone) : s[2] = v}}
  <2>1. /\ v \in Pods /\ Usable(probe.table) /\ probe.det \in Detectors
        /\ probe.name # "sentence_swap" => Keeps(v, probe.table)
        /\ probe.base = WindowsOf(probe.det, rows, v)
        /\ probe.pert = WindowsOf(probe.det, probe.table, v)
    BY <1>1 DEF ProbeInv, Probes
  <2>2. Fronted(rows) /\ Fronted(probe.table) /\ rows \in Seq(Row)
    BY <1>1, <2>1, StoredIsFronted DEF GraphInv, Usable
  <2>3. probe.base = windows(rows) /\ probe.pert = windows(probe.table)
    BY <2>1, <2>2, VictimWindowsFact
  <2>4. v \in Entities
    BY <2>1 DEF Pods
  <2>5. \A i \in DOMAIN rows :
          v \in {rows[i].e.src, rows[i].e.dst} /\ IsRead(probe.det, rows, i) =>
            rows[i].pos \in probe.base
    BY <2>1, <2>4, EndsShow
  <2>6. \A i \in DOMAIN probe.table :
          v \in {probe.table[i].e.src, probe.table[i].e.dst} /\ IsRead(probe.det, probe.table, i) =>
            probe.table[i].pos \in probe.pert
    BY <2>1, <2>4, EndsShow
  <2>7. probe.det = "flash" /\ probe.name # "sentence_swap" => probe.base \subseteq probe.pert
    BY <2>1, <2>2, KeptWindows
  <2>8. \A w \in PodsIn : \E j \in DOMAIN probe.table : probe.table[j].e.src = w
    BY <2>1 DEF Usable
  <2> QED
    BY <2>3, <2>5, <2>6, <2>7, <2>8
<1> QED
  BY <1>1, ProbeInvHolds, PTL

----------------------------------------------------------------------------
(* Sums, as module Totals counts them.                                     *)
LEMMA DisjointCount ==
  ASSUME NEW S, IsFiniteSet(S), NEW T, IsFiniteSet(T), S \cap T = {}
  PROVE  IsFiniteSet(S \cup T) /\ Cardinality(S \cup T) = Cardinality(S) + Cardinality(T)
<1>1. Cardinality(S) \in Nat /\ Cardinality(T) \in Nat
  BY FS_CardinalityType
<1>2. Cardinality(S \cup T) = Cardinality(S) + Cardinality(T) - Cardinality(S \cap T)
  BY FS_Union
<1>3. Cardinality(S \cap T) = 0
  BY FS_EmptySet
<1> QED
  BY <1>1, <1>2, <1>3, FS_Union

(* As many pairs as the values of a function sum up to: those of its       *)
(* arguments with the members of sets as large as its values.              *)
LEMMA CountedFacts ==
  ASSUME NEW D, IsFiniteSet(D), NEW f \in [D -> Nat]
  PROVE  /\ IsFiniteSet(Counted(f))
         /\ Total(f) \in Nat
         /\ \A c : c \in Counted(f) <=> c = <<c[1], c[2]>> /\ c[1] \in D /\ c[2] \in 1..f[c[1]]
<1> DEFINE col(x) == {x} \X (1..f[x])
           T == {col(x) : x \in D}
           h == [x \in D |-> col(x)]
<1>1. IsFiniteSet(T)
  <2>1. h \in Surjection(D, T)
    BY DEF Surjection
  <2> QED
    BY <2>1, FS_Surjection
<1>2. \A x \in D : IsFiniteSet(col(x))
  <2> TAKE x \in D
  <2>0. 1 \in Int /\ f[x] \in Int
    OBVIOUS
  <2>1. IsFiniteSet(1..f[x]) /\ IsFiniteSet({x})
    BY <2>0, FS_Interval, FS_Singleton
  <2> QED
    BY <2>1, FS_Product
<1>3. Counted(f) = UNION T
  BY DEF Counted
<1>4. IsFiniteSet(UNION T)
  <2>1. \A t \in T : IsFiniteSet(t)
    BY <1>2
  <2> HIDE DEF T
  <2> QED
    BY <1>1, <2>1, FS_UNION
<1>5. \A c : c \in Counted(f) <=> \E x \in D : c \in {x} \X (1..f[x])
  BY DEF Counted
<1> QED
  BY <1>3, <1>4, <1>5, FS_CardinalityType DEF Total

LEMMA TotalIsUnion ==
  ASSUME NEW D, IsFiniteSet(D), NEW f \in [D -> Nat], NEW B,
         \A x \in D : IsFiniteSet(B[x]) /\ Cardinality(B[x]) = f[x],
         NEW U, \A u : u \in U <=> u = <<u[1], u[2]>> /\ u[1] \in D /\ u[2] \in B[u[1]]
  PROVE  IsFiniteSet(U) /\ Cardinality(U) = Total(f)
<1>1. \A x \in D : \E m : m \in Bijection(1..f[x], B[x])
  BY FS_CardinalityType DEF ExistsBijection
<1> DEFINE g == [x \in D |-> CHOOSE m : m \in Bijection(1..f[x], B[x])]
           b == [c \in Counted(f) |-> <<c[1], g[c[1]][c[2]]>>]
<1>2. \A x \in D : g[x] \in Bijection(1..f[x], B[x])
  BY <1>1
<1>3. \A c : c \in Counted(f) <=> c = <<c[1], c[2]>> /\ c[1] \in D /\ c[2] \in 1..f[c[1]]
  BY CountedFacts
<1> HIDE DEF g
<1>4. b \in Bijection(Counted(f), U)
  <2>1. \A x \in D : \A k \in 1..f[x] : g[x][k] \in B[x]
    BY <1>2 DEF Bijection, Injection, IsInjective
  <2>2. \A x \in D : \A k, l \in 1..f[x] : g[x][k] = g[x][l] => k = l
    BY <1>2 DEF Bijection, Injection, IsInjective
  <2>3. \A x \in D : \A y \in B[x] : \E k \in 1..f[x] : g[x][k] = y
    BY <1>2 DEF Bijection, Surjection
  <2>4. ASSUME NEW c \in Counted(f) PROVE b[c] \in U
    <3>1. c[1] \in D /\ g[c[1]][c[2]] \in B[c[1]]
      BY <1>3, <2>1
    <3>2. b[c][1] = c[1] /\ b[c][2] = g[c[1]][c[2]] /\ b[c] = <<b[c][1], b[c][2]>>
      OBVIOUS
    <3> QED
      BY <3>1, <3>2
  <2>5. ASSUME NEW c \in Counted(f), NEW d \in Counted(f), b[c] = b[d] PROVE c = d
    <3>1. c[1] = d[1] /\ g[c[1]][c[2]] = g[d[1]][d[2]]
      BY <2>5
    <3> QED
      BY <1>3, <2>2, <3>1
  <2>6. ASSUME NEW u \in U PROVE \E c \in Counted(f) : b[c] = u
    <3>1. u = <<u[1], u[2]>> /\ u[1] \in D /\ u[2] \in B[u[1]]
      OBVIOUS
    <3>2. PICK k \in 1..f[u[1]] : g[u[1]][k] = u[2]
      BY <2>3, <3>1
    <3>3. <<u[1], k>>[1] = u[1] /\ <<u[1], k>>[2] = k
      OBVIOUS
    <3>4. <<u[1], k>> \in Counted(f)
      BY <1>3, <3>1, <3>3
    <3>5. b[<<u[1], k>>] = <<u[1], g[u[1]][k]>>
      BY <3>4, <3>3
    <3> QED
      BY <3>1, <3>2, <3>4, <3>5
  <2>7. b \in [Counted(f) -> U]
    BY <2>4
  <2> HIDE DEF b
  <2> QED
    BY <2>5, <2>6, <2>7 DEF Bijection, Injection, IsInjective, Surjection
<1> QED
  BY <1>4, CountedFacts, FS_Bijection DEF ExistsBijection, Total

(* The sum of the numbers of pairs of a relation, by their left.           *)
LEMMA TotalOfRelation ==
  ASSUME NEW D, IsFiniteSet(D), NEW V, IsFiniteSet(V), NEW R \in SUBSET (D \X V),
         NEW f, f = [x \in D |-> Cardinality({y \in V : <<x, y>> \in R})]
  PROVE  f \in [D -> Nat] /\ Total(f) = Cardinality(R)
<1> DEFINE B == [x \in D |-> {y \in V : <<x, y>> \in R}]
<1>1. \A x \in D : IsFiniteSet(B[x]) /\ Cardinality(B[x]) = f[x] /\ f[x] \in Nat
  <2> TAKE x \in D
  <2>1. B[x] \in SUBSET V
    OBVIOUS
  <2>2. IsFiniteSet(B[x])
    BY <2>1, FS_Subset
  <2>3. Cardinality(B[x]) \in Nat
    BY <2>2, FS_CardinalityType
  <2> QED
    BY <2>2, <2>3
<1>2. f \in [D -> Nat]
  BY <1>1
<1>3. \A u : u \in R <=> u = <<u[1], u[2]>> /\ u[1] \in D /\ u[2] \in B[u[1]]
  OBVIOUS
<1>4. \A x \in D : IsFiniteSet(B[x]) /\ Cardinality(B[x]) = f[x]
  BY <1>1
<1>5. Cardinality(R) = Total(f)
  <2> HIDE DEF B
  <2> QED
    BY ONLY IsFiniteSet(D), <1>2, <1>3, <1>4, TotalIsUnion
<1> QED
  BY <1>2, <1>5

(* Sums of sums.                                                           *)
LEMMA TotalAdds ==
  ASSUME NEW D, IsFiniteSet(D), NEW f \in [D -> Nat], NEW g \in [D -> Nat],
         NEW s, s = [x \in D |-> f[x] + g[x]]
  PROVE  s \in [D -> Nat] /\ Total(s) = Total(f) + Total(g)
<1>1. s \in [D -> Nat]
  OBVIOUS
<1> DEFINE A == Counted(f)
           B == {c \in Counted(s) : c[2] > f[c[1]]}
           b == [c \in Counted(g) |-> <<c[1], f[c[1]] + c[2]>>]
<1>2. \A c : c \in Counted(s) <=> c = <<c[1], c[2]>> /\ c[1] \in D /\ c[2] \in 1..s[c[1]]
  BY <1>1, CountedFacts
<1>3. \A c : c \in Counted(f) <=> c = <<c[1], c[2]>> /\ c[1] \in D /\ c[2] \in 1..f[c[1]]
  BY CountedFacts
<1>4. \A c : c \in Counted(g) <=> c = <<c[1], c[2]>> /\ c[1] \in D /\ c[2] \in 1..g[c[1]]
  BY CountedFacts
<1>5. Counted(s) = A \cup B /\ A \cap B = {}
  <2>1. \A c \in Counted(f) : c \in Counted(s) /\ ~ (c[2] > f[c[1]])
    BY <1>1, <1>2, <1>3
  <2>2. \A c \in Counted(s) : c[2] > f[c[1]] \/ c \in Counted(f)
    BY <1>1, <1>2, <1>3
  <2> QED
    BY <2>1, <2>2
<1>6. b \in Bijection(Counted(g), B)
  <2>1. ASSUME NEW c \in Counted(g) PROVE b[c] \in B
    <3>1. b[c][1] = c[1] /\ b[c][2] = f[c[1]] + c[2] /\ b[c] = <<b[c][1], b[c][2]>>
      OBVIOUS
    <3>2. c[1] \in D /\ c[2] \in 1..g[c[1]] /\ f[c[1]] \in Nat /\ g[c[1]] \in Nat
      BY <1>4
    <3>3. f[c[1]] + c[2] \in 1..s[c[1]] /\ f[c[1]] + c[2] > f[c[1]]
      BY <3>2
    <3> QED
      BY <1>2, <3>1, <3>2, <3>3
  <2>2. ASSUME NEW c \in Counted(g), NEW d \in Counted(g), b[c] = b[d] PROVE c = d
    <3>1. c[1] = d[1] /\ f[c[1]] + c[2] = f[d[1]] + d[2]
      BY <2>2
    <3>2. c[1] \in D /\ c[2] \in Int /\ d[2] \in Int /\ f[c[1]] \in Nat
      BY <1>4, <3>1
    <3>3. c[2] = d[2]
      BY <3>1, <3>2
    <3> QED
      BY <1>4, <3>1, <3>3
  <2>3. ASSUME NEW u \in B PROVE \E c \in Counted(g) : b[c] = u
    <3>1. u = <<u[1], u[2]>> /\ u[1] \in D /\ u[2] \in 1..s[u[1]] /\ u[2] > f[u[1]]
      BY <1>2
    <3>2. f[u[1]] \in Nat /\ g[u[1]] \in Nat /\ s[u[1]] = f[u[1]] + g[u[1]]
      BY <3>1
    <3>3. u[2] - f[u[1]] \in 1..g[u[1]] /\ f[u[1]] + (u[2] - f[u[1]]) = u[2]
      BY <3>1, <3>2
    <3>4. PICK k : k = u[2] - f[u[1]]
      OBVIOUS
    <3>5. <<u[1], k>>[1] = u[1] /\ <<u[1], k>>[2] = k
      OBVIOUS
    <3>6. <<u[1], k>> \in Counted(g)
      BY <1>4, <3>1, <3>3, <3>4, <3>5
    <3>7. b[<<u[1], k>>] = <<u[1], f[u[1]] + k>>
      BY <3>5, <3>6
    <3> QED
      BY <3>1, <3>3, <3>4, <3>6, <3>7
  <2>4. b \in [Counted(g) -> B]
    BY <2>1
  <2> HIDE DEF b, B
  <2> QED
    BY <2>2, <2>3, <2>4 DEF Bijection, Injection, IsInjective, Surjection
<1>7. IsFiniteSet(B) /\ Cardinality(B) = Total(g)
  <2> HIDE DEF B, b
  <2> QED
    BY <1>6, CountedFacts, FS_Bijection DEF ExistsBijection, Total
<1>8. IsFiniteSet(A) /\ Cardinality(A) = Total(f) /\ Total(f) \in Nat
  BY CountedFacts DEF Total
<1>9. Cardinality(A \cup B) = Cardinality(A) + Cardinality(B) - Cardinality(A \cap B)
  <2> HIDE DEF A, B
  <2> QED
    BY <1>7, <1>8, FS_Union
<1>10. Cardinality(B) \in Nat
  <2> HIDE DEF B
  <2> QED
    BY <1>7, FS_CardinalityType
<1>11. Cardinality(A \cap B) = 0
  BY <1>5, FS_EmptySet
<1>12. Total(s) = Cardinality(A \cup B)
  BY <1>5 DEF Total
<1> HIDE DEF A, B
<1> QED
  BY <1>1, <1>7, <1>8, <1>9, <1>10, <1>11, <1>12

LEMMA TotalOfOnes ==
  ASSUME NEW D, IsFiniteSet(D), NEW f, f = [x \in D |-> 1]
  PROVE  f \in [D -> Nat] /\ Total(f) = Cardinality(D)
<1> DEFINE R == D \X {1}
<1>1. f \in [D -> Nat]
  OBVIOUS
<1>2. \A u : u \in R <=> u = <<u[1], u[2]>> /\ u[1] \in D /\ u[2] \in 1..f[u[1]]
  OBVIOUS
<1>3. \A u : u \in Counted(f) <=> u = <<u[1], u[2]>> /\ u[1] \in D /\ u[2] \in 1..f[u[1]]
  BY <1>1, CountedFacts
<1>4. Counted(f) = R
  BY <1>2, <1>3
<1>5. IsFiniteSet({1}) /\ Cardinality({1}) = 1
  BY FS_Singleton
<1>6. Cardinality(R) = Cardinality(D) * 1 /\ Cardinality(D) \in Nat
  BY <1>5, FS_Product, FS_CardinalityType
<1>7. Cardinality(D) * 1 = Cardinality(D)
  BY <1>6
<1>8. Total(f) = Cardinality(R)
  BY <1>4 DEF Total
<1> HIDE DEF R
<1> QED
  BY <1>1, <1>6, <1>7, <1>8

(* What an argument and others add to a sum.                               *)
LEMMA TotalPart ==
  ASSUME NEW D, IsFiniteSet(D), NEW f \in [D -> Nat], NEW S \in SUBSET D, NEW x \in D \ S,
         NEW part, part = [y \in S |-> f[y]]
  PROVE  Total(part) \in Nat /\ Total(f) \in Nat /\ Total(part) + f[x] <= Total(f)
<1> DEFINE X == {x} \X (1..f[x])
<1>1. part \in [S -> Nat] /\ IsFiniteSet(S)
  BY FS_Subset
<1>2. /\ IsFiniteSet(Counted(part)) /\ Total(part) \in Nat
      /\ \A c : c \in Counted(part) <=> c = <<c[1], c[2]>> /\ c[1] \in S /\ c[2] \in 1..part[c[1]]
  BY <1>1, CountedFacts
<1>3. /\ IsFiniteSet(Counted(f)) /\ Total(f) \in Nat
      /\ \A c : c \in Counted(f) <=> c = <<c[1], c[2]>> /\ c[1] \in D /\ c[2] \in 1..f[c[1]]
  BY CountedFacts
<1>4. IsFiniteSet(X) /\ Cardinality(X) = f[x]
  <2>1. f[x] \in Nat /\ 1 \in Int /\ f[x] \in Int
    OBVIOUS
  <2>2. IsFiniteSet(1..f[x]) /\ Cardinality(1..f[x]) = f[x]
    BY <2>1, FS_Interval
  <2>3. IsFiniteSet({x}) /\ Cardinality({x}) = 1
    BY FS_Singleton
  <2>4. IsFiniteSet(X) /\ Cardinality(X) = 1 * f[x]
    BY <2>2, <2>3, FS_Product
  <2> QED
    BY <2>1, <2>4
<1>5. Counted(part) \cup X \in SUBSET Counted(f) /\ Counted(part) \cap X = {}
  <2>1. \A c \in Counted(part) : c \in Counted(f) /\ c[1] # x
    BY <1>2, <1>3
  <2>2. \A c \in X : c \in Counted(f) /\ c[1] = x
    BY <1>3
  <2> QED
    BY <2>1, <2>2
<1> HIDE DEF X
<1>6. /\ IsFiniteSet(Counted(part) \cup X)
      /\ Cardinality(Counted(part) \cup X) = Cardinality(Counted(part)) + Cardinality(X)
  BY <1>2, <1>4, <1>5, DisjointCount
<1>7. Cardinality(Counted(part) \cup X) <= Cardinality(Counted(f))
  BY <1>3, <1>5, FS_Subset
<1> QED
  BY <1>2, <1>3, <1>4, <1>6, <1>7 DEF Total

(* Blocks that follow each other, each where those before it end.          *)
LEMMA BlocksFollow ==
  ASSUME NEW n \in Nat, NEW f \in [1..n -> Nat],
         NEW start, start = [b \in 1..n |-> Total([c \in 1..b - 1 |-> f[c]])]
  PROVE  /\ Total(f) \in Nat
         /\ \A b \in 1..n : start[b] \in Nat /\ start[b] + f[b] <= Total(f)
         /\ \A a, b \in 1..n : a < b => start[a] + f[a] <= start[b]
<1>0. IsFiniteSet(1..n)
  <2>1. 1 \in Int /\ n \in Int
    OBVIOUS
  <2> QED
    BY <2>1, FS_Interval
<1>1. ASSUME NEW b \in 1..n
      PROVE  start[b] \in Nat /\ start[b] + f[b] <= Total(f)
  <2>1. 1..b - 1 \in SUBSET (1..n) /\ b \in (1..n) \ (1..b - 1)
    OBVIOUS
  <2>2. PICK part : part = [c \in 1..b - 1 |-> f[c]]
    OBVIOUS
  <2>3. start[b] = Total(part)
    BY <2>2
  <2>4. Total(part) \in Nat /\ Total(part) + f[b] <= Total(f)
    <3>1. PICK S \in SUBSET (1..n) : S = 1..b - 1
      BY <2>1
    <3>2. b \in (1..n) \ S /\ part = [c \in S |-> f[c]]
      BY <2>1, <2>2, <3>1
    <3> QED
      BY <1>0, <3>2, TotalPart
  <2> QED
    BY <2>3, <2>4
<1>2. ASSUME NEW a \in 1..n, NEW b \in 1..n, a < b
      PROVE  start[a] + f[a] <= start[b]
  <2>1. PICK part : part = [c \in 1..a - 1 |-> f[c]]
    OBVIOUS
  <2>2. PICK more : more = [c \in 1..b - 1 |-> f[c]]
    OBVIOUS
  <2>3. /\ more \in [1..b - 1 -> Nat] /\ 1..a - 1 \in SUBSET (1..b - 1)
        /\ a \in (1..b - 1) \ (1..a - 1) /\ part = [c \in 1..a - 1 |-> more[c]]
        /\ more[a] = f[a]
    BY <1>2, <2>1, <2>2
  <2>4. IsFiniteSet(1..b - 1)
    <3>1. 1 \in Int /\ b - 1 \in Int
      OBVIOUS
    <3> QED
      BY <3>1, FS_Interval
  <2>5. Total(part) + more[a] <= Total(more)
    BY ONLY <2>3, <2>4, TotalPart
  <2> QED
    BY <2>1, <2>2, <2>3, <2>5
<1>3. Total(f) \in Nat
  BY <1>0, CountedFacts
<1> QED
  BY <1>1, <1>2, <1>3

(* The ranks of the rows P among all, summed up, are the pairs of P with   *)
(* the rows below, twice, with the rows of its ties and with itself; of    *)
(* these the pairs within P are as many whatever the scores are.           *)
LEMMA AucCountsPairs ==
  ASSUME NEW P, IsFiniteSet(P), NEW N, IsFiniteSet(N), P \cap N = {},
         NEW score, \A y \in P \cup N : score[y] \in Nat
  PROVE  Auc(P, N, score) =
           2 * Cardinality({d \in P \X N : score[d[1]] > score[d[2]]})
             + Cardinality({d \in P \X N : score[d[1]] = score[d[2]]})
<1> DEFINE V == P \cup N
           Below(T) == {d \in P \X T : score[d[2]] < score[d[1]]}
           Tied(T)  == {d \in P \X T : score[d[2]] = score[d[1]]}
           Above == {d \in P \X P : score[d[2]] > score[d[1]]}
           below == [x \in P |-> Cardinality({y \in V : <<x, y>> \in Below(V)})]
           tied  == [x \in P |-> Cardinality({y \in V : <<x, y>> \in Tied(V)})]
           one   == [x \in P |-> 1]
           two   == [x \in P |-> below[x] + below[x]]
           three == [x \in P |-> two[x] + tied[x]]
           rank2 == [x \in P |-> three[x] + one[x]]
<1>1. IsFiniteSet(V) /\ \A x \in V : score[x] \in Nat
  BY FS_Union
<1>2. /\ below \in [P -> Nat] /\ Total(below) = Cardinality(Below(V))
      /\ tied \in [P -> Nat] /\ Total(tied) = Cardinality(Tied(V))
  <2>1. Below(V) \in SUBSET (P \X V) /\ Tied(V) \in SUBSET (P \X V)
    OBVIOUS
  <2> HIDE DEF V, Below, Tied
  <2>2. below \in [P -> Nat] /\ Total(below) = Cardinality(Below(V))
    BY ONLY IsFiniteSet(P), <1>1, <2>1, TotalOfRelation
  <2>3. tied \in [P -> Nat] /\ Total(tied) = Cardinality(Tied(V))
    BY ONLY IsFiniteSet(P), <1>1, <2>1, TotalOfRelation
  <2> QED
    BY <2>2, <2>3
<1>3. one \in [P -> Nat] /\ Total(one) = Cardinality(P)
  BY TotalOfOnes
<1>4. Total(rank2) = 2 * Cardinality(Below(V)) + Cardinality(Tied(V)) + Cardinality(P)
  <2> HIDE DEF below, tied, one
  <2>1. two \in [P -> Nat] /\ Total(two) = Total(below) + Total(below)
    BY ONLY IsFiniteSet(P), <1>2, TotalAdds
  <2> HIDE DEF two
  <2>2. three \in [P -> Nat] /\ Total(three) = Total(two) + Total(tied)
    BY ONLY IsFiniteSet(P), <1>2, <2>1, TotalAdds
  <2> HIDE DEF three
  <2>3. Total(rank2) = Total(three) + Total(one)
    BY ONLY IsFiniteSet(P), <1>3, <2>2, TotalAdds
  <2>4. Total(below) \in Nat /\ Total(tied) \in Nat /\ Total(one) \in Nat
    BY ONLY IsFiniteSet(P), <1>2, <1>3, CountedFacts
  <2> HIDE DEF rank2
  <2> QED
    BY <1>2, <1>3, <2>1, <2>2, <2>3, <2>4
<1>5. Auc(P, N, score) = Total(rank2) - Cardinality(P) * (Cardinality(P) + 1)
  <2>1. \A x \in P : /\ {y \in V : <<x, y>> \in Below(V)} = {y \in V : score[y] < score[x]}
                     /\ {y \in V : <<x, y>> \in Tied(V)} = {y \in V : score[y] = score[x]}
    OBVIOUS
  <2>2. \A x \in P : rank2[x] = 2 * Cardinality({y \in V : score[y] < score[x]})
                                + Cardinality({y \in V : score[y] = score[x]}) + 1
    <3> TAKE x \in P
    <3>1. /\ below[x] = Cardinality({y \in V : score[y] < score[x]}) /\ below[x] \in Nat
          /\ tied[x] = Cardinality({y \in V : score[y] = score[x]}) /\ tied[x] \in Nat
      BY <1>2, <2>1
    <3>2. rank2[x] = below[x] + below[x] + tied[x] + 1
      OBVIOUS
    <3> HIDE DEF below, tied, rank2
    <3> QED
      BY <3>1, <3>2
  <2>3. rank2 = [x \in P |-> 2 * Cardinality({y \in V : score[y] < score[x]})
                                + Cardinality({y \in V : score[y] = score[x]}) + 1]
    BY <2>2
  <2> HIDE DEF rank2
  <2> QED
    BY <2>3 DEF Auc
<1>6. /\ IsFiniteSet(Below(N)) /\ IsFiniteSet(Below(P)) /\ IsFiniteSet(Tied(N)) /\ IsFiniteSet(Tied(P))
      /\ IsFiniteSet(Above)
  <2>1. IsFiniteSet(P \X P) /\ IsFiniteSet(P \X N)
    BY FS_Product
  <2>2. /\ Below(N) \in SUBSET (P \X N) /\ Below(P) \in SUBSET (P \X P)
        /\ Tied(N) \in SUBSET (P \X N) /\ Tied(P) \in SUBSET (P \X P)
        /\ Above \in SUBSET (P \X P)
    OBVIOUS
  <2> HIDE DEF Below, Tied, Above
  <2> QED
    BY ONLY <2>1, <2>2, FS_Subset
<1>7. /\ Cardinality(Below(V)) = Cardinality(Below(N)) + Cardinality(Below(P))
      /\ Cardinality(Tied(V)) = Cardinality(Tied(N)) + Cardinality(Tied(P))
  <2>1. /\ Below(V) = Below(N) \cup Below(P) /\ Below(N) \cap Below(P) = {}
        /\ Tied(V) = Tied(N) \cup Tied(P) /\ Tied(N) \cap Tied(P) = {}
    OBVIOUS
  <2> HIDE DEF Below, Tied
  <2> QED
    BY ONLY <1>6, <2>1, DisjointCount
<1>8. Cardinality(P) * Cardinality(P) = Cardinality(Below(P)) + Cardinality(Above) + Cardinality(Tied(P))
  <2>1. /\ P \X P = (Below(P) \cup Above) \cup Tied(P) /\ (Below(P) \cup Above) \cap Tied(P) = {}
        /\ Below(P) \cap Above = {}
    BY <1>1
  <2>2. Cardinality(P \X P) = Cardinality(P) * Cardinality(P)
    BY FS_Product
  <2> HIDE DEF Below, Above, Tied
  <2>3. /\ IsFiniteSet(Below(P) \cup Above)
        /\ Cardinality(Below(P) \cup Above) = Cardinality(Below(P)) + Cardinality(Above)
    BY ONLY <1>6, <2>1, DisjointCount
  <2>4. Cardinality((Below(P) \cup Above) \cup Tied(P)) = Cardinality(Below(P) \cup Above) + Cardinality(Tied(P))
    BY ONLY <1>6, <2>1, <2>3, DisjointCount
  <2> QED
    BY <2>1, <2>2, <2>3, <2>4
<1>9. Cardinality(Above) = Cardinality(Below(P))
  <2> DEFINE b == [d \in Below(P) |-> <<d[2], d[1]>>]
  <2>1. b \in Bijection(Below(P), Above)
    <3>1. \A d \in Below(P) : b[d] \in Above /\ d = <<d[1], d[2]>>
      OBVIOUS
    <3>2. \A c, d \in Below(P) : b[c] = b[d] => c = d
      BY <3>1
    <3>3. \A d \in Above : <<d[2], d[1]>> \in Below(P) /\ b[<<d[2], d[1]>>] = d
      OBVIOUS
    <3>4. b \in [Below(P) -> Above]
      BY <3>1
    <3> HIDE DEF b, Above, Below
    <3> QED
      BY <3>2, <3>3, <3>4 DEF Bijection, Injection, IsInjective, Surjection
  <2> HIDE DEF b, Above, Below
  <2> QED
    BY <1>6, <2>1, FS_Bijection DEF ExistsBijection
<1>10. /\ Cardinality(Below(N)) \in Nat /\ Cardinality(Below(P)) \in Nat
       /\ Cardinality(Tied(N)) \in Nat /\ Cardinality(Tied(P)) \in Nat
       /\ Cardinality(P) \in Nat
  <2> HIDE DEF Below, Tied
  <2> QED
    BY <1>6, FS_CardinalityType
<1>11. /\ {d \in P \X N : score[d[1]] > score[d[2]]} = Below(N)
       /\ {d \in P \X N : score[d[1]] = score[d[2]]} = Tied(N)
  BY <1>1
<1> HIDE DEF Below, Tied, Above, V, rank2
<1>12. Cardinality(P) * (Cardinality(P) + 1) = 2 * Cardinality(Below(P)) + Cardinality(Tied(P)) + Cardinality(P)
  <2>1. PICK p \in Nat : p = Cardinality(P)
    BY <1>10
  <2>2. p * (p + 1) = p * p + p
    OBVIOUS
  <2>3. p * p = 2 * Cardinality(Below(P)) + Cardinality(Tied(P))
    BY <1>8, <1>9, <1>10, <2>1
  <2> QED
    BY <2>1, <2>2, <2>3
<1>13. Auc(P, N, score) = 2 * Cardinality(Below(N)) + Cardinality(Tied(N))
  BY <1>4, <1>5, <1>7, <1>10, <1>12
<1> QED
  BY <1>11, <1>13

(* There are as many score rows as ends of events at the most.             *)
LEMMA ScoresAreFinite ==
  ASSUME NEW R \in Seq(Row), Fronted(R), NEW det \in Detectors
  PROVE  /\ IsFiniteSet(Scores(det, R, Anyone))
         /\ \A p, n : Cardinality({i \in At(R, p) : n \in Touched(R[i].e)}) \in Nat
<1> DEFINE D == (1..Len(R)) \X (1..3)
           end(e, k) == IF k = 1 THEN e.src ELSE IF k = 2 THEN e.dst ELSE e.svc
           f == [d \in D |-> <<R[d[1]].pos, end(R[d[1]].e, d[2])>>]
           T == {f[d] : d \in D}
<1>1. Len(R) \in Nat /\ DOMAIN R = 1..Len(R)
  OBVIOUS
<1>2. IsFiniteSet(1..Len(R)) /\ IsFiniteSet(1..3)
  <2>1. 1 \in Int /\ 3 \in Int /\ Len(R) \in Int
    BY <1>1
  <2> QED
    BY <2>1, FS_Interval
<1>3. IsFiniteSet(T)
  <2>1. IsFiniteSet(D)
    BY <1>2, FS_Product
  <2>2. f \in Surjection(D, T)
    BY DEF Surjection
  <2> HIDE DEF D, f, T
  <2> QED
    BY <2>1, <2>2, FS_Surjection
<1>4. Scores(det, R, Anyone) = UNION {{p} \X Nodes(det, R, p) : p \in Yielded(R)}
  BY ScoresOfAll
<1>5. Scores(det, R, Anyone) \in SUBSET T
  <2> SUFFICES ASSUME NEW r \in Scores(det, R, Anyone) PROVE r \in T
    OBVIOUS
  <2>1. r = <<r[1], r[2]>> /\ r[2] \in FlashNodes(R, r[1])
    BY <1>4, NodesFacts DEF Nodes
  <2>2. PICK i \in At(R, r[1]) : r[2] \in Touched(R[i].e)
    BY <2>1 DEF FlashNodes
  <2>3. \E k \in 1..3 : r[2] = end(R[i].e, k)
    <3>1. 1 \in 1..3 /\ 2 \in 1..3 /\ 3 \in 1..3
      OBVIOUS
    <3> QED
      BY <2>2, <3>1 DEF Touched
  <2>4. PICK k \in 1..3 : r[2] = end(R[i].e, k)
    BY <2>3
  <2>5. <<i, k>> \in D /\ R[i].pos = r[1]
    BY <1>1, <2>2 DEF At
  <2>6. f[<<i, k>>] = <<r[1], r[2]>>
    BY <2>4, <2>5
  <2> QED
    BY <2>1, <2>5, <2>6
<1>6. IsFiniteSet(Scores(det, R, Anyone))
  <2> HIDE DEF T
  <2> QED
    BY <1>3, <1>5, FS_Subset
<1>7. ASSUME NEW p, NEW n
      PROVE  Cardinality({i \in At(R, p) : n \in Touched(R[i].e)}) \in Nat
  <2>1. {i \in At(R, p) : n \in Touched(R[i].e)} \in SUBSET (1..Len(R))
    BY <1>1 DEF At
  <2> QED
    BY <1>2, <2>1, FS_Subset, FS_CardinalityType
<1> QED
  BY <1>6, <1>7

----------------------------------------------------------------------------
(* What an attacker's events make of the scores of all.                    *)
TruthOf(R, det, attacker, mal, all, touched) ==
  /\ all \subseteq Yielded(R) \X Entities
  /\ \A i \in mal : IsRead(det, R, i) =>
       \A n \in Entities \cap {R[i].e.src, R[i].e.dst} : <<R[i].pos, n>> \in all \cap touched
  /\ \A r \in all \ touched : \A i \in mal \cap At(R, r[1]) :
       r[2] \in Touched(R[i].e) => TypeOf[r[2]] = "Service" /\ r[2] = R[i].e.svc
  /\ \A r \in all \cap touched : \E i \in mal \cap At(R, r[1]) :
       {r[2], attacker} \subseteq {R[i].e.src, R[i].e.dst}

LEMMA TruthFacts ==
  ASSUME NEW R, Fronted(R), NEW attacker \in Pods, NEW mal \in SUBSET DOMAIN R,
         \A i \in mal : attacker \in {R[i].e.src, R[i].e.dst},
         NEW det \in Detectors, NEW all, all = Scores(det, R, Anyone),
         NEW touched,
         touched = UNION {{R[i].pos} \X {R[i].e.src, R[i].e.dst} :
                            i \in {j \in mal : R[j].pos \in Yielded(R)}}
  PROVE  TruthOf(R, det, attacker, mal, all, touched)
<1>1. all = UNION {{p} \X Nodes(det, R, p) : p \in Yielded(R)}
  BY ScoresOfAll
<1>2. \A r \in all : r = <<r[1], r[2]>> /\ r[1] \in Yielded(R) /\ r[2] \in FlashNodes(R, r[1])
  BY <1>1, NodesFacts DEF Nodes
<1>3. all \subseteq Yielded(R) \X Entities
  BY <1>2 DEF FlashNodes
<1>4. \A p, n : <<p, n>> \in touched <=>
        p \in Yielded(R) /\ \E i \in mal : p = R[i].pos /\ n \in {R[i].e.src, R[i].e.dst}
  OBVIOUS
<1>5. ASSUME NEW i \in mal, IsRead(det, R, i), NEW n \in Entities \cap {R[i].e.src, R[i].e.dst}
      PROVE  <<R[i].pos, n>> \in all \cap touched
  <2>1. R[i].pos \in WindowsOf(det, R, n)
    BY <1>5, EndsShow
  <2>2. <<R[i].pos, n>> \in {R[i].pos} \X Nodes(det, R, R[i].pos) /\ R[i].pos \in Yielded(R)
    BY <2>1 DEF WindowsOf
  <2>3. <<R[i].pos, n>> \in all
    BY <1>1, <2>2
  <2> QED
    BY <1>4, <1>5, <2>2, <2>3
<1>6. ASSUME NEW r \in all \ touched, NEW i \in mal \cap At(R, r[1]), r[2] \in Touched(R[i].e)
      PROVE  TypeOf[r[2]] = "Service" /\ r[2] = R[i].e.svc
  <2>1. r = <<R[i].pos, r[2]>> /\ R[i].pos \in Yielded(R)
    BY <1>2, <1>6 DEF At
  <2>2. r[2] \notin {R[i].e.src, R[i].e.dst}
    BY <1>4, <1>6, <2>1
  <2>3. r[2] = R[i].e.svc /\ R[i].e.svc # NoSvc
    BY <1>6, <2>2 DEF Touched
  <2> QED
    BY <1>6, <2>3 DEF Fronted
<1>7. ASSUME NEW r \in all \cap touched
      PROVE  \E i \in mal \cap At(R, r[1]) : {r[2], attacker} \subseteq {R[i].e.src, R[i].e.dst}
  <2>1. <<r[1], r[2]>> \in touched
    BY <1>2, <1>7
  <2>2. PICK i \in mal : r[1] = R[i].pos /\ r[2] \in {R[i].e.src, R[i].e.dst}
    BY <1>4, <2>1
  <2> QED
    BY <2>2 DEF At
<1> QED
  BY <1>3, <1>5, <1>6, <1>7 DEF TruthOf

LEMMA FindsTruth ==
  ASSUME rows \in Seq(Row), NEW det \in Detectors, LabeledDetection(det), rows' = rows
  PROVE  /\ TruthIsFound' /\ AucIsChance'
         /\ found'.det \in Detectors /\ found'.attacker \in Pods
         /\ found'.mal \subseteq DOMAIN rows
         /\ found'.pos \cup found'.neg \cup found'.atk \subseteq Yielded(rows) \X Entities
<1>1. PICK all : all = Scores(det, rows, Anyone)
  OBVIOUS
<1>2. PICK attacker \in Pods, lo \in DOMAIN rows, hi \in DOMAIN rows :
        LET mal == {i \in lo..hi : attacker \in {rows[i].e.src, rows[i].e.dst}}
            hit == all \cap TouchedBy(mal)
        IN  found' = [det |-> det, attacker |-> attacker, mal |-> mal, pos |-> hit,
                      neg |-> all \ hit, atk |-> {r \in hit : r[2] \in Others},
                      auc |-> Auc(hit, all \ hit, [r \in all |-> Score(r)])]
  BY <1>1 DEF LabeledDetection
<1>3. PICK mal : mal = {i \in lo..hi : attacker \in {rows[i].e.src, rows[i].e.dst}}
  OBVIOUS
<1>4. mal \in SUBSET DOMAIN rows /\ \A i \in mal : attacker \in {rows[i].e.src, rows[i].e.dst}
  BY <1>3
<1>5. PICK touched :
        touched = UNION {{rows[i].pos} \X {rows[i].e.src, rows[i].e.dst} :
                           i \in {j \in mal : rows[j].pos \in Yielded(rows)}}
  OBVIOUS
<1>6. PICK new : new = found'
  OBVIOUS
<1>7. /\ new.det = det /\ new.attacker = attacker /\ new.mal = mal
      /\ new.pos = all \cap touched /\ new.neg = all \ touched
      /\ new.atk = {r \in all \cap touched : r[2] \in Others}
      /\ new.auc = Auc(all \cap touched, all \ touched, [r \in all |-> Score(r)])
  <2>1. TouchedBy(mal) = touched
    BY <1>5 DEF TouchedBy, InWindow
  <2>2. all \ (all \cap touched) = all \ touched
    OBVIOUS
  <2> QED
    BY <1>2, <1>3, <1>6, <2>1, <2>2
<1>8. TruthOf(rows, det, attacker, mal, all, touched)
  BY <1>1, <1>4, <1>5, StoredIsFronted, TruthFacts
<1>9. /\ \A i \in new.mal : IsRead(new.det, rows, i) =>
           \A n \in Entities \cap {rows[i].e.src, rows[i].e.dst} : <<rows[i].pos, n>> \in new.pos
      /\ \A r \in new.neg : \A i \in new.mal \cap At(rows, r[1]) :
           r[2] \in Touched(rows[i].e) => TypeOf[r[2]] = "Service" /\ r[2] = rows[i].e.svc
      /\ \A i \in new.mal : IsRead(new.det, rows, i) /\ new.attacker \in Others =>
           <<rows[i].pos, new.attacker>> \in new.atk
      /\ \A r \in new.atk : \E i \in new.mal \cap At(rows, r[1]) :
           {r[2], new.attacker} \subseteq {rows[i].e.src, rows[i].e.dst}
  <2>1. \A i \in mal : attacker \in Entities \cap {rows[i].e.src, rows[i].e.dst}
    BY <1>4 DEF Pods
  <2>2. \A i \in mal : IsRead(det, rows, i) => <<rows[i].pos, attacker>> \in all \cap touched
    BY <1>8, <2>1 DEF TruthOf
  <2>3. \A i \in mal : <<rows[i].pos, attacker>>[2] = attacker
    OBVIOUS
  <2> QED
    BY <1>7, <1>8, <2>2, <2>3 DEF TruthOf
<1>10. TruthIsFound'
  <2>1. /\ \A i : IsRead(found'.det, rows', i) <=> IsRead(found'.det, rows, i)
        /\ \A p : At(rows', p) = At(rows, p)
    BY DEF IsRead
  <2> QED
    BY <1>6, <1>9, <2>1 DEF TruthIsFound
<1>11. new.mal \subseteq DOMAIN rows /\ new.pos \cup new.neg \cup new.atk \subseteq Yielded(rows) \X Entities
  BY <1>4, <1>7, <1>8 DEF TruthOf
<1>12. PICK score : score = [r \in all |-> Score(r)]
  OBVIOUS
<1>13. /\ \A r \in all : score[r] = Score(r) /\ score[r] = Score(r)' /\ score[r] \in Nat
       /\ IsFiniteSet(all)
  <2>1. Fronted(rows)
    BY StoredIsFronted
  <2>2. /\ IsFiniteSet(all)
        /\ \A p, n : Cardinality({i \in At(rows, p) : n \in Touched(rows[i].e)}) \in Nat
    BY <1>1, <2>1, ScoresAreFinite
  <2>3. \A r : Score(r) \in Nat /\ Score(r) = Score(r)'
    BY <2>2 DEF Score, At
  <2> QED
    BY <1>12, <2>2, <2>3
<1>14. /\ IsFiniteSet(new.pos) /\ IsFiniteSet(new.neg) /\ new.pos \cap new.neg = {}
       /\ new.pos \cup new.neg = all
  <2>1. new.pos \in SUBSET all /\ new.neg \in SUBSET all
    BY <1>7
  <2> QED
    BY <1>7, <1>13, <2>1, FS_Subset
<1>15. Auc(new.pos, new.neg, score) =
         2 * Cardinality({d \in new.pos \X new.neg : score[d[1]] > score[d[2]]})
           + Cardinality({d \in new.pos \X new.neg : score[d[1]] = score[d[2]]})
  BY ONLY <1>13, <1>14, AucCountsPairs
<1>16. AucIsChance'
  <2>1. \A d \in new.pos \X new.neg : score[d[1]] = Score(d[1])' /\ score[d[2]] = Score(d[2])'
    BY <1>13, <1>14
  <2>2. /\ {d \in new.pos \X new.neg : score[d[1]] > score[d[2]]}
             = {d \in new.pos \X new.neg : Score(d[1])' > Score(d[2])'}
        /\ {d \in new.pos \X new.neg : score[d[1]] = score[d[2]]}
             = {d \in new.pos \X new.neg : Score(d[1])' = Score(d[2])'}
    BY <2>1
  <2>3. new.auc = Auc(new.pos, new.neg, score)
    BY <1>7, <1>12
  <2> QED
    BY <1>6, <1>15, <2>2, <2>3 DEF AucIsChance
<1> QED
  BY <1>6, <1>7, <1>10, <1>11, <1>16

(* What is found is the truth, about entity-windows of the run.            *)
FoundInv ==
  /\ TruthIsScored
  /\ found.det \in Detectors \cup {"none"}
  /\ found.attacker \in Pods \cup {Anyone}
  /\ found.mal \subseteq DOMAIN rows
  /\ found.pos \cup found.neg \cup found.atk \subseteq Yielded(rows) \X Entities

LEMMA FoundInvHolds == DetectionSpec => []FoundInv
<1>1. ASSUME DetectionInit
      PROVE  FoundInv
  <2>1. found = NoFind
    BY <1>1 DEF DetectionInit, EvalInit
  <2>2. NoFind.det = "none" /\ NoFind.attacker = Anyone /\ NoFind.mal = {} /\ NoFind.pos = {}
        /\ NoFind.neg = {} /\ NoFind.atk = {}
    BY DEF NoFind
  <2> QED
    BY <2>1, <2>2 DEF FoundInv, TruthIsScored, TruthIsFound, AucIsChance
<1>2. ASSUME GraphInv, FoundInv, [Pass \/ Eval \/ Tell]_detVars
      PROVE  FoundInv'
  <2>1. rows' = rows
    BY <1>2 DEF Pass, PassNext, HoldOutLinks, UseAllLinks, Layer, Eval, Tell, detVars, passVars
  <2>2. CASE found' = found
    <3>1. Yielded(rows)' = Yielded(rows)
      BY <2>1
    <3>2. TruthIsFound' <=> TruthIsFound
      BY <2>1, <2>2 DEF TruthIsFound, IsRead
    <3>3. AucIsChance' <=> AucIsChance
      BY <2>1, <2>2 DEF AucIsChance, Score
    <3> QED
      BY <1>2, <2>1, <2>2, <3>1, <3>2, <3>3 DEF FoundInv, TruthIsScored
  <2>3. CASE found' # found
    <3>1. EvalNext
      BY <1>2, <2>3 DEF Pass, Eval, Tell, detVars, evalVars
    <3>2. PICK det \in Detectors : LabeledDetection(det)
      BY <2>3, <3>1 DEF EvalNext, Perturb, ScoreVictim
    <3>3. rows \in Seq(Row)
      BY <1>2 DEF GraphInv
    <3>4. /\ TruthIsFound' /\ AucIsChance'
          /\ found'.det \in Detectors /\ found'.attacker \in Pods
          /\ found'.mal \subseteq DOMAIN rows
          /\ found'.pos \cup found'.neg \cup found'.atk \subseteq Yielded(rows) \X Entities
      BY <2>1, <3>2, <3>3, FindsTruth
    <3>5. DOMAIN rows = DOMAIN rows' /\ Yielded(rows)' = Yielded(rows)
      BY <2>1
    <3> QED
      BY <3>4, <3>5 DEF FoundInv, TruthIsScored
  <2> QED
    BY <2>2, <2>3
<1> QED
  BY <1>1, <1>2, ProbeInvHolds, PTL DEF DetectionSpec

(* The truth about an attack run and the scores that it is compared with   *)
(* are about the same entity-windows, as far as the detector reads it:     *)
(* recall misses no end of a malicious event that is in a window and that  *)
(* no cap can take out, and what is taken for benign although an attack    *)
(* touches it are the Services in front only; attacker_nodes are rows of   *)
(* entities that the attacker dealt with there, its own among them if its  *)
(* role is unknown; and the AUC is the chance that a malicious row scores  *)
(* above a benign one (eval.py:25, 150-151, 200-207, graph.py:37-39).      *)
THEOREM TruthIsScoredAlways == DetectionSpec => []TruthIsScored
  BY FoundInvHolds, PTL DEF FoundInv

(* Graphs, perturbed tables and results of eval keep their shape; scores   *)
(* are of windows of the run and of entities in its table.                 *)
THEOREM EvalTypeCorrect == DetectionSpec => [](PassTypeOK /\ EvalTypeOK)
<1>1. ASSUME ProbeInv, FoundInv
      PROVE  EvalTypeOK
  <2>1. /\ probe.name \in Perturbations \cup {"none"} /\ probe.victim \in Pods \cup {Anyone}
        /\ probe.table \in Seq(Row2) /\ probe.det \in Detectors \cup {"none"}
        /\ probe.base \in SUBSET Nat /\ probe.pert \in SUBSET Nat
    BY <1>1 DEF ProbeInv, Probes
  <2> QED
    BY <1>1, <2>1 DEF EvalTypeOK, FoundInv, Perturbations
<1> QED
  BY <1>1, DetectionImplementsPass, PassTypeCorrect, ProbeInvHolds, FoundInvHolds, PTL

----------------------------------------------------------------------------
(* The feature vectors.  A set of numbers has a least one.                 *)
LEMMA LeastNumber ==
  ASSUME NEW S \in SUBSET Nat, S # {}
  PROVE  \E m \in S : \A x \in S : m <= x
<1> DEFINE R == {p \in Nat \X Nat : p[1] < p[2]}
<1>1. IsWellFoundedOn(R, Nat)
  BY NatLessThanWellFounded DEF OpToRel
<1>2. PICK m \in S : \A x \in S : ~ (<<x, m>> \in R)
  BY <1>1, WFMin
<1>3. \A x \in S : ~ (x < m)
  <2> TAKE x \in S
  <2>1. <<x, m>> \in Nat \X Nat /\ <<x, m>>[1] = x /\ <<x, m>>[2] = m
    OBVIOUS
  <2> QED
    BY <1>2, <2>1
<1> QED
  BY <1>3

(* The events that have field f and say w there.                           *)
UsesOf(R, f, w) ==
  {i \in DOMAIN R : f \in DOMAIN Fields[R[i].e.look] /\ Fields[R[i].e.look][f] = w}

(* The words of a vocabulary have different indices, none of them OOV, and *)
(* no other word is more frequent.                                         *)
LEMMA VocabularyFacts ==
  ASSUME NEW R, DOMAIN R \in SUBSET Nat, IsFiniteSet(DOMAIN R),
         NEW f, NEW dim \in Nat \ {0},
         NEW voc, voc = Vocabulary(R, f, dim)
  PROVE  /\ \A w \in DOMAIN voc : voc[w] \in 1..dim - 1 /\ (f = "name" => w > 1)
         /\ \A w, x \in DOMAIN voc : voc[w] = voc[x] => w = x
         /\ \A w : \A x \in DOMAIN voc : w \notin DOMAIN voc /\ (f = "name" => w > 1) =>
              Cardinality(UsesOf(R, f, w)) <= Cardinality(UsesOf(R, f, x))
<1> DEFINE has(i)   == f \in DOMAIN Fields[R[i].e.look] /\ (f = "name" => Fields[R[i].e.look].name > 1)
           uses(w)  == {i \in {j \in DOMAIN R : has(j)} : Fields[R[i].e.look][f] = w}
           words    == {Fields[R[i].e.look][f] : i \in {j \in DOMAIN R : has(j)}}
           count(w) == Cardinality(uses(w))
           start(w) == CHOOSE i \in uses(w) : \A j \in uses(w) : i <= j
           ahead(w) == {x \in words : count(x) > count(w) \/ (count(x) = count(w) /\ start(x) < start(w))}
           place(w) == Cardinality(ahead(w))
<1>1. voc = [w \in {x \in words : place(x) < dim - 1} |-> place(w) + 1]
  BY DEF Vocabulary
<1>2. IsFiniteSet(words)
  <2> DEFINE D == {j \in DOMAIN R : has(j)}
             g == [i \in D |-> Fields[R[i].e.look][f]]
  <2>1. D \in SUBSET DOMAIN R
    OBVIOUS
  <2>2. IsFiniteSet(D)
    BY <2>1, FS_Subset
  <2>3. g \in Surjection(D, words)
    BY DEF Surjection
  <2> HIDE DEF D, g, words
  <2> QED
    BY <2>2, <2>3, FS_Surjection
<1>3. ASSUME NEW w
      PROVE  count(w) \in Nat /\ uses(w) \in SUBSET Nat
  <2>1. uses(w) \in SUBSET DOMAIN R
    OBVIOUS
  <2> HIDE DEF uses
  <2> QED
    BY <2>1, FS_Subset, FS_CardinalityType
<1>4. ASSUME NEW w \in words
      PROVE  start(w) \in uses(w) /\ start(w) \in Nat
  <2>1. uses(w) # {}
    OBVIOUS
  <2>2. uses(w) \in SUBSET Nat
    BY <1>3
  <2>3. \E i \in uses(w) : \A j \in uses(w) : i <= j
    <3> HIDE DEF uses
    <3> QED
      BY <2>1, <2>2, LeastNumber
  <2>4. start(w) \in uses(w)
    <3> HIDE DEF uses
    <3> QED
      BY <2>3
  <2> QED
    BY <2>2, <2>4
<1>5. ASSUME NEW w \in words, NEW x \in words, start(w) = start(x)
      PROVE  w = x
  <2>1. \A i : i \in uses(w) /\ i \in uses(x) => w = x
    OBVIOUS
  <2> HIDE DEF start, uses
  <2> QED
    BY <1>4, <1>5, <2>1
<1>6. ASSUME NEW w \in words
      PROVE  IsFiniteSet(ahead(w)) /\ place(w) \in Nat
  <2>1. ahead(w) \in SUBSET words
    OBVIOUS
  <2> HIDE DEF ahead, words
  <2> QED
    BY <1>2, <2>1, FS_Subset, FS_CardinalityType
<1>7. ASSUME NEW w \in words, NEW x \in words, x \in ahead(w)
      PROVE  place(x) < place(w)
  <2>1. /\ count(w) \in Nat /\ count(x) \in Nat /\ \A y \in words : count(y) \in Nat
        /\ start(w) \in Nat /\ start(x) \in Nat /\ \A y \in words : start(y) \in Nat
    <3> HIDE DEF count, start, words, uses
    <3> QED
      BY <1>3, <1>4, <1>7
  <2>2. ahead(x) \in SUBSET ahead(w) /\ x \notin ahead(x)
    <3> HIDE DEF count, start, words
    <3> QED
      BY <1>7, <2>1
  <2> HIDE DEF ahead
  <2> QED
    BY <1>6, <1>7, <2>2, ProperSubset
<1>8. ASSUME NEW w \in words, NEW x \in words, w # x
      PROVE  x \in ahead(w) \/ w \in ahead(x)
  <2>1. /\ count(w) \in Nat /\ count(x) \in Nat
        /\ start(w) \in Nat /\ start(x) \in Nat /\ start(w) # start(x)
    BY <1>3, <1>4, <1>5, <1>8
  <2> HIDE DEF count, start, words
  <2> QED
    BY <1>8, <2>1
<1>9. \A w \in DOMAIN voc : w \in words /\ voc[w] = place(w) + 1 /\ place(w) < dim - 1
  BY <1>1
<1>10. ASSUME NEW w \in DOMAIN voc
       PROVE  voc[w] \in 1..dim - 1 /\ (f = "name" => w > 1)
  <2>1. f = "name" => w > 1
    BY <1>9
  <2>2. w \in words /\ place(w) \in Nat /\ voc[w] = place(w) + 1 /\ place(w) < dim - 1
    BY <1>6, <1>9
  <2> HIDE DEF place, words
  <2> QED
    BY <2>1, <2>2
<1>11. ASSUME NEW w \in DOMAIN voc, NEW x \in DOMAIN voc, voc[w] = voc[x]
       PROVE  w = x
  <2>1. /\ w \in words /\ place(w) \in Nat /\ voc[w] = place(w) + 1
        /\ x \in words /\ place(x) \in Nat /\ voc[x] = place(x) + 1
    BY <1>6, <1>9
  <2>2. w # x => place(w) < place(x) \/ place(x) < place(w)
    <3> HIDE DEF words, ahead, place
    <3> QED
      BY <1>7, <1>8, <2>1
  <2> HIDE DEF words, place, ahead, count, start, uses
  <2>3. place(w) + 1 = place(x) + 1
    BY <1>11, <2>1
  <2>4. ~ (place(w) < place(x)) /\ ~ (place(x) < place(w))
    BY <2>1, <2>3
  <2> QED
    BY <2>2, <2>4
<1>12. ASSUME NEW w, f = "name" => w > 1
       PROVE  UsesOf(R, f, w) = uses(w)
  BY <1>12 DEF UsesOf
<1>13. ASSUME NEW w, NEW x \in DOMAIN voc, w \notin DOMAIN voc, f = "name" => w > 1
       PROVE  count(w) <= count(x)
  <2>1. count(w) \in Nat /\ count(x) \in Nat /\ x \in words
    BY <1>3, <1>9
  <2>2. CASE w \in words
    <3>1. place(w) \in Nat /\ place(x) \in Nat /\ place(x) < dim - 1 /\ ~ (place(w) < dim - 1)
      BY <1>1, <1>6, <1>9, <1>13, <2>1, <2>2
    <3>2. ~ (place(w) < place(x))
      <4> HIDE DEF words, place
      <4> QED
        BY <3>1
    <3>3. w \notin ahead(x)
      BY <1>7, <2>1, <2>2, <3>2
    <3>4. ~ (count(w) > count(x))
      BY <2>2, <3>3
    <3> HIDE DEF count
    <3> QED
      BY <2>1, <3>4
  <2>3. CASE w \notin words
    <3>1. uses(w) = {}
      BY <2>3
    <3>2. count(w) = 0
      BY <3>1, FS_EmptySet
    <3> HIDE DEF count
    <3> QED
      BY <2>1, <3>2
  <2> QED
    BY <2>2, <2>3
<1>14. ASSUME NEW w, NEW x \in DOMAIN voc, w \notin DOMAIN voc, f = "name" => w > 1
       PROVE  Cardinality(UsesOf(R, f, w)) <= Cardinality(UsesOf(R, f, x))
  <2>1. UsesOf(R, f, w) = uses(w) /\ UsesOf(R, f, x) = uses(x)
    BY <1>10, <1>12, <1>14
  <2>2. count(w) <= count(x)
    BY <1>13, <1>14
  <2> QED
    BY <2>1, <2>2
<1> QED
  BY <1>10, <1>11, <1>14

(* The blocks of the t-th type, and their fields and widths.               *)
BlocksOf(t)    == DOMAIN Layout[TypeOrder[t]]
FieldAt(t, b)  == Layout[TypeOrder[t]][b]
WidthAt(t, b)  == Width[FieldAt(t, b)]

LEMMA LayoutFacts ==
  ASSUME NEW t \in DOMAIN TypeOrder
  PROVE  /\ \E n \in Nat : BlocksOf(t) = 1..n
         /\ \A b \in BlocksOf(t) : WidthAt(t, b) \in Nat /\ FieldAt(t, b) \in DOMAIN Width
<1>1. DOMAIN TypeOrder = {1, 2, 3, 4}
  BY DEF TypeOrder
<1>2. PathDim \in Nat /\ NameDim \in Nat /\ ResDim \in Nat
  BY FeaturesAssumption
<1>3. CASE t = 1
  <2>1. Layout[TypeOrder[t]] = <<"protocol", "method", "path", "status", "grpc_status", "flags",
                                 "scaled", "reporter_views">>
    BY <1>3 DEF Layout, TypeOrder
  <2>2. BlocksOf(t) = 1..8
    BY <2>1 DEF BlocksOf
  <2>3. \A b \in BlocksOf(t) : WidthAt(t, b) \in Nat /\ FieldAt(t, b) \in DOMAIN Width
    BY <1>2, <2>1, <2>2 DEF WidthAt, FieldAt, Width
  <2> QED
    BY <2>2, <2>3
<1>4. CASE t = 2
  <2>1. Layout[TypeOrder[t]] = <<"l4_proto", "port", "verdict", "drop_reason", "is_reply">>
    BY <1>4 DEF Layout, TypeOrder
  <2>2. BlocksOf(t) = 1..5
    BY <2>1 DEF BlocksOf
  <2>3. \A b \in BlocksOf(t) : WidthAt(t, b) \in Nat /\ FieldAt(t, b) \in DOMAIN Width
    BY <1>2, <2>1, <2>2 DEF WidthAt, FieldAt, Width
  <2> QED
    BY <2>2, <2>3
<1>5. CASE t = 3
  <2>1. Layout[TypeOrder[t]] = <<"qtype", "name_kind", "name", "rcode">>
    BY <1>5 DEF Layout, TypeOrder
  <2>2. BlocksOf(t) = 1..4
    BY <2>1 DEF BlocksOf
  <2>3. \A b \in BlocksOf(t) : WidthAt(t, b) \in Nat /\ FieldAt(t, b) \in DOMAIN Width
    BY <1>2, <2>1, <2>2 DEF WidthAt, FieldAt, Width
  <2> QED
    BY <2>2, <2>3
<1>6. CASE t = 4
  <2>1. Layout[TypeOrder[t]] = <<"verb", "resource", "subresource", "user", "status">>
    BY <1>6 DEF Layout, TypeOrder
  <2>2. BlocksOf(t) = 1..5
    BY <2>1 DEF BlocksOf
  <2>3. \A b \in BlocksOf(t) : WidthAt(t, b) \in Nat /\ FieldAt(t, b) \in DOMAIN Width
    BY <1>2, <2>1, <2>2 DEF WidthAt, FieldAt, Width
  <2> QED
    BY <2>2, <2>3
<1> QED
  BY <1>1, <1>3, <1>4, <1>5, <1>6

(* No two blocks have a slot in common, and all have theirs within the     *)
(* vector, after the slots for type and time.                              *)
LEMMA SlotFacts ==
  /\ Shared \in Nat /\ EventDim \in Nat /\ Shared <= EventDim /\ Len(TypeOrder) <= Shared
  /\ \A t \in DOMAIN TypeOrder : \A b \in BlocksOf(t) :
       /\ FirstSlot[t][b] \in Nat /\ Shared <= FirstSlot[t][b]
       /\ FirstSlot[t][b] + WidthAt(t, b) <= EventDim
  /\ \A t \in DOMAIN TypeOrder : \A a, b \in BlocksOf(t) :
       a < b => FirstSlot[t][a] + WidthAt(t, a) <= FirstSlot[t][b]
  /\ \A t, u \in DOMAIN TypeOrder : \A a \in BlocksOf(t), b \in BlocksOf(u) :
       t < u => FirstSlot[t][a] + WidthAt(t, a) <= FirstSlot[u][b]
<1> DEFINE ds == [t \in DOMAIN TypeOrder |-> Dim(TypeOrder[t])]
           ts == [t \in DOMAIN TypeOrder |-> Total([u \in 1..t - 1 |-> ds[u]])]
           ws(t) == [b \in BlocksOf(t) |-> WidthAt(t, b)]
           bs(t) == [b \in BlocksOf(t) |-> Total([c \in 1..b - 1 |-> ws(t)[c]])]
<1>1. Shared \in Nat /\ Len(TypeOrder) = 4 /\ DOMAIN TypeOrder = 1..4 /\ 4 <= Shared
  BY FeaturesAssumption DEF TypeOrder, Shared
<1>2. ASSUME NEW t \in DOMAIN TypeOrder
      PROVE  /\ ds[t] = Total(ws(t)) /\ ds[t] \in Nat
             /\ \A b \in BlocksOf(t) : /\ bs(t)[b] \in Nat /\ WidthAt(t, b) \in Nat
                                       /\ bs(t)[b] + WidthAt(t, b) <= ds[t]
             /\ \A a, b \in BlocksOf(t) : a < b => bs(t)[a] + WidthAt(t, a) <= bs(t)[b]
  <2>1. PICK n \in Nat : BlocksOf(t) = 1..n
    BY LayoutFacts
  <2>2. PICK w : w = ws(t)
    OBVIOUS
  <2>3. w \in [1..n -> Nat] /\ \A b \in 1..n : w[b] = WidthAt(t, b)
    BY <2>1, <2>2, LayoutFacts
  <2>4. bs(t) = [b \in 1..n |-> Total([c \in 1..b - 1 |-> w[c]])]
    BY <2>1, <2>2
  <2>5. ds[t] = Total(w)
    BY <2>2 DEF Dim, WidthOf, BlocksOf, WidthAt, FieldAt
  <2>6. PICK s : s = bs(t)
    OBVIOUS
  <2>7. /\ Total(w) \in Nat
        /\ \A b \in 1..n : s[b] \in Nat /\ s[b] + w[b] <= Total(w)
        /\ \A a, b \in 1..n : a < b => s[a] + w[a] <= s[b]
    <3> HIDE DEF bs
    <3> QED
      BY <2>3, <2>4, <2>6, BlocksFollow
  <2> HIDE DEF ds, bs, ws
  <2> QED
    BY <2>1, <2>2, <2>3, <2>5, <2>6, <2>7
<1>3. /\ Total(ds) \in Nat
      /\ \A t \in 1..4 : ts[t] \in Nat /\ ts[t] + ds[t] <= Total(ds)
      /\ \A t, u \in 1..4 : t < u => ts[t] + ds[t] <= ts[u]
  <2>1. ds \in [1..4 -> Nat]
    BY <1>1, <1>2
  <2>2. ts = [t \in 1..4 |-> Total([u \in 1..t - 1 |-> ds[u]])]
    BY <1>1
  <2> HIDE DEF ds, ts
  <2> QED
    BY <2>1, <2>2, BlocksFollow
<1>4. EventDim = Shared + Total(ds)
  BY DEF EventDim
<1>5. ASSUME NEW t \in DOMAIN TypeOrder, NEW b \in BlocksOf(t)
      PROVE  FirstSlot[t][b] = Shared + ts[t] + bs(t)[b]
  <2>1. PICK n \in Nat : BlocksOf(t) = 1..n
    BY LayoutFacts
  <2>2. [u \in 1..t - 1 |-> Dim(TypeOrder[u])] = [u \in 1..t - 1 |-> ds[u]]
    BY <1>1
  <2>3. [c \in 1..b - 1 |-> Width[Layout[TypeOrder[t]][c]]] = [c \in 1..b - 1 |-> ws(t)[c]]
    BY <2>1 DEF WidthAt, FieldAt
  <2>4. FirstSlot[t][b] = Shared + Total([u \in 1..t - 1 |-> Dim(TypeOrder[u])])
                                 + Total([c \in 1..b - 1 |-> Width[Layout[TypeOrder[t]][c]]])
    BY DEF FirstSlot, BlocksOf
  <2> QED
    BY <2>2, <2>3, <2>4
<1> HIDE DEF ds, ts, ws, bs
<1>6. ASSUME NEW t \in DOMAIN TypeOrder, NEW b \in BlocksOf(t)
      PROVE  /\ FirstSlot[t][b] \in Nat /\ Shared <= FirstSlot[t][b]
             /\ FirstSlot[t][b] + WidthAt(t, b) <= EventDim
  <2>1. ts[t] \in Nat /\ ts[t] + ds[t] <= Total(ds) /\ Total(ds) \in Nat
    BY <1>1, <1>3
  <2>2. bs(t)[b] \in Nat /\ WidthAt(t, b) \in Nat /\ bs(t)[b] + WidthAt(t, b) <= ds[t] /\ ds[t] \in Nat
    BY <1>2
  <2> QED
    BY <1>1, <1>4, <1>5, <2>1, <2>2
<1>7. ASSUME NEW t \in DOMAIN TypeOrder, NEW a \in BlocksOf(t), NEW b \in BlocksOf(t), a < b
      PROVE  FirstSlot[t][a] + WidthAt(t, a) <= FirstSlot[t][b]
  <2>1. /\ ts[t] \in Nat /\ bs(t)[a] \in Nat /\ bs(t)[b] \in Nat /\ WidthAt(t, a) \in Nat
        /\ bs(t)[a] + WidthAt(t, a) <= bs(t)[b]
    BY <1>1, <1>2, <1>3, <1>7
  <2> QED
    BY <1>1, <1>5, <2>1
<1>8. ASSUME NEW t \in DOMAIN TypeOrder, NEW u \in DOMAIN TypeOrder,
             NEW a \in BlocksOf(t), NEW b \in BlocksOf(u), t < u
      PROVE  FirstSlot[t][a] + WidthAt(t, a) <= FirstSlot[u][b]
  <2>1. ts[t] \in Nat /\ ts[u] \in Nat /\ ts[t] + ds[t] <= ts[u]
    BY <1>1, <1>3, <1>8
  <2>2. /\ bs(t)[a] \in Nat /\ WidthAt(t, a) \in Nat /\ bs(t)[a] + WidthAt(t, a) <= ds[t] /\ ds[t] \in Nat
        /\ bs(u)[b] \in Nat
    BY <1>2
  <2> QED
    BY <1>1, <1>5, <2>1, <2>2
<1>9. EventDim \in Nat /\ Shared <= EventDim
  BY <1>1, <1>3, <1>4
<1> QED
  BY <1>1, <1>6, <1>7, <1>8, <1>9

(* The vocabularies fitted on R, by field.                                 *)
Words == {"path", "name", "resource"}

LEMMA SpecFacts ==
  ASSUME NEW R, DOMAIN R \in SUBSET Nat, IsFiniteSet(DOMAIN R), NEW spec, spec = Fit(R)
  PROVE  /\ DOMAIN spec = Words
         /\ \A f \in Words :
              /\ \A w : Index(spec[f], w) \in 0..Width[f] - 1
              /\ \A w, x : Index(spec[f], w) = Index(spec[f], x) <=>
                             w = x \/ (w \notin DOMAIN spec[f] /\ x \notin DOMAIN spec[f])
              /\ f = "name" => \A w \in DOMAIN spec[f] : w > 1
              /\ \A w : \A x \in DOMAIN spec[f] : w \notin DOMAIN spec[f] /\ (f = "name" => w > 1) =>
                   Cardinality(UsesOf(R, f, w)) <= Cardinality(UsesOf(R, f, x))
<1>1. /\ DOMAIN spec = Words
      /\ spec["path"] = Vocabulary(R, "path", PathDim)
      /\ spec["name"] = Vocabulary(R, "name", NameDim)
      /\ spec["resource"] = Vocabulary(R, "resource", ResDim)
  BY DEF Fit, Words
<1>2. /\ Width["path"] = PathDim /\ Width["name"] = NameDim /\ Width["resource"] = ResDim
      /\ PathDim \in Nat \ {0} /\ NameDim \in Nat \ {0} /\ ResDim \in Nat \ {0}
  BY FeaturesAssumption DEF Width
<1>3. ASSUME NEW f \in Words
      PROVE  spec[f] = Vocabulary(R, f, Width[f]) /\ Width[f] \in Nat \ {0}
  <2>1. CASE f = "path"
    BY <1>1, <1>2, <2>1
  <2>2. CASE f = "name"
    BY <1>1, <1>2, <2>2
  <2>3. CASE f = "resource"
    BY <1>1, <1>2, <2>3
  <2> QED
    BY <2>1, <2>2, <2>3 DEF Words
<1>4. ASSUME NEW f \in Words
      PROVE  /\ \A w : Index(spec[f], w) \in 0..Width[f] - 1
             /\ \A w, x : Index(spec[f], w) = Index(spec[f], x) <=>
                            w = x \/ (w \notin DOMAIN spec[f] /\ x \notin DOMAIN spec[f])
             /\ f = "name" => \A w \in DOMAIN spec[f] : w > 1
             /\ \A w : \A x \in DOMAIN spec[f] : w \notin DOMAIN spec[f] /\ (f = "name" => w > 1) =>
                  Cardinality(UsesOf(R, f, w)) <= Cardinality(UsesOf(R, f, x))
  <2>1. PICK voc : voc = spec[f]
    OBVIOUS
  <2>2. PICK dim \in Nat \ {0} : dim = Width[f]
    BY <1>3
  <2>3. voc = Vocabulary(R, f, dim)
    BY <1>3, <2>1, <2>2
  <2>4. /\ \A w \in DOMAIN voc : voc[w] \in 1..dim - 1 /\ (f = "name" => w > 1)
        /\ \A w, x \in DOMAIN voc : voc[w] = voc[x] => w = x
        /\ \A w : \A x \in DOMAIN voc : w \notin DOMAIN voc /\ (f = "name" => w > 1) =>
             Cardinality(UsesOf(R, f, w)) <= Cardinality(UsesOf(R, f, x))
    BY <2>3, VocabularyFacts
  <2>5. \A w : Index(voc, w) \in 0..dim - 1
    BY <2>4 DEF Index, OOV
  <2>6. \A w, x : Index(voc, w) = Index(voc, x) <=>
                    w = x \/ (w \notin DOMAIN voc /\ x \notin DOMAIN voc)
    BY <2>4 DEF Index, OOV
  <2> QED
    BY <2>1, <2>2, <2>4, <2>5, <2>6
<1> QED
  BY <1>1, <1>4

LEMMA EventFacts ==
  ASSUME NEW e \in Kinds, NEW t \in DOMAIN TypeOrder, TypeOrder[t] = e.type
  PROVE  /\ DOMAIN Fields[e.look] = {FieldAt(t, b) : b \in BlocksOf(t)}
         /\ \A f \in DOMAIN Fields[e.look] : f \in DOMAIN Width /\ Holds(Fields[e.look], f)
<1>1. DOMAIN Fields[e.look] = {FieldAt(t, b) : b \in BlocksOf(t)}
  BY FieldsAssumption DEF FieldAt, BlocksOf
<1>2. \A f \in DOMAIN Fields[e.look] : Holds(Fields[e.look], f)
  BY FieldsAssumption
<1> QED
  BY <1>1, <1>2, LayoutFacts

LEMMA TypeHasPlace ==
  ASSUME NEW e \in Kinds
  PROVE  \E t \in DOMAIN TypeOrder : TypeOrder[t] = e.type
<1>1. e.type \in EventTypes
  BY KindsAssumption DEF KindRecords
<1>2. 1 \in DOMAIN TypeOrder /\ 2 \in DOMAIN TypeOrder /\ 3 \in DOMAIN TypeOrder /\ 4 \in DOMAIN TypeOrder
  BY DEF TypeOrder
<1>3. TypeOrder[1] = "RPC_CALL" /\ TypeOrder[2] = "L4_FLOW" /\ TypeOrder[3] = "DNS_QUERY" /\ TypeOrder[4] = "K8S_API_CALL"
  BY DEF TypeOrder
<1> QED
  BY <1>1, <1>2, <1>3 DEF EventTypes

LEMMA PlaceOfType ==
  ASSUME NEW t \in DOMAIN TypeOrder
  PROVE  Place(TypeOrder[t]) = t
<1>1. \A k \in DOMAIN TypeOrder : TypeOrder[k] = TypeOrder[t] => k = t
  BY DEF TypeOrder
<1> QED
  BY <1>1 DEF Place

(* A field sets slots of its block only.                                   *)
LEMMA SettingsFit ==
  ASSUME NEW R, DOMAIN R \in SUBSET Nat, IsFiniteSet(DOMAIN R), NEW spec, spec = Fit(R),
         NEW F, NEW f \in DOMAIN Width, Holds(F, f), NEW strip,
         NEW v \in Settings(F, f, spec, strip)
  PROVE  v \in 0..Width[f] - 1
<1>1. \A g \in Words : \A w : Index(spec[g], w) \in 0..Width[g] - 1
  BY SpecFacts
<1>2. CASE f \in {"path", "resource"}
  BY <1>1, <1>2 DEF Settings, Words
<1>3. CASE f = "name"
  <2>1. spec.name = spec["name"]
    OBVIOUS
  <2> QED
    BY <1>1, <1>3, <2>1 DEF Settings, Words
<1>4. CASE f = "name_kind"
  <2>1. Width[f] = 3
    BY <1>4 DEF Width
  <2> QED
    BY <1>4, <2>1 DEF Settings, KindOf
<1>5. CASE f = "flags"
  BY <1>5 DEF Settings, Holds
<1>6. CASE f = "reporter_views"
  <2>1. Width[f] = 1
    BY <1>6 DEF Width
  <2> QED
    BY <1>6, <2>1 DEF Settings
<1>7. CASE f = "scaled"
  BY <1>7 DEF Settings
<1>8. CASE f \notin {"path", "resource", "name", "name_kind", "flags", "reporter_views", "scaled"}
  <2>1. F[f] \in 0..Width[f] - 1
    BY <1>8 DEF Holds
  <2>2. v = F[f]
    BY <1>8 DEF Settings
  <2> QED
    BY <2>1, <2>2
<1> QED
  BY <1>2, <1>3, <1>4, <1>5, <1>6, <1>7, <1>8

(* The slots of an event's vector are those that its fields set, each in   *)
(* the block of its field.                                                 *)
LEMMA VectorFacts ==
  ASSUME NEW R, DOMAIN R \in SUBSET Nat, IsFiniteSet(DOMAIN R), NEW spec, spec = Fit(R),
         NEW e \in Kinds, NEW t \in DOMAIN TypeOrder, TypeOrder[t] = e.type, NEW strip,
         NEW vec, vec = Vector(e, spec, strip)
  PROVE  LET set(b) == Settings(Fields[e.look], FieldAt(t, b), spec, strip)
         IN  /\ \A s : s \in vec <=> s = t - 1 \/ \E b \in BlocksOf(t) : \E v \in set(b) : s = FirstSlot[t][b] + v
             /\ \A b \in BlocksOf(t) : \A v \in set(b) : v \in 0..WidthAt(t, b) - 1
             /\ \A b \in BlocksOf(t) : \A v \in 0..WidthAt(t, b) - 1 :
                  FirstSlot[t][b] + v \in vec <=> v \in set(b)
             /\ vec \subseteq 0..EventDim - 1
<1> DEFINE set(b) == Settings(Fields[e.look], FieldAt(t, b), spec, strip)
<1>1. \A b \in BlocksOf(t) : \A v \in set(b) : v \in 0..WidthAt(t, b) - 1
  <2> TAKE b \in BlocksOf(t)
  <2> TAKE v \in set(b)
  <2>1. FieldAt(t, b) \in DOMAIN Width /\ Holds(Fields[e.look], FieldAt(t, b))
    BY EventFacts
  <2> QED
    BY <2>1, SettingsFit DEF WidthAt
<1>2. \A s : s \in vec <=> s = t - 1 \/ \E b \in BlocksOf(t) : \E v \in set(b) : s = FirstSlot[t][b] + v
  <2>1. Place(e.type) = t
    BY PlaceOfType
  <2>2. PICK blocks : blocks = Layout[e.type]
    OBVIOUS
  <2>3. BlocksOf(t) = DOMAIN blocks /\ \A b : FieldAt(t, b) = blocks[b]
    BY <2>2 DEF BlocksOf, FieldAt
  <2>4. \A s : s \in Vector(e, spec, strip) <=>
                 \/ s = t - 1
                 \/ \E b \in DOMAIN blocks : \E v \in Settings(Fields[e.look], blocks[b], spec, strip) :
                      s = FirstSlot[t][b] + v
    BY <2>1, <2>2 DEF Vector
  <2> QED
    BY <2>3, <2>4
<1> HIDE DEF set
<1>3. t \in 1..4 /\ Len(TypeOrder) = 4
  BY DEF TypeOrder
<1>4. ASSUME NEW b \in BlocksOf(t)
      PROVE  /\ FirstSlot[t][b] \in Nat /\ WidthAt(t, b) \in Nat
             /\ t - 1 < FirstSlot[t][b] /\ FirstSlot[t][b] + WidthAt(t, b) <= EventDim
  <2>1. /\ Shared \in Nat /\ 4 <= Shared /\ FirstSlot[t][b] \in Nat /\ Shared <= FirstSlot[t][b]
        /\ FirstSlot[t][b] + WidthAt(t, b) <= EventDim
    BY <1>3, SlotFacts
  <2>2. WidthAt(t, b) \in Nat
    BY LayoutFacts
  <2> QED
    BY <1>3, <2>1, <2>2
<1>5. ASSUME NEW b \in BlocksOf(t), NEW v \in 0..WidthAt(t, b) - 1, FirstSlot[t][b] + v \in vec
      PROVE  v \in set(b)
  <2>1. FirstSlot[t][b] + v # t - 1
    BY <1>3, <1>4
  <2>2. PICK a, w : a \in BlocksOf(t) /\ w \in set(a) /\ FirstSlot[t][b] + v = FirstSlot[t][a] + w
    BY <1>2, <1>5, <2>1
  <2>3. w \in 0..WidthAt(t, a) - 1
    BY <1>1, <2>2
  <2>4. \E n \in Nat : BlocksOf(t) = 1..n
    BY LayoutFacts
  <2>5. /\ a < b => FirstSlot[t][a] + WidthAt(t, a) <= FirstSlot[t][b]
        /\ b < a => FirstSlot[t][b] + WidthAt(t, b) <= FirstSlot[t][a]
    BY <2>2, SlotFacts
  <2>6. /\ FirstSlot[t][a] \in Nat /\ WidthAt(t, a) \in Nat
        /\ FirstSlot[t][b] \in Nat /\ WidthAt(t, b) \in Nat
    BY <1>4, <2>2
  <2>7. ~ (a < b) /\ ~ (b < a)
    BY <2>2, <2>3, <2>5, <2>6
  <2>8. a = b
    BY <2>2, <2>4, <2>7
  <2>9. v = w
    BY <2>2, <2>3, <2>6, <2>8
  <2> QED
    BY <2>2, <2>8, <2>9
<1>6. vec \subseteq 0..EventDim - 1
  <2> SUFFICES ASSUME NEW s \in vec PROVE s \in 0..EventDim - 1
    OBVIOUS
  <2>1. CASE s = t - 1
    <3>1. Shared \in Nat /\ 4 <= Shared /\ Shared <= EventDim /\ EventDim \in Nat
      BY <1>3, SlotFacts
    <3> QED
      BY <1>3, <2>1, <3>1
  <2>2. CASE s # t - 1
    <3>1. PICK b, v : b \in BlocksOf(t) /\ v \in set(b) /\ s = FirstSlot[t][b] + v
      BY <1>2, <2>2
    <3>2. v \in 0..WidthAt(t, b) - 1
      BY <1>1, <3>1
    <3>3. EventDim \in Nat
      BY SlotFacts
    <3> QED
      BY <1>4, <3>1, <3>2, <3>3
  <2> QED
    BY <2>1, <2>2
<1>7. \A b \in BlocksOf(t) : \A v \in 0..WidthAt(t, b) - 1 : FirstSlot[t][b] + v \in vec <=> v \in set(b)
  BY <1>2, <1>5
<1> QED
  BY <1>1, <1>2, <1>6, <1>7 DEF set

(* Vectors of events of one type are equal if the settings of all fields   *)
(* are; those of different types have nothing in common.                   *)
LEMMA VectorsTell ==
  ASSUME NEW R, DOMAIN R \in SUBSET Nat, IsFiniteSet(DOMAIN R), NEW spec, spec = Fit(R),
         NEW d \in Kinds, NEW e \in Kinds, NEW strip
  PROVE  IF d.type # e.type
         THEN Vector(d, spec, strip) \cap Vector(e, spec, strip) = {}
         ELSE /\ DOMAIN Fields[d.look] = DOMAIN Fields[e.look]
              /\ Vector(d, spec, strip) = Vector(e, spec, strip) <=>
                   \A f \in DOMAIN Fields[d.look] :
                     Settings(Fields[d.look], f, spec, strip) = Settings(Fields[e.look], f, spec, strip)
<1>1. PICK t \in DOMAIN TypeOrder : TypeOrder[t] = d.type
  BY TypeHasPlace
<1>2. PICK u \in DOMAIN TypeOrder : TypeOrder[u] = e.type
  BY TypeHasPlace
<1>3. PICK vd : vd = Vector(d, spec, strip)
  OBVIOUS
<1>4. PICK ve : ve = Vector(e, spec, strip)
  OBVIOUS
<1> DEFINE setd(b) == Settings(Fields[d.look], FieldAt(t, b), spec, strip)
           sete(b) == Settings(Fields[e.look], FieldAt(u, b), spec, strip)
<1>5. /\ \A s : s \in vd <=> s = t - 1 \/ \E b \in BlocksOf(t) : \E v \in setd(b) : s = FirstSlot[t][b] + v
      /\ \A b \in BlocksOf(t) : \A v \in setd(b) : v \in 0..WidthAt(t, b) - 1
      /\ \A b \in BlocksOf(t) : \A v \in 0..WidthAt(t, b) - 1 : FirstSlot[t][b] + v \in vd <=> v \in setd(b)
  BY <1>1, <1>3, VectorFacts
<1>6. /\ \A s : s \in ve <=> s = u - 1 \/ \E b \in BlocksOf(u) : \E v \in sete(b) : s = FirstSlot[u][b] + v
      /\ \A b \in BlocksOf(u) : \A v \in sete(b) : v \in 0..WidthAt(u, b) - 1
      /\ \A b \in BlocksOf(u) : \A v \in 0..WidthAt(u, b) - 1 : FirstSlot[u][b] + v \in ve <=> v \in sete(b)
  BY <1>2, <1>4, VectorFacts
<1>7. t \in 1..4 /\ u \in 1..4 /\ Shared \in Nat /\ 4 <= Shared
  BY SlotFacts DEF TypeOrder
<1>8. CASE d.type # e.type
  <2>1. t # u
    BY <1>1, <1>2, <1>8
  <2> SUFFICES ASSUME NEW s \in vd, s \in ve PROVE FALSE
    BY <1>3, <1>4, <1>8
  <2> HIDE DEF setd, sete
  <2>2. \A b \in BlocksOf(t) : /\ FirstSlot[t][b] \in Nat /\ WidthAt(t, b) \in Nat /\ 4 <= FirstSlot[t][b]
    BY <1>7, SlotFacts, LayoutFacts
  <2>3. \A b \in BlocksOf(u) : /\ FirstSlot[u][b] \in Nat /\ WidthAt(u, b) \in Nat /\ 4 <= FirstSlot[u][b]
    BY <1>7, SlotFacts, LayoutFacts
  <2>4. s = t - 1 => s # u - 1
    BY <1>7, <2>1
  <2>5. s = t - 1 => s < 4
    BY <1>7
  <2>6. s = u - 1 => s < 4
    BY <1>7
  <2>7. s # u - 1
    <3> SUFFICES ASSUME s = u - 1 PROVE FALSE
      OBVIOUS
    <3>1. PICK b, v : b \in BlocksOf(t) /\ v \in setd(b) /\ s = FirstSlot[t][b] + v
      BY <1>5, <2>4
    <3>2. v \in Nat /\ FirstSlot[t][b] \in Nat /\ 4 <= FirstSlot[t][b]
      BY <1>5, <2>2, <3>1
    <3> QED
      BY <1>7, <2>6, <3>1, <3>2
  <2>8. s # t - 1
    <3> SUFFICES ASSUME s = t - 1 PROVE FALSE
      OBVIOUS
    <3>1. PICK b, v : b \in BlocksOf(u) /\ v \in sete(b) /\ s = FirstSlot[u][b] + v
      BY <1>6, <2>4
    <3>2. v \in Nat /\ FirstSlot[u][b] \in Nat /\ 4 <= FirstSlot[u][b]
      BY <1>6, <2>3, <3>1
    <3> QED
      BY <1>7, <2>5, <3>1, <3>2
  <2>9. PICK a, v : a \in BlocksOf(t) /\ v \in setd(a) /\ s = FirstSlot[t][a] + v
    BY <1>5, <2>8
  <2>10. PICK b, w : b \in BlocksOf(u) /\ w \in sete(b) /\ s = FirstSlot[u][b] + w
    BY <1>6, <2>7
  <2>11. /\ v \in 0..WidthAt(t, a) - 1 /\ FirstSlot[t][a] \in Nat /\ WidthAt(t, a) \in Nat
         /\ w \in 0..WidthAt(u, b) - 1 /\ FirstSlot[u][b] \in Nat /\ WidthAt(u, b) \in Nat
    BY <1>5, <1>6, <2>2, <2>3, <2>9, <2>10
  <2>12. /\ t < u => FirstSlot[t][a] + WidthAt(t, a) <= FirstSlot[u][b]
         /\ u < t => FirstSlot[u][b] + WidthAt(u, b) <= FirstSlot[t][a]
    BY <2>9, <2>10, SlotFacts
  <2>13. t < u \/ u < t
    BY <1>7, <2>1
  <2> QED
    BY <2>9, <2>10, <2>11, <2>12, <2>13
<1>9. CASE d.type = e.type
  <2>1. t = u
    <3>1. \A x, y \in DOMAIN TypeOrder : TypeOrder[x] = TypeOrder[y] => x = y
      BY DEF TypeOrder
    <3> QED
      BY <1>1, <1>2, <1>9, <3>1
  <2>2. /\ DOMAIN Fields[d.look] = {FieldAt(t, b) : b \in BlocksOf(t)}
        /\ DOMAIN Fields[e.look] = {FieldAt(t, b) : b \in BlocksOf(t)}
    BY <1>1, <1>2, <2>1, EventFacts
  <2>3. (\A f \in DOMAIN Fields[d.look] :
           Settings(Fields[d.look], f, spec, strip) = Settings(Fields[e.look], f, spec, strip))
          <=> \A b \in BlocksOf(t) : setd(b) = sete(b)
    BY <2>1, <2>2
  <2> HIDE DEF setd, sete
  <2>4. ASSUME \A b \in BlocksOf(t) : setd(b) = sete(b)
        PROVE  vd = ve
    <3>1. \A s : s \in vd <=> s \in ve
      BY <1>5, <1>6, <2>1, <2>4
    <3> QED
      <4>1. vd \subseteq ve /\ ve \subseteq vd
        BY <3>1
      <4>2. vd = {s \in vd \cup ve : s \in vd} /\ ve = {s \in vd \cup ve : s \in ve}
        OBVIOUS
      <4> QED
        BY <3>1, <4>2
  <2>5. ASSUME vd = ve, NEW b \in BlocksOf(t)
        PROVE  setd(b) = sete(b)
    <3>1. \A v : v \in setd(b) <=> v \in sete(b)
      BY <1>5, <1>6, <2>1, <2>5
    <3>2. setd(b) = {v \in setd(b) \cup sete(b) : v \in setd(b)}
          /\ sete(b) = {v \in setd(b) \cup sete(b) : v \in sete(b)}
      OBVIOUS
    <3> QED
      BY <3>1, <3>2
  <2> QED
    BY <1>3, <1>4, <1>9, <2>2, <2>3, <2>4, <2>5
<1> QED
  BY <1>8, <1>9

(* The word of a field is in no vocabulary; two events agree in a field.   *)
Foreign(spec, f, w) == w \notin DOMAIN spec[f] /\ (f = "name" => w > 1)

Agree(F, G, f, spec, strip) ==
  \/ F[f] = G[f]
  \/ f \in DOMAIN spec /\ Foreign(spec, f, F[f]) /\ Foreign(spec, f, G[f])
  \/ f = "reporter_views" /\ 2 \notin {F[f], G[f]}
  \/ f \in {"verdict", "drop_reason"} /\ strip

LEMMA SettingsAgree ==
  ASSUME NEW R, DOMAIN R \in SUBSET Nat, IsFiniteSet(DOMAIN R), NEW spec, spec = Fit(R),
         NEW F, NEW G, NEW f, Holds(F, f), Holds(G, f), NEW strip \in BOOLEAN,
         f \notin {"name", "name_kind"}
  PROVE  Settings(F, f, spec, strip) = Settings(G, f, spec, strip) <=> Agree(F, G, f, spec, strip)
<1>1. DOMAIN spec = Words
  BY SpecFacts
<1>2. CASE f \in {"path", "resource"}
  <2>1. \A w, x : Index(spec[f], w) = Index(spec[f], x) <=>
                    w = x \/ (w \notin DOMAIN spec[f] /\ x \notin DOMAIN spec[f])
    BY <1>2, SpecFacts DEF Words
  <2>2. Settings(F, f, spec, strip) = {Index(spec[f], F[f])}
    BY <1>2 DEF Settings
  <2>3. Settings(G, f, spec, strip) = {Index(spec[f], G[f])}
    BY <1>2 DEF Settings
  <2>4. Agree(F, G, f, spec, strip) <=>
          F[f] = G[f] \/ (F[f] \notin DOMAIN spec[f] /\ G[f] \notin DOMAIN spec[f])
    BY <1>1, <1>2 DEF Agree, Foreign, Words
  <2> QED
    BY <2>1, <2>2, <2>3, <2>4
<1>3. CASE f \notin {"path", "resource"}
  <2>1. f \notin Words
    BY <1>3 DEF Words
  <2>2. Agree(F, G, f, spec, strip) <=>
          \/ F[f] = G[f]
          \/ f = "reporter_views" /\ 2 \notin {F[f], G[f]}
          \/ f \in {"verdict", "drop_reason"} /\ strip
    BY <1>1, <2>1 DEF Agree
  <2>3. CASE f = "flags"
    BY <2>2, <2>3 DEF Settings
  <2>4. CASE f = "reporter_views"
    <3>1. F[f] \in {1, 2} /\ G[f] \in {1, 2}
      BY <2>4 DEF Holds
    <3>2. /\ Settings(F, f, spec, strip) = IF F[f] = 2 THEN {0} ELSE {}
          /\ Settings(G, f, spec, strip) = IF G[f] = 2 THEN {0} ELSE {}
      BY <2>4 DEF Settings
    <3> QED
      BY <2>2, <2>4, <3>1, <3>2
  <2>5. CASE f = "scaled"
    BY <2>2, <2>5 DEF Settings, Holds
  <2>6. CASE f \in {"verdict", "drop_reason"}
    BY <2>2, <2>6 DEF Settings
  <2>7. CASE f \notin {"flags", "reporter_views", "scaled", "verdict", "drop_reason"}
    <3>1. Settings(F, f, spec, strip) = {F[f]} /\ Settings(G, f, spec, strip) = {G[f]}
      BY <1>3, <2>7 DEF Settings
    <3> QED
      BY <2>2, <2>7, <3>1
  <2> QED
    BY <2>3, <2>4, <2>5, <2>6, <2>7
<1> QED
  BY <1>2, <1>3

(* The kind tells whether there is a name and if it is a cluster's, the    *)
(* index which of the others it is.                                        *)
LEMMA NamesAgree ==
  ASSUME NEW R, DOMAIN R \in SUBSET Nat, IsFiniteSet(DOMAIN R), NEW spec, spec = Fit(R),
         NEW F, NEW G, NEW strip,
         Holds(F, "name"), Holds(G, "name"), Holds(F, "name_kind"), Holds(G, "name_kind")
  PROVE  (\A f \in {"name", "name_kind"} : Settings(F, f, spec, strip) = Settings(G, f, spec, strip)) <=>
           \A f \in {"name", "name_kind"} : Agree(F, G, f, spec, strip)
<1>1. DOMAIN spec = Words /\ "name" \in Words /\ "name_kind" \notin Words
  BY SpecFacts DEF Words
<1>2. /\ F.name \in Nat /\ G.name \in Nat
      /\ F.name_kind = KindOf(F.name) /\ G.name_kind = KindOf(G.name)
  BY DEF Holds
<1>3. /\ \A w, x : Index(spec["name"], w) = Index(spec["name"], x) <=>
                     w = x \/ (w \notin DOMAIN spec["name"] /\ x \notin DOMAIN spec["name"])
      /\ \A w \in DOMAIN spec["name"] : w > 1
  BY <1>1, SpecFacts
<1>4. PICK voc : voc = spec["name"]
  OBVIOUS
<1>5. /\ Settings(F, "name", spec, strip) = {Index(voc, x) : x \in {F.name} \ {0, 1}}
      /\ Settings(G, "name", spec, strip) = {Index(voc, x) : x \in {G.name} \ {0, 1}}
  BY <1>4 DEF Settings
<1>6. /\ Settings(F, "name_kind", spec, strip) = {KindOf(F.name)}
      /\ Settings(G, "name_kind", spec, strip) = {KindOf(G.name)}
  BY DEF Settings
<1>7. /\ Agree(F, G, "name_kind", spec, strip) <=> KindOf(F.name) = KindOf(G.name)
      /\ Agree(F, G, "name", spec, strip) <=>
           \/ F.name = G.name
           \/ F.name \notin DOMAIN voc /\ G.name \notin DOMAIN voc /\ F.name > 1 /\ G.name > 1
  BY <1>1, <1>2, <1>4 DEF Agree, Foreign
<1>8. CASE F.name \in {0, 1} \/ G.name \in {0, 1}
  <2>1. KindOf(F.name) = KindOf(G.name) <=> F.name = G.name
    BY <1>2, <1>8 DEF KindOf
  <2> QED
    BY <1>2, <1>5, <1>6, <1>7, <1>8, <2>1
<1>9. CASE F.name \notin {0, 1} /\ G.name \notin {0, 1}
  <2>1. KindOf(F.name) = 1 /\ KindOf(G.name) = 1 /\ F.name > 1 /\ G.name > 1
    BY <1>2, <1>9 DEF KindOf
  <2>2. /\ Settings(F, "name", spec, strip) = {Index(voc, F.name)}
        /\ Settings(G, "name", spec, strip) = {Index(voc, G.name)}
    BY <1>5, <1>9
  <2> QED
    BY <1>3, <1>4, <1>6, <1>7, <2>1, <2>2
<1> QED
  BY <1>8, <1>9

(* Only a query has a name, and of some kind.                              *)
LEMMA NameHasKind ==
  ASSUME NEW e \in Kinds
  PROVE  "name" \in DOMAIN Fields[e.look] <=> "name_kind" \in DOMAIN Fields[e.look]
<1>1. PICK t \in DOMAIN TypeOrder : TypeOrder[t] = e.type
  BY TypeHasPlace
<1>2. DOMAIN Fields[e.look] = {FieldAt(t, b) : b \in BlocksOf(t)}
  BY <1>1, EventFacts
<1>3. e.type \in EventTypes
  BY KindsAssumption DEF KindRecords
<1>4. CASE e.type = "DNS_QUERY"
  <2>1. Layout[e.type] = <<"qtype", "name_kind", "name", "rcode">>
    BY <1>4 DEF Layout
  <2>2. BlocksOf(t) = 1..4 /\ FieldAt(t, 2) = "name_kind" /\ FieldAt(t, 3) = "name"
    BY <1>1, <2>1 DEF BlocksOf, FieldAt
  <2>3. 2 \in 1..4 /\ 3 \in 1..4
    OBVIOUS
  <2> QED
    BY <1>2, <2>2, <2>3
<1>5. CASE e.type # "DNS_QUERY"
  <2>1. \A b \in BlocksOf(t) : FieldAt(t, b) \notin {"name", "name_kind"}
    BY <1>1, <1>3, <1>5 DEF BlocksOf, FieldAt, Layout, EventTypes
  <2> QED
    BY <1>2, <2>1
<1> QED
  BY <1>4, <1>5

(* Of events of one type, equal vectors are those of events that agree.    *)
LEMMA VectorsAgree ==
  ASSUME NEW R, DOMAIN R \in SUBSET Nat, IsFiniteSet(DOMAIN R), NEW spec, spec = Fit(R),
         NEW d \in Kinds, NEW e \in Kinds, d.type = e.type, NEW strip \in BOOLEAN
  PROVE  Vector(d, spec, strip) = Vector(e, spec, strip) <=>
           \A f \in DOMAIN Fields[d.look] : Agree(Fields[d.look], Fields[e.look], f, spec, strip)
<1>1. PICK F : F = Fields[d.look]
  OBVIOUS
<1>2. PICK G : G = Fields[e.look]
  OBVIOUS
<1>3. /\ DOMAIN F = DOMAIN G
      /\ Vector(d, spec, strip) = Vector(e, spec, strip) <=>
           \A f \in DOMAIN F : Settings(F, f, spec, strip) = Settings(G, f, spec, strip)
  BY <1>1, <1>2, VectorsTell
<1>4. \A f \in DOMAIN F : Holds(F, f) /\ Holds(G, f)
  <2>1. \A f \in DOMAIN F : Holds(F, f)
    BY <1>1, FieldsAssumption
  <2>2. \A f \in DOMAIN G : Holds(G, f)
    BY <1>2, FieldsAssumption
  <2> QED
    BY <1>3, <2>1, <2>2
<1>5. \A f \in DOMAIN F : f \notin {"name", "name_kind"} =>
        (Settings(F, f, spec, strip) = Settings(G, f, spec, strip) <=> Agree(F, G, f, spec, strip))
  BY <1>4, SettingsAgree
<1>6. "name" \in DOMAIN F <=> "name_kind" \in DOMAIN F
  BY <1>1, NameHasKind
<1>7. "name" \in DOMAIN F =>
        ((\A f \in {"name", "name_kind"} : Settings(F, f, spec, strip) = Settings(G, f, spec, strip)) <=>
           \A f \in {"name", "name_kind"} : Agree(F, G, f, spec, strip))
  BY <1>4, <1>6, NamesAgree
<1>8. (\A f \in DOMAIN F : Settings(F, f, spec, strip) = Settings(G, f, spec, strip)) <=>
        \A f \in DOMAIN F : Agree(F, G, f, spec, strip)
  BY <1>5, <1>6, <1>7
<1> QED
  BY <1>1, <1>2, <1>3, <1>8

----------------------------------------------------------------------------
(* What is said and seen is nothing yet, or the sentence of an entity and  *)
(* the vectors of all events by the vocabularies of the first.             *)
Spoken ==
  /\ said.of \in Entities /\ said.p \in Positions /\ said.strip \in BOOLEAN
  /\ said.words = Sentence(rows, said.p, said.of, said.strip)

Vectorized ==
  /\ seen.fit \in DOMAIN rows /\ seen.strip \in BOOLEAN
  /\ seen.spec = Fit(SubSeq(rows, 1, seen.fit))
  /\ seen.vectors = [i \in DOMAIN rows |-> Vector(rows[i].e, seen.spec, seen.strip)]

DescribeInv ==
  /\ said = NoWords \/ Spoken
  /\ seen = NoVectors \/ Vectorized

LEMMA ThinnedFits ==
  ASSUME NEW flat
  PROVE  Len(Thinned(flat)) <= MaxTokens
<1> DEFINE thin == [i \in 1..MaxTokens |-> flat[((i - 1) * Len(flat)) \div MaxTokens + 1]]
           T == {thin[i] : i \in 1..MaxTokens}
<1>1. MaxTokens \in Nat
  BY SentencesAssumption
<1>2. thin \in [1..MaxTokens -> T]
  OBVIOUS
<1>3. Len(thin) = MaxTokens
  <2> HIDE DEF thin, T
  <2> QED
    BY <1>1, <1>2
<1>4. CASE Len(flat) <= MaxTokens
  BY <1>4 DEF Thinned
<1>5. CASE ~ (Len(flat) <= MaxTokens)
  <2>1. Thinned(flat) = thin
    BY <1>5 DEF Thinned
  <2> HIDE DEF thin
  <2> QED
    BY <1>1, <1>3, <2>1
<1> QED
  BY <1>4, <1>5

LEMMA DescribeInvNext ==
  ASSUME GraphInv, DescribeInv, [Pass \/ Eval \/ Tell]_detVars
  PROVE  DescribeInv'
<1>1. rows' = rows
  BY DEF Pass, PassNext, HoldOutLinks, UseAllLinks, Layer, Eval, Tell, detVars, passVars
<1>2. CASE UNCHANGED descVars
  BY <1>1, <1>2 DEF DescribeInv, Spoken, Vectorized, descVars
<1>3. CASE ~ UNCHANGED descVars
  <2>1. Say \/ Vectorize
    BY <1>3 DEF Pass, Eval, Tell, DescribeNext, detVars
  <2>2. CASE Say
    <3>1. PICK p \in Yielded(rows), n \in Entities, strip \in BOOLEAN :
            said' = [of |-> n, p |-> p, strip |-> strip, words |-> Sentence(rows, p, n, strip)]
      BY <2>2 DEF Say
    <3>4. p \in Positions
      BY RowFacts DEF GraphInv, Yielded
    <3>5. seen' = seen
      BY <2>2 DEF Say
    <3>6. PICK new : new = said'
      OBVIOUS
    <3>7. /\ new.of \in Entities /\ new.p \in Positions /\ new.strip \in BOOLEAN
          /\ new.words = Sentence(rows, new.p, new.of, new.strip)
      BY <3>1, <3>4, <3>6
    <3>8. Spoken'
      BY <1>1, <3>6, <3>7 DEF Spoken
    <3> QED
      BY <1>1, <3>5, <3>8 DEF DescribeInv, Vectorized
  <2>3. CASE Vectorize
    <3>1. PICK k \in DOMAIN rows, strip \in BOOLEAN :
            LET spec == Fit(SubSeq(rows, 1, k))
            IN  seen' = [fit |-> k, strip |-> strip, spec |-> spec,
                         vectors |-> [i \in DOMAIN rows |-> Vector(rows[i].e, spec, strip)]]
      BY <2>3 DEF Vectorize
    <3>2. PICK new : new = seen'
      OBVIOUS
    <3>3. /\ new.fit \in DOMAIN rows /\ new.strip \in BOOLEAN
          /\ new.spec = Fit(SubSeq(rows, 1, new.fit))
          /\ new.vectors = [i \in DOMAIN rows |-> Vector(rows[i].e, new.spec, new.strip)]
      BY <3>1, <3>2
    <3>4. Vectorized'
      BY <1>1, <3>2, <3>3 DEF Vectorized
    <3>5. said' = said
      BY <2>3 DEF Vectorize
    <3> QED
      BY <1>1, <3>4, <3>5 DEF DescribeInv, Spoken
  <2> QED
    BY <2>1, <2>2, <2>3
<1> QED
  BY <1>2, <1>3

LEMMA DescribeInvHolds == DetectionSpec => [](GraphInv /\ DescribeInv)
<1>1. ASSUME DetectionInit
      PROVE  DescribeInv
  <2>1. said = NoWords /\ seen = NoVectors
    BY <1>1 DEF DetectionInit, DescribeInit
  <2> QED
    BY <2>1 DEF DescribeInv
<1>2. DetectionSpec => []GraphInv
  BY DetectionImplementsPass, GraphInvHolds, PTL
<1>3. GraphInv /\ DescribeInv /\ [Pass \/ Eval \/ Tell]_detVars => DescribeInv'
  BY DescribeInvNext
<1> QED
  BY <1>1, <1>2, <1>3, PTL DEF DetectionSpec

LEMMA TrainedFacts ==
  ASSUME GraphInv, Vectorized, NEW trained, trained = SubSeq(rows, 1, seen.fit)
  PROVE  DOMAIN trained \in SUBSET Nat /\ IsFiniteSet(DOMAIN trained)
<1>1. rows \in Seq(Row) /\ seen.fit \in 1..Len(rows)
  BY DEF GraphInv, Vectorized
<1>2. trained \in Seq(Row) /\ DOMAIN trained = 1..Len(trained) /\ Len(trained) \in Nat
  BY <1>1
<1>3. 1 \in Int /\ Len(trained) \in Int
  BY <1>2
<1> QED
  BY <1>2, <1>3, FS_Interval

(* Graphs, perturbed tables, results of eval, sentences and vectors keep   *)
(* their shape: scores are of windows of the run and of entities in its    *)
(* table, a sentence is not too long, and a vector has no slot beyond its  *)
(* dimension.                                                              *)
THEOREM DetectionTypeCorrect == DetectionSpec => []DetectionTypeOK
<1>1. ASSUME GraphInv, DescribeInv
      PROVE  DescribeTypeOK
  <2>3. /\ said.of \in Entities \cup {Anyone} /\ said.p \in Positions \cup {0}
        /\ Len(said.words) <= MaxTokens
    <3>1. CASE said = NoWords
      <4>1. NoWords.of = Anyone /\ NoWords.p = 0 /\ Len(NoWords.words) = 0
        BY DEF NoWords
      <4> QED
        BY <3>1, <4>1, SentencesAssumption
    <3>2. CASE Spoken
      <4>1. PICK flat : said.words = Thinned(flat)
        BY <3>2 DEF Spoken, Sentence
      <4> QED
        BY <3>2, <4>1, ThinnedFits DEF Spoken
    <3> QED
      BY <1>1, <3>1, <3>2 DEF DescribeInv
  <2>1. CASE seen = NoVectors
    <3>1. NoVectors.fit = 0 /\ NoVectors.vectors = <<>>
      BY DEF NoVectors
    <3> QED
      BY <2>1, <2>3, <3>1, BoundsAssumption DEF DescribeTypeOK
  <2>2. CASE Vectorized
    <3>1. rows \in Seq(Row) /\ Len(rows) \in 1..MaxRows /\ MaxRows \in Nat
      BY <1>1, BoundsAssumption DEF GraphInv
    <3>2. seen.fit \in 0..MaxRows
      BY <2>2, <3>1 DEF Vectorized
    <3>3. ASSUME NEW i \in DOMAIN seen.vectors
          PROVE  seen.vectors[i] \subseteq 0..EventDim - 1
      <4>1. i \in DOMAIN rows /\ seen.vectors[i] = Vector(rows[i].e, seen.spec, seen.strip)
        BY <2>2 DEF Vectorized
      <4>2. rows[i].e \in Kinds
        BY <3>1, <4>1, RowFacts
      <4>3. PICK trained : trained = SubSeq(rows, 1, seen.fit)
        OBVIOUS
      <4>4. DOMAIN trained \in SUBSET Nat /\ IsFiniteSet(DOMAIN trained) /\ seen.spec = Fit(trained)
        BY <1>1, <2>2, <4>3, TrainedFacts DEF Vectorized
      <4>5. PICK t \in DOMAIN TypeOrder : TypeOrder[t] = rows[i].e.type
        BY <4>2, TypeHasPlace
      <4> QED
        BY <4>1, <4>2, <4>4, <4>5, VectorFacts
    <3> QED
      BY <2>3, <3>2, <3>3 DEF DescribeTypeOK
  <2> QED
    BY <1>1, <2>1, <2>2 DEF DescribeInv
<1> QED
  BY <1>1, EvalTypeCorrect, DescribeInvHolds, PTL DEF DetectionTypeOK

(* Equal vectors are those of events that are of one type and agree, up to *)
(* what is not to be told apart; events of different types have no slot in *)
(* common; and a word without an index was at most as frequent in training *)
(* as any with one (ppt/features.py:117, 181-276).                         *)
THEOREM VectorsTellEventsApart == DetectionSpec => []FeaturesTellApart
<1>1. ASSUME GraphInv, DescribeInv
      PROVE  FeaturesTellApart
  <2> SUFFICES ASSUME seen # NoVectors PROVE FeaturesTellApart
    BY DEF FeaturesTellApart
  <2>1. Vectorized
    BY <1>1 DEF DescribeInv
  <2>2. PICK trained : trained = SubSeq(rows, 1, seen.fit)
    OBVIOUS
  <2>3. PICK spec : spec = seen.spec
    OBVIOUS
  <2>4. PICK strip \in BOOLEAN : strip = seen.strip
    BY <2>1 DEF Vectorized
  <2>5. DOMAIN trained \in SUBSET Nat /\ IsFiniteSet(DOMAIN trained) /\ spec = Fit(trained)
    BY <1>1, <2>1, <2>2, <2>3, TrainedFacts DEF Vectorized
  <2>6. \A i \in DOMAIN rows : /\ seen.vectors[i] = Vector(rows[i].e, spec, strip)
                               /\ rows[i].e \in Kinds
    BY <1>1, <2>1, <2>3, <2>4, RowFacts DEF Vectorized, GraphInv
  <2>7. DOMAIN spec = Words
    BY <2>5, SpecFacts
  <2>8. ASSUME NEW i \in DOMAIN rows, NEW j \in DOMAIN rows
        PROVE  /\ rows[i].e.type # rows[j].e.type => seen.vectors[i] \cap seen.vectors[j] = {}
               /\ rows[i].e.type = rows[j].e.type =>
                    (seen.vectors[i] = seen.vectors[j] <=>
                       \A f \in DOMAIN Fields[rows[i].e.look] :
                         Agree(Fields[rows[i].e.look], Fields[rows[j].e.look], f, spec, strip))
    BY <2>5, <2>6, VectorsTell, VectorsAgree
  <2>9. ASSUME NEW f \in DOMAIN spec, NEW w, NEW x \in DOMAIN spec[f], Foreign(spec, f, w)
        PROVE  Cardinality(UsesOf(trained, f, w)) <= Cardinality(UsesOf(trained, f, x))
    BY <2>5, <2>7, <2>9, SpecFacts DEF Foreign
  <2>10. ASSUME NEW i \in DOMAIN rows, NEW j \in DOMAIN rows
         PROVE  LET F == Fields[rows[i].e.look]
                    G == Fields[rows[j].e.look]
                    count(f, w) == Cardinality(UsesOf(SubSeq(rows, 1, seen.fit), f, w))
                IN  IF rows[i].e.type # rows[j].e.type
                    THEN seen.vectors[i] \cap seen.vectors[j] = {}
                    ELSE /\ seen.vectors[i] = seen.vectors[j] <=>
                              \A f \in DOMAIN F : Agree(F, G, f, seen.spec, seen.strip)
                         /\ \A f \in DOMAIN F \cap DOMAIN seen.spec :
                              /\ Foreign(seen.spec, f, F[f]) /\ ~ Foreign(seen.spec, f, G[f])
                              /\ G[f] \in DOMAIN seen.spec[f]
                              => count(f, F[f]) <= count(f, G[f])
    BY <2>2, <2>3, <2>4, <2>8, <2>9
  <2> QED
    BY <2>10 DEF FeaturesTellApart, Agree, Foreign, UsesOf
<1> QED
  BY <1>1, DescribeInvHolds, PTL
----------------------------------------------------------------------------
(* The sentences.                                                          *)

(* Induction, for a set of numbers.                                        *)
LEMMA AllNumbers ==
  ASSUME NEW A \in SUBSET Nat, 0 \in A, \A m \in A : m + 1 \in A
  PROVE  A = Nat
<1> SUFFICES ASSUME Nat \ A # {} PROVE FALSE
  OBVIOUS
<1>1. PICK m \in Nat \ A : \A x \in Nat \ A : m <= x
  BY LeastNumber
<1>2. m - 1 \in Nat /\ (m - 1) + 1 = m
  BY <1>1
<1>3. m - 1 \in A
  BY <1>1, <1>2
<1> QED
  BY <1>1, <1>2, <1>3

(* FlattenSeq is the last of its partial results.                          *)
LEMMA PartialResults ==
  ASSUME NEW ss, NEW n \in Nat
  PROVE  \E f : f = [i \in 1..n |-> IF i = 1 THEN ss[i] ELSE f[i - 1] \o ss[i]]
<1> DEFINE Part(f, m) == f = [i \in 1..m |-> IF i = 1 THEN ss[i] ELSE f[i - 1] \o ss[i]]
           A == {m \in Nat : \E f : Part(f, m)}
<1>1. 0 \in A
  <2>1. Part([i \in 1..0 |-> 0], 0)
    OBVIOUS
  <2> QED
    BY <2>1
<1>2. ASSUME NEW m \in A PROVE m + 1 \in A
  <2>1. PICK f : Part(f, m)
    OBVIOUS
  <2> DEFINE new == IF m = 0 THEN ss[m + 1] ELSE f[m] \o ss[m + 1]
             g   == [i \in 1..m + 1 |-> IF i = m + 1 THEN new ELSE f[i]]
  <2>2. m \in Nat /\ m + 1 \in Nat
    OBVIOUS
  <2>3. \A i \in 1..m : f[i] = IF i = 1 THEN ss[i] ELSE f[i - 1] \o ss[i]
    BY <2>1
  <2>4. ASSUME NEW i \in 1..m + 1
        PROVE  g[i] = IF i = 1 THEN ss[i] ELSE g[i - 1] \o ss[i]
    <3>1. CASE i = m + 1
      <4>1. i # 1 => g[i - 1] = f[m] /\ m # 0
        BY <2>2, <3>1
      <4>2. i = 1 => m = 0
        BY <2>2, <3>1
      <4>3. g[i] = new
        BY <3>1
      <4> QED
        BY <3>1, <4>1, <4>2, <4>3
    <3>2. CASE i # m + 1
      <4>1. i \in 1..m /\ g[i] = f[i]
        BY <2>2, <3>2
      <4>2. i # 1 => g[i - 1] = f[i - 1]
        BY <2>2, <4>1
      <4> QED
        BY <2>3, <4>1, <4>2
    <3> QED
      BY <3>1, <3>2
  <2>5. g = [i \in 1..m + 1 |-> g[i]]
    OBVIOUS
  <2> HIDE DEF g
  <2>6. Part(g, m + 1)
    BY <2>4, <2>5
  <2> QED
    BY <2>2, <2>6
<1>3. A = Nat
  <2>1. A \in SUBSET Nat
    OBVIOUS
  <2> HIDE DEF A
  <2> QED
    BY <1>1, <1>2, <2>1, AllNumbers
<1> QED
  BY <1>3

LEMMA FlattenUnfolds ==
  ASSUME NEW S, NEW ss \in Seq(Seq(S)), ss # <<>>
  PROVE  \E f : /\ f \in [1..Len(ss) -> Seq(S)]
                /\ f[1] = ss[1]
                /\ \A k \in 2..Len(ss) : f[k] = f[k - 1] \o ss[k]
                /\ FlattenSeq(ss) = f[Len(ss)]
<1>1. PICK n \in Nat : n = Len(ss)
  OBVIOUS
<1>2. n > 0 /\ \A k \in 1..n : ss[k] \in Seq(S)
  BY <1>1
<1> DEFINE f == CHOOSE f : f = [i \in 1..n |-> IF i = 1 THEN ss[i] ELSE f[i - 1] \o ss[i]]
<1>3. f = [i \in 1..n |-> IF i = 1 THEN ss[i] ELSE f[i - 1] \o ss[i]]
  BY PartialResults
<1>4. FlattenSeq(ss) = f[n]
  BY <1>1, <1>2 DEF FlattenSeq
<1> HIDE DEF f
<1>5. DOMAIN f = 1..n
  BY <1>3
<1>6. ASSUME NEW i \in 1..n
      PROVE  f[i] = IF i = 1 THEN ss[i] ELSE f[i - 1] \o ss[i]
  BY <1>3, Zenon
<1>7. f[1] = ss[1] /\ \A k \in 2..n : f[k] = f[k - 1] \o ss[k]
  <2>1. 1 \in 1..n /\ \A k \in 2..n : k \in 1..n /\ k # 1
    BY <1>2
  <2> QED
    BY <1>6, <2>1
<1>8. \A m \in Nat : m + 1 \in 1..n => f[m + 1] \in Seq(S)
  <2> DEFINE A == {m \in Nat : m + 1 \in 1..n => f[m + 1] \in Seq(S)}
  <2>1. 0 \in A
    BY <1>2, <1>7
  <2>2. ASSUME NEW m \in A PROVE m + 1 \in A
    <3> SUFFICES ASSUME m + 2 \in 1..n PROVE f[m + 2] \in Seq(S)
      OBVIOUS
    <3>1. m + 1 \in 1..n /\ m + 2 \in 2..n /\ (m + 2) - 1 = m + 1
      OBVIOUS
    <3>2. f[m + 1] \in Seq(S) /\ ss[m + 2] \in Seq(S)
      BY <1>2, <3>1
    <3>3. f[m + 2] = f[m + 1] \o ss[m + 2]
      BY <1>7, <3>1
    <3> QED
      BY <3>2, <3>3
  <2>3. A = Nat
    <3>1. A \in SUBSET Nat
      OBVIOUS
    <3> HIDE DEF A
    <3> QED
      BY <2>1, <2>2, <3>1, AllNumbers
  <2> QED
    BY <2>3
<1>9. f \in [1..n -> Seq(S)]
  <2>1. ASSUME NEW i \in 1..n PROVE f[i] \in Seq(S)
    <3>1. i - 1 \in Nat /\ (i - 1) + 1 = i
      OBVIOUS
    <3> QED
      BY <1>8, <3>1
  <2>2. f = [i \in 1..n |-> f[i]]
    BY <1>3
  <2> QED
    BY <2>1, <2>2
<1> QED
  BY <1>1, <1>4, <1>7, <1>9

(* Where each of the sequences begins in the flattened one: its places are *)
(* in blocks that follow one another.                                      *)
Begins(start, ss, flat) ==
  /\ start \in [1..Len(ss) -> Nat]
  /\ \A k \in 1..Len(ss) :
       /\ start[k] + Len(ss[k]) <= Len(flat)
       /\ \A j \in 1..Len(ss[k]) : flat[start[k] + j] = ss[k][j]
  /\ \A i \in 1..Len(flat) : \E k \in 1..Len(ss) : i \in start[k] + 1..start[k] + Len(ss[k])
  /\ \A k, l \in 1..Len(ss) : k < l => start[k] + Len(ss[k]) <= start[l]

LEMMA JoinFacts ==
  ASSUME NEW S, NEW s \in Seq(S), NEW t \in Seq(S), NEW u, u = s \o t
  PROVE  /\ u \in Seq(S) /\ Len(s) \in Nat /\ Len(t) \in Nat /\ Len(u) = Len(s) + Len(t)
         /\ \A j \in 1..Len(s) : u[j] = s[j]
         /\ \A j \in 1..Len(t) : u[Len(s) + j] = t[j]
<1>1. u \in Seq(S) /\ Len(s) \in Nat /\ Len(t) \in Nat /\ Len(u) = Len(s) + Len(t)
  OBVIOUS
<1>2. ASSUME NEW j \in 1..Len(s) PROVE u[j] = s[j]
  BY <1>1
<1>3. ASSUME NEW j \in 1..Len(t) PROVE u[Len(s) + j] = t[j]
  BY <1>1
<1> QED
  BY <1>1, <1>2, <1>3

LEMMA FlattenFacts ==
  ASSUME NEW S, NEW ss \in Seq(Seq(S))
  PROVE  FlattenSeq(ss) \in Seq(S) /\ \E start : Begins(start, ss, FlattenSeq(ss))
<1>1. CASE ss = <<>>
  <2>1. FlattenSeq(ss) = <<>>
    BY <1>1 DEF FlattenSeq
  <2>2. Begins([k \in 1..0 |-> 0], ss, <<>>)
    BY <1>1 DEF Begins
  <2> QED
    BY <2>1, <2>2
<1>2. CASE ss # <<>>
  <2>1. PICK n \in Nat : n = Len(ss)
    OBVIOUS
  <2>2. n > 0 /\ \A k \in 1..n : ss[k] \in Seq(S) /\ Len(ss[k]) \in Nat
    BY <1>2, <2>1
  <2>3. PICK f : /\ f \in [1..n -> Seq(S)]
                 /\ f[1] = ss[1]
                 /\ \A k \in 2..n : f[k] = f[k - 1] \o ss[k]
                 /\ FlattenSeq(ss) = f[n]
    BY <1>2, <2>1, FlattenUnfolds
  <2>0. f \in [1..n -> Seq(S)] /\ ss \in [1..n -> Seq(S)]
    BY <2>1, <2>3
  <2>4. \A k \in 1..n : f[k] \in Seq(S) /\ Len(f[k]) \in Nat
    BY <2>3
  <2> DEFINE start == [k \in 1..n |-> Len(f[k]) - Len(ss[k])]
             In(k, i) == i \in start[k] + 1..start[k] + Len(ss[k])
             Extends(k, l) == /\ Len(f[k]) <= Len(f[l])
                              /\ \A j \in 1..Len(f[k]) : f[l][j] = f[k][j]
             Good(l) == /\ \A k \in 1..l : Extends(k, l)
                        /\ start[l] \in Nat
                        /\ l > 1 => start[l] = Len(f[l - 1])
                        /\ \A j \in 1..Len(ss[l]) : f[l][start[l] + j] = ss[l][j]
                        /\ \A i \in 1..Len(f[l]) : \E k \in 1..l : In(k, i)
             A == {m \in Nat : m + 1 \in 1..n => Good(m + 1)}
  <2>5. 0 \in A
    <3>1. start[1] = 0 /\ Len(f[1]) = Len(ss[1]) /\ 1 \in 1..n
      BY <2>2, <2>3
    <3>2. \A j \in 1..Len(ss[1]) : f[1][start[1] + j] = ss[1][j]
      BY <2>2, <2>3, <3>1
    <3>3. \A i \in 1..Len(f[1]) : In(1, i)
      BY <2>2, <3>1
    <3>4. Extends(1, 1)
      BY <2>4, <3>1
    <3> HIDE DEF start, Extends, In
    <3>5. Good(1)
      BY <3>1, <3>2, <3>3, <3>4
    <3> QED
      BY <3>5
  <2>6. ASSUME NEW m \in A PROVE m + 1 \in A
    <3> HIDE DEF Good
    <3>0. m \in Nat /\ (m + 1 \in 1..n => Good(m + 1))
      OBVIOUS
    <3> SUFFICES ASSUME (m + 1) + 1 \in 1..n PROVE Good((m + 1) + 1)
      BY <3>0
    <3> HIDE DEF A
    <3>1. PICK l \in Nat : l = m + 1
      BY <3>0
    <3>2. l \in 1..n /\ l + 1 \in 2..n /\ (l + 1) - 1 = l /\ l + 1 \in 1..n
      BY <3>0, <3>1
    <3>3. Good(l)
      BY <3>0, <3>1, <3>2
    <3> USE DEF Good
    <3>4. f[l + 1] = f[l] \o ss[l + 1]
      BY <2>3, <3>2
    <3>5. f[l] \in Seq(S) /\ ss[l + 1] \in Seq(S)
      BY <2>2, <2>4, <3>2
    <3>6. /\ Len(f[l + 1]) = Len(f[l]) + Len(ss[l + 1])
          /\ Len(f[l]) \in Nat /\ Len(ss[l + 1]) \in Nat
          /\ \A j \in 1..Len(f[l]) : f[l + 1][j] = f[l][j]
          /\ \A j \in 1..Len(ss[l + 1]) : f[l + 1][Len(f[l]) + j] = ss[l + 1][j]
      BY <2>0, <3>2, <3>4, <3>5, JoinFacts
    <3>7. start[l + 1] = Len(f[l])
      <4>1. start[l + 1] = Len(f[l + 1]) - Len(ss[l + 1])
        BY <3>2
      <4>2. /\ Len(f[l + 1]) = Len(f[l]) + Len(ss[l + 1])
            /\ Len(f[l]) \in Nat /\ Len(ss[l + 1]) \in Nat
        BY <3>6
      <4> HIDE DEF start
      <4> QED
        BY <4>1, <4>2
    <3>8. \A k \in 1..l : k \in 1..n /\ Len(f[k]) \in Nat
      BY <2>4, <3>2
    <3> HIDE DEF start
    <3>9. \A k \in 1..l + 1 : Extends(k, l + 1)
      <4>1. \A k \in 1..l : Extends(k, l + 1)
        <5>1. \A k \in 1..l : Extends(k, l)
          BY <3>3
        <5> TAKE k \in 1..l
        <5>2. Len(f[k]) \in Nat /\ Len(f[k]) <= Len(f[l])
          BY <3>8, <5>1
        <5>3. Len(f[l]) <= Len(f[l + 1])
          BY <2>0, <3>2, <3>6
        <5>4. \A j \in 1..Len(f[k]) : f[l + 1][j] = f[l][j] /\ f[l][j] = f[k][j]
          BY <3>6, <5>1, <5>2
        <5> QED
          BY <2>0, <3>2, <3>6, <5>2, <5>3, <5>4
      <4>2. Extends(l + 1, l + 1)
        BY <3>6
      <4>3. \A k \in 1..l + 1 : k \in 1..l \/ k = l + 1
        BY <3>2
      <4> HIDE DEF Extends
      <4> QED
        BY <4>1, <4>2, <4>3
    <3>10. \A i \in 1..Len(f[l + 1]) : \E k \in 1..l + 1 : In(k, i)
      <4> TAKE i \in 1..Len(f[l + 1])
      <4>1. CASE i <= Len(f[l])
        <5>1. i \in 1..Len(f[l])
          BY <3>6, <4>1
        <5> HIDE DEF In
        <5>2. PICK k \in 1..l : In(k, i)
          BY <3>3, <5>1
        <5>3. k \in 1..l + 1
          BY <3>2
        <5> QED
          BY <5>2, <5>3
      <4>2. CASE i > Len(f[l])
        <5>1. In(l + 1, i)
          <6>1. /\ Len(f[l + 1]) = Len(f[l]) + Len(ss[l + 1])
                /\ Len(f[l]) \in Nat /\ Len(ss[l + 1]) \in Nat
            BY <3>6
          <6> QED
            BY <2>0, <3>2, <3>7, <4>2, <6>1
        <5> HIDE DEF In
        <5> QED
          BY <3>2, <5>1
      <4> QED
        BY <3>6, <4>1, <4>2
    <3> HIDE DEF Extends, In
    <3>11. Good(l + 1)
      BY <3>2, <3>6, <3>7, <3>9, <3>10
    <3> HIDE DEF Good
    <3> QED
      BY <3>1, <3>11
  <2>7. A = Nat
    <3>1. A \in SUBSET Nat
      OBVIOUS
    <3> HIDE DEF A
    <3> QED
      BY <2>5, <2>6, <3>1, AllNumbers
  <2>8. \A l \in 1..n : Good(l)
    <3> HIDE DEF Good
    <3> TAKE l \in 1..n
    <3>1. l - 1 \in Nat /\ (l - 1) + 1 = l
      OBVIOUS
    <3>2. (l - 1) + 1 \in 1..n => Good((l - 1) + 1)
      BY <2>7, <3>1
    <3> QED
      BY <3>1, <3>2
  <2> HIDE DEF Good
  <2>9. ASSUME NEW k \in 1..n
        PROVE  /\ start[k] \in Nat /\ start[k] + Len(ss[k]) = Len(f[k])
               /\ Len(f[k]) <= Len(f[n])
               /\ \A j \in 1..Len(ss[k]) : f[n][start[k] + j] = ss[k][j]
    <3>1. n \in 1..n /\ k \in 1..n
      BY <2>2
    <3>2. Extends(k, n) /\ start[k] \in Nat
      BY <2>8, <3>1 DEF Good
    <3>3. \A j \in 1..Len(ss[k]) : f[k][start[k] + j] = ss[k][j]
      BY <2>8 DEF Good
    <3>4. start[k] + Len(ss[k]) = Len(f[k])
      BY <2>2, <2>4
    <3> HIDE DEF start
    <3>5. \A j \in 1..Len(ss[k]) : start[k] + j \in 1..Len(f[k])
      BY <2>2, <2>4, <3>2, <3>4
    <3> QED
      BY <3>2, <3>3, <3>4, <3>5
  <2>10. ASSUME NEW k \in 1..n, NEW l \in 1..n, k < l
         PROVE  start[k] + Len(ss[k]) <= start[l]
    <3>1. l - 1 \in 1..n /\ k \in 1..l - 1 /\ l > 1
      BY <2>10
    <3>2. start[l] = Len(f[l - 1])
      BY <2>8, <3>1 DEF Good
    <3>3. Extends(k, l - 1)
      BY <2>8, <3>1 DEF Good
    <3> HIDE DEF start
    <3> QED
      BY <2>9, <3>2, <3>3
  <2>11. \A i \in 1..Len(f[n]) : \E k \in 1..n : In(k, i)
    <3> HIDE DEF start, In
    <3>1. n \in 1..n
      BY <2>2
    <3> QED
      BY <2>8, <3>1 DEF Good
  <2>12. start \in [1..n -> Nat]
    <3>1. start = [k \in 1..n |-> start[k]]
      OBVIOUS
    <3> HIDE DEF start
    <3> QED
      BY <2>9, <3>1
  <2>13. FlattenSeq(ss) \in Seq(S)
    BY <2>2, <2>3, <2>4
  <2> HIDE DEF start
  <2>14. Begins(start, ss, FlattenSeq(ss))
    BY <2>1, <2>3, <2>9, <2>10, <2>11, <2>12 DEF Begins
  <2> QED
    BY <2>13, <2>14
<1> QED
  BY <1>1, <1>2

(* InOrder lists each member once.                                         *)
ListOf(R, K) ==
  [k \in 1..Cardinality(K) |->
    CHOOSE x \in K : Cardinality({y \in K : <<y, x>> \in R}) = k - 1]

LEMMA ListsAll ==
  ASSUME NEW K, IsFiniteSet(K), NEW R, StrictOrder(R, K)
  PROVE  Cardinality(K) \in Nat /\ ListOf(R, K) \in Bijection(1..Cardinality(K), K)
<1> DEFINE list == ListOf(R, K)
           n == Cardinality(K)
           p == PlaceIn(R, K)
<1>1. n \in Nat
  BY FS_CardinalityType
<1>2. p \in Bijection(K, 0..n - 1)
  BY PlacesAreOnto
<1>3. \A x \in K : p[x] = Cardinality({y \in K : <<y, x>> \in R})
  BY DEF PlaceIn
<1>4. list = [k \in 1..n |-> CHOOSE x \in K : p[x] = k - 1]
  BY <1>3 DEF ListOf
<1> HIDE DEF n, p, list
<1>5. \A x \in K : p[x] \in 0..n - 1
  BY <1>2 DEF Bijection, Injection
<1>6. \A x, y \in K : p[x] = p[y] => x = y
  BY <1>2 DEF Bijection, Injection, IsInjective
<1>7. \A i \in 0..n - 1 : \E x \in K : p[x] = i
  BY <1>2 DEF Bijection, Surjection
<1>8. ASSUME NEW k \in 1..n PROVE list[k] \in K /\ p[list[k]] = k - 1
  <2>1. k - 1 \in 0..n - 1
    BY <1>1
  <2>2. \E x \in K : p[x] = k - 1
    BY <1>7, <2>1
  <2> QED
    BY <1>4, <2>2
<1>9. ASSUME NEW k \in 1..n, NEW l \in 1..n, list[k] = list[l] PROVE k = l
  <2>1. k - 1 = l - 1
    BY <1>8, <1>9
  <2> QED
    BY <1>1, <2>1
<1>10. ASSUME NEW x \in K PROVE \E k \in 1..n : list[k] = x
  <2>1. p[x] + 1 \in 1..n /\ (p[x] + 1) - 1 = p[x]
    BY <1>1, <1>5
  <2>2. p[list[p[x] + 1]] = p[x] /\ list[p[x] + 1] \in K
    BY <1>8, <2>1
  <2> QED
    BY <1>6, <2>1, <2>2
<1>11. DOMAIN list = 1..n /\ list = [k \in 1..n |-> list[k]]
  BY <1>4
<1>12. list \in [1..n -> K]
  BY <1>8, <1>11
<1>13. list \in Bijection(1..n, K)
  BY <1>9, <1>10, <1>12 DEF Bijection, Injection, IsInjective, Surjection
<1> QED
  BY <1>1, <1>13 DEF n, list

(* As many numbers of a set as asked have few before them.                 *)
LEMMA FirstOnes ==
  ASSUME NEW G \in SUBSET Nat, IsFiniteSet(G), NEW m \in Nat, m <= Cardinality(G)
  PROVE  Cardinality({k \in G : Cardinality({j \in G : j < k}) \in 0..m - 1}) = m
<1> DEFINE R == {p \in G \X G : p[1] < p[2]}
           p == PlaceIn(R, G)
           T == {k \in G : Cardinality({j \in G : j < k}) \in 0..m - 1}
           n == Cardinality(G)
<1>1. \A j, k \in G : <<j, k>> \in R <=> j < k
  OBVIOUS
<1>2. \A j \in G : j \in Nat
  OBVIOUS
<1>3. n \in Nat
  BY FS_CardinalityType
<1>4. ASSUME NEW k \in G PROVE p[k] = Cardinality({j \in G : j < k})
  <2>1. p[k] = Cardinality({j \in G : <<j, k>> \in R})
    BY DEF PlaceIn
  <2>2. {j \in G : <<j, k>> \in R} = {j \in G : j < k}
    BY <1>1
  <2> QED
    BY <2>1, <2>2
<1> HIDE DEF R
<1>5. StrictOrder(R, G)
  BY <1>1, <1>2 DEF StrictOrder
<1>6. p \in Bijection(G, 0..n - 1)
  BY <1>5, PlacesAreOnto
<1>7. T = {k \in G : p[k] \in 0..m - 1}
  BY <1>4
<1> HIDE DEF p, T
<1> DEFINE q == [k \in T |-> p[k]]
<1>8. q \in Bijection(T, 0..m - 1)
  <2>1. \A k, l \in G : p[k] = p[l] => k = l
    BY <1>6 DEF Bijection, Injection, IsInjective
  <2>2. \A i \in 0..n - 1 : \E k \in G : p[k] = i
    BY <1>6 DEF Bijection, Surjection
  <2>3. \A i \in 0..m - 1 : i \in 0..n - 1
    BY <1>3
  <2>4. \A k \in T : q[k] \in 0..m - 1 /\ k \in G /\ q[k] = p[k]
    BY <1>7
  <2>5. ASSUME NEW i \in 0..m - 1 PROVE \E k \in T : q[k] = i
    BY <1>7, <2>2, <2>3
  <2>6. q \in [T -> 0..m - 1]
    BY <2>4
  <2> HIDE DEF q
  <2> QED
    BY <2>1, <2>4, <2>5, <2>6 DEF Bijection, Injection, IsInjective, Surjection
<1>9. IsFiniteSet(T)
  BY <1>7, FS_Subset
<1>10. Cardinality(0..m - 1) = m
  BY FS_Interval
<1> HIDE DEF q
<1>11. Cardinality(0..m - 1) = Cardinality(T)
  BY <1>8, <1>9, FS_Bijection DEF ExistsBijection
<1> QED
  BY <1>10, <1>11 DEF T

AtMost(n) == IF n <= MaxRepeats THEN n ELSE MaxRepeats

(* The middle and the last add nothing to the first MaxRepeats.            *)
LEMMA PicksTheFirst ==
  ASSUME NEW n \in Nat
  PROVE  Picks(n) = 0..AtMost(n) - 1
<1>1. MaxRepeats \in Nat /\ MaxRepeats > 0
  BY SentencesAssumption
<1>2. CASE n <= MaxRepeats
  BY <1>2 DEF Picks, AtMost
<1>3. CASE n > MaxRepeats
  <2> DEFINE wanted == {0, n \div 2, n - 1} \cup 0..MaxRepeats - 1
             less(j) == {h \in wanted : h < j}
  <2>1. n \div 2 \in Nat /\ n - 1 \in Nat
    BY <1>1, <1>3
  <2>2. wanted \in SUBSET Nat /\ 0..MaxRepeats - 1 \subseteq wanted
    BY <1>1, <2>1
  <2>3. IsFiniteSet(wanted)
    <3>1. IsFiniteSet(0..MaxRepeats - 1)
      BY <1>1, FS_Interval
    <3>2. IsFiniteSet({0, n \div 2, n - 1})
      <4>1. {0, n \div 2, n - 1} = (({} \cup {0}) \cup {n \div 2}) \cup {n - 1}
        OBVIOUS
      <4>2. IsFiniteSet((({} \cup {0}) \cup {n \div 2}) \cup {n - 1})
        BY FS_EmptySet, FS_AddElement
      <4> QED
        BY <4>1, <4>2
    <3> QED
      BY <3>1, <3>2, FS_Union
  <2>4. Picks(n) = {j \in wanted : Cardinality(less(j)) < MaxRepeats}
    BY <1>1, <1>3 DEF Picks
  <2> HIDE DEF wanted
  <2>5. ASSUME NEW j \in 0..MaxRepeats - 1
        PROVE  j \in wanted /\ Cardinality(less(j)) < MaxRepeats
    <3>1. less(j) = 0..j - 1
      <4>1. \A h \in less(j) : h \in 0..j - 1
        BY <2>2
      <4>2. \A h \in 0..j - 1 : h \in 0..MaxRepeats - 1 /\ h < j
        BY <1>1
      <4>3. \A h \in 0..j - 1 : h \in less(j)
        BY <2>2, <4>2
      <4> QED
        BY <4>1, <4>3
    <3>2. Cardinality(0..j - 1) = j
      BY FS_Interval
    <3>3. j < MaxRepeats /\ j \in wanted
      BY <1>1, <2>2
    <3> HIDE DEF less
    <3> QED
      BY <3>1, <3>2, <3>3
  <2>6. ASSUME NEW j \in wanted, j \notin 0..MaxRepeats - 1
        PROVE  ~ (Cardinality(less(j)) < MaxRepeats)
    <3>1. j \in Nat /\ j >= MaxRepeats
      BY <1>1, <2>2, <2>6
    <3>2. 0..MaxRepeats - 1 \in SUBSET less(j)
      BY <1>1, <2>2, <3>1
    <3>3. IsFiniteSet(less(j))
      BY <2>3, FS_Subset
    <3>4. Cardinality(0..MaxRepeats - 1) = MaxRepeats
      BY <1>1, FS_Interval
    <3> HIDE DEF less
    <3>5. Cardinality(0..MaxRepeats - 1) <= Cardinality(less(j)) /\ Cardinality(less(j)) \in Nat
      BY <3>2, <3>3, FS_Subset, FS_CardinalityType
    <3> QED
      BY <1>1, <3>4, <3>5
  <2>7. AtMost(n) = MaxRepeats
    BY <1>1, <1>3 DEF AtMost
  <2> QED
    BY <2>4, <2>5, <2>6, <2>7
<1> QED
  BY <1>1, <1>2, <1>3

(* The items that are kept: of those that say the same, as many as may be  *)
(* repeated; each once, whatever their order.                              *)
Same(items, toks) == {k \in DOMAIN items : items[k].toks = toks}

KeptOnes(items) ==
  {k \in DOMAIN items : Cardinality({j \in Same(items, items[k].toks) : j < k}) \in
                         Picks(Cardinality(Same(items, items[k].toks)))}

LEMMA SameFacts ==
  ASSUME NEW S, NEW items \in Seq(S), NEW toks
  PROVE  /\ DOMAIN items \in SUBSET Nat /\ IsFiniteSet(DOMAIN items)
         /\ Same(items, toks) \in SUBSET Nat /\ IsFiniteSet(Same(items, toks))
         /\ Cardinality(Same(items, toks)) \in Nat
<1>1. DOMAIN items = 1..Len(items) /\ Len(items) \in Nat
  OBVIOUS
<1>2. 1 \in Int /\ Len(items) \in Int
  BY <1>1
<1>3. IsFiniteSet(DOMAIN items) /\ DOMAIN items \in SUBSET Nat
  BY <1>1, <1>2, FS_Interval
<1>4. Same(items, toks) \in SUBSET DOMAIN items
  BY DEF Same
<1> QED
  BY <1>3, <1>4, FS_Subset, FS_CardinalityType

LEMMA KeptCounts ==
  ASSUME NEW S, NEW items \in Seq(S), NEW toks
  PROVE  Cardinality({k \in KeptOnes(items) : items[k].toks = toks})
           = AtMost(Cardinality(Same(items, toks)))
<1> DEFINE G == Same(items, toks)
           m == AtMost(Cardinality(G))
<1>1. G \in SUBSET Nat /\ IsFiniteSet(G) /\ Cardinality(G) \in Nat
  BY SameFacts
<1>2. m \in Nat /\ m <= Cardinality(G)
  BY <1>1, SentencesAssumption DEF AtMost
<1>3. Picks(Cardinality(G)) = 0..m - 1
  BY <1>1, PicksTheFirst
<1>4. {k \in KeptOnes(items) : items[k].toks = toks}
        = {k \in G : Cardinality({j \in G : j < k}) \in Picks(Cardinality(G))}
  BY DEF KeptOnes, Same
<1> HIDE DEF G, m
<1>5. Cardinality({k \in G : Cardinality({j \in G : j < k}) \in 0..m - 1}) = m
  BY <1>1, <1>2, FirstOnes
<1> QED
  BY <1>3, <1>4, <1>5 DEF G, m

LEMMA KeptFacts ==
  ASSUME NEW I, \A x \in I : x.row \in Nat, NEW items \in Seq(I),
         \A j, k \in DOMAIN items :
           items[j].row = items[k].row /\ items[j].toks = items[k].toks => j = k
  PROVE  /\ Cardinality(KeptOnes(items)) \in Nat
         /\ Kept(items) \in Bijection(1..Cardinality(KeptOnes(items)), KeptOnes(items))
<1> DEFINE K == KeptOnes(items)
           same(k) == {j \in DOMAIN items : items[j].toks = items[k].toks}
           first(k) == CHOOSE j \in same(k) : \A h \in same(k) : j <= h
           ahead(j, k) == \/ items[j].row < items[k].row
                          \/ items[j].row = items[k].row /\ first(j) < first(k)
           R == {p \in K \X K : ahead(p[1], p[2])}
<1>1. K \in SUBSET DOMAIN items /\ DOMAIN items \in SUBSET Nat /\ IsFiniteSet(DOMAIN items)
  BY SameFacts DEF KeptOnes
<1>2. IsFiniteSet(K)
  BY <1>1, FS_Subset
<1>3. ASSUME NEW k \in DOMAIN items
      PROVE  first(k) \in Nat /\ first(k) \in same(k)
  <2>1. same(k) \in SUBSET Nat /\ k \in same(k)
    BY <1>1
  <2> HIDE DEF same
  <2>2. \E j \in same(k) : \A h \in same(k) : j <= h
    BY <2>1, LeastNumber
  <2>3. first(k) \in same(k)
    BY <2>2
  <2> QED
    BY <2>1, <2>3
<1>4. ASSUME NEW j \in DOMAIN items, NEW k \in DOMAIN items, first(j) = first(k)
      PROVE  items[j].toks = items[k].toks
  <2>1. first(j) \in same(j) /\ first(j) \in same(k)
    BY <1>3, <1>4
  <2> HIDE DEF first
  <2> QED
    BY <2>1
<1>5. ASSUME NEW k \in DOMAIN items PROVE items[k].row \in Nat
  <2>1. items[k] \in I
    OBVIOUS
  <2> QED
    BY <2>1
<1>6. \A j, k \in K : <<j, k>> \in R <=> ahead(j, k)
  <2> HIDE DEF K, ahead
  <2> QED
    OBVIOUS
<1> HIDE DEF first, R
<1>7. StrictOrder(R, K)
  <2>1. \A k \in K : k \in DOMAIN items /\ items[k].row \in Nat /\ first(k) \in Nat
    BY <1>1, <1>3, <1>5
  <2> HIDE DEF K, same
  <2>2. \A x \in K : ~ ahead(x, x)
    BY <2>1
  <2>3. \A x, y, z \in K : ahead(x, y) /\ ahead(y, z) => ahead(x, z)
    BY <2>1
  <2>4. ASSUME NEW x \in K, NEW y \in K PROVE x = y \/ ahead(x, y) \/ ahead(y, x)
    <3>1. CASE items[x].row = items[y].row /\ first(x) = first(y)
      BY <1>4, <2>1, <3>1
    <3>2. CASE ~ (items[x].row = items[y].row /\ first(x) = first(y))
      <4>1. \A a, b \in Nat : a = b \/ a < b \/ b < a
        OBVIOUS
      <4> QED
        BY <2>1, <3>2, <4>1
    <3> QED
      BY <3>1, <3>2
  <2> HIDE DEF ahead
  <2> QED
    BY <1>6, <2>2, <2>3, <2>4 DEF StrictOrder
<1>8. Kept(items) = [k \in 1..Cardinality(K) |->
                      CHOOSE x \in K : Cardinality({y \in K : ahead(y, x)}) = k - 1]
  <2>1. K = {k \in DOMAIN items :
              Cardinality({j \in same(k) : j < k}) \in Picks(Cardinality(same(k)))}
    BY DEF KeptOnes, Same
  <2> HIDE DEF K
  <2> QED
    BY <2>1 DEF Kept, InOrder, first
<1>9. Kept(items) = ListOf(R, K)
  <2> HIDE DEF K, ahead
  <2>1. \A x \in K : {y \in K : ahead(y, x)} = {y \in K : <<y, x>> \in R}
    BY <1>6
  <2> QED
    BY <1>8, <2>1 DEF ListOf
<1> HIDE DEF K, ahead
<1>10. Cardinality(K) \in Nat /\ Kept(items) \in Bijection(1..Cardinality(K), K)
  BY <1>2, <1>7, <1>9, ListsAll
<1> QED
  BY <1>10 DEF K

(* Tokens of a kind in a sequence are as many as in each of the signatures *)
(* it is made of, times how often it was chosen.                           *)
CountsUp(K, sig, D, flat, Q) ==
  LET f == [s \in D |-> Cardinality({k \in K : sig[k] = s})
                           * Cardinality({j \in DOMAIN s : s[j] \in Q})]
  IN  /\ Cardinality({i \in DOMAIN flat : flat[i] \in Q}) = Total(f)
      /\ Total(f) \in Nat

LEMMA FlatCounts ==
  ASSUME NEW W, NEW ss \in Seq(Seq(W)), NEW n \in Nat, n = Len(ss),
         NEW K, IsFiniteSet(K), NEW kept \in Bijection(1..n, K),
         NEW sig \in [K -> Seq(W)], \A a \in 1..n : ss[a] = sig[kept[a]],
         NEW D \in SUBSET Seq(W), IsFiniteSet(D), \A k \in K : sig[k] \in D,
         NEW flat, flat = FlattenSeq(ss), NEW Q
  PROVE  CountsUp(K, sig, D, flat, Q)
<1> DEFINE ks(s) == {k \in K : sig[k] = s}
           js(s) == {j \in DOMAIN s : s[j] \in Q}
           f == [s \in D |-> Cardinality(ks(s)) * Cardinality(js(s))]
           B == [s \in D |-> ks(s) \X js(s)]
           U == UNION {{s} \X B[s] : s \in D}
           I == {i \in DOMAIN flat : flat[i] \in Q}
<1>1. \A a \in 1..n : kept[a] \in K
  BY DEF Bijection, Injection
<1>2. \A a, b \in 1..n : kept[a] = kept[b] => a = b
  BY DEF Bijection, Injection, IsInjective
<1>3. \A k \in K : \E a \in 1..n : kept[a] = k
  BY DEF Bijection, Surjection
<1>4. flat \in Seq(W) /\ DOMAIN flat = 1..Len(flat) /\ Len(flat) \in Nat
  BY FlattenFacts
<1>5. PICK start : Begins(start, ss, flat)
  BY FlattenFacts
<1>6. ASSUME NEW s \in D
      PROVE  /\ IsFiniteSet(ks(s)) /\ IsFiniteSet(js(s))
             /\ Cardinality(ks(s)) \in Nat /\ Cardinality(js(s)) \in Nat
  <2>1. ks(s) \in SUBSET K
    OBVIOUS
  <2>2. s \in Seq(W)
    OBVIOUS
  <2>3. DOMAIN s = 1..Len(s) /\ Len(s) \in Nat
    BY <2>2
  <2>4. 1 \in Int /\ Len(s) \in Int
    BY <2>3
  <2>5. IsFiniteSet(DOMAIN s)
    BY <2>3, <2>4, FS_Interval
  <2>6. js(s) \in SUBSET DOMAIN s
    OBVIOUS
  <2> HIDE DEF ks, js
  <2> QED
    BY <2>1, <2>5, <2>6, FS_Subset, FS_CardinalityType
<1>7. f \in [D -> Nat]
  <2> HIDE DEF ks, js
  <2>1. \A s \in D : Cardinality(ks(s)) * Cardinality(js(s)) \in Nat
    BY <1>6
  <2> QED
    BY <2>1
<1>8. ASSUME NEW s \in D
      PROVE  IsFiniteSet(B[s]) /\ Cardinality(B[s]) = f[s]
  <2> HIDE DEF ks, js
  <2>1. B[s] = ks(s) \X js(s) /\ f[s] = Cardinality(ks(s)) * Cardinality(js(s))
    OBVIOUS
  <2> HIDE DEF B, f
  <2> QED
    BY <1>6, <2>1, FS_Product
<1>9. \A u : u \in U <=> u = <<u[1], u[2]>> /\ u[1] \in D /\ u[2] \in B[u[1]]
  <2> HIDE DEF B
  <2>1. \A u : u \in U <=> \E s \in D : u \in {s} \X B[s]
    OBVIOUS
  <2> HIDE DEF U
  <2> QED
    BY <2>1
<1>10. IsFiniteSet(U) /\ Cardinality(U) = Total(f) /\ Total(f) \in Nat
  <2> HIDE DEF U, B, f
  <2>1. \A s \in D : IsFiniteSet(B[s]) /\ Cardinality(B[s]) = f[s]
    BY <1>8
  <2>2. IsFiniteSet(U) /\ Cardinality(U) = Total(f)
    <3>1. ASSUME NEW E, NEW F, NEW C, NEW V, E = D, F = f, C = B, V = U
          PROVE  IsFiniteSet(V) /\ Cardinality(V) = Total(F)
      <4>1. IsFiniteSet(E)
        BY <3>1
      <4>2. F \in [E -> Nat]
        BY <1>7, <3>1
      <4>3. \A s \in E : IsFiniteSet(C[s]) /\ Cardinality(C[s]) = F[s]
        BY <2>1, <3>1
      <4>4. \A u : u \in V <=> u = <<u[1], u[2]>> /\ u[1] \in E /\ u[2] \in C[u[1]]
        BY <1>9, <3>1
      <4> QED
        BY ONLY <4>1, <4>2, <4>3, <4>4, TotalIsUnion
    <3> QED
      BY <3>1
  <2> QED
    BY <2>2, FS_CardinalityType
<1> DEFINE spot(k) == CHOOSE a \in 1..n : kept[a] = k
           h == [u \in U |-> start[spot(u[2][1])] + u[2][2]]
<1>11. ASSUME NEW k \in K PROVE spot(k) \in 1..n /\ kept[spot(k)] = k
  BY <1>3
<1>12. ASSUME NEW u \in U
       PROVE  /\ u = <<u[1], <<u[2][1], u[2][2]>>>> /\ u[2][1] \in K
              /\ u[1] = sig[u[2][1]] /\ u[2][2] \in 1..Len(u[1]) /\ u[1][u[2][2]] \in Q
  <2>1. u = <<u[1], u[2]>> /\ u[1] \in D /\ u[2] \in B[u[1]]
    BY <1>9
  <2>2. u[2] \in ks(u[1]) \X js(u[1])
    BY <2>1
  <2>3. u[1] \in Seq(W)
    BY <2>1
  <2>4. DOMAIN u[1] = 1..Len(u[1])
    BY <2>3
  <2> HIDE DEF U, B
  <2>5. u[2] = <<u[2][1], u[2][2]>> /\ u[2][1] \in ks(u[1]) /\ u[2][2] \in js(u[1])
    BY <2>2
  <2> QED
    BY <2>1, <2>4, <2>5
<1>13. ASSUME NEW a \in 1..n, NEW j \in 1..Len(ss[a])
       PROVE  /\ start[a] \in Nat /\ Len(ss[a]) \in Nat /\ start[a] + j \in DOMAIN flat
              /\ flat[start[a] + j] = ss[a][j]
  <2>1. start[a] \in Nat /\ start[a] + Len(ss[a]) <= Len(flat)
    BY <1>5 DEF Begins
  <2>2. ss[a] \in Seq(W)
    OBVIOUS
  <2>3. Len(ss[a]) \in Nat
    BY <2>2
  <2>4. flat[start[a] + j] = ss[a][j]
    BY <1>5 DEF Begins
  <2> QED
    BY <1>4, <2>1, <2>3, <2>4
<1> HIDE DEF U, spot
<1>14. ASSUME NEW u \in U
       PROVE  /\ spot(u[2][1]) \in 1..n /\ u[2][2] \in 1..Len(ss[spot(u[2][1])])
              /\ ss[spot(u[2][1])] = u[1]
  BY <1>11, <1>12
<1>15. ASSUME NEW u \in U PROVE h[u] \in I
  <2>1. PICK a \in 1..n : a = spot(u[2][1])
    BY <1>14
  <2>2. PICK j \in 1..Len(ss[a]) : j = u[2][2]
    BY <1>14, <2>1
  <2>3. h[u] = start[a] + j
    BY <2>1, <2>2
  <2>4. start[a] + j \in DOMAIN flat /\ flat[start[a] + j] = ss[a][j]
    BY <1>13
  <2>5. ss[a][j] \in Q
    BY <1>12, <1>14, <2>1, <2>2
  <2> HIDE DEF h
  <2> QED
    BY <2>3, <2>4, <2>5
<1>16. ASSUME NEW u \in U, NEW v \in U, h[u] = h[v] PROVE u = v
  <2>1. PICK a \in 1..n, b \in 1..n : a = spot(u[2][1]) /\ b = spot(v[2][1])
    BY <1>14
  <2>2. PICK j \in 1..Len(ss[a]), l \in 1..Len(ss[b]) : j = u[2][2] /\ l = v[2][2]
    BY <1>14, <2>1
  <2>3. start[a] + j = start[b] + l
    BY <1>16, <2>1, <2>2
  <2>5. start[a] \in Nat /\ start[b] \in Nat /\ Len(ss[a]) \in Nat /\ Len(ss[b]) \in Nat
    BY <1>13, <2>2
  <2>6. /\ a < b => start[a] + Len(ss[a]) <= start[b]
        /\ b < a => start[b] + Len(ss[b]) <= start[a]
    BY <1>5 DEF Begins
  <2> HIDE DEF h
  <2>7. a = b
    BY <2>3, <2>5, <2>6
  <2>8. j = l
    BY <2>3, <2>5, <2>7
  <2>9. kept[a] = u[2][1] /\ kept[b] = v[2][1]
    BY <1>11, <1>12, <2>1
  <2>10. u[2][1] = v[2][1] /\ u[2][2] = v[2][2]
    BY <2>2, <2>7, <2>8, <2>9
  <2>11. u[1] = v[1]
    BY <1>12, <2>10
  <2>12. u = <<u[1], <<u[2][1], u[2][2]>>>> /\ v = <<v[1], <<v[2][1], v[2][2]>>>>
    BY <1>12
  <2> QED
    BY <2>10, <2>11, <2>12
<1>17. ASSUME NEW i \in I PROVE \E u \in U : h[u] = i
  <2>1. PICK a \in 1..n : i \in start[a] + 1..start[a] + Len(ss[a])
    BY <1>4, <1>5 DEF Begins
  <2>2. start[a] \in Nat /\ ss[a] \in Seq(W)
    BY <1>5 DEF Begins
  <2>3. Len(ss[a]) \in Nat /\ DOMAIN ss[a] = 1..Len(ss[a])
    BY <2>2
  <2>4. PICK j \in 1..Len(ss[a]) : i = start[a] + j
    <3>1. i - start[a] \in 1..Len(ss[a]) /\ i = start[a] + (i - start[a])
      BY <2>1, <2>2, <2>3
    <3> QED
      BY <3>1
  <2>5. PICK k \in K : k = kept[a] /\ spot(k) = a
    BY <1>1, <1>2, <1>11
  <2>6. ss[a] = sig[k] /\ ss[a] \in D
    BY <2>5
  <2>7. ss[a][j] \in Q
    BY <1>13, <2>4
  <2> DEFINE u == <<ss[a], <<k, j>>>>
  <2>8. u[1] = ss[a] /\ u[2] = <<k, j>> /\ u[2][1] = k /\ u[2][2] = j
    OBVIOUS
  <2>9. k \in ks(ss[a]) /\ j \in js(ss[a])
    BY <2>3, <2>6, <2>7
  <2> HIDE DEF ks, js
  <2>10. <<k, j>> \in B[ss[a]]
    BY <2>6, <2>9
  <2>11. u \in U
    <3> HIDE DEF B
    <3> QED
      BY <1>9, <2>6, <2>8, <2>10
  <2>12. h[u] = start[a] + j
    <3> HIDE DEF u
    <3> QED
      BY <2>5, <2>8, <2>11
  <2> HIDE DEF u, h
  <2> QED
    BY <2>4, <2>11, <2>12
<1>18. h = [u \in U |-> h[u]]
  OBVIOUS
<1> HIDE DEF h, I
<1>19. h \in Bijection(U, I)
  BY <1>15, <1>16, <1>17, <1>18 DEF Bijection, Injection, IsInjective, Surjection
<1>20. Cardinality(I) = Cardinality(U)
  BY <1>10, <1>19, FS_Bijection DEF ExistsBijection
<1>21. Cardinality(I) = Total(f) /\ Total(f) \in Nat
  BY <1>10, <1>20
<1> QED
  BY <1>21 DEF CountsUp, I

(* Thinned or not, a sentence has tokens of the flat one only; a block     *)
(* that is not shorter than the step of thinning still shows.              *)
ThinsOut(W, flat, words) ==
  /\ words \in Seq(W)
  /\ \A i \in DOMAIN words : \E k \in DOMAIN flat : words[i] = flat[k]
  /\ Len(flat) <= MaxTokens => words = flat
  /\ Len(flat) > MaxTokens =>
       /\ Len(words) = MaxTokens
       /\ \A b, len \in Nat :
            b + len <= Len(flat) /\ Len(flat) <= MaxTokens * len =>
              \E i \in DOMAIN words, k \in b + 1..b + len : words[i] = flat[k]

LEMMA ThinnedTells ==
  ASSUME NEW W, NEW flat \in Seq(W), NEW words, words = Thinned(flat)
  PROVE  ThinsOut(W, flat, words)
<1>1. PICK M \in Nat, L \in Nat : M = MaxTokens /\ M > 0 /\ L = Len(flat)
  BY SentencesAssumption
<1>2. DOMAIN flat = 1..L
  BY <1>1
<1>3. CASE L <= M
  BY <1>1, <1>3 DEF Thinned, ThinsOut
<1>4. CASE L > M
  <2> DEFINE q(i) == (i * L) \div M
             thin == [i \in 1..M |-> flat[q(i - 1) + 1]]
  <2>1. words = thin
    BY <1>1, <1>4 DEF Thinned
  <2>2. ASSUME NEW i \in Nat
        PROVE  q(i) \in Nat /\ i * L \in Nat /\ M * q(i) <= i * L /\ i * L < M * q(i) + M
    <3>1. i * L \in Nat
      BY <1>1
    <3>2. PICK x \in Nat : x = i * L
      BY <3>1
    <3>3. x \div M \in Nat /\ x % M \in 0..M - 1 /\ x = M * (x \div M) + (x % M)
      BY <1>1
    <3>4. PICK y \in Nat : y = x \div M
      BY <3>3
    <3> QED
      BY <1>1, <3>1, <3>2, <3>3, <3>4
  <2> HIDE DEF q
  <2>3. ASSUME NEW i \in Nat, NEW a \in Nat, i * L < M * a
        PROVE  q(i) < a
    <3>0. q(i) \in Nat /\ M * q(i) <= i * L /\ i * L \in Nat
      BY ONLY <2>2, i \in Nat
    <3>1. PICK y \in Nat : y = q(i) /\ M * y <= i * L /\ i * L \in Nat
      BY <3>0
    <3>2. M * y < M * a
      BY <2>3, <3>1
    <3>3. a <= y => M * a <= M * y
      BY <1>1, <3>1
    <3> QED
      BY <1>1, <3>1, <3>2, <3>3
  <2>4. ASSUME NEW i \in 1..M
        PROVE  q(i - 1) + 1 \in 1..L
    <3>1. i - 1 \in Nat /\ i - 1 < M
      OBVIOUS
    <3>2. (i - 1) * L < M * L
      BY <1>1, <1>4, <3>1
    <3>3. q(i - 1) < L /\ q(i - 1) \in Nat
      BY <1>1, <2>2, <2>3, <3>1, <3>2
    <3> QED
      BY <3>3
  <2>5. \A i \in 1..M : thin[i] \in W /\ \E k \in DOMAIN flat : thin[i] = flat[k]
    BY <1>1, <1>2, <2>4
  <2>6. thin \in Seq(W) /\ DOMAIN thin = 1..M
    BY <1>1, <2>5
  <2>7. Len(thin) = M
    <3> HIDE DEF thin
    <3> QED
      BY <1>1, <2>6
  <2>8. ASSUME NEW b \in Nat, NEW len \in Nat, b + len <= L, L <= M * len
        PROVE  \E i \in 1..M, k \in b + 1..b + len : thin[i] = flat[k]
    <3> DEFINE Behind == {i \in Nat : M * b <= i * L}
    <3>1. M - 1 \in Behind
      <4>1. M * b + M * len <= M * L
        BY <1>1, <2>8
      <4>2. (M - 1) * L = M * L - L
        BY <1>1
      <4> QED
        BY <1>1, <2>8, <4>1, <4>2
    <3>2. PICK i \in Behind : \A x \in Behind : i <= x
      <4>1. Behind \in SUBSET Nat /\ Behind # {}
        BY <3>1
      <4> HIDE DEF Behind
      <4> QED
        BY <4>1, LeastNumber
    <3>3. i \in Nat /\ M * b <= i * L /\ i <= M - 1
      BY <3>1, <3>2
    <3>4. b <= q(i)
      <4>1. SUFFICES ASSUME q(i) < b PROVE FALSE
        BY <2>2, <3>3
      <4>0. q(i) \in Nat /\ i * L < M * q(i) + M /\ i * L \in Nat
        BY ONLY <2>2, <3>3
      <4>2. PICK y \in Nat : y = q(i) /\ i * L < M * y + M /\ i * L \in Nat
        BY <4>0
      <4>3. y + 1 <= b => M * (y + 1) <= M * b
        BY <1>1
      <4>4. M * (y + 1) = M * y + M
        BY <1>1
      <4> QED
        BY <1>1, <3>3, <4>1, <4>2, <4>3, <4>4
    <3>5. i * L < M * (b + len)
      <4>1. M * (b + len) = M * b + M * len /\ M * b \in Nat /\ M * len \in Nat
        BY <1>1
      <4>2. CASE i = 0
        BY <1>1, <1>4, <2>8, <4>1, <4>2
      <4>3. CASE i # 0
        <5>1. i - 1 \in Nat /\ i - 1 \notin Behind
          BY <3>2, <3>3, <4>3
        <5>2. ~ (M * b <= (i - 1) * L)
          BY <5>1
        <5>3. (i - 1) * L = i * L - L /\ i * L \in Nat
          BY <1>1, <3>3
        <5> QED
          BY <1>1, <2>8, <4>1, <5>2, <5>3
      <4> QED
        BY <4>2, <4>3
    <3>6. q(i) < b + len /\ q(i) \in Nat
      <4>1. PICK a \in Nat : a = b + len
        OBVIOUS
      <4>2. i * L < M * a
        BY <3>5, <4>1
      <4> QED
        BY <2>2, <2>3, <3>3, <4>1, <4>2
    <3>7. i + 1 \in 1..M /\ (i + 1) - 1 = i /\ q(i) + 1 \in b + 1..b + len
      BY <1>1, <3>3, <3>4, <3>6
    <3>8. thin[i + 1] = flat[q(i) + 1]
      BY <3>7
    <3> QED
      BY <3>7, <3>8
  <2> HIDE DEF thin
  <2>9. \A b, len \in Nat :
          b + len <= L /\ L <= M * len =>
            \E i \in 1..M, k \in b + 1..b + len : thin[i] = flat[k]
    BY <2>8
  <2>10. words \in Seq(W) /\ DOMAIN words = 1..M /\ Len(words) = M
    BY <2>1, <2>6, <2>7
  <2>11. \A i \in DOMAIN words : \E k \in DOMAIN flat : words[i] = flat[k]
    BY <2>1, <2>5, <2>10
  <2>12. \A b, len \in Nat :
           b + len <= Len(flat) /\ Len(flat) <= MaxTokens * len =>
             \E i \in DOMAIN words, k \in b + 1..b + len : words[i] = flat[k]
    <3>1. \A b, len \in Nat :
            b + len <= L /\ L <= M * len =>
              \E i \in DOMAIN words, k \in b + 1..b + len : words[i] = flat[k]
      <4>1. SUFFICES ASSUME NEW b \in Nat, NEW len \in Nat, b + len <= L, L <= M * len
                     PROVE  \E i \in DOMAIN words, k \in b + 1..b + len : words[i] = flat[k]
        OBVIOUS
      <4>2. PICK i \in 1..M, k \in b + 1..b + len : thin[i] = flat[k]
        BY <2>9, <4>1
      <4>3. i \in DOMAIN words /\ words[i] = flat[k]
        BY <2>1, <2>10, <4>2
      <4> QED
        BY <4>3
    <3> QED
      BY ONLY <1>1, <3>1
  <2>13. Len(flat) > MaxTokens /\ ~ (Len(flat) <= MaxTokens) /\ Len(words) = MaxTokens
    BY ONLY <1>1, <1>4, <2>10
  <2> QED
    BY ONLY <2>10, <2>11, <2>12, <2>13 DEF ThinsOut
<1> QED
  BY <1>1, <1>3, <1>4

(* The tokens of an event that one end is told begin with its type and     *)
(* the end's view; only who asks is told a name, and stripped, nobody a    *)
(* verdict.                                                                *)
LEMMA TokenFacts ==
  ASSUME NEW e \in Kinds, NEW view \in {"out", "in"}, NEW strip \in BOOLEAN,
         NEW toks, toks = Tokens(e, view, strip)
  PROVE  /\ \E W : toks \in Seq(W)
         /\ 1 \in DOMAIN toks /\ toks[1] = <<e.type, view>>
         /\ \A k \in DOMAIN toks :
              /\ toks[k][1] = "name" => e.type = "DNS_QUERY" /\ view = "out"
              /\ toks[k][1] = "verdict" => ~ strip
<1>1. e.type \in EventTypes
  BY KindsAssumption DEF KindRecords
<1> DEFINE F    == Fields[e.look]
           told == FieldsTold(e.type, view, strip)
           G    == IF e.type = "RPC_CALL" THEN F.flags ELSE {}
           flags == InOrder(G, <)
           a == <<<<e.type, view>>>>
           b == [k \in DOMAIN told |->
                  <<told[k], IF told[k] = "resource" THEN <<F.resource, F.subresource>> ELSE F[told[k]]>>]
           c == [k \in DOMAIN flags |-> <<"flags", flags[k]>>]
<1>2. toks = a \o b \o c
  BY DEF Tokens
<1>3. /\ DOMAIN told = 1..Len(told) /\ Len(told) \in Nat
      /\ \A k \in DOMAIN told :
           /\ told[k] = "name" => e.type = "DNS_QUERY" /\ view = "out"
           /\ told[k] = "verdict" => ~ strip
  <2>1. CASE e.type = "RPC_CALL"
    <3>1. told = <<"protocol", "method", "path", "status">>
      BY <2>1 DEF FieldsTold
    <3> HIDE DEF told
    <3> QED
      BY <3>1
  <2>2. CASE e.type = "L4_FLOW"
    <3>1. PICK s, u : /\ s = <<"l4_proto", "port">> /\ u = (IF strip THEN <<>> ELSE <<"verdict">>)
                      /\ told = s \o u
      BY <2>2 DEF FieldsTold
    <3> HIDE DEF told
    <3>2. /\ s \in Seq({"l4_proto", "port", "verdict"}) /\ Len(s) = 2
          /\ s[1] = "l4_proto" /\ s[2] = "port"
      BY <3>1
    <3>3. /\ u \in Seq({"l4_proto", "port", "verdict"})
          /\ Len(u) = IF strip THEN 0 ELSE 1
      BY <3>1
    <3>4. PICK W : W = {"l4_proto", "port", "verdict"}
      OBVIOUS
    <3>5. /\ told \in Seq(W) /\ Len(told) = 2 + Len(u) /\ Len(told) \in Nat
          /\ told[1] = s[1] /\ told[2] = s[2]
      BY <3>1, <3>2, <3>3, <3>4, JoinFacts
    <3>6. DOMAIN told = 1..Len(told) /\ \A k \in DOMAIN told : told[k] # "name"
      BY <3>4, <3>5
    <3>7. strip => \A k \in DOMAIN told : k \in {1, 2}
      BY <3>3, <3>5, <3>6
    <3> QED
      BY <3>2, <3>5, <3>6, <3>7
  <2>3. CASE e.type = "DNS_QUERY"
    <3>1. told = IF view = "out" THEN <<"qtype", "name", "rcode">> ELSE <<"qtype", "rcode">>
      BY <2>3 DEF FieldsTold
    <3> HIDE DEF told
    <3>2. CASE view = "out"
      <4>1. told = <<"qtype", "name", "rcode">>
        BY <3>1, <3>2
      <4> QED
        BY <2>3, <3>2, <4>1
    <3>3. CASE view # "out"
      <4>1. told = <<"qtype", "rcode">>
        BY <3>1, <3>3
      <4> QED
        BY <4>1
    <3> QED
      BY <3>2, <3>3
  <2>4. CASE e.type = "K8S_API_CALL"
    <3>1. told = <<"verb", "resource", "user", "status">>
      BY <2>4 DEF FieldsTold
    <3> HIDE DEF told
    <3> QED
      BY <3>1
  <2> QED
    BY <1>1, <2>1, <2>2, <2>3, <2>4 DEF EventTypes
<1>4. Cardinality(G) \in Nat
  <2>1. CASE e.type = "RPC_CALL"
    <3>1. "flags" \in DOMAIN F /\ Holds(F, "flags")
      BY <2>1, FieldsAssumption DEF Layout
    <3>2. F.flags \subseteq 0..10
      BY <3>1 DEF Holds, Width
    <3>3. G \subseteq 0..10
      BY <2>1, <3>2
    <3>4. 0 \in Int /\ 10 \in Int
      OBVIOUS
    <3>5. IsFiniteSet(0..10)
      BY <3>4, FS_Interval
    <3> HIDE DEF G
    <3> QED
      BY <3>3, <3>5, FS_Subset, FS_CardinalityType
  <2>2. CASE e.type # "RPC_CALL"
    BY <2>2, FS_EmptySet
  <2> QED
    BY <2>1, <2>2
<1>5. DOMAIN flags = 1..Cardinality(G)
  <2> HIDE DEF G
  <2> QED
    BY DEF InOrder
<1> DEFINE V == {a[k] : k \in DOMAIN a} \cup {b[k] : k \in DOMAIN b} \cup {c[k] : k \in DOMAIN c}
<1>6. a \in Seq(V) /\ Len(a) = 1 /\ a[1] = <<e.type, view>>
  <2>1. a[1] \in V
    <3> HIDE DEF b, c
    <3> QED
      OBVIOUS
  <2> HIDE DEF V
  <2> QED
    BY <2>1
<1>7. b \in Seq(V)
  <2>1. DOMAIN b = 1..Len(told) /\ Len(told) \in Nat
    BY <1>3
  <2>2. \A k \in DOMAIN b : b[k] \in V
    <3> HIDE DEF a, b, c
    <3> QED
      OBVIOUS
  <2>3. b = [k \in 1..Len(told) |-> b[k]]
    BY <2>1
  <2> HIDE DEF V, b
  <2> QED
    BY <2>1, <2>2, <2>3
<1>8. c \in Seq(V)
  <2>1. DOMAIN c = 1..Cardinality(G)
    BY <1>5
  <2>2. \A k \in DOMAIN c : c[k] \in V
    <3> HIDE DEF a, b, c
    <3> QED
      OBVIOUS
  <2>3. c = [k \in 1..Cardinality(G) |-> c[k]]
    BY <2>1
  <2> HIDE DEF V, c, G
  <2> QED
    BY <1>4, <2>1, <2>2, <2>3
<1>9. \A t \in V :
        /\ t[1] = "name" => e.type = "DNS_QUERY" /\ view = "out"
        /\ t[1] = "verdict" => ~ strip
  <2>1. \A k \in DOMAIN a : a[k][1] \in EventTypes
    BY <1>1
  <2>2. \A k \in DOMAIN b : k \in DOMAIN told /\ b[k][1] = told[k]
    <3> HIDE DEF told
    <3> QED
      OBVIOUS
  <2>3. \A k \in DOMAIN c : c[k][1] = "flags"
    <3> HIDE DEF flags
    <3> QED
      OBVIOUS
  <2> HIDE DEF a, b, c, told
  <2>4. \A t \in V : \/ \E k \in DOMAIN a : t = a[k]
                     \/ \E k \in DOMAIN b : t = b[k]
                     \/ \E k \in DOMAIN c : t = c[k]
    OBVIOUS
  <2> HIDE DEF V
  <2> QED
    BY <1>3, <2>1, <2>2, <2>3, <2>4 DEF EventTypes
<1> HIDE DEF a, b, c, V
<1>10. PICK ab : ab = a \o b
  OBVIOUS
<1>11. ab \in Seq(V) /\ 1 <= Len(ab) /\ ab[1] = a[1] /\ Len(ab) \in Nat
  <2>1. PICK l, m : l = a /\ m = b /\ ab = l \o m
    BY <1>10
  <2>2. /\ ab \in Seq(V) /\ Len(ab) = Len(l) + Len(m) /\ Len(m) \in Nat
        /\ \A j \in 1..Len(l) : ab[j] = l[j]
    BY <1>6, <1>7, <2>1, JoinFacts
  <2>3. Len(l) = 1 /\ l[1] = a[1]
    BY <1>6, <2>1
  <2>4. ab[1] = l[1]
    BY <2>2, <2>3
  <2> QED
    BY ONLY <2>2, <2>3, <2>4
<1>12. toks \in Seq(V) /\ Len(toks) >= 1 /\ toks[1] = ab[1] /\ Len(toks) \in Nat
  <2>1. PICK l, m : l = ab /\ m = c /\ toks = l \o m
    BY <1>2, <1>10
  <2>2. /\ toks \in Seq(V) /\ Len(toks) = Len(l) + Len(m) /\ Len(m) \in Nat
        /\ \A j \in 1..Len(l) : toks[j] = l[j]
    BY <1>8, <1>11, <2>1, JoinFacts
  <2> QED
    BY <1>11, <2>1, <2>2
<1>13. DOMAIN toks = 1..Len(toks)
  BY <1>12
<1> QED
  BY <1>6, <1>9, <1>11, <1>12, <1>13

(* What an event is told with, over all events.                            *)
AllTokens ==
  UNION {{Tokens(k[1], k[2], k[3])[j] : j \in DOMAIN Tokens(k[1], k[2], k[3])} :
           k \in Kinds \X {"out", "in"} \X BOOLEAN}

LEMMA TokensAreSeqs ==
  ASSUME NEW e \in Kinds, NEW view \in {"out", "in"}, NEW strip \in BOOLEAN
  PROVE  Tokens(e, view, strip) \in Seq(AllTokens)
<1>1. PICK toks : toks = Tokens(e, view, strip)
  OBVIOUS
<1>2. PICK W : toks \in Seq(W)
  BY <1>1, TokenFacts
<1>3. DOMAIN toks = 1..Len(toks) /\ Len(toks) \in Nat /\ toks = [j \in 1..Len(toks) |-> toks[j]]
  BY <1>2
<1>4. \A j \in DOMAIN toks : toks[j] \in AllTokens
  <2>1. PICK k \in Kinds \X {"out", "in"} \X BOOLEAN : k = <<e, view, strip>>
    OBVIOUS
  <2>2. k[1] = e /\ k[2] = view /\ k[3] = strip
    BY <2>1
  <2> QED
    BY <1>1, <2>2 DEF AllTokens
<1> QED
  BY <1>1, <1>3, <1>4

(* The ends of an event that an entity is at: it is told of it once from   *)
(* each.                                                                   *)
LEMMA SidesFacts ==
  ASSUME NEW e, NEW n, NEW sides, sides = SidesOf(e, n)
  PROVE  /\ sides \in Seq({"out", "in"})
         /\ \A x, y \in DOMAIN sides : sides[x] = sides[y] => x = y
         /\ \A x \in DOMAIN sides : sides[x] = "out" => e.src = n
<1>1. PICK o, d, v : /\ o = (IF e.src = n THEN <<"out">> ELSE <<>>)
                     /\ d = (IF e.dst = n THEN <<"in">> ELSE <<>>)
                     /\ v = (IF n = e.svc /\ n \notin {NoSvc, e.dst} THEN <<"in">> ELSE <<>>)
                     /\ sides = o \o d \o v
  BY DEF SidesOf
<1>2. d = <<>> \/ v = <<>>
  BY <1>1
<1>3. \A s \in Seq({"out", "in"}) : s \o <<>> = s /\ <<>> \o s = s
  OBVIOUS
<1>4. /\ o \in Seq({"out", "in"}) /\ d \in Seq({"out", "in"}) /\ v \in Seq({"out", "in"})
      /\ o \o d \in Seq({"out", "in"})
  <2>1. /\ o = <<>> \/ o = <<"out">>
        /\ d = <<>> \/ d = <<"in">>
        /\ v = <<>> \/ v = <<"in">>
    BY <1>1
  <2>2. PICK W : W = {"out", "in"}
    OBVIOUS
  <2>3. <<>> \in Seq(W) /\ <<"out">> \in Seq(W) /\ <<"in">> \in Seq(W)
    BY <2>2
  <2>4. o \in Seq(W) /\ d \in Seq(W) /\ v \in Seq(W)
    BY <2>1, <2>3
  <2> QED
    BY <2>2, <2>4
<1>5. PICK i : i \in {<<>>, <<"in">>} /\ sides = o \o i
  <2>1. CASE d = <<>>
    BY <1>1, <1>3, <1>4, <2>1
  <2>2. CASE v = <<>>
    BY <1>1, <1>3, <1>4, <2>2
  <2> QED
    BY <1>2, <2>1, <2>2
<1>6. CASE e.src = n /\ i = <<"in">>
  <2>1. PICK W : W = {"out", "in"}
    OBVIOUS
  <2>3. sides = <<"out">> \o <<"in">>
    BY <1>1, <1>5, <1>6
  <2>4. sides \in Seq(W) /\ Len(sides) = 2
    BY ONLY <2>1, <2>3
  <2>5. sides[1] = "out" /\ sides[2] = "in"
    BY ONLY <2>3
  <2>6. DOMAIN sides = {1, 2}
    BY ONLY <2>4
  <2> QED
    BY <1>6, <2>1, <2>4, <2>5, <2>6
<1>7. CASE e.src = n /\ i = <<>>
  <2>1. sides = <<"out">>
    BY <1>1, <1>3, <1>4, <1>5, <1>7
  <2> QED
    BY <1>7, <2>1
<1>8. CASE e.src # n
  <2>1. sides = i
    <3>1. o = <<>> /\ i \in Seq({"out", "in"}) /\ sides = o \o i
      BY <1>1, <1>5, <1>8
    <3> QED
      BY <1>3, <3>1
  <2>2. sides = <<>> \/ sides = <<"in">>
    BY <1>5, <2>1
  <2>3. sides = <<>> => DOMAIN sides = {} /\ sides \in Seq({"out", "in"})
    OBVIOUS
  <2>4. sides = <<"in">> => DOMAIN sides = {1} /\ sides[1] = "in" /\ sides \in Seq({"out", "in"})
    OBVIOUS
  <2> QED
    BY <2>2, <2>3, <2>4
<1> QED
  BY <1>5, <1>6, <1>7, <1>8

ItemSet == [row : Nat, toks : Seq(AllTokens)]

(* The items of an entity: each is the event of a row as seen from one of  *)
(* its ends, and no two are of the same row and say the same.              *)
LEMMA ItemsFacts ==
  ASSUME NEW R \in Seq(Row), NEW p, NEW n, NEW strip \in BOOLEAN,
         NEW items, items = Items(R, p, n, strip)
  PROVE  /\ items \in Seq(ItemSet)
         /\ \A k \in DOMAIN items :
              /\ items[k].row \in At(R, p)
              /\ \A j \in DOMAIN items[k].toks :
                   /\ items[k].toks[j][1] = "name" =>
                        R[items[k].row].e.type = "DNS_QUERY" /\ R[items[k].row].e.src = n
                   /\ items[k].toks[j][1] = "verdict" => ~ strip
         /\ \A j, k \in DOMAIN items :
              items[j].row = items[k].row /\ items[j].toks = items[k].toks => j = k
<1>1. PICK m \in Nat : R \in [1..m -> Row]
  OBVIOUS
<1> DEFINE sides(i) == IF R[i].pos = p THEN SidesOf(R[i].e, n) ELSE <<>>
           line(i) == [k \in DOMAIN sides(i) |-> [row |-> i, toks |-> Tokens(R[i].e, sides(i)[k], strip)]]
           rs == [i \in DOMAIN R |-> line(i)]
<1>2. items = FlattenSeq(rs)
  BY DEF Items
<1>3. ASSUME NEW i \in 1..m
      PROVE  /\ R[i].e \in Kinds /\ i \in Nat
             /\ sides(i) \in Seq({"out", "in"})
             /\ \A x, y \in DOMAIN sides(i) : sides(i)[x] = sides(i)[y] => x = y
             /\ \A x \in DOMAIN sides(i) :
                  R[i].pos = p /\ (sides(i)[x] = "out" => R[i].e.src = n)
  <2>1. R[i].e \in Kinds
    BY <1>1 DEF Row
  <2>2. CASE R[i].pos = p
    <3>1. PICK s : s = SidesOf(R[i].e, n) /\ sides(i) = s
      BY <2>2
    <3> HIDE DEF sides
    <3> QED
      BY <1>1, <2>1, <2>2, <3>1, SidesFacts
  <2>3. CASE R[i].pos # p
    <3>1. sides(i) = <<>>
      BY <2>3
    <3> HIDE DEF sides
    <3> QED
      BY <2>1, <3>1
  <2> QED
    BY <2>2, <2>3
<1> HIDE DEF sides
<1>4. ASSUME NEW i \in 1..m
      PROVE  /\ line(i) \in Seq(ItemSet) /\ DOMAIN line(i) = DOMAIN sides(i)
             /\ \A k \in DOMAIN sides(i) :
                  /\ sides(i)[k] \in {"out", "in"}
                  /\ line(i)[k].row = i
                  /\ line(i)[k].toks = Tokens(R[i].e, sides(i)[k], strip)
  <2>1. DOMAIN sides(i) = 1..Len(sides(i)) /\ Len(sides(i)) \in Nat
    BY <1>3
  <2>2. \A k \in DOMAIN sides(i) : sides(i)[k] \in {"out", "in"}
    BY <1>3
  <2>3. \A k \in DOMAIN sides(i) : Tokens(R[i].e, sides(i)[k], strip) \in Seq(AllTokens)
    BY <1>3, <2>2, TokensAreSeqs
  <2>4. \A k \in DOMAIN sides(i) :
          [row |-> i, toks |-> Tokens(R[i].e, sides(i)[k], strip)] \in ItemSet
    BY <1>3, <2>3 DEF ItemSet
  <2>5. line(i) \in Seq(ItemSet)
    BY <2>1, <2>4
  <2> QED
    BY <2>2, <2>5
<1> HIDE DEF line
<1>5. rs \in Seq(Seq(ItemSet)) /\ DOMAIN rs = 1..m /\ Len(rs) = m
  BY <1>1, <1>4
<1>6. \A i \in 1..m : rs[i] = line(i)
  BY <1>1
<1> HIDE DEF rs
<1>7. PICK start : items \in Seq(ItemSet) /\ Begins(start, rs, items)
  BY <1>2, <1>5, FlattenFacts
<1>8. DOMAIN items = 1..Len(items)
  BY <1>7
<1>9. ASSUME NEW k \in DOMAIN items
      PROVE  \E i \in 1..m, j \in Nat : j \in DOMAIN sides(i) /\ k = start[i] + j /\ items[k] = line(i)[j]
  <2>1. PICK i \in 1..m : k \in start[i] + 1..start[i] + Len(rs[i])
    BY <1>5, <1>7, <1>8 DEF Begins
  <2>2. start[i] \in Nat /\ rs[i] \in Seq(ItemSet)
    BY <1>5, <1>7 DEF Begins
  <2>3. Len(rs[i]) \in Nat /\ DOMAIN rs[i] = 1..Len(rs[i]) /\ k \in Int
    BY <1>7, <1>8, <2>2
  <2>4. PICK j \in 1..Len(rs[i]) : j = k - start[i]
    BY <2>1, <2>2, <2>3
  <2>5. j \in Nat /\ k = start[i] + j
    BY <2>2, <2>3, <2>4
  <2>6. items[start[i] + j] = rs[i][j]
    BY <1>5, <1>7, <2>4 DEF Begins
  <2>7. j \in DOMAIN sides(i)
    BY <1>4, <1>6, <2>3
  <2> QED
    BY <1>6, <2>5, <2>6, <2>7
<1>10. ASSUME NEW k \in DOMAIN items
       PROVE  /\ items[k].row \in At(R, p)
              /\ \A j \in DOMAIN items[k].toks :
                   /\ items[k].toks[j][1] = "name" =>
                        R[items[k].row].e.type = "DNS_QUERY" /\ R[items[k].row].e.src = n
                   /\ items[k].toks[j][1] = "verdict" => ~ strip
  <2>1. PICK i \in 1..m, j \in Nat : j \in DOMAIN sides(i) /\ items[k] = line(i)[j]
    BY <1>9
  <2>2. PICK view \in {"out", "in"} :
          view = sides(i)[j] /\ items[k].row = i /\ items[k].toks = Tokens(R[i].e, view, strip)
    BY <1>4, <2>1
  <2>6. PICK toks : items[k].toks = toks /\ toks = Tokens(R[i].e, view, strip)
    BY <2>2
  <2>3. R[i].pos = p /\ (view = "out" => R[i].e.src = n) /\ R[i].e \in Kinds
    BY <1>3, <2>1, <2>2
  <2>4. i \in At(R, p)
    BY <1>1, <2>3 DEF At
  <2>5. \A l \in DOMAIN toks :
          /\ toks[l][1] = "name" => R[i].e.type = "DNS_QUERY" /\ view = "out"
          /\ toks[l][1] = "verdict" => ~ strip
    BY <2>3, <2>6, TokenFacts
  <2> QED
    BY <2>2, <2>3, <2>4, <2>5, <2>6
<1>11. ASSUME NEW k \in DOMAIN items, NEW l \in DOMAIN items,
              items[k].row = items[l].row, items[k].toks = items[l].toks
       PROVE  k = l
  <2>1. PICK a \in 1..m, x \in Nat : x \in DOMAIN sides(a) /\ k = start[a] + x /\ items[k] = line(a)[x]
    BY <1>9
  <2>2. PICK b \in 1..m, y \in Nat : y \in DOMAIN sides(b) /\ l = start[b] + y /\ items[l] = line(b)[y]
    BY <1>9
  <2>3. a = b
    BY <1>4, <1>11, <2>1, <2>2
  <2>4. PICK u \in {"out", "in"}, v \in {"out", "in"} : u = sides(a)[x] /\ v = sides(a)[y]
    BY <1>4, <2>1, <2>2, <2>3
  <2>5. Tokens(R[a].e, u, strip) = Tokens(R[a].e, v, strip)
    BY <1>4, <1>11, <2>1, <2>2, <2>3, <2>4
  <2>6. u = v
    <3>1. PICK s, t : s = Tokens(R[a].e, u, strip) /\ t = Tokens(R[a].e, v, strip)
      OBVIOUS
    <3>2. R[a].e \in Kinds
      BY <1>3
    <3>3. s[1] = <<R[a].e.type, u>>
      BY <3>1, <3>2, TokenFacts
    <3>4. t[1] = <<R[a].e.type, v>>
      BY <3>1, <3>2, TokenFacts
    <3> QED
      BY <2>5, <3>1, <3>3, <3>4
  <2>7. x = y
    BY <1>3, <2>1, <2>2, <2>3, <2>4, <2>6
  <2> QED
    BY <2>1, <2>2, <2>3, <2>7
<1> QED
  BY <1>7, <1>10, <1>11

(* What SentenceTellsAll says of the sentence of n in window p.            *)
TellsAll(items, R, p, n, strip, words) ==
  LET sigs     == {items[k].toks : k \in DOMAIN items}
      times(s) == AtMost(Cardinality(Same(items, s)))
      uses(t, w) == Cardinality({k \in DOMAIN w : w[k] = t})
      total    == Total([s \in sigs |-> times(s) * Len(s)])
  IN  /\ IF total <= MaxTokens
         THEN /\ Len(words) = total
              /\ \A t \in Range(words) :
                   uses(t, words) = Total([s \in sigs |-> times(s) * uses(t, s)])
         ELSE /\ Len(words) = MaxTokens
              /\ \A s \in sigs :
                   total <= MaxTokens * Len(s) => Range(s) \cap Range(words) # {}
      /\ \A t \in Range(words) :
           /\ t[1] = "name" => \E i \in At(R, p) : R[i].e.src = n /\ R[i].e.type = "DNS_QUERY"
           /\ t[1] = "verdict" => ~ strip

LEMMA SentenceFacts ==
  ASSUME NEW R \in Seq(Row), NEW p, NEW n, NEW strip \in BOOLEAN,
         NEW words, words = Sentence(R, p, n, strip)
  PROVE  TellsAll(Items(R, p, n, strip), R, p, n, strip, words)
<1>1. PICK items : items = Items(R, p, n, strip)
  OBVIOUS
<1>2. /\ items \in Seq(ItemSet)
      /\ \A k \in DOMAIN items :
           /\ items[k].row \in At(R, p)
           /\ \A j \in DOMAIN items[k].toks :
                /\ items[k].toks[j][1] = "name" =>
                     R[items[k].row].e.type = "DNS_QUERY" /\ R[items[k].row].e.src = n
                /\ items[k].toks[j][1] = "verdict" => ~ strip
      /\ \A j, k \in DOMAIN items :
           items[j].row = items[k].row /\ items[j].toks = items[k].toks => j = k
  BY <1>1, ItemsFacts
<1>3. PICK K, c : K = KeptOnes(items) /\ c = Cardinality(K)
  OBVIOUS
<1>4. PICK kept : kept = Kept(items)
  OBVIOUS
<1>5. c \in Nat /\ kept \in Bijection(1..c, K)
  <2>1. \A x \in ItemSet : x.row \in Nat
    BY DEF ItemSet
  <2> QED
    BY <1>2, <1>3, <1>4, <2>1, KeptFacts
<1>6. K \in SUBSET DOMAIN items /\ IsFiniteSet(K) /\ IsFiniteSet(DOMAIN items)
      /\ DOMAIN items \in SUBSET Nat
  <2>1. IsFiniteSet(DOMAIN items) /\ DOMAIN items \in SUBSET Nat
    BY <1>2, SameFacts
  <2>2. K \in SUBSET DOMAIN items
    BY <1>3 DEF KeptOnes
  <2> QED
    BY <2>1, <2>2, FS_Subset
<1>7. DOMAIN kept = 1..c /\ \A a \in 1..c : kept[a] \in K
  BY <1>5 DEF Bijection, Injection
<1>8. \A k \in DOMAIN items : items[k].toks \in Seq(AllTokens)
  <2>1. \A x \in ItemSet : x.toks \in Seq(AllTokens)
    BY DEF ItemSet
  <2>2. \A k \in DOMAIN items : items[k] \in ItemSet
    BY <1>2
  <2> QED
    BY <2>1, <2>2
<1> DEFINE ss == [a \in 1..c |-> items[kept[a]].toks]
           sig == [k \in K |-> items[k].toks]
           D == {items[k].toks : k \in DOMAIN items}
<1>9. ss \in Seq(Seq(AllTokens)) /\ Len(ss) = c /\ DOMAIN ss = 1..c
  BY <1>5, <1>6, <1>7, <1>8
<1>10. PICK flat : flat = FlattenSeq(ss)
  OBVIOUS
<1>11. words = Thinned(flat)
  BY <1>1, <1>4, <1>7, <1>10 DEF Sentence
<1>12. flat \in Seq(AllTokens) /\ \E start : Begins(start, ss, flat)
  BY <1>9, <1>10, FlattenFacts
<1>13. DOMAIN flat = 1..Len(flat) /\ Len(flat) \in Nat
  BY <1>12
<1>14. sig \in [K -> Seq(AllTokens)] /\ \A a \in 1..c : ss[a] = sig[kept[a]]
  BY <1>6, <1>7, <1>8
<1>15. D \in SUBSET Seq(AllTokens) /\ IsFiniteSet(D) /\ \A k \in K : sig[k] \in D
  <2>1. IsFiniteSet(D)
    <3> DEFINE g == [k \in DOMAIN items |-> items[k].toks]
    <3>1. g \in Surjection(DOMAIN items, D)
      BY DEF Surjection
    <3> HIDE DEF g, D
    <3> QED
      BY <1>6, <3>1, FS_Surjection
  <2> QED
    BY <1>6, <1>8, <2>1
<1> DEFINE times(s) == AtMost(Cardinality(Same(items, s)))
           uses(t, w) == Cardinality({k \in DOMAIN w : w[k] = t})
           total == Total([s \in D |-> times(s) * Len(s)])
<1>16. \A s : times(s) \in Nat /\ Cardinality({k \in K : sig[k] = s}) = times(s)
  <2>1. ASSUME NEW s PROVE times(s) \in Nat /\ Cardinality({k \in K : sig[k] = s}) = times(s)
    <3>1. {k \in K : sig[k] = s} = {k \in KeptOnes(items) : items[k].toks = s}
      BY <1>3
    <3>2. times(s) \in Nat
      BY <1>2, SameFacts, SentencesAssumption DEF AtMost
    <3> QED
      BY <1>2, <3>1, <3>2, KeptCounts
  <2> QED
    BY <2>1
<1> HIDE DEF sig, ss, D, times
<1>17. ASSUME NEW Q
       PROVE  LET f == [s \in D |-> times(s) * Cardinality({j \in DOMAIN s : s[j] \in Q})]
              IN  Cardinality({i \in DOMAIN flat : flat[i] \in Q}) = Total(f) /\ Total(f) \in Nat
  <2> DEFINE f == [s \in D |-> times(s) * Cardinality({j \in DOMAIN s : s[j] \in Q})]
             g == [s \in D |-> Cardinality({k \in K : sig[k] = s})
                                 * Cardinality({j \in DOMAIN s : s[j] \in Q})]
  <2>1. f = g
    BY <1>16
  <2>2. Cardinality({i \in DOMAIN flat : flat[i] \in Q}) = Total(g) /\ Total(g) \in Nat
    <3>1. PICK l : l = c /\ l \in Nat /\ l = Len(ss)
      BY <1>5, <1>9
    <3>2. kept \in Bijection(1..l, K) /\ \A a \in 1..l : ss[a] = sig[kept[a]]
      BY <1>5, <1>14, <3>1
    <3>3. ASSUME NEW W, W = AllTokens, NEW z, z = ss, NEW y, y = sig, NEW E, E = D
          PROVE  CountsUp(K, y, E, flat, Q)
      <4>1. z \in Seq(Seq(W))
        BY <1>9, <3>3
      <4>2. y \in [K -> Seq(W)]
        BY <1>14, <3>3
      <4>3. \A a \in 1..l : z[a] = y[kept[a]]
        BY <3>2, <3>3
      <4>4. E \in SUBSET Seq(W)
        BY <1>15, <3>3
      <4>5. IsFiniteSet(E) /\ IsFiniteSet(K)
        BY <1>6, <1>15, <3>3
      <4>6. \A k \in K : y[k] \in E
        BY <1>15, <3>3
      <4>7. flat = FlattenSeq(z)
        BY <1>10, <3>3
      <4>8. l \in Nat /\ l = Len(z)
        BY <3>1, <3>3
      <4>9. kept \in Bijection(1..l, K)
        BY <3>2
      <4> QED
        BY ONLY <4>1, <4>2, <4>3, <4>4, <4>5, <4>6, <4>7, <4>8, <4>9, FlatCounts
    <3> QED
      BY <3>3 DEF CountsUp
  <2> QED
    BY <2>1, <2>2
<1>18. total = Len(flat)
  <2> DEFINE f == [s \in D |-> times(s) * Cardinality({j \in DOMAIN s : s[j] \in AllTokens})]
             g == [s \in D |-> times(s) * Len(s)]
  <2>1. ASSUME NEW s \in D PROVE Cardinality({j \in DOMAIN s : s[j] \in AllTokens}) = Len(s)
    <3>1. s \in Seq(AllTokens)
      BY <1>15
    <3>2. {j \in DOMAIN s : s[j] \in AllTokens} = 1..Len(s) /\ Len(s) \in Nat
      BY <3>1
    <3>3. PICK l \in Nat : l = Len(s)
      BY <3>2
    <3>4. 1 \in Int /\ l \in Int
      OBVIOUS
    <3>5. Cardinality(1..l) = l
      BY ONLY l \in Nat, <3>4, FS_Interval
    <3> QED
      BY <3>2, <3>3, <3>5
  <2>2. f = g
    BY <2>1
  <2>3. Cardinality({i \in DOMAIN flat : flat[i] \in AllTokens}) = Total(f)
    BY <1>17
  <2>4. {i \in DOMAIN flat : flat[i] \in AllTokens} = 1..Len(flat)
    BY <1>12, <1>13
  <2>6. Cardinality(1..Len(flat)) = Len(flat)
    <3>1. PICK l \in Nat : l = Len(flat)
      BY <1>13
    <3>2. 1 \in Int /\ l \in Int
      OBVIOUS
    <3>3. Cardinality(1..l) = l
      BY ONLY l \in Nat, <3>2, FS_Interval
    <3> QED
      BY <3>1, <3>3
  <2> QED
    BY <2>2, <2>3, <2>4, <2>6
<1>19. \A t : uses(t, flat) = Total([s \in D |-> times(s) * uses(t, s)])
  <2>1. ASSUME NEW t PROVE uses(t, flat) = Total([s \in D |-> times(s) * uses(t, s)])
    <3> DEFINE f == [s \in D |-> times(s) * Cardinality({j \in DOMAIN s : s[j] \in {t}})]
               g == [s \in D |-> times(s) * uses(t, s)]
    <3>1. \A s : {j \in DOMAIN s : s[j] \in {t}} = {j \in DOMAIN s : s[j] = t}
      OBVIOUS
    <3>2. f = g
      BY <3>1
    <3>3. Cardinality({i \in DOMAIN flat : flat[i] \in {t}}) = Total(f)
      BY <1>17
    <3> QED
      BY <3>1, <3>2, <3>3
  <2> QED
    BY <2>1
<1>20. PICK start : Begins(start, ss, flat)
  BY <1>12
<1>21. \A k \in DOMAIN flat : \E l \in K : \E j \in DOMAIN items[l].toks : flat[k] = items[l].toks[j]
  <2>1. ASSUME NEW k \in DOMAIN flat
        PROVE  \E l \in K : \E j \in DOMAIN items[l].toks : flat[k] = items[l].toks[j]
    <3>1. PICK a \in 1..c : k \in start[a] + 1..start[a] + Len(ss[a])
      BY <1>9, <1>13, <1>20 DEF Begins
    <3>2. start[a] \in Nat /\ ss[a] \in Seq(AllTokens) /\ k \in Nat
      <4>1. start[a] \in Nat
        BY <1>9, <1>20 DEF Begins
      <4>2. ss[a] \in Seq(AllTokens)
        BY <1>9
      <4>3. k \in Nat
        BY <1>13
      <4> QED
        BY <4>1, <4>2, <4>3
    <3>3. PICK l \in K : l = kept[a] /\ ss[a] = items[l].toks
      BY <1>7 DEF ss
    <3>4. Len(ss[a]) \in Nat /\ DOMAIN ss[a] = 1..Len(ss[a])
      BY <3>2
    <3>5. PICK j \in 1..Len(ss[a]) : j = k - start[a]
      BY <3>1, <3>2, <3>4
    <3>6. k = start[a] + j
      BY <3>2, <3>4, <3>5
    <3>7. flat[start[a] + j] = ss[a][j]
      BY <1>9, <1>20, <3>5 DEF Begins
    <3> QED
      BY <3>3, <3>4, <3>6, <3>7
  <2> QED
    BY <2>1
<1>22. \A s \in D : \E a \in 1..c : ss[a] = s
  <2>1. ASSUME NEW s \in D PROVE \E a \in 1..c : ss[a] = s
    <3>1. PICK k \in DOMAIN items : items[k].toks = s
      BY DEF D
    <3>2. k \in Same(items, s)
      BY <3>1 DEF Same
    <3>3. IsFiniteSet(Same(items, s)) /\ Cardinality(Same(items, s)) \in Nat
      BY <1>2, SameFacts
    <3>4. Cardinality(Same(items, s)) # 0
      BY <3>2, <3>3, FS_EmptySet
    <3>5. times(s) # 0
      BY <3>3, <3>4, SentencesAssumption DEF times, AtMost
    <3>6. {l \in K : sig[l] = s} # {}
      BY <1>16, <3>5, FS_EmptySet
    <3>7. PICK l \in K : sig[l] = s
      BY <3>6
    <3>8. PICK a \in 1..c : kept[a] = l
      BY <1>5 DEF Bijection, Surjection
    <3> QED
      BY <1>14, <3>7, <3>8
  <2> QED
    BY <2>1
<1> HIDE DEF uses, total
<1>23. /\ words \in Seq(AllTokens)
       /\ \A i \in DOMAIN words : \E k \in DOMAIN flat : words[i] = flat[k]
       /\ Len(flat) <= MaxTokens => words = flat
       /\ Len(flat) > MaxTokens =>
            /\ Len(words) = MaxTokens
            /\ \A b, len \in Nat :
                 b + len <= Len(flat) /\ Len(flat) <= MaxTokens * len =>
                   \E i \in DOMAIN words, k \in b + 1..b + len : words[i] = flat[k]
  <2>1. PICK W : W = AllTokens
    OBVIOUS
  <2>2. flat \in Seq(W)
    BY <1>12, <2>1
  <2>3. ThinsOut(W, flat, words)
    BY ONLY <1>11, <2>2, ThinnedTells
  <2> QED
    BY <2>1, <2>3 DEF ThinsOut
<1>24. ASSUME NEW t \in Range(words)
       PROVE  /\ t[1] = "name" => \E i \in At(R, p) : R[i].e.src = n /\ R[i].e.type = "DNS_QUERY"
              /\ t[1] = "verdict" => ~ strip
  <2>1. PICK i \in DOMAIN words : t = words[i]
    BY DEF Range
  <2>2. PICK k \in DOMAIN flat : t = flat[k]
    BY <1>23, <2>1
  <2>3. PICK l \in K : \E j \in DOMAIN items[l].toks : t = items[l].toks[j]
    BY <1>21, <2>2
  <2>4. PICK j \in DOMAIN items[l].toks : t = items[l].toks[j]
    BY <2>3
  <2> QED
    BY <1>2, <1>6, <2>4
<1>25. ASSUME Len(flat) > MaxTokens, NEW s \in D, Len(flat) <= MaxTokens * Len(s)
       PROVE  Range(s) \cap Range(words) # {}
  <2>1. PICK a \in 1..c : ss[a] = s
    BY <1>22
  <2>2. s \in Seq(AllTokens)
    BY <1>15
  <2>3. Len(s) \in Nat /\ DOMAIN s = 1..Len(s)
    BY <2>2
  <2>4. start[a] \in Nat /\ start[a] + Len(s) <= Len(flat)
    BY <1>9, <1>20, <2>1 DEF Begins
  <2>5. PICK i \in DOMAIN words, k \in start[a] + 1..start[a] + Len(s) : words[i] = flat[k]
    BY <1>23, <1>25, <2>3, <2>4
  <2>6. PICK j \in 1..Len(s) : j = k - start[a]
    BY <2>3, <2>4, <2>5
  <2>7. k = start[a] + j
    BY <2>3, <2>4, <2>6
  <2>8. flat[start[a] + j] = s[j]
    BY <1>9, <1>20, <2>1, <2>6 DEF Begins
  <2>9. s[j] \in Range(s) /\ words[i] \in Range(words)
    BY <2>3 DEF Range
  <2> QED
    BY <2>5, <2>7, <2>8, <2>9
<1>26. MaxTokens \in Nat
  BY SentencesAssumption
<1>27. IF total <= MaxTokens
       THEN /\ Len(words) = total
            /\ \A t \in Range(words) :
                 uses(t, words) = Total([s \in D |-> times(s) * uses(t, s)])
       ELSE /\ Len(words) = MaxTokens
            /\ \A s \in D :
                 total <= MaxTokens * Len(s) => Range(s) \cap Range(words) # {}
  <2>1. CASE total <= MaxTokens
    <3>1. words = flat
      BY <1>18, <1>23, <2>1
    <3> QED
      BY <1>18, <1>19, <2>1, <3>1
  <2>2. CASE ~ (total <= MaxTokens)
    <3>1. Len(flat) > MaxTokens
      BY <1>13, <1>18, <1>26, <2>2
    <3>2. Len(words) = MaxTokens
      BY <1>23, <3>1
    <3>3. \A s \in D : total <= MaxTokens * Len(s) => Range(s) \cap Range(words) # {}
      BY <1>18, <1>25, <3>1
    <3> QED
      BY <2>2, <3>2, <3>3
  <2> QED
    BY <2>1, <2>2
<1>28. TellsAll(items, R, p, n, strip, words)
  BY <1>24, <1>27 DEF TellsAll, D, times, uses, total
<1> QED
  BY <1>1, <1>28

(* A sentence says what its entity did in the window, neither more nor     *)
(* less: every kind of behaviour as often as it occurs up to MaxRepeats,   *)
(* or, thinned, each that is long enough to show; a name only to who asked *)
(* for it, and no verdict when they are stripped (sentences.py:139-172,    *)
(* 209-230).                                                               *)
THEOREM SentencesTellAll == DetectionSpec => []SentenceTellsAll
<1>1. ASSUME GraphInv, DescribeInv
      PROVE  SentenceTellsAll
  <2> SUFFICES ASSUME said # NoWords PROVE SentenceTellsAll
    BY DEF SentenceTellsAll
  <2>1. Spoken
    BY <1>1 DEF DescribeInv
  <2>2. rows \in Seq(Row)
    BY <1>1 DEF GraphInv
  <2>3. PICK p, n, strip, words :
          /\ p = said.p /\ n = said.of /\ strip = said.strip /\ words = said.words
          /\ strip \in BOOLEAN
    BY <2>1 DEF Spoken
  <2>4. words = Sentence(rows, p, n, strip)
    BY <2>1, <2>3 DEF Spoken
  <2>5. TellsAll(Items(rows, p, n, strip), rows, p, n, strip, words)
    BY <2>2, <2>3, <2>4, SentenceFacts
  <2>6. TellsAll(Items(rows, said.p, said.of, said.strip), rows, said.p, said.of, said.strip, said.words)
    BY <2>3, <2>5
  <2> QED
    BY <2>6 DEF SentenceTellsAll, TellsAll, AtMost, Same
<1> QED
  BY <1>1, DescribeInvHolds, PTL
=============================================================================
