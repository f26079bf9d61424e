----------------------------- MODULE Telemetry -----------------------------
(***************************************************************************)
(* One run: the cluster writes its telemetry, then ingest_run turns the    *)
(* lines into events between entities and labels them.                     *)
(*                                                                         *)
(* The cluster is external, as DATA.md says what a run directory holds:    *)
(* pods come and go and their addresses are used again; requests leave a   *)
(* line with the client's sidecar and one with the server's, either may be *)
(* lost; flows know the pods, access logs and audit only addresses.  A     *)
(* line names its true cause in `call` or `by`, which only properties read.*)
(***************************************************************************)
EXTENDS Naturals, Sequences, FiniteSets

CONSTANTS
  Pods,        \* the names that pods may have during the run
  Attackers,   \* the one in the attacker's namespace, if there is one
  HostPods,    \* those on the host network, with the address of the node
  FileOrder,   \* the pods with a sidecar, all in the namespace of the
               \* application, sorted as their log files are
  Addresses,   \* addresses for the other pods
  Bounds       \* what one run has at most: requests, flows, audited calls,
               \* lines of all kinds, pods that come or go

Node      == "node"
NoAddress == "no address"
NoId      == 0
Meshed    == {FileOrder[k] : k \in DOMAIN FileOrder}
Files     == Meshed \cup {"flows", "audit"}
Others    == {"svc", "dns", "world", "host", "kubeapi"}   \* entities, not pods
Known     == Addresses \cup {Node}

ASSUME PodAssumption ==
  /\ Attackers \subseteq Pods /\ HostPods \subseteq Pods /\ Meshed \subseteq Pods
  /\ Attackers \cap (HostPods \cup Meshed) = {}
  /\ Pods \cap (Others \cup {"flows", "audit", "kubelet", "unknown"}) = {}
  /\ Addresses \cap {Node, NoAddress, "absent", "pending", "gone"} = {}
  /\ Bounds \subseteq [calls : Nat, flows : Nat, audits : Nat, lines : Nat, moves : Nat]
(* Each pod has one log file.                                              *)
ASSUME FilesAssumption ==
  /\ FileOrder \in Seq(Pods)
  /\ \A j, k \in DOMAIN FileOrder : FileOrder[j] = FileOrder[k] => j = k
(* The agent acts from a foothold pod (DATA.md:238-240).                   *)
ASSUME FootholdAssumption == \A p, q \in Attackers : p = q

VARIABLES
  bound,      \* the bounds of this run
  step,       \* the capture, then what ingest_run does next
  addr,       \* the pods of the cluster: absent, pending, an address, gone
  calls,      \* the requests made so far: client, servers tried, with an id?
  start, end, \* objects.json, objects_end.json: pods and their podIP
  file,       \* the lines of the files
  attack,     \* attack.json, <<>> if there is none
  entities,   \* resolver.entities: id -> pod_ip
  byAddress,  \* resolver.ip_to_pod
  todo,       \* log files still to read
  views,      \* the lines of the access logs, as read
  events      \* the events

cluster  == <<bound, addr, calls>>
capture  == <<start, end, file, attack>>
ingested == <<entities, byAddress, todo, views, events>>
vars     == <<step, cluster, capture, ingested>>

Phases   == {"before", "during", "after"}
Running  == {p \in Pods : addr[p] \in Known}
Line(id) == file[id[1]][id[2]]
LineIds  == {<<f, n>> : f \in Files, n \in 1..bound.lines}
Written  == {l \in LineIds : l[2] <= Len(file[l[1]])}

Snapshot == [p \in {q \in Pods : addr[q] \notin {"absent", "gone"}} |->
               IF addr[p] = "pending" THEN NoAddress ELSE addr[p]]

TelemetryTypeOK ==
  /\ bound \in Bounds
  /\ step \in Phases \cup {"snapshot", "logs", "flows", "audit", "label", "done"}
  /\ addr \in [Pods -> Known \cup {"absent", "pending", "gone"}]
  /\ \A n \in DOMAIN calls :
       calls[n] \in [client : Pods, servers : SUBSET Pods, hasId : BOOLEAN]
  /\ \A snap \in {start, end} : snap \in [DOMAIN snap -> Known \cup {NoAddress}]
  /\ DOMAIN start \cup DOMAIN end \subseteq Pods
  /\ DOMAIN file = Files /\ Cardinality(Written) <= bound.lines
  /\ attack = <<>> \/ attack \in [ips : SUBSET Addresses, byNamespace : BOOLEAN,
                                  window : BOOLEAN]
  /\ DOMAIN entities \subseteq Pods \cup Others
  /\ \A i \in DOMAIN entities : entities[i] \in Known \cup {NoAddress}
  /\ DOMAIN byAddress \subseteq Known
  /\ \A x \in DOMAIN byAddress : byAddress[x] \in Pods
  /\ \A i \in DOMAIN views : views[i] \in LineIds
  /\ \A e \in events : e \in [id : LineIds, lines : SUBSET LineIds,
                              src : Pods \cup Others, dst : Pods \cup Others,
                              at : Phases, label : {"none", "benign", "malicious"}]

(* The run begins with the cluster as it is and objects.json is taken.     *)
TelemetryInit ==
  /\ bound \in Bounds
  /\ step = "before"
  /\ addr \in [Pods -> Known \cup {"absent", "pending"}]
  /\ \A p \in Pods : IF p \in HostPods THEN addr[p] \in {Node, "absent"} ELSE addr[p] # Node
  /\ \A p, q \in Pods : addr[p] \in Addresses /\ addr[p] = addr[q] => p = q
  /\ calls = <<>>
  /\ start = Snapshot
  /\ end = <<>>
  /\ file = [f \in Files |-> <<>>]
  /\ attack = <<>>
  /\ entities = <<>> /\ byAddress = <<>>
  /\ todo = FileOrder /\ views = <<>>
  /\ events = {}

----------------------------------------------------------------------------
(* The cluster and its capture                                             *)

Capturing == step \in Phases

Status(snap, p) == IF p \notin DOMAIN snap THEN "absent"
                   ELSE IF snap[p] = NoAddress THEN "pending" ELSE snap[p]
MayMove(p) ==
  Capturing /\ Cardinality({p} \cup {q \in Pods : addr[q] # Status(start, q)}) <= bound.moves

GetsAddress(p, x) ==
  /\ MayMove(p) /\ p \notin HostPods /\ addr[p] \in {"absent", "pending"}
  /\ \A q \in Pods : addr[q] # x
  /\ addr' = [addr EXCEPT ![p] = x]
  /\ UNCHANGED <<bound, step, calls, capture, ingested>>

(* The foothold pod outlives its session.                                  *)
Vanish(p) ==
  /\ MayMove(p) /\ p \in Running \ HostPods
  /\ ~ (step = "during" /\ p \in Attackers)
  /\ addr' = [addr EXCEPT ![p] = "gone"]
  /\ UNCHANGED <<bound, step, calls, capture, ingested>>

Room(k) == Cardinality(Written) + k <= bound.lines

CallLine(n, call, dir) ==
  [call |-> n, rid |-> IF call.hasId THEN n ELSE NoId, dir |-> dir,
   from |-> addr[call.client], at |-> step]

Write(writers, line) ==
  file' = [f \in Files |-> IF f \in writers THEN Append(file[f], line[f]) ELSE file[f]]

(* A request, sent to one server of the service or, with none, through the *)
(* passthrough cluster, whose direction parse_upstream_cluster does not    *)
(* know.  Both sidecars write a line, `writers` are those not lost.        *)
Request(client, servers, hasId, writers) ==
  LET n    == Len(calls) + 1
      call == [client |-> client, servers |-> servers, hasId |-> hasId]
  IN  /\ Capturing /\ n <= bound.calls
      /\ client \in Running \ HostPods
      /\ servers \subseteq (Running \cap Meshed) \ {client}
      /\ writers \subseteq Meshed \cap (servers \cup {client})
      /\ writers # {} /\ Room(Cardinality(writers))
      /\ calls' = Append(calls, call)
      /\ Write(writers, [f \in writers |->
                           CallLine(n, call, IF f # client THEN "inbound"
                                            ELSE IF servers = {} THEN "unknown"
                                            ELSE "outbound")])
      /\ UNCHANGED <<bound, step, addr, start, end, attack, ingested>>

(* The client's sidecar tries again, with the same or another server.      *)
Retry(n, server) ==
  LET call == calls[n]
  IN  /\ Capturing /\ Room(1)
      /\ call.servers # {} /\ {call.client, server} \subseteq Running
      /\ server # call.client
      /\ calls' = [calls EXCEPT ![n].servers = @ \cup {server}]
      /\ Write({server}, [f \in {server} |-> CallLine(n, call, "inbound")])
      /\ UNCHANGED <<bound, step, addr, start, end, attack, ingested>>

(* Hubble sees a flow between two pods, or with one end outside or unknown.*)
(* The source is read of flows that are kept only.                         *)
Flow(kind, src, dst) ==
  /\ Capturing /\ Len(file["flows"]) < bound.flows /\ Room(1)
  /\ {src, dst} \subseteq (Running \ HostPods) \cup {"world", "unknown"}
  /\ {src, dst} \cap Running # {} /\ src # dst
  /\ kind # "kept" => src = "world"
  /\ file' = [file EXCEPT !["flows"] =
                Append(@, [kind |-> kind, src |-> src, dst |-> dst, at |-> step])]
  /\ UNCHANGED <<step, cluster, start, end, attack, ingested>>

(* The API server is called by a pod, over its own address or the node's,  *)
(* or by the kubelet.                                                      *)
Audit(by, from) ==
  /\ Capturing /\ Len(file["audit"]) < bound.audits /\ Room(1)
  /\ \/ by \in Running \ HostPods /\ from \in {addr[by], Node}
     \/ by = "kubelet" /\ from = Node
  /\ file' = [file EXCEPT !["audit"] =
                Append(@, [by |-> by, from |-> from, at |-> step])]
  /\ UNCHANGED <<step, cluster, start, end, attack, ingested>>

SessionStarts ==
  /\ step = "before" /\ Attackers \cap Running # {}
  /\ step' = "during"
  /\ UNCHANGED <<cluster, capture, ingested>>

(* The harness leaves attack.json; its keys are optional to the labeler.   *)
SessionEnds(byNamespace, window) ==
  /\ step = "during"
  /\ step' = "after"
  /\ attack' = [ips |-> {addr[p] : p \in Attackers \cap Running},
                byNamespace |-> byNamespace, window |-> window]
  /\ UNCHANGED <<cluster, start, end, file, ingested>>

(* Collection; a run may have no objects_end.json.                         *)
Collect(withEnd) ==
  /\ step \in {"before", "after"}
  /\ step' = "snapshot"
  /\ end' = IF withEnd THEN Snapshot ELSE <<>>
  /\ UNCHANGED <<cluster, start, file, attack, ingested>>

----------------------------------------------------------------------------
(* ingest_run                                                              *)

(* _add: setdefault, an entity that is there stays as it is.               *)
Add(ids) == [i \in DOMAIN entities \cup ids |->
               IF i \in DOMAIN entities THEN entities[i] ELSE NoAddress]

(* Slip: a pod without a podIP is put into ip_to_pod, under None.          *)
AddressesOfAll(snap) == {snap[p] : p \in DOMAIN snap}

AddressesIn(snap) == {snap[p] : p \in DOMAIN snap} \ {NoAddress}

(* from_snapshot: the first object of a name makes the entity, the last    *)
(* one of an address owns it.                                              *)
ReadSnapshot ==
  /\ step = "snapshot"
  /\ entities' = [i \in DOMAIN start \cup DOMAIN end \cup {"kubeapi", "svc"} |->
                     IF i \in DOMAIN start THEN start[i]
                     ELSE IF i \in DOMAIN end THEN end[i] ELSE NoAddress]
  /\ LET owners(snap, x) == {p \in DOMAIN snap : snap[p] = x}
     IN  \E m \in [AddressesIn(start) \cup AddressesIn(end) -> Pods] :
           /\ \A x \in DOMAIN m :
                m[x] \in IF owners(end, x) # {} THEN owners(end, x) ELSE owners(start, x)
           /\ byAddress' = m
  /\ step' = "logs"
  /\ UNCHANGED <<cluster, capture, todo, views, events>>

(* Slip: a pod that no snapshot has is not registered. *)
ReadLogOfKnown ==
  /\ step = "logs" /\ todo # <<>>
  /\ views' = views \o [n \in DOMAIN file[Head(todo)] |-> <<Head(todo), n>>]
  /\ todo' = Tail(todo)
  /\ UNCHANGED <<step, cluster, capture, entities, byAddress, events>>

(* The next log; the pod it is named after may be in no snapshot.          *)
ReadLog ==
  /\ step = "logs" /\ todo # <<>>
  /\ LET p == Head(todo)
     IN  /\ views' = views \o [n \in DOMAIN file[p] |-> <<p, n>>]
         /\ entities' = IF file[p] = <<>> THEN entities ELSE Add({p})
  /\ todo' = Tail(todo)
  /\ UNCHANGED <<step, cluster, capture, byAddress, events>>

(* resolve_ip; no line comes from the address of a service.                *)
Resolve(x) == IF x \in DOMAIN byAddress THEN byAddress[x]
              ELSE IF x = Node THEN "host" ELSE "world"

View(i) == Line(views[i])

(* Slip: lines without a request id are put into the books, too. *)
BookedAny(i) ==
  /\ View(i).dir # "unknown"
  /\ \A j \in 1..(i - 1) : ~ (View(j).rid = View(i).rid /\ View(j).dir = View(i).dir)

(* The first view of a request id in its direction is put into the book.   *)
Booked(i) ==
  /\ View(i).dir # "unknown" /\ View(i).rid # NoId
  /\ \A j \in 1..(i - 1) : ~ (View(j).rid = View(i).rid /\ View(j).dir = View(i).dir)

Pairs == {p \in (DOMAIN views) \X (DOMAIN views) :
            /\ View(p[1]).dir = "outbound" /\ View(p[2]).dir = "inbound"
            /\ View(p[1]).rid = View(p[2]).rid
            /\ Booked(p[1]) /\ Booked(p[2])}

(* Slip: a pair leaves its inbound view in the book. *)
SinglesGet == {i \in DOMAIN views : \A p \in Pairs : i # p[1]}

Singles == {i \in DOMAIN views : \A p \in Pairs : i \notin {p[1], p[2]}}

NewEvent(id, lines, src, dst) ==
  [id |-> id, lines |-> lines, src |-> src, dst |-> dst,
   at |-> Line(id).at, label |-> "none"]

PairEvent(p) == NewEvent(views[p[2]], {views[p[1]], views[p[2]]},
                         views[p[1]][1], views[p[2]][1])

SingleEvent(i) ==
  LET reporter == views[i][1]
  IN  IF View(i).dir = "inbound"
      THEN NewEvent(views[i], {views[i]}, Resolve(View(i).from), reporter)
      ELSE NewEvent(views[i], {views[i]}, reporter,
                    IF View(i).dir = "outbound" THEN "svc" ELSE "world")

Ends(es) == {e.src : e \in es} \cup {e.dst : e \in es}

(* Services and external ends are registered on the way, pods are not.     *)
MergeViews ==
  /\ step = "logs" /\ todo = <<>>
  /\ LET new == {PairEvent(p) : p \in Pairs} \cup {SingleEvent(i) : i \in Singles}
         unmatched == {i \in DOMAIN views : ~ Booked(i)}
     IN  /\ events' = events \cup new
         /\ entities' = Add(Others \cap (Ends(new) \cup
                                         {Resolve(View(i).from) : i \in unmatched}))
  /\ step' = "flows"
  /\ UNCHANGED <<cluster, capture, byAddress, todo, views>>

(* keep_l4 leaves openings, first packets and denials.                     *)
Kept(flow) == flow.kind = "kept"

(* resolve_hubble_endpoint: None for an end with neither pod nor label.    *)
Identified(e) == e # "unknown"

(* A flow with one such end is left out after the other end has been       *)
(* registered.  Of DNS the response counts, which goes to the pod that     *)
(* asked.                                                                  *)
ParseFlows ==
  /\ step = "flows"
  /\ LET flow(n) == file["flows"][n]
         id(n)   == <<"flows", n>>
         ends(n) == {flow(n).src, flow(n).dst}
         l4  == {n \in DOMAIN file["flows"] : Kept(flow(n))}
         dns == {n \in DOMAIN file["flows"] :
                   flow(n).kind = "dns response" /\ Identified(flow(n).dst)}
         new == {NewEvent(id(n), {id(n)}, flow(n).src, flow(n).dst) :
                   n \in {m \in l4 : \A e \in ends(m) : Identified(e)}}
                \cup {NewEvent(id(n), {id(n)}, flow(n).dst, "dns") : n \in dns}
     IN  /\ events' = events \cup new
         /\ entities' = Add(Ends(new) \cup {e \in UNION {ends(n) : n \in l4} : Identified(e)})
  /\ step' = "audit"
  /\ UNCHANGED <<cluster, capture, byAddress, todo, views>>

(* With events.drop_control_plane_audit, as in configs/default.yaml; an    *)
(* address that is dropped leaves its external entity behind.              *)
ParseAudit ==
  /\ step = "audit"
  /\ LET src(n) == Resolve(file["audit"][n].from)
         id(n)  == <<"audit", n>>
         all    == DOMAIN file["audit"]
     IN  /\ events' = events \cup {NewEvent(id(n), {id(n)}, src(n), "kubeapi") :
                                     n \in {k \in all : src(k) \in Pods}}
         /\ entities' = Add(Others \cap {src(n) : n \in all})
  /\ step' = "label"
  /\ UNCHANGED <<cluster, capture, byAddress, todo, views>>

AttackerIds ==
  {p \in DOMAIN entities \cap Pods :
     entities[p] \in attack.ips \/ (attack.byNamespace /\ p \in Attackers)}

(* Slip: no session window. *)
MaliciousEver(e) == {e.src, e.dst} \cap AttackerIds # {}

(* Slip: only what the attacker starts. *)
MaliciousBySource(e) ==
  e.src \in AttackerIds /\ (attack.window => e.at = "during")

Malicious(e) ==
  {e.src, e.dst} \cap AttackerIds # {} /\ (attack.window => e.at = "during")

(* apply_labels; the events of a benign run keep their null.               *)
Label ==
  /\ step = "label"
  /\ events' = IF attack = <<>> THEN events
               ELSE {[e EXCEPT !.label = IF Malicious(e) THEN "malicious" ELSE "benign"] :
                       e \in events}
  /\ step' = "done"
  /\ UNCHANGED <<cluster, capture, entities, byAddress, todo, views>>

IngestRun == ReadSnapshot \/ ReadLog \/ MergeViews \/ ParseFlows \/ ParseAudit \/ Label

TelemetryNext ==
  \/ \E p \in Pods : Vanish(p)
  \/ \E p \in Pods, x \in Addresses : GetsAddress(p, x)
  \/ \E client \in Pods, servers \in {{}} \cup {{p} : p \in Meshed},
        hasId \in BOOLEAN, writers \in SUBSET Meshed :
       Request(client, servers, hasId, writers)
  \/ \E n \in DOMAIN calls, server \in Meshed : Retry(n, server)
  \/ \E kind \in {"kept", "dns response", "other"},
        src, dst \in Pods \cup {"world", "unknown"} : Flow(kind, src, dst)
  \/ \E by \in Pods \cup {"kubelet"}, from \in Known : Audit(by, from)
  \/ SessionStarts
  \/ \E byNamespace, window \in BOOLEAN : SessionEnds(byNamespace, window)
  \/ \E withEnd \in BOOLEAN : Collect(withEnd)
  \/ IngestRun

TelemetrySpec == TelemetryInit /\ [][TelemetryNext]_vars

----------------------------------------------------------------------------
(* Whatever the snapshots missed, both ends of every event are entities of *)
(* the run: no event dangles when the graph is built (run_dir.py:58-66,    *)
(* resolve.py:190-198).                                                    *)
EndpointsAreEntities == Ends(events) \subseteq DOMAIN entities

(* Every line of the access logs is part of exactly one event, and no two  *)
(* events have the same event_id, whatever ids the lines carry and however *)
(* often they repeat them (envoy.py:137-176).                              *)
EveryViewOnce ==
  /\ \A d, e \in events : d.id = e.id => d = e
  /\ step \in {"flows", "audit", "label", "done"} =>
       \A i \in DOMAIN views :
         Cardinality({e \in events : views[i] \in e.lines}) = 1

(* A request with an id that both sides logged is one event of two views   *)
(* from its client to a server that it was sent to, and an event of two    *)
(* views is such a request, though lines of other requests stand between   *)
(* and a retry repeats the id (envoy.py:147-156).                          *)
RequestsArePairs ==
  step \in {"flows", "audit", "label", "done"} =>
    /\ \A e \in events : Cardinality(e.lines) = 2 =>
         \E n \in DOMAIN calls :
           /\ \A l \in e.lines : Line(l).call = n
           /\ e.src = calls[n].client /\ e.dst \in calls[n].servers
    /\ \A n \in DOMAIN calls :
         LET side(d) == {l \in Written : l[1] \in Meshed /\ Line(l).call = n
                                                       /\ Line(l).dir = d}
         IN  calls[n].hasId /\ side("outbound") # {} /\ side("inbound") # {} =>
               Cardinality({e \in events : e.lines \cap side("outbound") # {}
                                           /\ Cardinality(e.lines) = 2}) = 1

(* Who took part in what a line reports.                                   *)
TrueEnds(l) == CASE l[1] = "flows" -> {Line(l).src, Line(l).dst}
                 [] l[1] = "audit" -> {Line(l).by}
                 [] OTHER -> {calls[Line(l).call].client} \cup calls[Line(l).call].servers

(* When the session window is known, an event labelled malicious is one    *)
(* that the attacker took part in, though its address belonged to other    *)
(* pods before or after and the audit log knows addresses only             *)
(* (labeler.py:82-88).                                                     *)
BlameIsTrue ==
  attack # <<>> /\ attack.window =>
    \A e \in events : e.label = "malicious" =>
      \E l \in e.lines : TrueEnds(l) \cap Attackers # {}

(* The attacker's flows during the session are labelled malicious, both    *)
(* those it starts and those it answers, if attack.json has its namespace: *)
(* also when no snapshot saw the pod or saw it without an address.         *)
AttackerFlowsAreLabelled ==
  step = "done" /\ attack # <<>> /\ attack.byNamespace =>
    \A e \in events :
      e.id[1] = "flows" /\ e.at = "during" /\ {e.src, e.dst} \cap Attackers # {} =>
        e.label = "malicious"

(* What attack.json leads to is the truth, neither too much nor too little. *)
LabelsAreTrue == BlameIsTrue /\ AttackerFlowsAreLabelled

(* What audit.py:4-7 says: calls of kubelets, which come from the address  *)
(* of a node, are dropped.                                                 *)
ControlPlaneIsDropped ==
  \A e \in events : e.id[1] = "audit" => Line(e.id).by # "kubelet"
=============================================================================
