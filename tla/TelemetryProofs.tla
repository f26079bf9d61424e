-------------------------- MODULE TelemetryProofs --------------------------
(***************************************************************************)
(* The telemetry of a run, for any cluster, any number of lines and every  *)
(* choice of what is lost, repeated or missed by a snapshot: events have   *)
(* both ends, every line of an access log is in one event, pairs are       *)
(* requests, and labels blame the attacker.                                *)
(***************************************************************************)
EXTENDS Telemetry, FiniteSetTheorems, WellFoundedInduction, TLAPS

(* What the lines of the files are.                                        *)
CallRecords == [client : Pods, servers : SUBSET Pods, hasId : BOOLEAN]
CallLines   == [call : Nat, rid : Nat, dir : {"inbound", "outbound", "unknown"},
                from : Known, at : Phases]
FlowLines   == [kind : {"kept", "dns response", "other"},
                src : Pods \cup {"world", "unknown"},
                dst : Pods \cup {"world", "unknown"}, at : Phases]
AuditLines  == [by : Pods \cup {"kubelet"}, from : Known, at : Phases]

FilesTyped ==
  /\ calls \in Seq(CallRecords)
  /\ \A f \in Meshed : file[f] \in Seq(CallLines)
  /\ file["flows"] \in Seq(FlowLines)
  /\ file["audit"] \in Seq(AuditLines)
  /\ \A f \in Files : Len(file[f]) <= bound.lines

(* The logs that are not read yet, and the views: each line of the others  *)
(* once.                                                                   *)
Merged == {"flows", "audit", "label", "done"}

LogsRead ==
  /\ step \in Phases \cup {"snapshot"} => todo = FileOrder /\ views = <<>>
  /\ step \in Merged => todo = <<>>
  /\ step \notin Merged => events = {}
  /\ todo \in Seq(Meshed)
  /\ \A j, k \in DOMAIN todo : todo[j] = todo[k] => j = k
  /\ views \in Seq(Meshed \X Nat)
  /\ \A i \in DOMAIN views : views[i][2] \in 1..Len(file[views[i][1]])
  /\ \A i \in DOMAIN views, k \in DOMAIN todo : views[i][1] # todo[k]
  /\ \A i, j \in DOMAIN views : views[i] = views[j] => i = j
  /\ \A f \in Meshed : \A n \in 1..Len(file[f]) :
       (\E k \in DOMAIN todo : todo[k] = f) \/ (\E i \in DOMAIN views : views[i] = <<f, n>>)

(* The pods on the host network share the address of the node; another     *)
(* address belongs to one pod at a time.                                   *)
Network ==
  /\ \A p \in Pods : IF p \in HostPods THEN addr[p] \in {Node, "absent"} ELSE addr[p] # Node
  /\ \A p, q \in Pods : addr[p] \in Addresses /\ addr[p] = addr[q] => p = q

Typed == TelemetryTypeOK /\ FilesTyped /\ LogsRead /\ Network

----------------------------------------------------------------------------
(* The names of files, pods and other entities are apart.                  *)
LEMMA NameFacts ==
  /\ Meshed \subseteq Pods /\ Meshed \subseteq Files
  /\ "flows" \in Files /\ "audit" \in Files
  /\ "flows" \notin Meshed /\ "audit" \notin Meshed
  /\ Files = Meshed \cup {"flows", "audit"}
  BY PodAssumption DEF Files

LEMMA FilesFinite == IsFiniteSet(Files)
<1>1. IsFiniteSet(Meshed)
  <2> DEFINE n == Len(FileOrder)
  <2>1. n \in Nat /\ DOMAIN FileOrder = 1..n /\ FileOrder \in [1..n -> Pods]
    BY FilesAssumption
  <2>2. FileOrder \in Surjection(1..n, Meshed)
    BY <2>1 DEF Meshed, Surjection
  <2>3. IsFiniteSet(1..n)
    BY <2>1, FS_Interval
  <2> QED
    BY <2>2, <2>3, FS_Surjection
<1>2. IsFiniteSet({"flows"} \cup {"audit"})
  BY FS_Singleton, FS_Union
<1>3. Files = Meshed \cup ({"flows"} \cup {"audit"})
  BY DEF Files
<1> QED
  BY <1>1, <1>2, <1>3, FS_Union

(* The bounds of the run are numbers.                                      *)
LEMMA BoundFacts ==
  ASSUME bound \in Bounds
  PROVE  bound.lines \in Nat /\ IsFiniteSet(LineIds)
<1>1. bound.lines \in Nat
  BY PodAssumption
<1>2. IsFiniteSet(1..bound.lines)
  BY <1>1, FS_Interval
<1>3. IsFiniteSet(Files \X (1..bound.lines))
  BY <1>2, FilesFinite, FS_Product
<1>4. LineIds \subseteq Files \X (1..bound.lines)
  BY DEF LineIds
<1> QED
  BY <1>1, <1>3, <1>4, FS_Subset

(* A file is not longer than all lines together.                           *)
LEMMA FileFits ==
  ASSUME bound \in Bounds, NEW f \in Files,
         Len(file[f]) \in Nat, Len(file[f]) <= bound.lines
  PROVE  Len(file[f]) <= Cardinality(Written)
<1> DEFINE n     == Len(file[f])
           lines == {f} \X (1..n)
           place == [k \in 1..n |-> <<f, k>>]
<1>1. bound.lines \in Nat /\ IsFiniteSet(LineIds)
  BY BoundFacts
<1>2. lines \subseteq Written
  BY <1>1 DEF Written, LineIds
<1>3. IsFiniteSet(Written)
  BY <1>1, FS_Subset DEF Written
<1>4. place \in Injection(1..n, lines) /\ place \in Surjection(1..n, lines)
  <2>1. place \in [1..n -> lines]
    OBVIOUS
  <2>2. \A j, k \in 1..n : place[j] = place[k] => j = k
    OBVIOUS
  <2>3. \A l \in lines : \E k \in 1..n : place[k] = l
    <3> SUFFICES ASSUME NEW k \in 1..n PROVE place[k] = <<f, k>>
      OBVIOUS
    <3> QED
      OBVIOUS
  <2>4. DOMAIN place = 1..n
    OBVIOUS
  <2> HIDE DEF place, lines
  <2> QED
    BY <2>1, <2>2, <2>3, <2>4 DEF Injection, Surjection, IsInjective
<1>5. IsFiniteSet(1..n) /\ Cardinality(1..n) = n
  BY FS_Interval
<1>6. Cardinality(lines) = n
  <2> HIDE DEF lines, place, n
  <2> QED
    BY <1>4, <1>5, FS_Surjection
<1>7. Cardinality(lines) <= Cardinality(Written)
  BY <1>2, <1>3, FS_Subset
<1> QED
  BY <1>6, <1>7

(* Lines are only written while there is room for all of them.             *)
LEMMA RoomFacts ==
  ASSUME bound \in Bounds, bound' = bound,
         \A f \in Files : Len(file[f]) \in Nat /\ Len(file[f]) <= bound.lines,
         NEW W \in SUBSET Files, W # {}, Room(Cardinality(W)),
         \A f \in Files : Len(file'[f]) = IF f \in W THEN Len(file[f]) + 1 ELSE Len(file[f])
  PROVE  /\ Cardinality(Written') <= bound.lines
         /\ \A f \in Files : Len(file'[f]) <= bound.lines
<1> DEFINE fresh == {<<f, Len(file[f]) + 1>> : f \in W}
           place == [f \in W |-> <<f, Len(file[f]) + 1>>]
<1>1. bound.lines \in Nat /\ IsFiniteSet(LineIds)
  BY BoundFacts
<1>2. IsFiniteSet(W) /\ Cardinality(W) \in Nat /\ Cardinality(W) # 0
  BY FilesFinite, FS_Subset, FS_CardinalityType, FS_EmptySet
<1>3. IsFiniteSet(Written) /\ Cardinality(Written) \in Nat
  BY <1>1, FS_Subset, FS_CardinalityType DEF Written
<1>4. Cardinality(Written) + Cardinality(W) <= bound.lines
  BY DEF Room
<1>5. place \in Surjection(W, fresh)
  BY DEF Surjection
<1>6. IsFiniteSet(fresh) /\ Cardinality(fresh) <= Cardinality(W)
  BY <1>2, <1>5, FS_Surjection
<1>7. Cardinality(fresh) \in Nat
  BY <1>6, FS_CardinalityType
<1>8. Written' \subseteq Written \cup fresh
  BY <1>1 DEF Written, LineIds
<1>9. IsFiniteSet(Written \cup fresh) /\ Cardinality(Written \cup fresh) <= bound.lines
  <2>1. IsFiniteSet(Written \cap fresh) /\ Cardinality(Written \cap fresh) \in Nat
    BY <1>3, FS_Intersection, FS_CardinalityType
  <2>2. /\ IsFiniteSet(Written \cup fresh)
        /\ Cardinality(Written \cup fresh) =
             Cardinality(Written) + Cardinality(fresh) - Cardinality(Written \cap fresh)
    BY <1>3, <1>6, FS_Union
  <2> QED
    BY <1>1, <1>2, <1>3, <1>4, <1>6, <1>7, <2>1, <2>2
<1>10. Cardinality(Written') <= bound.lines
  <2>1. /\ IsFiniteSet(Written')
        /\ Cardinality(Written') <= Cardinality(Written \cup fresh)
    BY <1>8, <1>9, FS_Subset
  <2>2. Cardinality(Written') \in Nat /\ Cardinality(Written \cup fresh) \in Nat
    BY <1>9, <2>1, FS_CardinalityType
  <2> QED
    BY <1>1, <1>9, <2>1, <2>2
<1>11. ASSUME NEW f \in Files
       PROVE  Len(file'[f]) <= bound.lines
  <2>1. Len(file[f]) <= Cardinality(Written)
    BY FileFits
  <2> QED
    BY <1>1, <1>2, <1>3, <1>4, <2>1
<1> QED
  BY <1>10, <1>11

----------------------------------------------------------------------------
(* Types                                                                   *)

LEMMA LenFacts ==
  ASSUME FilesTyped
  PROVE  \A f \in Files : Len(file[f]) \in Nat /\ Len(file[f]) <= bound.lines
<1>1. \A f \in Meshed : Len(file[f]) \in Nat
  BY DEF FilesTyped
<1>2. Len(file["flows"]) \in Nat /\ Len(file["audit"]) \in Nat
  BY DEF FilesTyped
<1> QED
  BY <1>1, <1>2 DEF FilesTyped, Files

LEMMA SnapshotFacts ==
  ASSUME addr \in [Pods -> Known \cup {"absent", "pending", "gone"}]
  PROVE  /\ Snapshot \in [DOMAIN Snapshot -> Known \cup {NoAddress}]
         /\ DOMAIN Snapshot \subseteq Pods
  BY DEF Snapshot

LEMMA TypedInit == TelemetryInit => Typed
<1> SUFFICES ASSUME TelemetryInit PROVE Typed
  OBVIOUS
<1>1. bound.lines \in Nat /\ IsFiniteSet(LineIds)
  BY BoundFacts DEF TelemetryInit
<1>2. \A f \in Files : file[f] = <<>> /\ Len(file[f]) = 0
  BY DEF TelemetryInit
<1>3. FilesTyped
  <2>1. calls \in Seq(CallRecords)
    BY DEF TelemetryInit
  <2>2. \A S : <<>> \in Seq(S)
    OBVIOUS
  <2>3. \A f \in Files : \A S : file[f] \in Seq(S)
    BY <1>2, <2>2, Zenon
  <2>4. \A f \in Files : Len(file[f]) <= bound.lines
    BY <1>1, <1>2
  <2> QED
    BY <2>1, <2>3, <2>4, NameFacts DEF FilesTyped
<1>4. Cardinality(Written) <= bound.lines
  <2>1. Written = {}
    BY <1>1, <1>2 DEF Written, LineIds
  <2> QED
    BY <1>1, <2>1, FS_EmptySet
<1>5. TelemetryTypeOK
  <2>1. start \in [DOMAIN start -> Known \cup {NoAddress}] /\ DOMAIN start \subseteq Pods
    <3>1. addr \in [Pods -> Known \cup {"absent", "pending", "gone"}]
      BY DEF TelemetryInit
    <3> QED
      BY <3>1, SnapshotFacts DEF TelemetryInit
  <2>2. end \in [DOMAIN end -> Known \cup {NoAddress}] /\ DOMAIN end \subseteq Pods
    BY DEF TelemetryInit
  <2>3. step \in Phases \cup {"snapshot", "logs", "flows", "audit", "label", "done"}
    BY DEF TelemetryInit, Phases
  <2>4. addr \in [Pods -> Known \cup {"absent", "pending", "gone"}]
    BY DEF TelemetryInit
  <2>5. DOMAIN calls = {} /\ DOMAIN file = Files /\ attack = <<>> /\ DOMAIN entities = {}
        /\ DOMAIN byAddress = {} /\ DOMAIN views = {} /\ events = {} /\ bound \in Bounds
    BY DEF TelemetryInit
  <2> QED
    BY <1>4, <2>1, <2>2, <2>3, <2>4, <2>5 DEF TelemetryTypeOK
<1>6. LogsRead
  <2>1. todo = FileOrder /\ views = <<>> /\ events = {} /\ step = "before"
    BY DEF TelemetryInit
  <2>2. FileOrder \in Seq(Meshed)
    BY FilesAssumption DEF Meshed
  <2> QED
    BY <1>2, <2>1, <2>2, NameFacts, FilesAssumption DEF LogsRead, Merged
<1>7. Network
  BY DEF TelemetryInit, Network
<1> QED
  BY <1>3, <1>5, <1>6, <1>7 DEF Typed

(* The steps of the cluster that write no line.                            *)
LEMMA TypedMove ==
  ASSUME Typed, Capturing, UNCHANGED <<bound, calls, start, file, entities, byAddress,
                                       todo, views, events>>,
         addr' \in [Pods -> Known \cup {"absent", "pending", "gone"}], Network',
         step' \in Phases \cup {"snapshot"},
         end' = end \/ end' = Snapshot \/ end' = <<>>,
         attack' = attack \/ attack' \in [ips : SUBSET Addresses, byNamespace : BOOLEAN,
                                          window : BOOLEAN]
  PROVE  Typed'
<1>1. FilesTyped'
  BY DEF Typed, FilesTyped
<1>2. end' \in [DOMAIN end' -> Known \cup {NoAddress}] /\ DOMAIN end' \subseteq Pods
  <2>1. CASE end' = end
    BY <2>1 DEF Typed, TelemetryTypeOK
  <2>2. CASE end' = Snapshot
    BY <2>2, SnapshotFacts DEF Typed, TelemetryTypeOK
  <2>3. CASE end' = <<>>
    BY <2>3
  <2> QED
    BY <2>1, <2>2, <2>3
<1>3. TelemetryTypeOK'
  <2>1. LineIds' = LineIds /\ Written' = Written
    BY DEF LineIds, Written
  <2> QED
    BY <1>2, <2>1 DEF Typed, TelemetryTypeOK
<1>4. LogsRead'
  <2>1. step \notin Merged /\ step' \notin Merged /\ step \in Phases \cup {"snapshot"}
    BY DEF Capturing, Phases, Merged
  <2> QED
    BY <2>1 DEF Typed, LogsRead
<1> QED
  BY <1>1, <1>3, <1>4 DEF Typed

(* The steps that write lines.                                             *)
LEMMA TypedWrite ==
  ASSUME Typed, Capturing,
         UNCHANGED <<bound, step, addr, start, end, attack, ingested>>,
         calls' \in Seq(CallRecords), DOMAIN file' = Files,
         \A f \in Meshed : file'[f] \in Seq(CallLines),
         file'["flows"] \in Seq(FlowLines), file'["audit"] \in Seq(AuditLines),
         NEW W \in SUBSET Files, W # {}, Room(Cardinality(W)),
         \A f \in Files : Len(file'[f]) = IF f \in W THEN Len(file[f]) + 1 ELSE Len(file[f])
  PROVE  Typed'
<1>1. /\ Cardinality(Written') <= bound.lines
      /\ \A f \in Files : Len(file'[f]) <= bound.lines
  <2>1. \A f \in Files : Len(file[f]) \in Nat /\ Len(file[f]) <= bound.lines
    BY LenFacts DEF Typed
  <2>2. bound \in Bounds
    BY DEF Typed, TelemetryTypeOK
  <2> QED
    BY <2>1, <2>2, RoomFacts
<1>2. FilesTyped'
  BY <1>1 DEF FilesTyped
<1>3. TelemetryTypeOK'
  <2>1. \A n \in DOMAIN calls' : calls'[n] \in CallRecords
    OBVIOUS
  <2> QED
    BY <1>1, <2>1 DEF Typed, TelemetryTypeOK, ingested, LineIds, CallRecords
<1>4. LogsRead'
  <2>1. todo = FileOrder /\ views = <<>> /\ step \notin Merged
    BY DEF Capturing, Phases, Merged, Typed, LogsRead
  <2>2. todo' = todo /\ views' = views /\ events' = events /\ step' = step
    BY DEF ingested
  <2>3. \A f \in Meshed : \E k \in DOMAIN todo : todo[k] = f
    BY <2>1 DEF Meshed
  <2> QED
    BY <2>1, <2>2, <2>3 DEF Typed, LogsRead
<1>5. Network'
  BY DEF Typed, Network
<1> QED
  BY <1>2, <1>3, <1>4, <1>5 DEF Typed

(* A request is a line of each writer's log.                               *)
Direction(f, call) ==
  IF f # call.client THEN "inbound" ELSE IF call.servers = {} THEN "unknown" ELSE "outbound"
Logged(f, n, call) == CallLine(n, call, Direction(f, call))

Requested(client, servers, hasId, writers, n, call) ==
  /\ call = [client |-> client, servers |-> servers, hasId |-> hasId]
  /\ n = Len(calls) + 1
  /\ Len(calls) \in Nat /\ DOMAIN calls = 1..Len(calls)
  /\ calls' = Append(calls, call) /\ call \in CallRecords
  /\ client \in Running /\ servers \subseteq Running
  /\ writers \in SUBSET Meshed /\ writers \subseteq servers \cup {client}
  /\ DOMAIN file' = Files
  /\ \A f \in writers : /\ file'[f] = Append(file[f], Logged(f, n, call))
                        /\ Logged(f, n, call) \in CallLines
  /\ \A f \in Files \ writers : file'[f] = file[f]

LEMMA RequestFacts ==
  ASSUME Typed, NEW client \in Pods, NEW servers \in SUBSET Meshed, NEW hasId \in BOOLEAN,
         NEW writers, Request(client, servers, hasId, writers)
  PROVE  \E n, call : Requested(client, servers, hasId, writers, n, call)
<1>0. PICK call, n : /\ call = [client |-> client, servers |-> servers, hasId |-> hasId]
                     /\ n = Len(calls) + 1
  OBVIOUS
<1>1. calls \in Seq(CallRecords)
  BY DEF Typed, FilesTyped
<1>2. Len(calls) \in Nat /\ DOMAIN calls = 1..Len(calls)
  BY <1>1
<1>3. servers \subseteq Pods /\ call \in CallRecords
  BY <1>0, NameFacts DEF CallRecords
<1>4. /\ client \in Running /\ Capturing /\ writers \subseteq Meshed \cap (servers \cup {client})
      /\ servers \subseteq Running
      /\ calls' = Append(calls, call)
      /\ Write(writers, [f \in writers |->
                           CallLine(n, call, IF f # client THEN "inbound"
                                            ELSE IF servers = {} THEN "unknown"
                                            ELSE "outbound")])
  BY <1>0 DEF Request
<1>5. \A f : Logged(f, n, call) \in CallLines
  <2> SUFFICES ASSUME NEW f PROVE Logged(f, n, call) \in CallLines
    OBVIOUS
  <2>1. n \in Nat /\ (IF call.hasId THEN n ELSE NoId) \in Nat
    BY <1>0, <1>2 DEF NoId
  <2>2. addr[call.client] \in Known /\ step \in Phases
    BY <1>0, <1>4 DEF Running, Capturing
  <2>3. Direction(f, call) \in {"inbound", "outbound", "unknown"}
    BY DEF Direction
  <2> QED
    BY <2>1, <2>2, <2>3 DEF Logged, CallLine, CallLines
<1>6. /\ DOMAIN file' = Files
      /\ \A f \in writers : file'[f] = Append(file[f], Logged(f, n, call))
      /\ \A f \in Files \ writers : file'[f] = file[f]
  <2>1. writers \subseteq Files
    BY <1>4, NameFacts
  <2>2. call.client = client /\ call.servers = servers
    BY <1>0
  <2> QED
    BY <1>4, <2>1, <2>2 DEF Write, Logged, Direction
<1>7. Requested(client, servers, hasId, writers, n, call)
  BY <1>0, <1>2, <1>3, <1>4, <1>5, <1>6 DEF Requested
<1> QED
  BY <1>7

LEMMA AppendFacts ==
  ASSUME NEW S, NEW s \in Seq(S), NEW x \in S
  PROVE  /\ Append(s, x) \in Seq(S)
         /\ Len(Append(s, x)) = Len(s) + 1 /\ Len(s) \in Nat
         /\ DOMAIN s = 1..Len(s) /\ DOMAIN Append(s, x) = 1..(Len(s) + 1)
         /\ Append(s, x)[Len(s) + 1] = x
         /\ \A k \in DOMAIN s : Append(s, x)[k] = s[k]
  OBVIOUS

LEMMA TypedRequest ==
  ASSUME Typed, NEW client \in Pods, NEW servers \in SUBSET Meshed, NEW hasId \in BOOLEAN,
         NEW writers, Request(client, servers, hasId, writers)
  PROVE  Typed'
<1>0. PICK n, call : Requested(client, servers, hasId, writers, n, call)
  BY RequestFacts
<1>1. /\ calls' = Append(calls, call) /\ call \in CallRecords
      /\ writers \in SUBSET Meshed
      /\ DOMAIN file' = Files
      /\ \A f \in writers : /\ file'[f] = Append(file[f], Logged(f, n, call))
                            /\ Logged(f, n, call) \in CallLines
      /\ \A f \in Files \ writers : file'[f] = file[f]
  BY <1>0 DEF Requested
<1>2. /\ Capturing /\ writers # {} /\ Room(Cardinality(writers))
      /\ UNCHANGED <<bound, step, addr, start, end, attack, ingested>>
  BY DEF Request
<1>3. calls' \in Seq(CallRecords)
  BY <1>1 DEF Typed, FilesTyped
<1>4. ASSUME NEW f \in Meshed
      PROVE  /\ file'[f] \in Seq(CallLines)
             /\ Len(file'[f]) = IF f \in writers THEN Len(file[f]) + 1 ELSE Len(file[f])
  <2>1. file[f] \in Seq(CallLines)
    BY DEF Typed, FilesTyped
  <2>2. CASE f \in writers
    <3>1. file'[f] = Append(file[f], Logged(f, n, call)) /\ Logged(f, n, call) \in CallLines
      BY <1>1, <2>2
    <3> QED
      BY <2>1, <2>2, <3>1, AppendFacts
  <2>3. CASE f \notin writers
    BY <1>1, <2>1, <2>3, NameFacts
  <2> QED
    BY <2>2, <2>3
<1>5. /\ file'["flows"] = file["flows"] /\ file'["audit"] = file["audit"]
      /\ file'["flows"] \in Seq(FlowLines) /\ file'["audit"] \in Seq(AuditLines)
  BY <1>1, NameFacts DEF Typed, FilesTyped
<1>6. writers \in SUBSET Files
  BY <1>1, NameFacts
<1>7. \A f \in Files : Len(file'[f]) = IF f \in writers THEN Len(file[f]) + 1 ELSE Len(file[f])
  BY <1>1, <1>4, <1>5, NameFacts
<1> QED
  BY <1>1, <1>2, <1>3, <1>4, <1>5, <1>6, <1>7, TypedWrite

(* A retry is a line of the new server's log.                              *)
LEMMA RetryFacts ==
  ASSUME Typed, NEW n \in DOMAIN calls, NEW server \in Meshed, Retry(n, server)
  PROVE  /\ Len(calls) \in Nat /\ DOMAIN calls = 1..Len(calls)
         /\ calls' \in Seq(CallRecords) /\ DOMAIN calls' = DOMAIN calls
         /\ \A m \in DOMAIN calls :
              /\ calls'[m].client = calls[m].client /\ calls'[m].hasId = calls[m].hasId
              /\ calls'[m].servers = IF m = n THEN calls[m].servers \cup {server}
                                              ELSE calls[m].servers
         /\ calls[n].client \in Running /\ server \in Running
         /\ DOMAIN file' = Files
         /\ file'[server] = Append(file[server], CallLine(n, calls[n], "inbound"))
         /\ CallLine(n, calls[n], "inbound") \in CallLines
         /\ \A f \in Files \ {server} : file'[f] = file[f]
<1>1. calls \in Seq(CallRecords) /\ Len(calls) \in Nat /\ DOMAIN calls = 1..Len(calls)
  BY DEF Typed, FilesTyped
<1>2. calls[n] \in CallRecords /\ n \in Nat
  BY <1>1
<1>3. /\ Capturing /\ calls[n].client \in Running /\ server \in Running
      /\ calls' = [calls EXCEPT ![n].servers = @ \cup {server}]
      /\ Write({server}, [f \in {server} |-> CallLine(n, calls[n], "inbound")])
  BY DEF Retry
<1>4. [calls[n] EXCEPT !.servers = @ \cup {server}] \in CallRecords
  BY <1>2, NameFacts DEF CallRecords
<1>5. /\ calls' \in Seq(CallRecords) /\ DOMAIN calls' = DOMAIN calls
      /\ \A m \in DOMAIN calls :
           calls'[m] = IF m = n THEN [calls[n] EXCEPT !.servers = @ \cup {server}] ELSE calls[m]
  <2>1. calls' = [calls EXCEPT ![n] = [calls[n] EXCEPT !.servers = @ \cup {server}]]
    BY <1>3
  <2> QED
    BY <1>1, <1>4, <2>1
<1>6. \A m \in DOMAIN calls :
        /\ calls'[m].client = calls[m].client /\ calls'[m].hasId = calls[m].hasId
        /\ calls'[m].servers = IF m = n THEN calls[m].servers \cup {server} ELSE calls[m].servers
  BY <1>2, <1>5 DEF CallRecords
<1>7. CallLine(n, calls[n], "inbound") \in CallLines
  <2>1. (IF calls[n].hasId THEN n ELSE NoId) \in Nat
    BY <1>2 DEF NoId
  <2>2. addr[calls[n].client] \in Known /\ step \in Phases
    BY <1>3 DEF Running, Capturing
  <2> QED
    BY <1>2, <2>1, <2>2 DEF CallLine, CallLines
<1>8. /\ DOMAIN file' = Files
      /\ file'[server] = Append(file[server], CallLine(n, calls[n], "inbound"))
      /\ \A f \in Files \ {server} : file'[f] = file[f]
  BY <1>3, NameFacts DEF Write
<1> QED
  BY <1>1, <1>3, <1>5, <1>6, <1>7, <1>8

LEMMA TypedRetry ==
  ASSUME Typed, NEW n \in DOMAIN calls, NEW server \in Meshed, Retry(n, server)
  PROVE  Typed'
<1>1. /\ calls' \in Seq(CallRecords) /\ DOMAIN file' = Files
      /\ file'[server] = Append(file[server], CallLine(n, calls[n], "inbound"))
      /\ CallLine(n, calls[n], "inbound") \in CallLines
      /\ \A f \in Files \ {server} : file'[f] = file[f]
  BY RetryFacts
<1>2. /\ Capturing /\ Room(Cardinality({server}))
      /\ UNCHANGED <<bound, step, addr, start, end, attack, ingested>>
  BY FS_Singleton DEF Retry
<1>3. ASSUME NEW f \in Meshed
      PROVE  /\ file'[f] \in Seq(CallLines)
             /\ Len(file'[f]) = IF f \in {server} THEN Len(file[f]) + 1 ELSE Len(file[f])
  <2>1. file[f] \in Seq(CallLines)
    BY DEF Typed, FilesTyped
  <2>2. CASE f = server
    <3>1. /\ file'[f] = Append(file[f], CallLine(n, calls[n], "inbound"))
          /\ CallLine(n, calls[n], "inbound") \in CallLines
      BY <1>1, <2>2
    <3> QED
      BY <2>1, <2>2, <3>1, AppendFacts
  <2>3. CASE f # server
    BY <1>1, <2>1, <2>3, NameFacts
  <2> QED
    BY <2>2, <2>3
<1>4. /\ file'["flows"] = file["flows"] /\ file'["audit"] = file["audit"]
      /\ file'["flows"] \in Seq(FlowLines) /\ file'["audit"] \in Seq(AuditLines)
  BY <1>1, NameFacts DEF Typed, FilesTyped
<1>5. {server} \in SUBSET Files
  BY NameFacts
<1>6. \A f \in Files : Len(file'[f]) = IF f \in {server} THEN Len(file[f]) + 1 ELSE Len(file[f])
  BY <1>1, <1>3, <1>4, NameFacts
<1> QED
  BY <1>1, <1>2, <1>3, <1>4, <1>5, <1>6, TypedWrite

(* A flow and an audited call are a line of their own file.                *)
LEMMA OneLine ==
  ASSUME Typed, Capturing, NEW f \in {"flows", "audit"}, NEW line, Room(1),
         f = "flows" => line \in FlowLines, f = "audit" => line \in AuditLines,
         file' = [file EXCEPT ![f] = Append(@, line)],
         UNCHANGED <<step, cluster, start, end, attack, ingested>>
  PROVE  Typed'
<1>1. DOMAIN file = Files /\ f \in Files /\ f \notin Meshed
  BY NameFacts DEF Typed, TelemetryTypeOK
<1>2. /\ DOMAIN file' = Files /\ file'[f] = Append(file[f], line)
      /\ \A g \in Files \ {f} : file'[g] = file[g]
  BY <1>1
<1>3. calls' \in Seq(CallRecords) /\ UNCHANGED <<bound, step, addr, start, end, attack, ingested>>
  BY DEF cluster, Typed, FilesTyped
<1>4. \A g \in Meshed : file'[g] \in Seq(CallLines)
  BY <1>1, <1>2, NameFacts DEF Typed, FilesTyped
<1>5. /\ file'["flows"] \in Seq(FlowLines) /\ file'["audit"] \in Seq(AuditLines)
      /\ Len(file'[f]) = Len(file[f]) + 1
  <2>1. file["flows"] \in Seq(FlowLines) /\ file["audit"] \in Seq(AuditLines)
    BY DEF Typed, FilesTyped
  <2>2. CASE f = "flows"
    BY <1>2, <2>1, <2>2, NameFacts, AppendFacts
  <2>3. CASE f = "audit"
    BY <1>2, <2>1, <2>3, NameFacts, AppendFacts
  <2> QED
    BY <2>2, <2>3
<1>6. \A g \in Files : Len(file'[g]) = IF g \in {f} THEN Len(file[g]) + 1 ELSE Len(file[g])
  BY <1>2, <1>5
<1>7. {f} \in SUBSET Files /\ {f} # {} /\ Room(Cardinality({f}))
  BY <1>1, FS_Singleton
<1> QED
  BY <1>2, <1>3, <1>4, <1>5, <1>6, <1>7, TypedWrite

LEMMA FlowFacts ==
  ASSUME Typed, NEW kind \in {"kept", "dns response", "other"},
         NEW src \in Pods \cup {"world", "unknown"}, NEW dst \in Pods \cup {"world", "unknown"},
         Flow(kind, src, dst)
  PROVE  Typed' /\ [kind |-> kind, src |-> src, dst |-> dst, at |-> step] \in FlowLines
<1> DEFINE line == [kind |-> kind, src |-> src, dst |-> dst, at |-> step]
<1>1. /\ Capturing /\ Room(1) /\ file' = [file EXCEPT !["flows"] = Append(@, line)]
      /\ UNCHANGED <<step, cluster, start, end, attack, ingested>>
  BY DEF Flow
<1>2. line \in FlowLines
  BY <1>1 DEF FlowLines, Capturing
<1> HIDE DEF line
<1>3. Typed'
  BY <1>1, <1>2, OneLine
<1> QED
  BY <1>2, <1>3 DEF line

LEMMA AuditFacts ==
  ASSUME Typed, NEW by \in Pods \cup {"kubelet"}, NEW from \in Known, Audit(by, from)
  PROVE  Typed' /\ [by |-> by, from |-> from, at |-> step] \in AuditLines
<1> DEFINE line == [by |-> by, from |-> from, at |-> step]
<1>1. /\ Capturing /\ Room(1) /\ file' = [file EXCEPT !["audit"] = Append(@, line)]
      /\ UNCHANGED <<step, cluster, start, end, attack, ingested>>
  BY DEF Audit
<1>2. line \in AuditLines
  BY <1>1 DEF AuditLines, Capturing
<1> HIDE DEF line
<1>3. Typed'
  BY <1>1, <1>2, OneLine
<1> QED
  BY <1>2, <1>3 DEF line

(* What ingest reads.                                                      *)
EventRecords == [id : LineIds, lines : SUBSET LineIds, src : Pods \cup Others,
                 dst : Pods \cup Others, at : Phases, label : {"none", "benign", "malicious"}]

LEMMA LineFacts ==
  ASSUME Typed
  PROVE  /\ \A f \in Meshed : \A k \in DOMAIN file[f] :
              <<f, k>> \in LineIds /\ Line(<<f, k>>) \in CallLines
         /\ \A k \in DOMAIN file["flows"] :
              <<"flows", k>> \in LineIds /\ Line(<<"flows", k>>) \in FlowLines
         /\ \A k \in DOMAIN file["audit"] :
              <<"audit", k>> \in LineIds /\ Line(<<"audit", k>>) \in AuditLines
<1>1. \A f \in Files : Len(file[f]) \in Nat /\ Len(file[f]) <= bound.lines
  BY LenFacts DEF Typed
<1>2. bound.lines \in Nat
  BY BoundFacts DEF Typed, TelemetryTypeOK
<1>3. \A f \in Files : \A k \in 1..Len(file[f]) : <<f, k>> \in LineIds
  BY <1>1, <1>2 DEF LineIds
<1>4. ASSUME NEW f \in Meshed, NEW k \in DOMAIN file[f]
      PROVE  <<f, k>> \in LineIds /\ Line(<<f, k>>) \in CallLines
  <2>1. file[f] \in Seq(CallLines)
    BY DEF Typed, FilesTyped
  <2>2. k \in 1..Len(file[f]) /\ file[f][k] \in CallLines
    BY <2>1
  <2> QED
    BY <1>3, <2>2, NameFacts DEF Line
<1>5. ASSUME NEW k \in DOMAIN file["flows"]
      PROVE  <<"flows", k>> \in LineIds /\ Line(<<"flows", k>>) \in FlowLines
  <2>1. file["flows"] \in Seq(FlowLines)
    BY DEF Typed, FilesTyped
  <2>2. k \in 1..Len(file["flows"]) /\ file["flows"][k] \in FlowLines
    BY <2>1
  <2> QED
    BY <1>3, <2>2, NameFacts DEF Line
<1>6. ASSUME NEW k \in DOMAIN file["audit"]
      PROVE  <<"audit", k>> \in LineIds /\ Line(<<"audit", k>>) \in AuditLines
  <2>1. file["audit"] \in Seq(AuditLines)
    BY DEF Typed, FilesTyped
  <2>2. k \in 1..Len(file["audit"]) /\ file["audit"][k] \in AuditLines
    BY <2>1
  <2> QED
    BY <1>3, <2>2, NameFacts DEF Line
<1> QED
  BY <1>4, <1>5, <1>6

LEMMA ViewFacts ==
  ASSUME Typed
  PROVE  /\ DOMAIN views = 1..Len(views) /\ Len(views) \in Nat
         /\ \A i \in DOMAIN views :
              /\ views[i] \in LineIds /\ views[i][1] \in Meshed
              /\ views[i][2] \in DOMAIN file[views[i][1]]
              /\ views[i] = <<views[i][1], views[i][2]>>
              /\ View(i) \in CallLines
<1>1. views \in Seq(Meshed \X Nat)
  BY DEF Typed, LogsRead
<1>2. ASSUME NEW i \in DOMAIN views
      PROVE  /\ views[i] \in LineIds /\ views[i][1] \in Meshed
             /\ views[i][2] \in DOMAIN file[views[i][1]]
             /\ views[i] = <<views[i][1], views[i][2]>>
             /\ View(i) \in CallLines
  <2>1. views[i] \in Meshed \X Nat
    BY <1>1
  <2>2. views[i][1] \in Meshed /\ views[i] = <<views[i][1], views[i][2]>>
    BY <2>1
  <2>3. views[i][2] \in 1..Len(file[views[i][1]]) /\ file[views[i][1]] \in Seq(CallLines)
    BY <2>2 DEF Typed, LogsRead, FilesTyped
  <2>4. views[i][2] \in DOMAIN file[views[i][1]]
    BY <2>3
  <2>5. views[i] \in LineIds /\ Line(views[i]) \in CallLines
    BY <2>2, <2>4, LineFacts
  <2> QED
    BY <2>2, <2>4, <2>5 DEF View
<1> QED
  BY <1>1, <1>2

(* A step of ingest_run leaves the capture as it is.                       *)
LEMMA TypedIngest ==
  ASSUME Typed, UNCHANGED <<cluster, capture>>,
         step' \in {"logs", "flows", "audit", "label", "done"},
         DOMAIN entities' \subseteq Pods \cup Others,
         \A i \in DOMAIN entities' : entities'[i] \in Known \cup {NoAddress},
         DOMAIN byAddress' \subseteq Known,
         \A x \in DOMAIN byAddress' : byAddress'[x] \in Pods,
         \A e \in events' : e \in EventRecords,
         \A i \in DOMAIN views' : views'[i] \in LineIds,
         LogsRead'
  PROVE  Typed'
<1>1. /\ LineIds' = LineIds /\ Written' = Written
      /\ UNCHANGED <<bound, addr, calls, start, end, file, attack>>
  BY DEF LineIds, Written, cluster, capture
<1>2. FilesTyped'
  BY <1>1 DEF Typed, FilesTyped
<1>3. TelemetryTypeOK'
  BY <1>1 DEF Typed, TelemetryTypeOK, EventRecords
<1>4. Network'
  BY <1>1 DEF Typed, Network
<1> QED
  BY <1>2, <1>3, <1>4 DEF Typed

LEMMA TypedReadSnapshot == Typed /\ ReadSnapshot => Typed'
<1> SUFFICES ASSUME Typed, ReadSnapshot PROVE Typed'
  OBVIOUS
<1>1. /\ step = "snapshot" /\ step' = "logs"
      /\ entities' = [i \in DOMAIN start \cup DOMAIN end \cup {"kubeapi", "svc"} |->
                        IF i \in DOMAIN start THEN start[i]
                        ELSE IF i \in DOMAIN end THEN end[i] ELSE NoAddress]
      /\ UNCHANGED <<cluster, capture, todo, views, events>>
  BY DEF ReadSnapshot
<1>2. /\ \A p \in DOMAIN start : start[p] \in Known \cup {NoAddress}
      /\ \A p \in DOMAIN end : end[p] \in Known \cup {NoAddress}
      /\ DOMAIN start \subseteq Pods /\ DOMAIN end \subseteq Pods
  BY DEF Typed, TelemetryTypeOK
<1>3. /\ DOMAIN byAddress' = AddressesIn(start) \cup AddressesIn(end)
      /\ \A x \in DOMAIN byAddress' : byAddress'[x] \in Pods
  BY DEF ReadSnapshot
<1>4. DOMAIN byAddress' \subseteq Known
  BY <1>2, <1>3 DEF AddressesIn
<1>5. /\ DOMAIN entities' \subseteq Pods \cup Others
      /\ \A i \in DOMAIN entities' : entities'[i] \in Known \cup {NoAddress}
  BY <1>1, <1>2 DEF Others
<1>6. LogsRead' /\ events' = events /\ views' = views /\ file' = file
  BY <1>1 DEF Typed, LogsRead, capture, Merged, Phases
<1> QED
  BY <1>1, <1>3, <1>4, <1>5, <1>6, TypedIngest DEF Typed, TelemetryTypeOK, EventRecords

LEMMA ConcatFacts ==
  ASSUME NEW S, NEW s \in Seq(S), NEW t \in Seq(S)
  PROVE  /\ s \o t \in Seq(S)
         /\ Len(s) \in Nat /\ DOMAIN s = 1..Len(s) /\ DOMAIN (s \o t) = 1..(Len(s) + Len(t))
         /\ \A i \in DOMAIN s : (s \o t)[i] = s[i]
         /\ \A n \in 1..Len(t) : (s \o t)[Len(s) + n] = t[n]
  OBVIOUS

(* Reading the next log appends its lines to the views.                    *)
LEMMA ReadLogFacts ==
  ASSUME Typed, ReadLog, NEW p, p = Head(todo)
  PROVE  /\ p \in Meshed /\ p = todo[1] /\ todo # <<>> /\ step = "logs"
         /\ UNCHANGED <<step, cluster, capture, byAddress, events>>
         /\ todo' \in Seq(Meshed) /\ DOMAIN todo' = 1..(Len(todo) - 1) /\ Len(todo) \in Nat
         /\ DOMAIN todo = 1..Len(todo)
         /\ \A k \in DOMAIN todo' : todo'[k] = todo[k + 1] /\ k + 1 \in DOMAIN todo
         /\ views' \in Seq(Meshed \X Nat)
         /\ Len(views) \in Nat /\ DOMAIN views = 1..Len(views)
         /\ Len(file[p]) \in Nat /\ DOMAIN file[p] = 1..Len(file[p])
         /\ DOMAIN views' = 1..(Len(views) + Len(file[p]))
         /\ \A i \in DOMAIN views : views'[i] = views[i]
         /\ \A n \in 1..Len(file[p]) : views'[Len(views) + n] = <<p, n>>
         /\ \A i \in DOMAIN views' \ DOMAIN views :
              i - Len(views) \in 1..Len(file[p]) /\ views'[i] = <<p, i - Len(views)>>
         /\ entities' = IF file[p] = <<>> THEN entities ELSE Add({p})
<1> DEFINE lines == [n \in DOMAIN file[p] |-> <<p, n>>]
<1>1. /\ step = "logs" /\ todo # <<>> /\ views' = views \o lines /\ todo' = Tail(todo)
      /\ UNCHANGED <<step, cluster, capture, byAddress, events>>
      /\ entities' = IF file[p] = <<>> THEN entities ELSE Add({p})
  BY DEF ReadLog
<1>2. todo \in Seq(Meshed) /\ views \in Seq(Meshed \X Nat)
  BY DEF Typed, LogsRead
<1>3. p \in Meshed /\ p = todo[1] /\ Len(todo) \in Nat /\ DOMAIN todo = 1..Len(todo)
  BY <1>1, <1>2
<1>4. /\ todo' \in Seq(Meshed) /\ DOMAIN todo' = 1..(Len(todo) - 1)
      /\ \A k \in DOMAIN todo' : todo'[k] = todo[k + 1] /\ k + 1 \in DOMAIN todo
  BY <1>1, <1>2, <1>3
<1>5. file[p] \in Seq(CallLines)
  BY <1>3 DEF Typed, FilesTyped
<1>6. Len(file[p]) \in Nat /\ DOMAIN file[p] = 1..Len(file[p])
  BY <1>5
<1>7. lines \in Seq(Meshed \X Nat) /\ Len(lines) = Len(file[p])
      /\ \A n \in 1..Len(file[p]) : lines[n] = <<p, n>>
  BY <1>3, <1>6
<1>8. /\ views' \in Seq(Meshed \X Nat)
      /\ Len(views) \in Nat /\ DOMAIN views = 1..Len(views)
      /\ DOMAIN views' = 1..(Len(views) + Len(file[p]))
      /\ \A i \in DOMAIN views : views'[i] = views[i]
      /\ \A n \in 1..Len(file[p]) : views'[Len(views) + n] = lines[n]
  <2>1. views' = views \o lines
    BY <1>1
  <2>2. views \in Seq(Meshed \X Nat) /\ lines \in Seq(Meshed \X Nat)
    BY <1>2, <1>7
  <2>3. Len(lines) = Len(file[p])
    BY <1>7
  <2> HIDE DEF lines
  <2>4. /\ views \o lines \in Seq(Meshed \X Nat)
        /\ Len(views) \in Nat /\ DOMAIN views = 1..Len(views)
        /\ DOMAIN (views \o lines) = 1..(Len(views) + Len(lines))
        /\ \A i \in DOMAIN views : (views \o lines)[i] = views[i]
        /\ \A n \in 1..Len(lines) : (views \o lines)[Len(views) + n] = lines[n]
    BY <2>2, ConcatFacts
  <2> QED
    BY <2>1, <2>3, <2>4
<1>9. ASSUME NEW i \in DOMAIN views' \ DOMAIN views
      PROVE  i - Len(views) \in 1..Len(file[p]) /\ views'[i] = <<p, i - Len(views)>>
  <2>1. i - Len(views) \in 1..Len(file[p]) /\ i = Len(views) + (i - Len(views))
    BY <1>6, <1>8
  <2> HIDE DEF lines
  <2> QED
    BY <1>7, <1>8, <2>1
<1> QED
  BY <1>1, <1>3, <1>4, <1>6, <1>7, <1>8, <1>9

LEMMA TypedReadLog == Typed /\ ReadLog => Typed'
<1> SUFFICES ASSUME Typed, ReadLog PROVE Typed'
  OBVIOUS
<1>0. PICK p : p = Head(todo)
  OBVIOUS
<1>1. /\ p \in Meshed /\ p = todo[1] /\ todo # <<>> /\ step = "logs" /\ step' = "logs"
      /\ UNCHANGED <<cluster, capture, byAddress, events>>
      /\ todo' \in Seq(Meshed) /\ DOMAIN todo' = 1..(Len(todo) - 1) /\ Len(todo) \in Nat
      /\ DOMAIN todo = 1..Len(todo)
      /\ \A k \in DOMAIN todo' : todo'[k] = todo[k + 1] /\ k + 1 \in DOMAIN todo
      /\ views' \in Seq(Meshed \X Nat)
      /\ Len(views) \in Nat /\ DOMAIN views = 1..Len(views)
      /\ Len(file[p]) \in Nat /\ DOMAIN file[p] = 1..Len(file[p])
      /\ DOMAIN views' = 1..(Len(views) + Len(file[p]))
      /\ \A i \in DOMAIN views : views'[i] = views[i]
      /\ \A n \in 1..Len(file[p]) : views'[Len(views) + n] = <<p, n>>
      /\ \A i \in DOMAIN views' \ DOMAIN views :
           i - Len(views) \in 1..Len(file[p]) /\ views'[i] = <<p, i - Len(views)>>
      /\ entities' = IF file[p] = <<>> THEN entities ELSE Add({p})
  BY <1>0, ReadLogFacts
<1>2. /\ \A j, k \in DOMAIN todo : todo[j] = todo[k] => j = k
      /\ \A i \in DOMAIN views : views[i][2] \in 1..Len(file[views[i][1]])
      /\ \A i \in DOMAIN views, k \in DOMAIN todo : views[i][1] # todo[k]
      /\ \A i, j \in DOMAIN views : views[i] = views[j] => i = j
      /\ \A f \in Meshed : \A n \in 1..Len(file[f]) :
           (\E k \in DOMAIN todo : todo[k] = f) \/ (\E i \in DOMAIN views : views[i] = <<f, n>>)
      /\ events = {}
  BY <1>1 DEF Typed, LogsRead, Merged
<1>3. file' = file /\ 1 \in DOMAIN todo
  BY <1>1 DEF capture
<1>4. ASSUME NEW i \in DOMAIN views'
      PROVE  \/ i \in DOMAIN views /\ views'[i] = views[i]
             \/ /\ i \notin DOMAIN views /\ views'[i] = <<p, i - Len(views)>>
                /\ views'[i][1] = p /\ views'[i][2] = i - Len(views)
                /\ i - Len(views) \in 1..Len(file[p])
  <2>1. CASE i \in DOMAIN views
    BY <1>1, <2>1
  <2>2. CASE i \notin DOMAIN views
    <3>1. i - Len(views) \in 1..Len(file[p]) /\ views'[i] = <<p, i - Len(views)>>
      BY <1>1, <2>2
    <3> QED
      BY <2>2, <3>1
  <2> QED
    BY <2>1, <2>2
<1>5. \A i \in DOMAIN views' : views'[i][2] \in 1..Len(file'[views'[i][1]])
  BY <1>2, <1>3, <1>4
<1>6. \A i \in DOMAIN views', k \in DOMAIN todo' : views'[i][1] # todo'[k]
  <2> SUFFICES ASSUME NEW i \in DOMAIN views', NEW k \in DOMAIN todo'
               PROVE  views'[i][1] # todo'[k]
    OBVIOUS
  <2>1. todo'[k] = todo[k + 1] /\ k + 1 \in DOMAIN todo /\ k + 1 # 1 /\ p = todo[1]
    BY <1>1
  <2>2. CASE i \in DOMAIN views /\ views'[i] = views[i]
    BY <1>2, <2>1, <2>2
  <2>3. CASE views'[i][1] = p
    <3>1. todo[k + 1] # todo[1]
      BY <1>2, <1>3, <2>1
    <3> QED
      BY <2>1, <2>3, <3>1
  <2> QED
    BY <1>4, <2>2, <2>3
<1>7. \A i, j \in DOMAIN views' : views'[i] = views'[j] => i = j
  <2> SUFFICES ASSUME NEW i \in DOMAIN views', NEW j \in DOMAIN views', views'[i] = views'[j]
               PROVE  i = j
    OBVIOUS
  <2>1. CASE i \in DOMAIN views /\ j \in DOMAIN views
    BY <1>1, <1>2, <2>1
  <2>2. CASE i \in DOMAIN views /\ j \notin DOMAIN views
    <3>1. views[i][1] = p
      BY <1>1, <1>4, <2>2
    <3> QED
      BY <1>1, <1>2, <1>3, <2>2, <3>1
  <2>3. CASE i \notin DOMAIN views /\ j \in DOMAIN views
    <3>1. views[j][1] = p
      BY <1>1, <1>4, <2>3
    <3> QED
      BY <1>1, <1>2, <1>3, <2>3, <3>1
  <2>4. CASE i \notin DOMAIN views /\ j \notin DOMAIN views
    <3>1. i - Len(views) = j - Len(views) /\ i \in Nat /\ j \in Nat
      BY <1>1, <1>4, <2>4
    <3> QED
      BY <1>1, <3>1
  <2> QED
    BY <2>1, <2>2, <2>3, <2>4
<1>8. ASSUME NEW f \in Meshed, NEW n \in 1..Len(file'[f])
      PROVE  \/ \E k \in DOMAIN todo' : todo'[k] = f
             \/ \E i \in DOMAIN views' : views'[i] = <<f, n>>
  <2>1. CASE f = p
    <3>1. n \in 1..Len(file[p]) /\ Len(views) + n \in DOMAIN views'
      BY <1>1, <1>3, <2>1
    <3> QED
      BY <1>1, <2>1, <3>1
  <2>2. CASE f # p
    <3>1. CASE \E k \in DOMAIN todo : todo[k] = f
      <4>1. PICK k \in DOMAIN todo : todo[k] = f
        BY <3>1
      <4>2. k - 1 \in DOMAIN todo' /\ (k - 1) + 1 = k
        BY <1>1, <2>2, <4>1
      <4> QED
        BY <1>1, <4>1, <4>2
    <3>2. CASE \E i \in DOMAIN views : views[i] = <<f, n>>
      <4>1. \A i \in DOMAIN views : i \in DOMAIN views' /\ views'[i] = views[i]
        BY <1>1
      <4> QED
        BY <3>2, <4>1
    <3> QED
      BY <1>2, <1>3, <3>1, <3>2
  <2> QED
    BY <2>1, <2>2
<1>9. LogsRead'
  <2>1. \A j, k \in DOMAIN todo' : todo'[j] = todo'[k] => j = k
    <3> SUFFICES ASSUME NEW j \in DOMAIN todo', NEW k \in DOMAIN todo', todo'[j] = todo'[k]
                 PROVE  j = k
      OBVIOUS
    <3>1. j + 1 = k + 1 /\ j \in Int /\ k \in Int
      BY <1>1, <1>2
    <3> QED
      BY <3>1
  <2>2. step' \notin Phases \cup {"snapshot"} /\ step' \notin Merged /\ events' = {}
    BY <1>1, <1>2 DEF Phases, Merged
  <2> QED
    BY <1>1, <1>5, <1>6, <1>7, <1>8, <2>1, <2>2 DEF LogsRead
<1>10. \A i \in DOMAIN views' : views'[i] \in LineIds
  BY <1>1, <1>4, ViewFacts, LineFacts
<1>11. /\ DOMAIN entities' \subseteq Pods \cup Others
       /\ \A i \in DOMAIN entities' : entities'[i] \in Known \cup {NoAddress}
  BY <1>1, NameFacts DEF Add, Typed, TelemetryTypeOK
<1> QED
  BY <1>1, <1>9, <1>10, <1>11, TypedIngest DEF Typed, TelemetryTypeOK, EventRecords

----------------------------------------------------------------------------
(* The events that the parsers make                                        *)

LEMMA AddFacts ==
  ASSUME NEW ids
  PROVE  /\ DOMAIN Add(ids) = DOMAIN entities \cup ids
         /\ \A i \in DOMAIN entities : Add(ids)[i] = entities[i]
         /\ \A i \in ids \ DOMAIN entities : Add(ids)[i] = NoAddress
  BY DEF Add

LEMMA ResolveFacts ==
  ASSUME Typed, NEW x
  PROVE  /\ Resolve(x) \in Pods => x \in DOMAIN byAddress /\ Resolve(x) = byAddress[x]
         /\ Resolve(x) \in Pods \/ Resolve(x) \in {"host", "world"}
         /\ Resolve(x) \in Pods \cup Others
  BY PodAssumption DEF Resolve, Typed, TelemetryTypeOK, Others

LEMMA EventFields ==
  ASSUME NEW id, NEW lines, NEW src, NEW dst, NEW e, e = NewEvent(id, lines, src, dst)
  PROVE  /\ e.id = id /\ e.lines = lines /\ e.src = src /\ e.dst = dst
         /\ e.at = Line(id).at /\ e.label = "none"
         /\ (/\ id \in LineIds /\ lines \subseteq LineIds /\ Line(id).at \in Phases
             /\ src \in Pods \cup Others /\ dst \in Pods \cup Others) => e \in EventRecords
  BY DEF NewEvent, EventRecords

(* A view of its own.                                                      *)
LEMMA SingleFacts ==
  ASSUME Typed, NEW i \in DOMAIN views, NEW e, e = SingleEvent(i)
  PROVE  /\ e \in EventRecords
         /\ e.id = views[i] /\ e.lines = {views[i]} /\ e.at = View(i).at
         /\ \/ /\ View(i).dir = "inbound"
               /\ e.src = Resolve(View(i).from) /\ e.dst = views[i][1]
            \/ /\ View(i).dir # "inbound"
               /\ e.src = views[i][1] /\ e.dst \in {"svc", "world"}
<1>1. /\ views[i] \in LineIds /\ views[i][1] \in Pods \cup Others /\ View(i).at \in Phases
      /\ View(i) = Line(views[i])
  BY ViewFacts, NameFacts DEF CallLines, View
<1>2. CASE View(i).dir = "inbound"
  <2>1. e = NewEvent(views[i], {views[i]}, Resolve(View(i).from), views[i][1])
    BY <1>2 DEF SingleEvent
  <2>2. Resolve(View(i).from) \in Pods \cup Others
    BY ResolveFacts
  <2> QED
    BY <1>1, <1>2, <2>1, <2>2, EventFields
<1>3. CASE View(i).dir # "inbound"
  <2>1. PICK dst \in {"svc", "world"} : e = NewEvent(views[i], {views[i]}, views[i][1], dst)
    BY <1>3 DEF SingleEvent
  <2>2. dst \in Pods \cup Others
    BY DEF Others
  <2> QED
    BY <1>1, <1>3, <2>1, <2>2, EventFields
<1> QED
  BY <1>2, <1>3

(* Both sides of a request.                                                *)
LEMMA PairFacts ==
  ASSUME Typed, NEW p \in Pairs, NEW e, e = PairEvent(p)
  PROVE  /\ p[1] \in DOMAIN views /\ p[2] \in DOMAIN views /\ p = <<p[1], p[2]>>
         /\ View(p[1]).dir = "outbound" /\ View(p[2]).dir = "inbound"
         /\ View(p[1]).rid = View(p[2]).rid /\ Booked(p[1]) /\ Booked(p[2])
         /\ e \in EventRecords
         /\ e.id = views[p[2]] /\ e.lines = {views[p[1]], views[p[2]]}
         /\ e.at = View(p[2]).at
         /\ e.src = views[p[1]][1] /\ e.dst = views[p[2]][1]
<1>1. /\ p[1] \in DOMAIN views /\ p[2] \in DOMAIN views /\ p = <<p[1], p[2]>>
      /\ View(p[1]).dir = "outbound" /\ View(p[2]).dir = "inbound"
      /\ View(p[1]).rid = View(p[2]).rid /\ Booked(p[1]) /\ Booked(p[2])
  BY DEF Pairs
<1>2. /\ views[p[1]] \in LineIds /\ views[p[2]] \in LineIds
      /\ views[p[1]][1] \in Pods \cup Others /\ views[p[2]][1] \in Pods \cup Others
      /\ Line(views[p[2]]).at \in Phases /\ View(p[2]) = Line(views[p[2]])
  BY <1>1, ViewFacts, NameFacts DEF CallLines, View
<1>3. e = NewEvent(views[p[2]], {views[p[1]], views[p[2]]}, views[p[1]][1], views[p[2]][1])
  BY DEF PairEvent
<1> QED
  BY <1>1, <1>2, <1>3, EventFields

NewViews == {PairEvent(p) : p \in Pairs} \cup {SingleEvent(i) : i \in Singles}

LEMMA MergeFacts ==
  ASSUME Typed, MergeViews
  PROVE  /\ step = "logs" /\ step' = "flows" /\ todo = <<>> /\ events = {}
         /\ events' = NewViews
         /\ UNCHANGED <<cluster, capture, byAddress, todo, views>>
         /\ NewViews \subseteq EventRecords
         /\ \E ids : /\ entities' = Add(ids) /\ ids \subseteq Others
                    /\ Others \cap Ends(NewViews) \subseteq ids
<1>1. /\ step = "logs" /\ step' = "flows" /\ todo = <<>> /\ events = {}
      /\ events' = NewViews
      /\ UNCHANGED <<cluster, capture, byAddress, todo, views>>
  BY DEF MergeViews, NewViews, Typed, LogsRead, Merged
<1>2. NewViews \subseteq EventRecords
  BY PairFacts, SingleFacts DEF NewViews, Singles
<1>3. \E ids : /\ entities' = Add(ids) /\ ids \subseteq Others
              /\ Others \cap Ends(NewViews) \subseteq ids
  <2> DEFINE ids == Others \cap (Ends(NewViews) \cup
                      {Resolve(View(i).from) : i \in {j \in DOMAIN views : ~ Booked(j)}})
  <2>1. entities' = Add(ids)
    BY DEF MergeViews, NewViews
  <2> QED
    BY <2>1
<1> QED
  BY <1>1, <1>2, <1>3

(* An event that a flow makes, and one that an audited call makes.         *)
FlowEvent(e, n) ==
  LET flow == file["flows"][n]
  IN  /\ n \in DOMAIN file["flows"] /\ e \in EventRecords
      /\ e.id = <<"flows", n>> /\ e.lines = {<<"flows", n>>}
      /\ e.at = flow.at /\ e.label = "none"
      /\ \/ flow.kind = "kept" /\ e.src = flow.src /\ e.dst = flow.dst
         \/ flow.kind = "dns response" /\ e.src = flow.dst /\ e.dst = "dns"

AuditEvent(e, n) ==
  LET call == file["audit"][n]
  IN  /\ n \in DOMAIN file["audit"] /\ e \in EventRecords
      /\ e.id = <<"audit", n>> /\ e.lines = {<<"audit", n>>}
      /\ e.at = call.at /\ e.label = "none"
      /\ call.from \in DOMAIN byAddress /\ e.src = byAddress[call.from] /\ e.dst = "kubeapi"

LEMMA FlowsFacts ==
  ASSUME Typed, ParseFlows
  PROVE  /\ step = "flows" /\ step' = "audit"
         /\ UNCHANGED <<cluster, capture, byAddress, todo, views>>
         /\ \E new, ids :
              /\ events' = events \cup new
              /\ \A e \in new : \E n : FlowEvent(e, n)
              /\ entities' = Add(ids) /\ ids \subseteq Pods \cup Others
              /\ Ends(new) \subseteq ids
<1> DEFINE flow(n) == file["flows"][n]
           id(n)   == <<"flows", n>>
           ends(n) == {flow(n).src, flow(n).dst}
           l4  == {n \in DOMAIN file["flows"] : Kept(flow(n))}
           dns == {n \in DOMAIN file["flows"] :
                     flow(n).kind = "dns response" /\ Identified(flow(n).dst)}
           newL4 == {NewEvent(id(n), {id(n)}, flow(n).src, flow(n).dst) :
                       n \in {m \in l4 : \A e \in ends(m) : Identified(e)}}
           newDns == {NewEvent(id(n), {id(n)}, flow(n).dst, "dns") : n \in dns}
           new == newL4 \cup newDns
           ids == Ends(new) \cup {e \in UNION {ends(n) : n \in l4} : Identified(e)}
<1>1. /\ step = "flows" /\ step' = "audit"
      /\ UNCHANGED <<cluster, capture, byAddress, todo, views>>
      /\ events' = events \cup new /\ entities' = Add(ids)
  BY DEF ParseFlows
<1>2. ASSUME NEW n \in DOMAIN file["flows"]
      PROVE  /\ id(n) \in LineIds /\ flow(n) = Line(id(n)) /\ flow(n).at \in Phases
             /\ \A e \in ends(n) : Identified(e) => e \in Pods \cup Others
  <2>1. id(n) \in LineIds /\ Line(id(n)) \in FlowLines /\ flow(n) = Line(id(n))
    BY LineFacts DEF Line
  <2> QED
    BY <2>1 DEF FlowLines, Identified, Others
<1>3. ASSUME NEW e \in newL4
      PROVE  \E n : FlowEvent(e, n)
  <2>1. PICK n \in l4 : /\ \A x \in ends(n) : Identified(x)
                        /\ e = NewEvent(id(n), {id(n)}, flow(n).src, flow(n).dst)
    BY <1>3
  <2>2. /\ n \in DOMAIN file["flows"] /\ flow(n).kind = "kept" /\ id(n) \in LineIds
        /\ flow(n) = Line(id(n)) /\ flow(n).at \in Phases
        /\ flow(n).src \in Pods \cup Others /\ flow(n).dst \in Pods \cup Others
    BY <1>2, <2>1 DEF Kept
  <2>3. /\ e.id = id(n) /\ e.lines = {id(n)} /\ e.src = flow(n).src /\ e.dst = flow(n).dst
        /\ e.at = flow(n).at /\ e.label = "none" /\ e \in EventRecords
    BY <2>1, <2>2, EventFields
  <2> QED
    BY <2>2, <2>3 DEF FlowEvent
<1>4. ASSUME NEW e \in newDns
      PROVE  \E n : FlowEvent(e, n)
  <2>1. PICK n \in dns : e = NewEvent(id(n), {id(n)}, flow(n).dst, "dns")
    BY <1>4
  <2>2. /\ n \in DOMAIN file["flows"] /\ flow(n).kind = "dns response" /\ id(n) \in LineIds
        /\ flow(n) = Line(id(n)) /\ flow(n).at \in Phases
        /\ flow(n).dst \in Pods \cup Others /\ "dns" \in Pods \cup Others
    BY <1>2, <2>1 DEF Others
  <2>3. PICK l, lines, end1, end2 :
           l = id(n) /\ lines = {id(n)} /\ end1 = flow(n).dst /\ end2 = "dns"
    OBVIOUS
  <2>4. e = NewEvent(l, lines, end1, end2) /\ Line(l).at \in Phases
    BY <2>1, <2>2, <2>3
  <2>5. /\ l \in LineIds /\ lines \subseteq LineIds
        /\ end1 \in Pods \cup Others /\ end2 \in Pods \cup Others
    BY <2>2, <2>3
  <2> HIDE DEF dns, newDns
  <2>6. /\ e.id = l /\ e.lines = lines /\ e.src = end1 /\ e.dst = end2
        /\ e.at = Line(l).at /\ e.label = "none" /\ e \in EventRecords
    BY <2>4, <2>5, EventFields
  <2> QED
    BY <2>2, <2>3, <2>6 DEF FlowEvent
<1>5. \A e \in new : \E n : FlowEvent(e, n)
  BY <1>3, <1>4
<1>6. Ends(new) \subseteq ids
  OBVIOUS
<1>7. ids \subseteq Pods \cup Others
  <2>1. \A e \in new : e.src \in Pods \cup Others /\ e.dst \in Pods \cup Others
    BY <1>5 DEF FlowEvent, EventRecords
  <2>2. Ends(new) \subseteq Pods \cup Others
    BY <2>1 DEF Ends
  <2> QED
    BY <1>2, <2>2
<1> HIDE DEF new, ids
<1> QED
  BY <1>1, <1>5, <1>6, <1>7

LEMMA AuditsFacts ==
  ASSUME Typed, ParseAudit
  PROVE  /\ step = "audit" /\ step' = "label"
         /\ UNCHANGED <<cluster, capture, byAddress, todo, views>>
         /\ \E new, ids :
              /\ events' = events \cup new
              /\ \A e \in new : \E n : AuditEvent(e, n)
              /\ entities' = Add(ids) /\ ids \subseteq Others
<1> DEFINE src(n) == Resolve(file["audit"][n].from)
           id(n)  == <<"audit", n>>
           all    == DOMAIN file["audit"]
           new    == {NewEvent(id(n), {id(n)}, src(n), "kubeapi") :
                        n \in {k \in all : src(k) \in Pods}}
           ids    == Others \cap {src(n) : n \in all}
<1>1. /\ step = "audit" /\ step' = "label"
      /\ UNCHANGED <<cluster, capture, byAddress, todo, views>>
      /\ events' = events \cup new /\ entities' = Add(ids)
  BY DEF ParseAudit
<1>2. ASSUME NEW e \in new
      PROVE  \E n : AuditEvent(e, n)
  <2>1. PICK n \in all : src(n) \in Pods /\ e = NewEvent(id(n), {id(n)}, src(n), "kubeapi")
    BY <1>2
  <2>2. /\ id(n) \in LineIds /\ file["audit"][n] = Line(id(n)) /\ Line(id(n)).at \in Phases
    BY <2>1, LineFacts DEF Line, AuditLines
  <2>3. file["audit"][n].from \in DOMAIN byAddress /\ src(n) = byAddress[file["audit"][n].from]
    BY <2>1, ResolveFacts
  <2>4. src(n) \in Pods \cup Others /\ "kubeapi" \in Pods \cup Others
    BY <2>1 DEF Others
  <2>5. /\ e.id = id(n) /\ e.lines = {id(n)} /\ e.src = src(n) /\ e.dst = "kubeapi"
        /\ e.at = Line(id(n)).at /\ e.label = "none" /\ e \in EventRecords
    BY <2>1, <2>2, <2>4, EventFields
  <2>6. e.src = byAddress[file["audit"][n].from] /\ e.at = file["audit"][n].at
    BY <2>2, <2>3, <2>5
  <2>7. n \in DOMAIN file["audit"] /\ e.id = <<"audit", n>> /\ e.lines = {<<"audit", n>>}
    BY <2>1, <2>5
  <2> QED
    BY <2>3, <2>5, <2>6, <2>7 DEF AuditEvent
<1> HIDE DEF new
<1> QED
  BY <1>1, <1>2

(* A parser adds events and entities.                                      *)
LEMMA TypedParse ==
  ASSUME Typed, UNCHANGED <<cluster, capture, byAddress, todo, views>>,
         todo = <<>>, step' \in Merged,
         NEW ids \in SUBSET (Pods \cup Others), entities' = Add(ids),
         \A e \in events' : e \in EventRecords
  PROVE  Typed'
<1>1. step' \in {"logs", "flows", "audit", "label", "done"} /\ step' \notin Phases \cup {"snapshot"}
  BY DEF Merged, Phases
<1>2. file' = file
  BY DEF capture
<1>3. LogsRead'
  BY <1>1, <1>2 DEF Typed, LogsRead
<1>4. DOMAIN entities \subseteq Pods \cup Others
      /\ \A i \in DOMAIN entities : entities[i] \in Known \cup {NoAddress}
  BY DEF Typed, TelemetryTypeOK
<1>5. /\ DOMAIN entities' \subseteq Pods \cup Others
      /\ \A i \in DOMAIN entities' : entities'[i] \in Known \cup {NoAddress}
  BY <1>4, AddFacts
<1>6. /\ DOMAIN byAddress' \subseteq Known
      /\ \A x \in DOMAIN byAddress' : byAddress'[x] \in Pods
      /\ \A i \in DOMAIN views' : views'[i] \in LineIds
  BY DEF Typed, TelemetryTypeOK
<1> QED
  BY <1>1, <1>3, <1>5, <1>6, TypedIngest

LEMMA EventsTyped == Typed => \A e \in events : e \in EventRecords
  BY DEF Typed, TelemetryTypeOK, EventRecords

LEMMA TypedMerge == Typed /\ MergeViews => Typed'
<1> SUFFICES ASSUME Typed, MergeViews PROVE Typed'
  OBVIOUS
<1>1. PICK ids : entities' = Add(ids) /\ ids \subseteq Others
  BY MergeFacts
<1>2. /\ UNCHANGED <<cluster, capture, byAddress, todo, views>> /\ todo = <<>>
      /\ step' = "flows" /\ events' = NewViews /\ NewViews \subseteq EventRecords
  BY MergeFacts
<1>3. step' \in Merged /\ ids \in SUBSET (Pods \cup Others)
  BY <1>1, <1>2 DEF Merged
<1> QED
  BY <1>1, <1>2, <1>3, TypedParse

LEMMA TypedFlows == Typed /\ ParseFlows => Typed'
<1> SUFFICES ASSUME Typed, ParseFlows PROVE Typed'
  OBVIOUS
<1>1. PICK new, ids : /\ events' = events \cup new
                      /\ \A e \in new : \E n : FlowEvent(e, n)
                      /\ entities' = Add(ids) /\ ids \subseteq Pods \cup Others
  BY FlowsFacts
<1>2. step = "flows" /\ step' = "audit" /\ UNCHANGED <<cluster, capture, byAddress, todo, views>>
  BY FlowsFacts
<1>3. todo = <<>> /\ step' \in Merged
  BY <1>2 DEF Typed, LogsRead, Merged
<1>4. \A e \in events' : e \in EventRecords
  BY <1>1, EventsTyped DEF FlowEvent
<1> QED
  BY <1>1, <1>2, <1>3, <1>4, TypedParse

LEMMA TypedAudit == Typed /\ ParseAudit => Typed'
<1> SUFFICES ASSUME Typed, ParseAudit PROVE Typed'
  OBVIOUS
<1>1. PICK new, ids : /\ events' = events \cup new
                      /\ \A e \in new : \E n : AuditEvent(e, n)
                      /\ entities' = Add(ids) /\ ids \subseteq Others
  BY AuditsFacts
<1>2. step = "audit" /\ step' = "label" /\ UNCHANGED <<cluster, capture, byAddress, todo, views>>
  BY AuditsFacts
<1>3. todo = <<>> /\ step' \in Merged /\ ids \in SUBSET (Pods \cup Others)
  BY <1>1, <1>2 DEF Typed, LogsRead, Merged
<1>4. \A e \in events' : e \in EventRecords
  BY <1>1, EventsTyped DEF AuditEvent
<1> QED
  BY <1>1, <1>2, <1>3, <1>4, TypedParse

(* Labels change nothing else about an event.                              *)
Relabeled(e, d) ==
  /\ e \in EventRecords
  /\ e.id = d.id /\ e.lines = d.lines /\ e.src = d.src /\ e.dst = d.dst /\ e.at = d.at
  /\ \/ attack = <<>> /\ e.label = d.label
     \/ attack # <<>> /\ e.label = IF Malicious(d) THEN "malicious" ELSE "benign"

LEMMA LabelFacts ==
  ASSUME Typed, Label
  PROVE  /\ step = "label" /\ step' = "done"
         /\ UNCHANGED <<cluster, capture, entities, byAddress, todo, views>>
         /\ \A e \in events' : \E d \in events : Relabeled(e, d)
         /\ \A d \in events : \E e \in events' : Relabeled(e, d)
         /\ \A e, f \in events' : \A d \in events : Relabeled(e, d) /\ Relabeled(f, d) => e = f
<1>1. /\ step = "label" /\ step' = "done"
      /\ UNCHANGED <<cluster, capture, entities, byAddress, todo, views>>
  BY DEF Label
<1> DEFINE as(d) == [d EXCEPT !.label = IF Malicious(d) THEN "malicious" ELSE "benign"]
<1>2. CASE attack = <<>>
  <2>1. events' = events
    BY <1>2 DEF Label
  <2>2. \A d \in events : Relabeled(d, d)
    BY <1>2, EventsTyped DEF Relabeled
  <2>3. \A e, f \in EventRecords : e.id = f.id /\ e.lines = f.lines /\ e.src = f.src
          /\ e.dst = f.dst /\ e.at = f.at /\ e.label = f.label => e = f
    BY DEF EventRecords
  <2>4. ASSUME NEW e \in events', NEW f \in events', NEW d \in events,
               Relabeled(e, d), Relabeled(f, d)
        PROVE  e = f
    BY <1>2, <2>3, <2>4 DEF Relabeled
  <2> QED
    BY <1>1, <2>1, <2>2, <2>4
<1>3. CASE attack # <<>>
  <2>1. events' = {as(d) : d \in events}
    BY <1>3 DEF Label
  <2>2. ASSUME NEW d \in events PROVE Relabeled(as(d), d)
    <3>1. d \in EventRecords
      BY EventsTyped
    <3>2. PICK l \in {"malicious", "benign"} :
            l = IF Malicious(d) THEN "malicious" ELSE "benign"
      OBVIOUS
    <3>3. as(d) = [d EXCEPT !.label = l]
      BY <3>2
    <3>4. [d EXCEPT !.label = l] \in EventRecords
      BY <3>1 DEF EventRecords
    <3>5. LET e == [d EXCEPT !.label = l]
          IN  /\ e.id = d.id /\ e.lines = d.lines /\ e.src = d.src /\ e.dst = d.dst
              /\ e.at = d.at /\ e.label = l
      BY <3>1 DEF EventRecords
    <3> QED
      BY <1>3, <3>2, <3>3, <3>4, <3>5 DEF Relabeled
  <2>3. \A e, f \in EventRecords : e.id = f.id /\ e.lines = f.lines /\ e.src = f.src
          /\ e.dst = f.dst /\ e.at = f.at /\ e.label = f.label => e = f
    BY DEF EventRecords
  <2>4. ASSUME NEW e \in events', NEW f \in events', NEW d \in events,
               Relabeled(e, d), Relabeled(f, d)
        PROVE  e = f
    BY <1>3, <2>3, <2>4 DEF Relabeled
  <2> HIDE DEF as
  <2>5. \A e \in events' : \E d \in events : Relabeled(e, d)
    BY <2>1, <2>2
  <2>6. \A d \in events : as(d) \in events'
    BY <2>1
  <2>7. \A d \in events : \E e \in events' : Relabeled(e, d)
    BY <2>2, <2>6
  <2> QED
    BY <1>1, <2>4, <2>5, <2>7
<1> QED
  BY <1>2, <1>3

LEMMA TypedLabel == Typed /\ Label => Typed'
<1> SUFFICES ASSUME Typed, Label PROVE Typed'
  OBVIOUS
<1>1. /\ step = "label" /\ step' = "done"
      /\ UNCHANGED <<cluster, capture, entities, byAddress, todo, views>>
      /\ \A e \in events' : e \in EventRecords
  BY LabelFacts DEF Relabeled
<1>2. file' = file /\ todo = <<>> /\ step' \in Merged /\ step' \notin Phases \cup {"snapshot"}
  BY <1>1 DEF capture, Typed, LogsRead, Merged, Phases
<1>3. LogsRead'
  BY <1>1, <1>2 DEF Typed, LogsRead
<1>4. /\ DOMAIN entities' \subseteq Pods \cup Others
      /\ \A i \in DOMAIN entities' : entities'[i] \in Known \cup {NoAddress}
      /\ DOMAIN byAddress' \subseteq Known
      /\ \A x \in DOMAIN byAddress' : byAddress'[x] \in Pods
      /\ \A i \in DOMAIN views' : views'[i] \in LineIds
  BY <1>1 DEF Typed, TelemetryTypeOK
<1> QED
  BY <1>1, <1>3, <1>4, TypedIngest

(* The steps of the cluster that write no line, one by one.                *)
LEMMA TypedVanish == ASSUME Typed, NEW p \in Pods, Vanish(p) PROVE Typed'
<1>1. /\ Capturing /\ addr' = [addr EXCEPT ![p] = "gone"]
      /\ UNCHANGED <<bound, step, calls, capture, ingested>>
  BY DEF Vanish, MayMove
<1>2. addr' \in [Pods -> Known \cup {"absent", "pending", "gone"}]
  BY <1>1 DEF Typed, TelemetryTypeOK
<1>3. Network'
  BY <1>1, PodAssumption DEF Typed, TelemetryTypeOK, Network, Vanish, Node
<1> QED
  BY <1>1, <1>2, <1>3, TypedMove DEF Capturing, capture, ingested

LEMMA TypedGetsAddress ==
  ASSUME Typed, NEW p \in Pods, NEW x \in Addresses, GetsAddress(p, x) PROVE Typed'
<1>1. /\ Capturing /\ addr' = [addr EXCEPT ![p] = x]
      /\ UNCHANGED <<bound, step, calls, capture, ingested>>
  BY DEF GetsAddress, MayMove
<1>2. addr' \in [Pods -> Known \cup {"absent", "pending", "gone"}]
  BY <1>1 DEF Typed, TelemetryTypeOK, Known
<1>3. Network'
  BY <1>1, PodAssumption DEF Typed, TelemetryTypeOK, Network, GetsAddress
<1> QED
  BY <1>1, <1>2, <1>3, TypedMove DEF Capturing, capture, ingested

LEMMA TypedStarts == Typed /\ SessionStarts => Typed'
<1> SUFFICES ASSUME Typed, SessionStarts PROVE Typed'
  OBVIOUS
<1>1. /\ step = "before" /\ step' = "during" /\ UNCHANGED <<cluster, capture, ingested>>
  BY DEF SessionStarts
<1>2. addr' \in [Pods -> Known \cup {"absent", "pending", "gone"}]
  BY <1>1 DEF Typed, TelemetryTypeOK, cluster
<1>3. Network'
  BY <1>1 DEF Typed, Network, cluster
<1> QED
  BY <1>1, <1>2, <1>3, TypedMove DEF Capturing, Phases, cluster, capture, ingested

LEMMA TypedEnds ==
  ASSUME Typed, NEW byNamespace \in BOOLEAN, NEW window \in BOOLEAN,
         SessionEnds(byNamespace, window)
  PROVE  Typed'
<1>1. /\ step = "during" /\ step' = "after"
      /\ attack' = [ips |-> {addr[p] : p \in Attackers \cap Running},
                    byNamespace |-> byNamespace, window |-> window]
      /\ UNCHANGED <<cluster, start, end, file, ingested>>
  BY DEF SessionEnds
<1>2. addr' \in [Pods -> Known \cup {"absent", "pending", "gone"}]
  BY <1>1 DEF Typed, TelemetryTypeOK, cluster
<1>3. Network'
  BY <1>1 DEF Typed, Network, cluster
<1>4. {addr[p] : p \in Attackers \cap Running} \in SUBSET Addresses
  BY PodAssumption DEF Typed, Network, Running, Known
<1>5. attack' \in [ips : SUBSET Addresses, byNamespace : BOOLEAN, window : BOOLEAN]
  BY <1>1, <1>4
<1> QED
  BY <1>1, <1>2, <1>3, <1>5, TypedMove DEF Capturing, Phases, cluster, ingested

LEMMA TypedCollect == ASSUME Typed, NEW withEnd \in BOOLEAN, Collect(withEnd) PROVE Typed'
<1>1. /\ step \in {"before", "after"} /\ step' = "snapshot"
      /\ end' = Snapshot \/ end' = <<>>
      /\ UNCHANGED <<cluster, start, file, attack, ingested>>
  BY DEF Collect
<1>2. addr' \in [Pods -> Known \cup {"absent", "pending", "gone"}]
  BY <1>1 DEF Typed, TelemetryTypeOK, cluster
<1>3. Network'
  BY <1>1 DEF Typed, Network, cluster
<1> QED
  BY <1>1, <1>2, <1>3, TypedMove DEF Capturing, Phases, cluster, ingested

(* A step is one of the capture or one of ingest_run.                      *)
CaptureStep ==
  /\ Capturing /\ step' \in Phases \cup {"snapshot"}
  /\ UNCHANGED ingested

LEMMA Steps == ASSUME Typed, TelemetryNext PROVE Typed' /\ (CaptureStep \/ IngestRun)
<1>1. ASSUME NEW p \in Pods, Vanish(p) PROVE Typed' /\ CaptureStep
  BY <1>1, TypedVanish DEF Vanish, MayMove, Capturing, capture, ingested, CaptureStep
<1>2. ASSUME NEW p \in Pods, NEW x \in Addresses, GetsAddress(p, x)
      PROVE  Typed' /\ CaptureStep
  BY <1>2, TypedGetsAddress DEF GetsAddress, MayMove, Capturing, capture, ingested, CaptureStep
<1>3. ASSUME NEW client \in Pods, NEW servers \in {{}} \cup {{p} : p \in Meshed},
             NEW hasId \in BOOLEAN, NEW writers \in SUBSET Meshed,
             Request(client, servers, hasId, writers)
      PROVE  Typed' /\ CaptureStep
  <2>1. servers \in SUBSET Meshed
    OBVIOUS
  <2>2. Typed'
    BY <1>3, <2>1, TypedRequest
  <2> QED
    BY <1>3, <2>2 DEF Request, Capturing, ingested, CaptureStep
<1>4. ASSUME NEW n \in DOMAIN calls, NEW server \in Meshed, Retry(n, server)
      PROVE  Typed' /\ CaptureStep
  BY <1>4, TypedRetry DEF Retry, Capturing, ingested, CaptureStep
<1>5. ASSUME NEW kind \in {"kept", "dns response", "other"},
             NEW src \in Pods \cup {"world", "unknown"},
             NEW dst \in Pods \cup {"world", "unknown"}, Flow(kind, src, dst)
      PROVE  Typed' /\ CaptureStep
  BY <1>5, FlowFacts DEF Flow, Capturing, ingested, CaptureStep
<1>6. ASSUME NEW by \in Pods \cup {"kubelet"}, NEW from \in Known, Audit(by, from)
      PROVE  Typed' /\ CaptureStep
  BY <1>6, AuditFacts DEF Audit, Capturing, ingested, CaptureStep
<1>7. SessionStarts => Typed' /\ CaptureStep
  BY TypedStarts DEF SessionStarts, Capturing, Phases, ingested, CaptureStep
<1>8. ASSUME NEW byNamespace \in BOOLEAN, NEW window \in BOOLEAN,
             SessionEnds(byNamespace, window)
      PROVE  Typed' /\ CaptureStep
  BY <1>8, TypedEnds DEF SessionEnds, Capturing, Phases, ingested, CaptureStep
<1>9. ASSUME NEW withEnd \in BOOLEAN, Collect(withEnd) PROVE Typed' /\ CaptureStep
  BY <1>9, TypedCollect DEF Collect, Capturing, Phases, ingested, CaptureStep
<1>10. IngestRun => Typed'
  BY TypedReadSnapshot, TypedReadLog, TypedMerge, TypedFlows, TypedAudit, TypedLabel
     DEF IngestRun
<1> QED
  BY <1>1, <1>2, <1>3, <1>4, <1>5, <1>6, <1>7, <1>8, <1>9, <1>10 DEF TelemetryNext

LEMMA TypedStutters == Typed /\ UNCHANGED vars => Typed'
<1> SUFFICES ASSUME Typed, UNCHANGED vars PROVE Typed'
  OBVIOUS
<1>1. /\ UNCHANGED <<bound, step, addr, calls, start, end, file, attack>>
      /\ UNCHANGED <<entities, byAddress, todo, views, events>>
      /\ LineIds' = LineIds /\ Written' = Written
  BY DEF vars, cluster, capture, ingested, LineIds, Written
<1>2. TelemetryTypeOK'
  BY <1>1 DEF Typed, TelemetryTypeOK
<1>3. FilesTyped' /\ Network' /\ LogsRead'
  BY <1>1 DEF Typed, FilesTyped, Network, LogsRead
<1> QED
  BY <1>2, <1>3 DEF Typed

(* The invariant holds of every cluster and of every run that is ingested. *)
LEMMA TypedHolds == TelemetrySpec => []Typed
<1>1. Typed /\ [TelemetryNext]_vars => Typed'
  BY Steps, TypedStutters
<1> QED
  BY TypedInit, <1>1, PTL DEF TelemetrySpec

(* Lines, snapshots, entities, views and events are what they should be,   *)
(* whatever the cluster does and whatever is lost.                         *)
THEOREM TelemetryTypeCorrect == TelemetrySpec => []TelemetryTypeOK
<1>1. Typed => TelemetryTypeOK
  BY DEF Typed
<1> QED
  BY TypedHolds, <1>1, PTL

----------------------------------------------------------------------------
(* Entities                                                                *)

(* What the parsers may name as an end of an event without registering it. *)
Registered ==
  /\ step \notin Phases \cup {"snapshot"} =>
       /\ {"svc", "kubeapi"} \subseteq DOMAIN entities
       /\ \A x \in DOMAIN byAddress : byAddress[x] \in DOMAIN entities
  /\ \A i \in DOMAIN views : views[i][1] \in DOMAIN entities

RegisteredInv == Registered /\ EndpointsAreEntities

LEMMA RegisteredInit == TelemetryInit => RegisteredInv
  BY DEF TelemetryInit, RegisteredInv, Registered, EndpointsAreEntities, Ends, Phases

LEMMA RegisteredCapture == Typed /\ RegisteredInv /\ CaptureStep => RegisteredInv'
  BY DEF RegisteredInv, Registered, EndpointsAreEntities, Ends, CaptureStep, ingested,
         Capturing, Phases

LEMMA RegisteredReadSnapshot == Typed /\ RegisteredInv /\ ReadSnapshot => RegisteredInv'
<1> SUFFICES ASSUME Typed, RegisteredInv, ReadSnapshot PROVE RegisteredInv'
  OBVIOUS
<1>1. /\ DOMAIN entities' = DOMAIN start \cup DOMAIN end \cup {"kubeapi", "svc"}
      /\ views' = views /\ events' = events /\ step = "snapshot"
  BY DEF ReadSnapshot
<1>2. \A x \in DOMAIN byAddress' : byAddress'[x] \in DOMAIN start \cup DOMAIN end
  BY DEF ReadSnapshot
<1>3. views = <<>> /\ events = {}
  BY <1>1 DEF Typed, LogsRead, Merged
<1> QED
  BY <1>1, <1>2, <1>3 DEF RegisteredInv, Registered, EndpointsAreEntities, Ends

LEMMA RegisteredReadLog == Typed /\ RegisteredInv /\ ReadLog => RegisteredInv'
<1> SUFFICES ASSUME Typed, RegisteredInv, ReadLog PROVE RegisteredInv'
  OBVIOUS
<1>0. PICK p : p = Head(todo)
  OBVIOUS
<1>1. /\ step = "logs" /\ byAddress' = byAddress /\ events' = events
      /\ Len(views) \in Nat /\ DOMAIN views = 1..Len(views)
      /\ Len(file[p]) \in Nat
      /\ DOMAIN views' = 1..(Len(views) + Len(file[p]))
      /\ \A i \in DOMAIN views : views'[i] = views[i]
      /\ \A i \in DOMAIN views' \ DOMAIN views :
           i - Len(views) \in 1..Len(file[p]) /\ views'[i] = <<p, i - Len(views)>>
      /\ entities' = IF file[p] = <<>> THEN entities ELSE Add({p})
  BY <1>0, ReadLogFacts
<1>2. DOMAIN entities \subseteq DOMAIN entities'
  BY <1>1, AddFacts
<1>3. file[p] # <<>> => p \in DOMAIN entities'
  BY <1>1, AddFacts
<1>4. events = {}
  BY <1>1 DEF Typed, LogsRead, Merged
<1>5. ASSUME NEW i \in DOMAIN views' PROVE views'[i][1] \in DOMAIN entities'
  <2>1. CASE i \in DOMAIN views
    BY <1>1, <1>2, <2>1 DEF RegisteredInv, Registered
  <2>2. CASE i \notin DOMAIN views
    <3>1. views'[i] = <<p, i - Len(views)>> /\ Len(file[p]) # 0
      BY <1>1, <2>2
    <3>2. file[p] # <<>>
      BY <3>1
    <3> QED
      BY <1>3, <3>1, <3>2
  <2> QED
    BY <2>1, <2>2
<1>6. EndpointsAreEntities'
  BY <1>1, <1>4 DEF EndpointsAreEntities, Ends
<1>7. /\ {"svc", "kubeapi"} \subseteq DOMAIN entities'
      /\ \A x \in DOMAIN byAddress' : byAddress'[x] \in DOMAIN entities'
  BY <1>1, <1>2 DEF RegisteredInv, Registered, Phases
<1> QED
  BY <1>5, <1>6, <1>7 DEF RegisteredInv, Registered

(* What was registered stays, so a parser has to see to its own events.    *)
LEMMA RegisteredParse ==
  ASSUME Typed, RegisteredInv, UNCHANGED <<byAddress, views>>,
         step \notin Phases \cup {"snapshot"},
         DOMAIN entities \subseteq DOMAIN entities', NEW new, events' = events \cup new,
         \A e \in new : e.src \in DOMAIN entities' /\ e.dst \in DOMAIN entities'
  PROVE  RegisteredInv'
<1>1. Registered'
  BY DEF RegisteredInv, Registered
<1>2. \A e \in events' : e.src \in DOMAIN entities' /\ e.dst \in DOMAIN entities'
  BY DEF RegisteredInv, EndpointsAreEntities, Ends
<1> QED
  BY <1>1, <1>2 DEF RegisteredInv, EndpointsAreEntities, Ends

LEMMA RegisteredMerge == Typed /\ RegisteredInv /\ MergeViews => RegisteredInv'
<1> SUFFICES ASSUME Typed, RegisteredInv, MergeViews PROVE RegisteredInv'
  OBVIOUS
<1>1. PICK ids : entities' = Add(ids) /\ Others \cap Ends(NewViews) \subseteq ids
  BY MergeFacts
<1>2. /\ step = "logs" /\ events' = events \cup NewViews
      /\ UNCHANGED <<byAddress, views>>
  BY MergeFacts
<1>3. DOMAIN entities' = DOMAIN entities \cup ids
  BY <1>1, AddFacts
<1>4. /\ \A i \in DOMAIN views : views[i][1] \in DOMAIN entities
      /\ \A x \in DOMAIN byAddress : byAddress[x] \in DOMAIN entities
  BY <1>2 DEF RegisteredInv, Registered, Phases
<1>5. ASSUME NEW e \in NewViews
      PROVE  e.src \in DOMAIN entities' /\ e.dst \in DOMAIN entities'
  <2>1. e.src \in Others => e.src \in ids
    BY <1>1 DEF Ends
  <2>2. e.dst \in Others => e.dst \in ids
    BY <1>1 DEF Ends
  <2>3. CASE \E p \in Pairs : e = PairEvent(p)
    BY <1>3, <1>4, <2>3, PairFacts
  <2>4. CASE \E i \in Singles : e = SingleEvent(i)
    <3>1. PICK i \in DOMAIN views : e = SingleEvent(i)
      BY <2>4 DEF Singles
    <3>2. CASE e.src = Resolve(View(i).from) /\ e.dst = views[i][1]
      <4>1. e.src \in DOMAIN entities \/ e.src \in Others
        BY <1>4, <3>2, ResolveFacts DEF Others
      <4> QED
        BY <1>3, <1>4, <2>1, <3>2, <4>1
    <3>3. CASE e.src = views[i][1] /\ e.dst \in {"svc", "world"}
      BY <1>3, <1>4, <2>2, <3>3 DEF Others
    <3> QED
      BY <3>1, <3>2, <3>3, SingleFacts
  <2> QED
    BY <2>3, <2>4 DEF NewViews
<1> QED
  BY <1>2, <1>3, <1>5, RegisteredParse DEF Phases

LEMMA RegisteredFlows == Typed /\ RegisteredInv /\ ParseFlows => RegisteredInv'
<1> SUFFICES ASSUME Typed, RegisteredInv, ParseFlows PROVE RegisteredInv'
  OBVIOUS
<1>1. PICK new, ids : /\ events' = events \cup new
                      /\ entities' = Add(ids) /\ Ends(new) \subseteq ids
  BY FlowsFacts
<1>2. step = "flows" /\ UNCHANGED <<byAddress, views>>
  BY FlowsFacts
<1>3. DOMAIN entities' = DOMAIN entities \cup ids
  BY <1>1, AddFacts
<1>4. \A e \in new : e.src \in DOMAIN entities' /\ e.dst \in DOMAIN entities'
  BY <1>1, <1>3 DEF Ends
<1> QED
  BY <1>1, <1>2, <1>3, <1>4, RegisteredParse DEF Phases

LEMMA RegisteredAudit == Typed /\ RegisteredInv /\ ParseAudit => RegisteredInv'
<1> SUFFICES ASSUME Typed, RegisteredInv, ParseAudit PROVE RegisteredInv'
  OBVIOUS
<1>1. PICK new, ids : /\ events' = events \cup new
                      /\ \A e \in new : \E n : AuditEvent(e, n)
                      /\ entities' = Add(ids)
  BY AuditsFacts
<1>2. step = "audit" /\ UNCHANGED <<byAddress, views>>
  BY AuditsFacts
<1>3. DOMAIN entities' = DOMAIN entities \cup ids
  BY <1>1, AddFacts
<1>4. \A e \in new : e.src \in DOMAIN entities' /\ e.dst \in DOMAIN entities'
  BY <1>1, <1>2, <1>3 DEF AuditEvent, RegisteredInv, Registered, Phases
<1> QED
  BY <1>1, <1>2, <1>3, <1>4, RegisteredParse DEF Phases

LEMMA RegisteredLabel == Typed /\ RegisteredInv /\ Label => RegisteredInv'
<1> SUFFICES ASSUME Typed, RegisteredInv, Label PROVE RegisteredInv'
  OBVIOUS
<1>1. /\ step = "label" /\ UNCHANGED <<entities, byAddress, views>>
      /\ \A e \in events' : \E d \in events : Relabeled(e, d)
  BY LabelFacts
<1>2. \A e \in events' : e.src \in DOMAIN entities /\ e.dst \in DOMAIN entities
  BY <1>1 DEF Relabeled, RegisteredInv, EndpointsAreEntities, Ends
<1> QED
  BY <1>1, <1>2 DEF RegisteredInv, Registered, EndpointsAreEntities, Ends, Phases

LEMMA RegisteredHolds == TelemetrySpec => []RegisteredInv
<1>1. Typed /\ RegisteredInv /\ [TelemetryNext]_vars => RegisteredInv'
  <2>1. RegisteredInv /\ UNCHANGED vars => RegisteredInv'
    BY DEF RegisteredInv, Registered, EndpointsAreEntities, Ends, vars, ingested
  <2> QED
    BY <2>1, Steps, RegisteredCapture, RegisteredReadSnapshot, RegisteredReadLog,
       RegisteredMerge, RegisteredFlows, RegisteredAudit, RegisteredLabel DEF IngestRun
<1> QED
  BY TypedHolds, RegisteredInit, <1>1, PTL DEF TelemetrySpec

(* Both ends of every event are entities of the run, however few pods the  *)
(* snapshots saw: the parsers register those that the resolver does not    *)
(* know (resolve.py:190-198, run_dir.py:58-66).                            *)
THEOREM EveryEndpointIsAnEntity == TelemetrySpec => []EndpointsAreEntities
<1>1. RegisteredInv => EndpointsAreEntities
  BY DEF RegisteredInv
<1> QED
  BY RegisteredHolds, <1>1, PTL

----------------------------------------------------------------------------
(* Lines and events                                                        *)

(* Where the lines of an event come from, and that no two events share one. *)
FilesSoFar ==
  {f \in Files : /\ f = "flows" => step \in {"audit", "label", "done"}
                 /\ f = "audit" => step \in {"label", "done"}}

Apart(es) ==
  /\ \A e \in es : e.id \in e.lines
  /\ \A e \in es : \A l \in e.lines : l[1] = e.id[1] \/ {l[1], e.id[1]} \subseteq Meshed
  /\ \A d, e \in es, l \in LineIds : l \in d.lines /\ l \in e.lines => d = e

OnceInv ==
  /\ Apart(events)
  /\ \A e \in events : e.id[1] \in FilesSoFar
  /\ step \in Merged => \A i \in DOMAIN views : \E e \in events : views[i] \in e.lines

(* Events have no other fields.                                            *)
LEMMA SameEvent ==
  ASSUME NEW d \in EventRecords, NEW e \in EventRecords,
         d.id = e.id, d.lines = e.lines, d.src = e.src, d.dst = e.dst, d.at = e.at,
         d.label = e.label
  PROVE  d = e
  BY DEF EventRecords

LEMMA OnceImplies == Typed /\ OnceInv => EveryViewOnce
<1> SUFFICES ASSUME Typed, OnceInv PROVE EveryViewOnce
  OBVIOUS
<1>1. ASSUME NEW d \in events, NEW e \in events, d.id = e.id PROVE d = e
  <2>1. d.id \in LineIds /\ d.id \in d.lines /\ d.id \in e.lines
    BY <1>1, EventsTyped DEF OnceInv, Apart, EventRecords
  <2> QED
    BY <2>1 DEF OnceInv, Apart
<1>2. ASSUME step \in Merged, NEW i \in DOMAIN views
      PROVE  Cardinality({e \in events : views[i] \in e.lines}) = 1
  <2>1. views[i] \in LineIds
    BY ViewFacts
  <2>2. PICK e \in events : views[i] \in e.lines
    BY <1>2 DEF OnceInv
  <2>3. {d \in events : views[i] \in d.lines} = {e}
    BY <2>1, <2>2 DEF OnceInv, Apart
  <2> QED
    BY <2>3, FS_Singleton
<1> QED
  BY <1>1, <1>2 DEF EveryViewOnce, Merged

(* The books hold one view of a request id in each direction.              *)
LEMMA BookedOnce ==
  ASSUME Typed, NEW i \in DOMAIN views, NEW j \in DOMAIN views, Booked(i), Booked(j),
         View(i).rid = View(j).rid, View(i).dir = View(j).dir
  PROVE  i = j
<1>1. DOMAIN views = 1..Len(views) /\ Len(views) \in Nat
  BY ViewFacts
<1>2. ~ (i \in 1..(j - 1))
  BY DEF Booked
<1>3. ~ (j \in 1..(i - 1))
  BY DEF Booked
<1> QED
  BY <1>1, <1>2, <1>3

(* A view is in one pair at most.                                          *)
LEMMA PairsMatch ==
  ASSUME Typed, NEW p \in Pairs, NEW q \in Pairs, {p[1], p[2]} \cap {q[1], q[2]} # {}
  PROVE  p = q
<1>1. /\ p[1] \in DOMAIN views /\ p[2] \in DOMAIN views /\ p = <<p[1], p[2]>>
      /\ View(p[1]).dir = "outbound" /\ View(p[2]).dir = "inbound"
      /\ View(p[1]).rid = View(p[2]).rid /\ Booked(p[1]) /\ Booked(p[2])
  BY DEF Pairs
<1>2. /\ q[1] \in DOMAIN views /\ q[2] \in DOMAIN views /\ q = <<q[1], q[2]>>
      /\ View(q[1]).dir = "outbound" /\ View(q[2]).dir = "inbound"
      /\ View(q[1]).rid = View(q[2]).rid /\ Booked(q[1]) /\ Booked(q[2])
  BY DEF Pairs
<1>3. p[1] = q[1] \/ p[2] = q[2]
  BY <1>1, <1>2
<1>4. View(p[1]).rid = View(q[1]).rid
  BY <1>1, <1>2, <1>3
<1>5. p[1] = q[1]
  BY <1>1, <1>2, <1>4, BookedOnce
<1>6. p[2] = q[2]
  <2>1. View(p[2]).rid = View(q[2]).rid /\ View(p[2]).dir = View(q[2]).dir
    BY <1>1, <1>2, <1>4
  <2> QED
    BY <1>1, <1>2, <2>1, BookedOnce
<1> QED
  BY <1>1, <1>2, <1>5, <1>6

(* Of which views an event is made.                                        *)
MadeOf(e, I) ==
  /\ I \subseteq DOMAIN views /\ e.lines = {views[i] : i \in I}
  /\ \/ \E p \in Pairs : e = PairEvent(p) /\ I = {p[1], p[2]}
     \/ \E i \in Singles : e = SingleEvent(i) /\ I = {i}

LEMMA NewViewsMade ==
  ASSUME Typed
  PROVE  /\ \A e \in NewViews : \E I : MadeOf(e, I)
         /\ \A i \in DOMAIN views : \E e \in NewViews : views[i] \in e.lines
<1>1. ASSUME NEW p \in Pairs
      PROVE  MadeOf(PairEvent(p), {p[1], p[2]}) /\ PairEvent(p) \in NewViews
  <2>1. PICK e : e = PairEvent(p)
    OBVIOUS
  <2>2. p[1] \in DOMAIN views /\ p[2] \in DOMAIN views /\ e.lines = {views[p[1]], views[p[2]]}
    BY <2>1, PairFacts
  <2>3. e.lines = {views[i] : i \in {p[1], p[2]}}
    BY <2>2
  <2> QED
    BY <2>1, <2>2, <2>3 DEF MadeOf, NewViews
<1>2. ASSUME NEW i \in Singles
      PROVE  MadeOf(SingleEvent(i), {i}) /\ SingleEvent(i) \in NewViews
  <2>1. PICK e : e = SingleEvent(i)
    OBVIOUS
  <2>2. i \in DOMAIN views /\ e.lines = {views[i]}
    BY <2>1, SingleFacts DEF Singles
  <2>3. e.lines = {views[j] : j \in {i}}
    BY <2>2
  <2> QED
    BY <2>1, <2>2, <2>3 DEF MadeOf, NewViews
<1>3. ASSUME NEW i \in DOMAIN views
      PROVE  \E e \in NewViews : views[i] \in e.lines
  <2>1. CASE i \in Singles
    BY <1>2, <2>1 DEF MadeOf
  <2>2. CASE i \notin Singles
    <3>1. PICK p \in Pairs : i \in {p[1], p[2]}
      BY <2>2 DEF Singles
    <3> QED
      BY <1>1, <3>1 DEF MadeOf
  <2> QED
    BY <2>1, <2>2
<1> QED
  BY <1>1, <1>2, <1>3 DEF NewViews

LEMMA MadeOfOnce ==
  ASSUME Typed, NEW d, NEW e, NEW I, NEW J, MadeOf(d, I), MadeOf(e, J), I \cap J # {}
  PROVE  d = e
<1>1. CASE \E p \in Pairs : d = PairEvent(p) /\ I = {p[1], p[2]}
  <2>1. PICK p \in Pairs : d = PairEvent(p) /\ I = {p[1], p[2]}
    BY <1>1
  <2>2. ~ (\E i \in Singles : J = {i})
    BY <2>1 DEF Singles
  <2>3. PICK q \in Pairs : e = PairEvent(q) /\ J = {q[1], q[2]}
    BY <2>2 DEF MadeOf
  <2>4. p = q
    BY <2>1, <2>3, PairsMatch
  <2> QED
    BY <2>1, <2>3, <2>4
<1>2. CASE \E i \in Singles : d = SingleEvent(i) /\ I = {i}
  <2>1. PICK i \in Singles : d = SingleEvent(i) /\ I = {i}
    BY <1>2
  <2>2. ~ (\E q \in Pairs : J = {q[1], q[2]})
    BY <2>1 DEF Singles
  <2>3. PICK j \in Singles : e = SingleEvent(j) /\ J = {j}
    BY <2>2 DEF MadeOf
  <2>4. i = j
    BY <2>1, <2>3
  <2> QED
    BY <2>1, <2>3, <2>4
<1> QED
  BY <1>1, <1>2 DEF MadeOf

LEMMA OnceMerge == Typed /\ OnceInv /\ MergeViews => OnceInv'
<1> SUFFICES ASSUME Typed, MergeViews PROVE OnceInv'
  OBVIOUS
<1>1. /\ step' = "flows" /\ events' = NewViews /\ NewViews \subseteq EventRecords
      /\ views' = views /\ UNCHANGED <<cluster, capture>>
  BY MergeFacts
<1>2. \A i, j \in DOMAIN views : views[i] = views[j] => i = j
  BY DEF Typed, LogsRead
<1>3. ASSUME NEW d \in NewViews, NEW e \in NewViews, NEW l, l \in d.lines, l \in e.lines
      PROVE  d = e
  <2>1. PICK I : MadeOf(d, I)
    BY NewViewsMade
  <2>2. PICK J : MadeOf(e, J)
    BY NewViewsMade
  <2>3. PICK i \in I : l = views[i]
    BY <1>3, <2>1 DEF MadeOf
  <2>4. PICK j \in J : l = views[j]
    BY <1>3, <2>2 DEF MadeOf
  <2>5. i = j
    BY <1>2, <2>1, <2>2, <2>3, <2>4 DEF MadeOf
  <2> QED
    BY <2>1, <2>2, <2>5, MadeOfOnce
<1>4. ASSUME NEW e \in NewViews
      PROVE  /\ e.id \in e.lines /\ e.id[1] \in Meshed
             /\ \A l \in e.lines : l[1] \in Meshed
  <2>1. CASE \E p \in Pairs : e = PairEvent(p)
    BY <2>1, PairFacts, ViewFacts
  <2>2. CASE \E i \in Singles : e = SingleEvent(i)
    <3>1. PICK i \in DOMAIN views : e = SingleEvent(i)
      BY <2>2 DEF Singles
    <3> QED
      BY <3>1, SingleFacts, ViewFacts
  <2> QED
    BY <2>1, <2>2 DEF NewViews
<1>5. Apart(events)'
  BY <1>1, <1>3, <1>4 DEF Apart
<1>6. \A e \in events' : e.id[1] \in FilesSoFar'
  BY <1>1, <1>4, NameFacts DEF FilesSoFar
<1> QED
  BY <1>1, <1>5, <1>6, NewViewsMade DEF OnceInv

(* A flow or an audited call makes one event, of its one line.             *)
LEMMA OneEvent ==
  ASSUME Typed, NEW d, NEW e, NEW m, NEW n, d.id = e.id,
         \/ FlowEvent(d, m) /\ FlowEvent(e, n)
         \/ AuditEvent(d, m) /\ AuditEvent(e, n)
  PROVE  d = e
<1>1. CASE FlowEvent(d, m) /\ FlowEvent(e, n)
  <2>1. d \in EventRecords /\ e \in EventRecords /\ d.lines = e.lines /\ d.label = e.label
    BY <1>1 DEF FlowEvent
  <2>2. m = n
    <3>1. <<"flows", m>> = <<"flows", n>>
      BY <1>1 DEF FlowEvent
    <3> QED
      BY <3>1
  <2>3. d.at = e.at
    BY <1>1, <2>2 DEF FlowEvent
  <2>4. d.src = e.src /\ d.dst = e.dst
    BY <1>1, <2>2 DEF FlowEvent
  <2> QED
    BY <2>1, <2>3, <2>4, SameEvent
<1>2. CASE AuditEvent(d, m) /\ AuditEvent(e, n)
  <2>1. d \in EventRecords /\ e \in EventRecords /\ d.lines = e.lines /\ d.label = e.label
    BY <1>2 DEF AuditEvent
  <2>2. m = n
    <3>1. <<"audit", m>> = <<"audit", n>>
      BY <1>2 DEF AuditEvent
    <3> QED
      BY <3>1
  <2>3. d.at = e.at /\ d.src = e.src /\ d.dst = e.dst
    BY <1>2, <2>2 DEF AuditEvent
  <2> QED
    BY <2>1, <2>3, SameEvent
<1> QED
  BY <1>1, <1>2

(* The events of a file whose lines were not read before.                  *)
LEMMA OnceAdds ==
  ASSUME Typed, OnceInv, NEW f \in {"flows", "audit"}, f \notin FilesSoFar,
         step \in Merged, FilesSoFar' = FilesSoFar \cup {f},
         UNCHANGED <<bound, views>>,
         NEW new, events' = events \cup new,
         \A e \in new : e.id \in LineIds /\ e.id[1] = f /\ e.lines = {e.id},
         \A d, e \in new : d.id = e.id => d = e
  PROVE  OnceInv'
<1>1. LineIds' = LineIds
  BY DEF LineIds
<1>2. \A e \in events : e.id[1] # f
  BY DEF OnceInv
<1>3. \A e \in events : \A l \in e.lines : l[1] # f
  BY <1>2, NameFacts DEF OnceInv, Apart
<1>4. ASSUME NEW d \in events', NEW e \in events', NEW l \in LineIds, l \in d.lines, l \in e.lines
      PROVE  d = e
  <2>1. CASE d \in events /\ e \in events
    BY <1>4, <2>1 DEF OnceInv, Apart
  <2>2. CASE d \in new /\ e \in new
    BY <1>4, <2>2
  <2>3. CASE d \in events /\ e \in new
    BY <1>3, <1>4, <2>3
  <2>4. CASE d \in new /\ e \in events
    BY <1>3, <1>4, <2>4
  <2> QED
    BY <2>1, <2>2, <2>3, <2>4
<1>5. ASSUME NEW e \in events'
      PROVE  /\ e.id \in e.lines
             /\ \A l \in e.lines : l[1] = e.id[1] \/ {l[1], e.id[1]} \subseteq Meshed
             /\ e.id[1] \in FilesSoFar'
  BY DEF OnceInv, Apart
<1>6. Apart(events)'
  BY <1>1, <1>4, <1>5 DEF Apart
<1> QED
  BY <1>5, <1>6 DEF OnceInv

LEMMA OnceFlows == Typed /\ OnceInv /\ ParseFlows => OnceInv'
<1> SUFFICES ASSUME Typed, OnceInv, ParseFlows PROVE OnceInv'
  OBVIOUS
<1>1. PICK new : events' = events \cup new /\ \A e \in new : \E n : FlowEvent(e, n)
  BY FlowsFacts
<1>2. step = "flows" /\ step' = "audit" /\ UNCHANGED <<bound, views>>
  BY FlowsFacts DEF cluster
<1>3. "flows" \notin FilesSoFar /\ step \in Merged /\ FilesSoFar' = FilesSoFar \cup {"flows"}
  BY <1>2, NameFacts DEF FilesSoFar, Merged
<1>4. ASSUME NEW e \in new
      PROVE  e.id \in LineIds /\ e.id[1] = "flows" /\ e.lines = {e.id}
  <2>1. PICK n : e \in EventRecords /\ e.id = <<"flows", n>> /\ e.lines = {<<"flows", n>>}
    BY <1>1 DEF FlowEvent
  <2> QED
    BY <2>1 DEF EventRecords
<1>5. \A d, e \in new : d.id = e.id => d = e
  BY <1>1, OneEvent
<1> QED
  BY <1>1, <1>2, <1>3, <1>4, <1>5, OnceAdds

LEMMA OnceAudit == Typed /\ OnceInv /\ ParseAudit => OnceInv'
<1> SUFFICES ASSUME Typed, OnceInv, ParseAudit PROVE OnceInv'
  OBVIOUS
<1>1. PICK new : events' = events \cup new /\ \A e \in new : \E n : AuditEvent(e, n)
  BY AuditsFacts
<1>2. step = "audit" /\ step' = "label" /\ UNCHANGED <<bound, views>>
  BY AuditsFacts DEF cluster
<1>3. "audit" \notin FilesSoFar /\ step \in Merged /\ FilesSoFar' = FilesSoFar \cup {"audit"}
  BY <1>2, NameFacts DEF FilesSoFar, Merged
<1>4. ASSUME NEW e \in new
      PROVE  e.id \in LineIds /\ e.id[1] = "audit" /\ e.lines = {e.id}
  <2>1. PICK n : e \in EventRecords /\ e.id = <<"audit", n>> /\ e.lines = {<<"audit", n>>}
    BY <1>1 DEF AuditEvent
  <2> QED
    BY <2>1 DEF EventRecords
<1>5. \A d, e \in new : d.id = e.id => d = e
  BY <1>1, OneEvent
<1> QED
  BY <1>1, <1>2, <1>3, <1>4, <1>5, OnceAdds

LEMMA OnceLabel == Typed /\ OnceInv /\ Label => OnceInv'
<1> SUFFICES ASSUME Typed, OnceInv, Label PROVE OnceInv'
  OBVIOUS
<1>1. /\ step = "label" /\ step' = "done" /\ views' = views /\ bound' = bound
      /\ \A e \in events' : \E d \in events : Relabeled(e, d)
      /\ \A d \in events : \E e \in events' : Relabeled(e, d)
      /\ \A e, f \in events' : \A d \in events : Relabeled(e, d) /\ Relabeled(f, d) => e = f
  BY LabelFacts DEF cluster
<1>2. LineIds' = LineIds /\ FilesSoFar' = FilesSoFar
  BY <1>1 DEF LineIds, FilesSoFar
<1>3. ASSUME NEW e \in events', NEW f \in events', NEW l \in LineIds, l \in e.lines, l \in f.lines
      PROVE  e = f
  <2>1. PICK d \in events : Relabeled(e, d)
    BY <1>1
  <2>2. PICK c \in events : Relabeled(f, c)
    BY <1>1
  <2>3. l \in c.lines /\ l \in d.lines
    BY <1>3, <2>1, <2>2 DEF Relabeled
  <2>4. c = d
    BY <2>3 DEF OnceInv, Apart
  <2> QED
    BY <1>1, <2>1, <2>2, <2>4
<1>4. ASSUME NEW e \in events'
      PROVE  /\ e.id \in e.lines
             /\ \A l \in e.lines : l[1] = e.id[1] \/ {l[1], e.id[1]} \subseteq Meshed
             /\ e.id[1] \in FilesSoFar
  <2>1. PICK d \in events : Relabeled(e, d)
    BY <1>1
  <2>2. d.id = e.id /\ d.lines = e.lines
    BY <2>1 DEF Relabeled
  <2>3. /\ d.id \in d.lines /\ d.id[1] \in FilesSoFar
        /\ \A l \in d.lines : l[1] = d.id[1] \/ {l[1], d.id[1]} \subseteq Meshed
    BY DEF OnceInv, Apart
  <2> QED
    BY <2>2, <2>3
<1>5. Apart(events)'
  BY <1>2, <1>3, <1>4 DEF Apart
<1>6. ASSUME NEW i \in DOMAIN views PROVE \E e \in events' : views[i] \in e.lines
  <2>1. PICK d \in events : views[i] \in d.lines
    BY <1>1 DEF OnceInv, Merged
  <2>2. PICK e \in events' : Relabeled(e, d)
    BY <1>1
  <2> QED
    BY <2>1, <2>2 DEF Relabeled
<1> QED
  BY <1>1, <1>2, <1>4, <1>5, <1>6 DEF OnceInv

(* Before the views are merged there are no events.                        *)
LEMMA OnceBefore == Typed' /\ step' \notin Merged => OnceInv'
<1> SUFFICES ASSUME Typed', step' \notin Merged PROVE OnceInv'
  OBVIOUS
<1>1. events' = {}
  BY DEF Typed, LogsRead
<1> QED
  BY <1>1 DEF OnceInv, Apart

LEMMA OnceHolds == TelemetrySpec => []OnceInv
<1>1. TelemetryInit => OnceInv
  BY DEF TelemetryInit, OnceInv, Apart, Merged
<1>2. Typed /\ OnceInv /\ [TelemetryNext]_vars => OnceInv'
  <2> SUFFICES ASSUME Typed, OnceInv, [TelemetryNext]_vars PROVE OnceInv'
    OBVIOUS
  <2>1. CASE UNCHANGED vars
    BY <2>1 DEF OnceInv, Apart, FilesSoFar, LineIds, vars, cluster, ingested
  <2>2. CASE CaptureStep
    <3>1. Typed' /\ step' \notin Merged
      BY <2>2, Steps, TypedStutters DEF CaptureStep, Phases, Merged
    <3> QED
      BY <3>1, OnceBefore
  <2>3. CASE ReadSnapshot \/ ReadLog
    <3>1. Typed' /\ step' \notin Merged
      BY <2>3, TypedReadSnapshot, TypedReadLog DEF ReadSnapshot, ReadLog, Merged
    <3> QED
      BY <3>1, OnceBefore
  <2> QED
    BY <2>1, <2>2, <2>3, Steps, OnceMerge, OnceFlows, OnceAudit, OnceLabel DEF IngestRun
<1> QED
  BY TypedHolds, <1>1, <1>2, PTL DEF TelemetrySpec

(* Every line of the access logs is part of exactly one event and no two   *)
(* events have the same id, for any number of lines and whatever ids they  *)
(* carry or repeat: the books hold one view of an id in each direction, so *)
(* a view is in one pair at most, and the others stand for themselves      *)
(* (envoy.py:137-176).                                                     *)
THEOREM EveryLineIsInOneEvent == TelemetrySpec => []EveryViewOnce
  BY TypedHolds, OnceHolds, OnceImplies, PTL

----------------------------------------------------------------------------
(* Requests and pairs                                                      *)

(* A line of a sidecar reports a request that was made, under its id if it *)
(* has one, and who wrote it took part.                                    *)
Reports(f, line, made) ==
  /\ line.call \in DOMAIN made
  /\ line.rid = IF made[line.call].hasId THEN line.call ELSE NoId
  /\ IF line.dir = "inbound" THEN f \in made[line.call].servers
                             ELSE f = made[line.call].client

CallsInv == \A f \in Meshed : \A k \in DOMAIN file[f] : Reports(f, file[f][k], calls)

(* A line that is appended reports its request, the others still do.       *)
LEMMA ReportsAppend ==
  ASSUME Typed, CallsInv, NEW f \in Meshed, NEW line \in CallLines,
         file'[f] = Append(file[f], line), Reports(f, line, calls'),
         \A k \in DOMAIN file[f] : Reports(f, file[f][k], calls')
  PROVE  \A k \in DOMAIN file'[f] : Reports(f, file'[f][k], calls')
<1>1. file[f] \in Seq(CallLines)
  BY DEF Typed, FilesTyped
<1>2. /\ DOMAIN file[f] = 1..Len(file[f]) /\ DOMAIN file'[f] = 1..(Len(file[f]) + 1)
      /\ Len(file[f]) \in Nat /\ file'[f][Len(file[f]) + 1] = line
      /\ \A k \in DOMAIN file[f] : file'[f][k] = file[f][k]
  BY <1>1, AppendFacts
<1>3. ASSUME NEW k \in DOMAIN file'[f] PROVE Reports(f, file'[f][k], calls')
  <2>1. CASE k \in DOMAIN file[f]
    BY <1>2, <2>1
  <2>2. CASE k \notin DOMAIN file[f]
    <3>1. k = Len(file[f]) + 1
      BY <1>2, <2>2
    <3> QED
      BY <1>2, <3>1
  <2> QED
    BY <2>1, <2>2
<1> QED
  BY <1>3

LEMMA CallsRequest ==
  ASSUME Typed, CallsInv, NEW client \in Pods, NEW servers \in SUBSET Meshed,
         NEW hasId \in BOOLEAN, NEW writers, Request(client, servers, hasId, writers)
  PROVE  CallsInv'
<1>0. PICK n, call : Requested(client, servers, hasId, writers, n, call)
  BY RequestFacts
<1>1. /\ calls' = Append(calls, call) /\ call \in CallRecords /\ n = Len(calls) + 1
      /\ call.client = client /\ call.servers = servers
      /\ writers \in SUBSET Meshed /\ writers \subseteq servers \cup {client}
      /\ \A f \in writers : /\ file'[f] = Append(file[f], Logged(f, n, call))
                            /\ Logged(f, n, call) \in CallLines
      /\ \A f \in Files \ writers : file'[f] = file[f]
  BY <1>0 DEF Requested
<1>2. /\ DOMAIN calls' = DOMAIN calls \cup {n} /\ calls'[n] = call
      /\ \A m \in DOMAIN calls : calls'[m] = calls[m]
  <2>1. calls \in Seq(CallRecords)
    BY DEF Typed, FilesTyped
  <2>2. /\ DOMAIN calls = 1..Len(calls) /\ DOMAIN calls' = 1..(Len(calls) + 1)
        /\ Len(calls) \in Nat /\ calls'[Len(calls) + 1] = call
        /\ \A m \in DOMAIN calls : calls'[m] = calls[m]
    BY <1>1, <2>1, AppendFacts
  <2> QED
    BY <1>1, <2>2
<1>3. ASSUME NEW f \in Meshed, NEW k \in DOMAIN file[f]
      PROVE  Reports(f, file[f][k], calls')
  BY <1>2 DEF CallsInv, Reports
<1>4. ASSUME NEW f \in writers PROVE Reports(f, Logged(f, n, call), calls')
  <2>1. /\ Logged(f, n, call).call = n /\ Logged(f, n, call).dir = Direction(f, call)
        /\ Logged(f, n, call).rid = IF call.hasId THEN n ELSE NoId
    BY DEF Logged, CallLine
  <2>2. IF Direction(f, call) = "inbound" THEN f \in call.servers ELSE f = call.client
    BY <1>1 DEF Direction
  <2> QED
    BY <1>2, <2>1, <2>2 DEF Reports
<1>5. ASSUME NEW f \in Meshed PROVE \A k \in DOMAIN file'[f] : Reports(f, file'[f][k], calls')
  <2>1. CASE f \in writers
    <3>1. PICK line \in CallLines : file'[f] = Append(file[f], line) /\ Reports(f, line, calls')
      BY <1>1, <1>4, <2>1
    <3> QED
      BY <1>3, <3>1, ReportsAppend
  <2>2. CASE f \notin writers
    BY <1>1, <1>3, <2>2, NameFacts
  <2> QED
    BY <2>1, <2>2
<1> QED
  BY <1>5 DEF CallsInv

LEMMA CallsRetry ==
  ASSUME Typed, CallsInv, NEW n \in DOMAIN calls, NEW server \in Meshed, Retry(n, server)
  PROVE  CallsInv'
<1>1. /\ DOMAIN calls' = DOMAIN calls
      /\ \A m \in DOMAIN calls :
           /\ calls'[m].client = calls[m].client /\ calls'[m].hasId = calls[m].hasId
           /\ calls'[m].servers = IF m = n THEN calls[m].servers \cup {server}
                                           ELSE calls[m].servers
      /\ file'[server] = Append(file[server], CallLine(n, calls[n], "inbound"))
      /\ CallLine(n, calls[n], "inbound") \in CallLines
      /\ \A f \in Files \ {server} : file'[f] = file[f]
  BY RetryFacts
<1>2. ASSUME NEW f \in Meshed, NEW k \in DOMAIN file[f]
      PROVE  Reports(f, file[f][k], calls')
  <2>1. PICK line : line = file[f][k]
    OBVIOUS
  <2>2. Reports(f, line, calls)
    BY <2>1 DEF CallsInv
  <2>3. PICK m \in DOMAIN calls : m = line.call
    BY <2>2 DEF Reports
  <2>4. /\ m \in DOMAIN calls' /\ calls'[m].client = calls[m].client
        /\ calls'[m].hasId = calls[m].hasId /\ calls[m].servers \subseteq calls'[m].servers
    BY <1>1
  <2>5. Reports(f, line, calls')
    BY <2>2, <2>3, <2>4 DEF Reports
  <2> QED
    BY <2>1, <2>5
<1>3. Reports(server, CallLine(n, calls[n], "inbound"), calls')
  <2>1. /\ CallLine(n, calls[n], "inbound").call = n
        /\ CallLine(n, calls[n], "inbound").dir = "inbound"
        /\ CallLine(n, calls[n], "inbound").rid = IF calls[n].hasId THEN n ELSE NoId
    BY DEF CallLine
  <2> QED
    BY <1>1, <2>1 DEF Reports
<1>4. ASSUME NEW f \in Meshed PROVE \A k \in DOMAIN file'[f] : Reports(f, file'[f][k], calls')
  <2>1. CASE f = server
    <3>1. PICK line \in CallLines : file'[f] = Append(file[f], line) /\ Reports(f, line, calls')
      BY <1>1, <1>3, <2>1
    <3> QED
      BY <1>2, <3>1, ReportsAppend
  <2>2. CASE f # server
    BY <1>1, <1>2, <2>2, NameFacts
  <2> QED
    BY <2>1, <2>2
<1> QED
  BY <1>4 DEF CallsInv

(* The other steps leave the requests and their lines as they are.         *)
SameCalls == calls' = calls /\ \A f \in Meshed : file'[f] = file[f]

Requests ==
  \/ \E client \in Pods, servers \in SUBSET Meshed, hasId \in BOOLEAN, writers \in SUBSET Meshed :
       Request(client, servers, hasId, writers)
  \/ \E n \in DOMAIN calls, server \in Meshed : Retry(n, server)

LEMMA RequestsOrNot ==
  ASSUME Typed, [TelemetryNext]_vars
  PROVE  Requests \/ SameCalls
<1>1. CASE UNCHANGED vars
  BY <1>1 DEF vars, cluster, capture, SameCalls
<1>2. ASSUME NEW p \in Pods, Vanish(p) PROVE SameCalls
  BY <1>2 DEF Vanish, capture, SameCalls
<1>3. ASSUME NEW p \in Pods, NEW x \in Addresses, GetsAddress(p, x) PROVE SameCalls
  BY <1>3 DEF GetsAddress, capture, SameCalls
<1>4. ASSUME NEW kind, NEW src, NEW dst, Flow(kind, src, dst) PROVE SameCalls
  BY <1>4, NameFacts DEF Flow, cluster, SameCalls, Typed, TelemetryTypeOK
<1>5. ASSUME NEW by, NEW from, Audit(by, from) PROVE SameCalls
  BY <1>5, NameFacts DEF Audit, cluster, SameCalls, Typed, TelemetryTypeOK
<1>6. SessionStarts => SameCalls
  BY DEF SessionStarts, cluster, capture, SameCalls
<1>7. ASSUME NEW byNamespace, NEW window, SessionEnds(byNamespace, window) PROVE SameCalls
  BY <1>7 DEF SessionEnds, cluster, SameCalls
<1>8. ASSUME NEW withEnd, Collect(withEnd) PROVE SameCalls
  BY <1>8 DEF Collect, cluster, SameCalls
<1>9. IngestRun => SameCalls
  BY DEF IngestRun, ReadSnapshot, ReadLog, MergeViews, ParseFlows, ParseAudit, Label,
         cluster, capture, SameCalls
<1>10. ASSUME NEW client \in Pods, NEW servers \in {{}} \cup {{p} : p \in Meshed},
              NEW hasId \in BOOLEAN, NEW writers \in SUBSET Meshed,
              Request(client, servers, hasId, writers)
       PROVE  Requests
  <2>1. servers \in SUBSET Meshed
    OBVIOUS
  <2> QED
    BY <1>10, <2>1 DEF Requests
<1>11. ASSUME NEW n \in DOMAIN calls, NEW server \in Meshed, Retry(n, server) PROVE Requests
  BY <1>11 DEF Requests
<1> QED
  BY <1>1, <1>2, <1>3, <1>4, <1>5, <1>6, <1>7, <1>8, <1>9, <1>10, <1>11 DEF TelemetryNext

LEMMA CallsHold == TelemetrySpec => []CallsInv
<1>1. TelemetryInit => CallsInv
  BY NameFacts DEF TelemetryInit, CallsInv
<1>2. Typed /\ CallsInv /\ [TelemetryNext]_vars => CallsInv'
  <2>1. CallsInv /\ SameCalls => CallsInv'
    BY DEF CallsInv, SameCalls
  <2> QED
    BY <2>1, RequestsOrNot, CallsRequest, CallsRetry DEF Requests
<1> QED
  BY TypedHolds, <1>1, <1>2, PTL DEF TelemetrySpec

(* The lines of one side of a request, an event of two views with one of   *)
(* the client's among them, and what such an event should say.             *)
Side(n, d) == {l \in Written : l[1] \in Meshed /\ Line(l).call = n /\ Line(l).dir = d}

TwoSided(e, n) == e.lines \cap Side(n, "outbound") # {} /\ Cardinality(e.lines) = 2

PairOf(e, n) ==
  /\ \A l \in e.lines : Line(l).call = n
  /\ e.src = calls[n].client /\ e.dst \in calls[n].servers

PairsInv ==
  step \in Merged =>
    /\ \A e \in events : Cardinality(e.lines) = 2 => \E n \in DOMAIN calls : PairOf(e, n)
    /\ \A n \in DOMAIN calls :
         calls[n].hasId /\ Side(n, "outbound") # {} /\ Side(n, "inbound") # {} =>
           \E e \in events : TwoSided(e, n)
    /\ \A n \in DOMAIN calls : calls[n].hasId =>
         \A d, e \in events : TwoSided(d, n) /\ TwoSided(e, n) => d = e

LEMMA PairsImply == PairsInv => RequestsArePairs
<1> SUFFICES ASSUME PairsInv, step \in Merged PROVE RequestsArePairs
  BY DEF RequestsArePairs, Merged
<1>1. ASSUME NEW n \in DOMAIN calls, calls[n].hasId,
             Side(n, "outbound") # {}, Side(n, "inbound") # {}
      PROVE  Cardinality({e \in events : TwoSided(e, n)}) = 1
  <2>1. PICK e \in events : TwoSided(e, n)
    BY <1>1 DEF PairsInv
  <2>2. {d \in events : TwoSided(d, n)} = {e}
    BY <1>1, <2>1 DEF PairsInv
  <2> QED
    BY <2>2, FS_Singleton
<1>2. \A e \in events : Cardinality(e.lines) = 2 =>
        \E n \in DOMAIN calls : /\ \A l \in e.lines : Line(l).call = n
                                /\ e.src = calls[n].client /\ e.dst \in calls[n].servers
  BY DEF PairsInv, PairOf
<1> QED
  BY <1>1, <1>2 DEF RequestsArePairs, TwoSided, Side

LEMMA Least ==
  ASSUME NEW S \in SUBSET Nat, S # {}
  PROVE  \E m \in S : \A x \in S : m <= x
<1> DEFINE R == {p \in Nat \X Nat : p[1] < p[2]}
<1>1. IsWellFoundedOn(R, Nat)
  BY NatLessThanWellFounded DEF OpToRel
<1>2. PICK m \in S : \A x \in S : ~ (<<x, m>> \in R)
  BY <1>1, WFMin
<1>3. ASSUME NEW x \in S PROVE ~ (x < m)
  BY <1>2
<1>4. \A x \in S : x \in Nat /\ m \in Nat
  OBVIOUS
<1> HIDE DEF R
<1> QED
  BY <1>3, <1>4

(* Of the views of an id in a direction the first one is in the book.      *)
LEMMA FirstBooked ==
  ASSUME Typed, NEW i \in DOMAIN views, View(i).dir # "unknown", View(i).rid # NoId
  PROVE  \E j \in DOMAIN views :
           Booked(j) /\ View(j).rid = View(i).rid /\ View(j).dir = View(i).dir
<1>1. DOMAIN views = 1..Len(views) /\ Len(views) \in Nat
  BY ViewFacts
<1> DEFINE S == {j \in DOMAIN views : View(j).rid = View(i).rid /\ View(j).dir = View(i).dir}
<1>2. S \in SUBSET Nat /\ S # {}
  BY <1>1
<1>3. PICK j \in S : \A x \in S : j <= x
  BY <1>2, Least
<1>4. \A k \in 1..(j - 1) : k \in DOMAIN views /\ ~ (j <= k)
  BY <1>1
<1>5. Booked(j)
  BY <1>3, <1>4 DEF Booked
<1> QED
  BY <1>5

(* What a view says of its request.                                        *)
LEMMA ViewReports ==
  ASSUME Typed, CallsInv, NEW i \in DOMAIN views
  PROVE  /\ Reports(views[i][1], View(i), calls)
         /\ View(i).call \in DOMAIN calls
         /\ View(i).rid # NoId => View(i).rid = View(i).call
         /\ calls[View(i).call].hasId => View(i).rid = View(i).call /\ View(i).rid # NoId
<1>1. /\ views[i][1] \in Meshed /\ views[i][2] \in DOMAIN file[views[i][1]]
      /\ View(i) = file[views[i][1]][views[i][2]]
  BY ViewFacts DEF View, Line
<1>2. Reports(views[i][1], View(i), calls)
  BY <1>1 DEF CallsInv
<1>3. \A n \in DOMAIN calls : n # NoId
  <2>1. calls \in Seq(CallRecords)
    BY DEF Typed, FilesTyped
  <2> QED
    BY <2>1 DEF NoId
<1> QED
  BY <1>2, <1>3 DEF Reports

LEMMA PairSize == ASSUME NEW x, NEW y, x # y PROVE Cardinality({x, y}) = 2
<1>1. IsFiniteSet({x}) /\ Cardinality({x}) = 1
  BY FS_Singleton
<1>2. Cardinality({x} \cup {y}) = Cardinality({x}) + 1
  BY <1>1, FS_AddElement
<1>3. {x} \cup {y} = {x, y}
  OBVIOUS
<1> QED
  BY <1>1, <1>2, <1>3

LEMMA PairTruth ==
  ASSUME Typed, CallsInv, NEW p \in Pairs, NEW e, e = PairEvent(p)
  PROVE  /\ View(p[1]).rid \in DOMAIN calls /\ PairOf(e, View(p[1]).rid)
         /\ Cardinality(e.lines) = 2
         /\ \A l \in e.lines : Line(l).dir = "outbound" => l = views[p[1]]
<1>1. /\ p[1] \in DOMAIN views /\ p[2] \in DOMAIN views
      /\ View(p[1]).dir = "outbound" /\ View(p[2]).dir = "inbound"
      /\ View(p[1]).rid = View(p[2]).rid /\ Booked(p[1])
      /\ e.lines = {views[p[1]], views[p[2]]}
      /\ e.src = views[p[1]][1] /\ e.dst = views[p[2]][1]
  BY PairFacts
<1>2. PICK n : n = View(p[1]).rid
  OBVIOUS
<1>3. n # NoId /\ View(p[1]).call = n /\ View(p[2]).call = n /\ n \in DOMAIN calls
  BY <1>1, <1>2, ViewReports DEF Booked
<1>4. e.src = calls[n].client
  <2>1. Reports(views[p[1]][1], View(p[1]), calls)
    BY <1>1, ViewReports
  <2> QED
    BY <1>1, <1>3, <2>1 DEF Reports
<1>5. e.dst \in calls[n].servers
  <2>1. Reports(views[p[2]][1], View(p[2]), calls)
    BY <1>1, ViewReports
  <2> QED
    BY <1>1, <1>3, <2>1 DEF Reports
<1>6. \A l \in e.lines : Line(l).call = n
  BY <1>1, <1>3 DEF View
<1>7. \A l \in e.lines : Line(l).dir = "outbound" => l = views[p[1]]
  BY <1>1 DEF View
<1>8. views[p[1]] # views[p[2]]
  BY <1>1 DEF View
<1>9. Cardinality(e.lines) = 2
  <2>1. PICK x, y : x = views[p[1]] /\ y = views[p[2]]
    OBVIOUS
  <2>2. x # y /\ e.lines = {x, y}
    BY <1>1, <1>8, <2>1
  <2>3. Cardinality({x, y}) = 2
    BY <2>2, PairSize
  <2> QED
    BY <2>2, <2>3
<1>10. PairOf(e, n)
  BY <1>4, <1>5, <1>6 DEF PairOf
<1> QED
  BY <1>2, <1>3, <1>7, <1>9, <1>10

(* An event of two views is a pair.                                        *)
LEMMA TwoViews ==
  ASSUME Typed, NEW e \in NewViews, Cardinality(e.lines) = 2
  PROVE  \E p \in Pairs : e = PairEvent(p)
<1>1. ASSUME NEW i \in Singles, e = SingleEvent(i) PROVE FALSE
  <2>1. e.lines = {views[i]}
    BY <1>1, SingleFacts DEF Singles
  <2>2. Cardinality(e.lines) = 1
    BY <2>1, FS_Singleton
  <2> QED
    BY <2>2
<1> QED
  BY <1>1 DEF NewViews

(* A side whose lines were read has a view in the book.                    *)
LEMMA SideBooked ==
  ASSUME Typed, CallsInv, todo = <<>>, NEW n \in DOMAIN calls, calls[n].hasId,
         NEW d \in {"outbound", "inbound"}, Side(n, d) # {}
  PROVE  \E j \in DOMAIN views : Booked(j) /\ View(j).rid = n /\ View(j).dir = d
<1>1. PICK l \in Written : l[1] \in Meshed /\ Line(l).call = n /\ Line(l).dir = d
  BY DEF Side
<1>2. PICK f \in Meshed, k \in Nat : l = <<f, k>> /\ k \in 1..Len(file[f])
  <2>1. bound.lines \in Nat
    BY BoundFacts DEF Typed, TelemetryTypeOK
  <2>2. PICK f \in Files, k \in 1..bound.lines : l = <<f, k>>
    BY DEF Written, LineIds
  <2>3. f \in Meshed /\ k <= Len(file[f]) /\ Len(file[f]) \in Nat
    BY <1>1, <2>2, LenFacts DEF Written, Typed
  <2> QED
    BY <2>1, <2>2, <2>3
<1>3. PICK i \in DOMAIN views : views[i] = l
  BY <1>2 DEF Typed, LogsRead
<1>4. View(i).call = n /\ View(i).dir = d
  BY <1>1, <1>3 DEF View
<1>5. View(i).rid = n /\ View(i).rid # NoId
  BY <1>4, ViewReports
<1> QED
  BY <1>4, <1>5, FirstBooked

LEMMA ViewOnSide ==
  ASSUME Typed, NEW i \in DOMAIN views
  PROVE  views[i] \in Side(View(i).call, View(i).dir)
<1>1. /\ views[i] \in LineIds /\ views[i][1] \in Meshed
      /\ views[i][2] \in DOMAIN file[views[i][1]]
  BY ViewFacts
<1>2. views[i][2] <= Len(file[views[i][1]])
  <2>1. file[views[i][1]] \in Seq(CallLines)
    BY <1>1 DEF Typed, FilesTyped
  <2> QED
    BY <1>1, <2>1
<1> QED
  BY <1>1, <1>2 DEF Side, Written, View

LEMMA PairsMerge == Typed /\ CallsInv /\ MergeViews => PairsInv'
<1> SUFFICES ASSUME Typed, CallsInv, MergeViews PROVE PairsInv'
  OBVIOUS
<1>1. /\ events' = NewViews /\ todo = <<>>
      /\ UNCHANGED <<bound, calls, file>>
  BY MergeFacts DEF cluster, capture
<1>2. ASSUME NEW e \in NewViews, Cardinality(e.lines) = 2
      PROVE  \E n \in DOMAIN calls : PairOf(e, n)
  BY <1>2, TwoViews, PairTruth
<1>3. ASSUME NEW n \in DOMAIN calls, calls[n].hasId,
             Side(n, "outbound") # {}, Side(n, "inbound") # {}
      PROVE  \E e \in NewViews : TwoSided(e, n)
  <2>1. PICK i \in DOMAIN views : Booked(i) /\ View(i).rid = n /\ View(i).dir = "outbound"
    BY <1>1, <1>3, SideBooked
  <2>2. PICK j \in DOMAIN views : Booked(j) /\ View(j).rid = n /\ View(j).dir = "inbound"
    BY <1>1, <1>3, SideBooked
  <2>3. PICK p \in Pairs : p[1] = i
    <3>1. <<i, j>> \in Pairs
      BY <2>1, <2>2 DEF Pairs
    <3> QED
      BY <3>1
  <2>4. PICK e \in NewViews : e = PairEvent(p)
    BY DEF NewViews
  <2>5. views[i] \in e.lines /\ Cardinality(e.lines) = 2
    BY <2>3, <2>4, PairFacts, PairTruth
  <2>6. View(i).call = n
    BY <2>1, ViewReports DEF Booked
  <2>7. views[i] \in Side(n, "outbound")
    BY <2>1, <2>6, ViewOnSide
  <2> QED
    BY <2>5, <2>7 DEF TwoSided
<1>4. ASSUME NEW n \in DOMAIN calls, calls[n].hasId, NEW e \in NewViews, TwoSided(e, n)
      PROVE  \E p \in Pairs : e = PairEvent(p) /\ View(p[1]).rid = n
  <2>1. PICK p \in Pairs : e = PairEvent(p)
    BY <1>4, TwoViews DEF TwoSided
  <2>2. PICK l \in e.lines : Line(l).call = n /\ Line(l).dir = "outbound"
    BY <1>4 DEF TwoSided, Side
  <2>3. l = views[p[1]] /\ p[1] \in DOMAIN views
    BY <2>1, <2>2, PairTruth, PairFacts
  <2>4. View(p[1]).call = n
    BY <2>2, <2>3 DEF View
  <2> QED
    BY <1>4, <2>1, <2>3, <2>4, ViewReports
<1>5. ASSUME NEW n \in DOMAIN calls, calls[n].hasId,
             NEW d \in NewViews, NEW e \in NewViews, TwoSided(d, n), TwoSided(e, n)
      PROVE  d = e
  <2>1. PICK p \in Pairs : d = PairEvent(p) /\ View(p[1]).rid = n
    BY <1>4, <1>5
  <2>2. PICK q \in Pairs : e = PairEvent(q) /\ View(q[1]).rid = n
    BY <1>4, <1>5
  <2>3. p[1] = q[1]
    BY <2>1, <2>2, BookedOnce DEF Pairs
  <2>4. p = q
    BY <2>3, PairsMatch
  <2> QED
    BY <2>1, <2>2, <2>4
<1>6. ASSUME NEW e, NEW n
      PROVE  /\ TwoSided(e, n)' <=> TwoSided(e, n)
             /\ PairOf(e, n)' <=> PairOf(e, n)
  BY <1>1 DEF TwoSided, PairOf, Side, Written, LineIds, Line
<1>7. ASSUME NEW n, NEW d PROVE Side(n, d)' = Side(n, d)
  BY <1>1 DEF Side, Written, LineIds, Line
<1> QED
  BY <1>1, <1>2, <1>3, <1>5, <1>6, <1>7 DEF PairsInv

(* A step that leaves the capture and, but for events of one line and for  *)
(* labels, the events as they are.                                         *)
LEMMA PairsKept ==
  ASSUME PairsInv, step \in Merged, UNCHANGED <<bound, calls, file>>,
         \A e \in events' : Cardinality(e.lines) = 2 =>
           \E d \in events : d.lines = e.lines /\ d.src = e.src /\ d.dst = e.dst,
         \A d \in events : \E e \in events' : d.lines = e.lines,
         \A d, e \in events' : d.lines = e.lines /\ Cardinality(e.lines) = 2 => d = e,
         \A d, e \in events : d.lines = e.lines /\ Cardinality(e.lines) = 2 => d = e
  PROVE  PairsInv'
<1>1. ASSUME NEW n, NEW d PROVE Side(n, d)' = Side(n, d)
  BY DEF Side, Written, LineIds, Line
<1>2. ASSUME NEW e, NEW n PROVE TwoSided(e, n)' <=> TwoSided(e, n)
  BY <1>1 DEF TwoSided
<1>3. ASSUME NEW e \in events', Cardinality(e.lines) = 2
      PROVE  \E n \in DOMAIN calls : PairOf(e, n)'
  <2>1. PICK d \in events : d.lines = e.lines /\ d.src = e.src /\ d.dst = e.dst
    BY <1>3
  <2>2. PICK n \in DOMAIN calls : PairOf(d, n)
    BY <1>3, <2>1 DEF PairsInv
  <2>3. PairOf(e, n)'
    BY <2>1, <2>2 DEF PairOf, Line
  <2> QED
    BY <2>3
<1>4. ASSUME NEW n \in DOMAIN calls, calls[n].hasId,
             Side(n, "outbound") # {}, Side(n, "inbound") # {}
      PROVE  \E e \in events' : TwoSided(e, n)
  <2>1. PICK d \in events : TwoSided(d, n)
    BY <1>4 DEF PairsInv
  <2>2. PICK e \in events' : d.lines = e.lines
    OBVIOUS
  <2> QED
    BY <2>1, <2>2 DEF TwoSided
<1>5. ASSUME NEW n \in DOMAIN calls, calls[n].hasId, NEW d \in events', NEW e \in events',
             TwoSided(d, n), TwoSided(e, n)
      PROVE  d = e
  <2>1. PICK c \in events : c.lines = d.lines
    BY <1>5 DEF TwoSided
  <2>2. PICK b \in events : b.lines = e.lines
    BY <1>5 DEF TwoSided
  <2>3. TwoSided(c, n) /\ TwoSided(b, n)
    BY <1>5, <2>1, <2>2 DEF TwoSided
  <2>4. b = c
    BY <1>5, <2>3 DEF PairsInv
  <2>5. d.lines = e.lines /\ Cardinality(e.lines) = 2
    BY <1>5, <2>1, <2>2, <2>4 DEF TwoSided
  <2> QED
    BY <2>5
<1> QED
  BY <1>1, <1>2, <1>3, <1>4, <1>5 DEF PairsInv

(* Two events of two views are made of different ones.                     *)
LEMMA OfTwoViews ==
  ASSUME Typed, OnceInv, NEW d \in events, NEW e \in events, d.lines = e.lines
  PROVE  d = e
<1>1. e.id \in LineIds
  BY EventsTyped DEF EventRecords
<1> QED
  BY <1>1 DEF OnceInv, Apart

LEMMA PairsAdds ==
  ASSUME Typed, OnceInv, (Typed /\ OnceInv)', PairsInv, step \in Merged,
         UNCHANGED <<bound, calls, file>>, NEW new, events' = events \cup new,
         \A e \in new : Cardinality(e.lines) = 1
  PROVE  PairsInv'
<1>1. \A d, e \in events : d.lines = e.lines => d = e
  BY OfTwoViews
<1>2. ASSUME NEW d \in events', NEW e \in events', d.lines = e.lines, Cardinality(e.lines) = 2
      PROVE  d = e
  <2>1. d \notin new /\ e \notin new
    BY <1>2
  <2> QED
    BY <1>1, <1>2, <2>1
<1>3. \A e \in events' : Cardinality(e.lines) = 2 => e \in events
  OBVIOUS
<1> QED
  BY <1>1, <1>2, <1>3, PairsKept

LEMMA PairsFlows == (Typed /\ OnceInv)' /\ Typed /\ OnceInv /\ PairsInv /\ ParseFlows => PairsInv'
<1> SUFFICES ASSUME (Typed /\ OnceInv)', Typed, OnceInv, PairsInv, ParseFlows PROVE PairsInv'
  OBVIOUS
<1>1. PICK new : events' = events \cup new /\ \A e \in new : \E n : FlowEvent(e, n)
  BY FlowsFacts
<1>2. step \in Merged /\ UNCHANGED <<bound, calls, file>>
  BY FlowsFacts DEF cluster, capture, Merged
<1>3. ASSUME NEW e \in new PROVE Cardinality(e.lines) = 1
  <2>1. PICK n : e.lines = {<<"flows", n>>}
    BY <1>1 DEF FlowEvent
  <2>2. Cardinality({<<"flows", n>>}) = 1
    BY FS_Singleton
  <2> QED
    BY <2>1, <2>2
<1> QED
  BY <1>1, <1>2, <1>3, PairsAdds

LEMMA PairsAudit == (Typed /\ OnceInv)' /\ Typed /\ OnceInv /\ PairsInv /\ ParseAudit => PairsInv'
<1> SUFFICES ASSUME (Typed /\ OnceInv)', Typed, OnceInv, PairsInv, ParseAudit PROVE PairsInv'
  OBVIOUS
<1>1. PICK new : events' = events \cup new /\ \A e \in new : \E n : AuditEvent(e, n)
  BY AuditsFacts
<1>2. step \in Merged /\ UNCHANGED <<bound, calls, file>>
  BY AuditsFacts DEF cluster, capture, Merged
<1>3. ASSUME NEW e \in new PROVE Cardinality(e.lines) = 1
  <2>1. PICK n : e.lines = {<<"audit", n>>}
    BY <1>1 DEF AuditEvent
  <2>2. Cardinality({<<"audit", n>>}) = 1
    BY FS_Singleton
  <2> QED
    BY <2>1, <2>2
<1> QED
  BY <1>1, <1>2, <1>3, PairsAdds

LEMMA PairsLabel == (Typed /\ OnceInv)' /\ Typed /\ OnceInv /\ PairsInv /\ Label => PairsInv'
<1> SUFFICES ASSUME (Typed /\ OnceInv)', Typed, OnceInv, PairsInv, Label PROVE PairsInv'
  OBVIOUS
<1>1. /\ \A e \in events' : \E d \in events : Relabeled(e, d)
      /\ \A d \in events : \E e \in events' : Relabeled(e, d)
      /\ \A e, f \in events' : \A d \in events : Relabeled(e, d) /\ Relabeled(f, d) => e = f
  BY LabelFacts
<1>2. step \in Merged /\ UNCHANGED <<bound, calls, file>>
  BY LabelFacts DEF cluster, capture, Merged
<1>3. \A d, e \in events : d.lines = e.lines => d = e
  BY OfTwoViews
<1>4. ASSUME NEW e \in events', NEW f \in events', e.lines = f.lines PROVE e = f
  <2>1. PICK d \in events : Relabeled(e, d)
    BY <1>1
  <2>2. PICK c \in events : Relabeled(f, c)
    BY <1>1
  <2>3. c = d
    BY <1>3, <1>4, <2>1, <2>2 DEF Relabeled
  <2> QED
    BY <1>1, <2>1, <2>2, <2>3
<1>5. \A e \in events' : \E d \in events : d.lines = e.lines /\ d.src = e.src /\ d.dst = e.dst
  BY <1>1 DEF Relabeled
<1>6. \A d \in events : \E e \in events' : d.lines = e.lines
  BY <1>1 DEF Relabeled
<1> QED
  BY <1>2, <1>3, <1>4, <1>5, <1>6, PairsKept

LEMMA PairsHold == TelemetrySpec => []PairsInv
<1>1. TelemetryInit => PairsInv
  BY DEF TelemetryInit, PairsInv, Merged
<1>2. /\ Typed /\ OnceInv /\ CallsInv /\ PairsInv /\ [TelemetryNext]_vars
      /\ (Typed /\ OnceInv)'
      => PairsInv'
  <2> SUFFICES ASSUME Typed, OnceInv, CallsInv, PairsInv, [TelemetryNext]_vars,
                      (Typed /\ OnceInv)'
               PROVE  PairsInv'
    OBVIOUS
  <2>1. CASE UNCHANGED vars
    <3>1. UNCHANGED <<bound, step, calls, file, events>>
      BY <2>1 DEF vars, cluster, capture, ingested
    <3> QED
      BY <3>1 DEF PairsInv, PairOf, TwoSided, Side, Written, LineIds, Line
  <2>2. CASE CaptureStep
    BY <2>2 DEF CaptureStep, Phases, Merged, PairsInv
  <2>3. CASE ReadSnapshot \/ ReadLog
    BY <2>3 DEF ReadSnapshot, ReadLog, Merged, PairsInv
  <2> QED
    BY <2>1, <2>2, <2>3, Steps, PairsMerge, PairsFlows, PairsAudit, PairsLabel DEF IngestRun
<1> QED
  BY TypedHolds, OnceHolds, CallsHold, <1>1, <1>2, PTL DEF TelemetrySpec

(* A request with an id that both sides logged becomes one event of two    *)
(* views from its client to a server it was sent to, and an event of two   *)
(* views is such a request: for any number of requests, retries and lost   *)
(* lines, in whatever order the logs are read (envoy.py:147-156).          *)
THEOREM PairsAreRequests == TelemetrySpec => []RequestsArePairs
  BY PairsHold, PairsImply, PTL

----------------------------------------------------------------------------
(* Blame                                                                   *)

(* An address that a snapshot has of a pod is the one the pod keeps until  *)
(* it is gone.                                                             *)
Seen(snap, p) == p \in DOMAIN snap /\ snap[p] \in Known

HistoryInv ==
  /\ \A p \in Pods : Seen(start, p) => addr[p] \in {start[p], "gone"}
  /\ \A p \in Pods : Seen(end, p) => addr[p] = end[p] /\ step \notin Phases

(* The attacker and its address, from the start of its session on.         *)
Session(a, x) ==
  /\ a \in Attackers /\ x \in Addresses
  /\ \/ step = "during" /\ addr[a] = x
     \/ attack # <<>> /\ attack.ips = {x}

FootholdInv ==
  /\ step \in {"before", "during"} => attack = <<>>
  /\ step = "during" => \E a \in Attackers : addr[a] \in Addresses
  /\ attack # <<>> => \E a \in Attackers, x \in Addresses : attack.ips = {x}
  /\ \A a \in Attackers, x \in Addresses : Session(a, x) =>
       addr[a] \in {x, "gone"} /\ (Seen(start, a) => start[a] = x)

(* The pods that a line names or that wrote it were running when it was    *)
(* written; those that run during the session cannot have the attacker's   *)
(* address, now or in a snapshot.                                          *)
Present(f, line) ==
  CASE f = "flows" -> {line.src, line.dst} \cap Pods
    [] f = "audit" -> {}
    [] OTHER       -> {f, calls[line.call].client}

Elsewhere(p, x) ==
  /\ addr[p] \in (Known \cup {"gone"}) \ {x}
  /\ Seen(start, p) => start[p] # x

(* So a line of the session from the attacker's address is the attacker's. *)
Faithful(f, line, a, x) ==
  line.at = "during" =>
    /\ \A p \in Present(f, line) : p = a \/ Elsewhere(p, x)
    /\ f \in Meshed /\ line.from = x => calls[line.call].client = a
    /\ f = "audit" /\ line.from = x => line.by = a

SessionInv ==
  /\ step = "before" => \A f \in Files : \A k \in DOMAIN file[f] : file[f][k].at = "before"
  /\ \A a \in Attackers, x \in Addresses : Session(a, x) =>
       \A f \in Files : \A k \in DOMAIN file[f] : Faithful(f, file[f][k], a, x)

(* An address that an entity has or is found by is one of the snapshots'.  *)
Recorded(p, x) ==
  \/ p \in DOMAIN start /\ start[p] = x
  \/ p \in DOMAIN end /\ end[p] = x

ResolverInv ==
  /\ step \in Phases \cup {"snapshot"} => DOMAIN entities = {} /\ DOMAIN byAddress = {}
  /\ \A p \in DOMAIN entities : entities[p] \in Known => Recorded(p, entities[p])
  /\ \A x \in DOMAIN byAddress : Recorded(byAddress[x], x)

(* The line an event is named after tells how the event came by its ends.  *)
Witnessed(e) ==
  LET f == e.id[1]
  IN  /\ e.id \in e.lines /\ f \in Files /\ e.id[2] \in DOMAIN file[f]
      /\ e.at = Line(e.id).at
      /\ \A p \in {e.src, e.dst} \cap Pods :
           \/ p \in Present(f, Line(e.id))
           \/ /\ f # "flows" /\ Line(e.id).from \in DOMAIN byAddress
              /\ p = byAddress[Line(e.id).from]

WitnessInv == \A e \in events : Witnessed(e)

LabelInv ==
  \A e \in events :
    e.label = IF step # "done" \/ attack = <<>> THEN "none"
              ELSE IF Malicious(e) THEN "malicious" ELSE "benign"

(* The addresses are apart from the states of a pod without one.           *)
LEMMA AddressFacts ==
  /\ Addresses \subseteq Known
  /\ \A x \in Known : x \notin {NoAddress, "absent", "pending", "gone"}
  /\ Node \notin Addresses
  BY PodAssumption DEF Known, Node, NoAddress

(* Two records of a pod are of the same address.                           *)
LEMMA OneRecord ==
  ASSUME HistoryInv, NEW p \in Pods, NEW x \in Known, NEW y \in Known,
         Recorded(p, x), Recorded(p, y)
  PROVE  x = y
<1>1. ASSUME NEW u \in Known, NEW v \in Known, p \in DOMAIN start, start[p] = u,
             p \in DOMAIN end, end[p] = v
      PROVE  u = v
  BY <1>1, AddressFacts DEF HistoryInv, Seen
<1> QED
  BY <1>1 DEF Recorded

LEMMA BlameFacts ==
  ASSUME Typed, HistoryInv, FootholdInv, SessionInv, ResolverInv, WitnessInv,
         attack # <<>>, NEW e \in events, e.at = "during",
         {e.src, e.dst} \cap AttackerIds # {}
  PROVE  TrueEnds(e.id) \cap Attackers # {}
<1>1. PICK a \in Attackers, x \in Addresses : attack.ips = {x} /\ Session(a, x)
  BY DEF FootholdInv, Session
<1>2. /\ addr[a] \in {x, "gone"} /\ (Seen(start, a) => start[a] = x)
      /\ x \in Known /\ a \in Pods /\ a \notin Meshed
  BY <1>1, AddressFacts, PodAssumption DEF FootholdInv
<1>3. PICK p \in {e.src, e.dst} \cap Pods :
        /\ p \in DOMAIN entities
        /\ entities[p] = x \/ p = a
  BY <1>1, FootholdAssumption DEF AttackerIds
<1>4. entities[p] = x => Recorded(p, x)
  BY <1>2, <1>3 DEF ResolverInv
<1>5. ASSUME NEW y \in Known, Recorded(p, y) PROVE y = x
  <2>1. CASE entities[p] = x
    BY <1>2, <1>4, <1>5, <2>1, OneRecord
  <2>2. CASE p = a
    BY <1>2, <1>5, <2>2, AddressFacts DEF Recorded, HistoryInv, Seen
  <2> QED
    BY <1>3, <2>1, <2>2
<1>6. PICK f, line : /\ f = e.id[1] /\ line = Line(e.id) /\ f \in Files
                     /\ e.id[2] \in DOMAIN file[f] /\ line = file[f][e.id[2]]
                     /\ line.at = "during"
                     /\ \/ p \in Present(f, line)
                        \/ f # "flows" /\ line.from \in DOMAIN byAddress
                           /\ p = byAddress[line.from]
  BY DEF WitnessInv, Witnessed, Line
<1>7. /\ \A q \in Present(f, line) : q = a \/ Elsewhere(q, x)
      /\ f \in Meshed /\ line.from = x => calls[line.call].client = a
      /\ f = "audit" /\ line.from = x => line.by = a
  BY <1>1, <1>6 DEF SessionInv, Faithful
<1>8. TrueEnds(e.id) = CASE f = "flows" -> {line.src, line.dst}
                         [] f = "audit" -> {line.by}
                         [] OTHER -> {calls[line.call].client} \cup calls[line.call].servers
  BY <1>6 DEF TrueEnds
<1>9. CASE p \in Present(f, line)
  <2>1. p = a
    <3>1. ASSUME Elsewhere(p, x) PROVE entities[p] # x
      BY <1>2, <1>4, <3>1, AddressFacts DEF Elsewhere, Recorded, HistoryInv, Seen
    <3> QED
      BY <1>3, <1>7, <1>9, <3>1
  <2>2. CASE f = "flows"
    BY <1>1, <1>8, <1>9, <2>1, <2>2 DEF Present
  <2>3. CASE f \in Meshed
    BY <1>1, <1>2, <1>8, <1>9, <2>1, <2>3, NameFacts DEF Present
  <2>4. CASE f = "audit"
    BY <1>9, <2>4 DEF Present
  <2> QED
    BY <1>6, <2>2, <2>3, <2>4 DEF Files
<1>10. CASE f # "flows" /\ line.from \in DOMAIN byAddress /\ p = byAddress[line.from]
  <2>1. line.from \in Known
    BY <1>10 DEF Typed, TelemetryTypeOK
  <2>2. Recorded(p, line.from)
    BY <1>10 DEF ResolverInv
  <2>3. line.from = x
    BY <1>5, <2>1, <2>2
  <2>4. CASE f = "audit"
    BY <1>1, <1>7, <1>8, <2>3, <2>4
  <2>5. CASE f \in Meshed
    BY <1>1, <1>7, <1>8, <2>3, <2>5, NameFacts
  <2> QED
    BY <1>6, <1>10, <2>4, <2>5 DEF Files
<1> QED
  BY <1>6, <1>9, <1>10

LEMMA BlameImplies ==
  ASSUME Typed, HistoryInv, FootholdInv, SessionInv, ResolverInv, WitnessInv, LabelInv,
         EndpointsAreEntities
  PROVE  LabelsAreTrue
<1>1. BlameIsTrue
  <2> SUFFICES ASSUME attack # <<>>, attack.window, NEW e \in events, e.label = "malicious"
               PROVE  \E l \in e.lines : TrueEnds(l) \cap Attackers # {}
    BY DEF BlameIsTrue
  <2>1. Malicious(e)
    BY DEF LabelInv
  <2>2. e.at = "during" /\ {e.src, e.dst} \cap AttackerIds # {}
    BY <2>1 DEF Malicious
  <2>3. e.id \in e.lines
    BY DEF WitnessInv, Witnessed
  <2> QED
    BY <2>2, <2>3, BlameFacts
<1>2. AttackerFlowsAreLabelled
  <2> SUFFICES ASSUME step = "done", attack # <<>>, attack.byNamespace, NEW e \in events,
                      e.at = "during", {e.src, e.dst} \cap Attackers # {}
               PROVE  e.label = "malicious"
    BY DEF AttackerFlowsAreLabelled
  <2>1. e.src \in DOMAIN entities /\ e.dst \in DOMAIN entities
    BY DEF EndpointsAreEntities, Ends
  <2>2. {e.src, e.dst} \cap AttackerIds # {}
    BY <2>1, PodAssumption DEF AttackerIds
  <2>3. Malicious(e)
    BY <2>2 DEF Malicious
  <2> QED
    BY <2>3 DEF LabelInv
<1> QED
  BY <1>1, <1>2 DEF LabelsAreTrue

(* Sessions do not appear but when one starts, and who is elsewhere stays. *)
Onward ==
  /\ \A a \in Attackers, x \in Addresses : Session(a, x)' => Session(a, x)
  /\ \A p \in Pods, x \in Addresses : Elsewhere(p, x) => Elsewhere(p, x)'

ClusterInv == HistoryInv /\ FootholdInv

LEMMA NotSeenYet ==
  ASSUME Typed, ClusterInv, Capturing
  PROVE  /\ \A p \in Pods : ~ Seen(end, p)
         /\ step \in {"before", "during"} => attack = <<>>
         /\ \A p \in Pods : Seen(start, p) => addr[p] \in {start[p], "gone"}
         /\ step = "during" => \E a \in Attackers : addr[a] \in Addresses
         /\ attack # <<>> => \E a \in Attackers, x \in Addresses : attack.ips = {x}
         /\ \A a \in Attackers, x \in Addresses : Session(a, x) =>
              addr[a] \in {x, "gone"} /\ (Seen(start, a) => start[a] = x)
         /\ Attackers \subseteq Pods
  BY PodAssumption DEF ClusterInv, HistoryInv, FootholdInv, Capturing

LEMMA ClusterVanish ==
  ASSUME Typed, ClusterInv, NEW p \in Pods, Vanish(p)
  PROVE  ClusterInv' /\ Onward
<1>1. /\ Capturing /\ addr' = [addr EXCEPT ![p] = "gone"]
      /\ ~ (step = "during" /\ p \in Attackers)
      /\ UNCHANGED <<step, start, end, attack>>
  BY DEF Vanish, MayMove, capture
<1>2. addr'[p] = "gone" /\ \A q \in Pods \ {p} : addr'[q] = addr[q]
  BY <1>1 DEF Typed, TelemetryTypeOK
<1>3. HistoryInv'
  BY <1>1, <1>2, NotSeenYet DEF HistoryInv, Seen
<1>4. Onward
  <2>1. ASSUME NEW a \in Attackers, NEW x \in Addresses, Session(a, x)'
        PROVE  Session(a, x)
    BY <1>1, <1>2, <2>1, AddressFacts, PodAssumption DEF Session
  <2>2. ASSUME NEW q \in Pods, NEW x \in Addresses, Elsewhere(q, x)
        PROVE  Elsewhere(q, x)'
    BY <1>1, <1>2, <2>2, AddressFacts DEF Elsewhere, Seen
  <2> QED
    BY <2>1, <2>2 DEF Onward
<1>5. FootholdInv'
  <2>1. step = "during" => \E a \in Attackers : addr'[a] \in Addresses
    BY <1>1, <1>2, NotSeenYet
  <2>2. ASSUME NEW a \in Attackers, NEW x \in Addresses, Session(a, x)'
        PROVE  addr'[a] \in {x, "gone"} /\ (Seen(start, a) => start[a] = x)
    <3>1. addr[a] \in {x, "gone"} /\ (Seen(start, a) => start[a] = x) /\ a \in Pods
      BY <1>1, <1>4, <2>2, NotSeenYet DEF Onward
    <3> QED
      BY <1>2, <3>1
  <2> QED
    BY <1>1, <2>1, <2>2, NotSeenYet DEF FootholdInv, Seen
<1> QED
  BY <1>3, <1>4, <1>5 DEF ClusterInv

LEMMA ClusterGetsAddress ==
  ASSUME Typed, ClusterInv, NEW p \in Pods, NEW y \in Addresses, GetsAddress(p, y)
  PROVE  ClusterInv' /\ Onward
<1>1. /\ Capturing /\ addr' = [addr EXCEPT ![p] = y] /\ addr[p] \in {"absent", "pending"}
      /\ UNCHANGED <<step, start, end, attack>>
  BY DEF GetsAddress, MayMove, capture
<1>2. addr'[p] = y /\ \A q \in Pods \ {p} : addr'[q] = addr[q]
  BY <1>1 DEF Typed, TelemetryTypeOK
<1>3. HistoryInv'
  <2>1. ~ Seen(start, p)
    BY <1>1, AddressFacts, NotSeenYet DEF Seen
  <2> QED
    BY <1>1, <1>2, <2>1, NotSeenYet DEF HistoryInv, Seen
<1>4. step = "during" => p \notin Attackers
  BY <1>1, AddressFacts, NotSeenYet, FootholdAssumption
<1>5. Onward
  <2>1. ASSUME NEW a \in Attackers, NEW x \in Addresses, Session(a, x)'
        PROVE  Session(a, x)
    BY <1>1, <1>2, <1>4, <2>1, PodAssumption DEF Session
  <2>2. ASSUME NEW q \in Pods, NEW x \in Addresses, Elsewhere(q, x)
        PROVE  Elsewhere(q, x)'
    <3>1. q # p
      BY <1>1, <2>2, AddressFacts DEF Elsewhere
    <3> QED
      BY <1>1, <1>2, <2>2, <3>1 DEF Elsewhere, Seen
  <2> QED
    BY <2>1, <2>2 DEF Onward
<1>6. FootholdInv'
  <2>1. step = "during" => \E a \in Attackers : addr'[a] \in Addresses
    BY <1>1, <1>2, <1>4, NotSeenYet
  <2>2. ASSUME NEW a \in Attackers, NEW x \in Addresses, Session(a, x)'
        PROVE  addr'[a] \in {x, "gone"} /\ (Seen(start, a) => start[a] = x)
    <3>1. addr[a] \in {x, "gone"} /\ (Seen(start, a) => start[a] = x) /\ a \in Pods
      BY <1>1, <1>5, <2>2, NotSeenYet DEF Onward
    <3>2. a # p
      BY <1>1, <3>1, AddressFacts
    <3> QED
      BY <1>2, <3>1, <3>2
  <2> QED
    BY <1>1, <2>1, <2>2, NotSeenYet DEF FootholdInv, Seen
<1> QED
  BY <1>3, <1>5, <1>6 DEF ClusterInv

LEMMA ClusterStarts == Typed /\ ClusterInv /\ SessionStarts => ClusterInv'
<1> SUFFICES ASSUME Typed, ClusterInv, SessionStarts PROVE ClusterInv'
  OBVIOUS
<1>1. /\ step = "before" /\ step' = "during" /\ Attackers \cap Running # {} /\ Capturing
      /\ UNCHANGED <<addr, start, end, attack>>
  BY DEF SessionStarts, cluster, capture, Capturing, Phases
<1>2. attack = <<>>
  BY <1>1, NotSeenYet
<1>3. \E a \in Attackers : addr[a] \in Addresses
  BY <1>1, PodAssumption DEF Running, Known, Typed, Network
<1>4. ASSUME NEW a \in Attackers, NEW x \in Addresses, Session(a, x)'
      PROVE  addr'[a] \in {x, "gone"} /\ (Seen(start, a) => start[a] = x)
  <2>1. addr[a] = x
    BY <1>1, <1>2, <1>4 DEF Session
  <2>2. Seen(start, a) => start[a] = x
    BY <1>1, <2>1, NotSeenYet, AddressFacts
  <2> QED
    BY <1>1, <2>1, <2>2
<1>5. FootholdInv'
  BY <1>1, <1>2, <1>3, <1>4 DEF FootholdInv, Seen
<1>6. HistoryInv'
  BY <1>1, NotSeenYet DEF HistoryInv, Seen
<1> QED
  BY <1>5, <1>6 DEF ClusterInv

LEMMA ClusterEnds ==
  ASSUME Typed, ClusterInv, NEW byNamespace, NEW window, SessionEnds(byNamespace, window)
  PROVE  ClusterInv' /\ Onward
<1>1. /\ step = "during" /\ step' = "after" /\ Capturing
      /\ attack'.ips = {addr[p] : p \in Attackers \cap Running}
      /\ UNCHANGED <<addr, start, end>>
  BY DEF SessionEnds, cluster, Capturing, Phases
<1>2. PICK a \in Attackers : addr[a] \in Addresses
  BY <1>1, NotSeenYet
<1>3. a \in Running
  BY <1>2, AddressFacts, PodAssumption DEF Running
<1>4. attack'.ips = {addr[a]}
  BY <1>1, <1>3, FootholdAssumption
<1>5. ASSUME NEW b \in Attackers, NEW x \in Addresses, Session(b, x)' PROVE Session(b, x)
  <2>1. {x} = {addr[a]} /\ a = b
    BY <1>1, <1>4, <1>5, FootholdAssumption DEF Session
  <2> QED
    BY <1>1, <2>1 DEF Session
<1>6. Onward
  BY <1>1, <1>5 DEF Onward, Elsewhere, Seen
<1>7. FootholdInv'
  <2>1. ASSUME NEW b \in Attackers, NEW x \in Addresses, Session(b, x)'
        PROVE  addr'[b] \in {x, "gone"} /\ (Seen(start, b) => start[b] = x)
    BY <1>1, <1>5, <2>1, NotSeenYet
  <2> QED
    BY <1>1, <1>2, <1>4, <2>1 DEF FootholdInv, Seen
<1>8. HistoryInv'
  BY <1>1, NotSeenYet DEF HistoryInv, Seen
<1> QED
  BY <1>6, <1>7, <1>8 DEF ClusterInv

LEMMA SnapshotSeen ==
  ASSUME NEW p \in Pods, Seen(Snapshot, p)
  PROVE  Snapshot[p] = addr[p]
  BY AddressFacts DEF Seen, Snapshot

LEMMA ClusterCollect ==
  ASSUME Typed, ClusterInv, NEW withEnd, Collect(withEnd)
  PROVE  ClusterInv' /\ Onward
<1>1. /\ step \in {"before", "after"} /\ step' = "snapshot" /\ Capturing
      /\ end' = Snapshot \/ end' = <<>>
      /\ UNCHANGED <<addr, start, attack>>
  BY DEF Collect, cluster, Capturing, Phases
<1>2. \A p \in Pods : Seen(end', p) => addr[p] = end'[p]
  <2>1. CASE end' = Snapshot
    BY <2>1, SnapshotSeen
  <2>2. CASE end' = <<>>
    BY <2>2 DEF Seen
  <2> QED
    BY <1>1, <2>1, <2>2
<1>3. HistoryInv'
  BY <1>1, <1>2, NotSeenYet DEF HistoryInv, Seen, Phases
<1>4. \A a \in Attackers, x \in Addresses : Session(a, x)' => Session(a, x)
  BY <1>1 DEF Session
<1>5. Onward
  BY <1>1, <1>4 DEF Onward, Elsewhere, Seen
<1>6. FootholdInv'
  BY <1>1, <1>4, NotSeenYet DEF FootholdInv, Seen
<1> QED
  BY <1>3, <1>5, <1>6 DEF ClusterInv

(* The steps that write lines or ingest them leave all of this alone.      *)
Settled ==
  /\ UNCHANGED <<addr, start, end, attack>>
  /\ step' = step \/ {step, step'} \cap Phases = {}

LEMMA ClusterSettled == Typed /\ ClusterInv /\ Settled => ClusterInv' /\ Onward
<1> SUFFICES ASSUME Typed, ClusterInv, Settled PROVE ClusterInv' /\ Onward
  OBVIOUS
<1>1. UNCHANGED <<addr, start, end, attack>> /\ (step' = step \/ {step, step'} \cap Phases = {})
  BY DEF Settled
<1>2. /\ step' = "during" <=> step = "during"
      /\ step' \in Phases => step \in Phases
      /\ step \in Phases => step' \in Phases
      /\ step' = "before" => step = "before"
  BY <1>1 DEF Phases
<1>3. \A a \in Attackers, x \in Addresses : Session(a, x)' => Session(a, x)
  BY <1>1, <1>2 DEF Session
<1>4. Onward
  BY <1>1, <1>3 DEF Onward, Elsewhere, Seen
<1>5. HistoryInv'
  BY <1>1, <1>2 DEF ClusterInv, HistoryInv, Seen
<1>6. FootholdInv'
  BY <1>1, <1>2, <1>3 DEF ClusterInv, FootholdInv, Seen
<1> QED
  BY <1>4, <1>5, <1>6 DEF ClusterInv

LEMMA ClusterInit == TelemetryInit => ClusterInv
<1> SUFFICES ASSUME TelemetryInit PROVE ClusterInv
  OBVIOUS
<1>1. start = Snapshot /\ end = <<>> /\ step = "before" /\ attack = <<>>
  BY DEF TelemetryInit
<1>2. HistoryInv
  BY <1>1, SnapshotSeen DEF HistoryInv, Seen
<1>3. FootholdInv
  BY <1>1 DEF FootholdInv, Session
<1> QED
  BY <1>2, <1>3 DEF ClusterInv

(* Lines that are there keep what they tell.                               *)
LEMMA FaithfulKept ==
  ASSUME CallsInv, Onward, NEW a \in Attackers, NEW x \in Addresses, Session(a, x)',
         NEW f \in Files, NEW line, Faithful(f, line, a, x),
         f \in Meshed => line.call \in DOMAIN calls,
         \A m \in DOMAIN calls : calls'[m].client = calls[m].client,
         Present(f, line) \subseteq Pods
  PROVE  Faithful(f, line, a, x)'
<1>1. Present(f, line)' = Present(f, line)
  BY NameFacts DEF Present, Files
<1>2. \A p \in Present(f, line) : Elsewhere(p, x) => Elsewhere(p, x)'
  BY DEF Onward
<1>3. f \in Meshed => calls'[line.call].client = calls[line.call].client
  OBVIOUS
<1> QED
  BY <1>1, <1>2, <1>3 DEF Faithful

LEMMA PresentFacts ==
  ASSUME Typed, CallsInv, NEW f \in Files, NEW k \in DOMAIN file[f]
  PROVE  /\ f \in Meshed => file[f][k].call \in DOMAIN calls
         /\ Present(f, file[f][k]) \subseteq Pods
<1>1. CASE f = "flows"
  BY <1>1, NameFacts DEF Present
<1>2. CASE f = "audit"
  BY <1>2, NameFacts DEF Present
<1>3. CASE f \in Meshed
  <2>1. PICK line : line = file[f][k]
    OBVIOUS
  <2>2. Reports(f, line, calls)
    BY <1>3, <2>1 DEF CallsInv
  <2>3. line.call \in DOMAIN calls
    BY <2>2 DEF Reports
  <2>4. calls[line.call] \in CallRecords
    <3>1. calls \in Seq(CallRecords)
      BY DEF Typed, FilesTyped
    <3> QED
      BY <2>3, <3>1
  <2>5. Present(f, line) = {f, calls[line.call].client}
    BY <1>3, NameFacts DEF Present
  <2> QED
    BY <1>3, <2>1, <2>3, <2>4, <2>5, NameFacts DEF CallRecords
<1> QED
  BY <1>1, <1>2, <1>3 DEF Files

LEMMA LinesKept ==
  ASSUME Typed, CallsInv, SessionInv, Onward, UNCHANGED <<calls, file>>,
         step' = "before" => step = "before"
  PROVE  SessionInv'
<1>1. ASSUME NEW a \in Attackers, NEW x \in Addresses, Session(a, x)',
             NEW f \in Files, NEW k \in DOMAIN file[f]
      PROVE  Faithful(f, file[f][k], a, x)'
  <2>1. PICK line : line = file[f][k]
    OBVIOUS
  <2>2. Session(a, x)
    BY <1>1 DEF Onward
  <2>3. Faithful(f, line, a, x)
    BY <2>1, <2>2 DEF SessionInv
  <2>4. (f \in Meshed => line.call \in DOMAIN calls) /\ Present(f, line) \subseteq Pods
    BY <2>1, PresentFacts
  <2>5. Faithful(f, line, a, x)'
    BY <1>1, <2>3, <2>4, FaithfulKept
  <2> QED
    BY <2>1, <2>5
<1> QED
  BY <1>1 DEF SessionInv

LEMMA SessionAtStart == Typed /\ SessionInv /\ SessionStarts => SessionInv'
<1> SUFFICES ASSUME Typed, SessionInv, SessionStarts PROVE SessionInv'
  OBVIOUS
<1>1. step = "before" /\ step' = "during" /\ file' = file
  BY DEF SessionStarts, capture
<1>2. \A f \in Files : \A k \in DOMAIN file[f] : file[f][k].at = "before"
  BY <1>1 DEF SessionInv
<1> QED
  BY <1>1, <1>2 DEF SessionInv, Faithful

(* What a new line has to tell, for the pods as they are when it is        *)
(* written.                                                                *)
Told(f, line, made) ==
  /\ line.at = step
  /\ \A p \in (CASE f = "flows" -> {line.src, line.dst} \cap Pods
                 [] f = "audit" -> {}
                 [] OTHER       -> {f, made[line.call].client}) : p \in Running
  /\ f \in Meshed => line.from = addr[made[line.call].client]
  /\ f = "audit" => line.from = Node \/ (line.by \in Running /\ line.from = addr[line.by])

LEMMA ToldIsFaithful ==
  ASSUME Typed, ClusterInv, Capturing, UNCHANGED <<step, addr, start, attack>>,
         NEW f \in Files, NEW line, Told(f, line, calls'),
         NEW a \in Attackers, NEW x \in Addresses, Session(a, x)'
  PROVE  Faithful(f, line, a, x)'
<1> SUFFICES ASSUME line.at = "during"
             PROVE  /\ \A p \in Present(f, line)' : p = a \/ Elsewhere(p, x)'
                    /\ f \in Meshed /\ line.from = x => calls'[line.call].client = a
                    /\ f = "audit" /\ line.from = x => line.by = a
  BY DEF Faithful
<1>1. step = "during" /\ attack = <<>>
  BY NotSeenYet DEF Told
<1>2. addr[a] = x /\ a \in Pods
  BY <1>1, PodAssumption DEF Session
<1>3. ASSUME NEW p \in Running, addr[p] = x PROVE p = a
  BY <1>2, <1>3 DEF Typed, Network, Running
<1>4. ASSUME NEW p \in Running PROVE p = a \/ Elsewhere(p, x)'
  <2>1. addr[p] \in Known /\ (Seen(start, p) => addr[p] = start[p])
    BY NotSeenYet, AddressFacts DEF Running
  <2> QED
    BY <1>3, <2>1 DEF Elsewhere, Seen
<1>5. \A p \in Present(f, line)' : p \in Running
  BY DEF Told, Present
<1>6. ASSUME f \in Meshed, line.from = x PROVE calls'[line.call].client = a
  <2>1. calls'[line.call].client \in Running /\ addr[calls'[line.call].client] = x
    BY <1>6, NameFacts DEF Told
  <2> QED
    BY <1>3, <2>1
<1>7. ASSUME f = "audit", line.from = x PROVE line.by = a
  BY <1>3, <1>7, AddressFacts DEF Told
<1> QED
  BY <1>4, <1>5, <1>6, <1>7

LinesOf(f) ==
  CASE f = "flows" -> FlowLines [] f = "audit" -> AuditLines [] OTHER -> CallLines

LEMMA LinesWrite ==
  ASSUME Typed, CallsInv, ClusterInv, SessionInv, Capturing,
         UNCHANGED <<step, addr, start, attack>>,
         \A m \in DOMAIN calls : calls'[m].client = calls[m].client,
         NEW W \in SUBSET Files, \A f \in Files \ W : file'[f] = file[f],
         \A f \in W : \E line \in LinesOf(f) :
           file'[f] = Append(file[f], line) /\ Told(f, line, calls')
  PROVE  SessionInv'
<1>0. Onward
  BY DEF Onward, Session, Elsewhere, Seen
<1>1. ASSUME NEW f \in Files, NEW k \in DOMAIN file'[f]
      PROVE  \/ k \in DOMAIN file[f] /\ file'[f][k] = file[f][k]
             \/ \E line : file'[f][k] = line /\ Told(f, line, calls')
  <2>1. CASE f \notin W
    BY <1>1, <2>1
  <2>2. CASE f \in W
    <3>1. PICK line \in LinesOf(f) : file'[f] = Append(file[f], line) /\ Told(f, line, calls')
      BY <2>2
    <3>2. file[f] \in Seq(LinesOf(f))
      BY NameFacts DEF Typed, FilesTyped, LinesOf, Files
    <3>3. /\ DOMAIN file[f] = 1..Len(file[f]) /\ DOMAIN file'[f] = 1..(Len(file[f]) + 1)
          /\ Len(file[f]) \in Nat /\ file'[f][Len(file[f]) + 1] = line
          /\ \A j \in DOMAIN file[f] : file'[f][j] = file[f][j]
      BY <3>1, <3>2, AppendFacts
    <3>4. CASE k \in DOMAIN file[f]
      BY <3>3, <3>4
    <3>5. CASE k \notin DOMAIN file[f]
      <4>1. k = Len(file[f]) + 1
        BY <3>3, <3>5
      <4> QED
        BY <3>1, <3>3, <4>1
    <3> QED
      BY <3>4, <3>5
  <2> QED
    BY <2>1, <2>2
<1>2. ASSUME step = "before", NEW f \in Files, NEW k \in DOMAIN file'[f]
      PROVE  file'[f][k].at = "before"
  BY <1>1, <1>2 DEF SessionInv, Told
<1>3. ASSUME NEW a \in Attackers, NEW x \in Addresses, Session(a, x)',
             NEW f \in Files, NEW k \in DOMAIN file'[f]
      PROVE  Faithful(f, file[f][k], a, x)'
  <2>1. CASE k \in DOMAIN file[f] /\ file'[f][k] = file[f][k]
    <3>1. PICK line : line = file[f][k]
      OBVIOUS
    <3>2. Session(a, x)
      BY <1>0, <1>3 DEF Onward
    <3>3. Faithful(f, line, a, x)
      BY <2>1, <3>1, <3>2 DEF SessionInv
    <3>4. (f \in Meshed => line.call \in DOMAIN calls) /\ Present(f, line) \subseteq Pods
      BY <2>1, <3>1, PresentFacts
    <3>5. Faithful(f, line, a, x)'
      BY <1>0, <1>3, <3>3, <3>4, FaithfulKept
    <3> QED
      BY <2>1, <3>1, <3>5
  <2>2. CASE \E line : file'[f][k] = line /\ Told(f, line, calls')
    <3>1. PICK line : file'[f][k] = line /\ Told(f, line, calls')
      BY <2>2
    <3>2. Faithful(f, line, a, x)'
      BY <1>3, <3>1, ToldIsFaithful
    <3> QED
      BY <3>1, <3>2
  <2> QED
    BY <1>1, <1>3, <2>1, <2>2
<1> QED
  BY <1>2, <1>3 DEF SessionInv

LEMMA SessionRequest ==
  ASSUME Typed, CallsInv, ClusterInv, SessionInv,
         NEW client \in Pods, NEW servers \in SUBSET Meshed, NEW hasId \in BOOLEAN,
         NEW writers, Request(client, servers, hasId, writers)
  PROVE  SessionInv' /\ Settled
<1>0. PICK n, call : Requested(client, servers, hasId, writers, n, call)
  BY RequestFacts
<1>1. /\ calls' = Append(calls, call) /\ call \in CallRecords /\ n = Len(calls) + 1
      /\ call.client = client
      /\ client \in Running /\ servers \subseteq Running
      /\ writers \in SUBSET Meshed /\ writers \subseteq servers \cup {client}
      /\ \A f \in writers : /\ file'[f] = Append(file[f], Logged(f, n, call))
                            /\ Logged(f, n, call) \in CallLines
      /\ \A f \in Files \ writers : file'[f] = file[f]
  BY <1>0 DEF Requested
<1>2. Capturing /\ UNCHANGED <<step, addr, start, end, attack>>
  BY DEF Request
<1>3. calls'[n] = call /\ \A m \in DOMAIN calls : calls'[m] = calls[m]
  <2>1. calls \in Seq(CallRecords)
    BY DEF Typed, FilesTyped
  <2> QED
    BY <1>1, <2>1, AppendFacts
<1>4. ASSUME NEW f \in writers
      PROVE  \E line \in LinesOf(f) : file'[f] = Append(file[f], line) /\ Told(f, line, calls')
  <2>1. PICK line \in CallLines : line = Logged(f, n, call) /\ file'[f] = Append(file[f], line)
    BY <1>1
  <2>2. line.call = n /\ line.from = addr[client] /\ line.at = step
    BY <1>1, <2>1 DEF Logged, CallLine
  <2>3. f \in Meshed /\ f # "flows" /\ f # "audit" /\ f \in Running
    BY <1>1, NameFacts
  <2>4. calls'[line.call].client = client
    BY <1>1, <1>3, <2>2
  <2>5. Told(f, line, calls')
    BY <1>1, <2>2, <2>3, <2>4 DEF Told
  <2>6. line \in LinesOf(f)
    BY <2>3 DEF LinesOf
  <2> QED
    BY <2>1, <2>5, <2>6
<1>5. writers \in SUBSET Files
  BY <1>1, NameFacts
<1>6. \A m \in DOMAIN calls : calls'[m].client = calls[m].client
  BY <1>3
<1>7. SessionInv'
  BY <1>1, <1>2, <1>4, <1>5, <1>6, LinesWrite
<1> QED
  BY <1>2, <1>7 DEF Settled

LEMMA SessionRetry ==
  ASSUME Typed, CallsInv, ClusterInv, SessionInv,
         NEW n \in DOMAIN calls, NEW server \in Meshed, Retry(n, server)
  PROVE  SessionInv' /\ Settled
<1>1. /\ \A m \in DOMAIN calls : calls'[m].client = calls[m].client
      /\ calls[n].client \in Running /\ server \in Running
      /\ file'[server] = Append(file[server], CallLine(n, calls[n], "inbound"))
      /\ CallLine(n, calls[n], "inbound") \in CallLines
      /\ \A f \in Files \ {server} : file'[f] = file[f]
  BY RetryFacts
<1>2. Capturing /\ UNCHANGED <<step, addr, start, end, attack>>
  BY DEF Retry
<1>3. \E line \in LinesOf(server) :
        file'[server] = Append(file[server], line) /\ Told(server, line, calls')
  <2>1. PICK line \in CallLines : /\ line = CallLine(n, calls[n], "inbound")
                                  /\ file'[server] = Append(file[server], line)
    BY <1>1
  <2>2. line.call = n /\ line.from = addr[calls[n].client] /\ line.at = step
    BY <2>1 DEF CallLine
  <2>3. server # "flows" /\ server # "audit"
    BY NameFacts
  <2>4. calls'[line.call].client = calls[n].client
    BY <1>1, <2>2
  <2>5. Told(server, line, calls')
    BY <1>1, <2>2, <2>3, <2>4 DEF Told
  <2>6. line \in LinesOf(server)
    BY <2>3 DEF LinesOf
  <2> QED
    BY <2>1, <2>5, <2>6
<1>4. {server} \in SUBSET Files
  BY NameFacts
<1>5. SessionInv'
  BY <1>1, <1>2, <1>3, <1>4, LinesWrite
<1> QED
  BY <1>2, <1>5 DEF Settled

(* A line of the flows or of the audit log.                                *)
LEMMA SessionOneLine ==
  ASSUME Typed, CallsInv, ClusterInv, SessionInv, Capturing,
         NEW f \in {"flows", "audit"}, NEW line \in LinesOf(f), Told(f, line, calls'),
         file' = [file EXCEPT ![f] = Append(@, line)],
         UNCHANGED <<step, cluster, start, end, attack>>
  PROVE  SessionInv' /\ Settled
<1>1. UNCHANGED <<step, addr, calls, start, end, attack>>
  BY DEF cluster
<1>2. /\ file'[f] = Append(file[f], line) /\ \A g \in Files \ {f} : file'[g] = file[g]
      /\ {f} \in SUBSET Files
  BY NameFacts DEF Typed, TelemetryTypeOK
<1>3. \A m \in DOMAIN calls : calls'[m].client = calls[m].client
  BY <1>1
<1>4. SessionInv'
  BY <1>1, <1>2, <1>3, LinesWrite
<1> QED
  BY <1>1, <1>4 DEF Settled

LEMMA SessionFlow ==
  ASSUME Typed, CallsInv, ClusterInv, SessionInv,
         NEW kind \in {"kept", "dns response", "other"},
         NEW src \in Pods \cup {"world", "unknown"}, NEW dst \in Pods \cup {"world", "unknown"},
         Flow(kind, src, dst)
  PROVE  SessionInv' /\ Settled
<1>1. PICK line \in FlowLines : line = [kind |-> kind, src |-> src, dst |-> dst, at |-> step]
  BY FlowFacts
<1>2. /\ Capturing /\ file' = [file EXCEPT !["flows"] = Append(@, line)]
      /\ UNCHANGED <<step, cluster, start, end, attack>>
      /\ {src, dst} \subseteq (Running \ HostPods) \cup {"world", "unknown"}
  BY <1>1 DEF Flow
<1>3. line \in LinesOf("flows")
  BY DEF LinesOf
<1>4. line.src = src /\ line.dst = dst /\ line.at = step
  BY <1>1
<1>5. Told("flows", line, calls')
  <2>1. \A p \in {src, dst} \cap Pods : p \in Running
    BY <1>2, PodAssumption DEF Others
  <2> QED
    BY <1>4, <2>1, NameFacts DEF Told
<1> QED
  BY <1>2, <1>3, <1>5, SessionOneLine

LEMMA SessionAudit ==
  ASSUME Typed, CallsInv, ClusterInv, SessionInv,
         NEW by \in Pods \cup {"kubelet"}, NEW from \in Known, Audit(by, from)
  PROVE  SessionInv' /\ Settled
<1>1. PICK line \in AuditLines : line = [by |-> by, from |-> from, at |-> step]
  BY AuditFacts
<1>2. /\ Capturing /\ file' = [file EXCEPT !["audit"] = Append(@, line)]
      /\ UNCHANGED <<step, cluster, start, end, attack>>
      /\ from = Node \/ (by \in Running /\ from = addr[by])
  BY <1>1 DEF Audit
<1>3. line \in LinesOf("audit")
  BY DEF LinesOf
<1>4. line.by = by /\ line.from = from /\ line.at = step
  BY <1>1
<1>5. Told("audit", line, calls')
  BY <1>2, <1>4, NameFacts DEF Told
<1> QED
  BY <1>2, <1>3, <1>5, SessionOneLine

LEMMA SessionNext ==
  ASSUME Typed, CallsInv, ClusterInv, SessionInv, [TelemetryNext]_vars
  PROVE  ClusterInv' /\ SessionInv'
<1>1. ASSUME UNCHANGED <<calls, file>>, Onward, step' = "before" => step = "before"
      PROVE  SessionInv'
  BY <1>1, LinesKept
<1>2. CASE UNCHANGED vars
  <2>1. Settled /\ UNCHANGED <<calls, file, step>>
    BY <1>2 DEF vars, cluster, capture, Settled
  <2> QED
    BY <1>1, <2>1, ClusterSettled
<1>3. ASSUME NEW p \in Pods, Vanish(p) PROVE ClusterInv' /\ SessionInv'
  <2>1. UNCHANGED <<calls, file, step>>
    BY <1>3 DEF Vanish, capture
  <2> QED
    BY <1>1, <1>3, <2>1, ClusterVanish
<1>4. ASSUME NEW p \in Pods, NEW x \in Addresses, GetsAddress(p, x)
      PROVE  ClusterInv' /\ SessionInv'
  <2>1. UNCHANGED <<calls, file, step>>
    BY <1>4 DEF GetsAddress, capture
  <2> QED
    BY <1>1, <1>4, <2>1, ClusterGetsAddress
<1>5. SessionStarts => ClusterInv' /\ SessionInv'
  BY ClusterStarts, SessionAtStart
<1>6. ASSUME NEW byNamespace, NEW window, SessionEnds(byNamespace, window)
      PROVE  ClusterInv' /\ SessionInv'
  <2>1. UNCHANGED <<calls, file>> /\ step' # "before"
    BY <1>6 DEF SessionEnds, cluster
  <2> QED
    BY <1>1, <1>6, <2>1, ClusterEnds
<1>7. ASSUME NEW withEnd, Collect(withEnd) PROVE ClusterInv' /\ SessionInv'
  <2>1. UNCHANGED <<calls, file>> /\ step' # "before"
    BY <1>7 DEF Collect, cluster
  <2> QED
    BY <1>1, <1>7, <2>1, ClusterCollect
<1>8. IngestRun => ClusterInv' /\ SessionInv'
  <2> SUFFICES ASSUME IngestRun PROVE ClusterInv' /\ SessionInv'
    OBVIOUS
  <2>1. Settled /\ UNCHANGED <<calls, file>> /\ step' # "before"
    BY DEF IngestRun, ReadSnapshot, ReadLog, MergeViews, ParseFlows, ParseAudit, Label,
           cluster, capture, Settled, Phases
  <2> QED
    BY <1>1, <2>1, ClusterSettled
<1>9. ASSUME NEW client \in Pods, NEW servers \in {{}} \cup {{p} : p \in Meshed},
             NEW hasId \in BOOLEAN, NEW writers \in SUBSET Meshed,
             Request(client, servers, hasId, writers)
      PROVE  ClusterInv' /\ SessionInv'
  <2>1. servers \in SUBSET Meshed
    OBVIOUS
  <2> QED
    BY <1>9, <2>1, SessionRequest, ClusterSettled
<1>10. ASSUME NEW n \in DOMAIN calls, NEW server \in Meshed, Retry(n, server)
       PROVE  ClusterInv' /\ SessionInv'
  BY <1>10, SessionRetry, ClusterSettled
<1>11. ASSUME NEW kind \in {"kept", "dns response", "other"},
              NEW src \in Pods \cup {"world", "unknown"},
              NEW dst \in Pods \cup {"world", "unknown"}, Flow(kind, src, dst)
       PROVE  ClusterInv' /\ SessionInv'
  BY <1>11, SessionFlow, ClusterSettled
<1>12. ASSUME NEW by \in Pods \cup {"kubelet"}, NEW from \in Known, Audit(by, from)
       PROVE  ClusterInv' /\ SessionInv'
  BY <1>12, SessionAudit, ClusterSettled
<1> QED
  BY <1>2, <1>3, <1>4, <1>5, <1>6, <1>7, <1>8, <1>9, <1>10, <1>11, <1>12 DEF TelemetryNext

LEMMA SessionHolds == TelemetrySpec => [](ClusterInv /\ SessionInv)
<1>1. TelemetryInit => ClusterInv /\ SessionInv
  <2>1. TelemetryInit => SessionInv
    BY DEF TelemetryInit, SessionInv
  <2> QED
    BY <2>1, ClusterInit
<1> QED
  BY TypedHolds, CallsHold, <1>1, SessionNext, PTL DEF TelemetrySpec

(* What the resolver records.                                              *)
LEMMA ResolverHolds == TelemetrySpec => []ResolverInv
<1>1. TelemetryInit => ResolverInv
  BY DEF TelemetryInit, ResolverInv
<1>2. Typed /\ ResolverInv /\ [TelemetryNext]_vars => ResolverInv'
  <2> SUFFICES ASSUME Typed, ResolverInv, [TelemetryNext]_vars PROVE ResolverInv'
    OBVIOUS
  <2>1. ASSUME UNCHANGED <<start, end, entities, byAddress>>,
               step' = step \/ step' \notin Phases \cup {"snapshot"}
        PROVE  ResolverInv'
    BY <2>1 DEF ResolverInv, Recorded
  <2>2. ASSUME UNCHANGED <<start, end, byAddress>>, NEW ids, entities' = Add(ids),
               step' \notin Phases \cup {"snapshot"}
        PROVE  ResolverInv'
    <3>1. ASSUME NEW p \in DOMAIN entities', entities'[p] \in Known
          PROVE  Recorded(p, entities'[p])
      <4>1. p \in DOMAIN entities
        <5>1. CASE p \in ids \ DOMAIN entities
          <6>1. entities'[p] = NoAddress
            BY <2>2, <5>1, AddFacts
          <6> QED
            BY <3>1, <6>1, AddressFacts
        <5> QED
          BY <2>2, <5>1, AddFacts
      <4>2. entities'[p] = entities[p]
        BY <2>2, <4>1, AddFacts
      <4> QED
        BY <3>1, <4>1, <4>2 DEF ResolverInv
    <3>2. \A x \in DOMAIN byAddress' : Recorded(byAddress'[x], x)
      BY <2>2 DEF ResolverInv
    <3> QED
      BY <2>2, <3>1, <3>2 DEF ResolverInv, Recorded
  <2>3. ReadLog => ResolverInv'
    BY <2>1, <2>2 DEF ReadLog, capture, Phases
  <2>4. MergeViews => ResolverInv'
    BY <2>2, MergeFacts DEF capture, Phases
  <2>5. ParseFlows => ResolverInv'
    BY <2>2, FlowsFacts DEF capture, Phases
  <2>6. ParseAudit => ResolverInv'
    BY <2>2, AuditsFacts DEF capture, Phases
  <2>7. Label => ResolverInv'
    BY <2>1 DEF Label, capture, Phases
  <2>8. ReadSnapshot => ResolverInv'
    <3> SUFFICES ASSUME ReadSnapshot PROVE ResolverInv'
      OBVIOUS
    <3>1. /\ entities' = [i \in DOMAIN start \cup DOMAIN end \cup {"kubeapi", "svc"} |->
                            IF i \in DOMAIN start THEN start[i]
                            ELSE IF i \in DOMAIN end THEN end[i] ELSE NoAddress]
          /\ UNCHANGED <<start, end>> /\ step' \notin Phases \cup {"snapshot"}
      BY DEF ReadSnapshot, capture, Phases
    <3>2. \A x \in DOMAIN byAddress' : Recorded(byAddress'[x], x)
      BY DEF ReadSnapshot, Recorded
    <3>3. \A p \in DOMAIN entities' : entities'[p] \in Known => Recorded(p, entities'[p])
      BY <3>1, AddressFacts DEF Recorded
    <3> QED
      BY <3>1, <3>2, <3>3 DEF ResolverInv, Recorded
  <2>9. CASE UNCHANGED vars
    BY <2>1, <2>9 DEF vars, capture, ingested
  <2>10. CASE CaptureStep
    <3>1. entities' = entities /\ byAddress' = byAddress /\ step \in Phases
      BY <2>10 DEF CaptureStep, ingested, Capturing
    <3>2. DOMAIN entities' = {} /\ DOMAIN byAddress' = {}
      BY <3>1 DEF ResolverInv
    <3> QED
      BY <3>2 DEF ResolverInv
  <2> QED
    BY <2>3, <2>4, <2>5, <2>6, <2>7, <2>8, <2>9, <2>10, Steps DEF IngestRun
<1> QED
  BY TypedHolds, <1>1, <1>2, PTL DEF TelemetrySpec

(* Events are made with a witness and without a label.                     *)
LEMMA ViewsWitnessed ==
  ASSUME Typed, CallsInv, NEW e \in NewViews
  PROVE  Witnessed(e) /\ e.label = "none"
<1>1. e.label = "none"
  BY DEF NewViews, PairEvent, SingleEvent, NewEvent
<1>2. CASE \E p \in Pairs : e = PairEvent(p)
  <2>1. PICK p \in Pairs : e = PairEvent(p)
    BY <1>2
  <2>2. PICK i \in DOMAIN views : /\ i = p[2] /\ e.id = views[i] /\ e.id \in e.lines
                                  /\ e.at = View(i).at /\ e.dst = views[i][1]
    BY <2>1, PairFacts
  <2>3. PICK n \in DOMAIN calls : PairOf(e, n)
    BY <2>1, PairTruth
  <2>4. PICK f : f = e.id[1] /\ f \in Meshed /\ e.id[2] \in DOMAIN file[f]
    BY <2>2, ViewFacts
  <2>5. Line(e.id).call = n /\ e.src = calls[n].client
    BY <2>2, <2>3 DEF PairOf
  <2>6. Present(f, Line(e.id)) = {e.dst, e.src}
    BY <2>2, <2>4, <2>5, NameFacts DEF Present
  <2> QED
    BY <1>1, <2>2, <2>4, <2>6, NameFacts DEF Witnessed, View
<1>3. CASE \E i \in Singles : e = SingleEvent(i)
  <2>1. PICK i \in DOMAIN views : e = SingleEvent(i)
    BY <1>3 DEF Singles
  <2>2. /\ e.id = views[i] /\ e.id \in e.lines /\ e.at = View(i).at
        /\ \/ e.src = Resolve(View(i).from) /\ e.dst = views[i][1]
           \/ e.src = views[i][1] /\ e.dst \in {"svc", "world"}
    BY <2>1, SingleFacts
  <2>3. PICK f : f = e.id[1] /\ f = views[i][1] /\ f \in Meshed /\ e.id[2] \in DOMAIN file[f]
    BY <2>2, ViewFacts
  <2>4. f \in Present(f, Line(e.id)) /\ f # "flows"
    BY <2>3, NameFacts DEF Present
  <2>5. View(i) = Line(e.id)
    BY <2>2 DEF View
  <2>6. {"svc", "world"} \cap Pods = {}
    BY PodAssumption DEF Others
  <2>7. ASSUME NEW p \in {e.src, e.dst} \cap Pods
        PROVE  \/ p \in Present(f, Line(e.id))
               \/ /\ Line(e.id).from \in DOMAIN byAddress
                  /\ p = byAddress[Line(e.id).from]
    <3>1. p = f \/ p = Resolve(Line(e.id).from)
      BY <2>2, <2>3, <2>5, <2>6
    <3> QED
      BY <2>4, <3>1, ResolveFacts
  <2> QED
    BY <1>1, <2>2, <2>3, <2>4, <2>5, <2>7, NameFacts DEF Witnessed
<1> QED
  BY <1>2, <1>3 DEF NewViews

LEMMA FlowWitnessed ==
  ASSUME NEW e, NEW n, FlowEvent(e, n)
  PROVE  Witnessed(e) /\ e.label = "none"
<1>1. PICK f : f = "flows" /\ f \in Files
  BY NameFacts
<1>2. PICK line : line = file[f][n] /\ line = Line(<<f, n>>)
  BY DEF Line
<1>3. /\ n \in DOMAIN file[f] /\ e.id = <<f, n>> /\ e.lines = {<<f, n>>}
      /\ e.at = line.at /\ e.label = "none"
      /\ {e.src, e.dst} \subseteq {line.src, line.dst, "dns"}
  BY <1>1, <1>2 DEF FlowEvent
<1>4. "dns" \notin Pods
  BY PodAssumption DEF Others
<1>5. Present(f, line) = {line.src, line.dst} \cap Pods
  BY <1>1 DEF Present
<1>6. e.id[1] = f /\ e.id[2] = n /\ Line(e.id) = line
  BY <1>2, <1>3
<1>7. \A p \in {e.src, e.dst} \cap Pods : p \in Present(f, line)
  BY <1>3, <1>4, <1>5
<1> QED
  BY <1>1, <1>3, <1>6, <1>7 DEF Witnessed

LEMMA AuditWitnessed ==
  ASSUME NEW e, NEW n, AuditEvent(e, n)
  PROVE  Witnessed(e) /\ e.label = "none"
<1>1. PICK f : f = "audit" /\ f \in Files
  BY NameFacts
<1>2. PICK line : line = file[f][n] /\ line = Line(<<f, n>>)
  BY DEF Line
<1>3. /\ n \in DOMAIN file[f] /\ e.id = <<f, n>> /\ e.lines = {<<f, n>>}
      /\ e.at = line.at /\ e.label = "none" /\ e.dst = "kubeapi"
      /\ line.from \in DOMAIN byAddress /\ e.src = byAddress[line.from]
  BY <1>1, <1>2 DEF AuditEvent
<1>4. "kubeapi" \notin Pods /\ f # "flows"
  BY <1>1, PodAssumption DEF Others
<1>5. e.id[1] = f /\ e.id[2] = n /\ Line(e.id) = line
  BY <1>2, <1>3
<1> QED
  BY <1>1, <1>3, <1>4, <1>5 DEF Witnessed

LEMMA WitnessKept ==
  ASSUME UNCHANGED <<calls, file, byAddress>>, NEW e, Witnessed(e)
  PROVE  Witnessed(e)'
  BY DEF Witnessed, Present, Line

EventInv == WitnessInv /\ LabelInv

LEMMA EventsAdded ==
  ASSUME EventInv, UNCHANGED <<calls, file, byAddress>>, step # "done", step' # "done",
         NEW new, events' = events \cup new,
         \A e \in new : Witnessed(e) /\ e.label = "none"
  PROVE  EventInv'
<1>1. \A e \in events' : Witnessed(e) /\ e.label = "none"
  BY DEF EventInv, WitnessInv, LabelInv
<1>2. WitnessInv'
  BY <1>1, WitnessKept DEF WitnessInv
<1> QED
  BY <1>1, <1>2 DEF EventInv, LabelInv

LEMMA EventsLabelled == Typed /\ EventInv /\ Label => EventInv'
<1> SUFFICES ASSUME Typed, EventInv, Label PROVE EventInv'
  OBVIOUS
<1>1. /\ step = "label" /\ step' = "done"
      /\ UNCHANGED <<calls, file, attack, entities, byAddress>>
      /\ \A e \in events' : \E d \in events : Relabeled(e, d)
  BY LabelFacts DEF cluster, capture
<1>2. ASSUME NEW e \in events' PROVE Witnessed(e)'
  <2>1. PICK d \in events : Relabeled(e, d)
    BY <1>1
  <2>2. e.id = d.id /\ e.lines = d.lines /\ e.src = d.src /\ e.dst = d.dst /\ e.at = d.at
    BY <2>1 DEF Relabeled
  <2>3. Witnessed(d)
    BY DEF EventInv, WitnessInv
  <2>4. Witnessed(e)
    BY <2>2, <2>3 DEF Witnessed
  <2> QED
    BY <1>1, <2>4, WitnessKept
<1>3. ASSUME NEW e \in events'
      PROVE  e.label = IF attack = <<>> THEN "none"
                       ELSE IF Malicious(e) THEN "malicious" ELSE "benign"
  <2>1. PICK d \in events : Relabeled(e, d)
    BY <1>1
  <2>2. d.label = "none"
    BY <1>1 DEF EventInv, LabelInv
  <2>3. Malicious(e) <=> Malicious(d)
    BY <2>1 DEF Relabeled, Malicious
  <2> QED
    BY <2>1, <2>2, <2>3 DEF Relabeled
<1>4. \A e : Malicious(e)' <=> Malicious(e)
  BY <1>1 DEF Malicious, AttackerIds
<1> QED
  BY <1>1, <1>2, <1>3, <1>4 DEF EventInv, WitnessInv, LabelInv

LEMMA EventsHold == TelemetrySpec => []EventInv
<1>1. TelemetryInit => EventInv
  BY DEF TelemetryInit, EventInv, WitnessInv, LabelInv
<1>2. Typed /\ CallsInv /\ EventInv /\ [TelemetryNext]_vars => EventInv'
  <2> SUFFICES ASSUME Typed, CallsInv, EventInv, [TelemetryNext]_vars PROVE EventInv'
    OBVIOUS
  <2>1. CASE UNCHANGED vars
    <3>1. UNCHANGED <<step, calls, file, attack, entities, byAddress, events>>
      BY <2>1 DEF vars, cluster, capture, ingested
    <3>2. \A e \in events : Witnessed(e)'
      BY <3>1, WitnessKept DEF EventInv, WitnessInv
    <3>3. \A e : Malicious(e)' <=> Malicious(e)
      BY <3>1 DEF Malicious, AttackerIds
    <3> QED
      BY <3>1, <3>2, <3>3 DEF EventInv, WitnessInv, LabelInv
  <2>2. ASSUME Typed', step' \notin Merged PROVE EventInv'
    <3>1. events' = {}
      BY <2>2 DEF Typed, LogsRead
    <3> QED
      BY <3>1 DEF EventInv, WitnessInv, LabelInv
  <2>3. CASE CaptureStep
    BY <2>2, <2>3, Steps, TypedStutters DEF CaptureStep, Phases, Merged
  <2>4. CASE ReadSnapshot \/ ReadLog
    BY <2>2, <2>4, TypedReadSnapshot, TypedReadLog DEF ReadSnapshot, ReadLog, Merged
  <2>5. CASE MergeViews
    <3>1. /\ events' = events \cup NewViews /\ step # "done" /\ step' # "done"
          /\ UNCHANGED <<calls, file, byAddress>>
      BY <2>5, MergeFacts DEF cluster, capture
    <3> QED
      BY <3>1, ViewsWitnessed, EventsAdded
  <2>6. CASE ParseFlows
    <3>1. PICK new : events' = events \cup new /\ \A e \in new : \E n : FlowEvent(e, n)
      BY <2>6, FlowsFacts
    <3>2. step # "done" /\ step' # "done" /\ UNCHANGED <<calls, file, byAddress>>
      BY <2>6, FlowsFacts DEF cluster, capture
    <3> QED
      BY <3>1, <3>2, FlowWitnessed, EventsAdded
  <2>7. CASE ParseAudit
    <3>1. PICK new : events' = events \cup new /\ \A e \in new : \E n : AuditEvent(e, n)
      BY <2>7, AuditsFacts
    <3>2. step # "done" /\ step' # "done" /\ UNCHANGED <<calls, file, byAddress>>
      BY <2>7, AuditsFacts DEF cluster, capture
    <3> QED
      BY <3>1, <3>2, AuditWitnessed, EventsAdded
  <2> QED
    BY <2>1, <2>3, <2>4, <2>5, <2>6, <2>7, Steps, EventsLabelled DEF IngestRun
<1> QED
  BY TypedHolds, CallsHold, <1>1, <1>2, PTL DEF TelemetrySpec

(* Labels are the truth: with a session window in attack.json an event is  *)
(* labelled malicious only when the attacker took part in what its line    *)
(* reports, though its address belonged to other pods before and after and *)
(* the logs know addresses only; with the attacker's namespace every flow  *)
(* of the attacker during the session is (labeler.py:82-88).               *)
THEOREM LabelsTellTheTruth == TelemetrySpec => []LabelsAreTrue
<1>1. Typed /\ ClusterInv /\ SessionInv /\ ResolverInv /\ EventInv /\ RegisteredInv
        => LabelsAreTrue
  BY BlameImplies DEF ClusterInv, EventInv, RegisteredInv
<1> QED
  BY TypedHolds, SessionHolds, ResolverHolds, EventsHold, RegisteredHolds, <1>1, PTL
=============================================================================
