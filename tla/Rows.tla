-------------------------------- MODULE Rows --------------------------------
(***************************************************************************)
(* What the detectors read of a stored run: the entities table and the     *)
(* events in the order of time.  Windows are as wide as their stride here, *)
(* as those of ppt are, so an event falls into one of them, at some time   *)
(* since that window began; the first event begins the first window        *)
(* (module Windows has overlapping windows, too).                          *)
(***************************************************************************)
EXTENDS Naturals, Sequences, FiniteSets

CONSTANTS
  Entities,   \* the ids in the entities table but for workloads, numbered in the order in which they sort
  TypeOf,     \* their types
  Looks,      \* what events may do, up to what the models tell apart
  Kinds,      \* the events there may be, without their time
  Positions,  \* the places of the windows in time
  Ticks,      \* windows.width_s and windows.stride_s, in ticks of time
  MinTail,    \* windows.min_tail_s, in such ticks
  MaxRows     \* bound on the number of events

NoSvc  == 0  \* dst_svc_id is None
Anyone == 0  \* only_entity is None

EventTypes  == {"RPC_CALL", "L4_FLOW", "DNS_QUERY", "K8S_API_CALL"}
EntityTypes == {"Pod", "Service", "DNSName", "ExternalEndpoint", "KubeAPI"}

(* The columns of an event: type, endpoints, and in look what it did.  A   *)
(* DNS name is the destination of the DNS queries and no source; only      *)
(* requests have a fronting Service.                                       *)
KindRecords == [type : EventTypes, src : Nat, dst : Nat, svc : Nat, look : Looks]
ASSUME EntitiesAssumption ==
  /\ Entities \subseteq Nat \ {NoSvc}
  /\ TypeOf \in [Entities -> EntityTypes]
ASSUME KindsAssumption ==
  /\ Kinds \subseteq KindRecords
  /\ \A e \in Kinds :
       /\ e.svc # NoSvc => e.type = "RPC_CALL" /\ e.svc \in Entities /\ TypeOf[e.svc] = "Service"
       /\ e.src \in Entities => TypeOf[e.src] # "DNSName"
       /\ e.dst \in Entities => (TypeOf[e.dst] = "DNSName" <=> e.type = "DNS_QUERY")
ASSUME BoundsAssumption ==
  /\ Positions \subseteq Nat
  /\ Ticks \in Nat \ {0} /\ MinTail \in Nat
  /\ MaxRows \in Nat

VARIABLE rows  \* the events of the run, sorted by time

Offsets == 0..Ticks - 1
Row == [pos : Positions, since : Offsets, e : Kinds]

NotAfter(r, s) == r.pos < s.pos \/ (r.pos = s.pos /\ r.since <= s.since)
Sorted(R) == \A i, j \in DOMAIN R : i < j => NotAfter(R[i], R[j])

(* The tables there may be: load_run, sorted by time.                      *)
Tables ==
  UNION {{R \in [1..n -> Row] : R[1].pos = 0 /\ R[1].since = 0 /\ Sorted(R)} : n \in 1..MaxRows}

(* The events of one window.                                               *)
At(R, p) == {i \in DOMAIN R : R[i].pos = p}

(* Window p, not the first, is the last and has not lasted min_tail_s.     *)
ShortTail(R, p) ==
  /\ p > 0
  /\ \A i \in DOMAIN R : R[i].pos < p \/ (R[i].pos = p /\ R[i].since < MinTail)

(* The windows that iter_windows yields: those with events, but for a      *)
(* short tail.                                                             *)
Yielded(R) == {p \in {R[i].pos : i \in DOMAIN R} : ~ ShortTail(R, p)}
=============================================================================
