------------------------------- MODULE Features -------------------------------
(***************************************************************************)
(* The feature vectors of the ppt detector's event nodes (ppt/features.py),*)
(* as the set of their slots that are 1.  One block of slots for each      *)
(* field, after those for the event's type and time; the blocks of a type  *)
(* of events after those of the types before it.                           *)
(***************************************************************************)
EXTENDS Sentences, Totals

CONSTANTS
  TimeDim,                  \* features.time_enc_dim
  PathDim, NameDim, ResDim  \* features.path_vocab, dns_vocab, api_resource_vocab

(* A vocabulary of size 0 would still have the slot of unknown words.      *)
ASSUME FeaturesAssumption ==
  /\ TimeDim \in Nat
  /\ {PathDim, NameDim, ResDim} \subseteq Nat \ {0}

TypeOrder == <<"RPC_CALL", "L4_FLOW", "DNS_QUERY", "K8S_API_CALL">>

(* The blocks of a type of events in order, and their widths.              *)
Layout ==
  [RPC_CALL     |-> <<"protocol", "method", "path", "status", "grpc_status", "flags",
                      "scaled", "reporter_views">>,
   L4_FLOW      |-> <<"l4_proto", "port", "verdict", "drop_reason", "is_reply">>,
   DNS_QUERY    |-> <<"qtype", "name_kind", "name", "rcode">>,
   K8S_API_CALL |-> <<"verb", "resource", "subresource", "user", "status">>]

Width ==
  [protocol |-> 3, method |-> 10, path |-> PathDim, status |-> 6, grpc_status |-> 3,
   flags |-> 11, scaled |-> 3, reporter_views |-> 1,
   l4_proto |-> 4, port |-> 21, verdict |-> 6, drop_reason |-> 3, is_reply |-> 3,
   qtype |-> 10, name_kind |-> 3, name |-> NameDim, rcode |-> 6,
   verb |-> 10, resource |-> ResDim, subresource |-> 7, user |-> 4]

(* What a field holds: a class, a word or a set of flags; the kind of a    *)
(* name follows from the name, and the scaled measures are left out.       *)
KindOf(name) == CASE name = 0 -> 2 [] name = 1 -> 0 [] OTHER -> 1

Holds(F, f) ==
  CASE f \in {"path", "resource"} -> TRUE
    [] f = "name"                 -> F.name \in Nat
    [] f = "name_kind"            -> F.name_kind = KindOf(F.name)
    [] f = "flags"                -> F.flags \subseteq 0..Width[f] - 1
    [] f = "reporter_views"       -> F.reporter_views \in {1, 2}
    [] f = "scaled"               -> F.scaled = 0
    [] OTHER                      -> F[f] \in 0..Width[f] - 1

ASSUME FieldsAssumption ==
  \A e \in Kinds :
    LET F == Fields[e.look]
    IN  /\ DOMAIN F = {Layout[e.type][b] : b \in DOMAIN Layout[e.type]}
        /\ \A f \in DOMAIN F : Holds(F, f)

WidthOf(blocks) == Total([b \in DOMAIN blocks |-> Width[blocks[b]]])

(* Slip: the flag for requests seen from both ends is not counted. *)
DimShort(type) == WidthOf(Layout[type]) - (IF type = "RPC_CALL" THEN 1 ELSE 0)

(* rpc_dim, l4_dim, dns_dim_total, api_dim_total                           *)
Dim(type) == WidthOf(Layout[type])

Shared == Len(TypeOrder) + TimeDim + 1

(* event_dim                                                               *)
EventDim == Shared + Total([t \in DOMAIN TypeOrder |-> Dim(TypeOrder[t])])

(* The first slot in a vector of each block of the t-th type.              *)
FirstSlot ==
  [t \in DOMAIN TypeOrder |->
    LET blocks == Layout[TypeOrder[t]]
    IN  [b \in DOMAIN blocks |->
           Shared + Total([u \in 1..t - 1 |-> Dim(TypeOrder[u])])
                  + Total([c \in 1..b - 1 |-> Width[blocks[c]]])]]

----------------------------------------------------------------------------
OOV == 0

(* PPTFeatureSpec.fit: the indices of the dim - 1 most frequent words of   *)
(* field f in the events R, the first to occur first; external names only. *)
Vocabulary(R, f, dim) ==
  LET has(i)   == f \in DOMAIN Fields[R[i].e.look] /\ (f = "name" => Fields[R[i].e.look].name > 1)
      uses(w)  == {i \in {j \in DOMAIN R : has(j)} : Fields[R[i].e.look][f] = w}
      words    == {Fields[R[i].e.look][f] : i \in {j \in DOMAIN R : has(j)}}
      count(w) == Cardinality(uses(w))
      start(w) == CHOOSE i \in uses(w) : \A j \in uses(w) : i <= j
      ahead(w) == {x \in words : count(x) > count(w) \/ (count(x) = count(w) /\ start(x) < start(w))}
  IN  [w \in {x \in words : Cardinality(ahead(x)) < dim - 1} |-> Cardinality(ahead(w)) + 1]

Fit(R) == [path     |-> Vocabulary(R, "path", PathDim),
           name     |-> Vocabulary(R, "name", NameDim),
           resource |-> Vocabulary(R, "resource", ResDim)]

Index(vocab, w) == IF w \in DOMAIN vocab THEN vocab[w] ELSE OOV

(* The slots of field f that an event with fields F sets: for a word its   *)
(* index, for the kind of a name cluster, external or none.                *)
Settings(F, f, spec, strip) ==
  CASE f \in {"path", "resource"}           -> {Index(spec[f], F[f])}
    [] f = "name"                           -> {Index(spec.name, x) : x \in {F.name} \ {0, 1}}
    [] f = "name_kind"                      -> {KindOf(F.name)}
    [] f = "flags"                          -> F.flags
    [] f = "reporter_views"                 -> IF F.reporter_views = 2 THEN {0} ELSE {}
    [] f = "scaled"                         -> {}
    [] f \in {"verdict", "drop_reason"}     -> IF strip THEN {} ELSE {F[f]}
    [] OTHER                                -> {F[f]}

(* The place of a type of events among the types.                          *)
Place(type) == CHOOSE t \in DOMAIN TypeOrder : TypeOrder[t] = type

(* event_features, but for the slots of its place and time.                *)
Vector(e, spec, strip) ==
  LET t      == Place(e.type)
      blocks == Layout[e.type]
  IN  {t - 1} \cup
      UNION {{FirstSlot[t][b] + v : v \in Settings(Fields[e.look], blocks[b], spec, strip)} :
               b \in DOMAIN blocks}
=============================================================================
