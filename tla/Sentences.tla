------------------------------ MODULE Sentences ------------------------------
(***************************************************************************)
(* The behaviour sentences of the flash detector (sentences.py): what the  *)
(* events of a window say about an entity, without saying who took part.   *)
(***************************************************************************)
EXTENDS Rows, SequencesExt

CONSTANTS
  Fields,      \* the fields of the event views, by look, each in its class
  MaxRepeats,  \* sentences.max_repeats_per_signature
  MaxTokens    \* sentences.max_tokens

(* A flag set is the only field that is no number; 0 is the name of no     *)
(* query, and the first class of the others.                               *)
ASSUME SentencesAssumption ==
  /\ \A e \in Kinds : e.look \in DOMAIN Fields
  /\ MaxRepeats \in Nat \ {0} /\ MaxTokens \in Nat \ {0}

(* The members of S in order, each by how many are before it.              *)
InOrder(S, before(_, _)) ==
  [k \in 1..Cardinality(S) |->
    CHOOSE x \in S : Cardinality({y \in S : before(y, x)}) = k - 1]

(* Slip: a query is told with its name to both ends. *)
FieldsToldNamed(type, view, strip) ==
  CASE type = "RPC_CALL"     -> <<"protocol", "method", "path", "status">>
    [] type = "L4_FLOW"      -> <<"l4_proto", "port">> \o (IF strip THEN <<>> ELSE <<"verdict">>)
    [] type = "DNS_QUERY"    -> <<"qtype", "name", "rcode">>
    [] type = "K8S_API_CALL" -> <<"verb", "resource", "user", "status">>

(* The fields of an event that one end is told, "out" or "in".  Only who   *)
(* asks is told which name.                                                *)
FieldsTold(type, view, strip) ==
  CASE type = "RPC_CALL"     -> <<"protocol", "method", "path", "status">>
    [] type = "L4_FLOW"      -> <<"l4_proto", "port">> \o (IF strip THEN <<>> ELSE <<"verdict">>)
    [] type = "DNS_QUERY"    -> IF view = "out" THEN <<"qtype", "name", "rcode">>
                                                ELSE <<"qtype", "rcode">>
    [] type = "K8S_API_CALL" -> <<"verb", "resource", "user", "status">>

(* event_tokens: the event's type and view, then its fields, a resource    *)
(* with its subresource, and the flags of a request, one by one.           *)
Tokens(e, view, strip) ==
  LET F     == Fields[e.look]
      told  == FieldsTold(e.type, view, strip)
      flags == InOrder(IF e.type = "RPC_CALL" THEN F.flags ELSE {}, <)
  IN  <<<<e.type, view>>>> \o
      [k \in DOMAIN told |->
        <<told[k], IF told[k] = "resource" THEN <<F.resource, F.subresource>> ELSE F[told[k]]>>] \o
      [k \in DOMAIN flags |-> <<"flags", flags[k]>>]

(* The sides from which n sees event e; a Service also from the front.     *)
SidesOf(e, n) ==
  (IF e.src = n THEN <<"out">> ELSE <<>>) \o
  (IF e.dst = n THEN <<"in">> ELSE <<>>) \o
  (IF n = e.svc /\ n \notin {NoSvc, e.dst} THEN <<"in">> ELSE <<>>)

(* per_entity[n]: what the rows of window p tell n, row by row.            *)
Items(R, p, n, strip) ==
  FlattenSeq([i \in DOMAIN R |->
    LET sides == IF R[i].pos = p THEN SidesOf(R[i].e, n) ELSE <<>>
    IN  [k \in DOMAIN sides |-> [row |-> i, toks |-> Tokens(R[i].e, sides[k], strip)]]])

(* Which of k occurrences of a signature are kept: the first, the middle,  *)
(* the last and the first MaxRepeats, of these the MaxRepeats first.       *)
Picks(k) ==
  IF k <= MaxRepeats THEN 0..k - 1
  ELSE LET wanted == {0, k \div 2, k - 1} \cup 0..MaxRepeats - 1
       IN  {j \in wanted : Cardinality({h \in wanted : h < j}) < MaxRepeats}

(* The indices of the items that are kept, by time; those of one event in  *)
(* the order in which their signatures first occur.                        *)
Kept(items) ==
  LET same(k)  == {j \in DOMAIN items : items[j].toks = items[k].toks}
      rank(k)  == Cardinality({j \in same(k) : j < k})
      first(k) == CHOOSE j \in same(k) : \A h \in same(k) : j <= h
  IN  InOrder({k \in DOMAIN items : rank(k) \in Picks(Cardinality(same(k)))},
        LAMBDA j, k : \/ items[j].row < items[k].row
                      \/ items[j].row = items[k].row /\ first(j) < first(k))

(* Slips: the sentence is not cut; it is cut off at its end. *)
Uncut(flat) == flat

CutTo(flat) == IF Len(flat) <= MaxTokens THEN flat ELSE SubSeq(flat, 1, MaxTokens)

(* Too many tokens are thinned out evenly.                                 *)
Thinned(flat) ==
  IF Len(flat) <= MaxTokens THEN flat
  ELSE [i \in 1..MaxTokens |-> flat[((i - 1) * Len(flat)) \div MaxTokens + 1]]

(* build_sentences: the sentence of entity n in window p.                  *)
Sentence(R, p, n, strip) ==
  LET items == Items(R, p, n, strip)
      kept  == Kept(items)
  IN  Thinned(FlattenSeq([k \in DOMAIN kept |-> items[kept[k]].toks]))
=============================================================================
