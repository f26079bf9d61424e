---------------------------- MODULE MCDetection ----------------------------
(* Two pods behind a Service, a DNS name, the API server and a second      *)
(* Service; requests that reach the pod, the Service or the caller itself, *)
(* a flow, queries, an API call.                                           *)
EXTENDS Detection

MCEntities == 1..6
MCTypeOf == <<"Pod", "Pod", "Service", "DNSName", "KubeAPI", "Service">>

MCLooks == {"get", "post", "dropped", "name", "list", "exfil", "burst"}

Kind(type, src, dst, svc, look) ==
  [type |-> type, src |-> src, dst |-> dst, svc |-> svc, look |-> look]

MCKinds ==
  {Kind("RPC_CALL", 1, 2, 3, "get"), Kind("RPC_CALL", 2, 3, 3, "post"),
   Kind("RPC_CALL", 2, 2, 3, "get"), Kind("L4_FLOW", 2, 1, 0, "dropped"),
   Kind("DNS_QUERY", 2, 4, 0, "name"), Kind("K8S_API_CALL", 1, 5, 0, "list")}

Request(method, path, views) ==
  [protocol |-> 0, method |-> method, path |-> path, status |-> 2, grpc_status |-> 1,
   flags |-> {0, 7}, scaled |-> 0, reporter_views |-> views]

(* Each type of event has the first and the last slot of its blocks.       *)
MCFields ==
  [get     |-> Request(0, 21, 1),
   post    |-> Request(1, 22, 2),
   dropped |-> [l4_proto |-> 0, port |-> 20, verdict |-> 1, drop_reason |-> 1, is_reply |-> 2],
   name    |-> [qtype |-> 0, name |-> 31, name_kind |-> 1, rcode |-> 5],
   list    |-> [verb |-> 0, resource |-> 41, subresource |-> 0, user |-> 0, status |-> 5]]
=============================================================================
