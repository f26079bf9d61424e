----------------------------- MODULE MCPipeline -----------------------------
(* The pipeline on run directories of one benchmark, in a glob order that  *)
(* is not the order of time.                                               *)
EXTENDS Pipeline

MCBench == [r \in Runs |-> <<"boutique">>]
MCBenchmarks == {<<"boutique">>}
MCDirPos == [r \in Runs |-> Cardinality(Runs) + 1 - r]
=============================================================================
