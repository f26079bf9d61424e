------------------------------ MODULE MCIngest ------------------------------
(* Ingest on three run directories; the one of run 3 comes first in glob   *)
(* order and run 2 belongs to a benchmark that is not configured.          *)
EXTENDS Ingest

MCBench == [r \in Runs |-> IF r = 2 THEN <<"social">> ELSE <<"boutique">>]
MCBenchmarks == {<<"boutique">>}
MCDirPos == [r \in Runs |-> 4 - r]
=============================================================================
