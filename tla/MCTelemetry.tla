---------------------------- MODULE MCTelemetry ----------------------------
(***************************************************************************)
(* A small cluster for TLC.                                                *)
(***************************************************************************)
EXTENDS Telemetry, TLC

MCFileOrder == <<"a", "b">>

(* Either many lines in a quiet cluster, or few while pods come and go.    *)
MCBounds == {[calls |-> 2, flows |-> 0, audits |-> 0, lines |-> 4, moves |-> 0],
             [calls |-> 1, flows |-> 1, audits |-> 1, lines |-> 1, moves |-> 2]}
AddressSymmetry == Permutations(Addresses)
=============================================================================
