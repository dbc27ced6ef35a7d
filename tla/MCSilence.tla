------------------------------- MODULE MCSilence -------------------------------
(* GatewaySilence for TLC: messages are late only while one gateway runs,    *)
(* which keeps the two subscriptions small.                                  *)
EXTENDS GatewaySilence, TLC

MCInit   == Init /\ (lag > 0 => Cardinality(up) = 1)
MCSpec   == MCInit /\ [][Next]_vars
Symmetry == Permutations(Gateways)
=============================================================================
