------------------------------ MODULE MCConsumers ------------------------------
(* Streams in which the drains meet: verdicts for all engines and for some,  *)
(* ticks between them, a message that does not decode before and after them. *)
EXTENDS Consumers

MCSound   == {<<"overflow", "other", "overflow">>, <<"tick", "overflow", "tick">>}
MCStreams == MCSound \cup {<<"poison", "overflow">>, <<"overflow", "poison">>,
                           <<"tick", "poison">>}
=============================================================================
