----------------------------- MODULE MCCorrelator -----------------------------
(* The windows of the formulas, scaled so that alerts of a few seconds fall  *)
(* inside, at the edge of and outside them.                                  *)
EXTENDS Correlator, TLC

MCWindow == [e \in AllEngines |-> IF e = "P3.3" THEN 3 ELSE 2]
MCKinds  == [e \in AllEngines |->
               CASE e = "P3.1" -> {"overflow", "fuzzing"}
                 [] e = "P3.3" -> {"overflow", "time_anomaly", "safe_tx"}
                 [] OTHER      -> {"overflow", "dos_spam"}]
Symmetry == Permutations(Devices) \cup Permutations(Gateways)
=============================================================================
