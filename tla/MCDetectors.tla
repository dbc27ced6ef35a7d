----------------------------- MODULE MCDetectors -----------------------------
(* Detectors for TLC: a trace holds one event to which two rules of          *)
(* l1_classify apply, and one whose clock is off and whose size is wrong.     *)
(* Devices share no state, so a pair of which one is stealthy is enough.      *)
EXTENDS Detectors, TLC

MCTrace == {Says("vulnerable_send", "over", SPOOF_S),
            Says("safe_send", "nonpositive", -SPOOF_S)}

MCInit == Init /\ \E d \in Devices : source[d] = "stealth"
MCSpec == MCInit /\ [][Next]_vars

Symmetry == Permutations(Devices)
=============================================================================
