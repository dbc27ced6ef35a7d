------------------------------- MODULE MCFlows -------------------------------
(* Captures of a few flows, with times in half seconds.  The script of a     *)
(* behaviour decides which rows make a difference: failed and other flows,   *)
(* rows without a time, a day of a few seconds.                              *)
EXTENDS Flows, TLC

Row(S, X, T, timed, failed) ==
  [src : S, dst : X, ts : T, timed : {timed}, failed : {failed}]

MCTimes == {0, 1, 3, 6, 8}

MCRowsOf ==
  [s \in AllScripts |->
     CASE s = "ctu13" -> Row({1}, Dsts, MCTimes \cup {12, 13}, TRUE, FALSE)
                           \cup Row({1}, Dsts, {0}, FALSE, FALSE)
       [] s = "iot23" -> Row(Hosts, Dsts, MCTimes, TRUE, TRUE)
                           \cup Row({1}, Dsts, {1, 2, 3}, TRUE, FALSE)
       [] OTHER -> Row(Hosts, Dsts, MCTimes, TRUE, TRUE) \cup Row({1}, Dsts, {2}, TRUE, FALSE)
                     \cup Row({1}, Dsts, {0}, FALSE, TRUE)]
Symmetry == Permutations(Dsts)
=============================================================================
