------------------------------ MODULE RelayLog ------------------------------
(***************************************************************************)
(* What the gateway's outbox promises its readers, whatever it does to     *)
(* keep the promise: a verdict that entered the log is delivered to the    *)
(* backend, once in effect and in log order, and nothing else is.          *)
(* Outbox implements this module (Outbox!Promise).                         *)
(***************************************************************************)
EXTENDS Naturals, Sequences

CONSTANT Verdict        \* the verdicts a gateway may emit

VARIABLES log,          \* the verdicts accepted for relay, in order
          delivered     \* the verdicts the backend can read

logVars == <<log, delivered>>

LogInit == log = <<>> /\ delivered = {}

(* A new verdict is accepted. *)
Accept == /\ \E v \in Verdict \ {log[i] : i \in DOMAIN log} : log' = Append(log, v)
          /\ UNCHANGED delivered

(* The oldest verdict that is not delivered yet is delivered.  A copy of a
   delivered verdict has no effect: it is a stuttering step. *)
Deliver == /\ \E i \in DOMAIN log :
                /\ log[i] \notin delivered
                /\ \A j \in 1..(i - 1) : log[j] \in delivered
                /\ delivered' = delivered \cup {log[i]}
           /\ UNCHANGED log

LogNext == Accept \/ Deliver

LogSafety == LogInit /\ [][LogNext]_logVars
LogSpec   == LogSafety /\ WF_logVars(Deliver)
=============================================================================
