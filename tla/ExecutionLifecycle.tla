------------------------- MODULE ExecutionLifecycle -------------------------
(***************************************************************************)
(* What the orchestrator promises of each execution of a bulk job, without *)
(* queues, waves, timers, connections or suspended handlers: an execution  *)
(* is claimed before its command goes out, the command goes out at most    *)
(* once, a verdict is only given to a claimed execution (and may be        *)
(* corrected by a later one), and a skipped execution stays untouched.     *)
(***************************************************************************)
EXTENDS Naturals

CONSTANT Execs

VARIABLES
    status,     \* what is recorded of an execution
    deliveries  \* how often its agent received the command

vars == <<status, deliveries>>

Init ==
    /\ status = [e \in Execs |-> "PENDING"]
    /\ deliveries = [e \in Execs |-> 0]

(* The execution is marked RUNNING, or refused because its agent is offline *)
Claim(e) ==
    /\ status[e] = "PENDING"
    /\ \E s \in {"RUNNING", "FAILED"} : status' = [status EXCEPT ![e] = s]
    /\ UNCHANGED deliveries

(* The agent gets the command; a verdict can already have been recorded,    *)
(* when the connection was lost while the command was on its way.           *)
Deliver(e) ==
    /\ status[e] \notin {"PENDING", "SKIPPED"}
    /\ deliveries[e] = 0
    /\ deliveries' = [deliveries EXCEPT ![e] = 1]
    /\ UNCHANGED status

Conclude(e) ==
    /\ status[e] \notin {"PENDING", "SKIPPED"}
    /\ \E s \in {"SUCCESS", "FAILED"} : status' = [status EXCEPT ![e] = s]
    /\ UNCHANGED deliveries

(* A job that is aborted skips a set of executions in one step.             *)
Skip(es) ==
    /\ \A e \in es : status[e] = "PENDING" \/ status[e] = "SKIPPED"
    /\ status' = [e \in Execs |-> IF e \in es THEN "SKIPPED" ELSE status[e]]
    /\ UNCHANGED deliveries

Next ==
    \/ \E e \in Execs : Claim(e) \/ Deliver(e) \/ Conclude(e)
    \/ \E es \in SUBSET Execs : Skip(es)

Spec == Init /\ [][Next]_vars
=============================================================================
