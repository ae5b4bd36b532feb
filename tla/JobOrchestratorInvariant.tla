---------------------- MODULE JobOrchestratorInvariant ----------------------
(***************************************************************************)
(* The inductive invariant behind the life cycle of executions: each one   *)
(* is in one of four phases, which it passes through in this order, and    *)
(* whatever can still be dispatched or skipped is in the first one.  The   *)
(* jobs that wait more than once are the exception: when two evaluations  *)
(* of a wave arm two wait timers, both run the wave that is current when   *)
(* they fire, so their executions may be claimed again.                    *)
(***************************************************************************)
EXTENDS JobOrchestrator

ExecOps == WriteOps \cup SendOps \cup LookupOps \cup {"check"}

(* The pending awaits of an execution, and those that start a job.          *)
OfExec(e) == {a \in BagToSet(awaiting) : a.op \in ExecOps /\ a.exec = e}
OfStart(j) == {a \in BagToSet(awaiting) : a.op \in {"create", "start"} /\ a.job = j}

Untouched(e) ==
    inflight[e] = "absent" /\ loose[e] = 0 /\ received[e] = 0 /\ atAgent[e] = 0

Sole(S, a) == S = {a} /\ awaiting[a] = 1

(* What two wait timers may have run twice.                                 *)
Repeated(e) == Repeats(JobOf[e]) /\ execStatus[e] # "SKIPPED"

(* The four phases.                                                         *)
Fresh(e) ==
    /\ execStatus[e] \in {"PENDING", "SKIPPED"}
    /\ Untouched(e) /\ OfExec(e) = {} /\ e \notin running
Claimed(e) ==
    /\ execStatus[e] = "PENDING" /\ Untouched(e)
    /\ \E o \in {"run", "offline"} : Sole(OfExec(e), At(o, e))
MarkedRunning(e) ==
    /\ execStatus[e] = "RUNNING" /\ Untouched(e)
    /\ Sole(OfExec(e), Now("run", e))
SentOnce(e) ==
    LET sends == {a \in OfExec(e) : a.op \in SendOps}
    IN  /\ execStatus[e] \in {"RUNNING", "SUCCESS", "FAILED"}
        /\ {At("run", e), At("offline", e), Now("run", e)} \cap OfExec(e) = {}
        /\ received[e] <= 1
        /\ sends = {} \/ (received[e] = 0 /\ \E a \in sends : Sole(sends, a))
UnderWay(e) == SentOnce(e) \/ Repeated(e)

Phases == \A e \in Execs : Fresh(e) \/ Claimed(e) \/ MarkedRunning(e) \/ UnderWay(e)

(* A job that has not started to dispatch.                                  *)
Unstarted(j) == jobStatus[j] = "none" \/ OfStart(j) # {}

StartsOnce ==
    \A j \in Jobs :
        /\ OfStart(j) = {} \/ (jobStatus[j] # "none" /\ \E a \in OfStart(j) : Sole(OfStart(j), a))
        /\ Unstarted(j) => /\ \A e \in ExecsOf(j) : Fresh(e)
                           /\ \A a \in BagToSet(awaiting) : a.op = "evaluate" => a.job # j
        /\ j \in known \cup aborted => jobStatus[j] # "none"

(* What can still be dispatched is fresh: the queue, and later waves.       *)
QueuedIsFresh ==
    \A e \in Execs :
        \/ Fresh(e)
        \/ /\ e \notin queue
           /\ JobOf[e] \in known /\ Mode[JobOf[e]] = "rolling"
                 => BatchOf[e] <= currentBatch[JobOf[e]]

(* What is about to be skipped is fresh, and its job is aborted.            *)
SkipsAreFresh ==
    /\ \A a \in BagToSet(awaiting) : a.op = "skip" /\ a.db = "issued" =>
          a.job \in aborted /\ \A e \in a.ids : JobOf[e] = a.job /\ Fresh(e)
    /\ \A e \in Execs : execStatus[e] = "SKIPPED" =>
          \/ JobOf[e] \in aborted
          \/ JobOf[e] \notin known /\ ~ Unstarted(JobOf[e])

(* A wait timer is that of a started job, and but for the repeating jobs it *)
(* is the only one, armed before anything but the first wave was dispatched.*)
PausesOnce(j) == pauses[j] # 0 =>
    /\ j \in PausedJobs /\ ~ Unstarted(j)
    /\ \/ Repeats(j)
       \/ /\ pauses[j] = 1 /\ currentBatch[j] >= 2
          /\ j \in known => \A e \in ExecsOf(j) : BatchOf[e] >= 2 => Fresh(e)
PausesAreFresh == \A j \in Jobs : PausesOnce(j)

(* Every execution passes through its phases once, but those of repeating   *)
(* jobs; and whatever is queued, skipped or waited for is fresh in all jobs.*)
DispatchedOnce == Phases /\ StartsOnce /\ QueuedIsFresh /\ SkipsAreFresh /\ PausesAreFresh
=============================================================================
