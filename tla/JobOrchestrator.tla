-------------------------- MODULE JobOrchestrator --------------------------
(***************************************************************************)
(* The bulk-job orchestrator of the server (server/src/lib/orchestrator.js)*)
(* with the agents it talks to.  The orchestrator is one single-threaded   *)
(* JavaScript object: a handler runs without interruption up to its next   *)
(* `await`, and any other handler may run while it waits.  The pending     *)
(* awaits are kept in the bag `awaiting`; a database operation is first    *)
(* issued, then executed (DbStep), then its handler is resumed.            *)
(***************************************************************************)
EXTENDS Naturals, FiniteSets, Bags

CONSTANTS
    Jobs, Execs, Machines,
    JobOf,          \* JobOf[e]: the job an execution belongs to
    MachineOf,      \* MachineOf[e]: its target machine
    Mode,           \* Mode[j]: "parallel" or "rolling"
    Limit,          \* Limit[j]: strategy.concurrency, at least 1
    BatchOf,        \* BatchOf[e]: the wave of e, counted from 1
    PausedJobs,     \* the jobs with strategy.waitSeconds > 0
    StopPercent,    \* StopPercent[j]: stopOnFailurePercent, 0 when not set
    MaxJobs,        \* bounds on what users and the environment do
    MaxDisconnects,
    MaxInteractive,
    MaxAborts,
    MaxRestarts

ASSUME JobAssumption ==
    /\ IsFiniteSet(Execs)
    /\ JobOf \in [Execs -> Jobs]
    /\ MachineOf \in [Execs -> Machines]
    /\ Mode \in [Jobs -> {"parallel", "rolling"}]
    /\ Limit \in [Jobs -> Nat \ {0}]
    /\ BatchOf \in [Execs -> Nat \ {0}]
    /\ PausedJobs \subseteq Jobs
    /\ StopPercent \in [Jobs -> 0..100]

ASSUME BoundAssumption ==
    {MaxJobs, MaxDisconnects, MaxInteractive, MaxAborts, MaxRestarts} \subseteq Nat

VARIABLES
    jobStatus,    \* database: Job.status, "none" before the row exists
    execStatus,   \* database: JobExecution.status
    known,        \* the jobs with an entry in jobState
    aborted,      \* the jobs whose state.aborted is set
    queue,        \* the executions in the state.queue of their job
    running,      \* the executions in the state.running of their job
    currentBatch, \* state.currentBatch, counted from 1
    pauses,       \* armed wait timers of a rolling job
    inflight,     \* inflight entry of an execution and its disconnectTimer
    newer,        \* <<a, b>>: the inflight entry of a is older than that of b
    loose,        \* armed disconnect timers no inflight entry refers to
    completed,    \* completedExecutions
    awaiting,     \* the bag of handlers suspended at an await
    link,         \* the agent's connection: up, unregistered, or down
    atAgent,      \* copies of a command an agent is executing
    received,     \* copies of a command an agent ever received
    left          \* what the environment may still do

dbVars     == <<jobStatus, execStatus>>
stateVars  == <<known, aborted, queue, running, currentBatch, pauses>>
flightVars == <<inflight, newer, loose, completed>>
agentVars  == <<link, atAgent, received>>
vars == <<dbVars, stateVars, flightVars, awaiting, agentVars, left>>

Final == {"SUCCESS", "FAILED", "SKIPPED"}
ExecStatus == {"PENDING", "RUNNING"} \cup Final
JobStatus == {"none", "PENDING", "RUNNING", "SUCCESS", "FAILED", "ABORTED"}
JobFinal == {"SUCCESS", "FAILED", "ABORTED"}

ExecsOf(j) == {e \in Execs : JobOf[e] = j}
Wave(j, k) == {e \in ExecsOf(j) : BatchOf[e] = k}

-----------------------------------------------------------------------------
(* Pending awaits.  db = "issued": the database operation has not been      *)
(* executed; otherwise it has, and db holds what the handler will see.      *)

WriteOps == {"offline", "run", "sendFailed", "succeed", "fail", "timedOut"}
SendOps  == {"send", "sendClosed", "refused"}
LookupOps == {"lookupSucceed", "lookupFail"}

ExecAwait ==
    [op: WriteOps, exec: Execs, db: {"issued", "done"}]
      \cup [op: SendOps \cup LookupOps, exec: Execs, db: {"done"}]
      \cup [op: {"check"}, exec: Execs, db: {"issued", "final", "open"}]
JobAwait ==
    [op: {"create"}, job: Jobs, db: {"done"}]
      \cup [op: {"start"}, job: Jobs, db: {"issued", "done"}]
      \cup [op: {"evaluate"}, job: Jobs, batch: Nat, db: {"issued", "stop", "go"}]
      \cup [op: {"skip"}, job: Jobs, ids: SUBSET Execs, db: {"issued", "done"}]
      \cup [op: {"abort"}, job: Jobs, db: {"issued"}]
      \cup [op: {"tally"}, job: Jobs, db: {"issued", "SUCCESS", "FAILED"}]
      \cup [op: {"finish"}, job: Jobs, status: JobFinal, db: {"issued", "done"}]
Await == ExecAwait \cup JobAwait

At(o, e)  == [op |-> o, exec |-> e, db |-> "issued"]
Now(o, e) == [op |-> o, exec |-> e, db |-> "done"]
JobAt(o, j) == [op |-> o, job |-> j, db |-> "issued"]

Without(a) == awaiting (-) SetToBag({a})
With(bag, S) == bag (+) SetToBag(S)
Ready(a) == BagIn(a, awaiting) /\ a.db # "issued"

-----------------------------------------------------------------------------
Init ==
    /\ jobStatus = [j \in Jobs |-> "none"]
    /\ execStatus = [e \in Execs |-> "PENDING"]
    /\ known = {} /\ aborted = {} /\ queue = {} /\ running = {}
    /\ currentBatch = [j \in Jobs |-> 1]
    /\ pauses = [j \in Jobs |-> 0]
    /\ inflight = [e \in Execs |-> "absent"]
    /\ newer = {}
    /\ loose = [e \in Execs |-> 0]
    /\ completed = {}
    /\ awaiting = EmptyBag
    /\ link \in [Machines -> {"up", "down"}]
    /\ atAgent = [e \in Execs |-> 0]
    /\ received = [e \in Execs |-> 0]
    /\ left = [job |-> MaxJobs, disconnect |-> MaxDisconnects,
               interactive |-> MaxInteractive, abort |-> MaxAborts,
               restart |-> MaxRestarts]

(* isMachineOnline *)
online == {m \in Machines : link[m] = "up"}

Spend(what) == left[what] > 0 /\ left' = [left EXCEPT ![what] = @ - 1]

-----------------------------------------------------------------------------
(* The synchronous parts.  Each gives queue', running' and awaiting';      *)
(* `run` and `bag` are the running set and the pending awaits so far.      *)

(* dispatchExecution up to its first await, for a set of executions        *)
Dispatch(es, run, bag, tally) ==
    LET on == {e \in es : MachineOf[e] \in online}
    IN  /\ queue' = queue \ es
        /\ running' = run \cup on
        /\ awaiting' = With(bag, {At("offline", e) : e \in es \ on}
                                   \cup {At("run", e) : e \in on}
                                   \cup tally)

NoDispatch(run, bag, tally) == Dispatch({}, run, bag, tally)

(* The job has state and is not aborted.  (ActiveThoughAborted and the      *)
(* other operators called faulty below are what a plausible mistake would   *)
(* make of the next definition; no property may survive them.)              *)
ActiveThoughAborted(j) == j \in known
Active(j) == j \in known \ aborted

(* The free slots of a parallel job; faulty: one slot too many.             *)
OneSlotTooMany(j, run) ==
    IF Cardinality(run \cap ExecsOf(j)) <= Limit[j]
    THEN Limit[j] + 1 - Cardinality(run \cap ExecsOf(j)) ELSE 0
Room(j, run) ==
    IF Cardinality(run \cap ExecsOf(j)) < Limit[j]
    THEN Limit[j] - Cardinality(run \cap ExecsOf(j)) ELSE 0

(* Nothing left in the queue nor in a slot; faulty: only the queue counts.  *)
QueueDrained(rest, busy) == rest = {}
Drained(rest, busy) == rest = {} /\ busy = {}

(* fillParallel takes executions off the queue until `limit` of them run;   *)
(* an offline one takes no slot.  The row order is unspecified, so any      *)
(* order of the queue is possible.                                          *)
FillParallel(j, run, bag) ==
    LET mine == queue \cap ExecsOf(j)
    IN  IF Active(j)
        THEN \E take \in SUBSET mine :
               LET on == {e \in take : MachineOf[e] \in online}
               IN /\ take = {} \/ Room(j, run) > 0
                  /\ Cardinality(on) <= Room(j, run)
                  /\ take = mine \/ Cardinality(on) = Room(j, run)
                  /\ Dispatch(take, run, bag,
                              IF Drained(mine \ take, (run \cap ExecsOf(j)) \cup on)
                              THEN {JobAt("tally", j)} ELSE {})
        ELSE NoDispatch(run, bag, {})

(* runRollingBatch of wave k: everything in it is dispatched, or the job    *)
(* is completed when there is no such wave.                                 *)
RunRollingBatch(j, k, run, bag) ==
    IF Active(j)
    THEN IF Wave(j, k) = {} THEN NoDispatch(run, bag, {JobAt("tally", j)})
                            ELSE Dispatch(Wave(j, k), run, bag, {})
    ELSE NoDispatch(run, bag, {})

(* The slots that are left when an execution leaves its own.                *)
SlotFreed(e) == running \ {e}

(* onExecutionFinished, with the synchronous start of evaluateRollingBatch  *)
OnExecutionFinished(e, bag) ==
    LET j == JobOf[e]
        run == SlotFreed(e)
        wave == Wave(j, currentBatch[j])
    IN  IF j \notin known THEN NoDispatch(running, bag, {})
        ELSE IF Mode[j] = "parallel" THEN FillParallel(j, run, bag)
        ELSE NoDispatch(run, bag,
               IF wave \cap run = {} /\ j \notin aborted
               THEN {[op |-> "evaluate", job |-> j, batch |-> currentBatch[j],
                      db |-> "issued"]}
               ELSE {})

(* What abortRemaining skips: the queue and the waves after the current one;*)
(* faulty: the current wave, too.                                           *)
PendingWithCurrent(j) == {e \in ExecsOf(j) : e \in queue \/
                            (Mode[j] = "rolling" /\ BatchOf[e] >= currentBatch[j])}
PendingIds(j) == {e \in ExecsOf(j) : e \in queue \/
                    (Mode[j] = "rolling" /\ BatchOf[e] > currentBatch[j])}

(* abortRemaining up to its first await                                     *)
AbortRemaining(j, bag) ==
    IF j \in known
    THEN /\ aborted' = aborted \cup {j}
         /\ pauses' = [pauses EXCEPT ![j] = 0]
         /\ awaiting' = With(bag, {[op |-> "skip", job |-> j,
                                    ids |-> PendingIds(j), db |-> "issued"]})
    ELSE UNCHANGED <<aborted, pauses>> /\ awaiting' = bag

(* inflight.set and inflight.delete                                         *)
Peers(e) == {x \in Execs \ {e} : inflight[x] # "absent" /\ MachineOf[x] = MachineOf[e]}
OrderWithout(es) == {p \in newer : p[1] \notin es /\ p[2] \notin es}

InflightSet(e) ==
    /\ inflight' = [inflight EXCEPT ![e] = "idle"]
    /\ newer' = OrderWithout({e}) \cup {<<x, e>> : x \in Peers(e)}
    /\ loose' = IF inflight[e] = "armed" THEN [loose EXCEPT ![e] = @ + 1] ELSE loose

InflightDelete(e) ==
    /\ inflight' = [inflight EXCEPT ![e] = "absent"]
    /\ newer' = OrderWithout({e})
    /\ loose' = IF inflight[e] = "armed" THEN [loose EXCEPT ![e] = @ + 1] ELSE loose

-----------------------------------------------------------------------------
(* Creating, starting, dispatching                                         *)

CreateJob(j) ==
    /\ jobStatus[j] = "none" /\ Spend("job")
    /\ jobStatus' = [jobStatus EXCEPT ![j] = "PENDING"]
    /\ awaiting' = With(awaiting, {[op |-> "create", job |-> j, db |-> "done"]})
    /\ UNCHANGED <<execStatus, stateVars, flightVars, agentVars>>

(* startJob: the state enters jobState before the job is marked RUNNING     *)
StartJob(j) ==
    LET a == [op |-> "create", job |-> j, db |-> "done"]
    IN  /\ Ready(a)
        /\ known' = known \cup {j}
        /\ queue' = queue \cup ExecsOf(j)
        /\ awaiting' = With(Without(a), {JobAt("start", j)})
        /\ UNCHANGED <<dbVars, aborted, running, currentBatch, pauses,
                       flightVars, agentVars, left>>

(* The first dispatch; faulty: the mode of the job is ignored.              *)
AlwaysParallel(j, bag) == FillParallel(j, running, bag)
FirstDispatch(j, bag) ==
    IF Mode[j] = "rolling" THEN RunRollingBatch(j, currentBatch[j], running, bag)
                           ELSE FillParallel(j, running, bag)

JobStarted(j) ==
    LET a == [op |-> "start", job |-> j, db |-> "done"]
    IN  /\ Ready(a)
        /\ FirstDispatch(j, Without(a))
        /\ UNCHANGED <<dbVars, known, aborted, currentBatch, pauses,
                       flightVars, agentVars, left>>

(* The await of the RUNNING mark; faulty: nothing waits for the write.      *)
NotMarked(e) == At("run", e)
Marked(e) == Now("run", e)

(* dispatchExecution after the RUNNING mark: inflight.set, then sendCommand,*)
(* which captures the socket and gives up at once when there is none.       *)
StartSending(e) ==
    LET a == Marked(e)
        o == IF MachineOf[e] \in online THEN "send" ELSE "refused"
    IN  /\ BagIn(a, awaiting)
        /\ InflightSet(e)
        /\ awaiting' = With(Without(a), {Now(o, e)})
        /\ UNCHANGED <<dbVars, stateVars, completed, agentVars, left>>

(* The captured socket is still open: the agent gets the command.           *)
CommandSent(e) ==
    /\ Ready(Now("send", e))
    /\ atAgent' = [atAgent EXCEPT ![e] = @ + 1]
    /\ received' = [received EXCEPT ![e] = @ + 1]
    /\ awaiting' = Without(Now("send", e))
    /\ UNCHANGED <<dbVars, stateVars, flightVars, link, left>>

(* send() on a socket closed in the meantime is reported as sent.           *)
CommandSentIntoClosedSocket(e) ==
    /\ Ready(Now("sendClosed", e))
    /\ awaiting' = Without(Now("sendClosed", e))
    /\ UNCHANGED <<dbVars, stateVars, flightVars, agentVars, left>>

(* sendCommand returned false: no socket, no secret, or an exception        *)
CommandNotSent(e) ==
    \E o \in SendOps :
        /\ Ready(Now(o, e))
        /\ running' = running \ {e}
        /\ awaiting' = With(Without(Now(o, e)), {At("sendFailed", e)})
        /\ UNCHANGED <<dbVars, known, aborted, queue, currentBatch, pauses,
                       flightVars, agentVars, left>>

(* The FAILED mark of an execution that could not be dispatched is written; *)
(* faulty: the job is not told.                                             *)
DispatchFailureIgnored(e) ==
    \E o \in {"offline", "sendFailed"} :
        /\ Ready(Now(o, e))
        /\ awaiting' = Without(Now(o, e))
        /\ UNCHANGED <<dbVars, stateVars, flightVars, agentVars, left>>
DispatchFailed(e) ==
    \E o \in {"offline", "sendFailed"} :
        /\ Ready(Now(o, e))
        /\ OnExecutionFinished(e, Without(Now(o, e)))
        /\ UNCHANGED <<dbVars, known, aborted, currentBatch, pauses,
                       flightVars, agentVars, left>>

-----------------------------------------------------------------------------
(* The database executes an issued operation; the operations of different   *)
(* handlers run on different pool connections and may overtake each other.  *)

Written(op) ==
    CASE op = "run" -> "RUNNING"
      [] op = "succeed" -> "SUCCESS"
      [] op \in {"offline", "sendFailed", "fail", "timedOut"} -> "FAILED"

StopBatch(j, k) ==
    /\ StopPercent[j] # 0
    /\ Cardinality({e \in Wave(j, k) : execStatus[e] = "FAILED"}) * 100
         > StopPercent[j] * Cardinality(Wave(j, k))

Verdict(j) ==
    IF \E e \in ExecsOf(j) : execStatus[e] \in {"FAILED", "SKIPPED"}
    THEN "FAILED" ELSE "SUCCESS"

Answered(a, v) == awaiting' = With(Without(a), {[a EXCEPT !.db = v]})

DbWriteExecution(a) ==
    /\ a.op \in WriteOps
    /\ execStatus' = [execStatus EXCEPT ![a.exec] = Written(a.op)]
    /\ Answered(a, "done")
    /\ UNCHANGED jobStatus

DbSkip(a) ==
    /\ a.op = "skip"
    /\ execStatus' = [e \in Execs |-> IF e \in a.ids THEN "SKIPPED" ELSE execStatus[e]]
    /\ Answered(a, "done")
    /\ UNCHANGED jobStatus

DbWriteJob(a) ==
    /\ \/ /\ a.op = "start"
          /\ jobStatus' = [jobStatus EXCEPT ![a.job] = "RUNNING"]
          /\ Answered(a, "done")
       \/ /\ a.op = "finish"
          /\ jobStatus' = [jobStatus EXCEPT ![a.job] = a.status]
          /\ Answered(a, "done")
       \/ /\ a.op = "abort"
          /\ jobStatus' = [jobStatus EXCEPT ![a.job] = "ABORTED"]
          /\ awaiting' = Without(a)
    /\ UNCHANGED execStatus

DbRead(a) ==
    /\ \/ /\ a.op = "check"
          /\ Answered(a, IF execStatus[a.exec] \in {"SUCCESS", "FAILED"}
                         THEN "final" ELSE "open")
       \/ /\ a.op = "evaluate"
          /\ Answered(a, IF StopBatch(a.job, a.batch) THEN "stop" ELSE "go")
       \/ /\ a.op = "tally"
          /\ Answered(a, Verdict(a.job))
    /\ UNCHANGED dbVars

DbStep ==
    /\ \E a \in BagToSet(awaiting) :
         /\ a.db = "issued"
         /\ DbWriteExecution(a) \/ DbSkip(a) \/ DbWriteJob(a) \/ DbRead(a)
    /\ UNCHANGED <<stateVars, flightVars, agentVars, left>>

-----------------------------------------------------------------------------
(* Output and completion of commands                                       *)

(* handleCommandOutput looks the command id up in inflight and otherwise    *)
(* falls back to the newest inflight entry of the machine.                  *)
Newest(m) == {x \in Execs : /\ MachineOf[x] = m /\ inflight[x] # "absent"
                            /\ ~ \E y \in Execs : <<x, y>> \in newer}
Target(e) == IF inflight[e] # "absent" THEN {e} ELSE Newest(MachineOf[e])

ClearTimer(x) == inflight' = [inflight EXCEPT ![x] = "idle"]
FinalOp(ok) == IF ok THEN "succeed" ELSE "fail"

(* A chunk of output: of the state kept here only the timer changes.        *)
OutputFor(targets) ==
    /\ \E x \in targets : inflight[x] \in {"armed", "fired"} /\ ClearTimer(x)
    /\ UNCHANGED <<dbVars, stateVars, newer, loose, completed, awaiting, agentVars>>

(* The completion message, up to the await of its database write.           *)
CompletionFor(targets, ok) ==
    /\ \E x \in targets :
         /\ ClearTimer(x)
         /\ completed' = completed \cup {x}
         /\ awaiting' = With(awaiting, {At(FinalOp(ok), x)})
    /\ UNCHANGED <<dbVars, stateVars, newer, loose>>

AgentOutput(e) ==
    /\ atAgent[e] > 0 /\ link[MachineOf[e]] # "down"
    /\ OutputFor(Target(e))
    /\ UNCHANGED left

AgentAnswer(e, ok) ==
    /\ atAgent[e] > 0 /\ link[MachineOf[e]] # "down"
    /\ atAgent' = [atAgent EXCEPT ![e] = @ - 1]
    /\ IF Target(e) # {} THEN CompletionFor(Target(e), ok)
       ELSE /\ awaiting' = With(awaiting,
                             {Now(IF ok THEN "lookupSucceed" ELSE "lookupFail", e)})
            /\ UNCHANGED <<dbVars, stateVars, flightVars>>
    /\ UNCHANGED <<link, received, left>>

(* The fallback lookup in the database found the execution.                 *)
LookedUp(e, ok) ==
    LET a == Now(IF ok THEN "lookupSucceed" ELSE "lookupFail", e)
    IN  /\ Ready(a)
        /\ completed' = completed \cup {e}
        /\ awaiting' = With(Without(a), {At(FinalOp(ok), e)})
        /\ UNCHANGED <<dbVars, stateVars, inflight, newer, loose, agentVars, left>>

(* The answer of a command a user typed on the machine page: its id is no   *)
(* execution, so only the fallback can find an entry.                       *)
InteractiveOutput(m) ==
    /\ link[m] # "down" /\ Spend("interactive")
    /\ OutputFor(Newest(m))

InteractiveAnswer(m, ok) ==
    /\ link[m] # "down" /\ Spend("interactive")
    /\ CompletionFor(Newest(m), ok)
    /\ UNCHANGED agentVars

(* The final status is written: the entry goes and the job moves on.        *)
ExecutionCompleted(e) ==
    \E o \in {"succeed", "fail"} :
        /\ Ready(Now(o, e))
        /\ InflightDelete(e)
        /\ OnExecutionFinished(e, Without(Now(o, e)))
        /\ UNCHANGED <<dbVars, known, aborted, currentBatch, pauses, completed,
                       agentVars, left>>

(* 60 seconds later; by then the database has answered and the 15 second    *)
(* timers armed before the completion are over.                             *)
ForgetCompleted(e) ==
    /\ e \in completed
    /\ inflight[e] # "armed" /\ loose[e] = 0
    /\ \A a \in BagToSet(awaiting) :
         a.op \in {"succeed", "fail", "check", "timedOut"} => a.exec # e
    /\ completed' = completed \ {e}
    /\ UNCHANGED <<dbVars, stateVars, inflight, newer, loose, awaiting,
                   agentVars, left>>

-----------------------------------------------------------------------------
(* Rolling waves, completing and aborting a job                            *)

(* The wave after the current one; faulty: the current one again.           *)
SameBatch(j) == currentBatch[j]
NextBatch(j) == currentBatch[j] + 1

BatchEvaluated(j) ==
    \E v \in {"stop", "go"}, k \in 1..currentBatch[j] :
        LET a == [op |-> "evaluate", job |-> j, batch |-> k, db |-> v]
            next == NextBatch(j)
        IN  /\ Ready(a)
            /\ IF v = "stop"
               THEN /\ AbortRemaining(j, Without(a))
                    /\ UNCHANGED <<queue, running, currentBatch>>
               ELSE /\ currentBatch' = [currentBatch EXCEPT ![j] = next]
                    /\ IF Wave(j, next) = {}
                       THEN /\ NoDispatch(running, Without(a),
                                 IF j \in known THEN {JobAt("tally", j)} ELSE {})
                            /\ UNCHANGED pauses
                       ELSE IF j \in PausedJobs
                       THEN /\ pauses' = [pauses EXCEPT ![j] = @ + 1]
                            /\ NoDispatch(running, Without(a), {})
                       ELSE /\ RunRollingBatch(j, next, running, Without(a))
                            /\ UNCHANGED pauses
                    /\ UNCHANGED aborted
            /\ UNCHANGED <<dbVars, known, flightVars, agentVars, left>>

PauseOver(j) ==
    /\ pauses[j] > 0
    /\ pauses' = [pauses EXCEPT ![j] = @ - 1]
    /\ RunRollingBatch(j, currentBatch[j], running, awaiting)
    /\ UNCHANGED <<dbVars, known, aborted, currentBatch, flightVars, agentVars, left>>

(* completeJob after its read                                               *)
JobTallied(j) ==
    \E v \in {"SUCCESS", "FAILED"} :
        LET a == [op |-> "tally", job |-> j, db |-> v]
        IN  /\ Ready(a)
            /\ awaiting' = With(Without(a),
                  {[op |-> "finish", job |-> j, db |-> "issued",
                    status |-> IF j \in aborted THEN "ABORTED" ELSE v]})
            /\ UNCHANGED <<dbVars, stateVars, flightVars, agentVars, left>>

JobFinished(j) ==
    \E s \in JobFinal :
        LET a == [op |-> "finish", job |-> j, status |-> s, db |-> "done"]
        IN  /\ Ready(a)
            /\ known' = known \ {j}
            /\ queue' = queue \ ExecsOf(j)
            /\ running' = running \ ExecsOf(j)
            /\ awaiting' = Without(a)
            /\ UNCHANGED <<dbVars, aborted, currentBatch, pauses,
                           flightVars, agentVars, left>>

(* abortJob, called through the API for any job that exists                 *)
AbortJob(j) ==
    /\ jobStatus[j] # "none" /\ Spend("abort")
    /\ IF j \in known THEN AbortRemaining(j, awaiting)
       ELSE /\ awaiting' = With(awaiting, {JobAt("abort", j)})
            /\ UNCHANGED <<aborted, pauses>>
    /\ UNCHANGED <<dbVars, known, queue, running, currentBatch, flightVars, agentVars>>

(* abortRemaining after the executions are marked SKIPPED                   *)
RemainingSkipped(j) ==
    \E ids \in SUBSET ExecsOf(j) :
        LET a == [op |-> "skip", job |-> j, ids |-> ids, db |-> "done"]
        IN  /\ Ready(a)
            /\ queue' = queue \ ExecsOf(j)
            /\ awaiting' = With(Without(a), {JobAt("abort", j)})
            /\ UNCHANGED <<dbVars, known, aborted, running, currentBatch, pauses,
                           flightVars, agentVars, left>>

-----------------------------------------------------------------------------
(* Connections, the disconnect grace timer, crashes                        *)

AgentConnect(m) ==
    /\ link[m] = "down"
    /\ link' = [link EXCEPT ![m] = "up"]
    /\ UNCHANGED <<dbVars, stateVars, flightVars, awaiting, atAgent, received, left>>

(* The close handler: the registry entry goes, even when a newer connection *)
(* of the machine has replaced the closed one there (it then goes on        *)
(* delivering, unregistered), and handleAgentDisconnect arms a timer for    *)
(* every inflight entry that has none.                                      *)
AgentDisconnect(m) ==
    LET mine == {e \in Execs : MachineOf[e] = m}
        gone == {e \in mine : inflight[e] = "idle" /\ e \in completed}
        sends == {a \in BagToSet(awaiting) : a.op = "send" /\ a.exec \in mine}
        dead == {[a EXCEPT !.op = "sendClosed"] : a \in sends}
        SendsAre(S) == [a \in S |-> awaiting[Now("send", a.exec)]]
    IN  /\ link[m] # "down" /\ Spend("disconnect")
        /\ \/ /\ link' = [link EXCEPT ![m] = "down"]
              /\ awaiting' = (awaiting (-) SendsAre(sends)) (+) SendsAre(dead)
           \/ /\ link[m] = "up"
              /\ link' = [link EXCEPT ![m] = "unregistered"]
              /\ \/ awaiting' = (awaiting (-) SendsAre(sends)) (+) SendsAre(dead)
                 \/ UNCHANGED awaiting
        /\ inflight' = [e \in Execs |->
                          IF e \in gone THEN "absent"
                          ELSE IF e \in mine /\ inflight[e] = "idle" THEN "armed"
                          ELSE inflight[e]]
        /\ newer' = OrderWithout(gone)
        /\ UNCHANGED <<dbVars, stateVars, loose, completed, atAgent, received>>

(* A command that ends while its agent has no connection: the answer is     *)
(* lost; so is every command of an agent that restarts.                     *)
AnswerLost(e) ==
    /\ atAgent[e] > 0 /\ link[MachineOf[e]] = "down"
    /\ atAgent' = [atAgent EXCEPT ![e] = @ - 1]
    /\ UNCHANGED <<dbVars, stateVars, flightVars, awaiting, link, received, left>>

(* A timer that fires starts to read the status, unless the execution was   *)
(* completed; faulty: nor when the agent is back.                           *)
ReadsWhileOffline(e) ==
    IF e \in completed \/ MachineOf[e] \in online THEN awaiting
    ELSE With(awaiting, {At("check", e)})
ReadsStatus(e) ==
    IF e \in completed THEN awaiting ELSE With(awaiting, {At("check", e)})

(* The 15 second timer of the entry, or a loose one, fires.                 *)
TimerFires(e) ==
    /\ \/ /\ inflight[e] = "armed"
          /\ UNCHANGED loose
          /\ IF e \in completed
             THEN inflight' = [inflight EXCEPT ![e] = "absent"] /\ newer' = OrderWithout({e})
             ELSE inflight' = [inflight EXCEPT ![e] = "fired"] /\ UNCHANGED newer
       \/ /\ loose[e] > 0
          /\ IF e \in completed
             THEN /\ inflight' = [inflight EXCEPT ![e] = "absent"]
                  /\ newer' = OrderWithout({e})
                  /\ loose' = IF inflight[e] = "armed" THEN loose
                              ELSE [loose EXCEPT ![e] = @ - 1]
             ELSE /\ loose' = [loose EXCEPT ![e] = @ - 1]
                  /\ UNCHANGED <<inflight, newer>>
    /\ awaiting' = ReadsStatus(e)
    /\ UNCHANGED <<dbVars, stateVars, completed, agentVars, left>>

(* The timer's read of the status returned.                                 *)
TimerChecked(e) ==
    \/ LET a == [op |-> "check", exec |-> e, db |-> "final"]
       IN  /\ Ready(a)
           /\ InflightDelete(e)
           /\ awaiting' = Without(a)
           /\ UNCHANGED <<dbVars, stateVars, completed, agentVars, left>>
    \/ LET a == [op |-> "check", exec |-> e, db |-> "open"]
       IN  /\ Ready(a)
           /\ awaiting' = With(Without(a), {At("timedOut", e)})
           /\ UNCHANGED <<dbVars, stateVars, flightVars, agentVars, left>>

ExecutionTimedOut(e) ==
    /\ Ready(Now("timedOut", e))
    /\ InflightDelete(e)
    /\ OnExecutionFinished(e, Without(Now("timedOut", e)))
    /\ UNCHANGED <<dbVars, known, aborted, currentBatch, pauses, completed,
                   agentVars, left>>

(* The server process dies and comes back: only the database survives, and  *)
(* nothing in the code reads the unfinished jobs back.                      *)
ServerRestart ==
    /\ Spend("restart")
    /\ known' = {} /\ aborted' = {} /\ queue' = {} /\ running' = {}
    /\ currentBatch' = [j \in Jobs |-> 1]
    /\ pauses' = [j \in Jobs |-> 0]
    /\ inflight' = [e \in Execs |-> "absent"]
    /\ newer' = {}
    /\ loose' = [e \in Execs |-> 0]
    /\ completed' = {}
    /\ awaiting' = EmptyBag
    /\ link' = [m \in Machines |-> "down"]
    /\ UNCHANGED <<dbVars, atAgent, received>>

-----------------------------------------------------------------------------
JobStep(j) ==
    \/ StartJob(j) \/ JobStarted(j) \/ BatchEvaluated(j) \/ PauseOver(j)
    \/ JobTallied(j) \/ JobFinished(j) \/ RemainingSkipped(j)

ExecStep(e) ==
    \/ StartSending(e) \/ CommandSent(e) \/ CommandSentIntoClosedSocket(e)
    \/ CommandNotSent(e) \/ DispatchFailed(e) \/ ExecutionCompleted(e)
    \/ TimerFires(e) \/ TimerChecked(e) \/ ExecutionTimedOut(e)
    \/ \E ok \in BOOLEAN : LookedUp(e, ok)

AgentStep(e) ==
    \/ \E ok \in BOOLEAN : AgentAnswer(e, ok)
    \/ AnswerLost(e)

Environment ==
    \/ \E j \in Jobs : CreateJob(j) \/ AbortJob(j)
    \/ \E e \in Execs : AgentOutput(e) \/ ForgetCompleted(e)
    \/ \E m \in Machines : \/ AgentConnect(m) \/ AgentDisconnect(m)
                           \/ InteractiveOutput(m)
                           \/ \E ok \in BOOLEAN : InteractiveAnswer(m, ok)
    \/ ServerRestart

Next ==
    \/ DbStep
    \/ \E j \in Jobs : JobStep(j)
    \/ \E e \in Execs : ExecStep(e) \/ AgentStep(e)
    \/ Environment

Spec == Init /\ [][Next]_vars

(* Weak fairness of what the server, the database and the timers do, and of *)
(* the agents: a command ends, and its answer is delivered or lost.         *)
(* Nothing is assumed of users, interactive commands, connections, crashes. *)
Fairness ==
    /\ WF_vars(DbStep)
    /\ \A j \in Jobs : WF_vars(JobStep(j))
    /\ \A e \in Execs : WF_vars(ExecStep(e)) /\ WF_vars(AgentStep(e))
FairSpec == Spec /\ Fairness

-----------------------------------------------------------------------------
(* Type correctness of the database rows, the server's memory and the       *)
(* pending awaits.                                                          *)
TypeOK ==
    /\ jobStatus \in [Jobs -> JobStatus]
    /\ execStatus \in [Execs -> ExecStatus]
    /\ known \subseteq Jobs /\ aborted \subseteq Jobs
    /\ queue \subseteq Execs /\ running \subseteq Execs
    /\ currentBatch \in [Jobs -> Nat \ {0}]
    /\ pauses \in [Jobs -> Nat]
    /\ inflight \in [Execs -> {"absent", "idle", "armed", "fired"}]
    /\ newer \subseteq Execs \X Execs
    /\ loose \in [Execs -> Nat]
    /\ completed \subseteq Execs
    /\ IsABag(awaiting) /\ BagToSet(awaiting) \subseteq Await
    /\ link \in [Machines -> {"up", "unregistered", "down"}]
    /\ atAgent \in [Execs -> Nat]
    /\ received \in [Execs -> Nat]
    /\ left \in [{"job", "disconnect", "interactive", "abort", "restart"} -> Nat]

DispatchPending(e) == \E o \in {"offline", "run"} \cup SendOps :
                          \E d \in {"issued", "done"} :
                             BagIn([op |-> o, exec |-> e, db |-> d], awaiting)

(* A machine whose execution is recorded as SKIPPED never saw the command:  *)
(* aborting (the kill switch, or a failed wave) skips exactly what has not  *)
(* been dispatched, whatever handlers were suspended when it came.          *)
SkippedNeverSent ==
    \A e \in Execs : execStatus[e] = "SKIPPED" =>
        /\ received[e] = 0
        /\ e \notin running
        /\ inflight[e] = "absent"
        /\ ~ DispatchPending(e)

(* A rolling job that waits between waves more than once: its second and    *)
(* its third wave are both run by timers.                                   *)
Repeats(j) == Mode[j] = "rolling" /\ j \in PausedJobs /\ \E e \in ExecsOf(j) : BatchOf[e] > 2

(* What leads to the release of the slot of an execution: its handler has   *)
(* yet to send the command and has an open socket or none, an outcome is    *)
(* being written, the grace timer is armed or reads a status that is not    *)
(* final, or the agent has the command and a connection for its answer.  An *)
(* inflight entry alone leads nowhere.                                      *)
GivesBack(e) ==
    \/ \E a \in BagToSet(awaiting) :
          /\ \/ a.op \in {"run", "send", "refused", "succeed", "fail", "timedOut"}
             \/ a.op = "check" /\ a.db # "final"
          /\ a.exec = e
    \/ inflight[e] = "armed"
    \/ atAgent[e] > 0 /\ link[MachineOf[e]] # "down"

(* Output of another command is taken for that of e and clears its timer.   *)
OthersOutput(e) ==
    /\ inflight[e] = "armed" /\ inflight'[e] = "idle"
    /\ \/ \E x \in Execs \ {e} : AgentOutput(x)
       \/ InteractiveOutput(MachineOf[e])

(* No slot is lost: from the moment an execution takes one until it leaves  *)
(* it, something leads to its release, through lost commands and answers,   *)
(* reconnects and late timers.  The exception is the step in which output   *)
(* of another command clears the timer of e; after it nothing need lead     *)
(* anywhere (run cancelled_timer).  A job that repeats may dispatch an      *)
(* execution again after its outcome.                                       *)
SlotsComeBack ==
    [][\A e \in running' :
          \/ Repeats(JobOf[e])
          \/ e \in running /\ (OthersOutput(e) \/ ~ GivesBack(e))
          \/ GivesBack(e)']_vars

(* strategy.concurrency bounds the executions in progress of a parallel     *)
(* job, although every finishing execution refills the slots on its own.    *)
LimitRespected ==
    \A j \in Jobs : Mode[j] = "parallel" =>
        Cardinality(running \cap ExecsOf(j)) <= Limit[j]

(* The orchestrator implements the life cycle it promises for executions:   *)
(* the recorded status and the copies of the command the agent received     *)
(* only change in the ways ExecutionLifecycle allows (but for jobs that     *)
(* repeat, whose timers may both run one wave).                             *)
Lifecycle == INSTANCE ExecutionLifecycle WITH status <- execStatus, deliveries <- received
RefinesLifecycle == Lifecycle!Spec

(* The kill switch: once a job is aborted, no execution that was not on its *)
(* way already is dispatched any more, from no suspended handler and no     *)
(* wave timer.                                                              *)
AbortHoldsBack ==
    [][\A e \in Execs :
          JobOf[e] \in aborted /\ received[e] = 0 /\ ~ DispatchPending(e)
             => received'[e] = 0 /\ ~ DispatchPending(e)']_vars

(* A parallel job recorded as SUCCESS or FAILED has nothing left in its     *)
(* queue, in its slots, or on the way to an agent - but a command that is   *)
(* still being signed while its execution has a verdict already: the grace  *)
(* timer of an older connection, or the answer of another command, was      *)
(* taken for its own.                                                       *)
ParallelJobDone ==
    \A j \in Jobs : Mode[j] = "parallel" /\ jobStatus[j] \in {"SUCCESS", "FAILED"} =>
        \A e \in ExecsOf(j) :
            /\ e \notin queue \cup running
            /\ ~ BagIn(At("run", e), awaiting) /\ ~ BagIn(Now("run", e), awaiting)
            /\ \A o \in SendOps :
                  BagIn(Now(o, e), awaiting) => execStatus[e] \in {"SUCCESS", "FAILED"}

(* No connection was lost, no command typed on the page of a machine and no *)
(* restart: every answer is that of the command it is taken for.            *)
Undisturbed ==
    /\ left.disconnect = MaxDisconnects
    /\ left.interactive = MaxInteractive
    /\ left.restart = MaxRestarts

(* Waves of one target (the default batch size) are a canary: as long as    *)
(* nothing disturbs the answers, nothing of a later wave is dispatched      *)
(* before every earlier execution has its verdict in the database.          *)
WavesOfOneInOrder ==
    \A j \in Jobs : /\ Mode[j] = "rolling"
                    /\ \A e, f \in ExecsOf(j) : BatchOf[e] = BatchOf[f] => e = f
                    /\ Undisturbed
       => \A e, f \in ExecsOf(j) :
             BatchOf[e] < BatchOf[f] /\ (DispatchPending(f) \/ execStatus[f] \in {"RUNNING", "SUCCESS", "FAILED"})
                => execStatus[e] \in Final

(* A job that was started is eventually recorded as finished, whatever      *)
(* connections are lost on the way: every slot is given back and every wave *)
(* is evaluated.                                                            *)
JobFinishes ==
    \A j \in Jobs : jobStatus[j] = "RUNNING" ~> jobStatus[j] \in JobFinal

-----------------------------------------------------------------------------
(* What the comments and the texts of the user interface say, and the code  *)
(* does not do.                                                             *)

(* A recorded success is not overwritten: "Also check DB status before      *)
(* overwriting", in the disconnect timer.                                   *)
SuccessNotOverwritten ==
    [][\A e \in Execs : execStatus[e] = "SUCCESS" => execStatus'[e] # "FAILED"]_vars

(* An execution whose machine disconnects gets its verdict, from its answer *)
(* or from the grace timer: "Mark inflight executions for a machine as      *)
(* failed on disconnect".                                                   *)
DisconnectSettled ==
    \A e \in Execs : inflight[e] = "armed" ~> execStatus[e] \in Final

(* "This command will be executed on all selected machines": a job that was *)
(* not aborted has reached a verdict on every target when it is finished    *)
(* and none of its handlers is suspended.                                   *)
NobodyForgotten ==
    \A j \in Jobs : jobStatus[j] \in {"SUCCESS", "FAILED"} /\ awaiting = EmptyBag =>
        \A e \in ExecsOf(j) : execStatus[e] # "PENDING"
=============================================================================
