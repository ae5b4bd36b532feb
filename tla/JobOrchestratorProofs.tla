----------------------- MODULE JobOrchestratorProofs -----------------------
(***************************************************************************)
(* Proofs about the orchestrator's steps: that its state has its type, and *)
(* that strategy.concurrency bounds a parallel job.                        *)
(***************************************************************************)
EXTENDS JobOrchestrator, FiniteSetTheorems, TLAPS

LEMMA WithBag ==
    ASSUME NEW B, IsABag(B), NEW S
    PROVE  /\ IsABag(With(B, S))
           /\ BagToSet(With(B, S)) = BagToSet(B) \cup S
  BY DEF IsABag, With, BagToSet, SetToBag, (+)

LEMMA WithoutBag ==
    ASSUME IsABag(awaiting), NEW a
    PROVE  /\ IsABag(Without(a))
           /\ BagToSet(Without(a)) \subseteq BagToSet(awaiting)
  BY DEF IsABag, Without, BagToSet, SetToBag, (-)

LEMMA ExecAwaits ==
    ASSUME NEW e \in Execs
    PROVE  /\ \A o \in WriteOps : At(o, e) \in Await /\ Now(o, e) \in Await
           /\ \A o \in SendOps \cup LookupOps : Now(o, e) \in Await
           /\ At("check", e) \in Await
  BY DEF At, Now, Await, ExecAwait, WriteOps, SendOps, LookupOps

LEMMA JobAwaits ==
    ASSUME NEW j \in Jobs
    PROVE  /\ [op |-> "create", job |-> j, db |-> "done"] \in Await
           /\ JobAt("start", j) \in Await
           /\ JobAt("tally", j) \in Await
           /\ JobAt("abort", j) \in Await
           /\ \A k \in Nat : [op |-> "evaluate", job |-> j, batch |-> k,
                              db |-> "issued"] \in Await
           /\ \A ids \in SUBSET Execs : [op |-> "skip", job |-> j, ids |-> ids,
                                         db |-> "issued"] \in Await
           /\ \A s \in JobFinal : [op |-> "finish", job |-> j, db |-> "issued",
                                   status |-> s] \in Await
  BY DEF JobAt, Await, JobAwait

(* A bag of well-formed awaits.                                             *)
Awaits(B) == IsABag(B) /\ BagToSet(B) \subseteq Await

LEMMA AwaitsWith ==
    ASSUME NEW B, Awaits(B), NEW S \in SUBSET Await
    PROVE  Awaits(With(B, S))
  BY WithBag DEF Awaits

LEMMA AwaitsWithout ==
    ASSUME Awaits(awaiting), NEW a
    PROVE  Awaits(Without(a))
  BY WithoutBag DEF Awaits

LEMMA DispatchType ==
    ASSUME JobAssumption, TypeOK, NEW es \in SUBSET Execs, NEW run \in SUBSET Execs,
           NEW bag, Awaits(bag), NEW tally \in SUBSET Await,
           Dispatch(es, run, bag, tally)
    PROVE  queue' \subseteq Execs /\ running' \subseteq Execs /\ Awaits(awaiting')
<1>. DEFINE on == {e \in es : MachineOf[e] \in online}
            new == {At("offline", e) : e \in es \ on} \cup {At("run", e) : e \in on} \cup tally
<1>1. new \subseteq Await
  BY ExecAwaits DEF WriteOps
<1>2. awaiting' = With(bag, new) /\ queue' = queue \ es /\ running' = run \cup on
  BY DEF Dispatch
<1>3. Awaits(awaiting')
  BY <1>1, <1>2, AwaitsWith
<1>. QED
  BY <1>2, <1>3 DEF TypeOK

LEMMA FillParallelType ==
    ASSUME JobAssumption, TypeOK, NEW j \in Jobs, NEW run \in SUBSET Execs,
           NEW bag, Awaits(bag), FillParallel(j, run, bag)
    PROVE  queue' \subseteq Execs /\ running' \subseteq Execs /\ Awaits(awaiting')
<1>1. JobAt("tally", j) \in Await
  BY JobAwaits
<1>2. queue \subseteq Execs
  BY DEF TypeOK
<1>3. PICK es \in SUBSET Execs, tally \in SUBSET Await : Dispatch(es, run, bag, tally)
  <2>1. CASE Active(j)
    <3>. DEFINE mine == queue \cap ExecsOf(j)
    <3>1. PICK take \in SUBSET mine :
             Dispatch(take, run, bag,
                IF Drained(mine \ take,
                           (run \cap ExecsOf(j)) \cup {e \in take : MachineOf[e] \in online})
                THEN {JobAt("tally", j)} ELSE {})
      BY <2>1 DEF FillParallel
    <3>. QED
      BY <1>1, <1>2, <3>1
  <2>2. CASE ~ Active(j)
    BY <2>2 DEF FillParallel, NoDispatch
  <2>. QED
    BY <2>1, <2>2
<1>. QED
  BY <1>3, DispatchType

LEMMA RunRollingBatchType ==
    ASSUME JobAssumption, TypeOK, NEW j \in Jobs, NEW k, NEW run \in SUBSET Execs,
           NEW bag, Awaits(bag), RunRollingBatch(j, k, run, bag)
    PROVE  queue' \subseteq Execs /\ running' \subseteq Execs /\ Awaits(awaiting')
<1>1. JobAt("tally", j) \in Await
  BY JobAwaits
<1>2. Wave(j, k) \subseteq Execs
  BY DEF Wave, ExecsOf
<1>3. PICK es \in SUBSET Execs, tally \in SUBSET Await : Dispatch(es, run, bag, tally)
  BY <1>1, <1>2 DEF RunRollingBatch, NoDispatch
<1>. QED
  BY <1>3, DispatchType

LEMMA FinishedType ==
    ASSUME JobAssumption, TypeOK, NEW e \in Execs, NEW bag, Awaits(bag),
           OnExecutionFinished(e, bag)
    PROVE  queue' \subseteq Execs /\ running' \subseteq Execs /\ Awaits(awaiting')
<1>. DEFINE j == JobOf[e]
            ev == [op |-> "evaluate", job |-> j, batch |-> currentBatch[j], db |-> "issued"]
<1>1. j \in Jobs /\ currentBatch[j] \in Nat /\ running \subseteq Execs /\ SlotFreed(e) \subseteq Execs
  BY DEF JobAssumption, TypeOK, SlotFreed
<1>2. ev \in Await
  BY <1>1, JobAwaits
<1>3. CASE j \in known /\ Mode[j] = "parallel"
  <2>1. FillParallel(j, SlotFreed(e), bag)
    BY <1>3 DEF OnExecutionFinished
  <2>. QED
    BY <1>1, <2>1, FillParallelType
<1>4. CASE ~ (j \in known /\ Mode[j] = "parallel")
  <2>1. PICK run \in SUBSET Execs, tally \in SUBSET Await : NoDispatch(run, bag, tally)
    BY <1>1, <1>2, <1>4 DEF OnExecutionFinished
  <2>. QED
    BY <2>1, DispatchType DEF NoDispatch
<1>. QED
  BY <1>3, <1>4

LEMMA AbortRemainingType ==
    ASSUME JobAssumption, TypeOK, NEW j \in Jobs, NEW bag, Awaits(bag),
           AbortRemaining(j, bag)
    PROVE  /\ aborted' \subseteq Jobs
           /\ pauses' \in [Jobs -> Nat]
           /\ Awaits(awaiting')
<1>. DEFINE skip == [op |-> "skip", job |-> j, ids |-> PendingIds(j), db |-> "issued"]
<1>1. PendingIds(j) \in SUBSET Execs
  BY DEF PendingIds, ExecsOf
<1>2. skip \in Await
  BY <1>1, JobAwaits
<1>3. Awaits(With(bag, {skip}))
  BY <1>2, AwaitsWith
<1>. QED
  BY <1>3 DEF AbortRemaining, TypeOK

LEMMA SpendType ==
    ASSUME TypeOK, NEW what \in {"job", "disconnect", "interactive", "abort", "restart"},
           Spend(what)
    PROVE  left' \in [{"job", "disconnect", "interactive", "abort", "restart"} -> Nat]
<1>1. left[what] \in Nat /\ left[what] - 1 \in Nat
  BY DEF TypeOK, Spend
<1>. QED
  BY <1>1 DEF TypeOK, Spend

FlightType == /\ inflight \in [Execs -> {"absent", "idle", "armed", "fired"}]
              /\ newer \subseteq Execs \X Execs
              /\ loose \in [Execs -> Nat]

LEMMA InflightType ==
    ASSUME TypeOK, NEW e \in Execs, InflightSet(e) \/ InflightDelete(e)
    PROVE  FlightType'
<1>1. inflight' \in [Execs -> {"absent", "idle", "armed", "fired"}]
  BY DEF TypeOK, InflightSet, InflightDelete
<1>2. newer' \subseteq Execs \X Execs
  BY DEF TypeOK, InflightSet, InflightDelete, OrderWithout, Peers
<1>3. loose' \in [Execs -> Nat]
  BY DEF TypeOK, InflightSet, InflightDelete
<1>. QED
  BY <1>1, <1>2, <1>3 DEF FlightType

LEMMA TypeOKInit == JobAssumption /\ BoundAssumption /\ Init => TypeOK
  BY DEF JobAssumption, BoundAssumption, Init, TypeOK, ExecStatus, JobStatus, IsABag,
         EmptyBag, SetToBag, BagToSet

(* Starting jobs, dispatching and sending.                                  *)
LEMMA DispatchingType ==
    ASSUME JobAssumption, TypeOK,
           \/ \E j \in Jobs : CreateJob(j) \/ StartJob(j) \/ JobStarted(j)
           \/ \E e \in Execs : \/ StartSending(e) \/ CommandSent(e)
                               \/ CommandSentIntoClosedSocket(e) \/ CommandNotSent(e)
                               \/ DispatchFailed(e)
    PROVE  TypeOK'
<1>. USE DEF Awaits
<1>0. Awaits(awaiting)
  BY DEF TypeOK
<1>1. ASSUME NEW j \in Jobs, CreateJob(j) PROVE TypeOK'
  <2>1. Awaits(awaiting')
    BY <1>0, <1>1, JobAwaits, AwaitsWith DEF CreateJob
  <2>2. left' \in [{"job", "disconnect", "interactive", "abort", "restart"} -> Nat]
    BY <1>1, SpendType DEF CreateJob
  <2>3. jobStatus' \in [Jobs -> JobStatus]
    BY <1>1 DEF TypeOK, CreateJob, JobStatus
  <2>4. UNCHANGED <<execStatus, stateVars, flightVars, agentVars>>
    BY <1>1 DEF CreateJob
  <2>. QED
    BY <2>1, <2>2, <2>3, <2>4 DEF TypeOK, dbVars, stateVars, flightVars, agentVars
<1>2. ASSUME NEW j \in Jobs, StartJob(j) PROVE TypeOK'
  <2>1. Awaits(awaiting')
    BY <1>0, <1>2, JobAwaits, AwaitsWith, AwaitsWithout DEF StartJob
  <2>. QED
    BY <1>2, <2>1 DEF TypeOK, StartJob, ExecsOf, dbVars, flightVars, agentVars
<1>3. ASSUME NEW j \in Jobs, JobStarted(j) PROVE TypeOK'
  <2>. DEFINE a == [op |-> "start", job |-> j, db |-> "done"]
  <2>1. Awaits(Without(a)) /\ running \in SUBSET Execs
    BY <1>0, AwaitsWithout DEF TypeOK
  <2>2. FirstDispatch(j, Without(a))
    BY <1>3 DEF JobStarted
  <2>3. queue' \subseteq Execs /\ running' \subseteq Execs /\ Awaits(awaiting')
    BY <2>1, <2>2, RunRollingBatchType, FillParallelType DEF FirstDispatch
  <2>. QED
    BY <1>3, <2>3 DEF TypeOK, JobStarted, dbVars, flightVars, agentVars
<1>4. ASSUME NEW e \in Execs, StartSending(e) PROVE TypeOK'
  <2>1. Awaits(awaiting')
    BY <1>0, <1>4, ExecAwaits, AwaitsWith, AwaitsWithout DEF StartSending, SendOps
  <2>2. FlightType'
    BY <1>4, InflightType DEF StartSending
  <2>3. UNCHANGED <<dbVars, stateVars, completed, agentVars, left>>
    BY <1>4 DEF StartSending
  <2>. QED
    BY <2>1, <2>2, <2>3 DEF TypeOK, FlightType, dbVars, stateVars, agentVars
<1>5. ASSUME NEW e \in Execs, CommandSent(e) PROVE TypeOK'
  <2>1. Awaits(awaiting')
    BY <1>0, <1>5, AwaitsWithout DEF CommandSent
  <2>. QED
    BY <1>5, <2>1 DEF TypeOK, CommandSent, dbVars, stateVars, flightVars
<1>6. ASSUME NEW e \in Execs, CommandSentIntoClosedSocket(e) PROVE TypeOK'
  <2>1. Awaits(awaiting')
    BY <1>0, <1>6, AwaitsWithout DEF CommandSentIntoClosedSocket
  <2>. QED
    BY <1>6, <2>1 DEF TypeOK, CommandSentIntoClosedSocket, dbVars, stateVars, flightVars, agentVars
<1>7. ASSUME NEW e \in Execs, CommandNotSent(e) PROVE TypeOK'
  <2>1. Awaits(awaiting')
    BY <1>0, <1>7, ExecAwaits, AwaitsWith, AwaitsWithout DEF CommandNotSent, WriteOps
  <2>. QED
    BY <1>7, <2>1 DEF TypeOK, CommandNotSent, dbVars, flightVars, agentVars
<1>8. ASSUME NEW e \in Execs, DispatchFailed(e) PROVE TypeOK'
  <2>1. queue' \subseteq Execs /\ running' \subseteq Execs /\ Awaits(awaiting')
    BY <1>0, <1>8, AwaitsWithout, FinishedType DEF DispatchFailed
  <2>. QED
    BY <1>8, <2>1 DEF TypeOK, DispatchFailed, dbVars, flightVars, agentVars
<1>. QED
  BY <1>1, <1>2, <1>3, <1>4, <1>5, <1>6, <1>7, <1>8

(* What the database returns or writes.                                     *)
LEMMA AnsweredType ==
    ASSUME JobAssumption, TypeOK, NEW a \in BagToSet(awaiting), a.db = "issued",
           DbWriteExecution(a) \/ DbSkip(a) \/ DbWriteJob(a) \/ DbRead(a)
    PROVE  Awaits(awaiting')
<1>1. Awaits(awaiting) /\ a \in Await
  BY DEF TypeOK, Awaits
<1>2. ASSUME NEW v, [a EXCEPT !.db = v] \in Await, Answered(a, v)
      PROVE  Awaits(awaiting')
  BY <1>1, <1>2, AwaitsWith, AwaitsWithout DEF Answered
<1>3. CASE DbWriteExecution(a)
  <2>1. [a EXCEPT !.db = "done"] \in Await
    BY <1>1, <1>3 DEF Await, ExecAwait, JobAwait, DbWriteExecution, WriteOps, SendOps, LookupOps
  <2>. QED
    BY <1>2, <1>3, <2>1 DEF DbWriteExecution
<1>4. CASE DbSkip(a)
  <2>1. [a EXCEPT !.db = "done"] \in Await
    BY <1>1, <1>4 DEF Await, ExecAwait, JobAwait, DbSkip, WriteOps, SendOps, LookupOps
  <2>. QED
    BY <1>2, <1>4, <2>1 DEF DbSkip
<1>5. CASE DbWriteJob(a)
  <2>1. CASE a.op \in {"start", "finish"}
    <3>1. [a EXCEPT !.db = "done"] \in Await
      BY <1>1, <2>1 DEF Await, ExecAwait, JobAwait, WriteOps, SendOps, LookupOps
    <3>. QED
      BY <1>2, <1>5, <2>1, <3>1 DEF DbWriteJob
  <2>2. CASE a.op = "abort"
    BY <1>1, <1>5, <2>2, AwaitsWithout DEF DbWriteJob
  <2>. QED
    BY <1>5, <2>1, <2>2 DEF DbWriteJob
<1>6. CASE DbRead(a)
  <2>1. CASE a.op = "check"
    <3>1. \A v \in {"final", "open"} : [a EXCEPT !.db = v] \in Await
      BY <1>1, <2>1 DEF Await, ExecAwait, JobAwait, WriteOps, SendOps, LookupOps
    <3>. QED
      BY <1>2, <1>6, <2>1, <3>1 DEF DbRead
  <2>2. CASE a.op = "evaluate"
    <3>1. \A v \in {"stop", "go"} : [a EXCEPT !.db = v] \in Await
      BY <1>1, <2>2 DEF Await, ExecAwait, JobAwait, WriteOps, SendOps, LookupOps
    <3>. QED
      BY <1>2, <1>6, <2>2, <3>1 DEF DbRead
  <2>3. CASE a.op = "tally"
    <3>1. \A v \in {"SUCCESS", "FAILED"} : [a EXCEPT !.db = v] \in Await
      BY <1>1, <2>3 DEF Await, ExecAwait, JobAwait, WriteOps, SendOps, LookupOps
    <3>2. Verdict(a.job) \in {"SUCCESS", "FAILED"}
      BY DEF Verdict
    <3>. QED
      BY <1>2, <1>6, <2>3, <3>1, <3>2 DEF DbRead
  <2>. QED
    BY <1>6, <2>1, <2>2, <2>3 DEF DbRead
<1>. QED
  BY <1>3, <1>4, <1>5, <1>6

LEMMA DbStepType ==
    ASSUME JobAssumption, TypeOK, DbStep
    PROVE  TypeOK'
<1>1. PICK a \in BagToSet(awaiting) :
         /\ a.db = "issued"
         /\ DbWriteExecution(a) \/ DbSkip(a) \/ DbWriteJob(a) \/ DbRead(a)
  BY DEF DbStep
<1>2. Awaits(awaiting')
  BY <1>1, AnsweredType
<1>3. a \in Await
  BY DEF TypeOK
<1>4. execStatus' \in [Execs -> ExecStatus]
  <2>1. \A op \in WriteOps : Written(op) \in ExecStatus
    BY DEF Written, WriteOps, ExecStatus, Final
  <2>. QED
    BY <1>1, <2>1 DEF TypeOK, DbWriteExecution, DbSkip, DbWriteJob, DbRead, dbVars,
                      ExecStatus, Final
<1>5. jobStatus' \in [Jobs -> JobStatus]
  <2>1. a.op = "finish" => a.status \in JobFinal
    BY <1>3 DEF Await, ExecAwait, JobAwait, WriteOps, SendOps, LookupOps
  <2>. QED
    BY <1>1, <2>1 DEF TypeOK, DbWriteExecution, DbSkip, DbWriteJob, DbRead, dbVars,
                      JobStatus, JobFinal
<1>. QED
  BY <1>2, <1>4, <1>5 DEF DbStep, TypeOK, Awaits, stateVars, flightVars, agentVars

LEMMA TargetType ==
    ASSUME JobAssumption, NEW e \in Execs
    PROVE  Target(e) \subseteq Execs /\ \A m : Newest(m) \subseteq Execs
  BY DEF Target, Newest

LEMMA OutputForType ==
    ASSUME TypeOK, NEW targets \in SUBSET Execs, OutputFor(targets),
           left' \in [{"job", "disconnect", "interactive", "abort", "restart"} -> Nat]
    PROVE  TypeOK'
<1>1. inflight' \in [Execs -> {"absent", "idle", "armed", "fired"}]
  BY DEF TypeOK, OutputFor, ClearTimer
<1>2. UNCHANGED <<dbVars, stateVars, newer, loose, completed, awaiting, agentVars>>
  BY DEF OutputFor
<1>. QED
  BY <1>1, <1>2 DEF TypeOK, dbVars, stateVars, agentVars

LEMMA CompletionForType ==
    ASSUME TypeOK, NEW targets \in SUBSET Execs, NEW ok \in BOOLEAN,
           CompletionFor(targets, ok)
    PROVE  /\ inflight' \in [Execs -> {"absent", "idle", "armed", "fired"}]
           /\ completed' \subseteq Execs
           /\ Awaits(awaiting')
           /\ UNCHANGED <<dbVars, stateVars, newer, loose>>
<1>1. PICK x \in targets :
         /\ ClearTimer(x)
         /\ completed' = completed \cup {x}
         /\ awaiting' = With(awaiting, {At(FinalOp(ok), x)})
  BY DEF CompletionFor
<1>2. At(FinalOp(ok), x) \in Await
  BY ExecAwaits DEF FinalOp, WriteOps
<1>3. Awaits(awaiting')
  BY <1>1, <1>2, AwaitsWith DEF TypeOK, Awaits
<1>. QED
  BY <1>1, <1>3 DEF TypeOK, ClearTimer, CompletionFor

(* Output and answers of commands.                                          *)
LEMMA AnsweringType ==
    ASSUME JobAssumption, TypeOK,
           \/ \E e \in Execs : \/ AgentOutput(e) \/ AnswerLost(e)
                               \/ ExecutionCompleted(e) \/ ForgetCompleted(e)
                               \/ \E ok \in BOOLEAN : AgentAnswer(e, ok) \/ LookedUp(e, ok)
           \/ \E m \in Machines : \/ InteractiveOutput(m)
                                  \/ \E ok \in BOOLEAN : InteractiveAnswer(m, ok)
    PROVE  TypeOK'
<1>. DEFINE LeftType == left' \in [{"job", "disconnect", "interactive", "abort", "restart"} -> Nat]
<1>0. Awaits(awaiting)
  BY DEF TypeOK, Awaits
<1>1. ASSUME NEW e \in Execs, AgentOutput(e) PROVE TypeOK'
  <2>1. OutputFor(Target(e)) /\ LeftType
    BY <1>1 DEF AgentOutput, TypeOK
  <2>. QED
    BY <2>1, TargetType, OutputForType
<1>2. ASSUME NEW e \in Execs, AnswerLost(e) PROVE TypeOK'
  <2>1. atAgent' \in [Execs -> Nat]
    BY <1>2 DEF AnswerLost, TypeOK
  <2>. QED
    BY <1>2, <2>1 DEF AnswerLost, TypeOK, dbVars, stateVars, flightVars
<1>3. ASSUME NEW e \in Execs, ExecutionCompleted(e) PROVE TypeOK'
  <2>1. PICK o \in {"succeed", "fail"} :
           InflightDelete(e) /\ OnExecutionFinished(e, Without(Now(o, e)))
    BY <1>3 DEF ExecutionCompleted
  <2>2. FlightType'
    BY <2>1, InflightType
  <2>3. queue' \subseteq Execs /\ running' \subseteq Execs /\ Awaits(awaiting')
    BY <1>0, <2>1, AwaitsWithout, FinishedType
  <2>4. UNCHANGED <<dbVars, known, aborted, currentBatch, pauses, completed, agentVars, left>>
    BY <1>3 DEF ExecutionCompleted
  <2>. QED
    BY <2>2, <2>3, <2>4 DEF TypeOK, FlightType, Awaits, dbVars, agentVars
<1>4. ASSUME NEW e \in Execs, ForgetCompleted(e) PROVE TypeOK'
  BY <1>4 DEF ForgetCompleted, TypeOK, dbVars, stateVars, agentVars
<1>5. ASSUME NEW e \in Execs, NEW ok \in BOOLEAN, AgentAnswer(e, ok) PROVE TypeOK'
  <2>1. atAgent' \in [Execs -> Nat] /\ UNCHANGED <<link, received, left>>
    BY <1>5 DEF AgentAnswer, TypeOK
  <2>2. CASE Target(e) # {}
    <3>1. CompletionFor(Target(e), ok)
      BY <1>5, <2>2 DEF AgentAnswer
    <3>2. /\ inflight' \in [Execs -> {"absent", "idle", "armed", "fired"}]
          /\ completed' \subseteq Execs
          /\ Awaits(awaiting')
          /\ UNCHANGED <<dbVars, stateVars, newer, loose>>
      BY <3>1, TargetType, CompletionForType
    <3>. QED
      BY <2>1, <3>2 DEF TypeOK, Awaits, dbVars, stateVars
  <2>3. CASE Target(e) = {}
    <3>1. awaiting' = With(awaiting, {Now(IF ok THEN "lookupSucceed" ELSE "lookupFail", e)})
          /\ UNCHANGED <<dbVars, stateVars, flightVars>>
      BY <1>5, <2>3 DEF AgentAnswer
    <3>2. Awaits(awaiting')
      BY <1>0, <3>1, ExecAwaits, AwaitsWith DEF LookupOps
    <3>. QED
      BY <2>1, <3>1, <3>2 DEF TypeOK, Awaits, dbVars, stateVars, flightVars
  <2>. QED
    BY <2>2, <2>3
<1>6. ASSUME NEW e \in Execs, NEW ok \in BOOLEAN, LookedUp(e, ok) PROVE TypeOK'
  <2>1. At(FinalOp(ok), e) \in Await
    BY ExecAwaits DEF FinalOp, WriteOps
  <2>2. Awaits(awaiting')
    BY <1>0, <1>6, <2>1, AwaitsWith, AwaitsWithout DEF LookedUp
  <2>. QED
    BY <1>6, <2>2 DEF LookedUp, TypeOK, Awaits, dbVars, stateVars, agentVars
<1>7. ASSUME NEW m \in Machines, InteractiveOutput(m) PROVE TypeOK'
  <2>1. OutputFor(Newest(m)) /\ LeftType
    BY <1>7, SpendType DEF InteractiveOutput
  <2>. QED
    BY <2>1, OutputForType DEF Newest
<1>8. ASSUME NEW m \in Machines, NEW ok \in BOOLEAN, InteractiveAnswer(m, ok) PROVE TypeOK'
  <2>1. CompletionFor(Newest(m), ok) /\ LeftType /\ UNCHANGED agentVars
    BY <1>8, SpendType DEF InteractiveAnswer
  <2>2. Newest(m) \in SUBSET Execs
    BY DEF Newest
  <2>3. /\ inflight' \in [Execs -> {"absent", "idle", "armed", "fired"}]
        /\ completed' \subseteq Execs
        /\ Awaits(awaiting')
        /\ UNCHANGED <<dbVars, stateVars, newer, loose>>
    BY <2>1, <2>2, CompletionForType
  <2>. QED
    BY <2>1, <2>3 DEF TypeOK, Awaits, dbVars, stateVars, agentVars
<1>. QED
  BY <1>1, <1>2, <1>3, <1>4, <1>5, <1>6, <1>7, <1>8

(* Waves, completing and aborting a job.                                    *)
LEMMA JobsType ==
    ASSUME JobAssumption, TypeOK,
           \E j \in Jobs : \/ BatchEvaluated(j) \/ PauseOver(j) \/ JobTallied(j)
                           \/ JobFinished(j) \/ AbortJob(j) \/ RemainingSkipped(j)
    PROVE  TypeOK'
<1>0. Awaits(awaiting) /\ running \in SUBSET Execs
  BY DEF TypeOK, Awaits
<1>1. ASSUME NEW j \in Jobs, BatchEvaluated(j) PROVE TypeOK'
  <2>1. PICK v \in {"stop", "go"}, k \in 1..currentBatch[j] :
           LET a == [op |-> "evaluate", job |-> j, batch |-> k, db |-> v]
               next == NextBatch(j)
           IN  IF v = "stop"
               THEN /\ AbortRemaining(j, Without(a))
                    /\ UNCHANGED <<queue, running, currentBatch>>
               ELSE /\ currentBatch' = [currentBatch EXCEPT ![j] = next]
                    /\ IF Wave(j, next) = {}
                       THEN /\ NoDispatch(running, Without(a),
                                 IF j \in known THEN {JobAt("tally", j)} ELSE {})
                            /\ UNCHANGED pauses
                       ELSE IF j \in PausedJobs
                       THEN /\ pauses' = [pauses EXCEPT ![j] = @ + 1]
                            /\ NoDispatch(running, Without(a), {})
                       ELSE /\ RunRollingBatch(j, next, running, Without(a))
                            /\ UNCHANGED pauses
                    /\ UNCHANGED aborted
    BY <1>1 DEF BatchEvaluated
  <2>. DEFINE a == [op |-> "evaluate", job |-> j, batch |-> k, db |-> v]
  <2>2. Awaits(Without(a))
    BY <1>0, AwaitsWithout
  <2>3. CASE v = "stop"
    <3>1. AbortRemaining(j, Without(a)) /\ UNCHANGED <<queue, running, currentBatch>>
      BY <2>1, <2>3
    <3>. QED
      BY <1>1, <2>2, <3>1, AbortRemainingType
         DEF BatchEvaluated, TypeOK, Awaits, dbVars, flightVars, agentVars
  <2>4. CASE v = "go"
    <3>1. currentBatch' \in [Jobs -> Nat \ {0}] /\ UNCHANGED aborted
      BY <2>1, <2>4 DEF TypeOK, NextBatch
    <3>2. queue' \subseteq Execs /\ running' \subseteq Execs /\ Awaits(awaiting')
      <4>1. CASE Wave(j, NextBatch(j)) = {}
        <5>. DEFINE tally == IF j \in known THEN {JobAt("tally", j)} ELSE {}
        <5>1. Dispatch({}, running, Without(a), tally)
          BY <2>1, <2>4, <4>1 DEF NoDispatch
        <5>2. tally \in SUBSET Await
          BY JobAwaits
        <5>. QED
          BY <1>0, <2>2, <5>1, <5>2, DispatchType
      <4>2. CASE Wave(j, NextBatch(j)) # {} /\ j \in PausedJobs
        BY <1>0, <2>1, <2>2, <2>4, <4>2, DispatchType DEF NoDispatch
      <4>3. CASE Wave(j, NextBatch(j)) # {} /\ j \notin PausedJobs
        BY <1>0, <2>1, <2>2, <2>4, <4>3, RunRollingBatchType
      <4>. QED
        BY <4>1, <4>2, <4>3
    <3>3. pauses' \in [Jobs -> Nat]
      BY <2>1, <2>4 DEF TypeOK
    <3>. QED
      BY <1>1, <3>1, <3>2, <3>3
         DEF BatchEvaluated, TypeOK, Awaits, dbVars, flightVars, agentVars
  <2>. QED
    BY <2>3, <2>4
<1>2. ASSUME NEW j \in Jobs, PauseOver(j) PROVE TypeOK'
  <2>1. queue' \subseteq Execs /\ running' \subseteq Execs /\ Awaits(awaiting')
    BY <1>0, <1>2, RunRollingBatchType DEF PauseOver
  <2>2. pauses' \in [Jobs -> Nat]
    BY <1>2 DEF PauseOver, TypeOK
  <2>. QED
    BY <1>2, <2>1, <2>2 DEF PauseOver, TypeOK, Awaits, dbVars, flightVars, agentVars
<1>3. ASSUME NEW j \in Jobs, JobTallied(j) PROVE TypeOK'
  <2>1. PICK v \in {"SUCCESS", "FAILED"} :
           awaiting' = With(Without([op |-> "tally", job |-> j, db |-> v]),
                            {[op |-> "finish", job |-> j, db |-> "issued",
                              status |-> IF j \in aborted THEN "ABORTED" ELSE v]})
    BY <1>3 DEF JobTallied
  <2>2. (IF j \in aborted THEN "ABORTED" ELSE v) \in JobFinal
    BY DEF JobFinal
  <2>3. Awaits(awaiting')
    BY <1>0, <2>1, <2>2, JobAwaits, AwaitsWith, AwaitsWithout
  <2>. QED
    BY <1>3, <2>3 DEF JobTallied, TypeOK, Awaits, dbVars, stateVars, flightVars, agentVars
<1>4. ASSUME NEW j \in Jobs, JobFinished(j) PROVE TypeOK'
  <2>1. Awaits(awaiting')
    BY <1>0, <1>4, AwaitsWithout DEF JobFinished
  <2>. QED
    BY <1>4, <2>1 DEF JobFinished, TypeOK, Awaits, dbVars, flightVars, agentVars
<1>5. ASSUME NEW j \in Jobs, AbortJob(j) PROVE TypeOK'
  <2>1. /\ aborted' \subseteq Jobs
        /\ pauses' \in [Jobs -> Nat]
        /\ Awaits(awaiting')
    <3>1. CASE j \in known
      <4>1. AbortRemaining(j, awaiting)
        BY <1>5, <3>1 DEF AbortJob
      <4>. QED
        BY <1>0, <4>1, AbortRemainingType
    <3>2. CASE j \notin known
      <4>1. awaiting' = With(awaiting, {JobAt("abort", j)}) /\ UNCHANGED <<aborted, pauses>>
        BY <1>5, <3>2 DEF AbortJob
      <4>. QED
        BY <1>0, <4>1, JobAwaits, AwaitsWith DEF TypeOK
    <3>. QED
      BY <3>1, <3>2
  <2>2. left' \in [{"job", "disconnect", "interactive", "abort", "restart"} -> Nat]
    BY <1>5, SpendType DEF AbortJob
  <2>3. UNCHANGED <<dbVars, known, queue, running, currentBatch, flightVars, agentVars>>
    BY <1>5 DEF AbortJob
  <2>. QED
    BY <2>1, <2>2, <2>3 DEF TypeOK, Awaits, dbVars, flightVars, agentVars
<1>6. ASSUME NEW j \in Jobs, RemainingSkipped(j) PROVE TypeOK'
  <2>1. PICK ids \in SUBSET ExecsOf(j) :
           awaiting' = With(Without([op |-> "skip", job |-> j, ids |-> ids, db |-> "done"]),
                            {JobAt("abort", j)})
    BY <1>6 DEF RemainingSkipped
  <2>2. Awaits(awaiting')
    BY <1>0, <2>1, JobAwaits, AwaitsWith, AwaitsWithout
  <2>. QED
    BY <1>6, <2>2 DEF RemainingSkipped, TypeOK, Awaits, dbVars, flightVars, agentVars
<1>. QED
  BY <1>1, <1>2, <1>3, <1>4, <1>5, <1>6

(* Moving the captured sockets of pending sends to the closed ones.         *)
LEMMA ReplacedAwaits ==
    ASSUME NEW B, Awaits(B), NEW S \in SUBSET BagToSet(B), NEW T \in SUBSET Await,
           NEW f, NEW g, DOMAIN f = S, DOMAIN g = T,
           \A x \in S : f[x] \in Nat, \A x \in T : g[x] \in Nat \ {0}
    PROVE  Awaits((B (-) f) (+) g)
<1>. DEFINE C == B (-) f
<1>1. IsABag(C) /\ BagToSet(C) \subseteq BagToSet(B)
  BY DEF Awaits, IsABag, BagToSet, (-)
<1>2. IsABag(C (+) g) /\ BagToSet(C (+) g) = BagToSet(C) \cup T
  <2>. HIDE DEF C
  <2>. QED
    BY <1>1 DEF IsABag, BagToSet, (+)
<1>. QED
  BY <1>1, <1>2 DEF Awaits

(* Connections, timers and crashes.                                         *)
LEMMA ConnectionsType ==
    ASSUME JobAssumption, TypeOK,
           \/ \E m \in Machines : AgentConnect(m) \/ AgentDisconnect(m)
           \/ \E e \in Execs : TimerFires(e) \/ TimerChecked(e) \/ ExecutionTimedOut(e)
           \/ ServerRestart
    PROVE  TypeOK'
<1>0. Awaits(awaiting)
  BY DEF TypeOK, Awaits
<1>1. ASSUME NEW m \in Machines, AgentConnect(m) PROVE TypeOK'
  <2>1. link' \in [Machines -> {"up", "unregistered", "down"}]
    BY <1>1 DEF AgentConnect, TypeOK
  <2>. QED
    BY <1>1, <2>1 DEF AgentConnect, TypeOK, dbVars, stateVars, flightVars
<1>2. ASSUME NEW m \in Machines, AgentDisconnect(m) PROVE TypeOK'
  <2>. DEFINE mine == {e \in Execs : MachineOf[e] = m}
              sends == {a \in BagToSet(awaiting) : a.op = "send" /\ a.exec \in mine}
              dead == {[a EXCEPT !.op = "sendClosed"] : a \in sends}
              SendsAre(S) == [a \in S |-> awaiting[Now("send", a.exec)]]
              f == SendsAre(sends)
              g == SendsAre(dead)
  <2>1. \A a \in sends : a = Now("send", a.exec) /\ a.exec \in Execs
    BY <1>0 DEF Awaits, Await, ExecAwait, JobAwait, WriteOps, SendOps, LookupOps, Now
  <2>2. \A a \in sends : awaiting[Now("send", a.exec)] \in Nat \ {0}
    BY <1>0, <2>1 DEF Awaits, IsABag, BagToSet
  <2>3. \A d \in dead : \E a \in sends : d = Now("sendClosed", a.exec) /\ d.exec = a.exec
    BY <2>1 DEF Now
  <2>4. dead \subseteq Await
    BY <2>1, <2>3, ExecAwaits DEF SendOps
  <2>5. \A d \in dead : awaiting[Now("send", d.exec)] \in Nat \ {0}
    BY <2>2, <2>3
  <2>6. Awaits((awaiting (-) f) (+) g)
    <3>1. DOMAIN f = sends /\ DOMAIN g = dead /\ sends \subseteq BagToSet(awaiting)
      OBVIOUS
    <3>2. (\A x \in sends : f[x] \in Nat) /\ (\A x \in dead : g[x] \in Nat \ {0})
      BY <2>2, <2>5
    <3>. HIDE DEF f, g, sends, dead
    <3>. QED
      BY <1>0, <2>4, <3>1, <3>2, ReplacedAwaits
  <2>7. Awaits(awaiting')
    BY <1>0, <1>2, <2>6 DEF AgentDisconnect
  <2>8. link' \in [Machines -> {"up", "unregistered", "down"}]
    BY <1>2 DEF AgentDisconnect, TypeOK
  <2>9. inflight' \in [Execs -> {"absent", "idle", "armed", "fired"}]
    BY <1>2 DEF AgentDisconnect, TypeOK
  <2>10. newer' \subseteq Execs \X Execs
    BY <1>2 DEF AgentDisconnect, TypeOK, OrderWithout
  <2>11. left' \in [{"job", "disconnect", "interactive", "abort", "restart"} -> Nat]
    BY <1>2, SpendType DEF AgentDisconnect
  <2>12. UNCHANGED <<dbVars, stateVars, loose, completed, atAgent, received>>
    BY <1>2 DEF AgentDisconnect
  <2>. QED
    BY <2>7, <2>8, <2>9, <2>10, <2>11, <2>12 DEF TypeOK, Awaits, dbVars, stateVars
<1>3. ASSUME NEW e \in Execs, TimerFires(e) PROVE TypeOK'
  <2>1. FlightType'
    <3>1. inflight' \in [Execs -> {"absent", "idle", "armed", "fired"}]
      BY <1>3 DEF TimerFires, ReadsStatus, TypeOK
    <3>2. newer' \subseteq Execs \X Execs
      BY <1>3 DEF TimerFires, ReadsStatus, TypeOK, OrderWithout
    <3>3. loose' \in [Execs -> Nat]
      <4>1. \/ UNCHANGED loose
            \/ loose[e] > 0 /\ loose' = [loose EXCEPT ![e] = @ - 1]
        BY <1>3 DEF TimerFires, ReadsStatus
      <4>2. loose[e] > 0 => loose[e] - 1 \in Nat
        BY DEF TypeOK
      <4>. QED
        BY <4>1, <4>2 DEF TypeOK
    <3>. QED
      BY <3>1, <3>2, <3>3 DEF FlightType
  <2>2. Awaits(awaiting')
    BY <1>0, <1>3, ExecAwaits, AwaitsWith DEF TimerFires, ReadsStatus
  <2>3. UNCHANGED <<dbVars, stateVars, completed, agentVars, left>>
    BY <1>3 DEF TimerFires, ReadsStatus
  <2>. QED
    BY <2>1, <2>2, <2>3 DEF TypeOK, FlightType, Awaits, dbVars, stateVars, agentVars
<1>4. ASSUME NEW e \in Execs, TimerChecked(e) PROVE TypeOK'
  <2>1. FlightType'
    BY <1>4, InflightType DEF TimerChecked, FlightType, TypeOK, flightVars
  <2>2. Awaits(awaiting')
    BY <1>0, <1>4, ExecAwaits, AwaitsWith, AwaitsWithout DEF TimerChecked, WriteOps
  <2>3. UNCHANGED <<dbVars, stateVars, completed, agentVars, left>>
    BY <1>4 DEF TimerChecked, flightVars
  <2>. QED
    BY <2>1, <2>2, <2>3 DEF TypeOK, FlightType, Awaits, dbVars, stateVars, agentVars
<1>5. ASSUME NEW e \in Execs, ExecutionTimedOut(e) PROVE TypeOK'
  <2>1. InflightDelete(e) /\ OnExecutionFinished(e, Without(Now("timedOut", e)))
    BY <1>5 DEF ExecutionTimedOut
  <2>2. FlightType'
    BY <2>1, InflightType
  <2>3. queue' \subseteq Execs /\ running' \subseteq Execs /\ Awaits(awaiting')
    BY <1>0, <2>1, AwaitsWithout, FinishedType
  <2>4. UNCHANGED <<dbVars, known, aborted, currentBatch, pauses, completed, agentVars, left>>
    BY <1>5 DEF ExecutionTimedOut
  <2>. QED
    BY <2>2, <2>3, <2>4 DEF TypeOK, FlightType, Awaits, dbVars, agentVars
<1>6. CASE ServerRestart
  <2>1. Awaits(awaiting')
    BY <1>6 DEF ServerRestart, Awaits, IsABag, EmptyBag, SetToBag, BagToSet
  <2>2. left' \in [{"job", "disconnect", "interactive", "abort", "restart"} -> Nat]
    BY <1>6, SpendType DEF ServerRestart
  <2>3. /\ known' = {} /\ aborted' = {} /\ queue' = {} /\ running' = {}
        /\ currentBatch' = [j \in Jobs |-> 1]
        /\ pauses' = [j \in Jobs |-> 0]
        /\ inflight' = [e \in Execs |-> "absent"]
        /\ newer' = {}
        /\ loose' = [e \in Execs |-> 0]
        /\ completed' = {}
        /\ link' = [m \in Machines |-> "down"]
        /\ UNCHANGED <<dbVars, atAgent, received>>
    BY <1>6 DEF ServerRestart
  <2>. QED
    BY <2>1, <2>2, <2>3 DEF TypeOK, Awaits, dbVars
<1>. QED
  BY <1>1, <1>2, <1>3, <1>4, <1>5, <1>6

LEMMA TypeOKStep == JobAssumption /\ TypeOK /\ [Next]_vars => TypeOK'
<1>. SUFFICES ASSUME JobAssumption, TypeOK, [Next]_vars PROVE TypeOK'
  OBVIOUS
<1>1. CASE UNCHANGED vars
  BY <1>1 DEF TypeOK, vars, dbVars, stateVars, flightVars, agentVars
<1>2. CASE Next
  BY <1>2, DbStepType, DispatchingType, AnsweringType, JobsType, ConnectionsType
     DEF Next, JobStep, ExecStep, AgentStep, Environment
<1>. QED
  BY <1>1, <1>2

(* In every behaviour of the orchestrator, for every set of jobs, targets   *)
(* and machines, the rows, the memory of the server and the awaits it is    *)
(* suspended at are well-formed.                                            *)
THEOREM TypeCorrect == Spec => []TypeOK
<1>1. Init => TypeOK
  BY JobAssumption, BoundAssumption, TypeOKInit
<1>2. TypeOK /\ [Next]_vars => TypeOK'
  BY JobAssumption, TypeOKStep
<1>. QED
  BY <1>1, <1>2, PTL DEF Spec

-----------------------------------------------------------------------------
(* The limit of a parallel job.  Filling the slots keeps within it; waves  *)
(* are not bounded by it, so the proof also shows that only rolling jobs   *)
(* ever evaluate or run a wave.                                            *)

WithinLimit(run) ==
    \A j \in Jobs : Mode[j] = "parallel" => Cardinality(run \cap ExecsOf(j)) <= Limit[j]

RollingOnly ==
    /\ \A a \in BagToSet(awaiting) : a.op = "evaluate" => Mode[a.job] = "rolling"
    /\ \A j \in Jobs : pauses[j] > 0 => Mode[j] = "rolling"

LimitInv == TypeOK /\ LimitRespected /\ RollingOnly

-----------------------------------------------------------------------------
LEMMA ExecsOfFinite ==
    ASSUME JobAssumption, NEW j, NEW run
    PROVE  IsFiniteSet(run \cap ExecsOf(j)) /\ Cardinality(run \cap ExecsOf(j)) \in Nat
<1>1. IsFiniteSet(Execs) /\ run \cap ExecsOf(j) \in SUBSET Execs
  BY DEF JobAssumption, ExecsOf
<1>. QED
  BY <1>1, FS_Subset, FS_CardinalityType

LEMMA WithinSubset ==
    ASSUME JobAssumption, NEW run, WithinLimit(run), NEW T \in SUBSET run
    PROVE  WithinLimit(T)
<1>. SUFFICES ASSUME NEW j \in Jobs, Mode[j] = "parallel"
              PROVE  Cardinality(T \cap ExecsOf(j)) <= Limit[j]
  BY DEF WithinLimit
<1>1. Cardinality(T \cap ExecsOf(j)) <= Cardinality(run \cap ExecsOf(j))
  <2>1. T \cap ExecsOf(j) \in SUBSET (run \cap ExecsOf(j))
    OBVIOUS
  <2>. QED
    BY <2>1, ExecsOfFinite, FS_Subset
<1>2. Cardinality(run \cap ExecsOf(j)) <= Limit[j]
  BY DEF WithinLimit
<1>3. /\ Cardinality(T \cap ExecsOf(j)) \in Nat
      /\ Cardinality(run \cap ExecsOf(j)) \in Nat
      /\ Limit[j] \in Nat
  BY ExecsOfFinite DEF JobAssumption
<1>. QED
  BY <1>1, <1>2, <1>3

(* fillParallel takes no more executions than there are free slots.         *)
LEMMA FillWithin ==
    ASSUME JobAssumption, NEW j \in Jobs, NEW run, WithinLimit(run),
           NEW bag, FillParallel(j, run, bag)
    PROVE  WithinLimit(running')
<1>1. CASE ~ Active(j)
  <2>1. running' = run
    BY <1>1 DEF FillParallel, NoDispatch, Dispatch
  <2>. QED
    BY <2>1
<1>2. CASE Active(j)
  <2>1. PICK take \in SUBSET (queue \cap ExecsOf(j)) :
           LET on == {e \in take : MachineOf[e] \in online}
           IN  Cardinality(on) <= Room(j, run) /\ running' = run \cup on
    BY <1>2 DEF FillParallel, Dispatch
  <2>. DEFINE on == {e \in take : MachineOf[e] \in online}
              mine == run \cap ExecsOf(j)
  <2>2. on \subseteq ExecsOf(j) /\ running' = run \cup on /\ Cardinality(on) <= Room(j, run)
    BY <2>1
  <2>. HIDE DEF on
  <2>3. SUFFICES ASSUME NEW i \in Jobs, Mode[i] = "parallel"
                 PROVE  Cardinality(running' \cap ExecsOf(i)) <= Limit[i]
    BY DEF WithinLimit
  <2>4. CASE i # j
    <3>1. running' \cap ExecsOf(i) = run \cap ExecsOf(i)
      BY <2>2, <2>4 DEF ExecsOf
    <3>. QED
      BY <2>3, <3>1 DEF WithinLimit
  <2>5. CASE i = j
    <3>1. running' \cap ExecsOf(i) = mine \cup on
      BY <2>2, <2>5
    <3>2. IsFiniteSet(mine) /\ Cardinality(mine) \in Nat
      BY ExecsOfFinite
    <3>3. IsFiniteSet(on) /\ Cardinality(on) \in Nat
      BY <2>2, ExecsOfFinite, on \cap ExecsOf(j) = on
    <3>4. Cardinality(mine \cup on) <= Cardinality(mine) + Cardinality(on)
      <4>1. Cardinality(mine \cap on) \in Nat
        BY <3>2, FS_Subset, FS_CardinalityType, mine \cap on \in SUBSET mine
      <4>2. Cardinality(mine \cup on) = Cardinality(mine) + Cardinality(on) - Cardinality(mine \cap on)
        BY <3>2, <3>3, FS_Union
      <4>. HIDE DEF mine
      <4>. QED
        BY <3>2, <3>3, <4>1, <4>2
    <3>5. Cardinality(mine) <= Limit[j] /\ Limit[j] \in Nat
      BY <2>3, <2>5 DEF WithinLimit, JobAssumption
    <3>6. Cardinality(mine) + Cardinality(on) <= Limit[j]
      <4>. DEFINE a == Cardinality(mine)
                  b == Cardinality(on)
      <4>1. b <= IF a < Limit[j] THEN Limit[j] - a ELSE 0
        BY <2>2 DEF Room
      <4>. HIDE DEF mine
      <4>2. a \in Nat /\ b \in Nat /\ a <= Limit[j] /\ Limit[j] \in Nat
        BY <3>2, <3>3, <3>5
      <4>. HIDE DEF a, b
      <4>3. a + b <= Limit[j]
        BY <4>1, <4>2
      <4>. QED
        BY <4>3 DEF a, b
    <3>7. Cardinality(mine \cup on) \in Nat
      BY <3>2, <3>3, FS_Union, FS_CardinalityType
    <3>. HIDE DEF mine
    <3>8. Cardinality(mine \cup on) <= Limit[j]
      BY <3>2, <3>3, <3>4, <3>5, <3>6, <3>7
    <3>. QED
      BY <2>5, <3>1, <3>8
  <2>. QED
    BY <2>4, <2>5
<1>. QED
  BY <1>1, <1>2

LEMMA RollWithin ==
    ASSUME JobAssumption, NEW j \in Jobs, Mode[j] = "rolling", NEW k, NEW run,
           WithinLimit(run), NEW bag, RunRollingBatch(j, k, run, bag)
    PROVE  WithinLimit(running')
<1>1. PICK on \in SUBSET ExecsOf(j) : running' = run \cup on
  BY DEF RunRollingBatch, NoDispatch, Dispatch, Wave
<1>2. ASSUME NEW i \in Jobs, Mode[i] = "parallel"
      PROVE  running' \cap ExecsOf(i) = run \cap ExecsOf(i)
  BY <1>1, <1>2 DEF ExecsOf
<1>. QED
  BY <1>2 DEF WithinLimit

-----------------------------------------------------------------------------
(* The waves under evaluation in C are under evaluation in B.               *)
NoNewEvaluate(B, C) ==
    \A a \in BagToSet(C) : a.op = "evaluate" =>
        \E b \in BagToSet(B) : b.op = "evaluate" /\ b.job = a.job

LEMMA EvaluateWith ==
    ASSUME NEW B, NEW C, IsABag(C), NoNewEvaluate(B, C),
           NEW S, \A a \in S : a.op # "evaluate"
    PROVE  NoNewEvaluate(B, With(C, S))
  BY WithBag DEF NoNewEvaluate

LEMMA EvaluateWithout ==
    ASSUME IsABag(awaiting), NEW a
    PROVE  NoNewEvaluate(awaiting, Without(a)) /\ IsABag(Without(a))
  BY WithoutBag DEF NoNewEvaluate

(* A step that starts nothing keeps the invariant.                          *)
Quiet ==
    /\ running' \subseteq running
    /\ \A j \in Jobs : pauses'[j] > 0 => pauses[j] > 0
    /\ NoNewEvaluate(awaiting, awaiting')

LEMMA QuietStep ==
    ASSUME JobAssumption, LimitInv, Quiet
    PROVE  LimitRespected' /\ RollingOnly'
<1>. USE DEF Quiet
<1>1. WithinLimit(running')
  BY WithinSubset DEF LimitInv, LimitRespected, WithinLimit
<1>2. LimitRespected'
  BY <1>1 DEF LimitRespected, WithinLimit
<1>3. RollingOnly'
  BY DEF LimitInv, RollingOnly, NoNewEvaluate
<1>. QED
  BY <1>2, <1>3

LEMMA DispatchEvaluates ==
    ASSUME NEW B, NEW bag, IsABag(bag), NoNewEvaluate(B, bag),
           NEW es, NEW run, NEW tally, \A a \in tally : a.op # "evaluate",
           Dispatch(es, run, bag, tally)
    PROVE  NoNewEvaluate(B, awaiting')
<1>. DEFINE on == {e \in es : MachineOf[e] \in online}
            new == {At("offline", e) : e \in es \ on} \cup {At("run", e) : e \in on} \cup tally
<1>1. \A a \in new : a.op # "evaluate"
  BY DEF At
<1>2. awaiting' = With(bag, new)
  BY DEF Dispatch
<1>. HIDE DEF new
<1>. QED
  BY <1>1, <1>2, EvaluateWith

LEMMA FillEvaluates ==
    ASSUME NEW B, NEW bag, IsABag(bag), NoNewEvaluate(B, bag),
           NEW j, NEW run, FillParallel(j, run, bag)
    PROVE  NoNewEvaluate(B, awaiting')
<1>1. PICK es, tally : /\ Dispatch(es, run, bag, tally)
                       /\ tally = {} \/ tally = {JobAt("tally", j)}
  BY DEF FillParallel, NoDispatch
<1>2. \A a \in tally : a.op # "evaluate"
  BY <1>1 DEF JobAt
<1>. QED
  BY <1>1, <1>2, DispatchEvaluates

LEMMA RollEvaluates ==
    ASSUME NEW B, NEW bag, IsABag(bag), NoNewEvaluate(B, bag),
           NEW j, NEW k, NEW run, RunRollingBatch(j, k, run, bag)
    PROVE  NoNewEvaluate(B, awaiting')
<1>1. PICK es, tally : /\ Dispatch(es, run, bag, tally)
                       /\ tally = {} \/ tally = {JobAt("tally", j)}
  BY DEF RunRollingBatch, NoDispatch
<1>2. \A a \in tally : a.op # "evaluate"
  BY <1>1 DEF JobAt
<1>. QED
  BY <1>1, <1>2, DispatchEvaluates

(* An execution that is over refills the slots of a parallel job, or has the*)
(* wave of a rolling one evaluated.                                         *)
LEMMA FinishedWithin ==
    ASSUME JobAssumption, LimitInv, NEW e \in Execs, NEW bag, IsABag(bag),
           NoNewEvaluate(awaiting, bag), OnExecutionFinished(e, bag), UNCHANGED pauses
    PROVE  LimitRespected' /\ RollingOnly'
<1>. DEFINE j == JobOf[e]
            ev == [op |-> "evaluate", job |-> j, batch |-> currentBatch[j], db |-> "issued"]
<1>1. j \in Jobs /\ WithinLimit(running) /\ WithinLimit(SlotFreed(e))
  <2>1. WithinLimit(running)
    BY DEF LimitInv, LimitRespected, WithinLimit
  <2>. QED
    BY <2>1, WithinSubset, SlotFreed(e) \in SUBSET running DEF JobAssumption, SlotFreed
<1>2. CASE j \notin known
  <2>1. Dispatch({}, running, bag, {})
    BY <1>2 DEF OnExecutionFinished, NoDispatch
  <2>2. running' = running /\ NoNewEvaluate(awaiting, awaiting')
    BY <2>1, DispatchEvaluates, ZenonT(60) DEF Dispatch
  <2>. QED
    BY <2>2, QuietStep DEF Quiet
<1>3. CASE j \in known /\ Mode[j] = "parallel"
  <2>1. FillParallel(j, SlotFreed(e), bag)
    BY <1>3 DEF OnExecutionFinished
  <2>2. WithinLimit(running')
    BY <1>1, <2>1, FillWithin
  <2>3. NoNewEvaluate(awaiting, awaiting')
    BY <2>1, FillEvaluates
  <2>. QED
    BY <2>2, <2>3 DEF WithinLimit, LimitRespected, LimitInv, RollingOnly, NoNewEvaluate
<1>4. CASE j \in known /\ Mode[j] # "parallel"
  <2>1. Mode[j] = "rolling"
    BY <1>1, <1>4 DEF JobAssumption
  <2>2. PICK tally \in SUBSET {ev} : Dispatch({}, SlotFreed(e), bag, tally)
    BY <1>4 DEF OnExecutionFinished, NoDispatch
  <2>3. running' = SlotFreed(e) /\ awaiting' = With(bag, tally)
    BY <2>2 DEF Dispatch
  <2>4. LimitRespected'
    BY <1>1, <2>3 DEF WithinLimit, LimitRespected
  <2>5. RollingOnly'
    <3>1. BagToSet(awaiting') = BagToSet(bag) \cup tally
      BY <2>3, WithBag
    <3>2. \A a \in BagToSet(bag) : a.op = "evaluate" => Mode[a.job] = "rolling"
      BY DEF NoNewEvaluate, LimitInv, RollingOnly
    <3>3. \A a \in tally : a.job = j
      BY <2>2
    <3>. QED
      BY <2>1, <3>1, <3>2, <3>3 DEF LimitInv, RollingOnly
  <2>. QED
    BY <2>4, <2>5
<1>. QED
  BY <1>2, <1>3, <1>4

-----------------------------------------------------------------------------
LEMMA EvaluateSwap ==
    ASSUME IsABag(awaiting), NEW a, NEW x, x.op # "evaluate",
           \/ awaiting' = awaiting
           \/ awaiting' = Without(a)
           \/ awaiting' = With(awaiting, {x})
           \/ awaiting' = With(Without(a), {x})
    PROVE  NoNewEvaluate(awaiting, awaiting')
<1>1. NoNewEvaluate(awaiting, awaiting)
  BY DEF NoNewEvaluate
<1>2. NoNewEvaluate(awaiting, Without(a)) /\ IsABag(Without(a))
  BY EvaluateWithout
<1>3. \A y \in {x} : y.op # "evaluate"
  OBVIOUS
<1>. QED
  BY <1>1, <1>2, <1>3, EvaluateWith

(* Steps of one execution that leave its slot alone or free it.             *)
LEMMA ExecQuiet ==
    ASSUME TypeOK, NEW e \in Execs,
           \/ StartSending(e) \/ CommandSent(e) \/ CommandSentIntoClosedSocket(e)
           \/ CommandNotSent(e) \/ TimerFires(e) \/ TimerChecked(e)
           \/ AgentOutput(e) \/ AnswerLost(e) \/ ForgetCompleted(e)
           \/ \E ok \in BOOLEAN : AgentAnswer(e, ok) \/ LookedUp(e, ok)
    PROVE  Quiet
<1>0. IsABag(awaiting)
  BY DEF TypeOK
<1>. USE DEF stateVars, Quiet
<1>1. CASE StartSending(e)
  <2>1. \A o \in {"send", "refused"} : Now(o, e).op # "evaluate"
    BY DEF Now
  <2>. QED
    BY <1>0, <1>1, <2>1, EvaluateSwap DEF StartSending
<1>2. CASE CommandSent(e) \/ CommandSentIntoClosedSocket(e)
  BY <1>0, <1>2, EvaluateWithout DEF CommandSent, CommandSentIntoClosedSocket
<1>3. CASE CommandNotSent(e)
  <2>1. At("sendFailed", e).op # "evaluate"
    BY DEF At
  <2>. QED
    BY <1>0, <1>3, <2>1, EvaluateSwap DEF CommandNotSent
<1>4. CASE TimerFires(e)
  <2>1. At("check", e).op # "evaluate"
    BY DEF At
  <2>. QED
    BY <1>0, <1>4, <2>1, EvaluateSwap DEF TimerFires, ReadsStatus
<1>5. CASE TimerChecked(e)
  <2>1. At("timedOut", e).op # "evaluate"
    BY DEF At
  <2>. QED
    BY <1>0, <1>5, <2>1, EvaluateSwap, EvaluateWithout DEF TimerChecked
<1>6. CASE AgentOutput(e) \/ AnswerLost(e) \/ ForgetCompleted(e)
  BY <1>6 DEF AgentOutput, OutputFor, AnswerLost, ForgetCompleted, NoNewEvaluate
<1>7. ASSUME NEW ok \in BOOLEAN, AgentAnswer(e, ok)
      PROVE  Quiet
  <2>1. PICK x : x.op # "evaluate" /\ awaiting' = With(awaiting, {x})
    <3>1. \A y : At(FinalOp(ok), y).op # "evaluate"
      BY DEF At, FinalOp
    <3>2. Now(IF ok THEN "lookupSucceed" ELSE "lookupFail", e).op # "evaluate"
      BY DEF Now
    <3>. QED
      BY <1>7, <3>1, <3>2 DEF AgentAnswer, CompletionFor
  <2>2. UNCHANGED stateVars
    BY <1>7 DEF AgentAnswer, CompletionFor
  <2>. QED
    BY <1>0, <2>1, <2>2, EvaluateSwap
<1>8. ASSUME NEW ok \in BOOLEAN, LookedUp(e, ok)
      PROVE  Quiet
  <2>1. At(FinalOp(ok), e).op # "evaluate"
    BY DEF At, FinalOp
  <2>. QED
    BY <1>0, <1>8, <2>1, EvaluateSwap DEF LookedUp
<1>. HIDE DEF Quiet
<1>. QED
  BY <1>1, <1>2, <1>3, <1>4, <1>5, <1>6, <1>7, <1>8

(* Steps of a job, a user or a connection that start nothing.               *)
LEMMA OtherQuiet ==
    ASSUME TypeOK,
           \/ \E j \in Jobs : \/ CreateJob(j) \/ StartJob(j) \/ JobTallied(j)
                               \/ JobFinished(j) \/ AbortJob(j) \/ RemainingSkipped(j)
           \/ \E m \in Machines : \/ AgentConnect(m) \/ AgentDisconnect(m)
                                  \/ InteractiveOutput(m)
                                  \/ \E ok \in BOOLEAN : InteractiveAnswer(m, ok)
           \/ ServerRestart
    PROVE  Quiet
<1>0. IsABag(awaiting) /\ pauses \in [Jobs -> Nat]
  BY DEF TypeOK
<1>. USE DEF stateVars
<1>. USE DEF Quiet
<1>1. ASSUME NEW j \in Jobs, CreateJob(j) \/ StartJob(j)
      PROVE  Quiet
  <2>1. /\ [op |-> "create", job |-> j, db |-> "done"].op # "evaluate"
        /\ JobAt("start", j).op # "evaluate"
    BY DEF JobAt
  <2>. QED
    BY <1>0, <1>1, <2>1, EvaluateSwap DEF CreateJob, StartJob
<1>2. ASSUME NEW j \in Jobs, JobTallied(j)
      PROVE  Quiet
  <2>1. PICK a, x : x.op # "evaluate" /\ awaiting' = With(Without(a), {x})
    <3>1. \A s : [op |-> "finish", job |-> j, db |-> "issued", status |-> s].op # "evaluate"
      OBVIOUS
    <3>. QED
      BY <1>2, <3>1 DEF JobTallied
  <2>. QED
    BY <1>0, <1>2, <2>1, EvaluateSwap DEF JobTallied
<1>3. ASSUME NEW j \in Jobs, JobFinished(j)
      PROVE  Quiet
  BY <1>0, <1>3, EvaluateWithout DEF JobFinished
<1>4. ASSUME NEW j \in Jobs, AbortJob(j)
      PROVE  Quiet
  <2>1. PICK x : x.op # "evaluate" /\ awaiting' = With(awaiting, {x})
    <3>1. /\ \A s : [op |-> "skip", job |-> j, ids |-> s, db |-> "issued"].op # "evaluate"
          /\ JobAt("abort", j).op # "evaluate"
      BY DEF JobAt
    <3>. QED
      BY <1>4, <3>1 DEF AbortJob, AbortRemaining
  <2>2. \A i \in Jobs : pauses'[i] > 0 => pauses[i] > 0
    BY <1>0, <1>4 DEF AbortJob, AbortRemaining
  <2>. QED
    BY <1>0, <1>4, <2>1, <2>2, EvaluateSwap DEF AbortJob
<1>5. ASSUME NEW j \in Jobs, RemainingSkipped(j)
      PROVE  Quiet
  <2>1. JobAt("abort", j).op # "evaluate"
    BY DEF JobAt
  <2>. QED
    BY <1>0, <1>5, <2>1, EvaluateSwap DEF RemainingSkipped
<1>6. ASSUME NEW m \in Machines, AgentConnect(m) \/ InteractiveOutput(m)
      PROVE  Quiet
  BY <1>6 DEF AgentConnect, InteractiveOutput, OutputFor, NoNewEvaluate
<1>7. ASSUME NEW m \in Machines, AgentDisconnect(m)
      PROVE  Quiet
  <2>. DEFINE mine == {e \in Execs : MachineOf[e] = m}
              sends == {a \in BagToSet(awaiting) : a.op = "send" /\ a.exec \in mine}
              dead == {[a EXCEPT !.op = "sendClosed"] : a \in sends}
              SendsAre(S) == [a \in S |-> awaiting[Now("send", a.exec)]]
              f == SendsAre(sends)
              g == SendsAre(dead)
  <2>1. awaiting' = (awaiting (-) f) (+) g \/ UNCHANGED awaiting
    BY <1>7 DEF AgentDisconnect
  <2>2. \A d \in dead : d.op # "evaluate"
    <3>1. \A a \in sends : a \in Await
      BY DEF TypeOK
    <3>2. \A a \in Await : a.op = "send" => [a EXCEPT !.op = "sendClosed"].op = "sendClosed"
      BY DEF Await, ExecAwait, JobAwait
    <3>. QED
      BY <3>1, <3>2
  <2>3. BagToSet((awaiting (-) f) (+) g) \subseteq BagToSet(awaiting) \cup dead
    <3>1. DOMAIN g = dead
      OBVIOUS
    <3>. HIDE DEF f, g, dead, sends
    <3>. QED
      BY <3>1 DEF BagToSet, (-), (+)
  <2>4. NoNewEvaluate(awaiting, awaiting')
    BY <2>1, <2>2, <2>3 DEF NoNewEvaluate
  <2>. QED
    BY <1>7, <2>4 DEF AgentDisconnect
<1>8. ASSUME NEW m \in Machines, NEW ok \in BOOLEAN, InteractiveAnswer(m, ok)
      PROVE  Quiet
  <2>1. PICK x : x.op # "evaluate" /\ awaiting' = With(awaiting, {x})
    <3>1. \A y : At(FinalOp(ok), y).op # "evaluate"
      BY DEF At, FinalOp
    <3>. QED
      BY <1>8, <3>1 DEF InteractiveAnswer, CompletionFor
  <2>2. UNCHANGED stateVars
    BY <1>8 DEF InteractiveAnswer, CompletionFor
  <2>. QED
    BY <1>0, <2>1, <2>2, EvaluateSwap
<1>9. ASSUME ServerRestart PROVE Quiet
  <2>1. running' = {} /\ pauses' = [j \in Jobs |-> 0] /\ awaiting' = EmptyBag
    BY <1>9 DEF ServerRestart
  <2>2. BagToSet(awaiting') = {}
    BY <2>1 DEF BagToSet, EmptyBag, SetToBag
  <2>. QED
    BY <2>1, <2>2 DEF NoNewEvaluate
<1>. HIDE DEF Quiet
<1>. QED
  BY <1>1, <1>2, <1>3, <1>4, <1>5, <1>6, <1>7, <1>8, <1>9

(* What the database executes leaves every wave under evaluation as it is.  *)
LEMMA DbQuiet ==
    ASSUME JobAssumption, TypeOK, DbStep
    PROVE  Quiet
<1>1. PICK a \in BagToSet(awaiting) :
         DbWriteExecution(a) \/ DbSkip(a) \/ DbWriteJob(a) \/ DbRead(a)
  BY DEF DbStep
<1>2. IsABag(awaiting) /\ a \in Await
  BY DEF TypeOK
<1>3. \/ awaiting' = Without(a)
      \/ \E v : awaiting' = With(Without(a), {[a EXCEPT !.db = v]})
  BY <1>1 DEF DbWriteExecution, DbSkip, DbWriteJob, DbRead, Answered
<1>4. NoNewEvaluate(awaiting, awaiting')
  <2>1. CASE awaiting' = Without(a)
    BY <1>2, <2>1, EvaluateWithout
  <2>2. ASSUME NEW v, awaiting' = With(Without(a), {[a EXCEPT !.db = v]})
        PROVE  NoNewEvaluate(awaiting, awaiting')
    <3>. DEFINE b == [a EXCEPT !.db = v]
    <3>1. DOMAIN a = DOMAIN b /\ "op" \in DOMAIN a /\ b.op = a.op
      BY <1>2 DEF Await, ExecAwait, JobAwait
    <3>2. ASSUME b.op = "evaluate" PROVE a.op = "evaluate" /\ a.job = b.job
      <4>1. a \in [op: {"evaluate"}, job: Jobs, batch: Nat, db: {"issued", "stop", "go"}]
        BY <1>2, <3>1, <3>2 DEF Await, ExecAwait, JobAwait, WriteOps, SendOps, LookupOps
      <4>. QED
        BY <4>1
    <3>. HIDE DEF b
    <3>3. BagToSet(awaiting') \subseteq BagToSet(awaiting) \cup {b}
      <4>1. awaiting' = With(Without(a), {b})
        BY <2>2 DEF b
      <4>. QED
        BY <1>2, <4>1, WithoutBag, WithBag
    <3>. QED
      BY <1>1, <3>2, <3>3 DEF NoNewEvaluate
  <2>. QED
    BY <1>3, <2>1, <2>2
<1>. QED
  BY <1>4 DEF DbStep, stateVars, Quiet

-----------------------------------------------------------------------------
(* The steps that start executions.                                         *)
LEMMA StartedWithin ==
    ASSUME JobAssumption, LimitInv, NEW j \in Jobs, JobStarted(j)
    PROVE  LimitRespected' /\ RollingOnly'
<1>1. IsABag(awaiting) /\ WithinLimit(running)
  BY DEF LimitInv, TypeOK, LimitRespected, WithinLimit
<1>2. PICK a : FirstDispatch(j, Without(a)) /\ UNCHANGED pauses
  BY DEF JobStarted
<1>3. IsABag(Without(a)) /\ NoNewEvaluate(awaiting, Without(a))
  BY <1>1, EvaluateWithout
<1>4. WithinLimit(running') /\ NoNewEvaluate(awaiting, awaiting')
  <2>1. CASE Mode[j] = "rolling"
    <3>1. RunRollingBatch(j, currentBatch[j], running, Without(a))
      BY <1>2, <2>1 DEF FirstDispatch
    <3>. QED
      BY <1>1, <1>3, <2>1, <3>1, RollWithin, RollEvaluates
  <2>2. CASE Mode[j] # "rolling"
    <3>1. FillParallel(j, running, Without(a))
      BY <1>2, <2>2 DEF FirstDispatch
    <3>. QED
      BY <1>1, <1>3, <3>1, FillWithin, FillEvaluates
  <2>. QED
    BY <2>1, <2>2
<1>. QED
  BY <1>2, <1>4 DEF LimitInv, RollingOnly, NoNewEvaluate, LimitRespected, WithinLimit

LEMMA EvaluatedWithin ==
    ASSUME JobAssumption, LimitInv, NEW j \in Jobs, BatchEvaluated(j)
    PROVE  LimitRespected' /\ RollingOnly'
<1>1. IsABag(awaiting) /\ WithinLimit(running) /\ pauses \in [Jobs -> Nat]
  BY DEF LimitInv, TypeOK, LimitRespected, WithinLimit
<1>2. PICK v \in {"stop", "go"}, k \in 1..currentBatch[j] :
         LET a == [op |-> "evaluate", job |-> j, batch |-> k, db |-> v]
         IN  /\ Ready(a)
             /\ \/ AbortRemaining(j, Without(a)) /\ UNCHANGED running
                \/ /\ NoDispatch(running, Without(a),
                          IF j \in known THEN {JobAt("tally", j)} ELSE {})
                   /\ UNCHANGED pauses
                \/ /\ pauses' = [pauses EXCEPT ![j] = @ + 1]
                   /\ NoDispatch(running, Without(a), {})
                \/ /\ RunRollingBatch(j, NextBatch(j), running, Without(a))
                   /\ UNCHANGED pauses
  BY DEF BatchEvaluated
<1>. DEFINE a == [op |-> "evaluate", job |-> j, batch |-> k, db |-> v]
<1>3. Mode[j] = "rolling"
  <2>1. a \in BagToSet(awaiting)
    BY <1>2 DEF Ready, BagIn
  <2>. QED
    BY <2>1 DEF LimitInv, RollingOnly
<1>. HIDE DEF a
<1>4. IsABag(Without(a)) /\ NoNewEvaluate(awaiting, Without(a))
  BY <1>1, EvaluateWithout
<1>5. CASE AbortRemaining(j, Without(a)) /\ UNCHANGED running
  <2>1. NoNewEvaluate(awaiting, awaiting')
    <3>1. \A s \in {[op |-> "skip", job |-> j, ids |-> PendingIds(j), db |-> "issued"]} :
            s.op # "evaluate"
      OBVIOUS
    <3>. QED
      BY <1>4, <1>5, <3>1, EvaluateWith DEF AbortRemaining
  <2>2. \A i \in Jobs : pauses'[i] > 0 => pauses[i] > 0
    BY <1>1, <1>5 DEF AbortRemaining
  <2>. QED
    BY <1>5, <2>1, <2>2, QuietStep DEF Quiet
<1>6. ASSUME NEW tally, \A t \in tally : t.op # "evaluate",
             NoDispatch(running, Without(a), tally),
             \A i \in Jobs : pauses'[i] > 0 => pauses[i] > 0 \/ i = j
      PROVE  LimitRespected' /\ RollingOnly'
  <2>1. running' = running
    BY <1>6 DEF NoDispatch, Dispatch
  <2>2. NoNewEvaluate(awaiting, awaiting')
    BY <1>4, <1>6, DispatchEvaluates DEF NoDispatch
  <2>. QED
    BY <1>3, <1>6, <2>1, <2>2 DEF LimitInv, RollingOnly, NoNewEvaluate, LimitRespected
<1>7. CASE /\ NoDispatch(running, Without(a), IF j \in known THEN {JobAt("tally", j)} ELSE {})
           /\ UNCHANGED pauses
  <2>1. \A t \in IF j \in known THEN {JobAt("tally", j)} ELSE {} : t.op # "evaluate"
    BY DEF JobAt
  <2>. QED
    BY <1>6, <1>7, <2>1
<1>8. CASE /\ pauses' = [pauses EXCEPT ![j] = @ + 1]
           /\ NoDispatch(running, Without(a), {})
  BY <1>1, <1>6, <1>8
<1>9. CASE RunRollingBatch(j, NextBatch(j), running, Without(a)) /\ UNCHANGED pauses
  <2>1. WithinLimit(running')
    BY <1>1, <1>3, <1>9, RollWithin
  <2>2. NoNewEvaluate(awaiting, awaiting')
    BY <1>4, <1>9, RollEvaluates
  <2>. QED
    BY <1>9, <2>1, <2>2 DEF LimitInv, RollingOnly, NoNewEvaluate, LimitRespected, WithinLimit
<1>. QED
  BY <1>2, <1>5, <1>7, <1>8, <1>9 DEF a

LEMMA ResumedWithin ==
    ASSUME JobAssumption, LimitInv, NEW j \in Jobs, PauseOver(j)
    PROVE  LimitRespected' /\ RollingOnly'
<1>1. /\ IsABag(awaiting) /\ WithinLimit(running) /\ pauses \in [Jobs -> Nat]
      /\ NoNewEvaluate(awaiting, awaiting)
  BY DEF LimitInv, TypeOK, LimitRespected, WithinLimit, NoNewEvaluate
<1>2. /\ Mode[j] = "rolling"
      /\ RunRollingBatch(j, currentBatch[j], running, awaiting)
      /\ \A i \in Jobs : pauses'[i] > 0 => pauses[i] > 0
  BY <1>1 DEF PauseOver, LimitInv, RollingOnly
<1>3. WithinLimit(running') /\ NoNewEvaluate(awaiting, awaiting')
  BY <1>1, <1>2, RollWithin, RollEvaluates
<1>. QED
  BY <1>2, <1>3 DEF LimitInv, RollingOnly, NoNewEvaluate, LimitRespected, WithinLimit

LEMMA OverWithin ==
    ASSUME JobAssumption, LimitInv, NEW e \in Execs,
           DispatchFailed(e) \/ ExecutionCompleted(e) \/ ExecutionTimedOut(e)
    PROVE  LimitRespected' /\ RollingOnly'
<1>1. IsABag(awaiting)
  BY DEF LimitInv, TypeOK
<1>2. PICK a : OnExecutionFinished(e, Without(a)) /\ UNCHANGED pauses
  BY DEF DispatchFailed, ExecutionCompleted, ExecutionTimedOut
<1>3. IsABag(Without(a)) /\ NoNewEvaluate(awaiting, Without(a))
  BY <1>1, EvaluateWithout
<1>. QED
  BY <1>2, <1>3, FinishedWithin

-----------------------------------------------------------------------------
LEMMA LimitStep == JobAssumption /\ LimitInv /\ [Next]_vars => LimitInv'
<1>. SUFFICES ASSUME JobAssumption, LimitInv, [Next]_vars
              PROVE  LimitRespected' /\ RollingOnly'
  BY TypeOKStep DEF LimitInv
<1>0. TypeOK
  BY DEF LimitInv
<1>1. CASE UNCHANGED vars
  BY <1>1 DEF LimitInv, LimitRespected, RollingOnly, vars, stateVars
<1>2. CASE DbStep
  BY <1>0, <1>2, DbQuiet, QuietStep
<1>3. ASSUME NEW j \in Jobs, JobStep(j) PROVE LimitRespected' /\ RollingOnly'
  <2>1. CASE StartJob(j) \/ JobTallied(j) \/ JobFinished(j) \/ RemainingSkipped(j)
    BY <1>0, <2>1, OtherQuiet, QuietStep
  <2>. QED
    BY <1>3, <2>1, StartedWithin, EvaluatedWithin, ResumedWithin DEF JobStep
<1>4. ASSUME NEW e \in Execs, ExecStep(e) \/ AgentStep(e)
      PROVE  LimitRespected' /\ RollingOnly'
  <2>1. CASE DispatchFailed(e) \/ ExecutionCompleted(e) \/ ExecutionTimedOut(e)
    BY <2>1, OverWithin
  <2>2. CASE ~ (DispatchFailed(e) \/ ExecutionCompleted(e) \/ ExecutionTimedOut(e))
    <3>1. Quiet
      BY <1>0, <1>4, <2>2, ExecQuiet DEF ExecStep, AgentStep
    <3>. QED
      BY <3>1, QuietStep
  <2>. QED
    BY <2>1, <2>2
<1>5. CASE Environment
  <2>1. CASE \E e \in Execs : AgentOutput(e) \/ ForgetCompleted(e)
    <3>1. Quiet
      BY <1>0, <2>1, ExecQuiet
    <3>. QED
      BY <3>1, QuietStep
  <2>2. CASE ~ \E e \in Execs : AgentOutput(e) \/ ForgetCompleted(e)
    BY <1>0, <1>5, <2>2, OtherQuiet, QuietStep DEF Environment
  <2>. QED
    BY <2>1, <2>2
<1>. QED
  BY <1>1, <1>2, <1>3, <1>4, <1>5 DEF Next

LEMMA LimitInit == JobAssumption /\ BoundAssumption /\ Init => LimitInv
<1>. SUFFICES ASSUME JobAssumption, BoundAssumption, Init PROVE LimitInv
  OBVIOUS
<1>1. TypeOK
  BY TypeOKInit
<1>2. LimitRespected
  <2>1. ASSUME NEW j \in Jobs PROVE Cardinality(running \cap ExecsOf(j)) = 0
    <3>1. running \cap ExecsOf(j) = {}
      BY DEF Init
    <3>. QED
      BY <3>1, FS_EmptySet
  <2>. QED
    BY <2>1 DEF LimitRespected, JobAssumption
<1>3. RollingOnly
  BY DEF Init, RollingOnly, BagToSet, EmptyBag, SetToBag
<1>. QED
  BY <1>1, <1>2, <1>3 DEF LimitInv

(* strategy.concurrency is never exceeded by a parallel job, for any set of *)
(* jobs, targets and machines: whatever handlers are suspended when         *)
(* fillParallel runs, it fills no more than the free slots.                 *)
THEOREM LimitHolds == Spec => []LimitRespected
<1>1. Init => LimitInv
  BY JobAssumption, BoundAssumption, LimitInit
<1>2. LimitInv /\ [Next]_vars => LimitInv'
  BY JobAssumption, LimitStep
<1>3. LimitInv => LimitRespected
  BY DEF LimitInv
<1>. QED
  BY <1>1, <1>2, <1>3, PTL DEF Spec
=============================================================================
