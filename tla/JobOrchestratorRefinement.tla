--------------------- MODULE JobOrchestratorRefinement ---------------------
(***************************************************************************)
(* Proof that the orchestrator implements ExecutionLifecycle for jobs that *)
(* wait at most once: with the lemmas of JobOrchestratorLifecycle, the     *)
(* steps that dispatch, the database and restarts keep DispatchedOnce, and *)
(* under it every step is a step of the abstract specification.  On top of *)
(* it, the proofs that every slot of a job is given back, that nothing of  *)
(* a finished parallel job is left, and that undisturbed waves of one      *)
(* target run in order; and that the kill switch holds.                    *)
(***************************************************************************)
EXTENDS JobOrchestratorLifecycle

-----------------------------------------------------------------------------
(* Steps that dispatch.  N are the awaits of a dispatch of es: one for each *)
(* execution, and T.                                                        *)
Claims(N, es, T) ==
    /\ \A x \in es : \E o \in {"run", "offline"} : N \cap ExecRecs(x) = {At(o, x)}
    /\ \A x \in Execs \ es : N \cap ExecRecs(x) = {}
    /\ \A n \in N : n.op \in {"run", "offline"} \/ n \in T

LEMMA DispatchClaims ==
    ASSUME NEW es \in SUBSET Execs, NEW run, NEW bag, NEW T, \A t \in T : t.op \notin ExecOps,
           Dispatch(es, run, bag, T)
    PROVE  /\ queue' = queue \ es /\ running' \subseteq run \cup es
           /\ \E N : awaiting' = With(bag, N) /\ Claims(N, es, T)
<1>. DEFINE on == {e \in es : MachineOf[e] \in online}
            N == {At("offline", e) : e \in es \ on} \cup {At("run", e) : e \in on} \cup T
<1>1. queue' = queue \ es /\ running' = run \cup on /\ awaiting' = With(bag, N)
  BY DEF Dispatch
<1>2. \A e : \A o \in {"run", "offline"} : At(o, e).op = o /\ At(o, e).exec = e
  BY DEF At
<1>3. \A x \in Execs, n \in T : n \notin ExecRecs(x)
  BY DEF ExecRecs
<1>4. \A x \in Execs : \A e : \A o \in {"run", "offline"} : At(o, e) \in ExecRecs(x) => e = x
  BY <1>2 DEF ExecRecs
<1>5. \A x \in Execs : At("run", x) \in ExecRecs(x) /\ At("offline", x) \in ExecRecs(x)
  BY ExecAwaitRecs DEF WriteOps
<1>6. \A n \in N : n.op \in {"run", "offline"} \/ n \in T
  BY <1>2
<1>7. \A x \in Execs \ es : N \cap ExecRecs(x) = {}
  BY <1>3, <1>4
<1>8. \A x \in es : \E o \in {"run", "offline"} : N \cap ExecRecs(x) = {At(o, x)}
  <2>. TAKE x \in es
  <2>1. CASE x \in on
    <3>1. N \cap ExecRecs(x) = {At("run", x)}
      BY <1>3, <1>4, <1>5, <2>1
    <3>. QED
      BY <3>1
  <2>2. CASE x \notin on
    <3>1. N \cap ExecRecs(x) = {At("offline", x)}
      BY <1>3, <1>4, <1>5, <2>2
    <3>. QED
      BY <3>1
  <2>. QED
    BY <2>1, <2>2
<1>9. running' \subseteq run \cup es
  BY <1>1
<1>. HIDE DEF N
<1>10. Claims(N, es, T)
  BY <1>6, <1>7, <1>8 DEF Claims
<1>. QED
  BY <1>1, <1>9, <1>10

LEMMA NewBecomes ==
    ASSUME NEW B, IsABag(B), NEW X, BagToSet(B) \cap X = {}, NEW S, NEW b, S \cap X = {b}
    PROVE  Single(With(B, S), X, b)
<1>1. b \in S \ BagToSet(B)
  OBVIOUS
<1>2. With(B, S)[b] = 1 /\ BagToSet(With(B, S)) = BagToSet(B) \cup S
  BY <1>1, WithCopies
<1>. QED
  BY <1>2 DEF Single

(* A dispatch of fresh executions of a started job, when the executions in  *)
(* F, which are under way, are finished.                                    *)
LEMMA DispatchKeeps ==
    ASSUME JobAssumption, IInv, TypeOK', PausesKept,
           UNCHANGED <<dbVars, known, aborted, agentVars>>,
           \A i \in Jobs : currentBatch'[i] >= currentBatch[i] /\ StartsKept(i),
           NEW j \in Jobs, NEW es \in SUBSET ExecsOf(j), \A x \in es : Fresh(x) \/ Repeats(j),
           es = {} \/ (Active(j) /\ ~ Unstarted(j)'), es = {} \/ pauses'[j] = 0 \/ Repeats(j),
           Mode[j] = "rolling" => \A x \in es : BatchOf[x] <= currentBatch'[j],
           NEW F \in SUBSET Execs, \A x \in F : UnderWay(x) /\ ~ Fresh(x), F \cap es = {},
           \A x \in Execs \ F : inflight'[x] = inflight[x] /\ loose'[x] = loose[x],
           NEW a, a.op \notin SendOps, a.op \in ExecOps => a.exec \in F,
           NEW run \in SUBSET running, NEW T,
           \A t \in T : t.op = "tally" \/ (t.op = "evaluate" /\ ~ Unstarted(t.job)),
           Dispatch(es, run, Without(a), T)
    PROVE  DispatchedOnce'
<1>0. /\ TypeOK /\ Phases /\ StartsOnce /\ SkipsAreFresh /\ IsABag(awaiting)
      /\ IsABag(Without(a)) /\ BagToSet(Without(a)) \subseteq BagToSet(awaiting)
  BY WithoutBag DEF IInv, DispatchedOnce, TypeOK
<1>1. es \subseteq Execs /\ \A x \in es : JobOf[x] = j
  BY DEF ExecsOf
<1>2. \A t \in T : t.op \notin ExecOps /\ t.op \notin SendOps
  BY DEF ExecOps, WriteOps, SendOps, LookupOps
<1>3. /\ queue' = queue \ es /\ running' \subseteq running \cup es
      /\ \E N : awaiting' = With(Without(a), N) /\ Claims(N, es, T)
  BY <1>1, <1>2, DispatchClaims
<1>4. PICK N : awaiting' = With(Without(a), N) /\ Claims(N, es, T)
  BY <1>3
<1>5. Swaps(a, N)
  BY <1>4 DEF Swaps
<1>6. \A x \in F : MovesOn(x)
  <2>. TAKE x \in F
  <2>1. x \in Execs \ es /\ UnderWay(x) /\ ~ Fresh(x)
    OBVIOUS
  <2>2. N \cap ExecRecs(x) = {}
    BY <1>4, <2>1 DEF Claims
  <2>3. EarlyRecs(x) \subseteq ExecRecs(x)
    BY ExecAwaitRecs DEF EarlyRecs, WriteOps
  <2>4. \A s \in N : s.op \notin SendOps /\ s \notin EarlyRecs(x)
    <3>1. \A s \in N : s.op \notin SendOps
      BY <1>2, <1>4 DEF Claims, SendOps
    <3>. QED
      BY <2>2, <2>3, <3>1
  <2>5. Recordable(x)' /\ received'[x] = received[x]
    BY <2>1, StatusUnderWay DEF dbVars, agentVars
  <2>6. UnderWay(x)'
    BY <1>0, <1>5, <2>1, <2>4, <2>5, UnderWayKept
  <2>. QED
    BY <2>1, <2>6 DEF MovesOn, Begun
<1>7. \A x \in es : IsClaimed(x) \/ MovesOn(x)
  <2>. TAKE x \in es
  <2>0. CASE ~ Fresh(x)
    <3>1. Recordable(x) /\ Repeats(JobOf[x])
      <4>1. execStatus[x] # "SKIPPED"
        BY <1>0, <1>1, <2>0 DEF Phases, Claimed, MarkedRunning, UnderWay, SentOnce, Repeated
      <4>. QED
        BY <1>1, <2>0, <4>1 DEF Recordable
    <3>2. UnderWay(x)'
      BY <3>1, RepeatedPrime DEF UnderWay, Recordable, dbVars
    <3>. QED
      BY <2>0, <3>2 DEF MovesOn, Begun
  <2>. SUFFICES ASSUME Fresh(x) PROVE IsClaimed(x)
    BY <2>0
  <2>1. /\ x \in Execs \ F /\ Fresh(x) /\ JobOf[x] = j /\ Active(j) /\ ~ Unstarted(j)'
        /\ pauses'[j] = 0 \/ Repeats(j)
    BY <1>1
  <2>2. execStatus'[x] = "PENDING"
    <3>1. execStatus[x] # "SKIPPED"
      BY <1>0, <2>1 DEF SkipsAreFresh, Active
    <3>. QED
      BY <2>1, <3>1 DEF Fresh, dbVars
  <2>3. Untouched(x)'
    BY <2>1 DEF Fresh, Untouched, agentVars
  <2>4. PICK o \in {"run", "offline"} : N \cap ExecRecs(x) = {At(o, x)}
    BY <1>4 DEF Claims
  <2>5. BagToSet(Without(a)) \cap ExecRecs(x) = {}
    BY <1>0, <2>1, OfExecRecs DEF Fresh
  <2>6. Single(awaiting', ExecRecs(x), At(o, x))
    BY <1>0, <1>4, <2>4, <2>5, NewBecomes
  <2>7. OfExec(x)' = {At(o, x)} /\ awaiting'[At(o, x)] = 1
    BY <2>6, OfExecRecsPrime DEF Single
  <2>8. Claimed(x)'
    BY <2>2, <2>3, <2>7 DEF Claimed, Sole
  <2>. QED
    BY <1>3, <2>1, <2>8 DEF IsClaimed, Active
<1>8. \A x \in Execs \ (F \cup es) : StaysFresh(x) \/ MovesOn(x)
  <2>. TAKE x \in Execs \ (F \cup es)
  <2>1. a \notin ExecRecs(x)
    BY DEF ExecRecs
  <2>2. N \cap ExecRecs(x) = {}
    BY <1>4 DEF Claims
  <2>3. SameAwaits(ExecRecs(x), awaiting, awaiting')
    BY <1>0, <1>5, <2>1, <2>2, SwapSame
  <2>4. SameExec(x)
    BY <1>3, <2>3 DEF SameExec, dbVars, agentVars
  <2>. QED
    BY <1>0, <2>4, SameFollows
<1>9. \A x \in Execs : Moves(x)
  BY <1>6, <1>7, <1>8 DEF Moves
<1>10. AwaitsKept
  <2>1. BagToSet(awaiting') \subseteq BagToSet(awaiting) \cup N
    BY <1>0, <1>5, SwapSet
  <2>2. \A n \in N : n.op \in {"run", "offline", "tally"} \/ (n.op = "evaluate" /\ ~ Unstarted(n.job))
    BY <1>4 DEF Claims
  <2>. QED
    BY <2>1, <2>2 DEF AwaitsKept
<1>11. JobsKept
  <2>1. UNCHANGED jobStatus /\ known' = known /\ aborted' = aborted
    BY DEF dbVars
  <2>2. \A i \in known' \cup aborted' : jobStatus'[i] # "none"
    BY <1>0, <2>1 DEF StartsOnce, TypeOK
  <2>3. known' \ known = {} /\ queue' \ queue = {} /\ aborted \subseteq aborted'
    BY <1>3, <2>1
  <2>. QED
    BY <2>2, <2>3 DEF JobsKept
<1>. QED
  BY <1>9, <1>10, <1>11, Keeps

LEMMA FillDispatches ==
    ASSUME NEW j, NEW run, NEW bag, FillParallel(j, run, bag)
    PROVE  \E es \in SUBSET (queue \cap ExecsOf(j)) : \E T :
              /\ Dispatch(es, run, bag, T) /\ (es = {} \/ Active(j))
              /\ \A t \in T : t.op = "tally"
<1>1. JobAt("tally", j).op = "tally"
  BY DEF JobAt
<1>2. CASE ~ Active(j)
  BY <1>2 DEF FillParallel, NoDispatch
<1>3. CASE Active(j)
  <2>1. PICK take \in SUBSET (queue \cap ExecsOf(j)), T \in {{}, {JobAt("tally", j)}} :
           Dispatch(take, run, bag, T)
    BY <1>3 DEF FillParallel
  <2>2. \A t \in T : t.op = "tally"
    BY <1>1
  <2>. QED
    BY <1>3, <2>1, <2>2
<1>. QED
  BY <1>2, <1>3

LEMMA RollDispatches ==
    ASSUME NEW j, NEW k, NEW run, NEW bag, RunRollingBatch(j, k, run, bag)
    PROVE  \E es \in SUBSET Wave(j, k) : \E T :
              /\ Dispatch(es, run, bag, T) /\ (es = {} \/ Active(j))
              /\ \A t \in T : t.op = "tally"
<1>1. JobAt("tally", j).op = "tally"
  BY DEF JobAt
<1>2. PICK es \in SUBSET Wave(j, k), T \in {{}, {JobAt("tally", j)}} :
         Dispatch(es, run, bag, T) /\ (es = {} \/ Active(j))
  BY DEF RunRollingBatch, NoDispatch
<1>. QED
  BY <1>1, <1>2

EvaluatesOnce(T) == \A s, t \in T : s.op = "evaluate" /\ t.op = "evaluate" => s = t

LEMMA FinishDispatches ==
    ASSUME NEW e, NEW bag, OnExecutionFinished(e, bag), Mode[JobOf[e]] \in {"parallel", "rolling"}
    PROVE  \E es \in SUBSET (queue \cap ExecsOf(JobOf[e])), run \in SUBSET running : \E T :
              /\ Dispatch(es, run, bag, T) /\ (e \in run => JobOf[e] \notin known)
              /\ es = {} \/ (Active(JobOf[e]) /\ Mode[JobOf[e]] = "parallel")
              /\ \A t \in T : t.op = "tally" \/ (t.op = "evaluate" /\ t.job = JobOf[e])
              /\ EvaluatesOnce(T)
<1>. DEFINE j == JobOf[e]
            ev == [op |-> "evaluate", job |-> j, batch |-> currentBatch[j], db |-> "issued"]
<1>0. SlotFreed(e) \subseteq running /\ e \notin SlotFreed(e)
  BY DEF SlotFreed
<1>1. CASE j \in known /\ Mode[j] = "parallel"
  <2>1. FillParallel(j, SlotFreed(e), bag)
    BY <1>1 DEF OnExecutionFinished
  <2>. QED
    BY <1>0, <1>1, <2>1, FillDispatches DEF EvaluatesOnce
<1>2. CASE ~ (j \in known /\ Mode[j] = "parallel")
  <2>1. ev.op = "evaluate" /\ ev.job = j
    OBVIOUS
  <2>2. \E run \in SUBSET running, T \in {{}, {ev}} :
           Dispatch({}, run, bag, T) /\ (e \in run => j \notin known)
    BY <1>0, <1>2 DEF OnExecutionFinished, NoDispatch
  <2>. HIDE DEF ev
  <2>. QED
    BY <2>1, <2>2 DEF EvaluatesOnce
<1>. QED
  BY <1>1, <1>2

(* A dispatch starts no job.                                                *)
LEMMA DispatchStarts ==
    ASSUME NEW j \in Jobs, NEW es \in SUBSET ExecsOf(j), NEW run, NEW a, NEW T,
           \A t \in T : t.op \in {"tally", "evaluate"},
           Dispatch(es, run, Without(a), T)
    PROVE  \E N : /\ awaiting' = With(Without(a), N) /\ Swaps(a, N)
                  /\ \A i \in Jobs : N \cap StartRecs(i) = {}
<1>1. es \subseteq Execs /\ \A t \in T : t.op \notin ExecOps
  BY DEF ExecsOf, ExecOps, WriteOps, SendOps, LookupOps
<1>2. PICK N : awaiting' = With(Without(a), N) /\ Claims(N, es, T)
  BY <1>1, DispatchClaims
<1>3. \A n \in N : n.op \in {"run", "offline", "tally", "evaluate"}
  BY <1>2 DEF Claims
<1>. QED
  BY <1>2, <1>3 DEF Swaps, StartRecs

(* What a finished execution makes room for is fresh.                       *)
LEMMA FinishedDispatches ==
    ASSUME JobAssumption, IInv, NEW e \in Execs,
           DispatchFailed(e) \/ ExecutionCompleted(e) \/ ExecutionTimedOut(e)
    PROVE  \E a, T : \E es \in SUBSET (queue \cap ExecsOf(JobOf[e])), run \in SUBSET running :
              /\ a \in BagToSet(awaiting) /\ a.op \in WriteOps /\ a.exec = e /\ UnderWay(e) /\ ~ Fresh(e)
              /\ Dispatch(es, run, Without(a), T) /\ (e \in run => JobOf[e] \notin known)
              /\ es = {} \/ (Active(JobOf[e]) /\ Mode[JobOf[e]] = "parallel")
              /\ \A t \in T : t.op = "tally" \/ (t.op = "evaluate" /\ t.job = JobOf[e])
              /\ \A x \in es : Fresh(x)
              /\ a.db = "done" /\ a.op # "run" /\ EvaluatesOnce(T)
              /\ a.op \in {"offline", "sendFailed"} \/ inflight'[e] = "absent"
<1>0. /\ TypeOK /\ Phases /\ StartsOnce /\ QueuedIsFresh /\ IsABag(awaiting)
      /\ JobOf[e] \in Jobs /\ Mode[JobOf[e]] \in {"parallel", "rolling"}
  BY DEF IInv, DispatchedOnce, TypeOK, JobAssumption
<1>1. PICK o \in {"offline", "sendFailed", "succeed", "fail", "timedOut"} :
         /\ BagIn(Now(o, e), awaiting) /\ OnExecutionFinished(e, Without(Now(o, e)))
         /\ o \in {"offline", "sendFailed"} \/ InflightDelete(e)
  BY DEF DispatchFailed, ExecutionCompleted, ExecutionTimedOut, Ready
<1>2. PICK a : /\ a \in BagToSet(awaiting) /\ OnExecutionFinished(e, Without(a))
               /\ a.op \in WriteOps /\ a.exec = e /\ UnderWay(e) /\ ~ Fresh(e)
               /\ a.db = "done" /\ a.op # "run"
               /\ a.op \in {"offline", "sendFailed"} \/ inflight'[e] = "absent"
  <2>. DEFINE c == Now(o, e)
  <2>1. c.db = "done" /\ c.op # "run" /\ c.op \in WriteOps /\ c.exec = e /\ c \notin {At("run", e), At("offline", e), Now("run", e)}
    BY DEF Now, At, WriteOps
  <2>2. c \in OfExec(e) /\ c \in BagToSet(awaiting)
    BY <1>0, <1>1, ExecAwaitRecs, OfExecRecs DEF BagIn, WriteOps
  <2>3. UnderWay(e) /\ ~ Fresh(e)
    BY <1>0, <2>1, <2>2, PhaseOfAwait
  <2>4. OnExecutionFinished(e, Without(c))
    BY <1>1
  <2>5. c.op \in {"offline", "sendFailed"} \/ inflight'[e] = "absent"
    BY <1>0, <1>1 DEF Now, InflightDelete, TypeOK
  <2>. HIDE DEF c
  <2>. QED
    BY <2>1, <2>2, <2>3, <2>4, <2>5
<1>. DEFINE j == JobOf[e]
<1>3. PICK es, run, T :
         /\ es \in SUBSET (queue \cap ExecsOf(j)) /\ run \in SUBSET running
         /\ Dispatch(es, run, Without(a), T) /\ (e \in run => j \notin known)
         /\ es = {} \/ (Active(j) /\ Mode[j] = "parallel")
         /\ \A t \in T : t.op = "tally" \/ (t.op = "evaluate" /\ t.job = j)
         /\ EvaluatesOnce(T)
  BY <1>0, <1>2, FinishDispatches, SMTT(60)
<1>4. \A x \in es : Fresh(x)
  BY <1>0, <1>3 DEF QueuedIsFresh, ExecsOf
<1>. QED
  BY <1>2, <1>3, <1>4

LEMMA FinishKeeps ==
    ASSUME JobAssumption, IInv, TypeOK', NEW e \in Execs,
           DispatchFailed(e) \/ ExecutionCompleted(e) \/ ExecutionTimedOut(e)
    PROVE  DispatchedOnce'
<1>0. /\ TypeOK /\ Phases /\ StartsOnce /\ QueuedIsFresh /\ IsABag(awaiting)
      /\ JobOf[e] \in Jobs /\ Mode[JobOf[e]] \in {"parallel", "rolling"}
  BY DEF IInv, DispatchedOnce, TypeOK, JobAssumption
<1>1. PICK a, T : \E es \in SUBSET (queue \cap ExecsOf(JobOf[e])), run \in SUBSET running :
         /\ a \in BagToSet(awaiting) /\ a.op \in WriteOps /\ a.exec = e /\ UnderWay(e) /\ ~ Fresh(e)
         /\ Dispatch(es, run, Without(a), T) /\ (e \in run => JobOf[e] \notin known)
         /\ es = {} \/ (Active(JobOf[e]) /\ Mode[JobOf[e]] = "parallel")
         /\ \A t \in T : t.op = "tally" \/ (t.op = "evaluate" /\ t.job = JobOf[e])
         /\ \A x \in es : Fresh(x)
  BY FinishedDispatches
<1>2. UNCHANGED <<dbVars, known, aborted, currentBatch, pauses, agentVars>>
  BY DEF DispatchFailed, ExecutionCompleted, ExecutionTimedOut
<1>3. \A x \in Execs \ {e} : inflight'[x] = inflight[x] /\ loose'[x] = loose[x]
  BY <1>0 DEF DispatchFailed, ExecutionCompleted, ExecutionTimedOut, InflightDelete, TypeOK,
              flightVars
<1>4. a \in BagToSet(awaiting) /\ a.op \in WriteOps /\ a.exec = e /\ UnderWay(e) /\ ~ Fresh(e)
  BY <1>1
<1>. DEFINE j == JobOf[e]
<1>5. ~ Unstarted(j)
  BY <1>0, <1>4 DEF StartsOnce, ExecsOf
<1>6. PICK es, run :
         /\ es \in SUBSET (queue \cap ExecsOf(j)) /\ run \in SUBSET running
         /\ Dispatch(es, run, Without(a), T)
         /\ es = {} \/ (Active(j) /\ Mode[j] = "parallel")
         /\ \A t \in T : t.op = "tally" \/ (t.op = "evaluate" /\ t.job = j)
         /\ \A x \in es : Fresh(x)
  BY <1>1
<1>7. a.op \in ExecOps /\ a.op \notin SendOps /\ \A i : a \notin StartRecs(i)
  BY <1>4 DEF ExecOps, WriteOps, SendOps, StartRecs
<1>8. \A i \in Jobs : StartsKept(i)
  <2>1. \A t \in T : t.op \in {"tally", "evaluate"}
    BY <1>6
  <2>2. PICK N : Swaps(a, N) /\ \A i \in Jobs : N \cap StartRecs(i) = {}
    BY <1>0, <1>6, <2>1, DispatchStarts
  <2>. QED
    BY <1>2, <1>7, <2>2, StartsSame DEF dbVars
<1>9. ~ Unstarted(j)'
  BY <1>0, <1>5, <1>8 DEF StartsKept
<1>10. \A x \in es : Fresh(x)
  BY <1>6
<1>11. PausesKept /\ \A i \in Jobs : currentBatch'[i] >= currentBatch[i]
  BY <1>0, <1>2 DEF PausesKept, TypeOK
<1>12. \A t \in T : t.op = "tally" \/ (t.op = "evaluate" /\ ~ Unstarted(t.job))
  BY <1>5, <1>6
<1>13. {e} \in SUBSET Execs /\ (\A x \in {e} : UnderWay(x) /\ ~ Fresh(x)) /\ {e} \cap es = {}
  BY <1>4, <1>10
<1>14. es \in SUBSET ExecsOf(j) /\ a.exec \in {e}
  BY <1>4, <1>6
<1>15. Mode[j] = "rolling" => \A x \in es : BatchOf[x] <= currentBatch'[j]
  BY <1>6
<1>16. es = {} \/ (Active(j) /\ ~ Unstarted(j)')
  BY <1>6, <1>9
<1>17. j \in Jobs
  BY <1>0
<1>18. es = {} \/ pauses'[j] = 0 \/ Repeats(j)
  <2>1. Mode[j] = "parallel" => pauses[j] = 0
    BY <1>0 DEF IInv, RollingOnly, TypeOK
  <2>. QED
    BY <1>2, <1>6, <2>1
<1>19. \A x \in es : Fresh(x) \/ Repeats(j)
  BY <1>10
<1>. HIDE DEF j
<1>. QED
  BY <1>2, <1>3, <1>6, <1>7, <1>8, <1>11, <1>12, <1>13, <1>14, <1>15, <1>16, <1>17, <1>18, <1>19,
     DispatchKeeps

(* What the first dispatch of a job dispatches is fresh.                     *)
LEMMA JobStartedDispatches ==
    ASSUME JobAssumption, TypeOK, StartsOnce, NEW j \in Jobs, JobStarted(j)
    PROVE  \E a, T : \E es \in SUBSET ExecsOf(j) :
              /\ a \in BagToSet(awaiting) /\ a \in StartRecs(j) /\ a.op = "start" /\ a.job = j
              /\ Dispatch(es, running, Without(a), T) /\ (es = {} \/ Active(j))
              /\ Mode[j] = "rolling" => \A x \in es : BatchOf[x] = currentBatch[j]
              /\ \A t \in T : t.op = "tally"
              /\ \A x \in es : Fresh(x)
<1>1. PICK a : /\ a \in BagToSet(awaiting) /\ a \in StartRecs(j) /\ a.op = "start" /\ a.job = j
               /\ FirstDispatch(j, Without(a))
  <2>. DEFINE c == [op |-> "start", job |-> j, db |-> "done"]
  <2>1. c \in BagToSet(awaiting) /\ FirstDispatch(j, Without(c)) /\ c.op = "start" /\ c.job = j
    BY DEF JobStarted, Ready, BagIn
  <2>2. c \in StartRecs(j)
    BY <2>1 DEF StartRecs, TypeOK
  <2>. HIDE DEF c
  <2>. QED
    BY <2>1, <2>2
<1>2. PICK es, T :
         /\ es \in SUBSET ExecsOf(j)
         /\ Dispatch(es, running, Without(a), T) /\ (es = {} \/ Active(j))
         /\ Mode[j] = "rolling" => \A x \in es : BatchOf[x] = currentBatch[j]
         /\ \A t \in T : t.op = "tally"
  <2>1. CASE Mode[j] = "rolling"
    <3>1. RunRollingBatch(j, currentBatch[j], running, Without(a))
      BY <1>1, <2>1 DEF FirstDispatch
    <3>2. \A x \in Wave(j, currentBatch[j]) : x \in ExecsOf(j) /\ BatchOf[x] = currentBatch[j]
      BY DEF Wave
    <3>. QED
      BY <3>1, <3>2, RollDispatches
  <2>2. CASE Mode[j] # "rolling"
    <3>1. FillParallel(j, running, Without(a))
      BY <1>1, <2>2 DEF FirstDispatch
    <3>. QED
      BY <2>2, <3>1, FillDispatches
  <2>. QED
    BY <2>1, <2>2
<1>3. OfStart(j) = BagToSet(awaiting) \cap StartRecs(j)
  BY DEF TypeOK, OfStart, StartRecs
<1>4. Unstarted(j)
  BY <1>1, <1>3 DEF Unstarted
<1>5. \A x \in es : Fresh(x)
  BY <1>2, <1>4 DEF StartsOnce
<1>. QED
  BY <1>1, <1>2, <1>5

LEMMA JobStartedKeeps ==
    ASSUME JobAssumption, IInv, TypeOK', NEW j \in Jobs, JobStarted(j)
    PROVE  DispatchedOnce'
<1>0. /\ TypeOK /\ StartsOnce /\ IsABag(awaiting)
      /\ \A x \in Execs : BatchOf[x] \in Nat
  BY DEF IInv, DispatchedOnce, TypeOK, JobAssumption
<1>1. PICK a, T : \E es \in SUBSET ExecsOf(j) :
         /\ a \in BagToSet(awaiting) /\ a \in StartRecs(j) /\ a.op = "start" /\ a.job = j
         /\ Dispatch(es, running, Without(a), T) /\ (es = {} \/ Active(j))
         /\ Mode[j] = "rolling" => \A x \in es : BatchOf[x] = currentBatch[j]
         /\ \A t \in T : t.op = "tally"
         /\ \A x \in es : Fresh(x)
  BY <1>0, JobStartedDispatches
<1>2. UNCHANGED <<dbVars, known, aborted, currentBatch, pauses, flightVars, agentVars>>
  BY DEF JobStarted
<1>3. PICK es :
         /\ es \in SUBSET ExecsOf(j)
         /\ Dispatch(es, running, Without(a), T) /\ (es = {} \/ Active(j))
         /\ Mode[j] = "rolling" => \A x \in es : BatchOf[x] = currentBatch[j]
         /\ \A t \in T : t.op = "tally"
         /\ \A x \in es : Fresh(x)
  BY <1>1
<1>4. OfStart(j) = BagToSet(awaiting) \cap StartRecs(j) /\ OfStart(j)' = BagToSet(awaiting') \cap StartRecs(j)
  BY <1>0 DEF TypeOK, OfStart, StartRecs
<1>5. jobStatus[j] # "none" /\ Sole(OfStart(j), a) /\ Unstarted(j)
  BY <1>0, <1>1, <1>4 DEF StartsOnce, Sole, Unstarted
<1>6. a.op \notin ExecOps /\ a.op \notin SendOps /\ \A i \in Jobs \ {j} : a \notin StartRecs(i)
  BY <1>1 DEF ExecOps, WriteOps, SendOps, LookupOps, StartRecs
<1>7. PICK N : /\ awaiting' = With(Without(a), N) /\ Swaps(a, N)
               /\ \A i \in Jobs : N \cap StartRecs(i) = {}
  <2>1. \A t \in T : t.op \in {"tally", "evaluate"}
    BY <1>3
  <2>. QED
    BY <1>3, <2>1, DispatchStarts
<1>8. \A i \in Jobs \ {j} : StartsKept(i)
  BY <1>2, <1>6, <1>7, StartsSame DEF dbVars
<1>9. OfStart(j)' = {}
  <2>1. Sole(BagToSet(awaiting) \cap StartRecs(j), a)
    BY <1>4, <1>5
  <2>2. BagToSet(With(Without(a), N)) \cap StartRecs(j) = N \cap StartRecs(j)
    BY <1>0, <2>1, SoleReplaced
  <2>. QED
    BY <1>4, <1>7, <2>2
<1>10. StartsKept(j) /\ ~ Unstarted(j)'
  BY <1>2, <1>5, <1>9 DEF StartsKept, Unstarted, dbVars
<1>11. \A x \in es : Fresh(x)
  BY <1>3
<1>12. PausesKept /\ \A i \in Jobs : currentBatch'[i] >= currentBatch[i]
  BY <1>0, <1>2 DEF PausesKept, TypeOK
<1>13. Mode[j] = "rolling" => \A x \in es : BatchOf[x] <= currentBatch'[j]
  BY <1>0, <1>2, <1>3 DEF ExecsOf
<1>14. \A x \in Execs \ {} : inflight'[x] = inflight[x] /\ loose'[x] = loose[x]
  BY <1>2 DEF flightVars
<1>15. \A t \in T : t.op = "tally" \/ (t.op = "evaluate" /\ ~ Unstarted(t.job))
  BY <1>3
<1>16. {} \in SUBSET Execs /\ running \in SUBSET running
  OBVIOUS
<1>17. UNCHANGED <<dbVars, known, aborted, agentVars>>
  BY <1>2
<1>18. \A i \in Jobs : currentBatch'[i] >= currentBatch[i] /\ StartsKept(i)
  BY <1>8, <1>10, <1>12
<1>19. es = {} \/ (Active(j) /\ ~ Unstarted(j)')
  BY <1>3, <1>10
<1>20. (\A x \in {} : UnderWay(x) /\ ~ Fresh(x)) /\ {} \cap es = {}
  OBVIOUS
<1>21. es = {} \/ pauses'[j] = 0 \/ Repeats(j)
  BY <1>2, <1>5 DEF IInv, DispatchedOnce, PausesAreFresh, PausesOnce
<1>22. \A x \in es : Fresh(x) \/ Repeats(j)
  BY <1>11
<1>. QED
  BY <1>21, <1>22, <1>3, <1>6, <1>12, <1>13, <1>14, <1>15, <1>16, <1>17, <1>18, <1>19, <1>20,
     DispatchKeeps

(* The end of a wave: the job stops, waits, or goes on with the next wave,   *)
(* of which everything is fresh.                                            *)
ArmsTimer(j) ==
    /\ j \in PausedJobs /\ Wave(j, NextBatch(j)) # {}
    /\ pauses' = [pauses EXCEPT ![j] = @ + 1]
Waits(j, es) ==
    \/ UNCHANGED pauses /\ (es = {} \/ j \notin PausedJobs)
    \/ ArmsTimer(j) /\ es = {}

LEMMA BatchEvaluatedDispatches ==
    ASSUME JobAssumption, IInv, NEW j \in Jobs, BatchEvaluated(j)
    PROVE  \E a :
        /\ a \in BagToSet(awaiting) /\ a.op = "evaluate" /\ a.job = j
        /\ \/ AbortRemaining(j, Without(a)) /\ UNCHANGED <<queue, running, currentBatch>>
           \/ /\ currentBatch' = [currentBatch EXCEPT ![j] = NextBatch(j)]
              /\ UNCHANGED aborted
              /\ \E es \in SUBSET Wave(j, NextBatch(j)) : \E T :
                 /\ Waits(j, es)
                 /\ Dispatch(es, running, Without(a), T) /\ (es = {} \/ Active(j))
                 /\ \A t \in T : t.op = "tally"
                 /\ \A x \in es : Fresh(x)
<1>. DEFINE next == NextBatch(j)
            Goes(a) ==
               /\ currentBatch' = [currentBatch EXCEPT ![j] = next]
               /\ \/ /\ \E T \in {{}, {JobAt("tally", j)}} : NoDispatch(running, Without(a), T)
                     /\ (UNCHANGED pauses \/ ArmsTimer(j))
                  \/ /\ RunRollingBatch(j, next, running, Without(a))
                     /\ UNCHANGED pauses /\ j \notin PausedJobs
               /\ UNCHANGED aborted
            Stops(a) == AbortRemaining(j, Without(a)) /\ UNCHANGED <<queue, running, currentBatch>>
<1>0. /\ TypeOK /\ StartsOnce /\ QueuedIsFresh /\ IsABag(awaiting)
      /\ currentBatch[j] \in Nat /\ \A x \in Execs : BatchOf[x] \in Nat
  BY DEF IInv, DispatchedOnce, TypeOK, JobAssumption
<1>1. JobAt("tally", j).op = "tally"
  BY DEF JobAt
<1>2. PICK a : /\ a \in BagToSet(awaiting) /\ a.op = "evaluate" /\ a.job = j
               /\ Stops(a) \/ Goes(a)
  <2>1. PICK v \in {"stop", "go"}, k \in 1..currentBatch[j] :
           LET a == [op |-> "evaluate", job |-> j, batch |-> k, db |-> v]
           IN  Ready(a) /\ (Stops(a) \/ Goes(a))
    BY DEF BatchEvaluated, ArmsTimer
  <2>. DEFINE c == [op |-> "evaluate", job |-> j, batch |-> k, db |-> v]
  <2>2. c \in BagToSet(awaiting) /\ c.op = "evaluate" /\ c.job = j
    BY <2>1 DEF Ready, BagIn
  <2>3. Stops(c) \/ Goes(c)
    BY <2>1
  <2>. HIDE DEF c, Stops, Goes
  <2>. QED
    BY <2>2, <2>3
<1>3. ASSUME NEW es \in SUBSET Wave(j, NextBatch(j)), es = {} \/ Active(j)
      PROVE  \A x \in es : Fresh(x)
  <2>1. Mode[j] = "rolling"
    BY <1>0, <1>2 DEF IInv, RollingOnly
  <2>2. \A x \in es : x \in Execs /\ JobOf[x] = j /\ ~ (BatchOf[x] <= currentBatch[j])
    BY <1>0 DEF Wave, NextBatch, ExecsOf
  <2>. QED
    BY <1>0, <1>3, <2>1, <2>2 DEF QueuedIsFresh, Active
<1>4. ASSUME ~ Stops(a)
      PROVE  \E es \in SUBSET Wave(j, NextBatch(j)) : \E T :
                /\ Waits(j, es)
                /\ Dispatch(es, running, Without(a), T) /\ (es = {} \/ Active(j))
                /\ \A t \in T : t.op = "tally"
  <2>1. CASE RunRollingBatch(j, next, running, Without(a)) /\ UNCHANGED pauses /\ j \notin PausedJobs
    BY <2>1, RollDispatches DEF Waits
  <2>2. ASSUME NEW T \in {{}, {JobAt("tally", j)}}, NoDispatch(running, Without(a), T),
               UNCHANGED pauses \/ ArmsTimer(j)
        PROVE  \E es \in SUBSET Wave(j, NextBatch(j)) : \E S :
                  /\ Waits(j, es)
                  /\ Dispatch(es, running, Without(a), S) /\ (es = {} \/ Active(j))
                  /\ \A t \in S : t.op = "tally"
    BY <1>1, <2>2 DEF NoDispatch, Waits
  <2>. QED
    BY <1>2, <1>4, <2>1, <2>2
<1>. QED
  BY <1>2, <1>3, <1>4

LEMMA EvaluatedKeeps ==
    ASSUME JobAssumption, IInv, TypeOK', NEW j \in Jobs, BatchEvaluated(j)
    PROVE  DispatchedOnce'
<1>0. /\ TypeOK /\ StartsOnce /\ QueuedIsFresh /\ IsABag(awaiting)
      /\ currentBatch[j] \in Nat /\ \A x \in Execs : BatchOf[x] \in Nat
  BY DEF IInv, DispatchedOnce, TypeOK, JobAssumption
<1>2. PICK a :
        /\ a \in BagToSet(awaiting) /\ a.op = "evaluate" /\ a.job = j
        /\ \/ AbortRemaining(j, Without(a)) /\ UNCHANGED <<queue, running, currentBatch>>
           \/ /\ currentBatch' = [currentBatch EXCEPT ![j] = NextBatch(j)]
              /\ UNCHANGED aborted
              /\ \E es \in SUBSET Wave(j, NextBatch(j)) : \E T :
                 /\ Waits(j, es)
                 /\ Dispatch(es, running, Without(a), T) /\ (es = {} \/ Active(j))
                 /\ \A t \in T : t.op = "tally"
                 /\ \A x \in es : Fresh(x)
  BY BatchEvaluatedDispatches
<1>3. UNCHANGED <<dbVars, known, flightVars, agentVars>>
  BY DEF BatchEvaluated
<1>4. CASE AbortRemaining(j, Without(a)) /\ UNCHANGED <<queue, running, currentBatch>>
  BY <1>2, <1>3, <1>4, AbortRemainingKeeps
<1>5. ASSUME currentBatch' = [currentBatch EXCEPT ![j] = NextBatch(j)],
             UNCHANGED aborted,
             NEW es \in SUBSET Wave(j, NextBatch(j)), NEW T,
             Waits(j, es),
             Dispatch(es, running, Without(a), T), es = {} \/ Active(j),
             \A t \in T : t.op = "tally", \A x \in es : Fresh(x)
      PROVE  DispatchedOnce'
  <2>1. Mode[j] = "rolling" /\ ~ Unstarted(j)
    BY <1>0, <1>2 DEF IInv, RollingOnly, StartsOnce
  <2>2. \A i \in Jobs : currentBatch'[i] >= currentBatch[i]
    BY <1>0, <1>5 DEF TypeOK, NextBatch
  <2>3. es \in SUBSET ExecsOf(j) /\ \A x \in es : BatchOf[x] = currentBatch[j] + 1
    BY DEF Wave, NextBatch
  <2>4. currentBatch'[j] = currentBatch[j] + 1
    BY <1>0, <1>5 DEF TypeOK, NextBatch
  <2>6. a.op \notin ExecOps /\ a.op \notin SendOps /\ \A i \in Jobs : a \notin StartRecs(i)
    BY <1>2 DEF ExecOps, WriteOps, SendOps, LookupOps, StartRecs
  <2>7. \A i \in Jobs : StartsKept(i)
    <3>1. \A t \in T : t.op \in {"tally", "evaluate"}
      BY <1>5
    <3>2. PICK N : Swaps(a, N) /\ \A i \in Jobs : N \cap StartRecs(i) = {}
      BY <1>5, <2>3, <3>1, DispatchStarts
    <3>. QED
      BY <1>3, <2>6, <3>2, StartsSame DEF dbVars
  <2>8. es = {} \/ (Active(j) /\ ~ Unstarted(j)')
    BY <1>5, <2>1, <2>7 DEF StartsKept
  <2>9. PausesKept
    <3>1. CASE UNCHANGED pauses
      BY <3>1 DEF PausesKept
    <3>2. ASSUME ArmsTimer(j), ~ Repeats(j)
          PROVE  /\ pauses'[j] = 1 /\ currentBatch'[j] >= 2
                 /\ j \in known' => \A e \in ExecsOf(j) : BatchOf[e] >= 2 => Fresh(e)
      <4>1. PICK x : x \in Execs /\ JobOf[x] = j /\ BatchOf[x] = currentBatch[j] + 1
        BY <3>2 DEF ArmsTimer, Wave, ExecsOf, NextBatch
      <4>2. ~ (BatchOf[x] > 2) /\ j \in PausedJobs
        BY <2>1, <3>2, <4>1 DEF ArmsTimer, Repeats, ExecsOf
      <4>3. currentBatch[j] = 1
        <5>1. currentBatch[j] \in Nat \ {0}
          BY <1>0 DEF TypeOK
        <5>2. ~ (currentBatch[j] + 1 > 2)
          BY <4>1, <4>2
        <5>. QED
          BY <5>1, <5>2
      <4>4. pauses[j] = 0
        BY <3>2, <4>3 DEF IInv, DispatchedOnce, PausesAreFresh, PausesOnce
      <4>5. pauses'[j] = 1
        BY <1>0, <3>2, <4>4 DEF ArmsTimer, TypeOK
      <4>6. ASSUME j \in known', NEW e \in Execs, JobOf[e] = j, BatchOf[e] >= 2 PROVE Fresh(e)
        BY <1>0, <1>3, <2>1, <4>3, <4>6 DEF QueuedIsFresh
      <4>. QED
        BY <2>4, <4>3, <4>5, <4>6 DEF ExecsOf
    <3>3. CASE ArmsTimer(j)
      <4>1. Armed(j)
        BY <2>1, <2>7, <3>2, <3>3 DEF Armed, ArmsTimer, StartsKept
      <4>2. \A i \in Jobs \ {j} : pauses'[i] = pauses[i]
        BY <1>0, <3>3 DEF ArmsTimer, TypeOK
      <4>. QED
        BY <4>1, <4>2 DEF PausesKept
    <3>. QED
      BY <1>5, <3>1, <3>3 DEF Waits
  <2>10. Mode[j] = "rolling" => \A x \in es : BatchOf[x] <= currentBatch'[j]
    BY <1>0, <2>3, <2>4
  <2>11. \A x \in Execs \ {} : inflight'[x] = inflight[x] /\ loose'[x] = loose[x]
    BY <1>3 DEF flightVars
  <2>12. \A t \in T : t.op = "tally" \/ (t.op = "evaluate" /\ ~ Unstarted(t.job))
    BY <1>5
  <2>13. /\ {} \in SUBSET Execs /\ running \in SUBSET running
         /\ (\A x \in {} : UnderWay(x) /\ ~ Fresh(x)) /\ {} \cap es = {}
    OBVIOUS
  <2>14. UNCHANGED <<dbVars, known, aborted, agentVars>>
    BY <1>3, <1>5
  <2>15. es = {} \/ pauses'[j] = 0 \/ Repeats(j)
    <3>1. ASSUME es # {} PROVE pauses'[j] = 0
      <4>1. j \notin PausedJobs /\ UNCHANGED pauses
        BY <1>5, <3>1 DEF Waits
      <4>. QED
        BY <4>1 DEF IInv, DispatchedOnce, PausesAreFresh, PausesOnce
    <3>. QED
      BY <3>1
  <2>16. \A x \in es : Fresh(x) \/ Repeats(j)
    BY <1>5
  <2>. QED
    BY <1>5, <2>15, <2>16, <2>2, <2>3, <2>6, <2>7, <2>8, <2>9, <2>10, <2>11, <2>12, <2>13, <2>14,
       DispatchKeeps
<1>. QED
  BY <1>2, <1>4, <1>5

(* The bag of awaits as it is, as one without an await it does not have.     *)
LEMMA NothingRemoved ==
    ASSUME TypeOK
    PROVE  \E a : a.op = "pause" /\ Without(a) = awaiting
<1>. DEFINE a == [op |-> "pause"]
<1>1. a.op = "pause"
  OBVIOUS
<1>2. \A b \in Await : b.op # "pause"
  BY DEF Await, ExecAwait, JobAwait, WriteOps, SendOps, LookupOps
<1>. HIDE DEF a
<1>3. IsABag(awaiting) /\ a \notin BagToSet(awaiting)
  BY <1>1, <1>2 DEF TypeOK
<1>4. Without(a) = awaiting
  <2>1. \A x \in DOMAIN awaiting : awaiting[x] > 0 /\ x \notin DOMAIN SetToBag({a})
    BY <1>3 DEF IsABag, BagToSet, SetToBag
  <2>2. awaiting = [x \in DOMAIN awaiting |-> awaiting[x]]
    BY <1>3 DEF IsABag
  <2>. QED
    BY <2>1, <2>2 DEF Without, (-)
<1>. QED
  BY <1>1, <1>4

(* What a wait timer dispatches: of a job that waits once, it is the only   *)
(* timer, and its wave is fresh.                                            *)
LEMMA PauseOverDispatches ==
    ASSUME JobAssumption, IInv, NEW j \in Jobs, PauseOver(j)
    PROVE  /\ ~ Unstarted(j) /\ Mode[j] = "rolling" /\ j \in PausedJobs
           /\ pauses' = [pauses EXCEPT ![j] = @ - 1]
           /\ pauses'[j] = 0 \/ Repeats(j)
           /\ \E es \in SUBSET Wave(j, currentBatch[j]) : \E T :
              /\ Dispatch(es, running, awaiting, T) /\ (es = {} \/ Active(j))
              /\ \A t \in T : t.op = "tally"
              /\ \A x \in es : Fresh(x) \/ Repeats(j)
<1>0. TypeOK /\ PausesOnce(j) /\ RollingOnly
  BY DEF IInv, DispatchedOnce, PausesAreFresh
<1>1. pauses[j] \in Nat /\ pauses[j] > 0
  BY <1>0 DEF PauseOver, TypeOK
<1>2. ~ Unstarted(j) /\ Mode[j] = "rolling" /\ j \in PausedJobs
  BY <1>0, <1>1 DEF PausesOnce, RollingOnly
<1>3. pauses' = [pauses EXCEPT ![j] = @ - 1] /\ pauses'[j] = pauses[j] - 1
  BY <1>0 DEF PauseOver, TypeOK
<1>4. \/ Repeats(j)
      \/ /\ pauses[j] = 1 /\ currentBatch[j] >= 2
         /\ j \in known => \A e \in ExecsOf(j) : BatchOf[e] >= 2 => Fresh(e)
  BY <1>0, <1>1 DEF PausesOnce
<1>5. PICK es, T :
         /\ es \in SUBSET Wave(j, currentBatch[j])
         /\ Dispatch(es, running, awaiting, T) /\ (es = {} \/ Active(j))
         /\ \A t \in T : t.op = "tally"
  BY RollDispatches DEF PauseOver
<1>6. \A x \in es : Fresh(x) \/ Repeats(j)
  BY <1>4, <1>5 DEF Wave, Active
<1>7. pauses'[j] = 0 \/ Repeats(j)
  BY <1>3, <1>4
<1>. QED
  BY <1>2, <1>3, <1>5, <1>6, <1>7

LEMMA PauseOverKeeps ==
    ASSUME JobAssumption, IInv, TypeOK', NEW j \in Jobs, PauseOver(j)
    PROVE  DispatchedOnce'
<1>0. /\ TypeOK /\ StartsOnce /\ IsABag(awaiting)
      /\ currentBatch[j] \in Nat /\ \A x \in Execs : BatchOf[x] \in Nat
  BY DEF IInv, DispatchedOnce, TypeOK, JobAssumption
<1>1. /\ ~ Unstarted(j) /\ j \in PausedJobs
      /\ pauses' = [pauses EXCEPT ![j] = @ - 1]
      /\ pauses'[j] = 0 \/ Repeats(j)
  BY PauseOverDispatches
<1>2. PICK es, T :
         /\ es \in SUBSET Wave(j, currentBatch[j])
         /\ Dispatch(es, running, awaiting, T) /\ (es = {} \/ Active(j))
         /\ \A t \in T : t.op = "tally"
         /\ \A x \in es : Fresh(x) \/ Repeats(j)
  BY PauseOverDispatches
<1>3. PICK a : a.op = "pause" /\ Without(a) = awaiting
  BY <1>0, NothingRemoved
<1>4. Dispatch(es, running, Without(a), T)
  BY <1>2, <1>3
<1>5. UNCHANGED <<dbVars, known, aborted, currentBatch, flightVars, agentVars>>
  BY DEF PauseOver
<1>6. a.op \notin ExecOps /\ a.op \notin SendOps /\ \A i \in Jobs : a \notin StartRecs(i)
  BY <1>3 DEF ExecOps, WriteOps, SendOps, LookupOps, StartRecs
<1>7. es \in SUBSET ExecsOf(j) /\ \A x \in es : BatchOf[x] = currentBatch[j]
  BY <1>2 DEF Wave
<1>8. \A i \in Jobs : StartsKept(i)
  <2>1. \A t \in T : t.op \in {"tally", "evaluate"}
    BY <1>2
  <2>2. PICK N : Swaps(a, N) /\ \A i \in Jobs : N \cap StartRecs(i) = {}
    BY <1>4, <1>7, <2>1, DispatchStarts
  <2>. QED
    BY <1>5, <1>6, <2>2, StartsSame DEF dbVars
<1>9. ~ Unstarted(j)'
  BY <1>1, <1>8 DEF StartsKept
<1>10. PausesKept
  <2>1. \A i \in Jobs \ {j} : pauses'[i] = pauses[i]
    BY <1>0, <1>1 DEF TypeOK
  <2>2. pauses'[j] = 0 \/ Armed(j)
    BY <1>1, <1>9 DEF Armed
  <2>. QED
    BY <2>1, <2>2 DEF PausesKept
<1>11. \A i \in Jobs : currentBatch'[i] >= currentBatch[i] /\ StartsKept(i)
  BY <1>0, <1>5, <1>8 DEF TypeOK
<1>12. Mode[j] = "rolling" => \A x \in es : BatchOf[x] <= currentBatch'[j]
  BY <1>0, <1>5, <1>7
<1>13. \A x \in Execs \ {} : inflight'[x] = inflight[x] /\ loose'[x] = loose[x]
  BY <1>5 DEF flightVars
<1>14. \A t \in T : t.op = "tally" \/ (t.op = "evaluate" /\ ~ Unstarted(t.job))
  BY <1>2
<1>15. /\ {} \in SUBSET Execs /\ running \in SUBSET running
       /\ (\A x \in {} : UnderWay(x) /\ ~ Fresh(x)) /\ {} \cap es = {}
  OBVIOUS
<1>16. UNCHANGED <<dbVars, known, aborted, agentVars>>
  BY <1>5
<1>17. es = {} \/ (Active(j) /\ ~ Unstarted(j)')
  BY <1>2, <1>9
<1>18. es = {} \/ pauses'[j] = 0 \/ Repeats(j)
  BY <1>1
<1>19. \A x \in es : Fresh(x) \/ Repeats(j)
  BY <1>2
<1>. QED
  BY <1>4, <1>6, <1>7, <1>10, <1>11, <1>12, <1>13, <1>14, <1>15, <1>16, <1>17, <1>18, <1>19,
     DispatchKeeps

-----------------------------------------------------------------------------
(* The database.                                                            *)

LEMMA AnsweredExec ==
    ASSUME TypeOK, NEW a \in BagToSet(awaiting), a.db = "issued", a.op \in WriteOps
    PROVE  \E e \in Execs, o \in WriteOps :
              a = At(o, e) /\ \A v : [a EXCEPT !.db = v] = [op |-> o, exec |-> e, db |-> v]
<1>1. a \in Await
  BY DEF TypeOK
<1>2. a \in [op: WriteOps, exec: Execs, db: {"issued", "done"}]
  BY <1>1 DEF Await, ExecAwait, JobAwait, WriteOps, SendOps, LookupOps
<1>. QED
  BY <1>2 DEF At

LEMMA AnsweredCheck ==
    ASSUME TypeOK, NEW a \in BagToSet(awaiting), a.op = "check"
    PROVE  /\ a.exec \in Execs
           /\ \A v : [a EXCEPT !.db = v].op = "check" /\ [a EXCEPT !.db = v].exec = a.exec
<1>1. a \in Await
  BY DEF TypeOK
<1>2. a \in [op: {"check"}, exec: Execs, db: {"issued", "final", "open"}]
  BY <1>1 DEF Await, ExecAwait, JobAwait, WriteOps, SendOps, LookupOps
<1>. QED
  BY <1>2

LEMMA AnsweredJob ==
    ASSUME TypeOK, NEW a \in BagToSet(awaiting),
           a.op \in {"start", "evaluate", "skip", "abort", "tally", "finish"}
    PROVE  /\ a.job \in Jobs
           /\ \A v : /\ [a EXCEPT !.db = v].op = a.op /\ [a EXCEPT !.db = v].job = a.job
                     /\ [a EXCEPT !.db = v].db = v
<1>1. a \in Await
  BY DEF TypeOK
<1>2. a \in JobAwait
  BY <1>1 DEF Await, ExecAwait, WriteOps, SendOps, LookupOps
<1>3. a.job \in Jobs /\ \E D : D = DOMAIN a /\ {"op", "job", "db"} \subseteq D /\ a = [x \in D |-> a[x]]
  BY <1>2 DEF JobAwait
<1>. QED
  BY <1>3

LEMMA DbWriteExecutionKeeps ==
    ASSUME JobAssumption, IInv, TypeOK', NEW a \in BagToSet(awaiting), a.db = "issued",
           DbWriteExecution(a), UNCHANGED <<stateVars, flightVars, agentVars, left>>
    PROVE  DispatchedOnce'
<1>0. TypeOK /\ Phases /\ IsABag(awaiting)
  BY DEF IInv, DispatchedOnce, TypeOK
<1>1. PICK e \in Execs, o \in WriteOps :
         a = At(o, e) /\ \A v : [a EXCEPT !.db = v] = [op |-> o, exec |-> e, db |-> v]
  BY <1>0, AnsweredExec DEF DbWriteExecution
<1>. DEFINE s == Now(o, e)
<1>2. /\ a.op = o /\ a.exec = e /\ s.op = o /\ s.exec = e
      /\ a \in ExecRecs(e) /\ s \in ExecRecs(e) /\ o \in ExecOps /\ o \notin SendOps
  BY <1>1, ExecAwaitRecs DEF At, Now, ExecOps, WriteOps, SendOps
<1>3. awaiting' = With(Without(a), {s})
  BY <1>1 DEF DbWriteExecution, Answered, Now
<1>4. execStatus' = [execStatus EXCEPT ![e] = Written(o)] /\ UNCHANGED jobStatus
  BY <1>2 DEF DbWriteExecution
<1>5. a \in OfExec(e) /\ ~ Fresh(e)
  BY <1>0, <1>2, OfExecRecs, PhaseOfAwait
<1>6. OnlyChanges({e}) /\ received' = received /\ execStatus'[e] = Written(o)
  BY <1>0, <1>4 DEF OnlyChanges, TypeOK, stateVars, flightVars, agentVars
<1>7. UNCHANGED <<jobStatus, known, aborted, queue, currentBatch, pauses>>
  BY <1>4 DEF stateVars
<1>10. CASE Repeats(JobOf[e])
  <2>1. execStatus'[e] # "SKIPPED"
    BY <1>6 DEF Written, WriteOps
  <2>2. MovesOn(e)
    BY <1>5, <1>10, <2>1, RepeatedPrime DEF UnderWay, MovesOn, Begun
  <2>3. Swaps(a, {s}) /\ a.op \in ExecOps /\ a.exec = e /\ s.op \in ExecOps /\ s.exec = e
    BY <1>2, <1>3 DEF Swaps
  <2>. QED
    BY <1>6, <1>7, <2>2, <2>3, ExecKeeps
<1>8. CASE o \in {"run", "offline"} /\ ~ Repeats(JobOf[e])
  <2>1. Claimed(e)
    BY <1>0, <1>1, <1>5, <1>8, PhaseOfAwait DEF Repeated
  <2>2. Sole(BagToSet(awaiting) \cap ExecRecs(e), a)
    BY <1>0, <1>5, <2>1, OfExecRecs DEF Claimed, Sole
  <2>. HIDE DEF s
  <2>3. {s} \cap ExecRecs(e) = {s}
    BY <1>2
  <2>4. Single(With(Without(a), {s}), ExecRecs(e), s)
    BY <1>0, <2>2, <2>3, SoleBecomes
  <2>5. OfExec(e)' = {s} /\ awaiting'[s] = 1
    BY <1>3, <2>4, OfExecRecsPrime DEF Single
  <2>6. Untouched(e)'
    BY <2>1 DEF Claimed, Untouched, flightVars, agentVars
  <2>7. ASSUME o = "run" PROVE MovesOn(e)
    <3>1. execStatus'[e] = "RUNNING" /\ s = Now("run", e)
      BY <1>6, <2>7 DEF Written, s
    <3>. QED
      BY <1>5, <2>5, <2>6, <3>1 DEF MarkedRunning, Sole, MovesOn, Begun
  <2>8. ASSUME o = "offline" PROVE MovesOn(e)
    <3>1. execStatus'[e] = "FAILED" /\ received'[e] = 0
      BY <1>6, <2>6, <2>8 DEF Written, Untouched
    <3>2. {At("run", e), At("offline", e), Now("run", e)} \cap OfExec(e)' = {}
      BY <2>5, <2>8 DEF s, At, Now
    <3>3. {b \in OfExec(e)' : b.op \in SendOps} = {}
      BY <1>2, <2>5
    <3>. QED
      BY <1>5, <3>1, <3>2, <3>3 DEF UnderWay, SentOnce, MovesOn, Begun
  <2>9. MovesOn(e)
    BY <1>8, <2>7, <2>8
  <2>10. Swaps(a, {s}) /\ a.op \in ExecOps /\ a.exec = e /\ s.op \in ExecOps /\ s.exec = e
    BY <1>2, <1>3 DEF Swaps
  <2>. QED
    BY <1>6, <1>7, <2>9, <2>10, ExecKeeps
<1>9. CASE o \notin {"run", "offline"}
  <2>1. UnderWay(e)
    <3>1. a \notin {At("run", e), At("offline", e), Now("run", e)}
      BY <1>2, <1>9 DEF At, Now
    <3>. QED
      BY <1>0, <1>5, <3>1, PhaseOfAwait
  <2>2. Recordable(e)' /\ received'[e] = received[e]
    BY <1>6, <1>9, StatusUnderWay DEF Written, WriteOps
  <2>. HIDE DEF s
  <2>3. Swaps(a, {s})
    BY <1>3 DEF Swaps
  <2>. QED
    BY <1>2, <1>5, <1>6, <1>7, <1>9, <2>1, <2>2, <2>3, UnderWayStep
<1>. QED
  BY <1>8, <1>9, <1>10

LEMMA DbSkipKeeps ==
    ASSUME JobAssumption, IInv, TypeOK', NEW a \in BagToSet(awaiting), a.db = "issued",
           DbSkip(a), UNCHANGED <<stateVars, flightVars, agentVars, left>>
    PROVE  DispatchedOnce'
<1>0. TypeOK /\ Phases /\ StartsOnce /\ SkipsAreFresh /\ IsABag(awaiting)
  BY DEF IInv, DispatchedOnce, TypeOK
<1>. DEFINE s == [a EXCEPT !.db = "done"]
<1>1. /\ a.op = "skip" /\ awaiting' = With(Without(a), {s}) /\ UNCHANGED jobStatus
      /\ execStatus' = [e \in Execs |-> IF e \in a.ids THEN "SKIPPED" ELSE execStatus[e]]
  BY DEF DbSkip, Answered
<1>2. s.op = "skip" /\ s.db = "done"
  BY <1>0, <1>1, AnsweredJob
<1>. HIDE DEF s
<1>3. Swaps(a, {s}) /\ \A i : a \notin StartRecs(i) /\ {s} \cap StartRecs(i) = {}
  BY <1>1, <1>2 DEF Swaps, StartRecs
<1>4. a.job \in aborted /\ \A e \in a.ids : JobOf[e] = a.job /\ Fresh(e)
  BY <1>0, <1>1 DEF SkipsAreFresh
<1>5. \A x \in Execs : SameAwaits(ExecRecs(x), awaiting, awaiting')
  <2>. TAKE x \in Execs
  <2>1. a \notin ExecRecs(x) /\ {s} \cap ExecRecs(x) = {}
    BY <1>1, <1>2 DEF ExecRecs, ExecOps, WriteOps, SendOps, LookupOps
  <2>. QED
    BY <1>0, <1>3, <2>1, SwapSame
<1>6. \A x \in Execs : Moves(x)
  <2>. TAKE x \in Execs
  <2>1. CASE x \in a.ids
    <3>1. Fresh(x) /\ JobOf[x] \in aborted' /\ execStatus'[x] = "SKIPPED"
      BY <1>1, <1>4, <2>1 DEF stateVars
    <3>2. OfExec(x)' = OfExec(x)
      BY <1>0, <1>5, OfExecRecs, OfExecRecsPrime DEF SameAwaits
    <3>3. Fresh(x)'
      BY <3>1, <3>2 DEF Fresh, Untouched, stateVars, flightVars, agentVars
    <3>. QED
      BY <3>1, <3>3 DEF Moves, Skipped
  <2>2. CASE x \notin a.ids
    <3>1. SameExec(x)
      BY <1>1, <1>5, <2>2 DEF SameExec, stateVars, flightVars, agentVars
    <3>. QED
      BY <1>0, <3>1, SameFollows DEF Moves
  <2>. QED
    BY <2>1, <2>2
<1>7. \A i \in Jobs : StartsKept(i)
  BY <1>1, <1>3, StartsSame
<1>8. AwaitsKept
  <2>1. BagToSet(awaiting') \subseteq BagToSet(awaiting) \cup {s}
    BY <1>0, <1>3, SwapSet
  <2>. QED
    BY <1>2, <2>1 DEF AwaitsKept
<1>9. JobsKept
  BY <1>0, <1>1, <1>7 DEF JobsKept, StartsOnce, PausesKept, TypeOK, stateVars
<1>. QED
  BY <1>6, <1>8, <1>9, Keeps

LEMMA JobAnswerKeeps ==
    ASSUME JobAssumption, IInv, TypeOK', NEW a \in BagToSet(awaiting),
           a.op \in {"start", "evaluate", "tally", "finish", "abort"},
           NEW S, Swaps(a, S), \A s \in S : s.op = a.op /\ s.job = a.job,
           UNCHANGED <<execStatus, stateVars, flightVars, agentVars>>,
           \A i \in Jobs : jobStatus'[i] = jobStatus[i] \/ jobStatus'[i] # "none",
           a.op = "start" => StartsKept(a.job)
    PROVE  DispatchedOnce'
<1>0. TypeOK /\ StartsOnce /\ IsABag(awaiting)
  BY DEF IInv, DispatchedOnce, TypeOK
<1>1. a.op \in NotExec /\ \A s \in S : s.op \in NotExec
  BY DEF NotExec
<1>2. \A x \in Execs : Moves(x)
  BY <1>1, JobExecs, NotExecOps DEF Moves, stateVars, flightVars, agentVars
<1>3. \A i \in Jobs : StartsKept(i)
  <2>. TAKE i \in Jobs
  <2>1. CASE a.op = "start" /\ a.job = i
    BY <2>1
  <2>2. CASE ~ (a.op = "start" /\ a.job = i)
    <3>1. a \notin StartRecs(i) /\ S \cap StartRecs(i) = {}
      BY <2>2 DEF StartRecs
    <3>. QED
      BY <3>1, StartsSame
  <2>. QED
    BY <2>1, <2>2
<1>4. AwaitsKept
  BY <1>0, SwapSet DEF AwaitsKept
<1>5. JobsKept
  <2>1. \A i \in known' \cup aborted' : i \in Jobs /\ jobStatus'[i] # "none"
    BY <1>0 DEF StartsOnce, TypeOK, stateVars
  <2>. QED
    BY <1>0, <1>3, <2>1 DEF JobsKept, PausesKept, TypeOK, stateVars
<1>. QED
  BY <1>2, <1>4, <1>5, Keeps

LEMMA DbWriteJobKeeps ==
    ASSUME JobAssumption, IInv, TypeOK', NEW a \in BagToSet(awaiting), a.db = "issued",
           DbWriteJob(a), UNCHANGED <<stateVars, flightVars, agentVars, left>>
    PROVE  DispatchedOnce'
<1>0. TypeOK /\ StartsOnce /\ IsABag(awaiting)
  BY DEF IInv, DispatchedOnce, TypeOK
<1>. DEFINE s == [a EXCEPT !.db = "done"]
            j == a.job
<1>1. /\ a.op \in {"start", "finish", "abort"} /\ j \in Jobs /\ UNCHANGED execStatus
      /\ s.op = a.op /\ s.job = j
  BY <1>0, AnsweredJob DEF DbWriteJob
<1>2. Swaps(a, {s})
  BY DEF DbWriteJob, Answered, Swaps
<1>3. jobStatus'[j] # "none" /\ \A i \in Jobs \ {j} : jobStatus'[i] = jobStatus[i]
  <2>1. a.op = "finish" => a.status \in JobFinal
    BY <1>0 DEF TypeOK, Await, ExecAwait, JobAwait, WriteOps, SendOps, LookupOps
  <2>. QED
    BY <1>0, <1>1, <2>1 DEF DbWriteJob, TypeOK, JobFinal
<1>4. a.op = "start" => awaiting' = With(Without(a), {s})
  BY DEF DbWriteJob, Answered
<1>5. a.op = "start" => s \in StartRecs(j) /\ a \in StartRecs(j)
  <2>1. a \in Await
    BY <1>0 DEF TypeOK
  <2>2. a.op = "start" => s \in Await
    BY <2>1 DEF Await, ExecAwait, JobAwait, WriteOps, SendOps, LookupOps
  <2>. QED
    BY <1>1, <2>1, <2>2 DEF StartRecs
<1>. HIDE DEF s, j
<1>6. ASSUME a.op = "start" PROVE StartsKept(j)
  <2>1. OfStart(j) = BagToSet(awaiting) \cap StartRecs(j) /\ OfStart(j)' = BagToSet(awaiting') \cap StartRecs(j)
    BY <1>0 DEF TypeOK, OfStart, StartRecs
  <2>2. Sole(BagToSet(awaiting) \cap StartRecs(j), a) /\ Unstarted(j)
    BY <1>0, <1>1, <1>5, <1>6, <2>1 DEF StartsOnce, Sole, Unstarted
  <2>3. {s} \cap StartRecs(j) = {s}
    BY <1>5, <1>6
  <2>4. Single(With(Without(a), {s}), StartRecs(j), s)
    BY <1>0, <2>2, <2>3, SoleBecomes
  <2>5. OfStart(j)' = {s} /\ awaiting'[s] = 1
    BY <1>4, <1>6, <2>1, <2>4 DEF Single
  <2>. QED
    BY <1>3, <2>2, <2>5 DEF StartsKept, Sole
<1>7. \A i \in Jobs : jobStatus'[i] = jobStatus[i] \/ jobStatus'[i] # "none"
  BY <1>3
<1>8. \A t \in {s} : t.op = a.op /\ t.job = a.job
  BY <1>1 DEF j
<1>9. a.op = "start" => StartsKept(a.job)
  BY <1>6 DEF j
<1>. QED
  BY <1>1, <1>2, <1>7, <1>8, <1>9, JobAnswerKeeps

LEMMA DbReadKeeps ==
    ASSUME JobAssumption, IInv, TypeOK', NEW a \in BagToSet(awaiting), a.db = "issued",
           DbRead(a), UNCHANGED <<stateVars, flightVars, agentVars, left>>
    PROVE  DispatchedOnce'
<1>0. TypeOK /\ Phases /\ IsABag(awaiting)
  BY DEF IInv, DispatchedOnce, TypeOK
<1>1. PICK v : awaiting' = With(Without(a), {[a EXCEPT !.db = v]})
  BY DEF DbRead, Answered
<1>. DEFINE s == [a EXCEPT !.db = v]
<1>2. Swaps(a, {s}) /\ a.op \in {"check", "evaluate", "tally"} /\ UNCHANGED dbVars
  BY <1>1 DEF DbRead, Swaps
<1>3. CASE a.op = "check"
  <2>. DEFINE e == a.exec
  <2>1. e \in Execs /\ s.op = "check" /\ s.exec = e
    BY <1>0, <1>3, AnsweredCheck
  <2>. HIDE DEF s, e
  <2>2. a \in OfExec(e) /\ a.op \in ExecOps \ SendOps /\ s.op \in ExecOps \ SendOps /\ a.exec = e
    BY <1>3, <2>1 DEF OfExec, ExecOps, SendOps, e
  <2>3. a \notin {At("run", e), At("offline", e), Now("run", e)}
    BY <1>3 DEF At, Now
  <2>4. UnderWay(e) /\ ~ Fresh(e)
    BY <1>0, <2>1, <2>2, <2>3, PhaseOfAwait
  <2>5. OnlyChanges({e}) /\ execStatus'[e] = execStatus[e] /\ received'[e] = received[e]
    BY <1>2 DEF OnlyChanges, dbVars, stateVars, flightVars, agentVars
  <2>6. UNCHANGED <<jobStatus, known, aborted, queue, currentBatch, pauses>>
    BY <1>2 DEF dbVars, stateVars
  <2>. QED
    BY <1>2, <2>1, <2>2, <2>4, <2>5, <2>6, StatusUnderWay, UnderWayStep
<1>4. CASE a.op \in {"evaluate", "tally"}
  <2>1. s.op = a.op /\ s.job = a.job
    BY <1>0, <1>4, AnsweredJob
  <2>. HIDE DEF s
  <2>2. \A t \in {s} : t.op = a.op /\ t.job = a.job
    BY <2>1
  <2>3. UNCHANGED <<execStatus, stateVars, flightVars, agentVars>> /\ UNCHANGED jobStatus
    BY <1>2 DEF dbVars
  <2>. QED
    BY <1>2, <1>4, <2>2, <2>3, JobAnswerKeeps
<1>. QED
  BY <1>2, <1>3, <1>4

-----------------------------------------------------------------------------
(* Crashes: only the database and the agents survive.  An execution that    *)
(* was claimed in memory only is fresh again.                               *)

LEMMA RestartKeeps ==
    ASSUME JobAssumption, IInv, ServerRestart
    PROVE  DispatchedOnce'
<1>0. TypeOK /\ Phases /\ StartsOnce /\ SkipsAreFresh
  BY DEF IInv, DispatchedOnce
<1>1. BagToSet(awaiting') = {}
  BY DEF ServerRestart, EmptyBag, SetToBag, BagToSet
<1>2. /\ \A x : OfExec(x)' = {} /\ \A i : OfStart(i)' = {}
      /\ \A i : Unstarted(i)' <=> jobStatus[i] = "none"
  BY <1>1 DEF OfExec, OfStart, Unstarted, ServerRestart, dbVars
<1>3. \A x \in Execs : (Fresh(x) \/ Claimed(x)) => Fresh(x)'
  BY <1>2 DEF Fresh, Claimed, Untouched, ServerRestart, dbVars
<1>4. \A x \in Execs : (MarkedRunning(x) \/ UnderWay(x)) => UnderWay(x)'
  <2>. TAKE x \in Execs
  <2>1. MarkedRunning(x) => execStatus[x] = "RUNNING" /\ received[x] = 0
    BY DEF MarkedRunning, Untouched
  <2>2. SentOnce(x) => execStatus[x] \in {"RUNNING", "SUCCESS", "FAILED"} /\ received[x] <= 1
    BY DEF SentOnce
  <2>3. Repeated(x) => Repeated(x)'
    BY RepeatedPrime DEF Repeated, ServerRestart, dbVars
  <2>. QED
    BY <1>2, <2>1, <2>2, <2>3 DEF UnderWay, SentOnce, ServerRestart, dbVars
<1>5. Phases'
  BY <1>0, <1>3, <1>4 DEF Phases
<1>6. StartsOnce'
  <2>1. known' = {} /\ aborted' = {}
    BY DEF ServerRestart
  <2>2. ASSUME NEW j \in Jobs, Unstarted(j)' PROVE \A e \in ExecsOf(j) : Fresh(e)'
    BY <1>0, <1>2, <1>3, <2>2 DEF StartsOnce, Unstarted, ExecsOf
  <2>. QED
    BY <1>1, <1>2, <2>1, <2>2 DEF StartsOnce, ExecsOf
<1>7. QueuedIsFresh'
  BY DEF QueuedIsFresh, ServerRestart
<1>8. SkipsAreFresh'
  <2>1. ASSUME NEW e \in Execs, execStatus'[e] = "SKIPPED"
        PROVE  JobOf[e] \notin known' /\ ~ Unstarted(JobOf[e])'
    <3>1. execStatus[e] = "SKIPPED" /\ JobOf[e] \in Jobs /\ known' = {}
      BY <2>1 DEF ServerRestart, JobAssumption, dbVars
    <3>2. jobStatus[JobOf[e]] # "none"
      BY <1>0, <3>1 DEF SkipsAreFresh, StartsOnce, Unstarted
    <3>. QED
      BY <1>2, <3>1, <3>2
  <2>. QED
    BY <1>1, <2>1 DEF SkipsAreFresh
<1>9. PausesAreFresh'
  BY DEF PausesAreFresh, PausesOnce, ServerRestart
<1>. QED
  BY <1>5, <1>6, <1>7, <1>8, <1>9 DEF DispatchedOnce

-----------------------------------------------------------------------------
(* DispatchedOnce is inductive, together with the invariant of the limit.   *)
Inv == LimitInv /\ DispatchedOnce

LEMMA InvInit == JobAssumption /\ BoundAssumption /\ Init => Inv
<1>. SUFFICES ASSUME JobAssumption, BoundAssumption, Init PROVE Inv
  OBVIOUS
<1>1. LimitInv
  BY LimitInit
<1>2. BagToSet(awaiting) = {}
  BY DEF Init, EmptyBag, SetToBag, BagToSet
<1>3. (\A x : OfExec(x) = {}) /\ (\A i : OfStart(i) = {})
  BY <1>2 DEF OfExec, OfStart
<1>4. \A x \in Execs : Fresh(x)
  BY <1>3 DEF Init, Fresh, Untouched
<1>5. Phases /\ StartsOnce /\ QueuedIsFresh /\ PausesAreFresh
  BY <1>2, <1>3, <1>4 DEF Phases, StartsOnce, ExecsOf, QueuedIsFresh, PausesAreFresh, PausesOnce, Init
<1>6. SkipsAreFresh
  BY <1>2 DEF SkipsAreFresh, Init
<1>. QED
  BY <1>1, <1>5, <1>6 DEF Inv, DispatchedOnce

LEMMA InvStep ==
    ASSUME JobAssumption, Inv, [Next]_vars
    PROVE  Inv'
<1>0. /\ IInv /\ TypeOK
      /\ LimitInv' /\ TypeOK'
  BY LimitStep DEF Inv, IInv, LimitInv, DispatchedOnce
<1>1. CASE UNCHANGED vars
  BY <1>0, <1>1 DEF Inv, IInv, DispatchedOnce, Phases, Fresh, Claimed, MarkedRunning, UnderWay,
     SentOnce, Repeated, Repeats, ExecsOf, Untouched, Sole, OfExec, OfStart, StartsOnce, Unstarted,
     QueuedIsFresh, SkipsAreFresh, PausesAreFresh, PausesOnce, vars, dbVars, stateVars, flightVars,
     agentVars
<1>2. CASE DbStep
  <2>1. PICK a \in BagToSet(awaiting) :
          /\ a.db = "issued"
          /\ DbWriteExecution(a) \/ DbSkip(a) \/ DbWriteJob(a) \/ DbRead(a)
    BY <1>2 DEF DbStep
  <2>2. UNCHANGED <<stateVars, flightVars, agentVars, left>>
    BY <1>2 DEF DbStep
  <2>. QED
    BY <1>0, <2>1, <2>2, DbWriteExecutionKeeps, DbSkipKeeps, DbWriteJobKeeps, DbReadKeeps DEF Inv
<1>3. ASSUME NEW j \in Jobs, JobStep(j) PROVE DispatchedOnce'
  BY <1>0, <1>3, StartKeeps, JobStartedKeeps, EvaluatedKeeps, PauseOverKeeps, CompleteKeeps
     DEF JobStep
<1>4. ASSUME NEW e \in Execs, ExecStep(e) PROVE DispatchedOnce'
  BY <1>0, <1>4, StartSendingKeeps, SendKeeps, FinishKeeps, TimerKeeps, AnswerKeeps DEF ExecStep
<1>5. ASSUME NEW e \in Execs, AgentStep(e) PROVE DispatchedOnce'
  BY <1>0, <1>5, AnswerKeeps DEF AgentStep
<1>6. CASE Environment
  BY <1>0, <1>6, CreateKeeps, AbortKeeps, AnswerKeeps, ConnectKeeps, DisconnectKeeps,
     InteractiveKeeps, RestartKeeps DEF Environment, Inv
<1>. QED
  BY <1>0, <1>1, <1>2, <1>3, <1>4, <1>5, <1>6 DEF Next, Inv

(* Every execution passes through its phases once, in every reachable state *)
(* of orchestrator.js: nothing claimed, sent or finished is ever in a queue *)
(* or in a later wave again.  Only the executions of a job that waits more  *)
(* than once may be claimed again, by the second of two timers; what is     *)
(* queued, skipped or left by an abort is fresh in every job.               *)
THEOREM DispatchedOnceHolds == Spec => []DispatchedOnce
<1>1. Init => Inv
  BY JobAssumption, BoundAssumption, InvInit
<1>2. Inv /\ [Next]_vars => Inv'
  BY JobAssumption, InvStep
<1>3. Inv => DispatchedOnce
  BY DEF Inv
<1>. QED
  BY <1>1, <1>2, <1>3, PTL DEF Spec

(* Aborting a job skips exactly what has not been dispatched: a skipped     *)
(* execution is fresh, so its agent never had the command and no handler of *)
(* dispatchExecution is suspended on its behalf.                            *)
THEOREM SkippedNeverSentHolds == Spec => []SkippedNeverSent
<1>1. DispatchedOnce => SkippedNeverSent
  <2>. SUFFICES ASSUME Phases, NEW e \in Execs, execStatus[e] = "SKIPPED"
                PROVE  /\ received[e] = 0 /\ e \notin running /\ inflight[e] = "absent"
                       /\ ~ DispatchPending(e)
    BY DEF SkippedNeverSent, DispatchedOnce
  <2>1. Fresh(e)
    BY DEF Phases, Claimed, MarkedRunning, UnderWay, SentOnce, Repeated
  <2>2. ASSUME DispatchPending(e) PROVE FALSE
    <3>1. PICK o \in {"offline", "run"} \cup SendOps, d \in {"issued", "done"} :
             [op |-> o, exec |-> e, db |-> d] \in BagToSet(awaiting)
      BY <2>2 DEF DispatchPending, BagIn
    <3>. DEFINE c == [op |-> o, exec |-> e, db |-> d]
    <3>2. c.op \in ExecOps /\ c.exec = e /\ c \in BagToSet(awaiting)
      BY <3>1 DEF ExecOps, WriteOps
    <3>. HIDE DEF c
    <3>3. c \in OfExec(e)
      BY <3>2 DEF OfExec
    <3>. QED
      BY <2>1, <3>3 DEF Fresh
  <2>. QED
    BY <2>1, <2>2 DEF Fresh, Untouched
<1>. QED
  BY <1>1, DispatchedOnceHolds, PTL

-----------------------------------------------------------------------------
(* The refinement of ExecutionLifecycle, by jobs that wait at most once.    *)
OnceEach == \A j \in Jobs : ~ Repeats(j)

LEMMA WriteIsStep ==
    ASSUME JobAssumption, OnceEach, Inv, NEW a \in BagToSet(awaiting), a.db = "issued",
           DbWriteExecution(a), UNCHANGED received
    PROVE  \E e \in Execs : Lifecycle!Claim(e) \/ Lifecycle!Conclude(e)
<1>0. TypeOK /\ Phases /\ \A x \in Execs : ~ Repeated(x)
  BY DEF Inv, LimitInv, DispatchedOnce, OnceEach, Repeated, JobAssumption
<1>1. PICK e \in Execs, o \in WriteOps : a = At(o, e)
  BY <1>0, AnsweredExec DEF DbWriteExecution
<1>2. execStatus' = [execStatus EXCEPT ![e] = Written(o)] /\ a.op = o
  BY <1>1 DEF DbWriteExecution, At
<1>3. a \in OfExec(e)
  BY <1>0, <1>1, OfExecRecs, ExecAwaitRecs
<1>4. CASE o \in {"run", "offline"}
  <2>1. execStatus[e] = "PENDING"
    BY <1>0, <1>1, <1>3, <1>4, PhaseOfAwait DEF Claimed
  <2>2. Written(o) \in {"RUNNING", "FAILED"}
    BY <1>4 DEF Written
  <2>. QED
    BY <1>2, <2>1, <2>2 DEF Lifecycle!Claim
<1>5. CASE o \notin {"run", "offline"}
  <2>1. a \notin {At("run", e), At("offline", e), Now("run", e)}
    BY <1>2, <1>5 DEF At, Now
  <2>2. execStatus[e] \in {"RUNNING", "SUCCESS", "FAILED"}
    BY <1>0, <1>3, <2>1, PhaseOfAwait DEF UnderWay, SentOnce
  <2>3. Written(o) \in {"SUCCESS", "FAILED"}
    BY <1>5 DEF Written, WriteOps
  <2>. QED
    BY <1>2, <2>2, <2>3 DEF Lifecycle!Conclude
<1>. QED
  BY <1>4, <1>5

LEMMA SkipIsStep ==
    ASSUME Inv, NEW a \in BagToSet(awaiting), a.db = "issued", DbSkip(a), UNCHANGED received
    PROVE  \E es \in SUBSET Execs : Lifecycle!Skip(es)
<1>0. TypeOK /\ SkipsAreFresh
  BY DEF Inv, LimitInv, DispatchedOnce
<1>1. \A e \in a.ids : Fresh(e)
  BY <1>0 DEF SkipsAreFresh, DbSkip
<1>2. a.ids \in SUBSET Execs
  BY <1>0 DEF DbSkip, TypeOK, Await, ExecAwait, JobAwait, WriteOps, SendOps, LookupOps
<1>3. Lifecycle!Skip(a.ids)
  BY <1>1 DEF Lifecycle!Skip, DbSkip, Fresh
<1>. QED
  BY <1>2, <1>3

LEMMA SentIsStep ==
    ASSUME JobAssumption, OnceEach, Inv, TypeOK', NEW e \in Execs, CommandSent(e)
    PROVE  Lifecycle!Deliver(e)
<1>0. TypeOK /\ Phases /\ ~ Repeats(JobOf[e]) /\ ~ Repeated(e)
  BY DEF Inv, LimitInv, DispatchedOnce, OnceEach, Repeated, JobAssumption
<1>1. BagIn(Now("send", e), awaiting) /\ received' = [received EXCEPT ![e] = @ + 1]
      /\ awaiting' = Without(Now("send", e)) /\ UNCHANGED execStatus
  BY DEF CommandSent, Ready, dbVars
<1>2. "send" \in SendOps /\ received'[e] = received[e] + 1
  BY <1>0, <1>1 DEF SendOps, TypeOK
<1>3. received[e] = 0
  BY <1>0, <1>1, <1>2, SendOver
<1>4. execStatus[e] \in {"RUNNING", "SUCCESS", "FAILED"}
  <2>1. Now("send", e) \in OfExec(e)
    BY <1>0, <1>1, <1>2, OfExecRecs, ExecAwaitRecs DEF BagIn
  <2>2. Now("send", e) \notin {At("run", e), At("offline", e), Now("run", e)}
    BY DEF At, Now
  <2>. QED
    BY <1>0, <2>1, <2>2, PhaseOfAwait DEF UnderWay, SentOnce
<1>. QED
  BY <1>1, <1>3, <1>4 DEF Lifecycle!Deliver

LEMMA RefinementStep ==
    ASSUME JobAssumption, OnceEach, Inv, TypeOK', [Next]_vars
    PROVE  [Lifecycle!Next]_(Lifecycle!vars)
<1>. USE DEF dbVars, agentVars, vars
<1>1. CASE DbStep
  <2>1. PICK a \in BagToSet(awaiting) :
          /\ a.db = "issued"
          /\ DbWriteExecution(a) \/ DbSkip(a) \/ DbWriteJob(a) \/ DbRead(a)
    BY <1>1 DEF DbStep
  <2>2. UNCHANGED received
    BY <1>1 DEF DbStep
  <2>3. (DbWriteJob(a) \/ DbRead(a)) => UNCHANGED execStatus
    BY DEF DbWriteJob, DbRead
  <2>. QED
    BY <2>1, <2>2, <2>3, WriteIsStep, SkipIsStep DEF Lifecycle!Next, Lifecycle!vars
<1>2. ASSUME NEW j \in Jobs, JobStep(j) PROVE UNCHANGED <<execStatus, received>>
  BY <1>2 DEF JobStep, StartJob, JobStarted, BatchEvaluated, PauseOver, JobTallied, JobFinished,
     RemainingSkipped
<1>3. ASSUME NEW e \in Execs, ExecStep(e)
      PROVE  CommandSent(e) \/ UNCHANGED <<execStatus, received>>
  BY <1>3 DEF ExecStep, StartSending, CommandSentIntoClosedSocket, CommandNotSent, DispatchFailed,
     ExecutionCompleted, TimerFires, ReadsStatus, TimerChecked, ExecutionTimedOut, LookedUp
<1>4. ASSUME NEW e \in Execs, AgentStep(e) PROVE UNCHANGED <<execStatus, received>>
  BY <1>4 DEF AgentStep, AgentAnswer, AnswerLost, CompletionFor
<1>5. CASE Environment
  BY <1>5 DEF Environment, CreateJob, AbortJob, AgentOutput, ForgetCompleted, AgentConnect,
     AgentDisconnect, InteractiveOutput, InteractiveAnswer, ServerRestart, OutputFor, CompletionFor,
     Lifecycle!vars
<1>. QED
  BY <1>1, <1>2, <1>3, <1>4, <1>5, SentIsStep DEF Next, Lifecycle!Next, Lifecycle!vars

(* orchestrator.js gives every execution the life it promises: claimed      *)
(* once, sent at most once, a verdict only after that, and nothing at all   *)
(* once skipped; whatever is interleaved or lost.  A job may wait, if it    *)
(* has two waves: then a second evaluation of the first one finds none left *)
(* to wait for.  With three, it arms a second timer for a later wave, and   *)
(* both run the one that is current then: its executions are claimed twice. *)
THEOREM LifecycleRefined ==
    ASSUME \A j \in Jobs : ~ Repeats(j)
    PROVE  Spec => RefinesLifecycle
<1>1. Init => Inv
  BY JobAssumption, BoundAssumption, InvInit
<1>2. Inv /\ [Next]_vars => Inv'
  BY JobAssumption, InvStep
<1>3. Init => Lifecycle!Init
  BY DEF Init, Lifecycle!Init
<1>4. Inv /\ Inv' /\ [Next]_vars => [Lifecycle!Next]_(Lifecycle!vars)
  BY JobAssumption, RefinementStep DEF Inv, LimitInv, OnceEach
<1>. QED
  BY <1>1, <1>2, <1>3, <1>4, PTL DEF Spec, RefinesLifecycle, Lifecycle!Spec

-----------------------------------------------------------------------------
(* Every slot is given back: an invariant on top of DispatchedOnce.         *)

Outcomes == {"succeed", "fail", "timedOut"}
TrackOps == {"run", "offline", "sendFailed", "check"} \cup Outcomes

(* A handler that is at one of O on behalf of e is suspended.               *)
Suspended(e, O) == \E a \in BagToSet(awaiting) : a.op \in O /\ a.exec = e

(* Nobody but the handler of an outcome will do anything for e any more.    *)
Decided(e) ==
    \/ execStatus[e] \in {"SUCCESS", "FAILED"}
    \/ e \in completed
    \/ \E a \in BagToSet(awaiting) : a.op = "check" /\ a.exec = e /\ a.db = "final"

Tracked(e) ==
    /\ e \in running =>
         /\ JobOf[e] \in known
         /\ inflight[e] # "absent" \/ Suspended(e, {"run"} \cup Outcomes)
         /\ Decided(e) => Suspended(e, Outcomes)
         /\ ~ Suspended(e, {"offline", "sendFailed"})
    /\ e \in completed => execStatus[e] \in {"RUNNING", "SUCCESS", "FAILED"}

(* The executions of repeating jobs may be dispatched again, whatever was   *)
(* reported of them; of theirs nothing is claimed.                          *)
Tracks(e) == Repeats(JobOf[e]) \/ Tracked(e)
TrackInv == \A e \in Execs : Tracks(e)

(* The awaits of x that matter here are the same after a step.              *)
SameFor(x) ==
    \A a : a.op \in TrackOps /\ a.exec = x =>
              (a \in BagToSet(awaiting') <=> a \in BagToSet(awaiting))

LEMMA SameAwaiting ==
    ASSUME NEW x, SameFor(x)
    PROVE  /\ \A O \in SUBSET TrackOps : Suspended(x, O)' <=> Suspended(x, O)
           /\ (\E a \in BagToSet(awaiting') : a.op = "check" /\ a.exec = x /\ a.db = "final")
                <=> (\E a \in BagToSet(awaiting) : a.op = "check" /\ a.exec = x /\ a.db = "final")
  BY DEF SameFor, Suspended, TrackOps

LEMMA TracksPrime == \A x : Tracks(x)' <=> Repeats(JobOf[x]) \/ Tracked(x)'
  BY DEF Tracks, Repeats, ExecsOf

LEMMA TrackSame ==
    ASSUME NEW x \in Execs, Tracks(x), SameFor(x), execStatus'[x] = execStatus[x],
           x \in running' => x \in running /\ (JobOf[x] \in known => JobOf[x] \in known'),
           x \in completed' => x \in completed,
           inflight'[x] # "absent" \/ inflight[x] = "absent" \/ Decided(x)
    PROVE  Tracks(x)'
<1>. SUFFICES ASSUME Tracked(x) PROVE Tracked(x)'
  BY TracksPrime DEF Tracks
<1>1. /\ Suspended(x, {"run"} \cup Outcomes)' <=> Suspended(x, {"run"} \cup Outcomes)
      /\ Suspended(x, Outcomes)' <=> Suspended(x, Outcomes)
      /\ Suspended(x, {"offline", "sendFailed"})' <=> Suspended(x, {"offline", "sendFailed"})
  BY SameAwaiting DEF TrackOps
<1>2. Decided(x)' => Decided(x)
  BY SameAwaiting DEF Decided
<1>3. Suspended(x, Outcomes) => Suspended(x, {"run"} \cup Outcomes)
  BY DEF Suspended
<1>. QED
  BY <1>1, <1>2, <1>3 DEF Tracked

LEMMA SwapKeepsFor ==
    ASSUME IsABag(awaiting), NEW a, NEW S, Swaps(a, S), NEW x,
           a.op \in TrackOps => a.exec # x, \A s \in S : s.op \in TrackOps => s.exec # x
    PROVE  SameFor(x)
<1>1. \A b : b # a => (b \in BagToSet(Without(a)) <=> b \in BagToSet(awaiting))
  BY WithoutCopies
<1>2. IsABag(Without(a)) /\ BagToSet(With(Without(a), S)) = BagToSet(Without(a)) \cup S
      /\ BagToSet(With(awaiting, S)) = BagToSet(awaiting) \cup S
  BY WithoutBag, WithBag
<1>. QED
  BY <1>1, <1>2 DEF Swaps, SameFor

LEMMA SwapBounds ==
    ASSUME IsABag(awaiting), NEW a, NEW S, Swaps(a, S)
    PROVE  /\ BagToSet(awaiting') \subseteq BagToSet(awaiting) \cup S
           /\ \A b \in BagToSet(awaiting) : b # a => b \in BagToSet(awaiting')
<1>1. \A b : b # a => (b \in BagToSet(Without(a)) <=> b \in BagToSet(awaiting))
  BY WithoutCopies
<1>2. IsABag(Without(a)) /\ BagToSet(With(Without(a), S)) = BagToSet(Without(a)) \cup S
      /\ BagToSet(With(awaiting, S)) = BagToSet(awaiting) \cup S
  BY WithoutBag, WithBag
<1>. QED
  BY <1>1, <1>2, SwapSet DEF Swaps

(* A step of the execution e alone that dispatches nothing and finishes     *)
(* nothing.                                                                 *)
LEMMA TrackExec ==
    ASSUME TypeOK, TrackInv, NEW e \in Execs, NEW a, NEW S, Swaps(a, S),
           a.op \in TrackOps => a.exec = e, \A s \in S : s.op \in TrackOps => s.exec = e,
           a.op \notin Outcomes, \A s \in S : s.op \notin {"offline", "sendFailed", "check"} \/ e \notin running'
                                              \/ (s.op = "check" /\ (s.db = "final" => Decided(e))),
           UNCHANGED <<execStatus, known>>, running' \subseteq running,
           \A x \in Execs \ {e} : inflight'[x] = inflight[x] /\ (x \in completed' => x \in completed),
           e \in completed' => \/ e \in completed
                               \/ /\ Suspended(e, Outcomes)'
                                  /\ \/ Repeats(JobOf[e])
                                     \/ execStatus[e] \in {"RUNNING", "SUCCESS", "FAILED"},
           e \in running' => \/ inflight'[e] # "absent" \/ Decided(e) \/ Suspended(e, Outcomes)'
                             \/ inflight[e] = "absent" /\ a.op # "run"
    PROVE  TrackInv'
<1>0. IsABag(awaiting) /\ Tracks(e)
  BY DEF TypeOK, TrackInv
<1>1. /\ BagToSet(awaiting') \subseteq BagToSet(awaiting) \cup S
      /\ \A b \in BagToSet(awaiting) : b # a => b \in BagToSet(awaiting')
  BY <1>0, SwapBounds
<1>2. Suspended(e, Outcomes) => Suspended(e, Outcomes)'
  BY <1>1 DEF Suspended
<1>3. ASSUME ~ Repeats(JobOf[e]) PROVE Tracked(e)'
  <2>0. Tracked(e)
    BY <1>0, <1>3 DEF Tracks
  <2>1. e \in completed' => execStatus'[e] \in {"RUNNING", "SUCCESS", "FAILED"}
    BY <1>3, <2>0 DEF Tracked
  <2>2. ASSUME e \in running'
        PROVE  /\ JobOf[e] \in known'
               /\ inflight'[e] # "absent" \/ Suspended(e, {"run"} \cup Outcomes)'
               /\ Decided(e)' => Suspended(e, Outcomes)'
               /\ ~ Suspended(e, {"offline", "sendFailed"})'
    <3>1. e \in running /\ JobOf[e] \in known
      BY <2>0, <1>0, <2>2 DEF Tracked
    <3>2. Decided(e) => Suspended(e, Outcomes)'
      BY <2>0, <1>0, <1>2, <3>1 DEF Tracked
    <3>3. ~ Suspended(e, {"offline", "sendFailed"})'
      BY <2>0, <1>0, <1>1, <2>2, <3>1 DEF Tracked, Suspended
    <3>4. Decided(e)' => Decided(e) \/ Suspended(e, Outcomes)'
      BY <1>1, <2>2 DEF Decided
    <3>5. Suspended(e, Outcomes)' => Suspended(e, {"run"} \cup Outcomes)'
      BY DEF Suspended
    <3>6. a.op # "run" /\ Suspended(e, {"run"} \cup Outcomes) => Suspended(e, {"run"} \cup Outcomes)'
      BY <1>1 DEF Suspended
    <3>. QED
      BY <2>0, <1>0, <2>2, <3>1, <3>2, <3>3, <3>4, <3>5, <3>6 DEF Tracked
  <2>. QED
    BY <2>1, <2>2 DEF Tracked
<1>4. ASSUME NEW x \in Execs \ {e} PROVE Tracks(x)'
  <2>1. SameFor(x)
    BY <1>0, SwapKeepsFor
  <2>. QED
    BY <2>1, TrackSame DEF TrackInv
<1>. QED
  BY <1>3, <1>4, TracksPrime DEF TrackInv

LEMMA SendTracks ==
    ASSUME TypeOK, TrackInv, NEW e \in Execs,
           StartSending(e) \/ CommandSent(e) \/ CommandSentIntoClosedSocket(e) \/ CommandNotSent(e)
    PROVE  TrackInv'
<1>1. CASE StartSending(e)
  <2>1. PICK o \in SendOps : awaiting' = With(Without(Now("run", e)), {Now(o, e)})
    BY <1>1 DEF StartSending, Marked, SendOps
  <2>2. inflight' = [inflight EXCEPT ![e] = "idle"] /\ UNCHANGED <<execStatus, stateVars, completed>>
    BY <1>1 DEF StartSending, InflightSet, dbVars
  <2>3. Swaps(Now("run", e), {Now(o, e)}) /\ inflight'[e] = "idle"
        /\ \A x \in Execs \ {e} : inflight'[x] = inflight[x]
    BY <2>1, <2>2 DEF Swaps, TypeOK
  <2>4. /\ Now("run", e).op = "run" /\ Now("run", e).exec = e
        /\ Now(o, e).op = o /\ Now(o, e).exec = e /\ o \notin {"offline", "sendFailed", "check"}
    BY DEF Now, SendOps
  <2>5. UNCHANGED <<known, running>>
    BY <2>2 DEF stateVars
  <2>. QED
    BY <2>2, <2>3, <2>4, <2>5, TrackExec DEF Outcomes
<1>2. ASSUME NEW o \in SendOps, NEW S, S = {} \/ S = {At("sendFailed", e)}, Swaps(Now(o, e), S),
             running' \subseteq running, S = {} \/ e \notin running',
             UNCHANGED <<execStatus, known, inflight, completed>>
      PROVE  TrackInv'
  <2>1. /\ Now(o, e).op = o /\ Now(o, e).exec = e /\ o \notin Outcomes /\ o # "run"
        /\ \A s \in S : s.exec = e /\ (s.op \notin {"offline", "sendFailed", "check"} \/ e \notin running')
    BY <1>2 DEF Now, At, SendOps, Outcomes
  <2>2. /\ e \in running' => \/ inflight'[e] # "absent" \/ Decided(e) \/ Suspended(e, Outcomes)'
                             \/ inflight[e] = "absent" /\ Now(o, e).op # "run"
        /\ \A x \in Execs \ {e} : inflight'[x] = inflight[x] /\ (x \in completed' => x \in completed)
        /\ e \in completed' => e \in completed
    BY <1>2, <2>1
  <2>. QED
    BY <1>2, <2>1, <2>2, TrackExec
<1>3. CASE CommandSent(e)
  BY <1>2, <1>3 DEF CommandSent, SendOps, Swaps, dbVars, stateVars, flightVars
<1>4. CASE CommandSentIntoClosedSocket(e)
  BY <1>2, <1>4 DEF CommandSentIntoClosedSocket, SendOps, Swaps, dbVars, stateVars, flightVars
<1>5. CASE CommandNotSent(e)
  <2>1. PICK o \in SendOps : /\ awaiting' = With(Without(Now(o, e)), {At("sendFailed", e)})
                             /\ running' = running \ {e}
                             /\ UNCHANGED <<dbVars, known, flightVars>>
    BY <1>5 DEF CommandNotSent
  <2>. QED
    BY <1>2, <2>1 DEF Swaps, dbVars, flightVars
<1>. QED
  BY <1>1, <1>3, <1>4, <1>5

LEMMA TimerTracks ==
    ASSUME TypeOK, TrackInv, NEW e \in Execs, TimerFires(e) \/ TimerChecked(e)
    PROVE  TrackInv'
<1>1. CASE TimerFires(e)
  <2>. DEFINE c == At("check", e)
  <2>1. Swaps(c, {c}) /\ c.op = "check" /\ c.exec = e /\ c.db # "final"
    BY <1>1 DEF TimerFires, ReadsStatus, Swaps, At
  <2>2. UNCHANGED <<execStatus, known, running, completed>>
    BY <1>1 DEF TimerFires, ReadsStatus, dbVars, stateVars
  <2>3. \A x \in Execs \ {e} : inflight'[x] = inflight[x]
    BY <1>1 DEF TimerFires, ReadsStatus, TypeOK
  <2>4. inflight'[e] # "absent" \/ inflight[e] = "absent" \/ Decided(e)
    <3>1. e \in completed => Decided(e)
      BY DEF Decided
    <3>. QED
      BY <1>1, <3>1 DEF TimerFires, ReadsStatus, TypeOK
  <2>. HIDE DEF c
  <2>. QED
    BY <2>1, <2>2, <2>3, <2>4, TrackExec DEF Outcomes
<1>2. CASE TimerChecked(e)
  <2>1. CASE /\ BagIn([op |-> "check", exec |-> e, db |-> "final"], awaiting)
             /\ InflightDelete(e)
             /\ awaiting' = Without([op |-> "check", exec |-> e, db |-> "final"])
             /\ UNCHANGED <<dbVars, stateVars, completed>>
    <3>. DEFINE c == [op |-> "check", exec |-> e, db |-> "final"]
    <3>1. Swaps(c, {}) /\ c.op = "check" /\ c.exec = e
      BY <2>1 DEF Swaps
    <3>2. Decided(e)
      BY <2>1 DEF Decided, BagIn
    <3>3. \A x \in Execs \ {e} : inflight'[x] = inflight[x]
      BY <2>1 DEF InflightDelete, TypeOK
    <3>4. UNCHANGED <<execStatus, known, running, completed>>
      BY <2>1 DEF dbVars, stateVars
    <3>. HIDE DEF c
    <3>. QED
      BY <3>1, <3>2, <3>3, <3>4, TrackExec DEF Outcomes
  <2>2. CASE /\ awaiting' = With(Without([op |-> "check", exec |-> e, db |-> "open"]), {At("timedOut", e)})
             /\ UNCHANGED <<dbVars, stateVars, flightVars>>
    <3>. DEFINE c == [op |-> "check", exec |-> e, db |-> "open"]
                s == At("timedOut", e)
    <3>1. Swaps(c, {s}) /\ c.op = "check" /\ c.exec = e /\ s.op = "timedOut" /\ s.exec = e
      BY <2>2 DEF Swaps, At
    <3>2. UNCHANGED <<execStatus, known, running, inflight, completed>>
      BY <2>2 DEF dbVars, stateVars, flightVars
    <3>. HIDE DEF c, s
    <3>. QED
      BY <3>1, <3>2, TrackExec DEF Outcomes
  <2>. QED
    BY <1>2, <2>1, <2>2 DEF TimerChecked, Ready
<1>. QED
  BY <1>1, <1>2

(* A step that neither dispatches nor touches an await that matters.        *)
LEMMA TrackQuiet ==
    ASSUME TypeOK, TrackInv, UNCHANGED <<execStatus, awaiting>>,
           known \subseteq known', running' \subseteq running, completed' \subseteq completed,
           \A x \in Execs : inflight'[x] # "absent" \/ inflight[x] = "absent" \/ Decided(x)
    PROVE  TrackInv'
<1>1. \A x \in Execs : SameFor(x)
  BY DEF SameFor
<1>. QED
  BY <1>1, TrackSame DEF TrackInv

LEMMA OutputTracks ==
    ASSUME TypeOK, TrackInv, NEW T, OutputFor(T)
    PROVE  TrackInv'
<1>1. /\ UNCHANGED <<execStatus, known, running, awaiting, completed>>
      /\ \A x \in Execs : inflight'[x] = inflight[x] \/ inflight'[x] = "idle"
  BY DEF OutputFor, ClearTimer, TypeOK, dbVars, stateVars
<1>. QED
  BY <1>1, TrackQuiet

(* An outcome comes for e, which is under way.                              *)
LEMMA OutcomeTracks ==
    ASSUME TypeOK, TrackInv, NEW e \in Execs, UnderWay(e), NEW ok \in BOOLEAN,
           NEW a, a.op \in LookupOps,
           \/ awaiting' = With(awaiting, {At(FinalOp(ok), e)})
           \/ awaiting' = With(Without(a), {At(FinalOp(ok), e)}),
           completed' = completed \cup {e}, UNCHANGED <<execStatus, known, running>>,
           \A x \in Execs \ {e} : inflight'[x] = inflight[x]
    PROVE  TrackInv'
<1>. DEFINE s == At(FinalOp(ok), e)
<1>1. s.op \in {"succeed", "fail"} /\ s.exec = e
  BY DEF At, FinalOp
<1>2. Swaps(a, {s}) /\ s \in BagToSet(awaiting')
  BY WithBag, WithoutBag DEF Swaps, TypeOK
<1>. HIDE DEF s
<1>3. Suspended(e, Outcomes)'
  BY <1>1, <1>2 DEF Suspended, Outcomes
<1>4. a.op \notin TrackOps
  BY DEF LookupOps, TrackOps, Outcomes
<1>5. a.op \notin Outcomes
  BY <1>4 DEF TrackOps
<1>6. Repeats(JobOf[e]) \/ execStatus[e] \in {"RUNNING", "SUCCESS", "FAILED"}
  BY StatusUnderWay DEF Recordable
<1>. QED
  BY <1>1, <1>2, <1>3, <1>4, <1>5, <1>6, TrackExec

LEMMA CompletionTracks ==
    ASSUME TypeOK, Phases, TrackInv, NEW T, NEW ok \in BOOLEAN, CompletionFor(T, ok),
           \A x \in T : x \in Execs /\ inflight[x] # "absent"
    PROVE  TrackInv'
<1>1. PICK x \in T : /\ ClearTimer(x) /\ completed' = completed \cup {x}
                     /\ awaiting' = With(awaiting, {At(FinalOp(ok), x)})
  BY DEF CompletionFor
<1>2. x \in Execs /\ UnderWay(x) /\ UNCHANGED <<execStatus, known, running>>
  BY TargetUnderWay DEF CompletionFor, dbVars, stateVars
<1>3. \A y \in Execs \ {x} : inflight'[y] = inflight[y]
  BY <1>1 DEF ClearTimer, TypeOK
<1>4. PICK a : a.op \in LookupOps
  <2>1. Now("lookupFail", x).op = "lookupFail"
    BY DEF Now
  <2>. QED
    BY <2>1 DEF LookupOps
<1>. QED
  BY <1>1, <1>2, <1>3, <1>4, OutcomeTracks

LEMMA AnswerTracks ==
    ASSUME TypeOK, Phases, TrackInv, NEW e \in Execs,
           \/ AgentOutput(e) \/ AnswerLost(e) \/ ForgetCompleted(e)
           \/ \E ok \in BOOLEAN : AgentAnswer(e, ok) \/ LookedUp(e, ok)
    PROVE  TrackInv'
<1>1. CASE AgentOutput(e)
  BY <1>1, OutputTracks DEF AgentOutput
<1>2. CASE AnswerLost(e) \/ ForgetCompleted(e)
  BY <1>2, TrackQuiet DEF AnswerLost, ForgetCompleted, dbVars, stateVars, flightVars
<1>4. ASSUME NEW ok \in BOOLEAN, AgentAnswer(e, ok) PROVE TrackInv'
  <2>1. CASE Target(e) # {}
    BY <1>4, <2>1, TargetInflight, CompletionTracks DEF AgentAnswer
  <2>2. CASE Target(e) = {}
    <3>. DEFINE s == Now(IF ok THEN "lookupSucceed" ELSE "lookupFail", e)
    <3>1. s.op \in LookupOps /\ s.exec = e /\ Swaps(s, {s})
      BY <1>4, <2>2 DEF AgentAnswer, Now, LookupOps, Swaps
    <3>2. s.op \notin TrackOps
      BY <3>1 DEF LookupOps, TrackOps, Outcomes
    <3>3. UNCHANGED <<execStatus, known, running, inflight, completed>>
      BY <1>4, <2>2 DEF AgentAnswer, dbVars, stateVars, flightVars
    <3>. HIDE DEF s
    <3>. QED
      BY <3>1, <3>2, <3>3, TrackExec DEF TrackOps
  <2>. QED
    BY <2>1, <2>2
<1>5. ASSUME NEW ok \in BOOLEAN, LookedUp(e, ok) PROVE TrackInv'
  <2>1. PICK o \in LookupOps : /\ BagIn(Now(o, e), awaiting)
                               /\ awaiting' = With(Without(Now(o, e)), {At(FinalOp(ok), e)})
    BY <1>5 DEF LookedUp, Ready, LookupOps
  <2>2. UnderWay(e)
    <3>1. Now(o, e) \in OfExec(e)
      BY <2>1, ExecAwaitRecs, OfExecRecs DEF BagIn
    <3>2. Now(o, e) \notin {At("run", e), At("offline", e), Now("run", e)}
      BY DEF Now, At, LookupOps
    <3>. QED
      BY <3>1, <3>2, PhaseOfAwait
  <2>3. UNCHANGED <<execStatus, known, running, inflight>> /\ completed' = completed \cup {e}
    BY <1>5 DEF LookedUp, dbVars, stateVars
  <2>4. Now(o, e).op \in LookupOps
    BY DEF Now
  <2>. QED
    BY <2>1, <2>2, <2>3, <2>4, OutcomeTracks
<1>. QED
  BY <1>1, <1>2, <1>4, <1>5


LEMMA InteractiveTracks ==
    ASSUME TypeOK, Phases, TrackInv, NEW m,
           InteractiveOutput(m) \/ \E ok \in BOOLEAN : InteractiveAnswer(m, ok)
    PROVE  TrackInv'
<1>1. CASE InteractiveOutput(m)
  BY <1>1, OutputTracks DEF InteractiveOutput
<1>2. ASSUME NEW ok \in BOOLEAN, InteractiveAnswer(m, ok) PROVE TrackInv'
  BY <1>2, TargetInflight, CompletionTracks DEF InteractiveAnswer
<1>. QED
  BY <1>1, <1>2

LEMMA ConnectionTracks ==
    ASSUME TypeOK, TrackInv, NEW m, AgentConnect(m) \/ AgentDisconnect(m)
    PROVE  TrackInv'
<1>1. CASE AgentConnect(m)
  BY <1>1, TrackQuiet DEF AgentConnect, dbVars, stateVars, flightVars
<1>2. CASE AgentDisconnect(m)
  <2>1. PICK sends, dead : SendsClose(sends, dead)
    BY <1>2, ClosedSends
  <2>2. \A a : a.op \in TrackOps => a \notin sends /\ a \notin dead
    BY <2>1 DEF SendsClose, Now, TrackOps, Outcomes
  <2>3. \A x \in Execs : SameFor(x)
    BY <2>1, <2>2 DEF SendsClose, SameFor
  <2>4. UNCHANGED <<execStatus, known, running, completed>>
    BY <1>2 DEF AgentDisconnect, dbVars, stateVars
  <2>5. ASSUME NEW x \in Execs PROVE inflight'[x] # "absent" \/ inflight[x] = "absent" \/ Decided(x)
    BY <1>2 DEF AgentDisconnect, Decided
  <2>. QED
    BY <2>3, <2>4, <2>5, TrackSame DEF TrackInv
<1>. QED
  BY <1>1, <1>2

LEMMA RestartTracks ==
    ASSUME ServerRestart
    PROVE  TrackInv'
<1>1. \A x \in Execs : Tracked(x)'
  BY DEF ServerRestart, Tracked
<1>. QED
  BY <1>1, TracksPrime DEF TrackInv

(* A step of a job that dispatches nothing.                                 *)
LEMMA TrackJob ==
    ASSUME TypeOK, TrackInv, UNCHANGED <<execStatus, inflight, completed>>,
           \A x \in running' : x \in running /\ (JobOf[x] \in known => JobOf[x] \in known'),
           NEW a, NEW S, Swaps(a, S), a.op \in NotExec, \A s \in S : s.op \in NotExec
    PROVE  TrackInv'
<1>1. NotExec \cap TrackOps = {} /\ IsABag(awaiting)
  BY DEF NotExec, TrackOps, Outcomes, TypeOK
<1>2. \A x \in Execs : SameFor(x)
  BY <1>1, SwapKeepsFor
<1>. QED
  BY <1>2, TrackSame DEF TrackInv

LEMMA RemainingSwaps ==
    ASSUME NEW j, NEW a, AbortRemaining(j, awaiting) \/ AbortRemaining(j, Without(a))
    PROVE  \E S : Swaps(a, S) /\ \A s \in S : s.op \in NotExec
<1>. DEFINE s == [op |-> "skip", job |-> j, ids |-> PendingIds(j), db |-> "issued"]
<1>1. s.op \in NotExec
  BY DEF NotExec
<1>2. Swaps(a, {s})
  BY DEF AbortRemaining, Swaps
<1>. HIDE DEF s
<1>. QED
  BY <1>1, <1>2

LEMMA RemainingTracks ==
    ASSUME TypeOK, TrackInv, NEW j, NEW a, a.op \in NotExec,
           AbortRemaining(j, awaiting) \/ AbortRemaining(j, Without(a)),
           UNCHANGED <<execStatus, known, running, inflight, completed>>
    PROVE  TrackInv'
<1>1. PICK S : Swaps(a, S) /\ \A s \in S : s.op \in NotExec
  BY RemainingSwaps
<1>. QED
  BY <1>1, TrackJob

(* The steps of a job that dispatch nothing.                                *)
JobQuietStep(j) ==
    \/ CreateJob(j) \/ StartJob(j) \/ JobTallied(j) \/ JobFinished(j)
    \/ RemainingSkipped(j) \/ AbortJob(j)

LEMMA JobSwaps ==
    ASSUME NEW j \in Jobs, JobQuietStep(j)
    PROVE  \E a, S : Swaps(a, S) /\ a.op \in NotExec /\ \A s \in S : s.op \in NotExec
<1>0. JobAt("start", j).op \in NotExec /\ JobAt("abort", j).op \in NotExec
  BY DEF JobAt, NotExec
<1>1. CASE CreateJob(j)
  <2>. DEFINE s == [op |-> "create", job |-> j, db |-> "done"]
  <2>1. Swaps(s, {s}) /\ s.op \in NotExec
    BY <1>1 DEF CreateJob, Swaps, NotExec
  <2>. HIDE DEF s
  <2>. QED
    BY <2>1
<1>2. CASE StartJob(j)
  <2>. DEFINE a == [op |-> "create", job |-> j, db |-> "done"]
  <2>1. Swaps(a, {JobAt("start", j)}) /\ a.op \in NotExec
    BY <1>2 DEF StartJob, Swaps, NotExec
  <2>. HIDE DEF a
  <2>. QED
    BY <1>0, <2>1
<1>3. CASE JobTallied(j)
  <2>1. PICK v \in {"SUCCESS", "FAILED"} :
           awaiting' = With(Without([op |-> "tally", job |-> j, db |-> v]),
                  {[op |-> "finish", job |-> j, db |-> "issued",
                    status |-> IF j \in aborted THEN "ABORTED" ELSE v]})
    BY <1>3 DEF JobTallied
  <2>. DEFINE a == [op |-> "tally", job |-> j, db |-> v]
              s == [op |-> "finish", job |-> j, db |-> "issued",
                    status |-> IF j \in aborted THEN "ABORTED" ELSE v]
  <2>2. Swaps(a, {s}) /\ a.op \in NotExec /\ s.op \in NotExec
    BY <2>1 DEF Swaps, NotExec
  <2>. HIDE DEF a, s
  <2>. QED
    BY <2>2
<1>4. CASE JobFinished(j)
  <2>1. PICK s \in JobFinal : awaiting' = Without([op |-> "finish", job |-> j, status |-> s, db |-> "done"])
    BY <1>4 DEF JobFinished
  <2>. DEFINE a == [op |-> "finish", job |-> j, status |-> s, db |-> "done"]
  <2>2. Swaps(a, {}) /\ a.op \in NotExec
    BY <2>1 DEF Swaps, NotExec
  <2>. HIDE DEF a
  <2>. QED
    BY <2>2
<1>5. CASE RemainingSkipped(j)
  <2>1. PICK ids \in SUBSET ExecsOf(j) :
          awaiting' = With(Without([op |-> "skip", job |-> j, ids |-> ids, db |-> "done"]), {JobAt("abort", j)})
    BY <1>5 DEF RemainingSkipped
  <2>. DEFINE a == [op |-> "skip", job |-> j, ids |-> ids, db |-> "done"]
  <2>2. Swaps(a, {JobAt("abort", j)}) /\ a.op \in NotExec
    BY <2>1 DEF Swaps, NotExec
  <2>. HIDE DEF a
  <2>. QED
    BY <1>0, <2>2
<1>6. CASE AbortJob(j)
  <2>2. CASE j \in known
    BY <1>0, <1>6, <2>2, RemainingSwaps DEF AbortJob
  <2>3. CASE j \notin known
    <3>1. Swaps(JobAt("abort", j), {JobAt("abort", j)})
      BY <1>6, <2>3 DEF AbortJob, Swaps
    <3>. QED
      BY <1>0, <3>1
  <2>. QED
    BY <2>2, <2>3
<1>. QED
  BY <1>1, <1>2, <1>3, <1>4, <1>5, <1>6 DEF JobQuietStep

LEMMA JobTracks ==
    ASSUME TypeOK, TrackInv, NEW j \in Jobs, JobQuietStep(j)
    PROVE  TrackInv'
<1>1. UNCHANGED <<execStatus, inflight, completed>>
  BY DEF JobQuietStep, CreateJob, StartJob, JobTallied, JobFinished, RemainingSkipped, AbortJob,
         dbVars, flightVars
<1>2. \A x \in running' : x \in running /\ (JobOf[x] \in known => JobOf[x] \in known')
  BY DEF JobQuietStep, CreateJob, StartJob, JobTallied, JobFinished, RemainingSkipped, AbortJob,
         stateVars, ExecsOf, TypeOK
<1>. QED
  BY <1>1, <1>2, JobSwaps, TrackJob

(* A dispatch puts the executions into slots whose machines are online, and *)
(* only changes the awaits of those it dispatches.                          *)
LEMMA DispatchRuns ==
    ASSUME NEW es \in SUBSET Execs, NEW run, NEW bag, IsABag(bag), NEW T,
           \A t \in T : t.op \notin TrackOps, Dispatch(es, run, bag, T), NEW x \in Execs
    PROVE  /\ x \in es /\ x \in running' =>
                \/ x \in run
                \/ \A a : a.op \in TrackOps /\ a.exec = x =>
                             (a \in BagToSet(awaiting') <=> a \in BagToSet(bag) \/ a = At("run", x))
           /\ x \notin es =>
                /\ x \in running' => x \in run
                /\ \A a : a.op \in TrackOps /\ a.exec = x =>
                             (a \in BagToSet(awaiting') <=> a \in BagToSet(bag))
<1>. DEFINE on == {e \in es : MachineOf[e] \in online}
            N == {At("offline", e) : e \in es \ on} \cup {At("run", e) : e \in on} \cup T
<1>1. running' = run \cup on /\ BagToSet(awaiting') = BagToSet(bag) \cup N
  BY WithBag DEF Dispatch
<1>2. \A e : \A o \in {"run", "offline"} : At(o, e).op = o /\ At(o, e).exec = e
  BY DEF At
<1>3. ASSUME x \in on, NEW a, a.op \in TrackOps, a.exec = x
      PROVE  a \in N <=> a = At("run", x)
  BY <1>2, <1>3
<1>4. ASSUME x \notin es, NEW a, a.op \in TrackOps, a.exec = x
      PROVE  a \notin N
  BY <1>2, <1>4
<1>5. x \in on => x \in es
  OBVIOUS
<1>. HIDE DEF N
<1>6. x \in es /\ x \in running' => x \in run \/ x \in on
  BY <1>1
<1>7. x \notin es => (x \in running' => x \in run)
  BY <1>1
<1>. HIDE DEF on
<1>. QED
  BY <1>1, <1>3, <1>4, <1>5, <1>6, <1>7

(* A dispatch of what is fresh in a job; the slot of those in F is free.    *)
LEMMA TrackDispatch ==
    ASSUME TypeOK, TrackInv, NEW j \in Jobs, NEW es \in SUBSET ExecsOf(j),
           \A x \in es : Fresh(x) \/ Repeats(j), es = {} \/ Active(j),
           NEW F \in SUBSET Execs, NEW run \in SUBSET running,
           \A x \in F : (x \notin run \/ Repeats(JobOf[x])) /\ ~ Fresh(x),
           NEW a, a.op \in TrackOps => a.exec \in F, NEW T, \A t \in T : t.op \notin TrackOps,
           Dispatch(es, run, Without(a), T), UNCHANGED <<execStatus, known, completed>>,
           \A x \in Execs \ F : inflight'[x] = inflight[x]
    PROVE  TrackInv'
<1>0. /\ IsABag(awaiting) /\ IsABag(Without(a))
      /\ \A b : b # a => (b \in BagToSet(Without(a)) <=> b \in BagToSet(awaiting))
      /\ es \in SUBSET Execs /\ \A x \in es : JobOf[x] = j /\ (x \notin F \/ Repeats(j))
  BY WithoutBag, WithoutCopies DEF TypeOK, ExecsOf
<1>1. ASSUME NEW x \in F, ~ Repeats(JobOf[x]) PROVE Tracked(x)'
  <2>1. x \in Execs /\ x \notin es /\ x \notin run /\ Tracked(x)
    BY <1>0, <1>1 DEF TrackInv, Tracks
  <2>2. x \notin es => (x \in running' => x \in run)
    BY <1>0, <2>1, DispatchRuns
  <2>. QED
    BY <1>1, <2>1, <2>2 DEF Tracked
<1>2. ASSUME NEW x \in es, ~ Repeats(JobOf[x]) PROVE Tracked(x)'
  <2>0. Fresh(x) /\ Tracked(x)
    BY <1>0, <1>2 DEF TrackInv, Tracks
  <2>1. /\ x \notin running /\ x \notin completed
        /\ execStatus[x] \in {"PENDING", "SKIPPED"} /\ OfExec(x) = {}
    BY <2>0 DEF Fresh, Tracked
  <2>2. ASSUME x \in running'
        PROVE  \A b : b.op \in TrackOps /\ b.exec = x => (b \in BagToSet(awaiting') <=> b = At("run", x))
    <3>1. \A b : b.op \in TrackOps /\ b.exec = x => b \notin BagToSet(awaiting)
      BY <2>1 DEF OfExec, TrackOps, Outcomes, ExecOps, WriteOps
    <3>2. \A b : b.op \in TrackOps /\ b.exec = x => b \notin BagToSet(Without(a))
      BY <1>0, <3>1, WithoutBag
    <3>. QED
      BY <1>0, <2>1, <2>2, <3>2, DispatchRuns
  <2>3. At("run", x).op = "run" /\ At("run", x).exec = x
    BY DEF At
  <2>4. ASSUME x \in running'
        PROVE  /\ Suspended(x, {"run"} \cup Outcomes)' /\ ~ Suspended(x, {"offline", "sendFailed"})'
               /\ ~ Decided(x)'
    BY <2>1, <2>2, <2>3, <2>4 DEF Suspended, Decided, TrackOps
  <2>5. x \in running' => JobOf[x] \in known'
    BY <1>0 DEF Active
  <2>. QED
    BY <2>1, <2>4, <2>5 DEF Tracked
<1>3. ASSUME NEW x \in Execs \ (F \cup es) PROVE Tracks(x)'
  <2>0. IsABag(Without(a)) /\ es \in SUBSET Execs /\ x \in Execs /\ x \notin es
    BY <1>0, <1>3
  <2>1. /\ x \in running' => x \in run
        /\ \A b : b.op \in TrackOps /\ b.exec = x =>
                     (b \in BagToSet(awaiting') <=> b \in BagToSet(Without(a)))
    BY <2>0, DispatchRuns
  <2>2. SameFor(x)
    BY <1>0, <2>1 DEF SameFor
  <2>. QED
    BY <2>1, <2>2, TrackSame DEF TrackInv
<1>. QED
  BY <1>1, <1>2, <1>3, TracksPrime DEF TrackInv

LEMMA FinishTracks ==
    ASSUME JobAssumption, IInv, TrackInv, NEW e \in Execs,
           DispatchFailed(e) \/ ExecutionCompleted(e) \/ ExecutionTimedOut(e)
    PROVE  TrackInv'
<1>. DEFINE j == JobOf[e]
<1>0. TypeOK /\ j \in Jobs
  BY DEF IInv, JobAssumption
<1>1. PICK a, T, es, run :
         /\ es \in SUBSET ExecsOf(j) /\ run \in SUBSET running
         /\ a.exec = e /\ ~ Fresh(e)
         /\ Dispatch(es, run, Without(a), T) /\ (e \in run => j \notin known)
         /\ es = {} \/ Active(j)
         /\ \A t \in T : t.op \in {"tally", "evaluate"}
         /\ \A x \in es : Fresh(x) \/ Repeats(j)
  <2>1. PICK a, T : \E es \in SUBSET (queue \cap ExecsOf(JobOf[e])), run \in SUBSET running :
         /\ a \in BagToSet(awaiting) /\ a.op \in WriteOps /\ a.exec = e /\ UnderWay(e) /\ ~ Fresh(e)
         /\ Dispatch(es, run, Without(a), T) /\ (e \in run => JobOf[e] \notin known)
         /\ es = {} \/ (Active(JobOf[e]) /\ Mode[JobOf[e]] = "parallel")
         /\ \A t \in T : t.op = "tally" \/ (t.op = "evaluate" /\ t.job = JobOf[e])
         /\ \A x \in es : Fresh(x)
    BY FinishedDispatches
  <2>. QED
    BY <2>1
<1>2. \A t \in T : t.op \notin TrackOps
  BY <1>1 DEF TrackOps, Outcomes
<1>3. UNCHANGED <<execStatus, known, completed>>
  BY DEF DispatchFailed, ExecutionCompleted, ExecutionTimedOut, dbVars, flightVars
<1>4. \A x \in Execs \ {e} : inflight'[x] = inflight[x]
  BY <1>0 DEF DispatchFailed, ExecutionCompleted, ExecutionTimedOut, InflightDelete, TypeOK, flightVars
<1>5. e \notin run \/ Repeats(JobOf[e])
  BY <1>1 DEF TrackInv, Tracks, Tracked
<1>6. {e} \in SUBSET Execs /\ \A x \in {e} : (x \notin run \/ Repeats(JobOf[x])) /\ ~ Fresh(x)
  BY <1>1, <1>5
<1>. HIDE DEF j
<1>. QED
  BY <1>0, <1>1, <1>2, <1>3, <1>4, <1>6, TrackDispatch

(* A dispatch that frees no slot.                                           *)
LEMMA TrackNewWave ==
    ASSUME TypeOK, TrackInv, NEW j \in Jobs, NEW es \in SUBSET ExecsOf(j),
           \A x \in es : Fresh(x) \/ Repeats(j), es = {} \/ Active(j),
           NEW a, a.op \notin TrackOps, NEW T, \A t \in T : t.op \notin TrackOps,
           Dispatch(es, running, Without(a), T), UNCHANGED <<execStatus, known, completed, inflight>>
    PROVE  TrackInv'
<1>1. /\ {} \in SUBSET Execs /\ running \in SUBSET running
      /\ \A x \in {} : (x \notin running \/ Repeats(JobOf[x])) /\ ~ Fresh(x)
  OBVIOUS
<1>. QED
  BY <1>1, TrackDispatch

LEMMA StartedTracks ==
    ASSUME JobAssumption, IInv, TrackInv, NEW j \in Jobs, JobStarted(j)
    PROVE  TrackInv'
<1>0. TypeOK /\ StartsOnce
  BY DEF IInv, DispatchedOnce
<1>1. PICK a, T : \E es \in SUBSET ExecsOf(j) :
         /\ a \in BagToSet(awaiting) /\ a \in StartRecs(j) /\ a.op = "start" /\ a.job = j
         /\ Dispatch(es, running, Without(a), T) /\ (es = {} \/ Active(j))
         /\ Mode[j] = "rolling" => \A x \in es : BatchOf[x] = currentBatch[j]
         /\ \A t \in T : t.op = "tally"
         /\ \A x \in es : Fresh(x)
  BY <1>0, JobStartedDispatches
<1>2. a.op \notin TrackOps /\ \A t \in T : t.op \notin TrackOps
  BY <1>1 DEF TrackOps, Outcomes
<1>3. UNCHANGED <<execStatus, known, completed, inflight>>
  BY DEF JobStarted, dbVars, flightVars
<1>. QED
  BY <1>0, <1>1, <1>2, <1>3, TrackNewWave

LEMMA EvaluatedTracks ==
    ASSUME JobAssumption, IInv, TrackInv, NEW j \in Jobs, BatchEvaluated(j)
    PROVE  TrackInv'
<1>0. TypeOK
  BY DEF IInv
<1>1. PICK a :
        /\ a \in BagToSet(awaiting) /\ a.op = "evaluate" /\ a.job = j
        /\ \/ AbortRemaining(j, Without(a)) /\ UNCHANGED <<queue, running, currentBatch>>
           \/ /\ currentBatch' = [currentBatch EXCEPT ![j] = NextBatch(j)]
              /\ UNCHANGED aborted
              /\ \E es \in SUBSET Wave(j, NextBatch(j)) : \E T :
                 /\ Waits(j, es)
                 /\ Dispatch(es, running, Without(a), T) /\ (es = {} \/ Active(j))
                 /\ \A t \in T : t.op = "tally"
                 /\ \A x \in es : Fresh(x)
  BY BatchEvaluatedDispatches
<1>2. UNCHANGED <<execStatus, known, completed, inflight>>
  BY DEF BatchEvaluated, dbVars, flightVars
<1>3. a.op \in NotExec /\ a.op \notin TrackOps
  BY <1>1 DEF NotExec, TrackOps, Outcomes
<1>4. CASE AbortRemaining(j, Without(a)) /\ UNCHANGED <<queue, running, currentBatch>>
  BY <1>0, <1>2, <1>3, <1>4, RemainingTracks
<1>5. ASSUME NEW es \in SUBSET Wave(j, NextBatch(j)), NEW T,
             Dispatch(es, running, Without(a), T), es = {} \/ Active(j),
             \A t \in T : t.op = "tally", \A x \in es : Fresh(x)
      PROVE  TrackInv'
  <2>1. es \in SUBSET ExecsOf(j) /\ \A t \in T : t.op \notin TrackOps
    BY <1>5 DEF Wave, TrackOps, Outcomes
  <2>. QED
    BY <1>0, <1>2, <1>3, <1>5, <2>1, TrackNewWave
<1>. QED
  BY <1>1, <1>4, <1>5

LEMMA PauseOverTracks ==
    ASSUME JobAssumption, IInv, TrackInv, NEW j \in Jobs, PauseOver(j)
    PROVE  TrackInv'
<1>0. TypeOK
  BY DEF IInv
<1>1. PICK es, T :
         /\ es \in SUBSET Wave(j, currentBatch[j])
         /\ Dispatch(es, running, awaiting, T) /\ (es = {} \/ Active(j))
         /\ \A t \in T : t.op = "tally"
         /\ \A x \in es : Fresh(x) \/ Repeats(j)
  BY PauseOverDispatches
<1>2. PICK a : a.op = "pause" /\ Without(a) = awaiting
  BY <1>0, NothingRemoved
<1>3. /\ es \in SUBSET ExecsOf(j) /\ a.op \notin TrackOps /\ \A t \in T : t.op \notin TrackOps
      /\ Dispatch(es, running, Without(a), T)
  BY <1>1, <1>2 DEF Wave, TrackOps, Outcomes
<1>4. UNCHANGED <<execStatus, known, completed, inflight>>
  BY DEF PauseOver, dbVars, flightVars
<1>. QED
  BY <1>0, <1>1, <1>3, <1>4, TrackNewWave

-----------------------------------------------------------------------------
(* The database.                                                            *)

LEMMA DbTracks ==
    ASSUME IInv, TrackInv, DbStep
    PROVE  TrackInv'
<1>0. TypeOK /\ Phases /\ SkipsAreFresh /\ IsABag(awaiting)
  BY DEF IInv, DispatchedOnce, TypeOK
<1>1. PICK a \in BagToSet(awaiting) :
        /\ a.db = "issued"
        /\ DbWriteExecution(a) \/ DbSkip(a) \/ DbWriteJob(a) \/ DbRead(a)
  BY DEF DbStep
<1>2. UNCHANGED <<known, running, inflight, completed>>
  BY DEF DbStep, stateVars, flightVars
<1>3. CASE DbWriteExecution(a)
  <2>1. PICK e \in Execs, o \in WriteOps :
           a = At(o, e) /\ \A v : [a EXCEPT !.db = v] = [op |-> o, exec |-> e, db |-> v]
    BY <1>0, <1>1, <1>3, AnsweredExec DEF DbWriteExecution
  <2>. DEFINE s == Now(o, e)
  <2>2. /\ a.op = o /\ a.exec = e /\ s.op = o /\ s.exec = e /\ s.db = "done"
        /\ awaiting' = With(Without(a), {s}) /\ execStatus' = [execStatus EXCEPT ![e] = Written(o)]
    BY <1>3, <2>1 DEF At, Now, DbWriteExecution, Answered
  <2>. HIDE DEF s
  <2>3. /\ \A b \in BagToSet(awaiting') : b \in BagToSet(awaiting) \/ b = s
        /\ \A b \in BagToSet(awaiting) : b # a => b \in BagToSet(awaiting')
        /\ s \in BagToSet(awaiting') /\ Swaps(a, {s})
    BY <1>0, <2>2, SwapBounds, WithBag, WithoutBag DEF Swaps
  <2>4. \A O : Suspended(e, O)' <=> Suspended(e, O)
    BY <1>1, <2>2, <2>3 DEF Suspended
  <2>5. (\E b \in BagToSet(awaiting') : b.op = "check" /\ b.exec = e /\ b.db = "final")
           => (\E b \in BagToSet(awaiting) : b.op = "check" /\ b.exec = e /\ b.db = "final")
    BY <2>2, <2>3
  <2>6. Suspended(e, {o})
    BY <1>1, <2>2 DEF Suspended
  <2>7. execStatus'[e] = Written(o)
    BY <1>0, <2>2 DEF TypeOK
  <2>8. ASSUME ~ Repeats(JobOf[e]) PROVE Tracked(e)'
    <3>0. Tracked(e)
      BY <2>8 DEF TrackInv, Tracks
    <3>1. ASSUME e \in completed' PROVE execStatus'[e] \in {"RUNNING", "SUCCESS", "FAILED"}
      BY <2>7 DEF Written, WriteOps
    <3>2. ASSUME e \in running', Decided(e)' PROVE Suspended(e, Outcomes)'
      <4>1. CASE o \in Outcomes
        BY <2>4, <2>6, <4>1 DEF Suspended
      <4>2. CASE o = "run"
        <5>1. Decided(e)
          BY <1>2, <2>5, <2>7, <3>2, <4>2 DEF Decided, Written
        <5>. QED
          BY <1>2, <2>4, <3>0, <3>2, <5>1 DEF Tracked
      <4>3. CASE o \in {"offline", "sendFailed"}
        <5>1. Suspended(e, {"offline", "sendFailed"})
          BY <2>6, <4>3 DEF Suspended
        <5>. QED
          BY <1>2, <3>0, <3>2, <5>1 DEF Tracked
      <4>. QED
        BY <4>1, <4>2, <4>3 DEF WriteOps, Outcomes
    <3>. QED
      BY <1>2, <2>4, <3>0, <3>1, <3>2 DEF Tracked
  <2>9. ASSUME NEW x \in Execs \ {e} PROVE Tracks(x)'
    <3>1. SameFor(x)
      BY <1>0, <2>2, <2>3, SwapKeepsFor
    <3>2. execStatus'[x] = execStatus[x]
      BY <1>0, <2>2 DEF TypeOK
    <3>. QED
      BY <1>2, <3>1, <3>2, TrackSame DEF TrackInv
  <2>. QED
    BY <2>8, <2>9, TracksPrime DEF TrackInv
<1>4. CASE DbSkip(a)
  <2>. DEFINE s == [a EXCEPT !.db = "done"]
  <2>1. /\ a.op = "skip" /\ Swaps(a, {s})
        /\ execStatus' = [e \in Execs |-> IF e \in a.ids THEN "SKIPPED" ELSE execStatus[e]]
    BY <1>4 DEF DbSkip, Answered, Swaps
  <2>2. s.op = "skip"
    BY <1>0, <2>1, AnsweredJob
  <2>. HIDE DEF s
  <2>3. \A x \in a.ids : Fresh(x)
    BY <1>0, <1>1, <2>1 DEF SkipsAreFresh
  <2>4. ASSUME NEW x \in Execs PROVE Tracks(x)'
    <3>1. SameFor(x)
      BY <1>0, <2>1, <2>2, SwapKeepsFor DEF TrackOps, Outcomes
    <3>2. CASE x \in a.ids
      <4>1. Tracks(x) /\ Fresh(x)
        BY <2>3, <3>2 DEF TrackInv
      <4>2. ASSUME Tracked(x) PROVE Tracked(x)'
        BY <1>2, <4>1, <4>2 DEF Fresh, Tracked
      <4>. QED
        BY <4>1, <4>2, TracksPrime DEF Tracks
    <3>3. CASE x \notin a.ids
      BY <1>2, <2>1, <3>1, <3>3, TrackSame DEF TrackInv
    <3>. QED
      BY <3>2, <3>3
  <2>. QED
    BY <2>4 DEF TrackInv
<1>5. CASE DbWriteJob(a) \/ (DbRead(a) /\ a.op # "check")
  <2>1. PICK S : Swaps(a, S) /\ \A s \in S : \E v : s = [a EXCEPT !.db = v]
    BY <1>5 DEF DbWriteJob, DbRead, Answered, Swaps
  <2>2. a.op \in {"start", "finish", "abort", "evaluate", "tally"} /\ UNCHANGED execStatus
    BY <1>5 DEF DbWriteJob, DbRead, dbVars
  <2>3. \A s \in S : s.op = a.op
    <3>1. \A v : [a EXCEPT !.db = v].op = a.op
      BY <1>0, <2>2, AnsweredJob
    <3>. QED
      BY <2>1, <3>1
  <2>4. a.op \in NotExec /\ \A s \in S : s.op \in NotExec
    BY <2>2, <2>3 DEF NotExec
  <2>. QED
    BY <1>0, <1>2, <2>1, <2>2, <2>4, TrackJob
<1>6. CASE DbRead(a) /\ a.op = "check"
  <2>1. PICK e, s :
          /\ e \in Execs /\ a.exec = e /\ s.op = "check" /\ s.exec = e /\ Swaps(a, {s})
          /\ s.db = IF execStatus[e] \in {"SUCCESS", "FAILED"} THEN "final" ELSE "open"
    <3>. DEFINE v == IF execStatus[a.exec] \in {"SUCCESS", "FAILED"} THEN "final" ELSE "open"
    <3>1. /\ a.exec \in Execs
          /\ \A w : [a EXCEPT !.db = w].op = "check" /\ [a EXCEPT !.db = w].exec = a.exec
      BY <1>0, <1>6, AnsweredCheck
    <3>2. [a EXCEPT !.db = v].db = v
      BY <1>0, <1>1 DEF TypeOK, Await, ExecAwait, JobAwait
    <3>3. Swaps(a, {[a EXCEPT !.db = v]})
      BY <1>6 DEF DbRead, Answered, Swaps
    <3>. HIDE DEF v
    <3>4. v = IF execStatus[a.exec] \in {"SUCCESS", "FAILED"} THEN "final" ELSE "open"
      BY DEF v
    <3>. QED
      BY <3>1, <3>2, <3>3, <3>4
  <2>2. s.db = "final" => Decided(e)
    BY <2>1 DEF Decided
  <2>3. UNCHANGED execStatus
    BY <1>6 DEF DbRead, dbVars
  <2>. QED
    BY <1>0, <1>2, <1>6, <2>1, <2>2, <2>3, TrackExec DEF Outcomes
<1>. QED
  BY <1>1, <1>3, <1>4, <1>5, <1>6

LEMMA TrackStep ==
    ASSUME JobAssumption, Inv, TrackInv, [Next]_vars
    PROVE  TrackInv'
<1>0. IInv /\ TypeOK /\ Phases
  BY DEF Inv, IInv, LimitInv, DispatchedOnce
<1>1. CASE UNCHANGED vars
  <2>1. UNCHANGED <<execStatus, awaiting, known, running, completed, inflight>>
    BY <1>1 DEF vars, dbVars, stateVars, flightVars
  <2>. QED
    BY <1>0, <2>1, TrackQuiet
<1>2. CASE DbStep
  BY <1>0, <1>2, DbTracks
<1>3. ASSUME NEW j \in Jobs, JobStep(j) PROVE TrackInv'
  BY <1>0, <1>3, JobTracks, StartedTracks, EvaluatedTracks, PauseOverTracks DEF JobStep, JobQuietStep
<1>4. ASSUME NEW e \in Execs, ExecStep(e) PROVE TrackInv'
  BY <1>0, <1>4, SendTracks, FinishTracks, TimerTracks, AnswerTracks DEF ExecStep
<1>5. ASSUME NEW e \in Execs, AgentStep(e) PROVE TrackInv'
  BY <1>0, <1>5, AnswerTracks DEF AgentStep
<1>6. CASE Environment
  BY <1>0, <1>6, JobTracks, AnswerTracks, ConnectionTracks, InteractiveTracks, RestartTracks
     DEF Environment, JobQuietStep
<1>. QED
  BY <1>1, <1>2, <1>3, <1>4, <1>5, <1>6 DEF Next

-----------------------------------------------------------------------------
(* Every slot is given back: on top of TrackInv, a send goes to a socket    *)
(* that was not closed, and a timer that fired has its check suspended.     *)

LeadOps == {"run", "send", "refused"} \cup Outcomes
Lead(b, x) == (b.op \in LeadOps \/ (b.op = "check" /\ b.db # "final")) /\ b.exec = x

SendsAreOpen == \A b \in BagToSet(awaiting) : b.op = "send" => link[MachineOf[b.exec]] # "down"
FiredIsChecked == \A x \in Execs : inflight[x] = "fired" => Suspended(x, {"check", "timedOut"})
SlotInv == SendsAreOpen /\ FiredIsChecked

(* SlotsComeBack for one execution.                                         *)
Returns(x) ==
    x \in running' =>
        \/ Repeats(JobOf[x])
        \/ x \in running /\ (OthersOutput(x) \/ ~ GivesBack(x))
        \/ GivesBack(x)'
SlotStep == SlotInv' /\ \A x \in Execs : Returns(x)

(* What a step does to the awaits: at most a goes, and those of S come.     *)
Exchange(a, S) ==
    /\ BagToSet(awaiting') \subseteq BagToSet(awaiting) \cup S
    /\ \A b \in BagToSet(awaiting) : b # a => b \in BagToSet(awaiting')

LEMMA GivesBackIs ==
    /\ \A x : GivesBack(x) <=> \/ \E b \in BagToSet(awaiting) : Lead(b, x)
                               \/ inflight[x] = "armed"
                               \/ atAgent[x] > 0 /\ link[MachineOf[x]] # "down"
    /\ \A x : GivesBack(x)' <=> \/ \E b \in BagToSet(awaiting') : Lead(b, x)
                                \/ inflight'[x] = "armed"
                                \/ atAgent'[x] > 0 /\ link'[MachineOf[x]] # "down"
<1>1. \A b, x : Lead(b, x) <=>
         /\ \/ b.op \in {"run", "send", "refused", "succeed", "fail", "timedOut"}
            \/ b.op = "check" /\ b.db # "final"
         /\ b.exec = x
  BY DEF Lead, LeadOps, Outcomes
<1>. QED
  BY <1>1 DEF GivesBack

(* An execution the step does not concern keeps what leads to its release;  *)
(* one that takes a slot is about to be marked as running.                  *)
LEMMA SlotSame ==
    ASSUME NEW x \in Execs, \A b \in BagToSet(awaiting) : Lead(b, x) => b \in BagToSet(awaiting'),
           inflight[x] = "armed" => inflight'[x] = "armed",
           atAgent'[x] = atAgent[x],
           link[MachineOf[x]] # "down" => link'[MachineOf[x]] # "down",
           x \in running' => x \in running \/ At("run", x) \in BagToSet(awaiting')
    PROVE  Returns(x)
<1>1. Lead(At("run", x), x)
  BY DEF Lead, LeadOps, At
<1>. QED
  BY <1>1, GivesBackIs DEF Returns

(* An execution in a slot whose outcome is decided, or which has no entry   *)
(* and no RUNNING mark pending, has its outcome on the way.                 *)
LEMMA TrackedLead ==
    ASSUME TrackInv, NEW x \in Execs, x \in running, ~ Repeats(JobOf[x]),
           Decided(x) \/ inflight[x] = "absent"
    PROVE  \E b \in BagToSet(awaiting) : b.op \in {"run"} \cup Outcomes /\ b.exec = x /\ Lead(b, x)
<1>1. Suspended(x, {"run"} \cup Outcomes) \/ Suspended(x, Outcomes)
  BY DEF TrackInv, Tracks, Tracked
<1>. QED
  BY <1>1 DEF Suspended, Lead, LeadOps

(* A step that leaves connections alone keeps SlotInv.                      *)
LEMMA SlotInvKept ==
    ASSUME SlotInv, NEW a, NEW S, Exchange(a, S), UNCHANGED link,
           \A s \in S : s.op = "send" => link[MachineOf[s.exec]] # "down",
           \A x \in Execs : inflight'[x] = "fired" =>
               \/ Suspended(x, {"check", "timedOut"})'
               \/ inflight[x] = "fired" /\ (a.op \in {"check", "timedOut"} => a.exec # x)
    PROVE  SlotInv'
<1>1. SendsAreOpen'
  BY DEF SlotInv, SendsAreOpen, Exchange
<1>2. ASSUME NEW x \in Execs, inflight'[x] = "fired" PROVE Suspended(x, {"check", "timedOut"})'
  <2>1. CASE inflight[x] = "fired" /\ (a.op \in {"check", "timedOut"} => a.exec # x)
    BY <2>1 DEF SlotInv, FiredIsChecked, Suspended, Exchange
  <2>. QED
    BY <1>2, <2>1
<1>3. FiredIsChecked'
  BY <1>2 DEF FiredIsChecked
<1>. QED
  BY <1>1, <1>3 DEF SlotInv

(* A step on behalf of e.                                                   *)
LEMMA SlotExec ==
    ASSUME SlotInv, NEW e \in Execs, NEW a, NEW S, Exchange(a, S), UNCHANGED link,
           a.op \in LeadOps \cup {"check"} => a.exec = e,
           \A s \in S : s.op = "send" => link[MachineOf[s.exec]] # "down",
           \A x \in Execs \ {e} :
              /\ inflight'[x] = inflight[x] /\ atAgent'[x] = atAgent[x]
              /\ x \in running' => x \in running \/ At("run", x) \in BagToSet(awaiting'),
           inflight'[e] = "fired" => \/ Suspended(e, {"check", "timedOut"})'
                                     \/ inflight[e] = "fired" /\ a.op \notin {"check", "timedOut"},
           Returns(e)
    PROVE  SlotStep
<1>1. \A x \in Execs \ {e} : a.op \in LeadOps \cup {"check"} => a.exec # x
  OBVIOUS
<1>2. SlotInv'
  BY <1>1, SlotInvKept DEF LeadOps, Outcomes
<1>3. ASSUME NEW x \in Execs \ {e} PROVE Returns(x)
  <2>1. \A b \in BagToSet(awaiting) : Lead(b, x) => b \in BagToSet(awaiting')
    BY <1>1, <1>3 DEF Exchange, Lead
  <2>. QED
    BY <2>1, SlotSame
<1>. QED
  BY <1>2, <1>3 DEF SlotStep

(* A step that concerns no execution under way.                             *)
LEMMA SlotQuiet ==
    ASSUME SlotInv, NEW a, NEW S, Exchange(a, S), UNCHANGED <<link, inflight>>,
           a.op \notin LeadOps \cup {"check"}, \A s \in S : s.op # "send",
           \A x \in Execs :
              /\ atAgent'[x] = atAgent[x]
              /\ x \in running' => x \in running \/ At("run", x) \in BagToSet(awaiting')
    PROVE  SlotStep
<1>1. SlotInv'
  BY SlotInvKept DEF LeadOps, Outcomes
<1>2. ASSUME NEW x \in Execs PROVE Returns(x)
  <2>1. \A b \in BagToSet(awaiting) : Lead(b, x) => b \in BagToSet(awaiting')
    BY DEF Exchange, Lead
  <2>. QED
    BY <2>1, SlotSame
<1>. QED
  BY <1>1, <1>2 DEF SlotStep

LEMMA SwapExchange ==
    ASSUME TypeOK, NEW a, NEW S, Swaps(a, S)
    PROVE  Exchange(a, S)
  BY SwapBounds DEF Exchange, TypeOK

LEMMA SwapAdds ==
    ASSUME TypeOK, NEW a, NEW S, awaiting' = With(awaiting, S) \/ awaiting' = With(Without(a), S)
    PROVE  Swaps(a, S) /\ Exchange(a, S) /\ S \subseteq BagToSet(awaiting')
<1>1. IsABag(awaiting) /\ IsABag(Without(a))
  BY WithoutBag DEF TypeOK
<1>2. S \subseteq BagToSet(awaiting')
  BY <1>1, WithBag
<1>3. Swaps(a, S)
  BY DEF Swaps
<1>. QED
  BY <1>2, <1>3, SwapExchange

LEMMA SendSlots ==
    ASSUME TypeOK, SlotInv, NEW e \in Execs,
           StartSending(e) \/ CommandSent(e) \/ CommandSentIntoClosedSocket(e) \/ CommandNotSent(e)
    PROVE  SlotStep
<1>0. \A o : Now(o, e).op = o /\ Now(o, e).exec = e /\ At(o, e).op = o
  BY DEF Now, At
<1>1. CASE StartSending(e)
  <2>1. PICK o \in {"send", "refused"} :
           /\ awaiting' = With(Without(Now("run", e)), {Now(o, e)})
           /\ o = "send" => MachineOf[e] \in online
    BY <1>1 DEF StartSending, Marked
  <2>2. /\ Exchange(Now("run", e), {Now(o, e)}) /\ Now(o, e) \in BagToSet(awaiting')
        /\ o = "send" => link[MachineOf[e]] # "down"
    BY <2>1, SwapAdds DEF online
  <2>3. UNCHANGED <<link, running, atAgent>>
    BY <1>1 DEF StartSending, stateVars, agentVars
  <2>4. inflight'[e] = "idle" /\ \A x \in Execs \ {e} : inflight'[x] = inflight[x]
    BY <1>1 DEF StartSending, InflightSet, TypeOK
  <2>5. Lead(Now(o, e), e)
    BY <1>0 DEF Lead, LeadOps
  <2>6. Returns(e)
    BY <2>2, <2>5, GivesBackIs DEF Returns
  <2>. QED
    BY <1>0, <2>2, <2>3, <2>4, <2>6, SlotExec
<1>2. CASE CommandSent(e)
  <2>1. /\ awaiting' = Without(Now("send", e)) /\ Now("send", e) \in BagToSet(awaiting)
        /\ atAgent' = [atAgent EXCEPT ![e] = @ + 1] /\ UNCHANGED <<link, running, inflight>>
    BY <1>2 DEF CommandSent, Ready, BagIn, stateVars, flightVars
  <2>2. Exchange(Now("send", e), {})
    BY <2>1, SwapExchange DEF Swaps
  <2>3. atAgent'[e] > 0 /\ \A x \in Execs \ {e} : atAgent'[x] = atAgent[x]
    BY <2>1 DEF TypeOK
  <2>4. link'[MachineOf[e]] # "down"
    BY <1>0, <2>1 DEF SlotInv, SendsAreOpen
  <2>5. Returns(e)
    BY <2>3, <2>4, GivesBackIs DEF Returns
  <2>. QED
    BY <1>0, <2>1, <2>2, <2>3, <2>5, SlotExec
<1>3. CASE CommandSentIntoClosedSocket(e)
  <2>1. Swaps(Now("sendClosed", e), {}) /\ UNCHANGED <<link, running, inflight, atAgent>>
    BY <1>3 DEF CommandSentIntoClosedSocket, Swaps, stateVars, flightVars, agentVars
  <2>2. Exchange(Now("sendClosed", e), {}) /\ Now("sendClosed", e).op \notin LeadOps \cup {"check"}
    BY <1>0, <2>1, SwapExchange DEF LeadOps, Outcomes
  <2>. QED
    BY <2>1, <2>2, SlotQuiet
<1>4. CASE CommandNotSent(e)
  <2>1. PICK o \in SendOps : awaiting' = With(Without(Now(o, e)), {At("sendFailed", e)})
    BY <1>4 DEF CommandNotSent
  <2>2. Exchange(Now(o, e), {At("sendFailed", e)}) /\ o \notin {"check", "timedOut"}
    BY <2>1, SwapAdds DEF SendOps
  <2>3. UNCHANGED <<link, inflight, atAgent>> /\ running' = running \ {e}
    BY <1>4 DEF CommandNotSent, flightVars, agentVars
  <2>4. Returns(e)
    BY <2>3 DEF Returns
  <2>. QED
    BY <1>0, <2>2, <2>3, <2>4, SlotExec
<1>. QED
  BY <1>1, <1>2, <1>3, <1>4

LEMMA TimerSlots ==
    ASSUME TypeOK, TrackInv, SlotInv, NEW e \in Execs, TimerFires(e) \/ TimerChecked(e)
    PROVE  SlotStep
<1>1. CASE TimerFires(e)
  <2>. DEFINE c == At("check", e)
  <2>1. c.op = "check" /\ c.exec = e /\ c.db = "issued"
    BY DEF At
  <2>2. UNCHANGED <<link, running, atAgent>>
    BY <1>1 DEF TimerFires, stateVars, agentVars
  <2>3. \A x \in Execs \ {e} : inflight'[x] = inflight[x]
    BY <1>1 DEF TimerFires, TypeOK
  <2>4. CASE e \in completed
    <3>1. awaiting' = awaiting /\ inflight'[e] = "absent"
      BY <1>1, <2>4 DEF TimerFires, ReadsStatus, TypeOK
    <3>2. Returns(e)
      <4>1. Decided(e)
        BY <2>4 DEF Decided
      <4>2. e \in running /\ ~ Repeats(JobOf[e]) => \E b \in BagToSet(awaiting) : Lead(b, e)
        BY <4>1, TrackedLead
      <4>. QED
        BY <2>2, <3>1, <4>2, GivesBackIs DEF Returns
    <3>3. Exchange(c, {})
      BY <3>1 DEF Exchange
    <3>. HIDE DEF c
    <3>. QED
      BY <2>1, <2>2, <2>3, <3>1, <3>2, <3>3, SlotExec
  <2>5. CASE e \notin completed
    <3>1. awaiting' = With(awaiting, {c})
      BY <1>1, <2>5 DEF TimerFires, ReadsStatus
    <3>. HIDE DEF c
    <3>2. Exchange(c, {c}) /\ c \in BagToSet(awaiting')
      BY <3>1, SwapAdds
    <3>3. Returns(e)
      BY <2>1, <3>2, GivesBackIs DEF Returns, Lead
    <3>4. Suspended(e, {"check", "timedOut"})'
      BY <2>1, <3>2 DEF Suspended
    <3>. QED
      BY <2>1, <2>2, <2>3, <3>2, <3>3, <3>4, SlotExec
  <2>. QED
    BY <2>4, <2>5
<1>2. CASE TimerChecked(e)
  <2>0. UNCHANGED <<link, running, atAgent>>
    BY <1>2 DEF TimerChecked, stateVars, agentVars
  <2>1. CASE /\ BagIn([op |-> "check", exec |-> e, db |-> "final"], awaiting)
             /\ InflightDelete(e)
             /\ awaiting' = Without([op |-> "check", exec |-> e, db |-> "final"])
    <3>. DEFINE c == [op |-> "check", exec |-> e, db |-> "final"]
    <3>1. Swaps(c, {}) /\ c.op = "check" /\ c.exec = e
      BY <2>1 DEF Swaps
    <3>2. Decided(e)
      BY <2>1 DEF Decided, BagIn
    <3>3. inflight'[e] = "absent" /\ \A x \in Execs \ {e} : inflight'[x] = inflight[x]
      BY <2>1 DEF InflightDelete, TypeOK
    <3>. HIDE DEF c
    <3>4. Exchange(c, {})
      BY <3>1, SwapExchange
    <3>5. Returns(e)
      <4>1. ASSUME e \in running, ~ Repeats(JobOf[e]) PROVE \E b \in BagToSet(awaiting') : Lead(b, e)
        <5>1. PICK b \in BagToSet(awaiting) : b.op \in {"run"} \cup Outcomes /\ Lead(b, e)
          BY <3>2, <4>1, TrackedLead
        <5>2. b # c
          BY <3>1, <5>1 DEF Outcomes
        <5>. QED
          BY <3>4, <5>1, <5>2 DEF Exchange
      <4>. QED
        BY <2>0, <4>1, GivesBackIs DEF Returns
    <3>. QED
      BY <2>0, <3>1, <3>3, <3>4, <3>5, SlotExec
  <2>2. CASE /\ awaiting' = With(Without([op |-> "check", exec |-> e, db |-> "open"]), {At("timedOut", e)})
             /\ UNCHANGED flightVars
    <3>. DEFINE c == [op |-> "check", exec |-> e, db |-> "open"]
                s == At("timedOut", e)
    <3>1. c.op = "check" /\ c.exec = e /\ s.op = "timedOut" /\ s.exec = e
      BY DEF At
    <3>2. UNCHANGED inflight
      BY <2>2 DEF flightVars
    <3>3. awaiting' = With(Without(c), {s})
      BY <2>2
    <3>. HIDE DEF c, s
    <3>4. Exchange(c, {s}) /\ s \in BagToSet(awaiting')
      BY <3>3, SwapAdds
    <3>5. Returns(e)
      BY <3>1, <3>4, GivesBackIs DEF Returns, Lead, LeadOps, Outcomes
    <3>6. Suspended(e, {"check", "timedOut"})'
      BY <3>1, <3>4 DEF Suspended
    <3>. QED
      BY <2>0, <3>1, <3>2, <3>4, <3>5, <3>6, SlotExec
  <2>. QED
    BY <1>2, <2>1, <2>2 DEF TimerChecked, Ready
<1>. QED
  BY <1>1, <1>2


LEMMA AddedKeeps ==
    ASSUME TypeOK, NEW S, awaiting' = With(awaiting, S)
    PROVE  BagToSet(awaiting) \subseteq BagToSet(awaiting')
  BY WithBag DEF TypeOK

(* A chunk of output: it clears the timer of another execution, or of one   *)
(* whose agent has the command and a connection.                            *)
LEMMA OutputSlots ==
    ASSUME TypeOK, SlotInv, NEW T, OutputFor(T), \A x \in T : x \in Execs,
           \A x \in T : inflight[x] = "armed" /\ inflight'[x] = "idle" =>
                            OthersOutput(x) \/ (atAgent[x] > 0 /\ link[MachineOf[x]] # "down")
    PROVE  SlotStep
<1>1. PICK x \in T : inflight[x] \in {"armed", "fired"} /\ ClearTimer(x)
  BY DEF OutputFor
<1>2. UNCHANGED <<awaiting, link, running, atAgent>>
  BY DEF OutputFor, stateVars, agentVars
<1>3. inflight'[x] = "idle" /\ \A y \in Execs \ {x} : inflight'[y] = inflight[y]
  BY <1>1 DEF ClearTimer, TypeOK
<1>4. Returns(x)
  BY <1>1, <1>2, <1>3, GivesBackIs DEF Returns
<1>5. PICK a : a.op = "pause"
  BY NothingRemoved
<1>6. Exchange(a, {}) /\ a.op \notin LeadOps \cup {"check"}
  BY <1>2, <1>5 DEF Exchange, LeadOps, Outcomes
<1>. QED
  BY <1>1, <1>2, <1>3, <1>4, <1>6, SlotExec

(* A completion message taken for that of x: an outcome is on the way.  The *)
(* execution that really ended is x, or it has no entry.                    *)
LEMMA CompletionSlots ==
    ASSUME TypeOK, TrackInv, SlotInv, NEW T, NEW ok \in BOOLEAN, CompletionFor(T, ok),
           \A x \in T : x \in Execs, UNCHANGED link,
           \A x \in Execs : atAgent'[x] = atAgent[x] \/ inflight[x] = "absent" \/ T = {x}
    PROVE  SlotStep
<1>1. PICK x \in T : ClearTimer(x) /\ awaiting' = With(awaiting, {At(FinalOp(ok), x)})
  BY DEF CompletionFor
<1>. DEFINE s == At(FinalOp(ok), x)
<1>2. s.op \in {"succeed", "fail"} /\ s.exec = x
  BY DEF At, FinalOp
<1>3. awaiting' = With(awaiting, {s})
  BY <1>1
<1>. HIDE DEF s
<1>4. Exchange(s, {s}) /\ s \in BagToSet(awaiting') /\ BagToSet(awaiting) \subseteq BagToSet(awaiting')
  BY <1>3, SwapAdds, AddedKeeps
<1>5. /\ UNCHANGED running /\ x \in Execs
      /\ inflight'[x] = "idle" /\ \A y \in Execs \ {x} : inflight'[y] = inflight[y]
  BY <1>1 DEF CompletionFor, ClearTimer, TypeOK, stateVars
<1>6. SlotInv'
  BY <1>2, <1>4, <1>5, SlotInvKept
<1>7. Returns(x)
  BY <1>2, <1>4, GivesBackIs DEF Returns, Lead, LeadOps, Outcomes
<1>8. ASSUME NEW y \in Execs \ {x} PROVE Returns(y)
  <2>1. CASE atAgent'[y] = atAgent[y]
    BY <1>4, <1>5, <2>1, SlotSame
  <2>2. CASE inflight[y] = "absent"
    <3>1. y \in running /\ ~ Repeats(JobOf[y]) => \E b \in BagToSet(awaiting) : Lead(b, y)
      BY <2>2, TrackedLead
    <3>. QED
      BY <1>4, <1>5, <3>1, GivesBackIs DEF Returns
  <2>. QED
    BY <1>1, <1>8, <2>1, <2>2
<1>. QED
  BY <1>6, <1>7, <1>8 DEF SlotStep

LEMMA AnswerSlots ==
    ASSUME TypeOK, TrackInv, SlotInv, NEW e \in Execs,
           \/ AgentOutput(e) \/ AnswerLost(e) \/ ForgetCompleted(e)
           \/ \E ok \in BOOLEAN : AgentAnswer(e, ok) \/ LookedUp(e, ok)
    PROVE  SlotStep
<1>0. PICK p : p.op = "pause"
  BY NothingRemoved
<1>1. CASE AgentOutput(e)
  <2>1. /\ OutputFor(Target(e)) /\ atAgent[e] > 0 /\ link[MachineOf[e]] # "down"
        /\ \A x \in Target(e) : x \in Execs
    BY <1>1, TargetInflight DEF AgentOutput
  <2>2. \A x \in Execs \ {e} : inflight[x] = "armed" /\ inflight'[x] = "idle" => OthersOutput(x)
    BY <1>1 DEF OthersOutput
  <2>. QED
    BY <2>1, <2>2, OutputSlots
<1>2. CASE AnswerLost(e)
  <2>1. /\ UNCHANGED <<link, running, inflight, awaiting>> /\ link[MachineOf[e]] = "down"
        /\ \A x \in Execs \ {e} : atAgent'[x] = atAgent[x]
    BY <1>2 DEF AnswerLost, stateVars, flightVars, TypeOK
  <2>2. Returns(e)
    BY <2>1, GivesBackIs DEF Returns
  <2>3. Exchange(p, {}) /\ p.op \notin LeadOps \cup {"check", "timedOut"}
    BY <1>0, <2>1 DEF Exchange, LeadOps, Outcomes
  <2>. QED
    BY <2>1, <2>2, <2>3, SlotExec
<1>3. CASE ForgetCompleted(e)
  <2>1. UNCHANGED <<link, running, inflight, awaiting, atAgent>>
    BY <1>3 DEF ForgetCompleted, stateVars, agentVars
  <2>2. Exchange(p, {}) /\ p.op \notin LeadOps \cup {"check"}
    BY <1>0, <2>1 DEF Exchange, LeadOps, Outcomes
  <2>. QED
    BY <2>1, <2>2, SlotQuiet
<1>4. ASSUME NEW ok \in BOOLEAN, AgentAnswer(e, ok) PROVE SlotStep
  <2>1. UNCHANGED link /\ \A x \in Execs \ {e} : atAgent'[x] = atAgent[x]
    BY <1>4 DEF AgentAnswer, TypeOK
  <2>2. CASE Target(e) # {}
    <3>1. inflight[e] = "absent" \/ Target(e) = {e}
      BY DEF Target
    <3>2. CompletionFor(Target(e), ok) /\ \A x \in Target(e) : x \in Execs
      BY <1>4, <2>2, TargetInflight DEF AgentAnswer
    <3>. QED
      BY <2>1, <3>1, <3>2, CompletionSlots
  <2>3. CASE Target(e) = {}
    <3>. DEFINE s == Now(IF ok THEN "lookupSucceed" ELSE "lookupFail", e)
    <3>1. s.op \in LookupOps /\ awaiting' = With(awaiting, {s}) /\ UNCHANGED <<running, inflight>>
      BY <1>4, <2>3 DEF AgentAnswer, Now, LookupOps, stateVars, flightVars
    <3>2. inflight[e] = "absent"
      BY <2>3 DEF Target
    <3>. HIDE DEF s
    <3>3. Exchange(s, {s}) /\ BagToSet(awaiting) \subseteq BagToSet(awaiting')
      BY <3>1, SwapAdds, AddedKeeps
    <3>4. s.op \notin LeadOps \cup {"check", "timedOut"} /\ s.op # "send"
      BY <3>1 DEF LookupOps, LeadOps, Outcomes
    <3>5. Returns(e)
      <4>1. e \in running /\ ~ Repeats(JobOf[e]) => \E b \in BagToSet(awaiting) : Lead(b, e)
        BY <3>2, TrackedLead
      <4>. QED
        BY <3>1, <3>3, <4>1, GivesBackIs DEF Returns
    <3>. QED
      BY <2>1, <3>1, <3>3, <3>4, <3>5, SlotExec
  <2>. QED
    BY <2>2, <2>3
<1>5. ASSUME NEW ok \in BOOLEAN, LookedUp(e, ok) PROVE SlotStep
  <2>1. PICK o \in LookupOps : awaiting' = With(Without(Now(o, e)), {At(FinalOp(ok), e)})
    BY <1>5 DEF LookedUp, LookupOps
  <2>2. Now(o, e).op \notin LeadOps \cup {"check"} /\ At(FinalOp(ok), e).op # "send"
    BY DEF Now, At, FinalOp, LookupOps, LeadOps, Outcomes
  <2>3. UNCHANGED <<link, running, inflight, atAgent>>
    BY <1>5 DEF LookedUp, stateVars, agentVars
  <2>. QED
    BY <2>1, <2>2, <2>3, SwapAdds, SlotQuiet
<1>. QED
  BY <1>1, <1>2, <1>3, <1>4, <1>5

LEMMA InteractiveSlots ==
    ASSUME TypeOK, TrackInv, SlotInv, NEW m,
           InteractiveOutput(m) \/ \E ok \in BOOLEAN : InteractiveAnswer(m, ok)
    PROVE  SlotStep
<1>0. \A x \in Newest(m) : x \in Execs /\ MachineOf[x] = m
  BY DEF Newest
<1>1. CASE InteractiveOutput(m)
  <2>1. OutputFor(Newest(m))
    BY <1>1 DEF InteractiveOutput
  <2>2. \A x \in Newest(m) : inflight[x] = "armed" /\ inflight'[x] = "idle" => OthersOutput(x)
    BY <1>0, <1>1 DEF OthersOutput
  <2>. QED
    BY <1>0, <2>1, <2>2, OutputSlots
<1>2. ASSUME NEW ok \in BOOLEAN, InteractiveAnswer(m, ok) PROVE SlotStep
  <2>1. CompletionFor(Newest(m), ok) /\ UNCHANGED <<link, atAgent>>
    BY <1>2 DEF InteractiveAnswer, agentVars
  <2>. QED
    BY <1>0, <2>1, CompletionSlots
<1>. QED
  BY <1>1, <1>2

LEMMA ConnectionSlots ==
    ASSUME TypeOK, TrackInv, SlotInv, NEW m, AgentConnect(m) \/ AgentDisconnect(m) \/ ServerRestart
    PROVE  SlotStep
<1>1. CASE AgentConnect(m)
  <2>1. UNCHANGED <<awaiting, running, inflight, atAgent>> /\ link' = [link EXCEPT ![m] = "up"]
    BY <1>1 DEF AgentConnect, stateVars, flightVars
  <2>2. \A n : link[n] # "down" => link'[n] # "down"
    BY <2>1 DEF TypeOK
  <2>3. SlotInv'
    BY <2>1, <2>2 DEF SlotInv, SendsAreOpen, FiredIsChecked, Suspended
  <2>4. \A x \in Execs : Returns(x)
    BY <2>1, <2>2, SlotSame
  <2>. QED
    BY <2>3, <2>4 DEF SlotStep
<1>2. CASE AgentDisconnect(m)
  <2>1. PICK sends, dead :
          /\ SendsClose(sends, dead) /\ \A a \in sends : MachineOf[a.exec] = m
          /\ link'[m] = "down" =>
               \A a \in BagToSet(awaiting) :
                  a.op = "send" /\ a.exec \in Execs /\ MachineOf[a.exec] = m => a \in sends
    BY <1>2, ClosedSends
  <2>2. /\ \A a \in sends : a.op = "send" /\ MachineOf[a.exec] = m
        /\ \A a \in dead : a.op = "sendClosed"
        /\ BagToSet(awaiting') = (BagToSet(awaiting) \ sends) \cup dead
    BY <2>1 DEF SendsClose, Now
  <2>3. UNCHANGED <<running, atAgent>> /\ \A n : n # m => link'[n] = link[n]
    <3>1. \E v : link' = [link EXCEPT ![m] = v]
      BY <1>2 DEF AgentDisconnect
    <3>2. \A n : n # m => link'[n] = link[n]
      BY <3>1 DEF TypeOK
    <3>. QED
      BY <1>2, <3>2 DEF AgentDisconnect, stateVars
  <2>4. \A b \in BagToSet(awaiting) : b.op = "send" => b.exec \in Execs
    <3>1. \A b \in Await : b.op = "send" => b.exec \in Execs
      BY DEF Await, ExecAwait, JobAwait, WriteOps
    <3>. QED
      BY <3>1 DEF TypeOK
  <2>5. SendsAreOpen'
    <3>. SUFFICES ASSUME NEW b \in BagToSet(awaiting'), b.op = "send"
                  PROVE  link'[MachineOf[b.exec]] # "down"
      BY DEF SendsAreOpen
    <3>1. b \in BagToSet(awaiting) /\ b \notin sends
      BY <2>2
    <3>2. CASE MachineOf[b.exec] = m
      BY <2>1, <2>4, <3>1, <3>2
    <3>3. CASE MachineOf[b.exec] # m
      BY <2>3, <3>1, <3>3 DEF SlotInv, SendsAreOpen
    <3>. QED
      BY <3>2, <3>3
  <2>6. \A x \in Execs : /\ inflight'[x] = "fired" => inflight[x] = "fired"
                         /\ MachineOf[x] # m => inflight'[x] = inflight[x]
    BY <1>2 DEF AgentDisconnect
  <2>7. FiredIsChecked'
    BY <2>2, <2>6 DEF SlotInv, FiredIsChecked, Suspended
  <2>8. ASSUME NEW x \in Execs PROVE Returns(x)
    <3>1. CASE MachineOf[x] # m
      <4>1. \A b \in BagToSet(awaiting) : Lead(b, x) => b \in BagToSet(awaiting')
        BY <2>2, <3>1 DEF Lead
      <4>. QED
        BY <2>3, <2>6, <3>1, <4>1, SlotSame
    <3>2. CASE MachineOf[x] = m
      <4>1. CASE inflight[x] = "armed"
        <5>1. inflight'[x] = "armed"
          BY <1>2, <4>1 DEF AgentDisconnect
        <5>. QED
          BY <5>1, GivesBackIs DEF Returns
      <4>2. CASE inflight[x] = "idle" /\ x \notin completed
        <5>1. inflight'[x] = "armed"
          BY <1>2, <3>2, <4>2 DEF AgentDisconnect
        <5>. QED
          BY <5>1, GivesBackIs DEF Returns
      <4>3. ASSUME inflight[x] = "absent" \/ x \in completed, x \in running, ~ Repeats(JobOf[x])
            PROVE  GivesBack(x)'
        <5>1. PICK b \in BagToSet(awaiting) : b.op \in {"run"} \cup Outcomes /\ Lead(b, x)
          BY <4>3, TrackedLead DEF Decided
        <5>2. b \in BagToSet(awaiting')
          BY <2>2, <5>1 DEF Outcomes
        <5>. QED
          BY <5>1, <5>2, GivesBackIs
      <4>4. ASSUME inflight[x] = "fired", x \in running, ~ Repeats(JobOf[x])
            PROVE  GivesBack(x)'
        <5>1. PICK b \in BagToSet(awaiting) : b.op \in {"check", "timedOut"} /\ b.exec = x
          BY <4>4 DEF SlotInv, FiredIsChecked, Suspended
        <5>2. CASE Lead(b, x)
          <6>1. b \in BagToSet(awaiting')
            BY <2>2, <5>1
          <6>. QED
            BY <5>2, <6>1, GivesBackIs
        <5>3. CASE ~ Lead(b, x)
          <6>1. Decided(x)
            BY <5>1, <5>3 DEF Lead, LeadOps, Outcomes, Decided
          <6>2. PICK c \in BagToSet(awaiting) : c.op \in {"run"} \cup Outcomes /\ Lead(c, x)
            BY <4>4, <6>1, TrackedLead
          <6>3. c \in BagToSet(awaiting')
            BY <2>2, <6>2 DEF Outcomes
          <6>. QED
            BY <6>2, <6>3, GivesBackIs
        <5>. QED
          BY <5>2, <5>3
      <4>5. inflight[x] \in {"absent", "idle", "armed", "fired"}
        BY DEF TypeOK
      <4>. QED
        BY <2>3, <4>1, <4>2, <4>3, <4>4, <4>5 DEF Returns
    <3>. QED
      BY <3>1, <3>2
  <2>. QED
    BY <2>5, <2>7, <2>8 DEF SlotStep, SlotInv
<1>3. CASE ServerRestart
  <2>1. BagToSet(awaiting') = {} /\ running' = {} /\ \A x \in Execs : inflight'[x] = "absent"
    BY <1>3 DEF ServerRestart, BagToSet, EmptyBag, SetToBag
  <2>. QED
    BY <2>1 DEF SlotStep, SlotInv, SendsAreOpen, FiredIsChecked, Returns
<1>. QED
  BY <1>1, <1>2, <1>3

(* A dispatch: whoever is in a slot afterwards was in one that is kept, or  *)
(* is about to be marked as running.                                        *)
LEMMA DispatchSlots ==
    ASSUME TypeOK, NEW es, NEW run, NEW a, NEW T, \A t \in T : t.op \in NotExec,
           Dispatch(es, run, Without(a), T)
    PROVE  \E N : /\ Exchange(a, N) /\ \A n \in N : n.op # "send"
                  /\ \A x \in running' : x \in run \/ At("run", x) \in BagToSet(awaiting')
<1>. DEFINE on == {e \in es : MachineOf[e] \in online}
            N == {At("offline", e) : e \in es \ on} \cup {At("run", e) : e \in on} \cup T
<1>1. running' = run \cup on /\ awaiting' = With(Without(a), N)
  BY DEF Dispatch
<1>2. \A x \in on : At("run", x) \in N
  OBVIOUS
<1>3. \A n \in N : n.op # "send"
  BY DEF At, NotExec
<1>. HIDE DEF N, on
<1>4. Exchange(a, N) /\ N \subseteq BagToSet(awaiting')
  BY <1>1, SwapAdds
<1>. QED
  BY <1>1, <1>2, <1>3, <1>4

LEMMA NewWaveSlots ==
    ASSUME TypeOK, SlotInv, NEW a, a.op \notin LeadOps \cup {"check"},
           NEW es, NEW T, \A t \in T : t.op \in NotExec,
           Dispatch(es, running, Without(a), T), UNCHANGED <<link, inflight, atAgent>>
    PROVE  SlotStep
<1>1. PICK N : /\ Exchange(a, N) /\ \A n \in N : n.op # "send"
               /\ \A x \in running' : x \in running \/ At("run", x) \in BagToSet(awaiting')
  BY DispatchSlots
<1>. QED
  BY <1>1, SlotQuiet

LEMMA FinishSlots ==
    ASSUME JobAssumption, IInv, TrackInv, SlotInv, NEW e \in Execs,
           DispatchFailed(e) \/ ExecutionCompleted(e) \/ ExecutionTimedOut(e)
    PROVE  SlotStep
<1>0. TypeOK
  BY DEF IInv
<1>1. PICK a, T, es, run :
         /\ run \in SUBSET running /\ a.exec = e
         /\ Dispatch(es, run, Without(a), T) /\ (e \in run => JobOf[e] \notin known)
         /\ \A t \in T : t.op \in NotExec
         /\ a.op \in {"offline", "sendFailed"} \/ inflight'[e] = "absent"
  <2>1. PICK a, T : \E es \in SUBSET (queue \cap ExecsOf(JobOf[e])), run \in SUBSET running :
         /\ a \in BagToSet(awaiting) /\ a.op \in WriteOps /\ a.exec = e /\ UnderWay(e) /\ ~ Fresh(e)
         /\ Dispatch(es, run, Without(a), T) /\ (e \in run => JobOf[e] \notin known)
         /\ es = {} \/ (Active(JobOf[e]) /\ Mode[JobOf[e]] = "parallel")
         /\ \A t \in T : t.op = "tally" \/ (t.op = "evaluate" /\ t.job = JobOf[e])
         /\ \A x \in es : Fresh(x)
         /\ a.db = "done" /\ a.op # "run" /\ EvaluatesOnce(T)
         /\ a.op \in {"offline", "sendFailed"} \/ inflight'[e] = "absent"
    BY FinishedDispatches
  <2>2. \A t \in T : t.op \in NotExec
    BY <2>1 DEF NotExec
  <2>. QED
    BY <2>1, <2>2
<1>2. PICK N : /\ Exchange(a, N) /\ \A n \in N : n.op # "send"
               /\ \A x \in running' : x \in run \/ At("run", x) \in BagToSet(awaiting')
  BY <1>0, <1>1, DispatchSlots
<1>3. UNCHANGED <<link, atAgent>>
  BY DEF DispatchFailed, ExecutionCompleted, ExecutionTimedOut, agentVars
<1>4. \A x \in Execs \ {e} : inflight'[x] = inflight[x]
  BY <1>0 DEF DispatchFailed, ExecutionCompleted, ExecutionTimedOut, InflightDelete, TypeOK, flightVars
<1>5. inflight'[e] = "absent" \/ inflight'[e] = inflight[e]
  BY <1>0 DEF DispatchFailed, ExecutionCompleted, ExecutionTimedOut, InflightDelete, TypeOK, flightVars
<1>6. Returns(e)
  <2>1. ASSUME e \in run PROVE Repeats(JobOf[e])
    BY <1>1, <2>1 DEF TrackInv, Tracks, Tracked
  <2>2. Lead(At("run", e), e)
    BY DEF Lead, LeadOps, At
  <2>. QED
    BY <1>2, <2>1, <2>2, GivesBackIs DEF Returns
<1>7. \A x \in Execs \ {e} : x \in running' => x \in running \/ At("run", x) \in BagToSet(awaiting')
  BY <1>1, <1>2
<1>. QED
  BY <1>1, <1>2, <1>3, <1>4, <1>5, <1>6, <1>7, SlotExec

LEMMA JobSlots ==
    ASSUME JobAssumption, IInv, SlotInv, NEW j \in Jobs, JobStep(j) \/ JobQuietStep(j)
    PROVE  SlotStep
<1>0. TypeOK /\ StartsOnce
  BY DEF IInv, DispatchedOnce
<1>1. \A o \in NotExec \cup {"pause"} : o \notin LeadOps \cup {"check"} /\ o # "send"
  BY DEF NotExec, LeadOps, Outcomes
<1>2. CASE JobQuietStep(j)
  <2>1. PICK a, S : Swaps(a, S) /\ a.op \in NotExec /\ \A s \in S : s.op \in NotExec
    BY <1>2, JobSwaps
  <2>2. UNCHANGED <<link, inflight, atAgent>> /\ running' \subseteq running
    BY <1>2 DEF JobQuietStep, CreateJob, StartJob, JobTallied, JobFinished, RemainingSkipped, AbortJob,
                stateVars, flightVars, agentVars
  <2>. QED
    BY <1>0, <1>1, <2>1, <2>2, SwapExchange, SlotQuiet
<1>3. CASE JobStarted(j)
  <2>1. PICK a, T : \E es \in SUBSET ExecsOf(j) :
           /\ a \in BagToSet(awaiting) /\ a \in StartRecs(j) /\ a.op = "start" /\ a.job = j
           /\ Dispatch(es, running, Without(a), T) /\ (es = {} \/ Active(j))
           /\ Mode[j] = "rolling" => \A x \in es : BatchOf[x] = currentBatch[j]
           /\ \A t \in T : t.op = "tally"
           /\ \A x \in es : Fresh(x)
    BY <1>0, <1>3, JobStartedDispatches
  <2>2. UNCHANGED <<link, inflight, atAgent>>
    BY <1>3 DEF JobStarted, flightVars, agentVars
  <2>3. a.op \in NotExec /\ \A t \in T : t.op \in NotExec
    BY <2>1 DEF NotExec
  <2>. QED
    BY <1>0, <1>1, <2>1, <2>2, <2>3, NewWaveSlots
<1>4. CASE BatchEvaluated(j)
  <2>1. PICK a :
          /\ a \in BagToSet(awaiting) /\ a.op = "evaluate" /\ a.job = j
          /\ \/ AbortRemaining(j, Without(a)) /\ UNCHANGED <<queue, running, currentBatch>>
             \/ /\ currentBatch' = [currentBatch EXCEPT ![j] = NextBatch(j)]
                /\ UNCHANGED aborted
                /\ \E es \in SUBSET Wave(j, NextBatch(j)) : \E T :
                   /\ Waits(j, es)
                   /\ Dispatch(es, running, Without(a), T) /\ (es = {} \/ Active(j))
                   /\ \A t \in T : t.op = "tally"
                   /\ \A x \in es : Fresh(x)
    BY <1>4, BatchEvaluatedDispatches
  <2>2. UNCHANGED <<link, inflight, atAgent>>
    BY <1>4 DEF BatchEvaluated, flightVars, agentVars
  <2>3. a.op \notin LeadOps \cup {"check"}
    BY <1>1, <2>1 DEF NotExec
  <2>4. CASE AbortRemaining(j, Without(a)) /\ UNCHANGED <<queue, running, currentBatch>>
    <3>1. PICK S : Swaps(a, S) /\ \A s \in S : s.op \in NotExec
      BY <2>4, RemainingSwaps
    <3>. QED
      BY <1>0, <1>1, <2>2, <2>3, <2>4, <3>1, SwapExchange, SlotQuiet
  <2>5. ASSUME NEW es, NEW T, Dispatch(es, running, Without(a), T), \A t \in T : t.op = "tally"
        PROVE  SlotStep
    <3>1. \A t \in T : t.op \in NotExec
      BY <2>5 DEF NotExec
    <3>. QED
      BY <1>0, <2>2, <2>3, <2>5, <3>1, NewWaveSlots
  <2>. QED
    BY <2>1, <2>4, <2>5
<1>5. CASE PauseOver(j)
  <2>1. PICK es, T :
           /\ es \in SUBSET Wave(j, currentBatch[j])
           /\ Dispatch(es, running, awaiting, T) /\ (es = {} \/ Active(j))
           /\ \A t \in T : t.op = "tally"
           /\ \A x \in es : Fresh(x) \/ Repeats(j)
    BY <1>5, PauseOverDispatches
  <2>2. PICK a : a.op = "pause" /\ Without(a) = awaiting
    BY <1>0, NothingRemoved
  <2>3. UNCHANGED <<link, inflight, atAgent>>
    BY <1>5 DEF PauseOver, flightVars, agentVars
  <2>4. Dispatch(es, running, Without(a), T) /\ \A t \in T : t.op \in NotExec
    BY <2>1, <2>2 DEF NotExec
  <2>. QED
    BY <1>0, <1>1, <2>2, <2>3, <2>4, NewWaveSlots
<1>. QED
  BY <1>2, <1>3, <1>4, <1>5 DEF JobStep, JobQuietStep

(* The database answers a handler, which goes on; a status that is final    *)
(* was written by the handler of an outcome that has yet to free the slot.  *)
LEMMA DbSlots ==
    ASSUME TypeOK, TrackInv, SlotInv, DbStep
    PROVE  SlotStep
<1>1. PICK a \in BagToSet(awaiting) :
        /\ a.db = "issued"
        /\ DbWriteExecution(a) \/ DbSkip(a) \/ DbWriteJob(a) \/ DbRead(a)
  BY DEF DbStep
<1>2. UNCHANGED <<running, inflight, link, atAgent>>
  BY DEF DbStep, stateVars, flightVars, agentVars
<1>3. CASE DbWriteExecution(a)
  <2>1. PICK e \in Execs, o \in WriteOps :
           a = At(o, e) /\ \A v : [a EXCEPT !.db = v] = [op |-> o, exec |-> e, db |-> v]
    BY <1>1, <1>3, AnsweredExec DEF DbWriteExecution
  <2>. DEFINE s == Now(o, e)
  <2>2. /\ a.op = o /\ a.exec = e /\ s.op = o /\ s.exec = e /\ o \notin {"check", "send"}
        /\ awaiting' = With(Without(a), {s})
    BY <1>3, <2>1 DEF At, Now, DbWriteExecution, Answered, WriteOps
  <2>. HIDE DEF s
  <2>3. Exchange(a, {s}) /\ s \in BagToSet(awaiting')
    BY <2>2, SwapAdds
  <2>4. Returns(e)
    <3>1. ASSUME NEW b \in BagToSet(awaiting), Lead(b, e) PROVE \E c \in BagToSet(awaiting') : Lead(c, e)
      BY <2>2, <2>3, <3>1 DEF Exchange, Lead
    <3>. QED
      BY <1>2, <3>1, GivesBackIs DEF Returns
  <2>5. inflight'[e] = "fired" => Suspended(e, {"check", "timedOut"})'
    <3>1. ASSUME NEW b \in BagToSet(awaiting), b.op \in {"check", "timedOut"}, b.exec = e
          PROVE  \E c \in BagToSet(awaiting') : c.op \in {"check", "timedOut"} /\ c.exec = e
      BY <2>2, <2>3, <3>1 DEF Exchange
    <3>. QED
      BY <1>2, <3>1 DEF SlotInv, FiredIsChecked, Suspended
  <2>. QED
    BY <1>2, <2>2, <2>3, <2>4, <2>5, SlotExec
<1>4. CASE DbSkip(a) \/ DbWriteJob(a) \/ (DbRead(a) /\ a.op # "check")
  <2>1. PICK S : Swaps(a, S) /\ \A s \in S : \E v : s = [a EXCEPT !.db = v]
    <3>1. awaiting' = Without(a) \/ \E v : Answered(a, v)
      BY <1>4 DEF DbSkip, DbWriteJob, DbRead
    <3>2. CASE awaiting' = Without(a)
      <4>1. Swaps(a, {})
        BY <3>2 DEF Swaps
      <4>. QED
        BY <4>1
    <3>3. ASSUME NEW v, Answered(a, v)
          PROVE  \E S : Swaps(a, S) /\ \A s \in S : \E w : s = [a EXCEPT !.db = w]
      <4>. DEFINE t == [a EXCEPT !.db = v]
      <4>1. Swaps(a, {t})
        BY <3>3 DEF Swaps, Answered
      <4>2. \E w : t = [a EXCEPT !.db = w]
        OBVIOUS
      <4>. HIDE DEF t
      <4>. QED
        BY <4>1, <4>2
    <3>. QED
      BY <3>1, <3>2, <3>3
  <2>2. a.op \in {"skip", "start", "finish", "abort", "evaluate", "tally"}
    BY <1>4 DEF DbSkip, DbWriteJob, DbRead
  <2>3. \A s \in S : s.op = a.op
    <3>1. \A v : [a EXCEPT !.db = v].op = a.op
      BY <2>2, AnsweredJob
    <3>. QED
      BY <2>1, <3>1
  <2>4. a.op \notin LeadOps \cup {"check"} /\ \A s \in S : s.op # "send"
    BY <2>2, <2>3 DEF LeadOps, Outcomes
  <2>. QED
    BY <1>2, <2>1, <2>4, SwapExchange, SlotQuiet
<1>5. CASE DbRead(a) /\ a.op = "check"
  <2>1. PICK e, s :
          /\ e \in Execs /\ a.exec = e /\ s.op = "check" /\ s.exec = e /\ awaiting' = With(Without(a), {s})
          /\ s.db = IF execStatus[e] \in {"SUCCESS", "FAILED"} THEN "final" ELSE "open"
    <3>. DEFINE v == IF execStatus[a.exec] \in {"SUCCESS", "FAILED"} THEN "final" ELSE "open"
    <3>1. /\ a.exec \in Execs
          /\ \A w : [a EXCEPT !.db = w].op = "check" /\ [a EXCEPT !.db = w].exec = a.exec
      BY <1>5, AnsweredCheck
    <3>2. [a EXCEPT !.db = v].db = v
      BY <1>1 DEF TypeOK, Await, ExecAwait, JobAwait
    <3>3. awaiting' = With(Without(a), {[a EXCEPT !.db = v]})
      BY <1>5 DEF DbRead, Answered
    <3>. HIDE DEF v
    <3>4. v = IF execStatus[a.exec] \in {"SUCCESS", "FAILED"} THEN "final" ELSE "open"
      BY DEF v
    <3>. QED
      BY <3>1, <3>2, <3>3, <3>4
  <2>2. Exchange(a, {s}) /\ s \in BagToSet(awaiting')
    BY <2>1, SwapAdds
  <2>3. Suspended(e, {"check", "timedOut"})'
    BY <2>1, <2>2 DEF Suspended
  <2>4. Returns(e)
    <3>1. ASSUME s.db = "final", e \in running, ~ Repeats(JobOf[e]) PROVE GivesBack(e)'
      <4>1. PICK b \in BagToSet(awaiting) : b.op \in {"run"} \cup Outcomes /\ Lead(b, e)
        BY <2>1, <3>1, TrackedLead DEF Decided
      <4>2. b # a
        BY <1>5, <4>1 DEF Outcomes
      <4>3. b \in BagToSet(awaiting')
        BY <2>2, <4>2 DEF Exchange
      <4>. QED
        BY <4>1, <4>3, GivesBackIs
    <3>2. ASSUME s.db # "final" PROVE GivesBack(e)'
      BY <2>1, <2>2, <3>2, GivesBackIs DEF Lead
    <3>. QED
      BY <1>2, <3>1, <3>2 DEF Returns
  <2>. QED
    BY <1>2, <1>5, <2>1, <2>2, <2>3, <2>4, SlotExec
<1>. QED
  BY <1>1, <1>3, <1>4, <1>5

LEMMA SlotsStep ==
    ASSUME JobAssumption, Inv, TrackInv, SlotInv, [Next]_vars
    PROVE  SlotStep
<1>0. IInv /\ TypeOK
  BY DEF Inv, IInv, LimitInv
<1>1. CASE UNCHANGED vars
  <2>1. UNCHANGED <<awaiting, running, inflight, link, atAgent>>
    BY <1>1 DEF vars, stateVars, flightVars, agentVars
  <2>2. PICK a : a.op = "pause"
    BY <1>0, NothingRemoved
  <2>3. Exchange(a, {}) /\ a.op \notin LeadOps \cup {"check"}
    BY <2>1, <2>2 DEF Exchange, LeadOps, Outcomes
  <2>. QED
    BY <2>1, <2>3, SlotQuiet
<1>2. CASE DbStep
  BY <1>0, <1>2, DbSlots
<1>3. ASSUME NEW j \in Jobs, JobStep(j) PROVE SlotStep
  BY <1>0, <1>3, JobSlots
<1>4. ASSUME NEW e \in Execs, ExecStep(e) PROVE SlotStep
  BY <1>0, <1>4, SendSlots, FinishSlots, TimerSlots, AnswerSlots DEF ExecStep
<1>5. ASSUME NEW e \in Execs, AgentStep(e) PROVE SlotStep
  BY <1>0, <1>5, AnswerSlots DEF AgentStep
<1>6. CASE Environment
  BY <1>0, <1>6, JobSlots, AnswerSlots, ConnectionSlots, InteractiveSlots DEF Environment, JobQuietStep
<1>. QED
  BY <1>1, <1>2, <1>3, <1>4, <1>5, <1>6 DEF Next

(* Every slot of orchestrator.js is given back: while an execution is in a  *)
(* slot, its handler has yet to send to an open socket or to none, or its   *)
(* grace timer is armed or reads a status that is not final, or its agent   *)
(* has the command and a connection, or its outcome is being written; only  *)
(* output of another command that clears its timer ends this.  What makes   *)
(* it inductive: no handler forgets the entry of an execution in a slot     *)
(* before its outcome is on its way (TrackInv), a send goes to a socket     *)
(* that was not closed, and a timer that fired has its check suspended.     *)
THEOREM SlotsComeBackHolds == Spec => SlotsComeBack
<1>1. Init => Inv
  BY JobAssumption, BoundAssumption, InvInit
<1>2. Init => TrackInv /\ SlotInv
  BY DEF Init, TrackInv, Tracks, Tracked, SlotInv, SendsAreOpen, FiredIsChecked, BagToSet, EmptyBag, SetToBag
<1>3. Inv /\ [Next]_vars => Inv'
  BY JobAssumption, InvStep
<1>4. Inv /\ TrackInv /\ [Next]_vars => TrackInv'
  BY JobAssumption, TrackStep
<1>5. Inv /\ TrackInv /\ SlotInv /\ [Next]_vars => SlotInv'
  BY JobAssumption, SlotsStep DEF SlotStep
<1>6. Inv /\ Inv' /\ TrackInv /\ SlotInv /\ [Next]_vars =>
        [\A e \in running' :
            \/ Repeats(JobOf[e])
            \/ e \in running /\ (OthersOutput(e) \/ ~ GivesBack(e))
            \/ GivesBack(e)']_vars
  <2>. SUFFICES ASSUME Inv, Inv', TrackInv, SlotInv, [Next]_vars, NEW e \in running'
                PROVE  \/ Repeats(JobOf[e])
                       \/ e \in running /\ (OthersOutput(e) \/ ~ GivesBack(e))
                       \/ GivesBack(e)'
    OBVIOUS
  <2>1. e \in Execs
    BY DEF Inv, LimitInv, TypeOK
  <2>2. Returns(e)
    BY <2>1, JobAssumption, SlotsStep DEF SlotStep
  <2>. QED
    BY <2>2 DEF Returns
<1>. QED
  BY <1>1, <1>2, <1>3, <1>4, <1>5, <1>6, PTL DEF Spec, SlotsComeBack

-----------------------------------------------------------------------------
(* The kill switch holds back, in pausing jobs as well: no other invariant  *)
(* than TypeOK is needed.                                                   *)

DispatchingOps == {"offline", "run"} \cup SendOps
Dispatching(e) == Suspended(e, DispatchingOps)

HoldsBack == \A e \in Execs : JobOf[e] \in aborted /\ ~ Dispatching(e) => ~ Dispatching(e)'

LEMMA DispatchingIsPending ==
    ASSUME TypeOK, NEW e, Dispatching(e)
    PROVE  DispatchPending(e)
<1>1. PICK a \in BagToSet(awaiting) : a.op \in DispatchingOps /\ a.exec = e
  BY DEF Dispatching, Suspended
<1>2. a \in [op: WriteOps \cup SendOps, exec: Execs, db: {"issued", "done"}]
  BY <1>1 DEF TypeOK, Await, ExecAwait, JobAwait, WriteOps, SendOps, LookupOps, DispatchingOps
<1>3. a = [op |-> a.op, exec |-> e, db |-> a.db] /\ a.db \in {"issued", "done"}
  BY <1>1, <1>2
<1>. QED
  BY <1>1, <1>3 DEF DispatchPending, BagIn, DispatchingOps

LEMMA PendingIsDispatching ==
    ASSUME NEW e, DispatchPending(e)'
    PROVE  Dispatching(e)'
<1>1. PICK o, d : o \in DispatchingOps /\ [op |-> o, exec |-> e, db |-> d] \in BagToSet(awaiting')
  BY DEF DispatchPending, BagIn, DispatchingOps
<1>. QED
  BY <1>1 DEF Dispatching, Suspended

LEMMA HoldsSwap ==
    ASSUME TypeOK, NEW a, NEW S, Swaps(a, S),
           \A s \in S : s.op \in DispatchingOps =>
              \E b \in BagToSet(awaiting) : b.op \in DispatchingOps /\ b.exec = s.exec
    PROVE  HoldsBack
<1>1. BagToSet(awaiting') \subseteq BagToSet(awaiting) \cup S
  BY SwapSet DEF TypeOK
<1>. QED
  BY <1>1 DEF HoldsBack, Dispatching, Suspended

LEMMA HoldsDispatch ==
    ASSUME NEW bag, IsABag(bag), BagToSet(bag) \subseteq BagToSet(awaiting),
           NEW j, NEW es \in SUBSET ExecsOf(j), es = {} \/ Active(j), NEW run,
           NEW T, \A t \in T : t.op \in {"tally", "evaluate"}, Dispatch(es, run, bag, T)
    PROVE  HoldsBack
<1>. DEFINE on == {e \in es : MachineOf[e] \in online}
            N == {At("offline", e) : e \in es \ on} \cup {At("run", e) : e \in on} \cup T
<1>1. BagToSet(awaiting') = BagToSet(bag) \cup N
  BY WithBag DEF Dispatch
<1>2. \A n \in N : n.op \in DispatchingOps => n.exec \in es
  BY DEF At, DispatchingOps, SendOps
<1>. HIDE DEF N
<1>3. \A e \in es : JobOf[e] \notin aborted
  BY DEF Active, ExecsOf
<1>. QED
  BY <1>1, <1>2, <1>3 DEF HoldsBack, Dispatching, Suspended

LEMMA HoldsFill ==
    ASSUME NEW bag, IsABag(bag), BagToSet(bag) \subseteq BagToSet(awaiting), NEW run, NEW j,
           FillParallel(j, run, bag) \/ \E k : RunRollingBatch(j, k, run, bag)
    PROVE  HoldsBack
<1>1. \A k : Wave(j, k) \subseteq ExecsOf(j)
  BY DEF Wave
<1>2. PICK es, T : /\ es \in SUBSET ExecsOf(j) /\ Dispatch(es, run, bag, T)
                   /\ es = {} \/ Active(j)
                   /\ \A t \in T : t.op = "tally"
  <2>1. CASE FillParallel(j, run, bag)
    <3>1. PICK es, T : /\ es \in SUBSET (queue \cap ExecsOf(j))
                       /\ Dispatch(es, run, bag, T) /\ (es = {} \/ Active(j))
                       /\ \A t \in T : t.op = "tally"
      BY <2>1, FillDispatches
    <3>. QED
      BY <3>1
  <2>2. ASSUME NEW k, RunRollingBatch(j, k, run, bag)
        PROVE  \E es \in SUBSET ExecsOf(j) : \E T :
                  /\ Dispatch(es, run, bag, T) /\ (es = {} \/ Active(j))
                  /\ \A t \in T : t.op = "tally"
    <3>1. PICK es, T : /\ es \in SUBSET Wave(j, k)
                       /\ Dispatch(es, run, bag, T) /\ (es = {} \/ Active(j))
                       /\ \A t \in T : t.op = "tally"
      BY <2>2, RollDispatches
    <3>. QED
      BY <1>1, <3>1
  <2>. QED
    BY <2>1, <2>2
<1>3. \A t \in T : t.op \in {"tally", "evaluate"}
  BY <1>2
<1>. QED
  BY <1>2, <1>3, HoldsDispatch

LEMMA HoldsNothing ==
    ASSUME NEW bag, IsABag(bag), BagToSet(bag) \subseteq BagToSet(awaiting), NEW run,
           NEW T, \A t \in T : t.op \in {"tally", "evaluate"}, NoDispatch(run, bag, T)
    PROVE  HoldsBack
  BY HoldsDispatch, {} \in SUBSET ExecsOf(CHOOSE j : TRUE) DEF NoDispatch

LEMMA RemainingHolds ==
    ASSUME TypeOK, NEW j, NEW a,
           AbortRemaining(j, awaiting) \/ AbortRemaining(j, Without(a))
    PROVE  HoldsBack
<1>. DEFINE s == [op |-> "skip", job |-> j, ids |-> PendingIds(j), db |-> "issued"]
<1>1. s.op \notin DispatchingOps
  BY DEF DispatchingOps, SendOps
<1>2. Swaps(a, {s})
  BY DEF AbortRemaining, Swaps
<1>. HIDE DEF s
<1>. QED
  BY <1>1, <1>2, HoldsSwap

LEMMA JobHolds ==
    ASSUME TypeOK, NEW j \in Jobs, JobStep(j) \/ CreateJob(j) \/ AbortJob(j)
    PROVE  HoldsBack
<1>0. /\ IsABag(awaiting) /\ BagToSet(awaiting) \subseteq BagToSet(awaiting)
      /\ \A a : IsABag(Without(a)) /\ BagToSet(Without(a)) \subseteq BagToSet(awaiting)
  BY WithoutBag DEF TypeOK
<1>1. \A o \in {"start", "abort", "tally"} : JobAt(o, j).op \notin DispatchingOps
  BY DEF JobAt, DispatchingOps, SendOps
<1>2. JobAt("tally", j).op \in {"tally", "evaluate"}
  BY DEF JobAt
<1>3. ASSUME NEW a, NEW s, s.op \notin DispatchingOps,
             \/ awaiting' = With(awaiting, {s})
             \/ awaiting' = With(Without(a), {s})
             \/ awaiting' = Without(a)
      PROVE  HoldsBack
  <2>1. Swaps(a, {s})
    BY <1>3 DEF Swaps
  <2>. QED
    BY <1>3, <2>1, HoldsSwap
<1>4. CASE CreateJob(j)
  <2>. DEFINE s == [op |-> "create", job |-> j, db |-> "done"]
  <2>1. s.op \notin DispatchingOps /\ awaiting' = With(awaiting, {s})
    BY <1>4 DEF CreateJob, DispatchingOps, SendOps
  <2>. HIDE DEF s
  <2>. QED
    BY <1>3, <2>1
<1>5. CASE StartJob(j)
  BY <1>1, <1>3, <1>5 DEF StartJob
<1>6. CASE JobStarted(j)
  <2>1. PICK a : FirstDispatch(j, Without(a))
    BY <1>6 DEF JobStarted
  <2>2. \/ FillParallel(j, running, Without(a))
        \/ RunRollingBatch(j, currentBatch[j], running, Without(a))
    BY <2>1 DEF FirstDispatch
  <2>. QED
    BY <1>0, <2>2, HoldsFill
<1>7. CASE BatchEvaluated(j)
  <2>1. PICK a : \/ AbortRemaining(j, Without(a))
                 \/ \E T \in {{}, {JobAt("tally", j)}} : NoDispatch(running, Without(a), T)
                 \/ \E k : RunRollingBatch(j, k, running, Without(a))
    BY <1>7 DEF BatchEvaluated
  <2>2. CASE AbortRemaining(j, Without(a))
    BY <2>2, RemainingHolds
  <2>3. ASSUME NEW T \in {{}, {JobAt("tally", j)}}, NoDispatch(running, Without(a), T)
        PROVE  HoldsBack
    <3>1. \A t \in T : t.op \in {"tally", "evaluate"}
      BY <1>2
    <3>. QED
      BY <1>0, <2>3, <3>1, HoldsNothing
  <2>4. ASSUME NEW k, RunRollingBatch(j, k, running, Without(a))
        PROVE  HoldsBack
    BY <1>0, <2>4, HoldsFill
  <2>. QED
    BY <2>1, <2>2, <2>3, <2>4
<1>8. CASE PauseOver(j)
  BY <1>0, <1>8, HoldsFill DEF PauseOver
<1>9. CASE JobTallied(j)
  <2>1. PICK v \in {"SUCCESS", "FAILED"} :
           awaiting' = With(Without([op |-> "tally", job |-> j, db |-> v]),
                  {[op |-> "finish", job |-> j, db |-> "issued",
                    status |-> IF j \in aborted THEN "ABORTED" ELSE v]})
    BY <1>9 DEF JobTallied
  <2>. DEFINE s == [op |-> "finish", job |-> j, db |-> "issued",
                    status |-> IF j \in aborted THEN "ABORTED" ELSE v]
  <2>2. s.op \notin DispatchingOps
    BY DEF DispatchingOps, SendOps
  <2>. HIDE DEF s
  <2>. QED
    BY <1>3, <2>1, <2>2 DEF s
<1>10. CASE JobFinished(j)
  BY <1>1, <1>3, <1>10 DEF JobFinished
<1>11. CASE RemainingSkipped(j)
  BY <1>1, <1>3, <1>11 DEF RemainingSkipped
<1>12. CASE AbortJob(j)
  BY <1>1, <1>3, <1>12, RemainingHolds DEF AbortJob
<1>. QED
  BY <1>4, <1>5, <1>6, <1>7, <1>8, <1>9, <1>10, <1>11, <1>12 DEF JobStep

LEMMA ExecHolds ==
    ASSUME JobAssumption, TypeOK, NEW e \in Execs, ExecStep(e) \/ AgentStep(e)
    PROVE  HoldsBack
<1>0. /\ IsABag(awaiting)
      /\ \A a : IsABag(Without(a)) /\ BagToSet(Without(a)) \subseteq BagToSet(awaiting)
  BY WithoutBag DEF TypeOK
<1>1. /\ \A o, x : /\ At(o, x).op = o /\ At(o, x).exec = x
                   /\ Now(o, x).op = o /\ Now(o, x).exec = x
  BY DEF At, Now
<1>2. ASSUME NEW a, NEW s,
             s.op \notin DispatchingOps
                \/ (a \in BagToSet(awaiting) /\ a.op \in DispatchingOps /\ a.exec = s.exec),
             \/ awaiting' = awaiting
             \/ awaiting' = With(awaiting, {s})
             \/ awaiting' = With(Without(a), {s})
             \/ awaiting' = Without(a)
      PROVE  HoldsBack
  <2>1. Swaps(a, {s})
    BY <1>2 DEF Swaps
  <2>. QED
    BY <1>2, <2>1, HoldsSwap
<1>3. \A o \in {"sendFailed", "check", "timedOut", "succeed", "fail", "lookupSucceed", "lookupFail"} :
         o \notin DispatchingOps
  BY DEF DispatchingOps, SendOps
<1>4. CASE StartSending(e)
  <2>1. PICK o \in SendOps : awaiting' = With(Without(Now("run", e)), {Now(o, e)})
    BY <1>4 DEF StartSending, Marked, SendOps
  <2>2. Now("run", e) \in BagToSet(awaiting)
    BY <1>4 DEF StartSending, Marked, BagIn
  <2>. QED
    BY <1>1, <1>2, <2>1, <2>2 DEF DispatchingOps
<1>5. CASE CommandSent(e) \/ CommandSentIntoClosedSocket(e) \/ CommandNotSent(e)
  <2>1. PICK a : awaiting' = Without(a) \/ awaiting' = With(Without(a), {At("sendFailed", e)})
    BY <1>5 DEF CommandSent, CommandSentIntoClosedSocket, CommandNotSent
  <2>2. At("sendFailed", e).op \notin DispatchingOps
    BY <1>1, <1>3
  <2>. QED
    BY <1>2, <2>1, <2>2
<1>6. CASE DispatchFailed(e) \/ ExecutionCompleted(e) \/ ExecutionTimedOut(e)
  <2>1. PICK a : OnExecutionFinished(e, Without(a))
    BY <1>6 DEF DispatchFailed, ExecutionCompleted, ExecutionTimedOut
  <2>2. Mode[JobOf[e]] \in {"parallel", "rolling"}
    BY DEF JobAssumption
  <2>3. PICK es, run, T :
           /\ es \in SUBSET (queue \cap ExecsOf(JobOf[e])) /\ Dispatch(es, run, Without(a), T)
           /\ es = {} \/ (Active(JobOf[e]) /\ Mode[JobOf[e]] = "parallel")
           /\ \A t \in T : t.op = "tally" \/ (t.op = "evaluate" /\ t.job = JobOf[e])
    BY <2>1, <2>2, FinishDispatches
  <2>4. es \in SUBSET ExecsOf(JobOf[e]) /\ \A t \in T : t.op \in {"tally", "evaluate"}
    BY <2>3
  <2>. QED
    BY <1>0, <2>3, <2>4, HoldsDispatch
<1>7. CASE TimerFires(e)
  <2>1. awaiting' = awaiting \/ awaiting' = With(awaiting, {At("check", e)})
    BY <1>7 DEF TimerFires, ReadsStatus
  <2>2. At("check", e).op \notin DispatchingOps
    BY <1>1, <1>3
  <2>. QED
    BY <1>2, <2>1, <2>2
<1>8. CASE TimerChecked(e)
  <2>1. PICK a : awaiting' = Without(a) \/ awaiting' = With(Without(a), {At("timedOut", e)})
    BY <1>8 DEF TimerChecked
  <2>2. At("timedOut", e).op \notin DispatchingOps
    BY <1>1, <1>3
  <2>. QED
    BY <1>2, <2>1, <2>2
<1>9. ASSUME NEW ok \in BOOLEAN, LookedUp(e, ok) \/ AgentAnswer(e, ok)
      PROVE  HoldsBack
  <2>. DEFINE l == Now(IF ok THEN "lookupSucceed" ELSE "lookupFail", e)
  <2>1. l.op \notin DispatchingOps /\ \A x : At(FinalOp(ok), x).op \notin DispatchingOps
    BY <1>1, <1>3 DEF FinalOp
  <2>2. \/ awaiting' = With(Without(l), {At(FinalOp(ok), e)})
        \/ awaiting' = With(awaiting, {l})
        \/ \E x : awaiting' = With(awaiting, {At(FinalOp(ok), x)})
    BY <1>9 DEF LookedUp, AgentAnswer, CompletionFor
  <2>. HIDE DEF l
  <2>. QED
    BY <1>2, <2>1, <2>2
<1>10. CASE AnswerLost(e)
  BY <1>10 DEF AnswerLost, HoldsBack, Dispatching, Suspended
<1>. QED
  BY <1>4, <1>5, <1>6, <1>7, <1>8, <1>9, <1>10 DEF ExecStep, AgentStep

LEMMA DbHolds ==
    ASSUME TypeOK, DbStep
    PROVE  HoldsBack
<1>1. PICK a \in BagToSet(awaiting) :
        a.db = "issued" /\ (DbWriteExecution(a) \/ DbSkip(a) \/ DbWriteJob(a) \/ DbRead(a))
  BY DEF DbStep
<1>2. ASSUME NEW s, s.op \notin DispatchingOps \/ (a.op \in DispatchingOps /\ a.exec = s.exec),
             awaiting' \in {Without(a), With(Without(a), {s})}
      PROVE  HoldsBack
  <2>1. Swaps(a, {s})
    BY <1>2 DEF Swaps
  <2>. QED
    BY <1>2, <2>1, HoldsSwap
<1>3. CASE DbWriteExecution(a)
  <2>1. PICK e \in Execs, o \in WriteOps :
           a = At(o, e) /\ \A v : [a EXCEPT !.db = v] = [op |-> o, exec |-> e, db |-> v]
    BY <1>1, <1>3, AnsweredExec DEF DbWriteExecution
  <2>2. a.op = o /\ a.exec = e
    BY <2>1 DEF At
  <2>. DEFINE s == [a EXCEPT !.db = "done"]
  <2>3. s.op = o /\ s.exec = e /\ awaiting' = With(Without(a), {s})
    BY <1>3, <2>1 DEF DbWriteExecution, Answered
  <2>. HIDE DEF s
  <2>. QED
    BY <1>2, <2>2, <2>3
<1>4. CASE DbSkip(a) \/ DbWriteJob(a) \/ (DbRead(a) /\ a.op # "check")
  <2>1. a.op \in {"start", "evaluate", "skip", "abort", "tally", "finish"}
    BY <1>4 DEF DbSkip, DbWriteJob, DbRead
  <2>2. \A v : [a EXCEPT !.db = v].op = a.op
    BY <2>1, AnsweredJob
  <2>3. PICK v : awaiting' \in {Without(a), With(Without(a), {[a EXCEPT !.db = v]})}
    BY <1>4 DEF DbSkip, DbWriteJob, DbRead, Answered
  <2>. DEFINE s == [a EXCEPT !.db = v]
  <2>4. s.op \notin DispatchingOps
    BY <2>1, <2>2 DEF DispatchingOps, SendOps
  <2>. HIDE DEF s
  <2>. QED
    BY <1>2, <2>3, <2>4 DEF s
<1>5. CASE DbRead(a) /\ a.op = "check"
  <2>1. \A v : [a EXCEPT !.db = v].op = "check"
    BY <1>5, AnsweredCheck
  <2>2. PICK v : awaiting' = With(Without(a), {[a EXCEPT !.db = v]})
    BY <1>5 DEF DbRead, Answered
  <2>. DEFINE s == [a EXCEPT !.db = v]
  <2>4. s.op \notin DispatchingOps
    BY <2>1 DEF DispatchingOps, SendOps
  <2>. HIDE DEF s
  <2>. QED
    BY <1>2, <2>2, <2>4 DEF s
<1>. QED
  BY <1>1, <1>3, <1>4, <1>5

LEMMA OutsideHolds ==
    ASSUME TypeOK,
           \/ \E e \in Execs : AgentOutput(e) \/ ForgetCompleted(e)
           \/ \E m \in Machines : \/ AgentConnect(m) \/ AgentDisconnect(m)
                                  \/ InteractiveOutput(m)
                                  \/ \E ok \in BOOLEAN : InteractiveAnswer(m, ok)
           \/ ServerRestart \/ UNCHANGED vars
    PROVE  HoldsBack
<1>1. CASE UNCHANGED awaiting
  BY <1>1 DEF HoldsBack, Dispatching, Suspended
<1>2. ASSUME NEW e \in Execs, AgentOutput(e) \/ ForgetCompleted(e)
      PROVE  UNCHANGED awaiting
  BY <1>2 DEF AgentOutput, OutputFor, ForgetCompleted
<1>3. ASSUME NEW m, AgentConnect(m) \/ InteractiveOutput(m)
      PROVE  UNCHANGED awaiting
  BY <1>3 DEF AgentConnect, InteractiveOutput, OutputFor
<1>4. ASSUME NEW m, AgentDisconnect(m)
      PROVE  HoldsBack
  <2>1. PICK sends, dead : SendsClose(sends, dead)
    BY <1>4, ClosedSends
  <2>2. \A s \in dead : \E b \in BagToSet(awaiting) : b.op = "send" /\ b.exec = s.exec
    BY <2>1 DEF SendsClose, Now
  <2>. QED
    BY <2>1, <2>2 DEF SendsClose, HoldsBack, Dispatching, Suspended, DispatchingOps, SendOps
<1>5. ASSUME NEW m, NEW ok \in BOOLEAN, InteractiveAnswer(m, ok)
      PROVE  HoldsBack
  <2>1. \A x : At(FinalOp(ok), x).op \notin DispatchingOps
    BY DEF At, FinalOp, DispatchingOps, SendOps
  <2>2. PICK x : awaiting' = With(awaiting, {At(FinalOp(ok), x)})
    BY <1>5 DEF InteractiveAnswer, CompletionFor
  <2>. DEFINE s == At(FinalOp(ok), x)
  <2>3. Swaps(s, {s}) /\ s.op \notin DispatchingOps
    BY <2>1, <2>2 DEF Swaps
  <2>. HIDE DEF s
  <2>. QED
    BY <2>3, HoldsSwap
<1>6. CASE ServerRestart
  <2>1. BagToSet(EmptyBag) = {}
    BY DEF BagToSet, EmptyBag, SetToBag
  <2>. QED
    BY <1>6, <2>1 DEF ServerRestart, HoldsBack, Dispatching, Suspended
<1>. QED
  BY <1>1, <1>2, <1>3, <1>4, <1>5, <1>6 DEF vars

(* Only a dispatch that is under way gives the agent the command.           *)
LEMMA ReceivedWasDispatching ==
    ASSUME TypeOK, [Next]_vars, NEW e \in Execs, ~ Dispatching(e)
    PROVE  received'[e] = received[e]
<1>1. CASE UNCHANGED received
  BY <1>1
<1>2. ASSUME NEW x \in Execs, CommandSent(x) PROVE received'[e] = received[e]
  <2>1. x # e
    <3>1. Now("send", x) \in BagToSet(awaiting) /\ Now("send", x).op = "send" /\ Now("send", x).exec = x
      BY <1>2 DEF CommandSent, Ready, BagIn, Now
    <3>. QED
      BY <3>1 DEF Dispatching, Suspended, DispatchingOps, SendOps
  <2>. QED
    BY <1>2, <2>1 DEF CommandSent, TypeOK
<1>3. CASE UNCHANGED vars
  BY <1>3, <1>1 DEF vars, agentVars
<1>4. CASE DbStep
  BY <1>4, <1>1 DEF DbStep, agentVars
<1>5. ASSUME NEW j \in Jobs, JobStep(j) PROVE UNCHANGED received
  BY <1>5 DEF JobStep, StartJob, JobStarted, BatchEvaluated, PauseOver, JobTallied, JobFinished,
     RemainingSkipped, agentVars
<1>6. ASSUME NEW x \in Execs, ExecStep(x) \/ AgentStep(x), ~ CommandSent(x) PROVE UNCHANGED received
  BY <1>6 DEF ExecStep, AgentStep, StartSending, CommandSentIntoClosedSocket, CommandNotSent,
     DispatchFailed, ExecutionCompleted, TimerFires, ReadsStatus, TimerChecked, ExecutionTimedOut, LookedUp,
     AgentAnswer, AnswerLost, agentVars
<1>7. CASE Environment
  BY <1>7, <1>1 DEF Environment, CreateJob, AbortJob, AgentOutput, ForgetCompleted, AgentConnect,
     AgentDisconnect, InteractiveOutput, InteractiveAnswer, OutputFor, CompletionFor, ServerRestart,
     agentVars
<1>. QED
  BY <1>1, <1>2, <1>3, <1>4, <1>5, <1>6, <1>7 DEF Next

(* The kill switch of orchestrator.js: once a job is aborted, nothing that  *)
(* was not on its way already is dispatched, by no suspended handler, no    *)
(* evaluation of a wave and no wait timer, in pausing jobs as well.         *)
THEOREM AbortHoldsBackHolds == Spec => AbortHoldsBack
<1>1. ASSUME TypeOK, [Next]_vars
      PROVE  [\A e \in Execs :
                JobOf[e] \in aborted /\ received[e] = 0 /\ ~ DispatchPending(e)
                   => received'[e] = 0 /\ ~ DispatchPending(e)']_vars
  <2>1. HoldsBack
    BY <1>1, JobAssumption, DbHolds, JobHolds, ExecHolds, OutsideHolds DEF Next, Environment
  <2>. SUFFICES ASSUME NEW e \in Execs, JobOf[e] \in aborted, received[e] = 0, ~ DispatchPending(e)
                PROVE  received'[e] = 0 /\ ~ DispatchPending(e)'
    OBVIOUS
  <2>2. ~ Dispatching(e)
    BY <1>1, DispatchingIsPending
  <2>3. ~ Dispatching(e)' /\ received'[e] = 0
    BY <1>1, <2>1, <2>2, ReceivedWasDispatching DEF HoldsBack
  <2>. QED
    BY <2>3, PendingIsDispatching
<1>. QED
  BY <1>1, TypeCorrect, PTL DEF Spec, AbortHoldsBack


-----------------------------------------------------------------------------
(* A parallel job is finished when nothing of it is left: from the moment   *)
(* its executions are tallied, it stays empty.                              *)

Recorded(e) == execStatus[e] \in {"SUCCESS", "FAILED"}

(* The command of e is still to be sent, and nobody else gave e a verdict.  *)
OnTheWay(e) == Suspended(e, {"run"}) \/ (Suspended(e, SendOps) /\ ~ Recorded(e))

(* The job is recorded as finished, or is about to be.                      *)
Finishing(j) ==
    \/ jobStatus[j] \in {"SUCCESS", "FAILED"}
    \/ \E a \in BagToSet(awaiting) : a.op \in {"tally", "finish"} /\ a.job = j

Emptied(j) ==
    Mode[j] = "parallel" /\ Finishing(j) =>
        ~ Unstarted(j) /\ \A x \in ExecsOf(j) : x \notin queue \cup running

(* What still has to be sent holds a slot, and who resumes after writing a  *)
(* verdict finds one.                                                       *)
WrittenOps == {"offline", "sendFailed"} \cup Outcomes
OfParallel(e) == Mode[JobOf[e]] = "parallel"
Accounted(e) == OfParallel(e) =>
    /\ OnTheWay(e) => e \in running
    /\ \A a \in BagToSet(awaiting) :
          a.op \in WrittenOps /\ a.exec = e /\ a.db = "done" => Recorded(e)

DoneInv == (\A j \in Jobs : Emptied(j)) /\ (\A e \in Execs : Accounted(e))

(* A new await that claims nothing that was not so before.                  *)
Harmless(s) ==
    /\ s.op = "run" => Suspended(s.exec, {"run"})
    /\ s.op \in SendOps => Suspended(s.exec, {"run"} \cup SendOps)
    /\ s.op \in WrittenOps /\ s.db = "done" /\ OfParallel(s.exec) => Recorded(s.exec)'
    /\ s.op \in {"tally", "finish"} => Finishing(s.job)
    /\ s.op \in {"create", "start"} => Unstarted(s.job)

(* The slots and queues grow only for a job that has not started.           *)
NothingAdded ==
    /\ \A x \in Execs : x \in queue' \cup running' => x \in queue \cup running \/ Unstarted(JobOf[x])
    /\ \A x \in Execs : OfParallel(x) /\ x \in running =>
                           x \in running' \/ ~ OnTheWay(x)'
StatusesKept ==
    /\ \A x \in Execs : OfParallel(x) /\ Recorded(x) => Recorded(x)'
    /\ \A j \in Jobs : jobStatus'[j] \in {"SUCCESS", "FAILED"} => Finishing(j)
    /\ \A j \in Jobs : jobStatus'[j] = "none" => jobStatus[j] = "none"

(* Only rolling jobs wait, so what is parallel is sent once.                *)
LEMMA ParallelOnce ==
    \A x : OfParallel(x) => ~ Repeated(x) /\ (UnderWay(x) => SentOnce(x))
  BY DEF OfParallel, Repeated, Repeats, UnderWay

LEMMA ParallelPrime == \A x : OfParallel(x)' <=> OfParallel(x)
  BY DEF OfParallel

LEMMA DoneBound ==
    ASSUME TypeOK, JobAssumption, DoneInv,
           NEW S, BagToSet(awaiting') \subseteq BagToSet(awaiting) \cup S,
           \A s \in S : Harmless(s), NothingAdded, StatusesKept
    PROVE  DoneInv'
<1>1. BagToSet(awaiting') \subseteq BagToSet(awaiting) \cup S
  OBVIOUS
<1>2. ASSUME NEW j \in Jobs PROVE Emptied(j)'
  <2>1. Finishing(j)' => Finishing(j)
    BY <1>1 DEF Finishing, StatusesKept, Harmless
  <2>2. Unstarted(j)' => Unstarted(j)
    BY <1>1 DEF Unstarted, OfStart, StatusesKept, Harmless
  <2>3. ASSUME NEW x \in ExecsOf(j), x \in queue' \cup running', ~ Unstarted(j)
        PROVE  x \in queue \cup running
    BY <2>3 DEF NothingAdded, ExecsOf
  <2>. QED
    BY <2>1, <2>2, <2>3 DEF DoneInv, Emptied
<1>3. ASSUME NEW e \in Execs PROVE Accounted(e)'
  <2>. SUFFICES ASSUME OfParallel(e)
                PROVE  /\ OnTheWay(e)' => e \in running'
                       /\ \A b \in BagToSet(awaiting') :
                             b.op \in WrittenOps /\ b.exec = e /\ b.db = "done" => Recorded(e)'
    BY ParallelPrime DEF Accounted
  <2>1. Suspended(e, {"run"})' => Suspended(e, {"run"})
    BY <1>1 DEF Suspended, Harmless
  <2>2. Suspended(e, SendOps)' => Suspended(e, SendOps) \/ Suspended(e, {"run"})
    BY <1>1 DEF Suspended, Harmless
  <2>3. OnTheWay(e)' => OnTheWay(e)
    BY <2>1, <2>2 DEF OnTheWay, StatusesKept
  <2>4. OnTheWay(e)' => e \in running'
    BY <2>3 DEF DoneInv, Accounted, NothingAdded
  <2>5. ASSUME NEW b \in BagToSet(awaiting'), b.op \in WrittenOps, b.exec = e, b.db = "done"
        PROVE  Recorded(e)'
    BY <1>1, <2>5 DEF DoneInv, Accounted, Harmless, StatusesKept
  <2>. QED
    BY <2>4, <2>5
<1>. QED
  BY <1>2, <1>3 DEF DoneInv

LEMMA DoneSwap ==
    ASSUME TypeOK, JobAssumption, DoneInv, NEW a, NEW S, Swaps(a, S), \A s \in S : Harmless(s),
           NothingAdded, StatusesKept
    PROVE  DoneInv'
<1>1. BagToSet(awaiting') \subseteq BagToSet(awaiting) \cup S
  BY SwapSet DEF TypeOK
<1>. QED
  BY <1>1, DoneBound

(* Steps that leave the two statuses and the slots alone.                   *)
LEMMA DoneQuiet ==
    ASSUME TypeOK, JobAssumption, DoneInv, NEW a, NEW S, Swaps(a, S), \A s \in S : Harmless(s),
           UNCHANGED <<execStatus, jobStatus, running>>, queue' \subseteq queue
    PROVE  DoneInv'
<1>1. NothingAdded
  BY DEF NothingAdded
<1>2. StatusesKept
  BY DEF StatusesKept, Recorded, Finishing
<1>. QED
  BY <1>1, <1>2, DoneSwap

(* An await the invariant does not mention.                                 *)
Aside(s) ==
    /\ s.op \notin {"run", "tally", "finish", "create", "start"} \cup SendOps
    /\ s.op \in WrittenOps => s.db # "done"

LEMMA AsideHarmless ==
    ASSUME NEW s, Aside(s)
    PROVE  Harmless(s)
  BY DEF Aside, Harmless

LEMMA DoneAside ==
    ASSUME TypeOK, JobAssumption, DoneInv, NEW a, NEW s, Aside(s), Swaps(a, {s}),
           UNCHANGED <<execStatus, jobStatus, running>>, queue' \subseteq queue
    PROVE  DoneInv'
<1>1. \A t \in {s} : Harmless(t)
  BY AsideHarmless
<1>. QED
  BY <1>1, DoneQuiet

LEMMA FillEmpties ==
    ASSUME NEW j, NEW run \in SUBSET Execs, NEW bag, FillParallel(j, run, bag), queue \subseteq Execs
    PROVE  \E es, T :
              /\ es \in SUBSET (queue \cap ExecsOf(j)) /\ Dispatch(es, run, bag, T)
              /\ T = {} \/ T = {JobAt("tally", j)}
              /\ T # {} => \A x \in ExecsOf(j) : x \notin queue' \cup running'
<1>1. CASE ~ Active(j)
  BY <1>1 DEF FillParallel, NoDispatch
<1>2. CASE Active(j)
  <2>. DEFINE mine == queue \cap ExecsOf(j)
              On(take) == {e \in take : MachineOf[e] \in online}
              T(take) == IF Drained(mine \ take, (run \cap ExecsOf(j)) \cup On(take))
                         THEN {JobAt("tally", j)} ELSE {}
  <2>1. PICK take \in SUBSET mine : Dispatch(take, run, bag, T(take))
    BY <1>2 DEF FillParallel
  <2>2. T(take) = {} \/ T(take) = {JobAt("tally", j)}
    OBVIOUS
  <2>3. ASSUME T(take) # {}, NEW x \in ExecsOf(j)
        PROVE  x \notin queue' \cup running'
    <3>1. mine \ take = {} /\ (run \cap ExecsOf(j)) \cup On(take) = {}
      BY <2>3 DEF Drained
    <3>2. queue' = queue \ take /\ running' = run \cup On(take)
      BY <2>1 DEF Dispatch
    <3>. QED
      BY <3>1, <3>2
  <2>. QED
    BY <2>1, <2>2, <2>3
<1>. QED
  BY <1>1, <1>2

(* A dispatch; the executions whose slots it finds free do not need them.   *)
LEMMA DoneDispatch ==
    ASSUME TypeOK, JobAssumption, DoneInv, NEW j \in Jobs, NEW es \in SUBSET ExecsOf(j),
           NEW run \in SUBSET running,
           \A x \in running \ run : OfParallel(x) => ~ OnTheWay(x) /\ x \notin es,
           NEW a, NEW T, \A t \in T : t.op \in {"tally", "evaluate"} /\ t.job = j,
           Dispatch(es, run, Without(a), T), UNCHANGED <<execStatus, jobStatus>>,
           Mode[j] = "parallel" =>
              /\ ~ Unstarted(j)' /\ es \subseteq queue
              /\ (\E t \in T : t.op = "tally") => \A x \in ExecsOf(j) : x \notin queue' \cup running'
    PROVE  DoneInv'
<1>. DEFINE on == {e \in es : MachineOf[e] \in online}
            N == {At("offline", e) : e \in es \ on} \cup {At("run", e) : e \in on} \cup T
<1>0. IsABag(awaiting) /\ IsABag(Without(a)) /\ BagToSet(Without(a)) \subseteq BagToSet(awaiting)
  BY WithoutBag DEF TypeOK
<1>1. /\ BagToSet(awaiting') \subseteq BagToSet(awaiting) \cup N
      /\ queue' = queue \ es /\ running' = run \cup on
  BY <1>0, WithBag DEF Dispatch
<1>2. \A n \in N : /\ n.op \in {"offline", "run", "tally", "evaluate"}
                   /\ n.op = "offline" => n.db = "issued"
                   /\ n.op = "run" => n.exec \in on
                   /\ n.op = "tally" => n \in T /\ n.job = j
  BY DEF At
<1>3. on \subseteq es /\ es \subseteq ExecsOf(j) /\ running \subseteq Execs
  BY DEF TypeOK
<1>. HIDE DEF N, on
<1>4. ASSUME NEW i \in Jobs, i # j PROVE Emptied(i)'
  <2>1. Finishing(i)' => Finishing(i)
    BY <1>1, <1>2, <1>4 DEF Finishing
  <2>2. Unstarted(i)' => Unstarted(i)
    BY <1>1, <1>2 DEF Unstarted, OfStart
  <2>3. \A x \in ExecsOf(i) : x \in queue' \cup running' => x \in queue \cup running
    BY <1>1, <1>3, <1>4 DEF ExecsOf
  <2>. QED
    BY <2>1, <2>2, <2>3 DEF DoneInv, Emptied
<1>5. Emptied(j)'
  <2>1. CASE \E t \in T : t.op = "tally"
    BY <2>1 DEF Emptied
  <2>2. CASE ~ \E t \in T : t.op = "tally"
    <3>1. Finishing(j)' => Finishing(j)
      BY <1>1, <1>2, <2>2 DEF Finishing
    <3>2. ASSUME Mode[j] = "parallel", Finishing(j), NEW x \in ExecsOf(j)
          PROVE  x \notin queue' \cup running'
      <4>1. \A y \in ExecsOf(j) : y \notin queue \cup running
        BY <3>2 DEF DoneInv, Emptied
      <4>2. es = {}
        BY <3>2, <4>1
      <4>. QED
        BY <1>1, <1>3, <4>1, <4>2
    <3>. QED
      BY <3>1, <3>2 DEF Emptied
  <2>. QED
    BY <2>1, <2>2
<1>6. ASSUME NEW e \in Execs PROVE Accounted(e)'
  <2>. SUFFICES ASSUME OfParallel(e)
                PROVE  /\ OnTheWay(e)' => e \in running'
                       /\ \A b \in BagToSet(awaiting') :
                             b.op \in WrittenOps /\ b.exec = e /\ b.db = "done" => Recorded(e)'
    BY ParallelPrime DEF Accounted
  <2>1. Suspended(e, SendOps)' => Suspended(e, SendOps)
    BY <1>1, <1>2 DEF Suspended, SendOps
  <2>2. Suspended(e, {"run"})' => Suspended(e, {"run"}) \/ e \in on
    BY <1>1, <1>2 DEF Suspended
  <2>3. OnTheWay(e)' => OnTheWay(e) \/ e \in on
    BY <2>1, <2>2 DEF OnTheWay, Recorded
  <2>4. OnTheWay(e)' => e \in running'
    <3>1. OnTheWay(e) => e \in running
      BY DEF DoneInv, Accounted
    <3>2. e \in running /\ OnTheWay(e) => e \in run
      OBVIOUS
    <3>. QED
      BY <1>1, <2>3, <3>1, <3>2
  <2>5. ASSUME NEW b \in BagToSet(awaiting'), b.op \in WrittenOps, b.exec = e, b.db = "done"
        PROVE  Recorded(e)'
    <3>1. b \notin N
      BY <1>2, <2>5 DEF WrittenOps, Outcomes
    <3>. QED
      BY <1>1, <2>5, <3>1 DEF DoneInv, Accounted, Recorded
  <2>. QED
    BY <2>4, <2>5
<1>. QED
  BY <1>4, <1>5, <1>6 DEF DoneInv

LEMMA RollEmpties ==
    ASSUME NEW j, NEW k, NEW run, NEW bag, RunRollingBatch(j, k, run, bag)
    PROVE  \E es, T : /\ es \in SUBSET ExecsOf(j) /\ Dispatch(es, run, bag, T)
                      /\ T = {} \/ T = {JobAt("tally", j)}
<1>1. Wave(j, k) \subseteq ExecsOf(j)
  BY DEF Wave
<1>. QED
  BY <1>1 DEF RunRollingBatch, NoDispatch

LEMMA TallyOfJob ==
    ASSUME NEW j, NEW T, T = {} \/ T = {JobAt("tally", j)}
    PROVE  \A t \in T : t.op \in {"tally", "evaluate"} /\ t.job = j
<1>1. JobAt("tally", j).op = "tally" /\ JobAt("tally", j).job = j
  BY DEF JobAt
<1>. QED
  BY <1>1

(* A dispatch starts no job, neither its own nor another.                   *)
LEMMA DispatchUnstarts ==
    ASSUME IsABag(awaiting), NEW j, NEW es, NEW run, NEW a, NEW T,
           \A t \in T : t.op \in {"tally", "evaluate"} /\ t.job = j,
           Dispatch(es, run, Without(a), T), UNCHANGED jobStatus, Unstarted(j)'
    PROVE  \/ jobStatus[j] = "none"
           \/ \E b \in BagToSet(Without(a)) : b.op \in {"create", "start"} /\ b.job = j
<1>. DEFINE on == {e \in es : MachineOf[e] \in online}
            N == {At("offline", e) : e \in es \ on} \cup {At("run", e) : e \in on} \cup T
<1>1. BagToSet(awaiting') = BagToSet(Without(a)) \cup N
  BY WithoutBag, WithBag DEF Dispatch
<1>2. \A n \in N : n.op \in {"offline", "run", "tally", "evaluate"}
  BY DEF At
<1>. HIDE DEF N
<1>. QED
  BY <1>1, <1>2 DEF Unstarted, OfStart

LEMMA DispatchKeepsUnstarted ==
    ASSUME IsABag(awaiting), NEW j, NEW es, NEW run, NEW a, NEW T,
           \A t \in T : t.op \in {"tally", "evaluate"} /\ t.job = j,
           Dispatch(es, run, Without(a), T), UNCHANGED jobStatus, Unstarted(j)'
    PROVE  Unstarted(j)
<1>1. \/ jobStatus[j] = "none"
      \/ \E b \in BagToSet(Without(a)) : b.op \in {"create", "start"} /\ b.job = j
  BY DispatchUnstarts
<1>2. BagToSet(Without(a)) \subseteq BagToSet(awaiting)
  BY WithoutBag
<1>. QED
  BY <1>1, <1>2 DEF Unstarted, OfStart

LEMMA FinishDone ==
    ASSUME JobAssumption, IInv, DoneInv, NEW e \in Execs,
           DispatchFailed(e) \/ ExecutionCompleted(e) \/ ExecutionTimedOut(e)
    PROVE  DoneInv'
<1>. DEFINE j == JobOf[e]
<1>0. /\ TypeOK /\ Phases /\ StartsOnce /\ QueuedIsFresh /\ IsABag(awaiting)
      /\ j \in Jobs /\ Mode[j] \in {"parallel", "rolling"} /\ e \in ExecsOf(j)
      /\ queue \subseteq Execs /\ running \subseteq Execs
  BY DEF IInv, DispatchedOnce, TypeOK, JobAssumption, ExecsOf
<1>1. PICK o \in WrittenOps : BagIn(Now(o, e), awaiting) /\ OnExecutionFinished(e, Without(Now(o, e)))
  BY DEF DispatchFailed, ExecutionCompleted, ExecutionTimedOut, Ready, WrittenOps, Outcomes
<1>2. PICK a : /\ OnExecutionFinished(e, Without(a)) /\ (OfParallel(e) => Recorded(e))
               /\ UnderWay(e) /\ ~ Fresh(e)
  <2>. DEFINE c == Now(o, e)
  <2>1. /\ c.op \in WrittenOps /\ c.exec = e /\ c.db = "done"
        /\ c \notin {At("run", e), At("offline", e), Now("run", e)}
    BY DEF Now, At, WrittenOps, Outcomes
  <2>2. c \in OfExec(e) /\ c \in BagToSet(awaiting)
    BY <1>0, <1>1, ExecAwaitRecs, OfExecRecs DEF BagIn, WriteOps, WrittenOps, Outcomes
  <2>3. UnderWay(e) /\ ~ Fresh(e)
    BY <1>0, <2>1, <2>2, PhaseOfAwait
  <2>4. OnExecutionFinished(e, Without(c))
    BY <1>1
  <2>. HIDE DEF c
  <2>. QED
    BY <2>1, <2>2, <2>3, <2>4 DEF DoneInv, Accounted
<1>3. ASSUME OfParallel(e) PROVE ~ OnTheWay(e)
  <2>0. SentOnce(e) /\ Recorded(e)
    BY <1>2, <1>3, ParallelOnce
  <2>1. ASSUME Suspended(e, {"run"}) PROVE FALSE
    <3>1. PICK b \in BagToSet(awaiting) : b.op = "run" /\ b.exec = e
      BY <2>1 DEF Suspended
    <3>2. b \in [op: WriteOps, exec: Execs, db: {"issued", "done"}]
      BY <1>0, <3>1 DEF TypeOK, Await, ExecAwait, JobAwait, SendOps, LookupOps
    <3>3. b \in OfExec(e) /\ b \in {At("run", e), Now("run", e)}
      BY <3>1, <3>2 DEF OfExec, ExecOps, At, Now
    <3>. QED
      BY <2>0, <3>3 DEF SentOnce
  <2>. QED
    BY <2>0, <2>1 DEF OnTheWay
<1>4. UNCHANGED <<execStatus, jobStatus>>
  BY DEF DispatchFailed, ExecutionCompleted, ExecutionTimedOut, dbVars
<1>5. e \notin queue /\ ~ Unstarted(j)
  BY <1>0, <1>2 DEF QueuedIsFresh, StartsOnce
<1>6. SlotFreed(e) \in SUBSET running /\ \A x \in running \ SlotFreed(e) : x = e
  BY DEF SlotFreed
<1>7. IsABag(awaiting) /\ \A t \in {} : t.op \in {"tally", "evaluate"} /\ t.job = j
  BY <1>0
<1>8. CASE j \notin known
  <2>1. Dispatch({}, running, Without(a), {})
    BY <1>2, <1>8 DEF OnExecutionFinished, NoDispatch
  <2>2. Unstarted(j)' => Unstarted(j)
    <3>1. \A t \in {} : t.op \in {"tally", "evaluate"} /\ t.job = j
      OBVIOUS
    <3>. QED
      BY <1>0, <1>4, <2>1, <3>1, DispatchKeepsUnstarted
  <2>. QED
    BY <1>0, <1>4, <1>5, <2>1, <2>2, DoneDispatch
<1>9. CASE j \in known /\ Mode[j] = "parallel"
  <2>1. FillParallel(j, SlotFreed(e), Without(a))
    BY <1>2, <1>9 DEF OnExecutionFinished
  <2>2. PICK es, T :
           /\ es \in SUBSET (queue \cap ExecsOf(j)) /\ Dispatch(es, SlotFreed(e), Without(a), T)
           /\ T = {} \/ T = {JobAt("tally", j)}
           /\ T # {} => \A x \in ExecsOf(j) : x \notin queue' \cup running'
    BY <1>0, <1>6, <2>1, FillEmpties
  <2>3. \A t \in T : t.op \in {"tally", "evaluate"} /\ t.job = j
    BY <2>2, TallyOfJob
  <2>4. Unstarted(j)' => Unstarted(j)
    BY <1>0, <1>4, <2>2, <2>3, DispatchKeepsUnstarted
  <2>5. e \notin es /\ es \in SUBSET ExecsOf(j) /\ es \subseteq queue
    BY <1>5, <2>2
  <2>. HIDE DEF j
  <2>. QED
    BY <1>0, <1>3, <1>4, <1>5, <1>6, <2>2, <2>3, <2>4, <2>5, DoneDispatch
<1>10. CASE j \in known /\ Mode[j] # "parallel"
  <2>. DEFINE ev == [op |-> "evaluate", job |-> j, batch |-> currentBatch[j], db |-> "issued"]
  <2>1. PICK T \in SUBSET {ev} : Dispatch({}, SlotFreed(e), Without(a), T)
    BY <1>2, <1>10 DEF OnExecutionFinished, NoDispatch
  <2>2. \A t \in T : t.op \in {"tally", "evaluate"} /\ t.job = j
    BY <2>1
  <2>. HIDE DEF ev
  <2>. QED
    BY <1>0, <1>3, <1>4, <1>6, <1>10, <2>1, <2>2, DoneDispatch
<1>. QED
  BY <1>8, <1>9, <1>10

LEMMA StartedDone ==
    ASSUME JobAssumption, IInv, DoneInv, NEW j \in Jobs, JobStarted(j)
    PROVE  DoneInv'
<1>0. /\ TypeOK /\ StartsOnce /\ IsABag(awaiting) /\ queue \subseteq Execs /\ running \subseteq Execs
      /\ running \in SUBSET running
  BY DEF IInv, DispatchedOnce, TypeOK
<1>1. PICK a : /\ a \in OfStart(j) /\ FirstDispatch(j, Without(a))
  <2>. DEFINE c == [op |-> "start", job |-> j, db |-> "done"]
  <2>1. c \in BagToSet(awaiting) /\ FirstDispatch(j, Without(c)) /\ c.op = "start" /\ c.job = j
    BY DEF JobStarted, Ready, BagIn
  <2>. HIDE DEF c
  <2>. QED
    BY <2>1 DEF OfStart
<1>2. UNCHANGED <<execStatus, jobStatus>>
  BY DEF JobStarted, dbVars
<1>3. jobStatus[j] # "none" /\ ~ \E b \in BagToSet(Without(a)) : b.op \in {"create", "start"} /\ b.job = j
  <2>1. jobStatus[j] # "none" /\ OfStart(j) = {a} /\ awaiting[a] = 1
    BY <1>0, <1>1 DEF StartsOnce, Sole
  <2>2. a \notin BagToSet(Without(a)) /\ BagToSet(Without(a)) \subseteq BagToSet(awaiting)
    BY <1>0, <1>1, <2>1, WithoutCopies, WithoutBag DEF OfStart
  <2>. QED
    BY <2>1, <2>2 DEF OfStart
<1>4. PICK es, T :
         /\ es \in SUBSET ExecsOf(j) /\ Dispatch(es, running, Without(a), T)
         /\ T = {} \/ T = {JobAt("tally", j)}
         /\ Mode[j] = "parallel" =>
              /\ es \subseteq queue
              /\ T # {} => \A x \in ExecsOf(j) : x \notin queue' \cup running'
  <2>1. CASE Mode[j] = "rolling"
    <3>1. RunRollingBatch(j, currentBatch[j], running, Without(a))
      BY <1>1, <2>1 DEF FirstDispatch
    <3>. QED
      BY <2>1, <3>1, RollEmpties
  <2>2. CASE Mode[j] # "rolling"
    <3>1. FillParallel(j, running, Without(a))
      BY <1>1, <2>2 DEF FirstDispatch
    <3>2. running \in SUBSET Execs
      BY <1>0
    <3>. QED
      BY <1>0, <3>1, <3>2, FillEmpties
  <2>. QED
    BY <2>1, <2>2
<1>5. \A t \in T : t.op \in {"tally", "evaluate"} /\ t.job = j
  BY <1>4, TallyOfJob
<1>6. ~ Unstarted(j)'
  BY <1>0, <1>2, <1>3, <1>4, <1>5, DispatchUnstarts
<1>7. (\E t \in T : t.op = "tally") => T # {}
  OBVIOUS
<1>. QED
  BY <1>0, <1>2, <1>4, <1>5, <1>6, <1>7, DoneDispatch

LEMMA RemainingDone ==
    ASSUME TypeOK, JobAssumption, DoneInv, NEW j, NEW a,
           AbortRemaining(j, awaiting) \/ AbortRemaining(j, Without(a)),
           UNCHANGED <<execStatus, jobStatus, queue, running>>
    PROVE  DoneInv'
<1>. DEFINE s == [op |-> "skip", job |-> j, ids |-> PendingIds(j), db |-> "issued"]
<1>1. Harmless(s)
  BY DEF Harmless, SendOps, WrittenOps, Outcomes
<1>2. Swaps(a, {s})
  BY DEF AbortRemaining, Swaps
<1>. HIDE DEF s
<1>. QED
  BY <1>1, <1>2, DoneQuiet

LEMMA EvaluatedDone ==
    ASSUME JobAssumption, IInv, DoneInv, NEW j \in Jobs, BatchEvaluated(j)
    PROVE  DoneInv'
<1>0. TypeOK /\ running \in SUBSET running
  BY DEF IInv
<1>1. UNCHANGED <<execStatus, jobStatus>>
  BY DEF BatchEvaluated, dbVars
<1>2. PICK a : /\ a \in BagToSet(awaiting) /\ a.op = "evaluate" /\ a.job = j
               /\ \/ AbortRemaining(j, Without(a)) /\ UNCHANGED <<queue, running>>
                  \/ \E T : NoDispatch(running, Without(a), T) /\ (T = {} \/ T = {JobAt("tally", j)})
                  \/ \E k : RunRollingBatch(j, k, running, Without(a))
  <2>1. PICK v \in {"stop", "go"}, k \in 1..currentBatch[j] :
          LET a == [op |-> "evaluate", job |-> j, batch |-> k, db |-> v]
          IN  /\ a \in BagToSet(awaiting)
              /\ \/ AbortRemaining(j, Without(a)) /\ UNCHANGED <<queue, running>>
                 \/ \E T : NoDispatch(running, Without(a), T) /\ (T = {} \/ T = {JobAt("tally", j)})
                 \/ RunRollingBatch(j, NextBatch(j), running, Without(a))
    BY DEF BatchEvaluated, Ready, BagIn
  <2>. DEFINE c == [op |-> "evaluate", job |-> j, batch |-> k, db |-> v]
  <2>2. /\ c \in BagToSet(awaiting) /\ c.op = "evaluate" /\ c.job = j
        /\ \/ AbortRemaining(j, Without(c)) /\ UNCHANGED <<queue, running>>
           \/ \E T : NoDispatch(running, Without(c), T) /\ (T = {} \/ T = {JobAt("tally", j)})
           \/ RunRollingBatch(j, NextBatch(j), running, Without(c))
    BY <2>1
  <2>. HIDE DEF c
  <2>. QED
    BY <2>2
<1>3. Mode[j] # "parallel"
  BY <1>2 DEF IInv, RollingOnly
<1>4. CASE AbortRemaining(j, Without(a)) /\ UNCHANGED <<queue, running>>
  BY <1>0, <1>1, <1>4, RemainingDone
<1>5. ASSUME NEW es, NEW T, es \in SUBSET ExecsOf(j), Dispatch(es, running, Without(a), T),
             T = {} \/ T = {JobAt("tally", j)}
      PROVE  DoneInv'
  <2>1. \A t \in T : t.op \in {"tally", "evaluate"} /\ t.job = j
    BY <1>5, TallyOfJob
  <2>. QED
    BY <1>0, <1>1, <1>3, <1>5, <2>1, DoneDispatch
<1>6. CASE \E T : NoDispatch(running, Without(a), T) /\ (T = {} \/ T = {JobAt("tally", j)})
  <2>1. {} \in SUBSET ExecsOf(j)
    OBVIOUS
  <2>. QED
    BY <1>5, <1>6, <2>1 DEF NoDispatch
<1>7. CASE \E k : RunRollingBatch(j, k, running, Without(a))
  BY <1>5, <1>7, RollEmpties
<1>. QED
  BY <1>2, <1>4, <1>6, <1>7

LEMMA PauseOverDone ==
    ASSUME JobAssumption, IInv, DoneInv, NEW j \in Jobs, PauseOver(j)
    PROVE  DoneInv'
<1>0. TypeOK /\ running \in SUBSET running
  BY DEF IInv
<1>1. UNCHANGED <<execStatus, jobStatus>> /\ RunRollingBatch(j, currentBatch[j], running, awaiting)
  BY DEF PauseOver, dbVars
<1>2. Mode[j] # "parallel"
  BY PauseOverDispatches
<1>3. PICK es, T : /\ es \in SUBSET ExecsOf(j) /\ Dispatch(es, running, awaiting, T)
                   /\ T = {} \/ T = {JobAt("tally", j)}
  BY <1>1, RollEmpties
<1>4. PICK a : a.op = "pause" /\ Without(a) = awaiting
  BY <1>0, NothingRemoved
<1>5. Dispatch(es, running, Without(a), T) /\ \A t \in T : t.op \in {"tally", "evaluate"} /\ t.job = j
  BY <1>3, <1>4, TallyOfJob
<1>. QED
  BY <1>0, <1>1, <1>2, <1>3, <1>5, DoneDispatch

LEMMA JobDone ==
    ASSUME TypeOK, JobAssumption, DoneInv, NEW j \in Jobs,
           \/ CreateJob(j) \/ StartJob(j) \/ JobTallied(j) \/ JobFinished(j)
           \/ RemainingSkipped(j) \/ AbortJob(j)
    PROVE  DoneInv'
<1>1. \A o : JobAt(o, j).op = o /\ JobAt(o, j).job = j
  BY DEF JobAt
<1>2. Aside(JobAt("abort", j))
  BY <1>1 DEF Aside, SendOps, WrittenOps, Outcomes
<1>3. CASE CreateJob(j)
  <2>. DEFINE s == [op |-> "create", job |-> j, db |-> "done"]
  <2>1. jobStatus[j] = "none" /\ jobStatus' = [jobStatus EXCEPT ![j] = "PENDING"]
    BY <1>3 DEF CreateJob
  <2>2. Swaps(s, {s}) /\ s.op = "create" /\ s.job = j
    BY <1>3 DEF CreateJob, Swaps
  <2>. HIDE DEF s
  <2>3. Harmless(s)
    BY <2>1, <2>2 DEF Harmless, Unstarted, SendOps, WrittenOps, Outcomes
  <2>4. NothingAdded
    BY <1>3 DEF CreateJob, stateVars, NothingAdded
  <2>5. StatusesKept
    BY <1>3, <2>1 DEF CreateJob, StatusesKept, Recorded, Finishing, TypeOK
  <2>. QED
    BY <2>2, <2>3, <2>4, <2>5, DoneSwap
<1>4. CASE StartJob(j)
  <2>. DEFINE a == [op |-> "create", job |-> j, db |-> "done"]
  <2>1. a \in BagToSet(awaiting) /\ a.op = "create" /\ a.job = j /\ Swaps(a, {JobAt("start", j)})
    BY <1>4 DEF StartJob, Ready, BagIn, Swaps
  <2>. HIDE DEF a
  <2>2. Unstarted(j)
    BY <2>1 DEF Unstarted, OfStart
  <2>3. Harmless(JobAt("start", j))
    BY <1>1, <2>2 DEF Harmless, SendOps, WrittenOps, Outcomes
  <2>4. NothingAdded
    BY <1>4, <2>2 DEF StartJob, NothingAdded, ExecsOf
  <2>5. StatusesKept
    BY <1>4 DEF StartJob, dbVars, StatusesKept, Recorded, Finishing
  <2>. QED
    BY <2>1, <2>3, <2>4, <2>5, DoneSwap
<1>5. CASE JobTallied(j)
  <2>1. PICK v \in {"SUCCESS", "FAILED"} :
           /\ [op |-> "tally", job |-> j, db |-> v] \in BagToSet(awaiting)
           /\ awaiting' = With(Without([op |-> "tally", job |-> j, db |-> v]),
                  {[op |-> "finish", job |-> j, db |-> "issued",
                    status |-> IF j \in aborted THEN "ABORTED" ELSE v]})
    BY <1>5 DEF JobTallied, Ready, BagIn
  <2>. DEFINE a == [op |-> "tally", job |-> j, db |-> v]
              s == [op |-> "finish", job |-> j, db |-> "issued",
                    status |-> IF j \in aborted THEN "ABORTED" ELSE v]
  <2>2. /\ a \in BagToSet(awaiting) /\ a.op = "tally" /\ a.job = j
        /\ Swaps(a, {s}) /\ s.op = "finish" /\ s.job = j
    BY <2>1 DEF Swaps
  <2>. HIDE DEF a, s
  <2>3. Harmless(s)
    BY <2>2 DEF Harmless, Finishing, SendOps, WrittenOps, Outcomes
  <2>. QED
    BY <1>5, <2>2, <2>3, DoneQuiet DEF JobTallied, dbVars, stateVars
<1>6. CASE JobFinished(j)
  <2>1. PICK s \in JobFinal :
           /\ [op |-> "finish", job |-> j, status |-> s, db |-> "done"] \in BagToSet(awaiting)
           /\ awaiting' = Without([op |-> "finish", job |-> j, status |-> s, db |-> "done"])
    BY <1>6 DEF JobFinished, Ready, BagIn
  <2>. DEFINE a == [op |-> "finish", job |-> j, status |-> s, db |-> "done"]
  <2>2. a \in BagToSet(awaiting) /\ a.op = "finish" /\ a.job = j /\ Swaps(a, {})
    BY <2>1 DEF Swaps
  <2>. HIDE DEF a
  <2>3. Mode[j] = "parallel" => \A x \in ExecsOf(j) : x \notin running
    BY <2>2 DEF DoneInv, Emptied, Finishing
  <2>4. NothingAdded
    BY <1>6, <2>3 DEF JobFinished, NothingAdded, ExecsOf, OfParallel
  <2>5. StatusesKept
    BY <1>6 DEF JobFinished, dbVars, StatusesKept, Recorded, Finishing
  <2>. QED
    BY <2>2, <2>4, <2>5, DoneSwap
<1>7. CASE RemainingSkipped(j)
  <2>1. PICK a : awaiting' = With(Without(a), {JobAt("abort", j)})
    BY <1>7 DEF RemainingSkipped
  <2>2. Swaps(a, {JobAt("abort", j)})
    BY <2>1 DEF Swaps
  <2>. QED
    BY <1>2, <1>7, <2>2, DoneAside DEF RemainingSkipped, dbVars
<1>8. CASE AbortJob(j)
  <2>1. UNCHANGED <<execStatus, jobStatus, queue, running>>
    BY <1>8 DEF AbortJob, dbVars
  <2>2. CASE j \in known
    BY <1>8, <2>1, <2>2, RemainingDone DEF AbortJob
  <2>3. CASE j \notin known
    <3>1. Swaps(JobAt("abort", j), {JobAt("abort", j)})
      BY <1>8, <2>3 DEF AbortJob, Swaps
    <3>. QED
      BY <1>2, <2>1, <3>1, DoneAside
  <2>. QED
    BY <2>2, <2>3
<1>. QED
  BY <1>3, <1>4, <1>5, <1>6, <1>7, <1>8

LEMMA SendDone ==
    ASSUME JobAssumption, TypeOK, Phases, DoneInv, NEW e \in Execs,
           \/ StartSending(e) \/ CommandSent(e) \/ CommandSentIntoClosedSocket(e)
           \/ CommandNotSent(e)
    PROVE  DoneInv'
<1>0. /\ IsABag(awaiting)
      /\ \A o : /\ At(o, e).op = o /\ At(o, e).exec = e /\ At(o, e).db = "issued"
                /\ Now(o, e).op = o /\ Now(o, e).exec = e
  BY DEF TypeOK, At, Now
<1>1. CASE StartSending(e)
  <2>1. PICK o \in SendOps : /\ Now("run", e) \in BagToSet(awaiting)
                             /\ awaiting' = With(Without(Now("run", e)), {Now(o, e)})
    BY <1>1 DEF StartSending, Marked, SendOps, BagIn
  <2>2. Suspended(e, {"run"} \cup SendOps)
    BY <1>0, <2>1 DEF Suspended
  <2>3. Harmless(Now(o, e))
    BY <1>0, <2>2 DEF Harmless, SendOps, WrittenOps, Outcomes
  <2>4. Swaps(Now("run", e), {Now(o, e)})
    BY <2>1 DEF Swaps
  <2>. QED
    BY <1>1, <2>3, <2>4, DoneQuiet DEF StartSending, dbVars, stateVars
<1>2. CASE CommandSent(e) \/ CommandSentIntoClosedSocket(e)
  <2>1. PICK a : Swaps(a, {})
    BY <1>2 DEF CommandSent, CommandSentIntoClosedSocket, Swaps
  <2>. QED
    BY <1>2, <2>1, DoneQuiet DEF CommandSent, CommandSentIntoClosedSocket, dbVars, stateVars
<1>3. CASE CommandNotSent(e)
  <2>1. PICK o \in SendOps : /\ Now(o, e) \in BagToSet(awaiting)
                             /\ awaiting' = With(Without(Now(o, e)), {At("sendFailed", e)})
    BY <1>3 DEF CommandNotSent, Ready, BagIn
  <2>. DEFINE a == Now(o, e)
              X == {b \in ExecRecs(e) : b.op \in SendOps}
  <2>2. a \in OfExec(e) /\ a.op \in SendOps
    BY <1>0, <2>1, ExecAwaitRecs, OfExecRecs
  <2>3. UnderWay(e)
    <3>1. a \notin {At("run", e), At("offline", e), Now("run", e)}
      BY <1>0, <2>2 DEF SendOps
    <3>. QED
      BY <2>2, <3>1, PhaseOfAwait
  <2>4. ASSUME OfParallel(e) PROVE SentOnce(e) /\ Sole(BagToSet(awaiting) \cap X, a)
    <3>0. SentOnce(e)
      BY <2>3, <2>4, ParallelOnce
    <3>1. Sole({b \in OfExec(e) : b.op \in SendOps}, a)
      BY <2>2, <3>0 DEF SentOnce, Sole
    <3>. QED
      BY <3>0, <3>1, OfExecRecs DEF Sole
  <2>5. awaiting' = With(Without(a), {At("sendFailed", e)})
    BY <2>1
  <2>. HIDE DEF a, X
  <2>6. ASSUME OfParallel(e) PROVE BagToSet(awaiting') \cap X = {At("sendFailed", e)} \cap X
    <3>1. Sole(BagToSet(awaiting) \cap X, a)
      BY <2>4, <2>6
    <3>. QED
      BY <1>0, <2>5, <3>1, SoleReplaced
  <2>7. ASSUME OfParallel(e) PROVE ~ Suspended(e, SendOps)'
    <3>1. {At("sendFailed", e)} \cap X = {}
      BY <1>0 DEF SendOps, X
    <3>2. \A b \in BagToSet(awaiting') : b \in Await
      <4>1. At("sendFailed", e) \in Await
        BY ExecAwaitRecs DEF ExecRecs, WriteOps
      <4>2. BagToSet(awaiting') \subseteq BagToSet(awaiting) \cup {At("sendFailed", e)}
        BY <1>0, <2>1, SwapSet DEF Swaps
      <4>. QED
        BY <4>1, <4>2 DEF TypeOK
    <3>3. \A b \in BagToSet(awaiting') : b.op \in SendOps /\ b.exec = e => b \in X
      BY <3>2 DEF ExecRecs, ExecOps, X
    <3>. QED
      BY <2>6, <2>7, <3>1, <3>3 DEF Suspended
  <2>8. ASSUME OfParallel(e) PROVE ~ Suspended(e, {"run"})'
    <3>1. ~ Suspended(e, {"run"})
      <4>1. ASSUME NEW b \in BagToSet(awaiting), b.op = "run", b.exec = e PROVE FALSE
        <5>1. b \in [op: WriteOps, exec: Execs, db: {"issued", "done"}]
          BY <4>1 DEF TypeOK, Await, ExecAwait, JobAwait, SendOps, LookupOps
        <5>2. b \in OfExec(e) /\ b \in {At("run", e), Now("run", e)}
          BY <4>1, <5>1 DEF OfExec, ExecOps, At, Now
        <5>. QED
          BY <2>4, <2>8, <5>2 DEF SentOnce
      <4>. QED
        BY <4>1 DEF Suspended
    <3>2. BagToSet(awaiting') \subseteq BagToSet(awaiting) \cup {At("sendFailed", e)}
      BY <1>0, <2>1, SwapSet DEF Swaps
    <3>. QED
      BY <1>0, <3>1, <3>2 DEF Suspended
  <2>9. running' = running \ {e} /\ UNCHANGED <<queue, execStatus, jobStatus>>
    BY <1>3 DEF CommandNotSent, dbVars
  <2>10. NothingAdded
    BY <2>7, <2>8, <2>9 DEF NothingAdded, OnTheWay
  <2>11. StatusesKept
    BY <2>9 DEF StatusesKept, Recorded, Finishing
  <2>12. Harmless(At("sendFailed", e))
    BY <1>0 DEF Harmless, SendOps
  <2>13. Swaps(a, {At("sendFailed", e)})
    BY <2>1 DEF Swaps, a
  <2>. QED
    BY <2>10, <2>11, <2>12, <2>13, DoneSwap
<1>. QED
  BY <1>1, <1>2, <1>3

LEMMA OutcomeAside == \A x : \A ok \in BOOLEAN : Aside(At(FinalOp(ok), x))
  BY DEF Aside, At, FinalOp, SendOps

LEMMA AnswerDone ==
    ASSUME JobAssumption, TypeOK, DoneInv, NEW e \in Execs,
           \/ TimerFires(e) \/ TimerChecked(e) \/ AgentOutput(e) \/ AnswerLost(e)
           \/ ForgetCompleted(e)
           \/ \E ok \in BOOLEAN : AgentAnswer(e, ok) \/ LookedUp(e, ok)
    PROVE  DoneInv'
<1>0. UNCHANGED <<execStatus, jobStatus, queue, running>>
  BY DEF TimerFires, ReadsStatus, TimerChecked, AgentOutput, OutputFor, AnswerLost, ForgetCompleted, AgentAnswer,
     CompletionFor, LookedUp, dbVars, stateVars
<1>1. PICK a, s : Aside(s) /\ Swaps(a, {s})
  <2>1. CASE TimerFires(e)
    <3>1. Aside(At("check", e))
      BY DEF Aside, At, SendOps
    <3>2. Swaps(At("check", e), {At("check", e)})
      BY <2>1 DEF TimerFires, ReadsStatus, Swaps
    <3>. QED
      BY <3>1, <3>2
  <2>2. CASE TimerChecked(e)
    <3>1. Aside(At("timedOut", e))
      BY DEF Aside, At, SendOps
    <3>2. PICK a : Swaps(a, {At("timedOut", e)})
      BY <2>2 DEF TimerChecked, Swaps
    <3>. QED
      BY <3>1, <3>2
  <2>3. CASE AgentOutput(e) \/ AnswerLost(e) \/ ForgetCompleted(e)
    <3>1. Aside(At("check", e))
      BY DEF Aside, At, SendOps
    <3>2. Swaps(At("check", e), {At("check", e)})
      BY <2>3 DEF AgentOutput, OutputFor, AnswerLost, ForgetCompleted, Swaps
    <3>. QED
      BY <3>1, <3>2
  <2>4. ASSUME NEW ok \in BOOLEAN, AgentAnswer(e, ok) \/ LookedUp(e, ok)
        PROVE  \E a, s : Aside(s) /\ Swaps(a, {s})
    <3>. DEFINE l == Now(IF ok THEN "lookupSucceed" ELSE "lookupFail", e)
    <3>1. Aside(l)
      BY DEF Aside, Now, SendOps, WrittenOps, Outcomes
    <3>2. \/ awaiting' = With(Without(l), {At(FinalOp(ok), e)})
          \/ awaiting' = With(awaiting, {l})
          \/ \E x : awaiting' = With(awaiting, {At(FinalOp(ok), x)})
      BY <2>4 DEF LookedUp, AgentAnswer, CompletionFor
    <3>. HIDE DEF l
    <3>. QED
      BY <3>1, <3>2, OutcomeAside DEF Swaps
  <2>. QED
    BY <2>1, <2>2, <2>3, <2>4
<1>. QED
  BY <1>0, <1>1, DoneAside

LEMMA OutsideDone ==
    ASSUME JobAssumption, TypeOK, DoneInv, NEW m,
           \/ AgentConnect(m) \/ AgentDisconnect(m) \/ InteractiveOutput(m)
           \/ \E ok \in BOOLEAN : InteractiveAnswer(m, ok)
           \/ UNCHANGED vars
    PROVE  DoneInv'
<1>0. UNCHANGED <<execStatus, jobStatus, queue, running>>
  BY DEF AgentConnect, AgentDisconnect, InteractiveOutput, OutputFor, InteractiveAnswer,
     CompletionFor, vars, dbVars, stateVars
<1>1. NothingAdded /\ StatusesKept
  BY <1>0 DEF NothingAdded, StatusesKept, Recorded, Finishing
<1>2. ASSUME NEW x, NEW ok \in BOOLEAN,
             UNCHANGED awaiting \/ awaiting' = With(awaiting, {At(FinalOp(ok), x)})
      PROVE  DoneInv'
  <2>1. Aside(At(FinalOp(ok), x))
    BY OutcomeAside
  <2>2. Swaps(x, {At(FinalOp(ok), x)})
    BY <1>2 DEF Swaps
  <2>. QED
    BY <1>0, <2>1, <2>2, DoneAside
<1>3. CASE AgentDisconnect(m)
  <2>1. PICK sends, dead : SendsClose(sends, dead)
    BY <1>3, ClosedSends
  <2>2. ASSUME NEW s \in dead PROVE Harmless(s)
    <3>1. PICK b \in BagToSet(awaiting) : b.op = "send" /\ b.exec = s.exec
      BY <2>1 DEF SendsClose, Now
    <3>2. Suspended(s.exec, {"run"} \cup SendOps)
      BY <3>1 DEF Suspended, SendOps
    <3>3. s.op = "sendClosed"
      BY <2>1 DEF SendsClose, Now
    <3>. QED
      BY <3>2, <3>3 DEF Harmless, WrittenOps, Outcomes
  <2>3. BagToSet(awaiting') \subseteq BagToSet(awaiting) \cup dead
    BY <2>1 DEF SendsClose
  <2>. QED
    BY <1>1, <2>2, <2>3, DoneBound
<1>4. ASSUME NEW ok \in BOOLEAN, InteractiveAnswer(m, ok)
      PROVE  \E x : awaiting' = With(awaiting, {At(FinalOp(ok), x)})
  BY <1>4 DEF InteractiveAnswer, CompletionFor
<1>5. AgentConnect(m) \/ InteractiveOutput(m) \/ UNCHANGED vars => UNCHANGED awaiting
  BY DEF AgentConnect, InteractiveOutput, OutputFor, vars
<1>. QED
  BY <1>2, <1>3, <1>4, <1>5

LEMMA RestartDone ==
    ASSUME ServerRestart
    PROVE  DoneInv'
<1>1. queue' = {} /\ running' = {} /\ BagToSet(awaiting') = {} /\ UNCHANGED dbVars
  BY DEF ServerRestart, BagToSet, EmptyBag, SetToBag
<1>2. ASSUME NEW j \in Jobs PROVE Emptied(j)'
  <2>1. Finishing(j)' => jobStatus'[j] \in {"SUCCESS", "FAILED"}
    BY <1>1 DEF Finishing
  <2>. QED
    BY <1>1, <2>1 DEF Emptied, Unstarted, OfStart
<1>3. ASSUME NEW e \in Execs PROVE Accounted(e)'
  BY <1>1 DEF Accounted, OnTheWay, Suspended
<1>. QED
  BY <1>2, <1>3 DEF DoneInv

LEMMA DbDone ==
    ASSUME JobAssumption, IInv, DoneInv, DbStep
    PROVE  DoneInv'
<1>0. TypeOK /\ Phases /\ SkipsAreFresh /\ IsABag(awaiting)
  BY DEF IInv, DispatchedOnce, TypeOK
<1>1. PICK a \in BagToSet(awaiting) :
        a.db = "issued" /\ (DbWriteExecution(a) \/ DbSkip(a) \/ DbWriteJob(a) \/ DbRead(a))
  BY DEF DbStep
<1>2. NothingAdded /\ UNCHANGED <<queue, running>>
  BY DEF DbStep, stateVars, NothingAdded
<1>3. CASE DbWriteExecution(a)
  <2>1. PICK e \in Execs, o \in WriteOps :
           a = At(o, e) /\ \A v : [a EXCEPT !.db = v] = [op |-> o, exec |-> e, db |-> v]
    BY <1>0, <1>1, <1>3, AnsweredExec DEF DbWriteExecution
  <2>. DEFINE s == Now(o, e)
  <2>2. /\ a.op = o /\ a.exec = e /\ s.op = o /\ s.exec = e
        /\ awaiting' = With(Without(a), {s}) /\ execStatus' = [execStatus EXCEPT ![e] = Written(o)]
        /\ UNCHANGED jobStatus
    BY <1>3, <2>1 DEF At, Now, DbWriteExecution, Answered
  <2>. HIDE DEF s
  <2>3. execStatus'[e] = Written(o) /\ \A x \in Execs \ {e} : execStatus'[x] = execStatus[x]
    BY <1>0, <2>2 DEF TypeOK
  <2>4. o # "run" => Recorded(e)'
    BY <2>3 DEF Recorded, Written, WriteOps
  <2>5. o = "run" /\ OfParallel(e) => ~ Recorded(e)
    <3>1. a \in OfExec(e)
      BY <1>0, <2>1, OfExecRecs, ExecAwaitRecs
    <3>2. o = "run" => Claimed(e) \/ Repeated(e)
      BY <1>0, <2>1, <3>1, PhaseOfAwait
    <3>. QED
      BY <3>2, ParallelOnce DEF Claimed, Recorded
  <2>6. Harmless(s)
    <3>1. o = "run" => Suspended(e, {"run"})
      BY <2>2 DEF Suspended
    <3>2. o \notin SendOps \cup {"tally", "finish", "create", "start"}
      BY DEF WriteOps, SendOps
    <3>3. o \in WrittenOps => o # "run"
      BY DEF WrittenOps, Outcomes
    <3>. QED
      BY <2>2, <2>4, <3>1, <3>2, <3>3 DEF Harmless
  <2>7. StatusesKept
    <3>1. ASSUME NEW x \in Execs, OfParallel(x), Recorded(x) PROVE Recorded(x)'
      <4>1. CASE x = e
        BY <2>4, <2>5, <3>1, <4>1
      <4>2. CASE x # e
        BY <2>3, <3>1, <4>2 DEF Recorded
      <4>. QED
        BY <4>1, <4>2
    <3>. QED
      BY <2>2, <3>1 DEF StatusesKept, Finishing
  <2>8. Swaps(a, {s})
    BY <2>2 DEF Swaps
  <2>. QED
    BY <1>0, <1>2, <2>6, <2>7, <2>8, DoneSwap
<1>4. CASE DbSkip(a)
  <2>. DEFINE s == [a EXCEPT !.db = "done"]
  <2>1. /\ a.op = "skip" /\ Swaps(a, {s}) /\ UNCHANGED jobStatus
        /\ execStatus' = [e \in Execs |-> IF e \in a.ids THEN "SKIPPED" ELSE execStatus[e]]
    BY <1>4 DEF DbSkip, Answered, Swaps
  <2>2. s.op = "skip"
    BY <1>0, <2>1, AnsweredJob
  <2>. HIDE DEF s
  <2>3. \A x \in a.ids : Fresh(x)
    BY <1>0, <1>1, <2>1 DEF SkipsAreFresh
  <2>4. StatusesKept
    BY <2>1, <2>3 DEF StatusesKept, Recorded, Fresh, Finishing
  <2>5. Harmless(s)
    BY <2>2 DEF Harmless, SendOps, WrittenOps, Outcomes
  <2>. QED
    BY <1>0, <1>2, <2>1, <2>4, <2>5, DoneSwap
<1>5. CASE DbWriteJob(a) \/ (DbRead(a) /\ a.op # "check")
  <2>1. a.op \in {"start", "finish", "abort", "evaluate", "tally"} /\ UNCHANGED execStatus
    BY <1>5 DEF DbWriteJob, DbRead, dbVars
  <2>2. a.job \in Jobs /\ \A v : [a EXCEPT !.db = v].op = a.op /\ [a EXCEPT !.db = v].job = a.job
    BY <1>0, <2>1, AnsweredJob
  <2>3. PICK v : Swaps(a, {[a EXCEPT !.db = v]})
    BY <1>5 DEF DbWriteJob, DbRead, Answered, Swaps
  <2>. DEFINE s == [a EXCEPT !.db = v]
  <2>4. s.op = a.op /\ s.job = a.job
    BY <2>2
  <2>5. Swaps(a, {s})
    BY <2>3
  <2>. HIDE DEF s
  <2>6. Harmless(s)
    BY <2>1, <2>4 DEF Harmless, Finishing, Unstarted, OfStart, SendOps, WrittenOps, Outcomes
  <2>7. StatusesKept
    <3>1. \A j \in Jobs : \/ jobStatus'[j] = jobStatus[j]
                          \/ jobStatus'[j] \in {"RUNNING", "ABORTED"}
                          \/ a.op = "finish" /\ a.job = j /\ jobStatus'[j] \in JobFinal
      <4>1. a.op = "finish" => a.status \in JobFinal
        BY <1>0 DEF TypeOK, Await, ExecAwait, JobAwait, WriteOps, SendOps, LookupOps
      <4>. QED
        BY <1>0, <1>5, <4>1 DEF DbWriteJob, DbRead, dbVars, TypeOK
    <3>2. \A j \in Jobs : a.op = "finish" /\ a.job = j => Finishing(j)
      BY DEF Finishing
    <3>. QED
      BY <2>1, <3>1, <3>2 DEF StatusesKept, Recorded, Finishing, JobFinal
  <2>. QED
    BY <1>0, <1>2, <2>5, <2>6, <2>7, DoneSwap
<1>6. CASE DbRead(a) /\ a.op = "check"
  <2>1. PICK v : Swaps(a, {[a EXCEPT !.db = v]})
    BY <1>6 DEF DbRead, Answered, Swaps
  <2>2. \A w : [a EXCEPT !.db = w].op = "check"
    BY <1>0, <1>6, AnsweredCheck
  <2>. DEFINE s == [a EXCEPT !.db = v]
  <2>3. Aside(s)
    BY <2>2 DEF Aside, SendOps, WrittenOps, Outcomes
  <2>4. UNCHANGED <<execStatus, jobStatus>>
    BY <1>6 DEF DbRead, dbVars
  <2>. HIDE DEF s
  <2>. QED
    BY <1>0, <1>2, <2>1, <2>3, <2>4, DoneAside DEF s
<1>. QED
  BY <1>1, <1>3, <1>4, <1>5, <1>6

LEMMA DoneStep ==
    ASSUME JobAssumption, Inv, DoneInv, [Next]_vars
    PROVE  DoneInv'
<1>0. IInv /\ TypeOK /\ Phases
  BY DEF Inv, IInv, LimitInv, DispatchedOnce
<1>1. ASSUME NEW j \in Jobs, JobStep(j) PROVE DoneInv'
  BY <1>0, <1>1, JobDone, StartedDone, EvaluatedDone, PauseOverDone DEF JobStep
<1>2. ASSUME NEW e \in Execs, ExecStep(e) \/ AgentStep(e) PROVE DoneInv'
  BY <1>0, <1>2, SendDone, FinishDone, AnswerDone DEF ExecStep, AgentStep
<1>3. CASE Environment
  BY <1>0, <1>3, JobDone, AnswerDone, OutsideDone, RestartDone DEF Environment
<1>. QED
  BY <1>0, <1>1, <1>2, <1>3, DbDone, OutsideDone DEF Next

(* A parallel job is recorded as SUCCESS or FAILED by orchestrator.js only  *)
(* when nothing of it is left in the queue, in a slot, or before its        *)
(* command was given away, however the handlers that refill its slots, the  *)
(* tally of its executions and the writes of their verdicts overtake each   *)
(* other.  What makes this inductive: from the tally on the job is empty    *)
(* and stays so, since whatever could still be sent would hold a slot, and  *)
(* who resumes to free a slot finds the verdict he wrote.                   *)
THEOREM ParallelJobDoneHolds == Spec => []ParallelJobDone
<1>1. Init => Inv
  BY JobAssumption, BoundAssumption, InvInit
<1>2. Init => DoneInv
  <2>1. BagToSet(EmptyBag) = {}
    BY DEF BagToSet, EmptyBag, SetToBag
  <2>. QED
    BY <2>1 DEF Init, DoneInv, Emptied, Finishing, Accounted, OnTheWay, Suspended
<1>3. Inv /\ [Next]_vars => Inv'
  BY JobAssumption, InvStep
<1>4. Inv /\ DoneInv /\ [Next]_vars => DoneInv'
  BY JobAssumption, DoneStep
<1>5. Inv /\ DoneInv => ParallelJobDone
  <2>. SUFFICES ASSUME DoneInv, NEW j \in Jobs, Mode[j] = "parallel",
                       jobStatus[j] \in {"SUCCESS", "FAILED"}, NEW e \in ExecsOf(j)
                PROVE  /\ e \notin queue \cup running
                       /\ ~ BagIn(At("run", e), awaiting) /\ ~ BagIn(Now("run", e), awaiting)
                       /\ \A o \in SendOps : BagIn(Now(o, e), awaiting) => Recorded(e)
    BY DEF ParallelJobDone, Recorded
  <2>1. e \in Execs /\ JobOf[e] = j
    BY DEF ExecsOf
  <2>2. e \notin queue \cup running
    BY DEF DoneInv, Emptied, Finishing
  <2>3. ~ OnTheWay(e)
    BY <2>1, <2>2 DEF DoneInv, Accounted, OfParallel
  <2>4. ~ BagIn(At("run", e), awaiting) /\ ~ BagIn(Now("run", e), awaiting)
    BY <2>3 DEF OnTheWay, Suspended, BagIn, At, Now
  <2>5. ASSUME NEW o \in SendOps, BagIn(Now(o, e), awaiting) PROVE Recorded(e)
    <3>1. Now(o, e) \in BagToSet(awaiting) /\ Now(o, e).op = o /\ Now(o, e).exec = e
      BY <2>5 DEF BagIn, Now
    <3>. QED
      BY <2>3, <3>1 DEF OnTheWay, Suspended
  <2>. QED
    BY <2>2, <2>4, <2>5
<1>. QED
  BY <1>1, <1>2, <1>3, <1>4, <1>5, PTL DEF Spec


-----------------------------------------------------------------------------
(* Waves of one target, as long as nothing disturbs the answers.  Then an   *)
(* execution has one token: a suspended handler, or the command at its      *)
(* agent, or nothing.                                                       *)
TokenOps == {"run", "offline", "sendFailed", "send", "refused", "succeed", "fail"}
Token(e) ==
    /\ inflight[e] \in {"absent", "idle"} /\ loose[e] = 0 /\ atAgent[e] <= 1
    /\ atAgent[e] = 1 => inflight[e] = "idle"
    /\ \A a \in OfExec(e) :
          /\ Sole(OfExec(e), a) /\ atAgent[e] = 0 /\ a.op \in TokenOps
          /\ a.op = "send" => inflight[e] = "idle"
          /\ a.op # "run" /\ a.op \in WriteOps /\ a.db = "done" => Recorded(e)

(* e has its verdict, and nothing more will happen to it.                   *)
Settled(e) == Recorded(e) /\ OfExec(e) = {} /\ atAgent[e] = 0

(* The job has waves of one target, and they are run in order: those before *)
(* the current one are settled, those after it are fresh, and while the     *)
(* current one is evaluated, once, it is settled, too.  While the job waits *)
(* between two waves, for one timer, the wave to come is fresh.             *)
Canary(j) ==
    Mode[j] = "rolling" /\ \A e, f \in ExecsOf(j) : BatchOf[e] = BatchOf[f] => e = f
Evals(j) == {a \in BagToSet(awaiting) : a.op = "evaluate" /\ a.job = j}
AllSettled(j) == \A x \in ExecsOf(j) : BatchOf[x] <= currentBatch[j] => Settled(x)
Waiting(j) ==
    /\ pauses[j] = 1 /\ Evals(j) = {}
    /\ \A x \in ExecsOf(j) : BatchOf[x] = currentBatch[j] => Fresh(x)
Ordered(j) ==
    /\ \A x \in ExecsOf(j) : /\ Fresh(x) \/ BatchOf[x] <= currentBatch[j]
                             /\ BatchOf[x] < currentBatch[j] => Settled(x)
    /\ \A a \in Evals(j) : Sole(Evals(j), a) /\ AllSettled(j)
    /\ pauses[j] = 0 \/ Waiting(j)

WaveInv == (\A e \in Execs : Token(e)) /\ \A j \in Jobs : Canary(j) => Ordered(j)

(* A step that leaves x as it is, and one that replaces its await.          *)
Follows(x) == Token(x)' /\ (Settled(x) => Settled(x)') /\ (Fresh(x) => Fresh(x)')

LEMMA TokenSame ==
    ASSUME TypeOK, TypeOK', NEW x \in Execs, Token(x), SameExec(x)
    PROVE  Follows(x)
<1>1. OfExec(x)' = OfExec(x) /\ \A a \in OfExec(x) : awaiting'[a] = awaiting[a]
  BY OfExecRecs, OfExecRecsPrime DEF SameExec, SameAwaits
<1>2. Fresh(x) => Fresh(x)'
  BY SamePhase
<1>3. Recorded(x)' <=> Recorded(x)
  BY DEF Recorded, SameExec
<1>4. \A a \in OfExec(x) : Sole(OfExec(x), a) => Sole(OfExec(x), a)'
  BY <1>1 DEF Sole
<1>5. Settled(x) => Settled(x)'
  BY <1>1, <1>3 DEF Settled, SameExec
<1>6. Token(x)'
  BY <1>1, <1>3, <1>4 DEF Token, SameExec, Sole
<1>. QED
  BY <1>2, <1>5, <1>6 DEF Follows

LEMMA AwaitReplaced ==
    ASSUME TypeOK, TypeOK', NEW e \in Execs, Token(e), NEW a \in OfExec(e), NEW S,
           \/ awaiting' = Without(a) /\ S = {}
           \/ awaiting' = With(Without(a), S)
    PROVE  /\ S \cap ExecRecs(e) = {} => OfExec(e)' = {}
           /\ \A s : S \cap ExecRecs(e) = {s} => Sole(OfExec(e), s)'
<1>0. IsABag(awaiting)
  BY DEF TypeOK
<1>1. Sole(BagToSet(awaiting) \cap ExecRecs(e), a)
  BY OfExecRecs DEF Token, Sole
<1>2. OfExec(e)' = BagToSet(awaiting') \cap ExecRecs(e)
  BY OfExecRecsPrime
<1>3. S \cap ExecRecs(e) = {} => OfExec(e)' = {}
  BY <1>0, <1>1, <1>2, SoleReplaced
<1>4. ASSUME NEW s, S \cap ExecRecs(e) = {s} PROVE Sole(OfExec(e), s)'
  <2>1. awaiting' = With(Without(a), S)
    BY <1>4
  <2>2. Single(awaiting', ExecRecs(e), s)
    BY <1>0, <1>1, <1>4, <2>1, SoleBecomes
  <2>. QED
    BY <1>2, <2>2 DEF Single, Sole
<1>. QED
  BY <1>3, <1>4

EvalRecs(j) == {a \in Await : a.op = "evaluate" /\ a.job = j}

LEMMA EvalsRecs ==
    ASSUME NEW j
    PROVE  /\ TypeOK => Evals(j) = BagToSet(awaiting) \cap EvalRecs(j)
           /\ TypeOK' => Evals(j)' = BagToSet(awaiting') \cap EvalRecs(j)
  BY DEF TypeOK, Evals, EvalRecs

(* No evaluation of the job is added.                                       *)
EvalsKept(j) == \A b \in Evals(j)' : Sole(Evals(j), b)' /\ Evals(j) # {}

LEMMA EvalsSame ==
    ASSUME TypeOK, TypeOK', NEW j, \A b \in Evals(j) : Sole(Evals(j), b),
           SameAwaits(EvalRecs(j), awaiting, awaiting')
    PROVE  EvalsKept(j)
<1>1. Evals(j)' = Evals(j) /\ \A b \in Evals(j) : awaiting'[b] = awaiting[b]
  BY EvalsRecs DEF SameAwaits
<1>. QED
  BY <1>1 DEF EvalsKept, Sole

LEMMA EvalsSwap ==
    ASSUME TypeOK, TypeOK', NEW j, \A b \in Evals(j) : Sole(Evals(j), b),
           NEW a, NEW S, Swaps(a, S), EvaluatesOnce(S), a.op = "evaluate" =>
              a \in BagToSet(awaiting) /\ (awaiting' = Without(a) \/ awaiting' = With(Without(a), S)),
           \A s \in S : s.op = "evaluate" => a.op = "evaluate" /\ s.job = a.job
    PROVE  EvalsKept(j)
<1>0. IsABag(awaiting)
  BY DEF TypeOK
<1>1. CASE a \notin EvalRecs(j)
  <2>1. S \cap EvalRecs(j) = {}
    BY <1>1 DEF EvalRecs, TypeOK
  <2>. QED
    BY <1>0, <1>1, <2>1, SwapSame, EvalsSame
<1>2. CASE a \in EvalRecs(j)
  <2>1. a.op = "evaluate" /\ a \in Evals(j)
    BY <1>2 DEF EvalRecs, Evals
  <2>2. Sole(BagToSet(awaiting) \cap EvalRecs(j), a)
    BY <2>1, EvalsRecs
  <2>3. Evals(j)' = BagToSet(awaiting') \cap EvalRecs(j)
    BY EvalsRecs
  <2>4. /\ BagToSet(Without(a)) \cap EvalRecs(j) = {}
        /\ BagToSet(With(Without(a), S)) \cap EvalRecs(j) = S \cap EvalRecs(j)
    BY <1>0, <2>2, SoleReplaced
  <2>5. ASSUME NEW b \in Evals(j)' PROVE Sole(Evals(j), b)'
    <3>1. awaiting' = With(Without(a), S) /\ b \in S \cap EvalRecs(j)
      BY <2>1, <2>3, <2>4, <2>5
    <3>2. S \cap EvalRecs(j) = {b}
      BY <3>1 DEF EvaluatesOnce, EvalRecs
    <3>3. Single(awaiting', EvalRecs(j), b)
      BY <1>0, <2>2, <3>1, <3>2, SoleBecomes
    <3>. QED
      BY <2>3, <3>3 DEF Single, Sole
  <2>. QED
    BY <2>1, <2>5 DEF EvalsKept
<1>. QED
  BY <1>1, <1>2

(* No wait timer of a job is added.                                         *)
TimersKept(j) == pauses'[j] \in {0, pauses[j]}

LEMMA OrderSame ==
    ASSUME NEW j, Ordered(j), currentBatch'[j] = currentBatch[j], TimersKept(j),
           \A x \in ExecsOf(j) :
              /\ Settled(x) => Settled(x)'
              /\ Fresh(x) => Fresh(x)' \/ (BatchOf[x] <= currentBatch[j] /\ pauses'[j] = 0),
           \A b \in Evals(j)' : /\ Sole(Evals(j), b)'
                                /\ Evals(j) # {} \/ (AllSettled(j)' /\ pauses[j] = 0)
    PROVE  Ordered(j)'
<1>1. Evals(j) # {} => AllSettled(j)'
  BY DEF Ordered, AllSettled
<1>2. pauses'[j] = 0 \/ Waiting(j)'
  BY DEF Ordered, TimersKept, Waiting, ExecsOf
<1>3. \A x \in ExecsOf(j) : /\ Fresh(x)' \/ BatchOf[x] <= currentBatch'[j]
                            /\ BatchOf[x] < currentBatch'[j] => Settled(x)'
  BY DEF Ordered
<1>4. \A b \in Evals(j)' : Sole(Evals(j), b)' /\ AllSettled(j)'
  BY <1>1
<1>. QED
  BY <1>2, <1>3, <1>4 DEF Ordered, ExecsOf

(* Steps of one execution, and steps of jobs that dispatch nothing.         *)
LEMMA WaveExec ==
    ASSUME TypeOK, TypeOK', WaveInv, UNCHANGED <<currentBatch, pauses>>,
           NEW e \in Execs, OnlyChanges({e}),
           ~ Fresh(e), ~ Settled(e), Token(e)',
           NEW a, NEW S, Swaps(a, S), a.op \in ExecOps, a.exec = e,
           \A s \in S : s.op \in ExecOps /\ s.exec = e
    PROVE  WaveInv'
<1>0. IsABag(awaiting) /\ "evaluate" \notin ExecOps
  BY DEF TypeOK, ExecOps, WriteOps, SendOps, LookupOps
<1>1. ASSUME NEW x \in Execs \ {e} PROVE Follows(x)
  <2>1. a \notin ExecRecs(x) /\ S \cap ExecRecs(x) = {}
    BY <1>1 DEF ExecRecs
  <2>2. SameExec(x)
    BY <1>0, <1>1, <2>1, SwapSame DEF SameExec, OnlyChanges
  <2>. QED
    BY <2>2, TokenSame DEF WaveInv
<1>2. ASSUME NEW j \in Jobs, Canary(j) PROVE Ordered(j)'
  <2>1. Ordered(j)
    BY <1>2 DEF WaveInv
  <2>2. \A b \in Evals(j) : Sole(Evals(j), b)
    BY <2>1 DEF Ordered
  <2>3. a \notin EvalRecs(j) /\ S \cap EvalRecs(j) = {}
    BY <1>0 DEF EvalRecs
  <2>4. EvalsKept(j)
    BY <1>0, <2>2, <2>3, SwapSame, EvalsSame
  <2>5. \A x \in ExecsOf(j) : (Settled(x) => Settled(x)') /\ (Fresh(x) => Fresh(x)')
    BY <1>1 DEF Follows, ExecsOf
  <2>. QED
    BY <2>1, <2>4, <2>5, OrderSame DEF EvalsKept, TimersKept
<1>3. \A x \in Execs : Token(x)'
  BY <1>1 DEF Follows
<1>4. \A j \in Jobs : Canary(j)' <=> Canary(j)
  BY DEF Canary
<1>. QED
  BY <1>2, <1>3, <1>4 DEF WaveInv

LEMMA WaveJob ==
    ASSUME TypeOK, TypeOK', WaveInv,
           UNCHANGED <<execStatus, inflight, loose, received, atAgent, currentBatch>>,
           \A i \in Jobs : TimersKept(i),
           running' \subseteq running, NEW a, NEW S, Swaps(a, S), EvaluatesOnce(S),
           a.op \notin ExecOps, \A s \in S : s.op \notin ExecOps,
           a.op = "evaluate" =>
              a \in BagToSet(awaiting) /\ (awaiting' = Without(a) \/ awaiting' = With(Without(a), S)),
           \A s \in S : s.op = "evaluate" => a.op = "evaluate" /\ s.job = a.job
    PROVE  WaveInv'
<1>0. IsABag(awaiting)
  BY DEF TypeOK
<1>1. ASSUME NEW x \in Execs PROVE Follows(x)
  <2>1. a \notin ExecRecs(x) /\ S \cap ExecRecs(x) = {}
    BY DEF ExecRecs
  <2>2. SameExec(x)
    BY <1>0, <2>1, SwapSame DEF SameExec
  <2>. QED
    BY <2>2, TokenSame DEF WaveInv
<1>2. ASSUME NEW j \in Jobs, Canary(j) PROVE Ordered(j)'
  <2>1. Ordered(j)
    BY <1>2 DEF WaveInv
  <2>2. \A b \in Evals(j) : Sole(Evals(j), b)
    BY <2>1 DEF Ordered
  <2>3. EvalsKept(j)
    BY <2>2, EvalsSwap
  <2>4. \A x \in ExecsOf(j) : (Settled(x) => Settled(x)') /\ (Fresh(x) => Fresh(x)')
    BY <1>1 DEF Follows, ExecsOf
  <2>. QED
    BY <2>1, <2>3, <2>4, OrderSame DEF EvalsKept
<1>3. \A x \in Execs : Token(x)'
  BY <1>1 DEF Follows
<1>4. \A j \in Jobs : Canary(j)' <=> Canary(j)
  BY DEF Canary
<1>. QED
  BY <1>2, <1>3, <1>4 DEF WaveInv

LEMMA SendWaves ==
    ASSUME JobAssumption, IInv, TypeOK', WaveInv, NEW e \in Execs,
           \/ StartSending(e) \/ CommandSent(e) \/ CommandSentIntoClosedSocket(e)
           \/ CommandNotSent(e)
    PROVE  WaveInv'
<1>0. TypeOK /\ Phases /\ IsABag(awaiting) /\ Token(e)
  BY DEF IInv, DispatchedOnce, TypeOK, WaveInv
<1>1. PICK o \in {"run"} \cup SendOps : BagIn(Now(o, e), awaiting)
  BY DEF StartSending, CommandSent, CommandSentIntoClosedSocket, CommandNotSent, Marked, Ready, SendOps
<1>2. ASSUME NEW p \in {"run"} \cup SendOps, BagIn(Now(p, e), awaiting)
      PROVE  /\ Now(p, e) \in OfExec(e) /\ p \in {"run", "send", "refused"}
             /\ atAgent[e] = 0 /\ (p = "send" => inflight[e] = "idle")
  <2>1. Now(p, e) \in OfExec(e) /\ Now(p, e).op = p
    BY <1>0, <1>2, OfExecRecs, ExecAwaitRecs DEF BagIn, WriteOps, Now
  <2>. QED
    BY <1>0, <2>1 DEF Token, TokenOps, SendOps
<1>3. OnlyChanges({e}) /\ UNCHANGED <<currentBatch, pauses>>
  BY <1>0 DEF OnlyChanges, StartSending, CommandSent, CommandSentIntoClosedSocket, CommandNotSent,
              InflightSet, TypeOK, dbVars, stateVars, flightVars, agentVars
<1>4. ASSUME NEW p \in {"run"} \cup SendOps, BagIn(Now(p, e), awaiting), NEW S,
             \/ awaiting' = Without(Now(p, e)) /\ S = {}
             \/ awaiting' = With(Without(Now(p, e)), S),
             \/ S = {} \/ S = {Now("send", e)} \/ S = {Now("refused", e)} \/ S = {At("sendFailed", e)},
             inflight'[e] \in {"absent", "idle"}, loose'[e] = 0, atAgent'[e] \in {0, 1},
             atAgent'[e] = 1 => S = {} /\ inflight'[e] = "idle",
             S = {Now("send", e)} => inflight'[e] = "idle"
      PROVE  WaveInv'
  <2>. DEFINE a == Now(p, e)
  <2>1. a \in OfExec(e) /\ a.op = p /\ a.exec = e
    BY <1>2, <1>4 DEF Now
  <2>2. /\ S \subseteq ExecRecs(e)
        /\ \A s \in S : s.op \in TokenOps \cap ExecOps /\ s.exec = e
        /\ \A s \in S : s.op \in WriteOps => s.db # "done"
        /\ \A s \in S : s.op = "send" => inflight'[e] = "idle"
        /\ \A s, t \in S : s = t
    <3>1. ASSUME NEW s, s \in {Now("send", e), Now("refused", e), At("sendFailed", e)}, S = {s}
          PROVE  /\ s \in ExecRecs(e) /\ s.op \in TokenOps \cap ExecOps /\ s.exec = e
                 /\ s.op \in WriteOps => s.db # "done"
                 /\ s.op = "send" => inflight'[e] = "idle"
      <4>1. s \in ExecRecs(e)
        BY <3>1, ExecAwaitRecs DEF SendOps, WriteOps
      <4>2. s.op \in TokenOps \cap ExecOps /\ s.exec = e /\ (s.op \in WriteOps => s.db # "done")
        BY <3>1 DEF Now, At, SendOps, WriteOps, TokenOps, ExecOps
      <4>3. s.op = "send" => s = Now("send", e)
        BY <3>1 DEF Now, At
      <4>. QED
        BY <1>4, <3>1, <4>1, <4>2, <4>3
    <3>. QED
      BY <1>4, <3>1
  <2>. HIDE DEF a
  <2>3. (awaiting' = Without(a) /\ S = {}) \/ awaiting' = With(Without(a), S)
    BY <1>4 DEF a
  <2>4. S = {} => OfExec(e)' = {}
    BY <1>0, <2>1, <2>3, AwaitReplaced
  <2>5. \A s \in S : Sole(OfExec(e), s)'
    <3>1. \A s \in S : S \cap ExecRecs(e) = {s}
      BY <2>2
    <3>. QED
      BY <1>0, <2>1, <2>3, <3>1, AwaitReplaced
  <2>6. OfExec(e)' \subseteq S
    BY <2>4, <2>5 DEF Sole
  <2>7. Token(e)'
    BY <1>4, <2>2, <2>5, <2>6 DEF Token
  <2>8. ~ Fresh(e) /\ ~ Settled(e)
    BY <2>1 DEF Fresh, Settled
  <2>9. Swaps(a, S) /\ a.op \in ExecOps
    BY <2>1, <2>3 DEF Swaps, ExecOps, WriteOps
  <2>. QED
    BY <1>0, <1>3, <2>1, <2>2, <2>7, <2>8, <2>9, WaveExec
<1>5. CASE StartSending(e)
  <2>1. PICK o2 \in {"send", "refused"} : awaiting' = With(Without(Now("run", e)), {Now(o2, e)})
    BY <1>5 DEF StartSending, Marked
  <2>2. BagIn(Now("run", e), awaiting) /\ InflightSet(e) /\ atAgent' = atAgent
    BY <1>5 DEF StartSending, Marked, agentVars
  <2>3. inflight[e] \in {"absent", "idle"} /\ atAgent[e] = 0 /\ loose[e] = 0
    BY <1>0, <1>2, <2>2 DEF Token
  <2>4. inflight'[e] = "idle" /\ loose'[e] = 0
    BY <1>0, <2>2, <2>3 DEF InflightSet, TypeOK
  <2>. QED
    BY <1>4, <2>1, <2>2, <2>3, <2>4
<1>6. CASE CommandSent(e)
  <2>1. /\ BagIn(Now("send", e), awaiting) /\ awaiting' = Without(Now("send", e))
        /\ inflight' = inflight /\ loose' = loose /\ atAgent'[e] = atAgent[e] + 1
    BY <1>0, <1>6 DEF CommandSent, Ready, flightVars, TypeOK
  <2>2. inflight[e] = "idle" /\ atAgent[e] = 0 /\ loose[e] = 0 /\ "send" \in SendOps
    BY <1>0, <1>2, <2>1 DEF Token, SendOps
  <2>3. atAgent'[e] = 1 /\ inflight'[e] = "idle" /\ loose'[e] = 0 /\ "send" \in {"run"} \cup SendOps
    BY <2>1, <2>2
  <2>. QED
    BY <1>4, <2>1, <2>3
<1>7. CASE CommandSentIntoClosedSocket(e)
  BY <1>2, <1>7 DEF CommandSentIntoClosedSocket, Ready, SendOps
<1>8. CASE CommandNotSent(e)
  <2>1. PICK p \in SendOps : /\ BagIn(Now(p, e), awaiting)
                             /\ awaiting' = With(Without(Now(p, e)), {At("sendFailed", e)})
    BY <1>8 DEF CommandNotSent, Ready
  <2>2. inflight' = inflight /\ loose' = loose /\ atAgent' = atAgent
    BY <1>8 DEF CommandNotSent, flightVars, agentVars
  <2>3. inflight[e] \in {"absent", "idle"} /\ loose[e] = 0 /\ atAgent[e] = 0
    BY <1>0, <1>2, <2>1 DEF Token
  <2>4. {At("sendFailed", e)} # {Now("send", e)}
    <3>1. At("sendFailed", e).op = "sendFailed" /\ Now("send", e).op = "send"
      BY DEF At, Now
    <3>. QED
      BY <3>1
  <2>. QED
    BY <1>4, <2>1, <2>2, <2>3, <2>4
<1>. QED
  BY <1>5, <1>6, <1>7, <1>8

(* Nothing but awaits of jobs, and nothing that matters here, is changed.   *)
LEMMA WaveNothing ==
    ASSUME TypeOK, TypeOK', WaveInv, running' \subseteq running,
           UNCHANGED <<execStatus, inflight, loose, received, atAgent, currentBatch, pauses, awaiting>>
    PROVE  WaveInv'
<1>0. \A i \in Jobs : TimersKept(i)
  BY DEF TimersKept
<1>1. Swaps(JobAt("abort", 0), {}) /\ EvaluatesOnce({})
  BY DEF Swaps, EvaluatesOnce
<1>2. JobAt("abort", 0).op = "abort" /\ "abort" \notin ExecOps
  BY DEF JobAt, ExecOps, WriteOps, SendOps, LookupOps
<1>. QED
  BY <1>0, <1>1, <1>2, WaveJob

LEMMA AnswerWaves ==
    ASSUME JobAssumption, IInv, TypeOK', WaveInv, NEW e \in Execs,
           \/ TimerFires(e) \/ TimerChecked(e) \/ AgentOutput(e) \/ AnswerLost(e)
           \/ ForgetCompleted(e)
           \/ \E ok \in BOOLEAN : AgentAnswer(e, ok) \/ LookedUp(e, ok)
    PROVE  WaveInv'
<1>0. TypeOK /\ Phases /\ IsABag(awaiting) /\ Token(e)
  BY DEF IInv, DispatchedOnce, TypeOK, WaveInv
<1>1. ~ TimerFires(e)
  BY <1>0 DEF TimerFires, ReadsStatus, Token
<1>2. ~ TimerChecked(e)
  <2>. SUFFICES ASSUME NEW d \in {"final", "open"}, 
                       BagIn([op |-> "check", exec |-> e, db |-> d], awaiting)
                PROVE  FALSE
    BY DEF TimerChecked, Ready
  <2>1. [op |-> "check", exec |-> e, db |-> d] \in OfExec(e)
    BY DEF OfExec, BagIn, ExecOps
  <2>. QED
    BY <1>0, <2>1 DEF Token, TokenOps
<1>3. \A ok \in BOOLEAN : ~ LookedUp(e, ok)
  <2>. SUFFICES ASSUME NEW o \in LookupOps, BagIn(Now(o, e), awaiting) PROVE FALSE
    BY DEF LookedUp, Ready, LookupOps
  <2>1. Now(o, e) \in OfExec(e) /\ Now(o, e).op = o
    BY DEF OfExec, BagIn, ExecOps, Now
  <2>. QED
    BY <1>0, <2>1 DEF Token, TokenOps, LookupOps
<1>4. atAgent[e] > 0 => /\ atAgent[e] = 1 /\ inflight[e] = "idle" /\ OfExec(e) = {}
                        /\ Target(e) = {e} /\ ~ Fresh(e) /\ ~ Settled(e)
  BY <1>0 DEF Token, Target, Fresh, Untouched, Settled, TypeOK
<1>5. ~ AgentOutput(e)
  BY <1>4 DEF AgentOutput, OutputFor
<1>6. CASE AnswerLost(e)
  <2>1. /\ atAgent[e] > 0 /\ atAgent'[e] = atAgent[e] - 1
        /\ UNCHANGED <<currentBatch, pauses, awaiting, inflight, loose, execStatus>>
    BY <1>0, <1>6 DEF AnswerLost, TypeOK, stateVars, flightVars, dbVars
  <2>2. OnlyChanges({e})
    BY <1>0, <1>6 DEF OnlyChanges, AnswerLost, TypeOK, dbVars, stateVars, flightVars
  <2>3. OfExec(e)' = {}
    BY <1>4, <2>1 DEF OfExec
  <2>4. Token(e)'
    BY <1>0, <1>4, <2>1, <2>3 DEF Token
  <2>5. Swaps(At("run", e), {}) /\ At("run", e).op \in ExecOps /\ At("run", e).exec = e
    BY <2>1 DEF Swaps, At, ExecOps, WriteOps
  <2>. QED
    BY <1>0, <1>4, <2>1, <2>2, <2>4, <2>5, WaveExec
<1>7. CASE ForgetCompleted(e)
  BY <1>0, <1>7, WaveNothing DEF ForgetCompleted, dbVars, stateVars, agentVars
<1>8. ASSUME NEW ok \in BOOLEAN, AgentAnswer(e, ok) PROVE WaveInv'
  <2>. DEFINE s == At(FinalOp(ok), e)
  <2>1. atAgent[e] > 0 /\ CompletionFor({e}, ok) /\ atAgent'[e] = atAgent[e] - 1
    BY <1>0, <1>4, <1>8 DEF AgentAnswer, TypeOK
  <2>2. /\ inflight'[e] = "idle" /\ awaiting' = With(awaiting, {s})
        /\ UNCHANGED <<currentBatch, pauses, loose, execStatus>>
    BY <1>0, <2>1 DEF CompletionFor, ClearTimer, TypeOK, dbVars, stateVars
  <2>3. OnlyChanges({e})
    BY <1>0, <1>8, <2>1 DEF OnlyChanges, AgentAnswer, CompletionFor, ClearTimer, TypeOK, dbVars, stateVars
  <2>4. /\ s \in ExecRecs(e) /\ s.op \in TokenOps /\ s.op \in ExecOps /\ s.exec = e /\ s.db # "done"
        /\ s.op # "send"
    BY ExecAwaitRecs DEF At, FinalOp, WriteOps, TokenOps, ExecOps
  <2>. HIDE DEF s
  <2>5. BagToSet(awaiting) \cap ExecRecs(e) = {} /\ {s} \cap ExecRecs(e) = {s}
    BY <1>0, <1>4, <2>1, <2>4, OfExecRecs
  <2>6. Sole(OfExec(e), s)'
    <3>1. Single(awaiting', ExecRecs(e), s)
      BY <1>0, <2>2, <2>5, NewBecomes
    <3>. QED
      BY <3>1, OfExecRecsPrime DEF Single, Sole
  <2>7. OfExec(e)' = {s}
    BY <2>6 DEF Sole
  <2>8. Token(e)'
    BY <1>0, <1>4, <2>1, <2>2, <2>4, <2>6, <2>7 DEF Token
  <2>9. Swaps(s, {s})
    BY <2>2 DEF Swaps
  <2>. QED
    BY <1>0, <1>4, <2>1, <2>2, <2>3, <2>4, <2>8, <2>9, WaveExec
<1>. QED
  BY <1>1, <1>2, <1>3, <1>5, <1>6, <1>7, <1>8

(* A dispatch of fresh executions, when the handler of the one in F is over.*)
LEMMA WaveDispatch ==
    ASSUME TypeOK, TypeOK', WaveInv, UNCHANGED <<execStatus, received, atAgent>>,
           NEW j, NEW es \in SUBSET ExecsOf(j), \A x \in es : Fresh(x),
           NEW F \in SUBSET Execs,
           NEW a, a.op \in ExecOps => a.exec \in F,
           \A x \in F : /\ a \in OfExec(x) /\ Recorded(x)
                        /\ inflight'[x] \in {"absent", "idle"} /\ loose'[x] = 0,
           \A x \in Execs \ F : inflight'[x] = inflight[x] /\ loose'[x] = loose[x],
           NEW run \in SUBSET running, NEW N, NEW T, \A t \in T : t.op \notin ExecOps,
           running' \subseteq run \cup es, awaiting' = With(Without(a), N), Claims(N, es, T)
    PROVE  \A x \in Execs : /\ Token(x)' /\ (Settled(x) => Settled(x)')
                            /\ x \in es \/ (Fresh(x) => Fresh(x)')
                            /\ x \in F => Settled(x)'
<1>0. IsABag(awaiting) /\ IsABag(Without(a)) /\ es \subseteq Execs
  BY WithoutBag DEF TypeOK, ExecsOf
<1>1. ASSUME NEW x \in F PROVE Token(x)' /\ Settled(x)' /\ ~ Fresh(x)
  <2>1. x \in Execs /\ a \in OfExec(x) /\ Token(x) /\ ~ Fresh(x)
    BY <1>1 DEF WaveInv, Fresh
  <2>2. N \cap ExecRecs(x) = {}
    <3>1. x \notin es
      BY <2>1
    <3>. QED
      BY <2>1, <3>1 DEF Claims
  <2>3. OfExec(x)' = {}
    BY <2>1, <2>2, AwaitReplaced
  <2>4. atAgent'[x] = 0 /\ Recorded(x)'
    BY <1>1, <2>1 DEF Token, Recorded
  <2>. QED
    BY <1>1, <2>1, <2>3, <2>4 DEF Token, Settled
<1>2. ASSUME NEW x \in es PROVE Token(x)' /\ ~ Settled(x)
  <2>1. x \in Execs \ F /\ Fresh(x)
    BY <1>0, <1>1
  <2>2. PICK o \in {"run", "offline"} : N \cap ExecRecs(x) = {At(o, x)}
    BY <1>2 DEF Claims
  <2>3. BagToSet(Without(a)) \cap ExecRecs(x) = {}
    BY <1>0, <2>1, OfExecRecs, WithoutBag DEF Fresh
  <2>4. Single(awaiting', ExecRecs(x), At(o, x))
    BY <1>0, <2>2, <2>3, NewBecomes
  <2>5. OfExec(x)' = {At(o, x)} /\ Sole(OfExec(x), At(o, x))'
    BY <2>4, OfExecRecsPrime DEF Single, Sole
  <2>6. At(o, x).op \in TokenOps \ {"send"} /\ At(o, x).db # "done"
    BY DEF At, TokenOps
  <2>7. inflight'[x] = "absent" /\ loose'[x] = 0 /\ atAgent'[x] = 0
    BY <2>1 DEF Fresh, Untouched
  <2>8. Token(x)'
    BY <2>5, <2>6, <2>7 DEF Token
  <2>. QED
    BY <2>1, <2>8 DEF Fresh, Settled, Recorded
<1>3. ASSUME NEW x \in Execs \ (F \cup es) PROVE Follows(x)
  <2>1. a \notin ExecRecs(x) /\ N \cap ExecRecs(x) = {}
    BY <1>3 DEF ExecRecs, Claims
  <2>2. Swaps(a, N)
    BY DEF Swaps
  <2>3. SameExec(x)
    BY <1>0, <1>3, <2>1, <2>2, SwapSame DEF SameExec
  <2>. QED
    BY <2>3, TokenSame DEF WaveInv
<1>. QED
  BY <1>1, <1>2, <1>3 DEF Follows

LEMMA StartedWaves ==
    ASSUME JobAssumption, IInv, TypeOK', WaveInv, NEW j \in Jobs, JobStarted(j)
    PROVE  WaveInv'
<1>0. TypeOK /\ StartsOnce /\ PausesAreFresh
  BY DEF IInv, DispatchedOnce
<1>1. PICK a, T, es :
         /\ es \in SUBSET ExecsOf(j) /\ a \in BagToSet(awaiting) /\ a.op = "start" /\ a.job = j
         /\ Dispatch(es, running, Without(a), T)
         /\ Mode[j] = "rolling" => \A x \in es : BatchOf[x] = currentBatch[j]
         /\ \A t \in T : t.op = "tally"
         /\ \A x \in es : Fresh(x)
  BY <1>0, JobStartedDispatches
<1>2. /\ UNCHANGED <<execStatus, received, atAgent, inflight, loose, currentBatch, pauses>>
      /\ pauses[j] = 0
  <2>1. Unstarted(j)
    BY <1>1 DEF Unstarted, OfStart
  <2>. QED
    BY <1>0, <2>1 DEF PausesAreFresh, PausesOnce, JobStarted, dbVars, flightVars, agentVars
<1>3. a.op \notin ExecOps /\ (\A t \in T : t.op \notin ExecOps) /\ es \in SUBSET Execs
  BY <1>1 DEF ExecOps, WriteOps, SendOps, LookupOps, ExecsOf
<1>4. PICK N : awaiting' = With(Without(a), N) /\ Claims(N, es, T)
  BY <1>1, <1>3, DispatchClaims
<1>5. running' \subseteq running \cup es
  BY <1>1, <1>3, DispatchClaims
<1>6. \A x \in Execs : /\ Token(x)' /\ (Settled(x) => Settled(x)')
                       /\ x \in es \/ (Fresh(x) => Fresh(x)')
  <2>1. {} \in SUBSET Execs /\ running \in SUBSET running /\ es \in SUBSET ExecsOf(j)
    BY <1>1
  <2>2. UNCHANGED <<execStatus, received, atAgent>>
    BY <1>2
  <2>3. \A x \in Execs \ {} : inflight'[x] = inflight[x] /\ loose'[x] = loose[x]
    BY <1>2
  <2>4. TypeOK /\ a.op \notin ExecOps /\ \A t \in T : t.op \notin ExecOps
    BY <1>0, <1>3
  <2>5. \A x \in es : Fresh(x)
    BY <1>1
  <2>. QED
    BY <1>4, <1>5, <2>1, <2>2, <2>3, <2>4, <2>5, WaveDispatch
<1>7. ASSUME NEW i \in Jobs, Canary(i) PROVE Ordered(i)'
  <2>1. Ordered(i) /\ \A b \in Evals(i) : Sole(Evals(i), b)
    BY <1>7 DEF WaveInv, Ordered
  <2>2. \A n \in N : n.op # "evaluate"
    BY <1>1, <1>4 DEF Claims
  <2>3. Swaps(a, N) /\ EvaluatesOnce(N)
    BY <1>4, <2>2 DEF Swaps, EvaluatesOnce
  <2>4. EvalsKept(i)
    BY <1>0, <1>1, <2>1, <2>2, <2>3, EvalsSwap
  <2>5. \A x \in ExecsOf(i) : x \in es => BatchOf[x] = currentBatch[i] /\ i = j
    BY <1>1, <1>7 DEF ExecsOf, Canary
  <2>6. \A x \in Execs : BatchOf[x] \in Nat
    BY DEF JobAssumption
  <2>7. \A x \in ExecsOf(i) : /\ Settled(x) => Settled(x)'
                              /\ \/ Fresh(x) => Fresh(x)'
                                 \/ BatchOf[x] <= currentBatch[i] /\ pauses'[i] = 0
    BY <1>2, <1>6, <2>5, <2>6 DEF ExecsOf
  <2>. QED
    BY <1>2, <2>1, <2>4, <2>7, OrderSame DEF EvalsKept, TimersKept
<1>8. \A i \in Jobs : Canary(i)' <=> Canary(i)
  BY DEF Canary
<1>. QED
  BY <1>6, <1>7, <1>8 DEF WaveInv

LEMMA RemainingWaves ==
    ASSUME TypeOK, TypeOK', WaveInv, NEW j, NEW a, a.op \notin ExecOps,
           \/ AbortRemaining(j, awaiting) /\ a.op # "evaluate"
           \/ AbortRemaining(j, Without(a)) /\ (a.op = "evaluate" => a \in BagToSet(awaiting)),
           UNCHANGED <<execStatus, inflight, loose, received, atAgent, currentBatch, running>>
    PROVE  WaveInv'
<1>. DEFINE s == [op |-> "skip", job |-> j, ids |-> PendingIds(j), db |-> "issued"]
<1>1. s.op = "skip"
  OBVIOUS
<1>2. PICK S \in {{}, {s}} :
         \/ a.op # "evaluate" /\ (awaiting' = awaiting \/ awaiting' = With(awaiting, S))
         \/ /\ awaiting' = Without(a) \/ awaiting' = With(Without(a), S)
            /\ a.op = "evaluate" => a \in BagToSet(awaiting)
  BY DEF AbortRemaining
<1>. HIDE DEF s
<1>3. (\A t \in S : t.op = "skip") /\ "skip" \notin ExecOps \cup {"evaluate"}
  BY <1>1, <1>2 DEF ExecOps, WriteOps, SendOps, LookupOps
<1>4. Swaps(a, S) /\ EvaluatesOnce(S)
  BY <1>2, <1>3 DEF Swaps, EvaluatesOnce
<1>5. \A i \in Jobs : TimersKept(i)
  BY DEF AbortRemaining, TimersKept, TypeOK
<1>. QED
  BY <1>2, <1>3, <1>4, <1>5, WaveJob

LEMMA EvaluatedWaves ==
    ASSUME JobAssumption, IInv, TypeOK', WaveInv, NEW j \in Jobs, BatchEvaluated(j)
    PROVE  WaveInv'
<1>0. TypeOK /\ IsABag(awaiting) /\ currentBatch[j] \in Nat /\ \A x \in Execs : BatchOf[x] \in Nat
  BY DEF IInv, TypeOK, JobAssumption
<1>1. PICK a :
        /\ a \in BagToSet(awaiting) /\ a.op = "evaluate" /\ a.job = j
        /\ \/ AbortRemaining(j, Without(a)) /\ UNCHANGED <<queue, running, currentBatch>>
           \/ /\ currentBatch' = [currentBatch EXCEPT ![j] = NextBatch(j)]
              /\ UNCHANGED aborted
              /\ \E es \in SUBSET Wave(j, NextBatch(j)) : \E T :
                 /\ Waits(j, es)
                 /\ Dispatch(es, running, Without(a), T) /\ (es = {} \/ Active(j))
                 /\ \A t \in T : t.op = "tally"
                 /\ \A x \in es : Fresh(x)
  BY BatchEvaluatedDispatches
<1>2. UNCHANGED <<execStatus, received, atAgent, inflight, loose>>
  BY DEF BatchEvaluated, dbVars, flightVars, agentVars
<1>3. a.op \notin ExecOps
  BY <1>1 DEF ExecOps, WriteOps, SendOps, LookupOps
<1>4. CASE AbortRemaining(j, Without(a)) /\ UNCHANGED <<queue, running, currentBatch>>
  BY <1>0, <1>1, <1>2, <1>3, <1>4, RemainingWaves
<1>5. ASSUME currentBatch' = [currentBatch EXCEPT ![j] = NextBatch(j)],
             NEW es \in SUBSET Wave(j, NextBatch(j)), NEW T, Waits(j, es),
             Dispatch(es, running, Without(a), T),
             \A t \in T : t.op = "tally", \A x \in es : Fresh(x)
      PROVE  WaveInv'
  <2>1. es \in SUBSET ExecsOf(j) /\ es \in SUBSET Execs /\ \A t \in T : t.op \notin ExecOps
    BY <1>5 DEF Wave, ExecsOf, ExecOps, WriteOps, SendOps, LookupOps
  <2>2. PICK N : awaiting' = With(Without(a), N) /\ Claims(N, es, T)
    BY <1>5, <2>1, DispatchClaims
  <2>3. running' \subseteq running \cup es
    BY <1>5, <2>1, DispatchClaims
  <2>4. \A x \in Execs : /\ Token(x)' /\ (Settled(x) => Settled(x)')
                         /\ x \in es \/ (Fresh(x) => Fresh(x)')
    <3>1. {} \in SUBSET Execs /\ running \in SUBSET running
      OBVIOUS
    <3>2. UNCHANGED <<execStatus, received, atAgent>>
      BY <1>2
    <3>3. \A x \in Execs \ {} : inflight'[x] = inflight[x] /\ loose'[x] = loose[x]
      BY <1>2
    <3>4. \A x \in es : Fresh(x)
      BY <1>5
    <3>5. TypeOK
      BY <1>0
    <3>. QED
      BY <1>3, <2>1, <2>2, <2>3, <3>1, <3>2, <3>3, <3>4, <3>5, WaveDispatch
  <2>5. \A n \in N : n.op # "evaluate"
    BY <1>5, <2>2 DEF Claims
  <2>6. ASSUME NEW i \in Jobs \ {j}, Canary(i) PROVE Ordered(i)'
    <3>1. Ordered(i) /\ \A b \in Evals(i) : Sole(Evals(i), b)
      BY <2>6 DEF WaveInv, Ordered
    <3>2. a \notin EvalRecs(i) /\ N \cap EvalRecs(i) = {} /\ Swaps(a, N)
      BY <1>1, <2>2, <2>5, <2>6 DEF EvalRecs, Swaps
    <3>3. EvalsKept(i)
      BY <1>0, <3>1, <3>2, SwapSame, EvalsSame
    <3>4. currentBatch'[i] = currentBatch[i] /\ es \cap ExecsOf(i) = {} /\ ExecsOf(i) \subseteq Execs
      BY <1>0, <1>5, <2>1, <2>6 DEF TypeOK, ExecsOf
    <3>5. TimersKept(i)
      BY <1>0, <1>5, <2>6 DEF TimersKept, Waits, ArmsTimer, TypeOK
    <3>. QED
      BY <2>4, <3>1, <3>3, <3>4, <3>5, OrderSame DEF EvalsKept
  <2>7. ASSUME Canary(j) PROVE Ordered(j)'
    <3>1. Ordered(j) /\ a \in Evals(j)
      BY <1>1, <2>7 DEF WaveInv, Evals
    <3>2. AllSettled(j) /\ Sole(BagToSet(awaiting) \cap EvalRecs(j), a)
      BY <1>0, <3>1, EvalsRecs DEF Ordered
    <3>3. N \cap EvalRecs(j) = {}
      BY <2>5 DEF EvalRecs
    <3>4. Evals(j)' = {}
      BY <1>0, <2>2, <3>2, <3>3, SoleReplaced, EvalsRecs
    <3>5. currentBatch'[j] = currentBatch[j] + 1
      BY <1>0, <1>5 DEF TypeOK, NextBatch
    <3>6. ASSUME NEW x \in ExecsOf(j)
          PROVE  /\ Fresh(x)' \/ BatchOf[x] <= currentBatch'[j]
                 /\ BatchOf[x] < currentBatch'[j] => Settled(x)'
      <4>1. x \in Execs /\ BatchOf[x] \in Nat /\ (x \in es => BatchOf[x] = currentBatch[j] + 1)
        BY <1>0 DEF ExecsOf, Wave, NextBatch
      <4>2. Fresh(x) \/ BatchOf[x] <= currentBatch[j]
        BY <3>1 DEF Ordered
      <4>3. BatchOf[x] < currentBatch'[j] => Settled(x)
        BY <1>0, <3>2, <3>5, <4>1 DEF AllSettled
      <4>. QED
        BY <1>0, <2>4, <3>5, <4>1, <4>2, <4>3
    <3>7. pauses[j] = 0
      BY <3>1 DEF Ordered, Waiting
    <3>8. ASSUME ArmsTimer(j), es = {} PROVE Waiting(j)'
      <4>1. pauses'[j] = 1
        BY <1>0, <3>7, <3>8 DEF ArmsTimer, TypeOK
      <4>2. ASSUME NEW x \in ExecsOf(j), BatchOf[x] = currentBatch[j] + 1 PROVE Fresh(x)'
        <5>1. x \in Execs /\ ~ (BatchOf[x] <= currentBatch[j])
          BY <1>0, <4>2 DEF ExecsOf
        <5>. QED
          BY <2>4, <3>1, <3>8, <5>1 DEF Ordered
      <4>. QED
        BY <3>4, <3>5, <4>1, <4>2 DEF Waiting, ExecsOf
    <3>9. pauses'[j] = 0 \/ Waiting(j)'
      BY <1>5, <3>7, <3>8 DEF Waits
    <3>. QED
      BY <3>4, <3>6, <3>9 DEF Ordered, ExecsOf
  <2>8. \A i \in Jobs : Canary(i)' <=> Canary(i)
    BY DEF Canary
  <2>. QED
    BY <2>4, <2>6, <2>7, <2>8 DEF WaveInv
<1>. QED
  BY <1>1, <1>4, <1>5

(* The timer of a job whose waves have one target finds its wave fresh.     *)
LEMMA PauseOverWaves ==
    ASSUME JobAssumption, IInv, TypeOK', WaveInv, NEW j \in Jobs, Repeats(j) => Canary(j), PauseOver(j)
    PROVE  WaveInv'
<1>0. TypeOK /\ IsABag(awaiting) /\ currentBatch[j] \in Nat /\ \A x \in Execs : BatchOf[x] \in Nat
  BY DEF IInv, TypeOK, JobAssumption
<1>1. PICK es, T :
         /\ es \in SUBSET Wave(j, currentBatch[j])
         /\ Dispatch(es, running, awaiting, T) /\ (es = {} \/ Active(j))
         /\ \A t \in T : t.op = "tally"
         /\ \A x \in es : Fresh(x) \/ Repeats(j)
  BY PauseOverDispatches
<1>2. /\ UNCHANGED <<execStatus, received, atAgent, inflight, loose, currentBatch>>
      /\ pauses[j] > 0 /\ pauses' = [pauses EXCEPT ![j] = @ - 1]
  BY DEF PauseOver, dbVars, flightVars, agentVars
<1>3. Canary(j) => Ordered(j) /\ Waiting(j) /\ pauses'[j] = 0
  BY <1>0, <1>2 DEF WaveInv, Ordered, Waiting, TypeOK
<1>4. \A x \in es : Fresh(x)
  BY <1>1, <1>3 DEF Waiting, Wave
<1>5. es \in SUBSET ExecsOf(j) /\ es \in SUBSET Execs /\ \A t \in T : t.op \notin ExecOps
  BY <1>1 DEF Wave, ExecsOf, ExecOps, WriteOps, SendOps, LookupOps
<1>6. PICK a : a.op = "pause" /\ Without(a) = awaiting
  BY <1>0, NothingRemoved
<1>7. a.op \notin ExecOps /\ a.op # "evaluate" /\ Dispatch(es, running, Without(a), T)
  BY <1>1, <1>6 DEF ExecOps, WriteOps, SendOps, LookupOps
<1>8. PICK N : awaiting' = With(Without(a), N) /\ Claims(N, es, T)
  BY <1>5, <1>7, DispatchClaims
<1>9. running' \subseteq running \cup es
  BY <1>5, <1>7, DispatchClaims
<1>10. \A x \in Execs : /\ Token(x)' /\ (Settled(x) => Settled(x)')
                        /\ x \in es \/ (Fresh(x) => Fresh(x)')
  <2>1. {} \in SUBSET Execs /\ running \in SUBSET running
    OBVIOUS
  <2>2. UNCHANGED <<execStatus, received, atAgent>>
    BY <1>2
  <2>3. \A x \in Execs \ {} : inflight'[x] = inflight[x] /\ loose'[x] = loose[x]
    BY <1>2
  <2>4. TypeOK /\ a.op \notin ExecOps
    BY <1>0, <1>7
  <2>. QED
    BY <1>4, <1>5, <1>8, <1>9, <2>1, <2>2, <2>3, <2>4, WaveDispatch
<1>11. ASSUME NEW i \in Jobs, Canary(i) PROVE Ordered(i)'
  <2>1. Ordered(i) /\ \A b \in Evals(i) : Sole(Evals(i), b)
    BY <1>11 DEF WaveInv, Ordered
  <2>2. \A n \in N : n.op # "evaluate"
    BY <1>1, <1>8 DEF Claims
  <2>3. Swaps(a, N) /\ EvaluatesOnce(N)
    BY <1>8, <2>2 DEF Swaps, EvaluatesOnce
  <2>4. EvalsKept(i)
    BY <1>0, <1>7, <2>1, <2>2, <2>3, EvalsSwap
  <2>5. TimersKept(i) /\ (i = j => pauses'[i] = 0)
    BY <1>0, <1>2, <1>3, <1>11 DEF TimersKept, TypeOK
  <2>6. \A x \in ExecsOf(i) : x \in es => BatchOf[x] = currentBatch[i] /\ i = j
    BY <1>1 DEF ExecsOf, Wave
  <2>7. \A x \in ExecsOf(i) : /\ Settled(x) => Settled(x)'
                              /\ \/ Fresh(x) => Fresh(x)'
                                 \/ BatchOf[x] <= currentBatch[i] /\ pauses'[i] = 0
    BY <1>0, <1>10, <2>5, <2>6 DEF ExecsOf
  <2>. QED
    BY <1>2, <2>1, <2>4, <2>5, <2>7, OrderSame DEF EvalsKept
<1>12. \A i \in Jobs : Canary(i)' <=> Canary(i)
  BY DEF Canary
<1>. QED
  BY <1>10, <1>11, <1>12 DEF WaveInv

LEMMA FinishWaves ==
    ASSUME JobAssumption, IInv, TypeOK', WaveInv, NEW e \in Execs,
           DispatchFailed(e) \/ ExecutionCompleted(e) \/ ExecutionTimedOut(e)
    PROVE  WaveInv'
<1>. DEFINE j == JobOf[e]
<1>0. /\ TypeOK /\ IsABag(awaiting) /\ j \in Jobs /\ e \in ExecsOf(j)
      /\ currentBatch[j] \in Nat /\ \A x \in Execs : BatchOf[x] \in Nat
  BY DEF IInv, TypeOK, JobAssumption, ExecsOf
<1>1. PICK a, T, es, run :
         /\ es \in SUBSET ExecsOf(j) /\ run \in SUBSET running
         /\ a \in BagToSet(awaiting) /\ a.op \in WriteOps /\ a.exec = e /\ a.db = "done" /\ a.op # "run"
         /\ Dispatch(es, run, Without(a), T)
         /\ es = {} \/ Mode[j] = "parallel"
         /\ \A t \in T : t.op = "tally" \/ (t.op = "evaluate" /\ t.job = j)
         /\ \A x \in es : Fresh(x)
         /\ EvaluatesOnce(T)
  BY FinishedDispatches
<1>. HIDE DEF j
<1>2. UNCHANGED <<execStatus, received, atAgent, currentBatch, pauses>> /\ \A i : TimersKept(i)
  BY DEF DispatchFailed, ExecutionCompleted, ExecutionTimedOut, TimersKept, dbVars, agentVars
<1>3. \A x \in Execs \ {e} : inflight'[x] = inflight[x] /\ loose'[x] = loose[x]
  BY <1>0 DEF DispatchFailed, ExecutionCompleted, ExecutionTimedOut, InflightDelete, TypeOK, flightVars
<1>4. a \in OfExec(e) /\ Token(e) /\ Recorded(e) /\ ~ Settled(e) /\ ~ Fresh(e)
  BY <1>1 DEF OfExec, ExecOps, WaveInv, Token, Settled, Fresh
<1>5. inflight'[e] \in {"absent", "idle"} /\ loose'[e] = 0
  BY <1>0, <1>4 DEF DispatchFailed, ExecutionCompleted, ExecutionTimedOut, InflightDelete, TypeOK,
              flightVars, Token
<1>6. a.op \in ExecOps /\ a.op # "evaluate" /\ (\A t \in T : t.op \notin ExecOps) /\ es \in SUBSET Execs
  BY <1>1 DEF ExecOps, WriteOps, SendOps, LookupOps, ExecsOf
<1>7. PICK N : awaiting' = With(Without(a), N) /\ Claims(N, es, T)
  BY <1>1, <1>6, DispatchClaims
<1>8. running' \subseteq run \cup es
  BY <1>1, <1>6, DispatchClaims
<1>9. \A x \in Execs : /\ Token(x)' /\ (Settled(x) => Settled(x)')
                       /\ x \in es \/ (Fresh(x) => Fresh(x)')
                       /\ x \in {e} => Settled(x)'
  <2>1. {e} \in SUBSET Execs /\ es \in SUBSET ExecsOf(j) /\ run \in SUBSET running
    BY <1>1
  <2>2. /\ \A x \in {e} : /\ a \in OfExec(x) /\ Recorded(x)
                          /\ inflight'[x] \in {"absent", "idle"} /\ loose'[x] = 0
        /\ a.op \in ExecOps => a.exec \in {e}
    BY <1>1, <1>4, <1>5
  <2>3. \A x \in es : Fresh(x)
    BY <1>1
  <2>4. UNCHANGED <<execStatus, received, atAgent>>
    BY <1>2
  <2>5. \A t \in T : t.op \notin ExecOps
    BY <1>6
  <2>6. TypeOK
    BY <1>0
  <2>. QED
    BY <1>3, <1>7, <1>8, <2>1, <2>2, <2>3, <2>4, <2>5, <2>6, WaveDispatch
<1>10. ASSUME NEW i \in Jobs, Canary(i) PROVE Ordered(i)'
  <2>1. Ordered(i) /\ (\A b \in Evals(i) : Sole(Evals(i), b)) /\ Mode[i] = "rolling"
    BY <1>10 DEF WaveInv, Ordered, Canary
  <2>2. \A x \in ExecsOf(i) : x \in Execs /\ x \notin es
    BY <1>1, <2>1 DEF ExecsOf
  <2>3. Swaps(a, N) /\ a \notin EvalRecs(i)
    BY <1>6, <1>7 DEF Swaps, EvalRecs
  <2>4. CASE N \cap EvalRecs(i) = {}
    <3>1. EvalsKept(i)
      BY <1>0, <2>1, <2>3, <2>4, SwapSame, EvalsSame
    <3>. QED
      BY <1>2, <1>9, <2>1, <2>2, <3>1, OrderSame DEF EvalsKept
  <2>5. ASSUME NEW s \in N \cap EvalRecs(i) PROVE Ordered(i)'
    <3>1. s \in T /\ s.op = "evaluate" /\ i = j
      BY <1>1, <1>7, <2>5 DEF Claims, EvalRecs
    <3>2. N \cap EvalRecs(i) = {s}
      BY <1>1, <1>7, <2>5 DEF Claims, EvalRecs, EvaluatesOnce
    <3>3. BatchOf[e] = currentBatch[i] /\ e \in ExecsOf(i) /\ currentBatch[i] \in Nat
      BY <1>0, <1>4, <2>1, <3>1 DEF Ordered
    <3>4. Evals(i) = {}
      BY <1>0, <1>4, <2>1, <3>3 DEF Ordered, AllSettled
    <3>5. BagToSet(Without(a)) \cap EvalRecs(i) = {} /\ IsABag(Without(a))
      BY <1>0, <3>4, EvalsRecs, WithoutBag
    <3>6. Single(awaiting', EvalRecs(i), s)
      BY <1>7, <3>2, <3>5, NewBecomes
    <3>7. Evals(i)' = {s} /\ Sole(Evals(i), s)'
      BY <3>6, EvalsRecs DEF Single, Sole
    <3>8. AllSettled(i)'
      <4>. SUFFICES ASSUME NEW x \in ExecsOf(i), BatchOf[x] <= currentBatch[i] PROVE Settled(x)'
        BY <1>2 DEF AllSettled
      <4>1. CASE x = e
        BY <1>9, <4>1
      <4>2. CASE x # e
        <5>1. BatchOf[x] # BatchOf[e] /\ x \in Execs /\ BatchOf[x] \in Nat
          BY <1>0, <1>10, <2>2, <3>3, <4>2 DEF Canary
        <5>2. BatchOf[x] < currentBatch[i]
          BY <3>3, <5>1
        <5>. QED
          BY <1>9, <2>1, <5>1, <5>2 DEF Ordered
      <4>. QED
        BY <4>1, <4>2
    <3>9. pauses[i] = 0
      BY <1>4, <2>1, <3>3 DEF Ordered, Waiting
    <3>10. \A b \in Evals(i)' : /\ Sole(Evals(i), b)'
                                /\ Evals(i) # {} \/ (AllSettled(i)' /\ pauses[i] = 0)
      BY <3>7, <3>8, <3>9
    <3>. QED
      BY <1>2, <1>9, <2>1, <2>2, <3>10, OrderSame
  <2>. QED
    BY <2>4, <2>5
<1>11. \A i \in Jobs : Canary(i)' <=> Canary(i)
  BY DEF Canary
<1>. QED
  BY <1>9, <1>10, <1>11 DEF WaveInv

(* Steps of jobs that dispatch nothing: no token and no evaluation is added.*)
QuietJobOps == {"create", "start", "skip", "abort", "tally", "finish"}

LEMMA JobWaves ==
    ASSUME JobAssumption, IInv, TypeOK', WaveInv, NEW j \in Jobs,
           \/ CreateJob(j) \/ StartJob(j) \/ JobTallied(j) \/ JobFinished(j)
           \/ RemainingSkipped(j) \/ AbortJob(j)
    PROVE  WaveInv'
<1>0. TypeOK
  BY DEF IInv
<1>1. /\ UNCHANGED <<execStatus, inflight, loose, received, atAgent, currentBatch>>
      /\ running' \subseteq running /\ \A i \in Jobs : TimersKept(i)
  BY <1>0 DEF CreateJob, StartJob, JobTallied, JobFinished, RemainingSkipped, AbortJob, AbortRemaining,
         TimersKept, TypeOK, dbVars, stateVars, flightVars, agentVars
<1>2. ASSUME NEW a, NEW S, Swaps(a, S), a.op \in QuietJobOps, \A s \in S : s.op \in QuietJobOps
      PROVE  WaveInv'
  <2>1. QuietJobOps \cap (ExecOps \cup {"evaluate"}) = {}
    BY DEF QuietJobOps, ExecOps, WriteOps, SendOps, LookupOps
  <2>2. EvaluatesOnce(S) /\ a.op # "evaluate" /\ a.op \notin ExecOps
    BY <1>2, <2>1 DEF EvaluatesOnce
  <2>3. \A s \in S : s.op \notin ExecOps /\ s.op # "evaluate"
    BY <1>2, <2>1
  <2>. QED
    BY <1>0, <1>1, <1>2, <2>2, <2>3, WaveJob
<1>3. \A o : JobAt(o, j).op = o
  BY DEF JobAt
<1>4. CASE CreateJob(j)
  <2>. DEFINE s == [op |-> "create", job |-> j, db |-> "done"]
  <2>1. Swaps(s, {s}) /\ s.op \in QuietJobOps
    BY <1>4 DEF CreateJob, Swaps, QuietJobOps
  <2>. HIDE DEF s
  <2>. QED
    BY <1>2, <2>1
<1>5. CASE StartJob(j)
  <2>. DEFINE a == [op |-> "create", job |-> j, db |-> "done"]
  <2>1. Swaps(a, {JobAt("start", j)}) /\ a.op \in QuietJobOps
    BY <1>5 DEF StartJob, Swaps, QuietJobOps
  <2>2. JobAt("start", j).op \in QuietJobOps
    BY <1>3 DEF QuietJobOps
  <2>. HIDE DEF a
  <2>. QED
    BY <1>2, <2>1, <2>2
<1>6. CASE JobTallied(j)
  <2>1. PICK v \in {"SUCCESS", "FAILED"} :
           awaiting' = With(Without([op |-> "tally", job |-> j, db |-> v]),
                  {[op |-> "finish", job |-> j, db |-> "issued",
                    status |-> IF j \in aborted THEN "ABORTED" ELSE v]})
    BY <1>6 DEF JobTallied
  <2>. DEFINE a == [op |-> "tally", job |-> j, db |-> v]
              s == [op |-> "finish", job |-> j, db |-> "issued",
                    status |-> IF j \in aborted THEN "ABORTED" ELSE v]
  <2>2. Swaps(a, {s}) /\ a.op \in QuietJobOps /\ s.op \in QuietJobOps
    BY <2>1 DEF Swaps, QuietJobOps
  <2>. HIDE DEF a, s
  <2>. QED
    BY <1>2, <2>2
<1>7. CASE JobFinished(j)
  <2>1. PICK s \in JobFinal :
           awaiting' = Without([op |-> "finish", job |-> j, status |-> s, db |-> "done"])
    BY <1>7 DEF JobFinished
  <2>. DEFINE a == [op |-> "finish", job |-> j, status |-> s, db |-> "done"]
  <2>2. Swaps(a, {}) /\ a.op \in QuietJobOps
    BY <2>1 DEF Swaps, QuietJobOps
  <2>. HIDE DEF a
  <2>. QED
    BY <1>2, <2>2
<1>8. CASE RemainingSkipped(j)
  <2>1. PICK ids \in SUBSET ExecsOf(j) :
           awaiting' = With(Without([op |-> "skip", job |-> j, ids |-> ids, db |-> "done"]),
                            {JobAt("abort", j)})
    BY <1>8 DEF RemainingSkipped
  <2>. DEFINE a == [op |-> "skip", job |-> j, ids |-> ids, db |-> "done"]
  <2>2. Swaps(a, {JobAt("abort", j)}) /\ a.op \in QuietJobOps
    BY <2>1 DEF Swaps, QuietJobOps
  <2>3. JobAt("abort", j).op \in QuietJobOps
    BY <1>3 DEF QuietJobOps
  <2>. HIDE DEF a
  <2>. QED
    BY <1>2, <2>2, <2>3
<1>9. CASE AbortJob(j)
  <2>1. JobAt("abort", j).op = "abort" /\ "abort" \notin ExecOps
    BY <1>3 DEF ExecOps, WriteOps, SendOps, LookupOps
  <2>2. CASE j \in known
    <3>1. AbortRemaining(j, awaiting) /\ running' = running
      BY <1>9, <2>2 DEF AbortJob
    <3>. QED
      BY <1>0, <1>1, <2>1, <3>1, RemainingWaves
  <2>3. CASE j \notin known
    <3>1. Swaps(JobAt("abort", j), {JobAt("abort", j)})
      BY <1>9, <2>3 DEF AbortJob, Swaps
    <3>. QED
      BY <1>2, <2>1, <3>1 DEF QuietJobOps
  <2>. QED
    BY <2>2, <2>3
<1>. QED
  BY <1>4, <1>5, <1>6, <1>7, <1>8, <1>9

LEMMA DbWaves ==
    ASSUME JobAssumption, IInv, TypeOK', WaveInv, DbStep
    PROVE  WaveInv'
<1>0. TypeOK /\ SkipsAreFresh /\ IsABag(awaiting) /\ \A x \in Execs : Token(x)
  BY DEF IInv, DispatchedOnce, TypeOK, WaveInv
<1>1. PICK a \in BagToSet(awaiting) :
        a.db = "issued" /\ (DbWriteExecution(a) \/ DbSkip(a) \/ DbWriteJob(a) \/ DbRead(a))
  BY DEF DbStep
<1>2. UNCHANGED <<inflight, loose, received, atAgent, currentBatch, pauses, running>>
      /\ \A i : TimersKept(i)
  BY DEF DbStep, TimersKept, stateVars, flightVars, agentVars
<1>3. CASE DbWriteExecution(a)
  <2>1. PICK e \in Execs, o \in WriteOps :
           a = At(o, e) /\ \A v : [a EXCEPT !.db = v] = [op |-> o, exec |-> e, db |-> v]
    BY <1>0, <1>1, <1>3, AnsweredExec DEF DbWriteExecution
  <2>. DEFINE s == Now(o, e)
  <2>2. /\ a.op = o /\ a.exec = e /\ s.op = o /\ s.exec = e
        /\ awaiting' = With(Without(a), {s}) /\ execStatus' = [execStatus EXCEPT ![e] = Written(o)]
    BY <1>3, <2>1 DEF At, Now, DbWriteExecution, Answered
  <2>3. a \in OfExec(e) /\ s \in ExecRecs(e) /\ o \in ExecOps /\ o # "send"
    BY <1>0, <2>1, <2>2, OfExecRecs, ExecAwaitRecs DEF ExecOps, WriteOps
  <2>. HIDE DEF s
  <2>4. OnlyChanges({e}) /\ execStatus'[e] = Written(o)
    BY <1>0, <2>2 DEF OnlyChanges, TypeOK, DbStep, stateVars, flightVars, agentVars
  <2>5. o # "run" => Recorded(e)'
    BY <2>4 DEF Recorded, Written, WriteOps
  <2>6. Sole(OfExec(e), s)'
    <3>1. {s} \cap ExecRecs(e) = {s}
      BY <2>3
    <3>. QED
      BY <1>0, <2>2, <2>3, <3>1, AwaitReplaced
  <2>7. OfExec(e)' = {s}
    BY <2>6 DEF Sole
  <2>8. /\ inflight'[e] \in {"absent", "idle"} /\ loose'[e] = 0 /\ atAgent'[e] = 0
        /\ o \in TokenOps /\ ~ Fresh(e) /\ ~ Settled(e)
    BY <1>0, <1>2, <2>2, <2>3 DEF Token, Fresh, Settled
  <2>9. Token(e)'
    BY <2>2, <2>3, <2>5, <2>6, <2>7, <2>8 DEF Token
  <2>10. Swaps(a, {s})
    BY <2>2 DEF Swaps
  <2>. QED
    BY <1>0, <1>2, <2>2, <2>3, <2>4, <2>8, <2>9, <2>10, WaveExec
<1>4. CASE DbSkip(a)
  <2>. DEFINE s == [a EXCEPT !.db = "done"]
  <2>1. /\ a.op = "skip" /\ Swaps(a, {s})
        /\ execStatus' = [e \in Execs |-> IF e \in a.ids THEN "SKIPPED" ELSE execStatus[e]]
    BY <1>4 DEF DbSkip, Answered, Swaps
  <2>2. s.op = "skip" /\ "skip" \notin ExecOps \cup {"evaluate"}
    BY <1>0, <2>1, AnsweredJob DEF ExecOps, WriteOps, SendOps, LookupOps
  <2>. HIDE DEF s
  <2>3. \A x \in a.ids : Fresh(x)
    BY <1>0, <1>1, <2>1 DEF SkipsAreFresh
  <2>4. ASSUME NEW x \in Execs PROVE Follows(x)
    <3>1. a \notin ExecRecs(x) /\ {s} \cap ExecRecs(x) = {}
      BY <2>1, <2>2 DEF ExecRecs
    <3>2. SameAwaits(ExecRecs(x), awaiting, awaiting')
      BY <1>0, <2>1, <3>1, SwapSame
    <3>3. CASE x \notin a.ids
      <4>1. SameExec(x)
        BY <1>2, <2>1, <3>2, <3>3 DEF SameExec
      <4>. QED
        BY <1>0, <4>1, TokenSame
    <3>4. CASE x \in a.ids
      <4>1. Fresh(x) /\ execStatus'[x] = "SKIPPED"
        BY <2>1, <2>3, <3>4
      <4>2. OfExec(x)' = {}
        BY <1>0, <3>2, <4>1, OfExecRecs, OfExecRecsPrime DEF SameAwaits, Fresh
      <4>3. Fresh(x)' /\ ~ Settled(x)
        BY <1>2, <4>1, <4>2 DEF Fresh, Untouched, Settled, Recorded
      <4>4. Token(x)'
        BY <4>2, <4>3 DEF Token, Fresh, Untouched
      <4>. QED
        BY <4>3, <4>4 DEF Follows
    <3>. QED
      BY <3>3, <3>4
  <2>5. ASSUME NEW j \in Jobs, Canary(j) PROVE Ordered(j)'
    <3>1. Ordered(j) /\ \A b \in Evals(j) : Sole(Evals(j), b)
      BY <2>5 DEF WaveInv, Ordered
    <3>2. EvaluatesOnce({s}) /\ \A t \in {s} : t.op # "evaluate"
      BY <2>2 DEF EvaluatesOnce
    <3>3. EvalsKept(j)
      BY <1>0, <2>1, <3>1, <3>2, EvalsSwap
    <3>4. \A x \in ExecsOf(j) : (Settled(x) => Settled(x)') /\ (Fresh(x) => Fresh(x)')
      BY <2>4 DEF Follows, ExecsOf
    <3>. QED
      BY <1>2, <3>1, <3>3, <3>4, OrderSame DEF EvalsKept
  <2>6. \A j \in Jobs : Canary(j)' <=> Canary(j)
    BY DEF Canary
  <2>. QED
    BY <2>4, <2>5, <2>6 DEF WaveInv, Follows
<1>5. CASE DbWriteJob(a) \/ (DbRead(a) /\ a.op # "check")
  <2>1. a.op \in {"start", "finish", "abort", "evaluate", "tally"} /\ UNCHANGED execStatus
    BY <1>5 DEF DbWriteJob, DbRead, dbVars
  <2>2. \A v : [a EXCEPT !.db = v].op = a.op /\ [a EXCEPT !.db = v].job = a.job
    BY <1>0, <2>1, AnsweredJob
  <2>3. PICK v : awaiting' = Without(a) \/ awaiting' = With(Without(a), {[a EXCEPT !.db = v]})
    BY <1>5 DEF DbWriteJob, DbRead, Answered
  <2>. DEFINE s == [a EXCEPT !.db = v]
  <2>4. s.op = a.op /\ s.job = a.job
    BY <2>2
  <2>5. awaiting' = Without(a) \/ awaiting' = With(Without(a), {s})
    BY <2>3
  <2>. HIDE DEF s
  <2>6. Swaps(a, {s}) /\ EvaluatesOnce({s})
    BY <2>5 DEF Swaps, EvaluatesOnce
  <2>7. a.op \notin ExecOps /\ \A t \in {s} : t.op \notin ExecOps
    BY <2>1, <2>4 DEF ExecOps, WriteOps, SendOps, LookupOps
  <2>8. \A t \in {s} : t.op = "evaluate" => a.op = "evaluate" /\ t.job = a.job
    BY <2>4
  <2>. QED
    BY <1>0, <1>2, <2>1, <2>5, <2>6, <2>7, <2>8, WaveJob
<1>6. CASE DbRead(a) /\ a.op = "check"
  <2>1. a.exec \in Execs /\ a \in OfExec(a.exec)
    BY <1>0, <1>6, AnsweredCheck DEF OfExec, ExecOps
  <2>. QED
    BY <1>0, <1>6, <2>1 DEF Token, TokenOps
<1>. QED
  BY <1>1, <1>3, <1>4, <1>5, <1>6

(* What is left to the environment only decreases.                          *)
WithinBounds ==
    /\ left.disconnect <= MaxDisconnects
    /\ left.interactive <= MaxInteractive
    /\ left.restart <= MaxRestarts

Disturbs ==
    \/ \E m \in Machines : \/ AgentDisconnect(m) \/ InteractiveOutput(m)
                           \/ \E ok \in BOOLEAN : InteractiveAnswer(m, ok)
    \/ ServerRestart

LEMMA LeftStep ==
    ASSUME TypeOK, BoundAssumption, WithinBounds, [Next]_vars
    PROVE  /\ WithinBounds'
           /\ Undisturbed' => Undisturbed /\ ~ Disturbs
<1>1. ASSUME NEW what \in {"job", "disconnect", "interactive", "abort", "restart"}, Spend(what)
      PROVE  /\ left'[what] = left[what] - 1
             /\ \A k \in {"job", "disconnect", "interactive", "abort", "restart"} :
                   left[k] \in Nat /\ left'[k] \in Nat /\ (k # what => left'[k] = left[k])
  <2>1. left \in [{"job", "disconnect", "interactive", "abort", "restart"} -> Nat]
    BY DEF TypeOK
  <2>. QED
    BY <1>1, <2>1 DEF Spend
<1>2. {MaxDisconnects, MaxInteractive, MaxRestarts} \subseteq Nat
  BY DEF BoundAssumption
<1>3. CASE Disturbs
  <2>1. Spend("disconnect") \/ Spend("interactive") \/ Spend("restart")
    BY <1>3 DEF Disturbs, AgentDisconnect, InteractiveOutput, InteractiveAnswer, ServerRestart
  <2>2. ASSUME Spend("disconnect") PROVE WithinBounds' /\ ~ Undisturbed'
    BY <1>1, <1>2, <2>2 DEF WithinBounds, Undisturbed
  <2>3. ASSUME Spend("interactive") PROVE WithinBounds' /\ ~ Undisturbed'
    BY <1>1, <1>2, <2>3 DEF WithinBounds, Undisturbed
  <2>4. ASSUME Spend("restart") PROVE WithinBounds' /\ ~ Undisturbed'
    BY <1>1, <1>2, <2>4 DEF WithinBounds, Undisturbed
  <2>. QED
    BY <2>1, <2>2, <2>3, <2>4
<1>4. CASE ~ Disturbs
  <2>1. ASSUME NEW j \in Jobs, JobStep(j) PROVE left' = left
    BY <2>1 DEF JobStep, StartJob, JobStarted, BatchEvaluated, PauseOver, JobTallied, JobFinished,
       RemainingSkipped
  <2>2. ASSUME NEW e \in Execs, ExecStep(e) PROVE left' = left
    BY <2>2 DEF ExecStep, StartSending, CommandSent, CommandSentIntoClosedSocket, CommandNotSent,
       DispatchFailed, ExecutionCompleted, TimerFires, ReadsStatus, TimerChecked, ExecutionTimedOut, LookedUp
  <2>3. ASSUME NEW e \in Execs, AgentStep(e) \/ AgentOutput(e) \/ ForgetCompleted(e)
        PROVE  left' = left
    BY <2>3 DEF AgentStep, AgentAnswer, AnswerLost, AgentOutput, ForgetCompleted
  <2>4. ASSUME NEW j \in Jobs, CreateJob(j) \/ AbortJob(j) PROVE Spend("job") \/ Spend("abort")
    BY <2>4 DEF CreateJob, AbortJob
  <2>5. ASSUME NEW m \in Machines, AgentConnect(m) PROVE left' = left
    BY <2>5 DEF AgentConnect
  <2>6. DbStep \/ UNCHANGED vars => left' = left
    BY DEF DbStep, vars
  <2>7. left' = left \/ Spend("job") \/ Spend("abort")
    BY <1>4, <2>1, <2>2, <2>3, <2>4, <2>5, <2>6 DEF Disturbs, Next, Environment
  <2>8. left' = left => WithinBounds' /\ (Undisturbed' => Undisturbed)
    BY DEF WithinBounds, Undisturbed
  <2>9. ASSUME Spend("job") \/ Spend("abort")
        PROVE  WithinBounds' /\ (Undisturbed' => Undisturbed)
    BY <1>1, <2>9 DEF WithinBounds, Undisturbed
  <2>. QED
    BY <1>4, <2>7, <2>8, <2>9
<1>. QED
  BY <1>3, <1>4

(* No job with a wave of several targets waits more than once.              *)
LoneWaits == \A j \in Jobs : Repeats(j) => Canary(j)

LEMMA WaveStep ==
    ASSUME JobAssumption, LoneWaits, Inv, WaveInv, [Next]_vars, ~ Disturbs
    PROVE  WaveInv'
<1>0. IInv /\ TypeOK
  BY DEF Inv, IInv, LimitInv, DispatchedOnce
<1>1. TypeOK'
  BY InvStep DEF Inv, LimitInv
<1>2. ASSUME NEW m, AgentConnect(m) \/ UNCHANGED vars PROVE WaveInv'
  <2>1. UNCHANGED <<execStatus, inflight, loose, received, atAgent, currentBatch, pauses, awaiting,
                    running>>
    BY <1>2 DEF AgentConnect, vars, dbVars, stateVars, flightVars, agentVars
  <2>. QED
    BY <1>0, <1>1, <2>1, WaveNothing
<1>3. ASSUME NEW j \in Jobs, JobStep(j) PROVE WaveInv'
  <2>1. Repeats(j) => Canary(j)
    BY DEF LoneWaits
  <2>. QED
    BY <1>0, <1>1, <1>3, <2>1, JobWaves, StartedWaves, EvaluatedWaves, PauseOverWaves DEF JobStep
<1>4. ASSUME NEW e \in Execs, ExecStep(e) \/ AgentStep(e) PROVE WaveInv'
  BY <1>0, <1>1, <1>4, SendWaves, FinishWaves, AnswerWaves DEF ExecStep, AgentStep
<1>5. CASE Environment
  BY <1>0, <1>1, <1>2, <1>5, JobWaves, AnswerWaves DEF Environment, Disturbs
<1>. QED
  BY <1>0, <1>1, <1>2, <1>3, <1>4, <1>5, DbWaves DEF Next

(* Waves of one target are a canary: nothing of a later wave is dispatched  *)
(* by orchestrator.js before every earlier execution has its verdict in the *)
(* database, as long as no connection is lost, no command is typed on the   *)
(* page of a machine and the server is not restarted.  What makes this      *)
(* inductive: an execution has one token - one suspended handler, or the    *)
(* command at its agent - and so its wave is evaluated once, when nothing   *)
(* more will happen to it, and arms one wait timer.  Only jobs with waves   *)
(* of one target may wait more than once: the second answer of an execution *)
(* dispatched again may be taken for that of another one of its machine.    *)
THEOREM WavesOfOneInOrderHolds ==
    ASSUME \A j \in Jobs : Repeats(j) => Canary(j)
    PROVE  Spec => []WavesOfOneInOrder
<1>. DEFINE WInv == Undisturbed => WaveInv
<1>1. Init => Inv /\ WithinBounds /\ WInv
  <2>. SUFFICES ASSUME Init PROVE Inv /\ WithinBounds /\ WaveInv
    OBVIOUS
  <2>1. Inv /\ WithinBounds
    BY JobAssumption, BoundAssumption, InvInit DEF Init, WithinBounds
  <2>2. BagToSet(awaiting) = {}
    BY DEF Init, EmptyBag, SetToBag, BagToSet
  <2>3. \A x : OfExec(x) = {} /\ Evals(x) = {}
    BY <2>2 DEF OfExec, Evals
  <2>4. ASSUME NEW x \in Execs PROVE Token(x) /\ Fresh(x) /\ ~ (BatchOf[x] < 1)
    <3>1. BatchOf[x] \in Nat \ {0}
      BY JobAssumption DEF JobAssumption
    <3>. QED
      BY <2>3, <3>1 DEF Init, Token, Fresh, Untouched
  <2>5. ASSUME NEW j \in Jobs PROVE Ordered(j)
    <3>1. currentBatch[j] = 1 /\ pauses[j] = 0
      BY DEF Init
    <3>. QED
      BY <2>3, <2>4, <3>1 DEF Ordered, ExecsOf
  <2>. QED
    BY <2>1, <2>4, <2>5 DEF WaveInv
<1>2. Inv /\ WithinBounds /\ WInv /\ [Next]_vars => (Inv /\ WithinBounds /\ WInv)'
  <2>. SUFFICES ASSUME Inv, WithinBounds, WInv, [Next]_vars PROVE (Inv /\ WithinBounds /\ WInv)'
    OBVIOUS
  <2>1. Inv' /\ TypeOK
    BY JobAssumption, InvStep DEF Inv, LimitInv
  <2>2. WithinBounds' /\ (Undisturbed' => Undisturbed /\ ~ Disturbs)
    BY <2>1, BoundAssumption, LeftStep
  <2>3. Undisturbed' => WaveInv'
    BY <2>2, JobAssumption, WaveStep DEF LoneWaits
  <2>. QED
    BY <2>1, <2>2, <2>3
<1>3. Inv /\ WithinBounds /\ WInv => WavesOfOneInOrder
  <2>. SUFFICES ASSUME TypeOK, WaveInv, NEW j \in Jobs, Canary(j),
                       NEW e \in ExecsOf(j), NEW f \in ExecsOf(j), BatchOf[e] < BatchOf[f],
                       DispatchPending(f) \/ execStatus[f] \in {"RUNNING", "SUCCESS", "FAILED"}
                PROVE  execStatus[e] \in Final
    BY DEF WavesOfOneInOrder, Canary, Inv, LimitInv
  <2>1. ~ Fresh(f)
    <3>1. ASSUME DispatchPending(f) PROVE OfExec(f) # {}
      <4>1. PICK o \in {"offline", "run"} \cup SendOps, d \in {"issued", "done"} :
               [op |-> o, exec |-> f, db |-> d] \in BagToSet(awaiting)
        BY <3>1 DEF DispatchPending, BagIn
      <4>. DEFINE c == [op |-> o, exec |-> f, db |-> d]
      <4>2. c.op \in ExecOps /\ c.exec = f /\ c \in BagToSet(awaiting)
        BY <4>1 DEF ExecOps, WriteOps
      <4>. HIDE DEF c
      <4>. QED
        BY <4>2 DEF OfExec
    <3>. QED
      BY <3>1 DEF Fresh
  <2>2. BatchOf[f] <= currentBatch[j] /\ Ordered(j)
    BY <2>1 DEF WaveInv, Ordered
  <2>3. currentBatch[j] \in Nat /\ BatchOf[e] \in Nat /\ BatchOf[f] \in Nat
    BY JobAssumption DEF TypeOK, JobAssumption, ExecsOf
  <2>4. Settled(e)
    BY <2>2, <2>3 DEF Ordered
  <2>. QED
    BY <2>4 DEF Settled, Recorded, Final
<1>. QED
  BY <1>1, <1>2, <1>3, PTL DEF Spec

=============================================================================
