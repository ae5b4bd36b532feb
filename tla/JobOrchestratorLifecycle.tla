---------------------- MODULE JobOrchestratorLifecycle ----------------------
(***************************************************************************)
(* Lemmas towards the proof that the orchestrator implements               *)
(* ExecutionLifecycle: what a step may do to an execution and to a job so  *)
(* that DispatchedOnce is kept (Keeps), and that the steps of sending,     *)
(* answers, timers, connections, creation, completion and abort do no more.*)
(***************************************************************************)
EXTENDS JobOrchestratorInvariant, JobOrchestratorProofs

-----------------------------------------------------------------------------
(* Bags: what adding and removing awaits does to the copies of the others.  *)

LEMMA WithCopies ==
    ASSUME NEW B, IsABag(B), NEW S
    PROVE  /\ BagToSet(With(B, S)) = BagToSet(B) \cup S
           /\ \A x \in BagToSet(B) \ S : With(B, S)[x] = B[x]
           /\ \A x \in S \ BagToSet(B) : With(B, S)[x] = 1
  BY DEF IsABag, With, BagToSet, SetToBag, (+)

LEMMA WithoutCopies ==
    ASSUME IsABag(awaiting), NEW a
    PROVE  /\ \A x : x # a => (x \in BagToSet(Without(a)) <=> x \in BagToSet(awaiting))
           /\ \A x \in BagToSet(Without(a)) : x # a => Without(a)[x] = awaiting[x]
           /\ (a \in BagToSet(awaiting) /\ awaiting[a] = 1) => a \notin BagToSet(Without(a))
  BY DEF IsABag, Without, BagToSet, SetToBag, (-)

(* The copies of the awaits in X are the same in both bags.                 *)
SameAwaits(X, B, C) ==
    /\ BagToSet(B) \cap X = BagToSet(C) \cap X
    /\ \A b \in BagToSet(B) \cap X : B[b] = C[b]

LEMMA SameWith ==
    ASSUME NEW X, NEW B, NEW C, IsABag(C), NEW S, SameAwaits(X, B, C), S \cap X = {}
    PROVE  SameAwaits(X, B, With(C, S))
  BY WithCopies DEF SameAwaits

LEMMA SameWithout ==
    ASSUME NEW X, IsABag(awaiting), NEW a, a \notin X
    PROVE  SameAwaits(X, awaiting, Without(a))
  BY WithoutCopies DEF SameAwaits

LEMMA SameSelf == \A X, B : SameAwaits(X, B, B)
  BY DEF SameAwaits

-----------------------------------------------------------------------------
ExecRecs(e) == {a \in Await : a.op \in ExecOps /\ a.exec = e}
StartRecs(j) == {a \in Await : a.op \in {"create", "start"} /\ a.job = j}

IInv == TypeOK /\ RollingOnly /\ DispatchedOnce

LEMMA RepeatedPrime ==
    \A e : Repeated(e)' <=> (Repeats(JobOf[e]) /\ execStatus'[e] # "SKIPPED")
  BY DEF Repeated, Repeats, ExecsOf

LEMMA OfExecRecs ==
    ASSUME TypeOK, NEW e
    PROVE  OfExec(e) = BagToSet(awaiting) \cap ExecRecs(e)
  BY DEF TypeOK, OfExec, ExecRecs

LEMMA OfExecRecsPrime ==
    ASSUME TypeOK', NEW e
    PROVE  OfExec(e)' = BagToSet(awaiting') \cap ExecRecs(e)
  BY DEF TypeOK, OfExec, ExecRecs

LEMMA OfStartRecs ==
    ASSUME TypeOK, TypeOK', NEW j, SameAwaits(StartRecs(j), awaiting, awaiting')
    PROVE  OfStart(j)' = OfStart(j) /\ \A a \in OfStart(j) : awaiting'[a] = awaiting[a]
<1>1. OfStart(j) = BagToSet(awaiting) \cap StartRecs(j)
  BY DEF TypeOK, OfStart, StartRecs
<1>2. OfStart(j)' = BagToSet(awaiting') \cap StartRecs(j)
  BY DEF TypeOK, OfStart, StartRecs
<1>. QED
  BY <1>1, <1>2 DEF SameAwaits

(* Nothing of the execution x is changed by a step.                         *)
SameExec(x) ==
    /\ execStatus'[x] = execStatus[x]
    /\ inflight'[x] = inflight[x] /\ loose'[x] = loose[x]
    /\ received'[x] = received[x] /\ atAgent'[x] = atAgent[x]
    /\ x \in running' => x \in running
    /\ SameAwaits(ExecRecs(x), awaiting, awaiting')

LEMMA SamePhase ==
    ASSUME TypeOK, TypeOK', NEW x \in Execs, SameExec(x)
    PROVE  /\ Fresh(x) => Fresh(x)'
           /\ Claimed(x) <=> Claimed(x)'
           /\ MarkedRunning(x) <=> MarkedRunning(x)'
           /\ UnderWay(x) <=> UnderWay(x)'
<1>1. OfExec(x)' = OfExec(x)
  BY OfExecRecs, OfExecRecsPrime DEF SameExec, SameAwaits
<1>2. \A a \in OfExec(x) : awaiting'[a] = awaiting[a]
  BY OfExecRecs DEF SameExec, SameAwaits
<1>3. Untouched(x)' <=> Untouched(x)
  BY DEF SameExec, Untouched
<1>4. Fresh(x) => Fresh(x)'
  BY <1>1, <1>3 DEF Fresh, SameExec
<1>5. Claimed(x) <=> Claimed(x)'
  BY <1>1, <1>2, <1>3 DEF Claimed, SameExec, Sole
<1>6. MarkedRunning(x) <=> MarkedRunning(x)'
  BY <1>1, <1>2, <1>3 DEF MarkedRunning, SameExec, Sole
<1>7. UnderWay(x) <=> UnderWay(x)'
  <2>1. Repeated(x) <=> Repeated(x)'
    BY RepeatedPrime DEF Repeated, SameExec
  <2>2. SentOnce(x) <=> SentOnce(x)'
    BY <1>1, <1>2 DEF SentOnce, SameExec, Sole
  <2>. QED
    BY <2>1, <2>2 DEF UnderWay
<1>. QED
  BY <1>4, <1>5, <1>6, <1>7

-----------------------------------------------------------------------------
(* What a step may do to an execution: leave it fresh (or skip it), move it *)
(* on after it was claimed, or claim it for a job that is under way.        *)
Begun(x) == Claimed(x) \/ MarkedRunning(x) \/ UnderWay(x)

StaysFresh(x) == Fresh(x) /\ Fresh(x)' /\ execStatus'[x] = execStatus[x]
Skipped(x) == Fresh(x) /\ Fresh(x)' /\ JobOf[x] \in aborted'
MovesOn(x) == ~ Fresh(x) /\ Begun(x)'
IsClaimed(x) ==
    /\ Fresh(x) /\ Claimed(x)'
    /\ x \notin queue' /\ ~ Unstarted(JobOf[x])' /\ JobOf[x] \notin aborted
    /\ Mode[JobOf[x]] = "rolling" => BatchOf[x] <= currentBatch'[JobOf[x]]
    /\ pauses'[JobOf[x]] = 0 \/ Repeats(JobOf[x])

Moves(x) == StaysFresh(x) \/ Skipped(x) \/ MovesOn(x) \/ IsClaimed(x)

(* What a step may do to the jobs.                                          *)
StartsKept(j) ==
    /\ Unstarted(j)' => Unstarted(j)
    /\ OfStart(j)' = {} \/ (jobStatus'[j] # "none" /\ \E a \in OfStart(j)' : Sole(OfStart(j), a)')
Armed(j) ==
    /\ j \in PausedJobs /\ ~ Unstarted(j)'
    /\ \/ Repeats(j)
       \/ /\ pauses'[j] = 1 /\ currentBatch'[j] >= 2
          /\ j \in known' => \A e \in ExecsOf(j) : BatchOf[e] >= 2 => Fresh(e)
PausesKept == \A j \in Jobs : pauses'[j] = pauses[j] \/ pauses'[j] = 0 \/ Armed(j)
JobsKept ==
    /\ \A j \in Jobs : StartsKept(j)
    /\ \A j \in known' \cup aborted' : jobStatus'[j] # "none"
    /\ aborted \subseteq aborted'
    /\ \A j \in known' \ known : Unstarted(j)'
    /\ \A e \in queue' \ queue : Unstarted(JobOf[e])'
    /\ \A j \in Jobs : currentBatch'[j] >= currentBatch[j]
    /\ PausesKept
AwaitsKept ==
    /\ \A a \in BagToSet(awaiting') : a.op = "evaluate" =>
          \/ \E b \in BagToSet(awaiting) : b.op = "evaluate" /\ b.job = a.job
          \/ ~ Unstarted(a.job)
    /\ \A a \in BagToSet(awaiting') : a.op = "skip" /\ a.db = "issued" =>
          \/ a \in BagToSet(awaiting)
          \/ a.job \in aborted' /\ \A e \in a.ids : JobOf[e] = a.job /\ StaysFresh(e)

LEMMA SameFollows ==
    ASSUME TypeOK, TypeOK', Phases, NEW x \in Execs, SameExec(x)
    PROVE  StaysFresh(x) \/ MovesOn(x)
<1>1. execStatus'[x] = execStatus[x]
  BY DEF SameExec
<1>. QED
  BY <1>1, SamePhase DEF Phases, StaysFresh, MovesOn, Begun

LEMMA Keeps ==
    ASSUME JobAssumption, IInv, TypeOK', \A x \in Execs : Moves(x), JobsKept, AwaitsKept
    PROVE  DispatchedOnce'
<1>0. Phases /\ StartsOnce /\ QueuedIsFresh /\ SkipsAreFresh /\ PausesAreFresh
  BY DEF IInv, DispatchedOnce
<1>1. Phases'
  BY DEF Phases, Moves, StaysFresh, Skipped, MovesOn, IsClaimed, Begun
<1>2. StartsOnce'
  <2>1. ASSUME NEW j \in Jobs, Unstarted(j)'
        PROVE  /\ \A e \in ExecsOf(j) : Fresh(e)'
               /\ \A a \in BagToSet(awaiting') : a.op = "evaluate" => a.job # j
    <3>1. Unstarted(j)
      BY <2>1 DEF JobsKept, StartsKept
    <3>2. /\ \A e \in ExecsOf(j) : Fresh(e)
          /\ \A a \in BagToSet(awaiting) : a.op = "evaluate" => a.job # j
      BY <1>0, <3>1 DEF StartsOnce
    <3>3. ASSUME NEW e \in ExecsOf(j) PROVE Fresh(e)'
      <4>1. e \in Execs /\ JobOf[e] = j
        BY DEF ExecsOf
      <4>. QED
        BY <2>1, <3>2, <4>1 DEF Moves, StaysFresh, Skipped, MovesOn, IsClaimed
    <3>. QED
      BY <3>1, <3>2, <3>3 DEF AwaitsKept
  <2>. QED
    BY <2>1 DEF StartsOnce, JobsKept, StartsKept, ExecsOf
<1>3. QueuedIsFresh'
  <2>. SUFFICES ASSUME NEW e \in Execs, ~ Fresh(e)'
                PROVE  /\ e \notin queue'
                       /\ JobOf[e] \in known' /\ Mode[JobOf[e]] = "rolling"
                             => BatchOf[e] <= currentBatch'[JobOf[e]]
    BY DEF QueuedIsFresh
  <2>0. JobOf[e] \in Jobs /\ BatchOf[e] \in Nat /\ currentBatch[JobOf[e]] \in Nat
        /\ currentBatch'[JobOf[e]] \in Nat /\ currentBatch'[JobOf[e]] >= currentBatch[JobOf[e]]
    BY DEF JobAssumption, TypeOK, IInv, JobsKept
  <2>1. CASE IsClaimed(e)
    BY <2>1 DEF IsClaimed
  <2>2. CASE MovesOn(e)
    <3>1. ~ Unstarted(JobOf[e])
      BY <1>0, <2>0, <2>2 DEF MovesOn, StartsOnce, ExecsOf
    <3>2. ~ Unstarted(JobOf[e])'
      BY <2>0, <3>1 DEF JobsKept, StartsKept
    <3>3. e \notin queue /\ (JobOf[e] \in known /\ Mode[JobOf[e]] = "rolling"
                                => BatchOf[e] <= currentBatch[JobOf[e]])
      BY <1>0, <2>2 DEF MovesOn, QueuedIsFresh
    <3>4. e \notin queue' /\ (JobOf[e] \in known' => JobOf[e] \in known)
      BY <3>2, <3>3 DEF JobsKept
    <3>. QED
      BY <2>0, <3>3, <3>4
  <2>. QED
    BY <2>1, <2>2 DEF Moves, StaysFresh, Skipped
<1>4. SkipsAreFresh'
  <2>1. ASSUME NEW a \in BagToSet(awaiting'), a.op = "skip", a.db = "issued"
        PROVE  a.job \in aborted' /\ \A e \in a.ids : JobOf[e] = a.job /\ Fresh(e)'
    <3>1. CASE a \in BagToSet(awaiting)
      <4>1. a.job \in aborted /\ \A e \in a.ids : JobOf[e] = a.job /\ Fresh(e)
        BY <1>0, <2>1, <3>1 DEF SkipsAreFresh
      <4>2. \A e \in a.ids : e \in Execs
        BY <2>1, <3>1 DEF IInv, TypeOK, Await, ExecAwait, JobAwait, WriteOps, SendOps, LookupOps
      <4>3. \A e \in a.ids : Fresh(e)'
        BY <4>1, <4>2 DEF Moves, StaysFresh, Skipped, MovesOn, IsClaimed
      <4>. QED
        BY <4>1, <4>3 DEF JobsKept
    <3>2. CASE a.job \in aborted' /\ \A e \in a.ids : JobOf[e] = a.job /\ StaysFresh(e)
      BY <3>2 DEF StaysFresh
    <3>. QED
      BY <2>1, <3>1, <3>2 DEF AwaitsKept
  <2>2. ASSUME NEW e \in Execs, execStatus'[e] = "SKIPPED"
        PROVE  \/ JobOf[e] \in aborted'
               \/ JobOf[e] \notin known' /\ ~ Unstarted(JobOf[e])'
    <3>1. ~ Begun(e)'
      BY <2>2, RepeatedPrime DEF Begun, Claimed, MarkedRunning, UnderWay, SentOnce
    <3>2. CASE Skipped(e)
      BY <3>2 DEF Skipped
    <3>3. CASE StaysFresh(e)
      <4>1. JobOf[e] \in aborted \/ (JobOf[e] \notin known /\ ~ Unstarted(JobOf[e]))
        BY <1>0, <2>2, <3>3 DEF SkipsAreFresh, StaysFresh
      <4>2. JobOf[e] \in Jobs
        BY DEF JobAssumption
      <4>. QED
        BY <4>1, <4>2 DEF JobsKept, StartsKept
    <3>. QED
      BY <3>1, <3>2, <3>3 DEF Moves, MovesOn, IsClaimed, Begun
  <2>. QED
    BY <2>1, <2>2 DEF SkipsAreFresh
<1>5. PausesAreFresh'
  <2>. SUFFICES ASSUME NEW j \in Jobs, pauses'[j] # 0 PROVE PausesOnce(j)'
    BY DEF PausesAreFresh, PausesOnce
  <2>1. Armed(j)
    <3>. SUFFICES ASSUME pauses'[j] = pauses[j] PROVE Armed(j)
      BY DEF JobsKept, PausesKept
    <3>1. ~ Unstarted(j) /\ ~ Unstarted(j)'
      BY <1>0 DEF PausesAreFresh, PausesOnce, JobsKept, StartsKept
    <3>2. currentBatch[j] \in Nat /\ currentBatch'[j] \in Nat /\ currentBatch'[j] >= currentBatch[j]
      BY DEF TypeOK, IInv, JobsKept
    <3>3. j \in known' => j \in known
      BY <3>1 DEF JobsKept
    <3>. QED
      BY <1>0, <3>1, <3>2, <3>3 DEF PausesAreFresh, PausesOnce, Armed
  <2>2. Repeats(j)' <=> Repeats(j)
    BY DEF Repeats, ExecsOf
  <2>3. ASSUME ~ Repeats(j), NEW e \in Execs, JobOf[e] = j, Fresh(e) PROVE Fresh(e)'
    <3>1. ~ IsClaimed(e)
      BY <2>3 DEF IsClaimed
    <3>. QED
      BY <2>3, <3>1 DEF Moves, StaysFresh, Skipped, MovesOn
  <2>. QED
    BY <2>1, <2>2, <2>3 DEF Armed, PausesOnce, ExecsOf
<1>. QED
  BY <1>1, <1>2, <1>3, <1>4, <1>5 DEF DispatchedOnce

-----------------------------------------------------------------------------
(* Steps that only concern executions.                                      *)

(* A step replaces the await a, if any, by those in S.                      *)
Swaps(a, S) ==
    \/ awaiting' = awaiting
    \/ awaiting' = Without(a)
    \/ awaiting' = With(awaiting, S)
    \/ awaiting' = With(Without(a), S)

LEMMA SwapSame ==
    ASSUME IsABag(awaiting), NEW a, NEW S, Swaps(a, S), NEW X, a \notin X, S \cap X = {}
    PROVE  SameAwaits(X, awaiting, awaiting')
<1>1. SameAwaits(X, awaiting, awaiting)
  BY SameSelf
<1>2. IsABag(Without(a)) /\ SameAwaits(X, awaiting, Without(a))
  BY WithoutBag, SameWithout
<1>3. /\ SameAwaits(X, awaiting, With(awaiting, S))
      /\ SameAwaits(X, awaiting, With(Without(a), S))
  BY <1>1, <1>2, SameWith
<1>. QED
  BY <1>1, <1>2, <1>3 DEF Swaps

LEMMA SwapSet ==
    ASSUME IsABag(awaiting), NEW a, NEW S, Swaps(a, S)
    PROVE  BagToSet(awaiting') \subseteq BagToSet(awaiting) \cup S
  BY WithBag, WithoutBag DEF Swaps

LEMMA SoleReplaced ==
    ASSUME IsABag(awaiting), NEW X, NEW a, Sole(BagToSet(awaiting) \cap X, a), NEW S
    PROVE  /\ BagToSet(Without(a)) \cap X = {}
           /\ BagToSet(With(Without(a), S)) \cap X = S \cap X
<1>1. IsABag(Without(a)) /\ BagToSet(Without(a)) \cap X = {}
  BY WithoutBag, WithoutCopies DEF Sole
<1>. QED
  BY <1>1, WithBag

(* b is the only await of B in X, and there is one copy of it.              *)
Single(B, X, b) == BagToSet(B) \cap X = {b} /\ B[b] = 1

LEMMA SoleBecomes ==
    ASSUME IsABag(awaiting), NEW X, NEW a, Sole(BagToSet(awaiting) \cap X, a),
           NEW S, NEW b, S \cap X = {b}
    PROVE  Single(With(Without(a), S), X, b)
<1>1. IsABag(Without(a)) /\ BagToSet(Without(a)) \cap X = {}
  BY WithoutBag, WithoutCopies DEF Sole
<1>2. BagToSet(With(Without(a), S)) \cap X = {b}
  BY <1>1, WithBag
<1>3. b \in S \ BagToSet(Without(a))
  BY <1>1
<1>4. With(Without(a), S)[b] = 1
  BY <1>1, <1>3, WithCopies
<1>. QED
  BY <1>2, <1>4 DEF Single

LEMMA ExecOnly ==
    ASSUME IInv, TypeOK', UNCHANGED <<jobStatus, known, aborted, queue, currentBatch, pauses>>,
           NEW a, NEW S, Swaps(a, S), a.op \in ExecOps, \A s \in S : s.op \in ExecOps
    PROVE  JobsKept /\ AwaitsKept
<1>0. TypeOK /\ StartsOnce /\ IsABag(awaiting)
  BY DEF IInv, DispatchedOnce, TypeOK
<1>1. ExecOps \cap {"create", "start", "evaluate", "skip"} = {}
  BY DEF ExecOps, WriteOps, SendOps, LookupOps
<1>2. \A j \in Jobs : StartsKept(j)
  <2>. TAKE j \in Jobs
  <2>1. SameAwaits(StartRecs(j), awaiting, awaiting')
    <3>1. a \notin StartRecs(j) /\ S \cap StartRecs(j) = {}
      BY <1>1 DEF StartRecs
    <3>. QED
      BY <1>0, <3>1, SwapSame
  <2>2. OfStart(j)' = OfStart(j) /\ \A b \in OfStart(j) : awaiting'[b] = awaiting[b]
    BY <1>0, <2>1, OfStartRecs
  <2>. QED
    BY <1>0, <2>2 DEF StartsKept, StartsOnce, Unstarted, Sole
<1>3. AwaitsKept
  BY <1>0, <1>1, SwapSet DEF AwaitsKept
<1>4. JobsKept
  BY <1>0, <1>2 DEF JobsKept, StartsOnce, PausesKept, TypeOK
<1>. QED
  BY <1>3, <1>4

(* Outside of E no execution is changed.                                    *)
OnlyChanges(E) ==
    \A x \in Execs \ E :
        /\ execStatus'[x] = execStatus[x]
        /\ inflight'[x] = inflight[x] /\ loose'[x] = loose[x]
        /\ received'[x] = received[x] /\ atAgent'[x] = atAgent[x]
        /\ x \in running' => x \in running

LEMMA ExecKeeps ==
    ASSUME JobAssumption, IInv, TypeOK',
           UNCHANGED <<jobStatus, known, aborted, queue, currentBatch, pauses>>,
           NEW E \in SUBSET Execs, OnlyChanges(E), \A x \in E : MovesOn(x),
           NEW a, NEW S, Swaps(a, S), a.op \in ExecOps, a.exec \in E,
           \A s \in S : s.op \in ExecOps /\ s.exec \in E
    PROVE  DispatchedOnce'
<1>0. TypeOK /\ Phases /\ IsABag(awaiting)
  BY DEF IInv, DispatchedOnce, TypeOK
<1>1. ASSUME NEW x \in Execs \ E PROVE Moves(x)
  <2>1. a \notin ExecRecs(x) /\ S \cap ExecRecs(x) = {}
    BY DEF ExecRecs
  <2>2. SameExec(x)
    BY <1>0, <2>1, SwapSame DEF SameExec, OnlyChanges
  <2>. QED
    BY <1>0, <2>2, SameFollows DEF Moves
<1>2. \A x \in Execs : Moves(x)
  BY <1>1 DEF Moves
<1>. QED
  BY <1>2, ExecOnly, Keeps

(* The await of a handler tells how far its execution is.                   *)
LEMMA PhaseOfAwait ==
    ASSUME TypeOK, Phases, NEW e \in Execs, NEW a \in OfExec(e)
    PROVE  /\ ~ Fresh(e)
           /\ a \in {At("run", e), At("offline", e)} => Claimed(e) \/ Repeated(e)
           /\ a = Now("run", e) => MarkedRunning(e) \/ Repeated(e)
           /\ a \notin {At("run", e), At("offline", e), Now("run", e)} => UnderWay(e)
<1>1. At("run", e) # Now("run", e) /\ At("offline", e) # Now("run", e)
  BY DEF At, Now
<1>. QED
  BY <1>1 DEF Phases, Fresh, Claimed, MarkedRunning, UnderWay, SentOnce, Sole

LEMMA TouchedUnderWay ==
    ASSUME Phases, NEW e \in Execs, ~ Untouched(e)
    PROVE  UnderWay(e) /\ ~ Fresh(e)
  BY DEF Phases, Fresh, Claimed, MarkedRunning

LEMMA ExecAwaitRecs ==
    ASSUME NEW e \in Execs
    PROVE  /\ \A o \in WriteOps : At(o, e) \in ExecRecs(e) /\ Now(o, e) \in ExecRecs(e)
           /\ \A o \in SendOps \cup LookupOps : Now(o, e) \in ExecRecs(e)
           /\ At("check", e) \in ExecRecs(e)
<1>1. \A o : /\ At(o, e).op = o /\ At(o, e).exec = e
             /\ Now(o, e).op = o /\ Now(o, e).exec = e
  BY DEF At, Now
<1>2. \A o \in WriteOps \cup SendOps \cup LookupOps \cup {"check"} : o \in ExecOps
  BY DEF ExecOps
<1>. QED
  BY <1>1, <1>2, ExecAwaits DEF ExecRecs

(* All that UnderWay depends on of the awaits.                              *)
SendRecs(e) == {a \in ExecRecs(e) : a.op \in SendOps}
EarlyRecs(e) == {At("run", e), At("offline", e), Now("run", e)}

(* What the row of an execution may say that is under way.                  *)
Recordable(e) ==
    /\ execStatus[e] # "SKIPPED"
    /\ execStatus[e] \in {"RUNNING", "SUCCESS", "FAILED"} \/ Repeats(JobOf[e])

LEMMA StatusUnderWay ==
    \A e : /\ UnderWay(e) => Recordable(e)
           /\ UnderWay(e) /\ execStatus'[e] = execStatus[e] => Recordable(e)'
           /\ execStatus'[e] \in {"RUNNING", "SUCCESS", "FAILED"} => Recordable(e)'
           /\ Recordable(e)' /\ Repeats(JobOf[e]) => UnderWay(e)'
<1>1. ASSUME NEW e PROVE Recordable(e)' <=>
         /\ execStatus'[e] # "SKIPPED"
         /\ execStatus'[e] \in {"RUNNING", "SUCCESS", "FAILED"} \/ Repeats(JobOf[e])
  BY DEF Recordable, Repeats, ExecsOf
<1>2. ASSUME NEW e, UnderWay(e) PROVE Recordable(e)
  BY <1>2 DEF UnderWay, Recordable, SentOnce, Repeated
<1>3. ASSUME NEW e, Recordable(e)', Repeats(JobOf[e]) PROVE UnderWay(e)'
  BY <1>1, <1>3, RepeatedPrime DEF UnderWay
<1>. QED
  BY <1>1, <1>2, <1>3 DEF Recordable

LEMMA UnderWayKept ==
    ASSUME TypeOK, TypeOK', NEW e \in Execs, UnderWay(e),
           Recordable(e)', received'[e] = received[e],
           NEW a, NEW S, Swaps(a, S), a.op \notin SendOps,
           \A s \in S : s.op \notin SendOps /\ s \notin EarlyRecs(e)
    PROVE  UnderWay(e)'
<1>. SUFFICES ASSUME ~ Repeats(JobOf[e]) PROVE SentOnce(e)'
  BY StatusUnderWay DEF UnderWay
<1>0. /\ IsABag(awaiting) /\ SentOnce(e)
      /\ execStatus'[e] \in {"RUNNING", "SUCCESS", "FAILED"}
  BY DEF TypeOK, UnderWay, Repeated, Recordable, Repeats, ExecsOf
<1>1. SameAwaits(SendRecs(e), awaiting, awaiting')
  BY <1>0, SwapSame, a \notin SendRecs(e), S \cap SendRecs(e) = {} DEF SendRecs
<1>2. BagToSet(awaiting') \cap EarlyRecs(e) = {}
  <2>1. EarlyRecs(e) \subseteq ExecRecs(e)
    BY ExecAwaitRecs DEF EarlyRecs, WriteOps
  <2>2. BagToSet(awaiting) \cap EarlyRecs(e) = {}
    BY <2>1, <1>0, OfExecRecs DEF SentOnce, EarlyRecs
  <2>. QED
    BY <1>0, <2>2, SwapSet
<1>3. {b \in OfExec(e)' : b.op \in SendOps} = {b \in OfExec(e) : b.op \in SendOps}
  BY <1>1, OfExecRecs, OfExecRecsPrime DEF SameAwaits, SendRecs
<1>4. \A b \in OfExec(e) : b.op \in SendOps => awaiting'[b] = awaiting[b]
  BY <1>1, OfExecRecs DEF SameAwaits, SendRecs
<1>5. EarlyRecs(e) \cap OfExec(e)' = {}
  BY <1>2, OfExecRecsPrime
<1>. QED
  BY <1>0, <1>3, <1>4, <1>5 DEF SentOnce, Sole, EarlyRecs

(* A step of executions that are under way already.                         *)
LEMMA UnderWayStep ==
    ASSUME JobAssumption, IInv, TypeOK',
           UNCHANGED <<jobStatus, known, aborted, queue, currentBatch, pauses>>,
           NEW E \in SUBSET Execs, OnlyChanges(E), \A x \in E : UnderWay(x) /\ ~ Fresh(x),
           \A x \in E : Recordable(x)' /\ received'[x] = received[x],
           NEW a, NEW S, Swaps(a, S), a.op \in ExecOps \ SendOps, a.exec \in E,
           \A s \in S : /\ s.op \in ExecOps \ SendOps /\ s.exec \in E
                        /\ s.op \notin {"run", "offline"}
    PROVE  DispatchedOnce'
<1>1. ASSUME NEW x \in E PROVE UnderWay(x)'
  <2>1. \A s \in S : s \notin EarlyRecs(x)
    BY DEF EarlyRecs, At, Now
  <2>. QED
    BY <2>1, UnderWayKept DEF IInv
<1>2. \A x \in E : MovesOn(x)
  BY <1>1 DEF MovesOn, Begun
<1>. QED
  BY <1>2, ExecKeeps

LEMMA StartSendingKeeps ==
    ASSUME JobAssumption, IInv, TypeOK', NEW e \in Execs, StartSending(e)
    PROVE  DispatchedOnce'
<1>. DEFINE a == Now("run", e)
<1>0. TypeOK /\ Phases /\ IsABag(awaiting)
  BY DEF IInv, DispatchedOnce, TypeOK
<1>1. PICK o \in {"send", "refused"} : awaiting' = With(Without(a), {Now(o, e)})
  BY DEF StartSending, Marked
<1>2. a \in OfExec(e)
  BY ExecAwaitRecs, <1>0, OfExecRecs DEF StartSending, Marked, BagIn, WriteOps
<1>3. (MarkedRunning(e) \/ Repeated(e)) /\ ~ Fresh(e)
  BY <1>0, <1>2, PhaseOfAwait
<1>. DEFINE s == Now(o, e)
<1>4. s \in ExecRecs(e) /\ s.op \in SendOps /\ s.exec = e /\ a.op = "run" /\ a.exec = e
  BY ExecAwaitRecs DEF SendOps, Now
<1>5. MarkedRunning(e) => OfExec(e)' = {s} /\ awaiting'[s] = 1
  <2>. SUFFICES ASSUME MarkedRunning(e) PROVE OfExec(e)' = {s} /\ awaiting'[s] = 1
    OBVIOUS
  <2>1. Sole(BagToSet(awaiting) \cap ExecRecs(e), a)
    BY <1>0, OfExecRecs DEF MarkedRunning
  <2>. HIDE DEF a, s
  <2>2. awaiting' = With(Without(a), {s})
    BY <1>1 DEF a, s
  <2>3. {s} \cap ExecRecs(e) = {s}
    BY <1>4
  <2>4. Single(awaiting', ExecRecs(e), s)
    BY <1>0, <2>1, <2>2, <2>3, SoleBecomes
  <2>5. OfExec(e)' = BagToSet(awaiting') \cap ExecRecs(e)
    BY OfExecRecsPrime
  <2>. QED
    BY <2>4, <2>5 DEF Single
<1>6. UnderWay(e)'
  <2>0. CASE Repeated(e)
    BY <2>0, RepeatedPrime DEF UnderWay, Repeated, StartSending, dbVars
  <2>. SUFFICES ASSUME MarkedRunning(e) PROVE SentOnce(e)'
    BY <1>3, <2>0 DEF UnderWay
  <2>1. execStatus'[e] = "RUNNING" /\ received'[e] = 0
    BY DEF StartSending, MarkedRunning, Untouched, dbVars, agentVars
  <2>2. {At("run", e), At("offline", e), Now("run", e)} \cap OfExec(e)' = {}
    BY <1>4, <1>5 DEF At, Now, SendOps
  <2>3. {b \in OfExec(e)' : b.op \in SendOps} = {s}
    BY <1>4, <1>5
  <2>. HIDE DEF s
  <2>. QED
    BY <1>5, <2>1, <2>2, <2>3 DEF SentOnce, Sole
<1>7. OnlyChanges({e})
  BY <1>0 DEF OnlyChanges, StartSending, InflightSet, TypeOK, dbVars, stateVars, agentVars
<1>8. UNCHANGED <<jobStatus, known, aborted, queue, currentBatch, pauses>>
  BY DEF StartSending, dbVars, stateVars
<1>9. Swaps(a, {s}) /\ a.op \in ExecOps /\ s.op \in ExecOps
  BY <1>1, <1>4 DEF Swaps, ExecOps, WriteOps
<1>10. MovesOn(e)
  BY <1>3, <1>6 DEF MovesOn, Begun
<1>. HIDE DEF a, s
<1>. QED
  BY <1>4, <1>7, <1>8, <1>9, <1>10, ExecKeeps

(* The pending send is the only one of its execution.                       *)
LEMMA SendOver ==
    ASSUME TypeOK, TypeOK', Phases, NEW e \in Execs, NEW o \in SendOps,
           BagIn(Now(o, e), awaiting), execStatus'[e] = execStatus[e],
           received'[e] = received[e] \/ received'[e] = received[e] + 1,
           NEW S, S = {} \/ S = {At("sendFailed", e)},
           \/ awaiting' = Without(Now(o, e)) /\ S = {}
           \/ awaiting' = With(Without(Now(o, e)), S)
    PROVE  MovesOn(e) /\ (received[e] = 0 \/ Repeats(JobOf[e]))
<1>. DEFINE a == Now(o, e)
<1>0. IsABag(awaiting)
  BY DEF TypeOK
<1>1. a \in OfExec(e) /\ a.op = o
  BY ExecAwaitRecs, OfExecRecs DEF BagIn, Now
<1>2. UnderWay(e) /\ ~ Fresh(e)
  BY <1>1, PhaseOfAwait DEF SendOps, At, Now
<1>. SUFFICES ASSUME ~ Repeats(JobOf[e]) PROVE SentOnce(e)' /\ received[e] = 0
  <2>1. Recordable(e)'
    BY <1>2, StatusUnderWay
  <2>2. Repeats(JobOf[e]) => UnderWay(e)'
    BY <2>1, StatusUnderWay
  <2>. QED
    BY <1>2, <2>2 DEF MovesOn, Begun, UnderWay
<1>20. SentOnce(e)
  BY <1>2 DEF UnderWay, Repeated
<1>3. /\ a \in {b \in OfExec(e) : b.op \in SendOps}
      /\ received[e] = 0 /\ Sole({b \in OfExec(e) : b.op \in SendOps}, a)
  BY <1>1, <1>20 DEF SentOnce, Sole
<1>4. Sole(BagToSet(awaiting) \cap SendRecs(e), a)
  BY <1>3, OfExecRecs DEF SendRecs, Sole
<1>5. \A s \in S : s.op \notin SendOps /\ s \notin EarlyRecs(e)
  BY DEF At, Now, EarlyRecs, SendOps
<1>6. Swaps(a, S)
  BY DEF Swaps
<1>. HIDE DEF a
<1>7. BagToSet(awaiting') \cap SendRecs(e) = {}
  <2>1. S \cap SendRecs(e) = {}
    BY <1>5 DEF SendRecs
  <2>2. /\ BagToSet(Without(a)) \cap SendRecs(e) = {}
        /\ BagToSet(With(Without(a), S)) \cap SendRecs(e) = S \cap SendRecs(e)
    BY <1>0, <1>4, SoleReplaced
  <2>3. awaiting' = Without(a) \/ awaiting' = With(Without(a), S)
    BY DEF a
  <2>. QED
    BY <2>1, <2>2, <2>3
<1>8. {b \in OfExec(e)' : b.op \in SendOps} = {}
  BY <1>7, OfExecRecsPrime DEF SendRecs
<1>9. EarlyRecs(e) \cap OfExec(e)' = {}
  <2>1. EarlyRecs(e) \subseteq ExecRecs(e)
    BY ExecAwaitRecs DEF EarlyRecs, WriteOps
  <2>2. BagToSet(awaiting) \cap EarlyRecs(e) = {}
    BY <1>20, <2>1, OfExecRecs DEF SentOnce, EarlyRecs
  <2>. QED
    BY <1>0, <1>5, <1>6, <2>2, SwapSet, OfExecRecsPrime
<1>10. received'[e] <= 1
  BY <1>3
<1>. QED
  BY <1>20, <1>3, <1>8, <1>9, <1>10 DEF SentOnce, EarlyRecs

LEMMA SendKeeps ==
    ASSUME JobAssumption, IInv, TypeOK', NEW e \in Execs,
           CommandSent(e) \/ CommandSentIntoClosedSocket(e) \/ CommandNotSent(e)
    PROVE  DispatchedOnce'
<1>0. TypeOK /\ Phases /\ IsABag(awaiting)
  BY DEF IInv, DispatchedOnce, TypeOK
<1>1. PICK o \in SendOps, S \in {{}, {At("sendFailed", e)}} :
         /\ BagIn(Now(o, e), awaiting)
         /\ \/ awaiting' = Without(Now(o, e)) /\ S = {}
            \/ awaiting' = With(Without(Now(o, e)), S)
  BY DEF CommandSent, CommandSentIntoClosedSocket, CommandNotSent, Ready, SendOps
<1>2. /\ execStatus'[e] = execStatus[e]
      /\ received'[e] = received[e] \/ received'[e] = received[e] + 1
  BY <1>0 DEF CommandSent, CommandSentIntoClosedSocket, CommandNotSent, TypeOK, dbVars, agentVars
<1>3. MovesOn(e)
  BY <1>0, <1>1, <1>2, SendOver
<1>4. OnlyChanges({e})
  BY <1>0 DEF OnlyChanges, CommandSent, CommandSentIntoClosedSocket, CommandNotSent, TypeOK,
              dbVars, stateVars, flightVars, agentVars
<1>5. UNCHANGED <<jobStatus, known, aborted, queue, currentBatch, pauses>>
  BY DEF CommandSent, CommandSentIntoClosedSocket, CommandNotSent, dbVars, stateVars
<1>6. /\ Swaps(Now(o, e), S) /\ Now(o, e).op \in ExecOps /\ Now(o, e).exec = e
      /\ \A s \in S : s.op \in ExecOps /\ s.exec = e
  BY <1>1 DEF Swaps, Now, At, ExecOps, WriteOps
<1>. QED
  BY <1>3, <1>4, <1>5, <1>6, ExecKeeps

-----------------------------------------------------------------------------
(* Timers and answers.                                                      *)

LEMMA TimerKeeps ==
    ASSUME JobAssumption, IInv, TypeOK', NEW e \in Execs, TimerFires(e) \/ TimerChecked(e)
    PROVE  DispatchedOnce'
<1>0. TypeOK /\ Phases /\ IsABag(awaiting)
  BY DEF IInv, DispatchedOnce, TypeOK
<1>1. UNCHANGED <<jobStatus, known, aborted, queue, currentBatch, pauses>>
  BY DEF TimerFires, ReadsStatus, TimerChecked, dbVars, stateVars
<1>2. OnlyChanges({e}) /\ execStatus'[e] = execStatus[e] /\ received'[e] = received[e]
  BY <1>0 DEF OnlyChanges, TimerFires, ReadsStatus, TimerChecked, InflightDelete, TypeOK,
              dbVars, stateVars, flightVars, agentVars
<1>3. UnderWay(e) /\ ~ Fresh(e)
  <2>1. CASE TimerFires(e)
    <3>1. ~ Untouched(e)
      BY <2>1, <1>0 DEF TimerFires, ReadsStatus, Untouched, TypeOK
    <3>. QED
      BY <1>0, <3>1, TouchedUnderWay
  <2>2. CASE TimerChecked(e)
    <3>1. PICK d \in {"final", "open"} : BagIn([op |-> "check", exec |-> e, db |-> d], awaiting)
      BY <2>2 DEF TimerChecked, Ready
    <3>. DEFINE c == [op |-> "check", exec |-> e, db |-> d]
    <3>2. c \in OfExec(e)
      BY <3>1 DEF OfExec, BagIn, ExecOps
    <3>3. c \notin {At("run", e), At("offline", e), Now("run", e)}
      BY DEF At, Now
    <3>. QED
      BY <1>0, <3>2, <3>3, PhaseOfAwait
  <2>. QED
    BY <2>1, <2>2
<1>4. PICK a, S : /\ Swaps(a, S) /\ a.op = "check" /\ a.exec = e
                  /\ \A s \in S : s.op \in {"check", "timedOut"} /\ s.exec = e
  <2>1. \A o : At(o, e).op = o /\ At(o, e).exec = e
    BY DEF At
  <2>2. CASE TimerFires(e)
    <3>. DEFINE c == At("check", e)
    <3>1. Swaps(c, {c})
      BY <2>2 DEF TimerFires, ReadsStatus, Swaps
    <3>2. c.op = "check" /\ c.exec = e
      BY <2>1
    <3>. HIDE DEF c
    <3>. QED
      BY <3>1, <3>2
  <2>3. ASSUME NEW d, NEW c, c = [op |-> "check", exec |-> e, db |-> d],
               awaiting' = Without(c) \/ awaiting' = With(Without(c), {At("timedOut", e)})
        PROVE  \E a, S : /\ Swaps(a, S) /\ a.op = "check" /\ a.exec = e
                         /\ \A s \in S : s.op \in {"check", "timedOut"} /\ s.exec = e
    <3>1. Swaps(c, {At("timedOut", e)}) /\ c.op = "check" /\ c.exec = e
      BY <2>3 DEF Swaps
    <3>. QED
      BY <2>1, <3>1
  <2>. QED
    BY <2>2, <2>3 DEF TimerChecked
<1>5. \A s \in S \cup {a} : s.op \in ExecOps \ SendOps /\ s.exec = e /\ s.op \notin {"run", "offline"}
  BY <1>4 DEF ExecOps, WriteOps, SendOps, LookupOps
<1>. QED
  BY <1>1, <1>2, <1>3, <1>4, <1>5, StatusUnderWay, UnderWayStep

(* The target of an output is an execution with an inflight entry.          *)
LEMMA TargetUnderWay ==
    ASSUME Phases, NEW x \in Execs, inflight[x] # "absent"
    PROVE  UnderWay(x) /\ ~ Fresh(x)
  BY TouchedUnderWay DEF Untouched

LEMMA TargetInflight ==
    ASSUME NEW e
    PROVE  /\ \A x \in Newest(e) : x \in Execs /\ inflight[x] # "absent"
           /\ \A x \in Target(e) : e \in Execs => x \in Execs /\ inflight[x] # "absent"
  BY DEF Newest, Target

LEMMA OutputKeeps ==
    ASSUME JobAssumption, IInv, TypeOK', NEW T,
           \A x \in T : x \in Execs /\ inflight[x] # "absent", OutputFor(T)
    PROVE  DispatchedOnce'
<1>0. TypeOK /\ Phases
  BY DEF IInv, DispatchedOnce
<1>1. PICK x \in T : ClearTimer(x)
  BY DEF OutputFor
<1>2. UnderWay(x) /\ ~ Fresh(x) /\ x \in Execs
  BY <1>0, TargetUnderWay
<1>3. UNCHANGED <<jobStatus, known, aborted, queue, currentBatch, pauses>> /\ awaiting' = awaiting
  BY DEF OutputFor, dbVars, stateVars
<1>4. OnlyChanges({x}) /\ execStatus'[x] = execStatus[x] /\ received'[x] = received[x]
  BY <1>0, <1>1, <1>2 DEF OnlyChanges, OutputFor, ClearTimer, TypeOK, dbVars, stateVars, agentVars
<1>5. Swaps(At("check", x), {}) /\ At("check", x).op \in ExecOps \ SendOps /\ At("check", x).exec = x
  BY <1>3 DEF Swaps, At, ExecOps, SendOps
<1>. QED
  BY <1>2, <1>3, <1>4, <1>5, StatusUnderWay, UnderWayStep

LEMMA CompletionKeeps ==
    ASSUME JobAssumption, IInv, TypeOK', NEW T, NEW ok \in BOOLEAN,
           \A x \in T : x \in Execs /\ inflight[x] # "absent", CompletionFor(T, ok),
           NEW E \in SUBSET Execs, \A x \in E : UnderWay(x) /\ ~ Fresh(x),
           \A x \in Execs \ E : atAgent'[x] = atAgent[x], UNCHANGED received
    PROVE  DispatchedOnce'
<1>0. TypeOK /\ Phases
  BY DEF IInv, DispatchedOnce
<1>1. PICK x \in T : ClearTimer(x) /\ awaiting' = With(awaiting, {At(FinalOp(ok), x)})
  BY DEF CompletionFor
<1>2. UnderWay(x) /\ ~ Fresh(x) /\ x \in Execs
  BY <1>0, TargetUnderWay
<1>3. UNCHANGED <<jobStatus, known, aborted, queue, currentBatch, pauses>>
  BY DEF CompletionFor, dbVars, stateVars
<1>4. OnlyChanges(E \cup {x}) /\ UNCHANGED execStatus
  BY <1>0, <1>1, <1>2 DEF OnlyChanges, CompletionFor, ClearTimer, TypeOK, dbVars, stateVars
<1>5. PICK a : /\ Swaps(a, {a}) /\ a.op \in {"succeed", "fail"} /\ a.exec = x
  <2>. DEFINE c == At(FinalOp(ok), x)
  <2>1. Swaps(c, {c})
    BY <1>1 DEF Swaps
  <2>2. c.op \in {"succeed", "fail"} /\ c.exec = x
    BY DEF At, FinalOp
  <2>. HIDE DEF c
  <2>. QED
    BY <2>1, <2>2
<1>6. a.op \in ExecOps \ SendOps /\ a.op \notin {"run", "offline"}
  BY <1>5 DEF ExecOps, WriteOps, SendOps
<1>7. \A y \in E \cup {x} : y \in Execs /\ UnderWay(y) /\ ~ Fresh(y)
  BY <1>2
<1>8. \A y \in E \cup {x} : Recordable(y)'
  BY <1>4, <1>7, StatusUnderWay
<1>. QED
  BY <1>3, <1>4, <1>5, <1>6, <1>7, <1>8, UnderWayStep

LEMMA AnswerKeeps ==
    ASSUME JobAssumption, IInv, TypeOK', NEW e \in Execs,
           \/ AgentOutput(e) \/ AnswerLost(e) \/ ForgetCompleted(e)
           \/ \E ok \in BOOLEAN : AgentAnswer(e, ok) \/ LookedUp(e, ok)
    PROVE  DispatchedOnce'
<1>0. TypeOK /\ Phases
  BY DEF IInv, DispatchedOnce
<1>1. CASE AgentOutput(e)
  BY <1>1, OutputKeeps, TargetInflight DEF AgentOutput
<1>2. atAgent[e] > 0 => UnderWay(e) /\ ~ Fresh(e)
  BY <1>0, TouchedUnderWay DEF Untouched, TypeOK
<1>3. CASE AnswerLost(e)
  <2>1. UNCHANGED <<jobStatus, known, aborted, queue, currentBatch, pauses>> /\ awaiting' = awaiting
    BY <1>3 DEF AnswerLost, dbVars, stateVars
  <2>2. OnlyChanges({e}) /\ execStatus'[e] = execStatus[e] /\ received'[e] = received[e]
    BY <1>0, <1>3 DEF OnlyChanges, AnswerLost, TypeOK, dbVars, stateVars, flightVars
  <2>3. Swaps(At("check", e), {}) /\ At("check", e).op \in ExecOps \ SendOps /\ At("check", e).exec = e
    BY <2>1 DEF Swaps, At, ExecOps, SendOps
  <2>. QED
    BY <1>2, <1>3, <2>1, <2>2, <2>3, StatusUnderWay, UnderWayStep DEF AnswerLost
<1>4. CASE ForgetCompleted(e)
  <2>1. UNCHANGED <<jobStatus, known, aborted, queue, currentBatch, pauses>> /\ awaiting' = awaiting
    BY <1>4 DEF ForgetCompleted, dbVars, stateVars
  <2>2. OnlyChanges({})
    BY <1>4 DEF OnlyChanges, ForgetCompleted, dbVars, stateVars, agentVars
  <2>3. \A x \in Execs : Moves(x)
    BY <1>0, <2>1, <2>2, SameSelf, SameFollows DEF SameExec, OnlyChanges, Moves
  <2>4. Swaps(At("check", e), {}) /\ At("check", e).op \in ExecOps
    BY <2>1 DEF Swaps, At, ExecOps
  <2>. QED
    BY <2>1, <2>3, <2>4, ExecOnly, Keeps
<1>5. ASSUME NEW ok \in BOOLEAN, AgentAnswer(e, ok) PROVE DispatchedOnce'
  <2>1. UnderWay(e) /\ ~ Fresh(e) /\ UNCHANGED received
    BY <1>2, <1>5 DEF AgentAnswer
  <2>2. \A x \in Execs \ {e} : atAgent'[x] = atAgent[x]
    BY <1>0, <1>5 DEF AgentAnswer, TypeOK
  <2>3. CASE Target(e) # {}
    <3>1. CompletionFor(Target(e), ok)
      BY <1>5, <2>3 DEF AgentAnswer
    <3>2. \A x \in Target(e) : x \in Execs /\ inflight[x] # "absent"
      BY TargetInflight
    <3>3. {e} \in SUBSET Execs /\ \A x \in {e} : UnderWay(x) /\ ~ Fresh(x)
      BY <2>1
    <3>. QED
      BY <2>1, <2>2, <3>1, <3>2, <3>3, CompletionKeeps
  <2>4. CASE Target(e) = {}
    <3>1. UNCHANGED <<jobStatus, known, aborted, queue, currentBatch, pauses>>
      BY <1>5, <2>4 DEF AgentAnswer, dbVars, stateVars
    <3>2. OnlyChanges({e}) /\ execStatus'[e] = execStatus[e]
      BY <1>5, <2>1, <2>2, <2>4 DEF OnlyChanges, AgentAnswer, dbVars, stateVars, flightVars
    <3>3. PICK a : Swaps(a, {a}) /\ a.op \in LookupOps /\ a.exec = e
      <4>. DEFINE c == Now(IF ok THEN "lookupSucceed" ELSE "lookupFail", e)
      <4>1. Swaps(c, {c})
        BY <1>5, <2>4 DEF AgentAnswer, Swaps
      <4>2. c.op \in LookupOps /\ c.exec = e
        BY DEF Now, LookupOps
      <4>. HIDE DEF c
      <4>. QED
        BY <4>1, <4>2
    <3>4. a.op \in ExecOps \ SendOps /\ a.op \notin {"run", "offline"}
      BY <3>3 DEF ExecOps, WriteOps, SendOps, LookupOps
    <3>. QED
      BY <2>1, <3>1, <3>2, <3>3, <3>4, StatusUnderWay, UnderWayStep
  <2>. QED
    BY <2>3, <2>4
<1>6. ASSUME NEW ok \in BOOLEAN, LookedUp(e, ok) PROVE DispatchedOnce'
  <2>1. UNCHANGED <<jobStatus, known, aborted, queue, currentBatch, pauses>>
    BY <1>6 DEF LookedUp, dbVars, stateVars
  <2>2. OnlyChanges({e}) /\ execStatus'[e] = execStatus[e] /\ received'[e] = received[e]
    BY <1>6 DEF OnlyChanges, LookedUp, dbVars, stateVars, agentVars
  <2>3. PICK o \in LookupOps : /\ BagIn(Now(o, e), awaiting)
                               /\ awaiting' = With(Without(Now(o, e)), {At(FinalOp(ok), e)})
    BY <1>6 DEF LookedUp, Ready, LookupOps
  <2>4. UnderWay(e) /\ ~ Fresh(e)
    <3>1. Now(o, e) \in OfExec(e)
      BY <1>0, <2>3, ExecAwaitRecs, OfExecRecs DEF BagIn
    <3>2. Now(o, e) \notin {At("run", e), At("offline", e), Now("run", e)}
      BY DEF Now, At, LookupOps
    <3>. QED
      BY <1>0, <3>1, <3>2, PhaseOfAwait
  <2>5. /\ Swaps(Now(o, e), {At(FinalOp(ok), e)})
        /\ Now(o, e).op \in ExecOps \ SendOps /\ Now(o, e).exec = e
    BY <2>3 DEF Swaps, Now, ExecOps, LookupOps, SendOps
  <2>6. \A s \in {At(FinalOp(ok), e)} : /\ s.op \in ExecOps \ SendOps /\ s.exec = e
                                        /\ s.op \notin {"run", "offline"}
    BY DEF At, FinalOp, ExecOps, WriteOps, SendOps
  <2>. QED
    BY <2>1, <2>2, <2>4, <2>5, <2>6, StatusUnderWay, UnderWayStep
<1>. QED
  BY <1>1, <1>3, <1>4, <1>5, <1>6

-----------------------------------------------------------------------------
(* Connections.                                                             *)

LEMMA InteractiveKeeps ==
    ASSUME JobAssumption, IInv, TypeOK', NEW m,
           \/ InteractiveOutput(m)
           \/ \E ok \in BOOLEAN : InteractiveAnswer(m, ok)
    PROVE  DispatchedOnce'
<1>1. CASE InteractiveOutput(m)
  BY <1>1, OutputKeeps, TargetInflight DEF InteractiveOutput
<1>2. ASSUME NEW ok \in BOOLEAN, InteractiveAnswer(m, ok) PROVE DispatchedOnce'
  <2>1. /\ CompletionFor(Newest(m), ok) /\ UNCHANGED received
        /\ \A x \in Execs \ {} : atAgent'[x] = atAgent[x]
    BY <1>2 DEF InteractiveAnswer, agentVars
  <2>2. {} \in SUBSET Execs /\ \A x \in {} : UnderWay(x) /\ ~ Fresh(x)
    OBVIOUS
  <2>. QED
    BY <2>1, <2>2, TargetInflight, CompletionKeeps
<1>. QED
  BY <1>1, <1>2

LEMMA ConnectKeeps ==
    ASSUME JobAssumption, IInv, TypeOK', NEW m \in Machines, AgentConnect(m)
    PROVE  DispatchedOnce'
<1>0. TypeOK /\ Phases
  BY DEF IInv, DispatchedOnce
<1>1. UNCHANGED <<jobStatus, known, aborted, queue, currentBatch, pauses>> /\ awaiting' = awaiting
  BY DEF AgentConnect, dbVars, stateVars
<1>2. OnlyChanges({})
  BY DEF OnlyChanges, AgentConnect, dbVars, stateVars, flightVars
<1>3. \A x \in Execs : Moves(x)
  BY <1>0, <1>1, <1>2, SameSelf, SameFollows DEF SameExec, OnlyChanges, Moves
<1>4. Swaps(At("check", m), {}) /\ At("check", m).op \in ExecOps
  BY <1>1 DEF Swaps, At, ExecOps
<1>. QED
  BY <1>1, <1>3, <1>4, ExecOnly, Keeps

LEMMA RemovedCopies ==
    ASSUME NEW B, IsABag(B), NEW f, \A x \in DOMAIN f : x \in BagToSet(B) /\ f[x] = B[x]
    PROVE  /\ IsABag(B (-) f)
           /\ BagToSet(B (-) f) = BagToSet(B) \ DOMAIN f
           /\ \A x \in BagToSet(B) \ DOMAIN f : (B (-) f)[x] = B[x]
<1>. DEFINE D == [x \in DOMAIN B |-> IF x \in DOMAIN f THEN B[x] - f[x] ELSE B[x]]
<1>1. \A x \in DOMAIN B : B[x] \in Nat /\ B[x] > 0
  BY DEF IsABag
<1>2. \A x \in DOMAIN B : D[x] > 0 <=> x \notin DOMAIN f
  BY <1>1 DEF BagToSet
<1>3. \A x \in DOMAIN B : x \notin DOMAIN f => D[x] = B[x]
  OBVIOUS
<1>4. B (-) f = [x \in {d \in DOMAIN D : D[d] > 0} |-> D[x]]
  BY DEF (-)
<1>5. DOMAIN D = DOMAIN B
  OBVIOUS
<1>. HIDE DEF D
<1>6. DOMAIN (B (-) f) = DOMAIN B \ DOMAIN f
  BY <1>2, <1>4, <1>5
<1>7. \A x \in DOMAIN B \ DOMAIN f : (B (-) f)[x] = B[x]
  BY <1>2, <1>3, <1>4, <1>5
<1>8. IsABag(B (-) f)
  <2>1. B (-) f = [x \in DOMAIN B \ DOMAIN f |-> B[x]]
    BY <1>2, <1>3, <1>4, <1>5
  <2>. QED
    BY <1>1, <2>1 DEF IsABag
<1>. QED
  BY <1>6, <1>7, <1>8 DEF BagToSet

LEMMA AddedCopies ==
    ASSUME NEW B, IsABag(B), NEW g
    PROVE  /\ BagToSet(B (+) g) = BagToSet(B) \cup DOMAIN g
           /\ \A x \in BagToSet(B) \ DOMAIN g : (B (+) g)[x] = B[x]
           /\ \A x \in DOMAIN g \ BagToSet(B) : g[x] \in Nat => (B (+) g)[x] = g[x]
  BY DEF BagToSet, IsABag, (+)

(* sends go, dead (a closed send for each) comes, nothing else changes.     *)
SendsClose(sends, dead) ==
    /\ sends \subseteq BagToSet(awaiting)
    /\ \A a \in sends : a.exec \in Execs /\ a = Now("send", a.exec)
    /\ dead = {Now("sendClosed", a.exec) : a \in sends}
    /\ BagToSet(awaiting') = (BagToSet(awaiting) \ sends) \cup dead
    /\ \A b \in BagToSet(awaiting) \ (sends \cup dead) : awaiting'[b] = awaiting[b]
    /\ \A b \in dead \ BagToSet(awaiting) : awaiting'[b] = awaiting[Now("send", b.exec)]

(* The close of a connection: pending sends to it go into a closed socket.  *)
LEMMA ClosedSends ==
    ASSUME TypeOK, NEW m, AgentDisconnect(m)
    PROVE  \E sends, dead :
              /\ SendsClose(sends, dead) /\ \A a \in sends : MachineOf[a.exec] = m
              /\ link'[m] = "down" =>
                   \A a \in BagToSet(awaiting) :
                      a.op = "send" /\ a.exec \in Execs /\ MachineOf[a.exec] = m => a \in sends
<1>. DEFINE mine == {e \in Execs : MachineOf[e] = m}
            sends == {a \in BagToSet(awaiting) : a.op = "send" /\ a.exec \in mine}
            dead == {[a EXCEPT !.op = "sendClosed"] : a \in sends}
            f == [a \in sends |-> awaiting[Now("send", a.exec)]]
            g == [a \in dead |-> awaiting[Now("send", a.exec)]]
<1>1. CASE UNCHANGED awaiting /\ link'[m] # "down"
  <2>1. SendsClose({}, {})
    BY <1>1 DEF SendsClose
  <2>. QED
    BY <1>1, <2>1
<1>2. CASE awaiting' = (awaiting (-) f) (+) g
  <2>0. IsABag(awaiting) /\ \A a \in sends : a \in Await
    BY DEF TypeOK
  <2>1. \A a \in Await : a.op = "send" => a \in [op: SendOps \cup LookupOps, exec: Execs, db: {"done"}]
    BY DEF Await, ExecAwait, JobAwait, WriteOps
  <2>2. \A a \in sends : a.exec \in Execs /\ a = Now("send", a.exec)
    BY <2>0, <2>1 DEF Now
  <2>3. \A a \in sends : [a EXCEPT !.op = "sendClosed"] = Now("sendClosed", a.exec)
    <3>. TAKE a \in sends
    <3>1. a = [op |-> "send", exec |-> a.exec, db |-> "done"]
      BY <2>2 DEF Now
    <3>. DEFINE x == a.exec
    <3>2. a = [op |-> "send", exec |-> x, db |-> "done"]
      BY <3>1
    <3>. HIDE DEF x
    <3>3. [a EXCEPT !.op = "sendClosed"] = [op |-> "sendClosed", exec |-> x, db |-> "done"]
      BY <3>2
    <3>. QED
      BY <3>3 DEF x, Now
  <2>4. dead = {Now("sendClosed", a.exec) : a \in sends}
    BY <2>3
  <2>5. \A a \in sends : awaiting[a] = awaiting[Now("send", a.exec)]
    BY <2>2
  <2>6. DOMAIN f = sends /\ DOMAIN g = dead /\ \A x \in DOMAIN f : x \in BagToSet(awaiting) /\ f[x] = awaiting[x]
    BY <2>5
  <2>7. \A b \in dead : g[b] = awaiting[Now("send", b.exec)] /\ g[b] \in Nat
    <3>1. \A b \in dead : Now("send", b.exec) \in BagToSet(awaiting)
      BY <2>2, <2>4 DEF Now
    <3>. QED
      BY <2>0, <3>1 DEF IsABag, BagToSet
  <2>. DEFINE C == awaiting (-) f
  <2>8. /\ IsABag(C) /\ BagToSet(C) = BagToSet(awaiting) \ sends
        /\ \A x \in BagToSet(awaiting) \ sends : C[x] = awaiting[x]
    BY <2>0, <2>6, RemovedCopies
  <2>. HIDE DEF C
  <2>9. awaiting' = C (+) g
    BY <1>2 DEF C
  <2>10. /\ BagToSet(awaiting') = BagToSet(C) \cup dead
         /\ \A x \in BagToSet(C) \ dead : awaiting'[x] = C[x]
         /\ \A x \in dead \ BagToSet(C) : awaiting'[x] = g[x]
    <3>. DEFINE D == C (+) g
    <3>1. BagToSet(D) = BagToSet(C) \cup DOMAIN g
      BY <2>8, AddedCopies
    <3>2. \A x \in BagToSet(C) \ DOMAIN g : D[x] = C[x]
      BY <2>8, AddedCopies
    <3>3. \A x \in DOMAIN g \ BagToSet(C) : g[x] \in Nat => D[x] = g[x]
      BY <2>8, AddedCopies
    <3>4. DOMAIN g = dead
      BY <2>6
    <3>5. awaiting' = D
      BY <2>9
    <3>. HIDE DEF D
    <3>. QED
      BY <2>7, <3>1, <3>2, <3>3, <3>4, <3>5
  <2>11. sends \subseteq BagToSet(awaiting)
    OBVIOUS
  <2>. QED
    <3>1. SendsClose(sends, dead)
      <4>. HIDE DEF sends, dead
      <4>. QED
        BY <2>2, <2>4, <2>7, <2>8, <2>10, <2>11 DEF SendsClose
    <3>2. /\ \A a \in sends : MachineOf[a.exec] = m
          /\ \A a \in BagToSet(awaiting) :
                a.op = "send" /\ a.exec \in Execs /\ MachineOf[a.exec] = m => a \in sends
      OBVIOUS
    <3>. QED
      BY <3>1, <3>2
<1>3. awaiting' = (awaiting (-) f) (+) g \/ (UNCHANGED awaiting /\ link' = [link EXCEPT ![m] = "unregistered"])
  BY DEF AgentDisconnect
<1>4. link' = [link EXCEPT ![m] = "unregistered"] => link'[m] # "down"
  <2>1. link[m] # "down"
    BY DEF AgentDisconnect
  <2>2. link \in [Machines -> {"up", "unregistered", "down"}]
    BY DEF TypeOK
  <2>. QED
    BY <2>1, <2>2
<1>. QED
  BY <1>1, <1>2, <1>3, <1>4

LEMMA SendsCloseUnderWay ==
    ASSUME TypeOK, TypeOK', NEW sends, NEW dead, SendsClose(sends, dead),
           NEW x \in Execs, UnderWay(x), execStatus'[x] = execStatus[x], received'[x] = received[x]
    PROVE  UnderWay(x)'
<1>. SUFFICES ASSUME ~ Repeats(JobOf[x]) PROVE SentOnce(x)'
  BY StatusUnderWay DEF UnderWay
<1>. SentOnce(x)
  BY DEF UnderWay, Repeated
<1>. DEFINE SX == {b \in OfExec(x) : b.op \in SendOps}
            SY == {b \in OfExec(x)' : b.op \in SendOps}
            s0 == Now("send", x)
            d0 == Now("sendClosed", x)
<1>0. \A o \in SendOps : \A e : Now(o, e).op = o /\ Now(o, e).exec = e
  BY DEF Now
<1>1. /\ SX = BagToSet(awaiting) \cap SendRecs(x)
      /\ SY = BagToSet(awaiting') \cap SendRecs(x)
  BY OfExecRecs, OfExecRecsPrime DEF SendRecs
<1>2. s0 \in SendRecs(x) /\ d0 \in SendRecs(x) /\ s0 # d0
  BY ExecAwaitRecs, <1>0 DEF SendRecs, SendOps
<1>3. sends \cap SendRecs(x) = sends \cap {s0}
  BY <1>0, <1>2 DEF SendsClose, SendRecs, ExecRecs, SendOps
<1>4. dead \cap SendRecs(x) = IF s0 \in sends THEN {d0} ELSE {}
  <2>1. ASSUME NEW d \in dead \cap SendRecs(x) PROVE d = d0 /\ s0 \in sends
    <3>1. PICK a \in sends : d = Now("sendClosed", a.exec) /\ a = Now("send", a.exec)
      BY DEF SendsClose
    <3>2. a.exec = x
      BY <1>0, <3>1 DEF SendRecs, ExecRecs, SendOps
    <3>. QED
      BY <3>1, <3>2
  <2>2. ASSUME s0 \in sends PROVE d0 \in dead
    BY <1>0, <2>2 DEF SendsClose, SendOps
  <2>. QED
    BY <1>2, <2>1, <2>2
<1>5. EarlyRecs(x) \cap OfExec(x)' = {}
  <2>1. EarlyRecs(x) \subseteq ExecRecs(x)
    BY ExecAwaitRecs DEF EarlyRecs, WriteOps
  <2>2. BagToSet(awaiting) \cap EarlyRecs(x) = {}
    BY <2>1, OfExecRecs DEF SentOnce, EarlyRecs
  <2>3. dead \cap EarlyRecs(x) = {}
    BY DEF SendsClose, EarlyRecs, At, Now
  <2>. QED
    BY <2>2, <2>3, OfExecRecsPrime DEF SendsClose
<1>6. SX = {} \/ (received[x] = 0 /\ \E s \in SX : Sole(SX, s))
  BY DEF SentOnce
<1>7. SY = (SX \ sends) \cup (dead \cap SendRecs(x))
  BY <1>1 DEF SendsClose
<1>. HIDE DEF SX, SY, s0, d0
<1>8. SY = {} \/ (received[x] = 0 /\ \E s \in SY : SY = {s} /\ awaiting'[s] = 1)
  <2>1. CASE s0 \in sends
    <3>1. s0 \in SX
      BY <1>1, <1>2, <2>1 DEF SendsClose
    <3>2. SX = {s0} /\ awaiting[s0] = 1 /\ received[x] = 0
      BY <1>6, <3>1 DEF Sole
    <3>3. SY = {d0}
      BY <1>4, <1>7, <2>1, <3>2
    <3>4. d0 \in dead \ BagToSet(awaiting)
      BY <1>1, <1>2, <1>4, <2>1, <3>2
    <3>5. awaiting'[d0] = awaiting[Now("send", d0.exec)]
      BY <3>4 DEF SendsClose
    <3>6. Now("send", d0.exec) = s0
      BY <1>0 DEF s0, d0, SendOps
    <3>. QED
      BY <3>2, <3>3, <3>5, <3>6
  <2>2. CASE s0 \notin sends
    <3>1. SY = SX /\ SX \cap (sends \cup dead) = {}
      BY <1>1, <1>3, <1>4, <1>7, <2>2
    <3>2. \A s \in SX : awaiting'[s] = awaiting[s]
      BY <1>1, <3>1 DEF SendsClose
    <3>. QED
      BY <1>6, <3>1, <3>2 DEF Sole
  <2>. QED
    BY <2>1, <2>2
<1>9. received'[x] <= 1 /\ execStatus'[x] \in {"RUNNING", "SUCCESS", "FAILED"}
  BY DEF SentOnce
<1>. QED
  BY <1>5, <1>8, <1>9 DEF SentOnce, Sole, SY, EarlyRecs

LEMMA DisconnectKeeps ==
    ASSUME JobAssumption, IInv, TypeOK', NEW m \in Machines, AgentDisconnect(m)
    PROVE  DispatchedOnce'
<1>0. TypeOK /\ Phases /\ IsABag(awaiting)
  BY DEF IInv, DispatchedOnce, TypeOK
<1>2. UNCHANGED <<dbVars, stateVars, loose, completed, atAgent, received>>
  BY DEF AgentDisconnect
<1>3. \A x \in Execs : inflight[x] = "absent" => inflight'[x] = inflight[x]
  BY DEF AgentDisconnect
<1>4. PICK S, D : SendsClose(S, D)
  BY <1>0, ClosedSends
<1>5. \A d \in S \cup D : d.op \in SendOps
  BY <1>4 DEF SendsClose, Now, SendOps
<1>6. ASSUME NEW X, X \cap (S \cup D) = {}
      PROVE  SameAwaits(X, awaiting, awaiting')
  BY <1>4, <1>6 DEF SameAwaits, SendsClose
<1>7. \A x \in Execs : Moves(x)
  <2>. TAKE x \in Execs
  <2>1. CASE Fresh(x) \/ Claimed(x) \/ MarkedRunning(x)
    <3>1. inflight'[x] = inflight[x]
      BY <1>3, <2>1 DEF Fresh, Claimed, MarkedRunning, Untouched
    <3>2. ExecRecs(x) \cap S = {} /\ ExecRecs(x) \cap D = {}
      <4>1. \A b \in OfExec(x) : b.op \notin SendOps
        BY <2>1 DEF Fresh, Claimed, MarkedRunning, Sole, At, Now, SendOps
      <4>2. ExecRecs(x) \cap S = {}
        BY <1>0, <1>4, <1>5, <4>1, OfExecRecs DEF SendsClose
      <4>3. ASSUME NEW d \in D, d \in ExecRecs(x) PROVE FALSE
        <5>1. PICK a \in S : d = Now("sendClosed", a.exec) /\ a = Now("send", a.exec)
          BY <1>4 DEF SendsClose
        <5>2. a.exec = x
          BY <4>3, <5>1 DEF ExecRecs, Now
        <5>3. a \in ExecRecs(x)
          BY <5>1, <5>2, ExecAwaitRecs DEF SendOps
        <5>. QED
          BY <4>2, <5>3
      <4>. QED
        BY <4>2, <4>3
    <3>3. SameExec(x)
      BY <1>2, <1>6, <3>1, <3>2 DEF SameExec, dbVars, stateVars
    <3>. QED
      BY <1>0, <3>3, SameFollows DEF Moves
  <2>2. CASE ~ Fresh(x) /\ UnderWay(x)
    <3>1. UnderWay(x)'
      BY <1>0, <1>2, <1>4, <2>2, SendsCloseUnderWay DEF dbVars
    <3>. QED
      BY <2>2, <3>1 DEF Moves, MovesOn, Begun
  <2>. QED
    BY <1>0, <2>1, <2>2 DEF Phases
<1>8. \A j \in Jobs : StartsKept(j)
  <2>. TAKE j \in Jobs
  <2>1. StartRecs(j) \cap (S \cup D) = {}
    BY <1>5 DEF StartRecs, SendOps
  <2>2. OfStart(j)' = OfStart(j) /\ \A b \in OfStart(j) : awaiting'[b] = awaiting[b]
    BY <1>0, <1>6, <2>1, OfStartRecs
  <2>. QED
    BY <1>2, <2>2 DEF StartsKept, IInv, DispatchedOnce, StartsOnce, Unstarted, Sole, dbVars
<1>9. AwaitsKept
  BY <1>4, <1>5 DEF AwaitsKept, SendsClose, SendOps
<1>10. JobsKept
  BY <1>2, <1>8 DEF JobsKept, IInv, DispatchedOnce, StartsOnce, PausesKept, TypeOK, dbVars, stateVars
<1>. QED
  BY <1>7, <1>9, <1>10, Keeps

-----------------------------------------------------------------------------
(* Steps of jobs that dispatch nothing.                                     *)

LEMMA JobExecs ==
    ASSUME IInv, TypeOK', UNCHANGED <<execStatus, inflight, loose, received, atAgent>>,
           running' \subseteq running, NEW a, NEW S, Swaps(a, S),
           a.op \notin ExecOps, \A s \in S : s.op \notin ExecOps
    PROVE  \A x \in Execs : StaysFresh(x) \/ MovesOn(x)
<1>0. TypeOK /\ Phases /\ IsABag(awaiting)
  BY DEF IInv, DispatchedOnce, TypeOK
<1>. TAKE x \in Execs
<1>1. a \notin ExecRecs(x) /\ S \cap ExecRecs(x) = {}
  BY DEF ExecRecs
<1>2. SameExec(x)
  BY <1>0, <1>1, SwapSame DEF SameExec
<1>. QED
  BY <1>0, <1>2, SameFollows

LEMMA StartsSame ==
    ASSUME IInv, TypeOK', NEW j \in Jobs, jobStatus'[j] = jobStatus[j] \/ jobStatus'[j] # "none",
           NEW a, NEW S, Swaps(a, S), a \notin StartRecs(j), S \cap StartRecs(j) = {}
    PROVE  StartsKept(j)
<1>0. TypeOK /\ StartsOnce /\ IsABag(awaiting)
  BY DEF IInv, DispatchedOnce, TypeOK
<1>1. OfStart(j)' = OfStart(j) /\ \A b \in OfStart(j) : awaiting'[b] = awaiting[b]
  BY <1>0, SwapSame, OfStartRecs
<1>. QED
  BY <1>0, <1>1 DEF StartsKept, StartsOnce, Unstarted, Sole

LEMMA AwaitsSwap ==
    ASSUME IsABag(awaiting), NEW a, NEW S, Swaps(a, S),
           \A s \in S : s.op \notin {"evaluate", "skip"}
    PROVE  AwaitsKept
  BY SwapSet DEF AwaitsKept

NotExec == {"create", "start", "evaluate", "skip", "abort", "tally", "finish"}

LEMMA NotExecOps == NotExec \cap ExecOps = {}
  BY DEF NotExec, ExecOps, WriteOps, SendOps, LookupOps

LEMMA CreateKeeps ==
    ASSUME JobAssumption, IInv, TypeOK', NEW j \in Jobs, CreateJob(j)
    PROVE  DispatchedOnce'
<1>. DEFINE a == [op |-> "create", job |-> j, db |-> "done"]
<1>0. TypeOK /\ StartsOnce /\ IsABag(awaiting) /\ jobStatus[j] = "none"
  BY DEF IInv, DispatchedOnce, TypeOK, CreateJob
<1>1. a.op = "create" /\ a.job = j /\ a \in StartRecs(j)
  BY JobAwaits DEF StartRecs
<1>2. awaiting' = With(awaiting, {a}) /\ UNCHANGED <<execStatus, stateVars, flightVars, agentVars>>
  BY DEF CreateJob
<1>3. jobStatus'[j] = "PENDING" /\ \A i \in Jobs \ {j} : jobStatus'[i] = jobStatus[i]
  BY <1>0 DEF CreateJob, TypeOK
<1>4. OfStart(j) = {}
  BY <1>0 DEF StartsOnce
<1>. HIDE DEF a
<1>5. Swaps(a, {a})
  BY <1>2 DEF Swaps
<1>6. \A x \in Execs : Moves(x)
  BY <1>1, <1>2, <1>5, JobExecs, NotExecOps DEF NotExec, Moves, stateVars, flightVars, agentVars
<1>7. \A i \in Jobs \ {j} : StartsKept(i)
  <2>. TAKE i \in Jobs \ {j}
  <2>1. a \notin StartRecs(i)
    BY <1>1 DEF StartRecs
  <2>. QED
    BY <1>3, <1>5, <2>1, StartsSame
<1>8. StartsKept(j)
  <2>1. BagToSet(awaiting) \cap StartRecs(j) = {}
    BY <1>0, <1>4 DEF OfStart, StartRecs
  <2>2. a \in {a} \ BagToSet(awaiting)
    BY <1>1, <2>1
  <2>3. BagToSet(awaiting') = BagToSet(awaiting) \cup {a} /\ awaiting'[a] = 1
    BY <1>0, <1>2, <2>2, WithCopies
  <2>4. OfStart(j)' = {a}
    BY <1>1, <1>4, <2>3 DEF OfStart
  <2>. QED
    BY <1>0, <1>3, <2>3, <2>4 DEF StartsKept, Unstarted, Sole
<1>9. AwaitsKept
  BY <1>0, <1>1, <1>5, AwaitsSwap
<1>10. JobsKept
  BY <1>0, <1>2, <1>3, <1>7, <1>8 DEF JobsKept, StartsOnce, PausesKept, TypeOK, stateVars
<1>. QED
  BY <1>6, <1>9, <1>10, Keeps

LEMMA StartKeeps ==
    ASSUME JobAssumption, IInv, TypeOK', NEW j \in Jobs, StartJob(j)
    PROVE  DispatchedOnce'
<1>. DEFINE a == [op |-> "create", job |-> j, db |-> "done"]
            s == JobAt("start", j)
<1>0. TypeOK /\ StartsOnce /\ IsABag(awaiting)
  BY DEF IInv, DispatchedOnce, TypeOK
<1>1. /\ a.op = "create" /\ a.job = j /\ a \in StartRecs(j)
      /\ s.op = "start" /\ s.job = j /\ s \in StartRecs(j)
  BY JobAwaits DEF StartRecs, JobAt
<1>2. /\ awaiting' = With(Without(a), {s}) /\ a \in BagToSet(awaiting)
      /\ known' = known \cup {j} /\ queue' = queue \cup ExecsOf(j)
      /\ UNCHANGED <<dbVars, aborted, running, currentBatch, pauses, flightVars, agentVars, left>>
  BY DEF StartJob, Ready, BagIn
<1>. HIDE DEF a, s
<1>3. Swaps(a, {s})
  BY <1>2 DEF Swaps
<1>4. \A x \in Execs : Moves(x)
  BY <1>1, <1>2, <1>3, JobExecs, NotExecOps DEF NotExec, Moves, dbVars, flightVars, agentVars
<1>5. \A i \in Jobs \ {j} : StartsKept(i)
  <2>. TAKE i \in Jobs \ {j}
  <2>1. a \notin StartRecs(i) /\ {s} \cap StartRecs(i) = {}
    BY <1>1 DEF StartRecs
  <2>. QED
    BY <1>2, <1>3, <2>1, StartsSame DEF dbVars
<1>6. OfStart(j) = BagToSet(awaiting) \cap StartRecs(j) /\ OfStart(j)' = BagToSet(awaiting') \cap StartRecs(j)
  BY <1>0 DEF TypeOK, OfStart, StartRecs
<1>7. jobStatus[j] # "none" /\ Sole(OfStart(j), a) /\ Unstarted(j)
  BY <1>0, <1>1, <1>2, <1>6 DEF StartsOnce, Sole, Unstarted
<1>8. OfStart(j)' = {s} /\ awaiting'[s] = 1
  <2>1. {s} \cap StartRecs(j) = {s}
    BY <1>1
  <2>2. Single(With(Without(a), {s}), StartRecs(j), s)
    BY <1>0, <1>6, <1>7, <2>1, SoleBecomes
  <2>. QED
    BY <1>2, <1>6, <2>2 DEF Single
<1>9. StartsKept(j) /\ Unstarted(j)' /\ jobStatus'[j] # "none"
  BY <1>2, <1>7, <1>8 DEF StartsKept, Unstarted, Sole, dbVars
<1>10. AwaitsKept
  BY <1>0, <1>1, <1>3, AwaitsSwap
<1>11. JobsKept
  <2>1. \A e \in queue' \ queue : JobOf[e] = j
    BY <1>2 DEF ExecsOf
  <2>. QED
    BY <1>0, <1>2, <1>5, <1>9, <2>1 DEF JobsKept, StartsOnce, PausesKept, TypeOK, dbVars
<1>. QED
  BY <1>4, <1>10, <1>11, Keeps

LEMMA CompleteKeeps ==
    ASSUME JobAssumption, IInv, TypeOK', NEW j \in Jobs,
           JobTallied(j) \/ JobFinished(j) \/ RemainingSkipped(j)
    PROVE  DispatchedOnce'
<1>0. TypeOK /\ StartsOnce /\ IsABag(awaiting)
  BY DEF IInv, DispatchedOnce, TypeOK
<1>1. PICK a, S : /\ Swaps(a, S) /\ a.op \in {"tally", "finish", "skip"}
                  /\ \A s \in S : s.op \in {"finish", "abort"}
  <2>1. ASSUME NEW v, NEW x, JobTallied(j),
               awaiting' = With(Without([op |-> "tally", job |-> j, db |-> v]),
                  {[op |-> "finish", job |-> j, db |-> "issued", status |-> x]})
        PROVE  \E a, S : /\ Swaps(a, S) /\ a.op \in {"tally", "finish", "skip"}
                         /\ \A s \in S : s.op \in {"finish", "abort"}
    <3>. DEFINE a == [op |-> "tally", job |-> j, db |-> v]
                s == [op |-> "finish", job |-> j, db |-> "issued", status |-> x]
    <3>1. Swaps(a, {s}) /\ a.op = "tally" /\ s.op = "finish"
      BY <2>1 DEF Swaps
    <3>. HIDE DEF a, s
    <3>. QED
      BY <3>1
  <2>2. ASSUME NEW x, awaiting' = Without([op |-> "finish", job |-> j, status |-> x, db |-> "done"])
        PROVE  \E a, S : /\ Swaps(a, S) /\ a.op \in {"tally", "finish", "skip"}
                         /\ \A s \in S : s.op \in {"finish", "abort"}
    <3>. DEFINE a == [op |-> "finish", job |-> j, status |-> x, db |-> "done"]
    <3>1. Swaps(a, {}) /\ a.op = "finish"
      BY <2>2 DEF Swaps
    <3>. HIDE DEF a
    <3>. QED
      BY <3>1
  <2>3. ASSUME NEW ids,
               awaiting' = With(Without([op |-> "skip", job |-> j, ids |-> ids, db |-> "done"]),
                                {JobAt("abort", j)})
        PROVE  \E a, S : /\ Swaps(a, S) /\ a.op \in {"tally", "finish", "skip"}
                         /\ \A s \in S : s.op \in {"finish", "abort"}
    <3>. DEFINE a == [op |-> "skip", job |-> j, ids |-> ids, db |-> "done"]
                s == JobAt("abort", j)
    <3>1. Swaps(a, {s}) /\ a.op = "skip" /\ s.op = "abort"
      BY <2>3 DEF Swaps, JobAt
    <3>. HIDE DEF a, s
    <3>. QED
      BY <3>1
  <2>. QED
    BY <2>1, <2>2, <2>3 DEF JobTallied, JobFinished, RemainingSkipped
<1>2. /\ UNCHANGED <<dbVars, aborted, currentBatch, pauses, flightVars, agentVars>>
      /\ known' \subseteq known /\ queue' \subseteq queue /\ running' \subseteq running
  BY DEF JobTallied, JobFinished, RemainingSkipped, stateVars
<1>3. \A x \in Execs : Moves(x)
  BY <1>1, <1>2, JobExecs, NotExecOps DEF NotExec, Moves, dbVars, flightVars, agentVars
<1>4. \A i \in Jobs : StartsKept(i)
  <2>. TAKE i \in Jobs
  <2>1. a \notin StartRecs(i) /\ S \cap StartRecs(i) = {}
    BY <1>1 DEF StartRecs
  <2>. QED
    BY <1>1, <1>2, <2>1, StartsSame DEF dbVars
<1>5. AwaitsKept
  BY <1>0, <1>1, AwaitsSwap
<1>6. JobsKept
  BY <1>0, <1>2, <1>4 DEF JobsKept, StartsOnce, PausesKept, TypeOK, dbVars
<1>. QED
  BY <1>3, <1>5, <1>6, Keeps

(* Aborting: what is to be skipped is fresh, and stays so.                  *)
LEMMA AbortRemainingKeeps ==
    ASSUME JobAssumption, IInv, TypeOK', NEW j \in Jobs, NEW a, a.op = "evaluate",
           AbortRemaining(j, awaiting) \/ AbortRemaining(j, Without(a)),
           UNCHANGED <<dbVars, known, queue, running, currentBatch, flightVars, agentVars>>
    PROVE  DispatchedOnce'
<1>0. /\ TypeOK /\ StartsOnce /\ QueuedIsFresh /\ IsABag(awaiting)
      /\ a.op \in NotExec /\ \A i : a \notin StartRecs(i)
  BY DEF IInv, DispatchedOnce, TypeOK, NotExec, StartRecs
<1>1. CASE j \notin known
  <2>1. Swaps(a, {}) /\ UNCHANGED <<aborted, pauses>>
    BY <1>1 DEF AbortRemaining, Swaps
  <2>2. \A x \in Execs : Moves(x)
    BY <1>0, <2>1, JobExecs, NotExecOps DEF Moves, dbVars, flightVars, agentVars
  <2>3. \A i \in Jobs : StartsKept(i)
    BY <1>0, <2>1, StartsSame DEF dbVars
  <2>4. AwaitsKept
    BY <1>0, <2>1, AwaitsSwap
  <2>5. JobsKept
    BY <1>0, <2>1, <2>3 DEF JobsKept, StartsOnce, PausesKept, TypeOK, dbVars
  <2>. QED
    BY <2>2, <2>4, <2>5, Keeps
<1>2. CASE j \in known
  <2>. DEFINE s == [op |-> "skip", job |-> j, ids |-> PendingIds(j), db |-> "issued"]
  <2>1. s.op = "skip" /\ s.job = j /\ s.ids = PendingIds(j) /\ \A i : s \notin StartRecs(i)
    BY DEF StartRecs
  <2>2. awaiting' = With(awaiting, {s}) \/ awaiting' = With(Without(a), {s})
    BY <1>2 DEF AbortRemaining
  <2>. HIDE DEF s
  <2>3. Swaps(a, {s})
    BY <2>2 DEF Swaps
  <2>4. aborted' = aborted \cup {j} /\ PausesKept
    BY <1>0, <1>2 DEF AbortRemaining, PausesKept, TypeOK
  <2>5. \A x \in Execs : StaysFresh(x) \/ MovesOn(x)
    BY <1>0, <2>1, <2>3, JobExecs, NotExecOps DEF NotExec, dbVars, flightVars, agentVars
  <2>6. \A i \in Jobs : StartsKept(i)
    <3>. TAKE i \in Jobs
    <3>1. a \notin StartRecs(i) /\ {s} \cap StartRecs(i) = {}
      BY <1>0, <2>1
    <3>. QED
      BY <2>3, <3>1, StartsSame DEF dbVars
  <2>7. \A e \in PendingIds(j) : JobOf[e] = j /\ StaysFresh(e)
    <3>. TAKE e \in PendingIds(j)
    <3>1. e \in Execs /\ JobOf[e] = j
      BY DEF PendingIds, ExecsOf
    <3>2. BatchOf[e] \in Nat /\ currentBatch[j] \in Nat
      BY <1>0, <3>1 DEF JobAssumption, TypeOK
    <3>3. e \in queue \/ (Mode[j] = "rolling" /\ ~ (BatchOf[e] <= currentBatch[j]))
      BY <3>1, <3>2 DEF PendingIds
    <3>4. Fresh(e)
      BY <1>0, <1>2, <3>1, <3>3 DEF QueuedIsFresh
    <3>. QED
      BY <2>5, <3>1, <3>4 DEF MovesOn
  <2>8. AwaitsKept
    <3>1. BagToSet(awaiting') \subseteq BagToSet(awaiting) \cup {s}
      BY <1>0, <2>3, SwapSet
    <3>. QED
      BY <2>1, <2>4, <2>7, <3>1 DEF AwaitsKept
  <2>9. JobsKept
    BY <1>0, <1>2, <2>4, <2>6 DEF JobsKept, StartsOnce, TypeOK, dbVars
  <2>. QED
    BY <2>5, <2>8, <2>9, Keeps DEF Moves
<1>. QED
  BY <1>1, <1>2

LEMMA AbortKeeps ==
    ASSUME JobAssumption, IInv, TypeOK', NEW j \in Jobs, AbortJob(j)
    PROVE  DispatchedOnce'
<1>0. TypeOK /\ StartsOnce /\ IsABag(awaiting)
  BY DEF IInv, DispatchedOnce, TypeOK
<1>1. UNCHANGED <<dbVars, known, queue, running, currentBatch, flightVars, agentVars>>
  BY DEF AbortJob
<1>2. CASE j \in known
  <2>1. AbortRemaining(j, awaiting)
    BY <1>2 DEF AbortJob
  <2>2. PICK a : a.op = "evaluate"
    <3>1. [op |-> "evaluate"].op = "evaluate"
      OBVIOUS
    <3>. QED
      BY <3>1
  <2>. QED
    BY <1>1, <2>1, <2>2, AbortRemainingKeeps
<1>3. CASE j \notin known
  <2>. DEFINE a == JobAt("abort", j)
  <2>1. a.op = "abort" /\ a.op \in NotExec /\ \A i : a \notin StartRecs(i)
    BY DEF JobAt, NotExec, StartRecs
  <2>2. awaiting' = With(awaiting, {a}) /\ UNCHANGED <<aborted, pauses>>
    BY <1>3 DEF AbortJob
  <2>. HIDE DEF a
  <2>3. Swaps(a, {a})
    BY <2>2 DEF Swaps
  <2>4. \A x \in Execs : Moves(x)
    BY <1>1, <2>1, <2>3, JobExecs, NotExecOps DEF Moves, dbVars, flightVars, agentVars
  <2>5. \A i \in Jobs : StartsKept(i)
    <3>. TAKE i \in Jobs
    <3>1. a \notin StartRecs(i) /\ {a} \cap StartRecs(i) = {}
      BY <2>1
    <3>. QED
      BY <1>1, <2>3, <3>1, StartsSame DEF dbVars
  <2>6. AwaitsKept
    BY <1>0, <2>1, <2>3, AwaitsSwap
  <2>7. JobsKept
    BY <1>0, <1>1, <2>2, <2>5 DEF JobsKept, StartsOnce, PausesKept, TypeOK, dbVars
  <2>. QED
    BY <2>4, <2>6, <2>7, Keeps
<1>. QED
  BY <1>2, <1>3
=============================================================================
