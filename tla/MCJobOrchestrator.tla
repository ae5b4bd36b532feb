------------------------- MODULE MCJobOrchestrator -------------------------
(***************************************************************************)
(* Small instances of JobOrchestrator.  A run offers several jobs, of      *)
(* which MaxJobs are created: what TLC explores is every one of them.      *)
(***************************************************************************)
EXTENDS JobOrchestratorInvariant, TLC

CONSTANTS par, roll, pause, m1, m2, m3

(* An execution is identified by its job and its machine.                   *)
MachineOfAll == [e \in Execs |-> e[2]]
JobOfAll == [e \in Execs |-> e[1]]
ModeOfAll == [j \in Jobs |-> IF j = par THEN "parallel" ELSE "rolling"]

(* Rolling jobs have a wave on m1 and m2 before the one on m3; a wave may   *)
(* lose half of its targets.  A parallel job has one slot.                  *)
WaveOfAll == [e \in Execs |-> IF e[1] # par /\ e[2] = m3 THEN 2 ELSE 1]
PausedOfAll == Jobs \cap {pause}
HalfMayFail == [j \in Jobs |-> IF j = par THEN 0 ELSE 50]
LimitOne == [j \in Jobs |-> 1]

(* Connections are lost: a parallel job on two machines or a rolling one on *)
(* three, whose first wave has two targets.                                 *)
Three == {m1, m2, m3}
ParRoll == {par, roll}
ParOnTwoRollOnThree == ({par} \X {m1, m2}) \cup ({roll} \X Three)

(* Users, crashes, and every job finishes: a parallel job or one that       *)
(* pauses between two waves of one target.                                  *)
FirstAndLast == {m1, m3}
ParPause == {par, pause}
ParPauseOnTwo == ParPause \X FirstAndLast

Disconnected == left.disconnect < MaxDisconnects
Interacted == left.interactive < MaxInteractive
Restarted == left.restart < MaxRestarts

(* When a connection is lost, at most one machine has none; the machine of  *)
(* the last wave keeps its own.  m1 and m2 are interchangeable.             *)
OneConnectionLost ==
    /\ link[m3] = "up"
    /\ Disconnected => Cardinality({m \in Machines : link[m] # "up"}) <= 1
Swap == Permutations({m1, m2})

(* A pausing job meets the abort and one of the interactive command, the    *)
(* disconnect and the crash, in any order; a parallel job on a connected    *)
(* and an offline machine meets the abort.                                  *)
FewInterferences ==
    /\ Interacted => ~ (Disconnected \/ Restarted)
    /\ ~ (Disconnected /\ Restarted)
    /\ jobStatus[par] # "none" =>
         /\ ~ (Interacted \/ Disconnected \/ Restarted)
         /\ link[m1] = "up" /\ link[m3] = "down"

(* A pausing job with a wave of two targets and one of one.                 *)
OnlyPause == {pause}
PauseOnThree == OnlyPause \X Three
=============================================================================
