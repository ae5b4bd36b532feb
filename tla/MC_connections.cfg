SPECIFICATION Spec
CONSTANTS
 par = par
 roll = roll
 pause = pause
 m1 = m1
 m2 = m2
 m3 = m3
 Jobs <- ParRoll
 Execs <- ParOnTwoRollOnThree
 Machines <- Three
 JobOf <- JobOfAll
 MachineOf <- MachineOfAll
 Mode <- ModeOfAll
 Limit <- LimitOne
 BatchOf <- WaveOfAll
 PausedJobs <- PausedOfAll
 StopPercent <- HalfMayFail
 MaxJobs = 1
 MaxDisconnects = 1
 MaxInteractive = 0
 MaxAborts = 0
 MaxRestarts = 0
INVARIANTS LimitRespected ParallelJobDone DispatchedOnce
PROPERTY SlotsComeBack
CONSTRAINT OneConnectionLost
SYMMETRY Swap
CHECK_DEADLOCK FALSE
