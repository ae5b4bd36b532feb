SPECIFICATION FairSpec
CONSTANTS
 par = par
 roll = roll
 pause = pause
 m1 = m1
 m2 = m2
 m3 = m3
 Jobs <- ParPause
 Execs <- ParPauseOnTwo
 Machines <- FirstAndLast
 JobOf <- JobOfAll
 MachineOf <- MachineOfAll
 Mode <- ModeOfAll
 Limit <- LimitOne
 BatchOf <- WaveOfAll
 PausedJobs <- PausedOfAll
 StopPercent <- HalfMayFail
 MaxJobs = 1
 MaxDisconnects = 1
 MaxInteractive = 0
 MaxAborts = 0
 MaxRestarts = 0
INVARIANTS WavesOfOneInOrder
PROPERTIES JobFinishes
CHECK_DEADLOCK FALSE
