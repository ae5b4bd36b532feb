SPECIFICATION Spec
CONSTANTS
 par = par
 roll = roll
 pause = pause
 m1 = m1
 m2 = m2
 m3 = m3
 Jobs <- OnlyPause
 Execs <- PauseOnThree
 Machines <- Three
 JobOf <- JobOfAll
 MachineOf <- MachineOfAll
 Mode <- ModeOfAll
 Limit <- LimitOne
 BatchOf <- WaveOfAll
 PausedJobs <- PausedOfAll
 StopPercent <- HalfMayFail
 MaxJobs = 1
 MaxDisconnects = 0
 MaxInteractive = 0
 MaxAborts = 0
 MaxRestarts = 0
INVARIANTS NobodyForgotten
CHECK_DEADLOCK FALSE
