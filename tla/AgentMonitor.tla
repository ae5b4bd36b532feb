---------------------------- MODULE AgentMonitor ----------------------------
(***************************************************************************)
(* What the agent watches while it is connected (src/agent/main.go): the   *)
(* authentication log every ten seconds, and every half hour (or when the  *)
(* server asks) a scan of packages, files and configuration.  Each         *)
(* connection starts tickers of its own and a check or a scan that is      *)
(* under way outlives its connection, so several of each run at once; they *)
(* share the position in the log, the attempts counted per address, the    *)
(* reports remembered for an hour and the hashes of the files.             *)
(*                                                                         *)
(* Abstractions: one address tries to log in, one file is watched; the     *)
(* three attempts that make an event and the half hour and the hour that   *)
(* suppress one are kept; severities, the list of packages, the phases of  *)
(* the progress display, the agent that has no id yet and a watched file   *)
(* that is removed are left out.                                           *)
(***************************************************************************)
EXTENDS Naturals

CONSTANTS Checkers,     \* the goroutines that check the log
          Scanners,     \* the goroutines that scan
          MaxAttempts,  \* bound: failed logins
          MaxHours      \* bound: hours that pass

ASSUME MonitorAssumption == MaxAttempts \in Nat /\ MaxHours \in Nat

VARIABLES
  attempts,  \* bound: failed logins so far
  unread,    \* failed logins after the position the log was read to
  logins,    \* failedLoginCounts of the address
  reported,  \* reportedEvents: never, within the hour, or longer ago
  checker,   \* per checking goroutine: where it is
  lastScan,  \* lastPackageScan: never, within the half hour, longer ago
  scanner,   \* per scanning goroutine: where it is and what it found
  watched,   \* the file against its stored hash
  posts,     \* reports of the checks the server was sent
  hours,     \* hours that passed
  known      \* what the server was told: the address, the changed file

monitorVars == <<attempts, unread, logins, reported, checker, lastScan,
                 scanner, watched, posts, hours, known>>

IdleScan == [at |-> "idle", attack |-> FALSE, change |-> FALSE]

MonitorInit ==
  /\ attempts = 0 /\ unread = 0 /\ logins = 0 /\ reported = "never"
  /\ checker = [k \in Checkers |-> "idle"]
  /\ lastScan = "never"
  /\ scanner = [s \in Scanners |-> IdleScan]
  /\ watched = "unhashed"
  /\ posts = 0 /\ hours = 0 /\ known = {}

-----------------------------------------------------------------------------
(* The machine and its clock.                                              *)

LoginFails ==
  /\ attempts < MaxAttempts
  /\ attempts' = attempts + 1 /\ unread' = unread + 1
  /\ UNCHANGED <<logins, reported, checker, lastScan, scanner, watched, posts,
                 hours, known>>

FileChanges ==
  /\ watched = "same"
  /\ watched' = "changed"
  /\ UNCHANGED <<attempts, unread, logins, reported, checker, lastScan,
                 scanner, posts, hours, known>>

HalfHourPasses ==
  /\ lastScan = "recent"
  /\ lastScan' = "old"
  /\ UNCHANGED <<attempts, unread, logins, reported, checker, scanner, watched,
                 posts, hours, known>>

HourPasses ==
  /\ reported = "recent" /\ hours < MaxHours
  /\ reported' = "old" /\ lastScan' = "old" /\ hours' = hours + 1
  /\ UNCHANGED <<attempts, unread, logins, checker, scanner, watched, posts,
                 known>>

-----------------------------------------------------------------------------
(* checkAndReportSecurityEvents.                                           *)

\* The address is an event once it has tried three times.
Suspicious(n) == n >= 3

\* checkAuthLogIncremental, under its lock: the new lines are counted and
\* the position moves past them.
ReadLog(k) ==
  /\ checker[k] = "idle" /\ unread > 0
  /\ logins' = logins + unread /\ unread' = 0
  /\ checker' = [checker EXCEPT
                   ![k] = IF Suspicious(logins') THEN "found" ELSE "idle"]
  /\ UNCHANGED <<attempts, reported, lastScan, scanner, watched, posts, hours,
                 known>>

\* The filter, under its lock: an event is remembered as reported before it
\* is sent; faulty: it is not remembered.
FilterForgets(k) ==
  /\ checker[k] = "found"
  /\ checker' = [checker EXCEPT
                   ![k] = IF reported = "recent" THEN "idle" ELSE "sending"]
  /\ UNCHANGED <<attempts, unread, logins, reported, lastScan, scanner,
                 watched, posts, hours, known>>

FilterEvents(k) ==
  /\ checker[k] = "found"
  /\ checker' = [checker EXCEPT
                   ![k] = IF reported = "recent" THEN "idle" ELSE "sending"]
  /\ reported' = "recent"
  /\ UNCHANGED <<attempts, unread, logins, lastScan, scanner, watched, posts,
                 hours, known>>

\* sendSecurityEvents: a request that fails is only logged.
PostEvents(k) ==
  /\ checker[k] = "sending"
  /\ checker' = [checker EXCEPT ![k] = "idle"]
  /\ posts' = posts + 1
  /\ \/ known' = known \cup {"attack"}
     \/ known' = known
  /\ UNCHANGED <<attempts, unread, logins, reported, lastScan, scanner, watched,
                 hours>>

-----------------------------------------------------------------------------
(* The scans.                                                              *)

StartScan(s) ==
  /\ scanner[s].at = "idle"
  /\ scanner' = [scanner EXCEPT ![s] = [IdleScan EXCEPT !.at = "scanning"]]

\* maybeRunPackageScan after a heartbeat, under packageScanMu.
HeartbeatScan(s) ==
  /\ lastScan # "recent"
  /\ lastScan' = "recent"
  /\ StartScan(s)
  /\ UNCHANGED <<attempts, unread, logins, reported, checker, watched, posts,
                 hours, known>>

\* trigger_scan starts a scan without the lock and without the date.
TriggeredScan(s) ==
  /\ StartScan(s)
  /\ UNCHANGED <<attempts, unread, logins, reported, checker, lastScan, watched,
                 posts, hours, known>>

\* checkFileIntegrity, under its lock: a difference is found once, the new
\* hash is stored with it.
CheckIntegrity(s) ==
  /\ scanner[s].at = "scanning"
  /\ scanner' = [scanner EXCEPT ![s].at = "hashed",
                                ![s].change = watched = "changed"]
  /\ watched' = "same"
  /\ UNCHANGED <<attempts, unread, logins, reported, checker, lastScan, posts,
                 hours, known>>

\* checkAuthLog: the events of all attempts counted so far; faulty: of those
\* not read yet.
CheckAuthLogTail(s) ==
  /\ scanner[s].at = "hashed"
  /\ scanner' = [scanner EXCEPT ![s].at = "posting",
                                ![s].attack = Suspicious(unread)]
  /\ UNCHANGED <<attempts, unread, logins, reported, checker, lastScan, watched,
                 posts, hours, known>>

CheckAuthLog(s) ==
  /\ scanner[s].at = "hashed"
  /\ scanner' = [scanner EXCEPT ![s].at = "posting",
                                ![s].attack = Suspicious(logins)]
  /\ UNCHANGED <<attempts, unread, logins, reported, checker, lastScan, watched,
                 posts, hours, known>>

Findings(s) == {f \in {"attack", "change"} : scanner[s][f]}

\* sendPackageScan: a request that fails is only logged.
PostScan(s, delivered) ==
  /\ scanner[s].at = "posting"
  /\ scanner' = [scanner EXCEPT ![s] = IdleScan]
  /\ known' = IF delivered THEN known \cup Findings(s) ELSE known
  /\ UNCHANGED <<attempts, unread, logins, reported, checker, lastScan, watched,
                 posts, hours>>

-----------------------------------------------------------------------------
CheckStep(k) == ReadLog(k) \/ FilterEvents(k) \/ PostEvents(k)

ScanStep(s) ==
  CheckIntegrity(s) \/ CheckAuthLog(s) \/ \E ok \in BOOLEAN : PostScan(s, ok)

MonitorNext ==
  \/ LoginFails \/ FileChanges \/ HalfHourPasses \/ HourPasses
  \/ \E k \in Checkers : CheckStep(k)
  \/ \E s \in Scanners : HeartbeatScan(s) \/ TriggeredScan(s) \/ ScanStep(s)

MonitorSpec == MonitorInit /\ [][MonitorNext]_monitorVars

\* However many checks run at once on however many connections, the server is
\* sent the same address at most once an hour.
OncePerHour == posts <= hours + 1

\* An address that tried three times gets known to the server although the
\* report of the check, which is remembered before it is sent, may be lost:
\* the scans report it again, as long as one in infinitely many arrives.
AttackIsReported == Suspicious(logins) ~> "attack" \in known

=============================================================================
