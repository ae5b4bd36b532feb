---------------------------- MODULE ServerUpdate ----------------------------
(***************************************************************************)
(* The update of the server from its own settings page: the page           *)
(* (components/SystemUpdateCard.tsx) asks the server to execute it         *)
(* (api/admin/server-update/execute), which starts update-system.sh and is *)
(* killed by it; the script leaves its phase in a file, which the page     *)
(* reads through api/admin/server-update/check once a server is up again.  *)
(*                                                                         *)
(* Abstractions: one page; a version is the number of the update that      *)
(* built it; the timeout of 300 s is MaxTicks ticks of the poll; phases of *)
(* the script that the page shows as one are one.  The file may be left    *)
(* by an earlier update, completed and recent.                             *)
(***************************************************************************)
EXTENDS Naturals

CONSTANTS MaxUpdates,  \* bound: updates
          MaxTicks,    \* TIMEOUT / POLL_INTERVAL
          Polls,       \* bound: polls in flight
          MaxReloads   \* bound: reloads of the page

ASSUME UpdateAssumption == {MaxUpdates, MaxTicks, MaxReloads} \subseteq Nat

VARIABLES
  up,       \* a server answers
  running,  \* its version
  built,    \* the version of the build on disk
  statusFile,  \* update-status.json: its phase, and whether it is recent
  script,   \* per update: where its script is
  updates,  \* updates the page asked for
  post,     \* the request to execute: none, sent, refused or accepted
  page,     \* the state of the page
  poll,     \* per poll: none, pending, down, or the answer
  reloads,  \* bound: reloads so far
  excused,  \* history: another cause for a wrong "completed", see below
  late      \* history: an answer came after the polling had stopped

updateVars == <<up, running, built, statusFile, script, updates, post, page, poll,
                reloads, excused, late>>

Updates == 1..MaxUpdates
NoFile == [phase |-> "none", recent |-> FALSE]
NoAnswer == [at |-> "none", phase |-> "none", version |-> 0]

UpdateInit ==
  /\ up = TRUE /\ running = 0 /\ built = 0
  /\ statusFile \in {NoFile, [phase |-> "completed", recent |-> TRUE]}
  /\ script = [i \in Updates |-> "none"]
  /\ updates = 0 /\ post = "none" /\ reloads = 0
  /\ page = [updating |-> FALSE, phase |-> "none", error |-> FALSE,
             version |-> 0, start |-> 0, stored |-> FALSE,
             polling |-> FALSE, ticks |-> 0, hiding |-> FALSE]
  /\ poll = [p \in Polls |-> NoAnswer]
  /\ excused = FALSE /\ late = FALSE

Alive(i) == script[i] \notin {"none", "over"}

-----------------------------------------------------------------------------
(* update-system.sh.                                                       *)

WriteStatus(phase) == statusFile' = [phase |-> phase, recent |-> TRUE]

Step(i, from, to) == script[i] = from /\ script' = [script EXCEPT ![i] = to]

\* Step 1 kills the server that started the script; step 2 pulls the code.
StopServices(i) ==
  /\ Step(i, "started", "pulling")
  /\ WriteStatus("pulling")
  /\ up' = FALSE
  /\ UNCHANGED <<running, built>>

\* Steps 3 to 5.
Build(i) ==
  /\ Step(i, "pulling", "building")
  /\ WriteStatus("building")
  /\ UNCHANGED <<up, running, built>>

\* Step 6.  A restart by systemd ends a server that came up in between, a direct
\* start leaves it.
StartService(i) ==
  /\ Step(i, "building", "restarting")
  /\ WriteStatus("restarting")
  /\ built' = i
  /\ up' \in {FALSE, up}
  /\ UNCHANGED running

\* The health check has found the port open.
ScriptCompletes(i) ==
  /\ up
  /\ Step(i, "restarting", "over")
  /\ WriteStatus("completed")
  /\ UNCHANGED <<up, running, built>>

\* A step that fails, or a signal the EXIT trap survives, writes "failed";
\* a script that is killed outright leaves the file as it is.  Either way
\* the server stays as it is.
ScriptEnds(i) ==
  /\ Alive(i)
  /\ script' = [script EXCEPT ![i] = "over"]
  /\ WriteStatus("failed") \/ statusFile' = statusFile
  /\ UNCHANGED <<up, running, built>>

\* The server started by the script, or by the service manager.
ServerBoots ==
  /\ ~up
  /\ up' = TRUE /\ running' = built
  /\ UNCHANGED <<built, statusFile, script>>

\* Ten minutes later the check ignores the file.
FileAges ==
  /\ statusFile.recent
  /\ statusFile' = [statusFile EXCEPT !.recent = FALSE]
  /\ UNCHANGED <<up, running, built, script>>

ScriptStep(i) ==
  \/ StopServices(i) \/ Build(i) \/ StartService(i) \/ ScriptCompletes(i)
  \/ ScriptEnds(i)

ScriptSide ==
  /\ ServerBoots \/ FileAges \/ \E i \in Updates : ScriptStep(i)
  /\ UNCHANGED <<updates, post, page, poll, reloads, excused, late>>

-----------------------------------------------------------------------------
(* The request to execute.                                                 *)

ServerSide == UNCHANGED <<up, running, built>>

\* handleExecuteUpdate, up to the request.
AskUpdate ==
  /\ ~page.updating /\ post = "none" /\ updates < MaxUpdates
  /\ updates' = updates + 1
  /\ post' = "sent"
  /\ page' = [page EXCEPT !.updating = TRUE, !.phase = "pulling",
                          !.error = FALSE, !.start = page.version,
                          !.stored = TRUE]
  /\ excused' = \/ excused \/ page.version # built \/ page.polling
                \/ \E i \in Updates : Alive(i)
                \/ \E p \in Polls : poll[p] # NoAnswer
  /\ ServerSide /\ UNCHANGED <<statusFile, script, poll, reloads, late>>

\* execute: a request is refused, or clears the status of the previous run
\* and starts the script.
Refuse ==
  /\ post = "sent" /\ up
  /\ post' = "refused"
  /\ ServerSide
  /\ UNCHANGED <<statusFile, script, updates, page, poll, reloads, excused, late>>

\* Faulty: the status of the previous run stays.
KeptStatus == statusFile
ClearedStatus == NoFile

ExecuteUpdate ==
  /\ post = "sent" /\ up
  /\ post' = "accepted"
  /\ statusFile' = ClearedStatus
  /\ script' = [script EXCEPT ![updates] = "started"]
  /\ ServerSide /\ UNCHANGED <<updates, page, poll, reloads, excused, late>>

StartPolling(p) == [p EXCEPT !.polling = TRUE, !.ticks = 0]

Answered(p) ==
  /\ page' = p
  /\ post' = "none"
  /\ ServerSide
  /\ UNCHANGED <<statusFile, script, updates, poll, reloads, excused, late>>

PostAccepted ==
  /\ post = "accepted"
  /\ Answered(StartPolling([page EXCEPT !.stored = TRUE, !.phase = "building"]))

\* A refusal, or a server that was killed before its answer arrived.
PostFails ==
  /\ post = "refused" \/ (post # "none" /\ ~up)
  /\ Answered([page EXCEPT !.error = TRUE, !.stored = FALSE])

-----------------------------------------------------------------------------
(* The page.                                                               *)

\* A reload takes up the polling of an update stored less than ten minutes
\* ago; answers for the old page reach nobody.
Reload(old) ==
  /\ up /\ reloads < MaxReloads
  /\ reloads' = reloads + 1
  /\ post' = "none"
  /\ poll' = [p \in Polls |-> NoAnswer]
  /\ LET fresh == [page EXCEPT !.version = running, !.error = FALSE,
                               !.hiding = FALSE, !.polling = FALSE]
     IN  page' = IF page.stored /\ ~old
                   THEN StartPolling([fresh EXCEPT !.updating = TRUE,
                                                   !.phase = "restarting"])
                   ELSE [fresh EXCEPT !.updating = FALSE, !.phase = "none",
                                      !.stored = FALSE]
  /\ excused' = (excused \/ post # "none")
  /\ ServerSide /\ UNCHANGED <<statusFile, script, updates, late>>

\* After TIMEOUT the page gives up; faulty: never.
NeverTimedOut == FALSE
TimedOut == page.ticks >= MaxTicks

\* The interval asks again whether or not the last poll was answered.
Tick ==
  /\ page.polling
  /\ IF TimedOut
       THEN /\ page' = [page EXCEPT !.polling = FALSE, !.phase = "none",
                                    !.error = TRUE, !.stored = FALSE]
            /\ poll' = poll
       ELSE /\ page' = [page EXCEPT !.ticks = IF @ < MaxTicks THEN @ + 1 ELSE @]
            /\ \/ \E p \in Polls :
                    /\ poll[p] = NoAnswer
                    /\ poll' = [poll EXCEPT ![p].at = "pending"]
               \/ (\A p \in Polls : poll[p] # NoAnswer) /\ poll' = poll
  /\ ServerSide
  /\ UNCHANGED <<statusFile, script, updates, post, reloads, excused, late>>

\* check: the phase of a recent statusFile, and the version that runs.
PollAnswered(p) ==
  /\ poll[p].at = "pending"
  /\ poll' = [poll EXCEPT ![p] =
                IF up THEN [at |-> "answer", version |-> running,
                            phase |-> IF statusFile.recent THEN statusFile.phase ELSE "none"]
                      ELSE [NoAnswer EXCEPT !.at = "down"]]
  /\ ServerSide
  /\ UNCHANGED <<statusFile, script, updates, post, page, reloads, excused, late>>

Shown(phase) == IF phase = "none" THEN page.phase ELSE phase

Stop(p) == [p EXCEPT !.polling = FALSE, !.stored = FALSE]

\* What the page makes of an answer; without a phase, or before the script
\* is through, another version than at the start means that it is.
AfterAnswer(a) ==
  CASE a.at = "down" -> [page EXCEPT !.phase = "restarting"]
    [] a.at = "answer" /\ a.phase = "completed" ->
         Stop([page EXCEPT !.phase = "completed", !.version = a.version])
    [] a.at = "answer" /\ a.phase = "failed" ->
         Stop([page EXCEPT !.phase = "none", !.error = TRUE])
    [] a.at = "answer" /\ a.phase \notin {"completed", "failed"} ->
         IF a.version = page.start THEN [page EXCEPT !.phase = Shown(a.phase)]
         ELSE Stop([page EXCEPT !.phase = "completed", !.version = a.version,
                                !.hiding = TRUE])

PollHandled(p) ==
  /\ poll[p].at \in {"down", "answer"}
  /\ page' = AfterAnswer(poll[p])
  /\ poll' = [poll EXCEPT ![p] = NoAnswer]
  /\ late' = (late \/ ~page.polling)
  /\ ServerSide
  /\ UNCHANGED <<statusFile, script, updates, post, reloads, excused>>

\* The user closes an overlay that shows an end, or the timer of the
\* fallback does.
Close ==
  /\ \/ page.updating /\ (page.phase = "completed" \/ page.error)
        /\ page' = [page EXCEPT !.updating = FALSE, !.phase = "none",
                                !.error = page.phase = "completed" /\ @]
     \/ page.hiding
        /\ page' = [page EXCEPT !.updating = FALSE, !.phase = "none",
                                !.hiding = FALSE]
  /\ ServerSide
  /\ UNCHANGED <<statusFile, script, updates, post, poll, reloads, excused, late>>

-----------------------------------------------------------------------------
PostStep == Refuse \/ ExecuteUpdate \/ PostAccepted \/ PostFails
PollStep(p) == PollAnswered(p) \/ PollHandled(p)

UpdateNext ==
  \/ ScriptSide \/ PostStep \/ AskUpdate \/ Tick \/ Close
  \/ \E old \in BOOLEAN : Reload(old)
  \/ \E p \in Polls : PollStep(p)

UpdateSpec == UpdateInit /\ [][UpdateNext]_updateVars

OverlayDone == page.phase = "completed" \/ page.error \/ ~page.updating

\* When the overlay shows "completed", the update that was asked for last is
\* the one that was built: the status of the run before is not mistaken for
\* its own.  Excused are two updates at once, an update somebody else built
\* since the page was loaded, polling for the update before that still goes on
\* (behind an overlay the timer of the fallback hid) or a poll of it that is
\* under way, and a reload that takes up the polling before the request was
\* answered.
CompletedIsTrue ==
  page.updating /\ page.phase = "completed" /\ ~excused /\ ~late => built = updates

\* The overlay reaches an end, or can be closed, whatever becomes of the
\* script and of the server, because the page counts the time itself; unless
\* an answer came after the polling had stopped.
OverlayEnds == page.updating ~> OverlayDone \/ late

=============================================================================
