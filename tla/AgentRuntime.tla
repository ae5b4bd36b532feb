---------------------------- MODULE AgentRuntime ----------------------------
(***************************************************************************)
(* The Go agent (src/agent/main.go) as one process of many goroutines: the *)
(* connect loop of runAgent, the goroutine that waits for a termination    *)
(* signal, the goroutine an update starts to stop the agent, one goroutine *)
(* per message, and for every command a reader of its pipe and a waiter    *)
(* for its end.  They share the connection and the channel shutdownCh.     *)
(*                                                                         *)
(* Abstractions: a line of output is a unit, at most MaxLines per command; *)
(* the connection breaks at most MaxDrops times; the channel is closed by  *)
(* one signal and by one update; a message that is written on an open      *)
(* connection counts as sent.  Signatures, wording and the terminals are   *)
(* left out (TerminalSessions has the latter).                             *)
(***************************************************************************)
EXTENDS Naturals

CONSTANTS Commands,   \* the commands the server sends
          MaxLines,   \* bound: lines a command writes
          MaxDrops    \* bound: connections the network breaks

ASSUME RuntimeAssumption == MaxLines \in Nat /\ MaxDrops \in Nat

VARIABLES
  loop,      \* where runAgent is
  conn,      \* a.conn: none yet, open or closed
  shutdown,  \* shutdownCh is closed
  signal,    \* the goroutine that waits for SIGTERM
  updater,   \* the goroutine updateAgent starts
  cmd,       \* per command: its process, its pipe and its two goroutines
  drops      \* bound: how often the network broke the connection

agentVars == <<loop, conn, shutdown, signal, updater, cmd, drops>>

LoopPlaces == {"checking", "dialling", "registering", "reading", "waiting",
               "stopped", "crashed"}

\* The process is over: runAgent returned, or a goroutine panicked.
Ended == loop \in {"stopped", "crashed"}

NoCommand == [proc |-> "none", pipe |-> 0, written |-> 0, sent |-> 0,
              open |-> FALSE, reader |-> "none", waiter |-> "none",
              answer |-> "none"]

AgentInit ==
  /\ loop = "checking" /\ conn = "none" /\ shutdown = FALSE
  /\ signal = "waiting" /\ updater = "none"
  /\ cmd = [c \in Commands |-> NoCommand]
  /\ drops = 0

-----------------------------------------------------------------------------
(* The connect loop of runAgent, connect, register and run.                *)

\* The top of the loop: the only place before a connect that looks at the
\* channel; faulty: it does not.
CheckNothing ==
  /\ loop = "checking"
  /\ loop' = "dialling"
  /\ UNCHANGED <<conn, shutdown, signal, updater, cmd, drops>>

CheckShutdown ==
  /\ loop = "checking"
  /\ loop' = IF shutdown THEN "stopped" ELSE "dialling"
  /\ UNCHANGED <<conn, shutdown, signal, updater, cmd, drops>>

Dial ==
  /\ loop = "dialling"
  /\ \/ conn' = "open" /\ loop' = "registering"
     \/ conn' = conn /\ loop' = "waiting"
  /\ UNCHANGED <<shutdown, signal, updater, cmd, drops>>

\* A registration that cannot be written ends connect with an error.
SendRegister ==
  /\ loop = "registering"
  /\ loop' = IF conn = "open" THEN "reading" ELSE "waiting"
  /\ UNCHANGED <<conn, shutdown, signal, updater, cmd, drops>>

ReadFails ==
  /\ loop = "reading" /\ conn = "closed"
  /\ loop' = "waiting"
  /\ UNCHANGED <<conn, shutdown, signal, updater, cmd, drops>>

\* The five seconds before the next attempt, cut short by the channel.
WaitEnds ==
  /\ loop = "waiting"
  /\ \/ shutdown /\ loop' = "stopped"
     \/ loop' = "checking"
  /\ UNCHANGED <<conn, shutdown, signal, updater, cmd, drops>>

\* The network or the server closes the connection.
LinkBreaks ==
  /\ ~Ended /\ conn = "open" /\ drops < MaxDrops
  /\ conn' = "closed" /\ drops' = drops + 1
  /\ UNCHANGED <<loop, shutdown, signal, updater, cmd>>

HangUp == IF conn = "none" THEN "none" ELSE "closed"

\* Closing a closed channel panics and takes the process with it.
CloseChannel ==
  /\ shutdown' = TRUE
  /\ loop' = IF shutdown THEN "crashed" ELSE loop

-----------------------------------------------------------------------------
(* Termination: a signal, or an update that replaces the binary.           *)

\* The signal's goroutine closes the channel without looking at it ...
Terminate ==
  /\ ~Ended /\ signal = "waiting"
  /\ CloseChannel
  /\ signal' = "closing"
  /\ UNCHANGED <<conn, updater, cmd, drops>>

\* ... and then the connection a.conn names at that moment.
TerminateHangsUp ==
  /\ ~Ended /\ signal = "closing"
  /\ conn' = HangUp
  /\ signal' = "done"
  /\ UNCHANGED <<loop, shutdown, updater, cmd, drops>>

\* updateAgent: the script is launched, a goroutine will stop the agent; or
\* nothing comes of it, for want of a script or of the right to run it.
UpdateAgent ==
  /\ updater' = "launched"
  /\ UNCHANGED <<loop, conn, shutdown, signal, cmd, drops>>

\* A message handleMessage has a goroutine for arrives.
Arrives == loop = "reading" /\ conn = "open"

update_agent == Arrives /\ updater = "none" /\ UpdateAgent

UpdateHangsUp ==
  /\ ~Ended /\ updater = "launched"
  /\ conn' = HangUp
  /\ updater' = "hung up"
  /\ UNCHANGED <<loop, shutdown, signal, cmd, drops>>

\* The select that looks whether the channel is closed already ...
UpdateLooks ==
  /\ ~Ended /\ updater = "hung up"
  /\ updater' = IF shutdown THEN "done" ELSE "closing"
  /\ UNCHANGED <<loop, conn, shutdown, signal, cmd, drops>>

\* ... and its default branch.
UpdateCloses ==
  /\ ~Ended /\ updater = "closing"
  /\ CloseChannel
  /\ updater' = "done"
  /\ UNCHANGED <<conn, signal, cmd, drops>>

-----------------------------------------------------------------------------
(* executeCommand.                                                         *)

SetCommand(c, r) ==
  /\ ~Ended
  /\ cmd' = [cmd EXCEPT ![c] = r]
  /\ UNCHANGED <<loop, conn, shutdown, signal, updater, drops>>

\* writeJSON takes the connection of the moment; that it failed is logged, and
\* what was to be written is gone: a line, or the answer.
Sent(r) == IF conn = "open" THEN r.sent + 1 ELSE r.sent
WithAnswer(r) == [r EXCEPT !.answer = IF conn = "open" THEN "sent" ELSE "lost"]

\* handleMessage has a goroutine of its own for the command, which goes on when
\* the connection is gone.
execute_command(c) ==
  /\ Arrives /\ cmd[c] = NoCommand
  /\ SetCommand(c, [NoCommand EXCEPT !.proc = "arrived"])

\* The process is started, or the command answered at once (a system command
\* before it runs, one that cannot start with 1).
ExecuteCommand(c) ==
  /\ cmd[c].proc = "arrived"
  /\ \/ SetCommand(c, [NoCommand EXCEPT !.proc = "running", !.open = TRUE,
                          !.reader = "reading", !.waiter = "waiting"])
     \/ SetCommand(c, WithAnswer([NoCommand EXCEPT !.proc = "exited"]))

\* verifyHMAC: a message that is five minutes off the agent's clock, or is not
\* signed with its secret, is dropped, and the server is told nothing.
RefuseCommand(c) ==
  /\ cmd[c].proc = "arrived"
  /\ SetCommand(c, [NoCommand EXCEPT !.proc = "refused"])

\* The line that logs the first eight characters of the command's id panics if
\* there are less, as those of the machine page mostly are.
IdTooShort(c) ==
  /\ ~Ended /\ cmd[c].proc = "arrived"
  /\ loop' = "crashed"
  /\ UNCHANGED <<conn, shutdown, signal, updater, cmd, drops>>

HandlesCommand(c) == ExecuteCommand(c) \/ RefuseCommand(c) \/ IdTooShort(c)

ProcessWrites(c) ==
  /\ cmd[c].proc = "running" /\ cmd[c].written < MaxLines
  /\ SetCommand(c, [cmd[c] EXCEPT !.pipe = @ + 1, !.written = @ + 1])

ProcessExits(c) ==
  /\ cmd[c].proc = "running"
  /\ SetCommand(c, [cmd[c] EXCEPT !.proc = "exited"])

\* The reader takes what is in the pipe ...
ReaderTakes(c) ==
  /\ cmd[c].reader = "reading" /\ cmd[c].open /\ cmd[c].pipe > 0
  /\ SetCommand(c, [cmd[c] EXCEPT !.pipe = @ - 1, !.reader = "sending"])

\* ... and sends it.
ReaderSends(c) ==
  /\ cmd[c].reader = "sending"
  /\ SetCommand(c, [cmd[c] EXCEPT !.sent = Sent(cmd[c]), !.reader = "reading"])

\* The end of the file, or a pipe somebody closed: readerDone is closed;
\* faulty: only at the end of the file.
ReaderEndsAtEOF(c) ==
  /\ cmd[c].reader = "reading"
  /\ cmd[c].proc = "exited" /\ cmd[c].pipe = 0
  /\ SetCommand(c, [cmd[c] EXCEPT !.reader = "done"])

ReaderEnds(c) ==
  /\ cmd[c].reader = "reading"
  /\ ~cmd[c].open \/ (cmd[c].proc = "exited" /\ cmd[c].pipe = 0)
  /\ SetCommand(c, [cmd[c] EXCEPT !.reader = "done"])

\* cmd.Wait sees the end of the process and closes the reading end of the
\* pipe, whatever is left in it.
WaitReturns(c) ==
  /\ cmd[c].waiter = "waiting" /\ cmd[c].proc = "exited"
  /\ SetCommand(c, [cmd[c] EXCEPT !.waiter = "waited", !.open = FALSE])

\* The waiter waits for readerDone, then sends completed, once, whether or not
\* there is a connection; faulty: it does not wait.
CompletesAtOnce(c) ==
  /\ cmd[c].waiter = "waited"
  /\ SetCommand(c, WithAnswer([cmd[c] EXCEPT !.waiter = "done"]))

CommandCompletes(c) ==
  /\ cmd[c].waiter = "waited" /\ cmd[c].reader = "done"
  /\ SetCommand(c, WithAnswer([cmd[c] EXCEPT !.waiter = "done"]))

-----------------------------------------------------------------------------
CommandStep(c) ==
  \/ ReaderTakes(c) \/ ReaderSends(c) \/ ReaderEnds(c)
  \/ WaitReturns(c) \/ CommandCompletes(c)

LoopStep == CheckShutdown \/ Dial \/ SendRegister \/ ReadFails \/ WaitEnds

StopStep == TerminateHangsUp \/ UpdateHangsUp \/ UpdateLooks \/ UpdateCloses

AgentNext ==
  \/ LoopStep \/ StopStep \/ Terminate \/ update_agent \/ LinkBreaks
  \/ \E c \in Commands : \/ execute_command(c) \/ HandlesCommand(c) \/ CommandStep(c)
                         \/ ProcessWrites(c) \/ ProcessExits(c)

AgentSpec == AgentInit /\ [][AgentNext]_agentVars

\* The answer of a command is the last that is said of it: no line of its
\* output follows, though two goroutines share the connection, whether the
\* answer was written or failed.
CompletedIsLast ==
  [][\A c \in Commands : cmd[c].answer # "none" => cmd'[c].sent = cmd[c].sent]_agentVars

\* A command whose process has ended is answered, whichever of its two
\* goroutines is first; the answer is lost, and never given again, only if the
\* network broke a connection or the agent was being stopped.
CommandsAreAnswered ==
  \A c \in Commands :
    cmd[c].proc = "exited" ~>
      \/ cmd[c].answer = "sent" \/ Ended
      \/ cmd[c].answer = "lost" /\ (drops > 0 \/ shutdown \/ updater # "none")

\* An agent that was told to stop stops, unless it was between the look at
\* the channel and the end of the registration on a connection that stays up.
ShutdownEnds ==
  shutdown /\ \/ loop \in {"checking", "waiting"}
              \/ loop = "reading" /\ (conn = "closed" \/ signal = "closing")
    ~> Ended

\* "Wait for the reader to finish sending all output" (main.go): on a
\* connection that never broke, a command that was answered has had all its
\* lines sent.
AllOutputSent ==
  \A c \in Commands :
    cmd[c].answer = "sent" /\ conn = "open" /\ drops = 0 => cmd[c].sent = cmd[c].written

=============================================================================
