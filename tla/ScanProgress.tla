---------------------------- MODULE ScanProgress ----------------------------
(***************************************************************************)
(* How the progress of a scan gets from the agent to the security page of  *)
(* its machine.  The agent posts its phases one after the other, the last  *)
(* one before the result (src/agent/main.go).  The server keeps a progress *)
(* in memory and in a row, tells the open pages, and clears both two       *)
(* seconds after the last phase and when the result is in                  *)
(* (api/agent/scan/progress, api/agent/scan).  The page                    *)
(* (app/security/[id]/page.tsx) shows what it is told and what it fetches, *)
(* and refuses to start a scan while it shows one.  A post may be lost     *)
(* (the agent goes on), and the server may be restarted: its memory, its   *)
(* timers and its handlers are gone, the row is not.                       *)
(*                                                                         *)
(* Abstractions: a progress is there or not; a message of the WebSocket    *)
(* arrives at once; the two hours after which memory forgets are left out. *)
(***************************************************************************)
EXTENDS Naturals

CONSTANTS Scans,       \* scans the agent runs at once
          Fetches,     \* fetches of the page under way at once
          MaxScanRuns  \* bound: scans

ASSUME ProgressAssumption == MaxScanRuns \in Nat

VARIABLES
  phase,       \* per scan: where the agent and the handler of its post are
  runs,        \* bound: scans so far
  memory,      \* scan-progress-store has an entry
  stored,      \* ScanProgressState has a row
  timers,      \* two-second timers that are armed
  clearing,    \* timers that fired and whose row is not deleted yet
  shown,       \* scanProgress of the page
  triggering,  \* scanTriggering of the page
  fetch,       \* per fetch: where it is, what it read, whether that is old
  mishap       \* history: what went wrong so far

progressVars == <<phase, runs, memory, stored, timers, clearing, shown,
                  triggering, fetch, mishap>>

NoFetch == [at |-> "none", progress |-> FALSE, old |-> FALSE]

ProgressInit ==
  /\ phase = [s \in Scans |-> "idle"] /\ runs = 0
  /\ memory = FALSE /\ stored = FALSE /\ timers = 0 /\ clearing = 0
  /\ shown = FALSE /\ triggering = FALSE
  /\ fetch = [f \in Fetches |-> NoFetch]
  /\ mishap = {}

PhaseFrom(s, from, to) == phase[s] = from /\ phase' = [phase EXCEPT ![s] = to]

PageAsIs == UNCHANGED <<shown, triggering, fetch>>

-----------------------------------------------------------------------------
(* The agent and the handlers of its posts.                                *)

\* A scan of the heartbeat, or one that was asked for.
StartsScan(s) == /\ runs < MaxScanRuns /\ runs' = runs + 1
                 /\ PhaseFrom(s, "idle", "working")

ScheduledScan(s) ==
  /\ StartsScan(s)
  /\ UNCHANGED <<memory, stored, timers, clearing, mishap>> /\ PageAsIs

\* A phase arrives: pages and memory at once ...
ProgressArrives(s) ==
  /\ PhaseFrom(s, "working", "storing")
  /\ shown' = TRUE
  /\ memory' = TRUE
  /\ UNCHANGED <<runs, stored, timers, clearing, triggering, fetch, mishap>>

\* ... the row later, unless the database fails; the agent waits for the answer
\* and does not look at it.
ProgressStored(s) ==
  /\ PhaseFrom(s, "storing", "scanned")
  /\ stored' \in {TRUE, stored}
  /\ UNCHANGED <<runs, memory, timers, clearing, mishap>> /\ PageAsIs

\* The last phase arms the timer and leaves memory alone; its row is written
\* all the same.
FinalizingArrives(s) ==
  /\ PhaseFrom(s, "scanned", "storing last")
  /\ shown' = TRUE
  /\ timers' = timers + 1
  /\ UNCHANGED <<runs, memory, stored, clearing, triggering, fetch, mishap>>

FinalizingStored(s) ==
  /\ PhaseFrom(s, "storing last", "posting")
  /\ stored' \in {TRUE, stored}
  /\ UNCHANGED <<runs, memory, timers, clearing, mishap>> /\ PageAsIs

\* sendScanProgress returns when its post fails; without the last phase no timer
\* is armed.
PostLost(s) ==
  /\ PhaseFrom(s, "working", "scanned") \/ PhaseFrom(s, "scanned", "unannounced")
  /\ UNCHANGED <<runs, memory, stored, timers, clearing, mishap>> /\ PageAsIs

TimerFires ==
  /\ timers > 0
  /\ timers' = timers - 1 /\ clearing' = clearing + 1
  /\ memory' = FALSE
  /\ UNCHANGED <<phase, runs, stored, mishap>> /\ PageAsIs

\* The deletion may overtake a write that took more than two seconds; faulty:
\* there is none.
TimerForgetsOnly ==
  /\ clearing > 0
  /\ clearing' = clearing - 1
  /\ UNCHANGED <<phase, runs, memory, stored, timers, mishap>> /\ PageAsIs

TimerDeletes ==
  /\ clearing > 0
  /\ clearing' = clearing - 1
  /\ stored' = FALSE
  /\ mishap' = IF \E s \in Scans : phase[s] = "storing last"
                 THEN mishap \cup {"slow"} ELSE mishap
  /\ UNCHANGED <<phase, runs, memory, timers>> /\ PageAsIs

\* The result is in: the pages are told and fetch everything again, while
\* the row is still there.
ScanCompleted(s) ==
  /\ PhaseFrom(s, "posting", "deleting") \/ PhaseFrom(s, "unannounced", "deleting")
  /\ memory' = FALSE
  /\ shown' = FALSE /\ triggering' = FALSE
  /\ \E f \in Fetches :
       /\ fetch[f] = NoFetch
       /\ fetch' = [g \in Fetches |->
                      IF g = f THEN [NoFetch EXCEPT !.at = "asked"]
                      ELSE [fetch[g] EXCEPT !.old = fetch[g].at # "none"]]
  /\ UNCHANGED <<runs, stored, timers, clearing, mishap>>

RowDeleted(s) ==
  /\ PhaseFrom(s, "deleting", "idle")
  /\ stored' = FALSE
  /\ UNCHANGED <<runs, memory, timers, clearing, mishap>> /\ PageAsIs

\* A deletion fails: it is logged, and the row stays.
DeletionFails ==
  /\ \/ clearing > 0 /\ clearing' = clearing - 1 /\ phase' = phase
     \/ (\E s \in Scans : PhaseFrom(s, "deleting", "idle")) /\ clearing' = clearing
  /\ mishap' = mishap \cup {"kept"}
  /\ UNCHANGED <<runs, memory, stored, timers>> /\ PageAsIs

\* The post of the result fails on its way or in the handler: nobody is told,
\* and if the last phase was lost too the server does not know that it is over.
ScanFails(s) ==
  /\ \/ PhaseFrom(s, "posting", "idle") /\ mishap' = mishap \cup {"failed"}
     \/ PhaseFrom(s, "unannounced", "idle") /\ mishap' = mishap \cup {"failed", "unfinished"}
  /\ UNCHANGED <<runs, memory, stored, timers, clearing>> /\ PageAsIs

\* The agent stops half-way.
AgentDies(s) ==
  /\ phase[s] \in {"working", "scanned"}
  /\ phase' = [phase EXCEPT ![s] = "idle"]
  /\ mishap' = mishap \cup {"failed", "unfinished"}
  /\ UNCHANGED <<runs, memory, stored, timers, clearing>> /\ PageAsIs

\* The server stops and starts: the posts under way fail, what they would have
\* done is not done, and neither is what was left to a timer.
ServerRestarts ==
  /\ memory' = FALSE /\ timers' = 0 /\ clearing' = 0
  /\ phase' = [s \in Scans |->
                 CASE phase[s] = "storing" -> "scanned"
                   [] phase[s] \in {"storing last", "posting"} -> "unannounced"
                   [] phase[s] = "deleting" -> "idle"
                   [] OTHER -> phase[s]]
  /\ fetch' = [f \in Fetches |-> IF fetch[f].at = "answered" THEN fetch[f] ELSE NoFetch]
  /\ mishap' = mishap \cup {"restarted"}
                 \cup (IF stored /\ \A s \in Scans : phase'[s] = "idle" THEN {"cut"} ELSE {})
  /\ UNCHANGED <<runs, stored, shown, triggering>>

-----------------------------------------------------------------------------
(* The page.                                                               *)

SetFetch(f, r) ==
  /\ fetch' = [fetch EXCEPT ![f] = r]
  /\ UNCHANGED <<phase, runs, memory, stored, timers, clearing>>

OpenPage(f) ==
  /\ fetch[f] = NoFetch
  /\ SetFetch(f, [NoFetch EXCEPT !.at = "asked"])
  /\ UNCHANGED <<shown, triggering, mishap>>

\* GET: memory first, the row if there is nothing in it.
ReadMemory(f) ==
  /\ fetch[f].at = "asked"
  /\ SetFetch(f, [fetch[f] EXCEPT !.at = IF memory THEN "answered" ELSE "reading",
                                  !.progress = memory])
  /\ UNCHANGED <<shown, triggering, mishap>>

\* A row of a scan whose completion was announced already is old.
ReadRow(f) ==
  /\ fetch[f].at = "reading"
  /\ SetFetch(f, [at |-> "answered", progress |-> stored,
                  old |-> fetch[f].old \/ \E s \in Scans : phase[s] = "deleting"])
  /\ UNCHANGED <<shown, triggering, mishap>>

ApplyFetch(f) ==
  /\ fetch[f].at = "answered"
  /\ SetFetch(f, NoFetch)
  /\ shown' = fetch[f].progress
  /\ mishap' = IF fetch[f].old /\ fetch[f].progress THEN mishap \cup {"old"}
               ELSE mishap
  /\ UNCHANGED triggering

\* triggerSecurityScan refuses while a scan is shown; the request may be
\* refused, or be lost after it was acknowledged.
MayTrigger == ~triggering /\ ~shown

TriggerScan(s) ==
  /\ MayTrigger
  /\ triggering' = TRUE
  /\ \/ StartsScan(s) /\ mishap' = mishap
     \/ mishap' = mishap \cup {"failed"} /\ UNCHANGED <<phase, runs>>
  /\ UNCHANGED <<memory, stored, timers, clearing, shown, fetch>>

-----------------------------------------------------------------------------
ProgressNext ==
  \/ TimerFires \/ TimerDeletes \/ DeletionFails \/ ServerRestarts
  \/ \E s \in Scans :
       \/ ScheduledScan(s) \/ ProgressArrives(s) \/ ProgressStored(s)
       \/ FinalizingArrives(s) \/ FinalizingStored(s)
       \/ ScanCompleted(s) \/ RowDeleted(s) \/ ScanFails(s) \/ AgentDies(s)
       \/ TriggerScan(s) \/ PostLost(s)
  \/ \E f \in Fetches :
       OpenPage(f) \/ ReadMemory(f) \/ ReadRow(f) \/ ApplyFetch(f)

ProgressSpec == ProgressInit /\ [][ProgressNext]_progressVars

ScansOver == /\ \A s \in Scans : phase[s] = "idle"
             /\ timers = 0 /\ clearing = 0

\* When the scans are over no progress is left on the server, whichever posts
\* were lost, results included, and also when it was restarted.  Excepted: a
\* scan of which neither the last phase nor the result arrived ("unfinished"), a
\* restart after which nothing was left that would delete the row ("cut"), a
\* deletion that failed ("kept") and one that was overtaken by a write ("slow").
\* And an open page shows none and offers the next scan, unless a result was
\* lost, the server was restarted or an old answer came late.
NoProgressIsLeft ==
  ScansOver =>
    /\ mishap \cap {"unfinished", "cut", "kept", "slow"} = {} => ~memory /\ ~stored
    /\ mishap = {} /\ (\A f \in Fetches : fetch[f] = NoFetch) => MayTrigger

=============================================================================
