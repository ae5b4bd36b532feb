----------------------------- MODULE AgentTerminal -----------------------------
(***************************************************************************)
(* The way of a key from a tab to a shell (server/src: Terminal.tsx,       *)
(* WebClientConnectionManager.ts, SecureRemoteTerminalService.ts;          *)
(* agent/main.go): the tab names the session it was told of, the server    *)
(* limits, looks up, signs and sends, and the agent starts a goroutine     *)
(* for every message, so that messages overtake each other twice.          *)
(*                                                                         *)
(* One machine, and one user with this tab and another one; who may open   *)
(* a terminal, and the audit trail, are in TerminalSessions.  A signature  *)
(* is right; what a shell prints is left out.                              *)
(***************************************************************************)
EXTENDS Naturals, Sequences, FiniteSets

CONSTANTS Sessions,
          RATE_LIMIT_TOKENS, RATE_LIMIT_BURST,
          MaxKeys,   \* bound: keys typed, and changes of the size
          MaxFaults, \* bound: ends of sessions, shells and connections
          MaxAge     \* bound: seconds counted since a refill

ASSUME AgentTerminalAssumption ==
  /\ RATE_LIMIT_TOKENS \in Nat \ {0} /\ RATE_LIMIT_BURST \in Nat
  /\ MaxKeys \in Nat /\ MaxFaults \in Nat /\ MaxAge \in Nat /\ 0 \notin Sessions

VARIABLES
  sessionIdRef,  \* the session the tab was told of last; 0: none
  typedFor,      \* history: per key the session it was typed for
  announced,     \* terminal_session_created on its way to this tab
  outbox,        \* keys on their way to the server
  spawned,       \* sessions issued so far
  activeTokens,  \* sessions that are not ended
  buckets,       \* rateLimitBuckets: tokens, and the seconds since the refill
  handlers,      \* keys that wait for the machine's secret, with their link
  link,          \* number of the agent's connection; 0: not connected
  faults,        \* bound: how many so far
  inbox,         \* messages on their way to the agent
  tasks,         \* handleMessage: goroutines under way
  terminals,     \* per session: no shell yet, running, ended
  received,      \* per session: the keys the shell got
  thisSecond,    \* history: per session, messages passed in this second
  dropped,       \* history: keys that were dropped for a reason, and new sizes
  hastyKeys          \* history: a key was typed before the last one had arrived

tabVars == <<sessionIdRef, typedFor, announced, outbox>>
serviceVars == <<spawned, activeTokens, buckets, handlers, thisSecond>>
agentSideVars == <<inbox, tasks, terminals, received>>
agentTerminalVars == <<tabVars, serviceVars, link, faults, agentSideVars, dropped, hastyKeys>>

NoBucket == [tokens |-> 0, age |-> 0, made |-> FALSE]

AgentTerminalInit ==
  /\ sessionIdRef = 0 /\ typedFor = <<>> /\ announced = <<>> /\ outbox = <<>>
  /\ spawned = {} /\ activeTokens = {} /\ handlers = {}
  /\ buckets = [s \in Sessions |-> NoBucket]
  /\ link = 1 /\ faults = 0
  /\ inbox = <<>> /\ tasks = {}
  /\ terminals = [s \in Sessions |-> "none"]
  /\ received = [s \in Sessions |-> <<>>]
  /\ thisSecond = [s \in Sessions |-> 0]
  /\ dropped = {} /\ hastyKeys = FALSE

\* Every key typed so far has arrived or was dropped, and all shells run.
Settled ==
  /\ outbox = <<>> /\ handlers = {} /\ inbox = <<>> /\ tasks = {}

Fails == faults < MaxFaults /\ faults' = faults + 1

-----------------------------------------------------------------------------
(* The tab.                                                                *)

terminal_session_created ==
  /\ announced # <<>>
  /\ sessionIdRef' = Head(announced) /\ announced' = Tail(announced)
  /\ UNCHANGED <<typedFor, outbox, serviceVars, link, faults, agentSideVars, dropped, hastyKeys>>

\* A key and a change of the size go the same way.
Types(kind) ==
  /\ sessionIdRef # 0 /\ Len(typedFor) < MaxKeys
  /\ typedFor' = Append(typedFor, sessionIdRef)
  /\ outbox' = Append(outbox, [do |-> kind, key |-> Len(typedFor'), session |-> sessionIdRef])
  /\ hastyKeys' = (hastyKeys \/ ~Settled)
  /\ UNCHANGED <<sessionIdRef, announced, serviceVars, link, faults, agentSideVars, dropped>>

onData == Types("stdin")
fitTerminal == Types("resize")

-----------------------------------------------------------------------------
(* The server.                                                             *)

\* The session was issued for this tab or the other one.  Its shell is asked
\* for over the connection of the moment the handler began, which may be gone;
\* the session is announced to the user's first tab.
handleSpawnTerminal(s) ==
  /\ s \notin spawned /\ spawned' = spawned \cup {s}
  /\ activeTokens' = activeTokens \cup {s}
  /\ inbox' \in {inbox} \cup
       IF link = 0 THEN {} ELSE {Append(inbox, [do |-> "spawn", key |-> 0, session |-> s])}
  /\ announced' \in {announced, Append(announced, s)}
  /\ UNCHANGED <<sessionIdRef, typedFor, outbox, buckets, handlers, thisSecond, link, faults,
                 tasks, terminals, received, dropped, hastyKeys>>

Least(a, b) == IF a <= b THEN a ELSE b

Refilled(b) ==
  IF b.made THEN Least(b.tokens + b.age * RATE_LIMIT_TOKENS,
                       RATE_LIMIT_TOKENS + RATE_LIMIT_BURST)
            ELSE RATE_LIMIT_TOKENS

\* Faulty: the last token is spent twice.
AdmitsOneMore(tokens) == tokens >= 0

Admits(tokens) == tokens >= 1

\* Without a connection nothing is even counted; a session that has ended
\* gets a bucket all the same.
handleTerminalMessage(kind) ==
  LET msg == Head(outbox)
      tokens == Refilled(buckets[msg.session])
      passes == link # 0 /\ Admits(tokens)
  IN  /\ outbox # <<>> /\ msg.do = kind /\ outbox' = Tail(outbox)
      /\ buckets' = IF link = 0 THEN buckets ELSE
           [buckets EXCEPT ![msg.session] = [tokens |-> IF passes THEN tokens - 1 ELSE tokens,
                                             age |-> 0, made |-> TRUE]]
      /\ thisSecond' = IF passes THEN [thisSecond EXCEPT ![msg.session] = @ + 1] ELSE thisSecond
      /\ IF passes /\ msg.session \in activeTokens
           THEN handlers' = handlers \cup {[msg |-> msg, link |-> link]} /\ UNCHANGED dropped
           ELSE dropped' = dropped \cup {msg.key} /\ UNCHANGED handlers
      /\ UNCHANGED <<sessionIdRef, typedFor, announced, spawned, activeTokens, link, faults,
                     agentSideVars, hastyKeys>>

handleTerminalInput == handleTerminalMessage("stdin")
handleTerminalResize == handleTerminalMessage("resize")

\* The secret was read; the message is signed and sent.
createSecureMessage(h) ==
  /\ h \in handlers /\ handlers' = handlers \ {h}
  /\ IF h.link = link
       THEN inbox' = Append(inbox, h.msg)
            /\ UNCHANGED dropped
       ELSE dropped' = dropped \cup {h.msg.key} /\ UNCHANGED inbox
  /\ UNCHANGED <<tabVars, spawned, activeTokens, buckets, thisSecond, link, faults, tasks,
                 terminals, received, hastyKeys>>

\* The session ends or expires; the agent is not told.
endSession(s) ==
  /\ Fails /\ s \in activeTokens /\ activeTokens' = activeTokens \ {s}
  /\ buckets' = [buckets EXCEPT ![s] = NoBucket]
  /\ UNCHANGED <<tabVars, spawned, handlers, thisSecond, link, agentSideVars, dropped, hastyKeys>>

SecondPasses ==
  /\ \E s \in Sessions : buckets[s].made /\ (buckets[s].age < MaxAge \/ thisSecond[s] > 0)
  /\ buckets' = [s \in Sessions |->
       IF buckets[s].made THEN [buckets[s] EXCEPT !.age = Least(@ + 1, MaxAge)] ELSE NoBucket]
  /\ thisSecond' = [s \in Sessions |-> 0]
  /\ UNCHANGED <<tabVars, spawned, activeTokens, handlers, link, faults, agentSideVars, dropped, hastyKeys>>

-----------------------------------------------------------------------------
(* The agent.                                                              *)

run ==
  /\ inbox # <<>> /\ inbox' = Tail(inbox)
  /\ tasks' = tasks \cup {Head(inbox)}
  /\ UNCHANGED <<tabVars, serviceVars, link, faults, terminals, received, dropped, hastyKeys>>

(* handleMessage, in a goroutine of its own; the tasks are named for the    *)
(* messages.                                                                *)

Takes(t, kind) == t \in tasks /\ t.do = kind /\ tasks' = tasks \ {t}

spawnShell(session) == terminals' = [terminals EXCEPT ![session] = "running"]

spawn_shell(t) ==
  /\ Takes(t, "spawn") /\ spawnShell(t.session)
  /\ UNCHANGED <<tabVars, serviceVars, link, faults, inbox, received, dropped, hastyKeys>>

\* verifyHMAC: a message that took more than five minutes is dropped.
tooOld == Fails

Drops(t) == dropped' = dropped \cup {t.key} /\ UNCHANGED received

terminalStdin(session, t) ==
  IF terminals[session] = "running"
    THEN received' = [received EXCEPT ![session] = Append(@, t.key)] /\ UNCHANGED dropped
    ELSE Drops(t)

\* The session is the one of the envelope.
terminal_stdin(t) ==
  /\ Takes(t, "stdin")
  /\ \/ terminalStdin(t.session, t) /\ UNCHANGED faults
     \/ tooOld /\ Drops(t)
  /\ UNCHANGED <<tabVars, serviceVars, link, inbox, terminals, hastyKeys>>

\* terminalResize leaves the shell as it is.
terminal_resize(t) ==
  /\ Takes(t, "resize")
  /\ Drops(t)
  /\ UNCHANGED <<tabVars, serviceVars, link, faults, inbox, terminals, hastyKeys>>

\* The shell exits, or prints something when nobody is connected.
ShellEnds(s) ==
  /\ Fails /\ terminals[s] = "running" /\ terminals' = [terminals EXCEPT ![s] = "ended"]
  /\ UNCHANGED <<tabVars, serviceVars, link, inbox, tasks, received, dropped, hastyKeys>>

\* What was on its way to the agent is lost; its shells go on.
LinkLost ==
  /\ Fails /\ link # 0 /\ link' = 0 /\ inbox' = <<>>
  /\ dropped' = dropped \cup {inbox[i].key : i \in DOMAIN inbox}
  /\ UNCHANGED <<tabVars, serviceVars, tasks, terminals, received, hastyKeys>>

Reconnects ==
  /\ link = 0 /\ link' = faults + 1
  /\ UNCHANGED <<tabVars, serviceVars, faults, agentSideVars, dropped, hastyKeys>>

-----------------------------------------------------------------------------
AgentTerminalNext ==
  \/ terminal_session_created \/ onData \/ fitTerminal
  \/ \E s \in Sessions : handleSpawnTerminal(s) \/ endSession(s) \/ ShellEnds(s)
  \/ handleTerminalInput \/ handleTerminalResize \/ SecondPasses \/ run \/ LinkLost \/ Reconnects
  \/ \E h \in handlers : createSecureMessage(h)
  \/ \E t \in tasks : spawn_shell(t) \/ terminal_stdin(t) \/ terminal_resize(t)

AgentTerminalSpec == AgentTerminalInit /\ [][AgentTerminalNext]_agentTerminalVars

\* A shell gets only keys that were typed for its session, each once, and none
\* is lost without a reason; it gets them in the order they were typed as long
\* as each key was typed when the one before it had arrived; and in no second
\* does a session pass more than the limit and its burst.
KeysReachTheirShell ==
  /\ \A s \in Sessions :
       LET got == received[s]
       IN  /\ \A i \in DOMAIN got : typedFor[got[i]] = s
           /\ \A i, j \in DOMAIN got : i < j => got[i] # got[j] /\ (~hastyKeys => got[i] < got[j])
           /\ s \in activeTokens => thisSecond[s] <= RATE_LIMIT_TOKENS + RATE_LIMIT_BURST
  /\ Settled =>
       \A k \in DOMAIN typedFor :
         k \in dropped \/ \E i \in DOMAIN received[typedFor[k]] : received[typedFor[k]][i] = k

=============================================================================
