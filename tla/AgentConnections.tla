-------------------------- MODULE AgentConnections --------------------------
(***************************************************************************)
(* The server's side of the agents' connections                            *)
(* (server/src/connection/AgentConnectionManager.ts, ConnectionRegistry.ts)*)
(* with the status it stores, the copy of it in the state cache            *)
(* (server/src/lib/state-cache.ts) and the routes that create and delete   *)
(* machines.  A handler that awaits the database is in a stage; the        *)
(* database executes its operation in one step and the handler goes on in  *)
(* a later one, whatever other handlers did in between.                    *)
(***************************************************************************)
EXTENDS Naturals, FiniteSets

CONSTANTS
    Agents,      \* the agents, each with its secret key
    Sockets,     \* the connections they open
    Ids,         \* the ids of Machine rows
    Hosts,       \* what a row says of a machine: pairs of hostname and ip
    HostOf,      \* HostOf[a]: what agent a says of its own
    NoId, NoSocket, NoAgent,
    MaxMishaps,  \* bound: deletions of rows and crashes of the server
    MaxUnderWay  \* bound: handlers that await the database at the same time

ASSUME ConnectionAssumption ==
    /\ HostOf \in [Agents -> Hosts]
    /\ NoId \notin Ids /\ NoSocket \notin Sockets /\ NoAgent \notin Agents
    /\ {MaxMishaps, MaxUnderWay} \subseteq Nat

VARIABLES
    rowStatus,  \* Machine.status; "unused" before and "deleted" after the row
    key, host,  \* the agent whose secretKeyHash a row holds; its hostname and ip
    fresh,      \* the rows whose lastSeen is within STALE_THRESHOLD_MS
    cache,      \* the status in the state cache
    throttled,  \* the ids with heartbeatState.statusAt in the last interval
    registry,   \* machineConnections
    socket,     \* a connection; "lost": the peer is gone, no close event yet
    peer,       \* the agent that opened it
    claimed,    \* the variable machineId of a connection's handlers
    reg, beat,  \* the stage of its registration and of its heartbeat
    closing,    \* the stage of its close handler
    sweep,      \* the stale sweep: what it found, and the one it is at
    deleting,   \* deleted rows the cache has not forgotten yet
    knownId,    \* the agent's own machineId
    alone,      \* history: connections whose row no other one used with them
    mishapsLeft \* deletions and crashes that may still happen

serverMemory == <<throttled, registry, claimed, reg, beat, closing, sweep, deleting>>
identities == <<key, host, peer, knownId, alone>>
connectionVars == <<rowStatus, fresh, cache, serverMemory, socket, identities, mishapsLeft>>

Live(i) == rowStatus[i] \in {"offline", "online"}
Fresh(i) == i = CHOOSE k \in Ids : rowStatus[k] = "unused"  \* a new id, whichever
HoldKey(a) == {i \in Ids : Live(i) /\ key[i] = a}
RowsOf(a) == HoldKey(a) \cup {i \in Ids : Live(i) /\ host[i] = HostOf[a]}
Idle == [at |-> "idle", id |-> NoId]
Stage(at, i) == [at |-> at, id |-> i]
Registering(s) == reg[s].at \notin {"idle", "failed", "done"}
UnderWay ==
    Cardinality({s \in Sockets : Registering(s)}) + Cardinality({s \in Sockets : beat[s] # Idle})
    + Cardinality({s \in Sockets : closing[s] # Idle}) + Cardinality(deleting)
    + (IF sweep.now = Idle /\ sweep.todo = {} THEN 0 ELSE 1)
HandlersRoom == UnderWay < MaxUnderWay
Settled(s) == /\ socket[s] \in {"unused", "closed"}
              /\ ~ Registering(s) /\ beat[s] = Idle

(* The rows a connection or one of its handlers works for; taking one up    *)
(* ends the claim to be alone of those that share it.                       *)
Names(s) == {claimed[s], reg[s].id, beat[s].id} \ {NoId}
Sharing(s, i) == {o \in Sockets \ {s} : ~ Settled(o) /\ i \in Names(o)}
AloneAfter(s, i) == IF Sharing(s, i) = {} THEN alone ELSE alone \ (Sharing(s, i) \cup {s})

ConnectionInit ==
    /\ rowStatus = [i \in Ids |-> "unused"]
    /\ fresh = {} /\ throttled = {} /\ deleting = {} /\ alone = {}
    /\ cache = [i \in Ids |-> "absent"]
    /\ registry = [i \in Ids |-> NoSocket]
    /\ socket = [s \in Sockets |-> "unused"]
    /\ key \in [Ids -> {NoAgent}] /\ host \in [Ids -> Hosts]
    /\ peer \in [Sockets -> Agents]
    /\ claimed = [s \in Sockets |-> NoId]
    /\ reg = [s \in Sockets |-> Idle]
    /\ beat = [s \in Sockets |-> Idle]
    /\ closing = [s \in Sockets |-> Idle]
    /\ sweep = [todo |-> {}, now |-> Idle]
    /\ knownId = [a \in Agents |-> NoId]
    /\ mishapsLeft = MaxMishaps

-----------------------------------------------------------------------------
(* Registration                                                            *)

(* POST /api/register: a row with a new key, for an agent to be installed,  *)
(* and whatever hostname and ip the request says.                           *)
PreRegister(i, a, h) ==
    /\ rowStatus[i] = "unused" /\ Fresh(i) /\ \A k \in Ids : key[k] # a
    /\ \A s \in Sockets : socket[s] # "unused" => peer[s] # a
    /\ rowStatus' = [rowStatus EXCEPT ![i] = "offline"]
    /\ key' = [key EXCEPT ![i] = a]
    /\ host' = [host EXCEPT ![i] = h]
    /\ fresh' = fresh \cup {i}
    /\ UNCHANGED <<cache, serverMemory, socket, peer, knownId, alone, mishapsLeft>>

(* An agent has one connection; its first message is `register`.            *)
Connect(s) ==
    /\ socket[s] = "unused" /\ HandlersRoom
    /\ \A o \in Sockets : peer[o] = peer[s] => socket[o] # "open"
    /\ socket' = [socket EXCEPT ![s] = "open"]
    /\ reg' = [reg EXCEPT ![s] = Stage("find", NoId)]
    /\ alone' = alone \cup {s}
    /\ UNCHANGED <<rowStatus, fresh, cache, throttled, registry, claimed, beat, closing,
                   sweep, deleting, key, host, peer, knownId, mishapsLeft>>

(* findFirst by key, or by hostname and ip: any of the rows there are.      *)
RegistrationFound(s) ==
    /\ reg[s].at = "find"
    /\ \/ /\ RowsOf(peer[s]) = {}
          /\ reg' = [reg EXCEPT ![s] = Stage("create", NoId)]
          /\ UNCHANGED alone
       \/ \E i \in RowsOf(peer[s]) :
            /\ reg' = [reg EXCEPT ![s] = Stage("update", i)]
            /\ alone' = AloneAfter(s, i)
    /\ UNCHANGED <<rowStatus, fresh, cache, throttled, registry, claimed, beat, closing,
                   sweep, deleting, socket, key, host, peer, knownId, mishapsLeft>>

(* The row that is updated gets the agent's key, hostname and ip.  That     *)
(* fails when the row is gone, creating one does not; both fail when        *)
(* another row has the key, which is unique.                                *)
CanWrite(s, i) ==
    /\ HoldKey(peer[s]) \subseteq {i}
    /\ \/ reg[s] = Stage("update", i) /\ Live(i)
       \/ reg[s].at = "create" /\ rowStatus[i] = "unused" /\ Fresh(i)

RegistrationWritten(s) ==
    \/ \E i \in Ids :
          /\ CanWrite(s, i)
          /\ rowStatus' = [rowStatus EXCEPT ![i] = "online"]
          /\ key' = [key EXCEPT ![i] = peer[s]]
          /\ host' = [host EXCEPT ![i] = HostOf[peer[s]]]
          /\ fresh' = fresh \cup {i}
          /\ reg' = [reg EXCEPT ![s] = Stage("wrote", i)]
          /\ UNCHANGED <<cache, throttled, registry, claimed, beat, closing, sweep,
                         deleting, socket, peer, knownId, alone, mishapsLeft>>
    \/ /\ \/ reg[s].at = "update" /\ ~ CanWrite(s, reg[s].id)
          \/ reg[s].at = "create" /\ HoldKey(peer[s]) # {}
       /\ reg' = [reg EXCEPT ![s] = Stage("failed", NoId)]
       /\ UNCHANGED <<rowStatus, fresh, cache, throttled, registry, claimed, beat, closing,
                      sweep, deleting, socket, identities, mishapsLeft>>

(* upsertMachine, the answer to the agent, setMachine                       *)
RegistrationDone(s) ==
    LET i == reg[s].id
    IN  /\ reg[s].at = "wrote"
        /\ cache' = [cache EXCEPT ![i] = "online"]
        /\ claimed' = [claimed EXCEPT ![s] = i]
        /\ registry' = [registry EXCEPT ![i] = s]
        /\ reg' = [reg EXCEPT ![s] = Stage("done", i)]
        /\ knownId' = IF socket[s] = "open" THEN [knownId EXCEPT ![peer[s]] = i]
                                            ELSE knownId
        /\ UNCHANGED <<rowStatus, fresh, throttled, beat, closing, sweep, deleting, socket,
                       key, host, peer, alone, mishapsLeft>>

-----------------------------------------------------------------------------
(* Heartbeats                                                              *)

(* Whose heartbeat it is: the connection's machine, or, before the          *)
(* registration is done, the id the agent still has from an earlier one.    *)
BeatId(s) == IF claimed[s] # NoId THEN claimed[s] ELSE knownId[peer[s]]

(* setMachine, after the heartbeat of a connection that had no machineId;   *)
(* faulty: it is left to the registration.                                  *)
LeftToRegistration(s, i) == registry
EnteredByBeat(s, i) == [registry EXCEPT ![i] = s]

Heartbeat(s) ==
    LET i == BeatId(s)
        at == IF claimed[s] = NoId THEN "first" ELSE "later"
    IN  /\ socket[s] = "open" /\ beat[s] = Idle
        /\ i # NoId /\ HandlersRoom
        /\ claimed' = [claimed EXCEPT ![s] = i]
        /\ alone' = AloneAfter(s, i)
        /\ IF i \in throttled
           THEN /\ at = "first"
                /\ registry' = EnteredByBeat(s, i)
                /\ UNCHANGED beat
           ELSE /\ beat' = [beat EXCEPT ![s] = Stage(at, i)]
                /\ UNCHANGED registry
        /\ UNCHANGED <<rowStatus, fresh, cache, throttled, reg, closing, sweep, deleting,
                       socket, key, host, peer, knownId, mishapsLeft>>

(* machine.update; it throws when the row is gone, which is caught.         *)
BeatWritten(s) ==
    LET i == beat[s].id
        first == beat[s].at = "first"
    IN  /\ beat[s].at \in {"first", "later"}
        /\ IF Live(i)
           THEN /\ rowStatus' = [rowStatus EXCEPT ![i] = "online"]
                /\ fresh' = fresh \cup {i}
                /\ beat' = [beat EXCEPT ![s] = Stage(IF first THEN "firstWrote" ELSE "laterWrote", i)]
                /\ UNCHANGED registry
           ELSE /\ beat' = [beat EXCEPT ![s] = Idle]
                /\ registry' = IF first THEN EnteredByBeat(s, i) ELSE registry
                /\ UNCHANGED <<rowStatus, fresh>>
        /\ UNCHANGED <<cache, throttled, claimed, reg, closing, sweep, deleting,
                       socket, identities, mishapsLeft>>

(* updateMachineStatus; faulty: a machine once offline stays so.            *)
OnlyOffline(i, st) == IF st = "offline" THEN [cache EXCEPT ![i] = st] ELSE cache
CacheStatus(i, st) == IF cache[i] = "absent" THEN cache ELSE [cache EXCEPT ![i] = st]

(* updateMachineStatus, statusAt; then setMachine after a first heartbeat   *)
BeatDone(s) ==
    LET i == beat[s].id
    IN  /\ beat[s].at \in {"firstWrote", "laterWrote"}
        /\ cache' = CacheStatus(i, "online")
        /\ throttled' = throttled \cup {i}
        /\ registry' = IF beat[s].at = "firstWrote" THEN EnteredByBeat(s, i) ELSE registry
        /\ beat' = [beat EXCEPT ![s] = Idle]
        /\ UNCHANGED <<rowStatus, fresh, claimed, reg, closing, sweep, deleting, socket,
                       identities, mishapsLeft>>

(* HEARTBEAT_STATUS_INTERVAL_MS is over, then STALE_THRESHOLD_MS is.        *)
TimePasses(i) ==
    \/ /\ i \in throttled
       /\ throttled' = throttled \ {i}
       /\ UNCHANGED fresh
    \/ /\ i \in fresh \ throttled
       /\ fresh' = fresh \ {i}
       /\ UNCHANGED throttled

Age(i) ==
    /\ TimePasses(i)
    /\ UNCHANGED <<rowStatus, cache, registry, claimed, reg, beat, closing, sweep, deleting,
                   socket, identities, mishapsLeft>>

-----------------------------------------------------------------------------
(* Closed and lost connections, the stale sweep                            *)

Lose(s) ==
    /\ socket[s] = "open"
    /\ socket' = [socket EXCEPT ![s] = "lost"]
    /\ UNCHANGED <<rowStatus, fresh, cache, serverMemory, identities, mishapsLeft>>

(* The close handler removes the entry of its machine, whoever's it is.     *)
ConnectionClosed(s) ==
    LET i == claimed[s]
    IN  /\ socket[s] \in {"open", "lost"} /\ HandlersRoom
        /\ socket' = [socket EXCEPT ![s] = "closed"]
        /\ IF i = NoId THEN UNCHANGED <<registry, closing>>
           ELSE /\ registry' = [registry EXCEPT ![i] = NoSocket]
                /\ closing' = [closing EXCEPT ![s] = Stage("write", i)]
        /\ UNCHANGED <<rowStatus, fresh, cache, throttled, claimed, reg, beat, sweep,
                       deleting, identities, mishapsLeft>>

CloseWritten(s) ==
    LET i == closing[s].id
    IN  /\ closing[s].at = "write"
        /\ rowStatus' = IF Live(i) THEN [rowStatus EXCEPT ![i] = "offline"] ELSE rowStatus
        /\ closing' = [closing EXCEPT ![s] = IF Live(i) THEN Stage("wrote", i) ELSE Idle]
        /\ UNCHANGED <<fresh, cache, throttled, registry, claimed, reg, beat, sweep,
                       deleting, socket, identities, mishapsLeft>>

CloseDone(s) ==
    /\ closing[s].at = "wrote"
    /\ cache' = CacheStatus(closing[s].id, "offline")
    /\ closing' = [closing EXCEPT ![s] = Idle]
    /\ UNCHANGED <<rowStatus, fresh, throttled, registry, claimed, reg, beat, sweep, deleting,
                   socket, identities, mishapsLeft>>

(* What the sweep looks for; faulty: only machines with a registry entry.   *)
StaleAndRegistered(i) == rowStatus[i] = "online" /\ i \notin fresh /\ registry[i] # NoSocket
Stale(i) == rowStatus[i] = "online" /\ i \notin fresh

SweepReads ==
    /\ sweep.todo = {} /\ sweep.now = Idle /\ HandlersRoom
    /\ \E i \in Ids : Stale(i)
    /\ sweep' = [sweep EXCEPT !.todo = {i \in Ids : Stale(i)}]
    /\ UNCHANGED <<rowStatus, fresh, cache, throttled, registry, claimed, reg, beat, closing,
                   deleting, socket, identities, mishapsLeft>>

(* One machine after the other; a row that is gone ends the sweep.          *)
SweepWrites(i) ==
    /\ i \in sweep.todo /\ sweep.now = Idle
    /\ IF Live(i)
       THEN /\ rowStatus' = [rowStatus EXCEPT ![i] = "offline"]
            /\ sweep' = [todo |-> sweep.todo \ {i}, now |-> Stage("wrote", i)]
       ELSE /\ sweep' = [todo |-> {}, now |-> Idle]
            /\ UNCHANGED rowStatus
    /\ UNCHANGED <<fresh, cache, throttled, registry, claimed, reg, beat, closing,
                   deleting, socket, identities, mishapsLeft>>

SweepMarked ==
    /\ sweep.now # Idle
    /\ cache' = CacheStatus(sweep.now.id, "offline")
    /\ sweep' = [sweep EXCEPT !.now = Idle]
    /\ UNCHANGED <<rowStatus, fresh, throttled, registry, claimed, reg, beat, closing,
                   deleting, socket, identities, mishapsLeft>>

-----------------------------------------------------------------------------
(* Deletion and restart                                                    *)

Delete(i) ==
    /\ Live(i) /\ mishapsLeft > 0 /\ HandlersRoom
    /\ mishapsLeft' = mishapsLeft - 1
    /\ rowStatus' = [rowStatus EXCEPT ![i] = "deleted"]
    /\ key' = [key EXCEPT ![i] = NoAgent]
    /\ fresh' = fresh \ {i}
    /\ deleting' = deleting \cup {i}
    /\ UNCHANGED <<cache, throttled, registry, claimed, reg, beat, closing, sweep,
                   socket, host, peer, knownId, alone>>

DeleteDone(i) ==
    /\ i \in deleting
    /\ cache' = [cache EXCEPT ![i] = "absent"]
    /\ deleting' = deleting \ {i}
    /\ UNCHANGED <<rowStatus, fresh, throttled, registry, claimed, reg, beat, closing, sweep,
                   socket, identities, mishapsLeft>>

(* What warmCache reads.                                                    *)
WarmCache == [i \in Ids |-> IF Live(i) THEN rowStatus[i] ELSE "absent"]

(* The server process restarts.                                             *)
ServerCrashes ==
    /\ mishapsLeft > 0
    /\ mishapsLeft' = mishapsLeft - 1
    /\ cache' = WarmCache
    /\ throttled' = {} /\ deleting' = {}
    /\ registry' = [i \in Ids |-> NoSocket]
    /\ socket' = [s \in Sockets |-> IF socket[s] = "unused" THEN "unused" ELSE "closed"]
    /\ claimed' = [s \in Sockets |-> NoId]
    /\ reg' = [s \in Sockets |-> Idle]
    /\ beat' = [s \in Sockets |-> Idle]
    /\ closing' = [s \in Sockets |-> Idle]
    /\ sweep' = [todo |-> {}, now |-> Idle]
    /\ UNCHANGED <<rowStatus, fresh, identities>>

-----------------------------------------------------------------------------
RegistrationGoesOn(s) ==
    RegistrationFound(s) \/ RegistrationWritten(s) \/ RegistrationDone(s)
HeartbeatGoesOn(s) == BeatWritten(s) \/ BeatDone(s)
CloseGoesOn(s) == CloseWritten(s) \/ CloseDone(s)
Sweep == SweepReads \/ SweepMarked \/ \E i \in Ids : SweepWrites(i)

ConnectionNext ==
    \/ \E s \in Sockets : \/ Connect(s) \/ RegistrationGoesOn(s)
                          \/ Lose(s) \/ ConnectionClosed(s)
                          \/ Heartbeat(s) \/ HeartbeatGoesOn(s) \/ CloseGoesOn(s)
    \/ \E i \in Ids, a \in Agents, h \in Hosts : PreRegister(i, a, h)
    \/ \E i \in Ids : Age(i) \/ Delete(i) \/ DeleteDone(i)
    \/ Sweep
    \/ ServerCrashes

ConnectionSpec == ConnectionInit /\ [][ConnectionNext]_connectionVars

(* The event loop resumes every handler, intervals pass, the sweep runs     *)
(* every 15 s, and an agent with an open connection sends heartbeats.       *)
ConnectionFairness ==
    /\ WF_connectionVars(Sweep)
    /\ \A i \in Ids : WF_connectionVars(Age(i)) /\ WF_connectionVars(DeleteDone(i))
    /\ \A s \in Sockets :
          /\ WF_connectionVars(RegistrationGoesOn(s)) /\ WF_connectionVars(CloseGoesOn(s))
          /\ SF_connectionVars(Heartbeat(s)) /\ WF_connectionVars(HeartbeatGoesOn(s))
ConnectionFairSpec == ConnectionSpec /\ ConnectionFairness

-----------------------------------------------------------------------------
(* What GET /api/machines/[id] answers, and what GET /api/machines lists.   *)
ShownStatus(i) == IF cache[i] = "absent" /\ Live(i) THEN rowStatus[i] ELSE cache[i]

(* A connected agent is reachable: the registry leads to its connection     *)
(* once the connection knows its machine and none of its first messages is  *)
(* being handled, whatever was deleted, swept, crashed or closed before.    *)
(* What may take the entry from it is another connection that uses the row  *)
(* at the same time: an older one of its own, whose close is noticed late,  *)
(* or one of another agent that says the same hostname and ip.              *)
ConnectedIsReachable ==
    \A s \in alone :
        (/\ socket[s] = "open" /\ claimed[s] # NoId
         /\ reg[s].at \in {"done", "failed"}
         /\ beat[s].at \notin {"first", "firstWrote"})
        => registry[claimed[s]] = s

(* A machine that no open connection is for ends up offline, whether the    *)
(* close was noticed or not, came before the registration was done, or was  *)
(* missed in a crash of the server.                                         *)
GoneIsOffline ==
    \A i \in Ids :
        <>[](\A s \in Sockets : claimed[s] = i => socket[s] # "open")
        => []<>(rowStatus[i] # "online")

(* A machine whose agent stays connected is shown online again and again,   *)
(* although sweeps that had read its row before a heartbeat and closes of   *)
(* older connections mark it offline in row and cache.                      *)
LiveIsOnline ==
    \A s \in Sockets, i \in Ids :
        <>[](socket[s] = "open" /\ claimed[s] = i /\ Live(i))
        => []<>(rowStatus[i] = "online") /\ []<>(ShownStatus(i) = "online")

=============================================================================
