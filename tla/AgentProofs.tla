----------------------------- MODULE AgentProofs -----------------------------
(***************************************************************************)
(* Proofs about agents and their connections, for all agents, connections, *)
(* commands and bounds: a connected agent stays reachable                  *)
(* (AgentConnections), the answer of a command is the last that is said of *)
(* it (AgentRuntime), the server is sent an address at most once an hour   *)
(* (AgentMonitor).                                                         *)
(***************************************************************************)
EXTENDS AgentConnections, AgentRuntime, AgentMonitor, Integers, FiniteSetTheorems, TLAPS

-----------------------------------------------------------------------------
(* Connections.                                                            *)

Places == {"idle", "find", "create", "update", "wrote", "failed", "done",
           "first", "later", "firstWrote", "laterWrote"}
Stages == [at : Places, id : Ids \cup {NoId}]

ConnectionTypes ==
    /\ rowStatus \in [Ids -> {"unused", "offline", "online", "deleted"}]
    /\ registry \in [Ids -> Sockets \cup {NoSocket}]
    /\ socket \in [Sockets -> {"unused", "open", "lost", "closed"}]
    /\ peer \in [Sockets -> Agents]
    /\ claimed \in [Sockets -> Ids \cup {NoId}]
    /\ reg \in [Sockets -> Stages] /\ beat \in [Sockets -> Stages]
    /\ knownId \in [Agents -> Ids \cup {NoId}]
    /\ alone \subseteq Sockets

(* What an agent, its connections and their handlers name is a row there is *)
(* or was: a row that is created is new to all of them.                     *)
NamesAreRows ==
    /\ \A s \in Sockets :
          /\ \A i \in Names(s) : rowStatus[i] # "unused"
          /\ reg[s].at \in {"update", "wrote"} => reg[s].id \in Ids
          /\ beat[s] # Idle => beat[s].id \in Ids
    /\ \A a \in Agents : knownId[a] \in Ids => rowStatus[knownId[a]] # "unused"

UnusedIsNew ==
    \A s \in Sockets : socket[s] = "unused" =>
        claimed[s] = NoId /\ reg[s].at = "idle" /\ beat[s] = Idle /\ s \notin alone

(* While a connection that is alone is open, no other one of which          *)
(* something is under way names a row that it names.                        *)
NotShared ==
    \A s \in alone : socket[s] = "open" =>
        \A o \in Sockets : o # s /\ ~ Settled(o) => Names(o) \cap Names(s) = {}

(* Its entry is there, or its first heartbeat is about to make it.          *)
EnteredOrAboutTo(s) ==
    \/ registry[claimed[s]] = s
    \/ beat[s].at \in {"first", "firstWrote"} /\ beat[s].id = claimed[s]
EntryKept ==
    \A s \in alone : socket[s] = "open" /\ claimed[s] # NoId => EnteredOrAboutTo(s)

ReachInv == ConnectionTypes /\ NamesAreRows /\ UnusedIsNew /\ NotShared /\ EntryKept

-----------------------------------------------------------------------------
LEMMA ReachInvInit == ConnectionInit => ReachInv
<1> SUFFICES ASSUME ConnectionInit PROVE ReachInv
    OBVIOUS
<1>1. Idle \in Stages /\ Idle.id = NoId /\ Idle.at = "idle"
    BY DEF Idle, Stages, Places
<1>2. ConnectionTypes
    BY <1>1 DEF ConnectionInit, ConnectionTypes
<1>3. NamesAreRows
    BY <1>1, ConnectionAssumption DEF ConnectionInit, NamesAreRows, Names
<1> QED
    BY <1>1, <1>2, <1>3 DEF ConnectionInit, ReachInv, UnusedIsNew, NotShared, EntryKept

(* A step that leaves the connections and the registry alone, and makes no  *)
(* row unused.                                                              *)
LEMMA UntouchedKeeps ==
    ASSUME ReachInv, UNCHANGED <<registry, socket, peer, claimed, reg, beat, knownId, alone>>,
           rowStatus' \in [Ids -> {"unused", "offline", "online", "deleted"}],
           \A i \in Ids : rowStatus[i] # "unused" => rowStatus'[i] # "unused"
    PROVE  ReachInv'
<1>1. \A s \in Sockets : Names(s)' = Names(s) /\ Names(s) \subseteq Ids
    BY DEF ReachInv, ConnectionTypes, Names, Stages
<1>2. ConnectionTypes'
    BY DEF ReachInv, ConnectionTypes
<1>3. NamesAreRows'
    BY <1>1 DEF ReachInv, NamesAreRows
<1>4. UnusedIsNew' /\ EntryKept'
    BY DEF ReachInv, UnusedIsNew, EntryKept, EnteredOrAboutTo
<1>5. NotShared'
    <2>1. \A s \in Sockets : Settled(s)' <=> Settled(s)
        BY DEF Settled, Registering
    <2> SUFFICES ASSUME NEW s \in alone, socket[s] = "open", NEW o \in Sockets, o # s, ~ Settled(o)
                 PROVE  Names(o)' \cap Names(s)' = {}
        BY <2>1 DEF NotShared
    <2>2. Names(o) \cap Names(s) = {} /\ s \in Sockets
        BY DEF ReachInv, NotShared, ConnectionTypes
    <2> QED
        BY <1>1, <2>2
<1> QED
    BY <1>2, <1>3, <1>4, <1>5 DEF ReachInv

(* A connection of which something is under way may change the entries of   *)
(* the rows it names, and name others, if those that name them already are  *)
(* not alone afterwards, nor is it: other connections do not notice.        *)
LEMMA BusyKeeps ==
    ASSUME ReachInv, NEW s \in Sockets, ~ Settled(s),
           ConnectionTypes', NamesAreRows', UnusedIsNew', alone' \subseteq alone,
           \A j \in Ids : j \notin Names(s) \cup Names(s)' => registry'[j] = registry[j],
           \A j \in Names(s)' : j \in Names(s) \/
               \A o \in Sockets :
                   o # s /\ ~ Settled(o) /\ j \in Names(o) => o \notin alone' /\ s \notin alone',
           \A o \in Sockets : o # s =>
               /\ socket'[o] = socket[o] /\ claimed'[o] = claimed[o]
               /\ reg'[o] = reg[o] /\ beat'[o] = beat[o],
           socket'[s] = "open" => socket[s] = "open",
           s \in alone' /\ socket'[s] = "open" /\ claimed'[s] # NoId => EnteredOrAboutTo(s)'
    PROVE  ReachInv'
<1> DEFINE new == Names(s)' \ Names(s)
<1>1. \A o \in Sockets : o # s => Names(o)' = Names(o) /\ (Settled(o)' <=> Settled(o))
    BY DEF Names, Settled, Registering
<1>2. \A o \in Sockets : socket[o] = "open" => ~ Settled(o)
    BY DEF Settled
<1>3. \A t \in alone' : t # s /\ socket[t] = "open" => Names(t) \cap (Names(s) \cup new) = {}
    <2> SUFFICES ASSUME NEW t \in alone', t # s, socket[t] = "open",
                        NEW j \in Names(t), j \in Names(s) \cup new
                 PROVE  FALSE
        OBVIOUS
    <2>1. t \in Sockets /\ t \in alone /\ ~ Settled(t)
        BY <1>2 DEF ReachInv, ConnectionTypes
    <2>2. j \notin Names(s)
        BY <2>1 DEF ReachInv, NotShared
    <2> QED
        BY <2>1, <2>2
<1>4. NotShared'
    <2> SUFFICES ASSUME NEW t \in alone', socket'[t] = "open",
                        NEW o \in Sockets, o # t, ~ Settled(o)'
                 PROVE  Names(o)' \cap Names(t)' = {}
        BY DEF NotShared
    <2>1. t \in Sockets /\ t \in alone /\ socket[t] = "open"
        BY DEF ReachInv, ConnectionTypes
    <2>2. CASE t = s
        <3>1. ~ Settled(o) /\ Names(o)' = Names(o)
            BY <1>1, <2>2
        <3>2. Names(o) \cap Names(s) = {}
            BY <2>1, <2>2, <3>1 DEF ReachInv, NotShared
        <3>3. Names(o) \cap new = {}
            BY <2>2, <3>1
        <3> QED
            BY <2>2, <3>1, <3>2, <3>3
    <2>3. CASE t # s /\ o = s
        BY <1>1, <1>3, <2>1, <2>3
    <2>4. CASE t # s /\ o # s
        <3>1. ~ Settled(o) /\ Names(o)' = Names(o) /\ Names(t)' = Names(t)
            BY <1>1, <2>1, <2>4
        <3> QED
            BY <2>1, <3>1 DEF ReachInv, NotShared
    <2> QED
        BY <2>2, <2>3, <2>4
<1>5. EntryKept'
    <2> SUFFICES ASSUME NEW t \in alone', socket'[t] = "open", claimed'[t] # NoId
                 PROVE  EnteredOrAboutTo(t)'
        BY DEF EntryKept
    <2>1. CASE t = s
        BY <2>1
    <2>2. CASE t # s
        <3>1. t \in Sockets /\ t \in alone /\ socket[t] = "open" /\ claimed[t] # NoId
            BY <2>2 DEF ReachInv, ConnectionTypes
        <3>2. claimed[t] \in Ids /\ claimed[t] \in Names(t)
            BY <3>1 DEF ReachInv, ConnectionTypes, Names
        <3>3. claimed[t] \notin Names(s) \cup new
            BY <1>3, <2>2, <3>1, <3>2
        <3>4. registry'[claimed[t]] = registry[claimed[t]]
            BY <3>2, <3>3
        <3>5. EnteredOrAboutTo(t)
            BY <3>1 DEF ReachInv, EntryKept
        <3> QED
            BY <2>2, <3>1, <3>4, <3>5 DEF EnteredOrAboutTo
    <2> QED
        BY <2>1, <2>2
<1> QED
    BY <1>4, <1>5 DEF ReachInv

-----------------------------------------------------------------------------
LEMMA ConnectKeeps ==
    ASSUME ReachInv, NEW s \in Sockets, Connect(s)
    PROVE  ReachInv'
<1>1. /\ socket[s] = "unused" /\ socket' = [socket EXCEPT ![s] = "open"]
      /\ reg' = [reg EXCEPT ![s] = Stage("find", NoId)] /\ alone' = alone \cup {s}
      /\ UNCHANGED <<rowStatus, registry, claimed, beat, peer, knownId>>
    BY DEF Connect
<1>2. claimed[s] = NoId /\ beat[s] = Idle
    BY <1>1 DEF ReachInv, UnusedIsNew
<1>3. ConnectionTypes'
    BY <1>1 DEF ReachInv, ConnectionTypes, Stages, Places, Stage
<1>4. reg'[s] = Stage("find", NoId) /\ \A o \in Sockets : o # s => reg'[o] = reg[o]
    BY <1>1 DEF ReachInv, ConnectionTypes
<1>5. Names(s)' = {} /\ \A o \in Sockets : o # s => Names(o)' = Names(o)
    BY <1>1, <1>2, <1>4 DEF Names, Stage, Idle
<1>6. NamesAreRows'
    BY <1>1, <1>4, <1>5 DEF ReachInv, NamesAreRows, Stage
<1>7. UnusedIsNew'
    BY <1>1, <1>4 DEF ReachInv, UnusedIsNew, ConnectionTypes
<1>8. NotShared'
    <2> SUFFICES ASSUME NEW t \in alone', socket'[t] = "open",
                        NEW o \in Sockets, o # t, ~ Settled(o)'
                 PROVE  Names(o)' \cap Names(t)' = {}
        BY DEF NotShared
    <2>1. CASE t = s \/ o = s
        BY <1>5, <2>1
    <2>2. CASE t # s /\ o # s
        <3>1. t \in alone /\ t \in Sockets /\ socket[t] = "open" /\ ~ Settled(o)
            BY <1>1, <1>4, <2>2 DEF ReachInv, ConnectionTypes, Settled, Registering
        <3> QED
            BY <1>5, <2>2, <3>1 DEF ReachInv, NotShared
    <2> QED
        BY <2>1, <2>2
<1>9. EntryKept'
    BY <1>1, <1>2 DEF ReachInv, EntryKept, EnteredOrAboutTo, ConnectionTypes
<1> QED
    BY <1>3, <1>6, <1>7, <1>8, <1>9 DEF ReachInv

LEMMA SharersAreNotAlone ==
    ASSUME NEW s \in Sockets, NEW i \in Ids, alone' = AloneAfter(s, i)
    PROVE  /\ alone' \subseteq alone
           /\ \A o \in Sockets : o # s /\ ~ Settled(o) /\ i \in Names(o) => o \notin alone' /\ s \notin alone'
BY DEF AloneAfter, Sharing

(* Finding and writing the row: the connection's registration is under way, *)
(* its entry stays as it is.                                                *)
LEMMA RegistrationMovesOn ==
    ASSUME ReachInv, NEW s \in Sockets, Registering(s), NEW r \in Stages,
           reg' = [reg EXCEPT ![s] = r], alone' \subseteq alone,
           r.at \in {"update", "wrote"} => r.id \in Ids,
           r.id \in Ids => rowStatus'[r.id] # "unused",
           \/ r.id \in Names(s) \cup {NoId}
           \/ \A o \in Sockets :
                 o # s /\ ~ Settled(o) /\ r.id \in Names(o) => o \notin alone' /\ s \notin alone',
           rowStatus' \in [Ids -> {"unused", "offline", "online", "deleted"}],
           \A i \in Ids : rowStatus[i] # "unused" => rowStatus'[i] # "unused",
           UNCHANGED <<registry, socket, peer, claimed, beat, knownId>>
    PROVE  ReachInv'
<1>1. reg'[s] = r /\ \A o \in Sockets : o # s => reg'[o] = reg[o]
    BY DEF ReachInv, ConnectionTypes
<1>2. /\ Names(s)' \subseteq Names(s) \cup ({r.id} \ {NoId})
      /\ \A o \in Sockets : Names(o) \subseteq Ids /\ (o # s => Names(o)' = Names(o))
    BY <1>1 DEF ReachInv, ConnectionTypes, Names, Stages
<1>3. ConnectionTypes'
    BY DEF ReachInv, ConnectionTypes
<1>4. r.id \in Ids \cup {NoId}
    BY DEF Stages
<1>5. NamesAreRows'
    <2>1. \A o \in Sockets : \A i \in Names(o)' : i \in Ids /\ rowStatus'[i] # "unused"
        BY <1>2, <1>4 DEF ReachInv, NamesAreRows
    <2> QED
        BY <1>1, <2>1 DEF ReachInv, NamesAreRows, ConnectionTypes
<1>6. UnusedIsNew' /\ ~ Settled(s)
    BY <1>1 DEF ReachInv, UnusedIsNew, Registering, Settled
<1>7. s \in alone' /\ socket'[s] = "open" /\ claimed'[s] # NoId => EnteredOrAboutTo(s)'
    BY DEF ReachInv, EntryKept, EnteredOrAboutTo
<1>8. \A j \in Names(s)' : j \in Names(s) \/
         \A o \in Sockets :
             o # s /\ ~ Settled(o) /\ j \in Names(o) => o \notin alone' /\ s \notin alone'
    BY <1>2
<1>9. \A o \in Sockets : o # s => /\ socket'[o] = socket[o] /\ claimed'[o] = claimed[o]
                                   /\ reg'[o] = reg[o] /\ beat'[o] = beat[o]
    BY <1>1
<1> QED
    BY <1>3, <1>5, <1>6, <1>7, <1>8, <1>9, BusyKeeps

LEMMA RegistrationFoundKeeps ==
    ASSUME ReachInv, NEW s \in Sockets, RegistrationFound(s)
    PROVE  ReachInv'
<1>1. /\ UNCHANGED <<rowStatus, registry, socket, peer, claimed, beat, knownId>>
      /\ Registering(s)
    BY DEF RegistrationFound, Registering
<1>2. CASE reg' = [reg EXCEPT ![s] = Stage("create", NoId)] /\ UNCHANGED alone
    <2>1. /\ Stage("create", NoId) \in Stages /\ Stage("create", NoId).id = NoId
          /\ Stage("create", NoId).at = "create"
        BY DEF Stage, Stages, Places
    <2>2. rowStatus' \in [Ids -> {"unused", "offline", "online", "deleted"}]
        BY <1>1 DEF ReachInv, ConnectionTypes
    <2> QED
        BY <1>1, <1>2, <2>1, <2>2, RegistrationMovesOn, ConnectionAssumption
<1>3. ASSUME NEW i \in RowsOf(peer[s]), reg' = [reg EXCEPT ![s] = Stage("update", i)],
             alone' = AloneAfter(s, i)
      PROVE  ReachInv'
    <2>1. i \in Ids /\ rowStatus[i] # "unused"
        BY DEF RowsOf, HoldKey, Live
    <2>2. /\ Stage("update", i) \in Stages /\ Stage("update", i).id = i
          /\ rowStatus' \in [Ids -> {"unused", "offline", "online", "deleted"}]
        BY <1>1, <2>1 DEF Stage, Stages, Places, ReachInv, ConnectionTypes
    <2>3. /\ alone' \subseteq alone
          /\ \A o \in Sockets : o # s /\ ~ Settled(o) /\ i \in Names(o) => o \notin alone' /\ s \notin alone'
        BY <1>3, <2>1, SharersAreNotAlone
    <2> QED
        BY <1>1, <1>3, <2>1, <2>2, <2>3, RegistrationMovesOn
<1> QED
    BY <1>2, <1>3 DEF RegistrationFound

LEMMA RegistrationWrittenKeeps ==
    ASSUME ReachInv, NEW s \in Sockets, RegistrationWritten(s)
    PROVE  ReachInv'
<1>1. UNCHANGED <<registry, socket, peer, claimed, beat, knownId, alone>>
    BY DEF RegistrationWritten, identities
<1>2. Registering(s)
    <2>1. \A i \in Ids : Stage("update", i).at = "update"
        BY DEF Stage
    <2>2. reg[s].at \in {"update", "create"}
        BY <2>1 DEF RegistrationWritten, CanWrite
    <2> QED
        BY <2>2 DEF Registering
<1>3. ASSUME NEW i \in Ids, CanWrite(s, i), rowStatus' = [rowStatus EXCEPT ![i] = "online"],
             reg' = [reg EXCEPT ![s] = Stage("wrote", i)]
      PROVE  ReachInv'
    <2>1. Stage("wrote", i) \in Stages /\ Stage("wrote", i).id = i
        BY DEF Stages, Places, Stage
    <2>2. /\ rowStatus' \in [Ids -> {"unused", "offline", "online", "deleted"}]
          /\ rowStatus'[i] = "online" /\ \A j \in Ids : j # i => rowStatus'[j] = rowStatus[j]
        BY <1>3 DEF ReachInv, ConnectionTypes
    <2>3. CASE reg[s] = Stage("update", i)
        <3>1. i \in Names(s)
            BY <2>3, ConnectionAssumption DEF Names, Stage
        <3> QED
            BY <1>1, <1>2, <1>3, <2>1, <2>2, <3>1, RegistrationMovesOn
    <2>4. CASE rowStatus[i] = "unused"
        <3>1. \A o \in Sockets : i \notin Names(o)
            BY <2>4 DEF ReachInv, NamesAreRows
        <3> QED
            BY <1>1, <1>2, <1>3, <2>1, <2>2, <3>1, RegistrationMovesOn
    <2> QED
        BY <1>3, <2>3, <2>4 DEF CanWrite
<1>4. ASSUME reg' = [reg EXCEPT ![s] = Stage("failed", NoId)], UNCHANGED rowStatus
      PROVE  ReachInv'
    <2>1. /\ Stage("failed", NoId) \in Stages /\ Stage("failed", NoId).id = NoId
          /\ Stage("failed", NoId).at = "failed"
        BY DEF Stages, Places, Stage
    <2>2. rowStatus' \in [Ids -> {"unused", "offline", "online", "deleted"}]
        BY <1>4 DEF ReachInv, ConnectionTypes
    <2> QED
        BY <1>1, <1>2, <1>4, <2>1, <2>2, RegistrationMovesOn, ConnectionAssumption
<1> QED
    BY <1>3, <1>4 DEF RegistrationWritten

LEMMA RegistrationDoneKeeps ==
    ASSUME ReachInv, NEW s \in Sockets, RegistrationDone(s)
    PROVE  ReachInv'
<1> DEFINE i == reg[s].id
<1>1. i \in Ids /\ i # NoId /\ peer[s] \in Agents
    BY ConnectionAssumption DEF RegistrationDone, ReachInv, NamesAreRows, ConnectionTypes
<1>2. i \in Names(s) /\ rowStatus[i] # "unused"
    BY <1>1 DEF Names, ReachInv, NamesAreRows
<1>3. /\ claimed' = [claimed EXCEPT ![s] = i]
      /\ registry' = [registry EXCEPT ![i] = s]
      /\ reg' = [reg EXCEPT ![s] = Stage("done", i)]
      /\ knownId' \in {knownId, [knownId EXCEPT ![peer[s]] = i]}
      /\ UNCHANGED <<rowStatus, beat, socket, peer, alone>>
    BY DEF RegistrationDone
<1>4. ~ Settled(s)
    BY DEF Settled, Registering, RegistrationDone
<1>5. Stage("done", i) \in Stages /\ Stage("done", i).id = i /\ Stage("done", i).at = "done"
    BY <1>1 DEF Stage, Stages, Places
<1> HIDE DEF i
<1>6. ConnectionTypes'
    BY <1>1, <1>3, <1>5 DEF ReachInv, ConnectionTypes
<1>7. /\ claimed'[s] = i /\ reg'[s] = Stage("done", i) /\ registry'[i] = s
      /\ \A o \in Sockets : o # s => claimed'[o] = claimed[o] /\ reg'[o] = reg[o]
      /\ \A j \in Ids : j # i => registry'[j] = registry[j]
    BY <1>1, <1>3 DEF ReachInv, ConnectionTypes
<1>8. /\ Names(s)' \subseteq Names(s)
      /\ \A o \in Sockets : o # s => Names(o)' = Names(o)
    BY <1>2, <1>3, <1>5, <1>7 DEF Names
<1>0. EnteredOrAboutTo(s)'
    BY <1>7 DEF EnteredOrAboutTo
<1>9. NamesAreRows'
    <2>1. \A a \in Agents : knownId'[a] \in {knownId[a], i}
        BY <1>1, <1>3 DEF ReachInv, ConnectionTypes
    <2> QED
        BY <1>2, <1>3, <1>5, <1>7, <1>8, <2>1 DEF ReachInv, NamesAreRows
<1>10. UnusedIsNew'
    BY <1>3, <1>7 DEF ReachInv, UnusedIsNew, RegistrationDone
<1> QED
    BY <1>0, <1>2, <1>3, <1>4, <1>6, <1>7, <1>8, <1>9, <1>10, BusyKeeps

-----------------------------------------------------------------------------
(* A heartbeat takes its row from the connection or from what the agent     *)
(* remembers; the first one of a connection is about to make the entry.     *)
LEMMA HeartbeatKeeps ==
    ASSUME ReachInv, NEW s \in Sockets, Heartbeat(s)
    PROVE  ReachInv'
<1> DEFINE i == BeatId(s)
           at == IF claimed[s] = NoId THEN "first" ELSE "later"
<1>1. i \in Ids /\ i # NoId /\ rowStatus[i] # "unused"
    <2>1. i # NoId /\ peer[s] \in Agents
        BY DEF Heartbeat, ReachInv, ConnectionTypes
    <2>2. CASE claimed[s] # NoId
        BY <2>1, <2>2 DEF BeatId, ReachInv, ConnectionTypes, NamesAreRows, Names
    <2>3. CASE claimed[s] = NoId
        BY <2>1, <2>3 DEF BeatId, ReachInv, ConnectionTypes, NamesAreRows
    <2> QED
        BY <2>2, <2>3
<1>2. /\ socket[s] = "open" /\ beat[s] = Idle
      /\ claimed' = [claimed EXCEPT ![s] = i]
      /\ alone' = AloneAfter(s, i)
      /\ \/ at = "first" /\ registry' = [registry EXCEPT ![i] = s] /\ UNCHANGED beat
         \/ beat' = [beat EXCEPT ![s] = Stage(at, i)] /\ UNCHANGED registry
      /\ UNCHANGED <<rowStatus, reg, socket, peer, knownId>>
    BY DEF Heartbeat, EnteredByBeat
<1>3. claimed[s] # NoId => claimed[s] = i /\ at = "later"
    BY DEF BeatId
<1>4. Stage(at, i) \in Stages /\ Stage(at, i).id = i /\ Stage(at, i).at = at
    BY <1>1 DEF Stage, Stages, Places
<1>5. at \in {"first", "later"} /\ (at = "first" <=> claimed[s] = NoId) /\ ~ Settled(s)
    BY <1>2 DEF Settled
<1> HIDE DEF i, at
<1>6. /\ alone' \subseteq alone
      /\ \A o \in Sockets : o # s /\ ~ Settled(o) /\ i \in Names(o) => o \notin alone' /\ s \notin alone'
    BY <1>1, <1>2, SharersAreNotAlone
<1>7. ConnectionTypes'
    BY <1>1, <1>2, <1>4, <1>6 DEF ReachInv, ConnectionTypes
<1>8. /\ claimed'[s] = i /\ beat'[s] \in {beat[s], Stage(at, i)}
      /\ \A o \in Sockets : o # s => claimed'[o] = claimed[o] /\ beat'[o] = beat[o]
      /\ \A j \in Ids : j # i => registry'[j] = registry[j]
    BY <1>1, <1>2 DEF ReachInv, ConnectionTypes
<1>9. /\ Names(s)' \subseteq Names(s) \cup {i}
      /\ \A o \in Sockets : o # s => Names(o)' = Names(o)
    BY <1>1, <1>2, <1>4, <1>8 DEF Names
<1>10. NamesAreRows'
    BY <1>1, <1>2, <1>4, <1>8, <1>9 DEF ReachInv, NamesAreRows
<1>11. UnusedIsNew'
    BY <1>2, <1>6, <1>8 DEF ReachInv, UnusedIsNew
<1>12. ASSUME s \in alone' PROVE EnteredOrAboutTo(s)'
    <2>1. CASE at = "first"
        BY <1>1, <1>2, <1>4, <1>8, <2>1 DEF EnteredOrAboutTo, ReachInv, ConnectionTypes
    <2>2. CASE at # "first"
        <3>1. claimed[s] = i /\ claimed[s] # NoId
            BY <1>3, <1>5, <2>2
        <3>2. registry[i] = s
            BY <1>2, <1>6, <1>12, <3>1 DEF ReachInv, EntryKept, EnteredOrAboutTo, Idle
        <3> QED
            BY <1>2, <1>8, <2>2, <3>2 DEF EnteredOrAboutTo
    <2> QED
        BY <2>1, <2>2
<1>13. \A j \in Names(s)' : j \in Names(s) \/
          \A o \in Sockets :
              o # s /\ ~ Settled(o) /\ j \in Names(o) => o \notin alone' /\ s \notin alone'
    BY <1>6, <1>9
<1>14. \A j \in Ids : j \notin Names(s) \cup Names(s)' => registry'[j] = registry[j]
    BY <1>1, <1>8 DEF Names
<1>15. \A o \in Sockets : o # s => /\ socket'[o] = socket[o] /\ claimed'[o] = claimed[o]
                                    /\ reg'[o] = reg[o] /\ beat'[o] = beat[o]
    BY <1>2, <1>8
<1> QED
    BY <1>2, <1>5, <1>6, <1>7, <1>10, <1>11, <1>12, <1>13, <1>14, <1>15, BusyKeeps

(* What the rest of a heartbeat does: it goes on without a word to the      *)
(* registry, or ends, having made the entry if it was the first one.        *)
LEMMA BeatMovesOn ==
    ASSUME ReachInv, NEW s \in Sockets, beat[s] # Idle, NEW b \in Stages,
           beat' = [beat EXCEPT ![s] = b],
           UNCHANGED <<socket, peer, claimed, reg, knownId, alone>>,
           rowStatus' \in [Ids -> {"unused", "offline", "online", "deleted"}],
           \A i \in Ids : rowStatus[i] # "unused" => rowStatus'[i] # "unused",
           \/ /\ UNCHANGED registry /\ b # Idle /\ b.id = beat[s].id
              /\ beat[s].at \in {"first", "firstWrote"} => b.at \in {"first", "firstWrote"}
           \/ /\ b = Idle
              /\ registry' = IF beat[s].at \in {"first", "firstWrote"}
                               THEN [registry EXCEPT ![beat[s].id] = s] ELSE registry
    PROVE  ReachInv'
<1>1. beat[s].id \in Ids /\ beat[s].id \in Names(s) /\ Idle.id = NoId
    BY ConnectionAssumption DEF ReachInv, NamesAreRows, Names, Idle
<1>2. ~ Settled(s)
    BY DEF Settled
<1>3. beat'[s] = b /\ \A o \in Sockets : o # s => beat'[o] = beat[o]
    BY DEF ReachInv, ConnectionTypes
<1>4. ConnectionTypes' /\ UnusedIsNew'
    BY <1>1, <1>3 DEF ReachInv, ConnectionTypes, UnusedIsNew
<1>5. /\ Names(s)' \subseteq Names(s)
      /\ \A o \in Sockets : Names(o) \subseteq Ids /\ (o # s => Names(o)' = Names(o))
    BY <1>1, <1>3 DEF Names, ReachInv, ConnectionTypes, Stages
<1>6. NamesAreRows'
    BY <1>1, <1>3, <1>5 DEF ReachInv, NamesAreRows, ConnectionTypes
<1>7. \A j \in Ids : j # beat[s].id => registry'[j] = registry[j]
    BY <1>1 DEF ReachInv, ConnectionTypes
<1>8. ASSUME s \in alone, socket[s] = "open", claimed[s] # NoId PROVE EnteredOrAboutTo(s)'
    <2>1. EnteredOrAboutTo(s) /\ claimed[s] \in Ids
        BY <1>8 DEF ReachInv, EntryKept, ConnectionTypes
    <2>2. registry' = registry \/ registry' = [registry EXCEPT ![beat[s].id] = s]
        OBVIOUS
    <2> QED
        BY <1>1, <1>3, <2>1, <2>2 DEF EnteredOrAboutTo, ReachInv, ConnectionTypes
<1> QED
    BY <1>1, <1>2, <1>3, <1>4, <1>5, <1>6, <1>7, <1>8, BusyKeeps

LEMMA BeatWrittenKeeps ==
    ASSUME ReachInv, NEW s \in Sockets, BeatWritten(s)
    PROVE  ReachInv'
<1> DEFINE wrote == IF beat[s].at = "first" THEN "firstWrote" ELSE "laterWrote"
           b == Stage(wrote, beat[s].id)
<1>1. /\ beat[s].at \in {"first", "later"} /\ beat[s] # Idle
      /\ UNCHANGED <<socket, peer, claimed, reg, knownId, alone>>
    BY DEF BeatWritten, Idle, identities
<1>2. beat[s].id \in Ids
    BY <1>1 DEF ReachInv, NamesAreRows
<1>3. b \in Stages /\ b # Idle /\ b.id = beat[s].id /\ b.at = wrote
    BY <1>2 DEF Stage, Stages, Places, Idle
<1>4. Idle \in Stages
    BY DEF Idle, Stages, Places
<1>5. rowStatus \in [Ids -> {"unused", "offline", "online", "deleted"}]
    BY DEF ReachInv, ConnectionTypes
<1>6. CASE Live(beat[s].id)
    <2>1. /\ beat' = [beat EXCEPT ![s] = b] /\ UNCHANGED registry
          /\ rowStatus' = [rowStatus EXCEPT ![beat[s].id] = "online"]
        BY <1>6 DEF BeatWritten
    <2>2. /\ rowStatus' \in [Ids -> {"unused", "offline", "online", "deleted"}]
          /\ \A i \in Ids : rowStatus[i] # "unused" => rowStatus'[i] # "unused"
        BY <1>5, <2>1
    <2> HIDE DEF b
    <2> QED
        BY <1>1, <1>3, <2>1, <2>2, BeatMovesOn
<1>7. CASE ~ Live(beat[s].id)
    <2>1. /\ beat' = [beat EXCEPT ![s] = Idle] /\ UNCHANGED rowStatus
          /\ registry' = IF beat[s].at = "first" THEN [registry EXCEPT ![beat[s].id] = s] ELSE registry
        BY <1>7 DEF BeatWritten, EnteredByBeat
    <2> QED
        BY <1>1, <1>4, <1>5, <2>1, BeatMovesOn
<1> QED
    BY <1>6, <1>7

LEMMA BeatDoneKeeps ==
    ASSUME ReachInv, NEW s \in Sockets, BeatDone(s)
    PROVE  ReachInv'
<1>1. /\ beat[s].at \in {"firstWrote", "laterWrote"} /\ beat[s] # Idle
      /\ beat' = [beat EXCEPT ![s] = Idle]
      /\ registry' = IF beat[s].at = "firstWrote" THEN [registry EXCEPT ![beat[s].id] = s] ELSE registry
      /\ UNCHANGED <<rowStatus, socket, peer, claimed, reg, knownId, alone>>
    BY DEF BeatDone, EnteredByBeat, Idle, identities
<1>2. Idle \in Stages /\ rowStatus' \in [Ids -> {"unused", "offline", "online", "deleted"}]
    BY <1>1 DEF Idle, Stages, Places, ReachInv, ConnectionTypes
<1> QED
    BY <1>1, <1>2, BeatMovesOn

-----------------------------------------------------------------------------
(* A lost connection, and a close, which removes the entry of its own row.  *)
LEMMA EndKeeps ==
    ASSUME ReachInv, NEW s \in Sockets, Lose(s) \/ ConnectionClosed(s)
    PROVE  ReachInv'
<1>1. /\ socket[s] \in {"open", "lost"}
      /\ \E st \in {"lost", "closed"} : socket' = [socket EXCEPT ![s] = st]
      /\ UNCHANGED <<rowStatus, peer, claimed, reg, beat, knownId, alone>>
      /\ registry' = registry \/ (claimed[s] # NoId /\ registry' = [registry EXCEPT ![claimed[s]] = NoSocket])
    BY DEF Lose, ConnectionClosed, serverMemory, identities
<1>2. \A o \in Sockets : Names(o)' = Names(o)
    BY <1>1 DEF Names
<1>3. /\ socket'[s] \in {"lost", "closed"} /\ \A o \in Sockets : o # s => socket'[o] = socket[o]
      /\ \A j \in Ids : j \notin Names(s) => registry'[j] = registry[j]
    BY <1>1 DEF ReachInv, ConnectionTypes, Names
<1>4. ConnectionTypes'
    BY <1>1 DEF ReachInv, ConnectionTypes
<1>5. NamesAreRows' /\ UnusedIsNew' /\ ~ Settled(s)
    BY <1>1, <1>2, <1>3 DEF ReachInv, NamesAreRows, UnusedIsNew, Settled
<1> QED
    BY <1>1, <1>2, <1>3, <1>4, <1>5, BusyKeeps

LEMMA ServerCrashesKeeps ==
    ASSUME ReachInv, ServerCrashes
    PROVE  ReachInv'
<1>1. Idle \in Stages /\ Idle.id = NoId /\ Idle.at = "idle"
    BY DEF Idle, Stages, Places
<1>2. ConnectionTypes'
    BY <1>1 DEF ServerCrashes, ReachInv, ConnectionTypes, identities
<1>3. NamesAreRows'
    BY <1>1 DEF ServerCrashes, ReachInv, NamesAreRows, Names, identities
<1>4. UnusedIsNew'
    BY <1>1 DEF ServerCrashes, ReachInv, UnusedIsNew, identities
<1>5. \A t \in Sockets : socket'[t] # "open"
    BY DEF ServerCrashes
<1> QED
    BY <1>2, <1>3, <1>4, <1>5 DEF ReachInv, ConnectionTypes, NotShared, EntryKept

(* What happens to the rows alone.                                          *)
LEMMA RowsKeep ==
    ASSUME ReachInv,
           \/ \E s \in Sockets : CloseGoesOn(s)
           \/ \E i \in Ids, a \in Agents, h \in Hosts : PreRegister(i, a, h)
           \/ \E i \in Ids : Age(i) \/ Delete(i) \/ DeleteDone(i)
           \/ Sweep
    PROVE  ReachInv'
<1>1. UNCHANGED <<registry, socket, peer, claimed, reg, beat, knownId, alone>>
    BY DEF CloseGoesOn, CloseWritten, CloseDone, PreRegister, Age, Delete, DeleteDone, Sweep,
           SweepReads, SweepMarked, SweepWrites, serverMemory, identities
<1>2. \/ UNCHANGED rowStatus
      \/ \E i \in Ids, st \in {"offline", "deleted"} : rowStatus' = [rowStatus EXCEPT ![i] = st]
      \/ \E s \in Sockets : rowStatus' = [rowStatus EXCEPT ![closing[s].id] = "offline"]
    BY DEF CloseGoesOn, CloseWritten, CloseDone, PreRegister, Age, Delete, DeleteDone, Sweep,
           SweepReads, SweepMarked, SweepWrites
<1>3. rowStatus \in [Ids -> {"unused", "offline", "online", "deleted"}]
    BY DEF ReachInv, ConnectionTypes
<1>4. /\ rowStatus' \in [Ids -> {"unused", "offline", "online", "deleted"}]
      /\ \A i \in Ids : rowStatus[i] # "unused" => rowStatus'[i] # "unused"
    BY <1>2, <1>3
<1> QED
    BY <1>1, <1>4, UntouchedKeeps

LEMMA ReachInvStep == ReachInv /\ [ConnectionNext]_connectionVars => ReachInv'
<1> SUFFICES ASSUME ReachInv, [ConnectionNext]_connectionVars PROVE ReachInv'
    OBVIOUS
<1>1. ASSUME NEW s \in Sockets,
             \/ Connect(s) \/ RegistrationGoesOn(s) \/ Lose(s) \/ ConnectionClosed(s)
             \/ Heartbeat(s) \/ HeartbeatGoesOn(s)
      PROVE  ReachInv'
    BY <1>1, ConnectKeeps, RegistrationFoundKeeps, RegistrationWrittenKeeps,
       RegistrationDoneKeeps, EndKeeps, HeartbeatKeeps, BeatWrittenKeeps, BeatDoneKeeps
    DEF RegistrationGoesOn, HeartbeatGoesOn
<1>2. CASE ServerCrashes
    BY <1>2, ServerCrashesKeeps
<1>3. CASE UNCHANGED connectionVars
    <2>1. rowStatus' \in [Ids -> {"unused", "offline", "online", "deleted"}]
        BY <1>3 DEF connectionVars, ReachInv, ConnectionTypes
    <2> QED
        BY <1>3, <2>1, UntouchedKeeps DEF connectionVars, serverMemory, identities
<1> QED
    BY <1>1, <1>2, <1>3, RowsKeep DEF ConnectionNext

(* Whatever registrations, heartbeats, sweeps, deletions and crashes        *)
(* interleave: an open connection that has its row for itself is the one    *)
(* its registry entry leads to, once its first messages are handled.  It    *)
(* has not when another connection of which something is under way uses the *)
(* row: an older one of the agent whose close is noticed late, or one of    *)
(* another agent that says the same hostname and ip.                        *)
THEOREM ConnectedIsReachableHolds == ConnectionSpec => []ConnectedIsReachable
<1>1. ConnectionInit => ReachInv
    BY ReachInvInit
<1>2. ReachInv /\ [ConnectionNext]_connectionVars => ReachInv'
    BY ReachInvStep
<1>3. ReachInv => ConnectedIsReachable
    BY DEF ReachInv, EntryKept, EnteredOrAboutTo, ConnectedIsReachable
<1> QED
    BY <1>1, <1>2, <1>3, PTL DEF ConnectionSpec

-----------------------------------------------------------------------------
(* Commands.                                                               *)

Programs == [proc : {"none", "arrived", "running", "exited", "refused"},
             pipe : Int, written : Int, sent : Int, open : BOOLEAN,
             reader : {"none", "reading", "sending", "done"},
             waiter : {"none", "waiting", "waited", "done"},
             answer : {"none", "sent", "lost"}]

\* A command is answered when its reader is done or was never started, and not
\* before its goroutine has looked at it.
ReaderIsDone(r) ==
  /\ r.answer # "none" => r.reader \in {"none", "done"}
  /\ r.proc = "arrived" => r.answer = "none" /\ r.waiter = "none"

CommandInv == /\ cmd \in [Commands -> Programs]
              /\ \A c \in Commands : ReaderIsDone(cmd[c])

LEMMA NoCommandIsProper ==
  /\ NoCommand \in Programs /\ NoCommand.answer = "none" /\ NoCommand.reader = "none"
  /\ NoCommand.waiter = "none" /\ NoCommand.proc = "none" /\ NoCommand.sent = 0
BY DEF NoCommand, Programs, ReaderIsDone

LEMMA CommandInvInit == AgentInit => CommandInv
BY NoCommandIsProper DEF AgentInit, CommandInv, ReaderIsDone

\* A goroutine of a command puts a record in its place; it sends nothing of a
\* command that was answered.
LEMMA SetKeeps ==
  ASSUME CommandInv, NEW c \in Commands, NEW r \in Programs, SetCommand(c, r), ReaderIsDone(r),
         cmd[c].answer # "none" => r.sent = cmd[c].sent
  PROVE  /\ CommandInv'
         /\ \A d \in Commands : cmd[d].answer # "none" => cmd'[d].sent = cmd[d].sent
BY DEF CommandInv, SetCommand

LEMMA CommandUntouched ==
  ASSUME CommandInv, UNCHANGED cmd
  PROVE  /\ CommandInv'
         /\ \A d \in Commands : cmd[d].answer # "none" => cmd'[d].sent = cmd[d].sent
BY DEF CommandInv

\* An answer adds to a record nothing but itself.
LEMMA AnsweredIsProper ==
  ASSUME NEW r \in Programs, r.reader \in {"none", "done"}, r.proc # "arrived"
  PROVE  WithAnswer(r) \in Programs /\ ReaderIsDone(WithAnswer(r)) /\ WithAnswer(r).sent = r.sent
BY DEF Programs, WithAnswer, ReaderIsDone

\* A command that arrives is new: nothing was said of it, and nothing is before
\* its goroutine has answered it.
LEMMA StartKeeps ==
  ASSUME CommandInv, NEW c \in Commands, execute_command(c) \/ HandlesCommand(c)
  PROVE  /\ CommandInv'
         /\ \A d \in Commands : cmd[d].answer # "none" => cmd'[d].sent = cmd[d].sent
<1>1. CASE IdTooShort(c)
  BY <1>1, CommandUntouched DEF IdTooShort
<1>2. CASE execute_command(c) \/ ExecuteCommand(c) \/ RefuseCommand(c)
  <2> DEFINE arrived == [NoCommand EXCEPT !.proc = "arrived"]
             started == [NoCommand EXCEPT !.proc = "running", !.open = TRUE,
                           !.reader = "reading", !.waiter = "waiting"]
             exited == [NoCommand EXCEPT !.proc = "exited"]
             refused == [NoCommand EXCEPT !.proc = "refused"]
  <2>1. /\ arrived \in Programs /\ ReaderIsDone(arrived) /\ arrived.sent = 0
        /\ refused \in Programs /\ ReaderIsDone(refused) /\ refused.sent = 0
    BY NoCommandIsProper DEF Programs, ReaderIsDone
  <2>2. started \in Programs /\ ReaderIsDone(started) /\ started.sent = 0
    BY NoCommandIsProper DEF Programs, ReaderIsDone
  <2>3. exited \in Programs /\ exited.reader = "none" /\ exited.sent = 0 /\ exited.proc = "exited"
    BY NoCommandIsProper DEF Programs
  <2>4. WithAnswer(exited) \in Programs /\ ReaderIsDone(WithAnswer(exited)) /\ WithAnswer(exited).sent = 0
    BY <2>3, AnsweredIsProper
  <2>5. PICK r \in Programs : ReaderIsDone(r) /\ SetCommand(c, r) /\ r.sent = 0
    BY <1>2, <2>1, <2>4, <2>2 DEF execute_command, ExecuteCommand, RefuseCommand
  <2>6. cmd[c].answer = "none"
    BY <1>2 DEF CommandInv, ReaderIsDone, execute_command, ExecuteCommand, RefuseCommand, NoCommand
  <2> QED
    BY <2>5, <2>6, SetKeeps
<1> QED
  BY <1>1, <1>2 DEF HandlesCommand

\* The reader and the waiter: only the reader sends, between a read and the
\* next one, and the waiter answers when the reader is done.
LEMMA GoroutinesKeep ==
  ASSUME CommandInv, NEW c \in Commands, ProcessWrites(c) \/ ProcessExits(c) \/ CommandStep(c)
  PROVE  /\ CommandInv'
         /\ \A d \in Commands : cmd[d].answer # "none" => cmd'[d].sent = cmd[d].sent
<1> DEFINE p == cmd[c]
<1>1. p \in Programs /\ ReaderIsDone(p)
  BY DEF CommandInv
<1>2. CASE ProcessWrites(c)
  <2> DEFINE r == [p EXCEPT !.pipe = @ + 1, !.written = @ + 1]
  <2>0. p.pipe + 1 \in Int /\ p.written + 1 \in Int
    BY <1>1 DEF Programs
  <2>1. r \in Programs /\ ReaderIsDone(r) /\ r.sent = p.sent
    BY <1>1, <2>0 DEF Programs, ReaderIsDone
  <2> QED
    BY <1>2, <2>1, SetKeeps DEF ProcessWrites
<1>3. CASE ProcessExits(c)
  <2> DEFINE r == [p EXCEPT !.proc = "exited"]
  <2>1. r \in Programs /\ ReaderIsDone(r) /\ r.sent = p.sent
    BY <1>1 DEF Programs, ReaderIsDone
  <2> QED
    BY <1>3, <2>1, SetKeeps DEF ProcessExits
<1>4. CASE ReaderTakes(c)
  <2> DEFINE r == [p EXCEPT !.pipe = @ - 1, !.reader = "sending"]
  <2>0. p.pipe - 1 \in Int /\ p.answer = "none"
    BY <1>1, <1>4 DEF Programs, ReaderIsDone, ReaderTakes
  <2>1. r \in Programs /\ ReaderIsDone(r) /\ r.sent = p.sent
    BY <1>1, <2>0 DEF Programs, ReaderIsDone
  <2> QED
    BY <1>4, <2>1, SetKeeps DEF ReaderTakes
<1>5. CASE ReaderSends(c)
  <2> DEFINE r == [p EXCEPT !.sent = Sent(p), !.reader = "reading"]
  <2>1. Sent(p) \in Int
    BY <1>1 DEF Programs, Sent
  <2>2. p.answer = "none"
    BY <1>1, <1>5 DEF ReaderIsDone, ReaderSends
  <2>3. r \in Programs /\ ReaderIsDone(r)
    BY <1>1, <2>1, <2>2 DEF Programs, ReaderIsDone
  <2> QED
    BY <1>5, <2>2, <2>3, SetKeeps DEF ReaderSends
<1>6. CASE ReaderEnds(c)
  <2> DEFINE r == [p EXCEPT !.reader = "done"]
  <2>1. r \in Programs /\ ReaderIsDone(r) /\ r.sent = p.sent
    BY <1>1 DEF Programs, ReaderIsDone
  <2> QED
    BY <1>6, <2>1, SetKeeps DEF ReaderEnds
<1>7. CASE WaitReturns(c)
  <2> DEFINE r == [p EXCEPT !.waiter = "waited", !.open = FALSE]
  <2>1. r \in Programs /\ ReaderIsDone(r) /\ r.sent = p.sent
    BY <1>1, <1>7 DEF Programs, ReaderIsDone, WaitReturns
  <2> QED
    BY <1>7, <2>1, SetKeeps DEF WaitReturns
<1>8. CASE CommandCompletes(c)
  <2> DEFINE r == [p EXCEPT !.waiter = "done"]
  <2>1. r \in Programs /\ r.reader \in {"none", "done"} /\ r.proc # "arrived" /\ r.sent = p.sent
    BY <1>1, <1>8 DEF Programs, ReaderIsDone, CommandCompletes
  <2>2. WithAnswer(r) \in Programs /\ ReaderIsDone(WithAnswer(r)) /\ WithAnswer(r).sent = p.sent
    BY <2>1, AnsweredIsProper
  <2> QED
    BY <1>8, <2>2, SetKeeps DEF CommandCompletes
<1> QED
  BY <1>2, <1>3, <1>4, <1>5, <1>6, <1>7, <1>8 DEF CommandStep

LEMMA AgentStepKeeps ==
  ASSUME CommandInv, [AgentNext]_agentVars
  PROVE  /\ CommandInv'
         /\ \A d \in Commands : cmd[d].answer # "none" => cmd'[d].sent = cmd[d].sent
<1>1. CASE LoopStep \/ LinkBreaks
  BY <1>1, CommandUntouched
  DEF LoopStep, CheckShutdown, Dial, SendRegister, ReadFails, WaitEnds, LinkBreaks
<1>2. CASE StopStep \/ Terminate \/ update_agent
  BY <1>2, CommandUntouched
  DEF StopStep, TerminateHangsUp, UpdateHangsUp, UpdateLooks, UpdateCloses, Terminate,
      update_agent, UpdateAgent
<1>3. ASSUME NEW c \in Commands,
             \/ execute_command(c) \/ HandlesCommand(c)
             \/ ProcessWrites(c) \/ ProcessExits(c) \/ CommandStep(c)
      PROVE  /\ CommandInv'
             /\ \A d \in Commands : cmd[d].answer # "none" => cmd'[d].sent = cmd[d].sent
  BY <1>3, StartKeeps, GoroutinesKeep
<1>4. CASE UNCHANGED agentVars
  BY <1>4, CommandUntouched DEF agentVars
<1> QED
  BY <1>1, <1>2, <1>3, <1>4 DEF AgentNext

\* The two goroutines of a command share the connection, and connections
\* break, are replaced and closed by a termination: no line of a command's
\* output is sent after the answer.
THEOREM CompletedIsLastHolds == AgentSpec => CompletedIsLast
<1>1. AgentInit => CommandInv
  BY CommandInvInit
<1>2. CommandInv /\ [AgentNext]_agentVars => CommandInv'
  BY AgentStepKeeps
<1>3. CommandInv /\ [AgentNext]_agentVars =>
        [\A c \in Commands : cmd[c].answer # "none" => cmd'[c].sent = cmd[c].sent]_agentVars
  BY AgentStepKeeps
<1> QED
  BY <1>1, <1>2, <1>3, PTL DEF AgentSpec, CompletedIsLast

-----------------------------------------------------------------------------
(* Reports of an address.                                                  *)

SendingChecks == {k \in Checkers : checker[k] = "sending"}

\* What was sent or is about to be was due: once at first, and once an hour.
ReportsAreDue ==
  /\ checker \in [Checkers -> {"idle", "found", "sending"}]
  /\ IsFiniteSet(SendingChecks)
  /\ posts \in Nat /\ hours \in Nat
  /\ reported \in {"never", "recent", "old"}
  /\ reported = "never" => posts = 0 /\ SendingChecks = {}
  /\ reported = "recent" => posts + Cardinality(SendingChecks) <= hours + 1
  /\ reported = "old" => posts + Cardinality(SendingChecks) <= hours

LEMMA ReportsAreDueInit == MonitorInit => ReportsAreDue
BY FS_EmptySet DEF MonitorInit, ReportsAreDue, SendingChecks

LEMMA ReportsAreDueKept == ReportsAreDue /\ [MonitorNext]_monitorVars => ReportsAreDue'
<1> SUFFICES ASSUME ReportsAreDue, [MonitorNext]_monitorVars PROVE ReportsAreDue'
  OBVIOUS
<1>0. IsFiniteSet(SendingChecks) /\ Cardinality(SendingChecks) \in Nat
  BY FS_CardinalityType DEF ReportsAreDue
<1>1. ASSUME NEW k \in Checkers, ReadLog(k) PROVE ReportsAreDue'
  <2>1. SendingChecks' = SendingChecks
    BY <1>1 DEF ReadLog, ReportsAreDue, SendingChecks
  <2> QED
    BY <1>1, <2>1 DEF ReadLog, ReportsAreDue
<1>2. ASSUME NEW k \in Checkers, FilterEvents(k) PROVE ReportsAreDue'
  <2>1. CASE reported = "recent"
    <3>1. SendingChecks' = SendingChecks
      BY <1>2, <2>1 DEF FilterEvents, ReportsAreDue, SendingChecks
    <3> QED
      BY <1>2, <2>1, <3>1 DEF FilterEvents, ReportsAreDue
  <2>2. CASE reported # "recent"
    <3>1. SendingChecks' = SendingChecks \cup {k} /\ k \notin SendingChecks
      BY <1>2, <2>2 DEF FilterEvents, ReportsAreDue, SendingChecks
    <3>2. /\ IsFiniteSet(SendingChecks')
          /\ Cardinality(SendingChecks') = Cardinality(SendingChecks) + 1
      BY <1>0, <3>1, FS_AddElement
    <3>3. reported = "never" => Cardinality(SendingChecks) = 0
      BY FS_EmptySet DEF ReportsAreDue
    <3> QED
      BY <1>0, <1>2, <2>2, <3>2, <3>3 DEF FilterEvents, ReportsAreDue
  <2> QED
    BY <2>1, <2>2
<1>3. ASSUME NEW k \in Checkers, PostEvents(k) PROVE ReportsAreDue'
  <2>1. SendingChecks' = SendingChecks \ {k} /\ k \in SendingChecks
    BY <1>3 DEF PostEvents, ReportsAreDue, SendingChecks
  <2>2. /\ IsFiniteSet(SendingChecks')
        /\ Cardinality(SendingChecks') = Cardinality(SendingChecks) - 1
    BY <1>0, <2>1, FS_RemoveElement
  <2> QED
    BY <1>0, <1>3, <2>1, <2>2 DEF PostEvents, ReportsAreDue
<1>4. ASSUME HourPasses PROVE ReportsAreDue'
  <2>1. SendingChecks' = SendingChecks
    BY <1>4 DEF HourPasses, SendingChecks
  <2> QED
    BY <1>0, <1>4, <2>1 DEF HourPasses, ReportsAreDue
<1>5. ASSUME UNCHANGED <<checker, posts, hours, reported>> PROVE ReportsAreDue'
  BY <1>5 DEF ReportsAreDue, SendingChecks
<1> QED
  BY <1>1, <1>2, <1>3, <1>4, <1>5
     DEF MonitorNext, monitorVars, CheckStep, ScanStep, LoginFails, FileChanges,
         HalfHourPasses, HeartbeatScan, TriggeredScan, CheckIntegrity, CheckAuthLog, PostScan

\* However many checks run at once (checkAndReportSecurityEvents of main.go),
\* the server is sent the same address at most once an hour.
THEOREM OncePerHourHolds == MonitorSpec => []OncePerHour
<1>1. ReportsAreDue => OncePerHour
  <2> SUFFICES ASSUME ReportsAreDue PROVE OncePerHour
    OBVIOUS
  <2>1. Cardinality(SendingChecks) \in Nat
    BY FS_CardinalityType DEF ReportsAreDue
  <2> QED
    BY <2>1 DEF ReportsAreDue, OncePerHour
<1> QED
  BY <1>1, ReportsAreDueInit, ReportsAreDueKept, PTL DEF MonitorSpec

=============================================================================
