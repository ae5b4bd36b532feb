---------------------------- MODULE TerminalProofs ----------------------------
(***************************************************************************)
(* Proofs about terminals, for all tabs, users and sessions: closed tabs   *)
(* leave no terminal behind, and what the audit trail has of a session is  *)
(* consistent (TerminalSessions); the keys of a tab reach the shell of     *)
(* their session (AgentTerminal).                                          *)
(***************************************************************************)
EXTENDS TerminalSessions, AgentTerminal, SequenceTheorems, WellFoundedInduction, TLAPS

Owner(s) == UserOf[issued[s].tab]

TerminalTypes ==
    /\ tab \in [Tabs -> {"unused", "connecting", "left", "open", "failed", "closed"}]
    /\ handler \in [Tabs -> [at : {"none", "terminal", "command"},
                             session : SessionIds \cup {NoTab}]]
    /\ issued \in [SessionIds -> [tab : Tabs, for : {"terminal", "command"}] \cup {Unissued}]
    /\ active \in SUBSET SessionIds /\ opened \in SUBSET SessionIds
    /\ sets \in Seq(Seq(SessionIds))
    /\ mine \in [TabUsers -> Nat]
    /\ cleanup \in [Listeners -> [set : Nat, pos : Nat]]
    /\ closed \in [SessionIds -> Nat]

(* A request holds a session that was issued for it and is not in the log.  *)
RequestsHoldTheirs ==
    \A t \in Tabs :
        LET h == handler[t]
        IN  /\ h.at = "none" => h.session = NoTab
            /\ h.session # NoTab =>
                  /\ issued[h.session] = [tab |-> t, for |-> h.at]
                  /\ h.session \notin opened

UnissuedIsUnused ==
    \A s \in SessionIds : issued[s] = Unissued =>
        s \notin active /\ s \notin opened /\ closed[s] = 0

(* A Set is of one user; what is in it was logged.                          *)
SetsOfOneUser ==
    \A g \in DOMAIN sets :
        /\ sets[g] # <<>>
        /\ \A k \in DOMAIN sets[g] :
              sets[g][k] \in opened /\ Owner(sets[g][k]) = Owner(sets[g][1])

InUse(l) == cleanup[l] # Rest
EndedNext(l) == sets[cleanup[l].set][cleanup[l].pos]

(* An entry, and a cleanup, have a Set of their user.                       *)
EntriesAreOwn ==
    \A u \in TabUsers : mine[u] # 0 =>
        mine[u] \in DOMAIN sets /\ Owner(sets[mine[u]][1]) = u
CleanupsAreOwn ==
    \A l \in Listeners : InUse(l) =>
        /\ cleanup[l].set \in DOMAIN sets
        /\ cleanup[l].pos \in DOMAIN sets[cleanup[l].set]
        /\ Owner(EndedNext(l)) = UserOf[l[1]]

Logged == \A s \in SessionIds : closed[s] > 0 => s \in opened

(* A session a request holds, or that is in its user's Set and ahead of any *)
(* cleanup.                                                                 *)
Held(s, u) ==
    \/ \E t \in Tabs : handler[t].session = s
    \/ /\ mine[u] # 0
       /\ \E k \in DOMAIN sets[mine[u]] :
             /\ sets[mine[u]][k] = s
             /\ \A l \in Listeners : UserOf[l[1]] = u /\ InUse(l) => cleanup[l].pos <= k

(* What holds of a user none of whose tabs closed in a hurry.               *)
OneCleanup(u) ==
    \A l, m \in Listeners :
        UserOf[l[1]] = u /\ UserOf[m[1]] = u /\ InUse(l) /\ InUse(m) => l = m
CleanupOfTheEntry(u) ==
    \A l \in Listeners : UserOf[l[1]] = u /\ InUse(l) =>
        mine[u] # 0 /\ cleanup[l].set = mine[u] /\ closed[EndedNext(l)] = 0
EndedOnce(u) ==
    \A s \in SessionIds : issued[s] # Unissued /\ Owner(s) = u =>
        closed[s] <= 1 /\ (closed[s] = 1 => s \notin active)
RequestsOfOpenTabs(u) ==
    \A t \in Tabs : UserOf[t] = u /\ handler[t] # Nothing => tab[t] = "open"
EntryIsWatched(u) ==
    mine[u] # 0 => \/ \E t \in Tabs : UserOf[t] = u /\ tab[t] = "open"
                   \/ \E l \in Listeners : UserOf[l[1]] = u /\ InUse(l)
TerminalsAreHeld(u) ==
    \A s \in active : issued[s].for = "terminal" /\ Owner(s) = u => Held(s, u)

Calm(u) ==
    /\ OneCleanup(u) /\ CleanupOfTheEntry(u) /\ EndedOnce(u)
    /\ RequestsOfOpenTabs(u) /\ EntryIsWatched(u) /\ TerminalsAreHeld(u)

Consistent ==
    /\ RequestsHoldTheirs /\ UnissuedIsUnused /\ SetsOfOneUser
    /\ EntriesAreOwn /\ CleanupsAreOwn /\ Logged

TerminalInv ==
    /\ TerminalTypes /\ Consistent
    /\ \A u \in TabUsers \ hurried : Calm(u)

-----------------------------------------------------------------------------
LEMMA TerminalInvInit == TerminalInit => TerminalInv
<1> SUFFICES ASSUME TerminalInit PROVE TerminalInv
    OBVIOUS
<1>1. Nothing \in [at : {"none", "terminal", "command"}, session : SessionIds \cup {NoTab}]
      /\ Nothing.session = NoTab /\ Rest \in [set : Nat, pos : Nat]
    BY DEF Nothing, Rest
<1>2. TerminalTypes
    BY <1>1 DEF TerminalInit, TerminalTypes
<1>3. Consistent
    BY <1>1 DEF TerminalInit, Consistent, RequestsHoldTheirs, UnissuedIsUnused, SetsOfOneUser,
       EntriesAreOwn, CleanupsAreOwn, InUse, Logged
<1>4. \A u \in TabUsers : Calm(u)
    BY <1>1 DEF TerminalInit, Calm, OneCleanup, CleanupOfTheEntry, EndedOnce, RequestsOfOpenTabs,
       EntryIsWatched, TerminalsAreHeld, InUse
<1> QED
    BY <1>2, <1>3, <1>4 DEF TerminalInv

(* What the invariant says of sessions, when only tabs and handlers change. *)
LEMMA SessionsKept ==
    ASSUME TerminalInv, UNCHANGED <<issued, active, sets, mine, cleanup, opened, closed>>,
           RequestsHoldTheirs'
    PROVE  /\ Consistent'
           /\ \A u \in TabUsers \ hurried :
                 OneCleanup(u)' /\ CleanupOfTheEntry(u)' /\ EndedOnce(u)'
<1>1. Consistent'
    BY ZenonT(60) DEF TerminalInv, Consistent, UnissuedIsUnused, SetsOfOneUser, EntriesAreOwn, CleanupsAreOwn,
       Logged, Owner, InUse, EndedNext
<1>2. ASSUME NEW u \in TabUsers \ hurried
      PROVE OneCleanup(u)' /\ CleanupOfTheEntry(u)' /\ EndedOnce(u)'
    BY DEF TerminalInv, Calm, OneCleanup, CleanupOfTheEntry, EndedOnce, Owner, InUse, EndedNext
<1> QED
    BY <1>1, <1>2

(* Connections come and go without requests.                                *)
LEMMA ConnectionKeeps ==
    ASSUME TerminalInv, NEW t \in Tabs, Connect(t) \/ Authenticated(t) \/ Rejected(t) \/ Leave(t)
    PROVE  TerminalInv'
<1>1. UNCHANGED <<handler, issued, active, sets, mine, cleanup, opened, closed, hurried>>
    BY DEF Connect, Authenticated, Rejected, Leave
<1>2. TerminalTypes'
    BY <1>1 DEF TerminalInv, TerminalTypes, Connect, Authenticated, Rejected, Leave
<1>3. \A o \in Tabs : tab[o] = "open" => tab'[o] = "open"
    BY DEF TerminalInv, TerminalTypes, Connect, Authenticated, Rejected, Leave
<1>4. RequestsHoldTheirs'
    BY <1>1 DEF TerminalInv, Consistent, RequestsHoldTheirs
<1>5. ASSUME NEW u \in TabUsers \ hurried
      PROVE  RequestsOfOpenTabs(u)' /\ EntryIsWatched(u)' /\ TerminalsAreHeld(u)'
    BY <1>1, <1>3 DEF TerminalInv, Calm, RequestsOfOpenTabs, EntryIsWatched, TerminalsAreHeld,
       Held, Owner, InUse
<1> QED
    BY <1>1, <1>2, <1>4, <1>5, SessionsKept DEF TerminalInv, Calm

(* A request starts, or ends without a session.                             *)
LEMMA RequestWithoutSessionKeeps ==
    ASSUME TerminalInv, NEW t \in Tabs, NEW at \in {"none", "terminal", "command"},
           handler[t].session = NoTab, at # "none" => tab[t] = "open",
           handler' = [handler EXCEPT ![t] = [at |-> at, session |-> NoTab]],
           UNCHANGED <<tab, issued, active, sets, mine, cleanup, opened, closed, hurried>>
    PROVE  TerminalInv'
<1>1. TerminalTypes'
    BY DEF TerminalInv, TerminalTypes
<1>2. RequestsHoldTheirs'
    BY DEF TerminalInv, TerminalTypes, Consistent, RequestsHoldTheirs
<1>3. ASSUME NEW u \in TabUsers \ hurried
      PROVE  RequestsOfOpenTabs(u)' /\ EntryIsWatched(u)' /\ TerminalsAreHeld(u)'
    <2>1. RequestsOfOpenTabs(u)'
        BY DEF TerminalInv, TerminalTypes, Calm, RequestsOfOpenTabs, Nothing
    <2>2. EntryIsWatched(u)'
        BY DEF TerminalInv, Calm, EntryIsWatched, InUse
    <2>3. TerminalsAreHeld(u)'
        <3> SUFFICES ASSUME NEW s \in active, issued[s].for = "terminal", Owner(s) = u
                     PROVE  Held(s, u)'
            BY DEF TerminalsAreHeld, Owner
        <3>1. Held(s, u) /\ s # NoTab
            BY TerminalAssumption DEF TerminalInv, TerminalTypes, Calm, TerminalsAreHeld
        <3> QED
            BY <3>1 DEF Held, InUse, TerminalInv, TerminalTypes
    <2> QED
        BY <2>1, <2>2, <2>3
<1> QED
    BY <1>1, <1>2, <1>3, SessionsKept DEF TerminalInv, Calm

LEMMA RequestStartsKeeps ==
    ASSUME TerminalInv, NEW t \in Tabs, Spawn(t) \/ Execute(t) \/ AccessDenied(t)
    PROVE  TerminalInv'
<1>1. UNCHANGED <<tab, issued, active, sets, mine, cleanup, opened, closed, hurried>>
    BY DEF Spawn, Execute, AccessDenied
<1>2. CASE handler' = handler
    <2>1. TerminalTypes' /\ RequestsHoldTheirs'
        BY <1>1, <1>2 DEF TerminalInv, TerminalTypes, Consistent, RequestsHoldTheirs
    <2>2. ASSUME NEW u \in TabUsers \ hurried
          PROVE  RequestsOfOpenTabs(u)' /\ EntryIsWatched(u)' /\ TerminalsAreHeld(u)'
        BY <1>1, <1>2 DEF TerminalInv, Calm, RequestsOfOpenTabs, EntryIsWatched,
           TerminalsAreHeld, Held, Owner, InUse
    <2> QED
        BY <1>1, <2>1, <2>2, SessionsKept DEF TerminalInv, Calm
<1>3. ASSUME NEW at \in {"terminal", "command"}, tab[t] = "open", handler[t] = Nothing,
             handler' = [handler EXCEPT ![t].at = at]
      PROVE  TerminalInv'
    <2>1. handler[t].session = NoTab
          /\ handler' = [handler EXCEPT ![t] = [at |-> at, session |-> NoTab]]
        <3>1. [Nothing EXCEPT !.at = at] = [at |-> at, session |-> NoTab] /\ Nothing.session = NoTab
            BY DEF Nothing
        <3> QED
            BY <1>3, <3>1
    <2> QED
        BY <1>1, <1>3, <2>1, RequestWithoutSessionKeeps
<1>4. ASSUME AccessDenied(t) PROVE TerminalInv'
    BY <1>1, <1>4, RequestWithoutSessionKeeps DEF AccessDenied, Nothing
<1> QED
    BY <1>2, <1>3, <1>4 DEF Spawn, Execute

(* A session is issued: nobody knew of it.                                  *)
LEMMA SessionIssuedKeeps ==
    ASSUME TerminalInv, NEW t \in Tabs, SessionIssued(t)
    PROVE  TerminalInv'
<1>1. PICK s \in SessionIds :
          /\ issued[s] = Unissued
          /\ issued' = [issued EXCEPT ![s] = [tab |-> t, for |-> handler[t].at]]
          /\ active' = active \cup {s}
          /\ handler' = [handler EXCEPT ![t].session = s]
    BY DEF SessionIssued
<1>2. /\ handler[t].at \in {"terminal", "command"} /\ handler[t].session = NoTab
      /\ UNCHANGED <<tab, clients, asked, sets, mine, cleanup, opened, closed, hurried>>
    BY DEF SessionIssued, TerminalInv, TerminalTypes
<1>3. s \notin opened /\ s \notin active /\ closed[s] = 0
    BY <1>1 DEF TerminalInv, Consistent, UnissuedIsUnused
<1>4. /\ issued'[s] = [tab |-> t, for |-> handler[t].at] /\ issued'[s] # Unissued
      /\ \A o \in SessionIds : o # s => issued'[o] = issued[o] /\ Owner(o)' = Owner(o)
    BY <1>1, TerminalAssumption DEF TerminalInv, TerminalTypes, Owner, Unissued
<1>5. \A o \in Tabs : o # t => handler'[o] = handler[o]
    BY <1>1 DEF TerminalInv, TerminalTypes
<1>6. handler'[t].session = s /\ handler'[t].at = handler[t].at
    BY <1>1 DEF TerminalInv, TerminalTypes
<1>7. TerminalTypes'
    BY <1>1, <1>2 DEF TerminalInv, TerminalTypes
<1>8. \A g \in DOMAIN sets : \A k \in DOMAIN sets[g] : sets[g][k] \in SessionIds \ {s}
    BY <1>3 DEF TerminalInv, TerminalTypes, Consistent, SetsOfOneUser
<1>9. \A g \in DOMAIN sets : 1 \in DOMAIN sets[g]
    BY DEF TerminalInv, TerminalTypes, Consistent, SetsOfOneUser
<1>10. Consistent'
    <2>1. RequestsHoldTheirs'
        <3> SUFFICES ASSUME NEW o \in Tabs
                     PROVE  /\ handler'[o].at = "none" => handler'[o].session = NoTab
                            /\ handler'[o].session # NoTab =>
                                  /\ issued'[handler'[o].session] = [tab |-> o, for |-> handler'[o].at]
                                  /\ handler'[o].session \notin opened'
            BY DEF RequestsHoldTheirs
        <3>1. CASE o = t
            BY <1>2, <1>3, <1>4, <1>6, <3>1
        <3>2. CASE o # t /\ handler[o].session # NoTab
            <4>1. issued[handler[o].session] = [tab |-> o, for |-> handler[o].at]
                  /\ handler[o].session \notin opened /\ handler[o].session \in SessionIds
                BY <3>2 DEF TerminalInv, TerminalTypes, Consistent, RequestsHoldTheirs
            <4>2. handler[o].session # s
                BY <1>1, <4>1, TerminalAssumption DEF Unissued
            <4> QED
                BY <1>2, <1>4, <1>5, <3>2, <4>1, <4>2 DEF TerminalInv, Consistent, RequestsHoldTheirs
        <3>3. CASE o # t /\ handler[o].session = NoTab
            BY <1>5, <3>3
        <3> QED
            BY <3>1, <3>2, <3>3
    <2>2. UnissuedIsUnused'
        BY <1>1, <1>2, <1>4 DEF TerminalInv, Consistent, UnissuedIsUnused
    <2>3. SetsOfOneUser'
        BY <1>2, <1>4, <1>8, <1>9 DEF TerminalInv, Consistent, SetsOfOneUser
    <2>4. EntriesAreOwn'
        BY <1>2, <1>4, <1>8, <1>9 DEF TerminalInv, Consistent, EntriesAreOwn
    <2>5. CleanupsAreOwn'
        BY <1>2, <1>4, <1>8 DEF TerminalInv, Consistent, CleanupsAreOwn, InUse, EndedNext
    <2>6. Logged'
        BY <1>2 DEF TerminalInv, Consistent, Logged
    <2> QED
        BY <2>1, <2>2, <2>3, <2>4, <2>5, <2>6 DEF Consistent
<1>11. ASSUME NEW u \in TabUsers \ hurried PROVE Calm(u)'
    <2>1. OneCleanup(u)' /\ CleanupOfTheEntry(u)'
        BY <1>2, <1>11 DEF TerminalInv, Calm, OneCleanup, CleanupOfTheEntry, InUse, EndedNext
    <2>2. EndedOnce(u)'
        BY <1>1, <1>2, <1>3, <1>4, <1>11 DEF TerminalInv, Calm, EndedOnce
    <2>3. RequestsOfOpenTabs(u)'
        BY <1>2, <1>5, <1>11 DEF TerminalInv, Calm, RequestsOfOpenTabs, Nothing
    <2>4. EntryIsWatched(u)'
        BY <1>2, <1>11 DEF TerminalInv, Calm, EntryIsWatched, InUse
    <2>5. TerminalsAreHeld(u)'
        <3> SUFFICES ASSUME NEW o \in active', issued'[o].for = "terminal", Owner(o)' = u
                     PROVE  Held(o, u)'
            BY DEF TerminalsAreHeld
        <3>1. CASE o = s
            BY <1>6, <3>1 DEF Held
        <3>2. CASE o # s
            <4>1. o \in active /\ o \in SessionIds
                BY <1>1, <3>2 DEF TerminalInv, TerminalTypes
            <4>2. Held(o, u)
                BY <1>4, <1>11, <3>2, <4>1 DEF TerminalInv, Calm, TerminalsAreHeld
            <4>3. ASSUME NEW q \in Tabs, handler[q].session = o PROVE handler'[q].session = o
                BY <1>2, <1>5, <4>1, <4>3, TerminalAssumption
            <4> QED
                BY <1>2, <4>2, <4>3 DEF Held, InUse
        <3> QED
            BY <3>1, <3>2
    <2> QED
        BY <2>1, <2>2, <2>3, <2>4, <2>5 DEF Calm
<1> QED
    BY <1>2, <1>7, <1>10, <1>11 DEF TerminalInv

(* Session s was appended to Set g, which is that of user u.                *)
GrownBy(u, s, g) ==
    /\ sets' \in Seq(Seq(SessionIds)) /\ g \in DOMAIN sets' /\ g # 0
    /\ mine' = [mine EXCEPT ![u] = g]
    /\ mine[u] # 0 => g = mine[u] /\ g \in DOMAIN sets
    /\ mine[u] = 0 => g \notin DOMAIN sets /\ Len(sets'[g]) = 1
    /\ g \in DOMAIN sets => Len(sets'[g]) > Len(sets[g])
    /\ Len(sets'[g]) \in DOMAIN sets'[g] /\ sets'[g][Len(sets'[g])] = s
    /\ \A h \in DOMAIN sets :
          /\ h \in DOMAIN sets'
          /\ \A k \in DOMAIN sets[h] : k \in DOMAIN sets'[h] /\ sets'[h][k] = sets[h][k]
    /\ \A h \in DOMAIN sets' :
          /\ h \in DOMAIN sets \/ h = g
          /\ \A k \in DOMAIN sets'[h] :
                \/ h \in DOMAIN sets /\ k \in DOMAIN sets[h]
                \/ h = g /\ k = Len(sets'[g])

LEMMA NotedAppends ==
    ASSUME TerminalInv, NEW u \in TabUsers, NEW s \in SessionIds, Noted(u, s)
    PROVE  \E g \in Nat : GrownBy(u, s, g)
<1>0. sets \in Seq(Seq(SessionIds)) /\ mine \in [TabUsers -> Nat] /\ Len(sets) \in Nat
    BY DEF TerminalInv, TerminalTypes
<1>1. CASE mine[u] = 0
    <2> DEFINE g == Len(sets')
    <2>1. sets' = Append(sets, <<s>>) /\ mine' = [mine EXCEPT ![u] = g]
        BY <1>1 DEF Noted
    <2>2. /\ sets' \in Seq(Seq(SessionIds)) /\ g = Len(sets) + 1
          /\ sets'[g] = <<s>>
          /\ \A h \in DOMAIN sets : h \in DOMAIN sets' /\ sets'[h] = sets[h]
          /\ \A h \in DOMAIN sets' : h \in DOMAIN sets \/ h = g
          /\ g \notin DOMAIN sets /\ g \in DOMAIN sets'
        BY <1>0, <2>1
    <2>3. Len(<<s>>) = 1 /\ DOMAIN <<s>> = {1} /\ <<s>>[1] = s
        OBVIOUS
    <2>4. g \in Nat /\ g # 0
        BY <1>0, <2>2
    <2> HIDE DEF g
    <2>5. GrownBy(u, s, g)
        BY <1>1, <2>1, <2>2, <2>3, <2>4 DEF GrownBy
    <2> QED
        BY <2>4, <2>5
<1>2. CASE mine[u] # 0
    <2> DEFINE g == mine[u]
    <2>1. sets' = [sets EXCEPT ![g] = Append(@, s)] /\ mine' = mine
        BY <1>2 DEF Noted
    <2>2. g \in DOMAIN sets /\ sets[g] \in Seq(SessionIds) /\ g \in Nat /\ g # 0
        BY <1>0, <1>2 DEF TerminalInv, Consistent, EntriesAreOwn
    <2>3. sets'[g] = Append(sets[g], s) /\ DOMAIN sets' = DOMAIN sets
          /\ \A h \in DOMAIN sets : h # g => sets'[h] = sets[h]
        BY <1>0, <2>1, <2>2
    <2>4. /\ sets'[g] \in Seq(SessionIds) /\ Len(sets'[g]) = Len(sets[g]) + 1
          /\ sets'[g][Len(sets'[g])] = s /\ Len(sets[g]) \in Nat
          /\ Len(sets'[g]) \in DOMAIN sets'[g]
          /\ \A k \in DOMAIN sets[g] : k \in DOMAIN sets'[g] /\ sets'[g][k] = sets[g][k]
          /\ \A k \in DOMAIN sets'[g] : k \in DOMAIN sets[g] \/ k = Len(sets'[g])
        BY <2>2, <2>3
    <2>5. sets' \in Seq(Seq(SessionIds))
        BY <1>0, <2>1, <2>2, <2>3, <2>4
    <2>6. mine' = [mine EXCEPT ![u] = g]
        BY <1>0, <2>1
    <2>7. Len(sets'[g]) > Len(sets[g])
        BY <2>4
    <2> HIDE DEF g
    <2>8. /\ \A h \in DOMAIN sets :
                /\ h \in DOMAIN sets'
                /\ \A k \in DOMAIN sets[h] : k \in DOMAIN sets'[h] /\ sets'[h][k] = sets[h][k]
          /\ \A h \in DOMAIN sets' :
                /\ h \in DOMAIN sets \/ h = g
                /\ \A k \in DOMAIN sets'[h] :
                      \/ h \in DOMAIN sets /\ k \in DOMAIN sets[h]
                      \/ h = g /\ k = Len(sets'[g])
        BY <2>3, <2>4
    <2>9. mine[u] = g
        BY DEF g
    <2>10. GrownBy(u, s, g)
        BY <1>2, <2>2, <2>3, <2>4, <2>5, <2>6, <2>7, <2>8, <2>9 DEF GrownBy
    <2> QED
        BY <2>2, <2>10
<1> QED
    BY <1>1, <1>2

LEMMA RequestDoneKeeps ==
    ASSUME TerminalInv, NEW t \in Tabs, RequestDone(t)
    PROVE  TerminalInv'
<1> DEFINE s == handler[t].session
           u == UserOf[t]
<1>1. /\ s \in SessionIds /\ u \in TabUsers /\ handler[t].at \in {"terminal", "command"}
      /\ issued[s] = [tab |-> t, for |-> handler[t].at] /\ s \notin opened
      /\ Owner(s) = u /\ issued[s] # Unissued
    <2>1. s # NoTab
        BY DEF RequestDone
    <2>2. s \in SessionIds /\ handler[t].at \in {"none", "terminal", "command"} /\ u \in TabUsers
        BY <2>1, TerminalAssumption DEF TerminalInv, TerminalTypes
    <2>3. /\ handler[t].at # "none" /\ s \notin opened
          /\ issued[s] = [tab |-> t, for |-> handler[t].at]
        BY <2>1 DEF TerminalInv, Consistent, RequestsHoldTheirs
    <2>4. issued[s] # Unissued
        BY <2>3, TerminalAssumption DEF Unissued
    <2>5. Owner(s) = u
        BY <2>3 DEF Owner
    <2> QED
        BY <2>2, <2>3, <2>4, <2>5
<1>2. /\ opened' = opened \cup {s} /\ handler' = [handler EXCEPT ![t] = Nothing]
      /\ UNCHANGED <<tab, clients, asked, issued, active, cleanup, closed, hurried>>
    BY DEF RequestDone
<1>3. handler[t].at = "terminal" => Noted(u, s)
    BY DEF RequestDone
<1>4. handler[t].at = "command" => sets' = sets /\ mine' = mine
    BY DEF RequestDone
<1>5. \A o \in SessionIds : Owner(o)' = Owner(o)
    BY <1>2 DEF Owner
<1>6. /\ \A o \in Tabs : o # t => handler'[o] = handler[o]
      /\ handler'[t] = Nothing /\ Nothing.session = NoTab /\ Nothing.at = "none"
      /\ Nothing \in [at : {"none", "terminal", "command"}, session : SessionIds \cup {NoTab}]
    BY <1>2 DEF TerminalInv, TerminalTypes, Nothing
<1>7. RequestsHoldTheirs' /\ UnissuedIsUnused' /\ Logged'
    <2>1. RequestsHoldTheirs'
        <3>1. ASSUME NEW o \in Tabs, o # t, handler[o].session # NoTab
              PROVE  handler[o].session # s
            <4>1. issued[handler[o].session] = [tab |-> o, for |-> handler[o].at]
                BY <3>1 DEF TerminalInv, Consistent, RequestsHoldTheirs
            <4> QED
                BY <1>1, <3>1, <4>1
        <3> QED
            BY <1>2, <1>6, <3>1 DEF TerminalInv, Consistent, RequestsHoldTheirs
    <2>2. UnissuedIsUnused'
        BY <1>1, <1>2 DEF TerminalInv, Consistent, UnissuedIsUnused
    <2>3. Logged'
        BY <1>2 DEF TerminalInv, Consistent, Logged
    <2> QED
        BY <2>1, <2>2, <2>3
<1>8. ASSUME NEW v \in TabUsers \ hurried
      PROVE  OneCleanup(v)' /\ EndedOnce(v)' /\ RequestsOfOpenTabs(v)'
    <2>1. OneCleanup(v)' /\ EndedOnce(v)'
        BY <1>2, <1>8 DEF TerminalInv, Calm, OneCleanup, EndedOnce, Owner, InUse
    <2>2. RequestsOfOpenTabs(v)'
        BY <1>2, <1>6, <1>8 DEF TerminalInv, Calm, RequestsOfOpenTabs
    <2> QED
        BY <2>1, <2>2
<1>9. ASSUME NEW o \in SessionIds, o # s, NEW q \in Tabs, handler[q].session = o
      PROVE  handler'[q].session = o
    BY <1>6, <1>9
<1>10. CASE handler[t].at = "command"
    <2>0. sets' = sets /\ mine' = mine
        BY <1>4, <1>10
    <2>1. TerminalTypes'
        BY <1>1, <1>2, <1>6, <2>0 DEF TerminalInv, TerminalTypes
    <2>2. SetsOfOneUser' /\ EntriesAreOwn' /\ CleanupsAreOwn'
        BY <1>2, <2>0
           DEF TerminalInv, Consistent, SetsOfOneUser, EntriesAreOwn, CleanupsAreOwn, Owner, InUse,
               EndedNext
    <2>3. ASSUME NEW v \in TabUsers \ hurried
          PROVE  CleanupOfTheEntry(v)' /\ EntryIsWatched(v)' /\ TerminalsAreHeld(v)'
        <3>1. CleanupOfTheEntry(v)' /\ EntryIsWatched(v)'
            BY <1>2, <2>0, <2>3
               DEF TerminalInv, Calm, CleanupOfTheEntry, EntryIsWatched, InUse, EndedNext
        <3>2. ASSUME NEW o \in active', issued'[o].for = "terminal", Owner(o)' = v
              PROVE  Held(o, v)'
            <4>1. o \in active /\ o \in SessionIds /\ o # s
                BY <1>1, <1>2, <1>10, <3>2 DEF TerminalInv, TerminalTypes
            <4>2. Held(o, v)
                BY <1>2, <1>5, <2>3, <3>2, <4>1 DEF TerminalInv, Calm, TerminalsAreHeld
            <4> QED
                BY <1>2, <1>9, <2>0, <4>1, <4>2 DEF Held, InUse
        <3> QED
            BY <3>1, <3>2 DEF TerminalsAreHeld
    <2> QED
        BY <1>2, <1>7, <1>8, <2>1, <2>2, <2>3 DEF TerminalInv, Consistent, Calm
<1>11. CASE handler[t].at = "terminal"
    <2>1. PICK g \in Nat : GrownBy(u, s, g)
        BY <1>1, <1>3, <1>11, NotedAppends
    <2>2. /\ sets' \in Seq(Seq(SessionIds)) /\ g \in DOMAIN sets' /\ g # 0
          /\ mine' = [mine EXCEPT ![u] = g]
          /\ mine[u] # 0 => g = mine[u] /\ g \in DOMAIN sets
          /\ mine[u] = 0 => g \notin DOMAIN sets /\ Len(sets'[g]) = 1
          /\ g \in DOMAIN sets => Len(sets'[g]) > Len(sets[g])
          /\ Len(sets'[g]) \in DOMAIN sets'[g] /\ sets'[g][Len(sets'[g])] = s
        BY <2>1 DEF GrownBy
    <2>3. /\ \A h \in DOMAIN sets : h \in DOMAIN sets'
          /\ \A h \in DOMAIN sets : \A k \in DOMAIN sets[h] :
                k \in DOMAIN sets'[h] /\ sets'[h][k] = sets[h][k]
          /\ \A h \in DOMAIN sets' : h \in DOMAIN sets \/ h = g
          /\ \A h \in DOMAIN sets' : \A k \in DOMAIN sets'[h] :
                \/ h \in DOMAIN sets /\ k \in DOMAIN sets[h]
                \/ h = g /\ k = Len(sets'[g])
        BY <2>1 DEF GrownBy
    <2>4. TerminalTypes'
        BY <1>1, <1>2, <1>6, <2>2 DEF TerminalInv, TerminalTypes
    <2>5. \A h \in DOMAIN sets : sets[h] # <<>> /\ 1 \in DOMAIN sets[h]
        <3> SUFFICES ASSUME NEW h \in DOMAIN sets PROVE sets[h] # <<>> /\ 1 \in DOMAIN sets[h]
            OBVIOUS
        <3>1. sets[h] # <<>> /\ sets[h] \in Seq(SessionIds)
            BY DEF TerminalInv, TerminalTypes, Consistent, SetsOfOneUser
        <3> QED
            BY <3>1
    <2>6. \A h \in DOMAIN sets : \A k \in DOMAIN sets[h] : sets[h][k] \in SessionIds
        BY DEF TerminalInv, TerminalTypes
    <2>7. \A v \in TabUsers : mine'[v] = IF v = u THEN g ELSE mine[v]
        BY <2>2 DEF TerminalInv, TerminalTypes
    <2>8. mine[u] = 0 => Owner(sets'[g][1]) = u
        BY <1>1, <2>2
    <2>9. mine[u] # 0 => sets'[g][1] = sets[g][1] /\ Owner(sets[g][1]) = u
        BY <1>1, <2>2, <2>3, <2>5 DEF TerminalInv, Consistent, EntriesAreOwn
    <2>10. SetsOfOneUser'
        <3>1. ASSUME NEW h \in DOMAIN sets' PROVE sets'[h] # <<>>
            <4>1. DOMAIN sets'[h] # {}
                BY <2>2, <2>3, <2>5
            <4>2. DOMAIN <<>> = {}
                OBVIOUS
            <4> QED
                BY <4>1, <4>2
        <3>2. ASSUME NEW h \in DOMAIN sets', NEW k \in DOMAIN sets'[h]
              PROVE  sets'[h][k] \in opened' /\ Owner(sets'[h][k]) = Owner(sets'[h][1])
            <4>1. CASE h \in DOMAIN sets /\ k \in DOMAIN sets[h]
                <5>1. sets'[h][k] = sets[h][k] /\ sets'[h][1] = sets[h][1]
                    BY <2>3, <2>5, <4>1
                <5> QED
                    BY <1>2, <4>1, <5>1 DEF TerminalInv, Consistent, SetsOfOneUser
            <4>2. CASE h = g /\ k = Len(sets'[g])
                <5>1. Owner(sets'[g][1]) = u
                    BY <2>8, <2>9, <2>2
                <5> QED
                    BY <1>1, <1>2, <2>2, <4>2, <5>1
            <4> QED
                BY <2>3, <4>1, <4>2
        <3> QED
            BY <1>2, <3>1, <3>2 DEF SetsOfOneUser, Owner
    <2>11. EntriesAreOwn'
        <3> SUFFICES ASSUME NEW v \in TabUsers, mine'[v] # 0
                     PROVE  mine'[v] \in DOMAIN sets' /\ Owner(sets'[mine'[v]][1]) = v
            BY <1>2 DEF EntriesAreOwn, Owner
        <3>1. CASE v = u
            BY <2>2, <2>7, <2>8, <2>9, <3>1
        <3>2. CASE v # u
            <4>1. mine[v] \in DOMAIN sets /\ Owner(sets[mine[v]][1]) = v
                BY <2>7, <3>2 DEF TerminalInv, Consistent, EntriesAreOwn
            <4> QED
                BY <2>3, <2>5, <2>7, <3>2, <4>1
        <3> QED
            BY <3>1, <3>2
    <2>12. CleanupsAreOwn'
        <3> SUFFICES ASSUME NEW l \in Listeners, InUse(l)
                     PROVE  /\ cleanup[l].set \in DOMAIN sets'
                            /\ cleanup[l].pos \in DOMAIN sets'[cleanup[l].set]
                            /\ Owner(sets'[cleanup[l].set][cleanup[l].pos]) = UserOf[l[1]]
            BY <1>2 DEF CleanupsAreOwn, InUse, EndedNext, Owner
        <3> QED
            BY <2>3 DEF TerminalInv, Consistent, CleanupsAreOwn, EndedNext
    <2>13. ASSUME NEW v \in TabUsers \ hurried
           PROVE  CleanupOfTheEntry(v)' /\ EntryIsWatched(v)' /\ TerminalsAreHeld(v)'
        <3>1. Calm(v)
            BY <2>13 DEF TerminalInv
        <3>2. CleanupOfTheEntry(v)'
            <4> SUFFICES ASSUME NEW l \in Listeners, UserOf[l[1]] = v, InUse(l)
                         PROVE  /\ mine'[v] # 0 /\ cleanup[l].set = mine'[v]
                                /\ closed[sets'[cleanup[l].set][cleanup[l].pos]] = 0
                BY <1>2 DEF CleanupOfTheEntry, InUse, EndedNext
            <4>1. /\ mine[v] # 0 /\ cleanup[l].set = mine[v] /\ closed[EndedNext(l)] = 0
                BY <3>1 DEF Calm, CleanupOfTheEntry
            <4>2. /\ cleanup[l].set \in DOMAIN sets
                  /\ cleanup[l].pos \in DOMAIN sets[cleanup[l].set]
                BY DEF TerminalInv, Consistent, CleanupsAreOwn
            <4> QED
                BY <2>2, <2>3, <2>7, <4>1, <4>2 DEF EndedNext
        <3>3. EntryIsWatched(v)'
            <4>1. CASE v = u
                <5>1. tab[t] = "open"
                    BY <1>1, <3>1, <4>1 DEF Calm, RequestsOfOpenTabs, Nothing
                <5> QED
                    BY <1>2, <4>1, <5>1 DEF EntryIsWatched
            <4>2. CASE v # u
                BY <1>2, <2>7, <3>1, <4>2 DEF Calm, EntryIsWatched, InUse
            <4> QED
                BY <4>1, <4>2
        <3>4. TerminalsAreHeld(v)'
            <4> SUFFICES ASSUME NEW o \in active, issued[o].for = "terminal", Owner(o) = v
                         PROVE  Held(o, v)'
                BY <1>2 DEF TerminalsAreHeld, Owner
            <4>1. CASE o = s
                <5>1. v = u /\ mine'[v] = g
                    BY <1>1, <2>7, <4>1
                <5>2. ASSUME NEW l \in Listeners, UserOf[l[1]] = v, InUse(l)
                      PROVE  cleanup[l].pos <= Len(sets'[g])
                    <6>1. mine[u] # 0 /\ cleanup[l].set = g
                        BY <2>2, <3>1, <5>1, <5>2 DEF Calm, CleanupOfTheEntry
                    <6>2. cleanup[l].pos \in DOMAIN sets[g] /\ sets[g] \in Seq(SessionIds)
                        BY <2>2, <5>2, <6>1 DEF TerminalInv, TerminalTypes, Consistent, CleanupsAreOwn
                    <6>3. sets'[g] \in Seq(SessionIds) /\ Len(sets'[g]) > Len(sets[g])
                        BY <2>2, <6>1
                    <6> QED
                        BY <6>2, <6>3
                <5> QED
                    BY <1>2, <2>2, <4>1, <5>1, <5>2 DEF Held, InUse
            <4>2. CASE o # s
                <5>1. Held(o, v) /\ o \in SessionIds
                    BY <3>1 DEF Calm, TerminalsAreHeld, TerminalInv, TerminalTypes
                <5>2. CASE \E q \in Tabs : handler[q].session = o
                    BY <1>9, <4>2, <5>1, <5>2 DEF Held
                <5>3. ASSUME mine[v] # 0, NEW k \in DOMAIN sets[mine[v]], sets[mine[v]][k] = o,
                             \A l \in Listeners : UserOf[l[1]] = v /\ InUse(l) => cleanup[l].pos <= k
                      PROVE  Held(o, v)'
                    <6>1. mine[v] \in DOMAIN sets /\ mine'[v] = mine[v]
                        BY <2>2, <2>7, <5>3 DEF TerminalInv, Consistent, EntriesAreOwn
                    <6>2. k \in DOMAIN sets'[mine'[v]] /\ sets'[mine'[v]][k] = o
                        BY <2>3, <5>3, <6>1
                    <6> QED
                        BY <1>2, <5>3, <6>1, <6>2 DEF Held, InUse
                <5> QED
                    BY <5>1, <5>2, <5>3 DEF Held
            <4> QED
                BY <4>1, <4>2
        <3> QED
            BY <3>2, <3>3, <3>4
    <2> QED
        BY <1>2, <1>7, <1>8, <2>4, <2>10, <2>11, <2>12, <2>13 DEF TerminalInv, Consistent, Calm
<1> QED
    BY <1>1, <1>10, <1>11

-----------------------------------------------------------------------------
(* Close and cleanup.                                                       *)

LEMMA HasLeast ==
    ASSUME NEW T \in SUBSET Nat, T # {}
    PROVE  \E x \in T : \A y \in T : x <= y
<1>1. PICK x \in T : \A y \in T : ~(<<y, x>> \in OpToRel(<, Nat))
    BY NatLessThanWellFounded, WFMin, Zenon
<1>2. ASSUME NEW y \in T PROVE x <= y
    <2>1. x \in Nat /\ y \in Nat
        OBVIOUS
    <2>2. ~(y < x)
        BY <1>1, <2>1 DEF OpToRel
    <2> QED
        BY <2>1, <2>2
<1> QED
    BY <1>2

(* The session at place k of Set g is next, or none is left.                *)
Proceeds(l, g, from, k) ==
    /\ g # 0 /\ k \in DOMAIN sets[g] /\ k >= from /\ sets[g][k] \in active'
    /\ \A j \in DOMAIN sets[g] : j >= from /\ sets[g][j] \in active' => k <= j
    /\ cleanup' = [cleanup EXCEPT ![l] = [set |-> g, pos |-> k]]
    /\ mine' = mine
NoneLeft(l, g, from) ==
    /\ g # 0 => \A j \in DOMAIN sets[g] : j >= from => sets[g][j] \notin active'
    /\ cleanup' = [cleanup EXCEPT ![l] = Rest]
    /\ mine' = IF g = 0 THEN mine ELSE [mine EXCEPT ![UserOf[l[1]]] = 0]

LEMMA GoesOnOrStops ==
    ASSUME TerminalInv, NEW l \in Listeners, NEW g \in Nat, NEW from \in Nat,
           g # 0 => g \in DOMAIN sets, GoOn(l, g, from)
    PROVE  NoneLeft(l, g, from) \/ \E k \in Nat : Proceeds(l, g, from, k)
<1> DEFINE next == IF g = 0 THEN {} ELSE Ahead(g, from, active')
<1>1. CASE next = {}
    <2>1. NoneLeft(l, g, from)
        BY <1>1 DEF GoOn, Ahead, NoneLeft
    <2> QED
        BY <2>1
<1>2. CASE next # {}
    <2>1. g # 0 /\ g \in DOMAIN sets /\ sets[g] \in Seq(SessionIds)
        BY <1>2 DEF TerminalInv, TerminalTypes
    <2>2. next \in SUBSET Nat
        BY <2>1 DEF Ahead
    <2> DEFINE k == CHOOSE k \in next : \A j \in next : k <= j
    <2>3. k \in next /\ \A j \in next : k <= j
        BY <1>2, <2>2, HasLeast
    <2>4. cleanup' = [cleanup EXCEPT ![l] = [set |-> g, pos |-> k]] /\ mine' = mine
        BY <1>2 DEF GoOn
    <2> HIDE DEF k
    <2>5. Proceeds(l, g, from, k)
        BY <2>1, <2>3, <2>4 DEF Proceeds, Ahead
    <2> QED
        BY <2>2, <2>3, <2>5
<1> QED
    BY <1>1, <1>2

(* The sessions a cleanup that goes on from a place still has to end.       *)
StillAhead(u, g, from) ==
    \A s \in active' : issued[s].for = "terminal" /\ Owner(s) = u =>
        \/ \E t \in Tabs : handler[t].session = s
        \/ g # 0 /\ \E k \in DOMAIN sets[g] : k >= from /\ sets[g][k] = s

(* A cleanup of user u goes on from a place: what it owes to u, if u is not *)
(* in a hurry, and leaves to the others.                                    *)
LEMMA CleanupMoves ==
    ASSUME TerminalInv, NEW l \in Listeners, NEW g \in Nat, NEW from \in Nat \ {0},
           NEW u \in TabUsers, u = UserOf[l[1]], GoOn(l, g, from),
           g # 0 => g \in DOMAIN sets /\ Owner(sets[g][1]) = u,
           UNCHANGED <<handler, issued, sets, opened>>,
           active' \subseteq active, hurried \subseteq hurried',
           closed' \in [SessionIds -> Nat], Logged',
           tab' \in [Tabs -> {"unused", "connecting", "left", "open", "failed", "closed"}],
           \A t \in Tabs : UserOf[t] # u => tab'[t] = tab[t],
           \A s \in SessionIds : Owner(s) # u => closed'[s] = closed[s],
           u \notin hurried' =>
               /\ mine[u] = g
               /\ \A m \in Listeners : UserOf[m[1]] = u /\ m # l => ~ InUse(m)
               /\ EndedOnce(u)' /\ RequestsOfOpenTabs(u)'
               /\ StillAhead(u, g, from)
    PROVE  TerminalInv'
<1>1. NoneLeft(l, g, from) \/ \E k \in Nat : Proceeds(l, g, from, k)
    BY GoesOnOrStops
<1>2. \A s \in SessionIds : Owner(s)' = Owner(s)
    BY DEF Owner
<1>3. /\ \A m \in Listeners : m # l => cleanup'[m] = cleanup[m]
      /\ NoneLeft(l, g, from) => cleanup'[l] = Rest
      /\ \A k \in Nat : Proceeds(l, g, from, k) =>
            cleanup'[l] = [set |-> g, pos |-> k] /\ cleanup'[l] # Rest
      /\ cleanup' \in [Listeners -> [set : Nat, pos : Nat]]
    <2>1. cleanup \in [Listeners -> [set : Nat, pos : Nat]] /\ Rest \in [set : Nat, pos : Nat]
        BY DEF TerminalInv, TerminalTypes, Rest
    <2>2. ASSUME NoneLeft(l, g, from)
          PROVE  /\ \A m \in Listeners : m # l => cleanup'[m] = cleanup[m]
                 /\ cleanup'[l] = Rest /\ cleanup' \in [Listeners -> [set : Nat, pos : Nat]]
        BY <2>1, <2>2 DEF NoneLeft
    <2>3. ASSUME NEW k \in Nat, Proceeds(l, g, from, k)
          PROVE  /\ \A m \in Listeners : m # l => cleanup'[m] = cleanup[m]
                 /\ cleanup'[l] = [set |-> g, pos |-> k] /\ cleanup'[l] # Rest
                 /\ cleanup' \in [Listeners -> [set : Nat, pos : Nat]]
        BY <2>1, <2>3 DEF Proceeds, Rest
    <2> QED
        BY <1>1, <2>2, <2>3
<1>4. /\ mine' \in [TabUsers -> Nat]
      /\ \A v \in TabUsers : mine'[v] # 0 => mine'[v] = mine[v]
      /\ \A v \in TabUsers : v # u => mine'[v] = mine[v]
      /\ NoneLeft(l, g, from) /\ g # 0 => mine'[u] = 0
      /\ NoneLeft(l, g, from) /\ g = 0 => mine'[u] = mine[u]
      /\ \A k \in Nat : Proceeds(l, g, from, k) => mine' = mine
    <2>1. mine \in [TabUsers -> Nat]
        BY DEF TerminalInv, TerminalTypes
    <2>2. ASSUME NoneLeft(l, g, from)
          PROVE  mine' = IF g = 0 THEN mine ELSE [mine EXCEPT ![u] = 0]
        BY <2>2 DEF NoneLeft
    <2>3. ASSUME NEW k \in Nat, Proceeds(l, g, from, k) PROVE mine' = mine
        BY <2>3 DEF Proceeds
    <2> QED
        BY <1>1, <2>1, <2>2, <2>3
<1>5. TerminalTypes'
    BY <1>3, <1>4 DEF TerminalInv, TerminalTypes
<1>6. Consistent'
    <2>1. RequestsHoldTheirs' /\ SetsOfOneUser'
        BY DEF TerminalInv, Consistent, RequestsHoldTheirs, SetsOfOneUser, Owner
    <2>2. UnissuedIsUnused'
        BY <1>5 DEF TerminalInv, TerminalTypes, Consistent, UnissuedIsUnused, Logged
    <2>3. EntriesAreOwn'
        BY <1>4 DEF TerminalInv, Consistent, EntriesAreOwn, Owner
    <2>4. CleanupsAreOwn'
        <3> SUFFICES ASSUME NEW m \in Listeners, InUse(m)'
                     PROVE  /\ cleanup'[m].set \in DOMAIN sets
                            /\ cleanup'[m].pos \in DOMAIN sets[cleanup'[m].set]
                            /\ Owner(sets[cleanup'[m].set][cleanup'[m].pos]) = UserOf[m[1]]
            BY DEF CleanupsAreOwn, EndedNext, Owner
        <3>1. CASE m # l
            BY <1>3, <3>1 DEF TerminalInv, Consistent, CleanupsAreOwn, InUse, EndedNext
        <3>2. CASE m = l
            <4>1. PICK k \in Nat : Proceeds(l, g, from, k)
                BY <1>1, <1>3, <3>2 DEF InUse
            <4>2. cleanup'[l] = [set |-> g, pos |-> k]
                BY <1>3, <4>1
            <4>3. g # 0 /\ k \in DOMAIN sets[g]
                BY <4>1 DEF Proceeds
            <4>4. Owner(sets[g][k]) = Owner(sets[g][1])
                BY <4>3 DEF TerminalInv, Consistent, SetsOfOneUser
            <4> QED
                BY <3>2, <4>2, <4>3, <4>4
        <3> QED
            BY <3>1, <3>2
    <2> QED
        BY <2>1, <2>2, <2>3, <2>4 DEF Consistent
<1>7. ASSUME NEW v \in TabUsers \ hurried', v # u PROVE Calm(v)'
    <2>1. Calm(v)
        BY <1>7 DEF TerminalInv
    <2>2. \A m \in Listeners : UserOf[m[1]] = v => cleanup'[m] = cleanup[m]
        BY <1>3, <1>7
    <2>3. OneCleanup(v)'
        BY <2>1, <2>2 DEF Calm, OneCleanup, InUse
    <2>4. CleanupOfTheEntry(v)'
        <3> SUFFICES ASSUME NEW m \in Listeners, UserOf[m[1]] = v, InUse(m)
                     PROVE  mine'[v] # 0 /\ cleanup[m].set = mine'[v] /\ closed'[EndedNext(m)] = 0
            BY <2>2 DEF CleanupOfTheEntry, InUse, EndedNext
        <3>1. /\ mine[v] # 0 /\ cleanup[m].set = mine[v] /\ closed[EndedNext(m)] = 0
            BY <2>1 DEF Calm, CleanupOfTheEntry
        <3>2. EndedNext(m) \in SessionIds /\ Owner(EndedNext(m)) = v
            BY DEF TerminalInv, TerminalTypes, Consistent, CleanupsAreOwn, EndedNext
        <3> QED
            BY <1>4, <1>7, <3>1, <3>2
    <2>5. EndedOnce(v)'
        BY <1>2, <1>7, <2>1 DEF Calm, EndedOnce
    <2>6. RequestsOfOpenTabs(v)'
        BY <1>7, <2>1 DEF Calm, RequestsOfOpenTabs
    <2>7. EntryIsWatched(v)'
        BY <1>4, <1>7, <2>1, <2>2 DEF Calm, EntryIsWatched, InUse
    <2>8. TerminalsAreHeld(v)'
        <3> SUFFICES ASSUME NEW s \in active', issued[s].for = "terminal", Owner(s) = v
                     PROVE  Held(s, v)'
            BY DEF TerminalsAreHeld, Owner
        <3>1. Held(s, v)
            BY <2>1 DEF Calm, TerminalsAreHeld
        <3> QED
            BY <1>4, <1>7, <2>2, <3>1 DEF Held, InUse
    <2> QED
        BY <2>3, <2>4, <2>5, <2>6, <2>7, <2>8 DEF Calm
<1>8. ASSUME u \notin hurried' PROVE Calm(u)'
    <2>1. /\ mine[u] = g /\ EndedOnce(u)' /\ RequestsOfOpenTabs(u)' /\ StillAhead(u, g, from)
          /\ \A m \in Listeners : UserOf[m[1]] = u /\ InUse(m)' => m = l
        BY <1>3, <1>8 DEF InUse
    <2>2. OneCleanup(u)'
        BY <2>1 DEF OneCleanup
    <2>3. CleanupOfTheEntry(u)'
        <3> SUFFICES ASSUME NEW m \in Listeners, UserOf[m[1]] = u, InUse(m)'
                     PROVE  mine'[u] # 0 /\ cleanup'[m].set = mine'[u] /\ closed'[EndedNext(m)'] = 0
            BY DEF CleanupOfTheEntry
        <3>1. m = l
            BY <2>1
        <3>2. PICK k \in Nat : Proceeds(l, g, from, k)
            BY <1>1, <1>3, <3>1 DEF InUse
        <3>3. cleanup'[l] = [set |-> g, pos |-> k] /\ mine'[u] = g /\ g # 0
            BY <1>3, <1>4, <2>1, <3>2 DEF Proceeds
        <3>4. EndedNext(m)' = sets[g][k] /\ sets[g][k] \in active' /\ k \in DOMAIN sets[g]
            BY <3>1, <3>2, <3>3 DEF Proceeds, EndedNext
        <3>5. sets[g][k] \in SessionIds /\ Owner(sets[g][k]) = u
            BY <3>3, <3>4 DEF TerminalInv, TerminalTypes, Consistent, SetsOfOneUser
        <3>6. issued[sets[g][k]] # Unissued
            BY <3>4, <3>5 DEF TerminalInv, Consistent, UnissuedIsUnused
        <3>7. closed'[sets[g][k]] <= 1 /\ closed'[sets[g][k]] # 1 /\ closed'[sets[g][k]] \in Nat
            BY <1>2, <2>1, <3>4, <3>5, <3>6 DEF EndedOnce
        <3> QED
            BY <3>1, <3>3, <3>4, <3>7
    <2>4. EntryIsWatched(u)'
        <3>1. CASE NoneLeft(l, g, from)
            <4>1. mine'[u] = 0
                BY <1>4, <2>1, <3>1
            <4> QED
                BY <4>1 DEF EntryIsWatched
        <3>2. CASE \E k \in Nat : Proceeds(l, g, from, k)
            BY <1>3, <3>2 DEF EntryIsWatched, InUse
        <3> QED
            BY <1>1, <3>1, <3>2
    <2>5. TerminalsAreHeld(u)'
        <3> SUFFICES ASSUME NEW s \in active', issued[s].for = "terminal", Owner(s) = u,
                            ~ \E t \in Tabs : handler[t].session = s
                     PROVE  Held(s, u)'
            BY DEF TerminalsAreHeld, Owner, Held
        <3>1. PICK j \in DOMAIN sets[g] : g # 0 /\ j >= from /\ sets[g][j] = s
            BY <2>1 DEF StillAhead
        <3>2. PICK k \in Nat : Proceeds(l, g, from, k)
            BY <1>1, <3>1 DEF NoneLeft
        <3>3. cleanup'[l].pos = k /\ k <= j /\ mine'[u] = g
            BY <1>3, <1>4, <2>1, <3>1, <3>2 DEF Proceeds
        <3> QED
            BY <2>1, <3>1, <3>3 DEF Held
    <2> QED
        BY <2>1, <2>2, <2>3, <2>4, <2>5 DEF Calm
<1> QED
    BY <1>5, <1>6, <1>7, <1>8 DEF TerminalInv

LEMMA EndsKeeps ==
    ASSUME TerminalInv, NEW t \in Tabs, NEW event \in {"error", "close"}, Ends(t, event)
    PROVE  TerminalInv'
<1> DEFINE u == UserOf[t]
           l == <<t, event>>
           g == mine[u]
<1>1. /\ l \in Listeners /\ l[1] = t /\ u \in TabUsers /\ g \in Nat
      /\ UNCHANGED <<asked, handler, issued, sets, opened, active, closed>>
      /\ GoOn(l, g, 1)
      /\ hurried' = IF Busy(u) THEN hurried \cup {u} ELSE hurried
    BY TerminalAssumption DEF Listeners, Ends, GoOn, TerminalInv, TerminalTypes
<1>2. g # 0 => g \in DOMAIN sets /\ Owner(sets[g][1]) = u
    BY <1>1 DEF TerminalInv, Consistent, EntriesAreOwn
<1>3. /\ tab' \in [Tabs -> {"unused", "connecting", "left", "open", "failed", "closed"}]
      /\ \A o \in Tabs : UserOf[o] # u => tab'[o] = tab[o]
    BY DEF Ends, TerminalInv, TerminalTypes
<1>4. closed' \in [SessionIds -> Nat] /\ Logged'
    BY <1>1 DEF TerminalInv, TerminalTypes, Consistent, Logged
<1>5. ASSUME u \notin hurried'
      PROVE  /\ \A m \in Listeners : UserOf[m[1]] = u /\ m # l => ~ InUse(m)
             /\ EndedOnce(u)' /\ RequestsOfOpenTabs(u)' /\ StillAhead(u, g, 1)
    <2>1. ~ Busy(u) /\ Calm(u)
        BY <1>1, <1>5 DEF TerminalInv
    <2>2. \A m \in Listeners : UserOf[m[1]] = u => ~ InUse(m)
        BY <2>1 DEF Busy, InUse
    <2>3. EndedOnce(u)'
        BY <1>1, <2>1 DEF Calm, EndedOnce, Owner
    <2>4. RequestsOfOpenTabs(u)'
        BY <1>1, <2>1 DEF Busy, RequestsOfOpenTabs
    <2>5. StillAhead(u, g, 1)
        <3> SUFFICES ASSUME NEW s \in active, issued[s].for = "terminal", Owner(s) = u
                     PROVE  \/ \E o \in Tabs : handler[o].session = s
                            \/ g # 0 /\ \E k \in DOMAIN sets[g] : k >= 1 /\ sets[g][k] = s
            BY <1>1 DEF StillAhead
        <3>1. Held(s, u)
            BY <2>1 DEF Calm, TerminalsAreHeld
        <3>2. g # 0 => \A k \in DOMAIN sets[g] : k >= 1
            <4>1. g # 0 => sets[g] \in Seq(SessionIds)
                BY <1>2 DEF TerminalInv, TerminalTypes
            <4> QED
                BY <4>1
        <3> QED
            BY <3>1, <3>2 DEF Held
    <2> QED
        BY <2>2, <2>3, <2>4, <2>5
<1>6. u = UserOf[l[1]] /\ active' \subseteq active /\ hurried \subseteq hurried'
    BY <1>1
<1> HIDE DEF u, l
<1>7. mine[u] = g
    OBVIOUS
<1> HIDE DEF g
<1> QED
    BY <1>1, <1>2, <1>3, <1>4, <1>5, <1>6, <1>7, CleanupMoves

LEMMA SessionEndedKeeps ==
    ASSUME TerminalInv, NEW l \in Listeners, SessionEnded(l)
    PROVE  TerminalInv'
<1> DEFINE u == UserOf[l[1]]
           g == cleanup[l].set
           p == cleanup[l].pos
           s == EndedNext(l)
<1>1. /\ InUse(l) /\ GoOn(l, g, p + 1)
      /\ closed' = [closed EXCEPT ![s] = @ + 1] /\ active' = active \ {s}
      /\ UNCHANGED <<tab, asked, handler, issued, sets, opened, hurried>>
    BY DEF SessionEnded, InUse, EndedNext
<1>2. /\ u \in TabUsers /\ g \in Nat /\ p \in Nat
      /\ g \in DOMAIN sets /\ p \in DOMAIN sets[g] /\ s = sets[g][p] /\ Owner(s) = u
    BY <1>1, TerminalAssumption
       DEF Listeners, TerminalInv, TerminalTypes, Consistent, CleanupsAreOwn, EndedNext
<1>3. s \in SessionIds /\ s \in opened /\ Owner(sets[g][1]) = u
    BY <1>2 DEF TerminalInv, TerminalTypes, Consistent, SetsOfOneUser
<1>4. /\ closed' \in [SessionIds -> Nat] /\ closed'[s] = closed[s] + 1
      /\ \A o \in SessionIds : o # s => closed'[o] = closed[o]
    BY <1>1, <1>3 DEF TerminalInv, TerminalTypes
<1>5. Logged'
    BY <1>1, <1>3, <1>4 DEF TerminalInv, Consistent, Logged
<1>6. ASSUME u \notin hurried'
      PROVE  /\ mine[u] = g
             /\ \A m \in Listeners : UserOf[m[1]] = u /\ m # l => ~ InUse(m)
             /\ EndedOnce(u)' /\ RequestsOfOpenTabs(u)' /\ StillAhead(u, g, p + 1)
    <2>1. Calm(u)
        BY <1>1, <1>2, <1>6 DEF TerminalInv
    <2>2. mine[u] = g /\ g # 0 /\ closed[s] = 0
        BY <1>1, <2>1 DEF Calm, CleanupOfTheEntry
    <2>3. \A m \in Listeners : UserOf[m[1]] = u /\ m # l => ~ InUse(m)
        BY <1>1, <2>1 DEF Calm, OneCleanup
    <2>4. EndedOnce(u)'
        <3> SUFFICES ASSUME NEW o \in SessionIds, issued[o] # Unissued, Owner(o) = u
                     PROVE  closed'[o] <= 1 /\ (closed'[o] = 1 => o \notin active')
            BY <1>1 DEF EndedOnce, Owner
        <3>1. CASE o = s
            BY <1>1, <1>4, <2>2, <3>1
        <3>2. CASE o # s
            BY <1>1, <1>4, <2>1, <3>2 DEF Calm, EndedOnce
        <3> QED
            BY <3>1, <3>2
    <2>5. RequestsOfOpenTabs(u)'
        BY <1>1, <2>1 DEF Calm, RequestsOfOpenTabs
    <2>6. StillAhead(u, g, p + 1)
        <3> SUFFICES ASSUME NEW o \in active, o # s, issued[o].for = "terminal", Owner(o) = u,
                            ~ \E t \in Tabs : handler[t].session = o
                     PROVE  \E k \in DOMAIN sets[g] : k >= p + 1 /\ sets[g][k] = o
            BY <1>1, <2>2 DEF StillAhead
        <3>1. Held(o, u)
            BY <2>1 DEF Calm, TerminalsAreHeld
        <3>2. PICK k \in DOMAIN sets[g] : sets[g][k] = o /\ p <= k
            BY <1>1, <2>2, <3>1 DEF Held
        <3>3. k # p
            BY <1>2, <3>2
        <3>4. k \in Nat
            <4>1. sets[g] \in Seq(SessionIds)
                BY <1>2 DEF TerminalInv, TerminalTypes
            <4> QED
                BY <4>1
        <3>5. k >= p + 1
            BY <1>2, <3>2, <3>3, <3>4
        <3> QED
            BY <3>2, <3>5
    <2> QED
        BY <2>2, <2>3, <2>4, <2>5, <2>6
<1>7. /\ p + 1 \in Nat \ {0} /\ active' \subseteq active /\ hurried \subseteq hurried'
      /\ \A o \in SessionIds : Owner(o) # u => closed'[o] = closed[o]
      /\ tab' \in [Tabs -> {"unused", "connecting", "left", "open", "failed", "closed"}]
    BY <1>1, <1>2, <1>4, SMTT(60) DEF TerminalInv, TerminalTypes
<1>8. u = UserOf[l[1]]
    OBVIOUS
<1> HIDE DEF u, g, p
<1> QED
    BY <1>1, <1>2, <1>3, <1>4, <1>5, <1>6, <1>7, <1>8, CleanupMoves

(* A session expires while nothing is written to the log.                   *)
LEMMA ExpireKeeps ==
    ASSUME TerminalInv, NEW s \in SessionIds, Expire(s)
    PROVE  TerminalInv'
<1>1. /\ active' = active \ {s}
      /\ UNCHANGED <<tab, clients, asked, handler, issued, sets, mine, cleanup, opened, closed,
                     hurried>>
    BY DEF Expire
<1>2. TerminalTypes'
    BY <1>1 DEF TerminalInv, TerminalTypes
<1>3. Consistent'
    BY <1>1, ZenonT(60) DEF TerminalInv, Consistent, RequestsHoldTheirs, UnissuedIsUnused, SetsOfOneUser,
       EntriesAreOwn, CleanupsAreOwn, Logged, Owner, InUse, EndedNext
<1>4. ASSUME NEW u \in TabUsers \ hurried PROVE Calm(u)'
    BY <1>1, <1>4 DEF TerminalInv, Calm, OneCleanup, CleanupOfTheEntry, EndedOnce,
       RequestsOfOpenTabs, EntryIsWatched, TerminalsAreHeld, Held, Owner, InUse, EndedNext
<1> QED
    BY <1>1, <1>2, <1>3, <1>4 DEF TerminalInv

LEMMA TerminalInvKept == TerminalInv /\ [TerminalNext]_terminalVars => TerminalInv'
<1> SUFFICES ASSUME TerminalInv, [TerminalNext]_terminalVars PROVE TerminalInv'
    OBVIOUS
<1>1. CASE UNCHANGED terminalVars
    <2>1. TerminalTypes'
        BY <1>1 DEF terminalVars, TerminalInv, TerminalTypes
    <2>2. Consistent'
        <3>1. Consistent
            BY DEF TerminalInv
        <3>2. UNCHANGED <<issued, active, sets, mine, cleanup, opened, closed, asked, handler>>
            BY <1>1 DEF terminalVars
        <3>3. UNCHANGED RequestsHoldTheirs /\ UNCHANGED UnissuedIsUnused /\ UNCHANGED SetsOfOneUser
            BY <3>2 DEF RequestsHoldTheirs, UnissuedIsUnused, SetsOfOneUser, Owner
        <3>4. UNCHANGED EntriesAreOwn /\ UNCHANGED CleanupsAreOwn /\ UNCHANGED Logged
            BY <3>2 DEF EntriesAreOwn, CleanupsAreOwn, Logged, InUse, EndedNext, Owner
        <3> QED
            BY <3>1, <3>3, <3>4 DEF Consistent
    <2>3. ASSUME NEW u, Calm(u) PROVE Calm(u)'
        BY <1>1, <2>3 DEF terminalVars, Calm, OneCleanup, CleanupOfTheEntry, EndedOnce,
           RequestsOfOpenTabs, EntryIsWatched, TerminalsAreHeld, Held, Owner, InUse, EndedNext
    <2>4. UNCHANGED hurried
        BY <1>1 DEF terminalVars
    <2> QED
        BY <2>1, <2>2, <2>3, <2>4 DEF TerminalInv
<1> QED
    BY <1>1, ConnectionKeeps, RequestStartsKeeps, SessionIssuedKeeps, RequestDoneKeeps, EndsKeeps,
       SessionEndedKeeps, ExpireKeeps DEF TerminalNext

LEMMA TerminalInvHolds == TerminalSpec => []TerminalInv
BY TerminalInvInit, TerminalInvKept, PTL DEF TerminalSpec

(* When the last tab of a user is closed, no terminal of theirs is still    *)
(* active (cleanupUserSessions of WebClientConnectionManager.ts).           *)
THEOREM ClosedTabsLeaveNothingHolds == TerminalSpec => []ClosedTabsLeaveNothing
<1>1. TerminalInv => ClosedTabsLeaveNothing
    <2> SUFFICES ASSUME TerminalInv, NEW u \in TabUsers \ hurried, AtRest(u),
                        NEW s \in active, issued[s].for = "terminal", UserOf[issued[s].tab] = u
                 PROVE  FALSE
        BY DEF ClosedTabsLeaveNothing
    <2>1. Calm(u) /\ s \in SessionIds /\ Owner(s) = u
        BY DEF TerminalInv, TerminalTypes, Owner
    <2>2. Held(s, u)
        BY <2>1 DEF Calm, TerminalsAreHeld
    <2>3. ASSUME NEW t \in Tabs, handler[t].session = s PROVE FALSE
        <3>1. s # NoTab /\ Nothing.session = NoTab
            BY <2>1, TerminalAssumption DEF Nothing
        <3>2. handler[t] # Nothing
            BY <2>3, <3>1
        <3>3. issued[s] = [tab |-> t, for |-> handler[t].at]
            BY <2>3, <3>1 DEF TerminalInv, Consistent, RequestsHoldTheirs
        <3> QED
            BY <2>1, <3>2, <3>3 DEF AtRest, Busy, Owner
    <2>4. mine[u] = 0
        BY <2>1 DEF Calm, EntryIsWatched, AtRest, Busy, InUse, Gone
    <2> QED
        BY <2>2, <2>3, <2>4 DEF Held
<1> QED
    BY <1>1, TerminalInvHolds, PTL

(* The audit trail has no end of a session before its start, and one end    *)
(* unless cleanups of its user overlap (endSession and issueSessionToken of *)
(* SecureRemoteTerminalService.ts).                                         *)
THEOREM AuditTrailHolds == TerminalSpec => []AuditTrail
<1>1. TerminalInv => AuditTrail
    <2> SUFFICES ASSUME TerminalInv, NEW s \in SessionIds
                 PROVE  /\ closed[s] > 0 => s \in opened
                        /\ closed[s] > 1 => UserOf[issued[s].tab] \in hurried
        BY DEF AuditTrail
    <2>1. closed[s] > 0 => s \in opened
        BY DEF TerminalInv, Consistent, Logged
    <2>2. ASSUME closed[s] > 1 PROVE UserOf[issued[s].tab] \in hurried
        <3>1. issued[s] # Unissued
            BY <2>2 DEF TerminalInv, TerminalTypes, Consistent, UnissuedIsUnused
        <3>2. Owner(s) \in TabUsers
            BY <3>1, TerminalAssumption DEF Owner, TerminalInv, TerminalTypes
        <3>3. Owner(s) \notin hurried => closed[s] <= 1 /\ closed[s] \in Nat
            BY <3>1, <3>2 DEF TerminalInv, TerminalTypes, Calm, EndedOnce
        <3> QED
            BY <2>2, <3>3 DEF Owner
    <2> QED
        BY <2>1, <2>2
<1> QED
    BY <1>1, TerminalInvHolds, PTL

-----------------------------------------------------------------------------
(* Keys on their way to a shell (AgentTerminal).                            *)

Msgs == [do : {"spawn", "stdin", "resize"}, key : Nat, session : Sessions]

KeyTypes ==
    /\ sessionIdRef \in spawned \cup {0} /\ spawned \in SUBSET Sessions
    /\ activeTokens \in SUBSET spawned
    /\ typedFor \in Seq(Sessions) /\ announced \in Seq(spawned)
    /\ outbox \in Seq(Msgs) /\ inbox \in Seq(Msgs) /\ tasks \in SUBSET Msgs
    /\ handlers \in SUBSET [msg : Msgs, link : Nat]
    /\ link \in Nat /\ faults \in Nat /\ dropped \in SUBSET Nat /\ hastyKeys \in BOOLEAN
    /\ received \in [Sessions -> Seq(Nat)]
    /\ buckets \in [Sessions -> [tokens : Nat, age : Nat, made : BOOLEAN]]
    /\ thisSecond \in [Sessions -> Nat]

(* What a session passed in this second and the tokens it has left.         *)
Capacity == RATE_LIMIT_TOKENS + RATE_LIMIT_BURST
WithinRate ==
    /\ \A i \in DOMAIN outbox : outbox[i].session \in spawned
    /\ \A s \in Sessions \ spawned : buckets[s] = NoBucket /\ thisSecond[s] = 0
    /\ \A s \in activeTokens :
          /\ buckets[s].tokens + thisSecond[s] <= Capacity
          /\ ~ buckets[s].made => thisSecond[s] = 0
          /\ buckets[s].age > 0 => thisSecond[s] = 0

(* A message is of a key that was typed for its session, or asks for a      *)
(* shell.                                                                   *)
OfAKey(m) == m.do # "spawn" /\ m.key \in DOMAIN typedFor /\ typedFor[m.key] = m.session
OfAShell(m) == m.do = "spawn" /\ m.key = 0
MessagesAreTrue ==
    /\ \A i \in DOMAIN outbox : OfAKey(outbox[i])
    /\ \A h \in handlers : OfAKey(h.msg)
    /\ \A i \in DOMAIN inbox : OfAKey(inbox[i]) \/ OfAShell(inbox[i])
    /\ \A t \in tasks : OfAKey(t) \/ OfAShell(t)
    /\ \A s \in Sessions : \A i \in DOMAIN received[s] :
          received[s][i] \in DOMAIN typedFor /\ typedFor[received[s][i]] = s

(* Where key k is.                                                          *)
Holds(q, k) == \E i \in DOMAIN q : q[i].key = k
InOutbox(k) == Holds(outbox, k)
InHandler(k) == \E h \in handlers : h.msg.key = k
InInbox(k) == Holds(inbox, k)
InTask(k) == \E t \in tasks : t.key = k
Got(k) == \E s \in Sessions : \E i \in DOMAIN received[s] : received[s][i] = k
OnItsWay(k) == InOutbox(k) \/ InHandler(k) \/ InInbox(k) \/ InTask(k)

OnePlace(k) ==
    /\ InOutbox(k) => ~ InHandler(k) /\ ~ InInbox(k) /\ ~ InTask(k) /\ ~ Got(k)
    /\ InHandler(k) => ~ InInbox(k) /\ ~ InTask(k) /\ ~ Got(k)
    /\ InInbox(k) => ~ InTask(k) /\ ~ Got(k)
    /\ InTask(k) => ~ Got(k)

Distinct(q) == \A i, j \in DOMAIN q : i # j /\ q[i].key # 0 => q[i].key # q[j].key
OnceThere ==
    /\ Distinct(outbox) /\ Distinct(inbox)
    /\ \A g, h \in handlers : g # h => g.msg.key # h.msg.key
    /\ \A t, u \in tasks : t # u /\ t.key # 0 => t.key # u.key
    /\ \A s \in Sessions : \A i, j \in DOMAIN received[s] :
          i < j => received[s][i] # received[s][j] /\ (~ hastyKeys => received[s][i] < received[s][j])

KeysAreSomewhere ==
    \A k \in DOMAIN typedFor :
        /\ OnePlace(k)
        /\ k \in dropped \/ OnItsWay(k) \/ Got(k)
        /\ ~ hastyKeys /\ OnItsWay(k) => k = Len(typedFor)

KeyInv == KeyTypes /\ WithinRate /\ MessagesAreTrue /\ OnceThere /\ KeysAreSomewhere

-----------------------------------------------------------------------------
LEMMA AppendFacts ==
    ASSUME NEW S, NEW q \in Seq(S), NEW e \in S
    PROVE  /\ Append(q, e) \in Seq(S) /\ Len(q) + 1 \in DOMAIN Append(q, e)
           /\ Append(q, e)[Len(q) + 1] = e /\ Len(q) \in Nat
           /\ \A i \in DOMAIN q : i \in DOMAIN Append(q, e) /\ Append(q, e)[i] = q[i] /\ i < Len(q) + 1
           /\ \A i \in DOMAIN Append(q, e) : i \in DOMAIN q \/ i = Len(q) + 1
OBVIOUS

LEMMA TailFacts ==
    ASSUME NEW S, NEW q \in Seq(S), q # <<>>
    PROVE  /\ Head(q) \in S /\ Tail(q) \in Seq(S) /\ 1 \in DOMAIN q /\ Head(q) = q[1]
           /\ \A i \in DOMAIN Tail(q) :
                 i \in Nat /\ i + 1 \in DOMAIN q /\ Tail(q)[i] = q[i + 1] /\ i + 1 # 1
           /\ \A i \in DOMAIN q :
                 i # 1 => i - 1 \in Nat /\ i - 1 \in DOMAIN Tail(q) /\ Tail(q)[i - 1] = q[i]
<1>1. /\ Head(q) \in S /\ Tail(q) \in Seq(S) /\ Len(q) \in Nat /\ Len(q) > 0
      /\ Len(Tail(q)) = Len(q) - 1 /\ \A i \in 1..Len(Tail(q)) : Tail(q)[i] = q[i + 1]
      /\ Head(q) = q[1]
    BY HeadTailProperties
<1>2. DOMAIN q = 1..Len(q) /\ DOMAIN Tail(q) = 1..Len(Tail(q))
    BY <1>1
<1> QED
    BY <1>1, <1>2

LEMMA KeyInvInit == AgentTerminalInit => KeyInv
<1> SUFFICES ASSUME AgentTerminalInit PROVE KeyInv
    OBVIOUS
<1>1. NoBucket \in [tokens : Nat, age : Nat, made : BOOLEAN]
    BY DEF NoBucket
<1>2. KeyTypes
    <2>1. /\ sessionIdRef \in spawned \cup {0} /\ spawned \in SUBSET Sessions
          /\ activeTokens \in SUBSET spawned
          /\ link \in Nat /\ faults \in Nat /\ dropped \in SUBSET Nat /\ hastyKeys \in BOOLEAN
        BY DEF AgentTerminalInit
    <2>2. /\ typedFor \in Seq(Sessions) /\ announced \in Seq(spawned)
          /\ outbox \in Seq(Msgs) /\ inbox \in Seq(Msgs) /\ tasks \in SUBSET Msgs
          /\ handlers \in SUBSET [msg : Msgs, link : Nat]
        BY DEF AgentTerminalInit
    <2>3. /\ received \in [Sessions -> Seq(Nat)]
          /\ buckets \in [Sessions -> [tokens : Nat, age : Nat, made : BOOLEAN]]
          /\ thisSecond \in [Sessions -> Nat]
        BY <1>1 DEF AgentTerminalInit
    <2> QED
        BY <2>1, <2>2, <2>3 DEF KeyTypes
<1>3. WithinRate
    BY DEF AgentTerminalInit, WithinRate
<1>4. MessagesAreTrue /\ OnceThere /\ KeysAreSomewhere
    BY DEF AgentTerminalInit, MessagesAreTrue, OnceThere, Distinct, KeysAreSomewhere
<1> QED
    BY <1>2, <1>3, <1>4 DEF KeyInv

(* Types, and the rate.                                                     *)

LEMMA RefilledBound ==
    ASSUME NEW b \in [tokens : Nat, age : Nat, made : BOOLEAN]
    PROVE  /\ Refilled(b) \in Nat
           /\ b.made /\ b.age = 0 => Refilled(b) <= b.tokens
           /\ Refilled(b) <= Capacity
<1>1. RATE_LIMIT_TOKENS \in Nat /\ RATE_LIMIT_BURST \in Nat
    BY AgentTerminalAssumption
<1>2. b.age * RATE_LIMIT_TOKENS \in Nat /\ (b.age = 0 => b.age * RATE_LIMIT_TOKENS = 0)
    BY <1>1
<1> DEFINE grown == b.age * RATE_LIMIT_TOKENS
<1> HIDE DEF grown
<1>3. b.tokens + grown \in Nat /\ (b.age = 0 => b.tokens + grown = b.tokens)
    BY <1>2 DEF grown
<1>4. Refilled(b) = IF b.made THEN Least(b.tokens + grown, Capacity) ELSE RATE_LIMIT_TOKENS
    BY DEF Refilled, Capacity, grown
<1> QED
    BY <1>1, <1>3, <1>4 DEF Least, Capacity

LEMMA HeadOfOutbox ==
    ASSUME KeyTypes, outbox # <<>>
    PROVE  Head(outbox) \in Msgs /\ Tail(outbox) \in Seq(Msgs)
BY TailFacts DEF KeyTypes

(* What handling a message does to the bucket of its session.               *)
LEMMA MessageHandled ==
    ASSUME KeyTypes, WithinRate, NEW kind, handleTerminalMessage(kind)
    PROVE  /\ buckets' \in [Sessions -> [tokens : Nat, age : Nat, made : BOOLEAN]]
           /\ thisSecond' \in [Sessions -> Nat] /\ WithinRate'
<1> DEFINE msg == Head(outbox)
           s == msg.session
           tokens == Refilled(buckets[s])
           passes == link # 0 /\ Admits(tokens)
<1>1. outbox # <<>> /\ outbox' = Tail(outbox) /\ spawned' = spawned /\ activeTokens' = activeTokens
    BY DEF handleTerminalMessage
<1>2. msg \in Msgs /\ s \in Sessions
    BY <1>1, HeadOfOutbox DEF Msgs
<1>3. s \in spawned
    BY <1>1, TailFacts DEF KeyTypes, WithinRate
<1>4. \A i \in DOMAIN outbox' : outbox'[i].session \in spawned
    BY <1>1, TailFacts DEF KeyTypes, WithinRate
<1>5. /\ buckets' = IF link = 0 THEN buckets ELSE
           [buckets EXCEPT ![s] = [tokens |-> IF passes THEN tokens - 1 ELSE tokens,
                                   age |-> 0, made |-> TRUE]]
      /\ thisSecond' = IF passes THEN [thisSecond EXCEPT ![s] = @ + 1] ELSE thisSecond
    BY DEF handleTerminalMessage
<1>6. buckets[s] \in [tokens : Nat, age : Nat, made : BOOLEAN] /\ thisSecond[s] \in Nat
    BY <1>2 DEF KeyTypes
<1>7. /\ tokens \in Nat /\ tokens <= Capacity
      /\ buckets[s].made /\ buckets[s].age = 0 => tokens <= buckets[s].tokens
    BY <1>6, RefilledBound
<1>8. s \in activeTokens => tokens + thisSecond[s] <= Capacity
    BY <1>6, <1>7, AgentTerminalAssumption DEF WithinRate, Capacity
<1>9. passes => tokens - 1 \in Nat
    BY <1>7 DEF Admits
<1> HIDE DEF tokens
<1>10. CASE link = 0
    BY <1>1, <1>4, <1>5, <1>10 DEF KeyTypes, WithinRate
<1>11. CASE link # 0 /\ ~ passes
    <2>1. buckets' = [buckets EXCEPT ![s] = [tokens |-> tokens, age |-> 0, made |-> TRUE]]
          /\ thisSecond' = thisSecond
        BY <1>5, <1>11
    <2>2. buckets'[s] = [tokens |-> tokens, age |-> 0, made |-> TRUE]
          /\ \A o \in Sessions : o # s => buckets'[o] = buckets[o]
        BY <1>2, <2>1 DEF KeyTypes
    <2>3. buckets' \in [Sessions -> [tokens : Nat, age : Nat, made : BOOLEAN]]
        BY <1>7, <2>1 DEF KeyTypes
    <2> QED
        BY <1>1, <1>3, <1>4, <1>8, <2>1, <2>2, <2>3 DEF KeyTypes, WithinRate
<1>12. CASE passes
    <2>1. buckets' = [buckets EXCEPT ![s] = [tokens |-> tokens - 1, age |-> 0, made |-> TRUE]]
          /\ thisSecond' = [thisSecond EXCEPT ![s] = @ + 1]
        BY <1>5, <1>12
    <2>2. /\ buckets'[s] = [tokens |-> tokens - 1, age |-> 0, made |-> TRUE]
          /\ thisSecond'[s] = thisSecond[s] + 1
          /\ \A o \in Sessions : o # s => buckets'[o] = buckets[o] /\ thisSecond'[o] = thisSecond[o]
        BY <1>2, <2>1 DEF KeyTypes
    <2>3. /\ buckets' \in [Sessions -> [tokens : Nat, age : Nat, made : BOOLEAN]]
          /\ thisSecond' \in [Sessions -> Nat]
        <3>1. [tokens |-> tokens - 1, age |-> 0, made |-> TRUE]
                 \in [tokens : Nat, age : Nat, made : BOOLEAN]
            BY <1>9, <1>12
        <3>2. thisSecond[s] + 1 \in Nat
            BY <1>6
        <3> HIDE DEF passes
        <3> QED
            BY <1>2, <2>1, <3>1, <3>2 DEF KeyTypes
    <2>4. ASSUME NEW o \in activeTokens
          PROVE  /\ buckets'[o].tokens + thisSecond'[o] <= Capacity
                 /\ ~ buckets'[o].made => thisSecond'[o] = 0
                 /\ buckets'[o].age > 0 => thisSecond'[o] = 0
        <3>1. CASE o = s
            <4>1. /\ buckets'[s].tokens = tokens - 1 /\ buckets'[s].age = 0 /\ buckets'[s].made
                BY <2>2
            <4>2. (tokens - 1) + (thisSecond[s] + 1) <= Capacity
                BY <1>6, <1>7, <1>8, <3>1, AgentTerminalAssumption DEF Capacity
            <4> QED
                BY <2>2, <3>1, <4>1, <4>2
        <3>2. CASE o # s
            BY <2>2, <3>2 DEF KeyTypes, WithinRate
        <3> QED
            BY <3>1, <3>2
    <2>5. \A o \in Sessions \ spawned : buckets'[o] = NoBucket /\ thisSecond'[o] = 0
        BY <1>3, <2>2 DEF WithinRate
    <2> QED
        BY <1>1, <1>4, <2>3, <2>4, <2>5 DEF WithinRate, Capacity
<1> QED
    BY <1>10, <1>11, <1>12

LEMMA KeyTypesKept ==
    ASSUME KeyTypes, WithinRate, [AgentTerminalNext]_agentTerminalVars
    PROVE  KeyTypes' /\ WithinRate'
<1>1. CASE UNCHANGED agentTerminalVars
    BY <1>1 DEF agentTerminalVars, tabVars, serviceVars, agentSideVars, KeyTypes, WithinRate
<1>2. ASSUME terminal_session_created PROVE KeyTypes' /\ WithinRate'
    <2>1. sessionIdRef' \in spawned /\ announced' \in Seq(spawned)
        BY <1>2, TailFacts DEF terminal_session_created, KeyTypes
    <2> QED
        BY <1>2, <2>1
           DEF terminal_session_created, serviceVars, agentSideVars, KeyTypes, WithinRate
<1>3. ASSUME NEW kind \in {"stdin", "resize"}, Types(kind) PROVE KeyTypes' /\ WithinRate'
    <2> DEFINE msg == [do |-> kind, key |-> Len(typedFor'), session |-> sessionIdRef]
    <2>1. /\ sessionIdRef \in spawned /\ sessionIdRef \in Sessions
          /\ typedFor' = Append(typedFor, sessionIdRef)
          /\ outbox' = Append(outbox, msg)
        BY <1>3 DEF Types, KeyTypes
    <2>2. typedFor' \in Seq(Sessions)
        BY <2>1, AppendFacts DEF KeyTypes
    <2>3. msg \in Msgs
        BY <1>3, <2>1, <2>2 DEF Msgs
    <2>4. outbox' \in Seq(Msgs)
        BY <2>1, <2>3, AppendFacts DEF KeyTypes
    <2>5. hastyKeys' \in BOOLEAN
        BY <1>3 DEF Types
    <2>6. KeyTypes'
        BY <1>3, <2>2, <2>4, <2>5 DEF Types, serviceVars, agentSideVars, KeyTypes
    <2>7. \A i \in DOMAIN outbox' : outbox'[i].session \in spawned
        <3>1. msg.session = sessionIdRef
            OBVIOUS
        <3> HIDE DEF msg
        <3> QED
            BY <2>1, <2>3, <3>1, AppendFacts DEF KeyTypes, WithinRate
    <2> QED
        BY <1>3, <2>6, <2>7 DEF Types, serviceVars, WithinRate
<1>4. ASSUME NEW s \in Sessions, handleSpawnTerminal(s) PROVE KeyTypes' /\ WithinRate'
    <2> DEFINE msg == [do |-> "spawn", key |-> 0, session |-> s]
    <2>1. msg \in Msgs
        BY DEF Msgs
    <2>2. inbox' = inbox \/ inbox' = Append(inbox, msg)
        BY <1>4 DEF handleSpawnTerminal
    <2>3. inbox' \in Seq(Msgs)
        <3> HIDE DEF msg
        <3>1. inbox \in Seq(Msgs)
            BY DEF KeyTypes
        <3> QED
            BY <2>1, <2>2, <3>1, AppendFacts
    <2>4. spawned' = spawned \cup {s} /\ activeTokens' = activeTokens \cup {s} /\ s \notin spawned
        BY <1>4 DEF handleSpawnTerminal
    <2>5. announced \in Seq(spawned') /\ s \in spawned'
        BY <2>4 DEF KeyTypes
    <2>6. announced' \in Seq(spawned')
        BY <1>4, <2>5, AppendFacts DEF handleSpawnTerminal
    <2>7. KeyTypes'
        BY <1>4, <2>3, <2>4, <2>6 DEF handleSpawnTerminal, KeyTypes
    <2>8. buckets[s] = NoBucket /\ thisSecond[s] = 0
        BY <2>4 DEF WithinRate
    <2> QED
        BY <1>4, <2>4, <2>7, <2>8, AgentTerminalAssumption
           DEF handleSpawnTerminal, WithinRate, NoBucket, Capacity
<1>5. ASSUME NEW s \in Sessions, endSession(s) PROVE KeyTypes' /\ WithinRate'
    <2>1. NoBucket \in [tokens : Nat, age : Nat, made : BOOLEAN]
        BY DEF NoBucket
    <2>2. KeyTypes'
        <3>1. /\ buckets' \in [Sessions -> [tokens : Nat, age : Nat, made : BOOLEAN]]
              /\ activeTokens' \in SUBSET spawned /\ faults' \in Nat
            BY <1>5, <2>1 DEF endSession, Fails, KeyTypes
        <3> QED
            BY <1>5, <3>1 DEF endSession, tabVars, agentSideVars, KeyTypes
    <2>3. \A o \in Sessions : o # s => buckets'[o] = buckets[o]
        BY <1>5 DEF endSession, KeyTypes
    <2>4. buckets'[s] = NoBucket
        BY <1>5 DEF endSession, KeyTypes
    <2> QED
        BY <1>5, <2>2, <2>3, <2>4 DEF endSession, tabVars, WithinRate, Capacity, KeyTypes
<1>6. ASSUME NEW s \in Sessions, ShellEnds(s) PROVE KeyTypes' /\ WithinRate'
    BY <1>6, SMTT(60) DEF ShellEnds, Fails, tabVars, serviceVars, KeyTypes, WithinRate
<1>7. ASSUME NEW kind, handleTerminalMessage(kind) PROVE KeyTypes' /\ WithinRate'
    <2> DEFINE msg == Head(outbox)
    <2>1. outbox # <<>> /\ outbox' = Tail(outbox)
        BY <1>7 DEF handleTerminalMessage
    <2>2. msg \in Msgs /\ outbox' \in Seq(Msgs)
        BY <2>1, HeadOfOutbox
    <2>3. \/ handlers' = handlers \cup {[msg |-> msg, link |-> link]} /\ dropped' = dropped
          \/ handlers' = handlers /\ dropped' = dropped \cup {msg.key}
        BY <1>7 DEF handleTerminalMessage
    <2>4. handlers' \in SUBSET [msg : Msgs, link : Nat] /\ dropped' \in SUBSET Nat
        <3>1. [msg |-> msg, link |-> link] \in [msg : Msgs, link : Nat] /\ msg.key \in Nat
            BY <2>2 DEF KeyTypes, Msgs
        <3> HIDE DEF msg
        <3> QED
            BY <2>3, <3>1 DEF KeyTypes
    <2>5. /\ buckets' \in [Sessions -> [tokens : Nat, age : Nat, made : BOOLEAN]]
          /\ thisSecond' \in [Sessions -> Nat] /\ WithinRate'
        BY <1>7, MessageHandled
    <2>6. UNCHANGED <<sessionIdRef, typedFor, announced, spawned, activeTokens, link, faults,
                      agentSideVars, hastyKeys>>
        BY <1>7 DEF handleTerminalMessage
    <2> QED
        BY <2>2, <2>4, <2>5, <2>6 DEF agentSideVars, KeyTypes
<1>8. ASSUME NEW h \in handlers, createSecureMessage(h) PROVE KeyTypes' /\ WithinRate'
    <2>1. h.msg \in Msgs /\ h.msg.key \in Nat
        BY DEF KeyTypes, Msgs
    <2>2. inbox' \in Seq(Msgs) /\ dropped' \in SUBSET Nat
        <3>1. /\ inbox' = inbox \/ inbox' = Append(inbox, h.msg)
              /\ dropped' = dropped \/ dropped' = dropped \cup {h.msg.key}
            BY <1>8 DEF createSecureMessage
        <3>2. inbox \in Seq(Msgs) /\ dropped \in SUBSET Nat
            BY DEF KeyTypes
        <3>3. Append(inbox, h.msg) \in Seq(Msgs)
            BY <2>1, <3>2, AppendFacts
        <3> QED
            BY <2>1, <3>1, <3>2, <3>3
    <2> QED
        BY <1>8, <2>2 DEF createSecureMessage, tabVars, KeyTypes, WithinRate
<1>9. ASSUME SecondPasses PROVE KeyTypes' /\ WithinRate'
    <2>1. /\ buckets' = [s \in Sessions |->
                IF buckets[s].made THEN [buckets[s] EXCEPT !.age = Least(@ + 1, MaxAge)] ELSE NoBucket]
          /\ thisSecond' = [s \in Sessions |-> 0]
          /\ UNCHANGED <<tabVars, spawned, activeTokens, handlers, link, faults, agentSideVars,
                         dropped, hastyKeys>>
        BY <1>9 DEF SecondPasses
    <2>2. ASSUME NEW s \in Sessions
          PROVE  /\ buckets'[s] \in [tokens : Nat, age : Nat, made : BOOLEAN]
                 /\ buckets'[s].tokens = buckets[s].tokens \/ buckets'[s].tokens = 0
                 /\ buckets[s] = NoBucket => buckets'[s] = NoBucket
        <3>1. /\ buckets[s] \in [tokens : Nat, age : Nat, made : BOOLEAN]
              /\ Least(buckets[s].age + 1, MaxAge) \in Nat
            BY AgentTerminalAssumption DEF KeyTypes, Least
        <3>2. CASE buckets[s].made
            <4>1. buckets'[s] = [buckets[s] EXCEPT !.age = Least(@ + 1, MaxAge)]
                BY <2>1, <3>2
            <4>2. buckets[s] # NoBucket
                BY <3>2 DEF NoBucket
            <4> QED
                BY <3>1, <4>1, <4>2
        <3>3. CASE ~ buckets[s].made
            BY <2>1, <3>3 DEF NoBucket
        <3> QED
            BY <3>2, <3>3
    <2>3. KeyTypes'
        BY <2>1, <2>2 DEF tabVars, agentSideVars, KeyTypes
    <2>4. \A s \in activeTokens : buckets'[s].tokens + thisSecond'[s] <= Capacity
        <3> SUFFICES ASSUME NEW s \in activeTokens
                     PROVE  buckets'[s].tokens + thisSecond'[s] <= Capacity
            OBVIOUS
        <3>1. s \in Sessions /\ thisSecond[s] \in Nat /\ buckets[s].tokens \in Nat
            BY DEF KeyTypes
        <3>2. buckets[s].tokens + thisSecond[s] <= Capacity /\ thisSecond'[s] = 0
            BY <2>1, <3>1 DEF WithinRate
        <3>3. Capacity \in Nat
            BY AgentTerminalAssumption DEF Capacity
        <3> QED
            BY <2>2, <3>1, <3>2, <3>3
    <2> QED
        BY <2>1, <2>2, <2>3, <2>4 DEF tabVars, KeyTypes, WithinRate, Capacity
<1>10. ASSUME run PROVE KeyTypes' /\ WithinRate'
    <2>1. inbox' \in Seq(Msgs) /\ tasks' \in SUBSET Msgs
        BY <1>10, TailFacts DEF run, KeyTypes
    <2> QED
        BY <1>10, <2>1 DEF run, tabVars, serviceVars, KeyTypes, WithinRate
<1>11. ASSUME LinkLost PROVE KeyTypes' /\ WithinRate'
    <2>1. dropped' \in SUBSET Nat
        <3>1. \A i \in DOMAIN inbox : inbox[i].key \in Nat
            <4>1. \A i \in DOMAIN inbox : inbox[i] \in Msgs
                BY DEF KeyTypes
            <4>2. \A m \in Msgs : m.key \in Nat
                BY DEF Msgs
            <4> QED
                BY <4>1, <4>2
        <3> QED
            BY <1>11, <3>1 DEF LinkLost, KeyTypes
    <2> QED
        BY <1>11, <2>1 DEF LinkLost, Fails, tabVars, serviceVars, KeyTypes, WithinRate
<1>12. ASSUME Reconnects PROVE KeyTypes' /\ WithinRate'
    BY <1>12, SMTT(60) DEF Reconnects, tabVars, serviceVars, agentSideVars, KeyTypes, WithinRate
<1>13. ASSUME NEW t \in tasks, spawn_shell(t) \/ terminal_stdin(t) \/ terminal_resize(t)
       PROVE  KeyTypes' /\ WithinRate'
    <2>1. t \in Msgs /\ t.key \in Nat /\ t.session \in Sessions
        BY DEF KeyTypes, Msgs
    <2>2. received' \in {received, [received EXCEPT ![t.session] = Append(@, t.key)]}
          /\ dropped' \in {dropped, dropped \cup {t.key}} /\ tasks' = tasks \ {t}
          /\ faults' \in {faults, faults + 1}
          /\ UNCHANGED <<tabVars, serviceVars, link, inbox, hastyKeys>>
        BY <1>13 DEF spawn_shell, terminal_stdin, terminal_resize, Takes, Drops, terminalStdin,
           tooOld, Fails
    <2>3. received' \in [Sessions -> Seq(Nat)]
        <3>1. Append(received[t.session], t.key) \in Seq(Nat)
            BY <2>1, AppendFacts DEF KeyTypes
        <3> QED
            BY <2>2, <3>1 DEF KeyTypes
    <2> QED
        BY <2>1, <2>2, <2>3, SMTT(60) DEF tabVars, serviceVars, KeyTypes, WithinRate
<1> QED
    BY <1>1, <1>2, <1>3, <1>4, <1>5, <1>6, <1>7, <1>8, <1>9, <1>10, <1>11, <1>12, <1>13
       DEF AgentTerminalNext, onData, fitTerminal, handleTerminalInput, handleTerminalResize

(* Where the keys are.                                                      *)

LEMMA KeysOfTail ==
    ASSUME NEW q \in Seq(Msgs), q # <<>>, Distinct(q)
    PROVE  /\ Head(q) \in Msgs /\ Tail(q) \in Seq(Msgs) /\ Distinct(Tail(q))
           /\ \E j \in DOMAIN q : Head(q) = q[j]
           /\ \A i \in DOMAIN Tail(q) : \E j \in DOMAIN q : Tail(q)[i] = q[j]
           /\ \A k : k # 0 => (Holds(Tail(q), k) <=> Holds(q, k) /\ k # Head(q).key)
<1>1. /\ Head(q) \in Msgs /\ Tail(q) \in Seq(Msgs) /\ 1 \in DOMAIN q /\ Head(q) = q[1]
      /\ \A i \in DOMAIN Tail(q) :
            i \in Nat /\ i + 1 \in DOMAIN q /\ Tail(q)[i] = q[i + 1] /\ i + 1 # 1
      /\ \A i \in DOMAIN q :
            i # 1 => i - 1 \in Nat /\ i - 1 \in DOMAIN Tail(q) /\ Tail(q)[i - 1] = q[i]
    BY TailFacts
<1>2. Distinct(Tail(q))
    BY <1>1 DEF Distinct
<1>3. ASSUME NEW k, k # 0 PROVE Holds(Tail(q), k) <=> Holds(q, k) /\ k # Head(q).key
    <2>1. ASSUME Holds(Tail(q), k) PROVE Holds(q, k) /\ k # Head(q).key
        BY <1>1, <1>3, <2>1 DEF Holds, Distinct
    <2>2. ASSUME Holds(q, k), k # Head(q).key PROVE Holds(Tail(q), k)
        BY <1>1, <2>2 DEF Holds
    <2> QED
        BY <2>1, <2>2
<1> QED
    BY <1>1, <1>2, <1>3

LEMMA KeysOfAppend ==
    ASSUME NEW q \in Seq(Msgs), NEW m \in Msgs, Distinct(q), m.key = 0 \/ ~ Holds(q, m.key)
    PROVE  /\ Append(q, m) \in Seq(Msgs) /\ Distinct(Append(q, m))
           /\ \A i \in DOMAIN Append(q, m) :
                 Append(q, m)[i] = m \/ \E j \in DOMAIN q : Append(q, m)[i] = q[j]
           /\ \A k : Holds(Append(q, m), k) <=> Holds(q, k) \/ k = m.key
<1>1. /\ Append(q, m) \in Seq(Msgs) /\ Len(q) + 1 \in DOMAIN Append(q, m)
      /\ Append(q, m)[Len(q) + 1] = m
      /\ \A i \in DOMAIN q : i \in DOMAIN Append(q, m) /\ Append(q, m)[i] = q[i]
      /\ \A i \in DOMAIN Append(q, m) : i \in DOMAIN q \/ i = Len(q) + 1
    BY AppendFacts
<1> DEFINE a == Append(q, m)
           n == Len(q) + 1
<1> HIDE DEF a, n
<1>2. /\ n \in DOMAIN a /\ a[n] = m
      /\ \A i \in DOMAIN q : i \in DOMAIN a /\ a[i] = q[i]
      /\ \A i \in DOMAIN a : i \in DOMAIN q \/ i = n
    BY <1>1 DEF a, n
<1>3. \A k : Holds(a, k) <=> Holds(q, k) \/ k = m.key
    BY <1>2 DEF Holds
<1>4. Distinct(a)
    <2> SUFFICES ASSUME NEW i \in DOMAIN a, NEW j \in DOMAIN a, i # j, a[i].key # 0
                 PROVE  a[i].key # a[j].key
        BY DEF Distinct
    <2>1. CASE i \in DOMAIN q /\ j \in DOMAIN q
        BY <1>2, <2>1 DEF Distinct
    <2>2. CASE i = n /\ j \in DOMAIN q
        BY <1>2, <2>2 DEF Holds
    <2>3. CASE i \in DOMAIN q /\ j = n
        BY <1>2, <2>3 DEF Holds
    <2> QED
        BY <1>2, <2>1, <2>2, <2>3
<1> QED
    BY <1>1, <1>2, <1>3, <1>4 DEF a, n

(* A key typed is no 0, which stands for a request for a shell.             *)
LEMMA KeysTyped ==
    ASSUME KeyTypes
    PROVE  \A k \in DOMAIN typedFor : k \in Nat /\ k # 0 /\ k <= Len(typedFor)
BY SMTT(60) DEF KeyTypes

KeyPlaces == MessagesAreTrue /\ OnceThere /\ KeysAreSomewhere

(* A step that moves no key.                                                *)
LEMMA NothingMoves ==
    ASSUME KeyPlaces, UNCHANGED <<typedFor, outbox, handlers, inbox, tasks, received, hastyKeys>>,
           dropped \subseteq dropped'
    PROVE  KeyPlaces'
<1>1. MessagesAreTrue' /\ OnceThere'
    BY DEF KeyPlaces, MessagesAreTrue, OfAKey, OfAShell, OnceThere, Distinct
<1>2. \A k : /\ (InOutbox(k)' <=> InOutbox(k)) /\ (InHandler(k)' <=> InHandler(k))
             /\ (InInbox(k)' <=> InInbox(k)) /\ (InTask(k)' <=> InTask(k)) /\ (Got(k)' <=> Got(k))
    BY DEF InOutbox, InHandler, InInbox, InTask, Got, Holds
<1>3. KeysAreSomewhere'
    BY <1>2 DEF KeyPlaces, KeysAreSomewhere, OnePlace, OnItsWay
<1> QED
    BY <1>1, <1>3 DEF KeyPlaces

(* A step that moves one key, or drops it: the others stay where they are.  *)
Stays(k) ==
    /\ (InOutbox(k)' <=> InOutbox(k)) /\ (InHandler(k)' <=> InHandler(k))
    /\ (InInbox(k)' <=> InInbox(k)) /\ (InTask(k)' <=> InTask(k)) /\ (Got(k)' <=> Got(k))

LEMMA OneKeyMoves ==
    ASSUME KeysAreSomewhere, UNCHANGED <<typedFor, hastyKeys>>, dropped \subseteq dropped',
           NEW key,
           \A k \in DOMAIN typedFor : k # key => Stays(k),
           key \in DOMAIN typedFor =>
               /\ OnItsWay(key) /\ OnePlace(key)'
               /\ key \in dropped' \/ OnItsWay(key)' \/ Got(key)'
    PROVE  KeysAreSomewhere'
<1> SUFFICES ASSUME NEW k \in DOMAIN typedFor
             PROVE  /\ OnePlace(k)'
                    /\ k \in dropped' \/ OnItsWay(k)' \/ Got(k)'
                    /\ ~ hastyKeys /\ OnItsWay(k)' => k = Len(typedFor)
    BY DEF KeysAreSomewhere
<1>1. CASE k = key
    BY <1>1 DEF KeysAreSomewhere
<1>2. CASE k # key
    <2>1. Stays(k)
        BY <1>2
    <2>2. OnePlace(k) /\ (k \in dropped \/ OnItsWay(k) \/ Got(k))
          /\ (~ hastyKeys /\ OnItsWay(k) => k = Len(typedFor))
        BY DEF KeysAreSomewhere
    <2> QED
        BY <2>1, <2>2 DEF Stays, OnePlace, OnItsWay
<1> QED
    BY <1>1, <1>2


LEMMA KeyTypedMoves ==
    ASSUME KeyTypes, KeyTypes', KeyPlaces, NEW kind \in {"stdin", "resize"}, Types(kind)
    PROVE  KeyPlaces'
<1>0. PICK n \in Nat : n = Len(typedFor) + 1
    BY DEF KeyTypes
<1>1. /\ sessionIdRef \in Sessions /\ typedFor \in Seq(Sessions) /\ outbox \in Seq(Msgs)
      /\ n \in Nat /\ n # 0
    BY <1>0 DEF Types, KeyTypes
<1>2. typedFor' = Append(typedFor, sessionIdRef) /\ Len(typedFor') = n
    BY <1>0, <1>1 DEF Types
<1>3. /\ n \in DOMAIN typedFor' /\ typedFor'[n] = sessionIdRef
      /\ \A k \in DOMAIN typedFor : k \in DOMAIN typedFor' /\ typedFor'[k] = typedFor[k] /\ k < n
      /\ \A k \in DOMAIN typedFor' : k \in DOMAIN typedFor \/ k = n
    BY <1>0, <1>1, <1>2, AppendFacts
<1>4. PICK msg \in Msgs : msg = [do |-> kind, key |-> n, session |-> sessionIdRef]
    BY <1>1 DEF Msgs
<1>5. /\ outbox' = Append(outbox, msg) /\ hastyKeys' = (hastyKeys \/ ~ Settled)
      /\ UNCHANGED <<handlers, inbox, tasks, received, dropped>>
    BY <1>2, <1>4 DEF Types, serviceVars, agentSideVars
<1>6. msg.do # "spawn" /\ msg.key = n /\ msg.session = sessionIdRef
    BY <1>4
<1>7. ~ InOutbox(n) /\ ~ InHandler(n) /\ ~ InInbox(n) /\ ~ InTask(n) /\ ~ Got(n)
    BY <1>1, <1>3, AgentTerminalAssumption
       DEF InOutbox, InHandler, InInbox, InTask, Got, Holds, KeyPlaces, MessagesAreTrue, OfAKey, OfAShell
<1>8. /\ Distinct(outbox')
      /\ \A i \in DOMAIN outbox' : outbox'[i] = msg \/ \E j \in DOMAIN outbox : outbox'[i] = outbox[j]
      /\ \A k : Holds(outbox', k) <=> Holds(outbox, k) \/ k = n
    BY <1>1, <1>4, <1>5, <1>6, <1>7, KeysOfAppend DEF InOutbox, KeyPlaces, OnceThere
<1>9. MessagesAreTrue'
    <2> DEFINE True(m) == m.do # "spawn" /\ m.key \in DOMAIN typedFor' /\ typedFor'[m.key] = m.session
    <2>1. True(msg)
        BY <1>3, <1>6
    <2>2. \A m : OfAKey(m) => True(m)
        BY <1>3 DEF OfAKey
    <2> HIDE DEF True
    <2>3. \A i \in DOMAIN outbox' : True(outbox'[i])
        BY <1>8, <2>1, <2>2 DEF KeyPlaces, MessagesAreTrue
    <2>4. /\ \A h \in handlers' : True(h.msg)
          /\ \A i \in DOMAIN inbox' : True(inbox'[i]) \/ OfAShell(inbox'[i])
          /\ \A t \in tasks' : True(t) \/ OfAShell(t)
        BY <1>5, <2>2 DEF KeyPlaces, MessagesAreTrue
    <2>5. \A s \in Sessions : \A i \in DOMAIN received'[s] :
             received'[s][i] \in DOMAIN typedFor' /\ typedFor'[received'[s][i]] = s
        BY <1>3, <1>5 DEF KeyPlaces, MessagesAreTrue
    <2> QED
        BY <2>3, <2>4, <2>5 DEF MessagesAreTrue, OfAKey, OfAShell, True
<1>10. OnceThere'
    <2>1. hastyKeys \in BOOLEAN /\ (~ hastyKeys' => ~ hastyKeys)
        BY <1>5 DEF KeyTypes
    <2> QED
        BY <1>5, <1>8, <2>1 DEF KeyPlaces, OnceThere, Distinct
<1>11. KeysAreSomewhere'
    <2>1. \A k : /\ InOutbox(k)' <=> InOutbox(k) \/ k = n
                 /\ (InHandler(k)' <=> InHandler(k)) /\ (InInbox(k)' <=> InInbox(k))
                 /\ (InTask(k)' <=> InTask(k)) /\ (Got(k)' <=> Got(k))
        BY <1>5, <1>8 DEF InOutbox, InHandler, InInbox, InTask, Got, Holds
    <2>2. ~ hastyKeys' => \A k : ~ OnItsWay(k)
        <3>1. DOMAIN <<>> = {}
            OBVIOUS
        <3> QED
            BY <1>5, <3>1 DEF Settled, OnItsWay, InOutbox, InHandler, InInbox, InTask, Holds
    <2> SUFFICES ASSUME NEW k \in DOMAIN typedFor'
                 PROVE  /\ OnePlace(k)'
                        /\ k \in dropped' \/ OnItsWay(k)' \/ Got(k)'
                        /\ ~ hastyKeys' /\ OnItsWay(k)' => k = Len(typedFor')
        BY DEF KeysAreSomewhere
    <2>3. CASE k = n
        BY <1>2, <1>7, <2>1, <2>3 DEF OnePlace, OnItsWay
    <2>4. CASE k \in DOMAIN typedFor /\ k # n
        BY <1>5, <2>1, <2>2, <2>4 DEF KeyPlaces, KeysAreSomewhere, OnePlace, OnItsWay
    <2> QED
        BY <1>3, <2>3, <2>4
<1> QED
    BY <1>9, <1>10, <1>11 DEF KeyPlaces

LEMMA SpawnMoves ==
    ASSUME KeyTypes, KeyPlaces, NEW s \in Sessions, handleSpawnTerminal(s)
    PROVE  KeyPlaces'
<1> DEFINE msg == [do |-> "spawn", key |-> 0, session |-> s]
<1>1. msg \in Msgs /\ OfAShell(msg) /\ msg.key = 0
    BY DEF Msgs, OfAShell
<1>2. /\ inbox' = inbox \/ inbox' = Append(inbox, msg)
      /\ UNCHANGED <<typedFor, outbox, handlers, tasks, received, dropped, hastyKeys>>
    BY DEF handleSpawnTerminal
<1> HIDE DEF msg
<1>3. CASE inbox' = inbox
    BY <1>2, <1>3, NothingMoves
<1>4. CASE inbox' = Append(inbox, msg)
    <2>0. inbox \in Seq(Msgs) /\ Distinct(inbox)
        BY DEF KeyTypes, KeyPlaces, OnceThere
    <2>1. /\ Distinct(inbox')
          /\ \A i \in DOMAIN inbox' : inbox'[i] = msg \/ \E j \in DOMAIN inbox : inbox'[i] = inbox[j]
          /\ \A k : Holds(inbox', k) <=> Holds(inbox, k) \/ k = 0
        <3>1. /\ Distinct(Append(inbox, msg))
              /\ \A i \in DOMAIN Append(inbox, msg) :
                    Append(inbox, msg)[i] = msg \/ \E j \in DOMAIN inbox : Append(inbox, msg)[i] = inbox[j]
              /\ \A k : Holds(Append(inbox, msg), k) <=> Holds(inbox, k) \/ k = msg.key
            BY <1>1, <2>0, KeysOfAppend
        <3> QED
            BY <1>1, <1>4, <3>1
    <2>2. MessagesAreTrue'
        BY <1>1, <1>2, <2>1 DEF KeyPlaces, MessagesAreTrue, OfAKey, OfAShell
    <2>3. OnceThere'
        BY <1>2, <2>1 DEF KeyPlaces, OnceThere, Distinct
    <2>4. \A k \in DOMAIN typedFor : Stays(k)
        BY <1>2, <2>1, KeysTyped DEF Stays, InOutbox, InHandler, InInbox, InTask, Got, Holds
    <2>5. 0 \notin DOMAIN typedFor
        BY KeysTyped
    <2>6. KeysAreSomewhere'
        BY <1>2, <2>4, <2>5, OneKeyMoves DEF KeyPlaces
    <2> QED
        BY <2>2, <2>3, <2>6 DEF KeyPlaces
<1> QED
    BY <1>2, <1>3, <1>4

LEMMA HandlingMoves ==
    ASSUME KeyTypes, KeyPlaces, NEW kind, handleTerminalMessage(kind)
    PROVE  KeyPlaces'
<1>0. outbox # <<>>
    BY DEF handleTerminalMessage
<1>a. PICK msg \in Msgs : msg = Head(outbox)
    BY <1>0, HeadOfOutbox
<1>b. PICK h : h = [msg |-> msg, link |-> link]
    OBVIOUS
<1>1. /\ outbox # <<>> /\ outbox' = Tail(outbox)
      /\ UNCHANGED <<typedFor, inbox, tasks, received, hastyKeys>>
      /\ \/ handlers' = handlers \cup {h} /\ dropped' = dropped
         \/ handlers' = handlers /\ dropped' = dropped \cup {msg.key}
    BY <1>0, <1>a, <1>b DEF handleTerminalMessage, agentSideVars
<1>2. h.msg = msg
    BY <1>b
<1>3. /\ msg \in Msgs /\ Distinct(outbox')
      /\ \E j \in DOMAIN outbox : msg = outbox[j]
      /\ \A i \in DOMAIN outbox' : \E j \in DOMAIN outbox : outbox'[i] = outbox[j]
      /\ \A k : k # 0 => (Holds(outbox', k) <=> Holds(outbox, k) /\ k # msg.key)
    BY <1>1, <1>a, KeysOfTail DEF KeyTypes, KeyPlaces, OnceThere
<1>4. OfAKey(msg) /\ InOutbox(msg.key)
    BY <1>3 DEF KeyPlaces, MessagesAreTrue, InOutbox, Holds
<1>5. msg.key \in DOMAIN typedFor /\ msg.key # 0
    BY <1>4, KeysTyped DEF OfAKey
<1>6. ~ InHandler(msg.key) /\ ~ InInbox(msg.key) /\ ~ InTask(msg.key) /\ ~ Got(msg.key)
    BY <1>4, <1>5 DEF KeyPlaces, KeysAreSomewhere, OnePlace
<1>7. MessagesAreTrue'
    BY <1>1, <1>2, <1>3, <1>4 DEF KeyPlaces, MessagesAreTrue, OfAKey, OfAShell
<1>8. OnceThere'
    BY <1>1, <1>2, <1>3, <1>6 DEF KeyPlaces, OnceThere, Distinct, InHandler
<1>9. /\ \A k : k # 0 => (InOutbox(k)' <=> InOutbox(k) /\ k # msg.key)
      /\ \A k : (InInbox(k)' <=> InInbox(k)) /\ (InTask(k)' <=> InTask(k)) /\ (Got(k)' <=> Got(k))
      /\ \A k : k # msg.key => (InHandler(k)' <=> InHandler(k))
      /\ InHandler(msg.key)' \/ msg.key \in dropped'
    BY <1>1, <1>2, <1>3 DEF InOutbox, InHandler, InInbox, InTask, Got, Holds
<1>10. KeysAreSomewhere'
    <2>1. \A k \in DOMAIN typedFor : k # msg.key => Stays(k)
        BY <1>9, KeysTyped DEF Stays
    <2>2. /\ OnItsWay(msg.key) /\ OnePlace(msg.key)'
          /\ msg.key \in dropped' \/ OnItsWay(msg.key)'
        BY <1>4, <1>5, <1>6, <1>9 DEF OnItsWay, OnePlace
    <2>3. dropped \subseteq dropped' /\ UNCHANGED <<typedFor, hastyKeys>>
        BY <1>1
    <2> QED
        BY <2>1, <2>2, <2>3, OneKeyMoves DEF KeyPlaces
<1> QED
    BY <1>7, <1>8, <1>10 DEF KeyPlaces

LEMMA SecureMessageMoves ==
    ASSUME KeyTypes, KeyPlaces, NEW h \in handlers, createSecureMessage(h)
    PROVE  KeyPlaces'
<1> DEFINE key == h.msg.key
<1>1. /\ handlers' = handlers \ {h}
      /\ UNCHANGED <<typedFor, outbox, tasks, received, hastyKeys>>
      /\ \/ inbox' = Append(inbox, h.msg) /\ dropped' = dropped
         \/ inbox' = inbox /\ dropped' = dropped \cup {key}
    BY DEF createSecureMessage, tabVars
<1>2. h.msg \in Msgs
    BY DEF KeyTypes
<1>3. OfAKey(h.msg) /\ InHandler(key)
    BY DEF KeyPlaces, MessagesAreTrue, InHandler
<1>4. key \in DOMAIN typedFor /\ key # 0
    BY <1>3, KeysTyped DEF OfAKey
<1>5. ~ InOutbox(key) /\ ~ InInbox(key) /\ ~ InTask(key) /\ ~ Got(key)
    BY <1>3, <1>4 DEF KeyPlaces, KeysAreSomewhere, OnePlace
<1>6. /\ Distinct(inbox')
      /\ \A i \in DOMAIN inbox' : inbox'[i] = h.msg \/ \E j \in DOMAIN inbox : inbox'[i] = inbox[j]
      /\ \A k : k # key => (Holds(inbox', k) <=> Holds(inbox, k))
      /\ Holds(inbox', key) \/ key \in dropped'
    <2>1. CASE inbox' = inbox /\ dropped' = dropped \cup {key}
        BY <2>1 DEF KeyPlaces, OnceThere
    <2>2. CASE inbox' = Append(inbox, h.msg)
        BY <1>2, <1>5, <2>2, KeysOfAppend DEF KeyTypes, KeyPlaces, OnceThere, InInbox
    <2> QED
        BY <1>1, <2>1, <2>2
<1>7. MessagesAreTrue'
    BY <1>1, <1>3, <1>6 DEF KeyPlaces, MessagesAreTrue, OfAKey, OfAShell
<1>8. OnceThere'
    BY <1>1, <1>6 DEF KeyPlaces, OnceThere, Distinct
<1>9. /\ \A k : (InOutbox(k)' <=> InOutbox(k)) /\ (InTask(k)' <=> InTask(k)) /\ (Got(k)' <=> Got(k))
      /\ \A k : k # key => (InHandler(k)' <=> InHandler(k)) /\ (InInbox(k)' <=> InInbox(k))
      /\ ~ InHandler(key)' /\ (InInbox(key)' \/ key \in dropped')
    BY <1>1, <1>6 DEF KeyPlaces, OnceThere, InOutbox, InHandler, InInbox, InTask, Got, Holds
<1> HIDE DEF key
<1>10. KeysAreSomewhere'
    <2>1. \A k \in DOMAIN typedFor : k # key => Stays(k)
        BY <1>9 DEF Stays
    <2>2. /\ OnItsWay(key) /\ OnePlace(key)'
          /\ key \in dropped' \/ OnItsWay(key)'
        BY <1>3, <1>5, <1>9 DEF OnItsWay, OnePlace
    <2>3. dropped \subseteq dropped' /\ UNCHANGED <<typedFor, hastyKeys>>
        BY <1>1
    <2> QED
        BY <2>1, <2>2, <2>3, OneKeyMoves DEF KeyPlaces
<1> QED
    BY <1>7, <1>8, <1>10 DEF KeyPlaces


LEMMA RunMoves ==
    ASSUME KeyTypes, KeyPlaces, run
    PROVE  KeyPlaces'
<1>1. /\ inbox # <<>> /\ inbox' = Tail(inbox) /\ tasks' = tasks \cup {Head(inbox)}
      /\ UNCHANGED <<typedFor, outbox, handlers, received, dropped, hastyKeys>>
    BY DEF run, tabVars, serviceVars
<1>2. inbox \in Seq(Msgs) /\ Distinct(inbox)
    BY DEF KeyTypes, KeyPlaces, OnceThere
<1>3. PICK msg \in Msgs : msg = Head(inbox)
    BY <1>1, <1>2, KeysOfTail
<1>4. /\ Distinct(inbox')
      /\ \E j \in DOMAIN inbox : msg = inbox[j]
      /\ \A i \in DOMAIN inbox' : \E j \in DOMAIN inbox : inbox'[i] = inbox[j]
      /\ \A k : k # 0 => (Holds(inbox', k) <=> Holds(inbox, k) /\ k # msg.key)
    BY <1>1, <1>2, <1>3, KeysOfTail
<1>5. (OfAKey(msg) \/ OfAShell(msg)) /\ InInbox(msg.key)
    BY <1>4 DEF KeyPlaces, MessagesAreTrue, InInbox, Holds
<1>6. msg.key # 0 => msg.key \in DOMAIN typedFor
    BY <1>5 DEF OfAKey, OfAShell
<1>7. msg.key # 0 => ~ InOutbox(msg.key) /\ ~ InHandler(msg.key) /\ ~ InTask(msg.key) /\ ~ Got(msg.key)
    BY <1>5, <1>6 DEF KeyPlaces, KeysAreSomewhere, OnePlace
<1>8. MessagesAreTrue'
    BY <1>1, <1>3, <1>4, <1>5 DEF KeyPlaces, MessagesAreTrue, OfAKey, OfAShell
<1>9. OnceThere'
    BY <1>1, <1>3, <1>4, <1>7 DEF KeyPlaces, OnceThere, Distinct, InTask
<1>10. /\ \A k : (InOutbox(k)' <=> InOutbox(k)) /\ (InHandler(k)' <=> InHandler(k)) /\ (Got(k)' <=> Got(k))
       /\ \A k : k # 0 => (InInbox(k)' <=> InInbox(k) /\ k # msg.key)
       /\ \A k : k # msg.key => (InTask(k)' <=> InTask(k))
       /\ InTask(msg.key)'
    BY <1>1, <1>3, <1>4 DEF InOutbox, InHandler, InInbox, InTask, Got, Holds
<1>11. KeysAreSomewhere'
    <2>1. \A k \in DOMAIN typedFor : k # msg.key => Stays(k)
        BY <1>10, KeysTyped DEF Stays
    <2>2. msg.key \in DOMAIN typedFor => msg.key # 0
        BY KeysTyped
    <2>3. msg.key \in DOMAIN typedFor => OnItsWay(msg.key) /\ OnePlace(msg.key)' /\ OnItsWay(msg.key)'
        BY <1>5, <1>7, <1>10, <2>2 DEF OnItsWay, OnePlace
    <2>4. dropped \subseteq dropped' /\ UNCHANGED <<typedFor, hastyKeys>>
        BY <1>1
    <2> QED
        BY <2>1, <2>3, <2>4, OneKeyMoves DEF KeyPlaces
<1> QED
    BY <1>8, <1>9, <1>11 DEF KeyPlaces

(* A task ends: its key is dropped, or the shell of its session gets it.    *)
LEMMA TaskMoves ==
    ASSUME KeyTypes, KeyPlaces, NEW t \in tasks,
           spawn_shell(t) \/ terminal_stdin(t) \/ terminal_resize(t)
    PROVE  KeyPlaces'
<1>1. /\ tasks' = tasks \ {t}
      /\ UNCHANGED <<typedFor, outbox, handlers, inbox, hastyKeys>>
      /\ \/ t.do = "spawn" /\ received' = received /\ dropped' = dropped
         \/ t.do # "spawn" /\ received' = received /\ dropped' = dropped \cup {t.key}
         \/ /\ t.do # "spawn" /\ dropped' = dropped
            /\ received' = [received EXCEPT ![t.session] = Append(@, t.key)]
    BY DEF spawn_shell, terminal_stdin, terminal_resize, Takes, Drops, terminalStdin, tabVars,
       serviceVars
<1>2. t \in Msgs /\ t.key \in Nat /\ t.session \in Sessions
    BY DEF KeyTypes, Msgs
<1>3. (OfAKey(t) \/ OfAShell(t)) /\ InTask(t.key)
    BY DEF KeyPlaces, MessagesAreTrue, InTask
<1>4. t.key # 0 => t.key \in DOMAIN typedFor
    BY <1>3 DEF OfAKey, OfAShell
<1>5. t.key # 0 => /\ ~ InOutbox(t.key) /\ ~ InHandler(t.key) /\ ~ InInbox(t.key) /\ ~ Got(t.key)
                   /\ (~ hastyKeys => t.key = Len(typedFor))
    BY <1>3, <1>4 DEF KeyPlaces, KeysAreSomewhere, OnePlace, OnItsWay
<1>6. \A k : /\ (InOutbox(k)' <=> InOutbox(k)) /\ (InHandler(k)' <=> InHandler(k))
             /\ (InInbox(k)' <=> InInbox(k))
    BY <1>1 DEF InOutbox, InHandler, InInbox, Holds
<1>7. \A k : k # 0 => (InTask(k)' <=> InTask(k) /\ k # t.key)
    BY <1>1 DEF KeyPlaces, OnceThere, InTask
<1>8. CASE received' = received
    <2>1. MessagesAreTrue' /\ OnceThere'
        BY <1>1, <1>8 DEF KeyPlaces, MessagesAreTrue, OfAKey, OfAShell, OnceThere, Distinct
    <2>2. \A k : Got(k)' <=> Got(k)
        BY <1>8 DEF Got
    <2>3. \A k \in DOMAIN typedFor : k # t.key => Stays(k)
        BY <1>6, <1>7, <2>2, KeysTyped DEF Stays
    <2>4. t.key \in DOMAIN typedFor => t.key # 0
        BY KeysTyped
    <2>5. t.key # 0 => t.do # "spawn"
        BY <1>3 DEF OfAShell, OfAKey
    <2>6. t.key # 0 => t.key \in dropped' \/ Got(t.key)'
        <3>1. CASE t.key \in dropped'
            BY <3>1
        <3>2. CASE /\ t.do # "spawn" /\ dropped' = dropped
                   /\ received' = [received EXCEPT ![t.session] = Append(@, t.key)]
            <4>1. /\ Len(received[t.session]) + 1 \in DOMAIN Append(received[t.session], t.key)
                  /\ Append(received[t.session], t.key)[Len(received[t.session]) + 1] = t.key
                BY <1>2, AppendFacts, SMTT(60) DEF KeyTypes
            <4>2. received'[t.session] = Append(received[t.session], t.key)
                BY <1>2, <3>2 DEF KeyTypes
            <4> QED
                BY <1>2, <4>1, <4>2 DEF Got
        <3> QED
            BY <1>1, <2>5, <3>1, <3>2
    <2>7. t.key \in DOMAIN typedFor =>
             /\ OnItsWay(t.key) /\ OnePlace(t.key)'
             /\ t.key \in dropped' \/ Got(t.key)'
        BY <1>3, <1>5, <1>6, <1>7, <2>2, <2>4, <2>6 DEF OnItsWay, OnePlace
    <2>8. dropped \subseteq dropped' /\ UNCHANGED <<typedFor, hastyKeys>>
        BY <1>1
    <2>9. KeysAreSomewhere'
        BY <2>3, <2>7, <2>8, OneKeyMoves DEF KeyPlaces
    <2> QED
        BY <2>1, <2>9 DEF KeyPlaces
<1>9. CASE /\ t.do # "spawn" /\ dropped' = dropped
           /\ received' = [received EXCEPT ![t.session] = Append(@, t.key)]
    <2> DEFINE s == t.session
               n == Len(received[s]) + 1
    <2>1. t.key # 0 /\ OfAKey(t)
        BY <1>3, <1>4, <1>9, KeysTyped DEF OfAKey, OfAShell
    <2>2. received[s] \in Seq(Nat)
        BY <1>2 DEF KeyTypes
    <2>3. /\ received'[s] = Append(received[s], t.key)
          /\ \A o \in Sessions : o # s => received'[o] = received[o]
        BY <1>2, <1>9 DEF KeyTypes
    <2>4. /\ n \in DOMAIN received'[s] /\ received'[s][n] = t.key
          /\ \A i \in DOMAIN received[s] :
                /\ i \in DOMAIN received'[s] /\ received'[s][i] = received[s][i] /\ i < n
          /\ \A i \in DOMAIN received'[s] : i \in DOMAIN received[s] \/ i = n
        BY <1>2, <2>2, <2>3, AppendFacts
    <2>5. \A k : Got(k)' <=> Got(k) \/ k = t.key
        BY <1>2, <2>3, <2>4, SMTT(60) DEF Got
    <2>6. MessagesAreTrue'
        <3>1. /\ \A i \in DOMAIN outbox' : OfAKey(outbox[i])
              /\ \A h \in handlers' : OfAKey(h.msg)
              /\ \A i \in DOMAIN inbox' : OfAKey(inbox[i]) \/ OfAShell(inbox[i])
              /\ \A u \in tasks' : OfAKey(u) \/ OfAShell(u)
            BY <1>1 DEF KeyPlaces, MessagesAreTrue
        <3>2. \A o \in Sessions : \A i \in DOMAIN received'[o] :
                 received'[o][i] \in DOMAIN typedFor /\ typedFor[received'[o][i]] = o
            BY <2>1, <2>3, <2>4, SMTT(60) DEF KeyPlaces, MessagesAreTrue, OfAKey
        <3> QED
            BY <1>1, <3>1, <3>2 DEF MessagesAreTrue, OfAKey, OfAShell
    <2>7. OnceThere'
        <3>1. ASSUME NEW o \in Sessions, NEW i \in DOMAIN received'[o], NEW j \in DOMAIN received'[o], i < j
              PROVE  /\ received'[o][i] # received'[o][j]
                     /\ ~ hastyKeys => received'[o][i] < received'[o][j]
            <4>1. CASE o # s \/ (i \in DOMAIN received[s] /\ j \in DOMAIN received[s])
                BY <2>3, <2>4, <3>1, <4>1 DEF KeyPlaces, OnceThere
            <4>2. CASE o = s /\ i \in DOMAIN received[s] /\ j = n
                <5>1. received'[o][i] = received[s][i] /\ received'[o][j] = t.key
                    BY <2>4, <4>2
                <5>2. received[s][i] \in DOMAIN typedFor /\ received[s][i] # t.key
                    BY <1>2, <1>5, <2>1, <4>2 DEF Got, KeyPlaces, MessagesAreTrue
                <5>3. \A k \in DOMAIN typedFor : k \in Nat /\ k <= Len(typedFor)
                    BY KeysTyped
                <5>4. received[s][i] \in Nat /\ received[s][i] <= Len(typedFor)
                    BY <5>2, <5>3
                <5>5. Len(typedFor) \in Nat
                    BY DEF KeyTypes
                <5> QED
                    BY <1>2, <1>5, <2>1, <5>1, <5>2, <5>4, <5>5
            <4>3. CASE o = s /\ i = n
                <5>1. j \in DOMAIN received[s] => j < n /\ j \in Nat
                    BY <2>2, <2>4
                <5>2. n \in Nat
                    BY <2>2
                <5> QED
                    BY <2>4, <3>1, <4>3, <5>1, <5>2
            <4> QED
                BY <2>4, <4>1, <4>2, <4>3
        <3> QED
            BY <1>1, <3>1 DEF KeyPlaces, OnceThere, Distinct
    <2>8. KeysAreSomewhere'
        <3>1. \A k \in DOMAIN typedFor : k # t.key => Stays(k)
            BY <1>6, <1>7, <2>5, KeysTyped DEF Stays
        <3>2. OnItsWay(t.key) /\ OnePlace(t.key)' /\ Got(t.key)'
            BY <1>3, <1>5, <1>6, <1>7, <2>1, <2>5 DEF OnItsWay, OnePlace
        <3>3. dropped \subseteq dropped' /\ UNCHANGED <<typedFor, hastyKeys>>
            BY <1>1
        <3> QED
            BY <3>1, <3>2, <3>3, OneKeyMoves DEF KeyPlaces
    <2> QED
        BY <2>6, <2>7, <2>8 DEF KeyPlaces
<1> QED
    BY <1>1, <1>8, <1>9

(* What was on its way to the agent is dropped.                             *)
LEMMA LinkLostMoves ==
    ASSUME KeyTypes, KeyPlaces, LinkLost
    PROVE  KeyPlaces'
<1>1. /\ inbox' = <<>> /\ dropped' = dropped \cup {inbox[i].key : i \in DOMAIN inbox}
      /\ UNCHANGED <<typedFor, outbox, handlers, tasks, received, hastyKeys>>
    BY DEF LinkLost, tabVars, serviceVars
<1>2. DOMAIN <<>> = {}
    OBVIOUS
<1>3. MessagesAreTrue' /\ OnceThere'
    BY <1>1, <1>2 DEF KeyPlaces, MessagesAreTrue, OfAKey, OfAShell, OnceThere, Distinct
<1>4. \A k : /\ (InOutbox(k)' <=> InOutbox(k)) /\ (InHandler(k)' <=> InHandler(k))
             /\ (InTask(k)' <=> InTask(k)) /\ (Got(k)' <=> Got(k)) /\ ~ InInbox(k)'
             /\ InInbox(k) => k \in dropped'
    BY <1>1, <1>2 DEF InOutbox, InHandler, InInbox, InTask, Got, Holds
<1>5. KeysAreSomewhere'
    BY <1>1, <1>4 DEF KeyPlaces, KeysAreSomewhere, OnePlace, OnItsWay
<1> QED
    BY <1>3, <1>5 DEF KeyPlaces

LEMMA KeyPlacesKept ==
    ASSUME KeyTypes, KeyTypes', KeyPlaces, [AgentTerminalNext]_agentTerminalVars
    PROVE  KeyPlaces'
<1>1. CASE UNCHANGED agentTerminalVars
    BY <1>1, NothingMoves DEF agentTerminalVars, tabVars, serviceVars, agentSideVars
<1>2. ASSUME terminal_session_created PROVE KeyPlaces'
    BY <1>2, NothingMoves DEF terminal_session_created, serviceVars, agentSideVars
<1>3. ASSUME NEW s \in Sessions, endSession(s) \/ ShellEnds(s) PROVE KeyPlaces'
    BY <1>3, NothingMoves DEF endSession, ShellEnds, tabVars, serviceVars, agentSideVars
<1>4. ASSUME SecondPasses \/ Reconnects PROVE KeyPlaces'
    BY <1>4, NothingMoves DEF SecondPasses, Reconnects, tabVars, serviceVars, agentSideVars
<1>5. ASSUME onData \/ fitTerminal PROVE KeyPlaces'
    BY <1>5, KeyTypedMoves DEF onData, fitTerminal
<1>6. ASSUME handleTerminalInput \/ handleTerminalResize PROVE KeyPlaces'
    BY <1>6, HandlingMoves DEF handleTerminalInput, handleTerminalResize
<1> QED
    BY <1>1, <1>2, <1>3, <1>4, <1>5, <1>6, SpawnMoves, SecureMessageMoves, RunMoves, TaskMoves,
       LinkLostMoves DEF AgentTerminalNext

LEMMA KeyInvHolds == AgentTerminalSpec => []KeyInv
<1>1. KeyInv <=> KeyTypes /\ WithinRate /\ KeyPlaces
    BY DEF KeyInv, KeyPlaces
<1>2. KeyInv /\ [AgentTerminalNext]_agentTerminalVars => KeyInv'
    BY KeyTypesKept, KeyPlacesKept DEF KeyInv, KeyPlaces
<1> QED
    BY KeyInvInit, <1>2, PTL DEF AgentTerminalSpec

(* THEOREM.  A shell gets only keys typed for its session, each once, in    *)
(* the order they were typed as long as each was typed when the one before  *)
(* had arrived; none is lost without a reason; and no session passes more   *)
(* than its limit and its burst in a second (SecureRemoteTerminalService,   *)
(* the goroutine per message of the agent).                                 *)
THEOREM KeysReachTheirShellHolds == AgentTerminalSpec => []KeysReachTheirShell
<1>1. KeyInv => KeysReachTheirShell
    <2> SUFFICES ASSUME KeyInv PROVE KeysReachTheirShell
        OBVIOUS
    <2>1. ASSUME NEW s \in Sessions
          PROVE  /\ \A i \in DOMAIN received[s] : typedFor[received[s][i]] = s
                 /\ \A i, j \in DOMAIN received[s] :
                       i < j => /\ received[s][i] # received[s][j]
                                /\ ~ hastyKeys => received[s][i] < received[s][j]
        BY DEF KeyInv, MessagesAreTrue, OnceThere
    <2>2. ASSUME NEW s \in Sessions, s \in activeTokens
          PROVE  thisSecond[s] <= RATE_LIMIT_TOKENS + RATE_LIMIT_BURST
        <3>1. /\ buckets[s].tokens \in Nat /\ thisSecond[s] \in Nat
              /\ buckets[s].tokens + thisSecond[s] <= Capacity
            BY <2>2 DEF KeyInv, KeyTypes, WithinRate
        <3> QED
            BY <3>1, AgentTerminalAssumption DEF Capacity
    <2>3. ASSUME Settled, NEW k \in DOMAIN typedFor, k \notin dropped
          PROVE  \E i \in DOMAIN received[typedFor[k]] : received[typedFor[k]][i] = k
        <3>1. ~ OnItsWay(k)
            <4>1. DOMAIN <<>> = {}
                OBVIOUS
            <4> QED
                BY <2>3, <4>1 DEF Settled, OnItsWay, InOutbox, InHandler, InInbox, InTask, Holds
        <3>2. Got(k)
            BY <2>3, <3>1 DEF KeyInv, KeysAreSomewhere
        <3>3. PICK s \in Sessions : \E i \in DOMAIN received[s] : received[s][i] = k
            BY <3>2 DEF Got
        <3>4. typedFor[k] = s
            BY <3>3 DEF KeyInv, MessagesAreTrue
        <3> QED
            BY <3>3, <3>4
    <2> QED
        BY <2>1, <2>2, <2>3 DEF KeysReachTheirShell
<1> QED
    BY <1>1, KeyInvHolds, PTL


===============================================================================
