-------------------------- MODULE TerminalSessions --------------------------
(***************************************************************************)
(* Terminals of web clients (WebClientConnectionManager.ts and             *)
(* SecureRemoteTerminalService.ts of server/src, components/Terminal.tsx): *)
(* a tab is authenticated, asks for a terminal on a machine, gets a        *)
(* session, and all the sessions of its user are ended when it closes.     *)
(* Every handler waits for the database in between.                        *)
(***************************************************************************)
EXTENDS Naturals, Sequences, FiniteSets

CONSTANTS
    Tabs,        \* connections of web clients
    TabUsers, UserOf,  \* the users, and whose tab is whose
    SessionIds,  \* the ids of the sessions issued
    NoTab        \* no tab, no session, no purpose

ASSUME TerminalAssumption ==
    /\ UserOf \in [Tabs -> TabUsers]
    /\ NoTab \notin Tabs \cup SessionIds

Listeners == Tabs \X {"error", "close"}
Gone == {"left", "closed"}

VARIABLES
    tab,       \* a connection; "left": closed while it was authenticated
    clients,   \* webClientSessions: the tabs every broadcast goes to
    asked,     \* hasSpawnedRef: tabs that have asked for a terminal
    handler,   \* handler of spawn_terminal or execute_command of a tab
    issued,    \* issued[s]: the tab s was issued for, and for what
    active,    \* activeSessions
    sets,      \* the Sets of session ids that were made, each in its order
    mine,      \* userSessions: number of the user's Set, 0: no entry
    cleanup,   \* cleanupUserSessions: the Set and the place it is at
    opened, closed,  \* rows of the audit log: SHELL_OPEN, SHELL_CLOSE
    hurried    \* history: users with a tab closed while one of their
               \* requests or cleanups was under way

terminalVars == <<tab, clients, asked, handler, issued, active, sets, mine, cleanup,
          opened, closed, hurried>>

Nothing == [at |-> "none", session |-> NoTab]
Unissued == [tab |-> NoTab, for |-> NoTab]
Rest == [set |-> 0, pos |-> 0]

TerminalInit ==
    /\ tab = [t \in Tabs |-> "unused"]
    /\ clients = {} /\ sets = <<>>
    /\ asked = {} /\ active = {} /\ hurried = {}
    /\ handler = [t \in Tabs |-> Nothing]
    /\ issued = [s \in SessionIds |-> Unissued]
    /\ mine = [u \in TabUsers |-> 0]
    /\ cleanup = [l \in Listeners |-> Rest]
    /\ opened = {} /\ closed = [s \in SessionIds |-> 0]

-----------------------------------------------------------------------------
(* The connection of a tab                                                 *)

Connect(t) ==
    /\ tab[t] = "unused"
    /\ tab' = [tab EXCEPT ![t] = "connecting"]
    /\ UNCHANGED <<clients, asked, handler, issued, active, sets, mine, cleanup,
                   opened, closed, hurried>>

(* The tab is entered although it may be gone, and only now are listeners   *)
(* attached: the close of a tab that has left is never seen.                *)
Authenticated(t) ==
    /\ tab[t] \in {"connecting", "left"} /\ t \notin clients
    /\ tab' = [tab EXCEPT ![t] = IF @ = "left" THEN @ ELSE "open"]
    /\ clients' = clients \cup {t}
    /\ UNCHANGED <<asked, handler, issued, active, sets, mine, cleanup, opened,
                   closed, hurried>>

Rejected(t) ==
    /\ tab[t] = "connecting"
    /\ tab' = [tab EXCEPT ![t] = "closed"]
    /\ UNCHANGED <<clients, asked, handler, issued, active, sets, mine, cleanup,
                   opened, closed, hurried>>

Leave(t) ==
    /\ tab[t] = "connecting"
    /\ tab' = [tab EXCEPT ![t] = "left"]
    /\ UNCHANGED <<clients, asked, handler, issued, active, sets, mine, cleanup,
                   opened, closed, hurried>>

-----------------------------------------------------------------------------
(* Requests of a tab                                                       *)

(* The tab asks once.  What it sends before it is authenticated is lost; so *)
(* is a request for a machine that is not connected.                        *)
Spawn(t) ==
    /\ tab[t] \in {"connecting", "open"} /\ t \notin asked
    /\ asked' = asked \cup {t}
    /\ \/ /\ tab[t] = "open" /\ handler[t] = Nothing
          /\ handler' = [handler EXCEPT ![t].at = "terminal"]
       \/ UNCHANGED handler
    /\ UNCHANGED <<tab, clients, issued, active, sets, mine, cleanup, opened,
                   closed, hurried>>

Execute(t) ==
    /\ tab[t] = "open" /\ handler[t] = Nothing
    /\ handler' = [handler EXCEPT ![t].at = "command"]
    /\ UNCHANGED <<tab, clients, asked, issued, active, sets, mine, cleanup,
                   opened, closed, hurried>>

(* userSessions.get(userId).add(sessionId)                                  *)
Noted(u, s) ==
    IF mine[u] = 0
    THEN /\ sets' = Append(sets, <<s>>)
         /\ mine' = [mine EXCEPT ![u] = Len(sets')]
    ELSE /\ sets' = [sets EXCEPT ![mine[u]] = Append(@, s)]
         /\ UNCHANGED mine

(* Faulty: the session is noted for its user at once.                       *)
IssuedAndNoted(t) ==
    /\ handler[t].at # "none" /\ handler[t].session = NoTab
    /\ \E s \in SessionIds :
          /\ issued[s] = Unissued
          /\ issued' = [issued EXCEPT ![s] = [tab |-> t, for |-> handler[t].at]]
          /\ active' = active \cup {s}
          /\ handler' = [handler EXCEPT ![t].session = s]
          /\ Noted(UserOf[t], s)
    /\ UNCHANGED <<tab, clients, asked, cleanup, opened, closed, hurried>>

(* issueSessionToken: the session is active before its audit row is written *)
SessionIssued(t) ==
    /\ handler[t].at # "none" /\ handler[t].session = NoTab
    /\ \E s \in SessionIds :
          /\ issued[s] = Unissued
          /\ issued' = [issued EXCEPT ![s] = [tab |-> t, for |-> handler[t].at]]
          /\ active' = active \cup {s}
          /\ handler' = [handler EXCEPT ![t].session = s]
    /\ UNCHANGED <<tab, clients, asked, sets, mine, cleanup, opened, closed, hurried>>

(* No access: the tab is not answered.                                      *)
AccessDenied(t) ==
    /\ handler[t].at # "none" /\ handler[t].session = NoTab
    /\ handler' = [handler EXCEPT ![t] = Nothing]
    /\ UNCHANGED <<tab, clients, asked, issued, active, sets, mine, cleanup, opened,
                   closed, hurried>>

(* The audit row is written; a terminal is noted for its user.              *)
RequestDone(t) ==
    LET s == handler[t].session
        u == UserOf[t]
    IN  /\ s # NoTab
        /\ opened' = opened \cup {s}
        /\ IF handler[t].at = "terminal"
           THEN /\ Noted(u, s)
           ELSE UNCHANGED <<sets, mine>>
        /\ handler' = [handler EXCEPT ![t] = Nothing]
        /\ UNCHANGED <<tab, clients, asked, issued, active, cleanup, closed, hurried>>

-----------------------------------------------------------------------------
(* Close and cleanup                                                       *)

(* The sessions a cleanup still has to end.  The loop runs over the live    *)
(* Set, so it meets sessions that are added while it waits; faulty: it ends *)
(* with the first one.                                                      *)
AheadOnce(g, from, act) == {k \in DOMAIN sets[g] : k = from /\ k = 1 /\ sets[g][k] \in act}
Ahead(g, from, act) == {k \in DOMAIN sets[g] : k >= from /\ sets[g][k] \in act}

(* deleteWebClient                                                          *)
Removed(t) == clients \ {t}

(* The loop goes on to the next session that is active, or ends: the user's *)
(* entry is deleted, whichever Set it holds by now, and so is the client.   *)
GoOn(l, g, from) ==
    LET next == IF g = 0 THEN {} ELSE Ahead(g, from, active')
    IN  IF next # {}
        THEN /\ cleanup' = [cleanup EXCEPT ![l] = [set |-> g, pos |-> CHOOSE k \in next : \A j \in next : k <= j]]
             /\ UNCHANGED <<mine, clients>>
        ELSE /\ cleanup' = [cleanup EXCEPT ![l] = Rest]
             /\ mine' = IF g = 0 THEN mine ELSE [mine EXCEPT ![UserOf[l[1]]] = 0]
             /\ clients' = Removed(l[1])

Busy(u) ==
    \/ \E t \in Tabs : UserOf[t] = u /\ handler[t] # Nothing
    \/ \E l \in Listeners : UserOf[l[1]] = u /\ cleanup[l] # Rest

(* An `error` event, which a `close` event follows, or a close alone.       *)
Ends(t, event) ==
    /\ tab[t] \in IF event = "close" THEN {"open", "failed"} ELSE {"open"}
    /\ tab' = [tab EXCEPT ![t] = IF event = "close" THEN "closed" ELSE "failed"]
    /\ hurried' = IF Busy(UserOf[t]) THEN hurried \cup {UserOf[t]} ELSE hurried
    /\ UNCHANGED active
    /\ GoOn(<<t, event>>, mine[UserOf[t]], 1)
    /\ UNCHANGED <<asked, handler, issued, sets, opened, closed>>

(* endSession, after its audit row was written                              *)
SessionEnded(l) ==
    LET g == cleanup[l].set
        s == sets[g][cleanup[l].pos]
    IN  /\ cleanup[l] # Rest
        /\ closed' = [closed EXCEPT ![s] = @ + 1]
        /\ active' = active \ {s}
        /\ GoOn(l, g, cleanup[l].pos + 1)
        /\ UNCHANGED <<tab, asked, handler, issued, sets, opened, hurried>>

(* cleanupExpiredData: no audit row.  (The row of the start is written      *)
(* within the five minutes.)                                                *)
Expired(s) == s \in active /\ s \in opened
Expire(s) ==
    /\ Expired(s)
    /\ active' = active \ {s}
    /\ UNCHANGED <<tab, clients, asked, handler, issued, sets, mine, cleanup,
                   opened, closed, hurried>>

-----------------------------------------------------------------------------
TerminalNext ==
    \/ \E t \in Tabs : \/ Connect(t) \/ Authenticated(t) \/ Rejected(t) \/ Leave(t)
                       \/ Spawn(t) \/ Execute(t) \/ SessionIssued(t) \/ AccessDenied(t)
                       \/ RequestDone(t) \/ Ends(t, "error") \/ Ends(t, "close")
    \/ \E l \in Listeners : SessionEnded(l)
    \/ \E s \in SessionIds : Expire(s)

TerminalSpec == TerminalInit /\ [][TerminalNext]_terminalVars

-----------------------------------------------------------------------------
AtRest(u) == ~ Busy(u) /\ \A t \in Tabs : UserOf[t] = u => tab[t] \in Gone \cup {"unused"}

(* When the last tab of a user is closed, none of their terminals is still  *)
(* active: a close waits for the audit rows one by one, and sessions that   *)
(* other tabs open meanwhile are ended with the rest or left to the close   *)
(* of those tabs.  Excepted are users with a tab that closed while one of   *)
(* their requests, or another cleanup, was under way.                       *)
ClosedTabsLeaveNothing ==
    \A u \in TabUsers \ hurried :
        AtRest(u) => \A s \in active : issued[s].for = "terminal" => UserOf[issued[s].tab] # u

(* The audit trail has no end of a terminal session before its start, and   *)
(* a session ends once unless cleanups of its user overlap.                 *)
AuditTrail ==
    \A s \in SessionIds :
        /\ closed[s] > 0 => s \in opened
        /\ closed[s] > 1 => UserOf[issued[s].tab] \in hurried

=============================================================================
