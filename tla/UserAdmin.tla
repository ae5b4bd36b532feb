----------------------------- MODULE UserAdmin -----------------------------
(***************************************************************************)
(* The users of the server and what administrators do to each other        *)
(* (api/auth/setup, login, refresh, renew-session, user/language and       *)
(* api/admin/users).  The role an administrator acts with is the one in    *)
(* the session token, read when the request arrives; the row of the target *)
(* is read after that and written in a third step, with awaits between.    *)
(*                                                                         *)
(* Abstractions: the roles are admin and user (viewer behaves as user      *)
(* here); a session has an owner and is one per user; passwords, machine   *)
(* assignments and the audit entries are left out.                         *)
(***************************************************************************)
EXTENDS Naturals

CONSTANTS Users,        \* user names
          AdminCalls,   \* requests under way at once
          MaxCalls      \* bound: requests of the administration

ASSUME UsersAssumption == MaxCalls \in Nat

VARIABLES
  row,       \* per user: the row of the table, or NoRow
  session,   \* per user: the role in the session token
  call,      \* per request: where it is and what it read
  calls,     \* bound: requests so far
  deposed    \* history, read by the properties only: a request wrote whose
             \* author's row was none of an active administrator any more

userVars == <<row, session, call, calls, deposed>>

Roles == {"admin", "user"}
NoRow == [role |-> "none", active |-> FALSE]
NoCall == [at |-> "idle", by |-> "nobody", on |-> "nobody", to |-> NoRow,
           fields |-> {}]

Exists(u) == row[u] # NoRow
IsAdmin(u) == row[u].role = "admin" /\ row[u].active

UsersInit ==
  /\ row = [u \in Users |-> NoRow]
  /\ session = [u \in Users |-> "none"]
  /\ call = [c \in AdminCalls |-> NoCall]
  /\ calls = 0 /\ deposed = FALSE

Call(c, r) == call' = [call EXCEPT ![c] = r]

BeginCall(c) == call[c] = NoCall /\ calls < MaxCalls /\ calls' = calls + 1

-----------------------------------------------------------------------------
(* Sessions.                                                               *)

\* The token holds the role of the row; nothing changes it until a new one
\* is issued.
Issue(u, role) ==
  /\ session' = [session EXCEPT ![u] = role]
  /\ UNCHANGED <<row, call, calls, deposed>>

Login(u) == row[u].active /\ Issue(u, row[u].role)

\* refresh reads the role again; a user without an active row is refused and
\* keeps the token there is.
Refresh(u) == session[u] # "none" /\ row[u].active /\ Issue(u, row[u].role)

\* renew-session issues a token without a role.
RenewSession(u) == session[u] # "none" /\ Exists(u) /\ Issue(u, "missing")

\* The choice of a language issues a token too, or clears that of a user who
\* is gone.
ChooseLanguage(u) == session[u] # "none" /\ Issue(u, row[u].role)

\* Logged out, or expired after thirty minutes.
SessionEnds(u) == session[u] # "none" /\ Issue(u, "none")

-----------------------------------------------------------------------------
(* The first administrator.                                                *)

SetupCounts(c, u) ==
  /\ BeginCall(c)
  /\ \A v \in Users : ~Exists(v)
  /\ Call(c, [NoCall EXCEPT !.at = "setup", !.on = u])
  /\ UNCHANGED <<row, session, deposed>>

\* The user is created whatever others did since the count; a name that is
\* taken by now fails.
SetupCreates(c) ==
  /\ call[c].at = "setup"
  /\ LET u == call[c].on IN
       IF Exists(u) THEN UNCHANGED <<row, session>>
       ELSE /\ row' = [row EXCEPT ![u] = [role |-> "admin", active |-> TRUE]]
            /\ session' = [session EXCEPT ![u] = "admin"]
  /\ Call(c, NoCall)
  /\ UNCHANGED <<calls, deposed>>

-----------------------------------------------------------------------------
(* The administration.                                                     *)

\* requireAdmin looks at the token only.
Authorised(c, u) == BeginCall(c) /\ session[u] = "admin"

\* PATCH: the role and the active flag are compared with the row; only what
\* differs is written.  Nobody demotes or deactivates himself; faulty:
\* nobody demotes himself.
NotDemotingOneself(u, v, to) == u = v => to.role = "admin"
NotAgainstOneself(u, v, to) == u = v => to.role = "admin" /\ to.active

PatchReads(c, u, v, to) ==
  /\ Authorised(c, u)
  /\ Exists(v) /\ NotAgainstOneself(u, v, to)
  /\ to # row[v]
  /\ Call(c, [at |-> "patch", by |-> u, on |-> v, to |-> to,
              fields |-> {f \in DOMAIN to : to[f] # row[v][f]}])
  /\ UNCHANGED <<row, session, deposed>>

Patched(old, r) ==
  [role |-> IF "role" \in r.fields THEN r.to.role ELSE old.role,
   active |-> IF "active" \in r.fields THEN r.to.active ELSE old.active]

\* A write of the administration; its author may have been deposed before the
\* request, which only asks the token, or while it was under way.
Written(c, v, new) ==
  /\ row' = IF Exists(v) THEN [row EXCEPT ![v] = new] ELSE row
  /\ deposed' = (deposed \/ ~IsAdmin(call[c].by))
  /\ Call(c, NoCall)
  /\ UNCHANGED <<session, calls>>

\* A row that is gone by now fails the request.
PatchWrites(c) ==
  /\ call[c].at = "patch"
  /\ LET v == call[c].on IN Written(c, v, Patched(row[v], call[c]))

DeleteReads(c, u, v) ==
  /\ Authorised(c, u)
  /\ u # v /\ Exists(v)
  /\ Call(c, [NoCall EXCEPT !.at = "delete", !.by = u, !.on = v])
  /\ UNCHANGED <<row, session, deposed>>

DeleteWrites(c) ==
  /\ call[c].at = "delete"
  /\ Written(c, call[c].on, NoRow)

\* POST: a new user is active.
CreateReads(c, u, v, role) ==
  /\ Authorised(c, u)
  /\ ~Exists(v)
  /\ Call(c, [NoCall EXCEPT !.at = "create", !.by = u, !.on = v,
                            !.to = [role |-> role, active |-> TRUE]])
  /\ UNCHANGED <<row, session, deposed>>

CreateWrites(c) ==
  /\ call[c].at = "create"
  /\ row' = IF Exists(call[c].on) THEN row
            ELSE [row EXCEPT ![call[c].on] = call[c].to]
  /\ Call(c, NoCall)
  /\ UNCHANGED <<session, calls, deposed>>

-----------------------------------------------------------------------------
SessionStep(u) == \/ Login(u) \/ Refresh(u) \/ RenewSession(u)
                  \/ ChooseLanguage(u) \/ SessionEnds(u)

UsersNext ==
  \/ \E u \in Users : SessionStep(u)
  \/ \E c \in AdminCalls :
       \/ SetupCreates(c) \/ PatchWrites(c) \/ DeleteWrites(c) \/ CreateWrites(c)
       \/ \E u \in Users : SetupCounts(c, u)
       \/ \E u, v \in Users :
            \/ DeleteReads(c, u, v)
            \/ \E to \in [role : Roles, active : BOOLEAN] : PatchReads(c, u, v, to)
            \/ \E role \in Roles : CreateReads(c, u, v, role)

UsersSpec == UsersInit /\ [][UsersNext]_userVars

\* The server has been set up.
SetUp == \E u \in Users : Exists(u)

\* However requests interleave: as long as every request that wrote came from
\* somebody who still was an administrator in the table when it wrote, a server
\* that was set up has an active one.  Excepted are the requests of those who
\* were demoted, deactivated or deleted before, with a token that still says
\* admin, or meanwhile.
AnAdminRemains == SetUp /\ ~deposed => \E u \in Users : IsAdmin(u)

\* What the comment beside a check calls "last admin protection" (route.ts:104):
\* a server that was set up keeps an active administrator.  The code does not
\* keep it, even when requests never overlap: A demotes B, and B's old token
\* deletes A.
LastAdminProtected == SetUp => \E u \in Users : IsAdmin(u)

=============================================================================
