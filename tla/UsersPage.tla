------------------------------ MODULE UsersPage ------------------------------
(***************************************************************************)
(* The page on which an administrator keeps the users (server/src:         *)
(* app/settings/users/page.tsx, api/admin/users): a list that is fetched   *)
(* anew after every change, one dialog for each kind of change, and a      *)
(* password that is shown once.  A dialog can be closed while its request  *)
(* is under way; the answer comes all the same and closes the dialog of    *)
(* that kind that is open by then.                                         *)
(*                                                                         *)
(* One administrator, who is among the users; which requests the server    *)
(* refuses to whom, and how they interleave there, is in UserAdmin and     *)
(* MachineAccess.  A password is the number of the change that set it; the *)
(* name of a user who was deleted is not used again.                       *)
(***************************************************************************)
EXTENDS Naturals

CONSTANTS PageUsers, Me,   \* user names, and the one who is signed in
          PageMachines,
          UserRequests,    \* requests under way at once
          MaxUserClicks    \* bound: buttons pressed

ASSUME UsersPageAssumption ==
  /\ Me \in PageUsers /\ "nobody" \notin PageUsers
  /\ UserRequests \subseteq Nat /\ MaxUserClicks \in Nat

NoAccount == [role |-> "none", active |-> FALSE, password |-> 0, machines |-> {}]
DeletedAccount == [NoAccount EXCEPT !.role = "removed"]
NoDialog == [kind |-> "none", user |-> "nobody", mount |-> 0, entry |-> NoAccount,
             machines |-> {}, loaded |-> FALSE]
NoPassword == [user |-> "nobody", password |-> 0]
Unasked == [for |-> "nothing", at |-> "idle", user |-> "nobody", mount |-> 0,
            role |-> "none", active |-> FALSE, machines |-> {}, password |-> 0,
            list |-> [u \in PageUsers |-> NoAccount], read |-> 0]

VARIABLES
  accounts,       \* per user: the row and the assignments, or NoAccount
  accountChanges, \* history: changes made so far
  listed,         \* users: the list of the page
  loading,        \* the page shows no list
  dialog,         \* the dialog that is open; mount: which one of its kind it is
  shownPassword,  \* showPasswordModal
  userRequests,   \* per request: what for, where it is, what it says
  userClicks,     \* bound: buttons pressed
  seen,           \* history: the newest state a list that was shown is from
  old,            \* history: an older list replaced a newer one
  lost,           \* history: the answer of a request was lost
  again           \* history: users whose password was changed twice at once

pageSide == <<listed, loading, dialog, shownPassword>>
pageHistory == <<seen, old, lost, again>>
usersPageVars == <<accounts, accountChanges, pageSide, userRequests, userClicks, pageHistory>>

There(u) == u \in PageUsers /\ accounts[u] \notin {NoAccount, DeletedAccount}

\* What the server lists: no password.
Listing == [u \in PageUsers |->
              IF There(u) THEN [accounts[u] EXCEPT !.password = 0] ELSE NoAccount]

UsersPageInit ==
  /\ \E others \in SUBSET (PageUsers \ {Me}) :
       accounts = [u \in PageUsers |->
         IF u = Me THEN [NoAccount EXCEPT !.role = "admin", !.active = TRUE]
         ELSE IF u \in others THEN [NoAccount EXCEPT !.role = "user", !.active = TRUE]
         ELSE NoAccount]
  /\ accountChanges = 0 /\ listed = Listing /\ loading = FALSE
  /\ dialog = NoDialog /\ shownPassword = NoPassword
  /\ userRequests = [r \in UserRequests |-> Unasked]
  /\ userClicks = 0 /\ seen = 0 /\ old = FALSE /\ lost = FALSE /\ again = {}

Presses == userClicks < MaxUserClicks /\ userClicks' = userClicks + 1

\* What is on the screen: a dialog, the password, or the table with its rows.
PasswordDialog == shownPassword # NoPassword
Covered == dialog # NoDialog \/ PasswordDialog
Row(u) == ~Covered /\ ~loading /\ listed[u] # NoAccount

Sends(r, request) ==
  /\ userRequests[r].for = "nothing"
  /\ \A q \in UserRequests : q < r => userRequests[q].for # "nothing"
  /\ userRequests' = [userRequests EXCEPT ![r] = request]
SettlesPassword(request) == request.for \in {"create", "reset"}

\* The button of the dialog is disabled while its own request is under way.
Confirming == \E r \in UserRequests :
          userRequests[r].mount = dialog.mount /\ userRequests[r].for # "access"
            /\ userRequests[r].at \in {"asked", "served", "refused"}

-----------------------------------------------------------------------------
(* The dialogs.                                                            *)

Open(kind, u) ==
  /\ Presses /\ ~Covered
  /\ dialog' = [NoDialog EXCEPT !.kind = kind, !.user = u, !.mount = userClicks + 1,
                                !.entry = IF u = "nobody" THEN NoAccount ELSE listed[u]]
  /\ UNCHANGED <<accounts, accountChanges, listed, loading, shownPassword, pageHistory>>

OpenCreate == Open("create", "nobody") /\ UNCHANGED userRequests

OpenFor(kind, u) ==
  /\ Row(u)
  /\ kind = "delete" => u # Me
  /\ Open(kind, u) /\ UNCHANGED userRequests

\* The dialog of the machines asks for the assignments as soon as it is there;
\* an administrator has all machines.
OpenMachines(r, u) ==
  /\ Row(u) /\ listed[u].role # "admin"
  /\ Open("machines", u)
  /\ Sends(r, [Unasked EXCEPT !.for = "access", !.at = "asked", !.user = u,
                              !.mount = userClicks + 1])

CloseModal ==
  /\ dialog # NoDialog /\ ~PasswordDialog /\ dialog' = NoDialog
  /\ UNCHANGED <<accounts, accountChanges, listed, loading, shownPassword, userRequests, userClicks,
                 pageHistory>>

ClosePassword ==
  /\ PasswordDialog /\ shownPassword' = NoPassword
  /\ UNCHANGED <<accounts, accountChanges, listed, loading, dialog, userRequests, userClicks,
                 pageHistory>>

\* The machines are listed once they and the assignments have arrived.
MachineList == dialog.kind = "machines" /\ dialog.loaded

toggleMachine(m) ==
  /\ MachineList /\ Presses
  /\ dialog' = [dialog EXCEPT !.machines = IF m \in @ THEN @ \ {m} ELSE @ \cup {m}]
  /\ UNCHANGED <<accounts, accountChanges, listed, loading, shownPassword, userRequests, pageHistory>>

-----------------------------------------------------------------------------
(* The requests.                                                           *)

\* Two changes of one password at once cannot be told apart afterwards.
Request(r, request) ==
  /\ Presses /\ Sends(r, [request EXCEPT !.at = "asked"])
  /\ again' = IF SettlesPassword(request)
                 /\ \E q \in UserRequests : SettlesPassword(userRequests[q])
                                            /\ userRequests[q].user = request.user
                THEN again \cup {request.user} ELSE again
  /\ UNCHANGED <<accounts, accountChanges, pageSide, seen, old, lost>>

Confirmed(kind) == dialog.kind = kind /\ ~PasswordDialog /\ ~Confirming
FromDialog(for) == [Unasked EXCEPT !.for = for, !.user = dialog.user, !.mount = dialog.mount]

\* The forms, and what has to be entered before the button of each works.
CreateForm(u) == Confirmed("create") /\ accounts[u] # DeletedAccount
EditForm(role) == Confirmed("edit") /\ role # dialog.entry.role
MachineForm == Confirmed("machines")
ResetForm == Confirmed("reset")
DeleteForm(name) == Confirmed("delete") /\ name = dialog.user

\* The button says what the list says, however old that is.
handleToggleActive(r, u) ==
  /\ Row(u)
  /\ Request(r, [Unasked EXCEPT !.for = "toggle", !.user = u, !.active = ~listed[u].active])

handleCreate(r, u) ==
  /\ CreateForm(u)
  /\ Request(r, [FromDialog("create") EXCEPT !.user = u])

saveRole(r, role) ==
  /\ EditForm(role)
  /\ Request(r, [FromDialog("edit") EXCEPT !.role = role])

\* Nothing keeps it back while the assignments are not there yet.
saveMachines(r) ==
  MachineForm /\ Request(r, [FromDialog("machines") EXCEPT !.machines = dialog.machines])

handleReset(r) == ResetForm /\ Request(r, FromDialog("reset"))
handleDelete(r, name) == DeleteForm(name) /\ Request(r, FromDialog("delete"))

-----------------------------------------------------------------------------
(* The server.                                                             *)

Serves(r, kinds) == userRequests[r].at = "asked" /\ userRequests[r].for \in kinds
Target(r) == userRequests[r].user
AtServer(r) == UNCHANGED <<pageSide, userClicks, seen, old, lost, again>>

Lists(r) ==
  /\ Serves(r, {"list", "access"})
  /\ userRequests' = [userRequests EXCEPT ![r] =
       [@ EXCEPT !.at = "served", !.list = Listing, !.read = accountChanges]]
  /\ UNCHANGED <<accounts, accountChanges>> /\ AtServer(r)

Refuses(r, kinds) ==
  /\ Serves(r, kinds) /\ userRequests' = [userRequests EXCEPT ![r].at = "refused"]
  /\ UNCHANGED <<accounts, accountChanges>> /\ AtServer(r)

Writes(r, account) ==
  /\ accounts' = [accounts EXCEPT ![Target(r)] = account] /\ accountChanges' = accountChanges + 1
  /\ userRequests' = [userRequests EXCEPT ![r] =
       [@ EXCEPT !.at = "served", !.password = account.password]]
  /\ AtServer(r)

CreatesAccount(r) ==
  IF There(Target(r)) THEN Refuses(r, {"create"})
  ELSE /\ Serves(r, {"create"})
       /\ Writes(r, [NoAccount EXCEPT !.role = "user", !.active = TRUE,
                                      !.password = accountChanges + 1])

\* Nobody changes his own role or deactivates himself.
Patches(r) ==
  IF ~There(Target(r)) \/ Target(r) = Me THEN Refuses(r, {"toggle", "edit"})
  ELSE \/ Serves(r, {"toggle"})
          /\ Writes(r, [accounts[Target(r)] EXCEPT !.active = userRequests[r].active])
       \/ Serves(r, {"edit"})
          /\ Writes(r, [accounts[Target(r)] EXCEPT !.role = userRequests[r].role])

ReplacesMachines(r) ==
  IF ~There(Target(r)) THEN Refuses(r, {"machines"})
  ELSE Serves(r, {"machines"})
         /\ Writes(r, [accounts[Target(r)] EXCEPT !.machines = userRequests[r].machines])

ResetsPassword(r) ==
  IF ~There(Target(r)) THEN Refuses(r, {"reset"})
  ELSE Serves(r, {"reset"})
         /\ Writes(r, [accounts[Target(r)] EXCEPT !.password = accountChanges + 1])

Deletes(r) ==
  IF ~There(Target(r)) THEN Refuses(r, {"delete"})
  ELSE Serves(r, {"delete"}) /\ Writes(r, DeletedAccount)

-----------------------------------------------------------------------------
(* The answers.                                                            *)

Answers(r, for) == userRequests[r].for = for /\ userRequests[r].at = "served"
AtPage(r) == UNCHANGED <<accounts, accountChanges, userClicks, lost, again>>

\* The dialog of that kind closes, whosever it is.
Closes(kind) == dialog' = IF dialog.kind = kind THEN NoDialog ELSE dialog

loadUsers(r) ==
  /\ userRequests' = [userRequests EXCEPT ![r] = [Unasked EXCEPT !.for = "list", !.at = "asked"]]
  /\ loading' = TRUE /\ UNCHANGED <<listed, seen, old>>

UsersLoaded(r) ==
  /\ Answers(r, "list")
  /\ userRequests' = [userRequests EXCEPT ![r] = Unasked]
  /\ listed' = userRequests[r].list /\ loading' = FALSE
  /\ old' = (userRequests[r].read < seen)
  /\ seen' = IF old' THEN seen ELSE userRequests[r].read
  /\ UNCHANGED <<dialog, shownPassword>> /\ AtPage(r)

Toggled(r) ==
  Answers(r, "toggle") /\ loadUsers(r) /\ UNCHANGED <<dialog, shownPassword>> /\ AtPage(r)

Edited(r) == Answers(r, "edit") /\ loadUsers(r) /\ Closes("edit")
               /\ UNCHANGED shownPassword /\ AtPage(r)
Deleted(r) == Answers(r, "delete") /\ loadUsers(r) /\ Closes("delete")
               /\ UNCHANGED shownPassword /\ AtPage(r)

Created(r) ==
  /\ Answers(r, "create") /\ loadUsers(r) /\ Closes("create")
  /\ shownPassword' = [user |-> Target(r), password |-> userRequests[r].password]
  /\ AtPage(r)

\* Faulty: the name is the one of the dialog that is open by now.
OnResetAtLast(user) == IF dialog.kind = "reset" THEN dialog.user ELSE user

\* The name under which the password is shown: that of the closure.
OnReset(user) == user

ResetDone(r) ==
  /\ Answers(r, "reset") /\ Closes("reset")
  /\ userRequests' = [userRequests EXCEPT ![r] = Unasked]
  /\ shownPassword' = IF Target(r) = Me THEN shownPassword
       ELSE [user |-> OnReset(Target(r)), password |-> userRequests[r].password]
  /\ UNCHANGED <<listed, loading, seen, old>> /\ AtPage(r)

AccessLoaded(r) ==
  /\ Answers(r, "access")
  /\ userRequests' = [userRequests EXCEPT ![r] = Unasked]
  /\ dialog' = IF dialog.mount # userRequests[r].mount THEN dialog
               ELSE [dialog EXCEPT !.loaded = TRUE,
                                   !.machines = userRequests[r].list[Target(r)].machines]
  /\ UNCHANGED <<listed, loading, shownPassword, seen, old>> /\ AtPage(r)

\* Shown as saved for a second ...
MachinesSaved(r) ==
  /\ Answers(r, "machines")
  /\ userRequests' = [userRequests EXCEPT ![r].at = "saved"]
  /\ UNCHANGED <<pageSide, seen, old>> /\ AtPage(r)

\* ... then closed, with whichever dialog of the machines is open.
SecondLater(r) ==
  /\ userRequests[r].at = "saved" /\ loadUsers(r) /\ Closes("machines")
  /\ UNCHANGED shownPassword /\ AtPage(r)

\* Refused, or failed on its way there or back.
RequestEnds(r) ==
  /\ userRequests[r].at \in {"asked", "served", "refused"}
  /\ userRequests' = [userRequests EXCEPT ![r] = Unasked]
  /\ loading' = IF userRequests[r].for = "list" THEN FALSE ELSE loading
  /\ lost' = (\/ lost \/ userRequests[r].for = "list"
              \/ (userRequests[r].at = "served" /\ userRequests[r].for # "access"))
  /\ UNCHANGED <<accounts, accountChanges, listed, dialog, shownPassword, userClicks, seen, old, again>>

-----------------------------------------------------------------------------
UsersPageNext ==
  \/ OpenCreate \/ CloseModal \/ ClosePassword
  \/ \E u \in PageUsers, kind \in {"edit", "reset", "delete"} : OpenFor(kind, u)
  \/ \E m \in PageMachines : toggleMachine(m)
  \/ \E r \in UserRequests :
       \/ \E u \in PageUsers : \/ OpenMachines(r, u) \/ handleToggleActive(r, u)
                               \/ handleCreate(r, u) \/ handleDelete(r, u)
       \/ \E role \in {"user", "admin"} : saveRole(r, role)
       \/ saveMachines(r) \/ handleReset(r)
       \/ Lists(r) \/ CreatesAccount(r) \/ Patches(r) \/ ReplacesMachines(r) \/ ResetsPassword(r) \/ Deletes(r)
       \/ UsersLoaded(r) \/ Toggled(r) \/ Edited(r) \/ Deleted(r) \/ Created(r) \/ ResetDone(r)
       \/ AccessLoaded(r) \/ MachinesSaved(r) \/ SecondLater(r) \/ RequestEnds(r)

UsersPageSpec == UsersPageInit /\ [][UsersPageNext]_usersPageVars

\* Whatever dialogs were closed and opened while requests were under way: the
\* password that is shown opens the account it is shown for, unless that was
\* deleted or its password was changed twice at once; and once all requests
\* have been answered the list is what the server has, unless an answer was
\* lost or an older list came after a newer one.
PageIsTrue ==
  /\ LET u == shownPassword.user
     IN  There(u) /\ u \notin again => accounts[u].password = shownPassword.password
  /\ (\A r \in UserRequests : userRequests[r].for = "nothing") /\ ~lost /\ ~old =>
       listed = Listing

=============================================================================
