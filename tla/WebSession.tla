----------------------------- MODULE WebSession -----------------------------
(***************************************************************************)
(* The session of a browser (server/src: middleware.ts, lib/auth.ts,       *)
(* api/auth, components/AppShell.tsx): a cookie that lasts half an hour    *)
(* unless it is renewed, a middleware that sends every navigation to a     *)
(* page the session may see, and the frame of the pages, which polls the   *)
(* time left and warns in the last minute.  Requests that renew the        *)
(* session, from this page or from another tab, read the user's row, and   *)
(* their answers set the cookie whatever happened meanwhile.               *)
(*                                                                         *)
(* Time passes in half minutes, the interval of the polls; a time left is  *)
(* rounded up.  A poll is answered or fails within its half minute.        *)
(* Secrets, passwords and the language a page is shown in are left out;    *)
(* what a changed secret does to a session is in SecretKeys.               *)
(***************************************************************************)
EXTENDS Naturals

CONSTANTS Lifetime,   \* of a session, in half minutes
          Warning,    \* the dialog is shown with that much left, or less
          Requests,   \* requests that renew the session, at once
          TimePolls,  \* polls at once
          MaxVisits   \* bound: what the user does

\* A renewed session is polled once before its warning is due (60 and 2 in
\* the code).
ASSUME SessionAssumption ==
  /\ Lifetime \in Nat /\ Warning \in 1..(Lifetime - 2) /\ MaxVisits \in Nat
  /\ TimePolls # {}

Roles == {"admin", "user", "viewer"}
Paths == {"login", "setup", "home", "settings", "bulk"}
NoCookie == [left |-> 0, role |-> "none", language |-> FALSE]
NoRequest == [for |-> "nothing", token |-> NoCookie]
Idle == [at |-> "idle", left |-> 0]

VARIABLES
  account,    \* the user's row: its role, and whether it has a language
  cookie,     \* the session cookie: the time left, and what the token says
  shown,      \* the page shown
  heading,    \* the page asked for, "none" once it is shown
  hops,       \* history: redirects since it was asked for or the cookie changed
  remaining,  \* remainingRef: the last answer; 0 before the first one
  dialog,     \* showExpiryDialog
  flagged,    \* expiryDialogRef
  polls,      \* per poll: not under way, asked, or answered with a time left
  ticked,     \* the interval has fired in this half minute
  requests,   \* per request: what for, and the new token once it was made
  warned,     \* history: the dialog was shown since the cookie was last set
  excused,    \* history: see WarnedBeforeTheEnd
  visits      \* bound: what the user did so far

pageVars == <<shown, heading, hops>>
shellVars == <<remaining, dialog, flagged, polls, ticked>>
sessionHistory == <<warned, excused>>
webSessionVars == <<account, cookie, pageVars, shellVars, requests, sessionHistory, visits>>

SessionInit ==
  /\ account \in [role : Roles, language : BOOLEAN]
  /\ cookie = NoCookie /\ shown = "login" /\ heading = "none" /\ hops = 0
  /\ remaining = 0 /\ dialog = FALSE /\ flagged = FALSE
  /\ polls = [p \in TimePolls |-> Idle] /\ ticked = FALSE
  /\ requests = [r \in Requests |-> NoRequest]
  /\ warned = FALSE /\ excused = FALSE /\ visits = 0

InShell == shown \in {"home", "settings", "bulk"}
Does == visits < MaxVisits /\ visits' = visits + 1

\* encrypt: a token of the account as it is.
Token == [left |-> Lifetime, role |-> account.role, language |-> account.language]

SetCookie(token) ==
  /\ cookie' = token /\ hops' = 0
  /\ warned' = FALSE

-----------------------------------------------------------------------------
(* The middleware.                                                         *)

\* Where a navigation goes: to the page itself, or to another one.
Target(path) ==
  IF cookie = NoCookie THEN "login"
  ELSE IF path = "login" THEN IF cookie.language THEN "home" ELSE "setup"
  ELSE IF path = "settings" /\ cookie.role # "admin" THEN "home"
  ELSE IF path = "bulk" /\ cookie.role = "viewer" THEN "home"
  ELSE IF ~cookie.language THEN "setup"
  ELSE IF path = "setup" THEN "home"
  ELSE path

Visit(path) ==
  /\ Does /\ heading = "none" /\ heading' = path /\ hops' = 0
  /\ UNCHANGED <<account, cookie, shown, shellVars, requests, sessionHistory>>

\* The page is shown, with a frame that knows nothing yet and polls at once.
Enter(path) ==
  /\ shown' = path /\ heading' = "none"
  /\ remaining' = 0 /\ dialog' = FALSE /\ flagged' = FALSE
  /\ polls' = [p \in TimePolls |->
                 IF p = (CHOOSE q \in TimePolls : TRUE) /\ path \in {"home", "settings", "bulk"}
                   THEN [at |-> "asked", left |-> 0] ELSE Idle]
  /\ ticked' = TRUE
  /\ excused' = (cookie.left <= Warning)
  /\ UNCHANGED <<hops, warned>>

middleware ==
  /\ heading # "none"
  /\ IF Target(heading) = heading THEN Enter(heading)
     ELSE /\ heading' = Target(heading) /\ hops' = hops + 1
          /\ UNCHANGED <<shown, shellVars, sessionHistory>>
  /\ UNCHANGED <<account, cookie, requests, visits>>

-----------------------------------------------------------------------------
(* Login and logout.                                                       *)

handleSubmit ==
  /\ Does /\ shown = "login" /\ heading = "none"
  /\ SetCookie(Token) /\ excused' = FALSE
  /\ heading' = IF account.language THEN "home" ELSE "setup"
  /\ UNCHANGED <<account, shown, shellVars, requests>>

handleInternalLogout ==
  /\ Does /\ InShell /\ heading = "none"
  /\ SetCookie(NoCookie) /\ heading' = "login"
  /\ UNCHANGED <<account, shown, shellVars, requests, excused>>

-----------------------------------------------------------------------------
(* Requests that renew the session: the button of the frame, the password  *)
(* dialog of the bulk page, the choice of a language, and what other tabs  *)
(* do.                                                                     *)

Asks(r, purpose) ==
  /\ Does /\ requests[r] = NoRequest
  /\ requests' = [requests EXCEPT ![r].for = purpose]
  /\ UNCHANGED <<account, cookie, pageVars, shellVars, sessionHistory>>

None(purpose) == \A r \in Requests : requests[r].for # purpose

handleRefreshSession(r) == InShell /\ None("refresh") /\ Asks(r, "refresh")
reauthenticate(r) == shown = "bulk" /\ Asks(r, "reauth")
handleLanguageChange(r) == InShell /\ None("switch") /\ Asks(r, "switch")
handleSelect(r) == shown = "setup" /\ None("choose") /\ Asks(r, "choose")
OtherTabAsks(r) == Asks(r, "othertab")

\* The server answers with a token, if the request came with a session.
Served(r, purposes, token) ==
  /\ requests[r].for \in purposes /\ requests[r].token = NoCookie /\ cookie # NoCookie
  /\ requests' = [requests EXCEPT ![r].token = token]
  /\ UNCHANGED <<cookie, pageVars, shellVars, sessionHistory, visits>>

\* The account as it is by now; after the password dialog without its role;
\* with the language, which is written first.
refresh(r) == Served(r, {"refresh", "othertab"}, Token) /\ UNCHANGED account
renewSession(r) == Served(r, {"reauth"}, [Token EXCEPT !.role = "none"]) /\ UNCHANGED account
WithLanguage == account' = [account EXCEPT !.language = TRUE]
changeLanguage(r) == WithLanguage /\ Served(r, {"switch"}, [Token EXCEPT !.language = TRUE])
userLanguage(r) == WithLanguage /\ Served(r, {"choose"}, [Token EXCEPT !.language = TRUE])

AskTime(p) == polls[p] = Idle /\ polls' = [polls EXCEPT ![p] = [at |-> "asked", left |-> 0]]

\* The answer of a request: the cookie is set whatever happened meanwhile.
Answered(r, purpose) ==
  /\ requests[r].for = purpose /\ requests[r].token # NoCookie
  /\ requests' = [requests EXCEPT ![r] = NoRequest]
  /\ SetCookie(requests[r].token) /\ excused' = flagged'
  /\ UNCHANGED <<account, shown, remaining, ticked, visits>>

\* The frame asks at once for the time left, if there is one by now.
Told == IF InShell THEN \E p \in TimePolls : AskTime(p) ELSE UNCHANGED polls

SessionRefreshed(r) ==
  /\ IF InShell THEN flagged' = FALSE /\ dialog' = FALSE ELSE UNCHANGED <<flagged, dialog>>
  /\ Answered(r, "refresh") /\ Told /\ UNCHANGED heading

Reauthenticated(r) ==
  UNCHANGED <<flagged, dialog, heading>> /\ Answered(r, "reauth") /\ Told

OtherTabRenewed(r) ==
  UNCHANGED <<flagged, dialog, polls, heading>> /\ Answered(r, "othertab")

\* The page is loaded again, in the new language.
LanguageChanged(r) ==
  /\ UNCHANGED <<flagged, dialog, polls>> /\ Answered(r, "switch")
  /\ heading' = IF InShell /\ heading = "none" THEN shown ELSE heading

LanguageChosen(r) ==
  /\ UNCHANGED <<flagged, dialog, polls>> /\ Answered(r, "choose")
  /\ heading' = IF shown = "setup" /\ heading = "none" THEN "home" ELSE heading

RequestFails(r) ==
  /\ requests[r] # NoRequest
  /\ requests' = [requests EXCEPT ![r] = NoRequest]
  /\ UNCHANGED <<account, cookie, pageVars, shellVars, sessionHistory, visits>>

-----------------------------------------------------------------------------
(* The frame of the pages.                                                 *)

Interval ==
  /\ InShell /\ ~ticked /\ ticked' = TRUE
  /\ \E p \in TimePolls : AskTime(p)
  /\ UNCHANGED <<account, cookie, pageVars, remaining, dialog, flagged, requests,
                 sessionHistory, visits>>

sessionTime(p) ==
  /\ polls[p].at = "asked"
  /\ polls' = [polls EXCEPT ![p] = [at |-> "answered", left |-> cookie.left]]
  /\ UNCHANGED <<account, cookie, pageVars, remaining, dialog, flagged, ticked, requests,
                 sessionHistory, visits>>

\* Faulty: at a whole minute the dialog is not shown yet, and then the last
\* answer was not above a minute any more.
CrossesLate(before, now) == before > Warning /\ now < Warning /\ now > 0

Crosses(before, now) == before > Warning /\ now <= Warning /\ now > 0

\* Without a cookie the answer is an error, and nothing is done with it.
updateRemainingTime(p) ==
  LET now == polls[p].left
      opens == now > 0 /\ ~flagged /\ Crosses(remaining, now)
  IN  /\ polls[p].at = "answered"
      /\ polls' = [polls EXCEPT ![p] = Idle]
      /\ remaining' = IF now = 0 THEN remaining ELSE now
      /\ flagged' = (flagged \/ opens) /\ dialog' = (dialog \/ opens)
      /\ warned' = (warned \/ dialog')
      /\ excused' = (excused \/ now # cookie.left)
      /\ UNCHANGED <<account, cookie, pageVars, ticked, requests, visits>>

PollFails(p) ==
  /\ polls[p] # Idle /\ polls' = [polls EXCEPT ![p] = Idle]
  /\ excused' = TRUE
  /\ UNCHANGED <<account, cookie, pageVars, remaining, dialog, flagged, ticked, requests,
                 warned, visits>>

CancelDialog ==
  /\ dialog /\ dialog' = FALSE
  /\ UNCHANGED <<account, cookie, pageVars, remaining, flagged, polls, ticked, requests,
                 sessionHistory, visits>>

\* Half a minute passes; at its end the browser drops the cookie.
HalfMinutePasses ==
  /\ cookie # NoCookie /\ heading = "none"
  /\ InShell => ticked
  /\ \A p \in TimePolls : polls[p] = Idle
  /\ IF cookie.left > 1 THEN cookie' = [cookie EXCEPT !.left = @ - 1] /\ UNCHANGED hops
     ELSE cookie' = NoCookie /\ hops' = 0
  /\ ticked' = FALSE
  /\ UNCHANGED <<account, shown, heading, remaining, dialog, flagged, polls, requests,
                 sessionHistory, visits>>

-----------------------------------------------------------------------------
SessionNext ==
  \/ \E path \in Paths : Visit(path)
  \/ middleware \/ handleSubmit \/ handleInternalLogout
  \/ \E r \in Requests :
       \/ handleRefreshSession(r) \/ reauthenticate(r) \/ handleLanguageChange(r)
       \/ handleSelect(r) \/ OtherTabAsks(r)
       \/ refresh(r) \/ renewSession(r) \/ changeLanguage(r) \/ userLanguage(r)
       \/ SessionRefreshed(r) \/ Reauthenticated(r) \/ OtherTabRenewed(r)
       \/ LanguageChanged(r) \/ LanguageChosen(r) \/ RequestFails(r)
  \/ Interval \/ CancelDialog \/ HalfMinutePasses
  \/ \E p \in TimePolls : sessionTime(p) \/ updateRemainingTime(p) \/ PollFails(p)

SessionSpec == SessionInit /\ [][SessionNext]_webSessionVars

\* A session in its last half minute under an open page has been announced,
\* in whatever order the answers of its own renewals came.  Excused are
\* pages entered in the last minute, frames one of whose polls failed or was
\* overtaken by a renewal, and those whose dialog was on record as shown when
\* somebody else renewed the session: nothing takes that record back.
\* And a navigation is redirected at most twice while the cookie stays.
WarnedBeforeTheEnd ==
  /\ InShell /\ cookie.left = 1 /\ ticked /\ (\A p \in TimePolls : polls[p] = Idle)
       /\ heading = "none" /\ ~excused
     => warned
  /\ hops <= 2

=============================================================================
