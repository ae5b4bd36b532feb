---------------------------- MODULE UpdateDialog ----------------------------
(***************************************************************************)
(* The dialog that updates the packages of a machine                       *)
(* (server/src/components/SystemUpdateDialog.tsx): an update is asked for, *)
(* confirmed with a password, and typed into a terminal that the first     *)
(* one opens.  A command waits in queuedCommandRef until the terminal is   *)
(* ready.  The check of a password goes on when its prompt is gone, with   *)
(* the values of the moment it was submitted: the page hands a null socket *)
(* over until its token is fetched, and then no terminal is started.       *)
(*                                                                         *)
(* Abstractions: the list of packages, the scan button, keys typed by hand *)
(* and closing the dialog are left out; the overlay of the prompt covers   *)
(* the buttons; every request is a number of its own; a socket that is     *)
(* still connecting counts as open, for no terminal is ready before it is. *)
(***************************************************************************)
EXTENDS Naturals

CONSTANTS MaxUpdateClicks,  \* bound: updates asked for
          PasswordChecks    \* checks under way at once

ASSUME UpdateDialogAssumption == MaxUpdateClicks \in Nat

VARIABLES
  updates,   \* updates asked for so far
  prompt,     \* pendingCommand while showAuth; 0 if there is none
  queued,     \* queuedCommandRef; 0 if empty
  terminal,   \* "none", "starting", "ready", "failed"
  checks,     \* per check: its command and what it saw; 0 if none
  badge,      \* activePackage
  socketProp, \* the socket prop of the page: "none" (null), "open", "closed"
  confirmed,  \* history: commands whose check succeeded
  sent,       \* history: per command, how often it was typed
  astray,     \* history: commands asked for while the terminal started or a
              \* cancelled check went on, put out of the queue by such a
              \* command, or cancelled during their check
  early       \* history: commands confirmed by a check that saw no socket

updateDialogVars == <<updates, prompt, queued, terminal, checks, badge, socketProp,
                      confirmed, sent, astray, early>>

UpdateRequests == 1..MaxUpdateClicks
NoCheck == [command |-> 0, saw |-> "nothing"]

UpdateDialogInit ==
  /\ updates = 0 /\ prompt = 0 /\ queued = 0 /\ terminal = "none"
  /\ checks = [k \in PasswordChecks |-> NoCheck]
  /\ badge = 0 /\ socketProp = "none" /\ confirmed = {}
  /\ sent = [c \in UpdateRequests |-> 0] /\ astray = {} /\ early = {}

UnderCheck(c) == \E k \in PasswordChecks : checks[k].command = c
Checking == \E k \in PasswordChecks : checks[k].command # 0

triggerUpdate ==
  /\ prompt = 0 /\ updates < MaxUpdateClicks
  /\ updates' = updates + 1
  /\ prompt' = updates' /\ queued' = updates'
  /\ astray' = astray \cup (IF terminal = "starting" THEN {updates', queued}
                           ELSE IF Checking THEN {updates'} ELSE {})
  /\ UNCHANGED <<terminal, checks, badge, socketProp, confirmed, sent, early>>

\* The check is done with what the dialog has now: without a socket the
\* terminal cannot have been started.
Seen == IF socketProp = "none" THEN "null" ELSE terminal

submit(k) ==
  /\ prompt # 0 /\ ~UnderCheck(prompt) /\ checks[k] = NoCheck
  /\ checks' = [checks EXCEPT ![k] = [command |-> prompt, saw |-> Seen]]
  /\ UNCHANGED <<updates, prompt, queued, terminal, badge, socketProp, confirmed, sent, astray, early>>

onCancel ==
  /\ prompt # 0 /\ prompt' = 0 /\ queued' = 0
  /\ astray' = IF UnderCheck(prompt) THEN astray \cup {prompt} ELSE astray
  /\ UNCHANGED <<updates, terminal, checks, badge, socketProp, confirmed, sent, early>>

CheckFails(k) ==
  /\ checks[k] # NoCheck /\ checks' = [checks EXCEPT ![k] = NoCheck]
  /\ UNCHANGED <<updates, prompt, queued, terminal, badge, socketProp, confirmed, sent, astray, early>>

runInTerminal(c) ==
  /\ badge' = c
  /\ sent' = IF socketProp = "open" THEN [sent EXCEPT ![c] = @ + 1] ELSE sent

\* The terminal is started once, and again if that failed; never without the
\* socket, which is the one that was seen.
initTerminal(saw) ==
  terminal' = IF saw # "null" /\ terminal \in {"none", "failed"}
              THEN "starting" ELSE terminal

\* Faulty: every command waits in the queue, also when no terminal is still
\* to become ready.
OnAuthConfirmNow(k) ==
  LET c == checks[k].command IN
  /\ c # 0 /\ checks' = [checks EXCEPT ![k] = NoCheck]
  /\ prompt' = 0 /\ confirmed' = confirmed \cup {c}
  /\ queued' = c
  /\ IF checks[k].saw \in {"null", "none"} THEN initTerminal(checks[k].saw)
     ELSE UNCHANGED terminal
  /\ early' = IF checks[k].saw = "null" THEN early \cup {c} ELSE early
  /\ UNCHANGED <<updates, badge, sent, socketProp, astray>>

\* The check succeeded: the first command waits for the terminal, a later one
\* is typed at once or waits where triggerUpdate has put it.  Without a socket
\* the command waits too, but nothing is started, and the next request takes
\* its place.
onAuthConfirm(k) ==
  LET c == checks[k].command
      saw == checks[k].saw IN
  /\ c # 0 /\ checks' = [checks EXCEPT ![k] = NoCheck]
  /\ prompt' = 0 /\ confirmed' = confirmed \cup {c}
  /\ \/ /\ saw \in {"null", "none"}
        /\ queued' = c /\ initTerminal(saw) /\ UNCHANGED <<badge, sent>>
     \/ /\ saw = "ready"
        /\ queued' = 0 /\ runInTerminal(c) /\ UNCHANGED terminal
     \/ /\ saw \in {"starting", "failed"}
        /\ UNCHANGED <<queued, terminal, badge, sent>>
  /\ early' = IF saw = "null" THEN early \cup {c} ELSE early
  /\ UNCHANGED <<updates, socketProp, astray>>

\* The session is there: the effect types what is queued, or the terminal
\* could not be loaded.
TerminalReady ==
  /\ terminal = "starting" /\ terminal' = "ready"
  /\ IF queued = 0 THEN UNCHANGED <<badge, sent>> ELSE runInTerminal(queued)
  /\ queued' = 0
  /\ UNCHANGED <<updates, prompt, checks, socketProp, confirmed, astray, early>>

TerminalFails ==
  /\ terminal = "starting" /\ terminal' = "failed"
  /\ UNCHANGED <<updates, prompt, queued, checks, badge, socketProp, confirmed, sent, astray, early>>

detectPrompt ==
  /\ badge # 0 /\ terminal = "ready" /\ badge' = 0
  /\ UNCHANGED <<updates, prompt, queued, terminal, checks, socketProp, confirmed, sent, astray, early>>

\* The page has its token and passes its socket; it makes no other one when
\* that is closed.
SocketChanges ==
  /\ \/ socketProp = "none" /\ socketProp' = "open"
     \/ socketProp = "open" /\ socketProp' = "closed"
  /\ UNCHANGED <<updates, prompt, queued, terminal, checks, badge, confirmed, sent, astray, early>>

UpdateDialogNext ==
  \/ triggerUpdate \/ onCancel \/ TerminalReady \/ TerminalFails
  \/ detectPrompt \/ SocketChanges
  \/ \E k \in PasswordChecks : submit(k) \/ CheckFails(k) \/ onAuthConfirm(k)

UpdateDialogSpec == UpdateDialogInit /\ [][UpdateDialogNext]_updateDialogVars

\* Only what was confirmed is typed, once, and once the terminal is ready all
\* that was confirmed has been typed.  Excepted are, command by command: those
\* that were asked for while the terminal was starting (triggerUpdate queues a
\* command before its password is checked, so it is typed without) or while a
\* cancelled check went on, those they put out of the queue, and those that
\* were cancelled during their check; and those confirmed before the page had
\* its socket are never typed at all.
ConfirmedOnce ==
  /\ \A c \in UpdateRequests \ astray :
       sent[c] <= 1 /\ (sent[c] = 1 => c \in confirmed \ early)
  /\ terminal = "ready" /\ socketProp = "open" =>
       \A c \in confirmed \ (astray \cup early) : sent[c] = 1

=============================================================================
