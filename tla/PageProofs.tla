----------------------------- MODULE PageProofs -----------------------------
(***************************************************************************)
(* Proofs about the pages of a browser, which hold what a user has entered *)
(* or seen while answers of the server arrive: the notes of a machine      *)
(* (TypedNotesSurvive of MachinePage), the updates of its packages         *)
(* (ConfirmedOnce of UpdateDialog), the session (WarnedBeforeTheEnd of     *)
(* WebSession) and the bulk jobs (OneJobAtATime of JobPage), for all       *)
(* texts, messages, fetches, requests, checks, polls and jobs.             *)
(***************************************************************************)
EXTENDS MachinePage, UpdateDialog, JobPage, WebSession, TLAPS

-----------------------------------------------------------------------------
(* The notes.                                                              *)

\* The property is inductive: only the user's typing and the answer to a save
\* change what is dirty, and nobody types while a save is under way.
LEMMA NotesStep ==
  ASSUME TypedNotesSurvive, [MachinePageNext]_machinePageVars
  PROVE  TypedNotesSurvive'
<1>1. CASE UNCHANGED notesVars
  BY <1>1 DEF TypedNotesSurvive, notesVars
<1>2. CASE handleMessage
  <2>1. \/ DraftFollows(notes, dirty)
        \/ UNCHANGED <<notes, draft>>
    BY <1>2 DEF handleMessage, StatusArrives, BeatArrives, CompletionArrives
  <2>2. UNCHANGED <<dirty, typed, saving, savingText>>
    BY <1>2 DEF handleMessage
  <2> QED
    BY <2>1, <2>2 DEF TypedNotesSurvive, DraftFollows
<1>3. ASSUME NEW r \in PageReads, fetchMachine(r) PROVE TypedNotesSurvive'
  BY <1>3 DEF fetchMachine, TypedNotesSurvive, DraftFollows
<1>4. ASSUME NEW text \in Texts, Type(text) PROVE TypedNotesSurvive'
  BY <1>4 DEF Type, TypedNotesSurvive
<1>5. CASE saveNotes
  BY <1>5 DEF saveNotes, TypedNotesSurvive
<1>6. CASE ServerSaves
  BY <1>6 DEF ServerSaves, TypedNotesSurvive
<1>7. CASE SaveAnswered
  BY <1>7 DEF SaveAnswered, TypedNotesSurvive, DraftFollows
<1>8. CASE SaveFails
  BY <1>8 DEF SaveFails, TypedNotesSurvive
<1>9. CASE \/ Heartbeat \/ CommandTakesEffect \/ ComesBack \/ SocketCloses \/ Refresh
           \/ handleCommand \/ Cancel \/ executeCommand \/ updateAgent \/ CloseLog
  BY <1>1, <1>9 DEF Heartbeat, CommandTakesEffect, ComesBack, SocketCloses, Refresh,
     handleCommand, Cancel, executeCommand, updateAgent, CloseLog
<1>10. ASSUME NEW r \in PageReads, ServerReads(r) PROVE TypedNotesSurvive'
  BY <1>1, <1>10 DEF ServerReads
<1>11. ASSUME NEW text \in Texts, OtherUserSaves(text) PROVE TypedNotesSurvive'
  BY <1>1, <1>11 DEF OtherUserSaves
<1>12. CASE UNCHANGED machinePageVars
  BY <1>1, <1>12 DEF machinePageVars
<1> QED
  BY <1>2, <1>3, <1>4, <1>5, <1>6, <1>7, <1>8, <1>9, <1>10, <1>11, <1>12 DEF MachinePageNext

\* However many heartbeats, late fetches and failed saves come in between,
\* what the user typed stays in the page until the server has it, and what is
\* saved is what was typed.
THEOREM TypedNotesSurviveHolds == MachinePageSpec => []TypedNotesSurvive
<1>1. MachinePageInit => TypedNotesSurvive
  BY DEF MachinePageInit, TypedNotesSurvive
<1>2. TypedNotesSurvive /\ [MachinePageNext]_machinePageVars => TypedNotesSurvive'
  BY NotesStep
<1> QED
  BY <1>1, <1>2, PTL DEF MachinePageSpec

-----------------------------------------------------------------------------
(* The updates.                                                            *)

DialogTypes ==
  /\ updates \in 0..MaxUpdateClicks /\ prompt \in 0..updates /\ queued \in 0..updates
  /\ terminal \in {"none", "starting", "ready", "failed"}
  /\ checks \in [PasswordChecks ->
                  [command : 0..updates,
                   saw : {"nothing", "null", "none", "starting", "ready", "failed"}]]
  /\ confirmed \in SUBSET (1..updates)
  /\ astray \in SUBSET (0..updates) /\ early \in SUBSET (1..updates)
  /\ sent \in [UpdateRequests -> Nat]
  /\ socketProp \in {"none", "open", "closed"}

\* The socket is there before the terminal, and before a check that saw it; the
\* terminal is ready before a check that saw it so.
SocketFirst ==
  /\ socketProp = "none" => terminal = "none"
  /\ \A k \in PasswordChecks :
       /\ checks[k].saw \notin {"nothing", "null"} => socketProp # "none"
       /\ checks[k].saw = "ready" => terminal = "ready"

\* The checks are of commands that are not confirmed yet, and each of its own;
\* the prompt is for such a command too, and what was never asked for nowhere.
OneCheckEach ==
  /\ prompt \notin confirmed /\ early \subseteq confirmed
  /\ \A k \in PasswordChecks : checks[k].command = 0 \/ checks[k].command \notin confirmed
  /\ \A k, l \in PasswordChecks :
       checks[k].command # 0 /\ checks[k].command = checks[l].command => k = l
  /\ \A k \in PasswordChecks : (checks[k].command = 0) <=> (checks[k] = NoCheck)

\* What is not confirmed, or was confirmed too early, was never typed.
TypedIsConfirmed ==
  \A c \in UpdateRequests \ astray :
    sent[c] <= 1 /\ (sent[c] = 1 => c \in confirmed \ early)

\* While a command that is not astray is asked for no other is being checked,
\* and its check saw the terminal as it still is.
AloneUnderCheck ==
  /\ prompt # 0 /\ prompt \notin astray =>
       \A k \in PasswordChecks : checks[k].command \in {0, prompt}
  /\ \A k \in PasswordChecks :
       checks[k].command # 0 /\ checks[k].command \notin astray =>
         /\ checks[k].command = prompt
         /\ checks[k].saw \in {"null", terminal}
         /\ checks[k].saw = "null" => terminal = "none"

Due == confirmed \ (astray \cup early)

\* What is due waits for the terminal, alone in the queue, and no old check can
\* put another command there; a prompt is for a command that is astray.
QueueOfTerminal ==
  /\ terminal = "none" => Due = {}
  /\ terminal = "starting" =>
       /\ Due \subseteq {queued}
       /\ queued # 0 /\ queued \notin astray => queued \in Due /\ sent[queued] = 0
       /\ prompt # 0 => prompt \in astray /\ Due = {}
  /\ terminal = "ready" /\ socketProp = "open" => \A c \in Due : sent[c] = 1
  /\ terminal # "none" => \A k \in PasswordChecks :
       checks[k].saw \in {"null", "none"} => Due = {}

DialogInv == /\ DialogTypes /\ SocketFirst /\ OneCheckEach
             /\ TypedIsConfirmed /\ AloneUnderCheck /\ QueueOfTerminal

LEMMA DialogInvInit == UpdateDialogInit => DialogInv
<1> SUFFICES ASSUME UpdateDialogInit PROVE DialogInv
  OBVIOUS
<1>1. /\ updates = 0 /\ prompt = 0 /\ queued = 0 /\ terminal = "none"
      /\ socketProp = "none" /\ confirmed = {} /\ astray = {} /\ early = {}
      /\ \A k \in PasswordChecks : checks[k] = NoCheck
      /\ \A c \in UpdateRequests : sent[c] = 0
  BY DEF UpdateDialogInit
<1>2. DialogTypes
  <2>1. NoCheck \in [command : 0..updates,
                     saw : {"nothing", "null", "none", "starting", "ready", "failed"}]
    BY <1>1 DEF NoCheck
  <2>2. checks = [k \in PasswordChecks |-> NoCheck] /\ sent = [c \in UpdateRequests |-> 0]
    BY DEF UpdateDialogInit
  <2> QED
    BY <1>1, <2>1, <2>2, UpdateDialogAssumption DEF DialogTypes
<1>3. SocketFirst /\ OneCheckEach /\ TypedIsConfirmed
  BY <1>1 DEF SocketFirst, OneCheckEach, TypedIsConfirmed, NoCheck
<1>4. AloneUnderCheck /\ QueueOfTerminal
  BY <1>1 DEF AloneUnderCheck, QueueOfTerminal, Due, NoCheck
<1> QED
  BY <1>2, <1>3, <1>4 DEF DialogInv

LEMMA TriggerKeeps == ASSUME DialogInv, triggerUpdate PROVE DialogInv'
<1> DEFINE new == updates + 1
<1> USE DEF DialogInv
<1>1. /\ prompt = 0 /\ updates' = new /\ prompt' = new /\ queued' = new
      /\ UNCHANGED <<terminal, checks, socketProp, confirmed, sent, early>>
      /\ updates < MaxUpdateClicks
      /\ updates \in Nat
  BY UpdateDialogAssumption DEF triggerUpdate, DialogTypes
<1>2. /\ astray \subseteq astray'
      /\ astray' \subseteq astray \cup {new, queued}
      /\ terminal = "starting" => new \in astray' /\ queued \in astray'
      /\ (\E k \in PasswordChecks : checks[k].command # 0) => new \in astray'
  BY <1>1 DEF triggerUpdate, Checking
<1>3. new \notin confirmed /\ \A k \in PasswordChecks : checks[k].command # new
  BY <1>1 DEF DialogTypes
<1>4. DialogTypes'
  BY <1>1, <1>2, UpdateDialogAssumption DEF DialogTypes
<1>5. SocketFirst' /\ OneCheckEach'
  BY <1>1, <1>3 DEF SocketFirst, OneCheckEach
<1>6. TypedIsConfirmed'
  BY <1>1, <1>2 DEF TypedIsConfirmed
<1>7. AloneUnderCheck'
  BY <1>1, <1>2 DEF AloneUnderCheck
<1>8. Due' \subseteq Due /\ new \notin Due' /\ (terminal = "starting" => Due' = {})
  BY <1>1, <1>2, <1>3 DEF Due, QueueOfTerminal
<1>9. QueueOfTerminal'
  BY <1>1, <1>2, <1>8 DEF QueueOfTerminal
<1> QED
  BY <1>4, <1>5, <1>6, <1>7, <1>9

LEMMA SubmitKeeps == ASSUME DialogInv, NEW k \in PasswordChecks, submit(k) PROVE DialogInv'
<1> DEFINE r == [command |-> prompt, saw |-> Seen]
<1> USE DEF DialogInv
<1>1. /\ prompt # 0 /\ checks[k] = NoCheck
      /\ \A l \in PasswordChecks : checks[l].command # prompt
      /\ checks' = [checks EXCEPT ![k] = r]
      /\ UNCHANGED <<updates, prompt, queued, terminal, socketProp, confirmed, sent, astray, early>>
  BY DEF submit, UnderCheck
<1>2. r.command = prompt /\ r.saw = Seen /\ Seen \in {"null", terminal}
      /\ (Seen = "null" => terminal = "none")
      /\ (Seen = "none" => terminal = "none") /\ r # NoCheck
  BY <1>1 DEF Seen, SocketFirst, DialogTypes, NoCheck
<1>3. \A l \in PasswordChecks : checks'[l] = IF l = k THEN r ELSE checks[l]
  BY <1>1 DEF DialogTypes
<1>4. DialogTypes'
  <2>1. r \in [command : 0..updates,
               saw : {"nothing", "null", "none", "starting", "ready", "failed"}]
    BY <1>2 DEF DialogTypes
  <2> QED
    BY <1>1, <2>1 DEF DialogTypes
<1>5. SocketFirst' /\ TypedIsConfirmed'
  BY <1>1, <1>2, <1>3 DEF SocketFirst, TypedIsConfirmed, Seen
<1>6. OneCheckEach'
  BY <1>1, <1>2, <1>3 DEF OneCheckEach
<1>7. AloneUnderCheck'
  BY <1>1, <1>2, <1>3 DEF AloneUnderCheck
<1>8. QueueOfTerminal'
  BY <1>1, <1>2, <1>3 DEF QueueOfTerminal, Due
<1> QED
  BY <1>4, <1>5, <1>6, <1>7, <1>8

LEMMA CancelKeeps == ASSUME DialogInv, onCancel PROVE DialogInv'
<1> USE DEF DialogInv
<1>1. /\ prompt # 0 /\ prompt' = 0 /\ queued' = 0
      /\ UNCHANGED <<updates, terminal, checks, socketProp, confirmed, sent, early>>
      /\ astray \subseteq astray' /\ astray' \subseteq astray \cup {prompt}
      /\ (\E k \in PasswordChecks : checks[k].command = prompt) => prompt \in astray'
  BY DEF onCancel, UnderCheck
<1>2. DialogTypes'
  BY <1>1, UpdateDialogAssumption DEF DialogTypes
<1>3. SocketFirst' /\ OneCheckEach' /\ TypedIsConfirmed'
  <2>1. 0 \notin confirmed
    BY DEF DialogTypes
  <2> QED
    BY <1>1, <2>1 DEF SocketFirst, OneCheckEach, TypedIsConfirmed
<1>4. AloneUnderCheck'
  BY <1>1 DEF AloneUnderCheck
<1>5. QueueOfTerminal'
  BY <1>1 DEF QueueOfTerminal, Due, OneCheckEach
<1> QED
  BY <1>2, <1>3, <1>4, <1>5

LEMMA CheckFailsKeeps == ASSUME DialogInv, NEW k \in PasswordChecks, CheckFails(k) PROVE DialogInv'
<1> USE DEF DialogInv
<1>1. /\ \A l \in PasswordChecks : checks'[l] = IF l = k THEN NoCheck ELSE checks[l]
      /\ checks' = [checks EXCEPT ![k] = NoCheck]
      /\ UNCHANGED <<updates, prompt, queued, terminal, socketProp, confirmed, sent, astray, early>>
  BY DEF CheckFails, DialogTypes
<1>2. NoCheck.command = 0 /\ NoCheck.saw = "nothing"
  BY DEF NoCheck
<1>3. DialogTypes'
  <2>1. NoCheck \in [command : 0..updates,
                     saw : {"nothing", "null", "none", "starting", "ready", "failed"}]
    BY UpdateDialogAssumption DEF DialogTypes, NoCheck
  <2> QED
    BY <1>1, <2>1 DEF DialogTypes
<1>4. SocketFirst' /\ TypedIsConfirmed'
  BY <1>1, <1>2 DEF SocketFirst, TypedIsConfirmed
<1>5. OneCheckEach'
  BY <1>1, <1>2 DEF OneCheckEach
<1>6. AloneUnderCheck'
  BY <1>1, <1>2 DEF AloneUnderCheck
<1>7. QueueOfTerminal'
  BY <1>1, <1>2 DEF QueueOfTerminal, Due
<1> QED
  BY <1>3, <1>4, <1>5, <1>6, <1>7

LEMMA ConfirmKeeps == ASSUME DialogInv, NEW k \in PasswordChecks, onAuthConfirm(k) PROVE DialogInv'
<1> DEFINE c == checks[k].command
           saw == checks[k].saw
<1> USE DEF DialogInv
<1>1. /\ c # 0 /\ checks' = [checks EXCEPT ![k] = NoCheck]
      /\ prompt' = 0 /\ confirmed' = confirmed \cup {c}
      /\ early' = IF saw = "null" THEN early \cup {c} ELSE early
      /\ UNCHANGED <<updates, socketProp, astray>>
  BY DEF onAuthConfirm
<1>2. \/ /\ saw \in {"null", "none"} /\ queued' = c /\ UNCHANGED sent
         /\ terminal' = IF saw # "null" /\ terminal \in {"none", "failed"}
                        THEN "starting" ELSE terminal
      \/ /\ saw = "ready" /\ queued' = 0 /\ UNCHANGED terminal
         /\ sent' = IF socketProp = "open" THEN [sent EXCEPT ![c] = @ + 1] ELSE sent
      \/ /\ saw \in {"starting", "failed"} /\ UNCHANGED <<queued, terminal, sent>>
  BY DEF onAuthConfirm, initTerminal, runInTerminal
<1>3. c \in 1..updates /\ c \in UpdateRequests /\ updates \in Nat /\ c \notin confirmed
  BY <1>1, UpdateDialogAssumption DEF DialogTypes, UpdateRequests, OneCheckEach
<1>4. \A l \in PasswordChecks : checks'[l] = IF l = k THEN NoCheck ELSE checks[l]
  BY <1>1 DEF DialogTypes
<1>5. NoCheck.command = 0 /\ NoCheck.saw = "nothing"
  BY DEF NoCheck
<1>6. \A d \in UpdateRequests : sent'[d] = IF d = c /\ sent' # sent THEN sent[d] + 1 ELSE sent[d]
  BY <1>2, <1>3 DEF DialogTypes
<1>7. c \notin astray =>
        /\ sent[c] = 0
        /\ saw \in {"null", terminal} /\ (saw = "null" => terminal = "none")
        /\ \A l \in PasswordChecks : checks'[l] = NoCheck
        /\ terminal # "starting"
  <2>1. SUFFICES ASSUME c \notin astray
                 PROVE  /\ sent[c] = 0
                        /\ saw \in {"null", terminal} /\ (saw = "null" => terminal = "none")
                        /\ \A l \in PasswordChecks : checks'[l] = NoCheck
                        /\ terminal # "starting"
    OBVIOUS
  <2>2. sent[c] = 0
    BY <1>3, <2>1 DEF TypedIsConfirmed, DialogTypes
  <2>3. c = prompt /\ saw \in {"null", terminal} /\ (saw = "null" => terminal = "none")
    BY <1>1, <2>1 DEF AloneUnderCheck
  <2>4. \A l \in PasswordChecks : checks[l].command \in {0, c}
    BY <1>1, <2>1, <2>3 DEF AloneUnderCheck
  <2>5. \A l \in PasswordChecks : l # k => checks[l] = NoCheck
    BY <1>1, <2>4 DEF OneCheckEach
  <2>6. terminal # "starting"
    BY <1>1, <2>1, <2>3 DEF QueueOfTerminal
  <2> QED
    BY <1>4, <2>2, <2>3, <2>5, <2>6
<1>8. DialogTypes'
  <2>1. sent' \in [UpdateRequests -> Nat]
    BY <1>2, <1>3 DEF DialogTypes
  <2>2. terminal' \in {"none", "starting", "ready", "failed"} /\ queued' \in 0..updates
    BY <1>2, <1>3 DEF DialogTypes
  <2>3. NoCheck \in [command : 0..updates,
                     saw : {"nothing", "null", "none", "starting", "ready", "failed"}]
    BY <1>3 DEF NoCheck
  <2>4. checks' \in [PasswordChecks ->
                       [command : 0..updates,
                        saw : {"nothing", "null", "none", "starting", "ready", "failed"}]]
    BY <1>1, <2>3 DEF DialogTypes
  <2>5. confirmed' \in SUBSET (1..updates) /\ early' \in SUBSET (1..updates)
    BY <1>1, <1>3 DEF DialogTypes
  <2> QED
    BY <1>1, <1>3, <2>1, <2>2, <2>4, <2>5 DEF DialogTypes
<1>9. SocketFirst'
  <2>1. saw = "none" => socketProp # "none"
    BY <1>1, <1>3 DEF SocketFirst, DialogTypes
  <2> QED
    BY <1>1, <1>2, <1>4, <1>5, <2>1 DEF SocketFirst
<1>10. OneCheckEach'
  <2>1. 0 \notin confirmed'
    BY <1>1 DEF DialogTypes
  <2> QED
    BY <1>1, <1>4, <1>5, <2>1 DEF OneCheckEach
<1>11. TypedIsConfirmed'
  <2>1. c \notin early
    BY <1>3 DEF OneCheckEach
  <2> QED
    BY <1>1, <1>2, <1>6, <1>7, <2>1 DEF TypedIsConfirmed
<1>12. AloneUnderCheck'
  <2>1. CASE c \notin astray
    BY <1>1, <1>5, <1>7, <2>1 DEF AloneUnderCheck
  <2>2. CASE c \in astray
    BY <1>1, <1>2, <1>4, <1>5, <2>2 DEF AloneUnderCheck, OneCheckEach
  <2> QED
    BY <2>1, <2>2
<1>13. QueueOfTerminal'
  <2>1. CASE c \notin astray
    <3>1. c \notin early /\ \A l \in PasswordChecks : checks'[l].saw = "nothing"
      BY <1>3, <1>5, <1>7, <2>1 DEF OneCheckEach
    <3>2. Due' = IF saw = "null" THEN Due ELSE Due \cup {c}
      BY <1>1, <1>3, <2>1, <3>1 DEF Due
    <3>3. CASE terminal = "none"
      BY <1>1, <1>2, <1>7, <2>1, <3>1, <3>2, <3>3 DEF QueueOfTerminal
    <3>4. CASE terminal = "failed"
      BY <1>1, <1>2, <1>7, <2>1, <3>1, <3>4 DEF QueueOfTerminal
    <3>5. CASE terminal = "ready"
      <4>1. saw = "ready" /\ terminal' = "ready" /\ Due' = Due \cup {c}
        BY <1>2, <1>7, <2>1, <3>2, <3>5
      <4>2. ASSUME socketProp' = "open", NEW d \in Due' PROVE sent'[d] = 1
        <5>1. d \in UpdateRequests
          BY UpdateDialogAssumption, <1>8 DEF Due, DialogTypes, UpdateRequests
        <5>2. sent' = [sent EXCEPT ![c] = @ + 1]
          BY <1>1, <1>2, <4>1, <4>2
        <5>3. CASE d = c
          BY <1>3, <1>7, <2>1, <5>2, <5>3 DEF DialogTypes
        <5>4. CASE d # c
          BY <1>1, <3>5, <4>1, <4>2, <5>1, <5>2, <5>4 DEF QueueOfTerminal, DialogTypes
        <5> QED
          BY <5>3, <5>4
      <4> QED
        BY <3>1, <4>1, <4>2 DEF QueueOfTerminal
    <3> QED
      BY <1>7, <2>1, <3>3, <3>4, <3>5 DEF DialogTypes
  <2>2. CASE c \in astray
    <3>1. Due' = Due /\ c \notin Due /\ Due \subseteq UpdateRequests
      BY <1>1, <2>2, UpdateDialogAssumption DEF Due, DialogTypes, UpdateRequests
    <3>2. \A d \in Due : sent'[d] = sent[d]
      BY <1>6, <3>1
    <3>3. CASE saw \in {"null", "none"}
      <4>1. Due = {}
        BY <3>3 DEF QueueOfTerminal, DialogTypes
      <4> QED
        BY <1>1, <1>2, <2>2, <3>1, <3>3, <4>1 DEF QueueOfTerminal
    <3>4. CASE saw \notin {"null", "none"}
      <4>1. /\ UNCHANGED terminal /\ saw \in {"ready", "starting", "failed"}
            /\ queued' \in {queued, 0}
            /\ saw # "ready" => UNCHANGED <<queued, sent>>
        BY <1>2, <3>4
      <4>2. \A l \in PasswordChecks : checks'[l].saw \in {"null", "none"} =>
              checks[l].saw \in {"null", "none"}
        BY <1>4, <1>5
      <4>3. (terminal = "starting" => saw # "ready")
        BY <1>1, <3>4 DEF SocketFirst
      <4>4. queued' # 0 => queued' = queued /\ (queued \notin astray => queued # c)
        BY <2>2, <4>1
      <4> QED
        BY <1>1, <2>2, <3>1, <3>2, <4>1, <4>2, <4>3, <4>4 DEF QueueOfTerminal
    <3> QED
      BY <3>3, <3>4
  <2> QED
    BY <2>1, <2>2
<1> QED
  BY <1>8, <1>9, <1>10, <1>11, <1>12, <1>13

LEMMA TerminalReadyKeeps == ASSUME DialogInv, TerminalReady PROVE DialogInv'
<1> USE DEF DialogInv
<1>1. /\ terminal = "starting" /\ terminal' = "ready" /\ queued' = 0
      /\ sent' = IF queued # 0 /\ socketProp = "open" THEN [sent EXCEPT ![queued] = @ + 1] ELSE sent
      /\ UNCHANGED <<updates, prompt, checks, socketProp, confirmed, astray, early>>
  BY DEF TerminalReady, runInTerminal
<1>2. queued # 0 => queued \in UpdateRequests
  BY UpdateDialogAssumption DEF DialogTypes, UpdateRequests
<1>3. DialogTypes'
  <2>1. sent' \in [UpdateRequests -> Nat]
    BY <1>1, <1>2 DEF DialogTypes
  <2> QED
    BY <1>1, <2>1, UpdateDialogAssumption DEF DialogTypes
<1>4. SocketFirst' /\ OneCheckEach'
  BY <1>1 DEF SocketFirst, OneCheckEach
<1>5. \A d \in UpdateRequests : sent'[d] = IF d = queued /\ socketProp = "open" THEN sent[d] + 1 ELSE sent[d]
  BY <1>1, <1>2 DEF DialogTypes, UpdateRequests
<1>6. queued # 0 /\ queued \notin astray => queued \in Due /\ sent[queued] = 0
  BY <1>1 DEF QueueOfTerminal
<1>7. TypedIsConfirmed'
  BY <1>1, <1>2, <1>5, <1>6 DEF TypedIsConfirmed, Due
<1>8. AloneUnderCheck'
  BY <1>1 DEF AloneUnderCheck, QueueOfTerminal
<1>9. QueueOfTerminal'
  <2>1. Due' = Due /\ Due \subseteq {queued} /\ Due \subseteq UpdateRequests
    BY <1>1, UpdateDialogAssumption DEF QueueOfTerminal, Due, DialogTypes, UpdateRequests
  <2>2. \A d \in Due : d # 0 /\ d \notin astray
    BY UpdateDialogAssumption DEF Due, DialogTypes
  <2>3. socketProp = "open" => \A d \in Due : sent'[d] = 1
    BY <1>5, <1>6, <2>1, <2>2
  <2> QED
    BY <1>1, <2>1, <2>3 DEF QueueOfTerminal
<1> QED
  BY <1>3, <1>4, <1>7, <1>8, <1>9

LEMMA TerminalFailsKeeps == ASSUME DialogInv, TerminalFails PROVE DialogInv'
<1> USE DEF DialogInv
<1>1. /\ terminal = "starting" /\ terminal' = "failed"
      /\ UNCHANGED <<updates, prompt, queued, checks, socketProp, confirmed, sent, astray, early>>
  BY DEF TerminalFails
<1>2. DialogTypes' /\ SocketFirst'
  BY <1>1 DEF DialogTypes, SocketFirst
<1>3. OneCheckEach' /\ TypedIsConfirmed'
  BY <1>1 DEF OneCheckEach, TypedIsConfirmed
<1>4. AloneUnderCheck'
  BY <1>1 DEF AloneUnderCheck, QueueOfTerminal
<1>5. QueueOfTerminal'
  BY <1>1 DEF QueueOfTerminal, Due
<1> QED
  BY <1>2, <1>3, <1>4, <1>5

LEMMA OthersKeep ==
  ASSUME DialogInv, detectPrompt \/ SocketChanges \/ UNCHANGED updateDialogVars
  PROVE  DialogInv'
<1> USE DEF DialogInv
<1>1. /\ UNCHANGED <<updates, prompt, queued, terminal, checks, confirmed, sent, astray, early>>
      /\ \/ UNCHANGED socketProp
         \/ socketProp = "none" /\ socketProp' = "open"
         \/ socketProp = "open" /\ socketProp' = "closed"
  BY DEF detectPrompt, SocketChanges, updateDialogVars
<1>2. DialogTypes' /\ SocketFirst'
  BY <1>1 DEF DialogTypes, SocketFirst
<1>3. OneCheckEach' /\ TypedIsConfirmed'
  BY <1>1 DEF OneCheckEach, TypedIsConfirmed
<1>4. AloneUnderCheck'
  BY <1>1 DEF AloneUnderCheck
<1>5. QueueOfTerminal'
  BY <1>1 DEF QueueOfTerminal, Due, SocketFirst
<1> QED
  BY <1>2, <1>3, <1>4, <1>5

LEMMA DialogInvStep ==
  ASSUME DialogInv, [UpdateDialogNext]_updateDialogVars
  PROVE  DialogInv'
BY TriggerKeeps, SubmitKeeps, CancelKeeps, CheckFailsKeeps, ConfirmKeeps, TerminalReadyKeeps,
   TerminalFailsKeeps, OthersKeep
DEF UpdateDialogNext

\* Whatever checks, answers and failures come between the click and the
\* terminal: of the commands the property does not except, only confirmed ones
\* are typed, each once, and none is left out once the terminal is ready.
THEOREM ConfirmedOnceHolds == UpdateDialogSpec => []ConfirmedOnce
<1>1. UpdateDialogInit => DialogInv
  BY DialogInvInit
<1>2. DialogInv /\ [UpdateDialogNext]_updateDialogVars => DialogInv'
  BY DialogInvStep
<1>3. DialogInv => ConfirmedOnce
  BY DEF DialogInv, ConfirmedOnce, TypedIsConfirmed, QueueOfTerminal, Due
<1> QED
  BY <1>1, <1>2, <1>3, PTL DEF UpdateDialogSpec

-----------------------------------------------------------------------------
(* The session.                                                            *)

SessionTokens == [left : 1..Lifetime, role : Roles \cup {"none"}, language : BOOLEAN]
NewTokens == {token \in SessionTokens : token.left = Lifetime}

SessionTypes ==
  /\ account \in [role : Roles, language : BOOLEAN]
  /\ cookie \in SessionTokens \cup {NoCookie}
  /\ remaining \in Nat /\ hops \in 0..2
  /\ flagged \in BOOLEAN /\ excused \in BOOLEAN /\ warned \in BOOLEAN
  /\ polls \in [TimePolls -> [at : {"idle", "asked", "answered"}, left : Nat]]
  /\ requests = [r \in Requests |-> requests[r]]
  /\ \A r \in Requests : requests[r] = [for |-> requests[r].for, token |-> requests[r].token]
  /\ \A r \in Requests : requests[r].token \in NewTokens \cup {NoCookie}

\* The frame of a page has polled in this half minute.
PollsSettled == ticked /\ \A p \in TimePolls : polls[p] = Idle

\* A session under an open page that still has to be announced.
Unannounced == InShell /\ heading = "none" /\ ~excused /\ ~warned /\ cookie # NoCookie

\* Then no dialog is on record; the last answer was above the mark, unless
\* the session is new or a poll is outstanding; and at the mark a poll is
\* outstanding that will find it crossed.
Announced ==
  Unannounced =>
    /\ ~flagged
    /\ cookie.left > Warning =>
         remaining > Warning \/ cookie.left = Lifetime \/ ~PollsSettled
    /\ cookie.left <= Warning =>
         cookie.left = Warning /\ remaining > Warning /\ ~PollsSettled

\* The first redirection may lead to another one, the second does not.
Redirected ==
  /\ heading # "none" /\ hops = 1 => \E q \in Paths : heading = Target(q)
  /\ heading # "none" /\ hops = 2 => Target(heading) = heading

Headed == heading \in Paths \cup {"none"} /\ shown \in Paths

SessionInv == SessionTypes /\ Headed /\ Announced /\ Redirected

\* The middleware redirects a page at most twice.
LEMMA TwoRedirections ==
  ASSUME NEW q \in Paths
  PROVE  /\ Target(q) \in Paths
         /\ Target(Target(Target(q))) = Target(Target(q))
BY DEF Target, Paths

LEMMA SessionInitHolds == SessionInit => SessionInv
<1> SUFFICES ASSUME SessionInit PROVE SessionInv
  OBVIOUS
<1>1. SessionTypes
  <2>1. polls \in [TimePolls -> [at : {"idle", "asked", "answered"}, left : Nat]]
    BY DEF SessionInit, Idle
  <2>2. \A r \in Requests : requests[r] = NoRequest
    BY DEF SessionInit
  <2>3. requests = [r \in Requests |-> requests[r]]
    BY DEF SessionInit
  <2>4. \A r \in Requests : requests[r] = [for |-> requests[r].for, token |-> requests[r].token]
    BY <2>2 DEF NoRequest
  <2>5. \A r \in Requests : requests[r].token \in NewTokens \cup {NoCookie}
    BY <2>2 DEF NoRequest
  <2>6. /\ account \in [role : Roles, language : BOOLEAN] /\ cookie = NoCookie
        /\ remaining = 0 /\ hops = 0 /\ flagged = FALSE /\ excused = FALSE /\ warned = FALSE
    BY DEF SessionInit
  <2>7. cookie \in SessionTokens \cup {NoCookie} /\ remaining \in Nat /\ hops \in 0..2
    BY <2>6
  <2> QED
    BY <2>1, <2>3, <2>4, <2>5, <2>6, <2>7 DEF SessionTypes
<1>2. Headed /\ Announced /\ Redirected
  BY DEF SessionInit, Headed, Announced, Redirected, Unannounced, Paths, InShell
<1> QED
  BY <1>1, <1>2 DEF SessionInv

\* What the announcement and the redirections depend on.
sessionView == <<cookie, shown, heading, hops, remaining, flagged, polls, ticked, warned, excused>>

LEMMA ViewKept ==
  ASSUME Headed, Announced, Redirected, UNCHANGED sessionView
  PROVE  Headed' /\ Announced' /\ Redirected'
BY DEF sessionView, Headed, Announced, Redirected, Unannounced, PollsSettled, InShell, Target

\* Where requests come and go nothing else changes.
LEMMA RequestKeeps ==
  ASSUME SessionInv, NEW r \in Requests, NEW purpose, NEW token \in NewTokens \cup {NoCookie},
         account' \in [role : Roles, language : BOOLEAN],
         requests' = [requests EXCEPT ![r] = [for |-> purpose, token |-> token]],
         UNCHANGED sessionView
  PROVE  SessionInv'
<1>1. Headed' /\ Announced' /\ Redirected'
  BY ViewKept DEF SessionInv
<1>2. /\ requests' = [q \in Requests |-> requests'[q]]
      /\ \A q \in Requests : requests'[q] = IF q = r THEN [for |-> purpose, token |-> token] ELSE requests[q]
  BY DEF SessionInv, SessionTypes
<1>3. SessionTypes'
  BY <1>2 DEF SessionInv, SessionTypes, sessionView
<1> QED
  BY <1>1, <1>3 DEF SessionInv

LEMMA AsksKeeps ==
  ASSUME SessionInv, NEW r \in Requests, NEW purpose, Asks(r, purpose)
  PROVE  SessionInv'
<1>1. requests[r].token \in NewTokens \cup {NoCookie}
  BY DEF SessionInv, SessionTypes
<1>2. requests[r] = [for |-> requests[r].for, token |-> requests[r].token]
  BY DEF SessionInv, SessionTypes
<1>3. [requests[r] EXCEPT !.for = purpose] = [for |-> purpose, token |-> requests[r].token]
  BY <1>2
<1>4. requests' = [requests EXCEPT ![r] = [for |-> purpose, token |-> requests[r].token]]
  BY <1>3 DEF Asks, SessionInv, SessionTypes
<1>5. account' \in [role : Roles, language : BOOLEAN] /\ UNCHANGED sessionView
  BY DEF Asks, SessionInv, SessionTypes, sessionView, pageVars, shellVars, sessionHistory
<1> QED
  BY <1>1, <1>4, <1>5, RequestKeeps

LEMMA ServedKeeps ==
  ASSUME SessionInv, NEW r \in Requests, NEW purposes, NEW token \in NewTokens,
         account' \in [role : Roles, language : BOOLEAN], Served(r, purposes, token)
  PROVE  SessionInv'
<1>1. requests[r] = [for |-> requests[r].for, token |-> requests[r].token]
  BY DEF SessionInv, SessionTypes
<1>2. [requests[r] EXCEPT !.token = token] = [for |-> requests[r].for, token |-> token]
  BY <1>1
<1>3. requests' = [requests EXCEPT ![r] = [for |-> requests[r].for, token |-> token]]
  BY <1>2 DEF Served, SessionInv, SessionTypes
<1>4. UNCHANGED sessionView
  BY DEF Served, sessionView, pageVars, shellVars, sessionHistory
<1> QED
  BY <1>3, <1>4, RequestKeeps

\* The tokens the server makes are new ones.
LEMMA TokensAreNew ==
  ASSUME account \in [role : Roles, language : BOOLEAN]
  PROVE  /\ Token \in NewTokens
         /\ [Token EXCEPT !.role = "none"] \in NewTokens
         /\ [Token EXCEPT !.language = TRUE] \in NewTokens
         /\ [account EXCEPT !.language = TRUE] \in [role : Roles, language : BOOLEAN]
<1>1. Lifetime \in 1..Lifetime
  BY SessionAssumption
<1>2. /\ account.role \in Roles /\ account.language \in BOOLEAN
      /\ account = [role |-> account.role, language |-> account.language]
  OBVIOUS
<1> QED
  BY <1>1, <1>2 DEF Token, NewTokens, SessionTokens

LEMMA ServerKeeps ==
  ASSUME SessionInv, NEW r \in Requests,
         refresh(r) \/ renewSession(r) \/ changeLanguage(r) \/ userLanguage(r)
  PROVE  SessionInv'
<1>1. /\ Token \in NewTokens
      /\ [Token EXCEPT !.role = "none"] \in NewTokens
      /\ [Token EXCEPT !.language = TRUE] \in NewTokens
      /\ account \in [role : Roles, language : BOOLEAN]
      /\ [account EXCEPT !.language = TRUE] \in [role : Roles, language : BOOLEAN]
  BY TokensAreNew DEF SessionInv, SessionTypes
<1>2. CASE refresh(r)
  BY <1>1, <1>2, ServedKeeps DEF refresh
<1>3. CASE renewSession(r)
  BY <1>1, <1>3, ServedKeeps DEF renewSession
<1>4. CASE changeLanguage(r)
  BY <1>1, <1>4, ServedKeeps DEF changeLanguage, WithLanguage
<1>5. CASE userLanguage(r)
  BY <1>1, <1>5, ServedKeeps DEF userLanguage, WithLanguage
<1> QED
  BY <1>2, <1>3, <1>4, <1>5

LEMMA RequestFailsKeeps == ASSUME SessionInv, NEW r \in Requests, RequestFails(r) PROVE SessionInv'
<1>1. requests' = [requests EXCEPT ![r] = [for |-> "nothing", token |-> NoCookie]]
  BY DEF RequestFails, NoRequest
<1>2. account' \in [role : Roles, language : BOOLEAN] /\ UNCHANGED sessionView
  BY DEF RequestFails, SessionInv, SessionTypes, sessionView, pageVars, shellVars, sessionHistory
<1> QED
  BY <1>1, <1>2, RequestKeeps

RequestEnds ==
  \/ UNCHANGED requests
  \/ \E r \in Requests : requests' = [requests EXCEPT ![r] = NoRequest]

\* A new cookie: the session is a new one, and nothing was redirected yet.
LEMMA RenewedKeeps ==
  ASSUME SessionInv, NEW token \in NewTokens \cup {NoCookie}, SetCookie(token),
         excused' = flagged' \/ heading' # "none", excused' \in BOOLEAN, flagged' \in BOOLEAN,
         UNCHANGED <<account, shown, remaining>>,
         heading' \in Paths \cup {"none"},
         polls' \in [TimePolls -> [at : {"idle", "asked", "answered"}, left : Nat]],
         RequestEnds
  PROVE  SessionInv'
<1>1. /\ requests' = [q \in Requests |-> requests'[q]]
      /\ \A q \in Requests : requests'[q] = requests[q] \/ requests'[q] = NoRequest
  BY DEF SessionInv, SessionTypes, RequestEnds
<1>2. \A q \in Requests : requests'[q] = [for |-> requests'[q].for, token |-> requests'[q].token]
  BY <1>1 DEF SessionInv, SessionTypes, NoRequest
<1>3. \A q \in Requests : requests'[q].token \in NewTokens \cup {NoCookie}
  BY <1>1 DEF SessionInv, SessionTypes, NoRequest
<1>4. cookie' = token /\ hops' = 0 /\ warned' = FALSE
  BY DEF SetCookie
<1>5. cookie' \in SessionTokens \cup {NoCookie}
  BY <1>4 DEF NewTokens
<1>6. SessionTypes'
  <2>1. account' \in [role : Roles, language : BOOLEAN] /\ remaining' \in Nat
    <3>1. account \in [role : Roles, language : BOOLEAN] /\ remaining \in Nat
      BY Zenon DEF SessionInv, SessionTypes
    <3> QED
      BY <3>1, Zenon
  <2>2. hops' \in 0..2 /\ warned' \in BOOLEAN
    <3>1. 0 \in 0..2 /\ FALSE \in BOOLEAN
      OBVIOUS
    <3> QED
      BY <1>4, <3>1, Zenon
  <2>3. requests' = [q \in Requests |-> requests'[q]]
    BY <1>1
  <2> QED
    BY <1>2, <1>3, <1>5, <2>1, <2>2, <2>3, Zenon DEF SessionTypes
<1>7. Headed' /\ Redirected'
  BY <1>4 DEF SessionInv, Headed, Redirected
<1>8. cookie' # NoCookie => cookie'.left = Lifetime
  BY <1>4 DEF NewTokens
<1>9. Announced'
  <2>1. Lifetime > Warning /\ ~(Lifetime <= Warning)
    BY SessionAssumption
  <2> QED
    BY <1>8, <2>1 DEF Announced, Unannounced
<1> QED
  BY <1>6, <1>7, <1>9 DEF SessionInv

LEMMA LogsKeep == ASSUME SessionInv, handleSubmit \/ handleInternalLogout PROVE SessionInv'
<1>1. /\ UNCHANGED <<account, shown, remaining, polls, requests, flagged>>
      /\ heading' \in Paths
      /\ excused' \in BOOLEAN
      /\ SetCookie(Token) \/ SetCookie(NoCookie)
  BY DEF handleSubmit, handleInternalLogout, SessionInv, SessionTypes, shellVars, Paths
<1>2. "none" \notin Paths
  BY DEF Paths
<1>3. Token \in NewTokens
  BY TokensAreNew DEF SessionInv, SessionTypes
<1>4. /\ flagged' \in BOOLEAN
      /\ polls' \in [TimePolls -> [at : {"idle", "asked", "answered"}, left : Nat]]
  BY <1>1 DEF SessionInv, SessionTypes
<1>5. RequestEnds /\ UNCHANGED <<account, shown, remaining>> /\ heading' # "none"
      /\ heading' \in Paths \cup {"none"}
  BY <1>1, <1>2 DEF RequestEnds
<1>6. CASE SetCookie(Token)
  BY <1>1, <1>3, <1>4, <1>5, <1>6, RenewedKeeps
<1>7. CASE SetCookie(NoCookie)
  BY <1>1, <1>4, <1>5, <1>7, RenewedKeeps
<1> QED
  BY <1>1, <1>6, <1>7

LEMMA AskTimeTypes ==
  ASSUME SessionTypes, NEW p \in TimePolls, AskTime(p)
  PROVE  /\ polls' \in [TimePolls -> [at : {"idle", "asked", "answered"}, left : Nat]]
         /\ polls'[p] # Idle
<1>1. [at |-> "asked", left |-> 0] \in [at : {"idle", "asked", "answered"}, left : Nat]
  OBVIOUS
<1>2. [at |-> "asked", left |-> 0] # Idle
  BY DEF Idle
<1> QED
  BY <1>1, <1>2 DEF AskTime, SessionTypes

LEMMA AnswersKeep ==
  ASSUME SessionInv, NEW r \in Requests,
         \/ SessionRefreshed(r) \/ Reauthenticated(r) \/ OtherTabRenewed(r)
         \/ LanguageChanged(r) \/ LanguageChosen(r)
  PROVE  SessionInv'
<1>1. /\ requests[r].token \in NewTokens
      /\ requests' = [requests EXCEPT ![r] = NoRequest]
      /\ SetCookie(requests[r].token) /\ excused' = flagged'
      /\ UNCHANGED <<account, shown, remaining>>
  BY DEF SessionInv, SessionTypes, SessionRefreshed, Reauthenticated, OtherTabRenewed,
     LanguageChanged, LanguageChosen, Answered
<1>2. flagged' \in BOOLEAN
  BY DEF SessionInv, SessionTypes, SessionRefreshed, Reauthenticated, OtherTabRenewed,
     LanguageChanged, LanguageChosen
<1>3. heading' \in Paths \cup {"none"}
  BY DEF SessionInv, Headed, SessionRefreshed, Reauthenticated, OtherTabRenewed,
     LanguageChanged, LanguageChosen, Paths
<1>4. UNCHANGED polls \/ \E p \in TimePolls : AskTime(p)
  BY DEF SessionRefreshed, Reauthenticated, OtherTabRenewed, LanguageChanged, LanguageChosen, Told
<1>5. polls' \in [TimePolls -> [at : {"idle", "asked", "answered"}, left : Nat]]
  BY <1>4, AskTimeTypes DEF SessionInv, SessionTypes
<1> QED
  BY <1>1, <1>2, <1>3, <1>5, RenewedKeeps DEF RequestEnds

LEMMA VisitKeeps == ASSUME SessionInv, NEW path \in Paths, Visit(path) PROVE SessionInv'
<1>1. /\ heading' = path /\ hops' = 0
      /\ UNCHANGED <<account, cookie, shown, remaining, flagged, polls, ticked, requests,
                     warned, excused>>
  BY DEF Visit, shellVars, sessionHistory
<1>2. "none" \notin Paths
  BY DEF Paths
<1>3. SessionTypes' /\ Headed'
  BY <1>1 DEF SessionInv, SessionTypes, Headed
<1>4. Announced' /\ Redirected'
  BY <1>1, <1>2 DEF Announced, Unannounced, Redirected
<1> QED
  BY <1>3, <1>4 DEF SessionInv

LEMMA EnterKeeps ==
  ASSUME SessionInv, heading # "none", Enter(heading), UNCHANGED <<account, cookie, requests>>
  PROVE  SessionInv'
<1>1. /\ shown' = heading /\ heading' = "none" /\ remaining' = 0 /\ flagged' = FALSE
      /\ UNCHANGED <<hops, warned>>
      /\ excused' = (cookie.left <= Warning)
  BY DEF Enter
<1>2. polls' \in [TimePolls -> [at : {"idle", "asked", "answered"}, left : Nat]]
  BY DEF Enter, Idle
<1>3. SessionTypes' /\ Headed'
  <2>1. (cookie.left <= Warning) \in BOOLEAN
    OBVIOUS
  <2>2. excused' \in BOOLEAN
    BY <1>1, <2>1
  <2>3. remaining' \in Nat /\ flagged' \in BOOLEAN
    BY <1>1
  <2> QED
    BY <1>1, <1>2, <2>2, <2>3 DEF SessionInv, SessionTypes, Headed
<1>4. ASSUME InShell' PROVE ~PollsSettled'
  <2> DEFINE p == CHOOSE q \in TimePolls : TRUE
  <2>1. p \in TimePolls
    BY SessionAssumption
  <2>2. heading \in {"home", "settings", "bulk"}
    BY <1>1, <1>4 DEF InShell
  <2>3. polls'[p] = [at |-> "asked", left |-> 0]
    BY <2>1, <2>2 DEF Enter
  <2>4. polls'[p] # Idle
    BY <2>3 DEF Idle
  <2> QED
    BY <2>1, <2>4 DEF PollsSettled
<1>5. Announced'
  <2> SUFFICES ASSUME Unannounced' PROVE ~flagged' /\ ~PollsSettled' /\ ~(cookie.left <= Warning)
    BY DEF Announced
  <2> QED
    BY <1>1, <1>4 DEF Unannounced
<1>6. Redirected'
  BY <1>1 DEF Redirected
<1> QED
  BY <1>3, <1>5, <1>6 DEF SessionInv

LEMMA middlewareKeeps == ASSUME SessionInv, middleware PROVE SessionInv'
<1>1. heading # "none" /\ UNCHANGED <<account, cookie, requests>> /\ heading \in Paths
  BY DEF middleware, SessionInv, Headed
<1>2. CASE Target(heading) = heading
  BY <1>1, <1>2, EnterKeeps DEF middleware
<1>3. CASE Target(heading) # heading
  <2>1. /\ heading' = Target(heading) /\ hops' = hops + 1
        /\ UNCHANGED <<shown, remaining, flagged, polls, ticked, warned, excused>>
    BY <1>3 DEF middleware, shellVars, sessionHistory
  <2>2. hops \in {0, 1}
    BY <1>1, <1>3 DEF SessionInv, SessionTypes, Redirected
  <2>3. heading' \in Paths
    BY <1>1, <2>1, TwoRedirections
  <2>4. SessionTypes' /\ Headed'
    BY <1>1, <2>1, <2>2, <2>3 DEF SessionInv, SessionTypes, Headed
  <2>5. Announced'
    BY <2>3 DEF Announced, Unannounced, Paths
  <2>6. PICK h \in Paths : h = Target(heading)
    BY <1>1, TwoRedirections
  <2>7. Redirected'
    <3>1. CASE hops = 0
      <4>1. \E q \in Paths : heading' = Target(q)'
        BY <1>1, <2>1 DEF Target
      <4> QED
        BY <2>1, <3>1, <4>1 DEF Redirected
    <3>2. CASE hops = 1
      <4>1. PICK q \in Paths : heading = Target(q)
        BY <1>1, <3>2 DEF SessionInv, Redirected
      <4>2. Target(h) = h
        BY <2>6, <4>1, TwoRedirections
      <4>3. heading' = h /\ hops' = 2 /\ UNCHANGED cookie
        BY <1>1, <2>1, <2>6, <3>2
      <4> QED
        BY <4>2, <4>3 DEF Redirected, Target
    <3> QED
      BY <2>2, <3>1, <3>2
  <2> QED
    BY <2>4, <2>5, <2>7 DEF SessionInv
<1> QED
  BY <1>2, <1>3

\* The frame asks for the time left.
LEMMA IntervalKeeps == ASSUME SessionInv, Interval PROVE SessionInv'
<1>1. PICK p \in TimePolls : AskTime(p)
  BY DEF Interval
<1>2. /\ UNCHANGED <<account, cookie, shown, heading, hops, remaining, flagged, requests,
                     warned, excused>>
      /\ InShell /\ ticked' = TRUE
  BY DEF Interval, pageVars, sessionHistory
<1>3. /\ polls' \in [TimePolls -> [at : {"idle", "asked", "answered"}, left : Nat]]
      /\ polls'[p] # Idle
  BY <1>1, AskTimeTypes DEF SessionInv
<1>4. ~PollsSettled'
  BY <1>3 DEF PollsSettled
<1>5. SessionTypes' /\ Headed'
  BY <1>2, <1>3 DEF SessionInv, SessionTypes, Headed
<1>6. Announced'
  BY <1>2, <1>4 DEF SessionInv, Announced, Unannounced, InShell
<1>7. Redirected'
  BY <1>2 DEF SessionInv, Redirected, Target
<1> QED
  BY <1>5, <1>6, <1>7 DEF SessionInv

LEMMA sessionTimeKeeps == ASSUME SessionInv, NEW p \in TimePolls, sessionTime(p) PROVE SessionInv'
<1>1. /\ UNCHANGED <<account, cookie, shown, heading, hops, remaining, flagged, ticked, requests,
                     warned, excused>>
      /\ polls[p].at = "asked"
      /\ polls' = [polls EXCEPT ![p] = [at |-> "answered", left |-> cookie.left]]
  BY DEF sessionTime, pageVars, sessionHistory
<1>2. cookie.left \in Nat
  BY DEF SessionInv, SessionTypes, SessionTokens, NoCookie
<1>3. [at |-> "answered", left |-> cookie.left] \in [at : {"idle", "asked", "answered"}, left : Nat]
  BY <1>2
<1>4. [at |-> "answered", left |-> cookie.left] # Idle
  BY DEF Idle
<1>5. /\ polls' \in [TimePolls -> [at : {"idle", "asked", "answered"}, left : Nat]]
      /\ polls'[p] # Idle
  BY <1>1, <1>3, <1>4 DEF SessionInv, SessionTypes
<1>6. ~PollsSettled'
  BY <1>5 DEF PollsSettled
<1>7. SessionTypes' /\ Headed'
  BY <1>1, <1>5 DEF SessionInv, SessionTypes, Headed
<1>8. Announced'
  BY <1>1, <1>6 DEF SessionInv, Announced, Unannounced, InShell
<1>9. Redirected'
  BY <1>1 DEF SessionInv, Redirected, Target
<1> QED
  BY <1>7, <1>8, <1>9 DEF SessionInv

\* An answer that is not out of date leaves the last answer above the mark or
\* has the dialog shown.
LEMMA updateKeeps ==
  ASSUME SessionInv, NEW p \in TimePolls, updateRemainingTime(p)
  PROVE  SessionInv'
<1> DEFINE now == polls[p].left
           opens == now > 0 /\ ~flagged /\ Crosses(remaining, now)
<1>1. /\ UNCHANGED <<account, cookie, shown, heading, hops, ticked, requests>>
      /\ polls' = [polls EXCEPT ![p] = Idle]
      /\ remaining' = IF now = 0 THEN remaining ELSE now
      /\ flagged' = (flagged \/ opens) /\ dialog' = (dialog \/ opens)
      /\ warned' = (warned \/ dialog')
      /\ excused' = (excused \/ now # cookie.left)
  BY DEF updateRemainingTime, pageVars
<1>2. now \in Nat /\ remaining \in Nat /\ cookie.left \in Nat /\ Warning \in Nat
  BY SessionAssumption DEF SessionInv, SessionTypes, SessionTokens, NoCookie
<1>3. Idle \in [at : {"idle", "asked", "answered"}, left : Nat]
  BY DEF Idle
<1>4. polls' \in [TimePolls -> [at : {"idle", "asked", "answered"}, left : Nat]]
  BY <1>1, <1>3 DEF SessionInv, SessionTypes
<1>5. remaining' \in Nat
  BY <1>1, <1>2
<1>6. flagged' \in BOOLEAN /\ warned' \in BOOLEAN /\ excused' \in BOOLEAN
  BY <1>1
<1>7. SessionTypes' /\ Headed'
  BY <1>1, <1>4, <1>5, <1>6 DEF SessionInv, SessionTypes, Headed
<1>8. Announced'
  <2> SUFFICES ASSUME Unannounced'
               PROVE  ~flagged' /\ cookie.left > Warning /\ remaining' > Warning
    BY <1>1, <1>2 DEF Announced
  <2>1. Unannounced /\ ~opens /\ now = cookie.left
    BY <1>1 DEF Unannounced, InShell
  <2>2. cookie.left >= 1
    BY <2>1 DEF SessionInv, SessionTypes, SessionTokens, Unannounced
  <2>3. ~flagged /\ (cookie.left <= Warning => remaining > Warning)
    BY <2>1 DEF SessionInv, Announced
  <2>4. cookie.left > Warning
    BY <1>2, <2>1, <2>2, <2>3 DEF Crosses
  <2>5. ~flagged'
    BY <1>1, <2>1, <2>3, Zenon
  <2>6. remaining' = cookie.left
    BY <1>1, <2>1, <2>2
  <2> QED
    BY <2>4, <2>5, <2>6
<1>9. Redirected'
  BY <1>1 DEF SessionInv, Redirected, Target
<1> QED
  BY <1>7, <1>8, <1>9 DEF SessionInv

LEMMA PollFailsKeeps == ASSUME SessionInv, NEW p \in TimePolls, PollFails(p) PROVE SessionInv'
<1>1. /\ UNCHANGED <<account, cookie, shown, heading, hops, remaining, flagged, ticked, requests,
                     warned>>
      /\ polls' = [polls EXCEPT ![p] = Idle] /\ excused' = TRUE
  BY DEF PollFails, pageVars
<1>2. Idle \in [at : {"idle", "asked", "answered"}, left : Nat]
  BY DEF Idle
<1>3. SessionTypes' /\ Headed'
  BY <1>1, <1>2 DEF SessionInv, SessionTypes, Headed
<1>4. Announced' /\ Redirected'
  BY <1>1 DEF SessionInv, Announced, Unannounced, Redirected, Target
<1> QED
  BY <1>3, <1>4 DEF SessionInv

\* Half a minute passes when no poll is outstanding.
LEMMA TimeKeeps == ASSUME SessionInv, HalfMinutePasses PROVE SessionInv'
<1>1. /\ UNCHANGED <<account, shown, heading, remaining, flagged, polls, requests, warned, excused>>
      /\ heading = "none" /\ ticked' = FALSE
      /\ cookie # NoCookie /\ cookie \in SessionTokens
      /\ InShell => PollsSettled
  BY DEF HalfMinutePasses, sessionHistory, SessionInv, SessionTypes, PollsSettled
<1>2. cookie.left \in 1..Lifetime /\ Lifetime \in Nat /\ Warning \in 1..(Lifetime - 2)
  BY <1>1, SessionAssumption DEF SessionTokens
<1>3. Redirected' /\ Headed'
  BY <1>1 DEF Redirected, Headed, SessionInv
<1>4. CASE cookie.left > 1
  <2>1. cookie' = [cookie EXCEPT !.left = cookie.left - 1] /\ hops' = hops
    BY <1>4 DEF HalfMinutePasses
  <2>2. cookie'.left = cookie.left - 1 /\ cookie' \in SessionTokens
    BY <1>1, <1>2, <1>4, <2>1 DEF SessionTokens
  <2>3. SessionTypes'
    BY <1>1, <2>1, <2>2 DEF SessionInv, SessionTypes
  <2>4. ~PollsSettled'
    BY <1>1 DEF PollsSettled
  <2>5. Announced'
    <3> SUFFICES ASSUME Unannounced'
                 PROVE  /\ ~flagged
                        /\ cookie.left - 1 <= Warning =>
                             cookie.left - 1 = Warning /\ remaining > Warning
      BY <1>1, <2>2, <2>4 DEF Announced
    <3>1. Unannounced /\ PollsSettled
      BY <1>1 DEF Unannounced, InShell
    <3>2. /\ ~flagged
          /\ cookie.left > Warning => remaining > Warning \/ cookie.left = Lifetime
          /\ ~(cookie.left <= Warning)
      BY <3>1 DEF SessionInv, Announced
    <3> QED
      BY <1>2, <3>2
  <2> QED
    BY <1>3, <2>3, <2>5 DEF SessionInv
<1>5. CASE ~(cookie.left > 1)
  <2>1. cookie' = NoCookie /\ hops' = 0
    BY <1>5 DEF HalfMinutePasses
  <2>2. SessionTypes'
    BY <1>1, <2>1 DEF SessionInv, SessionTypes
  <2>3. Announced'
    BY <2>1 DEF Announced, Unannounced
  <2> QED
    BY <1>3, <2>2, <2>3 DEF SessionInv
<1> QED
  BY <1>4, <1>5

LEMMA SessionStep == ASSUME SessionInv, [SessionNext]_webSessionVars PROVE SessionInv'
<1>1. CASE CancelDialog \/ UNCHANGED webSessionVars
  <2>1. UNCHANGED sessionView /\ UNCHANGED <<account, requests>>
    BY <1>1 DEF CancelDialog, webSessionVars, sessionView, pageVars, shellVars, sessionHistory
  <2>2. Headed' /\ Announced' /\ Redirected'
    BY <2>1, ViewKept DEF SessionInv
  <2>3. SessionTypes'
    BY <2>1 DEF SessionInv, SessionTypes, sessionView
  <2> QED
    BY <2>2, <2>3 DEF SessionInv
<1>2. ASSUME NEW path \in Paths, Visit(path) PROVE SessionInv'
  BY <1>2, VisitKeeps
<1>3. CASE middleware
  BY <1>3, middlewareKeeps
<1>4. CASE handleSubmit \/ handleInternalLogout
  BY <1>4, LogsKeep
<1>5. ASSUME NEW r \in Requests,
             \/ handleRefreshSession(r) \/ reauthenticate(r) \/ handleLanguageChange(r)
             \/ handleSelect(r) \/ OtherTabAsks(r)
      PROVE  SessionInv'
  BY <1>5, AsksKeeps DEF handleRefreshSession, reauthenticate, handleLanguageChange,
     handleSelect, OtherTabAsks
<1>6. ASSUME NEW r \in Requests,
             refresh(r) \/ renewSession(r) \/ changeLanguage(r) \/ userLanguage(r)
      PROVE  SessionInv'
  BY <1>6, ServerKeeps
<1>7. ASSUME NEW r \in Requests,
             \/ SessionRefreshed(r) \/ Reauthenticated(r) \/ OtherTabRenewed(r)
             \/ LanguageChanged(r) \/ LanguageChosen(r)
      PROVE  SessionInv'
  BY <1>7, AnswersKeep
<1>8. ASSUME NEW r \in Requests, RequestFails(r) PROVE SessionInv'
  BY <1>8, RequestFailsKeeps
<1>9. CASE Interval
  BY <1>9, IntervalKeeps
<1>10. CASE HalfMinutePasses
  BY <1>10, TimeKeeps
<1>11. ASSUME NEW p \in TimePolls, sessionTime(p) \/ updateRemainingTime(p) \/ PollFails(p)
       PROVE  SessionInv'
  BY <1>11, sessionTimeKeeps, updateKeeps, PollFailsKeeps
<1> QED
  BY <1>1, <1>2, <1>3, <1>4, <1>5, <1>6, <1>7, <1>8, <1>9, <1>10, <1>11 DEF SessionNext

\* However late the answers of this page's renewals come, a session in its last
\* half minute has been announced under an open page, and a navigation is
\* redirected at most twice (AppShell.tsx, middleware.ts).  What is excused is
\* named at the property: late entries, failed or overtaken polls, and renewals
\* by somebody else while the dialog was on record.
THEOREM WarnedBeforeTheEndHolds == SessionSpec => []WarnedBeforeTheEnd
<1>1. SessionInit => SessionInv
  BY SessionInitHolds
<1>2. SessionInv /\ [SessionNext]_webSessionVars => SessionInv'
  BY SessionStep
<1>3. SessionInv => WarnedBeforeTheEnd
  <2> SUFFICES ASSUME SessionInv PROVE WarnedBeforeTheEnd
    OBVIOUS
  <2>1. hops <= 2
    BY DEF SessionInv, SessionTypes
  <2>2. ASSUME InShell, cookie.left = 1, PollsSettled, heading = "none", ~excused, ~warned
        PROVE  FALSE
    <3>1. Unannounced
      BY <2>2 DEF Unannounced, NoCookie
    <3>2. ~(cookie.left <= Warning)
      BY <2>2, <3>1 DEF SessionInv, Announced
    <3> QED
      BY <2>2, <3>2, SessionAssumption
  <2> QED
    BY <2>1, <2>2 DEF WarnedBeforeTheEnd, PollsSettled
<1> QED
  BY <1>1, <1>2, <1>3, PTL DEF SessionSpec

-----------------------------------------------------------------------------
(* The bulk jobs.                                                          *)

\* What the form and the selection of the dialog have in common: the machines
\* of a job are only ever chosen along with its command, and a group is the
\* target only of the command that was filled in with it.
FormAgrees ==
  /\ form \in PageJobs /\ selection \in PageJobs => form = selection
  /\ form \in PageJobs /\ editing \in GroupJobs => form = editing

JobPageInv == FormAgrees /\ OneJobAtATime

LEMMA NobodysJob == "none" \notin PageJobs /\ "user" \notin PageJobs /\ "none" \notin GroupJobs
BY JobPageAssumption DEF PageJobs

\* What is sent is of one job.
LEMMA SubmitKeepsJobs == ASSUME JobPageInv, Submit PROVE JobPageInv'
<1>1. form \in PageJobs /\ Targets \in PageJobs => form = Targets
  BY DEF JobPageInv, FormAgrees, Targets
<1>2. /\ submitted' = submitted \cup {[command |-> form, targets |-> Targets]}
      /\ UNCHANGED <<form, selection, editing>> /\ UNCHANGED detailVars
  BY DEF Submit
<1>3. FormAgrees'
  BY <1>2 DEF JobPageInv, FormAgrees
<1>4. OneJobAtATime'
  BY <1>1, <1>2 DEF JobPageInv, OneJobAtATime, detailVars
<1> QED
  BY <1>3, <1>4 DEF JobPageInv

\* The dialog is filled in without anything being sent.
LEMMA FillingKeeps ==
  ASSUME JobPageInv, UNCHANGED submitted, UNCHANGED detailVars, FormAgrees'
  PROVE  JobPageInv'
BY DEF JobPageInv, OneJobAtATime, detailVars

\* The details change without the dialog being touched.
LEMMA DetailsKeep ==
  ASSUME JobPageInv, UNCHANGED formVars,
         ~detailLoads' /\ ~loadFailed' => executions' = activeJob'
  PROVE  JobPageInv'
BY DEF JobPageInv, OneJobAtATime, FormAgrees, formVars

LEMMA DialogStep ==
  ASSUME JobPageInv,
         \/ openNewBulkDialog \/ handleCloseDialog \/ EditForm \/ handleDryRun
         \/ handleRunJobWithCheck \/ handleRunJob \/ DoNotConfirm \/ CreateJob \/ CreationFails
  PROVE  JobPageInv'
<1>1. CASE Submit
  BY <1>1, SubmitKeepsJobs
<1>2. CASE ~Submit
  <2>1. UNCHANGED submitted /\ UNCHANGED detailVars
    BY <1>2 DEF openNewBulkDialog, handleCloseDialog, EditForm, handleDryRun,
       handleRunJobWithCheck, handleRunJob, DoNotConfirm, CreateJob, CreationFails
  <2>2. FormAgrees'
    BY <1>2, NobodysJob DEF JobPageInv, FormAgrees, openNewBulkDialog, handleCloseDialog, Closed,
       EditForm, handleDryRun, handleRunJobWithCheck, handleRunJob, DoNotConfirm, CreateJob,
       CreationFails
  <2> QED
    BY <2>1, <2>2, FillingKeeps
<1> QED
  BY <1>1, <1>2

LEMMA PrefillStep ==
  ASSUME JobPageInv,
         \/ \E j \in PageJobs : handleOpenJobEditor(j)
         \/ \E f \in PageFetches : Prefilled(f) \/ PrefillFails(f)
  PROVE  JobPageInv'
<1>1. UNCHANGED submitted /\ UNCHANGED detailVars
  BY DEF handleOpenJobEditor, Prefilled, PrefillFails
<1>2. FormAgrees'
  BY NobodysJob DEF JobPageInv, FormAgrees, handleOpenJobEditor, Prefilled, PrefillFails, Closed
<1> QED
  BY <1>1, <1>2, FillingKeeps

\* The new job is shown as well.
LEMMA JobCreatedKeeps == ASSUME JobPageInv, JobCreated PROVE JobPageInv'
<1>1. UNCHANGED <<form, submitted>> /\ selection' = "none" /\ editing' = "none" /\ detailLoads'
  BY DEF JobCreated
<1> QED
  BY <1>1, NobodysJob DEF JobPageInv, FormAgrees, OneJobAtATime

\* An answer about details has the last word, or leaves them as they are.
LEMMA AnswersTell ==
  ASSUME NEW f \in PageFetches,
         \/ DetailLoaded(f) \/ DetailFails(f) \/ AbortAnswered(f)
         \/ Deleted(f) \/ ShownDeleted(f)
  PROVE  \/ UNCHANGED <<activeJob, executions, detailLoads, loadFailed>>
         \/ detailLoads' \/ loadFailed' \/ executions' = activeJob'
<1>1. CASE DetailLoaded(f)
  BY <1>1 DEF DetailLoaded
<1>2. CASE DetailFails(f)
  BY <1>2 DEF DetailFails
<1>3. CASE AbortAnswered(f)
  BY <1>3 DEF AbortAnswered
<1>4. CASE Deleted(f)
  BY <1>4 DEF Deleted, PanelCleared
<1>5. CASE ShownDeleted(f)
  BY <1>5 DEF ShownDeleted, PanelCleared
<1> QED
  BY <1>1, <1>2, <1>3, <1>4, <1>5

LEMMA DetailStep ==
  ASSUME JobPageInv,
         \/ onmessage \/ handleAbortJob \/ CloseDetail \/ DeleteShown
         \/ \E j \in PageJobs : openJobDetail(j) \/ handleDeleteJob(j)
         \/ \E f \in PageFetches :
              \/ DetailLoaded(f) \/ DetailFails(f) \/ AbortJob(f) \/ AbortAnswered(f)
              \/ DeleteJob(f) \/ Deleted(f) \/ ShownDeleted(f)
  PROVE  JobPageInv'
<1>1. UNCHANGED formVars
  BY DEF onmessage, handleAbortJob, CloseDetail, DeleteShown, openJobDetail, handleDeleteJob,
     DetailLoaded, DetailFails, AbortJob, AbortAnswered, DeleteJob, Deleted, ShownDeleted,
     ServerDoes
<1>2. \/ UNCHANGED <<activeJob, executions, detailLoads, loadFailed>>
      \/ detailLoads' \/ loadFailed' \/ executions' = activeJob'
  <2>1. CASE onmessage \/ handleAbortJob \/ CloseDetail \/ DeleteShown
    BY <2>1 DEF onmessage, handleAbortJob, CloseDetail, DeleteShown, PanelCleared, detailVars
  <2>2. ASSUME NEW j \in PageJobs, openJobDetail(j) \/ handleDeleteJob(j)
        PROVE  UNCHANGED <<activeJob, executions, detailLoads, loadFailed>> \/ detailLoads'
    BY <2>2 DEF openJobDetail, handleDeleteJob, detailVars
  <2>3. ASSUME NEW f \in PageFetches, AbortJob(f) \/ DeleteJob(f)
        PROVE  UNCHANGED <<activeJob, executions, detailLoads, loadFailed>>
    BY <2>3 DEF AbortJob, DeleteJob, ServerDoes, detailVars
  <2>4. ASSUME NEW f \in PageFetches,
               \/ DetailLoaded(f) \/ DetailFails(f) \/ AbortAnswered(f)
               \/ Deleted(f) \/ ShownDeleted(f)
        PROVE  \/ UNCHANGED <<activeJob, executions, detailLoads, loadFailed>>
               \/ detailLoads' \/ loadFailed' \/ executions' = activeJob'
    BY <2>4, AnswersTell
  <2> QED
    BY <2>1, <2>2, <2>3, <2>4
<1>3. ~detailLoads' /\ ~loadFailed' => executions' = activeJob'
  BY <1>2 DEF JobPageInv, OneJobAtATime
<1> QED
  BY <1>1, <1>3, DetailsKeep

\* The command of one job is never sent to the targets of another, and the
\* executions shown are those of the job shown, however answers overtake each
\* other.
THEOREM OneJobAtATimeHolds == JobPageSpec => []OneJobAtATime
<1>1. JobPageInit => JobPageInv
  BY NobodysJob DEF JobPageInit, JobPageInv, FormAgrees, OneJobAtATime
<1>2. JobPageInv /\ [JobPageNext]_jobPageVars => JobPageInv'
  <2> SUFFICES ASSUME JobPageInv, [JobPageNext]_jobPageVars PROVE JobPageInv'
    OBVIOUS
  <2>1. CASE UNCHANGED jobPageVars
    <3>1. UNCHANGED formVars /\ UNCHANGED detailVars
      BY <2>1 DEF jobPageVars
    <3> QED
      BY <3>1, DetailsKeep DEF detailVars, JobPageInv, OneJobAtATime
  <2> QED
    BY <2>1, DialogStep, PrefillStep, JobCreatedKeeps, DetailStep DEF JobPageNext
<1>3. JobPageInv => OneJobAtATime
  BY DEF JobPageInv
<1> QED
  BY <1>1, <1>2, <1>3, PTL DEF JobPageSpec

=============================================================================
