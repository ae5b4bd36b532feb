---------------------------- MODULE MachinePage ----------------------------
(***************************************************************************)
(* The page of a machine (server/src/app/machine/[id]/page.tsx): what it   *)
(* shows of the machine comes from fetches and from the messages of a      *)
(* WebSocket that is never opened again; a reboot and an agent update lock *)
(* parts of it until something says that they are over; and the user       *)
(* writes notes into it, which another user may do at the same time        *)
(* (api/machines/[id]).                                                    *)
(*                                                                         *)
(* Abstractions: links, security summary, analytics and the log dialog are *)
(* left out; whether a password is right is a choice; metrics, which the   *)
(* server never sends, are left out.                                       *)
(***************************************************************************)
EXTENDS Naturals, Sequences

CONSTANTS Texts,        \* what notes may say
          PageReads,    \* fetches of the machine under way at once
          MaxMessages,  \* bound: messages in the socket
          MaxWrites     \* bound: texts typed, and saved by others

ASSUME MachinePageAssumption == MaxMessages \in Nat /\ MaxWrites \in Nat

VARIABLES
  machine,       \* "up", "told" to reboot or update but not done, "down"
  row,           \* notes in the row and in the cache
  socket,        \* messages on their way to the page
  open,          \* the page's WebSocket is open
  status,        \* machine.status of the page
  rebooting,     \* the overlay
  executing,     \* "none", "reboot", "update"
  critical,      \* pendingCriticalCommand
  notes,         \* machine.notes of the page
  draft,         \* notesDraft
  dirty,         \* notesDirty
  typed,         \* history: the text the user typed last
  saving,        \* notesSaving: "no", "asked", "written"
  savingText,    \* the text of the request
  reads,         \* per fetch: what was read, once it was
  writes         \* bound: texts so far

serverVars == <<machine, row, open>>
controlVars == <<status, rebooting, executing, critical>>
notesVars == <<notes, draft, dirty, typed, saving, savingText>>
machinePageVars == <<serverVars, socket, controlVars, notesVars, reads, writes>>

NoRead == [at |-> "none"]

MachinePageInit ==
  /\ machine = "up" /\ row \in Texts /\ socket = <<>> /\ open = TRUE
  /\ status = "online" /\ rebooting = FALSE
  /\ executing = "none" /\ critical = FALSE
  /\ notes = row /\ draft = row /\ dirty = FALSE /\ typed = row
  /\ saving = "no" /\ savingText = row
  /\ reads = [r \in PageReads |-> NoRead] /\ writes = 0

Tell(messages) ==
  IF ~open THEN socket' = socket
  ELSE /\ Len(socket) + Len(messages) <= MaxMessages
       /\ socket' = socket \o messages

-----------------------------------------------------------------------------
(* The machine and the server.                                             *)

Heartbeat ==
  /\ machine \in {"up", "told"} /\ Tell(<<"beat">>)
  /\ UNCHANGED <<serverVars, controlVars, notesVars, reads, writes>>

\* The command is done: it is reported or not, and the agent goes away.
CommandTakesEffect ==
  /\ machine = "told"
  /\ \/ machine' = "down" /\ \E m \in {<<"offline">>, <<"completed", "offline">>} : Tell(m)
     \/ machine' = "up" /\ Tell(<<"completed">>)
  /\ UNCHANGED <<row, open, controlVars, notesVars, reads, writes>>

ComesBack ==
  /\ machine = "down" /\ machine' = "up" /\ Tell(<<"online">>)
  /\ UNCHANGED <<row, open, controlVars, notesVars, reads, writes>>

SocketCloses ==
  /\ open /\ open' = FALSE /\ socket' = <<>>
  /\ UNCHANGED <<machine, row, controlVars, notesVars, reads, writes>>

OtherUserSaves(text) ==
  /\ writes < MaxWrites /\ writes' = writes + 1 /\ row' = text
  /\ UNCHANGED <<machine, open, socket, controlVars, notesVars, reads>>

-----------------------------------------------------------------------------
(* What the page takes over from the machine.                              *)

\* Faulty: the draft follows whatever comes in.
DraftFollowsAlways(text, isDirty) == notes' = text /\ draft' = text

\* The effect that runs when the machine or notesDirty changes.
DraftFollows(text, isDirty) ==
  notes' = text /\ draft' = IF isDirty THEN draft ELSE text

\* The machine is back, as far as the page can tell.
Back == rebooting' = FALSE

StartRead ==
  \E r \in PageReads : /\ reads[r] = NoRead
                       /\ reads' = [reads EXCEPT ![r] = [at |-> "asked"]]

Refresh ==
  /\ ~rebooting /\ StartRead
  /\ UNCHANGED <<serverVars, socket, controlVars, notesVars, writes>>

ServerReads(r) ==
  /\ reads[r].at = "asked"
  /\ reads' = [reads EXCEPT ![r] =
                 [at |-> "read", text |-> row,
                  status |-> IF machine \in {"up", "told"} THEN "online" ELSE "offline"]]
  /\ UNCHANGED <<serverVars, socket, controlVars, notesVars, writes>>

fetchMachine(r) ==
  /\ reads[r].at = "read"
  /\ reads' = [reads EXCEPT ![r] = NoRead]
  /\ status' = reads[r].status /\ DraftFollows(reads[r].text, dirty)
  /\ UNCHANGED <<rebooting, executing, critical>>
  /\ UNCHANGED <<dirty, typed, saving, savingText, serverVars, socket, writes>>

\* A change of status or a heartbeat makes a new machine object of the page,
\* with the notes it has.
StatusArrives ==
  /\ Head(socket) \in {"online", "offline"}
  /\ status' = Head(socket)
  /\ IF status' = "online"
       THEN /\ Back
            /\ executing' = IF executing = "update" THEN "none" ELSE executing
       ELSE UNCHANGED <<rebooting, executing>>
  /\ DraftFollows(notes, dirty) /\ UNCHANGED reads

BeatArrives ==
  /\ Head(socket) = "beat"
  /\ status' = "online" /\ Back
  /\ DraftFollows(notes, dirty) /\ UNCHANGED <<executing, reads>>

\* The end of any command: the machine is fetched again.
CompletionArrives ==
  /\ Head(socket) = "completed"
  /\ executing' = "none" /\ StartRead
  /\ UNCHANGED <<status, rebooting, notes, draft>>

handleMessage ==
  /\ socket # <<>> /\ socket' = Tail(socket)
  /\ StatusArrives \/ BeatArrives \/ CompletionArrives
  /\ UNCHANGED <<serverVars, critical, dirty, typed, saving, savingText, writes>>

-----------------------------------------------------------------------------
(* What the user does with the machine.                                    *)

ActionsEnabled == status = "online" /\ executing = "none" /\ ~rebooting

handleCommand ==
  /\ ActionsEnabled /\ critical' = TRUE
  /\ UNCHANGED <<serverVars, socket, status, rebooting, executing, notesVars, reads, writes>>

Cancel ==
  /\ critical /\ critical' = FALSE
  /\ UNCHANGED <<serverVars, socket, status, rebooting, executing, notesVars, reads, writes>>

\* A machine the server has no connection to is sent nothing, and nobody is
\* told.
handleExecuteCommand == machine' = IF machine = "up" THEN "told" ELSE machine
handleUpdateAgent == machine' = IF machine = "up" THEN "told" ELSE machine

\* The password was right; without a socket nothing happens.
executeCommand ==
  /\ critical /\ critical' = FALSE
  /\ IF ~open THEN UNCHANGED <<executing, rebooting, machine>>
     ELSE executing' = "reboot" /\ rebooting' = TRUE /\ handleExecuteCommand
  /\ UNCHANGED <<row, open, socket, status, notesVars, reads, writes>>

updateAgent ==
  /\ ActionsEnabled /\ open
  /\ executing' = "update" /\ handleUpdateAgent
  /\ UNCHANGED <<row, open, socket, status, rebooting, critical, notesVars, reads, writes>>

CloseLog ==
  /\ executing # "none" /\ executing' = "none"
  /\ UNCHANGED <<serverVars, socket, status, rebooting, critical, notesVars, reads, writes>>

-----------------------------------------------------------------------------
(* The notes.                                                              *)

Type(text) ==
  /\ saving = "no" /\ writes < MaxWrites /\ writes' = writes + 1
  /\ draft' = text /\ dirty' = TRUE /\ typed' = text
  /\ UNCHANGED <<notes, saving, savingText, serverVars, socket, controlVars, reads>>

saveNotes ==
  /\ saving = "no" /\ (dirty \/ notes # draft)
  /\ saving' = "asked" /\ savingText' = draft
  /\ UNCHANGED <<notes, draft, dirty, typed, serverVars, socket, controlVars, reads, writes>>

\* PATCH writes the row and the cache, and is answered with the row written.
ServerSaves ==
  /\ saving = "asked" /\ saving' = "written" /\ row' = savingText
  /\ UNCHANGED <<notes, draft, dirty, typed, savingText, machine, open, socket, controlVars,
                 reads, writes>>

SaveAnswered ==
  /\ saving = "written" /\ saving' = "no"
  /\ dirty' = FALSE /\ DraftFollows(savingText, FALSE)
  /\ UNCHANGED <<typed, savingText, serverVars, socket, controlVars, reads, writes>>

\* The request or its answer is lost.
SaveFails ==
  /\ saving \in {"asked", "written"} /\ saving' = "no"
  /\ UNCHANGED <<notes, draft, dirty, typed, savingText, serverVars, socket, controlVars,
                 reads, writes>>

-----------------------------------------------------------------------------
MachinePageNext ==
  \/ Heartbeat \/ CommandTakesEffect \/ ComesBack \/ SocketCloses
  \/ Refresh \/ handleMessage
  \/ \E r \in PageReads : ServerReads(r) \/ fetchMachine(r)
  \/ handleCommand \/ Cancel \/ executeCommand \/ updateAgent \/ CloseLog
  \/ \E text \in Texts : OtherUserSaves(text) \/ Type(text)
  \/ saveNotes \/ ServerSaves \/ SaveAnswered \/ SaveFails

MachinePageSpec == MachinePageInit /\ [][MachinePageNext]_machinePageVars

\* What the user has typed stays in the page until the server has it, however
\* many heartbeats, late fetches and failed saves come in between; and a page
\* without changes of its own shows the notes it knows, and never writes
\* them back over newer ones: what is saved is always what was typed.
TypedNotesSurvive ==
  /\ dirty => draft = typed
  /\ ~dirty => draft = notes
  /\ saving # "no" => savingText = typed

=============================================================================
