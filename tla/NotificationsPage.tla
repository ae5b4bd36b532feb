-------------------------- MODULE NotificationsPage --------------------------
(***************************************************************************)
(* The page on which an administrator sets up the mails (server/src:       *)
(* app/settings/notifications/page.tsx, api/notification-config,           *)
(* api/notification-test): one form, of which a button saves everything,   *)
(* and a change of the schedule saves everything too, 800 ms later and     *)
(* with what the form held when the schedule changed.                      *)
(*                                                                         *)
(* One administrator.  The fields of the mail server, of the events and of *)
(* the schedule are two numbers that grow with every edit; what the digest *)
(* does with them is in NotificationDigest.                                *)
(***************************************************************************)
EXTENDS Naturals

CONSTANTS Posts,        \* requests of the page under way at once
          MaxEdits      \* bound: edits of the form, and buttons pressed

ASSUME NotificationsPageAssumption == MaxEdits \in Nat /\ Posts \subseteq Nat

\* Passwords of the mail server: none, a masked one, and those typed.
NoSecretYet == 0
Masked == 1

VARIABLES
  configRow,     \* the row: mail, whether it is complete, schedule, password
  form,          \* the fields of the page
  pageState,     \* "loading"; "fresh": isFirstLoad; "ready"
  autoSaveTimer, \* the form that scheduleAutoSaveTimer will send, or NoForm
  submissions,   \* per request: what for, where it is, and its form
  saveError,     \* saveError
  edits,         \* bound: edits of the form, and buttons pressed
  lastSent, lastServed,  \* history: numbers of the last form that was sent, and served
  kept,          \* history: the newest fields and password reported as saved
  trouble        \* history: what the page lost, and why

NoForm == [mail |-> 0, complete |-> TRUE, schedule |-> 0, password |-> NoSecretYet, number |-> 0]
NoPost == [for |-> "nothing", at |-> "idle", config |-> NoForm]

notificationsPageVars == <<configRow, form, pageState, autoSaveTimer, submissions, saveError, edits,
                           lastSent, lastServed, kept, trouble>>

\* The form is empty until the row is there.
NotificationsPageInit ==
  /\ configRow \in {[NoForm EXCEPT !.mail = 1, !.schedule = 1, !.password = p] :
                 p \in {NoSecretYet, 2}}
  /\ form = NoForm /\ pageState = "loading"
  /\ autoSaveTimer = NoForm /\ submissions = [p \in Posts |-> NoPost]
  /\ saveError = FALSE /\ edits = 0 /\ lastSent = 0 /\ lastServed = 0
  /\ kept = [mail |-> 1, password |-> configRow.password]
  /\ trouble = {}

NotUnderWay(for) == \A p \in Posts : submissions[p].for # for
Loaded == pageState # "loading"
Edits == Loaded /\ edits < MaxEdits /\ edits' = edits + 1

-----------------------------------------------------------------------------
(* The row is loaded once; an answer that fails leaves the empty form.     *)

loadConfig ==
  /\ pageState = "loading" /\ pageState' = "fresh"
  /\ \/ /\ form' = [configRow EXCEPT !.password = IF @ = NoSecretYet THEN @ ELSE Masked]
        /\ UNCHANGED <<saveError, trouble>>
     \/ /\ saveError' = TRUE /\ trouble' = trouble \cup {"unloaded"}
        /\ UNCHANGED form
  /\ UNCHANGED <<configRow, autoSaveTimer, submissions, edits, lastSent, lastServed, kept>>

\* A tenth of a second later changes of the schedule are saved.
FirstLoadOver ==
  /\ pageState = "fresh" /\ pageState' = "ready"
  /\ UNCHANGED <<configRow, form, autoSaveTimer, submissions, saveError, edits, lastSent, lastServed, kept, trouble>>

-----------------------------------------------------------------------------
(* The form.                                                               *)

EditMail ==
  /\ Edits
  /\ \E complete \in BOOLEAN, password \in {form.password, NoSecretYet, edits + 3} :
       form' = [form EXCEPT !.mail = edits + 2, !.complete = complete, !.password = password]
  /\ UNCHANGED <<configRow, pageState, autoSaveTimer, submissions, saveError, lastSent, lastServed, kept, trouble>>

\* What to mail when is saved with the fields, by the same button.
EditEvents ==
  /\ Edits /\ form' = [form EXCEPT !.mail = edits + 2]
  /\ UNCHANGED <<configRow, pageState, autoSaveTimer, submissions, saveError, lastSent, lastServed, kept, trouble>>

ScheduleCard == Edits /\ form' = [form EXCEPT !.schedule = edits + 2]

\* The effect arms the timer anew, with the form of this moment.
EditSchedule ==
  /\ ScheduleCard
  /\ IF pageState = "fresh" THEN trouble' = trouble \cup {"early"} /\ UNCHANGED autoSaveTimer
     ELSE autoSaveTimer' = form' /\ UNCHANGED trouble
  /\ UNCHANGED <<configRow, pageState, submissions, saveError, lastSent, lastServed, kept>>

Submits(p, for, config) ==
  /\ submissions[p] = NoPost /\ (\A q \in Posts : q < p => submissions[q] # NoPost)
  /\ lastSent' = lastSent + 1
  /\ submissions' = [submissions EXCEPT ![p] =
       [for |-> for, at |-> "asked", config |-> [config EXCEPT !.number = lastSent + 1]]]

\* The buttons.
SaveButton == Edits /\ NotUnderWay("save")
TestButton == Edits /\ NotUnderWay("test") /\ form.mail > 0

handleSave(p) ==
  /\ SaveButton
  /\ Submits(p, "save", form) /\ saveError' = FALSE
  /\ UNCHANGED <<configRow, form, pageState, autoSaveTimer, lastServed, kept, trouble>>

\* What the timer holds is older than the form if the mail was edited since.
saveSchedule(p) ==
  /\ autoSaveTimer # NoForm /\ Submits(p, "schedule", autoSaveTimer)
  /\ autoSaveTimer' = NoForm
  /\ trouble' = IF autoSaveTimer.mail < form.mail THEN trouble \cup {"stale"} ELSE trouble
  /\ UNCHANGED <<configRow, form, pageState, saveError, edits, lastServed, kept>>

handleTest(p) ==
  /\ TestButton
  /\ Submits(p, "test", form)
  /\ UNCHANGED <<configRow, form, pageState, autoSaveTimer, saveError, lastServed, kept, trouble>>

-----------------------------------------------------------------------------
(* The server.                                                             *)

\* Faulty: an empty field deletes the password.
FinalPasswordTyped(typed, old) == IF typed = Masked THEN old ELSE typed

\* The password that is stored: an empty field comes as null and keeps it.
FinalPassword(typed, old) == IF typed \in {NoSecretYet, Masked} THEN old ELSE typed

\* The password a test uses: without one in the request, the one stored.
TestPassword(typed, old) == IF typed > Masked THEN typed ELSE old

\* Nothing is stored if the fields are enabled but not complete.
SaveServed(p) ==
  LET new == submissions[p].config
  IN  /\ submissions[p].at = "asked" /\ submissions[p].for \in {"save", "schedule"}
      /\ submissions' = [submissions EXCEPT ![p].at = IF new.complete THEN "served" ELSE "refused"]
      /\ IF new.complete
           THEN /\ configRow' = [new EXCEPT !.password = FinalPassword(@, configRow.password),
                                         !.number = 0]
                /\ trouble' = IF new.number < lastServed THEN trouble \cup {"overtaken"} ELSE trouble
                /\ lastServed' = IF new.number < lastServed THEN lastServed ELSE new.number
           ELSE trouble' = trouble \cup {"refused"} /\ UNCHANGED <<configRow, lastServed>>
      /\ UNCHANGED <<form, pageState, autoSaveTimer, saveError, edits, lastSent, kept>>

\* A mail goes out with the fields of the form.
TestServed(p) ==
  /\ submissions[p].at = "asked" /\ submissions[p].for = "test"
  /\ submissions' = [submissions EXCEPT ![p].at = "served",
                            ![p].config.password = TestPassword(@, configRow.password)]
  /\ UNCHANGED <<configRow, form, pageState, autoSaveTimer, saveError, edits, lastSent, lastServed, kept,
                 trouble>>

-----------------------------------------------------------------------------
(* The answers.                                                            *)

Later(a, b) == IF a < b THEN b ELSE a
PostOver(p) == submissions' = [submissions EXCEPT ![p] = NoPost]

SaveReported(p) ==
  /\ submissions[p].for = "save" /\ submissions[p].at \in {"served", "refused"} /\ PostOver(p)
  /\ IF submissions[p].at = "served"
       THEN /\ kept' = [mail |-> Later(kept.mail, submissions[p].config.mail),
                        password |-> Later(kept.password, submissions[p].config.password)]
            /\ UNCHANGED saveError
       ELSE saveError' = TRUE /\ UNCHANGED kept
  /\ UNCHANGED <<configRow, form, pageState, autoSaveTimer, edits, lastSent, lastServed, trouble>>

\* Reported as saved, also if it was refused.
ScheduleReported(p) ==
  /\ submissions[p].for = "schedule" /\ submissions[p].at \in {"served", "refused"} /\ PostOver(p)
  /\ UNCHANGED <<configRow, form, pageState, autoSaveTimer, saveError, edits, lastSent, lastServed, kept,
                 trouble>>

TestReported(p) ==
  /\ submissions[p].for = "test" /\ submissions[p].at = "served" /\ PostOver(p)
  /\ UNCHANGED <<configRow, form, pageState, autoSaveTimer, saveError, edits, lastSent, lastServed, kept,
                 trouble>>

\* The request or its answer is lost: silently, unless the button was pressed.
SaveFails(p) ==
  /\ submissions[p].for # "nothing" /\ PostOver(p)
  /\ saveError' = (saveError \/ submissions[p].for = "save")
  /\ trouble' = IF submissions[p].for # "test" THEN trouble \cup {"failed"} ELSE trouble
  /\ UNCHANGED <<configRow, form, pageState, autoSaveTimer, edits, lastSent, lastServed, kept>>

-----------------------------------------------------------------------------
NotificationsPageNext ==
  \/ loadConfig \/ FirstLoadOver \/ EditMail \/ EditEvents \/ EditSchedule
  \/ \E p \in Posts : \/ handleSave(p) \/ saveSchedule(p) \/ handleTest(p)
                      \/ SaveServed(p) \/ TestServed(p)
                      \/ SaveReported(p) \/ ScheduleReported(p) \/ TestReported(p)
                      \/ SaveFails(p)

NotificationsPageSpec == NotificationsPageInit /\ [][NotificationsPageNext]_notificationsPageVars

\* Once the page is quiet the schedule it shows is the one stored, unless the
\* row was not loaded, a request was refused, failed or overtook another one,
\* or the change came before the page was ready; and neither the fields nor
\* the password that a save reported as saved are replaced by older ones or
\* deleted, unless the timer still held those.
SavedIsShown ==
  LET quiet == autoSaveTimer = NoForm /\ \A p \in Posts : submissions[p].for = "nothing"
  IN  /\ pageState = "ready" /\ quiet /\ trouble \subseteq {"stale"} =>
           configRow.schedule = form.schedule
      /\ trouble \cap {"stale", "overtaken", "unloaded"} = {} =>
           configRow.mail >= kept.mail /\ configRow.password >= kept.password

=============================================================================
