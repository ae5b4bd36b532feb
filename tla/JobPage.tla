------------------------------ MODULE JobPage ------------------------------
(***************************************************************************)
(* The page of the bulk jobs (server/src/app/bulk-management/page.tsx): a  *)
(* dialog in which a job is filled in, from scratch or from an earlier job *)
(* that is fetched for it, and a panel with the details of a job.  Every   *)
(* answer is applied when it arrives, whatever the user did meanwhile.     *)
(*                                                                         *)
(* A form or a selection is known by where it comes from: the job it was   *)
(* filled from, or the user, who has then changed it by hand; the command  *)
(* the page starts with counts as the user's.                              *)
(*                                                                         *)
(* Abstractions: the list of jobs and machines, what a dry run shows, the  *)
(* text of logs and the messages that change one execution are left out;   *)
(* whether a command is critical is a choice.  The server does what it is  *)
(* asked to, or fails, some time before its answer arrives.                *)
(***************************************************************************)
EXTENDS Naturals, FiniteSets

CONSTANTS AdhocJobs,    \* jobs with machines of their own
          GroupJobs,    \* jobs whose targets are a group or a query
          PageFetches,  \* fetches under way at once
          MaxClicks     \* bound: what the user does

ASSUME JobPageAssumption ==
  /\ AdhocJobs \cap GroupJobs = {} /\ MaxClicks \in Nat
  /\ "none" \notin AdhocJobs \cup GroupJobs /\ "user" \notin AdhocJobs \cup GroupJobs

VARIABLES
  form,        \* bulkForm: where its command comes from; "none" if empty
  selection,   \* selected: where its machines come from; "none" if empty
  editing,     \* editingJob
  dialogOpen,  \* bulkDialogOpen
  prefilling,  \* prefillingJob
  submitting,  \* bulkSubmitting: for which request, or "nothing"
  confirming,  \* pendingCriticalJob
  submitted,   \* history: where command and targets of sent jobs came from
  activeJob,      \* activeJob and activeJobIdRef
  executions,  \* activeJobExecutions: of which job
  detailLoads, \* jobLoadingDetail
  loadFailed,  \* history: a fetch of details failed since the last good one
  fetches,       \* per fetch: its job and what it is for
  clicks       \* bound: what the user did so far

formVars == <<form, selection, editing, dialogOpen, prefilling, submitting,
              confirming, submitted>>
detailVars == <<activeJob, executions, detailLoads, loadFailed>>
jobPageVars == <<formVars, detailVars, fetches, clicks>>

PageJobs == AdhocJobs \cup GroupJobs
NotFetching == [job |-> "none", for |-> "nothing", served |-> FALSE]

JobPageInit ==
  /\ form = "user" /\ selection = "none" /\ editing = "none"
  /\ dialogOpen = FALSE /\ prefilling = FALSE
  /\ submitting = "nothing" /\ confirming = FALSE /\ submitted = {}
  /\ activeJob = "none" /\ executions = "none"
  /\ detailLoads = FALSE /\ loadFailed = FALSE
  /\ fetches = [f \in PageFetches |-> NotFetching] /\ clicks = 0

Click == clicks < MaxClicks /\ clicks' = clicks + 1

Ask(j, purpose) ==
  \E f \in PageFetches :
    /\ fetches[f] = NotFetching
    /\ fetches' = [fetches EXCEPT ![f] = [NotFetching EXCEPT !.job = j, !.for = purpose]]

\* Fetch f for a purpose has come to its end.
FetchEnds(f, purpose) ==
  /\ fetches[f].for = purpose
  /\ fetches' = [fetches EXCEPT ![f] = NotFetching]

-----------------------------------------------------------------------------
(* The dialog.                                                             *)

openNewBulkDialog ==
  /\ Click
  /\ dialogOpen' = TRUE /\ editing' = "none" /\ prefilling' = FALSE
  /\ UNCHANGED <<form, selection, submitting, confirming, submitted, fetches>>
  /\ UNCHANGED detailVars

\* Closing keeps the form and the selection.
Closed ==
  /\ dialogOpen' = FALSE /\ editing' = "none" /\ prefilling' = FALSE
  /\ UNCHANGED <<form, selection>>

handleCloseDialog ==
  /\ Click /\ dialogOpen /\ Closed
  /\ UNCHANGED <<submitting, confirming, submitted, fetches>>
  /\ UNCHANGED detailVars

\* The user fills in a command or chooses machines by hand.
EditForm ==
  /\ Click /\ dialogOpen
  /\ \/ form' \in {"none", "user"} /\ UNCHANGED selection
     \/ selection' \in {"none", "user"} /\ UNCHANGED form
  /\ UNCHANGED <<editing, dialogOpen, prefilling, submitting, confirming,
                 submitted, fetches>>
  /\ UNCHANGED detailVars

\* Faulty: the machines chosen before stay chosen.
OpenEditorAsIs(j) ==
  /\ Click /\ Ask(j, "edit")
  /\ dialogOpen' = TRUE /\ prefilling' = TRUE /\ editing' = j /\ form' = j
  /\ UNCHANGED <<selection, submitting, confirming, submitted>>
  /\ UNCHANGED detailVars

\* The form of an earlier job: what the list knows of it at once, the rest
\* and the machines when they are fetched.
handleOpenJobEditor(j) ==
  /\ Click /\ Ask(j, "edit")
  /\ dialogOpen' = TRUE /\ prefilling' = TRUE /\ editing' = j /\ form' = j
  /\ selection' = "none"
  /\ UNCHANGED <<submitting, confirming, submitted>>
  /\ UNCHANGED detailVars

Prefilled(f) ==
  /\ FetchEnds(f, "edit")
  /\ form' = fetches[f].job /\ selection' = fetches[f].job /\ editing' = fetches[f].job
  /\ prefilling' = FALSE
  /\ UNCHANGED <<dialogOpen, submitting, confirming, submitted, clicks>>
  /\ UNCHANGED detailVars

\* Whatever dialog is open by now is closed.
PrefillFails(f) ==
  /\ FetchEnds(f, "edit")
  /\ Closed
  /\ UNCHANGED <<submitting, confirming, submitted, clicks>>
  /\ UNCHANGED detailVars

-----------------------------------------------------------------------------
(* Running a job.                                                          *)

\* buildTargetPayload: machines unless the job edited has a group.
Targets == IF editing \in GroupJobs THEN editing ELSE selection

requiresMachineSelection == editing \notin GroupJobs

MayTry == /\ dialogOpen /\ submitting = "nothing" /\ ~prefilling /\ ~confirming
          /\ requiresMachineSelection => selection # "none"

MayRun == MayTry /\ form # "none"

handleDryRun ==
  /\ Click /\ MayTry /\ submitting' = "dryrun"
  /\ UNCHANGED <<form, selection, editing, dialogOpen, prefilling, confirming,
                 submitted, fetches>>
  /\ UNCHANGED detailVars

Submit ==
  /\ submitting' = "job"
  /\ submitted' = submitted \cup {[command |-> form, targets |-> Targets]}
  /\ UNCHANGED <<form, selection, editing, dialogOpen, prefilling, fetches>>
  /\ UNCHANGED detailVars

\* A critical command is confirmed first, in a dialog over the page.
handleRunJobWithCheck ==
  /\ Click /\ MayRun
  /\ \/ Submit /\ UNCHANGED confirming
     \/ /\ confirming' = TRUE
        /\ UNCHANGED <<form, selection, editing, dialogOpen, prefilling,
                       submitting, submitted, fetches>>
        /\ UNCHANGED detailVars

\* What is sent is what the form holds by then; without machines nothing is.
handleRunJob ==
  /\ Click /\ confirming /\ confirming' = FALSE
  /\ \/ Targets # "none" /\ Submit
     \/ /\ Targets = "none"
        /\ UNCHANGED <<form, selection, editing, dialogOpen, prefilling,
                       submitting, submitted, fetches>>
        /\ UNCHANGED detailVars

DoNotConfirm ==
  /\ Click /\ confirming /\ confirming' = FALSE
  /\ UNCHANGED <<form, selection, editing, dialogOpen, prefilling, submitting,
                 submitted, fetches>>
  /\ UNCHANGED detailVars

\* The server makes the job, or counts its targets; its answer comes later.
CreateJob ==
  /\ submitting = "job" /\ submitting' = "created"
  /\ UNCHANGED <<form, selection, editing, dialogOpen, prefilling, confirming,
                 submitted, fetches, clicks>>
  /\ UNCHANGED detailVars

\* The details of the new job are fetched and the form is cleared but for its
\* command.
JobCreated ==
  /\ submitting = "created" /\ submitting' = "nothing"
  /\ selection' = "none" /\ editing' = "none"
  /\ \E j \in PageJobs : Ask(j, "show") /\ detailLoads' = TRUE
  /\ UNCHANGED <<form, dialogOpen, prefilling, confirming, submitted, clicks>>
  /\ UNCHANGED <<activeJob, executions, loadFailed>>

\* A dry run has ended, or the request or its answer got lost: all stays as
\* it is, also when the job was made.
CreationFails ==
  /\ submitting # "nothing" /\ submitting' = "nothing"
  /\ UNCHANGED <<form, selection, editing, dialogOpen, prefilling, confirming,
                 submitted, fetches, clicks>>
  /\ UNCHANGED detailVars

-----------------------------------------------------------------------------
(* The details.                                                            *)

openJobDetail(j) ==
  /\ Click /\ activeJob' = j
  /\ Ask(j, "show") /\ detailLoads' = TRUE
  /\ UNCHANGED <<executions, loadFailed>> /\ UNCHANGED formVars

\* A message has the details of the job shown fetched again.
onmessage ==
  /\ activeJob # "none"
  /\ Ask(activeJob, "show") /\ detailLoads' = TRUE
  /\ UNCHANGED <<activeJob, executions, loadFailed, clicks>> /\ UNCHANGED formVars

handleAbortJob ==
  /\ Click /\ activeJob # "none" /\ Ask(activeJob, "abort")
  /\ UNCHANGED detailVars /\ UNCHANGED formVars

\* The server has aborted or deleted the job.
ServerDoes(f, purposes) ==
  /\ fetches[f].for \in purposes /\ ~fetches[f].served
  /\ fetches' = [fetches EXCEPT ![f].served = TRUE]
  /\ UNCHANGED clicks /\ UNCHANGED detailVars /\ UNCHANGED formVars

AbortJob(f) == ServerDoes(f, {"abort"})
DeleteJob(f) == ServerDoes(f, {"delete", "deleteShown"})

\* Aborted or not, its details are fetched if they are shown by now.
AbortAnswered(f) ==
  LET j == fetches[f].job IN
  /\ fetches[f].for = "abort"
  /\ IF activeJob = j
       THEN /\ fetches' = [fetches EXCEPT ![f] = [NotFetching EXCEPT !.job = j, !.for = "show"]]
            /\ detailLoads' = TRUE
       ELSE FetchEnds(f, "abort") /\ UNCHANGED detailLoads
  /\ UNCHANGED <<activeJob, executions, loadFailed, clicks>> /\ UNCHANGED formVars

\* Faulty: an answer for another job than the one shown is not the last word.
ExecutionsOnly(f) ==
  /\ FetchEnds(f, "show")
  /\ executions' = fetches[f].job
  /\ activeJob' = IF activeJob = "none" THEN fetches[f].job ELSE activeJob
  /\ detailLoads' = FALSE /\ loadFailed' = FALSE
  /\ UNCHANGED clicks /\ UNCHANGED formVars

DetailLoaded(f) ==
  /\ FetchEnds(f, "show")
  /\ activeJob' = fetches[f].job /\ executions' = fetches[f].job
  /\ detailLoads' = FALSE /\ loadFailed' = FALSE
  /\ UNCHANGED clicks /\ UNCHANGED formVars

DetailFails(f) ==
  /\ FetchEnds(f, "show")
  /\ detailLoads' = FALSE /\ loadFailed' = TRUE
  /\ UNCHANGED <<activeJob, executions, clicks>> /\ UNCHANGED formVars

PanelCleared == activeJob' = "none" /\ executions' = "none"

CloseDetail ==
  /\ Click /\ activeJob # "none" /\ PanelCleared
  /\ UNCHANGED <<detailLoads, loadFailed, fetches>> /\ UNCHANGED formVars

\* The button of the list; the panel is cleared if it shows that job by then.
handleDeleteJob(j) ==
  /\ Click /\ Ask(j, "delete")
  /\ UNCHANGED detailVars /\ UNCHANGED formVars

Deleted(f) ==
  /\ FetchEnds(f, "delete")
  /\ IF fetches[f].served /\ activeJob = fetches[f].job THEN PanelCleared
     ELSE UNCHANGED <<activeJob, executions>>
  /\ UNCHANGED <<detailLoads, loadFailed, clicks>> /\ UNCHANGED formVars

\* The button of the panel; it is cleared whatever it shows by then, deleted
\* or not.
DeleteShown ==
  /\ Click /\ activeJob # "none" /\ Ask(activeJob, "deleteShown")
  /\ UNCHANGED detailVars /\ UNCHANGED formVars

ShownDeleted(f) ==
  /\ FetchEnds(f, "deleteShown") /\ PanelCleared
  /\ UNCHANGED <<detailLoads, loadFailed, clicks>> /\ UNCHANGED formVars

-----------------------------------------------------------------------------
JobPageNext ==
  \/ openNewBulkDialog \/ handleCloseDialog \/ EditForm
  \/ handleDryRun \/ handleRunJobWithCheck \/ handleRunJob \/ DoNotConfirm
  \/ CreateJob \/ JobCreated \/ CreationFails
  \/ onmessage \/ handleAbortJob \/ CloseDetail \/ DeleteShown
  \/ \E j \in PageJobs : handleOpenJobEditor(j) \/ openJobDetail(j) \/ handleDeleteJob(j)
  \/ \E f \in PageFetches :
       \/ Prefilled(f) \/ PrefillFails(f) \/ DetailLoaded(f) \/ DetailFails(f)
       \/ AbortJob(f) \/ AbortAnswered(f)
       \/ DeleteJob(f) \/ Deleted(f) \/ ShownDeleted(f)

JobPageSpec == JobPageInit /\ [][JobPageNext]_jobPageVars

\* However answers overtake each other, get lost or arrive after the dialog
\* was closed and opened again, the command of one job is never sent to the
\* targets of another unless the user put them together, and the executions
\* shown are those of the job shown unless a fetch of details has failed.
OneJobAtATime ==
  /\ \A s \in submitted :
       s.command \in PageJobs /\ s.targets \in PageJobs => s.command = s.targets
  /\ ~detailLoads /\ ~loadFailed => executions = activeJob

=============================================================================
