--------------------------- MODULE SecurityEvents ---------------------------
(***************************************************************************)
(* The security events of one machine: the agent reports them              *)
(* (api/agent/security-events, api/agent/scan), users resolve them         *)
(* (api/vms/[id]/security/resolve), and the number of events that are not  *)
(* resolved is kept in the state cache for the dashboard.  Every request   *)
(* reads the rows, writes what it concluded from them, and then reads the  *)
(* rows again for the cache, with awaits in between.  The dashboard        *)
(* (app/page.tsx) fetches the number once, and then counts for itself the  *)
(* messages of a socket that it opens at the same time.                    *)
(*                                                                         *)
(* Abstractions: one subject (an address, a path) is reported; "sighting"  *)
(* is a report that is matched against all rows and rewrites the row it    *)
(* finds (security-events, and failed_auth in a scan), "finding" one that  *)
(* is matched against the rows that are not resolved (the rest of a scan). *)
(* Severities and messages are left out; of the dashboard, all but this    *)
(* machine's number is (MachineCopies has the list).                       *)
(***************************************************************************)
EXTENDS Naturals, Sequences, FiniteSets

CONSTANTS EventRequests,     \* requests under way at once
          MaxRows,      \* bound: rows
          MaxRequests   \* bound: requests

ASSUME EventsAssumption == MaxRows \in Nat /\ MaxRequests \in Nat

VARIABLES
  rows,      \* the status of each row, oldest first
  cached,    \* openSecurityEvents of the state cache
  request,   \* per request: where it is, what it has read, and whether it
             \* will tell that events were resolved
  started,   \* bound: requests so far
  requestsOverlap,  \* history: two requests were under way at once
  dashboard         \* the page: its list, the number it shows, its socket, the
                    \* messages under way, and whether it went astray (history)

eventsVars == <<rows, cached, request, started, requestsOverlap, dashboard>>

Statuses == {"open", "ack", "resolved"}

NoRequest == [at |-> "idle", row |-> 0, status |-> "none", count |-> 0]
NoDashboard == [list |-> "closed", count |-> 0, socket |-> "none", inbox |-> <<>>, astray |-> FALSE]

EventsInit ==
  /\ rows = <<>> /\ cached = 0
  /\ request = [r \in EventRequests |-> NoRequest]
  /\ started = 0 /\ requestsOverlap = FALSE /\ dashboard = NoDashboard

Unresolved == {i \in DOMAIN rows : rows[i] # "resolved"}

Latest(S) == IF S = {} THEN 0 ELSE CHOOSE i \in S : \A j \in S : j <= i

Begin(r) ==
  /\ request[r].at = "idle" /\ started < MaxRequests
  /\ started' = started + 1
  /\ requestsOverlap' = (requestsOverlap \/ \E q \in EventRequests : request[q].at # "idle")

RequestGoes(r, rec) == request' = [request EXCEPT ![r] = rec]

Broadcast(message) ==
  dashboard' = IF dashboard.socket = "open"
                 THEN [dashboard EXCEPT !.inbox = Append(@, message)] ELSE dashboard

\* History: a request begins while the page is loading, or does what no
\* message tells.
StillLoading == dashboard.list \in {"asked", "answered"} \/ dashboard.socket = "connecting"
Disturbs(untold) ==
  dashboard' = [dashboard EXCEPT !.astray = @ \/ StillLoading \/ untold]

-----------------------------------------------------------------------------
(* Reports of the agent.                                                   *)

\* The rows are read once, before the events are gone through.
Matching(kind) ==
  Latest(IF kind = "sighting" THEN DOMAIN rows ELSE Unresolved)

Report(r, kind) ==
  /\ Begin(r)
  /\ LET i == Matching(kind) IN
       RequestGoes(r, [NoRequest EXCEPT
                  !.at = IF i = 0 THEN "creating"
                         ELSE IF kind = "sighting" THEN "updating"
                         ELSE "touching",
                  !.row = i,
                  !.status = IF i = 0 THEN "open" ELSE rows[i]])
  /\ Disturbs(FALSE)
  /\ UNCHANGED <<rows, cached>>

\* A new event is open, and announced before the rows are read again.
Create(r) ==
  /\ request[r].at = "creating" /\ Len(rows) < MaxRows
  /\ rows' = Append(rows, "open")
  /\ RequestGoes(r, [NoRequest EXCEPT !.at = "created"])
  /\ UNCHANGED <<cached, started, requestsOverlap, dashboard>>

Announce(r) ==
  /\ request[r].at = "created"
  /\ RequestGoes(r, [NoRequest EXCEPT !.at = "written"])
  /\ Broadcast("security_event")
  /\ UNCHANGED <<rows, cached, started, requestsOverlap>>

\* Faulty: an event that is known is announced again.
UpdateAndAnnounce(r) ==
  /\ request[r].at = "updating"
  /\ rows' = [rows EXCEPT ![request[r].row] = request[r].status]
  /\ RequestGoes(r, [NoRequest EXCEPT !.at = "created"])
  /\ UNCHANGED <<cached, started, requestsOverlap, dashboard>>

\* The row found is rewritten, with the status that was read; nobody is told.
Update(r) ==
  /\ request[r].at = "updating"
  /\ rows' = [rows EXCEPT ![request[r].row] = request[r].status]
  /\ RequestGoes(r, [NoRequest EXCEPT !.at = "written"])
  /\ UNCHANGED <<cached, started, requestsOverlap, dashboard>>

\* A repeated finding moves the date only; so does a repeated integrity
\* event within its cooldown.
Touch(r) ==
  /\ request[r].at = "touching"
  /\ RequestGoes(r, [NoRequest EXCEPT !.at = "written"])
  /\ UNCHANGED <<rows, cached, started, requestsOverlap, dashboard>>

-----------------------------------------------------------------------------
(* Requests of users: POST resolves all, PATCH sets a status of some or of *)
(* all that are not resolved.  The dashboard is told in the end if anything *)
(* was resolved.                                                           *)

Resolves(S, status) == IF status = "resolved" /\ S # {} THEN "resolved" ELSE "none"

ResolveAll(r) ==
  /\ Begin(r)
  /\ rows' = [i \in DOMAIN rows |-> "resolved"]
  /\ RequestGoes(r, [NoRequest EXCEPT !.at = "written",
                                      !.status = Resolves(Unresolved, "resolved")])
  /\ Disturbs(FALSE)
  /\ UNCHANGED cached

\* "resolved" is read as: nothing is left, and any other change is not told.
SetStatus(r, S, status) ==
  /\ Begin(r)
  /\ rows' = [i \in DOMAIN rows |-> IF i \in S THEN status ELSE rows[i]]
  /\ RequestGoes(r, [NoRequest EXCEPT !.at = "written", !.status = Resolves(S, status)])
  /\ Disturbs(Cardinality(Unresolved')
                # IF Resolves(S, status) = "resolved" THEN 0 ELSE Cardinality(Unresolved))
  /\ UNCHANGED cached

-----------------------------------------------------------------------------
(* refreshSecurityCacheForMachine.                                         *)

CountOpen(r) ==
  /\ request[r].at = "written"
  /\ RequestGoes(r, [request[r] EXCEPT !.at = "counted",
                               !.count = Cardinality(Unresolved)])
  /\ UNCHANGED <<rows, cached, started, requestsOverlap, dashboard>>

WriteCache(r) ==
  /\ request[r].at = "counted"
  /\ cached' = request[r].count
  /\ RequestGoes(r, NoRequest)
  /\ IF request[r].status = "resolved"
       THEN Broadcast("security_events_resolved") ELSE UNCHANGED dashboard
  /\ UNCHANGED <<rows, started, requestsOverlap>>

-----------------------------------------------------------------------------
(* The dashboard.                                                          *)

PageGoes(rec) ==
  /\ dashboard' = rec
  /\ UNCHANGED <<rows, cached, request, started, requestsOverlap>>

\* It is opened, or loaded again: the list and a token are asked for.
OpenDashboard ==
  /\ dashboard.list \in {"closed", "loaded", "failed"}
  /\ PageGoes([NoDashboard EXCEPT !.list = "asked", !.socket = "connecting",
                 !.astray = \E r \in EventRequests : request[r].at # "idle"])

\* GET /api/machines: from the cache, or from the rows while that is cold.
ListMachines ==
  /\ dashboard.list = "asked"
  /\ \E n \in {cached, Cardinality(Unresolved)} :
       PageGoes([dashboard EXCEPT !.list = "answered", !.count = n])

\* Until the list is there it has no machine, and messages are about none.
ApplyList == /\ dashboard.list = "answered"
             /\ PageGoes([dashboard EXCEPT !.list = "loaded"])

ListFails == /\ dashboard.list \in {"asked", "answered"}
             /\ PageGoes([dashboard EXCEPT !.list = "failed"])

SocketOpens == /\ dashboard.socket = "connecting"
               /\ PageGoes([dashboard EXCEPT !.socket = "open"])

\* Nothing opens it again.
SocketGone == /\ dashboard.socket \in {"connecting", "open"}
              /\ PageGoes([dashboard EXCEPT !.socket = "gone", !.inbox = <<>>])

onmessage ==
  /\ dashboard.inbox # <<>>
  /\ PageGoes([dashboard EXCEPT
       !.inbox = Tail(@),
       !.count = IF dashboard.list # "loaded" THEN @
                 ELSE IF Head(dashboard.inbox) = "security_event" THEN @ + 1 ELSE 0])

-----------------------------------------------------------------------------
EventsNext ==
  \/ OpenDashboard \/ ListMachines \/ ApplyList \/ ListFails
  \/ SocketOpens \/ SocketGone \/ onmessage
  \/ \E r \in EventRequests :
       \/ \E kind \in {"sighting", "finding"} : Report(r, kind)
       \/ Create(r) \/ Announce(r) \/ Update(r) \/ Touch(r) \/ ResolveAll(r)
       \/ \E S \in SUBSET DOMAIN rows, status \in Statuses : SetStatus(r, S, status)
       \/ CountOpen(r) \/ WriteCache(r)

EventsSpec == EventsInit /\ [][EventsNext]_eventsVars

Quiet == \A r \in EventRequests : request[r].at = "idle"

\* Requests that come one after the other keep the table, the cache and the
\* dashboard in step - unless the page was still loading, lost its socket, or
\* was not told of a status set to some of the events - and a subject is
\* reported in a row of its own only when all its earlier rows were resolved.
OneAfterTheOther ==
  ~requestsOverlap =>
    /\ Quiet => cached = Cardinality(Unresolved)
    /\ /\ Quiet /\ dashboard.list = "loaded" /\ dashboard.socket = "open"
       /\ dashboard.inbox = <<>> /\ ~dashboard.astray
       => dashboard.count = Cardinality(Unresolved)
    /\ \A r \in EventRequests : request[r].at = "creating" => Unresolved = {}

=============================================================================
