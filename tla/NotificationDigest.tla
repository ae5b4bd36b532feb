------------------------- MODULE NotificationDigest -------------------------
(***************************************************************************)
(* The e-mail notifications of the server                                  *)
(* (src/server/src/lib/notification-service.ts): an event is mailed at     *)
(* once, or put in a buffer that a timer mails as a digest.  The timer's   *)
(* handle is one global; every look-up of the configuration that ends arms *)
(* one timer more, so that several can be armed and several digests can be *)
(* on their way.                                                           *)
(*                                                                         *)
(* Abstractions: one machine, so that an event is known by its key; items  *)
(* are numbered in the order in which they are told; the mode of a key is  *)
(* any, at any time; the hour of the rate limit and the time of day of the *)
(* digest are left to chance.                                              *)
(***************************************************************************)
EXTENDS Naturals, Sequences, FiniteSets

CONSTANTS Sources,     \* events of the bus that happen
          MaxItems,    \* bound: events told of
          MaxPerHour,  \* MAX_IMMEDIATE_PER_HOUR
          MaxChanges,  \* bound: saves of the configuration
          MaxTimers,   \* bound: timers and look-ups at once
          Digests      \* bound: digests on their way at once

ASSUME DigestAssumption == {MaxItems, MaxPerHour, MaxChanges, MaxTimers} \subseteq Nat

VARIABLES
  enabled,     \* the configuration is enabled and complete
  digestOn,    \* digestEnabled
  changes,     \* bound: saves so far
  items,       \* the keys of the events told of so far
  buffer,      \* __notifDigestBuffer
  handle,      \* __notifDigestTimer: none, armed, or fired or cleared
  strays,      \* timers armed that the handle does not name
  lookups,     \* scheduleNextDigest awaiting the configuration
  digest,      \* per digest: idle, woken or sending, and the items it sends
  sentNow,     \* rateLimitCounters: per key, mails of this hour
  mailed,      \* items some mail was sent for
  overlapped   \* history: two digests were sending at once

digestVars == <<enabled, digestOn, changes, items, buffer, handle, strays,
                lookups, digest, sentNow, mailed, overlapped>>

NoDigest == [at |-> "idle", list |-> {}]

DigestInit ==
  /\ enabled = TRUE /\ digestOn = TRUE /\ changes = 0
  /\ items = <<>> /\ buffer = <<>> /\ sentNow = [k \in {} |-> 0]
  /\ handle = "none" /\ strays = 0 /\ lookups = 1
  /\ digest = [d \in Digests |-> NoDigest]
  /\ mailed = {} /\ overlapped = FALSE

-----------------------------------------------------------------------------
(* scheduleNextDigest: the timer the handle names is cleared at once, the  *)
(* next one is armed when the configuration has been read.                 *)

Schedule(n) ==
  /\ lookups' = lookups + n
  /\ handle' = IF handle = "armed" THEN "over" ELSE handle

Room(n) == lookups + strays + n < MaxTimers

LookupEnds ==
  /\ lookups > 0
  /\ lookups' = lookups - 1
  /\ handle' = IF digestOn THEN "armed" ELSE "none"
  /\ strays' = IF handle = "armed" THEN strays + 1 ELSE strays
  /\ UNCHANGED <<enabled, digestOn, changes, items, buffer, digest, sentNow,
                 mailed, overlapped>>

\* The administrator saves the configuration, which schedules anew.
SaveConfig(on, dig) ==
  /\ changes < MaxChanges /\ Room(1)
  /\ changes' = changes + 1
  /\ enabled' = on /\ digestOn' = dig
  /\ Schedule(1)
  /\ UNCHANGED <<items, buffer, strays, digest, sentNow, mailed, overlapped>>

-----------------------------------------------------------------------------
(* The handlers of the events, and the keys each of them tells of.  Several *)
(* handlers are under way at once, and the mode of a key may be off, so     *)
(* that what is told is any sequence of their keys.  A scan never reports   *)
(* the counts of CVEs it could tell of.                                     *)

onSecurityEvent == {"securityEvent", "integrityViolation"}
onScanCompleted == {"scanCompleted", "machineUpdatesAvailable"}
onUpdateAvailable == {"serverUpdateAvailable"}
onAuditLog == {"userCreated", "userRoleChanged", "loginBlocked", "machineDeleted",
               "bulkJobCompleted"}
onAgentRegistered == {"agentRegistered"}
onMachineOffline == {"agentOffline"}
onSecurityEventsResolved == {"eventsResolved"}

buildHandlers ==
  [security_event |-> onSecurityEvent, scan_completed |-> onScanCompleted,
   update_available |-> onUpdateAvailable, audit_log |-> onAuditLog,
   security_events_resolved |-> onSecurityEventsResolved,
   agent_registered |-> onAgentRegistered, machine_offline |-> onMachineOffline]

Told == UNION {buildHandlers[source] : source \in Sources}

-----------------------------------------------------------------------------
(* maybeNotify: nothing comes of an event while nothing is configured.     *)

Count(key) == IF key \in DOMAIN sentNow THEN sentNow[key] ELSE 0

\* An event whose mode is immediate is mailed, up to MaxPerHour of its key in
\* an hour; if its mail fails it is gone and, here, not counted as an item.
MailNow(key) ==
  /\ enabled /\ Len(items) < MaxItems /\ Count(key) < MaxPerHour
  /\ sentNow' = [k \in DOMAIN sentNow \cup {key} |->
                   IF k = key THEN Count(k) + 1 ELSE sentNow[k]]
  /\ \/ items' = Append(items, key) /\ mailed' = mailed \cup {Len(items')}
     \/ UNCHANGED <<items, mailed>>
  /\ UNCHANGED <<enabled, digestOn, changes, buffer, handle, strays, lookups,
                 digest, overlapped>>

\* An event in mode digest, or above the limit, is queued.
Queue(key) ==
  /\ enabled /\ Len(items) < MaxItems
  /\ items' = Append(items, key)
  /\ buffer' = Append(buffer, Len(items'))
  /\ UNCHANGED <<enabled, digestOn, changes, handle, strays, lookups, digest,
                 sentNow, mailed, overlapped>>

NextHour(key) ==
  /\ key \in DOMAIN sentNow
  /\ sentNow' = [k \in DOMAIN sentNow \ {key} |-> sentNow[k]]
  /\ UNCHANGED <<enabled, digestOn, changes, items, buffer, handle, strays,
                 lookups, digest, mailed, overlapped>>

-----------------------------------------------------------------------------
(* sendDigest.                                                             *)

latestPerMachine == {"machineUpdatesAvailable", "scanCompleted", "agentOffline",
                     "serverUpdateAvailable", "highCve", "criticalCve"}

Replaces(j, i) == items[j] = items[i] /\ items[i] \in latestPerMachine /\ i < j

Elements(list) == {list[i] : i \in DOMAIN list}

Deduplicated(list) ==
  {i \in Elements(list) : \A j \in Elements(list) : ~Replaces(j, i)}

\* A timer fires: the one the handle names, or a stray.
Fire(d) ==
  /\ digest[d].at = "idle" /\ Room(1)
  /\ \/ handle = "armed" /\ handle' = "over" /\ strays' = strays
     \/ strays > 0 /\ strays' = strays - 1 /\ handle' = handle
  /\ digest' = [digest EXCEPT ![d].at = "woken"]
  /\ UNCHANGED <<enabled, digestOn, changes, items, buffer, lookups, sentNow,
                 mailed, overlapped>>

\* An empty buffer: schedule the next one.
NothingToSend(d) ==
  /\ digest[d].at = "woken" /\ buffer = <<>>
  /\ digest' = [digest EXCEPT ![d] = NoDigest]
  /\ Schedule(1)
  /\ UNCHANGED <<enabled, digestOn, changes, items, buffer, strays, sentNow,
                 mailed, overlapped>>

\* A digest that may not be sent is scheduled before its return, and once
\* more by the finally it returns through.
Skip(d) ==
  /\ digest[d].at = "woken" /\ buffer # <<>> /\ ~(enabled /\ digestOn)
  /\ digest' = [digest EXCEPT ![d] = NoDigest]
  /\ Schedule(2)
  /\ UNCHANGED <<enabled, digestOn, changes, items, buffer, strays, sentNow,
                 mailed, overlapped>>

\* The buffer as it is now goes to the mail server.
Send(d) ==
  /\ digest[d].at = "woken" /\ buffer # <<>> /\ enabled /\ digestOn
  /\ digest' = [digest EXCEPT ![d] = [at |-> "sending",
                                      list |-> Deduplicated(buffer)]]
  /\ overlapped' = (overlapped \/ \E e \in Digests : digest[e].at = "sending")
  /\ UNCHANGED <<enabled, digestOn, changes, items, buffer, handle, strays,
                 lookups, sentNow, mailed>>

\* What buffer.splice(0, items.length) leaves; faulty: buffer.length = 0.
Emptied(list, n) == <<>>
Splice(list, n) == SubSeq(list, n + 1, Len(list))

Delivered(d) ==
  /\ digest[d].at = "sending"
  /\ mailed' = mailed \cup digest[d].list
  /\ buffer' = Splice(buffer, Cardinality(digest[d].list))
  /\ digest' = [digest EXCEPT ![d] = NoDigest]
  /\ Schedule(1)
  /\ UNCHANGED <<enabled, digestOn, changes, items, strays, sentNow, overlapped>>

MailFails(d) ==
  /\ digest[d].at = "sending"
  /\ digest' = [digest EXCEPT ![d] = NoDigest]
  /\ Schedule(1)
  /\ UNCHANGED <<enabled, digestOn, changes, items, buffer, strays, sentNow,
                 mailed, overlapped>>

-----------------------------------------------------------------------------
DigestNext ==
  \/ LookupEnds
  \/ \E key \in Told : MailNow(key) \/ Queue(key)
  \/ \E key \in DOMAIN sentNow : NextHour(key)
  \/ \E on, dig \in BOOLEAN : SaveConfig(on, dig)
  \/ \E d \in Digests : \/ Fire(d) \/ NothingToSend(d) \/ Skip(d)
                        \/ Send(d) \/ Delivered(d) \/ MailFails(d)

DigestSpec == DigestInit /\ [][DigestNext]_digestVars

\* Item i is in the buffer, was mailed, or was replaced by a later one that
\* is or was.
Accounted(i) ==
  \/ i \in mailed \cup Elements(buffer)
  \/ \E j \in mailed \cup Elements(buffer) : Replaces(j, i)

\* As long as no two digests were on their way at once, no queued event is
\* lost: a digest that fails, is skipped or leaves duplicates behind takes
\* nothing out of the buffer that was not mailed.
EventsPreserved == overlapped \/ \A i \in DOMAIN items : Accounted(i)

=============================================================================
