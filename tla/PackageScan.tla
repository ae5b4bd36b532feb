---------------------------- MODULE PackageScan ----------------------------
(***************************************************************************)
(* The packages of one machine and their vulnerabilities: what the server  *)
(* does with a scan (api/agent/scan, services/vulnerability-scanner).  A   *)
(* scan upserts its packages in transactions of fifty, removes the rows    *)
(* that were last seen before it began, and matches what is left against   *)
(* the known CVEs: new matches are created in chunks of 250, and then      *)
(* those that hold no longer are deleted in chunks of 500.  The half-      *)
(* hourly scan of an agent and one a user triggered run at the same time,  *)
(* and so does the mirror of the CVEs.                                     *)
(*                                                                         *)
(* Abstractions: a transaction writes one package; a chunk of matches is   *)
(* any part of them; time is the number of the scan; a package has at most *)
(* one CVE, and its row and its match keep their identity when they are    *)
(* deleted and made again (which only a scan that overlaps can see).       *)
(***************************************************************************)
EXTENDS Naturals, FiniteSets

CONSTANTS Packages,   \* packages a machine may have
          ScanRequests,   \* scans handled at once
          MaxScans    \* bound: scans

ASSUME ScanAssumption == MaxScans \in Nat

VARIABLES
  lastSeen,   \* per row of the table the scan it was last seen by; 0: no row
  affected,   \* packages that a CVE of the mirror is for, at the version of their row
  matches,    \* packages with a row in the table of vulnerabilities
  scan,       \* per request: where it is, its time, the packages it lists, what is
              \* left to write, the matches it read (from Match on: those to
              \* delete), and (history) the affected packages as it read them
  scans,      \* scans so far: the clock
  scansOverlap  \* history: two scans were handled at once

scanVars == <<lastSeen, affected, matches, scan, scans, scansOverlap>>

NoScan == [at |-> "idle", time |-> 0, listed |-> {}, left |-> {}, had |-> {}, known |-> {}]

ScanInit ==
  /\ affected \in SUBSET Packages
  /\ lastSeen = [p \in Packages |-> 0] /\ matches = {}
  /\ scan = [r \in ScanRequests |-> NoScan]
  /\ scans = 0 /\ scansOverlap = FALSE

Table == {p \in Packages : lastSeen[p] > 0}

ScanGoes(r, rec) == scan' = [scan EXCEPT ![r] = rec]

-----------------------------------------------------------------------------
\* A batch of the mirror writes CVEs, new ones and others that are changed.
MirrorChanges(S) ==
  /\ affected' = S
  /\ UNCHANGED <<lastSeen, matches, scan, scans, scansOverlap>>

\* A request arrives with the packages that are installed on the machine by
\* then: its time is taken before its first upsert.
Arrive(r, installed) ==
  /\ scan[r].at = "idle" /\ scans < MaxScans
  /\ scans' = scans + 1
  /\ ScanGoes(r, [at |-> "upserting", time |-> scans', listed |-> installed,
                     left |-> installed, had |-> {}, known |-> {}])
  /\ scansOverlap' = (scansOverlap \/ \E q \in ScanRequests : scan[q].at # "idle")
  /\ UNCHANGED <<lastSeen, affected, matches>>

\* An existing row gets the time of the scan; a new one the time of now,
\* which is that of the latest scan.  The version that is written may be one
\* that a CVE is for, or not any more.
Upsert(r, p) ==
  /\ scan[r].at = "upserting" /\ p \in scan[r].left
  /\ lastSeen' = [lastSeen EXCEPT ![p] = IF @ = 0 THEN scans ELSE scan[r].time]
  /\ affected' \in {affected \cup {p}, affected \ {p}}
  /\ ScanGoes(r, [scan[r] EXCEPT !.left = @ \ {p}])
  /\ UNCHANGED <<matches, scans, scansOverlap>>

\* Rows not seen since the scan began are deleted, their matches with them;
\* a scan without packages deletes nothing.  Faulty: lte for lt.
CleanedToo(r) ==
  [p \in Packages |->
     IF scan[r].listed # {} /\ lastSeen[p] <= scan[r].time THEN 0 ELSE lastSeen[p]]

Cleaned(r) ==
  [p \in Packages |->
     IF scan[r].listed # {} /\ lastSeen[p] < scan[r].time THEN 0 ELSE lastSeen[p]]

RemoveStale(r) ==
  /\ scan[r].at = "upserting" /\ scan[r].left = {}
  /\ lastSeen' = Cleaned(r)
  /\ matches' = {p \in matches : lastSeen'[p] > 0}
  /\ ScanGoes(r, [scan[r] EXCEPT !.at = "removed"])
  /\ UNCHANGED <<affected, scans, scansOverlap>>

\* The packages of the machine are read, and then their matches.
ReadTable(r) ==
  /\ scan[r].at = "removed"
  /\ ScanGoes(r, [scan[r] EXCEPT !.at = "reading", !.left = Table])
  /\ UNCHANGED <<lastSeen, affected, matches, scans, scansOverlap>>

ReadMatches(r) ==
  /\ scan[r].at = "reading"
  /\ ScanGoes(r, [scan[r] EXCEPT !.at = "comparing", !.had = matches \cap scan[r].left])
  /\ UNCHANGED <<lastSeen, affected, matches, scans, scansOverlap>>

\* Faulty: a package whose match was read is taken to be affected still.
OutdatedNever(r) == scan[r].had \ (affected \cup scan[r].left)

\* Matches that hold no longer.
Outdated(r) == scan[r].had \ affected

\* The CVEs are read: what will be created and deleted follows from them.
Match(r) ==
  /\ scan[r].at = "comparing"
  /\ ScanGoes(r, [scan[r] EXCEPT !.at = "matching", !.known = affected,
                     !.left = (scan[r].left \cap affected) \ scan[r].had,
                     !.had = Outdated(r)])
  /\ UNCHANGED <<lastSeen, affected, matches, scans, scansOverlap>>

\* A chunk of the new matches is created, all of it or nothing: a match that
\* exists by now or whose package is gone fails the request.
CreateMatches(r, chunk) ==
  /\ scan[r].at = "matching" /\ chunk # {} /\ chunk \subseteq scan[r].left
  /\ IF chunk \cap matches = {} /\ chunk \subseteq Table
       THEN /\ matches' = matches \cup chunk
            /\ ScanGoes(r, [scan[r] EXCEPT !.left = @ \ chunk])
       ELSE matches' = matches /\ ScanGoes(r, NoScan)
  /\ UNCHANGED <<lastSeen, affected, scans, scansOverlap>>

\* Those that hold no longer are deleted when all are created.
DeleteMatches(r, chunk) ==
  /\ scan[r].at = "matching" /\ scan[r].left = {}
  /\ chunk # {} /\ chunk \subseteq scan[r].had
  /\ matches' = matches \ chunk
  /\ ScanGoes(r, [scan[r] EXCEPT !.had = @ \ chunk])
  /\ UNCHANGED <<lastSeen, affected, scans, scansOverlap>>

\* scanPackages returns; the events of the scan follow (SecurityEvents).
Matched(r) ==
  /\ scan[r].at = "matching" /\ scan[r].left = {} /\ scan[r].had = {}
  /\ ScanGoes(r, [scan[r] EXCEPT !.at = "matched"])
  /\ UNCHANGED <<lastSeen, affected, matches, scans, scansOverlap>>

Answer(r) ==
  /\ scan[r].at = "matched"
  /\ ScanGoes(r, NoScan)
  /\ UNCHANGED <<lastSeen, affected, matches, scans, scansOverlap>>

\* An error of the database ends the request where it is.
Fail(r) ==
  /\ scan[r].at # "idle"
  /\ ScanGoes(r, NoScan)
  /\ UNCHANGED <<lastSeen, affected, matches, scans, scansOverlap>>

-----------------------------------------------------------------------------
ScanNext ==
  \/ \E S \in SUBSET Packages : MirrorChanges(S)
  \/ \E r \in ScanRequests :
        \/ RemoveStale(r) \/ ReadTable(r) \/ ReadMatches(r) \/ Match(r)
        \/ Matched(r) \/ Answer(r) \/ Fail(r)
        \/ \E p \in Packages : Upsert(r, p)
        \/ \E installed \in SUBSET Packages : Arrive(r, installed)
        \/ \E chunk \in SUBSET Packages : CreateMatches(r, chunk) \/ DeleteMatches(r, chunk)

ScanSpec == ScanInit /\ [][ScanNext]_scanVars

\* Whatever earlier scans left half-way, a scan that had the table for itself
\* leaves the packages it listed and no others once the older ones are removed,
\* if it listed any; and when its matching is done, in however many chunks, the
\* matches are those of the packages that were affected when it read the CVEs:
\* none is missing, and none is left of a CVE or a version that is no more.
TableIsTheScan ==
  ~scansOverlap =>
    \A r \in ScanRequests :
      /\ scan[r].at \notin {"idle", "upserting"} /\ scan[r].listed # {} => Table = scan[r].listed
      /\ scan[r].at = "matched" => matches = Table \cap scan[r].known

=============================================================================
