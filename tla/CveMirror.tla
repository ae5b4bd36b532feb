----------------------------- MODULE CveMirror -----------------------------
(***************************************************************************)
(* The mirror of the OSV database (src/server/src/services/cve-mirror.ts). *)
(* The module is loaded twice, by the server (server.ts, which starts the  *)
(* daily timer) and by the bundle of the API routes (a scan that finds no  *)
(* CVE at all, or an administrator, triggers a run), and its flag          *)
(* isRunning is a variable of the module: each copy guards only itself.    *)
(* The row of the database that shows the state is written by both, and    *)
(* outlives a restart.                                                     *)
(*                                                                         *)
(* Abstractions: the packages are as many batches of 100 references, each  *)
(* with a CVE; the objects of an ecosystem are as many pages; the table of *)
(* CVEs is empty or not; an ecosystem is skipped, which only the text of   *)
(* the row tells.                                                          *)
(***************************************************************************)
EXTENDS Naturals

CONSTANTS MaxRestarts,   \* bound: restarts of the server
          MaxBatches,    \* bound: batches of packages
          Ecosystems,    \* ecosystems of the full mode
          Pages          \* pages of objects per ecosystem

ASSUME MirrorAssumption ==
  MaxRestarts \in Nat /\ {MaxBatches, Ecosystems, Pages} \subseteq Nat \ {0}

VARIABLES
  mode,       \* CVE_MIRROR_MODE: scoped or full
  run,        \* per copy of the module: where mirrorOnce is, the batches or
              \* ecosystems it has left, and the pages of this ecosystem
  status,     \* the status in the row of the database
  packages,   \* batches of packages the machines have reported
  cves,       \* the table of CVEs is not empty
  restarts    \* bound: restarts so far

mirrorVars == <<mode, run, status, packages, cves, restarts>>

Copies == {"server", "routes"}

NotRunning == [at |-> "idle", left |-> 0, page |-> 0]

MirrorInit ==
  /\ mode \in {"scoped", "full"}
  /\ run = [c \in Copies |-> NotRunning]
  /\ status = "none" /\ packages = 0 /\ cves = FALSE /\ restarts = 0

RunGoes(c, to) == run' = [run EXCEPT ![c] = to]

At(c, there) == run[c].at = there

\* The guard: isRunning is set before the first await.
Enter(c) == At(c, "idle") /\ RunGoes(c, [NotRunning EXCEPT !.at = "entered"])

\* The daily timer, and the one five seconds after the start.
Scheduled ==
  /\ Enter("server")
  /\ UNCHANGED <<mode, status, packages, cves, restarts>>

\* An administrator asks for a run.
Triggered ==
  /\ Enter("routes")
  /\ UNCHANGED <<mode, status, packages, cves, restarts>>

\* A scan that stored packages and finds the table empty triggers a run,
\* unless its copy is running already.
ScanArrives ==
  /\ packages' \in packages..MaxBatches /\ packages' > 0
  /\ IF ~cves /\ At("routes", "idle") THEN Enter("routes") ELSE UNCHANGED run
  /\ UNCHANGED <<mode, status, cves, restarts>>

MarkSyncing(c) ==
  /\ At(c, "entered")
  /\ status' = "syncing"
  /\ RunGoes(c, [run[c] EXCEPT !.at = "reading"])
  /\ UNCHANGED <<mode, packages, cves, restarts>>

-----------------------------------------------------------------------------
(* The scoped mode: one question for each batch of packages.               *)

\* fetchPackageRefs.
ReadPackages(c) ==
  /\ At(c, "reading") /\ mode = "scoped" /\ packages > 0
  /\ RunGoes(c, [NotRunning EXCEPT !.at = "fetching", !.left = packages])
  /\ UNCHANGED <<mode, status, packages, cves, restarts>>

NoPackages(c) ==
  /\ At(c, "reading") /\ mode = "scoped" /\ packages = 0
  /\ status' = "idle"
  /\ RunGoes(c, NotRunning)
  /\ UNCHANGED <<mode, packages, cves, restarts>>

\* The answer of a batch: its CVEs are stored one by one.
Fetched(c) ==
  /\ At(c, "fetching") /\ run[c].left > 0
  /\ cves' = TRUE
  /\ RunGoes(c, [run[c] EXCEPT !.left = @ - 1])
  /\ UNCHANGED <<mode, status, packages, restarts>>

\* The catch: the error is written, the finally resets the flag, whatever
\* batches are left; faulty: it does not.
FetchFailsForGood(c) ==
  /\ At(c, "fetching")
  /\ status' = "error"
  /\ RunGoes(c, [NotRunning EXCEPT !.at = "failed"])
  /\ UNCHANGED <<mode, packages, cves, restarts>>

FetchFails(c) ==
  /\ At(c, "fetching")
  /\ status' = "error"
  /\ RunGoes(c, NotRunning)
  /\ UNCHANGED <<mode, packages, cves, restarts>>

-----------------------------------------------------------------------------
(* The full mode: every record of every page of every ecosystem.           *)

ReadEcosystems(c) ==
  /\ At(c, "reading") /\ mode = "full"
  /\ RunGoes(c, [at |-> "listing", left |-> Ecosystems, page |-> Pages])
  /\ UNCHANGED <<mode, status, packages, cves, restarts>>

listOsvObjects(c) ==
  /\ At(c, "listing") /\ run[c].left > 0
  /\ RunGoes(c, [run[c] EXCEPT !.at = "records"])
  /\ UNCHANGED <<mode, status, packages, cves, restarts>>

NextEcosystem(c) == [at |-> "listing", left |-> run[c].left - 1, page |-> Pages]

NextPage(c) ==
  IF run[c].page > 1 THEN [run[c] EXCEPT !.at = "listing", !.page = @ - 1]
                     ELSE NextEcosystem(c)

\* A record that cannot be fetched is left out of the upsert.
RecordsStored(c, some) ==
  /\ At(c, "records")
  /\ cves' = (cves \/ some)
  /\ RunGoes(c, NextPage(c))
  /\ UNCHANGED <<mode, status, packages, restarts>>

\* A page that cannot be listed, or a slice that cannot be stored after some
\* that were: the rest of the ecosystem is skipped.
EcosystemSkipped(c, some) ==
  /\ run[c].left > 0
  /\ \/ At(c, "listing") /\ UNCHANGED cves
     \/ At(c, "records") /\ cves' = (cves \/ some)
  /\ RunGoes(c, NextEcosystem(c))
  /\ UNCHANGED <<mode, status, packages, restarts>>

\* Nothing is left: the row is idle, whatever was skipped.
MarkIdle(c) ==
  /\ run[c].at \in {"fetching", "listing"} /\ run[c].left = 0
  /\ status' = "idle"
  /\ RunGoes(c, NotRunning)
  /\ UNCHANGED <<mode, packages, cves, restarts>>

-----------------------------------------------------------------------------
\* A restart forgets the flags, not the row.
Restart ==
  /\ restarts < MaxRestarts
  /\ restarts' = restarts + 1
  /\ run' = [c \in Copies |-> NotRunning]
  /\ UNCHANGED <<mode, status, packages, cves>>

MirrorStep(c) ==
  \/ MarkSyncing(c) \/ ReadPackages(c) \/ NoPackages(c)
  \/ Fetched(c) \/ FetchFails(c)
  \/ ReadEcosystems(c) \/ listOsvObjects(c) \/ MarkIdle(c)
  \/ \E some \in BOOLEAN : RecordsStored(c, some) \/ EcosystemSkipped(c, some)

MirrorNext ==
  \/ Scheduled \/ Triggered \/ ScanArrives \/ Restart
  \/ \E c \in Copies : MirrorStep(c)

MirrorSpec == MirrorInit /\ [][MirrorNext]_mirrorVars

\* Whatever the two copies and a restart do to each other's state: a run
\* that is shown as syncing is not shown so for ever, and once a machine has
\* reported packages its CVEs are fetched.
MirrorMakesProgress == /\ status = "syncing" ~> status # "syncing"
                       /\ packages > 0 ~> cves

=============================================================================
