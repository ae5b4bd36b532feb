---------------------------- MODULE MachineCopies ----------------------------
(***************************************************************************)
(* What the server keeps of a machine (server/src: lib/state-cache.ts,     *)
(* api/machines, the registration in connection/AgentConnectionManager.ts):*)
(* its row, and a copy in memory that is read instead of it.  A write goes *)
(* to the row, and some time later to the copy.                            *)
(*                                                                         *)
(* Of a row only the notes are kept; names, status and metrics are left    *)
(* out, and so is who may see the machine (MachineAccess).                 *)
(***************************************************************************)
EXTENDS Naturals

CONSTANTS Machines, Notes,
          PatchCalls,   \* writes of notes, each made once
          MaxCreations  \* bound: registrations

ASSUME CopiesAssumption ==
  MaxCreations \in Nat /\ "no notes" \notin Notes /\ "absent" \notin Notes

NoNotes == "no notes"
Absent == "absent"     \* of a machine that has no row, or is not in memory
Quiet == [at |-> "none", of |-> Absent, notes |-> Absent]

VARIABLES
  stored,        \* per machine: the notes in its row
  memory,        \* per machine: the notes in its copy
  patches,       \* per write of notes: where it is, and what it read
  registering,   \* per machine: where its registration is, and what it read
  deleting,      \* per machine: where its deletion is
  raced,         \* history: machines two writers worked on at once
  created        \* bound: registrations so far

writers == <<patches, registering, deleting>>
copyVars == <<stored, memory, writers, raced, created>>

CopiesInit ==
  /\ stored \in [Machines -> {NoNotes, Absent}] /\ memory = stored
  /\ patches = [c \in PatchCalls |-> Quiet]
  /\ registering = [m \in Machines |-> Quiet]
  /\ deleting = [m \in Machines |-> "none"]
  /\ raced = {} /\ created = 0

Present(m) == stored[m] # Absent

UnderWay(m) ==
  \/ registering[m].at # "none" \/ deleting[m] # "none"
  \/ \E c \in PatchCalls : patches[c].of = m /\ patches[c].at # "done"

\* A writer of m starts to work.
Joins(m) == raced' = IF UnderWay(m) THEN raced \cup {m} ELSE raced

-----------------------------------------------------------------------------
(* Notes.                                                                  *)

\* The row is there when it is looked for, and not always when it is written.
NotesFind(c, m) ==
  /\ patches[c] = Quiet /\ Present(m) /\ Joins(m)
  /\ \E n \in Notes : patches' = [patches EXCEPT ![c] = [at |-> "found", of |-> m, notes |-> n]]
  /\ UNCHANGED <<stored, memory, registering, deleting, created>>

NotesWrite(c) ==
  LET p == patches[c] IN
  /\ p.at = "found"
  /\ IF Present(p.of)
       THEN /\ stored' = [stored EXCEPT ![p.of] = p.notes]
            /\ patches' = [patches EXCEPT ![c].at = "written"]
       ELSE /\ patches' = [patches EXCEPT ![c].at = "done"]
            /\ UNCHANGED stored
  /\ UNCHANGED <<memory, registering, deleting, raced, created>>

\* A machine that is not in memory stays so.
NotesRemember(c) ==
  LET p == patches[c] IN
  /\ p.at = "written"
  /\ memory' = IF memory[p.of] = Absent THEN memory ELSE [memory EXCEPT ![p.of] = p.notes]
  /\ patches' = [patches EXCEPT ![c].at = "done"]
  /\ UNCHANGED <<stored, registering, deleting, raced, created>>

-----------------------------------------------------------------------------
(* Registration.                                                           *)

\* The agent of a machine registers: its row is looked for.  A row that was
\* deleted is not made again: the agent gets a new machine.
Registers(m) ==
  /\ registering[m].at = "none" /\ created < MaxCreations /\ created' = created + 1
  /\ Present(m) /\ Joins(m)
  /\ registering' = [registering EXCEPT ![m].at = "found"]
  /\ UNCHANGED <<stored, memory, patches, deleting>>

\* An unknown agent: one of the machines without a row, never seen before.
Creates(m) ==
  /\ registering[m].at = "none" /\ created < MaxCreations /\ created' = created + 1
  /\ ~Present(m) /\ memory[m] = Absent /\ deleting[m] = "none" /\ Joins(m)
  /\ \A c \in PatchCalls : patches[c].of # m
  /\ stored' = [stored EXCEPT ![m] = NoNotes]
  /\ registering' = [registering EXCEPT ![m] = [at |-> "written", of |-> m, notes |-> NoNotes]]
  /\ UNCHANGED <<memory, patches, deleting>>

\* The row is written without its notes, and read as it is then.
RegistrationWrites(m) ==
  /\ registering[m].at = "found"
  /\ registering' = [registering EXCEPT ![m] =
       IF Present(m) THEN [at |-> "written", of |-> m, notes |-> stored[m]] ELSE Quiet]
  /\ UNCHANGED <<stored, memory, patches, deleting, raced, created>>

\* Faulty: only a copy that is there already is written.
UpsertKnown(m, notes) == IF memory[m] = Absent THEN memory ELSE [memory EXCEPT ![m] = notes]

upsertMachine(m, notes) == [memory EXCEPT ![m] = notes]

RegistrationRemembers(m) ==
  /\ registering[m].at = "written"
  /\ memory' = upsertMachine(m, registering[m].notes)
  /\ registering' = [registering EXCEPT ![m] = Quiet]
  /\ UNCHANGED <<stored, patches, deleting, raced, created>>

-----------------------------------------------------------------------------
(* Deletion.                                                               *)

\* A second deletion finds no row and fails.
DeleteRow(m) ==
  /\ Present(m) /\ Joins(m)
  /\ stored' = [stored EXCEPT ![m] = Absent]
  /\ deleting' = [deleting EXCEPT ![m] = "deleted"]
  /\ UNCHANGED <<memory, patches, registering, created>>

\* The audit row was written.
DeleteCopy(m) ==
  /\ deleting[m] = "deleted"
  /\ deleting' = [deleting EXCEPT ![m] = "none"]
  /\ memory' = [memory EXCEPT ![m] = Absent]
  /\ UNCHANGED <<stored, patches, registering, raced, created>>

\* The server restarts: what was under way is lost, the cache is warmed, and
\* what the database holds counts as it is.
warmCache ==
  /\ \E m \in Machines : UnderWay(m)
  /\ memory' = stored /\ raced' = {}
  /\ patches' = [c \in PatchCalls |-> IF patches[c] = Quiet THEN Quiet ELSE [patches[c] EXCEPT !.at = "done"]]
  /\ registering' = [m \in Machines |-> Quiet]
  /\ deleting' = [m \in Machines |-> "none"]
  /\ UNCHANGED <<stored, created>>

-----------------------------------------------------------------------------
CopiesNext ==
  \/ \E c \in PatchCalls : \/ \E m \in Machines : NotesFind(c, m)
                           \/ NotesWrite(c) \/ NotesRemember(c)
  \/ \E m \in Machines : \/ Registers(m) \/ Creates(m) \/ RegistrationWrites(m)
                         \/ RegistrationRemembers(m) \/ DeleteRow(m) \/ DeleteCopy(m)
  \/ warmCache

CopiesSpec == CopiesInit /\ [][CopiesNext]_copyVars

-----------------------------------------------------------------------------
\* What a page is shown of a machine: the copy, or the row if there is none.
Shown(m) == IF memory[m] # Absent THEN memory[m] ELSE stored[m]

\* The list of machines is served from the copies once they are warm.
Listed == {m \in Machines : memory[m] # Absent}

\* When no handler is under way, the list of machines, which is the copies,
\* has every machine that is stored and none that is deleted, and its page
\* shows the notes of the row - unless two handlers worked on it at once.
CopiesAgree ==
  \A m \in Machines \ raced :
    ~UnderWay(m) => Shown(m) = stored[m] /\ (Present(m) <=> m \in Listed)

=============================================================================
