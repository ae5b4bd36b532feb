---------------------------- MODULE MachineAccess ----------------------------
(***************************************************************************)
(* Which machines a user may see (server/src: lib/authorization.ts,        *)
(* api/admin/users/[id]/machines, api/machines): an administrator saves    *)
(* the whole list, in a transaction that deletes the rows it sees and      *)
(* inserts new ones.  A request looks the rows up and acts on its answer   *)
(* some time later.                                                        *)
(*                                                                         *)
(* One user, who is no administrator.  Transactions read what is committed;*)
(* a machine is assigned once, and its rows go with it.                    *)
(***************************************************************************)
EXTENDS Naturals

CONSTANTS AccessMachines,
          PutCalls   \* replacements of the list, each made once

ASSUME AccessAssumption == 0 \notin PutCalls

Silent == [at |-> "new", list |-> {}, seen |-> {}, alone |-> TRUE]

VARIABLES
  present,       \* the machines that have a row
  owned,         \* those the user made
  granted,       \* assignments: the machine, and who made it
  replacements,  \* per replacement: where it is, and its list
  last,          \* history: the list of the last replacement
  mixed          \* history: it overlapped with another one

accessVars == <<present, owned, granted, replacements, last, mixed>>

AccessInit ==
  /\ present = AccessMachines
  /\ owned \in SUBSET AccessMachines /\ last \in SUBSET AccessMachines
  /\ granted = last \X {0}
  /\ replacements = [c \in PutCalls |-> Silent]
  /\ mixed = FALSE

InTransaction(c) == replacements[c].at = "transaction"

\* The machines of the list are there when they are looked for.
PutChecked(c) ==
  /\ replacements[c].at = "new"
  /\ \E list \in SUBSET present :
       replacements' = [replacements EXCEPT ![c] = [Silent EXCEPT !.at = "checked", !.list = list]]
  /\ UNCHANGED <<present, owned, granted, last, mixed>>

\* The transaction begins: what is assigned by then will be deleted.
PutBegins(c) ==
  /\ replacements[c].at = "checked"
  /\ replacements' = [d \in PutCalls |->
       IF d = c THEN [replacements[c] EXCEPT !.at = "transaction", !.seen = granted,
                                             !.alone = \A e \in PutCalls : ~InTransaction(e)]
       ELSE [replacements[d] EXCEPT !.alone = @ /\ ~InTransaction(d)]]
  /\ UNCHANGED <<present, owned, granted, last, mixed>>

\* Faulty: an empty list leaves the assignments as they are.
ReplacedUnlessEmpty(seen, list, c) ==
  IF list = {} THEN granted ELSE (granted \ seen) \cup (list \X {c})

Replaced(seen, list, c) == (granted \ seen) \cup (list \X {c})

\* It commits, unless a machine of the list was deleted or assigned meanwhile.
PutCommits(c) ==
  LET r == replacements[c]
      clash == \/ \E m \in r.list : m \notin present
               \/ \E g \in granted \ r.seen : g[1] \in r.list
  IN  /\ InTransaction(c)
      /\ replacements' = [replacements EXCEPT ![c].at = "done"]
      /\ IF clash THEN UNCHANGED <<granted, last, mixed>>
         ELSE /\ granted' = Replaced(r.seen, r.list, c)
              /\ last' = r.list /\ mixed' = ~r.alone
      /\ UNCHANGED <<present, owned>>

\* The rows go with the machine.
DeleteMachine(m) ==
  /\ m \in present /\ present' = present \ {m}
  /\ owned' = owned \ {m} /\ last' = last \ {m}
  /\ granted' = {g \in granted : g[1] # m}
  /\ UNCHANGED <<replacements, mixed>>

-----------------------------------------------------------------------------
AccessNext ==
  \/ \E c \in PutCalls : PutChecked(c) \/ PutBegins(c) \/ PutCommits(c)
  \/ \E m \in AccessMachines : DeleteMachine(m)

AccessSpec == AccessInit /\ [][AccessNext]_accessVars

-----------------------------------------------------------------------------
canAccessMachine(m) == m \in owned \/ \E g \in granted : g[1] = m

\* getAccessibleMachineIds and filterMachinesByAccess, of the machines listed.
filterMachinesByAccess(machines) ==
  machines \cap (owned \cup {g[1] : g \in granted})

\* The user may see exactly the machines they made and those of the last list
\* an administrator saved, one by one and in a list, and none is assigned
\* that is deleted - unless two lists were saved at once.
AssignmentsAgree ==
  /\ ~mixed => /\ {m \in AccessMachines : canAccessMachine(m)} = owned \cup last
               /\ filterMachinesByAccess(present) = owned \cup last
  /\ \A g \in granted : g[1] \in present

=============================================================================
