-------------------------------- MODULE MCWeb --------------------------------
(***************************************************************************)
(* What browsers do with the server, and the server with what they read    *)
(* and write.  The parts share no state: the first state chooses the part  *)
(* that runs, the others stay where they are.                              *)
(***************************************************************************)
EXTENDS TerminalSessions, AgentTerminal, JobPage, MachinePage, UpdateDialog,
        WebSession, MachineCopies, MachineAccess, SecretKeys

\* All tabs are of one user.
OneUser == [t \in Tabs |-> CHOOSE u \in TabUsers : TRUE]

VARIABLE part   \* the part that runs

Parts == {"terminals", "keys", "jobs", "machine", "update", "session", "copies",
          "access", "secrets"}

WebInit ==
  /\ part \in Parts
  /\ TerminalInit /\ AgentTerminalInit /\ JobPageInit /\ MachinePageInit
  /\ UpdateDialogInit /\ SessionInit /\ CopiesInit /\ AccessInit /\ SecretsInit
  /\ part # "machine" => row = CHOOSE text \in Texts : TRUE
  /\ part # "session" => account = [role |-> "user", language |-> TRUE]
  /\ part # "copies" => \A m \in Machines : stored[m] = Absent
  /\ part # "access" => owned = {} /\ last = {}
  /\ part # "secrets" => given = NoSecret /\ file = NoSecret

Stays(p, vars) == IF part = p THEN TRUE ELSE UNCHANGED vars

Runs(p) ==
  /\ part = p /\ UNCHANGED part
  /\ Stays("terminals", terminalVars) /\ Stays("keys", agentTerminalVars)
  /\ Stays("jobs", jobPageVars) /\ Stays("machine", machinePageVars)
  /\ Stays("update", updateDialogVars) /\ Stays("session", webSessionVars)
  /\ Stays("copies", copyVars) /\ Stays("access", accessVars)
  /\ Stays("secrets", secretVars)

WebNext ==
  \/ Runs("terminals") /\ TerminalNext
  \/ Runs("keys") /\ AgentTerminalNext
  \/ Runs("jobs") /\ JobPageNext
  \/ Runs("machine") /\ MachinePageNext
  \/ Runs("update") /\ UpdateDialogNext
  \/ Runs("session") /\ SessionNext
  \/ Runs("copies") /\ CopiesNext
  \/ Runs("access") /\ AccessNext
  \/ Runs("secrets") /\ SecretsNext

Spec == WebInit /\ [][WebNext]_<<part, terminalVars, agentTerminalVars, jobPageVars,
                                 machinePageVars, updateDialogVars, webSessionVars,
                                 copyVars, accessVars, secretVars>>

=============================================================================
