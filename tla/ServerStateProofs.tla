-------------------------- MODULE ServerStateProofs --------------------------
(***************************************************************************)
(* Proofs about what the server keeps, for all users, machines, numbers of *)
(* requests and interleavings: that an active administrator remains        *)
(* (UserAdmin), that a user sees the machines assigned to him              *)
(* (MachineAccess), that the copies in memory agree with the rows          *)
(* (MachineCopies), that its secret stays the one in use (SecretKeys), and *)
(* that the page of the users shows what the server has (UsersPage).       *)
(***************************************************************************)
EXTENDS UserAdmin, MachineAccess, MachineCopies, SecretKeys, UsersPage, TLAPS

-----------------------------------------------------------------------------
(* UserAdmin.                                                              *)

Rows == [role : Roles, active : BOOLEAN] \cup {NoRow}

\* What a request holds between its read and its write.
WellFormedCall(r) ==
  /\ r.at \in {"idle", "setup", "patch", "delete", "create"}
  /\ r.at \in {"setup", "patch", "delete", "create"} => r.on \in Users
  /\ r.at \in {"patch", "delete", "create"} => r.by \in Users
  /\ r.at \in {"patch", "create"} => r.to \in [role : Roles, active : BOOLEAN]
  /\ r.at = "create" => r.to.active

\* What the checks of a handler leave for its write: nobody demotes,
\* deactivates or deletes himself.
SparesItsAuthor(r) ==
  /\ r.at = "patch" => NotAgainstOneself(r.by, r.on, r.to)
  /\ r.at = "delete" => r.by # r.on

UserTypes ==
  /\ row \in [Users -> Rows]
  /\ DOMAIN session = Users
  /\ DOMAIN call = AdminCalls
  /\ \A c \in AdminCalls : WellFormedCall(call[c])
  /\ deposed \in BOOLEAN

\* Before the server is set up nobody has a session, and only the requests
\* that set it up are under way.
NobodyBeforeSetUp ==
  ~SetUp /\ ~deposed =>
    /\ \A u \in Users : session[u] = "none"
    /\ \A c \in AdminCalls : call[c].at \in {"idle", "setup"}

AdminInv ==
  /\ UserTypes
  /\ \A c \in AdminCalls : SparesItsAuthor(call[c])
  /\ NobodyBeforeSetUp
  /\ AnAdminRemains

-----------------------------------------------------------------------------
\* A user who is an active administrator has a row, and one of Rows.
LEMMA AdminsExist ==
  ASSUME NEW u \in Users, IsAdmin(u)
  PROVE  Exists(u)
BY DEF IsAdmin, Exists, NoRow

\* At the start there is nobody.
LEMMA AdminInvInit == UsersInit => AdminInv
<1> SUFFICES ASSUME UsersInit PROVE AdminInv
  OBVIOUS
<1>1. \A c \in AdminCalls : call[c] = NoCall
  BY DEF UsersInit
<1>2. WellFormedCall(NoCall) /\ SparesItsAuthor(NoCall) /\ NoCall.at = "idle"
  BY DEF WellFormedCall, SparesItsAuthor, NoCall
<1>3. UserTypes
  BY <1>1, <1>2 DEF UsersInit, UserTypes, Rows
<1>4. ~SetUp
  BY DEF UsersInit, SetUp, Exists
<1> QED
  BY <1>1, <1>2, <1>3, <1>4 DEF UsersInit, AdminInv, NobodyBeforeSetUp, AnAdminRemains

\* Sessions come and go without the table: before the server is set up there
\* is none to renew and no row to log in with.
LEMMA SessionStepKeeps ==
  ASSUME AdminInv, NEW u \in Users, SessionStep(u)
  PROVE  AdminInv'
<1>1. UNCHANGED <<row, call, calls, deposed>> /\ DOMAIN session' = Users
  BY DEF AdminInv, UserTypes, SessionStep, Login, Refresh, RenewSession, ChooseLanguage, SessionEnds, Issue
<1>2. SetUp' = SetUp /\ AnAdminRemains'
  BY <1>1 DEF AdminInv, SetUp, AnAdminRemains, Exists, IsAdmin
<1>3. NobodyBeforeSetUp'
  <2> SUFFICES ASSUME ~SetUp, ~deposed PROVE NobodyBeforeSetUp'
    BY <1>1, <1>2 DEF NobodyBeforeSetUp
  <2>1. row[u] = NoRow /\ session[u] = "none"
    BY DEF SetUp, Exists, AdminInv, NobodyBeforeSetUp
  <2> QED
    BY <2>1 DEF SessionStep, Login, Refresh, RenewSession, ChooseLanguage, SessionEnds, NoRow
<1> QED
  BY <1>1, <1>2, <1>3 DEF AdminInv, UserTypes, SparesItsAuthor, WellFormedCall

\* A request that has read and not yet written changes no row; what it holds
\* is well-formed and spares its author.
LEMMA ReadKeeps ==
  ASSUME AdminInv, NEW c \in AdminCalls, NEW r, Call(c, r),
         UNCHANGED <<row, session, deposed>>,
         WellFormedCall(r), SparesItsAuthor(r),
         r.at \in {"idle", "setup"} \/ SetUp \/ deposed
  PROVE  AdminInv'
<1>1. SetUp' = SetUp /\ AnAdminRemains'
  BY DEF AdminInv, SetUp, AnAdminRemains, Exists, IsAdmin
<1>2. \A d \in AdminCalls : call'[d] = IF d = c THEN r ELSE call[d]
  BY DEF Call, AdminInv, UserTypes
<1>3. UserTypes' /\ \A d \in AdminCalls : SparesItsAuthor(call'[d])
  BY <1>2 DEF Call, AdminInv, UserTypes, WellFormedCall, SparesItsAuthor
<1>4. NobodyBeforeSetUp'
  BY <1>1, <1>2 DEF AdminInv, NobodyBeforeSetUp
<1> QED
  BY <1>1, <1>3, <1>4 DEF AdminInv

LEMMA SetupCountsKeeps ==
  ASSUME AdminInv, NEW c \in AdminCalls, NEW u \in Users, SetupCounts(c, u)
  PROVE  AdminInv'
<1> DEFINE r == [NoCall EXCEPT !.at = "setup", !.on = u]
<1>1. WellFormedCall(r) /\ SparesItsAuthor(r) /\ r.at = "setup"
  BY DEF WellFormedCall, SparesItsAuthor, NoCall
<1> QED
  BY <1>1, ReadKeeps DEF SetupCounts

LEMMA PatchReadsKeeps ==
  ASSUME AdminInv, NEW c \in AdminCalls, NEW u \in Users, NEW v \in Users,
         NEW to \in [role : Roles, active : BOOLEAN], PatchReads(c, u, v, to)
  PROVE  AdminInv'
<1> DEFINE r == [at |-> "patch", by |-> u, on |-> v, to |-> to,
                 fields |-> {f \in DOMAIN to : to[f] # row[v][f]}]
<1>1. WellFormedCall(r) /\ SparesItsAuthor(r)
  BY DEF WellFormedCall, SparesItsAuthor, PatchReads
<1>2. SetUp
  BY DEF SetUp, PatchReads
<1> QED
  BY <1>1, <1>2, ReadKeeps DEF PatchReads

LEMMA DeleteReadsKeeps ==
  ASSUME AdminInv, NEW c \in AdminCalls, NEW u \in Users, NEW v \in Users, DeleteReads(c, u, v)
  PROVE  AdminInv'
<1> DEFINE r == [NoCall EXCEPT !.at = "delete", !.by = u, !.on = v]
<1>1. WellFormedCall(r) /\ SparesItsAuthor(r)
  BY DEF WellFormedCall, SparesItsAuthor, NoCall, DeleteReads
<1>2. SetUp
  BY DEF SetUp, DeleteReads
<1> QED
  BY <1>1, <1>2, ReadKeeps DEF DeleteReads

LEMMA CreateReadsKeeps ==
  ASSUME AdminInv, NEW c \in AdminCalls, NEW u \in Users, NEW v \in Users, NEW role \in Roles,
         CreateReads(c, u, v, role)
  PROVE  AdminInv'
<1> DEFINE r == [NoCall EXCEPT !.at = "create", !.by = u, !.on = v,
                               !.to = [role |-> role, active |-> TRUE]]
<1>1. WellFormedCall(r) /\ SparesItsAuthor(r)
  BY DEF WellFormedCall, SparesItsAuthor, NoCall
<1>2. SetUp \/ deposed
  BY DEF CreateReads, Authorised, AdminInv, NobodyBeforeSetUp
<1> QED
  BY <1>1, <1>2, ReadKeeps DEF CreateReads

-----------------------------------------------------------------------------
\* What is left to show of a write: the rows stay well-formed, and as long as
\* no author was deposed a server that was set up, or is being set up, has an
\* administrator.
LEMMA WriteKeeps ==
  ASSUME AdminInv, NEW c \in AdminCalls, Call(c, NoCall),
         row' \in [Users -> Rows], deposed' \in BOOLEAN, deposed => deposed',
         DOMAIN session' = Users,
         ~deposed' =>
           \/ \E u \in Users : IsAdmin(u)'
           \/ ~SetUp /\ UNCHANGED <<row, session>>
  PROVE  AdminInv'
<1>1. \A d \in AdminCalls : call'[d] = IF d = c THEN NoCall ELSE call[d]
  BY DEF Call, AdminInv, UserTypes
<1>2. UserTypes' /\ \A d \in AdminCalls : SparesItsAuthor(call'[d])
  BY <1>1 DEF Call, AdminInv, UserTypes, WellFormedCall, SparesItsAuthor, NoCall
<1>3. AnAdminRemains'
  BY DEF AnAdminRemains, SetUp, Exists
<1>4. NobodyBeforeSetUp'
  <2> SUFFICES ASSUME ~SetUp', ~deposed' PROVE NobodyBeforeSetUp'
    BY DEF NobodyBeforeSetUp
  <2>1. ~SetUp /\ ~deposed /\ UNCHANGED session
    BY DEF SetUp, Exists, IsAdmin, NoRow
  <2> QED
    BY <2>1, <1>1 DEF AdminInv, NobodyBeforeSetUp, NoCall
<1> QED
  BY <1>2, <1>3, <1>4 DEF AdminInv

LEMMA SetupCreatesKeeps ==
  ASSUME AdminInv, NEW c \in AdminCalls, SetupCreates(c)
  PROVE  AdminInv'
<1>0. PICK u \in Users : u = call[c].on
  BY DEF AdminInv, UserTypes, WellFormedCall, SetupCreates
<1>1. deposed' = deposed /\ Call(c, NoCall)
  BY DEF SetupCreates
<1>2. CASE Exists(u)
  <2>1. UNCHANGED <<row, session>> /\ SetUp
    BY <1>0, <1>2 DEF SetupCreates, SetUp
  <2>2. ~deposed' => \E v \in Users : IsAdmin(v)'
    BY <1>1, <2>1 DEF AdminInv, AnAdminRemains, IsAdmin
  <2> QED
    BY <1>1, <2>1, <2>2, WriteKeeps DEF AdminInv, UserTypes
<1>3. CASE ~Exists(u)
  <2>1. /\ row' = [row EXCEPT ![u] = [role |-> "admin", active |-> TRUE]]
        /\ session' = [session EXCEPT ![u] = "admin"]
    BY <1>0, <1>3 DEF SetupCreates
  <2>2. IsAdmin(u)' /\ row' \in [Users -> Rows] /\ DOMAIN session' = Users
    BY <1>1, <2>1 DEF IsAdmin, AdminInv, UserTypes, Rows, Roles
  <2>3. deposed' \in BOOLEAN
    BY <1>1 DEF AdminInv, UserTypes
  <2>4. \E v \in Users : IsAdmin(v)'
    BY <1>1, <2>2
  <2> QED
    BY <1>1, <2>2, <2>3, <2>4, WriteKeeps
<1> QED
  BY <1>2, <1>3

\* The author of a write is an administrator unless he was deposed, and his
\* write spares him.
LEMMA WrittenKeeps ==
  ASSUME AdminInv, NEW c \in AdminCalls, call[c].at \in {"patch", "delete"},
         NEW new \in Rows, Written(c, call[c].on, new),
         call[c].by = call[c].on /\ IsAdmin(call[c].by) => new.role = "admin" /\ new.active
  PROVE  AdminInv'
<1>0. PICK u \in Users, v \in Users : u = call[c].by /\ v = call[c].on
  BY DEF AdminInv, UserTypes, WellFormedCall
<1>1. row' = IF Exists(v) THEN [row EXCEPT ![v] = new] ELSE row
  BY <1>0 DEF Written
<1>2. row' \in [Users -> Rows] /\ UNCHANGED session /\ Call(c, NoCall)
  BY <1>1 DEF Written, AdminInv, UserTypes
<1>3. deposed' = (deposed \/ ~IsAdmin(u))
  BY <1>0 DEF Written
<1>4. ASSUME ~deposed' PROVE IsAdmin(u)'
  <2>1. IsAdmin(u)
    BY <1>3, <1>4
  <2>2. CASE u = v
    BY <1>0, <1>1, <2>1, <2>2, AdminsExist DEF IsAdmin, AdminInv, UserTypes
  <2>3. CASE u # v
    BY <1>1, <2>1, <2>3 DEF IsAdmin, AdminInv, UserTypes
  <2> QED
    BY <2>2, <2>3
<1>5. deposed' \in BOOLEAN /\ (deposed => deposed') /\ DOMAIN session' = Users
  BY <1>2, <1>3 DEF AdminInv, UserTypes
<1> QED
  BY <1>1, <1>2, <1>4, <1>5, WriteKeeps

LEMMA PatchWritesKeeps ==
  ASSUME AdminInv, NEW c \in AdminCalls, PatchWrites(c)
  PROVE  AdminInv'
<1> DEFINE r == call[c]
           before == row[call[c].on]
<1>1. /\ r.at = "patch" /\ r.on \in Users /\ r.by \in Users
      /\ r.to \in [role : Roles, active : BOOLEAN]
      /\ NotAgainstOneself(r.by, r.on, r.to)
      /\ before \in Rows
  BY DEF PatchWrites, AdminInv, UserTypes, WellFormedCall, SparesItsAuthor
<1>2. r.by = r.on /\ IsAdmin(r.by) => Patched(before, r).role = "admin" /\ Patched(before, r).active
  BY <1>1 DEF NotAgainstOneself, Patched, IsAdmin
<1>3. CASE Exists(r.on)
  <2>1. Patched(before, r) \in Rows
    BY <1>1, <1>3 DEF Patched, Rows, Exists
  <2> QED
    BY <1>1, <1>2, <2>1, WrittenKeeps DEF PatchWrites
<1>4. CASE ~Exists(r.on)
  <2>1. Written(c, r.on, NoRow)
    BY <1>4 DEF PatchWrites, Written
  <2>2. ~(r.by = r.on /\ IsAdmin(r.by))
    BY <1>1, <1>4, AdminsExist
  <2>3. NoRow \in Rows
    BY DEF Rows
  <2> QED
    BY <1>1, <2>1, <2>2, <2>3, WrittenKeeps
<1> QED
  BY <1>3, <1>4

LEMMA DeleteWritesKeeps ==
  ASSUME AdminInv, NEW c \in AdminCalls, DeleteWrites(c)
  PROVE  AdminInv'
<1>1. call[c].at = "delete" /\ call[c].by # call[c].on /\ Written(c, call[c].on, NoRow)
  BY DEF DeleteWrites, AdminInv, SparesItsAuthor
<1> QED
  BY <1>1, WrittenKeeps DEF Rows

\* A new user takes nobody's place.
LEMMA CreateWritesKeeps ==
  ASSUME AdminInv, NEW c \in AdminCalls, CreateWrites(c)
  PROVE  AdminInv'
<1> DEFINE v == call[c].on
<1>1. /\ v \in Users /\ call[c].to \in [role : Roles, active : BOOLEAN]
      /\ Call(c, NoCall) /\ UNCHANGED <<session, deposed>>
      /\ row' = IF Exists(v) THEN row ELSE [row EXCEPT ![v] = call[c].to]
  BY DEF CreateWrites, AdminInv, UserTypes, WellFormedCall
<1>2. row' \in [Users -> Rows]
  BY <1>1 DEF AdminInv, UserTypes, Rows
<1>3. \A u \in Users : IsAdmin(u) => IsAdmin(u)'
  BY <1>1, AdminsExist DEF IsAdmin, AdminInv, UserTypes
<1>4. SetUp \/ deposed
  BY DEF CreateWrites, AdminInv, NobodyBeforeSetUp
<1>5. ~deposed' => \E u \in Users : IsAdmin(u)'
  BY <1>1, <1>3, <1>4 DEF AdminInv, AnAdminRemains
<1>6. deposed' \in BOOLEAN /\ DOMAIN session' = Users
  BY <1>1 DEF AdminInv, UserTypes
<1> QED
  BY <1>1, <1>2, <1>5, <1>6, WriteKeeps

LEMMA AdminInvStep == AdminInv /\ [UsersNext]_userVars => AdminInv'
<1> SUFFICES ASSUME AdminInv, [UsersNext]_userVars PROVE AdminInv'
  OBVIOUS
<1>1. ASSUME NEW u \in Users, SessionStep(u) PROVE AdminInv'
  BY <1>1, SessionStepKeeps
<1>2. ASSUME NEW c \in AdminCalls,
             \/ SetupCreates(c) \/ PatchWrites(c) \/ DeleteWrites(c) \/ CreateWrites(c)
      PROVE AdminInv'
  BY <1>2, SetupCreatesKeeps, PatchWritesKeeps, DeleteWritesKeeps, CreateWritesKeeps
<1>3. ASSUME NEW c \in AdminCalls, NEW u \in Users, SetupCounts(c, u) PROVE AdminInv'
  BY <1>3, SetupCountsKeeps
<1>4. ASSUME NEW c \in AdminCalls, NEW u \in Users, NEW v \in Users,
             \/ DeleteReads(c, u, v)
             \/ \E to \in [role : Roles, active : BOOLEAN] : PatchReads(c, u, v, to)
             \/ \E role \in Roles : CreateReads(c, u, v, role)
      PROVE AdminInv'
  BY <1>4, DeleteReadsKeeps, PatchReadsKeeps, CreateReadsKeeps
<1>5. CASE UNCHANGED userVars
  BY <1>5 DEF userVars, AdminInv, UserTypes, WellFormedCall, SparesItsAuthor,
       NobodyBeforeSetUp, AnAdminRemains, SetUp, Exists, IsAdmin
<1> QED
  BY <1>1, <1>2, <1>3, <1>4, <1>5 DEF UsersNext

\* However the requests of administrators interleave, and whatever roles their
\* tokens still hold: a server that was set up keeps an active administrator,
\* as long as no request writes whose author was no administrator any more.
THEOREM AnAdminRemainsHolds == UsersSpec => []AnAdminRemains
<1>1. UsersInit => AdminInv
  BY AdminInvInit
<1>2. AdminInv /\ [UsersNext]_userVars => AdminInv'
  BY AdminInvStep
<1>3. AdminInv => AnAdminRemains
  BY DEF AdminInv
<1> QED
  BY <1>1, <1>2, <1>3, PTL DEF UsersSpec

-----------------------------------------------------------------------------
(* MachineAccess: a transaction that was alone has seen every assignment.  *)

AccessTypes ==
  /\ present \in SUBSET AccessMachines /\ owned \in SUBSET present /\ last \in SUBSET present
  /\ granted \in SUBSET (AccessMachines \X (PutCalls \cup {0})) /\ mixed \in BOOLEAN
  /\ DOMAIN replacements = PutCalls
  /\ \A c \in PutCalls : replacements[c] \in [at : {"new", "checked", "transaction", "done"},
                                              list : SUBSET AccessMachines,
                                              seen : SUBSET (AccessMachines \X (PutCalls \cup {0})),
                                              alone : BOOLEAN]

AloneHasSeenAll ==
  \A c \in PutCalls : InTransaction(c) /\ replacements[c].alone =>
    /\ granted \subseteq replacements[c].seen
    /\ \A d \in PutCalls : InTransaction(d) => d = c

AssignedMachines == {g[1] : g \in granted}

AccessInv ==
  /\ AccessTypes /\ AloneHasSeenAll
  /\ AssignedMachines \subseteq present
  /\ ~ mixed => AssignedMachines = last

LEMMA AssignedOnce ==
  ASSUME NEW S, NEW c
  PROVE  {g[1] : g \in S \X {c}} = S
<1>1. ASSUME NEW m \in S PROVE m \in {g[1] : g \in S \X {c}}
  <2>1. <<m, c>> \in S \X {c} /\ <<m, c>>[1] = m
    OBVIOUS
  <2> QED
    BY <2>1
<1> QED
  BY <1>1

LEMMA AccessInvInit == AccessInit => AccessInv
<1> SUFFICES ASSUME AccessInit PROVE AccessInv
  OBVIOUS
<1>1. \A c \in PutCalls : replacements[c] = Silent
  BY DEF AccessInit
<1>2. Silent \in [at : {"new", "checked", "transaction", "done"}, list : SUBSET AccessMachines,
                  seen : SUBSET (AccessMachines \X (PutCalls \cup {0})), alone : BOOLEAN]
  BY DEF Silent
<1>3. AccessTypes
  BY <1>1, <1>2 DEF AccessInit, AccessTypes
<1>4. AloneHasSeenAll
  BY <1>1 DEF AloneHasSeenAll, InTransaction, Silent
<1>5. AssignedMachines = last
  BY AssignedOnce DEF AccessInit, AssignedMachines
<1> QED
  BY <1>3, <1>4, <1>5 DEF AccessInv, AccessTypes

LEMMA PutCheckedKeeps ==
  ASSUME AccessInv, NEW c \in PutCalls, PutChecked(c)
  PROVE  AccessInv'
<1>1. PICK list \in SUBSET present :
        replacements' = [replacements EXCEPT ![c] = [Silent EXCEPT !.at = "checked", !.list = list]]
  BY DEF PutChecked
<1>2. UNCHANGED <<present, owned, granted, last, mixed>>
  BY DEF PutChecked
<1>3. /\ replacements'[c] = [Silent EXCEPT !.at = "checked", !.list = list]
      /\ DOMAIN replacements' = PutCalls
      /\ \A d \in PutCalls : d # c => replacements'[d] = replacements[d]
  BY <1>1 DEF AccessInv, AccessTypes
<1>4. list \in SUBSET AccessMachines
  BY DEF AccessInv, AccessTypes
<1>5. /\ replacements'[c] \in [at : {"new", "checked", "transaction", "done"}, list : SUBSET AccessMachines,
                               seen : SUBSET (AccessMachines \X (PutCalls \cup {0})), alone : BOOLEAN]
      /\ ~ InTransaction(c)'
  BY <1>3, <1>4 DEF Silent, InTransaction
<1>6. AccessTypes'
  BY <1>2, <1>3, <1>5 DEF AccessInv, AccessTypes
<1>7. AloneHasSeenAll'
  BY <1>2, <1>3, <1>5, ZenonT(60) DEF AccessInv, AloneHasSeenAll, InTransaction
<1> QED
  BY <1>2, <1>6, <1>7 DEF AccessInv, AssignedMachines

LEMMA PutBeginsKeeps ==
  ASSUME AccessInv, NEW c \in PutCalls, PutBegins(c)
  PROVE  AccessInv'
<1>1. UNCHANGED <<present, owned, granted, last, mixed>>
  BY DEF PutBegins
<1>2. PICK alone : alone = \A e \in PutCalls : ~ InTransaction(e)
  OBVIOUS
<1>3. /\ DOMAIN replacements' = PutCalls
      /\ replacements'[c] = [replacements[c] EXCEPT !.at = "transaction", !.seen = granted, !.alone = alone]
      /\ \A d \in PutCalls : d # c =>
           replacements'[d] = [replacements[d] EXCEPT !.alone = @ /\ ~ InTransaction(d)]
  BY <1>2 DEF PutBegins
<1>4. alone \in BOOLEAN /\ granted \in SUBSET (AccessMachines \X (PutCalls \cup {0}))
  BY <1>2 DEF AccessInv, AccessTypes
<1>5. AccessTypes'
  <2>1. ASSUME NEW d \in PutCalls
        PROVE  replacements'[d] \in [at : {"new", "checked", "transaction", "done"}, list : SUBSET AccessMachines,
                                     seen : SUBSET (AccessMachines \X (PutCalls \cup {0})), alone : BOOLEAN]
    <3>1. replacements[d] \in [at : {"new", "checked", "transaction", "done"}, list : SUBSET AccessMachines,
                               seen : SUBSET (AccessMachines \X (PutCalls \cup {0})), alone : BOOLEAN]
      BY DEF AccessInv, AccessTypes
    <3>2. CASE d = c
      BY <1>3, <1>4, <3>1, <3>2
    <3>3. CASE d # c
      <4>1. PICK b \in BOOLEAN : b = (replacements[d].alone /\ ~ InTransaction(d))
        OBVIOUS
      <4> QED
        BY <1>3, <3>1, <3>3, <4>1, ZenonT(120)
    <3> QED
      BY <3>2, <3>3
  <2> QED
    BY <1>1, <1>3, <2>1 DEF AccessInv, AccessTypes
<1>6. ASSUME NEW d \in PutCalls, d # c
      PROVE  /\ InTransaction(d)' = InTransaction(d)
             /\ InTransaction(d) => ~ replacements'[d].alone
  <2>1. /\ replacements'[d] = [replacements[d] EXCEPT !.alone = @ /\ ~ InTransaction(d)]
        /\ replacements[d] \in [at : {"new", "checked", "transaction", "done"}, list : SUBSET AccessMachines,
                                seen : SUBSET (AccessMachines \X (PutCalls \cup {0})), alone : BOOLEAN]
    BY <1>3, <1>6 DEF AccessInv, AccessTypes
  <2>2. /\ replacements'[d].at = replacements[d].at
        /\ InTransaction(d) => ~ replacements'[d].alone
    BY <2>1
  <2> QED
    BY <2>2 DEF InTransaction
<1>7. replacements'[c].seen = granted /\ replacements'[c].alone = alone
  BY <1>3 DEF AccessInv, AccessTypes
<1>8. AloneHasSeenAll'
  BY <1>1, <1>2, <1>6, <1>7 DEF AloneHasSeenAll
<1> QED
  BY <1>1, <1>5, <1>8 DEF AccessInv, AssignedMachines

LEMMA PutCommitsKeeps ==
  ASSUME AccessInv, NEW c \in PutCalls, PutCommits(c)
  PROVE  AccessInv'
<1> DEFINE r == replacements[c]
           clash == \/ \E m \in r.list : m \notin present
                    \/ \E g \in granted \ r.seen : g[1] \in r.list
<1>1. /\ InTransaction(c) /\ replacements' = [replacements EXCEPT ![c].at = "done"]
      /\ UNCHANGED <<present, owned>>
      /\ IF clash THEN UNCHANGED <<granted, last, mixed>>
         ELSE /\ granted' = Replaced(r.seen, r.list, c)
              /\ last' = r.list /\ mixed' = ~ r.alone
  BY DEF PutCommits
<1>2. /\ DOMAIN replacements' = PutCalls /\ replacements'[c] = [r EXCEPT !.at = "done"]
      /\ \A d \in PutCalls : d # c => replacements'[d] = replacements[d]
  BY <1>1 DEF AccessInv, AccessTypes
<1>3. r \in [at : {"new", "checked", "transaction", "done"}, list : SUBSET AccessMachines,
             seen : SUBSET (AccessMachines \X (PutCalls \cup {0})), alone : BOOLEAN]
  BY DEF AccessInv, AccessTypes
<1>4. \A d \in PutCalls : replacements'[d] \in
        [at : {"new", "checked", "transaction", "done"}, list : SUBSET AccessMachines,
         seen : SUBSET (AccessMachines \X (PutCalls \cup {0})), alone : BOOLEAN]
  <2>1. replacements'[c] \in
          [at : {"new", "checked", "transaction", "done"}, list : SUBSET AccessMachines,
           seen : SUBSET (AccessMachines \X (PutCalls \cup {0})), alone : BOOLEAN]
    BY <1>2, <1>3
  <2> QED
    BY <1>2, <2>1 DEF AccessInv, AccessTypes
<1>5. ~ InTransaction(c)' /\ \A d \in PutCalls : d # c => InTransaction(d)' = InTransaction(d)
  BY <1>2, <1>3 DEF InTransaction
<1>6. AloneHasSeenAll'
  <2>1. ASSUME NEW d \in PutCalls, InTransaction(d)', replacements'[d].alone PROVE FALSE
    <3>1. d # c /\ InTransaction(d) /\ replacements[d].alone
      BY <1>2, <1>5, <2>1
    <3> QED
      BY <1>1, <3>1 DEF AccessInv, AloneHasSeenAll
  <2> QED
    BY <2>1 DEF AloneHasSeenAll
<1>7. CASE clash
  <2>1. UNCHANGED <<granted, last, mixed>>
    BY <1>1, <1>7
  <2> QED
    BY <1>1, <1>2, <1>4, <1>6, <2>1 DEF AccessInv, AccessTypes, AssignedMachines
<1>8. CASE ~ clash
  <2>1. /\ granted' = (granted \ r.seen) \cup (r.list \X {c}) /\ last' = r.list /\ mixed' = ~ r.alone
        /\ r.list \subseteq present
    BY <1>1, <1>8 DEF Replaced
  <2>2. granted' \in SUBSET (AccessMachines \X (PutCalls \cup {0}))
    BY <1>3, <2>1 DEF AccessInv, AccessTypes
  <2>3. AccessTypes'
    BY <1>1, <1>2, <1>3, <1>4, <2>1, <2>2 DEF AccessInv, AccessTypes
  <2>4. AssignedMachines' \subseteq present
    <3>1. ASSUME NEW g \in granted' PROVE g[1] \in present
      <4>1. g \in granted \/ g \in r.list \X {c}
        BY <2>1
      <4> QED
        BY <2>1, <4>1 DEF AccessInv, AssignedMachines
    <3> QED
      BY <3>1 DEF AssignedMachines
  <2>5. ASSUME ~ mixed' PROVE AssignedMachines' = last'
    <3>1. granted \subseteq r.seen
      BY <1>1, <2>1, <2>5 DEF AccessInv, AloneHasSeenAll
    <3>2. granted' = r.list \X {c}
      BY <2>1, <3>1
    <3> QED
      BY <2>1, <3>2, AssignedOnce DEF AssignedMachines
  <2> QED
    BY <1>1, <1>6, <2>3, <2>4, <2>5 DEF AccessInv
<1> HIDE DEF clash
<1> QED
  BY <1>7, <1>8

LEMMA DeleteMachineKeeps ==
  ASSUME AccessInv, NEW m \in AccessMachines, DeleteMachine(m)
  PROVE  AccessInv'
<1>1. /\ present' = present \ {m} /\ owned' = owned \ {m} /\ last' = last \ {m}
      /\ granted' = {g \in granted : g[1] # m} /\ UNCHANGED <<replacements, mixed>>
  BY DEF DeleteMachine
<1>2. AccessTypes' /\ AloneHasSeenAll'
  BY <1>1 DEF AccessInv, AccessTypes, AloneHasSeenAll, InTransaction
<1>3. AssignedMachines' = AssignedMachines \ {m}
  BY <1>1 DEF AssignedMachines
<1> QED
  BY <1>1, <1>2, <1>3 DEF AccessInv

\* THEOREM.  A user may see exactly the machines they made and those of the last
\* list an administrator saved, unless two lists were saved at once, and none is
\* assigned that is deleted (lib/authorization.ts, api/admin/users/[id]/machines).
THEOREM AssignmentsAgreeHolds == AccessSpec => []AssignmentsAgree
<1>1. ASSUME AccessInv, [AccessNext]_accessVars PROVE AccessInv'
  <2>1. CASE UNCHANGED accessVars
    BY <1>1, <2>1 DEF accessVars, AccessInv, AccessTypes, AloneHasSeenAll, InTransaction, AssignedMachines
  <2> QED
    BY <1>1, <2>1, PutCheckedKeeps, PutBeginsKeeps, PutCommitsKeeps, DeleteMachineKeeps DEF AccessNext
<1>2. ASSUME AccessInv PROVE AssignmentsAgree
  <2>1. \A m : canAccessMachine(m) <=> m \in owned \cup AssignedMachines
    BY DEF canAccessMachine, AssignedMachines
  <2>2. filterMachinesByAccess(present) = present \cap (owned \cup AssignedMachines)
    BY DEF filterMachinesByAccess, AssignedMachines
  <2>3. owned \cup AssignedMachines \subseteq present /\ present \subseteq AccessMachines
    BY <1>2 DEF AccessInv, AccessTypes
  <2>4. \A g \in granted : g[1] \in present
    BY <2>3 DEF AssignedMachines
  <2> QED
    BY <1>2, <2>1, <2>2, <2>3, <2>4 DEF AssignmentsAgree, AccessInv
<1> QED
  BY <1>1, <1>2, AccessInvInit, PTL DEF AccessSpec

-----------------------------------------------------------------------------
(* MachineCopies: while one handler at a time works on a machine, its copy *)
(* is a step of that handler behind its row.                               *)

RowNotes == Notes \cup {NoNotes}
PatchRecord == {Quiet} \cup [at : {"found", "written", "done"}, of : Machines, notes : Notes]
RegisterRecord == {r \in [at : {"none", "found", "written"}, of : Machines \cup {Absent},
                          notes : RowNotes \cup {Absent}] : r.at = "written" => r.notes \in RowNotes}

CopyTypes ==
  /\ stored \in [Machines -> RowNotes \cup {Absent}] /\ memory \in [Machines -> RowNotes \cup {Absent}]
  /\ patches \in [PatchCalls -> PatchRecord]
  /\ registering \in [Machines -> RegisterRecord]
  /\ deleting \in [Machines -> {"none", "deleted"}]

Works(c, m) == patches[c].of = m /\ patches[c].at \in {"found", "written"}

OneHandler(m) ==
  /\ registering[m].at # "none" => deleting[m] = "none" /\ \A c \in PatchCalls : ~ Works(c, m)
  /\ deleting[m] # "none" => \A c \in PatchCalls : ~ Works(c, m)
  /\ \A c, d \in PatchCalls : Works(c, m) /\ Works(d, m) => c = d

CopyFollows(m) ==
  /\ registering[m].at = "none" /\ deleting[m] = "none" /\ (\A c \in PatchCalls : ~ Works(c, m)) =>
       memory[m] = stored[m]
  /\ registering[m].at = "found" => memory[m] = stored[m] /\ Present(m)
  /\ registering[m].at = "written" => stored[m] = registering[m].notes
  /\ deleting[m] # "none" => ~ Present(m)
  /\ \A c \in PatchCalls : Works(c, m) =>
       /\ memory[m] # Absent /\ Present(m)
       /\ stored[m] = IF patches[c].at = "written" THEN patches[c].notes ELSE memory[m]

CopiesInv == CopyTypes /\ \A m \in Machines \ raced : OneHandler(m) /\ CopyFollows(m)

\* A handler that joins a machine nobody raced for joins it alone.
LEMMA JoinsAlone ==
  ASSUME CopiesInv, NEW m \in Machines, Joins(m), m \notin raced'
  PROVE  /\ raced' = raced /\ registering[m].at = "none" /\ deleting[m] = "none"
         /\ \A c \in PatchCalls : ~ Works(c, m)
         /\ memory[m] = stored[m]
<1>1. ~ UnderWay(m) /\ raced' = raced
  BY DEF Joins
<1>2. \A c \in PatchCalls : ~ Works(c, m)
  BY <1>1 DEF UnderWay, Works
<1> QED
  BY <1>1, <1>2 DEF UnderWay, CopiesInv, CopyFollows

\* What is not a step of a handler of m leaves what is said of m as it is.
LEMMA OthersStay ==
  ASSUME CopiesInv, NEW m \in Machines, m \notin raced,
         stored'[m] = stored[m], memory'[m] = memory[m], deleting'[m] = deleting[m],
         registering'[m] = registering[m],
         \A c \in PatchCalls : patches'[c] = patches[c] \/ (~ Works(c, m) /\ ~ Works(c, m)')
  PROVE  OneHandler(m)' /\ CopyFollows(m)'
<1>1. ASSUME NEW c \in PatchCalls
      PROVE  (Works(c, m)' <=> Works(c, m)) /\ (Works(c, m) => patches'[c] = patches[c])
  BY <1>1 DEF Works
<1>2. OneHandler(m) /\ CopyFollows(m)
  BY DEF CopiesInv
<1>3. OneHandler(m)'
  BY <1>1, <1>2 DEF OneHandler
<1>4. CopyFollows(m)'
  BY <1>1, <1>2 DEF CopyFollows, Present
<1> QED
  BY <1>3, <1>4

LEMMA CopiesInvInit == CopiesInit => CopiesInv
<1> SUFFICES ASSUME CopiesInit PROVE CopiesInv
  OBVIOUS
<1>1. CopyTypes
  BY DEF CopiesInit, CopyTypes, PatchRecord, RegisterRecord, Quiet, RowNotes
<1>2. ASSUME NEW m \in Machines PROVE OneHandler(m) /\ CopyFollows(m)
  BY DEF CopiesInit, OneHandler, CopyFollows, Works, Quiet
<1> QED
  BY <1>1, <1>2 DEF CopiesInv

\* A step of a handler of m keeps the invariant if it keeps what is said of m.
LEMMA HandlerMoves ==
  ASSUME CopiesInv, CopyTypes', NEW m \in Machines,
         raced \subseteq raced', raced' \subseteq raced \cup {m},
         \A n \in Machines : n # m => /\ stored'[n] = stored[n] /\ memory'[n] = memory[n]
                                      /\ deleting'[n] = deleting[n] /\ registering'[n] = registering[n],
         \A c \in PatchCalls :
           patches'[c] = patches[c] \/ (patches'[c].of = m /\ (patches[c] = Quiet \/ patches[c].of = m)),
         m \notin raced' => OneHandler(m)' /\ CopyFollows(m)'
  PROVE  CopiesInv'
<1>1. ASSUME NEW n \in Machines, n \notin raced', n # m PROVE OneHandler(n)' /\ CopyFollows(n)'
  <2>1. ASSUME NEW c \in PatchCalls
        PROVE  patches'[c] = patches[c] \/ (~ Works(c, n) /\ ~ Works(c, n)')
    <3>1. patches[c] = Quiet => ~ Works(c, n)
      BY DEF Works, Quiet
    <3> QED
      BY <1>1, <3>1 DEF Works
  <2> QED
    BY <1>1, <2>1, OthersStay
<1> QED
  BY <1>1 DEF CopiesInv

LEMMA NotesFindKeeps ==
  ASSUME CopiesInv, NEW c \in PatchCalls, NEW m \in Machines, NotesFind(c, m)
  PROVE  CopiesInv'
<1>1. PICK n \in Notes : patches' = [patches EXCEPT ![c] = [at |-> "found", of |-> m, notes |-> n]]
  BY DEF NotesFind
<1>2. /\ patches[c] = Quiet /\ Present(m) /\ Joins(m)
      /\ UNCHANGED <<stored, memory, registering, deleting, created>>
  BY DEF NotesFind
<1>3. /\ patches'[c] = [at |-> "found", of |-> m, notes |-> n]
      /\ \A d \in PatchCalls : d # c => patches'[d] = patches[d]
      /\ patches' \in [PatchCalls -> PatchRecord]
  BY <1>1 DEF CopiesInv, CopyTypes, PatchRecord
<1>4. \A d \in PatchCalls : d # c => (Works(d, m)' <=> Works(d, m))
  BY <1>3 DEF Works
<1>5. ASSUME m \notin raced' PROVE OneHandler(m)' /\ CopyFollows(m)'
  <2>1. /\ raced' = raced /\ registering[m].at = "none" /\ deleting[m] = "none"
        /\ \A d \in PatchCalls : ~ Works(d, m)
        /\ memory[m] = stored[m]
    BY <1>2, <1>5, JoinsAlone
  <2>2. OneHandler(m)'
    BY <1>2, <1>4, <2>1 DEF OneHandler
  <2>3. CopyFollows(m)'
    BY <1>2, <1>3, <1>4, <2>1 DEF CopyFollows, Works, Present
  <2> QED
    BY <2>2, <2>3
<1>6. CopyTypes'
  BY <1>2, <1>3 DEF CopiesInv, CopyTypes
<1> QED
  BY <1>2, <1>3, <1>5, <1>6, HandlerMoves DEF Joins

LEMMA NotesWriteKeeps ==
  ASSUME CopiesInv, NEW c \in PatchCalls, NotesWrite(c)
  PROVE  CopiesInv'
<1>1. /\ patches[c].at = "found" /\ UNCHANGED <<memory, registering, deleting, raced, created>>
      /\ IF Present(patches[c].of)
           THEN /\ stored' = [stored EXCEPT ![patches[c].of] = patches[c].notes]
                /\ patches' = [patches EXCEPT ![c].at = "written"]
           ELSE patches' = [patches EXCEPT ![c].at = "done"] /\ UNCHANGED stored
  BY DEF NotesWrite
<1>2. PICK m \in Machines : m = patches[c].of
  BY <1>1 DEF CopiesInv, CopyTypes, PatchRecord, Quiet
<1>3. patches[c] \in [at : {"found", "written", "done"}, of : Machines, notes : Notes]
  BY <1>1 DEF CopiesInv, CopyTypes, PatchRecord, Quiet
<1>4. PICK at \in {"written", "done"} :
        /\ patches' = [patches EXCEPT ![c].at = at]
        /\ at = "written" <=> Present(m)
  BY <1>1, <1>2
<1>5. /\ patches'[c] = [patches[c] EXCEPT !.at = at]
      /\ \A d \in PatchCalls : d # c => patches'[d] = patches[d]
  BY <1>4 DEF CopiesInv, CopyTypes
<1>6. /\ patches'[c].at = at /\ patches'[c].of = m /\ patches'[c].notes = patches[c].notes
      /\ patches' \in [PatchCalls -> PatchRecord]
  BY <1>2, <1>3, <1>4, <1>5 DEF CopiesInv, CopyTypes, PatchRecord
<1>7. /\ \A n \in Machines : n # m => stored'[n] = stored[n]
      /\ stored'[m] = IF Present(m) THEN patches[c].notes ELSE stored[m]
      /\ stored' \in [Machines -> RowNotes \cup {Absent}]
  BY <1>1, <1>2, <1>3 DEF CopiesInv, CopyTypes, RowNotes
<1>8. CopyTypes'
  BY <1>1, <1>6, <1>7 DEF CopiesInv, CopyTypes
<1>9. ASSUME m \notin raced' PROVE OneHandler(m)' /\ CopyFollows(m)'
  <2>1. OneHandler(m) /\ CopyFollows(m) /\ Works(c, m)
    BY <1>1, <1>2, <1>9 DEF CopiesInv, Works
  <2>2. Present(m) /\ at = "written" /\ memory[m] # Absent /\ registering[m].at = "none" /\ deleting[m] = "none"
    BY <1>4, <2>1 DEF OneHandler, CopyFollows, CopiesInv, CopyTypes
  <2>3. \A d \in PatchCalls : Works(d, m)' <=> d = c
    BY <1>5, <1>6, <2>1, <2>2, ZenonT(60) DEF Works, OneHandler
  <2>4. stored'[m] = patches'[c].notes /\ stored'[m] # Absent
    BY <1>3, <1>6, <1>7, <2>2, CopiesAssumption DEF Absent
  <2>5. OneHandler(m)'
    BY <1>1, <2>2, <2>3 DEF OneHandler
  <2>6. CopyFollows(m)'
    BY <1>1, <1>6, <2>2, <2>3, <2>4 DEF CopyFollows, Present
  <2> QED
    BY <2>5, <2>6
<1> QED
  BY <1>1, <1>2, <1>5, <1>6, <1>7, <1>8, <1>9, HandlerMoves

LEMMA NotesRememberKeeps ==
  ASSUME CopiesInv, NEW c \in PatchCalls, NotesRemember(c)
  PROVE  CopiesInv'
<1>1. /\ patches[c].at = "written" /\ patches' = [patches EXCEPT ![c].at = "done"]
      /\ UNCHANGED <<stored, registering, deleting, raced, created>>
      /\ memory' = IF memory[patches[c].of] = Absent THEN memory
                   ELSE [memory EXCEPT ![patches[c].of] = patches[c].notes]
  BY DEF NotesRemember
<1>2. patches[c] \in [at : {"found", "written", "done"}, of : Machines, notes : Notes]
  BY <1>1 DEF CopiesInv, CopyTypes, PatchRecord, Quiet
<1>3. PICK m \in Machines : m = patches[c].of
  BY <1>2
<1>4. /\ patches'[c] = [patches[c] EXCEPT !.at = "done"]
      /\ \A d \in PatchCalls : d # c => patches'[d] = patches[d]
  BY <1>1 DEF CopiesInv, CopyTypes
<1>5. /\ patches'[c].at = "done" /\ patches'[c].of = m
      /\ patches' \in [PatchCalls -> PatchRecord]
  BY <1>1, <1>2, <1>3, <1>4 DEF CopiesInv, CopyTypes, PatchRecord
<1>6. /\ \A n \in Machines : n # m => memory'[n] = memory[n]
      /\ memory[m] # Absent => memory'[m] = patches[c].notes
      /\ memory' \in [Machines -> RowNotes \cup {Absent}]
  BY <1>1, <1>2, <1>3 DEF CopiesInv, CopyTypes, RowNotes
<1>7. CopyTypes'
  BY <1>1, <1>5, <1>6 DEF CopiesInv, CopyTypes
<1>8. ASSUME m \notin raced' PROVE OneHandler(m)' /\ CopyFollows(m)'
  <2>1. OneHandler(m) /\ CopyFollows(m) /\ Works(c, m)
    BY <1>1, <1>3, <1>8 DEF CopiesInv, Works
  <2>2. /\ registering[m].at = "none" /\ deleting[m] = "none"
        /\ memory'[m] = stored[m]
    BY <1>1, <1>6, <2>1 DEF OneHandler, CopyFollows
  <2>3. \A d \in PatchCalls : ~ Works(d, m)'
    BY <1>4, <1>5, <2>1, ZenonT(60) DEF Works, OneHandler
  <2> QED
    BY <1>1, <2>2, <2>3 DEF OneHandler, CopyFollows
<1> QED
  BY <1>1, <1>3, <1>4, <1>5, <1>6, <1>7, <1>8, HandlerMoves

LEMMA RegistersKeeps ==
  ASSUME CopiesInv, NEW m \in Machines, Registers(m) \/ Creates(m)
  PROVE  CopiesInv'
<1>1. /\ Joins(m) /\ registering[m].at = "none"
      /\ UNCHANGED <<memory, patches, deleting>>
      /\ \/ /\ Present(m) /\ registering' = [registering EXCEPT ![m].at = "found"] /\ stored' = stored
         \/ /\ memory[m] = Absent /\ stored' = [stored EXCEPT ![m] = NoNotes]
            /\ registering' = [registering EXCEPT ![m] = [at |-> "written", of |-> m, notes |-> NoNotes]]
  BY DEF Registers, Creates
<1>2. registering[m] \in RegisterRecord /\ registering \in [Machines -> RegisterRecord]
      /\ stored \in [Machines -> RowNotes \cup {Absent}]
  BY DEF CopiesInv, CopyTypes
<1>3. PICK r : /\ registering' = [registering EXCEPT ![m] = r]
               /\ \/ r = [registering[m] EXCEPT !.at = "found"] /\ Present(m) /\ stored' = stored
                  \/ r = [at |-> "written", of |-> m, notes |-> NoNotes]
                     /\ stored' = [stored EXCEPT ![m] = NoNotes]
  BY <1>1
<1>4. r \in RegisterRecord
  BY <1>2, <1>3 DEF RegisterRecord, RowNotes
<1>5. /\ registering'[m] = r /\ registering' \in [Machines -> RegisterRecord]
      /\ \A n \in Machines : n # m => registering'[n] = registering[n] /\ stored'[n] = stored[n]
      /\ stored' \in [Machines -> RowNotes \cup {Absent}]
  BY <1>2, <1>3, <1>4 DEF RowNotes
<1>6. CopyTypes'
  BY <1>1, <1>5 DEF CopiesInv, CopyTypes
<1>7. ASSUME m \notin raced' PROVE OneHandler(m)' /\ CopyFollows(m)'
  <2>1. /\ deleting[m] = "none" /\ memory[m] = stored[m]
        /\ \A d \in PatchCalls : ~ Works(d, m)
    BY <1>1, <1>7, JoinsAlone
  <2>2. \A d \in PatchCalls : ~ Works(d, m)'
    BY <1>1, <2>1 DEF Works
  <2>3. OneHandler(m)'
    BY <1>1, <2>1, <2>2 DEF OneHandler
  <2>4. \/ r.at = "found" /\ stored'[m] = stored[m] /\ Present(m)
        \/ r.at = "written" /\ stored'[m] = r.notes
    BY <1>2, <1>3 DEF RegisterRecord
  <2>5. CopyFollows(m)'
    BY <1>1, <1>5, <2>1, <2>2, <2>4 DEF CopyFollows, Present
  <2> QED
    BY <2>3, <2>5
<1> QED
  BY <1>1, <1>5, <1>6, <1>7, HandlerMoves DEF Joins

LEMMA RegistrationGoesOnKeeps ==
  ASSUME CopiesInv, NEW m \in Machines, RegistrationWrites(m) \/ RegistrationRemembers(m)
  PROVE  CopiesInv'
<1>1. /\ UNCHANGED <<stored, patches, deleting, raced>>
      /\ \/ /\ registering[m].at = "found" /\ memory' = memory
            /\ registering' = [registering EXCEPT ![m] =
                 IF Present(m) THEN [at |-> "written", of |-> m, notes |-> stored[m]] ELSE Quiet]
         \/ /\ registering[m].at = "written" /\ memory' = [memory EXCEPT ![m] = registering[m].notes]
            /\ registering' = [registering EXCEPT ![m] = Quiet]
  BY DEF RegistrationWrites, RegistrationRemembers, upsertMachine
<1>2. /\ registering[m] \in RegisterRecord /\ registering \in [Machines -> RegisterRecord]
      /\ stored \in [Machines -> RowNotes \cup {Absent}] /\ memory \in [Machines -> RowNotes \cup {Absent}]
  BY DEF CopiesInv, CopyTypes
<1>3. PICK r : /\ registering' = [registering EXCEPT ![m] = r]
               /\ \/ /\ registering[m].at = "found" /\ memory' = memory
                     /\ r = IF Present(m) THEN [at |-> "written", of |-> m, notes |-> stored[m]] ELSE Quiet
                  \/ /\ registering[m].at = "written" /\ memory' = [memory EXCEPT ![m] = registering[m].notes]
                     /\ r = Quiet
  BY <1>1
<1>4. r \in RegisterRecord
  BY <1>2, <1>3 DEF RegisterRecord, RowNotes, Quiet, Present
<1>5. registering[m].at = "written" => registering[m].notes \in RowNotes
  BY <1>2 DEF RegisterRecord
<1>6. /\ registering'[m] = r /\ registering' \in [Machines -> RegisterRecord]
      /\ memory' \in [Machines -> RowNotes \cup {Absent}]
      /\ \A n \in Machines : n # m => registering'[n] = registering[n] /\ memory'[n] = memory[n]
  BY <1>2, <1>3, <1>4, <1>5
<1>7. CopyTypes'
  BY <1>1, <1>6 DEF CopiesInv, CopyTypes
<1>8. ASSUME m \notin raced' PROVE OneHandler(m)' /\ CopyFollows(m)'
  <2>1. OneHandler(m) /\ CopyFollows(m)
    BY <1>1, <1>8 DEF CopiesInv
  <2>2. deleting[m] = "none" /\ \A d \in PatchCalls : ~ Works(d, m) /\ ~ Works(d, m)'
    BY <1>1, <2>1 DEF OneHandler, Works
  <2>3. OneHandler(m)'
    BY <1>1, <2>2 DEF OneHandler
  <2>4. CASE registering[m].at = "found"
    <3>1. Present(m) /\ memory'[m] = stored[m]
      BY <1>3, <2>1, <2>4 DEF CopyFollows
    <3>2. r.at = "written" /\ r.notes = stored[m]
      BY <1>3, <2>4, <3>1
    <3> QED
      BY <1>1, <1>6, <2>2, <2>3, <3>1, <3>2 DEF CopyFollows, Present
  <2>5. CASE registering[m].at = "written"
    <3>1. r.at = "none" /\ memory'[m] = stored[m]
      BY <1>2, <1>3, <2>1, <2>5 DEF CopyFollows, Quiet
    <3> QED
      BY <1>1, <1>6, <2>2, <2>3, <3>1 DEF CopyFollows, Present
  <2> QED
    BY <1>3, <2>4, <2>5
<1> QED
  BY <1>1, <1>6, <1>7, <1>8, HandlerMoves

LEMMA DeletionKeeps ==
  ASSUME CopiesInv, NEW m \in Machines, DeleteRow(m) \/ DeleteCopy(m)
  PROVE  CopiesInv'
<1>1. /\ UNCHANGED <<patches, registering>>
      /\ \/ /\ Joins(m) /\ stored' = [stored EXCEPT ![m] = Absent] /\ memory' = memory
            /\ deleting' = [deleting EXCEPT ![m] = "deleted"]
         \/ /\ deleting[m] = "deleted" /\ raced' = raced /\ memory' = [memory EXCEPT ![m] = Absent]
            /\ deleting' = [deleting EXCEPT ![m] = "none"] /\ stored' = stored
  BY DEF DeleteRow, DeleteCopy
<1>2. CopyTypes'
  BY <1>1 DEF CopiesInv, CopyTypes
<1>3. /\ raced \subseteq raced' /\ raced' \subseteq raced \cup {m}
      /\ \A n \in Machines : n # m => /\ stored'[n] = stored[n] /\ memory'[n] = memory[n]
                                      /\ deleting'[n] = deleting[n]
  BY <1>1 DEF Joins, CopiesInv, CopyTypes
<1>4. ASSUME m \notin raced' PROVE OneHandler(m)' /\ CopyFollows(m)'
  <2>1. CASE Joins(m) /\ stored' = [stored EXCEPT ![m] = Absent] /\ memory' = memory
             /\ deleting' = [deleting EXCEPT ![m] = "deleted"]
    <3>1. registering[m].at = "none" /\ \A d \in PatchCalls : ~ Works(d, m)
      BY <1>4, <2>1, JoinsAlone
    <3>2. \A d \in PatchCalls : ~ Works(d, m)'
      BY <1>1, <3>1 DEF Works
    <3>3. stored'[m] = Absent /\ deleting'[m] = "deleted" /\ registering'[m].at = "none"
      BY <1>1, <2>1, <3>1 DEF CopiesInv, CopyTypes
    <3> QED
      BY <3>2, <3>3 DEF OneHandler, CopyFollows, Present
  <2>2. CASE deleting[m] = "deleted" /\ raced' = raced /\ memory' = [memory EXCEPT ![m] = Absent]
             /\ deleting' = [deleting EXCEPT ![m] = "none"] /\ stored' = stored
    <3>1. OneHandler(m) /\ CopyFollows(m)
      BY <1>4, <2>2 DEF CopiesInv
    <3>2. registering[m].at = "none" /\ stored[m] = Absent /\ \A d \in PatchCalls : ~ Works(d, m)
      BY <2>2, <3>1 DEF OneHandler, CopyFollows, Present, CopiesInv, CopyTypes, RegisterRecord
    <3>3. \A d \in PatchCalls : ~ Works(d, m)'
      BY <1>1, <3>2 DEF Works
    <3>4. memory'[m] = stored'[m] /\ deleting'[m] = "none" /\ registering'[m].at = "none"
      BY <1>1, <2>2, <3>2 DEF CopiesInv, CopyTypes
    <3> QED
      BY <3>3, <3>4 DEF OneHandler, CopyFollows
  <2> QED
    BY <1>1, <2>1, <2>2
<1> QED
  BY <1>1, <1>2, <1>3, <1>4, HandlerMoves

LEMMA warmCacheKeeps ==
  ASSUME CopiesInv, warmCache
  PROVE  CopiesInv'
<1>1. /\ memory' = stored /\ UNCHANGED stored
      /\ patches' = [c \in PatchCalls |->
                       IF patches[c] = Quiet THEN Quiet ELSE [patches[c] EXCEPT !.at = "done"]]
      /\ registering' = [m \in Machines |-> Quiet] /\ deleting' = [m \in Machines |-> "none"]
  BY DEF warmCache
<1>2. Quiet \in RegisterRecord /\ Quiet \in PatchRecord /\ Quiet.at = "none"
  BY DEF Quiet, RegisterRecord, PatchRecord
<1>3. ASSUME NEW c \in PatchCalls
      PROVE  patches'[c] \in PatchRecord /\ patches'[c].at \notin {"found", "written"}
  <2>1. CASE patches[c] = Quiet
    BY <1>1, <1>2, <2>1
  <2>2. CASE patches[c] # Quiet
    <3>1. patches[c] \in [at : {"found", "written", "done"}, of : Machines, notes : Notes]
      BY <2>2 DEF CopiesInv, CopyTypes, PatchRecord
    <3>2. patches'[c] = [patches[c] EXCEPT !.at = "done"]
      BY <1>1, <2>2
    <3> QED
      BY <3>1, <3>2 DEF PatchRecord
  <2> QED
    BY <2>1, <2>2
<1>4. CopyTypes'
  BY <1>1, <1>2, <1>3 DEF CopiesInv, CopyTypes
<1>5. ASSUME NEW m \in Machines PROVE OneHandler(m)' /\ CopyFollows(m)'
  <2>1. /\ registering'[m].at = "none" /\ deleting'[m] = "none" /\ memory'[m] = stored'[m]
        /\ \A c \in PatchCalls : ~ Works(c, m)'
    BY <1>1, <1>2, <1>3 DEF Works
  <2> QED
    BY <2>1 DEF OneHandler, CopyFollows
<1> QED
  BY <1>4, <1>5 DEF CopiesInv

\* THEOREM.  When no handler is under way, the copies in memory have every
\* machine that is stored and none that is deleted, and the notes of its row,
\* unless two handlers worked on it at once (lib/state-cache.ts, api/machines,
\* connection/AgentConnectionManager.ts).
THEOREM CopiesAgreeHolds == CopiesSpec => []CopiesAgree
<1>1. ASSUME CopiesInv, [CopiesNext]_copyVars PROVE CopiesInv'
  <2>1. CASE UNCHANGED copyVars
    BY <1>1, <2>1 DEF copyVars, writers, CopiesInv, CopyTypes, OneHandler, CopyFollows, Works, Present
  <2> QED
    BY <1>1, <2>1, NotesFindKeeps, NotesWriteKeeps, NotesRememberKeeps, RegistersKeeps,
       RegistrationGoesOnKeeps, DeletionKeeps, warmCacheKeeps DEF CopiesNext
<1>2. ASSUME CopiesInv PROVE CopiesAgree
  <2>1. ASSUME NEW m \in Machines \ raced, ~ UnderWay(m)
        PROVE  Shown(m) = stored[m] /\ (Present(m) <=> m \in Listed)
    <3>1. registering[m].at = "none" /\ deleting[m] = "none" /\ \A c \in PatchCalls : ~ Works(c, m)
      BY <2>1 DEF UnderWay, Works
    <3>2. memory[m] = stored[m]
      BY <1>2, <2>1, <3>1 DEF CopiesInv, CopyFollows
    <3> QED
      BY <3>2 DEF Shown, Present, Listed
  <2> QED
    BY <2>1 DEF CopiesAgree
<1> QED
  BY <1>1, <1>2, CopiesInvInit, PTL DEF CopiesSpec

-----------------------------------------------------------------------------
(* SecretKeys: a secret is only replaced before anyone uses it.            *)

Strong(secret) == secret # NoSecret /\ secret.kind = "strong"
Places == Readers \cup Pages

\* Everybody uses the secret of the environment, or of the file where that has
\* none; there is a strong one once the first reader has it.
OneSecret ==
  /\ keys = [r \in Places |-> keys[r]]
  /\ \A r \in Places : keys[r] # NoSecret => keys[r] = Existing(env) /\ Strong(Existing(env))
  /\ phase \in {"down", "starting", "prepared", "up"}
  /\ phase = "down" => keys = Unread
  /\ phase = "starting" => \A r \in Places : r # "encryption" => keys[r] = NoSecret
  /\ phase \in {"prepared", "up"} => Strong(env)
  /\ phase = "up" => keys["agents"] # NoSecret

\* A new secret is made for the first reader, because the old one was weak.
MadeInTime ==
  writing # NotWriting =>
    /\ phase = "starting" /\ keys = Unread /\ writing.for = "encryption"
    /\ Strong(writing.secret) /\ isWeak(Existing(env))

\* What was sealed or signed is of the secret every start leads to: the strong
\* one of the environment, or that of the file.
Kept(secret) ==
  /\ env \in {NoSecret, secret}
  /\ \A s \in {sealed, signed} : s # NoSecret => s = secret /\ Strong(secret)

SecretsKept ==
  /\ Strong(given) => Kept(given) /\ (phase # "down" => env = given)
  /\ given = NoSecret => Kept(file)

SecretsInv ==
  /\ given \in Given /\ unlucky \in BOOLEAN
  /\ ~ unlucky => OneSecret /\ MadeInTime /\ SecretsKept

LEMMA SecretsInvInit == SecretsInit => SecretsInv
<1> SUFFICES ASSUME SecretsInit PROVE SecretsInv
  OBVIOUS
<1>1. OneSecret
  BY DEF SecretsInit, OneSecret, Unread, Places
<1>2. MadeInTime /\ SecretsKept
  BY DEF SecretsInit, MadeInTime, SecretsKept, Kept
<1> QED
  BY <1>1, <1>2 DEF SecretsInit, SecretsInv

LEMMA WeakOrStrong ==
  ASSUME NEW secret
  PROVE  isWeak(secret) \/ Strong(secret)
BY DEF isWeak, Strong, NoSecret

\* Who reads the secret, reads the one in use or makes one before there is one.
LEMMA ReadingKeeps ==
  ASSUME SecretsInv, (\E r \in Readers : ensureJWTSecret(r)) \/ ensureOfPages \/ getKeyAndVersion
  PROVE  SecretsInv'
<1>1. UNCHANGED <<given, env, file, phase, sealed, signed>>
  BY DEF ensureJWTSecret, ensureOfPages, getKeyAndVersion
<1>2. unlucky' \in BOOLEAN /\ (unlucky => unlucky')
  BY DEF ensureJWTSecret, ensureOfPages, getKeyAndVersion, Generate, SecretsInv
<1>3. ASSUME ~ unlucky' PROVE OneSecret' /\ MadeInTime' /\ SecretsKept'
  <2>1. OneSecret /\ MadeInTime /\ SecretsKept
    BY <1>2, <1>3 DEF SecretsInv
  <2>2. SecretsKept'
    BY <1>1, <2>1 DEF SecretsKept, Kept
  <2>3. ASSUME NEW r \in Places, MayRead(r), keys' = [keys EXCEPT ![r] = Existing(env)],
               Strong(Existing(env)), writing' = writing
        PROVE  OneSecret' /\ MadeInTime'
    <3>1. /\ keys'[r] = Existing(env) /\ keys' = [q \in Places |-> keys'[q]]
          /\ \A q \in Places : q # r => keys'[q] = keys[q]
      BY <2>1, <2>3 DEF OneSecret
    <3>2. Existing(env)' = Existing(env)
      BY <1>1 DEF Existing, Either
    <3>3. phase # "down" /\ (phase = "starting" => r = "encryption")
      BY <2>1, <2>3 DEF MayRead, OneSecret, Unread, Places, Readers, Pages
    <3>4. writing = NotWriting
      BY <2>3 DEF MayRead
    <3>5. "agents" \in Places
      BY DEF Places, Readers
    <3> QED
      BY <1>1, <2>1, <2>3, <3>1, <3>2, <3>3, <3>4, <3>5 DEF OneSecret, MadeInTime, Strong
  <2>4. CASE \E r \in Readers : ensureJWTSecret(r)
    <3>1. PICK r \in Readers : ensureJWTSecret(r)
      BY <2>4
    <3>2. MayRead(r) /\ r \in Places
      BY <3>1 DEF ensureJWTSecret, Places
    <3>3. CASE isWeak(Existing(env))
      <4>1. Generate(r) /\ UNCHANGED keys
        BY <3>1, <3>3 DEF ensureJWTSecret
      <4>2. PICK kind \in {"strong", "soft", "weak"} :
              /\ writing' = [secret |-> [id |-> generated + 3, kind |-> kind], for |-> r]
              /\ unlucky' = (unlucky \/ kind # "strong")
        BY <4>1 DEF Generate
      <4>3. kind = "strong"
        BY <1>3, <4>2
      <4>4. Strong(writing'.secret) /\ writing'.for = r
        BY <4>2, <4>3 DEF Strong, NoSecret
      <4>5. ~ Strong(Existing(env))
        BY <3>3 DEF Strong, isWeak
      <4>6. \A q \in Places : keys[q] = NoSecret
        BY <2>1, <4>5 DEF OneSecret
      <4>7. keys = Unread
        BY <2>1, <4>6 DEF OneSecret, Unread, Places
      <4>8. phase \notin {"prepared", "up"}
        BY <2>1, <4>5 DEF OneSecret, Existing, Either, Strong
      <4>9. r = "encryption" /\ phase = "starting"
        BY <2>1, <3>1, <3>2, <4>6, <4>8 DEF MayRead, OneSecret, Readers, Places
      <4>10. MadeInTime'
        BY <1>1, <3>3, <4>1, <4>4, <4>7, <4>9 DEF MadeInTime, Existing, Either, isWeak
      <4>11. OneSecret'
        BY <1>1, <2>1, <4>1 DEF OneSecret, Existing, Either, Strong
      <4> QED
        BY <2>2, <4>10, <4>11
    <3>4. CASE ~ isWeak(Existing(env))
      <4>1. keys' = [keys EXCEPT ![r] = Existing(env)] /\ writing' = writing
        BY <3>1, <3>4 DEF ensureJWTSecret
      <4> QED
        BY <2>2, <2>3, <3>2, <3>4, <4>1, WeakOrStrong
    <3> QED
      BY <3>3, <3>4
  <2>5. CASE ensureOfPages \/ getKeyAndVersion
    <3>1. PICK r \in {"auth", "edge"} : MayRead(r) /\ (r = "auth" => ensureOfPages)
                                        /\ (r = "edge" => getKeyAndVersion)
      BY <2>5 DEF ensureOfPages, getKeyAndVersion
    <3>2. r \in Places /\ phase = "up"
      BY <3>1 DEF MayRead, Places, Pages
    <3>3. Strong(env) /\ env = Existing(env) /\ ~ PageFindsWeak(env)
      BY <2>1, <3>2 DEF OneSecret, Existing, Either, Strong, PageFindsWeak
    <3>4. keys' = [keys EXCEPT ![r] = Existing(env)] /\ writing' = writing
      BY <3>1, <3>3 DEF ensureOfPages, getKeyAndVersion
    <3> QED
      BY <2>2, <2>3, <3>1, <3>2, <3>3, <3>4
  <2> QED
    BY <2>4, <2>5
<1> QED
  BY <1>1, <1>2, <1>3 DEF SecretsInv

LEMMA PersistKeeps ==
  ASSUME SecretsInv, generateAndPersist
  PROVE  SecretsInv'
<1>1. /\ writing # NotWriting /\ file' = writing.secret /\ env' = writing.secret
      /\ keys' = [keys EXCEPT ![writing.for] = writing.secret] /\ writing' = NotWriting
      /\ UNCHANGED <<given, phase, sealed, signed, generated, unlucky>>
  BY DEF generateAndPersist
<1>2. ASSUME ~ unlucky PROVE OneSecret' /\ MadeInTime' /\ SecretsKept'
  <2>1. OneSecret /\ MadeInTime /\ SecretsKept
    BY <1>2 DEF SecretsInv
  <2>2. /\ phase = "starting" /\ keys = Unread /\ writing.for = "encryption"
        /\ Strong(writing.secret) /\ isWeak(Existing(env))
    BY <1>1, <2>1 DEF MadeInTime
  <2>3. Existing(env)' = writing.secret
    BY <1>1 DEF Existing, Either
  <2>4. /\ keys'["encryption"] = writing.secret /\ keys' = [q \in Places |-> keys'[q]]
        /\ \A r \in Places : r # "encryption" => keys'[r] = NoSecret
    BY <1>1, <2>2 DEF Unread, Places, Readers
  <2>5. OneSecret'
    BY <1>1, <2>2, <2>3, <2>4 DEF OneSecret, Strong
  <2>6. ~ Strong(Existing(env))
    BY <2>2 DEF Strong, isWeak
  <2>7. ~ Strong(given)
    BY <2>1, <2>2, <2>6 DEF SecretsKept, Existing, Either, Strong
  <2>8. given = NoSecret => sealed = NoSecret /\ signed = NoSecret
    <3>1. ASSUME given = NoSecret PROVE Existing(env) = file
      BY <2>1, <3>1 DEF SecretsKept, Kept, Existing, Either
    <3> QED
      BY <2>1, <2>6, <3>1 DEF SecretsKept, Kept
  <2>9. SecretsKept'
    BY <1>1, <2>7, <2>8 DEF SecretsKept, Kept
  <2> QED
    BY <1>1, <2>5, <2>9 DEF MadeInTime
<1> QED
  BY <1>1, <1>2 DEF SecretsInv

LEMMA ProcessKeeps ==
  ASSUME SecretsInv, Start \/ prepare \/ Listens
  PROVE  SecretsInv'
<1>1. UNCHANGED <<given, file, keys, sealed, signed, writing, unlucky>>
  BY DEF Start, prepare, Listens
<1>2. ASSUME ~ unlucky PROVE OneSecret' /\ MadeInTime' /\ SecretsKept'
  <2>1. OneSecret /\ MadeInTime /\ SecretsKept
    BY <1>2 DEF SecretsInv
  <2>2. CASE Start
    <3>1. phase = "down" /\ phase' = "starting" /\ env' \in {given, Either(given, file)}
      BY <2>2 DEF Start
    <3>2. keys = Unread /\ writing = NotWriting
      BY <2>1, <3>1 DEF OneSecret, MadeInTime
    <3>3. \A r \in Places : keys[r] = NoSecret
      BY <3>2 DEF Unread, Places
    <3>4. OneSecret' /\ MadeInTime'
      BY <1>1, <2>1, <3>1, <3>2, <3>3 DEF OneSecret, MadeInTime
    <3>5. SecretsKept'
      BY <1>1, <2>1, <3>1 DEF SecretsKept, Kept, Either, Strong
    <3> QED
      BY <3>4, <3>5
  <2>3. CASE prepare
    <3>1. /\ phase = "starting" /\ keys["encryption"] # NoSecret /\ phase' = "prepared"
          /\ env' = Either(env, file) /\ "encryption" \in Places
      BY <2>3 DEF prepare, Places, Readers
    <3>2. Strong(Existing(env)) /\ env' = Existing(env) /\ Existing(env)' = Existing(env)
      BY <1>1, <2>1, <3>1 DEF OneSecret, Existing, Either
    <3>3. writing = NotWriting
      <4>1. Unread["encryption"] = NoSecret
        BY <3>1 DEF Unread, Places
      <4> QED
        BY <2>1, <3>1, <4>1 DEF MadeInTime
    <3>4. OneSecret' /\ MadeInTime'
      BY <1>1, <2>1, <3>1, <3>2, <3>3 DEF OneSecret, MadeInTime, Strong
    <3>5. SecretsKept'
      BY <1>1, <2>1, <3>1, <3>2 DEF SecretsKept, Kept, Existing, Either, Strong
    <3> QED
      BY <3>4, <3>5
  <2>4. CASE Listens
    <3>1. phase = "prepared" /\ keys["agents"] # NoSecret /\ phase' = "up" /\ env' = env
      BY <2>4 DEF Listens
    <3>2. Existing(env)' = Existing(env) /\ writing = NotWriting
      BY <1>1, <2>1, <3>1 DEF Existing, Either, MadeInTime
    <3>3. OneSecret' /\ MadeInTime'
      BY <1>1, <2>1, <3>1, <3>2 DEF OneSecret, MadeInTime, Strong
    <3>4. SecretsKept'
      BY <1>1, <2>1, <3>1 DEF SecretsKept, Kept
    <3> QED
      BY <3>3, <3>4
  <2> QED
    BY <2>2, <2>3, <2>4
<1> QED
  BY <1>1, <1>2 DEF SecretsInv

LEMMA StopsKeeps ==
  ASSUME SecretsInv, Stops
  PROVE  SecretsInv'
<1>1. /\ phase' = "down" /\ env' = NoSecret /\ keys' = Unread /\ writing' = NotWriting
      /\ file' \in IF writing = NotWriting THEN {file} ELSE {file, NoSecret, writing.secret}
      /\ UNCHANGED <<given, sealed, signed, unlucky>>
  BY DEF Stops
<1>2. ASSUME ~ unlucky PROVE OneSecret' /\ MadeInTime' /\ SecretsKept'
  <2>1. OneSecret /\ MadeInTime /\ SecretsKept
    BY <1>2 DEF SecretsInv
  <2>2. OneSecret' /\ MadeInTime'
    BY <1>1 DEF OneSecret, MadeInTime, Unread, Places
  <2>3. given = NoSecret /\ writing # NotWriting => sealed = NoSecret /\ signed = NoSecret
    <3>1. ASSUME given = NoSecret, writing # NotWriting PROVE isWeak(file)
      BY <2>1, <3>1 DEF MadeInTime, SecretsKept, Kept, Existing, Either
    <3> QED
      BY <2>1, <3>1 DEF SecretsKept, Kept, Strong, isWeak
  <2>4. SecretsKept'
    BY <1>1, <2>1, <2>3 DEF SecretsKept, Kept
  <2> QED
    BY <2>2, <2>4
<1> QED
  BY <1>1, <1>2 DEF SecretsInv

\* Registration and login seal and sign with the key that is in use.
LEMMA UseKeeps ==
  ASSUME SecretsInv, AgentRegisters \/ SignsIn
  PROVE  SecretsInv'
<1>1. /\ phase = "up" /\ UNCHANGED <<given, env, file, phase, keys, writing, unlucky>>
      /\ \E r \in {"agents", "auth"} :
           /\ keys[r] # NoSecret \/ r = "agents"
           /\ sealed' \in {sealed, keys[r]} /\ signed' \in {signed, keys[r]}
  BY DEF AgentRegisters, SignsIn
<1>2. ASSUME ~ unlucky PROVE OneSecret' /\ MadeInTime' /\ SecretsKept'
  <2>1. OneSecret /\ MadeInTime /\ SecretsKept
    BY <1>2 DEF SecretsInv
  <2>2. OneSecret' /\ MadeInTime'
    BY <1>1, <2>1 DEF OneSecret, MadeInTime, Existing, Either, Strong, isWeak
  <2>3. PICK r \in {"agents", "auth"} : sealed' \in {sealed, keys[r]} /\ signed' \in {signed, keys[r]}
                                        /\ keys[r] # NoSecret
    BY <1>1, <2>1 DEF OneSecret
  <2>4. r \in Places /\ Strong(env) /\ keys[r] = env
    BY <1>1, <2>1, <2>3 DEF OneSecret, Places, Readers, Pages, Existing, Either, Strong
  <2>5. (Strong(given) => env = given) /\ (given = NoSecret => env = file)
    BY <1>1, <2>1, <2>4 DEF SecretsKept, Kept, Strong
  <2>6. SecretsKept'
    BY <1>1, <2>1, <2>3, <2>4, <2>5 DEF SecretsKept, Kept
  <2> QED
    BY <2>2, <2>6
<1> QED
  BY <1>1, <1>2 DEF SecretsInv

\* THEOREM.  Whoever reads the secret of the server reads the same one, and what
\* was encrypted or signed with it can still be read after any number of
\* restarts and crashes, but for what SecretsStayReadable excepts
\* (infrastructure/crypto, infrastructure/auth, lib/auth.ts, lib/auth-edge.ts).
THEOREM SecretsStayReadableHolds == SecretsSpec => []SecretsStayReadable
<1>1. ASSUME SecretsInv, [SecretsNext]_secretVars PROVE SecretsInv'
  <2>1. CASE UNCHANGED secretVars
    BY <1>1, <2>1 DEF secretVars, SecretsInv, OneSecret, MadeInTime, SecretsKept, Kept, Existing, Either
  <2> QED
    BY <1>1, <2>1, ReadingKeeps, PersistKeeps, ProcessKeeps, StopsKeeps, UseKeeps DEF SecretsNext
<1>2. ASSUME SecretsInv PROVE SecretsStayReadable
  <2>1. SUFFICES ASSUME ~ unlucky
                 PROVE  LET inUse == {keys[r] : r \in Readers \cup Pages} \ {NoSecret}
                        IN  /\ \A a, b \in inUse : a = b
                            /\ ~ (isWeak(given) /\ given # NoSecret) =>
                                 \A a \in inUse : sealed \in {NoSecret, a} /\ signed \in {NoSecret, a}
    BY DEF SecretsStayReadable
  <2>2. OneSecret /\ SecretsKept
    BY <1>2, <2>1 DEF SecretsInv
  <2> DEFINE inUse == {keys[r] : r \in Readers \cup Pages} \ {NoSecret}
  <2>3. \A a \in inUse : a = Existing(env) /\ Strong(Existing(env))
    BY <2>2 DEF OneSecret, Places
  <2>4. ASSUME NEW a \in inUse, ~ (isWeak(given) /\ given # NoSecret)
        PROVE  sealed \in {NoSecret, a} /\ signed \in {NoSecret, a}
    <3>1. a = Existing(env) /\ (Strong(given) \/ given = NoSecret)
      BY <2>3, <2>4, WeakOrStrong
    <3>2. CASE Strong(given)
      <4>1. phase # "down"
        <5>1. \A r \in Readers \cup Pages : Unread[r] = NoSecret
          BY DEF Unread
        <5>2. PICK r \in Readers \cup Pages : keys[r] = a /\ a # NoSecret
          OBVIOUS
        <5> QED
          BY <2>2, <5>1, <5>2 DEF OneSecret
      <4>2. a = given
        BY <2>2, <3>1, <3>2, <4>1 DEF SecretsKept, Existing, Either, Strong
      <4> QED
        BY <2>2, <3>2, <4>2 DEF SecretsKept, Kept
    <3>3. CASE given = NoSecret
      <4>1. a = file
        BY <2>2, <3>1, <3>3 DEF SecretsKept, Kept, Existing, Either
      <4> QED
        BY <2>2, <3>3, <4>1 DEF SecretsKept, Kept
    <3> QED
      BY <3>1, <3>2, <3>3
  <2> QED
    BY <2>3, <2>4
<1> QED
  BY <1>1, <1>2, SecretsInvInit, PTL DEF SecretsSpec


-----------------------------------------------------------------------------
(* UsersPage: the administrator's list of users.                           *)

PageRoles == {"none", "removed", "user", "admin"}
Accounts == [role : PageRoles, active : BOOLEAN, password : Nat, machines : SUBSET PageMachines]
Names == PageUsers \cup {"nobody"}

\* Requests that change what is listed, those that set a password, and the list.
Changing == {"toggle", "create", "edit", "machines", "delete"}
Purposes == {"nothing", "list", "access", "reset"} \cup Changing
UserRequest == [for : Purposes, at : {"idle", "asked", "served", "refused", "saved"}, user : Names,
                mount : Nat, role : PageRoles, active : BOOLEAN, machines : SUBSET PageMachines,
                password : Nat, list : [PageUsers -> Accounts], read : Nat]

PageTypes ==
  /\ accounts \in [PageUsers -> Accounts] /\ listed \in [PageUsers -> Accounts]
  /\ accountChanges \in Nat /\ seen \in Nat /\ userClicks \in Nat
  /\ dialog \in [kind : {"none", "create", "edit", "machines", "reset", "delete"}, user : Names,
                 mount : Nat, entry : Accounts, machines : SUBSET PageMachines, loaded : BOOLEAN]
  /\ shownPassword \in [user : Names, password : Nat]
  /\ userRequests \in [UserRequests -> UserRequest]

\* Only machines are shown as saved, and assignments are asked of a user.
Sensible ==
  \A r \in UserRequests : /\ userRequests[r].at = "saved" => userRequests[r].for = "machines"
                          /\ userRequests[r].for = "access" => userRequests[r].user \in PageUsers

\* Passwords: the one that is shown is settled, and it is the last one; one
\* that was set but is not shown yet is the one of the account.
Settles(r) == userRequests[r].for \in {"create", "reset"}

OneChangeAtATime ==
  \A r, q \in UserRequests : Settles(r) /\ Settles(q) /\ r # q /\ userRequests[r].user = userRequests[q].user
    => userRequests[r].user \in again

SetIsTheLast ==
  \A r \in UserRequests : Settles(r) /\ userRequests[r].at = "served"
                          /\ userRequests[r].user \notin again /\ There(userRequests[r].user)
    => accounts[userRequests[r].user].password = userRequests[r].password

ShownIsTheLast ==
  LET u == shownPassword.user
  IN  u \in PageUsers /\ u \notin again =>
        /\ \A r \in UserRequests : Settles(r) => userRequests[r].user # u
        /\ There(u) => accounts[u].password = shownPassword.password

\* Lists: a change that was made is followed by a request for the list; if
\* there is none, the newest list that was read is still to come, or was shown.
Brings(r) ==
  \/ userRequests[r].for \in Changing /\ userRequests[r].at \in {"served", "saved"}
  \/ userRequests[r].for = "list" /\ userRequests[r].at = "asked"
Brought(r) == userRequests[r].for = "list" /\ userRequests[r].at = "served"

\* The newest of all lists read has number n, and it is what the server has.
NewestIs(n) ==
  \A q \in UserRequests : Brought(q) =>
    /\ userRequests[q].read <= n
    /\ userRequests[q].read = n => userRequests[q].list = Listing

ListsAreTrue ==
  /\ seen <= accountChanges
  /\ NewestIs(accountChanges)

ListIsOnItsWay ==
  \/ lost \/ \E r \in UserRequests : Brings(r)
  \/ \E r \in UserRequests : /\ Brought(r) /\ seen <= userRequests[r].read
                             /\ userRequests[r].list = Listing /\ NewestIs(userRequests[r].read)
  \/ NewestIs(seen) /\ (old \/ listed = Listing)

UsersInv ==
  /\ PageTypes /\ Sensible /\ OneChangeAtATime /\ SetIsTheLast /\ ShownIsTheLast /\ ListsAreTrue /\ ListIsOnItsWay


\* The values that stand for nothing.
LEMMA NothingIsTyped ==
  /\ NoAccount \in Accounts /\ DeletedAccount \in Accounts /\ Unasked \in UserRequest
  /\ NoDialog \in [kind : {"none", "create", "edit", "machines", "reset", "delete"}, user : Names,
                   mount : Nat, entry : Accounts, machines : SUBSET PageMachines, loaded : BOOLEAN]
  /\ NoPassword \in [user : Names, password : Nat]
<1>1. NoAccount \in Accounts
  BY DEF NoAccount, Accounts, PageRoles
<1>2. DeletedAccount \in Accounts
  BY DEF DeletedAccount, NoAccount, Accounts, PageRoles
<1>3. Unasked \in UserRequest
  BY <1>1 DEF Unasked, UserRequest, Purposes, Names, PageRoles
<1>4. NoDialog \in [kind : {"none", "create", "edit", "machines", "reset", "delete"}, user : Names,
                    mount : Nat, entry : Accounts, machines : SUBSET PageMachines, loaded : BOOLEAN]
  BY <1>1 DEF NoDialog, Names
<1> QED
  BY <1>1, <1>2, <1>3, <1>4 DEF NoPassword, Names

\* What the server lists are accounts.
LEMMA ListingTyped ==
  ASSUME PageTypes
  PROVE  Listing \in [PageUsers -> Accounts]
<1>1. ASSUME NEW u \in PageUsers PROVE [accounts[u] EXCEPT !.password = 0] \in Accounts
  BY DEF PageTypes, Accounts
<1> QED
  BY <1>1, NothingIsTyped DEF Listing

\* A request that is put in the place of another one.
LEMMA RequestTyped ==
  ASSUME PageTypes, NEW r \in UserRequests, NEW request \in UserRequest,
         userRequests' = [userRequests EXCEPT ![r] = request]
  PROVE  /\ userRequests' \in [UserRequests -> UserRequest]
         /\ userRequests'[r] = request
         /\ \A q \in UserRequests : q # r => userRequests'[q] = userRequests[q]
BY DEF PageTypes

\* What the administrator asks for.
LEMMA AskedFor ==
  ASSUME PageTypes, NEW r \in UserRequests, NEW request \in UserRequest, Request(r, request)
  PROVE  /\ userRequests[r].for = "nothing"
         /\ userRequests'[r] = [request EXCEPT !.at = "asked"]
         /\ userRequests'[r].for = request.for /\ userRequests'[r].at = "asked"
         /\ userRequests'[r].user = request.user
         /\ \A q \in UserRequests : q # r => userRequests'[q] = userRequests[q]
         /\ UNCHANGED <<accounts, accountChanges, listed, loading, dialog, shownPassword, seen, old, lost>>
         /\ again \subseteq again'
         /\ SettlesPassword(request) =>
              \A q \in UserRequests : Settles(q) /\ userRequests[q].user = request.user => request.user \in again'
         /\ PageTypes'
<1>1. [request EXCEPT !.at = "asked"] \in UserRequest
  BY DEF UserRequest
<1>2. userRequests' = [userRequests EXCEPT ![r] = [request EXCEPT !.at = "asked"]]
  BY DEF Request, Sends
<1>3. /\ userRequests' \in [UserRequests -> UserRequest]
      /\ userRequests'[r] = [request EXCEPT !.at = "asked"]
      /\ \A q \in UserRequests : q # r => userRequests'[q] = userRequests[q]
  BY <1>1, <1>2, RequestTyped
<1>4. userRequests'[r].for = request.for /\ userRequests'[r].at = "asked" /\ userRequests'[r].user = request.user
  BY <1>3 DEF UserRequest
<1>5. /\ userRequests[r].for = "nothing" /\ userClicks' = userClicks + 1
      /\ UNCHANGED <<accounts, accountChanges, listed, loading, dialog, shownPassword, seen, old, lost>>
  BY DEF Request, Sends, Presses, pageSide
<1>6. /\ again \subseteq again'
      /\ SettlesPassword(request) =>
           \A q \in UserRequests : Settles(q) /\ userRequests[q].user = request.user => request.user \in again'
  BY DEF Request, Settles, SettlesPassword
<1>7. PageTypes'
  BY <1>3, <1>5 DEF PageTypes
<1> QED
  BY <1>3, <1>4, <1>5, <1>6, <1>7

\* The requests the page sends: the dialog says for whom.
LEMMA FormsTyped ==
  ASSUME PageTypes, NEW for \in Purposes
  PROVE  /\ FromDialog(for) \in UserRequest
         /\ FromDialog(for).for = for /\ FromDialog(for).user = dialog.user
         /\ FromDialog(for).list = Unasked.list
BY NothingIsTyped DEF PageTypes, FromDialog, UserRequest, Unasked

-----------------------------------------------------------------------------
(* What the steps have in common.                                          *)

OthersKept(r) == \A q \in UserRequests : q # r => userRequests'[q] = userRequests[q]

\* A request is sent; one that settles a password only while none is shown.
IsAsked(r) ==
  /\ userRequests[r].for = "nothing" /\ userRequests'[r].at = "asked"
  /\ userRequests'[r].for \in Purposes \ {"list", "nothing"}
  /\ userRequests'[r].for = "access" => userRequests'[r].user \in PageUsers
  /\ OthersKept(r)
  /\ UNCHANGED <<accounts, accountChanges, listed, shownPassword, seen, old, lost>>
  /\ again \subseteq again'
  /\ Settles(r)' => /\ shownPassword = NoPassword
                    /\ \A q \in UserRequests :
                         Settles(q) /\ userRequests[q].user = userRequests'[r].user
                           => userRequests[q].user \in again'
  /\ PageTypes'

\* A dialog is confirmed only while no password is shown.
LEMMA AsksFromDialog ==
  ASSUME PageTypes, NEW r \in UserRequests,
         NEW for \in Changing \cup {"reset"}, NEW request \in UserRequest,
         request.for = for, Confirmed(for), Request(r, request)
  PROVE  IsAsked(r)
<1>1. shownPassword = NoPassword
  BY DEF Confirmed, PasswordDialog
<1>2. for \in Purposes \ {"list", "nothing"}
  BY DEF Purposes, Changing
<1>3. Settles(r)' => SettlesPassword(request)
  BY AskedFor DEF Settles, SettlesPassword
<1>4. ASSUME Settles(r)', NEW q \in UserRequests, Settles(q),
             userRequests[q].user = userRequests'[r].user
      PROVE  userRequests[q].user \in again'
  <2>1. SettlesPassword(request)
    BY <1>3, <1>4
  <2>2. userRequests'[r].user = request.user
    BY AskedFor
  <2>3. Settles(q) /\ userRequests[q].user = request.user => request.user \in again'
    BY <2>1, AskedFor
  <2> QED
    BY <1>4, <2>2, <2>3
<1>5. /\ userRequests[r].for = "nothing" /\ userRequests'[r].at = "asked"
      /\ userRequests'[r].for \in Purposes \ {"list", "nothing"} /\ userRequests'[r].for # "access"
  BY <1>2, AskedFor DEF Changing
<1>6. /\ OthersKept(r) /\ again \subseteq again' /\ PageTypes'
      /\ UNCHANGED <<accounts, accountChanges, listed, shownPassword, seen, old, lost>>
  BY AskedFor DEF OthersKept
<1> QED
  BY <1>1, <1>4, <1>5, <1>6 DEF IsAsked

\* The steps that send a request.
LEMMA SendingSteps ==
  ASSUME PageTypes, NEW r \in UserRequests,
         \/ \E u \in PageUsers : \/ OpenMachines(r, u) \/ handleToggleActive(r, u)
                                 \/ handleCreate(r, u) \/ handleDelete(r, u)
         \/ \E role \in {"user", "admin"} : saveRole(r, role)
         \/ saveMachines(r) \/ handleReset(r)
  PROVE  IsAsked(r)
<1>1. ASSUME NEW u \in PageUsers, OpenMachines(r, u) PROVE IsAsked(r)
  <2> DEFINE request == [Unasked EXCEPT !.for = "access", !.at = "asked", !.user = u,
                                        !.mount = userClicks + 1]
  <2>0. userClicks + 1 \in Nat /\ u \in Names /\ "access" \in Purposes
    BY DEF PageTypes, Purposes, Names
  <2>1. request \in UserRequest
    BY <2>0, NothingIsTyped DEF UserRequest
  <2>2. userRequests[r].for = "nothing" /\ userRequests' = [userRequests EXCEPT ![r] = request]
    BY <1>1 DEF OpenMachines, Sends
  <2>3. /\ userRequests' \in [UserRequests -> UserRequest] /\ userRequests'[r] = request
        /\ OthersKept(r)
    BY <2>1, <2>2, RequestTyped DEF OthersKept
  <2>4. request.for = "access" /\ request.at = "asked" /\ request.user = u
    BY NothingIsTyped DEF UserRequest
  <2>5. /\ UNCHANGED <<accounts, accountChanges, listed, loading, shownPassword, seen, old, lost, again>>
        /\ userClicks' = userClicks + 1
        /\ dialog' = [NoDialog EXCEPT !.kind = "machines", !.user = u, !.mount = userClicks + 1,
                                      !.entry = IF u = "nobody" THEN NoAccount ELSE listed[u]]
    BY <1>1 DEF OpenMachines, Open, Presses, pageHistory
  <2>6. dialog' \in [kind : {"none", "create", "edit", "machines", "reset", "delete"}, user : Names,
                     mount : Nat, entry : Accounts, machines : SUBSET PageMachines, loaded : BOOLEAN]
    <3>1. (IF u = "nobody" THEN NoAccount ELSE listed[u]) \in Accounts
      BY NothingIsTyped DEF PageTypes
    <3> QED
      BY <2>0, <2>5, <3>1, NothingIsTyped
  <2>7. PageTypes'
    BY <2>3, <2>5, <2>6 DEF PageTypes
  <2> HIDE DEF request
  <2>8. ~Settles(r)' /\ "access" \in Purposes \ {"list", "nothing"}
    BY <2>3, <2>4 DEF Settles, Purposes
  <2> QED
    BY <2>2, <2>3, <2>4, <2>5, <2>7, <2>8 DEF IsAsked
<1>2. ASSUME NEW u \in PageUsers, handleToggleActive(r, u) PROVE IsAsked(r)
  <2> DEFINE request == [Unasked EXCEPT !.for = "toggle", !.user = u, !.active = ~listed[u].active]
  <2>1. request \in UserRequest
    BY NothingIsTyped DEF UserRequest, Purposes, Changing, Names
  <2>2. request.for = "toggle"
    BY NothingIsTyped DEF UserRequest
  <2>3. Request(r, request)
    BY <1>2 DEF handleToggleActive
  <2> HIDE DEF request
  <2>4. ~Settles(r)' /\ userRequests'[r].for # "access" /\ "toggle" \in Purposes \ {"list", "nothing"}
    BY <2>1, <2>2, <2>3, AskedFor DEF Settles, Purposes, Changing
  <2>5. /\ userRequests[r].for = "nothing" /\ userRequests'[r].at = "asked"
        /\ userRequests'[r].for = "toggle"
        /\ OthersKept(r) /\ again \subseteq again' /\ PageTypes'
        /\ UNCHANGED <<accounts, accountChanges, listed, shownPassword, seen, old, lost>>
    BY <2>1, <2>2, <2>3, AskedFor DEF OthersKept
  <2> QED
    BY <2>4, <2>5 DEF IsAsked
<1>3. ASSUME NEW u \in PageUsers, handleCreate(r, u) PROVE IsAsked(r)
  <2> DEFINE request == [FromDialog("create") EXCEPT !.user = u]
  <2>1. request \in UserRequest /\ request.for = "create"
    BY FormsTyped DEF UserRequest, Purposes, Changing, Names
  <2>2. Request(r, request) /\ Confirmed("create")
    BY <1>3 DEF handleCreate, CreateForm
  <2> HIDE DEF request
  <2> QED
    BY <2>1, <2>2, AsksFromDialog DEF Changing
<1>4. ASSUME NEW name \in PageUsers, handleDelete(r, name) PROVE IsAsked(r)
  BY <1>4, FormsTyped, AsksFromDialog DEF handleDelete, DeleteForm, Purposes, Changing
<1>5. ASSUME NEW role \in {"user", "admin"}, saveRole(r, role) PROVE IsAsked(r)
  <2> DEFINE request == [FromDialog("edit") EXCEPT !.role = role]
  <2>1. request \in UserRequest /\ request.for = "edit"
    BY FormsTyped DEF UserRequest, Purposes, Changing, PageRoles
  <2>2. Request(r, request) /\ Confirmed("edit")
    BY <1>5 DEF saveRole, EditForm
  <2> HIDE DEF request
  <2> QED
    BY <2>1, <2>2, AsksFromDialog DEF Changing
<1>6. ASSUME saveMachines(r) PROVE IsAsked(r)
  <2> DEFINE request == [FromDialog("machines") EXCEPT !.machines = dialog.machines]
  <2>0. dialog.machines \in SUBSET PageMachines /\ "machines" \in Purposes
    BY DEF PageTypes, Purposes, Changing
  <2>1. request \in UserRequest /\ request.for = "machines"
    BY <2>0, FormsTyped DEF UserRequest
  <2>2. Request(r, request) /\ Confirmed("machines")
    BY <1>6 DEF saveMachines, MachineForm
  <2> HIDE DEF request
  <2> QED
    BY <2>1, <2>2, AsksFromDialog DEF Changing
<1>7. ASSUME handleReset(r) PROVE IsAsked(r)
  BY <1>7, FormsTyped, AsksFromDialog DEF handleReset, ResetForm, Purposes
<1> QED
  BY <1>1, <1>2, <1>3, <1>4, <1>5, <1>6, <1>7

\* A change is made, to the account of the request.
IsServed(r, u) ==
  /\ userRequests[r].user = u
  /\ userRequests[r].at = "asked" /\ userRequests[r].for \in Changing \cup {"reset"}
  /\ userRequests'[r].for = userRequests[r].for /\ userRequests'[r].at = "served"
  /\ userRequests'[r].user = u
  /\ OthersKept(r)
  /\ \A v \in PageUsers : v # u => accounts'[v] = accounts[v]
  /\ Settles(r) /\ There(u)' => accounts'[u].password = userRequests'[r].password
  /\ ~Settles(r) /\ There(u)' => There(u) /\ accounts'[u].password = accounts[u].password
  /\ userRequests[r].for = "reset" => Listing' = Listing
  /\ accountChanges' = accountChanges + 1
  /\ UNCHANGED <<listed, shownPassword, seen, old, lost, again>>
  /\ PageTypes'

\* What is written is in the account, and its password in the answer.
LEMMA AccountWritten ==
  ASSUME PageTypes, NEW r \in UserRequests, NEW account \in Accounts, Writes(r, account)
  PROVE  /\ userRequests'[r].for = userRequests[r].for /\ userRequests'[r].at = "served"
         /\ userRequests'[r].user = userRequests[r].user
         /\ userRequests'[r].password = account.password
         /\ OthersKept(r)
         /\ \A v \in PageUsers : accounts'[v] = IF v = userRequests[r].user THEN account ELSE accounts[v]
         /\ accountChanges' = accountChanges + 1
         /\ UNCHANGED <<listed, shownPassword, seen, old, lost, again>>
         /\ PageTypes'
<1> DEFINE answer == [userRequests[r] EXCEPT !.at = "served", !.password = account.password]
<1>1. userRequests' = [userRequests EXCEPT ![r] = answer]
  BY DEF Writes
<1>2. userRequests[r] \in UserRequest /\ account.password \in Nat
  BY DEF PageTypes, Accounts
<1>3. answer \in UserRequest /\ answer.for = userRequests[r].for /\ answer.at = "served"
      /\ answer.user = userRequests[r].user /\ answer.password = account.password
  BY <1>2 DEF UserRequest
<1> HIDE DEF answer
<1>4. userRequests' \in [UserRequests -> UserRequest] /\ userRequests'[r] = answer /\ OthersKept(r)
  BY <1>1, <1>3, RequestTyped DEF OthersKept
<1>5. /\ accounts' = [accounts EXCEPT ![userRequests[r].user] = account]
      /\ accountChanges' = accountChanges + 1
      /\ UNCHANGED <<listed, loading, dialog, shownPassword, userClicks, seen, old, lost, again>>
  BY DEF Writes, Target, AtServer, pageSide
<1>6. /\ accounts' \in [PageUsers -> Accounts]
      /\ \A v \in PageUsers : accounts'[v] = IF v = userRequests[r].user THEN account ELSE accounts[v]
  BY <1>5 DEF PageTypes
<1>7. PageTypes'
  BY <1>4, <1>5, <1>6 DEF PageTypes
<1> QED
  BY <1>3, <1>4, <1>5, <1>6, <1>7

\* Nothing of an account but the password changes, and the list says the same.
LEMMA SameButPassword ==
  ASSUME PageTypes, NEW u \in PageUsers, There(u), accountChanges \in Nat,
         accounts' \in [PageUsers -> Accounts],
         accounts'[u] = [accounts[u] EXCEPT !.password = accountChanges + 1],
         \A v \in PageUsers : v # u => accounts'[v] = accounts[v]
  PROVE  Listing' = Listing
<1>1. accounts'[u].password = accountChanges + 1 /\ accountChanges + 1 # 0
  BY DEF PageTypes, Accounts
<1>2. There(u)'
  BY <1>1 DEF There, NoAccount, DeletedAccount
<1>3. [accounts'[u] EXCEPT !.password = 0] = [accounts[u] EXCEPT !.password = 0]
  BY DEF PageTypes, Accounts
<1>4. \A v \in PageUsers : v # u => (There(v)' <=> There(v))
  BY DEF There
<1>5. ASSUME NEW v \in PageUsers PROVE Listing'[v] = Listing[v]
  BY <1>2, <1>3, <1>4 DEF Listing
<1>6. Listing \in [PageUsers -> Accounts] /\ Listing = [v \in PageUsers |-> Listing[v]]
  BY ListingTyped
<1>7. Listing' = [v \in PageUsers |-> Listing'[v]]
  BY DEF Listing
<1> QED
  BY <1>5, <1>6, <1>7

\* The steps of the server that change an account, or refuse to.
LEMMA ServingSteps ==
  ASSUME PageTypes, NEW r \in UserRequests, NEW u \in Names, userRequests[r].user = u,
         CreatesAccount(r) \/ Patches(r) \/ ReplacesMachines(r) \/ ResetsPassword(r) \/ Deletes(r)
  PROVE  \/ IsServed(r, u)
         \/ Refuses(r, Changing \cup {"reset"})
<1>0. /\ userRequests[r] \in UserRequest /\ accountChanges + 1 \in Nat
      /\ There(u) => u \in PageUsers /\ accounts[u] \in Accounts
  BY DEF PageTypes, There
<1>1. ASSUME NEW account \in Accounts, NEW for \in Changing \cup {"reset"}, Serves(r, {for}),
             Writes(r, account),
             for \in {"create", "reset"} \/ (There(u) /\ account.password = accounts[u].password)
                                         \/ account = DeletedAccount,
             for = "reset" => Listing' = Listing
      PROVE  IsServed(r, u)
  <2>1. Settles(r) <=> for \in {"create", "reset"}
    BY <1>1 DEF Serves, Settles
  <2>2. There(u)' => u \in PageUsers /\ accounts'[u] = account /\ account # DeletedAccount
    BY <1>1, AccountWritten DEF There
  <2>3. userRequests[r].at = "asked" /\ userRequests[r].for = for
    BY <1>1 DEF Serves
  <2>4. Settles(r) /\ There(u)' => accounts'[u].password = userRequests'[r].password
    BY <1>1, <2>2, AccountWritten
  <2>5. ~Settles(r) /\ There(u)' => There(u) /\ accounts'[u].password = accounts[u].password
    BY <1>1, <2>1, <2>2
  <2>6. \A v \in PageUsers : v # u => accounts'[v] = accounts[v]
    BY <1>1, AccountWritten
  <2>7. /\ userRequests'[r].for = for /\ userRequests'[r].at = "served" /\ userRequests'[r].user = u
        /\ OthersKept(r) /\ accountChanges' = accountChanges + 1 /\ PageTypes'
        /\ UNCHANGED <<listed, shownPassword, seen, old, lost, again>>
    BY <1>1, <2>3, AccountWritten
  <2> QED
    BY <1>1, <2>3, <2>4, <2>5, <2>6, <2>7 DEF IsServed
<1>2. ASSUME NEW kinds, Refuses(r, kinds), kinds \subseteq Changing \cup {"reset"}
      PROVE  Refuses(r, Changing \cup {"reset"})
  BY <1>2 DEF Refuses, Serves
<1>3. CASE CreatesAccount(r)
  <2> DEFINE account == [NoAccount EXCEPT !.role = "user", !.active = TRUE, !.password = accountChanges + 1]
  <2>1. account \in Accounts
    BY <1>0, NothingIsTyped DEF Accounts, PageRoles
  <2>2. \/ Refuses(r, {"create"})
        \/ Serves(r, {"create"}) /\ Writes(r, account)
    BY <1>3 DEF CreatesAccount
  <2> HIDE DEF account
  <2> QED
    BY <1>1, <1>2, <2>1, <2>2 DEF Changing
<1>4. CASE Patches(r)
  <2> DEFINE toggled == [accounts[u] EXCEPT !.active = userRequests[r].active]
             edited == [accounts[u] EXCEPT !.role = userRequests[r].role]
  <2>1. \/ Refuses(r, {"toggle", "edit"})
        \/ There(u) /\ Serves(r, {"toggle"}) /\ Writes(r, toggled)
        \/ There(u) /\ Serves(r, {"edit"}) /\ Writes(r, edited)
    BY <1>4 DEF Patches, Target
  <2>2. There(u) => /\ toggled \in Accounts /\ toggled.password = accounts[u].password
                    /\ edited \in Accounts /\ edited.password = accounts[u].password
    BY <1>0 DEF Accounts, UserRequest
  <2> HIDE DEF toggled, edited
  <2>3. CASE Refuses(r, {"toggle", "edit"})
    BY <1>2, <2>3 DEF Changing
  <2>4. CASE There(u) /\ Serves(r, {"toggle"}) /\ Writes(r, toggled)
    BY <1>1, <2>2, <2>4 DEF Changing
  <2>5. CASE There(u) /\ Serves(r, {"edit"}) /\ Writes(r, edited)
    BY <1>1, <2>2, <2>5 DEF Changing
  <2> QED
    BY <2>1, <2>3, <2>4, <2>5
<1>5. CASE ReplacesMachines(r)
  <2> DEFINE account == [accounts[u] EXCEPT !.machines = userRequests[r].machines]
  <2>1. There(u) => account \in Accounts /\ account.password = accounts[u].password
    BY <1>0 DEF Accounts, UserRequest
  <2>2. \/ Refuses(r, {"machines"})
        \/ There(u) /\ Serves(r, {"machines"}) /\ Writes(r, account)
    BY <1>5 DEF ReplacesMachines, Target
  <2> HIDE DEF account
  <2> QED
    BY <1>1, <1>2, <2>1, <2>2 DEF Changing
<1>6. CASE ResetsPassword(r)
  <2> DEFINE account == [accounts[u] EXCEPT !.password = accountChanges + 1]
  <2>1. There(u) => account \in Accounts
    BY <1>0 DEF Accounts
  <2>2. \/ Refuses(r, {"reset"})
        \/ There(u) /\ Serves(r, {"reset"}) /\ Writes(r, account)
    BY <1>6 DEF ResetsPassword, Target
  <2>3. CASE There(u) /\ Serves(r, {"reset"}) /\ Writes(r, account)
    <3>1. accounts'[u] = account /\ accounts' \in [PageUsers -> Accounts]
          /\ \A v \in PageUsers : v # u => accounts'[v] = accounts[v]
      BY <1>0, <2>1, <2>3, AccountWritten DEF PageTypes
    <3>2. Listing' = Listing
      BY <1>0, <2>3, <3>1, SameButPassword DEF PageTypes
    <3> HIDE DEF account
    <3> QED
      BY <1>1, <2>1, <2>3, <3>2
  <2> HIDE DEF account
  <2> QED
    BY <1>2, <2>2, <2>3
<1>7. CASE Deletes(r)
  BY <1>1, <1>2, <1>7, NothingIsTyped DEF Deletes, Target, Changing
<1> QED
  BY <1>3, <1>4, <1>5, <1>6, <1>7

AccountsKept == UNCHANGED <<accounts, accountChanges, again>>

\* The list is read.
IsListed(r) ==
  /\ userRequests[r].at = "asked" /\ userRequests[r].for \in {"list", "access"}
  /\ userRequests'[r].for = userRequests[r].for /\ userRequests'[r].at = "served"
  /\ userRequests'[r].list = Listing /\ userRequests'[r].read = accountChanges
  /\ userRequests'[r].user = userRequests[r].user
  /\ OthersKept(r) /\ AccountsKept /\ UNCHANGED <<listed, shownPassword, seen, old, lost>>
  /\ PageTypes'

\* A request is refused, or the machines are shown as saved.
IsMoved(r) ==
  /\ userRequests[r].for \in Changing \cup {"reset"}
  /\ \/ userRequests[r].at = "asked" /\ userRequests'[r].at = "refused"
     \/ /\ userRequests[r].for = "machines"
        /\ userRequests[r].at = "served" /\ userRequests'[r].at = "saved"
  /\ userRequests'[r].for = userRequests[r].for /\ userRequests'[r].user = userRequests[r].user
  /\ OthersKept(r) /\ AccountsKept /\ UNCHANGED <<listed, shownPassword, seen, old, lost>>
  /\ PageTypes'

\* The list is shown.
IsLoaded(r) ==
  /\ Brought(r) /\ listed' = userRequests[r].list
  /\ userRequests'[r].for = "nothing" /\ userRequests'[r].at = "idle" /\ OthersKept(r)
  /\ \/ userRequests[r].read < seen /\ old' /\ seen' = seen
     \/ ~(userRequests[r].read < seen) /\ ~old' /\ seen' = userRequests[r].read
  /\ AccountsKept /\ UNCHANGED <<shownPassword, lost>>
  /\ PageTypes'

\* A change was made: the list is asked for, and a password may be shown.
IsReloaded(r) ==
  /\ userRequests[r].for \in Changing /\ userRequests[r].at \in {"served", "saved"}
  /\ userRequests'[r].for = "list" /\ userRequests'[r].at = "asked" /\ OthersKept(r)
  /\ \/ shownPassword' = shownPassword
     \/ /\ userRequests[r].for = "create" /\ userRequests[r].at = "served"
        /\ shownPassword' = [user |-> userRequests[r].user, password |-> userRequests[r].password]
  /\ AccountsKept /\ UNCHANGED <<listed, seen, old, lost>>
  /\ PageTypes'

\* A request is over; one that the page acts upon, or one that ends.
IsOver(r) ==
  /\ userRequests'[r].for = "nothing" /\ userRequests'[r].at = "idle" /\ OthersKept(r)
  /\ \/ shownPassword' = shownPassword
     \/ /\ userRequests[r].for = "reset" /\ userRequests[r].at = "served"
        /\ shownPassword' = [user |-> userRequests[r].user, password |-> userRequests[r].password]
  /\ ~lost' => ~lost /\ ~Brings(r) /\ ~Brought(r)
  /\ AccountsKept /\ UNCHANGED <<listed, seen, old>>
  /\ PageTypes'

\* Only the dialogs change.
IsElsewhere ==
  /\ UNCHANGED userRequests /\ AccountsKept /\ UNCHANGED <<listed, seen, old, lost>>
  /\ shownPassword' = shownPassword \/ shownPassword' = NoPassword
  /\ PageTypes'

\* The server reads the list.
LEMMA ListingSteps ==
  ASSUME PageTypes, NEW r \in UserRequests, Lists(r)
  PROVE  IsListed(r)
<1> DEFINE answer == [userRequests[r] EXCEPT !.at = "served", !.list = Listing, !.read = accountChanges]
<1>1. userRequests[r] \in UserRequest /\ Listing \in [PageUsers -> Accounts] /\ accountChanges \in Nat
  BY ListingTyped DEF PageTypes
<1>2. answer \in UserRequest /\ answer.for = userRequests[r].for /\ answer.at = "served"
      /\ answer.list = Listing /\ answer.read = accountChanges /\ answer.user = userRequests[r].user
  BY <1>1 DEF UserRequest
<1>3. /\ userRequests[r].at = "asked" /\ userRequests[r].for \in {"list", "access"}
      /\ userRequests' = [userRequests EXCEPT ![r] = answer]
      /\ UNCHANGED <<accounts, accountChanges, listed, loading, dialog, shownPassword, userClicks,
                     seen, old, lost, again>>
  BY DEF Lists, Serves, AtServer, pageSide
<1> HIDE DEF answer
<1>4. userRequests' \in [UserRequests -> UserRequest] /\ userRequests'[r] = answer /\ OthersKept(r)
  BY <1>2, <1>3, RequestTyped DEF OthersKept
<1>5. PageTypes'
  BY <1>3, <1>4 DEF PageTypes
<1> QED
  BY <1>2, <1>3, <1>4, <1>5 DEF IsListed, AccountsKept

\* A request is refused, or shown as saved.
LEMMA MovingSteps ==
  ASSUME PageTypes, NEW r \in UserRequests,
         Refuses(r, Changing \cup {"reset"}) \/ MachinesSaved(r)
  PROVE  IsMoved(r)
<1> DEFINE refused == [userRequests[r] EXCEPT !.at = "refused"]
           saved == [userRequests[r] EXCEPT !.at = "saved"]
<1>1. userRequests[r] \in UserRequest
  BY DEF PageTypes
<1>2. /\ refused \in UserRequest /\ refused.at = "refused"
      /\ refused.for = userRequests[r].for /\ refused.user = userRequests[r].user
      /\ saved \in UserRequest /\ saved.at = "saved"
      /\ saved.for = userRequests[r].for /\ saved.user = userRequests[r].user
  BY <1>1 DEF UserRequest
<1>3. \/ /\ userRequests[r].at = "asked" /\ userRequests[r].for \in Changing \cup {"reset"}
         /\ userRequests' = [userRequests EXCEPT ![r] = refused]
      \/ /\ userRequests[r].at = "served" /\ userRequests[r].for = "machines"
         /\ userRequests' = [userRequests EXCEPT ![r] = saved]
  BY DEF Refuses, MachinesSaved, Serves, Answers
<1>4. UNCHANGED <<accounts, accountChanges, listed, loading, dialog, shownPassword, userClicks,
                  seen, old, lost, again>>
  BY DEF Refuses, MachinesSaved, AtServer, AtPage, pageSide
<1> HIDE DEF refused, saved
<1>5. /\ userRequests' \in [UserRequests -> UserRequest] /\ OthersKept(r)
      /\ userRequests'[r] = refused \/ userRequests'[r] = saved
      /\ userRequests[r].at = "asked" => userRequests'[r] = refused
      /\ userRequests[r].at = "served" => userRequests'[r] = saved
  BY <1>2, <1>3, RequestTyped DEF OthersKept
<1>6. PageTypes'
  BY <1>4, <1>5 DEF PageTypes
<1> QED
  BY <1>2, <1>3, <1>4, <1>5, <1>6 DEF IsMoved, AccountsKept, Changing

\* The page shows the list.
LEMMA LoadingSteps ==
  ASSUME PageTypes, NEW r \in UserRequests, UsersLoaded(r)
  PROVE  IsLoaded(r)
<1>1. /\ Brought(r) /\ listed' = userRequests[r].list
      /\ userRequests' = [userRequests EXCEPT ![r] = Unasked]
      /\ UNCHANGED <<accounts, accountChanges, userClicks, dialog, shownPassword, lost, again>>
  BY DEF UsersLoaded, Answers, AtPage, Brought
<1>2. /\ userRequests' \in [UserRequests -> UserRequest] /\ userRequests'[r].for = "nothing"
      /\ userRequests'[r].at = "idle" /\ OthersKept(r)
  BY <1>1, NothingIsTyped, RequestTyped DEF OthersKept, Unasked
<1>3. \/ userRequests[r].read < seen /\ old' /\ seen' = seen
      \/ ~(userRequests[r].read < seen) /\ ~old' /\ seen' = userRequests[r].read
  BY DEF UsersLoaded
<1>4. userRequests[r].list \in [PageUsers -> Accounts] /\ userRequests[r].read \in Nat
  BY DEF PageTypes, UserRequest
<1>5. PageTypes'
  BY <1>1, <1>2, <1>3, <1>4 DEF PageTypes
<1> QED
  BY <1>1, <1>2, <1>3, <1>5 DEF IsLoaded, AccountsKept

\* The page asks for the list after a change.
LEMMA ReloadingSteps ==
  ASSUME PageTypes, NEW r \in UserRequests,
         Toggled(r) \/ Edited(r) \/ Deleted(r) \/ Created(r) \/ SecondLater(r),
         Sensible
  PROVE  IsReloaded(r)
<1> DEFINE request == [Unasked EXCEPT !.for = "list", !.at = "asked"]
<1>1. request \in UserRequest /\ request.for = "list" /\ request.at = "asked"
  BY NothingIsTyped DEF UserRequest, Purposes
<1>2. loadUsers(r)
  BY DEF Toggled, Edited, Deleted, Created, SecondLater
<1>3. userRequests' = [userRequests EXCEPT ![r] = request] /\ UNCHANGED <<listed, seen, old>>
  BY <1>2 DEF loadUsers
<1> HIDE DEF request
<1>4. /\ userRequests' \in [UserRequests -> UserRequest] /\ OthersKept(r)
      /\ userRequests'[r].for = "list" /\ userRequests'[r].at = "asked"
  BY <1>1, <1>3, RequestTyped DEF OthersKept
<1>5. UNCHANGED <<accounts, accountChanges, userClicks, lost, again>>
  BY DEF Toggled, Edited, Deleted, Created, SecondLater, AtPage
<1>6. /\ userRequests[r].for \in Changing /\ userRequests[r].at \in {"served", "saved"}
      /\ \/ shownPassword' = shownPassword
         \/ /\ userRequests[r].for = "create" /\ userRequests[r].at = "served"
            /\ shownPassword' = [user |-> userRequests[r].user, password |-> userRequests[r].password]
  BY DEF Toggled, Edited, Deleted, Created, SecondLater, Answers, Changing, Target, Sensible
<1>7. dialog' = dialog \/ dialog' = NoDialog
  BY DEF Toggled, Edited, Deleted, Created, SecondLater, Closes
<1>8. /\ dialog' \in [kind : {"none", "create", "edit", "machines", "reset", "delete"}, user : Names,
                      mount : Nat, entry : Accounts, machines : SUBSET PageMachines, loaded : BOOLEAN]
      /\ shownPassword' \in [user : Names, password : Nat]
  BY <1>6, <1>7, NothingIsTyped DEF PageTypes, UserRequest
<1>9. PageTypes'
  BY <1>3, <1>4, <1>5, <1>8 DEF PageTypes
<1> QED
  BY <1>3, <1>4, <1>5, <1>6, <1>9 DEF IsReloaded, AccountsKept

\* A request ends, or nothing follows it.
LEMMA EndingSteps ==
  ASSUME PageTypes, Sensible, NEW r \in UserRequests, ResetDone(r) \/ AccessLoaded(r) \/ RequestEnds(r)
  PROVE  IsOver(r)
<1>1. /\ userRequests' = [userRequests EXCEPT ![r] = Unasked]
      /\ UNCHANGED <<accounts, accountChanges, userClicks, listed, seen, old, again>>
  BY DEF ResetDone, AccessLoaded, RequestEnds, AtPage
<1>2. /\ userRequests' \in [UserRequests -> UserRequest] /\ userRequests'[r].for = "nothing"
      /\ userRequests'[r].at = "idle" /\ OthersKept(r)
  BY <1>1, NothingIsTyped, RequestTyped DEF OthersKept, Unasked
<1>3. /\ \/ shownPassword' = shownPassword
         \/ /\ userRequests[r].for = "reset" /\ userRequests[r].at = "served"
            /\ shownPassword' = [user |-> userRequests[r].user, password |-> userRequests[r].password]
  BY DEF ResetDone, AccessLoaded, RequestEnds, Answers, Target, OnReset
<1>4. ~lost' => ~lost /\ ~Brings(r) /\ ~Brought(r)
  <2>1. CASE ResetDone(r)
    BY <2>1 DEF ResetDone, AtPage, Answers, Brings, Brought, Changing
  <2>2. CASE AccessLoaded(r)
    BY <2>2 DEF AccessLoaded, AtPage, Answers, Brings, Brought, Changing
  <2>3. CASE RequestEnds(r)
    <3>1. Brings(r) \/ Brought(r) =>
            \/ userRequests[r].for = "list"
            \/ userRequests[r].at = "served" /\ userRequests[r].for # "access"
      BY <2>3 DEF RequestEnds, Brings, Brought, Changing
    <3>2. lost' = (\/ lost \/ userRequests[r].for = "list"
                   \/ (userRequests[r].at = "served" /\ userRequests[r].for # "access"))
      BY <2>3 DEF RequestEnds
    <3> QED
      BY <3>1, <3>2
  <2> QED
    BY <2>1, <2>2, <2>3
<1>5. dialog' \in [kind : {"none", "create", "edit", "machines", "reset", "delete"}, user : Names,
                   mount : Nat, entry : Accounts, machines : SUBSET PageMachines, loaded : BOOLEAN]
  <2>1. CASE AccessLoaded(r)
    <3>1. \/ dialog' = dialog
          \/ dialog' = [dialog EXCEPT !.loaded = TRUE,
                                      !.machines = userRequests[r].list[Target(r)].machines]
      BY <2>1 DEF AccessLoaded
    <3>2. userRequests[r].list[Target(r)].machines \in SUBSET PageMachines
      <4>1. userRequests[r].user \in PageUsers
        BY <2>1 DEF AccessLoaded, Answers, Sensible
      <4>2. userRequests[r].list[userRequests[r].user] \in Accounts
        BY <4>1 DEF PageTypes, UserRequest
      <4> QED
        BY <4>2 DEF Accounts, Target
    <3> QED
      BY <3>1, <3>2 DEF PageTypes
  <2>2. CASE ~AccessLoaded(r)
    BY <2>2, NothingIsTyped DEF ResetDone, RequestEnds, Closes, PageTypes
  <2> QED
    BY <2>1, <2>2
<1>6. shownPassword' \in [user : Names, password : Nat]
  BY <1>3 DEF PageTypes, UserRequest
<1>7. PageTypes'
  BY <1>1, <1>2, <1>5, <1>6 DEF PageTypes
<1> QED
  BY <1>1, <1>2, <1>3, <1>4, <1>7 DEF IsOver, AccountsKept

\* Dialogs are opened, filled in and closed.
LEMMA DialogSteps ==
  ASSUME PageTypes,
         \/ OpenCreate \/ CloseModal \/ ClosePassword
         \/ \E u \in PageUsers, kind \in {"edit", "reset", "delete"} : OpenFor(kind, u)
         \/ \E m \in PageMachines : toggleMachine(m)
  PROVE  IsElsewhere
<1>1. ASSUME NEW kind \in {"create", "edit", "reset", "delete"}, NEW u \in Names, Open(kind, u),
             UNCHANGED userRequests
      PROVE  IsElsewhere
  <2>1. /\ userClicks' = userClicks + 1 /\ userClicks + 1 \in Nat
        /\ dialog' = [NoDialog EXCEPT !.kind = kind, !.user = u, !.mount = userClicks + 1,
                                      !.entry = IF u = "nobody" THEN NoAccount ELSE listed[u]]
        /\ UNCHANGED <<accounts, accountChanges, listed, loading, shownPassword, seen, old, lost, again>>
    BY <1>1 DEF Open, Presses, pageHistory, PageTypes
  <2>2. (IF u = "nobody" THEN NoAccount ELSE listed[u]) \in Accounts
    BY NothingIsTyped DEF PageTypes, Names
  <2>3. dialog' \in [kind : {"none", "create", "edit", "machines", "reset", "delete"}, user : Names,
                     mount : Nat, entry : Accounts, machines : SUBSET PageMachines, loaded : BOOLEAN]
    BY <2>1, <2>2, NothingIsTyped
  <2> QED
    BY <1>1, <2>1, <2>3 DEF IsElsewhere, AccountsKept, PageTypes
<1>2. CASE OpenCreate
  BY <1>1, <1>2 DEF OpenCreate, Names
<1>3. CASE CloseModal
  BY <1>3, NothingIsTyped DEF CloseModal, IsElsewhere, AccountsKept, PageTypes, pageHistory
<1>4. CASE ClosePassword
  BY <1>4, NothingIsTyped DEF ClosePassword, IsElsewhere, AccountsKept, PageTypes, pageHistory
<1>5. ASSUME NEW u \in PageUsers, NEW kind \in {"edit", "reset", "delete"}, OpenFor(kind, u)
      PROVE  IsElsewhere
  BY <1>1, <1>5 DEF OpenFor, Names
<1>6. ASSUME NEW m \in PageMachines, toggleMachine(m) PROVE IsElsewhere
  <2>1. /\ userClicks' = userClicks + 1 /\ UNCHANGED userRequests
        /\ dialog' = [dialog EXCEPT !.machines = IF m \in @ THEN @ \ {m} ELSE @ \cup {m}]
        /\ UNCHANGED <<accounts, accountChanges, listed, loading, shownPassword, seen, old, lost, again>>
    BY <1>6 DEF toggleMachine, Presses, pageHistory
  <2> QED
    BY <2>1 DEF IsElsewhere, AccountsKept, PageTypes
<1> QED
  BY <1>2, <1>3, <1>4, <1>5, <1>6

\* Every step is one of those.
UsersStep ==
  \/ IsElsewhere
  \/ \E r \in UserRequests : \/ IsAsked(r) \/ IsListed(r) \/ IsMoved(r)
                             \/ IsLoaded(r) \/ IsReloaded(r) \/ IsOver(r)
                             \/ \E u \in Names : IsServed(r, u)

\* The actions of the page are such steps.
LEMMA StepsOfThePage ==
  ASSUME PageTypes, Sensible, UsersPageNext
  PROVE  UsersStep
<1>1. ASSUME NEW r \in UserRequests,
             \/ CreatesAccount(r) \/ Patches(r) \/ ReplacesMachines(r) \/ ResetsPassword(r) \/ Deletes(r)
      PROVE  UsersStep
  <2>1. PICK u \in Names : userRequests[r].user = u
    BY DEF PageTypes, UserRequest
  <2> QED
    BY <1>1, <2>1, ServingSteps, MovingSteps DEF UsersStep
<1>2. ASSUME NEW r \in UserRequests,
             \/ UsersLoaded(r) \/ Toggled(r) \/ Edited(r) \/ Deleted(r) \/ Created(r) \/ ResetDone(r)
             \/ AccessLoaded(r) \/ MachinesSaved(r) \/ SecondLater(r) \/ RequestEnds(r) \/ Lists(r)
      PROVE  UsersStep
  BY <1>2, LoadingSteps, ReloadingSteps, EndingSteps, MovingSteps, ListingSteps DEF UsersStep
<1>3. ASSUME NEW r \in UserRequests,
             \/ \E u \in PageUsers : \/ OpenMachines(r, u) \/ handleToggleActive(r, u)
                                     \/ handleCreate(r, u) \/ handleDelete(r, u)
             \/ \E role \in {"user", "admin"} : saveRole(r, role)
             \/ saveMachines(r) \/ handleReset(r)
      PROVE  UsersStep
  BY <1>3, SendingSteps DEF UsersStep
<1>4. ASSUME \/ OpenCreate \/ CloseModal \/ ClosePassword
             \/ \E u \in PageUsers, kind \in {"edit", "reset", "delete"} : OpenFor(kind, u)
             \/ \E m \in PageMachines : toggleMachine(m)
      PROVE  UsersStep
  BY <1>4, DialogSteps DEF UsersStep
<1> QED
  BY <1>1, <1>2, <1>3, <1>4 DEF UsersPageNext

\* Requests stay what they are.
LEMMA SensibleStep ==
  ASSUME Sensible, UsersStep
  PROVE  Sensible'
<1>1. CASE IsElsewhere
  BY <1>1 DEF IsElsewhere, Sensible
<1>2. ASSUME NEW r \in UserRequests, IsAsked(r) PROVE Sensible'
  BY <1>2 DEF IsAsked, OthersKept, Sensible
<1>3. ASSUME NEW r \in UserRequests, IsListed(r) PROVE Sensible'
  BY <1>3 DEF IsListed, OthersKept, Sensible
<1>4. ASSUME NEW r \in UserRequests, NEW u \in Names, IsServed(r, u) PROVE Sensible'
  BY <1>4 DEF IsServed, OthersKept, Sensible
<1>5. ASSUME NEW r \in UserRequests, IsMoved(r) PROVE Sensible'
  BY <1>5 DEF IsMoved, OthersKept, Sensible
<1>6. ASSUME NEW r \in UserRequests, IsLoaded(r) PROVE Sensible'
  BY <1>6 DEF IsLoaded, OthersKept, Sensible
<1>7. ASSUME NEW r \in UserRequests, IsReloaded(r) PROVE Sensible'
  BY <1>7 DEF IsReloaded, OthersKept, Sensible
<1>8. ASSUME NEW r \in UserRequests, IsOver(r) PROVE Sensible'
  BY <1>8 DEF IsOver, OthersKept, Sensible
<1> QED
  BY <1>1, <1>2, <1>3, <1>4, <1>5, <1>6, <1>7, <1>8 DEF UsersStep

\* The parts about passwords.
PasswordsTold == OneChangeAtATime /\ SetIsTheLast /\ ShownIsTheLast

\* Two changes of one password at once are remembered, others come one by one.
LEMMA PasswordsToldStep ==
  ASSUME PageTypes, PasswordsTold, UsersStep
  PROVE  PasswordsTold'
<1> USE DEF PasswordsTold
<1>1. CASE IsElsewhere
  BY <1>1, UsersPageAssumption
     DEF IsElsewhere, AccountsKept, OneChangeAtATime, SetIsTheLast, ShownIsTheLast, Settles, There, NoPassword
<1>2. ASSUME NEW r \in UserRequests, IsAsked(r) PROVE PasswordsTold'
  <2>1. \A q \in UserRequests : q # r => /\ Settles(q)' <=> Settles(q)
                                         /\ userRequests'[q] = userRequests[q]
    BY <1>2 DEF IsAsked, OthersKept, Settles
  <2>2. /\ accounts' = accounts /\ shownPassword' = shownPassword /\ again \subseteq again'
        /\ userRequests'[r].at = "asked" /\ \A v : There(v)' <=> There(v)
    BY <1>2 DEF IsAsked, There
  <2>3. ASSUME NEW q \in UserRequests, q # r, Settles(q)', Settles(r)',
               userRequests'[q].user = userRequests'[r].user
        PROVE  userRequests'[q].user \in again'
    BY <1>2, <2>1, <2>3 DEF IsAsked
  <2>4. OneChangeAtATime'
    BY <2>1, <2>2, <2>3 DEF OneChangeAtATime
  <2>5. SetIsTheLast'
    BY <2>1, <2>2 DEF SetIsTheLast
  <2>6. Settles(r)' => shownPassword.user \notin PageUsers
    BY <1>2, UsersPageAssumption DEF IsAsked, NoPassword
  <2>7. ShownIsTheLast'
    BY <2>1, <2>2, <2>6 DEF ShownIsTheLast
  <2> QED
    BY <2>4, <2>5, <2>7
<1>3. ASSUME NEW r \in UserRequests, NEW u \in Names, IsServed(r, u) PROVE PasswordsTold'
  <2>1. \A q \in UserRequests : /\ Settles(q)' <=> Settles(q)
                                /\ userRequests'[q].user = userRequests[q].user
                                /\ q # r => userRequests'[q] = userRequests[q]
    BY <1>3 DEF IsServed, OthersKept, Settles
  <2>2. shownPassword' = shownPassword /\ again' = again
    BY <1>3 DEF IsServed
  <2>3. OneChangeAtATime'
    BY <2>1, <2>2 DEF OneChangeAtATime
  <2>4. ASSUME NEW v, There(v)', v # u \/ ~Settles(r)
        PROVE  There(v) /\ accounts'[v].password = accounts[v].password
    <3>1. CASE v = u
      BY <1>3, <2>4, <3>1 DEF IsServed
    <3>2. CASE v # u
      BY <1>3, <2>4, <3>2 DEF IsServed, There
    <3> QED
      BY <3>1, <3>2
  <2>5. SetIsTheLast'
    <3> SUFFICES ASSUME NEW q \in UserRequests, NEW v, Settles(q)', userRequests'[q].at = "served",
                        userRequests'[q].user = v, v \notin again', There(v)'
                 PROVE  accounts'[v].password = userRequests'[q].password
      BY DEF SetIsTheLast, There
    <3>1. CASE q = r
      BY <1>3, <2>1, <3>1 DEF IsServed
    <3>2. CASE q # r
      <4>1. userRequests[q].user = v /\ (v # u \/ ~Settles(r))
        BY <1>3, <2>1, <2>2, <3>2 DEF OneChangeAtATime, IsServed
      <4>2. There(v) /\ accounts'[v].password = accounts[v].password
        BY <2>4, <4>1
      <4> QED
        BY <2>1, <2>2, <3>2, <4>1, <4>2 DEF SetIsTheLast
    <3> QED
      BY <3>1, <3>2
  <2>6. ShownIsTheLast'
    <3> SUFFICES ASSUME NEW v \in PageUsers, v = shownPassword.user, v \notin again
                 PROVE  /\ \A q \in UserRequests : Settles(q)' => userRequests'[q].user # v
                        /\ There(v)' => accounts'[v].password = shownPassword.password
      BY <2>2 DEF ShownIsTheLast, There
    <3>1. \A q \in UserRequests : Settles(q) => userRequests[q].user # v
      BY DEF ShownIsTheLast
    <3>2. There(v)' => There(v) /\ accounts'[v].password = accounts[v].password
      BY <1>3, <2>4, <3>1 DEF IsServed
    <3> QED
      BY <2>1, <3>1, <3>2 DEF ShownIsTheLast
  <2> QED
    BY <2>3, <2>5, <2>6
<1>4. ASSUME NEW r \in UserRequests, IsListed(r) \/ IsMoved(r) \/ IsLoaded(r) \/ IsReloaded(r) \/ IsOver(r)
      PROVE  PasswordsTold'
  <2>1. /\ accounts' = accounts /\ again' = again /\ \A v : There(v)' <=> There(v)
        /\ \A q \in UserRequests : q # r => userRequests'[q] = userRequests[q]
    BY <1>4 DEF IsListed, IsMoved, IsLoaded, IsReloaded, IsOver, AccountsKept, OthersKept, There
  <2>2. Settles(r)' => /\ Settles(r) /\ userRequests'[r].at # "served" /\ shownPassword' = shownPassword
                       /\ userRequests'[r].user = userRequests[r].user
    BY <1>4 DEF IsListed, IsMoved, IsLoaded, IsReloaded, IsOver, Settles
  <2>3. \/ shownPassword' = shownPassword
        \/ /\ Settles(r) /\ ~Settles(r)' /\ userRequests[r].at = "served"
           /\ shownPassword'.user = userRequests[r].user
           /\ shownPassword'.password = userRequests[r].password
    BY <1>4 DEF IsListed, IsMoved, IsLoaded, IsReloaded, IsOver, Settles
  <2>4. \A q \in UserRequests : Settles(q)' => Settles(q) /\ userRequests'[q].user = userRequests[q].user
    BY <2>1, <2>2 DEF Settles
  <2>5. OneChangeAtATime'
    BY <2>1, <2>4 DEF OneChangeAtATime
  <2>6. SetIsTheLast'
    BY <2>1, <2>2, <2>4 DEF SetIsTheLast
  <2>7. CASE shownPassword' = shownPassword
    BY <2>1, <2>4, <2>5, <2>6, <2>7 DEF ShownIsTheLast
  <2>8. CASE /\ Settles(r) /\ ~Settles(r)' /\ userRequests[r].at = "served"
             /\ shownPassword'.user = userRequests[r].user
             /\ shownPassword'.password = userRequests[r].password
    <3> DEFINE u == userRequests[r].user
    <3>1. u \notin again => \A q \in UserRequests : Settles(q)' => userRequests'[q].user # u
      BY <2>4, <2>8 DEF OneChangeAtATime
    <3>2. u \notin again /\ There(u) => accounts[u].password = userRequests[r].password
      BY <2>8 DEF SetIsTheLast
    <3>3. ShownIsTheLast'
      BY <2>1, <2>8, <3>1, <3>2 DEF ShownIsTheLast
    <3> QED
      BY <2>5, <2>6, <3>3
  <2> QED
    BY <2>3, <2>7, <2>8
<1> QED
  BY <1>1, <1>2, <1>3, <1>4 DEF UsersStep

\* What is read is what the server has, and every change makes it older.
LEMMA ListsAreTrueStep ==
  ASSUME PageTypes, ListsAreTrue, UsersStep
  PROVE  ListsAreTrue'
<1>0. /\ accountChanges \in Nat /\ seen \in Nat
      /\ \A q \in UserRequests : userRequests[q].read \in Nat
  BY DEF PageTypes, UserRequest
<1>1. CASE IsElsewhere
  BY <1>1 DEF IsElsewhere, AccountsKept, ListsAreTrue, NewestIs, Brought, Listing, There
<1>2. ASSUME NEW r \in UserRequests,
             IsAsked(r) \/ IsListed(r) \/ IsMoved(r) \/ IsLoaded(r) \/ IsReloaded(r) \/ IsOver(r)
      PROVE  ListsAreTrue'
  <2>1. accounts' = accounts /\ accountChanges' = accountChanges
    BY <1>2 DEF IsAsked, IsListed, IsMoved, IsLoaded, IsReloaded, IsOver, AccountsKept
  <2>2. Listing' = Listing
    BY <2>1 DEF Listing, There
  <2>3. \A q \in UserRequests : q # r => userRequests'[q] = userRequests[q]
    BY <1>2 DEF IsAsked, IsListed, IsMoved, IsLoaded, IsReloaded, IsOver, OthersKept
  <2>4. Brought(r)' => /\ userRequests'[r].list = Listing /\ userRequests'[r].read = accountChanges
    BY <1>2 DEF IsAsked, IsListed, IsMoved, IsLoaded, IsReloaded, IsOver, Brought, Changing
  <2>5. NewestIs(accountChanges)'
    BY <1>0, <2>1, <2>2, <2>3, <2>4 DEF ListsAreTrue, NewestIs, Brought
  <2>6. seen' = seen \/ (Brought(r) /\ seen' = userRequests[r].read)
    BY <1>2 DEF IsAsked, IsListed, IsMoved, IsLoaded, IsReloaded, IsOver
  <2> QED
    BY <2>1, <2>5, <2>6 DEF ListsAreTrue, NewestIs
<1>3. ASSUME NEW r \in UserRequests, NEW u \in Names, IsServed(r, u) PROVE ListsAreTrue'
  <2>1. \A q \in UserRequests : Brought(q)' => Brought(q) /\ userRequests'[q] = userRequests[q]
    BY <1>3 DEF IsServed, OthersKept, Brought, Changing
  <2>2. accountChanges' = accountChanges + 1 /\ seen' = seen
    BY <1>3 DEF IsServed
  <2> QED
    BY <1>0, <2>1, <2>2 DEF ListsAreTrue, NewestIs
<1> QED
  BY <1>1, <1>2, <1>3 DEF UsersStep

\* A change brings the list, and the newest list stays the newest.
LEMMA ListIsOnItsWayStep ==
  ASSUME PageTypes, Sensible, ListsAreTrue, ListIsOnItsWay, UsersStep
  PROVE  ListIsOnItsWay'
<1>0. /\ accountChanges \in Nat /\ seen \in Nat
      /\ \A q \in UserRequests : userRequests[q].read \in Nat
  BY DEF PageTypes, UserRequest
<1>1. ASSUME accounts' = accounts PROVE Listing' = Listing
  BY <1>1 DEF Listing, There
<1>2. CASE IsElsewhere
  BY <1>1, <1>2 DEF IsElsewhere, AccountsKept, ListIsOnItsWay, NewestIs, Brought, Brings
<1>3. ASSUME NEW r \in UserRequests, NEW u \in Names, IsServed(r, u) PROVE ListIsOnItsWay'
  <2>1. CASE userRequests[r].for \in Changing
    BY <1>3, <2>1 DEF IsServed, ListIsOnItsWay, Brings
  <2>2. CASE userRequests[r].for = "reset"
    <3>1. Listing' = Listing /\ listed' = listed /\ seen' = seen /\ old' = old /\ lost' = lost
      BY <1>3, <2>2 DEF IsServed
    <3>2. \A q \in UserRequests : q # r => userRequests'[q] = userRequests[q]
      BY <1>3 DEF IsServed, OthersKept
    <3>3. ~Brings(r) /\ ~Brought(r) /\ ~Brings(r)' /\ ~Brought(r)'
      BY <1>3, <2>2 DEF IsServed, Brings, Brought, Changing
    <3> QED
      BY <3>1, <3>2, <3>3 DEF ListIsOnItsWay, NewestIs, Brought, Brings
  <2> QED
    BY <1>3, <2>1, <2>2 DEF IsServed
<1>4. ASSUME NEW r \in UserRequests, IsAsked(r) \/ IsMoved(r) PROVE ListIsOnItsWay'
  <2>1. Listing' = Listing /\ listed' = listed /\ seen' = seen /\ old' = old /\ lost' = lost
    BY <1>1, <1>4 DEF IsAsked, IsMoved, AccountsKept
  <2>2. \A q \in UserRequests : q # r => userRequests'[q] = userRequests[q]
    BY <1>4 DEF IsAsked, IsMoved, OthersKept
  <2>3. ~Brought(r) /\ ~Brought(r)' /\ (Brings(r) => Brings(r)')
    BY <1>4 DEF IsAsked, IsMoved, Brings, Brought, Changing
  <2> QED
    BY <2>1, <2>2, <2>3 DEF ListIsOnItsWay, NewestIs, Brought, Brings
<1>5. ASSUME NEW r \in UserRequests, IsReloaded(r) PROVE ListIsOnItsWay'
  BY <1>5 DEF IsReloaded, ListIsOnItsWay, Brings
<1>6. ASSUME NEW r \in UserRequests, IsOver(r) PROVE ListIsOnItsWay'
  <2>1. Listing' = Listing /\ listed' = listed /\ seen' = seen /\ old' = old
    BY <1>1, <1>6 DEF IsOver, AccountsKept
  <2>2. \A q \in UserRequests : q # r => userRequests'[q] = userRequests[q]
    BY <1>6 DEF IsOver, OthersKept
  <2>3. /\ lost' \/ (~lost /\ ~Brought(r) /\ ~Brings(r))
        /\ ~Brought(r)'
    BY <1>6 DEF IsOver, Brought
  <2> QED
    BY <2>1, <2>2, <2>3 DEF ListIsOnItsWay, NewestIs, Brought, Brings
<1>7. ASSUME NEW r \in UserRequests, IsListed(r) PROVE ListIsOnItsWay'
  <2>1. Listing' = Listing /\ listed' = listed /\ seen' = seen /\ old' = old /\ lost' = lost
    BY <1>1, <1>7 DEF IsListed, AccountsKept
  <2>2. \A q \in UserRequests : q # r => userRequests'[q] = userRequests[q]
    BY <1>7 DEF IsListed, OthersKept
  <2>3. CASE userRequests[r].for = "list"
    <3>1. Brought(r)' /\ userRequests'[r].list = Listing /\ userRequests'[r].read = accountChanges
      BY <1>7, <2>3 DEF IsListed, Brought
    <3>2. \A q \in UserRequests : Brought(q)' =>
            /\ userRequests'[q].read <= accountChanges
            /\ userRequests'[q].read = accountChanges => userRequests'[q].list = Listing
      BY <1>0, <2>2, <3>1 DEF ListsAreTrue, NewestIs, Brought
    <3> QED
      BY <2>1, <3>1, <3>2 DEF ListIsOnItsWay, ListsAreTrue, NewestIs
  <2>4. CASE userRequests[r].for = "access"
    <3>1. ~Brings(r) /\ ~Brought(r) /\ ~Brings(r)' /\ ~Brought(r)'
      BY <1>7, <2>4 DEF IsListed, Brings, Brought, Changing
    <3> QED
      BY <2>1, <2>2, <3>1 DEF ListIsOnItsWay, NewestIs, Brought, Brings
  <2> QED
    BY <1>7, <2>3, <2>4 DEF IsListed
<1>8. ASSUME NEW r \in UserRequests, IsLoaded(r) PROVE ListIsOnItsWay'
  <2>1. Listing' = Listing /\ listed' = userRequests[r].list /\ lost' = lost
    BY <1>1, <1>8 DEF IsLoaded, AccountsKept
  <2>2. \A q \in UserRequests : q # r => userRequests'[q] = userRequests[q]
    BY <1>8 DEF IsLoaded, OthersKept
  <2>3. Brought(r) /\ ~Brought(r)' /\ ~Brings(r)
    BY <1>8 DEF IsLoaded, Brought, Brings, Changing
  <2>4. \/ userRequests[r].read < seen /\ old' /\ seen' = seen
        \/ ~(userRequests[r].read < seen) /\ ~old' /\ seen' = userRequests[r].read
    BY <1>8 DEF IsLoaded
  <2>5. \A q \in UserRequests : Brought(q)' => Brought(q) /\ userRequests'[q] = userRequests[q]
    BY <2>2, <2>3 DEF Brought
  <2>6. CASE lost \/ \E q \in UserRequests : Brings(q)
    BY <2>1, <2>2, <2>3, <2>6 DEF ListIsOnItsWay, Brings
  <2>7. ASSUME NEW w \in UserRequests, Brought(w), seen <= userRequests[w].read,
               userRequests[w].list = Listing, NewestIs(userRequests[w].read)
        PROVE  ListIsOnItsWay'
    <3>1. CASE w = r
      <4>1. seen' = userRequests[r].read /\ ~old'
        BY <1>0, <2>4, <2>7, <3>1
      <4>2. NewestIs(seen)'
        BY <2>1, <2>5, <2>7, <3>1, <4>1 DEF NewestIs
      <4> QED
        BY <2>1, <2>7, <3>1, <4>2 DEF ListIsOnItsWay
    <3>2. CASE w # r
      <4>1. userRequests[r].read <= userRequests[w].read
        BY <2>3, <2>7 DEF NewestIs
      <4>2. seen' <= userRequests[w].read
        BY <2>4, <2>7, <4>1
      <4>3. Brought(w)' /\ userRequests'[w] = userRequests[w]
        BY <2>2, <2>7, <3>2 DEF Brought
      <4>4. NewestIs(userRequests[w].read)'
        BY <2>1, <2>5, <2>7, <4>3 DEF NewestIs
      <4> QED
        BY <2>1, <2>7, <4>2, <4>3, <4>4 DEF ListIsOnItsWay
    <3> QED
      BY <3>1, <3>2
  <2>8. CASE NewestIs(seen) /\ (old \/ listed = Listing)
    <3>1. userRequests[r].read <= seen /\ (userRequests[r].read = seen => userRequests[r].list = Listing)
      BY <2>3, <2>8 DEF NewestIs
    <3>2. seen' = seen
      BY <1>0, <2>4, <3>1
    <3>3. old' \/ userRequests[r].list = Listing
      BY <1>0, <2>4, <3>1
    <3>4. NewestIs(seen)'
      BY <2>1, <2>5, <2>8, <3>2 DEF NewestIs
    <3> QED
      BY <2>1, <3>3, <3>4 DEF ListIsOnItsWay
  <2> QED
    BY <2>6, <2>7, <2>8 DEF ListIsOnItsWay
<1> QED
  BY <1>2, <1>3, <1>4, <1>5, <1>6, <1>7, <1>8 DEF UsersStep

\* The list is there, no dialog is open and nothing is asked.
LEMMA UsersInvInit ==
  ASSUME UsersPageInit
  PROVE  UsersInv
<1>1. /\ accountChanges = 0 /\ listed = Listing /\ dialog = NoDialog /\ shownPassword = NoPassword
      /\ userRequests = [r \in UserRequests |-> Unasked]
      /\ userClicks = 0 /\ seen = 0 /\ lost = FALSE
  BY DEF UsersPageInit
<1>2. accounts \in [PageUsers -> Accounts]
  <2>1. PICK others \in SUBSET (PageUsers \ {Me}) :
           accounts = [u \in PageUsers |->
             IF u = Me THEN [NoAccount EXCEPT !.role = "admin", !.active = TRUE]
             ELSE IF u \in others THEN [NoAccount EXCEPT !.role = "user", !.active = TRUE]
             ELSE NoAccount]
    BY DEF UsersPageInit
  <2>2. /\ [NoAccount EXCEPT !.role = "admin", !.active = TRUE] \in Accounts
        /\ [NoAccount EXCEPT !.role = "user", !.active = TRUE] \in Accounts
    BY NothingIsTyped DEF Accounts, PageRoles
  <2> QED
    BY <2>1, <2>2, NothingIsTyped
<1>3. Listing \in [PageUsers -> Accounts]
  <2>1. ASSUME NEW u \in PageUsers PROVE [accounts[u] EXCEPT !.password = 0] \in Accounts
    BY <1>2 DEF Accounts
  <2> QED
    BY <2>1, NothingIsTyped DEF Listing
<1>4. PageTypes
  BY <1>1, <1>2, <1>3, NothingIsTyped DEF PageTypes
<1>5. \A r \in UserRequests : userRequests[r].for = "nothing" /\ userRequests[r].at = "idle"
  BY <1>1 DEF Unasked
<1>6. Sensible /\ OneChangeAtATime /\ SetIsTheLast
  BY <1>5 DEF Sensible, OneChangeAtATime, SetIsTheLast, Settles
<1>7. ShownIsTheLast
  BY <1>1, UsersPageAssumption DEF ShownIsTheLast, NoPassword
<1>8. ListsAreTrue /\ ListIsOnItsWay
  BY <1>1, <1>5 DEF ListsAreTrue, ListIsOnItsWay, NewestIs, Brought
<1> QED
  BY <1>4, <1>6, <1>7, <1>8 DEF UsersInv

\* Every step keeps all parts.
LEMMA UsersInvStep ==
  ASSUME UsersInv, [UsersPageNext]_usersPageVars
  PROVE  UsersInv'
<1>1. UsersStep
  <2>1. CASE UsersPageNext
    BY <2>1, StepsOfThePage DEF UsersInv
  <2>2. CASE UNCHANGED usersPageVars
    BY <2>2 DEF usersPageVars, pageSide, pageHistory, UsersStep, IsElsewhere, AccountsKept,
                UsersInv, PageTypes
  <2> QED
    BY <2>1, <2>2
<1>2. PageTypes'
  BY <1>1 DEF UsersStep, IsElsewhere, IsAsked, IsListed, IsMoved, IsLoaded, IsReloaded, IsOver, IsServed
<1>3. Sensible' /\ ListsAreTrue' /\ ListIsOnItsWay'
  BY <1>1, SensibleStep, ListsAreTrueStep, ListIsOnItsWayStep DEF UsersInv
<1>4. OneChangeAtATime' /\ SetIsTheLast' /\ ShownIsTheLast'
  BY <1>1, PasswordsToldStep DEF UsersInv, PasswordsTold
<1> QED
  BY <1>2, <1>3, <1>4 DEF UsersInv

\* The inductive invariant of the page.
LEMMA UsersInvHolds == UsersPageSpec => []UsersInv
BY UsersInvInit, UsersInvStep, PTL DEF UsersPageSpec

\* The password that is shown opens the account it is shown for, and the list
\* of a page that waits for nothing is what the server has
\* (app/settings/users/page.tsx, api/admin/users).
THEOREM PageIsTrueHolds == UsersPageSpec => []PageIsTrue
<1>1. ASSUME UsersInv PROVE PageIsTrue
  <2> DEFINE u == shownPassword.user
  <2>1. There(u) /\ u \notin again => accounts[u].password = shownPassword.password
    BY <1>1 DEF UsersInv, ShownIsTheLast, There
  <2>2. ASSUME \A r \in UserRequests : userRequests[r].for = "nothing", ~lost, ~old
        PROVE  listed = Listing
    BY <1>1, <2>2 DEF UsersInv, ListIsOnItsWay, Brings, Brought, Changing
  <2> QED
    BY <2>1, <2>2 DEF PageIsTrue
<1> QED
  BY <1>1, UsersInvHolds, PTL

=============================================================================
