------------------------------ MODULE SecretKeys ------------------------------
(***************************************************************************)
(* The secret of the server (server/src: infrastructure/auth,              *)
(* infrastructure/crypto, lib/auth.ts, lib/auth-edge.ts, server.ts): it    *)
(* signs the session cookies and encrypts what the agents' secrets are     *)
(* sealed as.  Several places read it, each at a time of its own, and two  *)
(* of them replace a secret they find weak.                                *)
(*                                                                         *)
(* A secret is a number and what the two lists of insecure patterns say of *)
(* it.  External: the framework puts a secret of the .env file into the    *)
(* environment if that has none, before it is prepared or then.            *)
(***************************************************************************)
EXTENDS Naturals

CONSTANT MaxGenerated   \* bound: secrets generated

ASSUME SecretAssumption == MaxGenerated \in Nat

\* "soft": weak for SecretKeyManager only, whose list is longer.
Kinds == {"strong", "soft", "weak"}
NoSecret == [id |-> 0, kind |-> "none"]
Given == {NoSecret} \cup [id : {1}, kind : Kinds]
InFile == {NoSecret} \cup [id : {2}, kind : Kinds]

Readers == {"encryption", "agents", "clients"}   \* server.ts 50, 93, 54
Pages == {"auth", "edge"}                        \* lib/auth.ts, lib/auth-edge.ts

VARIABLES
  given,      \* the secret the process is started with
  env,        \* process.env.JWT_SECRET
  file,       \* the .env file
  phase,      \* "down", "starting", "prepared", "up"
  keys,       \* per reader or page: the secret it uses
  sealed,     \* the secret the agent's one was encrypted with
  signed,     \* the secret a session cookie was signed with
  writing,    \* a secret that is generated but not written yet, and for whom
  generated,  \* bound: secrets generated so far
  unlucky     \* history: one of them looked weak by chance

secretVars == <<given, env, file, phase, keys, sealed, signed, writing, generated, unlucky>>

NotWriting == [secret |-> NoSecret, for |-> "nobody"]
Unread == [r \in Readers \cup Pages |-> NoSecret]

SecretsInit ==
  /\ given \in Given /\ file \in InFile /\ env = NoSecret
  /\ phase = "down" /\ keys = Unread
  /\ sealed = NoSecret /\ signed = NoSecret
  /\ writing = NotWriting /\ generated = 0 /\ unlucky = FALSE

Either(a, b) == IF a = NoSecret THEN b ELSE a

Start ==
  /\ phase = "down" /\ phase' = "starting"
  /\ env' \in {given, Either(given, file)}
  /\ UNCHANGED <<given, file, keys, sealed, signed, writing, generated, unlucky>>

\* isWeak of SecretKeyManager, and the list of lib/auth.ts.
isWeak(secret) == secret.kind # "strong"
PageFindsWeak(secret) == secret.kind \in {"weak", "none"}

\* A new secret; rarely its letters hold one of the patterns.
Generate(for) ==
  /\ generated < MaxGenerated /\ generated' = generated + 1
  /\ \E kind \in {"strong", "soft", "weak"} :
       /\ writing' = [secret |-> [id |-> generated + 3, kind |-> kind], for |-> for]
       /\ unlucky' = (unlucky \/ kind # "strong")

MayRead(r) ==
  /\ keys[r] = NoSecret /\ writing = NotWriting
  /\ CASE r = "encryption" -> phase = "starting"
       [] r = "agents" -> phase = "prepared"
       [] r = "clients" -> keys["agents"] # NoSecret
       [] OTHER -> phase = "up"

\* Faulty: what is in the file is always taken.
FromFileFirst(secret) == Either(file, secret)

\* The environment before the file.
Existing(secret) == Either(secret, file)

ensureJWTSecret(r) ==
  /\ r \in Readers /\ MayRead(r)
  /\ IF isWeak(Existing(env)) THEN Generate(r) /\ UNCHANGED keys
     ELSE /\ keys' = [keys EXCEPT ![r] = Existing(env)]
          /\ UNCHANGED <<writing, generated, unlucky>>
  /\ UNCHANGED <<given, env, file, phase, sealed, signed>>

\* When the first request imports it; it does not look into the file.
ensureOfPages ==
  /\ MayRead("auth")
  /\ IF PageFindsWeak(env) THEN Generate("auth") /\ UNCHANGED keys
     ELSE /\ keys' = [keys EXCEPT !["auth"] = env]
          /\ UNCHANGED <<writing, generated, unlucky>>
  /\ UNCHANGED <<given, env, file, phase, sealed, signed>>

\* The middleware takes any secret that is long enough.
getKeyAndVersion ==
  /\ MayRead("edge") /\ env # NoSecret
  /\ keys' = [keys EXCEPT !["edge"] = env]
  /\ UNCHANGED <<given, env, file, phase, sealed, signed, writing, generated, unlucky>>

\* The file first, then the environment.
generateAndPersist ==
  /\ writing # NotWriting
  /\ file' = writing.secret /\ env' = writing.secret
  /\ keys' = [keys EXCEPT ![writing.for] = writing.secret]
  /\ writing' = NotWriting
  /\ UNCHANGED <<given, phase, sealed, signed, generated, unlucky>>

\* app.prepare(), and the server listens once agents and clients are served.
prepare ==
  /\ phase = "starting" /\ keys["encryption"] # NoSecret /\ phase' = "prepared"
  /\ env' = Either(env, file)
  /\ UNCHANGED <<given, file, keys, sealed, signed, writing, generated, unlucky>>

Listens ==
  /\ phase = "prepared" /\ keys["agents"] # NoSecret /\ phase' = "up"
  /\ UNCHANGED <<given, env, file, keys, sealed, signed, writing, generated, unlucky>>

\* The process stops or crashes.  A write of the file that is cut short may
\* leave it empty.
Stops ==
  /\ phase # "down" /\ phase' = "down" /\ env' = NoSecret /\ keys' = Unread
  /\ file' \in IF writing = NotWriting THEN {file} ELSE {file, NoSecret, writing.secret}
  /\ writing' = NotWriting
  /\ UNCHANGED <<given, sealed, signed, generated, unlucky>>

-----------------------------------------------------------------------------
\* Every agent that is known registers: its secret is encrypted anew.
AgentRegisters ==
  /\ phase = "up" /\ sealed' = keys["agents"]
  /\ UNCHANGED <<given, env, file, phase, keys, signed, writing, generated, unlucky>>

SignsIn ==
  /\ phase = "up" /\ keys["auth"] # NoSecret /\ signed' = keys["auth"]
  /\ UNCHANGED <<given, env, file, phase, keys, sealed, writing, generated, unlucky>>

SecretsNext ==
  \/ Start \/ prepare \/ Listens \/ Stops \/ generateAndPersist
  \/ \E r \in Readers : ensureJWTSecret(r)
  \/ ensureOfPages \/ getKeyAndVersion \/ AgentRegisters \/ SignsIn

SecretsSpec == SecretsInit /\ [][SecretsNext]_secretVars

\* Whoever reads the secret reads the same one, so that orchestrator and
\* terminals can decrypt what the registration encrypted and
\* the middleware accepts what the login signed; and after any number of
\* restarts and crashes both can still be read.  Excepted are a generated
\* secret that looks weak by chance, and, over a restart, a weak one in the
\* environment, which is replaced at every start.
SecretsStayReadable ==
  ~unlucky =>
    LET inUse == {keys[r] : r \in Readers \cup Pages} \ {NoSecret}
    IN  /\ \A a, b \in inUse : a = b
        /\ ~(isWeak(given) /\ given # NoSecret) =>
             \A a \in inUse : sealed \in {NoSecret, a} /\ signed \in {NoSecret, a}

=============================================================================
