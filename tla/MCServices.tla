----------------------------- MODULE MCServices -----------------------------
(***************************************************************************)
(* The parts of the system that share no state with the others, checked    *)
(* side by side: the first state chooses the part that runs (or the input  *)
(* of an algorithm), the others stay where they are.                       *)
(***************************************************************************)
EXTENDS AgentRuntime, AgentMonitor, NotificationDigest, SecurityEvents,
        PackageScan, CveMirror, UserAdmin, ServerUpdate, ScanProgress,
        VersionRanges, JobStrategy, JobTargets, MessageParser, MessageDispatch,
        UsersPage, NotificationsPage, AgentConnections, TLC

CONSTANT Parts   \* the parts of this run

VARIABLES
  part,   \* the part that runs
  input   \* the input of an algorithm

-----------------------------------------------------------------------------
(* Inputs of the algorithms.                                               *)

NoInput == [of |-> "nothing"]

\* A range of up to four events at versions 1 to 6, a version in, between,
\* before or after them, and an ecosystem the entry and the package may name.
Ranges ==
  UNION {{e \in [1..n -> [kind : {"introduced", "fixed", "last_affected"},
                          at : 1..6]] : WellFormed(e)} : n \in 0..4}

NamedEcosystems == {"none", "npm"}

RangeInputs ==
  [of : {"ranges"}, events : Ranges, version : 1..7,
   entry : NamedEcosystems, package : NamedEcosystems \cup {"Debian"}]

\* Seven machines: two distributions and one text that is no object, two roles
\* and none, and a tag only the first has.
Fleet ==
  {[id |-> i, status |-> IF i = 4 THEN <<"offline">> ELSE <<"online">>,
    hostname |-> <<"host", ToString(i)>>, ip |-> <<ToString(i)>>,
    osInfo |-> [parts |-> IF i = 7 THEN <<>> ELSE <<"debian", IF i < 3 THEN "11" ELSE "12">>,
                text |-> <<"debian">>],
    tags |-> CASE i = 1 -> [role |-> <<"web">>, site |-> <<"north">>]
               [] i \in 2..3 -> [role |-> <<"web">>]
               [] OTHER -> <<>>] : i \in 1..7}

Conditions ==
  {[field |-> f, op |-> op, value |-> v] :
     f \in {<<"os">>, <<"status">>, <<"role">>, <<"tag", "site">>, <<"hostname">>, <<"colour">>},
     op \in {"none", "eq", "contains"},
     v \in {<<>>, <<"debian">>, <<"web">>, <<"offline">>, <<"host">>}}

Queries ==
  {NoQuery} \cup [match : {"all", "any"}, conditions : UNION {[1..n -> Conditions] : n \in 0..1}]
  \cup [match : {"all", "any"},
        conditions : {<<c, [field |-> <<"os">>, op |-> "contains", value |-> <<"11">>]>> :
                        c \in Conditions}]

Groups == [some |-> [type |-> "static", members |-> {2, 4, 9}, query |-> NoQuery],
           web  |-> [type |-> "dynamic", members |-> {},
                     query |-> [match |-> "all",
                                conditions |-> <<[field |-> <<"role">>, op |-> "eq",
                                                  value |-> <<"web">>]>>]]]

\* A list of one to seven machines, and of one that was deleted, with strategies
\* in which a field is missing, the smallest, below, at or above the number of
\* targets and the limits, and no whole number (half a target and a half) ...
WaveInputs ==
  [of : {"waves"}, targetType : {"adhoc"}, groupId : {NoGroup}, dynamicQuery : {NoQuery},
   machineIds : {1..n : n \in 1..7} \cup {{1, 8}},
   strategy : [concurrency : {-1, Missing, 1, 5, 1000},
               batchSize : {-1, Missing, 1, 2, 3, 4, 5, 7, 13, 14, 15, 16},
               batchPercent : {-5, Missing, 1, 29, 30, 57, 66, 100, 199, 200, 300}]]

\* ... and queries and groups, in waves of two.
TargetInputs ==
  [of : {"waves"}, targetType : {"adhoc", "group", "dynamic"},
   groupId : {NoGroup, "some", "web", "deleted"}, dynamicQuery : Queries, machineIds : {{}, {3, 8}},
   strategy : {[concurrency |-> Missing, batchSize |-> 2 * Grain, batchPercent |-> Missing]}]

\* Three kinds of message: an empty object, one with an object in it, and one
\* with braces, an escaped quote and a backslash in a string.
Messages ==
  {<<"{", "}">>, <<"{", "x", "{", "}", "}">>,
   <<"{", "quote", "}", "backslash", "quote", "{", "quote", "}">>}

\* Up to three messages; their text is cut after the characters in cuts.
FrameInputs ==
  UNION {[of : {"frames"}, sent : {sent}, junk : BOOLEAN,
          cuts : {S \in SUBSET (1..Len(FlattenSeq(sent))) : Cardinality(S) <= 2}] :
         sent \in UNION {[1..n -> Messages] : n \in 1..2}}

\* What an agent sends, for "m1" unless it says otherwise, and what it should
\* not send: values that are no values, fields that are missing, types the
\* server has no schema or no handler for, no type at all.
Says(type, fields, ill) ==
  [type |-> type, fields |-> fields, ill |-> ill, long |-> {}, from |-> "m1", fails |-> FALSE]

AgentMessages ==
  {Says("register", {"secretKey", "hostname", "ip"}, ill) : ill \in {{}, {"ip"}, {"secretKey"}}}
  \cup {[Says("register", {"secretKey", "hostname", "ip"}, {}) EXCEPT !.fails = TRUE],
        Says("port_discovery", {"ports"}, {}), Says("security_event", {"eventType"}, {}),
        Says("command_response", {"commandId", "output", "exitCode"}, {"commandId"})}
  \cup {Says("heartbeat", {"machineId", "metrics"}, ill) : ill \in {{}, {"machineId"}, {"metrics"}}}
  \cup {[Says("heartbeat", {"machineId", "metrics"}, {}) EXCEPT !.from = "m2"],
        [Says("command_response", {"commandId", "output", "exitCode"}, {}) EXCEPT !.long = {"output"}],
        Says("command_response", {"commandId", "output"}, {}), Says("terminal_output", {"sessionId"}, {}),
        Says("spawn_terminal", {"machineId"}, {}), Says("metrics", {"metrics"}, {}), Says("none", {}, {})}

\* What a tab sends, and what it should not.
ClientMessages ==
  {Says("terminal_input", {"machineId", "sessionId"} \cup said, ill) :
     said \in SUBSET {"data", "input"}, ill \in SUBSET {"data", "input"}}
  \cup {Says("terminal_resize", {"machineId", "sessionId", "cols", "rows"}, ill) : ill \in {{}, {"cols"}}}
  \cup {Says(type, {"machineId"}, {}) : type \in {"spawn_terminal", "update_agent", "trigger_scan",
                                                 "execute_command", "heartbeat", "none"}}

UpTo(n, S) == UNION {[1..k -> S] : k \in 0..n}

DispatchInputs ==
  [of : {"agent messages"}, sent : UpTo(3, AgentMessages), late : 0..1]
  \cup [of : {"client messages"}, sent : UpTo(2, ClientMessages), late : {0}]

OutputInputs ==
  [of : {"output"}, text : UpTo(5, {"x", "[", "1", "(", "escape", "control"})
                             \cup [1..3 -> {"x", "control", "replacement"}]]

-----------------------------------------------------------------------------
\* Agents that say the same hostname and ip; they are alike.
SameHost == [a \in Agents |-> CHOOSE h \in Hosts : TRUE]
FirstConnection == CHOOSE s \in Sockets : TRUE
FirstAgent == CHOOSE a \in Agents : TRUE

ServicesInit ==
  /\ AgentInit /\ MonitorInit /\ DigestInit /\ EventsInit /\ ScanInit
  /\ MirrorInit /\ UsersInit /\ UpdateInit /\ ProgressInit
  /\ UsersPageInit /\ NotificationsPageInit /\ ConnectionInit
  /\ part \in Parts
  /\ peer[FirstConnection] = FirstAgent
  /\ part # "connections" => peer = [s \in Sockets |-> FirstAgent]
  /\ part # "packages" => affected = {}
  /\ part # "mirror" => mode = "scoped"
  /\ part # "update" => statusFile = NoFile
  /\ part # "users page" => \A u \in PageUsers : There(u)
  /\ part # "notifications page" => configRow.password = NoSecretYet
  /\ input \in IF part = "algorithms"
                 THEN RangeInputs \cup WaveInputs \cup TargetInputs \cup FrameInputs
                        \cup DispatchInputs \cup OutputInputs
                 ELSE {NoInput}

Stays(p, vars) == IF part = p THEN TRUE ELSE UNCHANGED vars

Runs(p) ==
  /\ part = p /\ UNCHANGED <<part, input>>
  /\ Stays("agent", agentVars) /\ Stays("monitor", monitorVars)
  /\ Stays("digest", digestVars) /\ Stays("events", eventsVars)
  /\ Stays("packages", scanVars) /\ Stays("mirror", mirrorVars)
  /\ Stays("users", userVars) /\ Stays("update", updateVars)
  /\ Stays("progress", progressVars)
  /\ Stays("users page", usersPageVars)
  /\ Stays("notifications page", notificationsPageVars)
  /\ Stays("connections", connectionVars)

ServicesNext ==
  \/ Runs("agent") /\ AgentNext
  \/ Runs("monitor") /\ MonitorNext
  \/ Runs("digest") /\ DigestNext
  \/ Runs("events") /\ EventsNext
  \/ Runs("packages") /\ ScanNext
  \/ Runs("mirror") /\ MirrorNext
  \/ Runs("users") /\ UsersNext
  \/ Runs("update") /\ UpdateNext
  \/ Runs("progress") /\ ProgressNext
  \/ Runs("users page") /\ UsersPageNext
  \/ Runs("notifications page") /\ NotificationsPageNext
  \/ Runs("connections") /\ ConnectionNext

servicesVars == <<part, input, agentVars, monitorVars, digestVars, eventsVars,
                  scanVars, mirrorVars, userVars, updateVars, progressVars,
                  usersPageVars, notificationsPageVars, connectionVars>>

Spec == ServicesInit /\ [][ServicesNext]_servicesVars

-----------------------------------------------------------------------------
(* Fairness: what the code does of its own accord once it can, never what  *)
(* a user, a process, the network or the disk decides.                     *)

\* The goroutines of the agent run; a process need not end, a dial need not
\* succeed.
AgentFairness ==
  /\ WF_agentVars(part = "agent" /\ LoopStep)
  /\ WF_agentVars(part = "agent" /\ TerminateHangsUp)
  /\ WF_agentVars(part = "agent" /\ UpdateHangsUp)
  /\ WF_agentVars(part = "agent" /\ UpdateLooks)
  /\ WF_agentVars(part = "agent" /\ UpdateCloses)
  /\ \A c \in Commands : WF_agentVars(part = "agent" /\ CommandStep(c))

\* Time passes, tickers tick, and of infinitely many scans one arrives.
MonitorFairness ==
  /\ WF_monitorVars(part = "monitor" /\ HalfHourPasses)
  /\ \A k \in Checkers : WF_monitorVars(part = "monitor" /\ CheckStep(k))
  /\ \A s \in Scanners :
       /\ WF_monitorVars(part = "monitor" /\ HeartbeatScan(s))
       /\ WF_monitorVars(part = "monitor" /\ ScanStep(s))
       /\ SF_monitorVars(part = "monitor" /\ PostScan(s, TRUE))

\* The mirror runs daily, agents scan, and of infinitely many requests of
\* a kind one succeeds.
MirrorFairness ==
  /\ WF_mirrorVars(part = "mirror" /\ Scheduled)
  /\ WF_mirrorVars(part = "mirror" /\ ScanArrives)
  /\ \A c \in Copies :
       /\ WF_mirrorVars(part = "mirror" /\ MirrorStep(c))
       /\ SF_mirrorVars(part = "mirror" /\ listOsvObjects(c))
       /\ SF_mirrorVars(part = "mirror" /\ (Fetched(c) \/ RecordsStored(c, TRUE)))

\* Requests end, polls are answered or time out, the page's interval ticks;
\* neither the script nor a server need come to an end.
UpdateFairness ==
  /\ WF_updateVars(part = "update" /\ PostStep)
  /\ WF_updateVars(part = "update" /\ Tick)
  /\ \A p \in Polls : WF_updateVars(part = "update" /\ PollStep(p))

FairSpec == /\ Spec
            /\ AgentFairness /\ MonitorFairness /\ MirrorFairness /\ UpdateFairness

-----------------------------------------------------------------------------
(* What the algorithms compute, against a reference.                       *)

\* A package is matched with an entry exactly if the reference says so of its
\* version and their ecosystems do not differ.
RangesAgree ==
  input.of = "ranges" =>
    LET pkg == [name |-> "p", ecosystem |-> input.package, version |-> input.version]
        entry == [name |-> "p", ecosystem |-> input.entry, versions |-> {},
                  ranges |-> {input.events}]
    IN  isAffected(pkg, {entry}) <=>
          /\ Reference(input.version, input.events)
          /\ \/ "none" \in {input.entry, input.package}
             \/ input.entry = input.package

\* The machines of the fleet a condition means.  Without an operator it is for
\* the whole text, also that of a host name.
MeantBy(condition) ==
  LET Of(exact, within) == IF condition.op = "contains" THEN within ELSE exact
      value == condition.value
  IN  CASE condition.field = <<"colour">> -> {}
        [] value = <<>> -> Of(CASE condition.field = <<"role">> -> 4..7
                                [] condition.field = <<"tag", "site">> -> 2..7
                                [] OTHER -> {}, 1..7)
        [] condition.field = <<"os">> /\ value = <<"debian">> -> Of({7}, 1..7)
        [] condition.field = <<"os">> /\ value = <<"11">> -> Of({}, {1, 2})
        [] condition.field = <<"status">> /\ value = <<"offline">> -> {4}
        [] condition.field = <<"hostname">> /\ value = <<"host">> -> Of({}, 1..7)
        [] condition.field = <<"role">> /\ value = <<"web">> -> 1..3
        [] OTHER -> {}

Meant(m, query) ==
  LET satisfied == {i \in DOMAIN query.conditions : m.id \in MeantBy(query.conditions[i])}
  IN  IF query.match = "any" THEN satisfied # {} ELSE satisfied = DOMAIN query.conditions

InOrder(ids) ==
  [i \in 1..Cardinality(ids) |->
     CHOOSE id \in ids : Cardinality({other \in ids : other <= id}) = i]


\* However the text of the messages is cut into frames, and also after an
\* object that is no JSON, the calls return them in their order and unchanged,
\* and as many calls as there are messages return all that have arrived.
MessagesReassembled ==
  input.of = "frames" =>
    LET junk == IF input.junk THEN <<"{", "quote", "quote", "quote", "x", "quote", "}">>
                ELSE <<>>
        text == junk \o FlattenSeq(input.sent)
        ends == SetToSortSeq(input.cuts \cup {0, Len(text)}, LAMBDA a, b : a < b)
        frames == [i \in 1..(Len(ends) - 1) |-> SubSeq(text, ends[i] + 1, ends[i + 1])]
                    \o [i \in 1..Len(input.sent) |-> <<>>]
    IN  Calls(frames, Messages).messages = input.sent

\* What the handlers read of a message; for an agent's, the machine is the one
\* of the connection.
Reads ==
  [register |-> {"secretKey", "hostname", "ip"}, heartbeat |-> {"metrics"},
   command_response |-> {"commandId", "output", "exitCode"},
   terminal_output |-> {"sessionId", "output"}, metrics |-> {"metrics"},
   port_discovery |-> {"ports"}, security_event |-> {"eventType"},
   spawn_terminal |-> {"machineId"}, terminal_input |-> {"machineId", "sessionId"},
   terminal_resize |-> {"machineId", "sessionId", "cols", "rows"},
   execute_command |-> {"machineId", "command"},
   update_agent |-> {"machineId"}, trigger_scan |-> {"machineId"}]

Readable(m) ==
  /\ m.type \in DOMAIN Reads
  /\ LET read == Reads[m.type] \cup (IF m.type = "terminal_input" THEN {Typed(m)} ELSE {})
     IN  read \subseteq m.fields \ (m.ill \ {"machineId"})

\* The messages the handlers wait for in vain: no schema names their type.
WithoutSchema(m) == m.type \in {"metrics", "port_discovery", "security_event"}

\* A keystroke that is given twice, as it should be and as it should not: the
\* schema looks at one of the two and the handler takes the other.
Ambiguous(m) ==
  /\ m.type = "terminal_input" /\ {"data", "input"} \subseteq m.fields
  /\ Cardinality(m.ill \cap {"data", "input"}) = 1

\* Which messages of an agent are to be handled, and as whose: its
\* registrations, and what it sends once one of them is done, or after a
\* heartbeat that named a machine.
Registration(i) ==
  input.sent[i].type = "register" /\ Readable(input.sent[i]) /\ ~input.sent[i].fails
Naming(i) == /\ input.sent[i].type = "heartbeat" /\ Readable(input.sent[i])
             /\ "machineId" \notin input.sent[i].ill
Registered(i) == \E j \in 1..(i - 1) : Registration(j) /\ j + input.late < i
Known(i) == Registered(i) \/ \E j \in 1..i : Naming(j)

ToBeHandled(i) ==
  LET m == input.sent[i] IN
  /\ Readable(m) /\ ~WithoutSchema(m)
  /\ IF input.of = "client messages" THEN m.type \in clientHandlers
     ELSE m.type \in agentHandlers /\ IF m.type = "register" THEN Registration(i) ELSE Known(i)

\* Whatever a peer sends, also when registrations fail: exactly the messages
\* whose handler finds what it reads are handled, in their order; those of a
\* client as the user who is signed in, those of an agent that has registered,
\* and of no other, as its machine, whatever they say.  Excepted are metrics,
\* ports and security events sent as messages of their own, which never reach
\* their handlers, and an ambiguous keystroke, which may do either.
MessagesHandled ==
  input.of \in {"agent messages", "client messages"} =>
    LET client == input.of = "client messages"
        handled == SelectSeq(IF client THEN OfClient(input.sent, "user").handled
                             ELSE OfAgent(input.sent, "m1", input.late).handled,
                             LAMBDA m : ~Ambiguous(m))
        wanted == SetToSortSeq({i \in DOMAIN input.sent :
                                  ToBeHandled(i) /\ ~Ambiguous(input.sent[i])},
                               LAMBDA a, b : a < b)
    IN  /\ Len(handled) = Len(wanted)
        /\ \A n \in DOMAIN handled :
             /\ handled[n].type = input.sent[wanted[n]].type
             /\ client => handled[n].from = "user"
             /\ ~client /\ Registered(wanted[n]) => handled[n].from = "m1"
             /\ handled[n].long = {}

Without(text, characters) == SelectSeq(text, LAMBDA ch : ch \notin characters)

\* All that a terminal shows or obeys is kept, in its order, unless the text is
\* no UTF-8 or more than two fifths of it is neither.
OutputKept ==
  input.of = "output" =>
    LET out == normalize(input.text) IN
    IF \E i \in DOMAIN input.text : input.text[i] = "replacement" THEN out = <<>>
    ELSE \/ Without(out, {"control"}) = Without(input.text, {"control"})
         \/ /\ out = <<>>
            /\ 5 * Len(Without(input.text, {"control"})) < 3 * Len(input.text)

\* The way of a message from the socket to its handler, and of output on.
MessagesArrive == MessagesReassembled /\ MessagesHandled /\ OutputKept

=============================================================================
