--------------------------- MODULE MessageDispatch ---------------------------
(***************************************************************************)
(* What becomes of a message once the parser has it (src/server/src:       *)
(* protocol/validator, protocol/router, protocol/normalizer, and the       *)
(* handlers of `message' in AgentConnectionManager.ts and                  *)
(* WebClientConnectionManager.ts): its type, its schema, its handler, and  *)
(* for the output of a command what is left of its text.                   *)
(*                                                                         *)
(* A message is its type, the fields it has (one that is null is as one    *)
(* that is missing, and so is a key that has not 64 characters), those of  *)
(* them whose value is not what it should be, those that are longer than a *)
(* field may be, and whether the database fails while it is handled.  A    *)
(* registration takes the time of `late' further messages.                 *)
(***************************************************************************)
EXTENDS Naturals, Sequences, FiniteSets, FiniteSetsExt, SequencesExt

Schema(required, checked) == [required |-> required, checked |-> checked]

MESSAGE_SCHEMAS ==
  [register |-> Schema({"secretKey", "hostname", "ip"}, {"hostname", "ip"}),
   heartbeat |-> Schema({"machineId", "metrics"}, {"metrics"}),
   command_response |-> Schema({"commandId", "output", "exitCode"}, {"exitCode"}),
   terminal_output |-> Schema({"sessionId", "output"}, {"output"}),
   spawn_terminal |-> Schema({"machineId"}, {}),
   terminal_input |-> Schema({"machineId", "sessionId"}, {}),
   terminal_resize |-> Schema({"machineId", "sessionId", "cols", "rows"}, {"cols", "rows"}),
   execute_command |-> Schema({"machineId", "command"}, {"command"}),
   update_agent |-> Schema({"machineId"}, {}),
   trigger_scan |-> Schema({"machineId"}, {})]

\* The fields whose value a schema looks at; what was typed is in one of two.
LookedAt(data) ==
  IF data.type = "terminal_input" THEN {IF "data" \in data.fields THEN "data" ELSE "input"}
  ELSE MESSAGE_SCHEMAS[data.type].checked

Valid(data) ==
  /\ data.type \in DOMAIN MESSAGE_SCHEMAS
  /\ MESSAGE_SCHEMAS[data.type].required \subseteq data.fields
  /\ LookedAt(data) \subseteq data.fields \ data.ill

\* A field that is too long is cut.
sanitize(data) == [data EXCEPT !.long = {}]

agentHandlers == {"register", "heartbeat", "command_response", "terminal_output",
                  "port_discovery", "metrics", "security_event"}
clientHandlers == {"spawn_terminal", "terminal_input", "terminal_resize",
                   "execute_command", "update_agent", "trigger_scan"}

\* What the handler of a keystroke takes: not what the schema has looked at.
Typed(data) == IF "input" \in data.fields THEN "input" ELSE "data"

\* A handler's own look at its message; what it does not like it only logs.
Takes(data) ==
  CASE data.type = "terminal_input" -> Typed(data) \in data.fields
    [] data.type = "command_response" -> "commandId" \notin data.ill
    [] data.type = "terminal_output" -> "sessionId" \notin data.ill
    [] OTHER -> TRUE

\* The handler gets what the message says, as the peer the connection is for;
\* a type without a handler is logged.
route(c, handlers, data, peer) ==
  IF data.type \in handlers /\ Takes(data)
    THEN [c EXCEPT !.handled = Append(@, [sanitize(data) EXCEPT !.from = peer])]
    ELSE c

-----------------------------------------------------------------------------
(* A connection: whose it is, the messages until its registration is done, *)
(* whether the server is closing it, and what was handled.                 *)

Unregistered == "nobody"
NewConnection == [peer |-> Unregistered, due |-> 0, closing |-> FALSE, handled |-> <<>>]

\* The await of the registration ends.
RegistrationProceeds(c, machine) ==
  [c EXCEPT !.due = IF @ = 0 THEN 0 ELSE @ - 1, !.peer = IF c.due = 1 THEN machine ELSE @]

\* A key that is not hexadecimal closes the connection; then, and when the
\* database fails, the connection stays whose it was.
registerAgent(c, data, late) ==
  IF "secretKey" \in data.ill THEN [c EXCEPT !.closing = TRUE]
  ELSE IF data.fails THEN c
  ELSE [c EXCEPT !.due = IF @ = 0 THEN late + 1 ELSE @,
                 !.handled = Append(@, sanitize(data))]

\* A message without a type: the server closes, and still takes what was sent
\* before the agent knows.
handleAgentMessage(c, data, machine, late) ==
  LET now == RegistrationProceeds(c, machine) IN
  IF data.type = "none" THEN [now EXCEPT !.closing = TRUE]
  ELSE IF ~Valid(data) THEN now
  ELSE IF data.type = "register" THEN registerAgent(now, data, late)
  ELSE IF now.peer # Unregistered THEN route(now, agentHandlers, data, now.peer)
  ELSE IF data.type = "heartbeat" /\ "machineId" \notin data.ill
    THEN route([now EXCEPT !.peer = data.from], agentHandlers, data, data.from)
  ELSE now

handleClientMessage(c, data, user) ==
  IF data.type = "none" \/ ~Valid(data) THEN c ELSE route(c, clientHandlers, data, user)

OfAgent(messages, machine, late) ==
  FoldLeft(LAMBDA c, data : handleAgentMessage(c, data, machine, late), NewConnection, messages)

OfClient(messages, user) ==
  FoldLeft(LAMBDA c, data : handleClientMessage(c, data, user), NewConnection, messages)

-----------------------------------------------------------------------------
(* The output of a command.  A character is printable with a code of 64 and *)
(* more ("x", "["), printable below ("1", "("), an escape, a control       *)
(* character a terminal does not obey, or the mark of text that is no      *)
(* UTF-8.                                                                  *)

Final == {"x", "["}

\* Where an escape sequence that begins at i ends; one that is cut off ends
\* with the text.
SequenceEnd(text, i) ==
  IF i < Len(text) /\ text[i + 1] = "["
    THEN Min({Len(text)} \cup {j \in (i + 2)..Len(text) : text[j] \in Final})
  ELSE IF i + 2 <= Len(text) /\ text[i + 1] = "(" THEN i + 2 ELSE i

\* The loop over the characters; upto: the last one that was taken.
TakeCharacter(text, s, i) ==
  IF i <= s.upto THEN s
  ELSE IF text[i] = "control" THEN [s EXCEPT !.upto = i]
  ELSE LET last == IF text[i] = "escape" THEN SequenceEnd(text, i) ELSE i
       IN  [upto |-> last, kept |-> s.kept \o SubSeq(text, i, last)]

Printable(text) ==
  FoldLeft(LAMBDA s, i : TakeCharacter(text, s, i), [upto |-> 0, kept |-> <<>>],
           [i \in 1..Len(text) |-> i]).kept

\* Nothing is left of a text of which less than 60 per cent can be printed.
normalize(text) ==
  LET kept == Printable(text) IN
  IF (\E i \in DOMAIN text : text[i] = "replacement") \/ 10 * Len(kept) < 6 * Len(text)
    THEN <<>> ELSE kept

=============================================================================
