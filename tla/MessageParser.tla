--------------------------- MODULE MessageParser ---------------------------
(***************************************************************************)
(* The parser every connection has for its own                             *)
(* (src/server/src/protocol/parser/MessageParser.ts): it appends a frame   *)
(* to its buffer and takes the first balanced object out of it, skipping   *)
(* braces in strings.  It is called once per frame, so of two messages in  *)
(* a frame the second waits for the next frame.                            *)
(*                                                                         *)
(* A character is an opening or a closing brace, a quote, a backslash or   *)
(* anything else; the objects JSON.parse accepts are a parameter.          *)
(***************************************************************************)
EXTENDS Naturals, Sequences, FiniteSets, SequencesExt

Characters == {"{", "}", "quote", "backslash", "x"}

\* One step of the loop over the characters from the first brace on; faulty:
\* strings are not looked at.
ScanBraces(state, ch) ==
  LET depth == CASE ch = "{" -> state.depth + 1
                 [] ch = "}" -> state.depth - 1
                 [] OTHER -> state.depth
  IN  IF state.done THEN state
      ELSE [state EXCEPT !.length = @ + 1, !.depth = depth, !.done = (depth = 0)]

Scan(state, ch) ==
  IF state.done THEN state
  ELSE LET s == [state EXCEPT !.length = @ + 1] IN
    IF s.escaped THEN [s EXCEPT !.escaped = FALSE]
    ELSE IF ch = "backslash" /\ s.inString THEN [s EXCEPT !.escaped = TRUE]
    ELSE IF ch = "quote" THEN [s EXCEPT !.inString = ~@]
    ELSE IF s.inString THEN s
    ELSE LET depth == CASE ch = "{" -> s.depth + 1
                        [] ch = "}" -> s.depth - 1
                        [] OTHER -> s.depth
         IN  [s EXCEPT !.depth = depth, !.done = (depth = 0)]

\* The length of the balanced object at the start of text, 0 if it is not
\* complete.
ObjectLength(text) ==
  LET end == FoldLeft(Scan, [depth |-> 0, inString |-> FALSE, escaped |-> FALSE,
                             length |-> 0, done |-> FALSE], text)
  IN  IF end.done THEN end.length ELSE 0

From(text, i) == SubSeq(text, i, Len(text))

\* parse(): the buffer it leaves and the object it returns, or <<>>.  A
\* balanced text that JSON.parse refuses is skipped up to its brace and the
\* search goes on with the next brace.
parse(buffer, frame, Valid) ==
  LET text == buffer \o frame
      Opens == {i \in DOMAIN text : text[i] = "{"}
      Object(i) == SubSeq(text, i, i + ObjectLength(From(text, i)) - 1)
      Refused == {i \in Opens : Object(i) # <<>> /\ Object(i) \notin Valid}
      Stops == {i \in Opens \ Refused : \A j \in Opens : j < i => j \in Refused}
      Skipped == {i \in Refused : \A j \in Opens : j < i => j \in Refused}
      Rest == IF Skipped = {} THEN 1
              ELSE 1 + (CHOOSE i \in Skipped : \A j \in Skipped : j <= i)
  IN  IF \E i \in Stops : Object(i) # <<>>
        THEN LET i == CHOOSE i \in Stops : TRUE IN
               [message |-> Object(i), buffer |-> From(text, i + Len(Object(i)))]
        ELSE [message |-> <<>>, buffer |-> From(text, Rest)]

\* The calls for a sequence of frames: what they returned, and what is left.
Calls(frames, Valid) ==
  FoldLeft(LAMBDA s, frame :
             LET p == parse(s.buffer, frame, Valid) IN
               [buffer |-> p.buffer,
                messages |-> IF p.message = <<>> THEN s.messages
                             ELSE Append(s.messages, p.message)],
           [buffer |-> <<>>, messages |-> <<>>], frames)

=============================================================================
