---------------------------- MODULE Generation -----------------------------
(***************************************************************************)
(* One constrained generation: CandleEngine::run_loop.  The model may      *)
(* sample any token the mask left open; the turn's cancel flag is set by   *)
(* another thread at any time.  A character that two tokens make together  *)
(* is "first" and then "rest"; alone, either decodes to the replacement    *)
(* character.                                                              *)
(***************************************************************************)
EXTENDS CallSession

CONSTANTS
    ToolCallCap,      \* TOOL_CALL_CAP
    LoopLength,       \* LOOP_SEQUENCE_LENGTH
    LoopThreshold,    \* LOOP_THRESHOLD
    InCallThreshold,  \* IN_CALL_LOOP_THRESHOLD
    InValueThreshold  \* IN_VALUE_LOOP_THRESHOLD

VARIABLES
    produced,   \* the tokens
    armed,      \* armed_at: {} or how many tokens there were
    watch,      \* call_watch
    streamed,   \* what the listener was given
    cancelled,  \* the flag
    stop        \* how it ended, or Running

vars == <<schema, session, produced, armed, watch, streamed, cancelled, stop>>

Running == "running"
Replacement == "?"

----------------------------------------------------------------------------
(* CallWatch: a lexer of its own over the arguments.                       *)

Fresh == [tokens |-> <<>>, inValue |-> <<>>, inString |-> FALSE, inKey |-> FALSE,
          escaped |-> FALSE, containers |-> <<>>, keyNext |-> FALSE]

InObject(w) == w.containers # <<>> /\ Last(w.containers) = "{"
InsideValue(w) == (w.inString /\ ~w.inKey) \/ "[" \in Range(w.containers)

\* Variant: the quote of a key is taken for the quote of a value.
ReadStructureKeyless(w, c) ==
    CASE c = "\"" -> [w EXCEPT !.inString = TRUE, !.keyNext = FALSE]
      [] c \in {"{", "["} -> [w EXCEPT !.containers = Append(@, c), !.keyNext = c = "{"]
      [] c \in {"}", "]"} -> [w EXCEPT !.containers = IF @ = <<>> THEN @ ELSE Front(@), !.keyNext = FALSE]
      [] c = "," -> [w EXCEPT !.keyNext = InObject(w)]
      [] c = ":" -> [w EXCEPT !.keyNext = FALSE]
      [] OTHER -> w

ReadStructure(w, c) ==
    CASE c = "\"" -> [w EXCEPT !.inString = TRUE, !.inKey = w.keyNext /\ InObject(w), !.keyNext = FALSE]
      [] c \in {"{", "["} -> [w EXCEPT !.containers = Append(@, c), !.keyNext = c = "{"]
      [] c \in {"}", "]"} -> [w EXCEPT !.containers = IF @ = <<>> THEN @ ELSE Front(@), !.keyNext = FALSE]
      [] c = "," -> [w EXCEPT !.keyNext = InObject(w)]
      [] c = ":" -> [w EXCEPT !.keyNext = FALSE]
      [] OTHER -> w

ReadInString(w, c) ==
    CASE w.escaped -> [w EXCEPT !.escaped = FALSE]
      [] ~w.escaped /\ c = "\\" -> [w EXCEPT !.escaped = TRUE]
      [] ~w.escaped /\ c = "\"" -> [w EXCEPT !.inString = FALSE, !.inKey = FALSE]
      [] OTHER -> w

ReadChar(w, c) == IF w.inString THEN ReadInString(w, c) ELSE ReadStructure(w, c)

\* Records one token, and whether any part of it was written inside a value.
Recorded(w, token, text) ==
    LET read[n \in 0..Len(text)] == IF n = 0 THEN w ELSE ReadChar(read[n - 1], text[n])
    IN [read[Len(text)] EXCEPT !.tokens = Append(@, token),
                               !.inValue = Append(@, \E n \in 0..Len(text) : InsideValue(read[n]))]

IsLooping(tokens, threshold) ==
    /\ Len(tokens) >= LoopLength * threshold
    /\ LET Block(k) == SubSeq(tokens, Len(tokens) - LoopLength * (k + 1) + 1, Len(tokens) - LoopLength * k)
       IN \A k \in 1..threshold - 1 : Block(k) = Block(0)

IsStuck(w) ==
    LET window == LoopLength * InCallThreshold
        shapeOnly == /\ Len(w.tokens) >= window
                     /\ \A i \in Len(w.tokens) - window + 1..Len(w.tokens) : ~w.inValue[i]
    IN IsLooping(w.tokens, IF shapeOnly THEN InCallThreshold ELSE InValueThreshold)

\* The token that armed the call carries its name too.
ArgumentsPart(token) ==
    IF "(" \in Range(token) THEN Suffix(token, FirstParen(token) + 1) ELSE token
Watched(token) ==
    Recorded(watch, token, IF watch.tokens = <<>> THEN ArgumentsPart(token) ELSE token)

----------------------------------------------------------------------------
(* What the user sees.                                                     *)

Halves == {"first", "rest"}

\* A half is completed by the one it was waiting for.
Joined(seq, c) ==
    IF c = "rest" /\ seq # <<>> /\ Last(seq) = "first" THEN Append(Front(seq), "whole") ELSE Append(seq, c)

Decode(tokens) ==
    LET text == FlattenSeq(tokens)
        joined[n \in 0..Len(text)] == IF n = 0 THEN <<>> ELSE Joined(joined[n - 1], text[n])
        whole == joined[Len(text)]
    IN [n \in DOMAIN whole |-> IF whole[n] \in Halves THEN Replacement ELSE whole[n]]

\* Variant: half a character is shown as it decodes.
DecodedAll(tokens) == Decode(tokens)

Decoded(tokens) ==
    LET text == Decode(tokens)
        sure == {n \in DOMAIN text : text[n] # Replacement}
    IN SubSeq(text, 1, Max({0} \union sure))

Stream(tokens) ==
    LET full == Decoded(tokens) IN
    IF Len(full) > Len(streamed) /\ IsPrefix(streamed, full) THEN full ELSE streamed

----------------------------------------------------------------------------
Init ==
    /\ schema \in Setups
    /\ session = Opened
    /\ produced = <<>>
    /\ armed = {}
    /\ watch = Fresh
    /\ streamed = <<>>
    /\ cancelled = FALSE
    /\ stop = Running

\* The flag is polled at the top of the loop, and the loop runs
\* for as many tokens as the caller granted (setting.max_tokens).
Generating == stop = Running /\ ~cancelled /\ Len(produced) < schema.budget

Ends(reason) ==
    /\ stop' = reason
    /\ UNCHANGED <<schema, session, produced, armed, watch, streamed, cancelled>>

Cancel ==
    /\ stop = Running /\ ~cancelled
    /\ cancelled' = TRUE
    /\ UNCHANGED <<schema, session, produced, armed, watch, streamed, stop>>

Cut ==
    /\ stop = Running
    /\ \/ Len(produced) >= schema.budget /\ Ends("Length")
       \/ Len(produced) < schema.budget /\ cancelled /\ Ends("Cancelled")

\* Variant: the stop tokens are left to the mask.
SampleableByMask(token) == Open(session, token)

Sampleable(token) == Open(session, token) /\ ~(token \in schema.stops /\ IsStructural(session))

ArmedBy(next, count) == IF IsStructural(next) /\ armed = {} THEN {count} ELSE armed
OverBudget(since, count) == \E start \in since : count - start >= ToolCallCap

\* The end of a pass that goes on to the next token, or ends with the call.
Shown(next, tokens) ==
    /\ produced' = tokens
    /\ streamed' = Stream(tokens)
    /\ stop' = IF SessionDone(next) THEN "ConstraintDone" ELSE Running

Dropped(tokens) ==
    /\ stop' = "CallTooLong"
    /\ produced' = tokens
    /\ UNCHANGED streamed

CutLoop(tokens) ==
    /\ stop' = "Loop"
    /\ produced' = SubSeq(tokens, 1, Len(tokens) - LoopLength * (LoopThreshold - 1))
    /\ UNCHANGED streamed

\* advance, the call's budget, the repetition guard, the listener, the end.
Taken(t, next) ==
    LET tokens == Append(produced, t)
        over == OverBudget(ArmedBy(next, Len(tokens)), Len(tokens))
        watching == IsStructural(next) /\ ~over
    IN /\ session' = next
       /\ armed' = ArmedBy(next, Len(tokens))
       /\ watch' = IF watching THEN Watched(t) ELSE watch
       /\ CASE over \/ (watching /\ IsStuck(watch')) -> Dropped(tokens)
            [] ~over /\ ~watching /\ IsLooping(tokens, LoopThreshold) -> CutLoop(tokens)
            [] OTHER -> Shown(next, tokens)
       /\ UNCHANGED <<schema, cancelled>>

\* One pass of the loop.
Step ==
    /\ Generating
    /\ LET open == {t \in schema.vocab : Sampleable(t)} IN
       IF open = {} THEN Ends("Forbidden")
       ELSE \E t \in open :
               IF t \in schema.stops THEN Ends("Token")
               ELSE IF Advance(session, t) = {} THEN Ends("Rejected")
               ELSE \E next \in Advance(session, t) : Taken(t, next)

Next == Cancel \/ Cut \/ Step

Spec == Init /\ [][Next]_vars

----------------------------------------------------------------------------
(* Properties.                                                             *)

TypeOK ==
    /\ schema \in Setups
    /\ session.stage \in {Prefix, Args, Ended}
    /\ session.tool \in Tools \union {NoTool}
    /\ Len(session.queue) <= LongestName + 1
    /\ Range(produced) \subseteq schema.vocab
    /\ Len(produced) <= schema.budget
    /\ armed \subseteq 1..schema.budget
    /\ Len(watch.tokens) = Len(watch.inValue)
    /\ stop \in {Running, "Cancelled", "Length", "Forbidden", "Token", "Rejected",
                 "CallTooLong", "Loop", "ConstraintDone"}

\* What the mask leaves open the session takes, wherever in a token the call
\* starts or ends: the grammar never fails a turn over a token it had allowed.
NeverRejected == stop # "Rejected"

\* The reason given for the end is the true one: no turn ends inside a call as
\* if the model had finished, a call is done only when it is closed, and prose
\* is never cut by a rule for calls, nor a call that is open by the one for prose.
EndsAsReported ==
    /\ stop = "Token" => session.stage = Prefix
    /\ stop = "ConstraintDone" => session.stage = Ended
    /\ stop = "CallTooLong" => armed # {}
    /\ stop = "Loop" => session.stage # Args /\ (session.stage = Prefix => armed = {})
    /\ stop = "Length" => Len(produced) = schema.budget
    /\ stop = Running => session.stage # Ended
    /\ stop = Running => \A start \in armed : Len(produced) - start < ToolCallCap

\* What was shown is never taken back, unless a loop was cut, and at the end
\* only the character that was not complete has not been shown.
StreamIsTheAnswer ==
    /\ stop # "Loop" => IsPrefix(streamed, Decode(produced))
    /\ stop \in {Running, "Length", "Cancelled", "Token", "ConstraintDone"} => streamed = Decoded(produced)

\* What the turn is told of a generation is what was written: its end and its text.
ToldAsWritten == EndsAsReported /\ StreamIsTheAnswer

\* "A tool call that armed the grammar and never closed" is what CallTooLong
\* says; the call's budget is looked at before the call's end.
DroppedCallsWereOpen == stop = "CallTooLong" => session.stage = Args

\* The guard against repeated prose cuts no call: it comes before the look at the
\* call's end, so it does cut one that its last token closes.
LoopsAreProse == stop = "Loop" => armed = {}

\* In free text a token is closed only when the session would refuse it: prose
\* loses nothing to the mask.
ClosedTokensAreRefused ==
    stop = Running /\ session.stage = Prefix =>
        \A t \in schema.vocab : ~Open(session, t) => Advance(session, t) = {}

\* The lexer that decides which repetition is content stands where the grammar
\* stands: inside a value exactly when the automaton is in a text, in a choice
\* or in some array.
LexerAgrees ==
    session.stage = Args /\ stop = Running =>
        (InsideValue(watch) <=>
            \E i \in DOMAIN session.state.stack :
                LET f == session.state.stack[i] IN
                f.kind = "array" \/ (f.kind \in {"text", "choice"} /\ i = Len(session.state.stack)))
=============================================================================
