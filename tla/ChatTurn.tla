------------------------------ MODULE ChatTurn ------------------------------
(***************************************************************************)
(* The shell's turn (crates/tacet-cli/src/chat.rs): up to MAX_TURNS passes *)
(* of generating, running the call that was generated and feeding its      *)
(* result back; Ctrl-C as a key and as a signal, and the repetition guard, *)
(* which share one flag; the history; and the transcript, SessionLog, that *)
(* the next run of the shell may continue.                                 *)
(*                                                                         *)
(* The executor is ToolExecutor, here reduced to what it answers: a call   *)
(* is refused, malformed, repeated, or started and ended.                  *)
(***************************************************************************)
EXTENDS SessionLog

CONSTANTS
    MaxTurns,   \* MAX_TURNS, the passes of a turn
    Calls,      \* calls the model may write
    Screens,    \* subset of {"terminal", "pipe"}: where the output goes
    Limits      \* how often each of Bounded may happen

Bounded == {"run", "turn", "stop", "crash", "fail", "purge", "clear"}

ASSUME ChatTurnAssumption ==
    /\ MaxTurns \in Nat \ {0}
    /\ {"prose", "none", "partly"} \cap Calls = {}
    /\ Screens \subseteq {"terminal", "pipe"}
    /\ Limits \in [Bounded -> Nat]

VARIABLES
    pc,         \* where the shell is; "off" when it does not run
    screen,     \* of Screens
    running,    \* TURN_RUNNING
    cancel,     \* CANCEL
    turn,       \* what a turn starts afresh
    reply,      \* the last generation
    history,    \* the conversation the model is shown
    failed,     \* any_turn_failed
    spent

turnVars == <<pc, screen, running, cancel, turn, reply, history, failed>>
vars == <<turnVars, logVars, spent>>

-----------------------------------------------------------------------------
Place == {"off", "prompt", "cleared", "build", "generate", "check", "gate",
          "asked", "tool", "over", "user", "assistant"}

\* In raw mode Ctrl-C is a key, which the indicator's thread reads.
Raw == {"generate", "check", "gate", "tool"}

Text == Calls \union {"prose"}

Reply == [text : Text, stop : {"complete", "cut", "cancelled"}]

NoReply == [text |-> "prose", stop |-> "complete"]

Ending == {"open", "answered", "stopped", "repeating", "cut", "partly", "failed"}

Turn == [number : Nat, pass : 0 .. MaxTurns - 1,
         guard : BOOLEAN, made : SUBSET Calls, changed : BOOLEAN,
         ending : Ending, answer : Text \union {"none", "partly"},
         missed : BOOLEAN, stopped : BOOLEAN]

\* `missed`: a line of this turn could not be stored.  `stopped` is history: the
\* user said stop in this turn.
NewTurn(n) == [number |-> n, pass |-> 0, guard |-> FALSE, made |-> {},
               changed |-> FALSE, ending |-> "open", answer |-> "none",
               missed |-> FALSE, stopped |-> FALSE]

Init ==
    /\ LogInit
    /\ pc = "off" /\ screen \in Screens
    /\ running = FALSE /\ cancel = FALSE
    /\ turn = NewTurn(0) /\ reply = NoReply
    /\ history = << >> /\ failed = FALSE
    /\ spent = [what \in Bounded |-> 0]

Spend(what) ==
    /\ spent[what] < Limits[what]
    /\ spent' = [spent EXCEPT ![what] = @ + 1]

Free == UNCHANGED spent

Goto(place) == pc' = place

-----------------------------------------------------------------------------
(* Outside the turn *)

\* A one-shot run that names no session keeps no transcript.
StartRun ==
    /\ pc = "off" /\ Spend("run")
    /\ \/ LET earlier == LatestOf(Pruned) IN StartLog(earlier) /\ history' = earlier
       \/ StartLog(<< >>) /\ history' = << >>
       \/ NoLog /\ history' = << >>
    /\ Goto("prompt")
    /\ cancel' = FALSE /\ failed' = FALSE
    /\ UNCHANGED <<screen, running, turn, reply>>

\* The end of the process, whatever it was at.  The flags are the process's.
Gone ==
    /\ Goto("off")
    /\ running' = FALSE /\ history' = << >>
    /\ turn' = NewTurn(turn.number) /\ reply' = NoReply
    /\ log' = Closed /\ todo' = << >>
    /\ UNCHANGED <<screen, cancel, failed, saved>>

Quit ==
    /\ pc = "prompt"
    /\ Gone
    /\ Free /\ UNCHANGED <<files, copy>>

\* Variant: `/clear` goes on writing to the file of what it cleared.
ClearHistoryOnly ==
    /\ pc = "prompt" /\ history # << >> /\ Spend("clear")
    /\ history' = << >>
    /\ UNCHANGED <<logVars, pc, screen, running, cancel, turn, reply, failed>>

Clear ==
    /\ pc = "prompt" /\ history # << >> /\ Spend("clear")
    /\ history' = << >>
    /\ IF log.on THEN StartLog(<< >>) ELSE UNCHANGED logVars
    /\ UNCHANGED <<pc, screen, running, cancel, turn, reply, failed>>

Purge ==
    /\ files # << >> /\ Spend("purge")
    /\ PurgeLog
    /\ UNCHANGED turnVars

\* A message: the stop flag is cleared before a signal can be for this turn.
Ask ==
    /\ pc = "prompt" /\ Spend("turn")
    /\ Goto("cleared")
    /\ cancel' = FALSE
    /\ turn' = NewTurn(turn.number + 1) /\ reply' = NoReply
    /\ UNCHANGED <<logVars, screen, running, history, failed>>

Begin ==
    /\ pc = "cleared" /\ Goto("build")
    /\ running' = TRUE
    /\ Free /\ UNCHANGED <<logVars, screen, cancel, turn, reply, history, failed>>

-----------------------------------------------------------------------------
(* A pass *)

Within == UNCHANGED <<logVars, screen, running, history>>

End(ending, answer) ==
    /\ turn' = [turn EXCEPT !.ending = ending, !.answer = answer]
    /\ Goto("over")

\* Out of the loop with the turn still open after the last pass.
NextPass(t) ==
    IF t.pass + 1 = MaxTurns
      THEN turn' = t /\ Goto("over")
      ELSE turn' = [t EXCEPT !.pass = @ + 1] /\ Goto("build")

\* The prompt is refused, or the engine fails.
Fails ==
    /\ pc \in {"build", "generate"} /\ Spend("fail")
    /\ End("failed", "none") /\ failed' = TRUE
    /\ Within /\ UNCHANGED <<cancel, reply>>

Build ==
    /\ pc = "build" /\ Goto("generate")
    /\ turn' = [turn EXCEPT !.guard = FALSE]
    /\ Free /\ Within /\ UNCHANGED <<cancel, reply, failed>>

\* The text begins to repeat itself, in a shell that shows it as it comes: the guard
\* stops it through the flag of the user.
Repeats ==
    /\ pc = "generate" /\ ~ turn.guard
    /\ turn' = [turn EXCEPT !.guard = TRUE]
    /\ cancel' = TRUE
    /\ Free /\ Within /\ UNCHANGED <<pc, reply, failed>>

\* The engine looks at the flag at every token; the last one may be just past.
Generate ==
    /\ pc = "generate" /\ Goto("check")
    /\ reply' \in Reply
    /\ reply'.stop = "cancelled" => cancel
    /\ Free /\ Within /\ UNCHANGED <<cancel, turn, failed>>

Stopped ==
    /\ pc = "check" /\ cancel
    /\ IF turn.guard THEN End("repeating", reply.text) ELSE End("stopped", "none")
    /\ Free /\ Within /\ UNCHANGED <<cancel, reply, failed>>

\* Variant: the last pass is retried like any other.
AlwaysRetried(pass) == TRUE

\* `cut_off_can_be_retried`
CanBeRetried(pass) == pass + 1 < MaxTurns

CutOff ==
    /\ pc = "check" /\ ~ cancel /\ reply.stop = "cut"
    /\ IF CanBeRetried(turn.pass)
         THEN NextPass(turn)
         ELSE End("cut", "none")
    /\ Free /\ Within /\ UNCHANGED <<cancel, reply, failed>>

LastPass == turn.pass + 1 = MaxTurns

\* Prose, a call written on the last pass, and one that the reading of the
\* thinking block leaves in doubt are shown as they are.
Answers ==
    /\ pc = "check" /\ ~ cancel /\ reply.stop = "complete"
    /\ End("answered", reply.text)
    /\ Free /\ Within /\ UNCHANGED <<cancel, reply, failed>>

HandsOver ==
    /\ pc = "check" /\ ~ cancel /\ reply.stop = "complete"
    /\ ~ LastPass /\ reply.text \in Calls
    /\ Goto("gate")
    /\ Free /\ Within /\ UNCHANGED <<cancel, turn, reply, failed>>

-----------------------------------------------------------------------------
(* The executor's answer and what the loop makes of it *)

\* An error: another pass, unless the turn has changed the world.
AfterError(t) ==
    IF t.changed
      THEN turn' = [t EXCEPT !.ending = "partly", !.answer = "partly"] /\ Goto("over")
      ELSE NextPass(t)

\* A stop that was said since the flag was looked at.
Refused == cancel /\ NextPass(turn)

Malformed == ~ cancel /\ AfterError(turn)

Denied == ~ cancel /\ reply.text \notin turn.made /\ NextPass(turn)

\* The next pass is offered no tools, which forbids the model nothing.
Repeated == ~ cancel /\ reply.text \in turn.made /\ NextPass(turn)

\* Variant: the executor asks its own turn's flag alone.
StartsRegardless ==
    /\ reply.text \notin turn.made
    /\ turn' = [turn EXCEPT !.made = @ \union {reply.text}]
    /\ Goto("tool")

Starts ==
    /\ ~ cancel /\ reply.text \notin turn.made
    /\ turn' = [turn EXCEPT !.made = @ \union {reply.text}]
    /\ Goto("tool")

Asks == ~ cancel /\ reply.text \notin turn.made /\ Goto("asked") /\ UNCHANGED turn

Gate ==
    /\ pc = "gate"
    /\ Refused \/ Malformed \/ Denied \/ Repeated \/ Asks \/ Starts
    /\ Free /\ Within /\ UNCHANGED <<cancel, reply, failed>>

\* The stop is not looked at again.  Ctrl-C as a key is a no here.
UserAnswers ==
    /\ pc = "asked"
    /\ \/ NextPass(turn)
       \/ turn' = [turn EXCEPT !.made = @ \union {reply.text}] /\ Goto("tool")
    /\ Free /\ Within /\ UNCHANGED <<cancel, reply, failed>>

\* It is done, or stopped; or it has failed.
ToolEnds ==
    /\ pc = "tool"
    /\ \E changes \in BOOLEAN :
          LET t == [turn EXCEPT !.changed = @ \/ changes]
          IN NextPass(t) \/ AfterError(t)
    /\ Free /\ Within /\ UNCHANGED <<cancel, reply, failed>>

-----------------------------------------------------------------------------
(* The end of the turn *)

Said(who) == [turn |-> turn.number, who |-> who]

\* The history takes the question and the answer, if there is one; then the
\* transcript does, what this run continues ahead of them.
Settle ==
    /\ pc = "over"
    /\ failed' = (failed \/ turn.ending = "open")
    /\ running' = FALSE
    /\ turn' = [NewTurn(turn.number) EXCEPT !.answer = turn.answer,
                                            !.stopped = turn.stopped]
    /\ reply' = NoReply
    /\ history' = history \o <<Said("user")>> \o
                  (IF turn.answer = "none" THEN << >> ELSE <<Said("assistant")>>)
    /\ IF log.on
         THEN /\ Goto("user")
              /\ todo' = Append(log.earlier, Said("user"))
              /\ log' = [log EXCEPT !.earlier = << >>]
         ELSE Goto("prompt") /\ UNCHANGED <<todo, log>>
    /\ Free /\ UNCHANGED <<files, saved, copy, screen, cancel>>

Storing == pc \in {"user", "assistant"}

Stores ==
    /\ Storing
    /\ Rewrite \/ WriteLine
    /\ Free /\ UNCHANGED turnVars

\* The answer is stored whether or not the question was.
StoreAnswer ==
    /\ todo' = IF turn.answer = "none" THEN << >> ELSE <<Said("assistant")>>
    /\ Goto("assistant")

StoreFails ==
    /\ Storing /\ Spend("fail")
    /\ WriteCut
    /\ turn' = [turn EXCEPT !.missed = TRUE]
    /\ IF pc = "user" THEN StoreAnswer ELSE todo' = << >> /\ UNCHANGED pc
    /\ UNCHANGED <<log, saved, screen, running, cancel, reply, history, failed>>

Stored ==
    /\ Storing /\ todo = << >>
    /\ \/ pc = "user" /\ StoreAnswer /\ UNCHANGED log
       \/ /\ pc = "assistant" /\ Goto("prompt") /\ UNCHANGED todo
          /\ log' = IF turn.missed THEN Closed ELSE log
    /\ Free /\ UNCHANGED <<files, saved, copy, screen, running, cancel, turn,
                           reply, history, failed>>

-----------------------------------------------------------------------------
(* Ctrl-C, and the end of the process *)

SaysStop ==
    /\ cancel' = TRUE
    /\ turn' = [turn EXCEPT !.stopped = TRUE]
    /\ UNCHANGED <<logVars, pc, screen, running, reply, history, failed>>

Key ==
    /\ screen = "terminal" /\ pc \in Raw /\ Spend("stop")
    /\ SaysStop

\* The first signal in a turn is a stop, any other is the end.  It is Ctrl-C where
\* that is no key, or comes from outside.
Signal ==
    /\ pc \notin {"off", "prompt"} /\ Spend("stop")
    /\ IF running /\ ~ cancel THEN SaysStop ELSE Gone /\ UNCHANGED <<files, copy>>

Crash ==
    /\ pc # "off" /\ Spend("crash")
    /\ Gone
    /\ WriteCut \/ UNCHANGED <<files, copy>>

-----------------------------------------------------------------------------
Goes ==
    \/ Begin \/ Build \/ Generate \/ Stopped \/ CutOff \/ Answers \/ HandsOver
    \/ Gate \/ UserAnswers \/ ToolEnds \/ Settle \/ Stores \/ Stored

Next ==
    \/ StartRun \/ Quit \/ Clear \/ Ask \/ Purge
    \/ Goes
    \/ Fails \/ Repeats \/ StoreFails \/ Key \/ Signal \/ Crash

\* The shell's thread goes on by itself once it has a message: a generation ends
\* at its cap, a user answers, and a call ends (ToolExecutor!CallEnds).
Fairness == WF_vars(Goes)

Spec == Init /\ [][Next]_vars

FairSpec == Spec /\ Fairness

-----------------------------------------------------------------------------
(* Properties *)

\* The variables keep their types.
TypeOK ==
    /\ pc \in Place /\ screen \in Screens
    /\ running \in BOOLEAN /\ cancel \in BOOLEAN /\ failed \in BOOLEAN
    /\ turn \in Turn /\ reply \in Reply
    /\ history \in Seq(Message)
    /\ files \in Seq(File) /\ log \in Handle /\ todo \in Seq(Message)
    /\ saved \in Seq(Message) /\ copy \in {"whole", "going on", "cut"}
    /\ spent \in [Bounded -> Nat]

\* Nothing starts in a turn after the user said stop in it, and nothing is asked,
\* however the stop falls between the end of a generation and the executor's gate;
\* but the one call the user was being asked about does start after a yes.
NothingStartsAfterStop ==
    [][/\ pc' = "asked" /\ pc # "asked" => ~ turn.stopped
       /\ pc' = "tool" /\ pc \notin {"tool", "asked"} => ~ turn.stopped]_vars

\* A turn is thrown away as stopped only if the user stopped this very turn: the
\* guard's use of CANCEL, and a stop meant for an earlier turn, are not taken for
\* the user's word.
StopIsTheUsers == turn.ending = "stopped" => turn.stopped

\* Every turn comes to an end of its own, or the process does: the passes do not
\* run out with the turn still open.
TurnEnds == pc = "cleared" ~> (pc = "over" /\ turn.ending # "open") \/ pc = "off"

Kept == Newest(saved, LineCap - 1)

\* A conversation that is continued is continued whole: what the log said it had
\* written, down to the cap, is in what `--continue` would hand out, after any
\* crash or failed write but one that cuts the copying or the rewriting of a file,
\* or that ends inside a character: such a file cannot be read at all.
SavedIsContinued ==
    copy = "whole" /\ (\A i \in DOMAIN files : ~ files[i].cut)
        => ToSet(Kept) \subseteq ToSet(LatestOf(files))

\* While the shell keeps a transcript, its file ends the way the conversation does
\* and holds nothing else: what `/clear` forgot is not remembered.
TranscriptIsHistory ==
    pc = "prompt" /\ log.made => IsSuffix(ReadTurns(Current), history)

\* The comment at the end of `chat`: a turn that never produced an answer is a
\* failed run.
NoAnswerFailsTheRun ==
    pc = "prompt" /\ turn.number > 0 /\ turn.answer = "none" /\ ~ turn.stopped
        => failed

=============================================================================
