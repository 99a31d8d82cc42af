--------------------------- MODULE ChatTurnProofs ---------------------------
(***************************************************************************)
(* The stop and the transcript of ChatTurn, for any number of passes,      *)
(* calls and turns, and any caps on files and lines.                       *)
(*                                                                         *)
(* The flag has two writers, the user and the repetition guard, and is     *)
(* cleared by the next message alone: what a pass may conclude from it     *)
(* depends on where the pass is.                                           *)
(*                                                                         *)
(* The transcript is behind the history by the lines that are still to be  *)
(* stored, and, while an earlier conversation is copied, behind what the   *)
(* earlier log said it had written.  A line that could not be stored ends  *)
(* that, and with it the log.                                              *)
(***************************************************************************)
EXTENDS ChatTurn, SequenceTheorems, NaturalsInduction, WellFoundedInduction, TLAPS

USE ChatTurnAssumption

\* The part of TypeOK that is not about the transcript.
TurnTypes ==
    /\ pc \in Place /\ screen \in Screens
    /\ running \in BOOLEAN /\ cancel \in BOOLEAN /\ failed \in BOOLEAN
    /\ turn \in Turn /\ reply \in Reply

\* Before a generation and after the flag was looked at, the flag is the user's;
\* in between it may be the guard's.
FlagIsExplained ==
    /\ cancel /\ pc \in {"cleared", "build", "gate", "asked", "tool"} => turn.stopped
    /\ cancel /\ pc \in {"generate", "check"} => turn.stopped \/ turn.guard

\* The user's stop stands on the flag until the turn is over.
StopStands ==
    turn.stopped
    /\ pc \in {"cleared", "build", "generate", "check", "gate", "asked", "tool"} => cancel

\* Calls are run on passes that have a pass after them, and a turn that is over
\* has come to an end.
PassesLeft ==
    /\ pc \in {"gate", "asked", "tool"} => turn.pass + 1 < MaxTurns
    /\ pc \in {"gate", "asked"} => reply.text \in Calls
    /\ pc = "over" => turn.ending # "open"

Inv == TurnTypes /\ FlagIsExplained /\ StopStands /\ StopIsTheUsers /\ PassesLeft

-----------------------------------------------------------------------------
(* The operators on a turn *)

LEMMA NewTurnIs ==
    ASSUME NEW n \in Nat
    PROVE  /\ NewTurn(n) \in Turn /\ NewTurn(n).stopped = FALSE
           /\ NewTurn(n).ending = "open" /\ NewTurn(n).number = n
<1>1. 0 \in 0 .. MaxTurns - 1
  OBVIOUS
<1> QED BY <1>1 DEF NewTurn, Turn, Ending

\* Setting a flag leaves the other fields of a turn.
LEMMA ChangedIs ==
    ASSUME NEW t \in Turn, NEW b \in BOOLEAN
    PROVE  LET u == [t EXCEPT !.changed = @ \/ b] IN
           /\ u \in Turn /\ u.guard = t.guard /\ u.stopped = t.stopped
           /\ u.ending = t.ending /\ u.pass = t.pass
<1> DEFINE n == t.changed \/ b
<1>1. n \in BOOLEAN
  BY DEF Turn
<1>2. [t EXCEPT !.changed = @ \/ b] = [t EXCEPT !.changed = n]
  BY DEF Turn
<1> HIDE DEF n
<1> QED BY <1>1, <1>2 DEF Turn

LEMMA StopIs ==
    ASSUME NEW t \in Turn
    PROVE  LET u == [t EXCEPT !.stopped = TRUE] IN
           /\ u \in Turn /\ u.guard = t.guard /\ u.stopped = TRUE
           /\ u.ending = t.ending /\ u.pass = t.pass
  BY DEF Turn

\* A pass that is not the last is followed by the next.
LEMMA NextPassIs ==
    ASSUME NEW t \in Turn, t.pass + 1 < MaxTurns, NextPass(t)
    PROVE  /\ pc' = "build" /\ turn' \in Turn
           /\ turn'.stopped = t.stopped /\ turn'.ending = t.ending
<1>1. t.pass + 1 \in 0 .. MaxTurns - 1 /\ t.pass + 1 # MaxTurns
  BY DEF Turn
<1>2. turn' = [t EXCEPT !.pass = @ + 1] /\ pc' = "build"
  BY <1>1 DEF NextPass, Goto
<1> QED BY <1>1, <1>2 DEF Turn

\* After an error the turn has another pass or is over.
LEMMA AfterErrorIs ==
    ASSUME NEW t \in Turn, t.pass + 1 < MaxTurns, AfterError(t)
    PROVE  /\ turn' \in Turn /\ turn'.stopped = t.stopped
           /\ \/ pc' = "build" /\ turn'.ending = t.ending
              \/ pc' = "over" /\ turn'.ending = "partly"
<1>1. CASE t.changed
  <2>1. /\ turn' = [t EXCEPT !.ending = "partly", !.answer = "partly"]
        /\ pc' = "over"
    BY <1>1 DEF AfterError, Goto
  <2>2. "partly" \in Ending /\ "partly" \in Text \union {"none", "partly"}
    BY DEF Ending
  <2> QED BY <2>1, <2>2 DEF Turn
<1>2. CASE ~ t.changed
  BY <1>2, NextPassIs DEF AfterError
<1> QED BY <1>1, <1>2

-----------------------------------------------------------------------------
(* Types of a turn *)

LEMMA TextIs == reply \in Reply => reply.text \in Text \union {"none", "partly"}
  BY DEF Reply

\* The end of the process.
LEMMA GoneIs ==
    ASSUME TurnTypes, Gone
    PROVE  /\ pc' = "off" /\ screen' = screen /\ running' = FALSE
           /\ cancel' = cancel /\ failed' = failed
           /\ turn' \in Turn /\ reply' \in Reply
           /\ turn'.stopped = FALSE /\ turn'.ending = "open"
<1>1. turn.number \in Nat
  BY DEF TurnTypes, Turn
<1>2. NoReply \in Reply
  BY DEF NoReply, Reply, Text
<1> QED BY <1>1, <1>2, NewTurnIs DEF Gone, Goto

\* What the turn is at its end, for each way to end it.
LEMMA EndsAre ==
    ASSUME TurnTypes, NEW e \in Ending, NEW a \in Text \union {"none", "partly"},
           End(e, a)
    PROVE  /\ pc' = "over" /\ turn' \in Turn /\ turn'.ending = e
           /\ turn'.stopped = turn.stopped
  BY DEF TurnTypes, End, Goto, Turn

Inside == {"build", "generate", "check", "gate", "asked", "tool"}

\* The stop said in a turn.
LEMMA SaidIs ==
    ASSUME TurnTypes, SaysStop
    PROVE  /\ pc' = pc /\ screen' = screen /\ running' = running /\ cancel' = TRUE
           /\ failed' = failed /\ reply' = reply
           /\ turn' \in Turn /\ turn'.stopped /\ turn'.ending = turn.ending
           /\ turn'.pass = turn.pass /\ turn'.guard = turn.guard
  BY StopIs DEF TurnTypes, SaysStop

-----------------------------------------------------------------------------
(* Each step keeps Inv *)

\* Outside the turn.
LEMMA OutsideKeeps ==
    ASSUME Inv, StartRun \/ Quit \/ Clear \/ Purge \/ Ask \/ Begin
    PROVE  Inv'
<1>1. TurnTypes /\ turn.number \in Nat /\ turn.number + 1 \in Nat /\ NoReply \in Reply
  BY DEF Inv, TurnTypes, Turn, NoReply, Reply, Text
<1>2. CASE StartRun
  <2>1. /\ pc' = "prompt" /\ cancel' = FALSE /\ failed' = FALSE
        /\ UNCHANGED <<screen, running, turn, reply>>
    BY <1>2 DEF StartRun, Goto
  <2> QED BY <2>1 DEF Inv, TurnTypes, FlagIsExplained, StopStands, StopIsTheUsers,
                      PassesLeft, Place
<1>3. CASE Quit
  BY <1>1, <1>3, GoneIs DEF Quit, Inv, TurnTypes, FlagIsExplained, StopStands,
     StopIsTheUsers, PassesLeft, Place
<1>4. CASE Clear \/ Purge
  <2>1. UNCHANGED <<pc, screen, running, cancel, turn, reply, failed>>
    BY <1>4 DEF Clear, Purge, turnVars
  <2> QED BY <2>1 DEF Inv, TurnTypes, FlagIsExplained, StopStands, StopIsTheUsers,
                      PassesLeft
<1>5. CASE Ask
  <2>1. /\ pc' = "cleared" /\ cancel' = FALSE /\ turn' = NewTurn(turn.number + 1)
        /\ reply' = NoReply /\ UNCHANGED <<screen, running, failed>>
    BY <1>5 DEF Ask, Goto
  <2> QED BY <1>1, <2>1, NewTurnIs DEF Inv, TurnTypes, FlagIsExplained, StopStands,
                      StopIsTheUsers, PassesLeft, Place
<1>6. CASE Begin
  <2>1. /\ pc = "cleared" /\ pc' = "build" /\ running' = TRUE
        /\ UNCHANGED <<screen, cancel, turn, reply, failed>>
    BY <1>6 DEF Begin, Goto
  <2> QED BY <2>1 DEF Inv, TurnTypes, FlagIsExplained, StopStands, StopIsTheUsers,
                      PassesLeft, Place
<1> QED BY <1>2, <1>3, <1>4, <1>5, <1>6

\* The generation of a pass, and the guard on it.
LEMMA GenerationKeeps ==
    ASSUME Inv, Fails \/ Build \/ Repeats \/ Generate
    PROVE  Inv'
<1>1. TurnTypes /\ turn \in Turn
  BY DEF Inv, TurnTypes
<1>2. CASE Fails
  <2>1. /\ End("failed", "none") /\ failed' = TRUE
        /\ UNCHANGED <<screen, running, cancel, reply>>
    BY <1>2 DEF Fails, Within
  <2>2. "failed" \in Ending /\ "none" \in Text \union {"none", "partly"}
    BY DEF Ending
  <2> QED BY <1>1, <2>1, <2>2, EndsAre DEF Inv, TurnTypes, FlagIsExplained, StopStands,
                      StopIsTheUsers, PassesLeft, Place
<1>3. CASE Build
  <2>1. /\ pc = "build" /\ pc' = "generate" /\ turn' = [turn EXCEPT !.guard = FALSE]
        /\ UNCHANGED <<screen, running, cancel, reply, failed>>
    BY <1>3 DEF Build, Within, Goto
  <2>2. /\ turn' \in Turn /\ turn'.stopped = turn.stopped /\ turn'.ending = turn.ending
    BY <1>1, <2>1 DEF Turn
  <2> QED BY <2>1, <2>2 DEF Inv, TurnTypes, FlagIsExplained, StopStands,
                      StopIsTheUsers, PassesLeft, Place
<1>4. CASE Repeats
  <2>1. /\ pc = "generate" /\ pc' = pc /\ cancel' = TRUE
        /\ turn' = [turn EXCEPT !.guard = TRUE]
        /\ UNCHANGED <<screen, running, reply, failed>>
    BY <1>4 DEF Repeats, Within
  <2>2. /\ turn' \in Turn /\ turn'.stopped = turn.stopped /\ turn'.ending = turn.ending
        /\ turn'.guard = TRUE
    BY <1>1, <2>1 DEF Turn
  <2> QED BY <2>1, <2>2 DEF Inv, TurnTypes, FlagIsExplained, StopStands,
                      StopIsTheUsers, PassesLeft, Place
<1>5. CASE Generate
  <2>1. /\ pc = "generate" /\ pc' = "check" /\ reply' \in Reply
        /\ UNCHANGED <<screen, running, cancel, turn, failed>>
    BY <1>5 DEF Generate, Within, Goto
  <2> QED BY <2>1 DEF Inv, TurnTypes, FlagIsExplained, StopStands,
                      StopIsTheUsers, PassesLeft, Place
<1> QED BY <1>2, <1>3, <1>4, <1>5

\* What is made of a generation.
LEMMA CheckKeeps ==
    ASSUME Inv, Stopped \/ CutOff \/ Answers \/ HandsOver
    PROVE  Inv'
<1>1. TurnTypes /\ turn \in Turn /\ pc = "check"
      /\ reply.text \in Text \union {"none", "partly"}
  BY TextIs DEF Inv, TurnTypes, Stopped, CutOff, Answers, HandsOver
<1>2. {"stopped", "repeating", "cut", "answered"} \subseteq Ending
      /\ "none" \in Text \union {"none", "partly"}
  BY DEF Ending
<1>3. UNCHANGED <<screen, running, cancel, reply, failed>>
  BY DEF Stopped, CutOff, Answers, HandsOver, Within
<1>4. CASE Stopped
  <2>1. cancel /\ \/ turn.guard /\ End("repeating", reply.text)
                  \/ ~ turn.guard /\ End("stopped", "none")
    BY <1>4 DEF Stopped
  <2>2. ~ turn.guard => turn.stopped
    BY <1>1, <2>1 DEF Inv, FlagIsExplained
  <2> QED BY <1>1, <1>2, <1>3, <2>1, <2>2, EndsAre DEF Inv, TurnTypes, FlagIsExplained,
                      StopStands, StopIsTheUsers, PassesLeft, Place
<1>5. CASE CutOff
  <2>1. ~ cancel /\ \/ turn.pass + 1 < MaxTurns /\ NextPass(turn)
                    \/ End("cut", "none")
    BY <1>5 DEF CutOff, CanBeRetried
  <2>2. CASE turn.pass + 1 < MaxTurns /\ NextPass(turn)
    BY <1>1, <1>3, <2>1, <2>2, NextPassIs DEF Inv, TurnTypes, FlagIsExplained,
                      StopStands, StopIsTheUsers, PassesLeft, Place
  <2>3. CASE End("cut", "none")
    BY <1>1, <1>2, <1>3, <2>3, EndsAre DEF Inv, TurnTypes, FlagIsExplained,
                      StopStands, StopIsTheUsers, PassesLeft, Place
  <2> QED BY <2>1, <2>2, <2>3
<1>6. CASE Answers
  <2>1. End("answered", reply.text)
    BY <1>6 DEF Answers
  <2> QED BY <1>1, <1>2, <1>3, <2>1, EndsAre DEF Inv, TurnTypes, FlagIsExplained,
                      StopStands, StopIsTheUsers, PassesLeft, Place
<1>7. CASE HandsOver
  <2>1. /\ ~ cancel /\ turn.pass + 1 # MaxTurns /\ pc' = "gate" /\ turn' = turn
        /\ reply.text \in Calls
    BY <1>7 DEF HandsOver, LastPass, Goto
  <2>2. turn.pass + 1 < MaxTurns
    BY <1>1, <2>1 DEF Turn
  <2> QED BY <1>1, <1>3, <2>1, <2>2 DEF Inv, TurnTypes, FlagIsExplained,
                      StopStands, StopIsTheUsers, PassesLeft, Place
<1> QED BY <1>4, <1>5, <1>6, <1>7

\* The call of a pass.
LEMMA CallKeeps ==
    ASSUME Inv, Gate \/ UserAnswers \/ ToolEnds
    PROVE  Inv'
<1>1. /\ TurnTypes /\ turn \in Turn /\ turn.pass + 1 < MaxTurns
      /\ pc \in {"gate", "asked", "tool"}
      /\ cancel => turn.stopped
      /\ turn.stopped => cancel
      /\ pc # "tool" => reply.text \in Calls
  BY DEF Inv, TurnTypes, PassesLeft, FlagIsExplained, StopStands, Gate, UserAnswers,
         ToolEnds
<1>2. UNCHANGED <<screen, running, cancel, reply, failed>>
  BY DEF Gate, UserAnswers, ToolEnds, Within
\* The turn goes on to a further pass, is over, or is at the call.
<1>3. SUFFICES /\ turn' \in Turn /\ turn'.stopped = turn.stopped
               /\ \/ pc' = "build" /\ turn'.ending = turn.ending
                  \/ pc' = "over" /\ turn'.ending = "partly"
                  \/ /\ pc' = "tool" \/ (pc' = "asked" /\ pc = "gate")
                     /\ turn'.ending = turn.ending /\ turn'.pass = turn.pass
  BY <1>1, <1>2 DEF Inv, TurnTypes, FlagIsExplained, StopStands, StopIsTheUsers,
     PassesLeft, Place
<1>4. CASE NextPass(turn)
  BY <1>1, <1>4, NextPassIs
<1>5. CASE AfterError(turn)
  BY <1>1, <1>5, AfterErrorIs
<1>6. CASE pc' = "tool" /\ turn' = [turn EXCEPT !.made = @ \union {reply.text}]
           /\ reply.text \in Calls
  <2> DEFINE made == turn.made \union {reply.text}
  <2>1. made \in SUBSET Calls /\ turn' = [turn EXCEPT !.made = made]
    BY <1>1, <1>6 DEF Turn
  <2> HIDE DEF made
  <2>2. /\ turn' \in Turn /\ turn'.stopped = turn.stopped
        /\ turn'.ending = turn.ending /\ turn'.pass = turn.pass
    BY <1>1, <2>1 DEF Turn
  <2> QED BY <1>6, <2>2
<1>7. CASE pc = "gate" /\ pc' = "asked" /\ turn' = turn
  BY <1>1, <1>7
<1>8. CASE ToolEnds
  <2>1. PICK changes \in BOOLEAN :
           LET t == [turn EXCEPT !.changed = @ \/ changes]
           IN NextPass(t) \/ AfterError(t)
    BY <1>8 DEF ToolEnds
  <2> DEFINE t == [turn EXCEPT !.changed = @ \/ changes]
  <2>2. /\ t \in Turn /\ t.stopped = turn.stopped /\ t.ending = turn.ending
        /\ t.pass = turn.pass
    BY <1>1, ChangedIs
  <2>3. NextPass(t) \/ AfterError(t)
    BY <2>1
  <2> HIDE DEF t
  <2> QED BY <1>1, <2>2, <2>3, NextPassIs, AfterErrorIs
<1>9. CASE Gate
  <2>1. pc = "gate" /\ (Refused \/ Malformed \/ Denied \/ Repeated \/ Asks \/ Starts)
    BY <1>9 DEF Gate
  <2>2. \/ NextPass(turn) \/ AfterError(turn)
        \/ pc' = "asked" /\ turn' = turn
        \/ pc' = "tool" /\ turn' = [turn EXCEPT !.made = @ \union {reply.text}]
    BY <2>1 DEF Refused, Malformed, Denied, Repeated, Asks, Starts, Goto
  <2> QED BY <1>1, <1>4, <1>5, <1>6, <1>7, <2>1, <2>2
<1>10. CASE UserAnswers
  <2>1. /\ pc = "asked"
        /\ \/ NextPass(turn)
           \/ pc' = "tool" /\ turn' = [turn EXCEPT !.made = @ \union {reply.text}]
    BY <1>10 DEF UserAnswers, Goto
  <2> QED BY <1>1, <1>4, <1>6, <2>1
<1> QED BY <1>8, <1>9, <1>10

\* The end of a turn, and of the process; the user's stop.
LEMMA RestKeeps ==
    ASSUME Inv, Settle \/ Stores \/ StoreFails \/ Stored \/ Key \/ Signal \/ Crash
    PROVE  Inv'
<1>1. TurnTypes /\ turn \in Turn
  BY DEF Inv, TurnTypes
<1>2. CASE Settle
  <2>1. /\ pc' \in {"user", "prompt"} /\ running' = FALSE
        /\ failed' = (failed \/ turn.ending = "open") /\ reply' = NoReply
        /\ turn' = [NewTurn(turn.number) EXCEPT !.answer = turn.answer,
                                                !.stopped = turn.stopped]
        /\ UNCHANGED <<screen, cancel>>
    BY <1>2 DEF Settle, Goto
  <2>2. turn.number \in Nat /\ turn.stopped \in BOOLEAN
        /\ turn.answer \in Text \union {"none", "partly"}
    BY <1>1 DEF Turn
  <2>3. NoReply \in Reply /\ failed' \in BOOLEAN
    BY <1>1, <2>1 DEF NoReply, Reply, Text, TurnTypes
  <2> DEFINE n == NewTurn(turn.number)
  <2>4. n \in Turn /\ n.ending = "open"
    BY <2>2, NewTurnIs
  <2>5. turn' = [n EXCEPT !.answer = turn.answer, !.stopped = turn.stopped]
    BY <2>1
  <2> HIDE DEF n
  <2>6. turn' \in Turn /\ turn'.ending = "open"
    BY <2>2, <2>4, <2>5 DEF Turn
  <2> QED BY <1>1, <2>1, <2>3, <2>6 DEF Inv, TurnTypes, FlagIsExplained, StopStands,
          StopIsTheUsers, PassesLeft, Place
<1>3. CASE Stores
  <2>1. UNCHANGED <<pc, screen, running, cancel, turn, reply, failed>>
    BY <1>3 DEF Stores, turnVars
  <2> QED BY <2>1 DEF Inv, TurnTypes, FlagIsExplained, StopStands, StopIsTheUsers,
                      PassesLeft
<1>4. CASE StoreFails
  <2>1. /\ pc \in {"user", "assistant"} /\ pc' \in {pc, "assistant"}
        /\ turn' = [turn EXCEPT !.missed = TRUE]
        /\ UNCHANGED <<screen, running, cancel, reply, failed>>
    BY <1>4 DEF StoreFails, Storing, StoreAnswer, Goto
  <2>2. turn' \in Turn /\ turn'.ending = turn.ending /\ turn'.stopped = turn.stopped
    BY <1>1, <2>1 DEF Turn
  <2> QED BY <2>1, <2>2 DEF Inv, TurnTypes, FlagIsExplained, StopStands, StopIsTheUsers,
                      PassesLeft, Place
<1>5. CASE Stored
  <2>1. /\ pc \in {"user", "assistant"} /\ pc' \in {"assistant", "prompt"}
        /\ UNCHANGED <<screen, running, cancel, turn, reply, failed>>
    BY <1>5 DEF Stored, Storing, StoreAnswer, Goto
  <2> QED BY <2>1 DEF Inv, TurnTypes, FlagIsExplained, StopStands, StopIsTheUsers,
                      PassesLeft, Place
<1>6. CASE SaysStop
  BY <1>1, <1>6, SaidIs DEF Inv, TurnTypes, FlagIsExplained, StopStands, StopIsTheUsers,
                      PassesLeft
<1>7. CASE Gone
  BY <1>1, <1>7, GoneIs DEF Inv, TurnTypes, FlagIsExplained, StopStands, StopIsTheUsers,
                      PassesLeft, Place
<1> QED BY <1>2, <1>3, <1>4, <1>5, <1>6, <1>7 DEF Key, Signal, Crash

\* Inv is inductive.
LEMMA Inductive == Spec => []Inv
<1>1. Init => Inv
  <2> SUFFICES ASSUME Init PROVE Inv
    OBVIOUS
  <2>1. turn \in Turn /\ turn.stopped = FALSE /\ turn.ending = "open"
    BY NewTurnIs DEF Init
  <2>2. reply \in Reply
    BY DEF Init, NoReply, Reply, Text
  <2> QED BY <2>1, <2>2 DEF Init, Inv, TurnTypes, FlagIsExplained, StopStands,
          StopIsTheUsers, PassesLeft, Place
<1>2. Inv /\ [Next]_vars => Inv'
  <2> SUFFICES ASSUME Inv, [Next]_vars PROVE Inv'
    OBVIOUS
  <2>1. CASE UNCHANGED vars
    BY <2>1 DEF vars, turnVars, Inv, TurnTypes, FlagIsExplained, StopStands,
       StopIsTheUsers, PassesLeft
  <2> QED BY <2>1, OutsideKeeps, GenerationKeeps, CheckKeeps, CallKeeps, RestKeeps
          DEF Next, Goes
<1> QED BY <1>1, <1>2, PTL DEF Spec

-----------------------------------------------------------------------------
(* Theorems *)

\* The repetition guard stops a generation through the user's own flag: a turn is
\* thrown away as stopped only when the user stopped this very turn.
THEOREM StopWasSaid == Spec => []StopIsTheUsers
<1>1. Inv => StopIsTheUsers
  BY DEF Inv
<1> QED BY <1>1, Inductive, PTL

\* Of two steps, one after the user's stop does not start or ask about a call.
LEMMA StepStartsNothing ==
    ASSUME Inv, [Next]_vars
    PROVE  /\ pc' = "asked" /\ pc # "asked" => ~ turn.stopped
           /\ pc' = "tool" /\ pc \notin {"tool", "asked"} => ~ turn.stopped
<1> SUFFICES ASSUME pc' \in {"asked", "tool"}, pc \notin {pc', "asked"}
             PROVE  ~ turn.stopped
  OBVIOUS
<1>1. TurnTypes
  BY DEF Inv
<1>2. CASE Gate
  <2>1. /\ pc = "gate"
        /\ \/ Refused \/ Malformed \/ Denied \/ Repeated
           \/ ~ cancel
    BY <1>2 DEF Gate, Asks, Starts
  <2>2. turn.pass + 1 < MaxTurns /\ turn \in Turn
    BY <2>1 DEF Inv, PassesLeft, TurnTypes
  <2>3. ~ (Refused \/ Malformed \/ Denied \/ Repeated) \/ pc' \in {"build", "over"}
    BY <2>2, NextPassIs, AfterErrorIs DEF Refused, Malformed, Denied, Repeated
  <2> QED BY <2>1, <2>3 DEF Inv, StopStands
<1>3. CASE UserAnswers
  BY <1>3 DEF UserAnswers
<1>4. CASE ToolEnds
  BY <1>4, CallKeeps DEF ToolEnds, NextPass, AfterError, Goto
<1>5. CASE CutOff
  BY <1>5 DEF CutOff, NextPass, End, Goto
<1>6. CASE Stopped \/ Answers \/ HandsOver \/ Begin \/ Build \/ Generate \/ Settle
           \/ Stores \/ Stored
  BY <1>6 DEF Stopped, Answers, HandsOver, Begin, Build, Generate, Settle, Stores,
     Stored, StoreAnswer, End, Goto, turnVars
<1>7. CASE StartRun \/ Quit \/ Clear \/ Ask \/ Purge \/ Fails \/ Repeats \/ StoreFails
           \/ Key \/ Signal \/ Crash \/ UNCHANGED vars
  BY <1>7 DEF StartRun, Quit, Clear, Ask, Purge, Fails, Repeats, StoreFails, Key, Signal,
     Crash, Gone, SaysStop, StoreAnswer, End, Goto, turnVars, vars
<1> QED BY <1>2, <1>3, <1>4, <1>5, <1>6, <1>7 DEF Next, Goes

\* However the stop falls between the end of a generation and the gate, nothing is
\* started or asked after it but the call the user was being asked about.
THEOREM StopHolds == Spec => NothingStartsAfterStop
<1>1. Inv /\ [Next]_vars => [/\ pc' = "asked" /\ pc # "asked" => ~ turn.stopped
                             /\ pc' = "tool" /\ pc \notin {"tool", "asked"}
                                   => ~ turn.stopped]_vars
  BY StepStartsNothing
<1> QED BY <1>1, Inductive, PTL DEF Spec, NothingStartsAfterStop

\* A turn that is over has come to an end of its own: the loop never runs out with
\* the turn open, and what `chat` does then is never done.
THEOREM BudgetSuffices == Spec => [](pc = "over" => turn.ending # "open")
<1>1. Inv => (pc = "over" => turn.ending # "open")
  BY DEF Inv, PassesLeft
<1> QED BY <1>1, Inductive, PTL

-----------------------------------------------------------------------------
HIDE ChatTurnAssumption

(* Sequences: what `ReadTurns` parses, and what a sequence ends in *)

\* Induction over the numbers of a set, which a lemma can be given.
LEMMA ByInduction ==
    ASSUME NEW S \in SUBSET Nat, 0 \in S, \A n \in S : n + 1 \in S
    PROVE  S = Nat
<1> DEFINE Left == Nat \ S
<1>1. Left = {}
  <2> SUFFICES ASSUME Left # {} PROVE FALSE
    OBVIOUS
  <2>1. PICK m \in Left : \A k \in Left : ~ (<<k, m>> \in OpToRel(<, Nat))
    BY WFMin, NatLessThanWellFounded, Zenon
  <2>2. \A k \in Left : ~ (k < m)
    BY <2>1, Zenon DEF OpToRel
  <2>3. m \in Nat /\ m # 0 /\ m - 1 \in Nat
    OBVIOUS
  <2>4. m - 1 \in S
    BY <2>2, <2>3
  <2>5. (m - 1) + 1 = m
    BY <2>3
  <2> QED BY <2>3, <2>4, <2>5
<1> QED BY <1>1

\* The lines of a file.
Lines == Seq(Message \union {Torn})

\* The function by which Parsed reads the first N lines of s.
Upto(s, f, N) ==
    f = [n \in 0 .. N |->
            IF n = 0 THEN << >>
            ELSE IF s[n] = Torn THEN f[n - 1] ELSE Append(f[n - 1], s[n])]

\* There is one: a longer one for each that there is.
LEMMA UptoThere ==
    ASSUME NEW s, NEW N \in Nat
    PROVE  \E f : Upto(s, f, N)
<1> DEFINE S == {n \in Nat : \E f : Upto(s, f, n)}
<1>1. 0 \in S
  <2> DEFINE f == [n \in 0 .. 0 |-> << >>]
  <2>1. \A n \in 0 .. 0 : n = 0
    OBVIOUS
  <2>2. Upto(s, f, 0)
    BY <2>1 DEF Upto
  <2> QED BY <2>2
<1>2. ASSUME NEW n \in S PROVE n + 1 \in S
  <2>1. PICK f : Upto(s, f, n)
    OBVIOUS
  <2> DEFINE next == IF s[n + 1] = Torn THEN f[n] ELSE Append(f[n], s[n + 1])
             g == [k \in 0 .. n + 1 |-> IF k = n + 1 THEN next ELSE f[k]]
  <2>2. \A k \in 0 .. n : f[k] = (IF k = 0 THEN << >>
            ELSE IF s[k] = Torn THEN f[k - 1] ELSE Append(f[k - 1], s[k]))
    BY <2>1, Zenon DEF Upto
  <2>3. ASSUME NEW k \in 0 .. n + 1
        PROVE  g[k] = (IF k = 0 THEN << >>
            ELSE IF s[k] = Torn THEN g[k - 1] ELSE Append(g[k - 1], s[k]))
    <3>1. CASE k = n + 1
      <4>1. k # 0 /\ k - 1 = n /\ k - 1 \in 0 .. n + 1 /\ k - 1 # n + 1
        BY <3>1
      <4>2. g[k] = next /\ g[k - 1] = f[n]
        BY <3>1, <4>1
      <4> QED BY <3>1, <4>1, <4>2
    <3>2. CASE k # n + 1
      <4>1. k \in 0 .. n
        BY <3>2
      <4>2. k # 0 => k - 1 \in 0 .. n + 1 /\ k - 1 # n + 1
        BY <3>2
      <4>3. g[k] = f[k] /\ (k # 0 => g[k - 1] = f[k - 1])
        BY <3>2, <4>2
      <4> HIDE DEF g
      <4> QED BY <2>2, <4>1, <4>3
    <3> QED BY <3>1, <3>2
  <2>4. g = [k \in 0 .. n + 1 |-> g[k]]
    OBVIOUS
  <2> HIDE DEF g
  <2>5. Upto(s, g, n + 1)
    BY <2>3, <2>4, Zenon DEF Upto
  <2> QED BY <2>5
<1> HIDE DEF S
<1>3. S = Nat
  BY <1>1, <1>2, ByInduction DEF S
<1> QED BY <1>3 DEF S

\* Parsed is that function at the last line.
LEMMA ParsedIs ==
    ASSUME NEW s \in Lines
    PROVE  \E f : Upto(s, f, Len(s)) /\ Parsed(s) = f[Len(s)]
<1> DEFINE chosen == CHOOSE f : Upto(s, f, Len(s))
<1>1. Len(s) \in Nat
  BY DEF Lines
<1>2. Upto(s, chosen, Len(s))
  BY <1>1, UptoThere
<1>3. Parsed(s) = chosen[Len(s)]
  BY Zenon DEF Parsed, Upto
<1> HIDE DEF chosen
<1> QED BY <1>2, <1>3

\* The function line by line.
LEMMA UptoStep ==
    ASSUME NEW s, NEW N \in Nat, NEW f, Upto(s, f, N)
    PROVE  /\ f[0] = << >>
           /\ \A n \in 1 .. N :
                 f[n] = IF s[n] = Torn THEN f[n - 1] ELSE Append(f[n - 1], s[n])
<1>1. \A n \in 0 .. N : f[n] = (IF n = 0 THEN << >>
            ELSE IF s[n] = Torn THEN f[n - 1] ELSE Append(f[n - 1], s[n]))
  BY Zenon DEF Upto
<1> QED BY <1>1

\* A line more is a message more, unless it is torn.
LEMMA ParsedGrows ==
    ASSUME NEW s \in Lines, NEW m \in Message \union {Torn}
    PROVE  Parsed(Append(s, m)) = (IF m = Torn THEN Parsed(s) ELSE Append(Parsed(s), m))
<1> DEFINE t == Append(s, m)
<1>1. /\ t \in Lines /\ Len(t) = Len(s) + 1 /\ Len(s) \in Nat
      /\ \A i \in 1 .. Len(s) : t[i] = s[i]
      /\ t[Len(s) + 1] = m
  BY DEF Lines
<1> HIDE DEF t
<1>2. PICK f : Upto(s, f, Len(s)) /\ Parsed(s) = f[Len(s)]
  BY ParsedIs
<1>3. PICK g : Upto(t, g, Len(s) + 1) /\ Parsed(t) = g[Len(s) + 1]
  BY <1>1, ParsedIs
<1>4. /\ f[0] = << >>
      /\ \A n \in 1 .. Len(s) : f[n] = IF s[n] = Torn THEN f[n - 1]
                                       ELSE Append(f[n - 1], s[n])
  BY <1>1, <1>2, UptoStep
<1>5. /\ g[0] = << >>
      /\ \A n \in 1 .. Len(s) + 1 :
            g[n] = IF t[n] = Torn THEN g[n - 1] ELSE Append(g[n - 1], t[n])
  BY <1>1, <1>3, UptoStep
<1> DEFINE S == {n \in Nat : n <= Len(s) => f[n] = g[n]}
<1>6. S = Nat
  <2>1. 0 \in S
    BY <1>4, <1>5
  <2>2. ASSUME NEW n \in S PROVE n + 1 \in S
    <3> SUFFICES ASSUME n + 1 <= Len(s) PROVE f[n + 1] = g[n + 1]
      OBVIOUS
    <3>1. n + 1 \in 1 .. Len(s) /\ n + 1 \in 1 .. Len(s) + 1 /\ (n + 1) - 1 = n
          /\ f[n] = g[n] /\ t[n + 1] = s[n + 1]
      BY <1>1
    <3>2. f[n + 1] = IF s[n + 1] = Torn THEN f[(n + 1) - 1]
                     ELSE Append(f[(n + 1) - 1], s[n + 1])
      BY <1>4, <3>1, Zenon
    <3>3. g[n + 1] = IF t[n + 1] = Torn THEN g[(n + 1) - 1]
                     ELSE Append(g[(n + 1) - 1], t[n + 1])
      BY <1>5, <3>1, Zenon
    <3> QED BY <3>1, <3>2, <3>3
  <2> HIDE DEF S
  <2>3. S \in SUBSET Nat
    BY DEF S
  <2> QED BY <2>1, <2>2, <2>3, ByInduction
<1>7. f[Len(s)] = g[Len(s)]
  BY <1>1, <1>6
<1>8. Len(s) + 1 \in 1 .. Len(s) + 1 /\ (Len(s) + 1) - 1 = Len(s)
  BY <1>1
<1>9. g[Len(s) + 1] = IF t[Len(s) + 1] = Torn THEN g[(Len(s) + 1) - 1]
                      ELSE Append(g[(Len(s) + 1) - 1], t[Len(s) + 1])
  BY <1>5, <1>8, Zenon
<1> QED BY <1>1, <1>2, <1>3, <1>7, <1>8, <1>9 DEF t

LEMMA TornIsNoMessage == Torn \notin Message
BY DEF Torn, Message

\* What is read is messages, and messages are read as they are.
LEMMA ParsedTypes ==
    ASSUME NEW s \in Lines
    PROVE  /\ Parsed(s) \in Seq(Message)
           /\ s \in Seq(Message) => Parsed(s) = s
<1>1. PICK f : Upto(s, f, Len(s)) /\ Parsed(s) = f[Len(s)]
  BY ParsedIs
<1>2. Len(s) \in Nat /\ \A n \in 1 .. Len(s) : s[n] \in Message \union {Torn}
  BY DEF Lines
<1>3. /\ f[0] = << >>
      /\ \A n \in 1 .. Len(s) : f[n] = IF s[n] = Torn THEN f[n - 1]
                                       ELSE Append(f[n - 1], s[n])
  BY <1>1, <1>2, UptoStep
<1> DEFINE S == {n \in Nat : n <= Len(s) => f[n] \in Seq(Message)}
           T == {n \in Nat : n <= Len(s) /\ s \in Seq(Message) => f[n] = SubSeq(s, 1, n)}
<1>4. ASSUME NEW n \in Nat, n + 1 <= Len(s)
      PROVE  /\ f[n + 1] = IF s[n + 1] = Torn THEN f[n] ELSE Append(f[n], s[n + 1])
             /\ s[n + 1] \in Message \union {Torn}
  <2>1. n + 1 \in 1 .. Len(s) /\ (n + 1) - 1 = n
    BY <1>2, <1>4
  <2>2. f[n + 1] = IF s[n + 1] = Torn THEN f[(n + 1) - 1]
                   ELSE Append(f[(n + 1) - 1], s[n + 1])
    BY <1>3, <2>1, Zenon
  <2> QED BY <1>2, <2>1, <2>2
<1>0. << >> \in Seq(Message) /\ SubSeq(s, 1, 0) = << >>
  BY DEF Lines
<1>5. S = Nat
  <2>1. 0 \in S
    BY <1>0, <1>3
  <2>2. ASSUME NEW n \in S PROVE n + 1 \in S
    <3> SUFFICES ASSUME n + 1 <= Len(s) PROVE f[n + 1] \in Seq(Message)
      OBVIOUS
    <3>1. n <= Len(s) /\ n \in Nat
      BY <1>2
    <3>2. f[n] \in Seq(Message)
      BY <3>1
    <3>3. ASSUME s[n + 1] \in Message PROVE Append(f[n], s[n + 1]) \in Seq(Message)
      BY <3>2, <3>3
    <3>4. f[n + 1] = IF s[n + 1] = Torn THEN f[n] ELSE Append(f[n], s[n + 1])
      BY <1>4, <3>1
    <3>5. s[n + 1] \in Message \union {Torn}
      BY <1>4, <3>1
    <3> QED BY <3>2, <3>3, <3>4, <3>5
  <2> HIDE DEF S
  <2>3. S \in SUBSET Nat
    BY DEF S
  <2> QED BY <2>1, <2>2, <2>3, ByInduction
<1>6. T = Nat
  <2>1. 0 \in T
    BY <1>0, <1>3
  <2>2. ASSUME NEW n \in T PROVE n + 1 \in T
    <3> SUFFICES ASSUME n + 1 <= Len(s), s \in Seq(Message)
                 PROVE  f[n + 1] = SubSeq(s, 1, n + 1)
      OBVIOUS
    <3>1. f[n] = SubSeq(s, 1, n)
      BY <1>2
    <3>2. s[n + 1] \in Message
      BY <1>2
    <3>3. f[n + 1] = Append(SubSeq(s, 1, n), s[n + 1])
      BY <1>4, <3>1, <3>2, TornIsNoMessage
    <3> QED BY <1>2, <3>3
  <2> HIDE DEF T
  <2>3. T \in SUBSET Nat
    BY DEF T
  <2> QED BY <2>1, <2>2, <2>3, ByInduction
<1>7. f[Len(s)] \in Seq(Message)
  BY <1>2, <1>5
<1>8. s \in Seq(Message) => f[Len(s)] = SubSeq(s, 1, Len(s))
  BY <1>2, <1>6
<1>9. SubSeq(s, 1, Len(s)) = s
  BY DEF Lines
<1> QED BY <1>1, <1>7, <1>8, <1>9

\* s is the end of t.
EndsIn(s, t) == Len(s) <= Len(t) /\ \A i \in 1 .. Len(s) : s[i] = t[Len(t) - Len(s) + i]

\* IsSuffix of the library compares the reversed sequences.
LEMMA SuffixIs ==
    ASSUME NEW V, NEW s \in Seq(V), NEW t \in Seq(V)
    PROVE  IsSuffix(s, t) <=> EndsIn(s, t)
<1> DEFINE a == Reverse(s)
           b == Reverse(t)
<1>1. /\ Len(s) \in Nat /\ Len(t) \in Nat
      /\ a \in Seq(V) /\ Len(a) = Len(s)
         /\ \A i \in 1 .. Len(s) : a[i] = s[(Len(s) - i) + 1]
      /\ b \in Seq(V) /\ Len(b) = Len(t)
         /\ \A i \in 1 .. Len(t) : b[i] = t[(Len(t) - i) + 1]
  BY DEF Reverse
<1> HIDE DEF a, b
<1>2. IsSuffix(s, t) <=> Len(a) <= Len(b) /\ SubSeq(a, 1, Len(a)) = SubSeq(b, 1, Len(a))
  BY Zenon DEF IsSuffix, IsPrefix, a, b
<1>3. ASSUME Len(s) <= Len(t)
      PROVE  SubSeq(a, 1, Len(a)) = SubSeq(b, 1, Len(a))
                  <=> \A i \in 1 .. Len(s) : a[i] = b[i]
  <2>1. /\ SubSeq(a, 1, Len(a)) \in Seq(V) /\ SubSeq(b, 1, Len(a)) \in Seq(V)
        /\ Len(SubSeq(a, 1, Len(a))) = Len(s) /\ Len(SubSeq(b, 1, Len(a))) = Len(s)
        /\ \A i \in 1 .. Len(s) : SubSeq(a, 1, Len(a))[i] = a[i]
        /\ \A i \in 1 .. Len(s) : SubSeq(b, 1, Len(a))[i] = b[i]
    BY <1>1, <1>3
  <2> QED BY <2>1
<1>4. ASSUME Len(s) <= Len(t)
      PROVE  (\A i \in 1 .. Len(s) : a[i] = b[i])
                <=> \A i \in 1 .. Len(s) : s[i] = t[Len(t) - Len(s) + i]
  <2>1. ASSUME \A i \in 1 .. Len(s) : a[i] = b[i], NEW i \in 1 .. Len(s)
        PROVE  s[i] = t[Len(t) - Len(s) + i]
    <3> DEFINE j == (Len(s) - i) + 1
    <3>1. j \in 1 .. Len(s) /\ j \in 1 .. Len(t) /\ (Len(s) - j) + 1 = i
          /\ (Len(t) - j) + 1 = Len(t) - Len(s) + i
      BY <1>1, <1>4
    <3> HIDE DEF j
    <3>2. a[j] = s[(Len(s) - j) + 1] /\ b[j] = t[(Len(t) - j) + 1] /\ a[j] = b[j]
      BY <1>1, <2>1, <3>1
    <3> QED BY <3>1, <3>2
  <2>2. ASSUME \A i \in 1 .. Len(s) : s[i] = t[Len(t) - Len(s) + i], NEW i \in 1 .. Len(s)
        PROVE  a[i] = b[i]
    <3> DEFINE j == (Len(s) - i) + 1
    <3>1. j \in 1 .. Len(s) /\ i \in 1 .. Len(t) /\ (Len(t) - i) + 1 = Len(t) - Len(s) + j
      BY <1>1, <1>4
    <3>2. a[i] = s[j] /\ b[i] = t[(Len(t) - i) + 1]
      BY <1>1, <3>1
    <3> HIDE DEF j
    <3>3. s[j] = t[Len(t) - Len(s) + j]
      BY <2>2, <3>1
    <3> QED BY <3>1, <3>2, <3>3
  <2> QED BY <2>1, <2>2
<1> QED BY <1>1, <1>2, <1>3, <1>4 DEF EndsIn

LEMMA EndsInItself ==
    ASSUME NEW V, NEW s \in Seq(V)
    PROVE  EndsIn(s, s) /\ EndsIn(<< >>, s)
BY DEF EndsIn

LEMMA EndsTrans ==
    ASSUME NEW V, NEW s \in Seq(V), NEW t \in Seq(V), NEW u \in Seq(V),
           EndsIn(s, t), EndsIn(t, u)
    PROVE  EndsIn(s, u)
<1>1. Len(s) \in Nat /\ Len(t) \in Nat /\ Len(u) \in Nat /\ Len(s) <= Len(t)
      /\ Len(t) <= Len(u)
  BY DEF EndsIn
<1>2. ASSUME NEW i \in 1 .. Len(s) PROVE s[i] = u[Len(u) - Len(s) + i]
  <2> DEFINE j == Len(t) - Len(s) + i
  <2>1. j \in 1 .. Len(t) /\ Len(u) - Len(t) + j = Len(u) - Len(s) + i
    BY <1>1
  <2>2. s[i] = t[j]
    BY DEF EndsIn
  <2> HIDE DEF j
  <2> QED BY <2>1, <2>2 DEF EndsIn
<1> QED BY <1>1, <1>2 DEF EndsIn

LEMMA EndsConcat ==
    ASSUME NEW V, NEW s \in Seq(V), NEW t \in Seq(V), NEW u \in Seq(V), EndsIn(s, t)
    PROVE  EndsIn(s \o u, t \o u) /\ EndsIn(u, t \o u)
<1>1. /\ Len(s) \in Nat /\ Len(t) \in Nat /\ Len(u) \in Nat /\ Len(s) <= Len(t)
      /\ Len(s \o u) = Len(s) + Len(u) /\ Len(t \o u) = Len(t) + Len(u)
  BY DEF EndsIn
<1>2. ASSUME NEW i \in 1 .. Len(s \o u)
      PROVE  (s \o u)[i] = (t \o u)[Len(t \o u) - Len(s \o u) + i]
  <2> DEFINE j == Len(t) - Len(s) + i
  <2>1. Len(t \o u) - Len(s \o u) + i = j /\ j \in 1 .. Len(t \o u)
    BY <1>1
  <2>2. CASE i <= Len(s)
    <3>1. j <= Len(t) /\ i \in 1 .. Len(s)
      BY <1>1, <2>2
    <3>2. s[i] = t[j]
      BY <3>1 DEF EndsIn
    <3>3. (s \o u)[i] = s[i]
      BY <3>1
    <3>4. (t \o u)[j] = t[j]
      BY <1>1, <2>1, <3>1
    <3> QED BY <2>1, <3>2, <3>3, <3>4
  <2>3. CASE i > Len(s)
    <3>1. j > Len(t) /\ j - Len(t) = i - Len(s)
      BY <1>1, <2>3
    <3>2. (s \o u)[i] = u[i - Len(s)]
      BY <1>1, <2>3
    <3>3. (t \o u)[j] = u[j - Len(t)]
      BY <1>1, <2>1, <3>1
    <3> QED BY <2>1, <3>1, <3>2, <3>3
  <2> QED BY <1>1, <2>2, <2>3
<1>3. EndsIn(u, t \o u)
  <2>1. ASSUME NEW i \in 1 .. Len(u) PROVE (t \o u)[Len(t \o u) - Len(u) + i] = u[i]
    <3>1. Len(t \o u) - Len(u) + i = Len(t) + i
      BY <1>1
    <3> QED BY <1>1, <3>1
  <2> QED BY <1>1, <2>1 DEF EndsIn
<1> QED BY <1>1, <1>2, <1>3 DEF EndsIn

LEMMA EndsLinear ==
    ASSUME NEW V, NEW s \in Seq(V), NEW t \in Seq(V), NEW u \in Seq(V),
           EndsIn(s, u), EndsIn(t, u), Len(s) <= Len(t)
    PROVE  EndsIn(s, t)
<1>1. Len(s) \in Nat /\ Len(t) \in Nat /\ Len(u) \in Nat /\ Len(t) <= Len(u)
  BY DEF EndsIn
<1>2. ASSUME NEW i \in 1 .. Len(s) PROVE s[i] = t[Len(t) - Len(s) + i]
  <2> DEFINE j == Len(t) - Len(s) + i
  <2>1. j \in 1 .. Len(t) /\ Len(u) - Len(t) + j = Len(u) - Len(s) + i
    BY <1>1
  <2>2. s[i] = u[Len(u) - Len(s) + i]
    BY DEF EndsIn
  <2> HIDE DEF j
  <2>3. t[j] = u[Len(u) - Len(t) + j]
    BY <2>1 DEF EndsIn
  <2> QED BY <2>1, <2>2, <2>3 DEF j
<1> QED BY <1>2 DEF EndsIn

\* The newest of a sequence are its end, and no more than were asked for.
LEMMA NewestIs ==
    ASSUME NEW V, NEW s \in Seq(V), NEW n \in Nat
    PROVE  /\ Newest(s, n) \in Seq(V) /\ EndsIn(Newest(s, n), s)
           /\ Len(Newest(s, n)) <= n
           /\ Len(Newest(s, n)) = (IF Len(s) <= n THEN Len(s) ELSE n)
<1>1. CASE Len(s) <= n
  BY <1>1, EndsInItself DEF Newest
<1>2. CASE Len(s) > n
  <2> DEFINE t == SubSeq(s, Len(s) - n + 1, Len(s))
  <2>1. Newest(s, n) = t /\ Len(s) \in Nat
    BY <1>2 DEF Newest
  <2>2. /\ t \in Seq(V) /\ Len(t) = n
        /\ \A i \in 1 .. n : t[i] = s[(Len(s) - n + 1) + i - 1]
    BY <1>2
  <2> HIDE DEF t
  <2>3. \A i \in 1 .. n : t[i] = s[Len(s) - n + i]
    <3> TAKE i \in 1 .. n
    <3>1. (Len(s) - n + 1) + i - 1 = Len(s) - n + i
      BY <2>1
    <3> QED BY <2>2, <3>1
  <2> QED BY <1>2, <2>1, <2>2, <2>3 DEF EndsIn
<1> QED BY <1>1, <1>2

LEMMA EndsInNewest ==
    ASSUME NEW V, NEW s \in Seq(V), NEW t \in Seq(V), NEW n \in Nat,
           EndsIn(s, t), Len(s) <= n
    PROVE  EndsIn(s, Newest(t, n))
<1>1. /\ Newest(t, n) \in Seq(V) /\ EndsIn(Newest(t, n), t)
      /\ Len(Newest(t, n)) = (IF Len(t) <= n THEN Len(t) ELSE n)
      /\ Len(s) \in Nat /\ Len(t) \in Nat /\ Len(s) <= Len(t)
  BY NewestIs DEF EndsIn
<1>2. Len(s) <= Len(Newest(t, n))
  BY <1>1
<1> QED BY <1>1, <1>2, EndsLinear

\* The newest of what is appended to are appended to the newest.
LEMMA NewestGrows ==
    ASSUME NEW V, NEW s \in Seq(V), NEW t \in Seq(V), NEW m \in V, NEW n \in Nat,
           EndsIn(Newest(s, n), t)
    PROVE  EndsIn(Newest(Append(s, m), n), Append(t, m))
<1> DEFINE a == Newest(s, n)
           b == Newest(Append(s, m), n)
           e == <<m>>
<1>1. /\ Append(s, m) = s \o e /\ Append(t, m) = t \o e /\ e \in Seq(V) /\ Len(e) = 1
      /\ s \o e \in Seq(V) /\ t \o e \in Seq(V) /\ Len(s \o e) = Len(s) + 1
         /\ Len(s) \in Nat
      /\ Append(s, m) \in Seq(V)
  OBVIOUS
<1>2. /\ a \in Seq(V) /\ EndsIn(a, s) /\ Len(a) = (IF Len(s) <= n THEN Len(s) ELSE n)
  BY NewestIs
<1>3. /\ b \in Seq(V) /\ EndsIn(b, s \o e)
      /\ Len(b) = (IF Len(s) + 1 <= n THEN Len(s) + 1 ELSE n)
  <2> DEFINE u == Append(s, m)
  <2>1. u \in Seq(V) /\ Len(u) = Len(s) + 1 /\ u = s \o e
    BY <1>1
  <2> HIDE DEF u
  <2>2. /\ Newest(u, n) \in Seq(V) /\ EndsIn(Newest(u, n), u)
        /\ Len(Newest(u, n)) = (IF Len(u) <= n THEN Len(u) ELSE n)
    BY <2>1, NewestIs
  <2> QED BY <2>1, <2>2 DEF u
<1> HIDE DEF a, b, e
<1>4. a \o e \in Seq(V) /\ Len(a \o e) = Len(a) + 1
  BY <1>1, <1>2
<1>5. EndsIn(a \o e, s \o e) /\ EndsIn(a \o e, t \o e)
  BY <1>1, <1>2, EndsConcat DEF a
<1>6. EndsIn(b, a \o e)
  <2>1. Len(b) <= Len(a \o e)
    BY <1>1, <1>2, <1>3, <1>4
  <2> QED BY <1>1, <1>3, <1>4, <1>5, <2>1, EndsLinear
<1>7. EndsIn(b, t \o e)
  BY <1>1, <1>3, <1>4, <1>5, <1>6, EndsTrans
<1> QED BY <1>1, <1>7 DEF b

LEMMA EndsSubset ==
    ASSUME NEW V, NEW s \in Seq(V), NEW t \in Seq(V), EndsIn(s, t)
    PROVE  ToSet(s) \subseteq ToSet(t)
<1>1. ASSUME NEW i \in DOMAIN s PROVE \E j \in DOMAIN t : s[i] = t[j]
  <2> DEFINE j == Len(t) - Len(s) + i
  <2>1. i \in 1 .. Len(s) /\ j \in DOMAIN t
    BY DEF EndsIn
  <2> QED BY <2>1 DEF EndsIn
<1>2. ToSet(s) = {s[i] : i \in DOMAIN s} /\ ToSet(t) = {t[i] : i \in DOMAIN t}
  BY Zenon DEF ToSet
<1> QED BY <1>1, <1>2

-----------------------------------------------------------------------------
(* Files *)

\* The lines a rewriting keeps.
Keep == LineCap - 1

\* What of a file the log's later writes leave readable: the line they are joined to
\* is lost.
Solid(f) == IF f.open THEN Parsed(Front(f.lines)) ELSE Parsed(f.lines)

\* The newest lines of a conversation are the end of what is solid of a file.
Held(s, f) == EndsIn(Newest(s, Keep), Solid(f))

\* Only a file with a line has one without an end.
IsFile(f) == f \in File /\ (f.open => f.lines # << >>)

LEMMA KeepIs == Keep \in Nat
BY SessionLogAssumption DEF Keep

LEMMA FileIs ==
    ASSUME NEW f \in File
    PROVE  f.lines \in Lines /\ f.open \in BOOLEAN /\ f.cut \in BOOLEAN
BY DEF File, Lines

LEMMA EmptyIs ==
    /\ IsFile(EmptyFile) /\ EmptyFile.lines = << >> /\ ~ EmptyFile.open /\ ~ EmptyFile.cut
    /\ Solid(EmptyFile) = << >>
<1>1. << >> \in Seq(Message \union {Torn}) /\ << >> \in Seq(Message)
  OBVIOUS
<1>2. EmptyFile \in File /\ EmptyFile.lines = << >> /\ ~ EmptyFile.open /\ ~ EmptyFile.cut
  BY <1>1 DEF EmptyFile, File
<1>3. Parsed(<< >>) = << >>
  <2> DEFINE none == << >>
  <2>1. none \in Lines /\ none \in Seq(Message)
    BY <1>1 DEF Lines
  <2> HIDE DEF none
  <2>2. Parsed(none) = none
    BY <2>1, ParsedTypes
  <2> QED BY <2>2 DEF none
<1> QED BY <1>2, <1>3 DEF IsFile, Solid

\* A sequence that is not empty is its front and its last.
LEMMA FrontIs ==
    ASSUME NEW V, NEW s \in Seq(V), s # << >>
    PROVE  /\ Front(s) \in Seq(V) /\ Len(Front(s)) = Len(s) - 1 /\ s[Len(s)] \in V
           /\ Last(s) = s[Len(s)]
           /\ s = Append(Front(s), s[Len(s)])
           /\ \A m \in V : [s EXCEPT ![Len(s)] = m] = Append(Front(s), m)
<1>1. Len(s) \in Nat /\ Len(s) # 0 /\ DOMAIN s = 1 .. Len(s)
  OBVIOUS
<1>2. s[Len(s)] \in V
  BY <1>1
<1> DEFINE f == SubSeq(s, 1, Len(s) - 1)
<1>3. Front(s) = f
  BY DEF Front
<1>4. f \in Seq(V) /\ Len(f) = Len(s) - 1 /\ \A i \in 1 .. Len(s) - 1 : f[i] = s[i]
  BY <1>1
<1> HIDE DEF f
<1>5. ASSUME NEW m \in V, NEW t \in Seq(V), Len(t) = Len(s), t[Len(s)] = m,
             \A i \in 1 .. Len(s) - 1 : t[i] = s[i]
      PROVE  t = Append(f, m)
  <2> DEFINE u == Append(f, m)
  <2>1. u \in Seq(V) /\ Len(u) = Len(s) /\ u[Len(s)] = m
        /\ \A i \in 1 .. Len(s) - 1 : u[i] = s[i]
    <3>1. u \in Seq(V) /\ Len(u) = Len(f) + 1 /\ u[Len(f) + 1] = m
          /\ \A i \in 1 .. Len(f) : u[i] = f[i]
      BY <1>4, AppendProperties
    <3> QED BY <1>1, <1>4, <3>1
  <2> HIDE DEF u
  <2>2. \A i \in 1 .. Len(s) : t[i] = u[i]
    BY <1>1, <1>5, <2>1
  <2>3. t = u
    BY <1>5, <2>1, <2>2, SeqEqual
  <2> QED BY <2>3 DEF u
<1>6. s = Append(f, s[Len(s)])
  BY <1>2, <1>5
<1>7. ASSUME NEW m \in V PROVE [s EXCEPT ![Len(s)] = m] = Append(f, m)
  <2> DEFINE t == [s EXCEPT ![Len(s)] = m]
  <2>1. Len(s) \in 1 .. Len(s)
    BY <1>1
  <2>2. t \in Seq(V) /\ Len(t) = Len(s)
        /\ \A j \in 1 .. Len(s) : t[j] = IF j = Len(s) THEN m ELSE s[j]
    BY <2>1, ExceptSeq
  <2> HIDE DEF t
  <2>3. t[Len(s)] = m
    BY <2>1, <2>2
  <2>4. \A i \in 1 .. Len(s) - 1 : t[i] = s[i]
    <3>1. \A n \in Nat : \A i \in 1 .. n - 1 : i \in 1 .. n /\ i # n
      OBVIOUS
    <3> QED BY <1>1, <2>2, <3>1, Zenon
  <2>5. t = Append(f, m)
    BY <1>5, <2>2, <2>3, <2>4
  <2> QED BY <2>5 DEF t
<1>8. Last(s) = s[Len(s)]
  BY DEF Last
<1> QED BY <1>2, <1>3, <1>4, <1>6, <1>7, <1>8

LEMMA FrontOfAppend ==
    ASSUME NEW V, NEW s \in Seq(V), NEW m \in V
    PROVE  /\ Append(s, m) \in Seq(V) /\ Append(s, m) # << >> /\ Front(Append(s, m)) = s
           /\ Len(Append(s, m)) = Len(s) + 1 /\ Last(Append(s, m)) = m
<1>1. Append(s, m) \in Seq(V) /\ Len(Append(s, m)) = Len(s) + 1
      /\ Append(s, m)[Len(s) + 1] = m /\ Append(s, m) # << >>
  OBVIOUS
<1>2. SubSeq(Append(s, m), 1, Len(s)) = s
  OBVIOUS
<1>3. Len(s) + 1 - 1 = Len(s)
  OBVIOUS
<1> QED BY <1>1, <1>2, <1>3 DEF Front, Last

\* A line more, on a line of its own or joined to one without an end.
LEMMA WithLineIs ==
    ASSUME NEW f, IsFile(f), NEW m \in Message \union {Torn}
    PROVE  /\ IsFile(WithLine(f, m)) /\ WithLine(f, m).open = FALSE
           /\ WithLine(f, m).cut = f.cut /\ WithLine(f, m).lines # << >>
           /\ Solid(WithLine(f, m)) =
                 IF f.open \/ m = Torn THEN Solid(f) ELSE Append(Solid(f), m)
           /\ ~ f.open => WithLine(f, m).lines = Append(f.lines, m)
           /\ Parsed(Front(WithLine(f, m).lines)) = Solid(f)
<1>1. f \in File /\ f.lines \in Seq(Message \union {Torn}) /\ f.open \in BOOLEAN
      /\ f.cut \in BOOLEAN
  BY DEF IsFile, File
<1>2. CASE f.open
  <2> DEFINE l == [f.lines EXCEPT ![Len(f.lines)] = Torn]
  <2>1. WithLine(f, m) = [f EXCEPT !.lines[Len(f.lines)] = Torn, !.open = FALSE]
    BY <1>2 DEF WithLine
  <2>2. WithLine(f, m) = [f EXCEPT !.lines = l, !.open = FALSE]
    BY <1>1, <2>1 DEF File
  <2>3. l = Append(Front(f.lines), Torn) /\ Front(f.lines) \in Seq(Message \union {Torn})
    BY <1>1, <1>2, FrontIs DEF IsFile
  <2> HIDE DEF l
  <2>4. l \in Seq(Message \union {Torn}) /\ l # << >> /\ Front(l) = Front(f.lines)
    BY <2>3, FrontOfAppend
  <2>5. Parsed(l) = Parsed(Front(f.lines))
    BY <2>3, ParsedGrows DEF Lines
  <2>6. /\ WithLine(f, m) \in File /\ WithLine(f, m).lines = l
        /\ WithLine(f, m).open = FALSE /\ WithLine(f, m).cut = f.cut
    BY <1>1, <2>2, <2>4 DEF File
  <2> QED BY <1>2, <2>4, <2>5, <2>6 DEF IsFile, Solid
<1>3. CASE ~ f.open
  <2>1. WithLine(f, m) = [f EXCEPT !.lines = Append(@, m)]
    BY <1>3 DEF WithLine
  <2>2. /\ Append(f.lines, m) \in Seq(Message \union {Torn}) /\ Append(f.lines, m) # << >>
        /\ Front(Append(f.lines, m)) = f.lines
    BY <1>1, FrontOfAppend
  <2>3. /\ WithLine(f, m) \in File /\ WithLine(f, m).lines = Append(f.lines, m)
        /\ WithLine(f, m).open = FALSE /\ WithLine(f, m).cut = f.cut
    BY <1>1, <1>3, <2>1, <2>2 DEF File
  <2>4. Parsed(Append(f.lines, m)) = IF m = Torn THEN Parsed(f.lines)
                                     ELSE Append(Parsed(f.lines), m)
    BY <1>1, ParsedGrows DEF Lines
  <2> QED BY <1>3, <2>2, <2>3, <2>4 DEF IsFile, Solid
<1> QED BY <1>1, <1>2, <1>3

\* What is readable of a file: what is solid, and perhaps the line without an end.
LEMMA SolidIsRead ==
    ASSUME NEW f, IsFile(f)
    PROVE  /\ Solid(f) \in Seq(Message)
           /\ Parsed(f.lines) \in Seq(Message)
           /\ ToSet(Solid(f)) \subseteq ToSet(Parsed(f.lines))
<1>1. f.lines \in Lines /\ f.open \in BOOLEAN
  BY FileIs DEF IsFile
<1>2. Parsed(f.lines) \in Seq(Message)
  BY <1>1, ParsedTypes
<1>3. CASE ~ f.open
  BY <1>2, <1>3 DEF Solid
<1>4. CASE f.open
  <2> DEFINE s == Front(f.lines)
             m == f.lines[Len(f.lines)]
  <2>1. s \in Lines /\ m \in Message \union {Torn} /\ f.lines = Append(s, m)
    BY <1>1, <1>4, FrontIs DEF IsFile, Lines
  <2> HIDE DEF s, m
  <2>2. Parsed(s) \in Seq(Message)
    BY <2>1, ParsedTypes
  <2>3. Parsed(f.lines) = IF m = Torn THEN Parsed(s) ELSE Append(Parsed(s), m)
    BY <2>1, ParsedGrows
  <2>4. ToSet(Parsed(s)) \subseteq ToSet(Parsed(f.lines))
    <3>1. CASE m = Torn
      BY <2>3, <3>1
    <3>2. CASE m # Torn
      <4>1. m \in Message /\ Parsed(f.lines) = Append(Parsed(s), m)
        BY <2>1, <2>3, <3>2
      <4> DEFINE p == Parsed(s)
      <4>2. p \in Seq(Message) /\ \A i \in DOMAIN p : i \in DOMAIN Append(p, m)
            /\ Append(p, m)[i] = p[i]
        BY <2>2, <4>1
      <4> HIDE DEF p
      <4>3. ToSet(p) \subseteq ToSet(Append(p, m))
        BY <4>2 DEF ToSet
      <4> QED BY <4>1, <4>3 DEF p
    <3> QED BY <3>1, <3>2
  <2> QED BY <1>2, <1>4, <2>2, <2>4 DEF Solid, s
<1> QED BY <1>1, <1>3, <1>4

LEMMA NoneHeld ==
    ASSUME NEW f, IsFile(f)
    PROVE  Held(<< >>, f) /\ Newest(<< >>, Keep) = << >>
<1>1. Newest(<< >>, Keep) = << >>
  BY KeepIs DEF Newest
<1>2. Solid(f) \in Seq(Message)
  BY SolidIsRead
<1> QED BY <1>1, <1>2, EndsInItself DEF Held

\* Which file is the latest, when the last one can be read.
LEMMA LatestIsLast ==
    ASSUME NEW fs \in Seq(File), fs # << >>, ReadTurns(Last(fs)) # << >>
    PROVE  LatestOf(fs) = ReadTurns(Last(fs))
<1> DEFINE readable == {i \in DOMAIN fs : ReadTurns(fs[i]) # << >>}
           chosen == CHOOSE i \in readable : \A j \in readable : j <= i
<1>1. Len(fs) \in Nat /\ DOMAIN fs = 1 .. Len(fs) /\ Len(fs) # 0 /\ Last(fs) = fs[Len(fs)]
  BY DEF Last
<1>2. Len(fs) \in readable /\ \A j \in readable : j <= Len(fs) /\ j \in Nat
  BY <1>1
<1> HIDE DEF readable
<1>3. chosen \in readable /\ \A j \in readable : j <= chosen
  BY <1>2
<1> HIDE DEF chosen
<1>4. chosen = Len(fs)
  BY <1>2, <1>3
<1>5. LatestOf(fs) = IF readable = {} THEN << >> ELSE ReadTurns(fs[chosen])
  BY Zenon DEF LatestOf, readable, chosen
<1> QED BY <1>1, <1>2, <1>4, <1>5

\* What is continued is messages: of the files that can be read one is the latest.
LEMMA LatestTypes ==
    ASSUME NEW fs \in Seq(File)
    PROVE  LatestOf(fs) \in Seq(Message)
<1> DEFINE readable == {i \in DOMAIN fs : ReadTurns(fs[i]) # << >>}
           chosen == CHOOSE i \in readable : \A j \in readable : j <= i
<1>1. Len(fs) \in Nat /\ DOMAIN fs = 1 .. Len(fs)
  OBVIOUS
<1>2. \A i \in DOMAIN fs : ReadTurns(fs[i]) \in Seq(Message)
  <2> TAKE i \in DOMAIN fs
  <2>1. fs[i] \in File
    OBVIOUS
  <2>2. fs[i].lines \in Lines
    BY <2>1, FileIs
  <2>3. Parsed(fs[i].lines) \in Seq(Message) /\ << >> \in Seq(Message)
    BY <2>2, ParsedTypes
  <2> QED BY <2>3 DEF ReadTurns
<1>3. readable # {} => \E i \in readable : \A j \in readable : j <= i
  <2> SUFFICES ASSUME readable # {} PROVE \E i \in readable : \A j \in readable : j <= i
    OBVIOUS
  <2>1. readable \subseteq 1 .. Len(fs)
    BY <1>1
  <2> HIDE DEF readable
  <2> DEFINE S == {n \in Nat : \E i \in readable : n + i = Len(fs)}
  <2>2. PICK i0 \in readable : TRUE
    OBVIOUS
  <2>3. Len(fs) - i0 \in S
    BY <1>1, <2>1, <2>2
  <2>4. PICK m \in S : \A k \in S : ~ (<<k, m>> \in OpToRel(<, Nat))
    <3>1. S \subseteq Nat /\ S # {}
      BY <2>3
    <3> HIDE DEF S
    <3> QED BY <3>1, WFMin, NatLessThanWellFounded, Zenon
  <2>5. \A k \in S : ~ (k < m)
    BY <2>4, Zenon DEF OpToRel, S
  <2>6. PICK i \in readable : m + i = Len(fs)
    OBVIOUS
  <2>7. \A j \in readable : j <= i
    <3> TAKE j \in readable
    <3>0. j \in 1 .. Len(fs) /\ i \in 1 .. Len(fs)
      BY <2>1
    <3>1. Len(fs) - j \in S
      <4>1. Len(fs) - j \in Nat /\ (Len(fs) - j) + j = Len(fs)
        <5>1. \A n \in Nat : \A k \in 1 .. n : n - k \in Nat /\ (n - k) + k = n
          OBVIOUS
        <5> QED BY <1>1, <3>0, <5>1
      <4>2. \E k \in readable : (Len(fs) - j) + k = Len(fs)
        BY <4>1
      <4> QED BY <4>1, <4>2
    <3>2. ~ (Len(fs) - j < m)
      BY <2>5, <3>1
    <3>3. m \in Nat
      OBVIOUS
    <3> HIDE DEF S
    <3> QED BY <1>1, <2>6, <3>0, <3>2, <3>3
  <2> QED BY <2>7
<1>4. readable # {} => chosen \in readable
  BY <1>3
<1>5. LatestOf(fs) = IF readable = {} THEN << >> ELSE ReadTurns(fs[chosen])
  BY Zenon DEF LatestOf
<1>6. readable \subseteq DOMAIN fs
  OBVIOUS
<1> HIDE DEF readable, chosen
<1>7. << >> \in Seq(Message)
  OBVIOUS
<1> QED BY <1>2, <1>4, <1>5, <1>6, <1>7

\* What the last file holds of a conversation is what is continued of it.
LEMMA HeldIsContinued ==
    ASSUME NEW fs \in Seq(File), fs # << >>, IsFile(Last(fs)), ~ Last(fs).cut,
           NEW s \in Seq(Message), Held(s, Last(fs))
    PROVE  ToSet(Newest(s, Keep)) \subseteq ToSet(LatestOf(fs))
<1> DEFINE f == Last(fs)
<1>1. /\ Solid(f) \in Seq(Message) /\ Parsed(f.lines) \in Seq(Message)
      /\ ToSet(Solid(f)) \subseteq ToSet(Parsed(f.lines))
  BY SolidIsRead
<1>2. Newest(s, Keep) \in Seq(Message)
  BY KeepIs, NewestIs
<1>3. ToSet(Newest(s, Keep)) \subseteq ToSet(Parsed(f.lines))
  BY <1>1, <1>2, EndsSubset DEF Held
<1>4. ReadTurns(f) = Parsed(f.lines)
  BY DEF ReadTurns
<1> HIDE DEF f
<1>5. CASE Parsed(f.lines) = << >>
  <2>1. ToSet(<< >>) = {}
    BY DEF ToSet
  <2> QED BY <1>3, <1>5, <2>1
<1>6. CASE Parsed(f.lines) # << >>
  <2>1. LatestOf(fs) = Parsed(f.lines)
    BY <1>4, <1>6, LatestIsLast DEF f
  <2> QED BY <1>3, <2>1
<1> QED BY <1>5, <1>6

-----------------------------------------------------------------------------
(* The invariant of the transcript *)

\* The part of TypeOK that is about the transcript.
LogTypes ==
    /\ history \in Seq(Message) /\ files \in Seq(File) /\ log \in Handle
    /\ todo \in Seq(Message) /\ saved \in Seq(Message)
    /\ copy \in {"whole", "going on", "cut"} /\ spent \in [Bounded -> Nat]

\* Lines are stored at the end of a turn alone; what a run continues is waiting until
\* its first line, and is the whole history until then.
Shape ==
    /\ log.made => log.on /\ files # << >>
    /\ todo # << >> => Storing
    /\ Storing => log.on
    /\ log.on /\ log.earlier # << >> =>
          ~ Storing /\ ~ log.made /\ log.turns = 0 /\ log.earlier = history
    /\ IsFile(Current)

\* The answer, while the question is being stored.
Pending ==
    IF pc = "user" /\ turn.answer # "none" THEN <<Said("assistant")>> ELSE << >>

\* A line of the turn that is being stored was missed.
Missed == Storing /\ turn.missed

\* Nothing was lost of the file.
Intact(f) == ~ f.open /\ ~ f.cut

\* As long as no line is missed the file, with what is still to be stored, ends the way
\* the conversation does.
Flow ==
    log.on /\ ~ Missed =>
        /\ Intact(Current) /\ Current.lines \in Seq(Message)
        /\ EndsIn((Current.lines \o todo) \o Pending, history)

\* After a missed question there is the answer to store, and the log is closed.
Closing ==
    Missed => /\ pc = "assistant" /\ Len(todo) <= 1
              /\ todo # << >> /\ AtCap => Intact(Current)

\* What of the lines to store is copied: all but the turn's own.
Unsaid == IF todo = << >> THEN << >> ELSE Front(todo)

\* Of what the log said was written, all is in the file but what is still to be copied.
Covered ==
    log.on /\ copy # "cut" =>
        \/ saved = << >>
        \/ \E w \in Seq(Message) : saved = w \o (log.earlier \o Unsaid) /\ Held(w, Current)

\* Nothing was said while the copying has not begun, or there is nothing to copy.
Going ==
    copy = "whole" /\ Len(todo) > 1 => saved = << >> \/ (~ log.made /\ log.turns = 0)

\* SavedIsContinued.
Continued ==
    copy = "whole" /\ (\A i \in DOMAIN files : ~ files[i].cut)
        => ToSet(Newest(saved, Keep)) \subseteq ToSet(LatestOf(files))

\* Each of the parts needs those before it; none is inductive alone.
Transcript == LogTypes /\ Shape /\ Flow /\ Closing /\ Covered /\ Going /\ Continued

\* Of nothing that was said, nothing is missing.
LEMMA NoneIsContinued ==
    ASSUME NEW fs, NEW s, s = << >>
    PROVE  ToSet(Newest(s, Keep)) \subseteq ToSet(LatestOf(fs))
<1>1. Newest(s, Keep) = << >>
  BY KeepIs DEF Newest
<1>2. ToSet(<< >>) = {}
  BY DEF ToSet
<1> QED BY <1>1, <1>2

\* The file that is written is the last one.
LEMMA PutIs ==
    ASSUME files \in Seq(File), log.made => files # << >>, NEW f \in File, Put(f)
    PROVE  /\ files' \in Seq(File) /\ files' # << >> /\ Last(files') = f
           /\ (\A i \in DOMAIN files' : ~ files'[i].cut) => ~ f.cut
<1> DEFINE fs == IF log.made THEN Front(files) ELSE files
<1>1. fs \in Seq(File)
  BY FrontIs
<1>2. files' = fs \o <<f>>
  BY DEF Put
<1> HIDE DEF fs
<1>3. fs \o <<f>> = Append(fs, f)
  BY <1>1
<1>4. /\ files' \in Seq(File) /\ files' # << >> /\ Last(files') = f
      /\ Len(files') = Len(fs) + 1 /\ Len(fs) \in Nat
  <2> DEFINE g == Append(fs, f)
  <2>1. g \in Seq(File) /\ g # << >> /\ Len(g) = Len(fs) + 1 /\ Last(g) = f
    BY <1>1, FrontOfAppend
  <2>2. files' = g
    BY <1>2, <1>3
  <2> HIDE DEF g
  <2> QED BY <1>1, <2>1, <2>2
<1>5. Len(files') \in DOMAIN files' /\ files'[Len(files')] = f
  BY <1>4 DEF Last
<1> QED BY <1>4, <1>5

LEMMA CurrentIs ==
    ASSUME LogTypes, Shape
    PROVE  Current \in File /\ Solid(Current) \in Seq(Message) /\ Current.lines \in Lines
           /\ IsFile(Current)
BY SolidIsRead, FileIs DEF Shape, IsFile

-----------------------------------------------------------------------------
\* A step that is not about the transcript.
LEMMA QuietKeeps ==
    ASSUME Transcript, UNCHANGED <<logVars, history>>, spent' \in [Bounded -> Nat],
           \/ ~ Storing /\ pc' \notin {"user", "assistant"}
           \/ pc' = pc /\ turn'.missed = turn.missed /\ turn'.answer = turn.answer
              /\ turn'.number = turn.number
    PROVE  Transcript'
<1>1. UNCHANGED <<files, log, todo, saved, copy, history>>
  BY DEF logVars
<1>2. Current' = Current /\ Unsaid' = Unsaid
  BY <1>1 DEF Current, Unsaid
<1>3. Storing' <=> Storing
  BY DEF Storing
<1>4. Missed' <=> Missed
  BY <1>3 DEF Missed, Storing
<1>5. Pending' = Pending
  BY <1>3 DEF Pending, Storing, Said
<1>6. LogTypes' /\ Going' /\ Continued'
  BY <1>1 DEF Transcript, LogTypes, Going, Continued
<1>7. Shape'
  BY <1>1, <1>2, <1>3 DEF Transcript, Shape
<1>8. Flow'
  BY <1>1, <1>2, <1>4, <1>5, Zenon DEF Transcript, Flow
<1>9. Closing'
  <2>1. Missed => pc' = pc
    BY DEF Missed, Storing
  <2>2. AtCap' <=> AtCap
    BY <1>1 DEF AtCap
  <2> QED BY <1>1, <1>2, <1>4, <2>1, <2>2 DEF Transcript, Closing
<1>10. Covered'
  BY <1>1, <1>2, Zenon DEF Transcript, Covered
<1> QED BY <1>6, <1>7, <1>8, <1>9, <1>10 DEF Transcript

\* A log that is off has nothing to keep.
LEMMA OffKeeps ==
    ASSUME log' = Closed, todo' = << >>, pc' \notin {"user", "assistant"},
           LogTypes', Continued'
    PROVE  Transcript'
<1>1. log'.on = FALSE /\ log'.made = FALSE /\ log'.earlier = << >>
  BY DEF Closed
<1>2. Current' = EmptyFile
  BY <1>1 DEF Current
<1>3. ~ Storing'
  BY DEF Storing
<1>4. Shape'
  BY <1>1, <1>2, <1>3, EmptyIs DEF Shape
<1>5. Flow' /\ Closing' /\ Covered'
  BY <1>1, <1>3 DEF Flow, Closing, Missed, Covered
<1>6. Going'
  BY DEF Going
<1> QED BY <1>4, <1>5, <1>6 DEF Transcript

LEMMA ClosedIs == Closed \in Handle /\ << >> \in Seq(Message)
BY SessionLogAssumption DEF Closed, Handle

LEMMA PrunedIs == LogTypes => Pruned \in Seq(File)
<1>1. FileCap - 1 \in Nat
  BY SessionLogAssumption
<1> QED BY <1>1, NewestIs DEF LogTypes, Pruned

\* A new log keeps what it continues, and nothing else.
LEMMA StartKeeps ==
    ASSUME Transcript, NEW e \in Seq(Message), StartLog(e), history' = e,
           pc' \notin {"user", "assistant"}, spent' \in [Bounded -> Nat],
           e = << >> \/ e = LatestOf(Pruned)
    PROVE  Transcript'
<1>1. /\ files' = Pruned /\ todo' = << >> /\ saved' = e /\ copy' = "whole"
      /\ log' = [Closed EXCEPT !.on = TRUE, !.earlier = e]
  BY DEF StartLog
<1>2. /\ log' \in Handle /\ log'.on = TRUE /\ log'.made = FALSE /\ log'.turns = 0
      /\ log'.earlier = e
  <2>1. log' = [on |-> TRUE, made |-> FALSE, turns |-> 0, earlier |-> e]
    BY <1>1 DEF Closed
  <2>2. 0 \in 0 .. LineCap
    BY SessionLogAssumption
  <2> QED BY <2>1, <2>2 DEF Handle
<1>3. Current' = EmptyFile /\ ~ Storing' /\ Unsaid' = << >>
  BY <1>1, <1>2 DEF Current, Storing, Unsaid
<1>4. LogTypes'
  BY <1>1, <1>2, PrunedIs, ClosedIs DEF Transcript, LogTypes
<1>5. Shape'
  BY <1>1, <1>2, <1>3, EmptyIs DEF Shape
<1>6. Flow'
  <2>1. Pending' = << >>
    BY <1>3 DEF Pending, Storing
  <2>2. (EmptyFile.lines \o << >>) \o << >> = << >>
    BY EmptyIs
  <2>3. EndsIn(<< >>, e)
    BY EndsInItself
  <2> QED BY <1>1, <1>3, <2>1, <2>2, <2>3, EmptyIs, ClosedIs DEF Flow, Intact
<1>7. Closing' /\ Going'
  BY <1>1, <1>3 DEF Closing, Missed, Going
<1>8. Covered'
  <2> DEFINE none == << >>
  <2>1. none \in Seq(Message) /\ e = none \o (e \o << >>) /\ Held(none, EmptyFile)
    BY EmptyIs, NoneHeld
  <2> HIDE DEF none
  <2> QED BY <1>1, <1>2, <1>3, <2>1 DEF Covered
<1>9. Continued'
  <2>1. Newest(e, Keep) \in Seq(Message) /\ EndsIn(Newest(e, Keep), e)
    BY KeepIs, NewestIs
  <2>2. ToSet(Newest(e, Keep)) \subseteq ToSet(e)
    BY <2>1, EndsSubset
  <2> QED BY <1>1, <2>2, NoneIsContinued DEF Continued
<1> QED BY <1>4, <1>5, <1>6, <1>7, <1>8, <1>9 DEF Transcript

LEMMA PendingIs ==
    ASSUME TurnTypes
    PROVE  /\ Pending \in Seq(Message) /\ Said("user") \in Message
           /\ Said("assistant") \in Message
<1>1. turn.number \in Nat
  BY DEF TurnTypes, Turn
<1>2. Said("user") \in Message /\ Said("assistant") \in Message
  BY <1>1 DEF Said, Message
<1> DEFINE m == Said("assistant")
<1>3. <<m>> \in Seq(Message) /\ << >> \in Seq(Message)
  BY <1>2
<1> QED BY <1>2, <1>3 DEF Pending

\* Without the file, what is to be stored still ends as the history does.
LEMMA EndsWithout ==
    ASSUME NEW V, NEW a \in Seq(V), NEW b \in Seq(V), NEW c \in Seq(V), NEW h \in Seq(V),
           EndsIn((a \o b) \o c, h)
    PROVE  EndsIn((<< >> \o b) \o c, h)
<1> DEFINE d == b \o c
           none == << >>
<1>1. d \in Seq(V) /\ none \in Seq(V) /\ EndsIn(none, a)
  BY EndsInItself
<1>2. (a \o b) \o c = a \o d /\ (<< >> \o b) \o c = d /\ a \o d \in Seq(V)
  OBVIOUS
<1> HIDE DEF d, none
<1>3. EndsIn(d, a \o d)
  BY <1>1, EndsConcat
<1> QED BY <1>1, <1>2, <1>3, EndsTrans

\* The files are removed under the log.
LEMMA PurgeKeeps ==
    ASSUME TurnTypes, Transcript, PurgeLog, UNCHANGED <<pc, turn, history>>,
           spent' \in [Bounded -> Nat]
    PROVE  Transcript'
<1>1. /\ files' = << >> /\ log' = [log EXCEPT !.made = FALSE] /\ saved' = << >>
      /\ copy' = "whole" /\ todo' = todo
  BY DEF PurgeLog
<1>2. /\ log' \in Handle /\ log'.on = log.on /\ log'.made = FALSE /\ log'.turns = log.turns
      /\ log'.earlier = log.earlier
  BY <1>1 DEF Transcript, LogTypes, Handle
<1>3. Current' = EmptyFile /\ (Storing' <=> Storing) /\ Pending' = Pending
      /\ (Missed' <=> Missed)
  BY <1>2 DEF Current, Storing, Pending, Said, Missed
<1>4. LogTypes'
  <2>1. << >> \in Seq(File) /\ << >> \in Seq(Message)
    OBVIOUS
  <2> QED BY <1>1, <1>2, <2>1 DEF Transcript, LogTypes
<1>5. Shape'
  BY <1>1, <1>2, <1>3, EmptyIs DEF Transcript, Shape
<1>6. Flow'
  <2> SUFFICES ASSUME log.on, ~ Missed
               PROVE  EndsIn((EmptyFile.lines \o todo) \o Pending, history)
    BY <1>1, <1>2, <1>3, EmptyIs, ClosedIs DEF Flow, Intact
  <2>1. /\ Current.lines \in Seq(Message) /\ todo \in Seq(Message)
        /\ Pending \in Seq(Message) /\ history \in Seq(Message)
        /\ EndsIn((Current.lines \o todo) \o Pending, history)
    BY PendingIs DEF Transcript, LogTypes, Flow
  <2>2. EmptyFile.lines = << >>
    BY EmptyIs
  <2> QED BY <2>1, <2>2, EndsWithout
<1>7. Closing' /\ Going'
  BY <1>1, <1>2, <1>3, EmptyIs DEF Transcript, Closing, Going, AtCap, Intact
<1>8. Covered' /\ Continued'
  BY <1>1, NoneIsContinued DEF Covered, Continued
<1> QED BY <1>4, <1>5, <1>6, <1>7, <1>8 DEF Transcript

-----------------------------------------------------------------------------
(* The steps that keep it *)

\* The history takes the turn, and the log what is to be stored of it.
LEMMA SettleKeeps ==
    ASSUME TurnTypes, Transcript, Settle
    PROVE  Transcript'
<1>1. /\ pc = "over" /\ UNCHANGED <<files, saved, copy, spent>>
      /\ history' = history \o <<Said("user")>> \o
                      (IF turn.answer = "none" THEN << >> ELSE <<Said("assistant")>>)
      /\ turn' = [NewTurn(turn.number) EXCEPT !.answer = turn.answer,
                                              !.stopped = turn.stopped]
  BY DEF Settle, Free
<1>2. turn'.number = turn.number /\ turn'.answer = turn.answer /\ turn'.missed = FALSE
  BY <1>1 DEF NewTurn
<1>3. todo = << >> /\ ~ Storing
  BY <1>1 DEF Transcript, Shape, Storing
<1> DEFINE u == Said("user")
           rest == IF turn.answer = "none" THEN << >> ELSE <<Said("assistant")>>
<1>4. u \in Message /\ <<u>> \in Seq(Message) /\ rest \in Seq(Message)
      /\ history \in Seq(Message) /\ history' = (history \o <<u>>) \o rest
      /\ Said("user")' = u /\ history' \in Seq(Message)
  <2>1. u \in Message /\ Said("assistant") \in Message
    BY PendingIs
  <2>2. rest \in Seq(Message)
    BY <2>1
  <2>3. history \in Seq(Message) /\ Said("user")' = u
    BY <1>2 DEF Transcript, LogTypes, Said
  <2> HIDE DEF rest, u
  <2> QED BY <1>1, <2>1, <2>2, <2>3 DEF rest, u
<1>5. CASE ~ log.on
  <2>1. pc' = "prompt" /\ UNCHANGED <<todo, log>>
    BY <1>5 DEF Settle, Goto
  <2>2. ~ Storing' /\ Current' = Current
    BY <1>1, <2>1 DEF Storing, Current
  <2> HIDE DEF u, rest
  <2>3. LogTypes' /\ Going' /\ Continued'
    BY <1>1, <1>4, <2>1 DEF Transcript, LogTypes, Going, Continued
  <2>4. Shape'
    BY <1>1, <1>3, <1>5, <2>1, <2>2 DEF Transcript, Shape
  <2>5. Flow' /\ Closing' /\ Covered'
    BY <1>5, <2>1, <2>2 DEF Flow, Closing, Missed, Covered
  <2> QED BY <2>3, <2>4, <2>5 DEF Transcript
<1>6. CASE log.on
  <2>1. /\ pc' = "user" /\ todo' = Append(log.earlier, u)
           /\ log' = [log EXCEPT !.earlier = << >>]
    BY <1>6 DEF Settle, Goto
  <2>2. log \in Handle /\ log.earlier \in Seq(Message)
    BY DEF Transcript, LogTypes, Handle
  <2>3. /\ log' \in Handle /\ log'.on /\ log'.made = log.made /\ log'.turns = log.turns
        /\ log'.earlier = << >>
    BY <1>6, <2>1, <2>2, ClosedIs DEF Handle
  <2>4. /\ todo' \in Seq(Message) /\ todo' # << >> /\ Front(todo') = log.earlier
        /\ Len(todo') = Len(log.earlier) + 1
    BY <1>4, <2>1, <2>2, FrontOfAppend
  <2>5. Storing' /\ ~ Missed' /\ Current' = Current /\ Pending' = rest
    BY <1>1, <1>2, <2>1, <2>3 DEF Storing, Missed, Current, Pending, Said
  <2>6. LogTypes'
    BY <1>1, <1>4, <2>3, <2>4 DEF Transcript, LogTypes
  <2>7. Shape'
    BY <1>1, <2>3, <2>5 DEF Transcript, Shape
  <2>8. /\ Intact(Current) /\ Current.lines \in Seq(Message)
        /\ EndsIn((Current.lines \o todo) \o Pending, history)
    BY <1>3, <1>6 DEF Transcript, Flow, Missed
  <2>9. EndsIn((Current.lines \o todo') \o rest, history')
    <3> HIDE DEF u, rest
    <3> DEFINE a == Current.lines
    <3>1. EndsIn(a, history)
      <4>1. Pending = << >>
        BY <1>1 DEF Pending
      <4>2. (a \o << >>) \o << >> = a
        BY <2>8
      <4> QED BY <1>3, <2>8, <4>1, <4>2
    <3>2. CASE log.earlier = << >>
      <4>1. todo' = <<u>>
        BY <2>1, <3>2
      <4>2. EndsIn(a \o <<u>>, history \o <<u>>)
        BY <1>4, <2>8, <3>1, EndsConcat
      <4> DEFINE b == a \o <<u>>
                 c == history \o <<u>>
      <4>3. b \in Seq(Message) /\ c \in Seq(Message)
        BY <1>4, <2>8
      <4> HIDE DEF b, c
      <4>4. EndsIn(b \o rest, c \o rest)
        BY <1>4, <4>2, <4>3, EndsConcat DEF b, c
      <4> QED BY <1>4, <4>1, <4>4 DEF b, c
    <3>3. CASE log.earlier # << >>
      <4>1. ~ log.made /\ log.earlier = history
        BY <1>6, <3>3 DEF Transcript, Shape
      <4>2. Current.lines = << >>
        BY <4>1, EmptyIs DEF Current
      <4>3. todo' = history \o <<u>>
        BY <1>4, <2>1, <4>1
      <4>4. << >> \o todo' = todo'
        BY <2>4
      <4> QED BY <1>4, <4>2, <4>3, <4>4, EndsInItself
    <3> QED BY <3>2, <3>3
  <2> HIDE DEF u, rest
  <2>10. Flow'
    BY <2>5, <2>8, <2>9 DEF Flow
  <2>11. Closing' /\ Continued'
    BY <1>1, <2>5 DEF Transcript, Closing, Continued
  <2>12. Covered'
    <3>1. Unsaid' = log.earlier /\ Unsaid = << >>
      BY <1>3, <2>4 DEF Unsaid
    <3>2. << >> \o log.earlier = log.earlier /\ log.earlier \o << >> = log.earlier
      BY <2>2
    <3> QED BY <1>1, <1>6, <2>3, <2>5, <3>1, <3>2 DEF Transcript, Covered
  <2>13. Going'
    <3>1. Len(todo') > 1 => log.earlier # << >>
      BY <2>4
    <3> QED BY <1>1, <1>6, <2>3, <3>1 DEF Going, Transcript, Shape
  <2> QED BY <2>6, <2>7, <2>10, <2>11, <2>12, <2>13 DEF Transcript
<1> QED BY <1>5, <1>6

\* What holds while there are lines to store.
LEMMA StoringIs ==
    ASSUME Transcript, todo # << >>
    PROVE  Storing /\ log.on /\ log.earlier = << >> /\ todo \in Seq(Message)
           /\ Len(todo) \in Nat
           /\ Len(todo) > 0 /\ Head(todo) \in Message /\ Tail(todo) \in Seq(Message)
           /\ Len(Tail(todo)) = Len(todo) - 1
           /\ (Len(todo) > 1 => ~ Missed)
           /\ (AtCap => Intact(Current))
<1>1. Storing /\ log.on /\ log.earlier = << >> /\ todo \in Seq(Message)
  BY DEF Transcript, Shape, LogTypes
<1>2. Len(todo) \in Nat /\ Len(todo) > 0 /\ Head(todo) \in Message
      /\ Tail(todo) \in Seq(Message)
      /\ Len(Tail(todo)) = Len(todo) - 1
  BY <1>1
<1>3. Len(todo) > 1 => ~ Missed
  BY <1>2 DEF Transcript, Closing
<1>4. AtCap => Intact(Current)
  BY <1>1 DEF Transcript, Closing, Flow
<1> QED BY <1>1, <1>2, <1>3, <1>4

\* A single line to store: all of what was said to be written is in the file.
LEMMA OneLineLeft ==
    ASSUME Transcript, log.on, log.earlier = << >>, Len(todo) <= 1, copy # "cut"
    PROVE  Held(saved, Current) /\ Unsaid = << >>
<1>1. todo \in Seq(Message) /\ saved \in Seq(Message)
  BY DEF Transcript, LogTypes
<1>2. Unsaid = << >>
  <2>1. CASE todo = << >>
    BY <2>1 DEF Unsaid
  <2>2. CASE todo # << >>
    <3>1. Front(todo) \in Seq(Message) /\ Len(Front(todo)) = 0
      BY <1>1, <2>2, FrontIs
    <3>2. Front(todo) = << >>
      BY <3>1
    <3> QED BY <2>2, <3>2 DEF Unsaid
  <2> QED BY <2>1, <2>2
<1>3. Held(<< >>, Current)
  BY NoneHeld, CurrentIs DEF Transcript
<1>4. ASSUME NEW w \in Seq(Message), saved = w \o (log.earlier \o Unsaid) PROVE saved = w
  BY <1>2, <1>4
<1> QED BY <1>2, <1>3, <1>4 DEF Transcript, Covered

\* A file that loses lines at its beginning ends as it did.
LEMMA EndsOfShorter ==
    ASSUME NEW V, NEW k \in Seq(V), NEW a \in Seq(V), NEW b \in Seq(V), NEW c \in Seq(V),
           NEW h \in Seq(V), EndsIn(k, a), EndsIn((a \o b) \o c, h)
    PROVE  EndsIn((k \o b) \o c, h)
<1>1. EndsIn(k \o b, a \o b)
  BY EndsConcat
<1> DEFINE kb == k \o b
           ab == a \o b
<1>2. kb \in Seq(V) /\ ab \in Seq(V) /\ EndsIn(kb, ab)
  BY <1>1
<1> HIDE DEF kb, ab
<1> DEFINE x == kb \o c
           y == ab \o c
<1>3. x \in Seq(V) /\ y \in Seq(V) /\ EndsIn(x, y)
  BY <1>2, EndsConcat
<1>4. EndsIn(y, h)
  BY DEF ab
<1> HIDE DEF x, y
<1>5. EndsIn(x, h)
  BY <1>3, <1>4, EndsTrans
<1> QED BY <1>5 DEF x, kb

\* The newest lines written over the file are still the newest.
LEMMA RewriteKeeps ==
    ASSUME TurnTypes, Transcript, Rewrite, UNCHANGED <<pc, turn, history, spent>>
    PROVE  Transcript'
<1> DEFINE kept == Newest(ReadTurns(Current), Keep)
           f == [EmptyFile EXCEPT !.lines = kept]
<1>1. /\ todo # << >> /\ AtCap /\ Put(f)
         /\ log' = [log EXCEPT !.made = TRUE, !.turns = Len(kept)]
      /\ UNCHANGED <<todo, saved, copy>>
  BY DEF Rewrite, Keep
<1>2. /\ Storing /\ log.on /\ log.earlier = << >> /\ Intact(Current)
  BY <1>1, StoringIs
<1>3. Current \in File /\ Solid(Current) \in Seq(Message) /\ Current.lines \in Lines
      /\ IsFile(Current)
  BY CurrentIs DEF Transcript
<1>4. ReadTurns(Current) = Solid(Current)
  BY <1>2 DEF ReadTurns, Solid, Intact
<1>5. /\ kept \in Seq(Message) /\ EndsIn(kept, Solid(Current)) /\ Len(kept) <= Keep
      /\ Len(kept) \in Nat
  BY <1>3, <1>4, KeepIs, NewestIs
<1>17. kept = Newest(Solid(Current), Keep)
  BY <1>4
<1>6. f \in File /\ f.lines = kept /\ ~ f.open /\ ~ f.cut /\ Solid(f) = kept
  <2>1. kept \in Seq(Message \union {Torn})
    BY <1>5, SeqMonotonic
  <2> HIDE DEF kept
  <2>2. f \in File /\ f.lines = kept /\ ~ f.open /\ ~ f.cut
    BY <2>1 DEF EmptyFile, File
  <2>3. Parsed(kept) = kept
    BY <1>5, <2>1, ParsedTypes DEF Lines
  <2> QED BY <2>2, <2>3 DEF Solid
<1> HIDE DEF f, kept
<1>7. files' \in Seq(File) /\ files' # << >> /\ Last(files') = f
  BY <1>1, <1>6, PutIs DEF Transcript, LogTypes, Shape
<1>8. /\ log' \in Handle /\ log'.on = log.on /\ log'.made = TRUE /\ log'.earlier = << >>
      /\ log'.turns = Len(kept)
  <2> DEFINE n == Len(kept)
  <2>0. log \in Handle
    BY DEF Transcript, LogTypes
  <2>1. log \in Handle /\ n \in 0 .. LineCap
    BY <1>5, <2>0, SessionLogAssumption DEF Keep
  <2>2. log' = [log EXCEPT !.made = TRUE, !.turns = n]
    BY <1>1
  <2> HIDE DEF n
  <2>3. log' = [on |-> log.on, made |-> TRUE, turns |-> n, earlier |-> log.earlier]
    BY <2>1, <2>2 DEF Handle
  <2>4. log' \in Handle
    BY <2>1, <2>3 DEF Handle
  <2>5. log'.on = log.on /\ log'.made = TRUE /\ log'.earlier = << >> /\ log'.turns = n
    BY <1>2, <2>3
  <2> QED BY <2>4, <2>5 DEF n
<1>9. Current' = f /\ (Storing' <=> Storing) /\ Pending' = Pending /\ Unsaid' = Unsaid
      /\ (Missed' <=> Missed)
  BY <1>1, <1>7, <1>8 DEF Current, Storing, Pending, Said, Unsaid, Missed
<1>10. LogTypes'
  BY <1>1, <1>7, <1>8 DEF Transcript, LogTypes
<1>11. Shape'
  BY <1>1, <1>2, <1>6, <1>7, <1>8, <1>9 DEF Transcript, Shape, IsFile
<1>12. Flow'
  <2> SUFFICES ASSUME ~ Missed PROVE EndsIn((kept \o todo) \o Pending, history)
    BY <1>1, <1>5, <1>6, <1>8, <1>9 DEF Flow, Intact
  <2>1. /\ Current.lines \in Seq(Message)
           /\ EndsIn((Current.lines \o todo) \o Pending, history)
    BY <1>2 DEF Transcript, Flow
  <2>2. EndsIn(kept, Current.lines)
    BY <1>2, <1>3, <1>5, <2>1, ParsedTypes DEF Solid, Intact
  <2> DEFINE c == Current.lines
             r == Pending
  <2>3. /\ r \in Seq(Message) /\ todo \in Seq(Message) /\ history \in Seq(Message)
        /\ c \in Seq(Message)
    BY <2>1, PendingIs DEF Transcript, LogTypes
  <2>4. EndsIn((c \o todo) \o r, history) /\ EndsIn(kept, c)
    BY <2>1, <2>2
  <2> HIDE DEF c, r
  <2>5. EndsIn((kept \o todo) \o r, history)
    BY <1>5, <2>3, <2>4, EndsOfShorter
  <2> QED BY <2>5 DEF r
<1>13. Closing'
  BY <1>6, <1>9, <1>1 DEF Transcript, Closing, Intact
<1>14. Covered'
  <2> SUFFICES ASSUME copy # "cut", NEW w \in Seq(Message), Held(w, Current)
               PROVE  Held(w, f)
    BY <1>1, <1>2, <1>8, <1>9 DEF Transcript, Covered
  <2>1. Newest(w, Keep) \in Seq(Message) /\ Len(Newest(w, Keep)) <= Keep
    BY KeepIs, NewestIs
  <2>2. EndsIn(Newest(w, Keep), Newest(Solid(Current), Keep))
    BY <1>3, <2>1, KeepIs, EndsInNewest DEF Held
  <2> QED BY <1>6, <1>17, <2>2 DEF Held
<1>15. Going'
  <2>1. log.turns # 0
    BY <1>1, SessionLogAssumption DEF AtCap
  <2> QED BY <1>1, <2>1 DEF Transcript, Going
<1>16. Continued'
  <2> SUFFICES ASSUME copy = "whole"
               PROVE  ToSet(Newest(saved, Keep)) \subseteq ToSet(LatestOf(files'))
    BY <1>1 DEF Continued
  <2>1. CASE Len(todo) > 1
    <3>1. saved = << >>
      <4>1. log.turns # 0
        BY <1>1, SessionLogAssumption DEF AtCap
      <4> QED BY <2>1, <4>1 DEF Transcript, Going
    <3> QED BY <3>1, NoneIsContinued
  <2>2. CASE ~ (Len(todo) > 1)
    <3>1. Len(todo) <= 1
      BY <1>1, <2>2, StoringIs
    <3>2. Held(saved, Current) /\ saved \in Seq(Message)
      BY <1>2, <3>1, OneLineLeft DEF Transcript, LogTypes
    <3>3. Held(saved, f)
      <4>1. Newest(saved, Keep) \in Seq(Message) /\ Len(Newest(saved, Keep)) <= Keep
        BY <3>2, KeepIs, NewestIs
      <4>2. EndsIn(Newest(saved, Keep), Newest(Solid(Current), Keep))
        BY <1>3, <3>2, <4>1, KeepIs, EndsInNewest DEF Held
      <4> QED BY <1>6, <1>17, <4>2 DEF Held
    <3>4. IsFile(f) /\ ~ f.cut
      BY <1>6 DEF IsFile
    <3> QED BY <1>7, <3>2, <3>3, <3>4, HeldIsContinued
  <2> QED BY <2>1, <2>2
<1> QED BY <1>10, <1>11, <1>12, <1>13, <1>14, <1>15, <1>16 DEF Transcript

\* What is held of a conversation grows with the file.
LEMMA HeldGrows ==
    ASSUME NEW f, IsFile(f), NEW m \in Message, NEW s \in Seq(Message), Held(s, f)
    PROVE  /\ ~ f.open => Held(Append(s, m), WithLine(f, m))
           /\ f.open => Held(s, WithLine(f, m))
<1>1. Solid(f) \in Seq(Message) /\ m # Torn
  BY SolidIsRead, TornIsNoMessage
<1>2. Solid(WithLine(f, m)) = IF f.open THEN Solid(f) ELSE Append(Solid(f), m)
  BY <1>1, WithLineIs
<1>3. CASE f.open
  BY <1>2, <1>3 DEF Held
<1>4. CASE ~ f.open
  <2> DEFINE t == Solid(f)
  <2>1. t \in Seq(Message) /\ EndsIn(Newest(s, Keep), t)
    BY <1>1 DEF Held
  <2>2. Solid(WithLine(f, m)) = Append(t, m)
    BY <1>2, <1>4
  <2> HIDE DEF t
  <2>3. EndsIn(Newest(Append(s, m), Keep), Append(t, m))
    BY <2>1, KeepIs, NewestGrows
  <2> QED BY <1>4, <2>2, <2>3 DEF Held
<1> QED BY <1>3, <1>4

\* Sequences taken apart at the head.
LEMMA HeadIs ==
    ASSUME NEW V, NEW s \in Seq(V), s # << >>, NEW a \in Seq(V)
    PROVE  /\ Append(a, Head(s)) \o Tail(s) = a \o s
           /\ Len(s) > 1 => /\ a \o Front(s) = Append(a, Head(s)) \o Front(Tail(s))
                            /\ Tail(s) # << >>
<1>1. /\ Len(s) \in Nat /\ Len(s) > 0 /\ Head(s) \in V /\ Head(s) = s[1]
      /\ Tail(s) \in Seq(V) /\ Len(Tail(s)) = Len(s) - 1
      /\ \A i \in 1 .. Len(s) - 1 : Tail(s)[i] = s[i + 1]
  OBVIOUS
<1> DEFINE h == Head(s)
           t == Tail(s)
           e == <<h>>
<1>2. e \in Seq(V) /\ Len(e) = 1 /\ e[1] = h /\ Append(a, h) = a \o e
  BY <1>1
<1>3. ASSUME NEW u \in Seq(V), NEW x \in Seq(V), Len(x) = Len(u) + 1, x[1] = h,
             \A i \in 1 .. Len(u) : u[i] = x[i + 1]
      PROVE  e \o u = x
  <2> HIDE DEF h, e
  <2> DEFINE y == e \o u
  <2>1. y \in Seq(V) /\ Len(y) = Len(u) + 1 /\ y[1] = h /\ Len(u) \in Nat
        /\ \A i \in 1 .. Len(u) : y[i + 1] = u[i]
    BY <1>2
  <2> HIDE DEF y
  <2>2. \A j \in 1 .. Len(u) + 1 : j = 1 \/ (j - 1 \in 1 .. Len(u) /\ (j - 1) + 1 = j)
    BY <2>1
  <2>3. ASSUME NEW j \in 1 .. Len(u) + 1 PROVE y[j] = x[j]
    <3>1. CASE j = 1
      BY <1>3, <2>1, <3>1
    <3>2. CASE j - 1 \in 1 .. Len(u) /\ (j - 1) + 1 = j
      <4>1. y[(j - 1) + 1] = u[j - 1] /\ u[j - 1] = x[(j - 1) + 1]
        BY <1>3, <2>1, <3>2
      <4> QED BY <3>2, <4>1
    <3> QED BY <2>2, <3>1, <3>2
  <2>4. y = x
    BY <1>3, <2>1, <2>3, SeqEqual
  <2> QED BY <2>4 DEF y
<1>4. e \o t = s
  BY <1>1, <1>3
<1>5. Append(a, h) \o t = a \o s
  <2> HIDE DEF h, t, e
  <2>1. (a \o e) \o t = a \o (e \o t)
    BY <1>1, <1>2 DEF t
  <2> QED BY <1>2, <1>4, <2>1
<1>6. ASSUME Len(s) > 1
      PROVE  a \o Front(s) = Append(a, h) \o Front(t) /\ t # << >>
  <2>1. t # << >> /\ t \in Seq(V) /\ Len(t) = Len(s) - 1
    <3>1. t \in Seq(V) /\ Len(t) = Len(s) - 1 /\ Len(s) - 1 # 0
      BY <1>1, <1>6
    <3> HIDE DEF t
    <3> QED BY <3>1
  <2> DEFINE u == Front(t)
             x == Front(s)
  <2>2. /\ u = SubSeq(t, 1, Len(t) - 1) /\ x = SubSeq(s, 1, Len(s) - 1)
    BY DEF Front
  <2>3. /\ u \in Seq(V) /\ Len(u) = Len(s) - 2 /\ \A i \in 1 .. Len(s) - 2 : u[i] = t[i]
    <3> HIDE DEF t
    <3>1. Len(t) - 1 \in Nat /\ Len(t) - 1 = Len(s) - 2 /\ Len(t) \in Nat
      BY <1>1, <1>6, <2>1
    <3> QED BY <2>1, <2>2, <3>1
  <2>4. /\ x \in Seq(V) /\ Len(x) = Len(s) - 1 /\ \A i \in 1 .. Len(s) - 1 : x[i] = s[i]
    BY <1>1, <1>6, <2>2
  <2> HIDE DEF u, x, e
  <2>5. Len(x) = Len(u) + 1 /\ x[1] = h /\ \A i \in 1 .. Len(u) : u[i] = x[i + 1]
    <3>1. \A n \in Nat : n > 1 => 1 \in 1 .. n - 1 /\ n - 1 = (n - 2) + 1
                         /\ \A i \in 1 .. n - 2 : i \in 1 .. n - 1 /\ i + 1 \in 1 .. n - 1
      OBVIOUS
    <3> QED BY <1>1, <1>6, <2>3, <2>4, <3>1
  <2>6. e \o u = x
    BY <1>3, <2>3, <2>4, <2>5
  <2>7. (a \o e) \o u = a \o (e \o u)
    BY <1>2, <2>3
  <2> QED BY <1>2, <2>1, <2>6, <2>7 DEF u, x
<1> QED BY <1>5, <1>6

\* A line more, of those that are to be stored.
LEMMA WriteLineKeeps ==
    ASSUME TurnTypes, Transcript, WriteLine, UNCHANGED <<pc, turn, history, spent>>
    PROVE  Transcript'
<1> DEFINE h == Head(todo)
           rest == Tail(todo)
           c == Current
           f == WithLine(c, h)
<1>1. /\ todo # << >> /\ ~ AtCap /\ Put(f)
      /\ log' = [log EXCEPT !.made = TRUE, !.turns = @ + 1] /\ todo' = rest
      /\ copy' = IF copy = "cut" THEN "cut"
                 ELSE IF Len(todo) > 1 THEN "going on" ELSE "whole"
      /\ saved' = IF Len(todo) > 1 \/ c.open THEN saved ELSE Append(saved, h)
  BY DEF WriteLine
<1>2. /\ Storing /\ log.on /\ log.earlier = << >> /\ todo \in Seq(Message)
         /\ Len(todo) \in Nat
      /\ Len(todo) > 0 /\ h \in Message /\ rest \in Seq(Message)
      /\ Len(rest) = Len(todo) - 1 /\ (Len(todo) > 1 => ~ Missed)
  BY <1>1, StoringIs
<1>3. c \in File /\ Solid(c) \in Seq(Message) /\ IsFile(c) /\ saved \in Seq(Message)
  BY CurrentIs DEF Transcript, LogTypes
<1>4. /\ IsFile(f) /\ f \in File /\ ~ f.open /\ f.cut = c.cut
      /\ ~ c.open => f.lines = Append(c.lines, h)
  BY <1>2, <1>3, WithLineIs DEF IsFile
<1>5. c.open => Len(todo) = 1
  <2>1. c.open => Missed
    BY <1>2 DEF Transcript, Flow, Intact
  <2> QED BY <1>2, <2>1
<1>6. \A s \in Seq(Message) : Held(s, c) =>
          /\ ~ c.open => Held(Append(s, h), f)
          /\ c.open => Held(s, f)
  BY <1>2, <1>3, HeldGrows
<1> HIDE DEF f
<1>7. /\ files' \in Seq(File) /\ files' # << >> /\ Last(files') = f
      /\ (\A i \in DOMAIN files' : ~ files'[i].cut) => ~ f.cut
  BY <1>1, <1>4, PutIs DEF Transcript, LogTypes, Shape
<1>8. /\ log' \in Handle /\ log'.on = log.on /\ log'.made = TRUE /\ log'.earlier = << >>
  <2> DEFINE n == log.turns + 1
  <2>0. log \in Handle
    BY DEF Transcript, LogTypes
  <2>1. n \in 0 .. LineCap
    <3>1. log.turns \in 0 .. LineCap
      BY <2>0 DEF Handle
    <3>2. ~ (log.turns >= LineCap)
      BY <1>1 DEF AtCap
    <3> QED BY <3>1, <3>2, SessionLogAssumption
  <2>2. log' = [log EXCEPT !.made = TRUE, !.turns = n]
    BY <1>1, <2>0 DEF Handle
  <2> HIDE DEF n
  <2>3. log' = [on |-> log.on, made |-> TRUE, turns |-> n, earlier |-> log.earlier]
    BY <2>0, <2>2 DEF Handle
  <2>4. log' \in Handle
    BY <2>0, <2>1, <2>3 DEF Handle
  <2> QED BY <1>2, <2>3, <2>4
<1>9. Current' = f /\ Storing' /\ Pending' = Pending /\ (Missed' <=> Missed)
  BY <1>1, <1>2, <1>7, <1>8 DEF Current, Storing, Pending, Said, Missed
<1> HIDE DEF h, rest, c
<1>10. LogTypes'
  <2>1. saved' \in Seq(Message)
    <3>1. saved' = saved \/ saved' = Append(saved, h)
      BY <1>1
    <3>2. Append(saved, h) \in Seq(Message)
      BY <1>2, <1>3
    <3> QED BY <1>3, <3>1, <3>2
  <2>2. copy' \in {"whole", "going on", "cut"}
    BY <1>1
  <2> QED BY <1>1, <1>2, <1>7, <1>8, <2>1, <2>2 DEF Transcript, LogTypes
<1>11. Shape'
  BY <1>2, <1>4, <1>7, <1>8, <1>9 DEF Shape
<1>12. Flow'
  <2> SUFFICES ASSUME ~ Missed
               PROVE  /\ Intact(f) /\ f.lines \in Seq(Message)
                      /\ EndsIn((f.lines \o rest) \o Pending, history)
    BY <1>1, <1>8, <1>9 DEF Flow
  <2>1. /\ Intact(c) /\ c.lines \in Seq(Message)
        /\ EndsIn((c.lines \o todo) \o Pending, history)
    BY <1>2 DEF Transcript, Flow, c
  <2>2. f.lines = Append(c.lines, h) /\ Intact(f)
    BY <1>4, <2>1 DEF Intact
  <2>3. Append(c.lines, h) \o rest = c.lines \o todo
    BY <1>1, <1>2, <2>1, HeadIs DEF h, rest
  <2>4. Append(c.lines, h) \in Seq(Message)
    BY <1>2, <2>1
  <2> QED BY <2>1, <2>2, <2>3, <2>4
<1>13. Closing'
  <2>1. Missed => pc = "assistant" /\ Len(todo) <= 1
    BY DEF Transcript, Closing
  <2>2. Missed => rest = << >>
    <3>1. Missed => Len(rest) = 0
      BY <1>2, <2>1
    <3>2. Len(rest) = 0 => rest = << >>
      BY <1>2
    <3> QED BY <3>1, <3>2, Zenon
  <2>3. todo' = rest
    BY <1>1
  <2>4. pc' = pc
    OBVIOUS
  <2>5. Missed' => pc' = "assistant" /\ todo' = << >>
    BY <1>9, <2>1, <2>2, <2>3, <2>4
  <2>6. Len(<< >>) <= 1
    OBVIOUS
  <2> QED BY <2>5, <2>6 DEF Closing
<1>14. copy' = "whole" => copy # "cut" /\ ~ (Len(todo) > 1)
  BY <1>1
<1>15. Going'
  <2>1. ~ (Len(todo) > 1) => ~ (Len(rest) > 1)
    BY <1>2
  <2> QED BY <1>1, <1>14, <2>1 DEF Going
\* The last of the lines.
<1>16. ASSUME copy # "cut", ~ (Len(todo) > 1)
       PROVE  Held(saved', f) /\ saved' \in Seq(Message) /\ todo' = << >>
  <2>1. Len(todo) = 1 /\ rest = << >>
    BY <1>2, <1>16
  <2>2. Held(saved, c)
    BY <1>2, <1>16, <2>1, OneLineLeft DEF c
  <2> QED BY <1>1, <1>2, <1>3, <1>6, <1>16, <2>1, <2>2
<1>17. Continued'
  <2> SUFFICES ASSUME copy' = "whole", ~ f.cut
               PROVE  ToSet(Newest(saved', Keep)) \subseteq ToSet(LatestOf(files'))
    BY <1>7 DEF Continued
  <2>1. Held(saved', f) /\ saved' \in Seq(Message)
    BY <1>14, <1>16
  <2> DEFINE s == saved'
             fs == files'
  <2>2. /\ s \in Seq(Message) /\ fs \in Seq(File) /\ fs # << >> /\ IsFile(Last(fs))
        /\ ~ Last(fs).cut /\ Held(s, Last(fs))
    BY <1>4, <1>7, <2>1
  <2> HIDE DEF s, fs
  <2>3. ToSet(Newest(s, Keep)) \subseteq ToSet(LatestOf(fs))
    BY <2>2, HeldIsContinued
  <2> QED BY <2>3 DEF s, fs
<1>18. Covered'
  <2> SUFFICES ASSUME copy # "cut", saved' # << >>
               PROVE  \E w \in Seq(Message) : saved' = w \o (<< >> \o Unsaid') /\ Held(w, f)
    <3>1. copy' # "cut" => copy # "cut"
      BY <1>1
    <3> QED BY <1>8, <1>9, <3>1 DEF Covered
  <2>1. CASE ~ (Len(todo) > 1)
    <3>1. Held(saved', f) /\ saved' \in Seq(Message) /\ Unsaid' = << >>
      BY <1>16, <2>1 DEF Unsaid
    <3>2. saved' = saved' \o (<< >> \o << >>)
      BY <3>1
    <3> QED BY <3>1, <3>2
  <2>2. CASE Len(todo) > 1
    <3>1. saved' = saved /\ ~ c.open
      <4>1. ~ c.open
        <5>1. Len(todo) # 1
          BY <1>2, <2>2
        <5> QED BY <1>5, <5>1, Zenon
      <4>2. saved' = saved
        BY <1>1, <2>2
      <4> QED BY <4>1, <4>2
    <3>2. PICK w \in Seq(Message) : saved = w \o (log.earlier \o Unsaid) /\ Held(w, c)
      BY <1>2, <3>1 DEF Transcript, Covered, c
    <3>3. Unsaid = Front(todo) /\ Front(todo) \in Seq(Message)
      BY <1>1, <1>2, FrontIs DEF Unsaid
    <3>4. saved = w \o Front(todo)
      BY <1>2, <3>2, <3>3
    <3>5. w \o Front(todo) = Append(w, h) \o Front(rest) /\ rest # << >>
      BY <1>1, <1>2, <2>2, HeadIs DEF h, rest
    <3>6. Front(rest) \in Seq(Message) /\ Unsaid' = Front(rest)
      BY <1>1, <1>2, <3>5, FrontIs DEF Unsaid
    <3> DEFINE x == Append(w, h)
    <3>7. x \in Seq(Message) /\ Held(x, f)
      BY <1>2, <1>6, <3>1, <3>2
    <3>8. saved' = x \o (<< >> \o Unsaid')
      <4>1. << >> \o Front(rest) = Front(rest)
        BY <3>6
      <4> QED BY <3>1, <3>4, <3>5, <3>6, <4>1
    <3> QED BY <3>7, <3>8
  <2> QED BY <2>1, <2>2
<1> QED BY <1>10, <1>11, <1>12, <1>13, <1>15, <1>17, <1>18 DEF Transcript

-----------------------------------------------------------------------------
(* Writes that stop half way *)

\* A write of a line that stops half way leaves what was solid before.
LEMMA CutLineIs ==
    ASSUME IsFile(Current), Head(todo) \in Message, NEW f \in CutLine
    PROVE  IsFile(f) /\ Solid(f) = Solid(Current) /\ (Current.cut => f.cut)
<1> DEFINE c == Current
           h == Head(todo)
<1>1. ASSUME NEW m \in Message \union {Torn}, NEW b \in BOOLEAN,
             f = [WithLine(c, m) EXCEPT !.open = TRUE, !.cut = @ \/ b]
      PROVE  IsFile(f) /\ Solid(f) = Solid(c) /\ (c.cut => f.cut)
  <2> DEFINE g == WithLine(c, m)
  <2>1. /\ g \in File /\ g.cut = c.cut /\ g.lines # << >>
        /\ Parsed(Front(g.lines)) = Solid(c)
    BY WithLineIs DEF IsFile
  <2>2. f = [g EXCEPT !.open = TRUE, !.cut = @ \/ b]
    BY <1>1
  <2> HIDE DEF g
  <2> DEFINE k == g.cut \/ b
  <2>3. k \in BOOLEAN /\ (g.cut => k)
    BY <2>1, FileIs
  <2>4. f = [g EXCEPT !.open = TRUE, !.cut = k]
    BY <2>1, <2>2 DEF File
  <2> HIDE DEF k
  <2>5. f \in File /\ f.lines = g.lines /\ f.open = TRUE /\ f.cut = k
    BY <2>1, <2>3, <2>4 DEF File
  <2>6. IsFile(f) /\ Solid(f) = Solid(c)
    BY <2>1, <2>5 DEF IsFile, Solid
  <2> QED BY <2>1, <2>3, <2>5, <2>6
<1>2. CASE f = c
  BY <1>2
<1>3. ASSUME NEW b \in BOOLEAN, f = [WithLine(c, Torn) EXCEPT !.open = TRUE, !.cut = @ \/ b]
      PROVE  IsFile(f) /\ Solid(f) = Solid(c) /\ (c.cut => f.cut)
  BY <1>1, <1>3
<1>4. CASE f = [WithLine(c, h) EXCEPT !.open = TRUE]
  <2> DEFINE g == WithLine(c, h)
  <2>1. g \in File
    BY WithLineIs DEF IsFile
  <2>2. g.cut \in BOOLEAN
    BY <2>1, FileIs
  <2>3. f = [g EXCEPT !.open = TRUE]
    BY <1>4
  <2> HIDE DEF g
  <2>4. [g EXCEPT !.open = TRUE] = [g EXCEPT !.open = TRUE, !.cut = g.cut]
    BY <2>1 DEF File
  <2>5. [g EXCEPT !.open = TRUE, !.cut = g.cut \/ FALSE]
           = [g EXCEPT !.open = TRUE, !.cut = g.cut]
    BY <2>1, <2>2 DEF File
  <2>6. [g EXCEPT !.open = TRUE, !.cut = @ \/ FALSE]
           = [g EXCEPT !.open = TRUE, !.cut = g.cut \/ FALSE]
    BY <2>1 DEF File
  <2>7. f = [WithLine(c, h) EXCEPT !.open = TRUE, !.cut = @ \/ FALSE]
    BY <2>3, <2>4, <2>5, <2>6 DEF g
  <2> QED BY <1>1, <2>7
<1> QED BY <1>2, <1>3, <1>4 DEF CutLine

\* The rewriting that stops half way leaves whole lines.
LEMMA CutRewriteIs ==
    ASSUME IsFile(Current), NEW f \in CutRewrite
    PROVE  f \in File /\ IsFile(f) /\ Intact(f)
<1> DEFINE kept == Newest(ReadTurns(Current), LineCap - 1)
<1>1. PICK n \in 0 .. Len(kept) : f = [EmptyFile EXCEPT !.lines = SubSeq(kept, 1, n)]
  BY DEF CutRewrite
<1>2. kept \in Seq(Message)
  <2>1. ReadTurns(Current) \in Seq(Message)
    <3>1. Parsed(Current.lines) \in Seq(Message) /\ << >> \in Seq(Message)
      BY SolidIsRead
    <3> QED BY <3>1 DEF ReadTurns
  <2> QED BY <2>1, KeepIs, NewestIs DEF Keep
<1> HIDE DEF kept
<1> DEFINE l == SubSeq(kept, 1, n)
<1>3. l \in Seq(Message \union {Torn})
  <2>1. l \in Seq(Message)
    BY <1>2
  <2> QED BY <2>1, SeqMonotonic
<1>4. f = [EmptyFile EXCEPT !.lines = l]
  BY <1>1
<1> HIDE DEF l
<1>5. f \in File /\ ~ f.open /\ ~ f.cut
  BY <1>3, <1>4 DEF EmptyFile, File
<1> QED BY <1>5 DEF IsFile, Intact

\* What a write that fails leaves on disk, and of what `--continue` gets.
LEMMA WriteCutIs ==
    ASSUME Transcript, WriteCut
    PROVE  /\ files' \in Seq(File) /\ copy' \in {"whole", "going on", "cut"}
           /\ copy' # "cut" => ~ AtCap /\ Len(todo) <= 1 /\ copy' = copy
           /\ \/ files' = files
              \/ \E f \in File : /\ IsFile(f) /\ files' # << >> /\ Last(files') = f
                                 /\ (\A i \in DOMAIN files' : ~ files'[i].cut) => ~ f.cut
                                 /\ AtCap => Intact(f)
                                 /\ ~ AtCap => Solid(f) = Solid(Current)
<1>1. /\ todo # << >>
      /\ \/ files' = files
         \/ \E f \in IF AtCap THEN CutRewrite ELSE CutLine : Put(f)
      /\ copy' = IF AtCap \/ Len(todo) > 1 THEN "cut" ELSE copy
  BY DEF WriteCut
<1>2. files \in Seq(File) /\ (log.made => files # << >>) /\ IsFile(Current)
      /\ copy \in {"whole", "going on", "cut"}
  BY DEF Transcript, LogTypes, Shape
<1>3. Head(todo) \in Message /\ Len(todo) \in Nat
  BY <1>1, StoringIs
<1>4. copy' \in {"whole", "going on", "cut"}
  BY <1>1, <1>2
<1>5. copy' # "cut" => ~ AtCap /\ Len(todo) <= 1 /\ copy' = copy
  <2>1. CASE AtCap
    BY <1>1, <2>1
  <2>2. CASE Len(todo) > 1
    BY <1>1, <2>2
  <2>3. CASE ~ AtCap /\ ~ (Len(todo) > 1)
    <3>1. copy' = copy
      BY <1>1, <2>3
    <3>2. Len(todo) <= 1
      BY <1>3, <2>3
    <3> QED BY <2>3, <3>1, <3>2
  <2> QED BY <2>1, <2>2, <2>3
<1>6. CASE files' = files
  BY <1>2, <1>4, <1>5, <1>6
<1>7. ASSUME NEW f, f \in IF AtCap THEN CutRewrite ELSE CutLine, Put(f)
      PROVE  /\ files' \in Seq(File) /\ f \in File
             /\ IsFile(f) /\ files' # << >> /\ Last(files') = f
             /\ (\A i \in DOMAIN files' : ~ files'[i].cut) => ~ f.cut
             /\ AtCap => Intact(f)
             /\ ~ AtCap => Solid(f) = Solid(Current)
  <2>1. /\ f \in File /\ IsFile(f) /\ (AtCap => Intact(f))
        /\ ~ AtCap => Solid(f) = Solid(Current)
    <3>1. CASE AtCap
      BY <1>2, <1>7, <3>1, CutRewriteIs
    <3>2. CASE ~ AtCap
      BY <1>2, <1>3, <1>7, <3>2, CutLineIs DEF IsFile
    <3> QED BY <3>1, <3>2
  <2> QED BY <1>2, <1>7, <2>1, PutIs
<1>8. CASE \E f \in IF AtCap THEN CutRewrite ELSE CutLine : Put(f)
  <2>1. PICK f \in IF AtCap THEN CutRewrite ELSE CutLine : Put(f)
    BY <1>8
  <2>2. /\ files' \in Seq(File) /\ f \in File
        /\ IsFile(f) /\ files' # << >> /\ Last(files') = f
        /\ (\A i \in DOMAIN files' : ~ files'[i].cut) => ~ f.cut
        /\ AtCap => Intact(f)
        /\ ~ AtCap => Solid(f) = Solid(Current)
    BY <1>7, <2>1
  <2> QED BY <1>4, <1>5, <2>2, Zenon
<1> QED BY <1>1, <1>6, <1>8

\* After a write that fails, what is continued is still what was said to be written.
LEMMA CutContinues ==
    ASSUME Transcript, WriteCut, saved' = saved
    PROVE  Continued'
<1> SUFFICES ASSUME copy' = "whole", \A i \in DOMAIN files' : ~ files'[i].cut
             PROVE  ToSet(Newest(saved, Keep)) \subseteq ToSet(LatestOf(files'))
  BY DEF Continued
<1>1. copy = "whole" /\ ~ AtCap /\ Len(todo) <= 1 /\ todo # << >>
  BY WriteCutIs DEF WriteCut
<1>2. CASE files' = files
  BY <1>1, <1>2 DEF Transcript, Continued
<1>3. CASE \E f \in File : /\ IsFile(f) /\ files' # << >> /\ Last(files') = f
                           /\ (\A i \in DOMAIN files' : ~ files'[i].cut) => ~ f.cut
                           /\ AtCap => Intact(f)
                           /\ ~ AtCap => Solid(f) = Solid(Current)
  <2>1. PICK f \in File : /\ IsFile(f) /\ files' # << >> /\ Last(files') = f
                          /\ (\A i \in DOMAIN files' : ~ files'[i].cut) => ~ f.cut
                          /\ AtCap => Intact(f)
                          /\ ~ AtCap => Solid(f) = Solid(Current)
    BY <1>3
  <2>2. Held(saved, Current) /\ saved \in Seq(Message)
    BY <1>1, StoringIs, OneLineLeft DEF Transcript, LogTypes
  <2>3. Held(saved, f) /\ ~ f.cut
    BY <1>1, <2>1, <2>2 DEF Held
  <2> DEFINE fs == files'
  <2>4. /\ fs \in Seq(File) /\ fs # << >> /\ IsFile(Last(fs)) /\ ~ Last(fs).cut
        /\ Held(saved, Last(fs))
    BY <2>1, <2>3, WriteCutIs
  <2> HIDE DEF fs
  <2>5. ToSet(Newest(saved, Keep)) \subseteq ToSet(LatestOf(fs))
    BY <2>2, <2>4, HeldIsContinued
  <2> QED BY <2>5 DEF fs
<1> QED BY <1>2, <1>3, WriteCutIs

\* One line left, or none, of which nothing was said.
LEMMA LastOfOne ==
    ASSUME NEW s, s = << >> \/ (\E m \in Message : s = <<m>>)
    PROVE  Len(s) <= 1 /\ s \in Seq(Message) /\ (s # << >> => Front(s) = << >>)
<1>1. ASSUME NEW m \in Message
      PROVE  Front(<<m>>) = << >> /\ Len(<<m>>) = 1 /\ <<m>> \in Seq(Message)
  <2> DEFINE t == <<m>>
  <2>1. t \in Seq(Message) /\ Len(t) = 1 /\ t # << >>
    OBVIOUS
  <2> HIDE DEF t
  <2>2. Front(t) \in Seq(Message) /\ Len(Front(t)) = 0
    BY <2>1, FrontIs
  <2>3. Front(t) = << >>
    BY <2>2
  <2> QED BY <2>1, <2>3 DEF t
<1>2. Len(<< >>) = 0 /\ << >> \in Seq(Message)
  OBVIOUS
<1>3. CASE s = << >>
  BY <1>2, <1>3
<1>4. CASE \E m \in Message : s = <<m>>
  <2>1. PICK m \in Message : s = <<m>>
    BY <1>4
  <2>2. Front(<<m>>) = << >> /\ Len(<<m>>) = 1 /\ <<m>> \in Seq(Message)
    BY <1>1
  <2>3. Front(s) = << >> /\ Len(s) = 1 /\ s \in Seq(Message)
    BY <2>1, <2>2, Zenon
  <2> QED BY <2>3
<1> QED BY <1>3, <1>4

\* The answer to store, after the question.
LEMMA AnswerIs ==
    ASSUME TurnTypes, StoreAnswer
    PROVE  /\ pc' = "assistant" /\ Len(todo') <= 1 /\ todo' \in Seq(Message)
           /\ todo' = IF turn.answer = "none" THEN << >> ELSE <<Said("assistant")>>
           /\ Unsaid' = << >>
<1>1. /\ pc' = "assistant"
      /\ todo' = IF turn.answer = "none" THEN << >> ELSE <<Said("assistant")>>
  BY DEF StoreAnswer, Goto
<1>2. Said("assistant") \in Message
  BY PendingIs
<1> DEFINE t == todo'
<1>3. t = << >> \/ (\E m \in Message : t = <<m>>)
  BY <1>1, <1>2
<1> HIDE DEF t
<1>4. Len(t) <= 1 /\ t \in Seq(Message) /\ (t # << >> => Front(t) = << >>)
  BY <1>3, LastOfOne
<1> QED BY <1>1, <1>4 DEF t, Unsaid

\* A line that could not be stored.
LEMMA FailureKeeps ==
    ASSUME TurnTypes, Transcript, StoreFails, spent' \in [Bounded -> Nat]
    PROVE  Transcript'
<1>1. /\ Storing /\ WriteCut /\ turn' = [turn EXCEPT !.missed = TRUE]
      /\ IF pc = "user" THEN StoreAnswer ELSE todo' = << >> /\ UNCHANGED pc
      /\ UNCHANGED <<log, saved, history>>
  BY DEF StoreFails
<1>2. /\ pc' = "assistant" /\ Len(todo') <= 1 /\ todo' \in Seq(Message) /\ Unsaid' = << >>
      /\ todo' # << >> => pc = "user"
  <2>1. CASE pc = "user"
    BY <1>1, <2>1, AnswerIs
  <2>2. CASE pc # "user"
    <3>1. pc = "assistant" /\ todo' = << >> /\ pc' = pc
      BY <1>1, <2>2 DEF Storing
    <3>2. Len(<< >>) <= 1 /\ << >> \in Seq(Message)
      OBVIOUS
    <3> QED BY <3>1, <3>2 DEF Unsaid
  <2> QED BY <2>1, <2>2
<1>3. Storing' /\ Missed' /\ log.on /\ log.earlier = << >> /\ todo # << >>
      /\ (AtCap' <=> AtCap)
  <2>1. turn'.missed = TRUE
    BY <1>1 DEF TurnTypes, Turn
  <2>2. todo # << >>
    BY <1>1 DEF WriteCut
  <2>3. Storing'
    BY <1>2 DEF Storing
  <2>4. AtCap' <=> AtCap
    BY <1>1 DEF AtCap
  <2> QED BY <2>1, <2>2, <2>3, <2>4, StoringIs DEF Missed
<1>4. /\ files' \in Seq(File) /\ copy' \in {"whole", "going on", "cut"}
      /\ copy' # "cut" => ~ AtCap /\ Len(todo) <= 1 /\ copy' = copy
  BY <1>1, WriteCutIs
\* The file of this run, if it has one.
<1>5. /\ IsFile(Current') /\ (AtCap => Intact(Current'))
      /\ ~ AtCap => Solid(Current') = Solid(Current)
      /\ log.made => files' # << >>
  <2>1. IsFile(Current) /\ (AtCap => Intact(Current)) /\ (log.made => files # << >>)
    BY <1>3, StoringIs DEF Transcript, Shape
  <2>2. CASE files' = files
    <3>1. Current' = Current
      BY <1>1, <2>2 DEF Current
    <3> QED BY <2>1, <2>2, <3>1
  <2>3. CASE ~ log.made
    <3>1. Current' = Current
      BY <1>1, <2>3 DEF Current
    <3> QED BY <2>1, <2>3, <3>1
  <2>4. CASE log.made /\ files' # files
    <3>1. PICK f \in File : /\ IsFile(f) /\ files' # << >> /\ Last(files') = f
                            /\ (\A i \in DOMAIN files' : ~ files'[i].cut) => ~ f.cut
                            /\ AtCap => Intact(f)
                            /\ ~ AtCap => Solid(f) = Solid(Current)
      BY <1>1, <2>4, WriteCutIs
    <3>2. Current' = f
      BY <1>1, <2>4, <3>1 DEF Current
    <3> QED BY <3>1, <3>2
  <2> QED BY <2>2, <2>3, <2>4
<1>6. LogTypes'
  BY <1>1, <1>2, <1>4 DEF Transcript, LogTypes
<1>7. Shape'
  BY <1>1, <1>3, <1>5 DEF Transcript, Shape
<1>8. Flow'
  BY <1>3 DEF Flow
<1>9. Closing'
  BY <1>2, <1>3, <1>5 DEF Closing
<1>10. Covered'
  <2> SUFFICES ASSUME copy' # "cut"
               PROVE  \E w \in Seq(Message) :
                         saved = w \o (log.earlier \o << >>) /\ Held(w, Current')
    BY <1>1, <1>2 DEF Covered
  <2>1. Held(saved, Current) /\ saved \in Seq(Message)
    BY <1>3, <1>4, OneLineLeft DEF Transcript, LogTypes
  <2>2. Held(saved, Current')
    BY <1>4, <1>5, <2>1 DEF Held
  <2>3. saved = saved \o (log.earlier \o << >>)
    BY <1>3, <2>1
  <2> QED BY <2>1, <2>2, <2>3
<1>11. Going'
  <2>1. ~ (Len(todo') > 1)
    BY <1>2
  <2> QED BY <2>1 DEF Going
<1>12. Continued'
  BY <1>1, CutContinues
<1> QED BY <1>6, <1>7, <1>8, <1>9, <1>10, <1>11, <1>12 DEF Transcript

-----------------------------------------------------------------------------
(* The other steps *)

\* The question is done with, or the answer.
LEMMA StoredKeeps ==
    ASSUME TurnTypes, Transcript, Stored
    PROVE  Transcript'
<1>1. /\ Storing /\ todo = << >>
      /\ UNCHANGED <<files, saved, copy, turn, history, spent>>
  BY DEF Stored, Free
<1>2. log.on /\ log.earlier = << >> /\ log \in Handle
  BY <1>1 DEF Transcript, Shape, LogTypes
<1>3. Unsaid = << >>
  BY <1>1 DEF Unsaid
<1>4. CASE pc = "user" /\ StoreAnswer /\ UNCHANGED log
  <2>1. /\ pc' = "assistant" /\ Len(todo') <= 1 /\ todo' \in Seq(Message) /\ Unsaid' = << >>
        /\ todo' = Pending
    BY <1>4, AnswerIs DEF Pending
  <2>2. ~ Missed /\ ~ Missed' /\ Storing' /\ Current' = Current /\ Pending' = << >>
    <3>1. ~ Missed
      BY <1>4 DEF Transcript, Closing
    <3> QED BY <1>1, <1>4, <2>1, <3>1 DEF Missed, Storing, Current, Pending
  <2>3. LogTypes'
    BY <1>1, <1>4, <2>1 DEF Transcript, LogTypes
  <2>4. Shape'
    BY <1>1, <1>2, <1>4, <2>2 DEF Transcript, Shape
  <2>5. Flow'
    <3>1. /\ Intact(Current) /\ Current.lines \in Seq(Message)
          /\ EndsIn((Current.lines \o << >>) \o Pending, history)
      BY <1>1, <1>2, <2>2 DEF Transcript, Flow
    <3> DEFINE l == Current.lines
               p == Pending
    <3>2. l \in Seq(Message) /\ p \in Seq(Message)
      BY <3>1, PendingIs
    <3> HIDE DEF l, p
    <3>3. (l \o << >>) \o p = (l \o p) \o << >>
      BY <3>2
    <3>4. EndsIn((Current.lines \o Pending) \o << >>, history)
      BY <3>1, <3>3 DEF l, p
    <3> QED BY <1>1, <2>1, <2>2, <3>1, <3>4 DEF Flow
  <2>6. Closing' /\ Continued'
    BY <1>1, <2>2 DEF Transcript, Closing, Continued
  <2>7. Covered'
    BY <1>1, <1>3, <1>4, <2>1, <2>2, Zenon DEF Transcript, Covered
  <2>8. Going'
    <3>1. ~ (Len(todo') > 1)
      BY <2>1
    <3> QED BY <3>1 DEF Going
  <2> QED BY <2>3, <2>4, <2>5, <2>6, <2>7, <2>8 DEF Transcript
<1>5. CASE /\ pc = "assistant" /\ Goto("prompt") /\ UNCHANGED todo
           /\ log' = IF turn.missed THEN Closed ELSE log
  <2>1. pc' = "prompt" /\ todo' = << >> /\ ~ Storing'
    BY <1>1, <1>5 DEF Goto, Storing
  <2>2. log' \in Handle
    BY <1>2, <1>5, ClosedIs
  <2>3. LogTypes' /\ Continued'
    BY <1>1, <2>1, <2>2 DEF Transcript, LogTypes, Continued
  <2>4. CASE turn.missed
    BY <1>5, <2>1, <2>3, <2>4, OffKeeps
  <2>5. CASE ~ turn.missed
    <3>1. /\ log' = log /\ Current' = Current /\ ~ Missed /\ ~ Missed' /\ Unsaid' = << >>
          /\ Pending = << >> /\ Pending' = << >>
      BY <1>1, <1>5, <2>1, <2>5 DEF Current, Missed, Storing, Unsaid, Pending
    <3>2. Shape'
      BY <1>1, <1>2, <2>1, <3>1 DEF Transcript, Shape
    <3>3. Flow'
      <4>1. /\ Intact(Current) /\ Current.lines \in Seq(Message)
            /\ EndsIn((Current.lines \o << >>) \o << >>, history)
        BY <1>1, <1>2, <3>1 DEF Transcript, Flow
      <4> QED BY <1>1, <2>1, <3>1, <4>1 DEF Flow
    <3>4. Closing'
      BY <3>1 DEF Closing
    <3>5. Covered'
      BY <1>1, <1>3, <3>1, Zenon DEF Transcript, Covered
    <3>6. Going'
      <4>1. ~ (Len(todo') > 1)
        BY <2>1
      <4> QED BY <4>1 DEF Going
    <3> QED BY <2>3, <3>2, <3>3, <3>4, <3>5, <3>6 DEF Transcript
  <2> QED BY <2>4, <2>5
<1> QED BY <1>4, <1>5 DEF Stored

LEMMA SpendIs ==
    ASSUME spent \in [Bounded -> Nat], NEW what \in Bounded, Spend(what)
    PROVE  spent' \in [Bounded -> Nat]
<1>1. spent[what] + 1 \in Nat /\ spent' = [spent EXCEPT ![what] = @ + 1]
  BY DEF Spend
<1> QED BY <1>1

LEMMA NamesAreBounded ==
    /\ "run" \in Bounded /\ "turn" \in Bounded /\ "stop" \in Bounded /\ "crash" \in Bounded
    /\ "fail" \in Bounded /\ "purge" \in Bounded /\ "clear" \in Bounded
  BY DEF Bounded

\* A run starts, or what is shown is cleared.
LEMMA StartsKeep ==
    ASSUME TurnTypes, Transcript, StartRun \/ Clear \/ Purge
    PROVE  Transcript'
<1>1. spent' \in [Bounded -> Nat]
  BY SpendIs, NamesAreBounded DEF Transcript, LogTypes, StartRun, Clear, Purge
<1> DEFINE none == << >>
<1>2. none \in Seq(Message) /\ none = << >>
  OBVIOUS
<1> HIDE DEF none
<1>3. CASE StartRun
  <2>1. pc' = "prompt"
    BY <1>3 DEF StartRun, Goto
  <2>2. CASE StartLog(LatestOf(Pruned)) /\ history' = LatestOf(Pruned)
    <3> DEFINE e == LatestOf(Pruned)
    <3>1. e \in Seq(Message) /\ StartLog(e) /\ history' = e /\ e = LatestOf(Pruned)
      BY <2>2, PrunedIs, LatestTypes DEF Transcript
    <3> HIDE DEF e
    <3> QED BY <1>1, <2>1, <3>1, StartKeeps
  <2>3. CASE StartLog(<< >>) /\ history' = << >>
    <3>1. StartLog(none) /\ history' = none
      BY <1>2, <2>3
    <3> QED BY <1>1, <1>2, <2>1, <3>1, StartKeeps
  <2>4. CASE NoLog /\ history' = << >>
    <3>1. /\ log' = Closed /\ todo' = << >> /\ saved' = << >> /\ copy' = "whole"
          /\ files' = files /\ history' = << >>
      BY <2>4 DEF NoLog
    <3>2. LogTypes'
      BY <1>1, <3>1, ClosedIs DEF Transcript, LogTypes
    <3>3. Continued'
      BY <3>1, NoneIsContinued DEF Continued
    <3> QED BY <2>1, <3>1, <3>2, <3>3, OffKeeps
  <2> QED BY <1>3, <2>2, <2>3, <2>4 DEF StartRun
<1>4. CASE Clear
  <2>1. pc' = "prompt" /\ pc = "prompt" /\ history' = << >> /\ turn' = turn
    BY <1>4 DEF Clear
  <2>2. CASE log.on
    <3>1. StartLog(none) /\ history' = none
      BY <1>2, <1>4, <2>1, <2>2 DEF Clear
    <3> QED BY <1>1, <1>2, <2>1, <3>1, StartKeeps
  <2>3. CASE ~ log.on
    <3>1. UNCHANGED <<files, log, todo, saved, copy>>
      BY <1>4, <2>3 DEF Clear, logVars
    <3>2. Current' = Current /\ ~ Storing /\ ~ Storing'
      BY <2>1, <3>1 DEF Current, Storing
    <3>3. LogTypes'
      BY <1>1, <1>2, <2>1, <3>1 DEF Transcript, LogTypes
    <3>4. Shape'
      BY <2>3, <3>1, <3>2 DEF Transcript, Shape
    <3>5. Flow' /\ Closing' /\ Covered'
      BY <2>3, <3>1, <3>2 DEF Flow, Closing, Missed, Covered
    <3>6. Going' /\ Continued'
      BY <3>1 DEF Transcript, Going, Continued
    <3> QED BY <3>3, <3>4, <3>5, <3>6 DEF Transcript
  <2> QED BY <2>2, <2>3
<1>5. CASE Purge
  <2>1. PurgeLog /\ UNCHANGED <<pc, turn, history>>
    BY <1>5 DEF Purge, turnVars
  <2> QED BY <1>1, <2>1, PurgeKeeps
<1> QED BY <1>3, <1>4, <1>5

\* The end of the process, whatever it was at.
LEMMA EndKeeps ==
    ASSUME Transcript, Gone, WriteCut \/ UNCHANGED <<files, copy>>,
           spent' \in [Bounded -> Nat]
    PROVE  Transcript'
<1>1. /\ pc' = "off" /\ log' = Closed /\ todo' = << >> /\ history' = << >> /\ saved' = saved
  BY DEF Gone, Goto
<1>2. files' \in Seq(File) /\ copy' \in {"whole", "going on", "cut"} /\ Continued'
  <2>1. CASE WriteCut
    BY <1>1, <2>1, WriteCutIs, CutContinues
  <2>2. CASE UNCHANGED <<files, copy>>
    BY <1>1, <2>2 DEF Transcript, LogTypes, Continued
  <2> QED BY <2>1, <2>2
<1>3. LogTypes'
  BY <1>1, <1>2, ClosedIs DEF Transcript, LogTypes
<1> QED BY <1>1, <1>2, <1>3, OffKeeps

\* The steps of a turn before its end.
LEMMA TurnKeeps ==
    ASSUME TurnTypes, Transcript,
           \/ Begin \/ Build \/ Generate \/ Stopped \/ CutOff \/ Answers \/ HandsOver
           \/ Gate \/ UserAnswers \/ ToolEnds \/ Fails \/ Repeats \/ Ask
    PROVE  Transcript'
<1>1. UNCHANGED <<logVars, history>>
  BY DEF Begin, Build, Generate, Stopped, CutOff, Answers, HandsOver, Gate, UserAnswers,
         ToolEnds, Fails, Repeats, Ask, Within
<1>2. pc \notin {"user", "assistant"}
  BY DEF Begin, Build, Generate, Stopped, CutOff, Answers, HandsOver, Gate, UserAnswers,
         ToolEnds, Fails, Repeats, Ask
<1>3. spent' \in [Bounded -> Nat]
  <2>1. spent \in [Bounded -> Nat]
    BY DEF Transcript, LogTypes
  <2>2. CASE Fails \/ Ask
    BY <2>1, <2>2, SpendIs, NamesAreBounded DEF Fails, Ask
  <2>3. CASE ~ (Fails \/ Ask)
    <3>1. spent' = spent
      BY <2>3 DEF Begin, Build, Generate, Stopped, CutOff, Answers, HandsOver, Gate,
         UserAnswers, ToolEnds, Repeats, Free
    <3> QED BY <2>1, <3>1
  <2> QED BY <2>2, <2>3
<1>4. \A t : (NextPass(t) \/ AfterError(t)) => pc' \notin {"user", "assistant"}
  BY DEF NextPass, AfterError, Goto
<1>5. \A e, a : End(e, a) => pc' \notin {"user", "assistant"}
  BY DEF End, Goto
<1>6. pc' \notin {"user", "assistant"}
  <2>1. CASE Begin \/ Build \/ Generate \/ HandsOver \/ Ask
    BY <2>1 DEF Begin, Build, Generate, HandsOver, Ask, Goto
  <2>2. CASE Stopped
    BY <1>5, <2>2 DEF Stopped
  <2>3. CASE Answers
    BY <1>5, <2>3 DEF Answers
  <2>4. CASE Fails
    BY <1>5, <2>4 DEF Fails
  <2>5. CASE CutOff
    BY <1>4, <1>5, <2>5 DEF CutOff
  <2>6. CASE Gate
    <3>1. \/ NextPass(turn) \/ AfterError(turn) \/ pc' \in {"asked", "tool"}
      BY <2>6 DEF Gate, Refused, Malformed, Denied, Repeated, Asks, Starts, Goto
    <3> QED BY <1>4, <3>1
  <2>7. CASE UserAnswers
    <3>1. NextPass(turn) \/ pc' = "tool"
      BY <2>7 DEF UserAnswers, Goto
    <3> QED BY <1>4, <3>1
  <2>8. CASE ToolEnds
    BY <1>4, <2>8 DEF ToolEnds
  <2>9. CASE Repeats
    BY <1>2, <2>9 DEF Repeats
  <2> QED BY <2>1, <2>2, <2>3, <2>4, <2>5, <2>6, <2>7, <2>8, <2>9
<1> QED BY <1>1, <1>2, <1>3, <1>6, QuietKeeps DEF Storing

\* The user's stop, which changes nothing of the transcript.
LEMMA SayKeeps ==
    ASSUME TurnTypes, Transcript, SaysStop, spent' \in [Bounded -> Nat]
    PROVE  Transcript'
<1>1. /\ UNCHANGED <<logVars, history>> /\ pc' = pc
      /\ turn' = [turn EXCEPT !.stopped = TRUE] /\ turn \in Turn
  BY DEF SaysStop, TurnTypes
<1>2. turn'.missed = turn.missed /\ turn'.answer = turn.answer /\ turn'.number = turn.number
  BY <1>1 DEF Turn
<1> QED BY <1>1, <1>2, QuietKeeps

\* Every step keeps the transcript.
LEMMA StepKeeps ==
    ASSUME TurnTypes, Transcript, [Next]_vars
    PROVE  Transcript'
<1>1. spent \in [Bounded -> Nat]
  BY DEF Transcript, LogTypes
<1>2. CASE StartRun \/ Clear \/ Purge
  BY <1>2, StartsKeep
<1>3. CASE \/ Begin \/ Build \/ Generate \/ Stopped \/ CutOff \/ Answers \/ HandsOver
           \/ Gate \/ UserAnswers \/ ToolEnds \/ Fails \/ Repeats \/ Ask
  BY <1>3, TurnKeeps
<1>4. CASE Settle
  BY <1>4, SettleKeeps
<1>5. CASE Stores
  <2>1. (Rewrite \/ WriteLine) /\ UNCHANGED <<pc, turn, history, spent>>
    BY <1>5 DEF Stores, Free, turnVars
  <2> QED BY <2>1, RewriteKeeps, WriteLineKeeps
<1>6. CASE Stored
  BY <1>6, StoredKeeps
<1>7. CASE StoreFails
  <2>1. spent' \in [Bounded -> Nat]
    BY <1>1, <1>7, SpendIs, NamesAreBounded DEF StoreFails
  <2> QED BY <1>7, <2>1, FailureKeeps
<1>8. CASE Quit
  <2>1. Gone /\ UNCHANGED <<files, copy>> /\ spent' = spent
    BY <1>8 DEF Quit, Free
  <2> QED BY <1>1, <2>1, EndKeeps
<1>9. CASE Key \/ Signal
  <2>1. spent' \in [Bounded -> Nat]
    BY <1>1, <1>9, SpendIs, NamesAreBounded DEF Key, Signal
  <2>2. SaysStop \/ (Gone /\ UNCHANGED <<files, copy>>)
    BY <1>9 DEF Key, Signal
  <2> QED BY <2>1, <2>2, SayKeeps, EndKeeps
<1>10. CASE Crash
  <2>1. spent' \in [Bounded -> Nat]
    BY <1>1, <1>10, SpendIs, NamesAreBounded DEF Crash
  <2>2. Gone /\ (WriteCut \/ UNCHANGED <<files, copy>>)
    BY <1>10 DEF Crash
  <2> QED BY <2>1, <2>2, EndKeeps
<1>11. CASE UNCHANGED vars
  <2>1. UNCHANGED <<logVars, history>> /\ pc' = pc /\ turn' = turn /\ spent' = spent
    BY <1>11 DEF vars, turnVars
  <2> QED BY <1>1, <2>1, QuietKeeps
<1> QED BY <1>2, <1>3, <1>4, <1>5, <1>6, <1>7, <1>8, <1>9, <1>10, <1>11 DEF Next, Goes

LEMMA TranscriptStarts ==
    ASSUME Init
    PROVE  Transcript
<1>1. /\ files = << >> /\ log = Closed /\ todo = << >> /\ saved = << >> /\ copy = "whole"
      /\ pc = "off" /\ history = << >> /\ spent = [what \in Bounded |-> 0]
  BY DEF Init, LogInit
<1>2. /\ log.on = FALSE /\ log.made = FALSE /\ log.earlier = << >> /\ Current = EmptyFile
      /\ ~ Storing
  BY <1>1 DEF Closed, Current, Storing
<1>3. LogTypes
  <2>1. << >> \in Seq(Message) /\ << >> \in Seq(File)
    OBVIOUS
  <2>2. spent \in [Bounded -> Nat]
    BY <1>1
  <2> QED BY <1>1, <2>1, <2>2, ClosedIs DEF LogTypes
<1>4. Shape
  BY <1>1, <1>2, EmptyIs DEF Shape
<1>5. Flow /\ Closing /\ Covered
  BY <1>2 DEF Flow, Closing, Missed, Covered
<1>6. Going /\ Continued
  BY <1>1, NoneIsContinued DEF Going, Continued
<1> QED BY <1>3, <1>4, <1>5, <1>6 DEF Transcript

\* Transcript is inductive, with the types of the turn.
LEMMA TranscriptStands == Spec => []Transcript
<1>1. Init => Transcript
  BY TranscriptStarts
<1>2. Inv /\ Transcript /\ [Next]_vars => Transcript'
  BY StepKeeps DEF Inv
<1> QED BY <1>1, <1>2, Inductive, PTL DEF Spec

-----------------------------------------------------------------------------
(* Theorems of the transcript *)

\* The variables keep their types, for any number of turns, files and lines: the count
\* of lines that `append_one` keeps never passes its cap.
THEOREM TypeCorrect == Spec => []TypeOK
<1>1. Inv /\ Transcript => TypeOK
  BY DEF Inv, TurnTypes, Transcript, LogTypes, TypeOK
<1> QED BY <1>1, Inductive, TranscriptStands, PTL

\* A log that is still on has missed nothing: between two turns its file ends the way
\* the conversation does, after failed writes, rewritings at the cap and a purge from
\* another terminal.
THEOREM FileEndsAsHistory == Spec => []TranscriptIsHistory
<1>1. Inv /\ Transcript => TranscriptIsHistory
  <2> SUFFICES ASSUME Inv, Transcript, pc = "prompt", log.made
               PROVE  IsSuffix(ReadTurns(Current), history)
    BY DEF TranscriptIsHistory
  <2> DEFINE l == Current.lines
  <2>1. log.on /\ ~ Missed /\ todo = << >> /\ Pending = << >> /\ history \in Seq(Message)
    BY DEF Transcript, Shape, Missed, Pending, Storing, LogTypes
  <2>2. Intact(Current) /\ l \in Seq(Message) /\ EndsIn((l \o << >>) \o << >>, history)
    BY <2>1 DEF Transcript, Flow
  <2>3. ReadTurns(Current) = l
    <3>1. l \in Lines
      BY CurrentIs DEF Transcript
    <3>2. Parsed(l) = l
      BY <2>2, <3>1, ParsedTypes
    <3> QED BY <2>2, <3>2 DEF ReadTurns, Intact
  <2>4. (l \o << >>) \o << >> = l
    BY <2>2
  <2> HIDE DEF l
  <2> QED BY <2>1, <2>2, <2>3, <2>4, SuffixIs
<1> QED BY <1>1, Inductive, TranscriptStands, PTL

\* What the log said it had written is, down to the cap, in what `--continue` hands
\* out, after any number of runs, crashes, failed writes and rewritings.
THEOREM WhatWasSavedIsContinued == Spec => []SavedIsContinued
<1>1. Transcript => SavedIsContinued
  BY DEF Transcript, Continued, SavedIsContinued, Kept, Keep
<1> QED BY <1>1, TranscriptStands, PTL

=============================================================================
