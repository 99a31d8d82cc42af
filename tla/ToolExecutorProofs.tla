-------------------------- MODULE ToolExecutorProofs --------------------------
(***************************************************************************)
(* What ToolExecutor keeps to for any tools, arguments and limits.  Each   *)
(* section has an invariant, the proof that every action preserves it, and *)
(* at the end the theorems that follow from the invariants.  The liveness  *)
(* of a call (CallEnds) is left to TLC.                                    *)
(***************************************************************************)
EXTENDS ToolExecutor, TLAPS

USE DEF flags, turnVars, record

LEMMA NoCallIsNone == NoCall \notin Call
  BY ToolsAssumption DEF NoCall, Call

LEMMA CanonicalCall == \A c \in Call : Canonical(c) \in Call
  BY DEF Canonical, Call

LEMMA CallOf ==
    \A c \in Call : [tool |-> c.tool, args |-> c.args, exact |-> TRUE] \in Call
  BY DEF Call

\* The catalog's spelling is one per tool.
LEMMA CanonicalIs ==
    \A c \in Call :
        /\ Canonical(c) = [tool |-> c.tool, args |-> c.args, exact |-> TRUE]
        /\ Canonical(Canonical(c)) = Canonical(c)
        /\ Canonical(c).tool = c.tool /\ Canonical(c).args = c.args
  BY DEF Canonical, Call

LEMMA StrayParts ==
    \A w \in Stray : /\ Earlier(w).now = FALSE
                     /\ [w EXCEPT !.acted = TRUE].now = w.now
  BY DEF Earlier, Stray

LEMMA JobForType ==
    ASSUME NEW c \in Call, NEW why \in Reasons
    PROVE  JobFor(c, why) \in Job /\ JobFor(c, why).call = c
  BY DEF JobFor, Job

LEMMA JobCall ==
    ASSUME JobOK, pc # "idle"
    PROVE  job.call \in Call /\ job.why \in Reasons
  BY DEF JobOK, Job

LEMMA DenialKeyType ==
    \A c \in Call, why \in Reasons : DenialKey(c, why) \in DenialKeys
  BY DEF DenialKey, DenialKeys, Call

LEMMA WhyType == \A c \in Call : Why(c) \in Reasons
  BY DEF Why, Reasons

LEMMA SpendType ==
    ASSUME CountersOK, NEW what \in Bounded, Spend(what)
    PROVE  left' \in [Bounded -> Nat]
  BY DEF CountersOK, Spend

LEMMA ReturnType ==
    ASSUME NEW reason \in Endings, Return(reason), worldChanged' \in BOOLEAN
    PROVE  JobOK' /\ last' \in Outcome
<1>1. job' \in Job /\ job'.call = NoCall
  BY DEF Return, NoJob, JobFor, Job, Reasons
<1> QED
  BY <1>1 DEF Return, JobOK, Outcome

-----------------------------------------------------------------------------
(* Types *)
LEMMA TypeInit == Init => TypeOK
<1> SUFFICES ASSUME Init PROVE TypeOK
  OBVIOUS
<1>1. job \in Job /\ job.call = NoCall
  BY DEF Init, NoJob, JobFor, Job, Reasons
<1>2. last \in Outcome
  BY DEF Init, NoOutcome, Outcome, Endings
<1> QED
  BY <1>1, <1>2, LimitsAssumption
     DEF Init, TypeOK, FlagsOK, CountersOK, SetsOK, JobOK

LEMMA TypeStep == TypeOK /\ [Next]_vars => TypeOK'
<1> SUFFICES ASSUME TypeOK, [Next]_vars PROVE TypeOK'
  OBVIOUS
<1>0. FlagsOK /\ CountersOK /\ SetsOK /\ JobOK /\ last \in Outcome
  BY DEF TypeOK

<1>1. CASE RefuseCancelled
  <2>1. FlagsOK'
    BY <1>0, <1>1 DEF FlagsOK, RefuseCancelled, Received
  <2>2. Spend("call") /\ left' \in [Bounded -> Nat]
    BY <1>0, <1>1, SpendType DEF Bounded, RefuseCancelled, Received
  <2>3. CountersOK'
    BY <1>0, <1>1, <2>2 DEF CountersOK, RefuseCancelled, Received
  <2>4. SetsOK'
    BY <1>0, <1>1 DEF SetsOK, JobOK, RefuseCancelled, Received
  <2>5. JobOK' /\ last' \in Outcome
    BY <1>1, <2>1, ReturnType DEF FlagsOK, Endings, RefuseCancelled, Received
  <2> QED
    BY <2>1, <2>3, <2>4, <2>5 DEF TypeOK
<1>2. CASE Malformed
  <2>1. FlagsOK'
    BY <1>0, <1>2 DEF FlagsOK, Malformed, Passes, Received
  <2>2. Spend("call") /\ left' \in [Bounded -> Nat]
    BY <1>0, <1>2, SpendType DEF Bounded, Malformed, Passes, Received
  <2>3. CountersOK'
    BY <1>0, <1>2, <2>2 DEF CountersOK, Malformed, Passes, Received
  <2>4. SetsOK'
    BY <1>0, <1>2 DEF SetsOK, JobOK, Malformed, Passes, Received
  <2>5. JobOK' /\ last' \in Outcome
    BY <1>2, <2>1, ReturnType DEF FlagsOK, Endings, Malformed, Passes, Received
  <2> QED
    BY <2>1, <2>3, <2>4, <2>5 DEF TypeOK
<1>3. ASSUME NEW c \in Call, Repeated(c)
      PROVE  TypeOK'
  <2>1. FlagsOK'
    BY <1>0, <1>3 DEF FlagsOK, Repeated, Passes, Received
  <2>2. Spend("call") /\ left' \in [Bounded -> Nat]
    BY <1>0, <1>3, SpendType DEF Bounded, Repeated, Passes, Received
  <2>3. CountersOK'
    BY <1>0, <1>3, <2>2 DEF CountersOK, Repeated, Passes, Received
  <2>4. SetsOK'
    BY <1>0, <1>3 DEF SetsOK, JobOK, Repeated, Passes, Received
  <2>5. JobOK' /\ last' \in Outcome
    BY <1>3, <2>1, ReturnType DEF FlagsOK, Endings, Repeated, Passes, Received
  <2> QED
    BY <2>1, <2>3, <2>4, <2>5 DEF TypeOK
<1>4. ASSUME NEW c \in Call, DeniedBefore(c)
      PROVE  TypeOK'
  <2>1. FlagsOK'
    BY <1>0, <1>4 DEF FlagsOK, DeniedBefore, IsNew, Passes, Received
  <2>2. Spend("call") /\ left' \in [Bounded -> Nat]
    BY <1>0, <1>4, SpendType DEF Bounded, DeniedBefore, IsNew, Passes, Received
  <2>3. CountersOK'
    BY <1>0, <1>4, <2>2 DEF CountersOK, DeniedBefore, IsNew, Passes, Received
  <2>4. SetsOK'
    BY <1>0, <1>4 DEF SetsOK, JobOK, DeniedBefore, IsNew, Passes, Received
  <2>5. JobOK' /\ last' \in Outcome
    BY <1>4, <2>1, ReturnType DEF FlagsOK, Endings, DeniedBefore, IsNew, Passes,
       Received
  <2> QED
    BY <2>1, <2>3, <2>4, <2>5 DEF TypeOK
<1>5. ASSUME NEW c \in Call, Ask(c)
      PROVE  TypeOK'
  <2>1. FlagsOK'
    BY <1>0, <1>5 DEF FlagsOK, Ask, IsNew, Passes, Received, Canonical
  <2>2. Spend("call") /\ left' \in [Bounded -> Nat]
    BY <1>0, <1>5, SpendType DEF Bounded, Ask, IsNew, Passes, Received, Canonical
  <2>3. CountersOK'
    BY <1>0, <1>5, <2>2 DEF CountersOK, Ask, IsNew, Passes, Received, Canonical
  <2>4. SetsOK'
    BY <1>0, <1>5 DEF SetsOK, JobOK, Ask, IsNew, Passes, Received, Canonical
  <2>a. Canonical(c) \in Call /\ Why(c) \in Reasons
    BY CanonicalCall, WhyType DEF Reasons
  <2>5. JobOK' /\ last' \in Outcome
    BY <1>0, <1>5, <2>a, JobForType, NoCallIsNone DEF JobOK, Ask
  <2> QED
    BY <2>1, <2>3, <2>4, <2>5 DEF TypeOK
<1>6. ASSUME NEW c \in Call, RunUnasked(c)
      PROVE  TypeOK'
  <2>1. FlagsOK'
    BY <1>0, <1>6 DEF FlagsOK, RunUnasked, IsNew, Passes, Received, Start, Canonical
  <2>2. Spend("call") /\ left' \in [Bounded -> Nat]
    BY <1>0, <1>6, SpendType DEF Bounded, RunUnasked, IsNew, Passes, Received,
       Start, Canonical
  <2>3. CountersOK'
    BY <1>0, <1>6, <2>2 DEF CountersOK, RunUnasked, IsNew, Passes, Received, Start,
       Canonical
  <2>b. Canonical(c) \in Call
    BY CanonicalCall
  <2>4. SetsOK'
    BY <1>0, <1>6, <2>b, CallOf DEF SetsOK, RunUnasked, Start
  <2>a. Canonical(c) \in Call /\ "none" \in Reasons
    BY CanonicalCall, WhyType DEF Reasons
  <2>5. JobOK' /\ last' \in Outcome
    BY <1>0, <1>6, <2>a, JobForType, NoCallIsNone DEF JobOK, RunUnasked, Start
  <2> QED
    BY <2>1, <2>3, <2>4, <2>5 DEF TypeOK
<1>7. ASSUME NEW yes \in BOOLEAN, Answer(yes)
      PROVE  TypeOK'
  <2>1. FlagsOK'
    BY <1>0, <1>7 DEF FlagsOK, Answer
  <2>3. CountersOK'
    BY <1>0, <1>7 DEF CountersOK, Answer
  <2>b. job.call \in Call /\ job.why \in Reasons
    BY <1>0, <1>7, JobCall DEF Answer
  <2>4. SetsOK'
    BY <1>0, <1>7, <2>b DEF SetsOK, Answer
  <2>a. job' \in Job /\ job'.call = job.call
    BY <1>0, <1>7 DEF JobOK, Job, Answer
  <2>5. JobOK' /\ last' \in Outcome
    BY <1>0, <1>7, <2>a DEF JobOK, Answer, Answer
  <2> QED
    BY <2>1, <2>3, <2>4, <2>5 DEF TypeOK
<1>8. CASE RunAllowed
  <2>1. FlagsOK'
    BY <1>0, <1>8 DEF FlagsOK, RunAllowed, Start
  <2>3. CountersOK'
    BY <1>0, <1>8 DEF CountersOK, RunAllowed, Start
  <2>b. job.call \in Call /\ job.why \in Reasons /\ job.acted \in BOOLEAN
    BY <1>0, <1>8, JobCall DEF JobOK, Job, RunAllowed
  <2>4. SetsOK'
    BY <1>0, <1>8, <2>b, CallOf, DenialKeyType DEF SetsOK, RunAllowed, Start
  <2>5. JobOK' /\ last' \in Outcome
    BY <1>0, <1>8 DEF JobOK, RunAllowed, Start
  <2> QED
    BY <2>1, <2>3, <2>4, <2>5 DEF TypeOK
<1>9. CASE Denied
  <2>1. FlagsOK'
    BY <1>0, <1>9 DEF FlagsOK, Denied
  <2>3. CountersOK'
    BY <1>0, <1>9 DEF CountersOK, Denied
  <2>b. job.call \in Call /\ job.why \in Reasons /\ job.acted \in BOOLEAN
    BY <1>0, <1>9, JobCall DEF JobOK, Job, Denied
  <2>4. SetsOK'
    BY <1>0, <1>9, <2>b, CallOf, DenialKeyType DEF SetsOK, Denied
  <2>5. JobOK' /\ last' \in Outcome
    BY <1>9, <2>1, ReturnType DEF FlagsOK, Endings, Denied
  <2> QED
    BY <2>1, <2>3, <2>4, <2>5 DEF TypeOK
<1>10. CASE WorkerActs
  <2>1. FlagsOK'
    BY <1>0, <1>10 DEF FlagsOK, WorkerActs, Watching
  <2>3. CountersOK'
    BY <1>0, <1>10 DEF CountersOK, WorkerActs, Watching
  <2>4. SetsOK'
    BY <1>0, <1>10 DEF SetsOK, JobOK, WorkerActs, Watching
  <2>a. job' \in Job /\ job'.call = job.call
    BY <1>0, <1>10 DEF JobOK, Job, WorkerActs
  <2>5. JobOK' /\ last' \in Outcome
    BY <1>0, <1>10, <2>a DEF JobOK, WorkerActs, Watching
  <2> QED
    BY <2>1, <2>3, <2>4, <2>5 DEF TypeOK
<1>11. CASE WorkerPanics
  <2>1. FlagsOK'
    BY <1>0, <1>11 DEF FlagsOK, WorkerPanics, Watching, Lost
  <2>3. CountersOK'
    BY <1>0, <1>11 DEF CountersOK, WorkerPanics, Watching, Lost
  <2>4. SetsOK'
    BY <1>0, <1>11 DEF SetsOK, JobOK, WorkerPanics, Watching, Lost
  <2>5. JobOK' /\ last' \in Outcome
    BY <1>11, <2>1, ReturnType DEF FlagsOK, Endings, WorkerPanics, Watching, Lost
  <2> QED
    BY <2>1, <2>3, <2>4, <2>5 DEF TypeOK
<1>12. CASE Tell
  <2>1. FlagsOK'
    BY <1>0, <1>12 DEF FlagsOK, Tell
  <2>3. CountersOK'
    BY <1>0, <1>12 DEF CountersOK, Tell
  <2>4. SetsOK'
    BY <1>0, <1>12 DEF SetsOK, JobOK, Tell
  <2>a. job' \in Job /\ job'.call = job.call
    BY <1>0, <1>12 DEF JobOK, Job, Tell, FlagsOK, IsCancelled
  <2>5. JobOK' /\ last' \in Outcome
    BY <1>0, <1>12, <2>a DEF JobOK, Tell
  <2> QED
    BY <2>1, <2>3, <2>4, <2>5 DEF TypeOK
<1>13. CASE Abandon
  <2>1. FlagsOK'
    BY <1>0, <1>13 DEF FlagsOK, Abandon, Lost
  <2>3. CountersOK'
    BY <1>0, <1>13 DEF CountersOK, Abandon, Lost
  <2>b. job.call \in Call /\ job.why \in Reasons /\ job.acted \in BOOLEAN
    BY <1>0, <1>13, JobCall DEF JobOK, Job, Abandon
  <2>c. [call |-> job.call, acted |-> job.acted, now |-> TRUE] \in Stray
    BY <2>b DEF Stray
  <2>4. SetsOK'
    BY <1>0, <1>13, <2>c DEF SetsOK, Abandon, Lost
  <2>5. JobOK' /\ last' \in Outcome
    BY <1>13, <2>1, ReturnType DEF FlagsOK, Endings, Abandon, Lost
  <2> QED
    BY <2>1, <2>3, <2>4, <2>5 DEF TypeOK
<1>14. ASSUME NEW state \in ToolStates, NEW own \in BOOLEAN, WorkerReturns(state, own)
      PROVE  TypeOK'
  <2>1. FlagsOK'
    BY <1>0, <1>14 DEF FlagsOK, WorkerReturns, Watching, Honest, Succeeded, Return
  <2>3. CountersOK'
    BY <1>0, <1>14 DEF CountersOK, WorkerReturns, Watching, Honest, Succeeded
  <2>4. SetsOK'
    BY <1>0, <1>14 DEF SetsOK, JobOK, WorkerReturns, Watching, Honest, Succeeded
  <2>5. JobOK' /\ last' \in Outcome
    BY <1>14, <2>1, ReturnType DEF FlagsOK, Endings, WorkerReturns, Watching,
       Honest, Succeeded
  <2> QED
    BY <2>1, <2>3, <2>4, <2>5 DEF TypeOK
<1>15. ASSUME NEW w \in strays, StrayActs(w)
      PROVE  TypeOK'
  <2>1. FlagsOK'
    BY <1>0, <1>15 DEF FlagsOK, StrayActs
  <2>3. CountersOK'
    BY <1>0, <1>15 DEF CountersOK, StrayActs
  <2>b. w \in Stray /\ [w EXCEPT !.acted = TRUE] \in Stray
    BY <1>0 DEF SetsOK, Stray
  <2>4. SetsOK'
    BY <1>0, <1>15, <2>b DEF SetsOK, StrayActs
  <2>5. JobOK' /\ last' \in Outcome
    BY <1>0, <1>15 DEF JobOK, StrayActs
  <2> QED
    BY <2>1, <2>3, <2>4, <2>5 DEF TypeOK
<1>16. ASSUME NEW w \in strays, StrayEnds(w)
      PROVE  TypeOK'
  <2>1. FlagsOK'
    BY <1>0, <1>16 DEF FlagsOK, StrayEnds
  <2>3. CountersOK'
    BY <1>0, <1>16 DEF CountersOK, StrayEnds
  <2>4. SetsOK'
    BY <1>0, <1>16 DEF SetsOK, JobOK, StrayEnds
  <2>5. JobOK' /\ last' \in Outcome
    BY <1>0, <1>16 DEF JobOK, StrayEnds
  <2> QED
    BY <2>1, <2>3, <2>4, <2>5 DEF TypeOK
<1>17. CASE NewTurn
  <2>1. FlagsOK'
    BY <1>0, <1>17 DEF FlagsOK, NewTurn, TurnBegins
  <2>2. Spend("turn") /\ left' \in [Bounded -> Nat]
    BY <1>0, <1>17, SpendType DEF Bounded, NewTurn, TurnBegins
  <2>3. CountersOK'
    BY <1>0, <1>17, <2>2 DEF CountersOK, NewTurn, TurnBegins
  <2>b. \A w \in strays : Earlier(w) \in Stray
    BY <1>0 DEF SetsOK, Stray, Earlier
  <2>4. SetsOK'
    BY <1>0, <1>17, <2>b DEF SetsOK, NewTurn, TurnBegins
  <2>5. JobOK' /\ last' \in Outcome
    BY <1>0, <1>17 DEF JobOK, NoOutcome, Outcome, Endings, NewTurn, TurnBegins
  <2> QED
    BY <2>1, <2>3, <2>4, <2>5 DEF TypeOK
<1>18. CASE TurnEnds
  <2>1. FlagsOK'
    BY <1>0, <1>18 DEF FlagsOK, TurnEnds
  <2>3. CountersOK'
    BY <1>0, <1>18 DEF CountersOK, TurnEnds
  <2>4. SetsOK'
    BY <1>0, <1>18 DEF SetsOK, JobOK, TurnEnds
  <2>5. JobOK' /\ last' \in Outcome
    BY <1>0, <1>18 DEF JobOK, TurnEnds
  <2> QED
    BY <2>1, <2>3, <2>4, <2>5 DEF TypeOK
<1>19. CASE Stop
  <2>1. FlagsOK'
    BY <1>0, <1>19 DEF FlagsOK, Stop
  <2>2. Spend("stop") /\ left' \in [Bounded -> Nat]
    BY <1>0, <1>19, SpendType DEF Bounded, Stop
  <2>3. CountersOK'
    BY <1>0, <1>19, <2>2 DEF CountersOK, Stop
  <2>4. SetsOK'
    BY <1>0, <1>19 DEF SetsOK, JobOK, Stop
  <2>5. JobOK' /\ last' \in Outcome
    BY <1>0, <1>19 DEF JobOK, Stop
  <2> QED
    BY <2>1, <2>3, <2>4, <2>5 DEF TypeOK
<1>20. CASE Cancel
  <2>1. FlagsOK'
    BY <1>0, <1>20 DEF FlagsOK, Cancel
  <2>2. Spend("stop") /\ left' \in [Bounded -> Nat]
    BY <1>0, <1>20, SpendType DEF Bounded, Cancel
  <2>3. CountersOK'
    BY <1>0, <1>20, <2>2 DEF CountersOK, Cancel
  <2>4. SetsOK'
    BY <1>0, <1>20 DEF SetsOK, JobOK, Cancel
  <2>5. JobOK' /\ last' \in Outcome
    BY <1>0, <1>20 DEF JobOK, Cancel
  <2> QED
    BY <2>1, <2>3, <2>4, <2>5 DEF TypeOK
<1>21. CASE Refresh
  <2>1. FlagsOK'
    BY <1>0, <1>21 DEF FlagsOK, Refresh, FreshExecutor
  <2>2. Spend("refresh") /\ left' \in [Bounded -> Nat]
    BY <1>0, <1>21, SpendType DEF Bounded, Refresh, FreshExecutor
  <2>3. CountersOK'
    BY <1>0, <1>21, <2>2 DEF CountersOK, Refresh, FreshExecutor
  <2>b. \A w \in strays : Earlier(w) \in Stray
    BY <1>0 DEF SetsOK, Stray, Earlier
  <2>4. SetsOK'
    BY <1>0, <1>21, <2>b DEF SetsOK, Refresh, FreshExecutor
  <2>5. JobOK' /\ last' \in Outcome
    BY <1>0, <1>21 DEF JobOK, Refresh, FreshExecutor
  <2> QED
    BY <2>1, <2>3, <2>4, <2>5 DEF TypeOK
<1>22. CASE ResetChat
  <2>1. FlagsOK'
    BY <1>0, <1>22 DEF FlagsOK, ResetChat
  <2>2. Spend("refresh") /\ left' \in [Bounded -> Nat]
    BY <1>0, <1>22, SpendType DEF Bounded, ResetChat
  <2>3. CountersOK'
    BY <1>0, <1>22, <2>2 DEF CountersOK, ResetChat
  <2>b. \A w \in strays : Earlier(w) \in Stray
    BY <1>0 DEF SetsOK, Stray, Earlier
  <2>4. SetsOK'
    BY <1>0, <1>22, <2>b DEF SetsOK, ResetChat
  <2>5. JobOK' /\ last' \in Outcome
    BY <1>0, <1>22 DEF JobOK, ResetChat
  <2> QED
    BY <2>1, <2>3, <2>4, <2>5 DEF TypeOK
<1>23. ASSUME NEW imported \in BOOLEAN, Input(imported)
      PROVE  TypeOK'
  <2>1. FlagsOK'
    BY <1>0, <1>23 DEF FlagsOK, Input
  <2>3. CountersOK'
    BY <1>0, <1>23 DEF CountersOK, Input
  <2>4. SetsOK'
    BY <1>0, <1>23 DEF SetsOK, JobOK, Input
  <2>5. JobOK' /\ last' \in Outcome
    BY <1>0, <1>23 DEF JobOK, Input
  <2> QED
    BY <2>1, <2>3, <2>4, <2>5 DEF TypeOK
<1>24. CASE UNCHANGED vars
  BY <1>0, <1>24 DEF vars, TypeOK, FlagsOK, CountersOK, SetsOK, JobOK
<1> QED
  BY <1>1, <1>2, <1>3, <1>4, <1>5, <1>6, <1>7, <1>8, <1>9, <1>10, <1>11, <1>12, <1>13,
     <1>14, <1>15, <1>16, <1>17, <1>18, <1>19, <1>20, <1>21, <1>22, <1>23, <1>24 DEF
     Next, Gates, Running, Shell

\* In every state every variable is of its type, and the executor has a job
\* exactly while it is busy with a call.
THEOREM TypeCorrect == Spec => []TypeOK
  BY TypeInit, TypeStep, PTL DEF Spec

-----------------------------------------------------------------------------
(* The session flags *)
LEMMA TaintInit == Init => TaintNeverForgotten
  BY DEF Init, TaintNeverForgotten

LEMMA TaintStep == TypeOK /\ TaintNeverForgotten /\ [Next]_vars => TaintNeverForgotten'
<1> SUFFICES ASSUME TypeOK, TaintNeverForgotten, [Next]_vars PROVE TaintNeverForgotten'
  OBVIOUS
<1>0. FlagsOK /\ CountersOK /\ SetsOK /\ JobOK
  BY DEF TypeOK
<1>1. CASE RefuseCancelled
  BY <1>0, <1>1 DEF RefuseCancelled, Received, Spend, Return, TaintNeverForgotten,
     FlagsOK
<1>2. CASE Malformed
  BY <1>0, <1>2 DEF Malformed, Passes, Received, Spend, Return, TaintNeverForgotten,
     FlagsOK
<1>3. ASSUME NEW c \in Call, Repeated(c)
      PROVE  TaintNeverForgotten'
  BY <1>0, <1>3 DEF Repeated, Passes, Received, Spend, Return, TaintNeverForgotten,
     FlagsOK
<1>4. ASSUME NEW c \in Call, DeniedBefore(c)
      PROVE  TaintNeverForgotten'
  BY <1>0, <1>4 DEF DeniedBefore, IsNew, Passes, Received, Spend, Return,
     TaintNeverForgotten, FlagsOK
<1>5. ASSUME NEW c \in Call, Ask(c)
      PROVE  TaintNeverForgotten'
  BY <1>0, <1>5 DEF Ask, IsNew, Passes, Received, Spend, Canonical,
     TaintNeverForgotten, FlagsOK
<1>6. ASSUME NEW c \in Call, RunUnasked(c)
      PROVE  TaintNeverForgotten'
  BY <1>0, <1>6 DEF RunUnasked, IsNew, Passes, Received, Spend, Start, Canonical,
     TaintNeverForgotten, FlagsOK
<1>7. ASSUME NEW yes \in BOOLEAN, Answer(yes)
      PROVE  TaintNeverForgotten'
  BY <1>0, <1>7 DEF Answer, TaintNeverForgotten, FlagsOK
<1>8. CASE RunAllowed
  BY <1>0, <1>8 DEF RunAllowed, Start, TaintNeverForgotten, FlagsOK
<1>9. CASE Denied
  BY <1>0, <1>9 DEF Denied, Return, TaintNeverForgotten, FlagsOK
<1>10. CASE WorkerActs
  BY <1>0, <1>10 DEF WorkerActs, Watching, TaintNeverForgotten, FlagsOK
<1>11. CASE WorkerPanics
  BY <1>0, <1>11 DEF WorkerPanics, Watching, Lost, Return, TaintNeverForgotten, FlagsOK
<1>12. CASE Tell
  BY <1>0, <1>12 DEF Tell, TaintNeverForgotten, FlagsOK
<1>13. CASE Abandon
  BY <1>0, <1>13 DEF Abandon, Lost, Return, TaintNeverForgotten, FlagsOK
<1>14. ASSUME NEW state \in ToolStates, NEW own \in BOOLEAN, WorkerReturns(state, own)
      PROVE  TaintNeverForgotten'
  BY <1>0, <1>14 DEF WorkerReturns, Watching, Honest, Succeeded, Return,
     TaintNeverForgotten, FlagsOK
<1>15. ASSUME NEW w \in strays, StrayActs(w)
      PROVE  TaintNeverForgotten'
  BY <1>0, <1>15 DEF StrayActs, TaintNeverForgotten, FlagsOK
<1>16. ASSUME NEW w \in strays, StrayEnds(w)
      PROVE  TaintNeverForgotten'
  BY <1>0, <1>16 DEF StrayEnds, TaintNeverForgotten, FlagsOK
<1>17. CASE NewTurn
  BY <1>0, <1>17 DEF NewTurn, TurnBegins, Spend, TaintNeverForgotten, FlagsOK
<1>18. CASE TurnEnds
  BY <1>0, <1>18 DEF TurnEnds, TaintNeverForgotten, FlagsOK
<1>19. CASE Stop
  BY <1>0, <1>19 DEF Stop, Spend, TaintNeverForgotten, FlagsOK
<1>20. CASE Cancel
  BY <1>0, <1>20 DEF Cancel, Spend, TaintNeverForgotten, FlagsOK
<1>21. CASE Refresh
  BY <1>0, <1>21 DEF Refresh, FreshExecutor, Spend, TaintNeverForgotten, FlagsOK
<1>22. CASE ResetChat
  BY <1>0, <1>22 DEF ResetChat, Spend, TaintNeverForgotten, FlagsOK
<1>23. ASSUME NEW imported \in BOOLEAN, Input(imported)
      PROVE  TaintNeverForgotten'
  BY <1>0, <1>23 DEF Input, TaintNeverForgotten, FlagsOK
<1>24. CASE UNCHANGED vars
  BY <1>0, <1>24 DEF vars, TaintNeverForgotten, FlagsOK
<1> QED
  BY <1>1, <1>2, <1>3, <1>4, <1>5, <1>6, <1>7, <1>8, <1>9, <1>10, <1>11, <1>12, <1>13,
     <1>14, <1>15, <1>16, <1>17, <1>18, <1>19, <1>20, <1>21, <1>22, <1>23, <1>24 DEF
     Next, Gates, Running, Shell

\* The flags the approval gate reads say so whenever personal data or outside
\* text is in the conversation, for any tools, and across turns and refreshes.
THEOREM TaintKept == Spec => []TaintNeverForgotten
  BY TypeInit, TypeStep, TaintInit, TaintStep, PTL DEF Spec

-----------------------------------------------------------------------------
(* Stops.  A turn counts as cancelled exactly when it was told to stop: the
   number of a cancelled turn is never ahead of the current one, so a new turn
   is never born cancelled, and a deadline marks nothing. *)
StopInv ==
    /\ cancelled <= turn
    /\ IsCancelled => stopSaid
    /\ inTurn /\ stopSaid => IsCancelled
    /\ job.byUser => stopSaid
    /\ pc = "idle" => ~ job.byUser
    /\ ~ inTurn => pc = "idle"
    /\ StopBindsOneTurn

LEMMA StopInit == Init => StopInv
  BY DEF Init, StopInv, StopBindsOneTurn, IsCancelled, NoJob, JobFor, NoOutcome

LEMMA StopStep == TypeOK /\ StopInv /\ [Next]_vars => StopInv'
<1> SUFFICES ASSUME TypeOK, StopInv, [Next]_vars PROVE StopInv'
  OBVIOUS
<1>0. FlagsOK /\ CountersOK /\ SetsOK /\ JobOK
  BY DEF TypeOK
<1>1. CASE RefuseCancelled
  BY <1>0, <1>1 DEF RefuseCancelled, Received, Spend, Return, StopInv,
     StopBindsOneTurn, IsCancelled, NoJob, JobFor, NoOutcome, CountersOK
<1>2. CASE Malformed
  BY <1>0, <1>2 DEF Malformed, Passes, Received, Spend, Return, StopInv,
     StopBindsOneTurn, IsCancelled, NoJob, JobFor, NoOutcome, CountersOK
<1>3. ASSUME NEW c \in Call, Repeated(c)
      PROVE  StopInv'
  BY <1>0, <1>3 DEF Repeated, Passes, Received, Spend, Return, StopInv,
     StopBindsOneTurn, IsCancelled, NoJob, JobFor, NoOutcome, CountersOK
<1>4. ASSUME NEW c \in Call, DeniedBefore(c)
      PROVE  StopInv'
  BY <1>0, <1>4 DEF DeniedBefore, IsNew, Passes, Received, Spend, Return, StopInv,
     StopBindsOneTurn, IsCancelled, NoJob, JobFor, NoOutcome, CountersOK
<1>5. ASSUME NEW c \in Call, Ask(c)
      PROVE  StopInv'
  BY <1>0, <1>5 DEF Ask, IsNew, Passes, Received, Spend, Canonical, StopInv,
     StopBindsOneTurn, IsCancelled, NoJob, JobFor, NoOutcome, CountersOK
<1>6. ASSUME NEW c \in Call, RunUnasked(c)
      PROVE  StopInv'
  BY <1>0, <1>6 DEF RunUnasked, IsNew, Passes, Received, Spend, Start, Canonical,
     StopInv, StopBindsOneTurn, IsCancelled, NoJob, JobFor, NoOutcome, CountersOK
<1>7. ASSUME NEW yes \in BOOLEAN, Answer(yes)
      PROVE  StopInv'
  BY <1>0, <1>7 DEF Answer, StopInv, StopBindsOneTurn, IsCancelled, NoJob, JobFor,
     NoOutcome, CountersOK
<1>8. CASE RunAllowed
  BY <1>0, <1>8 DEF RunAllowed, Start, StopInv, StopBindsOneTurn, IsCancelled, NoJob,
     JobFor, NoOutcome, CountersOK
<1>9. CASE Denied
  BY <1>0, <1>9 DEF Denied, Return, StopInv, StopBindsOneTurn, IsCancelled, NoJob,
     JobFor, NoOutcome, CountersOK
<1>10. CASE WorkerActs
  BY <1>0, <1>10 DEF WorkerActs, Watching, StopInv, StopBindsOneTurn, IsCancelled,
     NoJob, JobFor, NoOutcome, CountersOK
<1>11. CASE WorkerPanics
  BY <1>0, <1>11 DEF WorkerPanics, Watching, Lost, Return, StopInv, StopBindsOneTurn,
     IsCancelled, NoJob, JobFor, NoOutcome, CountersOK
<1>12. CASE Tell
  <2>1. job'.byUser = IsCancelled
    BY <1>0, <1>12 DEF Tell, JobOK, Job
  <2> QED
    BY <1>0, <2>1, <1>12 DEF Tell, StopInv, StopBindsOneTurn, IsCancelled
<1>13. CASE Abandon
  BY <1>0, <1>13 DEF Abandon, Lost, Return, StopInv, StopBindsOneTurn, IsCancelled,
     NoJob, JobFor, NoOutcome, CountersOK
<1>14. ASSUME NEW state \in ToolStates, NEW own \in BOOLEAN, WorkerReturns(state, own)
      PROVE  StopInv'
  BY <1>0, <1>14 DEF WorkerReturns, Watching, Honest, Succeeded, Return, StopInv,
     StopBindsOneTurn, IsCancelled, NoJob, JobFor, NoOutcome, CountersOK
<1>15. ASSUME NEW w \in strays, StrayActs(w)
      PROVE  StopInv'
  BY <1>0, <1>15 DEF StrayActs, StopInv, StopBindsOneTurn, IsCancelled, NoJob, JobFor,
     NoOutcome, CountersOK
<1>16. ASSUME NEW w \in strays, StrayEnds(w)
      PROVE  StopInv'
  BY <1>0, <1>16 DEF StrayEnds, StopInv, StopBindsOneTurn, IsCancelled, NoJob, JobFor,
     NoOutcome, CountersOK
<1>17. CASE NewTurn
  BY <1>0, <1>17 DEF NewTurn, TurnBegins, Spend, StopInv, StopBindsOneTurn,
     IsCancelled, NoJob, JobFor, NoOutcome, CountersOK
<1>18. CASE TurnEnds
  BY <1>0, <1>18 DEF TurnEnds, StopInv, StopBindsOneTurn, IsCancelled, NoJob, JobFor,
     NoOutcome, CountersOK
<1>19. CASE Stop
  BY <1>0, <1>19 DEF Stop, Spend, StopInv, StopBindsOneTurn, IsCancelled, NoJob,
     JobFor, NoOutcome, CountersOK
<1>20. CASE Cancel
  BY <1>0, <1>20 DEF Cancel, Spend, StopInv, StopBindsOneTurn, IsCancelled, NoJob,
     JobFor, NoOutcome, CountersOK
<1>21. CASE Refresh
  BY <1>0, <1>21 DEF Refresh, FreshExecutor, Spend, StopInv, StopBindsOneTurn,
     IsCancelled, NoJob, JobFor, NoOutcome, CountersOK
<1>22. CASE ResetChat
  BY <1>0, <1>22 DEF ResetChat, Spend, StopInv, StopBindsOneTurn, IsCancelled, NoJob,
     JobFor, NoOutcome, CountersOK
<1>23. ASSUME NEW imported \in BOOLEAN, Input(imported)
      PROVE  StopInv'
  BY <1>0, <1>23 DEF Input, StopInv, StopBindsOneTurn, IsCancelled, NoJob, JobFor,
     NoOutcome, CountersOK
<1>24. CASE UNCHANGED vars
  BY <1>0, <1>24 DEF vars, StopInv, StopBindsOneTurn, IsCancelled, NoJob, JobFor,
     NoOutcome, CountersOK
<1> QED
  BY <1>1, <1>2, <1>3, <1>4, <1>5, <1>6, <1>7, <1>8, <1>9, <1>10, <1>11, <1>12, <1>13,
     <1>14, <1>15, <1>16, <1>17, <1>18, <1>19, <1>20, <1>21, <1>22, <1>23, <1>24 DEF
     Next, Gates, Running, Shell

-----------------------------------------------------------------------------
(* Retries.  What this turn's calls changed is on record from the moment they
   end; a worker left behind was put on record when it was. *)
RetryInv ==
    /\ changed => worldChanged
    /\ \A w \in strays : w.now => worldChanged
    /\ last.retryable => ~ worldChanged

LEMMA RetryInit == Init => RetryInv
  BY DEF Init, RetryInv, NoJob, JobFor, NoOutcome

LEMMA RetryStep == TypeOK /\ RetryInv /\ [Next]_vars => RetryInv'
<1> SUFFICES ASSUME TypeOK, RetryInv, [Next]_vars PROVE RetryInv'
  OBVIOUS
<1>0. FlagsOK /\ CountersOK /\ SetsOK /\ JobOK
  BY DEF TypeOK
<1>1. CASE RefuseCancelled
  BY <1>0, <1>1 DEF RefuseCancelled, Received, Spend, Return, RetryInv,
     Watching, FlagsOK, NoJob, JobFor, NoOutcome
<1>2. CASE Malformed
  BY <1>0, <1>2 DEF Malformed, Passes, Received, Spend, Return, RetryInv,
     Watching, FlagsOK, NoJob, JobFor, NoOutcome
<1>3. ASSUME NEW c \in Call, Repeated(c)
      PROVE  RetryInv'
  BY <1>0, <1>3 DEF Repeated, Passes, Received, Spend, Return, RetryInv,
     Watching, FlagsOK, NoJob, JobFor, NoOutcome
<1>4. ASSUME NEW c \in Call, DeniedBefore(c)
      PROVE  RetryInv'
  BY <1>0, <1>4 DEF DeniedBefore, IsNew, Passes, Received, Spend, Return,
     RetryInv, Watching, FlagsOK, NoJob, JobFor, NoOutcome
<1>5. ASSUME NEW c \in Call, Ask(c)
      PROVE  RetryInv'
  BY <1>0, <1>5 DEF Ask, IsNew, Passes, Received, Spend, Canonical, RetryInv,
     Watching, FlagsOK, NoJob, JobFor, NoOutcome
<1>6. ASSUME NEW c \in Call, RunUnasked(c)
      PROVE  RetryInv'
  BY <1>0, <1>6 DEF RunUnasked, IsNew, Passes, Received, Spend, Start,
     Canonical, RetryInv, Watching, FlagsOK, NoJob, JobFor, NoOutcome
<1>7. ASSUME NEW yes \in BOOLEAN, Answer(yes)
      PROVE  RetryInv'
  BY <1>0, <1>7 DEF Answer, RetryInv, Watching, FlagsOK, NoJob, JobFor, NoOutcome
<1>8. CASE RunAllowed
  BY <1>0, <1>8 DEF RunAllowed, Start, RetryInv, Watching, FlagsOK, NoJob,
     JobFor, NoOutcome
<1>9. CASE Denied
  BY <1>0, <1>9 DEF Denied, Return, RetryInv, Watching, FlagsOK, NoJob, JobFor,
     NoOutcome
<1>10. CASE WorkerActs
  BY <1>0, <1>10 DEF WorkerActs, Watching, RetryInv, FlagsOK, NoJob, JobFor,
     NoOutcome
<1>11. CASE WorkerPanics
  BY <1>0, <1>11 DEF WorkerPanics, Watching, Lost, Return, RetryInv, FlagsOK,
     NoJob, JobFor, NoOutcome
<1>12. CASE Tell
  BY <1>0, <1>12 DEF Tell, RetryInv, Watching, FlagsOK, NoJob, JobFor, NoOutcome
<1>13. CASE Abandon
  BY <1>0, <1>13 DEF Abandon, Lost, Return, RetryInv, Watching, FlagsOK, NoJob,
     JobFor, NoOutcome
<1>14. ASSUME NEW state \in ToolStates, NEW own \in BOOLEAN, WorkerReturns(state, own)
      PROVE  RetryInv'
  BY <1>0, <1>14 DEF WorkerReturns, Watching, Honest, Succeeded, Return,
     RetryInv, FlagsOK, NoJob, JobFor, NoOutcome
<1>15. ASSUME NEW w \in strays, StrayActs(w)
      PROVE  RetryInv'
  <2>1. [w EXCEPT !.acted = TRUE].now = w.now
    BY <1>0, StrayParts DEF SetsOK
  <2> QED
    BY <1>0, <1>15, <2>1 DEF StrayActs, RetryInv, Watching, FlagsOK
<1>16. ASSUME NEW w \in strays, StrayEnds(w)
      PROVE  RetryInv'
  BY <1>0, <1>16 DEF StrayEnds, RetryInv, Watching, FlagsOK, NoJob, JobFor,
     NoOutcome
<1>17. CASE NewTurn
  <2>1. \A w \in strays' : ~ w.now
    BY <1>0, <1>17, StrayParts DEF SetsOK, NewTurn, TurnBegins
  <2>2. /\ worldChanged' = FALSE /\ changed' = FALSE
        /\ pc' = pc /\ job' = job
    BY <1>17 DEF NewTurn, TurnBegins
  <2> QED
    BY <2>1, <2>2 DEF RetryInv, Watching
<1>18. CASE TurnEnds
  BY <1>0, <1>18 DEF TurnEnds, RetryInv, Watching, FlagsOK, NoJob, JobFor,
     NoOutcome
<1>19. CASE Stop
  BY <1>0, <1>19 DEF Stop, Spend, RetryInv, Watching, FlagsOK, NoJob, JobFor,
     NoOutcome
<1>20. CASE Cancel
  BY <1>0, <1>20 DEF Cancel, Spend, RetryInv, Watching, FlagsOK, NoJob, JobFor,
     NoOutcome
<1>21. CASE Refresh
  <2>1. \A w \in strays' : ~ w.now
    BY <1>0, <1>21, StrayParts DEF SetsOK, Refresh, FreshExecutor
  <2>2. /\ worldChanged' = FALSE /\ changed' = FALSE
        /\ pc' = pc /\ job' = job
    BY <1>21 DEF Refresh, FreshExecutor
  <2> QED
    BY <2>1, <2>2 DEF RetryInv, Watching
<1>22. CASE ResetChat
  <2>1. \A w \in strays' : ~ w.now
    BY <1>0, <1>22, StrayParts DEF SetsOK, ResetChat
  <2>2. /\ worldChanged' = FALSE /\ changed' = FALSE
        /\ pc' = pc /\ job' = job
    BY <1>22 DEF ResetChat
  <2> QED
    BY <2>1, <2>2 DEF RetryInv, Watching
<1>23. ASSUME NEW imported \in BOOLEAN, Input(imported)
      PROVE  RetryInv'
  BY <1>0, <1>23 DEF Input, RetryInv, Watching, FlagsOK, NoJob, JobFor, NoOutcome
<1>24. CASE UNCHANGED vars
  BY <1>0, <1>24 DEF vars, RetryInv, Watching, FlagsOK, NoJob, JobFor, NoOutcome
<1> QED
  BY <1>1, <1>2, <1>3, <1>4, <1>5, <1>6, <1>7, <1>8, <1>9, <1>10, <1>11, <1>12, <1>13,
     <1>14, <1>15, <1>16, <1>17, <1>18, <1>19, <1>20, <1>21, <1>22, <1>23, <1>24 DEF
     Next, Gates, Running, Shell

-----------------------------------------------------------------------------
(* Denials.  Every "no" is in the cache, but for the one just said. *)
DenialInv ==
    \A r \in refused :
        \/ DenialKey(r.call, r.why) \in denied
        \/ pc = "answered" /\ ~ job.said /\ r = [call |-> job.call, why |-> job.why]

LEMMA DenialInit == Init => DenialInv
  BY DEF Init, DenialInv

LEMMA DenialStep == TypeOK /\ DenialInv /\ [Next]_vars => DenialInv'
<1> SUFFICES ASSUME TypeOK, DenialInv, [Next]_vars PROVE DenialInv'
  OBVIOUS
<1>0. FlagsOK /\ CountersOK /\ SetsOK /\ JobOK
  BY DEF TypeOK
<1>1. CASE RefuseCancelled
  BY <1>0, <1>1 DEF RefuseCancelled, Received, Spend, Return, DenialInv
<1>2. CASE Malformed
  BY <1>0, <1>2 DEF Malformed, Passes, Received, Spend, Return, DenialInv
<1>3. ASSUME NEW c \in Call, Repeated(c)
      PROVE  DenialInv'
  BY <1>0, <1>3 DEF Repeated, Passes, Received, Spend, Return, DenialInv
<1>4. ASSUME NEW c \in Call, DeniedBefore(c)
      PROVE  DenialInv'
  BY <1>0, <1>4 DEF DeniedBefore, IsNew, Passes, Received, Spend, Return, DenialInv
<1>5. ASSUME NEW c \in Call, Ask(c)
      PROVE  DenialInv'
  BY <1>0, <1>5 DEF Ask, IsNew, Passes, Received, Spend, Canonical, DenialInv
<1>6. ASSUME NEW c \in Call, RunUnasked(c)
      PROVE  DenialInv'
  BY <1>0, <1>6 DEF RunUnasked, IsNew, Passes, Received, Spend, Start, Canonical,
     DenialInv
<1>7. ASSUME NEW yes \in BOOLEAN, Answer(yes)
      PROVE  DenialInv'
  BY <1>0, <1>7 DEF Answer, DenialInv
<1>8. CASE RunAllowed
  BY <1>0, <1>8 DEF RunAllowed, Start, DenialInv
<1>9. CASE Denied
  BY <1>0, <1>9 DEF Denied, Return, DenialInv
<1>10. CASE WorkerActs
  BY <1>0, <1>10 DEF WorkerActs, Watching, DenialInv
<1>11. CASE WorkerPanics
  BY <1>0, <1>11 DEF WorkerPanics, Watching, Lost, Return, DenialInv
<1>12. CASE Tell
  BY <1>0, <1>12 DEF Tell, DenialInv
<1>13. CASE Abandon
  BY <1>0, <1>13 DEF Abandon, Lost, Return, DenialInv
<1>14. ASSUME NEW state \in ToolStates, NEW own \in BOOLEAN, WorkerReturns(state, own)
      PROVE  DenialInv'
  BY <1>0, <1>14 DEF WorkerReturns, Watching, Honest, Succeeded, Return, DenialInv
<1>15. ASSUME NEW w \in strays, StrayActs(w)
      PROVE  DenialInv'
  BY <1>0, <1>15 DEF StrayActs, DenialInv
<1>16. ASSUME NEW w \in strays, StrayEnds(w)
      PROVE  DenialInv'
  BY <1>0, <1>16 DEF StrayEnds, DenialInv
<1>17. CASE NewTurn
  BY <1>0, <1>17 DEF NewTurn, TurnBegins, Spend, DenialInv
<1>18. CASE TurnEnds
  BY <1>0, <1>18 DEF TurnEnds, DenialInv
<1>19. CASE Stop
  BY <1>0, <1>19 DEF Stop, Spend, DenialInv
<1>20. CASE Cancel
  BY <1>0, <1>20 DEF Cancel, Spend, DenialInv
<1>21. CASE Refresh
  BY <1>0, <1>21 DEF Refresh, FreshExecutor, Spend, DenialInv
<1>22. CASE ResetChat
  BY <1>0, <1>22 DEF ResetChat, Spend, DenialInv
<1>23. ASSUME NEW imported \in BOOLEAN, Input(imported)
      PROVE  DenialInv'
  BY <1>0, <1>23 DEF Input, DenialInv
<1>24. CASE UNCHANGED vars
  BY <1>0, <1>24 DEF vars, DenialInv
<1> QED
  BY <1>1, <1>2, <1>3, <1>4, <1>5, <1>6, <1>7, <1>8, <1>9, <1>10, <1>11, <1>12, <1>13,
     <1>14, <1>15, <1>16, <1>17, <1>18, <1>19, <1>20, <1>21, <1>22, <1>23, <1>24 DEF
     Next, Gates, Running, Shell

-----------------------------------------------------------------------------
(* The gates.  The repeat gate's record is what really ran, under the catalog's
   spelling, and the call the user is asked about has not run: nothing runs
   while the question is open. *)
GateInv ==
    /\ calls = ran
    /\ \A c \in ran : c = Canonical(c)
    /\ pc \in {"asking", "answered"}
         => job.call = Canonical(job.call) /\ job.call \notin ran
    /\ ~ inTurn => pc = "idle"

LEMMA GateInit == Init => GateInv
  BY DEF Init, GateInv

LEMMA GateStep == TypeOK /\ GateInv /\ [Next]_vars => GateInv'
<1> SUFFICES ASSUME TypeOK, GateInv, [Next]_vars PROVE GateInv'
  OBVIOUS
<1>0. FlagsOK /\ CountersOK /\ SetsOK /\ JobOK
  BY DEF TypeOK
<1>1. CASE RefuseCancelled
  BY <1>0, <1>1 DEF RefuseCancelled, Received, Spend, Return, GateInv
<1>2. CASE Malformed
  BY <1>0, <1>2 DEF Malformed, Passes, Received, Spend, Return, GateInv
<1>3. ASSUME NEW c \in Call, Repeated(c)
      PROVE  GateInv'
  BY <1>0, <1>3 DEF Repeated, Passes, Received, Spend, Return, GateInv
<1>4. ASSUME NEW c \in Call, DeniedBefore(c)
      PROVE  GateInv'
  BY <1>0, <1>4 DEF DeniedBefore, IsNew, Passes, Received, Spend, Return, GateInv
<1>5. ASSUME NEW c \in Call, Ask(c)
      PROVE  GateInv'
  <2>1. job'.call = Canonical(c) /\ Canonical(job'.call) = job'.call
    BY <1>5, CanonicalIs DEF Ask, JobFor
  <2> QED
    BY <1>5, <2>1 DEF Ask, IsNew, Passes, Received, GateInv
<1>6. ASSUME NEW c \in Call, RunUnasked(c)
      PROVE  GateInv'
  <2>1. Canonical(c) \in Call /\ Canonical(Canonical(c)) = Canonical(c)
    BY CanonicalCall, CanonicalIs
  <2>2. ran' = ran \union {Canonical(c)}
    BY <1>6, <2>1, CanonicalIs DEF RunUnasked, Start
  <2> QED
    BY <1>6, <2>1, <2>2 DEF RunUnasked, Start, IsNew, Passes, Received, GateInv
<1>7. ASSUME NEW yes \in BOOLEAN, Answer(yes)
      PROVE  GateInv'
  BY <1>0, <1>7 DEF Answer, GateInv
<1>8. CASE RunAllowed
  <2>1. job.call \in Call /\ job.call = Canonical(job.call)
    BY <1>0, <1>8, JobCall DEF RunAllowed, GateInv
  <2>2. ran' = ran \union {job.call}
    BY <1>8, <2>1, CanonicalIs DEF RunAllowed, Start
  <2> QED
    BY <1>8, <2>1, <2>2 DEF RunAllowed, Start, GateInv
<1>9. CASE Denied
  BY <1>0, <1>9 DEF Denied, Return, GateInv
<1>10. CASE WorkerActs
  BY <1>0, <1>10 DEF WorkerActs, Watching, GateInv
<1>11. CASE WorkerPanics
  BY <1>0, <1>11 DEF WorkerPanics, Watching, Lost, Return, GateInv
<1>12. CASE Tell
  BY <1>0, <1>12 DEF Tell, GateInv
<1>13. CASE Abandon
  BY <1>0, <1>13 DEF Abandon, Lost, Return, GateInv
<1>14. ASSUME NEW state \in ToolStates, NEW own \in BOOLEAN, WorkerReturns(state, own)
      PROVE  GateInv'
  BY <1>0, <1>14 DEF WorkerReturns, Watching, Honest, Succeeded, Return, GateInv
<1>15. ASSUME NEW w \in strays, StrayActs(w)
      PROVE  GateInv'
  BY <1>0, <1>15 DEF StrayActs, GateInv
<1>16. ASSUME NEW w \in strays, StrayEnds(w)
      PROVE  GateInv'
  BY <1>0, <1>16 DEF StrayEnds, GateInv
<1>17. CASE NewTurn
  BY <1>0, <1>17 DEF NewTurn, TurnBegins, Spend, GateInv
<1>18. CASE TurnEnds
  BY <1>0, <1>18 DEF TurnEnds, GateInv
<1>19. CASE Stop
  BY <1>0, <1>19 DEF Stop, Spend, GateInv
<1>20. CASE Cancel
  BY <1>0, <1>20 DEF Cancel, Spend, GateInv
<1>21. CASE Refresh
  BY <1>0, <1>21 DEF Refresh, FreshExecutor, Spend, GateInv
<1>22. CASE ResetChat
  BY <1>0, <1>22 DEF ResetChat, Spend, GateInv
<1>23. ASSUME NEW imported \in BOOLEAN, Input(imported)
      PROVE  GateInv'
  BY <1>0, <1>23 DEF Input, GateInv
<1>24. CASE UNCHANGED vars
  BY <1>0, <1>24 DEF vars, GateInv
<1> QED
  BY <1>1, <1>2, <1>3, <1>4, <1>5, <1>6, <1>7, <1>8, <1>9, <1>10, <1>11, <1>12, <1>13,
     <1>14, <1>15, <1>16, <1>17, <1>18, <1>19, <1>20, <1>21, <1>22, <1>23, <1>24 DEF
     Next, Gates, Running, Shell

-----------------------------------------------------------------------------
(* The theorems the invariants were made for *)

\* One action asks the user.
LEMMA OnlyAskAsks ==
    TypeOK /\ [Next]_vars => (Asks => \E k \in Call : Ask(k))
<1> SUFFICES ASSUME TypeOK, [Next]_vars
             PROVE  (Asks => \E k \in Call : Ask(k))
  OBVIOUS
<1>0. FlagsOK /\ CountersOK /\ SetsOK /\ JobOK
  BY DEF TypeOK
<1>1. CASE RefuseCancelled
  BY <1>1 DEF RefuseCancelled, Received, Spend, Return, Asks
<1>2. CASE Malformed
  BY <1>2 DEF Malformed, Passes, Received, Spend, Return, Asks
<1>3. ASSUME NEW c \in Call, Repeated(c)
      PROVE  (Asks => \E k \in Call : Ask(k))
  BY <1>3 DEF Repeated, Passes, Received, Spend, Return, Asks
<1>4. ASSUME NEW c \in Call, DeniedBefore(c)
      PROVE  (Asks => \E k \in Call : Ask(k))
  BY <1>4 DEF DeniedBefore, IsNew, Passes, Received, Spend, Return, Asks
<1>5. ASSUME NEW c \in Call, Ask(c)
      PROVE  (Asks => \E k \in Call : Ask(k))
  BY <1>5 DEF Ask, IsNew, Passes, Received, Spend, Canonical, Asks
<1>6. ASSUME NEW c \in Call, RunUnasked(c)
      PROVE  (Asks => \E k \in Call : Ask(k))
  BY <1>6 DEF RunUnasked, IsNew, Passes, Received, Spend, Start, Canonical, Asks
<1>7. ASSUME NEW yes \in BOOLEAN, Answer(yes)
      PROVE  (Asks => \E k \in Call : Ask(k))
  BY <1>7 DEF Answer, Asks
<1>8. CASE RunAllowed
  BY <1>8 DEF RunAllowed, Start, Asks
<1>9. CASE Denied
  BY <1>9 DEF Denied, Return, Asks
<1>10. CASE WorkerActs
  BY <1>10 DEF WorkerActs, Watching, Asks
<1>11. CASE WorkerPanics
  BY <1>11 DEF WorkerPanics, Watching, Lost, Return, Asks
<1>12. CASE Tell
  BY <1>12 DEF Tell, Asks
<1>13. CASE Abandon
  BY <1>13 DEF Abandon, Lost, Return, Asks
<1>14. ASSUME NEW state \in ToolStates, NEW own \in BOOLEAN, WorkerReturns(state, own)
      PROVE  (Asks => \E k \in Call : Ask(k))
  BY <1>14 DEF WorkerReturns, Watching, Honest, Succeeded, Return, Asks
<1>15. ASSUME NEW w \in strays, StrayActs(w)
      PROVE  (Asks => \E k \in Call : Ask(k))
  BY <1>15 DEF StrayActs, Asks
<1>16. ASSUME NEW w \in strays, StrayEnds(w)
      PROVE  (Asks => \E k \in Call : Ask(k))
  BY <1>16 DEF StrayEnds, Asks
<1>17. CASE NewTurn
  BY <1>17 DEF NewTurn, TurnBegins, Spend, Asks
<1>18. CASE TurnEnds
  BY <1>18 DEF TurnEnds, Asks
<1>19. CASE Stop
  BY <1>19 DEF Stop, Spend, Asks
<1>20. CASE Cancel
  BY <1>20 DEF Cancel, Spend, Asks
<1>21. CASE Refresh
  BY <1>21 DEF Refresh, FreshExecutor, Spend, Asks
<1>22. CASE ResetChat
  BY <1>22 DEF ResetChat, Spend, Asks
<1>23. ASSUME NEW imported \in BOOLEAN, Input(imported)
      PROVE  (Asks => \E k \in Call : Ask(k))
  BY <1>23 DEF Input, Asks
<1>24. CASE UNCHANGED vars
  BY <1>24 DEF vars, Asks
<1> QED
  BY <1>1, <1>2, <1>3, <1>4, <1>5, <1>6, <1>7, <1>8, <1>9, <1>10, <1>11, <1>12, <1>13,
     <1>14, <1>15, <1>16, <1>17, <1>18, <1>19, <1>20, <1>21, <1>22, <1>23, <1>24 DEF
     Next, Gates, Running, Shell

\* A question settled by an earlier "no" has that "no"'s key.
LEMMA SettledMeansDenied ==
    ASSUME NEW c \in Call, NEW r \in [call : Call, why : Reasons],
           SettledBy(r, Canonical(c), Why(c))
    PROVE  DenialKey(r.call, r.why) = DenialKey(c, Why(c))
  BY CanonicalIs DEF SettledBy, DenialKey

LEMMA DeniedStep ==
    TypeOK /\ DenialInv /\ [Next]_vars
        => [Asks => \A r \in refused : ~ SettledBy(r, job'.call, job'.why)]_vars
<1> SUFFICES ASSUME TypeOK, DenialInv, [Next]_vars, Asks,
                    NEW r \in refused, SettledBy(r, job'.call, job'.why)
             PROVE  FALSE
  OBVIOUS
<1>1. PICK c \in Call : Ask(c)
  BY OnlyAskAsks
<1>2. job'.call = Canonical(c) /\ job'.why = Why(c)
  BY <1>1 DEF Ask, JobFor
<1>3. r \in [call : Call, why : Reasons]
  BY DEF TypeOK, SetsOK
<1>4. DenialKey(r.call, r.why) = DenialKey(c, Why(c))
  BY <1>2, <1>3, SettledMeansDenied
<1>5. DenialKey(r.call, r.why) \in denied
  BY DEF DenialInv, Asks
<1> QED
  BY <1>1, <1>4, <1>5 DEF Ask

\* A channel or a command the user has refused is never asked about again in
\* the session, whatever arguments and spelling the model tries.
THEOREM DenialKept == Spec => DeniedStaysDenied
<1>1. Init => TypeOK /\ DenialInv
  BY TypeInit, DenialInit
<1>2. TypeOK /\ DenialInv /\ [Next]_vars => TypeOK' /\ DenialInv'
  BY TypeStep, DenialStep
<1> QED
  BY <1>1, <1>2, DeniedStep, PTL DEF Spec, DeniedStaysDenied

\* In a stopped turn every start is that of an answered call.
LEMMA StartsAfterStop ==
    TypeOK /\ StopInv /\ [Next]_vars => (Starts /\ stopSaid => pc = "answered" /\ job.said)
<1> SUFFICES ASSUME TypeOK, StopInv, [Next]_vars
             PROVE  (Starts /\ stopSaid => pc = "answered" /\ job.said)
  OBVIOUS
<1>0. FlagsOK /\ CountersOK /\ SetsOK /\ JobOK
  BY DEF TypeOK
<1>1. CASE RefuseCancelled
  BY <1>1 DEF RefuseCancelled, Received, Spend, Return, Starts, StopInv
<1>2. CASE Malformed
  BY <1>2 DEF Malformed, Passes, Received, Spend, Return, Starts, StopInv
<1>3. ASSUME NEW c \in Call, Repeated(c)
      PROVE  (Starts /\ stopSaid => pc = "answered" /\ job.said)
  BY <1>3 DEF Repeated, Passes, Received, Spend, Return, Starts, StopInv
<1>4. ASSUME NEW c \in Call, DeniedBefore(c)
      PROVE  (Starts /\ stopSaid => pc = "answered" /\ job.said)
  BY <1>4 DEF DeniedBefore, IsNew, Passes, Received, Spend, Return, Starts, StopInv
<1>5. ASSUME NEW c \in Call, Ask(c)
      PROVE  (Starts /\ stopSaid => pc = "answered" /\ job.said)
  BY <1>5 DEF Ask, IsNew, Passes, Received, Spend, Canonical, Starts, StopInv
<1>6. ASSUME NEW c \in Call, RunUnasked(c)
      PROVE  (Starts /\ stopSaid => pc = "answered" /\ job.said)
  BY <1>6 DEF RunUnasked, IsNew, Passes, Received, Spend, Start, Canonical, Starts,
     StopInv
<1>7. ASSUME NEW yes \in BOOLEAN, Answer(yes)
      PROVE  (Starts /\ stopSaid => pc = "answered" /\ job.said)
  BY <1>7 DEF Answer, Starts, StopInv
<1>8. CASE RunAllowed
  BY <1>8 DEF RunAllowed, Start, Starts, StopInv
<1>9. CASE Denied
  BY <1>9 DEF Denied, Return, Starts, StopInv
<1>10. CASE WorkerActs
  BY <1>10 DEF WorkerActs, Watching, Starts, StopInv
<1>11. CASE WorkerPanics
  BY <1>11 DEF WorkerPanics, Watching, Lost, Return, Starts, StopInv
<1>12. CASE Tell
  BY <1>12 DEF Tell, Starts, StopInv
<1>13. CASE Abandon
  BY <1>13 DEF Abandon, Lost, Return, Starts, StopInv
<1>14. ASSUME NEW state \in ToolStates, NEW own \in BOOLEAN, WorkerReturns(state, own)
      PROVE  (Starts /\ stopSaid => pc = "answered" /\ job.said)
  BY <1>14 DEF WorkerReturns, Watching, Honest, Succeeded, Return, Starts, StopInv
<1>15. ASSUME NEW w \in strays, StrayActs(w)
      PROVE  (Starts /\ stopSaid => pc = "answered" /\ job.said)
  BY <1>15 DEF StrayActs, Starts, StopInv
<1>16. ASSUME NEW w \in strays, StrayEnds(w)
      PROVE  (Starts /\ stopSaid => pc = "answered" /\ job.said)
  BY <1>16 DEF StrayEnds, Starts, StopInv
<1>17. CASE NewTurn
  BY <1>17 DEF NewTurn, TurnBegins, Spend, Starts, StopInv
<1>18. CASE TurnEnds
  BY <1>18 DEF TurnEnds, Starts, StopInv
<1>19. CASE Stop
  BY <1>19 DEF Stop, Spend, Starts, StopInv
<1>20. CASE Cancel
  BY <1>20 DEF Cancel, Spend, Starts, StopInv
<1>21. CASE Refresh
  BY <1>21 DEF Refresh, FreshExecutor, Spend, Starts, StopInv
<1>22. CASE ResetChat
  BY <1>22 DEF ResetChat, Spend, Starts, StopInv
<1>23. ASSUME NEW imported \in BOOLEAN, Input(imported)
      PROVE  (Starts /\ stopSaid => pc = "answered" /\ job.said)
  BY <1>23 DEF Input, Starts, StopInv
<1>24. CASE UNCHANGED vars
  BY <1>24 DEF vars, Starts, StopInv
<1> QED
  BY <1>1, <1>2, <1>3, <1>4, <1>5, <1>6, <1>7, <1>8, <1>9, <1>10, <1>11, <1>12, <1>13,
     <1>14, <1>15, <1>16, <1>17, <1>18, <1>19, <1>20, <1>21, <1>22, <1>23, <1>24 DEF
     Next, Gates, Running, Shell

LEMMA StopAlways == Spec => [](TypeOK /\ StopInv)
<1>1. Init => TypeOK /\ StopInv
  BY TypeInit, StopInit
<1>2. TypeOK /\ StopInv /\ [Next]_vars => (TypeOK /\ StopInv)'
  BY TypeStep, StopStep
<1>3. TypeOK /\ StopInv /\ UNCHANGED vars => (TypeOK /\ StopInv)'
  BY <1>2
<1> QED
  BY <1>1, <1>2, <1>3, PTL DEF Spec

\* A turn is told it was cancelled only if it was: the stop of one turn, and
\* the deadline of one call, end there.
THEOREM StopKept == Spec => []StopBindsOneTurn
<1>1. StopInv => StopBindsOneTurn
  BY DEF StopInv
<1> QED
  BY <1>1, StopAlways, PTL

\* After a stop nothing starts in the turn but a call the user was being asked
\* about and has allowed.
THEOREM StopHonoured == Spec => OnlyTheAskedCallOutrunsStop
<1>1. TypeOK /\ StopInv /\ [Next]_vars
        => [Starts /\ stopSaid => pc = "answered" /\ job.said]_vars
  BY StartsAfterStop
<1> QED
  BY <1>1, StopAlways, PTL DEF Spec, OnlyTheAskedCallOutrunsStop

LEMMA RetryInvEnough == RetryInv => NoRetryAfterChange
  BY DEF RetryInv, NoRetryAfterChange, Watching

\* An outcome never invites a retry of a turn whose calls changed something, unless
\* that was the doing of a tool that then said itself that it failed.
THEOREM RetrySafe == Spec => []NoRetryAfterChange
<1>1. Init => TypeOK /\ RetryInv
  BY TypeInit, RetryInit
<1>2. TypeOK /\ RetryInv /\ [Next]_vars => TypeOK' /\ RetryInv'
  BY TypeStep, RetryStep
<1> QED
  BY <1>1, <1>2, RetryInvEnough, PTL DEF Spec

LEMMA GuardInit == Init => Guarded!Init
  BY DEF Init, Guarded!Init, Allowed

\* Every step of the executor is a step of the promise, or none.
LEMMA GuardStep ==
    TypeOK /\ GateInv /\ TaintNeverForgotten /\ [Next]_vars => [Guarded!Next]_(Guarded!vars)
<1> SUFFICES ASSUME TypeOK, GateInv, TaintNeverForgotten, [Next]_vars
             PROVE  [Guarded!Next]_(Guarded!vars)
  OBVIOUS
<1>0. FlagsOK /\ CountersOK /\ SetsOK /\ JobOK
  BY DEF TypeOK
<1>1. CASE RefuseCancelled
  BY <1>1 DEF RefuseCancelled, Received, Spend, Return, Allowed, Guarded!vars
<1>2. CASE Malformed
  BY <1>2 DEF Malformed, Passes, Received, Spend, Return, Allowed, Guarded!vars
<1>3. ASSUME NEW c \in Call, Repeated(c)
      PROVE  [Guarded!Next]_(Guarded!vars)
  BY <1>3 DEF Repeated, Passes, Received, Spend, Return, Allowed, Guarded!vars
<1>4. ASSUME NEW c \in Call, DeniedBefore(c)
      PROVE  [Guarded!Next]_(Guarded!vars)
  BY <1>4 DEF DeniedBefore, IsNew, Passes, Received, Spend, Return, Allowed,
     Guarded!vars
<1>5. ASSUME NEW c \in Call, Ask(c)
      PROVE  [Guarded!Next]_(Guarded!vars)
  BY <1>5 DEF Ask, IsNew, Passes, Received, Spend, Canonical, Allowed, Guarded!vars
<1>6. ASSUME NEW c \in Call, RunUnasked(c)
      PROVE  [Guarded!Next]_(Guarded!vars)
  <2>1. /\ Canonical(c) \in Call /\ Canonical(c).tool = c.tool
        /\ Canonical(Canonical(c)) = Canonical(c)
    BY CanonicalCall, CanonicalIs
  <2>2. ran' = ran \union {Canonical(c)}
    BY <1>6, <2>1, CanonicalIs DEF RunUnasked, Start
  <2>3. Canonical(c) \notin ran
    BY <1>6 DEF RunUnasked, IsNew, GateInv
  <2>4. ~ Guarded!NeedsTheUser(Canonical(c))
    BY <1>6, <2>1 DEF RunUnasked, Why, Guarded!NeedsTheUser, TaintNeverForgotten,
       Canonical
  <2>5. /\ Allowed = {} /\ Allowed' = {}
        /\ UNCHANGED <<personal, outside>>
    BY <1>6 DEF RunUnasked, IsNew, Passes, Received, Start, Allowed
  <2>6. Guarded!Run(Canonical(c))
    BY <2>2, <2>3, <2>4, <2>5 DEF Guarded!Run
  <2> QED
    BY <2>1, <2>6 DEF Guarded!Next
<1>7. ASSUME NEW yes \in BOOLEAN, Answer(yes)
      PROVE  [Guarded!Next]_(Guarded!vars)
  <2>1. job.call \in Call
    BY <1>0, <1>7, JobCall DEF Answer
  <2>2. job'.call = job.call /\ job'.said = yes
    BY <1>0, <1>7 DEF JobOK, Job, Answer
  <2> QED
    BY <1>7, <2>1, <2>2 DEF Answer, Allowed, Guarded!vars, Guarded!Next, Guarded!Allow
<1>8. CASE RunAllowed
  <2>1. job.call \in Call /\ job.call = Canonical(job.call) /\ job.call \notin ran
    BY <1>0, <1>8, JobCall DEF RunAllowed, GateInv
  <2>2. ran' = ran \union {job.call}
    BY <1>8, <2>1, CanonicalIs DEF RunAllowed, Start
  <2>3. /\ job.call \in Allowed /\ Allowed' = {}
        /\ UNCHANGED <<personal, outside>>
    BY <1>8 DEF RunAllowed, Start, Allowed
  <2>4. Guarded!Run(job.call)
    BY <2>1, <2>2, <2>3 DEF Guarded!Run
  <2> QED
    BY <2>1, <2>4 DEF Guarded!Next
<1>9. CASE Denied
  BY <1>9 DEF Denied, Return, Allowed, Guarded!vars
<1>10. CASE WorkerActs
  BY <1>10 DEF WorkerActs, Watching, Allowed, Guarded!vars
<1>11. CASE WorkerPanics
  BY <1>11 DEF WorkerPanics, Watching, Lost, Return, Allowed, Guarded!vars
<1>12. CASE Tell
  BY <1>12 DEF Tell, Allowed, Guarded!vars
<1>13. CASE Abandon
  BY <1>13 DEF Abandon, Lost, Return, Allowed, Guarded!vars
<1>14. ASSUME NEW state \in ToolStates, NEW own \in BOOLEAN, WorkerReturns(state, own)
      PROVE  [Guarded!Next]_(Guarded!vars)
  <2>1. personal' \in {personal, TRUE} /\ outside' \in {outside, TRUE}
    BY <1>0, <1>14 DEF WorkerReturns, FlagsOK
  <2>2. Allowed = {} /\ Allowed' = {} /\ ran' = ran
    BY <1>14 DEF WorkerReturns, Watching, Return, Allowed
  <2> QED
    BY <2>1, <2>2 DEF Guarded!Next, Guarded!Learn
<1>15. ASSUME NEW w \in strays, StrayActs(w)
      PROVE  [Guarded!Next]_(Guarded!vars)
  BY <1>15 DEF StrayActs, Allowed, Guarded!vars
<1>16. ASSUME NEW w \in strays, StrayEnds(w)
      PROVE  [Guarded!Next]_(Guarded!vars)
  BY <1>16 DEF StrayEnds, Allowed, Guarded!vars
<1>17. CASE NewTurn
  <2>1. Allowed = {} /\ Allowed' = {} /\ ran' = {} /\ UNCHANGED <<personal, outside>>
    BY <1>17 DEF NewTurn, TurnBegins, GateInv, Allowed
  <2> QED
    BY <2>1 DEF Guarded!Next, Guarded!NewTurn
<1>18. CASE TurnEnds
  BY <1>18 DEF TurnEnds, Allowed, Guarded!vars
<1>19. CASE Stop
  BY <1>19 DEF Stop, Spend, Allowed, Guarded!vars
<1>20. CASE Cancel
  BY <1>20 DEF Cancel, Spend, Allowed, Guarded!vars
<1>21. CASE Refresh
  <2>1. Allowed = {} /\ Allowed' = {} /\ ran' = {} /\ UNCHANGED <<personal, outside>>
    BY <1>21 DEF Refresh, FreshExecutor, GateInv, Allowed
  <2> QED
    BY <2>1 DEF Guarded!Next, Guarded!NewTurn
<1>22. CASE ResetChat
  <2>1. /\ Allowed = {} /\ Allowed' = {} /\ ran' = {}
        /\ personal' = FALSE /\ outside' = FALSE
    BY <1>22 DEF ResetChat, GateInv, Allowed
  <2> QED
    BY <2>1 DEF Guarded!Next, Guarded!Forget
<1>23. ASSUME NEW imported \in BOOLEAN, Input(imported)
      PROVE  [Guarded!Next]_(Guarded!vars)
  <2>1. personal' \in {personal, TRUE} /\ outside' \in {outside, TRUE}
    BY <1>0, <1>23 DEF Input, FlagsOK
  <2>2. Allowed = {} /\ Allowed' = {} /\ ran' = ran
    BY <1>23 DEF Input, Allowed
  <2> QED
    BY <2>1, <2>2 DEF Guarded!Next, Guarded!Learn
<1>24. CASE UNCHANGED vars
  BY <1>24 DEF vars, Allowed, Guarded!vars
<1> QED
  BY <1>1, <1>2, <1>3, <1>4, <1>5, <1>6, <1>7, <1>8, <1>9, <1>10, <1>11, <1>12, <1>13,
     <1>14, <1>15, <1>16, <1>17, <1>18, <1>19, <1>20, <1>21, <1>22, <1>23, <1>24 DEF
     Next, Gates, Running, Shell

\* The executor implements GuardedCalls, for any set of tools: no call runs
\* twice in a turn, and none runs unasked that needs the user.
THEOREM GatesHold == Spec => ImplementsGuardedCalls
<1>1. Init => TypeOK /\ GateInv /\ TaintNeverForgotten
  BY TypeInit, GateInit, TaintInit
<1>2. TypeOK /\ GateInv /\ TaintNeverForgotten /\ [Next]_vars
        => TypeOK' /\ GateInv' /\ TaintNeverForgotten'
  BY TypeStep, GateStep, TaintStep
<1> QED
  BY <1>1, <1>2, GuardInit, GuardStep, PTL DEF Spec, ImplementsGuardedCalls,
     Guarded!Spec

=============================================================================
