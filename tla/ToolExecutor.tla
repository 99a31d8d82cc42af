---------------------------- MODULE ToolExecutor ----------------------------
(***************************************************************************)
(* The crossing point between the model's output and a tool                *)
(* (crates/tacet-tools/src/executor.rs), with the context tools share      *)
(* (crates/tacet-kernel/src/context.rs) and what the shell does to both    *)
(* between turns (crates/tacet-cli/src/chat.rs, main.rs).                  *)
(*                                                                         *)
(* A call passes the gates in one step of the executor's thread, except    *)
(* that it may wait for the user's answer; then it runs on a worker thread *)
(* while the executor watches for its end, the user's stop and the         *)
(* deadline.  A worker that does not stop is abandoned and goes on.        *)
(*                                                                         *)
(* A call is a tool, its arguments and whether the model spelled the name  *)
(* as the catalog does; an argument list is a value.  What a worker does   *)
(* is one bit: whether it has changed the world.                           *)
(***************************************************************************)
EXTENDS Naturals, FiniteSets

CONSTANTS
    Tools, Args,
    NoTool, AnyArgs,    \* no call, and a denial that covers every argument
    Personal,           \* taints_session
    Outside,            \* external_content
    Acting,             \* acts_on_host
    Asking,             \* always_asks
    External,           \* external_tools
    Writers,            \* the tools that may change the world
    Partial,            \* those that may have, and still return Failed
    Limits              \* how often each bounded thing happens in a behaviour

Bounded == {"turn", "call", "stop", "refresh"}

ASSUME ToolsAssumption ==
    /\ NoTool \notin Tools /\ AnyArgs \notin Args
    /\ Personal \subseteq Tools /\ Outside \subseteq Tools /\ Acting \subseteq Tools
    /\ Asking \subseteq Tools /\ External \subseteq Tools
    /\ Partial \subseteq Writers /\ Writers \subseteq Tools
ASSUME LimitsAssumption == Limits \in [Bounded -> Nat]

VARIABLES
    tainted, outsideSeen,       \* the executor's session flags
    ctxTainted, ctxOutside,     \* the context's
    worldChanged,               \* turn scoped, sticky
    calls,                      \* turn_calls: what has run in this turn
    denied,                     \* the denials kept for the session
    turn, cancelled,            \* the turn's number, and the one cancelled
    stop,                       \* CANCEL, which the context's token watches
    inTurn,                     \* whether the shell is in a turn
    pc, job,                    \* where the executor's thread is, and its call
    strays,                     \* abandoned workers still running
    last,                       \* the last outcome of this turn
    left,                       \* what remains of Limits
    \* History, by what really happened:
    personal, outside,          \* personal data, outside text, in the context
    ran,                        \* the calls a worker was started for this turn
    changed,                    \* whether this turn's calls changed the world,
                                \* but for one whose own tool says it failed
    stopSaid,                   \* whether this turn was told to stop
    refused                     \* what the user has said no to

flags == <<tainted, outsideSeen, ctxTainted, ctxOutside, personal, outside>>
turnVars == <<turn, cancelled, stop, inTurn, stopSaid>>
record == <<worldChanged, calls, ran, changed>>
vars == <<flags, turnVars, record, denied, refused, pc, job, strays, last, left>>

-----------------------------------------------------------------------------
(* Calls, questions and outcomes *)

Call == [tool : Tools, args : Args, exact : BOOLEAN]

NoCall == [tool |-> NoTool, args |-> AnyArgs, exact |-> TRUE]

\* Variant: the gates see the model's spelling.
AsSpelled(c) == c

\* The call under the catalog's spelling of its tool, which `find` forgives.
Canonical(c) == [tool |-> c.tool, args |-> c.args, exact |-> TRUE]

Reasons == {"none", "outbound", "outside", "configured"}

\* byUser: "stop" was said by the user, not by the deadline.
Job == [call : Call \union {NoCall}, why : Reasons, said : BOOLEAN,
        acted : BOOLEAN, byUser : BOOLEAN]

JobFor(c, why) == [call |-> c, why |-> why, said |-> FALSE,
                   acted |-> FALSE, byUser |-> FALSE]

NoJob == JobFor(NoCall, "none")

Stray == [call : Call, acted : BOOLEAN, now : BOOLEAN]

\* A worker whose call was made in an earlier turn.
Earlier(w) == [w EXCEPT !.now = FALSE]

Endings == {"none", "ok", "malformed", "failed", "denied", "cancelled", "repeated"}

Outcome == [reason : Endings, retryable : BOOLEAN]

NoOutcome == [reason |-> "none", retryable |-> TRUE]

IsError(o) == o.reason \in {"malformed", "failed"}

IsCancelled == cancelled = turn \/ stop

\* Why the user is asked before call c, if at all.
Why(c) ==
    LET k == Canonical(c) IN
    IF k.exact /\ k.tool \in External /\ tainted THEN "outbound"
    ELSE IF k.tool \in Acting /\ (outsideSeen \/ ctxOutside) THEN "outside"
    ELSE IF k.tool \in Asking THEN "configured" ELSE "none"

\* What a "no" covers: the channel, or the exact call.
DenialKey(c, why) ==
    [tool |-> c.tool, args |-> IF why = "outbound" THEN AnyArgs ELSE c.args]

DenialKeys == [tool : Tools, args : Args \union {AnyArgs}]

-----------------------------------------------------------------------------
Init ==
    /\ tainted = FALSE /\ outsideSeen = FALSE
    /\ ctxTainted = FALSE /\ ctxOutside = FALSE
    /\ worldChanged = FALSE
    /\ calls = {} /\ denied = {} /\ strays = {}
    /\ turn = 1 /\ cancelled = 0
    /\ stop = FALSE /\ inTurn = FALSE
    /\ pc = "idle" /\ job = NoJob
    /\ last = NoOutcome
    /\ left = Limits
    /\ personal = FALSE /\ outside = FALSE
    /\ ran = {} /\ changed = FALSE /\ stopSaid = FALSE /\ refused = {}

Spend(what) ==
    /\ left[what] > 0
    /\ left' = [left EXCEPT ![what] = @ - 1]

\* The call is over; `retryable` is about the whole turn.
Return(reason) ==
    /\ pc' = "idle"
    /\ job' = NoJob
    /\ last' = [reason |-> reason, retryable |-> ~ worldChanged']

-----------------------------------------------------------------------------
(* The gates *)

Received == pc = "idle" /\ inTurn /\ Spend("call")

\* Gate 4: a call of a cancelled turn.
RefuseCancelled ==
    /\ Received
    /\ IsCancelled
    /\ UNCHANGED <<flags, turnVars, record, denied, refused, strays>>
    /\ Return("cancelled")

\* Variant: no cancellation gate.
PassesTheStop == Received

Passes == Received /\ ~ IsCancelled

\* Gates 1 and 2: no such tool, or arguments that do not fit its schema.
Malformed ==
    /\ Passes
    /\ UNCHANGED <<flags, turnVars, record, denied, refused, strays>>
    /\ Return("malformed")

\* Gate 5: the same call a second time in the turn.
Repeated(c) ==
    /\ Passes
    /\ Canonical(c) \in calls
    /\ UNCHANGED <<flags, turnVars, record, denied, refused, strays>>
    /\ Return("repeated")

IsNew(c) == Passes /\ Canonical(c) \notin calls

\* Gate 3 answers for the user what the user has refused before.
DeniedBefore(c) ==
    /\ IsNew(c)
    /\ Why(c) # "none"
    /\ DenialKey(c, Why(c)) \in denied
    /\ UNCHANGED <<flags, turnVars, record, denied, refused, strays>>
    /\ Return("denied")

Ask(c) ==
    /\ IsNew(c)
    /\ Why(c) # "none"
    /\ DenialKey(c, Why(c)) \notin denied
    /\ pc' = "asking"
    /\ job' = JobFor(Canonical(c), Why(c))
    /\ UNCHANGED <<flags, turnVars, record, denied, refused, strays, last>>

\* The call is recorded and its worker started.
Start(c) ==
    /\ calls' = calls \union {c}
    /\ ran' = ran \union {[tool |-> c.tool, args |-> c.args, exact |-> TRUE]}
    /\ pc' = "running"
    /\ UNCHANGED <<flags, turnVars, worldChanged, changed, denied, strays, last>>

RunUnasked(c) ==
    /\ IsNew(c)
    /\ Why(c) = "none"
    /\ job' = JobFor(Canonical(c), "none")
    /\ Start(Canonical(c))
    /\ UNCHANGED refused

\* The user answers, or there is nobody to ask and the answer is no.
Answer(yes) ==
    /\ pc = "asking"
    /\ pc' = "answered"
    /\ job' = [job EXCEPT !.said = yes]
    /\ refused' = IF yes THEN refused
                  ELSE refused \union {[call |-> job.call, why |-> job.why]}
    /\ UNCHANGED <<flags, turnVars, record, denied, strays, last, left>>

RunAllowed ==
    /\ pc = "answered" /\ job.said
    /\ job' = job
    /\ Start(job.call)
    /\ UNCHANGED <<refused, left>>

\* Variant: the "no" is not remembered.
DeniedForgotten ==
    /\ pc = "answered" /\ ~ job.said
    /\ UNCHANGED <<flags, turnVars, record, denied, refused, strays, left>>
    /\ Return("denied")

Denied ==
    /\ pc = "answered" /\ ~ job.said
    /\ denied' = denied \union {DenialKey(job.call, job.why)}
    /\ UNCHANGED <<flags, turnVars, record, refused, strays, left>>
    /\ Return("denied")

-----------------------------------------------------------------------------
(* `run_guarded`: the worker and the thread that watches it *)

Watching == pc \in {"running", "stopping"}

WorkerActs ==
    /\ Watching
    /\ job.call.tool \in Writers /\ ~ job.acted
    /\ job' = [job EXCEPT !.acted = TRUE]
    /\ UNCHANGED <<flags, turnVars, record, denied, refused, pc, strays, last, left>>

\* A tool calls what it did Written when it changed the world, and a tool that
\* is stopped half way may call it Failed.
Honest(state) ==
    /\ state = "written" => job.call.tool \in Writers
    /\ state = "permission" => job.call.tool \in Acting
    /\ job.acted =>
        \/ state = "written"
        \/ state = "failed" /\ job.call.tool \in Partial

Succeeded(state) == state \in {"read", "written"}

\* The worker's outcome in time or within the grace; own: the tool has tainted
\* its copy of the context itself, which comes back through `absorb`.
WorkerReturns(state, own) ==
    LET reads == Succeeded(state) /\ job.call.tool \in Personal
        brings == Succeeded(state) /\ job.call.tool \in Outside
    IN
    /\ Watching
    /\ Honest(state)
    /\ own => job.call.tool \in Personal
    /\ worldChanged' = (worldChanged \/ state = "written")
    /\ changed' = (changed \/ (job.acted /\ state # "failed"))
    /\ tainted' = (tainted \/ reads)
    /\ ctxTainted' = (ctxTainted \/ own \/ state = "written" \/ reads)
    /\ outsideSeen' = (outsideSeen \/ brings)
    /\ ctxOutside' = (ctxOutside \/ brings)
    /\ personal' = (personal \/ (reads /\ ~ IsCancelled))
    /\ outside' = (outside \/ (brings /\ ~ IsCancelled))
    /\ Return(IF IsCancelled THEN "cancelled"
              ELSE CASE state = "failed"     -> "failed"
                     [] state = "permission" -> "denied"
                     [] OTHER                -> "ok")
    /\ UNCHANGED <<turnVars, calls, ran, denied, refused, strays, left>>

\* Variant: a call that never came back is taken to have done nothing.
LostHarmless(reason) ==
    /\ worldChanged' = worldChanged
    /\ Return(reason)
    /\ changed' = (changed \/ job.acted)
    /\ UNCHANGED <<flags, turnVars, calls, ran, denied, refused, left>>

\* `lost_call`: what the tool did is unknown, so the world is taken to be changed.
Lost(reason) ==
    /\ worldChanged' = TRUE
    /\ Return(reason)
    /\ changed' = (changed \/ job.acted)
    /\ UNCHANGED <<flags, turnVars, calls, ran, denied, refused, left>>

WorkerPanics ==
    /\ Watching
    /\ Lost("failed")
    /\ UNCHANGED strays

\* The turn was cancelled or the call's deadline has passed: its own token fires.
Tell ==
    /\ pc = "running"
    /\ pc' = "stopping"
    /\ job' = [job EXCEPT !.byUser = IsCancelled]
    /\ UNCHANGED <<flags, turnVars, record, denied, refused, strays, last, left>>

\* Variant: the executor waits for the worker however long it takes.
AbandonNot == FALSE /\ UNCHANGED vars

\* ABANDON_GRACE has passed.
Abandon ==
    /\ pc = "stopping"
    /\ strays' = strays \union {[call |-> job.call, acted |-> job.acted, now |-> TRUE]}
    /\ Lost(IF job.byUser THEN "cancelled" ELSE "failed")

StrayActs(w) ==
    /\ w.call.tool \in Writers /\ ~ w.acted
    /\ strays' = (strays \ {w}) \union {[w EXCEPT !.acted = TRUE]}
    /\ changed' = (changed \/ w.now)
    /\ UNCHANGED <<flags, turnVars, worldChanged, calls, ran, denied, refused, pc, job,
                   last, left>>

StrayEnds(w) ==
    /\ strays' = strays \ {w}
    /\ UNCHANGED <<flags, turnVars, record, denied, refused, pc, job, last, left>>

-----------------------------------------------------------------------------
(* The shell: turns, the user's stop, and what happens between turns *)

TurnBegins ==
    /\ ~ inTurn /\ inTurn' = TRUE
    /\ Spend("turn")
    /\ worldChanged' = FALSE
    /\ calls' = {}
    /\ turn' = turn + 1
    /\ ran' = {} /\ changed' = FALSE /\ stopSaid' = FALSE
    /\ strays' = {Earlier(w) : w \in strays}
    /\ last' = NoOutcome
    /\ UNCHANGED <<flags, cancelled, denied, refused, pc, job>>

\* `new_turn`, CANCEL cleared before it.
NewTurn == TurnBegins /\ stop' = FALSE

TurnEnds ==
    /\ inTurn /\ pc = "idle"
    /\ inTurn' = FALSE
    /\ UNCHANGED <<flags, turn, cancelled, stop, stopSaid, record, denied, refused, pc,
                   job, strays, last, left>>

\* Ctrl-C, at any moment of the turn: CANCEL.
Stop ==
    /\ inTurn /\ ~ stop
    /\ Spend("stop")
    /\ stop' = TRUE /\ stopSaid' = TRUE
    /\ UNCHANGED <<flags, turn, cancelled, inTurn, record, denied, refused, pc, job,
                   strays, last>>

\* `cancel`, from this thread between calls or from another.
Cancel ==
    /\ inTurn /\ cancelled # turn
    /\ Spend("stop")
    /\ cancelled' = turn /\ stopSaid' = TRUE
    /\ UNCHANGED <<flags, turn, stop, inTurn, record, denied, refused, pc, job,
                   strays, last>>

\* A pipe, a replayed session or a memory note puts the user's own data into
\* the prompt with no tool; imported: another agent's transcript does.
Input(imported) ==
    /\ pc = "idle"
    /\ imported => ~ inTurn
    /\ tainted' = TRUE /\ ctxTainted' = TRUE /\ personal' = TRUE
    /\ outsideSeen' = (outsideSeen \/ imported)
    /\ ctxOutside' = (ctxOutside \/ imported)
    /\ outside' = (outside \/ imported)
    /\ UNCHANGED <<turnVars, record, denied, refused, pc, job, strays, last, left>>

FreshExecutor ==
    /\ ~ inTurn
    /\ Spend("refresh")
    /\ worldChanged' = FALSE /\ calls' = {} /\ denied' = {} /\ refused' = {}
    /\ turn' = 1 /\ cancelled' = 0
    /\ ran' = {} /\ changed' = FALSE
    /\ strays' = {Earlier(w) : w \in strays}
    /\ UNCHANGED <<stop, inTurn, stopSaid, pc, job, last>>

\* Variant: the new executor keeps the taint alone.
RefreshTaintOnly ==
    FreshExecutor /\ outsideSeen' = FALSE
    /\ UNCHANGED <<tainted, ctxTainted, ctxOutside, personal, outside>>

\* An addon is switched on or off: a new executor, with the old one's flags.
Refresh == FreshExecutor /\ UNCHANGED flags

\* `reset_chat` of the executor and of the context.
ResetChat ==
    /\ ~ inTurn
    /\ Spend("refresh")
    /\ tainted' = FALSE /\ outsideSeen' = FALSE
    /\ ctxTainted' = FALSE /\ ctxOutside' = FALSE
    /\ personal' = FALSE /\ outside' = FALSE
    /\ worldChanged' = FALSE /\ calls' = {} /\ denied' = {} /\ refused' = {}
    /\ turn' = turn + 1
    /\ ran' = {} /\ changed' = FALSE
    /\ strays' = {Earlier(w) : w \in strays}
    /\ UNCHANGED <<cancelled, stop, inTurn, stopSaid, pc, job, last>>

-----------------------------------------------------------------------------
Gates(c) ==
    \/ Repeated(c) \/ DeniedBefore(c) \/ Ask(c) \/ RunUnasked(c)

ToolStates == {"read", "written", "failed", "permission"}

Running ==
    \/ RunAllowed \/ Denied
    \/ WorkerActs \/ WorkerPanics \/ Tell \/ Abandon
    \/ \E state \in ToolStates, own \in BOOLEAN : WorkerReturns(state, own)

Shell ==
    \/ NewTurn \/ TurnEnds \/ Stop \/ Cancel \/ Refresh \/ ResetChat
    \/ \E imported \in BOOLEAN : Input(imported)

Next ==
    \/ \E c \in Call : Gates(c)
    \/ RefuseCancelled \/ Malformed
    \/ \E yes \in BOOLEAN : Answer(yes)
    \/ Running
    \/ \E w \in strays : StrayActs(w) \/ StrayEnds(w)
    \/ Shell

Spec == Init /\ [][Next]_vars

\* The watching thread wakes every WATCH_TICK, and time passes; the worker may
\* never return and the user may never answer.
FairSpec == Spec /\ WF_vars(Tell) /\ WF_vars(Abandon)

-----------------------------------------------------------------------------
(* Properties *)

FlagsOK ==
    /\ tainted \in BOOLEAN /\ outsideSeen \in BOOLEAN
    /\ ctxTainted \in BOOLEAN /\ ctxOutside \in BOOLEAN
    /\ personal \in BOOLEAN /\ outside \in BOOLEAN
    /\ worldChanged \in BOOLEAN /\ changed \in BOOLEAN
    /\ stop \in BOOLEAN /\ inTurn \in BOOLEAN /\ stopSaid \in BOOLEAN

CountersOK == turn \in Nat /\ cancelled \in Nat /\ left \in [Bounded -> Nat]

SetsOK ==
    /\ calls \subseteq Call /\ ran \subseteq Call
    /\ denied \subseteq DenialKeys
    /\ refused \subseteq [call : Call, why : Reasons]
    /\ strays \subseteq Stray

JobOK ==
    /\ pc \in {"idle", "asking", "answered", "running", "stopping"}
    /\ job \in Job
    /\ pc = "idle" <=> job.call = NoCall

\* Every variable is of its type, and there is a job exactly while the executor
\* is busy with a call: a path that returns without clearing it, or a job left
\* behind by a lost worker, breaks this.
TypeOK == FlagsOK /\ CountersOK /\ SetsOK /\ JobOK /\ last \in Outcome

\* Once personal data or outside text is in the conversation the executor's
\* flags say so, whatever addon toggles, new turns and cancelled calls follow:
\* `session_tainted` and `external_content_seen` are what the approval gate reads.
TaintNeverForgotten ==
    /\ personal => tainted
    /\ outside => outsideSeen /\ ctxOutside

\* Whoever reads an outcome that invites a second attempt (`is_error` and
\* `retryable`) must not be in a turn whose calls have changed the world, by a
\* returned call, a panicked one or one abandoned and still running.  A command
\* that was stopped half way says itself that it failed and what that leaves
\* open; its own change does not count, those of the turn's other calls do.
NoRetryAfterChange ==
    pc = "idle" /\ IsError(last) /\ last.retryable => ~ changed

\* A turn is only ever told "cancelled" when this turn was stopped: not by the
\* last turn's stop, and not by the deadline of an earlier call, whose token is
\* its own child.
StopBindsOneTurn == last.reason = "cancelled" => stopSaid

Starts == pc \notin {"running", "stopping"} /\ pc' = "running"

Asks == pc = "idle" /\ pc' = "asking"

\* The question why2 about call c2 is settled by the "no" to r.
SettledBy(r, c2, why2) ==
    \/ r.why = "outbound" /\ why2 = "outbound" /\ r.call.tool = c2.tool
    \/ r.why # "outbound" /\ why2 # "outbound" /\ r.call = c2

\* The model cannot insist its way through the gate: a channel refused once is
\* not asked about again in the session, whatever the arguments and however the
\* name is spelled, and a refused command is not asked about again as it stands.
DeniedStaysDenied ==
    [][Asks => \A r \in refused : ~ SettledBy(r, job'.call, job'.why)]_vars

\* After the user has said stop, no tool starts in this turn but the one the
\* user was being asked about, and has allowed.
OnlyTheAskedCallOutrunsStop ==
    [][Starts /\ stopSaid => pc = "answered" /\ job.said]_vars

\* A running call ends, whatever its tool does: it returns, dies, or is
\* abandoned ABANDON_GRACE after its stop.
CallEnds == Watching ~> pc = "idle"

Allowed == IF pc = "answered" /\ job.said THEN {job.call} ELSE {}

Guarded == INSTANCE GuardedCalls WITH
    Calls <- Call, allowed <- Allowed,
    AsksPersonal <- {c \in Call : c.tool \in External},
    AsksOutside <- {c \in Call : c.tool \in Acting},
    AsksAlways <- {c \in Call : c.tool \in Asking}

\* The five gates keep the executor's promise: within a turn a call runs at most
\* once, and one that could send personal data out, act on the machine after
\* outside text, or is configured to ask, runs only as the user has allowed it.
ImplementsGuardedCalls == Guarded!Spec

=============================================================================
