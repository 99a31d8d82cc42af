------------------------------- MODULE DirLock -------------------------------
(***************************************************************************)
(* The append lock of the receipt log (`DirLock` and `take_over` in        *)
(* crates/tacet-cli/src/receipt.rs): a file created with create_new that   *)
(* holds a token of its own, and a second such file, the guard named after *)
(* that token, under which alone the lock is removed.                      *)
(*                                                                         *)
(* An appender is a thread of some session.  Every operation on a file is  *)
(* an action.  A token is the number of its acquisition; 0 stands for the  *)
(* empty text of a lock whose token is not written yet.  A file turns      *)
(* stale at once, and only when whoever made it is gone; the one living    *)
(* appender that may be slow is the one that holds the lock.               *)
(***************************************************************************)
EXTENDS Naturals

CONSTANTS
    Appenders,
    Limits          \* how often each bounded thing happens in a behaviour

\* A fault is an operation that fails or a holder that is slow.
Bounded == {"append", "crash", "fault", "touch"}

ASSUME LimitsAssumption == Limits \in [Bounded -> Nat]

VARIABLES
    lock,       \* receipts.lock
    guards,     \* receipts.lock.break.*
    pc,         \* where each appender is
    me,         \* its token, 0 when it is not appending
    seen,       \* the token it read in the lock, or its own when it lets go
    fresh,      \* the last token given
    left,       \* what remains of Limits
    upset       \* history: what the lock does not claim to withstand

fileVars == <<lock, guards>>
lockVars == <<lock, guards, pc, me, seen, fresh, left, upset>>

\* by: the acquisition that created it.  let: history, its holder has let go of
\* it and it is still there.
Lock == [on : BOOLEAN, by : Nat, token : Nat, stale : BOOLEAN, let : BOOLEAN]

LockBy(n) == [on |-> TRUE, by |-> n, token |-> 0, stale |-> FALSE, let |-> FALSE]

NoLock == [LockBy(0) EXCEPT !.on = FALSE]

Guard == [name : Nat, by : Nat, stale : BOOLEAN]

Guarding == {"checking", "breaking", "unguarding"}

Places == {"idle", "waiting", "creating", "held", "dropping", "judged", "taking",
           "clearing"} \union Guarding

\* What the comment on DirLock leaves open: a process that died holding a
\* guard, a holder slower than LOCK_STALE, and a purge of the lock in use.
Upsets == {"guard", "slow", "purge"}

LockInit ==
    /\ lock = NoLock /\ guards = {}
    /\ pc = [p \in Appenders |-> "idle"]
    /\ me = [p \in Appenders |-> 0]
    /\ seen = [p \in Appenders |-> 0]
    /\ fresh = 0
    /\ left = Limits
    /\ upset = {}

-----------------------------------------------------------------------------
Spend(what) ==
    /\ left[what] > 0
    /\ left' = [left EXCEPT ![what] = @ - 1]

GoTo(p, from, to) ==
    /\ pc[p] = from
    /\ pc' = [pc EXCEPT ![p] = to]

Leave(p) ==
    /\ pc' = [pc EXCEPT ![p] = "idle"]
    /\ me' = [me EXCEPT ![p] = 0]
    /\ seen' = [seen EXCEPT ![p] = 0]

\* Drop's own guard bears the token its appender holds; a waiter's never does.
LettingGo(p) == seen[p] = me[p]

\* Whether p has a guard, or the lock, in its hands.
HasGuard(p) == pc[p] \in Guarding

Holds(p) ==
    \/ pc[p] \in {"creating", "held", "dropping"}
    \/ pc[p] \in {"checking", "breaking"} /\ LettingGo(p)

-----------------------------------------------------------------------------
(* `acquire` *)

Ask(p) ==
    /\ GoTo(p, "idle", "waiting")
    /\ Spend("append")
    /\ fresh' = fresh + 1
    /\ me' = [me EXCEPT ![p] = fresh + 1]
    /\ UNCHANGED <<fileVars, seen, upset>>

Create(p) ==
    /\ GoTo(p, "waiting", "creating")
    /\ ~ lock.on
    /\ lock' = LockBy(me[p])
    /\ UNCHANGED <<guards, me, seen, fresh, left, upset>>

\* Into the file it created, whatever has that name by now.
WriteToken(p) ==
    /\ GoTo(p, "creating", "held")
    /\ lock' = IF lock.by = me[p] THEN [lock EXCEPT !.token = me[p]] ELSE lock
    /\ UNCHANGED <<guards, me, seen, fresh, left, upset>>

TokenFails(p) ==
    /\ pc[p] = "creating"
    /\ Spend("fault")
    /\ lock' = NoLock
    /\ Leave(p)
    /\ UNCHANGED <<guards, fresh, upset>>

\* LOCK_WAIT has passed, or the lock file cannot be created at all.
GiveUp(p) ==
    /\ pc[p] = "waiting"
    /\ \/ lock.on /\ UNCHANGED left
       \/ Spend("fault")
    /\ Leave(p)
    /\ UNCHANGED <<fileVars, fresh, upset>>

-----------------------------------------------------------------------------
(* `stale_token` and `take_over` *)

JudgeStale(p) ==
    /\ GoTo(p, "waiting", "judged")
    /\ lock.on /\ lock.stale
    /\ UNCHANGED <<fileVars, me, seen, fresh, left, upset>>

\* The lock of that name may be another one than the lock that was judged.
ReadToken(p) ==
    /\ GoTo(p, "judged", IF lock.on THEN "taking" ELSE "waiting")
    /\ seen' = [seen EXCEPT ![p] = IF lock.on THEN lock.token ELSE 0]
    /\ UNCHANGED <<fileVars, me, fresh, left, upset>>

GuardOf(token) == {g \in guards : g.name = token}

TakeGuard(p) ==
    /\ GoTo(p, "taking", "checking")
    /\ GuardOf(seen[p]) = {}
    /\ guards' = guards \union {[name |-> seen[p], by |-> me[p], stale |-> FALSE]}
    /\ UNCHANGED <<lock, me, seen, fresh, left, upset>>

\* Another waiter has the guard, or had it when it died.
GuardTaken(p) ==
    /\ GuardOf(seen[p]) # {}
    /\ \/ GoTo(p, "taking", "clearing") /\ UNCHANGED seen
          /\ \E g \in GuardOf(seen[p]) : g.stale
       \/ GoTo(p, "taking", "waiting") /\ seen' = [seen EXCEPT ![p] = 0]
          /\ \A g \in GuardOf(seen[p]) : ~ g.stale
    /\ UNCHANGED <<fileVars, me, fresh, left, upset>>

\* A stale guard is removed plainly: the file of that name.
ClearGuard(p) ==
    /\ GoTo(p, "clearing", "waiting")
    /\ guards' = guards \ GuardOf(seen[p])
    /\ seen' = [seen EXCEPT ![p] = 0]
    /\ UNCHANGED <<lock, me, fresh, left, upset>>

\* Variant: the lock is taken for the one that was judged.
CheckNothing(p) ==
    /\ GoTo(p, "checking", IF lock.on THEN "breaking" ELSE "unguarding")
    /\ UNCHANGED <<fileVars, me, seen, fresh, left, upset>>

\* Is the lock still the one seen, and still stale?  A holder that lets go only
\* asks whether it is its own.
Check(p) ==
    LET same == lock.on /\ lock.token = seen[p] /\ (lock.stale \/ LettingGo(p)) IN
    /\ GoTo(p, "checking", IF same THEN "breaking" ELSE "unguarding")
    /\ UNCHANGED <<fileVars, me, seen, fresh, left, upset>>

Break(p) ==
    /\ GoTo(p, "breaking", "unguarding")
    /\ lock' = NoLock
    /\ UNCHANGED <<guards, me, seen, fresh, left, upset>>

Unguard(p) ==
    /\ pc[p] = "unguarding"
    /\ guards' = guards \ GuardOf(seen[p])
    /\ IF LettingGo(p) THEN Leave(p)
       ELSE /\ pc' = [pc EXCEPT ![p] = "waiting"]
            /\ seen' = [seen EXCEPT ![p] = 0]
            /\ me' = me
    /\ UNCHANGED <<lock, fresh, left, upset>>

-----------------------------------------------------------------------------
(* Drop *)

\* The work under the lock is over.
LetGo(p) ==
    /\ GoTo(p, "held", "dropping")
    /\ UNCHANGED <<fileVars, me, seen, fresh, left, upset>>

WorkFails(p) ==
    /\ GoTo(p, "held", "dropping")
    /\ Spend("fault")
    /\ UNCHANGED <<fileVars, me, seen, fresh, upset>>

\* With its guard taken the lock is left to the waiter that took it.
Drop(p) ==
    /\ pc[p] = "dropping"
    /\ IF GuardOf(me[p]) = {}
       THEN /\ guards' = guards \union {[name |-> me[p], by |-> me[p], stale |-> FALSE]}
            /\ pc' = [pc EXCEPT ![p] = "checking"]
            /\ seen' = [seen EXCEPT ![p] = me[p]]
            /\ UNCHANGED <<lock, me>>
       ELSE /\ Leave(p)
            /\ lock' = [lock EXCEPT !.let = @ \/ lock.by = me[p]]
            /\ guards' = guards
    /\ UNCHANGED <<fresh, left, upset>>

-----------------------------------------------------------------------------
(* Time, crashes and purges *)

\* The lock's age passes LOCK_STALE: its creator has left it, or is slow.
LockAges ==
    /\ lock.on /\ ~ lock.stale
    /\ \A p \in Appenders : Holds(p) /\ me[p] = lock.by => pc[p] = "held"
    /\ IF \E p \in Appenders : Holds(p) /\ me[p] = lock.by
       THEN Spend("fault") /\ upset' = upset \union {"slow"}
       ELSE UNCHANGED <<left, upset>>
    /\ lock' = [lock EXCEPT !.stale = TRUE]
    /\ UNCHANGED <<guards, pc, me, seen, fresh>>

Kept(g) == \E p \in Appenders : HasGuard(p) /\ me[p] = g.by /\ seen[p] = g.name

GuardAges ==
    /\ \E g \in guards :
          /\ ~ g.stale /\ ~ Kept(g)
          /\ guards' = (guards \ {g}) \union {[g EXCEPT !.stale = TRUE]}
    /\ UNCHANGED <<lock, pc, me, seen, fresh, left, upset>>

Crash(p) ==
    /\ pc[p] # "idle"
    /\ Spend("crash")
    /\ Leave(p)
    /\ upset' = IF HasGuard(p) THEN upset \union {"guard"} ELSE upset
    /\ UNCHANGED <<fileVars, fresh>>

\* `sessions --purge` removes the lock and the guards, whoever has them.
Sweep ==
    /\ Spend("touch")
    /\ lock' = NoLock /\ guards' = {}
    /\ upset' = IF \E p \in Appenders : pc[p] # "idle" THEN upset \union {"purge"}
                ELSE upset
    /\ UNCHANGED <<pc, me, seen, fresh>>

\* Somebody's hand on the files that the lock is for, and not on the lock.
Touch ==
    /\ Spend("touch")
    /\ UNCHANGED <<fileVars, pc, me, seen, fresh, upset>>

-----------------------------------------------------------------------------
Acquiring(p) ==
    \/ Create(p) \/ WriteToken(p) \/ TokenFails(p) \/ GiveUp(p)
    \/ JudgeStale(p) \/ ReadToken(p)
    \/ TakeGuard(p) \/ GuardTaken(p) \/ ClearGuard(p)
    \/ Check(p) \/ Break(p) \/ Unguard(p)
    \/ Drop(p)

LockNext ==
    \/ \E p \in Appenders : Ask(p) \/ Acquiring(p) \/ LetGo(p) \/ WorkFails(p)
                              \/ Crash(p)
    \/ LockAges \/ GuardAges \/ Sweep \/ Touch

LockSpec == LockInit /\ [][LockNext]_lockVars

-----------------------------------------------------------------------------
(* Properties *)

\* Every variable of the lock has its type, and who is not appending has no token.
LockTypeOK ==
    /\ lock \in Lock
    /\ guards \subseteq Guard
    /\ pc \in [Appenders -> Places]
    /\ me \in [Appenders -> Nat] /\ seen \in [Appenders -> Nat]
    /\ fresh \in Nat
    /\ left \in [Bounded -> Nat]
    /\ upset \subseteq Upsets
    /\ \A p \in Appenders : pc[p] = "idle" <=> me[p] = 0

\* At most one appender is at work on the log, through any number of crashed
\* holders and waiters that take their lock over, as long as nothing happens
\* that the comment on DirLock leaves open.
OneHolder ==
    upset = {} => \A p, q \in Appenders : pc[p] = "held" /\ pc[q] = "held" => p = q

\* A holder that outlived LOCK_STALE and lets go does not remove the lock of
\* the appender that took over from it.
SuccessorKept ==
    [][upset \subseteq {"slow"} =>
          \A p \in Appenders :
             pc[p] = "breaking" /\ LettingGo(p) /\ pc'[p] = "unguarding" =>
                lock.by \in {0, me[p]}]_lockVars

=============================================================================
