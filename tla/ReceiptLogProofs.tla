-------------------------- MODULE ReceiptLogProofs --------------------------
(***************************************************************************)
(* Theorems about DirLock and ReceiptLog, for any number of sessions and   *)
(* every bound.  First the lock: that one appender at a time is at work,   *)
(* as long as nothing happens that the comment on DirLock leaves open, and *)
(* that a holder which outlived LOCK_STALE removes no lock but its own.    *)
(* Then the log: an append keeps to the protocol of the lock and so has    *)
(* the log to itself; no receipt is lost in silence; and a log nobody      *)
(* touched is not called broken.                                           *)
(***************************************************************************)
EXTENDS ReceiptLog, SequenceTheorems, WellFoundedInduction, TLAPS

-----------------------------------------------------------------------------
(* The types of the lock *)

LEMMA LockTypeStep == LockTypeOK /\ [LockNext]_lockVars => LockTypeOK'
<1> SUFFICES ASSUME LockTypeOK, [LockNext]_lockVars
             PROVE  LockTypeOK'
  OBVIOUS
<1> USE DEF LockTypeOK, Lock, LockBy, NoLock, Guard, Places, Guarding, Upsets, GoTo
<1>0. NoLock \in Lock
  OBVIOUS
<1>1. \A what \in Bounded : Spend(what) => left' \in [Bounded -> Nat]
  BY DEF Spend
<1>2. {"append", "crash", "fault", "touch"} \subseteq Bounded
  BY DEF Bounded
<1>3. ASSUME NEW p \in Appenders, Leave(p)
      PROVE  /\ pc' \in [Appenders -> Places]
             /\ me' \in [Appenders -> Nat] /\ seen' \in [Appenders -> Nat]
             /\ \A q \in Appenders : pc'[q] = "idle" <=> me'[q] = 0
  BY <1>3 DEF Leave
<1>4. ASSUME NEW p \in Appenders, Ask(p)
      PROVE  LockTypeOK'
  BY <1>1, <1>2, <1>4 DEF Ask, fileVars
<1>5. ASSUME NEW p \in Appenders, Create(p)
      PROVE  LockTypeOK'
  BY <1>5 DEF Create
<1>6. ASSUME NEW p \in Appenders, WriteToken(p)
      PROVE  LockTypeOK'
  BY <1>6 DEF WriteToken
<1>7. ASSUME NEW p \in Appenders, TokenFails(p)
      PROVE  LockTypeOK'
  BY <1>1, <1>2, <1>3, <1>7 DEF TokenFails
<1>8. ASSUME NEW p \in Appenders, GiveUp(p)
      PROVE  LockTypeOK'
  BY <1>1, <1>2, <1>3, <1>8 DEF GiveUp, fileVars
<1>9. ASSUME NEW p \in Appenders, JudgeStale(p)
      PROVE  LockTypeOK'
  BY <1>9 DEF JudgeStale, fileVars
<1>10. ASSUME NEW p \in Appenders, ReadToken(p)
       PROVE  LockTypeOK'
  BY <1>10 DEF ReadToken, fileVars
<1>11. ASSUME NEW p \in Appenders, TakeGuard(p)
       PROVE  LockTypeOK'
  <2>1. [name |-> seen[p], by |-> me[p], stale |-> FALSE] \in Guard
    OBVIOUS
  <2>2. guards' \subseteq Guard
    BY <1>11, <2>1 DEF TakeGuard
  <2>3. pc' = [pc EXCEPT ![p] = "checking"] /\ pc[p] = "taking"
    BY <1>11 DEF TakeGuard
  <2>4. QED
    BY <1>11, <2>2, <2>3 DEF TakeGuard
<1>12. ASSUME NEW p \in Appenders, GuardTaken(p)
       PROVE  LockTypeOK'
  BY <1>12 DEF GuardTaken, fileVars
<1>13. ASSUME NEW p \in Appenders, ClearGuard(p)
       PROVE  LockTypeOK'
  BY <1>13 DEF ClearGuard
<1>14. ASSUME NEW p \in Appenders, Check(p)
       PROVE  LockTypeOK'
  BY <1>14 DEF Check, fileVars
<1>15. ASSUME NEW p \in Appenders, Break(p)
       PROVE  LockTypeOK'
  BY <1>15 DEF Break
<1>16. ASSUME NEW p \in Appenders, Unguard(p)
       PROVE  LockTypeOK'
  BY <1>3, <1>16 DEF Unguard
<1>17. ASSUME NEW p \in Appenders, Drop(p)
       PROVE  LockTypeOK'
  <2>1. CASE GuardOf(me[p]) = {}
    <3>1. [name |-> me[p], by |-> me[p], stale |-> FALSE] \in Guard
      OBVIOUS
    <3>6. guards' = guards \union {[name |-> me[p], by |-> me[p], stale |-> FALSE]}
      BY <1>17, <2>1 DEF Drop
    <3>2. guards' \subseteq Guard
      BY <3>1, <3>6
    <3>3. pc' = [pc EXCEPT ![p] = "checking"] /\ pc[p] = "dropping"
      BY <1>17, <2>1 DEF Drop
    <3>4. seen' = [seen EXCEPT ![p] = me[p]] /\ UNCHANGED <<lock, me, fresh, left, upset>>
      BY <1>17, <2>1 DEF Drop
    <3>5. QED
      BY <3>2, <3>3, <3>4
  <2>2. CASE GuardOf(me[p]) # {}
    <3>1. Leave(p) /\ UNCHANGED <<guards, fresh, left, upset>>
      BY <1>17, <2>2 DEF Drop
    <3>2. lock' = [lock EXCEPT !.let = @ \/ lock.by = me[p]]
      BY <1>17, <2>2 DEF Drop
    <3>3. lock' \in Lock
      BY <3>2
    <3>4. QED
      BY <1>3, <3>1, <3>3
  <2>3. QED
    BY <2>1, <2>2
<1>18. ASSUME NEW p \in Appenders, LetGo(p) \/ WorkFails(p)
       PROVE  LockTypeOK'
  BY <1>1, <1>2, <1>18 DEF LetGo, WorkFails, fileVars
<1>19. ASSUME NEW p \in Appenders, Crash(p)
       PROVE  LockTypeOK'
  BY <1>1, <1>2, <1>3, <1>19 DEF Crash, fileVars
<1>20. CASE LockAges
  BY <1>1, <1>2, <1>20 DEF LockAges
<1>21. CASE GuardAges
  <2>1. PICK g \in guards : guards' = (guards \ {g}) \union {[g EXCEPT !.stale = TRUE]}
    BY <1>21 DEF GuardAges
  <2>2. [g EXCEPT !.stale = TRUE] \in Guard
    <3>1. g \in Guard
      OBVIOUS
    <3>2. QED
      BY <3>1
  <2>3. guards' \subseteq Guard
    BY <2>1, <2>2
  <2>4. QED
    BY <1>21, <2>3 DEF GuardAges
<1>22. CASE Sweep
  <2>1. lock' \in Lock /\ guards' \subseteq Guard /\ upset' \subseteq Upsets
    BY <1>0, <1>22 DEF Sweep
  <2>2. left' \in [Bounded -> Nat]
    BY <1>1, <1>2, <1>22 DEF Sweep
  <2>3. UNCHANGED <<pc, me, seen, fresh>>
    BY <1>22 DEF Sweep
  <2>4. QED
    BY <2>1, <2>2, <2>3
<1>25. CASE Touch
  BY <1>1, <1>2, <1>25 DEF Touch, fileVars
<1>23. CASE UNCHANGED lockVars
  BY <1>23 DEF lockVars
<1>24. QED
  BY <1>4, <1>5, <1>6, <1>7, <1>8, <1>9, <1>10, <1>11, <1>12, <1>13, <1>14, <1>15,
     <1>16, <1>17, <1>18, <1>19, <1>20, <1>21, <1>22, <1>23, <1>25 DEF LockNext, Acquiring

LEMMA LockTypeInit == LockInit => LockTypeOK
<1> SUFFICES ASSUME LockInit PROVE LockTypeOK
  OBVIOUS
<1>1. lock \in Lock
  BY DEF LockInit, NoLock, LockBy, Lock
<1>2. left \in [Bounded -> Nat]
  BY LimitsAssumption DEF LockInit
<1>3. QED
  BY <1>1, <1>2 DEF LockInit, LockTypeOK, Guard, Places, Upsets

\* The lock and its guards, and what each appender keeps of them, have their types.
THEOREM LockTypeCorrect == LockSpec => []LockTypeOK
BY LockTypeInit, LockTypeStep, PTL DEF LockSpec

-----------------------------------------------------------------------------
(* Whose lock and whose token *)

\* An acquisition has a number of its own, and a lock bears its maker's or none.
Numbered ==
    /\ lock.token \in {0, lock.by}
    /\ lock.by <= fresh
    /\ \A p \in Appenders : me[p] <= fresh
    /\ \A p, q \in Appenders : me[p] = me[q] /\ me[p] # 0 => p = q

Aside == {"waiting", "judged", "taking", "clearing"}

Breaks(p) == HasGuard(p) /\ ~ LettingGo(p)

\* A waiter does not take the lock, or its own token, for its own lock.
Apart ==
    \A p \in Appenders :
       /\ pc[p] = "idle" => seen[p] = 0
       /\ pc[p] \in Aside => seen[p] # me[p]
       /\ pc[p] \in Aside \/ Breaks(p) => lock.by # me[p]

LEMMA NumberedStep == LockTypeOK /\ Numbered /\ [LockNext]_lockVars => Numbered'
<1> SUFFICES ASSUME LockTypeOK, Numbered, [LockNext]_lockVars
             PROVE  Numbered'
  OBVIOUS
<1>1. ASSUME NEW p \in Appenders, Leave(p), lock' \in {lock, NoLock}, fresh' = fresh
      PROVE  Numbered'
  BY <1>1 DEF LockTypeOK, Lock, NoLock, LockBy, Numbered, Leave
<1>2. ASSUME NEW p \in Appenders, Ask(p)
      PROVE  Numbered'
  BY <1>2 DEF LockTypeOK, Lock, Numbered, Ask, fileVars
<1>3. ASSUME NEW p \in Appenders, Create(p) \/ WriteToken(p)
      PROVE  Numbered'
  BY <1>3 DEF LockTypeOK, Lock, LockBy, Numbered, Create, WriteToken
<1>4. ASSUME lock' \in {lock, NoLock}, me' = me, fresh' = fresh
      PROVE  Numbered'
  BY <1>4 DEF LockTypeOK, Lock, NoLock, LockBy, Numbered
<1>5. ASSUME NEW p \in Appenders, Drop(p)
      PROVE  Numbered'
  <2>1. CASE GuardOf(me[p]) = {}
    BY <1>4, <1>5, <2>1 DEF Drop
  <2>2. CASE GuardOf(me[p]) # {}
    <3>1. lock'.token = lock.token /\ lock'.by = lock.by
      BY <1>5, <2>2 DEF Drop, LockTypeOK, Lock
    <3>2. Leave(p) /\ fresh' = fresh
      BY <1>5, <2>2 DEF Drop
    <3>3. QED
      BY <3>1, <3>2 DEF LockTypeOK, Lock, Numbered, Leave
  <2>3. QED
    BY <2>1, <2>2
<1>6. CASE LockAges
  BY <1>6 DEF LockTypeOK, Lock, Numbered, LockAges
<1>7. ASSUME NEW p \in Appenders, TokenFails(p) \/ GiveUp(p) \/ Crash(p)
      PROVE  Numbered'
  BY <1>1, <1>7 DEF TokenFails, GiveUp, Crash, fileVars
<1>8. ASSUME NEW p \in Appenders, Unguard(p)
      PROVE  Numbered'
  BY <1>1, <1>4, <1>8 DEF Unguard
<1>9. ASSUME NEW p \in Appenders,
             \/ JudgeStale(p) \/ ReadToken(p) \/ TakeGuard(p) \/ GuardTaken(p)
             \/ ClearGuard(p) \/ Check(p) \/ Break(p) \/ LetGo(p) \/ WorkFails(p)
      PROVE  Numbered'
  BY <1>4, <1>9 DEF JudgeStale, ReadToken, TakeGuard, GuardTaken, ClearGuard, Check,
                    Break, LetGo, WorkFails, fileVars
<1>10. CASE GuardAges \/ Sweep \/ Touch \/ UNCHANGED lockVars
  BY <1>4, <1>10 DEF GuardAges, Sweep, Touch, lockVars, fileVars
<1>11. QED
  BY <1>2, <1>3, <1>5, <1>6, <1>7, <1>8, <1>9, <1>10 DEF LockNext, Acquiring

LEMMA ApartStep == LockTypeOK /\ Numbered /\ Apart /\ [LockNext]_lockVars => Apart'
<1> SUFFICES ASSUME LockTypeOK, Numbered, Apart, [LockNext]_lockVars
             PROVE  Apart'
  OBVIOUS
<1> USE DEF Aside, Breaks, HasGuard, LettingGo, Guarding
<1>1. ASSUME NEW p \in Appenders, Leave(p), lock' = lock \/ lock'.by \in {0, lock.by}
      PROVE  Apart'
  BY <1>1 DEF LockTypeOK, Lock, Apart, Leave
<1>2. ASSUME NEW p \in Appenders, Ask(p)
      PROVE  Apart'
  BY <1>2 DEF LockTypeOK, Lock, Numbered, Apart, Ask, GoTo, fileVars
<1>3. ASSUME NEW p \in Appenders, Create(p) \/ WriteToken(p)
      PROVE  Apart'
  BY <1>3 DEF LockTypeOK, Lock, LockBy, Numbered, Apart, Create, WriteToken, GoTo
<1>4. ASSUME NEW p \in Appenders, TokenFails(p) \/ GiveUp(p) \/ Crash(p)
      PROVE  Apart'
  BY <1>1, <1>4 DEF TokenFails, GiveUp, Crash, fileVars, NoLock, LockBy
<1>5. ASSUME NEW p \in Appenders, JudgeStale(p) \/ TakeGuard(p) \/ Check(p)
      PROVE  Apart'
  BY <1>5 DEF LockTypeOK, Apart, JudgeStale, TakeGuard, Check, GoTo, fileVars
<1>6. ASSUME NEW p \in Appenders, ReadToken(p)
      PROVE  Apart'
  BY <1>6 DEF LockTypeOK, Lock, Numbered, Apart, ReadToken, GoTo, fileVars
<1>7. ASSUME NEW p \in Appenders, GuardTaken(p) \/ ClearGuard(p)
      PROVE  Apart'
  BY <1>7 DEF LockTypeOK, Apart, GuardTaken, ClearGuard, GoTo, fileVars
<1>8. ASSUME NEW p \in Appenders, Break(p)
      PROVE  Apart'
  BY <1>8 DEF LockTypeOK, Lock, NoLock, LockBy, Apart, Break, GoTo
<1>9. ASSUME NEW p \in Appenders, Unguard(p)
      PROVE  Apart'
  BY <1>1, <1>9 DEF LockTypeOK, Apart, Unguard
<1>10. ASSUME NEW p \in Appenders, Drop(p)
       PROVE  Apart'
  <2>1. CASE GuardOf(me[p]) = {}
    BY <1>10, <2>1 DEF LockTypeOK, Apart, Drop
  <2>2. CASE GuardOf(me[p]) # {}
    BY <1>1, <1>10, <2>2 DEF LockTypeOK, Lock, Drop
  <2>3. QED
    BY <2>1, <2>2
<1>11. ASSUME NEW p \in Appenders, LetGo(p) \/ WorkFails(p)
       PROVE  Apart'
  BY <1>11 DEF LockTypeOK, Apart, LetGo, WorkFails, GoTo, fileVars
<1>12. CASE LockAges
  BY <1>12 DEF LockTypeOK, Lock, Apart, LockAges
<1>13. CASE Sweep
  BY <1>13 DEF LockTypeOK, NoLock, LockBy, Apart, Sweep
<1>14. CASE GuardAges \/ Touch \/ UNCHANGED lockVars
  BY <1>14 DEF LockTypeOK, Apart, GuardAges, Touch, lockVars, fileVars
<1>15. QED
  BY <1>2, <1>3, <1>4, <1>5, <1>6, <1>7, <1>8, <1>9, <1>10, <1>11, <1>12, <1>13, <1>14
     DEF LockNext, Acquiring

-----------------------------------------------------------------------------
(* Guards, as long as nobody dies with one and nobody purges the lock in use *)

Slowly == upset \subseteq {"slow"}

\* Every guard has a living keeper, every keeper a guard, and no two of them
\* the same.
GuardsKept ==
    /\ \A g \in guards : ~ g.stale /\ Kept(g)
    /\ \A p \in Appenders : HasGuard(p) => GuardOf(seen[p]) # {}
    /\ \A p, q \in Appenders :
          HasGuard(p) /\ HasGuard(q) /\ seen[p] = seen[q] => p = q
    /\ \A p \in Appenders : pc[p] # "clearing"

LEMMA UpsetGrows == [LockNext]_lockVars => upset \subseteq upset'
BY DEF LockNext, lockVars, Acquiring, Ask, Create, WriteToken, TokenFails, GiveUp,
       JudgeStale, ReadToken, TakeGuard, GuardTaken, ClearGuard, Check, Break, Unguard,
       Drop, LetGo, WorkFails, Crash, LockAges, GuardAges, Sweep, Touch

LEMMA GuardsKeptStep ==
    LockTypeOK /\ GuardsKept /\ [LockNext]_lockVars /\ Slowly' => GuardsKept'
<1> SUFFICES ASSUME LockTypeOK, GuardsKept, [LockNext]_lockVars, Slowly'
             PROVE  GuardsKept'
  OBVIOUS
<1> USE DEF GuardsKept, HasGuard, Guarding, Kept, GuardOf
\* Somebody without a guard moves to a place without one.
<1>1. ASSUME NEW p \in Appenders, pc[p] \notin Guarding, NEW to \in Places \ Guarding,
             to # "clearing", pc' = [pc EXCEPT ![p] = to], guards' = guards,
             \A q \in Appenders : q # p => me'[q] = me[q] /\ seen'[q] = seen[q]
      PROVE  GuardsKept'
  BY <1>1 DEF LockTypeOK
<1>2. ASSUME NEW p \in Appenders, pc[p] \notin Guarding, Leave(p), guards' = guards
      PROVE  GuardsKept'
  BY <1>1, <1>2 DEF Leave, LockTypeOK, Places
\* Somebody with a guard moves on with it.
<1>3. ASSUME NEW p \in Appenders, pc[p] \in Guarding, NEW to \in Guarding,
             pc' = [pc EXCEPT ![p] = to], UNCHANGED <<guards, me, seen>>
      PROVE  GuardsKept'
  BY <1>3 DEF LockTypeOK
\* Somebody takes a guard of a name that is free.
<1>4. ASSUME NEW p \in Appenders, pc[p] \notin Guarding, NEW n \in Nat, GuardOf(n) = {},
             guards' = guards \union {[name |-> n, by |-> me[p], stale |-> FALSE]},
             pc' = [pc EXCEPT ![p] = "checking"], seen' = [seen EXCEPT ![p] = n],
             me' = me
      PROVE  GuardsKept'
  <2>1. \A q \in Appenders : pc[q] \in Guarding => seen[q] # n
    BY <1>4
  <2>2. \A g \in guards' : ~ g.stale /\ Kept(g)'
    BY <1>4 DEF LockTypeOK
  <2>3. \A q \in Appenders : HasGuard(q)' => GuardOf(seen[q])' # {}
    <3>1. SUFFICES ASSUME NEW q \in Appenders, HasGuard(q)'
                   PROVE  \E g \in guards' : g.name = seen'[q]
      OBVIOUS
    <3>2. CASE q = p
      <4>1. [name |-> n, by |-> me[p], stale |-> FALSE] \in guards' /\ seen'[q] = n
        BY <1>4, <3>2 DEF LockTypeOK
      <4>2. QED
        BY <4>1
    <3>3. CASE q # p
      <4>1. HasGuard(q) /\ seen'[q] = seen[q]
        BY <1>4, <3>1, <3>3 DEF LockTypeOK
      <4>2. QED
        BY <1>4, <4>1
    <3>4. QED
      BY <3>2, <3>3
  <2>4. QED
    BY <1>4, <2>1, <2>2, <2>3 DEF LockTypeOK
<1>5. ASSUME NEW p \in Appenders, Ask(p) \/ Create(p) \/ WriteToken(p) \/ ReadToken(p)
      PROVE  GuardsKept'
  BY <1>1, <1>5 DEF Ask, Create, WriteToken, ReadToken, GoTo, fileVars, LockTypeOK, Places
<1>6. ASSUME NEW p \in Appenders, JudgeStale(p) \/ LetGo(p) \/ WorkFails(p)
      PROVE  GuardsKept'
  BY <1>1, <1>6 DEF JudgeStale, LetGo, WorkFails, GoTo, fileVars, Places
<1>7. ASSUME NEW p \in Appenders, TokenFails(p) \/ GiveUp(p)
      PROVE  GuardsKept'
  BY <1>2, <1>7 DEF TokenFails, GiveUp, fileVars
<1>8. ASSUME NEW p \in Appenders, TakeGuard(p)
      PROVE  GuardsKept'
  <2>1. /\ pc[p] = "taking" /\ pc' = [pc EXCEPT ![p] = "checking"]
        /\ GuardOf(seen[p]) = {} /\ me' = me
        /\ guards' = guards \union {[name |-> seen[p], by |-> me[p], stale |-> FALSE]}
    BY <1>8 DEF TakeGuard, GoTo
  <2>2. seen' = [seen EXCEPT ![p] = seen[p]] /\ seen[p] \in Nat
    BY <1>8 DEF TakeGuard, LockTypeOK
  <2>3. QED
    BY <1>4, <2>1, <2>2
<1>9. ASSUME NEW p \in Appenders, GuardTaken(p)
      PROVE  GuardsKept'
  <2>1. /\ GoTo(p, "taking", "waiting") /\ seen' = [seen EXCEPT ![p] = 0]
        /\ me' = me /\ guards' = guards
    BY <1>9 DEF GuardTaken, fileVars
  <2>2. QED
    BY <1>1, <2>1 DEF GoTo, Places, LockTypeOK
<1>10. ASSUME NEW p \in Appenders, ClearGuard(p)
       PROVE  GuardsKept'
  BY <1>10 DEF ClearGuard, GoTo
<1>11. ASSUME NEW p \in Appenders, Check(p) \/ Break(p)
       PROVE  GuardsKept'
  BY <1>3, <1>11 DEF Check, Break, GoTo, fileVars
<1>12. ASSUME NEW p \in Appenders, Unguard(p)
       PROVE  GuardsKept'
  <2>1. /\ guards' = guards \ GuardOf(seen[p])
        /\ \E to \in {"idle", "waiting"} : pc' = [pc EXCEPT ![p] = to]
        /\ \A q \in Appenders : q # p => me'[q] = me[q] /\ seen'[q] = seen[q]
        /\ pc[p] = "unguarding"
    BY <1>12 DEF Unguard, Leave, LockTypeOK
  <2>2. \A q \in Appenders : HasGuard(q)' => q # p /\ HasGuard(q) /\ seen[q] # seen[p]
    BY <2>1 DEF LockTypeOK
  <2>3. \A g \in guards' : ~ g.stale /\ Kept(g)'
    BY <2>1 DEF LockTypeOK
  <2>4. \A q \in Appenders : HasGuard(q)' => GuardOf(seen[q])' # {}
    BY <2>1, <2>2
  <2>5. QED
    BY <2>1, <2>2, <2>3, <2>4 DEF LockTypeOK
<1>13. ASSUME NEW p \in Appenders, Drop(p)
       PROVE  GuardsKept'
  <2>1. CASE GuardOf(me[p]) = {}
    BY <1>4, <1>13, <2>1 DEF Drop, LockTypeOK
  <2>2. CASE GuardOf(me[p]) # {}
    BY <1>2, <1>13, <2>2 DEF Drop
  <2>3. QED
    BY <2>1, <2>2
<1>14. ASSUME NEW p \in Appenders, Crash(p)
       PROVE  GuardsKept'
  <2>1. pc[p] \notin Guarding
    BY <1>14 DEF Crash, Slowly
  <2>2. QED
    BY <1>2, <1>14, <2>1 DEF Crash, fileVars
<1>15. ~ GuardAges
  BY DEF GuardAges
<1>16. CASE Sweep
  <2>1. guards' = {} /\ \A p \in Appenders : pc'[p] = "idle"
    BY <1>16 DEF Sweep, Slowly
  <2>2. QED
    BY <2>1
<1>17. CASE LockAges \/ Touch \/ UNCHANGED lockVars
  BY <1>17 DEF LockAges, Touch, lockVars, fileVars
<1>18. QED
  BY <1>5, <1>6, <1>7, <1>8, <1>9, <1>10, <1>11, <1>12, <1>13, <1>14, <1>15, <1>16, <1>17
     DEF LockNext, Acquiring

-----------------------------------------------------------------------------
(* The lock that is removed is the one that was judged, or the remover's own *)

BrokenIsSeen ==
    /\ \A p \in Appenders : pc[p] = "creating" =>
          lock.on /\ lock.by = me[p] /\ ~ lock.stale
    /\ \A p \in Appenders : pc[p] = "breaking" =>
          lock.on /\ lock.token = seen[p] /\ (lock.stale \/ LettingGo(p))

Base == LockTypeOK /\ Numbered /\ Apart /\ GuardsKept

LEMMA BrokenIsSeenStep ==
    Base /\ BrokenIsSeen /\ [LockNext]_lockVars /\ Slowly' => BrokenIsSeen'
<1> SUFFICES ASSUME Base, BrokenIsSeen, [LockNext]_lockVars, Slowly'
             PROVE  BrokenIsSeen'
  OBVIOUS
<1> USE DEF Base, BrokenIsSeen, LettingGo
\* Nobody comes to create or to break, and the lock is the same in what counts.
<1>1. ASSUME NEW p \in Appenders, NEW to \in Places \ {"creating", "breaking"},
             pc' = [pc EXCEPT ![p] = to], lock' = lock,
             \A q \in Appenders : q # p => me'[q] = me[q] /\ seen'[q] = seen[q]
      PROVE  BrokenIsSeen'
  BY <1>1 DEF LockTypeOK
<1>2. ASSUME NEW p \in Appenders, Leave(p), lock' = lock
      PROVE  BrokenIsSeen'
  BY <1>1, <1>2 DEF Leave, LockTypeOK, Places
<1>3. ASSUME NEW p \in Appenders, Ask(p) \/ ReadToken(p)
      PROVE  BrokenIsSeen'
  BY <1>1, <1>3 DEF Ask, ReadToken, GoTo, fileVars, LockTypeOK, Places
<1>4. ASSUME NEW p \in Appenders, JudgeStale(p) \/ LetGo(p) \/ WorkFails(p)
      PROVE  BrokenIsSeen'
  BY <1>1, <1>4 DEF JudgeStale, LetGo, WorkFails, GoTo, fileVars, Places
<1>5. ASSUME NEW p \in Appenders, TakeGuard(p)
      PROVE  BrokenIsSeen'
  BY <1>1, <1>5 DEF TakeGuard, GoTo, Places, Guarding
<1>6. ASSUME NEW p \in Appenders, GiveUp(p) \/ Crash(p)
      PROVE  BrokenIsSeen'
  BY <1>2, <1>6 DEF GiveUp, Crash, fileVars
<1>7. ASSUME NEW p \in Appenders, GuardTaken(p) \/ ClearGuard(p)
      PROVE  BrokenIsSeen'
  <2>1. \E to \in {"clearing", "waiting"} : pc' = [pc EXCEPT ![p] = to]
    BY <1>7 DEF GuardTaken, ClearGuard, GoTo
  <2>2. lock' = lock /\ \A q \in Appenders : q # p => me'[q] = me[q] /\ seen'[q] = seen[q]
    BY <1>7 DEF GuardTaken, ClearGuard, fileVars, LockTypeOK
  <2>3. QED
    BY <1>1, <2>1, <2>2 DEF Places
\* A lock that is not on is nobody's.
<1>8. ASSUME NEW p \in Appenders, Create(p)
      PROVE  BrokenIsSeen'
  BY <1>8 DEF Create, GoTo, LockTypeOK, LockBy
\* A lock whose token is not written yet is not stale, and so is not broken.
<1>9. ASSUME NEW p \in Appenders, WriteToken(p)
      PROVE  BrokenIsSeen'
  <2>1. lock.on /\ lock.by = me[p] /\ ~ lock.stale /\ me[p] # 0
    BY <1>9 DEF WriteToken, GoTo, LockTypeOK
  <2>2. \A q \in Appenders : pc[q] = "breaking" => q = p
    BY <2>1, <1>9 DEF Numbered, LockTypeOK, WriteToken, GoTo
  <2>3. \A q \in Appenders : pc[q] = "creating" => q = p
    BY <2>1 DEF Numbered
  <2>4. QED
    BY <1>9, <2>2, <2>3 DEF WriteToken, GoTo, LockTypeOK
<1>10. ASSUME NEW p \in Appenders, TokenFails(p)
       PROVE  BrokenIsSeen'
  <2>1. lock.on /\ lock.by = me[p] /\ ~ lock.stale /\ me[p] # 0
    BY <1>10 DEF TokenFails, LockTypeOK
  <2>2. \A q \in Appenders : pc[q] = "breaking" => q = p
    BY <2>1, <1>10 DEF Numbered, LockTypeOK, TokenFails
  <2>3. \A q \in Appenders : pc[q] = "creating" => q = p
    BY <2>1 DEF Numbered
  <2>4. QED
    BY <1>10, <2>2, <2>3 DEF TokenFails, Leave, LockTypeOK
<1>11. ASSUME NEW p \in Appenders, Check(p)
       PROVE  BrokenIsSeen'
  BY <1>11 DEF Check, GoTo, fileVars, LockTypeOK
\* Two that break see one token, and so have one guard.
<1>12. ASSUME NEW p \in Appenders, Break(p)
       PROVE  BrokenIsSeen'
  <2>1. lock.on /\ lock.token = seen[p] /\ (lock.stale \/ seen[p] = me[p])
    BY <1>12 DEF Break, GoTo
  <2>2. \A q \in Appenders : pc[q] = "breaking" => q = p
    BY <1>12, <2>1 DEF Break, GoTo, GuardsKept, HasGuard, Guarding
  <2>3. \A q \in Appenders : pc[q] # "creating"
    <3>1. SUFFICES ASSUME NEW q \in Appenders, pc[q] = "creating" PROVE FALSE
      OBVIOUS
    <3>2. lock.by = me[q] /\ ~ lock.stale /\ me[q] # 0
      BY <3>1 DEF LockTypeOK
    <3>3. seen[p] = me[p] /\ lock.token = me[p] /\ me[p] # 0
      BY <2>1, <3>2, <1>12 DEF LockTypeOK, Break, GoTo
    <3>4. lock.token = lock.by
      BY <3>3 DEF Numbered
    <3>5. p = q
      BY <3>2, <3>3, <3>4 DEF Numbered
    <3>6. QED
      BY <1>12, <3>1, <3>5 DEF Break, GoTo
  <2>4. QED
    BY <1>12, <2>2, <2>3 DEF Break, GoTo, LockTypeOK
<1>13. ASSUME NEW p \in Appenders, Unguard(p)
       PROVE  BrokenIsSeen'
  BY <1>1, <1>2, <1>13 DEF Unguard, LockTypeOK, Places
<1>14. ASSUME NEW p \in Appenders, Drop(p)
       PROVE  BrokenIsSeen'
  <2>1. CASE GuardOf(me[p]) = {}
    BY <1>1, <1>14, <2>1 DEF Drop, LockTypeOK, Places, Guarding
  <2>2. CASE GuardOf(me[p]) # {}
    <3>1. lock' = [lock EXCEPT !.let = @ \/ lock.by = me[p]] /\ Leave(p)
      BY <1>14, <2>2 DEF Drop
    <3>2. /\ lock'.on = lock.on /\ lock'.by = lock.by
          /\ lock'.token = lock.token /\ lock'.stale = lock.stale
      BY <3>1 DEF LockTypeOK, Lock
    <3>3. QED
      BY <3>1, <3>2 DEF Leave, LockTypeOK
  <2>3. QED
    BY <2>1, <2>2
\* Of the living only a holder at work is slow.
<1>15. CASE LockAges
  <2>1. /\ lock' = [lock EXCEPT !.stale = TRUE]
        /\ \A p \in Appenders : pc[p] = "creating" => me[p] # lock.by
        /\ UNCHANGED <<pc, me, seen>>
    BY <1>15 DEF LockAges, Holds
  <2>2. QED
    BY <2>1 DEF LockTypeOK, Lock
<1>16. CASE Sweep
  BY <1>16 DEF Sweep, Slowly
<1>17. CASE GuardAges \/ Touch \/ UNCHANGED lockVars
  BY <1>17 DEF GuardAges, Touch, lockVars, fileVars
<1>18. QED
  BY <1>3, <1>4, <1>5, <1>6, <1>7, <1>8, <1>9, <1>10, <1>11, <1>12, <1>13, <1>14, <1>15,
     <1>16, <1>17 DEF LockNext, Acquiring

-----------------------------------------------------------------------------
(* Who is at work owns the lock, as long as nobody is slow *)

Owned ==
    \A p \in Appenders : Holds(p) =>
       /\ lock.on /\ lock.by = me[p] /\ ~ lock.stale
       /\ pc[p] # "creating" => lock.token = me[p]

LEMMA OwnedStep ==
    Base /\ BrokenIsSeen /\ Owned /\ [LockNext]_lockVars /\ upset' = {} => Owned'
<1> SUFFICES ASSUME Base, BrokenIsSeen, Owned, [LockNext]_lockVars, upset' = {}
             PROVE  Owned'
  OBVIOUS
<1> USE DEF Base, Owned, LettingGo, Holds
<1>1. \A p, q \in Appenders : Holds(p) /\ Holds(q) => p = q
  BY DEF Numbered, LockTypeOK
\* Somebody comes to a place where nobody holds the lock.
<1>2. ASSUME NEW p \in Appenders, lock' = lock, NEW to \in Places,
             pc' = [pc EXCEPT ![p] = to], ~ Holds(p)',
             \A q \in Appenders : q # p => me'[q] = me[q] /\ seen'[q] = seen[q]
      PROVE  Owned'
  BY <1>2 DEF LockTypeOK
<1>3. ASSUME NEW p \in Appenders, Leave(p), lock' = lock
      PROVE  Owned'
  BY <1>2, <1>3 DEF Leave, LockTypeOK, Places
\* A holder goes on.
<1>4. ASSUME NEW p \in Appenders, Holds(p), pc[p] # "creating", lock' = lock,
             me' = me, \A q \in Appenders : q # p => seen'[q] = seen[q],
             NEW to \in Places, pc' = [pc EXCEPT ![p] = to], to # "creating"
      PROVE  Owned'
  BY <1>4 DEF LockTypeOK
<1>5. ASSUME NEW p \in Appenders, Ask(p) \/ ReadToken(p)
      PROVE  Owned'
  BY <1>2, <1>5 DEF Ask, ReadToken, GoTo, fileVars, LockTypeOK, Places
<1>6. ASSUME NEW p \in Appenders, JudgeStale(p)
      PROVE  Owned'
  BY <1>2, <1>6 DEF JudgeStale, GoTo, fileVars, LockTypeOK, Places
<1>7. ASSUME NEW p \in Appenders, LetGo(p) \/ WorkFails(p)
      PROVE  Owned'
  BY <1>4, <1>7 DEF LetGo, WorkFails, GoTo, fileVars, Places
<1>8. ASSUME NEW p \in Appenders, TakeGuard(p)
      PROVE  Owned'
  BY <1>2, <1>8 DEF TakeGuard, GoTo, LockTypeOK, Places, Guarding, Apart, Aside
<1>9. ASSUME NEW p \in Appenders, GiveUp(p) \/ Crash(p)
      PROVE  Owned'
  BY <1>3, <1>9 DEF GiveUp, Crash, fileVars
<1>10. ASSUME NEW p \in Appenders, GuardTaken(p) \/ ClearGuard(p)
       PROVE  Owned'
  <2>1. \E to \in {"clearing", "waiting"} : pc' = [pc EXCEPT ![p] = to]
    BY <1>10 DEF GuardTaken, ClearGuard, GoTo
  <2>2. lock' = lock /\ \A q \in Appenders : q # p => me'[q] = me[q] /\ seen'[q] = seen[q]
    BY <1>10 DEF GuardTaken, ClearGuard, fileVars, LockTypeOK
  <2>3. QED
    BY <1>2, <2>1, <2>2 DEF Places, LockTypeOK
<1>11. ASSUME NEW p \in Appenders, Create(p)
       PROVE  Owned'
  <2>1. \A q \in Appenders : ~ Holds(q)
    BY <1>11 DEF Create
  <2>2. QED
    BY <1>11, <2>1 DEF Create, GoTo, LockTypeOK, LockBy
<1>12. ASSUME NEW p \in Appenders, WriteToken(p)
       PROVE  Owned'
  <2>1. Holds(p) /\ lock.by = me[p]
    BY <1>12 DEF WriteToken, GoTo
  <2>2. lock' = [lock EXCEPT !.token = me[p]] /\ me' = me /\ seen' = seen
    BY <1>12, <2>1 DEF WriteToken
  <2>3. QED
    BY <1>1, <1>12, <2>1, <2>2 DEF WriteToken, GoTo, LockTypeOK, Lock
<1>13. ASSUME NEW p \in Appenders, TokenFails(p)
       PROVE  Owned'
  BY <1>1, <1>13 DEF TokenFails, Leave, LockTypeOK
<1>14. ASSUME NEW p \in Appenders, Check(p)
       PROVE  Owned'
  <2>1. lock' = lock /\ me' = me /\ seen' = seen
    BY <1>14 DEF Check, fileVars
  <2>2. CASE LettingGo(p)
    BY <1>4, <1>14, <2>1, <2>2 DEF Check, GoTo, LockTypeOK, Places, Guarding
  <2>3. CASE ~ LettingGo(p)
    BY <1>2, <1>14, <2>1, <2>3 DEF Check, GoTo, LockTypeOK, Places, Guarding
  <2>4. QED
    BY <2>2, <2>3
<1>15. ASSUME NEW p \in Appenders, Break(p)
       PROVE  Owned'
  <2>1. \A q \in Appenders : Holds(q) => q = p
    BY <1>1, <1>15 DEF Break, GoTo, BrokenIsSeen
  <2>2. QED
    BY <1>15, <2>1 DEF Break, GoTo, LockTypeOK
<1>16. ASSUME NEW p \in Appenders, Unguard(p)
       PROVE  Owned'
  <2>1. CASE LettingGo(p)
    BY <1>3, <1>16, <2>1 DEF Unguard
  <2>2. CASE ~ LettingGo(p)
    BY <1>2, <1>16, <2>2 DEF Unguard, LockTypeOK, Places
  <2>3. QED
    BY <2>1, <2>2
<1>17. ASSUME NEW p \in Appenders, Drop(p)
       PROVE  Owned'
  <2>1. CASE GuardOf(me[p]) = {}
    BY <1>4, <1>17, <2>1 DEF Drop, LockTypeOK, Places, Guarding
  <2>2. CASE GuardOf(me[p]) # {}
    <3>1. Leave(p) /\ Holds(p)
      BY <1>17, <2>2 DEF Drop
    <3>2. QED
      BY <1>1, <3>1 DEF Leave, LockTypeOK
  <2>3. QED
    BY <2>1, <2>2
<1>18. CASE LockAges
  <2>1. \A p \in Appenders : ~ Holds(p)
    <3>1. \A p \in Appenders : ~ (Holds(p) /\ me[p] = lock.by)
      BY <1>18 DEF LockAges
    <3>2. QED
      BY <3>1
  <2>2. QED
    BY <1>18, <2>1 DEF LockAges
<1>19. CASE Sweep
  BY <1>19 DEF Sweep
<1>20. CASE GuardAges \/ Touch \/ UNCHANGED lockVars
  BY <1>20 DEF GuardAges, Touch, lockVars, fileVars
<1>21. QED
  BY <1>5, <1>6, <1>7, <1>8, <1>9, <1>10, <1>11, <1>12, <1>13, <1>14, <1>15, <1>16,
     <1>17, <1>18, <1>19, <1>20 DEF LockNext, Acquiring

-----------------------------------------------------------------------------
LockInv ==
    /\ LockTypeOK /\ Numbered /\ Apart
    /\ Slowly => GuardsKept /\ BrokenIsSeen
    /\ upset = {} => Owned

LEMMA LockInvariant == LockSpec => []LockInv
<1>1. ASSUME LockInit, LockTypeOK PROVE LockInv
  <2>1. /\ guards = {} /\ lock.token = 0 /\ lock.by = 0 /\ fresh = 0
        /\ \A p \in Appenders : pc[p] = "idle" /\ me[p] = 0 /\ seen[p] = 0
    BY <1>1 DEF LockInit, NoLock, LockBy
  <2>2. Numbered /\ Apart
    BY <2>1 DEF Numbered, Apart, Aside, Breaks, HasGuard, Guarding
  <2>3. GuardsKept /\ BrokenIsSeen /\ Owned
    BY <2>1 DEF GuardsKept, HasGuard, Guarding, BrokenIsSeen, Owned, Holds
  <2>4. QED
    BY <1>1, <2>2, <2>3 DEF LockInv
<1>2. ASSUME LockInv, [LockNext]_lockVars PROVE LockInv'
  <2>1. LockTypeOK' /\ Numbered' /\ Apart'
    BY <1>2, LockTypeStep, NumberedStep, ApartStep DEF LockInv
  <2>2. Slowly' => GuardsKept' /\ BrokenIsSeen'
    BY <1>2, UpsetGrows, GuardsKeptStep, BrokenIsSeenStep DEF LockInv, Base, Slowly
  <2>3. upset' = {} => Owned'
    <3>1. SUFFICES ASSUME upset' = {} PROVE Owned'
      OBVIOUS
    <3>2. upset = {}
      BY <1>2, <3>1, UpsetGrows
    <3>3. QED
      BY <1>2, <3>1, <3>2, OwnedStep DEF LockInv, Base, Slowly
  <2>4. QED
    BY <2>1, <2>2, <2>3 DEF LockInv
<1>3. QED
  BY <1>1, <1>2, LockTypeCorrect, PTL DEF LockSpec

\* One appender at a time is at work on the log: through crashed holders and
\* waiters that take their lock over, in any number and any order.
THEOREM Exclusion == LockSpec => []OneHolder
<1>1. LockInv => OneHolder
  <2>1. SUFFICES ASSUME LockInv, upset = {}, NEW p \in Appenders, NEW q \in Appenders,
                        pc[p] = "held", pc[q] = "held"
                 PROVE  p = q
    BY DEF OneHolder
  <2>2. me[p] = lock.by /\ me[q] = lock.by /\ me[p] # 0
    BY <2>1 DEF LockInv, Owned, Holds, LockTypeOK
  <2>3. QED
    BY <2>1, <2>2 DEF LockInv, Numbered
<1>2. QED
  BY <1>1, LockInvariant, PTL

\* A holder that was slow, however long, lets go of no lock but its own.
THEOREM LateRelease == LockSpec => SuccessorKept
<1>1. ASSUME LockInv, upset \subseteq {"slow"}, NEW p \in Appenders,
             pc[p] = "breaking", LettingGo(p)
      PROVE  lock.by \in {0, me[p]}
  <2>1. lock.token = me[p] /\ me[p] # 0
    BY <1>1 DEF LockInv, Slowly, BrokenIsSeen, LettingGo, LockTypeOK
  <2>2. QED
    BY <1>1, <2>1 DEF LockInv, Numbered
<1>2. LockInv /\ [LockNext]_lockVars =>
        [upset \subseteq {"slow"} =>
            \A p \in Appenders :
               pc[p] = "breaking" /\ LettingGo(p) /\ pc'[p] = "unguarding" =>
                  lock.by \in {0, me[p]}]_lockVars
  BY <1>1
<1>3. QED
  BY <1>2, LockInvariant, PTL DEF LockSpec, SuccessorKept

-----------------------------------------------------------------------------
(* The log keeps to the lock *)

LEMMA StepKeepsToTheLock == [Next]_vars => [LockNext]_lockVars
<1>1. ASSUME NEW p \in Appenders, Begin(p) \/ AppendStep(p)
      PROVE  LockNext \/ UNCHANGED lockVars
  BY <1>1 DEF Begin, AppendStep, LockStep, ReadLog, WriteLine, WriteHead, Return, LockNext
<1>2. ASSUME NEW p \in Appenders, AppendFails(p) \/ Die(p)
      PROVE  LockNext
  BY <1>2 DEF AppendFails, Die, LockNext
<1>3. ASSUME CutTail \/ Damage \/ LoseHead \/ GarbleHead
      PROVE  LockNext
  BY <1>3 DEF CutTail, Damage, LoseHead, GarbleHead, Tamper, LockNext
<1>4. ASSUME NEW whole \in BOOLEAN, Purge(whole)
      PROVE  LockNext
  BY <1>4 DEF Purge, LockNext
<1>5. QED
  BY <1>1, <1>2, <1>3, <1>4 DEF Next, LockNext, vars

\* Whatever an append, a failure, a damaged file or a purge does, it takes the
\* lock, holds it and lets it go as DirLock says.
THEOREM KeepsToTheLock == Spec => LockSpec
<1>1. Init => LockInit
  BY DEF Init
<1>2. QED
  BY <1>1, StepKeepsToTheLock, PTL DEF Spec, LockSpec

\* No two sessions work on the log at once, as long as nobody dies in a
\* take-over, outlives LOCK_STALE at work or purges under an append.
THEOREM OneAtWork == Spec => []OneHolder
BY KeepsToTheLock, Exclusion, PTL

\* A session that outlived LOCK_STALE leaves its successor's lock alone.
THEOREM SuccessorSafe == Spec => SuccessorKept
BY KeepsToTheLock, LateRelease

-----------------------------------------------------------------------------
(* Types *)

LEMMA LineTypes ==
    /\ Torn \in Line /\ OldLine \in Line
    /\ \A n \in Nat, prev \in Hash : Receipt(n, prev) \in Line
<1>1. Genesis \in Hash /\ <<0>> \in Hash
  BY DEF Genesis, Hash
<1>2. \A n \in Nat, prev \in Hash : Append(prev, n) \in Hash
  BY AppendProperties DEF Hash
<1>3. QED
  BY <1>1, <1>2 DEF Line, Torn, OldLine, Receipt

\* A log without its last line, which is what another line is joined to.
LEMMA FrontIs ==
    ASSUME NEW lines \in Seq(Line)
    PROVE  /\ Front(lines) \in Seq(Line)
           /\ lines # << >> => Len(Front(lines)) = Len(lines) - 1
           /\ lines = << >> => Len(Front(lines)) = 0
           /\ \A i \in 1 .. Len(Front(lines)) : Front(lines)[i] = lines[i]
<1> DEFINE n == Len(lines)
           front == Front(lines)
<1>1. n \in Nat /\ (lines # << >> => n # 0) /\ (lines = << >> => n = 0)
  BY EmptySeq, LenProperties
<1>2. \A i \in 1 .. n - 1 : lines[i] \in Line
  BY <1>1, ElementOfSeq
<1>3. front = SubSeq(lines, 1, n - 1)
  BY DEF Front
<1> HIDE DEF n, front
<1>4. /\ front \in Seq(Line)
      /\ Len(front) = IF 1 <= n - 1 THEN n - 1 - 1 + 1 ELSE 0
      /\ \A i \in 1 .. n - 1 - 1 + 1 : front[i] = lines[1 + i - 1]
  BY <1>1, <1>2, <1>3, SubSeqProperties
<1>5. /\ n # 0 => Len(front) = n - 1
      /\ n = 0 => Len(front) = 0
  BY <1>1, <1>4
<1>6. \A i \in 1 .. Len(front) : front[i] = lines[i]
  BY <1>1, <1>4, <1>5
<1>7. QED
  BY <1>1, <1>4, <1>5, <1>6 DEF n, front

\* What is in the log after a line was written: as many lines or one more.
LEMMA WrittenIs ==
    ASSUME log \in Seq(Line), NEW line \in Line, NEW new, new = Written(line)
    PROVE  /\ new \in Seq(Line)
           /\ Len(new) = IF open /\ log # << >> THEN Len(log) ELSE Len(log) + 1
           /\ \A i \in 1 .. Len(new) - 1 : i \in 1 .. Len(log) /\ new[i] = log[i]
           /\ new[Len(new)] = IF open THEN Torn ELSE line
<1>1. CASE ~ open
  <2>1. new = Append(log, line)
    BY <1>1 DEF Written
  <2>2. QED
    BY <1>1, <2>1, AppendProperties, LenProperties
<1>2. CASE open
  <2>1. new = Front(log) \o <<Torn>>
    BY <1>2 DEF Written
  <2> DEFINE front == Front(log)
  <2>2. /\ front \in Seq(Line) /\ Len(front) \in Nat
        /\ log # << >> => Len(front) = Len(log) - 1
        /\ log = << >> => Len(front) = 0 /\ Len(log) = 0
        /\ \A i \in 1 .. Len(front) : front[i] = log[i]
        /\ Len(log) \in Nat
    BY FrontIs, LenProperties, EmptySeq
  <2>3. Append(front, Torn) = front \o <<Torn>>
    BY <2>2, LineTypes, AppendIsConcat
  <2> HIDE DEF front
  <2>4. /\ Append(front, Torn) \in Seq(Line)
        /\ Len(Append(front, Torn)) = Len(front) + 1
        /\ \A i \in 1 .. Len(front) : Append(front, Torn)[i] = front[i]
        /\ Append(front, Torn)[Len(front) + 1] = Torn
    BY <2>2, LineTypes, AppendProperties
  <2>5. new = Append(front, Torn)
    BY <2>1, <2>3 DEF front
  <2>6. QED
    BY <1>2, <2>2, <2>4, <2>5
<1>3. QED
  BY <1>1, <1>2

LEMMA ReadType ==
    ASSUME TypeOK
    PROVE  /\ Len(log) \in Nat
           /\ (IF log = << >> THEN Genesis ELSE Last(log).hash) \in Hash
           /\ Reaches \in BOOLEAN
<1>1. Len(log) \in Nat /\ (log # << >> => Len(log) \in 1 .. Len(log))
  BY LenProperties, EmptySeq DEF TypeOK
<1>2. log # << >> => log[Len(log)] \in Line
  BY <1>1, ElementOfSeq DEF TypeOK
<1>3. Genesis \in Hash
  BY DEF Genesis, Hash
<1>4. Reaches \in BOOLEAN
  BY Zenon DEF Reaches
<1>5. QED
  BY <1>1, <1>2, <1>3, <1>4 DEF Last, Line

LEMMA FragmentType ==
    ASSUME TypeOK, NEW p \in Appenders, Fragment(p)
    PROVE  /\ log' \in Seq(Line) /\ open' \in BOOLEAN
           /\ slips' \in Nat /\ touched' \in BOOLEAN
<1>1. me[p] \in Nat /\ job[p].prev \in Hash
  BY DEF TypeOK, LockTypeOK, Job
<1>2. MyLine(p) \in Line /\ Torn \in Line
  BY <1>1, LineTypes DEF MyLine
<1>3. log' \in Seq(Line)
  BY <1>2, WrittenIs DEF Fragment, Torns, TypeOK
<1>4. QED
  BY <1>3 DEF Fragment, TypeOK

LEMMA TypeStep == TypeOK /\ [Next]_vars => TypeOK'
<1> SUFFICES ASSUME TypeOK, [Next]_vars
             PROVE  TypeOK'
  OBVIOUS
<1>1. LockTypeOK'
  BY StepKeepsToTheLock, LockTypeStep DEF TypeOK
<1>2. NoJob \in Job /\ NoHead \in HeadFile /\ GarbledHead \in HeadFile
  BY DEF NoJob, Job, Genesis, Hash, NoHead, GarbledHead, HeadFile
<1>3. ASSUME NEW p \in Appenders PROVE [job EXCEPT ![p].step = "over"] \in [Appenders -> Job]
  BY DEF TypeOK, Job
<1>4. \A n \in Nat : said \union {n} \subseteq Nat
  BY DEF TypeOK
<1>5. \A p \in Appenders : me[p] \in Nat /\ job[p] \in Job /\ MyLine(p) \in Line
  BY LineTypes DEF MyLine, TypeOK, LockTypeOK, Job
<1>6. ASSUME NEW p \in Appenders, Begin(p) \/ LockStep(p) PROVE TypeOK'
  BY <1>1, <1>2, <1>6 DEF Begin, LockStep, logVars, TypeOK
<1>7. ASSUME NEW p \in Appenders, ReadLog(p) PROVE TypeOK'
  <2>1. job' \in [Appenders -> Job]
    BY <1>7, ReadType DEF ReadLog, Job, TypeOK
  <2>2. QED
    BY <1>1, <1>7, <2>1 DEF ReadLog, TypeOK
<1>8. ASSUME NEW p \in Appenders, WriteLine(p) PROVE TypeOK'
  <2>1. log' \in Seq(Line)
    BY <1>5, <1>8, WrittenIs DEF WriteLine, TypeOK
  <2>2. [job EXCEPT ![p].step = "head"] \in [Appenders -> Job]
    BY DEF TypeOK, Job
  <2>3. job' \in [Appenders -> Job] /\ said' \subseteq Nat
    <3>1. CASE job[p].advance
      BY <1>8, <2>2, <3>1 DEF WriteLine, TypeOK
    <3>2. CASE ~ job[p].advance
      BY <1>3, <1>4, <1>5, <1>8, <3>2 DEF WriteLine, Return
    <3>3. QED
      BY <3>1, <3>2
  <2>4. QED
    BY <1>1, <1>8, <2>1, <2>3 DEF WriteLine, TypeOK
<1>9. ASSUME NEW p \in Appenders, WriteHead(p) PROVE TypeOK'
  <2>1. head' \in HeadFile
    BY <1>5, <1>9 DEF WriteHead, HeadFile, Job, Line
  <2>2. slips' \in Nat
    BY <1>9 DEF WriteHead, TypeOK
  <2>3. QED
    BY <1>1, <1>3, <1>4, <1>5, <1>9, <2>1, <2>2 DEF WriteHead, Return, TypeOK
<1>10. ASSUME NEW p \in Appenders, AppendFails(p) PROVE TypeOK'
  <2>1. /\ log' \in Seq(Line) /\ open' \in BOOLEAN
        /\ slips' \in Nat /\ touched' \in BOOLEAN
    BY <1>10, FragmentType DEF AppendFails, TypeOK
  <2>2. QED
    BY <1>1, <1>3, <1>10, <2>1 DEF AppendFails, TypeOK
<1>11. ASSUME NEW p \in Appenders, Die(p) PROVE TypeOK'
  <2>1. /\ log' \in Seq(Line) /\ open' \in BOOLEAN
        /\ slips' \in Nat /\ touched' \in BOOLEAN
    BY <1>11, FragmentType DEF Die, TypeOK
  <2>2. QED
    BY <1>1, <1>2, <1>11, <2>1 DEF Die, TypeOK
<1>12. ASSUME NEW lines \in Seq(Line), NEW h \in HeadFile, Tamper(lines, h),
              open' \in BOOLEAN
       PROVE  TypeOK'
  BY <1>1, <1>12 DEF Tamper, TypeOK
<1>13. CASE CutTail
  <2>1. PICK k \in 0 .. Len(log) - 1 : Tamper(SubSeq(log, 1, k), head) /\ open' = FALSE
    BY <1>13 DEF CutTail
  <2>2. k \in Int /\ \A i \in 1 .. k : log[i] \in Line
    BY ElementOfSeq, LenProperties DEF TypeOK
  <2>3. SubSeq(log, 1, k) \in Seq(Line)
    BY <2>2, SubSeqProperties
  <2>4. QED
    BY <1>12, <2>1, <2>3 DEF TypeOK
<1>14. CASE Damage
  <2>1. PICK i \in 1 .. Len(log) : Tamper([log EXCEPT ![i] = Torn], head) /\ open' = open
    BY <1>14, LenProperties DEF Damage, TypeOK
  <2>2. [log EXCEPT ![i] = Torn] \in Seq(Line)
    BY ExceptSeq, LineTypes DEF TypeOK
  <2>3. QED
    BY <1>12, <2>1, <2>2 DEF TypeOK
<1>15. CASE LoseHead \/ GarbleHead
  BY <1>2, <1>12, <1>15 DEF LoseHead, GarbleHead, TypeOK
<1>16. ASSUME NEW whole \in BOOLEAN, Purge(whole) PROVE TypeOK'
  <2>1. /\ log' = << >> /\ open' = FALSE /\ slips' = 0 /\ job' = job
        /\ head' \in {head, NoHead} /\ said' \in {said, {}} /\ touched' \in BOOLEAN
    BY <1>16 DEF Purge
  <2>2. log' \in Seq(Line)
    BY <2>1
  <2>3. QED
    BY <1>1, <1>2, <2>1, <2>2 DEF TypeOK
<1>17. CASE ((LockAges \/ GuardAges) /\ UNCHANGED logVars) \/ UNCHANGED vars
  BY <1>1, <1>17 DEF vars, logVars, TypeOK
<1>18. QED
  BY <1>6, <1>7, <1>8, <1>9, <1>10, <1>11, <1>13, <1>14, <1>15, <1>16, <1>17
     DEF Next, AppendStep

\* The receipt log's variables have their types: a log is a sequence of lines,
\* and what a job has read of it a count and a hash.
THEOREM TypeCorrect == Spec => []TypeOK
<1>1. Init => TypeOK
  <2>1. Genesis \in Hash /\ << >> \in Seq(Line) /\ <<OldLine>> \in Seq(Line)
    BY LineTypes DEF Genesis, Hash
  <2>2. NoJob \in Job /\ NoHead \in HeadFile
    BY <2>1 DEF NoJob, Job, NoHead, HeadFile
  <2>3. Init => log \in Seq(Line)
    <3> HIDE DEF OldLine
    <3>1. QED
      BY <2>1 DEF Init
  <2>4. Init => job \in [Appenders -> Job] /\ head \in HeadFile
    BY <2>2 DEF Init
  <2>5. Init => open \in BOOLEAN /\ touched \in BOOLEAN
    BY Zenon DEF Init
  <2>6. Init => said \subseteq Nat /\ slips \in Nat
    BY DEF Init
  <2>7. QED
    BY <2>3, <2>4, <2>5, <2>6, LockTypeInit DEF Init, TypeOK
<1>2. QED
  BY <1>1, TypeStep, PTL DEF Spec

-----------------------------------------------------------------------------
(* Chains.  The first k lines bear the hash h: they are chained and end in   *)
(* it.  A hash is marked by the receipts it was made of.                     *)

ChainedTo(lines, k) ==
    \A i \in 1 .. k :
       /\ lines[i] # Torn
       /\ lines[i].prev = HashBefore(lines, i)
       /\ lines[i].hash = Append(lines[i].prev, lines[i].at)

Bears(lines, k, h) ==
    k <= Len(lines) /\ ChainedTo(lines, k) /\ HashBefore(lines, k + 1) = h

Marks(h) == {h[i] : i \in 1 .. Len(h)}

\* What was written after `lines`: torn lines, and as the last one a line with
\* another hash than h.
Follows(lines, new, h) ==
    \A i \in 1 .. Len(new) :
       \/ new[i] = Torn
       \/ i <= Len(lines) /\ new[i] = lines[i]
       \/ i = Len(new) /\ new[i].hash # h

LEMMA ChainedIs == \A lines \in Seq(Line) : Chained(lines) <=> ChainedTo(lines, Len(lines))
  BY LenProperties DEF Chained, ChainedTo

LEMMA MarksOfAppend ==
    /\ Marks(Genesis) = {}
    /\ \A h \in Hash, n \in Nat : Marks(Append(h, n)) = Marks(h) \union {n}
<1>1. Marks(Genesis) = {}
  BY EmptySeq DEF Marks, Genesis
<1>2. ASSUME NEW h \in Hash, NEW n \in Nat
      PROVE  Marks(Append(h, n)) = Marks(h) \union {n}
  <2> DEFINE g == Append(h, n)
  <2>1. /\ Len(g) = Len(h) + 1 /\ g[Len(h) + 1] = n /\ Len(h) \in Nat
        /\ \A i \in 1 .. Len(h) : g[i] = h[i]
    BY AppendProperties, LenProperties DEF Hash
  <2> HIDE DEF g
  <2>2. QED
    BY <2>1 DEF Marks, g
<1>3. QED
  BY <1>1, <1>2

LEMMA HashBeforeType ==
    ASSUME NEW lines \in Seq(Line), NEW i \in 1 .. Len(lines) + 1
    PROVE  HashBefore(lines, i) \in Hash
<1>1. Len(lines) \in Nat /\ Genesis \in Hash
  BY LenProperties DEF Genesis, Hash
<1>2. i # 1 => lines[i - 1] \in Line
  BY <1>1, ElementOfSeq
<1>3. QED
  BY <1>1, <1>2 DEF HashBefore, Line

\* A receipt that marks the hash of a chain is in one of its lines.
LEMMA ChainHolds ==
    ASSUME NEW lines \in Seq(Line), NEW k \in Nat, NEW h, Bears(lines, k, h), NEW n \in Marks(h)
    PROVE  \E i \in DOMAIN lines : lines[i].at = n
<1> DEFINE U == {j \in 0 .. k : n \in Marks(HashBefore(lines, j + 1))}
<1>1. Len(lines) \in Nat /\ DOMAIN lines = 1 .. Len(lines) /\ k <= Len(lines)
  BY LenProperties DEF Bears
<1>2. k \in U
  BY DEF Bears
<1>3. PICK u \in U : \A v \in U : ~ (<<v, u>> \in OpToRel(<, Nat))
  <2>1. U \subseteq Nat
    OBVIOUS
  <2> HIDE DEF U
  <2>2. U # {}
    BY <1>2
  <2>3. QED
    BY <2>1, <2>2, NatLessThanWellFounded, WFMin, Zenon
<1>4. u # 0
  <2>1. HashBefore(lines, 0 + 1) = Genesis
    BY DEF HashBefore
  <2>2. n \notin Marks(HashBefore(lines, 0 + 1))
    BY <2>1, MarksOfAppend, Zenon
  <2>3. QED
    BY <2>2
<1>5. u - 1 \notin U
  <2>1. u - 1 < u /\ u - 1 \in Nat /\ u \in Nat
    BY <1>4
  <2>2. QED
    BY <1>3, <2>1, Zenon DEF OpToRel
<1>6. u \in 1 .. k /\ n \in Marks(HashBefore(lines, u + 1)) /\ n \notin Marks(HashBefore(lines, u))
  <2>1. u \in 1 .. k /\ u - 1 + 1 = u
    BY <1>4
  <2>2. n \notin Marks(HashBefore(lines, u - 1 + 1))
    BY <1>5, <2>1
  <2>3. QED
    BY <2>1, <2>2
<1>7. HashBefore(lines, u + 1) = Append(HashBefore(lines, u), lines[u].at)
  <2>1. HashBefore(lines, u + 1) = lines[u].hash
    BY <1>6 DEF HashBefore
  <2>2. QED
    BY <1>6, <2>1 DEF Bears, ChainedTo
<1>8. HashBefore(lines, u) \in Hash /\ lines[u].at \in Nat
  <2>1. u \in 1 .. Len(lines) /\ u \in 1 .. Len(lines) + 1
    BY <1>1, <1>6
  <2>2. lines[u] \in Line
    BY <2>1, ElementOfSeq
  <2>3. HashBefore(lines, u) \in Hash
    BY <2>1, HashBeforeType
  <2>4. QED
    BY <2>2, <2>3 DEF Line
<1>9. lines[u].at = n
  <2>1. Marks(Append(HashBefore(lines, u), lines[u].at))
          = Marks(HashBefore(lines, u)) \union {lines[u].at}
    BY <1>8, MarksOfAppend
  <2>2. n \in Marks(HashBefore(lines, u)) \union {lines[u].at}
    BY <1>6, <1>7, <2>1, Zenon
  <2>3. QED
    BY <1>6, <2>2, Zenon
<1>10. QED
  BY <1>1, <1>6, <1>9

LEMMA BearsShorter ==
    ASSUME NEW lines \in Seq(Line), NEW k \in Nat, NEW h \in Hash, NEW n \in Nat,
           Bears(lines, k + 1, Append(h, n))
    PROVE  Bears(lines, k, h)
<1>1. k + 1 \in 1 .. Len(lines) /\ Len(lines) \in Nat
  BY LenProperties DEF Bears
<1>2. /\ lines[k + 1].prev = HashBefore(lines, k + 1)
      /\ lines[k + 1].hash = Append(lines[k + 1].prev, lines[k + 1].at)
  BY DEF Bears, ChainedTo
<1>3. lines[k + 1].hash = Append(h, n)
  BY <1>1 DEF Bears, HashBefore
<1>4. lines[k + 1] \in Line
  BY <1>1, ElementOfSeq
<1>5. lines[k + 1].prev = h
  <2> DEFINE prev == lines[k + 1].prev
             at == lines[k + 1].at
  <2>1. prev \in Seq(Nat) /\ at \in Nat /\ h \in Seq(Nat)
    BY <1>4 DEF Line, Hash
  <2>2. Append(prev, at) = Append(h, n)
    BY <1>2, <1>3
  <2> HIDE DEF prev, at
  <2>3. prev = h
    BY <2>1, <2>2, AppendInjective
  <2>4. QED
    BY <2>3 DEF prev
<1>6. QED
  BY <1>1, <1>2, <1>5 DEF Bears, ChainedTo

LEMMA BearsLonger ==
    ASSUME NEW lines \in Seq(Line), NEW k \in Nat, NEW h, Bears(lines, k, h), k < Len(lines),
           ChainedTo(lines, k + 1)
    PROVE  Bears(lines, k + 1, Append(h, lines[k + 1].at))
<1>1. Len(lines) \in Nat
  BY LenProperties
<1>2. HashBefore(lines, k + 1 + 1) = lines[k + 1].hash
  BY DEF HashBefore
<1>3. lines[k + 1].hash = Append(HashBefore(lines, k + 1), lines[k + 1].at)
  BY DEF ChainedTo
<1>4. QED
  BY <1>1, <1>2, <1>3 DEF Bears

\* Nothing written, cut or damaged makes a log bear a hash it did not bear.
LEMMA NothingComesBack ==
    ASSUME NEW lines \in Seq(Line), NEW new \in Seq(Line), NEW k \in Nat, NEW h,
           Bears(new, k, h), Follows(lines, new, h)
    PROVE  Bears(lines, k, h)
<1>1. /\ Len(lines) \in Nat /\ Len(new) \in Nat /\ k <= Len(new)
  BY LenProperties DEF Bears
<1>2. ASSUME NEW i \in 1 .. k PROVE i <= Len(lines) /\ new[i] = lines[i]
  <2>1. i \in 1 .. Len(new) /\ new[i] # Torn
    BY <1>1 DEF Bears, ChainedTo
  <2>2. ASSUME i = Len(new) PROVE new[i].hash = h
    <3>1. i = k
      BY <1>1, <2>1, <2>2
    <3>2. HashBefore(new, k + 1) = new[k].hash
      BY <3>1 DEF HashBefore
    <3>3. QED
      BY <3>1, <3>2 DEF Bears
  <2>3. QED
    BY <2>1, <2>2 DEF Follows
<1>3. k <= Len(lines)
  BY <1>1, <1>2
<1>4. \A i \in 1 .. k + 1 : HashBefore(lines, i) = HashBefore(new, i)
  BY <1>2 DEF HashBefore
<1>5. QED
  BY <1>2, <1>3, <1>4 DEF Bears, ChainedTo

-----------------------------------------------------------------------------
(* The invariant, for a lock that excludes (OneAtWork).                      *)

Busy(p) == AtWork(p, "write") \/ AtWork(p, "head")

\* The log bears what the head records, and what p has read of the log.
HeadHolds == head.state = "good" /\ Bears(log, head.count, head.hash)

JobHolds(p) == Bears(log, job[p].count, job[p].prev)

OnlyAtWork == \A p \in Appenders : job[p].step \in {"write", "head"} => pc[p] = "held"

\* Whether receipt n marks a hash anywhere, and who has not written its own.
InUse(n) ==
    \/ n \in Marks(head.hash)
    \/ \E i \in 1 .. Len(log) : n \in Marks(log[i].hash)
    \/ \E p \in Appenders : n \in Marks(job[p].prev)

Unwritten(p) == me[p] # 0 /\ job[p].step \in {"read", "write"}

Numbering ==
    /\ \A n \in Nat : InUse(n) => n <= fresh
    /\ \A p \in Appenders : Unwritten(p) => ~ InUse(me[p])

HeadCounts == head.state = "good" => head.count >= 1

\* Of a log that could be a new one nothing was said.
NewIsEmpty == Traceless(log, head) /\ Chained(log) => said = {}

\* Behind the head are the lines of the appends that ended, and of the one at
\* work.
Lengths ==
    /\ \A p \in Appenders :
          /\ AtWork(p, "write") => Len(log) <= job[p].count
          /\ AtWork(p, "head") => Len(log) <= job[p].count + 1 /\ job[p].advance
    /\ HeadHolds /\ slips <= 1 =>
          \/ Len(log) <= head.count + slips
          \/ /\ \E p \in Appenders : AtWork(p, "head")
             /\ Len(log) <= head.count + slips + 1

\* What was said is what the head has, or will have when p is done.
Covered ==
    /\ HeadHolds /\ slips <= 1 => said \subseteq Marks(head.hash)
    /\ \A p \in Appenders : Busy(p) =>
          /\ ~ job[p].advance => ~ (HeadHolds /\ slips <= 1)
          /\ job[p].advance /\ JobHolds(p) /\ slips <= 1 => said \subseteq Marks(job[p].prev)
          /\ job[p].advance /\ job[p].count = 0 => said = {}

\* A log nobody touched is a chain that its head is a part of.
Untouched ==
    ~ touched =>
       /\ ~ open /\ Chained(log) /\ head.state # "garbled"
       /\ head.state = "good" => HeadHolds
       /\ \A p \in Appenders :
             /\ AtWork(p, "write") => job[p].count = Len(log) /\ JobHolds(p)
             /\ AtWork(p, "head") =>
                   job[p].count + 1 = Len(log) /\ log[Len(log)].hash = MyLine(p).hash

LogInv ==
    /\ OnlyAtWork /\ Numbering /\ HeadCounts /\ NewIsEmpty
    /\ upset = {} => Lengths /\ Covered /\ Untouched

Sure == TypeOK /\ Numbered /\ OneHolder /\ LogInv

-----------------------------------------------------------------------------
(* Steps that leave the log alone                                            *)

LEMMA BusyAlone ==
    ASSUME Sure, upset = {}, NEW p \in Appenders, pc[p] = "held", NEW q \in Appenders, q # p
    PROVE  ~ Busy(q) /\ ~ AtWork(q, "head")
BY DEF Sure, OneHolder, Busy, AtWork

\* Nobody's work under the lock begins, ends or goes on.
Rests ==
    /\ UNCHANGED <<log, open, head, said, slips, touched>>
    /\ OnlyAtWork' /\ fresh <= fresh' /\ fresh' \in Nat
    /\ \A p \in Appenders :
          /\ AtWork(p, "write")' <=> AtWork(p, "write")
          /\ AtWork(p, "head")' <=> AtWork(p, "head")
          /\ job'[p].prev \in {job[p].prev, Genesis}
          /\ Unwritten(p)' => me'[p] > fresh \/ (Unwritten(p) /\ me'[p] = me[p])
          /\ Busy(p) => job'[p] = job[p] /\ me'[p] = me[p]
    /\ upset' = {} => upset = {}

LEMMA RestKeeps ==
    ASSUME Sure, TypeOK', Rests
    PROVE  LogInv'
<1>1. Numbering'
  <2>1. ASSUME NEW n \in Nat, InUse(n)' PROVE InUse(n)
    <3>1. n \notin Marks(Genesis)
      BY MarksOfAppend, Zenon
    <3>2. QED
      BY <2>1, <3>1 DEF InUse, Rests
  <2>2. \A p \in Appenders : me'[p] \in Nat /\ me[p] \in Nat
    BY DEF Sure, TypeOK, LockTypeOK
  <2>3. fresh \in Nat
    BY DEF Sure, TypeOK, LockTypeOK
  <2>4. ASSUME NEW p \in Appenders, Unwritten(p)', InUse(me[p])' PROVE FALSE
    <3>1. InUse(me'[p])
      BY <2>1, <2>2, <2>4
    <3>2. ~ (me'[p] > fresh)
      BY <2>2, <2>3, <3>1 DEF Sure, LogInv, Numbering
    <3>3. QED
      BY <2>4, <3>1, <3>2 DEF Rests, Sure, LogInv, Numbering
  <2>5. QED
    BY <2>1, <2>3, <2>4 DEF Numbering, Sure, LogInv, Rests
<1>2. OnlyAtWork' /\ HeadCounts' /\ NewIsEmpty'
  BY DEF Rests, Sure, LogInv, HeadCounts, NewIsEmpty, Traceless, HasCurrent
<1>3. ASSUME upset' = {} PROVE Lengths' /\ Covered' /\ Untouched'
  <2>1. Lengths /\ Covered /\ Untouched
    BY <1>3 DEF Rests, Sure, LogInv
  <2>2. HeadHolds' = HeadHolds
    BY DEF Rests, HeadHolds
  <2>3. \A p \in Appenders : Busy(p)' => /\ Busy(p) /\ job'[p] = job[p]
                                         /\ JobHolds(p)' = JobHolds(p)
                                         /\ MyLine(p)' = MyLine(p)
    BY DEF Rests, Busy, JobHolds, MyLine
  <2>4. Lengths'
    BY <2>1, <2>2, <2>3 DEF Rests, Lengths, Busy
  <2>5. Covered'
    BY <2>1, <2>2, <2>3 DEF Rests, Covered
  <2>6. Untouched'
    BY <2>1, <2>2, <2>3 DEF Rests, Untouched, Busy
  <2>7. QED
    BY <2>4, <2>5, <2>6
<1>4. QED
  BY <1>1, <1>2, <1>3 DEF LogInv

LEMMA RestIs ==
    ASSUME Sure, UNCHANGED <<log, open, head, said, slips, touched>>,
           fresh \in Nat, fresh' \in Nat, fresh <= fresh', upset \subseteq upset',
           \A p \in Appenders :
              \/ job'[p] = job[p] /\ pc'[p] = pc[p] /\ me'[p] = me[p]
              \/ /\ ~ Busy(p)
                 /\ \/ job'[p] = job[p] /\ (me'[p] = me[p] \/ me'[p] > fresh)
                    \/ job'[p] = job[p] /\ me'[p] = 0
                    \/ job'[p] = NoJob /\ me'[p] = 0
    PROVE  Rests
<1> DEFINE Same(p) == job'[p] = job[p] /\ pc'[p] = pc[p] /\ me'[p] = me[p]
<1>1. \A p \in Appenders : job[p].step \in {"write", "head"} => pc[p] = "held"
  BY DEF Sure, LogInv, OnlyAtWork
<1>2. NoJob.step = "read" /\ NoJob.prev = Genesis
  BY DEF NoJob
<1>3. ASSUME NEW p \in Appenders
      PROVE  /\ job'[p].step \in {"write", "head"} => pc'[p] = "held" /\ pc[p] = "held"
             /\ AtWork(p, "write")' <=> AtWork(p, "write")
             /\ AtWork(p, "head")' <=> AtWork(p, "head")
             /\ Busy(p) => job'[p] = job[p] /\ me'[p] = me[p]
  <2>1. CASE Same(p)
    BY <1>1, <2>1 DEF AtWork, Busy
  <2>2. CASE ~ Busy(p)
    <3>1. job'[p] \in {job[p], NoJob}
      OBVIOUS
    <3>2. job'[p].step \notin {"write", "head"} /\ job[p].step \notin {"write", "head"}
      BY <1>1, <1>2, <2>2, <3>1 DEF Busy, AtWork
    <3>3. QED
      BY <3>2 DEF AtWork, Busy
  <2>3. QED
    BY <2>1, <2>2
<1>4. ASSUME NEW p \in Appenders
      PROVE  /\ job'[p].prev \in {job[p].prev, Genesis}
             /\ Unwritten(p)' => me'[p] > fresh \/ (Unwritten(p) /\ me'[p] = me[p])
  <2>1. CASE me'[p] = 0
    <3>1. ~ Unwritten(p)' /\ job'[p] \in {job[p], NoJob}
      BY <2>1 DEF Unwritten
    <3>2. QED
      BY <1>2, <3>1
  <2>2. CASE job'[p] = job[p] /\ (me'[p] = me[p] \/ me'[p] > fresh)
    <3>1. Unwritten(p)' /\ me'[p] = me[p] => Unwritten(p)
      BY <2>2 DEF Unwritten
    <3>2. job'[p].prev = job[p].prev
      BY <2>2
    <3>3. CASE me'[p] > fresh
      BY <3>2, <3>3
    <3>4. CASE me'[p] = me[p]
      BY <3>1, <3>2, <3>4
    <3>5. QED
      BY <2>2, <3>3, <3>4
  <2>3. QED
    BY <2>1, <2>2
<1>5. QED
  BY <1>3, <1>4 DEF Rests, OnlyAtWork

LEMMA LockStepKeeps ==
    ASSUME Sure, TypeOK',
           \/ \E p \in Appenders : Begin(p) \/ LockStep(p)
           \/ (LockAges \/ GuardAges) /\ UNCHANGED logVars
           \/ UNCHANGED vars
    PROVE  LogInv'
<1>1. fresh \in Nat /\ fresh' \in Nat
  BY DEF Sure, TypeOK, LockTypeOK
<1>2. ASSUME NEW p \in Appenders, Begin(p) PROVE Rests
  <2>1. /\ ~ Busy(p) /\ UNCHANGED logVars /\ fresh' = fresh + 1
        /\ me'[p] = fresh + 1 /\ upset' = upset
        /\ \A q \in Appenders \ {p} : pc'[q] = pc[q] /\ me'[q] = me[q]
    BY <1>2 DEF Begin, Ask, GoTo, Sure, TypeOK, LockTypeOK, Busy, AtWork
  <2>2. me'[p] > fresh /\ fresh <= fresh'
    BY <1>1, <2>1
  <2>3. QED
    BY <1>1, <2>1, <2>2, RestIs DEF logVars
<1>3. ASSUME NEW p \in Appenders, LockStep(p) PROVE Rests
  <2>1. /\ ~ Busy(p)
        /\ me'[p] \in {me[p], 0}
        /\ \A q \in Appenders \ {p} : pc'[q] = pc[q] /\ me'[q] = me[q]
        /\ UNCHANGED fresh /\ upset' = upset
    BY <1>3 DEF LockStep, Acquiring, Create, WriteToken, TokenFails, GiveUp, JudgeStale,
       ReadToken, TakeGuard, GuardTaken, ClearGuard, Check, Break, Unguard, Drop, GoTo,
       Leave, Guarding, Sure, TypeOK, LockTypeOK, Busy, AtWork
  <2>2. UNCHANGED <<log, open, head, said, slips, touched>>
    BY <1>3 DEF LockStep
  <2>3. \/ job' = job
        \/ job' = [job EXCEPT ![p] = NoJob] /\ pc'[p] = "idle"
    BY <1>3 DEF LockStep
  <2>4. \A q \in Appenders : q # p => job'[q] = job[q]
    BY <2>3 DEF Sure, TypeOK
  <2>5. job'[p] = job[p] \/ (job'[p] = NoJob /\ pc'[p] = "idle")
    <3>1. job \in [Appenders -> Job]
      BY DEF Sure, TypeOK
    <3>2. [job EXCEPT ![p] = NoJob][p] = NoJob
      BY <3>1
    <3>3. CASE job' = job
      BY <3>3
    <3>4. CASE job' = [job EXCEPT ![p] = NoJob] /\ pc'[p] = "idle"
      BY <3>2, <3>4
    <3>5. QED
      BY <2>3, <3>3, <3>4
  <2>6. pc'[p] = "idle" => me'[p] = 0
    BY DEF TypeOK, LockTypeOK
  <2>7. fresh <= fresh'
    BY <1>1, <2>1
  <2>8. QED
    BY <1>1, <2>1, <2>2, <2>4, <2>5, <2>6, <2>7, RestIs
<1>4. CASE ((LockAges \/ GuardAges) /\ UNCHANGED logVars) \/ UNCHANGED vars
  <2>1. UNCHANGED <<logVars, pc, me, fresh>>
    BY <1>4 DEF LockAges, GuardAges, vars, lockVars
  <2>2. upset \subseteq upset'
    BY <1>4 DEF LockAges, GuardAges, vars, lockVars
  <2>3. fresh <= fresh'
    BY <1>1, <2>1
  <2>4. /\ UNCHANGED <<log, open, head, said, slips, touched>>
        /\ \A p \in Appenders : job'[p] = job[p] /\ pc'[p] = pc[p] /\ me'[p] = me[p]
    BY <2>1 DEF logVars
  <2>5. QED
    BY <1>1, <2>2, <2>3, <2>4, RestIs, RestKeeps
<1>5. QED
  BY <1>2, <1>3, <1>4, RestKeeps

-----------------------------------------------------------------------------
(* What a step does to the numbers and the lines                             *)

LEMMA NumberingKept ==
    ASSUME Sure, TypeOK', NEW p \in Appenders, me[p] # 0, fresh' = fresh,
           \A n \in Nat : InUse(n)' => InUse(n) \/ (n = me[p] /\ ~ Unwritten(p)'),
           \A q \in Appenders : Unwritten(q)' => Unwritten(q) /\ me'[q] = me[q]
    PROVE  Numbering'
<1>1. /\ \A q \in Appenders : me[q] \in Nat /\ me'[q] \in Nat /\ me[q] <= fresh
      /\ fresh \in Nat
  BY DEF Sure, TypeOK, LockTypeOK, Numbered
<1>2. Numbering
  BY DEF Sure, LogInv
<1>3. ASSUME NEW n \in Nat, InUse(n)' PROVE n <= fresh'
  <2>1. CASE InUse(n)
    BY <1>2, <2>1 DEF Numbering
  <2>2. CASE n = me[p]
    BY <1>1, <2>2
  <2>3. QED
    BY <1>3, <2>1, <2>2
<1>4. ASSUME NEW q \in Appenders, Unwritten(q)', InUse(me[q])' PROVE FALSE
  <2>1. Unwritten(q) /\ me'[q] = me[q] /\ ~ InUse(me[q])
    BY <1>2, <1>4 DEF Numbering
  <2>2. InUse(me'[q]) \/ (me'[q] = me[p] /\ ~ Unwritten(p)')
    BY <1>1, <1>4
  <2>3. me'[q] = me[p] /\ ~ Unwritten(p)'
    BY <2>1, <2>2
  <2>4. q = p
    BY <2>1, <2>3 DEF Sure, Numbered
  <2>5. QED
    BY <1>4, <2>3, <2>4
<1>5. QED
  BY <1>3, <1>4 DEF Numbering

\* What p's line does to the log, whole or torn.
LEMMA WritingIs ==
    ASSUME Sure, NEW p \in Appenders, AtWork(p, "write"),
           NEW line \in {Torn, MyLine(p)}, log' = Written(line)
    PROVE  /\ Len(log') \in Nat /\ Len(log) \in Nat /\ Len(log') <= Len(log) + 1
           /\ \A i \in 1 .. Len(log'), n \in Nat :
                 n \in Marks(log'[i].hash) => InUse(n) \/ n = me[p]
           /\ Follows(log, log', head.hash) /\ Follows(log, log', job[p].prev)
           /\ \A h : ~ (Traceless(log', h) /\ Chained(log'))
<1>1. /\ me[p] \in Nat /\ me[p] # 0 /\ job[p].prev \in Hash /\ log \in Seq(Line)
      /\ Len(log) \in Nat
  BY LenProperties DEF Sure, TypeOK, LockTypeOK, Job, AtWork
<1>2. line \in Line
  BY <1>1, LineTypes DEF MyLine
<1>3. /\ log' \in Seq(Line)
      /\ Len(log') = IF open /\ log # << >> THEN Len(log) ELSE Len(log) + 1
      /\ \A i \in 1 .. Len(log') - 1 : i \in 1 .. Len(log) /\ log'[i] = log[i]
      /\ log'[Len(log')] = IF open THEN Torn ELSE line
  BY <1>1, <1>2, WrittenIs
<1>4. Len(log') \in Nat /\ Len(log') >= 1 /\ Len(log') <= Len(log) + 1
  BY <1>1, <1>3, EmptySeq
<1> DEFINE last == log'[Len(log')]
<1>5. last \in {Torn, MyLine(p)}
  BY <1>3
<1> HIDE DEF last
<1>6. \A i \in 1 .. Len(log') : (i \in 1 .. Len(log) /\ log'[i] = log[i]) \/ (i = Len(log') /\ log'[i] = last)
  BY <1>3, <1>4 DEF last
<1>7. Marks(Torn.hash) = {} /\ Marks(MyLine(p).hash) = Marks(job[p].prev) \union {me[p]}
  BY <1>1, MarksOfAppend DEF Torn, MyLine, Receipt
<1>8. \A n \in Marks(last.hash) : InUse(n) \/ n = me[p]
  <2>1. CASE last = Torn
    BY <1>7, <2>1
  <2>2. CASE last = MyLine(p)
    BY <1>7, <2>2 DEF InUse
  <2>3. QED
    BY <1>5, <2>1, <2>2
<1>9. ASSUME NEW h, me[p] \notin Marks(h) PROVE Follows(log, log', h)
  <2>1. last = Torn \/ last.hash # h
    BY <1>5, <1>7, <1>9
  <2>2. QED
    BY <1>1, <1>6, <2>1 DEF Follows
<1>10. me[p] \notin Marks(head.hash) /\ me[p] \notin Marks(job[p].prev)
  BY <1>1 DEF Sure, LogInv, Numbering, Unwritten, InUse, AtWork
<1>11. ASSUME NEW h, Traceless(log', h), Chained(log') PROVE FALSE
  <2>1. Len(log') \in DOMAIN log'
    BY <1>3, <1>4, LenProperties
  <2>2. last # Torn
    BY <1>11, <2>1 DEF Chained, last
  <2>3. last.at # 0
    BY <1>1, <1>5, <2>2 DEF MyLine, Receipt
  <2>4. QED
    BY <1>11, <2>1, <2>3 DEF Traceless, HasCurrent, IsCurrent, last
<1>12. \A i \in 1 .. Len(log'), n \in Nat : n \in Marks(log'[i].hash) => InUse(n) \/ n = me[p]
  BY <1>6, <1>8 DEF InUse
<1>13. QED
  BY <1>1, <1>4, <1>9, <1>10, <1>11, <1>12

-----------------------------------------------------------------------------
(* Work under the lock that fails or dies                                    *)

LEMMA StopKeeps ==
    ASSUME Sure, TypeOK', NEW p \in Appenders, Busy(p),
           head' = head, said' = said, fresh' = fresh, upset \subseteq upset',
           \A q \in Appenders : q # p => job'[q] = job[q] /\ pc'[q] = pc[q] /\ me'[q] = me[q],
           job'[p].step \in {"read", "over"}, ~ Unwritten(p)',
           job'[p].prev \in {job[p].prev, Genesis},
           \/ /\ UNCHANGED <<log, open, touched>> /\ slips' \in {slips, slips + 1}
              /\ AtWork(p, "head") => slips' = slips + 1
           \/ /\ AtWork(p, "write") /\ log' \in {Written(Torn), Written(MyLine(p))}
              /\ touched' /\ slips' = slips + 1
    PROVE  LogInv'
<1>1. /\ slips \in Nat /\ log \in Seq(Line) /\ log' \in Seq(Line) /\ Len(log) \in Nat
      /\ me[p] # 0 /\ pc[p] = "held" /\ (head.state = "good" => head.count \in Nat)
  BY LenProperties DEF Sure, TypeOK, LockTypeOK, Busy, AtWork, HeadFile
<1> DEFINE Wrote == AtWork(p, "write") /\ log' \in {Written(Torn), Written(MyLine(p))}
                      /\ touched' /\ slips' = slips + 1
           Left == UNCHANGED <<log, open, touched>> /\ slips' \in {slips, slips + 1}
                      /\ (AtWork(p, "head") => slips' = slips + 1)
<1>2. Wrote \/ Left
  OBVIOUS
<1>3. Wrote => /\ Len(log') \in Nat /\ Len(log') <= Len(log) + 1
               /\ \A i \in 1 .. Len(log'), n \in Nat :
                     n \in Marks(log'[i].hash) => InUse(n) \/ n = me[p]
               /\ Follows(log, log', head.hash)
               /\ \A h : ~ (Traceless(log', h) /\ Chained(log'))
  BY WritingIs
<1> HIDE DEF Wrote, Left
<1>4. OnlyAtWork'
  BY DEF OnlyAtWork, Sure, LogInv
<1>5. Numbering'
  <2>1. ASSUME NEW n \in Nat, InUse(n)' PROVE InUse(n) \/ n = me[p]
    <3>1. CASE n \in Marks(head'.hash)
      BY <3>1 DEF InUse
    <3>2. ASSUME NEW i \in 1 .. Len(log'), n \in Marks(log'[i].hash) PROVE InUse(n) \/ n = me[p]
      BY <1>2, <1>3, <3>2 DEF InUse, Left
    <3>3. ASSUME NEW q \in Appenders, n \in Marks(job'[q].prev) PROVE InUse(n)
      <4>1. n \notin Marks(Genesis)
        BY MarksOfAppend, Zenon
      <4>2. QED
        BY <3>3, <4>1 DEF InUse
    <3>4. QED
      BY <2>1, <3>1, <3>2, <3>3 DEF InUse
  <2>2. ASSUME NEW q \in Appenders, Unwritten(q)' PROVE Unwritten(q) /\ me'[q] = me[q]
    <3>1. q # p
      BY <2>2
    <3>2. QED
      BY <2>2, <3>1 DEF Unwritten
  <2>3. QED
    BY <1>1, <2>1, <2>2, NumberingKept
<1>6. HeadCounts' /\ NewIsEmpty'
  BY <1>2, <1>3 DEF HeadCounts, NewIsEmpty, Traceless, Sure, LogInv, Left
<1>7. ASSUME upset' = {} PROVE Lengths' /\ Covered' /\ Untouched'
  <2>1. upset = {} /\ Lengths /\ Covered /\ Untouched
    BY <1>7 DEF Sure, LogInv
  <2>2. \A q \in Appenders : ~ Busy(q)' /\ ~ AtWork(q, "write")' /\ ~ AtWork(q, "head")'
    <3>1. \A q \in Appenders : q # p => ~ Busy(q)
      BY <1>1, <2>1, BusyAlone
    <3>2. QED
      BY <3>1 DEF Busy, AtWork
  <2>3. HeadHolds' => HeadHolds
    <3>1. HeadHolds' => Bears(log', head.count, head.hash) /\ head.state = "good"
      BY DEF HeadHolds
    <3>2. Follows(log, log', head.hash)
      BY <1>1, <1>2, <1>3 DEF Left, Follows
    <3>3. QED
      BY <1>1, <3>1, <3>2, NothingComesBack DEF HeadHolds
  <2>4. slips' <= 1 => slips <= 1
    BY <1>1, <1>2 DEF Wrote, Left
  <2>5. ASSUME HeadHolds', slips' <= 1 PROVE Len(log') <= head.count + slips'
    <3>1. \/ Len(log) <= head.count + slips
          \/ /\ \E q \in Appenders : AtWork(q, "head")
             /\ Len(log) <= head.count + slips + 1
      BY <2>1, <2>3, <2>4, <2>5 DEF Lengths
    <3>2. head.count \in Nat
      BY <1>1, <2>3, <2>5 DEF HeadHolds
    <3>3. CASE AtWork(p, "head")
      <4>1. Left
        BY <1>2, <3>3 DEF Wrote, AtWork
      <4>2. QED
        BY <1>1, <3>1, <3>2, <3>3, <4>1 DEF Left
    <3>4. CASE ~ AtWork(p, "head")
      <4>1. \A q \in Appenders : ~ AtWork(q, "head")
        BY <1>1, <2>1, <3>4, BusyAlone
      <4>2. Len(log) <= head.count + slips
        BY <3>1, <4>1
      <4>3. QED
        BY <1>1, <1>2, <1>3, <3>2, <4>2 DEF Left, Wrote
    <3>5. QED
      BY <3>3, <3>4
  <2>6. Lengths'
    BY <2>2, <2>5 DEF Lengths
  <2>7. Covered'
    BY <2>1, <2>2, <2>3, <2>4 DEF Covered
  <2>8. Untouched'
    BY <1>2, <2>1, <2>2 DEF Untouched, Wrote, Left, HeadHolds
  <2>9. QED
    BY <2>6, <2>7, <2>8
<1>8. QED
  BY <1>4, <1>5, <1>6, <1>7 DEF LogInv

LEMMA FailKeeps ==
    ASSUME Sure, TypeOK', NEW p \in Appenders, AppendFails(p) \/ Die(p)
    PROVE  LogInv'
<1>1. /\ head' = head /\ said' = said /\ fresh' = fresh /\ upset \subseteq upset'
      /\ fresh \in Nat
      /\ \A q \in Appenders : q # p => job'[q] = job[q] /\ pc'[q] = pc[q] /\ me'[q] = me[q]
  BY DEF AppendFails, Die, WorkFails, Crash, GoTo, Leave, Sure, TypeOK, LockTypeOK
<1>2. /\ job'[p].step \in {"read", "over"} /\ job'[p].prev \in {job[p].prev, Genesis}
      /\ job'[p].step = "over" \/ (me'[p] = 0 /\ job'[p] = NoJob)
  <2>1. job \in [Appenders -> Job] /\ me \in [Appenders -> Nat]
    BY DEF Sure, TypeOK, LockTypeOK
  <2>2. CASE AppendFails(p)
    BY <2>1, <2>2 DEF AppendFails, Job
  <2>3. CASE Die(p)
    BY <2>1, <2>3 DEF Die, Crash, Leave, NoJob
  <2>4. QED
    BY <2>2, <2>3
<1>3. ~ Unwritten(p)'
  BY <1>2 DEF Unwritten
<1>4. CASE Busy(p)
  <2>1. \/ AtWork(p, "write") /\ Fragment(p)
        \/ ~ AtWork(p, "write") /\ slips' = slips + 1 /\ UNCHANGED <<log, open, touched>>
    BY <1>4 DEF AppendFails, Die, Busy, AtWork
  <2>2. CASE AtWork(p, "write") /\ Fragment(p)
    <3>1. log' = log \/ log' \in {Written(Torn), Written(MyLine(p))}
      BY <2>2 DEF Fragment, Torns
    <3>2. CASE log' = log
      <4>1. UNCHANGED <<log, open, touched>> /\ slips' = slips
        BY <2>2, <3>2 DEF Fragment, Sure, TypeOK
      <4>2. ~ AtWork(p, "head")
        BY <2>2 DEF AtWork
      <4>3. QED
        BY <1>1, <1>2, <1>3, <1>4, <4>1, <4>2, StopKeeps
    <3>3. CASE log' # log
      <4>1. touched' /\ slips' = slips + 1
        BY <2>2, <3>3 DEF Fragment
      <4>2. QED
        BY <1>1, <1>2, <1>3, <1>4, <2>2, <3>1, <3>3, <4>1, StopKeeps
    <3>4. QED
      BY <3>2, <3>3
  <2>3. CASE slips' = slips + 1 /\ UNCHANGED <<log, open, touched>>
    BY <1>1, <1>2, <1>3, <1>4, <2>3, StopKeeps
  <2>4. QED
    BY <2>1, <2>2, <2>3
<1>5. CASE ~ Busy(p)
  <2>1. Die(p) /\ UNCHANGED <<log, open, head, said, slips, touched>>
    BY <1>5 DEF AppendFails, Die, Busy
  <2>2. job'[p] = NoJob /\ me'[p] = 0
    BY <2>1 DEF Die, Crash, Leave, Sure, TypeOK, LockTypeOK
  <2>3. fresh <= fresh' /\ fresh' \in Nat
    BY <1>1
  <2>4. Rests
    BY <1>1, <1>5, <2>1, <2>2, <2>3, RestIs
  <2>5. QED
    BY <2>4, RestKeeps
<1>6. QED
  BY <1>4, <1>5

-----------------------------------------------------------------------------
(* Work under the lock that gets on                                          *)

LEMMA ReadLogKeeps ==
    ASSUME Sure, TypeOK', NEW p \in Appenders, ReadLog(p)
    PROVE  LogInv'
<1> DEFINE n == Len(log)
           j == job'[p]
<1>1. /\ log \in Seq(Line) /\ n \in Nat /\ (log = << >> <=> n = 0) /\ slips \in Nat
      /\ head \in HeadFile /\ me[p] # 0
  BY EmptySeq, LenProperties DEF ReadLog, AtWork, Sure, TypeOK, LockTypeOK
<1>2. /\ UNCHANGED <<log, open, head, said, slips, touched, pc, me, fresh, upset>>
      /\ pc[p] = "held" /\ job[p].step = "read"
      /\ \A q \in Appenders : q # p => job'[q] = job[q]
      /\ j.step = "write" /\ j.count = n /\ j.advance = Reaches
      /\ j.prev = IF log = << >> THEN Genesis ELSE Last(log).hash
  BY DEF ReadLog, AtWork, lockVars, Sure, TypeOK
<1>3. j.prev = HashBefore(log, n + 1)
  BY <1>1, <1>2 DEF HashBefore, Last
<1> HIDE DEF j
<1>4. OnlyAtWork' /\ HeadCounts' /\ NewIsEmpty'
  BY <1>2 DEF OnlyAtWork, HeadCounts, NewIsEmpty, Traceless, HasCurrent, Sure, LogInv, j
<1>5. Numbering'
  <2>1. \A m \in Nat : m \in Marks(j.prev) => InUse(m)
    <3>1. \A m : m \notin Marks(Genesis)
      BY MarksOfAppend, Zenon
    <3>2. CASE n = 0
      BY <1>1, <1>2, <3>1, <3>2
    <3>3. CASE n # 0
      <4>1. n \in 1 .. Len(log) /\ j.prev = log[n].hash
        BY <1>1, <1>2, <3>3 DEF Last
      <4>2. QED
        BY <4>1 DEF InUse
    <3>4. QED
      BY <3>2, <3>3
  <2>2. ASSUME NEW m \in Nat, InUse(m)' PROVE InUse(m)
    BY <1>2, <2>1, <2>2 DEF InUse, j
  <2>3. \A q \in Appenders : Unwritten(q)' => Unwritten(q) /\ me'[q] = me[q]
    BY <1>2 DEF Unwritten, j
  <2>4. QED
    BY <1>1, <1>2, <2>2, <2>3, NumberingKept
<1>6. ASSUME upset' = {} PROVE Lengths' /\ Covered' /\ Untouched'
  <2>1. upset = {} /\ Lengths /\ Covered /\ Untouched
    BY <1>2, <1>6 DEF Sure, LogInv
  <2>2. \A q \in Appenders : ~ Busy(q) /\ ~ AtWork(q, "head")
    BY <1>2, <2>1, BusyAlone DEF Busy, AtWork
  <2>3. /\ \A q \in Appenders : ~ AtWork(q, "head")'
        /\ \A q \in Appenders : q # p => ~ Busy(q)' /\ ~ AtWork(q, "write")'
    BY <1>2, <2>2 DEF Busy, AtWork, j
  <2>4. HeadHolds' = HeadHolds
    BY <1>2 DEF HeadHolds
  <2>5. HeadHolds /\ slips <= 1 => n <= head.count + slips
    BY <2>1, <2>2 DEF Lengths
  <2>6. Lengths'
    BY <1>1, <1>2, <2>3, <2>4, <2>5 DEF Lengths, j
  <2>7. Covered'
    <3>1. ~ j.advance => ~ (HeadHolds /\ slips <= 1)
      <4>1. SUFFICES ASSUME HeadHolds, slips <= 1 PROVE Reaches
        BY <1>2
      <4>2. /\ head.state = "good" /\ head.count \in Nat /\ head.count >= 1
            /\ head.count <= n /\ n <= head.count + 1
            /\ log[head.count].hash = head.hash
        <5>1. head.state = "good" /\ head.count \in Nat /\ head.count >= 1
          BY <1>1, <4>1 DEF HeadHolds, HeadFile, HeadCounts, Sure, LogInv
        <5>2. head.count <= n /\ HashBefore(log, head.count + 1) = head.hash
          BY <4>1 DEF HeadHolds, Bears
        <5>3. n <= head.count + 1
          BY <1>1, <2>5, <4>1, <5>1
        <5>4. QED
          BY <5>1, <5>2, <5>3 DEF HashBefore
      <4>3. QED
        BY <1>1, <4>2 DEF Reaches, Judge
    <3>2. ASSUME Reaches, Bears(log, n, j.prev), slips <= 1
          PROVE  said \subseteq Marks(j.prev)
      <4>1. Chained(log)
        BY <1>1, <3>2, ChainedIs DEF Bears
      <4>2. CASE head.state # "good"
        BY <3>2, <4>1, <4>2 DEF Reaches, NewIsEmpty, Traceless, Sure, LogInv
      <4>3. CASE head.state = "good"
        <5> DEFINE k == head.count
        <5>1. k \in Nat /\ k >= 1 /\ head.hash \in Hash
          BY <1>1, <4>3 DEF HeadFile, HeadCounts, Sure, LogInv
        <5>2. Judge(log, head) = "reached"
          BY <3>2, <4>3 DEF Reaches
        <5>3. k \in {n, n - 1} /\ log[k].hash = head.hash
          BY <1>1, <5>1, <5>2 DEF Judge
        <5>4. ChainedTo(log, n) /\ ChainedTo(log, k)
          BY <1>1, <3>2, <5>1, <5>3 DEF Bears, ChainedTo
        <5>5. Bears(log, k, head.hash)
          BY <1>1, <5>1, <5>3, <5>4 DEF Bears, HashBefore
        <5>6. said \subseteq Marks(head.hash)
          BY <2>1, <3>2, <4>3, <5>5 DEF Covered, HeadHolds
        <5>7. CASE k = n
          BY <3>2, <5>5, <5>6, <5>7 DEF Bears
        <5>8. CASE k = n - 1
          <6>1. k + 1 \in 1 .. Len(log) /\ k + 1 = n
            BY <1>1, <5>1, <5>8
          <6>2. log[n].at \in Nat
            <7>1. n \in 1 .. Len(log)
              BY <6>1
            <7>2. log[n] \in Line
              BY <1>1, <7>1, ElementOfSeq
            <7>3. QED
              BY <7>2 DEF Line
          <6>3. j.prev = Append(head.hash, log[n].at)
            <7>1. j.prev = log[n].hash
              BY <1>1, <1>3, <6>1 DEF HashBefore
            <7>2. log[n].hash = Append(HashBefore(log, n), log[n].at)
              BY <5>4, <6>1 DEF ChainedTo
            <7>3. HashBefore(log, n) = head.hash
              BY <5>5, <6>1 DEF Bears
            <7>4. QED
              BY <7>1, <7>2, <7>3
          <6>4. QED
            BY <5>1, <5>6, <6>2, <6>3, MarksOfAppend
        <5>9. QED
          BY <5>3, <5>7, <5>8
      <4>4. QED
        BY <4>2, <4>3
    <3>3. ASSUME Reaches, n = 0 PROVE said = {}
      <4>1. head.state # "good"
        <5>1. SUFFICES ASSUME head.state = "good" PROVE FALSE
          OBVIOUS
        <5>2. head.count \in Nat /\ head.count >= 1
          BY <1>1, <5>1 DEF HeadFile, HeadCounts, Sure, LogInv
        <5>3. QED
          BY <1>1, <3>3, <5>1, <5>2 DEF Reaches, Judge
      <4>2. Chained(log) /\ ~ HasCurrent(log)
        <5>1. DOMAIN log = 1 .. 0
          BY <1>1, <3>3, LenProperties
        <5>2. QED
          BY <5>1 DEF Chained, HasCurrent
      <4>3. QED
        BY <4>1, <4>2 DEF NewIsEmpty, Traceless, Sure, LogInv
    <3>4. JobHolds(p)' <=> Bears(log, n, j.prev)
      BY <1>2 DEF JobHolds, j
    <3>5. QED
      BY <1>2, <2>1, <2>3, <2>4, <3>1, <3>2, <3>3, <3>4 DEF Covered, j
  <2>8. Untouched'
    <3>1. SUFFICES ASSUME ~ touched PROVE Untouched'
      BY <1>2 DEF Untouched
    <3>2. /\ ~ open /\ Chained(log) /\ head.state # "garbled"
          /\ head.state = "good" => HeadHolds
      BY <2>1, <3>1 DEF Untouched
    <3>3. JobHolds(p)'
      BY <1>1, <1>2, <1>3, <3>2, ChainedIs DEF JobHolds, Bears, j
    <3>4. QED
      BY <1>2, <2>3, <2>4, <3>2, <3>3 DEF Untouched, j
  <2>9. QED
    BY <2>6, <2>7, <2>8
<1>7. QED
  BY <1>4, <1>5, <1>6 DEF LogInv

\* A line was written, and the head is next or there is nothing to record.
LEMMA WriteLineKeeps ==
    ASSUME Sure, TypeOK', NEW p \in Appenders, WriteLine(p)
    PROVE  LogInv'
<1> DEFINE n == Len(log)
           n2 == Len(log')
<1>1. /\ log \in Seq(Line) /\ log' \in Seq(Line) /\ slips \in Nat /\ me[p] # 0 /\ me[p] \in Nat
      /\ job[p] \in Job /\ pc[p] = "held" /\ AtWork(p, "write")
      /\ (head.state = "good" => head.count \in Nat)
  BY DEF WriteLine, AtWork, Sure, TypeOK, LockTypeOK, HeadFile
<1>2. /\ log' = Written(MyLine(p)) /\ ~ open' /\ UNCHANGED <<head, slips, touched>>
      /\ fresh' = fresh /\ upset \subseteq upset'
      /\ \A q \in Appenders : q # p => job'[q] = job[q] /\ pc'[q] = pc[q] /\ me'[q] = me[q]
      /\ job'[p].count = job[p].count /\ job'[p].prev = job[p].prev
      /\ job'[p].advance = job[p].advance
  <2>1. job \in [Appenders -> Job] /\ me \in [Appenders -> Nat] /\ pc = [q \in Appenders |-> pc[q]]
    BY DEF Sure, TypeOK, LockTypeOK
  <2>2. CASE job[p].advance
    BY <2>1, <2>2 DEF WriteLine, lockVars, Job
  <2>3. CASE ~ job[p].advance
    BY <2>1, <2>3 DEF WriteLine, Return, LetGo, Leave, GoTo, Job
  <2>4. QED
    BY <2>2, <2>3 DEF WriteLine
<1>3. job[p].advance =>
         /\ job'[p].step = "head" /\ pc'[p] = "held" /\ me'[p] = me[p] /\ said' = said
  BY DEF WriteLine, lockVars, AtWork, Sure, TypeOK, Job
<1>4. ~ job[p].advance => job'[p].step = "over" /\ said' = said \union {me[p]}
  BY DEF WriteLine, Return, Sure, TypeOK, Job
<1>5. /\ n2 \in Nat /\ n \in Nat /\ n2 <= n + 1
      /\ \A i \in 1 .. n2, m \in Nat : m \in Marks(log'[i].hash) => InUse(m) \/ m = me[p]
      /\ Follows(log, log', head.hash) /\ Follows(log, log', job[p].prev)
      /\ \A h : ~ (Traceless(log', h) /\ Chained(log'))
  BY <1>1, <1>2, WritingIs
<1> HIDE DEF n, n2
<1>6. job'[p].step \in {"head", "over"}
  BY <1>3, <1>4
<1>7. OnlyAtWork'
  BY <1>2, <1>3, <1>4 DEF OnlyAtWork, Sure, LogInv
<1>8. Numbering'
  <2>1. ~ Unwritten(p)'
    BY <1>6 DEF Unwritten
  <2>2. \A q \in Appenders : job'[q].prev = job[q].prev
    BY <1>2
  <2>3. ASSUME NEW m \in Nat, InUse(m)' PROVE InUse(m) \/ m = me[p]
    BY <1>2, <1>5, <2>2, <2>3 DEF InUse, n2
  <2>4. \A q \in Appenders : Unwritten(q)' => Unwritten(q) /\ me'[q] = me[q]
    BY <1>2, <2>1 DEF Unwritten
  <2>5. QED
    BY <1>1, <1>2, <2>1, <2>3, <2>4, NumberingKept
<1>9. HeadCounts' /\ NewIsEmpty'
  BY <1>2, <1>5 DEF HeadCounts, NewIsEmpty, Sure, LogInv
<1>10. ASSUME upset' = {} PROVE Lengths' /\ Covered' /\ Untouched'
  <2>1. upset = {} /\ Lengths /\ Covered /\ Untouched
    BY <1>2, <1>10 DEF Sure, LogInv
  <2>2. \A q \in Appenders : q # p => ~ Busy(q) /\ ~ AtWork(q, "head")
    BY <1>1, <2>1, BusyAlone
  <2>3. /\ \A q \in Appenders : q # p => ~ Busy(q)' /\ ~ AtWork(q, "head")'
        /\ \A q \in Appenders : ~ AtWork(q, "write")'
        /\ AtWork(p, "head")' <=> job[p].advance
        /\ Busy(p)' <=> job[p].advance
    BY <1>2, <1>3, <1>4, <2>2 DEF Busy, AtWork
  <2>4. HeadHolds' => HeadHolds
    BY <1>1, <1>2, <1>5, NothingComesBack DEF HeadHolds
  <2>5. JobHolds(p)' => JobHolds(p)
    BY <1>1, <1>2, <1>5, NothingComesBack DEF JobHolds, Job
  <2>6. ~ job[p].advance => ~ (HeadHolds' /\ slips' <= 1)
    BY <1>1, <1>2, <2>1, <2>4 DEF Covered, Busy
  <2>7. ASSUME HeadHolds', slips' <= 1
        PROVE  job[p].advance /\ n2 <= head.count + slips + 1
    <3>1. job[p].advance
      BY <2>6, <2>7
    <3>2. ~ \E q \in Appenders : AtWork(q, "head")
      BY <1>1, <2>2 DEF AtWork
    <3>3. n <= head.count + slips
      BY <1>2, <2>1, <2>4, <2>7, <3>2 DEF Lengths, n
    <3>4. head.count \in Nat
      BY <1>1, <2>4, <2>7 DEF HeadHolds
    <3>5. QED
      BY <1>1, <1>5, <3>1, <3>3, <3>4
  <2>8. n <= job[p].count /\ job[p].count \in Nat /\ n2 <= job[p].count + 1
    BY <1>1, <1>5, <2>1 DEF Lengths, n, Job
  <2>9. Lengths'
    BY <1>2, <2>3, <2>7, <2>8 DEF Lengths, n2
  <2>10. Covered'
    <3>1. ASSUME HeadHolds', slips' <= 1 PROVE said' \subseteq Marks(head'.hash)
      BY <1>2, <1>3, <2>1, <2>4, <2>6, <3>1 DEF Covered
    <3>2. ASSUME job[p].advance, JobHolds(p)', slips' <= 1
          PROVE  said' \subseteq Marks(job'[p].prev)
      BY <1>1, <1>2, <1>3, <2>1, <2>5, <3>2 DEF Covered, Busy
    <3>3. job[p].advance /\ job'[p].count = 0 => said' = {}
      BY <1>1, <1>2, <1>3, <2>1 DEF Covered, Busy
    <3>4. QED
      BY <1>2, <2>3, <3>1, <3>2, <3>3 DEF Covered
  <2>11. Untouched'
    <3>1. SUFFICES ASSUME ~ touched PROVE Untouched'
      BY <1>2 DEF Untouched
    <3>2. /\ ~ open /\ Chained(log) /\ head.state # "garbled"
          /\ head.state = "good" => HeadHolds
          /\ job[p].count = n /\ JobHolds(p)
      BY <1>1, <2>1, <3>1 DEF Untouched, n
    <3>3. log' = Append(log, MyLine(p)) /\ MyLine(p) \in Line
      BY <1>1, <1>2, <3>2, LineTypes DEF Written, MyLine, Job
    <3>4. /\ n2 = n + 1 /\ log'[n + 1] = MyLine(p)
          /\ \A i \in 1 .. n : log'[i] = log[i]
      BY <1>1, <3>3, AppendProperties DEF n, n2
    <3>5. \A i \in 1 .. n + 1 : HashBefore(log', i) = HashBefore(log, i)
      BY <1>5, <3>4 DEF HashBefore
    <3>6. /\ MyLine(p) # Torn /\ MyLine(p).prev = job[p].prev
          /\ MyLine(p).hash = Append(MyLine(p).prev, MyLine(p).at)
      BY <1>1 DEF MyLine, Receipt, Torn
    <3>7. HashBefore(log, n + 1) = job[p].prev
      BY <3>2 DEF JobHolds, Bears
    <3>8. ChainedTo(log, n)
      BY <1>1, <3>2, ChainedIs DEF n
    <3>9. ChainedTo(log', n + 1)
      <4>1. ASSUME NEW i \in 1 .. n + 1
            PROVE  /\ log'[i] # Torn /\ log'[i].prev = HashBefore(log', i)
                   /\ log'[i].hash = Append(log'[i].prev, log'[i].at)
        <5>1. CASE i \in 1 .. n
          BY <3>4, <3>5, <3>8, <5>1 DEF ChainedTo
        <5>2. CASE i = n + 1
          BY <1>5, <3>4, <3>5, <3>6, <3>7, <5>2
        <5>3. QED
          BY <1>5, <5>1, <5>2
      <4>2. QED
        BY <4>1 DEF ChainedTo
    <3>10. Chained(log')
      BY <1>1, <3>4, <3>9, ChainedIs DEF n2
    <3>11. ASSUME head.state = "good" PROVE HeadHolds'
      <4>1. head.count <= n /\ HashBefore(log, head.count + 1) = head.hash /\ head.count \in Nat
        BY <1>1, <3>2, <3>11 DEF HeadHolds, Bears, n
      <4>2. head.count <= n2 /\ head.count + 1 \in 1 .. n + 1
        BY <1>5, <3>4, <4>1
      <4>3. ChainedTo(log', head.count)
        BY <1>5, <3>9, <4>1 DEF ChainedTo
      <4>4. Bears(log', head.count, head.hash)
        BY <3>5, <4>1, <4>2, <4>3 DEF Bears, n2
      <4>5. QED
        BY <1>2, <3>11, <4>4 DEF HeadHolds
    <3>12. job[p].advance => /\ job'[p].count + 1 = Len(log')
                             /\ log'[Len(log')].hash = MyLine(p)'.hash
      BY <1>2, <1>3, <3>2, <3>4 DEF MyLine, n2
    <3>13. QED
      BY <1>2, <2>3, <3>2, <3>10, <3>11, <3>12 DEF Untouched
  <2>12. QED
    BY <2>9, <2>10, <2>11
<1>11. QED
  BY <1>7, <1>8, <1>9, <1>10 DEF LogInv

\* The head was written, over a log that may have been tampered with since.
LEMMA WriteHeadKeeps ==
    ASSUME Sure, TypeOK', NEW p \in Appenders, WriteHead(p)
    PROVE  LogInv'
<1> DEFINE prev == job[p].prev
           count == job[p].count
<1>1. /\ log \in Seq(Line) /\ Len(log) \in Nat /\ slips \in Nat /\ me[p] # 0 /\ me[p] \in Nat
      /\ prev \in Hash /\ count \in Nat /\ pc[p] = "held" /\ AtWork(p, "head")
  BY LenProperties DEF WriteHead, AtWork, Sure, TypeOK, LockTypeOK, Job
<1>2. /\ UNCHANGED <<log, open, touched>> /\ said' = said \union {me[p]}
      /\ slips' = (IF slips > 1 THEN slips ELSE 0)
      /\ fresh' = fresh /\ upset \subseteq upset'
      /\ \A q \in Appenders : q # p => job'[q] = job[q] /\ pc'[q] = pc[q] /\ me'[q] = me[q]
      /\ job'[p].step = "over" /\ job'[p].prev = prev
      /\ head'.state = "good" /\ head'.count = count + 1 /\ head'.hash = Append(prev, me[p])
  BY DEF WriteHead, Return, LetGo, Leave, GoTo, MyLine, Receipt, Sure, TypeOK, LockTypeOK, Job
<1> HIDE DEF prev, count
<1>3. OnlyAtWork'
  BY <1>2 DEF OnlyAtWork, Sure, LogInv
<1>4. Marks(head'.hash) = Marks(prev) \union {me[p]}
  BY <1>1, <1>2, MarksOfAppend
<1>5. Numbering'
  <2>1. ~ Unwritten(p)'
    BY <1>2 DEF Unwritten
  <2>2. \A q \in Appenders : job'[q].prev = job[q].prev
    BY <1>2 DEF prev
  <2>3. ASSUME NEW m \in Nat, InUse(m)' PROVE InUse(m) \/ m = me[p]
    BY <1>2, <1>4, <2>2, <2>3 DEF InUse, prev
  <2>4. \A q \in Appenders : Unwritten(q)' => Unwritten(q) /\ me'[q] = me[q]
    BY <1>2, <2>1 DEF Unwritten
  <2>5. QED
    BY <1>1, <1>2, <2>1, <2>3, <2>4, NumberingKept
<1>6. HeadCounts' /\ NewIsEmpty'
  BY <1>1, <1>2 DEF HeadCounts, NewIsEmpty, Traceless
<1>7. ASSUME upset' = {} PROVE Lengths' /\ Covered' /\ Untouched'
  <2>1. upset = {} /\ Lengths /\ Covered /\ Untouched
    BY <1>2, <1>7 DEF Sure, LogInv
  <2>2. \A q \in Appenders : ~ Busy(q)' /\ ~ AtWork(q, "write")' /\ ~ AtWork(q, "head")'
    <3>1. \A q \in Appenders : q # p => ~ Busy(q)
      BY <1>1, <2>1, BusyAlone
    <3>2. QED
      BY <1>2, <3>1 DEF Busy, AtWork
  <2>3. Len(log) <= count + 1 /\ job[p].advance
    BY <1>1, <2>1 DEF Lengths, count
  <2>4. Lengths'
    <3>1. slips' \in Nat
      BY <1>1, <1>2
    <3>2. Len(log') <= head'.count + slips'
      BY <1>1, <1>2, <2>3, <3>1
    <3>3. QED
      BY <2>2, <3>2 DEF Lengths
  <2>5. ASSUME HeadHolds', slips' <= 1 PROVE said' \subseteq Marks(head'.hash)
    <3>1. slips <= 1
      BY <1>1, <1>2, <2>5
    <3>2. Bears(log, count + 1, Append(prev, me[p]))
      BY <1>2, <2>5 DEF HeadHolds
    <3>3. JobHolds(p)
      BY <1>1, <3>2, BearsShorter DEF JobHolds, prev, count
    <3>4. said \subseteq Marks(prev)
      BY <1>1, <2>1, <2>3, <3>1, <3>3 DEF Covered, Busy, prev
    <3>5. QED
      BY <1>2, <1>4, <3>4
  <2>6. Covered'
    BY <2>2, <2>5 DEF Covered
  <2>7. Untouched'
    <3>1. SUFFICES ASSUME ~ touched PROVE Untouched'
      BY <1>2 DEF Untouched
    <3>2. /\ ~ open /\ Chained(log) /\ count + 1 = Len(log)
          /\ log[Len(log)].hash = Append(prev, me[p])
      BY <1>1, <2>1, <3>1 DEF Untouched, MyLine, Receipt, prev, count
    <3>3. HashBefore(log, count + 1 + 1) = Append(prev, me[p])
      BY <1>1, <3>2 DEF HashBefore
    <3>4. Bears(log, count + 1, Append(prev, me[p]))
      BY <1>1, <3>2, <3>3, ChainedIs DEF Bears
    <3>5. HeadHolds'
      BY <1>2, <3>4 DEF HeadHolds
    <3>6. QED
      BY <1>2, <2>2, <3>2, <3>5 DEF Untouched
  <2>8. QED
    BY <2>4, <2>6, <2>7
<1>8. QED
  BY <1>3, <1>5, <1>6, <1>7 DEF LogInv

-----------------------------------------------------------------------------
(* Others with a hand on the files                                           *)

\* The marks and the lock of nobody change, and what is used stays used.
LEMMA NumberingRests ==
    ASSUME Sure, UNCHANGED <<job, me, fresh>>, \A n \in Nat : InUse(n)' => InUse(n)
    PROVE  Numbering'
<1>1. Numbering /\ \A p \in Appenders : me[p] \in Nat
  BY DEF Sure, LogInv, TypeOK, LockTypeOK
<1>2. QED
  BY <1>1 DEF Numbering, Unwritten

\* A log made of lines that were where they are, or torn, and a head that was
\* there, or none that can be read.
LEMMA TamperKeeps ==
    ASSUME Sure, TypeOK', NEW lines \in Seq(Line), NEW h \in {head, NoHead, GarbledHead},
           Tamper(lines, h), Len(lines) <= Len(log),
           \A i \in 1 .. Len(lines) : lines[i] = Torn \/ lines[i] = log[i]
    PROVE  LogInv'
<1>1. /\ log \in Seq(Line) /\ Len(log) \in Nat /\ Len(lines) \in Nat /\ slips \in Nat
      /\ (head.state = "good" => head.count \in Nat)
      /\ \A p \in Appenders : job[p].count \in Nat
  BY LenProperties DEF Sure, TypeOK, HeadFile, Job
<1>2. /\ log' = lines /\ head' = h /\ said' \in {said, {}}
      /\ Traceless(lines, h) => said' = {}
      /\ touched' /\ UNCHANGED <<job, slips, pc, me, fresh, upset>>
  BY DEF Tamper, Touch
<1>3. \A i \in 1 .. Len(lines) : i <= Len(log)
  BY <1>1
<1>4. h.state = "good" => h = head
  BY DEF NoHead, GarbledHead
<1>5. OnlyAtWork'
  BY <1>2 DEF OnlyAtWork, Sure, LogInv
<1>6. Numbering'
  <2>1. ASSUME NEW n \in Nat, InUse(n)' PROVE InUse(n)
    <3>1. n \notin Marks(Torn.hash) /\ n \notin Marks(NoHead.hash) /\ n \notin Marks(GarbledHead.hash)
      <4>1. Torn.hash = Genesis /\ NoHead.hash = Genesis /\ GarbledHead.hash = Genesis
        BY DEF Torn, NoHead, GarbledHead
      <4>2. n \notin Marks(Genesis)
        BY MarksOfAppend, Zenon
      <4>3. QED
        BY <4>1, <4>2
    <3>2. CASE n \in Marks(head'.hash)
      BY <1>2, <3>1, <3>2 DEF InUse
    <3>3. ASSUME NEW i \in 1 .. Len(lines), n \in Marks(lines[i].hash) PROVE InUse(n)
      <4>1. lines[i] = log[i] /\ i \in 1 .. Len(log)
        BY <1>1, <1>3, <3>1, <3>3
      <4>2. QED
        BY <3>3, <4>1 DEF InUse
    <3>4. ASSUME NEW q \in Appenders, n \in Marks(job'[q].prev) PROVE InUse(n)
      BY <1>2, <3>4 DEF InUse
    <3>5. QED
      BY <1>2, <2>1, <3>2, <3>3, <3>4 DEF InUse
  <2>2. QED
    BY <1>2, <2>1, NumberingRests
<1>7. HeadCounts' /\ NewIsEmpty'
  BY <1>2, <1>4 DEF HeadCounts, NewIsEmpty, Sure, LogInv
<1>8. ASSUME upset' = {} PROVE Lengths' /\ Covered' /\ Untouched'
  <2>1. upset = {} /\ Lengths /\ Covered
    BY <1>2, <1>8 DEF Sure, LogInv
  <2>2. ASSUME NEW k \in Nat, NEW g, Bears(lines, k, g) PROVE Bears(log, k, g)
    <3>1. Follows(log, lines, g)
      BY <1>3 DEF Follows
    <3>2. QED
      BY <1>1, <2>2, <3>1, NothingComesBack
  <2>3. HeadHolds' => HeadHolds /\ head' = head
    BY <1>1, <1>2, <1>4, <2>2 DEF HeadHolds
  <2>4. \A p \in Appenders : /\ JobHolds(p)' => JobHolds(p)
                             /\ Busy(p)' = Busy(p)
                             /\ AtWork(p, "write")' = AtWork(p, "write")
                             /\ AtWork(p, "head")' = AtWork(p, "head")
    BY <1>1, <1>2, <2>2 DEF JobHolds, Busy, AtWork
  <2>5. Lengths'
    <3>1. ASSUME NEW p \in Appenders
          PROVE  /\ AtWork(p, "write")' => Len(log') <= job'[p].count
                 /\ AtWork(p, "head")' => Len(log') <= job'[p].count + 1 /\ job'[p].advance
      <4>1. AtWork(p, "write") => Len(log) <= job[p].count
        BY <2>1 DEF Lengths
      <4>2. AtWork(p, "head") => Len(log) <= job[p].count + 1 /\ job[p].advance
        BY <2>1 DEF Lengths
      <4>3. AtWork(p, "write") => Len(lines) <= job[p].count
        BY <1>1, <4>1
      <4>4. AtWork(p, "head") => Len(lines) <= job[p].count + 1
        BY <1>1, <4>2
      <4>5. QED
        BY <1>2, <2>4, <4>2, <4>3, <4>4
    <3>2. ASSUME HeadHolds', slips' <= 1
          PROVE  \/ Len(log') <= head'.count + slips'
                 \/ /\ \E p \in Appenders : AtWork(p, "head")'
                    /\ Len(log') <= head'.count + slips' + 1
      <4>1. head' = head /\ slips' = slips /\ head.count \in Nat
        BY <1>1, <1>2, <2>3, <3>2 DEF HeadHolds
      <4>2. \/ Len(log) <= head.count + slips
            \/ /\ \E p \in Appenders : AtWork(p, "head")
               /\ Len(log) <= head.count + slips + 1
        BY <2>1, <2>3, <3>2, <4>1 DEF Lengths
      <4>3. CASE Len(log) <= head.count + slips
        BY <1>1, <1>2, <4>1, <4>3
      <4>4. CASE /\ \E p \in Appenders : AtWork(p, "head")
                 /\ Len(log) <= head.count + slips + 1
        <5>1. Len(log') <= head'.count + slips' + 1
          BY <1>1, <1>2, <4>1, <4>4
        <5>2. QED
          BY <2>4, <4>4, <5>1
      <4>5. QED
        BY <4>2, <4>3, <4>4
    <3>3. QED
      BY <3>1, <3>2 DEF Lengths
  <2>6. Covered'
    <3>1. HeadHolds' /\ slips' <= 1 => said' \subseteq Marks(head'.hash)
      BY <1>2, <2>1, <2>3 DEF Covered
    <3>2. \A p \in Appenders : Busy(p)' =>
             /\ ~ job'[p].advance => ~ (HeadHolds' /\ slips' <= 1)
             /\ job'[p].advance /\ JobHolds(p)' /\ slips' <= 1 => said' \subseteq Marks(job'[p].prev)
             /\ job'[p].advance /\ job'[p].count = 0 => said' = {}
      BY <1>2, <2>1, <2>3, <2>4 DEF Covered
    <3>3. QED
      BY <3>1, <3>2 DEF Covered
  <2>7. Untouched'
    BY <1>2 DEF Untouched
  <2>8. QED
    BY <2>5, <2>6, <2>7
<1>9. QED
  BY <1>5, <1>6, <1>7, <1>8 DEF LogInv

LEMMA OthersKeep ==
    ASSUME Sure, TypeOK', CutTail \/ Damage \/ LoseHead \/ GarbleHead
    PROVE  LogInv'
<1>1. log \in Seq(Line) /\ Len(log) \in Nat /\ DOMAIN log = 1 .. Len(log)
  BY LenProperties DEF Sure, TypeOK
<1>2. CASE CutTail
  <2>1. PICK k \in 0 .. Len(log) - 1 : Tamper(SubSeq(log, 1, k), head)
    BY <1>2 DEF CutTail
  <2> DEFINE lines == SubSeq(log, 1, k)
  <2>2. k \in Int /\ \A i \in 1 .. k : log[i] \in Line
    BY <1>1, ElementOfSeq
  <2>3. /\ lines \in Seq(Line)
        /\ Len(lines) = IF 1 <= k THEN k - 1 + 1 ELSE 0
        /\ \A i \in 1 .. k - 1 + 1 : lines[i] = log[1 + i - 1]
    BY <2>2, SubSeqProperties
  <2> HIDE DEF lines
  <2>4. Len(lines) <= Len(log) /\ \A i \in 1 .. Len(lines) : lines[i] = log[i]
    BY <1>1, <2>3
  <2>5. Tamper(lines, head)
    BY <2>1 DEF lines
  <2>6. QED
    BY <2>3, <2>4, <2>5, TamperKeeps
<1>3. CASE Damage
  <2>1. PICK i \in 1 .. Len(log) : Tamper([log EXCEPT ![i] = Torn], head)
    BY <1>1, <1>3 DEF Damage
  <2> DEFINE lines == [log EXCEPT ![i] = Torn]
  <2>2. lines \in Seq(Line) /\ Len(lines) = Len(log)
    BY <1>1, ExceptSeq, LineTypes
  <2>3. \A j \in 1 .. Len(log) : lines[j] = Torn \/ lines[j] = log[j]
    BY <1>1
  <2>4. Tamper(lines, head)
    BY <2>1
  <2> HIDE DEF lines
  <2>5. QED
    BY <1>1, <2>2, <2>3, <2>4, TamperKeeps
<1>4. CASE LoseHead \/ GarbleHead
  BY <1>1, <1>4, TamperKeeps DEF LoseHead, GarbleHead
<1>5. QED
  BY <1>2, <1>3, <1>4

LEMMA PurgeKeeps ==
    ASSUME Sure, TypeOK', NEW whole \in BOOLEAN, Purge(whole)
    PROVE  LogInv'
<1>1. /\ log' = << >> /\ Len(log') = 0 /\ DOMAIN log' = {} /\ ~ open' /\ slips' = 0
      /\ UNCHANGED <<job, pc, me, fresh>>
      /\ head' \in {head, NoHead} /\ said' \in {said, {}} /\ upset \subseteq upset'
      /\ Traceless(<< >>, head') => said' = {}
  BY DEF Purge, Sweep, Touch
<1>2. /\ (head.state = "good" => head.count \in Nat /\ head.count >= 1)
      /\ \A p \in Appenders : job[p].count \in Nat
  BY DEF Sure, TypeOK, HeadFile, Job, LogInv, HeadCounts
<1>3. NoHead.state = "missing" /\ NoHead.hash = Genesis
  BY DEF NoHead
<1>4. OnlyAtWork' /\ HeadCounts' /\ NewIsEmpty'
  BY <1>1, <1>3 DEF OnlyAtWork, HeadCounts, NewIsEmpty, Sure, LogInv
<1>5. Numbering'
  <2>1. ASSUME NEW n \in Nat, InUse(n)' PROVE InUse(n)
    <3>1. n \notin Marks(Genesis)
      BY MarksOfAppend, Zenon
    <3>2. n \in Marks(head'.hash) => n \in Marks(head.hash)
      BY <1>1, <1>3, <3>1
    <3>3. QED
      BY <1>1, <2>1, <3>2 DEF InUse
  <2>2. QED
    BY <1>1, <2>1, NumberingRests
<1>6. ~ HeadHolds'
  BY <1>1, <1>2, <1>3 DEF HeadHolds, Bears
<1>7. ASSUME upset' = {} PROVE Lengths' /\ Covered' /\ Untouched'
  <2>1. upset = {} /\ Lengths /\ Covered
    BY <1>1, <1>7 DEF Sure, LogInv
  <2>2. \A p \in Appenders : /\ AtWork(p, "write")' = AtWork(p, "write")
                             /\ AtWork(p, "head")' = AtWork(p, "head")
                             /\ Busy(p)' = Busy(p)
    BY <1>1 DEF AtWork, Busy
  <2>3. Lengths'
    <3>1. \A p \in Appenders : Len(log') <= job'[p].count /\ Len(log') <= job'[p].count + 1
      BY <1>1, <1>2
    <3>2. QED
      BY <1>1, <1>6, <2>1, <2>2, <3>1 DEF Lengths
  <2>4. Covered'
    <3>1. ASSUME NEW p \in Appenders, JobHolds(p)' PROVE job[p].count = 0
      BY <1>1, <1>2, <3>1 DEF JobHolds, Bears
    <3>2. QED
      BY <1>1, <1>6, <2>1, <2>2, <3>1 DEF Covered
  <2>5. Untouched'
    <3>1. CASE whole
      <4>1. ~ touched' => \A p \in Appenders : pc[p] = "idle"
        BY <3>1 DEF Purge
      <4>2. head' = NoHead
        BY <3>1 DEF Purge
      <4>3. Chained(log')
        BY <1>1 DEF Chained
      <4>4. QED
        BY <1>1, <1>3, <4>1, <4>2, <4>3 DEF Untouched, AtWork
    <3>2. CASE ~ whole
      BY <3>2 DEF Purge, Untouched
    <3>3. QED
      BY <3>1, <3>2
  <2>6. QED
    BY <2>3, <2>4, <2>5
<1>8. QED
  BY <1>4, <1>5, <1>7 DEF LogInv

-----------------------------------------------------------------------------
LEMMA LogInvInit == Init => LogInv
<1> SUFFICES ASSUME Init PROVE LogInv
  OBVIOUS
<1>1. /\ log \in {<< >>, <<OldLine>>} /\ ~ open /\ head = NoHead /\ said = {} /\ slips = 0
      /\ fresh = 0 /\ \A p \in Appenders : job[p] = NoJob /\ me[p] = 0 /\ pc[p] = "idle"
  BY DEF Init, LockInit
<1>2. /\ NoHead.state = "missing" /\ NoHead.hash = Genesis
      /\ NoJob.step = "read" /\ NoJob.prev = Genesis
  BY DEF NoHead, NoJob
<1>3. \A i \in 1 .. Len(log) : log[i] = OldLine /\ i = 1
  <2>1. CASE log = << >>
    BY <2>1
  <2>2. CASE log = <<OldLine>>
    <3> HIDE DEF OldLine
    <3>1. QED
      BY <2>2
  <2>3. QED
    BY <1>1, <2>1, <2>2
<1>4. ASSUME NEW n \in Nat, InUse(n) PROVE n = 0
  <2>1. n \notin Marks(Genesis)
    BY MarksOfAppend, Zenon
  <2>2. Marks(OldLine.hash) = {0}
    <3>1. OldLine.hash = Append(Genesis, 0)
      BY DEF OldLine, Genesis
    <3>2. Genesis \in Hash
      BY DEF Genesis, Hash
    <3>3. QED
      BY <3>1, <3>2, MarksOfAppend
  <2>3. QED
    BY <1>1, <1>2, <1>3, <1>4, <2>1, <2>2 DEF InUse
<1>5. OnlyAtWork /\ Numbering /\ HeadCounts /\ NewIsEmpty
  BY <1>1, <1>2, <1>4 DEF OnlyAtWork, Numbering, HeadCounts, NewIsEmpty, Unwritten
<1>6. \A p \in Appenders : ~ AtWork(p, "write") /\ ~ AtWork(p, "head") /\ ~ Busy(p)
  BY <1>1 DEF AtWork, Busy
<1>7. ~ HeadHolds
  BY <1>1, <1>2 DEF HeadHolds
<1>8. Chained(log)
  <2>1. ASSUME NEW i \in DOMAIN log
        PROVE  /\ log[i] # Torn /\ log[i].prev = HashBefore(log, i)
               /\ log[i].hash = Append(log[i].prev, log[i].at)
    <3>1. log[i] = OldLine /\ i = 1
      BY <1>1, <1>3, <2>1
    <3>2. OldLine # Torn
      BY DEF OldLine, Torn, Genesis
    <3>3. OldLine.hash = Append(OldLine.prev, OldLine.at) /\ OldLine.prev = Genesis
      BY DEF OldLine, Genesis
    <3>4. QED
      BY <3>1, <3>2, <3>3 DEF HashBefore
  <2>2. QED
    BY <2>1 DEF Chained
<1>9. Lengths /\ Covered /\ Untouched
  BY <1>1, <1>2, <1>6, <1>7, <1>8 DEF Lengths, Covered, Untouched
<1>10. QED
  BY <1>5, <1>9 DEF LogInv

LEMMA LogInvStep == Sure /\ TypeOK' /\ [Next]_vars => LogInv'
<1> SUFFICES ASSUME Sure, TypeOK', [Next]_vars
             PROVE  LogInv'
  OBVIOUS
<1>1. CASE \/ \E p \in Appenders : Begin(p) \/ LockStep(p)
           \/ (LockAges \/ GuardAges) /\ UNCHANGED logVars
           \/ UNCHANGED vars
  BY <1>1, LockStepKeeps
<1>2. ASSUME NEW p \in Appenders, ReadLog(p) \/ WriteLine(p) \/ WriteHead(p)
      PROVE  LogInv'
  BY <1>2, ReadLogKeeps, WriteLineKeeps, WriteHeadKeeps
<1>3. ASSUME NEW p \in Appenders, AppendFails(p) \/ Die(p)
      PROVE  LogInv'
  BY <1>3, FailKeeps
<1>4. CASE CutTail \/ Damage \/ LoseHead \/ GarbleHead
  BY <1>4, OthersKeep
<1>5. ASSUME NEW whole \in BOOLEAN, Purge(whole)
      PROVE  LogInv'
  BY <1>5, PurgeKeeps
<1>6. QED
  BY <1>1, <1>2, <1>3, <1>4, <1>5 DEF Next, AppendStep

\* The invariant behind the verdicts: receipts are numbered once, and as long as
\* the lock excludes, what was said to be written is what the head, or the
\* append at work, has read of a chain.
THEOREM LogInvariant == Spec => []LogInv
<1>1. LockInv => Numbered
  BY DEF LockInv
<1>2. TypeOK /\ TypeOK' /\ LockInv /\ OneHolder /\ LogInv /\ [Next]_vars => LogInv'
  BY <1>1, LogInvStep DEF Sure
<1>3. QED
  BY <1>2, LogInvInit, TypeCorrect, OneAtWork, KeepsToTheLock, LockInvariant, PTL DEF Spec

-----------------------------------------------------------------------------
\* A chain that its head is a part of bears the head.
LEMMA ReachedHolds ==
    ASSUME TypeOK, HeadCounts, Chained(log), head.state = "good",
           Judge(log, head) = "reached"
    PROVE  HeadHolds /\ head.count \in Nat
<1>1. log \in Seq(Line) /\ Len(log) \in Nat /\ head.count \in Nat /\ head.count >= 1
  BY LenProperties DEF TypeOK, HeadFile, HeadCounts
<1>2. head.count <= Len(log) /\ log[head.count].hash = head.hash
  BY <1>1 DEF Judge
<1>3. ChainedTo(log, head.count)
  BY <1>1, <1>2, ChainedIs DEF ChainedTo
<1>4. QED
  BY <1>1, <1>2, <1>3 DEF HeadHolds, Bears, HashBefore

\* No receipt is lost in silence: one whose append returned Ok is in the log, or
\* `tacet log` calls the log broken, whatever was cut, damaged, torn or lost, and
\* however many sessions appended since.
THEOREM NothingLost == Spec => []ReceiptsAccountedFor
<1>1. ASSUME TypeOK, LogInv PROVE ReceiptsAccountedFor
  <2> SUFFICES ASSUME slips <= 1, upset = {}, NEW n \in said, ~ SaysBroken
               PROVE  \E i \in DOMAIN log : log[i].at = n
    BY DEF ReceiptsAccountedFor
  <2>1. Covered /\ NewIsEmpty /\ HeadCounts
    BY <1>1 DEF LogInv
  <2>2. ~ (Traceless(log, head) /\ Chained(log))
    BY <2>1 DEF NewIsEmpty
  <2>3. ~ (log = << >> /\ (head.state # "good" \/ head.count = 0))
    <3>1. SUFFICES ASSUME log = << >>, head.state # "good" \/ head.count = 0
                   PROVE  FALSE
      OBVIOUS
    <3>2. head.state # "good"
      BY <1>1, <2>1, <3>1 DEF HeadCounts, TypeOK, HeadFile
    <3>3. Traceless(log, head) /\ Chained(log)
      BY <3>1, <3>2 DEF Traceless, HasCurrent, Chained
    <3>4. QED
      BY <2>2, <3>3
  <2>4. Chained(log) /\ head.state = "good" /\ Judge(log, head) \notin {"cut", "diverged"}
    BY <2>2, <2>3 DEF SaysBroken, Verdict, Traceless
  <2>5. Judge(log, head) = "reached"
    BY <2>4 DEF Judge
  <2>6. HeadHolds /\ head.count \in Nat
    BY <1>1, <2>1, <2>4, <2>5, ReachedHolds
  <2>7. n \in Marks(head.hash)
    BY <2>1, <2>6 DEF Covered
  <2>8. QED
    BY <1>1, <2>6, <2>7, ChainHolds DEF TypeOK, HeadHolds
<1>2. QED
  BY <1>1, TypeCorrect, LogInvariant, PTL

\* A log that only appends have touched, and in which no line was torn, is not
\* called broken: not through two sessions at once, and not after a crash or a
\* failed write between a line and its head.
THEOREM NoFalseBreak == Spec => []NoFalseAlarm
<1>1. ASSUME TypeOK, LogInv PROVE NoFalseAlarm
  <2> SUFFICES ASSUME ~ touched, upset = {}, slips <= 1, NobodyAtWork
               PROVE  Verdict \notin {"broken", "cut", "diverged"}
    BY DEF NoFalseAlarm
  <2>1. Lengths /\ Untouched /\ HeadCounts
    BY <1>1 DEF LogInv
  <2>2. Chained(log) /\ (head.state = "good" => HeadHolds)
    BY <2>1 DEF Untouched
  <2>3. head.state = "good" => Judge(log, head) = "reached"
    <3>1. SUFFICES ASSUME head.state = "good" PROVE Judge(log, head) = "reached"
      OBVIOUS
    <3>2. /\ head.count \in Nat /\ head.count >= 1 /\ Len(log) \in Nat /\ slips \in Nat
          /\ HeadHolds
      BY <1>1, <2>1, <2>2, <3>1, LenProperties DEF TypeOK, HeadFile, HeadCounts
    <3>3. head.count <= Len(log) /\ log[head.count].hash = head.hash
      BY <3>2 DEF HeadHolds, Bears, HashBefore
    <3>4. \A p \in Appenders : ~ AtWork(p, "head")
      BY DEF NobodyAtWork, AtWork
    <3>5. Len(log) <= head.count + slips
      BY <2>1, <3>2, <3>4 DEF Lengths
    <3>6. Len(log) <= head.count + 1
      BY <3>2, <3>5
    <3>7. QED
      BY <3>2, <3>3, <3>6 DEF Judge
  <2>4. QED
    BY <2>2, <2>3 DEF Verdict
<1>2. QED
  BY <1>1, TypeCorrect, LogInvariant, PTL

=============================================================================
