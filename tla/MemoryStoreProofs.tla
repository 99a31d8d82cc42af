------------------------- MODULE MemoryStoreProofs -------------------------
(***************************************************************************)
(* Theorems about MemoryStore, for every set of sessions and texts, every  *)
(* cap and every bound.  Whatever happens: its type invariant, one note    *)
(* per fact, and nothing left in the journal of a save that failed.  As    *)
(* long as no live process holds the lock past LOCK_STALE and no two       *)
(* waiters judge one lock stale at once: mutual exclusion in `save`, and   *)
(* from it the answers, what an opener finds in damaged files, the         *)
(* refinement of AtomicMemory and the notes a session did not touch.       *)
(* Without the second of these, two sessions meet in `save` only after one *)
(* has crashed there.                                                      *)
(***************************************************************************)
EXTENDS MemoryStore, WellFoundedInduction, FiniteSetTheorems, TLAPS

-----------------------------------------------------------------------------
(* The largest element of a bounded set of naturals *)

LEMMA MaxOfBounded ==
    ASSUME NEW S \in SUBSET Nat, S # {}, NEW b \in Nat, \A y \in S : y <= b
    PROVE  Max(S) \in S /\ \A y \in S : Max(S) >= y
<1> DEFINE U == {u \in Nat : \A y \in S : y <= u}
<1>1. PICK u \in U : \A v \in U : ~ (<<v, u>> \in OpToRel(<, Nat))
  <2>1. U # {} /\ U \subseteq Nat
    OBVIOUS
  <2>2. QED
    BY <2>1, NatLessThanWellFounded, WFMin, Zenon
<1>2. \A v \in U : u <= v
  <2>1. \A v \in U : ~ (v < u)
    BY <1>1, Zenon DEF OpToRel
  <2>2. QED
    BY <2>1
<1>3. u \in S
  <2>1. SUFFICES ASSUME u \notin S PROVE FALSE
    OBVIOUS
  <2>2. PICK y \in S : TRUE
    OBVIOUS
  <2>3. u - 1 \in U
    BY <2>1, <2>2
  <2>4. QED
    BY <2>3, <1>2
<1>4. \E x \in S : \A y \in S : x >= y
  BY <1>3
<1>5. QED
  BY <1>4 DEF Max

IdsBounded(ns) == \E b \in Nat : \A n \in ns : n.id <= b

AtBounded(journal) == \E b \in Nat : \A c \in journal : c.at <= b

LEMMA SafeNextIdType ==
    ASSUME NEW f \in File, IdsBounded(f.notes)
    PROVE  /\ SafeNextId(f) \in Nat /\ SafeNextId(f) >= f.next
           /\ \A n \in f.notes : n.id < SafeNextId(f)
<1> DEFINE S == {f.next, 1} \union {n.id + 1 : n \in f.notes}
<1>1. PICK b \in Nat : \A n \in f.notes : n.id <= b
  BY DEF IdsBounded
<1>2. S \in SUBSET Nat /\ S # {}
  BY DEF File, Note
<1>3. b + f.next + 1 \in Nat /\ \A y \in S : y <= b + f.next + 1
  BY <1>1 DEF File, Note
<1>4. Max(S) \in S /\ \A y \in S : Max(S) >= y
  BY <1>2, <1>3, MaxOfBounded, Zenon
<1>5. \A n \in f.notes : n.id + 1 \in S
  OBVIOUS
<1>6. SafeNextId(f) = Max(S)
  BY Zenon DEF SafeNextId
<1>7. Max(S) \in Nat
  BY <1>2, <1>4, Zenon
<1>8. ASSUME NEW n \in f.notes PROVE n.id < Max(S)
  <2>1. n.id \in Nat
    BY DEF File, Note
  <2>2. Max(S) >= n.id + 1
    BY <1>4, <1>5, Zenon
  <2>3. QED
    BY <2>1, <2>2, <1>7
<1>9. Max(S) >= f.next
  <2>1. f.next \in S
    OBVIOUS
  <2>2. QED
    BY <2>1, <1>4, Zenon
<1>10. QED
  BY <1>6, <1>7, <1>8, <1>9, Zenon

LEMMA NextAtType ==
    ASSUME NEW journal \in SUBSET Change, AtBounded(journal)
    PROVE  NextAt(journal) \in Nat /\ \A c \in journal : c.at < NextAt(journal)
<1> DEFINE S == {0} \union {c.at : c \in journal}
<1>1. PICK b \in Nat : \A c \in journal : c.at <= b
  BY DEF AtBounded
<1>2. S \in SUBSET Nat /\ S # {}
  BY DEF Change
<1>3. \A y \in S : y <= b
  BY <1>1
<1>4. Max(S) \in S /\ \A y \in S : Max(S) >= y
  BY <1>2, <1>3, MaxOfBounded, Zenon
<1>5. NextAt(journal) = Max(S) + 1
  BY Zenon DEF NextAt
<1>6. Max(S) \in Nat /\ Max(S) + 1 \in Nat
  <2>1. Max(S) \in Nat
    BY <1>2, <1>4, Zenon
  <2>2. QED
    BY <2>1
<1>7. ASSUME NEW c \in journal PROVE c.at < Max(S) + 1
  <2>1. c.at \in S /\ c.at \in Nat
    BY DEF Change
  <2>2. Max(S) >= c.at
    BY <1>4, <2>1, Zenon
  <2>3. QED
    BY <1>6, <2>1, <2>2
<1>8. QED
  BY <1>5, <1>6, <1>7, Zenon

LEMMA JournalGrows ==
    ASSUME NEW journal \in SUBSET Change, AtBounded(journal),
           NEW more \in SUBSET Change, \A c \in more : c.at = NextAt(journal)
    PROVE  journal \union more \in SUBSET Change /\ AtBounded(journal \union more)
<1>1. NextAt(journal) \in Nat
  BY NextAtType
<1>2. PICK b \in Nat : \A c \in journal : c.at <= b
  BY DEF AtBounded
<1>3. b + NextAt(journal) \in Nat
      /\ \A c \in journal \union more : c.at <= b + NextAt(journal)
  BY <1>1, <1>2 DEF Change
<1>4. QED
  BY <1>3 DEF AtBounded

LEMMA JournalAfterDeleteType ==
    ASSUME NEW journal \in SUBSET Change, AtBounded(journal), NEW n \in Note
    PROVE  /\ JournalAfterDelete(journal, n) \in SUBSET Change
           /\ AtBounded(JournalAfterDelete(journal, n))
<1> DEFINE d == [kind |-> "delete", at |-> NextAt(journal), id |-> n.id,
                 text |-> n.text, active |-> n.active, of |-> n.first]
<1>1. CASE \E c \in journal : c.kind = "add" /\ c.id = n.id
  BY <1>1 DEF JournalAfterDelete, AtBounded
<1>2. CASE ~ \E c \in journal : c.kind = "add" /\ c.id = n.id
  <2>1. d \in Change
    BY NextAtType DEF Note, Change
  <2>2. JournalAfterDelete(journal, n) = journal \union {d}
    BY <1>2 DEF JournalAfterDelete
  <2>3. {d} \in SUBSET Change /\ \A c \in {d} : c.at = NextAt(journal)
    BY <2>1
  <2>4. QED
    BY <2>2, <2>3, JournalGrows, Zenon
<1>3. QED
  BY <1>1, <1>2

-----------------------------------------------------------------------------
(* Type correctness.  TypeOK alone is not inductive: the next id and the    *)
(* next place in the journal are maxima, which are natural numbers only     *)
(* because the notes of a file and the changes of a journal are bounded.    *)

Bounds ==
    /\ IdsBounded(main.notes) /\ IdsBounded(bak.notes)
    /\ \A s \in Sessions : IdsBounded(work[s].notes) /\ AtBounded(pending[s])

TypeInv == TypeOK /\ Bounds

LEMMA EmptyBounded == IdsBounded({}) /\ AtBounded({})
  BY DEF IdsBounded, AtBounded

LEMMA BestType ==
    ASSUME TypeInv
    PROVE  Best \in File /\ IdsBounded(Best.notes)
  BY EmptyBounded DEF TypeInv, TypeOK, Bounds, Best, File, NoFile

LEMMA FollowType ==
    ASSUME NEW w \in Merge, NEW id \in Nat
    PROVE  Follow(w, id) \in Nat
  BY DEF Follow, Merge

LEMMA ReplayKindsType ==
    ASSUME NEW w \in Merge, IdsBounded(w.notes), NEW c \in w.todo
    PROVE  \A v \in {ReplayAdd(w, c), ReplayDelete(w, c), ReplayUpdate(w, c),
                     ReplayActive(w, c)} :
              v \in Merge /\ IdsBounded(v.notes)
<1>1. PICK b \in Nat : \A n \in w.notes : n.id <= b
  BY DEF IdsBounded
<1>2. c \in Change /\ c.id \in Nat /\ Follow(w, c.id) \in Nat
  BY FollowType DEF Merge, Change
<1>3. ReplayAdd(w, c) \in Merge /\ IdsBounded(ReplayAdd(w, c).notes)
  <2>1. ReplayAdd(w, c) \in Merge
    <3> DEFINE note == [id |-> w.next, text |-> c.text, active |-> c.active,
                        first |-> c.text]
               moved == {p \in w.renamed : p[1] # c.id} \union {<<c.id, w.next>>}
               grown == [w EXCEPT !.notes = @ \union {note}, !.next = @ + 1,
                                  !.renamed = moved]
    <3>1. note \in Note /\ w.next + 1 \in Nat
      BY <1>2 DEF Merge, Note, Change
    <3>2. moved \in SUBSET (Nat \X Nat)
      BY <1>2 DEF Merge
    <3>3. grown \in Merge
      <4> HIDE DEF note, moved
      <4> QED
        BY <3>1, <3>2 DEF Merge
    <3>4. [w EXCEPT !.rejected = TRUE] \in Merge
      BY DEF Merge
    <3>5. ReplayAdd(w, c) = grown \/ ReplayAdd(w, c) = w
          \/ ReplayAdd(w, c) = [w EXCEPT !.rejected = TRUE]
      BY Zenon DEF ReplayAdd, WithNote
    <3>6. QED
      BY <3>3, <3>4, <3>5, Zenon
  <2>2. b + w.next \in Nat /\ \A n \in ReplayAdd(w, c).notes : n.id <= b + w.next
    BY <1>1, <1>2 DEF ReplayAdd, WithNote, Merge, Note, Change
  <2>3. QED
    BY <2>1, <2>2 DEF IdsBounded
<1>4. ReplayDelete(w, c) \in Merge /\ IdsBounded(ReplayDelete(w, c).notes)
  BY <1>1 DEF ReplayDelete, Merge, IdsBounded
<1>5. ReplayUpdate(w, c) \in Merge /\ IdsBounded(ReplayUpdate(w, c).notes)
  <2>1. ReplayUpdate(w, c) \in Merge
    BY <1>2 DEF ReplayUpdate, Merge, Note, Change
  <2>2. \A n \in ReplayUpdate(w, c).notes : n.id <= b
    BY <1>1, <1>2 DEF ReplayUpdate, Merge, Note, Change
  <2>3. QED
    BY <2>1, <2>2 DEF IdsBounded
<1>6. ReplayActive(w, c) \in Merge /\ IdsBounded(ReplayActive(w, c).notes)
  <2>1. ReplayActive(w, c) \in Merge
    BY <1>2 DEF ReplayActive, Merge, Note, Change
  <2>2. \A n \in ReplayActive(w, c).notes : n.id <= b
    BY <1>1, <1>2 DEF ReplayActive, Merge, Note, Change
  <2>3. QED
    BY <2>1, <2>2 DEF IdsBounded
<1>7. QED
  BY <1>3, <1>4, <1>5, <1>6

LEMMA ReplayType ==
    ASSUME NEW w \in Merge, IdsBounded(w.notes), NEW c \in w.todo
    PROVE  Replay(w, c) \in Merge /\ IdsBounded(Replay(w, c).notes)
<1>1. c.kind \in {"add", "delete", "update", "active"}
  BY DEF Merge, Change
<1>2. PICK v \in Merge : IdsBounded(v.notes) /\ Replay(w, c) = [v EXCEPT !.todo = @ \ {c}]
  BY <1>1, ReplayKindsType DEF Replay
<1>3. QED
  BY <1>2 DEF Merge

LEMMA UndoType ==
    ASSUME TypeInv, NEW s \in Sessions, NEW ns \in SUBSET Note,
           NEW journal \in SUBSET Change, AtBounded(journal), Undo(s, ns, journal)
    PROVE  /\ notes' \in [Sessions -> SUBSET Note]
           /\ pending' \in [Sessions -> SUBSET Change]
           /\ \A w \in Sessions : AtBounded(pending'[w])
<1> DEFINE mine == {n \in ns : /\ call[s].op = "save"
                               /\ n.id = call[s].id
                               /\ {n.text} = call[s].text}
           rest == IF mine = {} THEN journal
                   ELSE JournalAfterDelete(journal, CHOOSE n \in mine : TRUE)
<1>1. rest \in SUBSET Change /\ AtBounded(rest)
  <2>1. CASE mine = {}
    BY <2>1
  <2>2. CASE mine # {}
    <3>1. (CHOOSE n \in mine : TRUE) \in Note
      BY <2>2
    <3>2. QED
      BY <2>2, <3>1, JournalAfterDeleteType
  <2>3. QED
    BY <2>1, <2>2
<1>2. /\ notes' = [notes EXCEPT ![s] = ns \ mine]
      /\ pending' = [pending EXCEPT ![s] = rest]
  BY DEF Undo
<1> HIDE DEF rest
<1>3. QED
  BY <1>1, <1>2 DEF TypeInv, TypeOK, Bounds

LEMMA DoneType ==
    ASSUME TypeInv, NEW s \in Sessions, Done(s)
    PROVE  /\ pc' \in [Sessions -> {"off", "idle"} \union InSave]
           /\ call' \in [Sessions -> Call]
           /\ work' \in [Sessions -> Merge]
           /\ \A w \in Sessions : IdsBounded(work'[w].notes)
<1>1. NoMerge \in Merge /\ IdsBounded(NoMerge.notes) /\ NoCall \in Call
  BY EmptyBounded DEF NoMerge, Merge, NoCall, Call
<1>2. QED
  BY <1>1 DEF TypeInv, TypeOK, Bounds, Done

LEMMA SpendType ==
    ASSUME TypeInv, NEW what \in Bounded, Spend(what)
    PROVE  left' \in [Bounded -> Nat]
  BY DEF TypeInv, TypeOK, Spend

LEMMA GoneType ==
    ASSUME TypeInv, NEW s \in Sessions, Gone(s), left' \in [Bounded -> Nat]
    PROVE  TypeInv'
<1>1. NoMerge \in Merge /\ NoMerge.notes = {} /\ NoCall \in Call
  BY DEF NoMerge, Merge, NoCall, Call
<1>2. TypeOK'
  BY <1>1 DEF TypeInv, TypeOK, Gone, diskVars, Lock
<1>3. Bounds'
  BY <1>1, EmptyBounded DEF TypeInv, TypeOK, Bounds, Gone, diskVars
<1>4. QED
  BY <1>2, <1>3 DEF TypeInv

\* What an action leaves alone when it touches neither a file nor a journal.
LEMMA NoFileTouched ==
    ASSUME TypeInv, UNCHANGED <<diskVars, pending, work>>
    PROVE  Bounds' /\ main' \in File /\ bak' \in File /\ stored' \in SUBSET Note
           /\ pending' \in [Sessions -> SUBSET Change] /\ work' \in [Sessions -> Merge]
  BY DEF TypeInv, TypeOK, Bounds, diskVars

LEMMA AskType ==
    ASSUME TypeInv, NEW s \in Sessions, Ask(s)
    PROVE  TypeInv'
<1>1. \A x \in Sessions : pending[x] \in SUBSET Change /\ AtBounded(pending[x])
                          /\ notes[x] \in SUBSET Note /\ nextId[x] \in Nat
  BY DEF TypeInv, TypeOK, Bounds
<1>2. CASE Open(s)
  <2>1. Best.notes \in SUBSET Note /\ SafeNextId(Best) \in Nat
    BY BestType, SafeNextIdType DEF File
  <2>2. TypeOK'
    BY <1>2, <2>1 DEF TypeInv, TypeOK, Open, GoTo, diskVars
  <2>3. Bounds'
    BY <1>2, EmptyBounded DEF TypeInv, TypeOK, Bounds, Open, diskVars
  <2>4. QED
    BY <2>2, <2>3 DEF TypeInv
<1>3. ASSUME NEW t \in Texts, Save(s, t)
      PROVE  TypeInv'
  <2> DEFINE note == [id |-> nextId[s], text |-> t, active |-> TRUE, first |-> t]
             add == [kind |-> "add", at |-> NextAt(pending[s]), id |-> nextId[s],
                     text |-> t, active |-> TRUE, of |-> t]
             made == [op |-> "save", id |-> nextId[s], text |-> {t}]
  <2>1. note \in Note /\ add \in Change /\ made \in Call
    BY <1>1, NextAtType DEF Note, Change, Call
  <2>2. {add} \in SUBSET Change /\ \A c \in {add} : c.at = NextAt(pending[s])
    BY <2>1
  <2>3. pending[s] \union {add} \in SUBSET Change /\ AtBounded(pending[s] \union {add})
    BY <1>1, <2>2, JournalGrows, Zenon
  <2>4. /\ notes' = [notes EXCEPT ![s] = @ \union {note}]
        /\ nextId' = [nextId EXCEPT ![s] = nextId[s] + 1]
        /\ pending' = [pending EXCEPT ![s] = pending[s] \union {add}]
        /\ call' = [call EXCEPT ![s] = made]
    BY <1>3 DEF Save
  <2>5. left' \in [Bounded -> Nat]
    BY <1>3, SpendType DEF Save, Bounded
  <2> HIDE DEF note, add, made
  <2>6. TypeOK'
    <3>1. notes' \in [Sessions -> SUBSET Note] /\ nextId' \in [Sessions -> Nat]
      BY <1>1, <2>1, <2>4 DEF TypeInv, TypeOK
    <3>2. pending' \in [Sessions -> SUBSET Change] /\ call' \in [Sessions -> Call]
      BY <2>1, <2>3, <2>4 DEF TypeInv, TypeOK
    <3>3. pc' \in [Sessions -> {"off", "idle"} \union InSave]
      BY <1>3 DEF TypeInv, TypeOK, Save, GoTo, InSave
    <3>4. UNCHANGED <<diskVars, lock, work>>
      BY <1>3 DEF Save
    <3>5. QED
      BY <2>5, <3>1, <3>2, <3>3, <3>4 DEF TypeInv, TypeOK, diskVars
  <2>7. Bounds'
    BY <1>3, <2>3, <2>4 DEF TypeInv, TypeOK, Bounds, Save, diskVars
  <2>8. QED
    BY <2>6, <2>7 DEF TypeInv
<1>4. ASSUME NEW n \in notes[s], Forget(s, n)
      PROVE  TypeInv'
  <2> DEFINE made == [op |-> "forget", id |-> n.id, text |-> {n.text}]
  <2>1. n \in Note
    BY <1>1
  <2>2. made \in Call
    BY <2>1 DEF Note, Call
  <2>3. /\ JournalAfterDelete(pending[s], n) \in SUBSET Change
        /\ AtBounded(JournalAfterDelete(pending[s], n))
    BY <1>1, <2>1, JournalAfterDeleteType
  <2>4. /\ pending' = [pending EXCEPT ![s] = JournalAfterDelete(pending[s], n)]
        /\ call' = [call EXCEPT ![s] = made]
    BY <1>4 DEF Forget
  <2>5. left' \in [Bounded -> Nat]
    BY <1>4, SpendType DEF Forget, Bounded
  <2> HIDE DEF made
  <2>6. TypeOK'
    BY <1>4, <2>2, <2>3, <2>4, <2>5
    DEF TypeInv, TypeOK, Forget, GoTo, InSave, diskVars
  <2>7. Bounds'
    BY <1>4, <2>3, <2>4 DEF TypeInv, TypeOK, Bounds, Forget, diskVars
  <2>8. QED
    BY <2>6, <2>7 DEF TypeInv
<1>5. ASSUME NEW n \in notes[s], NEW kind \in {"update", "active"}, NEW t \in Texts,
             NEW b \in BOOLEAN, Edit(s, kind, n, t, b)
      PROVE  TypeInv'
  <2> DEFINE note == [n EXCEPT !.text = t, !.active = b]
             edit == [kind |-> kind, at |-> NextAt(pending[s]), id |-> n.id,
                      text |-> t, active |-> b, of |-> n.first]
  <2>1. note \in Note /\ edit \in Change
    BY <1>1, NextAtType DEF Note, Change
  <2>2. {edit} \in SUBSET Change /\ \A c \in {edit} : c.at = NextAt(pending[s])
    BY <2>1
  <2>3. pending[s] \union {edit} \in SUBSET Change /\ AtBounded(pending[s] \union {edit})
    BY <1>1, <2>2, JournalGrows, Zenon
  <2>4. /\ notes' = [notes EXCEPT ![s] = (@ \ {n}) \union {note}]
        /\ pending' = [pending EXCEPT ![s] = pending[s] \union {edit}]
    BY <1>5 DEF Edit
  <2>5. left' \in [Bounded -> Nat]
    BY <1>5, SpendType DEF Edit, Bounded
  <2> HIDE DEF note, edit
  <2>6. TypeOK'
    BY <1>5, <2>1, <2>3, <2>4, <2>5 DEF TypeInv, TypeOK, Edit, diskVars
  <2>7. Bounds'
    BY <1>5, <2>3, <2>4 DEF TypeInv, TypeOK, Bounds, Edit, diskVars
  <2>8. QED
    BY <2>6, <2>7 DEF TypeInv
<1>6. CASE DeleteAll(s)
  <2> DEFINE gone == {[kind |-> "delete", at |-> NextAt(pending[s]), id |-> n.id,
                       text |-> n.text, active |-> n.active, of |-> n.first] :
                         n \in notes[s]}
  <2>1. gone \in SUBSET Change /\ \A c \in gone : c.at = NextAt(pending[s])
    BY <1>1, NextAtType DEF Note, Change
  <2>2. pending[s] \union gone \in SUBSET Change /\ AtBounded(pending[s] \union gone)
    BY <1>1, <2>1, JournalGrows, Zenon
  <2>3. pending' = [pending EXCEPT ![s] = pending[s] \union gone]
    BY <1>6 DEF DeleteAll
  <2>4. left' \in [Bounded -> Nat]
    BY <1>6, SpendType DEF DeleteAll, Bounded
  <2> HIDE DEF gone
  <2>5. TypeOK'
    BY <1>6, <2>2, <2>3, <2>4 DEF TypeInv, TypeOK, DeleteAll, diskVars
  <2>6. Bounds'
    BY <1>6, <2>2, <2>3 DEF TypeInv, TypeOK, Bounds, DeleteAll, diskVars
  <2>7. QED
    BY <2>5, <2>6 DEF TypeInv
<1>7. CASE Flush(s)
  <2>1. [NoCall EXCEPT !.op = "flush"] \in Call
    BY DEF NoCall, Call
  <2>2. TypeOK'
    BY <1>7, <2>1 DEF TypeInv, TypeOK, Flush, GoTo, InSave, diskVars
  <2>3. Bounds'
    BY <1>7, NoFileTouched DEF Flush
  <2>4. QED
    BY <2>2, <2>3 DEF TypeInv
<1>8. ASSUME NEW n \in notes[s], NEW t \in Texts, Update(s, n, t)
      PROVE  TypeInv'
  <2>1. n.active \in BOOLEAN
    BY <1>1 DEF Note
  <2>2. QED
    BY <1>5, <1>8, <2>1 DEF Update
<1>9. ASSUME NEW n \in notes[s], NEW b \in BOOLEAN, SetActive(s, n, b)
      PROVE  TypeInv'
  <2>1. n.text \in Texts
    BY <1>1 DEF Note
  <2>2. QED
    BY <1>5, <1>9, <2>1 DEF SetActive
<1>10. QED
  BY <1>2, <1>3, <1>4, <1>6, <1>7, <1>8, <1>9 DEF Ask

LEMMA SaveStepType ==
    ASSUME TypeInv, NEW s \in Sessions, SaveStep(s)
    PROVE  TypeInv'
<1>1. CASE Acquire(s) \/ JudgeStale(s) \/ BreakLock(s)
  <2>1. TypeOK'
    <3>1. lock' \in Lock
      <4>1. NoLock \in Lock
        BY DEF NoLock, Lock
      <4>2. CASE Acquire(s)
        BY <4>2 DEF Acquire, Lock
      <4>3. CASE JudgeStale(s) \/ BreakLock(s)
        BY <4>1, <4>3 DEF TypeInv, TypeOK, JudgeStale, BreakLock
      <4>4. QED
        BY <1>1, <4>2, <4>3
    <3>2. QED
      BY <1>1, <3>1 DEF TypeInv, TypeOK, Acquire, JudgeStale, BreakLock, GoTo,
                        InSave, Critical, diskVars, sessionVars
  <2>2. Bounds'
    BY <1>1, NoFileTouched DEF Acquire, JudgeStale, BreakLock, sessionVars
  <2>3. QED
    BY <2>1, <2>2 DEF TypeInv
<1>2. CASE LockRefused(s) \/ SaveFails(s)
  <2>1. notes[s] \in SUBSET Note /\ pending[s] \in SUBSET Change /\ AtBounded(pending[s])
    BY DEF TypeInv, TypeOK, Bounds
  <2>2. Undo(s, notes[s], pending[s]) /\ Done(s) /\ UNCHANGED <<diskVars, nextId>>
        /\ lock' \in {lock, NoLock}
    BY <1>2 DEF LockRefused, SaveFails
  <2>3. left' \in [Bounded -> Nat]
    BY <1>2, SpendType DEF LockRefused, SaveFails, Bounded, TypeInv, TypeOK
  <2>4. lock' \in Lock
    <3>1. NoLock \in Lock
      BY DEF NoLock, Lock
    <3>2. QED
      BY <2>2, <3>1 DEF TypeInv, TypeOK
  <2>5. TypeOK'
    BY <2>1, <2>2, <2>3, <2>4, UndoType, DoneType DEF TypeInv, TypeOK, diskVars
  <2>6. Bounds'
    BY <2>1, <2>2, UndoType, DoneType DEF TypeInv, Bounds, diskVars
  <2>7. QED
    BY <2>5, <2>6 DEF TypeInv
<1>3. CASE ReadBase(s)
  <2> DEFINE base == [next |-> SafeNextId(Best), notes |-> Best.notes,
                      todo |-> pending[s], renamed |-> {}, rejected |-> FALSE]
  <2>1. base \in Merge /\ IdsBounded(base.notes)
    BY BestType, SafeNextIdType DEF File, Merge, TypeInv, TypeOK
  <2>2. work' = [work EXCEPT ![s] = base]
    BY <1>3 DEF ReadBase
  <2>3. main' \in File /\ IdsBounded(main'.notes)
    BY <1>3, EmptyBounded DEF ReadBase, TypeInv, TypeOK, Bounds, File, NoFile
  <2> HIDE DEF base
  <2>4. TypeOK'
    BY <1>3, <2>1, <2>2, <2>3
    DEF ReadBase, TypeInv, TypeOK, GoTo, InSave, Critical, sessionVars
  <2>5. Bounds'
    BY <1>3, <2>1, <2>2, <2>3 DEF ReadBase, TypeInv, TypeOK, Bounds, sessionVars
  <2>6. QED
    BY <2>4, <2>5 DEF TypeInv
<1>4. CASE ReplayOne(s)
  <2>1. PICK c \in work[s].todo : work' = [work EXCEPT ![s] = Replay(work[s], c)]
    BY <1>4 DEF ReplayOne
  <2>2. Replay(work[s], c) \in Merge /\ IdsBounded(Replay(work[s], c).notes)
    BY ReplayType DEF TypeInv, TypeOK, Bounds
  <2>3. TypeOK'
    BY <1>4, <2>1, <2>2 DEF ReplayOne, TypeInv, TypeOK, diskVars, sessionVars
  <2>4. Bounds'
    BY <1>4, <2>1, <2>2 DEF ReplayOne, TypeInv, TypeOK, Bounds, diskVars, sessionVars
  <2>5. QED
    BY <2>3, <2>4 DEF TypeInv
<1>5. CASE WriteMain(s) \/ WriteBackup(s) \/ BackupFails(s)
  <2>1. Merged(s) \in File /\ IdsBounded(Merged(s).notes) /\ work[s].notes \in SUBSET Note
    BY DEF Merged, TypeInv, TypeOK, Bounds, File, Merge
  <2>2. left' \in [Bounded -> Nat]
    BY <1>5, SpendType
    DEF WriteMain, WriteBackup, BackupFails, Bounded, TypeInv, TypeOK
  <2>3. main' \in {main, Merged(s)} /\ bak' \in {bak, Merged(s)}
        /\ stored' \in {stored, work[s].notes}
    BY <1>5 DEF WriteMain, WriteBackup, BackupFails, diskVars
  <2>4. TypeOK'
    BY <1>5, <2>1, <2>2, <2>3
    DEF WriteMain, WriteBackup, BackupFails, TypeInv, TypeOK, GoTo, InSave, Critical,
        sessionVars
  <2>5. Bounds'
    BY <1>5, <2>1, <2>3
    DEF WriteMain, WriteBackup, BackupFails, TypeInv, Bounds, sessionVars
  <2>6. QED
    BY <2>4, <2>5 DEF TypeInv
<1>6. CASE Finish(s)
  <2>1. work[s] \in Merge
    BY DEF TypeInv, TypeOK
  <2>2. /\ notes' \in [Sessions -> SUBSET Note]
        /\ pending' \in [Sessions -> SUBSET Change]
        /\ \A w \in Sessions : AtBounded(pending'[w])
    <3>1. CASE work[s].rejected
      <4>1. Undo(s, work[s].notes, {}) /\ work[s].notes \in SUBSET Note
        BY <1>6, <2>1, <3>1 DEF Finish, Merge
      <4>2. {} \in SUBSET Change
        OBVIOUS
      <4>3. QED
        BY <4>1, <4>2, EmptyBounded, UndoType, Zenon
    <3>2. CASE ~ work[s].rejected
      BY <1>6, <2>1, <3>2, EmptyBounded DEF Finish, Merge, TypeInv, TypeOK, Bounds
    <3>3. QED
      BY <3>1, <3>2
  <2>3. Done(s) /\ UNCHANGED <<diskVars, left>> /\ lock' = NoLock
        /\ nextId' = [nextId EXCEPT ![s] = work[s].next]
    BY <1>6 DEF Finish
  <2>4. NoLock \in Lock
    BY DEF NoLock, Lock
  <2>5. TypeOK'
    BY <2>1, <2>2, <2>3, <2>4, DoneType DEF TypeInv, TypeOK, Merge, diskVars
  <2>6. Bounds'
    BY <2>2, <2>3, DoneType DEF TypeInv, Bounds, diskVars
  <2>7. QED
    BY <2>5, <2>6 DEF TypeInv
<1>7. QED
  BY <1>1, <1>2, <1>3, <1>4, <1>5, <1>6 DEF SaveStep

LEMMA EnvironmentType ==
    ASSUME TypeInv, LockAges \/ Damage \/ Wipe
    PROVE  TypeInv'
<1>1. CASE LockAges
  <2>1. TypeOK'
    BY <1>1 DEF LockAges, TypeInv, TypeOK, Lock, diskVars, sessionVars
  <2>2. Bounds'
    BY <1>1, NoFileTouched DEF LockAges, sessionVars
  <2>3. QED
    BY <2>1, <2>2 DEF TypeInv
<1>2. CASE Damage \/ Wipe
  <2>1. left' \in [Bounded -> Nat]
    BY <1>2, SpendType DEF Damage, Wipe, Bounded
  <2>2. main' \in {main, DamagedFile, NoFile, [main EXCEPT !.next = 0]}
        /\ bak' \in {bak, DamagedFile} /\ stored' \in {stored, {}}
    BY <1>2 DEF Damage, Wipe
  <2>3. main' \in File /\ bak' \in File /\ IdsBounded(main'.notes) /\ IdsBounded(bak'.notes)
    <3>1. \A f \in {DamagedFile, NoFile} : f \in File /\ IdsBounded(f.notes)
      BY EmptyBounded DEF File, NoFile, DamagedFile
    <3>2. main \in File /\ bak \in File /\ IdsBounded(main.notes) /\ IdsBounded(bak.notes)
      BY DEF TypeInv, TypeOK, Bounds
    <3>3. /\ [main EXCEPT !.next = 0] \in File
          /\ [main EXCEPT !.next = 0].notes = main.notes
      BY <3>2 DEF File
    <3>4. QED
      BY <2>2, <3>1, <3>2, <3>3
  <2>4. TypeOK'
    BY <1>2, <2>1, <2>2, <2>3 DEF Damage, Wipe, TypeInv, TypeOK, sessionVars
  <2>5. Bounds'
    BY <1>2, <2>3 DEF Damage, Wipe, TypeInv, Bounds, sessionVars
  <2>6. QED
    BY <2>4, <2>5 DEF TypeInv
<1>3. QED
  BY <1>1, <1>2

LEMMA TypesHold == Spec => []TypeInv
<1>1. Init => TypeInv
  <2>1. NoFile \in File /\ NoLock \in Lock /\ NoFile.notes = {} /\ NoMerge.notes = {}
    BY DEF NoFile, File, NoLock, Lock, NoMerge
  <2>2. NoCall \in Call /\ NoMerge \in Merge
    BY DEF NoCall, Call, NoMerge, Merge
  <2>3. Init => TypeOK
    BY <2>1, <2>2, LimitsAssumption DEF Init, TypeOK, InSave
  <2>4. Init => Bounds
    BY <2>1, EmptyBounded DEF Init, Bounds
  <2>5. QED
    BY <2>3, <2>4 DEF TypeInv
<1>2. TypeInv /\ [Next]_vars => TypeInv'
  <2>1. ASSUME TypeInv, Next
        PROVE  TypeInv'
    <3>1. ASSUME NEW s \in Sessions, Quit(s) \/ Crash(s)
          PROVE  TypeInv'
      <4>1. left' \in [Bounded -> Nat]
        BY <2>1, <3>1, SpendType DEF Quit, Crash, Bounded, TypeInv, TypeOK
      <4>2. QED
        BY <2>1, <3>1, <4>1, GoneType DEF Quit, Crash
    <3>2. QED
      BY <2>1, <3>1, AskType, SaveStepType, EnvironmentType DEF Next
  <2>2. ASSUME TypeInv, UNCHANGED vars
        PROVE  TypeInv'
    BY <2>2 DEF vars, TypeInv, TypeOK, Bounds
  <2>3. QED
    BY <2>1, <2>2
<1>3. QED
  BY <1>1, <1>2, PTL DEF Spec

\* Every variable keeps the type its declaration names: a file's notes and ids,
\* a session's copy and journal, and the merge between them.
THEOREM TypeCorrect == Spec => []TypeOK
  BY TypesHold, PTL DEF TypeInv

-----------------------------------------------------------------------------
(* Mutual exclusion in `save`, when no live process holds the lock past     *)
(* LOCK_STALE and no two waiters judge one lock stale at once.  Inductive   *)
(* with it: the lock's owner is whoever is in `save`, a stale lock has no   *)
(* living owner, and a lock about to be broken is still the stale one.      *)

LockOfHolder == \A s \in Sessions : pc[s] \in Critical => lock.on /\ lock.owner = s

StaleIsDead == lock.stale => lock.on /\ lock.owner = Nobody

BreaksStale == \A s \in Sessions : pc[s] = "breaking" => lock.stale

OneBreaker ==
    \A s, w \in Sessions : pc[s] = "breaking" /\ pc[w] = "breaking" => s = w

LockInv == LockOfHolder /\ StaleIsDead /\ BreaksStale /\ OneBreaker

\* The lock as the actions of a save leave it.
LEMMA NoLockState == ~ NoLock.on /\ ~ NoLock.stale
  BY DEF NoLock

LEMMA InSaveLabels ==
    /\ \A l \in Critical : l \notin {"off", "idle", "waiting", "breaking"}
    /\ {"locked", "replaying", "written", "backed"} \subseteq Critical
  BY DEF Critical

\* The steps that move a session s from one place to another and touch no lock.
LEMMA QuietStep ==
    ASSUME TypeOK, LockInv, NEW s \in Sessions, NEW to,
           pc' = [pc EXCEPT ![s] = to], lock' = lock,
           to # "breaking", to \in Critical => pc[s] \in Critical
    PROVE  LockInv'
<1>1. \A w \in Sessions : pc'[w] = IF w = s THEN to ELSE pc[w]
  BY DEF TypeOK
<1>2. QED
  BY <1>1 DEF LockInv, LockOfHolder, StaleIsDead, BreaksStale, OneBreaker

\* A session in `save` drops its lock.
LEMMA DropStep ==
    ASSUME TypeOK, LockInv, NEW s \in Sessions, pc[s] \in Critical,
           pc' = [pc EXCEPT ![s] = "idle"], lock' = NoLock
    PROVE  LockInv'
<1>1. \A w \in Sessions : pc'[w] = IF w = s THEN "idle" ELSE pc[w]
  BY DEF TypeOK
<1>2. lock.owner = s /\ s # Nobody /\ ~ lock.stale
  BY NobodyAssumption DEF LockInv, LockOfHolder, StaleIsDead
<1>3. \A w \in Sessions : w # s => pc[w] \notin Critical
  BY <1>2 DEF LockInv, LockOfHolder
<1>4. \A w \in Sessions : pc[w] # "breaking"
  BY <1>2 DEF LockInv, BreaksStale
<1>5. QED
  BY <1>1, <1>3, <1>4, NoLockState, InSaveLabels
  DEF LockInv, LockOfHolder, StaleIsDead, BreaksStale, OneBreaker

LEMMA LockSaveStep ==
    ASSUME TypeOK, LockInv, ~ TwoBreakers, NEW s \in Sessions, SaveStep(s)
    PROVE  LockInv'
<1>1. CASE Acquire(s)
  <2>1. /\ pc[s] = "waiting" /\ pc' = [pc EXCEPT ![s] = "locked"]
        /\ ~ lock.on /\ lock'.on /\ lock'.owner = s /\ ~ lock'.stale
    BY <1>1 DEF Acquire, GoTo
  <2>2. \A w \in Sessions : pc[w] \notin Critical /\ pc[w] # "breaking"
    BY <2>1 DEF LockInv, LockOfHolder, StaleIsDead, BreaksStale
  <2>3. \A w \in Sessions : pc'[w] = IF w = s THEN "locked" ELSE pc[w]
    BY <2>1 DEF TypeOK
  <2>4. QED
    BY <2>1, <2>2, <2>3 DEF LockInv, LockOfHolder, StaleIsDead, BreaksStale, OneBreaker
<1>2. CASE JudgeStale(s)
  <2>1. /\ pc' = [pc EXCEPT ![s] = "breaking"] /\ lock' = lock /\ lock.stale
        /\ \A w \in Sessions : pc[w] # "breaking"
    BY <1>2 DEF JudgeStale, GoTo
  <2>2. \A w \in Sessions : pc'[w] = IF w = s THEN "breaking" ELSE pc[w]
    BY <2>1 DEF TypeOK
  <2>3. QED
    BY <2>1, <2>2, InSaveLabels
    DEF LockInv, LockOfHolder, StaleIsDead, BreaksStale, OneBreaker
<1>3. CASE BreakLock(s)
  <2>1. /\ pc[s] = "breaking" /\ pc' = [pc EXCEPT ![s] = "waiting"] /\ lock' = NoLock
    BY <1>3 DEF BreakLock, GoTo
  <2>2. lock.owner = Nobody
    BY <2>1 DEF LockInv, BreaksStale, StaleIsDead
  <2>3. \A w \in Sessions : pc[w] \notin Critical
    BY <2>2, NobodyAssumption DEF LockInv, LockOfHolder
  <2>4. \A w \in Sessions : pc'[w] = IF w = s THEN "waiting" ELSE pc[w]
    BY <2>1 DEF TypeOK
  <2>5. \A w \in Sessions : pc'[w] \notin Critical /\ pc'[w] # "breaking"
    BY <2>1, <2>3, <2>4, InSaveLabels DEF LockInv, OneBreaker
  <2>6. QED
    BY <2>1, <2>5, NoLockState
    DEF LockInv, LockOfHolder, StaleIsDead, BreaksStale, OneBreaker
<1>4. CASE LockRefused(s)
  BY <1>4, QuietStep, InSaveLabels DEF LockRefused, Done
<1>5. CASE ReadBase(s) \/ WriteMain(s) \/ WriteBackup(s) \/ BackupFails(s)
  <2>1. PICK to \in Critical : pc[s] \in Critical /\ pc' = [pc EXCEPT ![s] = to]
    BY <1>5, InSaveLabels DEF ReadBase, WriteMain, WriteBackup, BackupFails, GoTo
  <2>2. lock' = lock
    BY <1>5 DEF ReadBase, WriteMain, WriteBackup, BackupFails
  <2>3. QED
    BY <2>1, <2>2, QuietStep, InSaveLabels
<1>6. CASE ReplayOne(s)
  BY <1>6 DEF ReplayOne, LockInv, LockOfHolder, StaleIsDead, BreaksStale, OneBreaker
<1>7. CASE Finish(s) \/ SaveFails(s)
  <2>1. pc[s] \in Critical
    BY <1>7, InSaveLabels DEF Finish, SaveFails
  <2>2. pc' = [pc EXCEPT ![s] = "idle"] /\ lock' = NoLock
    BY <1>7 DEF Finish, SaveFails, Done
  <2>3. QED
    BY <2>1, <2>2, DropStep
<1>8. QED
  BY <1>1, <1>2, <1>3, <1>4, <1>5, <1>6, <1>7 DEF SaveStep

LEMMA LockAskStep ==
    ASSUME TypeOK, LockInv, NEW s \in Sessions, Ask(s)
    PROVE  LockInv'
<1>1. lock' = lock
  BY DEF Ask, Open, Save, Forget, Update, SetActive, Edit, DeleteAll, Flush
<1>2. \/ pc' = pc
      \/ \E to \in {"idle", "waiting"} : pc' = [pc EXCEPT ![s] = to]
  BY DEF Ask, Open, Save, Forget, Update, SetActive, Edit, DeleteAll, Flush, GoTo
<1>3. CASE pc' = pc
  BY <1>1, <1>3 DEF LockInv, LockOfHolder, StaleIsDead, BreaksStale, OneBreaker
<1>4. CASE \E to \in {"idle", "waiting"} : pc' = [pc EXCEPT ![s] = to]
  BY <1>1, <1>4, QuietStep, InSaveLabels
<1>5. QED
  BY <1>2, <1>3, <1>4

LEMMA LockGoneStep ==
    ASSUME TypeOK, LockInv, NEW s \in Sessions, Gone(s)
    PROVE  LockInv'
<1>1. \A w \in Sessions : pc'[w] = IF w = s THEN "off" ELSE pc[w]
  BY DEF Gone, TypeOK
<1>2. CASE lock.owner = s
  <2>1. lock'.on = lock.on /\ lock'.stale = lock.stale /\ lock'.owner = Nobody
    BY <1>2 DEF Gone, TypeOK, Lock
  <2>2. \A w \in Sessions : w # s => pc[w] \notin Critical
    BY <1>2 DEF LockInv, LockOfHolder
  <2>3. QED
    BY <1>1, <2>1, <2>2, InSaveLabels
    DEF LockInv, LockOfHolder, StaleIsDead, BreaksStale, OneBreaker
<1>3. CASE lock.owner # s
  BY <1>1, <1>3, InSaveLabels
  DEF Gone, LockInv, LockOfHolder, StaleIsDead, BreaksStale, OneBreaker
<1>4. QED
  BY <1>2, <1>3

LEMMA LockEnvironmentStep ==
    ASSUME TypeOK, LockInv, ~ SlowHolder, LockAges \/ Damage \/ Wipe
    PROVE  LockInv'
<1>1. CASE LockAges
  <2>1. pc' = pc /\ lock.on /\ lock.owner = Nobody
    BY <1>1 DEF LockAges
  <2>2. lock'.on /\ lock'.stale /\ lock'.owner = lock.owner
    BY <1>1 DEF LockAges, TypeOK, Lock
  <2>3. QED
    BY <2>1, <2>2 DEF LockInv, LockOfHolder, StaleIsDead, BreaksStale, OneBreaker
<1>2. CASE Damage \/ Wipe
  BY <1>2 DEF Damage, Wipe, LockInv, LockOfHolder, StaleIsDead, BreaksStale, OneBreaker
<1>3. QED
  BY <1>1, <1>2

LEMMA LockHolds ==
    ASSUME ~ SlowHolder, ~ TwoBreakers
    PROVE  Spec => []LockInv
<1>1. Init => LockInv
  BY InSaveLabels, NoLockState
  DEF Init, LockInv, LockOfHolder, StaleIsDead, BreaksStale, OneBreaker
<1>2. TypeOK /\ LockInv /\ [Next]_vars => LockInv'
  <2>1. ASSUME TypeOK, LockInv, Next
        PROVE  LockInv'
    BY <2>1, LockAskStep, LockSaveStep, LockGoneStep, LockEnvironmentStep
    DEF Next, Quit, Crash
  <2>2. ASSUME LockInv, UNCHANGED vars
        PROVE  LockInv'
    BY <2>2 DEF vars, LockInv, LockOfHolder, StaleIsDead, BreaksStale, OneBreaker
  <2>3. QED
    BY <2>1, <2>2
<1>3. QED
  BY <1>1, <1>2, TypeCorrect, PTL DEF Spec

\* No two sessions are between taking the lock and dropping it, whatever crashes
\* and whatever write fails, if holders are never slow and breakers never two.
THEOREM Exclusion ==
    ASSUME ~ SlowHolder, ~ TwoBreakers
    PROVE  Spec => []MutualExclusion
<1>1. LockInv => MutualExclusion
  BY DEF LockInv, LockOfHolder, MutualExclusion
<1>2. QED
  BY <1>1, LockHolds, PTL

-----------------------------------------------------------------------------
(* The comment on FileLock: with no slow holder, however many waiters judge *)
(* one lock stale, a race needs a crash inside `save`.  Until then the lock *)
(* has a living owner in `save`, so that none is ever stale.                *)

NoCrashYet == left["crash"] = Limits["crash"]

LivingLock ==
    /\ LockOfHolder
    /\ lock.on => lock.owner \in Sessions /\ pc[lock.owner] \in Critical
    /\ lock.stale => lock.on
    /\ ~ lock.on => lock.owner = Nobody
    /\ ~ lock.stale
    /\ \A s \in Sessions : pc[s] # "breaking"

RaceInv ==
    /\ left["crash"] <= Limits["crash"]
    /\ NoCrashYet => LivingLock

\* Only what is bounded is spent, and nothing is ever given back.
LEMMA OnlySpent ==
    ASSUME [Next]_vars
    PROVE  left' = left \/ \E what \in Bounded : Spend(what)
<1> DEFINE Counted == left' = left \/ \E what \in Bounded : Spend(what)
<1>1. ASSUME NEW s \in Sessions, Ask(s)
      PROVE  Counted
  BY <1>1 DEF Ask, Open, Save, Forget, Update, SetActive, Edit, DeleteAll, Flush, Bounded
<1>2. ASSUME NEW s \in Sessions, SaveStep(s)
      PROVE  Counted
  BY <1>2 DEF SaveStep, Acquire, JudgeStale, BreakLock, LockRefused, ReadBase, ReplayOne,
              WriteMain, WriteBackup, BackupFails, Finish, SaveFails, Bounded
<1>3. ASSUME NEW s \in Sessions, Quit(s) \/ Crash(s)
      PROVE  Counted
  BY <1>3 DEF Quit, Crash, Bounded
<1>4. CASE LockAges \/ Damage \/ Wipe
  BY <1>4 DEF LockAges, Damage, Wipe, Bounded
<1>5. CASE UNCHANGED vars
  BY <1>5 DEF vars
<1>6. QED
  BY <1>1, <1>2, <1>3, <1>4, <1>5 DEF Next

LEMMA CrashesOnlySpent ==
    ASSUME TypeOK, left["crash"] <= Limits["crash"], [Next]_vars
    PROVE  /\ left'["crash"] <= Limits["crash"]
           /\ NoCrashYet' => NoCrashYet /\ ~ \E s \in Sessions : Crash(s)
<1>1. left["crash"] \in Nat /\ Limits["crash"] \in Nat
  BY LimitsAssumption DEF TypeOK, Bounded
<1>2. left' = left \/ \E what \in Bounded : Spend(what)
  BY OnlySpent
<1>3. ASSUME NEW what \in Bounded, Spend(what)
      PROVE  left'["crash"] = IF what = "crash" THEN left["crash"] - 1 ELSE left["crash"]
  BY <1>3 DEF Spend, TypeOK, Bounded
<1>4. ASSUME NEW s \in Sessions, Crash(s)
      PROVE  left'["crash"] = left["crash"] - 1
  BY <1>3, <1>4 DEF Crash, Bounded
<1>5. QED
  BY <1>1, <1>2, <1>3, <1>4 DEF NoCrashYet

LEMMA LivingLockStep ==
    ASSUME TypeOK, LivingLock, ~ SlowHolder, [Next]_vars,
           ~ \E s \in Sessions : Crash(s)
    PROVE  LivingLock'
<1> USE NobodyAssumption
<1>1. ASSUME NEW s \in Sessions, NEW to, pc' = [pc EXCEPT ![s] = to], lock' = lock,
             to # "breaking", to \in Critical <=> pc[s] \in Critical
      PROVE  LivingLock'
  <2>1. \A w \in Sessions : pc'[w] = IF w = s THEN to ELSE pc[w]
    BY <1>1 DEF TypeOK
  <2>2. QED
    BY <1>1, <2>1 DEF LivingLock, LockOfHolder
<1>2. ASSUME NEW s \in Sessions, Acquire(s)
      PROVE  LivingLock'
  <2>1. /\ pc' = [pc EXCEPT ![s] = "locked"] /\ ~ lock.on
        /\ lock'.on /\ lock'.owner = s /\ ~ lock'.stale
    BY <1>2 DEF Acquire, GoTo
  <2>2. \A w \in Sessions : pc'[w] = IF w = s THEN "locked" ELSE pc[w]
    BY <2>1 DEF TypeOK
  <2>3. QED
    BY <2>1, <2>2, InSaveLabels DEF LivingLock, LockOfHolder
<1>3. ASSUME NEW s \in Sessions, Finish(s) \/ SaveFails(s)
      PROVE  LivingLock'
  <2>1. pc[s] \in Critical
    BY <1>3, InSaveLabels DEF Finish, SaveFails
  <2>2. pc' = [pc EXCEPT ![s] = "idle"] /\ lock' = NoLock
    BY <1>3 DEF Finish, SaveFails, Done
  <2>3. \A w \in Sessions : pc'[w] = IF w = s THEN "idle" ELSE pc[w]
    BY <2>2 DEF TypeOK
  <2>4. \A w \in Sessions : w # s => pc[w] \notin Critical
    BY <2>1 DEF LivingLock, LockOfHolder
  <2>5. \A w \in Sessions : pc'[w] \notin Critical /\ pc'[w] # "breaking"
    BY <2>3, <2>4, InSaveLabels DEF LivingLock
  <2>6. ~ NoLock.on /\ ~ NoLock.stale /\ NoLock.owner = Nobody
    BY DEF NoLock
  <2>7. QED
    BY <2>2, <2>5, <2>6 DEF LivingLock, LockOfHolder
<1>4. ASSUME NEW s \in Sessions,
             ReadBase(s) \/ WriteMain(s) \/ WriteBackup(s) \/ BackupFails(s)
      PROVE  LivingLock'
  <2>1. PICK to \in Critical : pc[s] \in Critical /\ pc' = [pc EXCEPT ![s] = to]
    BY <1>4, InSaveLabels DEF ReadBase, WriteMain, WriteBackup, BackupFails, GoTo
  <2>2. lock' = lock
    BY <1>4 DEF ReadBase, WriteMain, WriteBackup, BackupFails
  <2>3. QED
    BY <1>1, <2>1, <2>2, InSaveLabels
<1>5. ASSUME NEW s \in Sessions, LockRefused(s)
      PROVE  LivingLock'
  <2>1. pc[s] = "waiting" /\ pc' = [pc EXCEPT ![s] = "idle"] /\ lock' = lock
    BY <1>5 DEF LockRefused, Done
  <2>2. QED
    BY <1>1, <2>1, InSaveLabels
<1>6. ASSUME NEW s \in Sessions, Ask(s)
      PROVE  LivingLock'
  <2>1. lock' = lock
    BY <1>6 DEF Ask, Open, Save, Forget, Update, SetActive, Edit, DeleteAll, Flush
  <2>2. \/ pc' = pc
        \/ /\ pc[s] \in {"off", "idle"}
           /\ \E to \in {"idle", "waiting"} : pc' = [pc EXCEPT ![s] = to]
    BY <1>6 DEF Ask, Open, Save, Forget, Update, SetActive, Edit, DeleteAll, Flush, GoTo
  <2>3. CASE pc' = pc
    BY <2>1, <2>3 DEF LivingLock, LockOfHolder
  <2>4. CASE pc' # pc
    BY <1>1, <2>1, <2>2, <2>4, InSaveLabels
  <2>5. QED
    BY <2>3, <2>4
<1>7. ASSUME NEW s \in Sessions, Quit(s)
      PROVE  LivingLock'
  <2>1. pc[s] = "idle" /\ pc' = [pc EXCEPT ![s] = "off"] /\ lock.owner # s
    BY <1>7, InSaveLabels DEF Quit, Gone, LivingLock
  <2>2. lock' = lock
    BY <1>7, <2>1 DEF Quit, Gone
  <2>3. QED
    BY <1>1, <2>1, <2>2, InSaveLabels
<1>8. ASSUME lock' = lock, pc' = pc
      PROVE  LivingLock'
  BY <1>8 DEF LivingLock, LockOfHolder
<1>9. ~ LockAges /\ \A s \in Sessions : ~ JudgeStale(s) /\ ~ BreakLock(s)
  BY DEF LockAges, JudgeStale, BreakLock, GoTo, LivingLock
<1>10. CASE Damage \/ Wipe \/ UNCHANGED vars \/ \E s \in Sessions : ReplayOne(s)
  BY <1>8, <1>10 DEF Damage, Wipe, vars, ReplayOne
<1>11. QED
  BY <1>2, <1>3, <1>4, <1>5, <1>6, <1>7, <1>9, <1>10 DEF Next, SaveStep

\* As long as no process has died inside `save`, and none is slow in it, no two
\* sessions are ever in `save` at once.
THEOREM RaceNeedsCrash ==
    ASSUME ~ SlowHolder
    PROVE  Spec => []LockRaceNeedsCrash
<1>1. Init => RaceInv
  <2>1. Limits["crash"] <= Limits["crash"]
    BY LimitsAssumption DEF Bounded
  <2>2. Init => LivingLock
    BY InSaveLabels DEF Init, LivingLock, LockOfHolder, NoLock
  <2>3. QED
    BY <2>1, <2>2 DEF Init, RaceInv
<1>2. TypeOK /\ RaceInv /\ [Next]_vars => RaceInv'
  BY CrashesOnlySpent, LivingLockStep DEF RaceInv
<1>3. RaceInv => LockRaceNeedsCrash
  BY DEF RaceInv, NoCrashYet, LivingLock, LockOfHolder, LockRaceNeedsCrash, MutualExclusion
<1>4. QED
  BY <1>1, <1>2, <1>3, TypeCorrect, PTL DEF Spec

-----------------------------------------------------------------------------
(* One note per fact.  The merge of a save has to be consistent too while   *)
(* it is under way: it becomes the file, its copy and the session's notes.  *)

Sound(ns) ==
    /\ IsFiniteSet(ns)
    /\ \A m, n \in ns : m # n => m.id # n.id /\ m.text # n.text
    /\ Cardinality(ns) <= Cap

Below(ns, next) == \A n \in ns : n.id < next

NotesInv ==
    /\ Sound(main.notes) /\ Sound(bak.notes)
    /\ \A s \in Sessions :
          /\ Sound(notes[s]) /\ Below(notes[s], nextId[s])
          /\ Sound(work[s].notes) /\ Below(work[s].notes, work[s].next)

LEMMA EmptySound == Sound({}) /\ \A next \in Nat : Below({}, next)
  BY FS_EmptySet, CapAssumption DEF Sound, Below

\* Notes taken away leave a sound list sound.
LEMMA SubsetSound ==
    ASSUME NEW ns, Sound(ns), NEW ms \in SUBSET ns
    PROVE  Sound(ms)
<1>1. IsFiniteSet(ms) /\ Cardinality(ms) <= Cardinality(ns)
  BY FS_Subset DEF Sound
<1>2. Cardinality(ms) \in Nat /\ Cardinality(ns) \in Nat
  BY <1>1, FS_CardinalityType DEF Sound
<1>3. QED
  BY <1>1, <1>2, CapAssumption DEF Sound

\* A list with room for a new note stays sound with it.
LEMMA AddSound ==
    ASSUME NEW ns \in SUBSET Note, Sound(ns), ~ IsFull(ns), NEW n \in Note,
           n.text \notin TextsOf(ns), NEW next \in Nat, Below(ns, next), n.id = next
    PROVE  Sound(ns \union {n}) /\ Below(ns \union {n}, next + 1)
<1>1. IsFiniteSet(ns \union {n}) /\ Cardinality(ns \union {n}) <= Cardinality(ns) + 1
  <2>1. Cardinality(ns) \in Nat
    BY FS_CardinalityType DEF Sound
  <2>2. /\ IsFiniteSet(ns \union {n})
        /\ Cardinality(ns \union {n}) = IF n \in ns THEN Cardinality(ns) ELSE Cardinality(ns) + 1
    BY FS_AddElement DEF Sound
  <2>3. QED
    BY <2>1, <2>2
<1>2. Cardinality(ns) \in Nat /\ Cardinality(ns \union {n}) \in Nat
  BY <1>1, FS_CardinalityType DEF Sound
<1>3. Cardinality(ns \union {n}) <= Cap
  BY <1>1, <1>2, CapAssumption DEF IsFull
<1>4. \A m \in ns : m.id # n.id /\ m.text # n.text
  BY DEF TextsOf, Below, Note
<1>5. QED
  BY <1>1, <1>3, <1>4 DEF Sound, Below, Note

\* Notes changed one by one, so that no two come to be the same, stay sound.
LEMMA ImageSound ==
    ASSUME NEW ns, Sound(ns), NEW ms, NEW f \in [ns -> ms],
           \A m \in ms : \E n \in ns : m = f[n],
           \A m, n \in ns : m # n => f[m].id # f[n].id /\ f[m].text # f[n].text
    PROVE  Sound(ms)
<1>1. f \in Surjection(ns, ms)
  BY DEF Surjection
<1>2. IsFiniteSet(ms) /\ Cardinality(ms) <= Cardinality(ns)
  BY <1>1, FS_Surjection DEF Sound
<1>3. Cardinality(ms) \in Nat /\ Cardinality(ns) \in Nat
  BY <1>2, FS_CardinalityType DEF Sound
<1>4. Cardinality(ms) <= Cap
  BY <1>2, <1>3, CapAssumption DEF Sound
<1>5. ASSUME NEW k \in ms, NEW m \in ms, k # m
      PROVE  k.id # m.id /\ k.text # m.text
  <2>1. PICK x \in ns : k = f[x]
    OBVIOUS
  <2>2. PICK y \in ns : m = f[y]
    OBVIOUS
  <2>3. x # y
    BY <1>5, <2>1, <2>2
  <2>4. QED
    BY <2>1, <2>2, <2>3
<1>6. QED
  BY <1>2, <1>4, <1>5 DEF Sound

\* Each change replayed onto a sound merge leaves a sound merge.
LEMMA ReplaySound ==
    ASSUME NEW w \in Merge, Sound(w.notes), Below(w.notes, w.next), NEW c \in w.todo
    PROVE  Sound(Replay(w, c).notes) /\ Below(Replay(w, c).notes, Replay(w, c).next)
<1> DEFINE Good(v) == Sound(v.notes) /\ Below(v.notes, v.next)
<1>1. c \in Change /\ w.next \in Nat /\ w.notes \in SUBSET Note
  BY DEF Merge
<1>2. Good(ReplayAdd(w, c))
  <2> DEFINE note == [id |-> w.next, text |-> c.text, active |-> c.active,
                      first |-> c.text]
             moved == {p \in w.renamed : p[1] # c.id} \union {<<c.id, w.next>>}
             grown == [w EXCEPT !.notes = @ \union {note}, !.next = @ + 1,
                                !.renamed = moved]
  <2>1. CASE c.text \in TextsOf(w.notes)
    BY <2>1 DEF ReplayAdd
  <2>2. CASE c.text \notin TextsOf(w.notes) /\ IsFull(w.notes)
    BY <2>2 DEF ReplayAdd, Merge
  <2>3. CASE c.text \notin TextsOf(w.notes) /\ ~ IsFull(w.notes)
    <3>1. note \in Note /\ note.id = w.next /\ note.text = c.text
      BY <1>1 DEF Note, Change
    <3>2. ReplayAdd(w, c) = grown
      BY <2>3, Zenon DEF ReplayAdd, WithNote
    <3> HIDE DEF note, moved
    <3>3. grown.notes = w.notes \union {note} /\ grown.next = w.next + 1
      BY DEF Merge
    <3>4. Sound(w.notes \union {note}) /\ Below(w.notes \union {note}, w.next + 1)
      BY <1>1, <2>3, <3>1, AddSound
    <3>5. QED
      BY <3>2, <3>3, <3>4, Zenon
  <2>4. QED
    BY <2>1, <2>2, <2>3
<1>3. Good(ReplayDelete(w, c))
  <2>1. {n \in w.notes : n.text # c.text} \in SUBSET w.notes
    OBVIOUS
  <2>2. Sound({n \in w.notes : n.text # c.text})
    BY <2>1, SubsetSound
  <2>3. QED
    BY <2>2 DEF ReplayDelete, Below, Merge
<1>4. Good(ReplayUpdate(w, c))
  <2> DEFINE id == Follow(w, c.id)
             New(n) == IF n.id = id THEN [n EXCEPT !.text = c.text] ELSE n
             ms == {New(n) : n \in w.notes}
             f == [n \in w.notes |-> New(n)]
  <2>1. CASE \E n \in w.notes : n.id # id /\ n.text = c.text
    BY <2>1 DEF ReplayUpdate
  <2>2. CASE \A n \in w.notes : n.id # id => n.text # c.text
    <3>1. \A n \in w.notes : /\ New(n).id = n.id
                             /\ New(n).text = IF n.id = id THEN c.text ELSE n.text
      BY <1>1 DEF Note
    <3>2. f \in [w.notes -> ms] /\ \A m \in ms : \E n \in w.notes : m = f[n]
      OBVIOUS
    <3>3. \A n \in w.notes : f[n] = New(n)
      OBVIOUS
    <3>4. ReplayUpdate(w, c).notes = ms /\ ReplayUpdate(w, c).next = w.next
      BY <2>2 DEF ReplayUpdate, Merge
    <3> HIDE DEF New, f, ms
    <3>5. \A m, n \in w.notes : m # n => f[m].id # f[n].id /\ f[m].text # f[n].text
      BY <2>2, <3>1, <3>3 DEF Sound
    <3>6. Sound(ms)
      BY <3>2, <3>5, ImageSound
    <3>7. Below(ms, w.next)
      BY <3>1, <3>2, <3>3 DEF Below
    <3>8. QED
      BY <3>4, <3>6, <3>7
  <2>3. QED
    BY <2>1, <2>2
<1>5. Good(ReplayActive(w, c))
  <2> DEFINE id == Follow(w, c.id)
             New(n) == IF n.id = id THEN [n EXCEPT !.active = c.active] ELSE n
             ms == {New(n) : n \in w.notes}
             f == [n \in w.notes |-> New(n)]
  <2>1. \A n \in w.notes : New(n).id = n.id /\ New(n).text = n.text
    BY <1>1 DEF Note
  <2>2. f \in [w.notes -> ms] /\ \A m \in ms : \E n \in w.notes : m = f[n]
    OBVIOUS
  <2>3. \A n \in w.notes : f[n] = New(n)
    OBVIOUS
  <2>4. ReplayActive(w, c).notes = ms /\ ReplayActive(w, c).next = w.next
    BY DEF ReplayActive, Merge
  <2> HIDE DEF New, f, ms
  <2>5. \A m, n \in w.notes : m # n => f[m].id # f[n].id /\ f[m].text # f[n].text
    BY <2>1, <2>3 DEF Sound
  <2>6. Sound(ms)
    BY <2>2, <2>5, ImageSound
  <2>7. Below(ms, w.next)
    BY <2>1, <2>2, <2>3 DEF Below
  <2>8. QED
    BY <2>4, <2>6, <2>7
<1>6. PICK v : v \in Merge /\ Good(v) /\ Replay(w, c) = [v EXCEPT !.todo = @ \ {c}]
  <2>1. \A v \in {ReplayAdd(w, c), ReplayDelete(w, c), ReplayUpdate(w, c),
                   ReplayActive(w, c)} : v \in Merge
    <3>1. IdsBounded(w.notes)
      BY <1>1 DEF Below, IdsBounded, Note
    <3>2. QED
      BY <3>1, ReplayKindsType
  <2> HIDE DEF Good
  <2>2. QED
    BY <1>1, <1>2, <1>3, <1>4, <1>5, <2>1 DEF Replay, Change
<1>7. Replay(w, c).notes = v.notes /\ Replay(w, c).next = v.next
  BY <1>6 DEF Merge
<1>8. QED
  BY <1>6, <1>7

LEMMA FilesSound ==
    ASSUME TypeInv, NotesInv
    PROVE  Sound(Best.notes) /\ Below(Best.notes, SafeNextId(Best))
<1>1. Sound(Best.notes)
  BY EmptySound DEF NotesInv, Best, NoFile
<1>2. QED
  BY <1>1, BestType, SafeNextIdType, Zenon DEF Below

LEMMA UndoSound ==
    ASSUME TypeInv, NEW s \in Sessions, NEW ns \in SUBSET Note, NEW journal,
           Sound(ns), NEW next \in Nat, Below(ns, next), Undo(s, ns, journal)
    PROVE  /\ notes' \in [Sessions -> SUBSET Note]
           /\ Sound(notes'[s]) /\ Below(notes'[s], next)
           /\ \A w \in Sessions \ {s} : notes'[w] = notes[w]
<1>1. PICK mine \in SUBSET ns : notes' = [notes EXCEPT ![s] = ns \ mine]
  BY DEF Undo
<1>2. ns \ mine \in SUBSET ns
  OBVIOUS
<1>3. Sound(ns \ mine) /\ Below(ns \ mine, next)
  BY <1>2, SubsetSound DEF Below
<1>4. QED
  BY <1>1, <1>2, <1>3 DEF TypeInv, TypeOK

LEMMA DoneSound ==
    ASSUME TypeInv, NotesInv, NEW s \in Sessions, Done(s)
    PROVE  \A w \in Sessions : Sound(work'[w].notes) /\ Below(work'[w].notes, work'[w].next)
<1>1. Sound(NoMerge.notes) /\ Below(NoMerge.notes, NoMerge.next)
  BY EmptySound DEF NoMerge
<1>2. work' = [work EXCEPT ![s] = NoMerge]
  BY DEF Done
<1>3. QED
  BY <1>1, <1>2 DEF TypeInv, TypeOK, NotesInv

LEMMA AskSound ==
    ASSUME TypeInv, NotesInv, NEW s \in Sessions, Ask(s)
    PROVE  NotesInv'
<1> DEFINE Held(w) == Sound(notes'[w]) /\ Below(notes'[w], nextId'[w])
<1>1. /\ notes \in [Sessions -> SUBSET Note] /\ nextId \in [Sessions -> Nat]
      /\ \A w \in Sessions : Sound(notes[w]) /\ Below(notes[w], nextId[w])
  BY DEF TypeInv, TypeOK, NotesInv
<1>2. main' = main /\ bak' = bak /\ work' = work
  BY DEF Ask, Open, Save, Forget, Update, SetActive, Edit, DeleteAll, Flush,
         diskVars, sessionVars
<1>3. CASE Open(s)
  <2>1. Sound(Best.notes) /\ Below(Best.notes, SafeNextId(Best))
    BY FilesSound
  <2>2. /\ notes' = [notes EXCEPT ![s] = Best.notes]
        /\ nextId' = [nextId EXCEPT ![s] = SafeNextId(Best)]
    BY <1>3 DEF Open
  <2>3. \A w \in Sessions : Held(w)
    BY <1>1, <2>1, <2>2
  <2>4. QED
    BY <1>2, <2>3 DEF NotesInv
<1>4. ASSUME NEW t \in Texts, Save(s, t)
      PROVE  NotesInv'
  <2> DEFINE note == [id |-> nextId[s], text |-> t, active |-> TRUE, first |-> t]
  <2>1. note \in Note /\ note.id = nextId[s] /\ note.text = t
    BY <1>1 DEF Note
  <2>2. /\ notes' = [notes EXCEPT ![s] = notes[s] \union {note}]
        /\ nextId' = [nextId EXCEPT ![s] = nextId[s] + 1]
        /\ ~ IsFull(notes[s]) /\ t \notin TextsOf(notes[s])
    BY <1>4 DEF Save
  <2> HIDE DEF note
  <2>3. Sound(notes[s] \union {note}) /\ Below(notes[s] \union {note}, nextId[s] + 1)
    BY <1>1, <2>1, <2>2, AddSound
  <2>4. \A w \in Sessions : Held(w)
    BY <1>1, <2>2, <2>3
  <2>5. QED
    BY <1>2, <2>4 DEF NotesInv
<1>5. ASSUME NEW ns \in SUBSET notes[s], notes' = [notes EXCEPT ![s] = ns], nextId' = nextId
      PROVE  NotesInv'
  <2>1. Sound(ns) /\ Below(ns, nextId[s])
    BY <1>1, SubsetSound DEF Below
  <2>2. \A w \in Sessions : Held(w)
    BY <1>1, <1>5, <2>1
  <2>3. QED
    BY <1>2, <2>2 DEF NotesInv
<1>6. ASSUME NEW n \in notes[s], Forget(s, n)
      PROVE  NotesInv'
  <2>1. notes[s] \ {n} \in SUBSET notes[s]
    OBVIOUS
  <2>2. QED
    BY <1>5, <1>6, <2>1 DEF Forget
<1>7. CASE DeleteAll(s)
  <2>1. {} \in SUBSET notes[s]
    OBVIOUS
  <2>2. QED
    BY <1>5, <1>7, <2>1 DEF DeleteAll
<1>8. ASSUME NEW kind, NEW n \in notes[s], NEW t \in Texts, NEW b \in BOOLEAN,
             Edit(s, kind, n, t, b), \A m \in notes[s] : m.id # n.id => m.text # t
      PROVE  NotesInv'
  <2> DEFINE e == [n EXCEPT !.text = t, !.active = b]
             ms == (notes[s] \ {n}) \union {e}
             f == [m \in notes[s] |-> IF m = n THEN e ELSE m]
  <2>1. n \in Note /\ e.id = n.id /\ e.text = t
    BY <1>1 DEF Note
  <2>2. notes' = [notes EXCEPT ![s] = ms] /\ nextId' = nextId
    BY <1>8 DEF Edit
  <2> HIDE DEF e
  <2>3. /\ f \in [notes[s] -> ms] /\ \A m \in ms : \E k \in notes[s] : m = f[k]
        /\ \A m \in notes[s] : f[m] = IF m = n THEN e ELSE m
    OBVIOUS
  <2> HIDE DEF f
  <2>4. \A m, k \in notes[s] : m # k => f[m].id # f[k].id /\ f[m].text # f[k].text
    BY <1>1, <1>8, <2>1, <2>3 DEF Sound
  <2>5. Sound(ms)
    <3> HIDE DEF ms
    <3>1. QED
      BY <1>1, <2>3, <2>4, ImageSound
  <2>6. Below(ms, nextId[s])
    BY <1>1, <2>1 DEF Below
  <2> HIDE DEF ms
  <2>7. \A w \in Sessions : Held(w)
    BY <1>1, <2>2, <2>5, <2>6
  <2>8. QED
    BY <1>2, <2>7 DEF NotesInv
<1>9. ASSUME NEW n \in notes[s], NEW t \in Texts, Update(s, n, t)
      PROVE  NotesInv'
  <2>1. n.active \in BOOLEAN
    BY <1>1 DEF Note
  <2>2. QED
    BY <1>8, <1>9, <2>1 DEF Update
<1>10. ASSUME NEW n \in notes[s], NEW b \in BOOLEAN, SetActive(s, n, b)
      PROVE  NotesInv'
  <2>1. n.text \in Texts
    BY <1>1 DEF Note
  <2>2. \A m \in notes[s] : m.id # n.id => m.text # n.text
    BY <1>1 DEF Sound
  <2>3. QED
    BY <1>8, <1>10, <2>1, <2>2 DEF SetActive
<1>11. CASE Flush(s)
  BY <1>1, <1>2, <1>11 DEF Flush, NotesInv
<1>12. QED
  BY <1>3, <1>4, <1>6, <1>7, <1>9, <1>10, <1>11 DEF Ask

LEMMA SaveStepSound ==
    ASSUME TypeInv, NotesInv, NEW s \in Sessions, SaveStep(s)
    PROVE  NotesInv'
<1>1. /\ notes \in [Sessions -> SUBSET Note] /\ nextId \in [Sessions -> Nat]
      /\ work \in [Sessions -> Merge]
      /\ \A w \in Sessions : /\ Sound(notes[w]) /\ Below(notes[w], nextId[w])
                             /\ Sound(work[w].notes) /\ Below(work[w].notes, work[w].next)
      /\ Sound(main.notes) /\ Sound(bak.notes)
  BY DEF TypeInv, TypeOK, NotesInv
<1>2. work[s].notes \in SUBSET Note /\ work[s].next \in Nat
  BY <1>1 DEF Merge
<1>3. CASE Acquire(s) \/ JudgeStale(s) \/ BreakLock(s)
  BY <1>1, <1>3 DEF Acquire, JudgeStale, BreakLock, NotesInv, diskVars, sessionVars
<1>4. CASE LockRefused(s) \/ SaveFails(s)
  <2>1. /\ UNCHANGED <<diskVars, nextId>>
        /\ Undo(s, notes[s], pending[s]) /\ Done(s)
    BY <1>4 DEF LockRefused, SaveFails
  <2>2. /\ notes' \in [Sessions -> SUBSET Note]
        /\ Sound(notes'[s]) /\ Below(notes'[s], nextId[s])
        /\ \A w \in Sessions \ {s} : notes'[w] = notes[w]
    BY <1>1, <2>1, UndoSound
  <2>3. QED
    BY <1>1, <2>1, <2>2, DoneSound DEF NotesInv, diskVars
<1>5. CASE ReadBase(s)
  <2> DEFINE base == [next |-> SafeNextId(Best), notes |-> Best.notes,
                      todo |-> pending[s], renamed |-> {}, rejected |-> FALSE]
  <2>1. Sound(base.notes) /\ Below(base.notes, base.next)
    BY FilesSound
  <2>2. work' = [work EXCEPT ![s] = base]
    BY <1>5 DEF ReadBase
  <2>3. Sound(main'.notes)
    BY <1>1, <1>5, EmptySound DEF ReadBase, NoFile
  <2> HIDE DEF base
  <2>4. \A w \in Sessions : Sound(work'[w].notes) /\ Below(work'[w].notes, work'[w].next)
    BY <1>1, <2>1, <2>2
  <2>5. QED
    BY <1>1, <1>5, <2>3, <2>4 DEF ReadBase, NotesInv, sessionVars
<1>6. CASE ReplayOne(s)
  <2>1. PICK c \in work[s].todo : work' = [work EXCEPT ![s] = Replay(work[s], c)]
    BY <1>6 DEF ReplayOne
  <2>2. /\ Sound(Replay(work[s], c).notes)
        /\ Below(Replay(work[s], c).notes, Replay(work[s], c).next)
    BY <1>1, ReplaySound
  <2>3. \A w \in Sessions : Sound(work'[w].notes) /\ Below(work'[w].notes, work'[w].next)
    BY <1>1, <2>1, <2>2
  <2>4. QED
    BY <1>1, <1>6, <2>3 DEF ReplayOne, NotesInv, diskVars, sessionVars
<1>7. Merged(s).notes = work[s].notes
  BY DEF Merged
<1>8. CASE WriteMain(s) \/ WriteBackup(s) \/ BackupFails(s)
  BY <1>1, <1>7, <1>8
  DEF WriteMain, WriteBackup, BackupFails, NotesInv, diskVars, sessionVars
<1>9. CASE Finish(s)
  <2>1. /\ nextId' = [nextId EXCEPT ![s] = work[s].next]
        /\ Done(s) /\ UNCHANGED diskVars
    BY <1>9 DEF Finish
  <2>2. /\ notes' \in [Sessions -> SUBSET Note]
        /\ Sound(notes'[s]) /\ Below(notes'[s], work[s].next)
        /\ \A w \in Sessions \ {s} : notes'[w] = notes[w]
    <3>1. CASE work[s].rejected
      <4>1. Undo(s, work[s].notes, {})
        BY <1>9, <3>1 DEF Finish
      <4>2. QED
        BY <1>1, <1>2, <4>1, UndoSound
    <3>2. CASE ~ work[s].rejected
      <4>1. notes' = [notes EXCEPT ![s] = work[s].notes]
        BY <1>9, <3>2 DEF Finish
      <4>2. QED
        BY <1>1, <1>2, <4>1
    <3>3. QED
      BY <3>1, <3>2
  <2>3. QED
    BY <1>1, <2>1, <2>2, DoneSound DEF NotesInv, diskVars
<1>10. QED
  BY <1>3, <1>4, <1>5, <1>6, <1>8, <1>9 DEF SaveStep

LEMMA OutsideSound ==
    ASSUME TypeInv, NotesInv,
           LockAges \/ Damage \/ Wipe \/ UNCHANGED vars
             \/ \E s \in Sessions : Quit(s) \/ Crash(s)
    PROVE  NotesInv'
<1>1. CASE LockAges \/ UNCHANGED vars
  BY <1>1 DEF LockAges, NotesInv, vars, diskVars, sessionVars
<1>2. CASE Damage \/ Wipe
  <2>1. main' \in {main, DamagedFile, NoFile, [main EXCEPT !.next = 0]}
        /\ bak' \in {bak, DamagedFile} /\ UNCHANGED <<sessionVars, work>>
    BY <1>2 DEF Damage, Wipe
  <2>2. Sound(DamagedFile.notes) /\ Sound(NoFile.notes)
    BY EmptySound DEF DamagedFile, NoFile
  <2>3. [main EXCEPT !.next = 0].notes = main.notes
    BY DEF TypeInv, TypeOK, File
  <2>4. Sound(main'.notes) /\ Sound(bak'.notes)
    BY <2>1, <2>2, <2>3 DEF NotesInv
  <2>5. QED
    BY <2>1, <2>4 DEF NotesInv, sessionVars
<1>3. ASSUME NEW s \in Sessions, Quit(s) \/ Crash(s)
      PROVE  NotesInv'
  <2>1. /\ notes' = [notes EXCEPT ![s] = {}] /\ nextId' = [nextId EXCEPT ![s] = 1]
        /\ work' = [work EXCEPT ![s] = NoMerge] /\ UNCHANGED diskVars
    BY <1>3 DEF Quit, Crash, Gone
  <2>2. Sound({}) /\ Below({}, 1) /\ NoMerge.notes = {} /\ Below({}, NoMerge.next)
    BY EmptySound DEF NoMerge
  <2>3. QED
    BY <2>1, <2>2 DEF TypeInv, TypeOK, NotesInv, diskVars
<1>4. QED
  BY <1>1, <1>2, <1>3

\* However saves, edits, crashes, failed writes and damaged files interleave,
\* no file and no session comes to hold a fact twice, an id twice or more notes
\* than the cap, and the next id a session or a file gives is new.
THEOREM NoFactTwice == Spec => []OneNotePerFact
<1>1. Init => NotesInv
  <2>1. Sound({}) /\ Below({}, 0) /\ Below({}, 1)
    BY EmptySound
  <2>2. NoFile.notes = {} /\ NoMerge.notes = {} /\ NoMerge.next = 0
    BY DEF NoFile, NoMerge
  <2>3. QED
    BY <2>1, <2>2 DEF Init, NotesInv
<1>2. TypeInv /\ NotesInv /\ [Next]_vars => NotesInv'
  BY AskSound, SaveStepSound, OutsideSound DEF Next
<1>3. TypeInv /\ NotesInv => OneNotePerFact
  <2>1. SUFFICES ASSUME TypeInv, NotesInv PROVE OneNotePerFact
    OBVIOUS
  <2>2. \A ns, next : Sound(ns) /\ Below(ns, next) => Consistent(ns, next)
    BY DEF Sound, Below, Consistent
  <2>3. /\ main \in File /\ IdsBounded(main.notes)
        /\ bak \in File /\ IdsBounded(bak.notes)
    BY <2>1 DEF TypeInv, TypeOK, Bounds
  <2>4. Below(main.notes, SafeNextId(main)) /\ Below(bak.notes, SafeNextId(bak))
    BY <2>3, SafeNextIdType, Zenon DEF Below
  <2>5. QED
    BY <2>1, <2>2, <2>4 DEF NotesInv, OneNotePerFact
<1>4. QED
  BY <1>1, <1>2, <1>3, TypesHold, PTL DEF Spec

-----------------------------------------------------------------------------
(* A failed save leaves nothing.  An addition is in the journal only while  *)
(* the save it was made for is under way, and the session still has the     *)
(* note then, which is how the tool finds what it has to take back.         *)

Carried(s, c) ==
    /\ pc[s] \in InSave
    /\ call[s].op = "save" /\ c.id = call[s].id
    /\ \E n \in notes[s] : n.id = c.id /\ {n.text} = call[s].text

AddsCarried == \A s \in Sessions : \A c \in pending[s] : c.kind = "add" => Carried(s, c)

LEMMA NoAddInDelete ==
    ASSUME NEW journal, NEW n, \A c \in journal : c.kind = "add" => c.id = n.id
    PROVE  \A c \in JournalAfterDelete(journal, n) : c.kind # "add"
  BY DEF JournalAfterDelete

\* What the tool takes back are all the additions of the journal.
LEMMA UndoneAdds ==
    ASSUME TypeInv, AddsCarried, NEW s \in Sessions, NEW ns, NEW journal,
           (ns = notes[s] /\ journal = pending[s]) \/ journal = {}, Undo(s, ns, journal)
    PROVE  /\ \A c \in pending'[s] : c.kind # "add"
           /\ \A w \in Sessions \ {s} : pending'[w] = pending[w] /\ notes'[w] = notes[w]
<1> DEFINE mine == {n \in ns : /\ call[s].op = "save"
                               /\ n.id = call[s].id
                               /\ {n.text} = call[s].text}
           rest == IF mine = {} THEN journal
                   ELSE JournalAfterDelete(journal, CHOOSE n \in mine : TRUE)
<1>1. \A c \in journal : c.kind = "add" => mine # {} /\ c.id = call[s].id
  BY DEF AddsCarried, Carried
<1>2. \A c \in rest : c.kind # "add"
  <2>1. CASE mine = {}
    BY <1>1, <2>1
  <2>2. CASE mine # {}
    <3>1. (CHOOSE n \in mine : TRUE) \in mine
      BY <2>2
    <3>2. (CHOOSE n \in mine : TRUE).id = call[s].id
      BY <3>1
    <3>3. \A c \in JournalAfterDelete(journal, CHOOSE n \in mine : TRUE) : c.kind # "add"
      BY <1>1, <3>2, NoAddInDelete
    <3>4. QED
      BY <2>2, <3>3
  <2>3. QED
    BY <2>1, <2>2
<1>3. /\ notes' = [notes EXCEPT ![s] = ns \ mine]
      /\ pending' = [pending EXCEPT ![s] = rest]
  BY DEF Undo
<1> HIDE DEF mine, rest
<1>4. QED
  BY <1>2, <1>3 DEF TypeInv, TypeOK

LEMMA AskCarries ==
    ASSUME TypeInv, AddsCarried, NEW s \in Sessions, Ask(s)
    PROVE  AddsCarried'
<1>1. /\ notes \in [Sessions -> SUBSET Note] /\ nextId \in [Sessions -> Nat]
      /\ pending \in [Sessions -> SUBSET Change] /\ call \in [Sessions -> Call]
      /\ pc \in [Sessions -> {"off", "idle"} \union InSave]
  BY DEF TypeInv, TypeOK
<1>2. pc[s] \in {"off", "idle"}
  BY DEF Ask, Open, Save, Forget, Update, SetActive, Edit, DeleteAll, Flush, GoTo
<1>3. \A c \in pending[s] : c.kind # "add"
  BY <1>2 DEF AddsCarried, Carried, InSave, Critical
<1>4. \A w \in Sessions \ {s} : /\ pc'[w] = pc[w] /\ call'[w] = call[w]
                                /\ notes'[w] = notes[w] /\ pending'[w] = pending[w]
  BY <1>1 DEF Ask, Open, Save, Forget, Update, SetActive, Edit, DeleteAll, Flush, GoTo
<1>5. SUFFICES \A c \in pending'[s] : c.kind = "add" => Carried(s, c)'
  BY <1>4 DEF AddsCarried, Carried
<1>6. CASE Open(s)
  BY <1>1, <1>6 DEF Open
<1>7. ASSUME NEW t \in Texts, Save(s, t)
      PROVE  \A c \in pending'[s] : c.kind = "add" => Carried(s, c)'
  <2> DEFINE note == [id |-> nextId[s], text |-> t, active |-> TRUE, first |-> t]
             add == [kind |-> "add", at |-> NextAt(pending[s]), id |-> nextId[s],
                     text |-> t, active |-> TRUE, of |-> t]
             made == [op |-> "save", id |-> nextId[s], text |-> {t}]
  <2>1. /\ pc' = [pc EXCEPT ![s] = "waiting"]
        /\ notes' = [notes EXCEPT ![s] = notes[s] \union {note}]
        /\ pending' = [pending EXCEPT ![s] = pending[s] \union {add}]
        /\ call' = [call EXCEPT ![s] = made]
    BY <1>7 DEF Save, GoTo
  <2>2. note.id = nextId[s] /\ note.text = t /\ add.id = nextId[s]
        /\ made.op = "save" /\ made.id = nextId[s] /\ made.text = {t}
    OBVIOUS
  <2> HIDE DEF note, add, made
  <2>3. QED
    BY <1>1, <1>3, <2>1, <2>2 DEF Carried, InSave
<1>8. ASSUME NEW n \in notes[s], Forget(s, n)
      PROVE  \A c \in pending'[s] : c.kind # "add"
  <2>1. pending'[s] = JournalAfterDelete(pending[s], n)
    BY <1>1, <1>8 DEF Forget
  <2>2. QED
    BY <1>3, <2>1, NoAddInDelete
<1>9. ASSUME NEW kind \in {"update", "active"}, NEW n, NEW t, NEW b, Edit(s, kind, n, t, b)
      PROVE  \A c \in pending'[s] : c.kind # "add"
  BY <1>1, <1>3, <1>9 DEF Edit
<1>10. CASE DeleteAll(s)
  BY <1>1, <1>3, <1>10 DEF DeleteAll
<1>11. CASE Flush(s)
  BY <1>1, <1>3, <1>11 DEF Flush
<1>12. QED
  BY <1>6, <1>7, <1>8, <1>9, <1>10, <1>11 DEF Ask, Update, SetActive

LEMMA SaveStepCarries ==
    ASSUME TypeInv, AddsCarried, NEW s \in Sessions, SaveStep(s)
    PROVE  AddsCarried'
<1>1. /\ notes \in [Sessions -> SUBSET Note] /\ pending \in [Sessions -> SUBSET Change]
      /\ call \in [Sessions -> Call] /\ pc \in [Sessions -> {"off", "idle"} \union InSave]
  BY DEF TypeInv, TypeOK
<1>2. \A w \in Sessions \ {s} : pc'[w] = pc[w] /\ call'[w] = call[w]
  BY <1>1 DEF SaveStep, Acquire, JudgeStale, BreakLock, LockRefused, ReadBase, ReplayOne,
     WriteMain, WriteBackup, BackupFails, Finish, SaveFails, GoTo, Done, sessionVars
<1>3. ASSUME \A c \in pending'[s] : c.kind # "add",
             \A w \in Sessions \ {s} : pending'[w] = pending[w] /\ notes'[w] = notes[w]
      PROVE  AddsCarried'
  BY <1>2, <1>3 DEF AddsCarried, Carried
<1>4. CASE Acquire(s) \/ JudgeStale(s) \/ BreakLock(s) \/ ReadBase(s) \/ ReplayOne(s)
           \/ WriteMain(s) \/ WriteBackup(s) \/ BackupFails(s)
  <2>1. UNCHANGED sessionVars /\ pc'[s] \in InSave
    BY <1>1, <1>4 DEF Acquire, JudgeStale, BreakLock, ReadBase, ReplayOne, WriteMain,
       WriteBackup, BackupFails, GoTo, sessionVars, InSave, Critical
  <2>2. QED
    BY <1>2, <2>1 DEF AddsCarried, Carried, sessionVars
<1>5. CASE LockRefused(s) \/ SaveFails(s)
  <2>1. Undo(s, notes[s], pending[s])
    BY <1>5 DEF LockRefused, SaveFails
  <2>2. QED
    BY <1>3, <2>1, UndoneAdds
<1>6. CASE Finish(s)
  <2>1. CASE work[s].rejected
    <3>1. Undo(s, work[s].notes, {})
      BY <1>6, <2>1 DEF Finish
    <3>2. QED
      BY <1>3, <3>1, UndoneAdds
  <2>2. CASE ~ work[s].rejected
    <3>1. /\ notes' = [notes EXCEPT ![s] = work[s].notes]
          /\ pending' = [pending EXCEPT ![s] = {}]
      BY <1>6, <2>2 DEF Finish
    <3>2. QED
      BY <1>1, <1>3, <3>1
  <2>3. QED
    BY <2>1, <2>2
<1>7. QED
  BY <1>4, <1>5, <1>6 DEF SaveStep

LEMMA OutsideCarries ==
    ASSUME TypeInv, AddsCarried,
           LockAges \/ Damage \/ Wipe \/ UNCHANGED vars
             \/ \E s \in Sessions : Quit(s) \/ Crash(s)
    PROVE  AddsCarried'
<1>1. CASE LockAges \/ Damage \/ Wipe \/ UNCHANGED vars
  <2>1. UNCHANGED <<pc, notes, pending, call>>
    BY <1>1 DEF LockAges, Damage, Wipe, vars, sessionVars
  <2>2. QED
    BY <2>1 DEF AddsCarried, Carried
<1>2. ASSUME NEW s \in Sessions, Quit(s) \/ Crash(s)
      PROVE  AddsCarried'
  <2>1. /\ pc' = [pc EXCEPT ![s] = "off"] /\ notes' = [notes EXCEPT ![s] = {}]
        /\ pending' = [pending EXCEPT ![s] = {}] /\ call' = [call EXCEPT ![s] = NoCall]
    BY <1>2 DEF Quit, Crash, Gone
  <2>2. QED
    BY <2>1 DEF TypeInv, TypeOK, AddsCarried, Carried
<1>3. QED
  BY <1>1, <1>2

\* A save that ended, well or badly, has left no addition behind that a later
\* save would carry out.
THEOREM NothingLeftOver == Spec => []FailedSaveLeavesNothing
<1>1. Init => AddsCarried
  BY DEF Init, AddsCarried
<1>2. TypeInv /\ AddsCarried /\ [Next]_vars => AddsCarried'
  BY AskCarries, SaveStepCarries, OutsideCarries DEF Next
<1>3. AddsCarried => FailedSaveLeavesNothing
  BY DEF AddsCarried, Carried, FailedSaveLeavesNothing, InSave, Critical
<1>4. QED
  BY <1>1, <1>2, <1>3, TypesHold, PTL DEF Spec

-----------------------------------------------------------------------------
(* What an opener finds.  From here on the lock excludes (LockInv).  The    *)
(* files of a save in which nothing crashes and no write fails go through   *)
(* one bad moment, from setting a damaged memory.json aside to writing the  *)
(* new one; outside it memory.json, or the backup where memory.json is      *)
(* damaged, holds what was stored.                                          *)

Excludes ==
    \A s, w \in Sessions : pc[s] \in Critical /\ pc[w] \in Critical => s = w

LEMMA LockExcludes == LockInv => Excludes
  BY DEF LockInv, LockOfHolder, Excludes

FilesAgree ==
    /\ main.state = "good" => main.notes = stored
    /\ main.state = "missing" => main.notes = {}
    /\ main.state = "missing" /\ (\A s \in Sessions : pc[s] # "replaying") => stored = {}
    /\ main.state = "damaged" /\ bak.state = "good" => bak.notes = stored
    /\ main.state = "damaged" /\ bak.state # "good" => stored = {}
    /\ (\A s \in Sessions : pc[s] # "written") /\ main.state = "good" /\ bak.state = "good"
          => bak.notes = stored
    /\ \A s \in Sessions :
          /\ pc[s] = "replaying" => main.state # "damaged"
          /\ pc[s] = "written" => main.state = "good" /\ work[s].notes = stored

NoWriteFails == "main" \notin FailAt /\ "bak" \notin FailAt

LEMMA AskFiles ==
    ASSUME TypeInv, FilesAgree, NEW s \in Sessions, Ask(s)
    PROVE  FilesAgree'
<1>1. /\ UNCHANGED <<diskVars, work>>
      /\ pc[s] \in {"off", "idle"} /\ pc'[s] \in {"idle", "waiting"}
      /\ \A w \in Sessions \ {s} : pc'[w] = pc[w]
  BY DEF Ask, Open, Save, Forget, Update, SetActive, Edit, DeleteAll, Flush, GoTo,
         TypeInv, TypeOK, diskVars
<1>2. QED
  BY <1>1 DEF FilesAgree, diskVars

LEMMA SaveStepFiles ==
    ASSUME TypeInv, FilesAgree, Excludes, NoWriteFails, NEW s \in Sessions, SaveStep(s)
    PROVE  FilesAgree'
<1> USE DEF Critical
<1>1. pc \in [Sessions -> {"off", "idle"} \union InSave] /\ work \in [Sessions -> Merge]
  BY DEF TypeInv, TypeOK
<1>2. \A w \in Sessions \ {s} : pc'[w] = pc[w] /\ work'[w] = work[w]
  BY <1>1 DEF SaveStep, Acquire, JudgeStale, BreakLock, LockRefused, ReadBase, ReplayOne,
     WriteMain, WriteBackup, BackupFails, Finish, SaveFails, GoTo, Done
<1>3. CASE Acquire(s) \/ JudgeStale(s) \/ BreakLock(s) \/ LockRefused(s)
  <2>1. /\ UNCHANGED diskVars
        /\ pc[s] \in {"waiting", "breaking"}
        /\ pc'[s] \in {"waiting", "breaking", "locked", "idle"}
    BY <1>1, <1>3 DEF Acquire, JudgeStale, BreakLock, LockRefused, GoTo, Done
  <2>2. QED
    BY <1>2, <2>1 DEF FilesAgree, diskVars
<1>4. CASE ReadBase(s)
  <2>1. /\ pc[s] = "locked" /\ pc'[s] = "replaying" /\ bak' = bak /\ stored' = stored
        /\ main' = IF main.state = "damaged" THEN NoFile ELSE main
    BY <1>1, <1>4 DEF ReadBase, GoTo
  <2>2. NoFile.state = "missing" /\ NoFile.notes = {}
    BY DEF NoFile
  <2>3. \A w \in Sessions : pc[w] # "written" /\ pc'[w] # "written"
    BY <1>2, <2>1 DEF Excludes
  <2> HIDE DEF Critical
  <2>4. QED
    BY <1>2, <2>1, <2>2, <2>3 DEF FilesAgree
<1>5. CASE ReplayOne(s)
  <2>1. UNCHANGED diskVars /\ pc' = pc /\ pc[s] = "replaying"
    BY <1>5 DEF ReplayOne
  <2>2. QED
    BY <1>2, <2>1 DEF FilesAgree, diskVars
<1>6. CASE WriteMain(s)
  <2>1. /\ pc[s] = "replaying" /\ pc'[s] = "written" /\ bak' = bak /\ work' = work
        /\ main' = Merged(s) /\ stored' = work[s].notes
    BY <1>1, <1>6 DEF WriteMain, GoTo
  <2>2. Merged(s).state = "good" /\ Merged(s).notes = work[s].notes
    BY DEF Merged
  <2>3. \A w \in Sessions \ {s} : pc'[w] \notin {"replaying", "written"}
    BY <1>2, <2>1 DEF Excludes
  <2>4. QED
    BY <1>2, <2>1, <2>2, <2>3 DEF FilesAgree
<1>7. CASE WriteBackup(s)
  <2>1. /\ pc[s] = "written" /\ pc'[s] = "backed" /\ main' = main /\ stored' = stored
        /\ bak' = Merged(s)
    BY <1>1, <1>7 DEF WriteBackup, GoTo
  <2>2. Merged(s).state = "good" /\ Merged(s).notes = work[s].notes
    BY DEF Merged
  <2>3. \A w \in Sessions \ {s} : pc'[w] \notin {"replaying", "written"}
    BY <1>2, <2>1 DEF Excludes
  <2>4. QED
    BY <1>2, <2>1, <2>2, <2>3 DEF FilesAgree
<1>8. ~ BackupFails(s)
  BY DEF BackupFails, NoWriteFails
<1>9. CASE Finish(s) \/ SaveFails(s)
  <2>1. /\ UNCHANGED diskVars
        /\ pc[s] \in {"backed", "locked"} /\ pc'[s] = "idle"
    BY <1>1, <1>9 DEF Finish, SaveFails, Done, NoWriteFails
  <2>2. QED
    BY <1>2, <2>1 DEF FilesAgree, diskVars
<1>10. QED
  BY <1>3, <1>4, <1>5, <1>6, <1>7, <1>8, <1>9 DEF SaveStep

LEMMA OutsideFiles ==
    ASSUME TypeInv, FilesAgree, left["crash"] = 0,
           LockAges \/ Damage \/ Wipe \/ UNCHANGED vars
             \/ \E s \in Sessions : Quit(s) \/ Crash(s)
    PROVE  FilesAgree'
<1>1. CASE LockAges \/ UNCHANGED vars
  BY <1>1 DEF LockAges, vars, diskVars, FilesAgree
<1>2. CASE Damage
  <2>1. DamagedFile.state = "damaged" /\ NoSaveUnderWay /\ pc' = pc /\ work' = work
    BY <1>2 DEF DamagedFile, Damage
  <2>2. \A s \in Sessions : pc[s] \notin {"written", "replaying"}
    BY <2>1 DEF NoSaveUnderWay, Critical
  <2>3. CASE main.state = "good" /\ main' = DamagedFile /\ bak' = bak
    BY <1>2, <2>1, <2>2, <2>3 DEF Damage, FilesAgree
  <2>4. CASE bak.state = "good" /\ bak' = DamagedFile /\ main' = main
    BY <1>2, <2>1, <2>2, <2>4 DEF Damage, FilesAgree
  <2>5. CASE main.state = "good" /\ main' = [main EXCEPT !.next = 0] /\ bak' = bak
    <3>1. main'.state = main.state /\ main'.notes = main.notes
      BY <2>5 DEF TypeInv, TypeOK, File
    <3>2. QED
      BY <1>2, <2>1, <2>2, <2>5, <3>1 DEF Damage, FilesAgree
  <2>6. QED
    BY <1>2, <2>3, <2>4, <2>5 DEF Damage
<1>3. CASE Wipe
  <2>1. /\ NoFile.state = "missing" /\ NoFile.notes = {}
        /\ main' = NoFile /\ bak' = bak /\ stored' = {} /\ pc' = pc /\ work' = work
        /\ NoSaveUnderWay
    BY <1>3 DEF NoFile, Wipe
  <2>2. \A s \in Sessions : pc[s] \notin {"written", "replaying"}
    BY <2>1 DEF NoSaveUnderWay, Critical
  <2>3. QED
    BY <2>1, <2>2 DEF FilesAgree
<1>4. ASSUME NEW s \in Sessions, Quit(s) \/ Crash(s)
      PROVE  FilesAgree'
  <2>1. ~ Crash(s)
    BY DEF Crash, Spend
  <2>2. /\ UNCHANGED diskVars /\ pc[s] = "idle" /\ pc'[s] = "off"
        /\ \A w \in Sessions \ {s} : pc'[w] = pc[w] /\ work'[w] = work[w]
    BY <1>4, <2>1 DEF Quit, Gone, TypeInv, TypeOK
  <2>3. QED
    BY <2>2 DEF FilesAgree, diskVars
<1>5. QED
  BY <1>1, <1>2, <1>3, <1>4

\* If nobody crashes inside `save` and no write of one fails, whoever opens the
\* memory while no save is under way, or is told that the backup was used, finds
\* what was last stored, whichever of the two files was damaged.
THEOREM OpenersFind ==
    ASSUME ~ SlowHolder, ~ TwoBreakers, NoWriteFails, Limits["crash"] = 0
    PROVE  Spec => []OpenersFindWhatWasStored
<1> DEFINE Spent == left["crash"] <= Limits["crash"]
<1>1. Init => FilesAgree /\ Spent
  BY DEF Init, FilesAgree, NoFile
<1>2. TypeOK /\ Spent /\ [Next]_vars => Spent'
  BY CrashesOnlySpent
<1>3. TypeInv /\ LockInv /\ FilesAgree /\ Spent /\ [Next]_vars => FilesAgree'
  <2>1. TypeInv /\ Spent => left["crash"] = 0
    BY DEF TypeInv, TypeOK, Bounded
  <2>2. QED
    BY <2>1, AskFiles, SaveStepFiles, OutsideFiles, LockExcludes DEF Next
<1>4. TypeInv /\ FilesAgree => OpenersFindWhatWasStored
  <2>1. SUFFICES ASSUME TypeInv, FilesAgree PROVE OpenersFindWhatWasStored
    OBVIOUS
  <2>2. NoSaveUnderWay => \A s \in Sessions : pc[s] # "replaying"
    BY DEF NoSaveUnderWay, Critical
  <2>3. main.state \in {"missing", "damaged", "good"}
    BY <2>1 DEF TypeInv, TypeOK, File
  <2>4. QED
    BY <2>1, <2>2, <2>3 DEF FilesAgree, OpenersFindWhatWasStored, LoadProblem, Best
<1>5. QED
  BY <1>1, <1>2, <1>3, <1>4, TypesHold, LockHolds, PTL DEF Spec, TypeInv

-----------------------------------------------------------------------------
(* Answers.  The change a call was made for is the last of the journal, so   *)
(* that nothing replayed after it can undo it; and while the lock excludes,  *)
(* memory.json stays what the save wrote until it is answered.               *)

\* One change replayed, as far as texts go.
LEMMA ReplayEffect ==
    ASSUME NEW w \in Merge, IdsBounded(w.notes), NEW c \in w.todo
    PROVE  /\ Replay(w, c).todo = w.todo \ {c}
           /\ c.kind = "add" =>
                IF c.text \in TextsOf(w.notes)
                THEN Replay(w, c).notes = w.notes /\ Replay(w, c).rejected = w.rejected
                ELSE IF IsFull(w.notes)
                THEN Replay(w, c).notes = w.notes /\ Replay(w, c).rejected = TRUE
                ELSE /\ TextsOf(Replay(w, c).notes) = TextsOf(w.notes) \union {c.text}
                     /\ Replay(w, c).rejected = w.rejected
           /\ c.kind = "delete" =>
                /\ TextsOf(Replay(w, c).notes) = TextsOf(w.notes) \ {c.text}
                /\ Replay(w, c).rejected = w.rejected
<1>1. c \in Change /\ c.kind \in {"add", "delete", "update", "active"}
  BY DEF Merge, Change
<1> DEFINE v == CASE c.kind = "add"    -> ReplayAdd(w, c)
                  [] c.kind = "delete" -> ReplayDelete(w, c)
                  [] c.kind = "update" -> ReplayUpdate(w, c)
                  [] c.kind = "active" -> ReplayActive(w, c)
<1>2. v \in Merge
  BY <1>1, ReplayKindsType
<1>3. v.todo = w.todo
  <2>1. ReplayAdd(w, c).todo = w.todo
    BY DEF ReplayAdd, WithNote, Merge
  <2>2. ReplayDelete(w, c).todo = w.todo
    BY DEF ReplayDelete, Merge
  <2>3. ReplayUpdate(w, c).todo = w.todo
    BY DEF ReplayUpdate, Merge
  <2>4. ReplayActive(w, c).todo = w.todo
    BY DEF ReplayActive, Merge
  <2>5. QED
    BY <1>1, <2>1, <2>2, <2>3, <2>4
<1>4. CASE c.kind = "add"
  <2>1. v = ReplayAdd(w, c)
    BY <1>4
  <2>2. c.text \notin TextsOf(w.notes) /\ ~ IsFull(w.notes) =>
           /\ TextsOf(ReplayAdd(w, c).notes) = TextsOf(w.notes) \union {c.text}
           /\ ReplayAdd(w, c).rejected = w.rejected
    <3> DEFINE note == [id |-> w.next, text |-> c.text, active |-> c.active,
                        first |-> c.text]
               moved == {p \in w.renamed : p[1] # c.id} \union {<<c.id, w.next>>}
               grown == [w EXCEPT !.notes = @ \union {note}, !.next = @ + 1,
                                  !.renamed = moved]
    <3>1. c.text \notin TextsOf(w.notes) /\ ~ IsFull(w.notes) => ReplayAdd(w, c) = grown
      BY Zenon DEF ReplayAdd, WithNote
    <3>2. note.text = c.text
      OBVIOUS
    <3> HIDE DEF note, moved
    <3>3. grown.notes = w.notes \union {note} /\ grown.rejected = w.rejected
      BY DEF Merge
    <3>4. TextsOf(w.notes \union {note}) = TextsOf(w.notes) \union {c.text}
      BY <3>2 DEF TextsOf
    <3>5. QED
      BY <3>1, <3>3, <3>4
  <2>3. c.text \notin TextsOf(w.notes) /\ IsFull(w.notes) =>
           ReplayAdd(w, c).notes = w.notes /\ ReplayAdd(w, c).rejected = TRUE
    BY DEF ReplayAdd, Merge
  <2>4. c.text \in TextsOf(w.notes) => ReplayAdd(w, c) = w
    BY DEF ReplayAdd
  <2> HIDE DEF v
  <2>5. Replay(w, c).notes = v.notes /\ Replay(w, c).rejected = v.rejected
        /\ Replay(w, c).todo = v.todo \ {c}
    BY <1>2, Zenon DEF Replay, v, Merge
  <2>6. QED
    BY <1>3, <1>4, <2>1, <2>2, <2>3, <2>4, <2>5
<1>5. CASE c.kind = "delete"
  <2>1. v = ReplayDelete(w, c)
    BY <1>5
  <2>2. TextsOf(ReplayDelete(w, c).notes) = TextsOf(w.notes) \ {c.text}
        /\ ReplayDelete(w, c).rejected = w.rejected
    BY DEF ReplayDelete, Merge, TextsOf
  <2> HIDE DEF v
  <2>3. Replay(w, c).notes = v.notes /\ Replay(w, c).rejected = v.rejected
        /\ Replay(w, c).todo = v.todo \ {c}
    BY <1>2, Zenon DEF Replay, v, Merge
  <2>4. QED
    BY <1>3, <1>5, <2>1, <2>2, <2>3
<1>6. CASE c.kind \in {"update", "active"}
  <2> HIDE DEF v
  <2>1. Replay(w, c).todo = v.todo \ {c}
    BY <1>2, Zenon DEF Replay, v, Merge
  <2>2. QED
    BY <1>3, <1>6, <2>1
<1>7. QED
  BY <1>1, <1>4, <1>5, <1>6

Settled(s) ==
    /\ work[s].todo = {}
    /\ call[s].op = "save" => work[s].rejected \/ call[s].text \subseteq TextsOf(work[s].notes)
    /\ call[s].op = "forget" => call[s].text \cap TextsOf(work[s].notes) = {}

MadeFor(s, c) ==
    /\ c.kind = IF call[s].op = "save" THEN "add" ELSE "delete"
    /\ call[s].text = {c.text}
    /\ \A d \in pending[s] : d # c => d.at < c.at
    /\ pc[s] \in {"replaying", "written", "backed"} => c \in work[s].todo \/ Settled(s)

AnswerInv ==
    \A s \in Sessions :
       /\ pc[s] \in InSave /\ call[s].op \in {"save", "forget"} =>
             \E c \in pending[s] : MadeFor(s, c)
       /\ pc[s] = "replaying" => work[s].todo \subseteq pending[s]
       /\ pc[s] \in {"written", "backed"} =>
             work[s].todo = {} /\ main.notes = work[s].notes

LEMMA AskAnswers ==
    ASSUME TypeInv, AddsCarried, AnswerInv, NEW s \in Sessions, Ask(s)
    PROVE  AnswerInv'
<1>1. /\ pending \in [Sessions -> SUBSET Change] /\ call \in [Sessions -> Call]
      /\ pc \in [Sessions -> {"off", "idle"} \union InSave]
      /\ \A w \in Sessions : AtBounded(pending[w])
  BY DEF TypeInv, TypeOK, Bounds
<1>2. /\ UNCHANGED <<main, work>> /\ pc[s] \in {"off", "idle"}
      /\ pc'[s] \in {"idle", "waiting"}
      /\ \A w \in Sessions \ {s} : /\ pc'[w] = pc[w] /\ call'[w] = call[w]
                                   /\ pending'[w] = pending[w]
  BY <1>1 DEF Ask, Open, Save, Forget, Update, SetActive, Edit, DeleteAll, Flush, GoTo,
     diskVars
<1>3. ASSUME pc'[s] = "waiting" /\ call'[s].op \in {"save", "forget"} =>
                \E c \in pending'[s] : MadeFor(s, c)'
      PROVE  AnswerInv'
  BY <1>2, <1>3 DEF AnswerInv, MadeFor, Settled, InSave, Critical
<1>4. ASSUME NEW c \in Change, c.at = NextAt(pending[s]),
             pending'[s] = pending[s] \union {c}, call'[s].text = {c.text},
             c.kind = IF call'[s].op = "save" THEN "add" ELSE "delete",
             pc'[s] = "waiting"
      PROVE  AnswerInv'
  <2>1. \A d \in pending[s] : d.at < c.at
    BY <1>1, <1>4, NextAtType
  <2>2. \A d \in pending'[s] : d # c => d.at < c.at
    BY <1>4, <2>1
  <2>3. MadeFor(s, c)'
    BY <1>4, <2>2 DEF MadeFor
  <2>4. QED
    BY <1>3, <1>4, <2>3
<1>5. ASSUME NEW t \in Texts, Save(s, t)
      PROVE  AnswerInv'
  <2> DEFINE add == [kind |-> "add", at |-> NextAt(pending[s]), id |-> nextId[s],
                     text |-> t, active |-> TRUE, of |-> t]
             made == [op |-> "save", id |-> nextId[s], text |-> {t}]
  <2>1. add \in Change
    BY <1>1, NextAtType DEF TypeInv, TypeOK, Change
  <2>2. /\ pc' = [pc EXCEPT ![s] = "waiting"]
        /\ pending' = [pending EXCEPT ![s] = pending[s] \union {add}]
        /\ call' = [call EXCEPT ![s] = made]
    BY <1>5 DEF Save, GoTo
  <2>3. /\ add.at = NextAt(pending[s]) /\ add.kind = "add" /\ add.text = t
        /\ made.op = "save" /\ made.text = {t}
    OBVIOUS
  <2> HIDE DEF add, made
  <2>4. QED
    BY <1>1, <1>4, <2>1, <2>2, <2>3
<1>6. ASSUME NEW n \in notes[s], Forget(s, n)
      PROVE  AnswerInv'
  <2> DEFINE del == [kind |-> "delete", at |-> NextAt(pending[s]), id |-> n.id,
                     text |-> n.text, active |-> n.active, of |-> n.first]
             made == [op |-> "forget", id |-> n.id, text |-> {n.text}]
  <2>1. del \in Change
    BY <1>1, NextAtType DEF TypeInv, TypeOK, Note, Change
  <2>2. \A c \in pending[s] : c.kind # "add"
    BY <1>2 DEF AddsCarried, Carried, InSave, Critical
  <2>3. /\ pc' = [pc EXCEPT ![s] = "waiting"]
        /\ pending' = [pending EXCEPT ![s] = pending[s] \union {del}]
        /\ call' = [call EXCEPT ![s] = made]
    BY <1>6, <2>2 DEF Forget, GoTo, JournalAfterDelete
  <2>4. /\ del.at = NextAt(pending[s]) /\ del.kind = "delete" /\ del.text = n.text
        /\ made.op = "forget" /\ made.text = {n.text}
    OBVIOUS
  <2> HIDE DEF del, made
  <2>5. QED
    BY <1>1, <1>4, <2>1, <2>3, <2>4
<1>7. CASE Open(s) \/ DeleteAll(s) \/ \E kind, n, t, b : Edit(s, kind, n, t, b)
  <2>1. pc'[s] = "idle"
    BY <1>1, <1>2, <1>7 DEF Open, DeleteAll, Edit, GoTo
  <2>2. QED
    BY <1>3, <2>1
<1>8. CASE Flush(s)
  <2>1. call'[s].op = "flush"
    BY <1>1, <1>8 DEF Flush, NoCall
  <2>2. QED
    BY <1>3, <2>1
<1>9. QED
  BY <1>5, <1>6, <1>7, <1>8 DEF Ask, Update, SetActive

LEMMA SaveStepAnswers ==
    ASSUME TypeInv, Excludes, AnswerInv, NEW s \in Sessions, SaveStep(s)
    PROVE  AnswerInv'
<1>1. /\ pending \in [Sessions -> SUBSET Change] /\ call \in [Sessions -> Call]
      /\ pc \in [Sessions -> {"off", "idle"} \union InSave]
      /\ work \in [Sessions -> Merge]
      /\ \A w \in Sessions : IdsBounded(work[w].notes)
  BY DEF TypeInv, TypeOK, Bounds
<1>2. \A w \in Sessions \ {s} : /\ pc'[w] = pc[w] /\ call'[w] = call[w]
                                /\ work'[w] = work[w]
  BY <1>1 DEF SaveStep, Acquire, JudgeStale, BreakLock, LockRefused, ReadBase, ReplayOne,
     WriteMain, WriteBackup, BackupFails, Finish, SaveFails, GoTo, Done, sessionVars
<1>3. \A w \in Sessions \ {s} : pending'[w] = pending[w]
  BY <1>1 DEF SaveStep, Acquire, JudgeStale, BreakLock, LockRefused, ReadBase, ReplayOne,
     WriteMain, WriteBackup, BackupFails, Finish, SaveFails, Undo, sessionVars
<1> DEFINE Fine(w) == /\ pc[w] \in InSave /\ call[w].op \in {"save", "forget"} =>
                            \E c \in pending[w] : MadeFor(w, c)
                      /\ pc[w] = "replaying" => work[w].todo \subseteq pending[w]
                      /\ pc[w] \in {"written", "backed"} =>
                            work[w].todo = {} /\ main.notes = work[w].notes
<1>4. main'.notes = main.notes \/ pc[s] \in Critical
  BY DEF SaveStep, Acquire, JudgeStale, BreakLock, LockRefused, ReadBase, ReplayOne,
     WriteMain, WriteBackup, BackupFails, Finish, SaveFails, GoTo, diskVars, Critical
<1>5. ASSUME NEW w \in Sessions \ {s} PROVE Fine(w)'
  <2>1. Fine(w)
    BY DEF AnswerInv
  <2>2. pc[w] \in {"written", "backed"} => main'.notes = main.notes
    BY <1>4 DEF Excludes, Critical
  <2>3. QED
    BY <1>2, <1>3, <2>1, <2>2 DEF MadeFor, Settled
<1>6. ASSUME Fine(s)' PROVE AnswerInv'
  BY <1>5, <1>6 DEF AnswerInv
<1>7. Fine(s)
  BY DEF AnswerInv
<1>8. CASE Acquire(s) \/ JudgeStale(s) \/ BreakLock(s)
  <2>1. /\ UNCHANGED <<sessionVars, work>> /\ pc[s] \in InSave
        /\ pc'[s] \in {"waiting", "breaking", "locked"}
    BY <1>1, <1>8 DEF Acquire, JudgeStale, BreakLock, GoTo, InSave, Critical
  <2>2. QED
    BY <1>6, <1>7, <2>1 DEF MadeFor, Settled, sessionVars
<1>9. CASE LockRefused(s) \/ SaveFails(s) \/ Finish(s)
  <2>1. pc'[s] = "idle"
    BY <1>1, <1>9 DEF LockRefused, SaveFails, Finish, Done
  <2>2. QED
    BY <1>6, <2>1 DEF InSave, Critical
<1>10. CASE ReadBase(s)
  <2>1. /\ pc[s] = "locked" /\ pc'[s] = "replaying" /\ UNCHANGED sessionVars
        /\ work'[s].todo = pending[s]
    BY <1>1, <1>10 DEF ReadBase, GoTo
  <2>2. QED
    BY <1>6, <1>7, <2>1 DEF MadeFor, sessionVars, InSave, Critical
<1>11. CASE ReplayOne(s)
  <2>1. PICK c \in work[s].todo : /\ \A d \in work[s].todo : c.at <= d.at
                                  /\ work' = [work EXCEPT ![s] = Replay(work[s], c)]
    BY <1>11 DEF ReplayOne
  <2>2. work'[s] = Replay(work[s], c) /\ pc[s] = "replaying" /\ pc' = pc
        /\ UNCHANGED sessionVars
    BY <1>1, <1>11, <2>1 DEF ReplayOne
  <2>3. /\ work'[s].todo = work[s].todo \ {c}
        /\ c \in pending[s] /\ work[s].todo \subseteq pending[s]
        /\ c.kind = "add" => work'[s].rejected \/ c.text \in TextsOf(work'[s].notes)
        /\ c.kind = "delete" => c.text \notin TextsOf(work'[s].notes)
    <3>1. work[s] \in Merge /\ IdsBounded(work[s].notes)
      BY <1>1
    <3> DEFINE v == Replay(work[s], c)
    <3>2. /\ v.todo = work[s].todo \ {c}
          /\ c.kind = "add" =>
               IF c.text \in TextsOf(work[s].notes)
               THEN v.notes = work[s].notes /\ v.rejected = work[s].rejected
               ELSE IF IsFull(work[s].notes)
               THEN v.notes = work[s].notes /\ v.rejected = TRUE
               ELSE /\ TextsOf(v.notes) = TextsOf(work[s].notes) \union {c.text}
                    /\ v.rejected = work[s].rejected
          /\ c.kind = "delete" =>
               /\ TextsOf(v.notes) = TextsOf(work[s].notes) \ {c.text}
               /\ v.rejected = work[s].rejected
      BY <3>1, ReplayEffect, Zenon
    <3>3. work'[s] = v
      BY <2>2
    <3> HIDE DEF v
    <3>4. QED
      BY <1>7, <2>2, <3>2, <3>3
  <2>4. ASSUME call[s].op \in {"save", "forget"}
        PROVE  \E a \in pending[s] : MadeFor(s, a)'
    <3>1. PICK a \in pending[s] : MadeFor(s, a)
      BY <1>7, <2>2, <2>4 DEF InSave, Critical
    <3>2. a \in work[s].todo
      BY <2>2, <3>1 DEF MadeFor, Settled
    <3>3. CASE a # c
      BY <2>2, <2>3, <3>1, <3>2, <3>3 DEF MadeFor, sessionVars
    <3>4. CASE a = c
      <4>1. work'[s].todo = {}
        <5>1. \A d \in work[s].todo : d = c
          <6>1. \A d \in pending[s] : d.at \in Nat
            BY <1>1 DEF Change
          <6>2. QED
            BY <2>1, <2>3, <3>1, <3>4, <6>1 DEF MadeFor
        <5>2. QED
          BY <2>3, <5>1
      <4>2. call[s].text = {c.text} /\ c.kind = IF call[s].op = "save" THEN "add" ELSE "delete"
        BY <3>1, <3>4 DEF MadeFor
      <4>3. call[s].op = "save" =>
               work'[s].rejected \/ c.text \in TextsOf(work'[s].notes)
        BY <2>3, <4>2
      <4>4. call[s].op = "forget" => c.text \notin TextsOf(work'[s].notes)
        BY <2>3, <4>2
      <4>5. Settled(s)'
        BY <2>2, <4>1, <4>2, <4>3, <4>4 DEF Settled, sessionVars
      <4>6. QED
        BY <2>2, <3>1, <3>4, <4>5 DEF MadeFor, sessionVars
    <3>5. QED
      BY <3>3, <3>4
  <2>5. QED
    BY <1>6, <1>7, <2>2, <2>3, <2>4 DEF sessionVars
<1>12. CASE WriteMain(s)
  <2>1. /\ work[s].todo = {} /\ pc[s] = "replaying" /\ pc'[s] = "written"
        /\ main'.notes = work[s].notes /\ UNCHANGED <<sessionVars, work>>
    BY <1>1, <1>12 DEF WriteMain, GoTo, Merged
  <2>2. QED
    BY <1>6, <1>7, <2>1 DEF MadeFor, Settled, sessionVars, InSave, Critical
<1>13. CASE WriteBackup(s) \/ BackupFails(s)
  <2>1. /\ pc[s] = "written" /\ pc'[s] = "backed" /\ main' = main
        /\ UNCHANGED <<sessionVars, work>>
    BY <1>1, <1>13 DEF WriteBackup, BackupFails, GoTo, diskVars
  <2>2. QED
    BY <1>6, <1>7, <2>1 DEF MadeFor, Settled, sessionVars, InSave, Critical
<1>14. QED
  BY <1>8, <1>9, <1>10, <1>11, <1>12, <1>13 DEF SaveStep

LEMMA OutsideAnswers ==
    ASSUME TypeInv, AnswerInv,
           LockAges \/ Damage \/ Wipe \/ UNCHANGED vars
             \/ \E s \in Sessions : Quit(s) \/ Crash(s)
    PROVE  AnswerInv'
<1>1. CASE LockAges \/ UNCHANGED vars
  BY <1>1 DEF LockAges, vars, diskVars, sessionVars, AnswerInv, MadeFor, Settled
<1>2. CASE Damage \/ Wipe
  <2>1. NoSaveUnderWay /\ UNCHANGED <<pc, sessionVars, work>>
    BY <1>2 DEF Damage, Wipe
  <2>2. \A s \in Sessions : pc[s] \notin {"written", "backed"}
    BY <2>1 DEF NoSaveUnderWay, Critical
  <2>3. QED
    BY <2>1, <2>2 DEF sessionVars, AnswerInv, MadeFor, Settled
<1>3. ASSUME NEW s \in Sessions, Quit(s) \/ Crash(s)
      PROVE  AnswerInv'
  <2>1. /\ pc'[s] = "off" /\ main' = main
        /\ \A w \in Sessions \ {s} : /\ pc'[w] = pc[w] /\ call'[w] = call[w]
                                     /\ work'[w] = work[w] /\ pending'[w] = pending[w]
    BY <1>3 DEF Quit, Crash, Gone, TypeInv, TypeOK, diskVars
  <2>2. QED
    BY <2>1 DEF AnswerInv, MadeFor, Settled, InSave, Critical
<1>4. QED
  BY <1>1, <1>2, <1>3

LEMMA OnlyFinishAnswers ==
    ASSUME TypeInv, [Next]_vars, NEW s \in Sessions, pc[s] = "backed", pc'[s] = "idle"
    PROVE  Finish(s)
<1>1. pc \in [Sessions -> {"off", "idle"} \union InSave]
  BY DEF TypeInv, TypeOK
<1>2. ASSUME NEW w \in Sessions, Ask(w) PROVE FALSE
  BY <1>1, <1>2 DEF Ask, Open, Save, Forget, Update, SetActive, Edit, DeleteAll, Flush, GoTo
<1>3. ASSUME NEW w \in Sessions, SaveStep(w) PROVE Finish(s)
  BY <1>1, <1>3 DEF SaveStep, Acquire, JudgeStale, BreakLock, LockRefused, ReadBase,
     ReplayOne, WriteMain, WriteBackup, BackupFails, SaveFails, Finish, GoTo, Done
<1>4. ASSUME NEW w \in Sessions, Quit(w) \/ Crash(w) PROVE FALSE
  BY <1>1, <1>4 DEF Quit, Crash, Gone
<1>5. ~ (LockAges \/ Damage \/ Wipe \/ UNCHANGED vars)
  BY DEF LockAges, Damage, Wipe, vars
<1>6. QED
  BY <1>2, <1>3, <1>4, <1>5 DEF Next

\* As long as the lock excludes, a user who is told that a note is saved, or
\* forgotten, finds memory.json to agree at that moment, whatever else the
\* journal carries, crashes or was damaged meanwhile.
THEOREM AnswersHold ==
    ASSUME ~ SlowHolder, ~ TwoBreakers
    PROVE  Spec => AnswersAreTrue
<1>1. Init => AddsCarried /\ AnswerInv
  BY DEF Init, AddsCarried, AnswerInv, InSave, Critical
<1>2. TypeInv /\ AddsCarried /\ [Next]_vars => AddsCarried'
  BY AskCarries, SaveStepCarries, OutsideCarries DEF Next
<1>3. TypeInv /\ LockInv /\ AddsCarried /\ AnswerInv /\ [Next]_vars => AnswerInv'
  BY AskAnswers, SaveStepAnswers, OutsideAnswers, LockExcludes DEF Next
<1> DEFINE True(s) ==
      pc[s] = "backed" /\ pc'[s] = "idle" /\ ~ work[s].rejected =>
         /\ call[s].op = "save" => call[s].text \subseteq TextsOf(main'.notes)
         /\ call[s].op = "forget" => call[s].text \cap TextsOf(main'.notes) = {}
<1>4. TypeInv /\ AnswerInv /\ [Next]_vars => [\A s \in Sessions : True(s)]_vars
  <2>1. SUFFICES ASSUME TypeInv, AnswerInv, [Next]_vars, NEW s \in Sessions,
                        pc[s] = "backed", pc'[s] = "idle", ~ work[s].rejected
                 PROVE  True(s)
    OBVIOUS
  <2>2. main' = main
    BY <2>1, OnlyFinishAnswers DEF Finish, diskVars
  <2>3. call[s].op \in {"save", "forget"} => Settled(s)
    BY <2>1 DEF AnswerInv, MadeFor, InSave, Critical
  <2>4. main.notes = work[s].notes
    BY <2>1 DEF AnswerInv
  <2>5. QED
    BY <2>1, <2>2, <2>3, <2>4 DEF Settled
<1>5. QED
  BY <1>1, <1>2, <1>3, <1>4, TypesHold, LockHolds, PTL DEF Spec, AnswersAreTrue

-----------------------------------------------------------------------------
(* The refinement: with the tool's calls alone (nothing edits), no file      *)
(* damaged and a lock that excludes, every save acts at once.  A journal     *)
(* then holds deletions and at most one addition, the last; and a merge      *)
(* holds, of the memory it was read from, what the changes replayed so far   *)
(* make of it (MergeInv), which when all are replayed is the atomic result.  *)

Asking(journal) ==
    [adds |-> {c.text : c \in {d \in journal : d.kind = "add"}},
     dels |-> {c.text : c \in {d \in journal : d.kind = "delete"}}]

ToolJournal(s) ==
    /\ \A c \in pending[s] : c.kind \in {"add", "delete"} /\ c.id < nextId[s]
    /\ \A c, d \in pending[s] : c.kind = "add" /\ d # c => d.at < c.at /\ d.id # c.id
    /\ \A c \in pending[s] : c.kind = "add" => call[s].text = {c.text}

MergeOf(s) ==
    /\ pc[s] = "replaying" =>
         /\ work[s].todo \subseteq pending[s]
         /\ \A d \in pending[s] \ work[s].todo, c \in work[s].todo : d.at <= c.at
         /\ TextsOf(work[s].notes)
              = Atomic!Result(TextsOf(stored), Asking(pending[s] \ work[s].todo))
    /\ pc[s] \in {"replaying", "written", "backed"} /\ work[s].rejected =>
         /\ work[s].todo = {}
         /\ \A n \in work[s].notes : call[s].text # {n.text}

MergeInv ==
    /\ main.state # "damaged" /\ main.notes = stored
    /\ \A s \in Sessions : ToolJournal(s) /\ MergeOf(s)

\* A sound list has as many facts as notes.
LEMMA FactsOfSound ==
    ASSUME NEW ns, Sound(ns)
    PROVE  IsFiniteSet(TextsOf(ns)) /\ Cardinality(TextsOf(ns)) = Cardinality(ns)
<1> DEFINE f == [n \in ns |-> n.text]
<1>1. f \in Surjection(ns, TextsOf(ns))
  BY DEF Surjection, TextsOf
<1>2. f \in Injection(ns, TextsOf(ns))
  <2>1. \A m, n \in ns : m # n => m.text # n.text
    BY DEF Sound
  <2>2. \A m, n \in ns : f[m] = f[n] => m = n
    BY <2>1
  <2>3. f \in [ns -> TextsOf(ns)]
    BY DEF TextsOf
  <2> HIDE DEF f
  <2>4. QED
    BY <2>2, <2>3 DEF Injection, IsInjective
<1>3. IsFiniteSet(ns)
  BY DEF Sound
<1> HIDE DEF f
<1>4. QED
  BY <1>1, <1>2, <1>3, FS_Surjection

LEMMA SameCardinality == \A S : Atomic!Cardinality(S) = Cardinality(S)
  BY DEF Atomic!Cardinality, Cardinality

LEMMA ResultOfNothing ==
    ASSUME NEW m, NEW gone
    PROVE  Atomic!Result(m, [adds |-> {}, dels |-> gone]) = m \ gone
  BY DEF Atomic!Result

\* The atomic result of the deletions and one addition, as replay reaches it.
LEMMA ResultOfAdd ==
    \A m, gone, t, ns :
       Sound(ns) /\ TextsOf(ns) = m \ gone =>
          /\ t \in TextsOf(ns) \/ IsFull(ns) =>
               Atomic!Result(m, [adds |-> {t}, dels |-> gone]) = TextsOf(ns)
          /\ t \notin TextsOf(ns) /\ ~ IsFull(ns) =>
               Atomic!Result(m, [adds |-> {t}, dels |-> gone]) = TextsOf(ns) \union {t}
<1> TAKE m, gone, t, ns
<1> HAVE Sound(ns) /\ TextsOf(ns) = m \ gone
<1> DEFINE kept == TextsOf(ns)
<1>1. /\ IsFiniteSet(kept) /\ Cardinality(kept) = Cardinality(ns)
      /\ Cardinality(ns) \in Nat /\ Cardinality(ns) <= Cap
  BY FactsOfSound, FS_CardinalityType DEF Sound
<1>2. Atomic!Result(m, [adds |-> {t}, dels |-> gone]) =
        IF Cardinality(kept \union {t}) <= Cap THEN kept \union {t} ELSE kept
  <2> DEFINE a == [adds |-> {t}, dels |-> gone]
  <2>1. a.adds = {t} /\ a.dels = gone
    OBVIOUS
  <2> HIDE DEF a
  <2>2. Atomic!Result(m, a) =
          IF Cardinality((m \ gone) \union {t}) <= Cap THEN (m \ gone) \union {t} ELSE m \ gone
    BY <2>1, SameCardinality DEF Atomic!Result
  <2>3. QED
    BY <2>2 DEF a
<1>3. CASE t \in kept
  <2>1. kept \union {t} = kept
    BY <1>3
  <2>2. QED
    BY <1>2, <1>3, <2>1
<1>4. CASE t \notin kept
  <2>1. Cardinality(kept \union {t}) = Cardinality(ns) + 1
    BY <1>1, <1>4, FS_AddElement
  <2>2. Cardinality(kept \union {t}) <= Cap <=> ~ IsFull(ns)
    BY <1>1, <2>1, CapAssumption DEF IsFull
  <2>3. QED
    BY <1>2, <1>4, <2>2
<1>5. QED
  BY <1>3, <1>4

\* A save that failed takes the addition back and nothing else.
LEMMA UndoTakesBack ==
    ASSUME TypeInv, AddsCarried, AnswerInv, MergeInv, NEW s \in Sessions,
           pc[s] \in InSave, Undo(s, notes[s], pending[s])
    PROVE  /\ pending' \in [Sessions -> SUBSET Change]
           /\ pending'[s] = {c \in pending[s] : c.kind # "add"}
           /\ \A w \in Sessions \ {s} : pending'[w] = pending[w]
<1> DEFINE mine == {n \in notes[s] : /\ call[s].op = "save"
                                     /\ n.id = call[s].id
                                     /\ {n.text} = call[s].text}
           rest == IF mine = {} THEN pending[s]
                   ELSE JournalAfterDelete(pending[s], CHOOSE n \in mine : TRUE)
           kept == {c \in pending[s] : c.kind # "add"}
<1>1. pending' = [pending EXCEPT ![s] = rest] /\ pending \in [Sessions -> SUBSET Change]
  BY DEF Undo, TypeInv, TypeOK
<1>2. rest = kept
  <2>1. CASE call[s].op = "save"
    <3>1. PICK a \in pending[s] : a.kind = "add"
      BY <2>1 DEF AnswerInv, MadeFor
    <3>2. a.id = call[s].id /\ mine # {}
      BY <3>1 DEF AddsCarried, Carried
    <3>3. PICK x : x = (CHOOSE n \in mine : TRUE) /\ x \in mine
      BY <3>2
    <3>4. x.id = a.id
      BY <3>2, <3>3
    <3>5. rest = JournalAfterDelete(pending[s], x)
      BY <3>2, <3>3
    <3>6. JournalAfterDelete(pending[s], x) = {c \in pending[s] : c.id # x.id}
      BY <3>1, <3>4 DEF JournalAfterDelete
    <3>7. \A c \in pending[s] : c.id # x.id <=> c.kind # "add"
      BY <3>1, <3>2, <3>4 DEF AddsCarried, Carried, MergeInv, ToolJournal
    <3>8. QED
      BY <3>5, <3>6, <3>7
  <2>2. CASE call[s].op # "save"
    <3>1. mine = {} /\ \A c \in pending[s] : c.kind # "add"
      BY <2>2 DEF AddsCarried, Carried
    <3>2. QED
      BY <3>1
  <2>3. QED
    BY <2>1, <2>2
<1> HIDE DEF rest
<1>3. QED
  BY <1>1, <1>2

LEMMA AskMerges ==
    ASSUME TypeInv, NotesInv, AddsCarried, MergeInv, ~ Editing, NEW s \in Sessions, Ask(s)
    PROVE  MergeInv'
<1>1. /\ pending \in [Sessions -> SUBSET Change] /\ call \in [Sessions -> Call]
      /\ notes \in [Sessions -> SUBSET Note] /\ nextId \in [Sessions -> Nat]
      /\ pc \in [Sessions -> {"off", "idle"} \union InSave]
      /\ \A w \in Sessions : AtBounded(pending[w])
  BY DEF TypeInv, TypeOK, Bounds
<1>2. \/ Open(s)
      \/ \E t \in Texts : Save(s, t)
      \/ \E n \in notes[s] : Forget(s, n)
  <2>1. \A kind, n, t, b : ~ Edit(s, kind, n, t, b)
    BY DEF Edit
  <2>2. QED
    BY <2>1, Zenon DEF Ask, Update, SetActive, DeleteAll, Flush
<1>3. /\ UNCHANGED <<main, stored, work>> /\ pc[s] \in {"off", "idle"}
      /\ pc'[s] \in {"idle", "waiting"}
      /\ \A w \in Sessions \ {s} : /\ pc'[w] = pc[w] /\ call'[w] = call[w]
                                   /\ pending'[w] = pending[w] /\ nextId'[w] = nextId[w]
  BY <1>1, <1>2 DEF Open, Save, Forget, GoTo, diskVars
<1>4. ASSUME ToolJournal(s)' PROVE MergeInv'
  <2>1. ASSUME NEW w \in Sessions \ {s} PROVE ToolJournal(w)' /\ MergeOf(w)'
    <3>1. ToolJournal(w) /\ MergeOf(w)
      BY DEF MergeInv
    <3>2. ToolJournal(w)'
      BY <1>3, <3>1 DEF ToolJournal
    <3>3. MergeOf(w)'
      BY <1>3, <3>1 DEF MergeOf
    <3>4. QED
      BY <3>2, <3>3
  <2>2. MergeOf(s)'
    BY <1>3 DEF MergeOf
  <2>3. main'.state # "damaged" /\ main'.notes = stored'
    BY <1>3 DEF MergeInv
  <2>4. QED
    BY <1>4, <2>1, <2>2, <2>3 DEF MergeInv
<1>5. \A c \in pending[s] : c.kind = "delete" /\ c.id < nextId[s] /\ c.id \in Nat
  BY <1>1, <1>3 DEF AddsCarried, Carried, InSave, Critical, MergeInv, ToolJournal, Change
<1>6. CASE Open(s)
  BY <1>1, <1>4, <1>6 DEF Open, ToolJournal
<1>7. ASSUME NEW t \in Texts, Save(s, t)
      PROVE  MergeInv'
  <2> DEFINE add == [kind |-> "add", at |-> NextAt(pending[s]), id |-> nextId[s],
                     text |-> t, active |-> TRUE, of |-> t]
             made == [op |-> "save", id |-> nextId[s], text |-> {t}]
  <2>1. /\ pending' = [pending EXCEPT ![s] = pending[s] \union {add}]
        /\ call' = [call EXCEPT ![s] = made]
        /\ nextId' = [nextId EXCEPT ![s] = nextId[s] + 1]
    BY <1>7 DEF Save
  <2>2. /\ add.at = NextAt(pending[s]) /\ add.kind = "add" /\ add.text = t
        /\ add.id = nextId[s] /\ made.text = {t}
    OBVIOUS
  <2>3. \A c \in pending[s] : c.at < NextAt(pending[s])
    BY <1>1, NextAtType
  <2> HIDE DEF add, made
  <2>4. ToolJournal(s)'
    BY <1>1, <1>5, <2>1, <2>2, <2>3 DEF ToolJournal
  <2>5. QED
    BY <1>4, <2>4
<1>8. ASSUME NEW n \in notes[s], Forget(s, n)
      PROVE  MergeInv'
  <2> DEFINE del == [kind |-> "delete", at |-> NextAt(pending[s]), id |-> n.id,
                     text |-> n.text, active |-> n.active, of |-> n.first]
  <2>1. /\ pending' = [pending EXCEPT ![s] = pending[s] \union {del}]
        /\ nextId' = nextId
    BY <1>5, <1>8 DEF Forget, JournalAfterDelete
  <2>2. del.kind = "delete" /\ del.id < nextId[s]
    BY DEF NotesInv, Below
  <2> HIDE DEF del
  <2>3. ToolJournal(s)'
    BY <1>1, <1>5, <2>1, <2>2 DEF ToolJournal
  <2>4. QED
    BY <1>4, <2>3
<1>9. QED
  BY <1>2, <1>6, <1>7, <1>8

LEMMA ReplayMerges ==
    ASSUME TypeInv, NotesInv, MergeInv, NEW s \in Sessions, ReplayOne(s)
    PROVE  MergeOf(s)'
<1>1. /\ work \in [Sessions -> Merge] /\ pending[s] \in SUBSET Change
      /\ IdsBounded(work[s].notes) /\ Sound(work[s].notes)
  BY DEF TypeInv, TypeOK, Bounds, NotesInv
<1> DEFINE w == work[s]
           done == pending[s] \ w.todo
<1>2. /\ pc[s] = "replaying" /\ pc' = pc /\ UNCHANGED <<stored, pending, call>>
      /\ w \in Merge
  BY <1>1 DEF ReplayOne, diskVars, sessionVars
<1>3. PICK c \in w.todo : /\ \A d \in w.todo : c.at <= d.at
                          /\ work' = [work EXCEPT ![s] = Replay(w, c)]
  BY DEF ReplayOne
<1> DEFINE v == Replay(w, c)
<1>4. work'[s] = v
  BY <1>1, <1>3
<1>5. /\ v.todo = w.todo \ {c}
      /\ c.kind = "add" =>
           IF c.text \in TextsOf(w.notes)
           THEN v.notes = w.notes /\ v.rejected = w.rejected
           ELSE IF IsFull(w.notes)
           THEN v.notes = w.notes /\ v.rejected = TRUE
           ELSE /\ TextsOf(v.notes) = TextsOf(w.notes) \union {c.text}
                /\ v.rejected = w.rejected
      /\ c.kind = "delete" =>
           /\ TextsOf(v.notes) = TextsOf(w.notes) \ {c.text}
           /\ v.rejected = w.rejected
  BY <1>1, <1>2, <1>3, ReplayEffect, Zenon
<1>6. /\ w.todo \subseteq pending[s] /\ c \in pending[s] /\ c.at \in Nat
      /\ \A d \in pending[s] : d.at \in Nat
      /\ \A d \in done, e \in w.todo : d.at <= e.at
      /\ TextsOf(w.notes) = Atomic!Result(TextsOf(stored), Asking(done))
      /\ w.rejected = FALSE
  <2>1. MergeOf(s) /\ w.rejected \in BOOLEAN
    BY <1>2 DEF MergeInv, Merge
  <2>2. QED
    BY <1>1, <1>2, <1>3, <2>1 DEF MergeOf, Change
<1>7. ToolJournal(s)
  BY DEF MergeInv
<1> HIDE DEF v
<1>8. \A d \in done : d.kind = "delete"
  <2>1. \A d \in done : d # c /\ d \in pending[s] /\ d.at <= c.at
    BY <1>3, <1>6
  <2>2. \A d \in done : d.kind = "add" => c.at < d.at
    BY <1>6, <1>7, <2>1 DEF ToolJournal
  <2>3. QED
    BY <1>6, <1>7, <2>1, <2>2 DEF ToolJournal
<1>9. pending[s] \ v.todo = done \union {c}
  BY <1>5, <1>6
<1>10. \A d \in done \union {c}, e \in v.todo : d.at <= e.at
  BY <1>3, <1>5, <1>6
<1> DEFINE gone == {d.text : d \in done}
<1>11. Asking(done) = [adds |-> {}, dels |-> gone]
  BY <1>8 DEF Asking
<1>12. TextsOf(w.notes) = TextsOf(stored) \ gone
  BY <1>6, <1>11, ResultOfNothing
<1>13. CASE c.kind = "delete"
  <2>1. Asking(done \union {c}) = [adds |-> {}, dels |-> gone \union {c.text}]
    BY <1>8, <1>13 DEF Asking
  <2>2. TextsOf(v.notes) = TextsOf(stored) \ (gone \union {c.text})
    BY <1>5, <1>12, <1>13
  <2>3. TextsOf(v.notes) = Atomic!Result(TextsOf(stored), Asking(done \union {c}))
    BY <2>1, <2>2, ResultOfNothing
  <2>4. v.rejected = FALSE
    BY <1>5, <1>6, <1>13
  <2>5. QED
    BY <1>2, <1>4, <1>5, <1>6, <1>9, <1>10, <2>3, <2>4 DEF MergeOf
<1>14. CASE c.kind = "add"
  <2>1. Asking(done \union {c}) = [adds |-> {c.text}, dels |-> gone]
    BY <1>8, <1>14 DEF Asking
  <2> DEFINE result == Atomic!Result(TextsOf(stored), [adds |-> {c.text}, dels |-> gone])
  <2>2. /\ c.text \in TextsOf(w.notes) \/ IsFull(w.notes) => result = TextsOf(w.notes)
        /\ c.text \notin TextsOf(w.notes) /\ ~ IsFull(w.notes) =>
             result = TextsOf(w.notes) \union {c.text}
    <3>1. Sound(w.notes)
      BY <1>1
    <3> HIDE DEF gone, w
    <3>2. QED
      BY <1>12, <3>1, ResultOfAdd
  <2>3. TextsOf(v.notes) = Atomic!Result(TextsOf(stored), Asking(done \union {c}))
    BY <1>5, <1>14, <2>1, <2>2
  <2>4. v.todo = {}
    <3>1. \A e \in w.todo : e # c => e.at < c.at /\ c.at <= e.at /\ e.at \in Nat
      BY <1>3, <1>6, <1>7, <1>14 DEF ToolJournal
    <3>2. QED
      BY <1>5, <1>6, <3>1
  <2>5. v.rejected => v.notes = w.notes /\ c.text \notin TextsOf(w.notes)
    BY <1>5, <1>6, <1>14
  <2>6. v.rejected => \A n \in v.notes : call[s].text # {n.text}
    BY <1>6, <1>7, <1>14, <2>5 DEF ToolJournal, TextsOf
  <2>7. QED
    BY <1>2, <1>4, <1>5, <1>6, <1>9, <1>10, <2>3, <2>4, <2>6 DEF MergeOf
<1>15. QED
  BY <1>6, <1>7, <1>13, <1>14 DEF ToolJournal

\* What a save's steps leave of the other sessions.
LEMMA OthersKept ==
    ASSUME TypeInv, NEW s \in Sessions, SaveStep(s)
    PROVE  \A w \in Sessions \ {s} :
              /\ pc'[w] = pc[w] /\ call'[w] = call[w] /\ work'[w] = work[w]
              /\ pending'[w] = pending[w] /\ nextId'[w] = nextId[w]
<1>1. /\ pending \in [Sessions -> SUBSET Change] /\ call \in [Sessions -> Call]
      /\ pc \in [Sessions -> {"off", "idle"} \union InSave]
      /\ work \in [Sessions -> Merge] /\ nextId \in [Sessions -> Nat]
  BY DEF TypeInv, TypeOK
<1>2. \A w \in Sessions \ {s} : pc'[w] = pc[w] /\ call'[w] = call[w] /\ work'[w] = work[w]
  BY <1>1 DEF SaveStep, Acquire, JudgeStale, BreakLock, LockRefused, ReadBase, ReplayOne,
     WriteMain, WriteBackup, BackupFails, Finish, SaveFails, GoTo, Done, sessionVars
<1>3. \A w \in Sessions \ {s} : pending'[w] = pending[w] /\ nextId'[w] = nextId[w]
  BY <1>1 DEF SaveStep, Acquire, JudgeStale, BreakLock, LockRefused, ReadBase, ReplayOne,
     WriteMain, WriteBackup, BackupFails, Finish, SaveFails, Undo, sessionVars
<1>4. QED
  BY <1>2, <1>3

LEMMA FinishEmpties ==
    ASSUME TypeInv, MergeInv, NEW s \in Sessions, Finish(s)
    PROVE  pending'[s] = {}
<1>1. pending \in [Sessions -> SUBSET Change]
  BY DEF TypeInv, TypeOK
<1>2. CASE work[s].rejected
  <2> DEFINE mine == {n \in work[s].notes : /\ call[s].op = "save"
                                            /\ n.id = call[s].id
                                            /\ {n.text} = call[s].text}
  <2>1. pc[s] = "backed"
    BY DEF Finish
  <2>2. mine = {}
    BY <1>2, <2>1 DEF MergeInv, MergeOf
  <2>3. pending' = [pending EXCEPT ![s] =
                      IF mine = {} THEN {}
                      ELSE JournalAfterDelete({}, CHOOSE n \in mine : TRUE)]
    BY <1>2 DEF Finish, Undo
  <2>4. QED
    BY <1>1, <2>2, <2>3
<1>3. CASE ~ work[s].rejected
  BY <1>1, <1>3 DEF Finish
<1>4. QED
  BY <1>2, <1>3

LEMMA SaveStepMerges ==
    ASSUME TypeInv, NotesInv, Excludes, AddsCarried, AnswerInv, MergeInv,
           NEW s \in Sessions, SaveStep(s)
    PROVE  MergeInv'
<1>1. /\ pending \in [Sessions -> SUBSET Change] /\ call \in [Sessions -> Call]
      /\ pc \in [Sessions -> {"off", "idle"} \union InSave]
      /\ work \in [Sessions -> Merge] /\ nextId \in [Sessions -> Nat]
  BY DEF TypeInv, TypeOK
<1>2. ToolJournal(s) /\ MergeOf(s) /\ main.state # "damaged" /\ main.notes = stored
  BY DEF MergeInv
<1>3. ASSUME stored' = stored \/ pc[s] = "replaying",
             main'.state # "damaged", main'.notes = stored',
             ToolJournal(s)', MergeOf(s)'
      PROVE  MergeInv'
  <2>1. ASSUME NEW w \in Sessions \ {s} PROVE ToolJournal(w)' /\ MergeOf(w)'
    <3>1. ToolJournal(w) /\ MergeOf(w)
      BY DEF MergeInv
    <3>2. ToolJournal(w)'
      BY <3>1, OthersKept DEF ToolJournal
    <3>3. pc[w] = "replaying" => stored' = stored
      BY <1>3 DEF Excludes, Critical
    <3>4. MergeOf(w)'
      BY <3>1, <3>3, OthersKept DEF MergeOf
    <3>5. QED
      BY <3>2, <3>4
  <2>2. QED
    BY <1>3, <2>1 DEF MergeInv
<1>4. CASE Acquire(s) \/ JudgeStale(s) \/ BreakLock(s) \/ WriteBackup(s) \/ BackupFails(s)
  <2>1. /\ UNCHANGED <<main, stored, sessionVars, work>>
        /\ pc'[s] \in {"waiting", "breaking", "locked", "backed"}
        /\ pc'[s] = "backed" => pc[s] = "written"
    BY <1>1, <1>4 DEF Acquire, JudgeStale, BreakLock, WriteBackup, BackupFails, GoTo, diskVars
  <2>2. ToolJournal(s)' /\ MergeOf(s)'
    BY <1>2, <2>1 DEF ToolJournal, MergeOf, sessionVars
  <2>3. QED
    BY <1>2, <1>3, <2>1, <2>2
<1>5. CASE LockRefused(s) \/ SaveFails(s)
  <2>1. /\ UNCHANGED <<diskVars, nextId>> /\ pc'[s] = "idle" /\ pc[s] \in InSave
        /\ Undo(s, notes[s], pending[s])
    BY <1>1, <1>5 DEF LockRefused, SaveFails, Done, InSave, Critical
  <2>2. pending'[s] = {c \in pending[s] : c.kind # "add"}
    BY <2>1, UndoTakesBack
  <2>3. ToolJournal(s)' /\ MergeOf(s)'
    BY <1>2, <2>1, <2>2 DEF ToolJournal, MergeOf
  <2>4. QED
    BY <1>2, <1>3, <2>1, <2>3 DEF diskVars
<1>6. CASE ReadBase(s)
  <2>1. /\ pc'[s] = "replaying" /\ UNCHANGED <<main, stored, sessionVars>>
        /\ work'[s].notes = Best.notes /\ work'[s].todo = pending[s]
        /\ work'[s].rejected = FALSE
    BY <1>1, <1>2, <1>6 DEF ReadBase, GoTo
  <2>2. Best.notes = stored
    BY <1>2 DEF Best
  <2>3. Asking(pending[s] \ pending[s]) = [adds |-> {}, dels |-> {}]
    BY DEF Asking
  <2>4. Atomic!Result(TextsOf(stored), Asking(pending[s] \ pending[s])) = TextsOf(stored)
    BY <2>3, ResultOfNothing
  <2>5. ToolJournal(s)' /\ MergeOf(s)'
    BY <1>2, <2>1, <2>2, <2>4 DEF ToolJournal, MergeOf, sessionVars
  <2>6. QED
    BY <1>2, <1>3, <2>1, <2>5
<1>7. CASE ReplayOne(s)
  <2>1. UNCHANGED <<main, stored, sessionVars>>
    BY <1>7 DEF ReplayOne, diskVars
  <2>2. ToolJournal(s)'
    BY <1>2, <2>1 DEF ToolJournal, sessionVars
  <2>3. QED
    BY <1>2, <1>3, <1>7, <2>1, <2>2, ReplayMerges
<1>8. CASE WriteMain(s)
  <2>1. /\ pc[s] = "replaying" /\ pc'[s] = "written" /\ UNCHANGED <<sessionVars, work>>
        /\ main'.state = "good" /\ main'.notes = stored'
    BY <1>1, <1>8 DEF WriteMain, GoTo, Merged
  <2>2. ToolJournal(s)' /\ MergeOf(s)'
    BY <1>2, <2>1 DEF ToolJournal, MergeOf, sessionVars
  <2>3. QED
    BY <1>3, <2>1, <2>2
<1>9. CASE Finish(s)
  <2>1. UNCHANGED diskVars /\ pc'[s] = "idle" /\ pending'[s] = {}
    BY <1>1, <1>9, FinishEmpties DEF Finish, Done
  <2>2. ToolJournal(s)' /\ MergeOf(s)'
    BY <2>1 DEF ToolJournal, MergeOf
  <2>3. QED
    BY <1>2, <1>3, <2>1, <2>2 DEF diskVars
<1>10. QED
  BY <1>4, <1>5, <1>6, <1>7, <1>8, <1>9 DEF SaveStep

LEMMA OutsideMerges ==
    ASSUME TypeInv, MergeInv, DamageAt = {},
           LockAges \/ Damage \/ Wipe \/ UNCHANGED vars
             \/ \E s \in Sessions : Quit(s) \/ Crash(s)
    PROVE  MergeInv'
<1>1. CASE LockAges \/ UNCHANGED vars
  BY <1>1 DEF LockAges, vars, diskVars, sessionVars, MergeInv, ToolJournal, MergeOf
<1>2. ~ Damage
  BY DEF Damage
<1>3. CASE Wipe
  <2>1. /\ NoSaveUnderWay /\ UNCHANGED <<pc, sessionVars, work>>
        /\ main' = NoFile /\ stored' = {}
    BY <1>3 DEF Wipe
  <2>2. NoFile.state = "missing" /\ NoFile.notes = {}
    BY DEF NoFile
  <2>3. \A s \in Sessions : pc[s] # "replaying"
    BY <2>1 DEF NoSaveUnderWay, Critical
  <2>4. ASSUME NEW s \in Sessions PROVE ToolJournal(s)' /\ MergeOf(s)'
    <3>1. ToolJournal(s) /\ MergeOf(s)
      BY DEF MergeInv
    <3>2. QED
      BY <2>1, <2>3, <3>1 DEF ToolJournal, MergeOf, sessionVars
  <2>5. QED
    BY <2>1, <2>2, <2>4 DEF MergeInv
<1>4. ASSUME NEW s \in Sessions, Quit(s) \/ Crash(s)
      PROVE  MergeInv'
  <2>1. /\ pc'[s] = "off" /\ pending'[s] = {} /\ UNCHANGED diskVars
        /\ \A w \in Sessions \ {s} :
              /\ pc'[w] = pc[w] /\ call'[w] = call[w] /\ nextId'[w] = nextId[w]
              /\ work'[w] = work[w] /\ pending'[w] = pending[w]
    BY <1>4 DEF Quit, Crash, Gone, TypeInv, TypeOK
  <2>2. ToolJournal(s)' /\ MergeOf(s)'
    BY <2>1 DEF ToolJournal, MergeOf
  <2>3. ASSUME NEW w \in Sessions \ {s} PROVE ToolJournal(w)' /\ MergeOf(w)'
    <3>1. ToolJournal(w) /\ MergeOf(w)
      BY DEF MergeInv
    <3>2. ToolJournal(w)'
      BY <2>1, <3>1 DEF ToolJournal
    <3>3. MergeOf(w)'
      BY <2>1, <3>1 DEF MergeOf, diskVars
    <3>4. QED
      BY <3>2, <3>3
  <2>4. QED
    BY <2>1, <2>2, <2>3 DEF MergeInv, diskVars
<1>5. QED
  BY <1>1, <1>2, <1>3, <1>4

LEMMA AskedExcept ==
    \A e, a, d, x :
       e = [adds |-> a, dels |-> d] =>
          /\ [e EXCEPT !.adds = x] = [adds |-> x, dels |-> d]
          /\ [e EXCEPT !.dels = x] = [adds |-> a, dels |-> x]
  OBVIOUS

AskMap == [s \in Sessions |-> AskedBy(s)]

OpenJournal(s) == IF pc[s] \in {"written", "backed"} THEN {} ELSE pending[s]

LEMMA AskedByJournal ==
    \A s : AskedBy(s) = Asking(OpenJournal(s)) /\ AskedBy(s)' = Asking(OpenJournal(s))'
  BY DEF AskedBy, Asking, OpenJournal

LEMMA AskMapStep ==
    ASSUME NEW s \in Sessions,
           \A w \in Sessions \ {s} : pc'[w] = pc[w] /\ pending'[w] = pending[w]
    PROVE  AskMap' = [AskMap EXCEPT ![s] = AskedBy(s)']
<1>1. \A w \in Sessions \ {s} : AskedBy(w)' = AskedBy(w)
  BY DEF AskedBy
<1>2. QED
  BY <1>1 DEF AskMap

\* A session's step that commits nothing and keeps what it asks for.
LEMMA AskMapKept ==
    ASSUME NEW s \in Sessions, AskedBy(s)' = AskedBy(s), stored' = stored,
           \A w \in Sessions \ {s} : pc'[w] = pc[w] /\ pending'[w] = pending[w]
    PROVE  UNCHANGED Atomic!vars
<1>1. AskMap' = AskMap
  BY AskMapStep DEF AskMap
<1>2. QED
  BY <1>1 DEF Atomic!vars, AskMap

LEMMA LeaveImplemented ==
    ASSUME NEW s \in Sessions, pending'[s] = {}, stored' = stored,
           \A w \in Sessions \ {s} : pc'[w] = pc[w] /\ pending'[w] = pending[w]
    PROVE  Atomic!Next
<1>1. AskedBy(s)' = Atomic!Nothing
  BY DEF AskedBy, Atomic!Nothing
<1>2. AskMap' = [AskMap EXCEPT ![s] = Atomic!Nothing]
  BY <1>1, AskMapStep
<1>3. Atomic!Leave(s)
  BY <1>2 DEF Atomic!Leave, AskMap
<1>4. QED
  BY <1>3 DEF Atomic!Next

LEMMA AskImplements ==
    ASSUME TypeInv, AddsCarried, MergeInv, ~ Editing, NEW s \in Sessions, Ask(s)
    PROVE  Atomic!Next
<1>1. /\ pending \in [Sessions -> SUBSET Change] /\ notes \in [Sessions -> SUBSET Note]
      /\ pc \in [Sessions -> {"off", "idle"} \union InSave]
  BY DEF TypeInv, TypeOK
<1>2. \/ Open(s)
      \/ \E t \in Texts : Save(s, t)
      \/ \E n \in notes[s] : Forget(s, n)
  <2>1. \A kind, n, t, b : ~ Edit(s, kind, n, t, b)
    BY DEF Edit
  <2>2. QED
    BY <2>1, Zenon DEF Ask, Update, SetActive, DeleteAll, Flush
<1>3. /\ stored' = stored /\ pc[s] \in {"off", "idle"} /\ pc'[s] \in {"idle", "waiting"}
      /\ \A w \in Sessions \ {s} : pc'[w] = pc[w] /\ pending'[w] = pending[w]
  BY <1>1, <1>2 DEF Open, Save, Forget, GoTo, diskVars
<1>4. \A c \in pending[s] : c.kind = "delete"
  BY <1>3 DEF AddsCarried, Carried, InSave, Critical, MergeInv, ToolJournal
<1>5. OpenJournal(s) = pending[s] /\ OpenJournal(s)' = pending'[s]
  BY <1>3 DEF OpenJournal
<1> DEFINE gone == {c.text : c \in pending[s]}
<1>6. AskedBy(s) = [adds |-> {}, dels |-> gone]
  BY <1>4, <1>5, AskedByJournal DEF Asking
<1>7. AskMap[s] = AskedBy(s)
  BY DEF AskMap
<1>8. CASE Open(s)
  BY <1>1, <1>3, <1>8, LeaveImplemented DEF Open
<1>9. ASSUME NEW t \in Texts, Save(s, t)
      PROVE  Atomic!Next
  <2> DEFINE add == [kind |-> "add", at |-> NextAt(pending[s]), id |-> nextId[s],
                     text |-> t, active |-> TRUE, of |-> t]
  <2>1. pending' = [pending EXCEPT ![s] = pending[s] \union {add}]
    BY <1>9 DEF Save
  <2>2. add.kind = "add" /\ add.text = t
    OBVIOUS
  <2> HIDE DEF add
  <2>3. AskedBy(s)' = [adds |-> {t}, dels |-> gone]
    BY <1>1, <1>4, <1>5, <2>1, <2>2, AskedByJournal DEF Asking
  <2>4. AskMap' = [AskMap EXCEPT ![s].adds = {t}]
    <3>1. AskMap' = [AskMap EXCEPT ![s] = [adds |-> {t}, dels |-> gone]]
      BY <1>3, <2>3, AskMapStep
    <3>2. [AskMap[s] EXCEPT !.adds = {t}] = [adds |-> {t}, dels |-> gone]
      <4>1. AskMap[s] = [adds |-> {}, dels |-> gone]
        BY <1>6, <1>7
      <4> HIDE DEF gone
      <4>2. QED
        BY <4>1, AskedExcept
    <3> HIDE DEF gone
    <3>3. QED
      BY <3>1, <3>2
  <2>5. AskMap[s].adds = {}
    BY <1>6, <1>7
  <2>6. Atomic!WantAdded(s, t)
    BY <1>3, <2>4, <2>5 DEF Atomic!WantAdded, AskMap
  <2>7. QED
    BY <2>6 DEF Atomic!Next
<1>10. ASSUME NEW n \in notes[s], Forget(s, n)
       PROVE  Atomic!Next
  <2> DEFINE del == [kind |-> "delete", at |-> NextAt(pending[s]), id |-> n.id,
                     text |-> n.text, active |-> n.active, of |-> n.first]
  <2>1. pending' = [pending EXCEPT ![s] = pending[s] \union {del}]
    BY <1>4, <1>10 DEF Forget, JournalAfterDelete
  <2>2. del.kind = "delete" /\ del.text = n.text /\ n.text \in Texts
    BY <1>1 DEF Note
  <2> HIDE DEF del
  <2>3. AskedBy(s)' = [adds |-> {}, dels |-> gone \union {n.text}]
    BY <1>1, <1>4, <1>5, <2>1, <2>2, AskedByJournal DEF Asking
  <2>4. AskMap' = [AskMap EXCEPT ![s].dels = @ \union {n.text}]
    <3>1. AskMap' = [AskMap EXCEPT ![s] = [adds |-> {}, dels |-> gone \union {n.text}]]
      BY <1>3, <2>3, AskMapStep
    <3>2. [AskMap[s] EXCEPT !.dels = gone \union {n.text}]
            = [adds |-> {}, dels |-> gone \union {n.text}]
      <4>1. AskMap[s] = [adds |-> {}, dels |-> gone]
        BY <1>6, <1>7
      <4> HIDE DEF gone
      <4>2. QED
        BY <4>1, AskedExcept
    <3>3. AskMap[s].dels = gone
      BY <1>6, <1>7
    <3> HIDE DEF gone
    <3>4. QED
      BY <3>1, <3>2, <3>3
  <2>5. AskMap[s].adds = {}
    BY <1>6, <1>7
  <2>6. Atomic!WantForgotten(s, n.text)
    BY <1>3, <2>4, <2>5 DEF Atomic!WantForgotten, AskMap
  <2>7. QED
    BY <2>2, <2>6 DEF Atomic!Next
<1>11. QED
  BY <1>2, <1>8, <1>9, <1>10

LEMMA SaveStepImplements ==
    ASSUME TypeInv, AddsCarried, AnswerInv, MergeInv, NEW s \in Sessions, SaveStep(s)
    PROVE  [Atomic!Next]_(Atomic!vars)
<1>1. /\ pending \in [Sessions -> SUBSET Change]
      /\ pc \in [Sessions -> {"off", "idle"} \union InSave]
  BY DEF TypeInv, TypeOK
<1>2. \A w \in Sessions \ {s} : pc'[w] = pc[w] /\ pending'[w] = pending[w]
  BY OthersKept
<1>3. CASE Acquire(s) \/ JudgeStale(s) \/ BreakLock(s) \/ ReadBase(s) \/ ReplayOne(s)
           \/ WriteBackup(s) \/ BackupFails(s)
  <2>1. /\ stored' = stored /\ pending' = pending
        /\ pc[s] \in {"written", "backed"} <=> pc'[s] \in {"written", "backed"}
    BY <1>1, <1>3 DEF Acquire, JudgeStale, BreakLock, ReadBase, ReplayOne, WriteBackup,
       BackupFails, GoTo, diskVars, sessionVars
  <2>2. AskedBy(s)' = AskedBy(s)
    BY <2>1 DEF AskedBy
  <2>3. QED
    BY <1>2, <2>1, <2>2, AskMapKept
<1>4. CASE LockRefused(s) \/ SaveFails(s)
  <2>1. /\ stored' = stored /\ pc'[s] = "idle" /\ pc[s] \in InSave
        /\ pc[s] \notin {"written", "backed"}
        /\ Undo(s, notes[s], pending[s])
    BY <1>1, <1>4 DEF LockRefused, SaveFails, Done, InSave, Critical, diskVars
  <2>2. pending'[s] = {c \in pending[s] : c.kind # "add"}
    BY <2>1, UndoTakesBack
  <2>3. /\ OpenJournal(s) = pending[s]
        /\ OpenJournal(s)' = {c \in pending[s] : c.kind # "add"}
    BY <2>1, <2>2 DEF OpenJournal
  <2>4. AskedBy(s)' = [AskedBy(s) EXCEPT !.adds = {}]
    <3> DEFINE rest == {c \in pending[s] : c.kind # "add"}
    <3>1. {d \in rest : d.kind = "add"} = {}
      OBVIOUS
    <3>2. {d \in rest : d.kind = "delete"} = {d \in pending[s] : d.kind = "delete"}
      OBVIOUS
    <3>3. Asking(rest) = [adds |-> {}, dels |-> Asking(pending[s]).dels]
      BY <3>1, <3>2 DEF Asking
    <3>4. [Asking(pending[s]) EXCEPT !.adds = {}]
            = [adds |-> {}, dels |-> Asking(pending[s]).dels]
      <4> DEFINE a == {c.text : c \in {d \in pending[s] : d.kind = "add"}}
                 d == {c.text : c \in {d \in pending[s] : d.kind = "delete"}}
      <4>1. Asking(pending[s]) = [adds |-> a, dels |-> d]
        BY DEF Asking
      <4> HIDE DEF a, d
      <4>2. Asking(pending[s]).dels = d
        BY <4>1
      <4>3. QED
        BY <4>1, <4>2, AskedExcept
    <3> HIDE DEF rest
    <3>5. OpenJournal(s)' = rest
      BY <2>3 DEF rest
    <3>6. AskedBy(s) = Asking(pending[s]) /\ AskedBy(s)' = Asking(rest)
      BY <2>3, <3>5, AskedByJournal
    <3>7. QED
      BY <3>3, <3>4, <3>6
  <2>5. AskMap' = [AskMap EXCEPT ![s].adds = {}]
    BY <1>2, <2>4, AskMapStep DEF AskMap
  <2>6. Atomic!TakeBack(s)
    BY <2>1, <2>5 DEF Atomic!TakeBack, AskMap
  <2>7. QED
    BY <2>6 DEF Atomic!Next
<1>5. CASE WriteMain(s)
  <2>1. /\ pc[s] = "replaying" /\ pc'[s] = "written" /\ work[s].todo = {}
        /\ pending' = pending /\ stored' = work[s].notes
    BY <1>1, <1>5 DEF WriteMain, GoTo, sessionVars
  <2>2. AskedBy(s) = Asking(pending[s]) /\ AskedBy(s)' = Atomic!Nothing
    BY <2>1 DEF AskedBy, Asking, Atomic!Nothing
  <2>3. TextsOf(work[s].notes)
          = Atomic!Result(TextsOf(stored), Asking(pending[s] \ work[s].todo))
    BY <2>1 DEF MergeInv, MergeOf
  <2>4. pending[s] \ work[s].todo = pending[s]
    BY <2>1
  <2>5. TextsOf(work[s].notes) = Atomic!Result(TextsOf(stored), AskedBy(s))
    BY <2>2, <2>3, <2>4
  <2>6. TextsOf(stored)' = TextsOf(work[s].notes)
    BY <2>1 DEF TextsOf
  <2>7. AskMap' = [AskMap EXCEPT ![s] = Atomic!Nothing] /\ AskMap[s] = AskedBy(s)
    BY <1>2, <2>2, AskMapStep DEF AskMap
  <2>8. Atomic!Commit(s)
    BY <2>5, <2>6, <2>7 DEF Atomic!Commit, AskMap
  <2>9. QED
    BY <2>8 DEF Atomic!Next
<1>6. CASE Finish(s)
  <2>1. pending'[s] = {} /\ stored' = stored
    BY <1>6, FinishEmpties DEF Finish, diskVars
  <2>2. QED
    BY <1>2, <2>1, LeaveImplemented
<1>7. QED
  BY <1>3, <1>4, <1>5, <1>6 DEF SaveStep

LEMMA OutsideImplements ==
    ASSUME TypeInv, DamageAt = {},
           LockAges \/ Damage \/ Wipe \/ UNCHANGED vars
             \/ \E s \in Sessions : Quit(s) \/ Crash(s)
    PROVE  [Atomic!Next]_(Atomic!vars)
<1>1. ~ Damage
  BY DEF Damage
<1>2. CASE LockAges \/ Wipe \/ UNCHANGED vars
  <2>1. UNCHANGED <<pc, pending>>
    BY <1>2 DEF LockAges, Wipe, vars, sessionVars
  <2>2. AskMap' = AskMap
    BY <2>1 DEF AskMap, AskedBy
  <2>3. CASE stored' = stored
    BY <2>2, <2>3 DEF Atomic!vars, AskMap
  <2>4. CASE stored' = {}
    <3>1. TextsOf(stored)' = {}
      BY <2>4 DEF TextsOf
    <3>2. Atomic!Wipe
      BY <2>2, <3>1 DEF Atomic!Wipe, AskMap
    <3>3. QED
      BY <3>2 DEF Atomic!Next
  <2>5. QED
    BY <1>2, <2>3, <2>4 DEF LockAges, Wipe, vars, diskVars
<1>3. ASSUME NEW s \in Sessions, Quit(s) \/ Crash(s)
      PROVE  Atomic!Next
  BY <1>3, LeaveImplemented DEF Quit, Crash, Gone, TypeInv, TypeOK, diskVars
<1>4. QED
  BY <1>1, <1>2, <1>3

ToolInv == LockInv /\ NotesInv /\ AddsCarried /\ AnswerInv /\ MergeInv

\* Notes and journals as they are in every state, whatever the environment.
LEMMA CopiesHold == Spec => [](NotesInv /\ AddsCarried)
<1>1. Init => NotesInv /\ AddsCarried
  <2>1. Sound({}) /\ Below({}, 0) /\ Below({}, 1)
    BY EmptySound
  <2>2. NoFile.notes = {} /\ NoMerge.notes = {} /\ NoMerge.next = 0
    BY DEF NoFile, NoMerge
  <2>3. QED
    BY <2>1, <2>2 DEF Init, AddsCarried, NotesInv
<1>2. TypeInv /\ NotesInv /\ [Next]_vars => NotesInv'
  BY AskSound, SaveStepSound, OutsideSound DEF Next
<1>3. TypeInv /\ AddsCarried /\ [Next]_vars => AddsCarried'
  BY AskCarries, SaveStepCarries, OutsideCarries DEF Next
<1>4. QED
  BY <1>1, <1>2, <1>3, TypesHold, PTL DEF Spec

LEMMA ToolInvHolds ==
    ASSUME ~ SlowHolder, ~ TwoBreakers, ~ Editing, DamageAt = {}
    PROVE  Spec => []ToolInv
<1>1. Init => AnswerInv
  BY DEF Init, AnswerInv, InSave, Critical
<1>2. Init => MergeInv
  BY DEF Init, MergeInv, ToolJournal, MergeOf, NoFile
<1>3. TypeInv /\ LockInv /\ AddsCarried /\ AnswerInv /\ [Next]_vars => AnswerInv'
  BY AskAnswers, SaveStepAnswers, OutsideAnswers, LockExcludes DEF Next
<1>4. TypeInv /\ ToolInv /\ [Next]_vars => MergeInv'
  BY AskMerges, SaveStepMerges, OutsideMerges, LockExcludes DEF Next, ToolInv
<1>5. QED
  BY <1>1, <1>2, <1>3, <1>4, TypesHold, LockHolds, CopiesHold, PTL DEF Spec, ToolInv

\* The store implements AtomicMemory: whatever crashes, fails to be written or
\* comes between its file operations, a save takes effect in one step, on memory
\* as it is then, and as asked for and not taken back.
THEOREM SavesAreAtomic ==
    ASSUME ~ SlowHolder, ~ TwoBreakers, ~ Editing, DamageAt = {}
    PROVE  Spec => ImplementsAtomicMemory
<1>1. Init => Atomic!Init
  <2>1. Init => \A s \in Sessions : AskedBy(s) = Atomic!Nothing
    BY DEF Init, AskedBy, Atomic!Nothing
  <2>2. QED
    BY <2>1 DEF Init, TextsOf, Atomic!Init
<1>2. TypeInv /\ ToolInv /\ [Next]_vars => [Atomic!Next]_(Atomic!vars)
  BY AskImplements, SaveStepImplements, OutsideImplements DEF Next, ToolInv
<1>3. QED
  BY <1>1, <1>2, TypesHold, ToolInvHolds, PTL DEF Spec, ImplementsAtomicMemory, Atomic!Spec

-----------------------------------------------------------------------------
(* What a session did not touch.  The refinement is about texts; this is    *)
(* about the notes themselves, as the file had them, and about edits too.   *)
(* An edit goes to its note by the id alone, so what is to be shown is that *)
(* the id in a journal still means the same note in memory.json: no id is   *)
(* given twice as long as memory.json is not removed.                       *)

\* The changes that go to a note by its id.
Edits == {"update", "active"}

\* Whatever is replayed, a note stays the one it was: only an addition brings an
\* id into the merge, the next one, and only an addition moves an id.
LEMMA ReplayOrigin ==
    ASSUME NEW w \in Merge, NEW c \in w.todo, IdsBounded(w.notes)
    PROVE  /\ Replay(w, c).next \in {w.next, w.next + 1}
           /\ \A n \in Replay(w, c).notes :
                 n.id = w.next \/ \E m \in w.notes : m.id = n.id /\ m.first = n.first
           /\ \A p \in Replay(w, c).renamed :
                 p \in w.renamed \/ (c.kind = "add" /\ p[1] = c.id)
<1> DEFINE Origin(v) ==
             /\ v.next \in {w.next, w.next + 1}
             /\ \A n \in v.notes :
                   n.id = w.next \/ \E m \in w.notes : m.id = n.id /\ m.first = n.first
             /\ \A p \in v.renamed : p \in w.renamed \/ (c.kind = "add" /\ p[1] = c.id)
<1>0. c \in Change /\ w.notes \in SUBSET Note
  BY DEF Merge
<1>1. Origin(w)
  OBVIOUS
<1>2. c.kind = "add" => Origin(ReplayAdd(w, c))
  <2>1. SUFFICES ASSUME c.kind = "add" PROVE Origin(WithNote(w, c))
    <3>1. Origin([w EXCEPT !.rejected = TRUE])
      BY DEF Merge
    <3>2. QED
      BY <1>1, <2>1, <3>1 DEF ReplayAdd
  <2> DEFINE note == [id |-> w.next, text |-> c.text, active |-> c.active,
                      first |-> c.text]
             moved == {p \in w.renamed : p[1] # c.id} \union {<<c.id, w.next>>}
  <2>2. WithNote(w, c) = [w EXCEPT !.notes = w.notes \union {note}, !.next = w.next + 1,
                                   !.renamed = moved]
    BY DEF WithNote
  <2>3. note.id = w.next /\ \A p \in moved : p \in w.renamed \/ p[1] = c.id
    OBVIOUS
  <2> HIDE DEF note, moved
  <2>4. /\ WithNote(w, c).notes = w.notes \union {note}
        /\ WithNote(w, c).next = w.next + 1 /\ WithNote(w, c).renamed = moved
    BY <2>2 DEF Merge
  <2>5. QED
    BY <2>1, <2>3, <2>4
<1>3. Origin(ReplayDelete(w, c))
  BY DEF ReplayDelete, Merge
<1>4. Origin(ReplayUpdate(w, c))
  <2> DEFINE Changed(n) == IF n.id = Follow(w, c.id) THEN [n EXCEPT !.text = c.text] ELSE n
  <2>1. \A n \in w.notes : Changed(n).id = n.id /\ Changed(n).first = n.first
    BY <1>0 DEF Note
  <2>2. ReplayUpdate(w, c) \in {w, [w EXCEPT !.notes = {Changed(n) : n \in w.notes}]}
    BY DEF ReplayUpdate
  <2> HIDE DEF Changed
  <2>3. QED
    BY <1>1, <2>1, <2>2 DEF Merge
<1>5. Origin(ReplayActive(w, c))
  <2> DEFINE Changed(n) == IF n.id = Follow(w, c.id) THEN [n EXCEPT !.active = c.active] ELSE n
  <2>1. \A n \in w.notes : Changed(n).id = n.id /\ Changed(n).first = n.first
    BY <1>0 DEF Note
  <2>2. ReplayActive(w, c) = [w EXCEPT !.notes = {Changed(n) : n \in w.notes}]
    BY DEF ReplayActive
  <2> HIDE DEF Changed
  <2>3. QED
    BY <2>1, <2>2 DEF Merge
<1> DEFINE v == CASE c.kind = "add"    -> ReplayAdd(w, c)
                  [] c.kind = "delete" -> ReplayDelete(w, c)
                  [] c.kind = "update" -> ReplayUpdate(w, c)
                  [] c.kind = "active" -> ReplayActive(w, c)
<1>6. v \in Merge
  BY <1>0, ReplayKindsType DEF Change
<1>7. Origin(v)
  <2> HIDE DEF Origin
  <2>1. QED
    BY <1>0, <1>2, <1>3, <1>4, <1>5 DEF Change
<1> HIDE DEF v
<1>8. /\ Replay(w, c).notes = v.notes /\ Replay(w, c).next = v.next
      /\ Replay(w, c).renamed = v.renamed
  BY <1>6, Zenon DEF Replay, v, Merge
<1>9. QED
  BY <1>7, <1>8

\* A note no change names is in the merge as it was.
LEMMA ReplayKeeps ==
    ASSUME NEW w \in Merge, IdsBounded(w.notes), NEW c \in w.todo, NEW n \in w.notes,
           c.kind = "delete" => c.text # n.text,
           c.kind \in Edits => Follow(w, c.id) # n.id
    PROVE  n \in Replay(w, c).notes
<1> DEFINE v == CASE c.kind = "add"    -> ReplayAdd(w, c)
                  [] c.kind = "delete" -> ReplayDelete(w, c)
                  [] c.kind = "update" -> ReplayUpdate(w, c)
                  [] c.kind = "active" -> ReplayActive(w, c)
<1>0. c \in Change
  BY DEF Merge
<1>1. v \in Merge
  BY <1>0, ReplayKindsType DEF Change
<1>2. n \in v.notes
  <2>1. n \in ReplayAdd(w, c).notes
    BY DEF ReplayAdd, WithNote, Merge
  <2>2. c.kind = "delete" => n \in ReplayDelete(w, c).notes
    BY DEF ReplayDelete, Merge
  <2>3. c.kind = "update" => n \in ReplayUpdate(w, c).notes
    BY DEF ReplayUpdate, Merge, Edits
  <2>4. c.kind = "active" => n \in ReplayActive(w, c).notes
    BY DEF ReplayActive, Merge, Edits
  <2>5. QED
    BY <1>0, <2>1, <2>2, <2>3, <2>4 DEF Change
<1> HIDE DEF v
<1>3. Replay(w, c).notes = v.notes
  BY <1>1, Zenon DEF Replay, v, Merge
<1>4. QED
  BY <1>2, <1>3

\* The file has given the id, and to no other note than the one added with f.  Where
\* nothing is edited no change goes by an id, and there is nothing to know.
Known(i, f) ==
    Editing => i \in Nat /\ i < SafeNextId(main) /\ \A n \in stored : n.id = i => n.first = f

\* The session's copies are of notes the file has or had, but for the note whose
\* provisional id is about to be saved.
CopiesKnown(s) ==
    \A m \in notes[s] :
       Known(m.id, m.first) \/ \E c \in pending[s] : c.kind = "add" /\ c.id = m.id

\* So are the notes its journal edits; none of them is one it adds.
EditsKnown(s) ==
    \A d \in pending[s] : d.kind \in Edits =>
       /\ Editing /\ Known(d.id, d.of) /\ d.id < nextId[s]
       /\ \A c \in pending[s] : c.kind = "add" => d.id # c.id

\* A merge has no old id for a new note, and moves only the ids of additions.
MergeKnown(s) ==
    pc[s] = "replaying" =>
       /\ work[s].todo \subseteq pending[s]
       /\ work[s].next >= SafeNextId(main)
       /\ \A n \in work[s].notes :
             n.id < SafeNextId(main) => \E m \in stored : m.id = n.id /\ m.first = n.first
       /\ \A p \in work[s].renamed : \E c \in pending[s] : c.kind = "add" /\ c.id = p[1]

WrittenKnown(s) == pc[s] \in {"written", "backed"} => work[s].notes = stored

\* The change has nothing to say about the note: Untouched, change by change.
Spares(c, n) ==
    /\ c.kind = "delete" => c.text # n.text
    /\ c.kind \in Edits => c.id # n.id \/ c.of # n.first

\* A stored note that all the replayed changes spare is in the merge.
NotesKept(s) ==
    pc[s] = "replaying" =>
       \A n \in stored : (\A c \in pending[s] \ work[s].todo : Spares(c, n)) => n \in work[s].notes

SessionIds(s) ==
    CopiesKnown(s) /\ EditsKnown(s) /\ MergeKnown(s) /\ WrittenKnown(s) /\ NotesKept(s)

FileIsStored == main.state # "damaged" /\ main.notes = stored

\* Removing memory.json starts the ids again.
NoWipeLeft == Editing => left["wipe"] = 0

IdInv == NoWipeLeft /\ FileIsStored /\ \A s \in Sessions : SessionIds(s)

\* A step of another session that takes back nothing of what is known.
LEMMA FrameIds ==
    ASSUME NEW w \in Sessions, SessionIds(w),
           \A i, f : Known(i, f) => Known(i, f)',
           notes'[w] = notes[w], pending'[w] = pending[w], nextId'[w] = nextId[w],
           work'[w] = work[w], pc'[w] = pc[w],
           pc[w] \in Critical => main' = main /\ stored' = stored
    PROVE  SessionIds(w)'
<1>1. CopiesKnown(w)'
  BY DEF SessionIds, CopiesKnown
<1>2. EditsKnown(w)'
  BY DEF SessionIds, EditsKnown
<1>3. MergeKnown(w)'
  BY DEF SessionIds, MergeKnown, Critical, SafeNextId
<1>4. WrittenKnown(w)' /\ NotesKept(w)'
  BY DEF SessionIds, WrittenKnown, NotesKept, Spares, Critical
<1>5. QED
  BY <1>1, <1>2, <1>3, <1>4 DEF SessionIds

\* What is known depends on the file alone.
LEMMA SameFileKnows ==
    ASSUME main' = main, stored' = stored
    PROVE  \A i, f : Known(i, f)' <=> Known(i, f)
  BY DEF Known, SafeNextId

\* A note that is in the file is known.
LEMMA StoredKnown ==
    ASSUME TypeInv, NotesInv, FileIsStored, NEW m \in stored
    PROVE  Known(m.id, m.first)
<1>1. m.id \in Nat /\ m.id < SafeNextId(main)
  <2>1. main \in File /\ IdsBounded(main.notes) /\ m \in main.notes
    BY DEF TypeInv, TypeOK, Bounds, FileIsStored
  <2>2. QED
    BY <2>1, SafeNextIdType DEF File, Note
<1>2. \A n \in stored : n.id = m.id => n = m
  BY DEF NotesInv, Sound, FileIsStored
<1>3. QED
  BY <1>1, <1>2 DEF Known

\* With no addition under way a session's copies are known.
LEMMA NoAddKnows ==
    ASSUME NEW s \in Sessions, CopiesKnown(s), \A c \in pending[s] : c.kind # "add"
    PROVE  \A m \in notes[s] : Known(m.id, m.first)
BY DEF CopiesKnown

LEMMA AskIds ==
    ASSUME TypeInv, NotesInv, AddsCarried, IdInv, NEW s \in Sessions, Ask(s)
    PROVE  /\ main' = main /\ stored' = stored
           /\ \A w \in Sessions : SessionIds(w)'
<1>1. /\ pending \in [Sessions -> SUBSET Change] /\ notes \in [Sessions -> SUBSET Note]
      /\ pc \in [Sessions -> {"off", "idle"} \union InSave]
      /\ nextId \in [Sessions -> Nat] /\ work \in [Sessions -> Merge]
  BY DEF TypeInv, TypeOK
<1>2. /\ pc[s] \in {"off", "idle"} /\ pc'[s] \in {"idle", "waiting"}
      /\ main' = main /\ stored' = stored /\ work' = work
  BY <1>1 DEF Ask, Open, Save, Forget, Update, SetActive, Edit, DeleteAll, Flush, GoTo,
     diskVars
<1>3. \A w \in Sessions \ {s} : /\ pc'[w] = pc[w] /\ nextId'[w] = nextId[w]
                                /\ notes'[w] = notes[w] /\ pending'[w] = pending[w]
  BY <1>1 DEF Ask, Open, Save, Forget, Update, SetActive, Edit, DeleteAll, Flush, GoTo
<1>4. \A i, f : Known(i, f)' <=> Known(i, f)
  BY <1>2, SameFileKnows
<1>5. \A w \in Sessions \ {s} : SessionIds(w)'
  BY <1>2, <1>3, <1>4, FrameIds DEF IdInv
<1>6. \A c \in pending[s] : c.kind # "add"
  BY <1>2 DEF AddsCarried, Carried, InSave, Critical
<1>7. \A m \in notes[s] : Known(m.id, m.first)
  BY <1>6, NoAddKnows DEF IdInv, SessionIds
<1>8. EditsKnown(s) /\ Below(notes[s], nextId[s])
  BY DEF IdInv, SessionIds, NotesInv
<1>9. SUFFICES CopiesKnown(s)' /\ EditsKnown(s)'
  BY <1>2, <1>5 DEF SessionIds, MergeKnown, WrittenKnown, NotesKept
<1>10. CASE Open(s)
  <2>1. notes'[s] = stored /\ pending'[s] = {}
    BY <1>1, <1>10 DEF Open, Best, IdInv, FileIsStored
  <2>2. \A m \in stored : Known(m.id, m.first)
    BY StoredKnown DEF IdInv
  <2>3. QED
    BY <1>4, <2>1, <2>2 DEF CopiesKnown, EditsKnown
<1>11. ASSUME NEW t \in Texts, Save(s, t)
       PROVE  CopiesKnown(s)' /\ EditsKnown(s)'
  <2> DEFINE note == [id |-> nextId[s], text |-> t, active |-> TRUE, first |-> t]
             add == [kind |-> "add", at |-> NextAt(pending[s]), id |-> nextId[s],
                     text |-> t, active |-> TRUE, of |-> t]
  <2>1. /\ notes'[s] = notes[s] \union {note} /\ pending'[s] = pending[s] \union {add}
        /\ nextId'[s] = nextId[s] + 1
    BY <1>1, <1>11 DEF Save
  <2>2. note.id = nextId[s] /\ add.id = nextId[s] /\ add.kind = "add"
    OBVIOUS
  <2> HIDE DEF note, add
  <2>3. CopiesKnown(s)'
    BY <1>4, <1>7, <2>1, <2>2 DEF CopiesKnown
  <2>4. ASSUME NEW d \in pending'[s], d.kind \in Edits
        PROVE  /\ Editing /\ Known(d.id, d.of)' /\ d.id < nextId'[s]
               /\ \A c \in pending'[s] : c.kind = "add" => d.id # c.id
    <3>1. d \in pending[s]
      BY <2>1, <2>2, <2>4 DEF Edits
    <3>2. Editing /\ Known(d.id, d.of) /\ d.id < nextId[s]
      BY <1>8, <2>4, <3>1 DEF EditsKnown
    <3>3. d.id \in Nat /\ nextId[s] \in Nat
      BY <1>1, <3>1 DEF Change
    <3>4. \A c \in pending'[s] : c.kind = "add" => c.id = nextId[s]
      BY <1>6, <2>1, <2>2
    <3>5. QED
      BY <1>4, <2>1, <3>2, <3>3, <3>4
  <2>5. QED
    BY <2>3, <2>4 DEF EditsKnown
<1>12. ASSUME NEW n \in notes[s], Forget(s, n)
       PROVE  CopiesKnown(s)' /\ EditsKnown(s)'
  <2>1. /\ notes'[s] = notes[s] \ {n} /\ pending'[s] = JournalAfterDelete(pending[s], n)
        /\ nextId'[s] = nextId[s]
    BY <1>1, <1>12 DEF Forget
  <2>2. \A c \in pending'[s] : c \in pending[s] \/ c.kind = "delete"
    BY <2>1 DEF JournalAfterDelete
  <2>3. QED
    BY <1>4, <1>6, <1>7, <1>8, <2>1, <2>2 DEF CopiesKnown, EditsKnown, Edits
<1>13. ASSUME NEW kind \in Edits, NEW n, NEW t, NEW b, Edit(s, kind, n, t, b)
       PROVE  CopiesKnown(s)' /\ EditsKnown(s)'
  <2> DEFINE new == [n EXCEPT !.text = t, !.active = b]
             change == [kind |-> kind, at |-> NextAt(pending[s]), id |-> n.id,
                        text |-> t, active |-> b, of |-> n.first]
  <2>1. /\ n \in notes[s] /\ Editing /\ notes'[s] = (notes[s] \ {n}) \union {new}
        /\ pending'[s] = pending[s] \union {change} /\ nextId'[s] = nextId[s]
    BY <1>1, <1>13 DEF Edit
  <2>2. new.id = n.id /\ new.first = n.first /\ n.id < nextId[s]
    BY <1>1, <1>8, <2>1 DEF Note, Below
  <2>3. change.kind = kind /\ change.id = n.id /\ change.of = n.first
    OBVIOUS
  <2> HIDE DEF new, change
  <2>4. CopiesKnown(s)'
    BY <1>4, <1>7, <2>1, <2>2 DEF CopiesKnown
  <2>5. \A c \in pending'[s] : c.kind # "add"
    BY <1>6, <2>1, <2>3 DEF Edits
  <2>6. EditsKnown(s)'
    BY <1>4, <1>7, <1>8, <2>1, <2>2, <2>3, <2>5 DEF EditsKnown
  <2>7. QED
    BY <2>4, <2>6
<1>14. CASE DeleteAll(s)
  <2>1. /\ notes'[s] = {} /\ nextId'[s] = nextId[s]
        /\ \A c \in pending'[s] : c \in pending[s] \/ c.kind = "delete"
    BY <1>1, <1>14 DEF DeleteAll
  <2>2. QED
    BY <1>4, <1>6, <1>8, <2>1 DEF CopiesKnown, EditsKnown, Edits
<1>15. CASE Flush(s)
  <2>1. UNCHANGED <<notes, pending, nextId>>
    BY <1>15 DEF Flush
  <2>2. QED
    BY <1>4, <1>7, <1>8, <2>1 DEF CopiesKnown, EditsKnown
<1>16. QED
  BY <1>10, <1>11, <1>12, <1>13, <1>14, <1>15 DEF Ask, Update, SetActive, Edits

\* What the tool takes back is what it added.
LEMMA UndoIds ==
    ASSUME TypeInv, NotesInv, AddsCarried, IdInv, NEW s \in Sessions,
           NEW ns, NEW journal, Undo(s, ns, journal),
           \/ ns = notes[s] /\ journal = pending[s]
           \/ (\A m \in ns : Known(m.id, m.first)) /\ journal = {},
           \A i, f : Known(i, f)' <=> Known(i, f), nextId'[s] = nextId[s] \/ journal = {}
    PROVE  CopiesKnown(s)' /\ EditsKnown(s)'
<1>1. /\ pending \in [Sessions -> SUBSET Change] /\ notes \in [Sessions -> SUBSET Note]
      /\ nextId \in [Sessions -> Nat]
  BY DEF TypeInv, TypeOK
<1> DEFINE mine == {n \in ns : /\ call[s].op = "save"
                               /\ n.id = call[s].id
                               /\ {n.text} = call[s].text}
           rest == IF mine = {} THEN journal
                   ELSE JournalAfterDelete(journal, CHOOSE n \in mine : TRUE)
<1>2. notes'[s] = ns \ mine /\ pending'[s] = rest
  BY <1>1 DEF Undo
<1>3. \A c \in rest : c \in journal \/ c.kind = "delete"
  BY DEF JournalAfterDelete
<1>4. \A m \in ns \ mine : Known(m.id, m.first)
  <2>1. SUFFICES ASSUME ns = notes[s], journal = pending[s], NEW m \in ns \ mine
                 PROVE  Known(m.id, m.first)
    OBVIOUS
  <2>2. ASSUME NEW c \in pending[s], c.kind = "add", c.id = m.id PROVE FALSE
    <3>1. PICK n \in notes[s] : n.id = c.id /\ {n.text} = call[s].text
      BY <2>2 DEF AddsCarried, Carried
    <3>2. call[s].op = "save" /\ c.id = call[s].id
      BY <2>2 DEF AddsCarried, Carried
    <3>3. n = m
      BY <2>1, <2>2, <3>1 DEF NotesInv, Sound
    <3>4. QED
      BY <2>1, <2>2, <3>1, <3>2, <3>3
  <2>3. QED
    BY <2>1, <2>2 DEF IdInv, SessionIds, CopiesKnown
<1>5. \A c \in pending'[s] : c.kind # "add"
  BY UndoneAdds
<1> HIDE DEF mine, rest
<1>6. CopiesKnown(s)'
  BY <1>2, <1>4 DEF CopiesKnown
<1>7. \A d \in pending'[s] : d.kind \in Edits => d \in pending[s] /\ nextId'[s] = nextId[s]
  BY <1>2, <1>3 DEF Edits
<1>8. EditsKnown(s)
  BY DEF IdInv, SessionIds
<1>9. EditsKnown(s)'
  BY <1>5, <1>7, <1>8 DEF EditsKnown
<1>10. QED
  BY <1>6, <1>9

\* Writing memory.json gives no id a second time.
LEMMA WriteKnows ==
    ASSUME TypeInv, IdInv, NEW s \in Sessions, WriteMain(s)
    PROVE  \A i, f : Known(i, f) => Known(i, f)'
<1>1. /\ main \in File /\ IdsBounded(main.notes) /\ work[s] \in Merge
      /\ IdsBounded(work[s].notes) /\ pc[s] = "replaying"
      /\ main' = Merged(s) /\ stored' = work[s].notes
  BY DEF TypeInv, TypeOK, Bounds, WriteMain, GoTo
<1>2. main' \in File /\ main'.next = work[s].next /\ main'.notes = work[s].notes
  BY <1>1 DEF Merged, File, Merge
<1>3. SafeNextId(main') \in Nat /\ SafeNextId(main') >= work[s].next
  BY <1>1, <1>2, SafeNextIdType
<1>4. SafeNextId(main) \in Nat /\ work[s].next \in Nat
  BY <1>1, SafeNextIdType DEF Merge
<1>5. SafeNextId(main)' = SafeNextId(main')
  BY DEF SafeNextId
<1>6. MergeKnown(s)
  BY DEF IdInv, SessionIds
<1>7. SafeNextId(main') >= SafeNextId(main)
  BY <1>1, <1>3, <1>4, <1>6 DEF MergeKnown
<1>8. ASSUME NEW i, NEW f, Editing, Known(i, f)
      PROVE  i \in Nat /\ i < SafeNextId(main') /\ \A n \in stored' : n.id = i => n.first = f
  <2>1. i \in Nat /\ i < SafeNextId(main) /\ \A n \in stored : n.id = i => n.first = f
    BY <1>8 DEF Known
  <2>2. i < SafeNextId(main')
    BY <1>3, <1>4, <1>7, <2>1
  <2>3. ASSUME NEW n \in work[s].notes, n.id = i PROVE n.first = f
    <3>1. PICK m \in stored : m.id = n.id /\ m.first = n.first
      BY <1>1, <1>6, <2>1, <2>3 DEF MergeKnown
    <3>2. QED
      BY <2>1, <2>3, <3>1
  <2>4. QED
    BY <1>1, <2>1, <2>2, <2>3
<1>9. QED
  BY <1>5, <1>8 DEF Known

\* A change to a note is replayed onto the note of that id, and no journal both
\* adds a note and edits it.
LEMMA EditsFollowTheirId ==
    ASSUME NEW s \in Sessions, MergeKnown(s), EditsKnown(s), pc[s] = "replaying",
           NEW c \in work[s].todo, c.kind \in Edits
    PROVE  Follow(work[s], c.id) = c.id
  BY DEF MergeKnown, EditsKnown, Follow

LEMMA ReplayIds ==
    ASSUME TypeInv, IdInv, NEW s \in Sessions, ReplayOne(s)
    PROVE  MergeKnown(s)' /\ NotesKept(s)'
<1>1. PICK c \in work[s].todo : work' = [work EXCEPT ![s] = Replay(work[s], c)]
  BY DEF ReplayOne
<1>2. /\ pc[s] = "replaying" /\ UNCHANGED <<main, stored, pending, pc>>
      /\ work[s] \in Merge /\ IdsBounded(work[s].notes) /\ work'[s] = Replay(work[s], c)
      /\ main \in File /\ IdsBounded(main.notes)
  BY <1>1 DEF TypeInv, TypeOK, Bounds, ReplayOne, diskVars, sessionVars
<1> DEFINE w == work[s]
           v == Replay(work[s], c)
<1>3. /\ w.todo \subseteq pending[s] /\ w.next >= SafeNextId(main)
      /\ \A n \in w.notes :
            n.id < SafeNextId(main) => \E m \in stored : m.id = n.id /\ m.first = n.first
      /\ \A p \in w.renamed : \E d \in pending[s] : d.kind = "add" /\ d.id = p[1]
  BY <1>2 DEF IdInv, SessionIds, MergeKnown
<1>4. w \in Merge /\ c \in w.todo /\ IdsBounded(w.notes)
  BY <1>2
<1>5. v.todo = w.todo \ {c}
  BY <1>4, ReplayEffect, Zenon
<1>6. /\ v.next \in {w.next, w.next + 1}
      /\ \A n \in v.notes :
            n.id = w.next \/ \E m \in w.notes : m.id = n.id /\ m.first = n.first
      /\ \A p \in v.renamed : p \in w.renamed \/ (c.kind = "add" /\ p[1] = c.id)
  BY <1>4, ReplayOrigin, Zenon
<1>7. w.next \in Nat /\ SafeNextId(main) \in Nat
  BY <1>2, SafeNextIdType DEF Merge
<1>8. c \in pending[s]
  BY <1>3
<1>9. \A n \in stored :
         (\A d \in pending[s] \ v.todo : Spares(d, n)) => n \in v.notes
  <2>1. SUFFICES ASSUME NEW n \in stored, \A d \in pending[s] \ v.todo : Spares(d, n)
                 PROVE  n \in v.notes
    OBVIOUS
  <2>2. Spares(c, n) /\ \A d \in pending[s] \ w.todo : Spares(d, n)
    BY <1>5, <1>8, <2>1
  <2>3. n \in w.notes
    BY <1>2, <2>2 DEF IdInv, SessionIds, NotesKept
  <2>4. c.kind \in Edits => Follow(w, c.id) # n.id
    <3>1. SUFFICES ASSUME c.kind \in Edits PROVE c.id # n.id
      BY <1>2, EditsFollowTheirId DEF IdInv, SessionIds
    <3>2. Editing /\ Known(c.id, c.of)
      BY <1>8, <3>1 DEF IdInv, SessionIds, EditsKnown
    <3>3. c.id = n.id => c.of = n.first
      BY <3>2 DEF Known
    <3>4. QED
      BY <2>2, <3>1, <3>3 DEF Spares
  <2>5. c.kind = "delete" => c.text # n.text
    BY <2>2 DEF Spares
  <2>6. QED
    BY <1>4, <2>3, <2>4, <2>5, ReplayKeeps, Zenon
<1> HIDE DEF w, v
<1>10. work'[s] = v /\ SafeNextId(main)' = SafeNextId(main)
  BY <1>2 DEF v, SafeNextId
<1>11. v.next >= SafeNextId(main)
  BY <1>3, <1>6, <1>7
<1>12. ASSUME NEW n \in v.notes, n.id < SafeNextId(main)
       PROVE  \E m \in stored : m.id = n.id /\ m.first = n.first
  <2>1. n.id # w.next
    BY <1>3, <1>7, <1>12
  <2>2. PICK m \in w.notes : m.id = n.id /\ m.first = n.first
    BY <1>6, <2>1
  <2>3. QED
    BY <1>3, <1>12, <2>2
<1>13. \A p \in v.renamed : \E d \in pending[s] : d.kind = "add" /\ d.id = p[1]
  BY <1>3, <1>6, <1>8
<1>14. MergeKnown(s)'
  BY <1>2, <1>3, <1>5, <1>10, <1>11, <1>12, <1>13 DEF MergeKnown
<1>15. NotesKept(s)'
  BY <1>2, <1>9, <1>10 DEF NotesKept, Spares
<1>16. QED
  BY <1>14, <1>15

LEMMA SaveStepIds ==
    ASSUME TypeInv, NotesInv, AddsCarried, Excludes, IdInv, NEW s \in Sessions, SaveStep(s)
    PROVE  FileIsStored' /\ \A w \in Sessions : SessionIds(w)'
<1>1. /\ pc \in [Sessions -> {"off", "idle"} \union InSave] /\ work \in [Sessions -> Merge]
      /\ pending \in [Sessions -> SUBSET Change] /\ notes \in [Sessions -> SUBSET Note]
      /\ nextId \in [Sessions -> Nat]
  BY DEF TypeInv, TypeOK
<1>2. SessionIds(s) /\ FileIsStored
  BY DEF IdInv
<1>3. \A w \in Sessions \ {s} : notes'[w] = notes[w]
  BY <1>1 DEF SaveStep, Acquire, JudgeStale, BreakLock, LockRefused, ReadBase, ReplayOne,
     WriteMain, WriteBackup, BackupFails, Finish, SaveFails, Undo, sessionVars
<1>4. ASSUME \A i, f : Known(i, f) => Known(i, f)',
             \A w \in Sessions \ {s} : pc[w] \in Critical => main' = main /\ stored' = stored,
             FileIsStored', SessionIds(s)'
      PROVE  FileIsStored' /\ \A w \in Sessions : SessionIds(w)'
  <2>1. ASSUME NEW w \in Sessions \ {s} PROVE SessionIds(w)'
    BY <1>3, <1>4, OthersKept, FrameIds DEF IdInv
  <2>2. QED
    BY <1>4, <2>1
<1>5. CASE WriteMain(s)
  <2>1. \A i, f : Known(i, f) => Known(i, f)'
    BY <1>5, WriteKnows
  <2>2. \A w \in Sessions \ {s} : pc[w] \notin Critical
    BY <1>5 DEF WriteMain, GoTo, Excludes, Critical
  <2>3. FileIsStored'
    BY <1>5 DEF WriteMain, Merged, FileIsStored
  <2>4. UNCHANGED <<notes, pending, nextId, work>> /\ pc'[s] = "written"
        /\ stored' = work[s].notes
    BY <1>1, <1>5 DEF WriteMain, GoTo, sessionVars
  <2>5. CopiesKnown(s)' /\ EditsKnown(s)'
    BY <1>2, <2>1, <2>4 DEF SessionIds, CopiesKnown, EditsKnown
  <2>6. MergeKnown(s)' /\ WrittenKnown(s)' /\ NotesKept(s)'
    BY <2>4 DEF MergeKnown, WrittenKnown, NotesKept
  <2>7. QED
    BY <1>4, <2>1, <2>2, <2>3, <2>5, <2>6 DEF SessionIds
<1>6. CASE ~ WriteMain(s)
  <2>1. main' = main /\ stored' = stored
    BY <1>2, <1>6 DEF SaveStep, Acquire, JudgeStale, BreakLock, LockRefused, ReadBase,
       ReplayOne, WriteBackup, BackupFails, Finish, SaveFails, diskVars, FileIsStored
  <2>2. (\A i, f : Known(i, f)' <=> Known(i, f)) /\ FileIsStored'
    BY <1>2, <2>1, SameFileKnows DEF FileIsStored
  <2>3. SUFFICES SessionIds(s)'
    BY <1>4, <2>1, <2>2
  <2>4. ASSUME UNCHANGED <<notes, pending, nextId>> PROVE CopiesKnown(s)' /\ EditsKnown(s)'
    BY <1>2, <2>2, <2>4 DEF SessionIds, CopiesKnown, EditsKnown
  <2>5. CASE Acquire(s) \/ JudgeStale(s) \/ BreakLock(s)
    <3>1. pc'[s] \in {"locked", "breaking", "waiting"} /\ UNCHANGED sessionVars
      BY <1>1, <2>5 DEF Acquire, JudgeStale, BreakLock, GoTo
    <3>2. QED
      BY <2>4, <3>1 DEF SessionIds, MergeKnown, WrittenKnown, NotesKept, sessionVars
  <2>6. CASE LockRefused(s) \/ SaveFails(s)
    <3>1. Undo(s, notes[s], pending[s]) /\ pc'[s] = "idle" /\ nextId'[s] = nextId[s]
      BY <1>1, <2>6 DEF LockRefused, SaveFails, Done
    <3>2. CopiesKnown(s)' /\ EditsKnown(s)'
      BY <2>2, <3>1, UndoIds
    <3>3. QED
      BY <3>1, <3>2 DEF SessionIds, MergeKnown, WrittenKnown, NotesKept
  <2>7. CASE ReadBase(s)
    <3>1. /\ UNCHANGED sessionVars /\ pc'[s] = "replaying"
          /\ work'[s] = [next |-> SafeNextId(main), notes |-> stored, todo |-> pending[s],
                         renamed |-> {}, rejected |-> FALSE]
      BY <1>1, <1>2, <2>7 DEF ReadBase, GoTo, Best, FileIsStored
    <3>2. SafeNextId(main) \in Nat /\ SafeNextId(main)' = SafeNextId(main)
      <4>1. main \in File /\ IdsBounded(main.notes)
        BY DEF TypeInv, TypeOK, Bounds
      <4>2. QED
        BY <2>1, <4>1, SafeNextIdType DEF SafeNextId
    <3>3. MergeKnown(s)'
      BY <2>1, <3>1, <3>2 DEF MergeKnown, sessionVars
    <3>4. WrittenKnown(s)' /\ NotesKept(s)'
      BY <2>1, <3>1 DEF WrittenKnown, NotesKept
    <3>5. QED
      BY <2>4, <3>1, <3>3, <3>4 DEF SessionIds, sessionVars
  <2>8. CASE ReplayOne(s)
    <3>1. UNCHANGED sessionVars /\ pc'[s] = "replaying"
      BY <2>8 DEF ReplayOne
    <3>2. WrittenKnown(s)'
      BY <3>1 DEF WrittenKnown
    <3>3. QED
      BY <2>4, <2>8, <3>1, <3>2, ReplayIds DEF SessionIds, sessionVars
  <2>9. CASE WriteBackup(s) \/ BackupFails(s)
    <3>1. /\ UNCHANGED sessionVars /\ pc[s] = "written" /\ pc'[s] = "backed"
          /\ work' = work
      BY <1>1, <2>9 DEF WriteBackup, BackupFails, GoTo
    <3>2. WrittenKnown(s)' /\ MergeKnown(s)' /\ NotesKept(s)'
      BY <1>2, <2>1, <3>1 DEF SessionIds, WrittenKnown, MergeKnown, NotesKept
    <3>3. QED
      BY <2>4, <3>1, <3>2 DEF SessionIds, sessionVars
  <2>10. CASE Finish(s)
    <3>1. pc[s] = "backed" /\ pc'[s] = "idle"
      BY <1>1, <2>10 DEF Finish, Done
    <3>2. work[s].notes = stored
      BY <1>2, <3>1 DEF SessionIds, WrittenKnown
    <3>3. \A m \in work[s].notes : Known(m.id, m.first)
      BY <3>2, StoredKnown, <1>2
    <3>4. CASE work[s].rejected
      <4>1. Undo(s, work[s].notes, {})
        BY <2>10, <3>4 DEF Finish
      <4>2. CopiesKnown(s)' /\ EditsKnown(s)'
        BY <2>2, <3>3, <4>1, UndoIds
      <4>3. QED
        BY <3>1, <4>2 DEF SessionIds, MergeKnown, WrittenKnown, NotesKept
    <3>5. CASE ~ work[s].rejected
      <4>1. notes'[s] = work[s].notes /\ pending'[s] = {}
        BY <1>1, <2>10, <3>5 DEF Finish
      <4>2. CopiesKnown(s)' /\ EditsKnown(s)'
        BY <2>2, <3>3, <4>1 DEF CopiesKnown, EditsKnown
      <4>3. QED
        BY <3>1, <4>2 DEF SessionIds, MergeKnown, WrittenKnown, NotesKept
    <3>6. QED
      BY <3>4, <3>5
  <2>11. QED
    BY <1>6, <2>5, <2>6, <2>7, <2>8, <2>9, <2>10 DEF SaveStep
<1>7. QED
  BY <1>5, <1>6

LEMMA OutsideIds ==
    ASSUME TypeInv, IdInv, DamageAt = {},
           LockAges \/ Damage \/ Wipe \/ UNCHANGED vars
             \/ \E s \in Sessions : Quit(s) \/ Crash(s)
    PROVE  FileIsStored' /\ \A w \in Sessions : SessionIds(w)'
<1>1. ~ Damage
  BY DEF Damage
<1>2. CASE LockAges \/ UNCHANGED vars
  <2>1. UNCHANGED <<main, stored, notes, pending, nextId, work, pc>>
    BY <1>2 DEF LockAges, vars, diskVars, sessionVars
  <2>2. QED
    BY <2>1, SameFileKnows, FrameIds DEF IdInv, FileIsStored
<1>3. CASE Wipe
  <2>1. ~ Editing
    BY <1>3 DEF Wipe, Spend, IdInv, NoWipeLeft
  <2>2. \A i, f : Known(i, f)'
    BY <2>1 DEF Known
  <2>3. \A w \in Sessions : pc[w] \notin Critical
    BY <1>3 DEF Wipe, NoSaveUnderWay
  <2>4. FileIsStored' /\ UNCHANGED <<notes, pending, nextId, work, pc>>
    BY <1>3 DEF Wipe, FileIsStored, NoFile, sessionVars
  <2>5. QED
    BY <2>2, <2>3, <2>4, FrameIds DEF IdInv
<1>4. ASSUME NEW s \in Sessions, Quit(s) \/ Crash(s)
      PROVE  FileIsStored' /\ \A w \in Sessions : SessionIds(w)'
  <2>1. /\ main' = main /\ stored' = stored
        /\ pc'[s] = "off" /\ notes'[s] = {} /\ pending'[s] = {}
        /\ \A w \in Sessions \ {s} :
              /\ notes'[w] = notes[w] /\ pending'[w] = pending[w] /\ nextId'[w] = nextId[w]
              /\ work'[w] = work[w] /\ pc'[w] = pc[w]
    BY <1>4 DEF Quit, Crash, Gone, TypeInv, TypeOK, diskVars
  <2>2. \A i, f : Known(i, f)' <=> Known(i, f)
    BY <2>1, SameFileKnows
  <2>3. \A w \in Sessions \ {s} : SessionIds(w)'
    BY <2>1, <2>2, FrameIds DEF IdInv
  <2>4. SessionIds(s)'
    BY <2>1 DEF SessionIds, CopiesKnown, EditsKnown, MergeKnown, WrittenKnown, NotesKept
  <2>5. QED
    BY <2>1, <2>3, <2>4 DEF IdInv, FileIsStored
<1>5. QED
  BY <1>1, <1>2, <1>3, <1>4

LEMMA NoMoreWipes ==
    ASSUME TypeOK, left["wipe"] = 0, [Next]_vars
    PROVE  left'["wipe"] = 0
<1>1. left' = left \/ \E what \in Bounded : Spend(what)
  BY OnlySpent
<1>2. ASSUME NEW what \in Bounded, Spend(what)
      PROVE  left'["wipe"] = 0
  BY <1>2 DEF Spend, TypeOK, Bounded
<1>3. QED
  BY <1>1, <1>2

LEMMA OnlyWriteMainWrites ==
    ASSUME TypeInv, [Next]_vars, NEW s \in Sessions, pc[s] = "replaying", pc'[s] = "written"
    PROVE  WriteMain(s)
<1>1. pc \in [Sessions -> {"off", "idle"} \union InSave]
  BY DEF TypeInv, TypeOK
<1>2. ASSUME NEW w \in Sessions, Ask(w) PROVE FALSE
  BY <1>1, <1>2 DEF Ask, Open, Save, Forget, Update, SetActive, Edit, DeleteAll, Flush, GoTo
<1>3. ASSUME NEW w \in Sessions, SaveStep(w) PROVE WriteMain(s)
  BY <1>1, <1>3 DEF SaveStep, Acquire, JudgeStale, BreakLock, LockRefused, ReadBase,
     ReplayOne, WriteMain, WriteBackup, BackupFails, SaveFails, Finish, GoTo, Done
<1>4. ASSUME NEW w \in Sessions, Quit(w) \/ Crash(w) PROVE FALSE
  BY <1>1, <1>4 DEF Quit, Crash, Gone
<1>5. ~ (LockAges \/ Damage \/ Wipe \/ UNCHANGED vars)
  BY DEF LockAges, Damage, Wipe, vars
<1>6. QED
  BY <1>2, <1>3, <1>4, <1>5 DEF Next

\* A save writes back, as it was, every note its session had nothing to say
\* about, whatever the other sessions have written since it read the file.  Where
\* facts are edited it needs memory.json to stay: once it is removed the ids start
\* again, and an edit made before goes to whichever note has the id now.
THEOREM OthersNotesStay ==
    ASSUME ~ SlowHolder, ~ TwoBreakers, DamageAt = {}, Editing => Limits["wipe"] = 0
    PROVE  Spec => UntouchedStays
<1>1. Init => IdInv
  BY DEF Init, IdInv, NoWipeLeft, FileIsStored, NoFile, SessionIds, CopiesKnown, EditsKnown,
     MergeKnown, WrittenKnown, NotesKept
<1>2. TypeInv /\ NotesInv /\ AddsCarried /\ LockInv /\ IdInv /\ [Next]_vars => IdInv'
  <2>1. SUFFICES ASSUME TypeInv, NotesInv, AddsCarried, LockInv, IdInv, [Next]_vars
                 PROVE  IdInv'
    OBVIOUS
  <2>2. NoWipeLeft'
    BY <2>1, NoMoreWipes DEF IdInv, NoWipeLeft, TypeInv
  <2>3. FileIsStored' /\ \A w \in Sessions : SessionIds(w)'
    <3>1. ASSUME NEW s \in Sessions, Ask(s)
          PROVE  FileIsStored' /\ \A w \in Sessions : SessionIds(w)'
      BY <2>1, <3>1, AskIds DEF IdInv, FileIsStored
    <3>2. ASSUME NEW s \in Sessions, SaveStep(s)
          PROVE  FileIsStored' /\ \A w \in Sessions : SessionIds(w)'
      BY <2>1, <3>2, SaveStepIds, LockExcludes
    <3>3. QED
      BY <2>1, <3>1, <3>2, OutsideIds DEF Next
  <2>4. QED
    BY <2>2, <2>3 DEF IdInv
<1> DEFINE Stays(s) ==
      pc[s] = "replaying" /\ pc'[s] = "written" =>
         \A n \in stored : Untouched(s, n) => n \in main'.notes
<1>3. TypeInv /\ IdInv /\ [Next]_vars => [\A s \in Sessions : Stays(s)]_vars
  <2>1. SUFFICES ASSUME TypeInv, IdInv, [Next]_vars, NEW s \in Sessions,
                        pc[s] = "replaying", pc'[s] = "written",
                        NEW n \in stored, Untouched(s, n)
                 PROVE  n \in main'.notes
    OBVIOUS
  <2>2. main'.notes = work[s].notes
    BY <2>1, OnlyWriteMainWrites DEF WriteMain, Merged
  <2>3. n \in work[s].notes
    BY <2>1 DEF IdInv, SessionIds, NotesKept, Spares, Edits, Untouched
  <2>4. QED
    BY <2>2, <2>3
<1>4. QED
  BY <1>1, <1>2, <1>3, TypesHold, LockHolds, CopiesHold, PTL DEF Spec, UntouchedStays

=============================================================================
