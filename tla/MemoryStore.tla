---------------------------- MODULE MemoryStore ----------------------------
(***************************************************************************)
(* The assistant's long-term memory (crates/tacet-memory/src/store.rs) as  *)
(* several sessions, each a process of its own, use it through the         *)
(* `remember` tool (crates/tacet-tools/src/memory.rs).                     *)
(*                                                                         *)
(* A session keeps its own copy of the notes and a journal of the changes  *)
(* it has not saved.  `save` takes a lock file, reads memory.json again,   *)
(* replays the journal onto it, replaces memory.json, replaces the copy    *)
(* memory.json.bak, and adopts the merged notes.  Every file operation of  *)
(* `save` is an action, so that other sessions, a crash, a failed write or *)
(* a damaged file can come between any two.                                *)
(*                                                                         *)
(* A note's text, which the code compares after lower-casing, is a value   *)
(* of Texts; its keys, kind and date are left out, no step depends on      *)
(* them.  The Vec of notes is a set: no two of its notes have the same id  *)
(* or the same text (OneNotePerFact), so `find` finds at most one.  The    *)
(* journal, a Vec filtered by id in one place, is a set of changes         *)
(* numbered in order.                                                      *)
(***************************************************************************)
EXTENDS Naturals, FiniteSets, FiniteSetsExt

CONSTANTS
    Sessions,       \* the processes that share memory.json
    Texts,          \* the facts a note may state
    Nobody,         \* the owner of a lock whose process is gone
    Cap,            \* TOTAL_CAP, the most notes a store holds
    Editing,        \* whether update, set_active and delete_all are called
    SlowHolder,     \* whether a live process may hold the lock past LOCK_STALE
    TwoBreakers,    \* whether two waiters may judge one lock stale at once
    FailAt,         \* the file operations that may fail
    DamageAt,       \* what may be damaged from outside: a file, or next_id in it
    Limits          \* how often each bounded thing happens in a behaviour

Bounded == {"call", "crash", "fail", "damage", "wipe", "edit"}

ASSUME NobodyAssumption == Nobody \notin Sessions
ASSUME CapAssumption == Cap \in Nat \ {0}
ASSUME SwitchAssumption ==
    /\ Editing \in BOOLEAN /\ SlowHolder \in BOOLEAN /\ TwoBreakers \in BOOLEAN
    /\ FailAt \subseteq {"lock", "read", "main", "bak"}
    /\ DamageAt \subseteq {"main", "bak", "next"}
ASSUME LimitsAssumption == Limits \in [Bounded -> Nat]

VARIABLES
    main,       \* memory.json
    bak,        \* memory.json.bak
    lock,       \* memory.json.lock
    pc,         \* where each session is; "off" when its process is not running
    notes,      \* the session's notes
    nextId,     \* the session's next_id
    pending,    \* the session's journal
    call,       \* the tool call a session's save was made for
    work,       \* the merge in progress
    left,       \* what remains of Limits
    stored      \* history: the notes last written, {} once they are wiped or lost

diskVars == <<main, bak, stored>>
sessionVars == <<notes, nextId, pending, call>>
vars == <<main, bak, lock, pc, notes, nextId, pending, call, work, left, stored>>

-----------------------------------------------------------------------------
(* Types *)

\* `first` is not in the code: the text a note was added with, by which the
\* properties tell a note from a later one that has the same id.
Note == [id : Nat, text : Texts, active : BOOLEAN, first : Texts]

\* `of` is the `first` of the note a change is about.
Change == [kind : {"add", "delete", "update", "active"}, at : Nat, id : Nat,
           text : Texts, active : BOOLEAN, of : Texts]

File == [state : {"missing", "damaged", "good"}, next : Nat, notes : SUBSET Note]

NoFile == [state |-> "missing", next |-> 0, notes |-> {}]
DamagedFile == [state |-> "damaged", next |-> 0, notes |-> {}]

\* The lock file: newTo are the sessions that were already waiting when it was
\* created, the only ones whose LOCK_WAIT can end before the lock is stale.
Lock == [on : BOOLEAN, owner : Sessions \union {Nobody}, stale : BOOLEAN,
         newTo : SUBSET Sessions]

NoLock == [on |-> FALSE, owner |-> Nobody, stale |-> FALSE, newTo |-> {}]

Call == [op : {"none", "save", "forget", "flush"}, id : Nat, text : SUBSET Texts]

NoCall == [op |-> "none", id |-> 0, text |-> {}]

Merge == [next : Nat, notes : SUBSET Note, todo : SUBSET Change,
          renamed : SUBSET (Nat \X Nat), rejected : BOOLEAN]

NoMerge == [next |-> 0, notes |-> {}, todo |-> {}, renamed |-> {},
            rejected |-> FALSE]

Critical == {"locked", "replaying", "written", "backed"}

InSave == {"waiting", "breaking"} \union Critical

-----------------------------------------------------------------------------
(* The store's own operators *)

TextsOf(ns) == {n.text : n \in ns}

IsFull(ns) == Cardinality(ns) >= Cap

\* Variant: next_id is trusted.
SafeNextIdTrusting(f) == Max({f.next, 1})

\* The next id a file gives, pulled up above every id in it.
SafeNextId(f) == Max({f.next, 1} \union {n.id + 1 : n \in f.notes})

\* What is read when memory.json is opened, at start and in every save: a
\* missing file is an empty memory, a damaged one is replaced by the backup.
Best ==
    IF main.state # "damaged" THEN main
    ELSE IF bak.state = "good" THEN bak ELSE NoFile

\* What the session is told about the file it opened.
LoadProblem ==
    IF main.state # "damaged" THEN "none"
    ELSE IF bak.state = "good" THEN "recovered" ELSE "unreadable"

\* The place in the journal of a change recorded now.
NextAt(journal) == Max({0} \union {c.at : c \in journal}) + 1

\* `delete` of the session's note n: a note never saved leaves the journal,
\* any other is recorded as a delete of its id and its text.
JournalAfterDelete(journal, n) ==
    IF \E c \in journal : c.kind = "add" /\ c.id = n.id
    THEN {c \in journal : c.id # n.id}
    ELSE journal \union
           {[kind |-> "delete", at |-> NextAt(journal), id |-> n.id,
             text |-> n.text, active |-> n.active, of |-> n.first]}

\* The id on disk of a note added in this journal under a provisional id.
Follow(w, id) ==
    IF \E p \in w.renamed : p[1] = id
    THEN (CHOOSE p \in w.renamed : p[1] = id)[2] ELSE id

-----------------------------------------------------------------------------
(* `replay`: one change onto the notes read from disk *)

WithNote(w, c) ==
    [w EXCEPT !.notes = @ \union {[id |-> w.next, text |-> c.text,
                                  active |-> c.active, first |-> c.text]},
              !.next = @ + 1,
              !.renamed = {p \in @ : p[1] # c.id} \union {<<c.id, w.next>>}]

\* Variant: a note there is no room for is dropped without a word.
ReplayAddSilently(w, c) ==
    IF c.text \in TextsOf(w.notes) \/ IsFull(w.notes) THEN w ELSE WithNote(w, c)

ReplayAdd(w, c) ==
    IF c.text \in TextsOf(w.notes) THEN w
    ELSE IF IsFull(w.notes) THEN [w EXCEPT !.rejected = TRUE]
    ELSE WithNote(w, c)

\* The text decides: a note with the id and another text is left alone.
ReplayDelete(w, c) == [w EXCEPT !.notes = {n \in @ : n.text # c.text}]

ReplayUpdate(w, c) ==
    LET id == Follow(w, c.id) IN
    IF \E n \in w.notes : n.id # id /\ n.text = c.text THEN w
    ELSE [w EXCEPT !.notes =
            {IF n.id = id THEN [n EXCEPT !.text = c.text] ELSE n : n \in @}]

ReplayActive(w, c) ==
    [w EXCEPT !.notes =
        {IF n.id = Follow(w, c.id) THEN [n EXCEPT !.active = c.active] ELSE n :
            n \in @}]

Replay(w, c) ==
    [CASE c.kind = "add"    -> ReplayAdd(w, c)
       [] c.kind = "delete" -> ReplayDelete(w, c)
       [] c.kind = "update" -> ReplayUpdate(w, c)
       [] c.kind = "active" -> ReplayActive(w, c)
     EXCEPT !.todo = @ \ {c}]

-----------------------------------------------------------------------------
Init ==
    /\ main = NoFile
    /\ bak = NoFile
    /\ lock = NoLock
    /\ pc = [s \in Sessions |-> "off"]
    /\ notes = [s \in Sessions |-> {}]
    /\ nextId = [s \in Sessions |-> 1]
    /\ pending = [s \in Sessions |-> {}]
    /\ call = [s \in Sessions |-> NoCall]
    /\ work = [s \in Sessions |-> NoMerge]
    /\ left = Limits
    /\ stored = {}

Spend(what) ==
    /\ left[what] > 0
    /\ left' = [left EXCEPT ![what] = @ - 1]

GoTo(s, from, to) ==
    /\ pc[s] = from
    /\ pc' = [pc EXCEPT ![s] = to]

-----------------------------------------------------------------------------
(* A session's calls *)

\* `from_file`.
Open(s) ==
    /\ GoTo(s, "off", "idle")
    /\ notes' = [notes EXCEPT ![s] = Best.notes]
    /\ nextId' = [nextId EXCEPT ![s] = SafeNextId(Best)]
    /\ pending' = [pending EXCEPT ![s] = {}]
    /\ UNCHANGED <<diskVars, lock, call, work, left>>

\* The tool's save: `add` the note, then `save` the store.  A full store and a
\* fact already known are refused before anything changes.
Save(s, t) ==
    /\ GoTo(s, "idle", "waiting")
    /\ Spend("call")
    /\ ~ IsFull(notes[s])
    /\ t \notin TextsOf(notes[s])
    /\ LET id == nextId[s] IN
       /\ notes' = [notes EXCEPT ![s] =
                      @ \union {[id |-> id, text |-> t, active |-> TRUE, first |-> t]}]
       /\ nextId' = [nextId EXCEPT ![s] = id + 1]
       /\ pending' = [pending EXCEPT ![s] =
                        @ \union {[kind |-> "add", at |-> NextAt(@), id |-> id,
                                   text |-> t, active |-> TRUE, of |-> t]}]
       /\ call' = [call EXCEPT ![s] = [op |-> "save", id |-> id, text |-> {t}]]
    /\ UNCHANGED <<diskVars, lock, work>>

\* The tool's forget, of a phrase that names one note; a phrase that names none
\* or several changes nothing.
Forget(s, n) ==
    /\ GoTo(s, "idle", "waiting")
    /\ Spend("call")
    /\ n \in notes[s]
    /\ notes' = [notes EXCEPT ![s] = @ \ {n}]
    /\ pending' = [pending EXCEPT ![s] = JournalAfterDelete(@, n)]
    /\ call' = [call EXCEPT ![s] = [op |-> "forget", id |-> n.id, text |-> {n.text}]]
    /\ UNCHANGED <<diskVars, lock, nextId, work>>

\* The store's own edits, which no tool calls: each is recorded and left for a
\* later save.
Edit(s, kind, n, t, b) ==
    /\ Editing
    /\ pc[s] = "idle"
    /\ Spend("edit")
    /\ n \in notes[s]
    /\ notes' = [notes EXCEPT ![s] =
                   (@ \ {n}) \union {[n EXCEPT !.text = t, !.active = b]}]
    /\ pending' = [pending EXCEPT ![s] =
                     @ \union {[kind |-> kind, at |-> NextAt(@), id |-> n.id,
                                text |-> t, active |-> b, of |-> n.first]}]
    /\ UNCHANGED <<diskVars, lock, pc, nextId, call, work>>

Update(s, n, t) ==
    /\ \A m \in notes[s] : m.id # n.id => m.text # t
    /\ Edit(s, "update", n, t, n.active)

SetActive(s, n, b) == Edit(s, "active", n, n.text, b)

\* One delete per note the session can see, in any order.
DeleteAll(s) ==
    /\ Editing
    /\ pc[s] = "idle"
    /\ Spend("edit")
    /\ notes' = [notes EXCEPT ![s] = {}]
    /\ pending' = [pending EXCEPT ![s] =
                     @ \union {[kind |-> "delete", at |-> NextAt(pending[s]),
                                id |-> n.id, text |-> n.text,
                                active |-> n.active, of |-> n.first] :
                                n \in notes[s]}]
    /\ UNCHANGED <<diskVars, lock, pc, nextId, call, work>>

\* `save` called for the edits alone.
Flush(s) ==
    /\ Editing
    /\ pending[s] # {}
    /\ GoTo(s, "idle", "waiting")
    /\ call' = [call EXCEPT ![s] = [NoCall EXCEPT !.op = "flush"]]
    /\ UNCHANGED <<diskVars, lock, notes, nextId, pending, work, left>>

-----------------------------------------------------------------------------
(* `FileLock`: memory.json.lock, created with create_new *)

Acquire(s) ==
    /\ GoTo(s, "waiting", "locked")
    /\ ~ lock.on
    /\ lock' = [on |-> TRUE, owner |-> s, stale |-> FALSE,
                newTo |-> {w \in Sessions \ {s} : pc[w] \in {"waiting", "breaking"}}]
    /\ UNCHANGED <<diskVars, sessionVars, work, left>>

\* The lock file's age passes LOCK_STALE.
LockAges ==
    /\ lock.on /\ ~ lock.stale
    /\ SlowHolder \/ lock.owner = Nobody
    /\ lock' = [lock EXCEPT !.stale = TRUE]
    /\ UNCHANGED <<diskVars, sessionVars, pc, work, left>>

\* Variant: a waiter that meets a dead lock gives up.
JudgeStaleGivesUp(s) ==
    /\ GoTo(s, "waiting", "idle")
    /\ lock.on /\ lock.stale
    /\ UNCHANGED <<diskVars, sessionVars, lock, work, left>>

JudgeStale(s) ==
    /\ GoTo(s, "waiting", "breaking")
    /\ lock.on /\ lock.stale
    /\ TwoBreakers \/ \A w \in Sessions : pc[w] # "breaking"
    /\ UNCHANGED <<diskVars, sessionVars, lock, work, left>>

\* Removes whatever lock file is there by now.
BreakLock(s) ==
    /\ GoTo(s, "breaking", "waiting")
    /\ lock' = NoLock
    /\ UNCHANGED <<diskVars, sessionVars, work, left>>

-----------------------------------------------------------------------------
(* The end of a save: the store's Err and what the tool does about it.  The *)
(* tool takes a failed save's note back, if it is the one it added; a       *)
(* failed forget stays in the journal.                                      *)

\* Variant: a note that could not be saved is kept for a later save.
UndoNothing(s, ns, journal) ==
    /\ notes' = [notes EXCEPT ![s] = ns]
    /\ pending' = [pending EXCEPT ![s] = journal]

Undo(s, ns, journal) ==
    LET mine == {n \in ns : /\ call[s].op = "save"
                            /\ n.id = call[s].id
                            /\ {n.text} = call[s].text} IN
    /\ notes' = [notes EXCEPT ![s] = ns \ mine]
    /\ pending' = [pending EXCEPT ![s] =
                     IF mine = {} THEN journal
                     ELSE JournalAfterDelete(journal, CHOOSE n \in mine : TRUE)]

Done(s) ==
    /\ pc' = [pc EXCEPT ![s] = "idle"]
    /\ call' = [call EXCEPT ![s] = NoCall]
    /\ work' = [work EXCEPT ![s] = NoMerge]

\* LOCK_WAIT has passed, or the lock file cannot be created at all.
LockRefused(s) ==
    /\ pc[s] = "waiting"
    /\ \/ lock.on /\ ~ lock.stale /\ s \in lock.newTo /\ UNCHANGED left
       \/ "lock" \in FailAt /\ Spend("fail")
    /\ Undo(s, notes[s], pending[s])
    /\ Done(s)
    /\ UNCHANGED <<diskVars, lock, nextId>>

\* The file cannot be read or moved aside, or the new one cannot be written.
SaveFails(s) ==
    /\ \/ pc[s] = "locked" /\ "read" \in FailAt
       \/ pc[s] = "replaying" /\ work[s].todo = {} /\ "main" \in FailAt
    /\ Spend("fail")
    /\ lock' = NoLock
    /\ Undo(s, notes[s], pending[s])
    /\ Done(s)
    /\ UNCHANGED <<diskVars, nextId>>

-----------------------------------------------------------------------------
(* `save` under the lock *)

\* Variant: the merge starts from the session's copy, not from the disk.
ReadBaseFromCopy(s) ==
    /\ GoTo(s, "locked", "replaying")
    /\ work' = [work EXCEPT ![s] =
                  [next |-> nextId[s], notes |-> notes[s],
                   todo |-> {}, renamed |-> {}, rejected |-> FALSE]]
    /\ UNCHANGED <<diskVars, sessionVars, lock, left>>

\* Reads the merge base; a damaged memory.json is moved aside first.
ReadBase(s) ==
    /\ GoTo(s, "locked", "replaying")
    /\ work' = [work EXCEPT ![s] =
                  [next |-> SafeNextId(Best), notes |-> Best.notes,
                   todo |-> pending[s], renamed |-> {}, rejected |-> FALSE]]
    /\ main' = IF main.state = "damaged" THEN NoFile ELSE main
    /\ UNCHANGED <<bak, stored, sessionVars, lock, left>>

ReplayOne(s) ==
    /\ pc[s] = "replaying"
    /\ \E c \in work[s].todo :
          /\ \A d \in work[s].todo : c.at <= d.at
          /\ work' = [work EXCEPT ![s] = Replay(@, c)]
    /\ UNCHANGED <<diskVars, sessionVars, lock, pc, left>>

Merged(s) == [state |-> "good", next |-> work[s].next, notes |-> work[s].notes]

WriteMain(s) ==
    /\ work[s].todo = {}
    /\ GoTo(s, "replaying", "written")
    /\ main' = Merged(s)
    /\ stored' = work[s].notes
    /\ UNCHANGED <<bak, sessionVars, lock, work, left>>

\* Variant: the backup is written once and not kept up to date.
WriteBackupOnce(s) ==
    /\ GoTo(s, "written", "backed")
    /\ bak' = IF bak.state = "good" THEN bak ELSE Merged(s)
    /\ UNCHANGED <<main, stored, sessionVars, lock, work, left>>

WriteBackup(s) ==
    /\ GoTo(s, "written", "backed")
    /\ bak' = Merged(s)
    /\ UNCHANGED <<main, stored, sessionVars, lock, work, left>>

\* The result of writing the backup is thrown away.
BackupFails(s) ==
    /\ GoTo(s, "written", "backed")
    /\ "bak" \in FailAt
    /\ Spend("fail")
    /\ UNCHANGED <<diskVars, sessionVars, lock, work>>

\* Adopts the merge and drops the lock: the file of that name, whoever's it is.
Finish(s) ==
    /\ pc[s] = "backed"
    /\ nextId' = [nextId EXCEPT ![s] = work[s].next]
    /\ IF work[s].rejected
       THEN Undo(s, work[s].notes, {})
       ELSE /\ notes' = [notes EXCEPT ![s] = work[s].notes]
            /\ pending' = [pending EXCEPT ![s] = {}]
    /\ Done(s)
    /\ lock' = NoLock
    /\ UNCHANGED <<diskVars, left>>

-----------------------------------------------------------------------------
(* The environment *)

\* The process ends, and with it everything it had not saved.
Gone(s) ==
    /\ pc' = [pc EXCEPT ![s] = "off"]
    /\ notes' = [notes EXCEPT ![s] = {}]
    /\ nextId' = [nextId EXCEPT ![s] = 1]
    /\ pending' = [pending EXCEPT ![s] = {}]
    /\ call' = [call EXCEPT ![s] = NoCall]
    /\ work' = [work EXCEPT ![s] = NoMerge]
    /\ lock' = IF lock.owner = s THEN [lock EXCEPT !.owner = Nobody] ELSE lock
    /\ UNCHANGED diskVars

Quit(s) == pc[s] = "idle" /\ Gone(s) /\ UNCHANGED left

Crash(s) == pc[s] \in InSave /\ Spend("crash") /\ Gone(s)

NoSaveUnderWay == \A s \in Sessions : pc[s] \notin Critical

\* A file is torn or broken by hand, while no save is at work on it.  With both
\* unreadable the notes are lost, and the opener is told so.
Damage ==
    /\ NoSaveUnderWay
    /\ Spend("damage")
    /\ \/ "main" \in DamageAt /\ main.state = "good" /\ main' = DamagedFile /\ bak' = bak
       \/ "bak" \in DamageAt /\ bak.state = "good" /\ bak' = DamagedFile /\ main' = main
       \/ /\ "next" \in DamageAt /\ main.state = "good"
          /\ main' = [main EXCEPT !.next = 0] /\ bak' = bak
    /\ stored' = IF main'.state = "damaged" /\ bak'.state # "good" THEN {} ELSE stored
    /\ UNCHANGED <<lock, pc, sessionVars, work>>

\* The user deletes memory.json to wipe the memory.
Wipe ==
    /\ NoSaveUnderWay
    /\ main.state # "missing"
    /\ Spend("wipe")
    /\ main' = NoFile
    /\ stored' = {}
    /\ UNCHANGED <<bak, lock, pc, sessionVars, work>>

-----------------------------------------------------------------------------
SaveStep(s) ==
    \/ Acquire(s) \/ JudgeStale(s) \/ BreakLock(s) \/ LockRefused(s)
    \/ ReadBase(s) \/ ReplayOne(s) \/ WriteMain(s)
    \/ WriteBackup(s) \/ BackupFails(s) \/ Finish(s) \/ SaveFails(s)

Ask(s) ==
    \/ Open(s)
    \/ \E t \in Texts : Save(s, t)
    \/ \E n \in notes[s] : Forget(s, n)
    \/ \E n \in notes[s], t \in Texts : Update(s, n, t)
    \/ \E n \in notes[s], b \in BOOLEAN : SetActive(s, n, b)
    \/ DeleteAll(s)
    \/ Flush(s)

Next ==
    \/ \E s \in Sessions : Ask(s) \/ SaveStep(s) \/ Quit(s) \/ Crash(s)
    \/ LockAges
    \/ Damage
    \/ Wipe

Spec == Init /\ [][Next]_vars

\* A session inside `save` keeps running, and time passes.
FairSpec ==
    /\ Spec
    /\ \A s \in Sessions : WF_vars(SaveStep(s))
    /\ WF_vars(LockAges)

-----------------------------------------------------------------------------
(* Properties *)

\* Every variable is of its type.  What a wrong replay, rename or merge would
\* leave behind (a note of no id, a change of no kind) shows here.
TypeOK ==
    /\ main \in File /\ bak \in File
    /\ lock \in Lock
    /\ pc \in [Sessions -> {"off", "idle"} \union InSave]
    /\ notes \in [Sessions -> SUBSET Note]
    /\ nextId \in [Sessions -> Nat]
    /\ pending \in [Sessions -> SUBSET Change]
    /\ call \in [Sessions -> Call]
    /\ work \in [Sessions -> Merge]
    /\ left \in [Bounded -> Nat]
    /\ stored \in SUBSET Note

\* At most one session is between taking the lock and dropping it.
MutualExclusion ==
    \A s, w \in Sessions : pc[s] \in Critical /\ pc[w] \in Critical => s = w

\* What the comment on FileLock says of its stale-lock rule: for two sessions
\* to be in `save` at once, one must have crashed inside it.
LockRaceNeedsCrash == left["crash"] = Limits["crash"] => MutualExclusion

\* No list of notes, on disk or in a session, holds one id twice or one fact
\* twice, or more than the cap; and the ids a list will give next are new.
Consistent(ns, next) ==
    /\ \A m, n \in ns : m # n => m.id # n.id /\ m.text # n.text
    /\ \A n \in ns : n.id < next
    /\ Cardinality(ns) <= Cap

OneNotePerFact ==
    /\ main.state = "good" => Consistent(main.notes, SafeNextId(main))
    /\ bak.state = "good" => Consistent(bak.notes, SafeNextId(bak))
    /\ \A s \in Sessions : pc[s] # "off" => Consistent(notes[s], nextId[s])

\* What the module comment promises of an opener that is told of no problem,
\* and `save` of its backup: whoever opens memory.json while no save is under
\* way, and whoever is told at any time that the backup was used, finds every
\* note last stored and none that was forgotten.
OpenersFindWhatWasStored ==
    (NoSaveUnderWay /\ LoadProblem = "none") \/ LoadProblem = "recovered" =>
        Best.notes = stored

\* An answered call leaves nothing of a note in the journal: a save reported
\* as failed is never carried out by a later one.
FailedSaveLeavesNothing ==
    \A s \in Sessions : pc[s] = "idle" => \A c \in pending[s] : c.kind # "add"

\* The session's journal has nothing about note n of memory.json.
Untouched(s, n) ==
    \A c \in pending[s] :
       /\ c.kind = "delete" => c.text # n.text
       /\ c.kind \in {"update", "active"} => c.id # n.id \/ c.of # n.first

\* What one session did not touch, it cannot undo.
UntouchedStays ==
    [][\A s \in Sessions :
          pc[s] = "replaying" /\ pc'[s] = "written" =>
             \A n \in stored : Untouched(s, n) => n \in main'.notes]_vars

\* A save the user is told has worked is in memory.json at that moment, and a
\* forgotten note is not.
AnswersAreTrue ==
    [][\A s \in Sessions :
          pc[s] = "backed" /\ pc'[s] = "idle" /\ ~ work[s].rejected =>
             /\ call[s].op = "save" => call[s].text \subseteq TextsOf(main'.notes)
             /\ call[s].op = "forget" => call[s].text \cap TextsOf(main'.notes) = {}]_vars

\* A lock whose process died does not switch memory off for good: a session
\* that comes to wait for it does not give up before it is broken.
DeadLock == lock.on /\ lock.owner = Nobody
DeadLockIsBroken ==
    \A s \in Sessions :
       pc[s] = "waiting" /\ DeadLock /\ s \notin lock.newTo ~>
          ~ DeadLock \/ pc[s] = "off"

-----------------------------------------------------------------------------
(* The store implements one memory, on which every save acts at once *)

AskedBy(s) ==
    LET open == IF pc[s] \in {"written", "backed"} THEN {} ELSE pending[s]
    IN  [adds |-> {c.text : c \in {d \in open : d.kind = "add"}},
         dels |-> {c.text : c \in {d \in open : d.kind = "delete"}}]

Atomic == INSTANCE AtomicMemory
    WITH mem <- TextsOf(stored), asked <- [s \in Sessions |-> AskedBy(s)]

\* Whatever the interleaving of saves, crashes and failed writes, every save
\* acts at once on memory.json as it then is, adds and removes what its session
\* asked for and nothing else, and a request that was taken back or lost with
\* its session is never carried out.
ImplementsAtomicMemory == Atomic!Spec

=============================================================================
