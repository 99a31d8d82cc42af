------------------------------ MODULE DbWrite -------------------------------
(***************************************************************************)
(* The tool `db_write` (crates/tacet-tools/src/db_write.rs, `write`): a    *)
(* statement is tried on a byte copy of a database, its effect is shown,   *)
(* and with the user's yes the copy becomes the backup and the statement   *)
(* is run on the database.  Several sessions may do so on one database,    *)
(* and another program (`app`) reads and writes it whenever it likes.      *)
(*                                                                         *)
(* A database is the sequence of the writes committed to it, each by its   *)
(* writer.  SQLite is external: a commit is atomic, a writer locks out the *)
(* others, and what a dead writer left in the journal is rolled back by    *)
(* whoever opens the database next.                                        *)
(***************************************************************************)
EXTENDS Naturals, Sequences

CONSTANTS
    Sessions,   \* the sessions that have the tool
    App,        \* the other program
    Limits      \* how often each of Bounded may happen

Bounded == {"call", "app", "fault"}

ASSUME AppAssumption == App \notin Sessions
ASSUME LimitsAssumption == Limits \in [Bounded -> Nat]

VARIABLES
    wal,        \* whether the database is in WAL mode
    db,         \* the file, its journal and its write-ahead log
    app,        \* whether the other program has it open, and a transaction
    backup,     \* `<database>.tacet-backup`
    pc,         \* where each session's call is
    image,      \* the copy each session has measured
    said,       \* how each session's last call ended
    mine,       \* history: whether the call has changed the database
    met,        \* history: what others did since the call looked
    spent       \* how much of Limits is used

dbVars == <<wal, db, app, backup, pc, image, said, mine, met, spent>>
others == <<wal, app>>

-----------------------------------------------------------------------------
\* The main file holds `main`; `hot` is a journal that is not empty, with pages
\* in the main file which only it can undo; `log` is committed and not yet in it.
Now == db.main \o db.log

Whole(writes) == [state |-> "whole", is |-> writes]
Torn == [state |-> "torn", is |-> << >>]
NoFile == [state |-> "none", is |-> << >>]

DbInit ==
    /\ wal \in BOOLEAN
    /\ db = [main |-> << >>, hot |-> FALSE, log |-> << >>]
    /\ app = [open |-> FALSE, writing |-> FALSE]
    /\ backup = [file |-> NoFile, by |-> App]
    /\ pc = [s \in Sessions |-> "idle"]
    /\ image = [s \in Sessions |-> NoFile]
    /\ said = [s \in Sessions |-> "nothing"]
    /\ mine = [s \in Sessions |-> FALSE]
    /\ met = [s \in Sessions |-> {}]
    /\ spent = [what \in Bounded |-> 0]

Spend(what) ==
    /\ spent[what] < Limits[what]
    /\ spent' = [spent EXCEPT ![what] = @ + 1]

Free == UNCHANGED spent

Go(s, place) == pc' = [pc EXCEPT ![s] = place] /\ UNCHANGED said

Say(s, outcome) ==
    /\ pc' = [pc EXCEPT ![s] = "idle"]
    /\ said' = [said EXCEPT ![s] = outcome]

\* Every call under way but those of `who` has met `what`.
Meet(who, what) ==
    met' = [s \in Sessions |->
              IF s \in who \/ pc[s] = "idle" THEN met[s]
              ELSE met[s] \union {IF what = "write" /\ pc[s] = "copy" THEN "race" ELSE what}]

-----------------------------------------------------------------------------
(* The other program *)

AppOpens ==
    /\ ~ app.open
    /\ app' = [app EXCEPT !.open = TRUE]
    /\ Free /\ UNCHANGED <<wal, db, backup, pc, image, said, mine, met>>

\* A transaction's first page: a dead writer's are rolled back before it.
Begin ==
    /\ app.open /\ ~ app.writing /\ Spend("app")
    /\ app' = [app EXCEPT !.writing = TRUE]
    /\ db' = [db EXCEPT !.hot = ~ wal]
    /\ Meet({}, "write")
    /\ UNCHANGED <<wal, backup, pc, image, said, mine>>

Commit ==
    /\ app.writing
    /\ app' = [app EXCEPT !.writing = FALSE]
    /\ db' = IF wal THEN [db EXCEPT !.log = Append(@, App)]
             ELSE [db EXCEPT !.main = Append(@, App), !.hot = FALSE]
    /\ Meet({}, "write")
    /\ Free /\ UNCHANGED <<wal, backup, pc, image, said, mine>>

Rollback ==
    /\ app.writing
    /\ app' = [app EXCEPT !.writing = FALSE]
    /\ db' = [db EXCEPT !.hot = FALSE]
    /\ Meet({}, "write")
    /\ Free /\ UNCHANGED <<wal, backup, pc, image, said, mine>>

\* The last to close a database brings its log into the file; until then the log
\* counts as not empty, as its bytes stay there.
AppCloses ==
    /\ app.open /\ ~ app.writing
    /\ app' = [app EXCEPT !.open = FALSE]
    /\ db' = [db EXCEPT !.main = Now, !.log = << >>]
    /\ Free /\ UNCHANGED <<wal, backup, pc, image, said, mine, met>>

AppDies ==
    /\ app.open /\ Spend("fault")
    /\ app' = [open |-> FALSE, writing |-> FALSE]
    /\ UNCHANGED <<wal, db, backup, pc, image, said, mine, met>>

-----------------------------------------------------------------------------
(* A call, up to the question *)

Call(s) ==
    /\ pc[s] = "idle" /\ Spend("call")
    /\ Go(s, "check")
    /\ image' = [image EXCEPT ![s] = NoFile]
    /\ mine' = [mine EXCEPT ![s] = FALSE]
    /\ met' = [met EXCEPT ![s] = {}]
    /\ UNCHANGED <<others, db, backup>>

\* Variant: only the write-ahead log is looked for.
CheckLogOnly(s) ==
    /\ pc[s] = "check"
    /\ IF db.log # << >> THEN Say(s, "refused") ELSE Go(s, "copy")
    /\ met' = [met EXCEPT ![s] = {}]
    /\ Free /\ UNCHANGED <<others, db, backup, image, mine>>

\* A sidecar that is not empty means that the file alone is not the database.
Check(s) ==
    /\ pc[s] = "check"
    /\ IF db.log # << >> \/ db.hot THEN Say(s, "refused") ELSE Go(s, "copy")
    /\ met' = [met EXCEPT ![s] = {}]
    /\ Free /\ UNCHANGED <<others, db, backup, image, mine>>

Copy(s) ==
    /\ pc[s] = "copy"
    /\ image' = [image EXCEPT ![s] = IF db.hot THEN Torn ELSE Whole(db.main)]
    /\ Go(s, "trial")
    /\ Free /\ UNCHANGED <<others, db, backup, mine, met>>

\* Variant: there is no second copy, the statement is tried on the first.
TrialOnTheCopy(s) ==
    /\ pc[s] = "trial"
    /\ Go(s, "asking") \/ Say(s, "failed")
    /\ image' = [image EXCEPT ![s].is = Append(@, s)]
    /\ Free /\ UNCHANGED <<others, db, backup, mine, met>>

\* The statement is run on a copy of the copy: it ends, with an effect to show, or
\* it does not end, fails with nothing changed, or the backup's name is a link.
Trial(s) ==
    /\ pc[s] = "trial"
    /\ Go(s, "asking") \/ Say(s, "failed")
    /\ Free /\ UNCHANGED <<others, db, backup, image, mine, met>>

Confirm(s) ==
    /\ pc[s] = "asking"
    /\ Go(s, "backup") \/ Say(s, "declined")
    /\ Free /\ UNCHANGED <<others, db, backup, image, mine, met>>

-----------------------------------------------------------------------------
(* The backup: `std::fs::copy` empties the file before it fills it *)

Empty(s) ==
    /\ pc[s] = "backup"
    /\ backup' = [file |-> Torn, by |-> s]
    /\ Go(s, "fill")
    /\ Meet({s}, "backup")
    /\ Free /\ UNCHANGED <<others, db, image, mine>>

\* Two sessions that fill it at once may leave a mixture.
Fill(s) ==
    /\ pc[s] = "fill"
    /\ \/ backup' = [file |-> image[s], by |-> s]
       \/ backup.by # s /\ backup' = [file |-> Torn, by |-> s]
    /\ Go(s, "run")
    /\ Meet({s}, "backup")
    /\ Free /\ UNCHANGED <<others, db, image, mine>>

\* No copy, or none of the image where the backup should be.
FileFails(s) ==
    /\ pc[s] \in {"copy", "backup", "fill"} /\ Spend("fault")
    /\ Say(s, "failed")
    /\ UNCHANGED <<others, db, backup, image, mine, met>>

-----------------------------------------------------------------------------
(* The statement on the database itself *)

NotSpawned(s) ==
    /\ pc[s] = "run" /\ Spend("fault")
    /\ Say(s, "failed")
    /\ UNCHANGED <<others, db, backup, image, mine, met>>

Locked(s) ==
    /\ pc[s] = "run" /\ app.writing
    /\ Say(s, "written")
    /\ Free /\ UNCHANGED <<others, db, backup, image, mine, met>>

\* What the database is after a run that changed it, or did not.
Changed(s) ==
    IF wal /\ app.open THEN [db EXCEPT !.log = Append(@, s)]
    ELSE [main |-> Append(Now, s), hot |-> FALSE, log |-> << >>]

Opened == IF wal /\ app.open THEN db ELSE [main |-> Now, hot |-> FALSE, log |-> << >>]

\* It ended, with or without an error: part of it may have been applied.
Ran(s) ==
    /\ pc[s] = "run" /\ ~ app.writing
    /\ \/ /\ db' = Changed(s)
          /\ mine' = [mine EXCEPT ![s] = TRUE]
          /\ Meet({s}, "write")
       \/ db' = Opened /\ UNCHANGED <<mine, met>>
    /\ Say(s, "written")
    /\ Free /\ UNCHANGED <<others, backup, image>>

\* Killed after TIMEOUT: before its commit, leaving a journal, or after it.
Killed(s, outcome) ==
    /\ pc[s] = "run" /\ ~ app.writing /\ Spend("fault")
    /\ \/ /\ db' = IF wal THEN [db EXCEPT !.log = Append(@, s)] ELSE Changed(s)
          /\ mine' = [mine EXCEPT ![s] = TRUE]
       \/ db' = [db EXCEPT !.hot = ~ wal] /\ UNCHANGED mine
    /\ Meet({s}, "write")
    /\ Say(s, outcome)
    /\ UNCHANGED <<others, backup, image>>

\* Variant: as for the trial, the time-out is an error.
TimeoutIsAnError(s) == Killed(s, "failed")

TimedOut(s) == Killed(s, "written")

\* The session's process ends; its scratch copies go with it or stay.
Dies(s) ==
    /\ pc[s] # "idle" /\ Spend("fault")
    /\ Say(s, "nothing")
    /\ UNCHANGED <<others, db, backup, image, mine, met>>

-----------------------------------------------------------------------------
DbNext ==
    \/ AppOpens \/ Begin \/ Commit \/ Rollback \/ AppCloses \/ AppDies
    \/ \E s \in Sessions :
         \/ Call(s) \/ Check(s) \/ Copy(s) \/ Trial(s) \/ Confirm(s)
         \/ Empty(s) \/ Fill(s) \/ FileFails(s)
         \/ NotSpawned(s) \/ Locked(s) \/ Ran(s) \/ TimedOut(s)
         \/ Dies(s)

DbSpec == DbInit /\ [][DbNext]_dbVars

-----------------------------------------------------------------------------
(* Properties *)

\* Every variable keeps its type.
DbTypeOK ==
    LET writes == Seq(Sessions \union {App})
        file == [state : {"whole", "torn", "none"}, is : writes]
    IN
    /\ wal \in BOOLEAN
    /\ db \in [main : writes, hot : BOOLEAN, log : writes]
    /\ app \in [open : BOOLEAN, writing : BOOLEAN]
    /\ backup \in [file : file, by : Sessions \union {App}]
    /\ pc \in [Sessions -> {"idle", "check", "copy", "trial", "asking", "backup",
                            "fill", "run"}]
    /\ image \in [Sessions -> file]
    /\ said \in [Sessions -> {"nothing", "refused", "failed", "declined", "written"}]
    /\ mine \in [Sessions -> BOOLEAN]
    /\ met \in [Sessions -> SUBSET {"write", "race", "backup"}]
    /\ spent \in [Bounded -> Nat]

Ends(s, outcomes) == pc[s] # "idle" /\ pc'[s] = "idle" /\ said'[s] \in outcomes

\* A call that ends as refused, declined or failed has changed nothing, and may be
\* made again: whatever may have changed something ends as Written, the state that
\* stops a turn from being replayed.
OutcomeIsTrue ==
    [][\A s \in Sessions : Ends(s, {"refused", "declined", "failed"}) => ~ mine'[s]]_dbVars

\* What is tried and shown is the database as it was at the copy, no half-written
\* pages and nothing missing, unless another writer came between the look at the
\* sidecars and the copy.
MeasuredIsTheDatabase ==
    [][\A s \in Sessions :
          pc[s] = "copy" /\ pc'[s] = "trial" /\ "race" \notin met[s] =>
             image'[s] = Whole(Now)]_dbVars

\* "Always the state before the last write": after a statement that was run the
\* backup is the database as it was before it, if nobody else wrote to either since
\* the call looked.
UndoIsThere ==
    [][\A s \in Sessions :
          Ends(s, {"written"}) /\ met[s] = {} => backup.file = Whole(Now)]_dbVars

=============================================================================
