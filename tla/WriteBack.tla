----------------------------- MODULE WriteBack ------------------------------
(***************************************************************************)
(* A note of Tacet's in the transcript of a Claude Code session, appended  *)
(* to it or to a fork of it (crates/tacet-tools/src/sessions/writeback/    *)
(* claude.rs, read with ../claude.rs), while Claude Code, which takes no   *)
(* lock and asks nobody, opens, continues and closes the session.          *)
(*                                                                         *)
(* The transcript is a sequence of pieces written one after the other.  An *)
(* entry names its parent; what a resume loads is the chain from the leaf  *)
(* back.  A piece that was not finished has no line end, and what is       *)
(* appended after it is on the same line and cannot be read.               *)
(***************************************************************************)
EXTENDS Naturals, Sequences, FiniteSets

CONSTANT Limits     \* how often each of Bounded may happen

Bounded == {"command", "open", "say", "fault"}

ASSUME WriteBackAssumption == Limits \in [Bounded -> Nat]

VARIABLES
    file,       \* the transcript
    agent,      \* Claude Code: whether it has the session open, and its leaf
    pc,         \* where Tacet's command is
    job,        \* what the command has read and is about to write
    fork,       \* the transcript of the fork last made
    said,       \* what the last command said
    slips,      \* history: what no guard of the command is for
    spent       \* how much of Limits is used

vars == <<file, agent, pc, job, fork, said, slips, spent>>

-----------------------------------------------------------------------------
(* Transcripts *)

Root == 0

Piece == [id : Nat, parent : Nat, by : {"agent", "note", "torn"}]

Torn == [id |-> Root, parent |-> Root, by |-> "torn"]

Entry(i, parent, by) == [id |-> i, parent |-> parent, by |-> by]

\* The lines the reader understands.
Readable(s) ==
    {i \in DOMAIN s : s[i] # Torn /\ (i > 1 => s[i - 1] # Torn)}

Ids(s) == {s[i].id : i \in Readable(s)}

Ends(s) == {i \in Readable(s) : \A j \in Readable(s) : s[j].parent # s[i].id}

\* The newest entry that is nobody's parent.
Leaf(s) ==
    IF Ends(s) = {} THEN Root
    ELSE s[CHOOSE i \in Ends(s) : \A j \in Ends(s) : j <= i].id

\* What is loaded by a resume from entry x: a parent is above its children.
ChainFrom(s, x) ==
    LET on[i \in DOMAIN s] ==
            /\ i \in Readable(s)
            /\ \/ s[i].id = x
               \/ \E j \in (i + 1) .. Len(s) : s[j].parent = s[i].id /\ on[j]
    IN  {s[i].id : i \in {k \in DOMAIN s : on[k]}}

Chain(s) == ChainFrom(s, Leaf(s))

\* The chain was rebuilt without a warning: nothing skipped, no parent missing.
Clean(s) ==
    /\ Readable(s) = DOMAIN s
    /\ \A i \in DOMAIN s : s[i].id \in Chain(s) => s[i].parent \in Ids(s) \union {Root}

Finished(s) == s # << >> /\ s[Len(s)] # Torn

Fresh == 1 + spent["say"] + spent["command"]

Started == <<Entry(1, Root, "agent")>>

Job == [mode : {"append", "fork"}, leaf : Nat, text : Seq(Piece), note : Nat]

NoJob == [mode |-> "append", leaf |-> Root, text |-> << >>, note |-> Root]

Place == {"idle", "report", "text", "asking", "live", "compare", "write",
          "verify", "undo", "beside", "reread", "hash"}

Answer == {"nothing", "live", "refused", "declined", "undone", "damaged",
           "appended", "forked", "changed"}

Init ==
    /\ file \in {<< >>, Started}
    /\ agent = [open |-> FALSE, leaf |-> Root]
    /\ pc = "idle" /\ job = NoJob /\ fork = << >> /\ said = "nothing"
    /\ slips = {}
    /\ spent = [what \in Bounded |-> IF what = "say" THEN Len(file) ELSE 0]

Spend(what) ==
    /\ spent[what] < Limits[what]
    /\ spent' = [spent EXCEPT ![what] = @ + 1]

Free == UNCHANGED spent

At(place) == pc = place

Go(place) == pc' = place /\ UNCHANGED said

Say(answer) == pc' = "idle" /\ said' = answer

\* From the second look for a running Claude Code to the last use of the file.
Committed == pc \in {"compare", "write", "verify", "undo"}

-----------------------------------------------------------------------------
(* Claude Code *)

Open ==
    /\ ~ agent.open /\ Spend("open")
    /\ agent' = [open |-> TRUE, leaf |-> Leaf(file)]
    /\ slips' = IF Committed THEN slips \union {"late"} ELSE slips
    /\ UNCHANGED <<file, pc, job, fork, said>>

Close ==
    /\ agent.open
    /\ agent' = [agent EXCEPT !.open = FALSE]
    /\ UNCHANGED <<file, pc, job, fork, said, slips, spent>>

Continue ==
    /\ agent.open /\ Spend("say")
    /\ file' = Append(file, Entry(Fresh, agent.leaf, "agent"))
    /\ agent' = [agent EXCEPT !.leaf = Fresh]
    /\ slips' = IF At("text") THEN slips \union {"stale"} ELSE slips
    /\ UNCHANGED <<pc, job, fork, said>>

\* It is killed in the middle of a line.
Break ==
    /\ agent.open /\ Spend("fault")
    /\ file' = Append(file, Torn)
    /\ agent' = [agent EXCEPT !.open = FALSE]
    /\ slips' = slips \union {"torn"}
    /\ UNCHANGED <<pc, job, fork, said>>

-----------------------------------------------------------------------------
(* `prepare` and the question, in both modes *)

\* An append looks first whether a running Claude Code has the session.
Start ==
    /\ At("idle") /\ Spend("command")
    /\ \E mode \in {"append", "fork"} :
         job' = [NoJob EXCEPT !.mode = mode, !.note = Fresh]
    /\ IF job'.mode = "append" /\ agent.open
         THEN Say("live")
         ELSE pc' = "report" /\ said' = "nothing"
    /\ UNCHANGED <<file, agent, fork, slips>>

\* `read_report`: the leaf, and whether the chain rebuilds.
ReadReport ==
    /\ At("report")
    /\ job' = [job EXCEPT !.leaf = Leaf(file)]
    /\ IF Leaf(file) # Root /\ Clean(file) THEN Go("text") ELSE Say("refused")
    /\ Free /\ UNCHANGED <<file, agent, fork, slips>>

\* `read_text`: the bytes, read from the file a second time.
ReadText ==
    /\ At("text")
    /\ job' = [job EXCEPT !.text = file]
    /\ IF Finished(file) THEN Go("asking") ELSE Say("refused")
    /\ Free /\ UNCHANGED <<file, agent, fork, slips>>

Confirm ==
    /\ At("asking")
    /\ \/ Say("declined")
       \/ job.mode = "append" /\ Go("live")
       \/ job.mode = "fork" /\ Go("beside")
    /\ Free /\ UNCHANGED <<file, agent, job, fork, slips>>

Note == Entry(job.note, job.leaf, "note")

-----------------------------------------------------------------------------
(* The rest of `append_note` *)

\* Variant: asked once is enough.
LookOnce ==
    /\ At("live")
    /\ Go("compare")
    /\ Free /\ UNCHANGED <<file, agent, job, fork, slips>>

\* The person may have opened the session while reading the question.
LookAgain ==
    /\ At("live")
    /\ IF agent.open THEN Say("live") ELSE Go("compare")
    /\ Free /\ UNCHANGED <<file, agent, job, fork, slips>>

\* Variant: the file is opened and not compared.
OpenAnyway ==
    /\ At("compare")
    /\ Go("write")
    /\ Free /\ UNCHANGED <<file, agent, job, fork, slips>>

\* The backup is made, the file opened, and its length compared with what was read.
\* The file only grows while the command is about, so its length tells.
Compare ==
    /\ At("compare")
    /\ IF Len(file) = Len(job.text) THEN Go("write") ELSE Say("refused")
    /\ Free /\ UNCHANGED <<file, agent, job, fork, slips>>

\* The backup or the opening fails.
OpenFails ==
    /\ At("compare") /\ Spend("fault")
    /\ Say("refused")
    /\ UNCHANGED <<file, agent, job, fork, slips>>

Write ==
    /\ At("write")
    /\ file' = Append(file, Note)
    /\ Go("verify")
    /\ Free /\ UNCHANGED <<agent, job, fork, slips>>

\* The one `write` was short: the entry is there or a part of it, or the entry and
\* a part of the line after it.
WriteShort ==
    /\ At("write") /\ Spend("fault")
    /\ \E part \in {<< >>, <<Torn>>, <<Note>>, <<Note, Torn>>} : file' = file \o part
    /\ Go("undo")
    /\ UNCHANGED <<agent, job, fork, slips>>

Verified(s) == Leaf(s) = job.note /\ job.leaf \in ChainFrom(s, job.note)

Verify ==
    /\ At("verify")
    /\ IF Verified(file) THEN Say("appended") ELSE Go("undo")
    /\ Free /\ UNCHANGED <<file, agent, job, fork, slips>>

\* Variant: the line is taken off that a reader would see as the note.
UndoLast ==
    /\ At("undo")
    /\ file' = SubSeq(file, 1, Len(file) - 1)
    /\ Say("undone")
    /\ Free /\ UNCHANGED <<agent, job, fork, slips>>

\* `set_len` to the length the file had.
Undo ==
    /\ At("undo")
    /\ file' = SubSeq(file, 1, Len(job.text))
    /\ Say("undone")
    /\ Free /\ UNCHANGED <<agent, job, fork, slips>>

Leftover == IF Finished(file) THEN slips ELSE slips \union {"torn"}

UndoFails ==
    /\ At("undo") /\ Spend("fault")
    /\ Say("damaged")
    /\ slips' = Leftover
    /\ UNCHANGED <<file, agent, job, fork>>

-----------------------------------------------------------------------------
(* The rest of `fork_with_note` *)

WriteBeside ==
    /\ At("beside")
    /\ fork' = Append(job.text, Note)
    /\ Go("reread")
    /\ Free /\ UNCHANGED <<file, agent, job, slips>>

WriteBesideFails ==
    /\ At("beside") /\ Spend("fault")
    /\ Say("refused")
    /\ UNCHANGED <<file, agent, job, fork, slips>>

VerifyFork ==
    /\ At("reread")
    /\ IF Verified(fork)
         THEN Go("hash") /\ UNCHANGED fork
         ELSE Say("undone") /\ fork' = << >>
    /\ Free /\ UNCHANGED <<file, agent, job, slips>>

\* Variant: the original is not looked at again.
TrustOriginal ==
    /\ At("hash")
    /\ Say("forked")
    /\ Free /\ UNCHANGED <<file, agent, job, fork, slips>>

\* The original has the hash it had when it was read.
CheckOriginal ==
    /\ At("hash")
    /\ Say(IF file = job.text THEN "forked" ELSE "changed")
    /\ Free /\ UNCHANGED <<file, agent, job, fork, slips>>

-----------------------------------------------------------------------------
Die ==
    /\ ~ At("idle") /\ Spend("fault")
    /\ Say("nothing")
    /\ slips' = IF Committed THEN Leftover ELSE slips
    /\ UNCHANGED <<file, agent, job, fork>>

Claude == Open \/ Close \/ Continue \/ Break

Append_note == LookAgain \/ Compare \/ OpenFails \/ Write \/ WriteShort \/ Verify \/ Undo \/ UndoFails

Fork_with_note == WriteBeside \/ WriteBesideFails \/ VerifyFork \/ CheckOriginal

Next ==
    \/ Claude
    \/ Start \/ ReadReport \/ ReadText \/ Confirm
    \/ Append_note \/ Fork_with_note
    \/ Die

Spec == Init /\ [][Next]_vars

-----------------------------------------------------------------------------
(* Properties *)

TypeOK ==
    /\ file \in Seq(Piece) /\ fork \in Seq(Piece)
    /\ agent \in [open : BOOLEAN, leaf : Nat]
    /\ pc \in Place
    /\ job \in Job
    /\ said \in Answer
    /\ slips \subseteq {"stale", "late", "torn"}
    /\ spent \in [Bounded -> Nat]

\* What a resume loads is the whole session: no entry, the agent's or a note, is
\* off the chain of the newest one (E4 in the module comment), as long as nothing
\* happened that no guard is for.
HistoryWhole == slips = {} => Ids(file) \subseteq Chain(file)

\* Nothing the agent has written leaves the file: a rollback takes off what Tacet
\* wrote and no more (`undo`), unless the agent opened the session after the second
\* look.
LinesKept ==
    "late" \notin slips =>
        \A i \in DOMAIN file :
            file[i].by = "agent" => i \in DOMAIN file' /\ file'[i] = file[i]

AgentLinesKept == [][LinesKept]_vars

Kept(s, t) == \A i \in DOMAIN s : i \in DOMAIN t /\ t[i] = s[i]

Failures == {"live", "refused", "declined", "undone"}

\* What the command says is so: appended, the note is what a resume starts from;
\* not written or undone, no piece of it is left and what was read is all there.
TrueOutcome ==
    /\ said' = "appended" /\ said # "appended" => Leaf(file') = job.note
    /\ said' \in Failures /\ said \notin Failures =>
         /\ job'.note \notin Ids(file')
         /\ "late" \notin slips => Kept(job'.text, file')
    /\ said' = "undone" /\ said # "undone" /\ job.mode = "append" => file' = job.text

OutcomeIsTrue == [][TrueOutcome]_vars

Whole == said' = "forked" /\ said # "forked" => Chain(file) \subseteq Chain(fork)

\* A fork reported as made carries the original's history as it is at that moment,
\* unless the agent wrote between the two reads of `prepare`.
ForkCarriesHistory == [][Whole \/ "stale" \in slips]_vars

=============================================================================
