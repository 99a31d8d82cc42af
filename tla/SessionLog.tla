----------------------------- MODULE SessionLog -----------------------------
(***************************************************************************)
(* The transcript of a conversation (crates/tacet-cli/src/session.rs): one *)
(* file for each run of the shell, one line for each message.  A run that  *)
(* continues an earlier one copies its messages ahead of its own first     *)
(* one; a file at the cap is rewritten without its oldest lines.           *)
(*                                                                         *)
(* A message is the number of its turn and who speaks: no two are equal.   *)
(* The files are in the order of their last write, so that the one a run   *)
(* writes is the last one.                                                 *)
(***************************************************************************)
EXTENDS Naturals, Sequences, SequencesExt

CONSTANTS
    LineCap,    \* MAX_TURNS_PER_SESSION
    FileCap     \* MAX_SESSIONS

ASSUME SessionLogAssumption == LineCap \in Nat \ {0} /\ FileCap \in Nat \ {0}

VARIABLES
    files,  \* the files of the sessions directory
    log,    \* the shell's handle
    todo,   \* what the `append` under way has still to write
    saved,  \* history: what the log said was written of this conversation
    copy    \* history: whether the newest file is a whole copy of it

logVars == <<files, log, todo, saved, copy>>

-----------------------------------------------------------------------------
Message == [turn : Nat, who : {"user", "assistant"}]

\* A line of which only a part was written, or two lines run together.
Torn == [turn |-> 0, who |-> "nobody"]

\* `open`: the last line has no line end; `cut`: it ends inside a character.
File == [lines : Seq(Message \union {Torn}), open : BOOLEAN, cut : BOOLEAN]

EmptyFile == [lines |-> << >>, open |-> FALSE, cut |-> FALSE]

Handle == [on : BOOLEAN, made : BOOLEAN, turns : 0 .. LineCap, earlier : Seq(Message)]

Closed == [on |-> FALSE, made |-> FALSE, turns |-> 0, earlier |-> << >>]

Newest(s, n) == IF Len(s) <= n THEN s ELSE SubSeq(s, Len(s) - n + 1, Len(s))

\* Lines that do not parse are left out.
Parsed(lines) ==
    LET upto[n \in 0 .. Len(lines)] ==
            IF n = 0 THEN << >>
            ELSE IF lines[n] = Torn THEN upto[n - 1]
            ELSE Append(upto[n - 1], lines[n])
    IN  upto[Len(lines)]

\* A file that is not UTF-8 is read as an empty one.
ReadTurns(f) == IF f.cut THEN << >> ELSE Parsed(f.lines)

\* What `--continue` gets: walks back over files in which nothing is readable.
LatestOf(fs) ==
    LET readable == {i \in DOMAIN fs : ReadTurns(fs[i]) # << >>}
    IN IF readable = {} THEN << >>
       ELSE ReadTurns(fs[CHOOSE i \in readable : \A j \in readable : j <= i])

\* A session that starts leaves room for its own file.
Pruned == Newest(files, FileCap - 1)

Current == IF log.made THEN Last(files) ELSE EmptyFile

Put(f) == files' = (IF log.made THEN Front(files) ELSE files) \o <<f>>

-----------------------------------------------------------------------------
LogInit ==
    /\ files = << >> /\ log = Closed /\ todo = << >>
    /\ saved = << >> /\ copy = "whole"

\* Variant: what is continued stays in its old file only.
StartWithoutCopy(earlier) ==
    /\ files' = Pruned
    /\ log' = [Closed EXCEPT !.on = TRUE]
    /\ todo' = << >> /\ saved' = earlier /\ copy' = "whole"

\* `start` and `continuing`.  The file is made by the first append.
StartLog(earlier) ==
    /\ files' = Pruned
    /\ log' = [Closed EXCEPT !.on = TRUE, !.earlier = earlier]
    /\ todo' = << >> /\ saved' = earlier /\ copy' = "whole"

NoLog ==
    /\ log' = Closed
    /\ todo' = << >> /\ saved' = << >> /\ copy' = "whole"
    /\ UNCHANGED files

-----------------------------------------------------------------------------
(* `append_one` *)

AtCap == log.turns >= LineCap

\* The newest lines are written over the file.
Rewrite ==
    LET kept == Newest(ReadTurns(Current), LineCap - 1) IN
    /\ todo # << >> /\ AtCap
    /\ Put([EmptyFile EXCEPT !.lines = kept])
    /\ log' = [log EXCEPT !.made = TRUE, !.turns = Len(kept)]
    /\ UNCHANGED <<todo, saved, copy>>

\* A line that follows one without a line end is joined to it, and lost with it:
\* that is the answer to a question whose own line the log reported as failed.
WithLine(f, m) ==
    IF f.open THEN [f EXCEPT !.lines[Len(f.lines)] = Torn, !.open = FALSE]
    ELSE [f EXCEPT !.lines = Append(@, m)]

WriteLine ==
    /\ todo # << >> /\ ~ AtCap
    /\ Put(WithLine(Current, Head(todo)))
    /\ log' = [log EXCEPT !.made = TRUE, !.turns = @ + 1]
    /\ todo' = Tail(todo)
    /\ copy' = IF copy = "cut" THEN "cut"
               ELSE IF Len(todo) > 1 THEN "going on" ELSE "whole"
    /\ saved' = IF Len(todo) > 1 \/ Current.open THEN saved
                ELSE Append(saved, Head(todo))

\* What is on disk when that write stops half way: nothing of the line, a part
\* of it, or all but its end.
CutLine ==
    {Current} \union
    {[WithLine(Current, Torn) EXCEPT !.open = TRUE, !.cut = @ \/ c] :
        c \in BOOLEAN} \union
    (IF Current.open THEN {} ELSE {[WithLine(Current, Head(todo)) EXCEPT !.open = TRUE]})

\* And when the rewriting does.
CutRewrite ==
    LET kept == Newest(ReadTurns(Current), LineCap - 1) IN
    {[EmptyFile EXCEPT !.lines = SubSeq(kept, 1, n)] : n \in 0 .. Len(kept)}

\* The write fails, or the process dies in it.
WriteCut ==
    /\ todo # << >>
    /\ \/ UNCHANGED files
       \/ \E f \in IF AtCap THEN CutRewrite ELSE CutLine : Put(f)
    /\ copy' = IF AtCap \/ Len(todo) > 1 THEN "cut" ELSE copy

\* `sessions --purge`, from another terminal.
PurgeLog ==
    /\ files' = << >>
    /\ log' = [log EXCEPT !.made = FALSE]
    /\ saved' = << >> /\ copy' = "whole"
    /\ UNCHANGED todo

=============================================================================
