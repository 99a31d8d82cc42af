----------------------------- MODULE ReceiptLog -----------------------------
(***************************************************************************)
(* The receipt log (crates/tacet-cli/src/receipt.rs): a line per finished  *)
(* tool call, each with the hash of the one before it, and a head that     *)
(* records how many lines there are and the hash of the last.  Sessions    *)
(* append under DirLock; `tacet log` reads without it and says whether the *)
(* chain is whole and reaches its head.                                    *)
(*                                                                         *)
(* A receipt is the number of its acquisition, so that no two are equal.   *)
(* The hash of a line is the sequence of the receipts up to it: SHA-256 is *)
(* taken to be injective.                                                  *)
(***************************************************************************)
EXTENDS DirLock, Sequences, SequencesExt

VARIABLES
    log,        \* receipts.jsonl
    open,       \* whether its last line lacks its line end
    head,       \* receipts.head
    job,        \* what each appender has done under the lock, and read
    said,       \* history: the receipts whose append returned Ok
    slips,      \* history: appends in a row that died or failed with their line,
                \* or a part of it, in the log; two are for good
    touched     \* history: whether the files were touched, or a line torn

logVars == <<log, open, head, job, said, slips, touched>>
vars == <<lockVars, logVars>>

-----------------------------------------------------------------------------
(* Lines and heads *)

Hash == Seq(Nat)

Genesis == << >>

Line == [at : Nat, prev : Hash, hash : Hash]

\* A line written before format 2, and one that cannot be parsed, which has no
\* hash and for which Genesis stands in.
OldLine == [at |-> 0, prev |-> Genesis, hash |-> <<0>>]

Torn == [at |-> 0, prev |-> Genesis, hash |-> Genesis]

Receipt(n, prev) == [at |-> n, prev |-> prev, hash |-> Append(prev, n)]

IsCurrent(line) == line.at # 0

HeadFile == [state : {"missing", "garbled", "good"}, count : Nat, hash : Hash]

NoHead == [state |-> "missing", count |-> 0, hash |-> Genesis]

GarbledHead == [state |-> "garbled", count |-> 0, hash |-> Genesis]

Job == [step : {"read", "write", "head", "over"}, count : Nat, prev : Hash,
        advance : BOOLEAN]

NoJob == [step |-> "read", count |-> 0, prev |-> Genesis, advance |-> FALSE]

-----------------------------------------------------------------------------
(* `verify`, `judge` and the verdict of `tacet log` *)

HashBefore(lines, i) == IF i = 1 THEN Genesis ELSE lines[i - 1].hash

Chained(lines) ==
    \A i \in DOMAIN lines :
       /\ lines[i] # Torn
       /\ lines[i].prev = HashBefore(lines, i)
       /\ lines[i].hash = Append(lines[i].prev, lines[i].at)

\* Variant: no line may lie past the head.
JudgeExactly(lines, h) ==
    IF Len(lines) < h.count THEN "cut"
    ELSE IF h.count = 0 THEN "reached"
    ELSE IF Len(lines) > h.count THEN "diverged"
    ELSE IF lines[h.count].hash = h.hash THEN "reached" ELSE "diverged"

\* One line past the head is the crash between the two.
Judge(lines, h) ==
    IF Len(lines) < h.count THEN "cut"
    ELSE IF h.count = 0 THEN "reached"
    ELSE IF Len(lines) > h.count + 1 THEN "diverged"
    ELSE IF lines[h.count].hash = h.hash THEN "reached" ELSE "diverged"

HasCurrent(lines) == \E i \in DOMAIN lines : IsCurrent(lines[i])

Verdict ==
    IF log = << >> /\ (head.state # "good" \/ head.count = 0) THEN "none"
    ELSE IF ~ Chained(log) THEN "broken"
    ELSE IF head.state = "good" THEN Judge(log, head)
    ELSE IF HasCurrent(log) THEN "missing" ELSE "unrecorded"

SaysBroken == Verdict \in {"broken", "cut", "diverged", "missing"}

-----------------------------------------------------------------------------
Init ==
    /\ LockInit
    /\ log \in {<< >>, <<OldLine>>}
    /\ open = FALSE
    /\ head = NoHead
    /\ job = [p \in Appenders |-> NoJob]
    /\ said = {} /\ slips = 0 /\ touched = FALSE

AtWork(p, step) == pc[p] = "held" /\ job[p].step = step

-----------------------------------------------------------------------------
(* `append_in`, under the lock *)

\* Variant: the head is a cache of the log.
ReachesAlways == TRUE

\* May the head move?  Only from a log that still reaches it, or has nothing in
\* it a head could have covered.
Reaches ==
    IF head.state = "good" THEN Judge(log, head) = "reached"
    ELSE head.state = "missing" /\ ~ HasCurrent(log)

ReadLog(p) ==
    /\ AtWork(p, "read")
    /\ job' = [job EXCEPT ![p] =
                 [step |-> "write", count |-> Len(log),
                  prev |-> IF log = << >> THEN Genesis ELSE Last(log).hash,
                  advance |-> Reaches]]
    /\ UNCHANGED <<lockVars, log, open, head, said, slips, touched>>

\* What is in the log after `line` is appended to it: joined to a last line that
\* has no end it cannot be parsed.
Written(line) == IF open THEN Front(log) \o <<Torn>> ELSE Append(log, line)

MyLine(p) == Receipt(me[p], job[p].prev)

Return(p) ==
    /\ LetGo(p)
    /\ said' = said \union {me[p]}
    /\ job' = [job EXCEPT ![p].step = "over"]

WriteLine(p) ==
    /\ AtWork(p, "write")
    /\ log' = Written(MyLine(p))
    /\ open' = FALSE
    /\ IF job[p].advance
       THEN job' = [job EXCEPT ![p].step = "head"] /\ UNCHANGED <<lockVars, said>>
       ELSE Return(p)
    /\ UNCHANGED <<head, slips, touched>>

WriteHead(p) ==
    /\ AtWork(p, "head")
    /\ head' = [state |-> "good", count |-> job[p].count + 1, hash |-> MyLine(p).hash]
    /\ slips' = IF slips > 1 THEN slips ELSE 0
    /\ Return(p)
    /\ UNCHANGED <<log, open, touched>>

\* The line may stop anywhere: before its first byte, inside it, or before the
\* line end, which is a write of its own.
Torns(p) == {log, Written(Torn), Written(MyLine(p))}

Fragment(p) ==
    /\ log' \in Torns(p)
    /\ open' = (open \/ log' # log)
    /\ touched' = (touched \/ log' # log)
    /\ slips' = IF log' = log THEN slips ELSE slips + 1

\* One of append_in's writes fails, and the lock is let go.
AppendFails(p) ==
    /\ WorkFails(p)
    /\ \/ AtWork(p, "write") /\ Fragment(p)
       \/ AtWork(p, "head") /\ slips' = slips + 1 /\ UNCHANGED <<log, open, touched>>
    /\ job' = [job EXCEPT ![p].step = "over"]
    /\ UNCHANGED <<head, said>>

Die(p) ==
    /\ Crash(p)
    /\ IF AtWork(p, "write") THEN Fragment(p)
       ELSE /\ slips' = IF AtWork(p, "head") THEN slips + 1 ELSE slips
            /\ UNCHANGED <<log, open, touched>>
    /\ job' = [job EXCEPT ![p] = NoJob]
    /\ UNCHANGED <<head, said>>

\* The steps of the lock, which leave the log alone.
Begin(p) == Ask(p) /\ UNCHANGED logVars

LockStep(p) ==
    /\ Acquiring(p)
    /\ job' = IF pc'[p] = "idle" THEN [job EXCEPT ![p] = NoJob] ELSE job
    /\ UNCHANGED <<log, open, head, said, slips, touched>>

-----------------------------------------------------------------------------
(* Others with a hand on the files, between any two steps *)

\* Nothing is left by which the log could be told from a new one.
Traceless(lines, h) == h.state # "good" /\ ~ HasCurrent(lines)

Tamper(lines, h) ==
    /\ Touch
    /\ log' = lines /\ head' = h
    /\ said' = IF Traceless(lines, h) THEN {} ELSE said
    /\ touched' = TRUE
    /\ UNCHANGED <<job, slips>>

CutTail == \E k \in 0 .. Len(log) - 1 : Tamper(SubSeq(log, 1, k), head) /\ open' = FALSE

Damage == \E i \in DOMAIN log : Tamper([log EXCEPT ![i] = Torn], head) /\ open' = open

LoseHead == head.state # "missing" /\ Tamper(log, NoHead) /\ open' = open

GarbleHead == head.state = "good" /\ Tamper(log, GarbledHead) /\ open' = open

\* `sessions --purge`; a crash after its first file leaves the head behind.
Purge(whole) ==
    /\ log' = << >> /\ open' = FALSE
    /\ IF whole
       THEN Sweep /\ head' = NoHead /\ said' = {}
       ELSE /\ Touch /\ head' = head
            /\ said' = IF Traceless(<< >>, head) THEN {} ELSE said
    /\ slips' = 0
    /\ touched' = (~ whole \/ \E p \in Appenders : pc[p] # "idle")
    /\ UNCHANGED job

-----------------------------------------------------------------------------
AppendStep(p) == LockStep(p) \/ ReadLog(p) \/ WriteLine(p) \/ WriteHead(p)

Next ==
    \/ \E p \in Appenders : Begin(p) \/ AppendStep(p) \/ AppendFails(p) \/ Die(p)
    \/ (LockAges \/ GuardAges) /\ UNCHANGED logVars
    \/ CutTail \/ Damage \/ LoseHead \/ GarbleHead
    \/ \E whole \in BOOLEAN : Purge(whole)

Spec == Init /\ [][Next]_vars

-----------------------------------------------------------------------------
(* Properties *)

\* Every variable of the log and its lock has its type.
TypeOK ==
    /\ LockTypeOK
    /\ log \in Seq(Line) /\ open \in BOOLEAN
    /\ head \in HeadFile
    /\ job \in [Appenders -> Job]
    /\ said \subseteq Nat /\ slips \in Nat /\ touched \in BOOLEAN

NobodyAtWork == \A p \in Appenders : pc[p] # "held"

\* A log nobody but appenders has touched, with no line torn, is not called
\* broken: not by two sessions at once, and not by a crash or a failed write of
\* the head.  A crash in the very first append is told as a missing head.
NoFalseAlarm ==
    ~ touched /\ upset = {} /\ slips <= 1 /\ NobodyAtWork =>
        Verdict \notin {"broken", "cut", "diverged"}

\* A receipt whose append returned Ok is in the log, or the log is called
\* broken, whatever was cut, damaged or torn, and however many appends follow.
ReceiptsAccountedFor ==
    slips <= 1 /\ upset = {} =>
        \A n \in said : SaysBroken \/ \E i \in DOMAIN log : log[i].at = n

=============================================================================
