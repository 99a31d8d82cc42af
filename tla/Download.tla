------------------------------ MODULE Download ------------------------------
(***************************************************************************)
(* Downloads (crates/tacet-web/src/download.rs) and their two callers: the *)
(* model packages (tacet-cli/src/models.rs), which resume what an earlier  *)
(* run left, and the updater (tacet-cli/src/update.rs), which starts from  *)
(* nothing and swaps the result in for the running binary.                 *)
(*                                                                         *)
(* A run streams the object behind a URL into <target>.downloading, keeps  *)
(* beside it a record of what it is a prefix of, and renames it over the   *)
(* target once its size and digest agree with the plan.  The object may be *)
(* replaced at the source at any time, the server may answer a range as it *)
(* likes, and a run may fail or die at every step.                         *)
(*                                                                         *)
(* A file is the sequence of its bytes, a byte its object and its place in *)
(* it: a strong ETag and a SHA-256 name an object.                         *)
(***************************************************************************)
EXTENDS Naturals, Sequences, FiniteSets

CONSTANTS
    Procs,      \* processes that may run the download
    Objects,    \* what the URL may come to serve
    Length,     \* their lengths
    Plans,      \* plans the catalog may hold
    Callers,    \* subset of {"models", "update"}
    Inodes,     \* files of the directory
    None,
    MaxFaults   \* failures, crashes, publications and edits in a behaviour

ASSUME DownloadAssumption ==
    /\ Length \in [Objects -> Nat \ {0}]
    /\ Plans \subseteq [bytes : Nat \union {None}, digest : Objects \union {None}]
    /\ None \notin Nat \union Objects \union Inodes
    /\ Callers \subseteq {"models", "update"}
    /\ MaxFaults \in Nat

VARIABLES
    caller,     \* who calls `download` on this target
    plan,       \* what the catalog or the release now says of the object
    served,     \* the object now behind the URL
    gone,       \* those it served before
    content,    \* the files
    temp,       \* <target>.downloading
    record,     \* <target>.downloading.resume, None if missing or unreadable
    target,     \* the package file, or the staged <exe>.new
    installed,  \* the binary the updater replaces, None until it has
    run,        \* the processes
    faults      \* how much of MaxFaults is spent

vars == <<caller, plan, served, gone, content, temp, record, target,
          installed, run, faults>>

files == <<content, temp, record, target, installed>>
world == <<caller, plan, served, gone>>

-----------------------------------------------------------------------------
Byte == [of : Objects, at : Nat \ {0}]

\* What is left where a writer skips over a place another process cut off.
Hole == None

Whole(o) == [i \in 1 .. Length[o] |-> [of |-> o, at |-> i]]

IsWhole(c) == \E o \in Objects : c = Whole(o)

IsPrefixOf(c, o) ==
    /\ Len(c) <= Length[o]
    /\ \A i \in DOMAIN c : c[i] = [of |-> o, at |-> i]

Record == [plan : Plans, tag : Objects \union {None}]

Step == {"idle", "look", "ask", "request", "record", "stream", "digest",
         "move", "sweep", "probe", "swap"}

Run == [at : Step, plan : Plans, approved : BOOLEAN, from : Nat,
        asked : Objects \union {None}, body : Objects \union {None},
        tag : Objects \union {None}, file : Inodes \union {None},
        resumed : BOOLEAN, got : Nat]

Idle(pl) == [at |-> "idle", plan |-> pl, approved |-> FALSE, from |-> 0,
             asked |-> None, body |-> None, tag |-> None, file |-> None,
             resumed |-> FALSE, got |-> 0]

Init ==
    /\ caller \in Callers
    /\ plan \in Plans
    /\ served \in Objects /\ gone = {}
    /\ content = [i \in Inodes |-> << >>]
    /\ temp = None /\ record = None /\ target = None /\ installed = None
    /\ run = [p \in Procs |-> Idle(plan)]
    /\ faults = 0

Fault == faults < MaxFaults /\ faults' = faults + 1

NoFault == UNCHANGED faults

Now(p, step) == run[p].at = step

To(p, step) == run' = [run EXCEPT ![p].at = step]

\* The command returns, with what it says to the user.
Leave(p) == run' = [run EXCEPT ![p] = Idle(run[p].plan)]

Discard == temp' = None /\ record' = None

-----------------------------------------------------------------------------
(* The world outside *)

Publish ==
    /\ Fault
    /\ \E o \in Objects \ (gone \union {served}) : served' = o
    /\ gone' = gone \union {served}
    /\ UNCHANGED <<caller, plan, files, run>>

\* packages.json is edited, the digest of the first download pasted in, say.
EditCatalog ==
    /\ Fault
    /\ \E pl \in Plans \ {plan} : plan' = pl
    /\ UNCHANGED <<caller, served, gone, files, run>>

Crash(p) ==
    /\ ~ Now(p, "idle")
    /\ Fault /\ Leave(p)
    /\ UNCHANGED <<world, files>>

-----------------------------------------------------------------------------
(* `model_download` and `install` up to the network gate *)

\* Variant: the updater takes the earlier run's staged file for its own.
StartOnLeftovers(p) ==
    /\ Now(p, "idle")
    /\ run' = [run EXCEPT ![p] = [Idle(plan) EXCEPT !.at = "look"]]
    /\ NoFault /\ UNCHANGED <<world, files>>

\* The updater clears what an earlier update left beside the binary.
Start(p) ==
    /\ Now(p, "idle")
    /\ run' = [run EXCEPT ![p] = [Idle(plan) EXCEPT !.at = "look"]]
    /\ IF caller = "update"
         THEN target' = None /\ Discard
         ELSE UNCHANGED <<target, temp, record>>
    /\ NoFault /\ UNCHANGED <<world, content, installed>>

DigestAgrees(pl, c) == pl.digest = None \/ c = Whole(pl.digest)

\* A file that is in place is only digested, without a question.
LookPresent(p) ==
    /\ Now(p, "look") /\ target # None
    /\ IF caller = "update" /\ DigestAgrees(run[p].plan, content[target])
         THEN To(p, "probe") ELSE Leave(p)
    /\ NoFault /\ UNCHANGED <<world, files>>

\* Variant: any leftover of the right plan is continued.
BasisWithoutGuard(pl, leftover) ==
    IF leftover = 0 \/ (pl.bytes # None /\ leftover > pl.bytes)
      THEN [from |-> 0, tag |-> None]
      ELSE [from |-> leftover, tag |-> IF record = None THEN None ELSE record.tag]

\* `resume_basis`: a leftover is continued if a strong ETag or a digest will
\* notice another object behind it.
ResumeBasis(pl, leftover) ==
    LET fresh == [from |-> 0, tag |-> None] IN
    IF \/ leftover = 0
       \/ pl.bytes # None /\ leftover > pl.bytes
       \/ record # None /\ record.plan # pl
       \/ (record = None \/ record.tag = None) /\ pl.digest = None
      THEN fresh
      ELSE [from |-> leftover, tag |-> IF record = None THEN None ELSE record.tag]

LookMissing(p) ==
    /\ Now(p, "look") /\ target = None
    /\ LET leftover == IF temp = None THEN 0 ELSE Len(content[temp])
           basis == ResumeBasis(run[p].plan, leftover)
       IN run' = [run EXCEPT ![p].at = "ask", ![p].from = basis.from,
                             ![p].asked = basis.tag]
    /\ NoFault /\ UNCHANGED <<world, files>>

Refuse(p) ==
    /\ Now(p, "ask")
    /\ Fault /\ Leave(p)
    /\ UNCHANGED <<world, files>>

\* A leftover that cannot be continued goes before the first request.
Approve(p) ==
    /\ Now(p, "ask")
    /\ run' = [run EXCEPT ![p].at = "request", ![p].approved = TRUE]
    /\ IF run[p].from = 0 THEN Discard ELSE UNCHANGED <<temp, record>>
    /\ NoFault /\ UNCHANGED <<world, content, target, installed>>

-----------------------------------------------------------------------------
(* The answer *)

\* Names the object it carries with a strong ETag, or does not.
Tags == {served, None}

\* A 206: where it says it starts (None: it does not say), the whole length it
\* gives (None: *), its ETag.
Partial(p) ==
    [start : {run[p].from, 0, None}, total : {Length[served], None}, tag : Tags]

\* `resume_verdict` and `same_object`: the range begins where the half file
\* ends, the length is the plan's, and the ETag is the one that was asked for.
Continues(r, a) ==
    /\ a.start = r.from
    /\ a.total # None /\ r.plan.bytes # None => a.total = r.plan.bytes
    /\ r.asked # None => a.tag = r.asked

Unused == Inodes \ ({temp, target, installed} \union {run[p].file : p \in Procs})

\* `File::create`: the file under the name is cut to nothing, or made.  What no
\* name and no process holds any more is gone.
CreateTemp(p, tag) ==
    /\ IF temp = None THEN \E i \in Unused : temp' = i ELSE UNCHANGED temp
    /\ content' = [i \in Inodes |->
                     IF i \in Unused \union {temp'} THEN << >> ELSE content[i]]
    /\ run' = [run EXCEPT ![p].at = "record", ![p].body = served, ![p].tag = tag,
                          ![p].file = temp', ![p].resumed = FALSE, ![p].got = 0]

\* 200: the whole object, because no range was asked for or it was ignored.
ServeWhole(p) ==
    /\ Now(p, "request")
    /\ \E tag \in Tags : CreateTemp(p, tag)
    /\ NoFault /\ UNCHANGED <<world, record, target, installed>>

\* Variant: 416 is an error like any other.
RangeIsAnError(p) ==
    /\ Now(p, "request") /\ run[p].from > 0
    /\ Leave(p)
    /\ NoFault /\ UNCHANGED <<world, files>>

\* 416: the half file goes, and the object is asked for once more from zero.
RangeNotSatisfiable(p) ==
    /\ Now(p, "request") /\ run[p].from > 0
    /\ run' = [run EXCEPT ![p].from = 0, ![p].asked = None]
    /\ Discard
    /\ NoFault /\ UNCHANGED <<world, content, target, installed>>

\* 206 for what the half file lacks.
ServeRest(p) ==
    /\ Now(p, "request") /\ run[p].from > 0 /\ run[p].from < Length[served]
    /\ \E a \in Partial(p) :
          \/ ~ Continues(run[p], a) /\ Leave(p) /\ Discard
          \/ /\ Continues(run[p], a) /\ temp = None
             /\ Leave(p) /\ UNCHANGED <<temp, record>>
          \/ /\ Continues(run[p], a) /\ temp # None
             /\ run' = [run EXCEPT ![p].at = "stream", ![p].body = served,
                                   ![p].file = temp, ![p].resumed = TRUE,
                                   ![p].got = run[p].from]
             /\ UNCHANGED <<temp, record>>
    /\ NoFault /\ UNCHANGED <<world, content, target, installed>>

\* Another status, no connection, a file that cannot be opened.
RequestFails(p) ==
    /\ Now(p, "request")
    /\ Fault /\ Leave(p)
    /\ UNCHANGED <<world, files>>

\* Before the first byte.  A failed write is ignored: it may have cut the old
\* record to nothing, or not have touched it.
WriteRecord(p) ==
    /\ Now(p, "record")
    /\ To(p, "stream")
    /\ \/ record' = [plan |-> run[p].plan, tag |-> run[p].tag] /\ NoFault
       \/ record' \in {None, record} /\ Fault
    /\ UNCHANGED <<world, content, temp, target, installed>>

-----------------------------------------------------------------------------
(* The body *)

\* One write: at the end if the file was opened to append, else where the
\* writer has got to.
Written(c, r) ==
    LET byte == [of |-> r.body, at |-> r.got + 1] IN
    IF r.resumed \/ r.got = Len(c) THEN Append(c, byte)
    ELSE [i \in 1 .. IF r.got < Len(c) THEN Len(c) ELSE r.got + 1 |->
            IF i = r.got + 1 THEN byte
            ELSE IF i <= Len(c) THEN c[i] ELSE Hole]

\* One byte past the declared size is enough to know it is wrong.
BodyCap(pl, o) == IF pl.bytes = None THEN Length[o] ELSE pl.bytes + 1

Receive(p) ==
    /\ Now(p, "stream")
    /\ run[p].got < Length[run[p].body]
    /\ run[p].got < BodyCap(run[p].plan, run[p].body)
    /\ content' = [content EXCEPT ![run[p].file] = Written(@, run[p])]
    /\ run' = [run EXCEPT ![p].got = @ + 1]
    /\ NoFault /\ UNCHANGED <<world, temp, record, target, installed>>

\* `Stalled`, a broken connection, a full disk: the half file is kept.
BodyFails(p) ==
    /\ Now(p, "stream")
    /\ Fault /\ Leave(p)
    /\ UNCHANGED <<world, files>>

\* `size_verdict`: a short file is kept to be resumed, a long one is not.
JudgeSize(p) ==
    LET pl == run[p].plan IN
    IF pl.bytes = None \/ run[p].got = pl.bytes
      THEN To(p, "digest") /\ UNCHANGED <<temp, record>>
      ELSE /\ Leave(p)
           /\ IF run[p].got > pl.bytes THEN Discard ELSE UNCHANGED <<temp, record>>

\* The end of the body, of the cap, or of a body that was cut off cleanly.
EndOfBody(p) ==
    /\ Now(p, "stream")
    /\ IF \/ run[p].got = Length[run[p].body]
          \/ run[p].got = BodyCap(run[p].plan, run[p].body)
         THEN NoFault ELSE Fault
    /\ JudgeSize(p)
    /\ UNCHANGED <<world, content, target, installed>>

\* The digest is of the file under the temporary name, read from its start.
Digest(p) ==
    /\ Now(p, "digest")
    /\ \/ temp = None /\ Leave(p) /\ UNCHANGED <<temp, record>>
       \/ /\ temp # None
          /\ IF DigestAgrees(run[p].plan, content[temp])
               THEN To(p, "move") /\ UNCHANGED <<temp, record>>
               ELSE Leave(p) /\ Discard
    /\ NoFault /\ UNCHANGED <<world, content, target, installed>>

Move(p) ==
    /\ Now(p, "move")
    /\ \/ temp # None /\ NoFault /\ target' = temp /\ temp' = None /\ To(p, "sweep")
       \/ temp = None /\ NoFault /\ Leave(p) /\ UNCHANGED <<target, temp>>
       \/ Fault /\ Leave(p) /\ UNCHANGED <<target, temp>>
    /\ UNCHANGED <<world, content, record, installed>>

RemoveRecord(p) ==
    /\ Now(p, "sweep")
    /\ record' = None
    /\ IF caller = "update" THEN To(p, "probe") ELSE Leave(p)
    /\ NoFault /\ UNCHANGED <<world, content, temp, target, installed>>

-----------------------------------------------------------------------------
(* The rest of `install` *)

\* The new binary is run once and asked for its features.  A build that has
\* none itself installs whatever answers, or does not.
Probe(p) ==
    /\ Now(p, "probe")
    /\ IF target = None THEN Leave(p) /\ UNCHANGED target
       ELSE \/ To(p, "swap") /\ UNCHANGED target
            \/ Leave(p) /\ target' = None
    /\ NoFault /\ UNCHANGED <<world, content, temp, record, installed>>

Swap(p) ==
    /\ Now(p, "swap")
    /\ \/ target # None /\ NoFault /\ installed' = target /\ target' = None
       \/ target = None /\ NoFault /\ UNCHANGED <<installed, target>>
       \/ Fault /\ UNCHANGED <<installed, target>>
    /\ Leave(p)
    /\ UNCHANGED <<world, content, temp, record>>

-----------------------------------------------------------------------------
\* A run goes on by itself from the user's yes to its end.
Goes(p) ==
    \/ LookPresent(p) \/ LookMissing(p)
    \/ ServeWhole(p) \/ RangeNotSatisfiable(p) \/ ServeRest(p)
    \/ WriteRecord(p) \/ Receive(p) \/ EndOfBody(p) \/ Digest(p) \/ Move(p)
    \/ RemoveRecord(p) \/ Probe(p) \/ Swap(p)

Next ==
    \/ Publish \/ EditCatalog
    \/ \E p \in Procs :
          \/ Start(p) \/ Refuse(p) \/ Approve(p) \/ Goes(p)
          \/ Crash(p) \/ RequestFails(p) \/ BodyFails(p)

\* The program's own steps are taken; that a user who wants the file runs the
\* command again and says yes is an assumption about the user.
Fairness ==
    \A p \in Procs : WF_vars(Goes(p)) /\ WF_vars(Start(p)) /\ WF_vars(Approve(p))

Spec == Init /\ [][Next]_vars

FairSpec == Spec /\ Fairness

-----------------------------------------------------------------------------
(* Properties *)

\* The variables keep their types.
TypeOK ==
    /\ caller \in Callers /\ plan \in Plans
    /\ served \in Objects /\ gone \subseteq Objects
    /\ content \in [Inodes -> Seq(Byte \union {Hole})]
    /\ {temp, target, installed} \subseteq Inodes \union {None}
    /\ record \in Record \union {None}
    /\ run \in [Procs -> Run]
    /\ faults \in 0 .. MaxFaults

\* What is under the target's name is never the head of one object with the tail
\* of another, whatever the server serves under the URL, however it answers a
\* range and wherever earlier runs were cut off (`resume_basis`, `same_object`).
NeverSpliced ==
    target # None => \E o \in Objects : IsPrefixOf(content[target], o)

Agrees(pl, c) ==
    /\ pl.bytes # None => Len(c) = pl.bytes
    /\ DigestAgrees(pl, c)

SwappedAgrees ==
    installed' # installed =>
        \E p \in Procs : /\ Now(p, "swap") /\ run[p].approved
                        /\ Agrees(run[p].plan, content[target])

\* The package is complete if it exists: the half file goes by another name, and
\* is renamed only once its digest is verified (the comment on TEMP_EXTENSION).
TargetIsComplete == target # None => IsWhole(content[target])

\* The updater replaces the binary only by a file of the published size and
\* digest that this very run downloaded after asking (`clear_staging`,
\* `install`).
SwapsInWhatWasApproved == [][SwappedAgrees]_vars

Fits ==
    /\ plan.bytes \in {None, Length[served]}
    /\ plan.digest \in {None, served}

\* No leftover is a dead end: once the source goes on serving what the catalog
\* declares, a user who runs the command again gets the file, whatever half
\* file and record earlier runs left and however the server answers a range.
EventuallyDownloaded ==
    caller = "models" /\ <>[]Fits => <>(target # None)

=============================================================================
