--------------------------- MODULE DownloadProofs ---------------------------
(***************************************************************************)
(* Download by one process, for any objects, plans and files.  What makes  *)
(* a resumed download safe is a chain of facts: the record beside the half *)
(* file is written before its first byte, so if it names what the source   *)
(* serves now, the half file is the head of that; a resume without a       *)
(* digest asks for the object the record names; and what is counted, what  *)
(* is digested and what is renamed are one file.                           *)
(*                                                                         *)
(* With two processes on one half file the last of these is false, and the *)
(* program does not keep a second one away.  All theorems are therefore    *)
(* about Procs = {p}; what two processes do to the package is shown by the *)
(* run download_two.                                                       *)
(***************************************************************************)
EXTENDS Download, TLAPS

USE DownloadAssumption

\* The half file is not the package.
Apart == temp # None => temp # target

\* An object that was replaced does not come back, and the record names one that
\* was served.
Sources ==
    /\ served \notin gone
    /\ record # None => record.tag \in gone \union {served, None}

\* If the record names what is served now, the half file is the head of it.
RecordNamesHalf ==
    record # None /\ temp # None /\ record.tag = served
        => IsPrefixOf(content[temp], served)

\* What a run that has looked at the half file knows of it.
Asking(p) ==
    Now(p, "ask") \/ Now(p, "request") =>
        /\ run[p].from > 0 => temp # None /\ run[p].from = Len(content[temp])
        /\ run[p].from = 0 => run[p].asked = None
        /\ run[p].asked # None => record # None /\ record.tag = run[p].asked
        /\ run[p].from > 0 /\ run[p].plan.digest = None => run[p].asked # None

\* What a run that writes the half file knows of it.
Writing(p) ==
    /\ Now(p, "record") \/ Now(p, "stream") =>
        /\ temp # None /\ run[p].file = temp
        /\ run[p].body \in gone \union {served}
        /\ run[p].got = Len(content[temp])
        /\ record # None /\ record.tag = served => run[p].body = served
    /\ Now(p, "record") => content[temp] = << >> /\ run[p].tag \in {run[p].body, None}
    /\ Now(p, "stream") /\ run[p].plan.digest = None
        => IsPrefixOf(content[temp], run[p].body)

\* What a run that has the whole body knows of the half file.
Judging(p) ==
    /\ (Now(p, "digest") \/ Now(p, "move")) /\ temp # None =>
        /\ run[p].plan.bytes # None => Len(content[temp]) = run[p].plan.bytes
        /\ run[p].plan.digest = None => \E o \in Objects : IsPrefixOf(content[temp], o)
    /\ Now(p, "move") /\ temp # None => DigestAgrees(run[p].plan, content[temp])

Downloading == {"request", "record", "stream", "digest", "move"}

\* The updater finds nothing of an earlier run in its way, and what it has in hand
\* after the rename is what it asked for.
Updating(p) ==
    /\ caller = "update" /\ run[p].at \in {"look", "ask"} \union Downloading => target = None
    /\ run[p].at \in Downloading => run[p].approved
    /\ run[p].at \in {"sweep", "probe", "swap"} /\ target # None =>
          run[p].approved /\ Agrees(run[p].plan, content[target])

Inv(p) ==
    /\ TypeOK /\ Apart /\ NeverSpliced /\ Sources /\ RecordNamesHalf
    /\ Asking(p) /\ Writing(p) /\ Judging(p) /\ Updating(p)

-----------------------------------------------------------------------------
(* Steps of a run *)

\* A step to another place changes that alone.
LEMMA ToIs ==
    ASSUME NEW p \in Procs, run \in [Procs -> Run], NEW s \in Step, To(p, s)
    PROVE  /\ run' \in [Procs -> Run] /\ run'[p].at = s
           /\ run'[p].plan = run[p].plan /\ run'[p].approved = run[p].approved
           /\ run'[p].body = run[p].body /\ run'[p].tag = run[p].tag
           /\ run'[p].file = run[p].file /\ run'[p].got = run[p].got
<1>1. run[p] \in Run /\ run' = [run EXCEPT ![p].at = s]
  BY DEF To
<1>2. run'[p] = [run[p] EXCEPT !.at = s]
  BY <1>1
<1>3. run'[p] \in Run
  BY <1>1, <1>2 DEF Run
<1>4. run' \in [Procs -> Run]
  BY <1>1, <1>3
<1> QED BY <1>1, <1>2, <1>4 DEF Run

LEMMA IdleIs == ASSUME NEW pl \in Plans PROVE Idle(pl) \in Run /\ Idle(pl).at = "idle"
  BY DEF Idle, Run, Step

\* The end of a run.
LEMMA LeaveIs ==
    ASSUME NEW p \in Procs, run \in [Procs -> Run], Leave(p)
    PROVE  run' \in [Procs -> Run] /\ run'[p].at = "idle"
<1>1. run[p].plan \in Plans
  BY DEF Run
<1>2. run' = [run EXCEPT ![p] = Idle(run[p].plan)]
  BY DEF Leave
<1> QED BY <1>1, <1>2, IdleIs

\* What no step of a run changes, and the count of faults.
Aside ==
    /\ UNCHANGED <<caller, plan, served, gone>>
    /\ faults' \in 0 .. MaxFaults

LEMMA FaultIs ==
    ASSUME TypeOK, Fault \/ NoFault
    PROVE  faults' \in 0 .. MaxFaults
  BY DEF TypeOK, Fault, NoFault

\* A run that ends keeps Inv, whatever it removes.
LEMMA LeaveKeeps ==
    ASSUME NEW p \in Procs, Inv(p), Leave(p), Aside, content' = content,
           temp' \in {temp, None}, record' \in {record, None},
           target' \in {target, None}, installed' \in {installed, target}
    PROVE  Inv(p)'
<1>1. run' \in [Procs -> Run] /\ run'[p].at = "idle"
  BY LeaveIs DEF Inv, TypeOK
<1>2. TypeOK'
  BY <1>1 DEF Inv, TypeOK, Aside
<1>3. Apart' /\ NeverSpliced' /\ Sources' /\ RecordNamesHalf'
  BY DEF Inv, Apart, NeverSpliced, Sources, RecordNamesHalf, Aside
<1>4. Asking(p)' /\ Writing(p)' /\ Judging(p)' /\ Updating(p)'
  BY <1>1 DEF Asking, Writing, Judging, Updating, Downloading, Now
<1> QED BY <1>2, <1>3, <1>4 DEF Inv

-----------------------------------------------------------------------------
(* Heads of objects *)

Content == Seq(Byte \union {Hole})

LEMMA EmptyIsPrefix == \A o \in Objects : IsPrefixOf(<< >>, o)
  BY DEF IsPrefixOf

LEMMA WholeIsPrefix == ASSUME NEW o \in Objects PROVE IsPrefixOf(Whole(o), o)
<1>1. Length[o] \in Nat
  OBVIOUS
<1>2. Len(Whole(o)) = Length[o] /\ DOMAIN Whole(o) = 1 .. Length[o]
  BY <1>1 DEF Whole
<1> QED BY <1>1, <1>2 DEF IsPrefixOf, Whole

\* The next byte of an object makes a longer head of it.
LEMMA PrefixGrows ==
    ASSUME NEW o \in Objects, NEW c \in Content, Len(c) < Length[o]
    PROVE  LET d == Append(c, [of |-> o, at |-> Len(c) + 1])
           IN  /\ d \in Content /\ Len(d) = Len(c) + 1
               /\ IsPrefixOf(c, o) => IsPrefixOf(d, o)
<1> DEFINE byte == [of |-> o, at |-> Len(c) + 1]
           d == Append(c, byte)
<1>1. byte \in Byte \union {Hole} /\ Len(c) \in Nat /\ Length[o] \in Nat
  BY DEF Byte, Content
<1> HIDE DEF byte
<1>2. /\ d \in Content /\ Len(d) = Len(c) + 1 /\ DOMAIN d = 1 .. Len(c) + 1
      /\ DOMAIN c = 1 .. Len(c)
      /\ \A i \in 1 .. Len(c) : d[i] = c[i]
      /\ d[Len(c) + 1] = byte
  BY <1>1 DEF Content
<1> HIDE DEF d
<1>3. ASSUME IsPrefixOf(c, o) PROVE IsPrefixOf(d, o)
  <2>1. ASSUME NEW i \in 1 .. Len(c) + 1 PROVE d[i] = [of |-> o, at |-> i]
    <3>1. CASE i = Len(c) + 1
      BY <1>2, <3>1 DEF byte
    <3>2. CASE i \in 1 .. Len(c)
      BY <1>2, <1>3, <3>2 DEF IsPrefixOf
    <3> QED BY <1>1, <3>1, <3>2
  <2> QED BY <1>1, <1>2, <2>1 DEF IsPrefixOf
<1> QED BY <1>2, <1>3 DEF d, byte

-----------------------------------------------------------------------------
(* The world outside *)

\* The source moves on: what the record names is then of the past.
LEMMA WorldKeeps ==
    ASSUME NEW p \in Procs, Inv(p), Publish \/ EditCatalog
    PROVE  Inv(p)'
<1>1. /\ UNCHANGED <<caller, content, temp, record, target, installed, run>>
      /\ faults' \in 0 .. MaxFaults
  BY FaultIs DEF Publish, EditCatalog, files, Inv
<1>2. /\ served' \in Objects /\ gone' \subseteq Objects /\ plan' \in Plans
      /\ served' \notin gone'
      /\ gone \union {served} \subseteq gone' \union {served'}
      /\ served' = served \/ gone' = gone \union {served}
  <2>1. CASE Publish
    BY <2>1 DEF Publish, Inv, TypeOK, Sources
  <2>2. CASE EditCatalog
    BY <2>2 DEF EditCatalog, Inv, TypeOK, Sources
  <2> QED BY <2>1, <2>2
<1>3. TypeOK'
  BY <1>1, <1>2 DEF Inv, TypeOK
<1>4. served' # served => record = None \/ record.tag # served'
  BY <1>2, None \notin Objects DEF Inv, Sources, TypeOK
<1>5. Apart' /\ NeverSpliced' /\ Sources' /\ RecordNamesHalf'
  BY <1>1, <1>2, <1>4 DEF Inv, Apart, NeverSpliced, Sources, RecordNamesHalf
<1>6. Asking(p)' /\ Writing(p)' /\ Judging(p)' /\ Updating(p)'
  BY <1>1, <1>2, <1>4 DEF Inv, Asking, Writing, Judging, Updating, Now
<1> QED BY <1>3, <1>5, <1>6 DEF Inv

-----------------------------------------------------------------------------
(* Up to the network gate *)

LEMMA StartKeeps ==
    ASSUME NEW p \in Procs, Inv(p), Start(p)
    PROVE  Inv(p)'
<1>1. /\ Aside /\ content' = content /\ installed' = installed
      /\ run' = [run EXCEPT ![p] = [Idle(plan) EXCEPT !.at = "look"]]
      /\ temp' \in {temp, None} /\ record' \in {record, None} /\ target' \in {target, None}
      /\ caller = "update" => target' = None
  BY FaultIs DEF Start, Inv, Aside, world, Discard
<1>2. run' \in [Procs -> Run] /\ run'[p].at = "look"
  <2>1. plan \in Plans /\ run \in [Procs -> Run]
    BY DEF Inv, TypeOK
  <2>2. [Idle(plan) EXCEPT !.at = "look"] \in Run
        /\ [Idle(plan) EXCEPT !.at = "look"].at = "look"
    BY <2>1, IdleIs DEF Run, Step
  <2> QED BY <1>1, <2>1, <2>2
<1>3. TypeOK'
  BY <1>1, <1>2 DEF Inv, TypeOK, Aside
<1>4. Apart' /\ NeverSpliced' /\ Sources' /\ RecordNamesHalf'
  BY <1>1 DEF Inv, Apart, NeverSpliced, Sources, RecordNamesHalf, Aside
<1>5. Asking(p)' /\ Writing(p)' /\ Judging(p)' /\ Updating(p)'
  BY <1>1, <1>2 DEF Asking, Writing, Judging, Updating, Downloading, Now, Aside
<1> QED BY <1>3, <1>4, <1>5 DEF Inv

\* What the leftover is worth.
LEMMA BasisIs ==
    ASSUME TypeOK, NEW pl \in Plans, NEW n \in Nat
    PROVE  LET b == ResumeBasis(pl, n) IN
           /\ b.from \in {0, n} /\ b.tag \in Objects \union {None}
           /\ b.from = 0 => b.tag = None
           /\ b.tag # None => record # None /\ record.tag = b.tag
           /\ b.from > 0 /\ pl.digest = None => b.tag # None
<1>1. record = None \/ record.tag \in Objects \union {None}
  BY DEF TypeOK, Record
<1> QED BY <1>1 DEF ResumeBasis

LEMMA LookKeeps ==
    ASSUME NEW p \in Procs, Inv(p), LookPresent(p) \/ LookMissing(p)
    PROVE  Inv(p)'
<1>0. run \in [Procs -> Run] /\ run[p] \in Run /\ run[p].plan \in Plans
  BY DEF Inv, TypeOK, Run
<1>1. CASE LookPresent(p)
  <2>1. /\ Aside /\ UNCHANGED <<content, temp, record, target, installed>>
        /\ Now(p, "look") /\ target # None
    BY <1>1, FaultIs DEF LookPresent, Inv, Aside, world, files
  <2>2. caller # "update"
    BY <2>1 DEF Inv, Updating, Now
  <2>3. Leave(p)
    BY <1>1, <2>2 DEF LookPresent
  <2> QED BY <2>1, <2>3, LeaveKeeps
<1>2. CASE LookMissing(p)
  <2> DEFINE n == IF temp = None THEN 0 ELSE Len(content[temp])
             b == ResumeBasis(run[p].plan, n)
  <2>1. /\ Aside /\ UNCHANGED <<content, temp, record, target, installed>>
        /\ Now(p, "look") /\ target = None
        /\ run' = [run EXCEPT ![p].at = "ask", ![p].from = b.from, ![p].asked = b.tag]
    BY <1>2, FaultIs DEF LookMissing, Inv, Aside, world, files
  <2>2. n \in Nat
    BY DEF Inv, TypeOK
  <2>3. /\ b.from \in {0, n} /\ b.tag \in Objects \union {None}
        /\ b.from = 0 => b.tag = None
        /\ b.tag # None => record # None /\ record.tag = b.tag
        /\ b.from > 0 /\ run[p].plan.digest = None => b.tag # None
    BY <1>0, <2>2, BasisIs DEF Inv
  <2>4. b.from > 0 => temp # None /\ b.from = Len(content[temp])
    BY <2>2, <2>3
  <2> HIDE DEF b, n
  <2>5. run' \in [Procs -> Run] /\ run'[p].at = "ask" /\ run'[p].plan = run[p].plan
        /\ run'[p].from = b.from /\ run'[p].asked = b.tag
    <3> DEFINE from == b.from
               tag == b.tag
               r == [run[p] EXCEPT !.at = "ask", !.from = from, !.asked = tag]
    <3>0. from \in Nat /\ tag \in Objects \union {None}
      BY <2>2, <2>3
    <3> HIDE DEF from, tag
    <3>1. r \in Run /\ r.at = "ask" /\ r.plan = run[p].plan
          /\ r.from = from /\ r.asked = tag
      BY <1>0, <3>0 DEF Run, Step
    <3> USE DEF from, tag
    <3>2. run' = [run EXCEPT ![p] = r]
      BY <1>0, <2>1 DEF Run
    <3> HIDE DEF r
    <3> QED BY <1>0, <3>1, <3>2
  <2>6. TypeOK'
    BY <2>1, <2>5 DEF Inv, TypeOK, Aside
  <2>7. Apart' /\ NeverSpliced' /\ Sources' /\ RecordNamesHalf'
    BY <2>1 DEF Inv, Apart, NeverSpliced, Sources, RecordNamesHalf, Aside
  <2>8. Asking(p)' /\ Writing(p)' /\ Judging(p)' /\ Updating(p)'
    BY <2>1, <2>3, <2>4, <2>5 DEF Asking, Writing, Judging, Updating, Downloading, Now, Aside
  <2> QED BY <2>6, <2>7, <2>8 DEF Inv
<1> QED BY <1>1, <1>2

LEMMA ApproveKeeps ==
    ASSUME NEW p \in Procs, Inv(p), Approve(p)
    PROVE  Inv(p)'
<1>0. run \in [Procs -> Run] /\ run[p] \in Run
  BY DEF Inv, TypeOK
<1>1. /\ Aside /\ UNCHANGED <<content, target, installed>> /\ Now(p, "ask")
      /\ run' = [run EXCEPT ![p].at = "request", ![p].approved = TRUE]
      /\ IF run[p].from = 0 THEN temp' = None /\ record' = None
                            ELSE temp' = temp /\ record' = record
  BY FaultIs DEF Approve, Inv, Aside, world, Discard
<1>2. /\ run' \in [Procs -> Run] /\ run'[p].at = "request" /\ run'[p].plan = run[p].plan
      /\ run'[p].from = run[p].from /\ run'[p].asked = run[p].asked /\ run'[p].approved
      /\ run[p].from \in Nat
  BY <1>0, <1>1 DEF Run, Step
<1>3. TypeOK'
  BY <1>1, <1>2 DEF Inv, TypeOK, Aside
<1>4. Apart' /\ NeverSpliced' /\ Sources' /\ RecordNamesHalf'
  BY <1>1 DEF Inv, Apart, NeverSpliced, Sources, RecordNamesHalf, Aside
<1>5. Asking(p)'
  BY <1>1, <1>2 DEF Inv, Asking, Now
<1>6. Writing(p)' /\ Judging(p)' /\ Updating(p)'
  BY <1>1, <1>2 DEF Inv, Writing, Judging, Updating, Downloading, Now, Aside
<1> QED BY <1>3, <1>4, <1>5, <1>6 DEF Inv

-----------------------------------------------------------------------------
(* The answer *)

\* A fresh half file is empty, and nothing else is cut: not the package.
LEMMA ServeWholeKeeps ==
    ASSUME NEW p \in Procs, Inv(p), ServeWhole(p)
    PROVE  Inv(p)'
<1>0. run \in [Procs -> Run] /\ run[p] \in Run /\ served \in Objects
  BY DEF Inv, TypeOK
<1>1. PICK tag \in Tags : CreateTemp(p, tag)
  BY DEF ServeWhole
<1>2. /\ Aside /\ UNCHANGED <<record, target, installed>> /\ Now(p, "request")
      /\ tag \in {served, None}
  BY FaultIs DEF ServeWhole, Inv, Aside, world, Tags
<1>3. /\ temp' \in Inodes /\ temp' # target /\ temp' # None
      /\ target \notin Unused /\ (temp # None => temp' = temp)
  <2>1. CASE temp = None
    <3>1. PICK i \in Unused : temp' = i
      BY <1>1, <2>1 DEF CreateTemp
    <3> QED BY <2>1, <3>1 DEF Unused
  <2>2. CASE temp # None
    BY <1>1, <2>2 DEF CreateTemp, Inv, TypeOK, Apart, Unused
  <2> QED BY <2>1, <2>2
<1>4. content' = [i \in Inodes |-> IF i \in Unused \union {temp'} THEN << >> ELSE content[i]]
  BY <1>1 DEF CreateTemp
<1>5. /\ content' \in [Inodes -> Content] /\ content'[temp'] = << >>
      /\ target # None => content'[target] = content[target]
  <2>1. content \in [Inodes -> Content] /\ << >> \in Content /\ target \in Inodes \union {None}
    BY DEF Inv, TypeOK, Content
  <2> QED BY <1>3, <1>4, <2>1
<1>6. /\ run' \in [Procs -> Run] /\ run'[p].at = "record" /\ run'[p].plan = run[p].plan
      /\ run'[p].approved = run[p].approved /\ run'[p].body = served /\ run'[p].tag = tag
      /\ run'[p].file = temp' /\ run'[p].got = 0
  <2> DEFINE t == temp'
             r == [run[p] EXCEPT !.at = "record", !.body = served, !.tag = tag, !.file = t,
                                 !.resumed = FALSE, !.got = 0]
  <2>1. t \in Inodes /\ run' = [run EXCEPT ![p] = r]
    BY <1>0, <1>1, <1>3 DEF CreateTemp, Run
  <2> HIDE DEF t
  <2>2. /\ r \in Run /\ r.at = "record" /\ r.plan = run[p].plan
        /\ r.approved = run[p].approved /\ r.body = served /\ r.tag = tag
        /\ r.file = t /\ r.got = 0
    BY <1>0, <1>2, <2>1 DEF Run, Step
  <2> HIDE DEF r
  <2> QED BY <1>0, <2>1, <2>2 DEF t
<1>7. TypeOK'
  BY <1>2, <1>3, <1>5, <1>6 DEF Inv, TypeOK, Aside, Content
<1>8. Apart' /\ NeverSpliced' /\ Sources'
  BY <1>2, <1>3, <1>5 DEF Inv, Apart, NeverSpliced, Sources, Aside
<1>9. RecordNamesHalf'
  BY <1>0, <1>2, <1>5, EmptyIsPrefix DEF RecordNamesHalf, Aside
<1>10. Writing(p)'
  BY <1>2, <1>3, <1>5, <1>6 DEF Writing, Now, Aside
<1>11. Asking(p)' /\ Judging(p)' /\ Updating(p)'
  BY <1>2, <1>6 DEF Inv, Asking, Judging, Updating, Downloading, Now, Aside
<1> QED BY <1>7, <1>8, <1>9, <1>10, <1>11 DEF Inv

LEMMA RangeKeeps ==
    ASSUME NEW p \in Procs, Inv(p), RangeNotSatisfiable(p)
    PROVE  Inv(p)'
<1>0. run \in [Procs -> Run] /\ run[p] \in Run
  BY DEF Inv, TypeOK
<1>1. /\ Aside /\ UNCHANGED <<content, target, installed>> /\ Now(p, "request")
      /\ run' = [run EXCEPT ![p].from = 0, ![p].asked = None]
      /\ temp' = None /\ record' = None
  BY FaultIs DEF RangeNotSatisfiable, Inv, Aside, world, Discard
<1>2. /\ run' \in [Procs -> Run] /\ run'[p].at = run[p].at /\ run'[p].plan = run[p].plan
      /\ run'[p].from = 0 /\ run'[p].asked = None /\ run'[p].approved = run[p].approved
  BY <1>0, <1>1 DEF Run
<1>3. TypeOK'
  BY <1>1, <1>2 DEF Inv, TypeOK, Aside
<1>4. Apart' /\ NeverSpliced' /\ Sources' /\ RecordNamesHalf'
  BY <1>1 DEF Inv, Apart, NeverSpliced, Sources, RecordNamesHalf, Aside
<1>5. Asking(p)' /\ Writing(p)' /\ Judging(p)' /\ Updating(p)'
  BY <1>1, <1>2 DEF Inv, Asking, Writing, Judging, Updating, Downloading, Now, Aside
<1> QED BY <1>3, <1>4, <1>5 DEF Inv

\* A resume whose object the record names goes on with the head of it.
LEMMA ServeRestKeeps ==
    ASSUME NEW p \in Procs, Inv(p), ServeRest(p)
    PROVE  Inv(p)'
<1>0. run \in [Procs -> Run] /\ run[p] \in Run /\ served \in Objects
  BY DEF Inv, TypeOK
<1>1. PICK a \in Partial(p) :
          \/ ~ Continues(run[p], a) /\ Leave(p) /\ Discard
          \/ /\ Continues(run[p], a) /\ temp = None
             /\ Leave(p) /\ UNCHANGED <<temp, record>>
          \/ /\ Continues(run[p], a) /\ temp # None
             /\ run' = [run EXCEPT ![p].at = "stream", ![p].body = served,
                                   ![p].file = temp, ![p].resumed = TRUE,
                                   ![p].got = run[p].from]
             /\ UNCHANGED <<temp, record>>
  BY DEF ServeRest
<1>2. /\ Aside /\ UNCHANGED <<content, target, installed>> /\ Now(p, "request")
      /\ run[p].from > 0
  BY FaultIs DEF ServeRest, Inv, Aside, world
<1>3. CASE Leave(p) /\ (Discard \/ UNCHANGED <<temp, record>>)
  BY <1>2, <1>3, LeaveKeeps DEF Discard
<1>4. CASE /\ Continues(run[p], a) /\ temp # None /\ UNCHANGED <<temp, record>>
           /\ run' = [run EXCEPT ![p].at = "stream", ![p].body = served,
                                 ![p].file = temp, ![p].resumed = TRUE,
                                 ![p].got = run[p].from]
  <2>1. /\ run' \in [Procs -> Run] /\ run'[p].at = "stream" /\ run'[p].plan = run[p].plan
        /\ run'[p].approved = run[p].approved /\ run'[p].body = served
        /\ run'[p].file = temp /\ run'[p].got = run[p].from
    <3> DEFINE from == run[p].from
               r == [run[p] EXCEPT !.at = "stream", !.body = served, !.file = temp,
                                   !.resumed = TRUE, !.got = from]
    <3>1. from \in Nat /\ temp \in Inodes /\ run' = [run EXCEPT ![p] = r]
      BY <1>0, <1>4 DEF Inv, TypeOK, Run
    <3> HIDE DEF from
    <3>2. /\ r \in Run /\ r.at = "stream" /\ r.plan = run[p].plan
          /\ r.approved = run[p].approved /\ r.body = served
          /\ r.file = temp /\ r.got = from
      BY <1>0, <3>1 DEF Run, Step
    <3> HIDE DEF r
    <3> QED BY <1>0, <3>1, <3>2 DEF from
  <2>2. TypeOK'
    BY <1>2, <1>4, <2>1 DEF Inv, TypeOK, Aside
  <2>3. Apart' /\ NeverSpliced' /\ Sources' /\ RecordNamesHalf'
    BY <1>2, <1>4 DEF Inv, Apart, NeverSpliced, Sources, RecordNamesHalf, Aside
  <2>4. run[p].from = Len(content[temp])
    BY <1>2 DEF Inv, Asking
  <2>5. run[p].plan.digest = None => IsPrefixOf(content[temp], served)
    <3> SUFFICES ASSUME run[p].plan.digest = None PROVE IsPrefixOf(content[temp], served)
      OBVIOUS
    <3>1. run[p].asked # None /\ record # None /\ record.tag = run[p].asked
      BY <1>2 DEF Inv, Asking
    <3>2. a.tag = run[p].asked /\ a.tag \in {served, None}
      BY <1>4, <3>1 DEF Continues, Partial, Tags
    <3> QED BY <1>4, <3>1, <3>2 DEF Inv, RecordNamesHalf
  <2>6. Writing(p)'
    BY <1>2, <1>4, <2>1, <2>4, <2>5 DEF Writing, Now, Aside
  <2>7. Asking(p)' /\ Judging(p)' /\ Updating(p)'
    BY <1>2, <2>1 DEF Inv, Asking, Judging, Updating, Downloading, Now, Aside
  <2> QED BY <2>2, <2>3, <2>6, <2>7 DEF Inv
<1> QED BY <1>1, <1>3, <1>4

\* The record is written while the half file is empty; if the writing fails, the old
\* record names no other object than the body unless that is of the past.
LEMMA WriteRecordKeeps ==
    ASSUME NEW p \in Procs, Inv(p), WriteRecord(p)
    PROVE  Inv(p)'
<1>0. run \in [Procs -> Run] /\ run[p] \in Run /\ gone \union {served} \subseteq Objects
  BY DEF Inv, TypeOK
<1>1. /\ Aside /\ UNCHANGED <<content, temp, target, installed>> /\ Now(p, "record")
      /\ To(p, "stream")
      /\ \/ record' = [plan |-> run[p].plan, tag |-> run[p].tag]
         \/ record' \in {None, record}
  BY FaultIs DEF WriteRecord, Inv, Aside, world
<1>2. /\ run' \in [Procs -> Run] /\ run'[p].at = "stream" /\ run'[p].plan = run[p].plan
      /\ run'[p].approved = run[p].approved /\ run'[p].body = run[p].body
      /\ run'[p].file = run[p].file /\ run'[p].got = run[p].got
  BY <1>0, <1>1, ToIs DEF Step
<1>3. /\ temp # None /\ run[p].file = temp /\ run[p].body \in gone \union {served}
      /\ run[p].got = Len(content[temp]) /\ content[temp] = << >>
      /\ run[p].tag \in {run[p].body, None}
      /\ record # None /\ record.tag = served => run[p].body = served
  BY <1>1 DEF Inv, Writing
<1>4. /\ record' \in Record \union {None}
      /\ record' # None => record'.tag \in gone \union {served, None}
      /\ record' # None /\ record'.tag = served => run[p].body = served
  <2>1. CASE record' = [plan |-> run[p].plan, tag |-> run[p].tag]
    <3>1. run[p].plan \in Plans
      BY <1>0 DEF Run
    <3> QED BY <1>0, <1>3, <2>1, <3>1 DEF Record
  <2>2. CASE record' \in {None, record}
    BY <1>3, <2>2 DEF Inv, TypeOK, Sources
  <2> QED BY <1>1, <2>1, <2>2
<1>5. IsPrefixOf(content[temp], served) /\ IsPrefixOf(content[temp], run[p].body)
  BY <1>0, <1>3, EmptyIsPrefix
<1>6. TypeOK'
  BY <1>1, <1>2, <1>4 DEF Inv, TypeOK, Aside
<1>7. Apart' /\ NeverSpliced' /\ Sources' /\ RecordNamesHalf'
  BY <1>1, <1>4, <1>5 DEF Inv, Apart, NeverSpliced, Sources, RecordNamesHalf, Aside
<1>8. Writing(p)'
  BY <1>1, <1>2, <1>3, <1>4, <1>5 DEF Writing, Now, Aside
<1>9. Asking(p)' /\ Judging(p)' /\ Updating(p)'
  BY <1>1, <1>2 DEF Inv, Asking, Judging, Updating, Downloading, Now, Aside
<1> QED BY <1>6, <1>7, <1>8, <1>9 DEF Inv

-----------------------------------------------------------------------------
(* The body *)

\* One process writes at the end of the half file, whichever way it was opened, and
\* touches nothing else.
LEMMA ReceiveKeeps ==
    ASSUME NEW p \in Procs, Inv(p), Receive(p)
    PROVE  Inv(p)'
<1>0. /\ run \in [Procs -> Run] /\ run[p] \in Run /\ gone \union {served} \subseteq Objects
      /\ content \in [Inodes -> Content]
  BY DEF Inv, TypeOK, Content
<1>1. /\ Aside /\ UNCHANGED <<temp, record, target, installed>> /\ Now(p, "stream")
      /\ run[p].got < Length[run[p].body]
      /\ content' = [content EXCEPT ![run[p].file] = Written(@, run[p])]
      /\ run' = [run EXCEPT ![p].got = @ + 1]
  BY FaultIs DEF Receive, Inv, Aside, world
<1>2. /\ temp \in Inodes /\ run[p].file = temp /\ run[p].body \in Objects
      /\ run[p].got = Len(content[temp]) /\ content[temp] \in Content
      /\ record # None /\ record.tag = served => run[p].body = served
      /\ run[p].plan.digest = None => IsPrefixOf(content[temp], run[p].body)
  BY <1>0, <1>1 DEF Inv, Writing, TypeOK
<1>3. /\ run' \in [Procs -> Run] /\ run'[p].at = "stream" /\ run'[p].plan = run[p].plan
      /\ run'[p].approved = run[p].approved /\ run'[p].body = run[p].body
      /\ run'[p].file = run[p].file /\ run'[p].got = run[p].got + 1
  <2>1. run[p].got + 1 \in Nat /\ run[p].at = "stream"
    BY <1>0, <1>1 DEF Run, Now
  <2> QED BY <1>0, <1>1, <2>1 DEF Run
<1> DEFINE c == content[temp]
           o == run[p].body
           d == Append(c, [of |-> o, at |-> Len(c) + 1])
<1>4. content' = [content EXCEPT ![temp] = d]
  BY <1>0, <1>1, <1>2 DEF Written
<1>5. d \in Content /\ Len(d) = Len(c) + 1 /\ (IsPrefixOf(c, o) => IsPrefixOf(d, o))
  BY <1>1, <1>2, PrefixGrows
<1> HIDE DEF d
<1>6. /\ content' \in [Inodes -> Content] /\ content'[temp] = d
      /\ \A i \in Inodes : i # temp => content'[i] = content[i]
  BY <1>0, <1>2, <1>4, <1>5
<1>7. TypeOK'
  BY <1>1, <1>3, <1>6 DEF Inv, TypeOK, Aside, Content
<1>8. temp # target /\ (target # None => content'[target] = content[target])
  BY <1>2, <1>6 DEF Inv, Apart, TypeOK
<1>9. Apart' /\ NeverSpliced' /\ Sources'
  BY <1>1, <1>8 DEF Inv, Apart, NeverSpliced, Sources, Aside
<1>10. RecordNamesHalf'
  BY <1>1, <1>2, <1>5, <1>6 DEF Inv, RecordNamesHalf, Aside
<1>11. Writing(p)'
  BY <1>1, <1>2, <1>3, <1>5, <1>6 DEF Inv, Writing, Now, Aside
<1>12. Asking(p)' /\ Judging(p)' /\ Updating(p)'
  BY <1>1, <1>3 DEF Inv, Asking, Judging, Updating, Downloading, Now, Aside
<1> QED BY <1>7, <1>9, <1>10, <1>11, <1>12 DEF Inv

\* What is counted is the length of the half file.
LEMMA EndKeeps ==
    ASSUME NEW p \in Procs, Inv(p), EndOfBody(p)
    PROVE  Inv(p)'
<1>0. run \in [Procs -> Run] /\ run[p] \in Run /\ gone \union {served} \subseteq Objects
  BY DEF Inv, TypeOK
<1>1. /\ Aside /\ UNCHANGED <<content, target, installed>> /\ Now(p, "stream")
      /\ JudgeSize(p)
  BY FaultIs DEF EndOfBody, Inv, Aside, world
<1>2. CASE Leave(p) /\ (Discard \/ UNCHANGED <<temp, record>>)
  BY <1>1, <1>2, LeaveKeeps DEF Discard
<1>3. CASE /\ run[p].plan.bytes = None \/ run[p].got = run[p].plan.bytes
           /\ To(p, "digest") /\ UNCHANGED <<temp, record>>
  <2>1. /\ run' \in [Procs -> Run] /\ run'[p].at = "digest" /\ run'[p].plan = run[p].plan
        /\ run'[p].approved = run[p].approved
    BY <1>0, <1>3, ToIs DEF Step
  <2>2. /\ run[p].got = Len(content[temp]) /\ run[p].body \in Objects
        /\ run[p].plan.digest = None => IsPrefixOf(content[temp], run[p].body)
    BY <1>0, <1>1 DEF Inv, Writing
  <2>3. TypeOK'
    BY <1>1, <1>3, <2>1 DEF Inv, TypeOK, Aside
  <2>4. Apart' /\ NeverSpliced' /\ Sources' /\ RecordNamesHalf'
    BY <1>1, <1>3 DEF Inv, Apart, NeverSpliced, Sources, RecordNamesHalf, Aside
  <2>5. Judging(p)'
    BY <1>1, <1>3, <2>1, <2>2 DEF Judging, Now
  <2>6. Asking(p)' /\ Writing(p)' /\ Updating(p)'
    BY <1>1, <2>1 DEF Inv, Asking, Writing, Updating, Downloading, Now, Aside
  <2> QED BY <2>3, <2>4, <2>5, <2>6 DEF Inv
<1> QED BY <1>1, <1>2, <1>3 DEF JudgeSize

LEMMA DigestKeeps ==
    ASSUME NEW p \in Procs, Inv(p), Digest(p)
    PROVE  Inv(p)'
<1>0. run \in [Procs -> Run] /\ run[p] \in Run
  BY DEF Inv, TypeOK
<1>1. /\ Aside /\ UNCHANGED <<content, target, installed>> /\ Now(p, "digest")
      /\ \/ Leave(p) /\ (Discard \/ UNCHANGED <<temp, record>>)
         \/ /\ DigestAgrees(run[p].plan, content[temp])
            /\ To(p, "move") /\ UNCHANGED <<temp, record>>
  BY FaultIs DEF Digest, Inv, Aside, world
<1>2. CASE Leave(p) /\ (Discard \/ UNCHANGED <<temp, record>>)
  BY <1>1, <1>2, LeaveKeeps DEF Discard
<1>3. CASE /\ DigestAgrees(run[p].plan, content[temp])
           /\ To(p, "move") /\ UNCHANGED <<temp, record>>
  <2>1. /\ run' \in [Procs -> Run] /\ run'[p].at = "move" /\ run'[p].plan = run[p].plan
        /\ run'[p].approved = run[p].approved
    BY <1>0, <1>3, ToIs DEF Step
  <2>2. TypeOK'
    BY <1>1, <1>3, <2>1 DEF Inv, TypeOK, Aside
  <2>3. Apart' /\ NeverSpliced' /\ Sources' /\ RecordNamesHalf'
    BY <1>1, <1>3 DEF Inv, Apart, NeverSpliced, Sources, RecordNamesHalf, Aside
  <2>4. Judging(p)'
    BY <1>1, <1>3, <2>1 DEF Inv, Judging, Now, DigestAgrees
  <2>5. Asking(p)' /\ Writing(p)' /\ Updating(p)'
    BY <1>1, <2>1 DEF Inv, Asking, Writing, Updating, Downloading, Now, Aside
  <2> QED BY <2>2, <2>3, <2>4, <2>5 DEF Inv
<1> QED BY <1>1, <1>2, <1>3

-----------------------------------------------------------------------------
(* The rename and what follows *)

\* What is about to be renamed is of the declared size and digest, and the head of
\* one object.
LEMMA MovedIs ==
    ASSUME NEW p \in Procs, Inv(p), Now(p, "move"), temp # None
    PROVE  /\ Agrees(run[p].plan, content[temp])
           /\ \E o \in Objects : IsPrefixOf(content[temp], o)
<1>1. /\ run[p].plan.digest \in Objects \union {None}
      /\ run[p].plan.bytes # None => Len(content[temp]) = run[p].plan.bytes
      /\ DigestAgrees(run[p].plan, content[temp])
  <2>1. run[p].plan \in Plans
    BY DEF Inv, TypeOK, Run
  <2>2. run[p].plan.digest \in Objects \union {None}
    BY <2>1
  <2> QED BY <2>2 DEF Inv, Judging
<1>2. CASE run[p].plan.digest = None
  BY <1>1, <1>2 DEF Inv, Judging, Agrees
<1>3. CASE run[p].plan.digest # None
  BY <1>1, <1>3, WholeIsPrefix DEF Agrees, DigestAgrees
<1> QED BY <1>2, <1>3

LEMMA MoveKeeps ==
    ASSUME NEW p \in Procs, Inv(p), Move(p)
    PROVE  Inv(p)'
<1>0. run \in [Procs -> Run] /\ run[p] \in Run
  BY DEF Inv, TypeOK
<1>1. /\ Aside /\ UNCHANGED <<content, record, installed>> /\ Now(p, "move")
      /\ \/ temp # None /\ target' = temp /\ temp' = None /\ To(p, "sweep")
         \/ Leave(p) /\ UNCHANGED <<target, temp>>
  BY FaultIs DEF Move, Inv, Aside, world
<1>2. CASE Leave(p) /\ UNCHANGED <<target, temp>>
  BY <1>1, <1>2, LeaveKeeps
<1>3. CASE temp # None /\ target' = temp /\ temp' = None /\ To(p, "sweep")
  <2>1. /\ run' \in [Procs -> Run] /\ run'[p].at = "sweep" /\ run'[p].plan = run[p].plan
        /\ run'[p].approved = run[p].approved
    BY <1>0, <1>3, ToIs DEF Step
  <2>2. run[p].approved
    BY <1>1 DEF Inv, Updating, Downloading, Now
  <2>3. TypeOK'
    BY <1>1, <1>3, <2>1 DEF Inv, TypeOK, Aside
  <2>4. NeverSpliced'
    BY <1>1, <1>3, MovedIs DEF NeverSpliced
  <2>5. Apart' /\ Sources' /\ RecordNamesHalf'
    BY <1>1, <1>3 DEF Inv, Apart, Sources, RecordNamesHalf, Aside
  <2>6. Updating(p)'
    BY <1>1, <1>3, <2>1, <2>2, MovedIs DEF Updating, Downloading
  <2>7. Asking(p)' /\ Writing(p)' /\ Judging(p)'
    BY <2>1 DEF Asking, Writing, Judging, Now
  <2> QED BY <2>3, <2>4, <2>5, <2>6, <2>7 DEF Inv
<1> QED BY <1>1, <1>2, <1>3

\* The record goes, the new binary is tried, and it is swapped in.
LEMMA InstallKeeps ==
    ASSUME NEW p \in Procs, Inv(p), RemoveRecord(p) \/ Probe(p) \/ Swap(p)
    PROVE  Inv(p)'
<1>0. run \in [Procs -> Run] /\ run[p] \in Run
  BY DEF Inv, TypeOK
<1>1. /\ Aside /\ UNCHANGED <<content, temp>> /\ run[p].at \in {"sweep", "probe", "swap"}
      /\ record' \in {record, None} /\ target' \in {target, None}
      /\ installed' \in {installed, target}
  BY FaultIs DEF RemoveRecord, Probe, Swap, Inv, Aside, world, Now
<1>2. CASE Leave(p)
  BY <1>1, <1>2, LeaveKeeps
<1>3. ASSUME NEW s \in {"probe", "swap"}, To(p, s) PROVE Inv(p)'
  <2>1. /\ run' \in [Procs -> Run] /\ run'[p].at = s /\ run'[p].plan = run[p].plan
        /\ run'[p].approved = run[p].approved
    BY <1>0, <1>3, ToIs DEF Step
  <2>2. TypeOK'
    BY <1>1, <2>1 DEF Inv, TypeOK, Aside
  <2>3. Apart' /\ NeverSpliced' /\ Sources' /\ RecordNamesHalf'
    BY <1>1 DEF Inv, Apart, NeverSpliced, Sources, RecordNamesHalf, Aside
  <2>4. Updating(p)'
    BY <1>1, <1>3, <2>1 DEF Inv, Updating, Downloading
  <2>5. Asking(p)' /\ Writing(p)' /\ Judging(p)'
    BY <1>3, <2>1 DEF Asking, Writing, Judging, Now
  <2> QED BY <2>2, <2>3, <2>4, <2>5 DEF Inv
<1> QED BY <1>2, <1>3 DEF RemoveRecord, Probe, Swap

-----------------------------------------------------------------------------
(* Theorems *)

LEMMA InitInv == ASSUME NEW p \in Procs, Init PROVE Inv(p)
<1>1. run \in [Procs -> Run] /\ run[p].at = "idle"
  BY IdleIs DEF Init
<1>2. << >> \in Seq(Byte \union {Hole})
  OBVIOUS
<1>3. TypeOK
  BY <1>1, <1>2 DEF Init, TypeOK
<1> QED BY <1>1, <1>3 DEF Init, Inv, Apart, NeverSpliced, Sources, RecordNamesHalf,
        Asking, Writing, Judging, Updating, Downloading, Now

\* Every step of the one process, and of the world, keeps Inv.
LEMMA StepInv ==
    ASSUME NEW p, Procs = {p}, Inv(p), [Next]_vars
    PROVE  Inv(p)'
<1>0. p \in Procs
  OBVIOUS
<1>1. CASE Publish \/ EditCatalog
  BY <1>0, <1>1, WorldKeeps
<1>2. CASE Start(p)
  BY <1>0, <1>2, StartKeeps
<1>3. CASE Approve(p)
  BY <1>0, <1>3, ApproveKeeps
<1>4. CASE Refuse(p) \/ Crash(p) \/ RequestFails(p) \/ BodyFails(p)
  <2>1. Leave(p) /\ Aside /\ UNCHANGED <<content, temp, record, target, installed>>
    BY <1>4, FaultIs DEF Refuse, Crash, RequestFails, BodyFails, Inv, Aside, world, files
  <2> QED BY <1>0, <2>1, LeaveKeeps
<1>5. CASE Goes(p)
  BY <1>0, <1>5, LookKeeps, ServeWholeKeeps, RangeKeeps, ServeRestKeeps, WriteRecordKeeps,
     ReceiveKeeps, EndKeeps, DigestKeeps, MoveKeeps, InstallKeeps DEF Goes
<1>6. CASE UNCHANGED vars
  <2>1. Aside /\ UNCHANGED <<content, temp, record, target, installed, run>>
    BY <1>6 DEF vars, Aside, Inv, TypeOK
  <2>2. TypeOK' /\ Apart' /\ NeverSpliced' /\ Sources' /\ RecordNamesHalf'
    BY <2>1 DEF Inv, TypeOK, Apart, NeverSpliced, Sources, RecordNamesHalf, Aside
  <2>3. Asking(p)' /\ Writing(p)' /\ Judging(p)' /\ Updating(p)'
    BY <2>1 DEF Inv, Asking, Writing, Judging, Updating, Now, Aside
  <2> QED BY <2>2, <2>3 DEF Inv
<1> QED BY <1>1, <1>2, <1>3, <1>4, <1>5, <1>6 DEF Next

\* With one process, Inv is inductive.
LEMMA Inductive == ASSUME NEW p, Procs = {p} PROVE Spec => []Inv(p)
<1>1. Init => Inv(p)
  BY InitInv
<1>2. Inv(p) /\ [Next]_vars => Inv(p)'
  BY StepInv
<1> QED BY <1>1, <1>2, PTL DEF Spec

\* Types, for one process.
THEOREM TypeCorrect == ASSUME NEW p, Procs = {p} PROVE Spec => []TypeOK
<1>1. Inv(p) => TypeOK
  BY DEF Inv
<1> QED BY <1>1, Inductive, PTL

\* Whatever the server serves under the URL, however it answers a range and wherever
\* earlier runs were cut off, the package is never the head of one object with the
\* tail of another.
THEOREM NoSplice == ASSUME NEW p, Procs = {p} PROVE Spec => []NeverSpliced
<1>1. Inv(p) => NeverSpliced
  BY DEF Inv
<1> QED BY <1>1, Inductive, PTL

\* The step that can replace the binary.
LEMMA OnlySwap ==
    ASSUME NEW p, Procs = {p}, Inv(p), [Next]_vars, installed' # installed
    PROVE  Swap(p) /\ target # None
<1>1. CASE Publish \/ EditCatalog \/ UNCHANGED vars
  BY <1>1 DEF Publish, EditCatalog, files, vars
<1>2. CASE Start(p) \/ Approve(p) \/ Refuse(p) \/ Crash(p) \/ RequestFails(p) \/ BodyFails(p)
  BY <1>2 DEF Start, Approve, Refuse, Crash, RequestFails, BodyFails, files
<1>3. CASE LookPresent(p) \/ LookMissing(p) \/ ServeWhole(p) \/ RangeNotSatisfiable(p)
           \/ ServeRest(p) \/ WriteRecord(p) \/ Receive(p) \/ EndOfBody(p) \/ Digest(p)
           \/ RemoveRecord(p) \/ Probe(p)
  BY <1>3 DEF LookPresent, LookMissing, ServeWhole, RangeNotSatisfiable, ServeRest,
     WriteRecord, Receive, EndOfBody, Digest, RemoveRecord, Probe, files
<1>4. CASE Move(p)
  BY <1>4 DEF Move
<1>5. CASE Swap(p)
  BY <1>5 DEF Swap
<1> QED BY <1>1, <1>2, <1>3, <1>4, <1>5 DEF Next, Goes

\* It is taken by the process, with what the plan says in its hands.
LEMMA StepSwapsApproved == ASSUME NEW p, Procs = {p}, Inv(p), [Next]_vars PROVE SwappedAgrees
<1> SUFFICES ASSUME installed' # installed
             PROVE  /\ Now(p, "swap") /\ run[p].approved
                    /\ Agrees(run[p].plan, content[target])
  BY DEF SwappedAgrees
<1>1. Now(p, "swap") /\ target # None
  BY OnlySwap DEF Swap
<1>2. run[p].approved /\ Agrees(run[p].plan, content[target])
  BY <1>1 DEF Inv, Updating, Now
<1> QED BY <1>1, <1>2

\* The updater replaces the binary only by a file of the published size and digest,
\* downloaded in this run after asking.
THEOREM SwapsApproved == ASSUME NEW p, Procs = {p} PROVE Spec => SwapsInWhatWasApproved
<1>1. Inv(p) /\ [Next]_vars => [SwappedAgrees]_vars
  BY StepSwapsApproved
<1> QED BY <1>1, Inductive, PTL DEF Spec, SwapsInWhatWasApproved

=============================================================================
