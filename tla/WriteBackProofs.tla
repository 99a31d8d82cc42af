-------------------------- MODULE WriteBackProofs ---------------------------
(***************************************************************************)
(* The invariant of the note in a transcript, for every limit: types, and  *)
(* the fact the rollback rests on, that what was read stays at the front   *)
(* of the file and that behind it there is nothing of the agent's; and a   *)
(* second one about what a resume loads, that a transcript nobody broke    *)
(* is one line of entries and the note is joined to its end.               *)
(***************************************************************************)
EXTENDS WriteBack, TLAPS, NaturalsInduction, WellFoundedInduction

-----------------------------------------------------------------------------
(* Sequences of pieces *)

Pieces == Seq(Piece)

LEMMA AppendIs ==
    ASSUME NEW s \in Pieces, NEW e \in Piece
    PROVE  /\ Append(s, e) \in Pieces /\ Len(Append(s, e)) = Len(s) + 1
           /\ DOMAIN Append(s, e) = 1 .. Len(s) + 1
           /\ \A i \in DOMAIN s : Append(s, e)[i] = s[i]
           /\ Append(s, e)[Len(s) + 1] = e
BY DEF Pieces

LEMMA CutIs ==
    ASSUME NEW s \in Pieces, NEW n \in Nat, n <= Len(s)
    PROVE  /\ SubSeq(s, 1, n) \in Pieces /\ Len(SubSeq(s, 1, n)) = n
           /\ DOMAIN SubSeq(s, 1, n) = 1 .. n
           /\ \A i \in 1 .. n : SubSeq(s, 1, n)[i] = s[i]
BY DEF Pieces

LEMMA ConcatIs ==
    ASSUME NEW s \in Pieces, NEW t \in Pieces
    PROVE  /\ s \o t \in Pieces /\ Len(s \o t) = Len(s) + Len(t)
           /\ DOMAIN (s \o t) = 1 .. Len(s) + Len(t)
           /\ \A i \in DOMAIN s : (s \o t)[i] = s[i]
           /\ \A i \in 1 .. Len(s) + Len(t) : i > Len(s) => (s \o t)[i] = t[i - Len(s)]
BY DEF Pieces

LEMMA ShortIs ==
    ASSUME NEW d \in Piece, NEW e \in Piece, NEW s \in Pieces
    PROVE  /\ << >> \in Pieces /\ <<e>> \in Pieces /\ <<d, e>> \in Pieces
           /\ Append(s, e) = s \o <<e>>
<1>1. /\ << >> \in Pieces /\ <<e>> \in Pieces /\ <<d, e>> \in Pieces
  BY DEF Pieces
<1>2. Append(s, e) = s \o <<e>>
  BY DEF Pieces
<1> QED BY <1>1, <1>2

LEMMA PiecesAre ==
    ASSUME NEW s \in Pieces, NEW i \in DOMAIN s
    PROVE  s[i] \in Piece /\ s[i].id \in Nat
<1>1. s[i] \in Piece
  BY DEF Pieces
<1> QED BY <1>1 DEF Piece

\* A set of positions that is not empty has a last one.
LEMMA HasLast ==
    ASSUME NEW n \in Nat, NEW T \in SUBSET (1 .. n), T # {}
    PROVE  \E i \in T : \A j \in T : j <= i
<1> DEFINE Left == {n - i : i \in T}
<1>1. Left \subseteq Nat /\ Left # {}
  <2>1. \A i \in T : n - i \in Nat
    OBVIOUS
  <2>2. Left \subseteq Nat
    BY <2>1, Zenon
  <2>3. PICK i \in T : TRUE
    OBVIOUS
  <2>4. n - i \in Left
    BY <2>3, Zenon
  <2> QED BY <2>2, <2>4, Zenon
<1>2. PICK m \in Left : \A k \in Left : ~ (<<k, m>> \in OpToRel(<, Nat))
  BY <1>1, WFMin, NatLessThanWellFounded, Zenon
<1>3. \A k \in Left : ~ (k < m)
  BY <1>1, <1>2, Zenon DEF OpToRel
<1>4. PICK i \in T : m = n - i
  OBVIOUS
<1>5. \A j \in T : j <= i
  <2> TAKE j \in T
  <2>1. ~ (n - j < n - i)
    BY <1>3, <1>4
  <2> QED BY <2>1
<1> QED BY <1>5

LEMMA LeafIs ==
    ASSUME NEW s \in Pieces
    PROVE  Leaf(s) \in Nat
<1>1. CASE Ends(s) = {}
  BY <1>1 DEF Leaf, Root
<1>2. CASE Ends(s) # {}
  <2>1. Ends(s) \in SUBSET (1 .. Len(s)) /\ Len(s) \in Nat
    BY DEF Ends, Readable, Pieces
  <2>2. \E i \in Ends(s) : \A j \in Ends(s) : j <= i
    BY <1>2, <2>1, HasLast
  <2> DEFINE last == CHOOSE i \in Ends(s) : \A j \in Ends(s) : j <= i
  <2>3. last \in 1 .. Len(s)
    BY <2>1, <2>2
  <2>4. Leaf(s) = s[last].id
    BY <1>2, Zenon DEF Leaf
  <2> HIDE DEF last
  <2>5. s[last] \in Piece
    BY <2>3 DEF Pieces
  <2> QED BY <2>4, <2>5 DEF Piece
<1> QED BY <1>1, <1>2

-----------------------------------------------------------------------------
(* The invariant *)

Typed ==
    /\ file \in Pieces /\ fork \in Pieces
    /\ agent \in [open : BOOLEAN, leaf : Nat]
    /\ pc \in Place
    /\ job \in [mode : {"append", "fork"}, leaf : Nat, text : Pieces, note : Nat]
    /\ said \in Answer
    /\ slips \subseteq {"stale", "late", "torn"}
    /\ spent \in [Bounded -> Nat]

Appending == {"live", "compare", "write", "verify", "undo"}
Forking == {"beside", "reread", "hash"}

Modes ==
    /\ pc \in Appending => job.mode = "append"
    /\ pc \in Forking => job.mode = "fork"

\* Ids are given once.
Given == spent["say"] + spent["command"]

IdsAreGiven ==
    /\ \A i \in DOMAIN file : file[i].id <= Given
    /\ pc # "idle" => job.note \in 1 .. Given

\* The note is in the file only from its write to its undoing, and never in what
\* was read.
NoteIsNew ==
    /\ pc \in Place \ {"idle", "verify", "undo"} =>
          \A i \in DOMAIN file : file[i].id # job.note
    /\ pc # "idle" => \A i \in DOMAIN job.text : job.text[i].id # job.note

Read == Appending \union Forking \union {"asking"}

\* Nothing is read yet, or it is the front of the file.
TextIsFront ==
    /\ pc \in Read => Kept(job.text, file)
    /\ pc \in {"report", "text"} => job.text = << >>

\* The agent is away, and what is behind the text is not its own.
Alone ==
    pc \in {"compare", "write", "verify", "undo"} /\ "late" \notin slips =>
        /\ ~ agent.open
        /\ pc = "write" => Len(file) = Len(job.text)
        /\ pc \in {"verify", "undo"} =>
              \A i \in DOMAIN file : i > Len(job.text) => file[i].by # "agent"

Inv == Typed /\ Modes /\ IdsAreGiven /\ NoteIsNew /\ TextIsFront /\ Alone

LEMMA SpendIs ==
    ASSUME Typed, NEW what \in Bounded, Spend(what)
    PROVE  /\ spent' \in [Bounded -> Nat]
           /\ spent'["say"] = spent["say"] + (IF what = "say" THEN 1 ELSE 0)
           /\ spent'["command"] = spent["command"] + (IF what = "command" THEN 1 ELSE 0)
           /\ Given \in Nat /\ Given' >= Given
           /\ what \in {"say", "command"} => Given' = Given + 1
BY DEF Typed, Spend, Bounded, Given

LEMMA FreeIs == ASSUME Typed, Free PROVE Given' = Given /\ Given \in Nat
BY DEF Typed, Free, Given, Bounded

LEMMA Starting == Init => Inv
<1> SUFFICES ASSUME Init PROVE Inv
  OBVIOUS
<1>1. /\ Started \in Pieces /\ Len(Started) = 1 /\ DOMAIN Started = 1 .. 1
      /\ Started[1] = Entry(1, Root, "agent")
  BY DEF Started, Entry, Root, Pieces, Piece
<1>2. /\ << >> \in Pieces /\ DOMAIN << >> = {} /\ Len(<< >>) = 0
  BY DEF Pieces
<1>3. /\ file \in Pieces /\ Len(file) \in {0, 1}
      /\ \A i \in DOMAIN file : file[i].id = 1 /\ Len(file) = 1
  BY <1>1, <1>2 DEF Init, Entry
<1>4. spent \in [Bounded -> Nat] /\ spent["say"] = Len(file) /\ spent["command"] = 0
  BY <1>3 DEF Init, Bounded
<1>5. Typed
  BY <1>2, <1>3, <1>4 DEF Init, Typed, Root, Place, NoJob, Answer
<1>6. Modes /\ TextIsFront /\ NoteIsNew /\ Alone
  BY DEF Init, Modes, TextIsFront, NoteIsNew, Alone, Appending, Forking, Read
<1>7. IdsAreGiven
  BY <1>3, <1>4 DEF Init, IdsAreGiven, Given
<1> QED BY <1>5, <1>6, <1>7 DEF Inv

-----------------------------------------------------------------------------
(* Claude Code's steps: the file grows at its end while Claude Code has it *)

LEMMA GrowsBy ==
    ASSUME Inv, NEW e \in Piece, file' = Append(file, e), agent.open,
           UNCHANGED <<pc, job, fork, said>>,
           slips \subseteq slips', slips' \subseteq {"stale", "late", "torn"},
           agent' \in [open : BOOLEAN, leaf : Nat],
           spent' \in [Bounded -> Nat],
           Given \in Nat, Given' \in Nat, Given <= Given', e.id <= Given',
           e.id > Given \/ e.id = 0
    PROVE  Inv'
<1>1. /\ file' \in Pieces /\ DOMAIN file' = 1 .. Len(file) + 1
      /\ DOMAIN file = 1 .. Len(file) /\ Len(file) \in Nat
      /\ \A i \in DOMAIN file : file'[i] = file[i]
      /\ file'[Len(file) + 1] = e
  BY AppendIs DEF Inv, Typed, Pieces
<1>2. Typed' /\ Modes'
  BY <1>1 DEF Inv, Typed, Modes
<1>3. \A i \in DOMAIN file' : i \in DOMAIN file \/ i = Len(file) + 1
  BY <1>1
<1>4. \A i \in DOMAIN file : file[i].id \in Nat /\ file[i].id <= Given
  BY PiecesAre DEF Inv, Typed, IdsAreGiven
<1>5. IdsAreGiven'
  <2>1. \A i \in DOMAIN file' : file'[i].id <= Given'
    BY <1>1, <1>3, <1>4
  <2>2. pc' # "idle" => job'.note \in 1 .. Given'
    BY DEF Inv, IdsAreGiven, Typed
  <2> QED BY <2>1, <2>2 DEF IdsAreGiven
<1>6. NoteIsNew'
  <2>1. pc # "idle" => e.id # job.note
    BY DEF Inv, IdsAreGiven, Typed, Piece
  <2> QED BY <1>1, <1>3, <2>1 DEF Inv, NoteIsNew, Place
<1>7. TextIsFront'
  BY <1>1 DEF Inv, TextIsFront, Kept
<1>8. Alone'
  BY DEF Inv, Alone
<1> QED BY <1>2, <1>5, <1>6, <1>7, <1>8 DEF Inv

LEMMA ClaudeKeeps == ASSUME Inv, Claude PROVE Inv'
<1>1. CASE Open
  <2>1. Leaf(file) \in Nat
    BY LeafIs DEF Inv, Typed
  <2>2. Given' >= Given /\ Given \in Nat /\ spent' \in [Bounded -> Nat]
    BY <1>1, SpendIs DEF Inv, Open, Bounded
  <2>3. Typed' /\ Modes' /\ NoteIsNew' /\ TextIsFront'
    BY <1>1, <2>1, <2>2 DEF Inv, Open, Typed, Modes, NoteIsNew, TextIsFront, Kept, Place
  <2>4. IdsAreGiven'
    <3>1. /\ \A i \in DOMAIN file : file[i].id \in Nat /\ file[i].id <= Given
          /\ file' = file /\ pc' = pc /\ job' = job /\ Given' \in Nat
          /\ pc # "idle" => job.note \in 1 .. Given
      BY <1>1, <2>2, <2>3, PiecesAre DEF Inv, Typed, Open, IdsAreGiven, Given, Bounded
    <3> QED BY <2>2, <3>1 DEF IdsAreGiven
  <2>5. Alone'
    BY <1>1 DEF Inv, Open, Alone, Committed
  <2> QED BY <2>3, <2>4, <2>5 DEF Inv
<1>2. CASE Close
  BY <1>2 DEF Inv, Close, Typed, Modes, IdsAreGiven, Given, NoteIsNew, TextIsFront, Kept,
     Alone
<1>3. CASE Continue
  <2>1. Given' = Given + 1 /\ Given \in Nat /\ Fresh = Given + 1 /\ spent' \in [Bounded -> Nat]
    BY <1>3, SpendIs DEF Inv, Continue, Bounded, Fresh, Given, Typed
  <2>2. Entry(Fresh, agent.leaf, "agent") \in Piece /\ Entry(Fresh, agent.leaf, "agent").id = Fresh
    BY <2>1 DEF Inv, Typed, Entry, Piece
  <2>3. /\ slips \subseteq slips' /\ slips' \subseteq {"stale", "late", "torn"}
        /\ agent' \in [open : BOOLEAN, leaf : Nat] /\ agent.open
        /\ file' = Append(file, Entry(Fresh, agent.leaf, "agent"))
        /\ UNCHANGED <<pc, job, fork, said>>
    <3>1. /\ slips' = (IF At("text") THEN slips \union {"stale"} ELSE slips)
          /\ agent' = [agent EXCEPT !.leaf = Fresh]
          /\ agent.open /\ file' = Append(file, Entry(Fresh, agent.leaf, "agent"))
          /\ UNCHANGED <<pc, job, fork, said>>
      BY <1>3, Zenon DEF Continue
    <3>2. slips \subseteq slips' /\ slips' \subseteq {"stale", "late", "torn"}
      BY <3>1 DEF Inv, Typed
    <3>3. Fresh \in Nat /\ agent \in [open : BOOLEAN, leaf : Nat]
      BY <2>1 DEF Inv, Typed
    <3>4. agent' \in [open : BOOLEAN, leaf : Nat]
      BY <3>1, <3>3
    <3> QED BY <3>1, <3>2, <3>4, Zenon
  <2> QED BY <2>1, <2>2, <2>3, GrowsBy
<1>4. CASE Break
  <2>1. Given' >= Given /\ Given \in Nat /\ Given' \in Nat /\ spent' \in [Bounded -> Nat]
    BY <1>4, SpendIs DEF Inv, Break, Bounded, Given, Typed
  <2>2. Torn \in Piece /\ Torn.id = 0
    BY DEF Torn, Piece, Root
  <2>3. /\ slips \subseteq slips' /\ slips' \subseteq {"stale", "late", "torn"}
        /\ agent' \in [open : BOOLEAN, leaf : Nat] /\ agent.open
        /\ file' = Append(file, Torn)
        /\ UNCHANGED <<pc, job, fork, said>>
    <3>1. /\ slips' = slips \union {"torn"} /\ agent' = [agent EXCEPT !.open = FALSE]
          /\ agent.open /\ file' = Append(file, Torn) /\ UNCHANGED <<pc, job, fork, said>>
      BY <1>4, Zenon DEF Break
    <3>2. slips \subseteq slips' /\ slips' \subseteq {"stale", "late", "torn"}
      BY <3>1 DEF Inv, Typed
    <3>3. agent' \in [open : BOOLEAN, leaf : Nat]
      BY <3>1 DEF Inv, Typed
    <3> QED BY <3>1, <3>2, <3>3, Zenon
  <2> QED BY <2>1, <2>2, <2>3, GrowsBy
<1> QED BY <1>1, <1>2, <1>3, <1>4 DEF Claude

-----------------------------------------------------------------------------
(* The command's steps *)

\* A step that only moves the command on, or ends it.
LEMMA MovesKeep ==
    ASSUME Inv, UNCHANGED <<file, agent, job>>, pc' \in Place, said' \in Answer,
           fork' \in Pieces, slips \subseteq slips',
           slips' \subseteq {"stale", "late", "torn"},
           Given \in Nat, Given' \in Nat, Given <= Given', spent' \in [Bounded -> Nat],
           \/ pc' = "idle"
           \/ pc = "asking" /\ pc' = "live" /\ job.mode = "append"
           \/ pc = "asking" /\ pc' = "beside" /\ job.mode = "fork"
           \/ pc = "live" /\ pc' = "compare" /\ ~ agent.open
           \/ pc = "compare" /\ pc' = "write" /\ Len(file) = Len(job.text)
           \/ pc = "verify" /\ pc' = "undo"
           \/ pc = "beside" /\ pc' = "reread"
           \/ pc = "reread" /\ pc' = "hash"
    PROVE  Inv'
<1>1. Typed'
  BY DEF Inv, Typed
<1>2. Modes'
  BY DEF Inv, Modes, Appending, Forking
<1>3. IdsAreGiven'
  <2>1. \A i \in DOMAIN file : file[i].id \in Nat /\ file[i].id <= Given
    BY PiecesAre DEF Inv, Typed, IdsAreGiven
  <2>2. pc' # "idle" => job.note \in 1 .. Given
    BY DEF Inv, IdsAreGiven
  <2> QED BY <2>1, <2>2 DEF IdsAreGiven
<1>4. NoteIsNew'
  BY DEF Inv, NoteIsNew, Place
<1>5. TextIsFront'
  BY DEF Inv, TextIsFront, Read, Appending, Forking, Kept
<1>6. Alone'
  BY DEF Inv, Alone, Typed
<1> QED BY <1>1, <1>2, <1>3, <1>4, <1>5, <1>6 DEF Inv

LEMMA KeptIsFront ==
    ASSUME NEW s \in Pieces, NEW t \in Pieces, Kept(s, t)
    PROVE  Len(s) \in Nat /\ Len(t) \in Nat /\ Len(s) <= Len(t) /\ SubSeq(t, 1, Len(s)) = s
<1>1. Len(s) \in Nat /\ Len(t) \in Nat /\ DOMAIN s = 1 .. Len(s) /\ DOMAIN t = 1 .. Len(t)
  BY DEF Pieces
<1>2. Len(s) <= Len(t)
  <2>1. CASE Len(s) = 0
    BY <1>1, <2>1
  <2>2. CASE Len(s) # 0
    BY <1>1, <2>2 DEF Kept
  <2> QED BY <2>1, <2>2
<1>3. /\ SubSeq(t, 1, Len(s)) \in Pieces /\ DOMAIN SubSeq(t, 1, Len(s)) = 1 .. Len(s)
      /\ Len(SubSeq(t, 1, Len(s))) = Len(s)
      /\ \A i \in 1 .. Len(s) : SubSeq(t, 1, Len(s))[i] = t[i]
  BY <1>1, <1>2, CutIs
<1>4. \A i \in 1 .. Len(s) : SubSeq(t, 1, Len(s))[i] = s[i]
  BY <1>1, <1>3 DEF Kept
<1> QED BY <1>1, <1>2, <1>3, <1>4 DEF Pieces

\* What the one write puts behind the text: nothing of the agent's.
Behind == [id : Nat, parent : Nat, by : {"note", "torn"}]

LEMMA WritesKeep ==
    ASSUME Inv, pc = "write", NEW part \in Seq(Behind), file' = file \o part,
           pc' \in {"verify", "undo"}, Given' \in Nat, Given \in Nat, Given <= Given',
           \A i \in DOMAIN part : part[i].id <= Given,
           spent' \in [Bounded -> Nat], UNCHANGED <<agent, job, fork, slips, said>>
    PROVE  Inv'
<1>1. part \in Pieces /\ \A i \in DOMAIN part : part[i].by # "agent" /\ part[i].id \in Nat
  <2>1. \A x \in Behind : x \in Piece /\ x.by # "agent" /\ x.id \in Nat
    BY DEF Behind, Piece
  <2>2. \A i \in DOMAIN part : part[i] \in Behind
    OBVIOUS
  <2>3. part \in Pieces
    BY <2>1, <2>2 DEF Pieces
  <2> QED BY <2>1, <2>2, <2>3
<1>2. /\ file \in Pieces /\ file' \in Pieces /\ Len(file) \in Nat /\ Len(part) \in Nat
      /\ DOMAIN file' = 1 .. Len(file) + Len(part)
      /\ DOMAIN file = 1 .. Len(file) /\ DOMAIN part = 1 .. Len(part)
      /\ \A i \in DOMAIN file : file'[i] = file[i]
      /\ \A i \in 1 .. Len(file) + Len(part) : i > Len(file) => file'[i] = part[i - Len(file)]
  BY <1>1, ConcatIs DEF Inv, Typed, Pieces
<1>3. \A i \in DOMAIN file' : i \notin DOMAIN file =>
         i > Len(file) /\ i - Len(file) \in DOMAIN part /\ file'[i] = part[i - Len(file)]
  BY <1>2
<1>4. Typed' /\ Modes'
  BY <1>2 DEF Inv, Typed, Modes, Place, Appending, Forking
<1>5. IdsAreGiven'
  <2>1. \A i \in DOMAIN file : file[i].id \in Nat /\ file[i].id <= Given
    BY <1>2, PiecesAre DEF Inv, IdsAreGiven
  <2>2. \A i \in DOMAIN file' : file'[i].id <= Given'
    <3> TAKE i \in DOMAIN file'
    <3>1. CASE i \in DOMAIN file
      BY <1>2, <2>1, <3>1
    <3>2. CASE i \notin DOMAIN file
      BY <1>1, <1>3, <3>2
    <3> QED BY <3>1, <3>2
  <2>3. job.note \in 1 .. Given
    BY DEF Inv, IdsAreGiven
  <2> QED BY <2>2, <2>3 DEF IdsAreGiven
<1>6. NoteIsNew'
  BY DEF Inv, NoteIsNew
<1>7. TextIsFront'
  BY <1>2 DEF Inv, TextIsFront, Read, Appending, Kept
<1>8. Alone'
  <2>1. SUFFICES ASSUME "late" \notin slips
        PROVE  /\ ~ agent.open
               /\ \A i \in DOMAIN file' : i > Len(job.text) => file'[i].by # "agent"
    BY DEF Alone
  <2>2. ~ agent.open /\ Len(file) = Len(job.text)
    BY <2>1 DEF Inv, Alone
  <2> QED BY <1>1, <1>2, <1>3, <2>2
<1> QED BY <1>4, <1>5, <1>6, <1>7, <1>8 DEF Inv

LEMMA NoteIs ==
    ASSUME Inv, pc # "idle"
    PROVE  Note \in Piece /\ Note \in Behind /\ Note.id = job.note /\ Note.id <= Given
BY DEF Inv, Typed, IdsAreGiven, Note, Entry, Piece, Behind

LEMMA PrepareKeeps ==
    ASSUME Inv, Start \/ ReadReport \/ ReadText
    PROVE  Inv'
<1>0. \A i \in DOMAIN file : file[i].id \in Nat /\ file[i].id <= Given
  BY PiecesAre DEF Inv, Typed, IdsAreGiven
<1>n. << >> \in Pieces /\ DOMAIN << >> = {}
  BY DEF Pieces
<1>1. CASE Start
  <2>1. /\ Given' = Given + 1 /\ Given \in Nat /\ Fresh = Given + 1
        /\ spent' \in [Bounded -> Nat]
    BY <1>1, SpendIs DEF Inv, Start, Bounded, Fresh, Given, Typed
  <2>2. PICK mode \in {"append", "fork"} :
           job' = [mode |-> mode, leaf |-> Root, text |-> << >>, note |-> Fresh]
    BY <1>1 DEF Start, NoJob
  <2>3. pc' \in {"idle", "report"} /\ said' \in Answer
    BY <1>1 DEF Start, Say, Answer
  <2>4. UNCHANGED <<file, agent, fork, slips>>
    BY <1>1 DEF Start
  <2>5. Typed'
    BY <1>n, <2>1, <2>2, <2>3, <2>4 DEF Inv, Typed, Place, Root
  <2>6. IdsAreGiven'
    BY <1>0, <2>1, <2>2, <2>4 DEF IdsAreGiven
  <2>7. NoteIsNew'
    BY <1>0, <1>n, <2>1, <2>2, <2>4 DEF NoteIsNew
  <2>8. Modes' /\ TextIsFront' /\ Alone'
    BY <2>2, <2>3 DEF Modes, TextIsFront, Alone, Appending, Forking, Read
  <2> QED BY <2>5, <2>6, <2>7, <2>8 DEF Inv
<1>2. CASE ReadReport
  <2>1. /\ pc = "report" /\ pc' \in {"idle", "text"} /\ said' \in Answer
        /\ job' = [job EXCEPT !.leaf = Leaf(file)] /\ UNCHANGED <<file, agent, fork, slips, spent>>
    BY <1>2 DEF Inv, Typed, ReadReport, At, Go, Say, Answer, Free
  <2>2. Leaf(file) \in Nat
    BY LeafIs DEF Inv, Typed
  <2>3. Typed'
    BY <2>1, <2>2 DEF Inv, Typed, Place
  <2>4. job'.text = job.text /\ job'.note = job.note /\ Given' = Given
    BY <2>1 DEF Inv, Typed, Given
  <2>5. IdsAreGiven' /\ NoteIsNew'
    BY <2>1, <2>4 DEF Inv, IdsAreGiven, NoteIsNew, Place
  <2>6. Modes' /\ TextIsFront' /\ Alone'
    BY <2>1, <2>4 DEF Inv, Modes, TextIsFront, Alone, Appending, Forking, Read
  <2> QED BY <2>3, <2>5, <2>6 DEF Inv
<1>3. CASE ReadText
  <2>1. /\ pc = "text" /\ pc' \in {"idle", "asking"} /\ said' \in Answer
        /\ job' = [job EXCEPT !.text = file] /\ UNCHANGED <<file, agent, fork, slips, spent>>
    BY <1>3 DEF Inv, Typed, ReadText, At, Go, Say, Answer, Free
  <2>2. Typed'
    BY <2>1 DEF Inv, Typed, Place
  <2>3. job'.text = file /\ job'.note = job.note /\ Given' = Given
    BY <2>1 DEF Inv, Typed, Given
  <2>4. IdsAreGiven' /\ NoteIsNew'
    BY <2>1, <2>3 DEF Inv, IdsAreGiven, NoteIsNew, Place
  <2>5. Kept(job'.text, file')
    BY <2>1, <2>3 DEF Kept
  <2>6. Modes' /\ TextIsFront' /\ Alone'
    BY <2>1, <2>5 DEF Inv, Modes, TextIsFront, Alone, Appending, Forking, Read
  <2> QED BY <2>2, <2>4, <2>6 DEF Inv
<1> QED BY <1>1, <1>2, <1>3

LEMMA UndoIs ==
    ASSUME Inv, Undo
    PROVE  /\ pc = "undo" /\ pc' = "idle" /\ said' = "undone" /\ file' = job.text
           /\ UNCHANGED <<agent, job, fork, slips, spent>>
<1>1. /\ pc = "undo" /\ pc' = "idle" /\ said' = "undone"
      /\ file' = SubSeq(file, 1, Len(job.text)) /\ UNCHANGED <<agent, job, fork, slips, spent>>
  BY DEF Undo, At, Say, Free
<1>2. Kept(job.text, file) /\ job.text \in Pieces /\ file \in Pieces
  BY <1>1 DEF Inv, Typed, TextIsFront, Read, Appending
<1> QED BY <1>1, <1>2, KeptIsFront

LEMMA MovingSteps ==
    ASSUME Inv,
           \/ Confirm \/ LookAgain \/ Compare \/ OpenFails \/ Verify \/ UndoFails
           \/ WriteBeside \/ WriteBesideFails \/ VerifyFork \/ CheckOriginal \/ Die
    PROVE  Inv'
<1> DEFINE Moving ==
           \/ pc' = "idle"
           \/ pc = "asking" /\ pc' = "live" /\ job.mode = "append"
           \/ pc = "asking" /\ pc' = "beside" /\ job.mode = "fork"
           \/ pc = "live" /\ pc' = "compare" /\ ~ agent.open
           \/ pc = "compare" /\ pc' = "write" /\ Len(file) = Len(job.text)
           \/ pc = "verify" /\ pc' = "undo"
           \/ pc = "beside" /\ pc' = "reread"
           \/ pc = "reread" /\ pc' = "hash"
<1>1. Given' >= Given /\ Given \in Nat /\ Given' \in Nat /\ spent' \in [Bounded -> Nat]
  <2>1. CASE Free
    BY <2>1, FreeIs DEF Inv, Typed, Free
  <2>2. CASE Spend("fault")
    BY <2>2, SpendIs DEF Inv, Typed, Bounded, Given
  <2> QED BY <2>1, <2>2 DEF Confirm, LookAgain, Compare, OpenFails, Verify, UndoFails,
             WriteBeside, WriteBesideFails, VerifyFork, CheckOriginal, Die
<1>2. UNCHANGED <<file, agent, job>>
  BY DEF Confirm, LookAgain, Compare, OpenFails, Verify, UndoFails,
         WriteBeside, WriteBesideFails, VerifyFork, CheckOriginal, Die
<1>3. pc' \in Place /\ said' \in Answer
  BY DEF Inv, Typed, Confirm, LookAgain, Compare, OpenFails, Verify, UndoFails,
         WriteBeside, WriteBesideFails, VerifyFork, CheckOriginal, Die,
         At, Go, Say, Place, Answer
<1>4. slips \subseteq slips' /\ slips' \subseteq {"stale", "late", "torn"}
  <2>1. slips' \in {slips, slips \union {"torn"}}
    BY DEF Confirm, LookAgain, Compare, OpenFails, Verify, UndoFails, Leftover,
           WriteBeside, WriteBesideFails, VerifyFork, CheckOriginal, Die
  <2> QED BY <2>1 DEF Inv, Typed
<1>5. fork' \in Pieces
  <2>0. fork \in Pieces /\ job.text \in Pieces /\ << >> \in Pieces
    BY DEF Inv, Typed, Pieces
  <2>1. CASE WriteBeside
    <3>1. fork' = Append(job.text, Note) /\ pc # "idle"
      BY <2>1 DEF WriteBeside, At
    <3> QED BY <2>0, <3>1, NoteIs, AppendIs
  <2>2. CASE VerifyFork
    <3>1. fork' \in {fork, << >>}
      BY <2>2 DEF VerifyFork
    <3> QED BY <2>0, <3>1
  <2>3. CASE \/ Confirm \/ LookAgain \/ Compare \/ OpenFails \/ Verify \/ UndoFails
             \/ WriteBesideFails \/ CheckOriginal \/ Die
    <3>1. fork' = fork
      BY <2>3 DEF Confirm, LookAgain, Compare, OpenFails, Verify, UndoFails,
         WriteBesideFails, CheckOriginal, Die
    <3> QED BY <2>0, <3>1
  <2> QED BY <2>1, <2>2, <2>3
<1>6. Moving
  BY DEF Inv, Modes, Confirm, LookAgain, Compare, OpenFails, Verify, UndoFails,
         WriteBeside, WriteBesideFails, VerifyFork, CheckOriginal, Die, At, Go, Say
<1> QED BY <1>1, <1>2, <1>3, <1>4, <1>5, <1>6, MovesKeep

LEMMA WritingSteps ==
    ASSUME Inv, Write \/ WriteShort \/ Undo
    PROVE  Inv'
<1>1. CASE Write
  <2>1. /\ pc = "write" /\ pc' = "verify" /\ file' = Append(file, Note)
        /\ UNCHANGED <<agent, job, fork, slips, said, spent>>
    BY <1>1 DEF Write, At, Go, Free
  <2>2. Note \in Behind /\ Note \in Piece /\ Note.id <= Given
    BY <2>1, NoteIs
  <2>3. <<Note>> \in Seq(Behind) /\ \A i \in DOMAIN <<Note>> : <<Note>>[i].id <= Given
    BY <2>2
  <2>4. file' = file \o <<Note>>
    BY <2>1, <2>2 DEF Inv, Typed, Pieces
  <2>5. Given' = Given /\ Given \in Nat /\ spent' \in [Bounded -> Nat]
    BY <2>1 DEF Inv, Typed, Given, Bounded
  <2>6. Given' \in Nat /\ Given <= Given' /\ pc' \in {"verify", "undo"}
    BY <2>1, <2>5
  <2> DEFINE part == <<Note>>
  <2>7. part \in Seq(Behind) /\ file' = file \o part /\ \A i \in DOMAIN part : part[i].id <= Given
    BY <2>3, <2>4
  <2> HIDE DEF part
  <2> QED BY <2>1, <2>5, <2>6, <2>7, WritesKeep
<1>2. CASE WriteShort
  <2>1. /\ pc = "write" /\ pc' = "undo" /\ UNCHANGED <<agent, job, fork, slips, said>>
        /\ Spend("fault")
    BY <1>2 DEF WriteShort, At, Go
  <2>2. PICK part \in {<< >>, <<Torn>>, <<Note>>, <<Note, Torn>>} : file' = file \o part
    BY <1>2 DEF WriteShort
  <2>3. /\ Note \in Behind /\ Note.id <= Given /\ Torn \in Behind /\ Torn.id = 0
    BY <2>1, NoteIs DEF Torn, Behind, Root
  <2>4. /\ Given' >= Given /\ Given \in Nat /\ Given' \in Nat /\ spent' \in [Bounded -> Nat]
    BY <2>1, SpendIs DEF Inv, Typed, Bounded, Given
  <2>5. part \in Seq(Behind) /\ \A i \in DOMAIN part : part[i].id <= Given
    <3>1. CASE part = << >>
      BY <3>1
    <3>2. CASE part = <<Torn>>
      BY <2>3, <2>4, <3>2
    <3>3. CASE part = <<Note>>
      BY <2>3, <3>3
    <3>4. CASE part = <<Note, Torn>>
      BY <2>3, <2>4, <3>4
    <3> QED BY <3>1, <3>2, <3>3, <3>4
  <2>6. Given <= Given' /\ pc' \in {"verify", "undo"}
    BY <2>1, <2>4
  <2> QED BY <2>1, <2>2, <2>4, <2>5, <2>6, WritesKeep
<1>3. CASE Undo
  <2>1. /\ pc = "undo" /\ pc' = "idle" /\ said' = "undone" /\ file' = job.text
        /\ UNCHANGED <<agent, job, fork, slips, spent>>
    BY <1>3, UndoIs
  <2>2. Typed' /\ Modes' /\ NoteIsNew' /\ TextIsFront' /\ Alone'
    BY <2>1 DEF Inv, Typed, Modes, NoteIsNew, TextIsFront, Alone, Place, Answer, Read,
       Appending, Forking
  <2>3. IdsAreGiven'
    BY <2>1 DEF Inv, IdsAreGiven, TextIsFront, Read, Appending, Kept, Given
  <2> QED BY <2>2, <2>3 DEF Inv
<1> QED BY <1>1, <1>2, <1>3

-----------------------------------------------------------------------------
(* The theorems *)

LEMMA Step == Inv /\ [Next]_vars => Inv'
<1> SUFFICES ASSUME Inv, [Next]_vars PROVE Inv'
  OBVIOUS
<1>1. CASE UNCHANGED vars
  BY <1>1 DEF vars, Inv, Typed, Modes, IdsAreGiven, Given, NoteIsNew, TextIsFront, Kept, Alone
<1>2. CASE Claude
  BY <1>2, ClaudeKeeps
<1>3. CASE Start \/ ReadReport \/ ReadText
  BY <1>3, PrepareKeeps
<1>4. CASE Write \/ WriteShort \/ Undo
  BY <1>4, WritingSteps
<1>5. CASE \/ Confirm \/ LookAgain \/ Compare \/ OpenFails \/ Verify \/ UndoFails
           \/ WriteBeside \/ WriteBesideFails \/ VerifyFork \/ CheckOriginal \/ Die
  BY <1>5, MovingSteps
<1> QED BY <1>1, <1>2, <1>3, <1>4, <1>5 DEF Next, Append_note, Fork_with_note

LEMMA Inductive == Spec => []Inv
BY Starting, Step, PTL DEF Spec

\* Every variable has its type, however often anything happens.
THEOREM TypeCorrect == Spec => []TypeOK
<1>1. Inv => TypeOK
  BY DEF Inv, Typed, TypeOK, Job, Pieces
<1> QED BY <1>1, Inductive, PTL

\* No line of the agent's leaves the file or moves in it by anything the command or
\* Claude Code does, unless the agent opened the session after the second look: the
\* rollback's length is that of a text which is still the front of the file, and
\* what is behind it is Tacet's own.
LEMMA StepKeepsLines == Inv /\ [Next]_vars => [LinesKept]_vars
<1> SUFFICES ASSUME Inv, [Next]_vars, "late" \notin slips
             PROVE  \A i \in DOMAIN file :
                        file[i].by = "agent" => i \in DOMAIN file' /\ file'[i] = file[i]
  BY DEF LinesKept
<1>0. file \in Pieces
  BY DEF Inv, Typed
<1>1. CASE Undo
  <2>1. pc = "undo" /\ file' = job.text
    BY <1>1, UndoIs
  <2>2. /\ Kept(job.text, file) /\ job.text \in Pieces
        /\ \A i \in DOMAIN file : i > Len(job.text) => file[i].by # "agent"
    BY <2>1 DEF Inv, Typed, TextIsFront, Read, Appending, Alone
  <2>3. \A i \in DOMAIN file : file[i].by = "agent" => i \in DOMAIN job.text
    BY <1>0, <2>2 DEF Pieces
  <2> QED BY <2>1, <2>2, <2>3 DEF Kept
<1>2. CASE Continue \/ Break \/ Write \/ WriteShort
  <2>1. \E t \in Pieces : file' = file \o t
    <3>1. CASE Continue
      <4>1. Entry(Fresh, agent.leaf, "agent") \in Piece
        BY DEF Inv, Typed, Entry, Piece, Fresh, Bounded
      <4>2. file' = Append(file, Entry(Fresh, agent.leaf, "agent"))
        BY <3>1 DEF Continue
      <4> QED BY <1>0, <4>1, <4>2, ShortIs, Zenon
    <3>2. Torn \in Piece
      BY DEF Torn, Piece, Root
    <3>3. CASE Break
      <4>1. file' = Append(file, Torn)
        BY <3>3 DEF Break
      <4> QED BY <1>0, <3>2, <4>1, ShortIs, Zenon
    <3>4. CASE Write
      <4>1. Note \in Piece
        BY <3>4, NoteIs DEF Write, At
      <4>2. file' = Append(file, Note)
        BY <3>4 DEF Write
      <4> QED BY <1>0, <4>1, <4>2, ShortIs, Zenon
    <3>5. CASE WriteShort
      <4>1. Note \in Piece
        BY <3>5, NoteIs DEF WriteShort, At
      <4>2. \E part \in {<< >>, <<Torn>>, <<Note>>, <<Note, Torn>>} : file' = file \o part
        BY <3>5 DEF WriteShort
      <4>3. \A part \in {<< >>, <<Torn>>, <<Note>>, <<Note, Torn>>} : part \in Pieces
        BY <1>0, <3>2, <4>1, ShortIs
      <4> QED BY <4>2, <4>3, Zenon
    <3> QED BY <1>2, <3>1, <3>3, <3>4, <3>5
  <2>2. PICK t \in Pieces : file' = file \o t
    BY <2>1
  <2>3. Len(file) \in Nat /\ Len(t) \in Nat /\ DOMAIN file = 1 .. Len(file)
    BY <1>0 DEF Pieces
  <2> QED BY <1>0, <2>2, <2>3, ConcatIs
<1>3. CASE \/ Open \/ Close \/ Start \/ ReadReport \/ ReadText
           \/ Confirm \/ LookAgain \/ Compare \/ OpenFails \/ Verify \/ UndoFails
           \/ WriteBeside \/ WriteBesideFails \/ VerifyFork \/ CheckOriginal \/ Die
           \/ UNCHANGED vars
  <2>1. file' = file
    BY <1>3 DEF Open, Close, Start, ReadReport, ReadText, Confirm, LookAgain, Compare,
       OpenFails, Verify, UndoFails, WriteBeside, WriteBesideFails, VerifyFork,
       CheckOriginal, Die, vars
  <2> QED BY <2>1
<1> QED BY <1>1, <1>2, <1>3 DEF Next, Claude, Append_note, Fork_with_note

\* The rollback takes off what Tacet wrote and nothing of the agent's.
THEOREM LinesStay == Spec => AgentLinesKept
<1>1. Inv /\ [Next]_vars => [LinesKept]_vars
  BY StepKeepsLines
<1> QED BY <1>1, Inductive, PTL DEF Spec, AgentLinesKept

-----------------------------------------------------------------------------
(* What the command says *)

LEMMA NotAnId ==
    ASSUME NEW s, NEW n, \A i \in DOMAIN s : s[i].id # n
    PROVE  n \notin Ids(s)
BY Zenon DEF Ids, Readable

\* A step of the command before its write, which may refuse.
Refusing ==
    Start \/ ReadReport \/ ReadText \/ Confirm \/ LookAgain \/ Compare \/ OpenFails
          \/ WriteBesideFails \/ VerifyFork

Untouched == job'.note \notin Ids(file') /\ Kept(job'.text, file')

LEMMA RefusedLeavesNothing == ASSUME Inv, Refusing PROVE Untouched
<1>0. << >> \in Pieces /\ DOMAIN << >> = {}
  BY DEF Pieces
<1>1. CASE Start
  <2>1. /\ job'.note = Fresh /\ job'.text = << >> /\ file' = file
    BY <1>1 DEF Start, NoJob
  <2>2. \A i \in DOMAIN file : file[i].id \in Nat /\ file[i].id <= Given
    BY PiecesAre DEF Inv, Typed, IdsAreGiven
  <2>3. Fresh = Given + 1 /\ Given \in Nat
    BY DEF Fresh, Given, Inv, Typed, Bounded
  <2>4. \A i \in DOMAIN file : file[i].id # job'.note
    BY <2>1, <2>2, <2>3
  <2> QED BY <1>0, <2>1, <2>4, NotAnId DEF Untouched, Kept
<1>2. CASE \/ ReadReport \/ ReadText \/ Confirm \/ LookAgain \/ Compare \/ OpenFails
           \/ WriteBesideFails \/ VerifyFork
  <2>1. pc \in Place \ {"idle", "verify", "undo"} /\ file' = file
    BY <1>2 DEF Inv, Typed, ReadReport, ReadText, Confirm, LookAgain, Compare, OpenFails,
       WriteBesideFails, VerifyFork, At, Place
  <2>2. job'.note = job.note /\ job'.text \in {job.text, file}
    BY <1>2 DEF Inv, Typed, ReadReport, ReadText, Confirm, LookAgain, Compare, OpenFails,
       WriteBesideFails, VerifyFork
  <2>3. job'.note \notin Ids(file')
    BY <2>1, <2>2, NotAnId DEF Inv, NoteIsNew
  <2>4. Kept(job.text, file)
    BY <1>0, <2>1 DEF Inv, TextIsFront, Kept, Read, Appending, Forking, Place
  <2>5. Kept(file, file)
    BY DEF Kept
  <2> QED BY <2>1, <2>2, <2>3, <2>4, <2>5 DEF Untouched
<1> QED BY <1>1, <1>2 DEF Refusing

LEMMA StepTellsTheTruth == Inv /\ [Next]_vars => [TrueOutcome]_vars
<1> SUFFICES ASSUME Inv, [Next]_vars PROVE TrueOutcome
  OBVIOUS
<1>1. CASE Refusing
  <2>1. Untouched
    BY <1>1, RefusedLeavesNothing
  <2>2. said' # "appended" \/ said = "appended"
    BY <1>1 DEF Refusing, Start, ReadReport, ReadText, Confirm, LookAgain, Compare,
       OpenFails, WriteBesideFails, VerifyFork, Say, Go
  <2>3. said' = "undone" /\ said # "undone" => job.mode # "append"
    BY <1>1 DEF Refusing, Start, ReadReport, ReadText, Confirm, LookAgain, Compare,
       OpenFails, WriteBesideFails, VerifyFork, Say, Go, At, Inv, Modes, Forking
  <2> QED BY <2>1, <2>2, <2>3 DEF TrueOutcome, Untouched
<1>2. CASE Undo
  <2>1. /\ pc = "undo" /\ said' = "undone" /\ file' = job.text /\ job' = job
    BY <1>2, UndoIs
  <2>2. job.note \notin Ids(job.text)
    BY <2>1, NotAnId DEF Inv, NoteIsNew
  <2>3. Kept(job.text, job.text)
    BY DEF Kept
  <2> QED BY <2>1, <2>2, <2>3 DEF TrueOutcome
<1>3. CASE Verify
  <2>1. /\ file' = file /\ job' = job
        /\ said' # said => said' = "appended" /\ Verified(file)
    BY <1>3 DEF Verify, Say, Go
  <2> QED BY <2>1 DEF TrueOutcome, Verified, Failures
<1>4. CASE Claude \/ Write \/ WriteShort \/ WriteBeside \/ UNCHANGED vars
  <2>1. said' = said
    BY <1>4 DEF Claude, Open, Close, Continue, Break, Write, WriteShort, WriteBeside, Go, vars
  <2> QED BY <2>1 DEF TrueOutcome
<1>5. CASE UndoFails \/ CheckOriginal \/ Die
  <2>1. said' \in {"damaged", "forked", "changed", "nothing"}
    BY <1>5 DEF UndoFails, CheckOriginal, Die, Say
  <2> QED BY <2>1 DEF TrueOutcome, Failures
<1> QED BY <1>1, <1>2, <1>3, <1>4, <1>5 DEF Refusing, Next, Append_note, Fork_with_note

\* The command's answer is so: appended, the note is the leaf a resume starts from;
\* refused, declined or undone, the note is not in the transcript, everything that was
\* read is, and an undone append left exactly that.
THEOREM TruthTold == Spec => OutcomeIsTrue
<1>1. Inv /\ [Next]_vars => [TrueOutcome]_vars
  BY StepTellsTheTruth
<1> QED BY <1>1, Inductive, PTL DEF Spec, OutcomeIsTrue

-----------------------------------------------------------------------------
(* What a resume loads: the chain from the leaf back *)

\* The equation of the function that tells what is loaded, and the same for a set.
Loads(s, x, i, on) ==
    /\ i \in Readable(s)
    /\ \/ s[i].id = x
       \/ \E j \in (i + 1) .. Len(s) : s[j].parent = s[i].id /\ on[j]

Leads(s, x, i, D) ==
    /\ i \in Readable(s)
    /\ \/ s[i].id = x
       \/ \E j \in (i + 1) .. Len(s) : s[j].parent = s[i].id /\ j \in D

\* The smallest set closed under the rule satisfies the equation.
LEMMA LeastFixed ==
    ASSUME NEW s \in Pieces, NEW x
    PROVE  \E D \in SUBSET DOMAIN s : \A i \in DOMAIN s : i \in D <=> Leads(s, x, i, D)
<1> DEFINE Closed(D) == \A i \in DOMAIN s : Leads(s, x, i, D) => i \in D
           M == {i \in DOMAIN s : \A D \in SUBSET DOMAIN s : Closed(D) => i \in D}
<1>1. ASSUME NEW C, NEW D, C \subseteq D, NEW i, Leads(s, x, i, C) PROVE Leads(s, x, i, D)
  BY <1>1, Zenon DEF Leads
<1>2. \A D \in SUBSET DOMAIN s : Closed(D) => M \subseteq D
  OBVIOUS
<1>3. Closed(M)
  <2> SUFFICES ASSUME NEW i \in DOMAIN s, Leads(s, x, i, M),
                      NEW D \in SUBSET DOMAIN s, Closed(D)
               PROVE  i \in D
    OBVIOUS
  <2>1. M \subseteq D
    BY <1>2
  <2> HIDE DEF M
  <2>2. Leads(s, x, i, D)
    BY <1>1, <2>1
  <2> QED BY <2>2
<1> DEFINE N == {i \in DOMAIN s : Leads(s, x, i, M)}
<1>4. N \subseteq M
  BY <1>3 DEF N
<1>5. Closed(N)
  <2> SUFFICES ASSUME NEW i \in DOMAIN s, Leads(s, x, i, N) PROVE i \in N
    OBVIOUS
  <2> HIDE DEF M
  <2>1. Leads(s, x, i, M)
    BY <1>1, <1>4
  <2> QED BY <2>1
<1>6. N \in SUBSET DOMAIN s /\ M \in SUBSET DOMAIN s
  OBVIOUS
<1>7. M \subseteq N
  BY <1>2, <1>5, <1>6
<1> HIDE DEF M
<1>8. \A i \in DOMAIN s : i \in M <=> Leads(s, x, i, M)
  BY <1>4, <1>7 DEF N
<1> QED BY <1>6, <1>8

\* So the function is there, and what it tells follows the equation.
LEMMA ChainUnfolds ==
    ASSUME NEW s \in Pieces, NEW x
    PROVE  \E D \in SUBSET DOMAIN s :
              /\ ChainFrom(s, x) = {s[i].id : i \in D}
              /\ \A i \in DOMAIN s : i \in D <=> Leads(s, x, i, D)
<1> DEFINE Is(on) == on = [i \in DOMAIN s |-> Loads(s, x, i, on)]
           chosen == CHOOSE on : Is(on)
<1>1. \E on : Is(on)
  <2>1. PICK D \in SUBSET DOMAIN s : \A i \in DOMAIN s : i \in D <=> Leads(s, x, i, D)
    BY LeastFixed
  <2> DEFINE f == [i \in DOMAIN s |-> i \in D]
  <2>2. \A i \in DOMAIN s : f[i] = (i \in D)
    OBVIOUS
  <2>3. ASSUME NEW i \in DOMAIN s PROVE Loads(s, x, i, f) <=> Leads(s, x, i, D)
    <3>1. \A j \in (i + 1) .. Len(s) : j \in DOMAIN s
      BY DEF Pieces
    <3> HIDE DEF f
    <3> QED BY <2>2, <3>1 DEF Loads, Leads
  <2>4. f = [i \in DOMAIN s |-> Loads(s, x, i, f)]
    <3>1. \A i \in DOMAIN s : (i \in D) = Loads(s, x, i, f)
      <4> HIDE DEF f
      <4> TAKE i \in DOMAIN s
      <4>1. (i \in D) <=> Loads(s, x, i, f)
        BY <2>1, <2>3, Zenon
      <4>2. Loads(s, x, i, f) \in BOOLEAN
        BY Zenon DEF Loads
      <4> QED BY <4>1, <4>2
    <3>2. f = [i \in DOMAIN s |-> i \in D]
      OBVIOUS
    <3> HIDE DEF f
    <3> QED BY <3>1, <3>2, Zenon
  <2> HIDE DEF f
  <2> QED BY <2>4
<1>2. Is(chosen)
  BY <1>1
<1>3. ChainFrom(s, x) = {s[i].id : i \in {k \in DOMAIN s : chosen[k]}}
  BY Zenon DEF ChainFrom, Loads
<1> HIDE DEF chosen
<1> DEFINE D == {k \in DOMAIN s : chosen[k]}
<1>4. \A i \in DOMAIN s : chosen[i] = Loads(s, x, i, chosen)
  BY <1>2, Zenon
<1>5. ASSUME NEW i \in DOMAIN s PROVE i \in D <=> Leads(s, x, i, D)
  <2>1. \A j \in (i + 1) .. Len(s) : j \in DOMAIN s
    BY DEF Pieces
  <2>2. Loads(s, x, i, chosen) <=> Leads(s, x, i, D)
    BY <2>1, Zenon DEF Loads, Leads
  <2> QED BY <1>4, <2>2, Zenon
<1> QED BY <1>3, <1>5

\* Lines joined one to the next, each with an id of its own, none of them torn.
Line(s) ==
    /\ \A i \in DOMAIN s :
          s[i].id # Root /\ s[i].parent = (IF i = 1 THEN Root ELSE s[i - 1].id)
    /\ \A i, j \in DOMAIN s : s[i].id = s[j].id => i = j

Last(s) == IF s = << >> THEN Root ELSE s[Len(s)].id

LEMMA LineLeaf ==
    ASSUME NEW s \in Pieces, Line(s)
    PROVE  Readable(s) = DOMAIN s /\ Leaf(s) = Last(s)
<1>1. Len(s) \in Nat /\ DOMAIN s = 1 .. Len(s) /\ \A i \in DOMAIN s : s[i] # Torn
  BY DEF Pieces, Line, Torn
<1>2. Readable(s) = DOMAIN s
  BY <1>1 DEF Readable
<1>3. CASE Len(s) = 0
  <2>1. s = << >> /\ Ends(s) = {}
    BY <1>1, <1>2, <1>3 DEF Ends, Pieces
  <2> QED BY <1>2, <2>1 DEF Leaf, Last
<1>4. CASE Len(s) # 0
  <2>1. Len(s) \in Ends(s)
    <3>1. \A j \in DOMAIN s : s[j].parent # s[Len(s)].id
      <4> TAKE j \in DOMAIN s
      <4>1. CASE j = 1
        BY <1>1, <1>4, <4>1 DEF Line
      <4>2. CASE j # 1
        <5>1. s[j].parent = s[j - 1].id /\ j - 1 \in DOMAIN s /\ j - 1 # Len(s)
          BY <1>1, <4>2 DEF Line
        <5> QED BY <1>1, <1>4, <5>1 DEF Line
      <4> QED BY <4>1, <4>2
    <3> QED BY <1>1, <1>2, <1>4, <3>1 DEF Ends
  <2>2. \A i \in Ends(s) : i = Len(s)
    <3> SUFFICES ASSUME NEW i \in Ends(s), i # Len(s) PROVE FALSE
      OBVIOUS
    <3>1. i \in DOMAIN s /\ \A j \in DOMAIN s : s[j].parent # s[i].id
      BY <1>2 DEF Ends
    <3>2. i + 1 \in DOMAIN s /\ i + 1 # 1 /\ (i + 1) - 1 = i
      BY <1>1, <3>1
    <3>3. s[i + 1].parent = s[(i + 1) - 1].id
      BY <3>2, Zenon DEF Line
    <3> QED BY <3>1, <3>2, <3>3
  <2>3. Ends(s) = {Len(s)}
    BY <2>1, <2>2
  <2>4. (CHOOSE i \in Ends(s) : \A j \in Ends(s) : j <= i) = Len(s)
    BY <1>1, <2>3
  <2>5. Leaf(s) = s[Len(s)].id
    BY <2>1, <2>4, Zenon DEF Leaf
  <2>6. s # << >>
    BY <1>4
  <2> QED BY <1>2, <2>5, <2>6 DEF Last
<1> QED BY <1>3, <1>4

\* A torn line is not read, and nothing else is read otherwise for it.
LEMMA TornIsNotRead ==
    ASSUME NEW s \in Pieces
    PROVE  /\ Readable(Append(s, Torn)) = Readable(s)
           /\ Leaf(Append(s, Torn)) = Leaf(s)
<1> DEFINE t == Append(s, Torn)
<1>1. Torn \in Piece
  BY DEF Torn, Piece, Root
<1>2. /\ t \in Pieces /\ Len(t) = Len(s) + 1 /\ DOMAIN t = 1 .. Len(s) + 1
      /\ \A i \in DOMAIN s : t[i] = s[i]
      /\ t[Len(s) + 1] = Torn
      /\ Len(s) \in Nat /\ DOMAIN s = 1 .. Len(s)
  BY <1>1, AppendIs DEF Pieces
<1> HIDE DEF t
<1>3. Readable(t) = Readable(s)
  <2>1. \A i \in DOMAIN s : i > 1 => i - 1 \in DOMAIN s
    BY <1>2
  <2>2. \A i \in DOMAIN t : i \in DOMAIN s \/ i = Len(s) + 1
    BY <1>2
  <2>3. DOMAIN s \subseteq DOMAIN t
    BY <1>2
  <2> QED BY <1>2, <2>1, <2>2, <2>3 DEF Readable
<1>4. \A i \in Readable(s) : t[i] = s[i]
  BY <1>2 DEF Readable
<1>5. Ends(t) = Ends(s)
  BY <1>3, <1>4 DEF Ends
<1>6. Ends(s) \subseteq DOMAIN s
  BY DEF Ends, Readable
<1>7. Leaf(t) = Leaf(s)
  <2>1. CASE Ends(s) = {}
    BY <1>5, <2>1 DEF Leaf
  <2>2. CASE Ends(s) # {}
    <3> DEFINE last == CHOOSE i \in Ends(s) : \A j \in Ends(s) : j <= i
    <3>1. \E i \in Ends(s) : \A j \in Ends(s) : j <= i
      BY <1>2, <1>6, <2>2, HasLast
    <3>2. last \in Ends(s)
      BY <3>1
    <3>3. Leaf(t) = t[last].id /\ Leaf(s) = s[last].id
      BY <1>5, <2>2, Zenon DEF Leaf
    <3> HIDE DEF last
    <3> QED BY <1>2, <1>6, <3>2, <3>3
  <2> QED BY <2>1, <2>2
<1> QED BY <1>3, <1>7 DEF t

Sound(s) == Line(s) \/ \E t \in Pieces : Line(t) /\ s = Append(t, Torn)

\* From the newest line down every line of a straight transcript is reached.
LEMMA SoundIsWhole ==
    ASSUME NEW t \in Pieces, Sound(t)
    PROVE  Ids(t) \subseteq Chain(t)
<1>1. PICK s \in Pieces : Line(s) /\ t \in {s, Append(s, Torn)}
  BY DEF Sound
<1>2. Readable(s) = DOMAIN s /\ Leaf(s) = Last(s)
  BY <1>1, LineLeaf
<1>3. Readable(t) = DOMAIN s /\ Leaf(t) = Last(s)
  BY <1>1, <1>2, TornIsNotRead
<1>4. /\ \A i \in DOMAIN s : i \in DOMAIN t /\ t[i] = s[i]
      /\ Len(t) \in Nat /\ Len(s) \in Nat /\ DOMAIN s = 1 .. Len(s) /\ Len(s) <= Len(t)
  <2>1. Torn \in Piece
    BY DEF Torn, Piece, Root
  <2> QED BY <1>1, <2>1, AppendIs DEF Pieces
<1>5. PICK D \in SUBSET DOMAIN t :
         /\ ChainFrom(t, Last(s)) = {t[i].id : i \in D}
         /\ \A i \in DOMAIN t : i \in D <=> Leads(t, Last(s), i, D)
  BY ChainUnfolds
<1> DEFINE Missed == {i \in DOMAIN s : i \notin D}
<1>6. Missed = {}
  <2> SUFFICES ASSUME Missed # {} PROVE FALSE
    OBVIOUS
  <2>1. PICK i \in Missed : \A j \in Missed : j <= i
    <3>1. Missed \in SUBSET (1 .. Len(s))
      BY <1>4
    <3> HIDE DEF Missed
    <3> QED BY <1>4, <3>1, HasLast
  <2>2. i \in DOMAIN t /\ i \in Readable(t) /\ t[i] = s[i]
    BY <1>3, <1>4
  <2>3. CASE i = Len(s)
    <3>1. Last(s) = s[i].id
      BY <1>4, <2>3 DEF Last
    <3> QED BY <1>5, <2>2, <3>1, Zenon DEF Leads
  <2>4. CASE i # Len(s)
    <3>1. i + 1 \in DOMAIN s /\ i + 1 \in (i + 1) .. Len(t) /\ i + 1 # 1 /\ (i + 1) - 1 = i
      BY <1>4, <2>4
    <3>2. i + 1 \in D
      BY <1>4, <2>1, <3>1
    <3>3. s[i + 1].parent = s[(i + 1) - 1].id
      BY <1>1, <3>1, Zenon DEF Line
    <3>4. t[i + 1].parent = t[i].id
      BY <1>4, <2>2, <3>1, <3>3
    <3> QED BY <1>5, <2>2, <3>1, <3>2, <3>4, Zenon DEF Leads
  <2> QED BY <2>3, <2>4
<1>7. \A i \in Readable(t) : i \in D
  BY <1>3, <1>6
<1> QED BY <1>3, <1>5, <1>7 DEF Ids, Chain

LEMMA LineGrows ==
    ASSUME NEW s \in Pieces, Line(s), NEW e \in Piece, e.id # Root, e.parent = Last(s),
           \A i \in DOMAIN s : s[i].id # e.id
    PROVE  Line(Append(s, e)) /\ Last(Append(s, e)) = e.id
<1> DEFINE t == Append(s, e)
<1>1. /\ t \in Pieces /\ Len(t) = Len(s) + 1 /\ DOMAIN t = 1 .. Len(s) + 1
      /\ \A i \in DOMAIN s : t[i] = s[i]
      /\ t[Len(s) + 1] = e
      /\ Len(s) \in Nat /\ DOMAIN s = 1 .. Len(s)
  BY AppendIs DEF Pieces
<1> HIDE DEF t
<1>2. ASSUME NEW i \in DOMAIN t
      PROVE  t[i].id # Root /\ t[i].parent = (IF i = 1 THEN Root ELSE t[i - 1].id)
  <2>1. CASE i \in DOMAIN s
    <3>1. i > 1 => i - 1 \in DOMAIN s
      BY <1>1, <2>1
    <3> QED BY <1>1, <2>1, <3>1 DEF Line
  <2>2. CASE i = Len(s) + 1
    <3>1. CASE Len(s) = 0
      <4>1. s = << >>
        BY <3>1 DEF Pieces
      <4> QED BY <1>1, <2>2, <3>1, <4>1 DEF Last
    <3>2. CASE Len(s) # 0
      <4>1. s # << >> /\ i - 1 = Len(s) /\ i # 1 /\ Len(s) \in DOMAIN s
        BY <1>1, <2>2, <3>2
      <4>2. t[i - 1].id = Last(s)
        BY <1>1, <4>1 DEF Last
      <4> QED BY <1>1, <2>2, <4>1, <4>2
    <3> QED BY <3>1, <3>2
  <2> QED BY <1>1, <2>1, <2>2
<1>3. ASSUME NEW i \in DOMAIN t, NEW j \in DOMAIN t, t[i].id = t[j].id PROVE i = j
  <2>1. \A k \in DOMAIN t : k \in DOMAIN s \/ k = Len(s) + 1
    BY <1>1
  <2> QED BY <1>1, <1>3, <2>1 DEF Line
<1>4. t # << >> /\ Last(t) = e.id
  BY <1>1 DEF Last
<1> QED BY <1>2, <1>3, <1>4, Zenon DEF Line, t

\* What is loaded from the leaf of a transcript is loaded from a line appended to it
\* that names that leaf.
LEMMA NoteCarries ==
    ASSUME NEW s \in Pieces, Finished(s), NEW e \in Piece, e # Torn, e.parent = Leaf(s)
    PROVE  Chain(s) \subseteq ChainFrom(Append(s, e), e.id)
<1> DEFINE t == Append(s, e)
           n == Len(s) + 1
<1>1. /\ t \in Pieces /\ Len(t) = Len(s) + 1 /\ DOMAIN t = 1 .. Len(s) + 1
      /\ \A i \in DOMAIN s : t[i] = s[i]
      /\ t[n] = e
      /\ Len(s) \in Nat /\ DOMAIN s = 1 .. Len(s)
  BY AppendIs DEF Pieces
<1>2. s[Len(s)] # Torn /\ Len(s) \in DOMAIN s
  BY <1>1 DEF Finished, Pieces
<1> HIDE DEF t
<1>3. \A i \in Readable(s) : i \in Readable(t)
  <2>1. \A i \in DOMAIN s : i > 1 => i - 1 \in DOMAIN s
    BY <1>1
  <2> QED BY <1>1, <2>1 DEF Readable
<1>4. n \in Readable(t) /\ n \in DOMAIN t
  <2>1. n \in DOMAIN t /\ n - 1 = Len(s)
    BY <1>1
  <2> QED BY <1>1, <1>2, <2>1 DEF Readable
<1>5. PICK C \in SUBSET DOMAIN s :
         /\ ChainFrom(s, Leaf(s)) = {s[i].id : i \in C}
         /\ \A i \in DOMAIN s : i \in C <=> Leads(s, Leaf(s), i, C)
  BY ChainUnfolds
<1>6. PICK D \in SUBSET DOMAIN t :
         /\ ChainFrom(t, e.id) = {t[i].id : i \in D}
         /\ \A i \in DOMAIN t : i \in D <=> Leads(t, e.id, i, D)
  BY <1>1, ChainUnfolds
<1>7. n \in D
  BY <1>1, <1>4, <1>6 DEF Leads
<1> DEFINE Missed == {i \in C : i \notin D}
<1>8. Missed = {}
  <2> SUFFICES ASSUME Missed # {} PROVE FALSE
    OBVIOUS
  <2>1. PICK i \in Missed : \A j \in Missed : j <= i
    <3>1. Missed \in SUBSET (1 .. Len(s))
      BY <1>1
    <3> HIDE DEF Missed
    <3> QED BY <1>1, <3>1, HasLast
  <2>2. i \in DOMAIN s /\ i \in Readable(s) /\ i \in Readable(t) /\ i \in DOMAIN t /\ t[i] = s[i]
    BY <1>1, <1>3, <1>5 DEF Leads
  <2>3. ~ Leads(t, e.id, i, D)
    BY <1>6, <2>2
  <2>4. CASE s[i].id = Leaf(s)
    <3>1. n \in (i + 1) .. Len(t) /\ t[n].parent = t[i].id
      BY <1>1, <2>2, <2>4
    <3> QED BY <1>7, <2>2, <2>3, <3>1, Zenon DEF Leads
  <2>5. CASE s[i].id # Leaf(s)
    <3>1. PICK j \in (i + 1) .. Len(s) : s[j].parent = s[i].id /\ j \in C
      BY <1>5, <2>2, <2>5, Zenon DEF Leads
    <3>2. j \in DOMAIN s /\ j > i /\ j \in (i + 1) .. Len(t)
      BY <1>1, <2>2, <3>1
    <3>3. j \in D
      <4>1. ~ (j <= i)
        BY <1>1, <2>2, <3>2
      <4> QED BY <2>1, <3>1, <4>1
    <3>4. t[j].parent = t[i].id
      BY <1>1, <2>2, <3>1, <3>2
    <3> QED BY <2>2, <2>3, <3>2, <3>3, <3>4, Zenon DEF Leads
  <2> QED BY <2>4, <2>5
<1>9. \A i \in C : i \in D /\ t[i].id = s[i].id
  BY <1>1, <1>8
<1> QED BY <1>5, <1>6, <1>9 DEF Chain, t

-----------------------------------------------------------------------------
(* The second invariant: the history is whole, and a fork carries it *)

\* What a resume loads is everything, and Claude Code continues at its end.
Straight ==
    slips = {} =>
        /\ Sound(file) /\ (pc # "undo" => Line(file))
        /\ agent.open => agent.leaf = Last(file)
        /\ pc \in Read => Line(job.text)

\* The leaf the note is to name is that of the text it is appended to.
Faithful ==
    "stale" \notin slips =>
        /\ pc = "text" /\ Finished(file) => job.leaf = Leaf(file)
        /\ pc \in Read => job.leaf = Leaf(job.text)

Carried ==
    /\ pc \in Read => Finished(job.text)
    /\ pc \in {"reread", "hash"} => fork = Append(job.text, Note)
    /\ pc = "hash" => Leaf(fork) = job.note

History == Straight /\ Faithful /\ Carried

LEMMA FinishedSound ==
    ASSUME NEW s \in Pieces, Sound(s), Finished(s)
    PROVE  Line(s)
<1>1. CASE Line(s)
  BY <1>1
<1>2. ASSUME NEW t \in Pieces, s = Append(t, Torn) PROVE FALSE
  <2>1. Torn \in Piece
    BY DEF Torn, Piece, Root
  <2>2. Len(s) = Len(t) + 1 /\ s[Len(t) + 1] = Torn
    BY <1>2, <2>1, AppendIs
  <2> QED BY <2>2 DEF Finished
<1> QED BY <1>1, <1>2 DEF Sound

LEMMA EmptyIsLine == << >> \in Pieces /\ Line(<< >>) /\ Last(<< >>) = Root
BY DEF Pieces, Line, Last

LEMMA HistoryStarts == Init => History
<1> SUFFICES ASSUME Init PROVE History
  OBVIOUS
<1>1. Entry(1, Root, "agent") \in Piece /\ Entry(1, Root, "agent").id = 1
      /\ Entry(1, Root, "agent").parent = Root
  BY DEF Entry, Root, Piece
<1>2. Started = Append(<< >>, Entry(1, Root, "agent"))
  BY DEF Started
<1>3. Line(Started)
  <2> DEFINE e == Entry(1, Root, "agent")
             none == << >>
  <2>1. e \in Piece /\ e.id # Root /\ e.parent = Last(none)
    BY <1>1, EmptyIsLine DEF Root
  <2>2. none \in Pieces /\ Line(none) /\ DOMAIN none = {}
    BY EmptyIsLine
  <2>3. Started = Append(none, e)
    BY <1>2
  <2> HIDE DEF e, none
  <2> QED BY <2>1, <2>2, <2>3, LineGrows
<1>4. Line(file)
  BY <1>3, EmptyIsLine DEF Init
<1> QED BY <1>4 DEF Init, History, Straight, Faithful, Carried, Sound, Read, Appending, Forking

LEMMA ClaudeKeepsHistory == ASSUME Inv, History, Claude PROVE History'
<1>0. file \in Pieces /\ UNCHANGED <<pc, job, fork>>
  BY DEF Inv, Typed, Claude, Open, Close, Continue, Break
<1>c. Carried'
  BY <1>0 DEF History, Carried, Note
<1>1. CASE Open
  <2>1. file' = file /\ agent' = [open |-> TRUE, leaf |-> Leaf(file)]
        /\ slips' = (IF Committed THEN slips \union {"late"} ELSE slips)
    BY <1>1, Zenon DEF Open
  <2>2. Faithful'
    BY <1>0, <2>1 DEF History, Faithful
  <2>3. Straight'
    <3> SUFFICES ASSUME slips' = {} PROVE slips = {} /\ pc # "undo" /\ agent'.leaf = Last(file)
      BY <1>0, <2>1 DEF History, Straight
    <3>1. slips = {} /\ pc # "undo"
      BY <2>1 DEF Committed
    <3> QED BY <1>0, <2>1, <3>1, LineLeaf DEF History, Straight
  <2> QED BY <1>c, <2>2, <2>3 DEF History
<1>2. CASE Close
  <2>1. file' = file /\ slips' = slips /\ agent' = [agent EXCEPT !.open = FALSE]
    BY <1>2 DEF Close
  <2>2. agent'.open = FALSE
    BY <2>1 DEF Inv, Typed
  <2>3. Straight'
    BY <1>0, <2>1, <2>2 DEF History, Straight
  <2>4. Faithful'
    BY <1>0, <2>1, <2>2 DEF History, Faithful
  <2> QED BY <1>c, <2>3, <2>4 DEF History
<1>3. CASE Continue
  <2> DEFINE e == Entry(Fresh, agent.leaf, "agent")
  <2>1. /\ file' = Append(file, e) /\ agent.open /\ agent' = [agent EXCEPT !.leaf = Fresh]
        /\ slips' = (IF At("text") THEN slips \union {"stale"} ELSE slips)
    BY <1>3, Zenon DEF Continue
  <2>2. Faithful'
    BY <1>0, <2>1 DEF History, Faithful, At
  <2>3. Straight'
    <3> SUFFICES ASSUME slips' = {} PROVE Straight'
      BY DEF Straight
    <3>1. slips = {} /\ pc # "undo"
      BY <2>1 DEF Inv, Alone
    <3>2. Line(file) /\ agent.leaf = Last(file)
      BY <2>1, <3>1 DEF History, Straight
    <3>3. Fresh = Given + 1 /\ Given \in Nat
      BY DEF Fresh, Given, Inv, Typed, Bounded
    <3>4. e \in Piece /\ e.id = Fresh /\ e.parent = Last(file)
      BY <3>2, <3>3 DEF Entry, Piece, Inv, Typed
    <3>5. e.id # Root /\ \A i \in DOMAIN file : file[i].id # e.id
      <4>1. \A i \in DOMAIN file : file[i].id \in Nat /\ file[i].id <= Given
        BY <1>0, PiecesAre DEF Inv, IdsAreGiven
      <4> QED BY <3>3, <3>4, <4>1 DEF Root
    <3> HIDE DEF e
    <3>6. Line(file') /\ Last(file') = Fresh
      BY <1>0, <2>1, <3>2, <3>4, <3>5, LineGrows
    <3>7. agent'.leaf = Fresh
      BY <2>1 DEF Inv, Typed
    <3> QED BY <1>0, <3>1, <3>6, <3>7 DEF History, Straight, Sound
  <2> QED BY <1>c, <2>2, <2>3 DEF History
<1>4. CASE Break
  <2>1. file' = Append(file, Torn) /\ slips' = slips \union {"torn"}
    BY <1>4 DEF Break
  <2>2. ~ Finished(file')
    <3>1. Torn \in Piece
      BY DEF Torn, Piece, Root
    <3>2. Len(file') = Len(file) + 1 /\ file'[Len(file) + 1] = Torn
      BY <1>0, <2>1, <3>1, AppendIs
    <3> QED BY <3>2 DEF Finished
  <2>3. Faithful'
    BY <1>0, <2>1, <2>2 DEF History, Faithful
  <2>4. Straight'
    BY <2>1 DEF Straight
  <2> QED BY <1>c, <2>3, <2>4 DEF History
<1> QED BY <1>1, <1>2, <1>3, <1>4 DEF Claude

LEMMA PrepareKeepsHistory ==
    ASSUME Inv, History, Start \/ ReadReport \/ ReadText
    PROVE  History'
<1>0. UNCHANGED <<file, agent, slips, fork>>
  BY DEF Start, ReadReport, ReadText
<1>1. CASE Start
  <2>1. pc = "idle" /\ pc' \in {"idle", "report"}
    BY <1>1 DEF Start, Say, At
  <2> QED BY <1>0, <2>1 DEF History, Straight, Faithful, Carried, Read, Appending, Forking
<1>2. CASE ReadReport
  <2>1. pc = "report" /\ pc' \in {"idle", "text"} /\ job' = [job EXCEPT !.leaf = Leaf(file)]
    BY <1>2 DEF ReadReport, Say, Go, At
  <2>2. job'.leaf = Leaf(file)
    BY <2>1 DEF Inv, Typed
  <2>3. Straight'
    BY <1>0, <2>1 DEF History, Straight, Read, Appending, Forking
  <2> QED BY <1>0, <2>1, <2>2, <2>3 DEF History, Faithful, Carried, Read, Appending, Forking
<1>3. CASE ReadText
  <2>1. /\ pc = "text" /\ pc' \in {"idle", "asking"} /\ job' = [job EXCEPT !.text = file]
        /\ pc' = "asking" => Finished(file)
    BY <1>3 DEF ReadText, Say, Go, At
  <2>2. job'.leaf = job.leaf /\ job'.text = file
    BY <2>1 DEF Inv, Typed
  <2>3. Straight'
    BY <1>0, <2>1, <2>2 DEF History, Straight
  <2> QED BY <1>0, <2>1, <2>2, <2>3 DEF History, Faithful, Carried, Read, Appending, Forking
<1> QED BY <1>1, <1>2, <1>3

\* Before its note is written Tacet has compared: what is there is what was read.
LEMMA WritesWhereItRead ==
    ASSUME Inv, History, pc = "write", slips = {}
    PROVE  /\ file = job.text /\ Line(file) /\ ~ agent.open
           /\ Note \in Piece /\ Note.id # Root /\ Note.parent = Last(file)
           /\ \A i \in DOMAIN file : file[i].id # Note.id
<1>1. file \in Pieces /\ job.text \in Pieces /\ job.note \in Nat \ {0}
  BY DEF Inv, Typed, IdsAreGiven
<1>2. Kept(job.text, file) /\ Len(file) = Len(job.text) /\ ~ agent.open
  BY DEF Inv, TextIsFront, Alone, Read, Appending
<1>3. file = job.text
  BY <1>1, <1>2 DEF Kept, Pieces
<1>4. Line(file) /\ job.leaf = Leaf(job.text)
  BY DEF History, Straight, Faithful, Read, Appending
<1>5. job.leaf = Last(file)
  BY <1>1, <1>3, <1>4, LineLeaf
<1>6. Note \in Piece /\ Note.id = job.note /\ Note.parent = job.leaf
  BY NoteIs DEF Note, Entry
<1>7. \A i \in DOMAIN file : file[i].id # job.note
  BY DEF Inv, NoteIsNew, Place
<1> QED BY <1>1, <1>2, <1>3, <1>4, <1>5, <1>6, <1>7 DEF Root

LEMMA WritingKeepsHistory ==
    ASSUME Inv, History, Write \/ WriteShort \/ Undo
    PROVE  History'
<1>1. CASE Write \/ WriteShort
  <2>1. pc = "write" /\ pc' \in {"verify", "undo"} /\ UNCHANGED <<agent, job, fork, slips>>
    BY <1>1 DEF Write, WriteShort, At, Go
  <2>2. Faithful' /\ Carried'
    BY <2>1 DEF History, Faithful, Carried, Read, Appending
  <2>3. Straight'
    <3> SUFFICES ASSUME slips = {} PROVE Straight'
      BY <2>1 DEF Straight
    <3>1. /\ file = job.text /\ Line(file) /\ ~ agent.open
          /\ Note \in Piece /\ Note.id # Root /\ Note.parent = Last(file)
          /\ \A i \in DOMAIN file : file[i].id # Note.id
      BY <2>1, WritesWhereItRead
    <3>2. file \in Pieces /\ Line(Append(file, Note))
      BY <3>1, LineGrows DEF Inv, Typed
    <3>3. Append(file, Note) \in Pieces
      BY <3>1, <3>2, AppendIs
    <3>4. CASE Write
      BY <2>1, <3>1, <3>2, <3>4 DEF Write, Straight, Sound
    <3>5. CASE WriteShort
      <4>1. PICK part \in {<< >>, <<Torn>>, <<Note>>, <<Note, Torn>>} : file' = file \o part
        BY <3>5 DEF WriteShort
      <4>2. /\ file \o << >> = file /\ file \o <<Torn>> = Append(file, Torn)
            /\ file \o <<Note>> = Append(file, Note)
        <5>1. Torn \in Piece
          BY DEF Torn, Piece, Root
        <5> QED BY <3>1, <3>2, <5>1, ShortIs DEF Pieces
      <4>3. file \o <<Note, Torn>> = Append(Append(file, Note), Torn)
        BY <3>1, <3>2 DEF Pieces, Torn, Piece, Root
      <4>4. Sound(file')
        BY <3>1, <3>2, <3>3, <4>1, <4>2, <4>3, Zenon DEF Sound
      <4>5. pc' = "undo"
        BY <3>5 DEF WriteShort, Go
      <4> QED BY <2>1, <3>1, <4>4, <4>5 DEF Straight
    <3> QED BY <1>1, <3>4, <3>5
  <2> QED BY <2>2, <2>3 DEF History
<1>2. CASE Undo
  <2>1. /\ pc = "undo" /\ pc' = "idle" /\ file' = job.text
        /\ UNCHANGED <<agent, job, fork, slips>>
    BY <1>2, UndoIs
  <2>2. slips = {} => Line(job.text) /\ ~ agent.open
    BY <2>1 DEF History, Straight, Read, Appending, Inv, Alone
  <2> QED BY <2>1, <2>2 DEF History, Straight, Faithful, Carried, Sound, Read, Appending, Forking
<1> QED BY <1>1, <1>2

LEMMA MovingKeepsHistory ==
    ASSUME Inv, History,
           \/ Confirm \/ LookAgain \/ Compare \/ OpenFails \/ Verify \/ UndoFails
           \/ WriteBeside \/ WriteBesideFails \/ VerifyFork \/ CheckOriginal \/ Die
    PROVE  History'
<1>1. /\ UNCHANGED <<file, agent, job>> /\ slips \subseteq slips'
      /\ pc # "idle" /\ pc' # "text"
      /\ pc \in {"report", "text"} => pc' = "idle"
      /\ pc' = "undo" => pc \in {"verify"}
  BY DEF Confirm, LookAgain, Compare, OpenFails, Verify, UndoFails, Leftover, Committed,
     WriteBeside, WriteBesideFails, VerifyFork, CheckOriginal, Die, At, Go, Say
<1>2. pc = "undo" => pc' = "idle" /\ slips' = Leftover
  BY DEF Confirm, LookAgain, Compare, OpenFails, Verify, UndoFails, Committed,
     WriteBeside, WriteBesideFails, VerifyFork, CheckOriginal, Die, At, Go, Say
<1>3. pc' \in Read => pc \in Read
  BY <1>1 DEF Inv, Typed, Place, Read, Appending, Forking
<1>4. Straight'
  <2> SUFFICES ASSUME slips' = {} PROVE Straight'
    BY DEF Straight
  <2>1. slips = {}
    BY <1>1
  <2>2. pc = "undo" => Finished(file)
    BY <1>2, <2>1 DEF Leftover
  <2>3. Line(file)
    BY <2>1, <2>2, FinishedSound DEF History, Straight, Inv, Typed
  <2> QED BY <1>1, <1>3, <2>1, <2>3 DEF History, Straight, Sound
<1>5. Faithful'
  BY <1>1, <1>3 DEF History, Faithful
<1>6. Carried'
  <2>1. CASE WriteBeside
    BY <1>1, <1>3, <2>1 DEF WriteBeside, History, Carried, Go, Note
  <2>2. CASE VerifyFork
    BY <1>1, <1>3, <2>2 DEF VerifyFork, Verified, History, Carried, Go, Say, Note, At
  <2>3. CASE \/ Confirm \/ LookAgain \/ Compare \/ OpenFails \/ Verify \/ UndoFails
             \/ WriteBesideFails \/ CheckOriginal \/ Die
    <3>1. pc' \notin {"reread", "hash"}
      BY <2>3 DEF Confirm, LookAgain, Compare, OpenFails, Verify, UndoFails,
         WriteBesideFails, CheckOriginal, Die, At, Go, Say
    <3> QED BY <1>1, <1>3, <3>1 DEF History, Carried
  <2> QED BY <2>1, <2>2, <2>3
<1> QED BY <1>4, <1>5, <1>6 DEF History

-----------------------------------------------------------------------------
(* The theorems about what a resume loads *)

LEMMA HistoryStep == Inv /\ History /\ [Next]_vars => History'
<1> SUFFICES ASSUME Inv, History, [Next]_vars PROVE History'
  OBVIOUS
<1>1. CASE UNCHANGED vars
  BY <1>1 DEF vars, History, Straight, Faithful, Carried, Note
<1> QED BY <1>1, ClaudeKeepsHistory, PrepareKeepsHistory, WritingKeepsHistory, MovingKeepsHistory
        DEF Next, Append_note, Fork_with_note

LEMMA HistoryHolds == Spec => []History
BY HistoryStarts, HistoryStep, Inductive, PTL DEF Spec

\* While nothing happened that no guard is for, no entry of a transcript, the
\* agent's or a note, is off the chain a resume loads: the note names the leaf of
\* what it is appended to, and Claude Code opens the session at its end.
THEOREM NothingOffTheChain == Spec => []HistoryWhole
<1>1. Inv /\ History => HistoryWhole
  BY SoundIsWhole DEF Inv, Typed, History, Straight, HistoryWhole
<1> QED BY <1>1, Inductive, HistoryHolds, PTL

LEMMA StepCarriesHistory ==
    Inv /\ History /\ [Next]_vars => [Whole \/ "stale" \in slips]_vars
<1> SUFFICES ASSUME Inv, History, [Next]_vars, "stale" \notin slips,
                    said' = "forked", said # "forked"
             PROVE  Chain(file) \subseteq Chain(fork)
  BY DEF Whole
<1>1. pc = "hash" /\ file = job.text
  <2>1. CASE CheckOriginal
    BY <2>1 DEF CheckOriginal, At, Say
  <2>2. CASE ~ CheckOriginal
    BY <2>2 DEF vars, Next, Claude, Open, Close, Continue, Break, Start, ReadReport, ReadText,
       Confirm, Append_note, Fork_with_note, LookAgain, Compare, OpenFails, Write, WriteShort,
       Verify, Undo, UndoFails, WriteBeside, WriteBesideFails, VerifyFork, Die, Go, Say
  <2> QED BY <2>1, <2>2
<1>2. /\ Finished(file) /\ fork = Append(file, Note) /\ Leaf(fork) = job.note
      /\ job.leaf = Leaf(file)
  BY <1>1 DEF History, Faithful, Carried, Read, Forking
<1>3. Note \in Piece /\ Note.id = job.note /\ Note.parent = Leaf(file) /\ Note # Torn
  BY <1>1, <1>2, NoteIs DEF Note, Entry, Torn
<1>4. file \in Pieces
  BY DEF Inv, Typed
<1>5. Chain(file) \subseteq ChainFrom(fork, job.note)
  BY <1>2, <1>3, <1>4, NoteCarries
<1> QED BY <1>2, <1>5 DEF Chain

\* A fork reported as made carries what a resume of the original loads, unless the
\* agent wrote between the two reads of `prepare`.
THEOREM ForkIsWhole == Spec => ForkCarriesHistory
<1>1. Inv /\ History /\ [Next]_vars => [Whole \/ "stale" \in slips]_vars
  BY StepCarriesHistory
<1> QED BY <1>1, Inductive, HistoryHolds, PTL DEF Spec, ForkCarriesHistory

=============================================================================
