-------------------------- MODULE GenerationProofs --------------------------
(***************************************************************************)
(* A constrained generation, for any catalog, vocabulary and bound.  From  *)
(* the frames of the automaton and what they keep to while a character is  *)
(* fed (Good), by way of the mask's walk along a token and the session     *)
(* that takes it (Kept), to the whole of run_loop: what the mask leaves    *)
(* open the session takes, what the turn is told was written, and the      *)
(* lexer of the repetition guard stands where the automaton stands.        *)
(*                                                                         *)
(* Advance, Walked, RemainderConforms, Recorded and Decode are recursive   *)
(* functions over the characters of a token: each has a predicate for such *)
(* a function (Reaching, Walking, ...), that there is one, and what its    *)
(* next value is, and an induction of ordinary steps along the token.      *)
(***************************************************************************)
EXTENDS Generation, Grammar, SequenceTheorems, WellFoundedInduction, TLAPS

Nodes(kind) == {n \in DOMAIN schema.nodes : schema.nodes[n].kind = kind}

ValueFrames == [kind : {"value"}, node : DOMAIN schema.nodes]

\* What has been written of a word is its start, and the run of spaces is in it.
Within(word, progress, run) ==
    /\ progress <= Len(word) /\ run <= progress
    /\ \A j \in progress - run + 1..progress : word[j] = " "

ObjectFrames ==
    {f \in [kind : {"object"}, node : Nodes("object"), seen : SUBSET Nat,
            stage : {"KeyOrClose", "InKey", "AfterKey", "AfterColon", "InValue", "AfterValue", "AfterComma"},
            candidates : SUBSET Nat, progress : Nat, active : Nat] :
        /\ f.candidates \subseteq DOMAIN Fields(f)
        /\ f.stage \in {"AfterKey", "AfterColon"} => f.active \in DOMAIN Fields(f)}

ArrayFrames ==
    [kind : {"array"}, node : Nodes("array"), count : Nat,
     stage : {"Start", "InItem", "AfterItem", "BeforeItem"}]

TextFrames ==
    [kind : {"text"}, node : Nodes("text"), length : Nat,
     stage : {"Body", "Escape", "LowEscape", "LowU", "Hex"},
     value : Int, left : Int, low : BOOLEAN]

ChoiceFrames ==
    {f \in [kind : {"choice"}, node : Nodes("choice"), candidates : SUBSET Seq(STRING), progress : Nat] :
        f.candidates \subseteq Node(f.node).choices}

LiteralFrames == [kind : {"literal"}, candidates : SUBSET Literals, progress : Nat]

NumberFrames ==
    [kind : {"number"}, node : Nodes("number"),
     stage : {"Start", "AfterMinus", "Zero", "IntDigit", "Dot", "FracDigit", "Exp", "ExpSign", "ExpDigit"},
     neg : BOOLEAN, int : Int, frac : Int, places : Nat, eneg : BOOLEAN, exp : Int, edigits : Nat]

Frames ==
    ValueFrames \union ObjectFrames \union ArrayFrames \union TextFrames
        \union ChoiceFrames \union LiteralFrames \union NumberFrames

\* The frame that is written to.
Unread(f, run) ==
    /\ f.kind = "object" =>
          /\ f.stage # "InValue"
          /\ f.stage = "InKey" =>
                \A i \in f.candidates : Within(Fields(f)[i].name, f.progress, run)
    /\ f.kind = "array" => f.stage # "InItem"
    /\ f.kind = "choice" => \A w \in f.candidates : Within(w, f.progress, run)
    /\ f.kind = "literal" => \A l \in f.candidates : f.progress < Len(l)

Holds(f) == f.kind \in {"object", "array"}

Below(stack) == \A i \in DOMAIN stack : i < Len(stack) => Holds(stack[i])

\* A state of the automaton in which `run` spaces stand last.
Good(s, run) ==
    /\ s \in [stack : Seq(Frames), run : Nat]
    /\ ~ IsDone(s) => Unread(Top(s), run)
    /\ Below(s.stack)

AutomatonInv == IsSchema(schema) /\ SpelledTight(schema) /\ Good(state, state.run)

-----------------------------------------------------------------------------
(* What is compiled *)

LEMMA NodeIs ==
    ASSUME IsSchema(schema), NEW n \in DOMAIN schema.nodes
    PROVE  /\ Node(n).kind = schema.nodes[n].kind
           /\ Node(n).kind \in {"object", "array", "text", "choice", "number", "bool"}
           /\ Node(n).kind = "array" => Node(n).item \in DOMAIN schema.nodes
           /\ Node(n).kind = "choice" => Node(n).choices = schema.nodes[n].choices
           /\ Node(n).kind = "object" =>
                 /\ DOMAIN Node(n).fields \subseteq DOMAIN schema.nodes[n].fields
                 /\ DOMAIN Node(n).fields \subseteq Nat
                 /\ \A i \in DOMAIN Node(n).fields :
                       /\ Node(n).fields[i].name = schema.nodes[n].fields[i].name
                       /\ Node(n).fields[i].node \in DOMAIN schema.nodes
<1> DEFINE d == schema.nodes[n]
           fillable == Fillable(schema.nodes)
<1> USE DEF IsSchema
<1>1. d \in NodeDecl /\ n \in Nat /\ \A m \in 1..n - 1 : m \in DOMAIN schema.nodes
  BY DEF IsSchema
<1>2. d.kind \in {"object", "array", "text", "choice", "number", "bool"}
  BY <1>1 DEF NodeDecl
<1>a. Node(n) = CASE d.kind = "object" ->
                [d EXCEPT !.fields = [i \in {i \in DOMAIN d.fields :
                    d.fields[i].required \/ fillable[d.fields[i].node]} |-> d.fields[i]]]
          [] d.kind = "array" -> IF fillable[d.item] THEN d ELSE [d EXCEPT !.max = {0}]
          [] OTHER -> d
  BY Zenon DEF Node, Compile
<1> HIDE DEF fillable
<1>3. CASE d.kind = "object"
  <2> DEFINE kept == {i \in DOMAIN d.fields : d.fields[i].required \/ fillable[d.fields[i].node]}
             fields == [i \in kept |-> d.fields[i]]
  <2>1. d \in [kind : {"object"}, fields : Seq([name : Seq(STRING), key : Seq(STRING), node : Nat,
                                               required : BOOLEAN])]
    BY <1>1, <1>3 DEF NodeDecl
  <2>2. Node(n) = [d EXCEPT !.fields = fields]
    BY <1>3, <1>a
  <2>3. kept \subseteq DOMAIN d.fields /\ DOMAIN d.fields \subseteq Nat
    BY <2>1
  <2>4. \A i \in DOMAIN d.fields : d.fields[i].node \in DOMAIN schema.nodes
    BY <1>1, <1>3 DEF IsSchema
  <2> HIDE DEF kept
  <2>5. DOMAIN fields = kept /\ \A i \in kept : fields[i] = d.fields[i]
    OBVIOUS
  <2> HIDE DEF fields
  <2>6. Node(n).kind = "object" /\ Node(n).fields = fields
    BY <2>1, <2>2, <1>3
  <2>7. QED
    BY <2>3, <2>4, <2>5, <2>6, <1>3
<1>4. CASE d.kind = "array"
  <2>1. d \in [kind : {"array"}, item : Nat, min : SUBSET Nat, max : SUBSET Nat]
    BY <1>1, <1>4 DEF NodeDecl
  <2>2. Node(n) = d \/ Node(n) = [d EXCEPT !.max = {0}]
    BY <1>4, <1>a
  <2>3. d.item \in DOMAIN schema.nodes
    BY <1>1, <1>4 DEF IsSchema
  <2>4. Node(n).kind = "array" /\ Node(n).item = d.item
    BY <2>1, <2>2, <1>4
  <2>5. QED
    BY <2>3, <2>4, <1>4
<1>5. CASE d.kind \notin {"object", "array"}
  <2>1. Node(n) = d
    BY <1>5, <1>a
  <2>2. QED
    BY <2>1, <1>2, <1>5
<1>6. QED
  BY <1>3, <1>4, <1>5

LEMMA Named ==
    ASSUME IsSchema(schema), NEW n \in DOMAIN schema.nodes, Node(n).kind = "object",
           NEW i \in DOMAIN Node(n).fields
    PROVE  Node(n).fields[i].name \in Seq(STRING)
<1> DEFINE d == schema.nodes[n]
           Field == [name : Seq(STRING), key : Seq(STRING), node : Nat, required : BOOLEAN]
<1>1. d \in NodeDecl /\ d.kind = "object"
  BY NodeIs DEF IsSchema
<1>2. i \in DOMAIN d.fields /\ Node(n).fields[i].name = d.fields[i].name
  BY NodeIs
<1> HIDE DEF d
<1>3. d \in [kind : {"object"}, fields : Seq(Field)]
  BY <1>1 DEF NodeDecl
<1> HIDE DEF Field
<1>4. d.fields \in Seq(Field)
  BY <1>3
<1>5. d.fields[i] \in Field
  BY <1>2, <1>4
<1>6. QED
  BY <1>2, <1>5 DEF Field

LEMMA Chosen ==
    ASSUME IsSchema(schema), NEW n \in DOMAIN schema.nodes, Node(n).kind = "choice"
    PROVE  Node(n).choices \subseteq Seq(STRING)
<1> DEFINE d == schema.nodes[n]
<1>1. d \in NodeDecl /\ d.kind = "choice" /\ Node(n).choices = d.choices
  BY NodeIs DEF IsSchema
<1> HIDE DEF d
<1>2. QED
  BY <1>1 DEF NodeDecl

-----------------------------------------------------------------------------
(* The mask's table and the automaton's, frame by frame *)

LEMMA PushedTop ==
    ASSUME NEW S, NEW s, s.stack \in Seq(S), NEW f, NEW r, s = [stack |-> s.stack, run |-> r]
    PROVE  Top(Push(s, f)) = f
BY DEF Top, Push, Last

LEMMA StartingNumber ==
    ASSUME NEW n, NEW c, NumberNext(NumberFrame(n), c) # {}
    PROVE  c \in Digits \union {"-"}
<1>1. NumberTransition(Node(n), NumberFrame(n), c) # {}
  BY DEF NumberNext, NumberFrame
<1>2. NumberFrame(n).stage = "Start"
  BY DEF NumberFrame
<1>3. QED
  BY <1>1, <1>2 DEF NumberTransition, Digits

\* Only what begins a value begins one, and the two tables name the same.
LEMMA OpenAgrees ==
    ASSUME IsSchema(schema), NEW n \in DOMAIN schema.nodes, NEW c,
           NEW s, NEW r, s.stack \in Seq(Frames), s = [stack |-> s.stack, run |-> r]
    PROVE  OpenValue(s, n, c) # {} <=> c \in ValueStart(n)
<1>1. Node(n).kind \in {"object", "array", "text", "choice", "number", "bool"}
  BY NodeIs
<1>2. CASE Node(n).kind \in {"object", "array", "text", "choice"}
  BY <1>2 DEF OpenValue, ValueStart
<1>3. CASE Node(n).kind = "number"
  BY <1>3, StartingNumber DEF OpenValue, ValueStart
<1>4. CASE Node(n).kind = "bool"
  <2>1. Top(Push(s, LiteralFrame)) = LiteralFrame
    BY PushedTop
  <2>2. OpenValue(s, n, c) = LiteralNext(Push(s, LiteralFrame), c) /\ ValueStart(n) = {"t", "f"}
    BY <1>4 DEF OpenValue, ValueStart
  <2>3. LiteralNext(Push(s, LiteralFrame), c) # {} <=> \E l \in Literals : l[1] = c
    <3> DEFINE t == Push(s, LiteralFrame)
               remaining == {l \in Literals : l[1] = c}
    <3>1. LiteralFrame.candidates = Literals /\ LiteralFrame.progress + 1 = 1
      BY DEF LiteralFrame
    <3>2. remaining = {} => LiteralNext(t, c) = {}
      BY <2>1, <3>1 DEF LiteralNext
    <3>3. remaining # {} => LiteralNext(t, c) # {}
      BY <2>1, <3>1 DEF LiteralNext
    <3>4. QED
      BY <3>2, <3>3
  <2>4. (\E l \in Literals : l[1] = c) <=> c \in {"t", "f"}
    BY DEF Literals
  <2>5. QED
    BY <2>2, <2>3, <2>4
<1>5. QED
  BY <1>1, <1>2, <1>3, <1>4

\* The stack with another frame on top, or with what is below it.
LEMMA StackIs ==
    ASSUME NEW S, NEW stack \in Seq(S), stack # << >>
    PROVE  /\ Front(stack) \in Seq(S) /\ Len(Front(stack)) = Len(stack) - 1
           /\ \A i \in 1..Len(stack) - 1 : Front(stack)[i] = stack[i]
           /\ Last(stack) = stack[Len(stack)] /\ Len(stack) \in Nat \ {0}
           /\ Last(stack) \in S
<1>1. Len(stack) \in Nat \ {0}
  BY LenProperties, EmptySeq
<1>2. Front(stack) = SubSeq(stack, 1, Len(stack) - 1)
  BY DEF Front
<1> DEFINE n == Len(stack) - 1
           front == SubSeq(stack, 1, n)
<1>3. /\ Front(stack) \in Seq(S) /\ Len(Front(stack)) = Len(stack) - 1
      /\ \A i \in 1..Len(stack) - 1 : Front(stack)[i] = stack[i]
  <2>1. n \in Nat /\ n - 1 + 1 = n /\ (~ (1 <= n) => n = 0) /\ \A i \in 1..n : stack[i] \in S
    <3>1. n \in Nat /\ n - 1 + 1 = n /\ (~ (1 <= n) => n = 0) /\ 1..n \subseteq 1..Len(stack)
      <4>1. \A k \in Nat \ {0} : /\ k - 1 \in Nat /\ k - 1 - 1 + 1 = k - 1 /\ (~ (1 <= k - 1) => k - 1 = 0)
                                 /\ 1..k - 1 \subseteq 1..k
        OBVIOUS
      <4>2. QED
        BY ONLY <1>1, <4>1
    <3>2. \A i \in 1..Len(stack) : stack[i] \in S
      OBVIOUS
    <3> HIDE DEF n
    <3>3. QED
      BY <3>1, <3>2
  <2>2. /\ front \in Seq(S) /\ Len(front) = IF 1 <= n THEN n - 1 + 1 ELSE 0
        /\ \A i \in 1..n - 1 + 1 : front[i] = stack[1 + i - 1]
    <3> HIDE DEF n
    <3>1. QED
      BY <2>1, SubSeqProperties
  <2>3. \A i \in 1..n : 1 + i - 1 = i
    OBVIOUS
  <2> HIDE DEF front, n
  <2>4. /\ front \in Seq(S) /\ Len(front) = n
        /\ \A i \in 1..n : front[i] = stack[i]
    BY <2>1, <2>2, <2>3
  <2>5. QED
    BY <1>2, <2>4 DEF front, n
<1>4. QED
  BY <1>1, <1>3 DEF Last

LEMMA BelowTheTop ==
    ASSUME NEW s \in [stack : Seq(Frames), run : Nat], ~ IsDone(s), NEW f \in Frames,
           NEW i, i \in 1..Len(s.stack) - 1
    PROVE  WithTop(s, f).stack[i] = s.stack[i]
<1> DEFINE front == Front(s.stack)
           stack == Append(front, f)
<1>1. s.stack # << >> /\ s.stack \in Seq(Frames)
  BY DEF IsDone
<1>2. /\ front \in Seq(Frames) /\ Len(front) = Len(s.stack) - 1 /\ Len(s.stack) \in Nat \ {0}
      /\ \A j \in 1..Len(s.stack) - 1 : front[j] = s.stack[j]
  BY <1>1, StackIs
<1>3. WithTop(s, f).stack = stack
  BY DEF WithTop
<1> HIDE DEF front
<1>4. \A j \in 1..Len(front) : stack[j] = front[j]
  BY <1>2, AppendProperties
<1> HIDE DEF stack
<1>5. QED
  BY <1>2, <1>3, <1>4

LEMMA WithTopIs ==
    ASSUME NEW s \in [stack : Seq(Frames), run : Nat], ~ IsDone(s), NEW f \in Frames,
           NEW t, t = WithTop(s, f)
    PROVE  /\ t \in [stack : Seq(Frames), run : Nat] /\ t.run = s.run
           /\ t = [stack |-> t.stack, run |-> s.run]
           /\ Len(t.stack) = Len(s.stack) /\ Len(s.stack) \in Nat \ {0}
           /\ t.stack[Len(s.stack)] = f
           /\ ~ IsDone(t) /\ Top(t) = f
<1> DEFINE front == Front(s.stack)
           stack == Append(front, f)
<1>1. s.stack # << >> /\ s.stack \in Seq(Frames)
  BY DEF IsDone
<1>2. /\ front \in Seq(Frames) /\ Len(front) = Len(s.stack) - 1 /\ Len(s.stack) \in Nat \ {0}
      /\ \A i \in 1..Len(s.stack) - 1 : front[i] = s.stack[i]
  BY <1>1, StackIs
<1>3. WithTop(s, f) = [stack |-> stack, run |-> s.run]
  <2>1. s = [stack |-> s.stack, run |-> s.run]
    OBVIOUS
  <2> HIDE DEF stack
  <2>2. [s EXCEPT !.stack = stack] = [stack |-> stack, run |-> s.run]
    BY <2>1
  <2>3. QED
    BY <2>2 DEF WithTop, stack
<1> HIDE DEF front
<1>4. /\ stack \in Seq(Frames) /\ Len(stack) = Len(s.stack) /\ stack[Len(s.stack)] = f
      /\ \A i \in 1..Len(s.stack) - 1 : stack[i] = s.stack[i]
      /\ stack # << >>
  BY <1>2, AppendProperties
<1> HIDE DEF stack
<1>5. QED
  BY <1>2, <1>3, <1>4 DEF IsDone, Top, Last

\* A value frame, and what it offers.
LEMMA ValueAgrees ==
    ASSUME IsSchema(schema), NEW s \in [stack : Seq(Frames), run : Nat], NEW c,
           ~ IsDone(s), Top(s) \in ValueFrames
    PROVE  FeedFrame(s, c) # {} <=> Offers(FrameAllows(s), c)
<1> DEFINE t == [s EXCEPT !.stack = Front(s.stack)]
           n == Top(s).node
<1>1. n \in DOMAIN schema.nodes /\ Top(s).kind = "value"
  BY DEF ValueFrames
<1>2. t.stack \in Seq(Frames) /\ t = [stack |-> t.stack, run |-> s.run]
  <2>1. Front(s.stack) \in Seq(Frames)
    BY DEF Front, IsDone
  <2>2. QED
    BY <2>1
<1>3. FeedFrame(s, c) = IF c = " " THEN {s} ELSE OpenValue(t, n, c)
  BY <1>1 DEF FeedFrame
<1>4. FrameAllows(s) = Offer(ValueStart(n), TRUE, FALSE)
  BY <1>1 DEF FrameAllows
<1> HIDE DEF t, n
<1>5. OpenValue(t, n, c) # {} <=> c \in ValueStart(n)
  BY <1>1, <1>2, OpenAgrees
<1>6. Offers(Offer(ValueStart(n), TRUE, FALSE), c) <=> c \in ValueStart(n) \/ c = " "
  BY DEF Offers, Offer
<1>7. QED
  BY <1>3, <1>4, <1>5, <1>6

LEMMA OffersIs ==
    ASSUME NEW chars, NEW space \in BOOLEAN, NEW body \in BOOLEAN, NEW c
    PROVE  Offers(Offer(chars, space, body), c) <=>
              \/ c \in chars
              \/ space /\ c = " "
              \/ body /\ ~ BreaksFreeText(c)
BY DEF Offers, Offer

LEMMA ObjectAgrees ==
    ASSUME IsSchema(schema), NEW s \in [stack : Seq(Frames), run : Nat], NEW c, NEW r \in Nat,
           ~ IsDone(s), Top(s) \in ObjectFrames, Unread(Top(s), r)
    PROVE  FeedObject(s, c) # {} <=> Offers(ObjectAllows(Top(s), Top(s).stage), c)
<1> DEFINE f == Top(s)
<1>1. /\ f.kind = "object" /\ f.node \in DOMAIN schema.nodes
      /\ f.stage \in {"KeyOrClose", "InKey", "AfterKey", "AfterColon", "AfterValue", "AfterComma"}
      /\ f.candidates \subseteq DOMAIN Fields(f)
      /\ f.stage = "AfterColon" => f.active \in DOMAIN Fields(f)
      /\ f.progress \in Nat
      /\ Node(f.node).kind = "object"
      /\ schema.nodes[f.node].kind = "object"
  BY NodeIs DEF ObjectFrames, Nodes, Unread
<1>2. CASE f.stage = "InKey"
  <2> DEFINE name(i) == Fields(f)[i].name
             complete == {i \in f.candidates : Len(name(i)) = f.progress}
             remaining == {i \in f.candidates \ complete : name(i)[f.progress + 1] = c}
  <2>1. \A i \in f.candidates : f.progress <= Len(name(i)) /\ Len(name(i)) \in Nat
    <3>1. ASSUME NEW i \in f.candidates PROVE name(i) \in Seq(STRING)
      <4> DEFINE d == schema.nodes[f.node]
                 Field == [name : Seq(STRING), key : Seq(STRING), node : Nat, required : BOOLEAN]
      <4>1. d \in [kind : {"object"}, fields : Seq(Field)]
        BY <1>1 DEF IsSchema, NodeDecl
      <4> HIDE DEF Field
      <4>2. i \in DOMAIN d.fields /\ name(i) = d.fields[i].name
        BY <1>1, NodeIs DEF Fields
      <4>3. d.fields[i] \in Field
        BY <4>1, <4>2
      <4> HIDE DEF d
      <4>4. QED
        BY <4>2, <4>3 DEF Field
    <3>2. \A i \in f.candidates : f.progress <= Len(name(i))
      BY <1>1, <1>2 DEF Unread, Within
    <3> HIDE DEF name
    <3>3. QED
      BY <3>1, <3>2
  <2>2. FeedObject(s, c) = FeedKey(s, c)
    BY <1>2 DEF FeedObject
  <2>3. FeedKey(s, c) # {} <=> (c = Quote /\ complete # {}) \/ remaining # {}
    BY DEF FeedKey
  <2>4. Offers(ObjectAllows(f, f.stage), c) <=>
            c \in {Follows(name(i), f.progress) : i \in f.candidates}
    <3>1. ObjectAllows(f, f.stage) = Offer({Follows(name(i), f.progress) : i \in f.candidates}, FALSE, FALSE)
      BY <1>2 DEF ObjectAllows
    <3> HIDE DEF f
    <3>2. QED
      BY <3>1, OffersIs
  <2>5. \A i \in f.candidates : Follows(name(i), f.progress)
                               = IF i \in complete THEN Quote ELSE name(i)[f.progress + 1]
    BY <2>1, <1>1 DEF Follows
  <2>6. c \in {Follows(name(i), f.progress) : i \in f.candidates}
           <=> (c = Quote /\ complete # {}) \/ remaining # {}
    <3> DEFINE progress == f.progress
    <3>1. \A i \in f.candidates : c = Follows(name(i), progress)
             <=> (c = Quote /\ i \in complete) \/ i \in remaining
      BY <2>5
    <3>2. complete \subseteq f.candidates /\ remaining \subseteq f.candidates
      OBVIOUS
    <3> HIDE DEF f, name, complete, remaining, progress
    <3>3. QED
      BY <3>1, <3>2 DEF progress
  <2> HIDE DEF f, name
  <2>7. QED
    BY <2>2, <2>3, <2>4, <2>6 DEF f
<1>3. CASE f.stage = "AfterColon"
  <2> DEFINE n == Fields(f)[f.active].node
             t == WithTop(s, [f EXCEPT !.stage = "InValue"])
  <2>1. n \in DOMAIN schema.nodes
    BY <1>1, <1>3, NodeIs DEF Fields
  <2>2. t.stack \in Seq(Frames) /\ t = [stack |-> t.stack, run |-> s.run]
    <3>1. [f EXCEPT !.stage = "InValue"] \in Frames
      <4>1. [f EXCEPT !.stage = "InValue"] \in ObjectFrames
        BY DEF ObjectFrames, Fields
      <4>2. QED
        BY <4>1 DEF Frames
    <3> DEFINE g == [f EXCEPT !.stage = "InValue"]
    <3> HIDE DEF f, g
    <3>2. t = WithTop(s, g)
      BY DEF g
    <3>3. g \in Frames
      BY <3>1 DEF g
    <3> HIDE DEF t
    <3>4. t \in [stack : Seq(Frames), run : Nat] /\ t = [stack |-> t.stack, run |-> s.run]
      BY <3>2, <3>3, WithTopIs
    <3>5. QED
      BY <3>4
  <2>3. FeedObject(s, c) = IF c = " " THEN {s} ELSE OpenValue(t, n, c)
    BY <1>3 DEF FeedObject
  <2>4. ObjectAllows(f, f.stage) = Offer(ValueStart(n), TRUE, FALSE)
    BY <1>3 DEF ObjectAllows
  <2> HIDE DEF n, t
  <2>5. OpenValue(t, n, c) # {} <=> c \in ValueStart(n)
    BY <2>1, <2>2, OpenAgrees
  <2> HIDE DEF f
  <2>6. Offers(Offer(ValueStart(n), TRUE, FALSE), c) <=> c \in ValueStart(n) \/ c = " "
    BY DEF Offers, Offer
  <2>7. QED
    BY <2>3, <2>4, <2>5, <2>6 DEF f
<1>4. CASE f.stage \in {"KeyOrClose", "AfterKey", "AfterValue", "AfterComma"}
  <2> DEFINE more == Remaining(f) # {}
             done == RequiredDone(f)
  <2>1. FeedObject(s, c) # {} <=>
          \/ c = " "
          \/ f.stage \in {"KeyOrClose", "AfterComma"} /\ c = Quote /\ more
          \/ f.stage \in {"KeyOrClose", "AfterValue"} /\ c = "}" /\ done
          \/ f.stage = "AfterKey" /\ c = ":"
          \/ f.stage = "AfterValue" /\ c = "," /\ more
    BY <1>4 DEF FeedObject, Quote
  <2>2. Offers(ObjectAllows(f, f.stage), c) <=>
          \/ c = " "
          \/ f.stage \in {"KeyOrClose", "AfterComma"} /\ c = Quote /\ more
          \/ f.stage \in {"KeyOrClose", "AfterValue"} /\ c = "}" /\ done
          \/ f.stage = "AfterKey" /\ c = ":"
          \/ f.stage = "AfterValue" /\ c = "," /\ more
    BY <1>4 DEF ObjectAllows, AfterValue, Offers, Offer
  <2>3. QED
    BY <2>1, <2>2
<1>5. QED
  BY <1>1, <1>2, <1>3, <1>4

LEMMA KindIs ==
    ASSUME NEW f \in Frames
    PROVE  /\ f.kind = "value" => f \in ValueFrames
           /\ f.kind = "object" => f \in ObjectFrames
           /\ f.kind = "array" => f \in ArrayFrames
           /\ f.kind = "text" => f \in TextFrames
           /\ f.kind = "choice" => f \in ChoiceFrames
           /\ f.kind = "literal" => f \in LiteralFrames
           /\ f.kind = "number" => f \in NumberFrames
           /\ f.kind \in {"value", "object", "array", "text", "choice", "literal", "number"}
<1>1. /\ \A g \in ValueFrames : g.kind = "value"
      /\ \A g \in ObjectFrames : g.kind = "object"
      /\ \A g \in ArrayFrames : g.kind = "array"
  BY DEF ValueFrames, ObjectFrames, ArrayFrames
<1>2. /\ \A g \in TextFrames : g.kind = "text"
      /\ \A g \in ChoiceFrames : g.kind = "choice"
      /\ \A g \in LiteralFrames : g.kind = "literal"
      /\ \A g \in NumberFrames : g.kind = "number"
  BY DEF TextFrames, ChoiceFrames, LiteralFrames, NumberFrames
<1>3. QED
  BY <1>1, <1>2 DEF Frames

\* The object or array below learns that its value is complete.
Learnt(f) ==
    IF f.kind = "object" THEN [f EXCEPT !.stage = "AfterValue"]
    ELSE [f EXCEPT !.stage = "AfterItem", !.count = @ + 1]

LEMMA LearntIs ==
    ASSUME NEW f \in Frames, Holds(f), NEW r
    PROVE  /\ Learnt(f) \in Frames /\ Unread(Learnt(f), r)
           /\ Learnt(f).kind = f.kind /\ Learnt(f).node = f.node
           /\ f.kind = "object" => /\ Learnt(f) \in ObjectFrames
                                   /\ Learnt(f).stage = "AfterValue" /\ Learnt(f).seen = f.seen
           /\ f.kind # "object" => /\ Learnt(f) \in ArrayFrames
                                   /\ Learnt(f).stage = "AfterItem" /\ Learnt(f).count = f.count + 1
<1>1. CASE f.kind = "object"
  <2>1. f \in ObjectFrames
    BY <1>1, KindIs
  <2>2. Learnt(f) \in ObjectFrames
    BY <2>1, <1>1 DEF Learnt, ObjectFrames, Fields
  <2>3. /\ Learnt(f).kind = f.kind /\ Learnt(f).node = f.node
        /\ Learnt(f).stage = "AfterValue" /\ Learnt(f).seen = f.seen
    BY <2>1, <1>1 DEF Learnt, ObjectFrames
  <2>4. QED
    BY <1>1, <2>2, <2>3 DEF Unread, Frames
<1>2. CASE f.kind = "array"
  <2>1. f \in ArrayFrames
    BY <1>2, KindIs
  <2>2. Learnt(f) \in ArrayFrames
    <3>1. f.count + 1 \in Nat
      BY <2>1 DEF ArrayFrames
    <3>2. Learnt(f) = [f EXCEPT !.stage = "AfterItem", !.count = f.count + 1]
      BY <1>2 DEF Learnt
    <3>3. QED
      BY <2>1, <3>1, <3>2 DEF ArrayFrames
  <2>3. /\ Learnt(f).kind = f.kind /\ Learnt(f).node = f.node
        /\ Learnt(f).stage = "AfterItem" /\ Learnt(f).count = f.count + 1
    BY <2>1, <1>2 DEF Learnt, ArrayFrames
  <2>4. QED
    BY <1>2, <2>2, <2>3 DEF Unread, Frames
<1>3. QED
  BY <1>1, <1>2 DEF Holds

\* What is left when the frame on top is complete.
LEMMA ClosedIs ==
    ASSUME NEW s \in [stack : Seq(Frames), run : Nat], ~ IsDone(s), Below(s.stack)
    PROVE  LET t == Closed(s)
               rest == Front(s.stack)
           IN /\ t \in [stack : Seq(Frames), run : Nat] /\ t.run = s.run
              /\ Below(t.stack)
              /\ IsDone(t) <=> rest = << >>
              /\ rest # << >> => /\ Last(rest) \in Frames /\ Holds(Last(rest))
                                 /\ Top(t) = Learnt(Last(rest))
<1> DEFINE rest == Front(s.stack)
           t == Closed(s)
<1>1. s.stack # << >> /\ s.stack \in Seq(Frames)
  BY DEF IsDone
<1>2. /\ rest \in Seq(Frames) /\ Len(rest) = Len(s.stack) - 1 /\ Len(s.stack) \in Nat \ {0}
      /\ \A i \in 1..Len(s.stack) - 1 : rest[i] = s.stack[i]
  BY <1>1, StackIs
<1>3. \A i \in 1..Len(s.stack) - 1 : Holds(rest[i])
  <2>1. \A i \in 1..Len(s.stack) - 1 : i \in DOMAIN s.stack /\ i < Len(s.stack)
    BY <1>1, <1>2
  <2>2. QED
    BY <1>2, <2>1 DEF Below
<1>4. CASE rest = << >>
  <2>1. t = [s EXCEPT !.stack = << >>]
    BY <1>4 DEF Closed
  <2> HIDE DEF t
  <2>2. t \in [stack : Seq(Frames), run : Nat] /\ t.run = s.run /\ t.stack = << >>
    <3>1. << >> \in Seq(Frames)
      BY EmptySeq
    <3>2. QED
      BY <2>1, <3>1
  <2>3. QED
    BY <1>4, <2>2 DEF IsDone, Below, t
<1>5. CASE rest # << >>
  <2> DEFINE f == Last(rest)
             below == [stack |-> rest, run |-> s.run]
  <2>1. /\ f = rest[Len(rest)] /\ f \in Frames /\ Len(rest) \in Nat \ {0}
    BY <1>2, <1>5, StackIs
  <2>2. Holds(f)
    <3> HIDE DEF rest, f
    <3>1. Len(rest) \in 1..Len(s.stack) - 1
      <4>1. Len(rest) \in Nat \ {0} /\ Len(rest) = Len(s.stack) - 1
        BY ONLY <1>2, <2>1
      <4>2. \A a \in Nat \ {0} : a \in 1..a
        OBVIOUS
      <4>3. Len(rest) \in 1..Len(rest)
        BY ONLY <4>1, <4>2
      <4>4. QED
        BY ONLY <4>1, <4>3, Zenon
    <3>2. QED
      BY <1>3, <2>1, <3>1
  <2>3. t = [s EXCEPT !.stack = Append(Front(rest), Learnt(f))]
    BY <1>5 DEF Closed, Learnt
  <2>4. t = WithTop(below, Learnt(f))
    <3>1. \A x : [s EXCEPT !.stack = x] = [below EXCEPT !.stack = x]
      OBVIOUS
    <3>2. WithTop(below, Learnt(f)) = [below EXCEPT !.stack = Append(Front(rest), Learnt(f))]
      BY DEF WithTop
    <3> HIDE DEF t, below, rest, f
    <3>3. QED
      BY <2>3, <3>1, <3>2
  <2>5. below \in [stack : Seq(Frames), run : Nat] /\ ~ IsDone(below) /\ below.run = s.run
    BY <1>2, <1>5 DEF IsDone
  <2>6. Learnt(f) \in Frames
    BY <2>1, <2>2, LearntIs
  <2> HIDE DEF t, below, f
  <2>7. /\ t \in [stack : Seq(Frames), run : Nat] /\ t.run = s.run
        /\ Len(t.stack) = Len(rest)
        /\ \A i \in 1..Len(rest) - 1 : t.stack[i] = rest[i]
        /\ ~ IsDone(t) /\ Top(t) = Learnt(f)
    <3>1. below.stack = rest
      BY DEF below
    <3> DEFINE g == Learnt(f)
    <3> HIDE DEF rest, g
    <3>2. t = WithTop(below, g) /\ g \in Frames
      BY <2>4, <2>6 DEF g
    <3>3. t \in [stack : Seq(Frames), run : Nat] /\ t.run = below.run
      BY <2>5, <3>2, WithTopIs
    <3>4. Len(t.stack) = Len(below.stack)
      BY <2>5, <3>2, WithTopIs
    <3>5. \A i : i \in 1..Len(below.stack) - 1 => t.stack[i] = below.stack[i]
      <4> SUFFICES ASSUME NEW i, i \in 1..Len(below.stack) - 1
                   PROVE  t.stack[i] = below.stack[i]
        OBVIOUS
      <4>1. below \in [stack : Seq(Frames), run : Nat] /\ ~ IsDone(below)
        BY <2>5
      <4>2. QED
        BY <3>2, <4>1, BelowTheTop
    <3>6. ~ IsDone(t) /\ Top(t) = g
      BY <2>5, <3>2, WithTopIs
    <3>7. QED
      BY <2>5, <3>1, <3>3, <3>4, <3>5, <3>6 DEF g
  <2>8. Below(t.stack)
    <3>1. SUFFICES ASSUME NEW i \in DOMAIN t.stack, i < Len(t.stack) PROVE Holds(t.stack[i])
      BY DEF Below
    <3> HIDE DEF rest
    <3>2. i \in 1..Len(rest) - 1 /\ i \in 1..Len(s.stack) - 1
      BY <2>1, <2>7, <3>1, <1>2
    <3>3. QED
      BY <1>3, <2>7, <3>2
  <2>9. QED
    BY <1>5, <2>1, <2>2, <2>7, <2>8 DEF t, f
<1>6. QED
  BY <1>4, <1>5

\* No value begins with the bracket that ends an array.
LEMMA NoValueStartsSo ==
    ASSUME IsSchema(schema), NEW n \in DOMAIN schema.nodes
    PROVE  "]" \notin ValueStart(n) /\ " " \notin ValueStart(n)
<1>1. "]" \notin Digits \union {"-"} /\ " " \notin Digits \union {"-"}
  BY DEF Digits
<1>2. QED
  BY <1>1 DEF ValueStart, Quote

LEMMA ArrayAgrees ==
    ASSUME IsSchema(schema), NEW s \in [stack : Seq(Frames), run : Nat], NEW c, NEW r,
           ~ IsDone(s), Top(s) \in ArrayFrames, Unread(Top(s), r)
    PROVE  FeedArray(s, c) # {} <=> Offers(ArrayAllows(Top(s), Top(s).stage, Top(s).count), c)
<1> DEFINE f == Top(s)
           d == Node(f.node)
           g == [f EXCEPT !.stage = "InItem"]
           t == WithTop(s, g)
<1>1. /\ f.kind = "array" /\ f.node \in DOMAIN schema.nodes
      /\ f.stage \in {"Start", "AfterItem", "BeforeItem"}
      /\ schema.nodes[f.node].kind = "array"
  BY DEF ArrayFrames, Nodes, Unread
<1>2. d.item \in DOMAIN schema.nodes
  BY <1>1, NodeIs
<1>3. t.stack \in Seq(Frames) /\ t = [stack |-> t.stack, run |-> s.run]
  <2>1. g \in Frames
    BY DEF ArrayFrames, Frames
  <2> HIDE DEF g
  <2>2. QED
    BY <2>1, WithTopIs
<1> HIDE DEF t
<1>4. OpenValue(t, d.item, c) # {} <=> c \in ValueStart(d.item)
  <2> DEFINE n == d.item
  <2> HIDE DEF n
  <2>1. n \in DOMAIN schema.nodes
    BY <1>2 DEF n
  <2>2. OpenValue(t, n, c) # {} <=> c \in ValueStart(n)
    BY <1>3, <2>1, OpenAgrees
  <2>3. QED
    BY <2>2 DEF n
<1>5. "]" \notin ValueStart(d.item)
  BY <1>2, NoValueStartsSo
<1>6. CASE c = " "
  BY <1>1, <1>6 DEF FeedArray, ArrayAllows, Offers, Offer
<1>7. CASE c # " " /\ f.stage = "AfterItem"
  BY <1>7 DEF FeedArray, ArrayAllows, Offers, Offer
<1>8. CASE c # " " /\ f.stage = "BeforeItem"
  <2>1. FeedArray(s, c) = OpenValue(t, d.item, c)
    BY <1>8 DEF FeedArray, t
  <2>2. Offers(ArrayAllows(f, f.stage, f.count), c) <=> c \in ValueStart(d.item)
    BY <1>8 DEF ArrayAllows, Offers, Offer
  <2>3. QED
    BY <1>4, <2>1, <2>2
<1>9. CASE c # " " /\ f.stage = "Start"
  <2> DEFINE none == ArrayFewest(d) = 0
             some == ArrayLimit(d) # 0
  <2>1. FeedArray(s, c) = IF c = "]" THEN IF none THEN {Closed(s)} ELSE {}
                          ELSE IF some THEN OpenValue(t, d.item, c) ELSE {}
    BY <1>9 DEF FeedArray, t
  <2>2. Offers(ArrayAllows(f, f.stage, f.count), c) <=>
            (none /\ c = "]") \/ (some /\ c \in ValueStart(d.item))
    BY <1>9 DEF ArrayAllows, Offers, Offer
  <2> HIDE DEF none, some, f, d
  <2>3. QED
    BY <1>4, <1>5, <2>1, <2>2 DEF f
<1>10. QED
  BY <1>1, <1>6, <1>7, <1>8, <1>9

LEMMA TextAgrees ==
    ASSUME NEW s, NEW c, Top(s) \in TextFrames
    PROVE  FeedText(s, c) # {} <=> Offers(TextAllows(Top(s)), c)
<1> DEFINE f == Top(s)
           room == f.length < BodyLimit(Node(f.node))
<1>1. f.stage \in {"Body", "Escape", "LowEscape", "LowU", "Hex"}
  BY DEF TextFrames
<1>2. CASE f.stage = "Body"
  <2>1. FeedText(s, c) # {} <=> \/ c = Quote
                                \/ room /\ c = "\\"
                                \/ room /\ ~ BreaksFreeText(c)
    BY <1>2 DEF FeedText, BreaksFreeText, Quote
  <2>2. Offers(TextAllows(f), c) <=> \/ c = Quote
                                     \/ room /\ c = "\\"
                                     \/ room /\ ~ BreaksFreeText(c)
    BY <1>2 DEF TextAllows, Offers, Offer
  <2>3. QED
    BY <2>1, <2>2
<1>3. CASE f.stage \in {"Escape", "LowEscape", "LowU"}
  BY <1>3 DEF FeedText, TextAllows, Offers, Offer, Escapes, Quote
<1>4. CASE f.stage = "Hex"
  <2> DEFINE fits == HexFits(f.value * 16 + Worth(c), f.left - 1, f.low)
  <2>1. FeedText(s, c) # {} <=> c \in HexDigits /\ fits
    BY <1>4 DEF FeedText
  <2>2. Offers(TextAllows(f), c) <=> c \in HexDigits /\ fits
    BY <1>4 DEF TextAllows, Offers, Offer
  <2>3. QED
    BY <2>1, <2>2
<1>5. QED
  BY <1>1, <1>2, <1>3, <1>4

LEMMA ChoiceAgrees ==
    ASSUME NEW s, NEW c, NEW r, Top(s) \in ChoiceFrames, Unread(Top(s), r)
    PROVE  FeedChoice(s, c) # {}
              <=> Offers(Offer({Follows(w, Top(s).progress) : w \in Top(s).candidates}, FALSE, FALSE), c)
<1> DEFINE f == Top(s)
           progress == f.progress
           remaining == {w \in f.candidates : Len(w) > progress /\ w[progress + 1] = c}
<1>1. \A w \in f.candidates : progress <= Len(w) /\ Len(w) \in Nat /\ progress \in Nat
  <2>1. f.kind = "choice" /\ f.candidates \subseteq Seq(STRING) /\ progress \in Nat
    BY DEF ChoiceFrames
  <2>2. \A w \in f.candidates : progress <= Len(w)
    BY <2>1 DEF Unread, Within
  <2>3. \A w \in Seq(STRING) : Len(w) \in Nat
    OBVIOUS
  <2>4. QED
    BY <2>1, <2>2, <2>3
<1>2. FeedChoice(s, c) # {} <=> \/ c = Quote /\ \E w \in f.candidates : Len(w) = progress
                                \/ \E w \in f.candidates : Len(w) > progress /\ w[progress + 1] = c
  BY DEF FeedChoice
<1>3. \A w \in f.candidates : c = Follows(w, progress)
        <=> (c = Quote /\ Len(w) = progress) \/ (Len(w) > progress /\ w[progress + 1] = c)
  BY <1>1 DEF Follows
<1>4. Offers(Offer({Follows(w, progress) : w \in f.candidates}, FALSE, FALSE), c)
        <=> \E w \in f.candidates : c = Follows(w, progress)
  BY DEF Offers, Offer
<1> HIDE DEF progress, f
<1>5. QED
  BY <1>2, <1>3, <1>4 DEF f, progress

LEMMA LiteralAgrees ==
    ASSUME NEW s, NEW c
    PROVE  LiteralNext(s, c) # {}
              <=> Offers(Offer({l[Top(s).progress + 1] : l \in Top(s).candidates}, FALSE, FALSE), c)
<1> DEFINE f == Top(s)
<1>1. LiteralNext(s, c) # {} <=> \E l \in f.candidates : l[f.progress + 1] = c
  BY DEF LiteralNext
<1>2. QED
  BY <1>1 DEF Offers, Offer

LEMMA NumberCharacters ==
    ASSUME NEW f \in NumberFrames, NEW c, NumberNext(f, c) # {}
    PROVE  c \in Digits \union {"-", "+", ".", "e"}
<1>1. NumberTransition(Node(f.node), f, c) # {}
  BY DEF NumberNext
<1>2. QED
  BY <1>1 DEF NumberTransition, Digits

\* What a number leaves its character to offers what the mask offers below it.
LEMMA BelowAgrees ==
    ASSUME IsSchema(schema), NEW s \in [stack : Seq(Frames), run : Nat], NEW c,
           ~ IsDone(s), Below(s.stack)
    PROVE  FeedOpen(Closed(s), c) # {} <=> Offers(BelowAllows(Front(s.stack)), c)
<1> DEFINE t == Closed(s)
           rest == Front(s.stack)
           f == Last(rest)
<1>1. /\ t \in [stack : Seq(Frames), run : Nat]
      /\ IsDone(t) <=> rest = << >>
      /\ rest # << >> => f \in Frames /\ Holds(f) /\ Top(t) = Learnt(f)
  BY ClosedIs
<1> HIDE DEF t, rest, f
<1>2. CASE rest = << >>
  <2>1. FeedOpen(t, c) = IF c = " " THEN {t} ELSE {}
    BY <1>1, <1>2 DEF FeedOpen
  <2>2. BelowAllows(rest) = Offer({}, TRUE, FALSE)
    BY <1>2 DEF BelowAllows
  <2>3. Offers(BelowAllows(rest), c) <=> c = " "
    BY <2>2 DEF Offers, Offer
  <2>4. QED
    BY <2>1, <2>3 DEF t, rest
<1>3. CASE rest # << >> /\ f.kind = "object"
  <2>1. /\ ~ IsDone(t) /\ Top(t) = Learnt(f) /\ Learnt(f) \in ObjectFrames /\ Unread(Learnt(f), 0)
        /\ Learnt(f).kind = "object" /\ Learnt(f).node = f.node
        /\ Learnt(f).stage = "AfterValue" /\ Learnt(f).seen = f.seen
    BY <1>1, <1>3, LearntIs
  <2>2. FeedOpen(t, c) = FeedObject(t, c)
    BY <2>1 DEF FeedOpen
  <2>3. FeedObject(t, c) # {} <=> Offers(ObjectAllows(Top(t), Top(t).stage), c)
    BY <1>1, <2>1, ObjectAgrees
  <2>4. ObjectAllows(Learnt(f), "AfterValue") = ObjectAllows(f, "AfterValue")
    <3>1. /\ ObjectAllows(Learnt(f), "AfterValue") = Offer(AfterValue(Learnt(f)), TRUE, FALSE)
          /\ ObjectAllows(f, "AfterValue") = Offer(AfterValue(f), TRUE, FALSE)
      BY DEF ObjectAllows
    <3>2. Fields(Learnt(f)) = Fields(f)
      BY <2>1 DEF Fields
    <3>3. Remaining(Learnt(f)) = Remaining(f)
      BY <2>1, <3>2 DEF Remaining
    <3>4. RequiredDone(Learnt(f)) = RequiredDone(f)
      BY <3>2, <3>3 DEF RequiredDone
    <3>5. AfterValue(Learnt(f)) = AfterValue(f)
      BY <3>3, <3>4, Zenon DEF AfterValue
    <3>6. QED
      BY <3>1, <3>5
  <2>5. BelowAllows(rest) = ObjectAllows(f, "AfterValue")
    BY <1>3 DEF BelowAllows, f
  <2>6. QED
    BY <2>1, <2>2, <2>3, <2>4, <2>5 DEF t, rest
<1>4. CASE rest # << >> /\ f.kind # "object"
  <2>1. /\ ~ IsDone(t) /\ Top(t) = Learnt(f) /\ Learnt(f) \in ArrayFrames /\ Unread(Learnt(f), 0)
        /\ Learnt(f).kind = f.kind /\ Learnt(f).node = f.node
        /\ Learnt(f).stage = "AfterItem" /\ Learnt(f).count = f.count + 1
    BY <1>1, <1>4, LearntIs
  <2>2. FeedOpen(t, c) = FeedArray(t, c)
    BY <2>1, <1>4 DEF FeedOpen
  <2>3. FeedArray(t, c) # {} <=> Offers(ArrayAllows(Top(t), Top(t).stage, Top(t).count), c)
    BY <1>1, <2>1, ArrayAgrees
  <2>4. ArrayAllows(Learnt(f), "AfterItem", f.count + 1) = ArrayAllows(f, "AfterItem", f.count + 1)
    BY <2>1 DEF ArrayAllows
  <2>5. BelowAllows(rest) = ArrayAllows(f, "AfterItem", f.count + 1)
    BY <1>4 DEF BelowAllows, f
  <2>6. QED
    BY <2>1, <2>2, <2>3, <2>4, <2>5 DEF t, rest
<1>5. QED
  BY <1>2, <1>3, <1>4

LEMMA BelowIsAnOffer ==
    ASSUME NEW rest
    PROVE  \E chars, space, body : BelowAllows(rest) = Offer(chars, space, body)
<1> DEFINE b == BelowAllows(rest)
<1>1. \A x, stage : \E chars, space, body : ObjectAllows(x, stage) = Offer(chars, space, body)
  BY DEF ObjectAllows
<1>2. \A x, stage, count : \E chars, space, body : ArrayAllows(x, stage, count) = Offer(chars, space, body)
  BY DEF ArrayAllows
<1>3. CASE rest = << >>
  <2>1. b = Offer({}, TRUE, FALSE)
    BY <1>3 DEF BelowAllows
  <2>2. QED
    BY <2>1
<1>4. CASE rest # << >> /\ Last(rest).kind = "object"
  <2>1. b = ObjectAllows(Last(rest), "AfterValue")
    BY <1>4 DEF BelowAllows
  <2>2. QED
    BY <1>1, <2>1
<1>5. CASE rest # << >> /\ Last(rest).kind # "object"
  <2>1. b = ArrayAllows(Last(rest), "AfterItem", Last(rest).count + 1)
    BY <1>5 DEF BelowAllows
  <2>2. QED
    BY <1>2, <2>1
<1>6. QED
  BY <1>3, <1>4, <1>5

LEMMA NumberAgrees ==
    ASSUME IsSchema(schema), NEW s \in [stack : Seq(Frames), run : Nat], NEW c,
           ~ IsDone(s), Below(s.stack), Top(s) \in NumberFrames
    PROVE  FeedNumber(s, c) # {} <=> Offers(NumberAllows(s), c)
<1> DEFINE f == Top(s)
           more == {x \in Digits \union {"-", "+", ".", "e"} : NumberNext(f, x) # {}}
           b == BelowAllows(Front(s.stack))
<1>1. FeedNumber(s, c) # {} <=>
         NumberNext(f, c) # {} \/ (NumberCloses(f) /\ FeedOpen(Closed(s), c) # {})
  BY DEF FeedNumber
<1>2. c \in more <=> NumberNext(f, c) # {}
  BY NumberCharacters
<1>3. FeedOpen(Closed(s), c) # {} <=> Offers(b, c)
  BY BelowAgrees
<1> HIDE DEF more
<1>4. CASE NumberCloses(f)
  <2>1. NumberAllows(s) = [b EXCEPT !.chars = b.chars \union more]
    BY <1>4 DEF NumberAllows, more
  <2>2. PICK chars, space, body : b = Offer(chars, space, body)
    BY BelowIsAnOffer
  <2> HIDE DEF b
  <2>3. /\ b.chars = chars /\ b.space = space /\ b.body = body
        /\ NumberAllows(s) = Offer(chars \union more, space, body)
    <3>1. b = [chars |-> chars, space |-> space, body |-> body]
      BY <2>2 DEF Offer
    <3>2. b.chars = chars /\ b.space = space /\ b.body = body
      BY <3>1
    <3> DEFINE all == b.chars \union more
    <3> HIDE DEF all
    <3>3. [[chars |-> chars, space |-> space, body |-> body] EXCEPT !.chars = all]
             = [chars |-> all, space |-> space, body |-> body]
      OBVIOUS
    <3>4. NumberAllows(s) = [chars |-> all, space |-> space, body |-> body]
      BY <2>1, <3>1, <3>3, Zenon DEF all
    <3>5. all = chars \union more
      BY <3>2 DEF all
    <3>6. NumberAllows(s) = Offer(all, space, body)
      BY <3>4 DEF Offer
    <3>7. NumberAllows(s) = Offer(chars \union more, space, body)
      <4> HIDE DEF more
      <4>1. QED
        BY <3>5, <3>6, Zenon
    <3>8. QED
      BY <3>2, <3>7
  <2>4. Offers(NumberAllows(s), c) <=> Offers(b, c) \/ c \in more
    <3>1. \A X : Offers(Offer(X, space, body), c)
                    <=> c \in X \/ (space /\ c = " ") \/ (body /\ ~ BreaksFreeText(c))
      BY DEF Offers, Offer
    <3>2. Offers(b, c) <=> c \in chars \/ (space /\ c = " ") \/ (body /\ ~ BreaksFreeText(c))
      BY <2>2, <3>1, Zenon
    <3>3. Offers(NumberAllows(s), c)
             <=> c \in chars \union more \/ (space /\ c = " ") \/ (body /\ ~ BreaksFreeText(c))
      BY <2>3, <3>1, Zenon
    <3>4. QED
      BY <3>2, <3>3, Zenon
  <2>5. QED
    BY <1>1, <1>2, <1>3, <1>4, <2>4
<1>5. CASE ~ NumberCloses(f)
  <2>1. NumberAllows(s) = Offer(more, FALSE, FALSE)
    BY <1>5 DEF NumberAllows, more
  <2>2. Offers(NumberAllows(s), c) <=> c \in more
    BY <2>1 DEF Offers, Offer
  <2>3. QED
    BY <1>1, <1>2, <1>5, <2>2
<1>6. QED
  BY <1>4, <1>5

\* What a state's frame takes is what its mask offers, spaces not counted.
LEMMA FrameAgrees ==
    ASSUME IsSchema(schema), NEW s, NEW r \in Nat, Good(s, r), NEW c
    PROVE  FeedFrame(s, c) # {} <=> Offers(FrameAllows(s), c)
<1> DEFINE f == Top(s)
<1>1. /\ s \in [stack : Seq(Frames), run : Nat] /\ Below(s.stack)
      /\ ~ IsDone(s) => Unread(f, r)
  BY DEF Good
<1>2. CASE IsDone(s)
  <2>1. FeedFrame(s, c) = IF c = " " THEN {s} ELSE {}
    BY <1>2 DEF FeedFrame, FeedOpen
  <2>2. FrameAllows(s) = Offer({}, TRUE, FALSE)
    BY <1>2 DEF FrameAllows
  <2>3. Offers(FrameAllows(s), c) <=> c = " "
    BY <2>2 DEF Offers, Offer
  <2>4. QED
    BY <2>1, <2>3
<1>3. CASE ~ IsDone(s)
  <2>1. f \in Frames
    <3>1. s.stack # << >> /\ s.stack \in Seq(Frames)
      BY <1>1, <1>3 DEF IsDone
    <3>2. QED
      BY <3>1, StackIs DEF Top
  <2> HIDE DEF f
  <2>2. /\ f.kind \in {"value", "object", "array", "text", "choice", "literal", "number"}
        /\ f.kind = "value" => f \in ValueFrames
        /\ f.kind = "object" => f \in ObjectFrames
        /\ f.kind = "array" => f \in ArrayFrames
        /\ f.kind = "text" => f \in TextFrames
        /\ f.kind = "choice" => f \in ChoiceFrames
        /\ f.kind = "number" => f \in NumberFrames
    BY <2>1, KindIs
  <2>3. CASE f.kind = "value"
    BY <1>1, <1>3, <2>2, <2>3, ValueAgrees DEF f
  <2>4. CASE f.kind = "object"
    <3>1. FeedFrame(s, c) = FeedObject(s, c) /\ FrameAllows(s) = ObjectAllows(f, f.stage)
      BY <1>3, <2>4 DEF FeedFrame, FeedOpen, FrameAllows, f
    <3>2. QED
      BY <1>1, <1>3, <2>2, <2>4, <3>1, ObjectAgrees DEF f
  <2>5. CASE f.kind = "array"
    <3>1. FeedFrame(s, c) = FeedArray(s, c) /\ FrameAllows(s) = ArrayAllows(f, f.stage, f.count)
      BY <1>3, <2>5 DEF FeedFrame, FeedOpen, FrameAllows, f
    <3>2. QED
      BY <1>1, <1>3, <2>2, <2>5, <3>1, ArrayAgrees DEF f
  <2>6. CASE f.kind = "text"
    <3>1. FeedFrame(s, c) = FeedText(s, c) /\ FrameAllows(s) = TextAllows(f)
      BY <1>3, <2>6 DEF FeedFrame, FrameAllows, f
    <3>2. QED
      BY <2>2, <2>6, <3>1, TextAgrees DEF f
  <2>7. CASE f.kind = "choice"
    <3>1. /\ FeedFrame(s, c) = FeedChoice(s, c)
          /\ FrameAllows(s) = Offer({Follows(w, f.progress) : w \in f.candidates}, FALSE, FALSE)
      BY <1>3, <2>7 DEF FeedFrame, FrameAllows, f
    <3>2. Top(s) \in ChoiceFrames /\ Unread(Top(s), r)
      BY <1>1, <1>3, <2>2, <2>7 DEF f
    <3>3. FeedChoice(s, c) # {}
             <=> Offers(Offer({Follows(w, Top(s).progress) : w \in Top(s).candidates}, FALSE, FALSE), c)
      BY <3>2, ChoiceAgrees
    <3>4. QED
      BY <3>1, <3>3 DEF f
  <2>8. CASE f.kind = "literal"
    <3>1. /\ FeedFrame(s, c) = LiteralNext(s, c)
          /\ FrameAllows(s) = Offer({l[f.progress + 1] : l \in f.candidates}, FALSE, FALSE)
      BY <1>3, <2>8 DEF FeedFrame, FrameAllows, f
    <3>2. QED
      BY <3>1, LiteralAgrees DEF f
  <2>9. CASE f.kind = "number"
    <3>1. FeedFrame(s, c) = FeedNumber(s, c) /\ FrameAllows(s) = NumberAllows(s)
      BY <1>3, <2>9 DEF FeedFrame, FrameAllows, f
    <3>2. QED
      BY <1>1, <1>3, <2>2, <2>9, <3>1, NumberAgrees DEF f
  <2>10. QED
    BY <2>2, <2>3, <2>4, <2>5, <2>6, <2>7, <2>8, <2>9
<1>4. QED
  BY <1>2, <1>3

-----------------------------------------------------------------------------
(* The spaces *)

\* The last `m` characters of `p` and the one after them.
LEMMA WindowIs ==
    ASSUME NEW p \in Nat, NEW m \in Nat, NEW r \in Nat, NEW k \in Nat, m <= r, r <= p, p < k
    PROVE  /\ p - m + 1 \in 1..k /\ p - m + 1 + m = p + 1 /\ p + 1 \in 1..k
           /\ p - m + 1 >= p - r + 1 /\ p - m + 1 \in Nat
OBVIOUS

LEMMA WithinTheRun ==
    ASSUME NEW p \in Nat, NEW r \in Nat, NEW a \in Nat, NEW b \in a..p + 1, a >= p - r + 1
    PROVE  b \in p - r + 1..p \/ b = p + 1
OBVIOUS

LEMMA SpaceInWord ==
    ASSUME MaxSpaces \in Nat, NEW w \in Seq(STRING), SpacesFit(w),
           NEW progress \in Nat, NEW run \in Nat, run >= MaxSpaces, Within(w, progress, run)
    PROVE  Follows(w, progress) # " "
<1> SUFFICES ASSUME Follows(w, progress) = " "
             PROVE  FALSE
  OBVIOUS
<1> DEFINE n == Len(w)
           i == progress - MaxSpaces + 1
<1>1. n \in Nat /\ DOMAIN w = 1..n
  BY LenProperties
<1> HIDE DEF n
<1>2. progress < n /\ w[progress + 1] = " "
  BY <1>1 DEF Follows, Quote, n, Within
<1>3. run <= progress /\ \A j \in progress - run + 1..progress : w[j] = " "
  BY DEF Within
<1>4. i \in 1..n /\ i + MaxSpaces = progress + 1 /\ progress + 1 \in 1..n /\ i >= progress - run + 1 /\ i \in Nat
  <2>1. progress < n /\ MaxSpaces <= run /\ run <= progress
    BY <1>2, <1>3
  <2>2. QED
    BY <1>1, <2>1, WindowIs
<1> HIDE DEF i
<1>5. PICK j \in i..progress + 1 : w[j] # " "
  <2>1. i + MaxSpaces \in DOMAIN w /\ i \in DOMAIN w
    BY <1>1, <1>4
  <2>2. \E j \in i..i + MaxSpaces : w[j] # " "
    BY <2>1 DEF SpacesFit
  <2>3. QED
    BY <1>4, <2>2
<1>6. j \in progress - run + 1..progress \/ j = progress + 1
  <2>1. i \in Nat /\ i >= progress - run + 1 /\ j \in i..progress + 1
    BY <1>4, <1>5, Zenon
  <2>2. QED
    BY <2>1, WithinTheRun
<1>7. QED
  BY <1>2, <1>3, <1>5, <1>6

\* A name or a choice that can be written has no more spaces than MaxSpaces.
LEMMA Tight ==
    ASSUME IsSchema(schema), SpelledTight(schema), NEW n \in DOMAIN schema.nodes
    PROVE  /\ Node(n).kind = "choice" => \A w \in Node(n).choices : w \in Seq(STRING) /\ SpacesFit(w)
           /\ Node(n).kind = "object" =>
                 \A i \in DOMAIN Node(n).fields :
                    Node(n).fields[i].name \in Seq(STRING) /\ SpacesFit(Node(n).fields[i].name)
<1> DEFINE d == schema.nodes[n]
           Field == [name : Seq(STRING), key : Seq(STRING), node : Nat, required : BOOLEAN]
<1>1. d \in NodeDecl /\ Node(n).kind = d.kind
  BY NodeIs DEF IsSchema
<1>2. ASSUME d.kind = "choice"
      PROVE  \A w \in Node(n).choices : w \in Seq(STRING) /\ SpacesFit(w)
  <2>1. Node(n).choices = d.choices /\ d.choices \subseteq Seq(STRING)
    BY <1>1, <1>2, NodeIs DEF NodeDecl
  <2>2. d.choices \subseteq Spellings(schema.nodes)
    BY <1>2 DEF Spellings
  <2>3. QED
    BY <2>1, <2>2 DEF SpelledTight
<1>3. ASSUME d.kind = "object", NEW i \in DOMAIN Node(n).fields
      PROVE  Node(n).fields[i].name \in Seq(STRING) /\ SpacesFit(Node(n).fields[i].name)
  <2>1. i \in DOMAIN d.fields /\ Node(n).fields[i].name = d.fields[i].name
    BY <1>1, <1>3, NodeIs
  <2>2. d.fields[i].name \in Spellings(schema.nodes)
    BY <1>3, <2>1 DEF Spellings
  <2>3. d.fields[i].name \in Seq(STRING)
    <3>1. d \in [kind : {"object"}, fields : Seq(Field)]
      BY <1>1, <1>3 DEF NodeDecl
    <3> HIDE DEF Field
    <3>2. d.fields[i] \in Field
      BY <2>1, <3>1
    <3> HIDE DEF d
    <3>3. QED
      BY <3>2 DEF Field
  <2>4. QED
    BY <2>1, <2>2, <2>3 DEF SpelledTight
<1>4. QED
  BY <1>1, <1>2, <1>3

LEMMA LiteralCharacters ==
    \A l \in Literals : \A i \in 1..Len(l) : l[i] # " "
<1>1. ASSUME NEW l, l = <<"t", "r", "u", "e">>, NEW i \in 1..Len(l) PROVE l[i] # " "
  <2>1. l[1] = "t" /\ l[2] = "r" /\ l[3] = "u" /\ l[4] = "e"
    BY <1>1
  <2>2. i \in {1, 2, 3, 4}
    BY <1>1
  <2>3. QED
    BY <2>1, <2>2
<1>2. ASSUME NEW l, l = <<"f", "a", "l", "s", "e">>, NEW i \in 1..Len(l) PROVE l[i] # " "
  <2>1. l[1] = "f" /\ l[2] = "a" /\ l[3] = "l" /\ l[4] = "s" /\ l[5] = "e"
    BY <1>2
  <2>2. i \in {1, 2, 3, 4, 5}
    BY <1>2
  <2>3. QED
    BY <2>1, <2>2
<1>3. QED
  BY <1>1, <1>2 DEF Literals

Spaceless(offer) == " " \notin offer.chars /\ offer.body = FALSE

LEMMA SpacelessIs ==
    ASSUME NEW chars, NEW space
    PROVE  Spaceless(Offer(chars, space, FALSE)) <=> " " \notin chars
<1> DEFINE o == Offer(chars, space, FALSE)
<1>1. o = [chars |-> chars, space |-> space, body |-> FALSE]
  BY DEF Offer
<1> HIDE DEF o
<1>2. o.chars = chars
  BY <1>1
<1>3. o.body = FALSE
  BY <1>1
<1>4. QED
  BY <1>2, <1>3 DEF Spaceless, o

\* What the mask offers of an object that is not in a key, and of an array.
LEMMA NoSpaceInObject ==
    ASSUME IsSchema(schema), NEW f \in ObjectFrames, NEW stage, stage # "InKey",
           stage = "AfterColon" => f.active \in DOMAIN Fields(f)
    PROVE  Spaceless(ObjectAllows(f, stage))
<1>1. CASE stage = "AfterColon"
  <2> DEFINE n == Fields(f)[f.active].node
  <2>1. f.node \in DOMAIN schema.nodes /\ schema.nodes[f.node].kind = "object"
    BY DEF ObjectFrames, Nodes
  <2>2. n \in DOMAIN schema.nodes
    BY <1>1, <2>1, NodeIs DEF Fields
  <2> HIDE DEF n
  <2>3. " " \notin ValueStart(n)
    BY <2>2, NoValueStartsSo
  <2>4. ObjectAllows(f, stage) = Offer(ValueStart(n), TRUE, FALSE)
    BY <1>1 DEF ObjectAllows, n
  <2>5. QED
    BY <2>3, <2>4, SpacelessIs
<1>2. CASE stage # "AfterColon"
  <2>1. \E chars : /\ ObjectAllows(f, stage) = Offer(chars, TRUE, FALSE)
                   /\ chars \subseteq {"}", Quote, ":", ","}
    BY <1>2 DEF ObjectAllows, AfterValue
  <2>2. QED
    BY <2>1, SpacelessIs DEF Quote
<1>3. QED
  BY <1>1, <1>2

LEMMA NoSpaceInArray ==
    ASSUME IsSchema(schema), NEW f \in ArrayFrames, NEW stage, NEW count
    PROVE  Spaceless(ArrayAllows(f, stage, count))
<1> DEFINE item == Node(f.node).item
<1>1. f.node \in DOMAIN schema.nodes /\ schema.nodes[f.node].kind = "array"
  BY DEF ArrayFrames, Nodes
<1>2. item \in DOMAIN schema.nodes
  BY <1>1, NodeIs
<1> HIDE DEF item
<1>3. " " \notin ValueStart(item)
  BY <1>2, NoValueStartsSo
<1>4. \E chars : /\ ArrayAllows(f, stage, count) = Offer(chars, TRUE, FALSE)
                 /\ chars \subseteq {"]", ","} \union ValueStart(item)
  BY DEF ArrayAllows, item
<1>5. QED
  BY <1>3, <1>4, SpacelessIs

LEMMA NoSpaceBelow ==
    ASSUME IsSchema(schema), NEW s \in [stack : Seq(Frames), run : Nat], ~ IsDone(s), Below(s.stack)
    PROVE  Spaceless(BelowAllows(Front(s.stack)))
<1> DEFINE rest == Front(s.stack)
           f == Last(rest)
<1>1. rest # << >> => f \in Frames /\ Holds(f)
  BY ClosedIs
<1> HIDE DEF rest, f
<1>2. CASE rest = << >>
  <2>1. BelowAllows(rest) = Offer({}, TRUE, FALSE)
    BY <1>2 DEF BelowAllows
  <2>2. QED
    BY <2>1, SpacelessIs DEF rest
<1>3. CASE rest # << >> /\ f.kind = "object"
  <2>1. f \in ObjectFrames
    BY <1>1, <1>3, KindIs
  <2>2. BelowAllows(rest) = ObjectAllows(f, "AfterValue")
    BY <1>3 DEF BelowAllows, f
  <2>3. QED
    BY <2>1, <2>2, NoSpaceInObject DEF rest
<1>4. CASE rest # << >> /\ f.kind # "object"
  <2>1. f \in ArrayFrames
    BY <1>1, <1>4, KindIs DEF Holds
  <2>2. BelowAllows(rest) = ArrayAllows(f, "AfterItem", f.count + 1)
    BY <1>4 DEF BelowAllows, f
  <2>3. QED
    BY <2>1, <2>2, NoSpaceInArray DEF rest
<1>5. QED
  BY <1>2, <1>3, <1>4

\* With the run of spaces at its bound, no frame offers one but a text's body.
LEMMA NoSpaceOffered ==
    ASSUME MaxSpaces \in Nat, IsSchema(schema), SpelledTight(schema),
           NEW s, Good(s, s.run), s.run >= MaxSpaces, ~ InStringBody(s)
    PROVE  Spaceless(FrameAllows(s))
<1> DEFINE f == Top(s)
           offer == FrameAllows(s)
<1>1. /\ s \in [stack : Seq(Frames), run : Nat] /\ Below(s.stack)
      /\ ~ IsDone(s) => Unread(f, s.run)
  BY DEF Good
<1>2. CASE IsDone(s)
  <2>1. FrameAllows(s) = Offer({}, TRUE, FALSE)
    BY <1>2 DEF FrameAllows
  <2>2. QED
    BY <2>1, SpacelessIs
<1>3. CASE ~ IsDone(s)
  <2>1. f \in Frames /\ s.run \in Nat
    <3>1. s.stack # << >> /\ s.stack \in Seq(Frames)
      BY <1>1, <1>3 DEF IsDone
    <3>2. QED
      BY <1>1, <3>1, StackIs DEF Top
  <2>2. /\ f.kind \in {"value", "object", "array", "text", "choice", "literal", "number"}
        /\ f.kind = "value" => f \in ValueFrames
        /\ f.kind = "object" => f \in ObjectFrames
        /\ f.kind = "array" => f \in ArrayFrames
        /\ f.kind = "text" => f \in TextFrames
        /\ f.kind = "choice" => f \in ChoiceFrames
        /\ f.kind = "literal" => f \in LiteralFrames
        /\ f.kind = "number" => f \in NumberFrames
    <3> HIDE DEF f
    <3>1. QED
      BY <2>1, KindIs
  <2>3. CASE f.kind = "value"
    <3>1. offer = Offer(ValueStart(f.node), TRUE, FALSE)
      BY <1>3, <2>3 DEF FrameAllows
    <3>2. f.node \in DOMAIN schema.nodes
      BY <2>2, <2>3 DEF ValueFrames
    <3>3. " " \notin ValueStart(f.node)
      BY <3>2, NoValueStartsSo
    <3>4. QED
      BY <3>1, <3>3, SpacelessIs
  <2>4. CASE f.kind = "object" /\ f.stage # "InKey"
    <3>1. offer = ObjectAllows(f, f.stage)
      BY <1>3, <2>4 DEF FrameAllows
    <3>2. f \in ObjectFrames /\ (f.stage = "AfterColon" => f.active \in DOMAIN Fields(f))
      BY <2>2, <2>4 DEF ObjectFrames
    <3> HIDE DEF f, offer
    <3>3. QED
      BY <2>4, <3>1, <3>2, NoSpaceInObject DEF offer
  <2>5. CASE f.kind = "object" /\ f.stage = "InKey"
    <3>1. offer = Offer({Follows(Fields(f)[i].name, f.progress) : i \in f.candidates}, FALSE, FALSE)
      BY <1>3, <2>5 DEF FrameAllows, ObjectAllows
    <3>2. ASSUME NEW i \in f.candidates PROVE Follows(Fields(f)[i].name, f.progress) # " "
      <4> DEFINE w == Fields(f)[i].name
      <4>1. /\ f.node \in DOMAIN schema.nodes /\ schema.nodes[f.node].kind = "object"
            /\ i \in DOMAIN Fields(f) /\ f.progress \in Nat
        BY <2>2, <2>5 DEF ObjectFrames, Nodes
      <4>2. w \in Seq(STRING) /\ SpacesFit(w)
        BY <4>1, NodeIs, Tight DEF Fields
      <4>3. Within(w, f.progress, s.run)
        BY <1>1, <1>3, <2>5 DEF Unread
      <4> HIDE DEF w, f
      <4>4. QED
        BY <2>1, <4>1, <4>2, <4>3, SpaceInWord DEF w
    <3> HIDE DEF f
    <3>3. QED
      BY <3>1, <3>2, SpacelessIs
  <2>6. CASE f.kind = "array"
    <3>1. offer = ArrayAllows(f, f.stage, f.count)
      BY <1>3, <2>6 DEF FrameAllows
    <3> HIDE DEF f, offer
    <3>2. QED
      BY <2>2, <2>6, <3>1, NoSpaceInArray DEF offer
  <2>7. CASE f.kind = "text"
    <3>1. offer = TextAllows(f)
      BY <1>3, <2>7 DEF FrameAllows
    <3>2. f.stage \in {"Escape", "LowEscape", "LowU", "Hex"}
      BY <1>3, <2>2, <2>7 DEF TextFrames, InStringBody
    <3>3. \E chars : /\ TextAllows(f) = Offer(chars, FALSE, FALSE)
                     /\ chars \subseteq Escapes \union {"u", "\\"} \union HexDigits
      BY <3>2 DEF TextAllows
    <3>4. " " \notin Escapes \union {"u", "\\"} \union HexDigits
      BY DEF Escapes, Quote, HexDigits, Digits
    <3>5. QED
      BY <3>1, <3>3, <3>4, SpacelessIs
  <2>8. CASE f.kind = "choice"
    <3>1. offer = Offer({Follows(w, f.progress) : w \in f.candidates}, FALSE, FALSE)
      BY <1>3, <2>8 DEF FrameAllows
    <3>2. ASSUME NEW w \in f.candidates PROVE Follows(w, f.progress) # " "
      <4>1. /\ f.node \in DOMAIN schema.nodes /\ schema.nodes[f.node].kind = "choice"
            /\ w \in Node(f.node).choices /\ f.progress \in Nat
        BY <2>2, <2>8 DEF ChoiceFrames, Nodes
      <4>2. w \in Seq(STRING) /\ SpacesFit(w)
        BY <4>1, NodeIs, Tight
      <4>3. Within(w, f.progress, s.run)
        BY <1>1, <1>3, <2>8 DEF Unread
      <4> HIDE DEF f
      <4>4. QED
        BY <2>1, <4>1, <4>2, <4>3, SpaceInWord
    <3> HIDE DEF f
    <3>3. QED
      BY <3>1, <3>2, SpacelessIs
  <2>9. CASE f.kind = "literal"
    <3>1. offer = Offer({l[f.progress + 1] : l \in f.candidates}, FALSE, FALSE)
      BY <1>3, <2>9 DEF FrameAllows
    <3>2. ASSUME NEW l \in f.candidates PROVE l[f.progress + 1] # " "
      <4>1. l \in Literals /\ f.progress \in Nat /\ f.progress < Len(l)
        BY <1>1, <1>3, <2>2, <2>9 DEF LiteralFrames, Unread
      <4>2. Len(l) \in Nat
        BY <4>1 DEF Literals
      <4>3. f.progress + 1 \in 1..Len(l)
        <5> HIDE DEF f
        <5>1. QED
          BY <4>1, <4>2
      <4>4. QED
        BY <4>1, <4>3, LiteralCharacters
    <3> HIDE DEF f
    <3>3. QED
      BY <3>1, <3>2, SpacelessIs
  <2>10. CASE f.kind = "number"
    <3> DEFINE more == {c \in Digits \union {"-", "+", ".", "e"} : NumberNext(f, c) # {}}
               b == BelowAllows(Front(s.stack))
    <3>1. offer = NumberAllows(s)
      BY <1>3, <2>10 DEF FrameAllows
    <3>2. " " \notin more
      BY DEF Digits
    <3> HIDE DEF more
    <3>3. CASE NumberCloses(f)
      <4>1. offer = [b EXCEPT !.chars = b.chars \union more]
        BY <3>1, <3>3 DEF NumberAllows, more
      <4>2. \E chars, space, body : b = [chars |-> chars, space |-> space, body |-> body]
        BY BelowIsAnOffer DEF Offer
      <4>3. Spaceless(b)
        BY <1>1, <1>3, NoSpaceBelow
      <4> HIDE DEF b, offer
      <4>4. PICK chars, space, body : b = [chars |-> chars, space |-> space, body |-> body]
        BY <4>2
      <4>5. b.chars = chars /\ b.body = body
        BY <4>4
      <4>6. \A x, y : [[chars |-> x, space |-> space, body |-> body] EXCEPT !.chars = y]
               = [chars |-> y, space |-> space, body |-> body]
        OBVIOUS
      <4>7. offer = [chars |-> b.chars \union more, space |-> space, body |-> body]
        BY <4>1, <4>4, <4>6, Zenon
      <4>8. body = FALSE /\ " " \notin b.chars \union more
        BY <3>2, <4>3, <4>5 DEF Spaceless
      <4>9. offer = Offer(b.chars \union more, space, FALSE)
        BY <4>7, <4>8 DEF Offer
      <4>10. QED
        BY <4>8, <4>9, SpacelessIs DEF offer
    <3>4. CASE ~ NumberCloses(f)
      <4>1. offer = Offer(more, FALSE, FALSE)
        BY <3>1, <3>4 DEF NumberAllows, more
      <4>2. QED
        BY <3>2, <4>1, SpacelessIs
    <3>5. QED
      BY <3>3, <3>4
  <2>11. QED
    BY <2>2, <2>3, <2>4, <2>5, <2>6, <2>7, <2>8, <2>9, <2>10
<1>4. QED
  BY <1>2, <1>3

-----------------------------------------------------------------------------
(* The mask is the automaton *)

LEMMA AnOffer ==
    ASSUME NEW s
    PROVE  \E chars, space, body : FrameAllows(s) = Offer(chars, space, body)
<1> DEFINE f == IF IsDone(s) THEN [kind |-> "end"] ELSE Top(s)
           b == BelowAllows(Front(s.stack))
           IsOffer(offer) == \E chars, space, body : offer = Offer(chars, space, body)
<1>1. \A chars, space, body : IsOffer(Offer(chars, space, body))
  OBVIOUS
<1>2. IsOffer(b)
  BY BelowIsAnOffer
<1>3. \A more : IsOffer([b EXCEPT !.chars = b.chars \union more])
  <2> SUFFICES ASSUME NEW more PROVE IsOffer([b EXCEPT !.chars = b.chars \union more])
    OBVIOUS
  <2> DEFINE all == b.chars \union more
  <2>1. PICK chars, space, body : b = [chars |-> chars, space |-> space, body |-> body]
    BY <1>2 DEF Offer
  <2> HIDE DEF all, b
  <2>2. [[chars |-> chars, space |-> space, body |-> body] EXCEPT !.chars = all] = Offer(all, space, body)
    BY DEF Offer
  <2>3. [b EXCEPT !.chars = all] = Offer(all, space, body)
    BY <2>1, <2>2, Zenon
  <2>4. IsOffer([b EXCEPT !.chars = all])
    BY <2>3
  <2>5. QED
    BY <2>4 DEF all
<1> HIDE DEF IsOffer, b
<1>4. \A x, stage : IsOffer(ObjectAllows(x, stage))
  BY <1>1 DEF ObjectAllows
<1>5. \A x, stage, count : IsOffer(ArrayAllows(x, stage, count))
  BY <1>1 DEF ArrayAllows
<1>6. \A x : IsOffer(TextAllows(x))
  BY <1>1 DEF TextAllows
<1>7. IsOffer(NumberAllows(s))
  BY <1>1, <1>3 DEF NumberAllows, b
<1> HIDE DEF f
<1>8. IsOffer(FrameAllows(s))
  <2>1. FrameAllows(s) =
          CASE f.kind = "end" -> Offer({}, TRUE, FALSE)
            [] f.kind = "value" -> Offer(ValueStart(f.node), TRUE, FALSE)
            [] f.kind = "object" -> ObjectAllows(f, f.stage)
            [] f.kind = "array" -> ArrayAllows(f, f.stage, f.count)
            [] f.kind = "text" -> TextAllows(f)
            [] f.kind = "choice" -> Offer({Follows(w, f.progress) : w \in f.candidates}, FALSE, FALSE)
            [] f.kind = "number" -> NumberAllows(s)
            [] OTHER -> Offer({l[f.progress + 1] : l \in f.candidates}, FALSE, FALSE)
    BY Zenon DEF FrameAllows, f
  <2>2. QED
    BY <1>1, <1>4, <1>5, <1>6, <1>7, <2>1
<1>9. QED
  BY <1>8 DEF IsOffer

LEMMA FrameAllowsStack ==
    ASSUME NEW s \in [stack : Seq(Frames), run : Nat], NEW t, t.stack = s.stack
    PROVE  /\ FrameAllows(t) = FrameAllows(s) /\ IsDone(t) = IsDone(s) /\ Top(t) = Top(s)
<1>1. IsDone(t) = IsDone(s) /\ Top(t) = Top(s)
  BY DEF IsDone, Top
<1>2. NumberAllows(t) = NumberAllows(s)
  BY <1>1 DEF NumberAllows
<1>3. FrameAllows(t) = FrameAllows(s)
  BY <1>1, <1>2 DEF FrameAllows
<1>4. QED
  BY <1>1, <1>3

LEMMA MaskIsWhatIsTaken ==
    ASSUME MaxSpaces \in Nat, IsSchema(schema), SpelledTight(schema),
           NEW s, Good(s, s.run), NEW c
    PROVE  Offers(Offered(s), c) <=> FeedChar(s, c) # {}
<1> DEFINE offer == FrameAllows(s)
<1>1. s \in [stack : Seq(Frames), run : Nat] /\ s.run \in Nat
  BY DEF Good
<1> DEFINE free == s.run < MaxSpaces \/ InStringBody(s)
<1>2. Offers(Offered(s), c) <=> \/ c \in offer.chars
                                \/ (offer.space /\ free) /\ c = " "
                                \/ offer.body /\ ~ BreaksFreeText(c)
  <2>1. PICK chars, space, body : offer = [chars |-> chars, space |-> space, body |-> body]
    BY AnOffer DEF Offer
  <2>2. Offered(s) = [offer EXCEPT !.space = offer.space /\ free]
    BY Zenon DEF Offered
  <2> DEFINE still == offer.space /\ free
  <2> HIDE DEF offer, still
  <2>3. [[chars |-> chars, space |-> space, body |-> body] EXCEPT !.space = still]
           = [chars |-> chars, space |-> still, body |-> body]
    OBVIOUS
  <2>4. Offered(s) = [chars |-> chars, space |-> still, body |-> body]
    BY <2>1, <2>2, <2>3, Zenon DEF still
  <2>5. /\ Offered(s).chars = chars /\ Offered(s).space = still /\ Offered(s).body = body
    BY <2>4
  <2>6. offer.chars = chars /\ offer.body = body
    BY <2>1
  <2>7. Offers(Offered(s), c) <=> \/ c \in Offered(s).chars
                                  \/ Offered(s).space /\ c = " "
                                  \/ Offered(s).body /\ ~ BreaksFreeText(c)
    BY Zenon DEF Offers
  <2>8. QED
    BY <2>5, <2>6, <2>7, Zenon DEF still
<1>3. s.run < MaxSpaces <=> ~ (s.run >= MaxSpaces)
  <2>1. \A n \in Nat : n < MaxSpaces <=> ~ (n >= MaxSpaces)
    OBVIOUS
  <2>2. QED
    BY <1>1, <2>1, Zenon
<1> HIDE DEF free
<1>4. ASSUME NEW t, Good(t, s.run), t.stack = s.stack
      PROVE  FeedFrame(t, c) # {} <=> Offers(offer, c)
  <2>1. FrameAllows(t) = offer
    BY <1>1, <1>4, FrameAllowsStack
  <2>2. QED
    BY <1>1, <1>4, <2>1, FrameAgrees
<1>5. ASSUME NEW r \in Nat PROVE Good([s EXCEPT !.run = r], s.run) /\ [s EXCEPT !.run = r].stack = s.stack
  <2> DEFINE t == [s EXCEPT !.run = r]
  <2>1. t \in [stack : Seq(Frames), run : Nat] /\ t.stack = s.stack
    BY <1>1
  <2> HIDE DEF t
  <2>2. IsDone(t) = IsDone(s) /\ Top(t) = Top(s)
    BY <2>1 DEF IsDone, Top
  <2>3. Good(t, s.run)
    BY <2>1, <2>2 DEF Good
  <2>4. QED
    BY <2>1, <2>3 DEF t
<1>6. CASE c # " "
  <2> DEFINE t == [s EXCEPT !.run = 0]
  <2>1. FeedChar(s, c) = FeedFrame(t, c)
    BY <1>6 DEF FeedChar, Counted
  <2>2. FeedFrame(t, c) # {} <=> Offers(offer, c)
    <3>1. Good(t, s.run) /\ t.stack = s.stack
      BY <1>5
    <3> HIDE DEF t, offer
    <3>2. QED
      BY <1>4, <3>1
  <2> HIDE DEF offer, t
  <2>3. Offers(Offered(s), c) <=> Offers(offer, c)
    BY <1>2, <1>6 DEF Offers
  <2>4. QED
    BY <2>1, <2>2, <2>3
<1>7. CASE c = " " /\ InStringBody(s)
  <2>1. FeedChar(s, c) = FeedFrame(s, c)
    BY <1>7 DEF FeedChar, Counted
  <2> HIDE DEF offer
  <2>2. FeedFrame(s, c) # {} <=> Offers(offer, c)
    BY <1>1, <1>4
  <2>3. Offers(Offered(s), c) <=> Offers(offer, c)
    BY <1>2, <1>7 DEF Offers, free
  <2>4. QED
    BY <2>1, <2>2, <2>3
<1>8. CASE c = " " /\ ~ InStringBody(s) /\ ~ (s.run >= MaxSpaces)
  <2> DEFINE t == [s EXCEPT !.run = s.run + 1]
  <2>1. FeedChar(s, c) = FeedFrame(t, c)
    <3>1. Counted(s, c) = {t}
      BY <1>8 DEF Counted
    <3> HIDE DEF t
    <3>2. QED
      BY <3>1 DEF FeedChar
  <2>2. FeedFrame(t, c) # {} <=> Offers(offer, c)
    <3>1. Good(t, s.run) /\ t.stack = s.stack
      <4>1. s.run + 1 \in Nat
        BY <1>1
      <4>2. QED
        BY <1>5, <4>1
    <3> HIDE DEF t, offer
    <3>2. QED
      BY <1>4, <3>1
  <2> HIDE DEF offer, t
  <2>3. Offers(Offered(s), c) <=> Offers(offer, c)
    BY <1>2, <1>3, <1>8 DEF Offers, free
  <2>4. QED
    BY <2>1, <2>2, <2>3
<1>9. CASE c = " " /\ ~ InStringBody(s) /\ s.run >= MaxSpaces
  <2>1. FeedChar(s, c) = {}
    BY <1>9 DEF FeedChar, Counted
  <2>2. Spaceless(offer)
    BY <1>9, NoSpaceOffered
  <2>3. " " \notin offer.chars /\ offer.body = FALSE
    BY <2>2 DEF Spaceless
  <2> HIDE DEF offer
  <2>4. ~ free
    BY <1>3, <1>9, Zenon DEF free
  <2>5. ~ Offers(Offered(s), c)
    BY <1>2, <1>9, <2>3, <2>4
  <2>6. QED
    BY <2>1, <2>5
<1>10. QED
  BY <1>6, <1>7, <1>8, <1>9

-----------------------------------------------------------------------------
(* A character keeps the state good *)

LEMMA PushGood ==
    ASSUME NEW s \in [stack : Seq(Frames), run : Nat], Below(s.stack),
           IsDone(s) \/ Holds(Top(s)), NEW f \in Frames, Unread(f, s.run)
    PROVE  /\ Good(Push(s, f), s.run) /\ Push(s, f).run = s.run
           /\ ~ IsDone(Push(s, f)) /\ Top(Push(s, f)) = f
<1> DEFINE stack == Append(s.stack, f)
           t == Push(s, f)
<1>1. s.stack \in Seq(Frames) /\ Len(s.stack) \in Nat
  OBVIOUS
<1>2. /\ stack \in Seq(Frames) /\ Len(stack) = Len(s.stack) + 1
      /\ stack[Len(s.stack) + 1] = f
      /\ \A i : i \in 1..Len(s.stack) => stack[i] = s.stack[i]
  BY <1>1, AppendProperties
<1>3. t.stack = stack /\ t.run = s.run /\ t = [stack |-> stack, run |-> s.run]
  <2>1. t = [s EXCEPT !.stack = stack]
    BY Zenon DEF Push
  <2> HIDE DEF t, stack
  <2>2. QED
    BY <2>1
<1> HIDE DEF stack, t
<1>4. t \in [stack : Seq(Frames), run : Nat]
  BY <1>2, <1>3
<1>5. ~ IsDone(t) /\ Top(t) = f
  <2>1. stack # << >>
    BY <1>1, <1>2
  <2>2. QED
    BY <1>2, <1>3, <2>1 DEF IsDone, Top, Last
<1>6. Below(t.stack)
  <2>1. SUFFICES ASSUME NEW i \in 1..Len(s.stack) PROVE Holds(stack[i])
    <3>1. \A i \in DOMAIN stack : i < Len(stack) => i \in 1..Len(s.stack)
      BY <1>1, <1>2
    <3>2. QED
      BY <1>3, <2>1, <3>1 DEF Below
  <2>2. stack[i] = s.stack[i]
    BY <1>2, <2>1
  <2>3. CASE i < Len(s.stack)
    BY <1>1, <2>1, <2>2, <2>3 DEF Below
  <2>4. CASE i = Len(s.stack)
    <3>1. s.stack # << >>
      BY <1>1, <2>1
    <3>2. Holds(Top(s)) /\ Top(s) = s.stack[Len(s.stack)]
      BY <3>1 DEF IsDone, Top, Last
    <3>3. QED
      BY <2>2, <2>4, <3>2
  <2>5. QED
    BY <1>1, <2>1, <2>3, <2>4
<1>7. QED
  BY <1>3, <1>4, <1>5, <1>6 DEF Good, t

LEMMA TopGood ==
    ASSUME NEW s \in [stack : Seq(Frames), run : Nat], Below(s.stack), ~ IsDone(s),
           NEW f \in Frames
    PROVE  /\ WithTop(s, f) \in [stack : Seq(Frames), run : Nat] /\ WithTop(s, f).run = s.run
           /\ Below(WithTop(s, f).stack)
           /\ ~ IsDone(WithTop(s, f)) /\ Top(WithTop(s, f)) = f
           /\ Unread(f, s.run) => Good(WithTop(s, f), s.run)
<1> DEFINE t == WithTop(s, f)
<1>1. /\ t \in [stack : Seq(Frames), run : Nat] /\ t.run = s.run
      /\ Len(t.stack) = Len(s.stack) /\ Len(s.stack) \in Nat \ {0}
      /\ ~ IsDone(t) /\ Top(t) = f
  <2> HIDE DEF t
  <2>1. QED
    BY WithTopIs DEF t
<1> HIDE DEF t
<1>2. Below(t.stack)
  <2>1. SUFFICES ASSUME NEW i \in DOMAIN t.stack, i < Len(t.stack) PROVE Holds(t.stack[i])
    BY DEF Below
  <2>2. i \in DOMAIN s.stack /\ i < Len(s.stack) /\ i \in 1..Len(s.stack) - 1
    BY <1>1, <2>1
  <2>3. t.stack[i] = s.stack[i]
    BY <2>2, BelowTheTop DEF t
  <2>4. QED
    BY <2>2, <2>3 DEF Below
<1>3. QED
  BY <1>1, <1>2 DEF Good, t

LEMMA ClosedGood ==
    ASSUME NEW s \in [stack : Seq(Frames), run : Nat], ~ IsDone(s), Below(s.stack)
    PROVE  Good(Closed(s), s.run) /\ Closed(s).run = s.run
<1> DEFINE t == Closed(s)
           rest == Front(s.stack)
<1>1. /\ t \in [stack : Seq(Frames), run : Nat] /\ t.run = s.run
      /\ Below(t.stack)
      /\ IsDone(t) <=> rest = << >>
      /\ rest # << >> => /\ Last(rest) \in Frames /\ Holds(Last(rest))
                         /\ Top(t) = Learnt(Last(rest))
  BY ClosedIs
<1> HIDE DEF t, rest
<1>2. ~ IsDone(t) => Unread(Top(t), s.run)
  BY <1>1, LearntIs
<1>3. QED
  BY <1>1, <1>2 DEF Good, t

\* Only a key and a choice look at the run of spaces.
LEMMA StillFresh ==
    ASSUME NEW f, NEW r, NEW q, Unread(f, r), f.kind # "choice",
           ~ (f.kind = "object" /\ f.stage = "InKey")
    PROVE  Unread(f, q)
BY DEF Unread

LEMMA RunGrows ==
    ASSUME NEW p \in Nat, NEW r \in Nat, NEW q \in Nat, NEW n \in Nat, r <= p, p < n,
           q = 0 \/ q <= r + 1
    PROVE  /\ p + 1 <= n /\ q <= p + 1
           /\ \A j \in (p + 1) - q + 1..p + 1 : q # 0 /\ (j = p + 1 \/ j \in p - r + 1..p)
OBVIOUS

LEMMA WithinNext ==
    ASSUME NEW w \in Seq(STRING), NEW p \in Nat, NEW r \in Nat, NEW q \in Nat, NEW c,
           Within(w, p, r), p < Len(w), w[p + 1] = c, q = 0 \/ (c = " " /\ q <= r + 1)
    PROVE  Within(w, p + 1, q)
<1>1. Len(w) \in Nat /\ r <= p
  BY LenProperties DEF Within
<1> DEFINE n == Len(w)
<1> HIDE DEF n
<1>2. /\ p + 1 <= n /\ q <= p + 1
      /\ \A j \in (p + 1) - q + 1..p + 1 : q # 0 /\ (j = p + 1 \/ j \in p - r + 1..p)
  <2>1. n \in Nat /\ p < n /\ r <= p /\ (q = 0 \/ q <= r + 1)
    BY <1>1 DEF n
  <2>2. QED
    BY <2>1, RunGrows
<1>3. ASSUME NEW j \in (p + 1) - q + 1..p + 1 PROVE w[j] = " "
  <2>1. q # 0 /\ (j = p + 1 \/ j \in p - r + 1..p)
    BY <1>2, <1>3, Zenon
  <2>2. c = " "
    BY <2>1
  <2>3. QED
    BY <2>1, <2>2 DEF Within
<1>4. \A j \in (p + 1) - q + 1..p + 1 : w[j] = " "
  BY <1>3, Zenon
<1>5. p + 1 <= Len(w) /\ q <= p + 1
  BY <1>2 DEF n
<1>6. QED
  BY <1>4, <1>5, Zenon DEF Within

LEMMA WorthIs == \A c \in HexDigits : Worth(c) \in Int
<1> DEFINE digits == <<"0", "1", "2", "3", "4", "5", "6", "7", "8", "9", "a", "b", "c", "d", "e", "f">>
<1>1. \A c \in HexDigits : \E i \in 1..16 : digits[i] = c
  <2>1. /\ digits[1] = "0" /\ digits[2] = "1" /\ digits[3] = "2" /\ digits[4] = "3"
        /\ digits[5] = "4" /\ digits[6] = "5" /\ digits[7] = "6" /\ digits[8] = "7"
        /\ digits[9] = "8" /\ digits[10] = "9" /\ digits[11] = "a" /\ digits[12] = "b"
        /\ digits[13] = "c" /\ digits[14] = "d" /\ digits[15] = "e" /\ digits[16] = "f"
    OBVIOUS
  <2> HIDE DEF digits
  <2>2. QED
    BY <2>1 DEF HexDigits, Digits
<1>2. \A c : Worth(c) = (CHOOSE i \in 1..16 : digits[i] = c) - 1
  BY DEF Worth
<1> HIDE DEF digits
<1>3. \A c \in HexDigits : (CHOOSE i \in 1..16 : digits[i] = c) \in 1..16
  BY <1>1
<1>4. QED
  BY <1>2, <1>3

LEMMA LeastIs ==
    ASSUME NEW S, S \subseteq Nat, S # {}
    PROVE  Min(S) \in S /\ \A k \in S : Min(S) =< k
<1>1. PICK m \in S : \A k \in S : ~ (<<k, m>> \in OpToRel(<, Nat))
  BY WFMin, NatLessThanWellFounded, Zenon
<1>2. m \in Nat /\ \A k \in S : k \in Nat
  OBVIOUS
<1>3. \A k \in S : ~ (k < m)
  BY <1>1, <1>2, Zenon DEF OpToRel
<1>4. \A k \in S : m =< k
  BY <1>2, <1>3
<1>5. QED
  BY <1>4 DEF Min

\* What is left of the number's parts is a number.
LEMMA NumberKeeps ==
    ASSUME NEW f \in NumberFrames, NEW c, NEW g \in NumberNext(f, c)
    PROVE  g \in NumberFrames
<1> DEFINE d == Node(f.node)
<1>1. g \in NumberTransition(d, f, c)
  BY DEF NumberNext
<1> HIDE DEF d
<1>2. c \in Digits => Worth(c) \in Int
  BY WorthIs DEF HexDigits
<1>3. c \in Digits => 10 * f.int + Worth(c) \in Int
  BY <1>2 DEF NumberFrames
<1>4. c \in Digits => 10 * f.frac + Worth(c) \in Int /\ f.places + 1 \in Nat
  BY <1>2 DEF NumberFrames
<1>5. c \in Digits => 10 * f.exp + Worth(c) \in Int /\ f.edigits + 1 \in Nat
  BY <1>2 DEF NumberFrames
<1> DEFINE int == 10 * f.int + Worth(c)
           frac == 10 * f.frac + Worth(c)
           exp == 10 * f.exp + Worth(c)
           places == f.places + 1
           edigits == f.edigits + 1
<1> HIDE DEF int, frac, exp, places, edigits
<1>6. \/ g = [f EXCEPT !.stage = "AfterMinus", !.neg = TRUE]
      \/ \E stage \in {"Zero", "Dot", "Exp"} : g = [f EXCEPT !.stage = stage]
      \/ c \in Digits /\ g = [f EXCEPT !.stage = "IntDigit", !.int = int]
      \/ c \in Digits /\ g = [f EXCEPT !.stage = "FracDigit", !.frac = frac, !.places = places]
      \/ g = [f EXCEPT !.stage = "ExpSign", !.eneg = (c = "-")]
      \/ c \in Digits /\ g = [f EXCEPT !.stage = "ExpDigit", !.exp = exp, !.edigits = edigits]
  BY <1>1 DEF NumberTransition, int, frac, exp, places, edigits
<1>7. CASE g = [f EXCEPT !.stage = "AfterMinus", !.neg = TRUE]
  BY <1>7 DEF NumberFrames
<1>8. CASE \E stage \in {"Zero", "Dot", "Exp"} : g = [f EXCEPT !.stage = stage]
  BY <1>8 DEF NumberFrames
<1>9. CASE c \in Digits /\ g = [f EXCEPT !.stage = "IntDigit", !.int = int]
  <2>1. int \in Int
    BY <1>3, <1>9 DEF int
  <2>2. QED
    BY <1>9, <2>1 DEF NumberFrames
<1>10. CASE c \in Digits /\ g = [f EXCEPT !.stage = "FracDigit", !.frac = frac, !.places = places]
  <2>1. frac \in Int /\ places \in Nat
    BY <1>4, <1>10 DEF frac, places
  <2>2. QED
    BY <1>10, <2>1 DEF NumberFrames
<1>11. CASE g = [f EXCEPT !.stage = "ExpSign", !.eneg = (c = "-")]
  <2> DEFINE neg == c = "-"
  <2>1. neg \in BOOLEAN
    OBVIOUS
  <2> HIDE DEF neg
  <2>2. g = [f EXCEPT !.stage = "ExpSign", !.eneg = neg]
    BY <1>11 DEF neg
  <2>3. QED
    BY <2>1, <2>2 DEF NumberFrames
<1>12. CASE c \in Digits /\ g = [f EXCEPT !.stage = "ExpDigit", !.exp = exp, !.edigits = edigits]
  <2>1. exp \in Int /\ edigits \in Nat
    BY <1>5, <1>12 DEF exp, edigits
  <2>2. QED
    BY <1>12, <2>1 DEF NumberFrames
<1>13. QED
  BY <1>6, <1>7, <1>8, <1>9, <1>10, <1>11, <1>12

LEMMA LiteralKeeps ==
    ASSUME NEW s \in [stack : Seq(Frames), run : Nat], Below(s.stack), ~ IsDone(s),
           Top(s) \in LiteralFrames, \A l \in Top(s).candidates : Top(s).progress < Len(l),
           NEW c, NEW t \in LiteralNext(s, c)
    PROVE  Good(t, t.run) /\ t.run = s.run
<1> DEFINE f == Top(s)
           remaining == {l \in f.candidates : l[f.progress + 1] = c}
           g == [f EXCEPT !.candidates = remaining, !.progress = f.progress + 1]
<1>1. /\ f \in LiteralFrames /\ remaining \subseteq f.candidates /\ f.candidates \subseteq Literals
      /\ f.progress \in Nat
      /\ \A l \in remaining : f.progress < Len(l)
  BY DEF LiteralFrames
<1>2. t = Closed(s) \/ (t = WithTop(s, g) /\ ~ \E l \in remaining : Len(l) = f.progress + 1)
  BY DEF LiteralNext
<1>3. CASE t = Closed(s)
  BY <1>3, ClosedGood
<1>4. CASE t = WithTop(s, g) /\ ~ \E l \in remaining : Len(l) = f.progress + 1
  <2> DEFINE progress == f.progress
  <2>1. \A l \in remaining : progress + 1 < Len(l)
    <3>1. \A l \in Literals : Len(l) \in Nat
      BY DEF Literals
    <3>2. \A l \in remaining : Len(l) \in Nat /\ progress < Len(l) /\ Len(l) # progress + 1 /\ progress \in Nat
      BY <1>1, <1>4, <3>1
    <3> HIDE DEF progress, remaining
    <3>3. QED
      BY <3>2
  <2>2. g \in LiteralFrames /\ g.kind = "literal" /\ g.candidates = remaining /\ g.progress = progress + 1
    <3> HIDE DEF remaining, f
    <3>1. f.progress + 1 \in Nat /\ remaining \in SUBSET Literals
      BY <1>1
    <3>2. QED
      BY <1>1, <3>1 DEF LiteralFrames
  <2> HIDE DEF g, f, remaining
  <2>3. Unread(g, s.run)
    BY <2>1, <2>2 DEF Unread
  <2>4. g \in Frames
    BY <2>2 DEF Frames
  <2>5. QED
    BY <1>4, <2>3, <2>4, TopGood
<1>5. QED
  BY <1>2, <1>3, <1>4

LEMMA NothingYet ==
    \A w \in Seq(STRING) : Within(w, 0, 0)
<1>1. \A w \in Seq(STRING) : 0 <= Len(w)
  OBVIOUS
<1>2. 0 <= 0 /\ \A j \in 0 - 0 + 1..0 : FALSE
  OBVIOUS
<1>3. QED
  BY <1>1, <1>2 DEF Within

LEMMA LiteralsAreLong == \A l \in Literals : 0 < Len(l)
<1>1. ASSUME NEW l, l = <<"t", "r", "u", "e">> PROVE 0 < Len(l)
  <2>1. Len(l) = 4
    BY <1>1
  <2>2. QED
    BY <2>1
<1>2. ASSUME NEW l, l = <<"f", "a", "l", "s", "e">> PROVE 0 < Len(l)
  <2>1. Len(l) = 5
    BY <1>2
  <2>2. QED
    BY <2>1
<1>3. QED
  BY <1>1, <1>2 DEF Literals

LEMMA NodeOfKind ==
    ASSUME IsSchema(schema), NEW n \in DOMAIN schema.nodes
    PROVE  n \in Nodes(Node(n).kind)
BY NodeIs DEF Nodes

\* The frame a value's first character opens.
LEMMA OpenKeeps ==
    ASSUME IsSchema(schema), NEW n \in DOMAIN schema.nodes,
           NEW s \in [stack : Seq(Frames), run : Nat], Below(s.stack), IsDone(s) \/ Holds(Top(s)),
           NEW c, s.run = 0 \/ c = " ", NEW t \in OpenValue(s, n, c)
    PROVE  Good(t, t.run) /\ t.run = s.run
<1>1. c # " "
  <2>1. c \in ValueStart(n)
    <3>1. s.stack \in Seq(Frames) /\ s = [stack |-> s.stack, run |-> s.run]
      OBVIOUS
    <3>2. QED
      BY <3>1, OpenAgrees
  <2>2. QED
    BY <2>1, NoValueStartsSo
<1>2. s.run = 0 /\ n \in Nodes(Node(n).kind)
  BY <1>1, NodeOfKind
<1>3. ASSUME NEW f \in Frames, Unread(f, 0), t = Push(s, f) PROVE Good(t, t.run) /\ t.run = s.run
  BY <1>2, <1>3, PushGood
<1>4. CASE Node(n).kind = "object"
  <2> DEFINE f == ObjectFrame(n)
  <2>1. t = Push(s, f)
    BY <1>4 DEF OpenValue
  <2>2. f \in ObjectFrames /\ Unread(f, 0)
    <3>1. {} \subseteq DOMAIN Fields(f)
      OBVIOUS
    <3>2. QED
      BY <1>2, <1>4, <3>1 DEF ObjectFrame, ObjectFrames, Unread
  <2> HIDE DEF f
  <2>3. QED
    BY <1>3, <2>1, <2>2 DEF Frames
<1>5. CASE Node(n).kind = "array"
  <2> DEFINE f == ArrayFrame(n)
  <2>1. t = Push(s, f)
    BY <1>5 DEF OpenValue
  <2>2. f \in ArrayFrames /\ Unread(f, 0)
    BY <1>2, <1>5 DEF ArrayFrame, ArrayFrames, Unread
  <2> HIDE DEF f
  <2>3. QED
    BY <1>3, <2>1, <2>2 DEF Frames
<1>6. CASE Node(n).kind = "text"
  <2> DEFINE f == TextFrame(n)
  <2>1. t = Push(s, f)
    BY <1>6 DEF OpenValue
  <2>2. f \in TextFrames /\ Unread(f, 0)
    BY <1>2, <1>6 DEF TextFrame, TextFrames, Unread
  <2> HIDE DEF f
  <2>3. QED
    BY <1>3, <2>1, <2>2 DEF Frames
<1>7. CASE Node(n).kind = "choice"
  <2> DEFINE f == ChoiceFrame(n)
  <2>1. t = Push(s, f)
    BY <1>7 DEF OpenValue
  <2>2. /\ f.kind = "choice" /\ f.node = n /\ f.candidates = Node(n).choices /\ f.progress = 0
        /\ f = [kind |-> "choice", node |-> n, candidates |-> Node(n).choices, progress |-> 0]
    BY DEF ChoiceFrame
  <2>3. Node(n).choices \subseteq Seq(STRING)
    BY <1>7, Chosen
  <2>4. f \in ChoiceFrames
    <3> HIDE DEF f
    <3>1. f \in [kind : {"choice"}, node : Nodes("choice"), candidates : SUBSET Seq(STRING), progress : Nat]
      BY <1>2, <1>7, <2>2, <2>3
    <3>2. QED
      BY <2>2, <3>1 DEF ChoiceFrames
  <2>5. Unread(f, 0)
    <3> HIDE DEF f
    <3>1. QED
      BY <2>2, <2>3, NothingYet DEF Unread
  <2> HIDE DEF f
  <2>6. QED
    BY <1>3, <2>1, <2>4, <2>5 DEF Frames
<1>8. CASE Node(n).kind = "number"
  <2>1. NumberFrame(n) \in NumberFrames
    BY <1>2, <1>8 DEF NumberFrame, NumberFrames
  <2>2. PICK f \in NumberNext(NumberFrame(n), c) : t = Push(s, f)
    BY <1>8 DEF OpenValue
  <2>3. f \in NumberFrames
    BY <2>1, NumberKeeps
  <2>4. f.kind = "number" /\ f \in Frames
    BY <2>3 DEF NumberFrames, Frames
  <2>5. QED
    BY <1>3, <2>2, <2>4 DEF Unread
<1>9. CASE Node(n).kind = "bool"
  <2> DEFINE f == LiteralFrame
             u == Push(s, f)
  <2>1. t \in LiteralNext(u, c)
    BY <1>9 DEF OpenValue
  <2>2. /\ f \in LiteralFrames /\ f.kind = "literal" /\ f.candidates = Literals /\ f.progress = 0
    BY DEF LiteralFrame, LiteralFrames
  <2>3. \A l \in f.candidates : f.progress < Len(l)
    BY <2>2, LiteralsAreLong DEF f
  <2> HIDE DEF f
  <2>4. f \in Frames /\ Unread(f, s.run)
    BY <2>2, <2>3 DEF Frames, Unread
  <2>5. Good(u, s.run) /\ u.run = s.run /\ ~ IsDone(u) /\ Top(u) = f
    BY <2>4, PushGood
  <2> HIDE DEF u
  <2>6. u \in [stack : Seq(Frames), run : Nat] /\ Below(u.stack)
    BY <2>5 DEF Good
  <2>7. QED
    BY <2>1, <2>2, <2>3, <2>5, <2>6, LiteralKeeps
<1>10. QED
  BY <1>4, <1>5, <1>6, <1>7, <1>8, <1>9, NodeIs

LEMMA Before ==
    ASSUME NEW n \in Nat, NEW p \in Nat, p <= n, n # p PROVE p < n
OBVIOUS

LEMMA Following == \A p \in Nat : p + 1 \in Nat
OBVIOUS

LEMMA KeyKeeps ==
    ASSUME IsSchema(schema), NEW r \in Nat,
           NEW s \in [stack : Seq(Frames), run : Nat], Below(s.stack), ~ IsDone(s),
           Top(s) \in ObjectFrames, Top(s).stage = "InKey", Unread(Top(s), r),
           NEW c, s.run = 0 \/ (c = " " /\ s.run <= r + 1), NEW t \in FeedKey(s, c)
    PROVE  Good(t, t.run) /\ t.run = s.run
<1> DEFINE f == Top(s)
           name(i) == Fields(f)[i].name
           complete == {i \in f.candidates : Len(name(i)) = f.progress}
           remaining == {i \in f.candidates \ complete : name(i)[f.progress + 1] = c}
           i == Min(complete)
           g == [f EXCEPT !.seen = f.seen \union {i}, !.active = i, !.stage = "AfterKey"]
           h == [f EXCEPT !.candidates = remaining, !.progress = f.progress + 1]
           Record == [kind : {"object"}, node : Nodes("object"), seen : SUBSET Nat,
                      stage : {"KeyOrClose", "InKey", "AfterKey", "AfterColon", "InValue", "AfterValue",
                               "AfterComma"},
                      candidates : SUBSET Nat, progress : Nat, active : Nat]
<1>1. \/ complete # {} /\ t = WithTop(s, g)
      \/ t = WithTop(s, h)
  BY DEF FeedKey
<1>2. /\ f \in Record /\ f.candidates \subseteq DOMAIN Fields(f)
  BY DEF ObjectFrames
<1>3. /\ f.kind = "object" /\ f.progress \in Nat /\ f.candidates \subseteq Nat
      /\ f.node \in DOMAIN schema.nodes /\ schema.nodes[f.node].kind = "object"
  BY <1>2 DEF Nodes
<1>4. \A k \in f.candidates : Within(name(k), f.progress, r) /\ name(k) \in Seq(STRING)
  <2>1. ASSUME NEW k \in DOMAIN Fields(f) PROVE name(k) \in Seq(STRING)
    <3>1. Node(f.node).kind = "object"
      BY <1>3, NodeIs
    <3> HIDE DEF f
    <3>2. QED
      BY <1>3, <3>1, Named DEF Fields
  <2>2. QED
    BY <1>2, <1>3, <2>1 DEF Unread
<1>5. CASE complete # {} /\ t = WithTop(s, g)
  <2>1. i \in complete /\ complete \subseteq f.candidates
    <3>1. complete \subseteq Nat /\ complete \subseteq f.candidates
      BY <1>3
    <3> HIDE DEF complete
    <3>2. QED
      BY <1>5, <3>1, LeastIs
  <2>2. i \in DOMAIN Fields(f) /\ i \in Nat
    BY <1>2, <1>3, <2>1
  <2> HIDE DEF i, f, complete
  <2>3. g \in Record /\ g.node = f.node /\ g.candidates = f.candidates /\ g.active = i
        /\ g.stage = "AfterKey" /\ g.kind = "object"
    <3>1. f.seen \union {i} \in SUBSET Nat
      BY <1>2, <2>2
    <3>2. QED
      BY <1>2, <2>2, <3>1
  <2> HIDE DEF g, Record
  <2>4. Fields(g) = Fields(f)
    BY <2>3 DEF Fields
  <2>5. g \in ObjectFrames
    BY <1>2, <2>2, <2>3, <2>4 DEF ObjectFrames, Record
  <2>6. Unread(g, s.run) /\ g \in Frames
    BY <2>3, <2>5 DEF Unread, Frames
  <2>7. QED
    BY <1>5, <2>6, TopGood
<1>6. CASE t = WithTop(s, h)
  <2>1. remaining \subseteq f.candidates
    OBVIOUS
  <2>2. \A k \in remaining : name(k) \in Seq(STRING) /\ Within(name(k), f.progress + 1, s.run)
    <3> SUFFICES ASSUME NEW k \in remaining
                 PROVE  name(k) \in Seq(STRING) /\ Within(name(k), f.progress + 1, s.run)
      OBVIOUS
    <3>1. /\ Within(name(k), f.progress, r) /\ name(k) \in Seq(STRING)
          /\ Len(name(k)) # f.progress /\ name(k)[f.progress + 1] = c
      BY <1>4
    <3>2. f.progress < Len(name(k))
      <4> DEFINE n == Len(name(k))
                 p == f.progress
      <4>1. n \in Nat /\ p \in Nat /\ p <= n /\ n # p
        <5> HIDE DEF name, f
        <5>1. Len(name(k)) \in Nat
          BY <3>1, LenProperties
        <5>2. QED
          BY <1>3, <3>1, <5>1 DEF Within
      <4> HIDE DEF n, p
      <4>2. p < n
        BY <4>1, Before
      <4>3. QED
        BY <4>2 DEF n, p
    <3> HIDE DEF name, f, remaining
    <3>3. s.run \in Nat
      OBVIOUS
    <3>4. QED
      BY <1>3, <3>1, <3>2, <3>3, WithinNext
  <2> HIDE DEF remaining, f
  <2>3. h \in Record /\ h.node = f.node /\ h.candidates = remaining /\ h.progress = f.progress + 1
        /\ h.stage = f.stage /\ h.kind = "object"
    <3>1. remaining \in SUBSET Nat /\ f.progress + 1 \in Nat
      <4>1. f.progress + 1 \in Nat
        BY <1>3, Following, Zenon
      <4>2. remaining \in SUBSET Nat
        BY <1>3, <2>1, Zenon
      <4>3. QED
        BY <4>1, <4>2, Zenon
    <3>2. QED
      BY <1>2, <1>3, <3>1
  <2> HIDE DEF h, Record
  <2>4. Fields(h) = Fields(f)
    BY <2>3 DEF Fields
  <2>5. f.stage = "InKey"
    BY DEF f
  <2>6. h \in ObjectFrames
    BY <1>2, <2>1, <2>3, <2>4, <2>5 DEF ObjectFrames, Record
  <2>7. Unread(h, s.run)
    BY <2>2, <2>3, <2>4, <2>5 DEF Unread
  <2>8. h \in Frames
    BY <2>6 DEF Frames
  <2>9. QED
    BY <1>6, <2>7, <2>8, TopGood
<1>7. QED
  BY <1>1, <1>5, <1>6

LEMMA StageOf ==
    ASSUME NEW f \in ObjectFrames,
           NEW stage \in {"AfterColon", "InValue", "AfterValue", "AfterComma", "AfterKey", "KeyOrClose"},
           stage \in {"AfterColon", "AfterKey"} => f.active \in DOMAIN Fields(f)
    PROVE  /\ [f EXCEPT !.stage = stage] \in ObjectFrames
           /\ [f EXCEPT !.stage = stage].stage = stage /\ [f EXCEPT !.stage = stage].kind = "object"
BY DEF ObjectFrames, Fields

LEMMA ObjectKeeps ==
    ASSUME IsSchema(schema), NEW r \in Nat,
           NEW s \in [stack : Seq(Frames), run : Nat], Below(s.stack), ~ IsDone(s),
           Top(s) \in ObjectFrames, Unread(Top(s), r),
           NEW c, s.run = 0 \/ (c = " " /\ s.run <= r + 1), NEW t \in FeedObject(s, c)
    PROVE  Good(t, t.run) /\ t.run = s.run
<1> DEFINE f == Top(s)
           To(stage) == WithTop(s, [f EXCEPT !.stage = stage])
<1>1. /\ f.kind = "object" /\ f.node \in DOMAIN schema.nodes /\ schema.nodes[f.node].kind = "object"
      /\ f.stage \in {"KeyOrClose", "InKey", "AfterKey", "AfterColon", "AfterValue", "AfterComma"}
      /\ f.stage \in {"AfterKey", "AfterColon"} => f.active \in DOMAIN Fields(f)
  BY DEF ObjectFrames, Nodes, Unread
<1>2. CASE f.stage = "InKey"
  <2>1. t \in FeedKey(s, c)
    BY <1>2 DEF FeedObject
  <2>2. QED
    BY <1>2, <2>1, KeyKeeps
<1>3. CASE f.stage # "InKey" /\ c = " "
  <2>1. t = s
    BY <1>3 DEF FeedObject
  <2>2. Unread(f, s.run)
    BY <1>1, <1>3, StillFresh
  <2>3. QED
    BY <2>1, <2>2 DEF Good
<1>4. CASE f.stage # "InKey" /\ c # " "
  <2> DEFINE item == Fields(f)[f.active].node
             key == [f EXCEPT !.candidates = Remaining(f), !.progress = 0, !.stage = "InKey"]
  <2>0. s.run = 0
    BY <1>4
  <2>1. \/ t = WithTop(s, key)
        \/ t = Closed(s)
        \/ f.stage = "AfterKey" /\ t = To("AfterColon")
        \/ f.stage = "AfterColon" /\ t \in OpenValue(To("InValue"), item, c)
        \/ t = To("AfterComma")
    BY <1>1, <1>4 DEF FeedObject
  <2> HIDE DEF To
  <2>2. ASSUME NEW stage \in {"AfterColon", "InValue", "AfterComma"},
               stage = "AfterColon" => f.stage \in {"AfterKey", "AfterColon"}
        PROVE  /\ To(stage) \in [stack : Seq(Frames), run : Nat] /\ To(stage).run = s.run
               /\ Below(To(stage).stack)
               /\ ~ IsDone(To(stage)) /\ Holds(Top(To(stage)))
               /\ stage # "InValue" => Good(To(stage), s.run)
    <3> DEFINE g == [f EXCEPT !.stage = stage]
    <3>1. g \in ObjectFrames /\ g.stage = stage /\ g.kind = "object"
      <4> HIDE DEF f
      <4>1. f \in ObjectFrames
        BY DEF f
      <4>0. stage # "AfterKey"
        OBVIOUS
      <4>2. stage \in {"AfterColon", "AfterKey"} => f.active \in DOMAIN Fields(f)
        BY <1>1, <2>2, <4>0
      <4>3. stage \in {"AfterColon", "InValue", "AfterValue", "AfterComma", "AfterKey", "KeyOrClose"}
        OBVIOUS
      <4>4. QED
        BY <4>1, <4>2, <4>3, StageOf, Zenon
    <3>2. To(stage) = WithTop(s, g)
      BY DEF To
    <3> HIDE DEF g, f
    <3>3. g \in Frames /\ Holds(g) /\ (stage # "InValue" => Unread(g, s.run))
      BY <3>1 DEF Frames, Holds, Unread
    <3>4. QED
      BY <3>2, <3>3, TopGood
  <2>3. CASE t = WithTop(s, key)
    <3> DEFINE rest == Remaining(f)
    <3>1. rest \subseteq DOMAIN Fields(f) /\ rest \subseteq Nat
      BY <1>1, NodeIs DEF Remaining, Fields
    <3> HIDE DEF rest
    <3>2. key = [f EXCEPT !.candidates = rest, !.progress = 0, !.stage = "InKey"]
      BY DEF rest
    <3>3. key \in ObjectFrames
      BY <3>1, <3>2 DEF ObjectFrames, Fields
    <3>4. key.stage = "InKey" /\ key.kind = "object" /\ key.progress = 0 /\ key.node = f.node /\ key.candidates = rest
      BY <3>2 DEF ObjectFrames
    <3> HIDE DEF key
    <3>5. \A k \in rest : Within(Fields(key)[k].name, 0, 0)
      <4>1. ASSUME NEW k \in rest PROVE Fields(key)[k].name \in Seq(STRING)
        <5>1. Node(f.node).kind = "object" /\ Fields(key) = Node(f.node).fields
          BY <1>1, <3>4, NodeIs DEF Fields
        <5> HIDE DEF f
        <5>2. k \in DOMAIN Node(f.node).fields
          BY <3>1 DEF Fields
        <5>3. QED
          BY <1>1, <5>1, <5>2, Named
      <4>2. QED
        BY <4>1, NothingYet
    <3> HIDE DEF f
    <3>6. Unread(key, s.run)
      BY <2>0, <3>4, <3>5 DEF Unread
    <3>7. key \in Frames
      BY <3>3 DEF Frames
    <3>8. QED
      BY <2>3, <3>6, <3>7, TopGood
  <2>4. CASE t = Closed(s)
    BY <2>4, ClosedGood
  <2>5. CASE f.stage = "AfterKey" /\ t = To("AfterColon")
    BY <2>2, <2>5
  <2>6. CASE f.stage = "AfterColon" /\ t \in OpenValue(To("InValue"), item, c)
    <3> DEFINE u == To("InValue")
    <3>1. /\ u \in [stack : Seq(Frames), run : Nat] /\ u.run = s.run /\ Below(u.stack)
          /\ Holds(Top(u))
      BY <2>2
    <3>2. item \in DOMAIN schema.nodes
      BY <1>1, <2>6, NodeIs DEF Fields
    <3> HIDE DEF u, item, f
    <3>3. t \in OpenValue(u, item, c)
      BY <2>6 DEF u
    <3>6. u.run = 0 \/ c = " "
      BY <2>0, <3>1
    <3>7. IsDone(u) \/ Holds(Top(u))
      BY <3>1
    <3>4. Good(t, t.run) /\ t.run = u.run
      <4> HIDE DEF key
      <4>1. ASSUME NEW n \in DOMAIN schema.nodes, NEW v \in [stack : Seq(Frames), run : Nat],
                   Below(v.stack), v.run = 0 \/ c = " ", IsDone(v) \/ Holds(Top(v)),
                   t \in OpenValue(v, n, c)
            PROVE  Good(t, t.run) /\ t.run = v.run
        BY <4>1, OpenKeeps
      <4>2. QED
        BY <3>1, <3>2, <3>3, <3>6, <3>7, <4>1
    <3>5. QED
      BY <3>1, <3>4
  <2>7. CASE t = To("AfterComma")
    BY <2>2, <2>7
  <2>8. QED
    BY <2>1, <2>3, <2>4, <2>5, <2>6, <2>7
<1>5. QED
  BY <1>2, <1>3, <1>4

LEMMA ArrayKeeps ==
    ASSUME IsSchema(schema), NEW r \in Nat,
           NEW s \in [stack : Seq(Frames), run : Nat], Below(s.stack), ~ IsDone(s),
           Top(s) \in ArrayFrames, Unread(Top(s), r),
           NEW c, s.run = 0 \/ c = " ", NEW t \in FeedArray(s, c)
    PROVE  Good(t, t.run) /\ t.run = s.run
<1> DEFINE f == Top(s)
           item == Node(f.node).item
           u == WithTop(s, [f EXCEPT !.stage = "InItem"])
<1>1. /\ f.kind = "array" /\ f.node \in DOMAIN schema.nodes /\ schema.nodes[f.node].kind = "array"
      /\ f \in ArrayFrames
  BY DEF ArrayFrames, Nodes
<1>2. CASE c = " "
  <2>1. t = s
    BY <1>2 DEF FeedArray
  <2>2. Unread(f, s.run)
    BY <1>1, StillFresh
  <2>3. QED
    BY <2>1, <2>2 DEF Good
<1>3. CASE c # " "
  <2>1. \/ t = Closed(s)
        \/ t = WithTop(s, [f EXCEPT !.stage = "BeforeItem"])
        \/ t \in OpenValue(u, item, c)
    BY <1>3 DEF FeedArray
  <2>2. ASSUME NEW stage \in {"BeforeItem", "InItem"}
        PROVE  /\ [f EXCEPT !.stage = stage] \in ArrayFrames
               /\ [f EXCEPT !.stage = stage].stage = stage /\ [f EXCEPT !.stage = stage].kind = "array"
    <3> HIDE DEF f
    <3>1. QED
      BY <1>1 DEF ArrayFrames
  <2>3. CASE t = Closed(s)
    BY <2>3, ClosedGood
  <2>4. CASE t = WithTop(s, [f EXCEPT !.stage = "BeforeItem"])
    <3> DEFINE g == [f EXCEPT !.stage = "BeforeItem"]
    <3>1. g \in ArrayFrames /\ g.stage = "BeforeItem" /\ g.kind = "array"
      BY <2>2
    <3> HIDE DEF g
    <3>2. g \in Frames /\ Unread(g, s.run)
      BY <3>1 DEF Frames, Unread
    <3>3. QED
      BY <2>4, <3>2, TopGood DEF g
  <2>5. CASE t \in OpenValue(u, item, c)
    <3> DEFINE g == [f EXCEPT !.stage = "InItem"]
    <3>1. g \in ArrayFrames /\ g.stage = "InItem" /\ g.kind = "array"
      BY <2>2
    <3> HIDE DEF g
    <3>2. g \in Frames /\ Holds(g)
      BY <3>1 DEF Frames, Holds
    <3>3. u = WithTop(s, g)
      BY DEF g
    <3> HIDE DEF u
    <3>4. /\ u \in [stack : Seq(Frames), run : Nat] /\ u.run = s.run /\ Below(u.stack)
          /\ Holds(Top(u))
      BY <3>2, <3>3, TopGood
    <3>5. item \in DOMAIN schema.nodes
      BY <1>1, NodeIs
    <3>6. u.run = 0 \/ c = " "
      BY <3>4
    <3> HIDE DEF item, f
    <3>7. ASSUME NEW n \in DOMAIN schema.nodes, NEW v \in [stack : Seq(Frames), run : Nat],
                 Below(v.stack), v.run = 0 \/ c = " ", IsDone(v) \/ Holds(Top(v)),
                 t \in OpenValue(v, n, c)
          PROVE  Good(t, t.run) /\ t.run = v.run
      BY <3>7, OpenKeeps
    <3>8. QED
      BY <2>5, <3>4, <3>5, <3>6, <3>7
  <2>6. QED
    BY <2>1, <2>3, <2>4, <2>5
<1>4. QED
  BY <1>2, <1>3

LEMMA TextKeeps ==
    ASSUME NEW s \in [stack : Seq(Frames), run : Nat], Below(s.stack), ~ IsDone(s),
           Top(s) \in TextFrames, NEW c, NEW t \in FeedText(s, c)
    PROVE  Good(t, t.run) /\ t.run = s.run
<1> DEFINE f == Top(s)
           length == f.length + 1
           value == f.value * 16 + Worth(c)
           left == f.left - 1
           Stages == {"Body", "Escape", "LowEscape", "LowU", "Hex"}
<1>1. f \in TextFrames /\ f.length \in Nat /\ f.value \in Int /\ f.left \in Int
  BY DEF TextFrames
<1>2. length \in Nat /\ left \in Int
  <2> HIDE DEF f
  <2>1. \A n \in Nat, i \in Int : n + 1 \in Nat /\ i - 1 \in Int
    OBVIOUS
  <2>2. QED
    BY <1>1, <2>1
<1>3. c \in HexDigits => value \in Int
  <2>1. c \in HexDigits => Worth(c) \in Int
    BY WorthIs
  <2>2. \A i \in Int, j \in Int : i * 16 + j \in Int
    OBVIOUS
  <2>3. QED
    BY <1>1, <2>1, <2>2, Zenon
<1> HIDE DEF length, left, value
<1>4. \/ t = Closed(s)
      \/ \E g : t = WithTop(s, g) /\
            \/ \E stage \in Stages : g = [f EXCEPT !.stage = stage]
            \/ g = [f EXCEPT !.stage = "Body", !.length = length]
            \/ \E low \in BOOLEAN : g = [f EXCEPT !.stage = "Hex", !.value = 0, !.left = 4, !.low = low]
            \/ c \in HexDigits /\ g = [f EXCEPT !.value = value, !.left = left]
  BY DEF FeedText, length, left, value
<1>5. CASE t = Closed(s)
  BY <1>5, ClosedGood
<1>6. ASSUME NEW g, t = WithTop(s, g), g \in TextFrames
      PROVE  Good(t, t.run) /\ t.run = s.run
  <2>1. g \in Frames /\ Unread(g, s.run)
    BY <1>6 DEF TextFrames, Frames, Unread
  <2>2. QED
    BY <1>6, <2>1, TopGood
<1> HIDE DEF f
<1>7. ASSUME NEW g,
             \/ \E stage \in Stages : g = [f EXCEPT !.stage = stage]
             \/ g = [f EXCEPT !.stage = "Body", !.length = length]
             \/ \E low \in BOOLEAN : g = [f EXCEPT !.stage = "Hex", !.value = 0, !.left = 4, !.low = low]
             \/ c \in HexDigits /\ g = [f EXCEPT !.value = value, !.left = left]
      PROVE  g \in TextFrames
  <2>1. CASE \E stage \in Stages : g = [f EXCEPT !.stage = stage]
    BY <1>1, <2>1 DEF TextFrames
  <2>2. CASE g = [f EXCEPT !.stage = "Body", !.length = length]
    BY <1>1, <1>2, <2>2 DEF TextFrames
  <2>3. CASE \E low \in BOOLEAN : g = [f EXCEPT !.stage = "Hex", !.value = 0, !.left = 4, !.low = low]
    <3>1. ASSUME NEW low \in BOOLEAN
          PROVE  [f EXCEPT !.stage = "Hex", !.value = 0, !.left = 4, !.low = low] \in TextFrames
      <4> DEFINE e == [f EXCEPT !.stage = "Hex", !.value = 0, !.left = 4]
      <4>1. e \in TextFrames
        <5>1. 0 \in Int /\ 4 \in Int
          OBVIOUS
        <5>2. QED
          BY <1>1, <5>1 DEF TextFrames
      <4>2. [f EXCEPT !.stage = "Hex", !.value = 0, !.left = 4, !.low = low] = [e EXCEPT !.low = low]
        BY <1>1 DEF TextFrames
      <4> HIDE DEF e
      <4>3. [e EXCEPT !.low = low] \in TextFrames
        BY <4>1 DEF TextFrames
      <4>4. QED
        BY <4>2, <4>3
    <3>2. QED
      BY <2>3, <3>1, Zenon
  <2>4. CASE c \in HexDigits /\ g = [f EXCEPT !.value = value, !.left = left]
    BY <1>1, <1>2, <1>3, <2>4 DEF TextFrames
  <2>5. QED
    BY <1>7, <2>1, <2>2, <2>3, <2>4
<1>8. QED
  BY <1>4, <1>5, <1>6, <1>7, Zenon

LEMMA ChoiceKeeps ==
    ASSUME IsSchema(schema), NEW r \in Nat,
           NEW s \in [stack : Seq(Frames), run : Nat], Below(s.stack), ~ IsDone(s),
           Top(s) \in ChoiceFrames, Unread(Top(s), r),
           NEW c, s.run = 0 \/ (c = " " /\ s.run <= r + 1), NEW t \in FeedChoice(s, c)
    PROVE  Good(t, t.run) /\ t.run = s.run
<1> DEFINE f == Top(s)
           remaining == {w \in f.candidates : Len(w) > f.progress /\ w[f.progress + 1] = c}
           progress == f.progress
           h == [f EXCEPT !.candidates = remaining, !.progress = progress + 1]
<1>1. /\ f \in [kind : {"choice"}, node : Nodes("choice"), candidates : SUBSET Seq(STRING), progress : Nat]
      /\ f.candidates \subseteq Node(f.node).choices /\ f.candidates \subseteq Seq(STRING)
      /\ f.kind = "choice" /\ progress \in Nat
  BY DEF ChoiceFrames
<1>2. \A w \in f.candidates : Within(w, progress, r)
  BY <1>1 DEF Unread
<1>3. t = Closed(s) \/ t = WithTop(s, h)
  BY DEF FeedChoice
<1>4. CASE t = Closed(s)
  BY <1>4, ClosedGood
<1>5. CASE t = WithTop(s, h)
  <2>1. remaining \subseteq f.candidates
    OBVIOUS
  <2>2. \A w \in remaining : Within(w, progress + 1, s.run)
    <3> SUFFICES ASSUME NEW w \in remaining PROVE Within(w, progress + 1, s.run)
      OBVIOUS
    <3>1. w \in Seq(STRING) /\ Within(w, progress, r) /\ Len(w) > progress /\ w[progress + 1] = c
      BY <1>1, <1>2
    <3>2. Len(w) \in Nat
      BY <3>1, LenProperties
    <3> HIDE DEF progress, remaining, f
    <3>3. progress < Len(w)
      BY <1>1, <3>1, <3>2
    <3>4. s.run \in Nat
      OBVIOUS
    <3>5. QED
      BY <1>1, <3>1, <3>3, <3>4, WithinNext
  <2>3. progress + 1 \in Nat
    BY <1>1, Following, Zenon
  <2> DEFINE following == progress + 1
  <2> HIDE DEF following, remaining, f
  <2>4. h = [f EXCEPT !.candidates = remaining, !.progress = following]
    BY DEF following
  <2>5. following \in Nat
    BY <2>3 DEF following
  <2>6. remaining \in SUBSET Seq(STRING)
    BY <1>1, <2>1, Zenon
  <2> HIDE DEF h
  <2>7. /\ h \in [kind : {"choice"}, node : Nodes("choice"), candidates : SUBSET Seq(STRING), progress : Nat]
        /\ h.node = f.node /\ h.candidates = remaining /\ h.progress = following /\ h.kind = "choice"
    BY <1>1, <2>4, <2>5, <2>6
  <2>8. h \in ChoiceFrames
    BY <1>1, <2>1, <2>7 DEF ChoiceFrames
  <2>9. Unread(h, s.run) /\ h \in Frames
    BY <2>2, <2>7, <2>8 DEF Unread, Frames, following
  <2>10. QED
    BY <1>5, <2>9, TopGood
<1>6. QED
  BY <1>3, <1>4, <1>5

LEMMA TheRestHolds ==
    ASSUME NEW stack \in Seq(Frames), stack # << >>, Below(stack)
    PROVE  LET rest == Front(stack) IN
           Below(rest) /\ (rest # << >> => Holds(Last(rest)))
<1> DEFINE rest == Front(stack)
           n == Len(stack)
<1>1. /\ Len(rest) = n - 1 /\ n \in Nat \ {0}
      /\ \A i \in 1..n - 1 : rest[i] = stack[i]
      /\ rest \in Seq(Frames)
  BY StackIs
<1>2. \A i \in DOMAIN stack : i < n => Holds(stack[i])
  BY DEF Below
<1>3. DOMAIN stack = 1..n
  OBVIOUS
<1>4. DOMAIN rest = 1..Len(rest)
  BY <1>1
<1>5. rest # << >> => Len(rest) # 0
  BY <1>1, EmptySeq
<1> HIDE DEF rest, n
<1>6. \A i \in 1..n - 1 : i \in 1..n /\ i < n
  BY ONLY <1>1
<1>7. \A i \in 1..n - 1 : Holds(rest[i])
  BY <1>1, <1>2, <1>3, <1>6
<1>8. Below(rest)
  BY <1>1, <1>4, <1>7 DEF Below
<1>9. ASSUME rest # << >> PROVE Holds(Last(rest))
  <2>1. n - 1 # 0
    BY <1>1, <1>5, <1>9, Zenon
  <2>2. n - 1 \in 1..n - 1
    BY ONLY <1>1, <2>1
  <2>3. QED
    BY <1>1, <1>7, <2>2, Zenon DEF Last
<1>10. QED
  BY <1>8, <1>9 DEF rest

LEMMA Successor == \A n \in Nat : n + 1 \in Nat /\ n <= n + 1 /\ n + 1 <= n + 1
OBVIOUS

LEMMA ValueKeeps ==
    ASSUME IsSchema(schema),
           NEW s \in [stack : Seq(Frames), run : Nat], Below(s.stack), ~ IsDone(s),
           Top(s) \in ValueFrames,
           NEW c, s.run = 0 \/ c = " ",
           NEW t \in OpenValue([s EXCEPT !.stack = Front(@)], Top(s).node, c)
    PROVE  Good(t, t.run) /\ t.run = s.run
<1>a. ASSUME NEW n \in DOMAIN schema.nodes, NEW v \in [stack : Seq(Frames), run : Nat],
             Below(v.stack), IsDone(v) \/ Holds(Top(v)), v.run = 0 \/ c = " ",
             NEW w \in OpenValue(v, n, c)
      PROVE  Good(w, w.run) /\ w.run = v.run
  BY <1>a, OpenKeeps
<1> DEFINE rest == Front(s.stack)
           u == [s EXCEPT !.stack = rest]
           node == Top(s).node
<1>1. s.stack \in Seq(Frames) /\ s.stack # << >>
  BY DEF IsDone
<1>2. /\ rest \in Seq(Frames) /\ Len(rest) = Len(s.stack) - 1
      /\ \A i \in 1..Len(s.stack) - 1 : rest[i] = s.stack[i]
      /\ Len(s.stack) \in Nat \ {0}
  <2> HIDE DEF rest
  <2>1. QED
    BY <1>1, StackIs DEF rest
<1>3. node \in DOMAIN schema.nodes
  BY DEF ValueFrames
<1>4. t \in OpenValue(u, node, c)
  OBVIOUS
<1> HIDE DEF rest, node
<1>5. u \in [stack : Seq(Frames), run : Nat] /\ u.run = s.run /\ u.stack = rest
  BY <1>2
<1> HIDE DEF u
<1>6. Below(rest) /\ (rest # << >> => Holds(Last(rest)))
  BY <1>1, TheRestHolds DEF rest
<1>7. Below(u.stack)
  BY <1>5, <1>6
<1>8. IsDone(u) \/ Holds(Top(u))
  BY <1>5, <1>6, Zenon DEF IsDone, Top
<1>9. u.run = 0 \/ c = " "
  BY <1>5
<1>11. QED
  BY <1>3, <1>4, <1>5, <1>7, <1>8, <1>9, <1>a

LEMMA FeedOpenKeeps ==
    ASSUME IsSchema(schema), NEW r \in Nat,
           NEW s \in [stack : Seq(Frames), run : Nat], Below(s.stack),
           IsDone(s) \/ (Holds(Top(s)) /\ Unread(Top(s), r)),
           NEW c, s.run = 0 \/ (c = " " /\ s.run <= r + 1), NEW t \in FeedOpen(s, c)
    PROVE  Good(t, t.run) /\ t.run = s.run
<1>1. CASE IsDone(s)
  <2>1. t = s
    BY <1>1 DEF FeedOpen
  <2>2. QED
    BY <1>1, <2>1 DEF Good
<1>2. CASE ~ IsDone(s)
  <2>1. Top(s) \in Frames
    <3>1. s.stack \in Seq(Frames) /\ s.stack # << >>
      BY <1>2 DEF IsDone
    <3>2. QED
      BY <3>1, StackIs DEF Top
  <2>2. Holds(Top(s)) /\ Unread(Top(s), r)
    BY <1>2
  <2>3. CASE Top(s).kind = "object"
    <3>1. t \in FeedObject(s, c)
      BY <1>2, <2>3 DEF FeedOpen
    <3>2. Top(s) \in ObjectFrames
      BY <2>1, <2>3, KindIs
    <3>3. QED
      BY <1>2, <2>2, <3>1, <3>2, ObjectKeeps
  <2>4. CASE Top(s).kind = "array"
    <3>1. t \in FeedArray(s, c)
      BY <1>2, <2>4 DEF FeedOpen
    <3>2. Top(s) \in ArrayFrames
      BY <2>1, <2>4, KindIs
    <3>3. s.run = 0 \/ c = " "
      OBVIOUS
    <3>4. QED
      BY <1>2, <2>2, <3>1, <3>2, <3>3, ArrayKeeps
  <2>5. QED
    BY <2>2, <2>3, <2>4 DEF Holds
<1>3. QED
  BY <1>1, <1>2

LEMMA FeedNumberKeeps ==
    ASSUME IsSchema(schema),
           NEW s \in [stack : Seq(Frames), run : Nat], Below(s.stack), ~ IsDone(s),
           Top(s) \in NumberFrames, NEW c, s.run = 0 \/ c = " ", NEW t \in FeedNumber(s, c)
    PROVE  Good(t, t.run) /\ t.run = s.run
<1> DEFINE u == Closed(s)
<1>1. (\E g \in NumberNext(Top(s), c) : t = WithTop(s, g)) \/ t \in FeedOpen(u, c)
  BY DEF FeedNumber
<1>2. CASE \E g \in NumberNext(Top(s), c) : t = WithTop(s, g)
  <2>1. PICK g \in NumberNext(Top(s), c) : t = WithTop(s, g)
    BY <1>2
  <2>2. g \in NumberFrames
    BY NumberKeeps
  <2>3. g \in Frames /\ Unread(g, s.run)
    BY <2>2 DEF NumberFrames, Frames, Unread
  <2>4. QED
    BY <2>1, <2>3, TopGood
<1>3. CASE t \in FeedOpen(u, c)
  <2>1. Good(u, s.run) /\ u.run = s.run
    BY ClosedGood
  <2>2. IsDone(u) \/ Holds(Top(u))
    <3> DEFINE rest == Front(s.stack)
    <3>1. IsDone(u) <=> rest = << >>
      BY ClosedIs
    <3>2. rest # << >> => Last(rest) \in Frames /\ Holds(Last(rest)) /\ Top(u) = Learnt(Last(rest))
      BY ClosedIs
    <3> HIDE DEF rest, u
    <3>3. rest # << >> => Learnt(Last(rest)).kind = Last(rest).kind
      BY <3>2, LearntIs
    <3>4. QED
      BY <3>1, <3>2, <3>3 DEF Holds
  <2> HIDE DEF u
  <2>3. u \in [stack : Seq(Frames), run : Nat] /\ Below(u.stack) /\ (~ IsDone(u) => Unread(Top(u), s.run))
    BY <2>1 DEF Good
  <2>4. s.run \in Nat /\ (u.run = 0 \/ (c = " " /\ u.run <= s.run + 1))
    <3>1. s.run \in Nat
      OBVIOUS
    <3>2. QED
      BY <2>1, <3>1, Successor, Zenon
  <2>5. QED
    BY <1>3, <2>1, <2>2, <2>3, <2>4, FeedOpenKeeps
<1>4. QED
  BY <1>1, <1>2, <1>3

\* What one character leads to, once the spaces are counted.
LEMMA FrameKeeps ==
    ASSUME IsSchema(schema), NEW r \in Nat,
           NEW s \in [stack : Seq(Frames), run : Nat], Below(s.stack), ~ IsDone(s) => Unread(Top(s), r),
           NEW c, s.run = 0 \/ (c = " " /\ s.run <= r + 1), NEW t \in FeedFrame(s, c)
    PROVE  Good(t, t.run)
<1>1. s.run = 0 \/ c = " "
  OBVIOUS
<1>2. CASE IsDone(s)
  <2>1. t \in FeedOpen(s, c)
    BY <1>2 DEF FeedFrame
  <2>2. QED
    BY <1>2, <2>1, FeedOpenKeeps
<1>3. CASE ~ IsDone(s)
  <2> DEFINE f == Top(s)
  <2>1. f \in Frames
    <3>1. s.stack \in Seq(Frames) /\ s.stack # << >>
      BY <1>3 DEF IsDone
    <3>2. QED
      BY <3>1, StackIs DEF Top
  <2>2. Unread(f, r)
    BY <1>3
  <2>3. CASE f.kind = "value"
    <3>1. f \in ValueFrames
      BY <2>1, <2>3, KindIs
    <3>2. CASE c = " "
      <4>1. t = s
        BY <1>3, <2>3, <3>2 DEF FeedFrame
      <4>2. Unread(f, s.run)
        BY <2>2, <2>3, StillFresh
      <4>3. QED
        BY <4>1, <4>2 DEF Good
    <3>3. CASE c # " "
      <4>1. t \in OpenValue([s EXCEPT !.stack = Front(@)], f.node, c)
        BY <1>3, <2>3, <3>3 DEF FeedFrame
      <4>2. QED
        BY <1>1, <1>3, <3>1, <4>1, ValueKeeps
    <3>4. QED
      BY <3>2, <3>3
  <2>4. CASE f.kind \in {"object", "array"}
    <3>1. t \in FeedOpen(s, c)
      BY <1>3, <2>4 DEF FeedFrame
    <3>2. QED
      BY <2>2, <2>4, <3>1, FeedOpenKeeps DEF Holds
  <2>5. CASE f.kind = "text"
    <3>1. f \in TextFrames /\ t \in FeedText(s, c)
      BY <1>3, <2>1, <2>5, KindIs DEF FeedFrame
    <3>2. QED
      BY <1>3, <3>1, TextKeeps
  <2>6. CASE f.kind = "choice"
    <3>1. f \in ChoiceFrames /\ t \in FeedChoice(s, c)
      BY <1>3, <2>1, <2>6, KindIs DEF FeedFrame
    <3>2. QED
      BY <1>3, <2>2, <3>1, ChoiceKeeps
  <2>7. CASE f.kind = "literal"
    <3>1. f \in LiteralFrames /\ t \in LiteralNext(s, c)
      BY <1>3, <2>1, <2>7, KindIs DEF FeedFrame
    <3>2. \A l \in f.candidates : f.progress < Len(l)
      BY <2>2, <2>7 DEF Unread
    <3>3. QED
      BY <1>3, <3>1, <3>2, LiteralKeeps
  <2>8. CASE f.kind = "number"
    <3>1. f \in NumberFrames /\ t \in FeedNumber(s, c)
      BY <1>3, <2>1, <2>8, KindIs DEF FeedFrame
    <3>2. QED
      BY <1>1, <1>3, <3>1, FeedNumberKeeps
  <2>9. QED
    BY <2>1, <2>3, <2>4, <2>5, <2>6, <2>7, <2>8, KindIs
<1>4. QED
  BY <1>2, <1>3

LEMMA CharKeeps ==
    ASSUME MaxSpaces \in Nat, IsSchema(schema), NEW s, Good(s, s.run), NEW c, NEW t \in FeedChar(s, c)
    PROVE  Good(t, t.run)
<1>1. PICK u \in Counted(s, c) : t \in FeedFrame(u, c)
  BY DEF FeedChar
<1>2. /\ s \in [stack : Seq(Frames), run : Nat] /\ s.run \in Nat /\ Below(s.stack)
      /\ ~ IsDone(s) => Unread(Top(s), s.run)
  BY DEF Good
<1>3. ASSUME NEW n \in Nat, u = [s EXCEPT !.run = n], n = 0 \/ (c = " " /\ n <= s.run + 1)
      PROVE  Good(t, t.run)
  <2>1. u \in [stack : Seq(Frames), run : Nat] /\ u.run = n /\ u.stack = s.stack
    BY <1>2, <1>3
  <2>2. Below(u.stack) /\ (~ IsDone(u) => Unread(Top(u), s.run))
    BY <1>2, <2>1, Zenon DEF IsDone, Top
  <2>3. u.run = 0 \/ (c = " " /\ u.run <= s.run + 1)
    BY <1>3, <2>1
  <2>4. QED
    BY <1>1, <1>2, <2>1, <2>2, <2>3, FrameKeeps
<1>4. \/ u = [s EXCEPT !.run = 0]
      \/ c = " " /\ u = s
      \/ c = " " /\ u = [s EXCEPT !.run = s.run + 1]
  BY <1>1 DEF Counted
<1>5. CASE u = [s EXCEPT !.run = 0]
  BY <1>3, <1>5
<1>6. CASE c = " " /\ u = s
  <2>1. u = [s EXCEPT !.run = s.run]
    BY <1>2, <1>6
  <2>2. QED
    BY <1>2, <1>3, <1>6, <2>1, Successor, Zenon
<1>7. CASE c = " " /\ u = [s EXCEPT !.run = s.run + 1]
  <2>1. QED
    BY <1>2, <1>3, <1>7, Successor, Zenon
<1>8. QED
  BY <1>4, <1>5, <1>6, <1>7

-----------------------------------------------------------------------------
(* The theorem *)

LEMMA AutomatonStarts ==
    ASSUME \A c \in Cases : IsSchema(c) /\ c.root \in DOMAIN c.nodes /\ SpelledTight(c)
    PROVE  GrammarInit => AutomatonInv
<1> SUFFICES ASSUME GrammarInit PROVE AutomatonInv
  OBVIOUS
<1>1. IsSchema(schema) /\ SpelledTight(schema)
  BY DEF GrammarInit
<1> DEFINE f == ValueFrame(schema.root)
<1>2. state = [stack |-> << f >>, run |-> 0]
  BY DEF GrammarInit, StartAt
<1>3. f \in Frames /\ Unread(f, 0)
  <2>1. schema.root \in DOMAIN schema.nodes
    BY DEF GrammarInit
  <2>2. f \in ValueFrames /\ f.kind = "value"
    BY <2>1 DEF ValueFrame, ValueFrames
  <2> HIDE DEF f
  <2>3. QED
    BY <2>2 DEF Frames, Unread
<1> HIDE DEF f
<1>4. state \in [stack : Seq(Frames), run : Nat] /\ state.run = 0 /\ state.stack = << f >>
  BY <1>2, <1>3
<1>5. Top(state) = f
  BY <1>4 DEF Top, Last
<1>6. Below(state.stack)
  BY <1>4 DEF Below
<1>7. QED
  BY <1>1, <1>3, <1>4, <1>5, <1>6 DEF AutomatonInv, Good

LEMMA AutomatonStays ==
    ASSUME MaxSpaces \in Nat
    PROVE  AutomatonInv /\ [Write]_gvars => AutomatonInv'
<1> SUFFICES ASSUME AutomatonInv, [Write]_gvars PROVE AutomatonInv'
  OBVIOUS
<1>1. schema' = schema
  BY DEF Write, gvars
<1>2. IsSchema(schema) /\ Good(state, state.run)
  BY DEF AutomatonInv
<1>3. Good(state', state'.run)
  <2>1. CASE Write
    <3>1. PICK c \in schema.chars : \E s \in FeedChar(state, c) : state' = s
      BY <2>1 DEF Write
    <3>2. state' \in FeedChar(state, c)
      BY <3>1
    <3>3. ASSUME NEW t \in FeedChar(state, c) PROVE Good(t, t.run)
      BY <1>2, <3>3, CharKeeps
    <3>4. QED
      BY <3>2, <3>3
  <2>2. CASE UNCHANGED gvars
    BY <1>2, <2>2 DEF gvars
  <2>3. QED
    BY <2>1, <2>2
<1>4. /\ \A n : Node(n)' = Node(n)
      /\ \A kind : Nodes(kind)' = Nodes(kind)
  BY <1>1 DEF Node, Nodes
<1>5. \A f : Fields(f)' = Fields(f)
  BY <1>4 DEF Fields
<1>6. /\ ValueFrames' = ValueFrames /\ ArrayFrames' = ArrayFrames /\ TextFrames' = TextFrames
      /\ LiteralFrames' = LiteralFrames /\ NumberFrames' = NumberFrames
  BY <1>1, <1>4 DEF ValueFrames, ArrayFrames, TextFrames, LiteralFrames, NumberFrames
<1>7. ObjectFrames' = ObjectFrames
  BY <1>4, <1>5 DEF ObjectFrames
<1>8. ChoiceFrames' = ChoiceFrames
  BY <1>4 DEF ChoiceFrames
<1>9. Frames' = Frames
  BY <1>6, <1>7, <1>8 DEF Frames
<1>10. \A f, run : Unread(f, run)' = Unread(f, run)
  BY <1>5 DEF Unread
<1>11. \A s, run : Good(s, run)' = Good(s, run)
  BY <1>9, <1>10 DEF Good
<1>12. IsSchema(schema') /\ SpelledTight(schema')
  BY <1>1 DEF AutomatonInv
<1>13. QED
  BY <1>3, <1>11, <1>12 DEF AutomatonInv

\* What a mask offers is what the automaton takes, in every state generation
\* reaches, whatever the schema: for every bound on texts, arrays, numbers and
\* look-ahead, and for schemas whose spellings keep to the bound on spaces.
THEOREM OfferedIsTaken ==
    ASSUME MaxSpaces \in Nat,
           \A c \in Cases : IsSchema(c) /\ c.root \in DOMAIN c.nodes /\ SpelledTight(c)
    PROVE  GrammarSpec => []MaskIsTheAutomaton
<1>1. GrammarInit => AutomatonInv
  BY AutomatonStarts
<1>2. AutomatonInv /\ [Write]_gvars => AutomatonInv'
  BY AutomatonStays
<1>3. AutomatonInv => MaskIsTheAutomaton
  BY MaskIsWhatIsTaken DEF AutomatonInv, MaskIsTheAutomaton
<1>4. QED
  BY <1>1, <1>2, <1>3, PTL DEF GrammarSpec

-----------------------------------------------------------------------------
(* Recursive functions along a sequence *)

\* Induction over the numbers of a set, which a lemma can be given.
LEMMA ByInduction ==
    ASSUME NEW S \in SUBSET Nat, 0 \in S, \A n \in S : n + 1 \in S
    PROVE  S = Nat
<1> DEFINE Left == Nat \ S
<1>1. Left = {}
  <2> SUFFICES ASSUME Left # {} PROVE FALSE
    OBVIOUS
  <2>1. PICK m \in Left : \A k \in Left : ~ (<<k, m>> \in OpToRel(<, Nat))
    BY WFMin, NatLessThanWellFounded, Zenon
  <2>2. \A k \in Left : ~ (k < m)
    BY <2>1, Zenon DEF OpToRel
  <2>3. m \in Nat /\ m # 0 /\ m - 1 \in Nat
    OBVIOUS
  <2>4. m - 1 \in S
    BY <2>2, <2>3
  <2>5. (m - 1) + 1 = m
    BY <2>3
  <2> QED BY <2>3, <2>4, <2>5
<1> QED BY <1>1

\* The function by which Advance reads the first N characters of a token.
Reaching(s, token, f, N) ==
    f = [n \in 0..N |-> IF n = 0 THEN {s} ELSE UNION {Swallow(r, token[n]) : r \in f[n - 1]}]

LEMMA ReachingThere ==
    ASSUME NEW s, NEW token, NEW N \in Nat
    PROVE  \E f : Reaching(s, token, f, N)
<1> DEFINE S == {n \in Nat : \E f : Reaching(s, token, f, n)}
<1>1. 0 \in S
  <2> DEFINE f == [n \in 0..0 |-> {s}]
  <2>1. \A n \in 0..0 : n = 0
    OBVIOUS
  <2>2. Reaching(s, token, f, 0)
    BY <2>1 DEF Reaching
  <2> QED BY <2>2
<1>2. ASSUME NEW n \in S PROVE n + 1 \in S
  <2>1. PICK f : Reaching(s, token, f, n)
    OBVIOUS
  <2> DEFINE next == UNION {Swallow(r, token[n + 1]) : r \in f[n]}
             longer == [k \in 0..n + 1 |-> IF k = n + 1 THEN next ELSE f[k]]
  <2>2. \A k \in 0..n : f[k] = (IF k = 0 THEN {s} ELSE UNION {Swallow(r, token[k]) : r \in f[k - 1]})
    BY <2>1, Zenon DEF Reaching
  <2>3. ASSUME NEW k \in 0..n + 1
        PROVE  longer[k] = (IF k = 0 THEN {s} ELSE UNION {Swallow(r, token[k]) : r \in longer[k - 1]})
    <3>1. CASE k = n + 1
      <4>1. k # 0 /\ k - 1 = n /\ k - 1 \in 0..n + 1 /\ k - 1 # n + 1
        BY <3>1
      <4>2. longer[k] = next /\ longer[k - 1] = f[n]
        BY <3>1, <4>1
      <4> HIDE DEF longer
      <4> QED BY <3>1, <4>1, <4>2, Zenon
    <3>2. CASE k # n + 1
      <4>1. k \in 0..n
        BY <3>2
      <4>2. k # 0 => k - 1 \in 0..n + 1 /\ k - 1 # n + 1
        BY <3>2
      <4>3. longer[k] = f[k] /\ (k # 0 => longer[k - 1] = f[k - 1])
        BY <3>2, <4>2
      <4> HIDE DEF longer
      <4> QED BY <2>2, <4>1, <4>3, Zenon
    <3> QED BY <3>1, <3>2
  <2>4. longer = [k \in 0..n + 1 |-> longer[k]]
    OBVIOUS
  <2> HIDE DEF longer
  <2>5. Reaching(s, token, longer, n + 1)
    BY <2>3, <2>4, Zenon DEF Reaching
  <2> QED BY <2>5
<1> HIDE DEF S
<1>3. S = Nat
  BY <1>1, <1>2, ByInduction DEF S
<1> QED BY <1>3 DEF S

LEMMA ReachingStep ==
    ASSUME NEW s, NEW token, NEW N \in Nat, NEW f, Reaching(s, token, f, N)
    PROVE  /\ f[0] = {s}
           /\ \A n \in 1..N : f[n] = UNION {Swallow(r, token[n]) : r \in f[n - 1]}
<1>1. \A n \in 0..N : f[n] = (IF n = 0 THEN {s} ELSE UNION {Swallow(r, token[n]) : r \in f[n - 1]})
  BY Zenon DEF Reaching
<1>2. 0 \in 0..N /\ \A n \in 1..N : n \in 0..N /\ n # 0
  OBVIOUS
<1> QED BY <1>1, <1>2, Zenon

\* The function by which RemainderConforms feeds them to the automaton.
Going(root, rest, f, N) ==
    f = [n \in 0..N |-> IF n = 0 THEN {StartAt(root)} ELSE UNION {FeedChar(g, rest[n]) : g \in f[n - 1]}]

LEMMA GoingThere ==
    ASSUME NEW root, NEW rest, NEW N \in Nat
    PROVE  \E f : Going(root, rest, f, N)
<1> DEFINE S == {n \in Nat : \E f : Going(root, rest, f, n)}
<1>1. 0 \in S
  <2> DEFINE f == [n \in 0..0 |-> {StartAt(root)}]
  <2>1. \A n \in 0..0 : n = 0
    OBVIOUS
  <2>2. Going(root, rest, f, 0)
    BY <2>1 DEF Going
  <2> QED BY <2>2
<1>2. ASSUME NEW n \in S PROVE n + 1 \in S
  <2>1. PICK f : Going(root, rest, f, n)
    OBVIOUS
  <2> DEFINE next == UNION {FeedChar(g, rest[n + 1]) : g \in f[n]}
             longer == [k \in 0..n + 1 |-> IF k = n + 1 THEN next ELSE f[k]]
  <2>2. \A k \in 0..n : f[k] = (IF k = 0 THEN {StartAt(root)} ELSE UNION {FeedChar(g, rest[k]) : g \in f[k - 1]})
    BY <2>1, Zenon DEF Going
  <2>3. ASSUME NEW k \in 0..n + 1
        PROVE  longer[k] = (IF k = 0 THEN {StartAt(root)} ELSE UNION {FeedChar(g, rest[k]) : g \in longer[k - 1]})
    <3>1. CASE k = n + 1
      <4>1. k # 0 /\ k - 1 = n /\ k - 1 \in 0..n + 1 /\ k - 1 # n + 1
        BY <3>1
      <4>2. longer[k] = next /\ longer[k - 1] = f[n]
        BY <3>1, <4>1
      <4> HIDE DEF longer
      <4> QED BY <3>1, <4>1, <4>2, Zenon
    <3>2. CASE k # n + 1
      <4>1. k \in 0..n
        BY <3>2
      <4>2. k # 0 => k - 1 \in 0..n + 1 /\ k - 1 # n + 1
        BY <3>2
      <4>3. longer[k] = f[k] /\ (k # 0 => longer[k - 1] = f[k - 1])
        BY <3>2, <4>2
      <4> HIDE DEF longer
      <4> QED BY <2>2, <4>1, <4>3, Zenon
    <3> QED BY <3>1, <3>2
  <2>4. longer = [k \in 0..n + 1 |-> longer[k]]
    OBVIOUS
  <2> HIDE DEF longer
  <2>5. Going(root, rest, longer, n + 1)
    BY <2>3, <2>4, Zenon DEF Going
  <2> QED BY <2>5
<1> HIDE DEF S
<1>3. S = Nat
  BY <1>1, <1>2, ByInduction DEF S
<1> QED BY <1>3 DEF S

LEMMA GoingStep ==
    ASSUME NEW root, NEW rest, NEW N \in Nat, NEW f, Going(root, rest, f, N)
    PROVE  /\ f[0] = {StartAt(root)}
           /\ \A n \in 1..N : f[n] = UNION {FeedChar(g, rest[n]) : g \in f[n - 1]}
<1>1. \A n \in 0..N : f[n] = (IF n = 0 THEN {StartAt(root)} ELSE UNION {FeedChar(g, rest[n]) : g \in f[n - 1]})
  BY Zenon DEF Going
<1>2. 0 \in 0..N /\ \A n \in 1..N : n \in 0..N /\ n # 0
  OBVIOUS
<1> QED BY <1>1, <1>2, Zenon

\* The function by which the mask walks along them.
Walking(begin, token, f, N) ==
    f = [n \in 0..N |-> IF n = 0 THEN {begin} ELSE UNION {Walk(h, token[n]) : h \in f[n - 1]}]

LEMMA WalkingThere ==
    ASSUME NEW begin, NEW token, NEW N \in Nat
    PROVE  \E f : Walking(begin, token, f, N)
<1> DEFINE S == {n \in Nat : \E f : Walking(begin, token, f, n)}
<1>1. 0 \in S
  <2> DEFINE f == [n \in 0..0 |-> {begin}]
  <2>1. \A n \in 0..0 : n = 0
    OBVIOUS
  <2>2. Walking(begin, token, f, 0)
    BY <2>1 DEF Walking
  <2> QED BY <2>2
<1>2. ASSUME NEW n \in S PROVE n + 1 \in S
  <2>1. PICK f : Walking(begin, token, f, n)
    OBVIOUS
  <2> DEFINE next == UNION {Walk(h, token[n + 1]) : h \in f[n]}
             longer == [k \in 0..n + 1 |-> IF k = n + 1 THEN next ELSE f[k]]
  <2>2. \A k \in 0..n : f[k] = (IF k = 0 THEN {begin} ELSE UNION {Walk(h, token[k]) : h \in f[k - 1]})
    BY <2>1, Zenon DEF Walking
  <2>3. ASSUME NEW k \in 0..n + 1
        PROVE  longer[k] = (IF k = 0 THEN {begin} ELSE UNION {Walk(h, token[k]) : h \in longer[k - 1]})
    <3>1. CASE k = n + 1
      <4>1. k # 0 /\ k - 1 = n /\ k - 1 \in 0..n + 1 /\ k - 1 # n + 1
        BY <3>1
      <4>2. longer[k] = next /\ longer[k - 1] = f[n]
        BY <3>1, <4>1
      <4> HIDE DEF longer
      <4> QED BY <3>1, <4>1, <4>2, Zenon
    <3>2. CASE k # n + 1
      <4>1. k \in 0..n
        BY <3>2
      <4>2. k # 0 => k - 1 \in 0..n + 1 /\ k - 1 # n + 1
        BY <3>2
      <4>3. longer[k] = f[k] /\ (k # 0 => longer[k - 1] = f[k - 1])
        BY <3>2, <4>2
      <4> HIDE DEF longer
      <4> QED BY <2>2, <4>1, <4>3, Zenon
    <3> QED BY <3>1, <3>2
  <2>4. longer = [k \in 0..n + 1 |-> longer[k]]
    OBVIOUS
  <2> HIDE DEF longer
  <2>5. Walking(begin, token, longer, n + 1)
    BY <2>3, <2>4, Zenon DEF Walking
  <2> QED BY <2>5
<1> HIDE DEF S
<1>3. S = Nat
  BY <1>1, <1>2, ByInduction DEF S
<1> QED BY <1>3 DEF S

LEMMA WalkingStep ==
    ASSUME NEW begin, NEW token, NEW N \in Nat, NEW f, Walking(begin, token, f, N)
    PROVE  /\ f[0] = {begin}
           /\ \A n \in 1..N : f[n] = UNION {Walk(h, token[n]) : h \in f[n - 1]}
<1>1. \A n \in 0..N : f[n] = (IF n = 0 THEN {begin} ELSE UNION {Walk(h, token[n]) : h \in f[n - 1]})
  BY Zenon DEF Walking
<1>2. 0 \in 0..N /\ \A n \in 1..N : n \in 0..N /\ n # 0
  OBVIOUS
<1> QED BY <1>1, <1>2, Zenon

\* The function by which CallWatch reads them.
Reading(w, text, f, N) ==
    f = [n \in 0..N |-> IF n = 0 THEN w ELSE ReadChar(f[n - 1], text[n])]

LEMMA ReadingThere ==
    ASSUME NEW w, NEW text, NEW N \in Nat
    PROVE  \E f : Reading(w, text, f, N)
<1> DEFINE S == {n \in Nat : \E f : Reading(w, text, f, n)}
<1>1. 0 \in S
  <2> DEFINE f == [n \in 0..0 |-> w]
  <2>1. \A n \in 0..0 : n = 0
    OBVIOUS
  <2>2. Reading(w, text, f, 0)
    BY <2>1 DEF Reading
  <2> QED BY <2>2
<1>2. ASSUME NEW n \in S PROVE n + 1 \in S
  <2>1. PICK f : Reading(w, text, f, n)
    OBVIOUS
  <2> DEFINE next == ReadChar(f[n], text[n + 1])
             longer == [k \in 0..n + 1 |-> IF k = n + 1 THEN next ELSE f[k]]
  <2>2. \A k \in 0..n : f[k] = (IF k = 0 THEN w ELSE ReadChar(f[k - 1], text[k]))
    BY <2>1, Zenon DEF Reading
  <2>3. ASSUME NEW k \in 0..n + 1
        PROVE  longer[k] = (IF k = 0 THEN w ELSE ReadChar(longer[k - 1], text[k]))
    <3>1. CASE k = n + 1
      <4>1. k # 0 /\ k - 1 = n /\ k - 1 \in 0..n + 1 /\ k - 1 # n + 1
        BY <3>1
      <4>2. longer[k] = next /\ longer[k - 1] = f[n]
        BY <3>1, <4>1
      <4> HIDE DEF longer
      <4> QED BY <3>1, <4>1, <4>2, Zenon
    <3>2. CASE k # n + 1
      <4>1. k \in 0..n
        BY <3>2
      <4>2. k # 0 => k - 1 \in 0..n + 1 /\ k - 1 # n + 1
        BY <3>2
      <4>3. longer[k] = f[k] /\ (k # 0 => longer[k - 1] = f[k - 1])
        BY <3>2, <4>2
      <4> HIDE DEF longer
      <4> QED BY <2>2, <4>1, <4>3, Zenon
    <3> QED BY <3>1, <3>2
  <2>4. longer = [k \in 0..n + 1 |-> longer[k]]
    OBVIOUS
  <2> HIDE DEF longer
  <2>5. Reading(w, text, longer, n + 1)
    BY <2>3, <2>4, Zenon DEF Reading
  <2> QED BY <2>5
<1> HIDE DEF S
<1>3. S = Nat
  BY <1>1, <1>2, ByInduction DEF S
<1> QED BY <1>3 DEF S

LEMMA ReadingStep ==
    ASSUME NEW w, NEW text, NEW N \in Nat, NEW f, Reading(w, text, f, N)
    PROVE  /\ f[0] = w
           /\ \A n \in 1..N : f[n] = ReadChar(f[n - 1], text[n])
<1>1. \A n \in 0..N : f[n] = (IF n = 0 THEN w ELSE ReadChar(f[n - 1], text[n]))
  BY Zenon DEF Reading
<1>2. 0 \in 0..N /\ \A n \in 1..N : n \in 0..N /\ n # 0
  OBVIOUS
<1> QED BY <1>1, <1>2, Zenon

\* The function by which they are decoded.
Joining(text, f, N) ==
    f = [n \in 0..N |-> IF n = 0 THEN <<>> ELSE Joined(f[n - 1], text[n])]

LEMMA JoiningThere ==
    ASSUME NEW text, NEW N \in Nat
    PROVE  \E f : Joining(text, f, N)
<1> DEFINE S == {n \in Nat : \E f : Joining(text, f, n)}
<1>1. 0 \in S
  <2> DEFINE f == [n \in 0..0 |-> <<>>]
  <2>1. \A n \in 0..0 : n = 0
    OBVIOUS
  <2>2. Joining(text, f, 0)
    BY <2>1 DEF Joining
  <2> QED BY <2>2
<1>2. ASSUME NEW n \in S PROVE n + 1 \in S
  <2>1. PICK f : Joining(text, f, n)
    OBVIOUS
  <2> DEFINE next == Joined(f[n], text[n + 1])
             longer == [k \in 0..n + 1 |-> IF k = n + 1 THEN next ELSE f[k]]
  <2>2. \A k \in 0..n : f[k] = (IF k = 0 THEN <<>> ELSE Joined(f[k - 1], text[k]))
    BY <2>1, Zenon DEF Joining
  <2>3. ASSUME NEW k \in 0..n + 1
        PROVE  longer[k] = (IF k = 0 THEN <<>> ELSE Joined(longer[k - 1], text[k]))
    <3>1. CASE k = n + 1
      <4>1. k # 0 /\ k - 1 = n /\ k - 1 \in 0..n + 1 /\ k - 1 # n + 1
        BY <3>1
      <4>2. longer[k] = next /\ longer[k - 1] = f[n]
        BY <3>1, <4>1
      <4> HIDE DEF longer
      <4> QED BY <3>1, <4>1, <4>2, Zenon
    <3>2. CASE k # n + 1
      <4>1. k \in 0..n
        BY <3>2
      <4>2. k # 0 => k - 1 \in 0..n + 1 /\ k - 1 # n + 1
        BY <3>2
      <4>3. longer[k] = f[k] /\ (k # 0 => longer[k - 1] = f[k - 1])
        BY <3>2, <4>2
      <4> HIDE DEF longer
      <4> QED BY <2>2, <4>1, <4>3, Zenon
    <3> QED BY <3>1, <3>2
  <2>4. longer = [k \in 0..n + 1 |-> longer[k]]
    OBVIOUS
  <2> HIDE DEF longer
  <2>5. Joining(text, longer, n + 1)
    BY <2>3, <2>4, Zenon DEF Joining
  <2> QED BY <2>5
<1> HIDE DEF S
<1>3. S = Nat
  BY <1>1, <1>2, ByInduction DEF S
<1> QED BY <1>3 DEF S

LEMMA JoiningStep ==
    ASSUME NEW text, NEW N \in Nat, NEW f, Joining(text, f, N)
    PROVE  /\ f[0] = <<>>
           /\ \A n \in 1..N : f[n] = Joined(f[n - 1], text[n])
<1>1. \A n \in 0..N : f[n] = (IF n = 0 THEN <<>> ELSE Joined(f[n - 1], text[n]))
  BY Zenon DEF Joining
<1>2. 0 \in 0..N /\ \A n \in 1..N : n \in 0..N /\ n # 0
  OBVIOUS
<1> QED BY <1>1, <1>2, Zenon

\* The function by which the escapes of a spelling are found.
EscapingIn(word, f, N) ==
    f = [n \in 0..N |-> IF n = 0 THEN FALSE ELSE (~f[n - 1] /\ word[n] = "\\")]

LEMMA EscapingThere ==
    ASSUME NEW word, NEW N \in Nat
    PROVE  \E f : EscapingIn(word, f, N)
<1> DEFINE S == {n \in Nat : \E f : EscapingIn(word, f, n)}
<1>1. 0 \in S
  <2> DEFINE f == [n \in 0..0 |-> FALSE]
  <2>1. \A n \in 0..0 : n = 0
    OBVIOUS
  <2>2. EscapingIn(word, f, 0)
    BY <2>1 DEF EscapingIn
  <2> QED BY <2>2
<1>2. ASSUME NEW n \in S PROVE n + 1 \in S
  <2>1. PICK f : EscapingIn(word, f, n)
    OBVIOUS
  <2> DEFINE next == (~f[n] /\ word[n + 1] = "\\")
             longer == [k \in 0..n + 1 |-> IF k = n + 1 THEN next ELSE f[k]]
  <2>2. \A k \in 0..n : f[k] = (IF k = 0 THEN FALSE ELSE (~f[k - 1] /\ word[k] = "\\"))
    BY <2>1, Zenon DEF EscapingIn
  <2>3. ASSUME NEW k \in 0..n + 1
        PROVE  longer[k] = (IF k = 0 THEN FALSE ELSE (~longer[k - 1] /\ word[k] = "\\"))
    <3>1. CASE k = n + 1
      <4>1. k # 0 /\ k - 1 = n /\ k - 1 \in 0..n + 1 /\ k - 1 # n + 1
        BY <3>1
      <4>2. longer[k] = next /\ longer[k - 1] = f[n]
        BY <3>1, <4>1
      <4> HIDE DEF longer
      <4> QED BY <3>1, <4>1, <4>2, Zenon
    <3>2. CASE k # n + 1
      <4>1. k \in 0..n
        BY <3>2
      <4>2. k # 0 => k - 1 \in 0..n + 1 /\ k - 1 # n + 1
        BY <3>2
      <4>3. longer[k] = f[k] /\ (k # 0 => longer[k - 1] = f[k - 1])
        BY <3>2, <4>2
      <4> HIDE DEF longer
      <4> QED BY <2>2, <4>1, <4>3, Zenon
    <3> QED BY <3>1, <3>2
  <2>4. longer = [k \in 0..n + 1 |-> longer[k]]
    OBVIOUS
  <2> HIDE DEF longer
  <2>5. EscapingIn(word, longer, n + 1)
    BY <2>3, <2>4, Zenon DEF EscapingIn
  <2> QED BY <2>5
<1> HIDE DEF S
<1>3. S = Nat
  BY <1>1, <1>2, ByInduction DEF S
<1> QED BY <1>3 DEF S

LEMMA EscapingStep ==
    ASSUME NEW word, NEW N \in Nat, NEW f, EscapingIn(word, f, N)
    PROVE  /\ f[0] = FALSE
           /\ \A n \in 1..N : f[n] = (~f[n - 1] /\ word[n] = "\\")
<1>1. \A n \in 0..N : f[n] = (IF n = 0 THEN FALSE ELSE (~f[n - 1] /\ word[n] = "\\"))
  BY Zenon DEF EscapingIn
<1>2. 0 \in 0..N /\ \A n \in 1..N : n \in 0..N /\ n # 0
  OBVIOUS
<1> QED BY <1>1, <1>2, Zenon

\* Advance is that function at the last character.
LEMMA AdvanceIs ==
    ASSUME NEW s, NEW token, Len(token) \in Nat
    PROVE  \E f : Reaching(s, token, f, Len(token)) /\ Advance(s, token) = f[Len(token)]
<1> DEFINE chosen == CHOOSE f : Reaching(s, token, f, Len(token))
<1>1. Reaching(s, token, chosen, Len(token))
  BY ReachingThere
<1>2. Advance(s, token) = chosen[Len(token)]
  BY Zenon DEF Advance, Reaching
<1> HIDE DEF chosen
<1> QED BY <1>1, <1>2

-----------------------------------------------------------------------------
(* The stages of a session *)

IsSession(s) ==
    /\ s = [stage |-> s.stage, queue |-> s.queue, state |-> s.state,
            fresh |-> s.fresh, tool |-> s.tool, args |-> s.args]
    /\ s.stage \in {Prefix, Args, Ended}

\* A session never goes back to the prose before its call.
LEMMA SwallowKeeps ==
    ASSUME NEW s, IsSession(s), NEW c, NEW r \in Swallow(s, c)
    PROVE  IsSession(r) /\ (s.stage # Prefix => r.stage # Prefix)
<1>0. Prefix # Args /\ Prefix # Ended /\ Args # Ended
  BY DEF Prefix, Args, Ended
<1>1. CASE s.stage = Prefix
  <2>1. r \in SwallowPrefix(s, c)
    BY <1>0, <1>1 DEF Swallow
  <2>2. \/ r = [s EXCEPT !.queue = Trimmed(Append(s.queue, c))]
        \/ \E t : r = [s EXCEPT !.stage = Args, !.state = StartAt(t.root), !.fresh = TRUE, !.tool = t]
    BY <2>1 DEF SwallowPrefix
  <2>3. CASE r = [s EXCEPT !.queue = Trimmed(Append(s.queue, c))]
    <3>1. r = [stage |-> s.stage, queue |-> Trimmed(Append(s.queue, c)), state |-> s.state,
               fresh |-> s.fresh, tool |-> s.tool, args |-> s.args]
      BY <2>3 DEF IsSession
    <3> QED BY <1>1, <3>1 DEF IsSession
  <2>4. CASE \E t : r = [s EXCEPT !.stage = Args, !.state = StartAt(t.root), !.fresh = TRUE, !.tool = t]
    <3>1. PICK t : r = [s EXCEPT !.stage = Args, !.state = StartAt(t.root), !.fresh = TRUE, !.tool = t]
      BY <2>4
    <3>2. r = [stage |-> Args, queue |-> s.queue, state |-> StartAt(t.root),
               fresh |-> TRUE, tool |-> t, args |-> s.args]
      BY <3>1 DEF IsSession
    <3> QED BY <1>1, <3>2 DEF IsSession
  <2> QED BY <2>2, <2>3, <2>4
<1>2. CASE s.stage = Args
  <2>1. r \in SwallowArgs(s, c)
    BY <1>0, <1>2 DEF Swallow
  <2>2. \/ r = [s EXCEPT !.stage = Ended]
        \/ \E next : r = [s EXCEPT !.state = next, !.fresh = s.fresh /\ c = " ",
                          !.args = IF c = " " /\ ~InContent(s.state) THEN s.args ELSE Append(s.args, c)]
    BY <2>1 DEF SwallowArgs
  <2>3. CASE r = [s EXCEPT !.stage = Ended]
    <3>1. r = [stage |-> Ended, queue |-> s.queue, state |-> s.state,
               fresh |-> s.fresh, tool |-> s.tool, args |-> s.args]
      BY <2>3 DEF IsSession
    <3> QED BY <1>0, <3>1 DEF IsSession
  <2>4. CASE \E next : r = [s EXCEPT !.state = next, !.fresh = s.fresh /\ c = " ",
                          !.args = IF c = " " /\ ~InContent(s.state) THEN s.args ELSE Append(s.args, c)]
    <3> DEFINE args == IF c = " " /\ ~InContent(s.state) THEN s.args ELSE Append(s.args, c)
    <3>1. PICK next : r = [s EXCEPT !.state = next, !.fresh = s.fresh /\ c = " ", !.args = args]
      BY <2>4
    <3> HIDE DEF args
    <3>2. r = [stage |-> s.stage, queue |-> s.queue, state |-> next,
               fresh |-> s.fresh /\ c = " ", tool |-> s.tool, args |-> args]
      BY <3>1 DEF IsSession
    <3> QED BY <1>0, <1>2, <3>2 DEF IsSession
  <2> QED BY <2>2, <2>3, <2>4
<1>3. CASE s.stage = Ended
  <2>1. r = s
    BY <1>0, <1>3 DEF Swallow
  <2> QED BY <2>1
<1> QED BY <1>1, <1>2, <1>3 DEF IsSession

LEMMA AdvanceKeeps ==
    ASSUME NEW s, IsSession(s), NEW token, Len(token) \in Nat, NEW r \in Advance(s, token)
    PROVE  IsSession(r) /\ (s.stage # Prefix => r.stage # Prefix)
<1>1. PICK f : Reaching(s, token, f, Len(token)) /\ Advance(s, token) = f[Len(token)]
  BY AdvanceIs
<1>2. /\ f[0] = {s}
      /\ \A n \in 1..Len(token) : f[n] = UNION {Swallow(q, token[n]) : q \in f[n - 1]}
  <2>1. \A n \in 0..Len(token) : f[n] = (IF n = 0 THEN {s} ELSE UNION {Swallow(q, token[n]) : q \in f[n - 1]})
    BY <1>1, Zenon DEF Reaching
  <2>2. 0 \in 0..Len(token) /\ \A n \in 1..Len(token) : n \in 0..Len(token) /\ n # 0
    OBVIOUS
  <2> QED BY <2>1, <2>2, Zenon
<1> DEFINE Keeps(q) == IsSession(q) /\ (s.stage # Prefix => q.stage # Prefix)
           S == {n \in Nat : n <= Len(token) => \A q \in f[n] : Keeps(q)}
<1>3. 0 \in S
  BY <1>2
<1>4. ASSUME NEW n \in S PROVE n + 1 \in S
  <2> SUFFICES ASSUME n + 1 <= Len(token), NEW q \in f[n + 1] PROVE Keeps(q)
    OBVIOUS
  <2>1. n \in Nat /\ n + 1 \in 1..Len(token) /\ (n + 1) - 1 = n /\ n <= Len(token)
    OBVIOUS
  <2>2. f[n + 1] = UNION {Swallow(p, token[n + 1]) : p \in f[(n + 1) - 1]}
    BY <1>2, <2>1, Zenon
  <2>3. PICK p \in f[n] : q \in Swallow(p, token[n + 1])
    BY <2>1, <2>2
  <2>4. Keeps(p)
    BY <2>1, <2>3
  <2> QED BY <2>3, <2>4, SwallowKeeps
<1> HIDE DEF S
<1>5. S = Nat
  <2>1. S \in SUBSET Nat
    BY DEF S
  <2> QED BY <1>3, <1>4, <2>1, ByInduction
<1> QED BY <1>1, <1>5 DEF S

-----------------------------------------------------------------------------
(* Text: characters made of two tokens *)

\* The function by which FlattenSeq puts sequences one behind the other.
Flattening(seqs, f, N) ==
    f = [i \in 1..N |-> IF i = 1 THEN seqs[i] ELSE f[i - 1] \o seqs[i]]

LEMMA FlatteningThere ==
    ASSUME NEW seqs, NEW N \in Nat
    PROVE  \E f : Flattening(seqs, f, N)
<1> DEFINE S == {n \in Nat : \E f : Flattening(seqs, f, n)}
<1>1. 0 \in S
  <2> DEFINE f == [i \in 1..0 |-> seqs[i]]
  <2>1. 1..0 = {}
    OBVIOUS
  <2>2. Flattening(seqs, f, 0)
    BY <2>1, Zenon DEF Flattening
  <2> QED BY <2>2
<1>2. ASSUME NEW n \in S PROVE n + 1 \in S
  <2>1. PICK f : Flattening(seqs, f, n)
    OBVIOUS
  <2> DEFINE next == IF n + 1 = 1 THEN seqs[n + 1] ELSE f[n] \o seqs[n + 1]
             longer == [k \in 1..n + 1 |-> IF k = n + 1 THEN next ELSE f[k]]
  <2>2. \A k \in 1..n : f[k] = (IF k = 1 THEN seqs[k] ELSE f[k - 1] \o seqs[k])
    BY <2>1, Zenon DEF Flattening
  <2>3. ASSUME NEW k \in 1..n + 1
        PROVE  longer[k] = (IF k = 1 THEN seqs[k] ELSE longer[k - 1] \o seqs[k])
    <3>1. CASE k = n + 1
      <4>1. k # 1 => k - 1 = n /\ k - 1 \in 1..n + 1 /\ k - 1 # n + 1
        BY <3>1
      <4>2. longer[k] = next /\ (k # 1 => longer[k - 1] = f[n])
        BY <3>1, <4>1
      <4> HIDE DEF longer
      <4> QED BY <3>1, <4>1, <4>2, Zenon
    <3>2. CASE k # n + 1
      <4>1. k \in 1..n
        BY <3>2
      <4>2. k # 1 => k - 1 \in 1..n + 1 /\ k - 1 # n + 1
        BY <3>2
      <4>3. longer[k] = f[k] /\ (k # 1 => longer[k - 1] = f[k - 1])
        BY <3>2, <4>2
      <4> HIDE DEF longer
      <4> QED BY <2>2, <4>1, <4>3, Zenon
    <3> QED BY <3>1, <3>2
  <2>4. longer = [k \in 1..n + 1 |-> longer[k]]
    OBVIOUS
  <2> HIDE DEF longer
  <2>5. Flattening(seqs, longer, n + 1)
    BY <2>3, <2>4, Zenon DEF Flattening
  <2> QED BY <2>5
<1> HIDE DEF S
<1>3. S = Nat
  <2>1. S \in SUBSET Nat
    BY DEF S
  <2> QED BY <1>1, <1>2, <2>1, ByInduction
<1> QED BY <1>3 DEF S

LEMMA FlattenIs ==
    ASSUME NEW seqs, Len(seqs) \in Nat, Len(seqs) # 0
    PROVE  \E f : /\ \A i \in 1..Len(seqs) : f[i] = (IF i = 1 THEN seqs[i] ELSE f[i - 1] \o seqs[i])
                  /\ FlattenSeq(seqs) = f[Len(seqs)]
<1> DEFINE chosen == CHOOSE f : Flattening(seqs, f, Len(seqs))
<1>1. Flattening(seqs, chosen, Len(seqs))
  BY FlatteningThere
<1>2. FlattenSeq(seqs) = chosen[Len(seqs)]
  BY Zenon DEF FlattenSeq, Flattening
<1> HIDE DEF chosen
<1>3. \A i \in 1..Len(seqs) : chosen[i] = (IF i = 1 THEN seqs[i] ELSE chosen[i - 1] \o seqs[i])
  BY <1>1, Zenon DEF Flattening
<1> QED BY <1>2, <1>3

\* The text of one more token is the text so far with that token's behind it.
LEMMA FlattenGrows ==
    ASSUME NEW p \in Seq(Seq(STRING)), NEW t \in Seq(STRING)
    PROVE  FlattenSeq(p) \in Seq(STRING) /\ FlattenSeq(Append(p, t)) = FlattenSeq(p) \o t
<1> DEFINE all == Append(p, t)
<1>1. /\ all \in Seq(Seq(STRING)) /\ Len(all) = Len(p) + 1 /\ Len(p) \in Nat
      /\ \A i \in 1..Len(p) : all[i] = p[i] /\ p[i] \in Seq(STRING)
      /\ all[Len(p) + 1] = t
  OBVIOUS
<1> HIDE DEF all
<1>2. PICK g : /\ \A i \in 1..Len(all) : g[i] = (IF i = 1 THEN all[i] ELSE g[i - 1] \o all[i])
               /\ FlattenSeq(all) = g[Len(all)]
  <2>1. Len(all) \in Nat /\ Len(all) # 0
    BY <1>1
  <2> QED BY <2>1, FlattenIs
<1>3. CASE Len(p) = 0
  <2>1. FlattenSeq(p) = p /\ p = <<>>
    BY <1>3 DEF FlattenSeq
  <2>2. 1 \in 1..Len(all) /\ Len(all) = 1 /\ all[1] = t
    BY <1>1, <1>3
  <2>3. FlattenSeq(all) = t
    BY <1>2, <2>2, Zenon
  <2>4. <<>> \o t = t
    OBVIOUS
  <2> QED BY <2>1, <2>3, <2>4 DEF all
<1>4. CASE Len(p) # 0
  <2>1. PICK f : /\ \A i \in 1..Len(p) : f[i] = (IF i = 1 THEN p[i] ELSE f[i - 1] \o p[i])
                 /\ FlattenSeq(p) = f[Len(p)]
    BY <1>1, <1>4, FlattenIs
  <2> DEFINE S == {n \in Nat : n \in 1..Len(p) => f[n] = g[n] /\ f[n] \in Seq(STRING)}
  <2>2. 0 \in S
    OBVIOUS
  <2>3. ASSUME NEW n \in S PROVE n + 1 \in S
    <3> SUFFICES ASSUME n + 1 \in 1..Len(p) PROVE f[n + 1] = g[n + 1] /\ f[n + 1] \in Seq(STRING)
      OBVIOUS
    <3>0. n \in Nat
      OBVIOUS
    <3> HIDE DEF S
    <3>1. n + 1 \in 1..Len(all) /\ (n + 1) - 1 = n
      BY <1>1, <3>0
    <3>2. CASE n = 0
      <4>1. n + 1 = 1
        BY <3>2
      <4> QED BY <1>1, <1>2, <2>1, <3>1, <4>1, Zenon
    <3>3. CASE n # 0
      <4>1. n \in 1..Len(p) /\ n + 1 # 1
        BY <1>1, <3>0, <3>3
      <4>2. f[n] = g[n] /\ f[n] \in Seq(STRING)
        BY <4>1 DEF S
      <4>3. f[n + 1] = f[n] \o p[n + 1]
        BY <2>1, <3>1, <4>1, Zenon
      <4>4. g[n + 1] = g[n] \o p[n + 1]
        BY <1>1, <1>2, <3>1, <4>1, Zenon
      <4>5. p[n + 1] \in Seq(STRING)
        BY <1>1
      <4>6. f[n + 1] \in Seq(STRING)
        BY <4>2, <4>3, <4>5
      <4> QED BY <4>2, <4>3, <4>4, <4>6
    <3> QED BY <3>2, <3>3
  <2> HIDE DEF S
  <2>4. S = Nat
    <3>1. S \in SUBSET Nat
      BY DEF S
    <3> QED BY <2>2, <2>3, <3>1, ByInduction
  <2>5. Len(p) \in 1..Len(p) /\ Len(p) + 1 \in 1..Len(all) /\ Len(p) + 1 # 1 /\ (Len(p) + 1) - 1 = Len(p)
    BY <1>1, <1>4
  <2>6. f[Len(p)] = g[Len(p)] /\ f[Len(p)] \in Seq(STRING)
    BY <1>1, <2>4, <2>5 DEF S
  <2>7. g[Len(p) + 1] = g[Len(p)] \o t
    BY <1>1, <1>2, <2>5, Zenon
  <2> QED BY <1>1, <1>2, <2>1, <2>6, <2>7 DEF all
<1> QED BY <1>3, <1>4

\* What is decoded to.
Letters == STRING \union {"whole", Replacement}

\* What further characters leave as it is: all of it, but a half that comes last.
Continues(r, q) ==
    /\ Len(q) <= Len(r)
    /\ \A n \in 1..Len(q) : (n < Len(q) \/ q[n] \notin Halves) => r[n] = q[n]

LEMMA JoinedIs ==
    ASSUME NEW r \in Seq(Letters), NEW c \in Letters
    PROVE  /\ Joined(r, c) \in Seq(Letters)
           /\ Continues(Joined(r, c), r)
<1>1. CASE c = "rest" /\ r # <<>> /\ Last(r) = "first"
  <2>1. Joined(r, c) = Append(Front(r), "whole")
    BY <1>1 DEF Joined
  <2>2. Len(r) \in Nat \ {0} /\ r[Len(r)] = "first"
    BY <1>1 DEF Last
  <2> DEFINE front == Front(r)
  <2>3. front \in Seq(Letters) /\ Len(front) = Len(r) - 1 /\ \A n \in 1..Len(r) - 1 : front[n] = r[n]
    BY <1>1, StackIs
  <2> HIDE DEF front
  <2>4. /\ Append(front, "whole") \in Seq(Letters) /\ Len(Append(front, "whole")) = Len(front) + 1
        /\ \A n \in 1..Len(front) : Append(front, "whole")[n] = front[n]
    <3>1. "whole" \in Letters
      BY DEF Letters
    <3> QED BY <2>3, <3>1, AppendProperties
  <2>5. Joined(r, c) \in Seq(Letters) /\ Len(Joined(r, c)) = Len(r)
    BY <2>1, <2>2, <2>3, <2>4 DEF front
  <2>8. ASSUME NEW n \in 1..Len(r), n < Len(r) PROVE Joined(r, c)[n] = r[n]
    <3>1. n \in 1..Len(front) /\ n \in 1..Len(r) - 1
      BY <2>2, <2>3, <2>8
    <3> QED BY <2>1, <2>3, <2>4, <3>1 DEF front
  <2>6. r[Len(r)] \in Halves
    BY <2>2 DEF Halves
  <2>7. ASSUME NEW n \in 1..Len(r), r[n] \notin Halves PROVE n < Len(r)
    BY <2>2, <2>6, <2>7
  <2> QED BY <2>2, <2>5, <2>7, <2>8 DEF Continues
<1>2. CASE ~(c = "rest" /\ r # <<>> /\ Last(r) = "first")
  <2>1. Joined(r, c) = Append(r, c)
    BY <1>2, Zenon DEF Joined
  <2>2. /\ Append(r, c) \in Seq(Letters) /\ Len(Append(r, c)) = Len(r) + 1 /\ Len(r) \in Nat
        /\ \A n \in 1..Len(r) : Append(r, c)[n] = r[n]
    BY AppendProperties, LenProperties
  <2>3. Len(r) <= Len(r) + 1
    BY <2>2
  <2> QED BY <2>1, <2>2, <2>3 DEF Continues
<1> QED BY <1>1, <1>2

LEMMA ContinuesOn ==
    ASSUME NEW q \in Seq(Letters), NEW r \in Seq(Letters), NEW s \in Seq(Letters),
           Continues(r, q), Continues(s, r)
    PROVE  Continues(s, q)
<1>1. Len(q) \in Nat /\ Len(r) \in Nat /\ Len(s) \in Nat /\ Len(q) <= Len(r) /\ Len(r) <= Len(s)
  BY DEF Continues
<1>2. ASSUME NEW n \in 1..Len(q), n < Len(q) \/ q[n] \notin Halves PROVE s[n] = q[n]
  <2>1. r[n] = q[n] /\ n \in 1..Len(r)
    BY <1>1, <1>2 DEF Continues
  <2>2. n < Len(r) \/ r[n] \notin Halves
    BY <1>1, <1>2, <2>1
  <2> QED BY <2>1, <2>2 DEF Continues
<1> QED BY <1>1, <1>2 DEF Continues

\* The next place of a sequence.
LEMMA NextIn ==
    ASSUME NEW N \in Nat, NEW n \in Nat, n + 1 <= N
    PROVE  n + 1 \in 1..N /\ (n + 1) - 1 = n /\ n <= N
OBVIOUS

\* What the characters of a text are decoded to is the same in a longer one.
LEMMA JoinedText ==
    ASSUME NEW text \in Seq(STRING), NEW more \in Seq(STRING)
    PROVE  \E q \in Seq(Letters), r \in Seq(Letters) :
              /\ Continues(r, q)
              /\ \A f : Joining(text, f, Len(text)) => f[Len(text)] = q
              /\ \A f : Joining(text \o more, f, Len(text \o more)) => f[Len(text \o more)] = r
<1> DEFINE all == text \o more
<1>1. /\ all \in Seq(STRING) /\ Len(all) = Len(text) + Len(more) /\ Len(text) \in Nat /\ Len(more) \in Nat
      /\ \A n \in 1..Len(text) : all[n] = text[n]
      /\ 0..Len(text) \subseteq 0..Len(all)
  OBVIOUS
<1> HIDE DEF all
<1>0. \A n \in 1..Len(all) : all[n] \in Letters
  BY <1>1 DEF Letters
<1>2. PICK g : Joining(all, g, Len(all))
  <2>1. Len(all) \in Nat
    BY <1>1
  <2> QED BY <2>1, JoiningThere
<1>3. g[0] = <<>> /\ \A n \in 1..Len(all) : g[n] = Joined(g[n - 1], all[n])
  <2>1. \A n \in 0..Len(all) : g[n] = (IF n = 0 THEN <<>> ELSE Joined(g[n - 1], all[n]))
    BY <1>2, Zenon DEF Joining
  <2>2. 0 \in 0..Len(all) /\ \A n \in 1..Len(all) : n \in 0..Len(all) /\ n # 0
    BY <1>1
  <2> QED BY <2>1, <2>2, Zenon
<1>4. \A n \in 0..Len(all) : g[n] \in Seq(Letters)
  <2> DEFINE S == {n \in Nat : n <= Len(all) => g[n] \in Seq(Letters)}
  <2>1. 0 \in S
    <3>1. g[0] \in Seq(Letters)
      BY <1>3, EmptySeq
    <3> QED BY <3>1
  <2>2. ASSUME NEW n \in S PROVE n + 1 \in S
    <3> SUFFICES ASSUME n + 1 <= Len(all) PROVE g[n + 1] \in Seq(Letters)
      OBVIOUS
    <3>1. n \in Nat
      OBVIOUS
    <3>2. n + 1 \in 1..Len(all) /\ (n + 1) - 1 = n /\ n <= Len(all)
      <4>1. Len(all) \in Nat
        BY <1>1
      <4> QED BY <3>1, <4>1, NextIn, Zenon
    <3>3. g[n] \in Seq(Letters)
      BY <3>2
    <3>4. g[n + 1] = Joined(g[n], all[n + 1]) /\ all[n + 1] \in Letters
      BY <1>0, <1>3, <3>2, Zenon
    <3> QED BY <3>3, <3>4, JoinedIs
  <2> HIDE DEF S
  <2>3. S = Nat
    <3>1. S \in SUBSET Nat
      BY DEF S
    <3> QED BY <2>1, <2>2, <3>1, ByInduction
  <2>4. \A n \in 0..Len(all) : n \in Nat /\ n <= Len(all)
    BY <1>1
  <2> QED BY <2>3, <2>4 DEF S
<1>5. \A n \in 0..Len(all) : n >= Len(text) => Continues(g[n], g[Len(text)])
  <2> DEFINE S == {n \in Nat : Len(text) + n <= Len(all) => Continues(g[Len(text) + n], g[Len(text)])}
  <2>1. 0 \in S
    <3>1. Len(text) + 0 = Len(text)
      BY <1>1
    <3>2. Continues(g[Len(text)], g[Len(text)])
      BY <1>1, <1>4 DEF Continues
    <3> QED BY <3>1, <3>2
  <2>2. ASSUME NEW n \in S PROVE n + 1 \in S
    <3> SUFFICES ASSUME Len(text) + (n + 1) <= Len(all)
                 PROVE  Continues(g[Len(text) + (n + 1)], g[Len(text)])
      OBVIOUS
    <3>1. n \in Nat
      OBVIOUS
    <3> DEFINE k == Len(text) + n
    <3>2. Len(text) + (n + 1) = k + 1 /\ k + 1 \in 1..Len(all) /\ (k + 1) - 1 = k /\ k \in 0..Len(all)
      BY <1>1, <3>1
    <3>3. Continues(g[k], g[Len(text)])
      BY <3>2
    <3> HIDE DEF k, S
    <3>4. g[k + 1] = Joined(g[k], all[k + 1]) /\ all[k + 1] \in Letters
      BY <1>0, <1>3, <3>2, Zenon
    <3>5. Continues(g[k + 1], g[k]) /\ g[k + 1] \in Seq(Letters) /\ g[k] \in Seq(Letters)
      BY <1>4, <3>2, <3>4, JoinedIs
    <3>6. g[Len(text)] \in Seq(Letters)
      BY <1>1, <1>4
    <3> QED BY <3>2, <3>3, <3>5, <3>6, ContinuesOn
  <2> HIDE DEF S
  <2>3. S = Nat
    <3>1. S \in SUBSET Nat
      BY DEF S
    <3> QED BY <2>1, <2>2, <3>1, ByInduction
  <2>4. ASSUME NEW n \in 0..Len(all), n >= Len(text)
        PROVE  n - Len(text) \in Nat /\ Len(text) + (n - Len(text)) = n /\ n <= Len(all)
    BY <1>1, <2>4
  <2> QED BY <2>3, <2>4 DEF S
<1>6. ASSUME NEW f, Joining(text, f, Len(text)) PROVE f[Len(text)] = g[Len(text)]
  <2>1. f[0] = <<>> /\ \A n \in 1..Len(text) : f[n] = Joined(f[n - 1], text[n])
    <3>1. \A n \in 0..Len(text) : f[n] = (IF n = 0 THEN <<>> ELSE Joined(f[n - 1], text[n]))
      BY <1>6, Zenon DEF Joining
    <3>2. 0 \in 0..Len(text) /\ \A n \in 1..Len(text) : n \in 0..Len(text) /\ n # 0
      BY <1>1
    <3> QED BY <3>1, <3>2, Zenon
  <2> DEFINE S == {n \in Nat : n <= Len(text) => f[n] = g[n]}
  <2>2. 0 \in S
    BY <1>3, <2>1
  <2>3. ASSUME NEW n \in S PROVE n + 1 \in S
    <3> SUFFICES ASSUME n + 1 <= Len(text) PROVE f[n + 1] = g[n + 1]
      OBVIOUS
    <3>1. n \in Nat
      OBVIOUS
    <3>2. /\ n + 1 \in 1..Len(text) /\ n + 1 \in 1..Len(all) /\ (n + 1) - 1 = n /\ n <= Len(text)
      BY <1>1, <3>1
    <3>3. f[n] = g[n]
      BY <3>2
    <3> HIDE DEF S
    <3> QED BY <1>1, <1>3, <2>1, <3>2, <3>3, Zenon
  <2> HIDE DEF S
  <2>4. S = Nat
    <3>1. S \in SUBSET Nat
      BY DEF S
    <3> QED BY <2>2, <2>3, <3>1, ByInduction
  <2>5. Len(text) <= Len(text)
    BY <1>1
  <2> QED BY <1>1, <2>4, <2>5 DEF S
<1>7. ASSUME NEW f, Joining(all, f, Len(all)) PROVE f[Len(all)] = g[Len(all)]
  <2> DEFINE N == Len(all)
  <2>0. N \in Nat /\ Joining(all, f, N) /\ Joining(all, g, N)
    BY <1>1, <1>2, <1>7
  <2> HIDE DEF N
  <2>1. f[0] = <<>> /\ \A n \in 1..N : f[n] = Joined(f[n - 1], all[n])
    BY <2>0, JoiningStep
  <2>2. g[0] = <<>> /\ \A n \in 1..N : g[n] = Joined(g[n - 1], all[n])
    BY <2>0, JoiningStep
  <2> DEFINE S == {n \in Nat : n <= N => f[n] = g[n]}
  <2>3. 0 \in S
    BY <2>1, <2>2
  <2>4. ASSUME NEW n \in S PROVE n + 1 \in S
    <3> SUFFICES ASSUME n + 1 <= N PROVE f[n + 1] = g[n + 1]
      OBVIOUS
    <3>1. n \in Nat
      OBVIOUS
    <3>2. n + 1 \in 1..N /\ (n + 1) - 1 = n /\ n <= N
      BY <2>0, <3>1
    <3>3. f[n] = g[n]
      BY <3>2
    <3> HIDE DEF S
    <3> QED BY <2>1, <2>2, <3>2, <3>3, Zenon
  <2> HIDE DEF S
  <2>5. S = Nat
    <3>1. S \in SUBSET Nat
      BY DEF S
    <3> QED BY <2>3, <2>4, <3>1, ByInduction
  <2> QED BY <2>0, <2>5 DEF S, N
<1>8. Len(all) \in 0..Len(all) /\ Len(all) >= Len(text) /\ Len(text) \in 0..Len(all)
  BY <1>1
<1>9. Continues(g[Len(all)], g[Len(text)]) /\ g[Len(text)] \in Seq(Letters) /\ g[Len(all)] \in Seq(Letters)
  BY <1>4, <1>5, <1>8
<1>10. \E q \in Seq(Letters), r \in Seq(Letters) :
          /\ Continues(r, q)
          /\ \A f : Joining(text, f, Len(text)) => f[Len(text)] = q
          /\ \A f : Joining(all, f, Len(all)) => f[Len(all)] = r
  BY <1>6, <1>7, <1>9, Zenon
<1> QED BY <1>10 DEF all

\* How a text looks: half a character is the replacement character.
Looks(q) == [n \in DOMAIN q |-> IF q[n] \in Halves THEN Replacement ELSE q[n]]

LEMMA DecodeIs ==
    ASSUME NEW tokens, FlattenSeq(tokens) \in Seq(STRING), NEW q,
           \A f : Joining(FlattenSeq(tokens), f, Len(FlattenSeq(tokens))) => f[Len(FlattenSeq(tokens))] = q
    PROVE  Decode(tokens) = Looks(q)
<1> DEFINE text == FlattenSeq(tokens)
           chosen == CHOOSE f : Joining(text, f, Len(text))
<1>1. Len(text) \in Nat
  OBVIOUS
<1>2. Joining(text, chosen, Len(text))
  <2> HIDE DEF text
  <2> QED BY <1>1, JoiningThere
<1>3. chosen[Len(text)] = q
  BY <1>2, Zenon
<1>4. Decode(tokens) = Looks(chosen[Len(text)])
  BY Zenon DEF Decode, Joining, Looks
<1> QED BY <1>3, <1>4, Zenon

\* How far a text is certain: to its last character that is not the replacement.
Certain(text) == {n \in DOMAIN text : text[n] # Replacement}

LEMMA GreatestIs ==
    ASSUME NEW N \in Nat, NEW S \in SUBSET (1..N), NEW m, m = Max({0} \union S)
    PROVE  m \in {0} \union S /\ \A n \in {0} \union S : n <= m
<1> DEFINE A == {0} \union S
           T == {n \in Nat : \E x \in A : n = N - x}
<1>1. \A x \in A : x \in Nat /\ N - x \in Nat /\ N - (N - x) = x
  OBVIOUS
<1>2. \E m0 \in A : \A x \in A : m0 >= x
  <2>1. N - 0 \in T
    OBVIOUS
  <2>2. T \subseteq Nat /\ T # {}
    BY <2>1
  <2> HIDE DEF T
  <2>3. PICK k \in T : \A j \in T : ~ (<<j, k>> \in OpToRel(<, Nat))
    BY <2>2, WFMin, NatLessThanWellFounded, Zenon
  <2>4. \A j \in T : ~ (j < k)
    BY <2>2, <2>3, Zenon DEF OpToRel
  <2>5. PICK x \in A : k = N - x
    BY <2>3 DEF T
  <2>6. ASSUME NEW y \in A PROVE x >= y
    <3>1. N - y \in T
      BY <1>1 DEF T
    <3>2. ~ (N - y < N - x)
      BY <2>4, <2>5, <3>1
    <3> HIDE DEF A
    <3> QED BY <1>1, <2>5, <2>6, <3>2
  <2> QED BY <2>5, <2>6
<1>3. m \in A /\ \A x \in A : m >= x
  BY <1>2 DEF Max
<1> QED BY <1>1, <1>3

LEMMA FirstsAre ==
    ASSUME NEW S, NEW s \in Seq(S), NEW n \in 0..Len(s), NEW r, r = SubSeq(s, 1, n)
    PROVE  r \in Seq(S) /\ Len(r) = n /\ \A i \in 1..n : r[i] = s[i]
<1>1. n \in Nat /\ Len(s) \in Nat /\ n - 1 + 1 = n /\ n <= Len(s) /\ (~ (1 <= n) => n = 0)
  OBVIOUS
<1>2. \A i \in 1..n : s[i] \in S
  <2>1. \A i \in 1..n : i \in 1..Len(s)
    BY <1>1
  <2> QED BY <2>1
<1>3. /\ SubSeq(s, 1, n) \in Seq(S) /\ Len(SubSeq(s, 1, n)) = IF 1 <= n THEN n - 1 + 1 ELSE 0
      /\ \A i \in 1..n - 1 + 1 : SubSeq(s, 1, n)[i] = s[1 + i - 1]
  <2>1. 1 \in Int /\ n \in Int
    BY <1>1
  <2> QED BY <1>2, <2>1, SubSeqProperties
<1>4. \A i \in 1..n : 1 + i - 1 = i
  OBVIOUS
<1>5. r \in Seq(S)
  BY <1>3
<1>6. Len(r) = n
  BY <1>1, <1>3
<1>7. ASSUME NEW i \in 1..n PROVE r[i] = s[i]
  <2>1. i \in 1..n - 1 + 1
    BY <1>1
  <2> QED BY <1>3, <1>4, <2>1, Zenon
<1> QED BY <1>5, <1>6, <1>7

LEMMA PrefixIs ==
    ASSUME NEW S, NEW a \in Seq(S), NEW b \in Seq(S)
    PROVE  /\ IsPrefix(a, b) <=> Len(a) <= Len(b) /\ \A i \in 1..Len(a) : a[i] = b[i]
           /\ IsPrefix(a, b) /\ Len(a) = Len(b) => a = b
<1>1. Len(a) \in Nat /\ Len(b) \in Nat /\ Len(a) \in 0..Len(a)
  OBVIOUS
<1>2. SubSeq(a, 1, Len(a)) = a
  BY SubSeqFull
<1>3. ASSUME Len(a) <= Len(b)
      PROVE  /\ SubSeq(b, 1, Len(a)) \in Seq(S) /\ Len(SubSeq(b, 1, Len(a))) = Len(a)
             /\ \A i \in 1..Len(a) : SubSeq(b, 1, Len(a))[i] = b[i]
  <2>1. Len(a) \in 0..Len(b)
    BY <1>1, <1>3
  <2> QED BY <2>1, FirstsAre
<1>4. IsPrefix(a, b) => Len(a) <= Len(b) /\ \A i \in 1..Len(a) : a[i] = b[i]
  <2> SUFFICES ASSUME IsPrefix(a, b) PROVE Len(a) <= Len(b) /\ \A i \in 1..Len(a) : a[i] = b[i]
    OBVIOUS
  <2>1. Len(a) <= Len(b) /\ a = SubSeq(b, 1, Len(a))
    BY <1>2 DEF IsPrefix
  <2> QED BY <1>3, <2>1
<1>5. Len(a) <= Len(b) /\ (\A i \in 1..Len(a) : a[i] = b[i]) => IsPrefix(a, b)
  <2> SUFFICES ASSUME Len(a) <= Len(b), \A i \in 1..Len(a) : a[i] = b[i] PROVE IsPrefix(a, b)
    OBVIOUS
  <2> DEFINE c == SubSeq(b, 1, Len(a))
  <2>1. c \in Seq(S) /\ Len(c) = Len(a) /\ \A i \in 1..Len(a) : a[i] = c[i]
    BY <1>3
  <2> HIDE DEF c
  <2>2. a = c
    BY <2>1, SeqEqual
  <2> QED BY <1>2, <2>2 DEF c, IsPrefix
<1>6. IsPrefix(a, b) /\ Len(a) = Len(b) => a = b
  BY <1>4, SeqEqual
<1> QED BY <1>4, <1>5, <1>6

LEMMA PrefixOn ==
    ASSUME NEW S, NEW a \in Seq(S), NEW b \in Seq(S), NEW c \in Seq(S), IsPrefix(a, b), IsPrefix(b, c)
    PROVE  IsPrefix(a, c)
<1>1. Len(a) \in Nat /\ Len(b) \in Nat /\ Len(c) \in Nat
  OBVIOUS
<1>2. Len(a) <= Len(b) /\ \A i \in 1..Len(a) : a[i] = b[i]
  BY PrefixIs
<1>3. Len(b) <= Len(c) /\ \A i \in 1..Len(b) : b[i] = c[i]
  BY PrefixIs
<1>4. Len(a) <= Len(c) /\ \A i \in 1..Len(a) : a[i] = c[i]
  <2>1. ASSUME NEW i \in 1..Len(a) PROVE a[i] = c[i]
    <3>1. i \in 1..Len(b)
      BY <1>1, <1>2
    <3> QED BY <1>2, <1>3, <3>1, Zenon
  <2>2. Len(a) <= Len(c)
    BY <1>1, <1>2, <1>3
  <2> QED BY <2>1, <2>2
<1> QED BY <1>4, PrefixIs

\* What is certain of a text, as Decoded shows it.
LEMMA DecodedIs ==
    ASSUME NEW tokens, NEW q \in Seq(Letters), Decode(tokens) = Looks(q)
    PROVE  \E m \in 0..Len(q) :
              /\ Looks(q) \in Seq(Letters) /\ Len(Looks(q)) = Len(q)
              /\ \A n \in 1..Len(q) : Looks(q)[n] = (IF q[n] \in Halves THEN Replacement ELSE q[n])
              /\ Decoded(tokens) \in Seq(Letters) /\ Len(Decoded(tokens)) = m
              /\ \A n \in 1..m : Decoded(tokens)[n] = Looks(q)[n]
              /\ m # 0 => Looks(q)[m] # Replacement
              /\ \A n \in 1..Len(q) : Looks(q)[n] # Replacement => n <= m
<1> DEFINE text == Looks(q)
           m == Max({0} \union Certain(text))
<1>1. Len(q) \in Nat /\ DOMAIN q = 1..Len(q) /\ \A n \in 1..Len(q) : q[n] \in Letters
  OBVIOUS
<1>2. \A n \in 1..Len(q) : text[n] = (IF q[n] \in Halves THEN Replacement ELSE q[n])
  BY <1>1, Zenon DEF Looks
<1>3. \A n \in 1..Len(q) : text[n] \in Letters
  BY <1>1, <1>2 DEF Letters
<1>4. text \in Seq(Letters) /\ Len(text) = Len(q)
  <2>1. text = [n \in 1..Len(q) |-> text[n]]
    BY <1>1, Zenon DEF Looks
  <2> HIDE DEF text
  <2> QED BY <1>1, <1>3, <2>1, IsASeq
<1> HIDE DEF text
<1>5. Decoded(tokens) = SubSeq(text, 1, m)
  BY Zenon DEF Decoded, Certain, text
<1>6. Certain(text) = {n \in 1..Len(q) : text[n] # Replacement}
  BY <1>4 DEF Certain
<1>7. m \in {0} \union Certain(text) /\ \A n \in {0} \union Certain(text) : n <= m
  <2> HIDE DEF m
  <2>1. Certain(text) \in SUBSET (1..Len(q))
    BY <1>6
  <2> QED BY <1>1, <2>1, GreatestIs DEF m
<1> HIDE DEF m
<1>8. m \in 0..Len(q)
  BY <1>1, <1>6, <1>7
<1>9. Decoded(tokens) \in Seq(Letters) /\ Len(Decoded(tokens)) = m /\ \A n \in 1..m : Decoded(tokens)[n] = text[n]
  BY <1>4, <1>5, <1>8, FirstsAre
<1>10. m # 0 => text[m] # Replacement
  BY <1>6, <1>7
<1>11. \A n \in 1..Len(q) : text[n] # Replacement => n <= m
  BY <1>6, <1>7
<1> QED BY <1>2, <1>4, <1>8, <1>9, <1>10, <1>11 DEF text

\* What is shown of a text is at the start of it, and of every longer one.
LEMMA DecodedGrows ==
    ASSUME NEW p \in Seq(Seq(STRING)), NEW t \in Seq(STRING)
    PROVE  /\ Decoded(p) \in Seq(Letters) /\ Decode(p) \in Seq(Letters)
           /\ IsPrefix(Decoded(p), Decode(p))
           /\ Decoded(Append(p, t)) \in Seq(Letters) /\ Decode(Append(p, t)) \in Seq(Letters)
           /\ IsPrefix(Decoded(Append(p, t)), Decode(Append(p, t)))
           /\ IsPrefix(Decoded(p), Decoded(Append(p, t)))
<1> DEFINE all == Append(p, t)
           text == FlattenSeq(p)
           longer == FlattenSeq(all)
<1>1. text \in Seq(STRING) /\ longer = text \o t
  BY FlattenGrows
<1>2. longer \in Seq(STRING)
  BY <1>1
<1> HIDE DEF text, longer, all
<1>3. PICK q \in Seq(Letters), r \in Seq(Letters) :
          /\ Continues(r, q)
          /\ \A f : Joining(text, f, Len(text)) => f[Len(text)] = q
          /\ \A f : Joining(text \o t, f, Len(text \o t)) => f[Len(text \o t)] = r
  BY <1>1, JoinedText
<1>4. Decode(p) = Looks(q)
  BY <1>1, <1>3, DecodeIs DEF text
<1>5. Decode(all) = Looks(r)
  <2>1. \A f : Joining(longer, f, Len(longer)) => f[Len(longer)] = r
    BY <1>1, <1>3
  <2> QED BY <1>2, <2>1, DecodeIs DEF longer
<1>6. PICK m \in 0..Len(q) :
          /\ Looks(q) \in Seq(Letters) /\ Len(Looks(q)) = Len(q)
          /\ \A n \in 1..Len(q) : Looks(q)[n] = (IF q[n] \in Halves THEN Replacement ELSE q[n])
          /\ Decoded(p) \in Seq(Letters) /\ Len(Decoded(p)) = m
          /\ \A n \in 1..m : Decoded(p)[n] = Looks(q)[n]
          /\ m # 0 => Looks(q)[m] # Replacement
          /\ \A n \in 1..Len(q) : Looks(q)[n] # Replacement => n <= m
  BY <1>4, DecodedIs
<1>7. PICK k \in 0..Len(r) :
          /\ Looks(r) \in Seq(Letters) /\ Len(Looks(r)) = Len(r)
          /\ \A n \in 1..Len(r) : Looks(r)[n] = (IF r[n] \in Halves THEN Replacement ELSE r[n])
          /\ Decoded(all) \in Seq(Letters) /\ Len(Decoded(all)) = k
          /\ \A n \in 1..k : Decoded(all)[n] = Looks(r)[n]
          /\ k # 0 => Looks(r)[k] # Replacement
          /\ \A n \in 1..Len(r) : Looks(r)[n] # Replacement => n <= k
  BY <1>5, DecodedIs
<1>8. IsPrefix(Decoded(p), Decode(p))
  <2>1. Len(Decoded(p)) <= Len(Looks(q))
    BY <1>6
  <2>2. \A i \in 1..Len(Decoded(p)) : Decoded(p)[i] = Looks(q)[i]
    BY <1>6
  <2>3. Decoded(p) \in Seq(Letters) /\ Looks(q) \in Seq(Letters)
    BY <1>6
  <2>4. IsPrefix(Decoded(p), Looks(q))
    BY <2>1, <2>2, <2>3, PrefixIs
  <2> QED BY <1>4, <2>4
<1>9. IsPrefix(Decoded(all), Decode(all))
  <2>1. Len(Decoded(all)) <= Len(Looks(r))
    BY <1>7
  <2> QED BY <1>5, <1>7, <2>1, PrefixIs
<1>10. Len(q) \in Nat /\ Len(r) \in Nat /\ m \in Nat /\ k \in Nat /\ m <= Len(q) /\ Len(q) <= Len(r)
  BY <1>3 DEF Continues
<1>11. ASSUME NEW n \in 1..m PROVE n \in 1..Len(q) /\ n \in 1..Len(r) /\ Looks(r)[n] = Looks(q)[n]
  <2>1. n \in 1..Len(q) /\ n \in 1..Len(r)
    BY <1>10
  <2>2. n < Len(q) \/ q[n] \notin Halves
    <3>1. CASE n = m
      <4>1. Looks(q)[n] # Replacement /\ m # 0
        BY <1>6, <1>10, <3>1
      <4> QED BY <1>6, <2>1, <4>1
    <3>2. CASE n # m
      BY <1>10, <3>2
    <3> QED BY <3>1, <3>2
  <2>3. r[n] = q[n]
    BY <1>3, <2>1, <2>2 DEF Continues
  <2> QED BY <1>6, <1>7, <2>1, <2>3
<1>12. m <= k
  <2>1. CASE m = 0
    BY <1>10, <2>1
  <2>2. CASE m # 0
    <3>1. m \in 1..m
      BY <1>10, <2>2
    <3>2. m \in 1..Len(r) /\ Looks(r)[m] = Looks(q)[m] /\ Looks(q)[m] # Replacement
      BY <1>6, <1>11, <2>2, <3>1
    <3> QED BY <1>7, <3>2
  <2> QED BY <2>1, <2>2
<1>13. IsPrefix(Decoded(p), Decoded(all))
  <2>1. ASSUME NEW n \in 1..m PROVE Decoded(p)[n] = Decoded(all)[n]
    <3>1. n \in 1..k
      BY <1>10, <1>12
    <3> QED BY <1>6, <1>7, <1>11, <3>1
  <2> QED BY <1>6, <1>7, <1>12, <2>1, PrefixIs
<1> QED BY <1>4, <1>5, <1>6, <1>7, <1>8, <1>9, <1>13 DEF all

\* The listener is given what is certain of the text, as it grows.
LEMMA StreamIs ==
    ASSUME NEW p \in Seq(Seq(STRING)), NEW t \in Seq(STRING), streamed = Decoded(p)
    PROVE  /\ Stream(Append(p, t)) = Decoded(Append(p, t))
           /\ IsPrefix(streamed, Decode(Append(p, t)))
<1> DEFINE full == Decoded(Append(p, t))
<1>1. /\ streamed \in Seq(Letters) /\ full \in Seq(Letters) /\ Decode(Append(p, t)) \in Seq(Letters)
      /\ IsPrefix(streamed, full) /\ IsPrefix(full, Decode(Append(p, t)))
  BY DecodedGrows
<1>2. Stream(Append(p, t)) = (IF Len(full) > Len(streamed) /\ IsPrefix(streamed, full) THEN full ELSE streamed)
  BY Zenon DEF Stream
<1> HIDE DEF full
<1>3. CASE Len(full) > Len(streamed)
  BY <1>1, <1>2, <1>3, PrefixOn DEF full
<1>4. CASE ~ (Len(full) > Len(streamed))
  <2>1. Len(streamed) <= Len(full)
    BY <1>1, PrefixIs
  <2>2. Len(streamed) = Len(full)
    BY <1>1, <1>4, <2>1
  <2>3. streamed = full
    BY <1>1, <2>2, PrefixIs
  <2> QED BY <1>1, <1>2, <2>3, PrefixOn DEF full
<1> QED BY <1>3, <1>4

-----------------------------------------------------------------------------
(* What the turn is told *)

\* While tokens are sampled: no call is over, and only a call is armed.
StillRunning ==
    /\ produced \in Seq(Seq(STRING))
    /\ Len(produced) <= schema.budget
    /\ session.stage # Ended
    /\ armed # {} => session.stage # Prefix
    /\ \A start \in armed : Len(produced) - start < ToolCallCap
    /\ streamed = Decoded(produced)

\* What holds between the tokens, the call and the reason for the end.
ToldInv ==
    /\ schema \in Setups
    /\ IsSession(session)
    /\ armed \in SUBSET Nat
    /\ stop = Running => StillRunning
    /\ ToldAsWritten

LEMMA Reasons ==
    /\ Running # "Token" /\ Running # "ConstraintDone" /\ Running # "CallTooLong" /\ Running # "Loop"
    /\ Running # "Length" /\ Running # "Cancelled" /\ Running # "Forbidden" /\ Running # "Rejected"
    /\ Prefix # Args /\ Prefix # Ended /\ Args # Ended
  BY DEF Running, Prefix, Args, Ended

LEMMA ToldInit ==
    ASSUME Init, \A c \in Setups : c.budget \in Nat
    PROVE  ToldInv
<1>1. /\ schema \in Setups /\ session = Opened /\ produced = <<>> /\ armed = {} /\ streamed = <<>>
      /\ stop = Running
  BY DEF Init
<1>2. IsSession(session) /\ session.stage = Prefix
  BY <1>1 DEF IsSession, Opened
<1>3. produced \in Seq(Seq(STRING))
  BY <1>1
<1>4. streamed = Decoded(produced)
  <2>1. Decoded(<<>>) \in Seq(Letters) /\ IsPrefix(Decoded(<<>>), Decode(<<>>)) /\ Decode(<<>>) \in Seq(Letters)
    <3>1. <<>> \in Seq(Seq(STRING)) /\ <<>> \in Seq(STRING)
      OBVIOUS
    <3> QED BY <3>1, DecodedGrows
  <2>2. FlattenSeq(<<>>) = <<>> /\ Len(<<>>) = 0 /\ <<>> \in Seq(STRING)
    BY DEF FlattenSeq
  <2>3. \A f : Joining(<<>>, f, 0) => f[0] = <<>>
    <3>1. 0 \in Nat
      OBVIOUS
    <3> QED BY <3>1, JoiningStep
  <2>4. Decode(<<>>) = Looks(<<>>)
    BY <2>2, <2>3, DecodeIs
  <2>5. <<>> \in Seq(Letters)
    OBVIOUS
  <2>6. \E m \in 0..Len(<<>>) : Len(Decoded(<<>>)) = m
    BY <2>4, <2>5, DecodedIs
  <2>7. Len(Decoded(<<>>)) = 0
    BY <2>2, <2>6
  <2> HIDE DEF Letters
  <2>8. Decoded(<<>>) = <<>>
    BY <2>1, <2>7, EmptySeq
  <2> QED BY <1>1, <2>8
<1>5. Len(produced) <= schema.budget
  <2>1. Len(produced) = 0 /\ schema.budget \in Nat
    BY <1>1
  <2> QED BY <2>1
<1>6. StillRunning
  BY <1>1, <1>2, <1>3, <1>4, <1>5, Reasons DEF StillRunning
<1>7. EndsAsReported
  BY <1>1, <1>2, Reasons DEF EndsAsReported
<1>8. StreamIsTheAnswer
  <2>1. IsPrefix(Decoded(produced), Decode(produced))
    <3>1. <<>> \in Seq(STRING)
      OBVIOUS
    <3> QED BY <1>3, <3>1, DecodedGrows
  <2> QED BY <1>4, <2>1, Zenon DEF StreamIsTheAnswer
<1> QED BY <1>1, <1>2, <1>6, <1>7, <1>8 DEF ToldInv, ToldAsWritten

\* The end of a generation that leaves its tokens as they are.
LEMMA ToldEnds ==
    ASSUME ToldInv, stop = Running, NEW reason, Ends(reason),
           reason # Running, reason # "ConstraintDone", reason # "CallTooLong", reason # "Loop",
           reason = "Token" => session.stage = Prefix,
           reason = "Length" => Len(produced) >= schema.budget,
           schema.budget \in Nat
    PROVE  ToldInv'
<1>1. /\ schema' = schema /\ session' = session /\ produced' = produced /\ armed' = armed
      /\ streamed' = streamed /\ stop' = reason
  BY DEF Ends
<1>2. IsSession(session') /\ schema' \in Setups /\ armed' \in SUBSET Nat
  BY <1>1 DEF ToldInv
<1>3. StillRunning
  BY DEF ToldInv
<1>4. EndsAsReported'
  <2>1. reason = "Length" => Len(produced) = schema.budget
    <3>1. Len(produced) \in Nat /\ Len(produced) <= schema.budget
      BY <1>3 DEF StillRunning
    <3> QED BY <3>1
  <2> QED BY <1>1, <2>1, Reasons DEF EndsAsReported
<1>5. StreamIsTheAnswer'
  <2>1. IsPrefix(Decoded(produced), Decode(produced))
    <3>1. <<>> \in Seq(STRING) /\ produced \in Seq(Seq(STRING))
      BY <1>3 DEF StillRunning
    <3> QED BY <3>1, DecodedGrows
  <2>2. streamed = Decoded(produced)
    BY <1>3 DEF StillRunning
  <2>3. Decoded(produced)' = Decoded(produced) /\ Decode(produced)' = Decode(produced)
    BY <1>1
  <2> QED BY <1>1, <2>1, <2>2, <2>3, Zenon DEF StreamIsTheAnswer
<1>6. (stop = Running => StillRunning)'
  BY <1>1
<1> QED BY <1>2, <1>4, <1>5, <1>6 DEF ToldInv, ToldAsWritten

LEMMA ToldTaken ==
    ASSUME ToldInv, stop = Running, NEW t \in Seq(STRING), NEW next \in Advance(session, t),
           Taken(t, next), Len(produced) < schema.budget, schema.budget \in Nat, ToolCallCap \in Nat
    PROVE  ToldInv'
<1> DEFINE tokens == Append(produced, t)
           count == Len(tokens)
           since == ArmedBy(next, count)
           over == OverBudget(since, count)
           watching == IsStructural(next) /\ ~over
           stuck == watching /\ IsStuck(watch')
           loops == IsLooping(tokens, LoopThreshold)
<1>1. /\ session' = next /\ armed' = since /\ schema' = schema
      /\ CASE over \/ stuck -> Dropped(tokens)
           [] ~over /\ ~watching /\ loops -> CutLoop(tokens)
           [] OTHER -> Shown(next, tokens)
  BY Zenon DEF Taken
<1>2. StillRunning /\ IsSession(session) /\ produced \in Seq(Seq(STRING)) /\ armed \in SUBSET Nat /\ schema \in Setups
  BY DEF ToldInv, StillRunning
<1>3. IsSession(next) /\ (session.stage # Prefix => next.stage # Prefix)
  <2>1. Len(t) \in Nat
    OBVIOUS
  <2> QED BY <1>2, <2>1, AdvanceKeeps
<1>4. tokens \in Seq(Seq(STRING)) /\ count \in Nat /\ count = Len(produced) + 1 /\ Len(produced) \in Nat
  BY <1>2
<1> HIDE DEF tokens
<1>5. since = IF next.stage = Args /\ armed = {} THEN {count} ELSE armed
  BY DEF ArmedBy, IsStructural
<1> HIDE DEF count
<1>6. since \in SUBSET Nat
  BY <1>2, <1>4, <1>5
<1>7. armed # {} => session.stage # Prefix
  BY <1>2 DEF StillRunning
<1>8. since # {} => next.stage # Prefix
  BY <1>3, <1>5, <1>7, Reasons
<1>9. (next.stage = Prefix => since = {}) /\ (next.stage = Args => since # {})
  BY <1>5, <1>8
<1>10. over => since # {}
  BY DEF OverBudget
<1>11. watching => next.stage = Args
  BY DEF IsStructural
<1>12. ~over => \A start \in since : count - start < ToolCallCap
  <2> SUFFICES ASSUME ~over, NEW start \in since PROVE count - start < ToolCallCap
    OBVIOUS
  <2>1. ~(count - start >= ToolCallCap)
    BY DEF OverBudget
  <2>2. start \in Nat
    BY <1>6
  <2> HIDE DEF over, since
  <2> QED BY <1>4, <2>1, <2>2
<1>13. ~over /\ ~watching => next.stage # Args
  BY DEF IsStructural
<1> HIDE DEF over, since, watching, stuck, loops
<1>14. /\ streamed = Decoded(produced)
       /\ Stream(tokens) = Decoded(tokens) /\ IsPrefix(streamed, Decode(tokens))
       /\ IsPrefix(Decoded(tokens), Decode(tokens))
  <2>1. streamed = Decoded(produced)
    BY <1>2 DEF StillRunning
  <2> QED BY <1>2, <2>1, StreamIs, DecodedGrows DEF tokens
<1>15. schema' \in Setups /\ IsSession(session') /\ armed' \in SUBSET Nat
  BY <1>1, <1>2, <1>3, <1>6
<1>16. CASE over \/ stuck
  <2>1. stop' = "CallTooLong" /\ produced' = tokens /\ streamed' = streamed
    <3>1. Dropped(tokens)
      BY <1>1, <1>16, Zenon DEF stuck
    <3> QED BY <3>1, Zenon DEF Dropped
  <2>2. armed' # {}
    BY <1>1, <1>9, <1>10, <1>11, <1>16 DEF stuck
  <2>3. EndsAsReported'
    BY <2>1, <2>2, Reasons DEF EndsAsReported
  <2>4. StreamIsTheAnswer'
    <3>1. IsPrefix(streamed', Decode(produced)')
      BY <1>14, <2>1
    <3> QED BY <2>1, <3>1, Reasons DEF StreamIsTheAnswer
  <2> QED BY <1>15, <2>1, <2>3, <2>4, Reasons DEF ToldInv, ToldAsWritten
<1>17. CASE ~over /\ ~watching /\ loops
  <2>1. CutLoop(tokens)
    BY <1>1, <1>17 DEF stuck
  <2>2. stop' = "Loop"
    BY <2>1, Zenon DEF CutLoop
  <2>4. EndsAsReported'
    BY <1>1, <1>9, <1>13, <1>17, <2>2, Reasons DEF EndsAsReported
  <2>5. StreamIsTheAnswer'
    BY <2>2, Reasons DEF StreamIsTheAnswer
  <2> QED BY <1>15, <2>2, <2>4, <2>5, Reasons DEF ToldInv, ToldAsWritten
<1>18. CASE ~(over \/ stuck) /\ ~(~over /\ ~watching /\ loops)
  <2>1. Shown(next, tokens)
    BY <1>1, <1>18
  <2>2. /\ produced' = tokens /\ streamed' = Decoded(tokens)
        /\ stop' = IF next.stage = Ended THEN "ConstraintDone" ELSE Running
    BY <1>14, <2>1 DEF Shown, SessionDone
  <2>3. StreamIsTheAnswer'
    <3>1. streamed' = Decoded(produced)' /\ IsPrefix(streamed', Decode(produced)')
      BY <1>14, <2>2
    <3> QED BY <3>1, Zenon DEF StreamIsTheAnswer
  <2>4. \A start \in armed' : Len(produced') - start < ToolCallCap
    BY <1>1, <1>12, <1>18, <2>2 DEF count
  <2>5. CASE next.stage = Ended
    <3>1. stop' = "ConstraintDone" /\ session'.stage = Ended
      BY <1>1, <2>2, <2>5
    <3>2. EndsAsReported'
      BY <3>1, Reasons DEF EndsAsReported
    <3> QED BY <1>15, <2>2, <2>3, <3>1, <3>2, Reasons DEF ToldInv, ToldAsWritten
  <2>6. CASE next.stage # Ended
    <3>1. stop' = Running /\ session'.stage # Ended
      BY <1>1, <2>2, <2>6
    <3>2. EndsAsReported'
      BY <2>4, <3>1, Reasons DEF EndsAsReported
    <3>3. Len(produced') <= schema'.budget
      <4>1. count <= schema.budget
        BY <1>4
      <4> QED BY <1>1, <2>2, <4>1 DEF count
    <3>4. streamed' = Decoded(produced)'
      BY <2>2
    <3>5. StillRunning'
      BY <1>1, <1>4, <1>8, <2>2, <2>4, <3>1, <3>3, <3>4 DEF StillRunning
    <3> QED BY <1>4, <1>15, <2>2, <2>3, <3>2, <3>5 DEF ToldInv, ToldAsWritten
  <2> QED BY <2>5, <2>6
<1> QED BY <1>16, <1>17, <1>18

\* Init and the steps of a generation, one lemma each.
LEMMA ToldNext ==
    ASSUME ToldInv, [Next]_vars, ToolCallCap \in Nat,
           \A c \in Setups : c.vocab \subseteq Seq(STRING) /\ c.budget \in Nat
    PROVE  ToldInv'
<1>1. schema.vocab \subseteq Seq(STRING) /\ schema.budget \in Nat
  BY DEF ToldInv
<1>2. ASSUME UNCHANGED <<schema, session, produced, armed, streamed, stop>> PROVE ToldInv'
  <2>1. Decoded(produced)' = Decoded(produced) /\ Decode(produced)' = Decode(produced)
    BY <1>2
  <2>2. StillRunning' = StillRunning
    BY <1>2, <2>1 DEF StillRunning
  <2>3. StreamIsTheAnswer' = StreamIsTheAnswer
    BY <1>2, <2>1 DEF StreamIsTheAnswer
  <2>4. EndsAsReported' = EndsAsReported
    BY <1>2 DEF EndsAsReported
  <2> QED BY <1>2, <2>2, <2>3, <2>4 DEF ToldInv, ToldAsWritten
<1>3. CASE UNCHANGED vars
  BY <1>2, <1>3 DEF vars
<1>4. CASE Cancel
  BY <1>2, <1>4 DEF Cancel
<1>5. CASE Cut
  <2>1. stop = Running /\ ((Len(produced) >= schema.budget /\ Ends("Length")) \/ Ends("Cancelled"))
    BY <1>5 DEF Cut
  <2>2. CASE Len(produced) >= schema.budget /\ Ends("Length")
    BY <1>1, <2>1, <2>2, Reasons, ToldEnds
  <2>3. CASE Ends("Cancelled")
    BY <1>1, <2>1, <2>3, Reasons, ToldEnds
  <2> QED BY <2>1, <2>2, <2>3
<1>6. CASE Step
  <2>1. stop = Running /\ Len(produced) < schema.budget
    BY <1>6 DEF Step, Generating
  <2>2. \/ Ends("Forbidden")
        \/ \E t \in schema.vocab : Sampleable(t) /\
              \/ t \in schema.stops /\ Ends("Token")
              \/ Ends("Rejected")
              \/ \E next \in Advance(session, t) : Taken(t, next)
    BY <1>6, Zenon DEF Step
  <2>3. CASE Ends("Forbidden")
    BY <1>1, <2>1, <2>3, Reasons, ToldEnds
  <2>4. CASE Ends("Rejected")
    BY <1>1, <2>1, <2>4, Reasons, ToldEnds
  <2>5. ASSUME NEW t \in schema.vocab, Sampleable(t), t \in schema.stops, Ends("Token") PROVE ToldInv'
    <3>1. session.stage # Args
      BY <2>5 DEF Sampleable, IsStructural
    <3>2. session.stage # Ended
      BY <2>1 DEF ToldInv, StillRunning
    <3>3. session.stage = Prefix
      BY <3>1, <3>2 DEF ToldInv, IsSession
    <3> QED BY <1>1, <2>1, <2>5, <3>3, Reasons, ToldEnds
  <2>6. ASSUME NEW t \in schema.vocab, NEW next \in Advance(session, t), Taken(t, next) PROVE ToldInv'
    <3>1. t \in Seq(STRING)
      BY <1>1
    <3> QED BY <1>1, <2>1, <2>6, <3>1, ToldTaken
  <2> QED BY <2>2, <2>3, <2>4, <2>5, <2>6
<1> QED BY <1>3, <1>4, <1>5, <1>6 DEF Next

\* What the turn is told of a generation is what was written: the reason given
\* for its end is the true one, and what was streamed is the text that stands,
\* for every vocabulary, catalog and budget (CandleEngine::run_loop).
THEOREM ToldAsWrittenHolds ==
    ASSUME ToolCallCap \in Nat,
           \A c \in Setups : c.vocab \subseteq Seq(STRING) /\ c.budget \in Nat
    PROVE  Spec => []ToldAsWritten
<1>1. Init => ToldInv
  BY ToldInit
<1>2. ToldInv /\ [Next]_vars => ToldInv'
  BY ToldNext
<1>3. ToldInv => ToldAsWritten
  BY DEF ToldInv
<1> QED BY <1>1, <1>2, <1>3, PTL DEF Spec

-----------------------------------------------------------------------------
(* One more character of a token *)

LEMMA ReachOn ==
    ASSUME NEW s, NEW token, NEW N \in Nat, NEW f, Reaching(s, token, f, N),
           NEW n \in Nat, n + 1 <= N, NEW r \in f[n], NEW q \in Swallow(r, token[n + 1])
    PROVE  q \in f[n + 1]
<1>1. \A k \in 0..N : f[k] = (IF k = 0 THEN {s} ELSE UNION {Swallow(p, token[k]) : p \in f[k - 1]})
  BY Zenon DEF Reaching
<1>2. n + 1 \in 0..N /\ n + 1 # 0 /\ (n + 1) - 1 = n
  OBVIOUS
<1>3. f[n + 1] = UNION {Swallow(p, token[n + 1]) : p \in f[n]}
  BY <1>1, <1>2, Zenon
<1> QED BY <1>3

LEMMA ReachBack ==
    ASSUME NEW s, NEW token, NEW N \in Nat, NEW f, Reaching(s, token, f, N),
           NEW n \in Nat, n + 1 <= N, NEW q \in f[n + 1]
    PROVE  \E r \in f[n] : q \in Swallow(r, token[n + 1])
<1>1. \A k \in 0..N : f[k] = (IF k = 0 THEN {s} ELSE UNION {Swallow(p, token[k]) : p \in f[k - 1]})
  BY Zenon DEF Reaching
<1>2. n + 1 \in 0..N /\ n + 1 # 0 /\ (n + 1) - 1 = n
  OBVIOUS
<1>3. f[n + 1] = UNION {Swallow(p, token[n + 1]) : p \in f[n]}
  BY <1>1, <1>2, Zenon
<1> QED BY <1>3

LEMMA ReachFirst ==
    ASSUME NEW s, NEW token, NEW N \in Nat, NEW f, Reaching(s, token, f, N)
    PROVE  f[0] = {s}
<1>1. \A k \in 0..N : f[k] = (IF k = 0 THEN {s} ELSE UNION {Swallow(p, token[k]) : p \in f[k - 1]})
  BY Zenon DEF Reaching
<1>2. 0 \in 0..N
  OBVIOUS
<1> QED BY <1>1, <1>2, Zenon

LEMMA WalkBack ==
    ASSUME NEW g, NEW token, NEW N \in Nat, NEW w, Walking(g, token, w, N),
           NEW n \in Nat, n + 1 <= N, NEW q \in w[n + 1]
    PROVE  \E h \in w[n] : q \in Walk(h, token[n + 1])
<1>1. \A k \in 0..N : w[k] = (IF k = 0 THEN {g} ELSE UNION {Walk(h, token[k]) : h \in w[k - 1]})
  BY Zenon DEF Walking
<1>2. n + 1 \in 0..N /\ n + 1 # 0 /\ (n + 1) - 1 = n
  OBVIOUS
<1>3. w[n + 1] = UNION {Walk(h, token[n + 1]) : h \in w[n]}
  BY <1>1, <1>2, Zenon
<1> QED BY <1>3

LEMMA WalkOn ==
    ASSUME NEW g, NEW token, NEW N \in Nat, NEW w, Walking(g, token, w, N),
           NEW n \in Nat, n + 1 <= N, NEW h \in w[n], NEW q \in Walk(h, token[n + 1])
    PROVE  q \in w[n + 1]
<1>1. \A k \in 0..N : w[k] = (IF k = 0 THEN {g} ELSE UNION {Walk(p, token[k]) : p \in w[k - 1]})
  BY Zenon DEF Walking
<1>2. n + 1 \in 0..N /\ n + 1 # 0 /\ (n + 1) - 1 = n
  OBVIOUS
<1>3. w[n + 1] = UNION {Walk(p, token[n + 1]) : p \in w[n]}
  BY <1>1, <1>2, Zenon
<1> QED BY <1>3

LEMMA WalkFirst ==
    ASSUME NEW g, NEW token, NEW N \in Nat, NEW w, Walking(g, token, w, N)
    PROVE  w[0] = {g}
<1>1. \A k \in 0..N : w[k] = (IF k = 0 THEN {g} ELSE UNION {Walk(p, token[k]) : p \in w[k - 1]})
  BY Zenon DEF Walking
<1>2. 0 \in 0..N
  OBVIOUS
<1> QED BY <1>1, <1>2, Zenon

LEMMA GoBack ==
    ASSUME NEW root, NEW rest, NEW N \in Nat, NEW a, Going(root, rest, a, N),
           NEW n \in Nat, n + 1 <= N, NEW q \in a[n + 1]
    PROVE  \E g \in a[n] : q \in FeedChar(g, rest[n + 1])
<1>1. \A k \in 0..N : a[k] = (IF k = 0 THEN {StartAt(root)} ELSE UNION {FeedChar(g, rest[k]) : g \in a[k - 1]})
  BY Zenon DEF Going
<1>2. n + 1 \in 0..N /\ n + 1 # 0 /\ (n + 1) - 1 = n
  OBVIOUS
<1>3. a[n + 1] = UNION {FeedChar(g, rest[n + 1]) : g \in a[n]}
  BY <1>1, <1>2, Zenon
<1> QED BY <1>3

LEMMA GoFirst ==
    ASSUME NEW root, NEW rest, NEW N \in Nat, NEW a, Going(root, rest, a, N)
    PROVE  a[0] = {StartAt(root)}
<1>1. \A k \in 0..N : a[k] = (IF k = 0 THEN {StartAt(root)} ELSE UNION {FeedChar(p, rest[k]) : p \in a[k - 1]})
  BY Zenon DEF Going
<1>2. 0 \in 0..N
  OBVIOUS
<1> QED BY <1>1, <1>2, Zenon

\* Walked and RemainderConforms read those functions.
LEMMA WalkedIs ==
    ASSUME NEW g, NEW token, Len(token) \in Nat
    PROVE  \E w : Walking(g, token, w, Len(token)) /\ Walked(g, token) = w[Len(token)]
<1> DEFINE chosen == CHOOSE w : Walking(g, token, w, Len(token))
<1>1. Walking(g, token, chosen, Len(token))
  BY WalkingThere
<1>2. Walked(g, token) = chosen[Len(token)]
  BY Zenon DEF Walked, Walking
<1> HIDE DEF chosen
<1> QED BY <1>1, <1>2

LEMMA ConformsIs ==
    ASSUME NEW t, NEW rest, Len(rest) \in Nat, RemainderConforms(t, rest)
    PROVE  \E a : /\ Going(t.root, rest, a, Len(rest))
                  /\ \/ /\ OptionalOnly(t)
                        /\ \E n \in DOMAIN rest : rest[n] = ")" /\ \A k \in DOMAIN rest \ {n} : rest[k] = " "
                     \/ \E n \in DOMAIN rest : rest[n] = ")" /\ \E g \in a[n - 1] : IsDone(g)
                     \/ a[Len(rest)] # {}
<1> DEFINE chosen == CHOOSE a : Going(t.root, rest, a, Len(rest))
<1>1. Going(t.root, rest, chosen, Len(rest))
  BY GoingThere
<1>2. \/ /\ OptionalOnly(t)
         /\ \E n \in DOMAIN rest : rest[n] = ")" /\ \A k \in DOMAIN rest \ {n} : rest[k] = " "
      \/ \E n \in DOMAIN rest : rest[n] = ")" /\ \E g \in chosen[n - 1] : IsDone(g)
      \/ chosen[Len(rest)] # {}
  BY Zenon DEF RemainderConforms, Going
<1> HIDE DEF chosen
<1> QED BY <1>1, <1>2

-----------------------------------------------------------------------------
(* The walk along a token and the automaton itself, inside free text *)

\* A state with frame f on top of what is below.
Over(below, f, run) == [stack |-> Append(below, f), run |-> run]

Longer(f, length) == [f EXCEPT !.length = length]

LEMMA OverIs ==
    ASSUME NEW below \in Seq(Frames), NEW f \in Frames, NEW run
    PROVE  /\ ~ IsDone(Over(below, f, run)) /\ Top(Over(below, f, run)) = f
           /\ Front(Append(below, f)) = below
           /\ \A g : WithTop(Over(below, f, run), g) = Over(below, g, run)
<1> DEFINE stack == Append(below, f)
<1>1. /\ stack \in Seq(Frames) /\ stack # <<>> /\ Len(stack) = Len(below) + 1
      /\ \A i \in 1..Len(below) : stack[i] = below[i]
      /\ stack[Len(below) + 1] = f
  BY AppendProperties
<1>2. Len(below) \in Nat
  OBVIOUS
<1> HIDE DEF stack
<1>3. Over(below, f, run) = [stack |-> stack, run |-> run]
  BY DEF Over, stack
<1>4. Last(stack) = f
  BY <1>1 DEF Last
<1>5. /\ Front(stack) \in Seq(Frames) /\ Len(Front(stack)) = Len(below)
      /\ \A i \in 1..Len(below) : Front(stack)[i] = below[i]
  <2> DEFINE front == Front(stack)
  <2>1. /\ front \in Seq(Frames) /\ Len(front) = Len(stack) - 1
        /\ \A i \in 1..Len(stack) - 1 : front[i] = stack[i]
    BY <1>1, StackIs
  <2> HIDE DEF front
  <2>2. Len(stack) - 1 = Len(below)
    BY <1>1, <1>2
  <2>3. \A i \in 1..Len(below) : front[i] = below[i]
    BY <1>1, <2>1, <2>2
  <2> QED BY <2>1, <2>2, <2>3 DEF front
<1>6. Front(stack) = below
  BY <1>5, SeqEqual
<1>7. \A g : WithTop(Over(below, f, run), g) = Over(below, g, run)
  <2> SUFFICES ASSUME NEW g PROVE WithTop(Over(below, f, run), g) = Over(below, g, run)
    OBVIOUS
  <2> DEFINE other == Append(below, g)
  <2>1. WithTop(Over(below, f, run), g) = [Over(below, f, run) EXCEPT !.stack = other]
    BY <1>3, <1>6 DEF WithTop
  <2> HIDE DEF other
  <2>2. [Over(below, f, run) EXCEPT !.stack = other] = [stack |-> other, run |-> run]
    BY <1>3
  <2> QED BY <2>1, <2>2 DEF Over, other
<1>8. Over(below, f, run).stack = stack
  BY <1>3
<1>9. ~ IsDone(Over(below, f, run)) /\ Top(Over(below, f, run)) = f
  BY <1>1, <1>4, <1>8 DEF IsDone, Top
<1>10. Front(Append(below, f)) = below
  BY <1>6 DEF stack
<1> QED BY <1>7, <1>9, <1>10

LEMMA OverAgain ==
    ASSUME NEW s \in [stack : Seq(Frames), run : Nat], ~ IsDone(s)
    PROVE  /\ Front(s.stack) \in Seq(Frames) /\ Top(s) \in Frames
           /\ s = Over(Front(s.stack), Top(s), s.run)
<1> DEFINE front == Front(s.stack)
           stack == Append(front, Top(s))
<1>1. s.stack # <<>> /\ s.stack \in Seq(Frames)
  BY DEF IsDone
<1>2. /\ front \in Seq(Frames) /\ Len(front) = Len(s.stack) - 1
      /\ \A i \in 1..Len(s.stack) - 1 : front[i] = s.stack[i]
      /\ Top(s) = s.stack[Len(s.stack)] /\ Len(s.stack) \in Nat \ {0}
      /\ Top(s) \in Frames
  BY <1>1, StackIs DEF Top
<1> HIDE DEF front
<1>3. /\ stack \in Seq(Frames) /\ Len(stack) = Len(front) + 1
      /\ \A i \in 1..Len(front) : stack[i] = front[i]
      /\ stack[Len(front) + 1] = Top(s)
  BY <1>2, AppendProperties
<1> HIDE DEF stack
<1>4. Len(stack) = Len(s.stack)
  BY <1>2, <1>3
<1>5. \A i \in 1..Len(stack) : stack[i] = s.stack[i]
  <2>1. SUFFICES ASSUME NEW i \in 1..Len(stack) PROVE stack[i] = s.stack[i]
    OBVIOUS
  <2>2. CASE i = Len(s.stack)
    <3>1. i = Len(front) + 1
      BY <1>2, <2>2
    <3> QED BY <1>2, <1>3, <2>2, <3>1
  <2>3. CASE i # Len(s.stack)
    <3>1. i \in 1..Len(s.stack) - 1 /\ i \in 1..Len(front)
      BY <1>2, <1>4, <2>3
    <3> QED BY <1>2, <1>3, <3>1
  <2> QED BY <2>2, <2>3
<1>6. stack = s.stack
  BY <1>1, <1>3, <1>4, <1>5, SeqEqual
<1>7. s = [stack |-> s.stack, run |-> s.run]
  OBVIOUS
<1> QED BY <1>2, <1>6, <1>7 DEF Over, stack, front

LEMMA OverClosed ==
    ASSUME NEW below \in Seq(Frames), NEW f \in Frames, NEW g \in Frames, NEW run
    PROVE  Closed(Over(below, f, run)) = Closed(Over(below, g, run))
<1>1. Front(Append(below, f)) = below /\ Front(Append(below, g)) = below
  BY OverIs
<1> DEFINE next == IF below = <<>> THEN below
                   ELSE Append(Front(below),
                            IF Last(below).kind = "object" THEN [Last(below) EXCEPT !.stage = "AfterValue"]
                            ELSE [Last(below) EXCEPT !.stage = "AfterItem", !.count = @ + 1])
<1>2. ASSUME NEW h \in {f, g} PROVE Closed(Over(below, h, run)) = [Over(below, h, run) EXCEPT !.stack = next]
  <2>1. Front(Over(below, h, run).stack) = below
    BY <1>1, <1>2 DEF Over
  <2> QED BY <2>1 DEF Closed
<1> HIDE DEF next
<1>3. ASSUME NEW h PROVE [Over(below, h, run) EXCEPT !.stack = next] = [stack |-> next, run |-> run]
  BY DEF Over
<1> QED BY <1>2, <1>3

\* The walk does not count the characters of free text: the automaton's text is
\* the longer one, and has room for the `left` characters a token may still have.
Follow(h, r, left) ==
    \/ h = r
    \/ \E below \in Seq(Frames), f \in TextFrames, length \in Nat, a \in Nat, b \in Nat :
          /\ h = Over(below, f, a) /\ r = Over(below, Longer(f, length), b)
          /\ Node(f.node).max = {}
          /\ f.length <= length /\ length + left < TextCeiling

LEMMA SameText ==
    ASSUME NEW f \in TextFrames, NEW length \in Nat
    PROVE  /\ Longer(f, length) \in TextFrames /\ Longer(f, length).length = length
           /\ Longer(f, length).kind = "text" /\ f.kind = "text"
           /\ Longer(f, length).node = f.node /\ Longer(f, length).stage = f.stage
           /\ Longer(f, length).value = f.value /\ Longer(f, length).left = f.left
           /\ Longer(f, length).low = f.low
           /\ Longer(f, f.length) = f
           /\ f.length \in Nat /\ f.length + 1 \in Nat
BY DEF TextFrames, Longer

LEMMA TextOver ==
    ASSUME NEW f \in TextFrames
    PROVE  f \in Frames
BY DEF Frames

\* The changes FeedText makes to a frame that stays, but for the length.
LEMMA LongerStage ==
    ASSUME NEW f \in TextFrames, NEW length \in Nat, NEW stage \in {"Body", "Escape", "LowEscape", "LowU", "Hex"}
    PROVE  /\ [f EXCEPT !.stage = stage] \in TextFrames
           /\ [f EXCEPT !.stage = stage].node = f.node /\ [f EXCEPT !.stage = stage].length = f.length
           /\ [Longer(f, length) EXCEPT !.stage = stage] = Longer([f EXCEPT !.stage = stage], length)
BY DEF TextFrames, Longer

LEMMA LongerHex ==
    ASSUME NEW f \in TextFrames, NEW length \in Nat, NEW low \in BOOLEAN
    PROVE  LET g == [f EXCEPT !.stage = "Hex", !.value = 0, !.left = 4, !.low = low] IN
           /\ g \in TextFrames /\ g.node = f.node /\ g.length = f.length
           /\ [Longer(f, length) EXCEPT !.stage = "Hex", !.value = 0, !.left = 4, !.low = low]
                  = Longer(g, length)
<1> DEFINE e == [f EXCEPT !.stage = "Hex"]
           d == [[[e EXCEPT !.value = 0] EXCEPT !.left = 4] EXCEPT !.low = low]
<1>1. /\ [f EXCEPT !.stage = "Hex", !.value = 0, !.left = 4, !.low = low] = d
      /\ [Longer(f, length) EXCEPT !.stage = "Hex", !.value = 0, !.left = 4, !.low = low]
             = [[[[Longer(f, length) EXCEPT !.stage = "Hex"] EXCEPT !.value = 0] EXCEPT !.left = 4] EXCEPT !.low = low]
  OBVIOUS
<1>2. /\ e \in TextFrames /\ e.node = f.node /\ e.length = f.length
      /\ [Longer(f, length) EXCEPT !.stage = "Hex"] = Longer(e, length)
  BY LongerStage
<1> HIDE DEF e
<1>3. ASSUME NEW v \in Int, NEW l \in Int
      PROVE  LET g == [[[e EXCEPT !.value = v] EXCEPT !.left = l] EXCEPT !.low = low] IN
             /\ g \in TextFrames /\ g.node = e.node /\ g.length = e.length
             /\ [[[[e EXCEPT !.length = length] EXCEPT !.value = v] EXCEPT !.left = l] EXCEPT !.low = low]
                    = [g EXCEPT !.length = length]
  <2>1. ASSUME NEW x \in TextFrames
        PROVE  /\ [x EXCEPT !.value = v] \in TextFrames /\ [x EXCEPT !.left = l] \in TextFrames
               /\ [x EXCEPT !.low = low] \in TextFrames /\ [x EXCEPT !.length = length] \in TextFrames
               /\ [x EXCEPT !.value = v].node = x.node /\ [x EXCEPT !.value = v].length = x.length
               /\ [x EXCEPT !.left = l].node = x.node /\ [x EXCEPT !.left = l].length = x.length
               /\ [x EXCEPT !.low = low].node = x.node /\ [x EXCEPT !.low = low].length = x.length
               /\ [[x EXCEPT !.length = length] EXCEPT !.value = v] = [[x EXCEPT !.value = v] EXCEPT !.length = length]
               /\ [[x EXCEPT !.length = length] EXCEPT !.left = l] = [[x EXCEPT !.left = l] EXCEPT !.length = length]
               /\ [[x EXCEPT !.length = length] EXCEPT !.low = low] = [[x EXCEPT !.low = low] EXCEPT !.length = length]
    BY DEF TextFrames
  <2> DEFINE a == [e EXCEPT !.value = v]
             b == [a EXCEPT !.left = l]
  <2>2. a \in TextFrames /\ a.node = e.node /\ a.length = e.length
        /\ [[e EXCEPT !.length = length] EXCEPT !.value = v] = [a EXCEPT !.length = length]
    BY <1>2, <2>1
  <2> HIDE DEF a
  <2>3. b \in TextFrames /\ b.node = e.node /\ b.length = e.length
        /\ [[a EXCEPT !.length = length] EXCEPT !.left = l] = [b EXCEPT !.length = length]
    BY <2>1, <2>2
  <2> HIDE DEF b
  <2>4. /\ [b EXCEPT !.low = low] \in TextFrames /\ [b EXCEPT !.low = low].node = e.node
        /\ [b EXCEPT !.low = low].length = e.length
        /\ [[b EXCEPT !.length = length] EXCEPT !.low = low] = [[b EXCEPT !.low = low] EXCEPT !.length = length]
    BY <2>1, <2>3
  <2> QED BY <2>2, <2>3, <2>4, Zenon DEF a, b
<1>4. 0 \in Int /\ 4 \in Int
  OBVIOUS
<1>5. /\ d \in TextFrames /\ d.node = e.node /\ d.length = e.length
      /\ [[[[e EXCEPT !.length = length] EXCEPT !.value = 0] EXCEPT !.left = 4] EXCEPT !.low = low]
             = [d EXCEPT !.length = length]
  BY <1>3, <1>4
<1> HIDE DEF d
<1> QED BY <1>1, <1>2, <1>5, Zenon DEF Longer

\* The frames FeedText leaves on top.
Staged(f, stage) == [f EXCEPT !.stage = stage]
Grown(f) == [f EXCEPT !.stage = "Body", !.length = f.length + 1]
Hexed(f, low) == [f EXCEPT !.stage = "Hex", !.value = 0, !.left = 4, !.low = low]
Digited(f, value, left) == [f EXCEPT !.value = value, !.left = left]

LEMMA StagedIs ==
    ASSUME NEW f \in TextFrames, NEW length \in Nat, NEW stage \in {"Body", "Escape", "LowEscape", "LowU", "Hex"}
    PROVE  /\ Staged(f, stage) \in TextFrames
           /\ Staged(f, stage).node = f.node /\ Staged(f, stage).length = f.length
           /\ Staged(Longer(f, length), stage) = Longer(Staged(f, stage), length)
BY DEF TextFrames, Longer, Staged

LEMMA GrownIs ==
    ASSUME NEW f \in TextFrames, NEW length \in Nat
    PROVE  /\ Grown(f) \in TextFrames /\ Grown(f).node = f.node /\ Grown(f).length = f.length + 1
           /\ Grown(Longer(f, length)) = Longer(Grown(f), length + 1)
<1> DEFINE e == Staged(f, "Body")
           x == Staged(Longer(f, length), "Body")
<1>1. /\ e \in TextFrames /\ e.node = f.node /\ e.length = f.length /\ x = Longer(e, length)
      /\ f.length + 1 \in Nat /\ Longer(f, length).length = length
  BY StagedIs, SameText
<1>2. Grown(f) = [e EXCEPT !.length = f.length + 1]
  BY DEF Grown, Staged
<1>3. Grown(Longer(f, length)) = [x EXCEPT !.length = length + 1]
  BY <1>1 DEF Grown, Staged
<1> HIDE DEF e, x
<1>4. ASSUME NEW more \in Nat, NEW most \in Nat
      PROVE  /\ [e EXCEPT !.length = more] \in TextFrames /\ [e EXCEPT !.length = more].node = e.node
             /\ [e EXCEPT !.length = more].length = more
             /\ [Longer(e, length) EXCEPT !.length = most] = Longer([e EXCEPT !.length = more], most)
  BY <1>1 DEF TextFrames, Longer
<1> DEFINE y == f.length + 1
           z == length + 1
<1>5. y \in Nat /\ z \in Nat
  BY <1>1
<1> HIDE DEF y, z
<1>6. /\ [e EXCEPT !.length = y] \in TextFrames /\ [e EXCEPT !.length = y].node = e.node
      /\ [e EXCEPT !.length = y].length = y
      /\ [Longer(e, length) EXCEPT !.length = z] = Longer([e EXCEPT !.length = y], z)
  BY <1>4, <1>5, Zenon
<1>7. Grown(f) = [e EXCEPT !.length = y] /\ Grown(Longer(f, length)) = [Longer(e, length) EXCEPT !.length = z]
  BY <1>1, <1>2, <1>3, Zenon DEF y, z
<1> QED BY <1>1, <1>6, <1>7, Zenon DEF y, z

LEMMA HexedIs ==
    ASSUME NEW f \in TextFrames, NEW length \in Nat, NEW low \in BOOLEAN
    PROVE  /\ Hexed(f, low) \in TextFrames /\ Hexed(f, low).node = f.node /\ Hexed(f, low).length = f.length
           /\ Hexed(Longer(f, length), low) = Longer(Hexed(f, low), length)
BY LongerHex DEF Hexed

LEMMA DigitedIs ==
    ASSUME NEW f \in TextFrames, NEW length \in Nat, NEW value \in Int, NEW left \in Int
    PROVE  /\ Digited(f, value, left) \in TextFrames
           /\ Digited(f, value, left).node = f.node /\ Digited(f, value, left).length = f.length
           /\ Digited(Longer(f, length), value, left) = Longer(Digited(f, value, left), length)
<1> DEFINE e == [f EXCEPT !.value = value]
<1>1. /\ Digited(f, value, left) = [e EXCEPT !.left = left]
      /\ Digited(Longer(f, length), value, left) = [[[f EXCEPT !.length = length] EXCEPT !.value = value] EXCEPT !.left = left]
  BY DEF Digited, Longer
<1>2. /\ e \in TextFrames /\ e.node = f.node /\ e.length = f.length
      /\ [[f EXCEPT !.length = length] EXCEPT !.value = value] = [e EXCEPT !.length = length]
  BY DEF TextFrames
<1> HIDE DEF e
<1>3. /\ [e EXCEPT !.left = left] \in TextFrames /\ [e EXCEPT !.left = left].node = e.node
      /\ [e EXCEPT !.left = left].length = e.length
      /\ [[e EXCEPT !.length = length] EXCEPT !.left = left] = [[e EXCEPT !.left = left] EXCEPT !.length = length]
  BY <1>2 DEF TextFrames
<1> QED BY <1>1, <1>2, <1>3, Zenon DEF Longer

\* What FeedText does to a text that has room, character by character.
Feeds(t, f, c) ==
    LET To(stage) == {WithTop(t, Staged(f, stage))}
        OneMore == {WithTop(t, Grown(f))}
        Hex(low) == {WithTop(t, Hexed(f, low))}
        value == f.value * 16 + Worth(c)
    IN /\ f.stage = "Body" /\ c = Quote => FeedText(t, c) = {Closed(t)}
       /\ f.stage = "Body" /\ c = "\\" => FeedText(t, c) = To("Escape")
       /\ f.stage = "Body" /\ c \notin {Quote, "\\", "ctl"} => FeedText(t, c) = OneMore
       /\ f.stage = "Body" /\ c = "ctl" => FeedText(t, c) = {}
       /\ f.stage = "Escape" /\ c = "u" => FeedText(t, c) = Hex(FALSE)
       /\ f.stage = "Escape" /\ c # "u" /\ c \in Escapes => FeedText(t, c) = OneMore
       /\ f.stage = "Escape" /\ c # "u" /\ c \notin Escapes => FeedText(t, c) = {}
       /\ f.stage = "LowEscape" /\ c = "\\" => FeedText(t, c) = To("LowU")
       /\ f.stage = "LowEscape" /\ c # "\\" => FeedText(t, c) = {}
       /\ f.stage = "LowU" /\ c = "u" => FeedText(t, c) = Hex(TRUE)
       /\ f.stage = "LowU" /\ c # "u" => FeedText(t, c) = {}
       /\ f.stage = "Hex" /\ (c \notin HexDigits \/ ~ HexFits(value, f.left - 1, f.low)) => FeedText(t, c) = {}
       /\ f.stage = "Hex" /\ c \in HexDigits /\ HexFits(value, f.left - 1, f.low) =>
             FeedText(t, c) = IF f.left > 1 THEN {WithTop(t, Digited(f, value, f.left - 1))}
                              ELSE IF IsHigh(value) THEN To("LowEscape") ELSE OneMore

LEMMA FeedsSo ==
    ASSUME NEW t, NEW f \in TextFrames, f = Top(t), f.length < TextCeiling, Node(f.node).max = {}, NEW c
    PROVE  Feeds(t, f, c)
<1>1. BodyLimit(Node(f.node)) = TextCeiling
  BY DEF BodyLimit
<1>2. CASE f.stage = "Body"
  BY <1>1, <1>2 DEF Feeds, FeedText, Staged, Grown, Hexed, Digited, BreaksFreeText, Quote
<1>3. CASE f.stage = "Escape"
  BY <1>3 DEF Feeds, FeedText, Staged, Grown, Hexed, Digited, Escapes, Quote
<1>4. CASE f.stage = "LowEscape"
  BY <1>4 DEF Feeds, FeedText, Staged, Grown, Hexed, Digited
<1>5. CASE f.stage = "LowU"
  BY <1>5 DEF Feeds, FeedText, Staged, Grown, Hexed, Digited
<1>6. CASE f.stage = "Hex"
  BY <1>6 DEF Feeds, FeedText, Staged, Grown, Hexed, Digited
<1>7. f.stage \in {"Body", "Escape", "LowEscape", "LowU", "Hex"}
  BY DEF TextFrames
<1> QED BY <1>2, <1>3, <1>4, <1>5, <1>6, <1>7

\* The text g of the walk is followed by a longer one, which is among `others`.
Followed(h, others, below, a, b, node, left) ==
    \E g \in TextFrames, more \in Nat :
        /\ h = Over(below, g, a) /\ Over(below, Longer(g, more), b) \in others
        /\ g.node = node /\ g.length <= more /\ more + left < TextCeiling

LEMMA FollowedIs ==
    ASSUME NEW below, NEW a, NEW b, NEW node, NEW left, NEW others, NEW g \in TextFrames, NEW more \in Nat,
           g.node = node, g.length <= more, more + left < TextCeiling, Over(below, Longer(g, more), b) \in others
    PROVE  Followed(Over(below, g, a), others, below, a, b, node, left)
BY DEF Followed

LEMMA TextFollows ==
    ASSUME NEW below, NEW a, NEW b, NEW left \in Nat, NEW f \in TextFrames, NEW length \in Nat, TextCeiling \in Nat,
           f.length <= length, length + 1 + left < TextCeiling,
           NEW s, NEW r, Top(s) = f, Top(r) = Longer(f, length), Node(f.node).max = {},
           \A g : WithTop(s, g) = Over(below, g, a), \A g : WithTop(r, g) = Over(below, g, b),
           NEW c, NEW h \in FeedText(s, c)
    PROVE  \/ c = Quote /\ h = Closed(s) /\ Closed(r) \in FeedText(r, c)
           \/ Followed(h, FeedText(r, c), below, a, b, f.node, left)
<1> DEFINE others == FeedText(r, c)
           e == Longer(f, length)
           value == f.value * 16 + Worth(c)
           owed == f.left - 1
           Goal == \/ c = Quote /\ h = Closed(s) /\ Closed(r) \in others
                   \/ Followed(h, others, below, a, b, f.node, left)
<1>1. /\ e \in TextFrames /\ e.length = length /\ e.node = f.node /\ e.stage = f.stage
      /\ e.value = f.value /\ e.left = f.left /\ e.low = f.low /\ f.length \in Nat
  BY SameText
<1>2. length + left < TextCeiling /\ length < TextCeiling /\ f.length < TextCeiling
  BY <1>1
<1>3. Feeds(s, f, c)
  BY <1>2, FeedsSo
<1>4. Feeds(r, e, c)
  BY <1>1, <1>2, FeedsSo
<1>5. f.stage \in {"Body", "Escape", "LowEscape", "LowU", "Hex"}
  BY DEF TextFrames
<1> SUFFICES Goal
  OBVIOUS
<1> HIDE DEF Goal
<1>6. ASSUME NEW stage \in {"Body", "Escape", "LowEscape", "LowU", "Hex"},
             FeedText(s, c) = {WithTop(s, Staged(f, stage))},
             FeedText(r, c) = {WithTop(r, Staged(e, stage))}
      PROVE  Goal
  <2>1. Over(below, Staged(e, stage), b) \in others
    BY <1>6
  <2>2. h = Over(below, Staged(f, stage), a)
    BY <1>6
  <2> HIDE DEF others
  <2>3. /\ Staged(f, stage) \in TextFrames /\ Staged(f, stage).node = f.node /\ Staged(f, stage).length <= length
        /\ Over(below, Longer(Staged(f, stage), length), b) \in others
    BY <2>1, StagedIs
  <2> QED BY <1>2, <2>2, <2>3, FollowedIs DEF Goal
<1>7. ASSUME FeedText(s, c) = {WithTop(s, Grown(f))},
             FeedText(r, c) = {WithTop(r, Grown(e))}
      PROVE  Goal
  <2>1. Over(below, Grown(e), b) \in others
    BY <1>7
  <2>2. h = Over(below, Grown(f), a)
    BY <1>7
  <2> HIDE DEF others
  <2>3. /\ Grown(f) \in TextFrames /\ Grown(f).node = f.node /\ Grown(f).length <= length + 1 /\ length + 1 \in Nat
        /\ Over(below, Longer(Grown(f), length + 1), b) \in others
    BY <1>1, <2>1, GrownIs
  <2> QED BY <2>2, <2>3, FollowedIs DEF Goal
<1>8. ASSUME NEW low \in BOOLEAN,
             FeedText(s, c) = {WithTop(s, Hexed(f, low))},
             FeedText(r, c) = {WithTop(r, Hexed(e, low))}
      PROVE  Goal
  <2>1. Over(below, Hexed(e, low), b) \in others
    BY <1>8
  <2>2. h = Over(below, Hexed(f, low), a)
    BY <1>8
  <2> HIDE DEF others
  <2>3. /\ Hexed(f, low) \in TextFrames /\ Hexed(f, low).node = f.node /\ Hexed(f, low).length <= length
        /\ Over(below, Longer(Hexed(f, low), length), b) \in others
    BY <2>1, HexedIs
  <2> QED BY <1>2, <2>2, <2>3, FollowedIs DEF Goal
<1>9. ASSUME value \in Int, owed \in Int,
             FeedText(s, c) = {WithTop(s, Digited(f, value, owed))},
             FeedText(r, c) = {WithTop(r, Digited(e, value, owed))}
      PROVE  Goal
  <2> HIDE DEF value, owed
  <2>1. Over(below, Digited(e, value, owed), b) \in others
    BY <1>9
  <2>2. h = Over(below, Digited(f, value, owed), a)
    BY <1>9
  <2> HIDE DEF others
  <2> DEFINE g == Digited(f, value, owed)
  <2>3. /\ g \in TextFrames /\ g.node = f.node /\ g.length <= length
        /\ Over(below, Longer(g, length), b) \in others
    BY <1>9, <2>1, DigitedIs
  <2> QED BY <1>2, <2>2, <2>3, FollowedIs DEF Goal
<1>10. CASE f.stage = "Body"
  <2>1. CASE c = Quote
    BY <1>1, <1>3, <1>4, <1>10, <2>1 DEF Goal, Feeds
  <2>2. CASE c = "\\"
    <3>1. /\ FeedText(s, c) = {WithTop(s, Staged(f, "Escape"))}
          /\ FeedText(r, c) = {WithTop(r, Staged(e, "Escape"))}
      BY <1>1, <1>3, <1>4, <1>10, <2>2 DEF Feeds
    <3> QED BY <1>6, <3>1, Zenon
  <2>3. CASE c \notin {Quote, "\\", "ctl"}
    <3>1. /\ FeedText(s, c) = {WithTop(s, Grown(f))}
          /\ FeedText(r, c) = {WithTop(r, Grown(e))}
      BY <1>1, <1>3, <1>4, <1>10, <2>3 DEF Feeds
    <3> QED BY <1>7, <3>1, Zenon
  <2>4. CASE c = "ctl"
    BY <1>3, <1>10, <2>4 DEF Feeds
  <2> QED BY <2>1, <2>2, <2>3, <2>4
<1>11. CASE f.stage = "Escape"
  <2>1. CASE c = "u"
    <3>1. /\ FeedText(s, c) = {WithTop(s, Hexed(f, FALSE))}
          /\ FeedText(r, c) = {WithTop(r, Hexed(e, FALSE))}
      BY <1>1, <1>3, <1>4, <1>11, <2>1 DEF Feeds
    <3> QED BY <1>8, <3>1, Zenon
  <2>2. CASE c # "u" /\ c \in Escapes
    <3>1. /\ FeedText(s, c) = {WithTop(s, Grown(f))}
          /\ FeedText(r, c) = {WithTop(r, Grown(e))}
      BY <1>1, <1>3, <1>4, <1>11, <2>2 DEF Feeds
    <3> QED BY <1>7, <3>1, Zenon
  <2>3. CASE c # "u" /\ c \notin Escapes
    BY <1>3, <1>11, <2>3 DEF Feeds
  <2> QED BY <2>1, <2>2, <2>3
<1>12. CASE f.stage = "LowEscape"
  <2>1. CASE c = "\\"
    <3>1. /\ FeedText(s, c) = {WithTop(s, Staged(f, "LowU"))}
          /\ FeedText(r, c) = {WithTop(r, Staged(e, "LowU"))}
      BY <1>1, <1>3, <1>4, <1>12, <2>1 DEF Feeds
    <3> QED BY <1>6, <3>1, Zenon
  <2>2. CASE c # "\\"
    BY <1>3, <1>12, <2>2 DEF Feeds
  <2> QED BY <2>1, <2>2
<1>13. CASE f.stage = "LowU"
  <2>1. CASE c = "u"
    <3>1. /\ FeedText(s, c) = {WithTop(s, Hexed(f, TRUE))}
          /\ FeedText(r, c) = {WithTop(r, Hexed(e, TRUE))}
      BY <1>1, <1>3, <1>4, <1>13, <2>1 DEF Feeds
    <3> QED BY <1>8, <3>1, Zenon
  <2>2. CASE c # "u"
    BY <1>3, <1>13, <2>2 DEF Feeds
  <2> QED BY <2>1, <2>2
<1>14. CASE f.stage = "Hex"
  <2>1. CASE c \notin HexDigits \/ ~ HexFits(value, f.left - 1, f.low)
    BY <1>3, <1>14, <2>1 DEF Feeds
  <2>2. CASE c \in HexDigits /\ HexFits(value, f.left - 1, f.low)
    <3>1. /\ FeedText(s, c) = IF f.left > 1 THEN {WithTop(s, Digited(f, value, owed))}
                              ELSE IF IsHigh(value) THEN {WithTop(s, Staged(f, "LowEscape"))}
                              ELSE {WithTop(s, Grown(f))}
          /\ FeedText(r, c) = IF f.left > 1 THEN {WithTop(r, Digited(e, value, owed))}
                              ELSE IF IsHigh(value) THEN {WithTop(r, Staged(e, "LowEscape"))}
                              ELSE {WithTop(r, Grown(e))}
      BY <1>1, <1>3, <1>4, <1>14, <2>2 DEF Feeds
    <3>2. value \in Int /\ owed \in Int
      <4>1. Worth(c) \in Int /\ f.value \in Int /\ f.left \in Int
        BY <2>2, WorthIs DEF TextFrames
      <4> QED BY <4>1
    <3> HIDE DEF value, owed
    <3>3. CASE f.left > 1
      <4>1. /\ FeedText(s, c) = {WithTop(s, Digited(f, value, owed))}
            /\ FeedText(r, c) = {WithTop(r, Digited(e, value, owed))}
        BY <3>1, <3>3
      <4> QED BY <1>9, <3>2, <4>1, Zenon
    <3>4. CASE ~ (f.left > 1) /\ IsHigh(value)
      <4>1. /\ FeedText(s, c) = {WithTop(s, Staged(f, "LowEscape"))}
            /\ FeedText(r, c) = {WithTop(r, Staged(e, "LowEscape"))}
        BY <3>1, <3>4
      <4> QED BY <1>6, <4>1, Zenon
    <3>5. CASE ~ (f.left > 1) /\ ~ IsHigh(value)
      <4>1. /\ FeedText(s, c) = {WithTop(s, Grown(f))}
            /\ FeedText(r, c) = {WithTop(r, Grown(e))}
        BY <3>1, <3>5
      <4> QED BY <1>7, <4>1, Zenon
    <3> QED BY <3>3, <3>4, <3>5
  <2> QED BY <2>1, <2>2
<1> QED BY <1>5, <1>10, <1>11, <1>12, <1>13, <1>14, Zenon

LEMMA OverFeeds ==
    ASSUME NEW below \in Seq(Frames), NEW f \in TextFrames, NEW a, NEW c
    PROVE  FeedFrame(Over(below, f, a), c) = FeedText(Over(below, f, a), c)
<1>1. ~ IsDone(Over(below, f, a)) /\ Top(Over(below, f, a)) = f
  BY TextOver, OverIs
<1>2. f.kind = "text"
  BY DEF TextFrames
<1> QED BY <1>1, <1>2 DEF FeedFrame

Rerun(s, n) == [s EXCEPT !.run = n]

LEMMA OverRuns ==
    ASSUME NEW below, NEW f, NEW a, NEW n
    PROVE  Rerun(Over(below, f, a), n) = Over(below, f, n)
<1> DEFINE stack == Append(below, f)
<1>1. ASSUME NEW m PROVE Over(below, f, m) = [stack |-> stack, run |-> m]
  BY DEF Over
<1> HIDE DEF stack
<1>2. [[stack |-> stack, run |-> a] EXCEPT !.run = n] = [stack |-> stack, run |-> n]
  OBVIOUS
<1> QED BY <1>1, <1>2, Zenon DEF Rerun

LEMMA OverCounts ==
    ASSUME NEW below, NEW f, NEW a, NEW c, c # " ", NEW u
    PROVE  u \in Counted(Over(below, f, a), c) <=> u = Over(below, f, 0)
<1> DEFINE s == Over(below, f, a)
<1>1. Rerun(s, 0) = Over(below, f, 0)
  BY OverRuns
<1> HIDE DEF s
<1>2. u \in Counted(s, c) <=> u = Rerun(s, 0)
  BY DEF Counted, Rerun
<1> QED BY <1>1, <1>2, Zenon DEF s

LEMMA OverContent ==
    ASSUME NEW below \in Seq(Frames), NEW f \in TextFrames, NEW a, f.stage = "Body", NEW u
    PROVE  u \in Counted(Over(below, f, a), " ") <=> u = Over(below, f, a)
<1>1. ~ IsDone(Over(below, f, a)) /\ Top(Over(below, f, a)) = f
  BY TextOver, OverIs
<1>2. f.kind = "text"
  BY DEF TextFrames
<1>3. InStringBody(Over(below, f, a))
  BY <1>1, <1>2, Zenon DEF InStringBody
<1> QED BY <1>3 DEF Counted

LEMMA OverSpace ==
    ASSUME NEW below, NEW f, NEW a, NEW u \in Counted(Over(below, f, a), " ")
    PROVE  \E n : u = Over(below, f, n)
<1>1. ASSUME NEW n PROVE Rerun(Over(below, f, a), n) = Over(below, f, n)
  BY OverRuns
<1> DEFINE s == Over(below, f, a)
<1>2. u = s \/ u = Rerun(s, s.run + 1)
  <2> HIDE DEF s
  <2> QED BY DEF Counted, Rerun, s
<1> QED BY <1>1, <1>2, Zenon

LEMMA RoomFor ==
    ASSUME NEW few \in Nat, NEW length \in Nat, NEW left \in Nat, NEW ceiling \in Nat,
           few <= length, length + 1 + left < ceiling
    PROVE  few < ceiling /\ length < ceiling /\ length + 1 \in Nat /\ few <= length + 1 /\ (length + 1) + left < ceiling
OBVIOUS

\* A character that is not neutral, given to both texts.
LEMMA TextStep ==
    ASSUME NEW below \in Seq(Frames), NEW a \in Nat, NEW b \in Nat, NEW left \in Nat, NEW f \in TextFrames,
           NEW length \in Nat, TextCeiling \in Nat, f.length <= length, length + 1 + left < TextCeiling,
           Node(f.node).max = {}, NEW c,
           NEW next \in FeedChar(Over(below, f, a), c)
    PROVE  \E q \in FeedChar(Over(below, Longer(f, length), b), c) : Follow(next, q, left)
<1> DEFINE e == Longer(f, length)
<1>1. e \in TextFrames /\ e.stage = f.stage /\ e.node = f.node /\ e.length = length
  BY SameText
<1>2. f \in Frames /\ e \in Frames
  BY <1>1, TextOver
<1> HIDE DEF e
<1>3. PICK u \in Counted(Over(below, f, a), c) : next \in FeedFrame(u, c)
  BY DEF FeedChar
<1>4. ASSUME NEW n \in Nat, NEW m \in Nat, u = Over(below, f, n), n = m \/ c # Quote,
             Over(below, e, m) \in Counted(Over(below, e, b), c)
      PROVE  \E q \in FeedChar(Over(below, e, b), c) : Follow(next, q, left)
  <2> DEFINE s == Over(below, f, n)
             r == Over(below, e, m)
  <2>1. next \in FeedText(s, c) /\ FeedFrame(r, c) = FeedText(r, c)
    BY <1>1, <1>3, <1>4, OverFeeds
  <2>2. Top(s) = f /\ Top(r) = e /\ (\A g : WithTop(s, g) = Over(below, g, n)) /\ (\A g : WithTop(r, g) = Over(below, g, m))
    BY <1>2, OverIs
  <2>3. FeedText(r, c) \subseteq FeedChar(Over(below, e, b), c)
    BY <1>4, <2>1 DEF FeedChar
  <2>4. c = Quote => Closed(s) = Closed(r)
    BY <1>2, <1>4, OverClosed
  <2> HIDE DEF s, r
  <2>5. \/ c = Quote /\ next = Closed(s) /\ Closed(r) \in FeedText(r, c)
        \/ Followed(next, FeedText(r, c), below, n, m, f.node, left)
    BY <2>1, <2>2, TextFollows DEF e
  <2>6. CASE c = Quote /\ next = Closed(s) /\ Closed(r) \in FeedText(r, c)
    BY <2>3, <2>4, <2>6 DEF Follow
  <2>7. CASE Followed(next, FeedText(r, c), below, n, m, f.node, left)
    <3>1. PICK g \in TextFrames, more \in Nat :
             /\ next = Over(below, g, n) /\ Over(below, Longer(g, more), m) \in FeedText(r, c)
             /\ g.node = f.node /\ g.length <= more /\ more + left < TextCeiling
      BY <2>7 DEF Followed
    <3>2. Follow(next, Over(below, Longer(g, more), m), left)
      BY <3>1 DEF Follow
    <3> QED BY <2>3, <3>1, <3>2
  <2> QED BY <2>5, <2>6, <2>7
<1>5. CASE c # " "
  <2>1. u = Over(below, f, 0) /\ Over(below, e, 0) \in Counted(Over(below, e, b), c) /\ 0 \in Nat
    BY <1>3, <1>5, OverCounts
  <2> QED BY <1>4, <2>1 DEF e
<1>6. CASE c = " " /\ f.stage = "Body"
  <2>1. u = Over(below, f, a) /\ Over(below, e, b) \in Counted(Over(below, e, b), c)
    BY <1>1, <1>3, <1>6, OverContent
  <2>2. c # Quote
    BY <1>6 DEF Quote
  <2> QED BY <1>4, <2>1, <2>2 DEF e
<1>7. CASE c = " " /\ f.stage # "Body"
  <2>1. PICK n : u = Over(below, f, n)
    BY <1>3, <1>7, OverSpace
  <2>2. next \in FeedText(u, c) /\ Top(u) = f
    BY <1>2, <1>3, <2>1, OverIs, OverFeeds
  <2>3. f.length < TextCeiling
    <3>1. f.length \in Nat
      BY SameText
    <3> QED BY <3>1, RoomFor
  <2>4. Feeds(u, f, c)
    BY <2>2, <2>3, FeedsSo
  <2>5. FeedText(u, c) = {}
    <3>1. c # "u" /\ c # "\\" /\ c \notin Escapes /\ c \notin HexDigits
      BY <1>7 DEF Escapes, HexDigits, Digits, Quote
    <3>2. f.stage \in {"Escape", "LowEscape", "LowU", "Hex"}
      BY <1>7 DEF TextFrames
    <3> QED BY <2>4, <3>1, <3>2 DEF Feeds
  <2> QED BY <2>2, <2>5
<1> QED BY <1>5, <1>6, <1>7

\* The walk stays where it is, the automaton's text grows.
LEMMA NeutralStep ==
    ASSUME NEW below \in Seq(Frames), NEW a \in Nat, NEW b \in Nat, NEW left \in Nat, NEW f \in TextFrames,
           NEW length \in Nat, TextCeiling \in Nat, f.length <= length, length + 1 + left < TextCeiling,
           Node(f.node).max = {}, f.stage = "Body", NEW c, ~ BreaksFreeText(c)
    PROVE  \E q \in FeedChar(Over(below, Longer(f, length), b), c) : Follow(Over(below, f, a), q, left)
<1> DEFINE e == Longer(f, length)
           q(m) == Over(below, Longer(f, length + 1), m)
<1>1. /\ e \in TextFrames /\ e.stage = "Body" /\ e.node = f.node /\ e.length = length /\ length + 1 \in Nat
  <2>1. e \in TextFrames /\ e.stage = f.stage /\ e.node = f.node /\ e.length = length
    BY SameText, Zenon
  <2>2. length + 1 \in Nat
    OBVIOUS
  <2> QED BY <2>1, <2>2
<1>2. e \in Frames /\ f \in Frames /\ f.length \in Nat
  BY <1>1, TextOver, SameText
<1>8. length < TextCeiling /\ f.length <= length + 1 /\ (length + 1) + left < TextCeiling
  BY <1>2, RoomFor
<1>3. Grown(e) = Longer(f, length + 1)
  <2>1. Grown(e) = [e EXCEPT !.stage = "Body", !.length = length + 1]
    BY <1>1 DEF Grown
  <2>2. [e EXCEPT !.stage = "Body"] = e
    BY <1>1 DEF TextFrames
  <2>3. [e EXCEPT !.stage = "Body", !.length = length + 1] = [[e EXCEPT !.stage = "Body"] EXCEPT !.length = length + 1]
    OBVIOUS
  <2>4. [[f EXCEPT !.length = length] EXCEPT !.length = length + 1] = [f EXCEPT !.length = length + 1]
    BY DEF TextFrames
  <2> QED BY <2>1, <2>2, <2>3, <2>4, Zenon DEF Longer
<1>4. c \notin {Quote, "\\", "ctl"}
  BY DEF BreaksFreeText
<1> HIDE DEF e
<1>5. ASSUME NEW m \in Nat, Over(below, e, m) \in Counted(Over(below, e, b), c)
      PROVE  \E p \in FeedChar(Over(below, e, b), c) : Follow(Over(below, f, a), p, left)
  <2> DEFINE r == Over(below, e, m)
  <2>1. Top(r) = e /\ (\A g : WithTop(r, g) = Over(below, g, m)) /\ FeedFrame(r, c) = FeedText(r, c)
    BY <1>1, <1>2, OverIs, OverFeeds
  <2>2. FeedText(r, c) \subseteq FeedChar(Over(below, e, b), c)
    BY <1>5, <2>1 DEF FeedChar
  <2> HIDE DEF r
  <2>3. Feeds(r, e, c)
    BY <1>1, <1>8, <2>1, FeedsSo
  <2>4. FeedText(r, c) = {WithTop(r, Grown(e))}
    BY <1>1, <1>4, <2>3 DEF Feeds
  <2>5. q(m) \in FeedText(r, c)
    BY <1>3, <2>1, <2>4
  <2>6. Follow(Over(below, f, a), q(m), left)
    <3> DEFINE more == length + 1
    <3>1. more \in Nat /\ f.length <= more /\ more + left < TextCeiling
      BY <1>1, <1>8
    <3> HIDE DEF more
    <3>2. Follow(Over(below, f, a), Over(below, Longer(f, more), m), left)
      BY <3>1 DEF Follow
    <3> QED BY <3>2 DEF more
  <2> QED BY <2>2, <2>5, <2>6
<1>6. CASE c # " "
  <2>1. Over(below, e, 0) \in Counted(Over(below, e, b), c) /\ 0 \in Nat
    BY <1>6, OverCounts
  <2> QED BY <1>5, <2>1 DEF e
<1>7. CASE c = " "
  <2>1. Over(below, e, b) \in Counted(Over(below, e, b), c)
    BY <1>1, <1>7, OverContent
  <2> QED BY <1>5, <2>1 DEF e
<1> QED BY <1>6, <1>7

\* One character of the walk, and what feed_char does with it.
LEMMA FollowStep ==
    ASSUME TextCeiling \in Nat, Slack \in Nat, NEW h, NEW r, Good(h, h.run),
           NEW left \in Nat, left + 1 <= Slack, Follow(h, r, left + 1), NEW c, NEW next \in Walk(h, c)
    PROVE  \E q \in FeedChar(r, c) : Follow(next, q, left)
<1> DEFINE Apart(below, f, length, a, b) ==
               /\ h = Over(below, f, a) /\ r = Over(below, Longer(f, length), b)
               /\ Node(f.node).max = {}
               /\ f.length <= length /\ length + 1 + left < TextCeiling
<1>1. h = r \/ \E below \in Seq(Frames), f \in TextFrames, length \in Nat, a \in Nat, b \in Nat :
                   Apart(below, f, length, a, b)
  <2>1. ASSUME NEW length \in Nat, length + (left + 1) < TextCeiling PROVE length + 1 + left < TextCeiling
    BY <2>1
  <2> QED BY <2>1 DEF Follow
<1>2. CASE IsNeutral(h, c)
  <2>1. /\ next = h /\ ~ IsDone(h) /\ Top(h).kind = "text" /\ Top(h).stage = "Body"
        /\ Node(Top(h).node).max = {} /\ Top(h).length + Slack < TextCeiling /\ ~ BreaksFreeText(c)
    BY <1>2 DEF Walk, IsNeutral, InFreeTextRun, InStringBody
  <2>2. \E below \in Seq(Frames), f \in TextFrames, length \in Nat, a \in Nat, b \in Nat :
           Apart(below, f, length, a, b) /\ f.stage = "Body"
    <3>1. CASE h = r
      <4> DEFINE below == Front(h.stack)
                 f == Top(h)
      <4>1. h \in [stack : Seq(Frames), run : Nat]
        BY DEF Good
      <4>2. below \in Seq(Frames) /\ f \in Frames /\ h = Over(below, f, h.run) /\ h.run \in Nat
        BY <2>1, <4>1, OverAgain
      <4>3. f \in TextFrames
        BY <2>1, <4>2 DEF Frames, ValueFrames, ObjectFrames, ArrayFrames, ChoiceFrames, LiteralFrames, NumberFrames
      <4>4. Node(f.node).max = {} /\ f.stage = "Body"
        BY <2>1
      <4>5. f.length + Slack < TextCeiling
        BY <2>1
      <4> HIDE DEF below, f
      <4>6. f = Longer(f, f.length) /\ f.length \in Nat
        BY <4>3, SameText
      <4>7. f.length <= f.length /\ f.length + 1 + left < TextCeiling
        BY <4>5, <4>6
      <4>8. Apart(below, f, f.length, h.run, h.run)
        BY <3>1, <4>2, <4>4, <4>6, <4>7, Zenon
      <4> QED BY <4>2, <4>3, <4>4, <4>6, <4>8, Zenon
    <3>2. ASSUME NEW below \in Seq(Frames), NEW f \in TextFrames, NEW length \in Nat, NEW a \in Nat, NEW b \in Nat,
                 Apart(below, f, length, a, b)
          PROVE  f.stage = "Body"
      <4>1. Top(h) = f
        BY <3>2, TextOver, OverIs
      <4> QED BY <2>1, <4>1
    <3> HIDE DEF Apart
    <3> QED BY <1>1, <3>1, <3>2, Zenon
  <2>3. PICK below \in Seq(Frames), f \in TextFrames, length \in Nat, a \in Nat, b \in Nat :
           Apart(below, f, length, a, b) /\ f.stage = "Body"
    BY <2>2
  <2> QED BY <2>1, <2>3, NeutralStep
<1>3. CASE ~ IsNeutral(h, c)
  <2>1. next \in FeedChar(h, c)
    BY <1>3 DEF Walk
  <2>2. CASE h = r
    BY <2>1, <2>2 DEF Follow
  <2>3. CASE \E below \in Seq(Frames), f \in TextFrames, length \in Nat, a \in Nat, b \in Nat :
                Apart(below, f, length, a, b)
    <3>1. PICK below \in Seq(Frames), f \in TextFrames, length \in Nat, a \in Nat, b \in Nat :
             Apart(below, f, length, a, b)
      BY <2>3
    <3> QED BY <2>1, <3>1, TextStep
  <2> QED BY <1>1, <2>2, <2>3
<1> QED BY <1>2, <1>3

LEMMA WalkKeeps ==
    ASSUME MaxSpaces \in Nat, IsSchema(schema), NEW h, Good(h, h.run), NEW c, NEW next \in Walk(h, c)
    PROVE  Good(next, next.run)
<1>1. next = h \/ next \in FeedChar(h, c)
  BY DEF Walk
<1> QED BY <1>1, CharKeeps

-----------------------------------------------------------------------------
(* A token inside the arguments *)

\* The session x is read on: its call is over, or its automaton is at `at`.
Reads(x, at) == IsSession(x) /\ (x.stage = Ended \/ (x.stage = Args /\ x.state = at))

LEMMA SwallowEnded ==
    ASSUME NEW x, x.stage = Ended, NEW c
    PROVE  x \in Swallow(x, c)
BY Reasons DEF Swallow

LEMMA SwallowCloses ==
    ASSUME NEW x, IsSession(x), x.stage = Args, IsDone(x.state) \/ EmptyCloses(x)
    PROVE  \E y \in Swallow(x, ")") : IsSession(y) /\ y.stage = Ended
<1> DEFINE y == [x EXCEPT !.stage = Ended]
<1>1. y \in Swallow(x, ")")
  BY Reasons DEF Swallow, SwallowArgs
<1>2. y.stage = Ended
  BY DEF IsSession
<1>3. IsSession(y)
  BY <1>1, SwallowKeeps
<1> QED BY <1>1, <1>2, <1>3

LEMMA SwallowFeeds ==
    ASSUME NEW x, IsSession(x), x.stage = Args, NEW c, NEW q \in FeedChar(x.state, c)
    PROVE  \E y \in Swallow(x, c) : Reads(y, q)
<1>1. CASE c = ")" /\ (IsDone(x.state) \/ EmptyCloses(x))
  BY <1>1, SwallowCloses DEF Reads
<1>2. CASE ~ (c = ")" /\ (IsDone(x.state) \/ EmptyCloses(x)))
  <2> DEFINE args == IF c = " " /\ ~InContent(x.state) THEN x.args ELSE Append(x.args, c)
             fresh == x.fresh /\ c = " "
             y == [x EXCEPT !.state = q, !.fresh = fresh, !.args = args]
  <2>1. y \in Swallow(x, c)
    <3>1. Swallow(x, c) = SwallowArgs(x, c)
      BY Reasons DEF Swallow
    <3>2. y \in {[x EXCEPT !.state = next, !.fresh = fresh, !.args = args] : next \in FeedChar(x.state, c)}
      <4> HIDE DEF fresh, args
      <4> QED OBVIOUS
    <3> QED BY <1>2, <3>1, <3>2, Zenon DEF SwallowArgs
  <2>2. IsSession(y)
    BY <2>1, SwallowKeeps
  <2>3. y.stage = Args /\ y.state = q
    <3> HIDE DEF fresh, args
    <3> QED BY DEF IsSession
  <2> QED BY <2>1, <2>2, <2>3 DEF Reads
<1> QED BY <1>1, <1>2

LEMMA ReadsOn ==
    ASSUME NEW x, NEW g, Reads(x, g), NEW c, NEW q \in FeedChar(g, c)
    PROVE  \E y \in Swallow(x, c) : Reads(y, q)
<1>1. CASE x.stage = Ended
  BY <1>1, SwallowEnded DEF Reads
<1>2. CASE x.stage # Ended
  BY <1>2, SwallowFeeds DEF Reads
<1> QED BY <1>1, <1>2

LEMMA ReadsEnd ==
    ASSUME NEW x, NEW g, Reads(x, g), IsDone(g)
    PROVE  \E y \in Swallow(x, ")") : IsSession(y) /\ y.stage = Ended
<1>1. CASE x.stage = Ended
  BY <1>1, SwallowEnded DEF Reads
<1>2. CASE x.stage # Ended
  BY <1>2, SwallowCloses DEF Reads
<1> QED BY <1>1, <1>2

\* A call that is over takes what is left of the token.
LEMMA EndedTakes ==
    ASSUME NEW s, NEW token, NEW N \in Nat, NEW f, Reaching(s, token, f, N),
           NEW n \in 0..N, \E x \in f[n] : x.stage = Ended
    PROVE  f[N] # {}
<1> DEFINE S == {k \in Nat : n + k <= N => \E x \in f[n + k] : x.stage = Ended}
<1>0. n \in Nat /\ n <= N
  OBVIOUS
<1>1. 0 \in S
  <2>1. n + 0 = n
    BY <1>0
  <2> QED BY <2>1
<1>2. ASSUME NEW k \in S PROVE k + 1 \in S
  <2> SUFFICES ASSUME n + (k + 1) <= N PROVE \E x \in f[n + (k + 1)] : x.stage = Ended
    OBVIOUS
  <2>1. n + (k + 1) = (n + k) + 1 /\ n + k \in Nat /\ n + k <= N /\ (n + k) + 1 <= N
    BY <1>0
  <2>2. PICK x \in f[n + k] : x.stage = Ended
    BY <2>1
  <2>3. x \in Swallow(x, token[(n + k) + 1])
    BY <2>2, SwallowEnded
  <2> DEFINE m == n + k
  <2>4. m \in Nat /\ m + 1 <= N /\ x \in f[m] /\ x \in Swallow(x, token[m + 1])
    BY <2>1, <2>2, <2>3
  <2> HIDE DEF m
  <2>5. x \in f[m + 1]
    BY <2>4, ReachOn
  <2> QED BY <2>1, <2>2, <2>5 DEF m
<1> HIDE DEF S
<1>3. S = Nat
  <2>1. S \in SUBSET Nat
    BY DEF S
  <2> QED BY <1>1, <1>2, <2>1, ByInduction
<1>4. N - n \in S /\ n + (N - n) = N
  BY <1>0, <1>3
<1> QED BY <1>4 DEF S

\* The walk along a part of the token, and the session behind it.
LEMMA WalkTaken ==
    ASSUME MaxSpaces \in Nat, TextCeiling \in Nat, Slack \in Nat, IsSchema(schema),
           NEW s, IsSession(s), s.stage = Args, Good(s.state, s.state.run),
           NEW token, NEW N \in Nat, NEW f, Reaching(s, token, f, N),
           NEW part, NEW M \in Nat, M <= N, M <= Slack, \A k \in 1..M : part[k] = token[k],
           NEW w, Walking(s.state, part, w, M)
    PROVE  \A h \in w[M] : \E x \in f[M] : \E r : Reads(x, r) /\ Follow(h, r, Slack - M)
<1> DEFINE S == {n \in Nat : n <= M =>
                    \A h \in w[n] : /\ Good(h, h.run)
                                    /\ \E x \in f[n] : \E r : Reads(x, r) /\ Follow(h, r, Slack - n)}
<1>1. 0 \in S
  <2>1. w[0] = {s.state}
    BY WalkFirst
  <2>2. f[0] = {s}
    BY ReachFirst, Zenon
  <2>3. Reads(s, s.state) /\ Follow(s.state, s.state, Slack - 0)
    BY DEF Reads, Follow
  <2> QED BY <2>1, <2>2, <2>3
<1>2. ASSUME NEW n \in S PROVE n + 1 \in S
  <2> SUFFICES ASSUME n + 1 <= M, NEW q \in w[n + 1]
               PROVE  /\ Good(q, q.run)
                      /\ \E x \in f[n + 1] : \E r : Reads(x, r) /\ Follow(q, r, Slack - (n + 1))
    OBVIOUS
  <2> DEFINE left == Slack - (n + 1)
  <2>1. /\ n \in Nat /\ n <= M /\ n + 1 <= N /\ n + 1 \in 1..M
        /\ left \in Nat /\ left + 1 <= Slack /\ Slack - n = left + 1
    OBVIOUS
  <2>2. PICK h \in w[n] : q \in Walk(h, part[n + 1])
    BY <2>1, WalkBack
  <2>3. Good(h, h.run) /\ \E x \in f[n] : \E r : Reads(x, r) /\ Follow(h, r, left + 1)
    BY <2>1, <2>2
  <2>4. PICK x \in f[n] : \E r : Reads(x, r) /\ Follow(h, r, left + 1)
    BY <2>3
  <2>5. PICK r : Reads(x, r) /\ Follow(h, r, left + 1)
    BY <2>4
  <2>6. q \in Walk(h, token[n + 1])
    BY <2>1, <2>2
  <2> HIDE DEF left
  <2>7. PICK next \in FeedChar(r, token[n + 1]) : Follow(q, next, left)
    BY <2>1, <2>3, <2>5, <2>6, FollowStep
  <2>8. PICK y \in Swallow(x, token[n + 1]) : Reads(y, next)
    BY <2>5, <2>7, ReadsOn
  <2>9. y \in f[n + 1]
    BY <2>1, <2>5, <2>8, ReachOn
  <2>10. Good(q, q.run)
    BY <2>3, <2>6, WalkKeeps
  <2> QED BY <2>7, <2>8, <2>9, <2>10 DEF left
<1> HIDE DEF S
<1>3. S = Nat
  <2>1. S \in SUBSET Nat
    BY DEF S
  <2> QED BY <1>1, <1>2, <2>1, ByInduction
<1>4. M \in S /\ M <= M
  BY <1>3
<1> QED BY <1>4 DEF S

\* In a free-text run the walk along a plain token stays where it is.
LEMMA PlainStays ==
    ASSUME MaxSpaces \in Nat, TextCeiling \in Nat, Slack \in Nat, 1 <= Slack, IsSchema(schema), SpelledTight(schema),
           NEW g, Good(g, g.run), InFreeTextRun(g), NEW c, ~ BreaksFreeText(c)
    PROVE  g \in Walk(g, c)
<1> DEFINE below == Front(g.stack)
           f == Top(g)
<1>1. /\ ~ IsDone(g) /\ f.kind = "text" /\ f.stage = "Body"
      /\ Node(f.node).max = {} /\ f.length + Slack < TextCeiling
  BY DEF InFreeTextRun, InStringBody
<1>2. g \in [stack : Seq(Frames), run : Nat]
  BY DEF Good
<1>3. below \in Seq(Frames) /\ f \in Frames /\ g = Over(below, f, g.run) /\ g.run \in Nat
  BY <1>1, <1>2, OverAgain
<1> HIDE DEF below, f
<1>4. f \in TextFrames
  BY <1>1, <1>3 DEF Frames, ValueFrames, ObjectFrames, ArrayFrames, ChoiceFrames, LiteralFrames, NumberFrames
<1>5. f = Longer(f, f.length) /\ f.length \in Nat
  BY <1>4, SameText
<1>6. f.length <= f.length /\ f.length + 1 + 0 < TextCeiling /\ 0 \in Nat
  BY <1>1, <1>5
<1>7. \E q \in FeedChar(Over(below, Longer(f, f.length), g.run), c) : Follow(Over(below, f, g.run), q, 0)
  BY <1>1, <1>3, <1>4, <1>5, <1>6, NeutralStep
<1>8. FeedChar(g, c) # {}
  BY <1>3, <1>5, <1>7
<1>9. Offers(Offered(g), c)
  BY <1>8, MaskIsWhatIsTaken
<1>10. IsNeutral(g, c)
  BY DEF IsNeutral
<1> QED BY <1>9, <1>10 DEF Walk

LEMMA PlainWalks ==
    ASSUME MaxSpaces \in Nat, TextCeiling \in Nat, Slack \in Nat, 1 <= Slack, IsSchema(schema), SpelledTight(schema),
           NEW g, Good(g, g.run), InFreeTextRun(g),
           NEW token, NEW N \in Nat, \A i \in 1..N : ~ BreaksFreeText(token[i]),
           NEW w, Walking(g, token, w, N)
    PROVE  g \in w[N]
<1> DEFINE S == {n \in Nat : n <= N => g \in w[n]}
<1>1. 0 \in S
  <2>1. w[0] = {g}
    BY WalkFirst, Zenon
  <2> QED BY <2>1
<1>2. ASSUME NEW n \in S PROVE n + 1 \in S
  <2> SUFFICES ASSUME n + 1 <= N PROVE g \in w[n + 1]
    OBVIOUS
  <2>1. n \in Nat /\ n <= N /\ n + 1 \in 1..N
    OBVIOUS
  <2>2. g \in Walk(g, token[n + 1])
    BY <2>1, PlainStays
  <2> QED BY <2>1, <2>2, WalkOn
<1> HIDE DEF S
<1>3. S = Nat
  <2>1. S \in SUBSET Nat
    BY DEF S
  <2> QED BY <1>1, <1>2, <2>1, ByInduction
<1>4. N \in S /\ N <= N
  BY <1>3
<1> QED BY <1>4 DEF S

LEMMA OverNotDone ==
    ASSUME NEW h, NEW r, NEW left, Follow(h, r, left), IsDone(h)
    PROVE  IsDone(r)
<1>1. CASE h = r
  BY <1>1
<1>2. CASE \E below \in Seq(Frames), f \in TextFrames, length \in Nat, a \in Nat, b \in Nat : h = Over(below, f, a)
  <2>1. PICK below \in Seq(Frames), f \in TextFrames, a \in Nat : h = Over(below, f, a)
    BY <1>2
  <2>2. ~ IsDone(h)
    BY <2>1, TextOver, OverIs
  <2> QED BY <2>2
<1> QED BY <1>1, <1>2 DEF Follow

\* A token that the mask leaves open inside a call is taken.
LEMMA ArgsTaken ==
    ASSUME MaxSpaces \in Nat, TextCeiling \in Nat, Slack \in Nat, IsSchema(schema), SpelledTight(schema),
           NEW s, IsSession(s), s.stage = Args, Good(s.state, s.state.run),
           NEW token \in Seq(STRING), Len(token) <= Slack, Open(s, token)
    PROVE  Advance(s, token) # {}
<1> DEFINE N == Len(token)
<1>1. PICK f : Reaching(s, token, f, N) /\ Advance(s, token) = f[N]
  BY AdvanceIs
<1>2. N \in Nat
  OBVIOUS
<1>3. TokenMask(s.state, token) \/ (EmptyCloses(s) /\ token = <<")">>)
  BY Reasons DEF Open
<1>4. CASE EmptyCloses(s) /\ token = <<")">>
  <2>1. N = 1 /\ token[1] = ")" /\ 0 + 1 = 1 /\ 0 \in Nat /\ 0 + 1 <= N
    BY <1>4
  <2>2. f[0] = {s}
    BY <1>1, <1>2, ReachFirst, Zenon
  <2>3. PICK y \in Swallow(s, ")") : y.stage = Ended
    BY <1>4, SwallowCloses
  <2>4. y \in f[0 + 1]
    <3>1. s \in f[0] /\ y \in Swallow(s, token[0 + 1])
      BY <2>1, <2>2, <2>3
    <3> HIDE DEF N
    <3> QED BY <1>1, <1>2, <2>1, <3>1, ReachOn
  <2> QED BY <1>1, <2>1, <2>4
<1>5. CASE TokenMask(s.state, token)
  <2> DEFINE g == s.state
  <2>1. /\ token # <<>>
        /\ \/ InFreeTextRun(g) /\ Plain(token)
           \/ Walked(g, token) # {}
           \/ Last(token) = ")" /\ \E h \in Walked(g, Front(token)) : IsDone(h)
    <3>1. /\ token # <<>>
          /\ \/ InFreeTextRun(g) /\ Plain(token)
             \/ \E part \in {token, Front(token)} : \E h \in Walked(g, part) :
                   part = token \/ (Last(token) = ")" /\ IsDone(h))
      BY <1>5, Zenon DEF TokenMask
    <3> QED BY <3>1
  <2>2. N \in Nat \ {0} /\ 1 <= Slack
    BY <1>2, <2>1, EmptySeq
  <2>3. PICK w : Walking(g, token, w, N) /\ Walked(g, token) = w[N]
    BY <1>2, WalkedIs
  <2>4. w[N] # {} => f[N] # {}
    <3>1. N <= N /\ N <= Slack /\ \A k \in 1..N : token[k] = token[k]
      BY <1>2
    <3> HIDE DEF N
    <3>2. \A h \in w[N] : \E x \in f[N] : \E r : Reads(x, r) /\ Follow(h, r, Slack - N)
      BY <1>1, <1>2, <2>3, <3>1, WalkTaken
    <3> QED BY <3>2
  <2>5. CASE InFreeTextRun(g) /\ Plain(token)
    <3>1. \A i \in 1..N : ~ BreaksFreeText(token[i])
      BY <2>5 DEF Plain
    <3> HIDE DEF N, g
    <3>2. g \in w[N]
      BY <1>2, <2>2, <2>3, <2>5, <3>1, PlainWalks DEF g
    <3> QED BY <1>1, <2>4, <3>2
  <2>6. CASE Walked(g, token) # {}
    BY <1>1, <2>3, <2>4, <2>6
  <2>7. CASE Last(token) = ")" /\ \E h \in Walked(g, Front(token)) : IsDone(h)
    <3> DEFINE part == Front(token)
               M == N - 1
    <3>1. /\ part \in Seq(STRING) /\ Len(part) = M /\ \A k \in 1..M : part[k] = token[k]
          /\ token[N] = ")"
      BY <2>1, <2>7, StackIs
    <3>2. M \in Nat /\ M <= N /\ M <= Slack /\ M + 1 = N /\ M + 1 <= N
      BY <1>2, <2>2
    <3>3. \E h \in Walked(g, part) : IsDone(h)
      BY <2>7
    <3> HIDE DEF part, M, N
    <3>4. PICK v : Walking(g, part, v, M) /\ Walked(g, part) = v[M]
      BY <3>1, <3>2, WalkedIs
    <3>5. PICK h \in v[M] : IsDone(h)
      BY <3>3, <3>4
    <3>6. \A p \in v[M] : \E x \in f[M] : \E r : Reads(x, r) /\ Follow(p, r, Slack - M)
      <4>1. \A k \in 1..M : part[k] = token[k]
        BY <3>1
      <4>2. Reaching(s, token, f, N) /\ Walking(s.state, part, v, M)
        BY <1>1, <3>4 DEF g
      <4> QED BY <1>2, <3>2, <4>1, <4>2, WalkTaken, Zenon
    <3>7. PICK x \in f[M] : \E r : Reads(x, r) /\ Follow(h, r, Slack - M)
      BY <3>5, <3>6
    <3>8. PICK r : Reads(x, r) /\ Follow(h, r, Slack - M)
      BY <3>7
    <3>9. PICK y \in Swallow(x, ")") : y.stage = Ended
      BY <3>5, <3>8, OverNotDone, ReadsEnd
    <3>10. y \in Swallow(x, token[M + 1])
      BY <3>1, <3>2, <3>9
    <3>11. y \in f[M + 1]
      BY <1>1, <1>2, <3>2, <3>8, <3>10, ReachOn
    <3> QED BY <1>1, <3>2, <3>11
  <2> QED BY <2>1, <2>5, <2>6, <2>7
<1> QED BY <1>3, <1>4, <1>5

-----------------------------------------------------------------------------
(* The end of the prose, by which a call is told *)

Chars == STRING

LEMMA LeastSo ==
    ASSUME NEW S \in SUBSET Nat, NEW m \in S, \A x \in S : m <= x
    PROVE  Min(S) = m
<1>0. S \subseteq Nat /\ S # {}
  OBVIOUS
<1>1. Min(S) \in S /\ \A x \in S : Min(S) <= x
  BY <1>0, LeastIs
<1>2. Min(S) <= m /\ m <= Min(S) /\ Min(S) \in Nat /\ m \in Nat
  BY <1>1
<1> HIDE DEF Min
<1> QED BY <1>2

LEMMA GreatestSo ==
    ASSUME NEW S \in SUBSET Nat, NEW m \in S, \A x \in S : m >= x
    PROVE  Max(S) = m
<1>1. Max(S) \in S /\ \A x \in S : Max(S) >= x
  BY Zenon DEF Max
<1>2. Max(S) <= m /\ m <= Max(S) /\ Max(S) \in Nat /\ m \in Nat
  BY <1>1
<1> HIDE DEF Max
<1> QED BY <1>2

LEMMA MaxOfTwo ==
    ASSUME NEW a \in Int, NEW b \in Int
    PROVE  Max({a, b}) = IF a >= b THEN a ELSE b
BY DEF Max

LEMMA SuffixIs ==
    ASSUME NEW S, NEW q \in Seq(S), NEW i \in 1..Len(q) + 1
    PROVE  /\ Suffix(q, i) \in Seq(S) /\ Len(Suffix(q, i)) = Len(q) - i + 1
           /\ \A k \in 1..Len(q) - i + 1 : Suffix(q, i)[k] = q[i + k - 1]
<1> DEFINE n == Len(q)
<1>1. n \in Nat /\ i \in Int /\ n \in Int /\ i \in 1..n + 1
  OBVIOUS
<1>2. \A j \in i..n : q[j] \in S
  <2>1. \A j \in i..n : j \in 1..n
    BY <1>1
  <2> QED BY <2>1
<1>3. Suffix(q, i) = SubSeq(q, i, n)
  BY DEF Suffix
<1> HIDE DEF n
<1>4. /\ SubSeq(q, i, n) \in Seq(S)
      /\ Len(SubSeq(q, i, n)) = IF i <= n THEN n - i + 1 ELSE 0
      /\ \A k \in 1..n - i + 1 : SubSeq(q, i, n)[k] = q[i + k - 1]
  BY <1>1, <1>2, SubSeqProperties
<1>5. (IF i <= n THEN n - i + 1 ELSE 0) = n - i + 1
  BY <1>1
<1> QED BY <1>3, <1>4, <1>5 DEF n

\* The names of the tools, the longest of them among them.
Names == LongestName \in Nat /\ \A t \in Tools : t.name \in Seq(Chars) /\ Len(t.name) <= LongestName

LEMMA NamesHold ==
    ASSUME IsCatalog(schema), Tools # {}
    PROVE  Names
<1> DEFINE lengths == {Len(t.name) : t \in Tools}
<1>1. /\ \A t \in Tools : t.name \in Seq(Chars)
      /\ \E longest \in {0} \union lengths : \A t \in Tools : Len(t.name) <= longest
  BY DEF IsCatalog, Tools, Chars
<1>2. PICK longest \in {0} \union lengths : \A t \in Tools : Len(t.name) <= longest
  BY <1>1
<1>3. \A t \in Tools : Len(t.name) \in Nat /\ Len(t.name) \in lengths
  BY <1>1
<1>4. longest \in lengths
  <2>1. CASE longest = 0
    <3>1. PICK t \in Tools : TRUE
      OBVIOUS
    <3>2. Len(t.name) <= 0 /\ Len(t.name) \in Nat /\ Len(t.name) \in lengths
      BY <1>2, <1>3, <2>1
    <3>3. Len(t.name) = 0
      BY <3>2
    <3> QED BY <2>1, <3>2, <3>3
  <2> QED BY <2>1
<1>5. \A x \in lengths : x \in Nat /\ x <= longest
  BY <1>2, <1>3
<1> HIDE DEF lengths
<1>6. Max(lengths) = longest
  <2>1. lengths \in SUBSET Nat /\ \A x \in lengths : longest >= x
    BY <1>4, <1>5
  <2> QED BY <1>4, <2>1, GreatestSo
<1>7. LongestName = longest
  BY <1>6 DEF LongestName, lengths
<1> QED BY <1>1, <1>2, <1>4, <1>5, <1>7 DEF Names

\* Where a tool's name may begin.
Begins(q) == {i \in (IF Len(q) > LongestName THEN 2 ELSE 1)..Len(q) :
                  /\ i > 1 => q[i - 1] \notin IdChars
                  /\ \E t \in Tools : IsPrefix(Suffix(q, i), t.name)}

\* As much of the end of both is the same as a name can be long, and one more.
SameEnd(q, p) ==
    /\ q \in Seq(Chars) /\ p \in Seq(Chars)
    /\ Len(q) = Len(p) \/ (Len(q) > LongestName /\ Len(p) > LongestName)
    /\ \A k \in 0..LongestName : k < Len(q) /\ k < Len(p) => q[Len(q) - k] = p[Len(p) - k]

LEMMA BeginsToo ==
    ASSUME Names, NEW q, NEW p, SameEnd(q, p), NEW i \in Begins(q)
    PROVE  /\ i + (Len(p) - Len(q)) \in Begins(p)
           /\ Suffix(p, i + (Len(p) - Len(q))) = Suffix(q, i)
           /\ i \in Nat
<1> DEFINE n == Len(q)
           m == Len(p)
           L == LongestName
           j == i + (m - n)
           long == n - i + 1
<1>1. n \in Nat /\ m \in Nat /\ L \in Nat /\ q \in Seq(Chars) /\ p \in Seq(Chars)
  BY DEF SameEnd, Names
<1>2. /\ i \in (IF n > L THEN 2 ELSE 1)..n
      /\ i > 1 => q[i - 1] \notin IdChars
      /\ \E t \in Tools : IsPrefix(Suffix(q, i), t.name)
  BY DEF Begins
<1>3. PICK t \in Tools : IsPrefix(Suffix(q, i), t.name)
  BY <1>2
<1>4. n = m \/ (n > L /\ m > L)
  BY DEF SameEnd
<1>5. \A k \in 0..L : k < n /\ k < m => q[n - k] = p[m - k]
  BY DEF SameEnd
<1>6. t.name \in Seq(Chars) /\ Len(t.name) <= L /\ Len(t.name) \in Nat
  BY DEF Names
<1> HIDE DEF n, m, L
<1>7. i \in 1..n /\ i \in Nat /\ i \in 1..n + 1
  BY <1>1, <1>2
<1>8. /\ Suffix(q, i) \in Seq(Chars) /\ Len(Suffix(q, i)) = long
      /\ \A k \in 1..long : Suffix(q, i)[k] = q[i + k - 1]
  BY <1>1, <1>7, SuffixIs DEF n
<1>9. long <= L
  <2>1. Len(Suffix(q, i)) <= Len(t.name)
    BY <1>3, <1>6, <1>8, PrefixIs
  <2> HIDE DEF long
  <2>2. long \in Nat
    BY <1>1, <1>7 DEF long
  <2> QED BY <1>1, <1>6, <1>8, <2>1, <2>2
<1>10. /\ j \in (IF m > L THEN 2 ELSE 1)..m /\ m - j + 1 = long /\ j \in 1..m + 1
  BY <1>1, <1>2, <1>4, <1>7, <1>9
<1>11. /\ Suffix(p, j) \in Seq(Chars) /\ Len(Suffix(p, j)) = m - j + 1
       /\ \A k \in 1..m - j + 1 : Suffix(p, j)[k] = p[j + k - 1]
  <2> HIDE DEF j
  <2> QED BY <1>1, <1>10, SuffixIs DEF m
<1>12. Suffix(p, j) = Suffix(q, i)
  <2>1. ASSUME NEW k \in 1..long PROVE p[j + k - 1] = q[i + k - 1]
    <3> DEFINE back == long - k
    <3>1. /\ back \in 0..L /\ back < n /\ back < m
          /\ n - back = i + k - 1 /\ m - back = j + k - 1
      BY <1>1, <1>2, <1>4, <1>7, <1>9
    <3> HIDE DEF back, long, j
    <3>2. q[n - back] = p[m - back]
      BY <1>5, <3>1
    <3> QED BY <3>1, <3>2
  <2> HIDE DEF long, j
  <2>2. \A k \in 1..Len(Suffix(p, j)) : Suffix(p, j)[k] = Suffix(q, i)[k]
    BY <1>8, <1>10, <1>11, <2>1
  <2> QED BY <1>8, <1>10, <1>11, <2>2, SeqEqual
<1>13. j > 1 => p[j - 1] \notin IdChars
  <2> SUFFICES ASSUME j > 1 PROVE p[j - 1] \notin IdChars
    OBVIOUS
  <2>1. i > 1
    BY <1>1, <1>2, <1>4, <1>7
  <2>2. long \in 0..L /\ long < n /\ long < m /\ n - long = i - 1 /\ m - long = j - 1
    BY <1>1, <1>2, <1>4, <1>7, <1>9, <2>1
  <2> HIDE DEF long, j
  <2>3. q[n - long] = p[m - long]
    BY <1>5, <2>2
  <2>4. q[i - 1] \notin IdChars
    BY <1>2, <2>1
  <2> QED BY <2>2, <2>3, <2>4
<1> HIDE DEF j, long
<1>14. j \in Begins(p)
  <2>1. \E u \in Tools : IsPrefix(Suffix(p, j), u.name)
    BY <1>3, <1>12
  <2> QED BY <1>10, <1>13, <2>1 DEF Begins, m, L
<1> QED BY <1>7, <1>12, <1>14 DEF j, m, n

LEMMA AlignIs ==
    ASSUME NEW q
    PROVE  AlignPrefix(q) = IF Begins(q) = {} THEN <<>> ELSE Suffix(q, Min(Begins(q)))
BY DEF AlignPrefix, Begins

LEMMA SameCalls ==
    ASSUME Names, NEW q, NEW p, SameEnd(q, p)
    PROVE  Called(q) = Called(p)
<1> DEFINE d == Len(p) - Len(q)
<1>1. SameEnd(p, q)
  BY DEF SameEnd
<1>2. Len(p) \in Nat /\ Len(q) \in Nat /\ d \in Int
  BY DEF SameEnd
<1>3. \A i \in Begins(q) : i + d \in Begins(p) /\ Suffix(p, i + d) = Suffix(q, i) /\ i \in Nat
  BY BeginsToo
<1>4. \A j \in Begins(p) : j - d \in Begins(q) /\ j \in Nat
  <2> SUFFICES ASSUME NEW j \in Begins(p) PROVE j - d \in Begins(q) /\ j \in Nat
    OBVIOUS
  <2>1. j + (Len(q) - Len(p)) \in Begins(q) /\ j \in Nat
    BY <1>1, BeginsToo
  <2>2. j + (Len(q) - Len(p)) = j - d
    BY <1>2, <2>1
  <2> QED BY <2>1, <2>2
<1> HIDE DEF d
<1>5. AlignPrefix(q) = AlignPrefix(p)
  <2>1. CASE Begins(q) = {}
    <3>1. Begins(p) = {}
      BY <1>4, <2>1
    <3> QED BY <2>1, <3>1, AlignIs
  <2>2. CASE Begins(q) # {}
    <3> DEFINE m == Min(Begins(q))
    <3>1. Begins(q) \in SUBSET Nat /\ Begins(p) \in SUBSET Nat
      BY <1>3, <1>4
    <3>2. m \in Begins(q) /\ \A x \in Begins(q) : m <= x
      <4>1. Begins(q) \subseteq Nat
      BY <3>1
    <4> QED BY <2>2, <4>1, LeastIs
    <3> HIDE DEF m
    <3>3. m + d \in Begins(p) /\ Suffix(p, m + d) = Suffix(q, m) /\ m \in Nat
      BY <1>3, <3>2
    <3>4. ASSUME NEW j \in Begins(p) PROVE m + d <= j
      <4>1. m <= j - d /\ j \in Nat
        BY <1>4, <3>2
      <4> QED BY <1>2, <3>3, <4>1
    <3>5. Min(Begins(p)) = m + d
      <4> DEFINE e == m + d
      <4>1. e \in Begins(p) /\ \A j \in Begins(p) : e <= j
        BY <3>3, <3>4
      <4> HIDE DEF e
      <4>2. Min(Begins(p)) = e
        BY <3>1, <4>1, LeastSo
      <4> QED BY <4>2 DEF e
    <3>6. Begins(p) # {}
      BY <3>3
    <3>7. AlignPrefix(q) = Suffix(q, m)
      BY <2>2, AlignIs DEF m
    <3>8. AlignPrefix(p) = Suffix(p, Min(Begins(p)))
      BY <3>6, AlignIs
    <3> QED BY <3>3, <3>5, <3>7, <3>8
  <2> QED BY <2>1, <2>2
<1> QED BY <1>5 DEF Called

LEMMA TrimmedEnd ==
    ASSUME Names, NEW q, NEW p, SameEnd(q, p), NEW c \in Chars
    PROVE  SameEnd(Trimmed(Append(q, c)), Append(p, c))
<1> DEFINE x == Append(q, c)
           y == Append(p, c)
           n == Len(q) + 1
           m == Len(p) + 1
           L == LongestName
           from == IF 1 >= n - L THEN 1 ELSE n - L
           z == Trimmed(x)
           long == n - from + 1
<1>1. /\ q \in Seq(Chars) /\ p \in Seq(Chars) /\ L \in Nat
      /\ n \in Nat \ {0} /\ m \in Nat \ {0} /\ Len(q) = n - 1 /\ Len(p) = m - 1
  BY DEF SameEnd, Names
<1>2. /\ x \in Seq(Chars) /\ Len(x) = n /\ x[n] = c /\ \A k \in 1..n - 1 : x[k] = q[k]
  BY <1>1, AppendProperties
<1>3. /\ y \in Seq(Chars) /\ Len(y) = m /\ y[m] = c /\ \A k \in 1..m - 1 : y[k] = p[k]
  BY <1>1, AppendProperties
<1>4. n - 1 = m - 1 \/ (n - 1 > L /\ m - 1 > L)
  BY <1>1 DEF SameEnd
<1>12. \A k \in 0..L : k < Len(q) /\ k < Len(p) => q[Len(q) - k] = p[Len(p) - k]
  BY DEF SameEnd
<1> HIDE DEF x, y, n, m, L
<1>5. \A k \in 0..L : k < n - 1 /\ k < m - 1 => q[(n - 1) - k] = p[(m - 1) - k]
  BY <1>1, <1>12
<1>6. from \in 1..n /\ from \in 1..n + 1 /\ Max({1, n - L}) = from /\ long \in Nat
  BY <1>1, MaxOfTwo
<1>7. z = Suffix(x, from)
  BY <1>2, <1>6 DEF Trimmed, L
<1> HIDE DEF z
<1>8. /\ z \in Seq(Chars) /\ Len(z) = long
      /\ \A k \in 1..long : z[k] = x[from + k - 1]
  <2> HIDE DEF from
  <2> DEFINE w == Suffix(x, from)
  <2>1. from \in 1..Len(x) + 1
    BY <1>2, <1>6
  <2>2. /\ w \in Seq(Chars) /\ Len(w) = Len(x) - from + 1
        /\ \A k \in 1..Len(x) - from + 1 : w[k] = x[from + k - 1]
    BY <1>2, <2>1, SuffixIs, Zenon
  <2> QED BY <1>2, <1>7, <2>2
<1>9. long = m \/ (long > L /\ m > L)
  BY <1>1, <1>4
<1>10. ASSUME NEW k \in 0..L, k < long, k < m PROVE z[long - k] = y[m - k]
  <2>1. long - k \in 1..long /\ from + (long - k) - 1 = n - k
    BY <1>1, <1>6, <1>10
  <2>2. k < n /\ k \in Nat
    BY <1>1, <1>6, <1>10
  <2> HIDE DEF long, from
  <2>3. z[long - k] = x[n - k]
    BY <1>8, <2>1
  <2>4. CASE k = 0
    <3>1. n - k = n /\ m - k = m
      BY <1>1, <2>4
    <3> QED BY <1>2, <1>3, <2>3, <3>1
  <2>5. CASE k # 0
    <3> DEFINE b == k - 1
    <3>1. /\ b \in 0..L /\ b < n - 1 /\ b < m - 1 /\ n - k \in 1..n - 1 /\ m - k \in 1..m - 1
          /\ (n - 1) - b = n - k /\ (m - 1) - b = m - k
      BY <1>1, <1>10, <2>2, <2>5
    <3> HIDE DEF b
    <3>2. q[(n - 1) - b] = p[(m - 1) - b]
      BY <1>5, <3>1
    <3>3. x[n - k] = q[n - k] /\ y[m - k] = p[m - k]
      BY <1>2, <1>3, <3>1
    <3> QED BY <2>3, <3>1, <3>2, <3>3
  <2> QED BY <2>4, <2>5
<1> HIDE DEF long
<1>11. SameEnd(z, y)
  BY <1>3, <1>8, <1>9, <1>10 DEF SameEnd, L
<1> QED BY <1>11 DEF z, x, y

-----------------------------------------------------------------------------
(* A token that begins in the prose *)

\* The prose with the first n characters of a token behind it.
ProseTo(q, token, n) == q \o SubSeq(token, 1, n)

LEMMA ProseIs ==
    ASSUME NEW q \in Seq(Chars), NEW token \in Seq(Chars), NEW n \in 0..Len(token)
    PROVE  /\ ProseTo(q, token, n) \in Seq(Chars) /\ Len(ProseTo(q, token, n)) = Len(q) + n
           /\ \A i \in 1..Len(q) : ProseTo(q, token, n)[i] = q[i]
           /\ \A i \in 1..n : ProseTo(q, token, n)[Len(q) + i] = token[i]
<1> DEFINE r == SubSeq(token, 1, n)
           m == Len(q)
           b == q \o r
<1>1. r \in Seq(Chars) /\ Len(r) = n /\ \A i \in 1..n : r[i] = token[i]
  BY FirstsAre
<1> HIDE DEF r
<1>2. m \in Nat /\ n \in Nat
  OBVIOUS
<1>3. /\ b \in Seq(Chars) /\ Len(b) = m + n
      /\ \A i \in 1..m + n : b[i] = IF i <= m THEN q[i] ELSE r[i - m]
  BY <1>1, ConcatProperties
<1> HIDE DEF m, b
<1>4. \A i \in 1..m : b[i] = q[i]
  BY <1>2, <1>3
<1>5. ASSUME NEW i \in 1..n PROVE b[m + i] = token[i]
  <2>1. m + i \in 1..m + n /\ ~ (m + i <= m) /\ (m + i) - m = i
    BY <1>2
  <2>2. b[m + i] = r[i]
    BY <1>3, <2>1
  <2> QED BY <1>1, <2>2
<1> QED BY <1>3, <1>4, <1>5 DEF ProseTo, r, m, b

LEMMA ProseOn ==
    ASSUME NEW q \in Seq(Chars), NEW token \in Seq(Chars), NEW n \in Nat, n + 1 <= Len(token)
    PROVE  ProseTo(q, token, n + 1) = Append(ProseTo(q, token, n), token[n + 1])
<1> DEFINE m == Len(q)
           a == ProseTo(q, token, n)
           b == ProseTo(q, token, n + 1)
           c == Append(a, token[n + 1])
<1>1. n \in 0..Len(token) /\ n + 1 \in 0..Len(token) /\ n + 1 \in 1..Len(token) /\ m \in Nat
  OBVIOUS
<1>2. /\ a \in Seq(Chars) /\ Len(a) = m + n
      /\ (\A i \in 1..m : a[i] = q[i]) /\ (\A i \in 1..n : a[m + i] = token[i])
  BY <1>1, ProseIs
<1>3. /\ b \in Seq(Chars) /\ Len(b) = m + (n + 1)
      /\ (\A i \in 1..m : b[i] = q[i]) /\ (\A i \in 1..n + 1 : b[m + i] = token[i])
  <2> DEFINE k == n + 1
  <2>1. k \in 0..Len(token)
    BY <1>1
  <2> HIDE DEF k
  <2>2. /\ ProseTo(q, token, k) \in Seq(Chars) /\ Len(ProseTo(q, token, k)) = m + k
        /\ (\A i \in 1..m : ProseTo(q, token, k)[i] = q[i])
        /\ (\A i \in 1..k : ProseTo(q, token, k)[m + i] = token[i])
    BY <2>1, ProseIs
  <2> QED BY <2>2 DEF k
<1>4. token[n + 1] \in Chars
  BY <1>1
<1> HIDE DEF a, b
<1>5. /\ c \in Seq(Chars) /\ Len(c) = Len(a) + 1 /\ c[Len(a) + 1] = token[n + 1]
      /\ \A i \in 1..Len(a) : c[i] = a[i]
  <2> DEFINE last == token[n + 1]
  <2> HIDE DEF last
  <2>1. last \in Chars
    BY <1>4 DEF last
  <2>2. /\ Append(a, last) \in Seq(Chars) /\ Len(Append(a, last)) = Len(a) + 1
        /\ Append(a, last)[Len(a) + 1] = last /\ \A i \in 1..Len(a) : Append(a, last)[i] = a[i]
    BY <1>2, <2>1, AppendProperties
  <2> QED BY <2>2 DEF last
<1> HIDE DEF c, m
<1>6. ASSUME NEW i \in 1..m + (n + 1) PROVE b[i] = c[i]
  <2>1. CASE i \in 1..m
    <3>1. i \in 1..m + n
      BY <1>1, <2>1
    <3> QED BY <1>2, <1>3, <1>5, <2>1, <3>1
  <2>2. CASE i \notin 1..m /\ i # m + (n + 1)
    <3> DEFINE k == i - m
    <3>1. k \in 1..n /\ k \in 1..n + 1 /\ i \in 1..m + n /\ i = m + k
      BY <1>1, <2>2
    <3> HIDE DEF k
    <3>2. b[m + k] = token[k] /\ a[m + k] = token[k]
      BY <1>2, <1>3, <3>1
    <3> QED BY <1>2, <1>5, <3>1, <3>2
  <2>3. CASE i = m + (n + 1)
    <3> DEFINE k == n + 1
    <3>1. k \in 1..n + 1 /\ i = m + k /\ i = (m + n) + 1
      BY <1>1, <2>3
    <3>2. b[m + k] = token[k]
      <4> HIDE DEF k
      <4> QED BY <1>3, <3>1
    <3> QED BY <1>2, <1>5, <3>1, <3>2
  <2> QED BY <2>1, <2>2, <2>3
<1>7. Len(b) = Len(c)
  BY <1>1, <1>2, <1>3, <1>5
<1> HIDE DEF ProseTo
<1> QED BY <1>3, <1>5, <1>6, <1>7, SeqEqual DEF a, b, c

LEMMA ProseFirst ==
    ASSUME NEW q \in Seq(Chars), NEW token \in Seq(Chars)
    PROVE  ProseTo(q, token, 0) = q
<1>1. SubSeq(token, 1, 0) = <<>>
  BY SubSeqEmpty
<1> QED BY <1>1, ConcatEmptySeq DEF ProseTo

\* Prose in which no tool is called stays prose.
LEMMA SwallowProse ==
    ASSUME Names, NEW x, IsSession(x), x.stage = Prefix, NEW p, SameEnd(x.queue, p), NEW c \in Chars,
           c = "(" => Called(p) = {}
    PROVE  \E y \in Swallow(x, c) : IsSession(y) /\ y.stage = Prefix /\ SameEnd(y.queue, Append(p, c))
<1> DEFINE queue == Trimmed(Append(x.queue, c))
           y == [x EXCEPT !.queue = queue]
<1>1. SameEnd(queue, Append(p, c))
  BY TrimmedEnd
<1>2. c = "(" => Called(x.queue) = {}
  BY SameCalls
<1> HIDE DEF queue
<1>3. y \in Swallow(x, c)
  <2>1. Swallow(x, c) = SwallowPrefix(x, c)
    BY Reasons DEF Swallow
  <2>2. SwallowPrefix(x, c) = {y}
    BY <1>2 DEF SwallowPrefix, queue
  <2> QED BY <2>1, <2>2
<1>4. IsSession(y)
  BY <1>3, SwallowKeeps
<1>5. y.stage = Prefix /\ y.queue = queue
  BY DEF IsSession
<1> QED BY <1>1, <1>3, <1>4, <1>5

\* The first n characters of the token call no tool.
Quiet(q, token, n) == \A j \in 1..n : token[j] = "(" => Called(ProseTo(q, token, j - 1)) = {}

LEMMA ProseStays ==
    ASSUME Names, NEW s, IsSession(s), s.stage = Prefix, s.queue \in Seq(Chars),
           NEW token \in Seq(Chars), NEW N \in Nat, NEW f, Reaching(s, token, f, N),
           NEW m \in Nat, m <= N, m <= Len(token), Quiet(s.queue, token, m)
    PROVE  \E r \in f[m] : IsSession(r) /\ r.stage = Prefix /\ SameEnd(r.queue, ProseTo(s.queue, token, m))
<1> DEFINE S == {n \in Nat : n <= m => \E r \in f[n] : /\ IsSession(r) /\ r.stage = Prefix
                                                       /\ SameEnd(r.queue, ProseTo(s.queue, token, n))}
<1>1. 0 \in S
  <2>1. f[0] = {s}
    BY ReachFirst, Zenon
  <2>2. SameEnd(s.queue, ProseTo(s.queue, token, 0))
    BY ProseFirst DEF SameEnd
  <2> QED BY <2>1, <2>2
<1>2. ASSUME NEW n \in S PROVE n + 1 \in S
  <2> SUFFICES ASSUME n + 1 <= m
               PROVE  \E r \in f[n + 1] : /\ IsSession(r) /\ r.stage = Prefix
                                          /\ SameEnd(r.queue, ProseTo(s.queue, token, n + 1))
    OBVIOUS
  <2>1. /\ n \in Nat /\ n <= m /\ n + 1 \in 1..m /\ n + 1 <= N /\ (n + 1) - 1 = n /\ n + 1 <= Len(token)
        /\ n + 1 \in 1..Len(token)
    OBVIOUS
  <2> DEFINE c == token[n + 1]
             p == ProseTo(s.queue, token, n)
  <2>2. PICK x \in f[n] : IsSession(x) /\ x.stage = Prefix /\ SameEnd(x.queue, p)
    BY <2>1
  <2>3. c \in Chars
    BY <2>1
  <2>4. c = "(" => Called(p) = {}
    BY <2>1 DEF Quiet
  <2>5. ProseTo(s.queue, token, n + 1) = Append(p, c)
    BY <2>1, ProseOn
  <2> HIDE DEF p
  <2>6. \E y \in Swallow(x, c) : IsSession(y) /\ y.stage = Prefix /\ SameEnd(y.queue, Append(p, c))
    <3> HIDE DEF c
    <3> QED BY <2>2, <2>3, <2>4, SwallowProse
  <2>7. PICK y \in Swallow(x, c) : IsSession(y) /\ y.stage = Prefix /\ SameEnd(y.queue, Append(p, c))
    BY <2>6
  <2>8. y \in f[n + 1]
    BY <2>1, <2>2, <2>7, ReachOn
  <2> QED BY <2>5, <2>7, <2>8
<1> HIDE DEF S
<1>3. S = Nat
  <2>1. S \in SUBSET Nat
    BY DEF S
  <2> QED BY <1>1, <1>2, <2>1, ByInduction
<1>4. m \in S /\ m <= m
  BY <1>3
<1> QED BY <1>4 DEF S

LEMMA FirstParenIs ==
    ASSUME NEW token \in Seq(Chars), "(" \in Range(token)
    PROVE  /\ FirstParen(token) \in 1..Len(token) /\ token[FirstParen(token)] = "("
           /\ \A i \in 1..Len(token) : token[i] = "(" => FirstParen(token) <= i
<1> DEFINE S == {i \in DOMAIN token : token[i] = "("}
<1>1. S \subseteq Nat /\ S # {}
  BY DEF Range
<1>2. Min(S) \in S /\ \A k \in S : Min(S) =< k
  <2> HIDE DEF S
  <2> QED BY <1>1, LeastIs
<1>3. FirstParen(token) = Min(S)
  BY DEF FirstParen
<1> DEFINE p == FirstParen(token)
<1>4. p \in S /\ \A k \in S : p =< k
  BY <1>2, <1>3
<1> HIDE DEF p
<1>5. p \in 1..Len(token) /\ token[p] = "(" /\ \A i \in 1..Len(token) : token[i] = "(" => p <= i
  BY <1>4
<1> QED BY <1>5 DEF p

\* The tool that is called is the end of what was written.
LEMMA CalledIs ==
    ASSUME Names, NEW b \in Seq(Chars), NEW t \in Called(b)
    PROVE  /\ Len(t.name) \in 0..Len(b) /\ t \in Tools
           /\ \A k \in 1..Len(t.name) : t.name[k] = b[Len(b) - Len(t.name) + k]
<1>1. t \in Tools /\ t.name = AlignPrefix(b)
  BY DEF Called
<1>2. CASE Begins(b) = {}
  <2>1. t.name = <<>>
    BY <1>1, <1>2, AlignIs
  <2>2. Len(t.name) = 0
    BY <2>1
  <2> QED BY <1>1, <2>2
<1>3. CASE Begins(b) # {}
  <2> DEFINE i == Min(Begins(b))
             n == Len(b)
             m == n - i + 1
  <2>1. Begins(b) \subseteq Nat
    BY DEF Begins
  <2>2. i \in Begins(b)
    BY <1>3, <2>1, LeastIs
  <2>3. n \in Nat
    OBVIOUS
  <2> HIDE DEF i
  <2>4. i \in 1..n /\ i \in 1..Len(b) + 1
    BY <2>2, <2>3 DEF Begins
  <2>5. t.name = Suffix(b, i)
    BY <1>1, <1>3, AlignIs DEF i
  <2>6. /\ Len(Suffix(b, i)) = Len(b) - i + 1
        /\ \A k \in 1..Len(b) - i + 1 : Suffix(b, i)[k] = b[i + k - 1]
    BY <2>4, SuffixIs
  <2>7. Len(t.name) = m /\ \A k \in 1..m : t.name[k] = b[i + k - 1]
    BY <2>5, <2>6
  <2>8. m \in 0..n /\ \A k \in 1..m : i + k - 1 = n - m + k
    BY <2>3, <2>4
  <2> HIDE DEF m, n
  <2> QED BY <1>1, <2>7, <2>8 DEF n
<1> QED BY <1>2, <1>3

LEMMA NoSecond ==
    ASSUME Names, \A t \in Tools : "(" \notin Range(t.name),
           NEW token \in Seq(Chars), "(" \in Range(token), OpensOnce(schema, token),
           NEW q \in Seq(Chars), NEW j \in 1..Len(token), token[j] = "(", FirstParen(token) < j
    PROVE  Called(ProseTo(q, token, j - 1)) = {}
<1> DEFINE p == FirstParen(token)
           n == j - 1
           b == ProseTo(q, token, n)
           base == Len(q)
<1> SUFFICES ASSUME NEW t \in Called(b) PROVE FALSE
  OBVIOUS
<1>1. p \in 1..Len(token) /\ token[p] = "("
  BY FirstParenIs
<1>2. n \in Nat /\ n \in 0..Len(token) /\ j = n + 1 /\ p \in 1..n /\ base \in Nat
  BY <1>1
<1> HIDE DEF p, n
<1>3. /\ b \in Seq(Chars) /\ Len(b) = base + n
      /\ \A i \in 1..n : b[base + i] = token[i]
  BY <1>2, ProseIs
<1> HIDE DEF b
<1> DEFINE m == Len(t.name)
<1>4. /\ m \in 0..Len(b) /\ t \in Tools
      /\ \A k \in 1..m : t.name[k] = b[Len(b) - m + k]
  BY <1>3, CalledIs
<1>5. t.name \in Seq(Chars) /\ "(" \notin Range(t.name)
  BY <1>4 DEF Names
<1>6. \A k \in 1..m : t.name[k] # "("
  BY <1>5 DEF Range
<1> HIDE DEF m, base
<1>7. m \in Nat
  BY <1>2, <1>3, <1>4
<1>8. m <= n - p
  <2> SUFFICES ASSUME ~ (m <= n - p) PROVE FALSE
    OBVIOUS
  <2> DEFINE k == p - n + m
  <2>1. k \in 1..m /\ Len(b) - m + k = base + p
    BY <1>2, <1>3, <1>7
  <2> HIDE DEF k
  <2>2. t.name[k] = b[base + p]
    BY <1>4, <2>1
  <2>3. b[base + p] = "("
    BY <1>1, <1>2, <1>3
  <2> QED BY <1>6, <2>1, <2>2, <2>3
<1> DEFINE from == j - m
           r == SubSeq(token, from, n)
<1>9. from \in Int /\ from \in 1..j /\ n \in Int /\ from > p /\ n - from + 1 = m
  BY <1>2, <1>7, <1>8
<1>10. r \in Seq(Chars) /\ Len(r) = m /\ \A k \in 1..m : r[k] = token[from + k - 1]
  <2>1. \A i \in from..n : token[i] \in Chars
    <3>1. \A i \in from..n : i \in 1..Len(token)
      BY <1>2, <1>9
    <3> HIDE DEF from
    <3> QED BY <3>1
  <2>2. (IF from <= n THEN n - from + 1 ELSE 0) = m
    BY <1>2, <1>7
  <2> HIDE DEF from
  <2>3. /\ r \in Seq(Chars) /\ Len(r) = IF from <= n THEN n - from + 1 ELSE 0
        /\ \A k \in 1..n - from + 1 : r[k] = token[from + k - 1]
    BY <1>9, <2>1, SubSeqProperties
  <2> QED BY <1>9, <2>2, <2>3
<1>11. ASSUME NEW k \in 1..m PROVE r[k] = t.name[k]
  <2> DEFINE i == n - m + k
  <2>1. i \in 1..n /\ from + k - 1 = i /\ Len(b) - m + k = base + i
    BY <1>2, <1>3, <1>7, <1>8
  <2> HIDE DEF i, from, r
  <2>2. b[base + i] = token[i] /\ t.name[k] = b[base + i] /\ r[k] = token[i]
    BY <1>3, <1>4, <1>10, <2>1
  <2> QED BY <2>2
<1> HIDE DEF r
<1>12. r = t.name
  BY <1>5, <1>10, <1>11, SeqEqual DEF m
<1>13. SubSeq(token, j - Len(t.name), j - 1) # t.name
  <2>1. t \in schema.tools /\ j \in DOMAIN token /\ j - Len(t.name) > FirstParen(token)
    BY <1>4, <1>9 DEF Tools, p, m
  <2> QED BY <2>1 DEF OpensOnce
<1> QED BY <1>12, <1>13 DEF r, m, n

-----------------------------------------------------------------------------
(* The call a token opens *)

LEMMA SwallowOpens ==
    ASSUME NEW x, IsSession(x), x.stage = Prefix, NEW t \in Called(x.queue)
    PROVE  \E y \in Swallow(x, "(") : /\ IsSession(y) /\ y.stage = Args /\ y.state = StartAt(t.root)
                                      /\ y.fresh = TRUE /\ y.tool = t
<1> DEFINE start == StartAt(t.root)
           y == [x EXCEPT !.stage = Args, !.state = start, !.fresh = TRUE, !.tool = t]
<1>1. y \in Swallow(x, "(")
  <2>1. Swallow(x, "(") = SwallowPrefix(x, "(")
    BY Reasons DEF Swallow
  <2>2. Called(x.queue) # {}
    OBVIOUS
  <2>3. y \in {[x EXCEPT !.stage = Args, !.state = StartAt(u.root), !.fresh = TRUE, !.tool = u] : u \in Called(x.queue)}
    OBVIOUS
  <2> HIDE DEF y
  <2> QED BY <2>1, <2>2, <2>3, Zenon DEF SwallowPrefix
<1>2. IsSession(y)
  BY <1>1, SwallowKeeps
<1> HIDE DEF start
<1>3. y.stage = Args /\ y.state = start /\ y.fresh = TRUE /\ y.tool = t
  BY DEF IsSession
<1> QED BY <1>1, <1>2, <1>3 DEF start

\* What RemainderConforms can feed, the session takes.
LEMMA GoTaken ==
    ASSUME NEW s, NEW token, NEW N \in Nat, NEW f, Reaching(s, token, f, N),
           NEW p \in Nat, NEW M \in Nat, p + M = N, NEW root,
           \E x \in f[p] : Reads(x, StartAt(root)),
           NEW rest, \A k \in 1..M : rest[k] = token[p + k], NEW a, Going(root, rest, a, M),
           NEW n \in Nat, n <= M, NEW g \in a[n]
    PROVE  \E x \in f[p + n] : Reads(x, g)
<1> DEFINE S == {m \in Nat : m <= M => \A h \in a[m] : \E x \in f[p + m] : Reads(x, h)}
<1>1. 0 \in S
  <2>1. a[0] = {StartAt(root)}
    BY GoFirst, Zenon
  <2>2. p + 0 = p
    OBVIOUS
  <2> QED BY <2>1, <2>2
<1>2. ASSUME NEW m \in S PROVE m + 1 \in S
  <2> SUFFICES ASSUME m + 1 <= M, NEW h \in a[m + 1] PROVE \E x \in f[p + (m + 1)] : Reads(x, h)
    OBVIOUS
  <2> DEFINE i == p + m
  <2>1. /\ m \in Nat /\ m <= M /\ m + 1 \in 1..M /\ i \in Nat /\ p + (m + 1) = i + 1 /\ i + 1 <= N
    OBVIOUS
  <2>2. PICK before \in a[m] : h \in FeedChar(before, rest[m + 1])
    BY <2>1, GoBack
  <2>3. PICK x \in f[i] : Reads(x, before)
    BY <2>1
  <2>4. rest[m + 1] = token[i + 1]
    BY <2>1
  <2> HIDE DEF i
  <2>5. PICK y \in Swallow(x, token[i + 1]) : Reads(y, h)
    BY <2>2, <2>3, <2>4, ReadsOn
  <2>6. y \in f[i + 1]
    BY <2>1, <2>3, <2>5, ReachOn
  <2> QED BY <2>1, <2>5, <2>6
<1> HIDE DEF S
<1>3. S = Nat
  <2>1. S \in SUBSET Nat
    BY DEF S
  <2> QED BY <1>1, <1>2, <2>1, ByInduction
<1> QED BY <1>3 DEF S

Waiting(root, run) == [stack |-> <<ValueFrame(root)>>, run |-> run]

LEMMA SpaceFeeds ==
    ASSUME NEW root, NEW run \in Nat, MaxSpaces \in Nat, run < MaxSpaces
    PROVE  Waiting(root, run + 1) \in FeedChar(Waiting(root, run), " ")
<1> DEFINE s == Waiting(root, run)
           u == Waiting(root, run + 1)
           stack == <<ValueFrame(root)>>
<1>1. ASSUME NEW n PROVE Waiting(root, n).stack = stack /\ Waiting(root, n).run = n
  BY DEF Waiting
<1>2. stack # <<>> /\ Last(stack) = ValueFrame(root)
  BY DEF Last
<1>3. ValueFrame(root).kind = "value"
  BY DEF ValueFrame
<1> HIDE DEF stack
<1>4. ASSUME NEW n PROVE ~ IsDone(Waiting(root, n)) /\ Top(Waiting(root, n)).kind = "value"
  BY <1>1, <1>2, <1>3 DEF IsDone, Top
<1>5. [s EXCEPT !.run = run + 1] = u
  BY DEF Waiting, stack
<1> HIDE DEF s, u
<1>6. s.run = run /\ ~ InStringBody(s)
  BY <1>1, <1>4 DEF InStringBody, s
<1>7. u \in Counted(s, " ")
  BY <1>5, <1>6 DEF Counted
<1>8. u \in FeedFrame(u, " ")
  BY <1>4 DEF FeedFrame, u
<1> QED BY <1>7, <1>8 DEF FeedChar, s, u

\* A call of t of which n spaces have been read.
Waits(x, t, n) == IsSession(x) /\ x.stage = Args /\ x.state = Waiting(t.root, n) /\ x.fresh = TRUE /\ x.tool = t

Blank(token, p, m) == \A k \in 1..m : token[p + k] = " "

LEMMA BlankAt ==
    ASSUME NEW token, NEW p \in Nat, NEW m \in Nat, Blank(token, p, m), NEW n \in Nat, n + 1 <= m
    PROVE  token[(p + n) + 1] = " "
<1>1. n + 1 \in 1..m /\ p + (n + 1) = (p + n) + 1
  OBVIOUS
<1>2. token[p + (n + 1)] = " "
  BY <1>1 DEF Blank
<1> QED BY <1>1, <1>2

LEMMA WaitsFirst ==
    ASSUME NEW x, IsSession(x), x.stage = Args, NEW t, x.state = StartAt(t.root), x.fresh = TRUE, x.tool = t
    PROVE  Waits(x, t, 0)
<1>1. StartAt(t.root) = Waiting(t.root, 0)
  BY DEF StartAt, Waiting
<1> QED BY <1>1, Zenon DEF Waits

LEMMA WaitsOn ==
    ASSUME MaxSpaces \in Nat, NEW x, NEW t, NEW n \in Nat, n < MaxSpaces, Waits(x, t, n)
    PROVE  \E y \in Swallow(x, " ") : Waits(y, t, n + 1)
<1> DEFINE next == Waiting(t.root, n + 1)
           args == IF " " = " " /\ ~InContent(x.state) THEN x.args ELSE Append(x.args, " ")
           fresh == x.fresh /\ " " = " "
           y == [x EXCEPT !.state = next, !.fresh = fresh, !.args = args]
<1>1. IsSession(x) /\ x.stage = Args /\ x.state = Waiting(t.root, n) /\ x.fresh = TRUE /\ x.tool = t
  BY DEF Waits
<1>2. next \in FeedChar(x.state, " ")
  <2>1. next \in FeedChar(Waiting(t.root, n), " ")
    BY SpaceFeeds
  <2> QED BY <1>1, <2>1
<1> HIDE DEF next
<1>3. y \in Swallow(x, " ")
  <2>1. Swallow(x, " ") = SwallowArgs(x, " ")
    BY <1>1, Reasons DEF Swallow
  <2>2. y \in {[x EXCEPT !.state = z, !.fresh = fresh, !.args = args] : z \in FeedChar(x.state, " ")}
    <3> HIDE DEF fresh, args
    <3> QED BY <1>2, Zenon
  <2>3. " " # ")"
    OBVIOUS
  <2> QED BY <2>1, <2>2, <2>3, Zenon DEF SwallowArgs
<1>4. IsSession(y)
  BY <1>1, <1>3, SwallowKeeps
<1>5. fresh = TRUE
  BY <1>1
<1>6. y.stage = x.stage /\ y.state = next /\ y.fresh = fresh /\ y.tool = x.tool
  <2> HIDE DEF fresh, args
  <2> QED BY <1>1 DEF IsSession
<1> HIDE DEF y, fresh
<1>7. Waits(y, t, n + 1)
  BY <1>1, <1>4, <1>5, <1>6, Zenon DEF next, Waits
<1> QED BY <1>3, <1>7

\* The spaces between the `(` and the `)` of a call of nothing.
LEMMA SpacesTaken ==
    ASSUME MaxSpaces \in Nat,
           NEW s, NEW token, NEW N \in Nat, NEW f, Reaching(s, token, f, N),
           NEW p \in Nat, NEW t, NEW x0 \in f[p], Waits(x0, t, 0),
           NEW m \in Nat, m <= MaxSpaces, p + m <= N, Blank(token, p, m)
    PROVE  \E x \in f[p + m] : Waits(x, t, m)
<1> DEFINE S == {n \in Nat : n <= m => \E x \in f[p + n] : Waits(x, t, n)}
<1>1. 0 \in S
  <2>1. p + 0 = p
    OBVIOUS
  <2> QED BY <2>1
<1>2. ASSUME NEW n \in S PROVE n + 1 \in S
  <2> SUFFICES ASSUME n + 1 <= m PROVE \E x \in f[p + (n + 1)] : Waits(x, t, n + 1)
    OBVIOUS
  <2> DEFINE i == p + n
  <2>1. /\ n \in Nat /\ n <= m /\ i \in Nat /\ p + (n + 1) = i + 1 /\ i + 1 <= N /\ n < MaxSpaces
    OBVIOUS
  <2>2. PICK x \in f[i] : Waits(x, t, n)
    BY <2>1
  <2>3. token[i + 1] = " "
    BY <2>1, BlankAt
  <2> HIDE DEF i
  <2>4. PICK y \in Swallow(x, " ") : Waits(y, t, n + 1)
    BY <2>1, <2>2, WaitsOn
  <2>5. y \in f[i + 1]
    BY <2>1, <2>2, <2>3, <2>4, ReachOn
  <2> QED BY <2>1, <2>4, <2>5
<1> HIDE DEF S
<1>3. S = Nat
  <2>1. S \in SUBSET Nat
    BY DEF S
  <2> QED BY <1>1, <1>2, <2>1, ByInduction
<1>4. m \in S /\ m <= m
  BY <1>3
<1> QED BY <1>4 DEF S

\* No token has more spaces behind a `(` than may stand between two values.
FewSpaces(token) ==
    \A p \in DOMAIN token : token[p] = "(" /\ p + MaxSpaces + 1 <= Len(token) =>
        \E k \in p + 1..p + MaxSpaces + 1 : token[k] # " "

LEMMA FewAre ==
    ASSUME MaxSpaces \in Nat, NEW token \in Seq(Chars), FewSpaces(token), NEW p \in 1..Len(token), token[p] = "(",
           NEW m \in Nat, p + m <= Len(token), Blank(token, p, m)
    PROVE  m <= MaxSpaces
<1> SUFFICES ASSUME ~ (m <= MaxSpaces) PROVE FALSE
  OBVIOUS
<1>1. p + MaxSpaces + 1 <= Len(token)
  OBVIOUS
<1>2. PICK k \in p + 1..p + MaxSpaces + 1 : token[k] # " "
  <2>1. \A q \in DOMAIN token : token[q] = "(" /\ q + MaxSpaces + 1 <= Len(token) =>
            \E k \in q + 1..q + MaxSpaces + 1 : token[k] # " "
    BY Zenon DEF FewSpaces
  <2>2. p \in DOMAIN token
    OBVIOUS
  <2> QED BY <1>1, <2>1, <2>2, Zenon
<1> DEFINE n == k - p
<1>3. n \in 1..m /\ p + n = k
  OBVIOUS
<1> HIDE DEF n
<1>4. token[p + n] = " "
  BY <1>3 DEF Blank
<1> QED BY <1>2, <1>3, <1>4

LEMMA TwoParts ==
    ASSUME NEW token \in Seq(Chars), NEW p \in 1..Len(token)
    PROVE  /\ Len(token) \in Nat /\ p \in Nat /\ Len(token) - p \in Nat /\ p + (Len(token) - p) = Len(token)
           /\ p + 1 \in 1..Len(token) + 1
  OBVIOUS

\* A reading that has come to the `(`, and that of the arguments behind it.
Along(s, token, N, f, p, M, root, rest, a) ==
    /\ N \in Nat /\ p \in Nat /\ M \in Nat /\ p + M = N
    /\ Reaching(s, token, f, N) /\ Going(root, rest, a, M)
    /\ \E x \in f[p] : Reads(x, StartAt(root))
    /\ \A k \in 1..M : rest[k] = token[p + k]

LEMMA AlongTaken ==
    ASSUME NEW s, NEW token, NEW N, NEW f, NEW p, NEW M, NEW root, NEW rest, NEW a,
           Along(s, token, N, f, p, M, root, rest, a), NEW n \in Nat, n <= M, NEW g \in a[n]
    PROVE  \E x \in f[p + n] : Reads(x, g)
<1>1. /\ N \in Nat /\ p \in Nat /\ M \in Nat /\ p + M = N
      /\ Reaching(s, token, f, N) /\ Going(root, rest, a, M)
      /\ \E x \in f[p] : Reads(x, StartAt(root))
      /\ \A k \in 1..M : rest[k] = token[p + k]
  BY Zenon DEF Along
<1> QED BY <1>1, GoTaken

\* A token that calls a tool, and may go on with its arguments.
LEMMA CallTaken ==
    ASSUME MaxSpaces \in Nat,
           NEW s, NEW token \in Seq(Chars), NEW f, Reaching(s, token, f, Len(token)), FewSpaces(token),
           NEW p \in 1..Len(token), token[p] = "(", NEW t, RemainderConforms(t, Suffix(token, p + 1)),
           NEW x \in f[p], Waits(x, t, 0)
    PROVE  f[Len(token)] # {}
<1> DEFINE N == Len(token)
           M == N - p
           rest == Suffix(token, p + 1)
<1>1. N \in Nat /\ p \in Nat /\ M \in Nat /\ p + M = N /\ p \in 1..N /\ p + 1 \in 1..N + 1
  BY TwoParts
<1>2. Len(rest) = M /\ \A k \in 1..M : rest[k] = token[p + k]
  <2> DEFINE from == p + 1
  <2>1. from \in 1..Len(token) + 1
    BY <1>1
  <2> HIDE DEF from
  <2>2. /\ Suffix(token, from) \in Seq(Chars) /\ Len(Suffix(token, from)) = Len(token) - from + 1
        /\ \A k \in 1..Len(token) - from + 1 : Suffix(token, from)[k] = token[from + k - 1]
    BY <2>1, SuffixIs
  <2>3. Len(token) - from + 1 = M /\ \A k \in 1..M : from + k - 1 = p + k
    BY <1>1 DEF from
  <2> QED BY <2>2, <2>3 DEF from
<1>3. DOMAIN rest = 1..M
  <2> DEFINE from == p + 1
  <2>1. from \in 1..Len(token) + 1
    BY <1>1
  <2> HIDE DEF from
  <2>2. Suffix(token, from) \in Seq(Chars)
    BY <2>1, SuffixIs
  <2> QED BY <1>2, <2>2 DEF from
<1> HIDE DEF M, N, rest
<1>5. Reads(x, StartAt(t.root))
  <2>1. StartAt(t.root) = Waiting(t.root, 0)
    BY DEF StartAt, Waiting
  <2> QED BY <2>1, Zenon DEF Reads, Waits
<1>6. PICK a : /\ Going(t.root, rest, a, M)
               /\ \/ /\ OptionalOnly(t)
                     /\ \E n \in DOMAIN rest : rest[n] = ")" /\ \A k \in DOMAIN rest \ {n} : rest[k] = " "
                  \/ \E n \in DOMAIN rest : rest[n] = ")" /\ \E g \in a[n - 1] : IsDone(g)
                  \/ a[M] # {}
  <2>1. RemainderConforms(t, rest) /\ Len(rest) \in Nat
    BY <1>1, <1>2 DEF rest
  <2> QED BY <1>2, <2>1, ConformsIs
<1>7. ASSUME NEW n \in Nat, n <= M, NEW g \in a[n] PROVE \E y \in f[p + n] : Reads(y, g)
  <2>1. \E z \in f[p] : Reads(z, StartAt(t.root))
    BY <1>5
  <2>2. Reaching(s, token, f, N) /\ Going(t.root, rest, a, M) /\ \A k \in 1..M : rest[k] = token[p + k]
    BY <1>2, <1>6 DEF N
  <2>3. p \in Nat /\ M \in Nat /\ N \in Nat /\ p + M = N
    BY <1>1
  <2>4. Along(s, token, N, f, p, M, t.root, rest, a)
    BY <2>1, <2>2, <2>3, Zenon DEF Along
  <2> QED BY <1>7, <2>4, AlongTaken
<1>8. ASSUME NEW n \in 1..M, rest[n] = ")",
             NEW y \in f[p + (n - 1)], \E z \in Swallow(y, ")") : z.stage = Ended
      PROVE  f[N] # {}
  <2> DEFINE i == p + (n - 1)
  <2>1. i \in Nat /\ i + 1 <= N /\ i + 1 \in 0..N /\ i + 1 = p + n
    BY <1>1
  <2>2. token[i + 1] = ")"
    BY <1>2, <1>8, <2>1
  <2>3. PICK z \in Swallow(y, ")") : z.stage = Ended
    BY <1>8
  <2>4. y \in f[i]
    BY <1>8
  <2> HIDE DEF i
  <2>5. z \in f[i + 1]
    BY <1>1, <2>1, <2>2, <2>3, <2>4, ReachOn DEF N
  <2> DEFINE j == i + 1
  <2>6. j \in 0..N /\ \E q \in f[j] : q.stage = Ended
    BY <2>1, <2>3, <2>5
  <2> HIDE DEF j
  <2> QED BY <1>1, <2>6, EndedTakes DEF N
<1>9. CASE OptionalOnly(t) /\ \E n \in DOMAIN rest : rest[n] = ")" /\ \A k \in DOMAIN rest \ {n} : rest[k] = " "
  <2>1. PICK n \in 1..M : rest[n] = ")" /\ \A k \in 1..M \ {n} : rest[k] = " "
    BY <1>3, <1>9
  <2> DEFINE m == n - 1
  <2>2. m \in Nat /\ m < M /\ p + m <= N /\ p + m = p + (n - 1)
    BY <1>1
  <2>3. Blank(token, p, m)
    <3> SUFFICES ASSUME NEW k \in 1..m PROVE token[p + k] = " "
      BY DEF Blank
    <3>1. k \in 1..M /\ k # n
      BY <1>1
    <3> QED BY <1>2, <2>1, <3>1
  <2> HIDE DEF m
  <2>4. m <= MaxSpaces
    BY <1>1, <2>2, <2>3, FewAre DEF N
  <2>5. Reaching(s, token, f, N)
    BY DEF N
  <2>6. PICK y \in f[p + m] : Waits(y, t, m)
    BY <1>1, <2>2, <2>3, <2>4, <2>5, SpacesTaken
  <2>7. EmptyCloses(y) /\ IsSession(y) /\ y.stage = Args
    BY <1>9, <2>6, Zenon DEF EmptyCloses, Waits
  <2>8. \E z \in Swallow(y, ")") : z.stage = Ended
    BY <2>7, SwallowCloses
  <2>9. y \in f[p + (n - 1)]
    BY <2>2, <2>6
  <2> QED BY <1>8, <2>1, <2>8, <2>9 DEF N
<1>10. CASE \E n \in DOMAIN rest : rest[n] = ")" /\ \E g \in a[n - 1] : IsDone(g)
  <2>1. PICK n \in 1..M : rest[n] = ")" /\ \E g \in a[n - 1] : IsDone(g)
    BY <1>3, <1>10
  <2>2. PICK g \in a[n - 1] : IsDone(g)
    BY <2>1
  <2>3. n - 1 \in Nat /\ n - 1 <= M
    BY <1>1
  <2>4. PICK y \in f[p + (n - 1)] : Reads(y, g)
    BY <1>7, <2>2, <2>3
  <2>5. \E z \in Swallow(y, ")") : z.stage = Ended
    BY <2>2, <2>4, ReadsEnd
  <2> QED BY <1>8, <2>1, <2>4, <2>5 DEF N
<1>11. CASE a[M] # {}
  <2>1. M <= M
    BY <1>1
  <2> QED BY <1>1, <1>7, <1>11, <2>1 DEF N
<1> QED BY <1>6, <1>9, <1>10, <1>11

\* Where there are no tools everything is prose.
LEMMA NoTools ==
    ASSUME NEW s, IsSession(s), s.stage = Prefix, Tools = {},
           NEW token, NEW N \in Nat, NEW f, Reaching(s, token, f, N)
    PROVE  f[N] # {}
<1> DEFINE S == {n \in Nat : n <= N => \E x \in f[n] : IsSession(x) /\ x.stage = Prefix}
<1>1. 0 \in S
  <2>1. f[0] = {s}
    BY ReachFirst, Zenon
  <2> QED BY <2>1
<1>2. ASSUME NEW n \in S PROVE n + 1 \in S
  <2> SUFFICES ASSUME n + 1 <= N PROVE \E x \in f[n + 1] : IsSession(x) /\ x.stage = Prefix
    OBVIOUS
  <2>1. n \in Nat /\ n <= N
    OBVIOUS
  <2>2. PICK x \in f[n] : IsSession(x) /\ x.stage = Prefix
    BY <2>1
  <2> DEFINE c == token[n + 1]
             queue == Trimmed(Append(x.queue, c))
             y == [x EXCEPT !.queue = queue]
  <2>3. y \in Swallow(x, c)
    <3>1. Swallow(x, c) = SwallowPrefix(x, c)
      BY <2>2, Reasons DEF Swallow
    <3>2. (IF c = "(" THEN Called(x.queue) ELSE {}) = {}
      BY DEF Called
    <3>3. SwallowPrefix(x, c) = {y}
      BY <3>2, Zenon DEF SwallowPrefix
    <3> QED BY <3>1, <3>3, Zenon
  <2>4. IsSession(y)
    BY <2>2, <2>3, SwallowKeeps
  <2> HIDE DEF queue
  <2>5. y.stage = Prefix
    BY <2>2 DEF IsSession
  <2> HIDE DEF y
  <2>6. y \in f[n + 1]
    BY <2>1, <2>2, <2>3, ReachOn
  <2> QED BY <2>4, <2>5, <2>6
<1> HIDE DEF S
<1>3. S = Nat
  <2>1. S \in SUBSET Nat
    BY DEF S
  <2> QED BY <1>1, <1>2, <2>1, ByInduction
<1>4. N \in S /\ N <= N
  BY <1>3
<1> QED BY <1>4 DEF S

\* A token in which no tool is called is prose to its end.
LEMMA QuietTaken ==
    ASSUME Names, NEW s, IsSession(s), s.stage = Prefix, s.queue \in Seq(Chars),
           NEW token \in Seq(Chars), NEW f, Reaching(s, token, f, Len(token)),
           Quiet(s.queue, token, Len(token))
    PROVE  f[Len(token)] # {}
<1> DEFINE N == Len(token)
<1>1. N \in Nat /\ N <= N
  OBVIOUS
<1>2. Reaching(s, token, f, N) /\ Quiet(s.queue, token, N) /\ N <= Len(token)
  BY <1>1 DEF N
<1> HIDE DEF N
<1>3. \E r \in f[N] : IsSession(r) /\ r.stage = Prefix /\ SameEnd(r.queue, ProseTo(s.queue, token, N))
  BY <1>1, <1>2, ProseStays
<1> QED BY <1>3 DEF N

\* What is called behind the first `(` decides of the whole token.
LEMMA QuietFirst ==
    ASSUME Names, \A t \in Tools : "(" \notin Range(t.name),
           NEW token \in Seq(Chars), "(" \in Range(token), OpensOnce(schema, token), NEW q \in Seq(Chars)
    PROVE  /\ Quiet(q, token, FirstParen(token) - 1)
           /\ Called(ProseTo(q, token, FirstParen(token) - 1)) = {} => Quiet(q, token, Len(token))
<1> DEFINE p == FirstParen(token)
<1>1. p \in 1..Len(token) /\ token[p] = "(" /\ \A i \in 1..Len(token) : token[i] = "(" => p <= i
  BY FirstParenIs
<1>2. ASSUME NEW j \in 1..p - 1 PROVE token[j] # "("
  <2>1. j \in 1..Len(token) /\ ~ (p <= j)
    BY <1>1
  <2> QED BY <1>1, <2>1
<1>3. ASSUME Called(ProseTo(q, token, p - 1)) = {}, NEW j \in 1..Len(token), token[j] = "("
      PROVE  Called(ProseTo(q, token, j - 1)) = {}
  <2>1. CASE j = p
    BY <1>3, <2>1
  <2>2. CASE j # p
    <3>1. p < j
      BY <1>1, <1>3, <2>2
    <3> QED BY <1>3, <3>1, NoSecond
  <2> QED BY <2>1, <2>2
<1> HIDE DEF p
<1>4. Quiet(q, token, p - 1)
  BY <1>2, Zenon DEF Quiet
<1>5. Called(ProseTo(q, token, p - 1)) = {} => Quiet(q, token, Len(token))
  BY <1>3, Zenon DEF Quiet
<1> QED BY <1>4, <1>5 DEF p

\* In prose: what PrefixMask leaves open is taken.
LEMMA PrefixTaken ==
    ASSUME MaxSpaces \in Nat, IsCatalog(schema), NEW s, IsSession(s), s.stage = Prefix,
           Tools # {} => s.queue \in Seq(Chars),
           NEW token \in Seq(Chars), OpensOnce(schema, token), FewSpaces(token), PrefixMask(s, token)
    PROVE  Advance(s, token) # {}
<1> DEFINE N == Len(token)
<1>1. N \in Nat
  OBVIOUS
<1>2. PICK f : Reaching(s, token, f, N) /\ Advance(s, token) = f[N]
  BY AdvanceIs
<1>3. CASE Tools = {}
  <2> HIDE DEF N
  <2> QED BY <1>1, <1>2, <1>3, NoTools
<1>4. CASE Tools # {}
  <2> DEFINE q == s.queue
  <2>1. Names /\ q \in Seq(Chars) /\ \A t \in Tools : "(" \notin Range(t.name)
    BY <1>4, NamesHold, Zenon DEF IsCatalog, Tools
  <2>2. CASE Quiet(q, token, Len(token))
    BY <1>2, <2>1, <2>2, QuietTaken
  <2>3. CASE "(" \notin Range(token)
    <3>1. Quiet(q, token, Len(token))
      <4>1. \A j \in 1..Len(token) : token[j] # "("
        BY <2>3 DEF Range
      <4> QED BY <4>1 DEF Quiet
    <3> QED BY <2>2, <3>1
  <2>4. CASE "(" \in Range(token) /\ ~ Quiet(q, token, Len(token))
    <3> DEFINE p == FirstParen(token)
               n == p - 1
    <3>1. p \in 1..Len(token) /\ token[p] = "("
      BY <2>4, FirstParenIs
    <3>2. /\ n \in Nat /\ n <= N /\ n <= Len(token) /\ n + 1 = p /\ n + 1 <= N
          /\ p \in Nat
      BY <3>1
    <3>3. Quiet(q, token, n) /\ Called(ProseTo(q, token, n)) # {}
      BY <2>1, <2>4, QuietFirst
    <3>4. PrefixMask(s, token) /\ ProseTo(q, token, n) = s.queue \o SubSeq(token, 1, p - 1)
      BY DEF ProseTo
    <3>5. \A t \in Called(ProseTo(q, token, n)) : RemainderConforms(t, Suffix(token, p + 1))
      BY <2>4, <3>4, Zenon DEF PrefixMask
    <3> HIDE DEF p, n, N
    <3>6. PICK r \in f[n] : IsSession(r) /\ r.stage = Prefix /\ SameEnd(r.queue, ProseTo(q, token, n))
      BY <1>1, <1>2, <2>1, <3>2, <3>3, ProseStays
    <3>7. Called(r.queue) = Called(ProseTo(q, token, n))
      BY <2>1, <3>6, SameCalls
    <3>8. PICK t \in Called(r.queue) : TRUE
      BY <3>3, <3>7
    <3>9. RemainderConforms(t, Suffix(token, p + 1))
      BY <3>5, <3>7
    <3>10. PICK y \in Swallow(r, "(") : /\ IsSession(y) /\ y.stage = Args /\ y.state = StartAt(t.root)
                                        /\ y.fresh = TRUE /\ y.tool = t
      BY <3>6, SwallowOpens
    <3>11. Waits(y, t, 0)
      BY <3>10, WaitsFirst
    <3>12. token[n + 1] = "("
      BY <3>1, <3>2
    <3>13. y \in f[n + 1]
      BY <1>1, <1>2, <3>2, <3>12, ReachOn
    <3>14. y \in f[p]
      BY <3>2, <3>13
    <3>15. Reaching(s, token, f, Len(token))
      BY <1>2 DEF N
    <3>16. f[Len(token)] # {}
      BY <3>1, <3>9, <3>11, <3>14, <3>15, CallTaken
    <3> QED BY <1>2, <3>16 DEF N
  <2> QED BY <2>2, <2>3, <2>4
<1> QED BY <1>3, <1>4

-----------------------------------------------------------------------------
(* What holds of a session *)

Kept(s) ==
    /\ IsSession(s)
    /\ Tools # {} => s.queue \in Seq(Chars)
    /\ s.stage = Args => Good(s.state, s.state.run)

\* A token that is as long as the masks and the session count on.
Fits(token) == token \in Seq(STRING) /\ Len(token) <= Slack /\ OpensOnce(schema, token) /\ FewSpaces(token)

\* The mask and the session agree, in prose, in a call, and behind it.
LEMMA OpenTaken ==
    ASSUME MaxSpaces \in Nat, TextCeiling \in Nat, Slack \in Nat, IsCatalog(schema),
           NEW s, Kept(s), NEW token, Fits(token), Open(s, token)
    PROVE  Advance(s, token) # {}
<1>1. token \in Seq(Chars) /\ token \in Seq(STRING) /\ Len(token) \in Nat
  BY DEF Fits, Chars
<1>2. CASE s.stage = Prefix
  <2>1. PrefixMask(s, token)
    BY <1>2, Reasons DEF Open
  <2> QED BY <1>1, <1>2, <2>1, PrefixTaken DEF Kept, Fits
<1>3. CASE s.stage = Args
  <2>1. IsSchema(schema) /\ SpelledTight(schema)
    BY DEF IsCatalog
  <2> QED BY <1>1, <1>3, <2>1, ArgsTaken DEF Kept, Fits
<1>4. CASE s.stage = Ended
  <2> DEFINE N == Len(token)
  <2>1. PICK f : Reaching(s, token, f, N) /\ Advance(s, token) = f[N]
    BY <1>1, AdvanceIs
  <2> HIDE DEF N
  <2>2. N \in Nat /\ 0 \in 0..N
    BY <1>1 DEF N
  <2>3. f[0] = {s}
    BY <2>1, <2>2, ReachFirst, Zenon
  <2>4. \E x \in f[0] : x.stage = Ended
    BY <1>4, <2>3
  <2>5. f[N] # {}
    BY <2>1, <2>2, <2>4, EndedTakes
  <2> QED BY <2>1, <2>5
<1> QED BY <1>2, <1>3, <1>4 DEF Kept, IsSession

LEMMA StartGood ==
    ASSUME IsCatalog(schema), NEW t \in Tools
    PROVE  Good(StartAt(t.root), StartAt(t.root).run)
<1> DEFINE f == ValueFrame(t.root)
           s == StartAt(t.root)
<1>1. s = [stack |-> << f >>, run |-> 0]
  BY DEF StartAt
<1>2. f \in Frames /\ Unread(f, 0)
  <2>1. t.root \in DOMAIN schema.nodes
    BY DEF IsCatalog, Tools
  <2>2. f \in ValueFrames /\ f.kind = "value"
    BY <2>1 DEF ValueFrame, ValueFrames
  <2> HIDE DEF f
  <2> QED BY <2>2 DEF Frames, Unread
<1> HIDE DEF f, s
<1>3. s \in [stack : Seq(Frames), run : Nat] /\ s.run = 0 /\ s.stack = << f >>
  BY <1>1, <1>2
<1>4. Top(s) = f
  BY <1>3 DEF Top, Last
<1>5. Below(s.stack)
  BY <1>3 DEF Below
<1>6. Good(s, s.run)
  BY <1>2, <1>3, <1>4, <1>5 DEF Good
<1> QED BY <1>6 DEF s

LEMMA TrimmedIs ==
    ASSUME Names, NEW q \in Seq(Chars), NEW c \in Chars
    PROVE  Trimmed(Append(q, c)) \in Seq(Chars)
<1>1. SameEnd(q, q)
  BY DEF SameEnd
<1>2. SameEnd(Trimmed(Append(q, c)), Append(q, c))
  BY <1>1, TrimmedEnd
<1> QED BY <1>2, Zenon DEF SameEnd

LEMMA SwallowStays ==
    ASSUME MaxSpaces \in Nat, IsCatalog(schema), NEW s, Kept(s), NEW c \in Chars, NEW r \in Swallow(s, c)
    PROVE  Kept(r)
<1>1. IsSession(s) /\ IsSession(r)
  BY SwallowKeeps DEF Kept
<1>2. CASE s.stage = Prefix
  <2>1. r \in SwallowPrefix(s, c)
    BY <1>2, Reasons DEF Swallow
  <2> DEFINE queue == Trimmed(Append(s.queue, c))
  <2>2. \/ r = [s EXCEPT !.queue = queue]
        \/ \E t \in Called(s.queue) : r = [s EXCEPT !.stage = Args, !.state = StartAt(t.root), !.fresh = TRUE, !.tool = t]
    BY <2>1 DEF SwallowPrefix
  <2>3. CASE r = [s EXCEPT !.queue = queue]
    <3>1. Tools # {} => queue \in Seq(Chars)
      BY NamesHold, TrimmedIs DEF Kept
    <3> HIDE DEF queue
    <3>2. r.queue = queue /\ r.stage = s.stage
      BY <1>1, <2>3 DEF IsSession
    <3> QED BY <1>1, <1>2, <3>1, <3>2, Reasons, Zenon DEF Kept
  <2>4. ASSUME NEW t \in Called(s.queue),
               r = [s EXCEPT !.stage = Args, !.state = StartAt(t.root), !.fresh = TRUE, !.tool = t]
        PROVE  Kept(r)
    <3> DEFINE start == StartAt(t.root)
    <3>1. t \in Tools
      BY DEF Called
    <3>2. Good(start, start.run)
      BY <3>1, StartGood
    <3> HIDE DEF start
    <3>3. r = [s EXCEPT !.stage = Args, !.state = start, !.fresh = TRUE, !.tool = t]
      BY <2>4 DEF start
    <3>4. r.queue = s.queue /\ r.state = start
      BY <1>1, <3>3 DEF IsSession
    <3> QED BY <1>1, <3>2, <3>4, Zenon DEF Kept
  <2> QED BY <2>2, <2>3, <2>4
<1>3. CASE s.stage = Args
  <2>1. r \in SwallowArgs(s, c)
    BY <1>3, Reasons DEF Swallow
  <2> DEFINE args == IF c = " " /\ ~InContent(s.state) THEN s.args ELSE Append(s.args, c)
             fresh == s.fresh /\ c = " "
  <2>2. \/ r = [s EXCEPT !.stage = Ended]
        \/ \E next \in FeedChar(s.state, c) : r = [s EXCEPT !.state = next, !.fresh = fresh, !.args = args]
    BY <2>1 DEF SwallowArgs
  <2> HIDE DEF args, fresh
  <2>3. CASE r = [s EXCEPT !.stage = Ended]
    <3>1. r.queue = s.queue /\ r.stage = Ended
      BY <1>1, <2>3 DEF IsSession
    <3> QED BY <1>1, <3>1, Reasons, Zenon DEF Kept
  <2>4. ASSUME NEW next \in FeedChar(s.state, c), r = [s EXCEPT !.state = next, !.fresh = fresh, !.args = args]
        PROVE  Kept(r)
    <3>1. r.queue = s.queue /\ r.state = next
      BY <1>1, <2>4 DEF IsSession
    <3>2. Good(s.state, s.state.run) /\ IsSchema(schema)
      BY <1>3 DEF Kept, IsCatalog
    <3>3. Good(next, next.run)
      BY <3>2, CharKeeps
    <3> QED BY <1>1, <3>1, <3>3, Zenon DEF Kept
  <2> QED BY <2>2, <2>3, <2>4
<1>4. CASE s.stage = Ended
  <2>1. r = s
    BY <1>4, Reasons DEF Swallow
  <2> QED BY <2>1
<1> QED BY <1>1, <1>2, <1>3, <1>4 DEF IsSession

LEMMA AdvanceStays ==
    ASSUME MaxSpaces \in Nat, IsCatalog(schema), NEW s, Kept(s),
           NEW token \in Seq(Chars), NEW r \in Advance(s, token)
    PROVE  Kept(r)
<1> DEFINE N == Len(token)
<1>1. N \in Nat
  OBVIOUS
<1>2. PICK f : Reaching(s, token, f, N) /\ Advance(s, token) = f[N]
  BY AdvanceIs
<1>3. \A n \in 1..N : token[n] \in Chars
  OBVIOUS
<1> HIDE DEF N
<1> DEFINE S == {n \in Nat : n <= N => \A q \in f[n] : Kept(q)}
<1>4. 0 \in S
  <2>1. f[0] = {s}
    BY <1>1, <1>2, ReachFirst, Zenon
  <2> QED BY <2>1
<1>5. ASSUME NEW n \in S PROVE n + 1 \in S
  <2> SUFFICES ASSUME n + 1 <= N, NEW q \in f[n + 1] PROVE Kept(q)
    OBVIOUS
  <2>1. n \in Nat /\ n + 1 \in 1..N /\ n <= N
    BY <1>1
  <2>2. PICK p \in f[n] : q \in Swallow(p, token[n + 1])
    BY <1>1, <1>2, <2>1, ReachBack
  <2>3. Kept(p) /\ token[n + 1] \in Chars
    BY <1>3, <2>1, <2>2
  <2> QED BY <2>2, <2>3, SwallowStays
<1> HIDE DEF S
<1>6. S = Nat
  <2>1. S \in SUBSET Nat
    BY DEF S
  <2> QED BY <1>4, <1>5, <2>1, ByInduction
<1>7. N \in S /\ N <= N
  BY <1>1, <1>6
<1> QED BY <1>2, <1>7 DEF S

-----------------------------------------------------------------------------
(* No token is rejected that was open *)

OpenInv ==
    /\ schema \in Setups
    /\ Kept(session)
    /\ NeverRejected

LEMMA OpenInit ==
    ASSUME \A c \in Setups : IsCatalog(c), Init
    PROVE  OpenInv
<1>1. session = Opened /\ schema \in Setups /\ stop = Running
  BY DEF Init
<1>2. IsSession(session) /\ session.stage = Prefix /\ session.queue = <<>>
  BY <1>1 DEF IsSession, Opened
<1>3. session.queue \in Seq(Chars)
  BY <1>2
<1> QED BY <1>1, <1>2, <1>3, Reasons, Zenon DEF OpenInv, Kept, NeverRejected

LEMMA KeptStays ==
    ASSUME schema' = schema
    PROVE  \A s : Kept(s)' = Kept(s)
<1>1. /\ \A n : Node(n)' = Node(n)
      /\ \A kind : Nodes(kind)' = Nodes(kind)
  BY DEF Node, Nodes
<1>2. \A f : Fields(f)' = Fields(f)
  BY <1>1 DEF Fields
<1>3. /\ ValueFrames' = ValueFrames /\ ArrayFrames' = ArrayFrames /\ TextFrames' = TextFrames
      /\ LiteralFrames' = LiteralFrames /\ NumberFrames' = NumberFrames
  BY <1>1 DEF ValueFrames, ArrayFrames, TextFrames, LiteralFrames, NumberFrames
<1>4. ObjectFrames' = ObjectFrames
  BY <1>1, <1>2 DEF ObjectFrames
<1>5. ChoiceFrames' = ChoiceFrames
  BY <1>1 DEF ChoiceFrames
<1>6. Frames' = Frames
  BY <1>3, <1>4, <1>5 DEF Frames
<1>7. \A f, run : Unread(f, run)' = Unread(f, run)
  BY <1>2 DEF Unread
<1>8. \A s, run : Good(s, run)' = Good(s, run)
  BY <1>6, <1>7 DEF Good
<1>9. Tools' = Tools
  BY DEF Tools
<1> QED BY <1>8, <1>9 DEF Kept

LEMMA OpenNext ==
    ASSUME MaxSpaces \in Nat, TextCeiling \in Nat, Slack \in Nat,
           \A c \in Setups : IsCatalog(c) /\ TokensFit(c),
           OpenInv, [Next]_vars
    PROVE  OpenInv'
<1>1. schema' = schema
  <2>1. CASE Step
    <3>1. ASSUME NEW t, NEW next, Taken(t, next) PROVE schema' = schema
      BY <3>1 DEF Taken
    <3>2. \/ \E reason : Ends(reason)
          \/ \E t, next : Taken(t, next)
      BY <2>1, Zenon DEF Step
    <3> QED BY <3>1, <3>2 DEF Ends
  <2>2. CASE Cancel \/ Cut \/ UNCHANGED vars
    BY <2>2 DEF Cancel, Cut, Ends, vars
  <2> QED BY <2>1, <2>2 DEF Next
<1>2. schema \in Setups /\ IsCatalog(schema) /\ TokensFit(schema) /\ Kept(session) /\ stop # "Rejected"
  BY DEF OpenInv, NeverRejected
<1>3. ASSUME NEW t \in schema.vocab PROVE Fits(t)
  <2>1. t \in Seq(STRING)
    BY <1>2 DEF IsCatalog
  <2>2. Len(t) <= Slack /\ OpensOnce(schema, t) /\ FewSpaces(t)
    BY <1>2, Zenon DEF TokensFit, FewSpaces
  <2> QED BY <2>1, <2>2, Zenon DEF Fits
<1>4. ASSUME Kept(session'), stop' # "Rejected" PROVE OpenInv'
  <2>1. Kept(session)'
    <3>1. \A s : Kept(s)' = Kept(s)
      BY <1>1, KeptStays
    <3> QED BY <1>4, <3>1
  <2> QED BY <1>1, <1>2, <1>4, <2>1 DEF OpenInv, NeverRejected
<1>5. CASE UNCHANGED vars
  BY <1>2, <1>4, <1>5 DEF vars
<1>6. CASE Cancel
  BY <1>2, <1>4, <1>6 DEF Cancel
<1>7. ASSUME NEW reason, Ends(reason), reason # "Rejected" PROVE OpenInv'
  BY <1>2, <1>4, <1>7 DEF Ends
<1>8. CASE Cut
  <2>1. Ends("Length") \/ Ends("Cancelled")
    BY <1>8 DEF Cut
  <2>2. "Length" # "Rejected" /\ "Cancelled" # "Rejected"
    OBVIOUS
  <2> QED BY <1>7, <2>1, <2>2
<1>9. CASE Step
  <2>1. \/ Ends("Forbidden")
        \/ \E t \in schema.vocab : Sampleable(t) /\
              \/ Ends("Token")
              \/ Advance(session, t) = {}
              \/ \E next \in Advance(session, t) : Taken(t, next)
    BY <1>9, Zenon DEF Step
  <2>2. CASE Ends("Forbidden")
    <3>1. "Forbidden" # "Rejected"
      OBVIOUS
    <3> QED BY <1>7, <2>2, <3>1
  <2>3. CASE Ends("Token")
    <3>1. "Token" # "Rejected"
      OBVIOUS
    <3> QED BY <1>7, <2>3, <3>1
  <2>4. ASSUME NEW t \in schema.vocab, Sampleable(t), Advance(session, t) = {} PROVE FALSE
    <3>1. Open(session, t)
      BY <2>4 DEF Sampleable
    <3>2. Fits(t)
      BY <1>3
    <3> QED BY <1>2, <2>4, <3>1, <3>2, OpenTaken
  <2>5. ASSUME NEW t \in schema.vocab, NEW next \in Advance(session, t), Taken(t, next) PROVE OpenInv'
    <3>1. t \in Seq(Chars)
      BY <1>3 DEF Fits, Chars
    <3>2. Kept(next)
      BY <1>2, <3>1, AdvanceStays
    <3>3. session' = next
      BY <2>5 DEF Taken
    <3>4. stop' # "Rejected"
      <4>1. stop' \in {"CallTooLong", "Loop", "ConstraintDone", Running}
        BY <2>5, Zenon DEF Taken, Dropped, CutLoop, Shown
      <4> QED BY <4>1, Reasons
    <3> QED BY <1>4, <3>2, <3>3, <3>4
  <2> QED BY <2>1, <2>2, <2>3, <2>4, <2>5
<1> QED BY <1>5, <1>6, <1>8, <1>9 DEF Next

\* What the mask leaves open the session takes, wherever in a token a call
\* starts or ends: no turn fails over a token it had allowed (run_loop's mask,
\* CallSession::mask and ::advance), whatever the tools, their schemas and the
\* vocabulary, as long as no token is longer than NEUTRAL_SLACK counts on.
THEOREM NeverRejectedHolds ==
    ASSUME MaxSpaces \in Nat, TextCeiling \in Nat, Slack \in Nat,
           \A c \in Setups : IsCatalog(c) /\ TokensFit(c)
    PROVE  Spec => []NeverRejected
<1>1. Init => OpenInv
  BY OpenInit
<1>2. OpenInv /\ [Next]_vars => OpenInv'
  BY OpenNext
<1>3. OpenInv => NeverRejected
  BY DEF OpenInv
<1> QED BY <1>1, <1>2, <1>3, PTL DEF Spec

-----------------------------------------------------------------------------
(* The lexer of the repetition guard *)

\* A lexer's value, with one mark for each object and array it is in.
IsWatch(w) ==
    /\ w = [tokens |-> w.tokens, inValue |-> w.inValue, inString |-> w.inString, inKey |-> w.inKey,
            escaped |-> w.escaped, containers |-> w.containers, keyNext |-> w.keyNext]
    /\ w.containers \in Seq({"{", "["})

On == TRUE
Off == FALSE

\* Between the strings; `key` says whether the next one is a key.
Outside(w, key) == w.inString = Off /\ w.inKey = Off /\ w.escaped = Off /\ w.keyNext = key

\* In a string.
Inside(w, key, escaped) == w.inString = On /\ w.inKey = key /\ w.escaped = escaped /\ w.keyNext = Off

SameTokens(v, w) == v.tokens = w.tokens /\ v.inValue = w.inValue

Structural == {Quote, "{", "[", "}", "]", ",", ":"}

LEMMA ReadPlain ==
    ASSUME NEW w, NEW key, Outside(w, key), NEW c, c \notin Structural
    PROVE  ReadChar(w, c) = w
<1>1. ReadChar(w, c) = ReadStructure(w, c)
  BY DEF Outside, Off, ReadChar
<1>2. ReadStructure(w, c) = w
  BY DEF ReadStructure, Structural, Quote
<1> QED BY <1>1, <1>2

\* The cases of read_structure.
LEMMA StructureIs ==
    ASSUME NEW w, NEW c
    PROVE  /\ c = Quote => ReadStructure(w, c) =
                [w EXCEPT !.inString = TRUE, !.inKey = w.keyNext /\ InObject(w), !.keyNext = FALSE]
           /\ c \in {"{", "["} => ReadStructure(w, c) =
                [w EXCEPT !.containers = Append(w.containers, c), !.keyNext = (c = "{")]
           /\ c \in {"}", "]"} => ReadStructure(w, c) =
                [w EXCEPT !.containers = (IF w.containers = <<>> THEN w.containers ELSE Front(w.containers)),
                          !.keyNext = FALSE]
           /\ c = "," => ReadStructure(w, c) = [w EXCEPT !.keyNext = InObject(w)]
           /\ c = ":" => ReadStructure(w, c) = [w EXCEPT !.keyNext = FALSE]
<1> DEFINE q == [w EXCEPT !.inString = TRUE, !.inKey = w.keyNext /\ InObject(w), !.keyNext = FALSE]
           o == [w EXCEPT !.containers = Append(w.containers, c), !.keyNext = (c = "{")]
           d == [w EXCEPT !.containers = (IF w.containers = <<>> THEN w.containers ELSE Front(w.containers)),
                          !.keyNext = FALSE]
           m == [w EXCEPT !.keyNext = InObject(w)]
           n == [w EXCEPT !.keyNext = FALSE]
<1>1. ReadStructure(w, c) =
        CASE c = Quote -> q
          [] c \in {"{", "["} -> o
          [] c \in {"}", "]"} -> d
          [] c = "," -> m
          [] c = ":" -> n
          [] OTHER -> w
  BY Zenon DEF ReadStructure, Quote
<1> HIDE DEF q, o, d, m, n
<1>2. /\ c = Quote => ReadStructure(w, c) = q
      /\ c \in {"{", "["} => ReadStructure(w, c) = o
      /\ c \in {"}", "]"} => ReadStructure(w, c) = d
      /\ c = "," => ReadStructure(w, c) = m
      /\ c = ":" => ReadStructure(w, c) = n
  BY <1>1 DEF Quote
<1> QED BY <1>2 DEF q, o, d, m, n

\* A value with the same tokens.
Made(w, inString, inKey, escaped, containers, keyNext) ==
    [tokens |-> w.tokens, inValue |-> w.inValue, inString |-> inString, inKey |-> inKey,
     escaped |-> escaped, containers |-> containers, keyNext |-> keyNext]

\* What a character makes of a lexer's value: the marks, and where it is.
Leaves(v, w, containers) == IsWatch(v) /\ v.containers = containers /\ SameTokens(v, w)

LEMMA MadeOutside ==
    ASSUME NEW w, NEW containers \in Seq({"{", "["}), NEW key, NEW v, v = Made(w, Off, Off, Off, containers, key)
    PROVE  Leaves(v, w, containers) /\ Outside(v, key)
BY DEF Made, IsWatch, SameTokens, Outside, Leaves

LEMMA MadeInside ==
    ASSUME NEW w, NEW containers \in Seq({"{", "["}), NEW key, NEW escaped,
           NEW v, v = Made(w, On, key, escaped, containers, Off)
    PROVE  Leaves(v, w, containers) /\ Inside(v, key, escaped)
BY DEF Made, IsWatch, SameTokens, Inside, Leaves

\* Outside a string the structure is read.
LEMMA ReadsStructure ==
    ASSUME NEW w, NEW key, Outside(w, key), NEW c
    PROVE  ReadChar(w, c) = ReadStructure(w, c)
BY DEF Outside, Off, ReadChar

LEMMA ReadOpening ==
    ASSUME NEW w, IsWatch(w), NEW key, Outside(w, key), NEW c \in {"{", "["}, NEW next, (c = "{") = next
    PROVE  LET v == ReadChar(w, c) IN Leaves(v, w, Append(w.containers, c)) /\ Outside(v, next)
<1> DEFINE cs == Append(w.containers, c)
           v == ReadChar(w, c)
           is == (c = "{")
<1>1. v = [w EXCEPT !.containers = cs, !.keyNext = is]
  <2>1. v = ReadStructure(w, c)
    BY ReadsStructure
  <2>2. ReadStructure(w, c) = [w EXCEPT !.containers = cs, !.keyNext = is]
    BY StructureIs
  <2> HIDE DEF v, cs, is
  <2> QED BY <2>1, <2>2, Zenon
<1>2. cs \in Seq({"{", "["})
  <2>1. w.containers \in Seq({"{", "["})
    BY DEF IsWatch
  <2> HIDE DEF v, is
  <2> QED BY <2>1, AppendProperties
<1>3. is = next
  OBVIOUS
<1> HIDE DEF v, cs, is
<1>4. v = Made(w, Off, Off, Off, cs, next)
  <2>1. v = Made(w, w.inString, w.inKey, w.escaped, cs, next)
    BY <1>1, <1>3 DEF IsWatch, Made
  <2>2. w.inString = Off /\ w.inKey = Off /\ w.escaped = Off
    BY DEF Outside
  <2> QED BY <2>1, <2>2
<1> QED BY <1>2, <1>4, MadeOutside DEF v, cs

LEMMA ReadBrace ==
    ASSUME NEW w, IsWatch(w), NEW key, Outside(w, key)
    PROVE  LET v == ReadChar(w, "{") IN Leaves(v, w, Append(w.containers, "{")) /\ Outside(v, On)
<1>1. ("{" = "{") = On
  BY DEF On
<1> QED BY <1>1, ReadOpening

LEMMA ReadBracket ==
    ASSUME NEW w, IsWatch(w), NEW key, Outside(w, key)
    PROVE  LET v == ReadChar(w, "[") IN Leaves(v, w, Append(w.containers, "[")) /\ Outside(v, Off)
<1>1. ("[" = "{") = Off
  BY DEF Off
<1> QED BY <1>1, ReadOpening

LEMMA ReadClosing ==
    ASSUME NEW w, IsWatch(w), NEW key, Outside(w, key), w.containers # <<>>, NEW c \in {"}", "]"}
    PROVE  LET v == ReadChar(w, c) IN Leaves(v, w, Front(w.containers)) /\ Outside(v, Off)
<1> DEFINE cs == Front(w.containers)
           v == ReadChar(w, c)
           left == IF w.containers = <<>> THEN w.containers ELSE Front(w.containers)
<1>1. v = [w EXCEPT !.containers = left, !.keyNext = FALSE]
  <2>1. v = ReadStructure(w, c)
    BY ReadsStructure
  <2>2. ReadStructure(w, c) = [w EXCEPT !.containers = left, !.keyNext = FALSE]
    BY StructureIs
  <2> HIDE DEF v, left
  <2> QED BY <2>1, <2>2, Zenon
<1>2. cs \in Seq({"{", "["})
  BY StackIs DEF IsWatch
<1>3. left = cs
  OBVIOUS
<1> HIDE DEF v, cs, left
<1>4. v = Made(w, Off, Off, Off, cs, Off)
  <2>1. v = Made(w, w.inString, w.inKey, w.escaped, cs, Off)
    BY <1>1, <1>3 DEF IsWatch, Made, Off
  <2>2. w.inString = Off /\ w.inKey = Off /\ w.escaped = Off
    BY DEF Outside
  <2> QED BY <2>1, <2>2
<1> QED BY <1>2, <1>4, MadeOutside DEF v, cs

LEMMA ReadComma ==
    ASSUME NEW w, IsWatch(w), NEW key, Outside(w, key), NEW next, InObject(w) = next
    PROVE  LET v == ReadChar(w, ",") IN Leaves(v, w, w.containers) /\ Outside(v, next)
<1> DEFINE v == ReadChar(w, ",")
           is == InObject(w)
<1>1. v = [w EXCEPT !.keyNext = is]
  <2>1. v = ReadStructure(w, ",")
    BY ReadsStructure
  <2>2. ReadStructure(w, ",") = [w EXCEPT !.keyNext = is]
    BY StructureIs
  <2> HIDE DEF v, is
  <2> QED BY <2>1, <2>2, Zenon
<1>2. w.containers \in Seq({"{", "["})
  BY DEF IsWatch
<1>3. is = next
  OBVIOUS
<1> HIDE DEF v, is
<1>4. v = Made(w, Off, Off, Off, w.containers, next)
  <2>1. v = Made(w, w.inString, w.inKey, w.escaped, w.containers, next)
    BY <1>1, <1>3 DEF IsWatch, Made
  <2>2. w.inString = Off /\ w.inKey = Off /\ w.escaped = Off
    BY DEF Outside
  <2> QED BY <2>1, <2>2
<1> QED BY <1>2, <1>4, MadeOutside DEF v

LEMMA ReadColon ==
    ASSUME NEW w, IsWatch(w), NEW key, Outside(w, key)
    PROVE  LET v == ReadChar(w, ":") IN Leaves(v, w, w.containers) /\ Outside(v, Off)
<1> DEFINE v == ReadChar(w, ":")
<1>1. v = [w EXCEPT !.keyNext = FALSE]
  <2>1. v = ReadStructure(w, ":")
    BY ReadsStructure
  <2>2. ReadStructure(w, ":") = [w EXCEPT !.keyNext = FALSE]
    BY StructureIs
  <2> HIDE DEF v
  <2> QED BY <2>1, <2>2, Zenon
<1>2. w.containers \in Seq({"{", "["})
  BY DEF IsWatch
<1> HIDE DEF v
<1>4. v = Made(w, Off, Off, Off, w.containers, Off)
  <2>1. v = Made(w, w.inString, w.inKey, w.escaped, w.containers, Off)
    BY <1>1 DEF IsWatch, Made, Off
  <2>2. w.inString = Off /\ w.inKey = Off /\ w.escaped = Off
    BY DEF Outside
  <2> QED BY <2>1, <2>2
<1> QED BY <1>2, <1>4, MadeOutside DEF v

\* A quote opens a key where one comes next, in an object.
LEMMA ReadQuote ==
    ASSUME NEW w, IsWatch(w), NEW key, Outside(w, key), NEW inKey, (w.keyNext /\ InObject(w)) = inKey
    PROVE  LET v == ReadChar(w, Quote) IN Leaves(v, w, w.containers) /\ Inside(v, inKey, Off)
<1> DEFINE v == ReadChar(w, Quote)
           is == (w.keyNext /\ InObject(w))
<1>1. v = [w EXCEPT !.inString = TRUE, !.inKey = is, !.keyNext = FALSE]
  <2>1. v = ReadStructure(w, Quote)
    BY ReadsStructure
  <2>2. ReadStructure(w, Quote) = [w EXCEPT !.inString = TRUE, !.inKey = is, !.keyNext = FALSE]
    BY StructureIs
  <2> HIDE DEF v, is
  <2> QED BY <2>1, <2>2, Zenon
<1>2. w.containers \in Seq({"{", "["})
  BY DEF IsWatch
<1>3. is = inKey
  OBVIOUS
<1> HIDE DEF v, is
<1>4. v = Made(w, On, inKey, Off, w.containers, Off)
  <2>1. v = Made(w, On, inKey, w.escaped, w.containers, Off)
    BY <1>1, <1>3 DEF IsWatch, Made, On, Off
  <2>2. w.escaped = Off
    BY DEF Outside
  <2> QED BY <2>1, <2>2
<1> QED BY <1>2, <1>4, MadeInside DEF v

\* In a string only the character behind a backslash is not read.
LEMMA ReadsString ==
    ASSUME NEW w, NEW key, NEW escaped, Inside(w, key, escaped), NEW c
    PROVE  ReadChar(w, c) = ReadInString(w, c)
BY DEF Inside, On, ReadChar

LEMMA ReadEscaped ==
    ASSUME NEW w, IsWatch(w), NEW key, Inside(w, key, On), NEW c
    PROVE  LET v == ReadChar(w, c) IN Leaves(v, w, w.containers) /\ Inside(v, key, Off)
<1> DEFINE v == ReadChar(w, c)
           u == [w EXCEPT !.escaped = FALSE]
<1>1. v = u
  <2>1. v = ReadInString(w, c)
    BY ReadsString
  <2>2. w.escaped
    BY DEF Inside, On
  <2>3. ReadInString(w, c) = u
    <3> DEFINE a == [w EXCEPT !.escaped = TRUE]
               b == [w EXCEPT !.inString = FALSE, !.inKey = FALSE]
    <3>1. ReadInString(w, c) =
            CASE w.escaped -> u [] ~w.escaped /\ c = "\\" -> a [] ~w.escaped /\ c = "\"" -> b [] OTHER -> w
      BY Zenon DEF ReadInString
    <3> HIDE DEF u, a, b
    <3> QED BY <2>2, <3>1
  <2> QED BY <2>1, <2>3
<1>2. w.containers \in Seq({"{", "["})
  BY DEF IsWatch
<1> HIDE DEF v
<1>4. v = Made(w, On, key, Off, w.containers, Off)
  <2>1. v = Made(w, w.inString, w.inKey, Off, w.containers, w.keyNext)
    BY <1>1 DEF IsWatch, Made, Off
  <2>2. w.inString = On /\ w.inKey = key /\ w.keyNext = Off
    BY DEF Inside
  <2> QED BY <2>1, <2>2
<1> QED BY <1>2, <1>4, MadeInside DEF v

\* The cases of a string with no backslash before the character.
LEMMA InStringIs ==
    ASSUME NEW w, NEW key, Inside(w, key, Off), NEW c
    PROVE  /\ c = "\\" => ReadChar(w, c) = [w EXCEPT !.escaped = TRUE]
           /\ c = Quote => ReadChar(w, c) = [w EXCEPT !.inString = FALSE, !.inKey = FALSE]
           /\ c \notin {"\\", Quote} => ReadChar(w, c) = w
<1> DEFINE u == [w EXCEPT !.escaped = FALSE]
           a == [w EXCEPT !.escaped = TRUE]
           b == [w EXCEPT !.inString = FALSE, !.inKey = FALSE]
<1>1. ReadInString(w, c) =
        CASE w.escaped -> u [] ~w.escaped /\ c = "\\" -> a [] ~w.escaped /\ c = "\"" -> b [] OTHER -> w
  BY Zenon DEF ReadInString
<1>2. ReadChar(w, c) = ReadInString(w, c)
  BY ReadsString
<1>3. ~ w.escaped
  BY DEF Inside, Off
<1> HIDE DEF u, a, b
<1>4. /\ c = "\\" => ReadInString(w, c) = a
      /\ c = Quote => ReadInString(w, c) = b
      /\ c \notin {"\\", Quote} => ReadInString(w, c) = w
  BY <1>1, <1>3 DEF Quote
<1> QED BY <1>2, <1>4, Zenon DEF a, b

LEMMA ReadBackslash ==
    ASSUME NEW w, IsWatch(w), NEW key, Inside(w, key, Off)
    PROVE  LET v == ReadChar(w, "\\") IN Leaves(v, w, w.containers) /\ Inside(v, key, On)
<1> DEFINE v == ReadChar(w, "\\")
<1>1. v = [w EXCEPT !.escaped = TRUE]
  BY InStringIs
<1>2. w.containers \in Seq({"{", "["})
  BY DEF IsWatch
<1> HIDE DEF v
<1>4. v = Made(w, On, key, On, w.containers, Off)
  <2>1. v = Made(w, w.inString, w.inKey, On, w.containers, w.keyNext)
    BY <1>1 DEF IsWatch, Made, On
  <2>2. w.inString = On /\ w.inKey = key /\ w.keyNext = Off
    BY DEF Inside
  <2> QED BY <2>1, <2>2
<1> QED BY <1>2, <1>4, MadeInside DEF v

LEMMA ReadUnquote ==
    ASSUME NEW w, IsWatch(w), NEW key, Inside(w, key, Off)
    PROVE  LET v == ReadChar(w, Quote) IN Leaves(v, w, w.containers) /\ Outside(v, Off)
<1> DEFINE v == ReadChar(w, Quote)
<1>1. v = [w EXCEPT !.inString = FALSE, !.inKey = FALSE]
  BY InStringIs
<1>2. w.containers \in Seq({"{", "["})
  BY DEF IsWatch
<1> HIDE DEF v
<1>4. v = Made(w, Off, Off, Off, w.containers, Off)
  <2>1. v = Made(w, Off, Off, w.escaped, w.containers, w.keyNext)
    BY <1>1 DEF IsWatch, Made, Off
  <2>2. w.escaped = Off /\ w.keyNext = Off
    BY DEF Inside
  <2> QED BY <2>1, <2>2
<1> QED BY <1>2, <1>4, MadeOutside DEF v

LEMMA Unchanged ==
    ASSUME NEW w, IsWatch(w)
    PROVE  Leaves(w, w, w.containers)
BY DEF Leaves, SameTokens

LEMMA ReadOther ==
    ASSUME NEW w, IsWatch(w), NEW key, Inside(w, key, Off), NEW c, c \notin {"\\", Quote}
    PROVE  LET v == ReadChar(w, c) IN Leaves(v, w, w.containers) /\ Inside(v, key, Off)
BY InStringIs, Unchanged

LEMMA ReadSpace ==
    ASSUME NEW w, IsWatch(w), NEW key, Outside(w, key), NEW c, c \notin Structural
    PROVE  LET v == ReadChar(w, c) IN Leaves(v, w, w.containers) /\ Outside(v, key)
BY ReadPlain, Unchanged

\* Where a spelling's escapes are, the lexer is behind a backslash.
LEMMA ReadSpelling ==
    ASSUME NEW word \in Seq(STRING), IsEscaped(word), NEW p \in Nat, p < Len(word),
           NEW w, IsWatch(w), NEW key, Inside(w, key, Escaping(word)[p])
    PROVE  LET v == ReadChar(w, word[p + 1]) IN
           Leaves(v, w, w.containers) /\ Inside(v, key, Escaping(word)[p + 1])
<1> DEFINE N == Len(word)
           c == word[p + 1]
           e == Escaping(word)
<1>1. N \in Nat /\ p + 1 \in 1..N /\ (p + 1) - 1 = p
  OBVIOUS
<1>2. EscapingIn(word, e, N)
  <2>1. PICK f : EscapingIn(word, f, N)
    BY <1>1, EscapingThere
  <2> QED BY <2>1 DEF Escaping, EscapingIn
<1>3. e[p + 1] = (~e[p] /\ c = "\\")
  <2> HIDE DEF e, N
  <2>1. \A n \in 1..N : e[n] = (~e[n - 1] /\ word[n] = "\\")
    BY <1>1, <1>2, EscapingStep
  <2> QED BY <1>1, <2>1
<1>4. c = Quote => e[p]
  <2>1. p + 1 \in DOMAIN word
    BY <1>1
  <2> HIDE DEF e
  <2> QED BY <1>1, <2>1 DEF IsEscaped, e
<1>5. e[p] = On \/ e[p] = Off
  <2>1. e[0] = FALSE /\ \A n \in 1..N : e[n] = (~e[n - 1] /\ word[n] = "\\")
    BY <1>1, <1>2, EscapingStep
  <2>2. p = 0 \/ p \in 1..N
    BY <1>1
  <2> HIDE DEF e, N
  <2>3. CASE p = 0
    BY <2>1, <2>3 DEF Off
  <2>4. CASE p \in 1..N
    BY <2>1, <2>4 DEF On, Off
  <2> QED BY <2>2, <2>3, <2>4
<1> HIDE DEF e, N
<1>6. CASE e[p] = On
  <2>1. e[p + 1] = Off
    BY <1>3, <1>6 DEF On, Off
  <2>2. Inside(w, key, On)
    BY <1>6, Zenon DEF e
  <2> QED BY <2>1, <2>2, ReadEscaped DEF e
<1>7. CASE e[p] = Off
  <2>1. Inside(w, key, Off)
    BY <1>7, Zenon DEF e
  <2>2. c # Quote
    BY <1>4, <1>7 DEF Off
  <2>3. CASE c = "\\"
    <3>1. e[p + 1] = On
      BY <1>3, <1>7, <2>3 DEF On, Off
    <3>2. LET v == ReadChar(w, c) IN Leaves(v, w, w.containers) /\ Inside(v, key, On)
      BY <2>1, <2>3, ReadBackslash, Zenon
    <3> QED BY <3>1, <3>2, Zenon DEF e
  <2>4. CASE c # "\\"
    <3>1. e[p + 1] = Off
      BY <1>3, <1>7, <2>4 DEF On, Off
    <3>2. LET v == ReadChar(w, c) IN Leaves(v, w, w.containers) /\ Inside(v, key, Off)
      BY <2>1, <2>2, <2>4, ReadOther
    <3> QED BY <3>1, <3>2, Zenon DEF e
  <2> QED BY <2>3, <2>4
<1> QED BY <1>5, <1>6, <1>7

\* One mark for each frame of an object or an array; the frames below the top are.
Mark(f) == IF f.kind = "object" THEN "{" ELSE "["

Matches(cs, stack) == Len(cs) = Len(stack) /\ \A i \in 1..Len(stack) : cs[i] = Mark(stack[i])

Inner(s) == IsDone(s) \/ Holds(Top(s))

Marked(cs, s) ==
    /\ Inner(s) => Matches(cs, s.stack)
    /\ ~ Inner(s) => Matches(cs, Front(s.stack))

Marks == {"{", "["}

LEMMA MatchesSame ==
    ASSUME NEW cs, NEW stack, NEW other, Matches(cs, stack), Len(other) = Len(stack),
           \A i \in 1..Len(stack) : Mark(other[i]) = Mark(stack[i])
    PROVE  Matches(cs, other)
BY DEF Matches

LEMMA TopChanged ==
    ASSUME NEW stack \in Seq(Frames), stack # <<>>, NEW f \in Frames
    PROVE  LET other == Append(Front(stack), f) IN
           /\ other \in Seq(Frames) /\ Len(other) = Len(stack) /\ other[Len(stack)] = f
           /\ \A i \in 1..Len(stack) : i # Len(stack) => other[i] = stack[i]
<1> DEFINE front == Front(stack)
<1>1. /\ front \in Seq(Frames) /\ Len(front) = Len(stack) - 1 /\ Len(stack) \in Nat \ {0}
      /\ \A i \in 1..Len(stack) - 1 : front[i] = stack[i]
  BY StackIs
<1> DEFINE other == Append(front, f)
<1> HIDE DEF front
<1>2. /\ other \in Seq(Frames) /\ Len(other) = Len(front) + 1 /\ other[Len(front) + 1] = f
      /\ \A i \in 1..Len(front) : other[i] = front[i]
  BY <1>1, AppendProperties
<1> HIDE DEF other
<1>3. \A i \in 1..Len(stack) : i # Len(stack) => i \in 1..Len(stack) - 1
  BY <1>1
<1> QED BY <1>1, <1>2, <1>3 DEF front, other

LEMMA MatchesTop ==
    ASSUME NEW stack \in Seq(Frames), stack # <<>>, NEW f \in Frames, Mark(f) = Mark(Last(stack)),
           NEW cs, Matches(cs, stack)
    PROVE  Matches(cs, Append(Front(stack), f))
<1> DEFINE other == Append(Front(stack), f)
<1>1. /\ Len(other) = Len(stack) /\ other[Len(stack)] = f
      /\ \A i \in 1..Len(stack) : i # Len(stack) => other[i] = stack[i]
  BY TopChanged
<1>2. Last(stack) = stack[Len(stack)]
  BY DEF Last
<1> HIDE DEF other
<1>3. \A i \in 1..Len(stack) : Mark(other[i]) = Mark(stack[i])
  BY <1>1, <1>2
<1>4. Matches(cs, other)
  BY <1>1, <1>3, MatchesSame
<1> QED BY <1>4 DEF other

LEMMA MatchesMore ==
    ASSUME NEW stack \in Seq(Frames), NEW f \in Frames, NEW cs \in Seq(Marks), NEW m \in Marks, m = Mark(f),
           Matches(cs, stack)
    PROVE  Matches(Append(cs, m), Append(stack, f))
<1> DEFINE n == Len(stack)
           other == Append(stack, f)
           more == Append(cs, m)
<1>1. Len(cs) = n /\ n \in Nat /\ \A i \in 1..n : cs[i] = Mark(stack[i])
  BY DEF Matches
<1>2. Len(other) = n + 1 /\ other[n + 1] = f /\ \A i \in 1..n : other[i] = stack[i]
  BY AppendProperties
<1>3. Len(more) = n + 1 /\ more[n + 1] = m /\ \A i \in 1..n : more[i] = cs[i]
  BY <1>1, AppendProperties
<1>4. \A i \in 1..n + 1 : i \in 1..n \/ i = n + 1
  BY <1>1
<1> HIDE DEF n, other, more
<1>5. \A i \in 1..n + 1 : more[i] = Mark(other[i])
  BY <1>1, <1>2, <1>3, <1>4
<1> QED BY <1>2, <1>3, <1>5 DEF Matches, other, more

LEMMA MatchesFewer ==
    ASSUME NEW stack \in Seq(Frames), stack # <<>>, NEW cs \in Seq(Marks), Matches(cs, stack)
    PROVE  cs # <<>> /\ Last(cs) = Mark(Last(stack)) /\ Matches(Front(cs), Front(stack))
<1> DEFINE n == Len(stack)
           front == Front(stack)
           fewer == Front(cs)
<1>1. /\ Len(front) = n - 1 /\ n \in Nat \ {0} /\ \A i \in 1..n - 1 : front[i] = stack[i]
      /\ Last(stack) = stack[n]
  BY StackIs
<1>2. Len(cs) = n /\ \A i \in 1..n : cs[i] = Mark(stack[i])
  BY DEF Matches
<1>3. cs # <<>>
  <2>1. Len(cs) # 0
    BY <1>1, <1>2
  <2> QED BY <2>1
<1>4. Len(fewer) = n - 1 /\ (\A i \in 1..n - 1 : fewer[i] = cs[i]) /\ Last(cs) = cs[n]
  BY <1>2, <1>3, StackIs
<1>5. n \in 1..n /\ \A i \in 1..n - 1 : i \in 1..n
  BY <1>1
<1> HIDE DEF n, front, fewer
<1>6. Last(cs) = Mark(Last(stack))
  BY <1>1, <1>2, <1>4, <1>5
<1>7. \A i \in 1..n - 1 : fewer[i] = Mark(front[i])
  BY <1>1, <1>2, <1>4, <1>5
<1> QED BY <1>1, <1>3, <1>4, <1>6, <1>7 DEF Matches, front, fewer

LEMMA PushedFront ==
    ASSUME NEW stack \in Seq(Frames), NEW f \in Frames, NEW cs, Matches(cs, stack)
    PROVE  Matches(cs, Front(Append(stack, f)))
<1> DEFINE other == Append(stack, f)
           n == Len(stack)
<1>1. n \in Nat /\ other \in Seq(Frames) /\ Len(other) = n + 1 /\ \A i \in 1..n : other[i] = stack[i]
  BY AppendProperties
<1>2. other # <<>>
  BY <1>1, EmptySeq
<1> HIDE DEF other
<1>3. Len(Front(other)) = Len(other) - 1 /\ \A i \in 1..Len(other) - 1 : Front(other)[i] = other[i]
  BY <1>1, <1>2, StackIs
<1>4. Len(other) - 1 = n
  BY <1>1
<1> HIDE DEF n
<1>5. Len(Front(other)) = n /\ \A i \in 1..n : Front(other)[i] = stack[i]
  BY <1>1, <1>3, <1>4
<1> QED BY <1>5, MatchesSame DEF n, other

LEMMA BareFront ==
    ASSUME NEW stack \in Seq(Frames), stack # <<>>, NEW f \in Frames, NEW cs, Matches(cs, Front(stack))
    PROVE  Matches(cs, Front(Append(Front(stack), f)))
<1>1. Front(stack) \in Seq(Frames)
  BY StackIs
<1> QED BY <1>1, PushedFront

LEMMA MarkedTop ==
    ASSUME NEW s \in [stack : Seq(Frames), run : Nat], ~ IsDone(s), NEW f \in Frames, f.kind = Top(s).kind,
           NEW cs, Marked(cs, s)
    PROVE  Marked(cs, WithTop(s, f))
<1> DEFINE t == WithTop(s, f)
<1>1. s.stack \in Seq(Frames) /\ s.stack # <<>>
  BY DEF IsDone
<1>2. ~ IsDone(t) /\ Top(t) = f
  <2> HIDE DEF t
  <2> QED BY WithTopIs DEF t
<1>3. t.stack = Append(Front(s.stack), f)
  BY DEF WithTop
<1>4. Inner(t) <=> Inner(s)
  BY <1>2 DEF Inner, Holds
<1>5. Mark(f) = Mark(Last(s.stack))
  BY DEF Mark, Top
<1> HIDE DEF t
<1>6. CASE Inner(s)
  <2>1. Matches(cs, s.stack)
    BY <1>6 DEF Marked
  <2>2. Matches(cs, t.stack)
    BY <1>1, <1>3, <1>5, <2>1, MatchesTop
  <2> QED BY <1>4, <1>6, <2>2 DEF Marked, t
<1>7. CASE ~ Inner(s)
  <2>1. Matches(cs, Front(s.stack))
    BY <1>7 DEF Marked
  <2>2. Matches(cs, Front(t.stack))
    BY <1>1, <1>3, <2>1, BareFront
  <2> QED BY <1>4, <1>7, <2>2 DEF Marked, t
<1> QED BY <1>6, <1>7

LEMMA PushIs ==
    ASSUME NEW s \in [stack : Seq(Frames), run : Nat], NEW f \in Frames
    PROVE  Push(s, f).stack = Append(s.stack, f) /\ ~ IsDone(Push(s, f)) /\ Top(Push(s, f)) = f
<1> DEFINE stack == Append(s.stack, f)
           n == Len(s.stack)
<1>1. n \in Nat /\ Len(stack) = n + 1 /\ stack[n + 1] = f /\ stack \in Seq(Frames)
  BY AppendProperties
<1>2. Push(s, f).stack = stack
  BY DEF Push
<1> HIDE DEF stack, n
<1>3. stack # <<>>
  BY <1>1, EmptySeq
<1> QED BY <1>1, <1>2, <1>3 DEF IsDone, Top, Last, stack

LEMMA MarkedPush ==
    ASSUME NEW s \in [stack : Seq(Frames), run : Nat], Inner(s), NEW f \in Frames,
           NEW cs \in Seq(Marks), Marked(cs, s)
    PROVE  /\ Holds(f) => Marked(Append(cs, Mark(f)), Push(s, f))
           /\ ~ Holds(f) => Marked(cs, Push(s, f))
<1> DEFINE t == Push(s, f)
<1>1. t.stack = Append(s.stack, f) /\ ~ IsDone(t) /\ Top(t) = f /\ s.stack \in Seq(Frames)
  <2> HIDE DEF t
  <2> QED BY PushIs DEF t
<1>2. Matches(cs, s.stack)
  BY DEF Marked
<1> HIDE DEF t
<1>3. Inner(t) <=> Holds(f)
  BY <1>1 DEF Inner
<1>4. Mark(f) \in Marks
  BY DEF Mark, Marks
<1>5. Matches(Append(cs, Mark(f)), t.stack)
  BY <1>1, <1>2, <1>4, MatchesMore
<1>6. Matches(cs, Front(t.stack))
  BY <1>1, <1>2, PushedFront
<1> QED BY <1>3, <1>5, <1>6 DEF Marked, t

LEMMA ClosedStack ==
    ASSUME NEW s \in [stack : Seq(Frames), run : Nat], ~ IsDone(s), Below(s.stack),
           NEW cs, Matches(cs, Front(s.stack))
    PROVE  Matches(cs, Closed(s).stack) /\ Inner(Closed(s))
<1> DEFINE t == Closed(s)
           rest == Front(s.stack)
<1>1. /\ IsDone(t) <=> rest = << >>
      /\ rest # << >> => /\ Last(rest) \in Frames /\ Holds(Last(rest))
                         /\ Top(t) = Learnt(Last(rest))
  BY ClosedIs
<1>2. rest \in Seq(Frames)
  <2>1. s.stack \in Seq(Frames) /\ s.stack # <<>>
    BY DEF IsDone
  <2> HIDE DEF rest
  <2> QED BY <2>1, StackIs DEF rest
<1>3. t.stack = IF rest = <<>> THEN rest ELSE Append(Front(rest), Learnt(Last(rest)))
  BY DEF Closed, Learnt
<1> HIDE DEF t, rest
<1>4. CASE rest = <<>>
  BY <1>1, <1>3, <1>4 DEF Inner, t, rest
<1>5. CASE rest # <<>>
  <2>1. Learnt(Last(rest)) \in Frames /\ Learnt(Last(rest)).kind = Last(rest).kind
    BY <1>1, <1>5, LearntIs
  <2>2. Mark(Learnt(Last(rest))) = Mark(Last(rest))
    BY <2>1 DEF Mark
  <2>3. Matches(cs, t.stack)
    BY <1>2, <1>3, <1>5, <2>1, <2>2, MatchesTop DEF rest
  <2>4. Inner(t)
    BY <1>1, <1>5, <2>1 DEF Inner, Holds
  <2> QED BY <2>3, <2>4 DEF t
<1> QED BY <1>4, <1>5

LEMMA MarkedClosed ==
    ASSUME NEW s \in [stack : Seq(Frames), run : Nat], ~ IsDone(s), Below(s.stack),
           NEW cs \in Seq(Marks), Marked(cs, s)
    PROVE  /\ Holds(Top(s)) => cs # <<>> /\ Marked(Front(cs), Closed(s))
           /\ ~ Holds(Top(s)) => Marked(cs, Closed(s))
<1>1. s.stack \in Seq(Frames) /\ s.stack # <<>>
  BY DEF IsDone
<1>2. CASE Holds(Top(s))
  <2>1. Matches(cs, s.stack)
    BY <1>2 DEF Marked, Inner
  <2>2. cs # <<>> /\ Matches(Front(cs), Front(s.stack))
    BY <1>1, <2>1, MatchesFewer
  <2> QED BY <1>2, <2>2, ClosedStack DEF Marked
<1>3. CASE ~ Holds(Top(s))
  <2>1. Matches(cs, Front(s.stack))
    BY <1>3 DEF Marked, Inner
  <2> QED BY <1>3, <2>1, ClosedStack DEF Marked
<1> QED BY <1>2, <1>3

\* In an object the last mark is a brace.
LEMMA InObjectIs ==
    ASSUME NEW w, IsWatch(w), NEW s \in [stack : Seq(Frames), run : Nat], ~ IsDone(s), Holds(Top(s)),
           Marked(w.containers, s)
    PROVE  /\ Top(s).kind = "object" => InObject(w) = On
           /\ Top(s).kind = "array" => InObject(w) = Off
<1> DEFINE cs == w.containers
<1>1. s.stack \in Seq(Frames) /\ s.stack # <<>>
  BY DEF IsDone
<1>2. cs \in Seq(Marks)
  BY DEF IsWatch, Marks
<1>3. Matches(cs, s.stack)
  BY DEF Marked, Inner
<1> HIDE DEF cs
<1>4. cs # <<>> /\ Last(cs) = Mark(Top(s))
  BY <1>1, <1>2, <1>3, MatchesFewer DEF Top
<1>5. InObject(w) = (cs # <<>> /\ Last(cs) = "{")
  BY DEF InObject, cs
<1>6. Top(s).kind = "object" => Last(cs) = "{"
  BY <1>4 DEF Mark
<1>7. Top(s).kind = "array" => Last(cs) # "{"
  BY <1>4 DEF Mark
<1> QED BY <1>4, <1>5, <1>6, <1>7 DEF On, Off

\* In a string, behind what is written of each of the words.
Spelling(w, key, words, progress) ==
    /\ \E escaped : Inside(w, key, escaped)
    /\ \A word \in words : progress <= Len(word) /\ Inside(w, key, Escaping(word)[progress])

KeyWords(f) == {Fields(f)[i].name : i \in f.candidates}

\* Where the lexer is while a frame is on top.
Lexed(w, f) ==
    /\ f.kind \in {"value", "literal", "number", "array"} => Outside(w, Off)
    /\ f.kind = "object" =>
          /\ f.stage \in {"KeyOrClose", "AfterComma"} => Outside(w, On)
          /\ f.stage \in {"AfterKey", "AfterColon", "AfterValue"} => Outside(w, Off)
          /\ f.stage = "InKey" => Spelling(w, On, KeyWords(f), f.progress)
    /\ f.kind = "text" =>
          /\ f.stage \in {"Escape", "LowU"} => Inside(w, Off, On)
          /\ f.stage \notin {"Escape", "LowU"} => Inside(w, Off, Off)
    /\ f.kind = "choice" => Spelling(w, Off, f.candidates, f.progress)

LexedAt(w, s) == (IsDone(s) => Outside(w, Off)) /\ (~ IsDone(s) => Lexed(w, Top(s)))

InStep(w, s) == IsWatch(w) /\ Marked(w.containers, s) /\ LexedAt(w, s)

\* The lexer's next value goes with the automaton's next state.
InStepWith(v, w, t) == InStep(v, t) /\ SameTokens(v, w)

LEMMA SpelledNames ==
    ASSUME IsSchema(schema), SpelledAsStrings(schema), NEW n \in DOMAIN schema.nodes
    PROVE  /\ Node(n).kind = "choice" => \A w \in Node(n).choices : w \in Seq(STRING) /\ IsEscaped(w)
           /\ Node(n).kind = "object" =>
                 \A i \in DOMAIN Node(n).fields :
                    Node(n).fields[i].name \in Seq(STRING) /\ IsEscaped(Node(n).fields[i].name)
<1> DEFINE d == schema.nodes[n]
<1>1. Node(n).kind = d.kind
  BY NodeIs
<1>2. ASSUME d.kind = "choice"
      PROVE  \A w \in Node(n).choices : w \in Seq(STRING) /\ IsEscaped(w)
  <2>1. Node(n).choices = d.choices /\ Node(n).choices \subseteq Seq(STRING)
    BY <1>1, <1>2, NodeIs, Chosen
  <2>2. d.choices \subseteq Spellings(schema.nodes)
    BY <1>2 DEF Spellings
  <2> QED BY <2>1, <2>2 DEF SpelledAsStrings
<1>3. ASSUME d.kind = "object", NEW i \in DOMAIN Node(n).fields
      PROVE  Node(n).fields[i].name \in Seq(STRING) /\ IsEscaped(Node(n).fields[i].name)
  <2>1. i \in DOMAIN d.fields /\ Node(n).fields[i].name = d.fields[i].name
    BY <1>1, <1>3, NodeIs
  <2>2. d.fields[i].name \in Spellings(schema.nodes)
    BY <1>3, <2>1 DEF Spellings
  <2>3. Node(n).fields[i].name \in Seq(STRING)
    BY <1>1, <1>3, Named
  <2> QED BY <2>1, <2>2, <2>3 DEF SpelledAsStrings
<1> QED BY <1>1, <1>2, <1>3

LEMMA KeyWordsAre ==
    ASSUME IsSchema(schema), SpelledAsStrings(schema), NEW f \in ObjectFrames
    PROVE  \A i \in f.candidates : /\ i \in DOMAIN Fields(f) /\ i \in Nat
                                   /\ Fields(f)[i].name \in Seq(STRING) /\ IsEscaped(Fields(f)[i].name)
<1>1. /\ f.node \in DOMAIN schema.nodes /\ schema.nodes[f.node].kind = "object"
      /\ f.candidates \subseteq DOMAIN Fields(f) /\ f.candidates \subseteq Nat
  BY DEF ObjectFrames, Nodes
<1>2. Node(f.node).kind = "object"
  BY <1>1, NodeIs
<1>3. \A i \in DOMAIN Node(f.node).fields :
          Node(f.node).fields[i].name \in Seq(STRING) /\ IsEscaped(Node(f.node).fields[i].name)
  BY <1>1, <1>2, SpelledNames
<1> QED BY <1>1, <1>3 DEF Fields

LEMMA ChoicesAre ==
    ASSUME IsSchema(schema), SpelledAsStrings(schema), NEW f \in ChoiceFrames
    PROVE  \A word \in f.candidates : word \in Seq(STRING) /\ IsEscaped(word)
<1>1. /\ f.node \in DOMAIN schema.nodes /\ schema.nodes[f.node].kind = "choice"
      /\ f.candidates \subseteq Node(f.node).choices
  BY DEF ChoiceFrames, Nodes
<1>2. Node(f.node).kind = "choice"
  BY <1>1, NodeIs
<1>3. \A word \in Node(f.node).choices : word \in Seq(STRING) /\ IsEscaped(word)
  BY <1>1, <1>2, SpelledNames
<1> QED BY <1>1, <1>3

\* The words that go on with a character.
LEMMA SpellingOn ==
    ASSUME NEW words, \A word \in words : word \in Seq(STRING) /\ IsEscaped(word),
           NEW progress \in Nat, NEW w, IsWatch(w), NEW key, Spelling(w, key, words, progress), NEW c,
           NEW left, left # {}, left \subseteq words,
           \A word \in left : Len(word) # progress /\ word[progress + 1] = c
    PROVE  LET v == ReadChar(w, c) IN Leaves(v, w, w.containers) /\ Spelling(v, key, left, progress + 1)
<1> DEFINE v == ReadChar(w, c)
           next == progress + 1
<1>1. ASSUME NEW word \in left
      PROVE  Leaves(v, w, w.containers) /\ next <= Len(word) /\ Inside(v, key, Escaping(word)[next])
  <2>1. /\ word \in Seq(STRING) /\ IsEscaped(word) /\ progress <= Len(word)
        /\ Inside(w, key, Escaping(word)[progress])
        /\ Len(word) # progress /\ word[progress + 1] = c
    BY DEF Spelling
  <2>2. Len(word) \in Nat
    BY <2>1, LenProperties
  <2>3. progress < Len(word) /\ progress + 1 <= Len(word)
    BY <2>1, <2>2
  <2>4. LET u == ReadChar(w, word[progress + 1]) IN
        Leaves(u, w, w.containers) /\ Inside(u, key, Escaping(word)[progress + 1])
    BY <2>1, <2>3, ReadSpelling
  <2> QED BY <2>1, <2>3, <2>4
<1> HIDE DEF v, next
<1>2. PICK word \in left : TRUE
  OBVIOUS
<1> QED BY <1>1, <1>2, Zenon DEF Spelling, v, next

\* A word that is complete has no escape open.
LEMMA SpellingOff ==
    ASSUME NEW words, NEW word \in words, IsEscaped(word),
           NEW progress, NEW w, NEW key, Spelling(w, key, words, progress), Len(word) = progress
    PROVE  Inside(w, key, Off)
<1>1. Inside(w, key, Escaping(word)[progress])
  BY DEF Spelling
<1>2. ~ Escaping(word)[progress]
  BY DEF IsEscaped
<1>3. w.escaped = Escaping(word)[progress]
  BY <1>1 DEF Inside
<1> QED BY <1>1, <1>2, <1>3 DEF Inside, Off

\* The three ways a character changes the stack.
LEMMA TopInStep ==
    ASSUME NEW s \in [stack : Seq(Frames), run : Nat], ~ IsDone(s), NEW f \in Frames, f.kind = Top(s).kind,
           NEW w, Marked(w.containers, s), NEW v, Leaves(v, w, w.containers), Lexed(v, f)
    PROVE  InStepWith(v, w, WithTop(s, f))
<1> DEFINE t == WithTop(s, f)
<1>1. IsWatch(v) /\ v.containers = w.containers /\ SameTokens(v, w)
  BY DEF Leaves
<1>2. Marked(v.containers, t)
  BY <1>1, MarkedTop
<1>3. ~ IsDone(t) /\ Top(t) = f
  <2> HIDE DEF t
  <2> QED BY WithTopIs DEF t
<1> HIDE DEF t
<1>4. LexedAt(v, t)
  BY <1>3 DEF LexedAt
<1> QED BY <1>1, <1>2, <1>4 DEF InStepWith, InStep, t

LEMMA PushInStep ==
    ASSUME NEW s \in [stack : Seq(Frames), run : Nat], Inner(s), NEW f \in Frames,
           NEW w, IsWatch(w), Marked(w.containers, s), NEW v, Lexed(v, f),
           Leaves(v, w, IF Holds(f) THEN Append(w.containers, Mark(f)) ELSE w.containers)
    PROVE  InStepWith(v, w, Push(s, f))
<1> DEFINE t == Push(s, f)
           cs == w.containers
<1>1. IsWatch(v) /\ SameTokens(v, w)
  BY DEF Leaves
<1>2. v.containers = IF Holds(f) THEN Append(cs, Mark(f)) ELSE cs
  BY DEF Leaves
<1>3. cs \in Seq(Marks)
  BY DEF IsWatch, Marks
<1> HIDE DEF cs
<1>4. /\ Holds(f) => Marked(Append(cs, Mark(f)), t)
      /\ ~ Holds(f) => Marked(cs, t)
  BY <1>3, MarkedPush DEF cs
<1>5. ~ IsDone(t) /\ Top(t) = f
  <2> HIDE DEF t
  <2> QED BY PushIs DEF t
<1> HIDE DEF t
<1>6. Marked(v.containers, t)
  BY <1>2, <1>4
<1>7. LexedAt(v, t)
  BY <1>5 DEF LexedAt
<1> QED BY <1>1, <1>6, <1>7 DEF InStepWith, InStep, t

LEMMA ClosedInStep ==
    ASSUME NEW s \in [stack : Seq(Frames), run : Nat], ~ IsDone(s), Below(s.stack),
           NEW w, IsWatch(w), Marked(w.containers, s), NEW v, Outside(v, Off),
           Leaves(v, w, IF Holds(Top(s)) THEN Front(w.containers) ELSE w.containers)
    PROVE  InStepWith(v, w, Closed(s))
<1> DEFINE t == Closed(s)
           rest == Front(s.stack)
           cs == w.containers
           holds == Holds(Top(s))
<1>1. IsWatch(v) /\ SameTokens(v, w)
  BY DEF Leaves
<1>2. v.containers = IF holds THEN Front(cs) ELSE cs
  BY DEF Leaves
<1>3. cs \in Seq(Marks)
  BY DEF IsWatch, Marks
<1> HIDE DEF cs
<1>4. /\ holds => Marked(Front(cs), t)
      /\ ~ holds => Marked(cs, t)
  BY <1>3, MarkedClosed DEF cs
<1>5. /\ IsDone(t) <=> rest = << >>
      /\ rest # << >> => /\ Last(rest) \in Frames /\ Holds(Last(rest))
                         /\ Top(t) = Learnt(Last(rest))
  BY ClosedIs
<1> HIDE DEF t, rest, holds
<1>6. Marked(v.containers, t)
  BY <1>2, <1>4
<1>7. ASSUME ~ IsDone(t) PROVE Lexed(v, Top(t))
  <2> DEFINE f == Last(rest)
             g == Learnt(f)
  <2>1. f \in Frames /\ Holds(f) /\ Top(t) = g
    BY <1>5, <1>7
  <2> HIDE DEF f
  <2>2. /\ g.kind = f.kind
        /\ f.kind = "object" => g.stage = "AfterValue"
    BY <2>1, LearntIs
  <2> HIDE DEF g
  <2>3. Lexed(v, g)
    BY <2>1, <2>2 DEF Lexed, Holds
  <2> QED BY <2>1, <2>3
<1>8. LexedAt(v, t)
  BY <1>7 DEF LexedAt
<1> QED BY <1>1, <1>6, <1>8 DEF InStepWith, InStep, t

LEMMA NumbersArePlain ==
    ASSUME NEW f \in NumberFrames, NEW c, NumberNext(f, c) # {}
    PROVE  c \notin Structural
BY NumberCharacters DEF Digits, Structural, Quote

LEMMA LiteralsArePlain ==
    ASSUME NEW l \in Literals, NEW p \in Nat, p < Len(l)
    PROVE  l[p + 1] \notin Structural
<1>1. CASE l = <<"t", "r", "u", "e">>
  <2>1. p + 1 \in 1..4
    BY <1>1
  <2>2. l[1] = "t" /\ l[2] = "r" /\ l[3] = "u" /\ l[4] = "e"
    BY <1>1
  <2> HIDE <1>1
  <2>3. l[p + 1] \in {"t", "r", "u", "e"}
    BY <2>1, <2>2
  <2> QED BY <2>3 DEF Structural, Quote
<1>2. CASE l = <<"f", "a", "l", "s", "e">>
  <2>1. p + 1 \in 1..5
    BY <1>2
  <2>2. l[1] = "f" /\ l[2] = "a" /\ l[3] = "l" /\ l[4] = "s" /\ l[5] = "e"
    BY <1>2
  <2> HIDE <1>2
  <2>3. l[p + 1] \in {"f", "a", "l", "s", "e"}
    BY <2>1, <2>2
  <2> QED BY <2>3 DEF Structural, Quote
<1> QED BY <1>1, <1>2 DEF Literals

LEMMA LiteralLexed ==
    ASSUME NEW s \in [stack : Seq(Frames), run : Nat], Below(s.stack), ~ IsDone(s),
           Top(s) \in LiteralFrames, \A l \in Top(s).candidates : Top(s).progress < Len(l),
           NEW w, InStep(w, s), NEW c, NEW t \in LiteralNext(s, c)
    PROVE  InStepWith(ReadChar(w, c), w, t)
<1> DEFINE f == Top(s)
           remaining == {l \in f.candidates : l[f.progress + 1] = c}
           g == [f EXCEPT !.candidates = remaining, !.progress = f.progress + 1]
           v == ReadChar(w, c)
<1>1. /\ f \in LiteralFrames /\ f.candidates \subseteq Literals /\ f.progress \in Nat /\ f.kind = "literal"
      /\ ~ Holds(f)
  BY DEF LiteralFrames, Holds
<1>2. remaining # {} /\ (t = Closed(s) \/ t = WithTop(s, g))
  BY DEF LiteralNext
<1>3. c \notin Structural
  <2>1. PICK l \in remaining : TRUE
    BY <1>2
  <2>2. l \in Literals /\ f.progress < Len(l) /\ l[f.progress + 1] = c
    BY <1>1, <2>1
  <2> HIDE DEF f
  <2> QED BY <1>1, <2>2, LiteralsArePlain
<1>4. IsWatch(w) /\ Marked(w.containers, s) /\ Outside(w, Off)
  BY <1>1 DEF InStep, LexedAt, Lexed
<1>5. Leaves(v, w, w.containers) /\ Outside(v, Off)
  BY <1>3, <1>4, ReadSpace
<1>6. g \in Frames /\ g.kind = "literal"
  <2>1. f.progress + 1 \in Nat /\ remaining \in SUBSET Literals
    BY <1>1
  <2> HIDE DEF f, remaining
  <2>2. g \in LiteralFrames /\ g.kind = "literal"
    BY <1>1, <2>1 DEF LiteralFrames
  <2> QED BY <2>2 DEF Frames
<1> HIDE DEF v, g, remaining
<1>7. Lexed(v, g)
  BY <1>5, <1>6 DEF Lexed
<1>8. CASE t = Closed(s)
  BY <1>1, <1>4, <1>5, <1>8, ClosedInStep DEF v
<1>9. CASE t = WithTop(s, g)
  <2> HIDE DEF f
  <2>1. g.kind = Top(s).kind
    BY <1>1, <1>6 DEF f
  <2> QED BY <1>4, <1>5, <1>6, <1>7, <1>9, <2>1, TopInStep DEF v
<1> QED BY <1>2, <1>8, <1>9

LEMMA EscapingFirst ==
    ASSUME NEW word \in Seq(STRING) PROVE Escaping(word)[0] = Off
<1>1. Len(word) \in Nat
  OBVIOUS
<1>2. EscapingIn(word, Escaping(word), Len(word))
  <2>1. PICK f : EscapingIn(word, f, Len(word))
    BY <1>1, EscapingThere
  <2> QED BY <2>1 DEF Escaping, EscapingIn
<1>3. Escaping(word)[0] = FALSE
  BY <1>1, <1>2, EscapingStep
<1> QED BY <1>3 DEF Off

LEMMA SpellingFirst ==
    ASSUME NEW words, \A word \in words : word \in Seq(STRING), NEW w, NEW key, Inside(w, key, Off)
    PROVE  Spelling(w, key, words, 0)
<1>1. \A word \in words : Escaping(word)[0] = Off
  BY EscapingFirst
<1>2. \A word \in Seq(STRING) : 0 <= Len(word)
  OBVIOUS
<1> QED BY <1>1, <1>2, Zenon DEF Spelling

LEMMA OpenLexed ==
    ASSUME IsSchema(schema), NEW n \in DOMAIN schema.nodes,
           NEW s \in [stack : Seq(Frames), run : Nat], Below(s.stack), Inner(s), s.run = 0,
           NEW w, IsWatch(w), Marked(w.containers, s), Outside(w, Off),
           NEW c, NEW t \in OpenValue(s, n, c)
    PROVE  InStepWith(ReadChar(w, c), w, t)
<1> DEFINE v == ReadChar(w, c)
<1>1. ASSUME NEW f \in Frames, t = Push(s, f), Lexed(v, f),
             Leaves(v, w, IF Holds(f) THEN Append(w.containers, Mark(f)) ELSE w.containers)
      PROVE  InStepWith(v, w, t)
  <2> HIDE DEF v
  <2> QED BY <1>1, PushInStep
<1>2. n \in Nodes(Node(n).kind)
  BY NodeOfKind
<1>3. c = Quote => Leaves(v, w, w.containers) /\ Inside(v, Off, Off)
  <2>1. (w.keyNext /\ InObject(w)) = Off
    BY DEF Outside, Off
  <2> QED BY <2>1, ReadQuote
<1>4. CASE Node(n).kind = "object"
  <2> DEFINE f == ObjectFrame(n)
  <2>1. t = Push(s, f) /\ c = "{"
    BY <1>4 DEF OpenValue
  <2>2. f \in ObjectFrames /\ f.kind = "object" /\ f.stage = "KeyOrClose"
    <3>1. {} \subseteq DOMAIN Fields(f)
      OBVIOUS
    <3> QED BY <1>2, <1>4, <3>1 DEF ObjectFrame, ObjectFrames
  <2>3. Leaves(v, w, Append(w.containers, "{")) /\ Outside(v, On)
    BY <2>1, ReadBrace
  <2> HIDE DEF f, v
  <2>4. f \in Frames /\ Holds(f) /\ Mark(f) = "{" /\ Lexed(v, f)
    BY <2>2, <2>3 DEF Frames, Holds, Mark, Lexed
  <2> QED BY <1>1, <2>1, <2>3, <2>4 DEF v
<1>5. CASE Node(n).kind = "array"
  <2> DEFINE f == ArrayFrame(n)
  <2>1. t = Push(s, f) /\ c = "["
    BY <1>5 DEF OpenValue
  <2>2. f \in ArrayFrames /\ f.kind = "array"
    BY <1>2, <1>5 DEF ArrayFrame, ArrayFrames
  <2>3. Leaves(v, w, Append(w.containers, "[")) /\ Outside(v, Off)
    BY <2>1, ReadBracket
  <2> HIDE DEF f, v
  <2>4. f \in Frames /\ Holds(f) /\ Mark(f) = "[" /\ Lexed(v, f)
    BY <2>2, <2>3 DEF Frames, Holds, Mark, Lexed
  <2> QED BY <1>1, <2>1, <2>3, <2>4 DEF v
<1>6. CASE Node(n).kind = "text"
  <2> DEFINE f == TextFrame(n)
  <2>1. t = Push(s, f) /\ c = Quote
    BY <1>6 DEF OpenValue
  <2>2. f \in TextFrames /\ f.kind = "text" /\ f.stage = "Body"
    BY <1>2, <1>6 DEF TextFrame, TextFrames
  <2> HIDE DEF f, v
  <2>4. f \in Frames /\ ~ Holds(f) /\ Lexed(v, f)
    BY <1>3, <2>1, <2>2 DEF Frames, Holds, Lexed
  <2> QED BY <1>1, <1>3, <2>1, <2>4 DEF v
<1>7. CASE Node(n).kind = "choice"
  <2> DEFINE f == ChoiceFrame(n)
  <2>1. t = Push(s, f) /\ c = Quote
    BY <1>7 DEF OpenValue
  <2>2. /\ f.kind = "choice" /\ f.node = n /\ f.candidates = Node(n).choices /\ f.progress = 0
        /\ f = [kind |-> "choice", node |-> n, candidates |-> Node(n).choices, progress |-> 0]
    BY DEF ChoiceFrame
  <2>3. Node(n).choices \subseteq Seq(STRING)
    BY <1>7, Chosen
  <2>4. f \in ChoiceFrames
    <3> HIDE DEF f
    <3>1. f \in [kind : {"choice"}, node : Nodes("choice"), candidates : SUBSET Seq(STRING), progress : Nat]
      BY <1>2, <1>7, <2>2, <2>3
    <3> QED BY <2>2, <3>1 DEF ChoiceFrames
  <2> HIDE DEF f, v
  <2>5. Spelling(v, Off, f.candidates, 0)
    BY <1>3, <2>1, <2>2, <2>3, SpellingFirst
  <2>6. f \in Frames /\ ~ Holds(f) /\ Lexed(v, f)
    BY <2>2, <2>4, <2>5 DEF Frames, Holds, Lexed
  <2> QED BY <1>1, <1>3, <2>1, <2>6 DEF v
<1>8. CASE Node(n).kind = "number"
  <2>1. NumberFrame(n) \in NumberFrames
    BY <1>2, <1>8 DEF NumberFrame, NumberFrames
  <2>2. PICK f \in NumberNext(NumberFrame(n), c) : t = Push(s, f)
    BY <1>8 DEF OpenValue
  <2>3. f \in NumberFrames
    BY <2>1, NumberKeeps
  <2>4. f.kind = "number" /\ f \in Frames
    BY <2>3 DEF NumberFrames, Frames
  <2>5. c \notin Structural
    BY <2>1, <2>2, NumbersArePlain
  <2>6. Leaves(v, w, w.containers) /\ Outside(v, Off)
    BY <2>5, ReadSpace
  <2> HIDE DEF v
  <2>7. ~ Holds(f) /\ Lexed(v, f)
    BY <2>4, <2>6 DEF Holds, Lexed
  <2> QED BY <1>1, <2>2, <2>4, <2>6, <2>7 DEF v
<1>9. CASE Node(n).kind = "bool"
  <2> DEFINE f == LiteralFrame
             u == Push(s, f)
  <2>1. t \in LiteralNext(u, c)
    BY <1>9 DEF OpenValue
  <2>2. /\ f \in LiteralFrames /\ f.kind = "literal" /\ f.candidates = Literals /\ f.progress = 0
    BY DEF LiteralFrame, LiteralFrames
  <2>3. \A l \in f.candidates : f.progress < Len(l)
    BY <2>2, LiteralsAreLong DEF f
  <2> HIDE DEF f
  <2>4. f \in Frames /\ Unread(f, s.run) /\ ~ Holds(f)
    BY <2>2, <2>3 DEF Frames, Unread, Holds
  <2>5. Good(u, s.run) /\ u.run = s.run /\ ~ IsDone(u) /\ Top(u) = f
    <3>1. IsDone(s) \/ Holds(Top(s))
      BY DEF Inner
    <3> QED BY <2>4, <3>1, PushGood
  <2>6. InStepWith(w, w, u)
    <3>1. Lexed(w, f)
      BY <2>2 DEF Lexed
    <3>2. Leaves(w, w, IF Holds(f) THEN Append(w.containers, Mark(f)) ELSE w.containers)
      BY <2>4, Unchanged
    <3> HIDE DEF u
    <3> QED BY <2>4, <3>1, <3>2, PushInStep DEF u
  <2> HIDE DEF u, v
  <2>7. u \in [stack : Seq(Frames), run : Nat] /\ Below(u.stack) /\ InStep(w, u)
    BY <2>5, <2>6 DEF Good, InStepWith
  <2> QED BY <2>1, <2>2, <2>3, <2>5, <2>7, LiteralLexed DEF v
<1> QED BY <1>4, <1>5, <1>6, <1>7, <1>8, <1>9, NodeIs DEF v

LEMMA KeyLexed ==
    ASSUME IsSchema(schema), SpelledAsStrings(schema),
           NEW s \in [stack : Seq(Frames), run : Nat], Below(s.stack), ~ IsDone(s),
           Top(s) \in ObjectFrames, Top(s).stage = "InKey",
           NEW w, InStep(w, s), NEW c, NEW t \in FeedKey(s, c)
    PROVE  InStepWith(ReadChar(w, c), w, t)
<1> DEFINE f == Top(s)
           v == ReadChar(w, c)
           name(i) == Fields(f)[i].name
           complete == {i \in f.candidates : Len(name(i)) = f.progress}
           remaining == {i \in f.candidates \ complete : name(i)[f.progress + 1] = c}
           i == Min(complete)
           g == [f EXCEPT !.seen = f.seen \union {i}, !.active = i, !.stage = "AfterKey"]
           h == [f EXCEPT !.candidates = remaining, !.progress = f.progress + 1]
           Record == [kind : {"object"}, node : Nodes("object"), seen : SUBSET Nat,
                      stage : {"KeyOrClose", "InKey", "AfterKey", "AfterColon", "InValue", "AfterValue",
                               "AfterComma"},
                      candidates : SUBSET Nat, progress : Nat, active : Nat]
<1>1. \/ complete # {} /\ c = Quote /\ t = WithTop(s, g)
      \/ remaining # {} /\ t = WithTop(s, h)
  BY DEF FeedKey
<1>2. /\ f \in Record /\ f.candidates \subseteq DOMAIN Fields(f)
  BY DEF ObjectFrames
<1>3. /\ f.kind = "object" /\ f.progress \in Nat /\ f.candidates \subseteq Nat
      /\ f.node \in DOMAIN schema.nodes /\ schema.nodes[f.node].kind = "object"
  BY <1>2 DEF Nodes
<1>4. \A k \in f.candidates : name(k) \in Seq(STRING) /\ IsEscaped(name(k))
  BY KeyWordsAre
<1>5. IsWatch(w) /\ Marked(w.containers, s) /\ Spelling(w, On, KeyWords(f), f.progress)
  BY <1>3 DEF InStep, LexedAt, Lexed
<1>6. \A word \in KeyWords(f) : word \in Seq(STRING) /\ IsEscaped(word)
  BY <1>4 DEF KeyWords
<1>7. CASE complete # {} /\ c = Quote /\ t = WithTop(s, g)
  <2>1. i \in complete /\ complete \subseteq f.candidates
    <3>1. complete \subseteq Nat /\ complete \subseteq f.candidates
      BY <1>3
    <3> HIDE DEF complete
    <3> QED BY <1>7, <3>1, LeastIs
  <2>2. i \in DOMAIN Fields(f) /\ i \in Nat
    BY <1>2, <1>3, <2>1
  <2>3. name(i) \in KeyWords(f) /\ Len(name(i)) = f.progress
    BY <2>1 DEF KeyWords
  <2> HIDE DEF i, f, complete
  <2>4. Inside(w, On, Off)
    BY <1>5, <1>6, <2>3, SpellingOff
  <2>5. Leaves(v, w, w.containers) /\ Outside(v, Off)
    BY <1>5, <1>7, <2>4, ReadUnquote
  <2>6. g \in Record /\ g.node = f.node /\ g.candidates = f.candidates /\ g.active = i
        /\ g.stage = "AfterKey" /\ g.kind = "object"
    <3>1. f.seen \union {i} \in SUBSET Nat
      BY <1>2, <2>2
    <3> QED BY <1>2, <2>2, <3>1
  <2> HIDE DEF g, Record, v
  <2>7. Fields(g) = Fields(f)
    BY <2>6 DEF Fields
  <2>8. g \in ObjectFrames
    BY <1>2, <2>2, <2>6, <2>7 DEF ObjectFrames, Record
  <2>9. g \in Frames /\ g.kind = Top(s).kind /\ Lexed(v, g)
    BY <1>3, <2>5, <2>6, <2>8 DEF Frames, Lexed, f
  <2> QED BY <1>5, <1>7, <2>5, <2>9, TopInStep DEF v
<1>8. CASE remaining # {} /\ t = WithTop(s, h)
  <2> DEFINE left == {name(k) : k \in remaining}
             progress == f.progress
  <2>1. remaining \subseteq f.candidates
    OBVIOUS
  <2>2. left # {} /\ left \subseteq KeyWords(f)
    BY <1>8, <2>1 DEF KeyWords
  <2>3. \A word \in left : Len(word) # progress /\ word[progress + 1] = c
    OBVIOUS
  <2>4. progress \in Nat /\ Spelling(w, On, KeyWords(f), progress)
    BY <1>3, <1>5
  <2> HIDE DEF left, v, progress
  <2>5. Leaves(v, w, w.containers) /\ Spelling(v, On, left, progress + 1)
    BY <1>5, <1>6, <2>2, <2>3, <2>4, SpellingOn DEF v
  <2> HIDE DEF remaining, f
  <2>6. h \in Record /\ h.node = f.node /\ h.candidates = remaining /\ h.progress = f.progress + 1
        /\ h.stage = f.stage /\ h.kind = "object"
    <3>1. remaining \in SUBSET Nat /\ f.progress + 1 \in Nat
      <4>1. f.progress + 1 \in Nat
        BY <1>3, Following, Zenon
      <4>2. remaining \in SUBSET Nat
        BY <1>3, <2>1, Zenon
      <4> QED BY <4>1, <4>2, Zenon
    <3> QED BY <1>2, <1>3, <3>1
  <2> HIDE DEF h, Record
  <2>7. Fields(h) = Fields(f)
    BY <2>6 DEF Fields
  <2>8. f.stage = "InKey"
    BY DEF f
  <2>9. h \in ObjectFrames
    BY <1>2, <2>1, <2>6, <2>7, <2>8 DEF ObjectFrames, Record
  <2>10. KeyWords(h) = left
    BY <2>6, <2>7 DEF KeyWords, left
  <2>11. Lexed(v, h)
    <3>1. Spelling(v, On, KeyWords(h), h.progress)
      BY <2>5, <2>6, <2>10 DEF progress
    <3> QED BY <2>6, <2>8, <3>1 DEF Lexed
  <2>12. h \in Frames /\ h.kind = Top(s).kind
    BY <1>3, <2>6, <2>9 DEF Frames, f
  <2> QED BY <1>5, <1>8, <2>5, <2>11, <2>12, TopInStep DEF v
<1> QED BY <1>1, <1>7, <1>8

LEMMA ChoiceLexed ==
    ASSUME IsSchema(schema), SpelledAsStrings(schema),
           NEW s \in [stack : Seq(Frames), run : Nat], Below(s.stack), ~ IsDone(s),
           Top(s) \in ChoiceFrames, NEW w, InStep(w, s), NEW c, NEW t \in FeedChoice(s, c)
    PROVE  InStepWith(ReadChar(w, c), w, t)
<1> DEFINE f == Top(s)
           v == ReadChar(w, c)
           remaining == {word \in f.candidates : Len(word) > f.progress /\ word[f.progress + 1] = c}
           progress == f.progress
           h == [f EXCEPT !.candidates = remaining, !.progress = progress + 1]
<1>1. /\ f \in [kind : {"choice"}, node : Nodes("choice"), candidates : SUBSET Seq(STRING), progress : Nat]
      /\ f.candidates \subseteq Node(f.node).choices /\ f.candidates \subseteq Seq(STRING)
      /\ f.kind = "choice" /\ progress \in Nat /\ ~ Holds(f)
  BY DEF ChoiceFrames, Holds
<1>2. \A word \in f.candidates : word \in Seq(STRING) /\ IsEscaped(word)
  BY ChoicesAre
<1>3. \/ c = Quote /\ (\E word \in f.candidates : Len(word) = progress) /\ t = Closed(s)
      \/ remaining # {} /\ t = WithTop(s, h)
  BY DEF FeedChoice
<1>4. IsWatch(w) /\ Marked(w.containers, s) /\ Spelling(w, Off, f.candidates, progress)
  BY <1>1 DEF InStep, LexedAt, Lexed
<1>5. CASE c = Quote /\ (\E word \in f.candidates : Len(word) = progress) /\ t = Closed(s)
  <2>1. PICK word \in f.candidates : Len(word) = progress
    BY <1>5
  <2>2. Inside(w, Off, Off)
    BY <1>2, <1>4, <2>1, SpellingOff
  <2>3. Leaves(v, w, w.containers) /\ Outside(v, Off)
    BY <1>4, <1>5, <2>2, ReadUnquote
  <2> HIDE DEF v
  <2> QED BY <1>1, <1>4, <1>5, <2>3, ClosedInStep DEF v
<1>6. CASE remaining # {} /\ t = WithTop(s, h)
  <2>1. remaining \subseteq f.candidates
    OBVIOUS
  <2>2. \A word \in remaining : Len(word) # progress /\ word[progress + 1] = c
    <3> SUFFICES ASSUME NEW word \in remaining PROVE Len(word) # progress /\ word[progress + 1] = c
      OBVIOUS
    <3>1. word \in Seq(STRING) /\ Len(word) > progress /\ word[progress + 1] = c
      BY <1>2
    <3>2. Len(word) \in Nat
      BY <3>1, LenProperties
    <3> HIDE DEF progress, remaining
    <3> QED BY <1>1, <3>1, <3>2
  <2> HIDE DEF v, remaining, progress, f
  <2>3. Leaves(v, w, w.containers) /\ Spelling(v, Off, remaining, progress + 1)
    BY <1>1, <1>2, <1>4, <1>6, <2>1, <2>2, SpellingOn DEF v
  <2>4. progress + 1 \in Nat
    BY <1>1, Following, Zenon
  <2> DEFINE following == progress + 1
  <2> HIDE DEF following
  <2>5. h = [f EXCEPT !.candidates = remaining, !.progress = following]
    BY DEF following
  <2>6. following \in Nat
    BY <2>4 DEF following
  <2>7. remaining \in SUBSET Seq(STRING)
    BY <1>1, <2>1, Zenon
  <2> HIDE DEF h
  <2>8. /\ h \in [kind : {"choice"}, node : Nodes("choice"), candidates : SUBSET Seq(STRING), progress : Nat]
        /\ h.node = f.node /\ h.candidates = remaining /\ h.progress = following /\ h.kind = "choice"
    BY <1>1, <2>5, <2>6, <2>7
  <2>9. h \in ChoiceFrames
    BY <1>1, <2>1, <2>8 DEF ChoiceFrames
  <2>10. h \in Frames /\ h.kind = Top(s).kind /\ Lexed(v, h)
    <3>1. Spelling(v, Off, h.candidates, h.progress)
      BY <2>3, <2>8 DEF following
    <3> QED BY <1>1, <2>8, <2>9, <3>1 DEF Frames, Lexed, f
  <2> QED BY <1>4, <1>6, <2>3, <2>10, TopInStep DEF v
<1> QED BY <1>3, <1>5, <1>6

LEMMA SpaceLexed ==
    ASSUME NEW s, NEW w, InStep(w, s), NEW key, Outside(w, key)
    PROVE  InStepWith(ReadChar(w, " "), w, s)
<1>1. " " \notin Structural
  BY DEF Structural, Quote
<1>2. ReadChar(w, " ") = w
  BY <1>1, ReadPlain
<1> QED BY <1>2 DEF InStepWith, SameTokens

LEMMA HolderClosed ==
    ASSUME NEW s \in [stack : Seq(Frames), run : Nat], Below(s.stack), ~ IsDone(s), Holds(Top(s)),
           NEW w, InStep(w, s), NEW key, Outside(w, key), NEW c \in {"}", "]"}
    PROVE  InStepWith(ReadChar(w, c), w, Closed(s))
<1> DEFINE v == ReadChar(w, c)
<1>1. IsWatch(w) /\ Marked(w.containers, s)
  BY DEF InStep
<1>2. w.containers # <<>>
  <2>1. w.containers \in Seq(Marks)
    BY <1>1 DEF IsWatch, Marks
  <2> QED BY <1>1, <2>1, MarkedClosed
<1>3. Leaves(v, w, Front(w.containers)) /\ Outside(v, Off)
  BY <1>1, <1>2, ReadClosing
<1> HIDE DEF v
<1> QED BY <1>1, <1>3, ClosedInStep DEF v

LEMMA ObjectLexed ==
    ASSUME IsSchema(schema), SpelledAsStrings(schema), NEW r \in Nat,
           NEW s \in [stack : Seq(Frames), run : Nat], Below(s.stack), ~ IsDone(s),
           Top(s) \in ObjectFrames, Unread(Top(s), r),
           NEW w, InStep(w, s), NEW c, s.run = 0 \/ c = " ", NEW t \in FeedObject(s, c)
    PROVE  InStepWith(ReadChar(w, c), w, t)
<1> DEFINE f == Top(s)
           v == ReadChar(w, c)
           To(stage) == WithTop(s, [f EXCEPT !.stage = stage])
<1>1. /\ f.kind = "object" /\ f.node \in DOMAIN schema.nodes /\ schema.nodes[f.node].kind = "object"
      /\ f.stage \in {"KeyOrClose", "InKey", "AfterKey", "AfterColon", "AfterValue", "AfterComma"}
      /\ f.stage \in {"AfterKey", "AfterColon"} => f.active \in DOMAIN Fields(f)
      /\ Holds(f)
  BY DEF ObjectFrames, Nodes, Unread, Holds
<1>2. IsWatch(w) /\ Marked(w.containers, s)
  BY DEF InStep
<1>3. /\ f.stage \in {"KeyOrClose", "AfterComma"} => Outside(w, On)
      /\ f.stage \in {"AfterKey", "AfterColon", "AfterValue"} => Outside(w, Off)
  BY <1>1 DEF InStep, LexedAt, Lexed
<1>4. InObject(w) = On
  BY <1>1, <1>2, InObjectIs
<1>5. CASE f.stage = "InKey"
  <2>1. t \in FeedKey(s, c)
    BY <1>5 DEF FeedObject
  <2> QED BY <1>5, <2>1, KeyLexed
<1>6. CASE f.stage # "InKey" /\ c = " "
  <2>1. t = s
    BY <1>6 DEF FeedObject
  <2>2. Outside(w, On) \/ Outside(w, Off)
    BY <1>1, <1>3, <1>6
  <2> QED BY <1>6, <2>1, <2>2, SpaceLexed
<1>7. CASE f.stage # "InKey" /\ c # " "
  <2> DEFINE item == Fields(f)[f.active].node
             rest == Remaining(f)
             key == [f EXCEPT !.candidates = rest, !.progress = 0, !.stage = "InKey"]
  <2>1. \/ f.stage \in {"KeyOrClose", "AfterComma"} /\ c = Quote /\ t = WithTop(s, key)
        \/ f.stage \in {"KeyOrClose", "AfterValue"} /\ c = "}" /\ t = Closed(s)
        \/ f.stage = "AfterKey" /\ c = ":" /\ t = To("AfterColon")
        \/ f.stage = "AfterColon" /\ t \in OpenValue(To("InValue"), item, c)
        \/ f.stage = "AfterValue" /\ c = "," /\ t = To("AfterComma")
    BY <1>1, <1>7 DEF FeedObject
  <2>2. ASSUME NEW stage \in {"AfterColon", "InValue", "AfterComma"},
               stage = "AfterColon" => f.stage \in {"AfterKey", "AfterColon"},
               NEW g, g = [f EXCEPT !.stage = stage]
        PROVE  /\ g \in Frames /\ g.stage = stage /\ g.kind = "object" /\ Holds(g)
    <3> HIDE DEF f
    <3>1. f \in ObjectFrames
      BY DEF f
    <3>2. stage # "AfterKey"
      OBVIOUS
    <3>3. stage \in {"AfterColon", "AfterKey"} => f.active \in DOMAIN Fields(f)
      BY <1>1, <2>2, <3>2
    <3>4. stage \in {"AfterColon", "InValue", "AfterValue", "AfterComma", "AfterKey", "KeyOrClose"}
      OBVIOUS
    <3>5. /\ [f EXCEPT !.stage = stage] \in ObjectFrames
          /\ [f EXCEPT !.stage = stage].stage = stage /\ [f EXCEPT !.stage = stage].kind = "object"
      BY <3>1, <3>3, <3>4, StageOf, Zenon
    <3>6. g \in ObjectFrames /\ g.stage = stage /\ g.kind = "object"
      BY <2>2, <3>5
    <3> QED BY <3>6 DEF Frames, Holds
  <2>3. CASE f.stage \in {"KeyOrClose", "AfterComma"} /\ c = Quote /\ t = WithTop(s, key)
    <3>1. (w.keyNext /\ InObject(w)) = On
      BY <1>3, <1>4, <2>3 DEF Outside, On
    <3>2. Outside(w, On)
      BY <1>3, <2>3
    <3>3. Leaves(v, w, w.containers) /\ Inside(v, On, Off)
      BY <1>2, <2>3, <3>1, <3>2, ReadQuote
    <3>4. rest \subseteq DOMAIN Fields(f) /\ rest \subseteq Nat
      BY <1>1, NodeIs DEF Remaining, Fields
    <3> HIDE DEF rest, v
    <3>5. key \in ObjectFrames
      BY <3>4 DEF ObjectFrames, Fields
    <3>6. key.stage = "InKey" /\ key.kind = "object" /\ key.progress = 0
      BY DEF ObjectFrames
    <3> HIDE DEF key
    <3>7. \A word \in KeyWords(key) : word \in Seq(STRING)
      BY <3>5, KeyWordsAre DEF KeyWords
    <3>8. Spelling(v, On, KeyWords(key), 0)
      BY <3>3, <3>7, SpellingFirst
    <3>9. Lexed(v, key) /\ key \in Frames /\ key.kind = Top(s).kind
      BY <1>1, <3>5, <3>6, <3>8 DEF Lexed, Frames
    <3> QED BY <1>2, <2>3, <3>3, <3>9, TopInStep DEF v
  <2>4. CASE f.stage \in {"KeyOrClose", "AfterValue"} /\ c = "}" /\ t = Closed(s)
    <3>1. Outside(w, On) \/ Outside(w, Off)
      BY <1>3, <2>4
    <3> QED BY <1>1, <2>4, <3>1, HolderClosed
  <2>5. CASE f.stage = "AfterKey" /\ c = ":" /\ t = To("AfterColon")
    <3> DEFINE g == [f EXCEPT !.stage = "AfterColon"]
    <3>1. g \in Frames /\ g.stage = "AfterColon" /\ g.kind = "object"
      BY <2>2, <2>5
    <3>2. Leaves(v, w, w.containers) /\ Outside(v, Off)
      BY <1>2, <1>3, <2>5, ReadColon
    <3> HIDE DEF g, v
    <3>3. Lexed(v, g) /\ g.kind = Top(s).kind
      BY <1>1, <3>1, <3>2 DEF Lexed
    <3>4. t = WithTop(s, g)
      BY <2>5 DEF g
    <3> QED BY <1>2, <3>1, <3>2, <3>3, <3>4, TopInStep DEF v
  <2>6. CASE f.stage = "AfterValue" /\ c = "," /\ t = To("AfterComma")
    <3> DEFINE g == [f EXCEPT !.stage = "AfterComma"]
    <3>1. g \in Frames /\ g.stage = "AfterComma" /\ g.kind = "object"
      BY <2>2
    <3>2. Leaves(v, w, w.containers) /\ Outside(v, On)
      BY <1>2, <1>3, <1>4, <2>6, ReadComma
    <3> HIDE DEF g, v
    <3>3. Lexed(v, g) /\ g.kind = Top(s).kind
      BY <1>1, <3>1, <3>2 DEF Lexed
    <3>4. t = WithTop(s, g)
      BY <2>6 DEF g
    <3> QED BY <1>2, <3>1, <3>2, <3>3, <3>4, TopInStep DEF v
  <2>7. CASE f.stage = "AfterColon" /\ t \in OpenValue(To("InValue"), item, c)
    <3> DEFINE g == [f EXCEPT !.stage = "InValue"]
               u == WithTop(s, g)
    <3>1. g \in Frames /\ g.kind = "object" /\ Holds(g)
      BY <2>2
    <3>2. item \in DOMAIN schema.nodes
      BY <1>1, <2>7, NodeIs DEF Fields
    <3>3. t \in OpenValue(u, item, c)
      BY <2>7
    <3>4. Outside(w, Off) /\ s.run = 0
      BY <1>3, <1>7, <2>7
    <3> HIDE DEF g, item
    <3>5. /\ u \in [stack : Seq(Frames), run : Nat] /\ u.run = s.run /\ Below(u.stack)
          /\ ~ IsDone(u) /\ Top(u) = g
      <4> HIDE DEF u
      <4> QED BY <3>1, TopGood DEF u
    <3>6. Marked(w.containers, u)
      <4>1. g.kind = Top(s).kind
        BY <1>1, <3>1
      <4> HIDE DEF u, f
      <4> QED BY <1>2, <3>1, <4>1, MarkedTop DEF u
    <3>7. Inner(u)
      BY <3>1, <3>5 DEF Inner
    <3> HIDE DEF u, f, To, key
    <3>8. u.run = 0
      BY <3>4, <3>5
    <3> QED BY <1>2, <3>2, <3>3, <3>4, <3>5, <3>6, <3>7, <3>8, OpenLexed
  <2> QED BY <2>1, <2>3, <2>4, <2>5, <2>6, <2>7
<1> QED BY <1>5, <1>6, <1>7

LEMMA ArrayLexed ==
    ASSUME IsSchema(schema), NEW s \in [stack : Seq(Frames), run : Nat], Below(s.stack), ~ IsDone(s),
           Top(s) \in ArrayFrames, NEW w, InStep(w, s), NEW c, s.run = 0 \/ c = " ", NEW t \in FeedArray(s, c)
    PROVE  InStepWith(ReadChar(w, c), w, t)
<1> DEFINE f == Top(s)
           v == ReadChar(w, c)
           item == Node(f.node).item
           u == WithTop(s, [f EXCEPT !.stage = "InItem"])
<1>1. /\ f.kind = "array" /\ f.node \in DOMAIN schema.nodes /\ schema.nodes[f.node].kind = "array"
      /\ f \in ArrayFrames /\ Holds(f)
  BY DEF ArrayFrames, Nodes, Holds
<1>2. IsWatch(w) /\ Marked(w.containers, s) /\ Outside(w, Off)
  BY <1>1 DEF InStep, LexedAt, Lexed
<1>3. InObject(w) = Off
  BY <1>1, <1>2, InObjectIs
<1>4. CASE c = " "
  <2>1. t = s
    BY <1>4 DEF FeedArray
  <2> QED BY <1>2, <1>4, <2>1, SpaceLexed
<1>5. CASE c # " "
  <2>1. \/ c = "]" /\ t = Closed(s)
        \/ c = "," /\ t = WithTop(s, [f EXCEPT !.stage = "BeforeItem"])
        \/ t \in OpenValue(u, item, c)
    BY <1>5 DEF FeedArray
  <2>2. ASSUME NEW stage \in {"BeforeItem", "InItem"}
        PROVE  /\ [f EXCEPT !.stage = stage] \in ArrayFrames /\ [f EXCEPT !.stage = stage].kind = "array"
    <3> HIDE DEF f
    <3> QED BY <1>1 DEF ArrayFrames
  <2>3. CASE c = "]" /\ t = Closed(s)
    BY <1>1, <1>2, <2>3, HolderClosed
  <2>4. CASE c = "," /\ t = WithTop(s, [f EXCEPT !.stage = "BeforeItem"])
    <3> DEFINE g == [f EXCEPT !.stage = "BeforeItem"]
    <3>1. g \in ArrayFrames /\ g.kind = "array"
      BY <2>2
    <3>2. Leaves(v, w, w.containers) /\ Outside(v, Off)
      BY <1>2, <1>3, <2>4, ReadComma
    <3> HIDE DEF g, v
    <3>3. g \in Frames /\ Lexed(v, g) /\ g.kind = Top(s).kind
      BY <1>1, <3>1, <3>2 DEF Frames, Lexed
    <3>4. t = WithTop(s, g)
      BY <2>4 DEF g
    <3> QED BY <1>2, <3>2, <3>3, <3>4, TopInStep DEF v
  <2>5. CASE t \in OpenValue(u, item, c)
    <3> DEFINE g == [f EXCEPT !.stage = "InItem"]
    <3>1. g \in ArrayFrames /\ g.kind = "array"
      BY <2>2
    <3> HIDE DEF g
    <3>2. g \in Frames /\ Holds(g)
      BY <3>1 DEF Frames, Holds
    <3>3. u = WithTop(s, g)
      BY DEF g
    <3> HIDE DEF u
    <3>4. /\ u \in [stack : Seq(Frames), run : Nat] /\ u.run = s.run /\ Below(u.stack)
          /\ ~ IsDone(u) /\ Top(u) = g
      BY <3>2, <3>3, TopGood
    <3>5. item \in DOMAIN schema.nodes
      BY <1>1, NodeIs
    <3>6. u.run = 0
      BY <1>5, <3>4
    <3>7. g.kind = Top(s).kind
      BY <1>1, <3>1
    <3>8. Marked(w.containers, u)
      BY <1>2, <3>2, <3>3, <3>7, MarkedTop
    <3>9. Inner(u)
      BY <3>2, <3>4 DEF Inner
    <3> HIDE DEF item, f
    <3> QED BY <1>2, <2>5, <3>4, <3>5, <3>6, <3>8, <3>9, OpenLexed
  <2> QED BY <2>1, <2>3, <2>4, <2>5
<1> QED BY <1>4, <1>5

LEMMA TopOf ==
    ASSUME NEW s \in [stack : Seq(Frames), run : Nat], ~ IsDone(s), NEW f, NEW r,
           Good(WithTop(s, f), r)
    PROVE  f \in Frames
<1> DEFINE S == Frames \union {f}
           front == Front(s.stack)
           t == WithTop(s, f)
           stack == Append(front, f)
<1>1. s.stack \in Seq(Frames) /\ s.stack # <<>>
  BY DEF IsDone
<1>2. front \in Seq(Frames)
  <2> HIDE DEF front
  <2> QED BY <1>1, StackIs DEF front
<1>3. front \in Seq(S) /\ f \in S
  BY <1>2
<1> HIDE DEF S, front
<1>4. Len(front) \in Nat /\ stack[Len(front) + 1] = f /\ Len(stack) = Len(front) + 1
  BY <1>3, AppendProperties
<1>5. t.stack = stack
  BY DEF WithTop, front
<1>6. t.stack \in Seq(Frames)
  BY DEF Good
<1> HIDE DEF t, stack
<1>7. stack[Len(stack)] \in Frames
  <2>1. stack \in Seq(Frames) /\ Len(stack) \in 1..Len(stack)
    BY <1>4, <1>5, <1>6
  <2> QED BY <2>1
<1> QED BY <1>4, <1>7

LEMMA TextForms ==
    ASSUME NEW s, NEW f, f = Top(s), f \in TextFrames, NEW c, NEW t \in FeedText(s, c)
    PROVE  \/ f.stage = "Body" /\ c = Quote /\ t = Closed(s)
           \/ \E g : /\ t = WithTop(s, g)
                     /\ g.kind = "text"
                     /\ \/ f.stage \in {"Escape", "LowU"} /\ g.stage \notin {"Escape", "LowU"}
                        \/ f.stage \notin {"Escape", "LowU"} /\ c = "\\" /\ g.stage \in {"Escape", "LowU"}
                        \/ /\ f.stage \notin {"Escape", "LowU"} /\ c \notin {"\\", Quote}
                           /\ g.stage \notin {"Escape", "LowU"}
<1> DEFINE length == f.length + 1
           value == f.value * 16 + Worth(c)
           left == f.left - 1
           Shape(g) == \/ f.stage \in {"Escape", "LowU"} /\ g.stage \notin {"Escape", "LowU"}
                       \/ f.stage \notin {"Escape", "LowU"} /\ c = "\\" /\ g.stage \in {"Escape", "LowU"}
                       \/ /\ f.stage \notin {"Escape", "LowU"} /\ c \notin {"\\", Quote}
                          /\ g.stage \notin {"Escape", "LowU"}
           hex(low) == [f EXCEPT !.stage = "Hex", !.value = 0, !.left = 4, !.low = low]
           more == [f EXCEPT !.stage = "Body", !.length = length]
           to(stage) == [f EXCEPT !.stage = stage]
           digit == [f EXCEPT !.value = value, !.left = left]
<1> HIDE DEF length, value, left
<1>1. \/ f.stage = "Body" /\ c = Quote /\ t = Closed(s)
      \/ f.stage = "Body" /\ c = "\\" /\ t = WithTop(s, to("Escape"))
      \/ f.stage = "Body" /\ ~ BreaksFreeText(c) /\ t = WithTop(s, more)
      \/ f.stage = "Escape" /\ t = WithTop(s, hex(FALSE))
      \/ f.stage = "Escape" /\ t = WithTop(s, more)
      \/ f.stage = "LowEscape" /\ c = "\\" /\ t = WithTop(s, to("LowU"))
      \/ f.stage = "LowU" /\ t = WithTop(s, hex(TRUE))
      \/ f.stage = "Hex" /\ c \in HexDigits /\ t = WithTop(s, digit)
      \/ f.stage = "Hex" /\ c \in HexDigits /\ t = WithTop(s, to("LowEscape"))
      \/ f.stage = "Hex" /\ c \in HexDigits /\ t = WithTop(s, more)
  BY DEF FeedText, length, value, left
<1>2. \A stage : to(stage).kind = "text" /\ to(stage).stage = stage
  BY DEF TextFrames
<1>3. \A low : hex(low).kind = "text" /\ hex(low).stage = "Hex"
  BY DEF TextFrames
<1>4. more.kind = "text" /\ more.stage = "Body"
  BY DEF TextFrames
<1>5. digit.kind = "text" /\ digit.stage = f.stage
  BY DEF TextFrames
<1>6. c \in HexDigits => c \notin {"\\", Quote}
  BY DEF HexDigits, Digits, Quote
<1>7. ~ BreaksFreeText(c) => c \notin {"\\", Quote}
  BY DEF BreaksFreeText
<1> HIDE DEF to, hex, more, digit
<1>8. ASSUME NEW g, g.kind = "text", t = WithTop(s, g), Shape(g)
      PROVE  \E e : t = WithTop(s, e) /\ e.kind = "text" /\ Shape(e)
  BY <1>8
<1>9. (f.stage = "Body" /\ c = Quote /\ t = Closed(s)) \/ (\E e : t = WithTop(s, e) /\ e.kind = "text" /\ Shape(e))
  <2>1. CASE f.stage = "Body" /\ c = "\\" /\ t = WithTop(s, to("Escape"))
    BY <1>2, <1>8, <2>1
  <2>2. CASE f.stage = "Body" /\ ~ BreaksFreeText(c) /\ t = WithTop(s, more)
    BY <1>4, <1>7, <1>8, <2>2
  <2>3. CASE f.stage = "Escape" /\ t = WithTop(s, hex(FALSE))
    BY <1>3, <1>8, <2>3
  <2>4. CASE f.stage = "Escape" /\ t = WithTop(s, more)
    BY <1>4, <1>8, <2>4
  <2>5. CASE f.stage = "LowEscape" /\ c = "\\" /\ t = WithTop(s, to("LowU"))
    BY <1>2, <1>8, <2>5
  <2>6. CASE f.stage = "LowU" /\ t = WithTop(s, hex(TRUE))
    BY <1>3, <1>8, <2>6
  <2>7. CASE f.stage = "Hex" /\ c \in HexDigits /\ t = WithTop(s, digit)
    BY <1>5, <1>6, <1>8, <2>7
  <2>8. CASE f.stage = "Hex" /\ c \in HexDigits /\ t = WithTop(s, to("LowEscape"))
    BY <1>2, <1>6, <1>8, <2>8
  <2>9. CASE f.stage = "Hex" /\ c \in HexDigits /\ t = WithTop(s, more)
    BY <1>4, <1>6, <1>8, <2>9
  <2> HIDE DEF Shape
  <2> QED BY <1>1, <2>1, <2>2, <2>3, <2>4, <2>5, <2>6, <2>7, <2>8, <2>9
<1> QED BY <1>9, Zenon DEF Shape

LEMMA TextLexed ==
    ASSUME NEW s \in [stack : Seq(Frames), run : Nat], Below(s.stack), ~ IsDone(s),
           Top(s) \in TextFrames, NEW w, InStep(w, s), NEW c, NEW t \in FeedText(s, c)
    PROVE  InStepWith(ReadChar(w, c), w, t)
<1> DEFINE f == Top(s)
           v == ReadChar(w, c)
           Behind == {"Escape", "LowU"}
<1>1. f.kind = "text" /\ ~ Holds(f) /\ f \in TextFrames
  BY DEF TextFrames, Holds
<1>2. IsWatch(w) /\ Marked(w.containers, s)
  BY DEF InStep
<1>3. (f.stage \in Behind => Inside(w, Off, On)) /\ (f.stage \notin Behind => Inside(w, Off, Off))
  BY <1>1 DEF InStep, LexedAt, Lexed
<1>4. Good(t, t.run)
  BY TextKeeps
<1>5. \/ f.stage = "Body" /\ c = Quote /\ t = Closed(s)
      \/ \E g : /\ t = WithTop(s, g)
                /\ g.kind = "text"
                /\ \/ f.stage \in Behind /\ g.stage \notin Behind
                   \/ f.stage \notin Behind /\ c = "\\" /\ g.stage \in Behind
                   \/ f.stage \notin Behind /\ c \notin {"\\", Quote} /\ g.stage \notin Behind
  BY <1>1, TextForms
<1>6. CASE f.stage = "Body" /\ c = Quote /\ t = Closed(s)
  <2>1. Inside(w, Off, Off)
    BY <1>3, <1>6
  <2>2. Leaves(v, w, w.containers) /\ Outside(v, Off)
    BY <1>2, <1>6, <2>1, ReadUnquote
  <2> HIDE DEF v
  <2> QED BY <1>1, <1>2, <1>6, <2>2, ClosedInStep DEF v
<1>7. ASSUME NEW g, t = WithTop(s, g), g.kind = "text",
             Leaves(v, w, w.containers), Lexed(v, g)
      PROVE  InStepWith(v, w, t)
  <2>1. g \in Frames
    BY <1>4, <1>7, TopOf
  <2>2. g.kind = Top(s).kind
    BY <1>1, <1>7
  <2> HIDE DEF v
  <2> QED BY <1>2, <1>7, <2>1, <2>2, TopInStep
<1>8. ASSUME NEW g, t = WithTop(s, g), g.kind = "text", f.stage \in Behind /\ g.stage \notin Behind
      PROVE  InStepWith(v, w, t)
  <2>1. Leaves(v, w, w.containers) /\ Inside(v, Off, Off)
    BY <1>2, <1>3, <1>8, ReadEscaped
  <2> HIDE DEF v
  <2>2. Lexed(v, g)
    BY <1>8, <2>1 DEF Lexed
  <2> QED BY <1>7, <1>8, <2>1, <2>2
<1>9. ASSUME NEW g, t = WithTop(s, g), g.kind = "text", f.stage \notin Behind /\ c = "\\" /\ g.stage \in Behind
      PROVE  InStepWith(v, w, t)
  <2>1. Leaves(v, w, w.containers) /\ Inside(v, Off, On)
    BY <1>2, <1>3, <1>9, ReadBackslash
  <2> HIDE DEF v
  <2>2. Lexed(v, g)
    BY <1>9, <2>1 DEF Lexed
  <2> QED BY <1>7, <1>9, <2>1, <2>2
<1>10. ASSUME NEW g, t = WithTop(s, g), g.kind = "text",
              f.stage \notin Behind /\ c \notin {"\\", Quote} /\ g.stage \notin Behind
       PROVE  InStepWith(v, w, t)
  <2>1. Leaves(v, w, w.containers) /\ Inside(v, Off, Off)
    BY <1>2, <1>3, <1>10, ReadOther
  <2> HIDE DEF v
  <2>2. Lexed(v, g)
    BY <1>10, <2>1 DEF Lexed
  <2> QED BY <1>7, <1>10, <2>1, <2>2
<1> HIDE DEF v, f, Behind
<1> QED BY <1>5, <1>6, <1>8, <1>9, <1>10 DEF v

LEMMA FeedOpenLexed ==
    ASSUME IsSchema(schema), SpelledAsStrings(schema), NEW r \in Nat,
           NEW s \in [stack : Seq(Frames), run : Nat], Below(s.stack),
           IsDone(s) \/ (Holds(Top(s)) /\ Unread(Top(s), r)),
           NEW w, InStep(w, s), NEW c, s.run = 0 \/ c = " ", NEW t \in FeedOpen(s, c)
    PROVE  InStepWith(ReadChar(w, c), w, t)
<1>1. CASE IsDone(s)
  <2>1. t = s /\ c = " "
    BY <1>1 DEF FeedOpen
  <2>2. Outside(w, Off)
    BY <1>1 DEF InStep, LexedAt
  <2> QED BY <2>1, <2>2, SpaceLexed
<1>2. CASE ~ IsDone(s)
  <2>1. Top(s) \in Frames
    <3>1. s.stack \in Seq(Frames) /\ s.stack # << >>
      BY <1>2 DEF IsDone
    <3> QED BY <3>1, StackIs DEF Top
  <2>2. Holds(Top(s)) /\ Unread(Top(s), r)
    BY <1>2
  <2>3. CASE Top(s).kind = "object"
    <3>1. t \in FeedObject(s, c)
      BY <1>2, <2>3 DEF FeedOpen
    <3>2. Top(s) \in ObjectFrames
      BY <2>1, <2>3, KindIs
    <3> QED BY <1>2, <2>2, <3>1, <3>2, ObjectLexed
  <2>4. CASE Top(s).kind = "array"
    <3>1. t \in FeedArray(s, c)
      BY <1>2, <2>4 DEF FeedOpen
    <3>2. Top(s) \in ArrayFrames
      BY <2>1, <2>4, KindIs
    <3> QED BY <1>2, <3>1, <3>2, ArrayLexed
  <2> QED BY <2>2, <2>3, <2>4 DEF Holds
<1> QED BY <1>1, <1>2

LEMMA NumberLexed ==
    ASSUME IsSchema(schema), SpelledAsStrings(schema),
           NEW s \in [stack : Seq(Frames), run : Nat], Below(s.stack), ~ IsDone(s),
           Top(s) \in NumberFrames, NEW w, InStep(w, s),
           NEW c, s.run = 0 \/ c = " ", NEW t \in FeedNumber(s, c)
    PROVE  InStepWith(ReadChar(w, c), w, t)
<1> DEFINE u == Closed(s)
           v == ReadChar(w, c)
<1>1. (\E g \in NumberNext(Top(s), c) : t = WithTop(s, g)) \/ t \in FeedOpen(u, c)
  BY DEF FeedNumber
<1>2. Top(s).kind = "number" /\ ~ Holds(Top(s))
  BY DEF NumberFrames, Holds
<1>3. IsWatch(w) /\ Marked(w.containers, s) /\ Outside(w, Off)
  BY <1>2 DEF InStep, LexedAt, Lexed
<1>4. CASE \E g \in NumberNext(Top(s), c) : t = WithTop(s, g)
  <2>1. PICK g \in NumberNext(Top(s), c) : t = WithTop(s, g)
    BY <1>4
  <2>2. g \in NumberFrames
    BY NumberKeeps
  <2>3. g \in Frames /\ g.kind = "number"
    BY <2>2 DEF NumberFrames, Frames
  <2>4. c \notin Structural
    BY <2>1, NumbersArePlain
  <2>5. Leaves(v, w, w.containers) /\ Outside(v, Off)
    BY <1>3, <2>4, ReadSpace
  <2> HIDE DEF v
  <2>6. Lexed(v, g) /\ g.kind = Top(s).kind
    BY <1>2, <2>3, <2>5 DEF Lexed
  <2> QED BY <1>3, <2>1, <2>3, <2>5, <2>6, TopInStep DEF v
<1>5. CASE t \in FeedOpen(u, c)
  <2>1. Good(u, s.run) /\ u.run = s.run
    BY ClosedGood
  <2>2. IsDone(u) \/ Holds(Top(u))
    <3> DEFINE rest == Front(s.stack)
    <3>1. IsDone(u) <=> rest = << >>
      BY ClosedIs
    <3>2. rest # << >> => Last(rest) \in Frames /\ Holds(Last(rest)) /\ Top(u) = Learnt(Last(rest))
      BY ClosedIs
    <3> HIDE DEF rest, u
    <3>3. rest # << >> => Learnt(Last(rest)).kind = Last(rest).kind
      BY <3>2, LearntIs
    <3> QED BY <3>1, <3>2, <3>3 DEF Holds
  <2>3. InStep(w, u)
    <3>1. Leaves(w, w, IF Holds(Top(s)) THEN Front(w.containers) ELSE w.containers)
      BY <1>2, <1>3, Unchanged
    <3>2. InStepWith(w, w, u)
      BY <1>3, <3>1, ClosedInStep
    <3> QED BY <3>2 DEF InStepWith
  <2> HIDE DEF u
  <2>4. u \in [stack : Seq(Frames), run : Nat] /\ Below(u.stack) /\ (~ IsDone(u) => Unread(Top(u), s.run))
    BY <2>1 DEF Good
  <2>5. s.run \in Nat /\ (u.run = 0 \/ c = " ")
    BY <2>1
  <2> QED BY <1>5, <2>2, <2>3, <2>4, <2>5, FeedOpenLexed
<1> QED BY <1>1, <1>4, <1>5

LEMMA ValueLexed ==
    ASSUME IsSchema(schema), NEW s \in [stack : Seq(Frames), run : Nat], Below(s.stack), ~ IsDone(s),
           Top(s) \in ValueFrames, NEW w, InStep(w, s), NEW c, s.run = 0,
           NEW t \in OpenValue([s EXCEPT !.stack = Front(@)], Top(s).node, c)
    PROVE  InStepWith(ReadChar(w, c), w, t)
<1> DEFINE rest == Front(s.stack)
           u == [s EXCEPT !.stack = rest]
           node == Top(s).node
<1>1. s.stack \in Seq(Frames) /\ s.stack # << >>
  BY DEF IsDone
<1>2. rest \in Seq(Frames)
  <2> HIDE DEF rest
  <2> QED BY <1>1, StackIs DEF rest
<1>3. node \in DOMAIN schema.nodes /\ Top(s).kind = "value" /\ ~ Holds(Top(s))
  BY DEF ValueFrames, Holds
<1>4. IsWatch(w) /\ Marked(w.containers, s) /\ Outside(w, Off)
  BY <1>3 DEF InStep, LexedAt, Lexed
<1>5. Matches(w.containers, rest)
  BY <1>3, <1>4 DEF Marked, Inner
<1>6. t \in OpenValue(u, node, c)
  OBVIOUS
<1>7. Below(rest) /\ (rest # << >> => Holds(Last(rest)))
  BY <1>1, TheRestHolds
<1> HIDE DEF rest, node
<1>8. u \in [stack : Seq(Frames), run : Nat] /\ u.run = 0 /\ u.stack = rest
  BY <1>2
<1> HIDE DEF u
<1>9. Below(u.stack)
  BY <1>7, <1>8
<1>10. Inner(u)
  BY <1>7, <1>8, Zenon DEF Inner, IsDone, Top
<1>11. Marked(w.containers, u)
  BY <1>5, <1>8, <1>10 DEF Marked
<1> QED BY <1>3, <1>4, <1>6, <1>8, <1>9, <1>10, <1>11, OpenLexed

LEMMA FrameLexed ==
    ASSUME IsSchema(schema), SpelledAsStrings(schema), NEW r \in Nat,
           NEW s \in [stack : Seq(Frames), run : Nat], Below(s.stack), ~ IsDone(s) => Unread(Top(s), r),
           NEW w, InStep(w, s), NEW c, s.run = 0 \/ c = " ", NEW t \in FeedFrame(s, c)
    PROVE  InStepWith(ReadChar(w, c), w, t)
<1>1. CASE IsDone(s)
  <2>1. t \in FeedOpen(s, c)
    BY <1>1 DEF FeedFrame
  <2> QED BY <1>1, <2>1, FeedOpenLexed
<1>2. CASE ~ IsDone(s)
  <2> DEFINE f == Top(s)
  <2>1. f \in Frames
    <3>1. s.stack \in Seq(Frames) /\ s.stack # << >>
      BY <1>2 DEF IsDone
    <3> QED BY <3>1, StackIs DEF Top
  <2>2. Unread(f, r)
    BY <1>2
  <2>3. CASE f.kind = "value"
    <3>1. f \in ValueFrames
      BY <2>1, <2>3, KindIs
    <3>2. CASE c = " "
      <4>1. t = s
        BY <1>2, <2>3, <3>2 DEF FeedFrame
      <4>2. Outside(w, Off)
        BY <1>2, <2>3 DEF InStep, LexedAt, Lexed
      <4> QED BY <3>2, <4>1, <4>2, SpaceLexed
    <3>3. CASE c # " "
      <4>1. t \in OpenValue([s EXCEPT !.stack = Front(@)], f.node, c)
        BY <1>2, <2>3, <3>3 DEF FeedFrame
      <4> QED BY <1>2, <3>1, <3>3, <4>1, ValueLexed
    <3> QED BY <3>2, <3>3
  <2>4. CASE f.kind \in {"object", "array"}
    <3>1. t \in FeedOpen(s, c)
      BY <1>2, <2>4 DEF FeedFrame
    <3> QED BY <2>2, <2>4, <3>1, FeedOpenLexed DEF Holds
  <2>5. CASE f.kind = "text"
    <3>1. f \in TextFrames /\ t \in FeedText(s, c)
      BY <1>2, <2>1, <2>5, KindIs DEF FeedFrame
    <3> QED BY <1>2, <3>1, TextLexed
  <2>6. CASE f.kind = "choice"
    <3>1. f \in ChoiceFrames /\ t \in FeedChoice(s, c)
      BY <1>2, <2>1, <2>6, KindIs DEF FeedFrame
    <3> QED BY <1>2, <3>1, ChoiceLexed
  <2>7. CASE f.kind = "literal"
    <3>1. f \in LiteralFrames /\ t \in LiteralNext(s, c)
      BY <1>2, <2>1, <2>7, KindIs DEF FeedFrame
    <3>2. \A l \in f.candidates : f.progress < Len(l)
      BY <2>2, <2>7 DEF Unread
    <3> QED BY <1>2, <3>1, <3>2, LiteralLexed
  <2>8. CASE f.kind = "number"
    <3>1. f \in NumberFrames /\ t \in FeedNumber(s, c)
      BY <1>2, <2>1, <2>8, KindIs DEF FeedFrame
    <3> QED BY <1>2, <3>1, NumberLexed
  <2> QED BY <2>1, <2>3, <2>4, <2>5, <2>6, <2>7, <2>8, KindIs
<1> QED BY <1>1, <1>2

LEMMA CharLexed ==
    ASSUME MaxSpaces \in Nat, IsSchema(schema), SpelledAsStrings(schema),
           NEW s, Good(s, s.run), NEW w, InStep(w, s), NEW c, NEW t \in FeedChar(s, c)
    PROVE  InStepWith(ReadChar(w, c), w, t)
<1>1. PICK u \in Counted(s, c) : t \in FeedFrame(u, c)
  BY DEF FeedChar
<1>2. /\ s \in [stack : Seq(Frames), run : Nat] /\ s.run \in Nat /\ Below(s.stack)
      /\ ~ IsDone(s) => Unread(Top(s), s.run)
  BY DEF Good
<1>3. ASSUME NEW n \in Nat, u = [s EXCEPT !.run = n], n = 0 \/ c = " "
      PROVE  InStepWith(ReadChar(w, c), w, t)
  <2>1. u \in [stack : Seq(Frames), run : Nat] /\ u.run = n /\ u.stack = s.stack
    BY <1>2, <1>3
  <2>2. Below(u.stack) /\ (~ IsDone(u) => Unread(Top(u), s.run))
    BY <1>2, <2>1, Zenon DEF IsDone, Top
  <2>3. u.run = 0 \/ c = " "
    BY <1>3, <2>1
  <2>4. IsDone(u) = IsDone(s) /\ Top(u) = Top(s)
    BY <2>1, Zenon DEF IsDone, Top
  <2>5. InStep(w, u)
    BY <2>1, <2>4 DEF InStep, LexedAt, Marked, Inner
  <2> QED BY <1>1, <1>2, <2>1, <2>2, <2>3, <2>5, FrameLexed
<1>4. \/ u = [s EXCEPT !.run = 0]
      \/ c = " " /\ u = s
      \/ c = " " /\ u = [s EXCEPT !.run = s.run + 1]
  BY <1>1 DEF Counted
<1>5. CASE u = [s EXCEPT !.run = 0]
  BY <1>3, <1>5
<1>6. CASE c = " " /\ u = s
  <2>1. u = [s EXCEPT !.run = s.run]
    BY <1>2, <1>6
  <2> QED BY <1>2, <1>3, <1>6, <2>1, Zenon
<1>7. CASE c = " " /\ u = [s EXCEPT !.run = s.run + 1]
  BY <1>2, <1>3, <1>7, Successor, Zenon
<1> QED BY <1>4, <1>5, <1>6, <1>7

-----------------------------------------------------------------------------
(* The lexer reads a token *)

LEMMA ReadNext ==
    ASSUME NEW w, NEW text, NEW N \in Nat, NEW read, Reading(w, text, read, N),
           NEW n \in Nat, n + 1 <= N
    PROVE  read[n + 1] = ReadChar(read[n], text[n + 1])
<1>1. \A k \in 1..N : read[k] = ReadChar(read[k - 1], text[k])
  BY ReadingStep
<1>2. n + 1 \in 1..N /\ (n + 1) - 1 = n
  OBVIOUS
<1> QED BY <1>1, <1>2, Zenon

Noted(v, tokens, inValue) == [v EXCEPT !.tokens = tokens, !.inValue = inValue]

\* What a lexer that has come to `v` is with the token noted.
Writes(r, token, v, inside) == r = Noted(v, Append(v.tokens, token), Append(v.inValue, inside))

\* Recorded is that function at the last character, and the token noted.
LEMMA RecordedIs ==
    ASSUME NEW w, NEW token, NEW text, Len(text) \in Nat
    PROVE  \E read, inside : /\ Reading(w, text, read, Len(text))
                             /\ Writes(Recorded(w, token, text), token, read[Len(text)], inside)
<1> DEFINE chosen == CHOOSE f : Reading(w, text, f, Len(text))
           inside == \E n \in 0..Len(text) : InsideValue(chosen[n])
<1>1. Reading(w, text, chosen, Len(text))
  BY ReadingThere
<1>2. Recorded(w, token, text) =
        [chosen[Len(text)] EXCEPT !.tokens = Append(chosen[Len(text)].tokens, token),
                                  !.inValue = Append(chosen[Len(text)].inValue, inside)]
  BY Zenon DEF Recorded, Reading
<1> HIDE DEF chosen, inside
<1>3. Writes(Recorded(w, token, text), token, chosen[Len(text)], inside)
  BY <1>2 DEF Noted, Writes
<1> QED BY <1>1, <1>3

\* What a token is noted with does not move the lexer.
LEMMA NotedInStep ==
    ASSUME NEW v, NEW s, InStep(v, s), NEW tokens, NEW inValue,
           NEW r, r = Noted(v, tokens, inValue)
    PROVE  InStep(r, s) /\ r.tokens = tokens
<1>1. /\ IsWatch(v) /\ Marked(v.containers, s) /\ LexedAt(v, s)
  BY DEF InStep
<1>2. r = [tokens |-> tokens, inValue |-> inValue, inString |-> v.inString, inKey |-> v.inKey,
           escaped |-> v.escaped, containers |-> v.containers, keyNext |-> v.keyNext]
  BY <1>1 DEF IsWatch, Noted
<1>3. /\ r.inString = v.inString /\ r.inKey = v.inKey /\ r.escaped = v.escaped
      /\ r.containers = v.containers /\ r.keyNext = v.keyNext /\ r.tokens = tokens
  BY <1>2
<1>4. IsWatch(r)
  <2>1. r.containers \in Seq({"{", "["})
    BY <1>1, <1>3 DEF IsWatch
  <2>2. r = [tokens |-> r.tokens, inValue |-> r.inValue, inString |-> r.inString, inKey |-> r.inKey,
             escaped |-> r.escaped, containers |-> r.containers, keyNext |-> r.keyNext]
    BY <1>2
  <2> QED BY <2>1, <2>2, Zenon DEF IsWatch
<1>5. /\ \A key : Outside(r, key) = Outside(v, key)
      /\ \A key, escaped : Inside(r, key, escaped) = Inside(v, key, escaped)
  BY <1>3, Zenon DEF Outside, Inside
<1>6. \A key, words, progress : Spelling(r, key, words, progress) = Spelling(v, key, words, progress)
  BY <1>5, Zenon DEF Spelling
<1>7. \A f : Lexed(r, f) = Lexed(v, f)
  BY <1>5, <1>6 DEF Lexed
<1>8. LexedAt(r, s)
  BY <1>1, <1>5, <1>7, Zenon DEF LexedAt
<1>9. Marked(r.containers, s)
  BY <1>1, <1>3
<1> QED BY <1>3, <1>4, <1>8, <1>9 DEF InStep

LEMMA FreshInStep ==
    ASSUME NEW root, NEW s, s = StartAt(root)
    PROVE  InStep(Fresh, s)
<1> DEFINE f == ValueFrame(root)
<1>1. f.kind = "value" /\ ~ Holds(f)
  BY DEF ValueFrame, Holds
<1>2. s.stack = <<f>>
  BY DEF StartAt
<1> HIDE DEF f
<1>3. ~ IsDone(s) /\ Top(s) = f
  BY <1>2 DEF IsDone, Top, Last
<1>4. Front(s.stack) = <<>>
  BY <1>2 DEF Front
<1>5. Fresh.containers = <<>>
  BY DEF Fresh
<1>6. Matches(Fresh.containers, Front(s.stack))
  BY <1>4, <1>5 DEF Matches
<1>7. Marked(Fresh.containers, s)
  BY <1>1, <1>3, <1>6 DEF Marked, Inner
<1>8. IsWatch(Fresh)
  BY DEF Fresh, IsWatch
<1>9. Outside(Fresh, Off)
  BY DEF Fresh, Outside, Off
<1>10. LexedAt(Fresh, s)
  BY <1>1, <1>3, <1>9 DEF LexedAt, Lexed
<1> QED BY <1>7, <1>8, <1>10 DEF InStep

\* The session and the lexer, which has noted what `w` has.
Together(v, w, x) ==
    /\ Kept(x) /\ x.stage # Prefix
    /\ x.stage = Args => InStepWith(v, w, x.state)

LEMMA SwallowLexed ==
    ASSUME MaxSpaces \in Nat, IsCatalog(schema), SpelledAsStrings(schema),
           NEW w, NEW v, NEW x, Together(v, w, x), NEW c \in Chars, NEW y \in Swallow(x, c)
    PROVE  Together(ReadChar(v, c), w, y)
<1>1. Kept(x) /\ IsSession(x) /\ x.stage \in {Args, Ended}
  BY DEF Together, Kept, IsSession
<1>2. Kept(y) /\ y.stage # Prefix
  <2>1. Kept(y)
    BY <1>1, SwallowStays
  <2>2. y.stage # Prefix
    BY <1>1, SwallowKeeps, Reasons
  <2> QED BY <2>1, <2>2
<1>3. CASE x.stage = Ended
  <2>1. y = x
    BY <1>3, Reasons DEF Swallow
  <2> QED BY <1>2, <1>3, <2>1, Reasons DEF Together
<1>4. CASE x.stage = Args
  <2> SUFFICES ASSUME y.stage = Args PROVE InStepWith(ReadChar(v, c), w, y.state)
    BY <1>2 DEF Together
  <2>1. y \in SwallowArgs(x, c)
    BY <1>4, Reasons DEF Swallow
  <2> DEFINE args == IF c = " " /\ ~InContent(x.state) THEN x.args ELSE Append(x.args, c)
             fresh == x.fresh /\ c = " "
  <2>2. \/ y = [x EXCEPT !.stage = Ended]
        \/ \E next \in FeedChar(x.state, c) : y = [x EXCEPT !.state = next, !.fresh = fresh, !.args = args]
    BY <2>1 DEF SwallowArgs
  <2> HIDE DEF args, fresh
  <2>3. y # [x EXCEPT !.stage = Ended]
    BY <1>1, Reasons DEF IsSession
  <2>4. PICK next \in FeedChar(x.state, c) : y = [x EXCEPT !.state = next, !.fresh = fresh, !.args = args]
    BY <2>2, <2>3
  <2>5. y.state = next
    BY <1>1, <2>4 DEF IsSession
  <2>6. Good(x.state, x.state.run) /\ IsSchema(schema)
    BY <1>1, <1>4 DEF Kept, IsCatalog
  <2>7. InStep(v, x.state) /\ SameTokens(v, w)
    BY <1>4 DEF Together, InStepWith
  <2>8. InStepWith(ReadChar(v, c), v, next)
    BY <2>4, <2>6, <2>7, CharLexed
  <2>9. SameTokens(ReadChar(v, c), w)
    BY <2>7, <2>8 DEF InStepWith, SameTokens
  <2> QED BY <2>5, <2>8, <2>9 DEF InStepWith
<1> QED BY <1>1, <1>3, <1>4

\* A session that has come to the arguments, and the lexer behind the `(`.
Beside(s, token, N, f, p, M, w, rest, read) ==
    /\ N \in Nat /\ p \in Nat /\ M \in Nat /\ p + M = N
    /\ Reaching(s, token, f, N) /\ Reading(w, rest, read, M)
    /\ \A k \in 1..M : rest[k] = token[p + k]
    /\ \A k \in 1..N : token[k] \in Chars
    /\ \A x \in f[p] : Together(w, w, x)

LEMMA BesideOn ==
    ASSUME MaxSpaces \in Nat, IsCatalog(schema), SpelledAsStrings(schema),
           NEW s, NEW token, NEW N, NEW f, NEW p, NEW M, NEW w, NEW rest, NEW read,
           Beside(s, token, N, f, p, M, w, rest, read)
    PROVE  \A x \in f[N] : Together(read[M], w, x)
<1>1. /\ N \in Nat /\ p \in Nat /\ M \in Nat /\ p + M = N
      /\ Reaching(s, token, f, N) /\ Reading(w, rest, read, M)
      /\ \A k \in 1..M : rest[k] = token[p + k]
      /\ \A k \in 1..N : token[k] \in Chars
      /\ \A x \in f[p] : Together(w, w, x)
  BY Zenon DEF Beside
<1> DEFINE S == {n \in Nat : n <= M => \A x \in f[p + n] : Together(read[n], w, x)}
<1>2. 0 \in S
  <2>1. read[0] = w
    BY <1>1, ReadingStep
  <2>2. p + 0 = p
    BY <1>1
  <2> QED BY <1>1, <2>1, <2>2
<1>3. ASSUME NEW n \in S PROVE n + 1 \in S
  <2> SUFFICES ASSUME n + 1 <= M, NEW y \in f[p + (n + 1)] PROVE Together(read[n + 1], w, y)
    OBVIOUS
  <2> DEFINE i == p + n
  <2>1. /\ n \in Nat /\ n <= M /\ n + 1 \in 1..M /\ i \in Nat /\ p + (n + 1) = i + 1
        /\ i + 1 <= N /\ i + 1 \in 1..N
    BY <1>1
  <2>2. rest[n + 1] = token[i + 1] /\ token[i + 1] \in Chars
    BY <1>1, <2>1
  <2>3. read[n + 1] = ReadChar(read[n], rest[n + 1])
    BY <1>1, <2>1, ReadNext
  <2>4. \A x \in f[i] : Together(read[n], w, x)
    BY <2>1
  <2> HIDE DEF i
  <2>5. PICK x \in f[i] : y \in Swallow(x, token[i + 1])
    BY <1>1, <2>1, ReachBack
  <2>6. Together(ReadChar(read[n], token[i + 1]), w, y)
    BY <2>2, <2>4, <2>5, SwallowLexed
  <2> QED BY <2>2, <2>3, <2>6
<1> HIDE DEF S
<1>4. S = Nat
  <2>1. S \in SUBSET Nat
    BY DEF S
  <2> QED BY <1>2, <1>3, <2>1, ByInduction
<1>5. M \in S /\ M <= M
  BY <1>1, <1>4
<1> QED BY <1>1, <1>5 DEF S

\* A session in its arguments and the lexer that has read as far.
Watching(w, s) ==
    /\ InStep(w, s.state)
    /\ w.tokens \in Seq(Seq(Chars)) /\ w.tokens # <<>>

\* What Recorded makes of the lexer that has come so far.
LEMMA RecordedWatches ==
    ASSUME NEW w, w.tokens \in Seq(Seq(Chars)), NEW token \in Seq(Chars), NEW v, NEW x,
           Together(v, w, x), x.stage = Args, NEW inside,
           NEW r, Writes(r, token, v, inside)
    PROVE  Watching(r, x)
<1>1. InStep(v, x.state) /\ v.tokens = w.tokens
  BY DEF Together, InStepWith, SameTokens
<1> DEFINE tokens == Append(w.tokens, token)
           inValue == Append(v.inValue, inside)
<1>2. tokens \in Seq(Seq(Chars)) /\ tokens # <<>>
  <2> DEFINE T == Seq(Chars)
  <2> HIDE DEF T
  <2>1. w.tokens \in Seq(T) /\ token \in T
    BY DEF T
  <2>2. tokens \in Seq(T) /\ tokens # <<>>
    <3> DEFINE u == w.tokens
    <3>1. u \in Seq(T)
      BY <2>1
    <3> HIDE DEF u
    <3>2. Append(u, token) \in Seq(T) /\ Append(u, token) # <<>>
      BY <2>1, <3>1, AppendProperties
    <3> QED BY <3>2 DEF u
  <2> QED BY <2>2 DEF T
<1>3. r = Noted(v, tokens, inValue)
  BY <1>1 DEF Writes
<1> HIDE DEF tokens, inValue
<1>4. InStep(r, x.state) /\ r.tokens = tokens
  BY <1>1, <1>3, NotedInStep
<1> QED BY <1>2, <1>4 DEF Watching

LEMMA TokenWatched ==
    ASSUME MaxSpaces \in Nat, IsCatalog(schema), SpelledAsStrings(schema),
           NEW s, Kept(s), s.stage = Args, NEW w, Watching(w, s),
           NEW token \in Seq(Chars), NEW next \in Advance(s, token), next.stage = Args
    PROVE  Watching(Recorded(w, token, token), next)
<1> DEFINE N == Len(token)
<1>1. N \in Nat /\ 0 \in Nat /\ 0 + N = N
  OBVIOUS
<1>2. PICK f : Reaching(s, token, f, N) /\ Advance(s, token) = f[N]
  BY AdvanceIs
<1>3. PICK read, inside : /\ Reading(w, token, read, N)
                          /\ Writes(Recorded(w, token, token), token, read[N], inside)
  BY RecordedIs
<1>4. \A k \in 1..N : token[k] \in Chars
  OBVIOUS
<1> HIDE DEF N
<1>5. \A x \in f[0] : Together(w, w, x)
  <2>1. f[0] = {s}
    BY <1>1, <1>2, ReachFirst, Zenon
  <2>2. Together(w, w, s)
    BY Reasons DEF Together, Watching, InStepWith, SameTokens
  <2> QED BY <2>1, <2>2
<1>6. \A k \in 1..N : token[k] = token[0 + k]
  BY <1>1
<1>7. Beside(s, token, N, f, 0, N, w, token, read)
  BY <1>1, <1>2, <1>3, <1>4, <1>5, <1>6, Zenon DEF Beside
<1>8. \A x \in f[N] : Together(read[N], w, x)
  BY <1>7, BesideOn
<1>9. Together(read[N], w, next)
  BY <1>2, <1>8
<1> QED BY <1>3, <1>9, RecordedWatches DEF Watching

\* A character that opens no call is the only way the prose goes on.
LEMMA OneProse ==
    ASSUME NEW x, IsSession(x), x.stage = Prefix, NEW c, c = "(" => Called(x.queue) = {},
           NEW y \in Swallow(x, c)
    PROVE  y = [x EXCEPT !.queue = Trimmed(Append(x.queue, c))] /\ y.stage = Prefix /\ IsSession(y)
<1> DEFINE queue == Trimmed(Append(x.queue, c))
           z == [x EXCEPT !.queue = queue]
<1>1. Swallow(x, c) = SwallowPrefix(x, c)
  BY Reasons DEF Swallow
<1>2. (IF c = "(" THEN Called(x.queue) ELSE {}) = {}
  OBVIOUS
<1>3. SwallowPrefix(x, c) = {z}
  BY <1>2, Zenon DEF SwallowPrefix
<1>4. y = z
  BY <1>1, <1>3
<1> HIDE DEF queue
<1>5. z.stage = Prefix
  BY DEF IsSession
<1>6. IsSession(y)
  BY SwallowKeeps
<1> QED BY <1>4, <1>5, <1>6 DEF queue

\* The prose of every session a token leads to.
LEMMA AllProse ==
    ASSUME Names, NEW s, IsSession(s), s.stage = Prefix, s.queue \in Seq(Chars),
           NEW token \in Seq(Chars), NEW N \in Nat, NEW f, Reaching(s, token, f, N),
           NEW m \in Nat, m <= N, m <= Len(token), Quiet(s.queue, token, m)
    PROVE  \A r \in f[m] : IsSession(r) /\ r.stage = Prefix /\ SameEnd(r.queue, ProseTo(s.queue, token, m))
<1> DEFINE S == {n \in Nat : n <= m => \A r \in f[n] : /\ IsSession(r) /\ r.stage = Prefix
                                                       /\ SameEnd(r.queue, ProseTo(s.queue, token, n))}
<1>1. 0 \in S
  <2>1. f[0] = {s}
    BY ReachFirst, Zenon
  <2>2. SameEnd(s.queue, ProseTo(s.queue, token, 0))
    BY ProseFirst DEF SameEnd
  <2> QED BY <2>1, <2>2
<1>2. ASSUME NEW n \in S PROVE n + 1 \in S
  <2> SUFFICES ASSUME n + 1 <= m, NEW y \in f[n + 1]
               PROVE  /\ IsSession(y) /\ y.stage = Prefix
                      /\ SameEnd(y.queue, ProseTo(s.queue, token, n + 1))
    OBVIOUS
  <2>1. /\ n \in Nat /\ n <= m /\ n + 1 \in 1..m /\ n + 1 <= N /\ (n + 1) - 1 = n /\ n + 1 <= Len(token)
        /\ n + 1 \in 1..Len(token)
    OBVIOUS
  <2> DEFINE c == token[n + 1]
             p == ProseTo(s.queue, token, n)
  <2>2. PICK x \in f[n] : y \in Swallow(x, c)
    BY <2>1, ReachBack
  <2>3. IsSession(x) /\ x.stage = Prefix /\ SameEnd(x.queue, p)
    BY <2>1, <2>2
  <2>4. c \in Chars
    BY <2>1
  <2>5. c = "(" => Called(p) = {}
    BY <2>1 DEF Quiet
  <2>6. ProseTo(s.queue, token, n + 1) = Append(p, c)
    BY <2>1, ProseOn
  <2> HIDE DEF p, c
  <2>7. c = "(" => Called(x.queue) = {}
    BY <2>3, <2>5, SameCalls
  <2>8. PICK z \in Swallow(x, c) : IsSession(z) /\ z.stage = Prefix /\ SameEnd(z.queue, Append(p, c))
    BY <2>3, <2>4, <2>5, SwallowProse
  <2>9. y = z
    <3>1. /\ y = [x EXCEPT !.queue = Trimmed(Append(x.queue, c))]
          /\ z = [x EXCEPT !.queue = Trimmed(Append(x.queue, c))]
      BY <2>2, <2>3, <2>7, <2>8, OneProse
    <3> QED BY <3>1
  <2> QED BY <2>6, <2>8, <2>9
<1> HIDE DEF S
<1>3. S = Nat
  <2>1. S \in SUBSET Nat
    BY DEF S
  <2> QED BY <1>1, <1>2, <2>1, ByInduction
<1>4. m \in S /\ m <= m
  BY <1>3
<1> QED BY <1>4 DEF S

LEMMA AllToolless ==
    ASSUME NEW s, IsSession(s), s.stage = Prefix, Tools = {},
           NEW token, NEW N \in Nat, NEW f, Reaching(s, token, f, N)
    PROVE  \A x \in f[N] : x.stage = Prefix
<1> DEFINE S == {n \in Nat : n <= N => \A x \in f[n] : IsSession(x) /\ x.stage = Prefix}
<1>1. 0 \in S
  <2>1. f[0] = {s}
    BY ReachFirst, Zenon
  <2> QED BY <2>1
<1>2. ASSUME NEW n \in S PROVE n + 1 \in S
  <2> SUFFICES ASSUME n + 1 <= N, NEW y \in f[n + 1] PROVE IsSession(y) /\ y.stage = Prefix
    OBVIOUS
  <2>1. n \in Nat /\ n <= N
    OBVIOUS
  <2>2. PICK x \in f[n] : y \in Swallow(x, token[n + 1])
    BY <2>1, ReachBack
  <2>3. IsSession(x) /\ x.stage = Prefix
    BY <2>1, <2>2
  <2>4. Called(x.queue) = {}
    BY DEF Called
  <2> QED BY <2>2, <2>3, <2>4, OneProse
<1> HIDE DEF S
<1>3. S = Nat
  <2>1. S \in SUBSET Nat
    BY DEF S
  <2> QED BY <1>1, <1>2, <2>1, ByInduction
<1>4. N \in S /\ N <= N
  BY <1>3
<1> QED BY <1>4 DEF S

\* The `(` of a call opens the arguments of one of the tools.
LEMMA AllOpen ==
    ASSUME MaxSpaces \in Nat, IsCatalog(schema), NEW x, Kept(x), x.stage = Prefix, Called(x.queue) # {},
           NEW c \in Chars, c = "(", NEW y \in Swallow(x, c)
    PROVE  Together(Fresh, Fresh, y)
<1>1. IsSession(x)
  BY DEF Kept
<1>2. Swallow(x, c) = SwallowPrefix(x, c)
  BY Reasons DEF Swallow
<1>3. PICK t \in Called(x.queue) :
         y = [x EXCEPT !.stage = Args, !.state = StartAt(t.root), !.fresh = TRUE, !.tool = t]
  BY <1>2 DEF SwallowPrefix
<1> DEFINE start == StartAt(t.root)
<1>4. y = [x EXCEPT !.stage = Args, !.state = start, !.fresh = TRUE, !.tool = t]
  BY <1>3
<1>5. InStep(Fresh, start)
  BY FreshInStep
<1> HIDE DEF start
<1>6. y.stage = Args /\ y.state = start
  BY <1>1, <1>4 DEF IsSession
<1>7. InStepWith(Fresh, Fresh, y.state)
  BY <1>5, <1>6 DEF InStepWith, SameTokens
<1>8. Kept(y)
  BY SwallowStays
<1> QED BY <1>6, <1>7, <1>8, Reasons DEF Together

\* The token that opens a call, and what the lexer reads of it.
LEMMA FirstWatched ==
    ASSUME MaxSpaces \in Nat, IsCatalog(schema), SpelledAsStrings(schema),
           NEW s, Kept(s), s.stage = Prefix,
           NEW token \in Seq(Chars), OpensOnce(schema, token),
           NEW next \in Advance(s, token), next.stage = Args
    PROVE  Watching(Recorded(Fresh, token, ArgumentsPart(token)), next)
<1> DEFINE N == Len(token)
           q == s.queue
<1>1. N \in Nat /\ N <= N
  OBVIOUS
<1>2. PICK f : Reaching(s, token, f, N) /\ Advance(s, token) = f[N]
  BY AdvanceIs
<1>3. IsSession(s) /\ next.stage # Prefix /\ next \in f[N]
  BY <1>2, Reasons DEF Kept
<1>4. Tools # {}
  <2> SUFFICES ASSUME Tools = {} PROVE FALSE
    OBVIOUS
  <2> HIDE DEF N
  <2>1. next.stage = Prefix
    BY <1>1, <1>2, <1>3, AllToolless
  <2> QED BY <1>3, <2>1
<1>5. Names /\ q \in Seq(Chars) /\ \A t \in Tools : "(" \notin Range(t.name)
  BY <1>4, NamesHold, Zenon DEF IsCatalog, Tools, Kept
<1>6. ~ Quiet(q, token, Len(token))
  <2> SUFFICES ASSUME Quiet(q, token, Len(token)) PROVE FALSE
    OBVIOUS
  <2>1. Quiet(s.queue, token, N) /\ N <= Len(token)
    BY <1>1
  <2> HIDE DEF N
  <2>2. next.stage = Prefix
    BY <1>1, <1>2, <1>3, <1>5, <2>1, AllProse
  <2> QED BY <1>3, <2>2
<1>7. "(" \in Range(token)
  <2> SUFFICES ASSUME "(" \notin Range(token) PROVE FALSE
    OBVIOUS
  <2>1. \A j \in 1..Len(token) : token[j] # "("
    BY DEF Range
  <2> QED BY <1>6, <2>1 DEF Quiet
<1> DEFINE p == FirstParen(token)
           n == p - 1
           M == N - p
           rest == Suffix(token, p + 1)
<1>8. p \in 1..Len(token) /\ token[p] = "("
  BY <1>7, FirstParenIs
<1>9. Quiet(q, token, n) /\ Called(ProseTo(q, token, n)) # {}
  BY <1>5, <1>6, <1>7, QuietFirst
<1>10. /\ n \in Nat /\ n <= N /\ n <= Len(token) /\ n + 1 = p /\ n + 1 <= N
       /\ p \in Nat /\ M \in Nat /\ p + M = N
  <2>1. N \in Nat /\ N = Len(token) /\ p \in 1..N
    BY <1>8
  <2> HIDE DEF p, N
  <2> QED BY <2>1
<1>11. Len(rest) = M /\ \A k \in 1..M : rest[k] = token[p + k]
  <2> DEFINE from == p + 1
  <2>1. from \in 1..Len(token) + 1
    BY <1>8
  <2> HIDE DEF from, p
  <2>2. /\ Suffix(token, from) \in Seq(Chars) /\ Len(Suffix(token, from)) = Len(token) - from + 1
        /\ \A k \in 1..Len(token) - from + 1 : Suffix(token, from)[k] = token[from + k - 1]
    BY <2>1, SuffixIs
  <2>3. Len(token) - from + 1 = M /\ \A k \in 1..M : from + k - 1 = p + k
    BY <1>8 DEF from
  <2> QED BY <2>2, <2>3 DEF from
<1>12. ArgumentsPart(token) = rest
  BY <1>7 DEF ArgumentsPart
<1>13. \A k \in 1..N : token[k] \in Chars
  OBVIOUS
<1> HIDE DEF p, n, M, N, rest
<1>14. \A x \in f[p] : Together(Fresh, Fresh, x)
  <2> SUFFICES ASSUME NEW y \in f[n + 1] PROVE Together(Fresh, Fresh, y)
    BY <1>10
  <2>1. PICK x \in f[n] : y \in Swallow(x, token[n + 1])
    BY <1>1, <1>2, <1>10, ReachBack
  <2>2. IsSession(x) /\ x.stage = Prefix /\ SameEnd(x.queue, ProseTo(q, token, n))
    BY <1>1, <1>2, <1>3, <1>5, <1>9, <1>10, <2>1, AllProse
  <2>3. Called(x.queue) # {}
    BY <1>5, <1>9, <2>2, SameCalls
  <2>4. Kept(x)
    BY <2>2, Reasons DEF Kept, SameEnd
  <2>5. token[n + 1] = "(" /\ token[n + 1] \in Chars
    BY <1>8, <1>10
  <2> QED BY <2>1, <2>2, <2>3, <2>4, <2>5, AllOpen
<1>15. PICK read, inside : /\ Reading(Fresh, rest, read, M)
                           /\ Writes(Recorded(Fresh, token, rest), token, read[M], inside)
  <2>1. Len(rest) \in Nat /\ Len(rest) = M
    BY <1>10, <1>11
  <2> QED BY <2>1, RecordedIs
<1>16. Beside(s, token, N, f, p, M, Fresh, rest, read)
  BY <1>1, <1>2, <1>10, <1>11, <1>13, <1>14, <1>15, Zenon DEF Beside
<1>17. \A x \in f[N] : Together(read[M], Fresh, x)
  BY <1>16, BesideOn
<1>18. Together(read[M], Fresh, next)
  BY <1>3, <1>17
<1>19. Fresh.tokens \in Seq(Seq(Chars))
  BY DEF Fresh
<1> QED BY <1>12, <1>15, <1>18, <1>19, RecordedWatches

-----------------------------------------------------------------------------
(* The lexer agrees *)

LEMMA MarksAre ==
    ASSUME NEW s \in [stack : Seq(Frames), run : Nat], Below(s.stack), NEW cs, cs \in Seq(Marks), Marked(cs, s)
    PROVE  /\ Len(cs) \in 0..Len(s.stack)
           /\ \A i \in 1..Len(cs) : cs[i] = Mark(s.stack[i]) /\ Holds(s.stack[i])
           /\ \A i \in 1..Len(s.stack) : Len(cs) < i => ~ Holds(s.stack[i])
<1> DEFINE stack == s.stack
           n == Len(stack)
           m == Len(cs)
<1>1. stack \in Seq(Frames) /\ n \in Nat /\ m \in Nat
  BY LenProperties
<1>2. \A i \in 1..n : i < n => Holds(stack[i])
  <2>1. DOMAIN stack = 1..n
    BY <1>1
  <2> QED BY <2>1 DEF Below
<1>3. CASE IsDone(s)
  <2>1. Matches(cs, stack)
    BY <1>3 DEF Marked, Inner
  <2>2. stack = <<>> /\ n = 0
    BY <1>3 DEF IsDone
  <2> HIDE DEF stack
  <2>3. m = 0
    BY <2>1, <2>2 DEF Matches
  <2> QED BY <2>2, <2>3 DEF stack
<1>4. CASE ~ IsDone(s) /\ Holds(Top(s))
  <2>1. Matches(cs, stack)
    BY <1>4 DEF Marked, Inner
  <2>2. stack # <<>>
    BY <1>4 DEF IsDone
  <2>3. Top(s) = stack[n] /\ n \in Nat \ {0}
    BY <1>1, <2>2, StackIs DEF Top
  <2> HIDE DEF n
  <2>4. m = n /\ \A i \in 1..n : cs[i] = Mark(stack[i])
    BY <2>1 DEF Matches, n
  <2>5. \A i \in 1..n : Holds(stack[i])
    <3>1. \A i \in 1..n : i < n \/ i = n
      BY <2>3
    <3> QED BY <1>2, <1>4, <2>3, <3>1
  <2>6. \A i \in 1..n : ~ (m < i)
    BY <1>1, <2>4
  <2> QED BY <1>1, <2>4, <2>5, <2>6 DEF n
<1>5. CASE ~ IsDone(s) /\ ~ Holds(Top(s))
  <2> DEFINE front == Front(stack)
  <2>1. Matches(cs, front)
    BY <1>5 DEF Marked, Inner
  <2>2. stack # <<>>
    BY <1>5 DEF IsDone
  <2>3. /\ Top(s) = stack[n] /\ n \in Nat \ {0} /\ Len(front) = n - 1
        /\ \A i \in 1..n - 1 : front[i] = stack[i]
    BY <1>1, <2>2, StackIs DEF Top
  <2> HIDE DEF n, front
  <2>4. m = n - 1 /\ \A i \in 1..n - 1 : cs[i] = Mark(stack[i])
    BY <2>1, <2>3 DEF Matches
  <2>5. \A i \in 1..n - 1 : Holds(stack[i])
    <3>1. \A i \in 1..n - 1 : i \in 1..n /\ i < n
      BY <2>3
    <3> QED BY <1>2, <3>1
  <2>6. \A i \in 1..n : m < i => ~ Holds(stack[i])
    <3>1. \A i \in 1..n : m < i => i = n
      BY <2>3, <2>4
    <3> QED BY <1>5, <2>3, <3>1
  <2>7. m \in 0..n
    BY <2>3, <2>4
  <2> QED BY <2>4, <2>5, <2>6, <2>7 DEF n
<1> QED BY <1>3, <1>4, <1>5

LEMMA ArraysAreMarked ==
    ASSUME NEW s \in [stack : Seq(Frames), run : Nat], Below(s.stack), NEW cs, cs \in Seq(Marks), Marked(cs, s)
    PROVE  "[" \in Range(cs) <=> \E i \in DOMAIN s.stack : s.stack[i].kind = "array"
<1> DEFINE stack == s.stack
           n == Len(stack)
           m == Len(cs)
<1>1. /\ m \in 0..n
      /\ \A i \in 1..m : cs[i] = Mark(stack[i]) /\ Holds(stack[i])
      /\ \A i \in 1..n : m < i => ~ Holds(stack[i])
  BY MarksAre
<1>2. stack \in Seq(Frames) /\ n \in Nat /\ m \in Nat /\ DOMAIN stack = 1..n /\ DOMAIN cs = 1..m
  BY LenProperties
<1>3. ASSUME "[" \in Range(cs) PROVE \E i \in 1..n : stack[i].kind = "array"
  <2>1. PICK i \in 1..m : cs[i] = "["
    BY <1>2, <1>3 DEF Range
  <2>2. Mark(stack[i]) = "[" /\ Holds(stack[i])
    BY <1>1, <2>1
  <2>3. stack[i].kind = "array"
    BY <2>2 DEF Mark, Holds
  <2>4. i \in 1..n
    BY <1>1, <1>2
  <2> QED BY <2>3, <2>4
<1>4. ASSUME NEW i \in 1..n, stack[i].kind = "array" PROVE "[" \in Range(cs)
  <2>1. Holds(stack[i]) /\ Mark(stack[i]) = "["
    BY <1>4 DEF Holds, Mark
  <2>2. ~ (m < i)
    BY <1>1, <2>1
  <2>3. i \in 1..m
    BY <1>2, <2>2
  <2>4. cs[i] = "["
    BY <1>1, <2>1, <2>3
  <2> QED BY <1>2, <2>3, <2>4 DEF Range
<1> QED BY <1>2, <1>3, <1>4

\* In a string that is no key.
Content(w) == w.inString /\ ~w.inKey

LEMMA ContentIs ==
    ASSUME NEW w
    PROVE  /\ \A key : Outside(w, key) => ~ Content(w)
           /\ \A escaped : Inside(w, On, escaped) => ~ Content(w)
           /\ \A escaped : Inside(w, Off, escaped) => Content(w)
BY DEF Outside, Inside, Content, On, Off

LEMMA ContentAgrees ==
    ASSUME NEW s, Good(s, s.run), NEW w, LexedAt(w, s)
    PROVE  Content(w) <=> ~ IsDone(s) /\ Top(s).kind \in {"text", "choice"}
<1>1. CASE IsDone(s)
  <2>1. Outside(w, Off)
    BY <1>1 DEF LexedAt
  <2> QED BY <1>1, <2>1, ContentIs
<1>2. CASE ~ IsDone(s)
  <2> DEFINE f == Top(s)
  <2>1. Lexed(w, f)
    BY <1>2 DEF LexedAt
  <2>2. Unread(f, s.run)
    BY <1>2 DEF Good
  <2>3. f \in Frames
    <3>1. s.stack \in Seq(Frames) /\ s.stack # << >>
      BY <1>2 DEF IsDone, Good
    <3> QED BY <3>1, StackIs DEF Top
  <2> HIDE DEF f
  <2>4. f.kind \in {"value", "object", "array", "text", "choice", "literal", "number"}
    BY <2>3, KindIs
  <2>5. CASE f.kind \in {"value", "literal", "number", "array"}
    <3>1. Outside(w, Off)
      BY <2>1, <2>5 DEF Lexed
    <3>2. f.kind \notin {"text", "choice"}
      BY <2>5
    <3> QED BY <1>2, <3>1, <3>2, ContentIs DEF f
  <2>6. CASE f.kind = "object"
    <3>1. f.stage \in {"KeyOrClose", "InKey", "AfterKey", "AfterColon", "InValue", "AfterValue", "AfterComma"}
      BY <2>3, <2>6, KindIs DEF ObjectFrames
    <3>2. f.stage # "InValue"
      BY <2>2, <2>6 DEF Unread
    <3>3. ~ Content(w)
      <4>1. CASE f.stage \in {"KeyOrClose", "AfterComma"}
        <5>1. Outside(w, On)
          BY <2>1, <2>6, <4>1 DEF Lexed
        <5> QED BY <5>1, ContentIs
      <4>2. CASE f.stage \in {"AfterKey", "AfterColon", "AfterValue"}
        <5>1. Outside(w, Off)
          BY <2>1, <2>6, <4>2 DEF Lexed
        <5> QED BY <5>1, ContentIs
      <4>3. CASE f.stage = "InKey"
        <5>1. Spelling(w, On, KeyWords(f), f.progress)
          BY <2>1, <2>6, <4>3 DEF Lexed
        <5>2. \E escaped : Inside(w, On, escaped)
          BY <5>1, Zenon DEF Spelling
        <5> QED BY <5>2, ContentIs
      <4> QED BY <3>1, <3>2, <4>1, <4>2, <4>3
    <3> QED BY <1>2, <2>6, <3>3 DEF f
  <2>7. CASE f.kind = "text"
    <3>1. Inside(w, Off, On) \/ Inside(w, Off, Off)
      BY <2>1, <2>7 DEF Lexed
    <3>2. Content(w)
      BY <3>1, ContentIs
    <3> QED BY <1>2, <2>7, <3>2 DEF f
  <2>8. CASE f.kind = "choice"
    <3>1. Spelling(w, Off, f.candidates, f.progress)
      BY <2>1, <2>8 DEF Lexed
    <3>2. \E escaped : Inside(w, Off, escaped)
      BY <3>1, Zenon DEF Spelling
    <3>3. Content(w)
      BY <3>2, ContentIs
    <3> QED BY <1>2, <2>8, <3>3 DEF f
  <2> QED BY <2>4, <2>5, <2>6, <2>7, <2>8
<1> QED BY <1>1, <1>2

LEMMA InStepAgrees ==
    ASSUME NEW s, Good(s, s.run), NEW w, InStep(w, s)
    PROVE  InsideValue(w) <=>
              \E i \in DOMAIN s.stack :
                  LET f == s.stack[i] IN
                  f.kind = "array" \/ (f.kind \in {"text", "choice"} /\ i = Len(s.stack))
<1> DEFINE stack == s.stack
           n == Len(stack)
           Arrays == \E i \in 1..n : stack[i].kind = "array"
           Strings == \E i \in 1..n : stack[i].kind \in {"text", "choice"} /\ i = n
           Listed == "[" \in Range(w.containers)
<1>1. s \in [stack : Seq(Frames), run : Nat] /\ stack \in Seq(Frames) /\ Below(s.stack)
  BY DEF Good
<1>2. n \in Nat /\ DOMAIN stack = 1..n
  BY <1>1, LenProperties
<1>3. w.containers \in Seq(Marks) /\ Marked(w.containers, s) /\ LexedAt(w, s)
  BY DEF InStep, IsWatch, Marks
<1>4. Listed <=> Arrays
  BY <1>1, <1>2, <1>3, ArraysAreMarked
<1>5. Content(w) <=> Strings
  <2>1. Content(w) <=> ~ IsDone(s) /\ Top(s).kind \in {"text", "choice"}
    BY <1>3, ContentAgrees
  <2>2. CASE IsDone(s)
    <3>1. stack = <<>>
      BY <2>2 DEF IsDone
    <3>2. n = 0
      BY <3>1
    <3>3. ~ Strings
      BY <3>2
    <3> QED BY <2>1, <2>2, <3>3
  <2>3. CASE ~ IsDone(s)
    <3>1. stack # <<>>
      BY <2>3 DEF IsDone
    <3>2. Top(s) = stack[n] /\ n \in Nat \ {0}
      BY <1>1, <3>1, StackIs DEF Top
    <3> HIDE DEF n, stack
    <3>4. n \in 1..n
      BY <3>2
    <3>3. Strings <=> stack[n].kind \in {"text", "choice"}
      BY <3>4
    <3> HIDE DEF Strings
    <3> QED BY <2>1, <2>3, <3>2, <3>3
  <2> QED BY <2>2, <2>3
<1>6. InsideValue(w) <=> Content(w) \/ Listed
  BY Zenon DEF InsideValue, Content
<1> HIDE DEF Listed, stack, n
<1>7. Arrays \/ Strings <=>
         \E i \in 1..n : stack[i].kind = "array" \/ (stack[i].kind \in {"text", "choice"} /\ i = n)
  BY Zenon
<1> HIDE DEF Arrays, Strings
<1>8. InsideValue(w) <=> Arrays \/ Strings
  BY <1>4, <1>5, <1>6
<1> QED BY <1>2, <1>7, <1>8 DEF n, stack

\* In prose the lexer has read nothing; in a call it is where the session is.
LexInv ==
    /\ schema \in Setups
    /\ Kept(session)
    /\ stop = Running => /\ session.stage # Ended
                         /\ session.stage = Prefix => watch = Fresh
                         /\ session.stage = Args => Watching(watch, session)

LEMMA LexInit ==
    ASSUME \A c \in Setups : IsCatalog(c), Init
    PROVE  LexInv
<1>1. Kept(session) /\ schema \in Setups
  BY OpenInit DEF OpenInv
<1>2. session = Opened /\ watch = Fresh
  BY DEF Init
<1>3. session.stage = Prefix
  BY <1>2 DEF Opened
<1> QED BY <1>1, <1>2, <1>3, Reasons, Zenon DEF LexInv

LEMMA WatchingStays ==
    ASSUME schema' = schema
    PROVE  \A w, s : Watching(w, s)' = Watching(w, s)
<1>1. \A n : Node(n)' = Node(n)
  BY DEF Node
<1>2. \A f : Fields(f)' = Fields(f)
  BY <1>1 DEF Fields
<1>3. \A f : KeyWords(f)' = KeyWords(f)
  BY <1>2 DEF KeyWords
<1>4. \A w, f : Lexed(w, f)' = Lexed(w, f)
  BY <1>3 DEF Lexed
<1>5. \A w, s : LexedAt(w, s)' = LexedAt(w, s)
  BY <1>4 DEF LexedAt
<1>6. \A w, s : InStep(w, s)' = InStep(w, s)
  BY <1>5 DEF InStep
<1> QED BY <1>6 DEF Watching

LEMMA LexNext ==
    ASSUME MaxSpaces \in Nat,
           \A c \in Setups : IsCatalog(c) /\ TokensFit(c) /\ SpelledAsStrings(c),
           LexInv, [Next]_vars
    PROVE  LexInv'
<1>1. schema' = schema
  <2>1. CASE Step
    <3>1. ASSUME NEW t, NEW next, Taken(t, next) PROVE schema' = schema
      BY <3>1 DEF Taken
    <3>2. \/ \E reason : Ends(reason)
          \/ \E t, next : Taken(t, next)
      BY <2>1, Zenon DEF Step
    <3> QED BY <3>1, <3>2 DEF Ends
  <2>2. CASE Cancel \/ Cut \/ UNCHANGED vars
    BY <2>2 DEF Cancel, Cut, Ends, vars
  <2> QED BY <2>1, <2>2 DEF Next
<1>2. /\ schema \in Setups /\ IsCatalog(schema) /\ SpelledAsStrings(schema) /\ TokensFit(schema)
      /\ Kept(session)
  BY DEF LexInv
<1>3. stop = Running => /\ session.stage # Ended
                        /\ session.stage = Prefix => watch = Fresh
                        /\ session.stage = Args => Watching(watch, session)
  BY DEF LexInv
<1>4. ASSUME Kept(session'),
             stop' = Running => /\ session'.stage # Ended
                                /\ session'.stage = Prefix => watch' = Fresh
                                /\ session'.stage = Args => Watching(watch', session')
      PROVE  LexInv'
  <2>1. Kept(session)'
    <3>1. \A s : Kept(s)' = Kept(s)
      BY <1>1, KeptStays
    <3> QED BY <1>4, <3>1
  <2>2. Watching(watch', session') => Watching(watch, session)'
    <3>1. \A w, s : Watching(w, s)' = Watching(w, s)
      BY <1>1, WatchingStays
    <3> QED BY <3>1
  <2>3. Fresh' = Fresh /\ Running' = Running
    BY DEF Fresh, Running
  <2> QED BY <1>1, <1>2, <1>4, <2>1, <2>2, <2>3 DEF LexInv
<1>5. CASE UNCHANGED vars
  BY <1>2, <1>3, <1>4, <1>5 DEF vars
<1>6. CASE Cancel
  BY <1>2, <1>3, <1>4, <1>6 DEF Cancel
<1>7. ASSUME NEW reason, Ends(reason), reason # Running PROVE LexInv'
  BY <1>2, <1>4, <1>7 DEF Ends
<1>8. CASE Cut
  <2>1. Ends("Length") \/ Ends("Cancelled")
    BY <1>8 DEF Cut
  <2> QED BY <1>7, <2>1, Reasons
<1>9. CASE Step
  <2>1. \/ Ends("Forbidden")
        \/ Ends("Token")
        \/ Ends("Rejected")
        \/ \E t \in schema.vocab : \E next \in Advance(session, t) : Taken(t, next)
    BY <1>9, Zenon DEF Step
  <2>2. stop = Running
    BY <1>9 DEF Step, Generating
  <2>3. CASE Ends("Forbidden") \/ Ends("Token") \/ Ends("Rejected")
    BY <1>7, <2>3, Reasons
  <2>4. ASSUME NEW t \in schema.vocab, NEW next \in Advance(session, t), Taken(t, next) PROVE LexInv'
    <3>1. t \in Seq(Chars) /\ OpensOnce(schema, t) /\ Len(t) \in Nat
      <4>1. t \in Seq(STRING)
        BY <1>2 DEF IsCatalog
      <4>2. OpensOnce(schema, t)
        BY <1>2, Zenon DEF TokensFit
      <4> QED BY <4>1, <4>2 DEF Chars
    <3>2. Kept(next) /\ (session.stage # Prefix => next.stage # Prefix)
      <4>1. Kept(next)
        BY <1>2, <3>1, AdvanceStays
      <4>2. IsSession(session)
        BY <1>2 DEF Kept
      <4> QED BY <3>1, <4>1, <4>2, AdvanceKeeps
    <3>3. session' = next
      BY <2>4 DEF Taken
    <3> DEFINE over == OverBudget(ArmedBy(next, Len(Append(produced, t))), Len(Append(produced, t)))
    <3>4. stop' = Running => ~ over /\ ~ SessionDone(next)
      <4>1. /\ over => Dropped(Append(produced, t))
            /\ Dropped(Append(produced, t)) \/ CutLoop(Append(produced, t)) \/ Shown(next, Append(produced, t))
        BY <2>4, Zenon DEF Taken
      <4>2. /\ Dropped(Append(produced, t)) => stop' = "CallTooLong"
            /\ CutLoop(Append(produced, t)) => stop' = "Loop"
            /\ Shown(next, Append(produced, t)) /\ SessionDone(next) => stop' = "ConstraintDone"
        BY Zenon DEF Dropped, CutLoop, Shown
      <4> HIDE DEF over
      <4> QED BY <4>1, <4>2, Reasons, Zenon
    <3>5. watch' = IF IsStructural(next) /\ ~ over THEN Watched(t) ELSE watch
      BY <2>4, Zenon DEF Taken
    <3> HIDE DEF over
    <3>6. ASSUME stop' = Running
          PROVE  /\ next.stage # Ended
                 /\ next.stage = Prefix => watch' = Fresh
                 /\ next.stage = Args => Watching(watch', next)
      <4>1. next.stage # Ended
        BY <3>4, <3>6 DEF SessionDone
      <4>2. CASE next.stage = Prefix
        <5>1. watch' = watch
          BY <3>5, <4>2, Reasons DEF IsStructural
        <5>2. session.stage = Prefix
          BY <3>2, <4>2
        <5>3. watch = Fresh
          BY <1>3, <2>2, <5>2
        <5> QED BY <4>2, <5>1, <5>3, Reasons
      <4>3. CASE next.stage = Args
        <5>1. watch' = Watched(t)
          BY <3>4, <3>5, <3>6, <4>3 DEF IsStructural
        <5>2. CASE session.stage = Prefix
          <6>1. watch = Fresh
            BY <1>3, <2>2, <5>2
          <6>2. Fresh.tokens = <<>>
            BY DEF Fresh
          <6>3. Watched(t) = Recorded(Fresh, t, ArgumentsPart(t))
            BY <6>1, <6>2, Zenon DEF Watched
          <6>4. Watching(Recorded(Fresh, t, ArgumentsPart(t)), next)
            BY <1>2, <3>1, <4>3, <5>2, FirstWatched
          <6> QED BY <4>3, <5>1, <6>3, <6>4, Reasons
        <5>3. CASE session.stage = Args
          <6>1. Watching(watch, session)
            BY <1>3, <2>2, <5>3
          <6>2. watch.tokens # <<>>
            BY <6>1 DEF Watching
          <6>3. Watched(t) = Recorded(watch, t, t)
            BY <6>2, Zenon DEF Watched
          <6>4. Watching(Recorded(watch, t, t), next)
            BY <1>2, <3>1, <4>3, <5>3, <6>1, TokenWatched
          <6> QED BY <4>3, <5>1, <6>3, <6>4, Reasons
        <5>4. session.stage \in {Prefix, Args, Ended} /\ session.stage # Ended
          BY <1>2, <1>3, <2>2 DEF Kept, IsSession
        <5> QED BY <5>2, <5>3, <5>4
      <4>4. next.stage \in {Prefix, Args, Ended}
        BY <3>2 DEF Kept, IsSession
      <4> QED BY <4>1, <4>2, <4>3, <4>4
    <3> QED BY <1>4, <3>2, <3>3, <3>6
  <2> QED BY <2>1, <2>3, <2>4
<1> QED BY <1>5, <1>6, <1>8, <1>9 DEF Next

LEMMA LexAgrees ==
    ASSUME LexInv
    PROVE  LexerAgrees
<1> SUFFICES ASSUME session.stage = Args, stop = Running
             PROVE  InsideValue(watch) <=>
                       \E i \in DOMAIN session.state.stack :
                           LET f == session.state.stack[i] IN
                           f.kind = "array" \/ (f.kind \in {"text", "choice"} /\ i = Len(session.state.stack))
  BY Zenon DEF LexerAgrees
<1>1. Watching(watch, session) /\ Kept(session)
  BY DEF LexInv
<1>2. InStep(watch, session.state) /\ Good(session.state, session.state.run)
  BY <1>1 DEF Watching, Kept
<1> QED BY <1>2, InStepAgrees

\* The lexer by which the repetition guard tells content from a call's shape
\* (CallWatch::read, with its own escapes, keys and containers, begun in the
\* middle of the token that opens the call) is inside a value exactly when the
\* grammar's automaton is in a text, a choice or an array, at every token of
\* every call, whatever the tools, their schemas and the vocabulary.
THEOREM LexerAgreesHolds ==
    ASSUME MaxSpaces \in Nat,
           \A c \in Setups : IsCatalog(c) /\ TokensFit(c) /\ SpelledAsStrings(c)
    PROVE  Spec => []LexerAgrees
<1>1. Init => LexInv
  BY LexInit
<1>2. LexInv /\ [Next]_vars => LexInv'
  BY LexNext
<1>3. LexInv => LexerAgrees
  BY LexAgrees
<1> QED BY <1>1, <1>2, <1>3, PTL DEF Spec

=============================================================================
