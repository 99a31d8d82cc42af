----------------------------- MODULE Automaton -----------------------------
(***************************************************************************)
(* The push-down automaton of constrained decoding (tacet-grammar): a      *)
(* schema compiled to nodes, the frames of what is still open, what one    *)
(* character does to them (feed_char), and the set of characters a mask    *)
(* offers (allowed_prefixes), which is a second table over the same        *)
(* frames.  Characters are strings of one character; "ctl" stands for the  *)
(* control characters.  A number is kept as its parts in place of its      *)
(* text, scaled to MaxFraction places, and is exact where the code asks    *)
(* serde_json.                                                             *)
(***************************************************************************)
EXTENDS Integers, Sequences, FiniteSets, SequencesExt, FiniteSetsExt

CONSTANTS
    MaxSpaces,    \* MAX_SPACE_RUN
    TextCeiling,  \* FREE_TEXT_CEILING
    ArrayCeiling, \* ARRAY_CEILING
    Slack,        \* NEUTRAL_SLACK
    MaxFraction,  \* MAX_FRACTION_DIGITS
    MaxExponent,  \* MAX_EXPONENT_DIGITS
    Growth,       \* the further digits range_fits looks ahead (18)
    LargestInt, LowestInt,  \* u64::MAX, i64::MIN
    LargestFloat  \* f64::MAX

VARIABLE schema  \* what may be written: its `nodes` are compiled

Quote == "\""
Digits == {"0", "1", "2", "3", "4", "5", "6", "7", "8", "9"}
HexDigits == Digits \union {"a", "b", "c", "d", "e", "f"}
Worth(c) == (CHOOSE i \in 1..16 :
    <<"0", "1", "2", "3", "4", "5", "6", "7", "8", "9", "a", "b", "c", "d", "e", "f">>[i] = c) - 1
Escapes == {Quote, "\\", "/", "b", "f", "n", "r", "t"}
Literals == {<<"t", "r", "u", "e">>, <<"f", "a", "l", "s", "e">>}

----------------------------------------------------------------------------
(* Compiling: children come before their parents, so what can be filled is *)
(* known from the smaller indices.                                         *)

\* What a node can be.  A bound that is not declared is an empty set.
NodeDecl ==
    [kind : {"object"}, fields : Seq([name : Seq(STRING), key : Seq(STRING), node : Nat, required : BOOLEAN])]
        \union [kind : {"array"}, item : Nat, min : SUBSET Nat, max : SUBSET Nat]
        \union [kind : {"text"}, max : SUBSET Nat]
        \union [kind : {"choice"}, choices : SUBSET Seq(STRING), values : SUBSET Seq(STRING)]
        \union [kind : {"number"}, integer : BOOLEAN, min : SUBSET Int, max : SUBSET Int]
        \union [kind : {"bool"}]

IsSchema(c) ==
    /\ c.nodes \in Seq(NodeDecl)
    /\ \A n \in DOMAIN c.nodes :
          LET d == c.nodes[n] IN
          /\ d.kind = "object" => \A i \in DOMAIN d.fields : d.fields[i].node \in 1..n - 1
          /\ d.kind = "array" => d.item \in 1..n - 1

Fillable(nodes) ==
    LET F[n \in DOMAIN nodes] ==
        LET d == nodes[n] IN
        CASE d.kind = "object" -> \A f \in DOMAIN d.fields : d.fields[f].required => F[d.fields[f].node]
          [] d.kind = "array" -> \A hi \in (IF F[d.item] THEN d.max ELSE {0}), lo \in d.min : lo <= hi
          [] d.kind = "choice" -> d.choices # {}
          [] OTHER -> TRUE
    IN F

\* Variant: a field nobody can fill keeps its key.
CompileAll(nodes) == nodes

Compile(nodes) ==
    LET fillable == Fillable(nodes) IN
    [n \in DOMAIN nodes |->
        LET d == nodes[n] IN
        CASE d.kind = "object" ->
                [d EXCEPT !.fields = [i \in {i \in DOMAIN @ : @[i].required \/ fillable[@[i].node]} |-> @[i]]]
          [] d.kind = "array" -> IF fillable[d.item] THEN d ELSE [d EXCEPT !.max = {0}]
          [] OTHER -> d]

Node(n) == Compile(schema.nodes)[n]

----------------------------------------------------------------------------
(* Frames.                                                                 *)

ValueFrame(n) == [kind |-> "value", node |-> n]
ObjectFrame(n) == [kind |-> "object", node |-> n, seen |-> {}, stage |-> "KeyOrClose",
                   candidates |-> {}, progress |-> 0, active |-> 0]
ArrayFrame(n) == [kind |-> "array", node |-> n, count |-> 0, stage |-> "Start"]
TextFrame(n) == [kind |-> "text", node |-> n, length |-> 0, stage |-> "Body",
                 value |-> 0, left |-> 0, low |-> FALSE]
ChoiceFrame(n) == [kind |-> "choice", node |-> n, candidates |-> Node(n).choices, progress |-> 0]
LiteralFrame == [kind |-> "literal", candidates |-> Literals, progress |-> 0]
NumberFrame(n) == [kind |-> "number", node |-> n, stage |-> "Start", neg |-> FALSE, int |-> 0,
                   frac |-> 0, places |-> 0, eneg |-> FALSE, exp |-> 0, edigits |-> 0]

StartAt(root) == [stack |-> <<ValueFrame(root)>>, run |-> 0]
IsDone(s) == s.stack = <<>>
Top(s) == Last(s.stack)
WithTop(s, f) == [s EXCEPT !.stack = Append(Front(@), f)]
Push(s, f) == [s EXCEPT !.stack = Append(@, f)]

InStringBody(s) == ~IsDone(s) /\ Top(s).kind = "text" /\ Top(s).stage = "Body"
InFreeTextRun(s) ==
    InStringBody(s) /\ Node(Top(s).node).max = {} /\ Top(s).length + Slack < TextCeiling
BreaksFreeText(c) == c \in {Quote, "\\", "ctl"}
IsNeutral(s, c) == InFreeTextRun(s) /\ ~BreaksFreeText(c)

----------------------------------------------------------------------------
(* Numbers.                                                                *)

One == 10^MaxFraction   \* the scale
Magnitude(f) == f.int * One + f.frac * 10^(MaxFraction - f.places)
ValueOf(f) == IF f.neg THEN -Magnitude(f) ELSE Magnitude(f)
CanEnd(stage) == stage \in {"Zero", "IntDigit", "FracDigit", "ExpDigit"}
IsBounded(d) == d.min \union d.max # {}
AtLeast(d, v) == \A m \in d.min : v >= m
AtMost(d, v) == \A m \in d.max : v <= m

\* json_number_value: what the tool layer would read.
Representable(d, f) ==
    IF d.integer THEN (f.neg => f.int # 0) /\ ValueOf(f) \div One \in LowestInt..LargestInt
    ELSE f.eneg \/ Magnitude(f) <= (LargestFloat * One) \div 10^f.exp

NumberTransition(d, f, c) ==
    LET stage == f.stage IN
    CASE stage = "Start" /\ c = "-" /\ (\A m \in d.min : m < 0) ->
            {[f EXCEPT !.stage = "AfterMinus", !.neg = TRUE]}
      [] stage \in {"Start", "AfterMinus"} /\ c = "0" -> {[f EXCEPT !.stage = "Zero"]}
      [] c \in Digits /\ (stage = "IntDigit" \/ (stage \in {"Start", "AfterMinus"} /\ c # "0")) ->
            {[f EXCEPT !.stage = "IntDigit", !.int = 10 * @ + Worth(c)]}
      [] stage \in {"Zero", "IntDigit"} /\ c = "." /\ ~d.integer -> {[f EXCEPT !.stage = "Dot"]}
      [] stage \in {"Zero", "IntDigit", "FracDigit"} /\ c = "e" /\ ~d.integer ->
            {[f EXCEPT !.stage = "Exp"]}
      [] stage \in {"Dot", "FracDigit"} /\ c \in Digits ->
            {[f EXCEPT !.stage = "FracDigit", !.frac = 10 * @ + Worth(c), !.places = @ + 1]}
      [] stage = "Exp" /\ c \in {"+", "-"} -> {[f EXCEPT !.stage = "ExpSign", !.eneg = (c = "-")]}
      [] stage \in {"Exp", "ExpSign", "ExpDigit"} /\ c \in Digits ->
            {[f EXCEPT !.stage = "ExpDigit", !.exp = 10 * @ + Worth(c), !.edigits = @ + 1]}
      [] OTHER -> {}

\* A fraction has started: one decade of the last digit written is in reach.
FractionFits(d, f) ==
    LET v == ValueOf(f)
        reach == IF f.places >= MaxFraction THEN 0 ELSE 10^(MaxFraction - f.places)
    IN IF f.neg THEN AtLeast(d, v) /\ (AtMost(d, v) \/ \A m \in d.max : v - reach < m)
                ELSE AtMost(d, v) /\ (AtLeast(d, v) \/ \A m \in d.min : v + reach > m)

\* The values a growing integer part can still have meet the range.
IntegerFits(d, f) ==
    \E k \in 0..(IF f.stage = "IntDigit" THEN Growth ELSE 0) :
        LET near == f.int * 10^k * One
            far == IF d.integer THEN (f.int * 10^k + 10^k - 1) * One ELSE (f.int + 1) * 10^k * One
            Reaches(a, b) == IF d.integer THEN a >= b ELSE a > b
        IN IF f.neg THEN AtLeast(d, -near) /\ \A m \in d.max : Reaches(m, -far)
                    ELSE AtMost(d, near) /\ \A m \in d.min : Reaches(far, m)

\* Only a sign: an integer needs a negative one in the range.
SignFits(d) == d.integer => AtLeast(d, Min({-One} \union {(m \div One) * One : m \in d.max}))

DigitsFit(f) == f.places <= MaxFraction /\ f.edigits <= MaxExponent

RangeFits(d, f) ==
    IF f.stage = "AfterMinus" THEN SignFits(d)
    ELSE DigitsFit(f) /\ Representable(d, f) /\ (IsBounded(d) =>
            /\ f.stage \notin {"Exp", "ExpSign", "ExpDigit"}
            /\ IF f.stage \in {"Dot", "FracDigit"} THEN FractionFits(d, f) ELSE IntegerFits(d, f))

NumberNext(f, c) ==
    LET d == Node(f.node) IN {n \in NumberTransition(d, f, c) : RangeFits(d, n)}
NumberCloses(f) ==
    LET d == Node(f.node) IN
    /\ CanEnd(f.stage)
    /\ Representable(d, f)
    /\ IsBounded(d) => AtLeast(d, ValueOf(f)) /\ AtMost(d, ValueOf(f))

----------------------------------------------------------------------------
(* One character: feed_char.  The result is the set of states it leads to, *)
(* empty when the character is refused.                                    *)

Counted(s, c) ==
    IF c # " " THEN {[s EXCEPT !.run = 0]}
    ELSE IF InStringBody(s) THEN {s}
    ELSE IF s.run >= MaxSpaces THEN {} ELSE {[s EXCEPT !.run = @ + 1]}

\* A value is complete: its frame goes, and the frame below learns of it.
Closed(s) ==
    LET rest == Front(s.stack) IN
    IF rest = <<>> THEN [s EXCEPT !.stack = rest]
    ELSE [s EXCEPT !.stack = Append(Front(rest),
            IF Last(rest).kind = "object" THEN [Last(rest) EXCEPT !.stage = "AfterValue"]
            ELSE [Last(rest) EXCEPT !.stage = "AfterItem", !.count = @ + 1])]

LiteralNext(s, c) ==
    LET f == Top(s)
        remaining == {l \in f.candidates : l[f.progress + 1] = c}
    IN IF remaining = {} THEN {}
       ELSE IF \E l \in remaining : Len(l) = f.progress + 1 THEN {Closed(s)}
       ELSE {WithTop(s, [f EXCEPT !.candidates = remaining, !.progress = @ + 1])}

\* The first character of a value picks its frame.
OpenValue(s, n, c) ==
    LET kind == Node(n).kind IN
    CASE kind = "object" /\ c = "{" -> {Push(s, ObjectFrame(n))}
      [] kind = "array" /\ c = "[" -> {Push(s, ArrayFrame(n))}
      [] kind = "text" /\ c = Quote -> {Push(s, TextFrame(n))}
      [] kind = "choice" /\ c = Quote -> {Push(s, ChoiceFrame(n))}
      [] kind = "number" -> {Push(s, f) : f \in NumberNext(NumberFrame(n), c)}
      [] kind = "bool" -> LiteralNext(Push(s, LiteralFrame), c)
      [] OTHER -> {}

Fields(f) == Node(f.node).fields
Remaining(f) == (DOMAIN Fields(f)) \ f.seen
RequiredDone(f) == \A i \in Remaining(f) : ~Fields(f)[i].required
\* The characters a spelling goes on with; one that is complete goes on with the quote.
Follows(word, progress) == IF progress < Len(word) THEN word[progress + 1] ELSE Quote

FeedKey(s, c) ==
    LET f == Top(s)
        name(i) == Fields(f)[i].name
        complete == {i \in f.candidates : Len(name(i)) = f.progress}
        remaining == {i \in f.candidates \ complete : name(i)[f.progress + 1] = c}
    IN IF c = Quote /\ complete # {}
       THEN {WithTop(s, [f EXCEPT !.seen = @ \union {i}, !.active = i, !.stage = "AfterKey"]) :
                i \in {Min(complete)}}
       ELSE IF remaining = {} THEN {}
       ELSE {WithTop(s, [f EXCEPT !.candidates = remaining, !.progress = @ + 1])}

FeedObject(s, c) ==
    LET f == Top(s)
        To(stage) == {WithTop(s, [f EXCEPT !.stage = stage])}
    IN IF f.stage # "InKey" /\ c = " " THEN {s} ELSE
       CASE f.stage = "InKey" -> FeedKey(s, c)
         [] f.stage \in {"KeyOrClose", "AfterComma"} /\ c = Quote /\ Remaining(f) # {} ->
                {WithTop(s, [f EXCEPT !.candidates = Remaining(f), !.progress = 0, !.stage = "InKey"])}
         [] f.stage \in {"KeyOrClose", "AfterValue"} /\ c = "}" /\ RequiredDone(f) -> {Closed(s)}
         [] f.stage = "AfterKey" /\ c = ":" -> To("AfterColon")
         [] f.stage = "AfterColon" ->
                OpenValue(WithTop(s, [f EXCEPT !.stage = "InValue"]), Fields(f)[f.active].node, c)
         [] f.stage = "AfterValue" /\ c = "," /\ Remaining(f) # {} -> To("AfterComma")
         [] OTHER -> {}

ArrayFewest(d) == Max({0} \union d.min)
ArrayLimit(d) == IF d.max = {} THEN Max({ArrayCeiling, ArrayFewest(d)}) ELSE Max(d.max)

FeedArray(s, c) ==
    LET f == Top(s)
        d == Node(f.node)
    IN IF c = " " THEN {s} ELSE
       CASE f.stage = "Start" /\ c = "]" /\ ArrayFewest(d) = 0 -> {Closed(s)}
         [] f.stage = "AfterItem" /\ c = "]" /\ f.count >= ArrayFewest(d) -> {Closed(s)}
         [] f.stage = "AfterItem" /\ c = "," /\ f.count < ArrayLimit(d) ->
                {WithTop(s, [f EXCEPT !.stage = "BeforeItem"])}
         [] f.stage = "BeforeItem" \/ (f.stage = "Start" /\ c # "]" /\ ArrayLimit(d) # 0) ->
                OpenValue(WithTop(s, [f EXCEPT !.stage = "InItem"]), d.item, c)
         [] OTHER -> {}

\* Can a \u escape with `left` digits owed still be a code unit legal here?
\* Variant: any four digits do.
AnyHex(value, left, low) == TRUE

HexFits(value, left, low) ==
    LET first == value * 16^left
        last == first + 16^left - 1
    IN IF low THEN last >= 56320 /\ first <= 57343      \* DC00..DFFF
              ELSE first < 56320 \/ last > 57343

IsHigh(value) == value \in 55296..56319                  \* D800..DBFF

BodyLimit(d) == IF d.max = {} THEN TextCeiling ELSE Max(d.max)

FeedText(s, c) ==
    LET f == Top(s)
        d == Node(f.node)
        To(stage) == {WithTop(s, [f EXCEPT !.stage = stage])}
        OneMore == {WithTop(s, [f EXCEPT !.stage = "Body", !.length = @ + 1])}
        Hex(low) == {WithTop(s, [f EXCEPT !.stage = "Hex", !.value = 0, !.left = 4, !.low = low])}
        value == f.value * 16 + Worth(c)
    IN CASE f.stage = "Body" /\ c = Quote -> {Closed(s)}
         [] f.stage = "Body" /\ f.length < BodyLimit(d) /\ c = "\\" -> To("Escape")
         [] f.stage = "Body" /\ f.length < BodyLimit(d) /\ ~BreaksFreeText(c) -> OneMore
         [] f.stage = "Escape" /\ c = "u" -> Hex(FALSE)
         [] f.stage = "Escape" /\ c \in Escapes -> OneMore
         [] f.stage = "LowEscape" /\ c = "\\" -> To("LowU")
         [] f.stage = "LowU" /\ c = "u" -> Hex(TRUE)
         [] f.stage = "Hex" /\ c \in HexDigits ->
                IF ~HexFits(value, f.left - 1, f.low) THEN {}
                ELSE IF f.left > 1 THEN {WithTop(s, [f EXCEPT !.value = value, !.left = @ - 1])}
                ELSE IF IsHigh(value) THEN To("LowEscape") ELSE OneMore
         [] OTHER -> {}

FeedChoice(s, c) ==
    LET f == Top(s)
        remaining == {w \in f.candidates : Len(w) > f.progress /\ w[f.progress + 1] = c}
    IN IF c = Quote /\ \E w \in f.candidates : Len(w) = f.progress THEN {Closed(s)}
       ELSE IF remaining = {} THEN {}
       ELSE {WithTop(s, [f EXCEPT !.candidates = remaining, !.progress = @ + 1])}

\* Objects, arrays, and the end of the text: where a number leaves its character.
FeedOpen(s, c) ==
    IF IsDone(s) THEN IF c = " " THEN {s} ELSE {}
    ELSE IF Top(s).kind = "object" THEN FeedObject(s, c) ELSE FeedArray(s, c)

FeedNumber(s, c) ==
    LET next == NumberNext(Top(s), c) IN
    IF next # {} THEN {WithTop(s, f) : f \in next}
    ELSE IF NumberCloses(Top(s)) THEN FeedOpen(Closed(s), c) ELSE {}

FeedFrame(s, c) ==
    LET kind == IF IsDone(s) THEN "end" ELSE Top(s).kind IN
    CASE kind = "value" -> IF c = " " THEN {s} ELSE OpenValue([s EXCEPT !.stack = Front(@)], Top(s).node, c)
      [] kind = "text" -> FeedText(s, c)
      [] kind = "choice" -> FeedChoice(s, c)
      [] kind = "number" -> FeedNumber(s, c)
      [] kind = "literal" -> LiteralNext(s, c)
      [] OTHER -> FeedOpen(s, c)

FeedChar(s, c) == UNION {FeedFrame(t, c) : t \in Counted(s, c)}

----------------------------------------------------------------------------
(* What a mask offers: allowed_prefixes, and contains of AllowedSet.       *)

Offer(chars, space, body) == [chars |-> chars, space |-> space, body |-> body]

ValueStart(n) ==
    LET kind == Node(n).kind IN
    CASE kind = "object" -> {"{"}
      [] kind = "array" -> {"["}
      [] kind \in {"text", "choice"} -> {Quote}
      [] kind = "number" -> {c \in Digits \union {"-"} : NumberNext(NumberFrame(n), c) # {}}
      [] OTHER -> {"t", "f"}

AfterValue(f) == (IF Remaining(f) # {} THEN {","} ELSE {}) \union (IF RequiredDone(f) THEN {"}"} ELSE {})

ObjectAllows(f, stage) ==
    CASE stage = "KeyOrClose" -> Offer((IF RequiredDone(f) THEN {"}"} ELSE {})
                                       \union (IF Remaining(f) # {} THEN {Quote} ELSE {}), TRUE, FALSE)
      [] stage = "AfterComma" -> Offer(IF Remaining(f) # {} THEN {Quote} ELSE {}, TRUE, FALSE)
      [] stage = "InKey" ->
            Offer({Follows(Fields(f)[i].name, f.progress) : i \in f.candidates}, FALSE, FALSE)
      [] stage = "AfterKey" -> Offer({":"}, TRUE, FALSE)
      [] stage = "AfterColon" -> Offer(ValueStart(Fields(f)[f.active].node), TRUE, FALSE)
      [] OTHER -> Offer(AfterValue(f), TRUE, FALSE)

ArrayAllows(f, stage, count) ==
    LET d == Node(f.node) IN
    CASE stage = "Start" -> Offer((IF ArrayFewest(d) = 0 THEN {"]"} ELSE {})
                                  \union (IF ArrayLimit(d) # 0 THEN ValueStart(d.item) ELSE {}), TRUE, FALSE)
      [] stage = "BeforeItem" -> Offer(ValueStart(d.item), TRUE, FALSE)
      [] OTHER -> Offer((IF count < ArrayLimit(d) THEN {","} ELSE {})
                        \union (IF count >= ArrayFewest(d) THEN {"]"} ELSE {}), TRUE, FALSE)

TextAllows(f) ==
    CASE f.stage = "Body" -> LET room == f.length < BodyLimit(Node(f.node)) IN
                             Offer({Quote} \union (IF room THEN {"\\"} ELSE {}), FALSE, room)
      [] f.stage = "Escape" -> Offer(Escapes \union {"u"}, FALSE, FALSE)
      [] f.stage = "LowEscape" -> Offer({"\\"}, FALSE, FALSE)
      [] f.stage = "LowU" -> Offer({"u"}, FALSE, FALSE)
      [] OTHER -> Offer({c \in HexDigits : HexFits(f.value * 16 + Worth(c), f.left - 1, f.low)}, FALSE, FALSE)

\* Variant: the item a number closes is not counted yet.
BelowAllowsUncounted(rest) ==
    IF rest = <<>> THEN Offer({}, TRUE, FALSE)
    ELSE IF Last(rest).kind = "object" THEN ObjectAllows(Last(rest), "AfterValue")
    ELSE ArrayAllows(Last(rest), "AfterItem", Last(rest).count)

\* The frame below a number that may close here, as if it had.
BelowAllows(rest) ==
    IF rest = <<>> THEN Offer({}, TRUE, FALSE)
    ELSE IF Last(rest).kind = "object" THEN ObjectAllows(Last(rest), "AfterValue")
    ELSE ArrayAllows(Last(rest), "AfterItem", Last(rest).count + 1)

NumberAllows(s) ==
    LET f == Top(s)
        more == {c \in Digits \union {"-", "+", ".", "e"} : NumberNext(f, c) # {}}
    IN IF NumberCloses(f) THEN LET b == BelowAllows(Front(s.stack)) IN [b EXCEPT !.chars = @ \union more]
       ELSE Offer(more, FALSE, FALSE)

FrameAllows(s) ==
    LET f == IF IsDone(s) THEN [kind |-> "end"] ELSE Top(s) IN
    CASE f.kind = "end" -> Offer({}, TRUE, FALSE)
      [] f.kind = "value" -> Offer(ValueStart(f.node), TRUE, FALSE)
      [] f.kind = "object" -> ObjectAllows(f, f.stage)
      [] f.kind = "array" -> ArrayAllows(f, f.stage, f.count)
      [] f.kind = "text" -> TextAllows(f)
      [] f.kind = "choice" -> Offer({Follows(w, f.progress) : w \in f.candidates}, FALSE, FALSE)
      [] f.kind = "number" -> NumberAllows(s)
      [] OTHER -> Offer({l[f.progress + 1] : l \in f.candidates}, FALSE, FALSE)

\* A run of spaces at its bound takes the space back, outside a string.
Offered(s) ==
    LET offer == FrameAllows(s) IN
    [offer EXCEPT !.space = @ /\ (s.run < MaxSpaces \/ InStringBody(s))]

Offers(offer, c) ==
    c \in offer.chars \/ (offer.space /\ c = " ") \/ (offer.body /\ ~BreaksFreeText(c))

\* Inside a string, a key or a choice, where a space is content.
InContent(s) ==
    ~IsDone(s) /\ \/ Top(s).kind \in {"text", "choice"}
                  \/ Top(s).kind = "object" /\ Top(s).stage = "InKey"

----------------------------------------------------------------------------
(* What the theorems assume of a schema.                                   *)

\* No spelling has more spaces in a row than may stand between two values:
\* Counted counts those of a key or a choice too, and the mask does not ask.
SpacesFit(word) ==
    \A i \in DOMAIN word : i + MaxSpaces \in DOMAIN word =>
        \E j \in i..i + MaxSpaces : word[j] # " "

Spellings(nodes) ==
    UNION {LET d == nodes[n] IN
           CASE d.kind = "object" -> {d.fields[i].name : i \in DOMAIN d.fields}
             [] d.kind = "choice" -> d.choices
             [] OTHER -> {} : n \in DOMAIN nodes}

SpelledTight(c) == \A word \in Spellings(c.nodes) : SpacesFit(word)

\* Every spelling is the inside of a JSON string: a quote in it is escaped, and
\* its last escape is complete.
Escaping(word) ==
    LET escaping[n \in 0..Len(word)] ==
            IF n = 0 THEN FALSE ELSE ~escaping[n - 1] /\ word[n] = "\\"
    IN escaping

IsEscaped(word) ==
    /\ ~Escaping(word)[Len(word)]
    /\ \A n \in DOMAIN word : word[n] = Quote => Escaping(word)[n - 1]

SpelledAsStrings(c) == \A word \in Spellings(c.nodes) : IsEscaped(word)
=============================================================================
