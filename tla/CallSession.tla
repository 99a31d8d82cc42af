---------------------------- MODULE CallSession ----------------------------
(***************************************************************************)
(* The bridge from the grammar to the tokens of one generation             *)
(* (tacet-grammar/src/call.rs and mask.rs): free text until the name of a  *)
(* tool and its `(`, then the grammar of that tool's arguments, then `)`.  *)
(* A token is the sequence of its characters and may cross any of these    *)
(* borders; mask and advance are two readings of it.                       *)
(***************************************************************************)
EXTENDS Automaton

CONSTANTS
    Setups,   \* the catalogs tried: [nodes, tools, vocab, stops, budget]
    IdChars   \* the characters a name is made of

VARIABLE session  \* CallSession: [stage, queue, state, fresh, tool, args]

Tools == schema.tools   \* [name, root]
LongestName == Max({Len(t.name) : t \in Tools})
\* No argument is required, so `name()` is a call.
OptionalOnly(t) ==
    \A f \in DOMAIN schema.nodes[t.root].fields : ~schema.nodes[t.root].fields[f].required

Prefix == "prefix"
Args == "args"
Ended == "closed"
NoTool == [name |-> <<>>, root |-> 1]
Opened == [stage |-> Prefix, queue |-> <<>>, state |-> [stack |-> <<>>, run |-> 0],
           fresh |-> FALSE, tool |-> NoTool, args |-> <<>>]

\* Variant: any tool may be called with nothing.
EmptyClosesAny(s) == s.fresh

IsStructural(s) == s.stage = Args
SessionDone(s) == s.stage = Ended
EmptyCloses(s) == s.fresh /\ OptionalOnly(s.tool)

----------------------------------------------------------------------------
(* One character.                                                          *)

Suffix(seq, from) == SubSeq(seq, from, Len(seq))

\* align_prefix: the longest suffix that can still become a tool's name and
\* does not start inside a word.  A full queue's first character is context.
AlignPrefix(queue) ==
    LET starts == {i \in (IF Len(queue) > LongestName THEN 2 ELSE 1)..Len(queue) :
                      /\ i > 1 => queue[i - 1] \notin IdChars
                      /\ \E t \in Tools : IsPrefix(Suffix(queue, i), t.name)}
    IN IF starts = {} THEN <<>> ELSE Suffix(queue, Min(starts))

Called(queue) == {t \in Tools : t.name = AlignPrefix(queue)}
Trimmed(queue) == Suffix(queue, Max({1, Len(queue) - LongestName}))

SwallowPrefix(s, c) ==
    LET called == IF c = "(" THEN Called(s.queue) ELSE {} IN
    IF called = {} THEN {[s EXCEPT !.queue = Trimmed(Append(@, c))]}
    ELSE {[s EXCEPT !.stage = Args, !.state = StartAt(t.root), !.fresh = TRUE, !.tool = t] : t \in called}

\* A structural space is not kept among the arguments read.
SwallowArgs(s, c) ==
    IF c = ")" /\ (IsDone(s.state) \/ EmptyCloses(s)) THEN {[s EXCEPT !.stage = Ended]}
    ELSE {[s EXCEPT !.state = next, !.fresh = @ /\ c = " ",
                    !.args = IF c = " " /\ ~InContent(s.state) THEN @ ELSE Append(@, c)] :
             next \in FeedChar(s.state, c)}

Swallow(s, c) ==
    CASE s.stage = Prefix -> SwallowPrefix(s, c)
      [] s.stage = Args -> SwallowArgs(s, c)
      [] OTHER -> {s}

\* advance: the sessions a token leads to, none when it is rejected.
Advance(s, token) ==
    LET reached[n \in 0..Len(token)] ==
            IF n = 0 THEN {s} ELSE UNION {Swallow(r, token[n]) : r \in reached[n - 1]}
    IN reached[Len(token)]

----------------------------------------------------------------------------
(* The mask.                                                               *)

\* remainder_conforms: what a token carries after the `(` of a tool's name.
RemainderConforms(t, rest) ==
    LET after[n \in 0..Len(rest)] ==
            IF n = 0 THEN {StartAt(t.root)} ELSE UNION {FeedChar(g, rest[n]) : g \in after[n - 1]}
    IN \/ /\ OptionalOnly(t)
          /\ \E n \in DOMAIN rest : rest[n] = ")" /\ \A k \in DOMAIN rest \ {n} : rest[k] = " "
       \/ \E n \in DOMAIN rest : rest[n] = ")" /\ \E g \in after[n - 1] : IsDone(g)
       \/ after[Len(rest)] # {}

FirstParen(token) == Min({i \in DOMAIN token : token[i] = "("})

\* Variant: the boundary is looked for in what was written before the token.
PrefixMaskByQueue(s, token) ==
    "(" \in Range(token) =>
        LET p == FirstParen(token)
            name == AlignPrefix(s.queue) \o SubSeq(token, 1, p - 1)
        IN \A t \in {u \in Tools : u.name = name} : RemainderConforms(t, Suffix(token, p + 1))

PrefixMask(s, token) ==
    "(" \in Range(token) =>
        LET p == FirstParen(token) IN
        \A t \in Called(s.queue \o SubSeq(token, 1, p - 1)) : RemainderConforms(t, Suffix(token, p + 1))

\* The walk of the trie along one token: a character is taken when the state
\* offers it; a neutral one leaves the state as it is.
Walk(h, c) ==
    IF ~Offers(Offered(h), c) THEN {} ELSE IF IsNeutral(h, c) THEN {h} ELSE FeedChar(h, c)

Walked(g, token) ==
    LET walked[n \in 0..Len(token)] ==
            IF n = 0 THEN {g} ELSE UNION {Walk(h, token[n]) : h \in walked[n - 1]}
    IN walked[Len(token)]

\* In a free-text run the plain tokens are open without a walk.
Plain(token) == token # <<>> /\ \A i \in DOMAIN token : ~BreaksFreeText(token[i])

\* A token is open if it can be walked, or all of it but a `)` behind the arguments.
TokenMask(g, token) ==
    /\ token # <<>>
    /\ \/ InFreeTextRun(g) /\ Plain(token)
       \/ \E part \in {token, Front(token)} : \E h \in Walked(g, part) :
             part = token \/ (Last(token) = ")" /\ IsDone(h))

Open(s, token) ==
    CASE s.stage = Prefix -> PrefixMask(s, token)
      [] s.stage = Args -> TokenMask(s.state, token) \/ (EmptyCloses(s) /\ token = <<")">>)
      [] OTHER -> TRUE

----------------------------------------------------------------------------
(* What the theorems assume of a catalog.                                  *)

\* Arguments are objects, names have a longest one, and no `(` is in a name.
IsCatalog(c) ==
    /\ IsSchema(c)
    /\ SpelledTight(c)
    /\ \A t \in c.tools : t.root \in DOMAIN c.nodes /\ c.nodes[t.root].kind = "object"
    /\ \A t \in c.tools : t.name \in Seq(STRING) /\ "(" \notin Range(t.name)
    /\ \E longest \in {0} \union {Len(t.name) : t \in c.tools} : \A t \in c.tools : Len(t.name) <= longest
    /\ c.vocab \subseteq Seq(STRING)
    /\ c.budget \in Nat

\* Behind the first `(` of a token no tool is called once more.
OpensOnce(c, token) ==
    \A t \in c.tools, p \in DOMAIN token :
        token[p] = "(" /\ p - Len(t.name) > FirstParen(token) => SubSeq(token, p - Len(t.name), p - 1) # t.name

\* No token is longer than NEUTRAL_SLACK says, or has more spaces behind a `(`
\* than may stand between two values, or two calls in it.
TokensFit(c) ==
    \A token \in c.vocab :
        /\ Len(token) <= Slack
        /\ OpensOnce(c, token)
        /\ \A p \in DOMAIN token : token[p] = "(" /\ p + MaxSpaces + 1 <= Len(token) =>
               \E k \in p + 1..p + MaxSpaces + 1 : token[k] # " "
=============================================================================
