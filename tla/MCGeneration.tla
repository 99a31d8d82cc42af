--------------------------- MODULE MCGeneration ---------------------------
(* Small catalogs and vocabularies: tokens that carry a name and its `(`,  *)
(* a `(` and arguments, the end of the arguments and `)`, or half a        *)
(* character.                                                              *)
EXTENDS Generation

Q == "\""
MCLowestInt == -9
MCIdChars == {"a", "b", "k", "x", "0", "1"}
Stop == <<"|">>
Number == [kind |-> "number", integer |-> TRUE, min |-> {0}, max |-> {100}]
Text(max) == [kind |-> "text", max |-> max]
Object(node, required) ==
    [kind |-> "object", fields |-> <<[name |-> <<"k">>, key |-> <<"k">>, node |-> node, required |-> required]>>]
Array(item) == [kind |-> "array", item |-> item, min |-> {}, max |-> {}]
Catalog(nodes, tools, vocab, budget) ==
    [nodes |-> nodes, tools |-> tools, vocab |-> vocab \union {Stop}, stops |-> {Stop}, budget |-> budget]
Tool(name, root) == [name |-> name, root |-> root]
Key == <<"{", Q, "k", Q, ":">>

TextTool == <<Text({2}), Object(1, TRUE)>>
FreeTool == <<Text({}), Object(1, TRUE)>>
A == {Tool(<<"a">>, 2)}

MCSetups == {
    \* the ways a call may begin
    Catalog(TextTool, A, {<<"a">>, <<"(">>, <<" ", "a", "(">>, <<" ", "a", "(", Q>>, <<"(", "{">>, <<"(", Q>>, <<"x">>, <<"{">>,
                         <<Q>>, <<"k", Q, ":">>}, 4),
    \* the ways its arguments may fall into tokens
    Catalog(TextTool, A, {<<"a", "(">>, <<"{", Q>>, <<"k", Q, ":", Q>>, <<"x">>, <<"}">>, <<Q, "}", ")">>, <<")">>}, 6),
    \* two tools, of which one needs no argument, and names that begin alike
    Catalog(<<Number, Object(1, FALSE), Object(1, TRUE)>>, {Tool(<<"a">>, 2), Tool(<<"a", "b">>, 3)},
            {<<"a">>, <<"(", ")">>, <<"b", "(">>, <<"x", "a">>, Key, <<"1">>, <<"}", ")">>, <<")">>, <<" ">>}, 5),
    \* repetition: of prose, of the call's shape, of what is in an array
    Catalog(<<Number, Array(1), Object(2, TRUE)>>, {Tool(<<"a">>, 3)},
            {<<"a", "(">> \o Key, <<"[">>, <<"0", ",">>, <<" ">>}, 8),
    \* a text without a bound, up to its ceiling and up to the call's budget
    Catalog(FreeTool, A, {<<"a", "(">> \o Key \o <<Q>>, <<"x", "x">>, <<"\\">>, <<Q, "}", ")">>}, 8),
    \* halves of characters
    Catalog(FreeTool, A, {<<"first">>, <<"rest">>, <<"x">>, <<"a", "(">> \o Key \o <<Q>>, <<Q, "}", ")">>}, 6)}

\* A tool that needs no argument, and tokens of program text.
MCCodeSetups == {
    Catalog(<<Number, Object(1, FALSE)>>, {Tool(<<"a">>, 2)}, {<<"a">>, <<"(">>, <<"(", ")", ";">>, <<")">>}, 3)}
MCNestedSetups == {
    Catalog(<<Number, Object(1, FALSE)>>, {Tool(<<"a">>, 2)}, {<<"(", "a", "(", "x">>, <<")">>}, 3)}

\* What the theorems assume of a catalog.
ASSUME MCSetupsAreCatalogs ==
    \A c \in MCSetups : IsCatalog(c) /\ SpelledAsStrings(c) /\ TokensFit(c)

\* A call that repeats what the prose before it said, and ends with it.
MCRepeatedSetups == {
    Catalog(<<Text({}), Number, [kind |-> "object", fields |-> <<
                [name |-> <<",">>, key |-> <<",">>, node |-> 1, required |-> FALSE],
                [name |-> <<":">>, key |-> <<":">>, node |-> 2, required |-> FALSE]>>]>>,
            {Tool(<<"a">>, 3)},
            {<<"x">>, <<"a", "(", "{", Q, ",", Q, ":", Q>>, <<":", "1", "}", ")">>}, 8)}

\* A closed call is one the tool layer reads and accepts, wherever in the
\* tokens its arguments began and ended (gate 3 of the executor never refuses
\* what the grammar let through).
TL == INSTANCE ToolLayer WITH Cases <- Setups, state <- session.state, written <- session.args
CallIsValid ==
    session.stage = Ended =>
        \/ session.args = <<>> /\ OptionalOnly(session.tool)
        \/ TL!Accepted(session.tool.root)

\* What the grammar owes a turn: there is always a token left to write, and
\* the call that comes of it is valid.
CallsAreWritten == stop # "Forbidden" /\ CallIsValid
=============================================================================
