----------------------------- MODULE MCGrammar -----------------------------
(* Small schemas, each with the characters that matter to it.              *)
EXTENDS ToolLayer

Free == {}   \* no bound
MCLowestInt == -20
Whole(lo, hi) == [kind |-> "number", integer |-> TRUE, min |-> {lo * One}, max |-> {hi * One}]
Real(lo, hi) == [kind |-> "number", integer |-> FALSE, min |-> lo, max |-> hi]
Text(max) == [kind |-> "text", max |-> max]
Bool == [kind |-> "bool"]
Field(name, node, required) == [name |-> name, key |-> name, node |-> node, required |-> required]
Object(fields) == [kind |-> "object", fields |-> fields]
Array(item, min, max) == [kind |-> "array", item |-> item, min |-> min, max |-> max]
Choice(spellings, values) == [kind |-> "choice", choices |-> spellings, values |-> values]
Of(nodes, chars) == [nodes |-> nodes, root |-> Len(nodes), chars |-> chars]

Marks == {"{", "}", ":", ",", Quote, " "}
Numeric == {"0", "1", "2", "9", "-", ".", " "}

MCCases == {
    \* keys of which one begins the other, a required one among them
    Of(<<Whole(8, 12), Bool, Object(<<Field(<<"a">>, 1, FALSE), Field(<<"a", "b">>, 2, TRUE)>>)>>,
       Marks \union {"a", "b", "t", "r", "u", "e", "f", "l", "s", "0", "1", "2", "8", "9"}),
    \* an optional field nobody can fill, beside one with an escaped value
    Of(<<Choice({}, {}),
         Choice({<<"a">>, <<"a", "\\", Quote>>}, {<<"a">>, <<"a", Quote>>}),
         Object(<<Field(<<"a">>, 1, FALSE), Field(<<"b">>, 2, TRUE)>>)>>,
       Marks \union {"a", "b", "\\"}),
    \* numbers that end at the mark that follows them
    Of(<<Whole(-1, 12), Array(1, {1}, {2})>>, {"[", "]", ","} \union Numeric),
    Of(<<Whole(2, 9), Array(1, Free, Free), Object(<<Field(<<"a">>, 2, FALSE)>>)>>,
       Marks \union {"a", "[", "]", "1", "2", "9"}),
    Of(<<Choice({}, {}), Array(1, Free, {2})>>, {"[", "]", ",", Quote, " "}),
    \* ranges below, above and around zero, with fractions
    Of(<<Real({One + 1}, {2 * One})>>, Numeric),
    Of(<<Real({-2 * One}, {-One - 1})>>, Numeric),
    Of(<<Real({-1}, {12})>>, Numeric),
    \* no range: an exponent may follow
    Of(<<Real(Free, Free)>>, {"0", "1", "2", "-", "+", ".", "e", " "}),
    Of(<<[kind |-> "number", integer |-> TRUE, min |-> Free, max |-> Free]>>, Numeric),
    \* texts at their limits, with escapes and surrogates
    Of(<<Text({1}), Array(1, {1}, {2})>>, {"[", "]", ",", Quote, "\\", "n", "a", " ", "ctl"}),
    Of(<<Text({1})>>, {Quote, "\\", "u", "d", "8", "c", "0"}),
    Of(<<Text(Free)>>, {Quote, "\\", "n", "a", " ", "ctl"})}

\* What the theorem about the mask assumes of a schema.
ASSUME MCCasesAreSchemas ==
    \A c \in MCCases : IsSchema(c) /\ c.root \in DOMAIN c.nodes /\ SpelledTight(c)

\* A value spelled with more spaces than may stand between values.
MCSpacedCases == {
    Of(<<Choice({<<"a", " ", " ", " ", "b">>}, {<<"a", " ", " ", " ", "b">>})>>, {"a", "b", " ", Quote})}

\* A range whose numbers have more digits than are looked ahead for.
MCFarCases == {Of(<<Real({10^5 * One}, {2 * 10^5 * One})>>, Numeric \union {"5"})}
=============================================================================
