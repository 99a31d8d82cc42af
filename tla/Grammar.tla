------------------------------ MODULE Grammar ------------------------------
(***************************************************************************)
(* The arguments of one call, written a character at a time to the         *)
(* automaton of their schema.                                              *)
(***************************************************************************)
EXTENDS Automaton

CONSTANT Cases  \* the schemas tried: [nodes, root, chars]

VARIABLES
    state,   \* GrammarState: [stack, run]
    written  \* the characters written, without the structural spaces

gvars == <<schema, state, written>>

----------------------------------------------------------------------------
GrammarInit ==
    /\ schema \in Cases
    /\ state = StartAt(schema.root)
    /\ written = <<>>

\* The writer takes any character the automaton accepts.
Write ==
    /\ \E c \in schema.chars : \E s \in FeedChar(state, c) :
          /\ state' = s
          /\ written' = IF c = " " /\ ~InContent(state) THEN written ELSE Append(written, c)
    /\ UNCHANGED schema

GrammarSpec == GrammarInit /\ [][Write]_gvars /\ WF_gvars(Write)

----------------------------------------------------------------------------
(* Properties.                                                             *)

\* "An empty set must not occur without can_finish": some character can be
\* written as long as the arguments are not complete.
MaskIsNeverEmpty ==
    ~IsDone(state) => \E c \in schema.chars : Offers(Offered(state), c)

\* Every open frame is one the schema has, and the spaces stay in bound.
GrammarTypeOK ==
    /\ schema \in Cases
    /\ state.run \in 0..MaxSpaces
    /\ \A i \in DOMAIN state.stack :
          LET f == state.stack[i] IN
          /\ f.kind # "literal" => f.node \in DOMAIN schema.nodes
          /\ f.kind = "object" => f.seen \subseteq DOMAIN Fields(f) /\ f.candidates \subseteq DOMAIN Fields(f)
          /\ f.kind = "array" => f.count \in 0..ArrayLimit(Node(f.node))
          /\ f.kind = "text" => f.length \in 0..BodyLimit(Node(f.node))

\* The mask and the automaton are two tables over the same frames: what one
\* offers the other takes, and nothing else, in every state there is.
MaskIsTheAutomaton ==
    \A c \in schema.chars : Offers(Offered(state), c) <=> FeedChar(state, c) # {}

\* Whatever the writer picks among what is accepted, the arguments end: no
\* state is a dead end, and no path goes on for ever.
ArgumentsEnd == <>IsDone(state)
=============================================================================
