----------------------------- MODULE MCDownload -----------------------------
(* Bounds for model checking Download. *)
EXTENDS Download

CONSTANTS a, b, i1, i2, i3, i4, p1, p2

\* The head of the shorter release and the tail of the longer one are together
\* as long as the longer one: size does not tell a splice from it.
TwoAndThree == [o \in {a, b} |-> IF o = a THEN 2 ELSE 3]

\* Nothing declared, size alone, digest alone, both.
SomePlans ==
    {[bytes |-> None, digest |-> None], [bytes |-> 3, digest |-> None],
     [bytes |-> None, digest |-> b], [bytes |-> 2, digest |-> a]}

\* Everything declared: nothing incomplete passes the checks on size and digest.
OnePlan == {[bytes |-> 2, digest |-> a]}

=============================================================================
