----------------------------- MODULE MCDbWrite ------------------------------
(* Bounds for model checking DbWrite. *)
EXTENDS DbWrite, TLC

Symmetric == Permutations(Sessions)

\* Two calls of two sessions or of one, two transactions of the other program, two of:
\* a failed copy, a run that is killed or does not start, a process that dies.
SomeLimits == [call |-> 2, app |-> 2, fault |-> 2]

=============================================================================
