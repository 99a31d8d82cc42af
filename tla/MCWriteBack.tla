---------------------------- MODULE MCWriteBack -----------------------------
(* Bounds for model checking WriteBack. *)
EXTENDS WriteBack

\* Two commands, two sittings of Claude Code with two entries beside the first,
\* and two of: a short write, a failed or killed step, a line broken off.
SomeLimits == [what \in Bounded |-> IF what = "say" THEN 3 ELSE 2]

=============================================================================
