----------------------------- MODULE MCChatTurn -----------------------------
(* Bounds for model checking ChatTurn. *)
EXTENDS ChatTurn

None == [what \in Bounded |-> 0]

\* Two turns in up to two runs of the shell.
Sessions ==
    [None EXCEPT !["run"] = 2, !["turn"] = 2, !["stop"] = 2, !["crash"] = 1,
                 !["fail"] = 1, !["purge"] = 1, !["clear"] = 1]

\* One turn.
OneTurn == [None EXCEPT !["run"] = 1, !["turn"] = 1]

=============================================================================
