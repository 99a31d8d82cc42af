---------------------------- MODULE MCReceiptLog ----------------------------
(* Bounds for model checking ReceiptLog. *)
EXTENDS ReceiptLog

None == [what \in Bounded |-> 0]

Symmetric == Permutations(Appenders)

\* What two sessions, a crash, a failed write or a slow holder, a damaged or
\* lost file and a purge do to the chain and its lock.
ChainLimits ==
    [None EXCEPT !["append"] = 3, !["crash"] = 1, !["fault"] = 1, !["touch"] = 1]

=============================================================================
