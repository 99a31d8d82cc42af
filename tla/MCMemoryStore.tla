--------------------------- MODULE MCMemoryStore ---------------------------
(* Bounds and environments for model checking MemoryStore. *)
EXTENDS MemoryStore, TLC

Symmetric == Permutations(Sessions) \union Permutations(Texts)

None == [what \in Bounded |-> 0]

\* Four calls between two sessions, one crash, one failed file operation and a
\* removed memory.json.
SessionLimits == [None EXCEPT !["call"] = 4, !["crash"] = 1, !["fail"] = 1, !["wipe"] = 1]

\* Two damaged files and a wipe, every write succeeding.
DamageLimits == [None EXCEPT !["call"] = 3, !["damage"] = 2, !["wipe"] = 1]

Under(limits) == INSTANCE MemoryStore WITH Limits <- limits

\* Behaviours of either kind: operations fail and sessions crash, or files are
\* damaged.
EitherSpec ==
    /\ Under(SessionLimits)!Init \/ Under(DamageLimits)!Init
    /\ [][Next]_vars

\* Two of the tool's calls, two of the store's own between them, a crash that
\* leaves a dead lock and a write that fails.
EditLimits == [None EXCEPT !["call"] = 2, !["edit"] = 1, !["crash"] = 1, !["fail"] = 1]

=============================================================================
