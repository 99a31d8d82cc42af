---------------------------- MODULE AtomicMemory ----------------------------
(***************************************************************************)
(* What crates/tacet-memory promises its users, with no file, lock or      *)
(* journal in sight: one set of facts, and sessions that ask for facts to  *)
(* be added and removed.  A session's requests take effect together, in    *)
(* one step, on the memory as it is at that moment; until then they may be *)
(* taken back or lost with the session, and nothing else changes memory.   *)
(***************************************************************************)
EXTENDS Naturals, FiniteSets

CONSTANTS Sessions, Texts, Cap

VARIABLES mem, asked

vars == <<mem, asked>>

Nothing == [adds |-> {}, dels |-> {}]

\* The fact to add is dropped when there is no room for it.
Result(m, a) ==
    LET kept == m \ a.dels
        full == kept \union a.adds
    IN  IF Cardinality(full) <= Cap THEN full ELSE kept

Init == mem = {} /\ asked = [s \in Sessions |-> Nothing]

WantAdded(s, t) ==
    /\ asked[s].adds = {}
    /\ asked' = [asked EXCEPT ![s].adds = {t}]
    /\ UNCHANGED mem

WantForgotten(s, t) ==
    /\ asked[s].adds = {}
    /\ asked' = [asked EXCEPT ![s].dels = @ \union {t}]
    /\ UNCHANGED mem

TakeBack(s) == asked' = [asked EXCEPT ![s].adds = {}] /\ UNCHANGED mem

Leave(s) == asked' = [asked EXCEPT ![s] = Nothing] /\ UNCHANGED mem

Commit(s) ==
    /\ mem' = Result(mem, asked[s])
    /\ asked' = [asked EXCEPT ![s] = Nothing]

Wipe == mem' = {} /\ UNCHANGED asked

Next ==
    \/ \E s \in Sessions :
          \/ \E t \in Texts : WantAdded(s, t) \/ WantForgotten(s, t)
          \/ TakeBack(s) \/ Leave(s) \/ Commit(s)
    \/ Wipe

Spec == Init /\ [][Next]_vars

=============================================================================
