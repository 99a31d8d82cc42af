----------------------------- MODULE GuardedCalls -----------------------------
(***************************************************************************)
(* What the tool executor promises: the calls that run, against what the   *)
(* conversation holds and what the user has allowed.                       *)
(***************************************************************************)
CONSTANTS
    Calls,
    AsksPersonal,       \* ask once personal data is in the conversation
    AsksOutside,        \* ask once outside text is
    AsksAlways

VARIABLES
    personal, outside,  \* what the conversation holds
    allowed,            \* the calls the user has just said yes to
    ran                 \* the calls run in this turn

vars == <<personal, outside, allowed, ran>>

Init == ~ personal /\ ~ outside /\ allowed = {} /\ ran = {}

NeedsTheUser(c) ==
    \/ c \in AsksPersonal /\ personal
    \/ c \in AsksOutside /\ outside
    \/ c \in AsksAlways

Allow(c) == allowed' = {c} /\ UNCHANGED <<personal, outside, ran>>

Run(c) ==
    /\ c \notin ran
    /\ NeedsTheUser(c) => c \in allowed
    /\ ran' = ran \union {c}
    /\ allowed' = {}
    /\ UNCHANGED <<personal, outside>>

Learn ==
    /\ personal' \in {personal, TRUE} /\ outside' \in {outside, TRUE}
    /\ UNCHANGED <<allowed, ran>>

NewTurn == allowed = {} /\ ran' = {} /\ UNCHANGED <<personal, outside, allowed>>

Forget ==
    /\ allowed = {} /\ ran' = {}
    /\ personal' = FALSE /\ outside' = FALSE
    /\ UNCHANGED allowed

Next == \/ \E c \in Calls : Allow(c) \/ Run(c)
        \/ Learn \/ NewTurn \/ Forget

Spec == Init /\ [][Next]_vars

=============================================================================
