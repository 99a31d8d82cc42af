----------------------------- MODULE McpClient -----------------------------
(***************************************************************************)
(* The client of one MCP server (crates/tacet-mcp/src/client.rs, legacy.rs,*)
(* tasks.rs, elicit.rs): building the catalog with the one fallback to the *)
(* old revision, and calling a tool, with the server's questions to the    *)
(* user and the polling of a remote task.                                  *)
(*                                                                         *)
(* The server is anybody's: it answers what it likes, late or not at all.  *)
(* Of it the model keeps how often it has carried out each call.  A server *)
(* that asks a question instead of answering has not carried the call out, *)
(* which is what `input_required` means.                                   *)
(***************************************************************************)
EXTENDS Naturals, FiniteSets

CONSTANTS
    Calls,      \* the tool calls, each made once
    Choices,    \* subset of {"auto", "current", "legacy"}: `spec` in mcp.json
    MaxPages,   \* MAX_PAGES
    MaxRounds,  \* MAX_INPUT_ROUNDS
    Deadline,   \* the polls that fit in DEADLINE, the shortest interval apart
    MaxLoads,   \* bound: how often the catalog is asked for
    NoCall

ASSUME McpClientAssumption ==
    /\ Choices \subseteq {"auto", "current", "legacy"}
    /\ MaxPages \in Nat \ {0} /\ MaxRounds \in Nat /\ Deadline \in Nat \ {0}
    /\ MaxLoads \in Nat /\ NoCall \notin Calls

VARIABLES
    choice,     \* of Choices
    client,     \* `State`: what it keeps across requests
    job,        \* the `tools` or `call_tool` under way
    wire,       \* its request: not sent, sent, served, or the answer to it
    late,       \* calls whose request nobody waits for and the server may yet get
    made,       \* calls that were made
    done,       \* how often the server has carried a call out
    declined,   \* calls a question of which the user declined
    loads

vars == <<choice, client, job, wire, late, made, done, declined, loads>>

-----------------------------------------------------------------------------
Revision == {"current", "legacy"}

Client == [revision : Revision \union {"open"}, fellBack : BOOLEAN,
           handshaken : BOOLEAN, discovered : BOOLEAN, cached : BOOLEAN,
           loaded : BOOLEAN]

Method == {"server/discover", "initialize", "initialized", "tools/list",
           "tools/call", "tasks/get", "question"}

\* `again`: a read that is sent for the second time.
Job == [kind : {"none", "load", "call"}, call : Calls \union {NoCall},
        method : Method, revision : Revision, again : BOOLEAN,
        page : 1 .. MaxPages, rounds : 0 .. MaxRounds, polls : 0 .. Deadline]

NoJob == [kind |-> "none", call |-> NoCall, method |-> "question",
          revision |-> "current", again |-> FALSE, page |-> 1, rounds |-> 0,
          polls |-> 0]

Answer == {"result", "more", "task", "working", "asks", "error", "refused"}

Init ==
    /\ choice \in Choices
    /\ client = [revision |-> "open", fellBack |-> FALSE, handshaken |-> FALSE,
                 discovered |-> FALSE, cached |-> FALSE, loaded |-> FALSE]
    /\ job = NoJob /\ wire = "idle"
    /\ late = {} /\ made = {} /\ done = [c \in Calls |-> 0]
    /\ declined = {} /\ loads = 0

\* `planned_revision`
Planned ==
    IF client.revision # "open" THEN client.revision
    ELSE IF choice = "legacy" THEN "legacy" ELSE "current"

\* `settle`
Settled(k, revision) ==
    IF k.revision = "open" THEN [k EXCEPT !.revision = revision] ELSE k

Turn(j, method) == [j EXCEPT !.method = method, !.again = FALSE]

\* The first request in a revision: the old one opens with a handshake.
Opening(j, revision, method) ==
    Turn([j EXCEPT !.revision = revision],
         IF revision = "legacy" /\ ~ client.handshaken THEN "initialize" ELSE method)

\* Nothing but the client and its job.
ServerAsIs == UNCHANGED <<choice, late, made, done, declined, loads>>

-----------------------------------------------------------------------------
(* What is asked of the client *)

\* `tools`.  The server is discovered on the way, once, whatever comes of it.
Load ==
    /\ job = NoJob /\ ~ client.cached /\ loads < MaxLoads
    /\ loads' = loads + 1
    /\ LET j == [NoJob EXCEPT !.kind = "load"] IN
       IF Planned = "current" /\ ~ client.discovered
         THEN /\ job' = Turn(j, "server/discover")
              /\ client' = [client EXCEPT !.discovered = TRUE]
         ELSE job' = Opening(j, Planned, "tools/list") /\ UNCHANGED client
    /\ UNCHANGED <<choice, wire, late, made, done, declined>>

\* The catalog's time is up, or it is refreshed.
CacheExpires ==
    /\ client.cached
    /\ client' = [client EXCEPT !.cached = FALSE]
    /\ UNCHANGED <<job, wire>> /\ ServerAsIs

\* A tool is in the catalog before it can be called.
CallTool(c) ==
    /\ job = NoJob /\ client.loaded /\ c \notin made
    /\ made' = made \union {c}
    /\ job' = Opening([NoJob EXCEPT !.kind = "call", !.call = c], Planned, "tools/call")
    /\ UNCHANGED <<choice, client, wire, late, done, declined, loads>>

-----------------------------------------------------------------------------
(* One request, one answer *)

\* Variant: a call is repeated like a read.
ReadsAndCalls == {"server/discover", "initialize", "tools/list", "tools/call", "tasks/get"}

\* `send_read`: a request that changes nothing may be sent again, once.
Reads == {"server/discover", "initialize", "tools/list", "tasks/get"}

Send ==
    /\ job # NoJob /\ wire = "idle" /\ job.method # "question"
    /\ wire' = "sent"
    /\ UNCHANGED <<client, job>> /\ ServerAsIs

\* What the server may say, in a revision it speaks or not.
Says(method, revision) ==
    {"result", "error", "refused"} \union
    (CASE method = "tools/list" -> {"more"}
       [] method = "tools/call" -> {"task", "asks"}
       [] method = "tasks/get"  -> {"working"}
       [] OTHER -> {})

\* A result or a task is a call carried out, a question is none, an error may be.
CarriesOut(answer) ==
    IF answer \in {"result", "task"} THEN {1}
    ELSE IF answer = "asks" THEN {0} ELSE {0, 1}

Serve ==
    /\ wire = "sent"
    /\ \E answer \in Says(job.method, job.revision), lost \in BOOLEAN :
          /\ wire' = IF lost THEN "lost" ELSE answer
          /\ IF job.method = "tools/call"
               THEN \E n \in CarriesOut(answer) : done' = [done EXCEPT ![job.call] = @ + n]
               ELSE UNCHANGED done
    /\ UNCHANGED <<choice, client, job, late, made, declined, loads>>

\* A request that was given up reaches the server all the same.  (A late read
\* changes nothing.)
ServeLate ==
    \E c \in late :
        /\ late' = late \ {c}
        /\ \E n \in {0, 1} : done' = [done EXCEPT ![c] = @ + n]
        /\ UNCHANGED <<choice, client, job, wire, made, declined, loads>>

-----------------------------------------------------------------------------
(* What the client makes of the answer *)

Return == job' = NoJob

Becomes(j) == job' = j

\* The old revision is tried when the catalog is refused, and nowhere else.
FallsBack(error) ==
    job.method = "tools/list" /\ error = "refused" /\ choice = "auto"
    /\ job.revision = "current"

\* What becomes of the job after an error: neither discovery nor the notification
\* that ends a handshake can stop it.
After(error) ==
    \/ /\ job.method = "server/discover"
       /\ Becomes(Turn(job, "tools/list")) /\ UNCHANGED client
    \/ /\ job.method = "initialized"
       /\ Becomes(Turn(job, IF job.kind = "load" THEN "tools/list" ELSE "tools/call"))
       /\ UNCHANGED client
    \/ /\ FallsBack(error)
       /\ client' = [client EXCEPT !.fellBack = TRUE, !.revision = "legacy"]
       /\ Becomes(Opening([job EXCEPT !.page = 1], "legacy", "tools/list"))
    \/ /\ job.method \notin {"server/discover", "initialized"} /\ ~ FallsBack(error)
       /\ Return /\ UNCHANGED client

\* The wire fails: an answer is lost, or too late.
TimesOut ==
    /\ wire \in {"sent", "lost"} /\ wire' = "idle"
    /\ late' = late \union
               (IF wire = "sent" /\ job.method = "tools/call" THEN {job.call} ELSE {})
    /\ IF job.method \in Reads /\ ~ job.again
         THEN Becomes([job EXCEPT !.again = TRUE]) /\ UNCHANGED client
         ELSE After("wire")
    /\ UNCHANGED <<choice, made, done, declined, loads>>

Errs ==
    /\ wire \in {"error", "refused"} /\ wire' = "idle"
    /\ After(wire)
    /\ ServerAsIs

Shakes ==
    /\ wire = "result" /\ wire' = "idle"
    /\ \/ /\ job.method = "initialize" /\ Becomes(Turn(job, "initialized"))
          /\ client' = [client EXCEPT !.handshaken = TRUE]
       \/ job.method \in {"initialized", "server/discover"} /\ After("none")
    /\ ServerAsIs

\* The last page, or as many as are read; a cursor that repeats ends it too.
Lists ==
    /\ job.method = "tools/list" /\ wire \in {"result", "more"} /\ wire' = "idle"
    /\ IF wire = "more" /\ job.page < MaxPages
         THEN Becomes([Turn(job, "tools/list") EXCEPT !.page = @ + 1]) /\ UNCHANGED client
         ELSE /\ Return
              /\ client' = [Settled(client, job.revision) EXCEPT !.cached = TRUE,
                                                                 !.loaded = TRUE]
    /\ ServerAsIs

\* The old revision takes what comes for the result.
Calling(answers) ==
    job.method = "tools/call" /\ wire \in answers /\ wire' = "idle"

Called ==
    /\ Calling({"result"} \union (IF job.revision = "legacy" THEN {"task", "asks"} ELSE {}))
    /\ Return
    /\ client' = IF job.revision = "current" THEN Settled(client, "current") ELSE client
    /\ ServerAsIs

Started ==
    /\ job.revision = "current" /\ Calling({"task"})
    /\ Becomes(Turn(job, "tasks/get"))
    /\ client' = Settled(client, "current")
    /\ ServerAsIs

InRounds == job.rounds < MaxRounds

Questioned ==
    /\ job.revision = "current" /\ Calling({"asks"})
    /\ IF InRounds
         THEN Becomes([Turn(job, "question") EXCEPT !.rounds = @ + 1])
         ELSE Return
    /\ UNCHANGED client /\ ServerAsIs

\* Variant: the rounds are counted for each question anew.
UserRepliesAnew ==
    /\ job.kind = "call" /\ job.method = "question"
    /\ \/ Becomes([Turn(job, "tools/call") EXCEPT !.rounds = 0]) /\ UNCHANGED declined
       \/ Return /\ declined' = declined \union {job.call}
    /\ UNCHANGED <<choice, client, wire, late, made, done, loads>>

\* An answer goes out with the same call again; a no ends it.
UserReplies ==
    /\ job.kind = "call" /\ job.method = "question"
    /\ \/ Becomes(Turn(job, "tools/call")) /\ UNCHANGED declined
       \/ Return /\ declined' = declined \union {job.call}
    /\ UNCHANGED <<choice, client, wire, late, made, done, loads>>

InTime == job.polls + 1 < Deadline

\* The deadline ends the waiting, not the task.  It falls at any poll, an answer
\* being slow to come, and by the last at the latest.
Polls ==
    /\ job.method = "tasks/get" /\ wire \in {"result", "working"} /\ wire' = "idle"
    /\ \/ /\ wire = "working" /\ InTime
          /\ Becomes([Turn(job, "tasks/get") EXCEPT !.polls = @ + 1])
       \/ Return
    /\ UNCHANGED client /\ ServerAsIs

-----------------------------------------------------------------------------
Goes ==
    \/ Send \/ TimesOut \/ Errs \/ Shakes \/ Lists
    \/ Called \/ Started \/ Questioned \/ UserReplies \/ Polls

Next ==
    \/ Load \/ CacheExpires \/ \E c \in Calls : CallTool(c)
    \/ Serve \/ ServeLate
    \/ Goes

\* The calling thread goes on by itself: a request has a timeout, a poll an
\* interval of POLL_MAX at most, and a user answers a question.
Fairness == WF_vars(Goes)

Spec == Init /\ [][Next]_vars

FairSpec == Spec /\ Fairness

-----------------------------------------------------------------------------
(* Properties *)

\* The variables keep their types, and no request is out while a question stands
\* or nothing is asked of the client.
TypeOK ==
    /\ choice \in Choices /\ client \in Client /\ job \in Job
    /\ wire \in {"idle", "sent", "lost"} \union Answer
    /\ job.method = "question" => wire = "idle"
    /\ late \in SUBSET Calls /\ made \in SUBSET Calls /\ declined \in SUBSET Calls
    /\ done \in [Calls -> Nat] /\ loads \in 0 .. MaxLoads

\* What the user approved once is carried out once at most, however the answers
\* are lost and the requests delayed, through questions and fallback; and what the
\* user declined to answer for is not carried out at all.
CarriedOutOnce ==
    \A c \in Calls : done[c] <= IF c \in declined THEN 0 ELSE 1

\* A call is written in the revision its catalog was read in: nothing is left to
\* fall back from, which would be a second call.
CallsAreSettled ==
    job.kind = "call" => client.revision = job.revision

\* A call comes back, whatever the server says or does not say.
CallReturns == job.kind = "call" ~> job.kind = "none"

=============================================================================
