------------------------- MODULE OtherProcessProofs -------------------------
(***************************************************************************)
(* Two tools that have another process do their work: McpClient, for any   *)
(* calls and any number of pages, rounds and polls, and DbWrite, for any   *)
(* number of sessions beside another program and every bound.              *)
(*                                                                         *)
(* That an MCP call is carried out once rests on where its request is:     *)
(* while it has not been sent, or is out, or was answered by a question,   *)
(* the server has not carried it out and nothing of it is on the way       *)
(* elsewhere.  What a call of db_write says, has tried and leaves as the   *)
(* backup rests on what it knows of the database (CallInv).                *)
(***************************************************************************)
EXTENDS McpClient, DbWrite, SequenceTheorems, TLAPS

USE McpClientAssumption

\* What a job is about.
JobShape ==
    /\ job.kind = "none" => job.method = "question" /\ job.call = NoCall
    /\ job.kind = "load" =>
          /\ job.call = NoCall
          /\ job.method \in {"server/discover", "initialize", "initialized", "tools/list"}
    /\ job.kind = "call" =>
          /\ job.call \in made
          /\ job.method \in {"initialize", "initialized", "tools/call", "tasks/get", "question"}

\* The job of c has not reached the point where the server may have served it.
Unserved(c) ==
    /\ job.kind = "call" /\ job.call = c
    /\ \/ job.method \in {"initialize", "initialized", "question"}
       \/ job.method = "tools/call" /\ wire \in {"idle", "sent", "asks"}

\* Nothing of c happens or is on the way but its job.
Untouched(c) == done[c] = 0 /\ c \notin late /\ c \notin declined

\* Where a call may be, and how often it was carried out there.
Placed ==
    \A c \in Calls :
        /\ c \notin made => Untouched(c) /\ job.call # c
        /\ Unserved(c) => Untouched(c)
        /\ c \in late => done[c] = 0 /\ c \notin declined /\ job.call # c
        /\ c \in declined => done[c] = 0 /\ job.call # c
        /\ done[c] <= 1

Inv == TypeOK /\ JobShape /\ Placed

\* A loaded client has settled on a revision, and its calls are written in it.
SettledInv ==
    /\ client.loaded => client.revision # "open"
    /\ job.kind = "call" => client.revision = job.revision

-----------------------------------------------------------------------------
(* The operators on jobs and clients *)

\* What a record of the model is made of.
LEMMA NoJobIs ==
    /\ NoJob \in Job /\ NoJob.kind = "none" /\ NoJob.call = NoCall
    /\ NoJob.method = "question" /\ NoJob.rounds = 0 /\ NoJob.polls = 0
  BY DEF NoJob, Job, Method, Revision

\* Turn changes the method of a job and keeps what it is about.
LEMMA TurnIs ==
    ASSUME NEW j \in Job, NEW m \in Method
    PROVE  /\ Turn(j, m) \in Job /\ Turn(j, m).method = m
           /\ Turn(j, m).kind = j.kind /\ Turn(j, m).call = j.call
           /\ Turn(j, m).revision = j.revision
           /\ Turn(j, m).rounds = j.rounds /\ Turn(j, m).polls = j.polls
           /\ Turn(j, m).page = j.page
  BY DEF Turn, Job, Method

\* So does Opening, in its revision, with the handshake or without.
LEMMA OpeningIs ==
    ASSUME NEW j \in Job, NEW r \in Revision, NEW m \in Method
    PROVE  /\ Opening(j, r, m) \in Job /\ Opening(j, r, m).method \in {"initialize", m}
           /\ Opening(j, r, m).kind = j.kind /\ Opening(j, r, m).call = j.call
           /\ Opening(j, r, m).revision = r
<1> DEFINE k == [j EXCEPT !.revision = r]
           n == IF r = "legacy" /\ ~ client.handshaken THEN "initialize" ELSE m
<1>1. k \in Job /\ k.kind = j.kind /\ k.call = j.call /\ k.revision = r
  BY DEF Job
<1>2. n \in Method /\ n \in {"initialize", m}
  BY DEF Method
<1>3. Opening(j, r, m) = Turn(k, n)
  BY DEF Opening
<1> HIDE DEF k, n
<1> QED BY <1>1, <1>2, <1>3, TurnIs

\* A client settles once.
LEMMA SettledIs ==
    ASSUME NEW k \in Client, NEW r \in Revision
    PROVE  /\ Settled(k, r) \in Client /\ Settled(k, r).loaded = k.loaded
           /\ Settled(k, r).revision = IF k.revision = "open" THEN r ELSE k.revision
  BY DEF Settled, Client, Revision

\* The planned revision is the settled one, or one of the two.
LEMMA PlannedIs ==
    ASSUME TypeOK
    PROVE  /\ Planned \in Revision
           /\ client.revision # "open" => Planned = client.revision
  BY DEF TypeOK, Planned, Client, Revision

\* The job goes on with one of the methods of ms.
GoesOn(ms) ==
    /\ job' \in Job /\ job'.kind = job.kind /\ job'.call = job.call
    /\ job'.method \in ms

SameClient == client' = client

-----------------------------------------------------------------------------
(* What each step of the client makes of its job *)

\* An error ends the job, but for the requests that may fail and the fallback.
LEMMA AfterIs ==
    ASSUME TypeOK, NEW e, After(e)
    PROVE  \/ job' = NoJob /\ SameClient
           \/ /\ job.method = "server/discover" /\ GoesOn({"tools/list"}) /\ SameClient
              /\ job'.revision = job.revision
           \/ /\ job.method = "initialized" /\ SameClient /\ job'.revision = job.revision
              /\ GoesOn({IF job.kind = "load" THEN "tools/list" ELSE "tools/call"})
           \/ /\ job.method = "tools/list" /\ GoesOn({"initialize", "tools/list"})
              /\ client' \in Client /\ client'.revision = "legacy"
              /\ client'.loaded = client.loaded
<1> DEFINE first == [job EXCEPT !.page = 1]
<1>0. /\ job \in Job /\ client \in Client /\ 1 \in 1 .. MaxPages
      /\ {"tools/list", "tools/call"} \subseteq Method /\ "legacy" \in Revision
  BY DEF TypeOK, Method, Revision
<1>1. CASE job.method = "server/discover" /\ job' = Turn(job, "tools/list") /\ SameClient
  BY <1>0, <1>1, TurnIs DEF GoesOn
<1>2. CASE /\ job.method = "initialized" /\ SameClient
           /\ job' = Turn(job, IF job.kind = "load" THEN "tools/list" ELSE "tools/call")
  BY <1>0, <1>2, TurnIs DEF GoesOn
<1>3. CASE /\ job.method = "tools/list"
           /\ client' = [client EXCEPT !.fellBack = TRUE, !.revision = "legacy"]
           /\ job' = Opening(first, "legacy", "tools/list")
  <2>1. first \in Job /\ first.kind = job.kind /\ first.call = job.call
    BY <1>0 DEF Job
  <2>2. client' \in Client /\ client'.revision = "legacy" /\ client'.loaded = client.loaded
    BY <1>0, <1>3 DEF Client, Revision
  <2> HIDE DEF first
  <2>3. /\ Opening(first, "legacy", "tools/list") \in Job
        /\ Opening(first, "legacy", "tools/list").method \in {"initialize", "tools/list"}
        /\ Opening(first, "legacy", "tools/list").kind = job.kind
        /\ Opening(first, "legacy", "tools/list").call = job.call
    BY <1>0, <2>1, OpeningIs
  <2> QED BY <1>3, <2>2, <2>3 DEF GoesOn
<1> QED BY <1>1, <1>2, <1>3 DEF After, FallsBack, Becomes, Return, SameClient

\* Where the job goes: to its end, or on with what it is about, from Unserved alone
\* to Unserved.
JobGoes ==
    \/ job' = NoJob
    \/ /\ job.kind \in {"load", "call"}
       /\ job' \in Job /\ job'.kind = job.kind /\ job'.call = job.call
       /\ job'.method \in IF job.kind = "load"
                            THEN {"server/discover", "initialize", "initialized", "tools/list"}
                            ELSE {"initialize", "initialized", "tools/call", "tasks/get",
                                  "question"}
       /\ job.kind = "call" => job'.revision = job.revision
       /\ \A c \in Calls : Unserved(c)' => Unserved(c)

\* What the client keeps of its revision.
ClientGoes ==
    /\ client' \in Client
    /\ client'.loaded => client.loaded \/ client'.revision # "open"
    /\ client.revision # "open" => client'.revision # "open"
    /\ client.revision # "open" /\ job.kind = "call" => client'.revision = client.revision

Kinds == TypeOK /\ JobShape

LEMMA KindsAre ==
    ASSUME Kinds
    PROVE  /\ job \in Job /\ client \in Client
           /\ job.method # "question" => job.kind \in {"load", "call"}
           /\ job.method \in {"tools/list", "server/discover"} => job.kind = "load"
           /\ job.method \in {"tools/call", "tasks/get"} => job.kind = "call"
  BY DEF Kinds, TypeOK, JobShape, Job

\* After an error the job goes where it may.
LEMMA AfterGoes ==
    ASSUME Kinds, NEW e, After(e), job.method # "question", wire' = "idle"
    PROVE  JobGoes /\ ClientGoes
<1>1. TypeOK /\ job \in Job /\ client \in Client
      /\ job.kind \in {"load", "call"}
      /\ (job.method \in {"tools/list", "server/discover"} => job.kind = "load")
  BY KindsAre DEF Kinds
<1>2. ClientGoes
  BY <1>1, AfterIs DEF ClientGoes, SameClient
<1>3. CASE job' = NoJob
  BY <1>2, <1>3 DEF JobGoes
<1>4. CASE /\ job.method = "server/discover" /\ GoesOn({"tools/list"})
           /\ job'.revision = job.revision
  BY <1>1, <1>2, <1>4 DEF JobGoes, GoesOn, Unserved
<1>5. CASE /\ job.method = "initialized" /\ job'.revision = job.revision
           /\ GoesOn({IF job.kind = "load" THEN "tools/list" ELSE "tools/call"})
  BY <1>1, <1>2, <1>5 DEF JobGoes, GoesOn, Unserved
<1>6. CASE job.method = "tools/list" /\ GoesOn({"initialize", "tools/list"})
  BY <1>1, <1>2, <1>6 DEF JobGoes, GoesOn, Unserved
<1> QED BY <1>1, <1>3, <1>4, <1>5, <1>6, AfterIs

\* A step of the calling thread takes its job and its client where they may go, and
\* leaves the wire idle unless it sends.
LEMMA GoesIs ==
    ASSUME Kinds, Goes
    PROVE  JobGoes /\ ClientGoes
<1>0. /\ job \in Job /\ client \in Client /\ "tools/list" \in Method
      /\ {"initialized", "tools/call", "tasks/get", "question"} \subseteq Method
      /\ {"current", "legacy"} = Revision
      /\ client' = client => ClientGoes
  BY KindsAre DEF Method, Revision, ClientGoes
<1>1. CASE Send
  <2>1. job' = job /\ client' = client /\ job.method # "question" /\ wire' = "sent"
        /\ wire = "idle"
    BY <1>1 DEF Send
  <2>2. \A c \in Calls : Unserved(c)' => Unserved(c)
    BY <2>1 DEF Unserved
  <2> QED BY <1>0, <2>1, <2>2, KindsAre DEF JobGoes, Kinds, JobShape
<1>2. CASE TimesOut
  <2>1. wire' = "idle" /\ wire # "idle" /\ job.method # "question"
    BY <1>2 DEF TimesOut, Kinds, TypeOK
  <2>2. CASE After("wire")
    BY <2>1, <2>2, AfterGoes
  <2>3. CASE job.method \in Reads /\ job' = [job EXCEPT !.again = TRUE] /\ client' = client
    <3>1. /\ job' \in Job /\ job'.kind = job.kind /\ job'.call = job.call
          /\ job'.method = job.method /\ job'.revision = job.revision
      BY <1>0, <2>3 DEF Job
    <3>2. \A c \in Calls : Unserved(c)' => Unserved(c)
      BY <2>3, <3>1 DEF Unserved, Reads
    <3> QED BY <1>0, <2>1, <2>3, <3>1, <3>2, KindsAre DEF JobGoes, Kinds, JobShape
  <2> QED BY <1>2, <2>2, <2>3 DEF TimesOut, Becomes
<1>3. CASE Errs
  <2>1. wire' = "idle" /\ wire # "idle" /\ After(wire) /\ job.method # "question"
    BY <1>3 DEF Errs, Kinds, TypeOK
  <2> QED BY <2>1, AfterGoes
<1>4. CASE Shakes
  <2>1. wire' = "idle" /\ wire # "idle" /\ job.method # "question"
    BY <1>4 DEF Shakes, Kinds, TypeOK
  <2>2. CASE After("none")
    BY <2>1, <2>2, AfterGoes
  <2>3. CASE /\ job.method = "initialize" /\ job' = Turn(job, "initialized")
             /\ client' = [client EXCEPT !.handshaken = TRUE]
    <3>1. /\ job' \in Job /\ job'.kind = job.kind /\ job'.call = job.call
          /\ job'.method = "initialized" /\ job'.revision = job.revision
      BY <1>0, <2>3, TurnIs
    <3>2. ClientGoes
      BY <1>0, <2>3 DEF ClientGoes, Client
    <3> QED BY <2>1, <2>3, <3>1, <3>2, KindsAre DEF JobGoes, Unserved
  <2> QED BY <1>4, <2>2, <2>3 DEF Shakes, Becomes
<1>5. CASE Lists
  <2>1. job.method = "tools/list" /\ job.kind = "load" /\ wire' = "idle"
    BY <1>5, KindsAre DEF Lists
  <2>2. CASE job' = NoJob /\ client' = [Settled(client, job.revision) EXCEPT !.cached = TRUE,
                                                                            !.loaded = TRUE]
    <3>1. job.revision \in Revision /\ "open" \notin Revision
      BY <1>0 DEF Job, Revision
    <3>2. /\ Settled(client, job.revision) \in Client
          /\ Settled(client, job.revision).revision # "open"
      BY <1>0, <3>1, SettledIs DEF Client
    <3>3. client' \in Client /\ client'.revision # "open"
      BY <2>2, <3>2 DEF Client
    <3> QED BY <2>1, <2>2, <3>3 DEF JobGoes, ClientGoes
  <2>3. CASE /\ job.page < MaxPages /\ client' = client
             /\ job' = [Turn(job, "tools/list") EXCEPT !.page = @ + 1]
    <3>1. /\ Turn(job, "tools/list") \in Job /\ Turn(job, "tools/list").kind = job.kind
          /\ Turn(job, "tools/list").call = job.call
          /\ Turn(job, "tools/list").page = job.page
          /\ Turn(job, "tools/list").method = "tools/list"
      BY <1>0, TurnIs
    <3>2. job.page + 1 \in 1 .. MaxPages
      BY <1>0, <2>3 DEF Job
    <3>3. /\ job' \in Job /\ job'.kind = job.kind /\ job'.call = job.call
          /\ job'.method = "tools/list"
      BY <2>3, <3>1, <3>2 DEF Job
    <3> QED BY <1>0, <2>1, <2>3, <3>3 DEF JobGoes, Unserved
  <2> QED BY <1>5, <2>2, <2>3 DEF Lists, Return, Becomes
<1>6. CASE Called
  <2>1. job' = NoJob /\ client' \in {client, Settled(client, "current")}
    BY <1>6 DEF Called, Return
  <2> QED BY <1>0, <2>1, SettledIs DEF JobGoes, ClientGoes
<1>7. CASE Started
  <2>1. /\ job.method = "tools/call" /\ job' = Turn(job, "tasks/get")
        /\ client' = Settled(client, "current")
    BY <1>7 DEF Started, Calling, Becomes
  <2>2. /\ job' \in Job /\ job'.kind = job.kind /\ job'.call = job.call
        /\ job'.method = "tasks/get" /\ job'.revision = job.revision
    BY <1>0, <2>1, TurnIs
  <2>3. ClientGoes
    BY <1>0, <2>1, SettledIs DEF ClientGoes
  <2> QED BY <2>1, <2>2, <2>3, KindsAre DEF JobGoes, Unserved
<1>8. CASE Questioned
  <2>1. job.method = "tools/call" /\ job.kind = "call" /\ wire = "asks" /\ client' = client
    BY <1>8, KindsAre DEF Questioned, Calling
  <2>2. CASE job' = NoJob
    BY <1>0, <2>1, <2>2 DEF JobGoes
  <2>3. CASE InRounds /\ job' = [Turn(job, "question") EXCEPT !.rounds = @ + 1]
    <3>1. /\ Turn(job, "question") \in Job /\ Turn(job, "question").kind = job.kind
          /\ Turn(job, "question").call = job.call
          /\ Turn(job, "question").rounds = job.rounds
          /\ Turn(job, "question").method = "question"
          /\ Turn(job, "question").revision = job.revision
      BY <1>0, TurnIs
    <3>2. job.rounds + 1 \in 0 .. MaxRounds
      BY <1>0, <2>3 DEF Job, InRounds
    <3>3. /\ job' \in Job /\ job'.kind = job.kind /\ job'.call = job.call
          /\ job'.method = "question" /\ job'.revision = job.revision
      BY <2>3, <3>1, <3>2 DEF Job
    <3> QED BY <1>0, <2>1, <3>3 DEF JobGoes, Unserved
  <2> QED BY <1>8, <2>2, <2>3 DEF Questioned, Return, Becomes
<1>9. CASE UserReplies
  <2>1. /\ job.kind = "call" /\ job.method = "question" /\ client' = client
        /\ job' = NoJob \/ job' = Turn(job, "tools/call")
    BY <1>9 DEF UserReplies, Return, Becomes
  <2>2. CASE job' = Turn(job, "tools/call")
    <3>1. /\ job' \in Job /\ job'.kind = job.kind /\ job'.call = job.call
          /\ job'.method = "tools/call" /\ job'.revision = job.revision
      BY <1>0, <2>2, TurnIs
    <3> QED BY <1>0, <2>1, <3>1 DEF JobGoes, Unserved
  <2> QED BY <1>0, <2>1, <2>2 DEF JobGoes
<1>10. CASE Polls
  <2>1. job.method = "tasks/get" /\ job.kind = "call" /\ client' = client
    BY <1>10, KindsAre DEF Polls
  <2>2. CASE job' = NoJob
    BY <1>0, <2>1, <2>2 DEF JobGoes
  <2>3. CASE InTime /\ job' = [Turn(job, "tasks/get") EXCEPT !.polls = @ + 1]
    <3>1. /\ Turn(job, "tasks/get") \in Job /\ Turn(job, "tasks/get").kind = job.kind
          /\ Turn(job, "tasks/get").call = job.call
          /\ Turn(job, "tasks/get").polls = job.polls
          /\ Turn(job, "tasks/get").method = "tasks/get"
          /\ Turn(job, "tasks/get").revision = job.revision
      BY <1>0, TurnIs
    <3>2. job.polls + 1 \in 0 .. Deadline
      BY <1>0, <2>3 DEF Job, InTime
    <3>3. /\ job' \in Job /\ job'.kind = job.kind /\ job'.call = job.call
          /\ job'.method = "tasks/get" /\ job'.revision = job.revision
      BY <2>3, <3>1, <3>2 DEF Job
    <3> QED BY <1>0, <2>1, <3>3 DEF JobGoes, Unserved
  <2> QED BY <1>10, <2>2, <2>3 DEF Polls, Return, Becomes
<1> QED BY <1>1, <1>2, <1>3, <1>4, <1>5, <1>6, <1>7, <1>8, <1>9, <1>10 DEF Goes

\* What else a step of the calling thread may change: the wire, a call whose request
\* was given up, and a call the user declined.
LEMMA GoesServer ==
    ASSUME Kinds, Goes
    PROVE  /\ wire' \in {"idle", "sent"} /\ (job'.method = "question" => wire' = "idle")
           /\ done' = done /\ made' = made /\ choice' = choice /\ loads' = loads
           /\ \/ late' = late
              \/ /\ job.method = "tools/call" /\ wire = "sent" /\ job' = NoJob
                 /\ late' = late \union {job.call}
           /\ \/ declined' = declined
              \/ /\ job.method = "question" /\ job.kind = "call" /\ job' = NoJob
                 /\ declined' = declined \union {job.call}
<1>1. CASE Send
  BY <1>1 DEF Send, ServerAsIs
<1>2. CASE TimesOut
  <2>1. /\ wire' = "idle" /\ done' = done /\ made' = made /\ choice' = choice
        /\ loads' = loads /\ declined' = declined
        /\ \/ late' = late
           \/ /\ job.method = "tools/call" /\ wire = "sent"
              /\ late' = late \union {job.call}
    BY <1>2 DEF TimesOut
  <2>2. job.method = "tools/call" => job' = NoJob
    BY <1>2 DEF TimesOut, Reads, After, FallsBack, Return
  <2> QED BY <2>1, <2>2
<1>3. CASE Errs \/ Shakes \/ Lists \/ Called \/ Started \/ Questioned \/ Polls
  BY <1>3 DEF Errs, Shakes, Lists, Called, Started, Questioned, Polls, Calling, ServerAsIs
<1>4. CASE UserReplies
  BY <1>4 DEF UserReplies, Return, Kinds, TypeOK
<1> QED BY <1>1, <1>2, <1>3, <1>4 DEF Goes

-----------------------------------------------------------------------------
(* Types *)

\* What a request for the catalog or a call begins with.
LEMMA LoadIs ==
    ASSUME TypeOK, Load
    PROVE  /\ job' \in Job /\ job'.kind = "load" /\ job'.call = NoCall
           /\ job'.method \in {"server/discover", "initialize", "tools/list"}
           /\ client' \in Client /\ client'.loaded = client.loaded
           /\ client'.revision = client.revision
<1> DEFINE j == [NoJob EXCEPT !.kind = "load"]
<1>1. j \in Job /\ j.kind = "load" /\ j.call = NoCall
  BY NoJobIs DEF Job
<1>2. {"server/discover", "tools/list"} \subseteq Method /\ client \in Client
  BY DEF Method, TypeOK
<1>3. \/ /\ job' = Turn(j, "server/discover")
         /\ client' = [client EXCEPT !.discovered = TRUE]
      \/ job' = Opening(j, Planned, "tools/list") /\ client' = client
  BY DEF Load
<1>4. /\ client' \in Client /\ client'.loaded = client.loaded
      /\ client'.revision = client.revision
  BY <1>2, <1>3 DEF Client
<1> HIDE DEF j
<1> QED BY <1>1, <1>2, <1>3, <1>4, PlannedIs, TurnIs, OpeningIs

LEMMA CallIs ==
    ASSUME TypeOK, NEW c \in Calls, CallTool(c)
    PROVE  /\ job' \in Job /\ job'.kind = "call" /\ job'.call = c
           /\ job'.method \in {"initialize", "tools/call"}
           /\ job'.revision = Planned
<1> DEFINE j == [NoJob EXCEPT !.kind = "call", !.call = c]
<1>1. j \in Job /\ j.kind = "call" /\ j.call = c
  BY NoJobIs DEF Job
<1>2. "tools/call" \in Method
  BY DEF Method
<1>3. job' = Opening(j, Planned, "tools/call")
  BY DEF CallTool
<1> HIDE DEF j
<1> QED BY <1>1, <1>2, <1>3, PlannedIs, OpeningIs

\* What the server may do to the calls.
LEMMA ServerIs ==
    ASSUME TypeOK, Serve \/ ServeLate
    PROVE  /\ wire' \in {"idle", "sent", "lost"} \union Answer
           /\ done' \in [Calls -> Nat] /\ late' \subseteq late
           /\ job' = job /\ client' = client /\ made' = made /\ declined' = declined
           /\ choice' = choice /\ loads' = loads
           /\ job.method = "question" => wire' = "idle"
           /\ \A c \in Calls : done'[c] # done[c] =>
                 \/ c \in late /\ c \notin late' /\ done'[c] <= done[c] + 1
                 \/ /\ job.method = "tools/call" /\ job.call = c
                    /\ wire = "sent" /\ wire' \notin {"idle", "sent", "asks"}
                    /\ done'[c] <= done[c] + 1
<1>1. CASE ServeLate
  <2>1. PICK c \in late : /\ late' = late \ {c}
                          /\ \E n \in {0, 1} : done' = [done EXCEPT ![c] = @ + n]
    BY <1>1 DEF ServeLate
  <2>2. c \in Calls
    BY DEF TypeOK
  <2> QED BY <1>1, <2>1, <2>2 DEF ServeLate, TypeOK
<1>2. CASE Serve
  <2>1. PICK answer \in Says(job.method, job.revision), lost \in BOOLEAN :
          /\ wire' = IF lost THEN "lost" ELSE answer
          /\ IF job.method = "tools/call"
               THEN \E n \in CarriesOut(answer) : done' = [done EXCEPT ![job.call] = @ + n]
               ELSE UNCHANGED done
    BY <1>2 DEF Serve
  <2>2. answer \in Answer
    BY DEF Says, Answer
  <2>3. wire = "sent" /\ late' = late /\ job.method # "question"
    BY <1>2 DEF Serve, TypeOK
  <2>4. CASE job.method # "tools/call"
    BY <1>2, <2>1, <2>2, <2>3, <2>4 DEF Serve, TypeOK
  <2>5. CASE job.method = "tools/call"
    <3>1. PICK n \in CarriesOut(answer) : done' = [done EXCEPT ![job.call] = @ + n]
      BY <2>1, <2>5
    <3>2. n \in {0, 1} /\ (answer = "asks" => n = 0)
      BY DEF CarriesOut
    <3>3. done' \in [Calls -> Nat] /\ \A c \in Calls : done'[c] # done[c] =>
             c = job.call /\ answer # "asks" /\ done'[c] <= done[c] + 1
      <4> DEFINE k == job.call
      <4>1. done \in [Calls -> Nat] /\ done' = [done EXCEPT ![k] = @ + n]
        BY <3>1 DEF TypeOK
      <4> HIDE DEF k
      <4>2. done' = [c \in Calls |-> IF c = k THEN done[c] + n ELSE done[c]]
        BY <4>1
      <4>3. ASSUME NEW c \in Calls
            PROVE  /\ done'[c] \in Nat
                   /\ done'[c] # done[c] => c = k /\ n = 1 /\ done'[c] <= done[c] + 1
        <5>1. done[c] \in Nat /\ done'[c] = IF c = k THEN done[c] + n ELSE done[c]
          BY <4>1, <4>2
        <5>2. CASE n = 0
          BY <5>1, <5>2
        <5>3. CASE n = 1
          BY <5>1, <5>3
        <5> QED BY <3>2, <5>2, <5>3
      <4>4. done' \in [Calls -> Nat]
        BY <4>2, <4>3
      <4> QED BY <3>2, <4>3, <4>4 DEF k
    <3>4. wire' \in {"lost"} \union Answer /\ (wire' = "asks" => answer = "asks")
      BY <2>1, <2>2
    <3> QED BY <1>2, <2>3, <2>5, <3>3, <3>4 DEF Serve, Answer
  <2> QED BY <2>4, <2>5
<1> QED BY <1>1, <1>2

LEMMA InitKinds == Init => Kinds
<1> SUFFICES ASSUME Init PROVE Kinds
  OBVIOUS
<1>1. client \in Client
  BY DEF Init, Client, Revision
<1> QED BY <1>1, NoJobIs DEF Init, Kinds, TypeOK, JobShape

\* Every step keeps the types, and a job to what it is about.
LEMMA StepKinds == Kinds /\ [Next]_vars => Kinds'
<1> SUFFICES ASSUME Kinds, [Next]_vars PROVE Kinds'
  OBVIOUS
<1> USE DEF Kinds
<1>1. CASE Load
  BY <1>1, LoadIs DEF Load, TypeOK, JobShape
<1>2. CASE CacheExpires
  BY <1>2 DEF CacheExpires, ServerAsIs, TypeOK, JobShape, Client
<1>3. ASSUME NEW c \in Calls, CallTool(c) PROVE Kinds'
  BY <1>3, CallIs, NoJobIs DEF CallTool, TypeOK, JobShape
<1>4. CASE Serve \/ ServeLate
  BY <1>4, ServerIs DEF TypeOK, JobShape
<1>5. CASE Goes
  <2>1. job' \in Job /\ client' \in Client /\ JobShape'
    BY <1>5, GoesIs, GoesServer, NoJobIs DEF JobGoes, ClientGoes, JobShape
  <2>2. job.kind = "call" => job.call \in Calls
    BY DEF TypeOK, JobShape
  <2>3. late' \in SUBSET Calls /\ declined' \in SUBSET Calls
    BY <1>5, <2>2, GoesServer, KindsAre DEF TypeOK
  <2> QED BY <1>5, <2>1, <2>3, GoesServer DEF TypeOK
<1>6. CASE UNCHANGED vars
  BY <1>6 DEF vars, TypeOK, JobShape
<1> QED BY <1>1, <1>2, <1>3, <1>4, <1>5, <1>6 DEF Next

\* The client, its job and its requests have their types: no page, round or poll
\* goes past its limit, and no request is out while a question stands or nothing is
\* asked of the client.
THEOREM TypeCorrect == Spec => []TypeOK
<1>1. Kinds => TypeOK
  BY DEF Kinds
<1> QED BY <1>1, InitKinds, StepKinds, PTL DEF Spec

-----------------------------------------------------------------------------
(* A call is carried out once *)

\* A step of the calling thread keeps every call in its place.
LEMMA GoesPlaced ==
    ASSUME Kinds, Placed, Goes, NEW c \in Calls
    PROVE  /\ c \notin made' => Untouched(c)' /\ job'.call # c
           /\ Unserved(c)' => Untouched(c)'
           /\ c \in late' => done'[c] = 0 /\ c \notin declined' /\ job'.call # c
           /\ c \in declined' => done'[c] = 0 /\ job'.call # c
           /\ done'[c] <= 1
<1>0. /\ made' = made /\ done' = done /\ NoJob.call # c /\ NoJob.kind = "none"
      /\ job' = NoJob \/ job'.call = job.call
      /\ job.kind = "call" => job.call \in made
  BY GoesIs, GoesServer, NoJobIs DEF JobGoes, Kinds, JobShape
<1>1. job' # NoJob /\ Unserved(c)' => Unserved(c)
  BY GoesIs DEF JobGoes
<1>2. ~ (job' = NoJob /\ Unserved(c)')
  BY <1>0 DEF Unserved
<1>3. CASE late' = late /\ declined' = declined
  BY <1>0, <1>1, <1>2, <1>3 DEF Placed, Untouched
<1>4. CASE /\ job.method = "tools/call" /\ wire = "sent" /\ job' = NoJob
           /\ late' = late \union {job.call} /\ declined' = declined
  <2>1. job.call = c => Unserved(c)
    BY <1>4, KindsAre DEF Unserved
  <2> QED BY <1>0, <1>2, <1>4, <2>1, KindsAre DEF Placed, Untouched
<1>5. CASE /\ job.method = "question" /\ job.kind = "call" /\ job' = NoJob
           /\ declined' = declined \union {job.call} /\ late' = late
  <2>1. job.call = c => Unserved(c)
    BY <1>5 DEF Unserved
  <2> QED BY <1>0, <1>2, <1>5, <2>1 DEF Placed, Untouched
<1> QED BY <1>3, <1>4, <1>5, GoesServer

\* What the server does keeps every call in its place.
LEMMA ServerPlaced ==
    ASSUME Kinds, Placed, Serve \/ ServeLate, NEW c \in Calls
    PROVE  /\ c \notin made' => Untouched(c)' /\ job'.call # c
           /\ Unserved(c)' => Untouched(c)'
           /\ c \in late' => done'[c] = 0 /\ c \notin declined' /\ job'.call # c
           /\ c \in declined' => done'[c] = 0 /\ job'.call # c
           /\ done'[c] <= 1
<1>1. /\ late' \subseteq late /\ job' = job /\ made' = made /\ declined' = declined
      /\ job.method = "question" => wire' = "idle"
      /\ wire' \in {"idle", "sent", "asks"} /\ job.method = "tools/call" =>
            wire \in {"idle", "sent", "asks"}
  BY ServerIs DEF Serve, ServeLate, Kinds
<1>2. Unserved(c)' => Unserved(c)
  BY <1>1 DEF Unserved
<1>3. CASE done'[c] = done[c]
  BY <1>1, <1>2, <1>3 DEF Placed, Untouched
<1>4. CASE c \in late /\ c \notin late' /\ done'[c] <= done[c] + 1
  BY <1>1, <1>2, <1>4 DEF Placed, Untouched
<1>5. CASE /\ job.method = "tools/call" /\ job.call = c /\ wire = "sent"
           /\ wire' \notin {"idle", "sent", "asks"} /\ done'[c] <= done[c] + 1
  <2>1. Unserved(c) /\ ~ Unserved(c)' /\ c \in made
    BY <1>1, <1>5, KindsAre DEF Unserved, Kinds, JobShape
  <2> QED BY <1>1, <1>5, <2>1 DEF Placed, Untouched
<1> QED BY <1>3, <1>4, <1>5, ServerIs DEF Kinds

\* Every step keeps every call in its place.
LEMMA StepPlaced == Kinds /\ Placed /\ [Next]_vars => Placed'
<1> SUFFICES ASSUME Kinds, Placed, [Next]_vars PROVE Placed'
  OBVIOUS
<1>1. CASE Load
  <2>1. /\ job'.kind = "load" /\ job'.call = NoCall
        /\ UNCHANGED <<made, done, late, declined>>
    BY <1>1, LoadIs DEF Load, Kinds
  <2> QED BY <2>1 DEF Placed, Unserved, Untouched
<1>2. CASE CacheExpires
  BY <1>2 DEF CacheExpires, ServerAsIs, Placed, Unserved, Untouched
<1>3. ASSUME NEW c \in Calls, CallTool(c) PROVE Placed'
  <2>1. /\ job'.call = c /\ c \notin made /\ made' = made \union {c}
        /\ UNCHANGED <<done, late, declined>>
    BY <1>3, CallIs DEF CallTool, Kinds
  <2>2. Untouched(c)
    BY <2>1 DEF Placed
  <2> QED BY <2>1, <2>2 DEF Placed, Unserved, Untouched
<1>4. CASE Serve \/ ServeLate
  BY <1>4, ServerPlaced DEF Placed
<1>5. CASE Goes
  BY <1>5, GoesPlaced DEF Placed
<1>6. CASE UNCHANGED vars
  BY <1>6 DEF vars, Placed, Unserved, Untouched
<1> QED BY <1>1, <1>2, <1>3, <1>4, <1>5, <1>6 DEF Next

\* Inv is inductive.
LEMMA Inductive == Spec => []Inv
<1>1. Init => Inv
  BY InitKinds, NoJobIs DEF Init, Inv, Kinds, Placed, Unserved, Untouched
<1>2. Inv /\ [Next]_vars => Inv'
  BY StepKinds, StepPlaced DEF Inv, Kinds
<1> QED BY <1>1, <1>2, PTL DEF Spec

\* `tools/call` "is never retried": whatever is lost, late, asked or fallen back
\* from, a call is carried out once at most, and never once the user declined.
THEOREM OnceOnly == Spec => []CarriedOutOnce
<1>1. Inv => CarriedOutOnce
  BY DEF Inv, TypeOK, Placed, CarriedOutOnce
<1> QED BY <1>1, Inductive, PTL

-----------------------------------------------------------------------------
(* Calls are written in the revision the catalog was read in *)

\* A step keeps SettledInv.
LEMMA StepSettled == Kinds /\ SettledInv /\ [Next]_vars => SettledInv'
<1> SUFFICES ASSUME Kinds, SettledInv, [Next]_vars PROVE SettledInv'
  OBVIOUS
<1>1. CASE Load
  BY <1>1, LoadIs DEF Kinds, SettledInv
<1>2. CASE CacheExpires
  BY <1>2 DEF CacheExpires, SettledInv, Kinds, TypeOK, Client
<1>3. ASSUME NEW c \in Calls, CallTool(c) PROVE SettledInv'
  BY <1>3, CallIs, PlannedIs DEF CallTool, SettledInv, Kinds
<1>4. CASE Serve \/ ServeLate
  BY <1>4, ServerIs DEF SettledInv, Kinds
<1>5. CASE Goes
  <2>1. job.kind = "call" => client.revision # "open"
    BY DEF Kinds, TypeOK, SettledInv, Job, Revision
  <2> QED BY <1>5, <2>1, GoesIs, NoJobIs DEF JobGoes, ClientGoes, SettledInv
<1>6. CASE UNCHANGED vars
  BY <1>6 DEF vars, SettledInv
<1> QED BY <1>1, <1>2, <1>3, <1>4, <1>5, <1>6 DEF Next

\* By the time a tool is called nothing is left to fall back from, as `tools` says:
\* a fallback would send the call a second time.
THEOREM CallsSettled == Spec => []CallsAreSettled
<1>1. Init => Kinds /\ SettledInv
  BY InitKinds, NoJobIs DEF Init, SettledInv
<1>2. Kinds /\ SettledInv /\ [Next]_vars => (Kinds /\ SettledInv)'
  BY StepKinds, StepSettled
<1>3. SettledInv => CallsAreSettled
  BY DEF SettledInv, CallsAreSettled
<1> QED BY <1>1, <1>2, <1>3, PTL DEF Spec

-----------------------------------------------------------------------------
(* db_write *)

USE AppAssumption, LimitsAssumption

Writes == Seq(Sessions \union {App})

File == [state : {"whole", "torn", "none"}, is : Writes]

Encounters == {"write", "race", "backup"}

-----------------------------------------------------------------------------
(* Types *)

LEMMA FilesAre ==
    /\ << >> \in Writes
    /\ Torn \in File /\ NoFile \in File /\ \A w \in Writes : Whole(w) \in File
    /\ \A w \in Writes, a \in Sessions \union {App} : Append(w, a) \in Writes
    /\ \A w \in Writes : w \o << >> = w
<1>1. << >> \in Writes
  BY DEF Writes
<1>2. \A w \in Writes, a \in Sessions \union {App} : Append(w, a) \in Writes
  BY AppendProperties DEF Writes
<1>3. \A w \in Writes : w \o << >> = w
  BY ConcatEmptySeq DEF Writes
<1> HIDE DEF Writes
<1>4. QED
  BY <1>1, <1>2, <1>3 DEF Torn, NoFile, Whole, File

LEMMA NowIs ==
    ASSUME DbTypeOK
    PROVE  /\ db.main \in Writes /\ db.log \in Writes /\ db.hot \in BOOLEAN
           /\ Now \in Writes
BY ConcatProperties DEF DbTypeOK, Writes, Now

\* What a run leaves in the database.
LEMMA RunTypes ==
    ASSUME DbTypeOK, NEW s \in Sessions
    PROVE  LET database == [main : Writes, hot : BOOLEAN, log : Writes] IN
           /\ Changed(s) \in database /\ Opened \in database
           /\ [db EXCEPT !.log = Append(@, s)] \in database
           /\ [db EXCEPT !.hot = ~ wal] \in database
<1>1. /\ db \in [main : Writes, hot : BOOLEAN, log : Writes]
      /\ wal \in BOOLEAN /\ Now \in Writes
  BY NowIs DEF DbTypeOK, Writes
<1>2. Append(db.log, s) \in Writes /\ Append(Now, s) \in Writes /\ << >> \in Writes
  BY <1>1, NowIs, FilesAre
<1>3. [db EXCEPT !.log = Append(db.log, s)] \in [main : Writes, hot : BOOLEAN, log : Writes]
  BY <1>1, <1>2
<1>4. [db EXCEPT !.hot = ~ wal] \in [main : Writes, hot : BOOLEAN, log : Writes]
  BY <1>1
<1>5. QED
  BY <1>1, <1>2, <1>3, <1>4 DEF Changed, Opened

LEMMA MeetType ==
    ASSUME DbTypeOK, NEW who, NEW what \in {"write", "backup"}, Meet(who, what)
    PROVE  met' \in [Sessions -> SUBSET Encounters]
BY DEF DbTypeOK, Meet, Encounters

LEMMA TypeStep == DbTypeOK /\ [DbNext]_dbVars => DbTypeOK'
<1> SUFFICES ASSUME DbTypeOK, [DbNext]_dbVars
             PROVE  DbTypeOK'
  OBVIOUS
<1>1. /\ wal \in BOOLEAN /\ db \in [main : Writes, hot : BOOLEAN, log : Writes]
      /\ app \in [open : BOOLEAN, writing : BOOLEAN]
      /\ backup \in [file : File, by : Sessions \union {App}]
      /\ image \in [Sessions -> File] /\ mine \in [Sessions -> BOOLEAN]
      /\ met \in [Sessions -> SUBSET Encounters] /\ spent \in [Bounded -> Nat]
  BY DEF DbTypeOK, Writes, File, Encounters
<1> DEFINE Kind ==
       /\ wal' \in BOOLEAN /\ db' \in [main : Writes, hot : BOOLEAN, log : Writes]
       /\ app' \in [open : BOOLEAN, writing : BOOLEAN]
       /\ backup' \in [file : File, by : Sessions \union {App}]
       /\ image' \in [Sessions -> File] /\ mine' \in [Sessions -> BOOLEAN]
       /\ met' \in [Sessions -> SUBSET Encounters]
           Place == {"idle", "check", "copy", "trial", "asking", "backup", "fill", "run"}
           Outcome == {"nothing", "refused", "failed", "declined", "written"}
<1>2. SUFFICES /\ Kind /\ spent' \in [Bounded -> Nat]
               /\ pc' \in [Sessions -> Place] /\ said' \in [Sessions -> Outcome]
  BY DEF DbTypeOK, Writes, File, Encounters
<1>3. pc \in [Sessions -> Place] /\ said \in [Sessions -> Outcome]
  BY DEF DbTypeOK
<1> HIDE DEF Place, Outcome
<1>4. spent' \in [Bounded -> Nat]
  <2>1. ASSUME NEW what \in Bounded, Spend(what) PROVE spent' \in [Bounded -> Nat]
    BY <1>1, <2>1 DEF Spend
  <2>2. "call" \in Bounded /\ "app" \in Bounded /\ "fault" \in Bounded
    BY DEF Bounded
  <2>3. UNCHANGED spent \/ Spend("call") \/ Spend("app") \/ Spend("fault")
    BY DEF DbNext, dbVars, Free, AppOpens, Begin, Commit, Rollback, AppCloses, AppDies, Call, Check,
       Copy, Trial, Confirm, Empty, Fill, FileFails, NotSpawned, Locked, Ran, TimedOut, Killed,
       Dies
  <2>4. QED
    BY <1>1, <2>1, <2>2, <2>3
<1>5. pc' \in [Sessions -> Place] /\ said' \in [Sessions -> Outcome]
  <2>1. ASSUME NEW s \in Sessions, NEW place \in Place, Go(s, place)
        PROVE  pc' \in [Sessions -> Place] /\ said' \in [Sessions -> Outcome]
    BY <1>3, <2>1 DEF Go
  <2>2. ASSUME NEW s \in Sessions, NEW outcome \in Outcome, Say(s, outcome)
        PROVE  pc' \in [Sessions -> Place] /\ said' \in [Sessions -> Outcome]
    BY <1>3, <2>2 DEF Say, Place
  <2>3. /\ {"check", "copy", "trial", "asking", "backup", "fill", "run"} \subseteq Place
        /\ {"nothing", "refused", "failed", "declined", "written"} \subseteq Outcome
    BY DEF Place, Outcome
  <2>4. \/ UNCHANGED <<pc, said>>
        \/ \E s \in Sessions :
              \/ \E place \in {"check", "copy", "trial", "asking", "backup", "fill", "run"} :
                    Go(s, place)
              \/ \E outcome \in {"nothing", "refused", "failed", "declined", "written"} :
                    Say(s, outcome)
    BY DEF DbNext, dbVars, AppOpens, Begin, Commit, Rollback, AppCloses, AppDies, Call, Check,
       Copy, Trial, Confirm, Empty, Fill, FileFails, NotSpawned, Locked, Ran, TimedOut, Killed,
       Dies
  <2>5. QED
    BY <1>3, <2>1, <2>2, <2>3, <2>4
<1>6. CASE AppOpens \/ AppDies \/ UNCHANGED dbVars
  <2>1. app' \in [open : BOOLEAN, writing : BOOLEAN]
    <3>1. CASE AppOpens
      BY <1>1, <3>1 DEF AppOpens
    <3>2. CASE AppDies
      BY <1>1, <3>2 DEF AppDies
    <3>3. CASE UNCHANGED dbVars
      BY <1>1, <3>3 DEF dbVars
    <3>4. QED
      BY <1>6, <3>1, <3>2, <3>3
  <2>2. UNCHANGED <<wal, db, backup, image, mine, met>>
    BY <1>6 DEF AppOpens, AppDies, dbVars
  <2>3. QED
    BY <1>1, <1>4, <1>5, <2>1, <2>2
<1>7. CASE Begin \/ Commit \/ Rollback
  <2>1. met' \in [Sessions -> SUBSET Encounters]
    BY <1>7, MeetType DEF Begin, Commit, Rollback
  <2>2. Append(db.log, App) \in Writes /\ Append(db.main, App) \in Writes
    BY <1>1, FilesAre
  <2>3. db' \in [main : Writes, hot : BOOLEAN, log : Writes]
    BY <1>1, <1>7, <2>2 DEF Begin, Commit, Rollback
  <2>4. app' \in [open : BOOLEAN, writing : BOOLEAN]
    BY <1>1, <1>7 DEF Begin, Commit, Rollback
  <2>5. UNCHANGED <<wal, backup, image, mine>>
    BY <1>7 DEF Begin, Commit, Rollback
  <2>6. QED
    BY <1>1, <1>4, <1>5, <2>1, <2>3, <2>4, <2>5
<1>8. CASE AppCloses
  <2>1. db' = [db EXCEPT !.main = Now, !.log = << >>] /\ app' = [app EXCEPT !.open = FALSE]
        /\ UNCHANGED <<wal, backup, image, mine, met>>
    BY <1>8 DEF AppCloses
  <2>2. Now \in Writes /\ << >> \in Writes
    BY NowIs, FilesAre
  <2>3. db' \in [main : Writes, hot : BOOLEAN, log : Writes]
    BY <1>1, <2>1, <2>2
  <2>4. QED
    BY <1>1, <1>4, <1>5, <2>1, <2>3
<1>9. ASSUME NEW s \in Sessions, Call(s) \/ Check(s) \/ Copy(s) \/ Trial(s) \/ Confirm(s)
      PROVE  Kind
  <2>1. Torn \in File /\ NoFile \in File /\ Whole(db.main) \in File
    BY <1>1, FilesAre
  <2>2. {} \in SUBSET Encounters /\ FALSE \in BOOLEAN
    OBVIOUS
  <2>3. UNCHANGED <<wal, app, db, backup>>
    BY <1>9 DEF Call, Check, Copy, Trial, Confirm, others
  <2>4. image' \in [Sessions -> File]
    BY <1>1, <1>9, <2>1 DEF Call, Check, Copy, Trial, Confirm
  <2>5. mine' \in [Sessions -> BOOLEAN]
    BY <1>1, <1>9, <2>2 DEF Call, Check, Copy, Trial, Confirm
  <2>6. met' \in [Sessions -> SUBSET Encounters]
    BY <1>1, <1>9, <2>2 DEF Call, Check, Copy, Trial, Confirm
  <2>7. QED
    BY <1>1, <2>3, <2>4, <2>5, <2>6
<1>10. ASSUME NEW s \in Sessions, Empty(s) \/ Fill(s)
       PROVE  Kind
  <2>1. met' \in [Sessions -> SUBSET Encounters]
    BY <1>10, MeetType DEF Empty, Fill
  <2>2. Torn \in File /\ image[s] \in File
    BY <1>1, FilesAre
  <2>3. backup' \in [file : File, by : Sessions \union {App}]
    BY <1>10, <2>2 DEF Empty, Fill
  <2>4. QED
    BY <1>1, <1>10, <2>1, <2>3 DEF Empty, Fill, others
<1>11. ASSUME NEW s \in Sessions, FileFails(s) \/ NotSpawned(s) \/ Locked(s) \/ Dies(s)
       PROVE  Kind
  BY <1>1, <1>11 DEF FileFails, NotSpawned, Locked, Dies, others
<1>12. ASSUME NEW s \in Sessions, Ran(s) \/ TimedOut(s)
       PROVE  Kind
  <2>1. met' \in [Sessions -> SUBSET Encounters]
    BY <1>1, <1>12, MeetType DEF Ran, TimedOut, Killed
  <2>2. db' \in [main : Writes, hot : BOOLEAN, log : Writes]
    BY <1>12, RunTypes DEF Ran, TimedOut, Killed
  <2>3. mine' \in [Sessions -> BOOLEAN]
    BY <1>1, <1>12 DEF Ran, TimedOut, Killed
  <2>4. UNCHANGED <<wal, app, backup, image>>
    BY <1>12 DEF Ran, TimedOut, Killed, others
  <2>5. QED
    BY <1>1, <2>1, <2>2, <2>3, <2>4
<1> HIDE DEF Kind
<1>13. Kind
  BY <1>6, <1>7, <1>8, <1>9, <1>10, <1>11, <1>12 DEF DbNext, Kind
<1>14. QED
  BY <1>4, <1>5, <1>13

\* The variables of db_write's model have their types.
THEOREM DbTypeCorrect == DbSpec => []DbTypeOK
<1>1. DbInit => DbTypeOK
  <2> SUFFICES ASSUME DbInit PROVE DbTypeOK
    OBVIOUS
  <2>1. << >> \in Writes /\ NoFile \in File
    BY FilesAre
  <2>2. db \in [main : Writes, hot : BOOLEAN, log : Writes]
        /\ backup \in [file : File, by : Sessions \union {App}]
        /\ image \in [Sessions -> File]
    BY <2>1 DEF DbInit
  <2>3. wal \in BOOLEAN
    BY Zenon DEF DbInit
  <2>4. QED
    BY <2>2, <2>3 DEF DbInit, DbTypeOK, Writes, File
<1>2. QED
  BY <1>1, TypeStep, PTL DEF DbSpec

-----------------------------------------------------------------------------
(* What a call may build on.  Whoever else writes is met by it.              *)

Prepared == {"trial", "asking", "backup", "fill", "run"}

\* What call s has done and measured, and what it will leave as the backup.
Good(s) ==
    /\ pc[s] # "idle" => ~ mine[s]
    /\ pc[s] = "copy" /\ "race" \notin met[s] => db.log = << >> /\ ~ db.hot
    /\ met[s] = {} =>
         /\ pc[s] \in Prepared => image[s] = Whole(Now)
         /\ pc[s] = "fill" => backup.by = s
         /\ pc[s] = "run" => backup.file = Whole(Now)

CallInv == \A s \in Sessions : Good(s)

\* A call is told of a write, and of a backup, and forgets nothing it was told.
LEMMA MeetIs ==
    ASSUME DbTypeOK, NEW who, NEW what \in {"write", "backup"}, Meet(who, what),
           NEW s \in Sessions, s \notin who, pc[s] # "idle"
    PROVE  /\ met'[s] # {} /\ met[s] \subseteq met'[s]
           /\ what = "write" /\ pc[s] = "copy" => "race" \in met'[s]
BY DEF DbTypeOK, Meet

\* A step of somebody else: one the call is told of, or one that changes nothing
\* the call builds on.
LEMMA OtherKeeps ==
    ASSUME NEW s \in Sessions, Good(s),
           pc'[s] = pc[s], image'[s] = image[s], mine'[s] = mine[s],
           \/ pc[s] = "idle"
           \/ met'[s] # {} /\ (pc[s] = "copy" => "race" \in met'[s])
           \/ met'[s] # {} /\ met[s] \subseteq met'[s] /\ db' = db
           \/ /\ met'[s] = met[s] /\ Now' = Now /\ backup' = backup
              /\ db.log = << >> /\ ~ db.hot => db'.log = << >> /\ ~ db'.hot
    PROVE  Good(s)'
<1>1. pc[s] \notin Prepared \/ pc[s] # "idle"
  BY DEF Prepared
<1>2. pc[s] = "idle" => pc[s] # "copy" /\ pc[s] \notin Prepared /\ pc[s] # "fill" /\ pc[s] # "run"
  BY DEF Prepared
<1>3. CASE pc[s] = "idle"
  BY <1>2, <1>3 DEF Good
<1>4. CASE met'[s] # {} /\ (pc[s] = "copy" => "race" \in met'[s])
  BY <1>4 DEF Good
<1>5. CASE met'[s] # {} /\ met[s] \subseteq met'[s] /\ db' = db
  BY <1>5 DEF Good
<1>6. CASE /\ met'[s] = met[s] /\ Now' = Now /\ backup' = backup
           /\ db.log = << >> /\ ~ db.hot => db'.log = << >> /\ ~ db'.hot
  BY <1>6 DEF Good, Whole
<1>7. QED
  BY <1>3, <1>4, <1>5, <1>6

\* Bringing the log into the file, and opening the database to read, lose nothing.
LEMMA LogIsBrought ==
    ASSUME DbTypeOK, \/ db' = [db EXCEPT !.main = Now, !.log = << >>]
                   \/ db' = Opened
    PROVE  Now' = Now /\ db'.log \in {db.log, << >>} /\ (db'.hot => db.hot)
<1>1. db \in [main : Writes, hot : BOOLEAN, log : Writes] /\ Now \o << >> = Now
  BY NowIs, FilesAre DEF DbTypeOK, Writes
<1>2. db' = db \/ (db'.main = Now /\ db'.log = << >> /\ (db'.hot => db.hot))
  <2>1. CASE db' = [db EXCEPT !.main = Now, !.log = << >>]
    BY <1>1, <2>1
  <2>2. CASE db' = [main |-> Now, hot |-> FALSE, log |-> << >>]
    BY <2>2
  <2>3. QED
    BY <2>1, <2>2 DEF Opened
<1>3. QED
  BY <1>1, <1>2 DEF Now

LEMMA CallStep == DbTypeOK /\ CallInv /\ [DbNext]_dbVars => CallInv'
<1> SUFFICES ASSUME DbTypeOK, CallInv, [DbNext]_dbVars, NEW t \in Sessions
             PROVE  Good(t)'
  BY DEF CallInv
<1>1. /\ Good(t) /\ db.main \in Writes
      /\ pc = [s \in Sessions |-> pc[s]] /\ image = [s \in Sessions |-> image[s]]
      /\ mine = [s \in Sessions |-> mine[s]] /\ met = [s \in Sessions |-> met[s]]
      /\ said = [s \in Sessions |-> said[s]]
  BY NowIs DEF CallInv, DbTypeOK
<1>2. CASE AppOpens \/ AppDies \/ UNCHANGED dbVars
  <2>1. UNCHANGED <<db, backup, pc, image, mine, met>>
    BY <1>2 DEF AppOpens, AppDies, dbVars
  <2>2. QED
    BY <1>1, <2>1 DEF Good, Now
<1>3. CASE Begin \/ Commit \/ Rollback
  <2>1. Meet({}, "write") /\ UNCHANGED <<pc, image, mine>>
    BY <1>3 DEF Begin, Commit, Rollback
  <2>2. QED
    BY <1>1, <2>1, MeetIs, OtherKeeps
<1>4. CASE AppCloses
  <2>1. db' = [db EXCEPT !.main = Now, !.log = << >>] /\ UNCHANGED <<backup, pc, image, mine, met>>
    BY <1>4 DEF AppCloses
  <2>2. QED
    BY <1>1, <2>1, LogIsBrought, OtherKeeps
\* The steps of a call, for the call itself and for another one.
<1>5. ASSUME NEW s \in Sessions, s # t,
             \/ Call(s) \/ Check(s) \/ Copy(s) \/ Trial(s) \/ Confirm(s) \/ Empty(s) \/ Fill(s)
             \/ FileFails(s) \/ NotSpawned(s) \/ Locked(s) \/ Ran(s) \/ TimedOut(s) \/ Dies(s)
      PROVE  Good(t)'
  <2>1. pc'[t] = pc[t] /\ image'[t] = image[t] /\ mine'[t] = mine[t]
    BY <1>1, <1>5 DEF Call, Check, Copy, Trial, Confirm, Empty, Fill, FileFails, NotSpawned,
       Locked, Ran, TimedOut, Killed, Dies, Go, Say
  <2>2. CASE \/ Call(s) \/ Check(s) \/ Copy(s) \/ Trial(s) \/ Confirm(s)
             \/ FileFails(s) \/ NotSpawned(s) \/ Locked(s) \/ Dies(s)
    <3>1. met'[t] = met[t] /\ UNCHANGED <<db, backup>>
      BY <1>1, <1>5, <2>2 DEF Call, Check, Copy, Trial, Confirm, FileFails, NotSpawned, Locked,
         Dies
    <3>2. Now' = Now
      BY <3>1 DEF Now
    <3>3. QED
      BY <1>1, <2>1, <3>1, <3>2, OtherKeeps
  <2>3. CASE Empty(s) \/ Fill(s)
    <3>1. Meet({s}, "backup") /\ db' = db
      BY <2>3 DEF Empty, Fill
    <3>2. QED
      BY <1>1, <1>5, <2>1, <3>1, MeetIs, OtherKeeps
  <2>4. CASE Ran(s)
    <3>1. Meet({s}, "write") \/ (db' = Opened /\ met' = met)
      BY <2>4 DEF Ran
    <3>2. backup' = backup
      BY <2>4 DEF Ran
    <3>3. CASE Meet({s}, "write")
      BY <1>1, <1>5, <2>1, <3>3, MeetIs, OtherKeeps
    <3>4. CASE db' = Opened /\ met' = met
      BY <1>1, <2>1, <3>2, <3>4, LogIsBrought, OtherKeeps
    <3>5. QED
      BY <3>1, <3>3, <3>4
  <2>5. CASE TimedOut(s)
    <3>1. Meet({s}, "write")
      BY <2>5 DEF TimedOut, Killed
    <3>2. QED
      BY <1>1, <1>5, <2>1, <3>1, MeetIs, OtherKeeps
  <2>6. QED
    BY <1>5, <2>2, <2>3, <2>4, <2>5
<1>6. ASSUME Call(t) \/ Check(t) PROVE Good(t)'
  <2>1. CASE Call(t)
    <3>1. pc'[t] = "check" /\ ~ mine'[t]
      BY <1>1, <2>1 DEF Call, Go
    <3>2. QED
      BY <3>1 DEF Good, Prepared
  <2>2. CASE Check(t)
    <3>1. /\ mine'[t] = mine[t] /\ pc[t] = "check" /\ db' = db
          /\ \/ pc'[t] = "idle"
             \/ pc'[t] = "copy" /\ db.log = << >> /\ ~ db.hot
      BY <1>1, <2>2 DEF Check, Go, Say
    <3>2. QED
      BY <1>1, <3>1 DEF Good, Prepared
  <2>3. QED
    BY <1>6, <2>1, <2>2
<1>7. CASE Copy(t)
  <2>1. /\ pc[t] = "copy" /\ pc'[t] = "trial" /\ met' = met /\ mine' = mine /\ db' = db
        /\ image'[t] = IF db.hot THEN Torn ELSE Whole(db.main)
    BY <1>1, <1>7 DEF Copy, Go
  <2>2. ASSUME met[t] = {} PROVE image'[t] = Whole(Now)
    <3>1. db.log = << >> /\ ~ db.hot
      BY <1>1, <2>1, <2>2 DEF Good
    <3>2. Now = db.main
      BY <1>1, <3>1, FilesAre DEF Now
    <3>3. QED
      BY <2>1, <3>1, <3>2
  <2>3. Now' = Now
    BY <2>1 DEF Now
  <2>4. QED
    BY <1>1, <2>1, <2>2, <2>3 DEF Good, Whole
<1>8. ASSUME Trial(t) \/ Confirm(t) PROVE Good(t)'
  <2>1. /\ pc[t] \in Prepared /\ pc[t] # "idle" /\ UNCHANGED <<db, image, mine, met>>
        /\ pc'[t] \in {"asking", "backup", "idle"}
    BY <1>1, <1>8 DEF Trial, Confirm, Go, Say, Prepared
  <2>2. QED
    BY <1>1, <2>1 DEF Good, Prepared, Now
<1>9. CASE Empty(t)
  <2>1. /\ pc[t] = "backup" /\ pc'[t] = "fill" /\ backup'.by = t /\ UNCHANGED <<db, image, mine>>
        /\ met'[t] = met[t]
    BY <1>1, <1>9 DEF Empty, Go, Meet
  <2>2. QED
    BY <1>1, <2>1 DEF Good, Prepared, Now
<1>10. CASE Fill(t)
  <2>1. /\ pc[t] = "fill" /\ pc'[t] = "run" /\ UNCHANGED <<db, image, mine>>
        /\ met'[t] = met[t]
        /\ backup'.file = image[t] \/ backup.by # t
    BY <1>1, <1>10 DEF Fill, Go, Meet
  <2>2. QED
    BY <1>1, <2>1 DEF Good, Prepared, Now
<1>11. ASSUME FileFails(t) \/ NotSpawned(t) \/ Locked(t) \/ Ran(t) \/ TimedOut(t) \/ Dies(t)
       PROVE  Good(t)'
  <2>1. pc'[t] = "idle"
    BY <1>1, <1>11 DEF FileFails, NotSpawned, Locked, Ran, TimedOut, Killed, Dies, Say
  <2>2. QED
    BY <2>1 DEF Good, Prepared
<1>12. ASSUME NEW s \in Sessions,
             \/ Call(s) \/ Check(s) \/ Copy(s) \/ Trial(s) \/ Confirm(s) \/ Empty(s) \/ Fill(s)
             \/ FileFails(s) \/ NotSpawned(s) \/ Locked(s) \/ Ran(s) \/ TimedOut(s) \/ Dies(s)
       PROVE  Good(t)'
  <2>1. CASE s = t
    BY <1>6, <1>7, <1>8, <1>9, <1>10, <1>11, <1>12, <2>1
  <2>2. CASE s # t
    BY <1>5, <1>12, <2>2
  <2>3. QED
    BY <2>1, <2>2
<1>13. QED
  BY <1>2, <1>3, <1>4, <1>12 DEF DbNext

\* What a call has measured is the database until it is told otherwise, and it
\* has changed nothing before its run.
THEOREM CallInvariant == DbSpec => []CallInv
<1>1. DbInit => CallInv
  BY DEF DbInit, CallInv, Good, Prepared
<1>2. QED
  BY <1>1, CallStep, DbTypeCorrect, PTL DEF DbSpec

\* A call that ends as refused, declined or failed has changed nothing, so that
\* it may be made again: a run that was killed ends as written.
THEOREM OutcomesAreTrue == DbSpec => OutcomeIsTrue
<1>1. ASSUME DbTypeOK, CallInv, DbNext, NEW s \in Sessions, Ends(s, {"refused", "declined", "failed"})
      PROVE  ~ mine'[s]
  <2>1. ~ mine[s] /\ pc[s] # "idle" /\ pc'[s] = "idle" /\ said'[s] \in {"refused", "declined", "failed"}
    BY <1>1 DEF Ends, CallInv, Good
  <2>2. /\ said = [t \in Sessions |-> said[t]] /\ mine = [t \in Sessions |-> mine[t]]
        /\ pc = [t \in Sessions |-> pc[t]]
    BY <1>1 DEF DbTypeOK
  <2>3. ASSUME NEW t \in Sessions, Ran(t) \/ TimedOut(t) PROVE t # s /\ mine'[s] = mine[s]
    <3>1. said'[t] = "written"
      BY <2>2, <2>3 DEF Ran, TimedOut, Killed, Say
    <3>2. t # s
      BY <2>1, <3>1
    <3>3. QED
      BY <2>2, <2>3, <3>2 DEF Ran, TimedOut, Killed
  <2>4. ASSUME NEW t \in Sessions, Call(t) PROVE mine'[s] = mine[s]
    <3>1. t # s
      BY <2>1, <2>4 DEF Call
    <3>2. QED
      BY <2>2, <2>4, <3>1 DEF Call
  <2>5. mine'[s] = mine[s]
    BY <1>1, <2>3, <2>4 DEF DbNext, AppOpens, Begin, Commit, Rollback, AppCloses, AppDies, Check,
       Copy, Trial, Confirm, Empty, Fill, FileFails, NotSpawned, Locked, Dies
  <2>6. QED
    BY <2>1, <2>5
<1>2. DbTypeOK /\ CallInv /\ [DbNext]_dbVars =>
        [\A s \in Sessions : Ends(s, {"refused", "declined", "failed"}) => ~ mine'[s]]_dbVars
  BY <1>1
<1>3. QED
  BY <1>2, DbTypeCorrect, CallInvariant, PTL DEF DbSpec, OutcomeIsTrue

\* What is tried, and shown to the user, is the whole database as it is at the
\* copy, unless another writer came between the look at its sidecars and the copy.
THEOREM MeasuredIsWhole == DbSpec => MeasuredIsTheDatabase
<1>1. ASSUME DbTypeOK, CallInv, DbNext, NEW s \in Sessions,
             pc[s] = "copy", pc'[s] = "trial", "race" \notin met[s]
      PROVE  image'[s] = Whole(Now)
  <2>1. /\ pc = [t \in Sessions |-> pc[t]] /\ image = [t \in Sessions |-> image[t]]
        /\ db.main \in Writes
    BY <1>1, NowIs DEF DbTypeOK
  <2>2. Copy(s)
    BY <1>1, <2>1 DEF DbNext, AppOpens, Begin, Commit, Rollback, AppCloses, AppDies, Call, Check,
       Copy, Trial, Confirm, Empty, Fill, FileFails, NotSpawned, Locked, Ran, TimedOut, Killed,
       Dies, Go, Say
  <2>3. db.log = << >> /\ ~ db.hot
    BY <1>1 DEF CallInv, Good
  <2>4. Now = db.main
    BY <2>1, <2>3, FilesAre DEF Now
  <2>5. QED
    BY <2>1, <2>2, <2>3, <2>4 DEF Copy
<1>2. DbTypeOK /\ CallInv /\ [DbNext]_dbVars =>
        [\A s \in Sessions :
            pc[s] = "copy" /\ pc'[s] = "trial" /\ "race" \notin met[s] =>
               image'[s] = Whole(Now)]_dbVars
  BY <1>1 DEF dbVars
<1>3. QED
  BY <1>2, DbTypeCorrect, CallInvariant, PTL DEF DbSpec, MeasuredIsTheDatabase

\* After a statement was run the backup is the database as it was before, if
\* nobody else wrote to either since the call looked.
THEOREM UndoStays == DbSpec => UndoIsThere
<1>1. ASSUME DbTypeOK, CallInv, DbNext, NEW s \in Sessions, Ends(s, {"written"}), met[s] = {}
      PROVE  backup.file = Whole(Now)
  <2>1. pc[s] # "idle" /\ pc'[s] = "idle" /\ said'[s] = "written"
    BY <1>1 DEF Ends
  <2>2. pc = [t \in Sessions |-> pc[t]] /\ said = [t \in Sessions |-> said[t]]
    BY <1>1 DEF DbTypeOK
  <2>3. pc[s] = "run"
    BY <1>1, <2>1, <2>2 DEF DbNext, AppOpens, Begin, Commit, Rollback, AppCloses, AppDies, Call,
       Check, Copy, Trial, Confirm, Empty, Fill, FileFails, NotSpawned, Locked, Ran, TimedOut,
       Killed, Dies, Go, Say
  <2>4. QED
    BY <1>1, <2>3 DEF CallInv, Good
<1>2. DbTypeOK /\ CallInv /\ [DbNext]_dbVars =>
        [\A s \in Sessions :
            Ends(s, {"written"}) /\ met[s] = {} => backup.file = Whole(Now)]_dbVars
  BY <1>1 DEF dbVars
<1>3. QED
  BY <1>2, DbTypeCorrect, CallInvariant, PTL DEF DbSpec, UndoIsThere

=============================================================================
