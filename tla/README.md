# Verification of tacet-cli

tacet-cli is a command-line assistant that runs a language model on the user's
machine and lets it call tools. These modules model the parts of it where order
matters: several processes that share files, worker threads that may outlive
their call, a user who stops a turn at any moment, servers that answer late or
never, other programs that write the same file, writes that fail half way.
Text and inference are left out or abstracted to the distinctions the properties make.
One part is about text all the same, because it has state and two tables that must
agree: the grammar that decides which characters a model may write next. Paths below are relative to `src/crates/`.

    tlc -workers 2 -config <run>.cfg <module>.tla      model-check a run
    tlapm <module>Proofs.tla                           check the proofs

## 1. The system

| Component | State | Operations | Talks to | What is hard | What makes it correct |
|---|---|---|---|---|---|
| memory store (`tacet-memory/src/store.rs`) | `memory.json`, `.bak`, `.lock`; per process a copy of the notes, `next_id`, a journal of unsaved changes | open, add, delete, update, set_active, delete_all, save | the file system; called by the memory tool and the shell | several processes over one file, a lock judged dead by its age, crash and failed write inside `save`, damaged files | every save acts at once on the file as it is; one note per fact; a damaged file is never taken for an empty memory |
| memory tool (`tacet-tools/src/memory.rs`) | none of its own | save, forget, list | memory store | undoing a save that failed | what the model is told is what is on disk |
| tool executor (`tacet-tools/src/executor.rs`, `tacet-kernel/src/context.rs`) | session flags (taint, outside content), turn flags (world changed, calls made), denials, cancelled turn | execute (five gates and `run_guarded`), cancel, new_turn, reset_chat | tools on worker threads; approver; shell | stops, deadlines, panics and abandoned workers; flags kept in two places | nothing runs unasked that has to be asked, nothing twice; a turn that changed the world is not retried; a stop binds its own turn |
| chat shell (`tacet-cli/src/chat.rs`, `main.rs`) | `CANCEL`, `TURN_RUNNING`, history, transcript, executor, addon set | a turn of up to `MAX_TURNS` passes, Ctrl-C as key and as signal, `/clear`, addon toggle, import, pipe | engine, executor, receipt log, session log | the stop read between generation and call; one flag for the user and the repetition guard; retry of a cut-off answer; the pass budget | nothing starts after a stop; every turn comes to an end of its own; the transcript is the conversation |
| downloads and updates (`tacet-web/src/download.rs`, `tacet-cli/src/update.rs`) | `.downloading` half file, `.resume` record, target | download with resume, verify, rename; stage and swap | HTTP server | a half file of another version, a server that ignores ranges, crash between two file steps, two processes on one half file | a file under its final name is exactly what its digest says; every retry makes progress |
| receipt log (`tacet-cli/src/receipt.rs`) | log lines chained by hash, head file, lock and guard file | append, verify | shell, several processes | crash between line and head, a torn line, take-over of a dead lock | a chain reads as broken exactly when lines were cut or changed |
| MCP client (`tacet-mcp/src/client.rs`, `legacy.rs`, `tasks.rs`, `elicit.rs`) | settled revision, handshake, cached catalog | tools, call_tool, question rounds, await_task | remote server, executor, user | lost and late answers, the one repetition of a read, the fallback to the old revision, remote tasks that outlive the wait | a call is carried out at most once, and comes back |
| session log (`tacet-cli/src/session.rs`) | one file per run of the shell | start, continuing, append, latest, prune, purge | shell | a line cut short, the rewriting at the cap, a purge beside a live session | what was said to be stored is what `--continue` hands out |
| database writes (`tacet-tools/src/db_write.rs`) | a database file, its backup | trial run, question, backup, run | sqlite, approver, whoever else has the database | the database changes while the user reads; journals of dead writers; a run that is killed | what is shown is the database's; the backup undoes the last statement; no change ends as an error |
| write-back (`tacet-tools/src/sessions/writeback/`) | another agent's transcript | fork or append a note, check, undo | another running program | the transcript grows meanwhile; a short write | the other program's lines survive, its history stays whole |
| command, code, file and document tools | the world | run | executor | stopped half way | an honest outcome state |
| grammar (`tacet-grammar/src/`) | per generation a stack of frames, a queue of the last characters, a stage | compile, advance, allowed_prefixes, mask | schema of a tool; engine | what may follow is written down twice; a call may begin and end anywhere in a token | the mask offers what the automaton takes; what is completed is valid; no dead end |
| engine (`tacet-engine/src/candle_engine.rs`) | tokens produced, where the call began, a lexer over its arguments, what was streamed | one loop per generation | grammar session, listener, cancel flag of another thread | a stop token in a call; two budgets and three repetition rules at one token; halves of characters | the reason for the end is the true one; what was shown is the answer |
| router, kernel helpers, web client, zip, terminal | none between calls, or one mutex | pure computations, parsing, drawing | | size, not order | agreement with a reference computation |

How one turn goes: the shell clears `CANCEL` and calls `new_turn`; on each pass
it generates (at every token the grammar's session masks what would lead nowhere, and takes
what was sampled), takes a call from the output and hands it to the executor, which
passes it through its gates (cancelled turn, known tool and fitting arguments,
repeated call, approval), records it, runs it on a worker thread and watches. Ctrl-C sets
`CANCEL`, to which the context's token and every worker's child token listen. A
`remember` call ends in the memory store's `save`, in which this process meets
every other session on the machine. The outcome's `retryable` flag tells the
shell whether the prompt may be sent again.

`PROJECT.json` lists every component with its status and every hazard at the
line where it bites.

## 2. The modules

| Module | What it is |
|---|---|
| `MemoryStore` | the memory store, with the save and forget of the memory tool, in several processes |
| `AtomicMemory` | what the memory promises: one set of facts, each session's request applied in one step |
| `MCMemoryStore` | bounds for TLC |
| `MemoryStoreProofs` | theorems about `MemoryStore` |
| `ToolExecutor` | the executor, the worker of the call it watches, abandoned workers, and what the shell does to it |
| `GuardedCalls` | what the executor promises: which calls may run, given what the conversation holds and what the user allowed |
| `MCToolExecutor` | tools and bounds for TLC |
| `ToolExecutorProofs` | theorems about `ToolExecutor` |
| `DirLock` | the append lock of the receipt log and the guard under which it is taken over |
| `ReceiptLog` | the log, its head and the reader's verdict; extends `DirLock`, whose steps an append takes |
| `MCReceiptLog` | bounds for TLC |
| `ReceiptLogProofs` | theorems about the lock, that the log keeps to it, and about the log's verdicts |
| `SessionLog` | the transcripts of the shell; extended by `ChatTurn`, which appends to them |
| `ChatTurn` | the shell's turn, its stops, its history, and the runs of the shell one after the other |
| `Download` | a download with resume, and its two callers, the model packages and the updater |
| `McpClient` | the client of one MCP server |
| `WriteBack` | a note written into a Claude Code transcript, beside Claude Code |
| `DbWrite` | `db_write`, beside another program with the database |
| `Automaton` | the automaton over the characters of a tool's arguments, and the set it offers |
| `Grammar` | one text written by it: its only action is the next character |
| `CallSession` | the session of one generation: the call found in the tokens, and the mask over the tokens; extends `Automaton`, which reads the arguments |
| `Generation` | the loop of one generation around the session; extends `CallSession` |
| `ToolLayer` | what reads the arguments afterwards: JSON, and the schema's own check; extends `Grammar` |
| `GenerationProofs` | theorems about a generation, from the automaton (`Grammar`) over the session to the loop |
| `MCChatTurn`, `MCDownload`, `MCMcpClient`, `MCWriteBack`, `MCDbWrite`, `MCGrammar`, `MCGeneration` | instances for TLC |
| `ChatTurnProofs`, `DownloadProofs`, `WriteBackProofs` | theorems about them |
| `OtherProcessProofs` | theorems about the two tools that have another process do their work, `McpClient` and `DbWrite` |

An operator introduced by "Variant:" is a plausible mistake in the definition
after it. No specification uses one; putting it in the place of that definition
makes a run fail, which shows that the property depends on the code
(`PROJECT.json`, "mutants").

### MemoryStore

A session is a process. `pc` says where it is: `off`, `idle`, or inside `save`:
`waiting` for the lock, `breaking` a stale one, `locked`, `replaying` its
journal, `written` (memory.json replaced), `backed` (backup replaced). Each file
operation of `save` is an action, and anything may come between two.

| Code | Model |
|---|---|
| `MemoryStore::from_file` and its fallback to the backup | `Open`, `Best`, `LoadProblem`, `SafeNextId` |
| `add`, `save` called by the tool | `Save`, `Forget`, with `NextAt`, `JournalAfterDelete` |
| `update`, `set_active`, `delete_all` | `Update`, `SetActive`, `DeleteAll`, saved by `Flush`; no tool calls them |
| `FileLock::acquire` and its Drop | `Acquire`, `LockAges`, `JudgeStale`, `BreakLock`, `LockRefused`; the last file step of every path drops the lock |
| `save_to_file`: read base, `replay`, write, backup, adopt | `ReadBase`, `ReplayOne` (`Replay*`), `WriteMain`, `WriteBackup` or `BackupFails`, `Finish`; `SaveFails` for the error returns |
| the tool's reaction to an error or a rejected note | `Undo` |
| the environment | `Quit`, `Crash`, `Damage`, `Wipe` |

Abstractions. A note is its id, text and active flag: keys, kind and date decide
nothing. Texts are compared by the code after lower-casing, so a value of
`Texts` is a lower-cased text. The Vec of notes is a set, which `OneNotePerFact`
justifies: no two notes share an id or a text, so every `find` finds at most
one. The journal is a set of numbered changes because `delete` removes from its
middle. `first` in a note and `of` in a change are history, used by
`UntouchedStays` only; `stored` is history too.

Time. `LOCK_WAIT` (3 s) is longer than `LOCK_STALE` (2 s), and a holder's file
operations take milliseconds. The model keeps the order this implies and no
clock: a live holder's lock does not go stale unless `SlowHolder`; a session can
time out only on a lock created after it began to wait (`newTo`), because any
older lock is stale before it gives up. `TwoBreakers` admits the race the comment on
`FileLock` accepts: two waiters judge one dead lock stale, and the second
removes the fresh lock of the first. The passing runs exclude it, and the
theorem `RaceNeedsCrash` says what it takes when it is admitted.

### ToolExecutor

The executor's thread is at `pc`: `idle`, `asking` the user, `answered`,
`running` (the worker works, the executor watches), `stopping` (its token has
fired and the grace runs). The gates before the question are one step because
they run on one thread and read only its state and the cancel flags; the
question is two steps because the user takes time over it and may stop the turn
meanwhile.

| Code | Model |
|---|---|
| the gates of `execute` in the code's order | `RefuseCancelled`, `Malformed`, `Repeated`, then `DeniedBefore`, `Ask` or `RunUnasked` |
| `ask_approval`, `approval_reason`, denial keys | `Why`, `DenialKey`, `Answer`, `RunAllowed`, `Denied` |
| `run_guarded`, `lost_call` | `WorkerReturns`, `WorkerPanics`, `Tell`, `Abandon`, `Lost` |
| the bookkeeping after a call | the flags in `WorkerReturns`, `Return` |
| a worker nobody waits for | `strays`, `StrayActs`, `StrayEnds` |
| the shell | `NewTurn`, `TurnEnds`, `Stop` (Ctrl-C), `Cancel`, `Input` (pipe, memory note, import), `Refresh` (addon toggle), `ResetChat` |

A tool is what its declaration says of it (`Personal`, `Outside`, `Acting`,
`Asking`, `External`), arguments are values, and a call also says whether the
model spelled the tool's name as the catalog does, since `find` forgives
spelling and the gates must not. What a tool does is one bit, whether it has
changed the world; `Honest` relates that bit to the state it reports, and
`Partial` are the tools that may report Failed after having changed something (in the
run the one that stands for the shell).
The history variables (`personal`, `outside`, `ran`, `changed`, `stopSaid`,
`refused`) record what really happened and are read by no guard.

### DirLock and ReceiptLog

An appender is a thread of some session. `DirLock` is the lock alone: `pc` says
where an appender is (`waiting`, `creating`, `held`, `dropping`; `judged` when it
has found the lock stale, `taking` when it has read the token, then `checking`,
`breaking` and `unguarding` with the guard in its hands, `clearing` a stale one).
`ReceiptLog` adds the files and what is done while `held`.

| Code | Model |
|---|---|
| `DirLock::acquire` | `Ask`, `Create`, `WriteToken`, `TokenFails`, `GiveUp` |
| `stale_token`: `is_stale`, then the read | `JudgeStale`, `ReadToken`: two looks at one path |
| `take_over` | `TakeGuard` or `GuardTaken` (and `ClearGuard`), `Check`, `Break`, `Unguard` |
| `Drop` | `Drop`, then the same `Check`, `Break`, `Unguard` under its own guard |
| `append_in` | `ReadLog` (log and head, `Reaches`), `WriteLine`, `WriteHead` |
| its error returns, a crash anywhere | `AppendFails`, `Die`, each leaving any of `Torns` |
| `verify`, `judge`, `check_head`, `log_in` | `Chained`, `Judge`, `Verdict` |
| `purge_in`, whole or cut short after its first file | `Purge`, `Sweep` |
| others with a hand on the files | `CutTail`, `Damage`, `LoseHead`, `GarbleHead` |

Abstractions. A receipt is the number of its acquisition, and the hash of a line
is the sequence of receipts up to it, so SHA-256 is taken to be injective. A line
that cannot be parsed is `Torn`, whatever it was. `open` says that the last line
has no line end, which `writeln!` writes in a call of its own: what is appended
next is joined to it. A file is stale at once and only when its maker is gone,
except the lock of a holder at work, which may be slow. In `Check` the token and
the age are looked at in one step, and `ReadLog` reads both files in one: no
other appender writes meanwhile. `purge_in` is one step, or its first file alone.

`upset` records what the comment on `DirLock` leaves open, and the properties of
the lock say which of it they allow for. `said`, `slips` and `touched` are history:
`slips` counts the appends in a row that left their line, or a part of it, and no head;
from two on the log may be past its head for good, and it no longer goes back.

### ChatTurn and SessionLog

`pc` is where the shell's thread is: `prompt`; `cleared` when it has reset
`CANCEL` and not yet raised `TURN_RUNNING`; `build`, `generate`, `check` (the
generation is over, the flag is looked at), `gate`, `asked`, `tool`, `over`; then
`user` and `assistant`, the two appends to the transcript; `off` between two
runs. A stop comes between any two of them.

| Code | Model |
|---|---|
| the loop of `chat`: prompt, engine, verdict on the generation | `Build`, `Generate`, `Fails`, `Stopped`, `CutOff` (`CanBeRetried`), `Answers`, `HandsOver` |
| the executor's outcome and what the loop does with it | `Gate` (`Refused`, `Malformed`, `Denied`, `Repeated`, `Asks`, `Starts`), `UserAnswers`, `ToolEnds`, `AfterError`, `NextPass` |
| the repetition guard | `Repeats`, which raises the user's flag; `turn.guard` tells them apart |
| Ctrl-C in raw mode, SIGINT | `Key`, `Signal` |
| the end of the turn, `SessionStart`, `/clear`, one-shot runs | `Settle`, `StartRun`, `Clear`, `Quit`, `Crash` |
| `Session::start`, `continuing`, `append`, `append_one`, `latest`, prune, purge | `StartLog`, `Stores` (`Rewrite`, `WriteLine`), `StoreFails`, `Stored`, `LatestOf`, `Pruned`, `PurgeLog` |

The executor is what it answers; `ToolExecutor` is what it does. A reply is a call
or prose and how the generation stopped. A message is the number of its turn and
who speaks. A line can be cut before its first byte, in it, inside a character or
before its line end (`CutLine`), and the file at the cap in its rewriting
(`CutRewrite`). `stopped`, `saved` and `copy` are history.

### Download

| Code | Model |
|---|---|
| `model_download`, `install` with `clear_staging` | `Start`, `LookPresent`, `LookMissing`, `Refuse`, `Approve` |
| `resume_basis` | `ResumeBasis` |
| the answer: 200, 206, 416, anything else; `resume_verdict`, `same_object` | `ServeWhole`, `ServeRest` (`Continues`), `RangeNotSatisfiable`, `RequestFails` |
| `write_record`, which ignores its failure | `WriteRecord` |
| the body with its cap, `size_verdict`, the digest, the rename | `Receive`, `BodyFails`, `EndOfBody`, `Digest`, `Move`, `RemoveRecord` |
| the probe and the swap of `install` | `Probe`, `Swap` |
| the environment | `Publish`, `EditCatalog`, `Crash` |

A file is the sequence of its bytes and a byte is its object and its place, so a
digest names an object. Names and files are apart (`temp`, `target` and
`installed` hold an inode), because a process goes on writing a file that was
renamed or cut to nothing meanwhile. The server answers a range as it likes.

### McpClient

`job` is the request sequence under way and `wire` the state of its current
request. `Load` and `CallTool` are `tools` and `call_tool`, `Opening` the handshake
of the old revision, `Send`, `TimesOut`, `Errs` and `Reads` are `send_read` and
`send_once`, `After` and `FallsBack` what an error leads to, `Lists` the pages and
the cache, `Questioned` and `UserReplies` the rounds of `elicit.rs`, `Started` and
`Polls` are `tasks.rs`. The server is external: it says what it likes, and `done`
counts how often it has carried a call out, also when nobody waits any more
(`ServeLate`).

### WriteBack

| Code | Model |
|---|---|
| `read_report` (`stream_lines`, `pick_leaf`, `walk`), `read_text` | `ReadReport`, `ReadText`, with `Readable`, `Leaf`, `ChainFrom`, `Clean`, `Finished` |
| `append_with_parent` | `Start` and `LookAgain` (the two looks for a running Claude Code), `Confirm`, `Compare`, `OpenFails`, `Write`, `WriteShort`, `Verify`, `Undo`, `UndoFails` |
| `fork_with_note` | `WriteBeside`, `WriteBesideFails`, `VerifyFork`, `CheckOriginal` |
| Claude Code, external | `Open`, `Close`, `Continue`, `Break` |

An entry is its id, its parent and whose it is. The note's three lines are one
entry, of which a short write leaves any part. `slips` records what no check of the
command is for: an entry written between its two reads (`stale`), a session opened
after its second look (`late`), a line nobody finished (`torn`).

### DbWrite

`Call`, `Check` (`non_empty_sidecar`), `Copy`, `Trial`, `Confirm`, `Empty` and
`Fill` (the copy to the backup), then `Ran`, `Locked`, `NotSpawned` or `TimedOut`
are the steps of `write`; `FileFails` its error returns, `Dies` a crash. A database
is the sequence of what was committed to it, in three places: the main file, a log
not yet in it, and a journal without which the main file is not a database (`hot`).
SQLite is external and taken at its word: a commit is atomic, writers exclude each
other, whoever opens the database next rolls a dead writer back.

### Automaton, Grammar and ToolLayer

A schema is a set of numbered nodes, and a generation's state the stack of open frames
and the length of the present run of spaces.

| Code | Model |
|---|---|
| `enum Node`; `compile`, `add` | `NodeDecl`, `IsSchema`; `Compile`, `Fillable` |
| `feed_char`, `feed_frame`, `child_done` | `FeedChar`, with `Counted`, `OpenValue`, `FeedObject`, `FeedKey`, `FeedArray`, `FeedText`, `FeedChoice`, `FeedNumber`, `LiteralNext`, `Closed`: the set of states a character leads to, empty when it is refused |
| `number_transition`, `range_fits`, `digits_fit`, `validator_value` | `NumberTransition`, `RangeFits` (`SignFits`, `IntegerFits`, `FractionFits`), `DigitsFit`, `Representable` |
| `GrammarState::new`, `advance` | `StartAt`, `GrammarInit`; `Write` |
| `hex_fits` and the surrogate stages | `HexFits`, `IsHigh` |
| `allowed_prefixes`, `frame_allowed`, `value_start` | `Offered`, `FrameAllows` and its parts, `BelowAllows` for what is under a number that may close; `Offers` is `AllowedSet::contains` |
| serde_json, `ArgSchema::validate` | `ToolLayer`: `ReadValue`, `Validate` |

A number is kept as its parts (sign, digits, places, exponent) in place of its text, in
units of the smallest place; an exponent only decides whether the value is
representable. The one white space is a blank, and `written` leaves out what stands
between values. `MaxSpaces`, `TextCeiling`, `ArrayCeiling`, `Slack`, `MaxFraction`,
`MaxExponent`, `Growth` and the largest and lowest numbers are the code's constants, made small.

### CallSession and Generation

| Code | Model |
|---|---|
| `Session::advance`, `swallow`, `align_prefix` | `Advance`, `Swallow` (`SwallowPrefix`, `SwallowArgs`, `Trimmed`, `Called`), `AlignPrefix` |
| `mask`, `prefix_mask`, `remainder_conforms`, `TokenMask` | `Open`, `PrefixMask`, `RemainderConforms`, `TokenMask`, `Plain`, `Walked` (`Walk`, one character of it) |
| `run_loop`, one pass | `Step`: `Sampleable`, `Taken` (`Dropped`, `CutLoop`, `Shown`), the ends; `Cut` at the top of the loop |
| `CallWatch`, `is_looping_with` | `ReadChar`, `Recorded`, `IsStuck`, `IsLooping` |
| `decode`, the listener | `Decode` (`Joined`), `Decoded`, `Stream` |
| another thread sets the flag | `Cancel` |

A token is the sequence of its characters; the model of the language may sample any
token that the mask has left open. A character that two tokens make together is `first`
and `rest`. `session.args` collects the arguments' characters for `CallIsValid`.
`IsCatalog`, `TokensFit` and `SpelledAsStrings` say what the theorems assume of the tools and the vocabulary; `MCGeneration` checks that its catalogs are such.

## 3. The runs

| Run | Instance | Properties and what they show |
|---|---|---|
| `memory_saves` (126,497 states) | 2 sessions, 3 texts, cap 2; either 4 calls, 1 crash, 1 failed operation (lock, read, main or backup) and 1 wipe, or 3 calls, 2 damages (main, backup or `next_id`), 1 wipe and no write that fails | `FailedSaveLeavesNothing`: a save reported as failed is never carried out later; `AnswersAreTrue`: "saved" and "forgotten" hold of the file when they are said; `ImplementsAtomicMemory`, for which two savers at once would be fatal; `OneNotePerFact` in both files and every copy; `OpenersFindWhatWasStored`: an opener told of no problem, or that the backup was used, finds what was last stored |
| `memory_edits` (77,506) | 2 sessions, 2 texts, cap 2; 2 calls, 1 edit, 1 crash, 1 failed write; fair | `UntouchedStays`: a save undoes nothing its session's journal does not speak of, neither what another session wrote since nor the note next to the one that was edited; `DeadLockIsBroken`: whoever starts waiting behind a dead lock does not give up before it is broken |
| `executor` (647,603) | three kinds of tool, one of which may fail half way, 2 arguments; 2 turns, 2 calls, 2 stops, 1 refresh or reset; fair | `TaintNeverForgotten`: once personal data or outside text is in the conversation, the flags the gate reads say so; `DeniedStaysDenied`: a refused channel or command is not asked about again under other arguments or spellings; `NoRetryAfterChange`: no outcome invites a retry of a turn whose calls changed the world, but for a call whose tool changed it and said that it failed; `OnlyTheAskedCallOutrunsStop`; `CallEnds`: a call ends although its tool never returns; `ImplementsGuardedCalls` |
| `receipt_chain` (2,535,380) | 2 sessions, log empty or old; 3 appends, 1 crash, 1 damaged, cut, lost or purged file, and 1 failed operation or 1 slow holder | `ReceiptsAccountedFor`: a receipt reported as written is in the log, or the log is called broken, and stays so however many appends follow; `NoFalseAlarm`: a log nobody touched is not called broken, however the appends were interleaved and crashed; `SuccessorKept`: a holder that outlived `LOCK_STALE` does not remove its successor's lock |
| `chat_turn` (1,177,914) | 3 passes, 1 call, terminal and pipe; 2 runs of the shell, 2 turns, 2 stops, 1 each of crash, failure, purge and `/clear`; 3 lines a file, 2 files; fair | `NothingStartsAfterStop`; `TurnEnds`: a turn comes to an end of its own or the process does; `SavedIsContinued`: what was said to be stored is handed out by `--continue`; `TranscriptIsHistory`: the file ends as the conversation does and holds nothing that was cleared |
| `download` (249,592) | 1 process, two objects of 2 and 3 bytes, four plans (nothing declared, size, digest, both), both callers; 3 of crash, failure, publication, edit; fair | `NeverSpliced`: no head of one object with the tail of another; `SwapsInWhatWasApproved`; `EventuallyDownloaded`: no leftover is a dead end |
| `download_two` (violated) | 2 processes, one plan of a declared size and digest, no fault | `TargetIsComplete` does not hold: see below |
| `mcp_client` (14,152) | 2 calls, every `spec`; 2 pages, 2 question rounds, 2 polls, 2 loads; fair | `CarriedOutOnce`: a call is carried out once at most, and not at all when the user declined a question of it; `CallReturns` |
| `write_back` (135,586) | 2 commands, Claude Code opens twice and says three entries, 2 faults | `HistoryWhole`: what a resume loads is the whole session; `AgentLinesKept`: a rollback takes off nothing of the agent's; `OutcomeIsTrue`: what the command says is so; `ForkCarriesHistory` |
| `db_write` (910,401) | 2 sessions, rollback journal and WAL; 2 calls, 2 transactions of another program, 2 faults | `OutcomeIsTrue`: nothing that changed the database ends as an error; `MeasuredIsTheDatabase`: what is tried and shown is the database; `UndoIsThere`: the backup undoes the last statement |
| `grammar` (14,091) | thirteen schemas, each with the characters that matter to it; fair | `MaskIsTheAutomaton`: a character is offered exactly when it is taken; `CompleteIsValid`: what is complete is JSON the schema's own check accepts; `ArgumentsEnd`: whoever goes on writing comes to the end, so no state is a dead end |
| `generation` (791,732) | six catalogs of up to two tools with vocabularies of up to eleven tokens, 4 to 8 tokens long, a cancel at any time | `NeverRejected`: what the mask left open is taken; `ToldAsWritten`: no turn ends in a call as if it were answered, no prose is cut by a rule for calls, and nothing shown is taken back; `LexerAgrees`: the lexer of the repetition guard is in a value exactly when the automaton is; `CallsAreWritten`: something is always open, and a closed call is one the tool layer accepts |

### Bounds

Every bound is an entry of `Limits` (or `MaxFaults`, `MaxLoads`) and is spent in the
guard of the action it bounds. Two sessions are enough for the hazards of the store, each of which is
between one saver and one other process, and three facts over a cap of two make
a store that is full for one session and not for the other. Four calls let each session save
after the other has, which is what a stale copy and a renumbered id need; a
crash and a failure in the same behaviour meet at every step of `save`. The
ids and the journal are bounded by the number of calls. In the executor two
calls in two turns are a call and its repetition, or its neighbour, in one turn or
after a refresh; two stops are one in each turn, or both kinds in one. Two
arguments tell a refused call from a refused channel. In the receipt log three appends are a
dead holder, the one that takes over from it and the one that is late for that;
or two receipts of which one is cut and the append that could hide it. A failed
operation and a slow holder are spent from one bound, `fault`.

Two turns in two runs of the shell are a conversation and its continuation; with
three lines a file the second turn's last line meets the cap and is rewritten; three passes
are a first, a middle and a last one. Two objects of lengths 2 and 3 make a splice
that has the right size; three faults are, say, a body that breaks off, a new object and a
second break. Two pages, rounds and polls each have a last one and one before.
Three entries of Claude Code's are a parent, a child written before the command's reads and
one after. Two calls of `db_write` are two in one session or one in each of two.

The schemas of `grammar` are one for each pair of frames that can meet (a number under an
object's and an array's marks, a text in an array, a key that begins like another) and one for each way a
range can lie (above, below and around zero; two places, which are a middle and a last one;
integers at the largest and lowest number). Growth by two digits is a first and a last.
The catalogs of `generation` each make one group of token borders fall together; the bounds on
repetition are the smallest that tell the three rules apart, and the call's cap is between
them and the budget.

Symmetry is used on interchangeable sessions, texts and appenders, and in no run
that checks liveness. `memory_*`, `download` and `download_two` check for deadlock. In
the others the bounds are spent in the end and nothing is left to do.

### Fairness

`MemoryStore!FairSpec` is weakly fair to `SaveStep(s)` of each session and to
`LockAges`: a process inside `save` blocks on nothing but the lock, which it
polls every `LOCK_POLL`, and clocks advance. Nothing is assumed of the user, of
crashes or of idle sessions. `ToolExecutor!FairSpec` is weakly fair to `Tell`
and `Abandon` only: the watching thread wakes every `WATCH_TICK`, every call has
a finite deadline and `ABANDON_GRACE` is finite. Nothing is assumed of the
tool, which may never return, or of the user, who may never answer; hence
`CallEnds` starts from a running call and not from a question.

`GrammarSpec` is weakly fair to its only action: the loop samples another character as long as one is
offered. Nothing is assumed of which one, so `ArgumentsEnd` holds whatever is written: it
rests on the bounds on spaces, digits, texts and arrays. `ChatTurn!FairSpec` is weakly fair to `Goes`: generations end at their cap, calls by
`CallEnds`, and a question is assumed to be answered. `McpClient!FairSpec` is weakly
fair to the client's own steps: every request has a timeout and every poll an
interval. It assumes nothing of the server. `Download!FairSpec` is weakly fair to the run's
own steps (every read has a timeout), and assumes that a user who wants the file runs the command again and
says yes: without that no download need ever begin, and `EventuallyDownloaded` is about
what the leftovers of earlier runs do to the later ones.

### Where the properties stop

What a change of a constant or of an exemption would show:

- Store. With `SlowHolder = TRUE`, `LockRaceNeedsCrash` fails: a live session paused
  in `save` for longer than `LOCK_STALE` is joined by a second one, where the comment on
  `FileLock` speaks of a crash. With `"bak"` in `FailAt` and a damage `OpenersFindWhatWasStored` fails: a
  backup whose write failed unnoticed gives back a forgotten note. It fails too with a failing
  write or a crash beside a damage, and so does `ImplementsAtomicMemory`: the damaged file is
  renamed aside, nothing is left, and later openers see an empty memory. Hence the two kinds of
  behaviour in `memory_saves` (`EitherSpec`).
  With one `"wipe"` beside an `"edit"` `UntouchedStays` fails: memory.json gone, the ids start
  again at 1, another session stores a fact under the id of an edit that is still in a
  journal, and the next save rewrites that fact, against "What one session did not touch,
  it cannot undo" in store.rs. No tool calls the edits today, so nothing meets it yet.
- Executor. A tool of `Partial`, such as a command stopped half way, may have changed the
  world and report Failed; `worldChanged` then stays down and its turn retryable, although the field's
  doc in executor.rs says "FALSE once the world changed within the turn". `NoRetryAfterChange`
  exempts that one change, and nothing else of such a tool: a call of it that panicked or was
  abandoned counts. A stop while the user is asked does
  not keep the call from starting after a yes, which `OnlyTheAskedCallOutrunsStop` and
  `NothingStartsAfterStop` exempt, against "no tool even starts" in executor.rs. A tool that taints the context and then fails
  leaves the flag of the executor, which the gate reads, as it was.
- Receipts. Both properties of the log need `slips <= 1`: two appends in a row that end between line
  and head make a log nobody touched read as diverged, for good. From then on every append
  returns `Ok` and leaves the head where it was; if such a log is cut back to its head it reads
  as whole again, without those receipts (4 appends, 2 crashes and 1 cut), where `append_in`
  says of a log that has diverged that it "stays true however many receipts follow". A waiter that judged a dead lock
  stale, then reads the token of the fresh lock and takes its guard, makes the holder leave its
  lock behind: every append fails for `LOCK_STALE`.
- Chat. A turn whose last generation is cut off at the token cap ends without an answer
  and without being counted as failed, so a one-shot run exits as if it had succeeded,
  against the comment at the end of `chat` ("A turn that never produced an answer is a
  FAILED RUN"): `NoAnswerFailsTheRun` with `Limits <- OneTurn`. The branch for a turn still open after its last pass is never taken (theorem
  `BudgetSuffices`): a call written on the last pass becomes the answer. A failed append of
  the question does not keep the answer from being stored, joined to the torn line and
  lost with it; the user is told. A file that ends inside a character is read as
  an empty one; a copy of the earlier conversation that was cut short is the newest file
  all the same (`copy`). `SavedIsContinued` exempts both.
- Download. The runs and theorems but `download_two` have one process. Nothing keeps a second one
  from the half file, and then all three safety properties fail. `download_two` is the shortest
  way: a first process looks while there is no half file and asks; a second one downloads the
  whole object and finds its digest right; the first is told yes, discards the half file and
  creates an empty one; the second renames that one to the target. The comment on `TEMP_EXTENSION`
  says that the target "either does not exist or is COMPLETE" (the finding in `PROJECT.json`).
  `NeverSpliced` fails as well, when a process goes on writing to a file that the other one has renamed, and
  `SwapsInWhatWasApproved`, when two updaters share the staging name. With one process a plan with neither size nor digest accepts a body that
  was cut off cleanly.
- MCP. A lost or failed call ends as Failed and not as Written, so the executor
  counts no change; its `NoRetryAfterChange` is as good as the `Honest` of the bridge. The old
  revision is settled before its first catalog was read.
- Write-back. With `stale` an entry of the agent's is in the file and off the note's
  chain, and a fork of a live session silently lacks it. With `late` a rollback can
  cut the agent's lines off. With `torn` the agent's next line is lost to the fragment before it.
- Database. `UndoIsThere` is about a call that met no other writer. When another program
  writes during the question, the backup does not hold what it wrote; while the backup is being copied, or when the
  statement then does not start or meets a lock, the older backup is gone and nothing was changed.
- Grammar. With `MCSpacedCases` `MaskIsTheAutomaton` fails: `feed_char` counts the spaces of a
  declared value against `MAX_SPACE_RUN`, as only a free text is exempt, and refuses the one
  past the bound, while the mask goes on offering it and offers nothing else; a comment in
  `tests/space_runs.rs` says that what the automaton refuses the mask must not offer, anywhere.
  With `MCFarCases` `MaskIsNeverEmpty` fails: `range_fits` looks 18 digits ahead, so a
  range whose numbers all have more offers no first digit, where `permit.rs` says
  that the empty set must not occur.
- Generation. `DroppedCallsWereOpen` fails: the call's budget is looked at before
  `is_done`, so a call closed by the very token that fills it is dropped, as one "that armed
  the grammar and never closed" in the words of `chat.rs`. With `MCCodeSetups`
  `ClosedTokensAreRefused` fails: after the name of a tool that needs no argument `();` is
  masked, because `remainder_conforms` lets an empty call through only when `)` is all that is
  left, and `swallow` would take it. With `MCRepeatedSetups` `LoopsAreProse`
  fails: the guard for prose is looked at before the call's end as well, so a call whose last token
  repeats what was said before it is cut off with it. With `MCNestedSetups` `NeverRejected` fails:
  `prefix_mask` judges a token by its first `(`, `swallow` by each, so a token with two, of which
  the second starts a call that goes wrong, is left open and ends the turn with an error. So does a
  token of a `(`, more than `MAX_SPACE_RUN` spaces and a `)`, which `remainder_conforms` lets through unread
  and the automaton counts. Both are what `TokensFit` excludes.

## 4. The theorems

Proved for every set of sessions, texts, tools and arguments, every cap and
every `Limits`, from the assumptions named in the modules. No run lists a type invariant: they
are proved, except that of `Generation`, which was only evaluated on its run's instances; that of the automaton
is proved as far as `Frames` goes, without the bounds on its counters.

| Theorem | Extra assumption | Argument |
|---|---|---|
| `MemoryStoreProofs!TypeCorrect` | | `TypeInv == TypeOK /\ Bounds`. `TypeOK` alone is not inductive: `SafeNextId` and `NextAt` take the largest element of a set, which exists only if the set is bounded; `Bounds` says that the ids in the files and merges and the numbers in the journals are. `MaxOfBounded` is proved by well-founded induction on the upper bounds |
| `MemoryStoreProofs!Exclusion` | no `SlowHolder`, no `TwoBreakers` | `LockInv`: whoever is in `save` owns the lock that is on; a stale lock has no live owner; a breaker breaks a stale lock; there is one breaker. The last two are what makes removing a file by its name safe |
| `MemoryStoreProofs!RaceNeedsCrash` | no `SlowHolder` | `RaceInv`: until the first crash inside `save` the lock that is on has a living owner inside `save`, so none is stale and nobody breaks one |
| `MemoryStoreProofs!NoFactTwice` | | `NotesInv`: every copy, merge and file is `Sound` (no two notes of one fact under the keys the code compares, ids below `nextId`), and a merge stays so with every entry of the journal that it replays, whatever another session wrote in between |
| `MemoryStoreProofs!NothingLeftOver` | | `AddsCarried`: an addition is in the journal only while the save it was made for is under way, and the session still has the note then, which is how the tool finds what it has to take back |
| `MemoryStoreProofs!OpenersFind` | no `SlowHolder`, no `TwoBreakers`, no failing write, no crash | `FilesAgree`, with `LockInv`: memory.json, or the backup where it is damaged, holds what was last stored; the one bad moment, in which a damaged memory.json is set aside and the new one is not written, is inside a save, which the lock keeps to one |
| `MemoryStoreProofs!AnswersHold` | no `SlowHolder`, no `TwoBreakers` | `AnswerInv`: the change that the call made is the last of its session's journal; once it is replayed the merge has the note, or not any more, or says that it was rejected (`Settled`); what was written is that merge |
| `MemoryStoreProofs!SavesAreAtomic` | no `SlowHolder`, no `TwoBreakers`, no `Editing`, no damage | the refinement of `AtomicMemory`. `ToolInv`, with `LockInv` and `NotesInv`: a journal holds deletions and at most one addition, its last entry; `MergeInv`: of the memory it was read from, a merge holds what `Atomic!Result` gives for the changes replayed so far, so that with all of them replayed the rename is the abstract save. Every other step asks, answers or stutters |
| `MemoryStoreProofs!OthersNotesStay` | no `SlowHolder`, no `TwoBreakers`, no damage; with `Editing` no wipe | `IdInv`. An edit goes by an id, so the id in a journal must still mean the same note when it is replayed: what a session's copies and edits name was given by memory.json and to one note only (`Known`), a merge has no old id for a new note (`MergeKnown`), writing it gives none a second time (`WriteKnows`), and no journal both adds and edits one id, so the renumbering of additions moves no edit. `NotesKept`: a stored note that every replayed change spares is in the merge. A wipe starts the ids again, and then the property is false |
| `ToolExecutorProofs!TypeCorrect` | | `TypeOK` is inductive |
| `ToolExecutorProofs!TaintKept` | | `TaintNeverForgotten` is inductive with `TypeOK`: every path that puts data into the conversation sets the flags, and a refresh carries them over |
| `ToolExecutorProofs!DenialKept` | | `DenialInv`: every refusal has its key among the denials or is about to be recorded; `SettledMeansDenied`: a settled question has the same key |
| `ToolExecutorProofs!StopKept`, `StopHonoured` | | `StopInv`: the turn counts as cancelled exactly when it was told to stop, and a job stopped by the user belongs to such a turn |
| `ToolExecutorProofs!RetrySafe` | | `RetryInv`: a change that counts is on `worldChanged` from the moment its call ends, and every abandoned worker of this turn has already set it |
| `ToolExecutorProofs!GatesHold` | | `GateInv`: what has run is what is recorded, under the catalog's spelling, and a question is about a call that has not run; with `TaintKept` each step maps to a step of `GuardedCalls` or a stutter |
| `ReceiptLogProofs!LockTypeCorrect` | | `LockTypeOK` is inductive |
| `ReceiptLogProofs!KeepsToTheLock` | | every step of `ReceiptLog` is a step of `DirLock` or leaves the lock alone |
| `ReceiptLogProofs!OneAtWork`, `SuccessorSafe` | | `LockInv`, with `KeepsToTheLock`. `Numbered` and `Apart`: an acquisition has a token of its own, and a waiter never takes itself for the holder. `GuardsKept`: every guard has a living keeper, so two that break the lock have seen two tokens. `BrokenIsSeen`: the lock that is about to be removed is the one that was checked. Then `Owned`: while nobody is slow, whoever is at work owns the lock, which is not stale |
| `ReceiptLogProofs!TypeCorrect` | | `TypeOK` is inductive: what is written to a log, torn or joined to a torn line, is a line (`WrittenIs`) |
| `ReceiptLogProofs!LogInvariant`, `NothingLost`, `NoFalseBreak` | | `LogInv`, with `OneAtWork`. The first k lines `Bears` a hash when they are chained and end in it; a hash is marked by the receipts in it. `NothingComesBack`: nothing written, cut or damaged makes a log bear a hash that it did not bear, as what is written has a number nobody used (`Numbering`). So `Covered` holds: what was said is what the head has, as long as the log bears the head, and otherwise no head moves until it is purged. `Lengths`: behind the head are the slips and the append at work. `Untouched`: a log nobody touched bears its head. That a marked receipt is in a line (`ChainHolds`) is proved by the first line that has it |
| `ChatTurnProofs!StopWasSaid`, `StopHolds`, `BudgetSuffices` | | `FlagIsExplained`: `CANCEL` is up in a turn because the user or the guard of this very pass raised it; `StopStands`: from the user's stop on it is up, so the gate refuses; `PassesLeft`: a turn that is open is on a pass that has an end, as the last one hands no call over and retries nothing |
| `ChatTurnProofs!TypeCorrect`, `FileEndsAsHistory`, `WhatWasSavedIsContinued` | | one invariant, `Transcript`, for the three. `Flow`: the file, followed by what is still to be written and by the answer that is pending, ends as the history does, as long as no line of the session was missed. `Closing`: once a line is missed the log is closed, and only the answer of that pass is left to be said. `Covered`: what the log claimed to have written is the newest of what a reader gets from the file (`Solid`), up to what a `/resume` still copies. `Continued`: what a resumed session starts with is the end of what was saved. The sequence lemmas are about `EndsIn` and `Newest`; that the function inside `Parsed` exists, and which lines it keeps, is proved by induction on the length of the file |
| `DownloadProofs!NoSplice`, `SwapsApproved`, `TypeCorrect` | one process | `Inv`: an object that was replaced does not come back, and a record's tag was served (`Sources`); if the tag names what is served now, the half file is the head of it (`RecordNamesHalf`); what is asked for, written, counted and digested is the file under the temporary name (`Asking`, `Writing`, `Judging`). A range is then continued only with the object it began with, or there is a digest to tell. `Updating`: nothing of an earlier update is under the staging name |
| `OtherProcessProofs!TypeCorrect`, `OnceOnly`, `CallsSettled` | | `JobShape` (which requests a kind of job sends, and in which revision) and `Placed`: until its request is answered a call has not been carried out, and nothing of it is on its way elsewhere; so nothing can add a second time. `SettledInv`: a client that has a catalog has settled on a revision |
| `WriteBackProofs!TypeCorrect`, `LinesStay`, `TruthTold` | | `IdsAreGiven` and `NoteIsNew`: the note's id is in no line before its write; `TextIsFront`: what was read stays the front of the file, as nobody shortens it but the undo; `Alone`: while the command writes, the agent is away and what is behind the text is Tacet's. The undo therefore leaves exactly what was read |
| `WriteBackProofs!NothingOffTheChain`, `ForkIsWhole` | | `History`: the lines in front of the note are `Straight` (each one's parent is further up) and the copy is `Faithful`, so the chain read back from the note is the chain from the line it hangs on, and a fork `Carried` all of it. The chain is a recursive function; that there is one is proved from the least set of pairs closed under its rule |
| `OtherProcessProofs!DbTypeCorrect`, `CallInvariant`, `OutcomesAreTrue`, `MeasuredIsWhole`, `UndoStays` | | `CallInv`, call by call: a call has changed nothing before its run; between its look at the sidecars and its copy the file alone is the database, unless it was told of a writer (`race`); a call that met nobody has in its image, and behind `fill` in the backup, what is in the database. A step of anybody else's either is met or keeps `Now` (`LogIsBrought`: closing and opening a database lose nothing) |
| `GenerationProofs!OfferedIsTaken` | every schema of `Cases` is one (`IsSchema`), and none of its keys or values is spelled with more than `MaxSpaces` spaces in a row (`SpelledTight`) | `AutomatonInv`. `Frames`: every open frame belongs to a node of its kind; `Below`: under the top there are objects and arrays only, so what a closing value tells the frame below makes sense; `Fresh`: the frame written to is at a stage that has a next character, and of what is spelled so far the last `run` characters are the spaces counted (`Within`). Frame by frame the two tables then agree on every character but the space, and a number that may end agrees with the frame below it (`BelowAgrees`); a space is refused by the count only where the mask takes it back, as a spelling that is `Tight` has none left to offer there. Without the second assumption the property is false. No induction over schemas is needed: the tables look at the node of one frame at a time, and what compiling keeps of a node (`NodeIs`) is seen at that node |
| `GenerationProofs!NeverRejectedHolds` | `IsCatalog`: the schemas are as above, arguments are objects, no tool has a `(` in its name. `TokensFit`: no token is longer than `Slack` or starts two calls, and none has more than `MaxSpaces` spaces in a row behind a `(` | `Kept`: the state of a session in a call is `Good` (the invariant of the row above, in every place where it is needed without its run). In a call: one character at a time the walk along a token is matched by a state that is fed it (`WalkTaken`), except that in a free text the walk stays where it is on neutral characters (`Over`, `WalkKeeps`): the text fed has grown and the one walked has not, by fewer characters than `Slack`, which is what is left below the ceiling. Before a call: the queue and everything ever written end alike as far as a name can be long (`SameEnd`, kept by trimming), so `align_prefix` finds the same tools in both (`SameCalls`), and the first `(` of a token starts the same call for the mask and the session (`ProseStays`, `CallTaken`); behind it no other is started (`NoSecond`) |
| `GenerationProofs!LexerAgreesHolds` | `IsCatalog`, `TokensFit`, and every key and value is spelled as the inside of a JSON string (`SpelledAsStrings`: its quotes are escaped, and it does not end inside an escape) | `LexInv`: in prose the lexer has read nothing, and in a call it is `InStep` with the automaton. `Marked`: it has one mark for every open object and array, the frame on top included only if it is one. `Lexed`: what the frame on top waits for says whether the lexer is between strings, about to read a key, in a key or in a value, and inside an escape (`Spelling` follows the escapes of every spelling that is still possible). Every rule of the automaton is one line of the lexer (`CharLexed`), `TokenWatched` is that along a token, and for the token that opens the call `FirstWatched` shows that the lexer begins where the arguments do: at the first `(`, where every session the token leads to is opened (`AllProse`, `AllOpen`) |
| `GenerationProofs!ToldAsWrittenHolds` | | `ToldInv`: while tokens are sampled the session is not over, only a call is armed, and its budget is not used up; what is streamed is what is sure of the text. A text only grows at its end but for the half of a character that was last (`JoinedText`), and what is sure never reaches into that one (`DecodedGrows`), so each new text continues the old |

Only model-checked: liveness (`DeadLockIsBroken`, `CallEnds`,
`TurnEnds`, `EventuallyDownloaded`, `CallReturns`), which the prover does not reach,
and `CompleteIsValid` and `CallsAreWritten`, for which `ToolLayer` reads JSON with recursive operators. The recursive functions of `Generation` and `CallSession` (a token
fed character by character) are within reach: their existence is proved from the set of pairs their rule
generates, and what holds along them by induction on the token's length (`ByInduction`).

`TokensFit` is what the code relies on: `NEUTRAL_SLACK` is 512 characters, and the tokens of the
models in use are a few characters of ordinary text.

## 5. What is not modelled

The map covers the part of the code where order matters, a few percent of the
lines: most of the program is text, formats, scoring, inference and tests of
them, whose steps have no interleaving and no state between calls. A model of those would
be the program again.

- Store: a stale lock in a directory that allows creating and not removing files
  (found by reading: the loop retries at once, without sleep or deadline), a memory.json unreadable only for a moment; the scoring and
  selection of notes for the prompt; the wording of every answer.
- Executor: argument parsing, repair and schema checks: a call is well formed or it is not.
- Chat: prompts, routing, skills, tool results in the history, the clipping of long
  messages, `load` of a named session, `list`. A `/clear` within the second of a
  session's start may get that session's id again; ids are taken to be distinct. Tools
  are taken to say when they have changed something.
- Downloads: addresses, redirects, the text of releases; the removal of half file and
  record is one step.
- MCP: the bridge to the executor, keys and sign-in, SSE, session ids; two calls at
  once on one client; a late read, which changes nothing.
- Write-back: two commands at once; `set_len` and the check behind it, and `verify`'s two reads, are one step
  each. The Codex injection (a timeout after its request leaves open whether the note is
  there, and a second run may write it twice), the Antigravity and hook writers (read,
  compare and rename with a gap between) and `handoff update` (read, change and
  write without a lock) have hazards of the same shape.
- Database: SQLite's own locking and recovery; the read-only tool, the fingerprint's text,
  the probes that decide whether the tool is offered.
- Grammar: other white space than a blank, other escapes of keys and choices than the one the code
  writes, duplicate fields (the constructors do not build them), numbers as floating point.
- Engine: inference, sampling weights, the tokenizer but for what a token's text is, prompt
  layout, thinking blocks, the prefix cache, the second provider.
- Router, zip, document formats, terminal, evaluation, firmware
  and training: pure computation, parsing or presentation without interleaving
  state.

## 6. Plan

Done: the store, the executor, the receipt log, the turn with its transcript,
downloads, the MCP client, the note in a transcript, database writes, the grammar and the
generation under it. Left, in this order:

1. `ChatTurn` driving `ToolExecutor` itself instead of its answers; the two agree
   today by the comment in `ChatTurn` and the map.
2. The handoff record and the Codex injection beside `WriteBack`.
