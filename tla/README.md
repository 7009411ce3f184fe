# A verification of max_ai

TLA+ models of max_ai: the tool calls of a round, the turns of a conversation,
the runs of an agent and its end, what runs and processes share, what an agent
reads and remembers, and the way from the terminal to the model. TLC checks
them on small instances, TLAPS proves the main properties for every instance.
Line numbers refer to the commit this directory was written for.

Run a check with `tlc -config react_turn.cfg ReactTurn`, a proof with
`tlapm ReactTurnProofs.tla`. `PROJECT.json` lists the components, the runs, the
mutations each property was tried against, the source lines behind every
definition, the hazards, the findings and the theorems.

## 1. Inventory

max_ai is an asyncio library: within one process all interleaving happens at
an `await`, and everything between two awaits is atomic, threads started with
`asyncio.to_thread` aside. An `Agent` holds its tools, model client, MCP
connections, sandboxes and workspace and is shared by any number of runs. What
belongs to a conversation is its `RunContext` (transcript, tool records, shared
state, inbox), which the host owns, stores and gives to each run.

| part | state | operations | module |
|---|---|---|---|
| `ToolCallRecord`, `ToolState` | status, result and answers of each call of a task | approve, reject, answer, start, consume, fail_stale, load, reset | `ToolRounds`, `ToolCallLifecycle` |
| `ToolDispatcher` | queue, semaphore, active ids, the gather of a batch | dispatch_many, dispatch | `ToolRounds` |
| `BaseReasoning`, `ReactLoop` | iteration, last decision and result, cut-offs | execute_reasoning_loop, _run_tools, _answer_at_limit, _check_completion | `ReactTurn` |
| model call | the try, the frames, the partial answer | _call_llm, _call_llm_stream, _with_retries, the clients | `ModelCall` |
| compaction | the window, its blocks, the summary | _compact_if_needed, prune, the two strategies | `Compaction` |
| `Agent` | session locks, active runs, `_closed` | run, resume, close | `AgentRuns` |
| middlewares | order of the chain, spans of the tracer | the hooks of runs, model calls and tool calls | `Hooks` |
| budget, quota stores | counters per task, per user and period | check, charge, add | `Quota` |
| `EnvironmentManager`, executors | a sandbox per conversation, idle timers, failed syncs, baseline hashes | acquire, release, expire, close, sync | `Sandboxes` |
| remote workspace | cache, manifest, store | download, upload | `WorkspaceSync` |
| local file system, file tools | files, stamps, locks of paths | read, write, edit, delete; list, find, search | `FileTools`, `FilePaths` |
| `MCPClientManager` | a worker and a request queue per server | connect, serve, request, disconnect | `McpConnection` |
| session stores | two files per conversation | load, save, list, delete | `SessionStore` |
| every store | its connection | connect, `async with`, disconnect | `StoreConnection` |
| memory, knowledge | rows with vectors | write, delete, search, context | `Registries` |
| context stores | observations with tags | write, get | `Logbook` |
| skills | source, cache, user's copy, manifest | prepare, materialize | `Skills` |
| policy, bash permissions | rules, what the user added | decide, rules_for, split_command | `Permissions` |
| command line | conversation, worker group, composer, requests | turns, messages, interrupts, sessions | `Terminal` |
| components | settings and their stored form | serialize, deserialize | `Components` |

What is hard in this code, and what makes each part correct:

- **Tool rounds.** Read-only calls run in parallel, the others alone; any of
  them may wait for the user, be denied, fail, be cancelled, stop late or be
  suspended in a hook; the round may fail around the ones still running. The
  transcript must answer every call once and with the truth, no tool may start
  without consent, the conversation must not be blocked by a record nobody
  will finish.
- **Turns.** A run pauses for an approval, a question, a gate or a denial and is
  resumed from what it stored. Budget and waiting answers survive pauses, what
  is accepted is current and complete, every run ends.
- **Runs and close.** Runs queue on the lock of their session, `close()` waits
  for a count to reach zero, calls of failed runs linger, connections drop, a
  client is shared. Nothing is released under a run, nothing stays open.
- **Files.** Copies of a user's files are in sandboxes, caches and a store, and
  users, agents and commands write them at once. No edit goes silently, no tool
  replaces what its conversation has not read.
- **Stores.** Quotas, sessions, memories and skills are read, changed and
  written back by concurrent tasks, in threads a cancellation does not stop.
  Charges count, what was saved can be read, what a user edited stays.
- **Connections.** Clients and workers are opened by whoever comes first, shared,
  dropped and closed under others. None is left behind, no request is run twice
  or forgotten.
- **The host.** Keys and clicks arrive while a turn pauses, is interrupted or
  saves. Every message stays somewhere, one turn runs, "always allow" allows
  what was read.

## 2. Modules

| module | role |
|---|---|
| `ToolCallLifecycle` | abstract: what one call promises |
| `ToolRounds`, `ToolRoundsProofs` | the tool calls of a conversation, with host, crash and cancellation; implements `ToolCallLifecycle` |
| `ReactTurn`, `ReactTurnProofs` | the loop from the first request to the accepted answer, over pauses and resumes |
| `AgentRuns`, `AgentRunsProofs` | the runs of an agent and `close()`, with sandboxes, one MCP connection and the shared client |
| `Quota`, `Sandboxes`, `McpConnection` | what runs of one agent share |
| `WorkspaceSync`, `SessionStore`, `StoreConnection` | what processes and tasks share |
| `FileTools`, `FilePaths` | the files an agent works on |
| `Registries`, `Logbook`, `Skills`, `Compaction` | what it remembers |
| `Terminal`, `Permissions`, `ModelCall`, `Components`, `Hooks` | from the terminal to the model |
| `WorkspacesProofs`, `StoresProofs`, `RememberedProofs`, `ConversationProofs` | theorems about them, several components to a module |
| `LoopLemmas` | what the proofs about loops share |
| `MCToolRounds`, `MCAgentRuns` | values of the constants for TLC |
| `MCServices`, `MCRemembered`, `MCConversation` | run several components for TLC, one in each behaviour |

In every module one action is the code between two awaits (in `FileTools` and
`SessionStore`, between two system calls), and an operator has the name of the
function or of the branch it stands for. Operators marked *Slip* are wrong on
purpose: each is a plausible mistake in the definition after it, never used by
the specification, and the mutations of `PROJECT.json` put them in its place to
see that a property notices. History variables (what was charged, replaced,
raced or given up) are named as such where they are declared; no guard reads
one, bounds aside.

### ToolRounds

Calls are numbered in the order they are registered, which is their order in
`ToolState.records` and in the assistant message. `rec[c]` is the record of a
call plus two history counters: `ran` (how often its tool was started) and
`answers` (how many ToolMessages answer it). `step[c]` says where the
coroutine `dispatch(record)` of the call is; it outlives the gather when a
sibling failed. `round`, `rest`, `batch` and `queued` are the locals of
`dispatch_many`.

| actions | code |
|---|---|
| `NewTask`, `Resume`, `Approval`, `UserAnswer`, `FailStale`, `AllowRule` | `run_stream_events`, the preamble of the loop, `ToolState`, `ctx.allowed_rules` |
| `Save`, `Crash` | the host stores the context and loads it again, under another policy |
| `ModelCalls`, `ModelEnds` | `_register_tool_calls`, end of the turn |
| `StartBatch`, `CloseBatch`, `Deliver`, `EndRound` | `_batches`, `produce`, `_run_tools`, the branches after it |
| `ReturnExisting`, `ReturnEarly`, `AskUser`, `AskApproval`, `Proceed`, `RefuseExecuting` | `dispatch`, `_dispatch` up to the tool |
| `HookPasses`, `HookBlocks`, `HookTooLate`, `HookResponds`, `HookRaises` | the two tool hooks and the code after them |
| `ToolEnds`, `Interrupt`, `Unwound` | the tool's return, cancellation of the gather, a tool that stops late |
| `Cancel`, `StopRun`, `FailRound` | token or abandoned stream; `_execute_tools` and `_answer_unanswered` |

A record's `result` keeps who gave it and whether it reads as a denial; success and
failure of a tool (`returned`, its timeout included), texts, parameters and
timestamps are told apart by nothing and left out. A request hook may answer in the
tool's place with any result, a success too (`instead`, or `denied`), and a response
hook may hand on any other one (`Returns`): `ResultTellsTheTruth` says which of
them come from calls that never ran (`Unrun`), and what the words of a hook's answer tell the
model is the hook's affair. What ends a turn
is a failure that reads as a denial, whoever it is from (`Denials`, loop.py
640-647). The sandbox lease that a batch of read-only commands shares
(`run_batch`) is not modelled.

### ReactTurn

`pc` is the place in `execute_reasoning_loop`, `stash` is
`shared_state["reasoning_loop"]`. The tool round is reduced to its result:
which calls wait, whether one was denied. History variables: `spent`
(iterations of a task that only paused), `unseen` (something entered the
conversation after the last request), `missed` (a message was in the inbox when
the last reply came), `denials`, `held` (an answer waits for its gate),
`finished` (schema and final hooks were applied).

`NO_LLM_RESULT` (loop.py 439-446) and `paused_in_call` cannot be reached from
the code's own calls and are left out, and so are steering texts and the
restricted tools of the request after a denial. A round that fails is `Fail`;
what it leaves behind is in `ToolRounds`. A resume that fails before the stash
is taken out (`_ensure_mcp`, the download) changes nothing of this state and is
no step of the model.

### AgentRuns

A run is `new`, `queued` at its session's lock, `connecting`, `working`,
`uploading`, or over. `ahead` keeps the order of the lock's waiters. A run has
one tool call at a time, which may be waiting for a sandbox, in one, or at the
MCP server, and which outlives the run in the fault `orphans`. `closer[k]` is
the await at which one of several callers of `close()` stands. The weak
dictionary of locks is represented by what it guarantees while a run holds or
awaits its lock; the second lock, by user, that `acquire` takes only orders
leases further and is left out.

### What runs share

`Quota`: `payer[p]` is where a run is, `fresh` and `spent` the budget of its
task, `seen` the `quota_used` it last got, `due` what it is about to charge,
`copy` what its thread has read of the file. `StartTask`, `ResumeTask`,
`CheckQuota`, `AskModel`, `ModelAnswers`, `UseTool`, `EndRun` and `PauseRun` are
the hooks of the budget middleware; `AddReads` and `AddWrites` the two threads
of the local store, between which `AbandonAdd` may cancel the run;
`AddInDatabase` the one update of the MongoDB store.

`Sandboxes`: the entries of `EnvironmentManager` with `queued` leases, the user's
lock (`held`, `place`), `timers` and `failed` syncs, over one file that is on
the host and in each sandbox (`host`, `box`, `base`). A sync is `List`, then
`Move`, so edits may come between. `Conflicts` is `plan` of `core/executor/sync.py`.

`McpConnection`: `worker[g]` is the life of each worker, `requests` the one queue,
with end marks in it, `asker[c]` where each caller is, `flight` what workers run.
`connecting` is the attempt callers share. `Drained` is the `finally` of `_serve`.

### What processes and tasks share

`WorkspaceSync`: per server the cache (`local`), the `manifest` and a sync that has
listed, scanned, got or put; the store (`remote`). `SyncStops` may end one at any
await, `EditLocal` and `EditRemote` write at any time.

`SessionStore`: the two files and their two temporary files, each content a
number and whether it is whole; `saving[c]` is how far each caller's thread is.

`StoreConnection`: `connected` with its lock, `client` with the backend's lock, the
clients open, and where each task is.

### Files

`FileTools`: a file is content, inode and stamp (a tick of the clock and a size);
`stamps[t]` is `RunContext.file_reads`. An operation opens, checks, replaces and
stats back, and others write in between. `FilePaths`: for any tree of a few
nodes and any path asked, what the tools reach and show (`WorkspacePath`,
`SearchRoot`, `Walked`, `Cut`).

### What an agent remembers

`Registries` has one row for each session (or block), with the text its vector was
made from; a search reads, awaits the embedding, saves the vectors and ranks. It
has the three limits of the code (`SearchLimits`: results, candidates, minimum
score) and any similarity of two texts (`Closeness`): `CandidatesOf` are the newest
memories (of a block source without a vector index, any rows), `Ranked` keeps the
closest above the minimum and cuts them to the number of results, and which of
equals stay is open. `SearchesFindAll` is what the limits leave: a row that was
close enough is found unless the answer is full of rows as close (`Outranked`), the
candidates of newer ones (`PassedOver`), or its vector was raced. MongoDB ranks
among the candidates or among all, as it has a vector index or not; that index,
approximate in the server, is taken as exact. The search by words, which is used
when there is no embedding, is left out.
`Logbook` has the observations of both context stores. `Skills` has one file in
source, cache and the user's folder, with the manifest's hash. `Compaction` has
the window as a sequence of messages: `Blocks` groups them (a block is known by
where it starts), `Pruned` shortens old results and drops old messages of the
harness, `CutPoint` is the strategy, `Accepted` is `_validate`.

### From the terminal to the model

`Terminal`: the `RunContext` objects, the worker group (`job`), `busy`, the token,
the card or form that waits. A worker that is cancelled runs its `except` and
`finally` clauses step by step beside its successor. `Permissions`: a line is its
segments, each with its words, the script it carries and what an expansion within
one of its words starts (`hidden`); `Candidates` and `Read`, by the levels that are
left, are what the policy sees of it, with the scan of a shell's options that gives
up at the first word without a dash (`Announces`) and takes whatever follows `-c`
for the script (`WordsAsScripts`). `Started` is what the shell starts, told
apart from that: scripts wherever they stand and expansions too. The two differ, against what
the docstring of `split_command` says (see the findings), so `PermissionsKept`
promises of deny and ask rules only what holds: they are kept for lines of which
the policy sees all (`Seen`). That what runs unasked is named by rules is promised of
every line, command by command (`Vetted`; of a line that reads as certain though
a script in it is not found, of the commands of the line itself).
`Covering`, `Decide` and `RulesFor` are the policy, `ApprovedInBatch`
and `AlwaysAllow` the host. Options of wrapper commands and globs in patterns are
left out. `ModelCall`: the frames a provider may send, by kind,
index and id, the parts of calls gathered from them, the screen of a host.
`Components`: the settings of every class, `Serialized` and `Restored`, for a
component and those it holds, down a chain of any depth (`Holding`; one held component at
each level, whose siblings would be stored and loaded like it).
`Hooks`: every pass of the chain may be cut short before any middleware, by a hook
that raises, answers or stops the run, tool hooks included; a tool call may outlive
its run. Spans are those of `TracingMiddleware` at any place of the chain. A span
may be open only in a state that `MayBeOpen` names: nothing ends the span
of a call that was cancelled, or that a hook cut short (a finding).
`Terminal` handles keys one after the other, so the await that writes a message's
block between the look at `_busy` and the start of the worker (app.py 470-501) is
part of one step.

### The suites

`MCServices`, `MCRemembered` and `MCConversation` extend several components.
`part` is chosen in the initial state and says which of them runs; the others
stay in one initial state. The components share no state, so the reachable
states of a suite are those of each component alone; what one of them shares
with another (the file system under the tools, the hooks around a model call) is
part of its own module. `one`, `two`, `first`, `second`, `here` and `there` stand
for runs, tasks, servers or conversations, whatever a component needs two of,
and only interchangeable ones are in the symmetry.

## 3. What is checked

| run | instance | shows |
|---|---|---|
| `tool_rounds` | 3 calls, 2 slots, all kinds of tools, no faults | `OnlyWaitingGaps`: a request finds a call unanswered only beside a denial; `NoStuckExecution`: no record is left executing with nobody to finish it; `StartsInOrder`; `AnswersInOrder` |
| `tool_faults` | 2 calls of a tool that reads and one that writes, 2 slots, a crash, hooks that raise or answer, all faults | `AnsweredOnce`; `ResultTellsTheTruth`: which results say that the tool ran, and that it did not; `WritesMeetOrphansOnly`: beside a running tool that changes something runs at most a read-only one that a round left behind; `StartsWithConsent`; `LifecycleSpec`, the refinement of `ToolCallLifecycle` |
| `tool_rounds_live` | 2 calls, also of a tool that does not exist, hooks, slow cleanups | `RoundEnds`; `StartedCallsSettle` |
| `react_turn` | 3 iterations, 2 cut-offs | `BudgetKept`; `SettledWhenCompleted`; `AnswerIsCurrent`; `HeldAnswerFirst`; `RunEnds` |
| `agent_runs` | 3 runs in 2 sessions, 2 closers, 1 other agent, 1 drop | `OneRunPerSession`; `WaitsForSomeone`; `ReleaseWhenIdle`; `SandboxesReleased`; `ClientKeptForOthers`; `UploadsSettled` |
| `services` | 2 runs and 2 days; 2 conversations and 2 edits; 2 servers; 2 savers and 4 saves; 3 tasks; 2 callers and 3 workers | `QuotaKept`: the quota is passed by no more than what was under way at once, and no charge is lost; `NoSilentLoss`: no edit of a file is lost between host and sandboxes; `CloseReleases`; `SyncLosesNothing`; `SessionReadable`; `OneOpenClient`; `McpKeepsPromises`: what is not read-only reaches the server at most once, nobody waits for nobody, no worker is left behind |
| `remembered` | 2 conversations and 3 contents; trees of 13 nodes with small scan limits; 3 rows, 2 writes, 1 or 2 results and candidates; 4 observations; 2 registries; 5 messages | `NothingUnreadReplaced`; `PathsAreTold`: a path that is shown can be read, and an answer that does not say truncated is complete; `MemoriesReach`: a search finds what is close to what was asked within its limits, a context is the newest in any order of reading; `ObservationsRecalled`; `SkillFilesRight`; `CompactionKeeps`: windows a provider accepts, within their budget, and nothing lost |
| `conversation` | 2 workers and 2 messages; lines of up to 2 commands with scripts, options and expansions; 2 tries of 3 frames; every class and setting, chains of 3; 3 middlewares, 2 runs | `ConversationKept`; `PermissionsKept`; `ReplyFaithful`; `ComponentsComeBack`; `SpansEnded` |

Several of these state what is left of a promise: the code breaks it in some
window, the window is named in the property (`excused`, `raced`, `abandoned`,
`overlapped`, `disturbed`, `unheard`, `crossed`), and the finding beside it says
what happens there. Outside the window the property holds whatever else occurs.

Four runs are expected to end in a violation. Each checks a sentence the
repository itself says of the code, and its trace is a finding:

| run | sentence | what happens |
|---|---|---|
| `gap_after_denial` | every call is answered before the next request (base/reasoning.py 529) | a sibling of a denied call waits unanswered while the model is asked |
| `stuck_after_hook` | no tool call without its result (base/middleware.py 49) | a raising response hook leaves the record executing for good |
| `client_kept` | close releases the client (agent.py 752) | a dropped MCP connection makes the first close raise, the second skips the client |
| `answer_unfinished` | the schema shapes the accepted answer (README) | an answer accepted on resume is delivered without it |

The findings without a run were met while modelling and are listed with them.

### Bounds

- `MaxCalls`, `MaxRound`: three calls are enough for a batch of two beside a
  third, for a parallel pair with a write between, and for two rounds; two calls
  are enough for a failing sibling, an orphan beside a next round and a
  repeated id. All sizes of a round up to the bound occur. A write beside an
  orphan takes four (one that waits, one denied beside it so that the turn goes on,
  two that are read together in the round that is cancelled); with four calls,
  one slot, the policy that asks for `save` alone and slow cleanups TLC reaches
  it in 30 steps. `WritesMeetOnlyOrphans` is proved for any number.
- `MaxParallel` 2: a slot is contended when three calls share a batch, and one
  call waits while two run. `gap_after_denial` uses 1.
- `MaxRestarts` 1: one crash that comes back to any state that was ever saved,
  under any policy. A second crash starts from such a state again.
- `MaxIter` 3, `MaxCutOffs` 2: pauses before, between and at the limit, one
  cut-off that is survived and one that is not. The proofs are for all values.
- `Runs` 3 in 2 sessions, `Closers` 2, `Others` 1, `MaxCalls` 1, `MaxDrops` 1:
  one waiter behind a run and one run beside it, a second `close()`
  overlapping the first, a client with one other user, one lost connection.
- `services`: two of everything that overlaps. Quotas of one token and one task
  with a price of one are at their limit after one charge, two days let a period
  end under a run, `KeepPeriods` 1 drops the older one. `MaxWorkers` 3 and
  `MaxDisconnects` 2 let a worker be replaced and its successor ended. Four saves
  are two by each caller, one after a crash of the other.
- `remembered`: `MaxTicks` 1 lets two writes share a tick or not, one size makes
  them the same to a stamp, so only inode and tick tell them apart. The tree has
  a name used in the workspace and in the skills folder, a dot folder, a link
  and a long file, and every limit of a scan is below its size. `MaxWrites` 2 is
  a row written and rewritten under a search. With one result and one candidate,
  or two and a minimum score that only the asked text itself passes, each limit cuts
  some answer; all sessions embed under the first, only the one that searches under
  the second. Five messages with a threshold of
  four are compacted, filled up and compacted again.
- `conversation`: two workers are a turn and the picker that cancels it, or a turn
  and its successor. The lines reach a denied command directly, by a wrapper, by
  a path, behind a keyword, in an expansion, in a script behind options the
  scan passes or gives up at, and in scripts one and two deep, one more than is read;
  `MaxDepth` 3 is deeper than any of them. Chains of three are an agent, what it
  holds and what that holds (a memory and its embedding). Three frames are two
  pieces of one call and one of another, or text between; two tries are one that
  fails; a request with media is not streamed, since its media matter only until it is
  sent. A pause asks two cards, two questions or one of each. Three middlewares put the tracer first, between and last.
- The state spaces are searched completely. Deadlock is allowed in
  `AgentRuns`, where the agent is closed and everything is over, and in the
  three suites, where a component stops when its bounds are used up (no more
  messages, edits, saves or workers) and a session can end.

### Fairness

`tool_rounds_live` assumes weak fairness of every step the event loop itself
takes (a task that can run is run), of tools (they end: `_dispatch` bounds each
with `wait_for`), of hooks (the code gives them no limit: an assumption) and of
a slow cleanup. It assumes nothing of users, hosts, crashes or cancellations.
`react_turn` assumes weak fairness of the loop's own steps: a request returns
(client timeout, `_with_retries` gives up), a round ends (`RoundEnds`), a gate
answers. Model, gates and users may do anything, and the run still ends, since
every way back to the top spends an iteration. `AgentRuns` has no liveness run:
`WaitsForSomeone` is the safety fact behind the progress of `close()`, as the
second part of `McpKeepsPromises` is behind the answers to MCP requests and
`BusyForSomeone` behind a composer that is blocked.

## 4. What is proved

All theorems hold for every value of the constants allowed by the named
assumption of the module: any numbers of calls, slots, restarts, runs (finitely
many), sessions, closers, agents, iterations, servers, savers, tasks, payers,
prices, rows, search limits, similarities, registries, conversations, observations, middlewares, tries, frames and contents,
any tree of files, any limit of a scan, any bash scripts, rules, options and words,
any depth of components that hold components.

| module | about | theorems |
|---|---|---|
| `ToolRoundsProofs` | `ToolRounds` | `TypeCorrect`, `AnsweredAtMostOnce`, `ResultsTellTheTruth`, `NeverWithoutConsent`, `KeepsTheLifecycle`, `WritesMeetOnlyOrphans`, `NothingStaysExecuting`, `CallsStartInOrder`, `ResultsEnterInOrder`, `OnlyWaitingCallsAreOpen` |
| `ReactTurnProofs` | `ReactTurn` | `TypeCorrect`, `PausesKeepTheBudget`, `CompletedIsSettled`, `AcceptedIsCurrent`, `HeldIsJudgedFirst` |
| `AgentRunsProofs` | `AgentRuns` | `TypeCorrect`, `SessionsAreSerial`, `CloseIsWoken`, `NothingReleasedUnderARun`, `NoSandboxOutlivesClose`, `NoUploadUnderClose`, `ClientIsShared` |
| `WorkspacesProofs` | `Sandboxes` | `SandboxesTypeCorrect`, `NoEditIsLost`, `CloseLeavesNothingOpen` |
| | `WorkspaceSync` | `SyncTypeCorrect`, `NoContentIsLost` |
| `StoresProofs` | `SessionStore` | `SessionsTypeCorrect`, `SerialSavesAreReadable` |
| | `StoreConnection` | `ConnectionTypeCorrect`, `NoClientLeaks` |
| | `Quota` | `QuotaIsKept` |
| | `McpConnection` | `McpTypeCorrect`, `McpPromisesKept` |
| `RememberedProofs` | `FileTools` | `FileToolsTypeCorrect`, `NothingUnreadIsLost` |
| | `FilePaths` | `PathsTold` |
| | `Registries` | `RegistriesTypeCorrect`, `MemoriesAreReached` |
| | `Logbook` | `NewestAreRecalled` |
| | `Skills` | `SkillsTypeCorrect`, `EditsAreKept` |
| | `Compaction` | `CompactionTypeCorrect`, `WindowIsKept` |
| `ConversationProofs` | `Terminal` | `TerminalTypeCorrect`, `ConversationStays` |
| | `ModelCall` | `ReplyIsFaithful` |
| | `Permissions` | `PermissionsTypeCorrect`, `PermissionsAreKept` |
| | `Components` | `ComponentsTypeCorrect`, `StoredComeBack` |
| | `Hooks` | `SpansEndOnce` |

Each part proves an inductive invariant and derives its theorems from it.

- **ToolRounds.** `TypeOK`, for the live context and for the saved copy that
  every result agrees with `ran` and `answers` (a crash brings back the copy,
  so the copy must satisfy the same), that the calls of a round are registered
  and `queued` ones consumed and unanswered, and for each call that `step`
  agrees with its record: a call in its tool is executing, one at a request
  hook has not run. `StartsWithConsent` is then a fact about each action, and
  `LifecycleSpec` maps each action to `Progress`, `Keep`, `Return` or a stutter.
  `SharedOK` adds who shares its time with whom: a batch is one call or read-only
  calls, and a broken gather gives up only calls of the second kind, so whoever
  outlives a round only reads (`WritesMeetOnlyOrphans`). `ExecutingHere` says an
  EXECUTING record has a coroutine that will settle it; it holds if no response hook
  raises or is cancelled and nothing crashes, which `NothingStaysExecuting`
  assumes (`stuck_after_hook` shows what happens otherwise). `OrderOK` places
  the calls of a round (dispatched ones before the batch before the rest, each
  dispatched one waiting, queued or answered) and gives the two theorems
  about order; both assume that ids are not repeated (`NoRepeats`), since `_answer_unanswered`
  goes by ids. `OnlyWaitingCallsAreOpen` is about a process without crashes and
  without the faults of `Faults` (`NoFaults`, what `tool_rounds` checks too):
  nothing is left over by a gather (`Calm`), and outside a round every call of
  every earlier round is consumed and answered, or waits for the user beside a
  call that was denied (`GapsOK`).
- **ReactTurn.** What a run takes along from the pause before it: between
  runs `stash` holds the iterations spent, during a run it is empty and
  `iteration = spent`; an answer that waits brings `decision = "waiting"` to
  the recheck, through further pauses; past the preamble a call is open only
  beside a denied one.
- **AgentRuns.** `active` is the number of runs inside (`Counting`); when a
  `close()` is past its wait nobody is inside and `closed` holds, so nobody gets
  in (`ClosingOK`); once the manager is shut no call gets a sandbox
  (`PoolsOK`); the client's users are the other agents plus this one until the
  first `close()` detaches (`ClientOK`).
- **Sandboxes.** The content a sandbox remembers of its last sync is on both sides
  or was given up: edited over, deleted, or gone with a sandbox (`Based`), and a
  sync that is between its listing and its move still moves what it listed
  (`WindowOK`). So a side that looks unchanged has nothing of its own.
  For `CloseReleases`: a `close()` that has returned found every entry idle or
  under somebody who will see that it is closed (`ClosingOK`).
- **WorkspaceSync.** A content that a manifest vouches for is still in the store
  and in that server's cache, or was given up before (`Vouched`), on disk, in
  memory, in the listing and in the scan a sync works from. So what a sync
  replaces or deletes without asking was never the only copy.
- **SessionStore.** With calls one after the other one thread has anything
  under way (`Alone`), the listing is never newer than the body (`Files`), and
  each step of the thread knows what it has written (`Written`).
- **StoreConnection.** The backend's lock is held exactly by those who set up or
  close a client (`LockHeld`), and the open clients are the one in use and the
  one its holder handles (`Accounted`).
- **Quota.** An entry of the store says exactly what its period was charged, and a
  charged period without an entry made room for `KeepPeriods` newer ones
  (`LedgerOK`). What a period is charged beyond its quota was added by runs that are
  through with it, each once and at most by the dearest price (`TokensWithin`,
  `TasksWithin`): a count of finitely many payers.
- **McpConnection.** One worker at most opens or serves, those before it only end
  (`OneWorker`); a call in flight belongs to a worker that has not ended
  (`CallsHeld`); whoever waits has a worker that will answer or fail it, the worker
  named lost aside (`Waited`); a request that is not read-only has been sent at
  most once where its caller stands (`AskedOnce`).
- **FileTools.** A conversation whose stamp is the file's knows the content,
  unless no stamp could tell it (`StampsTell`), and between the check and the
  replacement the content stays one it knows (`InHand`): within a process
  because of the lock of the path (`OneWriter`), and what another process
  writes there is a content nobody stamped.
- **FilePaths.** The folders of what is in the tree are in it (`TreeOK`): what is
  found below a directory that may be asked for can be opened step by step, and a
  walk that stops at no limit goes down every way to a file.
- **Registries.** A vector that nobody raced was made from its row's text
  (`TrueVectors`), and a search has read every row it will not read again, or those
  it read are as many as may be and newer (`Covers`, `Reading`). A row that ranking
  leaves out then has its place taken by one as close. `get_context` reads the rows in an order the store chooses: along
  any such order the record kept is preferred to those read before (`LoopKeepsBest`).
- **Logbook.** The list of what fits only grows along the records
  (`FittingGrows`), and what fits among the first of them is that list part of the
  way (`FittingFirst`): the table's answer is how the local one begins.
- **Skills.** An edited file differs from the manifest's entry (`EditsDiffer`), one
  nobody edited equals it (`RestAgrees`), crashes and forgotten entries aside.
- **Compaction.** `Accepted` says nothing of a round that is under way, so it is not
  inductive. `WellFormed` is, which has the calls that are open: they are of the last
  message that calls, and only results of its other calls have followed. Pruning
  and cutting leave a part of the window (`Part`): what remains keeps its order,
  and nothing but the harness's messages is missing from it after the cut. A part
  that begins where a block does parts no result from its call (`FollowsAfter`,
  `PartAccepted`), so no compaction is refused. That it fits comes from the cuts:
  one that moves on to a later block only has less (`LaterIsLess`), and where no
  budget is left the one token a summary's cut may still keep is a single block
  (`SummaryCutIs`, `WindowCutIs`).
- **Terminal.** At most one worker has a turn under way and no other is about to begin one
  (`Exclusive`), it works on the conversation shown (`OnScreen`), and once it is past
  saving the store has the conversation as it is (`SavedNow`). All of it until a
  click runs a command under a turn (`crossed`), which the property excepts.
- **ModelCall.** While a try is open, what was gathered of its frames, kind by kind
  and index by index, is what the frames say (`Gathering`), and before a try opens
  the screen shows no answer (`Quiet`). Ollama's calls are numbered by the frames
  that brought them, so no two share an id (`Indexed`). One frame more changes the
  loops over the frames and over the indices in one place (`PiecesStep`,
  `CallsGrow`), and two calls with different ids are never merged (`CallsHandedOn`).
- **Components.** What a config holds and what only a live object has are different
  arguments, so what was written of an object is what a new one is built from,
  at each level of the chain (`StoredOK`, `LoadedOK`).
- **Hooks.** A pass that no middleware cuts short reaches all of them, so the span of
  a run that is under way is open, or a hook in front of the tracer left it out:
  `SpansEnded` with the types is inductive as it stands.
- **Permissions.** What a command comes down to behind wrappers and assignments is
  what the policy unwraps it to (`ReachedIsWrapped`), and so, level by level, the
  policy sees every command the shell starts of a line without control words,
  expansions within words, and scripts the scan misses or that are deeper than is read
  (`StartedIsRead`); of a line that is certain
  it sees nothing else (`CertainIsRead`). Each call keeps who approved it and why:
  the person, or rules of the user that name all of its commands (`CallKept`), which
  further rules take back from nobody (`CallKeptStays`). `StillAsked` is the half
  about asking: only rules the user adds change a verdict, and adding one approves
  a call. The user's rules name one word each (`PermissionSorts`), so none of them
  covers a line that could not be read (`ByUserIsCertain`).

Five assumptions say more than that a bound is a number. Rows of a registry are
finitely many and the marker for "no row" is none of them; payers are finitely
many and have a dearest price; the end mark in the queue of an MCP worker is no
caller; names of a tree are names, none of them refused; a script is a sequence of
commands, its scripts are scripts, and the name at the end of a path has no path.
Each is so in the code.

Loops and recursion. The library's induction theorems take an operator and can
not be used, but a number has a least counterexample: `LeastOf` (from `WFMin`),
`Climbs` (induction over 0..n with a set) and `LoopRuns` (the states of a loop
exist) in `LoopLemmas` carry the proofs about loops that are written as
recursive functions (`KeptRow`, `Fitting`, `PiecesAt`, `CallsOf`, `Read`, `Started`, `Tokens`, `Pruned`).

Model-checked only: all liveness (`RoundEnds`, `StartedCallsSettle`, `RunEnds`),
which is out of the prover's reach. Every safety invariant and every action
property of a passing run is a theorem. The type invariants of `Quota`, `FilePaths`, `Logbook`,
`ModelCall` and `Hooks` are part of their inductive invariants; no run lists them.

## 5. Not modelled

- The retry policy's delays, the thread lock of `CancellationToken`, guards
  (steering text), the content of messages and prompts, events, layout and
  rendering of the command line, wire formats, the discovery of MCP tools,
  processes and signals of the executors.
- Smaller things: stores with charges of two kinds of period at once; a manifest
  half written (_remote.py 88-89: one step) and a database client whose `close`
  raises; a late result of a tool beside a denial in `Compaction`; `find` of the
  workspace itself and `list` of the folders above it, whose paths `FilePaths`
  takes as any other.
- The sandbox lease a read-only batch shares: when it can not be had, or its sync
  back fails, calls that need no sandbox fail with it (dispatcher.py 113-121).
- The end of a turn at its limit with the inbox unread, and a call that shapes
  the accepted answer and fails (loop.py 390, 504): what the host is owed then is
  stated nowhere. A hook has no time limit (chain.py 97), which `RoundEnds`
  assumes away. Seconds of active time are added only when a run ends well
  (budget.py 184).
- The yield of the response inside the session's lock: a host that awaits the
  agent there waits for itself.
- Components that share no state are not composed: a crash is one of a
  conversation, a store or a sync, never of all at once.

The components of `PROJECT.json` give a reason for each part.

## 6. Plan

Done, in this order: `ToolCallLifecycle` and `ToolRounds`, `AgentRuns`,
`ReactTurn`; then `Quota`, `Sandboxes`, `WorkspaceSync`, `SessionStore`,
`StoreConnection`, `McpConnection`, the files, the memories, the terminal and the
model call, with the suites and the proofs above. What would come next:

1. An abstract specification of a shared folder, implemented by `WorkspaceSync`
   over `Sandboxes`: one file on its way from a sandbox to the store.
2. Liveness of `McpConnection` (a request is answered) and of `Terminal` (a composer
   that is blocked is freed) under the fairness of the event loop.
3. The evidence of the shipped completion gate, and the shared lease of a batch.
