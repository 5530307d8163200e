# A verification project for FocusCode

TLA+ models of the FocusCode coding-agent harness, checked with TLC on small
instances, and proofs checked with TLAPS. Everything here is translated from
the TypeScript sources (`src/packages`, `src/apps`); `PROJECT.json` maps every
definition to the lines it stands for.

## 1. The system

FocusCode runs a language model against a workspace in one of two ways.

* **The Audited Focus Kernel.** A task is a durable state machine. A worker
  (`FocusKernel.run`) asks the model for one decision per turn, records it as an
  event, runs the tools it asks for, and lets a verifier decide on completion.
  Events and checkpoints go through a `FactPort` to files that other workers
  may have open too.
* **The conversational agent.** `CodingAgent.submit` answers a prompt in rounds
  of model call and tool calls, over a session file, while the user steers,
  takes back and aborts. It is made by one of three composition roots (command
  line, ACP server, SDK) and seen through a terminal, a pipe or a callback.

| component | state it keeps | operations | talks to | what makes it hard | what makes it correct |
|---|---|---|---|---|---|
| Focus Kernel (`harness-core`) | checkpoint: state, turn, actions, effects, version | `run` and the branches of `resume`, decision, completion gate | fact port, decision port, action runtime, verifier | several workers on one task; a crash at any await; the checkpoint lags behind the log | the log alone determines the checkpoint; no tool before its start is on record; nothing unknown is re-run or decided over; every run returns |
| File fact store (`persistence`) | `events.jsonl`, `.append.lock`, `checkpoint.json` | `append`, `loadEvents`, `saveCheckpoint`, `loadCheckpoint` | file system | lock theft, torn tails, power loss | one append at a time; what was acknowledged stays readable at its seq; a saved checkpoint stays |
| Action runtime, policy, ledger (`action-backends`, `action-domain`) | receipt cache, journal, capability counts, changed lines, risk | `submit`, `evaluate`, `record` | approval, tools | submissions of several tasks at once; a snapshot that is stale after the approval; torn receipts | what a task may cost is bounded; one action, one effect, one receipt |
| Conversational agent (`agent.ts`, `steering.ts`, `context.ts`) | session branch, compaction, steering queue, doom counter, abort controllers | `submit`, `runTool`, `steer`, `unsteer`, `abort`, `compact` | model client, tools, session store, audit journal | the user acts at any await; interruptions; truncated output | a transcript the provider accepts; no steering lost or doubled; a turn ends |
| Diagnostics after edits, LSP client | cache of pushed findings, pending waits | a pass after each edit | compiler, language server | late, doubled or missing pushes; a server that stalls, dies, or leaves its pipes to others | no finding older than the edit; the pass ends |
| Model clients and transport | timer, linked controller, the response so far | `complete` of four clients | HTTP | a body cut anywhere; aborts and time-outs at any await; retries | the answer is what was sent; a request ends |
| Circuit breaker, bulkhead, fallback (`agent-runtime`, `sdk`) | breaker per provider/model, bulkhead per provider | `complete` | model clients | late answers across breaker states; queued probes; aborts | a refusing circuit has its probe; a closed one is below its threshold; every request ends |
| Session store | JSONL per session, lock, write queue; a tree with a leaf and a compaction | `appendMessage`, `moveLeaf`, `saveCompaction`, `fork`, `import`, `load` | file system | two processes; torn tails; half-made copies; moves across a compaction | as the fact store, and the next request carries the branch the leaf names |
| Audit journal | hash chain per session | `record`, `verifyAuditJournal` | file system | a failed append; two processes | what was acknowledged verifies |
| Workspace checkpoints | numbered directories with a manifest | `capture`, `restoreLatest`, `evict` | workspace | death between copies and manifest | undo goes back capture by capture |
| Task graph, teams, delegation | results, errors, skipped | `runTaskGraph`, `runAgentTeam` | child agents | batches, fail-fast, abort | dependants never run early; no node has two outcomes; "completed" means all |
| Spec engine | drafts, confirmation resolvers | `clarify`, `resolveDecisions`, `declineSpec` | user interface | an answer or an abort before the waiter, or for another specification | only an answer to it confirms a specification |
| Credential store | encrypted database | `set`, `delete`, refresh | file system, issuer | concurrent load-change-save; rotating tokens | no lost token without a crossed save or a crash |
| Sign-in (`auth`) | callback server, device poll | discovery, browser, device code, exchange | browser, provider | strays and other logins on one port; slow providers | only the answer to its own request; a login ends |
| Session sharing (`ecosystem`, `share-server`) | key pair, bundles, stored shares, rate buckets | export, publish, download, import; store, expire, serve | file system, HTTP | deaths in mid-write; first use twice at once; lost answers | what is published is kept and verifies |
| File and search tools | files, temporary files | read, write, edit, patch, list, find, search | workspace | several agents in one workspace; aborts and deaths between write and rename | no half-written file; a report that is true |
| Sandbox, command runner | processes, containers | run, time-out, abort, dispose, exit handlers | operating system, Docker | background processes; ignored signals; the program's own death | what was cut has ended; no container is forgotten |
| Extensions, MCP: tool registry | tools by owner | load, fail, reload | child processes | names taken; several loaders; late lines | nobody loses a tool to another one's failure |
| Extensions, MCP, LSP: calls | pending requests | call, answer, time-out, abort, close | child processes | late and doubled answers, death | one answer per call, its own |
| Agent configuration | three layers of files, enterprise policy | load, merge, resolve, edit | file system | edits at once, failing or dying in mid-write | the layers' order; edits are kept |
| ACP and RPC servers (`apps/cli`) | sessions, prompts in flight, queue | prompt, load, cancel, steer, abort | client over a pipe, agent | requests during a turn | every request is answered, in its turn and its session |
| SDK event stream | sink, queue, hooks | `streamSubmit`, `for await` | embedding program | a turn that fails early; a consumer that leaves | a loop reads its own turn and ends |
| Composition roots | children, prompter, disposers | from arguments to a run and back | all of the above | fifteen steps that may throw | an enterprise's agent is audited and isolated; what was opened is closed |
| Terminal: line editor and vim | text, cursor, undo, kill ring, history, mode | some fifty edits, keys | | operations made of operations | no key loses text for good |
| Terminal: overlays, prompts, commands | which overlay, what waits, what is busy | keys, approvals, confirmations, commands | agent | the screen repeats the agent's state in fields of its own | what it says of the agent is so |
| Contracts, context compiler, model gateway, verifier, asset plane, control API, worker entry, goal loop | mostly none | pure functions, composition | | | see section 6 |

`PROJECT.json` lists every part with its status, and under `hazards` the places
where this code can go wrong in a way a unit test would hardly reach, with the
properties that watch each and, where a property stops short of it, what it
leaves off.

## 2. Modules

| module | what it models |
|---|---|
| `TaskStates` | the states of a task and the legal transitions (`state-machine.ts`) |
| `FocusKernel` | the kernel with any number of workers, over an atomic fact port |
| `TaskLedger` | abstract: what the event log of a task promises its reader |
| `FactStore` | the file fact store: lock file, log, checkpoint, page cache and disk |
| `FactPort` | abstract: what the kernel relies on from a fact store |
| `ActionPolicy` | `PolicyEngine.evaluate`: the rulings in their order, as an operator |
| `ActionRuntime` | the action runtime with its policy, ledger, receipts and journal |
| `AgentTurn` | the conversational agent's loop, its steering and its transcript |
| `Diagnostics` | the pass of compiler and language server after an edit |
| `ModelWire` | what the four dialects make of a transcript, as operators |
| `ModelStream` | one request of a model client, from the credential to the response |
| `Resilience` | circuit breakers, bulkheads and the fallback chain under concurrent calls |
| `SessionStore` | a session's file and lock, used by several processes |
| `SessionTree` | what is in sessions: branches, compactions, moves, copies |
| `AuditJournal`, `Checkpoints` | the audit chain; the undo history |
| `TaskGraph` | the graph and team tools |
| `SpecEngine` | clarification and its confirmation |
| `Credentials`, `SignIn` | the credential file and the jobs that use it; the logins |
| `Shares` | signed bundles, the user's keys and the share server |
| `FileTools` | the tools that read, search and change files |
| `Sandbox` | processes and containers, and how they end |
| `ToolRegistry`, `RpcCalls` | who registers the agent's tools; calls of a child process |
| `AgentConfig`, `Launch` | configuration; the three composition roots |
| `AgentServers`, `EventStream` | the ACP and RPC servers; the SDK's stream |
| `LineEditor`, `TerminalUi` | the terminal's editor with vim; its overlays and commands |
| `FocusKernelProofs`, `KernelLedgerProofs`, `FactStoreProofs` | inductive invariants and theorems about the component of that name |
| `StoreProofs` | the same for `SessionStore`, `Shares`, `FileTools` and `Resilience` |
| `SessionProofs` | the same for `SessionTree` and `LineEditor` |
| `AgentProofs` | the same for `SpecEngine`, `TaskGraph`, `AgentTurn` with `ModelWire`, `Diagnostics` and `Checkpoints` |
| `InteractionProofs` | the same for `RpcCalls`, `ToolRegistry`, `SignIn`, `TerminalUi`, `Launch` and `AgentConfig` |
| `HarnessProofs` | the same for `Sandbox`, `AuditJournal`, `Credentials`, `ActionRuntime`, `AgentServers` and `EventStream` |
| `MCFocusKernel`, `MCModelStream`, `MCTerminalUi` | instances of one component |
| `MCStores`, `MCConversation`, `MCHarness` | instances of several, side by side |
| `MCPromises` | instances of five, one after the other, for `broken_promises` |

A module holds one component: its state, one action per operation, handler or
step between two awaits, its next-state relation and specification, and the
properties, each under a comment that says what it promises. Components that
share no state are checked side by side: in `MCHarness`, `MCConversation` and
`MCStores` a variable `part` says which component moves, and the others stay in
an initial state. The behaviours of a part are those of its own specification,
its fairness included; nothing is composed that the code does not compose.

`FocusKernel` implements `TaskLedger` (`ImplementsLedger`: the ledger's `state`,
`started`, `observed`, `unknown` and `verdict` are folds of the log).
`FactStore` implements `FactPort` (`ImplementsFactPort`), whose promise, a log
that grows at its end by whole batches and keeps what it acknowledged, is the
atomic append `FocusKernel` is written over. So the kernel is checked over what
the store is checked to provide. Two differences remain and are watched by
findings: the store keeps the promise only while no two processes recover the
same lock at once, and only if no crash loses a lone newline.

### The kernel and its store

*FocusKernel.* One action per await of `run`: each append is a compare-and-set on
the version the worker last saw (`Commit`, `Conflict`), each checkpoint save is a
step of its own, and `Crash` may take a worker at every program point. The log
is a sequence of events with the payload that some later step reads; `Replay`,
`Orphans` and the gate's reading of the log are folds over it. Model output,
tool results, verdicts and approvals are free, and so are the wall-clock budget
and the caller's abort where the code looks at them.

*FactStore.* A file is the lines it holds and whether the last one ends in a
newline; an append is a write, a sync, and the release of the lock, each a step.
A kill during the write, or a power loss before the sync, leaves any prefix:
whole lines, a torn line, or (with `LoseNewline`) a whole line without its
newline. Making the lock and writing its owner are two steps, judging it stale
and unlinking it are two steps. A live holder's heartbeat keeps its lock fresh.

*ActionRuntime, ActionPolicy.* What happens between two awaits is one step: cache,
tool and policy are looked at together (`Take`), the user answers, the tool
runs, the receipt is appended and cached. Tasks share the runtime; the process
may die in between and be replayed from the journal.

### The agent and its models

*AgentTurn.* A step runs from one await of `submit` to the next; `Steer`,
`Unsteer` and `Abort` may happen between any two. A message is its role, the
steering item it delivers, and the calls it makes or the one it answers. The
compaction's split is chosen freely and then moved by `Split`, as
`adjustSplitForToolPairs` does.

*Diagnostics.* A text is its version. A pass begins with the edit: the compiler,
then a server that is started, shown each file, waited for and stopped. The
server pushes what it likes and when, may die, and may leave its pipes to a
process of its own; others edit the files meanwhile.

*ModelStream, ModelWire.* The provider may stall, fail, break off or close
anywhere in a body, which arrives in pieces that are smaller than its events;
the caller may abort, and the request's time-out may fire, as long as the
client's linked controller is alive. `SentPaired` of `AgentTurn` is stated on
what `ModelWire` makes of the transcript: items, each at its place, with the
calls and the results it holds.

*Resilience.* A chain as `buildModelClientChain` assembles it, one breaker and one
bulkhead for each link, shared by the agents in `Call`. Between two awaits
`complete` passes the gate and takes a slot or a place in the queue (`Admit`),
or is refused and falls back (`Refuse`); then the answer is counted, the probe
ended and the slot handed on (`Complete`). The clock is one flag, whether the
cooldown has elapsed since the circuit last opened.

*TaskGraph, SpecEngine.* A child agent and a stage are abstracted to how they end;
what is kept is the order of waves and batches, what a failure leaves undone,
and which specification an answer is for.

### Files

*SessionStore* has the file operations of one mutation one by one, with deaths in
between; *SessionTree* has atomic mutations and what is in them, so that a copy,
which is many mutations, can be interrupted and written to by others.
*AuditJournal* keeps the promise chain of each process; *Checkpoints* every copy,
the manifest and the restore. *Shares* has the commands of users and the
server's handling of a request as steps between file operations, with ideal
signatures. *FileTools* has a call of each tool from its first read to its rename;
a text is a sequence of lines.

### Processes

*RpcCalls* stands for the four clients that keep a table of pending calls
(extensions, MCP over pipes, MCP over HTTP, LSP); which of answer, timer, abort,
death and close settles a call is the table's matter. *ToolRegistry* has the loaders that share one
registry, line by line as an extension writes them. *Sandbox* has a command's
leader, what it left in the background, and the container on the daemon's side.
*Credentials* and *SignIn* have each await of a job, the provider beside them as an
external actor. *Launch* goes through the steps of a composition root, any of
which may fail, with the disposers each has made by then. *AgentConfig* resolves a
configuration as an operator and interleaves the edits of the global file.

### Front ends

*AgentServers*: the pipe, the queue, and the turns behind them. *EventStream*: the
sink that is put in place for a turn, the queue, and a loop that may leave.
*LineEditor*: every method of `EditorBuffer` is an operator from one buffer to the
next; vim and the escape sequences of the terminal lead keys to them.
*TerminalUi*: which overlay takes a key, and the commands whose promises the
screen does not wait for.

## 3. Runs

All with two TLC workers; the times are those of a small machine.

| run | instance | checks | result |
|---|---|---|---|
| `kernel_workers` | 2 workers, 2 actions, 1 turn, 3 calls of `run`, symmetry | `WriteAhead`, `RecoverySound`, `ImplementsLedger` | holds, 284 thousand states, 1 min |
| `kernel_recovery` | 1 worker, 2 actions, 2 turns, 3 calls of `run`, fairness | `TurnOverrunBounded`, `RunsAndTaskEnd` | holds, 239 thousand states, 1 min |
| `stores` | fact store, session trees, shares, file tools | `WritesGuarded`, `SessionsRemember`, `SharesSound`, `FilesSound`, `ImplementsFactPort`, `CallReturns` | holds, 457 thousand states, 3 min |
| `conversation` | turn, diagnostics, editor, terminal, sign-in | `TheModelIsTold`, `ScreenTellsTheAgent`, `SignInSound`, `TurnsEnd`, `NoTextLost`, `SignInEnds` | holds, 733 thousand states, 3 to 4 min |
| `harness` | the sixteen other components | the twenty-three properties below | holds, 352 thousand states, 4 min |
| `kernel_reused_ids` | a model that reuses an action id | `NoTurnOverOrphan` | violated: finding |
| `facts_lock_theft` | recovery by several processes at once | `LockExclusive` | violated: finding |
| `broken_promises` | five components, each moving until its promise is broken | `SomePromiseStands` | violated: five findings |
| `agent_truncated_calls` | `AgentTurn` without compaction | `TruncatedNeverRuns` | violated: finding |
| `resilience_abort` | 3 callers, 2 links | `AbortNeverCounts` | violated: finding |
| `stream_abort` | `ModelStream` with fairness | `AbortEnds` | violated: finding |
| `ui_session_swap` | `TerminalUi` | `TurnKeepsSession` | violated: finding |

Every property of a passing run is also run against a mutant of the code
(`PROJECT.json`, `mutants`): a definition of the model changed the way a bug in
that code would change it, after which TLC finds the property violated. A
property that joins several promises about one component is a conjunction of
named parts, each with its own comment:

* `RecoverySound` = `CheckpointIsFold` (a checkpoint is the fold of the log up to
  its version) and `NoDecisionAfterUnknown`; `RunsAndTaskEnd` = `RunTerminates`
  and `TaskSettles`;
* `WritesGuarded` = `LockExclusive` and `CheckpointKept`; `SessionsRemember` =
  `BranchIsSent` and `CopyIsWhole`; `SharesSound` = `PublishedIsKept` and
  `ExportedVerifies`; `FilesSound` = `NeverHalfWritten`, `ResultIsTrue` and
  `SearchIsComplete`;
* `TheModelIsTold` = `TranscriptSound` (`SentPaired`, and the steering items each
  accounted for once and in order) and `DiagnosticsSound`; `TurnsEnd` = `TurnEnds`
  and `DiagnosticsEnd`; `NoTextLost` = `UndoTakesBack` and `KillsComeBack`.

What `harness` checks, by component:

| component | property | in words |
|---|---|---|
| `ActionRuntime` | `ActionsAccounted` | the risk budget is overrun by one action of each task at most; an action is not run again but by a racing submission; the text of a returned receipt is on disk, and is loaded while no ended line is torn |
| `SessionStore` | `WritersExclusive`, `CommittedUnderLock` | two are in the lock only after a removal as dead; what was returned is loaded, unless a lock was stolen or an append went on in a line without its newline |
| `AuditJournal` | `AckedVerifies` | no event is acknowledged behind a line that breaks the chain |
| `Checkpoints` | `UndoInOrder` | what can be restored are the latest captures not undone, in order, with what they held |
| `SpecEngine` | `ConfirmedByItsOwnAnswer` | no late answer confirms another specification |
| `Credentials` | `StoredTokenUsable` | a stored token works unless saves crossed, a job died, or the user revoked it |
| `ToolRegistry` | `OthersToolsKept` | a failing extension never takes another owner's tool along |
| `RpcCalls` | `AnswerIsItsOwn`, `CallsSettle` | one settling per call, with its own answer; every call settles |
| `TaskGraph` | `PlanKept`, `GraphEnds` | dependants after their dependencies, no node with two outcomes, "completed" only when all succeeded; the tool returns |
| `Resilience` | `BreakerSound`, `ModelRequestsEnd` | state, count and probe agree in whatever order answers come; nobody waits for ever |
| `ModelStream` | `AnswerIsSent`, `ModelRequestsEnd` | what is returned is what was sent, or a beginning of it; a request returns, with a stream only if the client awaits it |
| `Sandbox` | `ContainersWatched`, `CutMeansEnded` | no running container that nobody will remove; nothing of a cut command goes on |
| `AgentConfig` | `ConfigSound` | the layers' order decides, under the enterprise's policy; an edit that returned is kept, if none overlapped it |
| `AgentServers` | `ServedInTurn`, `RequestsAnswered` | an accepted prompt runs and ends under its session; every request is answered |
| `EventStream` | `StreamIsItsTurn`, `LoopsEnd` | a loop reads its own turn, once and in order, and ends |
| `Launch` | `LaunchSound` | the enterprise's agent is audited and isolated from every root; what was opened is put away |

### Why the bounds are enough

* Kernel: two workers are the least that race, and every conflict is between one
  writer and one stale reader; two actions, both of which may be in one decision,
  let one be observed and the other orphaned. `MaxRuns` bounds the calls of
  `run()`: three, of which all but the last may die anywhere, so a crash may hit
  the recovery from a crash. `kernel_workers` has one turn, for the sake of its
  size; `kernel_recovery` has two, so that a turn meets what the one before it
  left. The log is bounded by these, not by a constraint.
* Stores: lock theft needs a dead holder and two waiters, hence three processes;
  batches of two make a batch that is torn in the middle; two crashes make a
  crash during the recovery of another. Two agents are enough for one to write
  to a session the other copies, and three trees for a fork of a fork or an
  import beside a fork. Two users with two commands each make one key twice at
  once; `MaxShares` 1 meets the server's limit with the second. Two callers of
  file tools overlap in every pair of tools that `MCFtSetups` lists; `MaxResults`
  and `MaxEntries` are below what the files hold, so searches are cut short.
* Conversation: two rounds make a round after the first and meet the bound; two
  calls are a batch with an inside; two items can be out of order and of
  different modes; one prompt and one user tool, in either order, make two turns
  on one transcript. `DoomThreshold` is 2 (3 in the code) to stop within the
  bound on rounds. Two edits of two files, one by others and two pushes let a
  push be about a text that is no longer there. Three keys from the texts and
  cursors in `MCEditorStarts` reach an operator with its motion and count after
  an edit; the undo, kill and history limits are 2, so that they are met. Five
  keys and three events of the agent let a command be entered while another is
  pending and a turn ends between them. Two logins share a port or not.
* Harness: every part has the least number of actors that race (two tasks, two
  session processes, two audit processes, two credential jobs in one or two
  processes, three calls of one child, three callers of a model chain, two
  sandbox commands, three edits of a configuration, two streams) and one fault
  or death more than none, two where one fault must hit the recovery from
  another. With one slot three callers of a chain make a queue of two, so that
  order and hand-over matter; a breaker's late answers need a call older than
  the opening, failures to open it and a probe: four requests hold them. The
  plans of `TaskGraph` have three and four nodes with batches of two, a cycle, a
  dependency listed twice, and roles shared by nodes. Answers of a provider have
  no more than two deltas, two calls or two parts of arguments, cut in every way.

`CHECK_DEADLOCK FALSE` is set where the bounds, or a task that is done, stop the
system.

### Fairness

* `FocusKernel`: `WF(Proceed(w))`, a worker that is not killed takes its next
  step, and `WF(LoadEvents(w))`, whoever asked for the task runs it again while
  the bound on calls allows. Every await in `run` is on a local file, a model
  client or a tool with a time-out, or a verifier. The last call does not die: no
  program settles anything if every attempt is killed.
* `FactStore`: `WF(Proceed(p))`; every await is on a file-system call that returns
  or on a timer. New calls are not fair.
* `AgentTurn`: `Proceed` is fair, the user is not, except that an approval is
  given or refused at some time. A tool ends because its runner has a time-out;
  a model call ends as `ModelStream` says it does, which for three clients means
  that the provider does not stall in mid-stream (finding 5).
* `Diagnostics`: `DgProceed`, the pass's own steps, its timers and the killing of
  the server; nothing of the server.
* `Resilience`: `WF(Proceed(c))` for each caller: the transport answers or times
  out. Callers, aborts and the clock are not fair.
* `ModelStream`: `StreamProceed`, the client's own steps and the timers it has
  armed; nothing of the provider. `Sandbox`: `SbProceed(c)`, the timers and
  signals of one command; nothing of what it runs. `RpcCalls`: `RpcProceed`, the
  timers and noticing a death; nothing of the child.
* `TaskGraph`: `GraphProceed`, children end, as turns do. `AgentServers`:
  `ServersProceed`, and turns end; the client is not obliged to write.
  `EventStream`: `EventsProceed`, promises that are settled are noticed, and the
  turn ends.
* `SignIn`: each login's own steps, its timers, and that time passes; nothing of
  the provider and the browser.
* None where no liveness is claimed: `SessionStore`, `SessionTree`, `AuditJournal`,
  `Checkpoints`, `SpecEngine`, `Credentials`, `Shares`, `FileTools`,
  `ToolRegistry`, `AgentConfig`, `Launch`, `LineEditor`, `TerminalUi`,
  `ActionRuntime`.

## 4. Proofs

Eight modules hold theorems. Each is about every value of the constants that its
module's assumption admits: any number of workers, processes, tasks, commands,
crashes. The assumptions of the modules type the constants; where a theorem needs
more, it says so itself, and the table names it. Each property was checked by a
run before it was proved, and each inductive invariant by TLC on an instance of
its own (last column), which is where most of the clauses below were found.

| theorem | property | needs | the invariant on an instance |
|---|---|---|---|
| `InvHolds`, `TypeCorrect`, `WriteAheadHolds` | `WriteAhead` | | the run `kernel_workers` |
| `KernelInvHolds`, `RecoveryIsSound` | `RecoverySound` | no reused action id | constants of `kernel_workers`: 284 thousand states |
| `LedgerImplemented` | `ImplementsLedger` | no reused action id | the same |
| `TurnBudgetHolds` | `TurnOverrunBounded` | one worker | 2 turns, 2 actions, 4 calls of `run`: 3.5 million |
| `WritersAreGuarded` | `WritesGuarded` | solo recovery | 3 processes, 3 calls, batches of 1 and 2, 2 crashes: 51 thousand |
| `AckedStaysReadable`, `FactPortImplemented` | `ImplementsFactPort` | solo recovery, no lost newline | the same |
| `BreakerSoundHolds` | `BreakerSound` | | the run `harness` |
| `AnswersMatch` | `AnswerIsItsOwn` | | the run `harness` |
| `OnlyConfirmedSpecs` | `ConfirmedByItsOwnAnswer` | | the run `harness` |
| `SessionExclusion` | `WritersExclusive` | | the run `harness` |
| `SessionCommits` | `CommittedUnderLock` | | 2 processes, 3 mutations, 2 deaths, a lock taken from a holder: 679 thousand |
| `SandboxIsWatched` | `ContainersWatched` | | 2 commands: 38 thousand |
| `JournalVerifies` | `AckedVerifies` | | 2 processes, 3 events, 2 faults: 8 thousand |
| `TokensStayUsable` | `StoredTokenUsable` | | 2 accounts, 2 tokens, 2 jobs, and 1 account, 3 tokens |
| `ActionsAreAccounted` | `ActionsAccounted` | | 2 tasks, 1 submission each, 2 deaths: 62 thousand |
| `ServedTurns` | `ServedInTurn` | | five scripts of five to seven requests: 93 thousand |
| `SharesAreSound` | `SharesSound` | | the constants of `stores`: 112 thousand |
| `FilesAreSound` | `FilesSound` | | the constants of `stores`: 11 thousand |
| `SessionsAreRemembered` | `SessionsRemember` | | the constants of `stores`: 70 thousand |
| `PlansAreKept` | `PlanKept` | | the plans of `harness`: 1 thousand |
| `ToolsAreKept` | `OthersToolsKept` | | the extensions of `harness`: 722 |
| `LoginsAreSound` | `SignInSound` | | the logins of `conversation`: 32 thousand |
| `ScreenIsTrue` | `ScreenTellsTheAgent` | | the constants of `conversation`: 53 thousand |
| `TheModelIsToldAll`, from: | `TheModelIsTold` | | |
| - `SteeringIsSound` | `SteeringSound` | | 3 rounds, 3 items, 1 call: 1.02 million |
| - `TranscriptsAreSound` | `TranscriptSound` | | 2 calls, 1 item, 1 compaction: 350 thousand |
| - `DiagnosticsAreFresh` | `DiagnosticsSound` | | 2 files, 2 edits, another's edit, 2 pushes: 36 thousand |
| `StreamsAreTheirTurns` | `StreamIsItsTurn` | | 2 streams, 2 events: 870 thousand; 3 streams: 550 thousand |
| `ConfigsAreSound` | `ConfigSound` | | the cases of `harness`: 7 thousand |
| `UndoesInOrder` | `UndoInOrder` | | 2 files, 2 checkpoints kept, 4 captures, 2 edits, 2 faults: 1.32 million |
| `LaunchesAreSound` | `LaunchSound` | isolation required | the launches of `harness`: 9 thousand |
| `TextIsNotLost` | `NoTextLost` | | four keys from the texts of `conversation`: 967 thousand |

The conditions are the findings of section 5. A reused action id hides an orphan
(finding 1), so nothing that pairs starts and receipts can hold with one; two
processes that meet the same stale lock may both get in (finding 2,
`SoloRecovery`); a lone newline that is lost takes an acknowledged event with it
(finding 3, `LoseNewline`). What the kernel is proved to do rests on the atomic
append of `FactPort`, and `FactStore` is proved to provide that under the last
two. A turn budget is a promise to one worker: each of several overruns it by a
turn of its own.

### The kernel

`FocusKernelProofs`. `WriteAhead`, that a tool runs only if the start of its action
is in the log, is not inductive. A decision may hold several intents, and the
whole list is handed to the runtime at once: at `submit` nothing in `WriteAhead`
says why each of them is on record. `Inv` adds where a worker is in its list of
intents and which of them are recorded (`WorkInv`): at `start` those before
`pos`, at `submit` all of them; and the types, with a worker's view of the log
never longer than the log. It is preserved because the log only grows:
`ArgsOfAppend` says what an append adds to the payloads of a kind.

`KernelLedgerProofs`. That a checkpoint is the fold of the log up to its version
needs the same of each worker at work (`WorkerInv`): what it holds is the fold of a
prefix of the log (`Folded`), the open actions of that prefix are the ones it is
carrying out or marking (`Waiting`, `orphans`), and its count of actions lags by
those it has not counted yet (`Uncounted`). An append is accepted only if that prefix is
the whole log (`AtHead`), which is why workers that race cannot spoil each other's
folds. `LogInv` says what a log looks like that workers have written: no action
is both observed and unknown, an open one only in a RUNNING task, an UNKNOWN mark only where
reconciliation is due, a verdict only at the gate and behind it; `CheckpointInv`,
that the saved checkpoint is a fold without an open action; `Apart`, that no two
workers hold an intent for the same action. The same invariant carries the refinement: each
kind of append is matched with the ledger's step (`LedgerSteps`), and every other
action with a stutter. `TurnBudgetHolds` counts: the turns in the log are at most
those of the checkpoint in hand, or on disk, and one for each call of `run` before
this one (`BudgetInv`).

### Stores

`FactStoreProofs`. `SoloRecovery` lets two processes use the store at once until the
first crash, and after it any number, one after the other: so whatever is left by
a crash is met by one. `GuardInv` says why nobody steals a lock that is used: before
the first crash nobody is dead and no lock is old, and whoever is in the lock made it
(`Alone`); that a call is a live process's and has something to write
(`InCall`); that a torn tail begins within the file that is cut (`Cut`); and that a
saved checkpoint was left by that save or a later one (`Saves`). `LogInv` adds the file and
what of it is on disk: only the last line may not parse, all others are at their
seq, the disk holds a beginning of the file with all that was acknowledged
(`Files`), and a process in the lock knows the length it counts from (`Batch`,
`Known`). With it every step is one of `FactPort`, or invisible to it; a torn
tail that is cut was never acknowledged.

`StoreProofs`. `WritersExclusive` is inductive only with whose lock it is
(`HoldersOwn`): a process inside owns the lock, as long as none was taken from
under its holder. `CommittedUnderLock` needs that a line is whole when it is ended
and only the last may not be (`LinesEnded`), that whoever loads the file to append
to it has cut the torn line off before (`RepairedFirst`), and which entry each
process is about to acknowledge (`EntriesKept`). That each load then finds every parent
is a proof by the least line that does not (`LeastNatural`).

`SharesSound` needs the two sides of a share. Of the client (`ClientInv`): there is a
public key only for the private one (`KeysPaired`); the file of a private key is made
by one command (`OneMaker`), and whoever works with the pair, its maker or a
reader, has the private key that is there (`HasKeys`), which `ExportedVerifies` comes
down to at `Sign`. Of the server (`ServerInv`): a file that is half there is one
request's to fill (`OneFiller`), so what a request says is published is the bundle it
was sent, and no other request writes over it.

`FilesSound`: that no file is half written comes down to a temporary file being one
call's own, which holds the text of that call before it is renamed (`FtControl`), and
to an edited text being a text. The latter is about recursive functions: `Recursion` shows by
the least number where it fails that a function given by its value at 0 and the next
one exists, and `UpTo` that what each next value has, all have. What git has put and
what it has left to put are each other's rest (`FtPuts`), and a search has found a
file, has it ahead, or has enough (`FtFound`). That the first of some entries exists, and
so many first ones for `search_text` to keep, follows from the names being different
(`FirstExists`, `FirstEntries`).

`SessionProofs`. `SessionsRemember` is about trees of which every part is read through a recursive function, the
branch up to an entry. A parent comes before its children (`IsTree`), so that function is a
branch (`BranchGrows`) of which each beginning is the branch up to its last entry
(`BranchBegins`), and it stays when the tree grows (`BranchStays`). Sessions only grow, so what an
agent has loaded is the beginning of what is there (`TreeSnapshot`) and what it will save is
true of that still (`TreePending`); each summary is of the branch up to where it is
(`SummariesFit`); and a copy that nobody touched is the beginning of what it is made of
(`TreeCopy`). Looking for this invariant showed the property to be false beyond the bounds of
its run: a session that others wrote to while it was filled gets its summary in the wrong place,
and so does whatever is imported from it later (four sessions and two imports). `trMisplaced`
now follows these, where before only the first was left off.

`NoTextLost`, in the same module, is about one step, but the step is one of some fifty
methods, or several in a row when an escape sequence goes through vim. The invariant
(`EdInv`) is that buffers, and what is on their stacks, are well formed, and that a selection has an anchor.
Each method is shown to be `Good`: it leaves a buffer, and if its text is another one,
what can be taken back is the buffer before (`Records`); so one undo takes back any of
them (`UndoIs`). Each kill is shown to have `Took` what it removed: cut out of a line
(`PutBack`), with a line break (`KillLineIs`), over several lines (`RowsBack`). What
vim makes of a key is one of the methods, and takes a selection only when there is one
(`HandledIs`); of a sequence of keys, `FedIs` says what is known when none or one of them
called a method (`FedIn`: what each key keeps, `FoldLeft` over them keeps). The proof did not go through at first: `NoTextLost` was false
beyond the bound of its run. With the anchor of a selection left outside the text, `d` and `y` put the
cursor beyond the end of its line (editor.ts:616, 640), where Ctrl+K joins the next
line on and Ctrl+Y puts the line break elsewhere; TLC finds it with seven keys. The property
lets such a cursor off now (`CursorInside`), as it did the anchor; undo has no exception.

### The harness

`HarnessProofs`, component by component:

* `Sandbox`: a container belongs to one command, or to the task as a whole, and who
  made it is watched from before it runs (`OwnContainer`, `NotBegun`,
  `BoxesOfTasks`).
* `AuditJournal`: a process that has loaded the chain is at its end, as long as it
  is alone (`ChainAtEnd`), and a line that parses is ended (`WholeIsEnded`); so an
  append that failed half-way cannot be built on.
* `Credentials`: every token was issued (`TokensIssued`), one job at a time saves, or
  the saves have crossed (`OneSaves`), what a job holds is accepted by the provider
  (`HeldIsGood`), and a stored token that is not is being replaced
  (`StaleIsReplaced`).
* `ActionRuntime`: the budget is about pending submissions: each was let through when the
  risk was within the limit, and adds `MaxObserved` at most
  (`RiskOverrunBounded` is inductive with the types and `Engaged`). That an action
  runs twice only when raced is a count of the runs and of the submissions that are yet to
  run (`RanIsSettled`, `OnceEach`). A death or a failed append may leave any part of a
  receipt (`AppendCut`), but takes no text away: what was returned without a warning
  is on a line that is ended (`AckedOnDisk`, `TornHasLine`), and while all of those are
  whole `load` returns it.
* `AgentServers`: requests are read in the order they were written (`PipeOrder`);
  in ACP the flag of a session says whether its agent is at a turn, and an accepted
  turn has its answer and no end yet (`AcpAgents`, `LiveTurns`), so that no prompt
  is refused by an agent that is still busy; in RPC the chain is in order behind the request being
  handled, and that behind all that was answered (`RpcTurns`).
* `EventStream`: which queues hear of an event is the least set that the sinks forward to. A
  stream that is open by itself has the agent's sink, and whatever lies below a sink is
  the integrator's or let off (`SinksBelow`); so its queue hears all its turn says and a closed
  one nothing more (`HearsItsTurn`), and what was read and what is queued are together what
  was said (`NothingMissed`).

`BreakerSound` (`StoreProofs`): `ProbeInFlight` and `ClosedMeansHealthy` are inductive with the
types; the lemma `ProbeStays` carries the first: a step of one caller keeps every
other caller's probe at its link, also when it wakes one from the queue, so only
a caller's own probe can end.

### The agent and interaction

`AgentProofs`. Of a specification, only the current draft is waited for
(`WaitedFor`), a draft in the making was neither applied nor announced before
(`DraftFresh`), and one that was announced is enhanced only behind its own answer
(`EnhancedWhenConfirmed`). Of a graph of tasks, until it returns each node is in
exactly one place: without an outcome (pending, chosen for the wave, in the batch)
or with one (`NodesAccounted`, `OutcomesApart`), and what left the pending nodes has all
its dependencies among the results (`DependenciesMet`), which a wave establishes and
results, that only grow, keep. That the nodes a failure dooms are pending ones is a
fixed-point argument (`DoomedIsPending`): `Doomed` is defined as the set that dooms
itself and no more, and such a set exists because dooming is monotonic.

That nothing the user steers with is lost or out of turn (`SteeringSound`) is inductive
with where everything waits (`InLine`: the queue and what was drained from it are in
the order of their ids, and what is delivered came before), and with what the turn's place says of the last
message when a follow-up may be taken (`AtPoint`). `Take` and `Unsteer` pick
positions of the queue with `Sifted`, which keeps their order: `Ranks`, `SiftedItems`
and `Parted` prove from its definition, by counting, that what is picked and what
stays are in order and are together what was there.

That a request is well formed (`SentPaired`) takes two steps. A transcript has no holes but those
of the response whose calls are being answered (`OnlyLastIsOpen`), the turn's place says how
many of its results are written (`AnswersDue`), and a compaction cuts where no
results begin (`CutApart`, of `Split`): so at a request what is sent is `Whole`. And what is
whole is accepted in each dialect (`WholeIsAccepted`): three dialects lay messages out so
that a call is at one place, a result at the beginning of its message, and whoever
speaks says something there first (`LaidOut`), which is enough (`LaidOutIsAnswered`); in
Anthropic's the results joined behind a message are as many as its calls
(`JoinedAreAnswered`).

That diagnostics are about no older text needs where a server's data may come
from (`FromThisPass`): what is in its pipe and its cache while a pass reads them was pushed for a text
that pass opened, and what an earlier pass left is gone before the next one reads.

That undo goes back in order is about each checkpoint's place: the one with
k newer ones restores the entry k before the end of the history (`LengthsAgree`,
`EntriesAgree`), one further back while a capture is at work, which is at the newest
directory, as is an undo (`AtNewest`). An eviction takes as many
from the front of the history as the directories it removes: whoever has fewer
older ones than that goes, so of those that stay none has more newer ones than are
kept (`Ranked`, which counts below and above a number of a set).

`InteractionProofs`, component by component:

* `RpcCalls`: that a call gets its own answer needs that the ids of pending
  requests are distinct (`IdsUnique`), and that whatever is on its way names a
  request that was made (`RequestsNamed`).
* `ToolRegistry`: an extension that is loaded or discarded owns every tool it is on
  record for (`LoadedOwns`), so dropping them by name drops nobody else's. Lines of
  older children still arrive meanwhile, but a name that is taken is refused.
* `SignIn`: the answer a login was given carries its own state (`OwnAnswer`), since the
  callback of another one is left alone or refused; its interval is what the provider last asked for, and
  the time it slept and has still to sleep make up that interval (`KeepsPace`); the method is a
  listed one from the profile on (`ListedMethod`).
* `TerminalUi`: `ScreenTellsTheAgent` is inductive with the types. The work is in the keys:
  each key of each overlay is harmless, answers what is asked or is the
  confirmation's (`KeyDoes`), and what it then calls keeps the screen true
  (`HarmlessKeeps`, `AnswersKeep`, `ConfirmKeeps`).
* `Launch`: the enterprise's checks come before what they are about, the sandbox and
  each extension before the agent (`ChecksFirst`); the tools are registered when the
  pins hold, after which no server is asked again (`PinnedFirst`); the end goes from the
  prompter to the extensions and the servers, and waits for each (`PutAway`). That the
  enterprise is off the host comes from the configuration (`LaunchAssumption`):
  `enforceEnterprisePolicy` throws for the host, its fallback and unsigned extensions.
  With `requireIsolatedSandbox` turned off it lets the host through, and nothing is said.
* `AgentConfig`: merging a layer over others leaves what they say unless it says otherwise itself, in a
  setting or a field of a section; so the merger of the four says what the last to say
  so says (`LastSays`, `LastSaysField`), the enterprise's lists and switches too, on
  which the policy then rules (`UnderPolicy`), and each job has read as many as its point tells
  (`LayersRead`). That the fallbacks are a list is the validation's (`CfgAssumption`). An edit is in the
  file, and in what others have read to write over it, unless the log of reads and writes lets it
  off (`WrittenStays`, `EditsInHand`).

### Only model-checked

* Liveness (`RunsAndTaskEnd`, `CallReturns`, `TurnsEnd`, `SignInEnds`, `CallsSettle`,
  `GraphEnds`, `ModelRequestsEnd`, `CutMeansEnded`, `RequestsAnswered`, `LoopsEnd`): the
  prover does not do fairness or ENABLED.
* `AnswerIsSent`: what a client has read is a fold over the events, of parts that are
  joined inside parts, and the property compares it with the fold over all of them.

## 5. Findings

1. **A reused action id hides an orphan** (`kernel_reused_ids`). Starts and
   receipts are paired by id over the whole log and nothing rejects an id used
   before.
2. **Lock theft** (`facts_lock_theft`). A stale lock is read and then unlinked by
   path; the lock that is unlinked may be a new one.
3. **A lost newline loses an acknowledged event** (`broken_promises`,
   `FactsSurvive`). A last line that parses is taken as ended.
4. **Truncated calls run** (`agent_truncated_calls`). All native clients overwrite
   the stop reason of a response with calls by `tool_use`, so the agent's guard
   against output cut off by the token limit works only for calls extracted from
   text.
5. **An abort does not end a stream** (`stream_abort`). Three of the four clients
   return the promise of reading the body without awaiting it, so that their
   `finally` disposes of the time-out and of the caller's abort once the head is
   there.
6. **An abort counts as a success** (`resilience_abort`). The breaker leaves a
   caller's abort out of its failures, but the clients return an aborted response
   instead of throwing, and the breaker takes it for a success: an open circuit
   closes.
7. **A session is swapped under a turn** (`ui_session_swap`). `/new` and its kin
   look whether a turn runs before an await and not after it.
8. **A lost newline loses a session** (`broken_promises`, `CommittedSurvives`).
   `repairTornTail` leaves a last line that parses, the next entry is written behind
   it, and one line later the session does not load; `session-store.ts:411` promises
   that a committed entry survives a crash.
9. **A crash loses the receipts** (`broken_promises`, `ReceiptsSurviveACrash`). The
   first receipt after a crash in mid-append is glued to the torn line, the second
   makes that line one that is not the last, and `load` throws; the journal
   "guarantees receipts survive a crash" (`receipt-journal.ts:19-25`).
10. **Edits of the configuration race** (`broken_promises`, `EditsNeverRace`).
    `editGlobalConfig` reads, awaits and writes with nobody kept out, and is said to
    avoid the last-write-wins race (`config.ts:2072-2080`).
11. **A container outlives the program** (`broken_promises`,
    `NoBoxOutlivesTheProgram`). Its removal is registered when `docker run` has
    returned, after the daemon started it (`executors.ts:232-240`); it "must not keep
    running" (`executors.ts:233-234`).

The last five run as one: TLC stops at the first violation of an invariant, so
`SomePromiseStands` is the disjunction of the five, and where it is violated none of
them stands. The properties of the passing runs about these components
(`ImplementsFactPort`, `CommittedUnderLock`, `ActionsAccounted`, `ConfigSound`,
`ContainersWatched`) say what the code keeps besides.

Where a model reaches something else that is odd, and no document, comment or test
rules it out, it is not a finding: the property is stated without it and the
hazard's note says what was left off (a turn that ends as aborted after an interruption that
was taken back, a budget overrun by approvals given at once, a `/reload` that
drops the tools of MCP servers, a confirmation that is waited for although its
turn was aborted, two edits of a file that both report success, and others).

## 6. Not modelled, and what could come next

Left out because there is nothing to interleave and the result is text or
layout: context compilation and the repository's profile, prompts, schemas and
canonical digests, wire formats and framing, themes, layout and drawing, costs.
Left out because it is another system's: the flags of Docker, the far side of
SSH, encryption and signatures (ideal where a model needs them). Left out though
they keep state, in the order in which they could be added:

1. web tools and the platform commands of the command line; the goal loop and the
   todo list, over `TaskGraph`;
2. calls of the agent's tools through the action runtime (`executeCallViaSpine`),
   which would compose `AgentTurn` with `ActionRuntime`;
3. `AgentTurn` over `SessionStore` with failing appends, `RpcCalls` behind
   `ToolRegistry`;
4. the asset plane with its packages, the control API, the worker's entry, and
   the hooks of extensions.

Proofs that could come next: `AnswerIsSent`, over the events of a body. No module declares a RECURSIVE operator, so all of
them can be proved about.
