# Kubecode in TLA+

Kubecode is a self-hosted workspace for research with coding agents: a Rust
server (`src/server`) that runs ACP agents as child processes, keeps everything
in SQLite, and serves a TypeScript client. This directory holds TLA+ models of
the server's own protocols, the TLC configurations that check them, and proofs
checked by TLAPS.

The models are about control: which transaction follows which, who holds what in
memory between two of them, what a crash or a failing statement leaves behind.
Prompts, frames and notes are abstracted to their identity (and, where a property
needs it, to a version).

## The system

`server/src` in its own terms. "Hard" names what a test can hardly reach.

| Component | State | Operations | Hard |
|---|---|---|---|
| **Prompt queue and run rows** (`agent_store/prompt_queue.rs`, `runs.rs`, boot recovery of `agent_store/mod.rs`) | `agent_runs`, `conversation_prompt_queue` | admit (start or queue), claim, start from the queue, edit, remove, move to head, status changes, first-wins finish, interruption and claim reset at boot | claim and start are two transactions; restarts between them; retried sends; many enders of one run |
| **Session runtime** (`agent_runtime/{mod,dispatch,actor,pool,permissions}.rs`) | the `sessions` map, `session_generations`, `cancellations`; per actor its channel, active flag, current run, pending drain | dispatch, boot, receive, turn, boundary drain, steer, cancel, permission, disconnect, eviction, failure drain, idle exit | several locks one after another, channels that outlive their readers, flags overwritten late |
| Session journal (`agent_runtime/journal.rs`, `agent_store/events.rs`) | buffered provider events, sequence numbers | append, flush, fence by generation | updates of a superseded actor |
| **Orchestrator** (`orchestrator/`) | `message_routes`, the `routing` mark of messages | route, lease, deliver, settle, fail, note, retry, reconcile | every route passes several transactions in three stores, with crashes between any two |
| **Work store** (`work_store/`) | items, dependencies, assignments, attempts, decision requests, coordinators with epochs, limits | 22 commands, each one transaction | long sequences of commands by callers whose authority or view is old; cached readiness; limits against what was spent |
| Work agent, Work MCP | none of their own | tool calls to the work store | two-step commands (begin, then route) |
| Team store and coordinator (`team_store/`, `team_coordinator.rs`) | tasks, attempts, mailbox, members, proposals | claim, bind a run, report, wake members | late binding of runs |
| **Task store** (`task_store/`) | authorizations, stage events, review requests; it writes briefs and rounds of the research store and proposals in General | propose, revise, show, admit, approve, execute, review, archive, adopt | a call reads several stores and then writes several transactions; retries of half-done calls; old instructions |
| Channel and member stores | messages, read cursors, mentions; members and their Sessions | post, read, mention; replace, remove | Session replaced under a route |
| **Experiments** (`experiment_store/`, `experiment_runner/`, `orchestrator/analysis.rs`) | experiments, envelope, waits, mail; processes with pid files and receipts | reserve, claim, spawn, identify, monitor, cancel, recover, reconcile, wait, decide, remind | stops between reservation, claim, process and identity; a monitor that decides on an old row; budgets and slots |
| **iLink** (`ilink/`, `agent_store/ilink.rs`) | sealed credentials, durable cursor, dedupe keys; ServiceCore with the wire cursor; poll loops by generation; the bridge's channels | log in, restore, reconnect, disconnect, poll, deliver a page, process, commit, dispatch | loops that replace each other while one has an answer; cursors that move apart or are reset; an effect and its record are two steps |
| Attention, research store, project context | documents with revisions, read models | CRUD | little |
| Terminal, workspace, git, watcher, discovery, owner lock, HTTP API, front end | operating system, or none | I/O | not protocols of this program |

How they interact: HTTP handlers, MCP tools and the orchestrator all start work
with `start_or_queue`, which asks the prompt queue to start or queue a prompt in
one transaction and then dispatches a started run to the Session's actor. Actors
drain the queue at their turn boundaries. The orchestrator turns messages,
attempts and results into routes and delivers each as a prompt under the client
id `route:<route>:<session>`. The work store's coordinator row and the member
store's current Session decide for whom. A restart interrupts the active runs
and gives claimed queue rows back; the rest of the runtime starts empty. The task
store opens a round of a Task when the researcher's words allow it; native work
and experiments belong to a round, and experiments outlive the Runtime as process
groups of their own. A WeChat message becomes a prompt like any other once the
bridge has handed it to the router.

What makes each correct is said by its properties below; the components without a
module are listed under "Not modelled" with the reason.

## Modules

| Module | What it is |
|---|---|
| `PromptQueue` | the store of one Session; each action is one immediate SQLite transaction, taken by anybody at any time. It is the abstract specification (`StoreSpec`) of the runtime. |
| `MCPromptQueue` | its TLC root |
| `PromptQueueProofs` | its inductive invariant and the TLAPS proofs |
| `SessionRuntime` | extends `PromptQueue` with the handlers, registries and actors that take those transactions |
| `SessionRuntimeProofs` | its invariants, the TLAPS proofs, and the proof that it implements `PromptQueue` |
| `MCSessionRuntime` | its TLC root; `Events` in a cfg chooses the environment events of an instance |
| `RouteDelivery` | the orchestrator's tick and everything that happens to routes meanwhile |
| `RouteDeliveryProofs` | its inductive invariant and the TLAPS proofs |
| `MCRouteDelivery` | its TLC root |
| `WorkStore` | the commands of the work store on one round |
| `RoundLedger` | what a round is promised: attempts against limits, coordinators by epoch; the abstract specification `WorkStore` implements |
| `MCWorkStore`, `WorkStoreProofs` | TLC root; invariant, proofs and the refinement theorem |
| `ExperimentRuns` | the experiments of one round: store, runner, processes, analysis |
| `MCExperimentRuns`, `ExperimentRunsProofs` | TLC root; invariant and proofs |
| `TaskStages` | Tasks and the researcher's authorizations |
| `MCTaskStages`, `TaskStagesProofs` | TLC root; invariant and proofs |
| `WechatInbound` | one WeChat account, from Tencent's server to the router |
| `MCWechatInbound`, `WechatInboundProofs` | TLC root; invariant and proofs |

Definitions whose comment begins with "Variant" are ways the code could be wrong;
no specification uses them. They are what each property has been seen to catch.

### PromptQueue

- `runs`, `queue`: the rows in rowid order. A queue row keeps its place when it is
  removed (`deleted`), so a rowid is never used twice in the model.
- `claims`: what a caller of `claim_next_queued_prompt` holds until
  `start_run_from_queue_item` has run: the item and the content it read.
- `accepted`, `steered`, `dropped`: history, for the properties.
- `AdmitAndStart` and `AdmitAndQueue` are the two outcomes of
  `start_prompt_or_enqueue`; `StartOrRefuse` is `start_run_with_visibility` (drafts
  and structured composers, which refuse a busy Session). `ClaimNext`,
  `StartClaimed`, `EditItem`, `RemoveItem`, `MoveToHead`, `SetRunStatus`, `FinishRun`
  are the methods of those names; `LoseClaim` is a start whose transaction failed.
  `Restart` is the boot: active runs are interrupted, then every claimed row goes
  back to pending.
- A client message id belongs to one path: `PlainIds` to the queueing one,
  `DraftIds` to the refusing one. The front end makes a new UUID for each send.

### SessionRuntime

A handler that takes several locks is several steps and its local variables are a
record in `calls`. An actor is a generation with a program counter:

    new -> boot -> top -> (claim -> start | recv) -> turn -> finish -> boundary
        -> (restart) -> top ... -> closing -> closed -> gone        failed -> closing

`dispatch` is `RegisterAndLookUp`, then `Send` or `SpawnActor` and `InsertHandle`:
the generation is registered before the handle, under another lock, and the
handle is inserted without a second look. A prompt or a draft that was committed
and whose title or session event then failed is never dispatched (`CommittedTo`);
`ResendPrompt` is a send whose client id has a run already: every retry of a plain
prompt, and of a draft the one that looked before the first was committed. A cancellation channel is a token: the
receiver resolves when the map no longer holds its token, fired or dropped alike.
`handle` is the sessions map's entry, `current` the generation registry's.
`TakeHandle` stands for disconnect and for eviction by other Sessions' activity
(the count of warm actors and the LRU order over Sessions become a choice).
One command kind, `ready`, stands for all commands that neither start a run nor
stop the actor; the provider is a turn that ends with some outcome.

### RouteDelivery

- `routes` has one row for each (source, target) that can occur, which is the
  table's UNIQUE key; `create_route` writes only an absent one. `when` abstracts
  `next_attempt_at` and `lease_until`: may be leased now, leased, or waits for its
  backoff or hold.
- `marks`, `attempts`, `member`, `former`, `holder`, `stopped` are the parts of the
  channel, work and member stores the orchestrator reads and writes. `inbox` is the
  set of prompts Sessions have admitted, keyed by client message id as the prompt
  queue keys them: `AdmissionIsIdempotent` is why a set is enough.
- `pass` is the single worker: its phase, the rest of the batch it read, the route
  in hand with the row as it was leased, the Session it was resolved to. Every
  transaction of `tick` is a step, so everything else interleaves with them.
- `StatementFails` ends the phase as the `?` operators do (an error while routing or
  reconciling does not stop the delivery of what is due); `Crash` forgets `pass`.

### WorkStore and RoundLedger

- `items`, `deps`, `assignee`, `attempts`, `requests`, `seats`, `policy` are the tables of
  those names for one round; `question` is the research store's status. A command is
  one immediate transaction behind the store's mutex, hence one action: the
  interleavings that matter are between commands, by the researcher, by
  coordinators of any epoch ever seated, by executors and by the server's passes.
- `CheckCoordinator` and `Coordinates`/`Executes` are the authority checks; every
  action that is carried out records the epoch it spoke for in `spoken`.
- `Refreshed` is `refresh_readiness` over the whole round, a trailing part of each
  command that calls it, never a step of its own.
- Revisions are left out: whoever names the current one is heard and every other
  caller changes nothing.
- In `RoundLedger` an attempt is a slot that is unused, open or closed, and `Ledger`
  maps the attempts, the policy, the number of seats and `spoken` to it.

### ExperimentRuns

- `rows`, `envelope`, `waits`, `mail`, `reminders` are the store; `process`, `receipt` the process
  group, its pid file ("named") and exit receipt; `callers` and `launcher` the launch
  handler before and after `mark_launching`; `monitor` the supervisor's task with what
  it last read (`cancel`) and whether it sent SIGTERM (`termed`).
- A launch is `Reserve` (or `ReserveAgain` under a known key), `MarkLaunching`, `Spawn` or
  `SpawnFails`, `MarkRunning` or `EndedUnidentified`. `Crash(reboots)` ends the Runtime at any
  point, with the processes or without them; `Restart` lists the active rows, which
  `AbandonReserved`, `RecoverUnidentified` and `Adopt` then take one at a time.
- `CloseForCancel`, `ListForCancel`, `CancelListed` are the three steps of cancelling a
  round; `MarkDisbanding`, `CancelTeam`, `DeleteTeam` those of removing a Team.
- `RouteFinished` and `ReadOwed`/`ReadSettled` read whether a result is owed, and
  `StartAnalysis`/`ResolveAnalysis` move the task later on what they read (`routing`).

### TaskStages

- A message of General is its sequence number. `channel` holds the researcher's words
  (with the Task they name, if any) and the proposals shown. `grants` are the rows of
  `task_authorizations`, `log` the last stage event, the watermark and the rounds that
  have an event, `review` an open request, `rounds` the rounds by the message that
  authorized them (`PanelRound` is the one of the research panel).
- `calls` are the General Agent's calls in progress: `AskAdmission`/`AskRevision` are
  `check_instruction` and `require_shown`, and `GrantStep` the transaction after them;
  an execution is `AskExecution`, `CheckExecution`, `RecordExecution`, `BeginRound`,
  `StartRound`, `LinkRound`. `CallFails` drops a call anywhere; `RestartTasks` drops all and
  adopts what they left, as `TaskStore::from_database` does.
- The reads of one check are one step: each later read can only refuse more.
- `question[t].work` says whether the question has open internal work of `work_store`.
  `MakeWork` is `create`, which refuses an archived question; `LinkWork` is `link_round` and
  the mirror of a Team's tasks, which do not look (see the divergences); `FinishWork` its end.
  None of them is counted by `MaxEvents`.
- `openings` is history: which words linked a round, and the watermark that stood
  when the call came.

### WechatInbound

- A message is its position at Tencent's server, a page an interval of them, and
  `get_updates_buf` the position it reads to. `disk` is what is stored, `core` is
  `ServiceCore` (the wire cursor is `core.wire`), `loops` the `sync_loop` of each generation,
  `pages`, `desk` and `prompts` the bridge: its channel of pages, the page in hand with
  whether the current message has taken effect, its channel of prompts.
- `callers` are the callers between the lock sections of `restore_on_startup`,
  `spawn_poll_loop` (`SpawnPollLoop`, `InsertPollTask`), the confirmed login and
  `disconnect`. A task that has ended stays in `poll_task`, as in the code.
- `HandMessage` is the effect (a reply, or a prompt given to the router) and
  `CommitMessage` its record with the cursor of the whole page; a stop, a failure
  (`CommitFails`) or a logout may come between.
- `Strangers` and `Unreadable` are the messages the bridge answers itself (senders that
  are not allowed; voice, files). A dedupe lookup may fail (`LookupFails`): a stranger
  is then answered again, anything else is skipped or refused.
- A page may come without a cursor (`LoopAnsweredBare`); its loop then keeps the one it
  sent (`client.rs`), and asks for the same messages again.
- `handed`, `served`, `refused`, `lost`, `excused` are history. `excused` counts the lost
  records and failed lookups of a hand-over; `cutOff` says that the login ended in
  this life, or that a loop ended because it could not read its credentials.

## Properties and runs

| Run | Bounds | Shows |
|---|---|---|
| `prompt_queue` | one plain and one draft client id besides anonymous prompts, 3 runs, 2 rows, 1 move, 1 edit | `CompletedOnce` (one terminal event), `ActiveRunMatchesItem` (the provider gets what the queue shows), `OneDrainPerItem`, `PromptKept` (nothing acknowledged is lost), `SameSendSameItem`, `DrainInOrder` |
| `session_live` | 3 runs, 2 rows, 1 actor; steer, cancel, remove; no faults | `RunHasOneHolder`, `QueueIsWatched` (no lost wake-up), `EveryRunEnds`, `EveryItemIsDrained` |
| `session_faults` | 3 runs, 1 row, 2 actors; idle exits, disconnects, failures, crashes, permissions, storage errors | `PromptedAtMostOnce`, `NeverTwoHolders`, `OnlyItsActorEndsATurn`, `ImplementsStore` (every step is a store transaction or a stutter) |
| `session_registry` | 2 runs, 2 actors, retried plain sends, initialisation, idle exits, edits | `RoutedToCurrent`: the two registries agree again |
| `routes_conversation` | 2 messages, 3 Sessions, 2 tries, 1 retry, 1 fault | `DeliveredWasAdmitted`, `FailureIsNoted`, `ReadMessageHasRoute`, `RoutesSettle` |
| `routes_work` | 1 attempt, 3 Sessions, 3 tries, 2 faults | `UndeliveredStaysClosed`, `SlotIsFreed` |
| `work_plan` | 2 items, 1 Session, 1 attempt, any dependency between them; results, analysis and flags of the server | `DependenciesAcyclic`, `ReadyNeverWaits` (cached readiness is never behind) |
| `work_round` | 2 items, 2 Sessions, 2 attempts, 1 request key, 3 epochs, limits of one and of two | `OpenAttemptIsHeld`, `OneAttemptPerKey`, `AuthorityIsFenced`, `KeepsLedger` (the store implements `RoundLedger`) |
| `experiment_live` | 1 attempt of a Team or a task, 1 member, 2 handlers at once, 1 reminder, 1 stop | `OpenWaitIsOwed`, `SlotHeldWhileRunning`, `AttemptSettles`, `TaskFollowsAnalysis` |
| `experiment_round` | 2 attempts, 2 handlers at once, two sets of limits, 1 stop | `OneProcessPerKey`, `BudgetIsExact`, `RoundCancelIsComplete` |
| `task_stages` | 2 Tasks, 2 calls at once, 3 posts, 2 revisions, 1 panel command, archiving, failure or stop; work made or linked at any time | `ScopeWasShown`, `OldWordsStartNothing`, `ArchivedIsSettled` (an archived Task hides no review, and no work but what a round of it brought) |
| `wechat_inbound` | 2 messages, one from a stranger, 2 loops in a life, 2 stops, failures (of the store too), bare pages, logins or calls of the user | `HandledOnce`, `NothingIsSkipped`, `EveryMessageIsServed` |

Each module also has a type invariant. All are proved for every instance (see
"Proofs"), so no run repeats them.

**Why the bounds are enough.** Two queue rows give order, overtaking and a claim of
one while another waits. Three runs give a turn, the next one from the queue and
one admitted in between. Two generations give a superseded actor, its successor,
and the registry race. Two tries and one retry reach each side of a route's limits,
and one fault in the conversation and two in the work reach each window between
two transactions. Two work items are the shortest cycle and the shortest wait;
three epochs let a Session hold a round, lose it and hold it again. Two launches
compete for one slot, one budget and one streak of failures; one stop reaches each
window of a launch, because what is left behind is the same whoever did it. Three
posts are a proposal, words, and a second of either, and two calls are two racing
uses of one message or a retry beside its first try. Two loops are an old and a
new one; two messages are a page whose first half is recorded. Events are divided over runs because their effects are local: the
combinations left out are initialisation with faults, steering with
disconnects, and retried drafts (`RoutingAgrees` is proved with them). `CHECK_DEADLOCK FALSE` is set in the configurations of the queue and
the runtime because their bounds stop them (all rows used) and a Session may be
idle for ever, and in those of the work store, experiments, Tasks and WeChat
because everything may be done, closed or waiting for a person who never comes;
the routes run with deadlock checking.

**Fairness.** `SessionFairness`: handlers and actors are tokio tasks that hold no
lock across a step, so each continuously enabled one goes on, and the provider
ends every turn it is given (an assumption about the outside; a user can cancel).
No fairness on any environment event: timeouts, faults and users may never come.
`RouteSpec`: `start_orchestrator` runs the tick at least every five seconds, and
`TimePasses` is the clock against which leases, backoffs and holds are measured.
Pausing, ending an attempt, or telling by a second report are not fair.
`RoutesSettle` therefore allows a dispatch to wait while its work is stopped, and
`SlotIsFreed` depends on reconciliation alone.
`RunFairness`: the Runtime is started again after a stop, its handlers, monitors,
passes and recovery are tokio tasks that go on, and time passes; a member reads
its mail in the end. Nothing is assumed of the program, which may run for ever and
trap SIGTERM. The one strong fairness is on `MonitorKills`: the grace period has a
fixed end, however often the monitor looks before. No cancellation, decision, reconciliation or
further stop is fair.
`WechatFairness`: calls, loops and the bridge go on. The one strong fairness is on
`LoopAnswered`: a loop may be told of nothing, fail or back off any number of times, but a
server that has messages and is asked again and again delivers some, an
assumption about the outside. Nothing is assumed of logins, reconnects, restarts or disconnects, and `EveryMessageIsServed` excuses a
life whose login has ended.

**The case left by disconnects.** `RunHasOneHolder`, `EveryRunEnds` and
`EveryItemIsDrained` are checked without disconnects and failures. With them they
do not hold: after a Shutdown that stopped a turn, the boundary still claims and
starts the next queued item, and the actor leaves the loop with that item's run as
a pending drain nobody takes (`actor.rs`, `AfterBoundary`). The run stays active until
a restart. So does one that `start_prompt_or_enqueue` committed before a later write of
it failed (`prompt_queue.rs:100`): no handler dispatches it, and it keeps the Session busy
until then. `session_faults` shows what does hold then.

## Known divergences not kept as runs

Where the code does not do what a document, comment or test of the repository
says. A statement below that is named as a definition can be checked: give it as
the only property of the run named, with the changes listed, and TLC shows how it
fails. The statements without a name follow from the code read beside the model.

Runtime and routes:

- `RetryStartsNoTurn` (`server/tests/api.rs:3137`: "the retried request returns the existing
  run instead of starting a second turn"; `dispatch.rs:345` says so of drafts).
  `start_admitting` dispatches a known run whatever became of it, so a retried plain
  send gives the provider the same prompt again: after the first turn, or, because
  the new cancellation channel replaces the old one, in its place. The test looks only
  at the rows, of which there is one. `session_registry`; what holds of the store is
  `SameSendSameItem`, and of everything but a retry `PromptedAtMostOnce`.
- `OnlyInterruptedRunsAgain` (`prompt_queue.rs:518`: a claimed item drains again if its run
  died with the process). Rows of completed runs are never deleted, so a restart
  drains those too. `prompt_queue`.
- `OneActiveRun` (`ABSTRACTIONS.md:524`, ADR 0164). The end of a run, the claim and the start
  of the next are three transactions: a prompt admitted in between is a second active
  run, which is then failed. `session_faults` with `Events = {}`.
- `EvictionSparesPrompts` (ADR 0204). The boundary clears the active flag that a concurrent
  dispatch has just set. `session_faults` with `Events = {"evict"}`.
- A later prompt recreates an idle actor (ADR 0204): one sent between the timeout and
  the drop of the receiver disappears with the channel, and its run stays active.
- `CoordinatorIsTold` (`orchestrator/mod.rs:1610`). A crash or failed statement after the
  attempt is closed is never made up for: reconciliation looks only for attempts
  still queued. `routes_work`.

Work and experiments:

- `DoneWorkIsFinished` (`work_store/commands.rs:1142`: "Work that leaves the executor's
  hands needs its attempt finished"). `analysis_started` moves the item whatever its
  attempt does; reviewed and accepted, it is done with the attempt open. `work_plan`.
- `ExecutorsWithinLimit` (ADR 0217, section 2: no caller can bypass the limits): `link_round`
  brings an assigned item into the round without counting its executor. `work_round`.
- `ReadinessIsCurrent`: `clear_attention` does not refresh readiness, so an item may stay
  where it was before its dependencies changed. `work_plan`.
- `TeamRemovalStopsProcesses` (ADR 0213, section 6). `cancel_team` stops only processes whose
  identity is recorded, and `delete_team` reads again. `experiment_round` with one key,
  `Limits <- OneLaunch`, `MaxCallers = 1`, `MaxCrashes = 0` and `Ways = {"team"}`.
- `OwedResultEscalates` (ADR 0213, section 6). A stop between the last reminder and the flag
  on the Team loses the escalation (`experiment_store/mod.rs:916`). `experiment_live`.
- Unknown attempts are left out of the no-progress count (ADR 0213, section 3, counts
  them). What a program leaves behind whose identity was never recorded is not
  stopped (section 6), which is why `SlotHeldWhileRunning` excepts it. A monitor that
  read the row before a cancellation records the cancelled process as unknown, and
  `recover_unidentified` records unknown although a cancellation was asked for.

Tasks:

- `StatusMirrorsStage` (ADR 0230, section 1). `adopt` logs a round's event without
  `mirror_status`: after a panel round on a Done Task, or a call that ended between
  `round_mark_started` and its last write, the Task is In progress and its status still
  resolved, and `round_executable` (`work_store/commands.rs:63`) then refuses all its work,
  against the comment at `task_store/mod.rs:1256`. `task_stages`.
- `FinishedIsReopenedByNewWords` (ADR 0221, section 3: "an old, unused message cannot reopen
  a finished Task"). A call that stalls between its check and its round, or a
  half-done start that a later look at the board adopts, reopens a Task that was
  finished in between. `OldWordsStartNothing` is what does hold: the words are newer than all
  that had changed when the call came. `task_stages`.
- `ArchivedTakesNoWork` (ADR 0230, section 2: while archived, a Task refuses new internal
  work; `work_store/commands.rs:592`). `create` refuses it, but `link_round` does not look at
  the question, and the mirror of a Team writes the tasks of its round whatever the
  question is. `task_stages`; `ArchivedIsSettled` is what does hold.
- ADR 0230, section 2: an archived Task refuses admission. One that was checked before the
  archiving is written after it.

iLink:

- `ConnectedPolls` (`service.rs:63`, `docs/guides/wechat.md:29`). After an expired token
  `poll_task` still holds the finished task, so neither a reconnect nor a new QR login
  starts a loop again, and the status says connected. So it does when a login is
  cancelled between its confirmation and the start of its loop, and when the loop
  cannot read its credentials (`service.rs:1153`). `wechat_inbound`.
- The first record of a page moves the durable cursor to the page's end
  (`agent_store/ilink.rs:12`, ADR 0211: the cursor commits with each message;
  `service.rs:14`: a shutdown never persists a cursor ahead of processed messages), so a
  stop loses the rest of the page. `NothingIsSkipped` counts what a stop finds in memory
  as lost: it is about cursors moved by loops that were replaced, not about this.
- A stranger is answered once (`inbound.rs:286`). A lookup that fails counts as unseen, and
  a replayed message of a stranger is answered again; `HandledOnce` allows for it.
- A graceful stop publishes "disconnected" after the bridge has stored its cursor, so
  the notice that a prompt was interrupted is never sent (`outbound.rs`, at `spawn`).

## Proofs

`PromptQueueProofs` proves, for every set of client ids, every set of outcomes and
every bound, from the assumptions named in `PromptQueue`:

| Theorem | Statement |
|---|---|
| `StoreTypeCorrect` | `StoreSpec => []StoreTypeOK` |
| `StoreInvariant` | `StoreSpec => []StoreInv`, the inductive invariant |
| `OneTerminalEvent`, `LiveRunsAreClaimed`, `ItemsDrainOnce`, `AdmissionIsIdempotent`, `AcknowledgedPromptsAreKept` | `[]CompletedOnce`, `[]ActiveRunMatchesItem`, `[]OneDrainPerItem`, `[]SameSendSameItem`, `[]PromptKept` |
| `OutcomesAreFinal`, `DrainIsFifo` | the action properties `TerminalIsFinal`, `DrainInOrder` |

None of the safety properties is inductive alone. `StoreInv` adds what links the
tables: rows are inserted in rowid order; a claim is of a claimed row and holds its
current content (edit and remove refuse claimed rows); positions grow with
insertion except where a row was moved, which makes the FIFO argument; the client
id on a row in the queue is on no other row and on no run from elsewhere, which
makes both idempotence and the next point; a claimed row is held, was lost, or has
a run under its client id; every acknowledged id is on a run or a row. `InvStep`
goes action by action, and the delicate one is `Restart`, which makes rows pending
again whose runs exist (`RestartRows`): here `RowOwnsItsClient` carries the proof that a
later run of the row is no second admission. The theorems of the properties then
follow with temporal logic only; the two action properties use the invariant in
the state before the step. Bounds appear in the proofs only as the sets of row
ids.

`SessionRuntimeProofs` proves, for every set of client ids, events, generations and
outcomes, from the assumptions of `PromptQueue` and `SessionRuntime`:

| Theorem | Statement |
|---|---|
| `SessionTypesHold` | `SessionSpec => []SessionTypeOK` |
| `StoreIsImplemented` | `SessionSpec => ImplementsStore`: whatever handlers and actors do, the store sees its own transactions or nothing |
| `SessionKeepsPrompts` | so the runtime has `[]PromptKept`, `[]SameSendSameItem`, `[]OneDrainPerItem`, `[]CompletedOnce`, `DrainInOrder` and `TerminalIsFinal` |
| `RoutingAgrees` | `[]RoutedToCurrent` |
| `HandsHold`, `NoPromptTwice`, `NobodySharesARun`, `TurnsEndThemselves` | if nothing is sent again: `[]HandsInv`, `[]PromptedAtMostOnce`, `[]NeverTwoHolders`, `OnlyItsActorEndsATurn` |
| `ServiceHolds`, `EveryRunIsServed`, `NoLostWakeUp` | in an undisturbed Session: `[]ServiceInv`, `[]RunHasOneHolder`, `[]QueueIsWatched` |

There are three invariants, each used by the next.

- `RuntimeType` is `SessionTypeOK` and what a handler (`CallShape`) or an actor
  (`ActorShape`) remembers at each of its steps: an actor in a turn has a command in
  hand, a drain is pending only at the top of the loop or on the way out. With it every step is
  a store transaction (`StoreStep`); the two steps that are one transaction and a
  choice of what to do next need the shape to name the row.
- `HandsInv` says that the command of a run is in one place: with a handler, in one
  channel (once), or in the hands of one actor, pending drain included; that a run in
  no row is nowhere; and that what still waits was not prompted. It is proved by
  moves, not by actions: a lemma each for the ways a command changes hands (`HandedOver`
  from a handler to a channel, and so on), and every action is one of them. Its
  hypothesis is `"resend" \notin Events`: `start_admitting` dispatches a known client id
  once more (`RetryStartsNoTurn` below the runs), and then a run is in two places.
- `ServiceInv` says that the actor of the first prompt stays the only one (`LoneActor`,
  `FirstRun`), that every active run is held (`Served`), and `QueueIsWatched` itself. Its
  hypothesis `Undisturbed` leaves the researcher's events (steering, editing, removing,
  cancelling, permissions) and excludes idle exits, evictions, disconnects, failures,
  storage errors and restarts, with which the properties do not hold ("The case left
  by disconnects", below the runs, and the divergences).

Induction is over steps alone; the channels are sequences of any length, of which
`HandsInv` and `ServiceInv` say only which runs they mention and that none is there
twice (`MailRuns`, `NoRepeat`). Lemmas about `Append` and `Tail` carry that over.

`RouteDeliveryProofs` proves, for every set of messages, attempts and Sessions and
every limit, from `RouteAssumption`:

| Theorem | Statement |
|---|---|
| `RouteTypesCorrect` | `RouteSpec => []RouteTypeOK` |
| `RouteInvariant` | `RouteSpec => []RouteInv`, the inductive invariant |
| `NoMessageIsLost`, `DeliveredIsAdmitted`, `FailuresAreNoted`, `GivenUpStaysGivenUp` | `[]ReadMessageHasRoute`, `[]DeliveredWasAdmitted`, `[]FailureIsNoted`, `[]UndeliveredStaysClosed` |

`RouteInv` adds what the tick's local values say of the stored rows. `BatchOK`: a
dispatch read as failed is still failed when its turn comes. `HandOK`: a leased route
stays pending, with the retries that were read, until the tick settles it. The
conditional writes of the code name the state alone, so this is what makes the
counters they write back current, and it rests on two facts: only the tick ends a
route, and a retry needs a failed one. The proof has that shape: `OutsideStep` shows
once that no handler can disturb the tick (`MovesOutside` is all a handler may do to
a row), and each step of the tick has a lemma of its own. `FailureIsNoted` is stated
for executions without faults, and `TimePasses` may end a lease at any moment, also
during a delivery.

`WorkStoreProofs` proves, for all items, Sessions, keys, limits and bounds:

| Theorem | Statement |
|---|---|
| `InvHolds`, `TypesHold` | `WorkSpec => []WorkInv`, `[]WorkTypeOK` |
| `AcyclicHolds`, `ReadyHolds`, `HeldHolds`, `KeyHolds` | `[]DependenciesAcyclic`, `[]ReadyNeverWaits`, `[]OpenAttemptIsHeld`, `[]OneAttemptPerKey` |
| `FenceHolds`, `SettledHolds` | the action properties `AuthorityIsFenced`, `SettledForGood` |
| `LedgerHolds` | `WorkSpec => Ledger!LedgerSpec`: every command is a step of `RoundLedger` or none |

`WorkInv` adds that an accepted item is done (so a refresh never moves it back), that
dependencies are between items that exist, and that attempts belong to linked
items. `DependenciesAcyclic` is stated as "every set of items has a sink", which makes
the proof short: in a set that a new edge could close, look at the items its
target reaches (`AddedEdges`). The proof does not go through every action for every
conjunct: one lemma for each variable says in what ways it can change at all
(`AttemptsStep`, `ItemsStep`, `DepsStep`, `RefreshStep`, `HeldStep`), and each conjunct cites
the ones it needs.

`ExperimentRunsProofs` proves, for all keys, members, limits and any number of stops:

| Theorem | Statement |
|---|---|
| `RunInvHolds`, `RunTypesHold` | `RunSpec => []RunInv`, `[]RunTypeOK` |
| `ProcessHolds`, `BudgetHolds`, `SlotHolds`, `WaitHolds`, `CancelHolds` | `[]OneProcessPerKey`, `[]BudgetIsExact`, `[]SlotHeldWhileRunning`, `[]OpenWaitIsOwed`, `[]RoundCancelIsComplete` |

`RunInv` adds, for each key, how row, claim, process and monitor go together
(`RowsMatch`, `ClaimHeld`, `SettledGone`): what was never claimed never ran, and a handler
with the claim has a row that nobody else moves on. Two facts link the parts of the
Runtime: recovery is alone (`RecoversAlone`: no handler launches while it looks), and
from the moment a cancelled round is closed its list is complete (`SweepCloses`).

`TaskStagesProofs` proves, for all Tasks, calls and bounds:

| Theorem | Statement |
|---|---|
| `TaskInvHolds`, `TaskTypesHold` | `TaskSpec => []TaskInv`, `[]TaskTypeOK` |
| `ScopeHolds`, `OldWordsHolds`, `ArchiveHolds` | `[]ScopeWasShown`, `[]OldWordsStartNothing`, `[]ArchivedIsSettled` |
| `OneStepHolds` | `[]OneStepPerInstruction`: words used for one Task do nothing else |

What a call has read may be old when it writes. `CallHolds` says what it may still
rely on, and `Kept` why: no step of anybody takes back what was shown, what was
approved, a round, or a watermark (`ShownStays`, `ApprovalStays`, `CallStays`). A step is
then the call's own, which is looked at, or another's, which keeps everything.

`WechatInboundProofs` proves, for any number of messages, loops and failures:

| Theorem | Statement |
|---|---|
| `WechatInvHolds` | `WechatSpec => []WechatInv`, which has `WechatTypeOK` |
| `HandledOnceHolds`, `NothingSkippedHolds` | `[]HandledOnce`, `[]NothingIsSkipped` |

`CursorsHold` says that every position that is or may become a cursor (the wire's, the
stored one, the one a loop asks from, the ends of pages) has all messages up to it
settled or in memory; `BufsHold` that the cursor a page carries is never beyond
its end; `DeskHolds` and `HandedCounted` that a hand-over is recorded, about
to be, or excused. Both rest on two monotone facts: what is settled stays settled
(`SettledStays`), and what is accounted for is moved but never dropped (`AccountedStays`).

**Only model-checked.** All safety properties of the passing runs are proved. What stays with
TLC is liveness: `EveryRunEnds`, `EveryItemIsDrained`, `RoutesSettle`, `SlotIsFreed`, `AttemptSettles`,
`TaskFollowsAnalysis`, `EveryMessageIsServed`. TLAPS reasons neither about `ENABLED` nor about
fairness.

## Not modelled

Of the modelled parts: run checkpoints, usage, attachments and permission
policies; the provider protocol (load, resume, authentication, modes); side
conversations; several Sessions at once (another Session matters only through
eviction); a second server process (an operating-system lock keeps it out). In the
orchestrator: mentions, asks, requests and agent hand-offs, denial and reroute of
messages, routes of experiments and answers, deleted Sessions, reassignment of a
task, and `Busy`, which `start_or_queue` never answers. A message for which a second
route is made after a crash (the manager's Session was replaced before the mark)
can be reached in `RouteDelivery`; no run states it. 

In the work store: mirrored Team tasks, reservations of executors, repinning of
results, revisions. In the experiments: logs and artifacts, deadlines, authorized
commands, a key used again with other content. In the task store: pins of the
evidence of a review, acknowledgements, the limit on drafts, replaced members, two
calls of `adopt` at once (it is one step), read models. In iLink: what is sent to the
peer, the commands a prompt may be, media, the detail of the QR login, several
login calls at once, `stop` and `shutdown` as steps of their own (`Restart` covers what
they leave), the retention of 1024 dedupe keys.

Components without a module: the Session journal (a record read for display and
replay; no run or row depends on it), the ACP adapters (a data mapping), row CRUD
with revision checks (conversations, composer, revisions, media, research store,
project context), read models (attention), the tool surfaces over modelled stores
(work agent, MCP, HTTP API), the Team store and coordinator (the older form of the
work store, mirrored into it), and operating-system I/O (terminal, workspace, git,
watcher, discovery, owner lock). The models assume what the owner lock enforces: one
server process.

## What is left

In the order of what it would add: the composition of `WorkStore` and `RouteDelivery`
through `attempts` and `holder`; requests, reroutes and experiment routes of the
orchestrator; the outbound half of iLink with its cursor; Team tasks and their
mirror; the journal's fence by generation as an extension of `SessionRuntime`; and
what of `HandsInv` and `ServiceInv` outlasts a disconnect, for a theorem about
`RunHasOneHolder` that excepts only the runs a Shutdown leaves behind.
