# TLA+ models of agent-chatgpt-bridge

The bridge lets local agents (Codex, ACP and MCP clients, REST clients) hold
conversations with ChatGPT Web through a browser that it drives. It is one Bun
process (`src/src`) beside an Electron launcher (`src/launcher`), with a SQLite
database for sessions, turns, runs and audit events. Everything inside a process
runs on one event loop: a function is uninterrupted from one `await` to the
next, and all the concurrency lies in what happens between them. That is the
reading the models take: **an action is the code between two awaits**.

Five parts carry the program's own logic and are modelled: the session manager,
the execution of collaboration graphs, role-based runs, the bridge between
ChatGPT's tool calls and Codex, and the launcher's supervisor of the daemon and
the tunnel. `PROJECT.json` lists every part of the system, the source lines
behind every definition, the runs, and the hazards. What has no model, and why,
is section 6.

## 1. The system

| Part | State it keeps | Operations | Talks to |
|---|---|---|---|
| Session manager (`core/session-manager.ts`, `mutex.ts`, `turn-scheduler.ts`, `persistence/turn-store.ts`) | a Mutex per session, registered turns, the admission count, slots and their queue; sessions, turns and messages in SQLite | `send`, `cancel`, `close`, `shutdown`, startup recovery | providers; every protocol front end and the run controllers call it |
| Collaboration DAG (`core/collaboration-dag*.ts`) | node statuses, running jobs and failures in the scheduler; run, nodes, attempts and inputs in SQLite | plan, start, the scheduler's loop, attempts and retries of a node, cancel, recover, resume | participants (session manager, ACP or JSONL subprocess), audit trail |
| Turn broker (`adapters/chatgpt-web/turn-broker.ts`) | per turn: leases of MCP requests, queued, delivered and pending calls, a batch timer, the completion fence, compaction and Zero Risk states | register, claim, invoke, activity_complete, release, nextToolBatch, completeTool, the fence, requestCompaction, safe_start, Sent, safe_complete, revoke | MCP server over a socket; adapter in the same process; browser worker |
| MCP server (`mcp-server.ts`) | one lease per tool request | claim, invoke or answer locally, release on failure, settle with one retry | ChatGPT's connector; the broker |
| ChatGPT Web adapter (`index.ts`, `turn-execution.ts`, `turn-progress.ts`, `compaction-handoff.ts`) | a session per native turn with its journal of outstanding calls, exclusive rounds, the progress counter | return results, ask for a batch, journal and emit it, finish, reconnect, compact, retire | broker, browser worker, the Responses stream |
| Browser worker (`browser-worker.ts`) | the page, the mirrored progress, the fence's revision | send, observe, complete | the DOM of ChatGPT; the fence |
| Run controller (`core/run-controller.ts`, `persistence/sqlite-collaboration-persistence.ts`) | the loop's control record, the registered run; run, participants, turns and messages in SQLite | start, turn loop with retries and budgets, cancel a run or a participant, recover, resume from the derived cursor | participants, audit trail; the legacy debate runs use the session manager |
| Idempotent submission (`protocols/rest/idempotency.ts`, `integration-submission.ts`) | reservations with an expiry, correlations | reserve, complete, release | REST front end, run controllers |
| Event queue and Responses bridge (`event-queue.ts`, `bridge.ts`) | a bounded buffer and waiters, a stall timer | push, close, iterate | adapter, HTTP stream |
| Providers (`providers/`) | registered providers, last health observation, rate-limit cooldown | turn, discover, observe | session manager; ChatGPT or Codex router |
| Agents (`agents/`) | child processes, pending requests | initialize, prompt, cancel, close | DAG and run controllers |
| Runtime supervisor (`launcher/electron/runtime-supervisor.cjs`) | the daemon and tunnel it holds, armed restart timers, the stopping flag, the ownership file | start, stop with compensation, recovery, take-over of what a dead launcher left | daemon (health, drain, resume, shutdown), tunnel client, user |
| Browser host (`launcher/electron/browser-host.cjs`) | tab leases (at most five), retained conversations | lease, release, suspend, close | helper process, ChatGPT's page |
| Codex integration (`codex-integration*.ts`) | a journal of what was changed in Codex's configuration | install, remove, repair | the file system |
| Protocol front ends, setup, service, tunnel, configuration, dev chat, UI | little or none | translate, install, display | the parts above |

What is hard here:

- **Interleaving at awaits.** A send waits for its session, then for a slot, then
  for the provider; an abort, a cancel, a close or a shutdown comes in between.
  A node of a graph is dispatched, runs and settles while a sibling fails. A run
  is cancelled or resumed while its loop closes adapters. A start, a stop and two
  recoveries of the launcher meet at every probe.
- **Messages of another process.** MCP requests reach the broker over sockets that
  are opened per request: they come late, overtake each other, or never come.
- **Crashes.** Turns, runs and nodes are stored row by row, the launcher's
  children outlive it; the next start has to make sense of any prefix.
- **Timeouts and reconnects.** A timed-out call may still be working; a closed
  Responses stream comes back and must receive the same tool calls once more.
- **Liveness.** Shutdown drains, runs end, waiting calls return, a lost daemon is
  restored or its failure recorded.

What correctness means for each part is stated with the modules below.

## 2. The modules

| Module | What it is | Lines it models |
|---|---|---|
| `SessionManager` | sends and closes over locks, slots and stored turns | session-manager.ts, mutex.ts, turn-scheduler.ts, turn-store.ts |
| `SerialTurns` | the promise to clients: one turn per session, from a transcript that is current, stored at its end | the abstract specification SessionManager implements |
| `SessionManagerProofs`, `SessionRefinement` | TLAPS proofs: locks, slots and queues; that `SessionManager` implements `SerialTurns`, and store and memory | |
| `DagPlan` | planCollaborationDag and the cycle check, one step per round of the loop | collaboration-dag-validation.ts |
| `DagPlanProofs` | TLAPS proofs about `DagPlan` | |
| `DagRun` | one run: scheduler, node attempts, database transactions, cancellation, crash, recovery, resume | scheduler, controller, recovery and persistence of collaboration-dag |
| `DagExecution` | the promise of a graph to those who start it | the abstract specification DagRun implements |
| `DagRunProofs` | TLAPS proofs: recovery, outcomes, and that `DagRun` implements `DagExecution` | |
| `RoleRun` | one role-based run: the turn loop, its rows, cancellation, crash, recovery, the replay of the cursor, resume | run-controller.ts, sqlite-collaboration-persistence.ts |
| `RoleExecution` | the promise of a role-based run: the roles take turns one at a time and in order | the abstract specification RoleRun implements |
| `RoleRunProofs`, `RoleRefinement` | TLAPS proofs: recovery, budgets, outcomes; that `RoleRun` implements `RoleExecution`, and that a replay of the rows finds what the loop holds | |
| `TurnBroker` | one channel of the broker: the operations alone, no callers | turn-broker.ts |
| `ToolBridge` | `EXTENDS TurnBroker` with its callers: MCP handlers, adapter rounds, user, browser | mcp-server.ts, index.ts, turn-progress.ts, compaction-handoff.ts, the fence in browser-worker.ts |
| `ToolBridgeProofs` | TLAPS proofs: calls, leases, journal and fence | |
| `RuntimeSupervisor` | the launcher's calls over daemon processes, the tunnel and the ownership file | runtime-supervisor.cjs, the drain endpoint in server.ts |
| `RuntimeSupervisorProofs` | TLAPS proofs: daemons, their record, drains, and what a stop leaves behind | |
| `MC*` | instances for TLC: graphs, symmetry | |

Operators introduced by "Mutant:" are a definition with a plausible mistake in it.
No specification uses them; each shows that a property notices that mistake
(`PROJECT.json`, "mutants").

### 2.1 SessionManager

A call of `send()` or `close()` is an actor with a place `pc`. Settling a promise
(the Mutex hands its lock over, the scheduler grants a slot, an abort rejects a
waiter) and the continuation it resumes are two actions, since other
continuations run in between; awaiting something already settled is folded into
its action. Where a test looks at a status that was read before an await, read and
test are two actions and `seen` is what was read: `SendReads` before `SendAsks` and
`SendCheckThrows`, `CloseReads` before `CloseBegin` and `CloseReturns`. The status
that `cancel()` reads so restricts nothing, since a call that read it earlier may
resume at any time. `Cancel`, `Shutdown` and `ClientAborts` come at any time; `Restart`
is a crash followed by startup recovery: memory is lost, the turns stored as
running become failed. The loops over rejected waiters at the head of a queue
are not modelled because such a waiter is never there; `QueuesExact` checks it.
The end of a turn stores its status and its messages in one step, while the code
uses two statements: a crash between them is not looked at.

### 2.2 DagRun and DagPlan

`DagRun` takes every database transaction as a step of its own; `cpu` says which
synchronous stretch of code is running, so that nothing but a crash may come
between two transactions of one stretch. Continuations of settled promises
resume in any order, which is more than the event loop does. `db` is the stored
status of each node and `st` the scheduler's own; `job` is where a dispatched
node is; an adapter's call ends with the attempt that made it. `Expire` uses the
wall clock up. `Crash` may happen at any time, and then `RecoverStep` runs
`recoverRunningRuns` transaction by transaction, with crashes in between as well.
The model requires an `Order` that lists predecessors first; `DagPlanProofs`
proves that of the planner's order for every graph (`OrderCorrect`).

`DagPlan` is Kahn's algorithm as the code runs it: indegrees are counted down,
the ready list is kept sorted by declaration index, levels are raised. The compare of
the code looks at the declaration alone, against its documentation
(section 5).

### 2.3 TurnBroker and ToolBridge

`TurnBroker` has one operator per operation of the broker, which changes the
broker's variables alone; `ToolBridge` composes each with what its caller does.
One channel stands for all, since channels share only the registry.

- **MCP handlers.** Each request has a place (`mcp`) and messages in `wire`. A
  message is taken from the set in any order; one that is never taken is lost.
  A handler may give up (timeout, cancellation) while its message is under way.
- **Rounds.** `round` is what the adapter's exclusive round does. `JournalBatch`
  is the end of the wait for the browser's acknowledgement, after which the batch
  is the session's `outstanding`. `Disconnect` is Codex closing the stream in
  between.
- **Fence.** `BeginFence` reads the revision when the page looks complete,
  `Commit` commits it after a second look. `stirred` is a history variable: a
  lease began or ended since the revision was read.
- **Zero Risk.** Claims and completions that arrive before the user pressed Sent
  are parked; they resume later and read the channel again.
- `prune()`, which every handler begins with, is `Revoke` taken just before it.

The broker's answer reaches its caller in the same step: what a late answer meets
is a handler that has given up, which `AnswersOwed` covers.

### 2.4 RoleRun

One run of `RunController`'s role-based kind. Role `r` of the sequence is
participant `r`. The stored state is the run's row (`run`), the participants'
(`part`) and the turns (`turns`, each with its place, round and message);
`announced` are the terminal audit events. `loop` is the control record of
`executeRoleBasedLoop` and where it is: checking the stops, initialising an
adapter, in a turn, closing a failed adapter, or leaving (`cleanup`). A step is a
transaction or the code up to the next await; `AtAwait` keeps other calls out of
a stretch without an await.

- A turn ends by a decision (message, done, pause), by an error that is retried
  or ends the run, by a cancellation of this or another participant, by the
  deadline, or by a message that is too large and throws out of the loop.
- `leaving` is an earlier loop that still closes its adapters while the run has
  been resumed, with what its `finally` will do.
- `Crash` keeps the rows; `Recover` does what `recoverRoleBasedRuns` does with
  them: a turn under way becomes a synthetic failed turn, and the run is paused
  or closed.
- `CursorRound`, `CursorSeq` and `CursorAccepted` are `deriveRoleExecutionCursor`:
  the position that a replay of the rows gives, and the conditions under which it
  rejects them. `Resume` begins a loop there.
- `Fault` lets a write or an audit event throw, `MaxFaults` times in all.

### 2.5 RuntimeSupervisor

A call of `start`, a stop, and the recovery of each component are *flows*; each
has a place `pc` and the local variables of its call. The code between two awaits
is one action; where it is longer, the places in `Sync` are never rested at. The
machine is outside the flows: daemon processes start, listen, crash and exit by
themselves, the tunnel's native runtime dies, a probe may time out. `file` is
`launcher-supervisor.json`, which outlives the launcher (`LauncherDies`).

- Daemons are named by `Children`, reused when nobody knows them any more. A spawn
  waits while every name is in use (`Fresh`), a bound that the code does not have;
  with the three names of the runs one is always free.
  `mine`, `expected` and `restartable` are what the exit handlers know of them.
- `StartLooks` and `StopLooks` look at the file and the port and decide between
  adoption, clean-up of a stale owner, and the ordinary way. A stop reads the file
  before it awaits the probe (`StopReads`, place "asked") and judges by that copy.
- The launcher calls `start` at boot, and again after a stop, after a start that
  failed and after one that was answered "external" (`due`). A start that awaits a
  stop which fails is rejected with it (`StopFails`).
- `StopThrew` to `StopFails` are the compensation: a tunnel that was severed is
  connected again, a daemon that was drained is resumed or replaced.
- A recovery of a component whose last recovery still ends waits for it; the code
  would let both run.
- `lost` records that a call forgot a daemon another call had spawned (section 5).
  What follows is not explored (`CONSTRAINT NoneLost`), and the properties do not
  speak of it.

## 3. What is checked

| Run | Instance | Properties |
|---|---|---|
| `session_safety` | 3 sends, 1 close, 2 request ids, 2 sessions, 1 slot, 1 queue place, 1 restart, symmetry; 734 thousand states | `SerialSessions`, `SlotsExact`, `QueuesExact`: locks have one owner, slots are counted, no waiter is dead or forgotten, admission never lets a send meet a full queue. `MemoryMatchesStore`: a turn is stored as running exactly while it runs, a registered turn runs. `TurnOutcomesFinal`. Refinement of `SerialTurns` |
| `session_live` | 2 sends, 2 closes, 1 request id, 2 sessions; 131 thousand states | `ClosedIsFinal`, with a second close that acts on a status it read before the first one ended, and may fail. `CallsReturn`: every call returns, shutdown drains |
| `session_cancel` (violated) | 2 sends, 1 close, 1 session | a running turn can be cancelled |
| `dag_safety` | 4 nodes, 3 participants, 2 in parallel, 4 turns, 2 crashes, 2 cancels, both policies; 361 thousand states | `RecoveryAccepts`: any stored state is recoverable. `EndedRunSettled`, `OutcomesFinal`. Refinement of `DagExecution`: predecessors first, bounded parallelism, serial participants. `RunSettles`: a run settles, an aborted one ends |
| `plan_all` | all 4096 graphs of 4 nodes; 12 thousand states | `OrderRespectsDeps`: the order lists dependencies first. `CyclesRejected`: exactly the cyclic graphs are refused |
| `role_safety` | 2 roles, the second terminal, both loop modes, 4 turns, 1 retry, 2 crashes, 1 failing write; 354 thousand states | `RecoveryAccepts`; `CursorMatchesLoop`: a replay of the rows gives what the loop holds. `BudgetsKept` over restarts, `ReplayAcknowledged`, `AnnouncedOnce`, `OutcomeFinal`. Refinement of `RoleExecution`. `RunSettles` |
| `role_resume` (violated) | the same without failing writes | a paused run can be resumed |
| `bridge_safety` | 2 requests, 2 answers, 1 disconnect, symmetry; 1.7 million states | `LedgerExact`: no call is lost or doubled. `AnswersOwed`: nobody waits for an answer that is not owed, every lease will be ended. `JournalMatchesBroker`, `NoWorkBehindFence`, `FenceSeesAll` |
| `bridge_veto` (violated) | 1 request, 1 disconnect | only unresolved calls veto completion |
| `supervisor_safety` | 3 daemons, 2 faults of different kinds; 889 thousand states | `DaemonHeld`: no daemon of this launcher is forgotten. `OwnershipRecorded`: the file names every daemon that serves. `StoppedStaysStopped`: no daemon serves after a stop was answered, and no restart is armed. `DrainReleased`: a daemon drained in vain is given back |
| `supervisor_live` | 3 daemons, 1 fault; 20 thousand states | `DegradedResolves`: a runtime that is not whole is restored or recorded as failed. `CallsAnswered` |
| `supervisor_stale` (violated) | 2 daemons, 1 fault | a stop answered "stopped" leaves no daemon |

Each passing safety run checks the module's `TypeOK` too.

Why these bounds are enough. The session manager's interesting cases need a turn
that runs, one that waits for its session and one that waits for a slot (three
sends, two sessions, one slot), with a close; the second request id lets a
client repeat one. Closes that wait for each other, and a close whose status is
stale, need two of them, which `session_live` has. There calls of a kind begin in a
fixed order and the sends have one priority (`CONSTRAINT OneByOne`): temporal
properties forbid symmetry, and two sends never wait for the one slot together. Only
beginnings are left out, which nothing is obliged to do. A graph of four nodes has fan-in, fan-out, two branches that fail apart and a
participant that owns two nodes; two crashes allow one in the middle of a
recovery; two cancels allow one that overtakes another. Two roles and four turns
let a run go through two rounds, or retry in each; a crash can follow a resume
that followed a crash. Two MCP requests suffice for a batch of two, for one call
queued while another is delivered, and for a claim that races the fence opened by
the other; one disconnect gives one redelivery. Three daemons are one that ends,
one that serves and one that begins; two faults give a loss and a failure in its
recovery, or a dead launcher and a failure in the take-over. The kinds of faults
are distinct (probe, command, resume, write, crash, launcher), each once.

`CHECK_DEADLOCK FALSE` is set where the modelled run, turn or launcher really may
stop (all modules but SessionManager, which ends in stuttering of its own).

### Fairness

- `session_live`: the event loop resumes every continuation that can run (weak
  fairness of each send's and close's step), and a provider settles every turn,
  cancellation and close it was asked for; that is the providers' contract, each
  has a timeout.
- `dag_safety` (`RunSettles`): weak fairness of what the process does by itself.
  A node's turn is raced against its timeout. `adapter.initialize` and
  `adapter.close` have no timeout in the code; that they return is assumed.
- `role_safety` (`RunSettles`): weak fairness of the loop's own steps, of the end
  of `initialize`, of the deadline, and of the end of a turn *once it is aborted or
  the deadline has passed*: an adapter need never answer by itself, since
  `nextAgentDecision` has a timer.
- `supervisor_live`: strong fairness of each flow and of daemons that listen or
  exit. Strong, because `Quiet` withdraws a step as long as another flow is in a
  stretch without an await. Every command and probe of the code has a timeout.

Starting calls, aborts, cancels, resumes, crashes and faults have no fairness.

## 4. What is proved

All proofs hold for every value of the constants. The assumptions are those the
modules name: bounds are natural numbers, there is at least one slot, role and
turn, sends are finitely many, and `None` is nothing else (in particular not a
turn record, `NoTurnAssumption`, so that "no turn" is not a turn).

**`SessionManagerProofs`**: `TypeCorrect`, `SessionsAreSerial`, `SlotsCounted`.
`SerialSessions` counts owners, which is not inductive: who gets a lock next
depends on the queue. The inductive `IInv` adds that queued calls wait where they
are queued and are there once (`LockQueueOK`, `CapQueueOK`), that a call past its
first await has a session and a turn id (`CallShape`), that owners exist and are
unique (`LockOwned`), and that admission counts the sends in flight. Queue lemmas
(`WithoutElements`, `TailElements`, `AppendElements`) say what the operations of
the Mutex and the scheduler do; counting lemmas (`CountOneMore`, `CountOneLess`,
`CountReplaced`) what one call's step does to a cardinality. `Finally` releases
slot and lock at once and has lemmas of its own.

Its second part is `QueuesAreExact`. `LockQueueOK` and `CapQueueOK` say that
whoever is queued waits; the addition `Waits` says the converse, that whoever waits
is queued for something that is taken, is not aborted, and that admission is
bounded. That a send with its session's lock finds room in the scheduler
(`RoomToQueue`) is counting: the slot holders, the waiters of both priorities and
that send are different sends in flight, and admission bounds those by the slots
and the places.

**`SessionRefinement`**: `TurnsAreSerial`, that `SessionManager` implements
`SerialTurns`. The addition to `IInv` is `Fresh`: a send that waits for a slot, has
one, or runs holds the transcript that is stored for its session. It is kept
because only the owner of a session's lock stores messages for it (`Ends` uses
`LockOwned`), and it makes the turn that starts one from the current transcript.
`Starts` draws the slot bound from `SlotsExact`: the turns that run are fewer than
the slot holders, since the send that starts is a holder and does not run yet.

The same module proves `StoreMatchesMemory`, `ClosedSessionsRetire`, `NeverReopened`
and `OutcomesStay` from one invariant over `IInv`. `OpenWhileHeld`: no session is
stored as closed while a send that passed its test of the status, or is bound to pass
it with the status it has read, holds the lock; a close finishes only with that lock.
So when "closed" is stored nobody is let in (`Retired`: the status is closed or
closing, and no send has passed or will pass its test). `Retired` then maintains
itself: a send that reads the status now is refused, a send's end resets only "busy",
and a second close, whatever it had read, writes no more than "closing"
(`StaysRetired`, one step per action). `NeverReopened` says it for all time.
`RunsOnce`: two running
sends have different request ids, because a second one meets the stored row of
the first. Without it the end of one turn could leave the other's row settled
while it runs.

**`DagPlanProofs`**, for graphs of any size: `TypeCorrect`, `OrderCorrect`,
`CyclesAreRejected`. The invariant says that `indegree` counts the predecessors
not yet taken, that ready nodes are exactly the untaken ones with none left, and
how far levels have been raised. That a refused graph has a cycle follows without
induction over paths: the nodes left over are a set in which each waits for
another.

**`DagRunProofs`**, for graphs of any size: `TypeCorrect`, `RecoveryAlwaysAccepts`,
`EndedIsSettled`, `OutcomesAreFinal`, `ImplementsExecution`. What recovery demands
of the rows, and what the abstract execution demands of the nodes, both depend on
how three views of a node agree: its status in the scheduler's memory (`st`), the
job that executes it (`job`) and its row (`db`). The inductive `IInv` says so in
parts:

- `Control`, `Untouched`: who holds the thread, and what run, loop, abort and
  cause then can be; a paused run has nothing of a scheduler in memory;
- `Executing`: the running nodes are those with a job, at most `MaxParallel` and
  with different owners;
- `JobsStored`, `Mirrored`: what a job, or its absence, says of the row. A row is
  running only while its node's job is in its turn, or before recovery; a row
  may be settled under a job, since a cancellation overtakes it;
- `SettledStored`, `EndedClosed`: a node settled in memory is settled in its row,
  except what a used-up budget costs under skip_dependents (the exception in
  `EndedRunSettled`);
- `NodeStored`: recovery's conditions on a row. A row that is ready for a retry
  has an attempt within the node's retries; without that an attempt refused for
  lack of budget could not be told from one too many;
- `DepsDone`, `InputsStored`: a node leaves pending, and an attempt stores its
  inputs, only when everything it depends on is completed, for good;
- `AttemptsCounted`: the stored attempts and those begun without a stored turn
  (`Begun`) are at most the attempts the scheduler counts, and these at most the
  turns. This is why recovery, which charges the interrupted attempts, never
  exceeds the budget (`CountsAgree`);
- `OwnersApart`: two interrupted nodes have different participants.

Three groups of lemmas are about the model's operators. `Below`, the dependents that
a failure takes along, is defined by recursion over the nodes; `ReachedUnfolds` shows
that the recursion has a solution, the transitive dependents, and `BelowNodes` that
its values are nodes: the last counterexample in the order of the plan, where
dependents come later, would have a later one. `FirstIn` says what the choice of the
first ready node returns; `LeastNumber` takes the place of induction.

Every step maps to a step of `DagExecution` or to none
(`StepImplements`); a node begins there when its attempt is stored as running, so
that its predecessors' completion (`DepsDone`), its owner and the number of those
at work come from `IInv`.

**`RoleRunProofs`**: `TypeCorrect`, `RecoverySucceeds`, `BudgetsHold`,
`TerminalEventOnce`, `OutcomesAreFinal`. The inductive `IInv` has five parts beside
the types:

- `Placed`: where the loop can be for each status of the run;
- `TurnsCounted`: the loop's index counts the stored turns and leaves room for the
  turn under way, which is why recovery may add a synthetic one;
- `FailsCounted`: a participant with consecutive failures is the one of the last
  stored turn, and the one at the loop's place. Without it a resume, which takes
  its attempt number from the rows, could exceed the retries of a participant;
- `ActiveNamed`: the participant marked active is the one the run's row names;
- `Announced`: the process that wrote the terminal event remembers, and a later
  one finds a run that has ended.

`BudgetsHold` needs that the derived cursor points at the participant that failed
last (`FailsAtCursor`); `OutcomesAreFinal` is an action property that follows from
`IInv` step by step.

**`RoleRefinement`**: `RolesInOrder`, that `RoleRun` implements `RoleExecution`.
The addition is `Positioned`: the number of completed turns in the rows is what the
loop's round and place say, and in mode `once` the round is zero. The due role of
the abstract run is the remainder of that number, so the argument needs division
with remainder (`DivMod`, `Remainder`): once for a loop that moves on, and once for
a resume, which computes its place from the rows by division.

Its second part is `LoopIsReplayable` and `ReplayNeedsConsent`. `Derived` adds to
`Positioned`

- `Replayed`: each stored turn is the one the replay expects after the turns
  before it, and each participant's counters are what its turns add up to;
- `MessagesHeld`: the loop's message index counts the turns that have a message;
- `CutsFailed`: a turn that recovery stored is a failed one, so that it moves
  neither the count of completed turns nor the due role;
- `Acknowledged`: while some participant's latest turn is one that recovery
  stored, the loop on its way was started with `acknowledgeReplay`.

A turn stored by the loop is accepted because the loop's place, by `Positioned`, is
the quotient and the remainder that the replay computes (`TurnDue`). A resume
takes the consent of the one participant at the cursor only; it is enough because
a turn that recovery stored can only be the last one when a run is paused
(`InterruptedAtCursor`): any turn after it would again be that participant's.
The rows of a run that recovery has paused need not be acceptable (`role_resume`);
`Replayed` says nothing of them, and a resume looks at them before a loop exists.

**`ToolBridgeProofs`**, for any number of requests and answers: `TypeCorrect`,
`LedgerIsExact`, `AnswersAreOwed`, `JournalIsOwed`, `FenceHolds`, `FenceSaw`. The
inductive `IInv` ties the handlers' places, the messages on the wire, the broker's
sets and the round of the adapter:

- `Wired`: for each place of a handler, which of its messages can be in flight or
  held by the broker. A request's methods follow each other, so that none is
  both on the wire and in the ledger;
- `SentOnce`: claims and completions wait only for the confirmed send, and are
  woken only by it;
- `Leases`: a lease begins with the claim and ends once; while the channel is
  open a handler between the two has one. This is half of `AnswersOwed` and the
  reason that a retried settlement ends nothing twice;
- `Closed`: a revoked channel holds no call and no waiter;
- `Waits`: only a round that waits is a waiter in the broker, and nothing is
  delivered or journaled then, so that a batch meets an empty journal;
- `Counted`: the progress counts at least the calls that are journaled or held,
  which keeps its counter from falling below zero when they are settled;
- `FenceRead`: the revision that the browser has read falls behind as soon as a
  lease begins or ends. `FenceSaw` follows: a commit compares the revisions.

`LedgerExact` and `JournalMatchesBroker` are inductive only together with these,
and `NoWorkBehindFence` only with `FenceRead`.

**`RuntimeSupervisorProofs`**, for any number of daemon names and of faults:
`TypeCorrect`, `DaemonsAreHeld`, `OwnershipIsRecorded`, `DrainsAreReleased`,
`StopIsComplete`, `StopsLast`. None of them follows from its own steps, since a start, a stop and
two recoveries act on one daemon, one tunnel and one file. The inductive `IInv`:

- `OnePort`, `Down`, `Placed`: one daemon has the port, a launcher that is not there
  has no calls and holds nothing, and each kind of call rests only at its places;
- `Order`: who keeps whom out. Start and stop wait for each other (`Alone`), a stop
  and a start's clean-up keep recoveries from beginning (`Stops`), nothing comes
  between the check for a child and the spawn of one (`SpawnAlone`), a stop has
  severed and drained nothing before it acts (`Entering`), and it drains only a
  daemon that `/healthz` recognises (`Known`);
- `Holding`: that what serves is held (`Held`), and the three facts it lives on: the
  child that a call ends is the one that is held (`Kills`, `Exiting`), and a stop that
  is about to be answered holds none (`ReadyGone`). Without `Kills` a recovery that
  gives up could forget the daemon that a start has spawned meanwhile;
- `Owning`: beside `OwnershipRecorded` (`Recorded`), that while a dead launcher's
  daemon serves this launcher has nothing of its own, and the record that a stop has
  read before its probe still names that daemon (`Inherited`), and that a call
  which takes over knows that daemon until it has ended (`TakesOver`);
- `Released`: while a daemon does not admit turns, a call is under way that owes it
  its admission (`Drains`).

`Held` and `Kills` end with `Hold`: once a write of the file has failed and a daemon
was forgotten, the code has lost it (section 5). The parts look at little of a step,
so the 55 actions are first described by some twenty effects (`Moves`: a file
written, a child spawned, a daemon shut down, a call that moves on), and each part
is shown to survive each effect. `StopIsComplete` is an action property: the step
that answers a stop leaves nothing that serves.

The last part of the module is about what a stop leaves behind (`StopsLast`, the
property `StoppedStaysStopped`). Its invariant `Left`, proved relative to `IInv`, asks
who could still bring something back after the answer:

- `OneChild`: the daemon that is held is this launcher's only child, so that no exit
  handler is left that would arm a restart;
- `Claimed`: a runtime of the tunnel that is up without being known is about to be
  taken down (`Cutting`), or is a dead launcher's that nobody has looked at;
- `Watched`, `Untied`: a monitor that a recovery starts while the stop awaits it comes
  with a tunnel, which the stop severs together with the monitor;
- `Apart`: the recovery of the tunnel never spawns a daemon;
- `Answered`, `Gone`, `Silent`: what the above leaves once the stop is answered.

`Watched` and `Silent` hold until a write of the ownership file fails. After that a
timer may be armed again (section 5), and `StoppedStaysStopped` says of such a run
only that no daemon serves.

Only model-checked: liveness, since fairness is beyond the prover. Every safety
property that a passing run checks is proved.

## 5. What the runs found

- `session_cancel`: a send that is aborted while it waits for its session deletes
  the registration of the turn that is running (`session-manager.ts:331`), which
  then cannot be cancelled, closed or shut down.
- `bridge_veto`: a batch redelivered to a reconnecting round is counted twice, and
  the browser's completion stays vetoed (`index.ts:1260`).
- `role_resume`: in a repeating run, the first turn of a later round begins without
  storing the round. When the daemon dies in it, recovery stores a synthetic turn
  with the old round, and every resume rejects the rows as corrupt
  (`run-controller.ts:2825`).
- `supervisor_stale`: after a launcher crash, a stop that adopts the tunnel does
  not see that the daemon is a stale one; it is answered "stopped" and deletes the
  ownership record while that daemon serves (`runtime-supervisor.cjs:1955`).

Read off the code while modelling, without a run of their own. The models take
the code as it is in these places, or leave the place out where it says so.

Sessions:

- A second `close()` that read the status before the first one stored "closed" writes
  "closing" over it (`session-manager.ts:391-394`, `:407`); if the provider then
  throws, the session stays "closing". A `close()` that comes later still tries
  again, and a send is refused as for a closed session, so that no document is
  contradicted. `ClosedIsFinal` therefore speaks of what a closed session does,
  rather than of its status alone.

Collaboration graphs:

- The planner orders ready nodes by declaration and node ID
  (`collaboration-dag-validation.ts:349`), while
  `docs/P5_BOUNDED_COLLABORATION_DAG.md:315-319` (`P5` below) puts the topological
  level first: a node that its predecessor frees overtakes a root declared after it.
  No property speaks of the order among ready nodes.
- Failures are kept in memory, so that a resumed run completes although its only
  terminal node was lost (`collaboration-dag-controller.ts:1017`, against
  `P5:406`).
- After a node's timeout its participant gets the next node while the old call is
  still being cancelled (`:1529`, against `P5:124`). In the model the call ends
  with its attempt.
- The scheduler wraps the error that `settleFailure` looks for (`:1554`), so that
  runs out of time or turns end as failed.
- Cancelling a run without an active scheduler (`:879`) emits no audit event. A
  crash inside such a cancellation leaves a paused run with cancelled nodes,
  which the scheduler then ends as a deadlock when it is resumed.
- A fail_fast run that crashes while its siblings are being cancelled is
  recovered as cancelled, not failed.
- Under skip_dependents a node that is refused for lack of budget keeps the
  status ready in a completed run (the exception in `EndedRunSettled`).
- `resume()` registers the run before its audit event (`:567`), and keeps it
  registered when that throws. Recovery stops at the first run it cannot validate.

Role-based runs:

- The `finally` of a loop that still closes adapters deletes the registration of
  the loop that was resumed meanwhile (`run-controller.ts:3274`). A cancel then
  closes the run in the database and does not abort the turn under way. Rows stay
  correct (`OutcomeFinal`, the refinement); the turn's work is discarded.
- A crash between the terminal transaction and its audit event loses the event:
  it is written at most once, not exactly once.
- A start whose "collaboration.started" event throws leaves a running run without
  a loop until the next restart.
- `adapter.initialize` is neither timed nor aborted by a cancellation.
- A cancellation that comes while a pause is being written is forgotten by the
  paused run.
- The recovery's comment says that failures are isolated per run (`:2585`), while
  it throws on, and the daemon does not start.
- Legacy runs: a cancel aborts the latest turn of the session, whoever began it
  (`:346`), the loop's later writes may overwrite "cancelled" (`:498-535`), and a
  run that was running when the process died stays so (`:249`).

Tool bridge and submissions:

- A call that was delivered but not journaled when a compaction begins is neither
  answered nor returned (`turn-broker.ts:485`); its handler waits for its own
  timeout.
- `invoke` does not look at the committed fence: an invocation that its handler
  gave up may be queued behind it. Nobody waits for it (`NoWorkBehindFence`).
- Expiry is looked at only when somebody calls the broker (`turn-broker.ts:1184`).
- The idempotency reservation of a dead process answers "in progress" until it
  expires (`idempotency.ts:60`).

Runtime supervisor:

- A recovery whose state write fails, or a stop's shutdown, ends with
  `this.daemon = null` (`runtime-supervisor.cjs:1517`) also when another call has
  spawned a daemon meanwhile, which is then held by nobody. This is why
  `DaemonHeld` excludes failed writes and why `lost` exists.
- A start's clean-up of a stale owner deletes the record of a daemon that a
  recovery has spawned meanwhile. A stop that fails while a dead launcher's daemon
  serves overwrites the record with one that names nobody. Both set `lost`.
- A stop can be answered "stopped" with the tunnel's monitor running. A recovery
  whose state write has failed and a start that has failed both sever the tunnel
  to clean up; the start's attempt succeeds and the start ends, a stop begins and
  stops the monitor (`:1932`), then the recovery's attempt fails and starts the
  monitor again (`:1534-1546`). The stop finds no daemon and no tunnel left and
  does not stop it once more; the next tick reports "degraded" and schedules a
  recovery (`:1051-1066`). It takes a crash of a child, a failing write and a
  failing command: three faults, one more than `supervisor_safety` allows. The
  invariant that the proof needed brought it to light; `StoppedStaysStopped` makes
  an exception of timers after a failed write.
- A tunnel whose launcher died during the start is in no record
  (the exception in `StoppedStaysStopped`).
- `/healthz` answers with the service name "codex-chatgpt-web" (`server.ts:810`),
  while `proxyHealth` requires "agent-chatgpt-bridge" (`:576`, `:1714`): read
  together, no daemon is ever recognised. `Init` chooses whether the names agree,
  so that both are explored.
- When each attempt to restart runs into its timeout of 20 seconds, attempts are
  so far apart that the restart budget is never used up. Both components lost at
  once make their recoveries fail each other. A timer that fires during a stop is
  dropped, also when the stop then fails.

Browser host (no model): a tab whose ownership could not be recorded has status
"error" and is neither reaped nor evicted if its helper dies; `closeTab` awaits
`cancelTurn` and may then destroy a tab that was retained and reused meanwhile.

## 6. Not modelled

- **Sessions' creation and listing.** `create` adds a row; the model begins with
  its sessions.
- **The browser host.** Most of its code answers events of Electron and of
  ChatGPT's page. Its bookkeeping of tab leases is the next candidate for a model
  (section 7).
- **The browser worker** beyond its completion fence, and the parsing of
  ChatGPT's page: decisions about text and selectors of a document that the
  repository does not own.
- **Registry of turn executions** (replay, supersession, five tabs), the one-shot
  compaction store, and external owners of the broker: they begin and end what
  `ToolBridge` models.
- **Legacy debate runs**, which keep their state in one row and are not recovered.
- **Installation, update, configuration, route journal, setup, user interface,
  development chat**: I/O on files of the host, by one user at a time.
- **Text**: prompts, Markdown, schemas, hashes, formatting, SQL migrations.
- **Environment.** Failures of the database in `SessionManager` and `DagRun`, a
  crash of the MCP process, and rows damaged from outside are not modelled. In
  `RuntimeSupervisor` quitting the launcher, the development profile, browser-only
  mode and a daemon of another version are left out. Times are abstracted to "may
  expire now".

Each part's entry in `PROJECT.json` gives its reason.

## 7. What is left

In this order:

1. Liveness of `ToolBridge`: a revoked turn releases the browser and the handlers.
2. `TabLeases`: the browser host's leases, retained conversations and suspended
   turns, with helpers that die.
3. `Idempotency`: reservation, completion, release and expiry with concurrent
   repeats and a crash; abstract specification: an operation's effect at most
   once per key.
4. The registry of turn executions over `ToolBridge`'s outcomes; the route journal
   with a crash at any write.
