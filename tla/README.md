# TLA+ models of ND-DSH

ND-DSH is a desktop control plane for coding agents: an Electron application
(`src/main`, single-threaded, asynchronous) and a Rust sidecar, nd-core
(`crates/`, multi-threaded), joined by a framed request/response/event protocol
over pipes. The application owns companies, projects, tasks and runs; engines
(command-line agents and the native one) do the work in git worktrees; nd-core
owns what must outlive a slip of the desktop: permits, managed processes and the
journal of effects.

The models here cover the path a task takes, from the permit its dispatch asks
for to the merge of its branch, and the two services under it: the processes of
nd-core and the events of a session. That is where this program is concurrent
and has to survive failures. Paths below are relative to the repository.

    subject                          modules
    a permit                         PermitPool, Scheduler
    an effect that must not repeat   EffectLedger, EffectJournal
    the merge of a task              EffectRecovery  (EXTENDS EffectJournal)
    nd-core as the desktop sees it   CoreClient
    nd-core from the inside          NdCore (INSTANCE Dispatcher, ManagedProcess)
    a dispatch and its permit        ExecutionCoordinator
    the end of a run                 RunLifecycle
    the merges of several tasks      TaskIntegration
    the events of a session          SessionEventHub

`X.tla` is a model, `XProofs.tla` its theorems (EffectProofs holds those of
EffectJournal and EffectRecovery), `MCX.tla` its instance for TLC
(only the symmetry of the small sets), `MCX*.cfg` the instances. Definitions
named as mutants (their comments begin with "Mutant:") are no part of a
specification: each is what a plausible mistake would make of the definition
that follows it, and shows that a property depends on that code.

## Inventory

### The parts that are modelled

| part | state | operations | talks to |
| --- | --- | --- | --- |
| scheduler (`crates/nd-runtime/src/scheduler.rs`) | table of permits: claims, session, expiry | acquire, heartbeat, bind, release, has_permit, snapshot; each expires first | called by requests of the desktop and by the process manager |
| effect journal (`.../effect_journal.rs`) | JSONL file; in memory its records, indexes by key, keys recovered as uncertain | configure, append, effect_state, tail, stats | written by the desktop and by nd-core's own lease release |
| integration (`organization/orchestrator.ts`, `task-worktree.ts`) | the review handler of a task, the repository | ask the journal, record the intent, merge, record the outcome | effect journal, git |
| core client (`core/core-client.ts`) | child, generation, health, pending requests, restart budget, two timers | start, request, exit, restart, protocol fault, close | spawns nd-core; emits core.exit and core.ready |
| execution coordinator (`organization/execution-coordinator.ts`, the guard in `ipc.ts`) | permits, sessions bound to them, blocked reason, chain of requests | acquire, bind, release, heartbeat, invalidate, resume, close | scheduler; hears core.exit; the store reconciles runs at core.ready |
| managed processes (`.../process.rs`, `windows_job.rs`) | registry of children, one wait thread for each, the permit a child runs under | spawn, write, close stdin, cancel, cancel_permit, wait, shutdown | the workers of nd-core call it; it asks the scheduler; sends process.exit |
| dispatcher and main thread (`dispatcher.rs`, `nd-core/src/main.rs`) | three bounded queues, the workers, the end of input | submit, take by priority, refuse, interrupt, shut down; acquire and release with their journal records | reads the requests of the desktop, runs them against scheduler, journal and processes |
| task worktrees (`organization/task-worktree.ts`, `core/core-worktree-git.ts`) | the checkout of a project: HEAD, MERGE_HEAD, index.lock, uncommitted changes | integrate: status, merge-base, merge, merge --abort | git, through nd-core with a deadline; called by the review handlers of several tasks; the human works in the same checkout |
| session event hub (`harness/session-event-hub.ts`, `dsh/gateway-client.ts`) | one follow stream per session, its baseline, the newest reset | attach, detach, rehydrate, ensure, read, ingest | the runtime's gateway; emits to the engines' handlers; the store |
| session journal (`core/core-session-journal.ts`, `session_journal.rs`) | a batch and an append under way on the desktop, the events nd-core retains | append, flush, clear, read | nd-core |
| run lifecycle (`organization/orchestrator.ts`, `store.ts`) | runs, task, cancelled sessions, finalisations under way, baselines, the worktree | runTask, session frames, cancelRun, the stall loop, verification, rework | engines, git, store; releases the permit of a session |

What is hard about them:

- nd-core answers requests on several worker threads and dies at any point: in
  `append`, with a grant in flight, with a merge half recorded. A worker can be
  held up by a child that does not read; shutdown, expiry, cancel, release and
  the exit of a child meet in one registry.
- Git commands of several tasks, and of the human, run in one checkout without
  a lock of the program. Each is a request to nd-core: when it is rejected, git
  may have done its work, may have been killed half-way or may still run.
- An engine is stopped by a request that may fail and is not waited for; its run
  is completed all the same.
- The desktop never blocks, so every `await` is a place where another handler
  runs. Frames of one session are handled without waiting for each other; up to
  six kinds of handlers can be ending the same run.
- A call that failed may have been executed; a process that was told to end may
  still speak; an exit event may come after the next process started.
- Clocks: leases expire while the machine sleeps; stall, restart and stability
  timers race the events they watch for.

What makes them correct: a pool is never over its limit; a lease goes only by
release or expiry; an effect that may have happened is not started again; no
permit outlives its run, no process its permit; no accepted request is held up
for ever; what is reported merged is merged; a history is the newest part of the
session, without gap or repetition, as long as its windows let through; nothing is
dispatched before a dead core's runs are reconciled; a run ends once, a run
without progress is ended, and what is reviewed is what was verified. How far the
code keeps each of these is what the properties say; where it does not is listed
under *Findings*.

### The parts that are not modelled

| part | state and behaviour | property it should have | why not here |
| --- | --- | --- | --- |
| approvals, native tool broker (`approval-gate.ts`, `nd-native-tool-broker.ts`) | pending approvals, one journal key per call | a decision is recorded and given once | in the plan, as clients of EffectJournal |
| schedules, triggers, heartbeat (`schedule-runner.ts` ...) | claimed schedules | one task per due time | in the plan |
| gateway event poller (`gateway-event-poller.ts`), in-memory session store | cursors per session | no event twice | production starts neither |
| extension host (`extensions/invocation-*.ts`) | activations, grants, audit | a one-shot grant is used once | in the plan |
| decision support, plan normaliser, routing | pure computation | | no protocol state |
| coding engines, terminals, browser, workspace, git, search, media, vault | adapters to external programs and the operating system | | I/O; the order of an engine's last frames is in RunLifecycle |
| wire protocol, renderer, shared types, vendored code, tests | | | no protocol state |

## The models

### PermitPool and Scheduler

`Scheduler` has one action per call. Each takes a clock reading from `Clock`,
first applies `ExpireLocked`, then does what the code does under the mutex:
`Acquire` refuses an id in use and a pool whose users reach the limit *of this
request* (`HasRoom`), `Heartbeat`, `Bind` and `Release` change one permit, `Look`
is has_permit or snapshot. The readings of successive calls are not ordered,
since each thread reads the clock before it waits for the mutex.
A permit is its claims (a limit for each pool, 0 for "not claimed"), session and
expiry; owner, resource class and run id are echoed by the code and left out.

`PermitPool` is the promise: a set of live permits with their claims, a grant
only where there is room, a disappearance at any time. `Scheduler!ImplementsPool`
maps the table to it by keeping the claims and forgetting the clock.

### EffectLedger and EffectJournal

`append` holds its mutex to the end, so only the death of the process can come
between its parts: `Write` (the line is in the file, synced) and `Commit` (the
image is updated, the caller answered) are two actions, `WriteFails` is a write
that errs, with what it leaves in the file chosen by `Faults` ("torn": part of
the line; "sync": the whole line), `Decline` is every call that writes nothing
(unconfigured, uncertain, duplicate, full). `Configure` reads the file back,
`Crash` is the end of the process at any point. Lines are records or `Torn`.

`EffectLedger` is the promise: a recovery state for each key, an intent that
becomes uncertain when the process dies. The refinement reads the state of a key
off the *file*, with `boot` (the length of the file when the process started) to
tell an intent of this process from an orphan.

### EffectRecovery

The desktop's one irreversible effect, on top of EffectJournal: for each key (a
task at a checkpoint) a handler asks the journal, records the intent, merges,
records the outcome. Every call may fail with or without effect (`CallFails`),
nd-core may die alone (`CoreRestart`, which leaves the journal unconfigured, as
the code does) or with the desktop (`DesktopRestart`). At most one handler per
key is at work. A merge whose answer was lost is recorded as failed although it
happened: `failed` says nothing of the repository, `complete` does.

### CoreClient

Processes are numbered by generation, as in the code. The death of a process and
the delivery of its exit event are two steps, so an exit can come when its
generation is no longer current (`LateExit`). `Request`, `Settle`,
`HandshakeOK`, `HandshakeFails`, `Exit`, the two timers, `ProtocolFault`, `Close`
and `CloseEnds` are the turns of the event loop. `announced` and `ready` record
core.exit and core.ready.

### ExecutionCoordinator

A member of `Runs` is one dispatch with its permit, run and session. Requests go
to nd-core through `chain`, one at a time, as `coreChain` does; the answer to the
head is a step of its own, so everything else can happen while it is in flight.
`Acquire`, `Granted`, `PoolFull`, `StartRun`, `StartFails`, `Bind`, `Bound`,
`Check`, `Undo` and `Released` are the guard of ipc.ts around runTask with the
coordinator's methods; `EngineEnds`, `RunEnds`, `CleanupSession` the session's
own events. Stopping an engine is only a request, so `RunEnds` completes a run
whether its engine has ended or not, and a failing start (`StartFails`) may leave
an engine at work; `strayed` remembers such runs, and those that lost their own
permit. `Heartbeat`, `HeartbeatAnswered` and `CallFails` the periodic
renewal; `CoreDies`, `Reconcile`, `Resume` the loss of nd-core; `Close` the end
of the app. The scheduler appears as `core`, the set of permits it holds in one
pool with `Limit` places: that is PermitPool with one pool and one limit.

### RunLifecycle

The runs (attempts) of one task, their shared worktree (`head`, `dirty`) and the
handlers that can end a run, called enders: "status" and "error" for the frames,
"interrupt" for an interrupted turn, "thrown" for the catch of runTask, "stall"
for the loop, "cancel" for the user. `at[s][k]` is where ender k of run s is; an
action is what it does between two awaits. The functions several of them call
(failing a run and its task, cancelling, rolling back, requeueing) are shared
operators with an explicit place before each await. The task has a review step,
a worktree and autonomy level 4, the setting in which all these paths exist.

Every frame is progress (`Report`, `TurnEnds`); a run without one for the stall
timeout is `silent` (`FallSilent`), and only such a run is stalled. The loop ends
one run at a time (`LoopFree` is `stallReconcileBusy`), and when it has queued the
task again it dispatches it itself: the dispatcher "loop", whose call returns at
once or, on an engine that runs a command line, with the turn (`Return`). The loop
is not free before that, nor before it found nothing more to start (`Rest`). As
another task of the project may have stalled before, the loop may be asking for the
next task when this one is ready (`Init`).

### Dispatcher, ManagedProcess and NdCore

`Dispatcher` is dispatcher.rs: `Submit` refuses when the queue of a level is full
or closed, `Take` obeys the priorities and keeps one worker to the foreground,
`Finish`, `Close` and `Leave` end a job, the dispatcher and a worker; what a job
does is open.
`ManagedProcess` is process.rs: a lease goes stale before it lapses, so that a
renewal can meet it; a child is started (`os`), registered, watched by its wait
thread (`waiter`) and told of (`told`) in separate steps, because a release,
cancel, expiry or shutdown can come between any two of them.

`NdCore` composes the two as main.rs does. A request is an operation on a permit
or a child; `step` says how far the job of a worker is: a spawn checks its permit,
starts the child, registers it; a release journals its intent, cancels the
children, gives the permit back; a write may block for as long as its child
lives and does not read. `Stop` and `End` are the two halves of the shutdown.
The desktop uses only permits it was told of and children whose spawn was
answered, and forgets them at the end of input.

### TaskIntegration

`integrate` is a sequence of git processes: status, merge-base, merge,
merge --abort. Those that write the index hold index.lock from their beginning to
their end (`Status` and `StatusEnds`, `Merge` and `MergeEnds`); a merge that finds
it taken fails, which the code takes for a conflict, and an abort that does is
swallowed. `Human` changes the
checkout between them.

Each of them is a request to nd-core with a deadline of 60 s, and integrate takes
every rejection of the merge for a conflict. `Merge` may be rejected before git
ran; `MergeRejected` is a rejection while git is at work: a hook refused the
merge, which stands; git merged and the answer was lost; it was killed half-way;
or nd-core died and it runs on (`orphan`, `OrphanEnds`). A git that is killed may
leave index.lock behind (`Left`), and an abort may be rejected too.

`crossed` remembers whether an integration met another one, the human or what an
earlier one left; `rejected`, whether its merge was rejected for a reason of its
own; `abandoned`, whether a git of it was killed, left running, or kept from
aborting. An integration of none of these is held to more.

### SessionEventHub

One session. The runtime records events (`Record`); a stream opened by the hub
brings a snapshot and then live events, ends, reconnects and overlaps with what
was seen; `ingest` moves the baseline, emits what is new and hands it to the
store, which batches it (`batch`), appends it (`flying`) and clears it on a reset.
Three callers wait for one another: a read of the history, the `ensure` before a
prompt and the rehydration after a restart of nd-core; `pc` is the `await` each of
them is at. Resets (attach, detach, rehydrate) overtake all of them, a rehydration
another one, and an `open` waits for the newest reset only. Appends, drops and
snapshots may fail or time out at each point.

A session may be longer than what can be seen of it. A snapshot brings the newest
`Window` events (`WindowStart`; FOLLOW_WINDOW, 50), nd-core keeps at least the
newest `Retained` (`Retain`; 10,000, or fewer of 8 MiB), and a read asks for the
newest `MaxMessages` (`Newest`). A snapshot that no longer reaches back to the
baseline opens a gap, which is part of `doubt`: it takes more than a window of
events while the stream was down. `trackWrite` forgets the writes of the newest
set when an older set gets empty (`Untracked`), so a flush may not wait for them;
a read drains the whole store, and `asked` is the baseline when it does.

## Runs

| run | instance | asks |
| --- | --- | --- |
| `scheduler` | 3 permit ids, 2 pools, limits up to 2, 3 clock readings, 2 ttl requests | capacity, leases, refinement of PermitPool |
| `effect_journal` | 2 keys, 3 records, torn writes | readable after every crash without a torn line, refinement of EffectLedger |
| `effect_recovery` | 1 key, 4 records, 5 lines, torn writes and failing syncs, any number of deaths | no blind merge; integrated means merged; an effect that may have happened stays blocked |
| `effect_recovery_restart` | the same | counterexample, finding 1 |
| `core_client` | 2 callers, 4 generations, unreadable frames, close | one sidecar, its loss announced, the restart budget |
| `coordinator` | 2 dispatches for 1 place, failing calls, sleep, 1 death, close | permits are neither lost nor kept, the engines at work fit into the pool, no dispatch before reconciliation |
| `run_lifecycle` | 1 run, started by the user or by the stall loop, all 6 enders, up to 3 of them at work at once | one finaliser of a cancellation, no completion after a failure, a run goes on for ever only if its engine reports again and again or the loop waits for its turn |
| `run_lifecycle_canceled` | 1 run, status and cancel | counterexample, finding 2 |
| `nd_core` | 2 children, one under the one permit, 2 workers (one reserved), queues of 1 | every live child is accounted for and dies with its permit, its end is told, no writer is held up for good, releases and heartbeats are served, shutdown ends and leaves neither a child nor a request |
| `task_integration` | 3 tasks, two of them in conflict, the human, any request rejected | merged means contained; a false conflict only after meeting somebody or a rejection, a standing merge only after meeting somebody or an abandoned git |
| `session_hub` | 2 events, snapshots and a journal of 1, 3 resets, 3 callers, failing appends and drops | the journal and what a read returns are the newest of the session without a gap, events are emitted once, a turn is live, no call hangs |
| `session_hub_ensure` | 2 events, 2 resets | counterexample, finding 3 |

Every bound is a constant. The bounds of the models (not of the code) are
`MaxFile`, `MaxGen`, `MaxDeaths`, `MaxRuns`, `MaxBusy`, `MaxSeq`, `MaxResets`; `MaxRecords`, `MaxAttempts`, `Limit`,
`MaxLimit`, `Capacity`, `Window`, `Retained` and `MaxMessages` are small values of
limits the code has.

Why they are enough to be of use:

- three permits with limits 1 and 2 in two pools are the least in which a pool
  is filled under different limits and a permit leaves between two grants;
- two keys and three records hold an intent, its outcome and another key's
  record between them, and reach the retention bound between an intent and its
  outcome; a fifth line leaves room for a torn one between four records;
- four generations are a first loss, the automatic restart, a failed handshake
  and the generation after it;
- two dispatches for one place make one wait for the other; one death of
  nd-core is met in every state, and theorems cover any number;
- two children on two workers are the least in which a write that blocks holds
  the reserved worker and a spawn runs beside a release, an expiry and the
  shutdown; queues of one are full after one request; one child without a permit
  is what the liveness of the queues allows with two workers (see below);
- three tasks, of which two conflict, let a third one meet both a true and a
  false conflict;
- one run that the loop starts itself shows how it holds the loop; a second attempt
  would be started by the same steps;
- two events make a gap and a repetition distinguishable, and are more than a
  snapshot or the journal of one holds; three resets are the death of the runtime
  and of nd-core and a return, one after the other while the drop of the first is
  under way; the theorems cover any number and any windows;
- three enders at once include every pair and triple that shares a run, and all
  that one failed turn of a command line brings; the theorems cover any number of
  runs and enders. What needs a second attempt on
  the same task (an old handler that meets a new attempt) is not reached by this
  instance and is in the plan.

`CHECK_DEADLOCK FALSE` is given where the system stops: a closed coordinator or
client, an nd-core that ended, a session whose bounds are used up and a task
whose run has ended have nothing left to do.

**Fairness.** RunLifecycle and NdCore state liveness. RunLifecycle's `FairSpec`
asks that an ender that began goes on (`Handle`: git, the test command and the
store answer, as each of them has a deadline or is local, and so does the stop of
a session, if only with an error), that the timer of the stall loop fires while
there is a silent run and the loop is free (`Stall`), and that what the loop
dispatches comes to its prompt and, when its call has returned, goes on (`Start`,
`Return`, `Rest`). Turns need not end, engines may report for ever, hang or ignore
their stop, and a call that waits for a turn need not return. So a run need not
end, and `EveryRunEnds` says what it takes: an engine that reports again and
again, or a loop that waits for ever for a turn it started itself (see the known
limits).
The restart of the desktop is not part of it.

NdCore's `Fairness` is weak fairness of each worker (a thread that can go on
does), of the lapse of a lease nobody renews (the clock runs), of each wait thread
(it polls) and of the main thread once its input ended. No child is assumed to
read or to exit, no request to be sent, no input to end. `ControlServed` and
`DiesWithPermit` then hold because a write that blocks a worker ends with its
child, whose lease lapses when heartbeats are not served; that needs fewer
children without a permit than workers, since nothing ever frees a worker that
writes to such a child while it does not read.

SessionEventHub has no liveness: `NoCallHangs` says instead that whatever a call
waits for is under way and bound to end by its answer or a timeout of the code.

Some properties are stated under a history variable: `PlaceReturned` without a
failed call, sleep or death (`disturbed`), and `EnginesFit` for the runs that have
not strayed, in ExecutionCoordinator; without unreadable frames and close in
CoreClient; for integrations that met nobody (`crossed`) and were not rejected or
abandoned in TaskIntegration; without a failed call, an overtaken reset or a gap
wider than a snapshot (`doubt`), and without an `ensure` that found another one's
handle (`hasty`), in SessionEventHub. The conditions say exactly how far the code keeps the property;
what happens outside of them is below.

## Findings

1. *Known-complete effects after a restart of nd-core*
   (`effect_recovery_restart`, `KnownCompleteRecognised`). The journal is
   configured once per desktop (`src/main/index.ts:247`), not for the process that
   CoreClient starts after a death: it answers notStarted for completed effects
   and refuses appends until the desktop restarts.
   `docs/tasks/done/done-0032-canonical-execution-effect-journal.md:19` says they
   are deduplicated. No merge is repeated (`NoBlindMerge` holds): the refused
   intent stops it.
2. *A cancelled task that is tried again* (`run_lifecycle_canceled`,
   `CanceledNotRetried`). The status handler looks for a cancellation only when it
   begins; one made during verification does not stop it from queueing another
   attempt if the verification fails. `docs/improve-beta-v1.md:158` says
   "cancellation by user: never auto-retry".
3. *An ensure that ensures nothing* (`session_hub_ensure`, `EnsuredIsLive`).
   `ensure` returns at once if a follow handle exists, also if a read has just
   opened it and its snapshot has not come; the first events of the turn are then
   part of the snapshot and emitted to nobody, which the comment of `ensure` says
   does not happen.

Known limits that the conditions above stand for, each found as a counterexample
of the unconditional property while the models were written:

- After a protocol fault, a request made before the exit event starts the next
  generation; the exit is then stale and core.exit is not emitted, so permits and
  runs of the lost core are not reconciled (`LossAnnouncedUndisturbed`).
- Engines may work beyond the pool (`EnginesFit`, `strayed`). A heartbeat that
  fails makes the coordinator forget the permit of a run that goes on; the lease
  expires and its place is granted again. A run that stalls or is cancelled is
  completed although its stop is only a request and its failure is swallowed
  (`src/main/organization/orchestrator.ts:707`), and a start may fail with the
  session at work; the permit goes back while that engine works on.
- A failed turn of a command-line engine is handled as an end, as an error and
  as a throwing call at once; a task can come to review after one of the handlers
  reset its worktree (RunLifecycle leaves that open; `LateVerdict` is what holds).
- An integration that meets another one, or the human, may report a conflict that
  is none, and may leave its own conflicted merge in the checkout, as its abort
  finds index.lock taken and the failure is swallowed. One that met nobody reports a
  false conflict too when its merge is rejected by a hook, the deadline or the death
  of nd-core, and leaves a merge or an index.lock behind when its git is killed or
  runs on, or its abort is rejected (`ConflictIsOne`, `AbortedAlone`, `rejected`,
  `abandoned`).
- An engine that reports again and again is never stalled (`EveryRunEnds`).
- The stall loop can be held by its own dispatch. It queues a stalled task again and
  awaits `continueProject` under `stallReconcileBusy`
  (`src/main/organization/orchestrator.ts:713`); on an engine that runs a command
  line the call returns with the turn. If that turn hangs, every later pass returns
  at once and neither this run nor any other is stalled any more (`LoopHeld` in
  `EveryRunEnds`), although `docs/improve-beta-v1.md:415` says a "stalled run is
  detected, canceled, rolled back, and bounded-retried".
- A merge that happened may be recorded as failed: any rejection of git merge is
  taken for a conflict (`src/main/organization/task-worktree.ts:189`), also one by
  the deadline or the death of nd-core after git has merged.
  `docs/plan/reference-architecture-local-validation-handoff.md:203` says "an
  unknown outcome is `uncertain`". A later attempt finds the branch contained and
  reports it so; nothing reported merged is lost (`ReportedIsContained`).
- A restart of nd-core shortens a history: `rehydrate`
  (`src/main/harness/session-event-hub.ts:71`) rebuilds the journal that died with
  nd-core from a snapshot of the newest 50 messages (`Kept` in `JournalInStep` and
  `HistoryIsRead`), and what was before them is in no later read. The comment of
  `rehydrate` says that a core failure "never becomes permanent chat-history loss".
- A failure handler that was rolling back when a cancel comes goes on beside it
  (`OneCancellation` is about the finalisers of the cancellation), and a run that
  fails between the record of its verdict and `completeRun` is completed
  (`LateVerdict` is about the failures before the record).
- A spawn past its checks when shutdown cancels the others registers after it and
  is left to the operating system (`late` in `LeftAreLate`).
- `open` waits for the newest reset only and a drop that failed is not repeated:
  the history may hold the old session as well until a later reset; an append that
  failed, or more events than a snapshot holds while the stream was down, leave a
  gap in it (`JournalInStep`, `HistoryIsRead`, under `doubt`).

## Proofs

| module | properties proved of every instance |
| --- | --- |
| SchedulerProofs | `TypeOK`, `HereditaryCapacity`, `CapacityRespected`, `LeaseHonoured`, `ImplementsPool` |
| EffectProofs | EffectJournal's `TypeOK`, `SpentIsRecorded`, `NoBlindRetry`, `ReadableAfterCrash`, `ImplementsLedger`; EffectRecovery's `ClientTypeOK`, `IntegratedIsMerged`, `NoBlindMerge`, and that it is a client of the journal |
| CoreClientProofs | `TypeOK`, `RestartBudget`, `SingleCore`, `LossAnnouncedUndisturbed` |
| ExecutionCoordinatorProofs | `TypeOK`, `ClosedHoldsNothing`, `NoPermitLeak`, `PlaceReturned`, `EnginesFit`, `ReconciledBeforeDispatch` |
| RunLifecycleProofs | `TypeOK`, `OneCancellation`, `LateVerdict` |
| NdCoreProofs | `TypeOK`, `Accounted` (`Watched`, `ExitReported`, `WritersFreed`), `StoppedLeavesNothing` (`LeftAreLate`, `AllServed`) |
| TaskIntegrationProofs | `TypeOK`, `ReportedIsContained`, `ConflictIsOne`, `AbortedAlone` |
| SessionEventHubProofs | `TypeOK`, `EmittedOnce`, `NoCallHangs`, `JournalInStep`, `HistoryIsRead`, `TurnIsLive` |

**Scheduler.** `CapacityRespected` (some user's limit covers all users of a pool)
is not inductive: the permit with the largest limit may leave first, and what
remains must still be covered. `HereditaryCapacity` says it of every *group* of
users of a pool, which survives departures, and a grant preserves it because the
newcomer saw fewer users than its own limit. Assumed: finitely many ids, numbers
where numbers are used, `MinTtl <= MaxTtl`. No run checks `CapacityRespected`:
`HereditaryCapacity` implies it.

**EffectJournal.** `SpentIsRecorded` is proved for any faults, with
`WritingIsLast` (the record being committed is the last line): the image and any
readable file both hold a record that blocks a spent key, and `NoBlindRetry`
follows. `ReadableAfterCrash` and `ImplementsLedger` are proved for
`Faults = {}`: their invariant adds that image and file agree up to the record
being written, that a completion is the last record of its key, and that the
recovered keys are the orphans before `boot`. The run checks
`ReadableAfterCrash` with torn writes, for files without a torn line.

**EffectRecovery.** `RecoveryInv` joins the journal's `SpentInv` (the recovery is a
client of the journal, `DesktopUsesJournal`), the types, `RecordInv` (a completion
in the file, in the image or under way is of a key that was merged, and no
failure is recorded after it) and `HandlerInv` (past the merge the key is merged;
an attempt that may have merged is spent in the journal; and what effect_state
answered still holds when the intent is appended).
`NoBlindMerge` is not inductive: only the journal's refusal of a spent key stands
between a handler with an old answer and a second merge. Any keys, records,
faults and restarts.

**CoreClient.** `IInv` joins types, `BudgetCounted` (a restart that happened or is
armed has been counted as an attempt) and, until a frame was unreadable or close
was called, `Undisturbed`: a start at work is the restart timer's or has it still
ahead, so a sidecar that is neither healthy nor starting has exited, was announced
and is about to be restarted, unless the client has given up. `SingleCore` and
`LossAnnouncedUndisturbed` depend on that: a process starts only where the last
one's exit was seen. That the newest process is not dropped for the late exit of an
earlier one (`ChildKept`, part of `SingleCore`) needs no such condition. Assumed: at
least one generation.

**ExecutionCoordinator.** `IInv` joins `TypeOK`, the shape of the chain (each
request fits the place of its dispatch, an acquisition is alone), `PermitsOwned`
(every permit held has somebody about to return it: the guard, the run, or the
cleanup), `RecoveryBlocks` (between a death and the end of reconciliation
dispatch is blocked and nothing is held) and `ClosedHoldsNothing`. `NoPermitLeak` is not inductive without
the owner. On top of it `PoolInv` follows the scheduler's side. Whatever is
disturbed, an engine that has not strayed works under a permit of its own that the
scheduler holds (`KeptHolds`), until close() takes the permits from under them;
after that such engines can only get fewer. `EnginesFit` follows, as the scheduler
never holds more than the limit: it needs no condition on the other dispatches.
While nothing was disturbed, the coordinator's permits are also those the scheduler
holds, except where a release is in the chain (`InStep`; close() issues one for each
permit because an injective order of a finite set reaches all of it), and
`PlaceReturned` follows.
Assumed: finitely many dispatches, a numeric limit; `MaxDeaths` is
any number.

**RunLifecycle.** `SameCanceler` (two enders at a place of the cancellation are
the same) gives `OneCancellation`; `VerdictInv` (a run that failed before its
verdict is failed and has no evidence, one about to be completed has evidence)
gives `LateVerdict`. Both rest on `HandleForm` (what a step of an ender may
do to its own place and to its run) and `ArrivalForm` (what the other steps may
do to the places). Any number of runs,
enders, dispatchers and attempts; the constants are only assumed to be numbers.

**NdCore.** `Accounted` and `StoppedLeavesNothing` have parts with theorems of their
own; the later ones are the safety halves of nd-core's liveness properties.
- `Watched`, `LeftAreLate`: `KeepsInv` joins `Watched` with `FreshJobs` (a worker takes
  a job up at its first step) and `LateOnly` (once shutdown has cancelled the
  children no spawn passes its check, so all that live or will live were being
  spawned at that moment).
- `ExitReported` (half of `ExitIsTold`): a wait thread that has not ended keeps its
  child in the registry, one that has ended left it dead and told. `WritersFreed`
  (half of `ControlServed` and `ShutdownEnds`): a living child that holds up a
  writer is registered and watched, and none does while the workers are joined.
  `HandsInv` proves both. Its part on `Asked` says that a write, be it in a queue, on
  a worker or only permitted to the desktop by an answered spawn, is for a child
  that was registered; so the cancelling of shutdown, which sees registered children
  only, reaches every child that is written to, also by writes accepted before the
  end of input. That a child between its start and its registration is in the hands
  of one worker only is a part of its own: without it the registration by one
  worker could not be told from that by another.
- `AllServed` (half of `ShutdownEnds`): nd-core does not end with a request in a
  queue. `LeftServed`: a worker that left had found the queues it serves empty, and
  nothing enters a closed dispatcher. That some worker serves all queues is an
  assumption (`Workers # {Foreground}`; `Dispatcher::new` starts at least three).

Any children, permits, workers and queue sizes.

**TaskIntegration.** `ReportedIsContained` is inductive with the types: HEAD only
grows, whatever is rejected. `AloneInv` says of an integration that met nobody so
far: the others are idle; a merge that stands or runs on is its own, and a lock that
was left too, and then it is at its abort; a git that runs on or a lock that was
left makes it abandoned; past the status the checkout is clean; and at the abort the
conflict is true or its merge was rejected. `OrphanInv` adds that a merge that runs
on belongs to an integration that abandoned it, or met what it left. `ConflictIsOne`
and `AbortedAlone` follow. Any tasks and any conflicts.

**SessionEventHub.** `EmissionInv`: what was emitted is in order and lies behind what
the stream may still bring. `CallsInv`: every reset was begun and an `open` waits
for one of them (`ResetsBegun`), exactly the callers that flush are awaited by a
write (`WaitersFlush`), and whoever waits for a snapshot stands behind the caller
that opened the stream and still waits for it (`OpenerWaits`). Any number of events
and resets, and windows of any sizes.

`JournalInStep` speaks of the end of a reset only, so `JournalInv` says what holds
while clears are under way (`Backed`, while there is no `doubt`): a clear that has
not flushed waits for every pending write (`Covered`); while a clear is under way
no handle is held and the baseline is 0; what nd-core has of the session, or is
about to get, is known to the store or about to be dropped; and pending writes
then have a clear that has yet to flush. Together they say that the last clear to
end leaves nothing, which is the session up to a baseline of 0. From there on what
nd-core has and is about to get is a piece of the session that ends at the baseline,
and that begins with the session unless its first part (`First`: the journal, or
what flies if that is empty) is as long as a snapshot or what trimming leaves
(`Whole`). The first snapshot after a reset brings such a piece; later a frame
appends exactly what lies between the old and the new baseline, as a live stream
never runs ahead of it (`seen <= baseline`) and a snapshot that does makes `doubt`.

The proof found a mistake in a history variable. A reset ended `doubt` if the
store knew the session or nd-core had nothing of it; that is too generous while
writes of before an earlier reset are still pending, or an older clear is about to
take the session off `knownSessions`: with five resets TLC breaks
`JournalInStep` too, though not with the three it was given then. A reset now
ends it only if it really drops everything (`Sweeps`). The code is not
concerned: this is how far it keeps the property.

`ReadInv` follows a read: from its `open` on no clear is under way, its drain
awaits every pending event that was seen by then (`asked`), and when it asks for the
tail none of those is pending. If anything was seen the journal then has some of
it, and by `JournalInv` it is a piece of the session that ends no earlier than
`asked`: otherwise the first pending event would be one of them. Its newest
`MaxMessages` events are a piece with the same end, which begins with the session
or is as long as the least of the three windows. A reset or a failed call on the
way is remembered by `spoiled`. `TurnInv`: an `ensure` that is about to succeed, and the turn after it,
have a stream that has sent its snapshot unless `hasty`; so what the turn records
comes as live events, one after the other, each beyond the baseline.

Each inductive invariant was checked by TLC on a small instance before it was
proved (those of RunLifecycle with two runs and two enders at work).

**Only model-checked**: everything that must happen in the end, `EveryRunEnds` (with
its two exceptions),
`DiesWithPermit`, `ExitIsTold`, `ControlServed` and `ShutdownEnds`; every invariant
and every property of single steps that a run checks is a theorem. Liveness under fairness and ENABLED are beyond the
prover, as are induction over data with an operator as parameter and modules with
RECURSIVE operators; no module here declares one.

## What the models leave out

- Data that is only carried: owners, kinds, texts, outputs, metrics, provider
  routes. Length and syntax checks of requests.
- Framing and the priority byte queue of the core client: a request is answered
  or rejected. Request deadlines there; in the coordinator a call may fail at
  any time.
- A call of the desktop that nd-core executes after the desktop gave up on it,
  in EffectRecovery and ExecutionCoordinator.
- The coordinator without nd-core (a local pool), reviews and plans (the same
  guard, a run of another kind), the fast path.
- A store whose save fails, in RunLifecycle; there the loop dispatches the next
  attempt at the same task only, and other tasks of the project are left out.
- NdCore: a child stands for its process group, so a descendant that holds a pipe
  after its leader exited is left out, and so is the reuse of process ids by the
  operating system; ids of children are unique, as the desktop draws them at
  random; two workers stand for three to eight; any append to the journal may
  fail; a write after closeStdin is a refused write; the handlers of requests
  other than those on permits and processes.
- TaskIntegration: the commit of a task's own changes before integrate, the
  creation of worktrees (`ensure`) and the collection of evidence.
- SessionEventHub: other sessions. Batches of more than 256 events, which are
  several requests; the retention by bytes is part of `Retained` (no event is so
  large that fewer of them are kept). A window of the runtime counts messages, and
  is taken to count events. An append that nd-core executes after the desktop gave
  up on it; continuations of a promise run before the next event is taken; what
  arrives while a flush is under way is not waited for; frames are intervals of
  events, a snapshot's cursor is its last one; the in-memory store.

## Not modelled

Most of the repository by lines is the renderer (React views), the adapters of
`extensions/` and `engines/` (ChatGPT, Gemini and command-line engines), and the
IPC that connects them: sequential translation between the operating system, web
pages and typed records, without protocol state that a model could tell apart
from its tests. The table above lists every part with its reason. Of the parts
with protocol state, those in the plan below are the ones left.

## Plan

Done: PermitPool, Scheduler, EffectLedger, EffectJournal, EffectRecovery,
CoreClient, ExecutionCoordinator, RunLifecycle, then Dispatcher, ManagedProcess
and NdCore, TaskIntegration, SessionEventHub; proofs for all of them. They came
first because a mistake there loses or repeats work.

Left, in this order:

1. An instance of RunLifecycle with two attempts, for the late handlers of an old
   attempt and two engines in one worktree; then a failing store. The state space of
   the present one does not leave room for them.
2. ExecutionCoordinator: whether a run starts while dispatch is blocked.
3. The other clients of EffectJournal: sessions (`engine.session`, whose key stays
   uncertain after a crash), tool calls, approvals.
4. Schedules, the one-shot grants of the extension host.
5. The coordinator's pool as an implementation of PermitPool.
