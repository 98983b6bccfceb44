# AgentDock: a TLA+ verification project

AgentDock is an MCP server that gives an assistant durable *Tasks* (a Git
worktree each), *Runs* (child processes), *Plans* (steps that a driver executes)
and *Workflows*. It runs as several OS processes over one state directory: an
HTTP service, any number of stdio MCP processes, and optionally a Run
Supervisor. Each process is single-threaded JavaScript; what makes the system
hard is what falls between two awaits, between two processes, and between two
writes of a process that dies.

The modules here are written from the code under `src/src/`. Every definition
that stands for code is listed with its lines in `PROJECT.json` ("map").

## 1. The system

| Component | State it keeps | Operations | Interacts with |
| --- | --- | --- | --- |
| ProcessService (`process-service.js`) | in-memory records with child handles; durable process snapshots; a lease file per runtime | start, status, list, output, cancel, cancelAllForTask, planned shutdown, boot recovery | TaskService (reserve, register, release), IdempotencyService (claim, mark), the OS |
| TaskService (`task-service.js`) | the durable Task: status, `pending_process_starts`, `process_ids`, evidence, worktree | create, patch, finish, cancel, cleanup, reservations, recordCommit, recordEvidence | StateStore, Git, ProcessService |
| IdempotencyService (`idempotency-service.js`) | one durable operation per key | claim, mark, prune | ProcessService |
| PlanService (`plan-service.js`) | the durable Plan: status, steps, blocker, cancel flag, driver lease | start, get, wait, cancel, continue; the driver | ProcessService or Supervisor, TaskService, Git, ApprovalService |
| Tool handlers (`server.js`) | none | task.resume, task.finish, task.cancel, task.cleanup combine the services above with awaits | all services |
| StateStore (`state-store.js`) | documents and audits, in SQLite or in JSON files | load, save, mutateDocument, import | all services |
| Run Supervisor and IPC (`run-supervisor*.js`, `supervisor*.js`) | its own ProcessService, a socket | start, status, cancel over a socket | transports |
| ApprovalService (`approval-service.js`) | approval records and grants | authorize, respond; finish and cancel clear the grants | process.start, Plans |
| WorkflowService (`workflow-service.js`) | the durable Workflow: phase, return phase, evidence, Tasks | start, update, advance | TaskService |
| TaskActivityService (`task-activity-service.js`) | none | derive the activity and the recommended action | task.resume, task.list |
| Git (`git-service.js`) | refs, worktrees | status, diff, commit, retention refs, worktree removal | Task, Plan, hygiene |
| Task hygiene and reconcile (`task-hygiene-service.js`, `task-reconcile-service.js`) | none of their own | preview with a reconciliation token, GC of worktrees | Task, Git, Runs, Plans |
| AuditService (`audit-service.js`) | a capped log per Task | append, page | all tools |
| SkillService (`skill-service.js`) | the source directories and their metadata | install and update by two renames, list, read, search | CLI, tools |
| The rest | – | configuration, doctor, CLI, HTTP, redaction, health, file tools, install scripts | – |

### The hard behaviours, and what makes each component correct

* **Run life cycle.** A start is seven durable or OS-level steps (reserve, claim,
  spawn, persist, mark, register; or abort), any of which may be the last of its
  runtime. The `close`, `error` and output events, `cancel`, two kill timers,
  planned shutdown and an *abort of an unregistered start* all settle the same
  record; other runtimes restore a foreign record from its snapshot and may
  write INTERRUPTED. Correct means: a child that lives is always accounted in its
  Task; a finalised Task has no start in flight; what is published of a Run is
  true and final; a slow owner is not taken for a dead one; a key whose Run is
  alive stays bound to it, although every claim prunes operations that it has listed
  before; a start that a dead runtime left behind is found by the next boot. Pruning
  fails when two runtimes do it at once (section 5).
* **Task handlers and the worktree.** They check, await Git, and then commit: the
  checks may be stale. Correct means: a delivered commit stays reachable through
  finish, cleanup and collection, a collection never removes a commit that no
  ref holds, and no worktree goes under an active Run. The first and the last
  fail in races, and so does the second between two collectors (all in section 5).
* **Plan driver.** Load, decide, await, write; one transaction per write, none of
  which looks at the driver again. Crashes fall between an effect (Run, commit,
  finish) and the write that records it. Correct means: steps only begin after
  their dependencies have really run; a successor finds the Run or the commit of
  its predecessor instead of repeating it; retries stay within the policy; a Plan
  that reports success has done everything; nothing starts after a failure; a
  RUNNING Plan gets somewhere. Calls of plan.cancel and plan.continue, which check
  before they write and which several processes serve, may overlap: what the Plan
  reports stays true then, its retry policy does not (section 5).
* **Workflow.** A phase machine with one return phase for two kinds of detour
  (BLOCKED and PROTOTYPE), evidence captured from linked Tasks, and a review of
  it. Correct means: evidence and review are about what is linked now, and no
  detour leads past the decisions.
* **Approval.** Grants that overlapping starts, answers, ends of the Task and other
  policies compete for. Correct means: an approval given once starts one command.
* **Skill install.** Two renames, a metadata file and the removal of a backup, with one
  rollback for all of them, and no lock. Correct means: the tree that the metadata
  names is on the disk. A backup that cannot be removed, or a second install, breaks it.
* **StateStore and audit log.** One transaction under SQLite, an unlocked
  read-modify-write under JSON, and the import from one into the other next to
  processes that already append. Correct means: an acknowledged entry stays, and
  a reader who pages through a capped log knows what it missed.
* **Supervisor IPC.** A client that times out while the server acts, then tries again;
  a stale socket that is probed and removed by path. Correct means: whoever listens
  can be reached, and however often a key is tried, no second Run starts before the
  first has ended and its operation was forgotten.
* **Output.** Trimmed in memory and cut in the durable record while readers page
  through either, and written again by a runtime that finds the owner gone. Correct
  means: no chunk is missed silently, and a final status ends the output.
* **task.resume.** A recommendation put together from facts read over several awaits,
  while the tools it names check others. Correct means: doing what it says ends the
  Task.

`PROJECT.json` lists each of these at its line under "hazards", with the
properties that cover it or the reason why none does yet.

## 2. The modules

| Module | Models | Code |
| --- | --- | --- |
| `RunLifecycle` | the Runs of one Task over several runtimes, the Task's reservations and status, idempotency operations, the task.finish/cancel/cleanup handlers | process-service, task-service, idempotency-service, server |
| `RunAccounting` | abstract: what the Task record promises about child processes | – |
| `PlanRunner` | one Plan, its drivers, its Task, worktree and Runs, callers of plan.cancel and plan.continue | plan-service, with git-service, task-service, completion-evidence |
| `TaskWorktree` | the worktree of one Task until it is removed: task.finish, task.cancel, task.cleanup, task.gc, commits | git-service, task-service, task-reconcile-service, server |
| `Workflow` | one guided workflow and its linked Tasks | workflow-service |
| `Approval` | requests and grants of one Task | approval-service, policy-service, process-service |
| `SkillInstall` | install and update of one skill source | skill-service |
| `AuditStore` | the audit log of one Task in the store: JSON, SQLite, import, cutover, audit.get | audit-service, state-store, state-cutover.mjs |
| `AuditContract` | abstract: a log that only grows at its end and drops only its oldest entries | – |
| `RunOutput` | the output of one Run: chunks, trimming, durable tail, pages, `tail_lines` | process-service, state-store, process-views |
| `Supervisor` | Run Supervisors over one socket path, and start requests with retries | run-supervisor-ipc, run-supervisor, supervisor, process-service |
| `StartContract` | abstract: what an idempotency key promises to callers who retry | – |
| `TaskAdvice` | one Task, an assistant that follows task.resume, and everything that disturbs it | task-activity-service, server, task-service, process-service, plan-service |
| `RunLifecycleProofs`, `PlanRunnerProofs`, `TaskProofs` (of `Workflow`, `TaskWorktree` and `Approval`), `AuditStoreProofs`, `RunOutputProofs`, `SupervisorProofs`, `TaskAdviceProofs`, `ServicesProofs` (of `SkillInstall` and `MCServices`) | theorems | – |
| `MCRunLifecycle`, `MCPlanRunner`, `MCServices` | instances for TLC | – |

`MCServices` composes `TaskWorktree`, `Workflow`, `Approval`, `SkillInstall`,
`AuditStore`, `RunOutput` and `Supervisor` for one TLC run. They share no state in
the code, apart from the status of a Task, so it takes their *sum*: `focus` names
the one service that steps in a behaviour. The product would show nothing more. The
two readers of `RunOutput` have a focus each, as neither changes what the other sees.
`MCRunLifecycle` is a sum of scenes: in a behaviour, `scene` says which Runs, callers and
disturbances of `RunLifecycle` take part. Each scene is `RunLifecycle` with its own
`Handlers` and `Disturbances`, and bounds on the calls of process.start: OUTCOMES (one keyed Run,
everything that may go wrong around its runtime), ACCOUNTS (one Run among task.finish and task.cancel,
with crashes, shutdowns and a failing store), CLEANUPS (one Run among all three handlers, nothing going wrong), RETRIES
(all Runs, with keys, and crashes), RECOVERY and ENDINGS (one Run, for liveness, without and with a
failing store). In RETRIES, RECOVERY and ENDINGS only boots and starts scan the reservations (`NoTools`).
`MCPlanRunner` likewise takes a behaviour of `PlanRunner` that is on time, with the
disturbances of its cfg, or one that is `late`, in which leases run out under live
drivers and crashes come with it. With TLC's `-coverage` the parts of such a sum are
reported expression by expression; every action of every module was seen to fire.

### RunLifecycle

*State.* Durable: `task`, `worktree`, `cleaned`, `pending`
(`pending_process_starts`), `linked` (`process_ids`), `snapshot` (the persisted
status of a process record), `operation` (per key), `lease`. In memory of a
runtime: `record`, `handles`, `cancelAsked`, `phase` (where a start call is),
`doomed` (what its prune has listed), `handler`, `stopping`, `scanning` and `scan` (the
reservations that a recovery has listed and not visited yet). OS: `child`, `killed`,
`runtime`.

*Grain.* JavaScript runs to the next await. But every durable write is a
transaction that another process can see, and a crash may follow any of them.
So a synchronous region is a chain of actions, one per durable write, that no
other work *of the same runtime* interleaves with (`Between(rt)`), while every
other runtime may act in between. `SyncPhases` are the places inside a region;
`work` holds what an event handler has still to do (decide about a foreign Run,
mark the operation).

*Start.* `CallStart`, a scan, `Admit`, `Reserve`, the claim, `Spawn` (or
`SpawnThrows`), `Persist`, `Register`, `Mark`; a failure before the spawn is `Release`,
one after it `RegistrationFails`, then `AbortSignal`, `AbortKill`, `AbortClosed`,
`Finalize` (`#abortUnregisteredStart` and its `finalize`). *Claim.* `claim()` begins with
`prune()`: `PruneByAge` lists, `PruneDelete` deletes one listed operation *whatever it
has become*, `PruneByNumber` lists again; then `ClaimWins` or `ClaimFails`. *Scan.*
`#recoverPendingProcessStarts`, at boot, at the head of a start and of the reads that call
it: `BeginScan` lists the reservations of the Task once, and each is visited once,
whatever became of it (`Visiting`): `RecoverPending` links it, `PassOver` leaves one that is
not recoverable or gone, `RecoveryFails` one whose owner or registration could not be
read or written. The pass then ends (`EndScan`): in `BootDone`, `Admit` or
`ScanReturns`. *Events.* `OnError`, `OnClose`, `OnOutput`. *Observers.*
`ReadForeign`, `Restore` (`#get`, `#restore`, `#interruptLostOwner`). *Shutdown.*
`ShutdownBegin`, `ShutdownKill`, `ReleaseLease`. *Handlers.* `FinishCheck`,
`FinishCommit`, `CancelSweep`, `CancelCommit`, `CleanupCheck`, `CleanupRemove`,
`CleanupRecord`, `HandlerThrows`.

*Abstractions.* One Task and one handler in flight per runtime. A key always
comes with the same request, and a lookup that replays an operation changes
nothing and is left out. Records of Runs that another runtime owns are not cached
(a cached copy is re-read while it is active, and terminal ones do not change
under an observer's eyes). Reads and writes throw only where the code guards them with
try/catch (`StorageFaults`), which includes each visit of a scan; a throw elsewhere
reaches Node's top level and is a crash. A prune lists any set of terminal operations: how old and
how many they are is an input. `"OVERLAP"` among the `Disturbances` says that prunes of
different runtimes may overlap (`MayPrune`); nothing in the code keeps them apart,
and finding 1 (section 5) is what they do then. A PID is never reused. Output is a single event that
persists the record.

### RunAccounting

The contract between the Task record and the child processes: a child is launched
only while the Task is open and knows of it, and the Task forgets no child that
lives. `RunLifecycle` implements it with `open` as `task = "ACTIVE"`, `accounted`
as `pending \union linked`, and `alive` as the Runs whose child is ALIVE.

### PlanRunner

*State.* The fields of the Plan document (`status`, `blocker`, `cancelled`,
`holder`, `fresh` for `driver_lease_until`, and per step `step`, `attempts`,
`run`, `startHead`); the world (`proc`: the Run bound to the idempotency key
`<<step, attempt>>`; `evidence`, `task`, `head`, `dirty`); per driver its place
`pc` and what it has read (`cur`, `tried`, `seenRun`, `seenStart`, `seenHead`,
`result`); `caller`, per process the cancel or continue call that it has in flight.

*Grain.* A driver's loads, awaits and transactions are steps of their own. The
loop is `Renew`, `Select`, then by the action of the step: COMMAND (`StartRun`,
`RecordRun`, `Poll`, `ReadStatus`, then `PassStep`/`ReadSubject`/
`RecordEvidence`, `RetryStep` or `FailStep`), GIT_COMMIT (`ReadHead`,
`MarkCommitting`, `CheckDiff`, `Commit`, `RecordCommit`), TASK_FINISH
(`FinishCheck`, `FinishDiff`, `FinishHead`, `FinishTask`; a step in `NoChange` has the
outcome NO_CHANGE), with `PassAction` or `FailAction`, or BARRIER
(`ReachBarrier`). `CancelPlan`, `BlockPlan`, `CompletePlan`, `AwaitApproval`,
`FailPlan` end the drive. `Claim` is `#ensureDriver`. `CancelCheck`, `CancelFlag`,
`CancelSignal` and `ContinueCheck`, `ContinueCommit` are the callers, with the
stale check before the transaction that the code has.

*Disturbances* (a constant): CRASH (a process ends; its successor has another
driver id), SLOW (a lease runs out under a driver that is alive and in an await),
ERROR (an await throws), TIMEOUT (`timeout_ms`), APPROVAL (the policy demands
one), EDIT (somebody changes the worktree), OVERLAP (calls of plan.cancel and
plan.continue of different `Callers` are in flight at once; without it one is
served after the other, `MayCall`). The code does nothing to keep calls apart: where a
property is checked or proved without OVERLAP, this is an assumption about the callers, and
finding 4 says what happens otherwise.

*Abstractions.* plan.start is the initial state. The Task is
finished by the Plan only. A Run is bound to `<<step, attempt>>`; the code binds it to
`planId:idempotency_key:attempt` (plan-service.js:800), with the id of the step as the default
and no test that a key given by the user is unique among the steps (lines 153, 341-348): a
Plan that gives two steps one key has the second step answered with the Run of the
first, and is outside the model. No run has a step with the outcome NO_CHANGE; the theorems
cover it. `Commit` is one step with the outcomes of git commit; a commit that leaves the worktree
dirty, which the code reports as an error, needs ERROR or EDIT. `StartRun`
stands for `processes.start`, whose own steps are `RunLifecycle`. Output,
audits and formatted errors are left out.

### TaskWorktree

*State.* The Task record (`status`, `outcome`, `finalCommit`, `cleaned`, `aged`),
the worktree (`worktree`, `head`, `dirty`, and `lock`, the owner of `HEAD.lock`),
two refs (`taskRef`, `gcRef`), and per call its place `pc` and the HEAD it has
`seen`. A commit is its number after `base_head`.

*Actions.* task.finish is `FinishBegin`, `FinishHead`, `Retain`, `Verify`,
`Finish`; task.cleanup is `CleanupBegin`, `CleanupRetained`, `CleanupRemove`,
`Record`; task.gc is `GcBegin` (with `Eligible`), `GcRetained`, `GcDiff`, `GcHead`,
`GcSafety`, `GcLock`, `LockedDiff`, `LockedHead`, `GcRemove`, `Unlink`, `Record`:
one step per await. `Edit`, `CommitLocks`, `CommitMoves` go on in the
worktree. `Throws` is an await that fails (with the `finally` that unlinks the lock),
`Crash` the end of a process.

*Abstractions.* Commits are linear. The preview is one step, and its facts about
Runs, Plans and approvals are left out. A commit whose lock was unlinked under
it fails. Records without an outcome, from older versions, are left out.

### Workflow

*State.* `phase`, `afterSetup`, `returnPhase`, `span`, `open` (whether there are open
decisions), `settled`, `linked`, `evidence`, `review`, and the status of the Tasks;
`agreed` is a history of decisions having been settled with none open. *Actions.*
`StartWorkflow`, `UpdateWorkflow` and one action per event of `advance`. *Abstractions.*
Notes, artifacts, history and the recommended route, which no guard reads, are
left out; the setup status of the repository is an input; `update` with several
fields is several updates, which is the same as nothing is checked in between.

### Approval

*State.* `requests` (the index is the id), `grants` (named by their request),
`policy`, `authorized` (what `authorize` returned to a start that has not ended),
`uses` (history). *Actions.* `authorize` is `PolicyAllows`, `UseTaskGrant`,
`UseOnceGrant` or `Require`; then `CommandStarts` or `StartFails`; `Respond`; `EndTask`
(finish and cancel clear the grants); `Reconfigure` (a restart with another
configuration). How a rule matches a command line is an input: a policy says which
rule an operation meets first.

### SkillInstall

*State.* The directory and the metadata of the source as the commit they hold,
per call its staging and backup directory, its place `at` and its flags, `strays`
(directories left behind); a directory that lacks some of its files is `PartTree`. `crashed`, `stuck`
and `undone` are history: a process ended in an install, a rollback or a clean-up failed, an
install was undone after its metadata was durable. *Actions.* One per awaited operation of
`install`, its `catch` and its `finally`. `OperationFails` is a clone, a rename or a write
that fails; `DropFails` the removal of the backup, which runs the rollback *after* the metadata;
`RollbackFails` the swallowed errors of the rollback; `FinallyFails` that of the staging
directory. `CrashInstall` may cut a removal short. *Abstractions.* A tree is whole or it is not
(`Left`); which files are missing is left out.

### AuditStore

*State.* `file`, `row`, `dbExists` and `marker` on the disk; `lockedBy`, SQLite's write
lock; per process its `job` (JSON, SQLITE or CUTOVER), `place`, and the `draft` of its
transaction; a client's `cursor` and what it `got` and was `told`; `acked`
(history). *Actions.* `OpenJson`, `OpenSqlite`, `Exit`; `BeginImport`/`CommitImport`,
`BeginAppend`/`CommitAppend`, `FailAppend`; `GetPage`; `StartCutover`, `OpenCutover`,
`ReportCutover`. *Abstractions.* One document; an entry is its sequence and the call that
wrote it; a page is the set of the places of its entries (`Page`), as they are in order. A JSON process runs alone and only before there is a database: this
is the documented rule (docs/production-cutover-and-gc.md, "Legacy JSON is import
material, not a second writer"), which the code leaves to the operator.

`AuditContract` sees only the log a next reader would be answered from. Opening, importing,
comparing, marking and crashing are stutters of it; each committed append adds
one entry at the end.

### RunOutput

*State.* `ends` (history: per chunk the owner received, `output_total_bytes` after it), `pipe` (the child writes, has exited with output left, has closed), `ownerState`
(the lease is held, was released by a planned shutdown, the process is down), the
record in memory (`live`: the first chunk kept, its flags, its status), the durable
one (`disk`: first and next cursor, whether the first chunk lacks its beginning,
flags, status), the copy that another runtime has `loaded`, and two readers.

*Actions.* `OnData` is one data event: the text is split, every part appended, the
oldest trimmed (`TrimsTo`: never the last chunk), and the record saved (`SaveOutput`
with `Durable`: `persistedOutput` keeps chunks from the end, and the tail of the first
that does not fit). `OnOutputClose`; `SourceMoves`, `OwnerLeaves`. `ReadRecord` and
`InterruptLostOwner` are `#restore` in another runtime. `ReadPage` is a client that
follows `next_cursor`; `TailPage`, `TailThrows` are `textView`. `OutputViews` says who may
answer: the owner from memory while it lives, another runtime from the record.

*Abstractions.* Bytes are numbers: the text, its stream, and its redaction (which may
change the length of what is persisted) are left out. A page holds any number of chunks that
`max_bytes` and `max_chunks` could allow, at least one.

### Supervisor

*State.* `daemon` (where each Supervisor's process is), `socket` (whose socket is at the
path; stale if it does not listen); per call of process.start its client (`sent`), key,
Supervisor (`server`), `stage`, the operation it `found`, what its prune has listed (`doomed`)
and the Run it was answered (`named`); the durable `claims` of the keys and those that are
`over` (terminal); Runs `spawned` (history) and `recorded`.

*Actions.* `StartDaemon` (lstat), `Probe`, `RemoveStale`, `Bind`; `CloseListener` (Node
unlinks the path), `ListenerClosed` (after the open connections; the path is removed again),
`DaemonEnds`. `Send`, `GiveUp` (timeout or broken connection). `Lookup`, then the claim:
`BeginClaim` (its prune lists), `Forget` (and deletes, without looking again), `ClaimKey`; or
`ReserveUnkeyed`; `SpawnChild`, `RecordRun`, `StartThrows`, `Replay`, each answering by `Reply`, which may kill
the daemon if its client has gone: the server's sockets have no `error` listener.
`OperationEnds` is the operation that becomes terminal.

*Abstractions.* What a start does inside the daemon is `RunLifecycle`; here it is told apart
as far as a caller can tell. `OneStarter` is the rule of docs/run-supervisor.md that the
service manager starts or stops one Supervisor at a time. The other requests only
delegate.

`StartContract`: a Run is launched under a key only when every earlier one of that key was
forgotten; only what has ended is forgotten; an answer names a Run of its key that is on record.
That terminal operations are forgotten is documented (docs/service-lifecycle.md:115), so a retry that
comes after the retention starts a second Run. `Supervisor` implements it with the keyed part of
`spawned`, `over`, `recorded` and the successful answers.

### TaskAdvice

*State.* The facts about one Task that `TaskActivityService.derive` reads: `task`, `starting` (a
reservation), `runs` (how many there are, run or were lost, and the status of the one with the latest time stamp), `plan`, `request` (the open
approval), `dirty`, `head`, `evidence`; the assistant: where it is (`at`), what its call has
`seen`, and the `advice`; and `troubles`, a count.

*Actions.* `ReadTask`, `ReadSummaries` (the summaries and the active Runs), `ReadRuns` (the latest
ones), `ReadDiff`, `Derive` are task.resume, one per await: the Task is read first, the HEAD
last. Then one action per recommendation: `ComesBack`, `Responds`,
`AnswersPlan`, `RunsAgain`, `ReadsHead`/`RecordsEvidence`, `Commits`, and task.finish as
`FinishBegin`, `FinishPlan`, `FinishDiff`, `FinishHead`, `Finish`; each may refuse, because the fact it
checks is newer. `FindRuns` is what a read of Runs changes: a lost start is registered, lost Runs
become INTERRUPTED. `StartRegisters`, `RunEnds`, `PlanEnds`, `PlanWorks` go on by themselves.
`Trouble` is what others do: edits, starts, Plans, approvals, Plans that stop, the end of the
runtime that has the Runs.

*Abstractions.* Reading the HEAD and deriving is one step. `process_limit` is taken to be large enough for
the lost Runs to be seen, and the scan of reservations to succeed. Records of Runs that are reserved but not
registered are not among `runs`. task.cancel is `RunLifecycle`'s. The assistant reports FAIL
evidence only as a trouble, and repeats an INTERRUPTED Run. A start whose runtime died
before its first durable record is STUCK: `#recoverPendingProcessStarts`
(process-service.js:170) keeps its reservation, on purpose, until an operator acts.

### One transaction, one step

The modules other than `AuditStore` take a StateStore mutation as atomic, as it
is with the SQLite backend (`BEGIN IMMEDIATE`, state-store.js:469); `AuditStore` is
the module that looks inside one.

## 3. Runs

Every run of `RunLifecycle` and `PlanRunner` has two runtimes or two drivers, which is
what a race, a takeover or a loss of ownership needs.

| Run | Instance | What it shows |
| --- | --- | --- |
| `run_safety` | scenes OUTCOMES, ACCOUNTS, CLEANUPS and RETRIES: one Run (three in RETRIES), one key | what snapshots and operations say of a Run is true (`OutcomeIsTruthful`), final (`OutcomeIsFinal`), INTERRUPTED only after a real loss (`InterruptedOnlyWhenLost`); the Task keeps account of its children (`FinalizedHasNoPending`, `NoUnaccountedChild`, refinement of `RunAccounting`); a live Run keeps its key through prunes that list first and delete later (`LiveRunHoldsKey`) |
| `run_liveness` | scenes RECOVERY and ENDINGS: one Run; fairness | an abort and a planned shutdown end (`AbortResolves`, `ShutdownEnds`); in RECOVERY, where the store answers, a boot links every Run of a dead owner that has a snapshot, in one pass (`BootRecovers`) |
| `plan_deliver` | build, lint, commit, test the commit, finish; crashes, approvals, one call at a time; fairness | only the lease holder writes (`HolderWrites`), takeover loses and repeats nothing (`EffectsAreRecognised`), Runs take turns (`OneRunAtATime`), success is complete and verified (`SuccessIsComplete`, `CompletedIsVerified`), a RUNNING Plan gets somewhere (`PlanAdvances`) |
| `plan_faults` | two commands, a barrier, a commit and a finish, declared out of order; on time with all disturbances but OVERLAP, or late | while leases last: retries within the policy (`PolicyKept`), nothing starts after a failure (`FailureIsFinal`); always: no step begins before its dependencies have really run (`DependenciesRan`) |
| `services` | see below | the seven services of `MCServices` |
| `task_advice` | one kind of evidence, four troubles; fairness | an assistant that does what task.resume says ends its Task (`AdviceLeadsToTheEnd`), repeats a lost Run once and commits an edit once (`RepeatsOnce`) |
| `run_cleanup_race` | violation | task.cleanup removes the worktree of an active Run |
| `run_prunes` | violation, three starts, 1 key, overlapping prunes | the operation of a live Run is deleted |
| `plan_two_continues` | violation, two commands, overlapping calls | a FAILED step is started again |
| `plan_two_drivers` | violation, two commands, SLOW | a driver that outlived its lease writes the Plan |
| `two_finishes` | violation, two task.finish and a cleanup | a delivered commit loses its last reference |
| `review_bypass` | violation, one Task | a workflow is DONE with a linked Task and no review |

`services`: *TaskWorktree* with a finisher, a collector and a third caller, three commits,
crashes and errors (`RetentionIsExact`, `CleanedIsGone`, `GcLosesNoCommit`);
*Workflow* with two Tasks (`EvidenceIsCurrent`, `DoneIsReviewed`,
`NothingBuiltUnsettled`); *Approval* with two starts, two operations, two rules of one
scope, three policies and two requests (`OnceMeansOnce`, `StartsAreApproved`); *SkillInstall* with one call at a time, two
commits, crashes, errors and backups that cannot be removed (`ProvenanceIsKept`,
`InstallsAreWhole`);
*AuditStore* with two processes, four appends, a log of two entries and pages of
one and two (`ReadersMissNothing`, `KeepsAuditContract`); *RunOutput* with chunks of one and
two bytes, three bytes in memory, two on disk and four chunks (`ReadersMissNoOutput`,
`EndIsTheEnd`, `TailSaysIfCut`); *Supervisor* with two daemons, two calls that share a
key or have none, crashes, timeouts and errors (`ListenerIsReachable`,
`KeepsStartContract`).

*Bounds.* Three starts are what a key needs: one whose operation ends and is listed, one
that claims the key after it was deleted, and one whose prune still has it on its list. A
Run never meets another except through the Task, a key or its runtime. One Run with every
disturbance shows all paths of one record. Plans of five steps have every action, a join and a chain.
`AttemptBound` (Runs of one step) is 3 in `plan_deliver` and `plan_faults`, more than any
`MaxAttempts` there allows, so that a retry too many would be seen; under SLOW, where two drivers
may both increment `attempts`, it is 2 (`LateBound`) and cuts off the third; in
`plan_two_continues`, whose callers may restart a step again and again, it is 2. Commits that leave
the worktree dirty are bounded by the number of steps (in `Commit`).
`MaxCommits` 3 gives a final commit, one before it and one after it. Two requests
let an operation be asked for again after its grant was spent, or after another rule
met it; the theorems about `Approval` have no bound. Two Tasks tell the evidence of one set of Tasks from that of another. Two
skill commits are an old and a new tree, which with `PartTree` and none are all that the
metadata can be compared with. Four appends fill a log of two twice
over, so that a reader can be behind by one and by two. Chunks of one or two bytes
against limits of three and two trim none, one or two chunks at once, persist a chunk whole, in part or not at
all, and leave a reader inside or before what is kept. Two daemons take turns at the path or meet
there; two calls under a key are a first attempt and its retry. Four troubles let a Run be
lost twice, a Plan stop and be replaced, or evidence go stale between two edits;
the liveness property itself does not depend on which of them come.
Overlapping calls of plan.cancel and plan.continue are explored in `plan_two_continues`; that the
safety properties other than `PolicyKept`, `FailureIsFinal` and `HolderWrites` hold next to
them is proved, for any number of callers.
Symmetry is used in safety runs only.

*Deadlock* is not checked: all runs of a Task end, a Plan ends, a workflow is DONE, a
worktree is removed, a bound of appends or requests is reached, and every process
may be down; that is where the system stops. What must not stop is stated as liveness.

## 4. Fairness

`RunLifecycle!Fairness`: weak for a synchronous region, an event's remaining
work and the steps of a scan, which JavaScript runs to their end unless the process
dies (`ScanFairness` is the part that a boot needs); strong for the timers and close events of an abort and of a shutdown, which
the event loop serves in turn between other work and which are disabled while a
region runs; weak for the end of a SIGKILLed child. Tool calls, exits of a child by
itself, boots and crashes are never forced.

`PlanRunner!Fairness`: weak for each driver (awaits return, and the 1 s recovery
timer of every process claims RUNNING Plans), for the lease (3 s) of a driver that
is down, for the end of a Run (commands end, or `timeout_ms` stops them), and
for the rest of each call that has begun. Crashes, throws and new calls are never
forced. `PlanAdvances` excuses only the case that all drivers are down.

`TaskAdvice!AdviceSpec`: weak for the assistant, whose calls return and who makes the next one; for
a reserved start, which registers or is lost; for the end of a Run and of a Plan that is
RUNNING. Nobody has to make trouble, and `MaxTroubles` bounds those who do: against others that
edit for ever no advice can end a Task.

The services of `MCServices` have no fairness: their properties are safety.

## 5. Findings and known limits

Each finding is a "violation" run whose counterexample is the scenario:

1. **Two prunes** (`run_prunes`). `prune()` deletes what it listed, whatever it has become. Two
   claims list one terminal operation; the first deletes it and claims the key for a Run, and
   the second then deletes the operation of that Run, which is alive.
2. **task.cleanup against process.start and task.cancel** (`run_cleanup_race`). The
   check for active Runs precedes the read of the Task status; the worktree goes
   under a CANCELLING Run.
3. **Two drivers** (`plan_two_drivers`). No write of a driver looks at `driver_id`;
   an await longer than the lease lets two processes write one Plan. What
   still holds then is `DependenciesRan` (proved, SLOW included; section 6).
4. **Two continues** (`plan_two_continues`). plan.continue tests the status and the code of the blocker
   outside its transaction, and inside it only which step it names. A call that
   was checked at an approval may commit after another one released the step and
   it failed: the FAILED step is PENDING again. It has used its attempts, but the driver compares
   `max_attempts` only after a Run has ended, so that the step has a Run more than its policy allows:
   with `PolicyKept` in place of `FailureIsFinal`, PlanRestart.cfg shows that.
5. **Two finishes** (`two_finishes`). The retention ref moves before the Task is
   known to be ACTIVE; a second task.finish, which will be refused, may move it off
   the delivered commit between a cleanup's check and its removal.
6. **Review bypass** (`review_bypass`). Linking Tasks in REVIEW clears the evidence,
    and without evidence review_passed asks for no review.

Three more disagreements are in the models, and TLC shows each in less than a minute, though no run of the project is
kept for it. The theorems and the runs name the assumption or the exception that leaves it out:

* *A backup that stays.* The removal of the backup (skill-service.js:640) is in the `try` whose `catch` rolls
  the trees back, after the new metadata is durable (637): the source is then the old tree, or what is left of it,
  under the new metadata, and the new tree is gone. skill-service.js:634 says "The source tree and
  its provenance metadata form one managed unit." Check `ProvenanceOnDisk` of `SkillInstall` with one install and
  "DROP" among the disturbances; `ProvenanceIsKept` and `InstallsAreWhole` except installs that are `undone`.
* *Two updates.* Nothing keeps two installs of one source apart (skill-service.js:625): the second may
  move the first one's new tree into its own backup and remove it, while the first one's metadata is the last to
  be written. Check `ProvenanceOnDisk` with two installs and nothing failing; `services` and the theorems take
  one (`OneInstall`).
* *Stolen lock.* `headLockPath` is set before `open(HEAD.lock, "wx")` (git-service.js:315), and the `finally`
  (362) unlinks it even if the lock is somebody else's, against the refusal "Automatic GC refuses a worktree while another
  Git operation owns HEAD." (322). Check `GcLosesNoCommit` of `TaskWorktree` with two collectors: one
  unlinks the lock of the other between that one's last check and its removal, and a commit lands. `services` and the theorem take
  one (`OneCollector`).

The models also contain these paths, which no property forbids, as the code lets
them happen and no document promises otherwise:

* A Run registered between the check of task.finish (server.js:445) and
  `TaskService.finish` stays RUNNING in a COMPLETED Task.
* If `spawn` throws, the key's operation is FAILED and no record exists; retries
  answer IDEMPOTENCY_OPERATION_PENDING until it is pruned.
* A step is PASSED before its evidence is recorded; a crash in between loses the
  evidence, and a finish that requires it fails closed (`CompletedIsVerified`).
* plan.cancel tests for a final status outside its transaction, so that a Plan that
  succeeds in between ends CANCELLED.
* A one-time grant whose start fails is spent.
* A scan visits a reservation once and swallows what throws: a start of a dead runtime may stay
  reserved until a later scan. `BootRecovers` is checked without failing storage.
* Two steps of a Plan that were given the same `idempotency_key` share their Runs (section 2).
* Two JSON processes, or a JSON process next to a database, lose audit entries:
  `AuditStore` excludes them by the operator's rule, `OpenJson`.
* `persisted_output_truncated` is computed anew when another runtime interrupts a lost
  Run (process-service.js:266) from chunks that were cut before: a cut inside the first
  chunk is forgotten. `TailSaysIfCut` leaves INTERRUPTED records out; of them it is false.
* Two Supervisors that start or stop at once may remove each other's socket, which is removed
  by path after the probe (run-supervisor-ipc.js:143), and once more after the close (line 187):
  `ListenerIsReachable` needs `OneStarter`. So does `KeepsStartContract`: two daemons that
  serve at once may prune at once, which is finding 1.
* A start without a key that is tried again after SUPERVISOR_TIMEOUT starts a second Run.
* A late reply may end the Supervisor (`Reply`).
* A start whose runtime died before the first durable record keeps its reservation, and the
  Task cannot be finished: `AdviceLeadsToTheEnd` excepts STUCK.
* task.list derives the activity without the evidence of the current commit
  (task-hygiene-service.js), so that following it instead of task.resume can go round in circles:
  any PASS satisfies it, task.finish refuses. It is the mutant `EvidenceBlockerListed`.

Outside the models: `textView` reads on while `has_more`, which a child that writes faster
than it is read keeps true; two edits of one file at once lose one (file-edit-service.js); two
open Plans after plan.cancel races a Plan that ends and a plan.start; a PID that the OS gives to another process makes the lease of a
dead runtime look alive; PLAN_DRIVER_ERROR has no step id, so that such a Plan can only
be replaced; a request that is open when its Task ends blocks task.gc for good.

## 6. Proofs

Everything here is proved for every value of the constants that the module's assumption allows;
what else a theorem assumes is in its statement.

### RunLifecycleProofs

For every set of runtimes, Runs and keys, every choice of handlers and of disturbances
(`SentinelsAssumption`: NoRun etc. are not members of the sets).

* `TypeCorrect`: `Spec => []TypeOK`.
* `FinalizedTasksHaveNoPendingStart`: `Spec => []FinalizedHasNoPending`.
* `EveryChildIsAccounted`: `Spec => []NoUnaccountedChild`.
* `Refinement`: `Spec => Contract!Spec` (`KeepsContract`).
* `PublishedOutcomesAreFinal`: `Spec => OutcomeIsFinal`; `InterruptedMeansLost`:
  `Spec => []InterruptedOnlyWhenLost`.
* `SettledMeansGone`: `Spec => []OutcomeIsTruthful`.
* `LiveRunsKeepTheirKey`: `Spec => []LiveRunHoldsKey` if prunes of different runtimes do not
  overlap (`"OVERLAP" \notin Disturbances`). The code does not see to that: without it the
  theorem is false, which is finding 1.

`NoUnaccountedChild` is not inductive: that `Release` and `RecoverPending`
do not drop a living child depends on where the start is. The inductive invariant is `IInv`:
`UnownedIsNew` (a Run nobody called has no state), `UnbornIsClean` (before the
spawn there is neither a child nor a snapshot), `StartIsReserved` (a start in
progress is in `pending`), `ForgottenIsClosed` (what `Release` is about to drop
has no living child), `RestoredHasSnapshot`, with the two invariants themselves.
Each step of `Next` has a case of its own, per conjunct it can disturb. The
refinement maps every step to one of `RunAccounting` or to a stutter, from
`IInv`.

What is said of outcomes rests on two more. `RecordInv` is about one Run at a time, and every
action is first reduced to what it may do to one Run (`Moves`). It says that the record in memory and the
snapshot are true of the child at every place of a start and of its abort (`RecordIsTrue`), that while
the owner holds its lease a Run that it has no record of has no living child, and a final snapshot
is what its record says (`FollowsOwner`), that only a runtime that has booted owns Runs
(`OwnersHaveBooted`), and that one about to restore a Run of its own has forgotten it (`RestoresAreLost`).
`KeyInv` is about operations: what an operation holds (`OperationsAreTrue`), and what any runtime is
still to write into one (`MarksAreTrue`), is true of its Run when it is computed and cannot become
false (`OverLasts`). A third, `HeldInv`, is about keys: from its claim to the end of its
child a Run whose owner is not dead holds its key (`KeysAreHeld`), because what a prune has
listed is over and cannot come alive (`DoomedAreSpent`), only a start in its prune has a list
(`OnlyPrunesDelete`), and there is one such start at a time (`OnePrune`), so that nobody can claim
a key between the listing and the deletion. It needs the second, as a prune lists on the strength of a status, and
the second needs the first.

### PlanRunnerProofs

For every Plan that createPlan accepts (`PlanAssumption`: `ValidPlan` for what validateStep and
validateDependencies let through, and evidence of COMMAND steps only), any drivers and every
choice of disturbances, except those a theorem excludes:

| Theorem | states | not with |
| --- | --- | --- |
| `PlanTypeCorrect` | `[]TypeOK` | |
| `DependenciesHaveRun` | `[]DependenciesRan` | |
| `LeaseHolderWrites` | `HolderWrites` | SLOW, OVERLAP |
| `FailureStops` | `[][StopsAtFailure]_vars` | SLOW |
| `SuccessIsWhole` | `[]SuccessIsComplete` | SLOW |
| `RetriesAreBounded` | `[]RunsWithinPolicy` | SLOW, OVERLAP |
| `RunsTakeTurns` | `[]OneRunAtATime` | SLOW, TIMEOUT |
| `CompletionIsVerified` | `[]CompletedIsVerified` | SLOW, EDIT |
| `EffectsAreKept` | `[]EffectsAreRecognised` | SLOW, ERROR, EDIT |
| `PolicyIsKept`, `FailuresStayFinal` | `PlanSpec => []PolicyKept`, `=> FailureIsFinal` | SLOW, OVERLAP |

Where OVERLAP is not excluded, any number of `Callers` may be at any place of a call.

The exclusions are needed. With drivers that outlive their lease all the SLOW ones are false
(PlanTwoDrivers.cfg shows where that starts). With overlapping callers those that exclude OVERLAP are
(finding 4; and a late plan.continue may take the lease of a driver that is about to
record a plan.cancel). A Run that is given up for its timeout may
still be active next to its retry. Somebody else's edit lets a later GIT_COMMIT move HEAD
after the contract was verified: TLC finds that `CompletedIsVerified` fails on a Plan with a
second commit behind its finish. A call that throws after its effect, or an edit during a
commit, fails a step whose effect is there.
The last two theorems are about the specification that the runs explore, late behaviours included
(SLOW comes with `late` there, so that the assumption is the cfg's).

The type needs `TypeInv`: `Fits` ties every place of a driver to a step of the
right kind (a driver at "COMMIT" has a GIT_COMMIT step in hand), without which
`attempts` and `run` may be written outside their domains. `LeaseInv` says that
every driving process holds a fresh lease of a RUNNING Plan. The lease of a live driver running out
can break it, and a plan.continue that commits on a RUNNING Plan with a blocked step (`Timely` says that
there is none): with one call at a time because the check still holds when it commits
(`OneCaller`), with overlapping ones because a blocker has a step only while the Plan waits
(`Unblocked`), until a plan.cancel sets it RUNNING. `OrderInv` is the
argument that order does not depend on the lease at all: effects are never undone
(Runs keep their outcome, HEAD moves forward, evidence stays), a driver passes a
step only with the effect behind it (`EffectFirst`), so a PASSED step is done
for good (`PassedIsDone`), and whoever begins a step, however late, has seen its
dependencies PASSED (`InOrder`). Two overlapping drivers may write the Plan in
any order; neither can begin a step whose dependencies have not run.
The others do depend on the lease. `InCourse` is what is left of an orderly Plan when callers overlap:
either it is being cancelled and its drivers are at the places where nothing but the cancel is left
to them (`Stopped`), whatever a late plan.continue writes; or it is `Going`, that is `LeaseInv`,
`Unblocked` and `HaltInv` hold; and in both cases a status of success means that every step was passed
(`Succeeded`). `HaltInv`: unless cancelled, a Plan that is RUNNING or that plan.continue accepts has
no failed step, and a driver keeps what it chose under that although a cancel may set the status
RUNNING again; a Plan is only completed from there. A failed step that a stale plan.continue takes up again is
PENDING then, so that nothing starts *beside* a failure (`FailureStops`); that no failed step is taken up
again (`FailuresStayFinal`) needs `OneCaller`.
`PolicyInv`: what the lease holder read of `attempts` is still the durable value, and a
PENDING command, also one that waits for its approval, has an attempt left.
`ChosenInv`: at most one step is RUNNING, and it is the one that whoever drives has in hand, so that a
driver that takes over resumes what its predecessor began. `RunInv`: an active Run is one that
such a driver would find again (`Resumed`), unless the Plan is stopping, and none is active when
plan.continue may take the Plan up. `VerifyInv`: the HEAD that a driver in TASK_FINISH has read is still
HEAD when the Task is finished, on a clean worktree, and afterwards nothing is committed.
`EffectInv`: what a driver has read of HEAD and of the step's `startHead` is still so while it
decides about a commit, and it is about to fail a step only if that took no effect (`Knows`); a
commit that took effect can still be recorded, as its Task is ACTIVE (`ActiveCommits`).

### TaskProofs

`TaskWorktree`, for any callers, commits and disturbances:

* `WorktreeTypeCorrect`; `CleanedHasNoWorktree`: `WorktreeSpec => []CleanedIsGone`. The
  inductive `GoneInv` adds that a call about to record the removal has done it.
* `RetentionCorrect`: with one finishing call at a time (`OneFinisher`),
  `WorktreeSpec => []RetentionIsExact`. `FinishInv`: at "FINISH" the ref is what the
  call has seen, and no call is on its way once the Task is delivered. Without the
  assumption it is false: that is finding 5.
* `GcIsSafe`: with one collector (`OneCollector`), `WorktreeSpec => GcLosesNoCommit`.
  `GcInv` carries, place by place, what the checks have established: the recovery ref from
  `GcLock` on, the ownership of the lock while the worktree is there, HEAD under the lock. Without the
  assumption a collector may unlink the lock of another one (section 5).

`Workflow`, for any set of Tasks:

* `WorkflowTypeCorrect`, `EvidenceCorrect`, `DoneCorrect`, `GatesHold`. Evidence needs
  to know where a PROTOTYPE returns to; the gate (`NothingBuiltUnsettled`) needs
  `GateInv`: which phases have a return phase, and that SETUP is one only for BLOCKED.

`Approval`, for any starts, operations, rules, policies and any number of requests:

* `ApprovalTypeCorrect`; `OnceIsOnce`: `[]OnceMeansOnce`, by `OnceInv`: a request that is open has
  no grant, no holder and no use, and one that was allowed once has them in one place at most.
* `ApprovalsCover`: `[]StartsAreApproved`, by `CoverInv`: every grant is of an approved request.

### AuditStoreProofs

For any processes, page limits, cap and faults, and any number of appends up to the bound; no
assumption besides `AuditAssumption`:

* `AuditTypeCorrect`; `ReadersGetEverything`: `AuditSpec => []ReadersMissNothing`.
* `StoreKeepsTheContract`: `AuditSpec => KeepsAuditContract`, the refinement of `AuditContract`.

`WriterInv` is why there is one writer at a time: a JSON process is alone (`JsonAlone`),
everything else writes under SQLite's lock (`Locked`: an import or an append in progress has it), and
whoever serves SQLite has the file's log in a row (`SqliteServes`; `Moved` for the marker of the cutover). `LogInv` says that the log that the next
reader is answered from is `Numbered` (its entries are the numbers just below `next_sequence`, in order), that
a draft in progress is that log (`DraftIsNext`), with one entry more at its end if it is an append, that its entries are
acknowledged, and that the client's cursor is below its next number. From these, `PagesAreWhole` and
`PagesSkipNothing` say what a page holds: everything retained between the cursor and `next_sequence`.

### RunOutputProofs

For any limits and any number of chunks up to the bound:

* `OutputTypeCorrect`; `EndsAreFinal`: `[]EndIsTheEnd`; `ReadersAreTold`:
  `[]ReadersMissNoOutput`. `OutputInv` says that the record in memory, the durable one and the loaded copy are
  ranges of the output, that a final status comes after the last data event, and that a record that has
  it ends with the output.
* `TailsSayIfCut`: `[]TailSaysIfCut`, by `TailInv`: a record that lacks output, in memory, on the disk or
  just loaded, means that the owner's record is `Marked`, and a mark stays. The latter is not obvious, as every save computes
  `reported` anew: it stays because the bytes of a Run only grow (`DataAppends`), and what did not
  fit into the durable tail never fits again (`SaveMarks`). For this `RunOutput` keeps running
  totals (`ends`), as the code does; a sum over the chunks would be an induction over data.

### SupervisorProofs

For any daemons, calls and keys:

* `SupervisorTypeCorrect`; `ListenersStayReachable`: with `OneStarter`, `[]ListenerIsReachable`.
  `ReachInv`: only one daemon is on its way up or down, and while it is about to remove the
  path, no other one listens.
* `KeysKeepTheirPromise`: with `OneStarter`, `SupervisorSpec => KeepsStartContract`. `ServeInv`: one
  daemon serves, and one call of it at most is between its prune and its claim, so that what the
  prune listed is still what it deletes. `ClaimInv`: a keyed Run is remembered by its key or is over, a call
  past its claim is the one its key is bound to, and answers name recorded Runs. Without
  `OneStarter` TLC finds two daemons whose prunes overlap.

### TaskAdviceProofs

For any checks and any number of troubles:

* `AdviceTypeCorrect`: `AdviceSpec => []AdviceTypeOK`; `RepeatsAreSingle`: `[]RepeatsOnce`.

`AdviceInv` is an account (`RunsArePaid`). Every trouble pays for one Run or commit at most, or for
what may still become one: a reservation (`Reserved`), an edit, a lost Run that nobody has noticed
(`Unnoticed`), a noticed one that nobody repeats (`NotRepeated`), an assistant that has been told to
repeat it or is about to be (`ToldToRepeat`). Each step only moves the payment on. The delicate ones are
those where the recommendation is older than the facts: a reservation made after the Task was read must have been
paid by somebody else, and one that the Task record showed keeps the assistant from repeating.

### ServicesProofs

`SkillInstall`, for any commits and faults:

* `InstallTypeCorrect`, overlapping installs included.
* `ProvenanceCorrect` and `InstallsCorrect` with one install at a time (`OneInstall`). Nothing in the code
  sees to this; it is assumed, and it is needed (section 5). Nor do they speak of an
  install that is `undone`, its backup having stayed, until the next write of the metadata. Everything else that may
  fail or end is covered: the clone, both renames, the write, the rollback, the clean-up, the
  process. `KeptInv` says place by place where the tree of the recorded commit is: in the
  source, in the call's backup, or among the strays; `WholeInv` what a rollback still has to undo.

`MCServices`:

* `ServicesImplementEach`: a behaviour of `MCServices` is a behaviour of each of the seven services, so
  that what is proved of one holds of the composed run.
* `ServicesTypeCorrect`: `ServicesSpec => []ServicesTypeOK`.

### Only model-checked

All liveness (`AbortResolves`, `BootRecovers`, `ShutdownEnds`, `PlanAdvances`, `AdviceLeadsToTheEnd`),
which is out of this prover's reach. Every invariant and action property of a passing run is stated
by a theorem.

## 7. Not modelled, and the plan

Not modelled by choice: HTTP and MCP plumbing, configuration, doctor, CLI,
redaction, text search of skills, install and release scripts (pure I/O or text).

Left out of modelled components: plan.start (a Plan begins in its initial state; its replay and
the rule of one open Plan per Task are not modelled), schema migration of the store, the requests other than start that cross the
Supervisor's socket (they delegate to what `RunLifecycle` and `RunOutput` model), records of older
versions. File tools read, check and write single files; the service life cycle's part that matters is
`ShutdownBegin` of `RunLifecycle`. *Completion evidence* and *task activity* are
operators of `PlanRunner` and `TaskAdvice`.

Worth doing next, most important first:

1. *Proofs.* Weaker assumptions for `EffectsAreKept` and `RunsTakeTurns` (what still holds with ERROR and
   TIMEOUT).
2. `PlanStart`: replay and the rule of one open Plan per Task, with the race of plan.cancel.
3. The cutover of several kinds of documents: an import that brings back a deleted one.
4. The readers of skill directories during a swap.
