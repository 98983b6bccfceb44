----------------------------- MODULE RunLifecycle -----------------------------
(***************************************************************************)
(* The life of the Runs (child processes) of one Task: ProcessService, the *)
(* Task record it reserves starts in, the idempotency operations that bind *)
(* a retried start to one Run, and the task.finish / task.cancel /         *)
(* task.cleanup handlers that must not overtake a start.                   *)
(*                                                                         *)
(* A runtime is one OS process with a ProcessService.  Its JavaScript is   *)
(* single threaded: between two awaits nothing else of that runtime runs,  *)
(* but every durable write is a transaction of its own, so the writes of   *)
(* ANOTHER runtime, or a crash, fall between any two of them.  Each such   *)
(* write is one action here; Between(rt) says that rt is between two       *)
(* synchronous regions.                                                    *)
(***************************************************************************)
CONSTANTS
  Runtimes,      \* ProcessService instances, one random instance id each
  Runs,          \* identities of process.start calls and the Runs they make
  Keys,          \* idempotency keys (with one fixed request each)
  NoRun, NoKey, NoRuntime,
  Handlers,      \* the Task lifecycle handlers that callers use
  Disturbances   \* what may go wrong around the runtimes

ASSUME SentinelsAssumption ==
  /\ NoRun \notin Runs
  /\ NoKey \notin Keys
  /\ NoRuntime \notin Runtimes
  /\ Handlers \subseteq {"FINISH", "CANCEL", "CLEANUP"}
  /\ Disturbances \subseteq
       {"CRASH", "SHUTDOWN", "STALE", "STORAGE", "OVERLAP"}

\* A read or a write of the store that the code guards with try/catch may
\* throw.
StorageFaults == "STORAGE" \in Disturbances

VARIABLES
  task,       \* durable Task status
  worktree,   \* the Task worktree directory exists
  cleaned,    \* durable workspace_cleaned
  pending,    \* durable pending_process_starts (reservations)
  linked,     \* durable process_ids
  snapshot,   \* durable process record: its status, or "NONE"
  operation,  \* durable idempotency operation of each key
  lease,      \* runtime lease file of each runtime
  runtime,    \* life of each runtime
  owner, key, \* the runtime that executes a start call, and its key
  doomed,     \* the keys its prune has listed and not deleted yet
  phase,      \* where that start call is
  record,     \* status of the owner's in-memory record, or "NONE"
  handles,    \* Runs whose in-memory record holds the child handle
  cancelAsked, \* Runs whose in-memory record has cancel_requested
  child,      \* the OS child process
  killed,     \* SIGKILL has been sent to it
  work,       \* the rest of a synchronous region of a runtime
  handler,    \* the Task lifecycle handler a runtime has in flight
  stopping,   \* the Runs shutdownOwned waits for
  scanning,   \* the runtimes in recoverPendingProcessStarts
  scan        \* the reservations that it has listed and not visited yet

taskVars    == <<task, worktree, cleaned>>
startVars   == <<pending, linked>>
scanVars    == <<scanning, scan>>
runtimeVars == <<lease, runtime, stopping, scanning, scan>>
callVars    == <<owner, key, doomed>>
memVars     == <<record, handles, cancelAsked>>
vars == <<task, worktree, cleaned, pending, linked, snapshot, operation, lease,
          runtime, owner, key, doomed, phase, record, handles, cancelAsked,
          child, killed, work, handler, stopping, scanning, scan>>

Active   == {"RUNNING", "CANCELLING"}
Settled  == {"EXITED", "FAILED", "CANCELLED"}
Terminal == Settled \union {"INTERRUPTED"}
Status   == Active \union Terminal

\* claim() prunes first, by age and then by number.
Pruning == {"EXPIRING", "TRIMMING"}

SyncPhases ==
  {"ENTERED", "RESERVED", "CLAIMED", "RELEASING", "SPAWNED", "PERSISTED",
   "ABORTED", "FINALIZING"} \union Pruning
Phases == SyncPhases \union {"NONE", "CALLED", "ABORTING", "DONE"}

NoWork   == [step |-> "NONE", run |-> NoRun, status |-> "NONE"]
NoOp     == [run |-> NoRun, status |-> "ABSENT"]

\* Still to do in a synchronous region: decide about a foreign Run that was
\* read, or mark the operation of a Run.
Work == {NoWork}
        \union [step : {"RESTORE"}, run : Runs, status : {"NONE"}]
        \union [step : {"MARK"}, run : Runs, status : Status]

TypeOK ==
  /\ task \in {"ACTIVE", "COMPLETED", "CANCELLED"}
  /\ worktree \in BOOLEAN
  /\ cleaned \in BOOLEAN
  /\ pending \subseteq Runs
  /\ linked \subseteq Runs
  /\ snapshot \in [Runs -> Status \union {"NONE"}]
  /\ operation \in [Keys -> [run    : Runs \union {NoRun},
                             status : Status \union {"ABSENT", "CLAIMED"}]]
  /\ lease \in [Runtimes -> {"NONE", "FRESH", "STALE"}]
  /\ runtime \in [Runtimes ->
                    {"NEW", "BOOTING", "UP", "STOPPING", "RELEASED", "DOWN"}]
  /\ owner \in [Runs -> Runtimes \union {NoRuntime}]
  /\ key \in [Runs -> Keys \union {NoKey}]
  /\ doomed \in [Runs -> SUBSET Keys]
  /\ phase \in [Runs -> Phases]
  /\ record \in [Runs -> Status \union {"NONE"}]
  /\ handles \subseteq Runs
  /\ cancelAsked \subseteq Runs
  /\ child \in [Runs -> {"NONE", "STILLBORN", "ALIVE", "ENDED", "CLOSED"}]
  /\ killed \subseteq Runs
  /\ work \in [Runtimes -> Work]
  /\ handler \in [Runtimes ->
                    {"NONE", "FINISH", "CANCEL", "CLEANUP", "REMOVED"}]
  /\ stopping \in [Runtimes -> SUBSET Runs]
  /\ scanning \subseteq Runtimes
  /\ scan \in [Runtimes -> SUBSET Runs]

Init ==
  /\ task = "ACTIVE" /\ worktree = TRUE /\ cleaned = FALSE
  /\ pending = {} /\ linked = {}
  /\ snapshot = [r \in Runs |-> "NONE"]
  /\ operation = [k \in Keys |-> NoOp]
  /\ lease = [rt \in Runtimes |-> "NONE"]
  /\ runtime = [rt \in Runtimes |-> "NEW"]
  /\ owner = [r \in Runs |-> NoRuntime]
  /\ key = [r \in Runs |-> NoKey]
  /\ doomed = [r \in Runs |-> {}]
  /\ phase = [r \in Runs |-> "NONE"]
  /\ record = [r \in Runs |-> "NONE"]
  /\ handles = {} /\ cancelAsked = {}
  /\ child = [r \in Runs |-> "NONE"]
  /\ killed = {}
  /\ work = [rt \in Runtimes |-> NoWork]
  /\ handler = [rt \in Runtimes |-> "NONE"]
  /\ stopping = [rt \in Runtimes |-> {}]
  /\ scanning = {} /\ scan = [rt \in Runtimes |-> {}]

-----------------------------------------------------------------------------
(* What a runtime can see and when it may run.                             *)

Live(rt) == runtime[rt] \in {"BOOTING", "UP", "STOPPING", "RELEASED"}

\* rt is between two synchronous regions ...
Between(rt) ==
  /\ Live(rt)
  /\ work[rt] = NoWork
  /\ rt \notin scanning
  /\ \A r \in Runs : owner[r] = rt => phase[r] \notin SyncPhases

\* ... and may take up an event, a timer or a tool call.
Idle(rt) == Between(rt) /\ runtime[rt] # "BOOTING"

\* No lease, or a lease whose PID is gone.  A lease that is merely old is
\* STALE, which is not DEAD.
Dead(o) == lease[o] = "NONE" \/ runtime[o] = "DOWN"

\* Mutant: a stale heartbeat counts as a dead owner.
OwnerStateStaleIsDead(rt, o) ==
  IF o = rt THEN "LOCAL"
  ELSE IF Dead(o) \/ lease[o] = "STALE" THEN "DEAD"
  ELSE "ALIVE"

OwnerState(rt, o) ==
  IF o = rt THEN "LOCAL"
  ELSE IF Dead(o) THEN "DEAD"
  ELSE IF lease[o] = "STALE" THEN "STALE"
  ELSE "ALIVE"

InMemory(rt, r) == owner[r] = rt /\ record[r] # "NONE"

\* The status #get reports: the in-memory record, or the durable snapshot.
View(rt, r) == IF InMemory(rt, r) THEN record[r] ELSE snapshot[r]

Recoverable(rt, r) ==
  /\ r \in pending
  /\ snapshot[r] # "NONE"
  /\ OwnerState(rt, owner[r]) = "DEAD"

\* #syncIdempotency comes last in a synchronous region; without a key it does
\* nothing.
MarkLater(r, status) ==
  IF key[r] = NoKey THEN NoWork
  ELSE [step |-> "MARK", run |-> r, status |-> status]

TaskActive == task = "ACTIVE" /\ ~cleaned

-----------------------------------------------------------------------------
(* recoverPendingProcessStarts.  The Task is read once; each reservation that *)
(* it had is then visited once, whatever became of it and whatever throws.    *)

BeginScan(rt) ==
  /\ scanning' = scanning \union {rt}
  /\ scan' = [scan EXCEPT ![rt] = pending]

Visiting(rt, r) ==
  /\ rt \in scanning /\ r \in scan[rt]
  /\ work[rt] = NoWork
  /\ scan' = [scan EXCEPT ![rt] = @ \ {r}]
  /\ UNCHANGED scanning

\* The pass is over, and with it the recovery.
EndScan(rt) ==
  /\ rt \in scanning /\ scan[rt] = {}
  /\ work[rt] = NoWork
  /\ scanning' = scanning \ {rt}
  /\ UNCHANGED scan

-----------------------------------------------------------------------------
(* Runtimes: boot, lease heartbeat, planned shutdown, crash.               *)

\* The constructor writes the lease, then scans reservations.
Boot(rt) ==
  /\ runtime[rt] = "NEW"
  /\ runtime' = [runtime EXCEPT ![rt] = "BOOTING"]
  /\ lease' = [lease EXCEPT ![rt] = "FRESH"]
  /\ BeginScan(rt)
  /\ UNCHANGED <<taskVars, startVars, snapshot, operation, callVars, phase,
                 memVars, child, killed, work, handler, stopping>>

\* Mutant: the constructor does not wait for the pass over the reservations.
BootDoneUnscanned(rt) ==
  /\ runtime[rt] = "BOOTING" /\ work[rt] = NoWork
  /\ runtime' = [runtime EXCEPT ![rt] = "UP"]
  /\ scanning' = scanning \ {rt}
  /\ scan' = [scan EXCEPT ![rt] = {}]
  /\ UNCHANGED <<taskVars, startVars, snapshot, operation, lease, callVars,
                 phase, memVars, child, killed, work, handler, stopping>>

BootDone(rt) ==
  /\ runtime[rt] = "BOOTING" /\ EndScan(rt)
  /\ runtime' = [runtime EXCEPT ![rt] = "UP"]
  /\ UNCHANGED <<taskVars, startVars, snapshot, operation, lease, callVars,
                 phase, memVars, child, killed, work, handler, stopping>>

\* No heartbeat for leaseStaleMs although the process exists (a blocked event
\* loop, a suspended host).
LeaseExpires(rt) ==
  /\ "STALE" \in Disturbances
  /\ Live(rt) /\ lease[rt] = "FRESH"
  /\ lease' = [lease EXCEPT ![rt] = "STALE"]
  /\ UNCHANGED <<taskVars, startVars, snapshot, operation, runtime, callVars,
                 phase, memVars, child, killed, work, handler, stopping,
                 scanVars>>

Heartbeat(rt) ==
  /\ Idle(rt) /\ lease[rt] = "STALE"
  /\ lease' = [lease EXCEPT ![rt] = "FRESH"]
  /\ UNCHANGED <<taskVars, startVars, snapshot, operation, runtime, callVars,
                 phase, memVars, child, killed, work, handler, stopping,
                 scanVars>>

Owned(rt) ==
  {r \in handles : owner[r] = rt /\ record[r] \in Active}

\* record.cancel_requested = true; record.status = "CANCELLING".
AskCancel(runs) ==
  /\ record' = [r \in Runs |-> IF r \in runs THEN "CANCELLING" ELSE record[r]]
  /\ cancelAsked' = cancelAsked \union runs

PersistCancelling(runs) ==
  snapshot' = [r \in Runs |-> IF r \in runs THEN "CANCELLING" ELSE snapshot[r]]

\* SIGTERM or SIGINT: every owned RUNNING Run becomes CANCELLING and all owned
\* Runs are signalled.
ShutdownBegin(rt) ==
  LET running == {r \in Owned(rt) : record[r] = "RUNNING"} IN
  /\ "SHUTDOWN" \in Disturbances
  /\ runtime[rt] = "UP" /\ Idle(rt)
  /\ runtime' = [runtime EXCEPT ![rt] = "STOPPING"]
  /\ stopping' = [stopping EXCEPT ![rt] = Owned(rt)]
  /\ AskCancel(running) /\ PersistCancelling(running)
  /\ UNCHANGED <<taskVars, startVars, operation, lease, callVars, phase,
                 handles, child, killed, work, handler, scanVars>>

\* After the grace period.
ShutdownKill(rt, r) ==
  /\ runtime[rt] = "STOPPING" /\ Idle(rt)
  /\ r \in stopping[rt] \intersect Owned(rt)
  /\ r \notin killed
  /\ killed' = killed \union {r}
  /\ UNCHANGED <<taskVars, startVars, snapshot, operation, runtimeVars,
                 callVars, phase, memVars, child, work, handler>>

\* Mutant: the shutdown waits until every owned child has closed.
ReleaseLeaseWhenQuiet(rt) ==
  /\ runtime[rt] = "STOPPING" /\ Idle(rt)
  /\ stopping[rt] \intersect Owned(rt) = {}
  /\ runtime' = [runtime EXCEPT ![rt] = "RELEASED"]
  /\ lease' = [lease EXCEPT ![rt] = "NONE"]
  /\ UNCHANGED <<taskVars, startVars, snapshot, operation, callVars, phase,
                 memVars, child, killed, work, handler, stopping, scanVars>>

\* After the second wait the lease goes, even if a killed child has not closed.
ReleaseLease(rt) ==
  /\ runtime[rt] = "STOPPING" /\ Idle(rt)
  /\ stopping[rt] \intersect Owned(rt) \subseteq killed
  /\ runtime' = [runtime EXCEPT ![rt] = "RELEASED"]
  /\ lease' = [lease EXCEPT ![rt] = "NONE"]
  /\ UNCHANGED <<taskVars, startVars, snapshot, operation, callVars, phase,
                 memVars, child, killed, work, handler, stopping, scanVars>>

\* A crash at any point, and the exit that ends a planned shutdown.  Children
\* are detached: they survive.  A crashed runtime's lease file stays and ages.
Crash(rt) ==
  /\ Live(rt)
  /\ "CRASH" \in Disturbances \/ runtime[rt] = "RELEASED"
  /\ runtime' = [runtime EXCEPT ![rt] = "DOWN"]
  /\ lease' = [lease EXCEPT ![rt] = IF @ = "NONE" THEN "NONE" ELSE "STALE"]
  /\ record' = [r \in Runs |-> IF owner[r] = rt THEN "NONE" ELSE record[r]]
  /\ handles' = {r \in handles : owner[r] # rt}
  /\ cancelAsked' = {r \in cancelAsked : owner[r] # rt}
  /\ phase' = [r \in Runs |-> IF owner[r] = rt THEN "DONE" ELSE phase[r]]
  /\ work' = [work EXCEPT ![rt] = NoWork]
  /\ handler' = [handler EXCEPT ![rt] = "NONE"]
  /\ stopping' = [stopping EXCEPT ![rt] = {}]
  /\ scanning' = scanning \ {rt} /\ scan' = [scan EXCEPT ![rt] = {}]
  /\ doomed' = [r \in Runs |-> IF owner[r] = rt THEN {} ELSE doomed[r]]
  /\ UNCHANGED <<taskVars, startVars, snapshot, operation, owner, key, child,
                 killed>>

-----------------------------------------------------------------------------
(* process.start                                                           *)

\* The idempotency lookup finds nothing; the recovery of reservations begins.
\* (A lookup that finds an operation replays it and changes nothing.)
CallStart(rt, r, k) ==
  /\ Idle(rt) /\ owner[r] = NoRuntime
  /\ k # NoKey => operation[k] = NoOp
  /\ owner' = [owner EXCEPT ![r] = rt]
  /\ key' = [key EXCEPT ![r] = k]
  /\ phase' = [phase EXCEPT ![r] = "ENTERED"]
  /\ BeginScan(rt)
  /\ UNCHANGED <<taskVars, startVars, snapshot, operation, lease, runtime,
                 stopping, doomed, memVars, child, killed, work, handler>>

\* After it the Task must be ACTIVE; then the call awaits path resolution.
Admit(r) ==
  /\ phase[r] = "ENTERED" /\ EndScan(owner[r])
  /\ phase' = [phase EXCEPT ![r] = IF TaskActive THEN "CALLED" ELSE "DONE"]
  /\ UNCHANGED <<taskVars, startVars, snapshot, operation, lease, runtime,
                 stopping, callVars, memVars, child, killed, work, handler>>

\* A bad path, a missing approval, or a Task that is no longer ACTIVE.
RefuseStart(rt, r) ==
  /\ Idle(rt) /\ owner[r] = rt /\ phase[r] = "CALLED"
  /\ phase' = [phase EXCEPT ![r] = "DONE"]
  /\ UNCHANGED <<taskVars, startVars, snapshot, operation, runtimeVars,
                 callVars, memVars, child, killed, work, handler>>

\* Mutant: the reservation trusts the check made before the await.
ReserveUnchecked(rt, r) ==
  /\ Idle(rt) /\ owner[r] = rt /\ phase[r] = "CALLED"
  /\ pending' = pending \union {r}
  /\ phase' = [phase EXCEPT ![r] = IF key[r] = NoKey THEN "CLAIMED"
                                   ELSE "RESERVED"]
  /\ UNCHANGED <<taskVars, linked, snapshot, operation, runtimeVars, callVars,
                 memVars, child, killed, work, handler>>

\* reserveProcessStart, in a transaction that re-reads the Task.
Reserve(rt, r) ==
  /\ Idle(rt) /\ owner[r] = rt /\ phase[r] = "CALLED"
  /\ TaskActive
  /\ pending' = pending \union {r}
  /\ phase' = [phase EXCEPT ![r] = IF key[r] = NoKey THEN "CLAIMED"
                                   ELSE "RESERVED"]
  /\ UNCHANGED <<taskVars, linked, snapshot, operation, runtimeVars, callVars,
                 memVars, child, killed, work, handler>>

\* Mutant: an operation in flight is listed like a terminal one.
ListedInFlight(r) ==
  \E old \in SUBSET {k \in Keys : operation[k] # NoOp} :
    doomed' = [doomed EXCEPT ![r] = old]

\* The terminal operations that a prune lists to delete: those past the
\* retention period, or the oldest while the store is full.
Listed(r) ==
  \E old \in SUBSET {k \in Keys : operation[k].status \in Terminal} :
    doomed' = [doomed EXCEPT ![r] = old]

\* Runtimes prune one after the other, unless they OVERLAP.
MayPrune(r) ==
  "OVERLAP" \in Disturbances \/ \A q \in Runs \ {r} : phase[q] \notin Pruning

\* claim() first prunes: it lists and deletes by age, ...
PruneByAge(r) ==
  /\ phase[r] = "RESERVED" /\ MayPrune(r)
  /\ Listed(r)
  /\ phase' = [phase EXCEPT ![r] = "EXPIRING"]
  /\ UNCHANGED <<taskVars, startVars, snapshot, operation, runtimeVars, owner,
                 key, memVars, child, killed, work, handler>>

\* ... then it lists and deletes by number.
PruneByNumber(r) ==
  /\ phase[r] = "EXPIRING" /\ doomed[r] = {}
  /\ Listed(r)
  /\ phase' = [phase EXCEPT ![r] = "TRIMMING"]
  /\ UNCHANGED <<taskVars, startVars, snapshot, operation, runtimeVars, owner,
                 key, memVars, child, killed, work, handler>>

\* deleteDocument: whatever the operation has become since it was listed.
PruneDelete(r, k) ==
  /\ k \in doomed[r]
  /\ operation' = [operation EXCEPT ![k] = NoOp]
  /\ doomed' = [doomed EXCEPT ![r] = @ \ {k}]
  /\ UNCHANGED <<taskVars, startVars, snapshot, runtimeVars, owner, key, phase,
                 memVars, child, killed, work, handler>>

ClaimWins(r) ==
  /\ phase[r] = "TRIMMING" /\ doomed[r] = {}
  /\ operation[key[r]] = NoOp
  /\ operation' = [operation EXCEPT ![key[r]] =
                     [run |-> r, status |-> "CLAIMED"]]
  /\ phase' = [phase EXCEPT ![r] = "CLAIMED"]
  /\ UNCHANGED <<taskVars, startVars, snapshot, runtimeVars, callVars, memVars,
                 child, killed, work, handler>>

\* Another start holds the key, or claim() throws: the store fails, or it is
\* full of operations in flight.
ClaimFails(r) ==
  /\ phase[r] \in {"RESERVED"} \union Pruning
  /\ phase' = [phase EXCEPT ![r] = "RELEASING"]
  /\ doomed' = [doomed EXCEPT ![r] = {}]
  /\ UNCHANGED <<taskVars, startVars, snapshot, operation, runtimeVars, owner,
                 key, memVars, child, killed, work, handler>>

\* A STILLBORN child is a spawn that reports its failure by an 'error' event.
Spawn(r) ==
  /\ phase[r] = "CLAIMED"
  /\ \E outcome \in {"ALIVE", "STILLBORN"} :
       child' = [child EXCEPT ![r] = outcome]
  /\ record' = [record EXCEPT ![r] = "RUNNING"]
  /\ handles' = handles \union {r}
  /\ phase' = [phase EXCEPT ![r] = "SPAWNED"]
  /\ UNCHANGED <<taskVars, startVars, snapshot, operation, runtimeVars,
                 callVars, cancelAsked, killed, work, handler>>

SpawnThrows(r) ==
  /\ phase[r] = "CLAIMED"
  /\ phase' = [phase EXCEPT ![r] = "RELEASING"]
  /\ UNCHANGED <<taskVars, startVars, snapshot, operation, runtimeVars,
                 callVars, memVars, child, killed, work, handler>>

\* releaseProcessStart; the operation, if this start claimed it, is then marked
\* FAILED.
Release(r) ==
  /\ phase[r] = "RELEASING"
  /\ pending' = pending \ {r}
  /\ phase' = [phase EXCEPT ![r] = "DONE"]
  /\ work' = [work EXCEPT ![owner[r]] = MarkLater(r, "FAILED")]
  /\ UNCHANGED <<taskVars, linked, snapshot, operation, runtimeVars, callVars,
                 memVars, child, killed, handler>>

Persist(r) ==
  /\ phase[r] = "SPAWNED"
  /\ snapshot' = [snapshot EXCEPT ![r] = "RUNNING"]
  /\ phase' = [phase EXCEPT ![r] = "PERSISTED"]
  /\ UNCHANGED <<taskVars, startVars, operation, runtimeVars, callVars,
                 memVars, child, killed, work, handler>>

\* addProcess({reserved: true}): ACTIVE is asserted first, then the reservation.
CanRegister(r) == TaskActive /\ r \in pending

Register(r) ==
  /\ phase[r] = "PERSISTED"
  /\ CanRegister(r)
  /\ pending' = pending \ {r}
  /\ linked' = linked \union {r}
  /\ phase' = [phase EXCEPT ![r] = "DONE"]
  /\ work' = [work EXCEPT ![owner[r]] = MarkLater(r, "RUNNING")]
  /\ UNCHANGED <<taskVars, snapshot, operation, runtimeVars, callVars, memVars,
                 child, killed, handler>>

\* Persisting or registering threw: the start is aborted.
RegistrationFails(r) ==
  /\ \/ phase[r] = "SPAWNED" /\ StorageFaults
     \/ phase[r] = "PERSISTED" /\ (StorageFaults \/ ~CanRegister(r))
  /\ AskCancel({r})
  /\ phase' = [phase EXCEPT ![r] = "ABORTED"]
  /\ UNCHANGED <<taskVars, startVars, snapshot, operation, runtimeVars,
                 callVars, handles, child, killed, work, handler>>

-----------------------------------------------------------------------------
(* abortUnregisteredStart                                                  *)

\* A guarded write of the snapshot: skipped if the start never persisted one,
\* lost if the store throws.
TrySnapshot(r, status) ==
  \/ /\ snapshot[r] # "NONE"
     /\ snapshot' = [snapshot EXCEPT ![r] = status]
  \/ /\ snapshot[r] = "NONE" \/ StorageFaults
     /\ UNCHANGED snapshot

\* Mutant: FAILED is persisted when the signal is sent.
AbortSignalAsFailed(r) ==
  /\ phase[r] = "ABORTED"
  /\ TrySnapshot(r, "FAILED")
  /\ phase' = [phase EXCEPT ![r] = "ABORTING"]
  /\ UNCHANGED <<taskVars, startVars, operation, runtimeVars, callVars,
                 memVars, child, killed, work, handler>>

\* CANCELLING is persisted and SIGTERM sent; then the abort awaits the close.
AbortSignal(r) ==
  /\ phase[r] = "ABORTED"
  /\ TrySnapshot(r, "CANCELLING")
  /\ phase' = [phase EXCEPT ![r] = "ABORTING"]
  /\ UNCHANGED <<taskVars, startVars, operation, runtimeVars, callVars,
                 memVars, child, killed, work, handler>>

AbortKill(rt, r) ==
  /\ Idle(rt) /\ owner[r] = rt /\ phase[r] = "ABORTING"
  /\ r \notin killed
  /\ killed' = killed \union {r}
  /\ UNCHANGED <<taskVars, startVars, snapshot, operation, runtimeVars,
                 callVars, phase, memVars, child, work, handler>>

\* Mutant: the abort listens to close only, not to error.
AbortClosedOnly(rt, r) ==
  /\ Idle(rt) /\ owner[r] = rt /\ phase[r] = "ABORTING"
  /\ child[r] = "ENDED"
  /\ TrySnapshot(r, "FAILED")
  /\ child' = [child EXCEPT ![r] = "CLOSED"]
  /\ record' = [record EXCEPT ![r] = "FAILED"]
  /\ handles' = handles \ {r}
  /\ phase' = [phase EXCEPT ![r] = "FINALIZING"]
  /\ UNCHANGED <<taskVars, startVars, operation, runtimeVars, callVars,
                 cancelAsked, killed, work, handler>>

\* finalize(), called by the child's close (or by its error, for a child that
\* never ran).
AbortClosed(rt, r) ==
  /\ Idle(rt) /\ owner[r] = rt /\ phase[r] = "ABORTING"
  /\ child[r] \in {"ENDED", "STILLBORN"}
  /\ TrySnapshot(r, "FAILED")
  /\ child' = [child EXCEPT ![r] = "CLOSED"]
  /\ record' = [record EXCEPT ![r] = "FAILED"]
  /\ handles' = handles \ {r}
  /\ phase' = [phase EXCEPT ![r] = "FINALIZING"]
  /\ UNCHANGED <<taskVars, startVars, operation, runtimeVars, callVars,
                 cancelAsked, killed, work, handler>>

\* The rest of finalize(): link the persisted Run, else release the
\* reservation, else leave it; forget the record.
Finalize(r) ==
  LET linkable == snapshot[r] # "NONE" /\ CanRegister(r) IN
  /\ phase[r] = "FINALIZING"
  /\ \/ /\ linkable
        /\ linked' = linked \union {r}
        /\ pending' = pending \ {r}
     \/ /\ ~linkable \/ StorageFaults
        /\ pending' = pending \ {r}
        /\ UNCHANGED linked
     \/ /\ StorageFaults
        /\ UNCHANGED startVars
  /\ record' = [record EXCEPT ![r] = "NONE"]
  /\ cancelAsked' = cancelAsked \ {r}
  /\ phase' = [phase EXCEPT ![r] = "DONE"]
  /\ work' = [work EXCEPT ![owner[r]] = MarkLater(r, "FAILED")]
  /\ UNCHANGED <<taskVars, snapshot, operation, runtimeVars, callVars, handles,
                 child, killed, handler>>

-----------------------------------------------------------------------------
(* The child and the events of a registered Run                            *)

ChildExits(r) ==
  /\ child[r] = "ALIVE"
  /\ child' = [child EXCEPT ![r] = "ENDED"]
  /\ UNCHANGED <<taskVars, startVars, snapshot, operation, runtimeVars,
                 callVars, phase, memVars, killed, work, handler>>

\* rt holds the handlers attached at the end of start().
Listens(rt, r) ==
  /\ Idle(rt) /\ owner[r] = rt /\ phase[r] = "DONE"
  /\ record[r] # "NONE"

\* record := status; persist; syncIdempotency.
Settle(rt, r, status) ==
  /\ record' = [record EXCEPT ![r] = status]
  /\ handles' = handles \ {r}
  /\ snapshot' = [snapshot EXCEPT ![r] = status]
  /\ work' = [work EXCEPT ![rt] = MarkLater(r, status)]

OnError(rt, r) ==
  /\ Listens(rt, r) /\ child[r] = "STILLBORN"
  /\ child' = [child EXCEPT ![r] = "ENDED"]
  /\ Settle(rt, r, "FAILED")
  /\ UNCHANGED <<taskVars, startVars, operation, runtimeVars, callVars, phase,
                 cancelAsked, killed, handler>>

CloseStatus(r) ==
  IF r \in cancelAsked THEN "CANCELLED"
  ELSE IF record[r] = "FAILED" THEN "FAILED"
  ELSE "EXITED"

OnClose(rt, r) ==
  /\ Listens(rt, r) /\ child[r] = "ENDED"
  /\ child' = [child EXCEPT ![r] = "CLOSED"]
  /\ Settle(rt, r, CloseStatus(r))
  /\ UNCHANGED <<taskVars, startVars, operation, runtimeVars, callVars, phase,
                 cancelAsked, killed, handler>>

\* Every output chunk persists the whole record, its status included.
OnOutput(rt, r) ==
  /\ Listens(rt, r) /\ child[r] \in {"ALIVE", "ENDED"}
  /\ snapshot[r] # record[r]
  /\ snapshot' = [snapshot EXCEPT ![r] = record[r]]
  /\ UNCHANGED <<taskVars, startVars, operation, runtimeVars, callVars, phase,
                 memVars, child, killed, work, handler>>

\* process.cancel.  A Run of another live runtime is refused and a terminal one
\* is returned as it is, so only the owner's own RUNNING record is signalled.
Cancel(rt, r) ==
  /\ Listens(rt, r) /\ record[r] = "RUNNING"
  /\ AskCancel({r}) /\ PersistCancelling({r})
  /\ UNCHANGED <<taskVars, startVars, operation, runtimeVars, callVars, phase,
                 handles, child, killed, work, handler>>

-----------------------------------------------------------------------------
(* Runs of other runtimes                                                  *)

\* Mutant: terminal snapshots are restored too.
ReadForeignAny(rt, r) ==
  /\ Idle(rt) /\ ~InMemory(rt, r) /\ snapshot[r] # "NONE"
  /\ work' = [work EXCEPT ![rt] =
                [step |-> "RESTORE", run |-> r, status |-> "NONE"]]
  /\ UNCHANGED <<taskVars, startVars, snapshot, operation, runtimeVars,
                 callVars, phase, memVars, child, killed, handler>>

\* #get of a Run that is not in memory reads its snapshot; an active one is
\* judged by its owner's lease in a later step.
ReadForeign(rt, r) ==
  /\ Idle(rt) /\ ~InMemory(rt, r) /\ snapshot[r] \in Active
  /\ work' = [work EXCEPT ![rt] =
                [step |-> "RESTORE", run |-> r, status |-> "NONE"]]
  /\ UNCHANGED <<taskVars, startVars, snapshot, operation, runtimeVars,
                 callVars, phase, memVars, child, killed, handler>>

Lost(rt, r) == OwnerState(rt, owner[r]) \in {"LOCAL", "DEAD"}

\* #restore: a Run whose owner is dead, or is this runtime without a child
\* handle, becomes INTERRUPTED; otherwise it is remote.
Restore(rt) ==
  LET r == work[rt].run IN
  /\ work[rt].step = "RESTORE"
  /\ IF Lost(rt, r)
     THEN /\ snapshot' = [snapshot EXCEPT ![r] = "INTERRUPTED"]
          /\ work' = [work EXCEPT ![rt] = MarkLater(r, "INTERRUPTED")]
     ELSE /\ work' = [work EXCEPT ![rt] = NoWork]
          /\ UNCHANGED snapshot
  /\ UNCHANGED <<taskVars, startVars, operation, runtimeVars, callVars, phase,
                 memVars, child, killed, handler>>

\* A visit of the scan: register the Run of the dead owner, then restore it.
RecoverPending(rt, r) ==
  /\ Visiting(rt, r)
  /\ Recoverable(rt, r) /\ CanRegister(r)
  /\ pending' = pending \ {r}
  /\ linked' = linked \union {r}
  /\ work' = [work EXCEPT ![rt] =
                IF snapshot[r] \in Active
                THEN [step |-> "RESTORE", run |-> r, status |-> "NONE"]
                ELSE NoWork]
  /\ UNCHANGED <<taskVars, snapshot, operation, lease, runtime, stopping,
                 callVars, phase, memVars, child, killed, handler>>

\* Mutant: the scan drops a reservation that it cannot recover.
PassOverDropping(rt, r) ==
  /\ Visiting(rt, r)
  /\ StorageFaults \/ ~(Recoverable(rt, r) /\ CanRegister(r))
  /\ pending' = pending \ {r}
  /\ UNCHANGED <<taskVars, linked, snapshot, operation, lease, runtime,
                 stopping, callVars, phase, memVars, child, killed, work,
                 handler>>

\* A visit that finds nothing to recover, or throws: the reservation stays.
PassOver(rt, r) ==
  /\ Visiting(rt, r)
  /\ StorageFaults \/ ~(Recoverable(rt, r) /\ CanRegister(r))
  /\ UNCHANGED <<taskVars, startVars, snapshot, operation, lease, runtime,
                 stopping, callVars, phase, memVars, child, killed, work,
                 handler>>

\* The restore of a Run that the scan has just registered throws.
RecoveryFails(rt) ==
  /\ StorageFaults
  /\ rt \in scanning /\ work[rt] # NoWork
  /\ work' = [work EXCEPT ![rt] = NoWork]
  /\ UNCHANGED <<taskVars, startVars, snapshot, operation, runtimeVars,
                 callVars, phase, memVars, child, killed, handler>>

\* IdempotencyService.mark: only if the operation is still this Run's.
Mark(rt) ==
  LET r == work[rt].run IN
  /\ work[rt].step = "MARK"
  /\ operation' = IF operation[key[r]].run = r
                  THEN [operation EXCEPT ![key[r]] =
                          [run |-> r, status |-> work[rt].status]]
                  ELSE operation
  /\ work' = [work EXCEPT ![rt] = NoWork]
  /\ UNCHANGED <<taskVars, startVars, snapshot, runtimeVars, callVars, phase,
                 memVars, child, killed, handler>>

-----------------------------------------------------------------------------
(* The Task lifecycle handlers.  Each is a check, one or more awaits, and a *)
(* transaction; a runtime has at most one of them in flight here.  The check *)
(* begins with a scan, as does every tool that lists the Runs of a Task.     *)

Scan(rt) ==
  /\ Idle(rt) /\ BeginScan(rt)
  /\ UNCHANGED <<taskVars, startVars, snapshot, operation, lease, runtime,
                 stopping, callVars, phase, memVars, child, killed, work,
                 handler>>

\* The scan of a tool, not that of the constructor or of a start, has ended.
ScanReturns(rt) ==
  /\ EndScan(rt) /\ runtime[rt] # "BOOTING"
  /\ \A r \in Runs : owner[r] = rt => phase[r] \notin SyncPhases
  /\ UNCHANGED <<lease, runtime, stopping>>

\* The tool answers, or refuses what it was asked for.
ScanAnswers(rt) ==
  /\ ScanReturns(rt)
  /\ UNCHANGED <<taskVars, startVars, snapshot, operation, callVars, phase,
                 memVars, child, killed, work, handler>>

\* activeForTask is empty: the #get of each linked Run finds no active one
\* (Runs of dead owners have become INTERRUPTED by then).
NoActiveRun(rt) == \A r \in linked : View(rt, r) \notin Active

Enter(rt, step) ==
  /\ step \in Handlers
  /\ ScanReturns(rt) /\ handler[rt] = "NONE"
  /\ handler' = [handler EXCEPT ![rt] = step]

FinishCheck(rt) ==
  /\ Enter(rt, "FINISH")
  /\ TaskActive
  /\ NoActiveRun(rt)
  /\ UNCHANGED <<taskVars, startVars, snapshot, operation, callVars, phase,
                 memVars, child, killed, work>>

\* Mutant: the transaction does not look at the reservations.
FinishCommitBlind(rt) ==
  /\ Idle(rt) /\ handler[rt] = "FINISH"
  /\ TaskActive
  /\ task' = "COMPLETED"
  /\ handler' = [handler EXCEPT ![rt] = "NONE"]
  /\ UNCHANGED <<worktree, cleaned, startVars, snapshot, operation,
                 runtimeVars, callVars, phase, memVars, child, killed, work>>

\* TaskService.finish: ACTIVE and no reservation, re-read in the transaction.
FinishCommit(rt) ==
  /\ Idle(rt) /\ handler[rt] = "FINISH"
  /\ TaskActive /\ pending = {}
  /\ task' = "COMPLETED"
  /\ handler' = [handler EXCEPT ![rt] = "NONE"]
  /\ UNCHANGED <<worktree, cleaned, startVars, snapshot, operation,
                 runtimeVars, callVars, phase, memVars, child, killed, work>>

\* cancelAllForTask: every linked RUNNING Run of this runtime is cancelled; an
\* active Run of another live runtime makes it throw.
CancelSweep(rt) ==
  LET swept == {r \in linked : InMemory(rt, r) /\ record[r] = "RUNNING"}
  IN
  /\ Enter(rt, "CANCEL")
  /\ TaskActive
  /\ \A r \in linked : View(rt, r) \in Active => InMemory(rt, r)
  /\ AskCancel(swept) /\ PersistCancelling(swept)
  /\ UNCHANGED <<taskVars, startVars, operation, callVars, phase, handles,
                 child, killed, work>>

\* TaskService.cancel returns an already CANCELLED Task unchanged.
CancelCommit(rt) ==
  /\ Idle(rt) /\ handler[rt] = "CANCEL"
  /\ task # "CANCELLED" => task = "ACTIVE" /\ pending = {}
  /\ task' = "CANCELLED"
  /\ handler' = [handler EXCEPT ![rt] = "NONE"]
  /\ UNCHANGED <<worktree, cleaned, startVars, snapshot, operation,
                 runtimeVars, callVars, phase, memVars, child, killed, work>>

\* task.cleanup checks for active Runs before anything else.
CleanupCheck(rt) ==
  /\ Enter(rt, "CLEANUP")
  /\ NoActiveRun(rt)
  /\ UNCHANGED <<taskVars, startVars, snapshot, operation, callVars, phase,
                 memVars, child, killed, work>>

\* TaskService.cleanup: the Task is final, has no reservation and is not cleaned
\* yet; git then removes the worktree.
CleanupRemove(rt) ==
  /\ Idle(rt) /\ handler[rt] = "CLEANUP"
  /\ ~cleaned /\ task # "ACTIVE" /\ pending = {}
  /\ worktree' = FALSE
  /\ handler' = [handler EXCEPT ![rt] = "REMOVED"]
  /\ UNCHANGED <<task, cleaned, startVars, snapshot, operation, runtimeVars,
                 callVars, phase, memVars, child, killed, work>>

CleanupRecord(rt) ==
  /\ Idle(rt) /\ handler[rt] = "REMOVED"
  /\ cleaned' = TRUE
  /\ handler' = [handler EXCEPT ![rt] = "NONE"]
  /\ UNCHANGED <<task, worktree, startVars, snapshot, operation, runtimeVars,
                 callVars, phase, memVars, child, killed, work>>

\* Every other check of the handlers (open Plan, dirty worktree, evidence,
\* retention) refuses by throwing, as do the transactions.
HandlerThrows(rt) ==
  /\ Idle(rt) /\ handler[rt] # "NONE"
  /\ handler' = [handler EXCEPT ![rt] = "NONE"]
  /\ UNCHANGED <<taskVars, startVars, snapshot, operation, runtimeVars,
                 callVars, phase, memVars, child, killed, work>>

-----------------------------------------------------------------------------
RuntimeStep(rt) ==
  \/ Boot(rt) \/ BootDone(rt) \/ LeaseExpires(rt) \/ Heartbeat(rt)
  \/ ShutdownBegin(rt) \/ ReleaseLease(rt) \/ Crash(rt)
  \/ Restore(rt) \/ Mark(rt) \/ RecoveryFails(rt)

HandlerStep(rt) ==
  \/ Scan(rt) \/ ScanAnswers(rt)
  \/ FinishCheck(rt) \/ FinishCommit(rt) \/ CancelSweep(rt) \/ CancelCommit(rt)
  \/ CleanupCheck(rt) \/ CleanupRemove(rt) \/ CleanupRecord(rt)
  \/ HandlerThrows(rt)

StartStep(r) ==
  \/ Admit(r)
  \/ PruneByAge(r) \/ PruneByNumber(r) \/ \E k \in Keys : PruneDelete(r, k)
  \/ ClaimWins(r) \/ ClaimFails(r) \/ Spawn(r) \/ SpawnThrows(r) \/ Release(r)
  \/ Persist(r) \/ Register(r) \/ RegistrationFails(r)
  \/ AbortSignal(r) \/ Finalize(r) \/ ChildExits(r)

OwnerStep(rt, r) ==
  \/ \E k \in Keys \union {NoKey} : CallStart(rt, r, k)
  \/ RefuseStart(rt, r) \/ Reserve(rt, r)
  \/ ShutdownKill(rt, r) \/ AbortKill(rt, r) \/ AbortClosed(rt, r)
  \/ OnError(rt, r) \/ OnClose(rt, r) \/ OnOutput(rt, r) \/ Cancel(rt, r)
  \/ ReadForeign(rt, r) \/ RecoverPending(rt, r) \/ PassOver(rt, r)

Next ==
  \/ \E rt \in Runtimes : RuntimeStep(rt) \/ HandlerStep(rt)
  \/ \E r \in Runs : StartStep(r)
  \/ \E rt \in Runtimes, r \in Runs : OwnerStep(rt, r)

Spec == Init /\ [][Next]_vars

-----------------------------------------------------------------------------
(* Safety                                                                  *)

\* A Task that left ACTIVE has no start being registered: finish and cancel
\* re-read pending_process_starts in their transaction, and nothing may reserve
\* or recover a start afterwards.
FinalizedHasNoPending == task # "ACTIVE" => pending = {}

\* No child process runs that its Task does not know of, as a reservation or as
\* a linked Run, through every failed registration, crash and recovery.
NoUnaccountedChild ==
  \A r \in Runs : child[r] = "ALIVE" => r \in pending \union linked

\* A live child started under a key still holds that key's operation, unless
\* its owner lost its lease: retries cannot start a second child beside it.
\* docs/service-lifecycle.md: "Non-terminal records are never discarded merely
\* to make space".  So it is if runtimes prune one after the other.
LiveRunHoldsKey ==
  \A r \in Runs :
    child[r] = "ALIVE" /\ key[r] # NoKey /\ ~Dead(owner[r])
      => operation[key[r]].run = r

\* EXITED, FAILED and CANCELLED, in the snapshot or in the operation a retry
\* reads, are only reported of a child that is really gone.
OutcomeIsTruthful ==
  /\ \A r \in Runs : snapshot[r] \in Settled => child[r] # "ALIVE"
  /\ \A k \in Keys : operation[k].status \in Settled
                      => child[operation[k].run] # "ALIVE"

\* INTERRUPTED means that execution ownership is really lost: a stale lease, or
\* an observer in another runtime, never turns a Run that its owner still
\* holds into INTERRUPTED.
InterruptedOnlyWhenLost ==
  \A r \in Runs :
    snapshot[r] = "INTERRUPTED" => Dead(owner[r]) \/ record[r] = "NONE"

\* A published outcome is final: while its owner holds its lease it changes only
\* when the close of a child that failed after a cancel makes FAILED CANCELLED.
OutcomeIsFinal ==
  [][\A r \in Runs :
       snapshot[r] \in Terminal /\ snapshot'[r] # snapshot[r]
         => \/ Dead(owner[r])
            \/ /\ snapshot[r] = "FAILED" /\ snapshot'[r] = "CANCELLED"
               /\ r \in cancelAsked]_vars

(* The contract of RunAccounting, under this mapping.                      *)
Contract == INSTANCE RunAccounting WITH
  open      <- task = "ACTIVE",
  accounted <- pending \union linked,
  alive     <- {r \in Runs : child[r] = "ALIVE"}

\* reserveProcessStart, addProcess, releaseProcessStart and abort together keep
\* the Task's contract about child processes.
KeepsContract == Contract!Spec

(* What the refusal of task.cleanup says.                                   *)

\* server.js: task.cleanup waits "for running/cancelling processes to stop".
CleanedTaskIsQuiet == ~worktree => \A r \in Runs : snapshot[r] \notin Active

(* Fairness.  A synchronous region, a scan included, runs to its end unless  *)
(* the runtime dies; the event loop serves the timers of an abort and of a   *)
(* shutdown and the close of a child in turn, between other work (hence SF); *)
(* the kernel ends a SIGKILLed child.  Tool calls, boots and exits of a      *)
(* child by itself need never happen.                                        *)
SyncRegion(r) ==
  \/ Admit(r)
  \/ PruneByAge(r) \/ PruneByNumber(r) \/ \E k \in Keys : PruneDelete(r, k)
  \/ ClaimWins(r) \/ ClaimFails(r) \/ Spawn(r) \/ SpawnThrows(r) \/ Release(r)
  \/ Persist(r) \/ Register(r) \/ RegistrationFails(r)
  \/ AbortSignal(r) \/ Finalize(r)

ScanStep(rt) ==
  \/ \E r \in Runs : RecoverPending(rt, r) \/ PassOver(rt, r)
  \/ BootDone(rt) \/ ScanAnswers(rt)

ScanFairness(rt) ==
  WF_vars(ScanStep(rt)) /\ WF_vars(Restore(rt)) /\ WF_vars(Mark(rt))

Fairness ==
  /\ \A r \in Runs :
       WF_vars(SyncRegion(r)) /\ WF_vars(r \in killed /\ ChildExits(r))
  /\ \A rt \in Runtimes : ScanFairness(rt) /\ SF_vars(ReleaseLease(rt))
  /\ \A rt \in Runtimes, r \in Runs :
       /\ SF_vars(ShutdownKill(rt, r)) /\ SF_vars(AbortKill(rt, r))
       /\ SF_vars(AbortClosed(rt, r))

(* Liveness                                                                *)

\* A failed registration never hangs: its child is killed, closed and
\* forgotten, unless the runtime dies first.
AbortResolves ==
  \A r \in Runs : phase[r] = "ABORTING" ~> phase[r] = "DONE"

\* A planned shutdown ends, even with children that ignore SIGTERM.
ShutdownEnds ==
  \A rt \in Runtimes :
    runtime[rt] = "STOPPING" ~> runtime[rt] \in {"RELEASED", "DOWN"}
=============================================================================
