-------------------------- MODULE RunLifecycleProofs --------------------------
(* Proofs about RunLifecycle, for every set of runtimes, Runs and keys, every *)
(* choice of handlers and every combination of disturbances.                  *)
EXTENDS RunLifecycle, TLAPS

-----------------------------------------------------------------------------
(* Type correctness                                                          *)

\* The writes that several actions share keep their types.
LEMMA MarkLaterType ==
  ASSUME NEW r \in Runs, NEW status \in Status
  PROVE  MarkLater(r, status) \in Work
  BY DEF MarkLater, Work

LEMMA WorkRun ==
  ASSUME TypeOK, NEW rt \in Runtimes, work[rt] # NoWork
  PROVE  /\ work[rt].run \in Runs
         /\ work[rt].step = "MARK" => work[rt].status \in Status
  BY DEF TypeOK, Work

LEMMA TrySnapshotType ==
  ASSUME TypeOK, NEW r \in Runs, NEW status \in Status, TrySnapshot(r, status)
  PROVE  snapshot' \in [Runs -> Status \union {"NONE"}]
  BY DEF TypeOK, TrySnapshot

LEMMA AskCancelType ==
  ASSUME TypeOK, NEW S \in SUBSET Runs, AskCancel(S)
  PROVE  /\ record' \in [Runs -> Status \union {"NONE"}]
         /\ cancelAsked' \subseteq Runs
  BY DEF TypeOK, AskCancel, Status, Active

LEMMA PersistCancellingType ==
  ASSUME TypeOK, NEW S \in SUBSET Runs, PersistCancelling(S)
  PROVE  snapshot' \in [Runs -> Status \union {"NONE"}]
  BY DEF TypeOK, PersistCancelling, Status, Active

LEMMA ScanType ==
  ASSUME TypeOK, NEW rt \in Runtimes, NEW r,
         BeginScan(rt) \/ EndScan(rt) \/ Visiting(rt, r)
  PROVE  scanning' \subseteq Runtimes /\ scan' \in [Runtimes -> SUBSET Runs]
  BY DEF TypeOK, BeginScan, EndScan, Visiting

LEMMA ListedType ==
  ASSUME TypeOK, NEW r \in Runs, Listed(r)
  PROVE  doomed' \in [Runs -> SUBSET Keys]
  BY DEF TypeOK, Listed

LEMMA RuntimeStepType ==
  ASSUME TypeOK, NEW rt \in Runtimes, RuntimeStep(rt)
  PROVE  TypeOK'
<1> USE DEF TypeOK, taskVars, startVars, runtimeVars, callVars, memVars, scanVars
<1>1. CASE Boot(rt)          BY <1>1, ScanType DEF Boot
<1>2. CASE BootDone(rt)      BY <1>2, ScanType DEF BootDone
<1>3. CASE LeaseExpires(rt)  BY <1>3 DEF LeaseExpires
<1>4. CASE Heartbeat(rt)     BY <1>4 DEF Heartbeat
<1>5. CASE ShutdownBegin(rt)
  <2>1. Owned(rt) \subseteq Runs
    BY DEF Owned
  <2> QED BY <1>5, <2>1, AskCancelType, PersistCancellingType DEF ShutdownBegin
<1>6. CASE ReleaseLease(rt)  BY <1>6 DEF ReleaseLease
<1>7. CASE Crash(rt)         BY <1>7 DEF Crash, Work, Phases
<1>8. CASE Restore(rt)
  <2> DEFINE r == work[rt].run
  <2>1. CASE Lost(rt, r)
    <3>1. snapshot' \in [Runs -> Status \union {"NONE"}]
      BY <1>8, <2>1 DEF Restore, Status, Terminal
    <3>2. MarkLater(r, "INTERRUPTED") \in Work
      BY <1>8, WorkRun, MarkLaterType DEF Restore, NoWork, Status, Terminal
    <3> QED BY <1>8, <2>1, <3>1, <3>2 DEF Restore
  <2>2. CASE ~Lost(rt, r)
    BY <1>8, <2>2 DEF Restore, Work
  <2> QED BY <2>1, <2>2
<1>9. CASE Mark(rt)
  <2>1. work[rt].status \in Status /\ work[rt].run \in Runs
    BY <1>9, WorkRun DEF Mark, NoWork
  <2>2. operation' \in [Keys -> [run    : Runs \union {NoRun},
                                 status : Status \union {"ABSENT", "CLAIMED"}]]
    BY <1>9, <2>1 DEF Mark
  <2> QED BY <1>9, <2>2 DEF Mark, Work
<1>10. CASE RecoveryFails(rt) BY <1>10 DEF RecoveryFails, Work
<1> QED BY <1>1, <1>2, <1>3, <1>4, <1>5, <1>6, <1>7, <1>8, <1>9, <1>10
        DEF RuntimeStep

LEMMA HandlerStepType ==
  ASSUME TypeOK, NEW rt \in Runtimes, HandlerStep(rt)
  PROVE  TypeOK'
<1> USE DEF TypeOK, taskVars, startVars, runtimeVars, callVars, memVars, scanVars
<1>1. CASE FinishCheck(rt)
  BY <1>1, ScanType DEF FinishCheck, Enter, ScanReturns
<1>2. CASE FinishCommit(rt)   BY <1>2 DEF FinishCommit
<1>3. CASE CancelSweep(rt)
  <2> DEFINE swept == {r \in linked : InMemory(rt, r) /\ record[r] = "RUNNING"}
  <2>1. swept \subseteq Runs
    OBVIOUS
  <2> HIDE DEF swept
  <2>2. AskCancel(swept) /\ PersistCancelling(swept)
    BY <1>3 DEF CancelSweep, swept
  <2>3. /\ record' \in [Runs -> Status \union {"NONE"}]
        /\ cancelAsked' \subseteq Runs
        /\ snapshot' \in [Runs -> Status \union {"NONE"}]
    BY <2>1, <2>2, AskCancelType, PersistCancellingType
  <2>4. scanning' \subseteq Runtimes /\ scan' \in [Runtimes -> SUBSET Runs]
    BY <1>3, ScanType DEF CancelSweep, Enter, ScanReturns
  <2> QED BY <1>3, <2>3, <2>4 DEF CancelSweep, Enter, ScanReturns
<1>4. CASE CancelCommit(rt)   BY <1>4 DEF CancelCommit
<1>5. CASE CleanupCheck(rt)
  BY <1>5, ScanType DEF CleanupCheck, Enter, ScanReturns
<1>6. CASE CleanupRemove(rt)  BY <1>6 DEF CleanupRemove
<1>7. CASE CleanupRecord(rt)  BY <1>7 DEF CleanupRecord
<1>8. CASE HandlerThrows(rt)  BY <1>8 DEF HandlerThrows
<1>9. CASE Scan(rt)           BY <1>9, ScanType DEF Scan
<1>10. CASE ScanAnswers(rt)
  BY <1>10, ScanType DEF ScanAnswers, ScanReturns
<1> QED BY <1>1, <1>2, <1>3, <1>4, <1>5, <1>6, <1>7, <1>8, <1>9, <1>10
        DEF HandlerStep

LEMMA StartStepType ==
  ASSUME TypeOK, NEW r \in Runs, StartStep(r)
  PROVE  TypeOK'
<1> USE DEF TypeOK, taskVars, startVars, runtimeVars, callVars, memVars, scanVars
<1>a. MarkLater(r, "FAILED") \in Work /\ MarkLater(r, "RUNNING") \in Work
  BY MarkLaterType DEF Status, Active, Terminal, Settled
<1>b. {"CALLED", "EXPIRING", "TRIMMING", "CLAIMED", "RELEASING", "SPAWNED",
       "PERSISTED", "ABORTED", "ABORTING", "FINALIZING", "DONE"} \subseteq Phases
  BY DEF Phases, SyncPhases, Pruning
<1>c. {"RUNNING", "CANCELLING", "FAILED"} \subseteq Status
  BY DEF Status, Active, Terminal, Settled
<1>0. CASE Admit(r)
  <2>1. scanning' \subseteq Runtimes /\ scan' \in [Runtimes -> SUBSET Runs]
    BY <1>0 DEF Admit, EndScan
  <2> QED BY <1>0, <1>b, <2>1 DEF Admit
<1>1. CASE \E k \in Keys : PruneDelete(r, k)  BY <1>1 DEF PruneDelete, NoOp
<1>13. CASE PruneByAge(r)
  BY <1>13, <1>b, ListedType DEF PruneByAge
<1>14. CASE PruneByNumber(r)
  BY <1>14, <1>b, ListedType DEF PruneByNumber
<1>2. CASE ClaimWins(r)          BY <1>2, <1>b DEF ClaimWins
<1>3. CASE ClaimFails(r)         BY <1>3, <1>b DEF ClaimFails
<1>4. CASE Spawn(r)              BY <1>4, <1>b, <1>c DEF Spawn
<1>5. CASE SpawnThrows(r)        BY <1>5, <1>b DEF SpawnThrows
<1>6. CASE Release(r)            BY <1>6, <1>a, <1>b DEF Release
<1>7. CASE Persist(r)            BY <1>7, <1>b, <1>c DEF Persist
<1>8. CASE Register(r)           BY <1>8, <1>a, <1>b DEF Register
<1>9. CASE RegistrationFails(r)
  BY <1>9, <1>b, AskCancelType DEF RegistrationFails
<1>10. CASE AbortSignal(r)
  BY <1>10, <1>b, <1>c, TrySnapshotType DEF AbortSignal
<1>11. CASE Finalize(r)
  <2>1. pending' \subseteq Runs /\ linked' \subseteq Runs
    BY <1>11 DEF Finalize
  <2> QED BY <1>11, <2>1, <1>a, <1>b DEF Finalize
<1>12. CASE ChildExits(r)        BY <1>12 DEF ChildExits
<1> QED BY <1>0, <1>13, <1>14, <1>1, <1>2, <1>3, <1>4, <1>5, <1>6, <1>7, <1>8,
           <1>9, <1>10,
           <1>11, <1>12 DEF StartStep

LEMMA OwnerStepType ==
  ASSUME TypeOK, NEW rt \in Runtimes, NEW r \in Runs, OwnerStep(rt, r)
  PROVE  TypeOK'
<1> USE DEF TypeOK, taskVars, startVars, runtimeVars, callVars, memVars, scanVars
<1>b. {"ENTERED", "RESERVED", "CLAIMED", "FINALIZING", "DONE"} \subseteq Phases
  BY DEF Phases, SyncPhases
<1>c. {"RUNNING", "CANCELLING", "FAILED", "CANCELLED", "EXITED"} \subseteq Status
  BY DEF Status, Active, Terminal, Settled
<1>1. ASSUME NEW k \in Keys \union {NoKey}, CallStart(rt, r, k)
      PROVE  TypeOK'
  <2>1. scanning' \in SUBSET Runtimes /\ scan' \in [Runtimes -> SUBSET Runs]
    BY <1>1, ScanType DEF CallStart
  <2> QED BY <1>1, <1>b, <2>1 DEF CallStart
<1>2. CASE RefuseStart(rt, r)   BY <1>2, <1>b DEF RefuseStart
<1>3. CASE Reserve(rt, r)       BY <1>3, <1>b DEF Reserve
<1>4. CASE ShutdownKill(rt, r)  BY <1>4 DEF ShutdownKill
<1>5. CASE AbortKill(rt, r)     BY <1>5 DEF AbortKill
<1>6. CASE AbortClosed(rt, r)
  BY <1>6, <1>b, <1>c, TrySnapshotType DEF AbortClosed
<1>7. CASE OnError(rt, r)
  BY <1>7, <1>c, MarkLaterType DEF OnError, Settle
<1>8. CASE OnClose(rt, r)
  <2>1. CloseStatus(r) \in Status
    BY <1>c DEF CloseStatus
  <2> QED BY <1>8, <2>1, MarkLaterType DEF OnClose, Settle
<1>9. CASE OnOutput(rt, r)      BY <1>9 DEF OnOutput
<1>10. CASE Cancel(rt, r)
  BY <1>10, AskCancelType, PersistCancellingType DEF Cancel
<1>11. CASE ReadForeign(rt, r)  BY <1>11 DEF ReadForeign, Work
<1>12. CASE RecoverPending(rt, r)
  BY <1>12, ScanType DEF RecoverPending, Work
<1>13. CASE PassOver(rt, r)     BY <1>13, ScanType DEF PassOver
<1> QED BY <1>13, <1>1, <1>2, <1>3, <1>4, <1>5, <1>6, <1>7, <1>8, <1>9, <1>10,
           <1>11, <1>12 DEF OwnerStep

LEMMA InitType == Init => TypeOK
<1> SUFFICES ASSUME Init PROVE TypeOK
  OBVIOUS
<1>1. operation \in [Keys -> [run    : Runs \union {NoRun},
                             status : Status \union {"ABSENT", "CLAIMED"}]]
  BY DEF Init, NoOp
<1>2. work \in [Runtimes -> Work]
  BY DEF Init, Work
<1>3. "NONE" \in Phases
  BY DEF Phases
<1> QED BY <1>1, <1>2, <1>3 DEF Init, TypeOK

LEMMA NextType == TypeOK /\ [Next]_vars => TypeOK'
<1> SUFFICES ASSUME TypeOK, [Next]_vars PROVE TypeOK'
  OBVIOUS
<1>1. CASE Next
  BY <1>1, RuntimeStepType, HandlerStepType, StartStepType, OwnerStepType
  DEF Next
<1>2. CASE UNCHANGED vars
  BY <1>2 DEF TypeOK, vars
<1> QED BY <1>1, <1>2

\* Every step of every handler, crash and recovery keeps the durable records,
\* the in-memory records and the leases well formed.
THEOREM TypeCorrect == Spec => []TypeOK
  BY InitType, NextType, PTL DEF Spec

-----------------------------------------------------------------------------
(* Accounting of child processes.  FinalizedHasNoPending and                 *)
(* NoUnaccountedChild need to know that nothing exists of a Run before its   *)
(* Spawn, so that neither Release nor the recovery of another runtime can    *)
(* take a reservation from under a start, and that Finalize only forgets a   *)
(* child that has closed.                                                    *)

Unborn ==
  {"NONE", "ENTERED", "CALLED", "RESERVED", "EXPIRING", "TRIMMING", "CLAIMED",
   "RELEASING"}

UnbornIsClean ==
  \A r \in Runs :
    phase[r] \in Unborn =>
      child[r] = "NONE" /\ snapshot[r] = "NONE" /\ record[r] = "NONE"

StartIsReserved ==
  \A r \in Runs :
    phase[r] \in {"RESERVED", "EXPIRING", "TRIMMING", "CLAIMED"} => r \in pending

ForgottenIsClosed ==
  \A r \in Runs : phase[r] = "FINALIZING" => child[r] = "CLOSED"

RestoredHasSnapshot ==
  \A rt \in Runtimes :
    work[rt].step = "RESTORE" => snapshot[work[rt].run] # "NONE"

UnownedIsNew == \A r \in Runs : owner[r] = NoRuntime => phase[r] = "NONE"

IInv ==
  /\ UnownedIsNew /\ UnbornIsClean /\ StartIsReserved /\ ForgottenIsClosed
  /\ RestoredHasSnapshot
  /\ FinalizedHasNoPending /\ NoUnaccountedChild

\* A snapshot that a runtime has read is the snapshot of a Run.
LEMMA RestoredRun ==
  ASSUME TypeOK
  PROVE  \A rt \in Runtimes : work[rt].step = "RESTORE" => work[rt].run \in Runs
  BY WorkRun DEF NoWork

LEMMA MarkIsNotRestore ==
  ASSUME NEW r, NEW status
  PROVE  MarkLater(r, status).step # "RESTORE"
  BY DEF MarkLater, NoWork

LEMMA RuntimeStepIInv ==
  ASSUME TypeOK, IInv, NEW rt \in Runtimes, RuntimeStep(rt)
  PROVE  IInv'
<1> USE DEF IInv, UnownedIsNew, UnbornIsClean, StartIsReserved, ForgottenIsClosed,
            RestoredHasSnapshot, FinalizedHasNoPending, NoUnaccountedChild,
            TypeOK, taskVars, startVars, runtimeVars, callVars, memVars, scanVars
<1>1. CASE Boot(rt)          BY <1>1 DEF Boot
<1>2. CASE BootDone(rt)      BY <1>2 DEF BootDone
<1>3. CASE LeaseExpires(rt)  BY <1>3 DEF LeaseExpires
<1>4. CASE Heartbeat(rt)     BY <1>4 DEF Heartbeat
<1>5. CASE ShutdownBegin(rt)
  BY <1>5, RestoredRun DEF ShutdownBegin, AskCancel, PersistCancelling, Owned,
     Unborn
<1>6. CASE ReleaseLease(rt)  BY <1>6 DEF ReleaseLease
<1>7. CASE Crash(rt)         BY <1>7, SentinelsAssumption DEF Crash, Unborn,
                                NoWork
<1>8. CASE Restore(rt)
  <2>1. work[rt].run \in Runs
    BY <1>8, WorkRun DEF Restore, NoWork
  <2> QED BY <1>8, <2>1, MarkIsNotRestore, RestoredRun DEF Restore, NoWork
<1>9. CASE Mark(rt)          BY <1>9 DEF Mark, NoWork
<1>10. CASE RecoveryFails(rt) BY <1>10 DEF RecoveryFails, NoWork
<1> QED BY <1>1, <1>2, <1>3, <1>4, <1>5, <1>6, <1>7, <1>8, <1>9, <1>10
        DEF RuntimeStep

LEMMA HandlerStepIInv ==
  ASSUME TypeOK, IInv, NEW rt \in Runtimes, HandlerStep(rt)
  PROVE  IInv'
<1> USE DEF IInv, UnownedIsNew, UnbornIsClean, StartIsReserved, ForgottenIsClosed,
            RestoredHasSnapshot, FinalizedHasNoPending, NoUnaccountedChild,
            TypeOK, taskVars, startVars, runtimeVars, callVars, memVars, scanVars
<1>1. CASE FinishCheck(rt)    BY <1>1 DEF FinishCheck
<1>2. CASE FinishCommit(rt)   BY <1>2 DEF FinishCommit
<1>3. CASE CancelSweep(rt)
  BY <1>3, RestoredRun DEF CancelSweep, AskCancel, PersistCancelling, InMemory,
     Unborn
<1>4. CASE CancelCommit(rt)   BY <1>4 DEF CancelCommit
<1>5. CASE CleanupCheck(rt)   BY <1>5 DEF CleanupCheck
<1>6. CASE CleanupRemove(rt)  BY <1>6 DEF CleanupRemove
<1>7. CASE CleanupRecord(rt)  BY <1>7 DEF CleanupRecord
<1>8. CASE HandlerThrows(rt)  BY <1>8 DEF HandlerThrows
<1>9. CASE Scan(rt)           BY <1>9 DEF Scan
<1>10. CASE ScanAnswers(rt)   BY <1>10 DEF ScanAnswers
<1> QED BY <1>1, <1>2, <1>3, <1>4, <1>5, <1>6, <1>7, <1>8, <1>9, <1>10
        DEF HandlerStep

LEMMA StartStepIInv ==
  ASSUME TypeOK, IInv, NEW r \in Runs, StartStep(r)
  PROVE  IInv'
<1> USE DEF IInv, UnownedIsNew, UnbornIsClean, StartIsReserved, ForgottenIsClosed,
            RestoredHasSnapshot, FinalizedHasNoPending, NoUnaccountedChild,
            TypeOK, taskVars, startVars, runtimeVars, callVars, memVars, scanVars
<1>0. CASE Admit(r)             BY <1>0 DEF Admit, Unborn
<1>1. CASE \E k \in Keys : PruneDelete(r, k)  BY <1>1 DEF PruneDelete
<1>13. CASE PruneByAge(r) \/ PruneByNumber(r)
  BY <1>13 DEF PruneByAge, PruneByNumber, Unborn
<1>2. CASE ClaimWins(r)          BY <1>2 DEF ClaimWins, Unborn
<1>3. CASE ClaimFails(r)         BY <1>3 DEF ClaimFails, Pruning, Unborn
<1>4. CASE Spawn(r)              BY <1>4 DEF Spawn, Unborn
<1>5. CASE SpawnThrows(r)        BY <1>5 DEF SpawnThrows, Unborn
<1>6. CASE Release(r)
  BY <1>6, MarkIsNotRestore DEF Release, Unborn
<1>7. CASE Persist(r)            BY <1>7 DEF Persist, Unborn
<1>8. CASE Register(r)
  BY <1>8, MarkIsNotRestore DEF Register, CanRegister, TaskActive, Unborn
<1>9. CASE RegistrationFails(r)
  BY <1>9 DEF RegistrationFails, AskCancel, Unborn
<1>10. CASE AbortSignal(r)
  BY <1>10, RestoredRun DEF AbortSignal, TrySnapshot, Unborn
<1>11. CASE Finalize(r)
  BY <1>11, MarkIsNotRestore DEF Finalize, CanRegister, TaskActive, Unborn
<1>12. CASE ChildExits(r)        BY <1>12 DEF ChildExits, Unborn
<1> QED BY <1>0, <1>13, <1>1, <1>2, <1>3, <1>4, <1>5, <1>6, <1>7, <1>8, <1>9,
           <1>10,
           <1>11, <1>12 DEF StartStep

LEMMA OwnerStepIInv ==
  ASSUME TypeOK, IInv, NEW rt \in Runtimes, NEW r \in Runs, OwnerStep(rt, r)
  PROVE  IInv'
<1> USE DEF IInv, UnownedIsNew, UnbornIsClean, StartIsReserved, ForgottenIsClosed,
            RestoredHasSnapshot, FinalizedHasNoPending, NoUnaccountedChild,
            TypeOK, taskVars, startVars, runtimeVars, callVars, memVars, scanVars
<1>1. CASE \E k \in Keys \union {NoKey} : CallStart(rt, r, k)
  BY <1>1, SentinelsAssumption, RestoredRun DEF CallStart, Unborn
<1>2. CASE RefuseStart(rt, r)   BY <1>2, SentinelsAssumption DEF RefuseStart,
                                   Unborn
<1>3. CASE Reserve(rt, r)       BY <1>3, SentinelsAssumption DEF Reserve,
                                   TaskActive, Unborn
<1>4. CASE ShutdownKill(rt, r)  BY <1>4 DEF ShutdownKill
<1>5. CASE AbortKill(rt, r)     BY <1>5 DEF AbortKill
<1>6. CASE AbortClosed(rt, r)
  BY <1>6, SentinelsAssumption, RestoredRun
  DEF AbortClosed, TrySnapshot, Unborn
<1>7. CASE OnError(rt, r)
  BY <1>7, MarkIsNotRestore DEF OnError, Settle, Listens, Unborn
<1>8. CASE OnClose(rt, r)
  <2>1. CloseStatus(r) # "NONE"
    BY DEF CloseStatus
  <2> QED BY <1>8, <2>1, MarkIsNotRestore DEF OnClose, Settle, Listens, Unborn
<1>9. CASE OnOutput(rt, r)      BY <1>9 DEF OnOutput, Listens, Unborn
<1>10. CASE Cancel(rt, r)
  BY <1>10, RestoredRun DEF Cancel, Listens, AskCancel, PersistCancelling,
     Unborn
<1>11. CASE ReadForeign(rt, r)
  BY <1>11 DEF ReadForeign, Active
<1>12. CASE RecoverPending(rt, r)
  BY <1>12 DEF RecoverPending, Recoverable, CanRegister, TaskActive, Active,
               NoWork, Unborn
<1>13. CASE PassOver(rt, r)     BY <1>13 DEF PassOver
<1> QED BY <1>13, <1>1, <1>2, <1>3, <1>4, <1>5, <1>6, <1>7, <1>8, <1>9, <1>10,
           <1>11, <1>12 DEF OwnerStep

LEMMA InitIInv == Init => IInv
  BY DEF Init, IInv, UnownedIsNew, UnbornIsClean, StartIsReserved,
     ForgottenIsClosed,
         RestoredHasSnapshot, FinalizedHasNoPending, NoUnaccountedChild, NoWork

LEMMA NextIInv == TypeOK /\ IInv /\ [Next]_vars => IInv'
<1> SUFFICES ASSUME TypeOK, IInv, [Next]_vars PROVE IInv'
  OBVIOUS
<1>1. CASE Next
  BY <1>1, RuntimeStepIInv, HandlerStepIInv, StartStepIInv, OwnerStepIInv
  DEF Next
<1>2. CASE UNCHANGED vars
  BY <1>2 DEF vars, IInv, UnownedIsNew, UnbornIsClean, StartIsReserved,
     ForgottenIsClosed,
              RestoredHasSnapshot, FinalizedHasNoPending, NoUnaccountedChild
<1> QED BY <1>1, <1>2

LEMMA AlwaysIInv == Spec => [](TypeOK /\ IInv)
  BY InitType, NextType, InitIInv, NextIInv, PTL DEF Spec

\* task.finish and task.cancel never overtake a start that is being registered,
\* in any number of runtimes and through every crash.
THEOREM FinalizedTasksHaveNoPendingStart == Spec => []FinalizedHasNoPending
  BY AlwaysIInv, PTL DEF IInv

\* No step, crash or recovery leaves a child process that its Task does not
\* know of.
THEOREM EveryChildIsAccounted == Spec => []NoUnaccountedChild
  BY AlwaysIInv, PTL DEF IInv

-----------------------------------------------------------------------------
(* Refinement of RunAccounting.  Reserve is Account, Spawn is Launch,        *)
(* ChildExits is End, Release and Finalize are Forget, FinishCommit and      *)
(* CancelCommit are Close; every other step is Quiet.                        *)

Known == pending \union linked
Alive == {r \in Runs : child[r] = "ALIVE"}

Quiet ==
  /\ (task' = "ACTIVE") = (task = "ACTIVE")
  /\ Known' = Known
  /\ Alive' = Alive

ContractStep == [Contract!Next]_(Contract!avars)

LEMMA QuietStutters == ASSUME Quiet PROVE ContractStep
  BY DEF Quiet, ContractStep, Contract!avars, Known, Alive

LEMMA RuntimeStepQuiet ==
  ASSUME NEW rt \in Runtimes, RuntimeStep(rt)
  PROVE  Quiet
  BY DEF RuntimeStep, Boot, BootDone, LeaseExpires, Heartbeat, ShutdownBegin,
         ReleaseLease, Crash, Restore, Mark, RecoveryFails, Quiet, Known,
         Alive, taskVars, startVars

LEMMA HandlerStepContract ==
  ASSUME NEW rt \in Runtimes, HandlerStep(rt)
  PROVE  ContractStep
<1> USE DEF taskVars, startVars, runtimeVars
<1>1. CASE FinishCommit(rt) \/ (CancelCommit(rt) /\ task # "CANCELLED")
  <2>1. Contract!Close
    BY <1>1 DEF FinishCommit, CancelCommit, TaskActive, Contract!Close
  <2> QED BY <2>1 DEF ContractStep, Contract!Next
<1>2. CASE CancelCommit(rt) /\ task = "CANCELLED"
  <2>1. Quiet
    BY <1>2 DEF CancelCommit, Quiet, Known, Alive
  <2> QED BY <2>1, QuietStutters
<1>3. CASE \/ FinishCheck(rt) \/ CancelSweep(rt) \/ CleanupCheck(rt)
           \/ CleanupRemove(rt) \/ CleanupRecord(rt) \/ HandlerThrows(rt)
           \/ Scan(rt) \/ ScanAnswers(rt)
  <2>1. Quiet
    BY <1>3 DEF Scan, ScanAnswers, FinishCheck, CancelSweep, CleanupCheck,
       CleanupRemove,
                CleanupRecord, HandlerThrows, Quiet, Known, Alive
  <2> QED BY <2>1, QuietStutters
<1> QED BY <1>1, <1>2, <1>3 DEF HandlerStep

LEMMA StartStepContract ==
  ASSUME TypeOK, IInv, NEW r \in Runs, StartStep(r)
  PROVE  ContractStep
<1> USE DEF taskVars, startVars, runtimeVars
<1>1. CASE Spawn(r)
  <2>1. task = "ACTIVE" /\ r \in pending
    BY <1>1 DEF Spawn, IInv, StartIsReserved, FinalizedHasNoPending
  <2>2. CASE child'[r] = "ALIVE"
    <3>1. Alive' = Alive \union {r}
      BY <1>1, <2>2 DEF Spawn, Alive, TypeOK
    <3>2. Contract!Launch(r)
      BY <1>1, <2>1, <3>1 DEF Spawn, Contract!Launch, Alive
    <3> QED BY <3>2 DEF ContractStep, Contract!Next
  <2>3. CASE child'[r] # "ALIVE"
    <3>1. child[r] = "NONE"
      BY <1>1 DEF Spawn, IInv, UnbornIsClean, Unborn
    <3>2. Quiet
      BY <1>1, <2>3, <3>1 DEF Spawn, Quiet, Known, Alive, TypeOK
    <3> QED BY <3>2, QuietStutters
  <2> QED BY <2>2, <2>3
<1>2. CASE ChildExits(r)
  <2>1. Alive' = Alive \ {r}
    BY <1>2 DEF ChildExits, Alive, TypeOK
  <2>2. Contract!End(r)
    BY <1>2, <2>1 DEF ChildExits, Contract!End, Alive
  <2> QED BY <2>2 DEF ContractStep, Contract!Next
<1>3. CASE Release(r) \/ Finalize(r)
  <2>1. r \notin Alive /\ Alive' = Alive /\ task' = task
    BY <1>3 DEF Release, Finalize, Alive, IInv, UnbornIsClean, Unborn,
                ForgottenIsClosed
  <2>2. Known' = Known \/ Known' = Known \ {r}
    BY <1>3 DEF Release, Finalize, CanRegister, Known
  <2>3. CASE Known' = Known
    BY <2>1, <2>3, QuietStutters DEF Quiet
  <2>4. CASE Known' = Known \ {r}
    <3>1. Contract!Forget(r)
      BY <2>1, <2>4 DEF Contract!Forget, Known, Alive
    <3> QED BY <3>1 DEF ContractStep, Contract!Next
  <2> QED BY <2>2, <2>3, <2>4
<1>4. CASE Register(r)
  <2>1. Quiet
    BY <1>4 DEF Register, CanRegister, Quiet, Known, Alive
  <2> QED BY <2>1, QuietStutters
<1>5. CASE \/ Admit(r) \/ PruneByAge(r) \/ PruneByNumber(r)
           \/ \E k \in Keys : PruneDelete(r, k)
           \/ ClaimWins(r) \/ ClaimFails(r) \/ SpawnThrows(r) \/ Persist(r)
           \/ RegistrationFails(r) \/ AbortSignal(r)
  <2>1. Quiet
    BY <1>5 DEF Admit, PruneByAge, PruneByNumber, PruneDelete, ClaimWins,
       ClaimFails, SpawnThrows, Persist,
                RegistrationFails, AbortSignal, Quiet, Known, Alive
  <2> QED BY <2>1, QuietStutters
<1> QED BY <1>1, <1>2, <1>3, <1>4, <1>5 DEF StartStep

LEMMA OwnerStepContract ==
  ASSUME TypeOK, NEW rt \in Runtimes, NEW r \in Runs, OwnerStep(rt, r)
  PROVE  ContractStep
<1> USE DEF taskVars, startVars, runtimeVars
<1>1. CASE Reserve(rt, r)
  <2>1. Contract!Account(r)
    BY <1>1 DEF Reserve, TaskActive, Contract!Account
  <2> QED BY <2>1 DEF ContractStep, Contract!Next
<1>2. CASE AbortClosed(rt, r) \/ OnError(rt, r) \/ OnClose(rt, r)
  <2>1. child[r] # "ALIVE" /\ (\E c \in {"ENDED", "CLOSED"} :
                                child' = [child EXCEPT ![r] = c])
    BY <1>2 DEF AbortClosed, OnError, OnClose
  <2>2. Alive' = Alive
    BY <2>1 DEF Alive, TypeOK
  <2>3. Quiet
    BY <1>2, <2>2 DEF AbortClosed, OnError, OnClose, Quiet, Known
  <2> QED BY <2>3, QuietStutters
<1>3. CASE RecoverPending(rt, r)
  <2>1. Quiet
    BY <1>3 DEF RecoverPending, CanRegister, Quiet, Known, Alive
  <2> QED BY <2>1, QuietStutters
<1>4. CASE \/ \E k \in Keys \union {NoKey} : CallStart(rt, r, k)
           \/ RefuseStart(rt, r) \/ ShutdownKill(rt, r) \/ AbortKill(rt, r)
           \/ OnOutput(rt, r) \/ Cancel(rt, r) \/ ReadForeign(rt, r)
           \/ PassOver(rt, r)
  <2>1. Quiet
    BY <1>4 DEF CallStart, PassOver, RefuseStart, ShutdownKill, AbortKill,
       OnOutput,
                Cancel, ReadForeign, Quiet, Known, Alive
  <2> QED BY <2>1, QuietStutters
<1> QED BY <1>1, <1>2, <1>3, <1>4 DEF OwnerStep

LEMMA InitContract == Init => Contract!Init
  BY DEF Init, Contract!Init

LEMMA NextContract == TypeOK /\ IInv /\ [Next]_vars => ContractStep
<1> SUFFICES ASSUME TypeOK, IInv, [Next]_vars PROVE ContractStep
  OBVIOUS
<1>1. CASE Next
  BY <1>1, RuntimeStepQuiet, QuietStutters, HandlerStepContract,
     StartStepContract, OwnerStepContract DEF Next
<1>2. CASE UNCHANGED vars
  BY <1>2, QuietStutters DEF vars, Quiet, Known, Alive
<1> QED BY <1>1, <1>2

\* ProcessService and TaskService together implement the Task's contract about
\* child processes.
THEOREM Refinement == Spec => KeepsContract
  BY AlwaysIInv, InitContract, NextContract, PTL
  DEF Spec, KeepsContract, Contract!Spec, ContractStep

-----------------------------------------------------------------------------
(* Outcomes.  What snapshots, records and operations say of a child: that a  *)
(* settled one is gone, that INTERRUPTED means a lost owner, that an outcome *)
(* stays, and that a living child keeps its key.                             *)

PreSpawn ==
  {"NONE", "ENTERED", "CALLED", "RESERVED", "EXPIRING", "TRIMMING", "CLAIMED"}

\* The record in memory is never INTERRUPTED, is settled by an event of the
\* child, and is there as long as the start is being registered or aborted.
RecordIsTrue(r) ==
  /\ record[r] # "INTERRUPTED"
  /\ record[r] \in Settled =>
       child[r] = "CLOSED" \/ (child[r] = "ENDED" /\ record[r] = "FAILED")
  /\ snapshot[r] \in Settled => child[r] \in {"ENDED", "CLOSED"}
  /\ phase[r] \in {"SPAWNED", "PERSISTED"} => record[r] = "RUNNING"
  /\ phase[r] \in {"ABORTED", "ABORTING"} => record[r] = "CANCELLING"
  /\ phase[r] = "FINALIZING" => record[r] = "FAILED"
  /\ phase[r] = "SPAWNED" => snapshot[r] = "NONE"

\* A live owner forgets a Run only when its child is gone, remembers the outcome
\* that the snapshot has, and has forgotten a Run that was INTERRUPTED.
FollowsOwner(r) ==
  ~Dead(owner[r]) =>
    /\ record[r] = "NONE" /\ phase[r] \notin PreSpawn => child[r] # "ALIVE"
    /\ snapshot[r] \in Terminal => record[r] \in {"NONE", snapshot[r]}

\* Only a runtime that booted owns a Run: a lease that is lost stays lost.
OwnersHaveBooted ==
  \A r \in Runs : owner[r] # NoRuntime => runtime[owner[r]] # "NEW"

\* A runtime about to restore a Run of its own has forgotten it.
RestoresAreLost ==
  \A rt \in Runtimes :
    work[rt].step = "RESTORE" /\ owner[work[rt].run] = rt =>
      /\ record[work[rt].run] = "NONE"
      /\ ~Dead(rt) => snapshot[work[rt].run] \in Active

RecordInv ==
  /\ \A r \in Runs : RecordIsTrue(r) /\ FollowsOwner(r)
  /\ OwnersHaveBooted /\ RestoresAreLost

(* What a step may do to a Run.                                              *)

\* The Run is as it was.
Same(r) ==
  /\ record'[r] = record[r] /\ snapshot'[r] = snapshot[r]
  /\ child'[r] = child[r] /\ phase'[r] = phase[r]

\* A published outcome stays, as OutcomeIsFinal says.
KeepsOutcome(r) ==
  snapshot[r] \in Terminal /\ snapshot'[r] # snapshot[r]
    => \/ Dead(owner[r])
       \/ /\ snapshot[r] = "FAILED" /\ snapshot'[r] = "CANCELLED"
          /\ r \in cancelAsked

\* What was forgotten stays so, and is written only by one that restores it.
StaysForgotten(r) ==
  record[r] = "NONE" /\ snapshot[r] # "NONE" =>
    /\ record'[r] = "NONE"
    /\ \/ snapshot'[r] = snapshot[r] \/ Dead(owner[r])
       \/ work'[owner[r]].step # "RESTORE"

\* A start is claimed once, and spawns one child.
NeverAgain(r) ==
  phase[r] \notin PreSpawn =>
    phase'[r] \notin PreSpawn /\ (child'[r] = "ALIVE" => child[r] = "ALIVE")

Moves(r) ==
  /\ RecordIsTrue(r)' /\ FollowsOwner(r)'
  /\ KeepsOutcome(r) /\ StaysForgotten(r) /\ NeverAgain(r)

\* The owner of r stays, and if its lease is lost, that too.
OwnerLasts(r) ==
  owner[r] # NoRuntime =>
    owner'[r] = owner[r] /\ (Dead(owner[r]) => Dead(owner[r])')

LEMMA Untouched ==
  ASSUME IInv, RecordInv, NEW r \in Runs, OwnerLasts(r), Same(r)
  PROVE  Moves(r)
<1>1. CASE owner[r] = NoRuntime
  <2>1. /\ phase[r] = "NONE" /\ child[r] = "NONE" /\ snapshot[r] = "NONE"
        /\ record[r] = "NONE"
    BY <1>1 DEF IInv, UnownedIsNew, UnbornIsClean, Unborn
  <2> QED BY <2>1 DEF Same, Moves, RecordIsTrue, FollowsOwner, KeepsOutcome,
             StaysForgotten, NeverAgain, PreSpawn, Settled, Terminal
<1>2. CASE owner[r] # NoRuntime
  BY <1>2 DEF RecordInv, Same, OwnerLasts, Moves, RecordIsTrue, FollowsOwner,
     KeepsOutcome, StaysForgotten, NeverAgain
<1> QED BY <1>1, <1>2

\* The lease of a runtime that has booted.
LEMMA RuntimeStepLeases ==
  ASSUME TypeOK, NEW rt \in Runtimes, RuntimeStep(rt)
  PROVE  /\ owner' = owner
         /\ \A o \in Runtimes : runtime[o] # "NEW" =>
              runtime'[o] # "NEW" /\ (Dead(o) => Dead(o)')
<1> USE DEF TypeOK, Dead, callVars, runtimeVars
<1>1. CASE Boot(rt)           BY <1>1 DEF Boot
<1>2. CASE BootDone(rt)       BY <1>2 DEF BootDone
<1>3. CASE LeaseExpires(rt)   BY <1>3 DEF LeaseExpires, Live
<1>4. CASE Heartbeat(rt)      BY <1>4 DEF Heartbeat, Idle, Between, Live
<1>5. CASE ShutdownBegin(rt)  BY <1>5 DEF ShutdownBegin
<1>6. CASE ReleaseLease(rt)   BY <1>6 DEF ReleaseLease
<1>7. CASE Crash(rt)          BY <1>7 DEF Crash, Live
<1>8. CASE Restore(rt)        BY <1>8 DEF Restore
<1>9. CASE Mark(rt)           BY <1>9 DEF Mark
<1>10. CASE RecoveryFails(rt) BY <1>10 DEF RecoveryFails
<1> QED BY <1>1, <1>2, <1>3, <1>4, <1>5, <1>6, <1>7, <1>8, <1>9, <1>10
        DEF RuntimeStep

LEMMA OtherStepsLeases ==
  ASSUME NEW rt \in Runtimes, NEW r \in Runs,
         HandlerStep(rt) \/ StartStep(r) \/ OwnerStep(rt, r)
  PROVE  /\ UNCHANGED <<lease, runtime>>
         /\ owner' = owner \/ (Live(rt) /\ owner[r] = NoRuntime
                               /\ owner' = [owner EXCEPT ![r] = rt])
<1> USE DEF callVars, runtimeVars
<1>1. CASE HandlerStep(rt)
  BY <1>1 DEF HandlerStep, Scan, ScanAnswers, FinishCheck, FinishCommit,
     CancelSweep, CancelCommit,
     CleanupCheck, CleanupRemove, CleanupRecord, HandlerThrows, Scan,
     ScanAnswers,
     Enter, ScanReturns
<1>2. CASE StartStep(r)
  BY <1>2 DEF StartStep, Admit, PruneByAge, PruneByNumber, PruneDelete,
     ClaimWins, ClaimFails, Spawn, SpawnThrows, Release,
     Persist, Register, RegistrationFails, AbortSignal, Finalize, ChildExits
<1>3. CASE OwnerStep(rt, r)
  BY <1>3 DEF OwnerStep, CallStart, RefuseStart, Reserve, ShutdownKill,
     AbortKill,
     AbortClosed, OnError, OnClose, OnOutput, Cancel, ReadForeign,
     RecoverPending, PassOver, Idle, Between
<1> QED BY <1>1, <1>2, <1>3

LEMMA OwnersLast ==
  ASSUME TypeOK, OwnersHaveBooted, [Next]_vars
  PROVE  OwnersHaveBooted' /\ \A r \in Runs : OwnerLasts(r)
<1> USE DEF OwnersHaveBooted, OwnerLasts
<1>a. \A r \in Runs : owner[r] # NoRuntime => owner[r] \in Runtimes
  BY DEF TypeOK
<1>1. ASSUME NEW rt \in Runtimes, RuntimeStep(rt)
      PROVE  OwnersHaveBooted' /\ \A r \in Runs : OwnerLasts(r)
  BY <1>a, <1>1, RuntimeStepLeases
<1>2. ASSUME NEW rt \in Runtimes, NEW r \in Runs,
             HandlerStep(rt) \/ StartStep(r) \/ OwnerStep(rt, r)
      PROVE  OwnersHaveBooted' /\ \A q \in Runs : OwnerLasts(q)
  <2>1. /\ UNCHANGED <<lease, runtime>>
        /\ owner' = owner \/ (Live(rt) /\ owner[r] = NoRuntime
                              /\ owner' = [owner EXCEPT ![r] = rt])
    BY <1>2, OtherStepsLeases
  <2> QED BY <1>a, <2>1 DEF Live, Dead, TypeOK
<1>3. CASE UNCHANGED vars
  BY <1>3 DEF vars, Dead
<1>4. ASSUME NEW rt \in Runtimes, HandlerStep(rt), Runs = {}
      PROVE  OwnersHaveBooted' /\ \A q \in Runs : OwnerLasts(q)
  BY <1>4
<1>5. ASSUME NEW r \in Runs, StartStep(r), Runtimes = {}
      PROVE  OwnersHaveBooted' /\ \A q \in Runs : OwnerLasts(q)
  <2>1. UNCHANGED <<lease, runtime, owner>>
    BY <1>5 DEF StartStep, Admit, PruneByAge, PruneByNumber, PruneDelete,
       ClaimWins, ClaimFails, Spawn, SpawnThrows, Release,
       Persist, Register, RegistrationFails, AbortSignal, Finalize, ChildExits,
       callVars, runtimeVars
  <2> QED BY <2>1 DEF Dead
<1> QED BY <1>1, <1>2, <1>3, <1>4, <1>5 DEF Next

LEMMA OnlyOneMoves ==
  ASSUME IInv, RecordInv, \A q \in Runs : OwnerLasts(q),
         NEW r \in Runs, Moves(r), \A q \in Runs \ {r} : Same(q)
  PROVE  \A q \in Runs : Moves(q)
  BY Untouched

\* Cancelling Runs that are RUNNING and registered.
LEMMA CancelMoves ==
  ASSUME TypeOK, IInv, RecordInv, \A q \in Runs : OwnerLasts(q),
         NEW S \in SUBSET Runs, AskCancel(S), PersistCancelling(S),
         \A r \in S : record[r] = "RUNNING" /\ phase[r] \notin SyncPhases,
         UNCHANGED <<child, phase>>
  PROVE  \A r \in Runs : Moves(r)
<1> SUFFICES ASSUME NEW r \in Runs PROVE Moves(r)
  OBVIOUS
<1>1. CASE r \in S
  <2>1. /\ record'[r] = "CANCELLING" /\ snapshot'[r] = "CANCELLING"
        /\ child'[r] = child[r] /\ phase'[r] = phase[r]
        /\ record[r] = "RUNNING" /\ phase[r] \notin SyncPhases
    BY <1>1 DEF AskCancel, PersistCancelling
  <2>2. owner[r] # NoRuntime
    BY <2>1 DEF IInv, UnownedIsNew, UnbornIsClean, Unborn
  <2> QED BY <2>1, <2>2 DEF RecordInv, OwnerLasts, Moves, RecordIsTrue,
             FollowsOwner,
             KeepsOutcome, StaysForgotten, NeverAgain, SyncPhases, Settled,
             Terminal
<1>2. CASE r \notin S
  BY <1>2, Untouched DEF AskCancel, PersistCancelling, Same
<1> QED BY <1>1, <1>2

LEMMA RuntimeStepMoves ==
  ASSUME TypeOK, IInv, RecordInv, \A q \in Runs : OwnerLasts(q),
         NEW rt \in Runtimes, RuntimeStep(rt)
  PROVE  \A r \in Runs : Moves(r)
<1> USE DEF callVars, memVars, runtimeVars, scanVars
<1>1. CASE ShutdownBegin(rt)
  <2> DEFINE running == {r \in Owned(rt) : record[r] = "RUNNING"}
  <2>1. running \in SUBSET Runs
    BY DEF Owned, TypeOK
  <2>2. \A r \in running : record[r] = "RUNNING" /\ phase[r] \notin SyncPhases
    BY <1>1, <2>1 DEF ShutdownBegin, Idle, Between, Owned
  <2>3. AskCancel(running) /\ PersistCancelling(running) /\ UNCHANGED <<child, phase>>
    BY <1>1 DEF ShutdownBegin
  <2> QED BY <2>1, <2>2, <2>3, CancelMoves
<1>2. CASE Crash(rt)
  <2> SUFFICES ASSUME NEW r \in Runs PROVE Moves(r)
    OBVIOUS
  <2>1. CASE owner[r] = rt
    <3>1. /\ record'[r] = "NONE" /\ phase'[r] = "DONE"
          /\ child'[r] = child[r] /\ snapshot'[r] = snapshot[r]
          /\ owner'[r] = rt /\ Dead(rt)'
      BY <1>2, <2>1 DEF Crash, Dead, TypeOK
    <3> QED BY <3>1, <2>1 DEF RecordInv, Moves, RecordIsTrue, FollowsOwner,
               KeepsOutcome, StaysForgotten, NeverAgain, PreSpawn, Settled
  <2>2. CASE owner[r] # rt
    BY <1>2, <2>2, Untouched DEF Crash, Same, TypeOK
  <2> QED BY <2>1, <2>2
<1>3. CASE Restore(rt)
  <2>1. PICK r \in Runs : r = work[rt].run /\ snapshot[r] # "NONE"
    BY <1>3, RestoredRun DEF Restore, IInv, RestoredHasSnapshot
  <2>2. owner[r] # NoRuntime
    BY <2>1 DEF IInv, UnownedIsNew, UnbornIsClean, Unborn
  <2>3. CASE Lost(rt, r)
    <3>1. /\ snapshot' = [snapshot EXCEPT ![r] = "INTERRUPTED"]
          /\ work' = [work EXCEPT ![rt] = MarkLater(r, "INTERRUPTED")]
          /\ UNCHANGED <<record, child, phase, owner>>
      BY <1>3, <2>1, <2>3 DEF Restore
    <3>2. snapshot'[r] = "INTERRUPTED" /\ work'[rt].step # "RESTORE"
      BY <3>1, <2>1, MarkIsNotRestore DEF TypeOK
    <3>3. \/ Dead(owner[r])
          \/ owner[r] = rt /\ record[r] = "NONE" /\ snapshot[r] \in Active
      BY <1>3, <2>1, <2>3 DEF Restore, Lost, OwnerState, RecordInv,
         RestoresAreLost
    <3>4. phase[r] # "SPAWNED"
      BY <2>1 DEF RecordInv, RecordIsTrue
    <3>5. Moves(r)
      <4>1. RecordIsTrue(r)'
        BY <2>1, <3>1, <3>2, <3>4 DEF RecordInv, RecordIsTrue, Settled
      <4>2. FollowsOwner(r)'
        <5>1. Dead(owner[r])' \/ record'[r] = "NONE"
          BY <2>1, <2>2, <3>1, <3>3 DEF OwnerLasts
        <5>2. ~Dead(owner[r])' => ~Dead(owner[r])
          BY <2>1, <2>2 DEF OwnerLasts
        <5> QED BY <2>1, <3>1, <5>1, <5>2 DEF RecordInv, FollowsOwner
      <4>3. KeepsOutcome(r)
        BY <3>3 DEF KeepsOutcome, Active, Settled, Terminal
      <4>4. StaysForgotten(r) /\ NeverAgain(r)
        BY <3>1, <3>2, <3>3 DEF StaysForgotten, NeverAgain
      <4> QED BY <4>1, <4>2, <4>3, <4>4 DEF Moves
    <3>6. \A q \in Runs \ {r} : Same(q)
      BY <3>1 DEF Same, TypeOK
    <3> QED BY <2>1, <3>5, <3>6, OnlyOneMoves
  <2>4. CASE ~Lost(rt, r)
    BY <1>3, <2>1, <2>4, Untouched DEF Restore, Same
  <2> QED BY <2>3, <2>4
<1>4. CASE \/ Boot(rt) \/ BootDone(rt) \/ LeaseExpires(rt) \/ Heartbeat(rt)
           \/ ReleaseLease(rt) \/ Mark(rt) \/ RecoveryFails(rt)
  BY <1>4, Untouched DEF Boot, BootDone, LeaseExpires, Heartbeat, ReleaseLease,
     Mark,
     RecoveryFails, Same
<1> QED BY <1>1, <1>2, <1>3, <1>4 DEF RuntimeStep

LEMMA HandlerStepMoves ==
  ASSUME TypeOK, IInv, RecordInv, \A q \in Runs : OwnerLasts(q),
         NEW rt \in Runtimes, HandlerStep(rt)
  PROVE  \A r \in Runs : Moves(r)
<1> USE DEF callVars, memVars, runtimeVars, scanVars
<1>1. CASE CancelSweep(rt)
  <2> DEFINE swept == {r \in linked : InMemory(rt, r) /\ record[r] = "RUNNING"}
  <2>1. swept \in SUBSET Runs
    BY DEF TypeOK
  <2>2. \A r \in swept : record[r] = "RUNNING" /\ phase[r] \notin SyncPhases
    BY <1>1, <2>1 DEF CancelSweep, Enter, ScanReturns, InMemory
  <2>3. AskCancel(swept) /\ PersistCancelling(swept) /\ UNCHANGED <<child, phase>>
    BY <1>1 DEF CancelSweep
  <2> QED BY <2>1, <2>2, <2>3, CancelMoves
<1>2. CASE \/ FinishCheck(rt) \/ FinishCommit(rt) \/ CancelCommit(rt)
           \/ CleanupCheck(rt) \/ CleanupRemove(rt) \/ CleanupRecord(rt)
           \/ HandlerThrows(rt) \/ Scan(rt) \/ ScanAnswers(rt)
  BY <1>2, Untouched DEF Scan, ScanAnswers, FinishCheck, FinishCommit,
     CancelCommit, CleanupCheck,
     CleanupRemove, CleanupRecord, HandlerThrows, Same
<1> QED BY <1>1, <1>2 DEF HandlerStep

LEMMA StartStepMoves ==
  ASSUME TypeOK, IInv, RecordInv, \A q \in Runs : OwnerLasts(q),
         NEW r \in Runs, StartStep(r)
  PROVE  \A q \in Runs : Moves(q)
<1> USE DEF callVars, memVars, runtimeVars, scanVars
<1>1. CASE \E k \in Keys : PruneDelete(r, k)
  BY <1>1, Untouched DEF PruneDelete, Same
<1>2. CASE ~ \E k \in Keys : PruneDelete(r, k)
  <2>1. \A q \in Runs \ {r} : Same(q)
    BY <1>2 DEF StartStep, Admit, PruneByAge, PruneByNumber, ClaimWins,
       ClaimFails, Spawn, SpawnThrows, Release,
       Persist, Register, RegistrationFails, AbortSignal, Finalize, ChildExits,
       AskCancel, TrySnapshot, Same, TypeOK
  <2>2. owner'[r] = owner[r] /\ owner[r] # NoRuntime
    <3>1. owner' = owner
      BY <1>2 DEF StartStep, Admit, PruneByAge, PruneByNumber, ClaimWins,
         ClaimFails, Spawn, SpawnThrows, Release,
         Persist, Register, RegistrationFails, AbortSignal, Finalize, ChildExits
    <3>2. phase[r] # "NONE"
      BY <1>2 DEF StartStep, Admit, PruneByAge, PruneByNumber, ClaimWins,
         ClaimFails, Spawn, SpawnThrows, Release,
         Persist, Register, RegistrationFails, AbortSignal, Finalize,
         ChildExits,
         Pruning, IInv, UnbornIsClean, Unborn
    <3> QED BY <3>1, <3>2 DEF IInv, UnownedIsNew
  <2>3. ~Dead(owner[r])' => ~Dead(owner[r])
    BY <2>2 DEF OwnerLasts
  <2>4. /\ RecordIsTrue(r) /\ FollowsOwner(r)
        /\ phase[r] \in Unborn =>
             child[r] = "NONE" /\ snapshot[r] = "NONE" /\ record[r] = "NONE"
        /\ phase[r] = "FINALIZING" => child[r] = "CLOSED"
    BY DEF RecordInv, IInv, UnbornIsClean, ForgottenIsClosed
  <2>5. Moves(r)
    <3> USE DEF Moves, RecordIsTrue, FollowsOwner, KeepsOutcome, StaysForgotten,
            NeverAgain, PreSpawn, Unborn, Settled, Terminal, TypeOK
    <3>a. CASE Admit(r)              BY <2>2, <2>4, <3>a DEF Admit
    <3>b. CASE PruneByAge(r)         BY <2>2, <2>4, <3>b DEF PruneByAge
    <3>c. CASE PruneByNumber(r)      BY <2>2, <2>4, <3>c DEF PruneByNumber
    <3>1. CASE ClaimWins(r)          BY <2>2, <2>4, <3>1 DEF ClaimWins
    <3>2. CASE ClaimFails(r)
      BY <2>2, <2>4, <3>2 DEF ClaimFails, Pruning
    <3>3. CASE Spawn(r)              BY <2>2, <2>4, <3>3 DEF Spawn
    <3>4. CASE SpawnThrows(r)        BY <2>2, <2>4, <3>4 DEF SpawnThrows
    <3>5. CASE Release(r)            BY <2>2, <2>4, <3>5 DEF Release
    <3>6. CASE Persist(r)           BY <2>2, <2>3, <2>4, <3>6 DEF Persist
    <3>7. CASE Register(r)          BY <2>2, <2>3, <2>4, <3>7 DEF Register
    <3>8. CASE RegistrationFails(r)
      <4>1. /\ record'[r] = "CANCELLING" /\ phase'[r] = "ABORTED"
            /\ child'[r] = child[r] /\ snapshot'[r] = snapshot[r]
            /\ phase[r] \in {"SPAWNED", "PERSISTED"}
        BY <3>8 DEF RegistrationFails, AskCancel
      <4>2. record[r] = "RUNNING" /\ (~Dead(owner[r]) => snapshot[r] \notin Terminal)
        BY <2>4, <4>1
      <4> QED BY <2>2, <2>3, <2>4, <4>1, <4>2
    <3>9. CASE AbortSignal(r)
      <4>1. /\ record'[r] = "CANCELLING" /\ phase'[r] = "ABORTING"
            /\ child'[r] = child[r] /\ snapshot'[r] \in {snapshot[r], "CANCELLING"}
            /\ record[r] = "CANCELLING"
        BY <2>4, <3>9 DEF AbortSignal, TrySnapshot
      <4>2. ~Dead(owner[r]) => snapshot[r] \notin Terminal
        BY <2>4, <4>1
      <4> QED BY <2>2, <2>3, <2>4, <4>1, <4>2
    <3>10. CASE Finalize(r)          BY <2>2, <2>3, <2>4, <3>10 DEF Finalize
    <3>11. CASE ChildExits(r)        BY <2>2, <2>3, <2>4, <3>11 DEF ChildExits
    <3> HIDE DEF Moves
    <3> QED BY <1>2, <3>a, <3>b, <3>c, <3>1, <3>2, <3>3, <3>4, <3>5, <3>6,
               <3>7, <3>8,
               <3>9, <3>10, <3>11
           DEF StartStep
  <2> QED BY <2>1, <2>5, OnlyOneMoves
<1> QED BY <1>1, <1>2

LEMMA OwnerStepMoves ==
  ASSUME TypeOK, IInv, RecordInv, \A q \in Runs : OwnerLasts(q),
         NEW rt \in Runtimes, NEW r \in Runs, OwnerStep(rt, r)
  PROVE  \A q \in Runs : Moves(q)
<1> USE DEF callVars, memVars, runtimeVars, scanVars
<1>1. CASE ShutdownKill(rt, r) \/ AbortKill(rt, r) \/ ReadForeign(rt, r)
           \/ RecoverPending(rt, r) \/ PassOver(rt, r)
  BY <1>1, Untouched DEF ShutdownKill, AbortKill, ReadForeign, RecoverPending,
     PassOver, Same
<1>2. CASE Cancel(rt, r)
  <2>1. record[r] = "RUNNING" /\ phase[r] \notin SyncPhases
    BY <1>2 DEF Cancel, Listens, Idle, Between
  <2>2. /\ {r} \in SUBSET Runs /\ AskCancel({r}) /\ PersistCancelling({r})
        /\ UNCHANGED <<child, phase>>
    BY <1>2 DEF Cancel
  <2>3. \A q \in {r} : record[q] = "RUNNING" /\ phase[q] \notin SyncPhases
    BY <2>1
  <2> QED BY <2>2, <2>3, CancelMoves
<1>3. ASSUME NEW k \in Keys \union {NoKey}, CallStart(rt, r, k)
      PROVE  \A q \in Runs : Moves(q)
  <2>1. \A q \in Runs \ {r} : Same(q)
    BY <1>3 DEF CallStart, Same, TypeOK
  <2>2. /\ phase'[r] = "ENTERED" /\ child'[r] = "NONE" /\ record'[r] = "NONE"
        /\ snapshot[r] = "NONE" /\ snapshot'[r] = "NONE" /\ phase[r] = "NONE"
    BY <1>3 DEF CallStart, IInv, UnownedIsNew, UnbornIsClean, Unborn, TypeOK
  <2>3. Moves(r)
    BY <2>2 DEF Moves, RecordIsTrue, FollowsOwner, KeepsOutcome, StaysForgotten,
       NeverAgain, PreSpawn, Settled, Terminal
  <2> QED BY <2>1, <2>3, OnlyOneMoves
<1>4. CASE \/ RefuseStart(rt, r) \/ Reserve(rt, r) \/ AbortClosed(rt, r)
           \/ OnError(rt, r) \/ OnClose(rt, r) \/ OnOutput(rt, r)
  <2>1. \A q \in Runs \ {r} : Same(q)
    BY <1>4 DEF RefuseStart, Reserve, AbortClosed, OnError, OnClose, OnOutput,
       TrySnapshot, Settle, Same, TypeOK
  <2>2. owner'[r] = owner[r] /\ owner[r] # NoRuntime
    BY <1>4, SentinelsAssumption DEF RefuseStart, Reserve, AbortClosed, OnError,
       OnClose, OnOutput, Listens
  <2>3. ~Dead(owner[r])' => ~Dead(owner[r])
    BY <2>2 DEF OwnerLasts
  <2>4. /\ RecordIsTrue(r) /\ FollowsOwner(r)
        /\ phase[r] \in Unborn =>
             child[r] = "NONE" /\ snapshot[r] = "NONE" /\ record[r] = "NONE"
    BY DEF RecordInv, IInv, UnbornIsClean
  <2>5. Moves(r)
    <3> USE DEF Moves, RecordIsTrue, FollowsOwner, KeepsOutcome, StaysForgotten,
            NeverAgain, PreSpawn, Unborn, Settled, Terminal, TypeOK
    <3>1. CASE RefuseStart(rt, r)  BY <2>2, <2>4, <3>1 DEF RefuseStart
    <3>2. CASE Reserve(rt, r)      BY <2>2, <2>4, <3>2 DEF Reserve
    <3>3. CASE AbortClosed(rt, r)
      <4>1. /\ record'[r] = "FAILED" /\ phase'[r] = "FINALIZING"
            /\ child'[r] = "CLOSED" /\ snapshot'[r] \in {snapshot[r], "FAILED"}
            /\ record[r] = "CANCELLING" /\ phase[r] = "ABORTING"
        BY <2>4, <3>3 DEF AbortClosed, TrySnapshot
      <4>2. ~Dead(owner[r]) => snapshot[r] \notin Terminal
        BY <2>4, <4>1
      <4> QED BY <2>2, <2>3, <2>4, <4>1, <4>2
    <3>4. CASE OnError(rt, r)
      BY <2>2, <2>3, <2>4, <3>4 DEF OnError, Settle, Listens
    <3>5. CASE OnClose(rt, r)
      <4>1. /\ record'[r] = CloseStatus(r) /\ snapshot'[r] = CloseStatus(r)
            /\ child'[r] = "CLOSED" /\ phase'[r] = "DONE" /\ phase[r] = "DONE"
            /\ child[r] = "ENDED" /\ record[r] # "NONE"
        BY <3>5 DEF OnClose, Settle, Listens
      <4>2. CloseStatus(r) \in Settled
        BY DEF CloseStatus
      <4>3. ~Dead(owner[r]) /\ snapshot[r] \in Terminal =>
              record[r] = snapshot[r] /\ record[r] = "FAILED"
        BY <2>4, <4>1
      <4> QED BY <2>2, <2>3, <2>4, <4>1, <4>2, <4>3 DEF CloseStatus
    <3>6. CASE OnOutput(rt, r)
      <4>1. /\ snapshot'[r] = record[r] /\ record'[r] = record[r]
            /\ child'[r] = child[r] /\ phase'[r] = "DONE" /\ phase[r] = "DONE"
            /\ record[r] # "NONE" /\ snapshot[r] # record[r]
            /\ child[r] \in {"ALIVE", "ENDED"}
        BY <3>6 DEF OnOutput, Listens
      <4> QED BY <2>2, <2>3, <2>4, <4>1
    <3> HIDE DEF Moves
    <3> QED BY <1>4, <3>1, <3>2, <3>3, <3>4, <3>5, <3>6
  <2> QED BY <2>1, <2>5, OnlyOneMoves
<1> QED BY <1>1, <1>2, <1>3, <1>4 DEF OwnerStep

\* A work item that restores was there before, or is of a Run whose owner is
\* another runtime, or which its own runtime has just found ACTIVE on disk.
NewRestore(rt) ==
  work'[rt].step = "RESTORE" =>
    \/ work'[rt] = work[rt]
    \/ /\ work'[rt].run \in Runs
       /\ UNCHANGED <<record, snapshot, owner>>
       /\ owner[work'[rt].run] = rt =>
            record[work'[rt].run] = "NONE" /\ snapshot[work'[rt].run] \in Active

LEMMA NewRestores ==
  ASSUME TypeOK, Next, NEW o \in Runtimes
  PROVE  NewRestore(o)
<1> USE DEF callVars, memVars, runtimeVars, scanVars, NewRestore, TypeOK
<1>1. ASSUME NEW rt \in Runtimes, RuntimeStep(rt)
      PROVE  NewRestore(o)
  BY <1>1, MarkIsNotRestore DEF RuntimeStep, Boot, BootDone, LeaseExpires,
     Heartbeat,
     ShutdownBegin, ReleaseLease, Crash, Restore, Mark, RecoveryFails, NoWork
<1>2. ASSUME NEW rt \in Runtimes, HandlerStep(rt)
      PROVE  NewRestore(o)
  BY <1>2 DEF HandlerStep, Scan, ScanAnswers, FinishCheck, FinishCommit,
     CancelSweep, CancelCommit,
     CleanupCheck, CleanupRemove, CleanupRecord, HandlerThrows
<1>3. ASSUME NEW r \in Runs, StartStep(r)
      PROVE  NewRestore(o)
  BY <1>3, MarkIsNotRestore DEF StartStep, Admit, PruneByAge, PruneByNumber,
     PruneDelete, ClaimWins, ClaimFails, Spawn,
     SpawnThrows, Release, Persist, Register, RegistrationFails, AbortSignal,
     Finalize, ChildExits
<1>4. ASSUME NEW rt \in Runtimes, NEW r \in Runs, OwnerStep(rt, r)
      PROVE  NewRestore(o)
  <2>1. CASE ReadForeign(rt, r)
    BY <2>1 DEF ReadForeign, InMemory
  <2>2. CASE RecoverPending(rt, r)
    BY <2>2 DEF RecoverPending, Recoverable, OwnerState, NoWork
  <2>3. CASE ~ReadForeign(rt, r) /\ ~RecoverPending(rt, r)
    BY <1>4, <2>3, MarkIsNotRestore DEF OwnerStep, PassOver, CallStart,
       RefuseStart, Reserve,
       ShutdownKill, AbortKill, AbortClosed, OnError, OnClose, OnOutput,
       Cancel, Settle
  <2> QED BY <2>1, <2>2, <2>3
<1> QED BY <1>1, <1>2, <1>3, <1>4 DEF Next

LEMMA NextMoves ==
  ASSUME TypeOK, IInv, RecordInv, [Next]_vars
  PROVE  \A r \in Runs : Moves(r)
<1>1. \A r \in Runs : OwnerLasts(r)
  BY OwnersLast DEF RecordInv
<1>2. CASE Next
  BY <1>1, <1>2, RuntimeStepMoves, HandlerStepMoves, StartStepMoves,
     OwnerStepMoves
  DEF Next
<1>3. CASE UNCHANGED vars
  BY <1>1, <1>3, Untouched DEF vars, Same
<1> QED BY <1>2, <1>3

LEMMA InitRecordInv == Init => RecordInv
  BY SentinelsAssumption DEF Init, RecordInv, RecordIsTrue, FollowsOwner,
     OwnersHaveBooted, RestoresAreLost, NoWork, PreSpawn, Settled, Terminal

LEMMA NextRecordInv == TypeOK /\ IInv /\ RecordInv /\ [Next]_vars => RecordInv'
<1> SUFFICES ASSUME TypeOK, IInv, RecordInv, [Next]_vars PROVE RecordInv'
  OBVIOUS
<1>1. \A r \in Runs : Moves(r)
  BY NextMoves
<1>2. OwnersHaveBooted' /\ \A r \in Runs : OwnerLasts(r)
  BY OwnersLast DEF RecordInv
<1>3. RestoresAreLost'
  <2> SUFFICES ASSUME NEW rt \in Runtimes, work'[rt].step = "RESTORE",
                      owner'[work'[rt].run] = rt
               PROVE  /\ record'[work'[rt].run] = "NONE"
                      /\ ~Dead(rt)' => snapshot'[work'[rt].run] \in Active
    BY DEF RestoresAreLost
  <2>1. NewRestore(rt)
    BY NewRestores DEF NewRestore, vars
  <2>2. CASE work'[rt] = work[rt]
    <3>1. PICK r \in Runs : r = work[rt].run /\ snapshot[r] # "NONE"
      BY <2>2, RestoredRun DEF IInv, RestoredHasSnapshot
    <3>2. owner[r] # NoRuntime
      BY <3>1 DEF IInv, UnownedIsNew, UnbornIsClean, Unborn
    <3>3. owner[r] = rt /\ (~Dead(rt)' => ~Dead(rt))
      BY <1>2, <2>2, <3>1, <3>2 DEF OwnerLasts, Dead
    <3>4. record[r] = "NONE" /\ (~Dead(rt) => snapshot[r] \in Active)
      BY <2>2, <3>1, <3>3 DEF RecordInv, RestoresAreLost
    <3>5. StaysForgotten(r)
      BY <1>1 DEF Moves
    <3> QED BY <2>2, <3>1, <3>3, <3>4, <3>5 DEF StaysForgotten
  <2>3. CASE work'[rt] # work[rt]
    BY <2>1, <2>3 DEF NewRestore
  <2> QED BY <2>2, <2>3
<1> QED BY <1>1, <1>2, <1>3 DEF RecordInv, Moves

LEMMA AlwaysRecordInv == Spec => [](TypeOK /\ IInv /\ RecordInv)
  BY InitType, NextType, InitIInv, NextIInv, InitRecordInv, NextRecordInv,
     PTL DEF Spec

\* An outcome that a Run has published stays, through the restores of other
\* runtimes, late output and a late close, as long as its owner holds its lease.
THEOREM PublishedOutcomesAreFinal == Spec => OutcomeIsFinal
<1>1. TypeOK /\ IInv /\ RecordInv /\ [Next]_vars =>
        \A r \in Runs : KeepsOutcome(r)
  BY NextMoves DEF Moves
<1>2. (\A r \in Runs : KeepsOutcome(r)) =>
        [\A r \in Runs :
           snapshot[r] \in Terminal /\ snapshot'[r] # snapshot[r]
             => \/ Dead(owner[r])
                \/ /\ snapshot[r] = "FAILED" /\ snapshot'[r] = "CANCELLED"
                   /\ r \in cancelAsked]_vars
  BY DEF KeepsOutcome
<1> QED BY <1>1, <1>2, AlwaysRecordInv, PTL DEF Spec, OutcomeIsFinal

LEMMA RecordsSayInterrupted == RecordInv => InterruptedOnlyWhenLost
  BY DEF RecordInv, RecordIsTrue, FollowsOwner, InterruptedOnlyWhenLost,
     Terminal

\* Neither a stale lease nor another runtime's reading turns a Run that its owner
\* holds into INTERRUPTED.
THEOREM InterruptedMeansLost == Spec => []InterruptedOnlyWhenLost
  BY AlwaysRecordInv, RecordsSayInterrupted, PTL

-----------------------------------------------------------------------------
(* Idempotency operations.  What a runtime will write to an operation is true *)
(* of the Run when it is computed, and what is true of a finished Run stays.  *)

\* A Run reported as over was claimed before, and its child is gone, unless it is
\* called INTERRUPTED because its owner is.
Over(r, status) ==
  status \in Terminal =>
    /\ r \in Runs /\ phase[r] \notin PreSpawn
    /\ child[r] # "ALIVE" \/ (status = "INTERRUPTED" /\ Dead(owner[r]))

MarksAreTrue ==
  \A rt \in Runtimes : work[rt].step = "MARK" => Over(work[rt].run, work[rt].status)

OperationsAreTrue ==
  \A k \in Keys : Over(operation[k].run, operation[k].status)

KeyInv == MarksAreTrue /\ OperationsAreTrue

LEMMA OverLasts ==
  ASSUME IInv, NEW r, NEW status, Over(r, status),
         \A q \in Runs : Moves(q) /\ OwnerLasts(q)
  PROVE  Over(r, status)'
<1> SUFFICES ASSUME status \in Terminal
             PROVE  /\ r \in Runs /\ phase'[r] \notin PreSpawn
                    /\ \/ child'[r] # "ALIVE"
                       \/ status = "INTERRUPTED" /\ Dead(owner[r])'
  BY DEF Over
<1>1. r \in Runs /\ phase[r] \notin PreSpawn
  BY DEF Over
<1>2. owner[r] # NoRuntime
  BY <1>1 DEF IInv, UnownedIsNew, PreSpawn
<1>3. NeverAgain(r) /\ OwnerLasts(r)
  BY <1>1 DEF Moves
<1> QED BY <1>1, <1>2, <1>3 DEF Over, NeverAgain, OwnerLasts

\* A step marks nothing new, or something that it makes or finds true.
NewMark(rt) ==
  work'[rt].step = "MARK" =>
    work'[rt] = work[rt] \/ Over(work[rt].run, work[rt].status)'

LEMMA MarkLaterIs ==
  ASSUME NEW r, NEW status, MarkLater(r, status).step = "MARK"
  PROVE  MarkLater(r, status).run = r /\ MarkLater(r, status).status = status
  BY DEF MarkLater, NoWork

LEMMA RuntimeStepMarks ==
  ASSUME TypeOK, IInv, RecordInv, \A q \in Runs : Moves(q) /\ OwnerLasts(q),
         NEW rt \in Runtimes, RuntimeStep(rt), NEW o \in Runtimes
  PROVE  NewMark(o)
<1> USE DEF NewMark, TypeOK
<1>1. CASE Restore(rt)
  <2>1. PICK r \in Runs : r = work[rt].run /\ snapshot[r] # "NONE"
    BY <1>1, RestoredRun DEF Restore, IInv, RestoredHasSnapshot
  <2>2. CASE Lost(rt, r)
    <3>1. /\ work' = [work EXCEPT ![rt] = MarkLater(r, "INTERRUPTED")]
          /\ UNCHANGED <<child, phase, owner>>
      BY <1>1, <2>1, <2>2 DEF Restore, callVars
    <3>2. phase[r] \notin PreSpawn /\ owner[r] # NoRuntime
      BY <2>1 DEF IInv, UnbornIsClean, UnownedIsNew, Unborn, PreSpawn
    <3>3. Dead(owner[r]) \/ child[r] # "ALIVE"
      BY <1>1, <2>1, <2>2, <3>2 DEF Restore, Lost, OwnerState, RecordInv,
         RestoresAreLost, FollowsOwner
    <3>4. Over(r, "INTERRUPTED")
      BY <3>2, <3>3 DEF Over
    <3>5. Over(r, "INTERRUPTED")'
      BY <3>4, OverLasts
    <3>6. work'[rt].step = "MARK" =>
            work'[rt].run = r /\ work'[rt].status = "INTERRUPTED"
      BY <3>1, MarkLaterIs
    <3> QED BY <3>1, <3>5, <3>6 DEF Over
  <2>3. CASE ~Lost(rt, r)
    BY <1>1, <2>1, <2>3 DEF Restore, NoWork
  <2> QED BY <2>2, <2>3
<1>2. CASE ~Restore(rt)
  BY <1>2 DEF RuntimeStep, Boot, BootDone, LeaseExpires, Heartbeat,
     ShutdownBegin, ReleaseLease, Crash, Mark, RecoveryFails, NoWork
<1> QED BY <1>1, <1>2

LEMMA StartStepMarks ==
  ASSUME TypeOK, IInv, NEW r \in Runs, StartStep(r), NEW o \in Runtimes
  PROVE  NewMark(o)
<1>1. ASSUME NEW status \in {"FAILED", "RUNNING"},
             work' = [work EXCEPT ![owner[r]] = MarkLater(r, status)],
             Over(r, status)'
      PROVE  NewMark(o)
  BY <1>1, MarkLaterIs DEF NewMark, Over, TypeOK
<1>2. CASE Release(r)
  <2>1. Over(r, "FAILED")'
    BY <1>2 DEF Release, Over, IInv, UnbornIsClean, Unborn, PreSpawn, TypeOK
  <2> QED BY <1>1, <1>2, <2>1 DEF Release
<1>3. CASE Register(r)
  <2>1. Over(r, "RUNNING")'
    BY DEF Over, Terminal, Settled
  <2> QED BY <1>1, <1>3, <2>1 DEF Register
<1>4. CASE Finalize(r)
  <2>1. Over(r, "FAILED")'
    BY <1>4 DEF Finalize, Over, IInv, ForgottenIsClosed, PreSpawn, TypeOK
  <2> QED BY <1>1, <1>4, <2>1 DEF Finalize
<1>5. CASE ~Release(r) /\ ~Register(r) /\ ~Finalize(r)
  BY <1>5 DEF NewMark, StartStep, Admit, PruneByAge, PruneByNumber,
     PruneDelete, ClaimWins, ClaimFails, Spawn, SpawnThrows,
     Persist, RegistrationFails, AbortSignal, ChildExits
<1> QED BY <1>2, <1>3, <1>4, <1>5

LEMMA OwnerStepMarks ==
  ASSUME TypeOK, NEW rt \in Runtimes, NEW r \in Runs, OwnerStep(rt, r),
         NEW o \in Runtimes
  PROVE  NewMark(o)
<1> USE DEF NewMark, TypeOK
<1>1. ASSUME NEW status \in Terminal, Settle(rt, r, status),
             phase' = phase, phase[r] = "DONE", child'[r] # "ALIVE"
      PROVE  NewMark(o)
  <2>1. Over(r, status)'
    BY <1>1 DEF Over, PreSpawn
  <2> QED BY <1>1, <2>1, MarkLaterIs DEF Settle, Over
<1>2. CASE OnError(rt, r)
  BY <1>1, <1>2 DEF OnError, Listens, Terminal, Settled
<1>3. CASE OnClose(rt, r)
  BY <1>1, <1>3 DEF OnClose, CloseStatus, Listens, Terminal, Settled
<1>4. CASE ~OnError(rt, r) /\ ~OnClose(rt, r)
  BY <1>4 DEF OwnerStep, CallStart, RefuseStart, Reserve, ShutdownKill,
     AbortKill,
     AbortClosed, OnOutput, Cancel, ReadForeign, RecoverPending, PassOver,
     NoWork
<1> QED BY <1>2, <1>3, <1>4

LEMMA NextMarks ==
  ASSUME TypeOK, IInv, RecordInv, [Next]_vars,
         \A q \in Runs : Moves(q) /\ OwnerLasts(q), NEW o \in Runtimes
  PROVE  NewMark(o)
<1>1. ASSUME NEW rt \in Runtimes, HandlerStep(rt)
      PROVE  NewMark(o)
  BY <1>1 DEF NewMark, HandlerStep, Scan, ScanAnswers, FinishCheck,
     FinishCommit, CancelSweep,
     CancelCommit, CleanupCheck, CleanupRemove, CleanupRecord, HandlerThrows
<1>2. CASE UNCHANGED vars
  BY <1>2 DEF vars, NewMark
<1> QED BY <1>1, <1>2, RuntimeStepMarks, StartStepMarks, OwnerStepMarks DEF Next

\* Only a prune, a claim and a mark write an operation.
LEMMA OperationWrites ==
  ASSUME [Next]_vars
  PROVE  \/ operation' = operation
         \/ \E r \in Runs, k \in Keys : PruneDelete(r, k)
         \/ \E r \in Runs : ClaimWins(r)
         \/ \E rt \in Runtimes : Mark(rt)
<1>0. CASE UNCHANGED vars
  BY <1>0 DEF vars
<1>1. ASSUME NEW rt \in Runtimes, RuntimeStep(rt), ~Mark(rt)
      PROVE  operation' = operation
  BY <1>1 DEF RuntimeStep, Boot, BootDone, LeaseExpires, Heartbeat,
     ShutdownBegin, ReleaseLease, Crash, Restore, RecoveryFails
<1>2. ASSUME NEW rt \in Runtimes, HandlerStep(rt)
      PROVE  operation' = operation
  BY <1>2 DEF HandlerStep, Scan, ScanAnswers, FinishCheck, FinishCommit,
     CancelSweep,
     CancelCommit, CleanupCheck, CleanupRemove, CleanupRecord, HandlerThrows
<1>3. ASSUME NEW r \in Runs, StartStep(r),
             ~ClaimWins(r), \A k \in Keys : ~PruneDelete(r, k)
      PROVE  operation' = operation
  BY <1>3 DEF StartStep, Admit, PruneByAge, PruneByNumber, ClaimFails, Spawn,
     SpawnThrows, Release, Persist, Register,
     RegistrationFails, AbortSignal, Finalize, ChildExits
<1>4. ASSUME NEW rt \in Runtimes, NEW r \in Runs, OwnerStep(rt, r)
      PROVE  operation' = operation
  BY <1>4 DEF OwnerStep, CallStart, RefuseStart, Reserve, ShutdownKill,
     AbortKill,
     AbortClosed, OnError, OnClose, OnOutput, Cancel, ReadForeign,
     RecoverPending, PassOver
<1> QED BY <1>0, <1>1, <1>2, <1>3, <1>4 DEF Next

LEMMA InitKeyInv == Init => KeyInv
  BY DEF Init, KeyInv, MarksAreTrue, OperationsAreTrue, Over, NoWork, NoOp,
     Terminal, Settled

LEMMA NextKeyInv ==
  TypeOK /\ IInv /\ RecordInv /\ KeyInv /\ [Next]_vars => KeyInv'
<1> SUFFICES ASSUME TypeOK, IInv, RecordInv, KeyInv, [Next]_vars PROVE KeyInv'
  OBVIOUS
<1>1. \A r \in Runs : Moves(r) /\ OwnerLasts(r)
  BY NextMoves, OwnersLast DEF RecordInv
<1>2. MarksAreTrue'
  <2> SUFFICES ASSUME NEW rt \in Runtimes, work'[rt].step = "MARK"
               PROVE  Over(work[rt].run, work[rt].status)'
    BY DEF MarksAreTrue
  <2>1. NewMark(rt)
    BY <1>1, NextMarks
  <2>2. CASE work'[rt] = work[rt]
    <3>1. PICK r, status : r = work[rt].run /\ status = work[rt].status
      OBVIOUS
    <3>2. Over(r, status)
      BY <2>2, <3>1 DEF KeyInv, MarksAreTrue
    <3>3. Over(r, status)'
      BY <1>1, <3>2, OverLasts
    <3> QED BY <2>2, <3>1, <3>3 DEF Over
  <2> QED BY <2>1, <2>2 DEF NewMark
<1>3. OperationsAreTrue'
  <2> SUFFICES ASSUME NEW k \in Keys
               PROVE  Over(operation[k].run, operation[k].status)'
    BY DEF OperationsAreTrue
  <2>1. ASSUME NEW r, NEW status, Over(r, status),
               operation'[k].run = r, operation'[k].status = status
        PROVE  Over(operation[k].run, operation[k].status)'
    <3>1. Over(r, status)'
      BY <1>1, <2>1, OverLasts
    <3> QED BY <2>1, <3>1 DEF Over
  <2>2. CASE operation'[k] = operation[k]
    BY <2>1, <2>2 DEF KeyInv, OperationsAreTrue
  <2>3. CASE operation'[k].status \notin Terminal
    BY <2>3 DEF Over
  <2>4. ASSUME NEW rt \in Runtimes, Mark(rt)
        PROVE  Over(operation[k].run, operation[k].status)'
    <3>1. \/ operation'[k] = operation[k]
          \/ operation'[k] = [run |-> work[rt].run, status |-> work[rt].status]
      BY <2>4 DEF Mark, TypeOK
    <3>2. Over(work[rt].run, work[rt].status)
      BY <2>4 DEF Mark, KeyInv, MarksAreTrue
    <3> QED BY <2>1, <2>2, <3>1, <3>2
  <2>5. ASSUME NEW r \in Runs, ClaimWins(r)
        PROVE  operation'[k] = operation[k] \/ operation'[k].status \notin Terminal
    BY <2>5 DEF ClaimWins, Terminal, Settled, TypeOK
  <2>6. ASSUME NEW r \in Runs, NEW j \in Keys, PruneDelete(r, j)
        PROVE  operation'[k] = operation[k] \/ operation'[k].status \notin Terminal
    BY <2>6 DEF PruneDelete, NoOp, Terminal, Settled, TypeOK
  <2> QED BY <2>2, <2>3, <2>4, <2>5, <2>6, OperationWrites
<1> QED BY <1>2, <1>3 DEF KeyInv

LEMMA AlwaysKeyInv == Spec => [](TypeOK /\ IInv /\ RecordInv /\ KeyInv)
  BY InitType, NextType, InitIInv, NextIInv, InitRecordInv, NextRecordInv,
     InitKeyInv, NextKeyInv, PTL DEF Spec

LEMMA OutcomesAreTrue == RecordInv /\ KeyInv => OutcomeIsTruthful
  BY DEF RecordInv, RecordIsTrue, KeyInv, OperationsAreTrue, Over,
     OutcomeIsTruthful,
     Settled, Terminal

\* Whatever is reported settled, by the Run's record or to a retried start, has no
\* living child.
THEOREM SettledMeansGone == Spec => []OutcomeIsTruthful
  BY AlwaysKeyInv, OutcomesAreTrue, PTL

-----------------------------------------------------------------------------
(* Keys.  A prune deletes what it has listed, without a second look.  What it *)
(* listed was over, and stays over as long as no other start claims the key   *)
(* in between: runtimes that prune one after the other claim one after the    *)
(* other, because a claim ends a prune.                                       *)

NoOverlap == "OVERLAP" \notin Disturbances

\* From the claim to the end of the child, the operation of a key is its Run's.
Holds(r) == phase[r] = "CLAIMED" \/ child[r] = "ALIVE"

KeysAreHeld ==
  \A r \in Runs :
    Holds(r) /\ key[r] # NoKey /\ ~Dead(owner[r]) => operation[key[r]].run = r

OnePrune ==
  \A p, q \in Runs : phase[p] \in Pruning /\ phase[q] \in Pruning => p = q

OnlyPrunesDelete == \A q \in Runs : doomed[q] # {} => phase[q] \in Pruning

\* Nothing is to be expected of this Run any more.
Spent(r) ==
  /\ r \in Runs /\ phase[r] \notin PreSpawn
  /\ child[r] # "ALIVE" \/ Dead(owner[r])

DoomedAreSpent ==
  \A q \in Runs : \A k \in doomed[q] :
    operation[k] = NoOp \/ Spent(operation[k].run)

HeldInv == OnePrune /\ OnlyPrunesDelete /\ DoomedAreSpent /\ KeysAreHeld

\* A Run that holds its key did so before the step, except the one that claims
\* it now; its key stays.
Held(r) ==
  Holds(r)' /\ key'[r] # NoKey =>
    /\ key'[r] = key[r] /\ owner[r] # NoRuntime
    /\ Holds(r) \/ ClaimWins(r)

LEMMA NextHolds ==
  ASSUME TypeOK, IInv, [Next]_vars, NEW q \in Runs
  PROVE  Held(q)
<1> USE DEF Held, Holds, TypeOK, callVars
<1>a. phase[q] = "CLAIMED" \/ child[q] = "ALIVE" => owner[q] # NoRuntime
  BY DEF IInv, UnownedIsNew, UnbornIsClean, Unborn
<1>0. CASE UNCHANGED vars
  BY <1>a, <1>0 DEF vars
<1>1. ASSUME NEW rt \in Runtimes, RuntimeStep(rt)
      PROVE  Held(q)
  BY <1>a, <1>1 DEF RuntimeStep, Boot, BootDone, LeaseExpires, Heartbeat,
     ShutdownBegin, ReleaseLease, Crash, Restore, Mark, RecoveryFails
<1>2. ASSUME NEW rt \in Runtimes, HandlerStep(rt)
      PROVE  Held(q)
  BY <1>a, <1>2 DEF HandlerStep, Scan, ScanAnswers, FinishCheck, FinishCommit,
     CancelSweep,
     CancelCommit, CleanupCheck, CleanupRemove, CleanupRecord, HandlerThrows
<1>3. ASSUME NEW r \in Runs, StartStep(r)
      PROVE  Held(q)
  <2>1. CASE ClaimWins(r)
    <3>1. phase[r] = "TRIMMING" /\ phase' = [phase EXCEPT ![r] = "CLAIMED"]
          /\ UNCHANGED <<owner, key, child>>
      BY <2>1 DEF ClaimWins
    <3>2. owner[r] # NoRuntime
      BY <3>1 DEF IInv, UnownedIsNew
    <3> QED BY <1>a, <2>1, <3>1, <3>2
  <2>2. CASE ~ClaimWins(r)
    BY <1>a, <1>3, <2>2 DEF StartStep, Admit, PruneByAge, PruneByNumber,
       PruneDelete, ClaimFails, Spawn, SpawnThrows,
       Release, Persist, Register, RegistrationFails, AbortSignal, Finalize,
       ChildExits
  <2> QED BY <2>1, <2>2
<1>4. ASSUME NEW rt \in Runtimes, NEW r \in Runs, OwnerStep(rt, r)
      PROVE  Held(q)
  <2>1. CASE Reserve(rt, r)
    BY <1>a, <2>1 DEF Reserve
  <2>2. ASSUME NEW k \in Keys \union {NoKey}, CallStart(rt, r, k)
        PROVE  Held(q)
    BY <1>a, <2>2 DEF CallStart
  <2>3. CASE \/ RefuseStart(rt, r) \/ ShutdownKill(rt, r) \/ AbortKill(rt, r)
             \/ AbortClosed(rt, r) \/ OnError(rt, r) \/ OnClose(rt, r)
             \/ OnOutput(rt, r) \/ Cancel(rt, r) \/ ReadForeign(rt, r)
             \/ RecoverPending(rt, r) \/ PassOver(rt, r)
    BY <1>a, <2>3 DEF PassOver, RefuseStart, ShutdownKill, AbortKill,
       AbortClosed, OnError,
       OnClose, OnOutput, Cancel, ReadForeign, RecoverPending, PassOver
  <2> QED BY <1>4, <2>1, <2>2, <2>3 DEF OwnerStep
<1> QED BY <1>0, <1>1, <1>2, <1>3, <1>4 DEF Next

LEMMA SpentLasts ==
  ASSUME IInv, NEW r, Spent(r), \A q \in Runs : Moves(q) /\ OwnerLasts(q)
  PROVE  Spent(r)'
<1>1. r \in Runs /\ phase[r] \notin PreSpawn
  BY DEF Spent
<1>2. owner[r] # NoRuntime
  BY <1>1 DEF IInv, UnownedIsNew, PreSpawn
<1>3. NeverAgain(r) /\ OwnerLasts(r)
  BY <1>1 DEF Moves
<1> QED BY <1>1, <1>2, <1>3 DEF Spent, NeverAgain, OwnerLasts

\* A prune begins with its first list, adds to what it deletes only by listing,
\* and leaves nothing behind.
Prunes(q) ==
  /\ phase'[q] \in Pruning => phase[q] \in Pruning \/ PruneByAge(q)
  /\ doomed'[q] \subseteq doomed[q] \/ PruneByAge(q) \/ PruneByNumber(q)
  /\ (doomed[q] # {} => phase[q] \in Pruning)
       => (doomed'[q] # {} => phase'[q] \in Pruning)

LEMMA NextPrunes ==
  ASSUME TypeOK, IInv, [Next]_vars, NEW q \in Runs
  PROVE  Prunes(q)
<1> USE DEF Prunes, TypeOK, callVars, Pruning
<1>0. CASE UNCHANGED vars
  BY <1>0 DEF vars
<1>1. ASSUME NEW rt \in Runtimes, RuntimeStep(rt)
      PROVE  Prunes(q)
  <2>1. CASE Crash(rt)
    <3>1. /\ phase'[q] = IF owner[q] = rt THEN "DONE" ELSE phase[q]
          /\ doomed'[q] = IF owner[q] = rt THEN {} ELSE doomed[q]
      BY <2>1 DEF Crash
    <3> QED BY <3>1
  <2>2. CASE ~Crash(rt)
    BY <1>1, <2>2 DEF RuntimeStep, Boot, BootDone, LeaseExpires, Heartbeat,
       ShutdownBegin, ReleaseLease, Restore, Mark, RecoveryFails
  <2> QED BY <2>1, <2>2
<1>2. ASSUME NEW rt \in Runtimes, HandlerStep(rt)
      PROVE  Prunes(q)
  BY <1>2 DEF HandlerStep, Scan, ScanAnswers, FinishCheck, FinishCommit,
     CancelSweep,
     CancelCommit, CleanupCheck, CleanupRemove, CleanupRecord, HandlerThrows
<1>3. ASSUME NEW r \in Runs, StartStep(r)
      PROVE  Prunes(q)
  <2>1. CASE PruneByAge(r)
    <3>1. /\ phase' = [phase EXCEPT ![r] = "EXPIRING"]
          /\ \E S : doomed' = [doomed EXCEPT ![r] = S]
      BY <2>1 DEF PruneByAge, Listed
    <3> QED BY <2>1, <3>1
  <2>2. CASE PruneByNumber(r)
    <3>1. /\ phase[r] = "EXPIRING" /\ phase' = [phase EXCEPT ![r] = "TRIMMING"]
          /\ \E S : doomed' = [doomed EXCEPT ![r] = S]
      BY <2>2 DEF PruneByNumber, Listed
    <3> QED BY <2>2, <3>1
  <2>3. CASE ~PruneByAge(r) /\ ~PruneByNumber(r)
    BY <1>3, <2>3 DEF StartStep, Admit, PruneDelete, ClaimWins, ClaimFails,
       Spawn,
       SpawnThrows, Release, Persist, Register, RegistrationFails, AbortSignal,
       Finalize, ChildExits
  <2> QED BY <2>1, <2>2, <2>3
<1>4. ASSUME NEW rt \in Runtimes, NEW r \in Runs, OwnerStep(rt, r)
      PROVE  Prunes(q)
  <2>1. CASE \/ \E k \in Keys \union {NoKey} : CallStart(rt, r, k)
             \/ RefuseStart(rt, r) \/ Reserve(rt, r) \/ AbortClosed(rt, r)
    <3>1. phase[r] \in {"NONE", "CALLED", "ABORTING"}
      BY <2>1 DEF CallStart, RefuseStart, Reserve, AbortClosed, IInv,
         UnownedIsNew
    <3>2. \E p \in {"ENTERED", "DONE", "RESERVED", "CLAIMED", "FINALIZING"} :
             phase' = [phase EXCEPT ![r] = p]
      BY <2>1 DEF CallStart, RefuseStart, Reserve, AbortClosed
    <3>3. doomed' = doomed
      BY <2>1 DEF CallStart, RefuseStart, Reserve, AbortClosed, runtimeVars
    <3> QED BY <3>1, <3>2, <3>3
  <2>2. CASE \/ ShutdownKill(rt, r) \/ AbortKill(rt, r) \/ OnError(rt, r)
             \/ OnClose(rt, r) \/ OnOutput(rt, r) \/ Cancel(rt, r)
             \/ ReadForeign(rt, r) \/ RecoverPending(rt, r) \/ PassOver(rt, r)
    BY <2>2 DEF ShutdownKill, AbortKill, OnError, OnClose, OnOutput, Cancel,
       ReadForeign, RecoverPending, PassOver
  <2> QED BY <1>4, <2>1, <2>2 DEF OwnerStep
<1> QED BY <1>0, <1>1, <1>2, <1>3, <1>4 DEF Next

LEMMA InitHeldInv == Init => HeldInv
  BY DEF Init, HeldInv, OnePrune, OnlyPrunesDelete, DoomedAreSpent, KeysAreHeld,
     Holds, Pruning

LEMMA NextHeldInv ==
  ASSUME NoOverlap, TypeOK, IInv, RecordInv, KeyInv, HeldInv, [Next]_vars
  PROVE  HeldInv'
<1>1. \A r \in Runs : Moves(r) /\ OwnerLasts(r)
  BY NextMoves, OwnersLast DEF RecordInv
<1>2. OnePrune'
  <2> SUFFICES ASSUME NEW p \in Runs, NEW q \in Runs, p # q,
                      phase'[p] \in Pruning, phase'[q] \in Pruning
               PROVE  FALSE
    BY DEF OnePrune
  <2>1. /\ phase[p] \in Pruning \/ PruneByAge(p)
        /\ phase[q] \in Pruning \/ PruneByAge(q)
    BY NextPrunes DEF Prunes
  <2>2. ~PruneByAge(p) \/ ~PruneByAge(q)
    BY DEF PruneByAge, Pruning, TypeOK
  <2>3. ~(phase[p] \in Pruning /\ phase[q] \in Pruning)
    BY DEF HeldInv, OnePrune
  <2> QED BY <2>1, <2>2, <2>3 DEF PruneByAge, MayPrune, NoOverlap
<1>3. OnlyPrunesDelete'
  BY NextPrunes DEF Prunes, HeldInv, OnlyPrunesDelete
<1>4. DoomedAreSpent'
  <2> SUFFICES ASSUME NEW q \in Runs, NEW k \in doomed'[q]
               PROVE  operation'[k] = NoOp \/ Spent(operation[k].run)'
    BY DEF DoomedAreSpent
  <2>k. k \in Keys
    BY NextType DEF TypeOK
  <2>1. ASSUME NEW r, Spent(r), operation'[k].run = r
        PROVE  Spent(operation[k].run)'
    <3>1. Spent(r)'
      BY <1>1, <2>1, SpentLasts
    <3> QED BY <2>1, <3>1 DEF Spent
  <2>2. CASE PruneByAge(q) \/ PruneByNumber(q)
    <3>1. operation' = operation /\ operation[k].status \in Terminal
      BY <2>2 DEF PruneByAge, PruneByNumber, Listed, TypeOK
    <3>2. Spent(operation[k].run)
      BY <2>k, <3>1 DEF KeyInv, OperationsAreTrue, Over, Spent
    <3> QED BY <2>1, <3>1, <3>2
  <2>3. CASE k \in doomed[q]
    <3>1. /\ phase[q] \in Pruning
          /\ operation[k] = NoOp \/ Spent(operation[k].run)
      BY <2>3 DEF HeldInv, OnlyPrunesDelete, DoomedAreSpent
    <3>2. CASE operation'[k] = operation[k]
      BY <2>1, <3>1, <3>2
    <3>3. ASSUME NEW p \in Runs, NEW j \in Keys, PruneDelete(p, j)
          PROVE  operation'[k] = NoOp \/ operation'[k] = operation[k]
      BY <2>k, <3>3 DEF PruneDelete, TypeOK
    <3>4. ASSUME NEW p \in Runs, ClaimWins(p)
          PROVE  FALSE
      BY <2>3, <3>1, <3>4 DEF ClaimWins, Pruning, HeldInv, OnePrune
    <3>5. ASSUME NEW rt \in Runtimes, Mark(rt)
          PROVE  operation'[k] = operation[k] \/
                   (operation'[k].run = operation[k].run /\ operation[k] # NoOp)
      BY <2>k, <3>5, WorkRun, SentinelsAssumption DEF Mark, NoWork, NoOp, TypeOK
    <3> QED BY <2>1, <3>1, <3>2, <3>3, <3>4, <3>5, OperationWrites
  <2> QED BY <2>2, <2>3, NextPrunes DEF Prunes
<1>5. KeysAreHeld'
  <2> SUFFICES ASSUME NEW r \in Runs, Holds(r)', key'[r] # NoKey, ~Dead(owner[r])'
               PROVE  operation'[key'[r]].run = r
    BY DEF KeysAreHeld
  <2>1. /\ key'[r] = key[r] /\ owner[r] # NoRuntime
        /\ Holds(r) \/ ClaimWins(r)
    BY NextHolds DEF Held
  <2>2. key[r] \in Keys /\ ~Dead(owner[r])
    BY <1>1, <2>1 DEF OwnerLasts, TypeOK
  <2>3. CASE ClaimWins(r)
    BY <2>1, <2>2, <2>3 DEF ClaimWins, TypeOK
  <2>4. CASE ~ClaimWins(r)
    <3>1. Holds(r) /\ operation[key[r]].run = r
      BY <2>1, <2>2, <2>4 DEF HeldInv, KeysAreHeld
    <3>2. ASSUME NEW q \in Runs, NEW k \in Keys, PruneDelete(q, k)
          PROVE  operation'[key[r]].run = r
      <4>1. ~Spent(r)
        BY <2>2, <3>1 DEF Spent, Holds, PreSpawn
      <4>2. operation[k] = NoOp \/ Spent(operation[k].run)
        BY <3>2 DEF PruneDelete, HeldInv, DoomedAreSpent
      <4>3. k # key[r]
        BY <3>1, <4>1, <4>2, SentinelsAssumption DEF NoOp
      <4> QED BY <2>2, <3>1, <3>2, <4>3 DEF PruneDelete, TypeOK
    <3>3. ASSUME NEW q \in Runs, ClaimWins(q)
          PROVE  operation'[key[r]].run = r
      <4>1. key[q] # key[r]
        BY <3>1, <3>3, SentinelsAssumption DEF ClaimWins, NoOp
      <4> QED BY <2>2, <3>1, <3>3, <4>1 DEF ClaimWins, TypeOK
    <3>4. ASSUME NEW rt \in Runtimes, Mark(rt)
          PROVE  operation'[key[r]].run = r
      BY <2>2, <3>1, <3>4 DEF Mark, TypeOK
    <3> QED BY <2>1, <3>1, <3>2, <3>3, <3>4, OperationWrites
  <2> QED BY <2>3, <2>4
<1> QED BY <1>2, <1>3, <1>4, <1>5 DEF HeldInv

LEMMA LivingRunsHold == HeldInv => LiveRunHoldsKey
  BY DEF HeldInv, KeysAreHeld, Holds, LiveRunHoldsKey

\* If runtimes prune one after the other, no prune, mark or second claim takes a
\* key from the living child that was started under it, while its owner holds
\* its lease.
THEOREM LiveRunsKeepTheirKey ==
  ASSUME "OVERLAP" \notin Disturbances
  PROVE  Spec => []LiveRunHoldsKey
<1>1. NoOverlap
  BY DEF NoOverlap
<1>2. /\ Init => HeldInv
      /\ TypeOK /\ IInv /\ RecordInv /\ KeyInv /\ HeldInv /\ [Next]_vars => HeldInv'
  BY <1>1, InitHeldInv, NextHeldInv
<1> QED BY <1>2, AlwaysKeyInv, LivingRunsHold, PTL DEF Spec
=============================================================================
