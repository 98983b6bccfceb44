---------------------------- MODULE TaskWorktree ----------------------------
(* The Git worktree of one Task until it is removed: edits and commits in it, *)
(* task.finish with its retention ref, task.cancel, task.cleanup (forced) and *)
(* task.gc (guarded by checks, a recovery ref and HEAD.lock), as several      *)
(* processes interleave them.  Commit n is the n-th after base_head, which    *)
(* is 0; a commit contains those before it.                                   *)
EXTENDS Integers

CONSTANTS
  Callers,       \* tool calls that may be in flight at a time
  Finishers,     \* those that may be a task.finish or a Plan's TASK_FINISH
  Collectors,    \* those that may be a task.gc
  NoOwner, Git,  \* HEAD.lock does not exist; a git commit owns it
  MaxCommits,    \* bound on the commits made in the worktree
  Disturbances   \* "CRASH": a process ends; "ERROR": an await throws

ASSUME WorktreeAssumption ==
  /\ Finishers \subseteq Callers /\ Collectors \subseteq Callers
  /\ NoOwner \notin Callers /\ Git \notin Callers /\ Git # NoOwner
  /\ MaxCommits \in Nat
  /\ Disturbances \subseteq {"CRASH", "ERROR"}

VARIABLES
  status,      \* durable Task: ACTIVE, COMPLETED or CANCELLED
  outcome,     \* durable: COMMIT or NO_CHANGE once COMPLETED
  finalCommit, \* durable final_commit_sha
  cleaned,     \* durable workspace_cleaned
  aged,        \* the Task was finalised stale_after_seconds ago
  worktree,    \* the worktree exists and is registered
  head,        \* its HEAD, detached
  dirty,       \* it has changes
  taskRef,     \* refs/agentdock/tasks/<task>, or NoCommit
  gcRef,       \* refs/agentdock/gc-safety/<task>, or NoCommit
  lock,        \* who created HEAD.lock of the worktree
  pc,          \* where a call is
  seen         \* the HEAD a task.finish read

taskVars == <<status, outcome, finalCommit, cleaned, aged>>
treeVars == <<worktree, head, dirty, lock>>
refVars  == <<taskRef, gcRef>>
worktreeVars == <<taskVars, treeVars, refVars, pc, seen>>

Commits == 0..MaxCommits
NoCommit == -1

FinishPlaces == {"HEAD", "RETAIN", "VERIFY", "FINISH"}
ForcePlaces == {"FORCE_RETAINED", "FORCE_REMOVE"}
GcPlaces == {"GC_RETAINED", "GC_DIFF", "GC_HEAD", "GC_SAFETY", "GC_LOCK"}
LockedPlaces == {"LOCKED_DIFF", "LOCKED_HEAD", "GC_REMOVE"}
UnlinkPlaces == {"UNLINK_FAILED", "UNLINK_DONE"}
Places ==
  {"IDLE", "RECORD"} \union FinishPlaces \union ForcePlaces
    \union GcPlaces \union LockedPlaces \union UnlinkPlaces

WorktreeTypeOK ==
  /\ status \in {"ACTIVE", "COMPLETED", "CANCELLED"}
  /\ outcome \in {"NONE", "COMMIT", "NO_CHANGE"}
  /\ finalCommit \in Commits
  /\ cleaned \in BOOLEAN /\ aged \in BOOLEAN
  /\ worktree \in BOOLEAN /\ head \in Commits /\ dirty \in BOOLEAN
  /\ taskRef \in Commits \union {NoCommit}
  /\ gcRef \in Commits \union {NoCommit}
  /\ lock \in Callers \union {NoOwner, Git}
  /\ pc \in [Callers -> Places]
  /\ seen \in [Callers -> Commits]

\* task.create: a clean detached worktree at the HEAD of the repository.
WorktreeInit ==
  /\ status = "ACTIVE" /\ outcome = "NONE" /\ finalCommit = 0
  /\ cleaned = FALSE /\ aged = FALSE
  /\ worktree = TRUE /\ head = 0 /\ dirty = FALSE
  /\ taskRef = NoCommit /\ gcRef = NoCommit
  /\ lock = NoOwner
  /\ pc = [c \in Callers |-> "IDLE"]
  /\ seen = [c \in Callers |-> 0]

Goto(c, place) == pc' = [pc EXCEPT ![c] = place]

-----------------------------------------------------------------------------
(* What goes on in the worktree: Runs, people, and git.commit calls that     *)
(* began while the Task was ACTIVE.                                          *)

Edit ==
  /\ worktree /\ ~dirty
  /\ dirty' = TRUE
  /\ UNCHANGED <<taskVars, worktree, head, lock, refVars, pc, seen>>

\* git commit creates HEAD.lock, and renames it over HEAD.
CommitLocks ==
  /\ worktree /\ dirty /\ lock = NoOwner /\ head < MaxCommits
  /\ lock' = Git
  /\ UNCHANGED <<taskVars, worktree, head, dirty, refVars, pc, seen>>

CommitMoves ==
  /\ worktree /\ lock = Git /\ head < MaxCommits
  /\ head' = head + 1
  /\ dirty' \in {FALSE, dirty}
  /\ lock' = NoOwner
  /\ UNCHANGED <<taskVars, worktree, refVars, pc, seen>>

\* Time passes beyond the retention window.
Age ==
  /\ status # "ACTIVE" /\ ~aged
  /\ aged' = TRUE
  /\ UNCHANGED <<status, outcome, finalCommit, cleaned, treeVars, refVars, pc,
                 seen>>

-----------------------------------------------------------------------------
(* task.finish and TASK_FINISH                                               *)

FinishBegin(c) ==
  /\ pc[c] = "IDLE" /\ c \in Finishers
  /\ status = "ACTIVE" /\ ~dirty
  /\ Goto(c, "HEAD")
  /\ UNCHANGED <<taskVars, treeVars, refVars, seen>>

\* Mutant: a finish that retains the commit only after it is recorded.
FinishHeadUnretained(c) ==
  /\ pc[c] = "HEAD" /\ worktree
  /\ seen' = [seen EXCEPT ![c] = head]
  /\ Goto(c, "FINISH")
  /\ UNCHANGED <<taskVars, treeVars, refVars>>

\* A new commit makes the outcome COMMIT, base HEAD makes it NO_CHANGE; an
\* explicit outcome that says otherwise, or missing evidence, ends the call.
FinishHead(c) ==
  /\ pc[c] = "HEAD" /\ worktree
  /\ \/ /\ seen' = [seen EXCEPT ![c] = head]
        /\ Goto(c, IF head > 0 THEN "RETAIN" ELSE "FINISH")
     \/ /\ Goto(c, "IDLE")
        /\ UNCHANGED seen
  /\ UNCHANGED <<taskVars, treeVars, refVars>>

\* retainTaskCommit: update-ref, whatever the ref points at ...
Retain(c) ==
  /\ pc[c] = "RETAIN"
  /\ taskRef' = seen[c]
  /\ Goto(c, "VERIFY")
  /\ UNCHANGED <<taskVars, treeVars, gcRef, seen>>

\* ... and rev-parse.
Verify(c) ==
  /\ pc[c] = "VERIFY"
  /\ Goto(c, IF taskRef = seen[c] THEN "FINISH" ELSE "IDLE")
  /\ UNCHANGED <<taskVars, treeVars, refVars, seen>>

\* TaskService.finish; a Task that is no longer ACTIVE makes it throw.
Finish(c) ==
  /\ pc[c] = "FINISH"
  /\ Goto(c, "IDLE")
  /\ IF status = "ACTIVE"
     THEN /\ status' = "COMPLETED"
          /\ outcome' = IF seen[c] > 0 THEN "COMMIT" ELSE "NO_CHANGE"
          /\ finalCommit' = seen[c]
          /\ UNCHANGED <<cleaned, aged>>
     ELSE UNCHANGED taskVars
  /\ UNCHANGED <<treeVars, refVars, seen>>

\* TaskService.cancel
Cancel ==
  /\ status = "ACTIVE"
  /\ status' = "CANCELLED"
  /\ UNCHANGED <<outcome, finalCommit, cleaned, aged, treeVars, refVars, pc,
                 seen>>

-----------------------------------------------------------------------------
(* task.cleanup                                                              *)

Delivered == status = "COMPLETED" /\ outcome = "COMMIT"

CleanupBegin(c) ==
  /\ pc[c] = "IDLE"
  /\ status # "ACTIVE" /\ ~cleaned
  /\ Goto(c, IF Delivered THEN "FORCE_RETAINED" ELSE "FORCE_REMOVE")
  /\ UNCHANGED <<taskVars, treeVars, refVars, seen>>

\* assertRetainedTaskCommit
CleanupRetained(c) ==
  /\ pc[c] = "FORCE_RETAINED"
  /\ Goto(c, IF taskRef = finalCommit THEN "FORCE_REMOVE" ELSE "IDLE")
  /\ UNCHANGED <<taskVars, treeVars, refVars, seen>>

\* The worktree goes, with its HEAD.lock and whatever was in it.
Gone ==
  /\ worktree' = FALSE /\ dirty' = FALSE /\ lock' = NoOwner
  /\ UNCHANGED head

\* git worktree remove --force, unless somebody else removed it.
CleanupRemove(c) ==
  /\ pc[c] = "FORCE_REMOVE"
  /\ Gone
  /\ Goto(c, "RECORD")
  /\ UNCHANGED <<taskVars, refVars, seen>>

\* The last mutation of cleanup, forced or not.
Record(c) ==
  /\ pc[c] = "RECORD"
  /\ cleaned' = TRUE
  /\ Goto(c, "IDLE")
  /\ UNCHANGED <<status, outcome, finalCommit, aged, treeVars, refVars, seen>>

-----------------------------------------------------------------------------
(* task.gc                                                                   *)

ExpectedHead == IF Delivered THEN finalCommit ELSE 0

\* What task.reconcile reports as a candidate.
Eligible ==
  /\ status # "ACTIVE" /\ ~cleaned /\ aged
  /\ worktree /\ ~dirty
  /\ head = ExpectedHead
  /\ Delivered => taskRef = finalCommit

\* The preview of gc: its token is still the one of task.reconcile.
GcBegin(c) ==
  /\ pc[c] = "IDLE" /\ c \in Collectors
  /\ Eligible
  /\ Goto(c, IF Delivered THEN "GC_RETAINED" ELSE "GC_DIFF")
  /\ UNCHANGED <<taskVars, treeVars, refVars, seen>>

\* A check of cleanup before the lock: the call goes on, or throws.
GcCheck(c, place, holds, next) ==
  /\ pc[c] = place
  /\ Goto(c, IF holds THEN next ELSE "IDLE")
  /\ UNCHANGED <<taskVars, treeVars, refVars, seen>>

GcRetained(c) == GcCheck(c, "GC_RETAINED", taskRef = finalCommit, "GC_DIFF")
GcDiff(c) == GcCheck(c, "GC_DIFF", worktree /\ ~dirty, "GC_HEAD")
GcHead(c) == GcCheck(c, "GC_HEAD", worktree /\ head = ExpectedHead, "GC_SAFETY")

\* retainGcSafetyCommit never overwrites another commit.
GcSafety(c) ==
  /\ pc[c] = "GC_SAFETY"
  /\ IF gcRef \in {NoCommit, ExpectedHead}
     THEN gcRef' = ExpectedHead /\ Goto(c, "GC_LOCK")
     ELSE UNCHANGED gcRef /\ Goto(c, "IDLE")
  /\ UNCHANGED <<taskVars, treeVars, taskRef, seen>>

\* open(HEAD.lock, "wx").  When somebody else owns it the call throws, and
\* still unlinks the path in its finally.
GcLock(c) ==
  /\ pc[c] = "GC_LOCK"
  /\ \/ /\ worktree /\ lock = NoOwner
        /\ lock' = c
        /\ Goto(c, "LOCKED_DIFF")
     \/ /\ worktree /\ lock # NoOwner
        /\ Goto(c, "UNLINK_FAILED")
        /\ UNCHANGED lock
     \/ /\ ~worktree
        /\ Goto(c, "RECORD")
        /\ UNCHANGED lock
  /\ UNCHANGED <<taskVars, worktree, head, dirty, refVars, seen>>

\* The checks under the lock.
LockedCheck(c, place, holds, next) ==
  /\ pc[c] = place
  /\ Goto(c, IF holds THEN next ELSE "UNLINK_FAILED")
  /\ UNCHANGED <<taskVars, treeVars, refVars, seen>>

\* Mutant: HEAD is not read again under the lock.
LockedHeadTrusting(c) == LockedCheck(c, "LOCKED_HEAD", worktree, "GC_REMOVE")

LockedDiff(c) ==
  LockedCheck(c, "LOCKED_DIFF", worktree /\ ~dirty, "LOCKED_HEAD")
LockedHead(c) ==
  LockedCheck(c, "LOCKED_HEAD", worktree /\ head = ExpectedHead, "GC_REMOVE")

\* Mutant: a failing git worktree remove is taken for a removed worktree.
GcRemoveAssumed(c) ==
  /\ pc[c] = "GC_REMOVE"
  /\ IF worktree /\ ~dirty THEN Gone ELSE UNCHANGED treeVars
  /\ Goto(c, "UNLINK_DONE")
  /\ UNCHANGED <<taskVars, refVars, seen>>

\* git worktree remove refuses a worktree with changes.
GcRemove(c) ==
  /\ pc[c] = "GC_REMOVE"
  /\ IF worktree /\ ~dirty
     THEN Gone /\ Goto(c, "UNLINK_DONE")
     ELSE UNCHANGED treeVars /\ Goto(c, "UNLINK_FAILED")
  /\ UNCHANGED <<taskVars, refVars, seen>>

\* unlink(HEAD.lock) in the finally of removeWorktree
Unlink(c) ==
  /\ pc[c] \in UnlinkPlaces
  /\ lock' = NoOwner
  /\ Goto(c, IF pc[c] = "UNLINK_DONE" THEN "RECORD" ELSE "IDLE")
  /\ UNCHANGED <<taskVars, worktree, head, dirty, refVars, seen>>

-----------------------------------------------------------------------------
(* Failures                                                                  *)

\* An await throws; under the lock the finally runs.
Throws(c) ==
  /\ "ERROR" \in Disturbances
  /\ pc[c] \in Places \ ({"IDLE"} \union UnlinkPlaces)
  /\ Goto(c, IF pc[c] \in LockedPlaces THEN "UNLINK_FAILED" ELSE "IDLE")
  /\ UNCHANGED <<taskVars, treeVars, refVars, seen>>

\* The process ends and leaves HEAD.lock behind.
Crash(c) ==
  /\ "CRASH" \in Disturbances
  /\ pc[c] # "IDLE"
  /\ Goto(c, "IDLE")
  /\ UNCHANGED <<taskVars, treeVars, refVars, seen>>

-----------------------------------------------------------------------------
WorktreeCall(c) ==
  \/ FinishBegin(c) \/ FinishHead(c) \/ Retain(c) \/ Verify(c) \/ Finish(c)
  \/ CleanupBegin(c) \/ CleanupRetained(c) \/ CleanupRemove(c) \/ Record(c)
  \/ GcBegin(c) \/ GcRetained(c) \/ GcDiff(c) \/ GcHead(c) \/ GcSafety(c)
  \/ GcLock(c) \/ LockedDiff(c) \/ LockedHead(c) \/ GcRemove(c) \/ Unlink(c)
  \/ Throws(c) \/ Crash(c)

WorktreeNext ==
  \/ Edit \/ CommitLocks \/ CommitMoves \/ Age \/ Cancel
  \/ \E c \in Callers : WorktreeCall(c)

WorktreeSpec == WorktreeInit /\ [][WorktreeNext]_worktreeVars

-----------------------------------------------------------------------------
(* Properties                                                                *)

\* The ref of a COMPLETED Task with a commit points at that commit, from the
\* moment of completion on (docs/service-lifecycle.md, Durable completion).
RetentionIsExact == Delivered => taskRef = finalCommit

\* A delivered commit stays reachable: from a ref, or from the HEAD of the
\* worktree while that exists.
DeliveredIsReachable ==
  Delivered =>
    \/ taskRef >= finalCommit
    \/ gcRef >= finalCommit
    \/ worktree /\ head >= finalCommit

\* A worktree that task.gc removes has no commit beyond the one its Task
\* ended with, and the recovery ref points there.
GcLosesNoCommit ==
  [][\A c \in Callers :
       pc[c] = "GC_REMOVE" /\ pc'[c] = "UNLINK_DONE" =>
         head = ExpectedHead /\ gcRef = head]_worktreeVars

\* A Task that is recorded as cleaned has no worktree, after any crash.
CleanedIsGone == cleaned => ~worktree
=============================================================================
