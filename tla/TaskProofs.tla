----------------------------- MODULE TaskProofs -----------------------------
(* Proofs about what surrounds a Task, each for any values of its constants:  *)
(* Workflow (evidence, review and planning gates cannot be bypassed over any  *)
(* path of events), TaskWorktree (cleaned Tasks have no worktree and, where   *)
(* calls of one kind do not overlap, the retention ref is exact and garbage   *)
(* collection loses no commit) and Approval (an approval given once starts    *)
(* one command, and no start goes on without one that covers it).  The three  *)
(* share no variable.                                                         *)
EXTENDS Workflow, TaskWorktree, Approval, SequenceTheorems, TLAPS

-----------------------------------------------------------------------------
(* Workflow                                                                  *)

\* The events of workflow.advance that leave evidence and review alone.
WorkflowMoves ==
  \/ \E configured \in BOOLEAN : SetupComplete(configured)
  \/ PrototypeNeeded \/ PrototypeComplete \/ Blocked \/ Resume
  \/ GrillingComplete \/ MapClear \/ SpecComplete \/ TicketsComplete
  \/ ReviewPassed

\* A step of Workflow, in the parts that the proofs treat alike.
LEMMA WorkflowCases ==
  ASSUME [WorkflowNext]_workflowVars
  PROVE  \/ UNCHANGED workflowVars
         \/ \E sessionSpan \in Spans :
            \E foggy, decisionsSettled, configured, replace \in BOOLEAN :
              StartWorkflow(sessionSpan, foggy, decisionsSettled, configured,
                            replace)
         \/ UpdateWorkflow
         \/ WorkflowMoves
         \/ ImplementationComplete
         \/ ReviewChangesRequested
         \/ \E t \in Tasks : TaskEnds(t)
  BY DEF WorkflowNext, Advance, WorkflowMoves

-----------------------------------------------------------------------------
LEMMA NoReviewType == NoReview \in Reviews
  BY DEF NoReview, Reviews

LEMMA WorkflowTypeInit == WorkflowInit => WorkflowTypeOK
<1> SUFFICES ASSUME WorkflowInit PROVE WorkflowTypeOK
  OBVIOUS
<1>1. taskState \in [Tasks -> {"ACTIVE", "CANCELLED", "DELIVERED", "LEGACY"}]
  BY DEF WorkflowInit
<1>2. QED
  BY <1>1, NoReviewType DEF WorkflowInit, WorkflowTypeOK, Spans

LEMMA WorkflowTypeStep ==
  WorkflowTypeOK /\ [WorkflowNext]_workflowVars => WorkflowTypeOK'
<1> SUFFICES ASSUME WorkflowTypeOK, [WorkflowNext]_workflowVars
             PROVE  WorkflowTypeOK'
  OBVIOUS
<1> USE DEF WorkflowTypeOK, NoPhase, Phases, RoutedPhases
<1>1. CASE UNCHANGED workflowVars
  BY <1>1 DEF workflowVars, documentVars
<1>2. ASSUME NEW sessionSpan \in Spans, NEW foggy \in BOOLEAN,
             NEW decisionsSettled \in BOOLEAN, NEW configured \in BOOLEAN,
             NEW replace \in BOOLEAN,
             StartWorkflow(sessionSpan, foggy, decisionsSettled, configured,
                           replace)
      PROVE WorkflowTypeOK'
  <2>1. RouteForStart(sessionSpan, foggy, decisionsSettled) \in RoutedPhases
    BY DEF RouteForStart
  <2>2. QED
    BY <1>2, <2>1, NoReviewType DEF StartWorkflow
<1>3. CASE UpdateWorkflow
  <2>1. CASE UpdateSpan
    BY <1>3, <2>1 DEF UpdateWorkflow, UpdateSpan
  <2>2. CASE UpdateOpen
    BY <1>3, <2>2 DEF UpdateWorkflow, UpdateOpen
  <2>3. CASE UpdateReview
    BY <1>3, <2>3 DEF UpdateWorkflow, UpdateReview, Relink
  <2>4. QED
    BY <1>3, <2>1, <2>2, <2>3 DEF UpdateWorkflow
<1>4. CASE WorkflowMoves
  <2> USE DEF Reported, Kept
  <2>1. ASSUME NEW configured \in BOOLEAN, SetupComplete(configured)
        PROVE WorkflowTypeOK'
    BY <2>1 DEF SetupComplete
  <2>2. CASE PrototypeNeeded \/ Blocked
    BY <2>2 DEF PrototypeNeeded, Blocked
  <2>3. CASE PrototypeComplete \/ Resume
    BY <2>3 DEF PrototypeComplete, Resume, Return
  <2>4. CASE GrillingComplete \/ MapClear \/ SpecComplete
    BY <2>4 DEF GrillingComplete, MapClear, SpecComplete, Boundary
  <2>5. CASE TicketsComplete \/ ReviewPassed
    BY <2>5 DEF TicketsComplete, ReviewPassed
  <2>6. QED
    BY <1>4, <2>1, <2>2, <2>3, <2>4, <2>5 DEF WorkflowMoves
<1>5. CASE ImplementationComplete \/ ReviewChangesRequested
  <2>1. evidence' \subseteq Tasks
    BY <1>5 DEF ImplementationComplete, ReviewChangesRequested
  <2>2. QED
    BY <1>5, <2>1, NoReviewType
       DEF ImplementationComplete, ReviewChangesRequested, Reported
<1>6. ASSUME NEW t \in Tasks, TaskEnds(t)
      PROVE WorkflowTypeOK'
  BY <1>6 DEF TaskEnds, documentVars
<1>7. QED
  BY <1>1, <1>2, <1>3, <1>4, <1>5, <1>6, WorkflowCases

\* The document and the history keep their types, whatever is linked.
THEOREM WorkflowTypeCorrect == WorkflowSpec => []WorkflowTypeOK
  BY WorkflowTypeInit, WorkflowTypeStep, PTL DEF WorkflowSpec

-----------------------------------------------------------------------------
(* Evidence is current because relinking drops it, delivered Tasks stay so,  *)
(* and REVIEW is left only to DONE, to BLOCKED (which returns to it), or with *)
(* the evidence dropped.  A prototype, which BLOCKED does not return from, is *)
(* never entered from REVIEW.                                                *)

EvidenceInv ==
  /\ EvidenceIsCurrent
  /\ phase = "PROTOTYPE" => returnPhase \in {"GRILLING", "WAYFINDING", NoPhase}

LEMMA EvidenceStep ==
  WorkflowTypeOK /\ EvidenceInv /\ [WorkflowNext]_workflowVars => EvidenceInv'
<1> SUFFICES ASSUME WorkflowTypeOK, EvidenceInv,
                    [WorkflowNext]_workflowVars
             PROVE  EvidenceInv'
  OBVIOUS
<1> USE DEF EvidenceInv, EvidenceIsCurrent, Destination
<1>1. CASE UNCHANGED workflowVars
  BY <1>1 DEF workflowVars, documentVars
<1>2. CASE \E sessionSpan \in Spans :
           \E foggy, decisionsSettled, configured, replace \in BOOLEAN :
             StartWorkflow(sessionSpan, foggy, decisionsSettled, configured,
                           replace)
  BY <1>2 DEF StartWorkflow
<1>3. CASE UpdateWorkflow
  BY <1>3 DEF UpdateWorkflow, UpdateSpan, UpdateOpen, UpdateReview, Relink
<1>4. CASE WorkflowMoves
  <2> USE DEF Kept
  <2>1. ASSUME NEW configured \in BOOLEAN, SetupComplete(configured)
        PROVE EvidenceInv'
    BY <2>1 DEF SetupComplete, WorkflowTypeOK, RoutedPhases, NoPhase
  <2>2. CASE PrototypeNeeded \/ Blocked
    BY <2>2 DEF PrototypeNeeded, Blocked, NoPhase
  <2>3. CASE PrototypeComplete \/ Resume
    BY <2>3 DEF PrototypeComplete, Resume, Return, WorkflowTypeOK, Phases,
                NoPhase
  <2>4. CASE GrillingComplete \/ MapClear \/ SpecComplete
    BY <2>4 DEF GrillingComplete, MapClear, SpecComplete, Boundary
  <2>5. CASE TicketsComplete \/ ReviewPassed
    BY <2>5 DEF TicketsComplete, ReviewPassed
  <2>6. QED
    BY <1>4, <2>1, <2>2, <2>3, <2>4, <2>5 DEF WorkflowMoves
<1>5. CASE ImplementationComplete
  BY <1>5 DEF ImplementationComplete
<1>6. CASE ReviewChangesRequested
  BY <1>6 DEF ReviewChangesRequested
<1>7. ASSUME NEW t \in Tasks, TaskEnds(t)
      PROVE EvidenceInv'
  BY <1>7 DEF TaskEnds, documentVars, WorkflowTypeOK
<1>8. QED
  BY <1>1, <1>2, <1>3, <1>4, <1>5, <1>6, <1>7, WorkflowCases

\* Captured evidence is about the linked Tasks, all of them delivered, and
\* does not outlive the review it was captured for.
THEOREM EvidenceCorrect == WorkflowSpec => []EvidenceIsCurrent
<1>1. WorkflowInit => EvidenceInv
  BY DEF WorkflowInit, EvidenceInv, EvidenceIsCurrent, NoPhase
<1>2. EvidenceInv => EvidenceIsCurrent
  BY DEF EvidenceInv
<1>3. QED
  BY <1>1, <1>2, EvidenceStep, WorkflowTypeInit, WorkflowTypeStep, PTL
     DEF WorkflowSpec

-----------------------------------------------------------------------------
LEMMA DoneStep ==
  WorkflowTypeOK /\ EvidenceIsCurrent /\ DoneIsReviewed
    /\ [WorkflowNext]_workflowVars => DoneIsReviewed'
<1> SUFFICES ASSUME WorkflowTypeOK, EvidenceIsCurrent, DoneIsReviewed,
                    [WorkflowNext]_workflowVars
             PROVE  DoneIsReviewed'
  OBVIOUS
<1> USE DEF DoneIsReviewed
<1>1. CASE UNCHANGED workflowVars
  BY <1>1 DEF workflowVars, documentVars
<1>2. CASE \E sessionSpan \in Spans :
           \E foggy, decisionsSettled, configured, replace \in BOOLEAN :
             StartWorkflow(sessionSpan, foggy, decisionsSettled, configured,
                           replace)
  BY <1>2 DEF StartWorkflow
<1>3. CASE UpdateWorkflow
  BY <1>3 DEF UpdateWorkflow
<1>4. CASE WorkflowMoves
  <2> USE DEF Kept
  <2>1. ASSUME NEW configured \in BOOLEAN, SetupComplete(configured)
        PROVE DoneIsReviewed'
    BY <2>1 DEF SetupComplete, WorkflowTypeOK, RoutedPhases, NoPhase
  <2>2. CASE PrototypeNeeded \/ Blocked
    BY <2>2 DEF PrototypeNeeded, Blocked
  <2>3. CASE PrototypeComplete \/ Resume
    BY <2>3 DEF PrototypeComplete, Resume, Return, WorkflowTypeOK, Phases,
                NoPhase
  <2>4. CASE GrillingComplete \/ MapClear \/ SpecComplete
    BY <2>4 DEF GrillingComplete, MapClear, SpecComplete, Boundary
  <2>5. CASE TicketsComplete
    BY <2>5 DEF TicketsComplete
  <2>6. CASE ReviewPassed
    <3>1. evidence # {} => review.pass /\ review.target = linked
      BY <2>6 DEF ReviewPassed, EvidenceIsCurrent
    <3>2. evidence # {} => review = [target |-> linked, pass |-> TRUE]
      BY <3>1 DEF WorkflowTypeOK, Reviews
    <3>3. QED
      BY <2>6, <3>2 DEF ReviewPassed
  <2>7. QED
    BY <1>4, <2>1, <2>2, <2>3, <2>4, <2>5, <2>6 DEF WorkflowMoves
<1>5. CASE ImplementationComplete \/ ReviewChangesRequested
  BY <1>5 DEF ImplementationComplete, ReviewChangesRequested
<1>6. ASSUME NEW t \in Tasks, TaskEnds(t)
      PROVE DoneIsReviewed'
  BY <1>6 DEF TaskEnds, documentVars
<1>7. QED
  BY <1>1, <1>2, <1>3, <1>4, <1>5, <1>6, WorkflowCases

\* A workflow that ends with evidence ends with a passing review of exactly
\* that implementation.
THEOREM DoneCorrect == WorkflowSpec => []DoneIsReviewed
<1>1. WorkflowInit => DoneIsReviewed
  BY DEF WorkflowInit, DoneIsReviewed
<1>2. QED
  BY <1>1, EvidenceCorrect, WorkflowTypeCorrect, DoneStep, PTL
     DEF WorkflowSpec

-----------------------------------------------------------------------------
(* The planning gates.  Besides where a detour leads now, the induction needs *)
(* that BLOCKED and PROTOTYPE remember a phase while a workflow is in them,   *)
(* and that only a detour from SETUP keeps an after_setup_phase.             *)

GateInv ==
  /\ NothingBuiltUnsettled
  /\ phase = "BLOCKED" => returnPhase # NoPhase
  /\ phase \notin {"BLOCKED", "PROTOTYPE"} => returnPhase = NoPhase
  /\ phase # "BLOCKED" => returnPhase # "SETUP"

LEMMA GateStep ==
  WorkflowTypeOK /\ GateInv /\ [WorkflowNext]_workflowVars => GateInv'
<1> SUFFICES ASSUME WorkflowTypeOK, GateInv, [WorkflowNext]_workflowVars
             PROVE  GateInv'
  OBVIOUS
<1> USE DEF GateInv, NothingBuiltUnsettled, BuildPhases, Destination, NoPhase
<1>1. CASE UNCHANGED workflowVars
  BY <1>1 DEF workflowVars, documentVars
<1>2. ASSUME NEW sessionSpan \in Spans, NEW foggy \in BOOLEAN,
             NEW decisionsSettled \in BOOLEAN, NEW configured \in BOOLEAN,
             NEW replace \in BOOLEAN,
             StartWorkflow(sessionSpan, foggy, decisionsSettled, configured,
                           replace)
      PROVE GateInv'
  <2>1. \/ decisionsSettled
        \/ RouteForStart(sessionSpan, foggy, decisionsSettled)
             \in {"GRILLING", "WAYFINDING"}
    BY DEF RouteForStart
  <2>2. RouteForStart(sessionSpan, foggy, decisionsSettled) \in RoutedPhases
    BY DEF RouteForStart, RoutedPhases
  <2>3. QED
    BY <1>2, <2>1, <2>2 DEF StartWorkflow, RoutedPhases
<1>3. CASE UpdateWorkflow
  BY <1>3 DEF UpdateWorkflow
<1>4. CASE WorkflowMoves
  <2> USE DEF Kept, WorkflowTypeOK, Phases, RoutedPhases
  <2>1. ASSUME NEW configured \in BOOLEAN, SetupComplete(configured)
        PROVE GateInv'
    BY <2>1 DEF SetupComplete
  <2>2. CASE PrototypeNeeded \/ Blocked
    BY <2>2 DEF PrototypeNeeded, Blocked
  <2>3. CASE PrototypeComplete \/ Resume
    BY <2>3 DEF PrototypeComplete, Resume, Return
  <2>4. CASE GrillingComplete \/ MapClear \/ SpecComplete
    BY <2>4 DEF GrillingComplete, MapClear, SpecComplete, Boundary
  <2>5. CASE TicketsComplete \/ ReviewPassed
    BY <2>5 DEF TicketsComplete, ReviewPassed
  <2>6. QED
    BY <1>4, <2>1, <2>2, <2>3, <2>4, <2>5 DEF WorkflowMoves
<1>5. CASE ImplementationComplete \/ ReviewChangesRequested
  BY <1>5 DEF ImplementationComplete, ReviewChangesRequested
<1>6. ASSUME NEW t \in Tasks, TaskEnds(t)
      PROVE GateInv'
  BY <1>6 DEF TaskEnds, documentVars
<1>7. QED
  BY <1>1, <1>2, <1>3, <1>4, <1>5, <1>6, WorkflowCases

\* No sequence of events, with its detours, reaches a build phase before the
\* decisions were settled.
THEOREM GatesHold == WorkflowSpec => []NothingBuiltUnsettled
<1>1. WorkflowInit => GateInv
  BY DEF WorkflowInit, GateInv, NothingBuiltUnsettled, BuildPhases,
         Destination, NoPhase
<1>2. GateInv => NothingBuiltUnsettled
  BY DEF GateInv
<1>3. QED
  BY <1>1, <1>2, GateStep, WorkflowTypeInit, WorkflowTypeStep, PTL
     DEF WorkflowSpec

-----------------------------------------------------------------------------
(* TaskWorktree                                                              *)

\* One task.finish at a time, and one task.gc at a time.
OneFinisher == \A c, d \in Finishers : c = d
OneCollector == \A c, d \in Collectors : c = d

-----------------------------------------------------------------------------
LEMMA WorktreeTypeInit == WorktreeInit => WorktreeTypeOK
<1> SUFFICES ASSUME WorktreeInit PROVE WorktreeTypeOK
  OBVIOUS
<1>1. 0 \in Commits /\ "IDLE" \in Places
  BY WorktreeAssumption DEF Commits, Places
<1>2. QED
  BY <1>1 DEF WorktreeInit, WorktreeTypeOK

LEMMA WorktreeTypeStep == WorktreeTypeOK /\ [WorktreeNext]_worktreeVars => WorktreeTypeOK'
<1> SUFFICES ASSUME WorktreeTypeOK, [WorktreeNext]_worktreeVars PROVE WorktreeTypeOK'
  OBVIOUS
<1> USE WorktreeAssumption
        DEF WorktreeTypeOK, Commits, NoCommit, Places, FinishPlaces, ForcePlaces,
            GcPlaces, LockedPlaces, UnlinkPlaces, taskVars, treeVars, refVars,
            Goto
<1>1. CASE UNCHANGED worktreeVars
  BY <1>1 DEF worktreeVars
<1>2. CASE Edit \/ CommitLocks \/ Age \/ Cancel
  BY <1>2 DEF Edit, CommitLocks, Age, Cancel
<1>2a. CASE CommitMoves
  <2>1. head' \in Commits
    BY <1>2a DEF CommitMoves
  <2>2. dirty' \in BOOLEAN
    BY <1>2a, Zenon DEF CommitMoves
  <2>3. QED
    BY <1>2a, <2>1, <2>2 DEF CommitMoves
<1>3. ASSUME NEW c \in Callers,
             FinishBegin(c) \/ FinishHead(c) \/ Retain(c) \/ Verify(c)
      PROVE WorktreeTypeOK'
  BY <1>3 DEF FinishBegin, FinishHead, Retain, Verify
<1>4. ASSUME NEW c \in Callers, Finish(c)
      PROVE WorktreeTypeOK'
  BY <1>4 DEF Finish
<1>5. ASSUME NEW c \in Callers,
             CleanupBegin(c) \/ CleanupRetained(c) \/ CleanupRemove(c)
               \/ Record(c)
      PROVE WorktreeTypeOK'
  BY <1>5 DEF CleanupBegin, CleanupRetained, CleanupRemove, Record, Gone
<1>6. ASSUME NEW c \in Callers,
             GcBegin(c) \/ GcRetained(c) \/ GcDiff(c) \/ GcHead(c)
      PROVE WorktreeTypeOK'
  BY <1>6 DEF GcBegin, GcRetained, GcDiff, GcHead, GcCheck
<1>7. ASSUME NEW c \in Callers, GcSafety(c)
      PROVE WorktreeTypeOK'
  BY <1>7 DEF GcSafety, ExpectedHead, Delivered
<1>8. ASSUME NEW c \in Callers,
             GcLock(c) \/ LockedDiff(c) \/ LockedHead(c) \/ GcRemove(c)
               \/ Unlink(c)
      PROVE WorktreeTypeOK'
  <2>1. CASE GcLock(c)
    BY <2>1 DEF GcLock
  <2>2. CASE LockedDiff(c) \/ LockedHead(c)
    BY <2>2 DEF LockedDiff, LockedHead, LockedCheck
  <2>3. CASE GcRemove(c)
    BY <2>3 DEF GcRemove, Gone
  <2>4. CASE Unlink(c)
    BY <2>4 DEF Unlink
  <2>5. QED
    BY <1>8, <2>1, <2>2, <2>3, <2>4
<1>9. ASSUME NEW c \in Callers, Throws(c) \/ Crash(c)
      PROVE WorktreeTypeOK'
  <2>1. UNCHANGED <<taskVars, treeVars, refVars, seen>>
    BY <1>9 DEF Throws, Crash
  <2>2. PICK place \in {"IDLE", "UNLINK_FAILED"} : Goto(c, place)
    BY <1>9 DEF Throws, Crash
  <2>3. QED
    BY <2>1, <2>2
<1>10. QED
  BY <1>1, <1>2, <1>2a, <1>3, <1>4, <1>5, <1>6, <1>7, <1>8, <1>9 DEF WorktreeNext, WorktreeCall

\* The variables of TaskWorktree keep their types for any number of callers
\* and commits.
THEOREM WorktreeTypeCorrect == WorktreeSpec => []WorktreeTypeOK
<1>1. QED
  BY WorktreeTypeInit, WorktreeTypeStep, PTL DEF WorktreeSpec

-----------------------------------------------------------------------------
(* Cleaned is gone.  A call is at RECORD or UNLINK_DONE only when there is   *)
(* no worktree, and nothing makes one again.                                 *)

GoneInv ==
  /\ cleaned => ~worktree
  /\ \A c \in Callers : pc[c] \in {"RECORD", "UNLINK_DONE"} => ~worktree

LEMMA GoneStep == WorktreeTypeOK /\ GoneInv /\ [WorktreeNext]_worktreeVars => GoneInv'
<1> SUFFICES ASSUME WorktreeTypeOK, GoneInv, [WorktreeNext]_worktreeVars PROVE GoneInv'
  OBVIOUS
<1> USE DEF GoneInv, WorktreeTypeOK, taskVars, treeVars, refVars, Goto
<1>1. CASE UNCHANGED worktreeVars
  BY <1>1 DEF worktreeVars
<1>2. CASE Edit \/ CommitLocks \/ CommitMoves \/ Age \/ Cancel
  <2>1. UNCHANGED <<cleaned, worktree, pc>>
    BY <1>2 DEF Edit, CommitLocks, CommitMoves, Age, Cancel
  <2>2. QED
    BY <2>1
<1>3. ASSUME NEW c \in Callers,
             FinishBegin(c) \/ FinishHead(c) \/ Retain(c) \/ Verify(c)
               \/ Finish(c)
      PROVE GoneInv'
  BY <1>3 DEF FinishBegin, FinishHead, Retain, Verify, Finish
<1>4. ASSUME NEW c \in Callers,
             CleanupBegin(c) \/ CleanupRetained(c) \/ CleanupRemove(c)
               \/ Record(c)
      PROVE GoneInv'
  BY <1>4 DEF CleanupBegin, CleanupRetained, CleanupRemove, Record, Gone
<1>5. ASSUME NEW c \in Callers,
             GcBegin(c) \/ GcRetained(c) \/ GcDiff(c) \/ GcHead(c)
               \/ GcSafety(c)
      PROVE GoneInv'
  BY <1>5 DEF GcBegin, GcRetained, GcDiff, GcHead, GcCheck, GcSafety
<1>6. ASSUME NEW c \in Callers,
             GcLock(c) \/ LockedDiff(c) \/ LockedHead(c) \/ GcRemove(c)
               \/ Unlink(c)
      PROVE GoneInv'
  BY <1>6 DEF GcLock, LockedDiff, LockedHead, LockedCheck, GcRemove, Unlink,
              Gone, UnlinkPlaces
<1>7. ASSUME NEW c \in Callers, Throws(c) \/ Crash(c)
      PROVE GoneInv'
  BY <1>7 DEF Throws, Crash
<1>8. QED
  BY <1>1, <1>2, <1>3, <1>4, <1>5, <1>6, <1>7 DEF WorktreeNext, WorktreeCall

\* A Task recorded as cleaned has no worktree, whatever calls overlap, throw
\* or die half-way.
THEOREM CleanedHasNoWorktree == WorktreeSpec => []CleanedIsGone
<1>1. WorktreeInit => GoneInv
  BY DEF WorktreeInit, GoneInv
<1>2. GoneInv => CleanedIsGone
  BY DEF GoneInv, CleanedIsGone
<1>3. QED
  BY <1>1, <1>2, GoneStep, WorktreeTypeInit, WorktreeTypeStep, PTL DEF WorktreeSpec

-----------------------------------------------------------------------------
(* Exact retention.  A finish between update-ref and TaskService.finish      *)
(* relies on nobody else writing the ref, and a delivered Task on nobody     *)
(* being left in a finish.                                                   *)

FinishInv ==
  /\ \A c \in Callers : pc[c] \in FinishPlaces => c \in Finishers
  /\ \A c \in Callers :
       pc[c] = "FINISH" /\ seen[c] > 0 => taskRef = seen[c]
  /\ Delivered =>
       /\ taskRef = finalCommit
       /\ \A c \in Callers : pc[c] \notin FinishPlaces

LEMMA FinishStep ==
  ASSUME OneFinisher
  PROVE WorktreeTypeOK /\ FinishInv /\ [WorktreeNext]_worktreeVars => FinishInv'
<1> SUFFICES ASSUME WorktreeTypeOK, FinishInv, [WorktreeNext]_worktreeVars PROVE FinishInv'
  OBVIOUS
<1> USE DEF FinishInv, FinishPlaces, Delivered, WorktreeTypeOK, Commits, taskVars,
            treeVars, refVars, Goto
<1>1. CASE UNCHANGED worktreeVars
  BY <1>1 DEF worktreeVars
<1>2. CASE Edit \/ CommitLocks \/ CommitMoves \/ Age \/ Cancel
  BY <1>2 DEF Edit, CommitLocks, CommitMoves, Age, Cancel
<1>3. ASSUME NEW c \in Callers, FinishBegin(c) \/ FinishHead(c)
      PROVE FinishInv'
  BY <1>3 DEF FinishBegin, FinishHead
<1>4. ASSUME NEW c \in Callers, Retain(c)
      PROVE FinishInv'
  BY <1>4, OneFinisher DEF Retain, OneFinisher
<1>5. ASSUME NEW c \in Callers, Verify(c)
      PROVE FinishInv'
  BY <1>5 DEF Verify
<1>6. ASSUME NEW c \in Callers, Finish(c)
      PROVE FinishInv'
  BY <1>6, OneFinisher DEF Finish, OneFinisher
<1>7. ASSUME NEW c \in Callers,
             CleanupBegin(c) \/ CleanupRetained(c) \/ CleanupRemove(c)
               \/ Record(c)
      PROVE FinishInv'
  BY <1>7 DEF CleanupBegin, CleanupRetained, CleanupRemove, Record, Gone
<1>8. ASSUME NEW c \in Callers,
             GcBegin(c) \/ GcRetained(c) \/ GcDiff(c) \/ GcHead(c)
               \/ GcSafety(c)
      PROVE FinishInv'
  BY <1>8 DEF GcBegin, GcRetained, GcDiff, GcHead, GcCheck, GcSafety
<1>9. ASSUME NEW c \in Callers,
             GcLock(c) \/ LockedDiff(c) \/ LockedHead(c) \/ GcRemove(c)
               \/ Unlink(c)
      PROVE FinishInv'
  BY <1>9 DEF GcLock, LockedDiff, LockedHead, LockedCheck, GcRemove, Unlink,
              Gone
<1>10. ASSUME NEW c \in Callers, Throws(c) \/ Crash(c)
       PROVE FinishInv'
  BY <1>10 DEF Throws, Crash
<1>11. QED
  BY <1>1, <1>2, <1>3, <1>4, <1>5, <1>6, <1>7, <1>8, <1>9, <1>10
     DEF WorktreeNext, WorktreeCall

\* When the calls to task.finish of a Task do not overlap, the retention ref
\* of a delivered Task is its final commit for good.  (A run shows what two
\* overlapping calls do to it.)
THEOREM RetentionCorrect ==
  ASSUME OneFinisher
  PROVE WorktreeSpec => []RetentionIsExact
<1>1. WorktreeInit => FinishInv
  BY DEF WorktreeInit, FinishInv, FinishPlaces, Delivered
<1>2. FinishInv => RetentionIsExact
  BY DEF FinishInv, RetentionIsExact
<1>3. WorktreeTypeOK /\ FinishInv /\ [WorktreeNext]_worktreeVars => FinishInv'
  BY FinishStep
<1>4. QED
  BY <1>1, <1>2, <1>3, WorktreeTypeInit, WorktreeTypeStep, PTL DEF WorktreeSpec

-----------------------------------------------------------------------------
(* Garbage collection.  What the checks established before the lock about    *)
(* the refs stays true because the Task is final; what they established      *)
(* under the lock about HEAD stays true because the lock is still this       *)
(* call's, which needs that no other task.gc unlinks it.                     *)

SafePlaces == {"GC_LOCK"} \union LockedPlaces

GcInv ==
  /\ \A c \in Callers :
       pc[c] \in GcPlaces \union LockedPlaces \union UnlinkPlaces =>
         c \in Collectors /\ status # "ACTIVE"
  /\ \A c \in Callers : pc[c] \in SafePlaces => gcRef = ExpectedHead
  /\ \A c \in Callers : pc[c] \in LockedPlaces /\ worktree => lock = c
  /\ \A c \in Callers :
       pc[c] = "GC_REMOVE" /\ worktree => head = ExpectedHead

LEMMA GcStep ==
  ASSUME OneCollector
  PROVE WorktreeTypeOK /\ GcInv /\ [WorktreeNext]_worktreeVars => GcInv'
<1> SUFFICES ASSUME WorktreeTypeOK, GcInv, [WorktreeNext]_worktreeVars PROVE GcInv'
  OBVIOUS
<1> USE DEF GcInv, SafePlaces, GcPlaces, LockedPlaces, UnlinkPlaces,
            ExpectedHead, Delivered, WorktreeTypeOK, Commits, taskVars, treeVars,
            refVars, Goto
<1>1. CASE UNCHANGED worktreeVars
  BY <1>1 DEF worktreeVars
<1>2. CASE Edit \/ Age \/ Cancel
  BY <1>2 DEF Edit, Age, Cancel
<1>3. CASE CommitLocks \/ CommitMoves
  BY <1>3, WorktreeAssumption DEF CommitLocks, CommitMoves
<1>4. ASSUME NEW c \in Callers,
             FinishBegin(c) \/ FinishHead(c) \/ Retain(c) \/ Verify(c)
      PROVE GcInv'
  BY <1>4 DEF FinishBegin, FinishHead, Retain, Verify
<1>5. ASSUME NEW c \in Callers, Finish(c)
      PROVE GcInv'
  BY <1>5 DEF Finish
<1>6. ASSUME NEW c \in Callers,
             CleanupBegin(c) \/ CleanupRetained(c) \/ CleanupRemove(c)
               \/ Record(c)
      PROVE GcInv'
  BY <1>6 DEF CleanupBegin, CleanupRetained, CleanupRemove, Record, Gone
<1>7. ASSUME NEW c \in Callers,
             GcBegin(c) \/ GcRetained(c) \/ GcDiff(c) \/ GcHead(c)
      PROVE GcInv'
  BY <1>7 DEF GcBegin, Eligible, GcRetained, GcDiff, GcHead, GcCheck
<1>8. ASSUME NEW c \in Callers, GcSafety(c)
      PROVE GcInv'
  BY <1>8 DEF GcSafety, NoCommit
<1>9. ASSUME NEW c \in Callers, GcLock(c)
      PROVE GcInv'
  BY <1>9, WorktreeAssumption, OneCollector DEF GcLock, OneCollector
<1>10. ASSUME NEW c \in Callers, LockedDiff(c) \/ LockedHead(c)
       PROVE GcInv'
  BY <1>10 DEF LockedDiff, LockedHead, LockedCheck
<1>11. ASSUME NEW c \in Callers, GcRemove(c)
       PROVE GcInv'
  BY <1>11 DEF GcRemove, Gone
<1>12. ASSUME NEW c \in Callers, Unlink(c)
       PROVE GcInv'
  BY <1>12, OneCollector DEF Unlink, OneCollector
<1>13. ASSUME NEW c \in Callers, Throws(c) \/ Crash(c)
       PROVE GcInv'
  BY <1>13 DEF Throws, Crash
<1>14. QED
  BY <1>1, <1>2, <1>3, <1>4, <1>5, <1>6, <1>7, <1>8, <1>9, <1>10, <1>11,
     <1>12, <1>13 DEF WorktreeNext, WorktreeCall

\* The step that removes the worktree is GcRemove.
LEMMA GcRemovalLoses ==
  WorktreeTypeOK /\ GcInv /\ [WorktreeNext]_worktreeVars =>
    \A c \in Callers :
      pc[c] = "GC_REMOVE" /\ pc'[c] = "UNLINK_DONE" =>
        head = ExpectedHead /\ gcRef = head
<1> SUFFICES ASSUME WorktreeTypeOK, GcInv, [WorktreeNext]_worktreeVars, NEW c \in Callers,
                    pc[c] = "GC_REMOVE", pc'[c] = "UNLINK_DONE"
             PROVE head = ExpectedHead /\ gcRef = head
  OBVIOUS
<1> USE DEF WorktreeTypeOK, taskVars, treeVars, refVars, Goto
<1>1. ~ UNCHANGED pc
  OBVIOUS
<1>2. ~ (UNCHANGED worktreeVars \/ Edit \/ CommitLocks \/ CommitMoves \/ Age \/ Cancel)
  BY <1>1 DEF worktreeVars, Edit, CommitLocks, CommitMoves, Age, Cancel
<1>3. PICK d \in Callers : WorktreeCall(d)
  BY <1>2 DEF WorktreeNext
<1>4. d = c /\ GcRemove(c)
  <2>1. ASSUME NEW v, pc' = [pc EXCEPT ![d] = v]
        PROVE d = c /\ v = "UNLINK_DONE"
    BY <2>1
  <2>2. CASE \/ FinishBegin(d) \/ FinishHead(d) \/ Retain(d) \/ Verify(d)
             \/ Finish(d)
    BY <2>1, <2>2 DEF FinishBegin, FinishHead, Retain, Verify, Finish
  <2>3. CASE \/ CleanupBegin(d) \/ CleanupRetained(d) \/ CleanupRemove(d)
             \/ Record(d)
    BY <2>1, <2>3 DEF CleanupBegin, CleanupRetained, CleanupRemove, Record
  <2>4. CASE \/ GcBegin(d) \/ GcRetained(d) \/ GcDiff(d) \/ GcHead(d)
             \/ GcSafety(d) \/ GcLock(d)
    BY <2>1, <2>4 DEF GcBegin, GcRetained, GcDiff, GcHead, GcCheck, GcSafety,
                      GcLock
  <2>5. CASE LockedDiff(d) \/ LockedHead(d) \/ Unlink(d)
    BY <2>1, <2>5 DEF LockedDiff, LockedHead, LockedCheck, Unlink,
                      UnlinkPlaces
  <2>6. CASE Throws(d) \/ Crash(d)
    BY <2>1, <2>6 DEF Throws, Crash
  <2>7. CASE GcRemove(d)
    BY <2>1, <2>7 DEF GcRemove
  <2>8. QED
    BY <1>3, <2>2, <2>3, <2>4, <2>5, <2>6, <2>7 DEF WorktreeCall
<1>5. worktree
  BY <1>4 DEF GcRemove
<1>6. QED
  BY <1>5 DEF GcInv, SafePlaces, LockedPlaces

\* When the calls to task.gc do not overlap, a worktree they remove holds no
\* commit but the one the recovery ref points at, whatever task.finish,
\* task.cleanup, edits and commits do at the same time.  (A run shows what two
\* overlapping calls do.)
THEOREM GcIsSafe ==
  ASSUME OneCollector
  PROVE WorktreeSpec => GcLosesNoCommit
<1>1. WorktreeInit => GcInv
  BY DEF WorktreeInit, GcInv, SafePlaces, GcPlaces, LockedPlaces, UnlinkPlaces
<1>2. WorktreeTypeOK /\ GcInv /\ [WorktreeNext]_worktreeVars => GcInv'
  BY GcStep
<1>3. WorktreeTypeOK /\ GcInv /\ [WorktreeNext]_worktreeVars =>
        [\A c \in Callers :
           pc[c] = "GC_REMOVE" /\ pc'[c] = "UNLINK_DONE" =>
             head = ExpectedHead /\ gcRef = head]_worktreeVars
  BY GcRemovalLoses
<1>4. QED
  BY <1>1, <1>2, <1>3, WorktreeTypeInit, WorktreeTypeStep, PTL DEF WorktreeSpec, GcLosesNoCommit

-----------------------------------------------------------------------------
(* Approval                                                                  *)

\* A step of Approval.
LEMMA ApprovalCases ==
  ASSUME [ApprovalNext]_approvalVars
  PROVE  \/ UNCHANGED approvalVars
         \/ \E s \in Starts, op \in Ops :
              \/ PolicyAllows(s, op) \/ UseTaskGrant(s, op)
              \/ UseOnceGrant(s, op) \/ Require(s, op)
         \/ \E s \in Starts : CommandStarts(s) \/ StartFails(s)
         \/ \E i \in DOMAIN requests :
            \E decision \in Kinds \union {"ASK_USER", "DENY"} :
              Respond(i, decision)
         \/ EndTask
         \/ Reconfigure
  BY DEF ApprovalNext

-----------------------------------------------------------------------------
(* What a new request and an answer do to the requests                       *)

NewRequest(op, rule) ==
  [op |-> op, rule |-> rule, status |-> "PENDING", decision |-> "NONE"]

LEMMA RequestsDomain ==
  ASSUME ApprovalTypeOK
  PROVE  /\ DOMAIN requests = 1..Len(requests)
         /\ Len(requests) \in Nat
         /\ DOMAIN requests \subseteq Ids
         /\ \A i \in DOMAIN requests : requests[i] \in Requests
<1>1. requests \in Seq(Requests) /\ Len(requests) <= MaxRequests
  BY DEF ApprovalTypeOK
<1>2. Len(requests) \in Nat /\ DOMAIN requests = 1..Len(requests)
  BY <1>1, LenProperties
<1>3. \A i \in DOMAIN requests : requests[i] \in Requests
  BY <1>1, <1>2, ElementOfSeq
<1>4. DOMAIN requests \subseteq Ids
  BY <1>1, <1>2, ApprovalAssumption DEF Ids
<1>5. QED
  BY <1>2, <1>3, <1>4

LEMMA RequireAppends ==
  ASSUME ApprovalTypeOK, NEW s \in Starts, NEW op \in Ops, Require(s, op)
  PROVE  /\ requests' \in Seq(Requests)
         /\ Len(requests') = Len(requests) + 1
         /\ Len(requests') <= MaxRequests
         /\ DOMAIN requests' = DOMAIN requests \union {Len(requests) + 1}
         /\ Len(requests) + 1 \in Ids \ DOMAIN requests
         /\ \A i \in DOMAIN requests : requests'[i] = requests[i]
         /\ requests'[Len(requests) + 1] = NewRequest(op, policy[op])
<1> DEFINE new == NewRequest(op, policy[op])
<1>1. new \in Requests
  BY DEF Require, Asks, Requests, Open, NewRequest
<1>2. requests \in Seq(Requests) /\ Len(requests) \in Nat
      /\ DOMAIN requests = 1..Len(requests)
  BY RequestsDomain DEF ApprovalTypeOK
<1>3. requests' = Append(requests, new) /\ Len(requests) < MaxRequests
  BY DEF Require, NewRequest
<1> HIDE DEF new
<1>4. /\ requests' \in Seq(Requests)
      /\ Len(requests') = Len(requests) + 1
      /\ \A i \in 1..Len(requests) : requests'[i] = requests[i]
      /\ requests'[Len(requests) + 1] = new
  BY <1>1, <1>2, <1>3, AppendProperties
<1>5. DOMAIN requests' = 1..(Len(requests) + 1)
  BY <1>4, LenProperties
<1>6. Len(requests) + 1 \in Ids \ DOMAIN requests
  BY <1>2, <1>3, ApprovalAssumption DEF Ids
<1>7. QED
  BY <1>2, <1>3, <1>4, <1>5, <1>6, ApprovalAssumption DEF new

LEMMA RespondUpdates ==
  ASSUME ApprovalTypeOK, NEW i \in DOMAIN requests,
         NEW decision \in Kinds \union {"ASK_USER", "DENY"},
         Respond(i, decision)
  PROVE  /\ requests' \in Seq(Requests)
         /\ Len(requests') = Len(requests)
         /\ DOMAIN requests' = DOMAIN requests
         /\ \A j \in DOMAIN requests : j # i => requests'[j] = requests[j]
         /\ requests'[i].op = requests[i].op
         /\ requests'[i].rule = requests[i].rule
         /\ requests'[i].decision = decision
         /\ requests'[i].status = "APPROVED" <=> decision \in Kinds
         /\ requests'[i].status \in Open <=> decision = "ASK_USER"
<1> DEFINE answer == CASE decision = "ASK_USER" -> "AWAITING_USER"
                       [] decision = "DENY" -> "DENIED"
                       [] OTHER -> "APPROVED"
<1> DEFINE new == [requests[i] EXCEPT !.status = answer, !.decision = decision]
<1>1. requests' = [requests EXCEPT ![i] = new]
  BY DEF Respond
<1>2. requests \in Seq(Requests) /\ Len(requests) \in Nat
      /\ DOMAIN requests = 1..Len(requests) /\ requests[i] \in Requests
  BY RequestsDomain DEF ApprovalTypeOK
<1>3. /\ new \in Requests
      /\ new.op = requests[i].op /\ new.rule = requests[i].rule
      /\ new.decision = decision
      /\ new.status = "APPROVED" <=> decision \in Kinds
      /\ new.status \in Open <=> decision = "ASK_USER"
  BY <1>2 DEF Requests, Kinds, Open
<1> HIDE DEF new
<1>4. /\ requests' \in Seq(Requests)
      /\ Len(requests') = Len(requests)
      /\ \A j \in 1..Len(requests) :
           requests'[j] = IF j = i THEN new ELSE requests[j]
  BY <1>1, <1>2, <1>3, ExceptSeq
<1>5. DOMAIN requests' = 1..Len(requests)
  BY <1>4, LenProperties
<1>6. QED
  BY <1>2, <1>3, <1>4, <1>5

-----------------------------------------------------------------------------
LEMMA ApprovalTypeInit == ApprovalInit => ApprovalTypeOK
<1> SUFFICES ASSUME ApprovalInit PROVE ApprovalTypeOK
  OBVIOUS
<1>1. requests \in Seq(Requests) /\ Len(requests) = 0 /\ DOMAIN requests = {}
  BY EmptySeq DEF ApprovalInit
<1>2. QED
  BY <1>1, ApprovalAssumption DEF ApprovalInit, ApprovalTypeOK

LEMMA HoldType ==
  ASSUME ApprovalTypeOK, NEW s \in Starts, NEW op \in Ops,
         NEW rule \in Rules \union {Allow}, NEW grant \in Ids \union {0},
         Hold(s, op, rule, grant)
  PROVE  authorized' \in [Starts -> Authorizations \union {Idle}]
  BY DEF ApprovalTypeOK, Hold, Authorizations

LEMMA ApprovalTypeStep ==
  ApprovalTypeOK /\ [ApprovalNext]_approvalVars => ApprovalTypeOK'
<1> SUFFICES ASSUME ApprovalTypeOK, [ApprovalNext]_approvalVars
             PROVE  ApprovalTypeOK'
  OBVIOUS
<1> USE DEF ApprovalTypeOK
<1>1. CASE UNCHANGED approvalVars
  BY <1>1 DEF approvalVars
<1>2. ASSUME NEW s \in Starts, NEW op \in Ops, PolicyAllows(s, op)
      PROVE ApprovalTypeOK'
  BY <1>2, HoldType DEF PolicyAllows
<1>3. ASSUME NEW s \in Starts, NEW op \in Ops,
             UseTaskGrant(s, op) \/ UseOnceGrant(s, op)
      PROVE ApprovalTypeOK'
  <2>1. PICK i \in grants : Hold(s, op, policy[op], i)
    BY <1>3 DEF UseTaskGrant, UseOnceGrant, TaskGrants, OnceGrants
  <2>2. policy[op] \in Rules /\ i \in Ids
    BY <1>3, RequestsDomain DEF UseTaskGrant, UseOnceGrant, Asks
  <2>3. authorized' \in [Starts -> Authorizations \union {Idle}]
    BY <2>1, <2>2, HoldType
  <2>4. QED
    BY <1>3, <2>3 DEF UseTaskGrant, UseOnceGrant
<1>4. ASSUME NEW s \in Starts, NEW op \in Ops, Require(s, op)
      PROVE ApprovalTypeOK'
  BY <1>4, RequireAppends DEF Require
<1>5. ASSUME NEW s \in Starts, CommandStarts(s) PROVE ApprovalTypeOK'
  <2> DEFINE i == authorized[s].grant
  <2>1. uses' \in [Ids -> 0..2]
    <3>1. \A j \in Ids :
            [uses EXCEPT ![j] = IF @ = 0 THEN 1 ELSE 2] \in [Ids -> 0..2]
      OBVIOUS
    <3>2. i \in Ids \union {0}
      BY DEF Authorizations, Idle
    <3>3. uses' = IF i = 0 THEN uses
                  ELSE [uses EXCEPT ![i] = IF @ = 0 THEN 1 ELSE 2]
      BY <1>5 DEF CommandStarts
    <3>4. QED
      BY <3>1, <3>2, <3>3
  <2>2. authorized' \in [Starts -> Authorizations \union {Idle}]
    BY <1>5 DEF CommandStarts
  <2>3. QED
    BY <1>5, <2>1, <2>2 DEF CommandStarts
<1>6. ASSUME NEW s \in Starts, StartFails(s) PROVE ApprovalTypeOK'
  BY <1>6 DEF StartFails
<1>7. ASSUME NEW i \in DOMAIN requests,
             NEW decision \in Kinds \union {"ASK_USER", "DENY"},
             Respond(i, decision)
      PROVE ApprovalTypeOK'
  BY <1>7, RespondUpdates DEF Respond
<1>8. CASE EndTask \/ Reconfigure
  BY <1>8 DEF EndTask, Reconfigure
<1>9. QED
  BY <1>1, <1>2, <1>3, <1>4, <1>5, <1>6, <1>7, <1>8, ApprovalCases

\* The requests, grants and authorizations keep their types, for any
\* configurations and any number of starts.
THEOREM ApprovalTypeCorrect == ApprovalSpec => []ApprovalTypeOK
  BY ApprovalTypeInit, ApprovalTypeStep, PTL DEF ApprovalSpec

-----------------------------------------------------------------------------
(* A one-time grant is in one place at a time: still in the record, with one *)
(* start that took it out, or spent.  Requests that are open, or not made    *)
(* yet, have not been used at all, and so start with a fresh grant.          *)

Unused(i) == uses[i] = 0 /\ \A s \in Starts : authorized[s].grant # i

OnceOnly(i) ==
  /\ uses[i] <= 1
  /\ i \in grants => Unused(i)
  /\ \A s \in Starts :
       authorized[s].grant = i =>
         uses[i] = 0 /\ \A t \in Starts : authorized[t].grant = i => t = s

OnceInv ==
  /\ \A i \in Ids \ DOMAIN requests : Unused(i)
  /\ \A i \in DOMAIN requests :
       /\ requests[i].status \in Open => i \notin grants /\ Unused(i)
       /\ requests[i].decision = "ALLOW_ONCE" => OnceOnly(i)

LEMMA OnceInit == ApprovalInit => OnceInv
<1> SUFFICES ASSUME ApprovalInit PROVE OnceInv
  OBVIOUS
<1>1. DOMAIN requests = {}
  BY EmptySeq DEF ApprovalInit
<1>2. \A i \in Ids : Unused(i)
  BY ApprovalAssumption DEF ApprovalInit, Unused, Ids, Idle
<1>3. QED
  BY <1>1, <1>2 DEF OnceInv

LEMMA OnceStep ==
  ApprovalTypeOK /\ OnceInv /\ [ApprovalNext]_approvalVars => OnceInv'
<1> SUFFICES ASSUME ApprovalTypeOK, OnceInv, [ApprovalNext]_approvalVars
             PROVE  OnceInv'
  OBVIOUS
<1> USE DEF OnceInv, OnceOnly, Unused
<1>a. /\ DOMAIN requests \subseteq Ids /\ 0 \notin Ids
      /\ uses \in [Ids -> 0..2] /\ grants \subseteq DOMAIN requests
  BY RequestsDomain, ApprovalAssumption DEF ApprovalTypeOK, Ids
<1>b. DOMAIN authorized = Starts /\ Idle.grant = 0
  BY DEF ApprovalTypeOK, Idle
<1>1. CASE UNCHANGED approvalVars
  BY <1>1 DEF approvalVars
<1>2. ASSUME NEW s \in Starts, NEW op \in Ops, PolicyAllows(s, op)
      PROVE OnceInv'
  <2>1. \A t \in Starts : authorized'[t].grant \in {authorized[t].grant, 0}
    BY <1>2, <1>b DEF PolicyAllows, Hold
  <2>2. UNCHANGED <<requests, grants, uses>>
    BY <1>2 DEF PolicyAllows
  <2>3. QED
    BY <1>a, <2>1, <2>2
<1>3. ASSUME NEW s \in Starts, NEW op \in Ops, UseTaskGrant(s, op)
      PROVE OnceInv'
  <2>1. PICK i \in grants : requests[i].decision = "ALLOW_TASK"
                             /\ Hold(s, op, policy[op], i)
    BY <1>3 DEF UseTaskGrant, TaskGrants
  <2>2. \A t \in Starts :
          authorized'[t].grant = IF t = s THEN i ELSE authorized[t].grant
    BY <2>1, <1>b DEF Hold
  <2>3. UNCHANGED <<requests, grants, uses>>
    BY <1>3 DEF UseTaskGrant
  <2>4. requests[i].status \notin Open /\ i \in DOMAIN requests
    BY <2>1, <1>a
  <2>5. QED
    BY <1>a, <2>1, <2>2, <2>3, <2>4
<1>4. ASSUME NEW s \in Starts, NEW op \in Ops, UseOnceGrant(s, op)
      PROVE OnceInv'
  <2>1. PICK i \in grants : /\ requests[i].decision = "ALLOW_ONCE"
                            /\ grants' = grants \ {i}
                            /\ Hold(s, op, policy[op], i)
    BY <1>4 DEF UseOnceGrant, OnceGrants
  <2>2. \A t \in Starts :
          authorized'[t].grant = IF t = s THEN i ELSE authorized[t].grant
    BY <2>1, <1>b DEF Hold
  <2>3. UNCHANGED <<requests, uses>>
    BY <1>4 DEF UseOnceGrant
  <2>4. requests[i].status \notin Open /\ i \in DOMAIN requests /\ Unused(i)
    BY <2>1, <1>a
  <2>5. QED
    BY <1>a, <2>1, <2>2, <2>3, <2>4
<1>5. ASSUME NEW s \in Starts, NEW op \in Ops, Require(s, op)
      PROVE OnceInv'
  <2> DEFINE n == Len(requests) + 1
  <2>1. /\ DOMAIN requests' = DOMAIN requests \union {n}
        /\ \A i \in DOMAIN requests : requests'[i] = requests[i]
        /\ requests'[n].decision = "NONE"
        /\ n \in Ids \ DOMAIN requests
    <3>1. NewRequest(op, policy[op]).decision = "NONE"
      BY DEF NewRequest
    <3>2. QED
      BY <1>5, <3>1, RequireAppends
  <2>2. UNCHANGED <<grants, authorized, uses>>
    BY <1>5 DEF Require
  <2> HIDE DEF n
  <2>3. QED
    BY <1>a, <2>1, <2>2
<1>6. ASSUME NEW s \in Starts, CommandStarts(s)
      PROVE OnceInv'
  <2> DEFINE i == authorized[s].grant
  <2>1. \A t \in Starts :
          authorized'[t].grant = IF t = s THEN 0 ELSE authorized[t].grant
    BY <1>6, <1>b DEF CommandStarts
  <2>2. UNCHANGED <<requests, grants>>
    BY <1>6 DEF CommandStarts
  <2>3. \A j \in Ids :
          uses'[j] = IF j = i THEN (IF uses[j] = 0 THEN 1 ELSE 2) ELSE uses[j]
    BY <1>6, <1>a DEF CommandStarts
  <2>4. \A j \in Ids : j # i => uses'[j] = uses[j]
    BY <2>3
  <2>5. i \in Ids => uses'[i] = IF uses[i] = 0 THEN 1 ELSE 2
    BY <2>3
  <2> HIDE DEF i
  <2>6. authorized[s].grant = i
    BY DEF i
  <2>7. \A j \in Ids \ DOMAIN requests : Unused(j)'
    BY <1>a, <2>1, <2>4, <2>6
  <2>8. ASSUME NEW j \in DOMAIN requests
        PROVE /\ requests[j].status \in Open => j \notin grants /\ Unused(j)'
              /\ requests[j].decision = "ALLOW_ONCE" => OnceOnly(j)'
    <3>1. CASE j # i
      BY <1>a, <2>1, <2>2, <2>4, <3>1
    <3>2. CASE j = i
      BY <1>a, <2>1, <2>2, <2>5, <2>6, <3>2
    <3>3. QED
      BY <3>1, <3>2
  <2>9. QED
    BY <2>2, <2>7, <2>8
<1>7. ASSUME NEW s \in Starts, StartFails(s)
      PROVE OnceInv'
  <2>1. \A t \in Starts : authorized'[t].grant \in {authorized[t].grant, 0}
    BY <1>7, <1>b DEF StartFails
  <2>2. UNCHANGED <<requests, grants, uses>>
    BY <1>7 DEF StartFails
  <2>3. QED
    BY <1>a, <2>1, <2>2
<1>8. ASSUME NEW i \in DOMAIN requests,
             NEW decision \in Kinds \union {"ASK_USER", "DENY"},
             Respond(i, decision)
      PROVE OnceInv'
  <2>1. UNCHANGED <<authorized, uses>> /\ requests[i].status \in Open
        /\ grants' = IF decision \in Kinds THEN grants \union {i} ELSE grants
    BY <1>8 DEF Respond, Answerable
  <2>2. Unused(i) /\ i \notin grants /\ i \in Ids
    BY <2>1, <1>a
  <2>3. /\ DOMAIN requests' = DOMAIN requests
        /\ \A j \in DOMAIN requests : j # i => requests'[j] = requests[j]
        /\ requests'[i].decision = decision
        /\ requests'[i].status \in Open <=> decision = "ASK_USER"
    BY <1>8, RespondUpdates
  <2>4. \A j \in Ids : j # i => (j \in grants' <=> j \in grants)
    BY <2>1
  <2>5. decision = "ASK_USER" => decision \notin Kinds
    BY DEF Kinds
  <2>6. ASSUME NEW j \in DOMAIN requests
        PROVE /\ requests'[j].status \in Open => j \notin grants' /\ Unused(j)'
              /\ requests'[j].decision = "ALLOW_ONCE" => OnceOnly(j)'
    <3>1. CASE j # i
      BY <1>a, <2>1, <2>3, <2>4, <3>1
    <3>2. CASE j = i
      BY <1>a, <2>1, <2>2, <2>3, <2>5, <3>2
    <3>3. QED
      BY <3>1, <3>2
  <2>7. QED
    BY <2>1, <2>3, <2>6
<1>9. CASE EndTask \/ Reconfigure
  <2>1. \A t \in Starts : authorized'[t].grant \in {authorized[t].grant, 0}
    BY <1>9, <1>b DEF EndTask, Reconfigure
  <2>2. UNCHANGED <<requests, uses>> /\ grants' \subseteq grants
    BY <1>9 DEF EndTask, Reconfigure
  <2>3. QED
    BY <1>a, <2>1, <2>2
<1>10. QED
  BY <1>1, <1>2, <1>3, <1>4, <1>5, <1>6, <1>7, <1>8, <1>9, ApprovalCases

\* An approval given once starts at most one command, for any number of
\* starts, retries, answers and changes of the configuration.
THEOREM OnceIsOnce == ApprovalSpec => []OnceMeansOnce
<1>1. OnceInv => OnceMeansOnce
  BY DEF OnceInv, OnceOnly, OnceMeansOnce
<1>2. QED
  BY <1>1, OnceInit, OnceStep, ApprovalTypeInit, ApprovalTypeStep, PTL
     DEF ApprovalSpec

-----------------------------------------------------------------------------
(* What a start holds was approved, as every grant is of an approved request, *)
(* and an approved request is never answered again.                           *)

CoverInv ==
  /\ \A i \in grants : requests[i].status = "APPROVED"
  /\ StartsAreApproved

LEMMA CoverStep ==
  ApprovalTypeOK /\ CoverInv /\ [ApprovalNext]_approvalVars => CoverInv'
<1> SUFFICES ASSUME ApprovalTypeOK, CoverInv, [ApprovalNext]_approvalVars
             PROVE  CoverInv'
  OBVIOUS
<1> USE DEF CoverInv, StartsAreApproved, InScope
<1>a. /\ DOMAIN authorized = Starts /\ grants \subseteq DOMAIN requests
      /\ Idle.rule \notin Rules /\ Allow \notin Rules
  BY ApprovalAssumption DEF ApprovalTypeOK, Idle
<1>1. CASE UNCHANGED approvalVars
  BY <1>1 DEF approvalVars
<1>2. ASSUME NEW s \in Starts, NEW op \in Ops, PolicyAllows(s, op)
      PROVE CoverInv'
  <2>1. \A t \in Starts : \/ authorized'[t] = authorized[t]
                           \/ authorized'[t].rule \notin Rules
    BY <1>2, <1>a DEF PolicyAllows, Hold
  <2>2. UNCHANGED <<requests, grants>>
    BY <1>2 DEF PolicyAllows
  <2>3. QED
    BY <2>1, <2>2
<1>3. ASSUME NEW s \in Starts, NEW op \in Ops,
             UseTaskGrant(s, op) \/ UseOnceGrant(s, op)
      PROVE CoverInv'
  <2>1. PICK i \in grants :
          /\ InScope(i, policy[op])
          /\ requests[i].decision = "ALLOW_ONCE" => requests[i].op = op
          /\ Hold(s, op, policy[op], i)
    BY <1>3 DEF UseTaskGrant, UseOnceGrant, TaskGrants, OnceGrants
  <2>2. \A t \in Starts :
          authorized'[t] = IF t = s
                           THEN [op |-> op, rule |-> policy[op], grant |-> i]
                           ELSE authorized[t]
    BY <2>1, <1>a DEF Hold
  <2>3. UNCHANGED requests /\ grants' \subseteq grants
    BY <1>3 DEF UseTaskGrant, UseOnceGrant
  <2>4. QED
    BY <1>a, <2>1, <2>2, <2>3
<1>4. ASSUME NEW s \in Starts, NEW op \in Ops, Require(s, op)
      PROVE CoverInv'
  <2>1. /\ DOMAIN requests \subseteq DOMAIN requests'
        /\ \A i \in DOMAIN requests : requests'[i] = requests[i]
    BY <1>4, RequireAppends
  <2>2. UNCHANGED <<grants, authorized>>
    BY <1>4 DEF Require
  <2>3. QED
    BY <1>a, <2>1, <2>2
<1>5. ASSUME NEW s \in Starts, CommandStarts(s) \/ StartFails(s)
      PROVE CoverInv'
  <2>1. \A t \in Starts : \/ authorized'[t] = authorized[t]
                           \/ authorized'[t].rule \notin Rules
    BY <1>5, <1>a DEF CommandStarts, StartFails
  <2>2. UNCHANGED <<requests, grants>>
    BY <1>5 DEF CommandStarts, StartFails
  <2>3. QED
    BY <2>1, <2>2
<1>6. ASSUME NEW i \in DOMAIN requests,
             NEW decision \in Kinds \union {"ASK_USER", "DENY"},
             Respond(i, decision)
      PROVE CoverInv'
  <2>1. UNCHANGED authorized /\ requests[i].status # "APPROVED"
        /\ grants' = IF decision \in Kinds THEN grants \union {i} ELSE grants
    BY <1>6 DEF Respond, Answerable, Open
  <2>2. /\ DOMAIN requests' = DOMAIN requests
        /\ \A j \in DOMAIN requests : j # i => requests'[j] = requests[j]
        /\ requests'[i].status = "APPROVED" <=> decision \in Kinds
    BY <1>6, RespondUpdates
  <2>3. QED
    BY <1>a, <2>1, <2>2
<1>7. CASE EndTask \/ Reconfigure
  <2>1. \A t \in Starts : \/ authorized'[t] = authorized[t]
                           \/ authorized'[t].rule \notin Rules
    BY <1>7, <1>a DEF EndTask, Reconfigure
  <2>2. UNCHANGED requests /\ grants' \subseteq grants
    BY <1>7 DEF EndTask, Reconfigure
  <2>3. QED
    BY <2>1, <2>2
<1>8. QED
  BY <1>1, <1>2, <1>3, <1>4, <1>5, <1>6, <1>7, ApprovalCases

\* A start that met a rule goes on only under an approved request that covers
\* it, whatever is answered and configured meanwhile.
THEOREM ApprovalsCover == ApprovalSpec => []StartsAreApproved
<1>1. ApprovalInit => CoverInv
  BY ApprovalAssumption DEF ApprovalInit, CoverInv, StartsAreApproved, Idle
<1>2. CoverInv => StartsAreApproved
  BY DEF CoverInv
<1>3. QED
  BY <1>1, <1>2, CoverStep, ApprovalTypeInit, ApprovalTypeStep, PTL
     DEF ApprovalSpec
=============================================================================
