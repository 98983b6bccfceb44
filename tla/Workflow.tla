------------------------------ MODULE Workflow ------------------------------
(* WorkflowService: the guided-development workflow of one repository, a      *)
(* phase machine in one durable document.  workflow.start, workflow.update    *)
(* and every event of workflow.advance is one transaction on the document;    *)
(* what a call reads before it (the setup status, which files of the          *)
(* repository decide) is an input, since it may be stale by then.             *)
(* Goal, notes, artifacts, history, route and route_clarity are left out:     *)
(* no guard reads them back.                                                  *)

CONSTANT Tasks  \* Tasks of the repository that may be linked

VARIABLES
  phase,       \* NoPhase before the first workflow.start
  afterSetup,  \* after_setup_phase
  returnPhase, \* return_phase
  span,        \* session_span
  settled,     \* decisions_settled
  open,        \* open_decisions is not empty
  linked,      \* implementation_task_ids
  evidence,    \* the Tasks implementation_evidence was captured from, or {};
               \* its fingerprint depends on nothing else
  review,      \* review_evidence: target_fingerprint, and both axes PASS
               \* without blocking findings
  taskState,   \* the Tasks
  agreed       \* history: since the start, decisions were settled once with
               \* none open

documentVars ==
  <<phase, afterSetup, returnPhase, span, settled, open, linked, evidence,
    review>>
workflowVars == <<documentVars, taskState, agreed>>

NoPhase == "NONE"
Phases ==
  {"SETUP", "GRILLING", "WAYFINDING", "PROTOTYPE", "SPEC", "TICKETS",
   "IMPLEMENT", "REVIEW", "BLOCKED", "DONE"}
Spans == {"single", "multi", "unknown"}
RoutedPhases == {"GRILLING", "WAYFINDING", "SPEC", "IMPLEMENT"}

\* A target of {} is a fingerprint that no evidence can have.
NoReview == [target |-> {}, pass |-> FALSE]
Reviews == [target : SUBSET Tasks, pass : BOOLEAN]

WorkflowTypeOK ==
  /\ phase \in Phases \union {NoPhase}
  /\ afterSetup \in RoutedPhases \union {NoPhase}
  /\ returnPhase \in (Phases \ {"BLOCKED", "DONE"}) \union {NoPhase}
  /\ span \in Spans
  /\ settled \in BOOLEAN /\ open \in BOOLEAN /\ agreed \in BOOLEAN
  /\ linked \subseteq Tasks
  /\ evidence \subseteq Tasks
  /\ review \in Reviews
  /\ taskState \in [Tasks -> {"ACTIVE", "CANCELLED", "DELIVERED", "LEGACY"}]

\* LEGACY: completed by an older version, with no outcome recorded.
WorkflowInit ==
  /\ phase = NoPhase /\ afterSetup = NoPhase /\ returnPhase = NoPhase
  /\ span = "unknown" /\ settled = FALSE /\ open = FALSE /\ agreed = FALSE
  /\ linked = {} /\ evidence = {} /\ review = NoReview
  /\ taskState \in [Tasks -> {"ACTIVE", "LEGACY"}]

\* task.finish records a retained commit or a reason for having none.
TaskEnds(t) ==
  /\ taskState[t] = "ACTIVE"
  /\ \E end \in {"CANCELLED", "DELIVERED"} :
       taskState' = [taskState EXCEPT ![t] = end]
  /\ UNCHANGED <<documentVars, agreed>>

-----------------------------------------------------------------------------
(* workflow.start                                                            *)

RouteForStart(sessionSpan, foggy, decisionsSettled) ==
  CASE decisionsSettled -> IF sessionSpan = "multi" THEN "SPEC" ELSE "IMPLEMENT"
    [] ~decisionsSettled /\ sessionSpan = "multi" /\ foggy -> "WAYFINDING"
    [] OTHER -> "GRILLING"

\* The document is new; an old one goes only with replace=true.
StartWorkflow(sessionSpan, foggy, decisionsSettled, configured, replace) ==
  /\ ~(decisionsSettled /\ sessionSpan = "unknown")
  /\ phase = NoPhase \/ replace
  /\ LET routed == RouteForStart(sessionSpan, foggy, decisionsSettled) IN
       /\ phase' = IF configured THEN routed ELSE "SETUP"
       /\ afterSetup' = IF configured THEN NoPhase ELSE routed
  /\ returnPhase' = NoPhase
  /\ span' = sessionSpan
  /\ settled' = decisionsSettled
  /\ agreed' = decisionsSettled
  /\ open' = FALSE
  /\ linked' = {} /\ evidence' = {} /\ review' = NoReview
  /\ UNCHANGED taskState

-----------------------------------------------------------------------------
(* workflow.update.  Every field is optional; a call with several does what  *)
(* one call for each of them does, as nothing is checked in between.         *)

\* Mutant: evidence captured for other Tasks survives a change of the Tasks.
RelinkKeeping(newTasks) ==
  /\ linked' = newTasks
  /\ evidence' = evidence

\* Linking Tasks, the same ones included, drops what was captured from them,
\* and the review unless the same call has one.
Relink(newTasks) ==
  /\ linked' = newTasks
  /\ evidence' = {}

UpdateSpan ==
  /\ span' \in Spans
  /\ UNCHANGED <<open, settled, linked, evidence, review>>

UpdateOpen ==
  /\ open' \in BOOLEAN
  /\ settled' = (settled /\ ~open')
  /\ UNCHANGED <<span, linked, evidence, review>>

UpdateReview ==
  /\ \/ \E newTasks \in SUBSET Tasks : Relink(newTasks)
     \/ UNCHANGED <<linked, evidence>>
  /\ review' \in Reviews
  /\ UNCHANGED <<span, open, settled>>

UpdateWorkflow ==
  /\ phase \in Phases \ {"DONE"}
  /\ UpdateSpan \/ UpdateOpen \/ UpdateReview
  /\ UNCHANGED <<phase, afterSetup, returnPhase, taskState, agreed>>

-----------------------------------------------------------------------------
(* workflow.advance.  Every event may carry a new span and new open          *)
(* decisions, which its guards already see; settled does not follow open.    *)

Reported == span' \in Spans /\ open' \in BOOLEAN

\* What an event that only moves through phases leaves alone.
Kept == UNCHANGED <<linked, evidence, review, taskState>>

SetupComplete(configured) ==
  /\ phase = "SETUP" /\ configured
  /\ Reported
  /\ phase' = IF afterSetup = NoPhase THEN "GRILLING" ELSE afterSetup
  /\ afterSetup' = NoPhase
  /\ UNCHANGED <<returnPhase, settled, agreed>> /\ Kept

PrototypeNeeded ==
  /\ phase \in {"GRILLING", "WAYFINDING"}
  /\ Reported
  /\ returnPhase' = phase
  /\ phase' = "PROTOTYPE"
  /\ UNCHANGED <<afterSetup, settled, agreed>> /\ Kept

\* prototype_complete and resume go back to return_phase.
Return(from) ==
  /\ phase = from
  /\ Reported
  /\ phase' = IF returnPhase = NoPhase THEN "GRILLING" ELSE returnPhase
  /\ returnPhase' = NoPhase
  /\ UNCHANGED <<afterSetup, settled, agreed>> /\ Kept

PrototypeComplete == Return("PROTOTYPE")

\* Mutant: resume without a return phase goes on instead of back.
ResumeForward ==
  /\ phase = "BLOCKED"
  /\ Reported
  /\ phase' = "IMPLEMENT"
  /\ returnPhase' = NoPhase
  /\ UNCHANGED <<afterSetup, settled, agreed>> /\ Kept

Resume == Return("BLOCKED")

\* Mutant: a workflow may be blocked twice.
BlockedAgain ==
  /\ phase \in Phases \ {"DONE"}
  /\ Reported
  /\ returnPhase' = phase
  /\ phase' = "BLOCKED"
  /\ UNCHANGED <<afterSetup, settled, agreed>> /\ Kept

\* Blocking a prototype forgets where the prototype was to return to.
Blocked ==
  /\ phase \in Phases \ {"DONE", "BLOCKED"}
  /\ Reported
  /\ returnPhase' = phase
  /\ phase' = "BLOCKED"
  /\ UNCHANGED <<afterSetup, settled, agreed>> /\ Kept

\* A planning boundary: no decision may be open.
Boundary(from, next) ==
  /\ phase = from
  /\ Reported /\ ~open'
  /\ settled' = TRUE
  /\ agreed' = TRUE
  /\ phase' = next
  /\ UNCHANGED <<afterSetup, returnPhase>> /\ Kept

GrillingComplete ==
  /\ Boundary("GRILLING", IF span' = "multi" THEN "SPEC" ELSE "IMPLEMENT")
  /\ span' # "unknown"

MapClear == Boundary("WAYFINDING", "SPEC")

SpecComplete ==
  /\ Boundary("SPEC", IF span' = "multi" THEN "TICKETS" ELSE "IMPLEMENT")
  /\ span' # "unknown"

TicketsComplete ==
  /\ phase = "TICKETS"
  /\ Reported
  /\ phase' = "IMPLEMENT"
  /\ UNCHANGED <<afterSetup, returnPhase, settled, agreed>> /\ Kept

\* captureImplementationEvidence, when Tasks are linked.
ImplementationComplete ==
  /\ phase = "IMPLEMENT"
  /\ Reported
  /\ \A t \in linked : taskState[t] = "DELIVERED"
  /\ evidence' = IF linked = {} THEN evidence ELSE linked
  /\ review' = NoReview
  /\ phase' = "REVIEW"
  /\ UNCHANGED <<afterSetup, returnPhase, settled, agreed, linked, taskState>>

\* Mutant: the review may be one of another implementation.
ReviewPassedElsewhere ==
  /\ phase = "REVIEW"
  /\ Reported
  /\ evidence # {} => review.pass
  /\ phase' = "DONE"
  /\ UNCHANGED <<afterSetup, returnPhase, settled, agreed>> /\ Kept

\* assertReviewPassed, only when there is evidence.
ReviewPassed ==
  /\ phase = "REVIEW"
  /\ Reported
  /\ evidence # {} => review.pass /\ review.target = evidence
  /\ phase' = "DONE"
  /\ UNCHANGED <<afterSetup, returnPhase, settled, agreed>> /\ Kept

ReviewChangesRequested ==
  /\ phase = "REVIEW"
  /\ Reported
  /\ evidence' = {} /\ review' = NoReview
  /\ phase' = "IMPLEMENT"
  /\ UNCHANGED <<afterSetup, returnPhase, settled, agreed, linked, taskState>>

Advance ==
  \/ \E configured \in BOOLEAN : SetupComplete(configured)
  \/ PrototypeNeeded \/ PrototypeComplete \/ Blocked \/ Resume
  \/ GrillingComplete \/ MapClear \/ SpecComplete \/ TicketsComplete
  \/ ImplementationComplete \/ ReviewPassed \/ ReviewChangesRequested

WorkflowNext ==
  \/ \E sessionSpan \in Spans :
     \E foggy, decisionsSettled, configured, replace \in BOOLEAN :
       StartWorkflow(sessionSpan, foggy, decisionsSettled, configured, replace)
  \/ UpdateWorkflow
  \/ Advance
  \/ \E t \in Tasks : TaskEnds(t)

WorkflowSpec == WorkflowInit /\ [][WorkflowNext]_workflowVars

-----------------------------------------------------------------------------
(* Properties                                                                *)

\* Where a detour leads back to: SETUP to the routed phase, BLOCKED and
\* PROTOTYPE to the phase they came from.
Destination ==
  LET direct == IF phase \in {"BLOCKED", "PROTOTYPE"} THEN returnPhase ELSE phase
  IN  IF direct = "SETUP" THEN afterSetup ELSE direct

\* Captured evidence is about the Tasks that are linked now, each of them
\* delivered, and it exists only while the review of them is due or done.
EvidenceIsCurrent ==
  evidence # {} =>
    /\ evidence = linked
    /\ \A t \in evidence : taskState[t] = "DELIVERED"
    /\ Destination \in {"REVIEW", "DONE"}

\* A workflow that is DONE with captured evidence has a passing review of
\* exactly that implementation.
DoneIsReviewed ==
  phase = "DONE" /\ evidence # {} => review = [target |-> linked, pass |-> TRUE]

\* No path, detours over SETUP, PROTOTYPE and BLOCKED included, leads into the
\* build phases before the decisions were settled with none open
\* (docs/guided-development.md, workflow.advance: invalid phase jumps fail
\* closed).
BuildPhases == {"SPEC", "TICKETS", "IMPLEMENT", "REVIEW", "DONE"}
NothingBuiltUnsettled == Destination \in BuildPhases => agreed

\* A workflow that links implementation Tasks is DONE only with evidence of
\* them: "Review cannot pass without captured implementation evidence."
\* (workflow-service.js, assertReviewPassed).
DoneTasksAreReviewed == phase = "DONE" /\ linked # {} => evidence # {}
=============================================================================
