----------------------------- MODULE TaskAdvice -----------------------------
(* What task.resume recommends to an assistant (TaskActivityService), and     *)
(* what the tools that it recommends accept.  The facts of one Task change    *)
(* under its Runs, its Plan, its users and whoever edits; task.resume gathers *)
(* them over several awaits, and task.finish checks them again over others.   *)
EXTENDS Naturals

CONSTANTS
  Checks,     \* evidence kinds that the Task's completion contract requires
  MaxTroubles \* bound on what others do to the Task

ASSUME AdviceAssumption == MaxTroubles \in Nat

VARIABLES
  task,     \* status
  starting, \* the start of a Run, reserved and not yet registered
  runs,     \* the Task's Runs: how many of each kind, and the latest of them
  plan,     \* the latest Plan: its status, and what it waits for
  request,  \* the open approval request
  dirty,    \* the worktree has changes
  head,     \* commits since base_head
  evidence, \* the latest record of each check
  at,       \* where the assistant is
  seen,     \* the facts that its call has read
  advice,   \* what task.resume answered
  troubles  \* what others have done so far

factVars == <<task, starting, runs, plan, request, dirty, head, evidence>>
assistantVars == <<at, seen, advice>>
adviceVars == <<factVars, assistantVars, troubles>>

\* Every commit has an edit of its own, so there are not more of them.
Heads == 0..MaxTroubles
Evidence == [Checks -> [state : {"NONE", "PASS", "FAIL"}, sha : Heads]]
RunStates == {"NONE", "RUNNING", "LOST", "ENDED", "INTERRUPTED"}
PlanWaits == {"BARRIER", "FAILED", "APPROVAL", "USER"}
OpenPlan == PlanWaits \union {"RUNNING", "CANCELLING"}
Plans == OpenPlan \union {"NONE", "FINAL"}
Requests == {"NONE", "PENDING", "AWAITING_USER"}

Facts ==
  [open : BOOLEAN, start : BOOLEAN, request : Requests, evidence : Evidence,
   active : BOOLEAN, plan : Plans, dirty : BOOLEAN, head : Heads]
Advices ==
  [action  : {"NONE", "WAIT_FOR_PROCESS", "WAIT_FOR_PLAN",
              "USER_INPUT_REQUIRED", "APPROVAL_REQUIRED", "ASSISTANT_REQUIRED",
              "COMMIT_REQUIRED", "TASK_FINISH_REQUIRED"},
   blocker : {"NONE", "START", "REQUEST", "PLAN", "RUN", "EVIDENCE"}]

Nothing == [action |-> "NONE", blocker |-> "NONE"]
Unseen ==
  [open |-> TRUE, start |-> FALSE, request |-> "NONE",
   evidence |-> [c \in Checks |-> [state |-> "NONE", sha |-> 0]],
   active |-> FALSE, plan |-> "NONE", dirty |-> FALSE, head |-> 0]

\* An interrupted Run is repeated once: no more Runs than troubles.  The last one
\* is that with the latest time stamp.
Runs ==
  [total : 0..MaxTroubles, running : 0..MaxTroubles, lost : 0..MaxTroubles,
   last : RunStates]
NoRuns == [total |-> 0, running |-> 0, lost |-> 0, last |-> "NONE"]

AdviceTypeOK ==
  /\ task \in {"ACTIVE", "COMPLETED"}
  /\ starting \in {"NONE", "OWNED", "LOST", "STUCK"}
  /\ runs \in Runs
  /\ plan \in Plans
  /\ request \in Requests
  /\ dirty \in BOOLEAN
  /\ head \in Heads
  /\ evidence \in Evidence
  /\ at \in {"IDLE", "RUNS", "ACTIVE", "DIFF", "DERIVE", "ACT", "RECORD",
             "FINISH_PLAN", "FINISH_DIFF", "FINISH_HEAD", "FINISH"}
  /\ seen \in Facts
  /\ advice \in Advices
  /\ troubles \in 0..MaxTroubles

AdviceInit ==
  /\ task = "ACTIVE" /\ starting = "NONE" /\ runs = NoRuns /\ plan = "NONE"
  /\ request = "NONE" /\ dirty = FALSE /\ head = 0
  /\ evidence = Unseen.evidence
  /\ at = "IDLE" /\ seen = Unseen /\ advice = Nothing
  /\ troubles = 0

-----------------------------------------------------------------------------
(* The Task, its Runs and its Plan                                           *)

Active == runs.running > 0

\* reserveProcessStart, by a start of the assistant or of the Plan.
Reserves ==
  /\ task = "ACTIVE" /\ starting = "NONE"
  /\ starting' = "OWNED"

\* addProcess
StartRegisters ==
  /\ starting = "OWNED"
  /\ starting' = "NONE"
  /\ runs' = [runs EXCEPT !.total = @ + 1, !.running = @ + 1, !.last = "RUNNING"]
  /\ UNCHANGED <<task, plan, request, dirty, head, evidence, assistantVars,
                 troubles>>

\* Its end is the latest time stamp.
RunEnds ==
  /\ Active
  /\ runs' = [runs EXCEPT !.running = @ - 1, !.last = "ENDED"]
  /\ UNCHANGED <<task, starting, plan, request, dirty, head, evidence,
                 assistantVars, troubles>>

\* evaluateCompletionEvidence
Unproven(records, sha) ==
  \E c \in Checks : records[c] # [state |-> "PASS", sha |-> sha]

\* The driver has reached the end, or has cancelled the Plan.
PlanEnds ==
  /\ plan \in {"RUNNING", "CANCELLING"}
  /\ plan' = "FINAL"
  /\ UNCHANGED <<task, starting, runs, request, dirty, head, evidence,
                 assistantVars, troubles>>

\* GIT_COMMIT, evidence of a COMMAND, and TASK_FINISH of the Plan.
PlanWorks ==
  /\ plan = "RUNNING" /\ task = "ACTIVE"
  /\ \/ /\ dirty /\ dirty' = FALSE /\ head' = head + 1
        /\ UNCHANGED <<task, evidence>>
     \/ /\ \E c \in Checks :
             evidence' =
               [evidence EXCEPT ![c] = [state |-> "PASS", sha |-> head]]
        /\ UNCHANGED <<task, dirty, head>>
     \/ /\ starting = "NONE" /\ ~Active /\ ~dirty /\ ~Unproven(evidence, head)
        /\ task' = "COMPLETED"
        /\ UNCHANGED <<dirty, head, evidence>>
  /\ UNCHANGED <<starting, runs, plan, request, assistantVars, troubles>>

\* What others do, and what goes wrong: somebody edits; a start asks for
\* approval, is made by another caller, or fails; another caller starts a Plan;
\* the Plan stops before its end; the runtime that has the Runs ends.  A start
\* whose runtime ends before its record is durable is STUCK: nothing but an
\* operator drops its reservation.
Trouble ==
  /\ troubles < MaxTroubles /\ task = "ACTIVE"
  /\ troubles' = troubles + 1
  /\ \/ dirty' = TRUE /\ UNCHANGED <<starting, runs, plan, request>>
     \/ /\ request = "NONE" /\ request' = "PENDING"
        /\ UNCHANGED <<starting, runs, plan, dirty>>
     \/ Reserves /\ UNCHANGED <<runs, plan, request, dirty>>
     \/ /\ starting = "OWNED" /\ starting' = "NONE"
        /\ UNCHANGED <<runs, plan, request, dirty>>
     \/ /\ plan \notin OpenPlan /\ plan' = "RUNNING"
        /\ UNCHANGED <<starting, runs, request, dirty>>
     \/ /\ plan = "RUNNING" /\ plan' \in PlanWaits
        /\ request' = IF plan' = "APPROVAL" THEN "PENDING" ELSE request
        /\ UNCHANGED <<starting, runs, dirty>>
     \/ /\ starting = "OWNED" \/ Active
        /\ starting' \in IF starting = "OWNED" THEN {"LOST", "STUCK"}
                         ELSE {starting}
        /\ runs' = [runs EXCEPT !.running = 0, !.lost = @ + runs.running,
                                 !.last = IF @ = "RUNNING" THEN "LOST" ELSE @]
        /\ UNCHANGED <<plan, request, dirty>>
  /\ UNCHANGED <<task, head, evidence, assistantVars>>

-----------------------------------------------------------------------------
(* task.resume                                                               *)

Goes(from, to) == at = from /\ at' = to

\* TaskService.resume
ReadTask ==
  /\ Goes("IDLE", "RUNS")
  /\ seen' = [Unseen EXCEPT !.open = task = "ACTIVE",
                            !.start = starting # "NONE",
                            !.request = request, !.evidence = evidence]
  /\ UNCHANGED <<factVars, advice, troubles>>

\* summariesForTask, activeForTask: a start whose owner is DEAD is registered,
\* and Runs whose owner is DEAD become INTERRUPTED now.
FindRuns ==
  LET found == starting = "LOST"
  IN  /\ starting' = IF found THEN "NONE" ELSE starting
      /\ runs' = [runs EXCEPT !.total = IF found THEN @ + 1 ELSE @, !.lost = 0,
                              !.last = IF found \/ runs.lost > 0 THEN "INTERRUPTED"
                                       ELSE @]

\* summariesForTask, of which the recommendation takes nothing but that Runs were
\* found; process_limit is taken to cover them.
ReadSummaries ==
  /\ Goes("RUNS", "ACTIVE")
  /\ FindRuns
  /\ UNCHANGED <<task, plan, request, dirty, head, evidence, seen, advice,
                 troubles>>

\* ... then activeForTask, with latestForTask in the turn that its answer wakes.
ReadRuns ==
  /\ Goes("ACTIVE", "DIFF")
  /\ FindRuns
  /\ seen' = [seen EXCEPT !.active = Active, !.plan = plan]
  /\ UNCHANGED <<task, plan, request, dirty, head, evidence, advice, troubles>>

ReadDiff ==
  /\ Goes("DIFF", "DERIVE")
  /\ seen' = [seen EXCEPT !.dirty = dirty]
  /\ UNCHANGED <<factVars, advice, troubles>>

Advise(action, blocker) == [action |-> action, blocker |-> blocker]

\* Mutant, and what task.list does: evidence of any commit counts.
EvidenceBlockerListed(s) == \E c \in Checks : s.evidence[c].state # "PASS"

\* completionBlocker
EvidenceBlocker(s) == Unproven(s.evidence, head)

\* Mutant: Runs count only once they are registered.
DerivedRegistered(s) ==
  IF ~s.open THEN Nothing
  ELSE IF s.active THEN Advise("WAIT_FOR_PROCESS", "NONE")
  ELSE IF runs.last = "INTERRUPTED" THEN Advise("ASSISTANT_REQUIRED", "RUN")
  ELSE Advise("TASK_FINISH_REQUIRED", "NONE")

\* TaskActivityService.derive, from facts of different moments; the first branch
\* that applies.
Derived(s) ==
  IF ~s.open                             THEN Nothing
  ELSE IF s.start                        THEN Advise("WAIT_FOR_PROCESS", "START")
  ELSE IF s.plan \in {"RUNNING", "CANCELLING"} THEN Advise("WAIT_FOR_PLAN", "NONE")
  ELSE IF s.active                       THEN Advise("WAIT_FOR_PROCESS", "NONE")
  ELSE IF s.request = "AWAITING_USER"    THEN Advise("USER_INPUT_REQUIRED", "REQUEST")
  ELSE IF s.request = "PENDING"          THEN Advise("APPROVAL_REQUIRED", "REQUEST")
  ELSE IF s.plan = "USER"                THEN Advise("USER_INPUT_REQUIRED", "PLAN")
  ELSE IF s.plan = "APPROVAL"            THEN Advise("APPROVAL_REQUIRED", "PLAN")
  ELSE IF s.plan \in {"BARRIER", "FAILED"} THEN Advise("ASSISTANT_REQUIRED", "PLAN")
  ELSE IF runs.last = "INTERRUPTED"      THEN Advise("ASSISTANT_REQUIRED", "RUN")
  ELSE IF s.dirty                        THEN Advise("COMMIT_REQUIRED", "NONE")
  ELSE IF EvidenceBlocker(s)             THEN Advise("ASSISTANT_REQUIRED", "EVIDENCE")
  ELSE Advise("TASK_FINISH_REQUIRED", "NONE")

\* The HEAD is read last.
Derive ==
  /\ Goes("DERIVE", "ACT")
  /\ advice' = Derived(seen)
  /\ seen' = [Unseen EXCEPT !.head = head]
  /\ UNCHANGED <<factVars, troubles>>

-----------------------------------------------------------------------------
(* The tools that the assistant is told to use                               *)

Refused == at' = "IDLE" /\ UNCHANGED <<factVars, seen, troubles>>

\* WAIT_FOR_PROCESS, WAIT_FOR_PLAN, NONE: it comes back later.
ComesBack ==
  /\ at = "ACT"
  /\ advice.action \in {"NONE", "WAIT_FOR_PROCESS", "WAIT_FOR_PLAN"}
  /\ Refused
  /\ UNCHANGED advice

\* approval.respond; the user, once asked, allows or denies.
Responds ==
  /\ at = "ACT" /\ advice.blocker = "REQUEST"
  /\ IF task = "ACTIVE" /\ request # "NONE"
       THEN /\ at' = "IDLE"
            /\ request' \in {"NONE", "AWAITING_USER"} \ {request}
            /\ UNCHANGED <<task, starting, runs, plan, dirty, head, evidence,
                           seen, troubles>>
       ELSE Refused
  /\ UNCHANGED advice

\* plan.continue, which a failed Plan refuses; or plan.cancel.
AnswersPlan ==
  /\ at = "ACT" /\ advice.blocker = "PLAN"
  /\ IF plan \in PlanWaits
       THEN /\ at' = "IDLE"
            /\ plan' \in IF plan = "FAILED" THEN {"CANCELLING"}
                         ELSE {"RUNNING", "CANCELLING"}
            /\ UNCHANGED <<task, starting, runs, request, dirty, head,
                           evidence, seen, troubles>>
       ELSE Refused
  /\ UNCHANGED advice

\* process.start, to repeat the Run that was interrupted.
RunsAgain ==
  /\ at = "ACT" /\ advice.blocker = "RUN"
  /\ IF task = "ACTIVE" /\ starting = "NONE"
       THEN /\ at' = "IDLE" /\ Reserves
            /\ UNCHANGED <<task, runs, plan, request, dirty, head, evidence,
                           seen, troubles>>
       ELSE Refused
  /\ UNCHANGED advice

\* task.evidence.record: the HEAD is awaited, ...
ReadsHead ==
  /\ at = "ACT" /\ advice.blocker = "EVIDENCE"
  /\ IF task = "ACTIVE"
       THEN /\ at' = "RECORD" /\ seen' = [seen EXCEPT !.head = head]
            /\ UNCHANGED <<factVars, troubles>>
       ELSE Refused
  /\ UNCHANGED advice

\* ... and the result is bound to it; a FAIL is a trouble.
RecordsEvidence ==
  /\ at = "RECORD"
  /\ IF task = "ACTIVE"
       THEN /\ at' = "IDLE"
            /\ \E c \in Checks, state \in {"PASS", "FAIL"} :
                 /\ Unproven(evidence, seen.head)
                      => evidence[c] # [state |-> "PASS", sha |-> seen.head]
                 /\ evidence' = [evidence EXCEPT ![c] =
                                   [state |-> state, sha |-> seen.head]]
                 /\ troubles' = troubles + IF state = "FAIL" THEN 1 ELSE 0
                 /\ troubles' <= MaxTroubles
            /\ UNCHANGED <<task, starting, runs, plan, request, dirty, head,
                           seen>>
       ELSE Refused
  /\ UNCHANGED advice

\* git.commit
Commits ==
  /\ at = "ACT" /\ advice.action = "COMMIT_REQUIRED"
  /\ IF task = "ACTIVE" /\ dirty
       THEN /\ at' = "IDLE" /\ dirty' = FALSE /\ head' = head + 1
            /\ UNCHANGED <<task, starting, runs, plan, request, evidence, seen, troubles>>
       ELSE Refused
  /\ UNCHANGED advice

\* task.finish: assertActive, activeForTask, ...
FinishBegin ==
  /\ at = "ACT" /\ advice.action = "TASK_FINISH_REQUIRED"
  /\ IF task = "ACTIVE"
       THEN /\ FindRuns
            /\ at' = IF Active THEN "IDLE" ELSE "FINISH_PLAN"
            /\ seen' = [seen EXCEPT !.evidence = evidence]
            /\ UNCHANGED <<task, plan, request, dirty, head, evidence,
                           troubles>>
       ELSE Refused
  /\ UNCHANGED advice

\* ... TASK_PLAN_ACTIVE, ...
FinishPlan ==
  /\ Goes("FINISH_PLAN", IF plan \in OpenPlan THEN "IDLE" ELSE "FINISH_DIFF")
  /\ UNCHANGED <<factVars, seen, advice, troubles>>

\* ... TASK_UNCOMMITTED_CHANGES, ...
FinishDiff ==
  /\ Goes("FINISH_DIFF", IF dirty THEN "IDLE" ELSE "FINISH_HEAD")
  /\ UNCHANGED <<factVars, seen, advice, troubles>>

\* ... the outcome, NO_CHANGE if the assistant saw no commit, and the evidence
\* that was in the record when the call began, ...
FinishHead ==
  /\ Goes("FINISH_HEAD", IF /\ (seen.head = 0) = (head = 0)
                            /\ ~Unproven(seen.evidence, head)
                         THEN "FINISH" ELSE "IDLE")
  /\ seen' = [seen EXCEPT !.head = head]
  /\ UNCHANGED <<factVars, advice, troubles>>

\* ... and TaskService.finish, which looks again at the record.
Finish ==
  /\ Goes("FINISH", "IDLE")
  /\ task' = IF /\ task = "ACTIVE" /\ starting = "NONE"
                /\ ~Unproven(evidence, seen.head)
             THEN "COMPLETED" ELSE task
  /\ UNCHANGED <<starting, runs, plan, request, dirty, head, evidence, seen,
                 advice, troubles>>

-----------------------------------------------------------------------------
Assistant ==
  \/ ReadTask \/ ReadSummaries \/ ReadRuns \/ ReadDiff \/ Derive
  \/ ComesBack \/ Responds \/ AnswersPlan \/ RunsAgain \/ ReadsHead
  \/ RecordsEvidence \/ Commits
  \/ FinishBegin \/ FinishPlan \/ FinishDiff \/ FinishHead \/ Finish

AdviceNext ==
  \/ Assistant \/ StartRegisters \/ RunEnds \/ PlanEnds \/ PlanWorks \/ Trouble

\* The assistant goes on; starts, Runs and Plans come to their ends.  Nobody
\* has to make trouble.
AdviceSpec ==
  /\ AdviceInit /\ [][AdviceNext]_adviceVars
  /\ WF_adviceVars(Assistant)
  /\ WF_adviceVars(StartRegisters) /\ WF_adviceVars(RunEnds)
  /\ WF_adviceVars(PlanEnds)

-----------------------------------------------------------------------------
\* Properties

\* A Run that is lost is repeated once, and an edit is committed once: all Runs
\* and commits together are no more than what others have done, whatever starts,
\* losses and recoveries fall between what task.resume reads and what the
\* assistant then does.
RepeatsOnce == runs.total + head <= troubles

\* An assistant that does what task.resume recommends, and nothing else, brings
\* the Task to its end through Runs that are lost, Plans that stop, approvals,
\* edits of others and answers put together from facts of different moments:
\* the recommendations and the guards of the tools never send it round in
\* circles.  Only a reservation whose Run left no record is beyond it.
AdviceLeadsToTheEnd == task = "ACTIVE" ~> task # "ACTIVE" \/ starting = "STUCK"
=============================================================================
