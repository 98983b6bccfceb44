------------------------------ MODULE PlanRunner ------------------------------
(***************************************************************************)
(* One durable Plan and the drivers that advance it (PlanService).  Every  *)
(* AgentDock process, HTTP or MCP, may hold a driver; a short durable lease *)
(* in the Plan document says whose turn it is.  A driver loads the Plan,   *)
(* decides, awaits a Run or git, and writes the Plan in transactions of    *)
(* its own: each load, await and transaction is a step here, so drivers of *)
(* different processes, callers of plan.cancel and plan.continue, and      *)
(* crashes fall between any two.                                           *)
(***************************************************************************)
EXTENDS Integers, FiniteSets

CONSTANTS
  Drivers,       \* PlanService instances, one random driver id each
  NoDriver,
  Steps,         \* indices of the Plan's steps
  Action,        \* what each step does
  DependsOn,     \* the steps each step waits for
  MaxAttempts,   \* retry.max_attempts of each step
  Evidence,      \* COMMAND steps that declare completion evidence
  Required,      \* those that the Task's completion contract requires
  NoChange,      \* TASK_FINISH steps whose outcome is NO_CHANGE
  Callers,       \* processes that serve plan.cancel and plan.continue
  AttemptBound,  \* bound of the model: Runs of one step
  Disturbances   \* what may go wrong

Actions == {"COMMAND", "BARRIER", "GIT_COMMIT", "TASK_FINISH"}
Attempts == 0..AttemptBound

\* The idempotency keys of the Plan's Runs.  That two steps have distinct keys is
\* a restriction of the model: createPlan does not compare the keys it is given.
Keys == Steps \X (1..AttemptBound)

\* What createPlan accepts (validateStep, validateDependencies): known actions,
\* one to three attempts, dependencies among the steps, and no set of steps that
\* wait for one another.
ValidPlan ==
  /\ Action \in [Steps -> Actions]
  /\ DependsOn \in [Steps -> SUBSET Steps]
  /\ MaxAttempts \in [Steps -> 1..3]
  /\ \A C \in (SUBSET Steps) \ {{}} : \E s \in C : DependsOn[s] \intersect C = {}

ASSUME PlanAssumption ==
  /\ NoDriver \notin Drivers
  /\ Steps \subseteq Nat \ {0}
  /\ ValidPlan
  /\ Evidence \subseteq {s \in Steps : Action[s] = "COMMAND"}
  /\ Required \subseteq Evidence
  /\ NoChange \subseteq {s \in Steps : Action[s] = "TASK_FINISH"}
  /\ AttemptBound \in Nat \ {0}
  /\ Disturbances \subseteq {"CRASH", "SLOW", "ERROR", "TIMEOUT", "APPROVAL",
                        "EDIT", "OVERLAP"}

VARIABLES
  status,      \* durable Plan status
  blocker,     \* durable blocker: its code and step
  cancelled,   \* durable cancel_requested
  holder,      \* durable driver_id
  fresh,       \* driver_lease_until lies in the future
  step,        \* durable status of each step
  attempts,    \* durable attempts of each step
  run,         \* durable run_id of each step: the attempt it belongs to
  startHead,   \* durable operation_started_head of each step
  proc,        \* the Run bound to the key <<step, attempt>>
  evidence,    \* the latest evidence in the Task record of each step's kind
  task,        \* Task status
  head,        \* commits in the Task worktree since its base
  dirty,       \* the worktree has changes
  pc,          \* where a driver is
  cur,         \* its step,
  tried,       \* the attempts it read,
  seenRun,     \* the run_id it read or started,
  seenStart,   \* the operation_started_head it read or marked,
  seenHead,    \* the HEAD it read before a commit, a record or a finish,
  result,      \* the outcome it read
  caller       \* the plan.cancel or plan.continue that a process serves

stepVars   == <<step, attempts, run, startHead>>
leaseVars  == <<holder, fresh>>
planVars   == <<status, blocker, cancelled, leaseVars, stepVars>>
worldVars  == <<proc, evidence, task, head, dirty>>
localVars  == <<cur, tried, seenRun, seenStart, seenHead, result>>
vars == <<planVars, worldVars, pc, localVars, caller>>

Awaiting == {"AWAITING_ASSISTANT", "AWAITING_APPROVAL", "AWAITING_USER"}
PlanFinal == {"READY_TO_COMMIT", "COMPLETED", "CANCELLED"}
PlanTerminal == PlanFinal \union Awaiting
StepFailed == {"FAILED", "CANCELLED", "INTERRUPTED"}
RunActive == {"RUNNING", "CANCELLING"}
RunTerminal == {"OK", "BAD", "CANCELLED", "INTERRUPTED"}

NoBlocker == [code |-> "NONE", step |-> 0]
Idle == [at |-> "IDLE", key |-> <<0, 0>>]
At(place) == [at |-> place, key |-> <<0, 0>>]

Writing ==
  {"CANCEL", "BLOCK", "COMPLETE", "WAIT", "APPROVAL", "STARTED", "PASS",
   "RETRY", "FAIL", "MARK", "ACT_PASS", "ACT_FAIL", "FAIL_PLAN"}
Places == Writing \union
  {"OFF", "DOWN", "TOP", "SELECT", "START", "POLL", "STATUS", "EVIDENCE",
   "FAIL_EVIDENCE", "NOTE", "FAIL_NOTE", "ACT",
   "RESUME", "DIFF", "COMMIT", "RECORD", "FINISH_CHECK", "FINISH_DIFF",
   "FINISH_HEAD", "FINISH", "ERROR"}

TypeOK ==
  /\ status \in PlanTerminal \union {"RUNNING"}
  /\ blocker \in [code : {"NONE", "CANCELLED", "DEPENDENCY", "BARRIER",
                          "APPROVAL", "STEP", "ACTION", "DRIVER"},
                  step : Steps \union {0}]
  /\ cancelled \in BOOLEAN
  /\ holder \in Drivers \union {NoDriver}
  /\ fresh \in BOOLEAN
  /\ step \in [Steps -> {"PENDING", "RUNNING", "WAITING", "PASSED"}
                        \union StepFailed]
  /\ attempts \in [Steps -> Attempts]
  /\ run \in [Steps -> Attempts]
  /\ startHead \in [Steps -> Nat]
  /\ proc \in [Keys -> {"NONE"} \union RunActive \union RunTerminal]
  /\ evidence \in [Steps -> [state : {"NONE", "PASS", "FAIL"}, sha : Nat]]
  /\ task \in {"ACTIVE", "COMPLETED"}
  /\ head \in Nat /\ dirty \in BOOLEAN
  /\ pc \in [Drivers -> Places]
  /\ cur \in [Drivers -> Steps \union {0}]
  /\ tried \in [Drivers -> Attempts]
  /\ seenRun \in [Drivers -> Attempts]
  /\ seenStart \in [Drivers -> Nat]
  /\ seenHead \in [Drivers -> Nat]
  /\ result \in [Drivers -> RunTerminal \union {"NONE", "TIMEOUT"}]
  /\ caller \in [Callers -> [at  : {"IDLE", "CANCEL", "SIGNAL", "CONTINUE"},
                              key : {<<0, 0>>} \union Keys]]

\* plan.start has just created the Plan: no driver yet, changes in the worktree.
Init ==
  /\ status = "RUNNING" /\ blocker = NoBlocker /\ cancelled = FALSE
  /\ holder = NoDriver /\ fresh = FALSE
  /\ step = [s \in Steps |-> "PENDING"]
  /\ attempts = [s \in Steps |-> 0]
  /\ run = [s \in Steps |-> 0]
  /\ startHead = [s \in Steps |-> 0]
  /\ proc = [k \in Keys |-> "NONE"]
  /\ evidence = [s \in Steps |-> [state |-> "NONE", sha |-> 0]]
  /\ task = "ACTIVE" /\ head = 0 /\ dirty = TRUE
  /\ pc = [d \in Drivers |-> "OFF"]
  /\ cur = [d \in Drivers |-> 0]
  /\ tried = [d \in Drivers |-> 0]
  /\ seenRun = [d \in Drivers |-> 0]
  /\ seenStart = [d \in Drivers |-> 0]
  /\ seenHead = [d \in Drivers |-> 0]
  /\ result = [d \in Drivers |-> "NONE"]
  /\ caller = [c \in Callers |-> Idle]

-----------------------------------------------------------------------------
(* The driver lease                                                        *)

Goto(d, place) == pc' = [pc EXCEPT ![d] = place]

\* What a driver read lasts for one turn of the loop.
Forget(d, place) ==
  /\ Goto(d, place)
  /\ cur' = [cur EXCEPT ![d] = 0]
  /\ tried' = [tried EXCEPT ![d] = 0]
  /\ seenRun' = [seenRun EXCEPT ![d] = 0]
  /\ seenStart' = [seenStart EXCEPT ![d] = 0]
  /\ seenHead' = [seenHead EXCEPT ![d] = 0]
  /\ result' = [result EXCEPT ![d] = "NONE"]

\* drive() returns.
Leave(d) == Forget(d, "OFF")

\* Mutant: #ensureDriver without the check of driver_lease_until.
ClaimStealing(d) ==
  /\ pc[d] = "OFF" /\ status = "RUNNING"
  /\ holder' = d /\ fresh' = TRUE
  /\ Goto(d, "TOP")
  /\ UNCHANGED <<status, blocker, cancelled, stepVars, worldVars, localVars,
                 caller>>

\* Mutant: #ensureDriver that never takes over the lease of another driver.
ClaimUnheld(d) == holder \in {NoDriver, d} /\ ClaimStealing(d)

\* #ensureDriver, from plan.start, a caller's timer, or the recovery timer.
Claim(d) ==
  /\ pc[d] = "OFF"
  /\ status = "RUNNING"
  /\ holder \in {NoDriver, d} \/ ~fresh
  /\ holder' = d /\ fresh' = TRUE
  /\ Goto(d, "TOP")
  /\ UNCHANGED <<status, blocker, cancelled, stepVars, worldVars, localVars,
                 caller>>

\* A lease runs out when its driver is dead, or slow between two renewals: an
\* await on git or on the Run Supervisor may take longer than DRIVER_LEASE_MS.
LeaseExpires ==
  /\ fresh /\ holder # NoDriver
  /\ pc[holder] = "DOWN" \/ "SLOW" \in Disturbances
  /\ fresh' = FALSE
  /\ UNCHANGED <<status, blocker, cancelled, holder, stepVars, worldVars, pc,
                 localVars, caller>>

\* #renewDriver; the head of the loop, and of the poll.
Renewable(d) == holder = d /\ status = "RUNNING"

Renew(d) ==
  /\ pc[d] = "TOP"
  /\ \/ /\ Renewable(d)
        /\ fresh' = TRUE
        /\ Goto(d, "SELECT")
        /\ UNCHANGED localVars
     \/ /\ ~Renewable(d)
        /\ Leave(d)
        /\ UNCHANGED fresh
  /\ UNCHANGED <<status, blocker, cancelled, holder, stepVars, worldVars,
                 caller>>

\* The transport process ends; its successor has another driver id.
Crash(d) ==
  /\ "CRASH" \in Disturbances
  /\ pc[d] # "DOWN"
  /\ Forget(d, "DOWN")
  /\ UNCHANGED <<planVars, worldVars, caller>>

-----------------------------------------------------------------------------
(* drive(): choose what to do                                              *)

\* Mutant: depends_on is not looked at.
ReadyAlways(s) == step[s] = "PENDING"

Ready(s) == step[s] = "PENDING" /\ \A t \in DependsOn[s] : step[t] = "PASSED"

First(S) == CHOOSE s \in S : \A t \in S : s <= t

\* Mutant: drive() begins a ready step before it resumes the RUNNING one.
ChosenReadyFirst ==
  LET open == {s \in Steps : Ready(s)} IN
  IF open # {} THEN First(open)
  ELSE IF \E s \in Steps : step[s] = "RUNNING"
       THEN First({s \in Steps : step[s] = "RUNNING"})
  ELSE 0

\* A RUNNING step is resumed, else the first ready one is begun.
Chosen ==
  LET running == {s \in Steps : step[s] = "RUNNING"}
      ready == {s \in Steps : Ready(s)}
  IN IF running # {} THEN First(running)
     ELSE IF ready # {} THEN First(ready)
     ELSE 0

Place(s) ==
  CASE Action[s] = "GIT_COMMIT"  ->
         IF step[s] = "RUNNING" THEN "RESUME" ELSE "ACT"
    [] Action[s] = "TASK_FINISH" -> "FINISH_CHECK"
    [] Action[s] = "BARRIER"     -> "WAIT"
    [] Action[s] = "COMMAND"     ->
         IF step[s] = "RUNNING" THEN "POLL" ELSE "START"

Select(d) ==
  /\ pc[d] = "SELECT"
  /\ \/ /\ cancelled
        /\ Goto(d, "CANCEL")
        /\ UNCHANGED localVars
     \/ /\ ~cancelled /\ Chosen # 0
        /\ Goto(d, Place(Chosen))
        /\ cur' = [cur EXCEPT ![d] = Chosen]
        /\ tried' = [tried EXCEPT ![d] = attempts[Chosen]]
        /\ seenRun' = [seenRun EXCEPT ![d] = run[Chosen]]
        /\ seenStart' = [seenStart EXCEPT ![d] = startHead[Chosen]]
        /\ UNCHANGED <<seenHead, result>>
     \/ /\ ~cancelled /\ Chosen = 0
        /\ Goto(d, IF \E s \in Steps : step[s] = "PENDING" THEN "BLOCK"
                   ELSE "COMPLETE")
        /\ UNCHANGED localVars
  /\ UNCHANGED <<planVars, worldVars, caller>>

\* The driver's last write: the Plan leaves RUNNING and drive() returns.  No
\* such write looks at the lease or at the status.
Stop(d, place, st, b) ==
  /\ pc[d] = place
  /\ status' = st
  /\ blocker' = b
  /\ Leave(d)
  /\ UNCHANGED <<cancelled, leaseVars, attempts, run, startHead, worldVars,
                 caller>>

CancelPlan(d) ==
  LET open == {s \in Steps : step[s] \in {"RUNNING", "WAITING"}} IN
  /\ Stop(d, "CANCEL", "CANCELLED", [code |-> "CANCELLED", step |-> 0])
  /\ step' = IF open = {} THEN step
             ELSE [step EXCEPT ![First(open)] = "CANCELLED"]

BlockPlan(d) ==
  /\ Stop(d, "BLOCK", "AWAITING_ASSISTANT", [code |-> "DEPENDENCY", step |-> 0])
  /\ UNCHANGED step

CompletePlan(d) ==
  /\ Stop(d, "COMPLETE",
          IF task = "COMPLETED" THEN "COMPLETED" ELSE "READY_TO_COMMIT",
          NoBlocker)
  /\ UNCHANGED step

ReachBarrier(d) ==
  /\ \E st \in {"AWAITING_ASSISTANT", "AWAITING_USER"} :
       Stop(d, "WAIT", st, [code |-> "BARRIER", step |-> cur[d]])
  /\ step' = [step EXCEPT ![cur[d]] = "WAITING"]

\* drive() threw: the handler loads the Plan, and writes unless it is terminal.
CatchError(d) ==
  /\ pc[d] = "ERROR"
  /\ \/ /\ status \in PlanTerminal
        /\ Leave(d)
     \/ /\ status \notin PlanTerminal
        /\ Goto(d, "FAIL_PLAN")
        /\ UNCHANGED localVars
  /\ UNCHANGED <<planVars, worldVars, caller>>

FailPlan(d) ==
  /\ Stop(d, "FAIL_PLAN", "AWAITING_ASSISTANT", [code |-> "DRIVER", step |-> 0])
  /\ UNCHANGED step

-----------------------------------------------------------------------------
(* COMMAND steps                                                           *)

\* The key of the start call: planId, step key and attempts + 1 as read.
Key(d) == <<cur[d], tried[d] + 1>>

\* processes.start: a Run bound to the key is returned as it is, else the policy
\* may demand an approval, else a Run starts.  Any await may throw.
StartRun(d) ==
  /\ pc[d] = "START"
  /\ tried[d] < AttemptBound
  /\ \/ /\ proc[Key(d)] = "NONE" /\ task = "ACTIVE"
        /\ proc' = [proc EXCEPT ![Key(d)] = "RUNNING"]
        /\ Goto(d, "STARTED")
     \/ /\ proc[Key(d)] # "NONE"
        /\ Goto(d, "STARTED")
        /\ UNCHANGED proc
     \/ /\ proc[Key(d)] = "NONE" /\ "APPROVAL" \in Disturbances
        /\ Goto(d, "APPROVAL")
        /\ UNCHANGED proc
     \/ /\ "ERROR" \in Disturbances \/ task # "ACTIVE"
        /\ Goto(d, "ERROR")
        /\ UNCHANGED proc
  /\ UNCHANGED <<planVars, evidence, task, head, dirty, localVars, caller>>

AwaitApproval(d) ==
  /\ \E st \in {"AWAITING_APPROVAL", "AWAITING_USER"} :
       Stop(d, "APPROVAL", st, [code |-> "APPROVAL", step |-> cur[d]])
  /\ UNCHANGED step

\* The step is RUNNING under the Run that was started; attempts is incremented
\* from the durable value, whatever the driver read.
RecordRun(d) ==
  LET s == cur[d] IN
  /\ pc[d] = "STARTED"
  /\ attempts[s] < AttemptBound
  /\ step' = [step EXCEPT ![s] = "RUNNING"]
  /\ run' = [run EXCEPT ![s] = tried[d] + 1]
  /\ attempts' = [attempts EXCEPT ![s] = @ + 1]
  /\ seenRun' = [seenRun EXCEPT ![d] = tried[d] + 1]
  /\ tried' = [tried EXCEPT ![d] = attempts[s] + 1]
  /\ Goto(d, "POLL")
  /\ UNCHANGED <<status, blocker, cancelled, leaseVars, startHead, worldVars,
                 cur, seenStart, seenHead, result, caller>>

\* The poll loop: a cancelled Plan goes back to the head of drive(), a driver
\* that lost its lease or its Plan returns.
Poll(d) ==
  /\ pc[d] = "POLL"
  /\ \/ /\ cancelled
        /\ Forget(d, "TOP")
        /\ UNCHANGED fresh
     \/ /\ ~cancelled /\ Renewable(d)
        /\ fresh' = TRUE
        /\ Goto(d, "STATUS")
        /\ UNCHANGED localVars
     \/ /\ ~cancelled /\ ~Renewable(d)
        /\ Leave(d)
        /\ UNCHANGED fresh
  /\ UNCHANGED <<status, blocker, cancelled, holder, stepVars, worldVars,
                 caller>>

\* Mutant: attempts <= max_attempts.
VerdictOneMore(d, r) ==
  IF r = "OK" THEN "PASS"
  ELSE IF tried[d] <= MaxAttempts[cur[d]] THEN "RETRY"
  ELSE "FAIL"

\* Mutant: Success without a look at success_criteria.exit_codes.
VerdictExited(d, r) ==
  IF r \in {"OK", "BAD"} THEN "PASS"
  ELSE IF tried[d] < MaxAttempts[cur[d]] THEN "RETRY"
  ELSE "FAIL"

\* Where the outcome of a Run leads.  cancel_requested is not read again.
Verdict(d, r) ==
  IF r = "OK" THEN "PASS"
  ELSE IF tried[d] < MaxAttempts[cur[d]] THEN "RETRY"
  ELSE IF cur[d] \in Evidence THEN "FAIL_EVIDENCE"
  ELSE "FAIL"

\* processes.status answers; a Run that exceeds timeout_ms is asked to stop and
\* counts as failed at once.
ReadStatus(d) ==
  LET k == <<cur[d], seenRun[d]>> IN
  /\ pc[d] = "STATUS"
  /\ \/ /\ proc[k] \in RunTerminal
        /\ result' = [result EXCEPT ![d] = proc[k]]
        /\ Goto(d, Verdict(d, proc[k]))
        /\ UNCHANGED proc
     \/ /\ proc[k] \in RunActive
        /\ Goto(d, "POLL")
        /\ UNCHANGED <<proc, result>>
     \/ /\ proc[k] \in RunActive /\ "TIMEOUT" \in Disturbances
        /\ proc' \in {proc, [proc EXCEPT ![k] = "CANCELLING"]}
        /\ result' = [result EXCEPT ![d] = "TIMEOUT"]
        /\ Goto(d, Verdict(d, "TIMEOUT"))
     \/ /\ "ERROR" \in Disturbances
        /\ Goto(d, "ERROR")
        /\ UNCHANGED <<proc, result>>
  /\ UNCHANGED <<planVars, evidence, task, head, dirty, cur, tried, seenRun,
                 seenStart, seenHead, caller>>

PassStep(d) ==
  /\ pc[d] = "PASS"
  /\ step' = [step EXCEPT ![cur[d]] = "PASSED"]
  /\ IF cur[d] \in Evidence
     THEN Goto(d, "EVIDENCE") /\ UNCHANGED localVars
     ELSE Forget(d, "TOP")
  /\ UNCHANGED <<status, blocker, cancelled, leaseVars, attempts, run,
                 startHead, worldVars, caller>>

\* git.currentHead, of a PASSED step or before a step fails.
ReadSubject(d) ==
  /\ pc[d] \in {"EVIDENCE", "FAIL_EVIDENCE"}
  /\ \/ /\ seenHead' = [seenHead EXCEPT ![d] = head]
        /\ Goto(d, IF pc[d] = "EVIDENCE" THEN "NOTE" ELSE "FAIL_NOTE")
     \/ /\ "ERROR" \in Disturbances
        /\ Goto(d, "ERROR")
        /\ UNCHANGED seenHead
  /\ UNCHANGED <<planVars, worldVars, cur, tried, seenRun, seenStart, result,
                 caller>>

\* TaskService.recordEvidence, of an ACTIVE Task.
RecordEvidence(d) ==
  /\ pc[d] \in {"NOTE", "FAIL_NOTE"}
  /\ \/ /\ task = "ACTIVE"
        /\ evidence' = [evidence EXCEPT ![cur[d]] =
             [state |-> IF pc[d] = "NOTE" THEN "PASS" ELSE "FAIL",
              sha   |-> seenHead[d]]]
        /\ IF pc[d] = "NOTE" THEN Forget(d, "TOP")
           ELSE Goto(d, "FAIL") /\ UNCHANGED localVars
     \/ /\ task # "ACTIVE"
        /\ Goto(d, "ERROR")
        /\ UNCHANGED <<evidence, localVars>>
  /\ UNCHANGED <<planVars, proc, task, head, dirty, caller>>

RetryStep(d) ==
  /\ pc[d] = "RETRY"
  /\ step' = [step EXCEPT ![cur[d]] = "PENDING"]
  /\ run' = [run EXCEPT ![cur[d]] = 0]
  /\ Forget(d, "TOP")
  /\ UNCHANGED <<status, blocker, cancelled, leaseVars, attempts, startHead,
                 worldVars, caller>>

\* Mutant: The failed step takes over the status of its Run.
FailStepVerbatim(d) ==
  /\ Stop(d, "FAIL", "AWAITING_ASSISTANT", [code |-> "STEP", step |-> cur[d]])
  /\ step' = [step EXCEPT ![cur[d]] = result[d]]

FailStep(d) ==
  /\ Stop(d, "FAIL", "AWAITING_ASSISTANT", [code |-> "STEP", step |-> cur[d]])
  /\ step' = [step EXCEPT ![cur[d]] =
                IF result[d] \in {"CANCELLED", "INTERRUPTED"} THEN result[d]
                ELSE "FAILED"]

-----------------------------------------------------------------------------
(* GIT_COMMIT and TASK_FINISH steps (#executeTaskAction)                   *)

ActFails(d) == Goto(d, "ACT_FAIL")

ReadHead(d) ==
  /\ pc[d] \in {"ACT", "RESUME"}
  /\ \/ /\ seenHead' = [seenHead EXCEPT ![d] = head]
        /\ Goto(d, IF pc[d] = "ACT" THEN "MARK" ELSE "DIFF")
     \/ /\ "ERROR" \in Disturbances
        /\ ActFails(d)
        /\ UNCHANGED seenHead
  /\ UNCHANGED <<planVars, worldVars, cur, tried, seenRun, seenStart, result,
                 caller>>

MarkCommitting(d) ==
  LET s == cur[d] IN
  /\ pc[d] = "MARK"
  /\ attempts[s] < AttemptBound
  /\ step' = [step EXCEPT ![s] = "RUNNING"]
  /\ attempts' = [attempts EXCEPT ![s] = @ + 1]
  /\ startHead' = [startHead EXCEPT ![s] = seenHead[d]]
  /\ seenStart' = [seenStart EXCEPT ![d] = seenHead[d]]
  /\ Goto(d, "DIFF")
  /\ UNCHANGED <<status, blocker, cancelled, leaseVars, run, worldVars, cur,
                 tried, seenRun, seenHead, result, caller>>

\* Mutant: GIT_COMMIT that does not look for the commit of an earlier driver.
CheckDiffAgain(d) ==
  /\ pc[d] = "DIFF"
  /\ Goto(d, "COMMIT")
  /\ UNCHANGED <<planVars, worldVars, localVars, caller>>

\* A clean worktree whose HEAD moved since the step began holds the commit of an
\* earlier driver.
CheckDiff(d) ==
  /\ pc[d] = "DIFF"
  /\ \/ Goto(d, IF ~dirty /\ seenHead[d] # seenStart[d] THEN "RECORD"
                ELSE "COMMIT")
     \/ "ERROR" \in Disturbances /\ ActFails(d)
  /\ UNCHANGED <<planVars, worldVars, localVars, caller>>

\* git.commit refuses a clean worktree, and reports a commit that leaves the
\* worktree dirty (a hook, an edit meanwhile) as an error;
\* such commits are bounded by the number of steps.
Commit(d) ==
  /\ pc[d] = "COMMIT"
  /\ \/ /\ dirty
        /\ head' = head + 1 /\ dirty' = FALSE
        /\ Goto(d, "RECORD")
     \/ /\ dirty /\ Disturbances \intersect {"ERROR", "EDIT"} # {}
        /\ head < Cardinality(Steps)
        /\ head' = head + 1
        /\ ActFails(d)
        /\ UNCHANGED dirty
     \/ /\ ~dirty \/ "ERROR" \in Disturbances
        /\ ActFails(d)
        /\ UNCHANGED <<head, dirty>>
  /\ UNCHANGED <<planVars, proc, evidence, task, localVars, caller>>

\* TaskService.recordCommit.
RecordCommit(d) ==
  /\ pc[d] = "RECORD"
  /\ Goto(d, IF task = "ACTIVE" THEN "ACT_PASS" ELSE "ACT_FAIL")
  /\ UNCHANGED <<planVars, worldVars, localVars, caller>>

\* A COMPLETED Task was finished by an earlier driver; else no Run may be active.
FinishCheck(d) ==
  LET quiet == \A k \in Keys : proc[k] \notin RunActive IN
  /\ pc[d] = "FINISH_CHECK"
  /\ \/ /\ task = "COMPLETED"
        /\ Goto(d, "ACT_PASS")
     \/ /\ task = "ACTIVE" /\ quiet
        /\ Goto(d, "FINISH_DIFF")
     \/ /\ task = "ACTIVE" /\ (~quiet \/ "ERROR" \in Disturbances)
        /\ ActFails(d)
  /\ UNCHANGED <<planVars, worldVars, localVars, caller>>

FinishDiff(d) ==
  /\ pc[d] = "FINISH_DIFF"
  /\ \/ /\ ~dirty
        /\ Goto(d, "FINISH_HEAD")
     \/ /\ dirty \/ "ERROR" \in Disturbances
        /\ ActFails(d)
  /\ UNCHANGED <<planVars, worldVars, localVars, caller>>

\* A NO_CHANGE must hide no commit, any other outcome needs one.
FinishHead(d) ==
  LET fits == (cur[d] \in NoChange) = (head = 0) IN
  /\ pc[d] = "FINISH_HEAD"
  /\ \/ /\ fits
        /\ seenHead' = [seenHead EXCEPT ![d] = head]
        /\ Goto(d, "FINISH")
     \/ /\ ~fits \/ "ERROR" \in Disturbances
        /\ ActFails(d)
        /\ UNCHANGED seenHead
  /\ UNCHANGED <<planVars, worldVars, cur, tried, seenRun, seenStart, result,
                 caller>>

\* evaluateCompletionEvidence: PASS, and recorded for this very commit.
Satisfied(sha) == \A s \in Required : evidence[s] = [state |-> "PASS", sha |-> sha]

\* Mutant: TaskService.finish without the completion contract.
FinishTaskUnverified(d) ==
  /\ pc[d] = "FINISH" /\ task = "ACTIVE"
  /\ task' = "COMPLETED"
  /\ Goto(d, "ACT_PASS")
  /\ UNCHANGED <<planVars, proc, evidence, head, dirty, localVars, caller>>

\* TaskService.finish re-reads the Task: its status and its evidence.
FinishTask(d) ==
  /\ pc[d] = "FINISH"
  /\ \/ /\ task = "ACTIVE" /\ Satisfied(seenHead[d])
        /\ task' = "COMPLETED"
        /\ Goto(d, "ACT_PASS")
     \/ /\ task # "ACTIVE" \/ ~Satisfied(seenHead[d]) \/ "ERROR" \in Disturbances
        /\ ActFails(d)
        /\ UNCHANGED task
  /\ UNCHANGED <<planVars, proc, evidence, head, dirty, localVars, caller>>

PassAction(d) ==
  /\ pc[d] = "ACT_PASS"
  /\ step' = [step EXCEPT ![cur[d]] = "PASSED"]
  /\ Forget(d, "TOP")
  /\ UNCHANGED <<status, blocker, cancelled, leaseVars, attempts, run,
                 startHead, worldVars, caller>>

FailAction(d) ==
  /\ Stop(d, "ACT_FAIL", "AWAITING_ASSISTANT",
          [code |-> "ACTION", step |-> cur[d]])
  /\ step' = [step EXCEPT ![cur[d]] = "FAILED"]

-----------------------------------------------------------------------------
(* Runs, and the callers of plan.cancel and plan.continue                  *)

RunEnds(k) ==
  /\ \/ proc[k] = "RUNNING"
        /\ \E r \in {"OK", "BAD"} : proc' = [proc EXCEPT ![k] = r]
     \/ proc[k] = "CANCELLING" /\ proc' = [proc EXCEPT ![k] = "CANCELLED"]
     \/ /\ proc[k] \in RunActive /\ "CRASH" \in Disturbances
        /\ proc' = [proc EXCEPT ![k] = "INTERRUPTED"]
  /\ UNCHANGED <<planVars, evidence, task, head, dirty, pc, localVars, caller>>

\* A command, a file tool or a person changes the worktree.
Edit ==
  /\ "EDIT" \in Disturbances
  /\ ~dirty /\ task = "ACTIVE"
  /\ dirty' = TRUE
  /\ UNCHANGED <<planVars, proc, evidence, task, head, pc, localVars, caller>>

\* Calls of different processes may OVERLAP; else one is served after the other.
MayCall(c) ==
  /\ caller[c] = Idle
  /\ "OVERLAP" \in Disturbances \/ \A e \in Callers : caller[e] = Idle

\* plan.cancel reads the Plan ...
CancelCheck(c) ==
  /\ MayCall(c)
  /\ status \notin PlanFinal
  /\ caller' = [caller EXCEPT ![c] = At("CANCEL")]
  /\ UNCHANGED <<planVars, worldVars, pc, localVars>>

\* ... sets the flag in a transaction that does not look at the status again ...
CancelFlag(c) ==
  LET running == {s \in Steps : step[s] = "RUNNING"} IN
  /\ caller[c] = At("CANCEL")
  /\ cancelled' = TRUE
  /\ status' = "RUNNING"
  /\ holder' = IF status = "RUNNING" THEN holder ELSE NoDriver
  /\ fresh' = (status = "RUNNING" /\ fresh)
  /\ caller' = [caller EXCEPT ![c] =
                  IF running # {} /\ run[First(running)] # 0
                  THEN [at  |-> "SIGNAL",
                        key |-> <<First(running), run[First(running)]>>]
                  ELSE Idle]
  /\ UNCHANGED <<blocker, stepVars, worldVars, pc, localVars>>

\* ... and asks the Run of the RUNNING step to stop, if it can.
CancelSignal(c) ==
  /\ caller[c].at = "SIGNAL"
  /\ \/ /\ proc[caller[c].key] = "RUNNING"
        /\ proc' = [proc EXCEPT ![caller[c].key] = "CANCELLING"]
     \/ UNCHANGED proc
  /\ caller' = [caller EXCEPT ![c] = Idle]
  /\ UNCHANGED <<planVars, evidence, task, head, dirty, pc, localVars>>

\* What the check of plan.continue lets through: a barrier or an approval.
Continuable ==
  status \in Awaiting /\ (status = "AWAITING_ASSISTANT" => blocker.code = "BARRIER")

\* Mutant: plan.continue that goes on from any awaiting status.
ContinueCheckAwaiting(c) ==
  /\ MayCall(c)
  /\ status \in Awaiting
  /\ caller' = [caller EXCEPT ![c] = At("CONTINUE")]
  /\ UNCHANGED <<planVars, worldVars, pc, localVars>>

\* plan.continue reads the Plan ...
ContinueCheck(c) ==
  /\ MayCall(c)
  /\ Continuable
  /\ caller' = [caller EXCEPT ![c] = At("CONTINUE")]
  /\ UNCHANGED <<planVars, worldVars, pc, localVars>>

\* ... and its transaction looks at the step of the blocker only, which is the one
\* that the caller named or not.
ContinueCommit(c) ==
  LET s == blocker.step IN
  /\ caller[c] = At("CONTINUE")
  /\ caller' = [caller EXCEPT ![c] = Idle]
  /\ \/ /\ s # 0
        /\ step' = [step EXCEPT ![s] = IF Action[s] = "BARRIER" THEN "PASSED"
                                       ELSE "PENDING"]
        /\ status' = "RUNNING"
        /\ blocker' = NoBlocker
        /\ holder' = NoDriver /\ fresh' = FALSE
        /\ UNCHANGED <<attempts, run, startHead, cancelled>>
     \/ UNCHANGED planVars
  /\ UNCHANGED <<worldVars, pc, localVars>>

-----------------------------------------------------------------------------
DriverStep(d) ==
  \/ Claim(d) \/ Renew(d) \/ Select(d)
  \/ CancelPlan(d) \/ BlockPlan(d) \/ CompletePlan(d) \/ ReachBarrier(d)
  \/ CatchError(d) \/ FailPlan(d)
  \/ StartRun(d) \/ AwaitApproval(d) \/ RecordRun(d) \/ Poll(d)
  \/ ReadStatus(d) \/ PassStep(d) \/ ReadSubject(d) \/ RecordEvidence(d)
  \/ RetryStep(d) \/ FailStep(d)
  \/ ReadHead(d) \/ MarkCommitting(d) \/ CheckDiff(d) \/ Commit(d)
  \/ RecordCommit(d) \/ FinishCheck(d) \/ FinishDiff(d) \/ FinishHead(d)
  \/ FinishTask(d) \/ PassAction(d) \/ FailAction(d)

CallerStep ==
  \E c \in Callers :
    \/ CancelCheck(c) \/ CancelFlag(c) \/ CancelSignal(c)
    \/ ContinueCheck(c) \/ ContinueCommit(c)

Next ==
  \/ \E d \in Drivers : DriverStep(d) \/ Crash(d)
  \/ LeaseExpires
  \/ \E k \in Keys : RunEnds(k)
  \/ Edit
  \/ CallerStep

Spec == Init /\ [][Next]_vars

-----------------------------------------------------------------------------
(* Safety                                                                  *)

\* What an executed step leaves behind: a Run that succeeded, a commit since
\* the base, a COMPLETED Task, a Plan that stopped at the barrier.
Done(s) ==
  CASE Action[s] = "COMMAND"     -> \E n \in 1..AttemptBound : proc[<<s, n>>] = "OK"
    [] Action[s] = "GIT_COMMIT"  -> head > 0
    [] Action[s] = "TASK_FINISH" -> task = "COMPLETED"
    [] Action[s] = "BARRIER"     -> step[s] # "PENDING"

Begun(s) ==
  CASE Action[s] = "COMMAND"    -> \E n \in 1..AttemptBound : proc[<<s, n>>] # "NONE"
    [] Action[s] = "GIT_COMMIT" -> attempts[s] > 0
    [] OTHER                    -> step[s] # "PENDING"

DependenciesDone(s) == \A t \in DependsOn[s] : Done(t)

\* A step is begun, and the Task finished, only after every step that it
\* depends on was really executed, whatever drivers crashed, retried or raced
\* on the way.
DependenciesRan ==
  /\ \A s \in Steps : Begun(s) => DependenciesDone(s)
  /\ task = "COMPLETED" =>
       \E s \in Steps : Action[s] = "TASK_FINISH" /\ DependenciesDone(s)

\* A step has no more Runs than its retry policy allows: the key of attempt n
\* is reused by a driver that takes over, not the next one.
RunsWithinPolicy ==
  \A s \in Steps :
    Cardinality({n \in 1..AttemptBound : proc[<<s, n>>] # "NONE"})
      <= MaxAttempts[s]

\* Without timeouts, a Plan has at most one active Run: a driver that takes over
\* resumes the Run of its predecessor before it begins another step.
OneRunAtATime == Cardinality({k \in Keys : proc[k] \in RunActive}) <= 1

\* A Plan that reports success has executed all its steps.
SuccessIsComplete ==
  status \in {"READY_TO_COMMIT", "COMPLETED"} =>
    \A s \in Steps : step[s] = "PASSED" /\ Done(s)

\* With no edits during a commit, a commit or a Task finish that took effect is
\* never reported as FAILED: a driver that takes over recognises it.
EffectsAreRecognised ==
  \A s \in Steps : step[s] = "FAILED" =>
    /\ Action[s] = "GIT_COMMIT" => head = startHead[s]
    /\ Action[s] = "TASK_FINISH" => task = "ACTIVE"

\* The completion contract of a COMPLETED Task was satisfied at the commit that
\* is still its HEAD, by a Run that really passed.
CompletedIsVerified ==
  task = "COMPLETED" => \A s \in Required : Done(s) /\ evidence[s].sha = head

\* "Later steps are not executed": no Run starts once a step has failed.
StopsAtFailure ==
  (\E k \in Keys : proc[k] = "NONE" /\ proc'[k] # "NONE")
    => \A s \in Steps : step[s] \notin StepFailed

\* "A failed or ambiguous step is never auto-continued".
FailuresStay == \A s \in Steps : step[s] \in StepFailed => step'[s] = step[s]

\* Every write of a driver is made by the one that holds the lease: "a short
\* durable lease so HTTP and MCP transports cannot both advance the same Plan"
\* (service-lifecycle.md).
WriterHolds ==
  \A d \in Drivers :
    pc[d] \in Writing /\ pc'[d] \notin {pc[d], "DOWN"} => holder = d

HolderWrites == [][WriterHolds]_vars

-----------------------------------------------------------------------------
(* Fairness.  Drivers that are up run, the 1 s recovery timer claims, Runs   *)
(* end, and a caller finishes its call; a lease of a dead driver runs out.   *)
(* Crashes, throws and callers need not happen.                             *)
Fairness ==
  /\ \A d \in Drivers : WF_vars(DriverStep(d))
  /\ WF_vars(LeaseExpires)
  /\ \A k \in Keys : WF_vars(RunEnds(k))
  /\ \A c \in Callers : /\ WF_vars(CancelFlag(c)) /\ WF_vars(CancelSignal(c))
                          /\ WF_vars(ContinueCommit(c))

FairSpec == Spec /\ Fairness

AllDown == \A d \in Drivers : pc[d] = "DOWN"

\* A RUNNING Plan comes to an end, a barrier or a failure while a driver is up,
\* through crashes of the others.
PlanAdvances == status = "RUNNING" ~> status # "RUNNING" \/ AllDown
=============================================================================
