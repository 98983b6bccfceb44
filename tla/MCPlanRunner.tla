----------------------------- MODULE MCPlanRunner -----------------------------
(* PlanRunner for TLC: small Plans of each kind.  A behaviour is either on    *)
(* time, and has all the Disturbances, or late: leases run out under drivers  *)
(* that live and go on, and only crashes come with that.                      *)
EXTENDS PlanRunner, TLC

CONSTANT Lateness  \* which of the two there are

VARIABLE late

Late == INSTANCE PlanRunner
          WITH Disturbances <- {"CRASH", "SLOW"}

\* Late drivers may each begin an attempt: two of a step, to keep this small.
LateBound == 2

planRunVars == <<vars, late>>

PlanInit == Init /\ late \in Lateness

OnTimeNext == ~late /\ Next /\ UNCHANGED late

LateNext ==
  /\ late /\ Late!Next /\ UNCHANGED late
  /\ \A s \in Steps : attempts'[s] <= LateBound

PlanNext == OnTimeNext \/ LateNext

PlanSpec == PlanInit /\ [][PlanNext]_planRunVars

FairPlanSpec == PlanSpec /\ Fairness

Symmetry == Permutations(Drivers) \union Permutations(Callers)

\* build and lint in any order, then commit, test the commit, and finish.
DeliverSteps == 1..5
DeliverAction == <<"COMMAND", "COMMAND", "GIT_COMMIT", "COMMAND", "TASK_FINISH">>
DeliverDependsOn == <<{}, {}, {1, 2}, {3}, {4}>>
DeliverMaxAttempts == <<1, 1, 1, 2, 1>>

\* Two independent commands join at a barrier; a commit and a finish follow.
\* They are declared in another order than they run.
JoinSteps == 1..5
JoinAction == <<"GIT_COMMIT", "COMMAND", "TASK_FINISH", "COMMAND", "BARRIER">>
JoinDependsOn == <<{5}, {}, {1}, {}, {2, 4}>>
JoinMaxAttempts == <<1, 2, 1, 1, 1>>

\* Two commands in a row, declared the other way round.
PairSteps == 1..2
PairAction == <<"COMMAND", "COMMAND">>
PairDependsOn == <<{2}, {}>>
PairMaxAttempts == <<2, 1>>

-----------------------------------------------------------------------------
\* While leases last and those calls do not overlap, a step has no more Runs than
\* its retry policy allows.
PolicyKept == late \/ RunsWithinPolicy

\* While leases last and the calls of plan.cancel and plan.continue do not overlap,
\* "a failed or ambiguous step is never auto-continued": it stays as it is, and
\* "later steps are not executed", although timeouts, errors, cancels and
\* takeovers go on.
FailureIsFinal == [][late \/ (StopsAtFailure /\ FailuresStay)]_planRunVars
=============================================================================
