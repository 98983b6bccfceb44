--------------------------- MODULE PlanRunnerProofs ---------------------------
(* Proofs about PlanRunner, for every Plan whose dependencies validateStep    *)
(* accepts, any number of drivers and every combination of disturbances.      *)
EXTENDS MCPlanRunner, WellFoundedInduction, FiniteSetTheorems, TLAPS

-----------------------------------------------------------------------------
(* Where a driver may be, and with what in hand                              *)

CommandPlaces ==
  {"START", "APPROVAL", "STARTED", "POLL", "STATUS", "PASS", "RETRY", "FAIL",
   "EVIDENCE", "FAIL_EVIDENCE", "NOTE", "FAIL_NOTE"}
CommitPlaces == {"ACT", "RESUME", "MARK", "DIFF", "COMMIT", "RECORD"}
FinishPlaces == {"FINISH_CHECK", "FINISH_DIFF", "FINISH_HEAD", "FINISH"}
StepPlaces ==
  CommandPlaces \union CommitPlaces \union FinishPlaces
    \union {"WAIT", "ACT_PASS", "ACT_FAIL"}

\* A driver at a place of a step has one, of the kind of that place.
Fits(place, s) ==
  /\ place \in StepPlaces    => s \in Steps
  /\ place \in CommandPlaces => Action[s] = "COMMAND"
  /\ place \in CommitPlaces  => Action[s] = "GIT_COMMIT"
  /\ place \in FinishPlaces  => Action[s] = "TASK_FINISH"
  /\ place = "WAIT"          => Action[s] = "BARRIER"
  /\ place \in {"ACT_PASS", "ACT_FAIL"} =>
       Action[s] \in {"GIT_COMMIT", "TASK_FINISH"}

OnStep == \A d \in Drivers : Fits(pc[d], cur[d])

\* The Run that RecordRun will write is one of the model's.
MayRecord == \A d \in Drivers : pc[d] = "STARTED" => tried[d] < AttemptBound

TypeInv == TypeOK /\ OnStep /\ MayRecord

(* Why dependencies have run                                                 *)

\* A RUNNING command has a Run, and so has a driver that polls one.
RunsAreKnown ==
  /\ \A s \in Steps : Action[s] = "COMMAND" /\ step[s] = "RUNNING" => run[s] > 0
  /\ \A d \in Drivers : pc[d] \in {"POLL", "STATUS"} => seenRun[d] > 0

\* HEAD only moves forward from where it was seen.
HeadsAreOld == \A d \in Drivers : seenHead[d] <= head /\ seenStart[d] <= head
StartHeadsAreOld == \A s \in Steps : startHead[s] <= head

\* A driver that is about to pass a step has its effect behind it.
EffectFirst ==
  \A d \in Drivers :
    pc[d] \in {"PASS", "RECORD", "ACT_PASS"} => Done(cur[d])

PassedIsDone == \A s \in Steps : step[s] = "PASSED" => Done(s)

\* Drivers, steps that were begun and the blocker's step have their
\* dependencies behind them.
InOrder ==
  /\ \A d \in Drivers : pc[d] \in StepPlaces => DependenciesDone(cur[d])
  /\ \A s \in Steps : step[s] # "PENDING" => DependenciesDone(s)
  /\ blocker.step # 0 => DependenciesDone(blocker.step)

OrderInv ==
  /\ RunsAreKnown /\ HeadsAreOld /\ StartHeadsAreOld
  /\ EffectFirst /\ PassedIsDone /\ InOrder /\ DependenciesRan

(* Why the lease holder writes                                               *)

Driving(d) == pc[d] \notin {"OFF", "DOWN"}

LeaseInv ==
  \A d \in Drivers : Driving(d) => holder = d /\ fresh /\ status = "RUNNING"

\* A plan.continue that is still to commit does not pull a RUNNING Plan from under
\* its driver: either the Plan is not RUNNING or there is no step to go on with.
Timely ==
  \A c \in Callers :
    caller[c].at = "CONTINUE" => status # "RUNNING" \/ blocker.step = 0

\* One call at a time: what plan.continue has checked still holds when it commits.
OneCaller ==
  /\ \A c, e \in Callers : caller[c] # Idle /\ caller[e] # Idle => c = e
  /\ \A c \in Callers : caller[c].at = "CONTINUE" => Continuable

\* However calls overlap, a Plan has the step of a blocker only while it waits ...
Unblocked == blocker.step # 0 => status \in Awaiting

\* ... until a cancel wakes it up.  From then on nothing but the cancel is left to
\* do, whoever drives it and whatever a late plan.continue writes.
Stopped ==
  cancelled /\ \A d \in Drivers : pc[d] \in {"OFF", "DOWN", "TOP", "SELECT", "CANCEL"}

-----------------------------------------------------------------------------
(* Type correctness                                                          *)

LEMMA FirstType ==
  ASSUME NEW S \in SUBSET Steps, S # {}
  PROVE  First(S) \in S
<1>1. S \in SUBSET Nat
  BY PlanAssumption DEF ValidPlan
<1> DEFINE R == {p \in Nat \X Nat : p[1] < p[2]}
<1>2. PICK n \in S : \A m \in S : <<m, n>> \notin R
  <2>1. IsWellFoundedOn(R, Nat)  BY NatLessThanWellFounded DEF OpToRel
  <2> HIDE DEF R
  <2> QED BY <1>1, <2>1, WFMin
<1>3. ASSUME NEW m \in S
      PROVE  n <= m
  <2>1. m \in Nat /\ n \in Nat  BY <1>1
  <2>2. ~(m < n)
    <3>1. <<m, n>> \in R <=> m < n  BY <2>1 DEF R
    <3> QED BY <1>2, <3>1
  <2> QED BY <2>1, <2>2
<1> QED BY <1>3 DEF First

LEMMA ChosenType ==
  ASSUME TypeOK
  PROVE  Chosen # 0 => /\ Chosen \in Steps
                       /\ step[Chosen] = "RUNNING" \/ Ready(Chosen)
<1> DEFINE running == {s \in Steps : step[s] = "RUNNING"}
           ready == {s \in Steps : Ready(s)}
<1>1. CASE running # {}
  <2>1. First(running) \in running  BY <1>1, FirstType
  <2> QED BY <1>1, <2>1 DEF Chosen
<1>2. CASE running = {} /\ ready # {}
  <2>1. First(ready) \in ready  BY <1>2, FirstType
  <2> QED BY <1>2, <2>1 DEF Chosen
<1>3. CASE running = {} /\ ready = {}
  BY <1>3 DEF Chosen
<1> QED BY <1>1, <1>2, <1>3

\* What a driver keeps, and where it is.
LocalOK ==
  /\ pc \in [Drivers -> Places]
  /\ cur \in [Drivers -> Steps \union {0}]
  /\ tried \in [Drivers -> Attempts]
  /\ seenRun \in [Drivers -> Attempts]
  /\ seenStart \in [Drivers -> Nat]
  /\ seenHead \in [Drivers -> Nat]
  /\ result \in [Drivers -> RunTerminal \union {"NONE", "TIMEOUT"}]

LEMMA PlacesAre ==
  /\ "OFF" \in Places /\ "DOWN" \in Places /\ "TOP" \in Places
  /\ "SELECT" \in Places /\ "START" \in Places /\ "POLL" \in Places
  /\ "STATUS" \in Places /\ "EVIDENCE" \in Places /\ "FAIL_EVIDENCE" \in Places
  /\ "NOTE" \in Places /\ "FAIL_NOTE" \in Places /\ "ACT" \in Places
  /\ "RESUME" \in Places /\ "DIFF" \in Places /\ "COMMIT" \in Places
  /\ "RECORD" \in Places /\ "FINISH_CHECK" \in Places /\ "FINISH" \in Places
  /\ "FINISH_DIFF" \in Places /\ "FINISH_HEAD" \in Places
  /\ "ERROR" \in Places /\ "CANCEL" \in Places /\ "BLOCK" \in Places
  /\ "COMPLETE" \in Places /\ "WAIT" \in Places /\ "APPROVAL" \in Places
  /\ "STARTED" \in Places /\ "PASS" \in Places /\ "RETRY" \in Places
  /\ "FAIL" \in Places /\ "MARK" \in Places /\ "ACT_PASS" \in Places
  /\ "ACT_FAIL" \in Places /\ "FAIL_PLAN" \in Places
  BY DEF Places, Writing

LEMMA ZeroAttempts == 0 \in Attempts
  BY PlanAssumption DEF ValidPlan, Attempts

\* Writes that several actions share.
LEMMA ForgetType ==
  ASSUME TypeOK, NEW d \in Drivers, NEW place \in Places, Forget(d, place)
  PROVE  LocalOK'
  BY ZeroAttempts DEF TypeOK, LocalOK, Forget, Goto

LEMMA LeaveType ==
  ASSUME TypeOK, NEW d \in Drivers, Leave(d)
  PROVE  LocalOK'
  BY ForgetType, PlacesAre DEF Leave

LEMMA GotoType ==
  ASSUME TypeOK, NEW d \in Drivers, NEW place \in Places, Goto(d, place)
  PROVE  pc' \in [Drivers -> Places]
  BY DEF TypeOK, Goto

LEMMA GotoOnly ==
  ASSUME TypeOK, NEW d \in Drivers, NEW place \in Places, Goto(d, place),
         UNCHANGED localVars
  PROVE  LocalOK'
  BY GotoType DEF TypeOK, LocalOK, localVars

\* The driver's last write, once its status, its blocker and its step are typed.
LEMMA StopType ==
  ASSUME TypeOK, NEW d \in Drivers, NEW place, NEW st, NEW b,
         Stop(d, place, st, b),
         st \in PlanTerminal \union {"RUNNING"},
         b.code \in {"NONE", "CANCELLED", "DEPENDENCY", "BARRIER", "APPROVAL",
                     "STEP", "ACTION", "DRIVER"},
         b.step \in Steps \union {0},
         b = [code |-> b.code, step |-> b.step],
         step' \in [Steps -> {"PENDING", "RUNNING", "WAITING", "PASSED"}
                             \union StepFailed]
  PROVE  TypeOK'
<1>1. Forget(d, "OFF")  BY DEF Stop, Leave
<1>2. LocalOK'  BY <1>1, ForgetType, PlacesAre
<1> QED BY <1>2 DEF LocalOK, TypeOK, Stop, leaseVars, worldVars

LEMMA StopsType ==
  ASSUME TypeInv, NEW d \in Drivers,
         CancelPlan(d) \/ BlockPlan(d) \/ CompletePlan(d) \/ ReachBarrier(d)
           \/ FailPlan(d) \/ AwaitApproval(d) \/ FailStep(d) \/ FailAction(d)
  PROVE  TypeOK'
<1> USE DEF TypeInv, PlanTerminal, PlanFinal, Awaiting, StepFailed
<1>1. CASE CancelPlan(d)
  BY <1>1, StopType DEF CancelPlan, TypeOK
<1>2. CASE BlockPlan(d)     BY <1>2, StopType DEF BlockPlan, TypeOK
<1>3. CASE CompletePlan(d)  BY <1>3, StopType DEF CompletePlan, TypeOK, NoBlocker
<1>4. CASE ReachBarrier(d)  BY <1>4, StopType DEF ReachBarrier, TypeOK
<1>5. CASE FailPlan(d)      BY <1>5, StopType DEF FailPlan, TypeOK
<1>6. CASE AwaitApproval(d) BY <1>6, StopType DEF AwaitApproval, TypeOK
<1>7. CASE FailStep(d)      BY <1>7, StopType DEF FailStep, TypeOK
<1>8. CASE FailAction(d)    BY <1>8, StopType DEF FailAction, TypeOK
<1> QED BY <1>1, <1>2, <1>3, <1>4, <1>5, <1>6, <1>7, <1>8

LEMMA PlaceType ==
  ASSUME NEW s \in Steps
  PROVE  Place(s) \in Places
<1>1. Action[s] \in {"COMMAND", "BARRIER", "GIT_COMMIT", "TASK_FINISH"}
  BY PlanAssumption DEF ValidPlan, Actions
<1> QED BY <1>1, PlacesAre DEF Place

LEMMA TurnType ==
  ASSUME TypeInv, NEW d \in Drivers,
         Claim(d) \/ Renew(d) \/ Select(d) \/ CatchError(d) \/ Poll(d)
           \/ Crash(d)
  PROVE  TypeOK'
<1> USE DEF TypeInv
<1>1. CASE Claim(d)
  <2>1. LocalOK'  BY <1>1, GotoOnly, PlacesAre DEF Claim
  <2> QED BY <1>1, <2>1 DEF Claim, TypeOK, LocalOK, stepVars, worldVars
<1>2. CASE Renew(d)
  <2>1. LocalOK'
    <3>1. CASE Leave(d)  BY <3>1, LeaveType
    <3>2. CASE Goto(d, "SELECT") /\ UNCHANGED localVars
      BY <3>2, GotoOnly, PlacesAre
    <3> QED BY <1>2, <3>1, <3>2 DEF Renew
  <2>2. fresh' \in BOOLEAN
    BY <1>2 DEF Renew, TypeOK
  <2> QED BY <1>2, <2>1, <2>2 DEF Renew, TypeOK, LocalOK, stepVars, worldVars
<1>3. CASE Select(d)
  <2>1. LocalOK'
    <3>1. CASE ~cancelled /\ Chosen # 0
      <4>1. Chosen \in Steps  BY <3>1, ChosenType
      <4>2. /\ Goto(d, Place(Chosen))
            /\ cur' = [cur EXCEPT ![d] = Chosen]
            /\ tried' = [tried EXCEPT ![d] = attempts[Chosen]]
            /\ seenRun' = [seenRun EXCEPT ![d] = run[Chosen]]
            /\ seenStart' = [seenStart EXCEPT ![d] = startHead[Chosen]]
            /\ UNCHANGED <<seenHead, result>>
        BY <1>3, <3>1 DEF Select
      <4>3. pc' \in [Drivers -> Places]
        BY <4>1, <4>2, PlaceType, GotoType
      <4> QED BY <4>1, <4>2, <4>3 DEF TypeOK, LocalOK
    <3>2. CASE cancelled
      <4>1. Goto(d, "CANCEL") /\ UNCHANGED localVars
        BY <1>3, <3>2 DEF Select
      <4> QED BY <4>1, GotoOnly, PlacesAre
    <3>3. CASE ~cancelled /\ Chosen = 0
      <4> DEFINE place == IF \E s \in Steps : step[s] = "PENDING" THEN "BLOCK"
                          ELSE "COMPLETE"
      <4>1. Goto(d, place) /\ UNCHANGED localVars
        BY <1>3, <3>3 DEF Select
      <4>2. place \in Places  BY PlacesAre
      <4> QED BY <4>1, <4>2, GotoOnly
    <3> QED BY <3>1, <3>2, <3>3
  <2> QED BY <1>3, <2>1 DEF Select, TypeOK, LocalOK, planVars, leaseVars,
                            stepVars, worldVars
<1>4. CASE CatchError(d)
  <2>1. LocalOK'
    <3>1. CASE Leave(d)  BY <3>1, LeaveType
    <3>2. CASE Goto(d, "FAIL_PLAN") /\ UNCHANGED localVars
      BY <3>2, GotoOnly, PlacesAre
    <3> QED BY <1>4, <3>1, <3>2 DEF CatchError
  <2> QED BY <1>4, <2>1 DEF CatchError, TypeOK, LocalOK, planVars, leaseVars,
                            stepVars, worldVars
<1>5. CASE Poll(d)
  <2>1. LocalOK'
    <3>1. CASE Leave(d)  BY <3>1, LeaveType
    <3>2. CASE Goto(d, "STATUS") /\ UNCHANGED localVars
      BY <3>2, GotoOnly, PlacesAre
    <3>3. CASE Forget(d, "TOP")  BY <3>3, ForgetType, PlacesAre
    <3> QED BY <1>5, <3>1, <3>2, <3>3 DEF Poll
  <2>2. fresh' \in BOOLEAN
    BY <1>5 DEF Poll, TypeOK
  <2> QED BY <1>5, <2>1, <2>2 DEF Poll, TypeOK, LocalOK, stepVars, worldVars
<1>6. CASE Crash(d)
  <2>1. LocalOK'  BY <1>6, ForgetType, PlacesAre DEF Crash
  <2> QED BY <1>6, <2>1 DEF Crash, TypeOK, LocalOK, planVars, leaseVars,
                            stepVars, worldVars
<1> QED BY <1>1, <1>2, <1>3, <1>4, <1>5, <1>6

LEMMA CommandType ==
  ASSUME TypeInv, NEW d \in Drivers,
         StartRun(d) \/ RecordRun(d) \/ ReadStatus(d) \/ PassStep(d)
           \/ ReadSubject(d) \/ RecordEvidence(d) \/ RetryStep(d)
  PROVE  TypeOK'
<1> USE DEF TypeInv
<1>1. CASE StartRun(d)
  <2>1. LocalOK'
    <3>1. \E place \in {"STARTED", "APPROVAL", "ERROR"} : Goto(d, place)
      BY <1>1 DEF StartRun
    <3>2. UNCHANGED localVars  BY <1>1 DEF StartRun
    <3> QED BY <3>1, <3>2, GotoOnly, PlacesAre
  <2>2. proc' \in [Keys -> {"NONE"} \union RunActive \union RunTerminal]
    BY <1>1 DEF StartRun, TypeOK, RunActive
  <2> QED BY <1>1, <2>1, <2>2 DEF StartRun, TypeOK, LocalOK, planVars,
                                  leaseVars, stepVars
<1>2. CASE RecordRun(d)
  <2>1. cur[d] \in Steps /\ tried[d] < AttemptBound
    BY <1>2 DEF RecordRun, OnStep, Fits, MayRecord, StepPlaces, CommandPlaces
  <2>2. tried[d] + 1 \in Attempts
    <3>1. tried[d] \in 0..AttemptBound  BY DEF TypeOK, Attempts
    <3> QED BY <2>1, <3>1, PlanAssumption DEF ValidPlan, Attempts
  <2>3. attempts[cur[d]] + 1 \in Attempts
    <3>1. attempts[cur[d]] \in 0..AttemptBound  BY <2>1 DEF TypeOK, Attempts
    <3>2. attempts[cur[d]] < AttemptBound  BY <1>2 DEF RecordRun
    <3> QED BY <3>1, <3>2, PlanAssumption DEF ValidPlan, Attempts
  <2>4. pc' \in [Drivers -> Places]
    BY <1>2, GotoType, PlacesAre DEF RecordRun
  <2>5. /\ step' \in [Steps -> {"PENDING", "RUNNING", "WAITING", "PASSED"}
                               \union StepFailed]
        /\ run' \in [Steps -> Attempts]
    BY <1>2, <2>1, <2>2 DEF RecordRun, TypeOK
  <2>6. attempts' \in [Steps -> Attempts]
    BY <1>2, <2>1, <2>3 DEF RecordRun, TypeOK
  <2>7. /\ tried' \in [Drivers -> Attempts]
        /\ seenRun' \in [Drivers -> Attempts]
    BY <1>2, <2>2, <2>3 DEF RecordRun, TypeOK
  <2> QED BY <1>2, <2>4, <2>5, <2>6, <2>7
          DEF RecordRun, TypeOK, leaseVars, worldVars
<1>3. CASE ReadStatus(d)
  <2>1. \A r : Verdict(d, r) \in Places  BY PlacesAre DEF Verdict
  <2>2. pc' \in [Drivers -> Places]
    <3>1. \E place \in Places : Goto(d, place)
      BY <1>3, <2>1, PlacesAre DEF ReadStatus
    <3> QED BY <3>1, GotoType
  <2>3. proc' \in [Keys -> {"NONE"} \union RunActive \union RunTerminal]
    BY <1>3 DEF ReadStatus, TypeOK, RunActive
  <2>4. result' \in [Drivers -> RunTerminal \union {"NONE", "TIMEOUT"}]
    BY <1>3 DEF ReadStatus, TypeOK
  <2> QED BY <1>3, <2>2, <2>3, <2>4
          DEF ReadStatus, TypeOK, planVars, leaseVars, stepVars
<1>4. CASE PassStep(d)
  <2>1. LocalOK'
    <3>1. CASE Forget(d, "TOP")  BY <3>1, ForgetType, PlacesAre
    <3>2. CASE Goto(d, "EVIDENCE") /\ UNCHANGED localVars
      BY <3>2, GotoOnly, PlacesAre
    <3> QED BY <1>4, <3>1, <3>2 DEF PassStep
  <2>2. step' \in [Steps -> {"PENDING", "RUNNING", "WAITING", "PASSED"}
                            \union StepFailed]
    BY <1>4 DEF PassStep, TypeOK
  <2> QED BY <1>4, <2>1, <2>2 DEF PassStep, TypeOK, LocalOK, leaseVars,
                                  worldVars
<1>5. CASE ReadSubject(d)
  <2>1. pc' \in [Drivers -> Places]
    <3>1. \E place \in Places : Goto(d, place)
      BY <1>5, PlacesAre DEF ReadSubject
    <3> QED BY <3>1, GotoType
  <2>2. seenHead' \in [Drivers -> Nat]
    BY <1>5 DEF ReadSubject, TypeOK
  <2> QED BY <1>5, <2>1, <2>2
          DEF ReadSubject, TypeOK, planVars, leaseVars, stepVars, worldVars
<1>6. CASE RecordEvidence(d)
  <2>1. LocalOK'
    <3>1. CASE Forget(d, "TOP")  BY <3>1, ForgetType, PlacesAre
    <3>2. CASE (Goto(d, "FAIL") \/ Goto(d, "ERROR")) /\ UNCHANGED localVars
      BY <3>2, GotoOnly, PlacesAre
    <3> QED BY <1>6, <3>1, <3>2 DEF RecordEvidence
  <2>2. evidence' \in [Steps -> [state : {"NONE", "PASS", "FAIL"}, sha : Nat]]
    BY <1>6 DEF RecordEvidence, TypeOK
  <2> QED BY <1>6, <2>1, <2>2 DEF RecordEvidence, TypeOK, LocalOK, planVars,
                                  leaseVars, stepVars
<1>7. CASE RetryStep(d)
  <2>1. LocalOK'  BY <1>7, ForgetType, PlacesAre DEF RetryStep
  <2>2. /\ step' \in [Steps -> {"PENDING", "RUNNING", "WAITING", "PASSED"}
                            \union StepFailed]
        /\ run' \in [Steps -> Attempts]
    BY <1>7, ZeroAttempts DEF RetryStep, TypeOK
  <2> QED BY <1>7, <2>1, <2>2 DEF RetryStep, TypeOK, LocalOK, leaseVars,
                                  worldVars
<1> QED BY <1>1, <1>2, <1>3, <1>4, <1>5, <1>6, <1>7

LEMMA ActionType ==
  ASSUME TypeInv, NEW d \in Drivers,
         ReadHead(d) \/ MarkCommitting(d) \/ CheckDiff(d) \/ Commit(d)
           \/ RecordCommit(d) \/ FinishCheck(d) \/ FinishDiff(d)
           \/ FinishHead(d) \/ FinishTask(d) \/ PassAction(d)
  PROVE  TypeOK'
<1> USE DEF TypeInv, ActFails
<1>1. CASE ReadHead(d)
  <2>1. pc' \in [Drivers -> Places]
    <3>1. \E place \in Places : Goto(d, place)
      BY <1>1, PlacesAre DEF ReadHead
    <3> QED BY <3>1, GotoType
  <2>2. seenHead' \in [Drivers -> Nat]
    BY <1>1 DEF ReadHead, TypeOK
  <2> QED BY <1>1, <2>1, <2>2
          DEF ReadHead, TypeOK, planVars, leaseVars, stepVars, worldVars
<1>2. CASE MarkCommitting(d)
  <2>1. cur[d] \in Steps
    BY <1>2 DEF MarkCommitting, OnStep, Fits, StepPlaces, CommitPlaces
  <2>2. attempts[cur[d]] + 1 \in Attempts
    <3>1. attempts[cur[d]] \in 0..AttemptBound  BY <2>1 DEF TypeOK, Attempts
    <3>2. attempts[cur[d]] < AttemptBound  BY <1>2 DEF MarkCommitting
    <3> QED BY <3>1, <3>2, PlanAssumption DEF ValidPlan, Attempts
  <2>3. pc' \in [Drivers -> Places]
    BY <1>2, GotoType, PlacesAre DEF MarkCommitting
  <2>4. /\ step' \in [Steps -> {"PENDING", "RUNNING", "WAITING", "PASSED"}
                               \union StepFailed]
        /\ startHead' \in [Steps -> Nat]
        /\ seenStart' \in [Drivers -> Nat]
    BY <1>2, <2>1 DEF MarkCommitting, TypeOK
  <2>5. attempts' \in [Steps -> Attempts]
    BY <1>2, <2>1, <2>2 DEF MarkCommitting, TypeOK
  <2> QED BY <1>2, <2>3, <2>4, <2>5
          DEF MarkCommitting, TypeOK, leaseVars, worldVars
<1>3. CASE CheckDiff(d)
  <2>1. LocalOK'
    <3>1. \E place \in {"RECORD", "COMMIT", "ACT_FAIL"} : Goto(d, place)
      BY <1>3 DEF CheckDiff
    <3>2. UNCHANGED localVars  BY <1>3 DEF CheckDiff
    <3> QED BY <3>1, <3>2, GotoOnly, PlacesAre
  <2> QED BY <1>3, <2>1 DEF CheckDiff, TypeOK, LocalOK, planVars, leaseVars,
                            stepVars, worldVars
<1>4. CASE Commit(d)
  <2>1. LocalOK'
    <3>1. \E place \in {"RECORD", "ACT_FAIL"} : Goto(d, place)
      BY <1>4 DEF Commit
    <3>2. UNCHANGED localVars  BY <1>4 DEF Commit
    <3> QED BY <3>1, <3>2, GotoOnly, PlacesAre
  <2>2. head' \in Nat
    <3>1. head' = head + 1 \/ head' = head  BY <1>4 DEF Commit
    <3> QED BY <3>1 DEF TypeOK
  <2>3. dirty' \in BOOLEAN
    BY <1>4 DEF Commit, TypeOK
  <2> QED BY <1>4, <2>1, <2>2, <2>3 DEF Commit, TypeOK, LocalOK, planVars, leaseVars,
                                  stepVars
<1>5. CASE RecordCommit(d)
  <2>1. LocalOK'
    <3>1. \E place \in {"ACT_PASS", "ACT_FAIL"} : Goto(d, place)
      BY <1>5 DEF RecordCommit
    <3>2. UNCHANGED localVars  BY <1>5 DEF RecordCommit
    <3> QED BY <3>1, <3>2, GotoOnly, PlacesAre
  <2> QED BY <1>5, <2>1 DEF RecordCommit, TypeOK, LocalOK, planVars, leaseVars,
                            stepVars, worldVars
<1>6. CASE FinishCheck(d) \/ FinishDiff(d) \/ FinishHead(d)
  <2>1. pc' \in [Drivers -> Places]
    <3>1. \E place \in Places : Goto(d, place)
      BY <1>6, PlacesAre DEF FinishCheck, FinishDiff, FinishHead
    <3> QED BY <3>1, GotoType
  <2>2. seenHead' \in [Drivers -> Nat]
    BY <1>6 DEF FinishCheck, FinishDiff, FinishHead, TypeOK, localVars
  <2>3. UNCHANGED <<planVars, worldVars, cur, tried, seenRun, seenStart, result,
                    caller>>
    BY <1>6 DEF FinishCheck, FinishDiff, FinishHead, localVars
  <2> QED BY <2>1, <2>2, <2>3
          DEF TypeOK, planVars, leaseVars, stepVars, worldVars
<1>7. CASE FinishTask(d)
  <2>1. LocalOK'
    <3>1. \E place \in {"ACT_PASS", "ACT_FAIL"} : Goto(d, place)
      BY <1>7 DEF FinishTask
    <3>2. UNCHANGED localVars  BY <1>7 DEF FinishTask
    <3> QED BY <3>1, <3>2, GotoOnly, PlacesAre
  <2> QED BY <1>7, <2>1 DEF FinishTask, TypeOK, LocalOK, planVars, leaseVars,
                            stepVars
<1>8. CASE PassAction(d)
  <2>1. LocalOK'  BY <1>8, ForgetType, PlacesAre DEF PassAction
  <2>2. step' \in [Steps -> {"PENDING", "RUNNING", "WAITING", "PASSED"}
                            \union StepFailed]
    BY <1>8 DEF PassAction, TypeOK
  <2> QED BY <1>8, <2>1, <2>2 DEF PassAction, TypeOK, LocalOK, leaseVars,
                                  worldVars
<1> QED BY <1>1, <1>2, <1>3, <1>4, <1>5, <1>6, <1>7, <1>8

LEMMA OutsideType ==
  ASSUME TypeOK,
         \/ LeaseExpires \/ (\E k \in Keys : RunEnds(k)) \/ Edit \/ CallerStep
  PROVE  TypeOK'
<1> USE DEF leaseVars, stepVars, planVars, worldVars, localVars
<1>1. CASE LeaseExpires
  <2>1. /\ fresh' = FALSE
        /\ UNCHANGED <<status, blocker, cancelled, holder, stepVars, worldVars,
                       pc, localVars, caller>>
    BY <1>1 DEF LeaseExpires
  <2>2. fresh' \in BOOLEAN  BY <2>1
  <2> QED BY <2>1, <2>2 DEF TypeOK
<1>2. ASSUME NEW k \in Keys, RunEnds(k) PROVE TypeOK'
  BY <1>2 DEF RunEnds, TypeOK, RunActive, RunTerminal
<1>3. CASE Edit          BY <1>3 DEF Edit, TypeOK
<1>4. ASSUME NEW c \in Callers,
             \/ CancelCheck(c) \/ CancelFlag(c) \/ CancelSignal(c)
             \/ ContinueCheck(c) \/ ContinueCommit(c)
      PROVE  TypeOK'
  <2>1. CASE CancelCheck(c)    BY <2>1 DEF CancelCheck, TypeOK, At
  <2>2. CASE CancelFlag(c)
    <3> DEFINE running == {s \in Steps : step[s] = "RUNNING"}
    <3>2. caller' \in [Callers -> [at : {"IDLE", "CANCEL", "SIGNAL", "CONTINUE"},
                                   key : {<<0, 0>>} \union Keys]]
      <4>1. CASE running # {} /\ run[First(running)] # 0
        <5>1. First(running) \in Steps  BY <4>1, FirstType
        <5>2. run[First(running)] \in 0..AttemptBound
          BY <5>1 DEF TypeOK, Attempts
        <5>3. run[First(running)] \in 1..AttemptBound
          BY <4>1, <5>2, PlanAssumption DEF ValidPlan
        <5>4. <<First(running), run[First(running)]>> \in Keys
          BY <5>1, <5>3 DEF Keys
        <5> QED BY <2>2, <4>1, <5>4 DEF CancelFlag, TypeOK
      <4>2. CASE ~(running # {} /\ run[First(running)] # 0)
        BY <2>2, <4>2 DEF CancelFlag, Idle, TypeOK
      <4> QED BY <4>1, <4>2
    <3> QED BY <2>2, <3>2 DEF CancelFlag, TypeOK
  <2>3. CASE CancelSignal(c)
    <3>1. proc' \in [Keys -> {"NONE"} \union RunActive \union RunTerminal]
      BY <2>3 DEF CancelSignal, TypeOK, RunActive
    <3>2. caller' \in [Callers -> [at : {"IDLE", "CANCEL", "SIGNAL", "CONTINUE"},
                                   key : {<<0, 0>>} \union Keys]]
      BY <2>3 DEF CancelSignal, TypeOK, Idle
    <3> QED BY <2>3, <3>1, <3>2 DEF CancelSignal, TypeOK
  <2>4. CASE ContinueCheck(c)  BY <2>4 DEF ContinueCheck, TypeOK, At
  <2>5. CASE ContinueCommit(c)
    <3>1. step' \in [Steps -> {"PENDING", "RUNNING", "WAITING", "PASSED"}
                              \union StepFailed]
      BY <2>5 DEF ContinueCommit, TypeOK
    <3>2. holder' \in Drivers \union {NoDriver} /\ fresh' \in BOOLEAN
      BY <2>5 DEF ContinueCommit, TypeOK
    <3> QED BY <2>5, <3>1, <3>2 DEF ContinueCommit, TypeOK, Idle, NoBlocker
  <2> QED BY <1>4, <2>1, <2>2, <2>3, <2>4, <2>5
<1> QED BY <1>1, <1>2, <1>3, <1>4 DEF CallerStep

\* A driver that leaves its step keeps no place of one.
LEMMA ForgetPlace ==
  ASSUME TypeInv, NEW d \in Drivers, NEW place \in {"OFF", "DOWN", "TOP"},
         Forget(d, place)
  PROVE  OnStep' /\ MayRecord'
<1> SUFFICES ASSUME NEW e \in Drivers
             PROVE  /\ Fits(pc[e], cur[e])'
                    /\ (pc[e] = "STARTED" => tried[e] < AttemptBound)'
  BY DEF OnStep, MayRecord
<1>1. CASE e = d
  <2>1. pc'[d] = place
    BY DEF Forget, Goto, TypeInv, TypeOK
  <2> QED BY <1>1, <2>1 DEF Fits, StepPlaces, CommandPlaces, CommitPlaces,
                            FinishPlaces
<1>2. CASE e # d
  <2>1. pc'[e] = pc[e] /\ cur'[e] = cur[e] /\ tried'[e] = tried[e]
    BY <1>2 DEF Forget, Goto, TypeInv, TypeOK
  <2>2. Fits(pc[e], cur[e]) /\ (pc[e] = "STARTED" => tried[e] < AttemptBound)
    BY DEF TypeInv, OnStep, MayRecord
  <2> QED BY <2>1, <2>2 DEF Fits
<1> QED BY <1>1, <1>2

\* A driver that moves on with its step, to a place of a step of that kind.
LEMMA GotoPlace ==
  ASSUME TypeInv, NEW d \in Drivers, NEW place, Goto(d, place), cur' = cur,
         Fits(place, cur[d]),
         \A e \in Drivers : tried'[e] = tried[e] \/ e = d,
         place = "STARTED" => tried'[d] < AttemptBound
  PROVE  OnStep' /\ MayRecord'
<1> SUFFICES ASSUME NEW e \in Drivers
             PROVE  /\ Fits(pc[e], cur[e])'
                    /\ (pc[e] = "STARTED" => tried[e] < AttemptBound)'
  BY DEF OnStep, MayRecord
<1>1. CASE e = d
  <2>1. pc'[d] = place
    BY DEF Goto, TypeInv, TypeOK
  <2> QED BY <1>1, <2>1 DEF Fits
<1>2. CASE e # d
  <2>1. pc'[e] = pc[e] /\ tried'[e] = tried[e]
    BY <1>2 DEF Goto, TypeInv, TypeOK
  <2>2. Fits(pc[e], cur[e]) /\ (pc[e] = "STARTED" => tried[e] < AttemptBound)
    BY DEF TypeInv, OnStep, MayRecord
  <2> QED BY <2>1, <2>2 DEF Fits
<1> QED BY <1>1, <1>2

LEMMA FreePlaces ==
  ASSUME NEW place \in {"OFF", "DOWN", "TOP", "SELECT", "CANCEL", "BLOCK",
                        "COMPLETE", "ERROR", "FAIL_PLAN"},
         NEW s
  PROVE  Fits(place, s)
  BY DEF Fits, StepPlaces, CommandPlaces, CommitPlaces, FinishPlaces

LEMMA PlaceFits ==
  ASSUME NEW s \in Steps
  PROVE  Fits(Place(s), s) /\ Place(s) \in {"START", "POLL", "WAIT", "ACT", "RESUME",
                                         "FINISH_CHECK"}
<1>1. CASE Action[s] = "COMMAND"
  BY <1>1 DEF Place, Fits, StepPlaces, CommandPlaces, CommitPlaces, FinishPlaces
<1>2. CASE Action[s] = "BARRIER"
  BY <1>2 DEF Place, Fits, StepPlaces, CommandPlaces, CommitPlaces, FinishPlaces
<1>3. CASE Action[s] = "GIT_COMMIT"
  BY <1>3 DEF Place, Fits, StepPlaces, CommandPlaces, CommitPlaces, FinishPlaces
<1>4. CASE Action[s] = "TASK_FINISH"
  BY <1>4 DEF Place, Fits, StepPlaces, CommandPlaces, CommitPlaces, FinishPlaces
<1> QED BY <1>1, <1>2, <1>3, <1>4, PlanAssumption DEF ValidPlan, Actions

\* Where a driver goes on with its step.
LEMMA FitsOn ==
  ASSUME NEW s, NEW p, NEW q, Fits(p, s),
         \/ p \in CommandPlaces /\ q \in CommandPlaces
         \/ p \in CommitPlaces /\ q \in CommitPlaces \union {"ACT_PASS", "ACT_FAIL"}
         \/ p \in FinishPlaces /\ q \in FinishPlaces \union {"ACT_PASS", "ACT_FAIL"}
  PROVE  Fits(q, s)
  BY DEF Fits, StepPlaces, CommandPlaces, CommitPlaces, FinishPlaces

\* The place a driver reaches is one of its step.
LEMMA DriverPlaces ==
  ASSUME TypeInv, NEW d \in Drivers, DriverStep(d) \/ Crash(d)
  PROVE  OnStep' /\ MayRecord'
<1>0. Fits(pc[d], cur[d])
  BY DEF TypeInv, OnStep
<1>1. CASE Claim(d)
  <2>1. UNCHANGED localVars /\ Goto(d, "TOP")
    BY <1>1 DEF Claim
  <2> QED BY <2>1, FreePlaces, GotoPlace DEF localVars
<1>2. CASE Renew(d)
  <2>1. CASE Leave(d)  BY <2>1, ForgetPlace DEF Leave
  <2>2. CASE UNCHANGED localVars /\ Goto(d, "SELECT")
    BY <2>2, FreePlaces, GotoPlace DEF localVars
  <2> QED BY <1>2, <2>1, <2>2 DEF Renew
<1>3. CASE Select(d)
  <2>1. CASE ~cancelled /\ Chosen # 0
    <3>1. Chosen \in Steps /\ Fits(Place(Chosen), Chosen)
                          /\ Place(Chosen) # "STARTED"
      BY <2>1, ChosenType, PlaceFits DEF TypeInv
    <3>2. /\ pc' = [pc EXCEPT ![d] = Place(Chosen)]
          /\ cur' = [cur EXCEPT ![d] = Chosen]
          /\ tried' = [tried EXCEPT ![d] = attempts[Chosen]]
      BY <1>3, <2>1 DEF Select, Goto
    <3>3. ASSUME NEW e \in Drivers
          PROVE  /\ Fits(pc'[e], cur'[e])
                 /\ pc'[e] = "STARTED" => tried'[e] < AttemptBound
      <4>1. CASE e = d  BY <3>1, <3>2, <4>1 DEF TypeInv, TypeOK
      <4>2. CASE e # d  BY <3>2, <4>2 DEF TypeInv, TypeOK, OnStep, MayRecord
      <4> QED BY <4>1, <4>2
    <3> QED BY <3>3 DEF OnStep, MayRecord, Fits
  <2>2. CASE cancelled
    <3>1. UNCHANGED localVars /\ Goto(d, "CANCEL")
      BY <1>3, <2>2 DEF Select
    <3> QED BY <3>1, FreePlaces, GotoPlace DEF localVars
  <2>3. CASE ~cancelled /\ Chosen = 0
    <3> DEFINE place == IF \E s \in Steps : step[s] = "PENDING" THEN "BLOCK"
                        ELSE "COMPLETE"
    <3>1. UNCHANGED localVars /\ Goto(d, place)
      BY <1>3, <2>3 DEF Select
    <3>2. place \in {"BLOCK", "COMPLETE"}  OBVIOUS
    <3> HIDE DEF place
    <3> QED BY <3>1, <3>2, FreePlaces, GotoPlace DEF localVars
  <2> QED BY <2>1, <2>2, <2>3
<1>4. CASE CancelPlan(d) \/ BlockPlan(d) \/ CompletePlan(d) \/ ReachBarrier(d)
           \/ FailPlan(d) \/ AwaitApproval(d) \/ FailStep(d) \/ FailAction(d)
  <2>1. Forget(d, "OFF")
    BY <1>4 DEF CancelPlan, BlockPlan, CompletePlan, ReachBarrier, FailPlan,
             AwaitApproval, FailStep, FailAction, Stop, Leave
  <2> QED BY <2>1, ForgetPlace
<1>5. CASE CatchError(d)
  <2>1. CASE Leave(d)  BY <2>1, ForgetPlace DEF Leave
  <2>2. CASE UNCHANGED localVars /\ Goto(d, "FAIL_PLAN")
    BY <2>2, FreePlaces, GotoPlace DEF localVars
  <2> QED BY <1>5, <2>1, <2>2 DEF CatchError
<1>6. CASE StartRun(d)
  <2>1. /\ pc[d] = "START" /\ tried[d] < AttemptBound /\ UNCHANGED localVars
        /\ Goto(d, "STARTED") \/ Goto(d, "APPROVAL") \/ Goto(d, "ERROR")
    BY <1>6 DEF StartRun
  <2>2. Fits("STARTED", cur[d]) /\ Fits("APPROVAL", cur[d])
    BY <1>0, <2>1, FitsOn DEF CommandPlaces
  <2> QED BY <2>1, <2>2, FreePlaces, GotoPlace DEF localVars
<1>7. CASE RecordRun(d)
  <2>1. pc[d] = "STARTED" /\ Goto(d, "POLL") /\ cur' = cur
    BY <1>7 DEF RecordRun
  <2>2. \A e \in Drivers : tried'[e] = tried[e] \/ e = d
    BY <1>7 DEF RecordRun, TypeInv, TypeOK
  <2>3. Fits("POLL", cur[d])  BY <1>0, <2>1, FitsOn DEF CommandPlaces
  <2> QED BY <2>1, <2>2, <2>3, GotoPlace
<1>8. CASE Poll(d)
  <2>1. CASE Leave(d)  BY <2>1, ForgetPlace DEF Leave
  <2>2. CASE Forget(d, "TOP")  BY <2>2, ForgetPlace
  <2>3. CASE UNCHANGED localVars /\ Goto(d, "STATUS")
    <3>1. Fits("STATUS", cur[d])
      BY <1>0, <1>8, FitsOn DEF CommandPlaces, Poll
    <3> QED BY <2>3, <3>1, GotoPlace DEF localVars
  <2> QED BY <1>8, <2>1, <2>2, <2>3 DEF Poll
<1>9. CASE ReadStatus(d)
  <2>1. /\ pc[d] = "STATUS" /\ UNCHANGED <<cur, tried>>
        /\ \/ \E r \in RunTerminal \union {"TIMEOUT"} : Goto(d, Verdict(d, r))
           \/ Goto(d, "POLL") \/ Goto(d, "ERROR")
    BY <1>9 DEF ReadStatus
  <2>2. \A q \in CommandPlaces : Fits(q, cur[d])
    BY <1>0, <2>1, FitsOn DEF CommandPlaces
  <2>3. \A r : Verdict(d, r) \in CommandPlaces /\ Verdict(d, r) # "STARTED"
    BY DEF Verdict, CommandPlaces
  <2>4. Fits("POLL", cur[d]) /\ Fits("ERROR", cur[d])
    BY <2>2, FreePlaces DEF CommandPlaces
  <2> QED BY <2>1, <2>2, <2>3, <2>4, GotoPlace
<1>10. CASE PassStep(d)
  <2>1. CASE Forget(d, "TOP")  BY <2>1, ForgetPlace
  <2>2. CASE UNCHANGED localVars /\ Goto(d, "EVIDENCE")
    <3>1. Fits("EVIDENCE", cur[d])
      BY <1>0, <1>10, FitsOn DEF CommandPlaces, PassStep
    <3> QED BY <2>2, <3>1, GotoPlace DEF localVars
  <2> QED BY <1>10, <2>1, <2>2 DEF PassStep
<1>11. CASE ReadSubject(d)
  <2>1. /\ pc[d] \in {"EVIDENCE", "FAIL_EVIDENCE"} /\ UNCHANGED <<cur, tried>>
        /\ Goto(d, "NOTE") \/ Goto(d, "FAIL_NOTE") \/ Goto(d, "ERROR")
    BY <1>11 DEF ReadSubject
  <2>2. Fits("NOTE", cur[d]) /\ Fits("FAIL_NOTE", cur[d])
    BY <1>0, <2>1, FitsOn DEF CommandPlaces
  <2> QED BY <2>1, <2>2, FreePlaces, GotoPlace
<1>12. CASE RecordEvidence(d)
  <2>1. CASE Forget(d, "TOP")  BY <2>1, ForgetPlace
  <2>2. CASE UNCHANGED localVars /\ (Goto(d, "FAIL") \/ Goto(d, "ERROR"))
    <3>1. Fits("FAIL", cur[d])
      BY <1>0, <1>12, FitsOn DEF CommandPlaces, RecordEvidence
    <3> QED BY <2>2, <3>1, FreePlaces, GotoPlace DEF localVars
  <2> QED BY <1>12, <2>1, <2>2 DEF RecordEvidence
<1>13. CASE RetryStep(d) \/ PassAction(d)
  BY <1>13, ForgetPlace DEF RetryStep, PassAction
<1>14. CASE ReadHead(d)
  <2>1. /\ pc[d] \in {"ACT", "RESUME"} /\ UNCHANGED <<cur, tried>>
        /\ Goto(d, "MARK") \/ Goto(d, "DIFF") \/ Goto(d, "ACT_FAIL")
    BY <1>14 DEF ReadHead, ActFails
  <2>2. Fits("MARK", cur[d]) /\ Fits("DIFF", cur[d]) /\ Fits("ACT_FAIL", cur[d])
    BY <1>0, <2>1, FitsOn DEF CommitPlaces
  <2> QED BY <2>1, <2>2, GotoPlace
<1>15. CASE MarkCommitting(d)
  <2>1. pc[d] = "MARK" /\ Goto(d, "DIFF") /\ UNCHANGED <<cur, tried>>
    BY <1>15 DEF MarkCommitting
  <2>2. Fits("DIFF", cur[d])  BY <1>0, <2>1, FitsOn DEF CommitPlaces
  <2> QED BY <2>1, <2>2, GotoPlace
<1>16. CASE CheckDiff(d) \/ Commit(d) \/ RecordCommit(d)
  <2>1. /\ pc[d] \in {"DIFF", "COMMIT", "RECORD"} /\ UNCHANGED localVars
        /\ \/ Goto(d, "RECORD") \/ Goto(d, "COMMIT")
           \/ Goto(d, "ACT_PASS") \/ Goto(d, "ACT_FAIL")
    BY <1>16 DEF CheckDiff, Commit, RecordCommit, ActFails
  <2>2. /\ Fits("RECORD", cur[d]) /\ Fits("COMMIT", cur[d])
        /\ Fits("ACT_PASS", cur[d]) /\ Fits("ACT_FAIL", cur[d])
    BY <1>0, <2>1, FitsOn DEF CommitPlaces
  <2> QED BY <2>1, <2>2, GotoPlace DEF localVars
<1>17. CASE FinishCheck(d) \/ FinishDiff(d) \/ FinishHead(d) \/ FinishTask(d)
  <2>1. /\ pc[d] \in FinishPlaces /\ UNCHANGED <<cur, tried>>
        /\ \/ Goto(d, "FINISH_DIFF") \/ Goto(d, "FINISH_HEAD") \/ Goto(d, "FINISH")
           \/ Goto(d, "ACT_PASS") \/ Goto(d, "ACT_FAIL")
    BY <1>17 DEF FinishCheck, FinishDiff, FinishHead, FinishTask, ActFails,
                 localVars, FinishPlaces
  <2>2. /\ Fits("FINISH", cur[d]) /\ Fits("FINISH_DIFF", cur[d])
        /\ Fits("FINISH_HEAD", cur[d])
        /\ Fits("ACT_PASS", cur[d]) /\ Fits("ACT_FAIL", cur[d])
    BY <1>0, <2>1, FitsOn DEF FinishPlaces
  <2> QED BY <2>1, <2>2, GotoPlace
<1>18. CASE Crash(d)
  BY <1>18, ForgetPlace DEF Crash
<1> QED BY <1>1, <1>2, <1>3, <1>4, <1>5, <1>6, <1>7, <1>8, <1>9, <1>10,
           <1>11, <1>12, <1>13, <1>14, <1>15, <1>16, <1>17, <1>18 DEF DriverStep

LEMMA OutsidePlaces ==
  ASSUME TypeInv, \/ LeaseExpires \/ (\E k \in Keys : RunEnds(k)) \/ Edit
                  \/ CallerStep \/ UNCHANGED vars
  PROVE  OnStep' /\ MayRecord'
<1>1. UNCHANGED <<pc, cur, tried>>
  BY DEF LeaseExpires, RunEnds, Edit, CallerStep, CancelCheck, CancelFlag,
         CancelSignal, ContinueCheck, ContinueCommit, localVars, vars
<1> QED BY <1>1 DEF TypeInv, OnStep, MayRecord, Fits

LEMMA TypeInvInit == Init => TypeInv
<1> SUFFICES ASSUME Init PROVE TypeInv
  OBVIOUS
<1>1. OnStep /\ MayRecord
  BY DEF Init, OnStep, MayRecord, Fits, StepPlaces, CommandPlaces,
         CommitPlaces, FinishPlaces
<1>2. TypeOK
  BY ZeroAttempts, PlacesAre
     DEF Init, TypeOK, NoBlocker, Idle, PlanTerminal, RunTerminal
<1> QED BY <1>1, <1>2 DEF TypeInv

LEMMA TypeInvNext == TypeInv /\ [Next]_vars => TypeInv'
<1> SUFFICES ASSUME TypeInv, [Next]_vars PROVE TypeInv'
  OBVIOUS
<1>1. ASSUME NEW d \in Drivers, DriverStep(d) \/ Crash(d) PROVE TypeInv'
  <2>1. TypeOK'
    BY <1>1, StopsType, TurnType, CommandType, ActionType DEF DriverStep
  <2> QED BY <1>1, <2>1, DriverPlaces DEF TypeInv
<1>2. CASE \/ LeaseExpires \/ (\E k \in Keys : RunEnds(k)) \/ Edit \/ CallerStep
  BY <1>2, OutsideType, OutsidePlaces DEF TypeInv
<1>3. CASE UNCHANGED vars
  <2>1. TypeOK'
    BY <1>3 DEF TypeInv, TypeOK, vars, planVars, leaseVars, stepVars, worldVars,
                localVars
  <2> QED BY <1>3, <2>1, OutsidePlaces DEF TypeInv
<1> QED BY <1>1, <1>2, <1>3 DEF Next

\* Every state of every behaviour is well typed.
THEOREM PlanTypeCorrect == Spec => []TypeOK
<1>1. TypeInv => TypeOK  BY DEF TypeInv
<1> QED BY <1>1, TypeInvInit, TypeInvNext, PTL DEF Spec

-----------------------------------------------------------------------------
(* Only the lease holder writes                                               *)

\* A step of a driver that is not a claim leaves the others where they are, and
\* either ends the drive or leaves the lease and the status alone.
LEMMA DriverMoves ==
  ASSUME TypeInv, NEW d \in Drivers, DriverStep(d), ~Claim(d)
  PROVE  /\ Driving(d) /\ caller' = caller
         /\ \A e \in Drivers : e # d => pc'[e] = pc[e]
         /\ \/ pc'[d] = "OFF"
            \/ holder' = holder /\ status' = status /\ (fresh' \/ fresh' = fresh)
<1>1. pc \in [Drivers -> Places]
  BY DEF TypeInv, TypeOK
<1> USE DEF Driving, Goto, Forget, Leave, planVars, leaseVars
<1>2. CASE Renew(d)  BY <1>1, <1>2 DEF Renew
<1>3. CASE Poll(d)  BY <1>1, <1>3 DEF Poll
<1>4. CASE Select(d)  BY <1>1, <1>4 DEF Select
<1>5. CASE CatchError(d)  BY <1>1, <1>5 DEF CatchError
<1>6. CASE StartRun(d)  BY <1>1, <1>6 DEF StartRun
<1>7. CASE RecordRun(d)  BY <1>1, <1>7 DEF RecordRun
<1>8. CASE ReadStatus(d)  BY <1>1, <1>8 DEF ReadStatus
<1>9. CASE PassStep(d)  BY <1>1, <1>9 DEF PassStep
<1>10. CASE ReadSubject(d)  BY <1>1, <1>10 DEF ReadSubject
<1>11. CASE RecordEvidence(d)  BY <1>1, <1>11 DEF RecordEvidence
<1>12. CASE RetryStep(d)  BY <1>1, <1>12 DEF RetryStep
<1>13. CASE ReadHead(d)  BY <1>1, <1>13 DEF ReadHead, ActFails
<1>14. CASE MarkCommitting(d)  BY <1>1, <1>14 DEF MarkCommitting
<1>15. CASE CheckDiff(d)  BY <1>1, <1>15 DEF CheckDiff, ActFails
<1>16. CASE Commit(d)  BY <1>1, <1>16 DEF Commit, ActFails
<1>17. CASE RecordCommit(d)  BY <1>1, <1>17 DEF RecordCommit
<1>18. CASE FinishCheck(d) \/ FinishDiff(d) \/ FinishHead(d)
  BY <1>1, <1>18 DEF FinishCheck, FinishDiff, FinishHead, ActFails
<1>19. CASE FinishTask(d)  BY <1>1, <1>19 DEF FinishTask, ActFails
<1>20. CASE PassAction(d)  BY <1>1, <1>20 DEF PassAction
<1>21. CASE CancelPlan(d) \/ BlockPlan(d) \/ CompletePlan(d) \/ ReachBarrier(d)
           \/ FailPlan(d) \/ AwaitApproval(d) \/ FailStep(d) \/ FailAction(d)
  <2>1. \E place \in {"CANCEL", "BLOCK", "COMPLETE", "WAIT", "FAIL_PLAN",
                     "APPROVAL", "FAIL", "ACT_FAIL"} :
          pc[d] = place /\ Forget(d, "OFF") /\ caller' = caller
    BY <1>21 DEF CancelPlan, BlockPlan, CompletePlan, ReachBarrier, FailPlan,
             AwaitApproval, FailStep, FailAction, Stop
  <2> QED BY <1>1, <2>1
<1> QED BY <1>2, <1>3, <1>4, <1>5, <1>6, <1>7, <1>8, <1>9, <1>10, <1>11,
           <1>12, <1>13, <1>14, <1>15, <1>16, <1>17, <1>18, <1>19, <1>20, <1>21 DEF DriverStep

LEMMA LeaseInit == Init => LeaseInv /\ OneCaller /\ Unblocked
  BY DEF Init, LeaseInv, OneCaller, Unblocked, Driving, Idle, NoBlocker

\* The steps that no driver takes leave the drivers, their attempts and the heads
\* alone; of them only plan.continue writes a step.
LEMMA OutsideFrame ==
  ASSUME \/ LeaseExpires \/ (\E k \in Keys : RunEnds(k)) \/ Edit \/ CallerStep
         \/ UNCHANGED vars
  PROVE  /\ UNCHANGED <<pc, localVars, attempts, run, startHead>>
         /\ UNCHANGED <<evidence, task, head>>
         /\ step' = step \/ \E c \in Callers : ContinueCommit(c)
  BY DEF LeaseExpires, RunEnds, Edit, CallerStep, CancelCheck, CancelFlag,
         CancelSignal, ContinueCheck, ContinueCommit, vars, planVars, stepVars,
         worldVars, localVars

\* All but a cancel and a plan.continue leave the Plan alone, its lease apart.
LEMMA OutsidePlan ==
  ASSUME \/ LeaseExpires \/ (\E k \in Keys : RunEnds(k)) \/ Edit \/ UNCHANGED vars
         \/ \E c \in Callers : CancelCheck(c) \/ CancelSignal(c) \/ ContinueCheck(c)
  PROVE  UNCHANGED <<status, blocker, cancelled, holder, step, pc>>
  BY DEF LeaseExpires, RunEnds, Edit, CancelCheck, CancelSignal, ContinueCheck,
         vars, planVars, leaseVars, stepVars

LEMMA LeaseNext ==
  ASSUME "SLOW" \notin Disturbances, TypeInv, LeaseInv, Timely, [Next]_vars
  PROVE  LeaseInv'
<1>1. ASSUME NEW d \in Drivers, DriverStep(d), ~Claim(d)
      PROVE  LeaseInv'
  <2>1. holder = d /\ fresh /\ status = "RUNNING"
    BY <1>1, DriverMoves DEF LeaseInv
  <2>2. ASSUME NEW e \in Drivers, Driving(e)'
        PROVE  (holder = e /\ fresh /\ status = "RUNNING")'
    <3>1. e = d
      <4>1. CASE e # d
        <5>1. Driving(e)  BY <1>1, <2>2, <4>1, DriverMoves DEF Driving
        <5> QED BY <2>1, <4>1, <5>1 DEF LeaseInv
      <4> QED BY <4>1
    <3>2. pc'[d] # "OFF"  BY <2>2, <3>1 DEF Driving
    <3>3. holder' = holder /\ status' = status /\ (fresh' \/ fresh' = fresh)
      BY <1>1, <3>2, DriverMoves
    <3> QED BY <2>1, <3>1, <3>3
  <2> QED BY <2>2 DEF LeaseInv
<1>2. ASSUME NEW d \in Drivers, Claim(d)
      PROVE  LeaseInv'
  <2>1. ASSUME NEW e \in Drivers, e # d
        PROVE  ~Driving(e)'
    <3>1. ~Driving(e)
      BY <1>2, <2>1, PlanAssumption DEF ValidPlan, Claim, LeaseInv
    <3>2. pc'[e] = pc[e]
      BY <1>2, <2>1 DEF Claim, Goto, TypeInv, TypeOK
    <3> QED BY <3>1, <3>2 DEF Driving
  <2> QED BY <1>2, <2>1 DEF Claim, LeaseInv
<1>3. ASSUME NEW d \in Drivers, Crash(d)
      PROVE  LeaseInv'
  <2>1. ASSUME NEW e \in Drivers, Driving(e)'
        PROVE  Driving(e)
    BY <1>3, <2>1 DEF Crash, Forget, Goto, TypeInv, TypeOK, Driving
  <2>2. UNCHANGED <<holder, fresh, status>>
    BY <1>3 DEF Crash, planVars, leaseVars
  <2> QED BY <2>1, <2>2 DEF LeaseInv
<1>4. CASE LeaseExpires
  <2>1. /\ holder # NoDriver /\ pc[holder] = "DOWN"
        /\ UNCHANGED <<status, pc, holder>>
    BY <1>4 DEF LeaseExpires
  <2>2. \A d \in Drivers : ~Driving(d)
    BY <2>1 DEF LeaseInv, Driving
  <2> QED BY <2>1, <2>2 DEF LeaseInv, Driving
<1>5. CASE \/ (\E k \in Keys : RunEnds(k)) \/ Edit \/ UNCHANGED vars
           \/ \E c \in Callers : CancelCheck(c) \/ CancelSignal(c) \/ ContinueCheck(c)
  <2>1. UNCHANGED <<holder, fresh, status, pc>>
    BY <1>5 DEF RunEnds, Edit, CancelCheck, CancelSignal, ContinueCheck, vars,
                planVars, leaseVars
  <2> QED BY <2>1 DEF LeaseInv, Driving
<1>6. ASSUME NEW c \in Callers, CancelFlag(c)
      PROVE  LeaseInv'
  <2>1. status' = "RUNNING" /\ pc' = pc
    BY <1>6 DEF CancelFlag
  <2>2. CASE status = "RUNNING"
    BY <1>6, <2>1, <2>2 DEF CancelFlag, LeaseInv, Driving
  <2>3. CASE status # "RUNNING"
    <3>1. \A d \in Drivers : ~Driving(d)  BY <2>3 DEF LeaseInv
    <3> QED BY <2>1, <3>1 DEF LeaseInv, Driving
  <2> QED BY <2>2, <2>3
<1>7. ASSUME NEW c \in Callers, ContinueCommit(c)
      PROVE  LeaseInv'
  <2>1. pc' = pc  BY <1>7 DEF ContinueCommit
  <2>2. CASE status # "RUNNING"
    <3>1. \A d \in Drivers : ~Driving(d)  BY <2>2 DEF LeaseInv
    <3> QED BY <2>1, <3>1 DEF LeaseInv, Driving
  <2>3. CASE blocker.step = 0
    <3>1. UNCHANGED <<holder, fresh, status>>
      BY <1>7, <2>3 DEF ContinueCommit, planVars, leaseVars
    <3> QED BY <2>1, <3>1 DEF LeaseInv, Driving
  <2> QED BY <1>7, <2>2, <2>3 DEF ContinueCommit, At, Timely
<1> QED BY <1>1, <1>2, <1>3, <1>4, <1>5, <1>6, <1>7 DEF Next, CallerStep

\* A driver writes while the Plan is RUNNING, which no checked call waits for.
LEMMA OneCallerNext ==
  ASSUME "OVERLAP" \notin Disturbances, TypeInv, LeaseInv, OneCaller, [Next]_vars
  PROVE  OneCaller'
<1>a. caller \in [Callers -> [at  : {"IDLE", "CANCEL", "SIGNAL", "CONTINUE"},
                              key : {<<0, 0>>} \union Keys]]
  BY DEF TypeInv, TypeOK
<1> USE DEF OneCaller
<1>1. ASSUME NEW d \in Drivers, DriverStep(d)
      PROVE  OneCaller'
  <2>1. caller' = caller
    BY <1>1, DriverMoves DEF Claim
  <2>2. status = "RUNNING"
    BY <1>1, DriverMoves DEF Claim, LeaseInv
  <2>3. \A c \in Callers : caller[c].at # "CONTINUE"
    BY <2>2 DEF Continuable, Awaiting
  <2> QED BY <2>1, <2>3
<1>2. ASSUME NEW d \in Drivers, Crash(d)
      PROVE  OneCaller'
  BY <1>2 DEF Crash, planVars, Continuable
<1>3. CASE LeaseExpires \/ (\E k \in Keys : RunEnds(k)) \/ Edit \/ UNCHANGED vars
  <2>1. UNCHANGED <<status, blocker>>  BY <1>3, OutsidePlan
  <2>2. caller' = caller
    BY <1>3 DEF LeaseExpires, RunEnds, Edit, vars
  <2> QED BY <2>1, <2>2 DEF Continuable
<1>4. ASSUME NEW c \in Callers,
             CancelCheck(c) \/ ContinueCheck(c)
      PROVE  OneCaller'
  <2>1. /\ \A e \in Callers : caller[e] = Idle
        /\ UNCHANGED <<status, blocker>>
        /\ \/ caller' = [caller EXCEPT ![c] = At("CANCEL")]
           \/ Continuable /\ caller' = [caller EXCEPT ![c] = At("CONTINUE")]
    BY <1>4 DEF CancelCheck, ContinueCheck, MayCall, planVars
  <2> QED BY <1>a, <2>1 DEF Continuable, At, Idle
<1>5. ASSUME NEW c \in Callers,
             CancelFlag(c) \/ CancelSignal(c) \/ ContinueCommit(c)
      PROVE  OneCaller'
  <2>1. /\ caller[c] # Idle
        /\ \A e \in Callers : e # c => caller'[e] = caller[e]
        /\ caller'[c].at # "CONTINUE"
    BY <1>a, <1>5 DEF CancelFlag, CancelSignal, ContinueCommit, At, Idle
  <2>2. \A e \in Callers : e # c => caller[e] = Idle
    BY <2>1
  <2> QED BY <2>1, <2>2 DEF Idle
<1> QED BY <1>1, <1>2, <1>3, <1>4, <1>5 DEF Next, CallerStep

LEMMA CallerIsTimely == OneCaller => Timely
  BY DEF OneCaller, Timely, Continuable, Awaiting

LEMMA UnblockedIsTimely == Unblocked => Timely
  BY DEF Unblocked, Timely, Awaiting

\* As long as no lease runs out under a live driver (an await within the 3 s of
\* DRIVER_LEASE_MS) and the calls of plan.cancel and plan.continue do not overlap,
\* every write of a driver is the lease holder's, through crashes, takeovers,
\* cancels and continues.
THEOREM LeaseHolderWrites ==
  ASSUME "SLOW" \notin Disturbances, "OVERLAP" \notin Disturbances
  PROVE  Spec => HolderWrites
<1>1. LeaseInv => \A d \in Drivers : pc[d] \in Writing => holder = d
  BY DEF LeaseInv, Driving, Writing
<1>2. LeaseInv /\ [Next]_vars => [WriterHolds]_vars
  BY <1>1 DEF WriterHolds
<1>3. TypeInv /\ LeaseInv /\ OneCaller /\ [Next]_vars => LeaseInv' /\ OneCaller'
  BY LeaseNext, OneCallerNext, CallerIsTimely
<1> QED BY <1>2, <1>3, TypeInvInit, TypeInvNext, LeaseInit, PTL
        DEF Spec, HolderWrites

-----------------------------------------------------------------------------
(* Dependencies have run                                                     *)

\* Effects are never undone.
WorldGrows ==
  /\ \A k \in Keys : /\ proc[k] = "OK" => proc'[k] = "OK"
                     /\ proc[k] # "NONE" => proc'[k] # "NONE"
  /\ head <= head'
  /\ task = "COMPLETED" => task' = "COMPLETED"

LEMMA WorldKept ==
  ASSUME TypeOK, UNCHANGED <<proc, task, head>>
  PROVE  WorldGrows
<1>1. head <= head'
  BY DEF TypeOK
<1> QED BY <1>1 DEF WorldGrows

LEMMA DriverWorld ==
  ASSUME TypeInv, NEW d \in Drivers, DriverStep(d) \/ Crash(d)
  PROVE  WorldGrows
<1> USE DEF TypeInv
<1>1. CASE StartRun(d)
  <2>1. head <= head'  BY <1>1 DEF StartRun, TypeOK
  <2>2. task' = task  BY <1>1 DEF StartRun
  <2>3. \/ proc' = proc
        \/ proc[Key(d)] = "NONE" /\ proc' = [proc EXCEPT ![Key(d)] = "RUNNING"]
    BY <1>1 DEF StartRun
  <2>4. proc' = [k \in Keys |-> proc'[k]]
    BY <2>3 DEF TypeOK
  <2> QED BY <2>1, <2>2, <2>3 DEF WorldGrows, TypeOK
<1>2. CASE ReadStatus(d)
  <2> DEFINE k == <<cur[d], seenRun[d]>>
  <2>1. head <= head' /\ task' = task  BY <1>2 DEF ReadStatus, TypeOK
  <2>2. \/ proc' = proc
        \/ proc[k] \in RunActive /\ proc' = [proc EXCEPT ![k] = "CANCELLING"]
    BY <1>2 DEF ReadStatus
  <2> QED BY <2>1, <2>2 DEF WorldGrows, TypeOK, RunActive
<1>3. CASE RecordEvidence(d)
  BY <1>3, WorldKept DEF RecordEvidence
<1>4. CASE Commit(d)
  <2>1. head \in Nat /\ (head' = head \/ head' = head + 1)
    BY <1>4 DEF Commit, TypeOK
  <2>2. head <= head'  BY <2>1
  <2> QED BY <1>4, <2>2 DEF Commit, WorldGrows
<1>5. CASE FinishTask(d)
  <2>1. head <= head'  BY <1>5 DEF FinishTask, TypeOK
  <2> QED BY <1>5, <2>1 DEF FinishTask, WorldGrows
<1>6. CASE UNCHANGED worldVars
  BY <1>6, WorldKept DEF worldVars
<1>7. CASE Claim(d) \/ Renew(d) \/ Select(d) \/ CatchError(d) \/ RecordRun(d)
           \/ Poll(d) \/ PassStep(d) \/ ReadSubject(d) \/ RetryStep(d)
           \/ ReadHead(d) \/ MarkCommitting(d) \/ CheckDiff(d) \/ RecordCommit(d)
           \/ FinishCheck(d) \/ FinishDiff(d) \/ FinishHead(d) \/ PassAction(d)
           \/ Crash(d)
  <2>1. UNCHANGED worldVars
    BY <1>7 DEF Claim, Renew, Select, CatchError, RecordRun, Poll, PassStep,
         ReadSubject, RetryStep, ReadHead, MarkCommitting, CheckDiff,
         RecordCommit, FinishCheck, FinishDiff, FinishHead, PassAction, Crash
  <2> QED BY <1>6, <2>1
<1>8. CASE CancelPlan(d) \/ BlockPlan(d) \/ CompletePlan(d) \/ ReachBarrier(d)
           \/ FailPlan(d) \/ AwaitApproval(d) \/ FailStep(d) \/ FailAction(d)
  <2>1. UNCHANGED worldVars
    BY <1>8 DEF CancelPlan, BlockPlan, CompletePlan, ReachBarrier, FailPlan,
             AwaitApproval, FailStep, FailAction, Stop
  <2> QED BY <1>6, <2>1
<1> QED BY <1>1, <1>2, <1>3, <1>4, <1>5, <1>7, <1>8 DEF DriverStep

LEMMA OutsideWorld ==
  ASSUME TypeOK, \/ LeaseExpires \/ (\E k \in Keys : RunEnds(k)) \/ Edit
                 \/ CallerStep \/ UNCHANGED vars
  PROVE  WorldGrows
<1>1. CASE \/ LeaseExpires \/ Edit \/ UNCHANGED vars
           \/ \E c \in Callers : CancelCheck(c) \/ CancelFlag(c) \/ ContinueCheck(c)
                                 \/ ContinueCommit(c)
  <2>1. UNCHANGED <<proc, task, head>>
    BY <1>1 DEF LeaseExpires, Edit, CancelCheck, CancelFlag, ContinueCheck,
                ContinueCommit, vars, worldVars
  <2> QED BY <2>1, WorldKept
<1>2. ASSUME NEW k \in Keys, RunEnds(k)
      PROVE  WorldGrows
  <2>1. head <= head' /\ task' = task  BY <1>2 DEF RunEnds, TypeOK
  <2>2. /\ proc[k] \in RunActive
        /\ \E v \in RunTerminal : proc' = [proc EXCEPT ![k] = v]
    BY <1>2 DEF RunEnds, RunActive, RunTerminal
  <2> QED BY <2>1, <2>2 DEF WorldGrows, TypeOK, RunActive, RunTerminal
<1>3. ASSUME NEW c \in Callers, CancelSignal(c)
      PROVE  WorldGrows
  <2>1. head <= head' /\ task' = task  BY <1>3 DEF CancelSignal, TypeOK
  <2>2. \/ proc' = proc
        \/ /\ proc[caller[c].key] = "RUNNING"
           /\ proc' = [proc EXCEPT ![caller[c].key] = "CANCELLING"]
    BY <1>3 DEF CancelSignal
  <2> QED BY <2>1, <2>2 DEF WorldGrows, TypeOK
<1> QED BY <1>1, <1>2, <1>3 DEF CallerStep

\* What a step of driver d writes: its own place and step, the step it is on or
\* one it cancels, and a blocker about the step it is on.
DriverWrites(d) ==
  /\ \A e \in Drivers : e # d =>
       /\ pc'[e] = pc[e] /\ cur'[e] = cur[e] /\ seenRun'[e] = seenRun[e]
       /\ seenHead'[e] = seenHead[e] /\ seenStart'[e] = seenStart[e]
  /\ pc'[d] \in StepPlaces =>
       \/ cur'[d] = cur[d] /\ pc[d] \in StepPlaces
       \/ cur'[d] = Chosen /\ Chosen # 0
  /\ \A s \in Steps :
       \/ step'[s] = step[s]
       \/ s = cur[d] /\ pc[d] \in StepPlaces
       \/ step[s] \in {"RUNNING", "WAITING"} /\ step'[s] = "CANCELLED"
  /\ \/ blocker' = blocker
     \/ blocker'.step = 0
     \/ blocker'.step = cur[d] /\ pc[d] \in StepPlaces

LEMMA DriverFrame ==
  ASSUME TypeInv, NEW d \in Drivers, DriverStep(d) \/ Crash(d)
  PROVE  DriverWrites(d)
<1>a. /\ pc \in [Drivers -> Places]
      /\ cur \in [Drivers -> Steps \union {0}]
      /\ tried \in [Drivers -> Attempts]
      /\ seenRun \in [Drivers -> Attempts]
      /\ seenStart \in [Drivers -> Nat]
      /\ seenHead \in [Drivers -> Nat]
      /\ step \in [Steps -> {"PENDING", "RUNNING", "WAITING", "PASSED"}
                            \union StepFailed]
  BY DEF TypeInv, TypeOK
<1> USE DEF Goto, Forget, Leave, DriverWrites, localVars, planVars, stepVars,
            leaseVars, StepPlaces, CommandPlaces, CommitPlaces, FinishPlaces
<1>1. CASE Claim(d)  BY <1>a, <1>1 DEF Claim
<1>2. CASE Renew(d)  BY <1>a, <1>2 DEF Renew
<1>3. CASE Poll(d)  BY <1>a, <1>3 DEF Poll
<1>4. CASE Select(d)  BY <1>a, <1>4 DEF Select
<1>5. CASE CatchError(d)  BY <1>a, <1>5 DEF CatchError
<1>6. CASE StartRun(d)  BY <1>a, <1>6 DEF StartRun
<1>7. CASE RecordRun(d)  BY <1>a, <1>7 DEF RecordRun
<1>8. CASE ReadStatus(d)  BY <1>a, <1>8 DEF ReadStatus
<1>9. CASE PassStep(d)  BY <1>a, <1>9 DEF PassStep
<1>10. CASE ReadSubject(d)  BY <1>a, <1>10 DEF ReadSubject
<1>11. CASE RecordEvidence(d)  BY <1>a, <1>11 DEF RecordEvidence
<1>12. CASE RetryStep(d)  BY <1>a, <1>12 DEF RetryStep
<1>13. CASE ReadHead(d)  BY <1>a, <1>13 DEF ReadHead, ActFails
<1>14. CASE MarkCommitting(d)  BY <1>a, <1>14 DEF MarkCommitting
<1>15. CASE CheckDiff(d)  BY <1>a, <1>15 DEF CheckDiff, ActFails
<1>16. CASE Commit(d)  BY <1>a, <1>16 DEF Commit, ActFails
<1>17. CASE RecordCommit(d)  BY <1>a, <1>17 DEF RecordCommit
<1>18. CASE FinishCheck(d) \/ FinishDiff(d) \/ FinishHead(d)
  BY <1>a, <1>18 DEF FinishCheck, FinishDiff, FinishHead, ActFails
<1>19. CASE FinishTask(d)  BY <1>a, <1>19 DEF FinishTask, ActFails
<1>20. CASE PassAction(d)  BY <1>a, <1>20 DEF PassAction
<1>21. CASE CancelPlan(d)
  <2> DEFINE open == {s \in Steps : step[s] \in {"RUNNING", "WAITING"}}
  <2>1. open # {} => First(open) \in open  BY FirstType
  <2>2. \/ step' = step
        \/ open # {} /\ step' = [step EXCEPT ![First(open)] = "CANCELLED"]
    BY <1>21 DEF CancelPlan
  <2>3. \A s \in Steps : 
          \/ step'[s] = step[s]
          \/ step[s] \in {"RUNNING", "WAITING"} /\ step'[s] = "CANCELLED"
    BY <1>a, <2>1, <2>2
  <2>4. Forget(d, "OFF") /\ blocker'.step = 0
    BY <1>21 DEF CancelPlan, Stop
  <2> QED BY <1>a, <2>3, <2>4
<1>22. CASE BlockPlan(d)  BY <1>a, <1>22 DEF BlockPlan, Stop, NoBlocker
<1>23. CASE CompletePlan(d)  BY <1>a, <1>23 DEF CompletePlan, Stop, NoBlocker
<1>24. CASE ReachBarrier(d)  BY <1>a, <1>24 DEF ReachBarrier, Stop, NoBlocker
<1>25. CASE FailPlan(d)  BY <1>a, <1>25 DEF FailPlan, Stop, NoBlocker
<1>26. CASE AwaitApproval(d)  BY <1>a, <1>26 DEF AwaitApproval, Stop, NoBlocker
<1>27. CASE FailStep(d)  BY <1>a, <1>27 DEF FailStep, Stop, NoBlocker
<1>28. CASE FailAction(d)  BY <1>a, <1>28 DEF FailAction, Stop, NoBlocker
<1>29. CASE Crash(d)  BY <1>a, <1>29 DEF Crash
<1> QED BY <1>1, <1>2, <1>3, <1>4, <1>5, <1>6, <1>7, <1>8, <1>9, <1>10,
           <1>11, <1>12, <1>13, <1>14, <1>15, <1>16, <1>17, <1>18, <1>19, <1>20,
           <1>21, <1>22, <1>23, <1>24, <1>25, <1>26, <1>27, <1>28, <1>29 DEF DriverStep

\* How the step, the heads and the Runs that driver d writes follow from where it
\* is and from what it has read.
StepWrites(d) ==
  \A s \in Steps : step'[s] # step[s] =>
    \/ step'[s] \in {"WAITING", "FAILED", "CANCELLED", "INTERRUPTED"}
    \/ step'[s] = "PASSED"  /\ s = cur[d] /\ pc[d] \in {"PASS", "ACT_PASS"}
    \/ step'[s] = "RUNNING" /\ s = cur[d] /\ pc[d] \in {"STARTED", "MARK"}
    \/ step'[s] = "PENDING" /\ s = cur[d] /\ pc[d] = "RETRY"

HeadWrites(d) ==
  /\ \A s \in Steps : startHead'[s] \in {startHead[s], seenHead[d]}
  /\ seenHead'[d] \in {seenHead[d], 0, head}
  /\ \/ seenStart'[d] \in {seenStart[d], 0, seenHead[d]}
     \/ Chosen # 0 /\ seenStart'[d] = startHead[Chosen]

RunWrites(d) ==
  /\ \A s \in Steps :
       \/ run'[s] = run[s]
            /\ (step'[s] = "RUNNING" => step[s] = "RUNNING" \/ pc[d] = "MARK")
       \/ run'[s] = tried[d] + 1
       \/ step'[s] = "PENDING"
  /\ pc'[d] \in {"POLL", "STATUS"} =>
       \/ pc[d] \in {"POLL", "STATUS"} /\ seenRun'[d] = seenRun[d]
       \/ seenRun'[d] = tried[d] + 1
       \/ Chosen # 0 /\ Place(Chosen) = "POLL" /\ seenRun'[d] = run[Chosen]

BeginWrites(d) ==
  /\ \A k \in Keys : proc[k] = "NONE" /\ proc'[k] # "NONE" =>
       k = Key(d) /\ pc[d] = "START"
  /\ \A s \in Steps : attempts'[s] # attempts[s] =>
       s = cur[d] /\ pc[d] \in {"STARTED", "MARK"}
  /\ task' # task => pc[d] = "FINISH"

LEMMA DriverDetails ==
  ASSUME TypeInv, NEW d \in Drivers, DriverStep(d) \/ Crash(d)
  PROVE  StepWrites(d) /\ HeadWrites(d) /\ RunWrites(d) /\ BeginWrites(d)
<1>a. /\ pc \in [Drivers -> Places]
      /\ cur \in [Drivers -> Steps \union {0}]
      /\ tried \in [Drivers -> Attempts]
      /\ seenRun \in [Drivers -> Attempts]
      /\ seenStart \in [Drivers -> Nat]
      /\ seenHead \in [Drivers -> Nat]
      /\ step \in [Steps -> {"PENDING", "RUNNING", "WAITING", "PASSED"}
                            \union StepFailed]
      /\ run \in [Steps -> Attempts]
      /\ startHead \in [Steps -> Nat]
      /\ attempts \in [Steps -> Attempts]
      /\ proc \in [Keys -> {"NONE"} \union RunActive \union RunTerminal]
  BY DEF TypeInv, TypeOK
<1> USE DEF Goto, Forget, Leave, StepWrites, HeadWrites, RunWrites, BeginWrites,
            localVars, planVars, stepVars, leaseVars, worldVars
<1>1. CASE Claim(d)  BY <1>a, <1>1 DEF Claim
<1>2. CASE Renew(d)  BY <1>a, <1>2 DEF Renew
<1>3. CASE Poll(d)  BY <1>a, <1>3 DEF Poll
<1>4. CASE Select(d)
  <2>1. UNCHANGED <<planVars, worldVars>>  BY <1>4 DEF Select
  <2>2. CASE ~cancelled /\ Chosen # 0
    <3>1. Chosen \in Steps  BY <2>2, ChosenType DEF TypeInv
    <3>2. Place(Chosen) # "STATUS"  BY <3>1, PlaceFits
    <3>3. /\ pc' = [pc EXCEPT ![d] = Place(Chosen)]
          /\ seenRun' = [seenRun EXCEPT ![d] = run[Chosen]]
          /\ seenStart' = [seenStart EXCEPT ![d] = startHead[Chosen]]
          /\ UNCHANGED seenHead
      BY <1>4, <2>2 DEF Select
    <3> QED BY <1>a, <2>1, <2>2, <3>2, <3>3
  <2>3. CASE cancelled \/ Chosen = 0
    <3>1. UNCHANGED localVars /\ pc'[d] \in {"CANCEL", "BLOCK", "COMPLETE"}
      BY <1>a, <1>4, <2>3 DEF Select
    <3> QED BY <1>a, <2>1, <3>1
  <2> QED BY <2>2, <2>3
<1>5. CASE CatchError(d)  BY <1>a, <1>5 DEF CatchError
<1>6. CASE StartRun(d)  BY <1>a, <1>6 DEF StartRun
<1>7. CASE RecordRun(d)  BY <1>a, <1>7 DEF RecordRun
<1>8. CASE ReadStatus(d)  BY <1>a, <1>8 DEF ReadStatus, RunActive
<1>9. CASE PassStep(d)  BY <1>a, <1>9 DEF PassStep
<1>10. CASE ReadSubject(d)  BY <1>a, <1>10 DEF ReadSubject
<1>11. CASE RecordEvidence(d)  BY <1>a, <1>11 DEF RecordEvidence
<1>12. CASE RetryStep(d)  BY <1>a, <1>12 DEF RetryStep
<1>13. CASE ReadHead(d)  BY <1>a, <1>13 DEF ReadHead, ActFails
<1>14. CASE MarkCommitting(d)  BY <1>a, <1>14 DEF MarkCommitting
<1>15. CASE CheckDiff(d)  BY <1>a, <1>15 DEF CheckDiff, ActFails
<1>16. CASE Commit(d)  BY <1>a, <1>16 DEF Commit, ActFails
<1>17. CASE RecordCommit(d)  BY <1>a, <1>17 DEF RecordCommit
<1>18. CASE FinishCheck(d) \/ FinishDiff(d) \/ FinishHead(d)
  BY <1>a, <1>18 DEF FinishCheck, FinishDiff, FinishHead, ActFails
<1>19. CASE FinishTask(d)  BY <1>a, <1>19 DEF FinishTask, ActFails
<1>20. CASE PassAction(d)  BY <1>a, <1>20 DEF PassAction
<1>21. CASE CancelPlan(d)
  <2> DEFINE open == {s \in Steps : step[s] \in {"RUNNING", "WAITING"}}
  <2>1. open # {} => First(open) \in open  BY FirstType
  <2>2. \/ step' = step
        \/ open # {} /\ step' = [step EXCEPT ![First(open)] = "CANCELLED"]
    BY <1>21 DEF CancelPlan
  <2>3. \A s \in Steps : step'[s] = step[s] \/ step'[s] = "CANCELLED"
    BY <1>a, <2>1, <2>2
  <2>4. /\ Forget(d, "OFF")
        /\ UNCHANGED <<attempts, run, startHead, proc, task>>
    BY <1>21 DEF CancelPlan, Stop
  <2> QED BY <1>a, <2>3, <2>4
<1>22. CASE BlockPlan(d)  BY <1>a, <1>22 DEF BlockPlan, Stop
<1>23. CASE CompletePlan(d)  BY <1>a, <1>23 DEF CompletePlan, Stop
<1>24. CASE ReachBarrier(d)  BY <1>a, <1>24 DEF ReachBarrier, Stop
<1>25. CASE FailPlan(d)  BY <1>a, <1>25 DEF FailPlan, Stop
<1>26. CASE AwaitApproval(d)  BY <1>a, <1>26 DEF AwaitApproval, Stop
<1>27. CASE FailStep(d)  BY <1>a, <1>27 DEF FailStep, Stop
<1>28. CASE FailAction(d)  BY <1>a, <1>28 DEF FailAction, Stop
<1>29. CASE Crash(d)  BY <1>a, <1>29 DEF Crash
<1> QED BY <1>1, <1>2, <1>3, <1>4, <1>5, <1>6, <1>7, <1>8, <1>9, <1>10,
           <1>11, <1>12, <1>13, <1>14, <1>15, <1>16, <1>17, <1>18, <1>19, <1>20,
           <1>21, <1>22, <1>23, <1>24, <1>25, <1>26, <1>27, <1>28, <1>29 DEF DriverStep

LEMMA DoneStays ==
  ASSUME TypeInv, TypeInv', WorldGrows, NEW s \in Steps, Done(s),
         Action[s] = "BARRIER" /\ step[s] # "PENDING" => step'[s] # "PENDING"
  PROVE  Done(s)'
<1>1. CASE Action[s] = "COMMAND"
  <2>1. PICK n \in 1..AttemptBound : proc[<<s, n>>] = "OK"
    BY <1>1 DEF Done
  <2>2. <<s, n>> \in Keys  BY DEF Keys
  <2>3. proc'[<<s, n>>] = "OK"  BY <2>1, <2>2 DEF WorldGrows
  <2> QED BY <1>1, <2>3 DEF Done
<1>2. CASE Action[s] = "GIT_COMMIT"
  <2>1. head > 0  BY <1>2 DEF Done
  <2>2. head \in Nat /\ head' \in Nat /\ head <= head'
    BY DEF TypeInv, TypeOK, WorldGrows
  <2>3. head' > 0  BY <2>1, <2>2
  <2> QED BY <1>2, <2>3 DEF Done
<1>3. CASE Action[s] = "TASK_FINISH"
  BY <1>3 DEF Done, WorldGrows
<1>4. CASE Action[s] = "BARRIER"
  BY <1>4 DEF Done
<1> QED BY <1>1, <1>2, <1>3, <1>4, PlanAssumption DEF ValidPlan, Actions

LEMMA BarriersStay ==
  ASSUME TypeInv, NEW d \in Drivers, DriverStep(d) \/ Crash(d),
         NEW s \in Steps, Action[s] = "BARRIER", step[s] # "PENDING"
  PROVE  step'[s] # "PENDING"
<1>1. ~(s = cur[d] /\ pc[d] = "RETRY")
  BY DEF TypeInv, OnStep, Fits, CommandPlaces
<1> QED BY <1>1, DriverDetails DEF StepWrites

\* What a driver chooses has its dependencies behind it.
LEMMA ChosenInOrder ==
  ASSUME TypeInv, PassedIsDone, InOrder, Chosen # 0
  PROVE  Chosen \in Steps /\ DependenciesDone(Chosen)
<1>1. Chosen \in Steps /\ (step[Chosen] = "RUNNING" \/ Ready(Chosen))
  BY ChosenType DEF TypeInv
<1>2. CASE step[Chosen] = "RUNNING"
  BY <1>1, <1>2 DEF InOrder
<1>3. CASE Ready(Chosen)
  <2>1. DependsOn[Chosen] \subseteq Steps  BY <1>1, PlanAssumption DEF ValidPlan
  <2> QED BY <1>1, <1>3, <2>1 DEF Ready, PassedIsDone, DependenciesDone
<1> QED BY <1>1, <1>2, <1>3

\* A driver is only about to pass a step that it, or a predecessor, executed.
LEMMA EffectReached ==
  ASSUME TypeInv, TypeInv', OrderInv, NEW d \in Drivers, DriverStep(d) \/ Crash(d),
         pc'[d] \in {"PASS", "RECORD", "ACT_PASS"}
  PROVE  cur'[d] = cur[d] /\ Done(cur[d])'
<1>a. /\ pc \in [Drivers -> Places]
      /\ head \in Nat /\ head' \in Nat /\ seenHead[d] \in Nat /\ seenStart[d] \in Nat
      /\ seenRun[d] \in 0..AttemptBound
      /\ Fits(pc[d], cur[d])
  BY DEF TypeInv, TypeOK, OnStep, Attempts
<1> USE DEF Goto, Forget, Leave
<1>1. CASE Claim(d)  BY <1>a, <1>1 DEF Claim
<1>2. CASE Renew(d)  BY <1>a, <1>2 DEF Renew
<1>3. CASE Poll(d)  BY <1>a, <1>3 DEF Poll
<1>4. CASE Select(d)
  <2>1. Chosen # 0 => Place(Chosen) \notin {"PASS", "RECORD", "ACT_PASS"}
    BY ChosenType, PlaceFits DEF TypeInv
  <2> QED BY <1>a, <1>4, <2>1 DEF Select
<1>5. CASE CatchError(d)  BY <1>a, <1>5 DEF CatchError
<1>6. CASE StartRun(d)  BY <1>a, <1>6 DEF StartRun
<1>7. CASE RecordRun(d)  BY <1>a, <1>7 DEF RecordRun
<1>8. CASE ReadStatus(d)
  <2> DEFINE k == <<cur[d], seenRun[d]>>
  <2>1. pc[d] = "STATUS" /\ cur' = cur  BY <1>8 DEF ReadStatus
  <2>2. cur[d] \in Steps /\ Action[cur[d]] = "COMMAND"
    BY <1>a, <2>1 DEF Fits, StepPlaces, CommandPlaces
  <2>3. seenRun[d] \in 1..AttemptBound
    BY <1>a, <2>1, PlanAssumption DEF ValidPlan, OrderInv, RunsAreKnown
  <2>4. proc[k] = "OK"
    <3>1. Verdict(d, "TIMEOUT") # "PASS" /\ Verdict(d, "TIMEOUT") \notin {"RECORD", "ACT_PASS"}
      BY DEF Verdict
    <3>2. proc[k] # "OK" => Verdict(d, proc[k]) \notin {"PASS", "RECORD", "ACT_PASS"}
      BY DEF Verdict
    <3> QED BY <1>a, <1>8, <3>1, <3>2 DEF ReadStatus
  <2>5. proc'[k] = "OK"
    BY <2>2, <2>3, <2>4, DriverWorld DEF WorldGrows, Keys
  <2> QED BY <2>1, <2>2, <2>3, <2>5 DEF Done
<1>9. CASE PassStep(d)  BY <1>a, <1>9 DEF PassStep
<1>10. CASE ReadSubject(d)  BY <1>a, <1>10 DEF ReadSubject
<1>11. CASE RecordEvidence(d)  BY <1>a, <1>11 DEF RecordEvidence
<1>12. CASE RetryStep(d)  BY <1>a, <1>12 DEF RetryStep
<1>13. CASE ReadHead(d)  BY <1>a, <1>13 DEF ReadHead, ActFails
<1>14. CASE MarkCommitting(d)  BY <1>a, <1>14 DEF MarkCommitting
<1>15. CASE CheckDiff(d)
  <2>1. /\ pc[d] = "DIFF" /\ cur' = cur /\ head' = head
        /\ seenHead[d] # seenStart[d]
    BY <1>a, <1>15 DEF CheckDiff, ActFails, worldVars, localVars
  <2>2. seenHead[d] <= head /\ seenStart[d] <= head
    BY DEF OrderInv, HeadsAreOld
  <2>3. head' > 0  BY <1>a, <2>1, <2>2
  <2>4. Action[cur[d]] = "GIT_COMMIT"
    BY <1>a, <2>1 DEF Fits, CommitPlaces
  <2> QED BY <2>1, <2>3, <2>4 DEF Done
<1>16. CASE Commit(d)
  <2>1. pc[d] = "COMMIT" /\ cur' = cur  BY <1>16 DEF Commit, localVars
  <2>2. head' = head + 1  BY <1>a, <1>16 DEF Commit, ActFails
  <2>3. head' > 0  BY <1>a, <2>2
  <2>4. Action[cur[d]] = "GIT_COMMIT"
    BY <1>a, <2>1 DEF Fits, CommitPlaces
  <2> QED BY <2>1, <2>3, <2>4 DEF Done
<1>17. CASE RecordCommit(d)
  <2>1. pc[d] = "RECORD" /\ cur' = cur /\ head' = head
    BY <1>17 DEF RecordCommit, worldVars, localVars
  <2>2. Action[cur[d]] = "GIT_COMMIT"
    BY <1>a, <2>1 DEF Fits, CommitPlaces
  <2>3. Done(cur[d])  BY <2>1 DEF OrderInv, EffectFirst
  <2> QED BY <2>1, <2>2, <2>3 DEF Done
<1>18. CASE FinishCheck(d) \/ FinishDiff(d) \/ FinishHead(d)
  <2>1. pc[d] \in FinishPlaces /\ cur' = cur
    BY <1>18 DEF FinishCheck, FinishDiff, FinishHead, FinishPlaces, localVars
  <2>2. task' = "COMPLETED"
    BY <1>a, <1>18 DEF FinishCheck, FinishDiff, FinishHead, ActFails, worldVars
  <2>3. Action[cur[d]] = "TASK_FINISH"
    BY <1>a, <2>1 DEF Fits, FinishPlaces
  <2> QED BY <2>1, <2>2, <2>3 DEF Done
<1>19. CASE FinishTask(d)
  <2>1. pc[d] = "FINISH" /\ cur' = cur  BY <1>19 DEF FinishTask, localVars
  <2>2. task' = "COMPLETED"
    BY <1>a, <1>19 DEF FinishTask, ActFails
  <2>3. Action[cur[d]] = "TASK_FINISH"
    BY <1>a, <2>1 DEF Fits, FinishPlaces
  <2> QED BY <2>1, <2>2, <2>3 DEF Done
<1>20. CASE PassAction(d)  BY <1>a, <1>20 DEF PassAction
<1>21. CASE CancelPlan(d)  BY <1>a, <1>21 DEF CancelPlan, Stop
<1>22. CASE BlockPlan(d)  BY <1>a, <1>22 DEF BlockPlan, Stop
<1>23. CASE CompletePlan(d)  BY <1>a, <1>23 DEF CompletePlan, Stop
<1>24. CASE ReachBarrier(d)  BY <1>a, <1>24 DEF ReachBarrier, Stop
<1>25. CASE FailPlan(d)  BY <1>a, <1>25 DEF FailPlan, Stop
<1>26. CASE AwaitApproval(d)  BY <1>a, <1>26 DEF AwaitApproval, Stop
<1>27. CASE FailStep(d)  BY <1>a, <1>27 DEF FailStep, Stop
<1>28. CASE FailAction(d)  BY <1>a, <1>28 DEF FailAction, Stop
<1>29. CASE Crash(d)  BY <1>a, <1>29 DEF Crash
<1> QED BY <1>1, <1>2, <1>3, <1>4, <1>5, <1>6, <1>7, <1>8, <1>9, <1>10,
           <1>11, <1>12, <1>13, <1>14, <1>15, <1>16, <1>17, <1>18, <1>19, <1>20,
           <1>21, <1>22, <1>23, <1>24, <1>25, <1>26, <1>27, <1>28, <1>29 DEF DriverStep

LEMMA DriverOrder ==
  ASSUME TypeInv, TypeInv', OrderInv, NEW d \in Drivers, DriverStep(d) \/ Crash(d)
  PROVE  OrderInv'
<1>1. \A s \in Steps : Done(s) => Done(s)'
  BY BarriersStay, DriverWorld, DoneStays
<1>2. \A s \in Steps : DependenciesDone(s) => DependenciesDone(s)'
  <2>1. \A s \in Steps : DependsOn[s] \subseteq Steps  BY PlanAssumption DEF ValidPlan
  <2> QED BY <1>1, <2>1 DEF DependenciesDone
<1>3. Chosen # 0 => Chosen \in Steps /\ DependenciesDone(Chosen)
  BY ChosenInOrder DEF OrderInv
<1>4. DriverWrites(d)  BY DriverFrame
<1>5. StepWrites(d) /\ HeadWrites(d) /\ RunWrites(d) /\ BeginWrites(d)
  BY DriverDetails
<1>6. \A e \in Drivers : /\ Fits(pc[e], cur[e])
                         /\ Fits(pc'[e], cur'[e])
                         /\ pc[e] \in StepPlaces => cur[e] \in Steps
                         /\ pc'[e] \in StepPlaces => cur'[e] \in Steps
  BY DEF TypeInv, OnStep, Fits
<1>7. RunsAreKnown'
  <2>1. tried[d] + 1 > 0
    BY DEF TypeInv, TypeOK, Attempts
  <2>2. ASSUME NEW s \in Steps, Action[s] = "COMMAND", step'[s] = "RUNNING"
        PROVE  run'[s] > 0
    <3>1. CASE run'[s] = tried[d] + 1  BY <2>1, <3>1
    <3>2. CASE run'[s] = run[s] /\ step[s] = "RUNNING"
      BY <2>2, <3>2 DEF OrderInv, RunsAreKnown
    <3>3. CASE step[s] # "RUNNING" /\ pc[d] = "MARK"
      <4>1. s = cur[d]  BY <1>5, <2>2, <3>3 DEF StepWrites
      <4> QED BY <1>6, <2>2, <3>3, <4>1 DEF Fits, CommitPlaces
    <3> QED BY <1>5, <2>2, <3>1, <3>2, <3>3 DEF RunWrites
  <2>3. ASSUME NEW e \in Drivers, pc'[e] \in {"POLL", "STATUS"}
        PROVE  seenRun'[e] > 0
    <3>1. CASE e # d
      BY <1>4, <2>3, <3>1 DEF DriverWrites, OrderInv, RunsAreKnown
    <3>2. CASE e = d /\ Chosen # 0 /\ Place(Chosen) = "POLL"
               /\ seenRun'[d] = run[Chosen]
      <4>1. Chosen \in Steps  BY <1>3, <3>2
      <4>2. Action[Chosen] = "COMMAND" /\ step[Chosen] = "RUNNING"
        <5>1. Action[Chosen] \in {"COMMAND", "BARRIER", "GIT_COMMIT",
                                  "TASK_FINISH"}
          BY <4>1, PlanAssumption DEF ValidPlan, Actions
        <5> QED BY <3>2, <5>1 DEF Place
      <4> QED BY <3>2, <4>1, <4>2 DEF OrderInv, RunsAreKnown
    <3>3. CASE e = d /\ seenRun'[d] = tried[d] + 1  BY <2>1, <3>3
    <3>4. CASE e = d /\ pc[d] \in {"POLL", "STATUS"} /\ seenRun'[d] = seenRun[d]
      BY <3>4 DEF OrderInv, RunsAreKnown
    <3> QED BY <1>5, <2>3, <3>1, <3>2, <3>3, <3>4 DEF RunWrites
  <2> QED BY <2>2, <2>3 DEF RunsAreKnown
<1>8. HeadsAreOld' /\ StartHeadsAreOld'
  <2>1. head \in Nat /\ head' \in Nat /\ head <= head'
    BY DriverWorld DEF TypeInv, TypeOK, WorldGrows
  <2>2. \A e \in Drivers : /\ seenHead[e] \in Nat /\ seenHead[e] <= head
                           /\ seenStart[e] \in Nat /\ seenStart[e] <= head
    BY DEF OrderInv, HeadsAreOld, TypeInv, TypeOK
  <2>3. \A s \in Steps : startHead[s] \in Nat /\ startHead[s] <= head
    BY DEF OrderInv, StartHeadsAreOld, TypeInv, TypeOK
  <2>4. ASSUME NEW e \in Drivers
        PROVE  seenHead'[e] <= head' /\ seenStart'[e] <= head'
    <3>1. CASE e # d
      BY <1>4, <2>1, <2>2, <3>1 DEF DriverWrites
    <3>2. CASE e = d
      BY <1>3, <1>5, <2>1, <2>2, <2>3, <3>2 DEF HeadWrites
    <3> QED BY <3>1, <3>2
  <2>5. ASSUME NEW s \in Steps
        PROVE  startHead'[s] <= head'
    BY <1>5, <2>1, <2>2, <2>3 DEF HeadWrites
  <2> QED BY <2>4, <2>5 DEF HeadsAreOld, StartHeadsAreOld
<1>9. EffectFirst'
  <2> SUFFICES ASSUME NEW e \in Drivers, pc'[e] \in {"PASS", "RECORD", "ACT_PASS"}
               PROVE  Done(cur[e])'
    BY DEF EffectFirst
  <2>1. CASE e = d
    <3>1. cur'[d] = cur[d] /\ Done(cur[d])'  BY <2>1, EffectReached
    <3> QED BY <2>1, <3>1
  <2>2. CASE e # d
    <3>1. pc'[e] = pc[e] /\ cur'[e] = cur[e]
      BY <1>4, <2>2 DEF DriverWrites
    <3>2. Done(cur[e]) /\ cur[e] \in Steps
      BY <1>6, <3>1 DEF OrderInv, EffectFirst, StepPlaces, CommandPlaces,
                        CommitPlaces
    <3>3. Done(cur[e])'
      BY <1>1, <3>1, <3>2 DEF Done
    <3> QED BY <3>3
  <2> QED BY <2>1, <2>2
<1>10. PassedIsDone'
  <2> SUFFICES ASSUME NEW s \in Steps, step'[s] = "PASSED"
               PROVE  Done(s)'
    BY DEF PassedIsDone
  <2>1. CASE step[s] = "PASSED"
    BY <1>1, <2>1 DEF OrderInv, PassedIsDone
  <2>2. CASE step[s] # "PASSED"
    <3>1. s = cur[d] /\ pc[d] \in {"PASS", "ACT_PASS"}
      BY <1>5, <2>2 DEF StepWrites
    <3>2. Done(s)  BY <3>1 DEF OrderInv, EffectFirst
    <3> QED BY <1>1, <3>2
  <2> QED BY <2>1, <2>2
<1>11. InOrder'
  <2>1. ASSUME NEW e \in Drivers, pc'[e] \in StepPlaces
        PROVE  DependenciesDone(cur[e])'
    <3>1. CASE cur'[e] = cur[e] /\ pc[e] \in StepPlaces
      <4>1. cur[e] \in Steps /\ DependenciesDone(cur[e])
        BY <1>6, <3>1 DEF OrderInv, InOrder
      <4> QED BY <1>2, <3>1, <4>1 DEF DependenciesDone
    <3>2. CASE e = d /\ cur'[e] = Chosen /\ Chosen # 0
      <4> DEFINE s == Chosen
      <4>1. s \in Steps /\ DependenciesDone(s)  BY <1>3, <3>2
      <4>2. cur'[e] = s  BY <3>2
      <4> HIDE DEF s
      <4>3. cur'[e] \in Steps  BY <1>6, <2>1
      <4>4. DependenciesDone(cur'[e])  BY <4>1, <4>2
      <4> QED BY <1>2, <4>3, <4>4 DEF DependenciesDone
    <3> QED BY <1>4, <2>1, <3>1, <3>2 DEF DriverWrites
  <2>2. ASSUME NEW s \in Steps, step'[s] # "PENDING"
        PROVE  DependenciesDone(s)'
    <3>1. CASE step[s] # "PENDING"
      BY <1>2, <3>1 DEF OrderInv, InOrder
    <3>2. CASE step[s] = "PENDING"
      <4>1. s = cur[d] /\ pc[d] \in StepPlaces
        BY <1>4, <2>2, <3>2 DEF DriverWrites
      <4> QED BY <1>2, <4>1 DEF OrderInv, InOrder
    <3> QED BY <3>1, <3>2
  <2>3. ASSUME blocker'.step # 0
        PROVE  DependenciesDone(blocker.step)'
    <3>1. blocker'.step \in Steps  BY <2>3 DEF TypeInv, TypeOK
    <3>2. CASE blocker' = blocker
      <4>1. DependenciesDone(blocker'.step)
        BY <2>3, <3>2 DEF OrderInv, InOrder
      <4> QED BY <1>2, <3>1, <4>1 DEF DependenciesDone
    <3>3. CASE blocker'.step = cur[d] /\ pc[d] \in StepPlaces
      <4>1. DependenciesDone(blocker'.step)
        BY <3>3 DEF OrderInv, InOrder
      <4> QED BY <1>2, <3>1, <4>1 DEF DependenciesDone
    <3> QED BY <1>4, <2>3, <3>2, <3>3 DEF DriverWrites
  <2> QED BY <2>1, <2>2, <2>3 DEF InOrder
<1>12. DependenciesRan'
  <2>1. ASSUME NEW s \in Steps, Begun(s)'
        PROVE  DependenciesDone(s)'
    <3>1. CASE Begun(s)
      BY <1>2, <3>1 DEF OrderInv, DependenciesRan
    <3>2. CASE ~Begun(s) /\ Action[s] = "COMMAND"
      <4>1. PICK n \in 1..AttemptBound : proc'[<<s, n>>] # "NONE"
        BY <2>1, <3>2 DEF Begun
      <4>2. <<s, n>> \in Keys /\ proc[<<s, n>>] = "NONE"
        BY <3>2 DEF Begun, Keys
      <4>3. <<s, n>> = Key(d) /\ pc[d] = "START"
        BY <1>5, <4>1, <4>2 DEF BeginWrites
      <4>4. s = cur[d]  BY <4>3 DEF Key
      <4> QED BY <1>2, <4>3, <4>4 DEF OrderInv, InOrder, StepPlaces,
                                      CommandPlaces
    <3>3. CASE ~Begun(s) /\ Action[s] = "GIT_COMMIT"
      <4>1. attempts'[s] # attempts[s]  BY <2>1, <3>3 DEF Begun
      <4>2. s = cur[d] /\ pc[d] \in {"STARTED", "MARK"}
        BY <1>5, <4>1 DEF BeginWrites
      <4> QED BY <1>2, <4>2 DEF OrderInv, InOrder, StepPlaces, CommandPlaces,
                                CommitPlaces
    <3>4. CASE Action[s] \notin {"COMMAND", "GIT_COMMIT"}
      <4>1. step'[s] # "PENDING"  BY <2>1, <3>4 DEF Begun
      <4> QED BY <1>11, <4>1 DEF InOrder
    <3> QED BY <3>1, <3>2, <3>3, <3>4
  <2>2. ASSUME task' = "COMPLETED"
        PROVE  \E s \in Steps : Action[s] = "TASK_FINISH" /\ DependenciesDone(s)'
    <3>1. CASE task = "COMPLETED"
      BY <1>2, <3>1 DEF OrderInv, DependenciesRan
    <3>2. CASE task # "COMPLETED"
      <4>1. pc[d] = "FINISH"  BY <1>5, <2>2, <3>2 DEF BeginWrites
      <4>2. /\ cur[d] \in Steps /\ Action[cur[d]] = "TASK_FINISH"
            /\ DependenciesDone(cur[d])
        BY <1>6, <4>1 DEF Fits, FinishPlaces, StepPlaces, OrderInv, InOrder
      <4> QED BY <1>2, <4>2
    <3> QED BY <3>1, <3>2
  <2> QED BY <2>1, <2>2 DEF DependenciesRan
<1> QED BY <1>7, <1>8, <1>9, <1>10, <1>11, <1>12 DEF OrderInv

\* Steps that leave drivers alone: leases, Runs, edits and callers.
LEMMA OutsideOrder ==
  ASSUME TypeInv, TypeInv', OrderInv,
         \/ LeaseExpires \/ (\E k \in Keys : RunEnds(k)) \/ Edit \/ CallerStep
         \/ UNCHANGED vars
  PROVE  OrderInv'
<1>1. /\ UNCHANGED <<pc, cur, seenRun, seenHead, seenStart, run, startHead,
                     attempts, head, task>>
      /\ WorldGrows
  <2>1. WorldGrows  BY OutsideWorld DEF TypeInv
  <2>2. UNCHANGED <<pc, cur, seenRun, seenHead, seenStart, run, startHead,
                    attempts, head, task>>
    BY DEF LeaseExpires, RunEnds, Edit, CallerStep, CancelCheck, CancelFlag,
           CancelSignal, ContinueCheck, ContinueCommit, vars, planVars,
           stepVars, worldVars, localVars
  <2> QED BY <2>1, <2>2
<1>2. /\ \A k \in Keys : proc[k] = "NONE" => proc'[k] = "NONE"
      /\ \/ UNCHANGED <<step, blocker>>
         \/ step' = step /\ blocker' = NoBlocker
         \/ /\ blocker.step # 0 /\ blocker' = NoBlocker
            /\ step' = [step EXCEPT ![blocker.step] =
                          IF Action[blocker.step] = "BARRIER" THEN "PASSED"
                          ELSE "PENDING"]
  <2>1. CASE \/ LeaseExpires \/ Edit \/ UNCHANGED vars
             \/ \E c \in Callers : CancelCheck(c) \/ CancelFlag(c)
                                   \/ ContinueCheck(c)
    BY <2>1 DEF LeaseExpires, Edit, CancelCheck, CancelFlag, ContinueCheck,
                vars, planVars, stepVars, worldVars
  <2>2. ASSUME NEW k \in Keys, RunEnds(k)
        PROVE  UNCHANGED <<step, blocker>>
               /\ \A j \in Keys : proc[j] = "NONE" => proc'[j] = "NONE"
    BY <2>2 DEF RunEnds, planVars, stepVars, RunActive, TypeInv, TypeOK
  <2>3. ASSUME NEW c \in Callers, CancelSignal(c)
        PROVE  UNCHANGED <<step, blocker>>
               /\ \A j \in Keys : proc[j] = "NONE" => proc'[j] = "NONE"
    BY <2>3 DEF CancelSignal, planVars, stepVars, TypeInv, TypeOK
  <2>4. ASSUME NEW c \in Callers, ContinueCommit(c)
        PROVE  /\ proc' = proc
               /\ \/ UNCHANGED <<step, blocker>>
                  \/ /\ blocker.step # 0 /\ blocker' = NoBlocker
                     /\ step' = [step EXCEPT ![blocker.step] =
                                   IF Action[blocker.step] = "BARRIER" THEN "PASSED"
                                   ELSE "PENDING"]
    BY <2>4 DEF ContinueCommit, planVars, stepVars, worldVars
  <2> QED BY <2>1, <2>2, <2>3, <2>4 DEF CallerStep
<1>3. \A s \in Steps : step'[s] = step[s]
        \/ /\ s = blocker.step /\ blocker.step # 0
           /\ step'[s] \in {"PASSED", "PENDING"}
           /\ step'[s] = "PASSED" => Action[s] = "BARRIER"
           /\ step'[s] = "PENDING" => Action[s] # "BARRIER"
  BY <1>2 DEF TypeInv, TypeOK
<1>4. \A s \in Steps : Done(s) => Done(s)'
  BY <1>1, <1>3, DoneStays
<1>5. \A s \in Steps : DependenciesDone(s) => DependenciesDone(s)'
  <2>1. \A s \in Steps : DependsOn[s] \subseteq Steps  BY PlanAssumption DEF ValidPlan
  <2> QED BY <1>4, <2>1 DEF DependenciesDone
<1>6. \A e \in Drivers : pc[e] \in StepPlaces => cur[e] \in Steps
  BY DEF TypeInv, OnStep, Fits
<1>7. RunsAreKnown'
  BY <1>1, <1>3 DEF OrderInv, RunsAreKnown
<1>8. HeadsAreOld' /\ StartHeadsAreOld'
  BY <1>1 DEF OrderInv, HeadsAreOld, StartHeadsAreOld
<1>9. EffectFirst'
  <2> SUFFICES ASSUME NEW e \in Drivers, pc'[e] \in {"PASS", "RECORD", "ACT_PASS"}
               PROVE  Done(cur[e])'
    BY DEF EffectFirst
  <2>1. Done(cur[e]) /\ cur[e] \in Steps
    BY <1>1, <1>6 DEF OrderInv, EffectFirst, StepPlaces, CommandPlaces,
                      CommitPlaces
  <2> QED BY <1>1, <1>4, <2>1 DEF Done
<1>10. PassedIsDone'
  <2> SUFFICES ASSUME NEW s \in Steps, step'[s] = "PASSED"
               PROVE  Done(s)'
    BY DEF PassedIsDone
  <2>1. CASE step[s] = "PASSED"
    BY <1>4, <2>1 DEF OrderInv, PassedIsDone
  <2>2. CASE step[s] # "PASSED"
    <3>1. Action[s] = "BARRIER"  BY <1>3, <2>2
    <3> QED BY <3>1 DEF Done
  <2> QED BY <2>1, <2>2
<1>11. InOrder'
  <2>1. ASSUME NEW e \in Drivers, pc'[e] \in StepPlaces
        PROVE  DependenciesDone(cur[e])'
    <3>1. cur[e] \in Steps /\ DependenciesDone(cur[e]) /\ cur'[e] = cur[e]
      BY <1>1, <1>6, <2>1 DEF OrderInv, InOrder
    <3> QED BY <1>5, <3>1 DEF DependenciesDone
  <2>2. ASSUME NEW s \in Steps, step'[s] # "PENDING"
        PROVE  DependenciesDone(s)'
    BY <1>3, <1>5, <2>2 DEF OrderInv, InOrder
  <2>3. ASSUME blocker'.step # 0
        PROVE  DependenciesDone(blocker.step)'
    <3>1. blocker' = blocker  BY <1>2, <2>3 DEF NoBlocker
    <3>2. blocker.step \in Steps /\ DependenciesDone(blocker.step)
      BY <2>3, <3>1 DEF OrderInv, InOrder, TypeInv, TypeOK
    <3> QED BY <1>5, <3>1, <3>2 DEF DependenciesDone
  <2> QED BY <2>1, <2>2, <2>3 DEF InOrder
<1>12. DependenciesRan'
  <2>1. ASSUME NEW s \in Steps, Begun(s)'
        PROVE  DependenciesDone(s)'
    <3>1. CASE Action[s] \in {"COMMAND", "GIT_COMMIT"}
      <4>1. Begun(s)
        <5>1. \A n \in 1..AttemptBound : <<s, n>> \in Keys  BY DEF Keys
        <5> QED BY <1>1, <1>2, <2>1, <3>1, <5>1 DEF Begun
      <4> QED BY <1>5, <4>1 DEF OrderInv, DependenciesRan
    <3>2. CASE Action[s] \notin {"COMMAND", "GIT_COMMIT"}
      <4>1. step'[s] # "PENDING"  BY <2>1, <3>2 DEF Begun
      <4> QED BY <1>11, <4>1 DEF InOrder
    <3> QED BY <3>1, <3>2
  <2>2. ASSUME task' = "COMPLETED"
        PROVE  \E s \in Steps : Action[s] = "TASK_FINISH" /\ DependenciesDone(s)'
    BY <1>1, <1>5, <2>2 DEF OrderInv, DependenciesRan
  <2> QED BY <2>1, <2>2 DEF DependenciesRan
<1> QED BY <1>7, <1>8, <1>9, <1>10, <1>11, <1>12 DEF OrderInv

LEMMA OrderInit == Init => OrderInv
<1> SUFFICES ASSUME Init PROVE OrderInv
  OBVIOUS
<1>1. /\ \A d \in Drivers : pc[d] = "OFF" /\ seenHead[d] = 0 /\ seenStart[d] = 0
      /\ \A s \in Steps : /\ step[s] = "PENDING" /\ attempts[s] = 0
                          /\ startHead[s] = 0
      /\ \A k \in Keys : proc[k] = "NONE"
      /\ head = 0 /\ task = "ACTIVE" /\ blocker.step = 0
  BY DEF Init, NoBlocker
<1>2. RunsAreKnown /\ HeadsAreOld /\ StartHeadsAreOld /\ PassedIsDone
  BY <1>1 DEF RunsAreKnown, HeadsAreOld, StartHeadsAreOld, PassedIsDone
<1>3. EffectFirst /\ InOrder
  BY <1>1 DEF EffectFirst, InOrder, StepPlaces, CommandPlaces, CommitPlaces,
              FinishPlaces
<1>4. \A s \in Steps : ~Begun(s)
  <2> SUFFICES ASSUME NEW s \in Steps PROVE ~Begun(s)
    OBVIOUS
  <2>1. \A n \in 1..AttemptBound : <<s, n>> \in Keys  BY DEF Keys
  <2>2. CASE Action[s] = "COMMAND"     BY <1>1, <2>1, <2>2 DEF Begun
  <2>3. CASE Action[s] = "GIT_COMMIT"  BY <1>1, <2>3 DEF Begun
  <2>4. CASE Action[s] \notin {"COMMAND", "GIT_COMMIT"}
    BY <1>1, <2>4 DEF Begun
  <2> QED BY <2>2, <2>3, <2>4
<1> QED BY <1>1, <1>2, <1>3, <1>4 DEF OrderInv, DependenciesRan

LEMMA OrderNext ==
  TypeInv /\ TypeInv' /\ OrderInv /\ [Next]_vars => OrderInv'
  BY DriverOrder, OutsideOrder DEF Next

\* No step begins, and no Task is finished, before every step that it depends on
\* was really executed: for any Plan, any number of drivers, crashes, failing
\* awaits, timeouts, edits, callers, and leases that run out under live drivers.
THEOREM DependenciesHaveRun == Spec => []DependenciesRan
<1>1. OrderInv => DependenciesRan  BY DEF OrderInv
<1> QED BY <1>1, TypeInvInit, TypeInvNext, OrderInit, OrderNext, PTL DEF Spec

-----------------------------------------------------------------------------
(* What a failure stops, and what success means                              *)

NoneFailed == \A s \in Steps : step[s] \notin StepFailed
NoneWaits == \A s \in Steps : step[s] # "WAITING"
AllPassed == \A s \in Steps : step[s] = "PASSED"

\* Unless it was cancelled, a RUNNING Plan has no failed and no WAITING step, and
\* one that waits has none but its blocker's.  A driver keeps what it chose under
\* that, even if the Plan is cancelled meanwhile.
HaltInv ==
  /\ ~cancelled /\ status = "RUNNING" => NoneFailed /\ NoneWaits
  /\ ~cancelled /\ status \in Awaiting /\ blocker.step # 0 =>
       \A s \in Steps : step[s] \in StepFailed \union {"WAITING"} => s = blocker.step
  /\ \A d \in Drivers : pc[d] \in StepPlaces => NoneFailed /\ NoneWaits
  /\ \A d \in Drivers : pc[d] = "COMPLETE" => AllPassed
  /\ status \in {"READY_TO_COMMIT", "COMPLETED"} => AllPassed
  /\ status \in PlanFinal => blocker.step = 0
  /\ Continuable /\ blocker.step # 0 => step[blocker.step] \notin StepFailed

\* What a step of driver d does to the Plan: it goes on, or it is the last one.
GoesOn ==
  /\ status' = status /\ blocker' = blocker
  /\ \A s \in Steps : step'[s] \in {step[s], "PENDING", "RUNNING", "PASSED"}

Ends(d) ==
  /\ pc'[d] = "OFF"
  /\ \/ /\ pc[d] = "CANCEL" /\ status' = "CANCELLED" /\ blocker'.step = 0
     \/ /\ status' = "AWAITING_ASSISTANT" /\ blocker'.code # "BARRIER"
        /\ blocker'.step = 0 /\ step' = step
     \/ /\ pc[d] \in {"FAIL", "ACT_FAIL"} /\ status' = "AWAITING_ASSISTANT"
        /\ blocker'.code # "BARRIER" /\ blocker'.step = cur[d]
        /\ \E v \in StepFailed : step' = [step EXCEPT ![cur[d]] = v]
     \/ /\ pc[d] = "WAIT" /\ status' \in Awaiting /\ blocker'.step = cur[d]
        /\ step' = [step EXCEPT ![cur[d]] = "WAITING"]
     \/ /\ pc[d] = "APPROVAL" /\ status' \in Awaiting /\ blocker'.step = cur[d]
        /\ step' = step
     \/ /\ pc[d] = "COMPLETE" /\ status' \in {"READY_TO_COMMIT", "COMPLETED"}
        /\ blocker'.step = 0 /\ step' = step

HaltWrites(d) ==
  /\ cancelled' = cancelled
  /\ pc'[d] \in StepPlaces =>
       pc[d] \in StepPlaces \/ (pc[d] = "SELECT" /\ ~cancelled)
  /\ pc'[d] = "COMPLETE" =>
       /\ pc[d] = "SELECT" /\ ~cancelled /\ Chosen = 0
       /\ step' = step /\ \A s \in Steps : step[s] # "PENDING"
  /\ GoesOn \/ Ends(d)

LEMMA DriverHalts ==
  ASSUME TypeInv, NEW d \in Drivers, DriverStep(d)
  PROVE  HaltWrites(d)
<1>a. /\ pc \in [Drivers -> Places]
      /\ cur \in [Drivers -> Steps \union {0}]
      /\ step \in [Steps -> {"PENDING", "RUNNING", "WAITING", "PASSED"}
                            \union StepFailed]
  BY DEF TypeInv, TypeOK
<1> USE DEF Goto, Forget, Leave, HaltWrites, GoesOn, planVars, stepVars,
            StepPlaces, CommandPlaces, CommitPlaces, FinishPlaces
<1>1. CASE Claim(d)  BY <1>a, <1>1 DEF Claim
<1>2. CASE Renew(d)  BY <1>a, <1>2 DEF Renew
<1>3. CASE Poll(d)  BY <1>a, <1>3 DEF Poll
<1>4. CASE Select(d)
  <2>1. UNCHANGED <<status, blocker, cancelled, step>>  BY <1>4 DEF Select
  <2>2. CASE cancelled
    BY <1>a, <1>4, <2>1, <2>2 DEF Select
  <2>3. CASE ~cancelled /\ Chosen # 0
    <3>1. Chosen \in Steps  BY <2>3, ChosenType DEF TypeInv
    <3>2. Place(Chosen) # "COMPLETE"
      BY <3>1, PlanAssumption DEF Place, ValidPlan, Actions
    <3> QED BY <1>a, <1>4, <2>1, <2>3, <3>2 DEF Select
  <2>4. CASE ~cancelled /\ Chosen = 0
    BY <1>a, <1>4, <2>1, <2>4 DEF Select
  <2> QED BY <2>2, <2>3, <2>4
<1>5. CASE CatchError(d)  BY <1>a, <1>5 DEF CatchError
<1>6. CASE StartRun(d)  BY <1>a, <1>6 DEF StartRun
<1>7. CASE RecordRun(d)  BY <1>a, <1>7 DEF RecordRun
<1>8. CASE ReadStatus(d)  BY <1>a, <1>8 DEF ReadStatus, Verdict
<1>9. CASE PassStep(d)  BY <1>a, <1>9 DEF PassStep
<1>10. CASE ReadSubject(d)  BY <1>a, <1>10 DEF ReadSubject
<1>11. CASE RecordEvidence(d)  BY <1>a, <1>11 DEF RecordEvidence
<1>12. CASE RetryStep(d)  BY <1>a, <1>12 DEF RetryStep
<1>13. CASE ReadHead(d)  BY <1>a, <1>13 DEF ReadHead, ActFails
<1>14. CASE MarkCommitting(d)  BY <1>a, <1>14 DEF MarkCommitting
<1>15. CASE CheckDiff(d)  BY <1>a, <1>15 DEF CheckDiff, ActFails
<1>16. CASE Commit(d)  BY <1>a, <1>16 DEF Commit, ActFails
<1>17. CASE RecordCommit(d)  BY <1>a, <1>17 DEF RecordCommit
<1>18. CASE FinishCheck(d) \/ FinishDiff(d) \/ FinishHead(d)
  BY <1>a, <1>18 DEF FinishCheck, FinishDiff, FinishHead, ActFails
<1>19. CASE FinishTask(d)  BY <1>a, <1>19 DEF FinishTask, ActFails
<1>20. CASE PassAction(d)  BY <1>a, <1>20 DEF PassAction
<1>21. CASE CancelPlan(d)  BY <1>a, <1>21 DEF CancelPlan, Stop, Ends
<1>22. CASE BlockPlan(d)  BY <1>a, <1>22 DEF BlockPlan, Stop, Ends
<1>23. CASE CompletePlan(d)  BY <1>a, <1>23 DEF CompletePlan, Stop, Ends, NoBlocker
<1>24. CASE ReachBarrier(d)
  BY <1>a, <1>24 DEF ReachBarrier, Stop, Ends, Awaiting
<1>25. CASE FailPlan(d)  BY <1>a, <1>25 DEF FailPlan, Stop, Ends
<1>26. CASE AwaitApproval(d)
  BY <1>a, <1>26 DEF AwaitApproval, Stop, Ends, Awaiting
<1>27. CASE FailStep(d)  BY <1>a, <1>27 DEF FailStep, Stop, Ends, StepFailed
<1>28. CASE FailAction(d)  BY <1>a, <1>28 DEF FailAction, Stop, Ends, StepFailed
<1> QED BY <1>1, <1>2, <1>3, <1>4, <1>5, <1>6, <1>7, <1>8, <1>9, <1>10,
           <1>11, <1>12, <1>13, <1>14, <1>15, <1>16, <1>17, <1>18, <1>19, <1>20,
           <1>21, <1>22, <1>23, <1>24, <1>25, <1>26, <1>27, <1>28 DEF DriverStep

LEMMA HaltInit == Init => HaltInv
  BY DEF Init, HaltInv, NoneFailed, NoneWaits, StepFailed, Continuable, Awaiting,
         PlanFinal, StepPlaces, CommandPlaces, CommitPlaces, FinishPlaces

\* The driver that writes is the only one, and the Plan is RUNNING.
LEMMA OneDriver ==
  ASSUME TypeInv, LeaseInv, NEW d \in Drivers, DriverStep(d)
  PROVE  /\ status = "RUNNING"
         /\ \A e \in Drivers : e # d => ~Driving(e) /\ ~Driving(e)'
<1>1. CASE Claim(d)
  <2>1. \A e \in Drivers : e # d => ~Driving(e)
    BY <1>1, PlanAssumption DEF Claim, LeaseInv
  <2>2. \A e \in Drivers : e # d => pc'[e] = pc[e]
    BY <1>1 DEF Claim, Goto, TypeInv, TypeOK
  <2> QED BY <1>1, <2>1, <2>2 DEF Claim, LeaseInv, Driving
<1>2. CASE ~Claim(d)
  <2>1. /\ Driving(d)
        /\ \A e \in Drivers : e # d => pc'[e] = pc[e]
    BY <1>2, DriverMoves
  <2> QED BY <2>1 DEF LeaseInv, Driving
<1> QED BY <1>1, <1>2

LEMMA DriverHaltNext ==
  ASSUME TypeInv, LeaseInv, HaltInv, NEW d \in Drivers, DriverStep(d)
  PROVE  HaltInv'
<1>a. step \in [Steps -> {"PENDING", "RUNNING", "WAITING", "PASSED"}
                         \union StepFailed]
  BY DEF TypeInv, TypeOK
<1>b. /\ status = "RUNNING"
      /\ \A e \in Drivers : e # d => ~Driving(e)'
  BY OneDriver
<1>c. HaltWrites(d)  BY DriverHalts
<1>d. \A e \in Drivers : ~Driving(e)' =>
        pc'[e] \notin StepPlaces /\ pc'[e] # "COMPLETE"
  BY DEF Driving, StepPlaces, CommandPlaces, CommitPlaces, FinishPlaces
<1>1. CASE GoesOn
  <2>1. NoneFailed => NoneFailed'
    BY <1>1 DEF GoesOn, NoneFailed, StepFailed
  <2>2. NoneWaits => NoneWaits'
    BY <1>1 DEF GoesOn, NoneWaits
  <2>3. status' = "RUNNING" /\ cancelled' = cancelled
    BY <1>1, <1>b, <1>c DEF GoesOn, HaltWrites
  <2>4. pc'[d] \in StepPlaces => NoneFailed' /\ NoneWaits'
    BY <1>b, <1>c, <2>1, <2>2 DEF HaltInv, HaltWrites
  <2>5. pc'[d] = "COMPLETE" => AllPassed'
    <3> SUFFICES ASSUME pc'[d] = "COMPLETE" PROVE AllPassed'
      OBVIOUS
    <3>1. /\ ~cancelled /\ Chosen = 0 /\ step' = step
          /\ \A s \in Steps : step[s] # "PENDING"
      BY <1>c DEF HaltWrites
    <3>2. NoneFailed /\ NoneWaits  BY <1>b, <3>1 DEF HaltInv
    <3>3. \A s \in Steps : step[s] # "RUNNING"
      <4> DEFINE running == {s \in Steps : step[s] = "RUNNING"}
      <4> SUFFICES ASSUME running # {} PROVE FALSE
        OBVIOUS
      <4>1. First(running) \in Steps  BY FirstType
      <4>2. Chosen = First(running)  BY DEF Chosen
      <4> QED BY <3>1, <4>1, <4>2, PlanAssumption
    <3> QED BY <1>a, <3>1, <3>2, <3>3 DEF NoneFailed, NoneWaits, AllPassed
  <2> QED BY <1>b, <1>d, <2>1, <2>2, <2>3, <2>4, <2>5
          DEF HaltInv, Continuable, Awaiting, PlanFinal
<1>2. CASE Ends(d)
  <2>1. \A e \in Drivers : pc'[e] \notin StepPlaces /\ pc'[e] # "COMPLETE"
    BY <1>2, <1>b, <1>d DEF Ends, Driving
  <2>2. status' # "RUNNING"  BY <1>2 DEF Ends, Awaiting
  <2>3. ASSUME status' \in Awaiting, blocker'.step # 0
        PROVE  /\ \A s \in Steps : step'[s] \in StepFailed \union {"WAITING"}
                                     => s = blocker'.step
               /\ Continuable' => step'[blocker'.step] \notin StepFailed
    <3>1. /\ pc[d] \in {"FAIL", "ACT_FAIL", "WAIT", "APPROVAL"}
          /\ blocker'.step = cur[d]
      BY <1>2, <2>3 DEF Ends, Awaiting
    <3>2. NoneFailed /\ NoneWaits /\ cur[d] \in Steps
      BY <3>1 DEF HaltInv, StepPlaces, CommandPlaces, TypeInv, OnStep, Fits
    <3>3. CASE pc[d] = "APPROVAL"
      <4>1. step' = step
        BY <1>2, <2>3, <3>3 DEF Ends, Awaiting
      <4> QED BY <3>1, <3>2, <4>1 DEF NoneFailed, NoneWaits
    <3>4. CASE pc[d] = "WAIT"
      <4>1. step' = [step EXCEPT ![cur[d]] = "WAITING"]
        BY <1>2, <2>3, <3>4 DEF Ends, Awaiting
      <4> QED BY <1>a, <3>1, <3>2, <4>1 DEF NoneFailed, NoneWaits, StepFailed
    <3>5. CASE pc[d] \in {"FAIL", "ACT_FAIL"}
      <4>1. /\ status' = "AWAITING_ASSISTANT" /\ blocker'.code # "BARRIER"
            /\ \E v \in StepFailed : step' = [step EXCEPT ![cur[d]] = v]
        BY <1>2, <2>3, <3>5 DEF Ends, Awaiting
      <4> QED BY <1>a, <3>1, <3>2, <4>1 DEF NoneFailed, NoneWaits, Continuable
    <3> QED BY <3>1, <3>3, <3>4, <3>5
  <2>4. status' \in {"READY_TO_COMMIT", "COMPLETED"} => AllPassed'
    BY <1>2 DEF Ends, Awaiting, HaltInv, AllPassed
  <2>5. status' \in PlanFinal => blocker'.step = 0
    BY <1>2 DEF Ends, Awaiting, PlanFinal
  <2> QED BY <2>1, <2>2, <2>3, <2>4, <2>5 DEF HaltInv, Continuable
<1> QED BY <1>1, <1>2, <1>c DEF HaltWrites

\* plan.continue has no step to go on with, or finds the Plan waiting and no driver
\* at work, and begins or passes that step.
LEMMA Continues ==
  ASSUME TypeInv, LeaseInv, Timely, HaltInv, NEW c \in Callers, ContinueCommit(c)
  PROVE  /\ UNCHANGED <<cancelled, proc, pc>>
         /\ \A s \in Steps : step'[s] \in {step[s], "PASSED", "PENDING"}
         /\ \/ UNCHANGED <<status, blocker, step>>
            \/ /\ status \in Awaiting /\ blocker.step \in Steps
               /\ \A d \in Drivers : ~Driving(d) /\ ~Driving(d)'
               /\ status' = "RUNNING" /\ blocker' = NoBlocker
               /\ \E v \in {"PASSED", "PENDING"} :
                    step' = [step EXCEPT ![blocker.step] = v]
<1>a. /\ step \in [Steps -> {"PENDING", "RUNNING", "WAITING", "PASSED"}
                            \union StepFailed]
      /\ blocker.step \in Steps \union {0}
      /\ status \in PlanFinal \union Awaiting \union {"RUNNING"}
  BY DEF TypeInv, TypeOK, PlanTerminal
<1>1. caller[c].at = "CONTINUE" /\ UNCHANGED <<cancelled, proc, pc>>
  BY DEF ContinueCommit, At, planVars, worldVars
<1>2. CASE UNCHANGED planVars
  BY <1>1, <1>2 DEF planVars, stepVars
<1>3. CASE ~UNCHANGED planVars
  <2>1. /\ blocker.step # 0 /\ status' = "RUNNING" /\ blocker' = NoBlocker
        /\ \E v \in {"PASSED", "PENDING"} :
             step' = [step EXCEPT ![blocker.step] = v]
    BY <1>3 DEF ContinueCommit
  <2>2. status \in Awaiting
    BY <1>a, <1>1, <2>1 DEF Timely, HaltInv
  <2>3. \A d \in Drivers : ~Driving(d)
    BY <2>2 DEF LeaseInv, Awaiting
  <2> QED BY <1>a, <1>1, <2>1, <2>2, <2>3 DEF Driving
<1> QED BY <1>2, <1>3

LEMMA HaltNext ==
  ASSUME TypeInv, LeaseInv, Timely, HaltInv, [Next]_vars
  PROVE  HaltInv'
<1>a. step \in [Steps -> {"PENDING", "RUNNING", "WAITING", "PASSED"}
                         \union StepFailed]
  BY DEF TypeInv, TypeOK
<1> USE DEF HaltInv, NoneFailed, NoneWaits, AllPassed, Continuable
<1>1. ASSUME NEW d \in Drivers, DriverStep(d)
      PROVE  HaltInv'
  BY <1>1, DriverHaltNext
<1>2. ASSUME NEW d \in Drivers, Crash(d)
      PROVE  HaltInv'
  <2>1. UNCHANGED <<status, blocker, cancelled, step>>
    BY <1>2 DEF Crash, planVars, stepVars
  <2>2. \A e \in Drivers : pc'[e] \in {pc[e], "DOWN"}
    BY <1>2 DEF Crash, Forget, Goto, TypeInv, TypeOK
  <2> QED BY <2>1, <2>2 DEF StepPlaces, CommandPlaces, CommitPlaces, FinishPlaces
<1>3. CASE \/ LeaseExpires \/ (\E k \in Keys : RunEnds(k)) \/ Edit \/ UNCHANGED vars
           \/ \E c \in Callers : CancelCheck(c) \/ CancelSignal(c) \/ ContinueCheck(c)
  BY <1>3, OutsidePlan
<1>4. ASSUME NEW c \in Callers, CancelFlag(c)
      PROVE  HaltInv'
  <2>1. /\ cancelled' /\ status' = "RUNNING"
        /\ UNCHANGED <<step, pc>>
    BY <1>4 DEF CancelFlag, stepVars
  <2> QED BY <2>1 DEF Awaiting, PlanFinal
<1>5. ASSUME NEW c \in Callers, ContinueCommit(c)
      PROVE  HaltInv'
  <2>1. CASE UNCHANGED <<status, blocker, step>>
    BY <1>5, <2>1, Continues
  <2>2. CASE ~UNCHANGED <<status, blocker, step>>
    <3>1. /\ status \in Awaiting /\ blocker.step \in Steps
          /\ status' = "RUNNING" /\ cancelled' = cancelled
          /\ \A d \in Drivers : ~Driving(d)'
          /\ \E v \in {"PASSED", "PENDING"} :
               step' = [step EXCEPT ![blocker.step] = v]
      BY <1>5, <2>2, Continues
    <3>2. \A d \in Drivers : pc'[d] \notin StepPlaces /\ pc'[d] # "COMPLETE"
      BY <3>1 DEF Driving, StepPlaces, CommandPlaces, CommitPlaces, FinishPlaces
    <3>3. blocker.step # 0  BY <3>1, PlanAssumption
    <3>4. ~cancelled => (NoneFailed /\ NoneWaits)'
      BY <1>a, <3>1, <3>3 DEF StepFailed
    <3> QED BY <3>1, <3>2, <3>4 DEF Awaiting, PlanFinal
  <2> QED BY <2>1, <2>2
<1> QED BY <1>1, <1>2, <1>3, <1>4, <1>5 DEF Next, CallerStep

\* Only a driver that chose the step begins a Run.
LEMMA HaltStops == TypeInv /\ HaltInv /\ [Next]_vars => [StopsAtFailure]_vars
<1> SUFFICES ASSUME TypeInv, HaltInv, [Next]_vars, NEW k \in Keys,
                    proc[k] = "NONE", proc'[k] # "NONE"
             PROVE  NoneFailed
  BY DEF StopsAtFailure, NoneFailed
<1>1. PICK d \in Drivers : DriverStep(d) \/ Crash(d)
  <2>1. proc \in [Keys -> {"NONE"} \union RunActive \union RunTerminal]
    BY DEF TypeInv, TypeOK
  <2>2. CASE \E j \in Keys : RunEnds(j)
    BY <2>1, <2>2 DEF RunEnds, RunActive
  <2>3. CASE \E c \in Callers : CancelSignal(c)
    BY <2>1, <2>3 DEF CancelSignal
  <2> QED BY <2>2, <2>3 DEF Next, CallerStep, LeaseExpires, Edit, CancelCheck,
             CancelFlag, ContinueCheck, ContinueCommit, vars, worldVars
<1>2. pc[d] = "START"  BY <1>1, DriverDetails DEF BeginWrites
<1> QED BY <1>2 DEF HaltInv, StepPlaces, CommandPlaces

\* One call at a time, a failed step stays as it is: no driver has a step in hand,
\* and no plan.continue goes on with it.
LEMMA HaltKeeps ==
  TypeInv /\ LeaseInv /\ OneCaller /\ HaltInv /\ [Next]_vars => [FailuresStay]_vars
<1> SUFFICES ASSUME TypeInv, LeaseInv, OneCaller, HaltInv, [Next]_vars,
                    NEW s \in Steps, step[s] \in StepFailed
             PROVE  step'[s] = step[s]
  BY DEF FailuresStay
<1>1. ASSUME NEW d \in Drivers, DriverStep(d) \/ Crash(d)
      PROVE  step'[s] = step[s]
  <2>1. pc[d] \notin StepPlaces  BY DEF HaltInv, NoneFailed
  <2> QED BY <1>1, <2>1, DriverFrame DEF DriverWrites, StepFailed
<1>2. ASSUME NEW c \in Callers, ContinueCommit(c)
      PROVE  step'[s] = step[s]
  <2>1. Continuable  BY <1>2 DEF OneCaller, ContinueCommit, At
  <2>2. CASE blocker.step # 0
    <3>1. s # blocker.step  BY <2>1, <2>2 DEF HaltInv
    <3> QED BY <1>2, <3>1 DEF ContinueCommit, planVars, stepVars, TypeInv, TypeOK
  <2>3. CASE blocker.step = 0
    BY <1>2, <2>3 DEF ContinueCommit, planVars, stepVars
  <2> QED BY <2>2, <2>3
<1> QED BY <1>1, <1>2, OutsideFrame DEF Next

-----------------------------------------------------------------------------
(* However calls overlap: a Plan is in course, or is being cancelled          *)

Going == LeaseInv /\ Unblocked /\ HaltInv

Succeeded == status \in {"READY_TO_COMMIT", "COMPLETED"} => AllPassed

InCourse == Succeeded /\ (Stopped \/ Going)

\* The drivers of a Plan that is being cancelled begin nothing.
LEMMA Winds ==
  ASSUME TypeInv, Stopped, NEW d \in Drivers, DriverStep(d) \/ Crash(d)
  PROVE  Claim(d) \/ Renew(d) \/ Select(d) \/ CancelPlan(d) \/ Crash(d)
<1>1. pc[d] \in {"OFF", "DOWN", "TOP", "SELECT", "CANCEL"}  BY DEF Stopped
<1> QED BY <1>1 DEF DriverStep, BlockPlan, CompletePlan, ReachBarrier, CatchError,
     FailPlan, StartRun, AwaitApproval, RecordRun, Poll, ReadStatus, PassStep,
     ReadSubject, RecordEvidence, RetryStep, FailStep, ReadHead, MarkCommitting,
     CheckDiff, Commit, RecordCommit, FinishCheck, FinishDiff, FinishHead,
     FinishTask, PassAction, FailAction, Stop

LEMMA StoppedNext ==
  ASSUME TypeInv, Stopped, [Next]_vars
  PROVE  /\ Stopped'
         /\ UNCHANGED <<run, attempts, startHead, evidence, task, head>>
         /\ dirty' = dirty \/ "EDIT" \in Disturbances
         /\ \A k \in Keys : /\ proc'[k] \in RunActive => proc[k] \in RunActive
                            /\ proc[k] = "NONE" => proc'[k] = "NONE"
         /\ \A s \in Steps : step'[s] \in {step[s], "CANCELLED", "PASSED", "PENDING"}
         /\ \/ status' = status /\ step' = step
            \/ status' \in {"RUNNING", "CANCELLED"}
<1>a. /\ pc \in [Drivers -> Places]
      /\ step \in [Steps -> {"PENDING", "RUNNING", "WAITING", "PASSED"}
                            \union StepFailed]
      /\ proc \in [Keys -> {"NONE"} \union RunActive \union RunTerminal]
  BY DEF TypeInv, TypeOK
<1>1. ASSUME NEW d \in Drivers, DriverStep(d) \/ Crash(d)
      PROVE  /\ Stopped'
             /\ UNCHANGED <<run, attempts, startHead, worldVars>>
             /\ \A s \in Steps : step'[s] \in {step[s], "CANCELLED"}
             /\ (status' = status /\ step' = step) \/ status' = "CANCELLED"
  <2>1. CASE Claim(d) \/ Renew(d) \/ Select(d) \/ Crash(d)
    <3>1. UNCHANGED <<run, attempts, startHead, worldVars, step, status, cancelled>>
      BY <2>1 DEF Claim, Renew, Select, Crash, planVars, stepVars
    <3>2. /\ pc'[d] \in {"OFF", "DOWN", "TOP", "SELECT", "CANCEL"}
          /\ \A e \in Drivers : e # d => pc'[e] = pc[e]
      BY <1>a, <2>1 DEF Stopped, Claim, Renew, Select, Crash, Leave, Forget, Goto
    <3> QED BY <3>1, <3>2 DEF Stopped
  <2>2. CASE CancelPlan(d)
    <3>1. /\ UNCHANGED <<run, attempts, startHead, worldVars, cancelled>>
          /\ status' = "CANCELLED"
          /\ pc'[d] = "OFF" /\ \A e \in Drivers : e # d => pc'[e] = pc[e]
      BY <1>a, <2>2 DEF CancelPlan, Stop, Leave, Forget, Goto
    <3>2. \A s \in Steps : step'[s] \in {step[s], "CANCELLED"}
      BY <1>a, <2>2 DEF CancelPlan
    <3> QED BY <3>1, <3>2 DEF Stopped
  <2> QED BY <1>1, <2>1, <2>2, Winds
<1>2. ASSUME \/ LeaseExpires \/ (\E k \in Keys : RunEnds(k)) \/ Edit \/ CallerStep
             \/ UNCHANGED vars
      PROVE  /\ UNCHANGED <<pc, run, attempts, startHead, evidence, task, head>>
             /\ dirty' = dirty \/ "EDIT" \in Disturbances
             /\ cancelled => cancelled'
             /\ \A s \in Steps : step'[s] \in {step[s], "PASSED", "PENDING"}
             /\ (status' = status /\ step' = step) \/ status' = "RUNNING"
  <2>1. dirty' = dirty \/ "EDIT" \in Disturbances
    <3>1. CASE Edit  BY <3>1 DEF Edit
    <3>2. CASE ~Edit
      <4>1. dirty' = dirty
        BY <1>2, <3>2 DEF LeaseExpires, RunEnds, CallerStep, CancelCheck,
           CancelFlag, CancelSignal, ContinueCheck, ContinueCommit, vars, worldVars
      <4> QED BY <4>1
    <3> QED BY <3>1, <3>2
  <2>3. /\ cancelled => cancelled'
        /\ (status' = status /\ step' = step) \/ status' = "RUNNING"
    <3>1. CASE \E c \in Callers : ContinueCommit(c)
      <4>1. \/ UNCHANGED <<cancelled, status, step>>
            \/ cancelled' = cancelled /\ status' = "RUNNING"
        BY <3>1 DEF ContinueCommit, planVars, stepVars
      <4> QED BY <4>1
    <3>2. CASE \E c \in Callers : CancelFlag(c)
      <4>1. cancelled' /\ status' = "RUNNING"  BY <3>2 DEF CancelFlag
      <4> QED BY <4>1
    <3>3. CASE \/ LeaseExpires \/ (\E k \in Keys : RunEnds(k)) \/ Edit
               \/ UNCHANGED vars
               \/ \E c \in Callers : \/ CancelCheck(c) \/ CancelSignal(c)
                                     \/ ContinueCheck(c)
      <4>1. UNCHANGED <<cancelled, status, step>>  BY <3>3, OutsidePlan
      <4> QED BY <4>1
    <3> QED BY <1>2, <3>1, <3>2, <3>3 DEF CallerStep
  <2>2. \A s \in Steps : step'[s] \in {step[s], "PASSED", "PENDING"}
    <3>1. ASSUME NEW c \in Callers, ContinueCommit(c)
          PROVE  \A s \in Steps : step'[s] \in {step[s], "PASSED", "PENDING"}
      BY <1>a, <3>1 DEF ContinueCommit, planVars, stepVars
    <3> QED BY <1>2, <3>1, OutsideFrame
  <2> QED BY <1>2, <2>1, <2>2, <2>3, OutsideFrame
<1>3. \A k \in Keys : /\ proc'[k] \in RunActive => proc[k] \in RunActive
                      /\ proc[k] = "NONE" => proc'[k] = "NONE"
  <2>1. CASE proc' = proc  BY <2>1
  <2>2. ASSUME NEW j \in Keys, RunEnds(j)
        PROVE  /\ proc[j] \in RunActive
               /\ \E v \in RunTerminal : proc' = [proc EXCEPT ![j] = v]
    BY <2>2 DEF RunEnds, RunActive, RunTerminal
  <2>3. ASSUME NEW c \in Callers, CancelSignal(c)
        PROVE  \/ proc' = proc
               \/ /\ proc[caller[c].key] = "RUNNING"
                  /\ proc' = [proc EXCEPT ![caller[c].key] = "CANCELLING"]
    BY <2>3 DEF CancelSignal
  <2>4. CASE \E j \in Keys : RunEnds(j)
    BY <1>a, <2>2, <2>4 DEF RunActive, RunTerminal
  <2>5. CASE \E c \in Callers : CancelSignal(c)
    BY <1>a, <2>3, <2>5 DEF RunActive
  <2> QED BY <1>1, <2>1, <2>4, <2>5 DEF Next, CallerStep, LeaseExpires, Edit,
             CancelCheck, CancelFlag, ContinueCheck, ContinueCommit, vars, worldVars
<1> QED BY <1>1, <1>2, <1>3 DEF Next, Stopped, worldVars

LEMMA UnblockedNext ==
  ASSUME TypeInv, Going, [Next]_vars
  PROVE  Unblocked' \/ Stopped'
<1> USE DEF Going
<1>1. ASSUME NEW d \in Drivers, DriverStep(d)
      PROVE  Unblocked'
  <2>1. CASE GoesOn  BY <2>1 DEF GoesOn, Unblocked
  <2>2. CASE Ends(d)  BY <2>2 DEF Ends, Unblocked, Awaiting
  <2> QED BY <1>1, <2>1, <2>2, DriverHalts DEF HaltWrites
<1>2. ASSUME NEW d \in Drivers, Crash(d)
      PROVE  Unblocked'
  BY <1>2 DEF Crash, planVars, Unblocked
<1>3. CASE \/ LeaseExpires \/ (\E k \in Keys : RunEnds(k)) \/ Edit \/ UNCHANGED vars
           \/ \E c \in Callers : CancelCheck(c) \/ CancelSignal(c) \/ ContinueCheck(c)
  BY <1>3, OutsidePlan DEF Unblocked
<1>4. ASSUME NEW c \in Callers, CancelFlag(c)
      PROVE  Unblocked' \/ Stopped'
  <2>1. blocker' = blocker /\ pc' = pc /\ cancelled'  BY <1>4 DEF CancelFlag
  <2>2. CASE blocker.step = 0  BY <2>1, <2>2 DEF Unblocked
  <2>3. CASE blocker.step # 0
    <3>1. \A d \in Drivers : ~Driving(d)
      BY <2>3 DEF Unblocked, LeaseInv, Awaiting
    <3> QED BY <2>1, <3>1 DEF Stopped, Driving
  <2> QED BY <2>2, <2>3
<1>5. ASSUME NEW c \in Callers, ContinueCommit(c)
      PROVE  Unblocked'
  BY <1>5 DEF ContinueCommit, Unblocked, NoBlocker, planVars
<1> QED BY <1>1, <1>2, <1>3, <1>4, <1>5 DEF Next, CallerStep

LEMMA GoingNext ==
  ASSUME "SLOW" \notin Disturbances, TypeInv, Going, [Next]_vars
  PROVE  Going' \/ Stopped'
  BY LeaseNext, HaltNext, UnblockedNext, UnblockedIsTimely DEF Going

LEMMA InCourseInit == Init => InCourse
<1>1. Init => Going  BY LeaseInit, HaltInit DEF Going
<1>2. Init => Succeeded  BY DEF Init, Succeeded
<1> QED BY <1>1, <1>2 DEF InCourse

LEMMA InCourseNext ==
  ASSUME "SLOW" \notin Disturbances, TypeInv, InCourse, [Next]_vars
  PROVE  InCourse'
<1>1. CASE Stopped
  BY <1>1, StoppedNext DEF InCourse, Succeeded, AllPassed
<1>2. CASE Going
  <2>1. HaltInv'  BY <1>2, HaltNext, UnblockedIsTimely DEF Going
  <2>2. Succeeded'  BY <2>1 DEF HaltInv, Succeeded
  <2> QED BY <1>2, <2>2, GoingNext DEF InCourse
<1> QED BY <1>1, <1>2 DEF InCourse

\* "Later steps are not executed" (service-lifecycle.md): as long as leases last, no
\* Run starts while a step has failed, through timeouts, throws, crashes and
\* takeovers, and calls of plan.cancel and plan.continue that overlap as they like.
THEOREM FailureStops ==
  ASSUME "SLOW" \notin Disturbances
  PROVE  Spec => [][StopsAtFailure]_vars
<1>1. TypeInv /\ InCourse /\ [Next]_vars => [StopsAtFailure]_vars
  <2> SUFFICES ASSUME TypeInv, InCourse, [Next]_vars
               PROVE  [StopsAtFailure]_vars
    OBVIOUS
  <2>1. CASE Stopped  BY <2>1, StoppedNext DEF StopsAtFailure
  <2>2. CASE Going  BY <2>2, HaltStops DEF Going
  <2> QED BY <2>1, <2>2 DEF InCourse
<1>2. TypeInv /\ InCourse /\ [Next]_vars => InCourse'
  BY InCourseNext
<1> QED BY <1>1, <1>2, TypeInvInit, TypeInvNext, InCourseInit, PTL DEF Spec

\* As long as leases last, a Plan that reports READY_TO_COMMIT or COMPLETED has
\* passed every step, and each left its effect behind: a Run that succeeded, a
\* commit, a finished Task.  Calls may overlap as they like.
THEOREM SuccessIsWhole ==
  ASSUME "SLOW" \notin Disturbances
  PROVE  Spec => []SuccessIsComplete
<1>1. OrderInv /\ InCourse => SuccessIsComplete
  BY DEF OrderInv, PassedIsDone, InCourse, Succeeded, AllPassed, SuccessIsComplete
<1>2. TypeInv /\ InCourse /\ [Next]_vars => InCourse'
  BY InCourseNext
<1> QED BY <1>1, <1>2, TypeInvInit, TypeInvNext, InCourseInit, OrderInit,
           OrderNext, PTL DEF Spec

-----------------------------------------------------------------------------
(* No more Runs than the retry policy allows                                 *)

\* While leases last, what a driver of a command read is the durable count ...
Counts(d) == pc[d] \in CommandPlaces => tried[d] = attempts[cur[d]]

\* ... and it is about to begin or to repeat an attempt only with one left.
Spared(d) ==
  pc[d] \in {"START", "APPROVAL", "STARTED", "RETRY"} =>
    tried[d] < MaxAttempts[cur[d]]

\* So has a command that is PENDING, or will be once its approval is there.
Budget ==
  \A s \in Steps : Action[s] = "COMMAND" /\ step[s] = "PENDING" =>
    attempts[s] < MaxAttempts[s]

ApprovalBudget ==
  \A s \in Steps : Continuable /\ Action[s] = "COMMAND" /\ blocker.step = s =>
    attempts[s] < MaxAttempts[s]

KeysInPolicy == \A k \in Keys : proc[k] # "NONE" => k[2] <= MaxAttempts[k[1]]

PolicyInv ==
  /\ KeysInPolicy /\ Budget /\ ApprovalBudget
  /\ \A d \in Drivers : Counts(d) /\ Spared(d)

LEMMA DriverCounts ==
  ASSUME TypeInv, NEW d \in Drivers, Counts(d), DriverStep(d)
  PROVE  Counts(d)' /\ (Spared(d) /\ Budget => Spared(d)' /\ Budget')
<1>a. /\ pc \in [Drivers -> Places]
      /\ cur \in [Drivers -> Steps \union {0}]
      /\ tried \in [Drivers -> Attempts]
      /\ step \in [Steps -> {"PENDING", "RUNNING", "WAITING", "PASSED"}
                            \union StepFailed]
      /\ attempts \in [Steps -> Attempts]
      /\ Fits(pc[d], cur[d]) /\ Counts(d)
  BY DEF TypeInv, TypeOK, OnStep
<1> USE DEF Goto, Forget, Leave, Counts, Spared, Budget, planVars, stepVars, localVars,
            CommandPlaces
<1>1. CASE Claim(d)  BY <1>a, <1>1 DEF Claim
<1>2. CASE Renew(d)  BY <1>a, <1>2 DEF Renew
<1>3. CASE Poll(d)  BY <1>a, <1>3 DEF Poll
<1>4. CASE Select(d)
  <2>1. UNCHANGED <<step, attempts>>  BY <1>4 DEF Select
  <2>2. CASE ~cancelled /\ Chosen # 0
    <3>1. Chosen \in Steps /\ (step[Chosen] = "RUNNING" \/ Ready(Chosen))
      BY <2>2, ChosenType DEF TypeInv
    <3>2. /\ pc'[d] = Place(Chosen) /\ cur'[d] = Chosen
          /\ tried'[d] = attempts[Chosen]
      BY <1>a, <1>4, <2>2 DEF Select
    <3>3. Place(Chosen) \notin {"APPROVAL", "STARTED", "RETRY"}
      BY <3>1, PlanAssumption DEF Place, ValidPlan, Actions
    <3>4. Place(Chosen) = "START" =>
            Action[Chosen] = "COMMAND" /\ step[Chosen] # "RUNNING"
      BY <3>1, PlanAssumption DEF Place, ValidPlan, Actions
    <3> QED BY <1>a, <2>1, <3>1, <3>2, <3>3, <3>4 DEF Ready
  <2>3. CASE cancelled \/ Chosen = 0
    <3>1. pc'[d] \in {"CANCEL", "BLOCK", "COMPLETE"}
      BY <1>a, <1>4, <2>3 DEF Select
    <3> QED BY <1>a, <2>1, <3>1
  <2> QED BY <2>2, <2>3
<1>5. CASE CatchError(d)  BY <1>a, <1>5 DEF CatchError
<1>6. CASE StartRun(d)  BY <1>a, <1>6 DEF StartRun
<1>7. CASE RecordRun(d)
  <2>1. cur[d] \in Steps  BY <1>a, <1>7 DEF RecordRun, Fits, StepPlaces
  <2> QED BY <1>a, <1>7, <2>1 DEF RecordRun
<1>8. CASE ReadStatus(d)
  <2>1. UNCHANGED <<step, attempts, cur, tried>>  BY <1>8 DEF ReadStatus
  <2>2. pc'[d] \notin {"START", "APPROVAL", "STARTED"}
    BY <1>a, <1>8 DEF ReadStatus, Verdict
  <2>3. pc'[d] = "RETRY" => tried[d] < MaxAttempts[cur[d]]
    BY <1>a, <1>8 DEF ReadStatus, Verdict
  <2>4. pc[d] \in CommandPlaces  BY <1>8 DEF ReadStatus
  <2> QED BY <1>a, <2>1, <2>2, <2>3, <2>4
<1>9. CASE PassStep(d)  BY <1>a, <1>9 DEF PassStep
<1>10. CASE ReadSubject(d)  BY <1>a, <1>10 DEF ReadSubject
<1>11. CASE RecordEvidence(d)  BY <1>a, <1>11 DEF RecordEvidence
<1>12. CASE RetryStep(d)  BY <1>a, <1>12 DEF RetryStep
<1>13. CASE ReadHead(d)  BY <1>a, <1>13 DEF ReadHead, ActFails
<1>14. CASE MarkCommitting(d)
  <2>1. pc'[d] = "DIFF" /\ Action[cur[d]] = "GIT_COMMIT"
    BY <1>a, <1>14 DEF MarkCommitting, Fits, CommitPlaces
  <2> QED BY <1>a, <1>14, <2>1 DEF MarkCommitting
<1>15. CASE CheckDiff(d)  BY <1>a, <1>15 DEF CheckDiff, ActFails
<1>16. CASE Commit(d)  BY <1>a, <1>16 DEF Commit, ActFails
<1>17. CASE RecordCommit(d)  BY <1>a, <1>17 DEF RecordCommit
<1>18. CASE FinishCheck(d) \/ FinishDiff(d) \/ FinishHead(d)
  BY <1>a, <1>18 DEF FinishCheck, FinishDiff, FinishHead, ActFails
<1>19. CASE FinishTask(d)  BY <1>a, <1>19 DEF FinishTask, ActFails
<1>20. CASE PassAction(d)  BY <1>a, <1>20 DEF PassAction
<1>21. CASE CancelPlan(d)
  <2>1. \A s \in Steps : step'[s] = "PENDING" => step[s] = "PENDING"
    BY <1>21, DriverDetails DEF CancelPlan, Stop, StepWrites
  <2> QED BY <1>a, <1>21, <2>1 DEF CancelPlan, Stop
<1>22. CASE BlockPlan(d)  BY <1>a, <1>22 DEF BlockPlan, Stop
<1>23. CASE CompletePlan(d)  BY <1>a, <1>23 DEF CompletePlan, Stop
<1>24. CASE ReachBarrier(d)  BY <1>a, <1>24 DEF ReachBarrier, Stop
<1>25. CASE FailPlan(d)  BY <1>a, <1>25 DEF FailPlan, Stop
<1>26. CASE AwaitApproval(d)  BY <1>a, <1>26 DEF AwaitApproval, Stop
<1>27. CASE FailStep(d)  BY <1>a, <1>27 DEF FailStep, Stop
<1>28. CASE FailAction(d)  BY <1>a, <1>28 DEF FailAction, Stop
<1> QED BY <1>1, <1>2, <1>3, <1>4, <1>5, <1>6, <1>7, <1>8, <1>9, <1>10,
           <1>11, <1>12, <1>13, <1>14, <1>15, <1>16, <1>17, <1>18, <1>19, <1>20,
           <1>21, <1>22, <1>23, <1>24, <1>25, <1>26, <1>27, <1>28 DEF DriverStep

\* A driver asks for the approval of its own command, with an attempt left.
LEMMA DriverApproval ==
  ASSUME TypeInv, LeaseInv, PolicyInv, NEW d \in Drivers, DriverStep(d)
  PROVE  ApprovalBudget'
<1> SUFFICES ASSUME NEW s \in Steps, Continuable', Action[s] = "COMMAND",
                    blocker'.step = s
             PROVE  attempts'[s] < MaxAttempts[s]
  BY DEF ApprovalBudget
<1>1. Ends(d)
  <2>1. ~GoesOn  BY OneDriver DEF GoesOn, Continuable, Awaiting
  <2> QED BY <2>1, DriverHalts DEF HaltWrites
<1>2. pc[d] # "WAIT"
  BY <1>1 DEF Ends, TypeInv, OnStep, Fits, Continuable, Awaiting, StepPlaces
<1>3. pc[d] = "APPROVAL"
  BY <1>1, <1>2 DEF Ends, Continuable, Awaiting
<1>4. AwaitApproval(d)
  BY <1>3 DEF DriverStep, Claim, Renew, Select, CancelPlan, BlockPlan,
     CompletePlan, ReachBarrier, CatchError, FailPlan, StartRun, RecordRun, Poll,
     ReadStatus, PassStep, ReadSubject, RecordEvidence, RetryStep, FailStep,
     ReadHead, MarkCommitting, CheckDiff, Commit, RecordCommit, FinishCheck,
     FinishDiff, FinishHead, FinishTask, PassAction, FailAction, Stop
<1>5. s = cur[d] /\ attempts' = attempts
  BY <1>4 DEF AwaitApproval, Stop
<1> QED BY <1>3, <1>5 DEF PolicyInv, Counts, Spared, CommandPlaces

LEMMA PolicyInit == Init => PolicyInv
<1> SUFFICES ASSUME Init PROVE PolicyInv
  OBVIOUS
<1>1. /\ \A s \in Steps : attempts[s] = 0 /\ MaxAttempts[s] \in 1..3
      /\ \A k \in Keys : proc[k] = "NONE"
      /\ \A d \in Drivers : pc[d] = "OFF"
  BY PlanAssumption DEF Init, ValidPlan
<1>2. \A s \in Steps : attempts[s] < MaxAttempts[s]  BY <1>1
<1> QED BY <1>1, <1>2 DEF PolicyInv, KeysInPolicy, Budget, ApprovalBudget, Counts,
                          Spared, CommandPlaces

LEMMA PolicyNext ==
  ASSUME TypeInv, LeaseInv, OneCaller, PolicyInv, [Next]_vars
  PROVE  PolicyInv'
<1>a. /\ \A d \in Drivers : ~Driving(d)' => Counts(d)' /\ Spared(d)'
      /\ proc \in [Keys -> {"NONE"} \union RunActive \union RunTerminal]
  BY DEF Counts, Spared, Driving, CommandPlaces, TypeInv, TypeOK
<1>1. ASSUME NEW d \in Drivers, DriverStep(d)
      PROVE  PolicyInv'
  <2>1. Budget' /\ Counts(d)' /\ Spared(d)'  BY <1>1, DriverCounts DEF PolicyInv
  <2>2. ApprovalBudget'  BY <1>1, DriverApproval
  <2>3. \A e \in Drivers : e # d => Counts(e)' /\ Spared(e)'  BY <1>1, <1>a, OneDriver
  <2>4. KeysInPolicy'
    <3> SUFFICES ASSUME NEW k \in Keys, proc'[k] # "NONE"
                 PROVE  k[2] <= MaxAttempts[k[1]]
      BY DEF KeysInPolicy
    <3>1. CASE proc[k] = "NONE"
      <4>1. k = Key(d) /\ pc[d] = "START"
        BY <1>1, <3>1, DriverDetails DEF BeginWrites
      <4>2. tried[d] < MaxAttempts[cur[d]] /\ tried[d] \in Nat
        BY <4>1, PlanAssumption DEF PolicyInv, Counts, Spared, TypeInv, TypeOK, Attempts
      <4>3. cur[d] \in Steps
        BY <4>1 DEF TypeInv, OnStep, Fits, StepPlaces, CommandPlaces
      <4>4. MaxAttempts[cur[d]] \in 1..3  BY <4>3, PlanAssumption DEF ValidPlan
      <4> QED BY <4>1, <4>2, <4>4 DEF Key
    <3>2. CASE proc[k] # "NONE"  BY <3>2 DEF PolicyInv, KeysInPolicy
    <3> QED BY <3>1, <3>2
  <2> QED BY <2>1, <2>2, <2>3, <2>4 DEF PolicyInv
<1>2. ASSUME NEW d \in Drivers, Crash(d)
      PROVE  PolicyInv'
  <2>1. UNCHANGED <<status, blocker, step, attempts, proc>>
    BY <1>2 DEF Crash, planVars, stepVars, worldVars
  <2>2. Counts(d)' /\ Spared(d)'
    BY <1>2 DEF Crash, Forget, Goto, TypeInv, TypeOK, Counts, Spared,
           CommandPlaces
  <2>3. \A e \in Drivers : e # d => /\ pc'[e] = pc[e] /\ tried'[e] = tried[e]
                                    /\ cur'[e] = cur[e]
    BY <1>2 DEF Crash, Forget, Goto, TypeInv, TypeOK
  <2> QED BY <2>1, <2>2, <2>3 DEF PolicyInv, KeysInPolicy, Budget,
             ApprovalBudget, Continuable, Counts, Spared
<1>3. CASE \/ LeaseExpires \/ (\E k \in Keys : RunEnds(k)) \/ Edit \/ UNCHANGED vars
           \/ \E c \in Callers : CancelCheck(c) \/ CancelSignal(c) \/ ContinueCheck(c)
  <2>1. UNCHANGED <<status, blocker, step, attempts, pc, cur, tried>>
    BY <1>3 DEF LeaseExpires, RunEnds, Edit, CancelCheck, CancelSignal,
                ContinueCheck, vars, planVars, stepVars, localVars
  <2>2. \A k \in Keys : proc'[k] # "NONE" => proc[k] # "NONE"
    BY <1>a, <1>3 DEF LeaseExpires, RunEnds, Edit, CancelCheck, CancelSignal,
                ContinueCheck, vars, worldVars, RunActive
  <2> QED BY <2>1, <2>2 DEF PolicyInv, KeysInPolicy, Budget, ApprovalBudget,
             Continuable, Counts, Spared
<1>4. ASSUME NEW c \in Callers, CancelFlag(c)
      PROVE  PolicyInv'
  <2>1. /\ ~Continuable'
        /\ UNCHANGED <<step, attempts, proc, pc, cur, tried>>
    BY <1>4 DEF CancelFlag, Continuable, Awaiting, stepVars, worldVars, localVars
  <2> QED BY <2>1 DEF PolicyInv, KeysInPolicy, Budget, ApprovalBudget, Counts,
             Spared
<1>5. ASSUME NEW c \in Callers, ContinueCommit(c)
      PROVE  PolicyInv'
  <2>1. /\ caller[c].at = "CONTINUE"
        /\ UNCHANGED <<attempts, proc, pc, cur, tried>>
    BY <1>5 DEF ContinueCommit, At, planVars, stepVars, worldVars, localVars
  <2>2. Continuable  BY <2>1 DEF OneCaller
  <2>3. CASE UNCHANGED planVars
    <3>1. UNCHANGED <<status, blocker, step>>  BY <2>3 DEF planVars, stepVars
    <3> QED BY <2>1, <3>1 DEF PolicyInv, KeysInPolicy, Budget, ApprovalBudget,
               Continuable, Counts, Spared
  <2>4. CASE ~UNCHANGED planVars
    <3>1. /\ status' = "RUNNING"
          /\ \E v \in {"PASSED", "PENDING"} :
               step' = [step EXCEPT ![blocker.step] = v]
      BY <1>5, <2>4 DEF ContinueCommit
    <3>2. \A s \in Steps : step'[s] = "PENDING" =>
            step[s] = "PENDING" \/ s = blocker.step
      BY <3>1 DEF TypeInv, TypeOK
    <3>3. Budget'
      BY <2>1, <2>2, <3>2 DEF PolicyInv, Budget, ApprovalBudget
    <3>4. ~Continuable'  BY <3>1 DEF Continuable, Awaiting
    <3> QED BY <2>1, <3>3, <3>4 DEF PolicyInv, KeysInPolicy, ApprovalBudget, Counts,
             Spared
  <2> QED BY <2>3, <2>4
<1> QED BY <1>1, <1>2, <1>3, <1>4, <1>5 DEF Next, CallerStep

LEMMA PolicyBounds == PolicyInv => RunsWithinPolicy
<1> SUFFICES ASSUME PolicyInv, NEW s \in Steps
             PROVE  Cardinality({n \in 1..AttemptBound : proc[<<s, n>>] # "NONE"})
                      <= MaxAttempts[s]
  BY DEF RunsWithinPolicy
<1> DEFINE begun == {n \in 1..AttemptBound : proc[<<s, n>>] # "NONE"}
<1>1. MaxAttempts[s] \in 1..3 /\ AttemptBound \in Nat
  BY PlanAssumption DEF ValidPlan
<1>2. \A n \in begun : n <= MaxAttempts[s]
  <2> SUFFICES ASSUME NEW n \in begun PROVE n <= MaxAttempts[s]
    OBVIOUS
  <2>1. <<s, n>> \in Keys  BY DEF Keys
  <2> QED BY <2>1 DEF PolicyInv, KeysInPolicy
<1>3. begun \subseteq 1..MaxAttempts[s]  BY <1>1, <1>2
<1>4. /\ IsFiniteSet(1..MaxAttempts[s])
      /\ Cardinality(1..MaxAttempts[s]) = MaxAttempts[s]
  BY <1>1, FS_Interval
<1>5. Cardinality(begun) <= Cardinality(1..MaxAttempts[s])
  BY <1>3, <1>4, FS_Subset
<1> QED BY <1>4, <1>5

\* As long as leases last and the calls of plan.cancel and plan.continue do not
\* overlap, no step has more Runs than its max_attempts, through takeovers between
\* the start of a Run and its record, approvals and throws.
THEOREM RetriesAreBounded ==
  ASSUME "SLOW" \notin Disturbances, "OVERLAP" \notin Disturbances
  PROVE  Spec => []RunsWithinPolicy
<1>1. PolicyInv => RunsWithinPolicy
  BY PolicyBounds
<1>2. TypeInv /\ LeaseInv /\ OneCaller /\ PolicyInv /\ [Next]_vars => PolicyInv'
  BY PolicyNext
<1>3. TypeInv /\ LeaseInv /\ OneCaller /\ [Next]_vars => LeaseInv' /\ OneCaller'
  BY LeaseNext, OneCallerNext, CallerIsTimely
<1> QED BY <1>1, <1>2, <1>3, TypeInvInit, TypeInvNext, LeaseInit, PolicyInit, PTL
        DEF Spec

-----------------------------------------------------------------------------
(* A driver works on the step that drive() would choose now                  *)

\* Places that a driver reaches with a step that has not begun, and with one that
\* is RUNNING.
BeginPlaces ==
  {"START", "APPROVAL", "STARTED", "ACT", "MARK", "FINISH_CHECK", "FINISH_DIFF",
   "FINISH_HEAD", "FINISH", "WAIT"}
ResumePlaces ==
  {"POLL", "STATUS", "PASS", "RETRY", "FAIL", "FAIL_EVIDENCE", "FAIL_NOTE",
   "RESUME", "DIFF", "COMMIT", "RECORD"}

OneStepRuns ==
  \A s, t \in Steps : step[s] = "RUNNING" /\ step[t] = "RUNNING" => s = t

\* A step that has passed, and waits for its evidence, is not chosen again.
OnChosen(d) ==
  /\ pc[d] \in StepPlaces \ {"EVIDENCE", "NOTE"} => cur[d] = Chosen
  /\ pc[d] \in ResumePlaces => step[cur[d]] = "RUNNING"
  /\ pc[d] \in BeginPlaces => step[cur[d]] = "PENDING"

\* Barriers and finishes never are.
RunningKinds ==
  \A s \in Steps : step[s] = "RUNNING" => Action[s] \in {"COMMAND", "GIT_COMMIT"}

ChosenInv ==
  OneStepRuns /\ RunningKinds /\ \A d \in Drivers : OnChosen(d)

LEMMA FirstOfOne ==
  ASSUME NEW s \in Steps
  PROVE  First({s}) = s
<1>1. First({s}) \in {s}  BY FirstType
<1> QED BY <1>1

LEMMA ChosenRuns ==
  \A s \in Steps : OneStepRuns /\ step[s] = "RUNNING" => Chosen = s
<1> SUFFICES ASSUME NEW s \in Steps, OneStepRuns, step[s] = "RUNNING"
             PROVE  Chosen = s
  OBVIOUS
<1>1. {t \in Steps : step[t] = "RUNNING"} = {s}  BY DEF OneStepRuns
<1> QED BY <1>1, FirstOfOne DEF Chosen

LEMMA ChosenRunsNext ==
  \A s \in Steps : OneStepRuns' /\ step'[s] = "RUNNING" => Chosen' = s
<1> SUFFICES ASSUME NEW s \in Steps, OneStepRuns', step'[s] = "RUNNING"
             PROVE  Chosen' = s
  OBVIOUS
<1>1. {t \in Steps : step'[t] = "RUNNING"} = {s}  BY DEF OneStepRuns
<1> QED BY <1>1, FirstOfOne DEF Chosen

LEMMA ChosenKept ==
  ASSUME step' = step
  PROVE  Chosen' = Chosen
<1>1. \A s \in Steps : Ready(s)' <=> Ready(s)  BY DEF Ready
<1>2. /\ {s \in Steps : step'[s] = "RUNNING"} = {s \in Steps : step[s] = "RUNNING"}
      /\ {s \in Steps : Ready(s)'} = {s \in Steps : Ready(s)}
  BY <1>1
<1> QED BY <1>2 DEF Chosen

\* The step of a driver that begins one is chosen only if no step is RUNNING.
LEMMA NoneRuns ==
  ASSUME TypeInv, ChosenInv, NEW s \in Steps, Chosen = s, step[s] # "RUNNING"
  PROVE  \A t \in Steps : step[t] # "RUNNING"
  BY ChosenRuns DEF ChosenInv

LEMMA DriverChosen ==
  ASSUME TypeInv, ChosenInv, NEW d \in Drivers, DriverStep(d)
  PROVE  OneStepRuns' /\ RunningKinds' /\ OnChosen(d)'
<1>a. /\ pc \in [Drivers -> Places]
      /\ cur \in [Drivers -> Steps \union {0}]
      /\ step \in [Steps -> {"PENDING", "RUNNING", "WAITING", "PASSED"}
                            \union StepFailed]
      /\ pc[d] \in StepPlaces => cur[d] \in Steps
      /\ OnChosen(d) /\ OneStepRuns /\ RunningKinds /\ Fits(pc[d], cur[d])
  BY DEF TypeInv, TypeOK, OnStep, Fits, ChosenInv
<1>b. pc[d] \in StepPlaces /\ step[cur[d]] # "RUNNING" /\ cur[d] = Chosen =>
        \A s \in Steps : step[s] # "RUNNING"
  BY <1>a, NoneRuns
<1> USE DEF Goto, Forget, Leave, OnChosen, OneStepRuns, RunningKinds, planVars, stepVars,
            localVars, StepPlaces, CommandPlaces, CommitPlaces, FinishPlaces,
            BeginPlaces, ResumePlaces
<1>1. CASE Claim(d)  BY <1>a, <1>1, ChosenKept DEF Claim
<1>2. CASE Renew(d)  BY <1>a, <1>2, ChosenKept DEF Renew
<1>3. CASE Poll(d)  BY <1>a, <1>3, ChosenKept DEF Poll
<1>4. CASE Select(d)
  <2>1. step' = step /\ Chosen' = Chosen  BY <1>4, ChosenKept DEF Select
  <2>2. CASE ~cancelled /\ Chosen # 0
    <3>1. Chosen \in Steps /\ (step[Chosen] = "RUNNING" \/ Ready(Chosen))
      BY <2>2, ChosenType DEF TypeInv
    <3>2. pc'[d] = Place(Chosen) /\ cur'[d] = Chosen
      BY <1>a, <1>4, <2>2 DEF Select
    <3>3. step[Chosen] = "RUNNING" => Place(Chosen) \in {"POLL", "RESUME"}
      BY <1>a, <3>1 DEF Place
    <3>4. step[Chosen] # "RUNNING" =>
            Place(Chosen) \in {"START", "ACT", "FINISH_CHECK", "WAIT"}
      BY <3>1, PlanAssumption DEF Place, ValidPlan, Actions
    <3> QED BY <1>a, <2>1, <3>1, <3>2, <3>3, <3>4 DEF Ready
  <2>3. CASE cancelled \/ Chosen = 0
    <3>1. pc'[d] \in {"CANCEL", "BLOCK", "COMPLETE"}
      BY <1>a, <1>4, <2>3 DEF Select
    <3> QED BY <1>a, <2>1, <3>1
  <2> QED BY <2>2, <2>3
<1>5. CASE CatchError(d)  BY <1>a, <1>5, ChosenKept DEF CatchError
<1>6. CASE StartRun(d)  BY <1>a, <1>6, ChosenKept DEF StartRun
<1>7. CASE RecordRun(d)
  <2>1. \A s \in Steps : step[s] # "RUNNING"  BY <1>a, <1>b, <1>7 DEF RecordRun
  <2>2. /\ step' = [step EXCEPT ![cur[d]] = "RUNNING"]
        /\ pc'[d] = "POLL" /\ cur' = cur /\ cur[d] \in Steps
    BY <1>a, <1>7 DEF RecordRun
  <2>3. OneStepRuns' /\ step'[cur[d]] = "RUNNING"  BY <1>a, <2>1, <2>2
  <2>4. Chosen' = cur[d]  BY <2>2, <2>3, ChosenRunsNext
  <2>5. RunningKinds'  BY <1>a, <1>7, <2>2 DEF RecordRun, Fits
  <2> QED BY <2>2, <2>3, <2>4, <2>5
<1>8. CASE ReadStatus(d)
  <2>1. step' = step /\ cur' = cur /\ pc[d] = "STATUS"  BY <1>8 DEF ReadStatus
  <2>2. pc'[d] \in {"PASS", "RETRY", "FAIL", "FAIL_EVIDENCE", "POLL", "ERROR"}
    BY <1>a, <1>8 DEF ReadStatus, Verdict
  <2> QED BY <1>a, <2>1, <2>2, ChosenKept
<1>9. CASE PassStep(d)  BY <1>a, <1>9 DEF PassStep
<1>10. CASE ReadSubject(d)  BY <1>a, <1>10, ChosenKept DEF ReadSubject
<1>11. CASE RecordEvidence(d)  BY <1>a, <1>11, ChosenKept DEF RecordEvidence
<1>12. CASE RetryStep(d)  BY <1>a, <1>12 DEF RetryStep
<1>13. CASE ReadHead(d)  BY <1>a, <1>13, ChosenKept DEF ReadHead, ActFails
<1>14. CASE MarkCommitting(d)
  <2>1. \A s \in Steps : step[s] # "RUNNING"
    BY <1>a, <1>b, <1>14 DEF MarkCommitting
  <2>2. /\ step' = [step EXCEPT ![cur[d]] = "RUNNING"]
        /\ pc'[d] = "DIFF" /\ cur' = cur /\ cur[d] \in Steps
    BY <1>a, <1>14 DEF MarkCommitting
  <2>3. OneStepRuns' /\ step'[cur[d]] = "RUNNING"  BY <1>a, <2>1, <2>2
  <2>4. Chosen' = cur[d]  BY <2>2, <2>3, ChosenRunsNext
  <2>5. RunningKinds'  BY <1>a, <1>14, <2>2 DEF MarkCommitting, Fits
  <2> QED BY <2>2, <2>3, <2>4, <2>5
<1>15. CASE CheckDiff(d)  BY <1>a, <1>15, ChosenKept DEF CheckDiff, ActFails
<1>16. CASE Commit(d)  BY <1>a, <1>16, ChosenKept DEF Commit, ActFails
<1>17. CASE RecordCommit(d)  BY <1>a, <1>17, ChosenKept DEF RecordCommit
<1>18. CASE FinishCheck(d) \/ FinishDiff(d) \/ FinishHead(d)
  BY <1>a, <1>18, ChosenKept DEF FinishCheck, FinishDiff, FinishHead, ActFails
<1>19. CASE FinishTask(d)  BY <1>a, <1>19, ChosenKept DEF FinishTask, ActFails
<1>20. CASE PassAction(d)  BY <1>a, <1>20 DEF PassAction
<1>21. CASE CancelPlan(d)
  <2>1. \A s \in Steps : step'[s] = "RUNNING" => step[s] = "RUNNING"
    BY <1>21, DriverDetails DEF CancelPlan, Stop, StepWrites
  <2> QED BY <1>a, <1>21, <2>1 DEF CancelPlan, Stop
<1>22. CASE BlockPlan(d)  BY <1>a, <1>22 DEF BlockPlan, Stop
<1>23. CASE CompletePlan(d)  BY <1>a, <1>23 DEF CompletePlan, Stop
<1>24. CASE ReachBarrier(d)  BY <1>a, <1>24 DEF ReachBarrier, Stop
<1>25. CASE FailPlan(d)  BY <1>a, <1>25 DEF FailPlan, Stop
<1>26. CASE AwaitApproval(d)  BY <1>a, <1>26 DEF AwaitApproval, Stop
<1>27. CASE FailStep(d)  BY <1>a, <1>27 DEF FailStep, Stop
<1>28. CASE FailAction(d)  BY <1>a, <1>28 DEF FailAction, Stop
<1> QED BY <1>1, <1>2, <1>3, <1>4, <1>5, <1>6, <1>7, <1>8, <1>9, <1>10,
           <1>11, <1>12, <1>13, <1>14, <1>15, <1>16, <1>17, <1>18, <1>19, <1>20,
           <1>21, <1>22, <1>23, <1>24, <1>25, <1>26, <1>27, <1>28 DEF DriverStep

LEMMA NotDriving ==
  ASSUME NEW d \in Drivers, ~Driving(d)
  PROVE  pc[d] \notin StepPlaces /\ pc[d] # "CANCEL"
  BY DEF Driving, StepPlaces, CommandPlaces, CommitPlaces, FinishPlaces

LEMMA Crashes ==
  ASSUME TypeInv, NEW d \in Drivers, Crash(d)
  PROVE  /\ UNCHANGED <<planVars, worldVars, caller>>
         /\ ~Driving(d)'
         /\ \A e \in Drivers : e # d =>
              /\ pc'[e] = pc[e] /\ cur'[e] = cur[e] /\ seenRun'[e] = seenRun[e]
              /\ seenHead'[e] = seenHead[e] /\ seenStart'[e] = seenStart[e]
  BY DEF Crash, Forget, Goto, Driving, TypeInv, TypeOK

LEMMA ChosenInit == Init => ChosenInv
  BY DEF Init, ChosenInv, OneStepRuns, RunningKinds, OnChosen, StepPlaces,
         CommandPlaces, CommitPlaces, FinishPlaces, BeginPlaces, ResumePlaces

LEMMA ChosenNext ==
  ASSUME TypeInv, Going, ChosenInv, [Next]_vars
  PROVE  ChosenInv'
<1>a. \A d \in Drivers : ~Driving(d)' => OnChosen(d)'
  BY DEF OnChosen, Driving, StepPlaces, CommandPlaces, CommitPlaces,
         FinishPlaces, BeginPlaces, ResumePlaces
<1>1. ASSUME NEW d \in Drivers, DriverStep(d)
      PROVE  ChosenInv'
  <2>1. OneStepRuns' /\ RunningKinds' /\ OnChosen(d)'  BY <1>1, DriverChosen
  <2>2. \A e \in Drivers : e # d => OnChosen(e)'
    BY <1>a, <1>1, OneDriver DEF Going
  <2> QED BY <2>1, <2>2 DEF ChosenInv
<1>2. ASSUME NEW d \in Drivers, Crash(d)
      PROVE  ChosenInv'
  <2>1. step' = step /\ Chosen' = Chosen
    BY <1>2, Crashes, ChosenKept DEF planVars, stepVars
  <2>2. OnChosen(d)'  BY <1>2, <1>a, Crashes
  <2>3. \A e \in Drivers : e # d => pc'[e] = pc[e] /\ cur'[e] = cur[e]
    BY <1>2, Crashes
  <2> QED BY <2>1, <2>2, <2>3 DEF ChosenInv, OneStepRuns, RunningKinds, OnChosen
<1>3. CASE /\ \/ LeaseExpires \/ (\E k \in Keys : RunEnds(k)) \/ Edit \/ CallerStep
              \/ UNCHANGED vars
           /\ step' = step
  <2>1. UNCHANGED <<pc, cur>> /\ Chosen' = Chosen
    BY <1>3, OutsideFrame, ChosenKept DEF localVars
  <2> QED BY <1>3, <2>1 DEF ChosenInv, OneStepRuns, RunningKinds, OnChosen
<1>4. ASSUME NEW c \in Callers, ContinueCommit(c), step' # step
      PROVE  ChosenInv'
  <2>1. /\ \A s \in Steps : step'[s] = "RUNNING" => step[s] = "RUNNING"
        /\ \A d \in Drivers : ~Driving(d)'
    BY <1>4, Continues, UnblockedIsTimely DEF Going
  <2>2. \A d \in Drivers : OnChosen(d)'  BY <1>a, <2>1
  <2> QED BY <2>1, <2>2 DEF ChosenInv, OneStepRuns, RunningKinds
<1> QED BY <1>1, <1>2, <1>3, <1>4, OutsideFrame DEF Next

\* A driver of a Plan in course has read the durable count of its command.
LEMMA CountsNext ==
  ASSUME TypeInv, Going, \A d \in Drivers : Counts(d), [Next]_vars
  PROVE  \A d \in Drivers : Counts(d)'
<1>a. \A d \in Drivers : ~Driving(d)' => Counts(d)'
  BY DEF Counts, Driving, CommandPlaces
<1>1. ASSUME NEW d \in Drivers, DriverStep(d)
      PROVE  \A e \in Drivers : Counts(e)'
  <2>1. Counts(d)'  BY <1>1, DriverCounts
  <2>2. \A e \in Drivers : e # d => Counts(e)'
    BY <1>a, <1>1, OneDriver DEF Going
  <2> QED BY <2>1, <2>2
<1>2. ASSUME NEW d \in Drivers, Crash(d)
      PROVE  \A e \in Drivers : Counts(e)'
  <2>1. \A e \in Drivers : e # d => UNCHANGED <<pc[e], cur[e], tried[e]>>
    BY <1>2 DEF Crash, Forget, Goto, TypeInv, TypeOK
  <2>2. attempts' = attempts  BY <1>2 DEF Crash, planVars, stepVars
  <2>3. Counts(d)'  BY <1>2, <1>a, Crashes
  <2> QED BY <2>1, <2>2, <2>3 DEF Counts
<1>3. ASSUME \/ LeaseExpires \/ (\E k \in Keys : RunEnds(k)) \/ Edit \/ CallerStep
             \/ UNCHANGED vars
      PROVE  \A e \in Drivers : Counts(e)'
  BY <1>3, OutsideFrame DEF Counts, localVars
<1> QED BY <1>1, <1>2, <1>3 DEF Next

AtWork == Going /\ ChosenInv /\ \A d \in Drivers : Counts(d)

LEMMA AtWorkInit == Init => AtWork
<1>1. Init => Going  BY LeaseInit, HaltInit DEF Going
<1>2. Init => \A d \in Drivers : Counts(d)
  BY DEF Init, Counts, CommandPlaces
<1> QED BY <1>1, <1>2, ChosenInit DEF AtWork

LEMMA AtWorkNext ==
  ASSUME "SLOW" \notin Disturbances, TypeInv, AtWork, [Next]_vars
  PROVE  AtWork' \/ Stopped'
  BY GoingNext, ChosenNext, CountsNext DEF AtWork

-----------------------------------------------------------------------------
(* What a COMPLETED Task was verified by                                     *)

\* What a step of driver d does to the worktree, the Task and its evidence.
WorldWrites(d) ==
  /\ pc'[d] \in {"EVIDENCE", "NOTE"} =>
       cur'[d] = cur[d] /\ pc[d] \in {"PASS", "EVIDENCE"}
  /\ pc'[d] = "FINISH_DIFF" => task = "ACTIVE" /\ task' = task
  /\ pc'[d] = "FINISH_HEAD" =>
       pc[d] = "FINISH_DIFF" /\ ~dirty /\ UNCHANGED <<dirty, task>>
  /\ pc'[d] = "FINISH" =>
       /\ pc[d] = "FINISH_HEAD" /\ seenHead'[d] = head
       /\ UNCHANGED <<head, dirty, task>>
  /\ \A s \in Steps : evidence'[s] # evidence[s] =>
       /\ task = "ACTIVE" /\ UNCHANGED <<head, dirty, task>>
       /\ evidence'[s].state = "PASS" => s = cur[d] /\ pc[d] = "NOTE"
  /\ head' # head => pc[d] = "COMMIT" /\ dirty /\ UNCHANGED <<task, evidence>>
  /\ dirty' => dirty
  /\ task' # task =>
       /\ pc[d] = "FINISH" /\ Satisfied(seenHead[d])
       /\ UNCHANGED <<head, dirty, evidence>>

LEMMA DriverDelivers ==
  ASSUME TypeInv, NEW d \in Drivers, DriverStep(d)
  PROVE  WorldWrites(d)
<1>a. /\ pc \in [Drivers -> Places]
      /\ cur \in [Drivers -> Steps \union {0}]
      /\ seenHead \in [Drivers -> Nat]
      /\ evidence \in [Steps -> [state : {"NONE", "PASS", "FAIL"}, sha : Nat]]
      /\ head \in Nat /\ dirty \in BOOLEAN /\ task \in {"ACTIVE", "COMPLETED"}
  BY DEF TypeInv, TypeOK
<1> USE DEF Goto, Forget, Leave, WorldWrites, worldVars, localVars
<1>1. CASE Claim(d)  BY <1>a, <1>1 DEF Claim
<1>2. CASE Renew(d)  BY <1>a, <1>2 DEF Renew
<1>3. CASE Poll(d)  BY <1>a, <1>3 DEF Poll
<1>4. CASE Select(d)
  <2>1. Chosen # 0 =>
          Place(Chosen) \notin {"EVIDENCE", "NOTE", "FINISH_DIFF", "FINISH_HEAD", "FINISH"}
    <3>1. Chosen # 0 => Action[Chosen] \in Actions
      BY ChosenType, PlanAssumption DEF TypeInv, ValidPlan
    <3> QED BY <3>1 DEF Place, Actions
  <2> QED BY <1>a, <1>4, <2>1 DEF Select
<1>5. CASE CatchError(d)  BY <1>a, <1>5 DEF CatchError
<1>6. CASE StartRun(d)  BY <1>a, <1>6 DEF StartRun
<1>7. CASE RecordRun(d)  BY <1>a, <1>7 DEF RecordRun
<1>8. CASE ReadStatus(d)  BY <1>a, <1>8 DEF ReadStatus, Verdict
<1>9. CASE PassStep(d)  BY <1>a, <1>9 DEF PassStep
<1>10. CASE ReadSubject(d)  BY <1>a, <1>10 DEF ReadSubject
<1>11. CASE RecordEvidence(d)
  <2>1. pc'[d] \notin {"EVIDENCE", "NOTE", "FINISH_DIFF", "FINISH_HEAD", "FINISH"}
    BY <1>a, <1>11 DEF RecordEvidence
  <2> QED BY <1>a, <1>11, <2>1 DEF RecordEvidence
<1>12. CASE RetryStep(d)  BY <1>a, <1>12 DEF RetryStep
<1>13. CASE ReadHead(d)  BY <1>a, <1>13 DEF ReadHead, ActFails
<1>14. CASE MarkCommitting(d)  BY <1>a, <1>14 DEF MarkCommitting
<1>15. CASE CheckDiff(d)  BY <1>a, <1>15 DEF CheckDiff, ActFails
<1>16. CASE Commit(d)  BY <1>a, <1>16 DEF Commit, ActFails
<1>17. CASE RecordCommit(d)  BY <1>a, <1>17 DEF RecordCommit
<1>18. CASE FinishCheck(d) \/ FinishDiff(d) \/ FinishHead(d)
  BY <1>a, <1>18 DEF FinishCheck, FinishDiff, FinishHead, ActFails
<1>19. CASE FinishTask(d)  BY <1>a, <1>19 DEF FinishTask, ActFails
<1>20. CASE PassAction(d)  BY <1>a, <1>20 DEF PassAction
<1>21. CASE CancelPlan(d)  BY <1>a, <1>21 DEF CancelPlan, Stop
<1>22. CASE BlockPlan(d)  BY <1>a, <1>22 DEF BlockPlan, Stop
<1>23. CASE CompletePlan(d)  BY <1>a, <1>23 DEF CompletePlan, Stop
<1>24. CASE ReachBarrier(d)  BY <1>a, <1>24 DEF ReachBarrier, Stop
<1>25. CASE FailPlan(d)  BY <1>a, <1>25 DEF FailPlan, Stop
<1>26. CASE AwaitApproval(d)  BY <1>a, <1>26 DEF AwaitApproval, Stop
<1>27. CASE FailStep(d)  BY <1>a, <1>27 DEF FailStep, Stop
<1>28. CASE FailAction(d)  BY <1>a, <1>28 DEF FailAction, Stop
<1> QED BY <1>1, <1>2, <1>3, <1>4, <1>5, <1>6, <1>7, <1>8, <1>9, <1>10,
           <1>11, <1>12, <1>13, <1>14, <1>15, <1>16, <1>17, <1>18, <1>19, <1>20,
           <1>21, <1>22, <1>23, <1>24, <1>25, <1>26, <1>27, <1>28 DEF DriverStep

\* A driver finishes an ACTIVE Task with a clean worktree, at the HEAD it read.
Finishing(d) ==
  /\ pc[d] \in {"FINISH_DIFF", "FINISH_HEAD", "FINISH"} => task = "ACTIVE"
  /\ pc[d] \in {"FINISH_HEAD", "FINISH"} => ~dirty
  /\ pc[d] = "FINISH" => seenHead[d] = head

\* Evidence is recorded behind a Run that passed; and nothing is committed after
\* the finish.
VerifyInv ==
  /\ \A d \in Drivers :
       (pc[d] \in {"EVIDENCE", "NOTE"} => Done(cur[d])) /\ Finishing(d)
  /\ \A s \in Steps : evidence[s].state = "PASS" => Done(s)
  /\ task = "COMPLETED" =>
       ~dirty /\ \A s \in Required : evidence[s] = [state |-> "PASS", sha |-> head]

LEMMA VerifyInit == Init => VerifyInv
  BY DEF Init, VerifyInv, Finishing

LEMMA DriverVerifies ==
  ASSUME TypeInv, TypeInv', OrderInv, LeaseInv, VerifyInv,
         NEW d \in Drivers, DriverStep(d)
  PROVE  VerifyInv'
<1>1. WorldWrites(d)  BY DriverDelivers
<1>2. \A s \in Steps : Done(s) => Done(s)'
  BY BarriersStay, DriverWorld, DoneStays
<1>3. ASSUME NEW e \in Drivers, pc'[e] \in {"EVIDENCE", "NOTE"}
      PROVE  Done(cur[e])'
  <2>1. e = d  BY <1>3, OneDriver DEF Driving
  <2>2. cur'[d] = cur[d] /\ pc[d] \in {"PASS", "EVIDENCE"}
    BY <1>1, <1>3, <2>1 DEF WorldWrites
  <2>3. Done(cur[d]) /\ cur[d] \in Steps
    BY <2>2 DEF OrderInv, EffectFirst, VerifyInv, TypeInv, OnStep, Fits,
                StepPlaces, CommandPlaces
  <2>4. Done(cur[d])'  BY <1>2, <2>2, <2>3 DEF Done
  <2> QED BY <2>1, <2>4
<1>4. ASSUME NEW e \in Drivers
      PROVE  Finishing(e)'
  <2>1. CASE e # d
    <3>1. ~Driving(e)'  BY <2>1, OneDriver
    <3> QED BY <3>1 DEF Driving, Finishing
  <2>2. CASE e = d
    <3>1. Finishing(d)  BY DEF VerifyInv
    <3> QED BY <1>1, <2>2, <3>1 DEF WorldWrites, Finishing
  <2> QED BY <2>1, <2>2
<1>5. ASSUME NEW s \in Steps, evidence'[s].state = "PASS"
      PROVE  Done(s)'
  <2>1. CASE evidence'[s] = evidence[s]  BY <1>2, <1>5, <2>1 DEF VerifyInv
  <2>2. CASE evidence'[s] # evidence[s]
    <3>1. s = cur[d] /\ pc[d] = "NOTE"  BY <1>1, <1>5, <2>2 DEF WorldWrites
    <3> QED BY <1>2, <3>1 DEF VerifyInv
  <2> QED BY <2>1, <2>2
<1>6. ASSUME task' = "COMPLETED", NEW s \in Required
      PROVE  ~dirty' /\ evidence'[s] = [state |-> "PASS", sha |-> head']
  <2>0. s \in Steps  BY PlanAssumption
  <2>1. CASE task = "COMPLETED"
    <3>1. ~dirty /\ evidence[s] = [state |-> "PASS", sha |-> head]
      BY <2>1 DEF VerifyInv
    <3>2. head' = head /\ ~dirty' /\ evidence'[s] = evidence[s]
      BY <1>1, <2>0, <2>1, <3>1 DEF WorldWrites
    <3> QED BY <3>1, <3>2
  <2>2. CASE task # "COMPLETED"
    <3>1. /\ pc[d] = "FINISH" /\ Satisfied(seenHead[d])
          /\ UNCHANGED <<head, dirty, evidence>>
      BY <1>1, <1>6, <2>2 DEF WorldWrites
    <3>2. seenHead[d] = head /\ ~dirty  BY <3>1 DEF VerifyInv, Finishing
    <3> QED BY <3>1, <3>2 DEF Satisfied
  <2> QED BY <2>1, <2>2
<1>7. task' = "COMPLETED" => ~dirty'
  <2>1. CASE task = "COMPLETED"
    BY <1>1, <2>1 DEF WorldWrites, VerifyInv
  <2>2. CASE task # "COMPLETED"
    BY <1>1, <2>2 DEF WorldWrites, VerifyInv, Finishing
  <2> QED BY <2>1, <2>2
<1> QED BY <1>3, <1>4, <1>5, <1>6, <1>7 DEF VerifyInv

LEMMA VerifyNext ==
  ASSUME "EDIT" \notin Disturbances,
         TypeInv, TypeInv', OrderInv, InCourse, VerifyInv, [Next]_vars
  PROVE  VerifyInv'
<1>1. ASSUME NEW d \in Drivers, DriverStep(d)
      PROVE  VerifyInv'
  <2>1. CASE Going  BY <1>1, <2>1, DriverVerifies DEF Going
  <2>2. CASE Stopped
    <3>1. /\ Stopped'
          /\ UNCHANGED <<evidence, task, head, dirty>>
      BY <2>2, StoppedNext
    <3>2. \A e \in Drivers : pc'[e] \notin {"EVIDENCE", "NOTE"} /\ Finishing(e)'
      BY <3>1 DEF Stopped, Finishing
    <3>3. \A s \in Steps : Done(s) => Done(s)'
      BY <1>1, BarriersStay, DriverWorld, DoneStays
    <3> QED BY <3>1, <3>2, <3>3 DEF VerifyInv
  <2> QED BY <2>1, <2>2 DEF InCourse
<1>2. ASSUME NEW d \in Drivers, Crash(d)
      PROVE  VerifyInv'
  <2>1. UNCHANGED <<step, proc, head, dirty, evidence, task>>
    BY <1>2, Crashes DEF planVars, stepVars, worldVars
  <2>2. \A e \in Drivers : e # d => /\ pc'[e] = pc[e] /\ cur'[e] = cur[e]
                                    /\ seenHead'[e] = seenHead[e]
    BY <1>2, Crashes
  <2>3. pc'[d] \notin {"EVIDENCE", "NOTE"} /\ Finishing(d)'
    <3>1. ~Driving(d)'  BY <1>2, Crashes
    <3>2. pc'[d] \in {"OFF", "DOWN"}  BY <3>1 DEF Driving
    <3> QED BY <3>2 DEF Finishing
  <2>4. \A s \in Steps : Done(s) => Done(s)'
    BY <1>2, BarriersStay, DriverWorld, DoneStays
  <2>5. ASSUME NEW e \in Drivers, pc'[e] \in {"EVIDENCE", "NOTE"}
        PROVE  Done(cur[e])'
    <3>1. cur'[e] = cur[e] /\ pc'[e] = pc[e]  BY <2>2, <2>3, <2>5
    <3>2. Done(cur[e]) /\ cur[e] \in Steps
      BY <2>5, <3>1 DEF VerifyInv, TypeInv, OnStep, Fits, StepPlaces, CommandPlaces
    <3> QED BY <2>4, <3>1, <3>2 DEF Done
  <2>6. \A s \in Steps : evidence'[s].state = "PASS" => Done(s)'
    BY <2>1, <2>4 DEF VerifyInv
  <2>7. \A e \in Drivers : Finishing(e)'
    BY <2>1, <2>2, <2>3 DEF VerifyInv, Finishing
  <2> QED BY <2>1, <2>5, <2>6, <2>7 DEF VerifyInv
<1>3. CASE LeaseExpires \/ (\E k \in Keys : RunEnds(k)) \/ Edit \/ CallerStep
           \/ UNCHANGED vars
  <2>1. UNCHANGED <<pc, cur, seenHead, evidence, task, head>>
    BY <1>3, OutsideFrame DEF localVars
  <2>2. dirty' = dirty
    BY <1>3 DEF LeaseExpires, RunEnds, Edit, CallerStep, CancelCheck, CancelFlag,
       CancelSignal, ContinueCheck, ContinueCommit, vars, worldVars
  <2>3. \A s \in Steps : Done(s) => Done(s)'
    <3>1. WorldGrows  BY <1>3, OutsideWorld DEF TypeInv
    <3>2. \A s \in Steps : Action[s] = "BARRIER" /\ step[s] # "PENDING"
                             => step'[s] # "PENDING"
      <4>1. CASE step' = step  BY <4>1
      <4>2. CASE \E c \in Callers : ContinueCommit(c)
        BY <4>2 DEF ContinueCommit, planVars, stepVars, TypeInv, TypeOK
      <4> QED BY <1>3, <4>1, <4>2, OutsideFrame
    <3> QED BY <3>1, <3>2, DoneStays
  <2>4. ASSUME NEW d \in Drivers, pc'[d] \in {"EVIDENCE", "NOTE"}
        PROVE  Done(cur[d])'
    <3>1. Done(cur[d]) /\ cur[d] \in Steps
      BY <2>1, <2>4 DEF VerifyInv, TypeInv, OnStep, Fits, StepPlaces, CommandPlaces
    <3> QED BY <2>1, <2>3, <3>1 DEF Done
  <2>5. \A d \in Drivers : Finishing(d)'
    BY <2>1, <2>2 DEF VerifyInv, Finishing
  <2> QED BY <2>1, <2>2, <2>3, <2>4, <2>5 DEF VerifyInv
<1> QED BY <1>1, <1>2, <1>3 DEF Next

\* As long as leases last and nobody edits the worktree behind the Plan's back, a
\* COMPLETED Task has, for every step of its completion contract, evidence of a Run
\* that succeeded, recorded for the commit that is still its HEAD.
THEOREM CompletionIsVerified ==
  ASSUME "SLOW" \notin Disturbances, "EDIT" \notin Disturbances
  PROVE  Spec => []CompletedIsVerified
<1>1. VerifyInv => CompletedIsVerified
  <2> SUFFICES ASSUME VerifyInv, task = "COMPLETED", NEW s \in Required
               PROVE  Done(s) /\ evidence[s].sha = head
    BY DEF CompletedIsVerified
  <2>1. s \in Steps  BY PlanAssumption
  <2>2. evidence[s] = [state |-> "PASS", sha |-> head]  BY DEF VerifyInv
  <2> QED BY <2>1, <2>2 DEF VerifyInv
<1>2. TypeInv /\ TypeInv' /\ OrderInv /\ InCourse /\ VerifyInv /\ [Next]_vars
        => VerifyInv'
  BY VerifyNext
<1>3. TypeInv /\ InCourse /\ [Next]_vars => InCourse'
  BY InCourseNext
<1> QED BY <1>1, <1>2, <1>3, TypeInvInit, TypeInvNext, InCourseInit, OrderInit,
           OrderNext, VerifyInit, PTL DEF Spec

-----------------------------------------------------------------------------
(* Effects that took place are recognised                                    *)

\* What driver d knows of the commit that its step is about, and of the Task that
\* it finishes.
Knows(d) ==
  /\ pc[d] \in {"MARK", "DIFF", "COMMIT"} => seenHead[d] = head
  /\ pc[d] \in {"RESUME", "DIFF", "COMMIT", "RECORD"} =>
       seenStart[d] = startHead[cur[d]]
  /\ pc[d] = "COMMIT" => dirty \/ head = startHead[cur[d]]
  /\ pc[d] \in {"RECORD", "FINISH"} => task = "ACTIVE"
  /\ pc[d] = "ACT_FAIL" => IF Action[cur[d]] = "GIT_COMMIT"
                           THEN head = startHead[cur[d]] ELSE task = "ACTIVE"

\* A RUNNING commit that took effect can still be recorded.
ActiveCommits ==
  \A s \in Steps :
    step[s] = "RUNNING" /\ Action[s] = "GIT_COMMIT" /\ head # startHead[s]
      => task = "ACTIVE"

EffectInv ==
  ActiveCommits /\ EffectsAreRecognised /\ \A d \in Drivers : Knows(d)

\* Only MarkCommitting writes a start, and only FailStep and FailAction a failure.
EffectWrites(d) ==
  /\ \A s \in Steps : startHead'[s] # startHead[s] => pc[d] = "MARK" /\ s = cur[d]
  /\ pc[d] = "MARK" => head' = head /\ startHead'[cur[d]] = seenHead[d]
  /\ \A s \in Steps : step'[s] = "FAILED" /\ step[s] # "FAILED" =>
       /\ s = cur[d] /\ pc[d] \in {"FAIL", "ACT_FAIL"}
       /\ UNCHANGED <<head, task, startHead>>

LEMMA DriverEffects ==
  ASSUME "ERROR" \notin Disturbances, "EDIT" \notin Disturbances,
         TypeInv, ChosenInv, VerifyInv, EffectInv, NEW d \in Drivers, DriverStep(d)
  PROVE  Knows(d)' /\ EffectWrites(d)
<1>a. /\ pc \in [Drivers -> Places]
      /\ cur \in [Drivers -> Steps \union {0}]
      /\ seenHead \in [Drivers -> Nat] /\ seenStart \in [Drivers -> Nat]
      /\ step \in [Steps -> {"PENDING", "RUNNING", "WAITING", "PASSED"}
                            \union StepFailed]
      /\ startHead \in [Steps -> Nat] /\ head \in Nat
      /\ dirty \in BOOLEAN /\ task \in {"ACTIVE", "COMPLETED"}
      /\ Fits(pc[d], cur[d]) /\ Knows(d) /\ OnChosen(d) /\ ActiveCommits
      /\ pc[d] \in {"FINISH_DIFF", "FINISH_HEAD"} => task = "ACTIVE"
      /\ task = "COMPLETED" => ~dirty
      /\ "ERROR" \notin Disturbances /\ Disturbances \intersect {"ERROR", "EDIT"} = {}
  BY DEF TypeInv, TypeOK, OnStep, EffectInv, ChosenInv, VerifyInv, Finishing
<1> USE DEF Goto, Forget, Leave, Knows, EffectWrites, ActiveCommits, planVars,
            stepVars, worldVars, localVars
<1>1. CASE Claim(d)  BY <1>a, <1>1 DEF Claim
<1>2. CASE Renew(d)  BY <1>a, <1>2 DEF Renew
<1>3. CASE Poll(d)  BY <1>a, <1>3 DEF Poll
<1>4. CASE Select(d)
  <2>1. UNCHANGED <<step, startHead, head, task, dirty, evidence>>
    BY <1>4 DEF Select
  <2>2. CASE ~cancelled /\ Chosen # 0
    <3>1. Chosen \in Steps  BY <2>2, ChosenType DEF TypeInv
    <3>2. Place(Chosen) \notin {"MARK", "DIFF", "COMMIT", "RECORD", "FINISH", "ACT_FAIL"}
      BY <3>1, PlanAssumption DEF Place, ValidPlan, Actions
    <3>3. /\ pc'[d] = Place(Chosen) /\ cur'[d] = Chosen
          /\ seenStart'[d] = startHead[Chosen] /\ pc[d] = "SELECT"
      BY <1>a, <1>4, <2>2 DEF Select
    <3> QED BY <1>a, <2>1, <3>1, <3>2, <3>3
  <2>3. CASE cancelled \/ Chosen = 0
    <3>1. pc'[d] \in {"CANCEL", "BLOCK", "COMPLETE"} /\ pc[d] = "SELECT"
      BY <1>a, <1>4, <2>3 DEF Select
    <3> QED BY <1>a, <2>1, <3>1
  <2> QED BY <2>2, <2>3
<1>5. CASE CatchError(d)  BY <1>a, <1>5 DEF CatchError
<1>6. CASE StartRun(d)  BY <1>a, <1>6 DEF StartRun
<1>7. CASE RecordRun(d)  BY <1>a, <1>7 DEF RecordRun
<1>8. CASE ReadStatus(d)  BY <1>a, <1>8 DEF ReadStatus, Verdict
<1>9. CASE PassStep(d)  BY <1>a, <1>9 DEF PassStep
<1>10. CASE ReadSubject(d)  BY <1>a, <1>10 DEF ReadSubject
<1>11. CASE RecordEvidence(d)  BY <1>a, <1>11 DEF RecordEvidence
<1>12. CASE RetryStep(d)  BY <1>a, <1>12 DEF RetryStep
<1>13. CASE ReadHead(d)
  BY <1>a, <1>13 DEF ReadHead, Fits, CommitPlaces
<1>14. CASE MarkCommitting(d)
  <2>1. cur[d] \in Steps  BY <1>a, <1>14 DEF MarkCommitting, Fits, StepPlaces, CommitPlaces
  <2> QED BY <1>a, <1>14, <2>1 DEF MarkCommitting
<1>15. CASE CheckDiff(d)
  <2>1. /\ pc[d] = "DIFF" /\ cur' = cur /\ UNCHANGED <<step, startHead>>
        /\ UNCHANGED <<head, task, dirty, seenHead, seenStart>>
        /\ pc'[d] = IF ~dirty /\ seenHead[d] # seenStart[d] THEN "RECORD" ELSE "COMMIT"
    BY <1>a, <1>15 DEF CheckDiff
  <2>2. cur[d] \in Steps /\ Action[cur[d]] = "GIT_COMMIT" /\ step[cur[d]] = "RUNNING"
    BY <1>a, <2>1 DEF Fits, StepPlaces, CommitPlaces, OnChosen, ResumePlaces
  <2>3. head # startHead[cur[d]] => task = "ACTIVE"  BY <1>a, <2>2
  <2> QED BY <1>a, <2>1, <2>3
<1>16. CASE Commit(d)
  <2>1. /\ pc[d] = "COMMIT" /\ cur' = cur /\ UNCHANGED <<step, startHead>>
        /\ task' = task /\ UNCHANGED <<seenHead, seenStart>>
        /\ \/ dirty /\ pc'[d] = "RECORD"
           \/ ~dirty /\ head' = head /\ dirty' = dirty /\ pc'[d] = "ACT_FAIL"
    BY <1>a, <1>16 DEF Commit, ActFails
  <2>2. Action[cur[d]] = "GIT_COMMIT"
    BY <1>a, <2>1 DEF Fits, CommitPlaces
  <2>3. dirty => task = "ACTIVE"  BY <1>a
  <2> QED BY <1>a, <2>1, <2>2, <2>3
<1>17. CASE RecordCommit(d)
  BY <1>a, <1>17 DEF RecordCommit
<1>18. CASE FinishCheck(d) \/ FinishDiff(d) \/ FinishHead(d)
  <2>1. /\ pc[d] \in {"FINISH_CHECK", "FINISH_DIFF", "FINISH_HEAD"}
        /\ Action[cur[d]] = "TASK_FINISH"
    BY <1>a, <1>18 DEF FinishCheck, FinishDiff, FinishHead, Fits, FinishPlaces
  <2>2. UNCHANGED <<step, startHead, head, task>>
    BY <1>18 DEF FinishCheck, FinishDiff, FinishHead
  <2>3. /\ pc'[d] \in {"ACT_PASS", "FINISH_DIFF", "FINISH_HEAD", "FINISH", "ACT_FAIL"}
        /\ pc'[d] \in {"FINISH", "ACT_FAIL"} => task = "ACTIVE"
        /\ cur' = cur
    BY <1>a, <1>18 DEF FinishCheck, FinishDiff, FinishHead, ActFails
  <2> QED BY <2>1, <2>2, <2>3
<1>19. CASE FinishTask(d)
  <2>1. pc[d] = "FINISH" /\ Action[cur[d]] = "TASK_FINISH" /\ task = "ACTIVE"
    BY <1>a, <1>19 DEF FinishTask, Fits, FinishPlaces
  <2> QED BY <1>a, <1>19, <2>1 DEF FinishTask, ActFails
<1>20. CASE PassAction(d)  BY <1>a, <1>20 DEF PassAction
<1>21. CASE CancelPlan(d)
  <2>1. \A s \in Steps : step'[s] = step[s] \/ step'[s] = "CANCELLED"
    <3> DEFINE open == {s \in Steps : step[s] \in {"RUNNING", "WAITING"}}
    <3>1. open # {} => First(open) \in open  BY FirstType
    <3> QED BY <1>a, <1>21, <3>1 DEF CancelPlan
  <2>2. /\ Forget(d, "OFF") /\ UNCHANGED <<startHead, head, task>>
        /\ pc[d] = "CANCEL"
    BY <1>21 DEF CancelPlan, Stop
  <2> QED BY <1>a, <2>1, <2>2
<1>22. CASE BlockPlan(d)  BY <1>a, <1>22 DEF BlockPlan, Stop
<1>23. CASE CompletePlan(d)  BY <1>a, <1>23 DEF CompletePlan, Stop
<1>24. CASE ReachBarrier(d)  BY <1>a, <1>24 DEF ReachBarrier, Stop
<1>25. CASE FailPlan(d)  BY <1>a, <1>25 DEF FailPlan, Stop
<1>26. CASE AwaitApproval(d)  BY <1>a, <1>26 DEF AwaitApproval, Stop
<1>27. CASE FailStep(d)  BY <1>a, <1>27 DEF FailStep, Stop
<1>28. CASE FailAction(d)  BY <1>a, <1>28 DEF FailAction, Stop
<1> QED BY <1>1, <1>2, <1>3, <1>4, <1>5, <1>6, <1>7, <1>8, <1>9, <1>10,
           <1>11, <1>12, <1>13, <1>14, <1>15, <1>16, <1>17, <1>18, <1>19, <1>20,
           <1>21, <1>22, <1>23, <1>24, <1>25, <1>26, <1>27, <1>28 DEF DriverStep

LEMMA EffectInit == Init => EffectInv
  BY DEF Init, EffectInv, ActiveCommits, EffectsAreRecognised, Knows

LEMMA NoDriverKnows ==
  ASSUME NEW d \in Drivers, ~Driving(d)'
  PROVE  Knows(d)'
  BY DEF Knows, Driving

LEMMA DriverRecognises ==
  ASSUME "ERROR" \notin Disturbances, "EDIT" \notin Disturbances,
         TypeInv, LeaseInv, HaltInv, ChosenInv, VerifyInv, EffectInv,
         NEW d \in Drivers, DriverStep(d)
  PROVE  EffectInv'
<1>1. Knows(d)' /\ EffectWrites(d)  BY DriverEffects
<1>2. WorldWrites(d) /\ StepWrites(d)  BY DriverDelivers, DriverDetails
<1>3. \A e \in Drivers : e # d => Knows(e)'  BY OneDriver, NoDriverKnows
<1>4. /\ pc[d] \in StepPlaces => NoneFailed
      /\ Fits(pc[d], cur[d]) /\ Knows(d) /\ OnChosen(d)
      /\ dirty => task = "ACTIVE"
  BY DEF HaltInv, TypeInv, TypeOK, OnStep, EffectInv, ChosenInv, VerifyInv
<1>5. ASSUME NEW s \in Steps, step'[s] = "RUNNING", Action[s] = "GIT_COMMIT",
             head' # startHead'[s]
      PROVE  task' = "ACTIVE"
  <2>1. CASE task' # task
    <3>1. pc[d] = "FINISH"  BY <1>2, <2>1 DEF WorldWrites
    <3>2. step[s] = "RUNNING"  BY <1>2, <1>5, <3>1 DEF StepWrites
    <3>3. Chosen = cur[d] /\ step[cur[d]] = "PENDING" /\ cur[d] \in Steps
      BY <1>4, <3>1 DEF OnChosen, Fits, StepPlaces, FinishPlaces, BeginPlaces
    <3> QED BY <3>2, <3>3, NoneRuns
  <2>2. CASE task' = task /\ head' # head
    BY <1>2, <1>4, <2>2 DEF WorldWrites
  <2>3. CASE task' = task /\ head' = head /\ step[s] = "RUNNING"
    <3>1. CASE startHead'[s] = startHead[s]
      BY <1>5, <2>3, <3>1 DEF EffectInv, ActiveCommits
    <3>2. CASE startHead'[s] # startHead[s]
      <4>1. pc[d] = "MARK" /\ s = cur[d]  BY <1>1, <3>2 DEF EffectWrites
      <4> QED BY <1>4, <2>3, <4>1 DEF OnChosen, BeginPlaces
    <3> QED BY <3>1, <3>2
  <2>4. CASE task' = task /\ head' = head /\ step[s] # "RUNNING"
    <3>1. s = cur[d] /\ pc[d] \in {"STARTED", "MARK"}
      BY <1>2, <1>5, <2>4 DEF StepWrites
    <3>2. pc[d] = "MARK"
      BY <1>4, <1>5, <3>1 DEF Fits, CommandPlaces
    <3>3. startHead'[s] = seenHead[d] /\ seenHead[d] = head
      BY <1>1, <1>4, <3>1, <3>2 DEF EffectWrites, Knows
    <3> QED BY <1>5, <2>4, <3>3
  <2> QED BY <2>1, <2>2, <2>3, <2>4
<1>6. EffectsAreRecognised'
  <2> SUFFICES ASSUME NEW s \in Steps, step'[s] = "FAILED"
               PROVE  /\ Action[s] = "GIT_COMMIT" => head' = startHead'[s]
                      /\ Action[s] = "TASK_FINISH" => task' = "ACTIVE"
    BY DEF EffectsAreRecognised
  <2>1. CASE step[s] = "FAILED"
    <3>1. pc[d] \notin {"COMMIT", "FINISH", "MARK"}
      BY <1>4, <2>1 DEF NoneFailed, StepFailed, StepPlaces, CommitPlaces, FinishPlaces
    <3>2. head' = head /\ task' = task /\ startHead'[s] = startHead[s]
      BY <1>1, <1>2, <3>1 DEF WorldWrites, EffectWrites
    <3> QED BY <2>1, <3>2 DEF EffectInv, EffectsAreRecognised
  <2>2. CASE step[s] # "FAILED"
    <3>1. /\ s = cur[d] /\ pc[d] \in {"FAIL", "ACT_FAIL"}
          /\ UNCHANGED <<head, task, startHead>>
      BY <1>1, <2>2 DEF EffectWrites
    <3> QED BY <1>4, <3>1 DEF Fits, CommandPlaces, Knows
  <2> QED BY <2>1, <2>2
<1> QED BY <1>1, <1>3, <1>5, <1>6 DEF EffectInv, ActiveCommits

LEMMA EffectNext ==
  ASSUME "ERROR" \notin Disturbances, "EDIT" \notin Disturbances,
         TypeInv, AtWork, VerifyInv, EffectInv, [Next]_vars
  PROVE  EffectInv'
<1> USE DEF EffectInv, ActiveCommits, EffectsAreRecognised
<1>1. ASSUME NEW d \in Drivers, DriverStep(d)
      PROVE  EffectInv'
  BY <1>1, DriverRecognises DEF AtWork, Going
<1>2. ASSUME NEW d \in Drivers, Crash(d)
      PROVE  EffectInv'
  <2>1. UNCHANGED <<step, startHead, head, dirty, task>>
    BY <1>2, Crashes DEF planVars, stepVars, worldVars
  <2>2. ASSUME NEW e \in Drivers, e # d
        PROVE  Knows(e)'
    BY <1>2, <2>1, <2>2, Crashes DEF Knows
  <2>3. Knows(d)'  BY <1>2, Crashes, NoDriverKnows
  <2> QED BY <2>1, <2>2, <2>3
<1>3. CASE LeaseExpires \/ (\E k \in Keys : RunEnds(k)) \/ Edit \/ CallerStep
           \/ UNCHANGED vars
  <2>1. UNCHANGED <<pc, cur, seenHead, seenStart, startHead, task, head>>
    BY <1>3, OutsideFrame DEF localVars
  <2>2. dirty' = dirty
    BY <1>3 DEF LeaseExpires, RunEnds, Edit, CallerStep, CancelCheck, CancelFlag,
       CancelSignal, ContinueCheck, ContinueCommit, vars, worldVars
  <2>3. \A d \in Drivers : Knows(d)'  BY <2>1, <2>2 DEF Knows
  <2>4. \A s \in Steps : step'[s] \in {step[s], "PASSED", "PENDING"}
    <3>1. Timely  BY UnblockedIsTimely DEF AtWork, Going
    <3>2. ASSUME NEW c \in Callers, ContinueCommit(c)
          PROVE  \A s \in Steps : step'[s] \in {step[s], "PASSED", "PENDING"}
      BY <3>1, <3>2, Continues DEF AtWork, Going
    <3> QED BY <1>3, <3>2, OutsideFrame
  <2> QED BY <2>1, <2>3, <2>4
<1> QED BY <1>1, <1>2, <1>3 DEF Next

\* A cancelled Plan has no more effects, and fails no step.
LEMMA StoppedEffects ==
  ASSUME TypeInv, Stopped, EffectInv, [Next]_vars
  PROVE  EffectInv'
<1>1. /\ Stopped' /\ UNCHANGED <<startHead, task, head>>
      /\ \A s \in Steps : step'[s] \in {step[s], "CANCELLED", "PASSED", "PENDING"}
  BY StoppedNext
<1>2. \A d \in Drivers : Knows(d)'  BY <1>1 DEF Stopped, Knows
<1> QED BY <1>1, <1>2 DEF EffectInv, ActiveCommits, EffectsAreRecognised

\* As long as leases last, nobody edits the worktree and no call fails half-way, a
\* step of a commit or of a Task finish that took effect is never reported as
\* FAILED: a driver that takes over finds the commit of its predecessor, or the
\* COMPLETED Task, and passes the step.  Calls may overlap as they like.
THEOREM EffectsAreKept ==
  ASSUME "SLOW" \notin Disturbances, "ERROR" \notin Disturbances,
         "EDIT" \notin Disturbances
  PROVE  Spec => []EffectsAreRecognised
<1> DEFINE CourseInv == Succeeded /\ (Stopped \/ AtWork)
<1>1. EffectInv => EffectsAreRecognised  BY DEF EffectInv
<1>2. CourseInv => InCourse
  BY DEF InCourse, AtWork
<1>3. TypeInv /\ TypeInv' /\ OrderInv /\ CourseInv /\ VerifyInv /\ [Next]_vars
        => VerifyInv'
  BY <1>2, VerifyNext
<1>4. TypeInv /\ CourseInv /\ VerifyInv /\ EffectInv /\ [Next]_vars => EffectInv'
  BY EffectNext, StoppedEffects
<1>5. TypeInv /\ CourseInv /\ [Next]_vars => CourseInv'
  BY <1>2, InCourseNext, AtWorkNext, StoppedNext DEF InCourse
<1>6. Init => CourseInv
  BY InCourseInit, AtWorkInit DEF InCourse
<1> HIDE DEF CourseInv
<1> QED BY <1>1, <1>3, <1>4, <1>5, <1>6, TypeInvInit, TypeInvNext, OrderInit,
           OrderNext, VerifyInit, EffectInit, PTL DEF Spec

-----------------------------------------------------------------------------
(* One Run at a time                                                         *)

Active(k) == proc[k] \in RunActive
Quiet == \A k \in Keys : ~Active(k)

\* The Run that a driver that takes over resumes: the one of the RUNNING step, or
\* the one whose start was not recorded.
Resumed(k) ==
  /\ k[1] = Chosen /\ Action[k[1]] = "COMMAND"
  /\ k[2] = IF step[k[1]] = "RUNNING" THEN run[k[1]] ELSE attempts[k[1]] + 1

Polls(d) ==
  /\ pc[d] \in {"POLL", "STATUS"} => seenRun[d] = run[cur[d]]
  /\ pc[d] \in {"APPROVAL", "PASS", "RETRY", "FAIL", "FAIL_EVIDENCE", "FAIL_NOTE"}
       => Quiet
  /\ pc[d] = "CANCEL" => cancelled

\* Once a Plan is cancelled, no step begins: only its last Run may go on.
Stopping == cancelled /\ \A d \in Drivers : pc[d] \notin StepPlaces

OneActive == \A j, k \in Keys : Active(j) /\ Active(k) => j = k

RunInv ==
  /\ \A d \in Drivers : Polls(d)
  /\ status \in Awaiting /\ blocker.step # 0 => Quiet
  /\ OneActive
  /\ Stopping \/ \A k \in Keys : Active(k) => Resumed(k)

LEMMA RunInit == Init => RunInv
  BY DEF Init, RunInv, Polls, Quiet, OneActive, Active, RunActive, Stopping

\* Steps that begin no Run and leave the steps alone.
Calm ==
  /\ UNCHANGED <<step, run, attempts>>
  /\ \A k \in Keys : Active(k)' => Active(k)

LEMMA CalmKeeps ==
  ASSUME Calm
  PROVE  /\ OneActive => OneActive'
         /\ Quiet => Quiet'
         /\ \A k \in Keys : Resumed(k) => Resumed(k)'
<1>1. step' = step /\ run' = run /\ attempts' = attempts /\ Chosen' = Chosen
  BY ChosenKept DEF Calm
<1> QED BY <1>1 DEF Calm, OneActive, Quiet, Resumed

LEMMA ResumedKept ==
  ASSUME UNCHANGED <<step, run, attempts>>
  PROVE  \A k \in Keys : Resumed(k) => Resumed(k)'
  BY ChosenKept DEF Resumed

\* A driver that is about to write a step's result, or a step that needs no Run,
\* finds none active.
LEMMA QuietHere ==
  ASSUME TypeInv, ChosenInv, RunInv, NEW d \in Drivers,
         pc[d] \in {"APPROVAL", "PASS", "RETRY", "FAIL", "FAIL_EVIDENCE",
                    "FAIL_NOTE", "WAIT", "MARK", "ACT_PASS", "ACT_FAIL"}
  PROVE  Quiet
<1>1. CASE pc[d] \in {"APPROVAL", "PASS", "RETRY", "FAIL", "FAIL_EVIDENCE",
                      "FAIL_NOTE"}
  BY <1>1 DEF RunInv, Polls
<1>2. CASE pc[d] \in {"WAIT", "MARK", "ACT_PASS", "ACT_FAIL"}
  <2>1. cur[d] = Chosen /\ Action[Chosen] # "COMMAND" /\ pc[d] \in StepPlaces
    BY <1>2 DEF ChosenInv, OnChosen, TypeInv, OnStep, Fits, StepPlaces,
                CommitPlaces
  <2>2. \A k \in Keys : Active(k) => Resumed(k)
    BY <2>1 DEF RunInv, Stopping
  <2> QED BY <2>1, <2>2 DEF Quiet, Resumed
<1> QED BY <1>1, <1>2

\* What else a step of driver d does: begin a Run, record it, or write steps
\* when none is active.
RunMoves(d) ==
  \/ Calm
  \/ Quiet /\ Quiet'
  \/ StartRun(d) /\ pc'[d] = "STARTED"
  \/ RecordRun(d)
  \/ CancelPlan(d)

LEMMA DriverRunMoves ==
  ASSUME TypeInv, ChosenInv, RunInv, NEW d \in Drivers, DriverStep(d),
         "TIMEOUT" \notin Disturbances
  PROVE  RunMoves(d)
<1>a. proc' = proc /\ Quiet => Quiet'
  BY DEF Quiet, Active
<1>1. CASE proc' = proc /\ UNCHANGED <<step, run, attempts>>
  BY <1>1 DEF RunMoves, Calm, Active
<1>2. CASE Claim(d) \/ Renew(d) \/ Select(d) \/ CatchError(d) \/ Poll(d)
           \/ ReadSubject(d) \/ RecordEvidence(d) \/ ReadHead(d) \/ CheckDiff(d)
           \/ Commit(d) \/ RecordCommit(d) \/ FinishCheck(d) \/ FinishDiff(d)
           \/ FinishHead(d) \/ FinishTask(d)
  BY <1>1, <1>2 DEF Claim, Renew, Select, CatchError, Poll, ReadSubject,
       RecordEvidence, ReadHead, CheckDiff, Commit, RecordCommit, FinishCheck,
       FinishDiff, FinishHead, FinishTask, planVars, stepVars, worldVars
<1>3. CASE BlockPlan(d) \/ CompletePlan(d) \/ FailPlan(d) \/ AwaitApproval(d)
  BY <1>1, <1>3 DEF BlockPlan, CompletePlan, FailPlan, AwaitApproval, Stop, worldVars
<1>4. CASE ReachBarrier(d) \/ PassStep(d) \/ RetryStep(d) \/ FailStep(d)
           \/ MarkCommitting(d) \/ PassAction(d) \/ FailAction(d)
  <2>1. /\ pc[d] \in {"WAIT", "PASS", "RETRY", "FAIL", "MARK", "ACT_PASS", "ACT_FAIL"}
        /\ proc' = proc
    BY <1>4 DEF ReachBarrier, PassStep, RetryStep, FailStep, MarkCommitting,
                PassAction, FailAction, Stop, worldVars
  <2> QED BY <1>a, <2>1, QuietHere DEF RunMoves
<1>5. CASE StartRun(d) \/ RecordRun(d) \/ CancelPlan(d)
  BY <1>1, <1>5 DEF StartRun, RunMoves, planVars, stepVars, Goto, TypeInv, TypeOK
<1>6. CASE ReadStatus(d)
  BY <1>1, <1>6 DEF ReadStatus, planVars, stepVars
<1> QED BY <1>2, <1>3, <1>4, <1>5, <1>6 DEF DriverStep

\* A driver that starts a Run, or records it, finds at most the one of its own key.
LEMMA StartFinds ==
  ASSUME TypeInv, AtWork, RunInv, NEW d \in Drivers,
         pc[d] \in {"START", "STARTED"}
  PROVE  /\ \A k \in Keys : Active(k) => k = Key(d)
         /\ Resumed(Key(d))
<1>1. /\ cur[d] = Chosen /\ Action[cur[d]] = "COMMAND"
      /\ step[cur[d]] = "PENDING" /\ tried[d] = attempts[cur[d]]
  BY DEF ChosenInv, OnChosen, TypeInv, OnStep, Fits, StepPlaces, CommandPlaces,
         BeginPlaces, AtWork, Counts
<1>2. \A k \in Keys : Active(k) => Resumed(k)
  BY DEF RunInv, Stopping, StepPlaces, CommandPlaces
<1>3. \A k \in Keys : k = <<k[1], k[2]>>  BY DEF Keys
<1> QED BY <1>1, <1>2, <1>3 DEF Resumed, Key

\* A driver that polls asks for the only Run that may be active.
LEMMA PollFinds ==
  ASSUME TypeInv, ChosenInv, RunInv, NEW d \in Drivers, pc[d] = "STATUS"
  PROVE  \A k \in Keys : Active(k) => k = <<cur[d], seenRun[d]>>
<1>1. /\ cur[d] = Chosen /\ step[cur[d]] = "RUNNING" /\ seenRun[d] = run[cur[d]]
  BY DEF ChosenInv, OnChosen, StepPlaces, CommandPlaces, ResumePlaces, RunInv, Polls
<1>2. \A k \in Keys : Active(k) => Resumed(k)
  BY DEF RunInv, Stopping, StepPlaces, CommandPlaces
<1>3. \A k \in Keys : k = <<k[1], k[2]>>  BY DEF Keys
<1> QED BY <1>1, <1>2, <1>3 DEF Resumed

LEMMA DriverPolls ==
  ASSUME TypeInv, AtWork, RunInv, NEW d \in Drivers, DriverStep(d),
         "TIMEOUT" \notin Disturbances
  PROVE  Polls(d)'
<1>a. /\ pc \in [Drivers -> Places]
      /\ cur \in [Drivers -> Steps \union {0}]
      /\ tried \in [Drivers -> Attempts] /\ seenRun \in [Drivers -> Attempts]
      /\ run \in [Steps -> Attempts]
      /\ Fits(pc[d], cur[d]) /\ Polls(d)
  BY DEF TypeInv, TypeOK, OnStep, RunInv
<1>b. proc' = proc /\ Quiet => Quiet'
  BY DEF Quiet, Active
<1> USE DEF Goto, Forget, Leave, Polls, planVars, stepVars, worldVars, localVars
<1>1. CASE Claim(d)  BY <1>a, <1>1 DEF Claim
<1>2. CASE Renew(d)  BY <1>a, <1>2 DEF Renew
<1>3. CASE Poll(d)  BY <1>a, <1>3 DEF Poll
<1>4. CASE Select(d)
  <2>1. UNCHANGED <<run, proc, cancelled>>  BY <1>4 DEF Select
  <2>2. CASE ~cancelled /\ Chosen # 0
    <3>1. Chosen \in Steps  BY <2>2, ChosenType DEF TypeInv
    <3>2. Place(Chosen) \in {"RESUME", "ACT", "FINISH_CHECK", "WAIT", "POLL", "START"}
      BY <3>1, PlanAssumption DEF Place, ValidPlan, Actions
    <3>3. /\ pc'[d] = Place(Chosen) /\ cur'[d] = Chosen
          /\ seenRun'[d] = run[Chosen]
      BY <1>a, <1>4, <2>2 DEF Select
    <3> QED BY <2>1, <3>2, <3>3
  <2>3. CASE cancelled \/ Chosen = 0
    <3>1. pc'[d] \in {"BLOCK", "COMPLETE"} \/ (pc'[d] = "CANCEL" /\ cancelled)
      BY <1>a, <1>4, <2>3 DEF Select
    <3> QED BY <2>1, <3>1
  <2> QED BY <2>2, <2>3
<1>5. CASE CatchError(d)  BY <1>a, <1>5 DEF CatchError
<1>6. CASE StartRun(d)
  <2>1. pc[d] = "START" /\ pc'[d] \in {"STARTED", "APPROVAL", "ERROR"}
    BY <1>a, <1>6 DEF StartRun
  <2>2. ASSUME pc'[d] = "APPROVAL"
        PROVE  Quiet'
    <3>1. proc' = proc /\ proc[Key(d)] = "NONE"
      BY <1>a, <1>6, <2>2 DEF StartRun
    <3>2. \A k \in Keys : Active(k) => k = Key(d)  BY <2>1, StartFinds
    <3> QED BY <3>1, <3>2 DEF Quiet, Active, RunActive
  <2> QED BY <2>1, <2>2
<1>7. CASE RecordRun(d)
  <2>1. cur[d] \in Steps  BY <1>a, <1>7 DEF RecordRun, Fits, StepPlaces, CommandPlaces
  <2> QED BY <1>a, <1>7, <2>1 DEF RecordRun
<1>8. CASE ReadStatus(d)
  <2>1. /\ pc[d] = "STATUS" /\ cur' = cur /\ seenRun' = seenRun /\ run' = run
        /\ proc' = proc
    BY <1>8 DEF ReadStatus, planVars, stepVars
  <2>2. CASE pc'[d] \in {"POLL", "ERROR"}  BY <1>a, <2>1, <2>2
  <2>3. CASE proc[<<cur[d], seenRun[d]>>] \in RunTerminal
    <3>1. \A k \in Keys : ~Active(k)
      BY <2>1, <2>3, PollFinds DEF AtWork, Active, RunActive, RunTerminal
    <3>2. Quiet'  BY <2>1, <3>1 DEF Quiet, Active
    <3>3. pc'[d] \notin {"STATUS", "CANCEL", "POLL"} \/ pc'[d] = "POLL"
      BY <1>a, <1>8 DEF ReadStatus, Verdict
    <3> QED BY <1>a, <2>1, <3>2, <3>3
  <2> QED BY <1>a, <1>8, <2>2, <2>3 DEF ReadStatus
<1>9. CASE PassStep(d)  BY <1>a, <1>9 DEF PassStep
<1>10. CASE ReadSubject(d)
  BY <1>a, <1>b, <1>10 DEF ReadSubject
<1>11. CASE RecordEvidence(d)
  BY <1>a, <1>b, <1>11 DEF RecordEvidence
<1>12. CASE RetryStep(d)  BY <1>a, <1>12 DEF RetryStep
<1>13. CASE ReadHead(d)  BY <1>a, <1>13 DEF ReadHead, ActFails
<1>14. CASE MarkCommitting(d)  BY <1>a, <1>14 DEF MarkCommitting
<1>15. CASE CheckDiff(d)  BY <1>a, <1>15 DEF CheckDiff, ActFails
<1>16. CASE Commit(d)  BY <1>a, <1>16 DEF Commit, ActFails
<1>17. CASE RecordCommit(d)  BY <1>a, <1>17 DEF RecordCommit
<1>18. CASE FinishCheck(d) \/ FinishDiff(d) \/ FinishHead(d)
  BY <1>a, <1>18 DEF FinishCheck, FinishDiff, FinishHead, ActFails
<1>19. CASE FinishTask(d)  BY <1>a, <1>19 DEF FinishTask, ActFails
<1>20. CASE PassAction(d)  BY <1>a, <1>20 DEF PassAction
<1>21. CASE CancelPlan(d)  BY <1>a, <1>21 DEF CancelPlan, Stop
<1>22. CASE BlockPlan(d)  BY <1>a, <1>22 DEF BlockPlan, Stop
<1>23. CASE CompletePlan(d)  BY <1>a, <1>23 DEF CompletePlan, Stop
<1>24. CASE ReachBarrier(d)  BY <1>a, <1>24 DEF ReachBarrier, Stop
<1>25. CASE FailPlan(d)  BY <1>a, <1>25 DEF FailPlan, Stop
<1>26. CASE AwaitApproval(d)  BY <1>a, <1>26 DEF AwaitApproval, Stop
<1>27. CASE FailStep(d)  BY <1>a, <1>27 DEF FailStep, Stop
<1>28. CASE FailAction(d)  BY <1>a, <1>28 DEF FailAction, Stop
<1> QED BY <1>1, <1>2, <1>3, <1>4, <1>5, <1>6, <1>7, <1>8, <1>9, <1>10,
           <1>11, <1>12, <1>13, <1>14, <1>15, <1>16, <1>17, <1>18, <1>19, <1>20,
           <1>21, <1>22, <1>23, <1>24, <1>25, <1>26, <1>27, <1>28 DEF DriverStep

LEMMA DriverRuns ==
  ASSUME TypeInv, AtWork, ChosenInv', RunInv,
         NEW d \in Drivers, DriverStep(d), "TIMEOUT" \notin Disturbances
  PROVE  RunInv'
<1> USE DEF AtWork, Going
<1>1. Polls(d)'  BY DriverPolls
<1>2. RunMoves(d) /\ HaltWrites(d)  BY DriverRunMoves, DriverHalts
<1>3. \A e \in Drivers : e # d => pc'[e] \notin StepPlaces /\ Polls(e)'
  BY OneDriver DEF Driving, StepPlaces, CommandPlaces, CommitPlaces,
                   FinishPlaces, Polls
<1>4. Stopping => Stopping'
  BY <1>2, <1>3 DEF Stopping, HaltWrites
<1>5. ASSUME status' \in Awaiting, blocker'.step # 0
      PROVE  Quiet'
  <2>1. Ends(d)
    <3>1. ~GoesOn  BY <1>5, OneDriver DEF GoesOn, Awaiting
    <3> QED BY <1>2, <3>1 DEF HaltWrites
  <2>2. pc[d] \in {"FAIL", "ACT_FAIL", "WAIT", "APPROVAL"}
    BY <1>5, <2>1 DEF Ends, Awaiting
  <2>3. Quiet  BY <2>2, QuietHere
  <2> QED BY <1>2, <2>2, <2>3, CalmKeeps
          DEF RunMoves, StartRun, RecordRun, CancelPlan, Stop
<1>6. OneActive' /\ (Stopping' \/ \A k \in Keys : Active(k)' => Resumed(k)')
  <2>1. CASE Calm
    BY <1>4, <2>1, CalmKeeps DEF RunInv, Calm
  <2>2. CASE Quiet'
    BY <2>2 DEF Quiet, OneActive
  <2>3. CASE StartRun(d) /\ pc'[d] = "STARTED"
    <3>1. pc[d] = "START" /\ UNCHANGED <<step, run, attempts>>
      BY <2>3 DEF StartRun, planVars, stepVars
    <3>2. /\ \A k \in Keys : Active(k) => k = Key(d)
          /\ Resumed(Key(d))
      BY <3>1, StartFinds
    <3>3. \A k \in Keys : Active(k)' => k = Key(d)
      BY <2>3, <3>2 DEF StartRun, Active, RunActive, TypeInv, TypeOK
    <3>4. \A k \in Keys : Resumed(k) => Resumed(k)'
      BY <3>1, ResumedKept
    <3>5. \A k \in Keys : Active(k)' => Resumed(k)'
      <4> SUFFICES ASSUME NEW k \in Keys, Active(k)'
                   PROVE  Resumed(k)'
        OBVIOUS
      <4>1. k = Key(d)  BY <3>3
      <4>2. Resumed(k)  BY <3>2, <4>1
      <4> QED BY <3>4, <4>2
    <3> QED BY <3>3, <3>5 DEF OneActive
  <2>4. CASE RecordRun(d)
    <3>1. /\ pc[d] = "STARTED" /\ cur[d] \in Steps /\ Action[cur[d]] = "COMMAND"
          /\ proc' = proc
          /\ step' = [step EXCEPT ![cur[d]] = "RUNNING"]
          /\ run' = [run EXCEPT ![cur[d]] = tried[d] + 1]
      BY <2>4 DEF RecordRun, TypeInv, OnStep, Fits, StepPlaces, CommandPlaces,
                  worldVars
    <3>2. step'[cur[d]] = "RUNNING" /\ run'[cur[d]] = tried[d] + 1
      BY <3>1 DEF TypeInv, TypeOK
    <3>3. Chosen' = cur[d]
      BY <3>1, <3>2, ChosenRunsNext DEF ChosenInv
    <3>4. \A k \in Keys : Active(k) => k = Key(d)  BY <3>1, StartFinds
    <3>5. ASSUME NEW k \in Keys, Active(k)'
          PROVE  Resumed(k)'
      <4>1. k = <<cur[d], tried[d] + 1>>
        BY <3>1, <3>4, <3>5 DEF Active, Key
      <4> QED BY <3>1, <3>2, <3>3, <4>1 DEF Resumed
    <3> QED BY <3>1, <3>5 DEF RunInv, OneActive, Active
  <2>5. CASE CancelPlan(d)
    <3>1. cancelled /\ cancelled' = cancelled /\ proc' = proc
      BY <2>5 DEF CancelPlan, Stop, RunInv, Polls, worldVars
    <3>2. pc'[d] \notin StepPlaces
      BY <2>5 DEF CancelPlan, Stop, Leave, Forget, Goto, TypeInv, TypeOK,
           StepPlaces, CommandPlaces, CommitPlaces, FinishPlaces
    <3> QED BY <1>3, <3>1, <3>2 DEF Stopping, RunInv, OneActive, Active
  <2> QED BY <1>2, <2>1, <2>2, <2>3, <2>4, <2>5 DEF RunMoves
<1>7. \A e \in Drivers : Polls(e)'  BY <1>1, <1>3
<1> QED BY <1>5, <1>6, <1>7 DEF RunInv

LEMMA RunNext ==
  ASSUME "TIMEOUT" \notin Disturbances,
         TypeInv, AtWork, ChosenInv', RunInv, [Next]_vars
  PROVE  RunInv'
<1>1. ASSUME NEW d \in Drivers, DriverStep(d)
      PROVE  RunInv'
  BY <1>1, DriverRuns
<1>2. ASSUME NEW d \in Drivers, Crash(d)
      PROVE  RunInv'
  <2>1. UNCHANGED <<status, blocker, cancelled, step, run, attempts, proc>>
    BY <1>2, Crashes DEF planVars, stepVars, worldVars
  <2>2. Calm  BY <2>1 DEF Calm, Active
  <2>3. pc'[d] \notin StepPlaces /\ Polls(d)'
    <3>1. ~Driving(d)'  BY <1>2, Crashes
    <3> QED BY <3>1 DEF Driving, Polls, StepPlaces, CommandPlaces, CommitPlaces,
                        FinishPlaces
  <2>4. ASSUME NEW e \in Drivers, e # d
        PROVE  (pc'[e] \in StepPlaces => pc[e] \in StepPlaces) /\ Polls(e)'
    <3>1. pc'[e] = pc[e] /\ cur'[e] = cur[e] /\ seenRun'[e] = seenRun[e]
      BY <1>2, <2>4, Crashes
    <3> QED BY <2>1, <2>2, <3>1, CalmKeeps DEF RunInv, Polls
  <2>5. Stopping => Stopping'  BY <2>1, <2>3, <2>4 DEF Stopping
  <2> QED BY <2>1, <2>2, <2>3, <2>4, <2>5, CalmKeeps DEF RunInv, Calm
<1>3. CASE /\ \/ LeaseExpires \/ (\E k \in Keys : RunEnds(k)) \/ Edit \/ CallerStep
              \/ UNCHANGED vars
           /\ ~\E c \in Callers : ContinueCommit(c)
  <2>1. UNCHANGED <<pc, cur, seenRun, step, run, attempts>>
    BY <1>3, OutsideFrame DEF localVars
  <2>2. \A k \in Keys : Active(k)' => Active(k)
    BY <1>3 DEF LeaseExpires, RunEnds, Edit, CallerStep, CancelCheck, CancelFlag,
       CancelSignal, ContinueCheck, vars, worldVars, Active, RunActive, TypeInv,
       TypeOK
  <2>3. /\ cancelled => cancelled'
        /\ blocker' = blocker /\ status' \in {status, "RUNNING"}
    <3>1. CASE \E c \in Callers : CancelFlag(c)
      <4>1. cancelled' /\ status' = "RUNNING" /\ blocker' = blocker
        BY <3>1 DEF CancelFlag
      <4> QED BY <4>1
    <3>2. CASE ~\E c \in Callers : CancelFlag(c)
      <4>1. UNCHANGED <<cancelled, status, blocker>>
        BY <1>3, <3>2, OutsidePlan DEF CallerStep
      <4> QED BY <4>1
    <3> QED BY <3>1, <3>2
  <2>4. Calm  BY <2>1, <2>2 DEF Calm
  <2>5. \A d \in Drivers : Polls(d)'
    BY <2>1, <2>3, <2>4, CalmKeeps DEF RunInv, Polls
  <2>6. Stopping => Stopping'  BY <2>1, <2>3 DEF Stopping
  <2> QED BY <2>2, <2>3, <2>4, <2>5, <2>6, CalmKeeps DEF RunInv, Awaiting
<1>4. ASSUME NEW c \in Callers, ContinueCommit(c)
      PROVE  RunInv'
  <2>1. Timely /\ LeaseInv /\ HaltInv  BY UnblockedIsTimely DEF AtWork, Going
  <2>2. CASE UNCHANGED <<status, blocker, step>>
    <3>1. UNCHANGED <<cancelled, proc, pc>>  BY <1>4, <2>1, Continues
    <3>2. UNCHANGED <<cur, seenRun, run, attempts>>
      BY <1>4 DEF ContinueCommit, planVars, stepVars, localVars
    <3>3. Calm  BY <2>2, <3>1, <3>2 DEF Calm, Active
    <3>4. \A d \in Drivers : Polls(d)'
      BY <3>1, <3>2, <3>3, CalmKeeps DEF RunInv, Polls
    <3>5. Stopping => Stopping'  BY <3>1 DEF Stopping
    <3> QED BY <2>2, <3>3, <3>4, <3>5, CalmKeeps DEF RunInv, Calm
  <2>3. CASE ~UNCHANGED <<status, blocker, step>>
    <3>1. /\ status \in Awaiting /\ blocker.step \in Steps /\ proc' = proc
          /\ \A d \in Drivers : ~Driving(d)'
      BY <1>4, <2>1, <2>3, Continues
    <3>2. blocker.step # 0  BY <3>1, PlanAssumption
    <3>3. Quiet'  BY <3>1, <3>2 DEF RunInv, Quiet, Active
    <3>4. \A d \in Drivers : Polls(d)'  BY <3>1 DEF Driving, Polls
    <3> QED BY <3>3, <3>4 DEF RunInv, OneActive, Quiet
  <2> QED BY <2>2, <2>3
<1> QED BY <1>1, <1>2, <1>3, <1>4 DEF Next

\* As long as leases last and no Run is given up for its timeout, a Plan has at most
\* one active Run, through takeovers between a start and its record, cancels,
\* approvals and throws.
THEOREM RunsTakeTurns ==
  ASSUME "SLOW" \notin Disturbances, "TIMEOUT" \notin Disturbances
  PROVE  Spec => []OneRunAtATime
<1>1. OneActive => OneRunAtATime
  <2> SUFFICES ASSUME OneActive
               PROVE  Cardinality({k \in Keys : proc[k] \in RunActive}) <= 1
    BY DEF OneRunAtATime
  <2> DEFINE active == {k \in Keys : proc[k] \in RunActive}
  <2>1. CASE active = {}
    BY <2>1, FS_EmptySet
  <2>2. CASE active # {}
    <3>1. PICK k \in active : TRUE  BY <2>2
    <3>2. active = {k}  BY <3>1 DEF OneActive, Active
    <3>3. Cardinality({k}) = 1  BY FS_Singleton
    <3> QED BY <3>2, <3>3
  <2> QED BY <2>1, <2>2
<1> DEFINE CourseInv == (Stopped /\ OneActive) \/ (AtWork /\ RunInv)
<1>2. CourseInv => OneRunAtATime
  BY <1>1 DEF RunInv
<1>3. TypeInv /\ CourseInv /\ [Next]_vars => CourseInv'
  <2> SUFFICES ASSUME TypeInv, CourseInv, [Next]_vars
               PROVE  CourseInv'
    OBVIOUS
  <2>1. CASE Stopped /\ OneActive
    <3>1. Stopped' /\ \A k \in Keys : Active(k)' => Active(k)
      BY <2>1, StoppedNext DEF Active
    <3> QED BY <2>1, <3>1 DEF OneActive
  <2>2. CASE AtWork /\ RunInv
    <3>1. ChosenInv'  BY <2>2, ChosenNext DEF AtWork
    <3>2. RunInv'  BY <2>2, <3>1, RunNext
    <3> QED BY <2>2, <3>2, AtWorkNext DEF RunInv
  <2> QED BY <2>1, <2>2
<1>4. Init => CourseInv  BY AtWorkInit, RunInit
<1> HIDE DEF CourseInv
<1> QED BY <1>2, <1>3, <1>4, TypeInvInit, TypeInvNext, PTL DEF Spec

-----------------------------------------------------------------------------
(* The two properties of the runs that mix behaviours on time with late ones *)

\* What holds of a behaviour on time whose calls do not overlap.
OnTimeInv == late \/ (TypeInv /\ LeaseInv /\ OneCaller /\ HaltInv /\ PolicyInv)

LEMMA OnTimeInit == PlanInit => OnTimeInv
  BY TypeInvInit, LeaseInit, HaltInit, PolicyInit DEF PlanInit, OnTimeInv

\* A late behaviour stays late; one on time takes the steps of PlanRunner.
LEMMA OnTimeMoves ==
  ASSUME [PlanNext]_planRunVars
  PROVE  late' = late /\ (late \/ [Next]_vars)
  BY DEF PlanNext, OnTimeNext, LateNext, planRunVars

LEMMA OnTimeStays ==
  ASSUME "SLOW" \notin Disturbances, "OVERLAP" \notin Disturbances,
         OnTimeInv, [PlanNext]_planRunVars
  PROVE  OnTimeInv'
<1>1. CASE late
  BY <1>1, OnTimeMoves DEF OnTimeInv
<1>2. CASE ~late
  <2>1. /\ [Next]_vars /\ TypeInv /\ LeaseInv /\ OneCaller /\ HaltInv /\ PolicyInv
        /\ Timely
    BY <1>2, OnTimeMoves, CallerIsTimely DEF OnTimeInv
  <2> QED BY <2>1, TypeInvNext, LeaseNext, OneCallerNext, HaltNext, PolicyNext
          DEF OnTimeInv
<1> QED BY <1>1, <1>2

\* No step has more Runs than its max_attempts, unless leases run out under drivers
\* that go on, or calls of plan.cancel and plan.continue overlap.
THEOREM PolicyIsKept ==
  ASSUME "SLOW" \notin Disturbances, "OVERLAP" \notin Disturbances
  PROVE  PlanSpec => []PolicyKept
<1>1. OnTimeInv => PolicyKept
  BY PolicyBounds DEF OnTimeInv, PolicyKept
<1>2. OnTimeInv /\ [PlanNext]_planRunVars => OnTimeInv'
  BY OnTimeStays
<1> QED BY <1>1, <1>2, OnTimeInit, PTL DEF PlanSpec

\* A failed step stays failed, and no Run starts beside it, unless leases run out
\* under drivers that go on, or calls of plan.cancel and plan.continue overlap.
THEOREM FailuresStayFinal ==
  ASSUME "SLOW" \notin Disturbances, "OVERLAP" \notin Disturbances
  PROVE  PlanSpec => FailureIsFinal
<1>1. OnTimeInv /\ [PlanNext]_planRunVars
        => [late \/ (StopsAtFailure /\ FailuresStay)]_planRunVars
  <2> SUFFICES ASSUME OnTimeInv, PlanNext, ~late
               PROVE  StopsAtFailure /\ FailuresStay
    OBVIOUS
  <2>1. TypeInv /\ LeaseInv /\ OneCaller /\ HaltInv /\ Next
    BY DEF OnTimeInv, PlanNext, OnTimeNext, LateNext
  <2>2. [StopsAtFailure]_vars /\ [FailuresStay]_vars
    BY <2>1, HaltStops, HaltKeeps
  <2>3. CASE UNCHANGED vars
    <3>1. proc' = proc /\ step' = step
      BY <2>3 DEF vars, worldVars, planVars, stepVars
    <3> QED BY <3>1 DEF StopsAtFailure, FailuresStay
  <2> QED BY <2>2, <2>3
<1>2. OnTimeInv /\ [PlanNext]_planRunVars => OnTimeInv'
  BY OnTimeStays
<1> QED BY <1>1, <1>2, OnTimeInit, PTL DEF PlanSpec, FailureIsFinal
=============================================================================
