-------------------------- MODULE TaskAdviceProofs --------------------------
(* Proofs about TaskAdvice: however the facts change between what task.resume *)
(* reads and what the assistant does, a Task has no more Runs and commits     *)
(* than others have caused.                                                   *)
EXTENDS TaskAdvice, TLAPS

-----------------------------------------------------------------------------
(* The argument is an account.  A trouble pays for one Run, for one commit, or *)
(* for what may still become one of them: a reservation, an edit, a Run to     *)
(* repeat.  What the assistant does only passes the payment on: an interrupted *)
(* Run is repeated for the same trouble that interrupted it, and only once.    *)

One(b) == IF b THEN 1 ELSE 0

Reserved == starting \in {"OWNED", "LOST"}

\* The assistant has been told to repeat a Run, or is about to be told.
ToldToRepeat ==
  \/ at = "ACT" /\ advice.blocker = "RUN"
  \/ at \in {"DIFF", "DERIVE"} /\ runs.last = "INTERRUPTED" /\ ~seen.start

\* A Run that was lost: nobody has noticed it yet, ...
Unnoticed == runs.lost > 0 \/ starting = "LOST"

\* ... or it was noticed, and nobody is starting another.
NotRepeated ==
  /\ runs.last = "INTERRUPTED"
  /\ starting # "OWNED" \/ (at \in {"RUNS", "ACTIVE"} /\ ~seen.start)

ToRepeat == Unnoticed \/ (NotRepeated /\ ~ToldToRepeat)

RunsArePaid ==
  runs.total + One(Reserved) + One(ToldToRepeat) + One(ToRepeat)
    + head + One(dirty) <= troubles

RunsAreCounted == runs.running + runs.lost <= runs.total

AdviceInv == AdviceTypeOK /\ RunsArePaid /\ RunsAreCounted

-----------------------------------------------------------------------------
\* What the account adds up.
NumbersOK ==
  /\ runs \in [total : Nat, running : Nat, lost : Nat, last : RunStates]
  /\ head \in Nat

LEMMA AdviceNumbers == AdviceTypeOK => NumbersOK /\ troubles \in Nat
BY AdviceAssumption DEF AdviceTypeOK, NumbersOK, Runs, Heads

\* The runtime that has the Runs ends.
LosesRuns ==
  runs' = [runs EXCEPT !.running = 0, !.lost = @ + runs.running,
                       !.last = IF @ = "RUNNING" THEN "LOST" ELSE @]

LEMMA ChangesOfNumbers ==
  [AdviceNext]_adviceVars =>
    /\ \/ runs' = runs \/ FindRuns \/ StartRegisters \/ RunEnds \/ LosesRuns
    /\ head' \in {head, head + 1}
    /\ troubles \in 0..MaxTroubles => troubles' \in 0..MaxTroubles
<1> SUFFICES ASSUME [AdviceNext]_adviceVars
             PROVE  /\ \/ runs' = runs \/ FindRuns \/ StartRegisters
                       \/ RunEnds \/ LosesRuns
                    /\ head' \in {head, head + 1}
                    /\ troubles \in 0..MaxTroubles
                         => troubles' \in 0..MaxTroubles
  OBVIOUS
<1> USE DEF factVars, assistantVars, Goes, Refused
<1>1. CASE UNCHANGED adviceVars
  BY <1>1 DEF adviceVars
<1>2. CASE ReadTask \/ ReadDiff \/ Derive
  BY <1>2 DEF ReadTask, ReadDiff, Derive
<1>3. CASE ComesBack \/ Responds \/ AnswersPlan \/ RunsAgain \/ ReadsHead
  BY <1>3 DEF ComesBack, Responds, AnswersPlan, RunsAgain, ReadsHead
<1>4. CASE RecordsEvidence \/ Commits
  BY <1>4, AdviceAssumption DEF RecordsEvidence, Commits
<1>5. CASE ReadSummaries \/ ReadRuns \/ FinishBegin
  BY <1>5 DEF ReadSummaries, ReadRuns, FinishBegin
<1>6. CASE FinishPlan \/ FinishDiff \/ FinishHead \/ Finish
  BY <1>6 DEF FinishPlan, FinishDiff, FinishHead, Finish
<1>7. CASE StartRegisters \/ RunEnds
  BY <1>7 DEF StartRegisters, RunEnds
<1>8. CASE PlanEnds \/ PlanWorks
  BY <1>8 DEF PlanEnds, PlanWorks
<1>9. CASE Trouble
  BY <1>9, AdviceAssumption DEF Trouble, LosesRuns
<1>10. QED
  BY <1>1, <1>2, <1>3, <1>4, <1>5, <1>6, <1>7, <1>8, <1>9
     DEF AdviceNext, Assistant

LEMMA NumbersStep ==
  NumbersOK /\ RunsAreCounted /\ [AdviceNext]_adviceVars
    => NumbersOK' /\ RunsAreCounted'
<1> SUFFICES ASSUME NumbersOK, RunsAreCounted, [AdviceNext]_adviceVars
             PROVE  NumbersOK' /\ RunsAreCounted'
  OBVIOUS
<1> USE DEF NumbersOK, RunStates
<1>1. /\ runs.total + 1 \in Nat /\ runs.running + 1 \in Nat
      /\ runs.lost + runs.running \in Nat /\ head + 1 \in Nat
  OBVIOUS
<1>2. head' \in Nat
  BY <1>1, ChangesOfNumbers
<1>3. CASE runs' = runs
  BY <1>2, <1>3 DEF RunsAreCounted
<1>4. CASE FindRuns
  <2>1. /\ runs'.running = runs.running /\ runs'.lost = 0
        /\ runs'.total \in {runs.total, runs.total + 1}
    BY <1>4 DEF FindRuns
  <2>2. runs'.last \in RunStates
    BY <1>4 DEF FindRuns
  <2>3. runs' = [total |-> runs'.total, running |-> runs'.running,
                 lost |-> runs'.lost, last |-> runs'.last]
    BY <1>4 DEF FindRuns
  <2>4. QED
    BY <1>1, <1>2, <2>1, <2>2, <2>3 DEF RunsAreCounted
<1>5. CASE StartRegisters
  <2>1. NumbersOK'
    BY <1>1, <1>2, <1>5 DEF StartRegisters
  <2>2. /\ runs'.total = runs.total + 1 /\ runs'.running = runs.running + 1
        /\ runs'.lost = runs.lost
    BY <1>5 DEF StartRegisters
  <2>3. QED
    BY <2>1, <2>2 DEF RunsAreCounted
<1>6. CASE RunEnds
  <2>1. runs.running - 1 \in Nat
    BY <1>6 DEF RunEnds, Active
  <2>2. NumbersOK'
    BY <1>2, <1>6, <2>1 DEF RunEnds
  <2>3. /\ runs'.total = runs.total /\ runs'.running = runs.running - 1
        /\ runs'.lost = runs.lost
    BY <1>6 DEF RunEnds
  <2>4. QED
    BY <2>2, <2>3 DEF RunsAreCounted
<1>7. CASE LosesRuns
  <2>1. NumbersOK'
    BY <1>1, <1>2, <1>7 DEF LosesRuns
  <2>2. /\ runs'.total = runs.total /\ runs'.running = 0
        /\ runs'.lost = runs.lost + runs.running
    BY <1>7 DEF LosesRuns
  <2>3. QED
    BY <2>1, <2>2 DEF RunsAreCounted
<1>8. QED
  BY <1>3, <1>4, <1>5, <1>6, <1>7, ChangesOfNumbers

LEMMA PaidStep ==
  AdviceTypeOK /\ RunsArePaid /\ RunsAreCounted /\ [AdviceNext]_adviceVars
    => RunsArePaid'
<1> SUFFICES ASSUME AdviceTypeOK, RunsArePaid, RunsAreCounted,
                    [AdviceNext]_adviceVars
             PROVE  RunsArePaid'
  OBVIOUS
<1> USE AdviceNumbers
    DEF NumbersOK, RunsArePaid, One, Reserved,
        ToldToRepeat, Unnoticed, NotRepeated, ToRepeat, factVars, assistantVars
<1>1. CASE UNCHANGED adviceVars
  BY <1>1 DEF adviceVars
<1>2. CASE ReadTask
  BY <1>2 DEF ReadTask, Goes, Unseen
<1>3. CASE ReadSummaries \/ ReadRuns
  <2>1. CASE ReadSummaries
    BY <2>1 DEF ReadSummaries, Goes, FindRuns
  <2>2. CASE ReadRuns
    BY <2>2 DEF ReadRuns, Goes, FindRuns, Active
  <2>3. QED
    BY <1>3, <2>1, <2>2
<1>4. CASE ReadDiff
  BY <1>4 DEF ReadDiff, Goes
<1>5. CASE Derive
  <2>1. Derived(seen).blocker = "RUN" => runs.last = "INTERRUPTED" /\ ~seen.start
    BY DEF Derived, Advise, Nothing
  <2>2. ToldToRepeat' => ToldToRepeat
    BY <1>5, <2>1 DEF Derive, Goes
  <2>3. ToRepeat' => ToRepeat \/ ToldToRepeat
    BY <1>5 DEF Derive, Goes
  <2>4. QED
    BY <1>5, <2>2, <2>3 DEF Derive
<1>6. CASE ComesBack
  BY <1>6 DEF ComesBack, Refused
<1>7. CASE Responds
  BY <1>7 DEF Responds, Refused
<1>8. CASE AnswersPlan
  BY <1>8 DEF AnswersPlan, Refused, PlanWaits, OpenPlan
<1>9. CASE RunsAgain
  BY <1>9 DEF RunsAgain, Refused, Reserves
<1>10. CASE ReadsHead
  BY <1>10 DEF ReadsHead, Refused
<1>11. CASE RecordsEvidence
  BY <1>11 DEF RecordsEvidence, Refused
<1>12. CASE Commits
  BY <1>12 DEF Commits, Refused
<1>13. CASE FinishBegin
  <2>1. CASE task = "ACTIVE" /\ starting = "LOST"
    <3>1. /\ runs'.total = runs.total + 1
          /\ ~Reserved' /\ ~ToldToRepeat'
      BY <1>13, <2>1 DEF FinishBegin, FindRuns
    <3>2. QED
      BY <1>13, <2>1, <3>1 DEF FinishBegin
  <2>2. CASE task = "ACTIVE" /\ starting # "LOST"
    <3>1. /\ runs'.total = runs.total /\ Reserved' = Reserved
          /\ ~ToldToRepeat'
      BY <1>13, <2>2 DEF FinishBegin, FindRuns
    <3>2. ToRepeat' => ToRepeat \/ ToldToRepeat
      <4>1. runs'.lost = 0 /\ (runs'.last = "INTERRUPTED" =>
                                runs.last = "INTERRUPTED" \/ runs.lost > 0)
        BY <1>13, <2>2 DEF FinishBegin, FindRuns
      <4>2. starting' = starting /\ at = "ACT" /\ at' \notin {"RUNS", "ACTIVE"}
        BY <1>13, <2>2 DEF FinishBegin, FindRuns
      <4>3. QED
        BY <2>2, <4>1, <4>2
    <3>3. QED
      BY <1>13, <2>2, <3>1, <3>2 DEF FinishBegin
  <2>3. CASE task # "ACTIVE"
    BY <1>13, <2>3 DEF FinishBegin, Refused
  <2>4. QED
    BY <2>1, <2>2, <2>3
<1>14. CASE FinishPlan
  BY <1>14 DEF FinishPlan, Goes
<1>15. CASE FinishDiff
  BY <1>15 DEF FinishDiff, Goes
<1>16. CASE FinishHead
  BY <1>16 DEF FinishHead, Goes
<1>17. CASE Finish
  BY <1>17 DEF Finish, Goes
<1>18. CASE StartRegisters
  BY <1>18 DEF StartRegisters
<1>19. CASE RunEnds
  BY <1>19 DEF RunEnds, Active
<1>20. CASE PlanEnds
  BY <1>20 DEF PlanEnds
<1>21. CASE PlanWorks
  BY <1>21 DEF PlanWorks
<1>22. CASE Trouble
  <2>1. CASE dirty' = TRUE /\ UNCHANGED <<starting, runs>>
    BY <1>22, <2>1 DEF Trouble
  <2>2. CASE UNCHANGED <<starting, runs, dirty>>
    BY <1>22, <2>2 DEF Trouble
  <2>3. CASE Reserves /\ UNCHANGED <<runs, dirty>>
    BY <1>22, <2>3 DEF Trouble, Reserves
  <2>4. CASE starting = "OWNED" /\ starting' = "NONE" /\ UNCHANGED <<runs, dirty>>
    BY <1>22, <2>4 DEF Trouble
  <2>5. CASE /\ starting' \in IF starting = "OWNED" THEN {"LOST", "STUCK"}
                               ELSE {starting}
             /\ LosesRuns /\ UNCHANGED dirty
    BY <1>22, <2>5 DEF Trouble, LosesRuns
  <2>6. QED
    BY <1>22, <2>1, <2>2, <2>3, <2>4, <2>5 DEF Trouble, LosesRuns
<1>23. QED
  BY <1>1, <1>2, <1>3, <1>4, <1>5, <1>6, <1>7, <1>8, <1>9, <1>10, <1>11, <1>12,
     <1>13, <1>14, <1>15, <1>16, <1>17, <1>18, <1>19, <1>20, <1>21, <1>22
     DEF AdviceNext, Assistant

LEMMA UnseenTyped == Unseen \in Facts /\ NoRuns \in Runs /\ Nothing \in Advices
BY AdviceAssumption
   DEF Unseen, Facts, Requests, Plans, Evidence, Heads, NoRuns, Runs, RunStates,
       Nothing, Advices

LEMMA DerivedTyped == ASSUME NEW s PROVE Derived(s) \in Advices
BY DEF Derived, Advise, Nothing, Advices

LEMMA TypedStep ==
  /\ AdviceTypeOK /\ runs' \in Runs /\ head' \in Heads
  /\ [AdviceNext]_adviceVars
  => AdviceTypeOK'
<1> SUFFICES ASSUME AdviceTypeOK, runs' \in Runs, head' \in Heads,
                    [AdviceNext]_adviceVars
             PROVE  AdviceTypeOK'
  OBVIOUS
<1> USE DEF AdviceTypeOK, factVars, assistantVars
<1>0. troubles' \in 0..MaxTroubles
  BY ChangesOfNumbers
<1>1. CASE UNCHANGED adviceVars
  BY <1>1 DEF adviceVars
<1>2. CASE ReadTask
  <2>1. (task = "ACTIVE") \in BOOLEAN /\ (starting # "NONE") \in BOOLEAN
    OBVIOUS
  <2>2. seen' \in Facts
    BY <1>2, <2>1, UnseenTyped DEF ReadTask, Facts
  <2>3. QED
    BY <1>2, <2>2 DEF ReadTask, Goes
<1>3. CASE ReadSummaries \/ ReadRuns
  <2>1. Active \in BOOLEAN
    BY DEF Active
  <2>2. seen' \in Facts
    BY <1>3, <2>1 DEF ReadSummaries, ReadRuns, Facts
  <2>3. QED
    BY <1>3, <2>2 DEF ReadSummaries, ReadRuns, FindRuns, Goes
<1>4. CASE ReadDiff
  <2>1. seen' \in Facts
    BY <1>4 DEF ReadDiff, Facts
  <2>2. QED
    BY <1>4, <2>1 DEF ReadDiff, Goes
<1>5. CASE Derive
  <2>1. seen' \in Facts
    BY <1>5, UnseenTyped DEF Derive, Facts
  <2>2. QED
    BY <1>5, <2>1, DerivedTyped DEF Derive, Goes
<1>6. CASE ComesBack
  BY <1>6 DEF ComesBack, Refused
<1>7. CASE Responds
  BY <1>7 DEF Responds, Refused, Requests
<1>8. CASE AnswersPlan
  BY <1>8 DEF AnswersPlan, Refused, Plans, OpenPlan
<1>9. CASE RunsAgain
  BY <1>9 DEF RunsAgain, Refused, Reserves
<1>10. CASE ReadsHead
  <2>1. seen' \in Facts
    BY <1>10 DEF ReadsHead, Refused, Facts
  <2>2. QED
    BY <1>10, <2>1 DEF ReadsHead, Refused
<1>11. CASE RecordsEvidence
  <2>1. seen.head \in Heads
    BY DEF Facts
  <2>2. evidence' \in Evidence
    BY <1>11, <2>1 DEF RecordsEvidence, Refused, Evidence
  <2>3. QED
    BY <1>11, <1>0, <2>2 DEF RecordsEvidence, Refused
<1>12. CASE Commits
  BY <1>12 DEF Commits, Refused
<1>13. CASE FinishBegin
  <2>1. seen' \in Facts
    BY <1>13 DEF FinishBegin, Refused, Facts
  <2>2. QED
    BY <1>13, <2>1 DEF FinishBegin, Refused, FindRuns
<1>14. CASE FinishPlan
  BY <1>14 DEF FinishPlan, Goes
<1>15. CASE FinishDiff
  BY <1>15 DEF FinishDiff, Goes
<1>16. CASE FinishHead
  <2>1. seen' \in Facts
    BY <1>16 DEF FinishHead, Facts
  <2>2. QED
    BY <1>16, <2>1 DEF FinishHead, Goes
<1>17. CASE Finish
  BY <1>17 DEF Finish, Goes
<1>18. CASE StartRegisters
  BY <1>18 DEF StartRegisters
<1>19. CASE RunEnds
  BY <1>19 DEF RunEnds
<1>20. CASE PlanEnds
  BY <1>20 DEF PlanEnds, Plans
<1>21. CASE PlanWorks
  <2>1. evidence' \in Evidence
    BY <1>21 DEF PlanWorks, Evidence
  <2>2. QED
    BY <1>21, <2>1 DEF PlanWorks
<1>22. CASE Trouble
  <2>1. starting' \in {"NONE", "OWNED", "LOST", "STUCK"}
    BY <1>22 DEF Trouble, Reserves
  <2>2. plan' \in Plans /\ request' \in Requests
    BY <1>22 DEF Trouble, Plans, OpenPlan, Requests
  <2>3. QED
    BY <1>22, <1>0, <2>1, <2>2 DEF Trouble
<1>23. QED
  BY <1>1, <1>2, <1>3, <1>4, <1>5, <1>6, <1>7, <1>8, <1>9, <1>10, <1>11, <1>12,
     <1>13, <1>14, <1>15, <1>16, <1>17, <1>18, <1>19, <1>20, <1>21, <1>22
     DEF AdviceNext, Assistant

LEMMA AdviceStep == AdviceInv /\ [AdviceNext]_adviceVars => AdviceInv'
<1> SUFFICES ASSUME AdviceInv, [AdviceNext]_adviceVars
             PROVE  AdviceInv'
  OBVIOUS
<1>1. NumbersOK' /\ RunsArePaid' /\ RunsAreCounted'
  BY AdviceNumbers, NumbersStep, PaidStep DEF AdviceInv
<1>2. troubles' \in 0..MaxTroubles
  BY ChangesOfNumbers DEF AdviceInv, AdviceTypeOK
<1>3. runs' \in Runs /\ head' \in Heads
  BY <1>1, <1>2, AdviceAssumption
     DEF NumbersOK, RunsArePaid, RunsAreCounted, One, Runs, Heads
<1>4. QED
  BY <1>1, <1>3, TypedStep DEF AdviceInv

LEMMA AdviceInvariant == AdviceInit /\ [][AdviceNext]_adviceVars => []AdviceInv
<1>1. AdviceInit => AdviceTypeOK
  <2>1. Unseen.evidence \in Evidence /\ 0 \in Heads /\ 0 \in 0..MaxTroubles
    BY AdviceAssumption DEF Unseen, Evidence, Heads
  <2>2. QED
    BY <2>1, UnseenTyped DEF AdviceInit, AdviceTypeOK, Plans, Requests
<1>2. AdviceInit => RunsArePaid /\ RunsAreCounted
  BY DEF AdviceInit, RunsArePaid, RunsAreCounted, One, Reserved, ToldToRepeat,
         Unnoticed, NotRepeated, ToRepeat, NoRuns, Nothing
<1>3. AdviceInit => AdviceInv
  BY <1>1, <1>2 DEF AdviceInv
<1>4. QED
  BY <1>3, AdviceStep, PTL

\* The facts, the assistant and its answers keep their types; the bounds on Runs
\* and commits are part of that.
THEOREM AdviceTypeCorrect == AdviceSpec => []AdviceTypeOK
<1>1. AdviceInv => AdviceTypeOK
  BY DEF AdviceInv
<1>2. QED
  BY <1>1, AdviceInvariant, PTL DEF AdviceSpec

\* A lost Run is repeated once, and an edit committed once.
THEOREM RepeatsAreSingle == AdviceSpec => []RepeatsOnce
<1>1. AdviceInv => RepeatsOnce
  <2>1. SUFFICES ASSUME AdviceInv PROVE RepeatsOnce
    OBVIOUS
  <2>2. runs.total \in Nat /\ head \in Nat /\ troubles \in Nat
    BY <2>1, AdviceNumbers DEF AdviceInv, NumbersOK
  <2>3. QED
    BY <2>1, <2>2 DEF AdviceInv, RunsArePaid, One, RepeatsOnce
<1>2. QED
  BY <1>1, AdviceInvariant, PTL DEF AdviceSpec
=============================================================================
