--------------------------- MODULE WorkLoop_proofs ---------------------------
(***************************************************************************)
(* Proofs about WorkLoop, for every set of stories, every limit and every  *)
(* number of kills and outages.                                            *)
(*                                                                         *)
(* The properties are not inductive: each relies on what a process at a    *)
(* given step knows.  IInv adds that, in parts: Control (who holds which   *)
(* story), Guarded (what the test runs so far have established about the   *)
(* worktree and HEAD), Counted (attempts and BUG tickets) and Epics.       *)
(***************************************************************************)
EXTENDS WorkLoop, TLAPS

\* The step the process is at says which story it holds, and that only.
Control ==
  /\ cur = NoStory <=> pc \in {"stopped", "pick"}
  /\ pc = "stopped" => green = {}
  /\ workDone => pc = "stopped"
  /\ pc \in InStory => status[cur] = "in_progress"
  /\ pc = "epic" => status[cur] = "done"
  /\ pc # "stopped" => \A s \in Stories : status[s] = "in_progress" => pc \in InStory /\ s = cur
  /\ InterruptedComesFirst
  /\ WorkDoneMeansDecided

\* What the test runs have established.
Guarded ==
  /\ pc # "stopped" => baseline \subseteq green
  /\ pc \notin {"stopped", "done", "epic", "save"} => green = baseline
  /\ pc \in {"regress", "commit"} => work[cur] = "pass"
  /\ pc = "commit" => Passing(work, green)
  /\ pc = "append" => head[cur] = "pass" \/ cur \in missed
  /\ pc = "done" => cur \in green /\ subtasks[cur] # "open"
  /\ BaselineAtHead
  /\ DoneInBaseline
  /\ DoneMeansSubtasksDone

\* How far the attempts and the BUG tickets have got.
Counted ==
  /\ pc = "attempt" => attempt >= 1 /\ (attempt > 1 => attempts[cur] = attempt - 1)
  /\ pc \in {"worker", "answer", "dod"} => attempt \in 1..MaxAttempts /\ attempts[cur] = attempt
  /\ pc \in {"bug", "block"} /\ reason = "exhausted" => attempts[cur] = MaxAttempts
  /\ pc = "block" => bugs[cur] >= 1
  /\ \A s \in Stories :
       bugs[s] <= crashes + (IF status[s] = "blocked" \/ (s = cur /\ pc = "block") THEN 1 ELSE 0)
  /\ BlockedHasBug
  /\ ExhaustedMeansAllAttempts

\* Which epics are closed.
EpicsKept ==
  /\ EpicDoneMeansStoriesDone
  /\ crashes = 0 =>
       \A s \in Stories : EpicReady(EpicOf[s]) =>
         EpicOf[s] \in epicDone \/ (pc = "epic" /\ EpicOf[cur] = EpicOf[s])

IInv == TypeOK /\ Control /\ Guarded /\ Counted /\ EpicsKept

USE StoriesAssumption, EpicsAssumption, LimitsAssumption, ResultsAssumption, BoundsAssumption
USE DEF NoStory, Statuses, Reasons, InStory, Steps

\* Every step keeps the types.
LEMMA TypeStep == TypeOK /\ Control /\ Counted /\ [Next]_vars => TypeOK'
<1> SUFFICES ASSUME TypeOK, Control, Counted, [Next]_vars PROVE TypeOK'
  OBVIOUS
<1> USE DEF TypeOK, Control, Counted, tickets, state, repo, memory, env, Halt, NextAttempt, Escalate
<1>1. CASE Start
  BY <1>1 DEF Start, Requeued
<1>2. CASE Finish
  BY <1>2 DEF Finish
<1>3. CASE StopAtCap
  BY <1>3 DEF StopAtCap
<1>4. CASE Pick
  BY <1>4 DEF Pick, IsNext, Todo
<1>5. CASE Decompose
  BY <1>5 DEF Decompose
<1>6. CASE DecomposeFails
  BY <1>6 DEF DecomposeFails
<1>7. CASE BeginAttempt
  BY <1>7 DEF BeginAttempt
<1>8. CASE WorkerEdits
  BY <1>8 DEF WorkerEdits
<1>9. CASE AnswerOk
  BY <1>9 DEF AnswerOk
<1>10. CASE AnswerError
  BY <1>10 DEF AnswerError
<1>11. CASE AnswerConflict
  BY <1>11 DEF AnswerConflict
<1>12. CASE AnswerOutage
  BY <1>12 DEF AnswerOutage
<1>13. CASE RunDod
  <2>1. CASE work[cur] = "pass"
    BY <1>13, <2>1 DEF RunDod
  <2>2. CASE work[cur] # "pass"
    <3>1. pc' = "attempt" /\ attempt' = attempt + 1 /\ attempt \in 1..MaxAttempts
      BY <1>13, <2>2 DEF RunDod
    <3>2. attempt' \in 0..MaxAttempts + 1
      BY <3>1
    <3>3. UNCHANGED <<tickets, state, repo, cur, reason, green, processed, env>>
      BY <1>13, <2>2 DEF RunDod
    <3> QED
      BY <3>1, <3>2, <3>3
  <2> QED
    BY <2>1, <2>2
<1>14. CASE Exhausted
  BY <1>14 DEF Exhausted
<1>15. CASE RunRegression
  BY <1>15 DEF RunRegression
<1>16. CASE TestsTimeOut
  BY <1>16 DEF TestsTimeOut
<1>17. CASE Commit
  BY <1>17 DEF Commit
<1>18. CASE CommitSkipped
  BY <1>18 DEF CommitSkipped
<1>19. CASE AppendGreen
  BY <1>19 DEF AppendGreen
<1>20. CASE MarkDone
  BY <1>20 DEF MarkDone
<1>21. CASE CloseEpicIfReady
  BY <1>21 DEF CloseEpicIfReady, EpicReady
<1>22. CASE FileBug
  BY <1>22 DEF FileBug
<1>23. CASE BlockStory
  BY <1>23 DEF BlockStory
<1>24. CASE SaveState
  BY <1>24 DEF SaveState
<1>25. CASE Crash
  BY <1>25 DEF Crash
<1>26. CASE Over
  BY <1>26 DEF Over, vars
<1>27. CASE UNCHANGED vars
  BY <1>27 DEF vars
<1> QED
  BY <1>1, <1>2, <1>3, <1>4, <1>5, <1>6, <1>7, <1>8, <1>9, <1>10, <1>11, <1>12, <1>13, <1>14, <1>15, <1>16, <1>17, <1>18, <1>19, <1>20, <1>21, <1>22, <1>23, <1>24, <1>25, <1>26, <1>27 DEF Next, Progress

\* Every step keeps the control invariant.
LEMMA ControlStep == TypeOK /\ Control /\ [Next]_vars => Control'
<1> SUFFICES ASSUME TypeOK, Control, [Next]_vars PROVE Control'
  OBVIOUS
<1> USE DEF TypeOK, Control, InterruptedComesFirst, WorkDoneMeansDecided, Decided, tickets, state, repo, memory, env, Halt, NextAttempt, Escalate
<1>1. CASE Start
  BY <1>1 DEF Start, Requeued
<1>2. CASE Finish
  BY <1>2 DEF Finish, Todo
<1>3. CASE StopAtCap
  BY <1>3 DEF StopAtCap
<1>4. CASE Pick
  BY <1>4 DEF Pick, IsNext, Todo
<1>5. CASE Decompose
  BY <1>5 DEF Decompose
<1>6. CASE DecomposeFails
  BY <1>6 DEF DecomposeFails
<1>7. CASE BeginAttempt
  BY <1>7 DEF BeginAttempt
<1>8. CASE WorkerEdits
  BY <1>8 DEF WorkerEdits
<1>9. CASE AnswerOk
  BY <1>9 DEF AnswerOk
<1>10. CASE AnswerError
  BY <1>10 DEF AnswerError
<1>11. CASE AnswerConflict
  BY <1>11 DEF AnswerConflict
<1>12. CASE AnswerOutage
  BY <1>12 DEF AnswerOutage
<1>13. CASE RunDod
  BY <1>13 DEF RunDod
<1>14. CASE Exhausted
  BY <1>14 DEF Exhausted
<1>15. CASE RunRegression
  BY <1>15 DEF RunRegression
<1>16. CASE TestsTimeOut
  BY <1>16 DEF TestsTimeOut
<1>17. CASE Commit
  BY <1>17 DEF Commit
<1>18. CASE CommitSkipped
  BY <1>18 DEF CommitSkipped
<1>19. CASE AppendGreen
  BY <1>19 DEF AppendGreen
<1>20. CASE MarkDone
  BY <1>20 DEF MarkDone
<1>21. CASE CloseEpicIfReady
  BY <1>21 DEF CloseEpicIfReady
<1>22. CASE FileBug
  BY <1>22 DEF FileBug
<1>23. CASE BlockStory
  BY <1>23 DEF BlockStory
<1>24. CASE SaveState
  BY <1>24 DEF SaveState
<1>25. CASE Crash
  BY <1>25 DEF Crash
<1>26. CASE Over
  BY <1>26 DEF Over, vars
<1>27. CASE UNCHANGED vars
  BY <1>27 DEF vars
<1> QED
  BY <1>1, <1>2, <1>3, <1>4, <1>5, <1>6, <1>7, <1>8, <1>9, <1>10, <1>11, <1>12, <1>13, <1>14, <1>15, <1>16, <1>17, <1>18, <1>19, <1>20, <1>21, <1>22, <1>23, <1>24, <1>25, <1>26, <1>27 DEF Next, Progress

\* Every step keeps what the test runs established.
LEMMA GuardedStep == TypeOK /\ Control /\ Guarded /\ [Next]_vars => Guarded'
<1> SUFFICES ASSUME TypeOK, Control, Guarded, [Next]_vars PROVE Guarded'
  OBVIOUS
<1> USE DEF TypeOK, Control, Guarded, Passing, BaselineAtHead, DoneInBaseline, DoneMeansSubtasksDone, tickets, state, repo, memory, env, Halt, NextAttempt, Escalate
<1>1. CASE Start
  BY <1>1 DEF Start, Requeued
<1>2. CASE Finish
  BY <1>2 DEF Finish
<1>3. CASE StopAtCap
  BY <1>3 DEF StopAtCap
<1>4. CASE Pick
  BY <1>4 DEF Pick, IsNext, Todo
<1>5. CASE Decompose
  BY <1>5 DEF Decompose
<1>6. CASE DecomposeFails
  BY <1>6 DEF DecomposeFails
<1>7. CASE BeginAttempt
  BY <1>7 DEF BeginAttempt
<1>8. CASE WorkerEdits
  BY <1>8 DEF WorkerEdits
<1>9. CASE AnswerOk
  BY <1>9 DEF AnswerOk
<1>10. CASE AnswerError
  BY <1>10 DEF AnswerError
<1>11. CASE AnswerConflict
  BY <1>11 DEF AnswerConflict
<1>12. CASE AnswerOutage
  BY <1>12 DEF AnswerOutage
<1>13. CASE RunDod
  BY <1>13 DEF RunDod
<1>14. CASE Exhausted
  BY <1>14 DEF Exhausted
<1>15. CASE RunRegression
  BY <1>15 DEF RunRegression
<1>16. CASE TestsTimeOut
  BY <1>16 DEF TestsTimeOut
<1>17. CASE Commit
  BY <1>17 DEF Commit
<1>18. CASE CommitSkipped
  BY <1>18 DEF CommitSkipped
<1>19. CASE AppendGreen
  BY <1>19 DEF AppendGreen
<1>20. CASE MarkDone
  BY <1>20 DEF MarkDone
<1>21. CASE CloseEpicIfReady
  BY <1>21 DEF CloseEpicIfReady
<1>22. CASE FileBug
  BY <1>22 DEF FileBug
<1>23. CASE BlockStory
  BY <1>23 DEF BlockStory
<1>24. CASE SaveState
  BY <1>24 DEF SaveState
<1>25. CASE Crash
  <2>1. crashes' # 0
    BY <1>25 DEF Crash
  <2>2. BaselineAtHead'
    BY <1>25 DEF Crash
  <2> QED
    BY <1>25, <2>1, <2>2 DEF Crash
<1>26. CASE Over
  BY <1>26 DEF Over, vars
<1>27. CASE UNCHANGED vars
  BY <1>27 DEF vars
<1> QED
  BY <1>1, <1>2, <1>3, <1>4, <1>5, <1>6, <1>7, <1>8, <1>9, <1>10, <1>11, <1>12, <1>13, <1>14, <1>15, <1>16, <1>17, <1>18, <1>19, <1>20, <1>21, <1>22, <1>23, <1>24, <1>25, <1>26, <1>27 DEF Next, Progress

\* Every step keeps the accounts of attempts and BUG tickets.
LEMMA CountedStep == TypeOK /\ Control /\ Counted /\ [Next]_vars => Counted'
<1> SUFFICES ASSUME TypeOK, Control, Counted, [Next]_vars PROVE Counted'
  OBVIOUS
<1> USE DEF TypeOK, Control, Counted, BlockedHasBug, ExhaustedMeansAllAttempts, tickets, state, repo, memory, env, Halt, NextAttempt, Escalate
<1>1. CASE Start
  BY <1>1 DEF Start, Requeued
<1>2. CASE Finish
  BY <1>2 DEF Finish
<1>3. CASE StopAtCap
  BY <1>3 DEF StopAtCap
<1>4. CASE Pick
  BY <1>4 DEF Pick, IsNext, Todo
<1>5. CASE Decompose
  BY <1>5 DEF Decompose
<1>6. CASE DecomposeFails
  BY <1>6 DEF DecomposeFails
<1>7. CASE BeginAttempt
  BY <1>7 DEF BeginAttempt
<1>8. CASE WorkerEdits
  BY <1>8 DEF WorkerEdits
<1>9. CASE AnswerOk
  BY <1>9 DEF AnswerOk
<1>10. CASE AnswerError
  BY <1>10 DEF AnswerError
<1>11. CASE AnswerConflict
  BY <1>11 DEF AnswerConflict
<1>12. CASE AnswerOutage
  BY <1>12 DEF AnswerOutage
<1>13. CASE RunDod
  BY <1>13 DEF RunDod
<1>14. CASE Exhausted
  BY <1>14 DEF Exhausted
<1>15. CASE RunRegression
  BY <1>15 DEF RunRegression
<1>16. CASE TestsTimeOut
  BY <1>16 DEF TestsTimeOut
<1>17. CASE Commit
  BY <1>17 DEF Commit
<1>18. CASE CommitSkipped
  BY <1>18 DEF CommitSkipped
<1>19. CASE AppendGreen
  BY <1>19 DEF AppendGreen
<1>20. CASE MarkDone
  BY <1>20 DEF MarkDone
<1>21. CASE CloseEpicIfReady
  BY <1>21 DEF CloseEpicIfReady
<1>22. CASE FileBug
  BY <1>22 DEF FileBug
<1>23. CASE BlockStory
  BY <1>23 DEF BlockStory
<1>24. CASE SaveState
  BY <1>24 DEF SaveState
<1>25. CASE Crash
  BY <1>25 DEF Crash
<1>26. CASE Over
  BY <1>26 DEF Over, vars
<1>27. CASE UNCHANGED vars
  BY <1>27 DEF vars
<1> QED
  BY <1>1, <1>2, <1>3, <1>4, <1>5, <1>6, <1>7, <1>8, <1>9, <1>10, <1>11, <1>12, <1>13, <1>14, <1>15, <1>16, <1>17, <1>18, <1>19, <1>20, <1>21, <1>22, <1>23, <1>24, <1>25, <1>26, <1>27 DEF Next, Progress

\* Every step keeps the epics in order.
LEMMA EpicsStep == TypeOK /\ Control /\ EpicsKept /\ [Next]_vars => EpicsKept'
<1> SUFFICES ASSUME TypeOK, Control, EpicsKept, [Next]_vars PROVE EpicsKept'
  OBVIOUS
<1> USE DEF TypeOK, Control, EpicsKept, EpicDoneMeansStoriesDone, EpicReady, tickets, state, repo, memory, env, Halt, NextAttempt, Escalate
<1>1. CASE Start
  BY <1>1 DEF Start, Requeued
<1>2. CASE Finish
  BY <1>2 DEF Finish
<1>3. CASE StopAtCap
  BY <1>3 DEF StopAtCap
<1>4. CASE Pick
  BY <1>4 DEF Pick, IsNext, Todo
<1>5. CASE Decompose
  BY <1>5 DEF Decompose
<1>6. CASE DecomposeFails
  BY <1>6 DEF DecomposeFails
<1>7. CASE BeginAttempt
  BY <1>7 DEF BeginAttempt
<1>8. CASE WorkerEdits
  BY <1>8 DEF WorkerEdits
<1>9. CASE AnswerOk
  BY <1>9 DEF AnswerOk
<1>10. CASE AnswerError
  BY <1>10 DEF AnswerError
<1>11. CASE AnswerConflict
  BY <1>11 DEF AnswerConflict
<1>12. CASE AnswerOutage
  BY <1>12 DEF AnswerOutage
<1>13. CASE RunDod
  BY <1>13 DEF RunDod
<1>14. CASE Exhausted
  BY <1>14 DEF Exhausted
<1>15. CASE RunRegression
  BY <1>15 DEF RunRegression
<1>16. CASE TestsTimeOut
  BY <1>16 DEF TestsTimeOut
<1>17. CASE Commit
  BY <1>17 DEF Commit
<1>18. CASE CommitSkipped
  BY <1>18 DEF CommitSkipped
<1>19. CASE AppendGreen
  BY <1>19 DEF AppendGreen
<1>20. CASE MarkDone
  BY <1>20 DEF MarkDone
<1>21. CASE CloseEpicIfReady
  BY <1>21 DEF CloseEpicIfReady
<1>22. CASE FileBug
  BY <1>22 DEF FileBug
<1>23. CASE BlockStory
  BY <1>23 DEF BlockStory
<1>24. CASE SaveState
  BY <1>24 DEF SaveState
<1>25. CASE Crash
  BY <1>25 DEF Crash
<1>26. CASE Over
  BY <1>26 DEF Over, vars
<1>27. CASE UNCHANGED vars
  BY <1>27 DEF vars
<1> QED
  BY <1>1, <1>2, <1>3, <1>4, <1>5, <1>6, <1>7, <1>8, <1>9, <1>10, <1>11, <1>12, <1>13, <1>14, <1>15, <1>16, <1>17, <1>18, <1>19, <1>20, <1>21, <1>22, <1>23, <1>24, <1>25, <1>26, <1>27 DEF Next, Progress

\* The inductive invariant holds in every reachable state.
THEOREM Invariant == Spec => []IInv
<1>1. Init => IInv
  <2> SUFFICES ASSUME Init PROVE IInv
    OBVIOUS
  <2> USE DEF Init
  <2>1. TypeOK
    <3>1. 0 \in 0..MaxAttempts /\ 0 \in 0..MaxAttempts + 1 /\ 0 \in 0..MaxCrashes /\ 0 \in 0..MaxOutages
      OBVIOUS
    <3>2. work \in [Stories -> Results] /\ head \in [Stories -> Results]
      OBVIOUS
    <3>3. attempts \in [Stories -> 0..MaxAttempts] /\ bugs \in [Stories -> Nat]
      BY <3>1
    <3> QED
      BY <3>1, <3>2, <3>3 DEF TypeOK
  <2>2. Control
    BY DEF Control, InterruptedComesFirst, WorkDoneMeansDecided
  <2>3. Guarded
    BY DEF Guarded, BaselineAtHead, DoneInBaseline, DoneMeansSubtasksDone
  <2>4. Counted
    BY DEF Counted, BlockedHasBug, ExhaustedMeansAllAttempts
  <2>5. EpicsKept
    BY DEF EpicsKept, EpicDoneMeansStoriesDone, EpicReady
  <2> QED
    BY <2>1, <2>2, <2>3, <2>4, <2>5 DEF IInv
<1>2. IInv /\ [Next]_vars => IInv'
  BY TypeStep, ControlStep, GuardedStep, CountedStep, EpicsStep DEF IInv
<1> QED
  BY <1>1, <1>2, PTL DEF Spec

-----------------------------------------------------------------------------
\* Type correctness of the WORK phase.
THEOREM TypeCorrect == Spec => []TypeOK
<1>1. IInv => TypeOK
  BY DEF IInv
<1> QED
  BY <1>1, Invariant, PTL

\* raise_bug: a blocked story always has its BUG ticket, the number of BUG
\* tickets of a story never exceeds its one escalation by more than the kills,
\* and a story is given up as exhausted only after implement_attempts attempts.
THEOREM EscalationsAreReported == Spec => []EscalationsReported
<1>1. IInv => BlockedHasBug /\ ExhaustedMeansAllAttempts
  BY DEF IInv, Counted
<1>2. IInv => OneBugPerEscalation
  <2> SUFFICES ASSUME IInv, NEW s \in Stories
               PROVE  bugs[s] <= crashes + (IF s = cur \/ status[s] = "blocked" THEN 1 ELSE 0)
    BY DEF OneBugPerEscalation
  <2>1. bugs[s] \in Nat /\ crashes \in Nat
    BY DEF IInv, TypeOK
  <2>2. bugs[s] <= crashes + (IF status[s] = "blocked" \/ (s = cur /\ pc = "block") THEN 1 ELSE 0)
    BY DEF IInv, Counted
  <2> QED
    BY <2>1, <2>2
<1>3. IInv => EscalationsReported
  BY <1>1, <1>2 DEF EscalationsReported
<1> QED
  BY <1>3, Invariant, PTL

\* WORK is recorded as done only when every story is decided, whatever was
\* interrupted before, and an interrupted story is always taken up first.
THEOREM NothingIsSkipped == Spec => []NothingSkipped
<1>1. IInv => NothingSkipped
  BY DEF IInv, Control, NothingSkipped
<1> QED
  BY <1>1, Invariant, PTL

\* The regression check protects the baseline at HEAD.
THEOREM BaselineHolds == Spec => []BaselineAtHead
<1>1. IInv => BaselineAtHead
  BY DEF IInv, Guarded
<1> QED
  BY <1>1, Invariant, PTL

\* While no run is killed the baseline holds every done story, so that no done
\* story's test fails at HEAD.
THEOREM DoneIsGuarded == Spec => []DoneGuarded
<1>1. IInv => DoneGuarded
  BY DEF DoneGuarded, IInv, Guarded, BaselineAtHead, DoneInBaseline, DonePassesAtHead
<1> QED
  BY <1>1, Invariant, PTL

\* Epics and subtasks agree with their stories.
THEOREM TicketsAgree == Spec => []TicketsConsistent
<1>1. IInv => TicketsConsistent
  BY DEF TicketsConsistent, IInv, EpicsKept, Guarded, EpicClosedInTime
<1> QED
  BY <1>1, Invariant, PTL

-----------------------------------------------------------------------------
(* WorkLoop implements Backlog.                                            *)

\* The story being worked on is the first open one.
LEMMA CurIsFirst == IInv /\ pc \in InStory => cur \in Stories /\ ~Decided(cur) /\ \A t \in Stories : ~Decided(t) => cur <= t
<1> SUFFICES ASSUME IInv, pc \in InStory, NEW t \in Stories, ~Decided(t)
             PROVE  cur \in Stories /\ ~Decided(cur) /\ cur <= t
  BY DEF IInv, Control, TypeOK, Decided
<1>1. cur \in Stories /\ status[cur] = "in_progress"
  BY DEF IInv, Control, TypeOK
<1>2. ~(t < cur)
  BY <1>1 DEF IInv, Control, InterruptedComesFirst
<1> QED
  BY <1>1, <1>2 DEF Decided

\* A story's decision is Backlog's Decide; ending the phase is its Close; every
\* other step, kills and restarts included, is invisible there.
THEOREM Refinement == Spec => ImplementsBacklogSafely
<1>1. Init => BacklogView!Init
  BY DEF Init, BacklogView!Init, Decided
<1>2. IInv /\ [Next]_vars => [BacklogView!Next]_(BacklogView!vars)
  <2> SUFFICES ASSUME IInv, [Next]_vars
               PROVE  BacklogView!Next \/ UNCHANGED <<status, workDone>> \/ UNCHANGED BacklogView!vars
    BY DEF BacklogView!vars, Decided
  <2>1. CASE MarkDone
    <3>1. PICK s \in Stories : s = cur /\ ~Decided(s) /\ (\A t \in Stories : ~Decided(t) => s <= t)
      BY <2>1, CurIsFirst DEF MarkDone
    <3>2. status' = [status EXCEPT ![s] = "done"] /\ workDone' = workDone
      BY <2>1, <3>1 DEF MarkDone, state
    <3>3. BacklogView!Decide(s)
      BY <3>1, <3>2 DEF IInv, TypeOK, Decided, BacklogView!Decide
    <3> QED
      BY <3>1, <3>3 DEF BacklogView!Next
  <2>2. CASE BlockStory
    <3>1. PICK s \in Stories : s = cur /\ ~Decided(s) /\ (\A t \in Stories : ~Decided(t) => s <= t)
      BY <2>2, CurIsFirst DEF BlockStory
    <3>2. status' = [status EXCEPT ![s] = "blocked"] /\ workDone' = workDone
      BY <2>2, <3>1 DEF BlockStory, state
    <3>3. BacklogView!Decide(s)
      BY <3>1, <3>2 DEF IInv, TypeOK, Decided, BacklogView!Decide
    <3> QED
      BY <3>1, <3>3 DEF BacklogView!Next
  <2>3. CASE Finish
    <3>1. \A s \in Stories : Decided(s)
      BY <2>3 DEF Finish, Todo, IInv, TypeOK, Control, Decided
    <3>2. ~workDone /\ workDone' = TRUE /\ status' = status
      BY <2>3 DEF Finish, tickets, IInv, Control, TypeOK
    <3> QED
      BY <3>1, <3>2 DEF BacklogView!Next, BacklogView!Close, Decided
  <2>4. CASE Start
    BY <2>4 DEF Start, Requeued, state, Decided, BacklogView!vars, IInv, TypeOK
  <2>5. CASE Pick
    BY <2>5 DEF Pick, IsNext, Todo, state, Decided, BacklogView!vars, IInv, TypeOK
  <2>6. CASE AnswerOutage
    BY <2>6 DEF AnswerOutage, IInv, Control, TypeOK, Decided, BacklogView!vars
  <2>7. CASE UNCHANGED <<status, workDone>>
    BY <2>7
  <2> QED
    BY <2>1, <2>2, <2>3, <2>4, <2>5, <2>6, <2>7
       DEF Next, Progress, StopAtCap, Decompose, DecomposeFails, BeginAttempt, WorkerEdits, AnswerOk, AnswerError,
           AnswerConflict, RunDod, Exhausted, RunRegression, TestsTimeOut, Commit, CommitSkipped, AppendGreen,
           CloseEpicIfReady, FileBug, SaveState, Crash, Over, vars, tickets, state
<1> QED
  BY <1>1, <1>2, Invariant, PTL DEF Spec, ImplementsBacklogSafely, BacklogView!SafeSpec
==============================================================================
