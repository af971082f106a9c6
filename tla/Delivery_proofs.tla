--------------------------- MODULE Delivery_proofs ---------------------------
(***************************************************************************)
(* Proofs about Delivery, for every set of passing trees, every limit of   *)
(* attempts and every number of kills and failed calls.                    *)
(*                                                                         *)
(* The properties speak of the worktree between worker calls.  What makes  *)
(* them inductive is what a call may rely on while it runs (Protection:    *)
(* the snapshot still has the files as they were marked), what a phase has *)
(* left behind when it comes to its commit (Generation), and what the E2E  *)
(* loop knows of the worktree and of its BUG tickets (Outcome).            *)
(***************************************************************************)
EXTENDS Delivery, TLAPS

\* The step a process is at, and the phase and attempt it can be in.
Control ==
  /\ phase = "done" => pc = "off"
  /\ pc = "commit" => Generating
  /\ pc \in {"push", "bug"} => phase = "e2e"
  /\ pc = "push" => PushAuto
  /\ pc \in {"call", "answer"} <=> snap # NoTree
  /\ Generating => attempt = 1
  /\ pc \in {"call", "answer"} /\ phase = "e2e" => attempt < MaxAttempts

\* A call starts from the worktree, and its snapshot has the protected files as
\* they were when the phase was entered.
Protection ==
  /\ pc = "call" => work = snap
  /\ pc \in {"call", "answer"} /\ ~disturbed => \A f \in Protected[phase] : snap[f] = mark[f]
  /\ ProtectedHeld

\* What a phase generates is there when it commits, and then at HEAD.
Generation ==
  /\ pc \in {"commit", "save"} /\ Generating => work[Generates[phase]] # None
  /\ pc = "save" /\ Generating /\ ~refused => head = work
  /\ phase \in {"e2e", "done"} => mark["e2e"] # None
  /\ GeneratedIsCommitted

\* E2E comes to its end with a pass or a BUG ticket; a push ends all changes.
Outcome ==
  /\ Generating => bugs = 0 /\ remote = NoTree
  /\ pc = "push" => work \in Passing
  /\ pc = "save" /\ phase = "e2e" /\ bugs = 0 /\ ~disturbed => work \in Passing
  /\ remote # NoTree => remote = head /\ work \in Passing /\ pc \notin {"call", "answer", "bug"}
  /\ bugs <= faults + (IF pc = "save" \/ phase = "done" THEN 1 ELSE 0)
  /\ EndsGreenOrReported

IInv == TypeOK /\ Control /\ Protection /\ Generation /\ Outcome

USE PassingAssumption, AttemptsAssumption, PushAutoAssumption, FaultsAssumption

\* The value of an empty snapshot is no tree.
LEMMA NoTreeIsNone == NoTree \notin Tree
<1> SUFFICES ASSUME NoTree \in Tree PROVE FALSE
  OBVIOUS
<1>1. DOMAIN NoTree = {"app", "unit", "entry", "e2e"}
  BY DEF Tree
<1>2. DOMAIN NoTree = {"none"}
  BY DEF NoTree
<1> QED
  BY <1>1, <1>2


\* What a phase puts back is a tree, with the protected files of the snapshot.
LEMMA RestoredTree ==
  ASSUME TypeOK, Control, pc = "answer"
  PROVE  /\ Restored \in Tree
         /\ \A f \in Protected[phase] : Restored[f] = snap[f]
         /\ ~Tampered => \A f \in Protected[phase] : work[f] = snap[f]
<1>1. work \in Tree /\ snap \in Tree /\ phase \in {"driver", "e2e_spec", "e2e"}
  BY DEF TypeOK, Control
<1>2. DOMAIN work = {"app", "unit", "entry", "e2e"} /\ DOMAIN snap = {"app", "unit", "entry", "e2e"}
  BY <1>1 DEF Tree
<1>3. Protected[phase] \subseteq {"app", "unit", "e2e"}
  BY <1>1 DEF Protected
<1>4. \A f \in Protected[phase] : Restored[f] = snap[f]
  BY <1>2, <1>3 DEF Restored
<1>5. Restored \in Tree
  BY <1>1, <1>2 DEF Restored, Tree
<1> QED
  BY <1>4, <1>5 DEF Tampered

\* Every step keeps the types.
LEMMA TypeStep == TypeOK /\ Control /\ [Next]_vars => TypeOK'
<1> SUFFICES ASSUME TypeOK, Control, [Next]_vars PROVE TypeOK'
  OBVIOUS
<1> USE DEF TypeOK, Control, control, history, Exit, Fault
<1>1. CASE Launch
  BY <1>1 DEF Launch
<1>2. CASE WorkerEdits
  BY <1>2 DEF WorkerEdits
<1>3. CASE BeginGenerate
  BY <1>3 DEF BeginGenerate
<1>4. CASE Generated
  BY <1>4, RestoredTree DEF Generated
<1>5. CASE CommitGenerated
  BY <1>5 DEF CommitGenerated
<1>6. CASE Advance
  <2>1. phase \in {"driver", "e2e_spec", "e2e"}
    BY <1>6 DEF Advance
  <2>2. phase' \in {"e2e_spec", "e2e", "done"}
    BY <1>6, <2>1 DEF Advance, NextPhase
  <2> QED
    BY <1>6, <2>2 DEF Advance
<1>7. CASE RunE2e
  BY <1>7 DEF RunE2e
<1>8. CASE DebugEnds
  BY <1>8, RestoredTree DEF DebugEnds
<1>9. CASE Push
  BY <1>9 DEF Push
<1>10. CASE FileBug
  BY <1>10 DEF FileBug
<1>11. CASE GenerateFails
  BY <1>11 DEF GenerateFails
<1>12. CASE DebugOutage
  BY <1>12 DEF DebugOutage
<1>13. CASE Crash
  BY <1>13 DEF Crash
<1>14. CASE Delivered
  BY <1>14 DEF Delivered, vars
<1>15. CASE UNCHANGED vars
  BY <1>15 DEF vars
<1> QED
  BY <1>1, <1>2, <1>3, <1>4, <1>5, <1>6, <1>7, <1>8, <1>9, <1>10, <1>11, <1>12, <1>13, <1>14, <1>15 DEF Next, Running

\* Every step keeps the control invariant.
LEMMA ControlStep == TypeOK /\ Control /\ [Next]_vars => Control'
<1> SUFFICES ASSUME TypeOK, Control, [Next]_vars PROVE Control'
  OBVIOUS
<1> USE DEF TypeOK, Control, control, history, Exit, Fault, Generating, Generates
<1>1. CASE Launch
  BY <1>1 DEF Launch
<1>2. CASE WorkerEdits
  BY <1>2 DEF WorkerEdits
<1>3. CASE BeginGenerate
  BY <1>3, NoTreeIsNone DEF BeginGenerate
<1>4. CASE Generated
  BY <1>4 DEF Generated
<1>5. CASE CommitGenerated
  BY <1>5 DEF CommitGenerated
<1>6. CASE Advance
  BY <1>6 DEF Advance, NextPhase
<1>7. CASE RunE2e
  BY <1>7, NoTreeIsNone DEF RunE2e
<1>8. CASE DebugEnds
  BY <1>8 DEF DebugEnds
<1>9. CASE Push
  BY <1>9 DEF Push
<1>10. CASE FileBug
  BY <1>10 DEF FileBug
<1>11. CASE GenerateFails
  BY <1>11 DEF GenerateFails
<1>12. CASE DebugOutage
  BY <1>12 DEF DebugOutage
<1>13. CASE Crash
  BY <1>13 DEF Crash
<1>14. CASE Delivered
  BY <1>14 DEF Delivered, vars
<1>15. CASE UNCHANGED vars
  BY <1>15 DEF vars
<1> QED
  BY <1>1, <1>2, <1>3, <1>4, <1>5, <1>6, <1>7, <1>8, <1>9, <1>10, <1>11, <1>12, <1>13, <1>14, <1>15 DEF Next, Running

\* Every step keeps what the snapshots are for.
LEMMA ProtectionStep == TypeOK /\ Control /\ Protection /\ [Next]_vars => Protection'
<1> SUFFICES ASSUME TypeOK, Control, Protection, [Next]_vars PROVE Protection'
  OBVIOUS
<1> USE DEF TypeOK, Control, Protection, ProtectedHeld, control, history, Exit, Fault, Generating, Generates
<1>1. CASE Launch
  BY <1>1 DEF Launch
<1>2. CASE WorkerEdits
  BY <1>2 DEF WorkerEdits
<1>3. CASE BeginGenerate
  BY <1>3 DEF BeginGenerate
<1>4. CASE Generated
  BY <1>4, RestoredTree DEF Generated
<1>5. CASE CommitGenerated
  BY <1>5 DEF CommitGenerated
<1>6. CASE Advance
  BY <1>6 DEF Advance, NextPhase
<1>7. CASE RunE2e
  BY <1>7 DEF RunE2e
<1>8. CASE DebugEnds
  BY <1>8, RestoredTree DEF DebugEnds
<1>9. CASE Push
  BY <1>9 DEF Push
<1>10. CASE FileBug
  BY <1>10 DEF FileBug
<1>11. CASE GenerateFails
  BY <1>11, RestoredTree DEF GenerateFails, Tampered
<1>12. CASE DebugOutage
  BY <1>12 DEF DebugOutage
<1>13. CASE Crash
  BY <1>13, RestoredTree DEF Crash, Tampered
<1>14. CASE Delivered
  BY <1>14 DEF Delivered, vars
<1>15. CASE UNCHANGED vars
  BY <1>15 DEF vars
<1> QED
  BY <1>1, <1>2, <1>3, <1>4, <1>5, <1>6, <1>7, <1>8, <1>9, <1>10, <1>11, <1>12, <1>13, <1>14, <1>15 DEF Next, Running

\* Every step keeps what a phase leaves behind.
LEMMA GenerationStep == TypeOK /\ Control /\ Generation /\ [Next]_vars => Generation'
<1> SUFFICES ASSUME TypeOK, Control, Generation, [Next]_vars PROVE Generation'
  OBVIOUS
<1> USE DEF TypeOK, Control, Generation, GeneratedIsCommitted, control, history, Exit, Fault, Generating, Generates
<1>1. CASE Launch
  BY <1>1 DEF Launch
<1>2. CASE WorkerEdits
  BY <1>2 DEF WorkerEdits
<1>3. CASE BeginGenerate
  BY <1>3 DEF BeginGenerate
<1>4. CASE Generated
  BY <1>4 DEF Generated
<1>5. CASE CommitGenerated
  BY <1>5 DEF CommitGenerated
<1>6. CASE Advance
  BY <1>6 DEF Advance, NextPhase
<1>7. CASE RunE2e
  BY <1>7 DEF RunE2e
<1>8. CASE DebugEnds
  BY <1>8 DEF DebugEnds
<1>9. CASE Push
  BY <1>9 DEF Push
<1>10. CASE FileBug
  BY <1>10 DEF FileBug
<1>11. CASE GenerateFails
  BY <1>11 DEF GenerateFails
<1>12. CASE DebugOutage
  BY <1>12 DEF DebugOutage
<1>13. CASE Crash
  BY <1>13 DEF Crash
<1>14. CASE Delivered
  BY <1>14 DEF Delivered, vars
<1>15. CASE UNCHANGED vars
  BY <1>15 DEF vars
<1> QED
  BY <1>1, <1>2, <1>3, <1>4, <1>5, <1>6, <1>7, <1>8, <1>9, <1>10, <1>11, <1>12, <1>13, <1>14, <1>15 DEF Next, Running

\* Every step keeps what the E2E loop knows.
LEMMA OutcomeStep == TypeOK /\ Control /\ Protection /\ Generation /\ Outcome /\ [Next]_vars => Outcome'
<1> SUFFICES ASSUME TypeOK, Control, Protection, Generation, Outcome, [Next]_vars PROVE Outcome'
  OBVIOUS
<1> USE DEF TypeOK, Control, Protection, Generation, Outcome, ProtectedHeld, EndsGreenOrReported, control, history, Exit, Fault, Generating, Generates
<1>1. CASE Launch
  BY <1>1 DEF Launch
<1>2. CASE WorkerEdits
  BY <1>2 DEF WorkerEdits
<1>3. CASE BeginGenerate
  BY <1>3 DEF BeginGenerate
<1>4. CASE Generated
  BY <1>4 DEF Generated
<1>5. CASE CommitGenerated
  BY <1>5 DEF CommitGenerated
<1>6. CASE Advance
  BY <1>6 DEF Advance, NextPhase
<1>7. CASE RunE2e
  <2>1. phase = "e2e" /\ ~disturbed => work["e2e"] # None
    BY <1>7 DEF RunE2e, Protected
  <2>2. CASE work.e2e = None
    BY <1>7, <2>1, <2>2 DEF RunE2e
  <2>3. CASE work.e2e # None
    BY <1>7, <2>3 DEF RunE2e
  <2> QED
    BY <2>2, <2>3
<1>8. CASE DebugEnds
  BY <1>8 DEF DebugEnds
<1>9. CASE Push
  BY <1>9 DEF Push
<1>10. CASE FileBug
  BY <1>10 DEF FileBug
<1>11. CASE GenerateFails
  BY <1>11 DEF GenerateFails
<1>12. CASE DebugOutage
  BY <1>12 DEF DebugOutage
<1>13. CASE Crash
  BY <1>13 DEF Crash
<1>14. CASE Delivered
  BY <1>14 DEF Delivered, vars
<1>15. CASE UNCHANGED vars
  BY <1>15 DEF vars
<1> QED
  BY <1>1, <1>2, <1>3, <1>4, <1>5, <1>6, <1>7, <1>8, <1>9, <1>10, <1>11, <1>12, <1>13, <1>14, <1>15 DEF Next, Running

\* The inductive invariant holds in every reachable state.
THEOREM Invariant == Spec => []IInv
<1>1. Init => IInv
  <2> SUFFICES ASSUME Init PROVE IInv
    OBVIOUS
  <2> USE DEF Init
  <2>1. work \in Tree
    BY DEF Tree, Made
  <2>2. TypeOK
    <3>1. 1 \in 1..MaxAttempts /\ 0 \in 0..MaxFaults
      OBVIOUS
    <3>2. {work, head, mark} \subseteq Tree /\ {snap, remote} \subseteq Tree \cup {NoTree}
      BY <2>1
    <3> QED
      BY <3>1, <3>2 DEF TypeOK
  <2>3. Control
    BY DEF Control, Generating, Generates
  <2>4. Protection
    BY DEF Protection, ProtectedHeld
  <2>5. Generation
    BY DEF Generation, GeneratedIsCommitted
  <2>6. Outcome
    BY DEF Outcome, EndsGreenOrReported
  <2> QED
    BY <2>2, <2>3, <2>4, <2>5, <2>6 DEF IInv
<1>2. IInv /\ [Next]_vars => IInv'
  BY TypeStep, ControlStep, ProtectionStep, GenerationStep, OutcomeStep DEF IInv
<1> QED
  BY <1>1, <1>2, PTL DEF Spec

-----------------------------------------------------------------------------
\* Type correctness of DRIVER, E2E_SPEC and E2E.
THEOREM TypeCorrect == Spec => []TypeOK
<1>1. IInv => TypeOK
  BY DEF IInv
<1> QED
  BY <1>1, Invariant, PTL

\* snapshot and restore: outside worker calls the files a phase protects are what
\* they were when it was entered, over any number of runs of the phase, unless a
\* call that had changed them failed or was killed before they were put back.
THEOREM ProtectionHolds == Spec => []ProtectedHeld
<1>1. IInv => ProtectedHeld
  BY DEF IInv, Protection
<1> QED
  BY <1>1, Invariant, PTL

\* _commit_generated: from E2E on HEAD is what E2E_SPEC left in the worktree, unless
\* git refused a commit.
THEOREM GeneratedStays == Spec => []GeneratedIsCommitted
<1>1. IInv => GeneratedIsCommitted
  BY DEF IInv, Generation
<1> QED
  BY <1>1, Invariant, PTL

\* _e2e_loop: E2E ends with scenarios that pass or with a BUG ticket, and reports a
\* failure again only after a kill.
THEOREM EndIsReported == Spec => []E2eReported
<1>1. IInv => EndsGreenOrReported
  BY DEF IInv, Outcome
<1>2. IInv => OneBugPerKill
  <2> SUFFICES ASSUME IInv PROVE bugs <= 1 + faults
    BY DEF OneBugPerKill
  <2>1. bugs \in Nat /\ faults \in Nat
    BY DEF IInv, TypeOK
  <2>2. bugs <= faults + (IF pc = "save" \/ phase = "done" THEN 1 ELSE 0)
    BY DEF IInv, Outcome
  <2> QED
    BY <2>1, <2>2
<1>3. IInv => E2eReported
  BY <1>1, <1>2 DEF E2eReported
<1> QED
  BY <1>3, Invariant, PTL

\* deliver.push: what was pushed passes the scenarios, if HEAD was what was tested.
THEOREM PushIsTested == Spec => []PushedPasses
<1>1. IInv => PushedPasses
  BY DEF IInv, Outcome, PushedPasses
<1> QED
  BY <1>1, Invariant, PTL
==============================================================================
