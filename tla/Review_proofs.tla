--------------------------- MODULE Review_proofs ---------------------------
(***************************************************************************)
(* Proofs about Review, for every set of findings and routes, all limits   *)
(* and any number of kills; outages are not bounded at all.                *)
(*                                                                         *)
(* IInv adds to the properties which findings a process holds at each step *)
(* (Control), that a fix is only committed with a suite that passes        *)
(* (Suite), which open findings somebody is still going to look at         *)
(* (Decided), and where the fixes of closed findings are (Kept).           *)
(***************************************************************************)
EXTENDS Review, TLAPS, FiniteSetTheorems

InFix == {"fix", "answer", "commit", "block"}

\* A process holds open findings a machine can fix, the current one apart.
Control ==
  /\ cur = {} <=> pc \notin InFix
  /\ \A f \in cur : cur = {f} /\ f \notin todo /\ Route[f] # "human" /\ status[f] = (IF pc = "commit" THEN "done" ELSE "todo")
  /\ pc \notin InFix \cup {"fixes"} => todo = {}
  /\ todo \subseteq Actionable
  /\ pc = "fix" => attempt \in 1..MaxAttempts + 1
  /\ pc = "answer" => attempt \in 1..MaxAttempts
  /\ pc = "critic" => dry < 2
  /\ reviewDone => pc = "off"

\* What is committed passes the suite.
Suite ==
  /\ pc = "commit" => Green(work)
  /\ HeadStaysGreen

\* Findings for a person, and the others while nothing has disturbed the phase.
Decided ==
  /\ HumanFindingsParked
  /\ pc = "finish" => \A f \in Findings : Route[f] = "human" => status[f] # "todo"
  /\ ~disturbed /\ pc \notin InFix \cup {"fixes"} => Actionable = {}
  /\ ~disturbed => Actionable \subseteq todo \cup cur
  /\ ~disturbed /\ (reviewDone \/ pc = "finish") => Open = {}

\* The fix of a closed finding is at HEAD, or on its way there.
Kept ==
  crashes = 0 /\ ~missed =>
    \A f \in Findings : status[f] = "done" /\ Fixed(work, f) /\ ~(pc = "commit" /\ f \in cur) => Fixed(head, f)

\* The trees are finite, so that waivers can be counted.
Finite == IsFiniteSet(work) /\ IsFiniteSet(head)

IInv == TypeOK /\ Finite /\ Control /\ Suite /\ Decided /\ Kept

USE RouteAssumption, LimitsAssumption, SwitchAssumption

\* No finding or one is at most one.
LEMMA OneAtMost == Cardinality({}) = 0 /\ \A f : Cardinality({f}) = 1
BY FS_EmptySet, FS_Singleton


\* What a worker adds is finite, whatever the set of findings.
LEMMA ChangesFinite == ASSUME NEW f \in Findings PROVE IsFiniteSet(ChangesOf(f)) /\ ChangesOf(f) \subseteq Changes
<1> DEFINE One(k, n) == {[by |-> f, kind |-> k, new |-> n]}
           Six == One("fix", TRUE) \cup One("fix", FALSE) \cup One("waiver", TRUE) \cup One("waiver", FALSE)
                  \cup One("break", TRUE) \cup One("break", FALSE)
<1>1. \A k, n : IsFiniteSet(One(k, n))
  BY FS_Singleton
<1>2. IsFiniteSet(Six)
  <2> HIDE DEF One
  <2> QED
    BY <1>1, FS_Union
<1>3. ChangesOf(f) \subseteq Six
  BY DEF ChangesOf, Changes, Kinds
<1>4. ChangesOf(f) \in SUBSET Six
  BY <1>3
<1>5. IsFiniteSet(ChangesOf(f))
  <2> HIDE DEF Six
  <2> QED
    BY <1>2, <1>4, FS_Subset
<1> QED
  BY <1>5 DEF ChangesOf

\* Discarding leaves changes of the two trees.
LEMMA DiscardedTree ==
  ASSUME TypeOK, Finite
  PROVE  Discarded \subseteq Changes /\ IsFiniteSet(Discarded)
<1>1. Discarded \subseteq Changes
  BY DEF Discarded, TypeOK
<1>2. {c \in work : c.new} \in SUBSET work
  OBVIOUS
<1>3. IsFiniteSet({c \in work : c.new})
  BY <1>2, FS_Subset DEF Finite
<1> QED
  BY <1>1, <1>3, FS_Union DEF Discarded, Finite

\* What a worker leaves is a finite set of changes.
LEMMA EditedTree ==
  ASSUME TypeOK, Finite, NEW f \in Findings, NEW added \in SUBSET ChangesOf(f), NEW undone
  PROVE  (work \ undone) \cup added \subseteq Changes /\ IsFiniteSet((work \ undone) \cup added)
<1>1. work \ undone \in SUBSET work
  OBVIOUS
<1>2. IsFiniteSet(work \ undone)
  BY <1>1, FS_Subset DEF Finite
<1>3. IsFiniteSet(added)
  BY ChangesFinite, FS_Subset
<1> QED
  BY <1>2, <1>3, ChangesFinite, FS_Union DEF TypeOK

\* There are so many waivers.
LEMMA WaiversCounted == Finite => Cardinality(Of(work, "waiver")) \in Nat
<1> SUFFICES ASSUME Finite PROVE Cardinality(Of(work, "waiver")) \in Nat
  OBVIOUS
<1>1. Of(work, "waiver") \in SUBSET work
  BY DEF Of
<1> QED
  BY <1>1, FS_Subset, FS_CardinalityType DEF Finite

\* Every step keeps the types.
LEMMA TypeStep == TypeOK /\ Finite /\ Control /\ [Next]_vars => TypeOK'
<1> SUFFICES ASSUME TypeOK, Finite, Control, [Next]_vars PROVE TypeOK'
  OBVIOUS
<1> USE DEF TypeOK, Control, InFix, tree, memory, env, Exit, TryAgain, Committed
<1>1. CASE Start
  BY <1>1 DEF Start
<1>2. CASE BeginCycle
  BY <1>2 DEF BeginCycle, Open
<1>3. CASE CriticReports
  BY <1>3 DEF CriticReports, Filed, Open, Actionable
<1>4. CASE CriticUnavailable
  BY <1>4, OneAtMost DEF CriticUnavailable
<1>5. CASE CriticBreaksOff
  BY <1>5 DEF CriticBreaksOff
<1>6. CASE LoopEnds
  BY <1>6 DEF LoopEnds
<1>7. CASE Park
  BY <1>7 DEF Park, Parked
<1>8. CASE Finish
  BY <1>8, OneAtMost DEF Finish
<1>9. CASE NextFix
  <2>1. PICK f \in todo : cur' = {f} /\ todo' = todo \ {f}
    BY <1>9 DEF NextFix
  <2>2. cur' \subseteq Findings /\ Cardinality(cur') <= 1
    <3>1. Cardinality({f}) = 1
      BY OneAtMost, Zenon
    <3>2. Cardinality(cur') = 1
      BY <2>1, <3>1, Zenon
    <3>3. cur' \subseteq Findings
      BY <2>1
    <3> QED
      BY <3>2, <3>3
  <2>3. waivers' \in Nat /\ attempt' \in 0..MaxAttempts + 1
    BY <1>9, WaiversCounted DEF NextFix
  <2> QED
    BY <1>9, <2>1, <2>2, <2>3 DEF NextFix
<1>10. CASE FixesDone
  BY <1>10 DEF FixesDone
<1>11. CASE WorkerEdits
  <2>1. PICK f \in cur : \E added \in SUBSET ChangesOf(f), undone \in SUBSET Of(work, "break") :
          work' = (work \ undone) \cup added
    BY <1>11 DEF WorkerEdits
  <2>2. f \in Findings
    BY DEF TypeOK
  <2>3. work' \subseteq Changes /\ IsFiniteSet(work')
    <3>1. PICK added \in SUBSET ChangesOf(f), undone \in SUBSET Of(work, "break") : work' = (work \ undone) \cup added
      BY <2>1
    <3> QED
      BY <2>2, <3>1, EditedTree
  <2> QED
    BY <1>11, <2>3 DEF WorkerEdits
<1>12. CASE AnswerError
  BY <1>12 DEF AnswerError
<1>13. CASE AnswerOutage
  BY <1>13, DiscardedTree, OneAtMost DEF AnswerOutage
<1>14. CASE SuiteTimesOut
  BY <1>14, DiscardedTree, OneAtMost DEF SuiteTimesOut
<1>15. CASE SuiteFails
  BY <1>15 DEF SuiteFails
<1>16. CASE SuiteWaived
  BY <1>16 DEF SuiteWaived
<1>17. CASE SuitePasses
  BY <1>17 DEF SuitePasses
<1>18. CASE Commit
  BY <1>18, OneAtMost DEF Commit
<1>19. CASE CommitSkipped
  BY <1>19, OneAtMost DEF CommitSkipped
<1>20. CASE GiveUp
  BY <1>20, DiscardedTree DEF GiveUp
<1>21. CASE BlockFinding
  BY <1>21, OneAtMost DEF BlockFinding
<1>22. CASE Crash
  BY <1>22, DiscardedTree, OneAtMost DEF Crash
<1>23. CASE Over
  BY <1>23 DEF Over, vars
<1>24. CASE UNCHANGED vars
  BY <1>24 DEF vars
<1> QED
  BY <1>1, <1>2, <1>3, <1>4, <1>5, <1>6, <1>7, <1>8, <1>9, <1>10, <1>11, <1>12, <1>13, <1>14, <1>15, <1>16, <1>17, <1>18, <1>19, <1>20, <1>21, <1>22, <1>23, <1>24 DEF Next, Running

\* Every step keeps the trees finite.
LEMMA FiniteStep == TypeOK /\ Finite /\ [Next]_vars => Finite'
<1> SUFFICES ASSUME TypeOK, Finite, [Next]_vars PROVE Finite'
  OBVIOUS
<1> USE DEF Finite, tree, memory, env, Exit, TryAgain, Committed
<1>1. CASE Start
  BY <1>1 DEF Start
<1>2. CASE BeginCycle
  BY <1>2 DEF BeginCycle
<1>3. CASE CriticReports
  BY <1>3 DEF CriticReports
<1>4. CASE CriticUnavailable
  BY <1>4 DEF CriticUnavailable
<1>5. CASE CriticBreaksOff
  BY <1>5 DEF CriticBreaksOff
<1>6. CASE LoopEnds
  BY <1>6 DEF LoopEnds
<1>7. CASE Park
  BY <1>7 DEF Park
<1>8. CASE Finish
  BY <1>8 DEF Finish
<1>9. CASE NextFix
  BY <1>9 DEF NextFix
<1>10. CASE FixesDone
  BY <1>10 DEF FixesDone
<1>11. CASE WorkerEdits
  <2>1. PICK f \in cur : \E added \in SUBSET ChangesOf(f), undone \in SUBSET Of(work, "break") :
          work' = (work \ undone) \cup added
    BY <1>11 DEF WorkerEdits
  <2>2. f \in Findings
    BY DEF TypeOK
  <2>3. work' \subseteq Changes /\ IsFiniteSet(work')
    <3>1. PICK added \in SUBSET ChangesOf(f), undone \in SUBSET Of(work, "break") : work' = (work \ undone) \cup added
      BY <2>1
    <3> QED
      BY <2>2, <3>1, EditedTree
  <2> QED
    BY <1>11, <2>3 DEF WorkerEdits
<1>12. CASE AnswerError
  BY <1>12 DEF AnswerError
<1>13. CASE AnswerOutage
  BY <1>13, DiscardedTree DEF AnswerOutage
<1>14. CASE SuiteTimesOut
  BY <1>14, DiscardedTree DEF SuiteTimesOut
<1>15. CASE SuiteFails
  BY <1>15 DEF SuiteFails
<1>16. CASE SuiteWaived
  BY <1>16 DEF SuiteWaived
<1>17. CASE SuitePasses
  BY <1>17 DEF SuitePasses
<1>18. CASE Commit
  BY <1>18 DEF Commit
<1>19. CASE CommitSkipped
  BY <1>19 DEF CommitSkipped
<1>20. CASE GiveUp
  BY <1>20, DiscardedTree DEF GiveUp
<1>21. CASE BlockFinding
  BY <1>21 DEF BlockFinding
<1>22. CASE Crash
  BY <1>22, DiscardedTree DEF Crash
<1>23. CASE Over
  BY <1>23 DEF Over, vars
<1>24. CASE UNCHANGED vars
  BY <1>24 DEF vars
<1> QED
  BY <1>1, <1>2, <1>3, <1>4, <1>5, <1>6, <1>7, <1>8, <1>9, <1>10, <1>11, <1>12, <1>13, <1>14, <1>15, <1>16, <1>17, <1>18, <1>19, <1>20, <1>21, <1>22, <1>23, <1>24 DEF Next, Running

\* Every step keeps what a process holds.
LEMMA ControlStep == TypeOK /\ Control /\ [Next]_vars => Control'
<1> SUFFICES ASSUME TypeOK, Control, [Next]_vars PROVE Control'
  OBVIOUS
<1> USE DEF TypeOK, Control, InFix, Actionable, Open, tree, memory, env, Exit, TryAgain, Committed
<1>1. CASE Start
  BY <1>1 DEF Start
<1>2. CASE BeginCycle
  BY <1>2 DEF BeginCycle
<1>3. CASE CriticReports
  BY <1>3 DEF CriticReports, Filed
<1>4. CASE CriticUnavailable
  BY <1>4 DEF CriticUnavailable
<1>5. CASE CriticBreaksOff
  BY <1>5 DEF CriticBreaksOff
<1>6. CASE LoopEnds
  BY <1>6 DEF LoopEnds
<1>7. CASE Park
  BY <1>7 DEF Park, Parked
<1>8. CASE Finish
  BY <1>8 DEF Finish
<1>9. CASE NextFix
  BY <1>9 DEF NextFix
<1>10. CASE FixesDone
  BY <1>10 DEF FixesDone
<1>11. CASE WorkerEdits
  BY <1>11 DEF WorkerEdits
<1>12. CASE AnswerError
  BY <1>12 DEF AnswerError
<1>13. CASE AnswerOutage
  BY <1>13 DEF AnswerOutage
<1>14. CASE SuiteTimesOut
  BY <1>14 DEF SuiteTimesOut
<1>15. CASE SuiteFails
  BY <1>15 DEF SuiteFails
<1>16. CASE SuiteWaived
  BY <1>16 DEF SuiteWaived
<1>17. CASE SuitePasses
  BY <1>17 DEF SuitePasses
<1>18. CASE Commit
  BY <1>18 DEF Commit
<1>19. CASE CommitSkipped
  BY <1>19 DEF CommitSkipped
<1>20. CASE GiveUp
  BY <1>20 DEF GiveUp
<1>21. CASE BlockFinding
  BY <1>21 DEF BlockFinding
<1>22. CASE Crash
  BY <1>22 DEF Crash
<1>23. CASE Over
  BY <1>23 DEF Over, vars
<1>24. CASE UNCHANGED vars
  BY <1>24 DEF vars
<1> QED
  BY <1>1, <1>2, <1>3, <1>4, <1>5, <1>6, <1>7, <1>8, <1>9, <1>10, <1>11, <1>12, <1>13, <1>14, <1>15, <1>16, <1>17, <1>18, <1>19, <1>20, <1>21, <1>22, <1>23, <1>24 DEF Next, Running

\* Every step keeps HEAD green.
LEMMA SuiteStep == TypeOK /\ Suite /\ [Next]_vars => Suite'
<1> SUFFICES ASSUME TypeOK, Suite, [Next]_vars PROVE Suite'
  OBVIOUS
<1> USE DEF TypeOK, Suite, HeadStaysGreen, tree, memory, env, Exit, TryAgain, Committed
<1>1. CASE Start
  BY <1>1 DEF Start
<1>2. CASE BeginCycle
  BY <1>2 DEF BeginCycle
<1>3. CASE CriticReports
  BY <1>3 DEF CriticReports
<1>4. CASE CriticUnavailable
  BY <1>4 DEF CriticUnavailable
<1>5. CASE CriticBreaksOff
  BY <1>5 DEF CriticBreaksOff
<1>6. CASE LoopEnds
  BY <1>6 DEF LoopEnds
<1>7. CASE Park
  BY <1>7 DEF Park
<1>8. CASE Finish
  BY <1>8 DEF Finish
<1>9. CASE NextFix
  BY <1>9 DEF NextFix
<1>10. CASE FixesDone
  BY <1>10 DEF FixesDone
<1>11. CASE WorkerEdits
  BY <1>11 DEF WorkerEdits
<1>12. CASE AnswerError
  BY <1>12 DEF AnswerError
<1>13. CASE AnswerOutage
  BY <1>13 DEF AnswerOutage
<1>14. CASE SuiteTimesOut
  BY <1>14 DEF SuiteTimesOut
<1>15. CASE SuiteFails
  BY <1>15 DEF SuiteFails
<1>16. CASE SuiteWaived
  BY <1>16 DEF SuiteWaived
<1>17. CASE SuitePasses
  BY <1>17 DEF SuitePasses
<1>18. CASE Commit
  BY <1>18 DEF Commit
<1>19. CASE CommitSkipped
  BY <1>19 DEF CommitSkipped
<1>20. CASE GiveUp
  BY <1>20 DEF GiveUp
<1>21. CASE BlockFinding
  BY <1>21 DEF BlockFinding
<1>22. CASE Crash
  BY <1>22 DEF Crash
<1>23. CASE Over
  BY <1>23 DEF Over, vars
<1>24. CASE UNCHANGED vars
  BY <1>24 DEF vars
<1> QED
  BY <1>1, <1>2, <1>3, <1>4, <1>5, <1>6, <1>7, <1>8, <1>9, <1>10, <1>11, <1>12, <1>13, <1>14, <1>15, <1>16, <1>17, <1>18, <1>19, <1>20, <1>21, <1>22, <1>23, <1>24 DEF Next, Running

\* Every step keeps somebody responsible for each open finding.
LEMMA DecidedStep == TypeOK /\ Control /\ Decided /\ [Next]_vars => Decided'
<1> SUFFICES ASSUME TypeOK, Control, Decided, [Next]_vars PROVE Decided'
  OBVIOUS
<1> USE DEF TypeOK, Control, Decided, InFix, HumanFindingsParked, Actionable, Open, tree, memory, env, Exit, TryAgain, Committed
<1>1. CASE Start
  BY <1>1 DEF Start
<1>2. CASE BeginCycle
  BY <1>2 DEF BeginCycle
<1>3. CASE CriticReports
  BY <1>3 DEF CriticReports, Filed
<1>4. CASE CriticUnavailable
  BY <1>4 DEF CriticUnavailable
<1>5. CASE CriticBreaksOff
  BY <1>5 DEF CriticBreaksOff
<1>6. CASE LoopEnds
  BY <1>6 DEF LoopEnds
<1>7. CASE Park
  BY <1>7 DEF Park, Parked
<1>8. CASE Finish
  BY <1>8 DEF Finish
<1>9. CASE NextFix
  BY <1>9 DEF NextFix
<1>10. CASE FixesDone
  BY <1>10 DEF FixesDone
<1>11. CASE WorkerEdits
  BY <1>11 DEF WorkerEdits
<1>12. CASE AnswerError
  BY <1>12 DEF AnswerError
<1>13. CASE AnswerOutage
  BY <1>13 DEF AnswerOutage
<1>14. CASE SuiteTimesOut
  BY <1>14 DEF SuiteTimesOut
<1>15. CASE SuiteFails
  BY <1>15 DEF SuiteFails
<1>16. CASE SuiteWaived
  BY <1>16 DEF SuiteWaived
<1>17. CASE SuitePasses
  BY <1>17 DEF SuitePasses
<1>18. CASE Commit
  BY <1>18 DEF Commit
<1>19. CASE CommitSkipped
  BY <1>19 DEF CommitSkipped
<1>20. CASE GiveUp
  BY <1>20 DEF GiveUp
<1>21. CASE BlockFinding
  BY <1>21 DEF BlockFinding
<1>22. CASE Crash
  BY <1>22 DEF Crash
<1>23. CASE Over
  BY <1>23 DEF Over, vars
<1>24. CASE UNCHANGED vars
  BY <1>24 DEF vars
<1> QED
  BY <1>1, <1>2, <1>3, <1>4, <1>5, <1>6, <1>7, <1>8, <1>9, <1>10, <1>11, <1>12, <1>13, <1>14, <1>15, <1>16, <1>17, <1>18, <1>19, <1>20, <1>21, <1>22, <1>23, <1>24 DEF Next, Running

\* Every step keeps the fixes of closed findings.
LEMMA KeptStep == TypeOK /\ Control /\ Kept /\ [Next]_vars => Kept'
<1> SUFFICES ASSUME TypeOK, Control, Kept, [Next]_vars PROVE Kept'
  OBVIOUS
<1> USE DEF TypeOK, Control, Kept, InFix, tree, memory, env, Exit, TryAgain, Committed
<1>1. CASE Start
  BY <1>1 DEF Start
<1>2. CASE BeginCycle
  BY <1>2 DEF BeginCycle
<1>3. CASE CriticReports
  BY <1>3 DEF CriticReports, Filed
<1>4. CASE CriticUnavailable
  BY <1>4 DEF CriticUnavailable
<1>5. CASE CriticBreaksOff
  BY <1>5 DEF CriticBreaksOff
<1>6. CASE LoopEnds
  BY <1>6 DEF LoopEnds
<1>7. CASE Park
  BY <1>7 DEF Park, Parked, Open, Actionable
<1>8. CASE Finish
  BY <1>8 DEF Finish
<1>9. CASE NextFix
  BY <1>9 DEF NextFix
<1>10. CASE FixesDone
  BY <1>10 DEF FixesDone
<1>11. CASE WorkerEdits
  <2>1. SUFFICES ASSUME crashes = 0, ~missed, NEW f \in Findings, status[f] = "done", Fixed(work', f)
                PROVE  Fixed(head, f)
    BY <1>11 DEF WorkerEdits, env, Kept
  <2>2. PICK g \in cur : \E added \in SUBSET ChangesOf(g), undone \in SUBSET Of(work, "break") :
          work' = (work \ undone) \cup added
    BY <1>11 DEF WorkerEdits
  <2>3. f # g
    BY <1>11, <2>1 DEF Control, WorkerEdits
  <2>4. Fixed(work, f)
    BY <2>1, <2>2, <2>3 DEF Fixed, ChangesOf
  <2> QED
    BY <1>11, <2>1, <2>4 DEF WorkerEdits, Kept
<1>12. CASE AnswerError
  BY <1>12 DEF AnswerError
<1>13. CASE AnswerOutage
  BY <1>13 DEF AnswerOutage, Discarded, Fixed
<1>14. CASE SuiteTimesOut
  BY <1>14 DEF SuiteTimesOut, Discarded, Fixed
<1>15. CASE SuiteFails
  BY <1>15 DEF SuiteFails
<1>16. CASE SuiteWaived
  BY <1>16 DEF SuiteWaived
<1>17. CASE SuitePasses
  BY <1>17 DEF SuitePasses
<1>18. CASE Commit
  BY <1>18 DEF Commit
<1>19. CASE CommitSkipped
  BY <1>19 DEF CommitSkipped
<1>20. CASE GiveUp
  BY <1>20 DEF GiveUp, Discarded, Fixed
<1>21. CASE BlockFinding
  BY <1>21 DEF BlockFinding
<1>22. CASE Crash
  BY <1>22 DEF Crash
<1>23. CASE Over
  BY <1>23 DEF Over, vars
<1>24. CASE UNCHANGED vars
  BY <1>24 DEF vars
<1> QED
  BY <1>1, <1>2, <1>3, <1>4, <1>5, <1>6, <1>7, <1>8, <1>9, <1>10, <1>11, <1>12, <1>13, <1>14, <1>15, <1>16, <1>17, <1>18, <1>19, <1>20, <1>21, <1>22, <1>23, <1>24 DEF Next, Running

\* The inductive invariant holds in every reachable state.
THEOREM Invariant == Spec => []IInv
<1>1. Init => IInv
  <2> SUFFICES ASSUME Init PROVE IInv
    OBVIOUS
  <2> USE DEF Init
  <2>1. TypeOK
    <3>1. 0 \in 0..MaxCycles /\ 0 \in 0..MaxAttempts + 1 /\ 0 \in 0..MaxCrashes
      OBVIOUS
    <3>2. status \in [Findings -> {"none", "todo", "done", "blocked"}]
      OBVIOUS
    <3>3. Cardinality(cur) = 0
      BY OneAtMost, Zenon
    <3>4. Cardinality(cur) <= 1
      BY <3>3
    <3>5. dry \in 0..2 /\ before \subseteq Findings /\ todo \subseteq Findings /\ cur \subseteq Findings
      OBVIOUS
    <3>6. pc = "off" /\ disturbed \in BOOLEAN /\ missed \in BOOLEAN /\ reviewDone \in BOOLEAN /\ waivers \in Nat
      OBVIOUS
    <3>7. work \subseteq Changes /\ head \subseteq Changes
      OBVIOUS
    <3>8. cycles \in 0..MaxCycles /\ attempt \in 0..MaxAttempts + 1 /\ crashes \in 0..MaxCrashes
      BY <3>1
    <3> QED
      BY <3>2, <3>4, <3>5, <3>6, <3>7, <3>8, Zenon DEF TypeOK
  <2>2. Finite
    BY FS_EmptySet DEF Finite
  <2>3. Control
    BY DEF Control, InFix
  <2>4. Suite
    BY DEF Suite, HeadStaysGreen, Green, Of
  <2>5. Decided
    BY DEF Decided, HumanFindingsParked, Actionable, Open, InFix
  <2>6. Kept
    BY DEF Kept
  <2> QED
    BY <2>1, <2>2, <2>3, <2>4, <2>5, <2>6 DEF IInv
<1>2. IInv /\ [Next]_vars => IInv'
  BY TypeStep, FiniteStep, ControlStep, SuiteStep, DecidedStep, KeptStep DEF IInv
<1> QED
  BY <1>1, <1>2, PTL DEF Spec

-----------------------------------------------------------------------------
\* Type correctness of REVIEW: a cycle and an attempt never go past their limits.
THEOREM TypeCorrect == Spec => []TypeOK
<1>1. IInv => TypeOK
  BY DEF IInv
<1> QED
  BY <1>1, Invariant, PTL

\* park_human_findings: a finding only a person can decide is never closed by the
\* machine, and is blocked when the phase is over.
THEOREM PersonsAreAsked == Spec => []HumanFindingsParked
<1>1. IInv => HumanFindingsParked
  BY DEF IInv, Decided
<1> QED
  BY <1>1, Invariant, PTL

\* remediate.fix: HEAD never gets a failing suite, with any leftovers in the
\* worktree, any kills and any outages.
THEOREM HeadIsGreen == Spec => []HeadStaysGreen
<1>1. IInv => HeadStaysGreen
  BY DEF IInv, Suite
<1> QED
  BY <1>1, Invariant, PTL

\* _review_loop: a phase that was not disturbed leaves no finding open.
THEOREM AllIsDecided == Spec => []UndisturbedDecidesAll
<1>1. IInv => UndisturbedDecidesAll
  BY DEF IInv, Decided, UndisturbedDecidesAll
<1> QED
  BY <1>1, Invariant, PTL

\* _discard: while commits are made and nothing is killed, no step takes the fix of
\* a closed finding out of the worktree.
THEOREM FixesStay == Spec => SolvedStaysSolved
<1>1. IInv /\ [Next]_vars =>
        [crashes' = 0 /\ ~missed' =>
           \A f \in Findings : status[f] = "done" /\ Fixed(work, f) /\ pc # "commit" => Fixed(work', f)]_vars
  <2> SUFFICES ASSUME IInv, [Next]_vars, crashes' = 0, ~missed',
                      NEW f \in Findings, status[f] = "done", Fixed(work, f), pc # "commit"
               PROVE  Fixed(work', f)
    OBVIOUS
  <2>1. crashes = 0 /\ ~missed
    <3> USE DEF tree, memory, env, Exit, TryAgain, Committed, TypeOK, IInv
    <3>1. CASE Crash
      BY <3>1 DEF Crash
    <3>2. CASE CommitSkipped
      BY <3>2 DEF CommitSkipped
    <3>3. CASE ~Crash /\ ~CommitSkipped
      BY <3>3 DEF Next, Running, vars, Start, Over, BeginCycle, CriticReports, CriticUnavailable, CriticBreaksOff,
            LoopEnds, Park, Finish, NextFix, FixesDone, WorkerEdits, AnswerError, AnswerOutage, SuiteTimesOut,
            SuiteFails, SuiteWaived, SuitePasses, Commit, GiveUp, BlockFinding
    <3> QED
      BY <3>1, <3>2, <3>3
  <2>2. Fixed(head, f)
    BY <2>1 DEF IInv, Kept
  <2>3. Fixed(Discarded, f)
    BY <2>2 DEF Fixed, Discarded
  <2>4. CASE WorkerEdits
    BY <2>4 DEF WorkerEdits, Fixed, Of
  <2>5. CASE ~WorkerEdits
    <3>1. work' = work \/ work' = Discarded
      BY <2>5 DEF Next, Running, vars, tree, Start, Over, BeginCycle, CriticReports, CriticUnavailable, CriticBreaksOff,
            LoopEnds, Park, Finish, NextFix, FixesDone, AnswerError, AnswerOutage, SuiteTimesOut,
            SuiteFails, SuiteWaived, SuitePasses, Commit, CommitSkipped, GiveUp, BlockFinding, Crash
    <3> QED
      BY <3>1, <2>3
  <2> QED
    BY <2>4, <2>5
<1> QED
  BY <1>1, Invariant, PTL DEF Spec, SolvedStaysSolved
==============================================================================
