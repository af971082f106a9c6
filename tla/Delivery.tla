------------------------------ MODULE Delivery ------------------------------
(***************************************************************************)
(* From the finished stories to the remote: DRIVER and E2E_SPEC have a     *)
(* worker generate the entry point and the scenarios, take back what it    *)
(* did to the files it must leave alone, and commit; E2E runs the          *)
(* scenarios, has failures debugged, and pushes or files a BUG.            *)
(*                                                                         *)
(* A worker has its tools in the whole repository and may leave any tree.  *)
(* A tree maps four groups of files to their content; a changed, a deleted *)
(* and a truncated file of a group that exists are all its other content.  *)
(***************************************************************************)
EXTENDS Naturals

CONSTANTS
  Passing,      \* the trees on which the scenarios pass
  MaxAttempts,  \* limits.e2e_attempts
  PushAuto,     \* gates.push = "auto"
  MaxFaults     \* bound: kills, failed worker calls and uncaught exceptions

None == "none"
Made == {"x", "y"}

\* app: the domain code.  entry: app/__main__.py.
\* unit: tests/test_fsm.py.  e2e: tests/e2e/test_scenarios.py.
Tree == [app : Made, unit : Made, entry : Made \cup {None}, e2e : Made \cup {None}]

NoTree == [none |-> None]

ASSUME PassingAssumption  == Passing \subseteq Tree
ASSUME AttemptsAssumption == MaxAttempts \in Nat \ {0}
ASSUME PushAutoAssumption == PushAuto \in BOOLEAN
ASSUME FaultsAssumption   == MaxFaults \in Nat

\* What a phase generates, and what it takes back of its worker's edits.
Generates == [driver |-> "entry", e2e_spec |-> "e2e"]
Protected == [driver |-> {"app"}, e2e_spec |-> {"unit"}, e2e |-> {"unit", "e2e"}]
NextPhase == [driver |-> "e2e_spec", e2e_spec |-> "e2e", e2e |-> "done"]

VARIABLES
  phase,      \* state.json: the phase
  pc,         \* where the running process is
  attempt,    \* the attempt of the E2E loop, in memory
  snap,       \* the tree a worker call started from, in memory
  work, head, \* the worktree and HEAD
  remote,     \* what was pushed last
  bugs,       \* E2E tickets in the tracker
  faults,
  mark,       \* history: the worktree when the phase was first entered
  disturbed,  \* history: a call of this phase ended before its edits were taken back
  refused,    \* history: git turned a commit of a generated file down
  idle        \* history: in this run's E2E loop the worker could not be called

control == <<phase, pc, attempt, snap>>
history == <<mark, disturbed, refused, idle>>
vars    == <<control, work, head, remote, bugs, faults, history>>

Init ==
  /\ work \in [app : Made, unit : {"x"}, entry : {None}, e2e : {None}]
  /\ phase = "driver" /\ pc = "off" /\ attempt = 1 /\ snap = NoTree
  /\ head = work /\ remote = NoTree /\ bugs = 0 /\ faults = 0
  /\ mark = work /\ disturbed = FALSE /\ refused = FALSE /\ idle = FALSE

Exit == pc' = "off" /\ attempt' = 1 /\ snap' = NoTree /\ UNCHANGED phase

Fault == faults < MaxFaults /\ faults' = faults + 1

Launch ==
  /\ pc = "off" /\ phase # "done"
  /\ pc' = "begin" /\ idle' = FALSE
  /\ UNCHANGED <<phase, attempt, snap, work, head, remote, bugs, faults, mark, disturbed, refused>>

\* While a worker runs it edits whatever it likes.
WorkerEdits ==
  /\ pc = "call"
  /\ work' \in Tree
  /\ pc' = "answer"
  /\ UNCHANGED <<phase, attempt, snap, head, remote, bugs, faults, history>>

\* Mutant: nothing is taken back.
RestoredNothing == work

\* The protected files as the snapshot has them, the rest as the worker left it.
Restored == [f \in DOMAIN work |-> IF f \in Protected[phase] THEN snap[f] ELSE work[f]]

\* There are edits that are still to be taken back.
Tampered == pc = "answer" /\ Restored # work

-----------------------------------------------------------------------------
(* DRIVER and E2E_SPEC.                                                    *)

Generating == phase \in DOMAIN Generates

\* Mutant: the phase is over when the file exists.
BeginGenerateDone ==
  /\ pc = "begin" /\ Generating
  /\ IF work[Generates[phase]] = None THEN pc' = "call" /\ snap' = work
                                       ELSE pc' = "save" /\ UNCHANGED snap
  /\ UNCHANGED <<phase, attempt, work, head, remote, bugs, faults, history>>

\* An existing file is kept, whoever wrote it.
BeginGenerate ==
  /\ pc = "begin" /\ Generating
  /\ IF work[Generates[phase]] = None THEN pc' = "call" /\ snap' = work
                                       ELSE pc' = "commit" /\ UNCHANGED snap
  /\ UNCHANGED <<phase, attempt, work, head, remote, bugs, faults, history>>

\* The call failed: the phase raises before it has taken anything back.
GenerateFails ==
  /\ pc = "answer" /\ Generating /\ Fault
  /\ Exit
  /\ disturbed' = (disturbed \/ Tampered)
  /\ UNCHANGED <<work, head, remote, bugs, mark, refused, idle>>

\* Otherwise it does so, and raises only then if the file is not there.
Generated ==
  /\ pc = "answer" /\ Generating
  /\ work' = Restored
  /\ IF work'[Generates[phase]] = None
     THEN Exit
     ELSE pc' = "commit" /\ snap' = NoTree /\ UNCHANGED <<phase, attempt>>
  /\ UNCHANGED <<head, remote, bugs, faults, history>>

\* git add -A and commit; a failed commit goes unnoticed.
CommitGenerated ==
  /\ pc = "commit"
  /\ \/ head' = work /\ UNCHANGED refused
     \/ work # head /\ refused' = TRUE /\ UNCHANGED head
  /\ pc' = "save"
  /\ UNCHANGED <<phase, attempt, snap, work, remote, bugs, faults, mark, disturbed, idle>>

\* The phase is done and the next one begins.
Advance ==
  /\ pc = "save"
  /\ phase' = NextPhase[phase]
  /\ IF phase = "e2e" THEN pc' = "off" /\ UNCHANGED <<mark, disturbed>>
                      ELSE pc' = "begin" /\ mark' = work /\ disturbed' = FALSE
  /\ UNCHANGED <<attempt, snap, work, head, remote, bugs, faults, refused, idle>>

-----------------------------------------------------------------------------
(* E2E.                                                                    *)

\* Mutant: the scenarios' result is not looked at.
RunE2eAnyResult ==
  /\ pc = "begin" /\ phase = "e2e"
  /\ pc' = (IF work.e2e = None \/ ~PushAuto THEN "save" ELSE "push")
  /\ UNCHANGED <<phase, attempt, snap, work, head, remote, bugs, faults, history>>

\* Mutant: one attempt too many.
RunE2eOneMore ==
  /\ pc = "begin" /\ phase = "e2e" /\ work.e2e # None
  /\ work \notin Passing /\ attempt <= MaxAttempts /\ pc' = "call" /\ snap' = work
  /\ UNCHANGED <<phase, attempt, work, head, remote, bugs, faults, history>>

\* No scenarios, a pass, a failure to debug, or the last failure.
RunE2e ==
  /\ pc = "begin" /\ phase = "e2e"
  /\ \/ work.e2e = None /\ pc' = "save" /\ UNCHANGED snap
     \/ work.e2e # None /\ work \in Passing /\ pc' = (IF PushAuto THEN "push" ELSE "save") /\ UNCHANGED snap
     \/ work.e2e # None /\ work \notin Passing /\ attempt < MaxAttempts /\ pc' = "call" /\ snap' = work
     \/ work.e2e # None /\ work \notin Passing /\ attempt = MaxAttempts /\ pc' = "bug" /\ UNCHANGED snap
  /\ UNCHANGED <<phase, attempt, work, head, remote, bugs, faults, history>>

\* Mutant: the loop does not count.
DebugEndsUncounted ==
  /\ pc = "answer" /\ phase = "e2e"
  /\ work' = Restored /\ snap' = NoTree
  /\ pc' = "begin"
  /\ UNCHANGED <<phase, attempt, head, remote, bugs, faults, history>>

\* The tests are put back whether the call succeeded or not, and what the
\* call returned is not looked at.
DebugEnds ==
  /\ pc = "answer" /\ phase = "e2e"
  /\ work' = Restored /\ snap' = NoTree
  /\ attempt' = attempt + 1
  /\ pc' = "begin"
  /\ UNCHANGED <<phase, head, remote, bugs, faults, history>>

\* So a worker that cannot be called at all uses an attempt up as well.
DebugOutage ==
  /\ pc = "call" /\ phase = "e2e"
  /\ idle' = TRUE
  /\ attempt' = attempt + 1
  /\ pc' = "begin" /\ snap' = NoTree
  /\ UNCHANGED <<phase, work, head, remote, bugs, faults, mark, disturbed, refused>>

\* HEAD goes out; the worktree is what was tested.  A failed push is logged.
Push ==
  /\ pc = "push"
  /\ remote' \in {head, remote}
  /\ pc' = "save"
  /\ UNCHANGED <<phase, attempt, snap, work, head, bugs, faults, history>>

\* Mutant: the BUG ticket is not written.
FileBugNot ==
  /\ pc = "bug"
  /\ pc' = "save"
  /\ UNCHANGED <<phase, attempt, snap, work, head, remote, bugs, faults, history>>

FileBug ==
  /\ pc = "bug"
  /\ bugs' = bugs + 1
  /\ pc' = "save"
  /\ UNCHANGED <<phase, attempt, snap, work, head, remote, faults, history>>

\* A kill, or an exception nobody catches, such as a suite's TimeoutExpired.
Crash ==
  /\ pc # "off" /\ Fault
  /\ Exit
  /\ disturbed' = (disturbed \/ Tampered)
  /\ UNCHANGED <<work, head, remote, bugs, mark, refused, idle>>

Delivered == phase = "done" /\ UNCHANGED vars

Running ==
  WorkerEdits \/ BeginGenerate \/ Generated \/ CommitGenerated \/ Advance
  \/ RunE2e \/ DebugEnds \/ Push \/ FileBug

Next == Launch \/ Running \/ GenerateFails \/ DebugOutage \/ Crash \/ Delivered

Spec == Init /\ [][Next]_vars

\* A stopped run is started again, and a running one goes on: worker calls
\* and test runs have timeouts.  A worker asked for the same file time and
\* again leaves it one time.
WorkerDelivers == WorkerEdits /\ Generating /\ work'[Generates[phase]] # None

FairSpec == Spec /\ WF_vars(Launch) /\ WF_vars(Running) /\ SF_vars(WorkerDelivers)

-----------------------------------------------------------------------------
(* Properties.                                                             *)

\* Every variable has its type.
TypeOK ==
  /\ phase \in {"driver", "e2e_spec", "e2e", "done"}
  /\ pc \in {"off", "begin", "call", "answer", "commit", "save", "push", "bug"}
  /\ attempt \in 1..MaxAttempts /\ bugs \in Nat /\ faults \in 0..MaxFaults
  /\ {work, head, mark} \subseteq Tree /\ {snap, remote} \subseteq Tree \cup {NoTree}
  /\ {disturbed, refused, idle} \subseteq BOOLEAN

\* entry.py, build.py and deliver.py, the protection of files: outside worker
\* calls the domain code is what it was when DRIVER was entered, the unit
\* tests what they were when E2E_SPEC was, and both suites what they were
\* when E2E was, over any number of runs, unless a call that changed them
\* failed or was killed.
ProtectedHeld ==
  phase # "done" /\ pc \notin {"call", "answer"} /\ ~disturbed =>
    \A f \in Protected[phase] : work[f] = mark[f]

\* orchestrator._commit_generated: what DRIVER and E2E_SPEC leave in the
\* worktree is at HEAD before E2E begins, however often they were interrupted,
\* unless git refused: the clean-up of REVIEW must not take it away.
GeneratedIsCommitted == phase \in {"e2e", "done"} /\ ~refused => head = mark

\* orchestrator._e2e_loop: E2E ends without a BUG only if the scenarios pass
\* in the worktree, unless a killed worker had tampered with them.
EndsGreenOrReported == phase = "done" /\ bugs = 0 /\ ~disturbed => work \in Passing

\* Only a kill makes E2E report the same failure again.
OneBugPerKill == bugs <= 1 + faults

\* E2E ends green or with the failure reported, once.
E2eReported == EndsGreenOrReported /\ OneBugPerKill

\* What is pushed passes the scenarios as long as HEAD is what was tested, that is
\* if nothing had to be debugged and no commit was refused.
PushedPasses == remote # NoTree /\ head = work => remote \in Passing

\* With finitely many faults the phases end.
Delivers == <>(phase = "done")

\* worker/base.WorkerUnavailable: a worker that cannot be called uses no
\* attempt up.
OutageIsNoAttempt == pc = "bug" => ~idle
=============================================================================
