------------------------------- MODULE Review -------------------------------
(***************************************************************************)
(* The REVIEW phase: Orchestrator._review_loop, critic.review and _file,   *)
(* and remediate.fix, with the worktree and HEAD they leave behind.        *)
(*                                                                         *)
(* A finding is the signature critic._file gives it.  A tree is the set of *)
(* changes the fix workers made to it since the phase began, when the      *)
(* suite was green: a fix, a waiver (xfail or skip), or a break that turns *)
(* the suite red -- in a file git tracks, or in a new file it does not.    *)
(* A worker adds changes of the finding it works on, and may take back any *)
(* break; it does not undo another finding's fix.                          *)
(***************************************************************************)
EXTENDS Naturals, FiniteSets

CONSTANTS
  Findings,     \* what the critic may report
  Route,        \* remediate.route: who can fix each: "test", "code" or "human"
  MaxCycles,    \* limits.critic_cycles
  MaxAttempts,  \* limits.implement_attempts
  CommitAuto,   \* gates.commit = "auto"
  CriticFails,  \* whether critic.review may raise RuntimeError
  MaxCrashes    \* bound: how often the process is killed

ASSUME RouteAssumption  == Route \in [Findings -> {"test", "code", "human"}]
ASSUME LimitsAssumption == MaxCycles \in Nat /\ MaxAttempts \in Nat /\ MaxCrashes \in Nat
ASSUME SwitchAssumption == CommitAuto \in BOOLEAN /\ CriticFails \in BOOLEAN

VARIABLES
  status,      \* the status of each finding's ticket, "none" when not filed
  cycles,      \* RunState.review_cycles, saved as soon as it changes
  reviewDone,  \* REVIEW is in done_phases
  work, head,  \* the trees of the worktree and of HEAD
  pc,          \* where the running process is
  dry,         \* consecutive cycles that brought nothing
  before,      \* the findings open when the cycle began
  todo,        \* the findings of this cycle still to be fixed
  cur,         \* the finding being fixed, as a set of at most one
  attempt,     \* the loop variable of the attempts
  waivers,     \* waivers_before
  crashes,
  disturbed,   \* history: a kill, an outage or a critic failure has happened
  missed       \* history: the commit of a fix was skipped or refused

tree   == <<work, head>>
memory == <<dry, before, todo, cur, attempt, waivers>>
env    == <<crashes, disturbed, missed>>
vars   == <<status, cycles, reviewDone, tree, pc, memory, env>>

Kinds   == {"fix", "waiver", "break"}
Changes == [by : Findings, kind : Kinds, new : BOOLEAN]

\* What a worker on f can leave behind once the protections have run: _fix_code
\* takes back changes to existing tests, and a fix changes existing files.
ChangesOf(f) ==
  {c \in Changes : c.by = f /\ (c.kind = "fix" => ~c.new) /\ (c.kind = "waiver" /\ Route[f] = "code" => c.new)}

Of(t, kind)   == {c \in t : c.kind = kind}
Green(t)      == Of(t, "break") = {}
Fixed(t, f)   == \E c \in t : c.by = f /\ c.kind = "fix"

\* git checkout -- . : tracked files are as in HEAD again, new files stay.
Discarded == head \cup {c \in work : c.new}

Open       == {f \in Findings : status[f] = "todo"}
Actionable == {f \in Open : Route[f] # "human"}

Init ==
  /\ status = [f \in Findings |-> "none"]
  /\ cycles = 0 /\ reviewDone = FALSE
  /\ work = {} /\ head = {}
  /\ pc = "off" /\ dry = 0 /\ before = {} /\ todo = {} /\ cur = {} /\ attempt = 0 /\ waivers = 0
  /\ crashes = 0 /\ disturbed = FALSE /\ missed = FALSE

-----------------------------------------------------------------------------
(* The loop.                                                               *)

Exit == pc' = "off" /\ dry' = 0 /\ before' = {} /\ todo' = {} /\ cur' = {} /\ attempt' = 0 /\ waivers' = 0

\* Mutant: the cycle counter is a local variable, as it once was.
StartFromZero ==
  /\ pc = "off" /\ ~reviewDone
  /\ cycles' = 0
  /\ pc' = "loop"
  /\ UNCHANGED <<status, reviewDone, tree, memory, env>>

Start ==
  /\ pc = "off" /\ ~reviewDone
  /\ pc' = "loop"
  /\ UNCHANGED <<status, cycles, reviewDone, tree, memory, env>>

BeginCycle ==
  /\ pc = "loop" /\ cycles < MaxCycles /\ dry < 2
  /\ cycles' = cycles + 1
  /\ before' = Open
  /\ pc' = "critic"
  /\ UNCHANGED <<status, reviewDone, tree, dry, todo, cur, attempt, waivers, env>>

\* A finding that has a ticket, whatever its status, is not filed again.
Filed(S) == [f \in Findings |-> IF f \in S /\ status[f] = "none" THEN "todo" ELSE status[f]]

CriticReports ==
  /\ pc = "critic"
  /\ \E S \in SUBSET Findings : status' = Filed(S)
  /\ IF Open' \subseteq before /\ Actionable' = {}
     THEN dry' = dry + 1 /\ todo' = {} /\ pc' = "loop"
     ELSE dry' = 0 /\ todo' = Actionable' /\ pc' = "fixes"
  /\ UNCHANGED <<cycles, reviewDone, tree, before, cur, attempt, waivers, env>>

\* WorkerUnavailable leaves the loop; run() saves and stops.
CriticUnavailable ==
  /\ pc = "critic"
  /\ disturbed' = TRUE
  /\ Exit
  /\ UNCHANGED <<status, cycles, reviewDone, tree, crashes, missed>>

\* RuntimeError or ValueError breaks out of the loop.
CriticBreaksOff ==
  /\ pc = "critic" /\ CriticFails
  /\ disturbed' = TRUE
  /\ pc' = "park"
  /\ UNCHANGED <<status, cycles, reviewDone, tree, memory, crashes, missed>>

LoopEnds ==
  /\ pc = "loop" /\ (cycles >= MaxCycles \/ dry >= 2)
  /\ pc' = "park"
  /\ UNCHANGED <<status, cycles, reviewDone, tree, memory, env>>

\* Mutant: findings for a person are left open.
ParkedNothing == status

\* park_human_findings: what is left for a person is blocked.
Parked == [f \in Findings |-> IF f \in Open \ Actionable THEN "blocked" ELSE status[f]]

Park ==
  /\ pc = "park"
  /\ status' = Parked
  /\ pc' = "finish"
  /\ UNCHANGED <<cycles, reviewDone, tree, memory, env>>

Finish ==
  /\ pc = "finish"
  /\ reviewDone' = TRUE
  /\ Exit
  /\ UNCHANGED <<status, cycles, tree, env>>

-----------------------------------------------------------------------------
(* One finding: remediate.fix.                                             *)

NextFix ==
  /\ pc = "fixes"
  /\ \E f \in todo : cur' = {f} /\ todo' = todo \ {f}
  /\ attempt' = 1 /\ waivers' = Cardinality(Of(work, "waiver"))
  /\ pc' = "fix"
  /\ UNCHANGED <<status, cycles, reviewDone, tree, dry, before, env>>

FixesDone ==
  /\ pc = "fixes" /\ todo = {}
  /\ pc' = "loop"
  /\ UNCHANGED <<status, cycles, reviewDone, tree, memory, env>>

\* Mutant: the attempts have no upper bound.
WorkerEditsUncapped ==
  /\ pc = "fix"
  /\ \E f \in cur : \E added \in SUBSET ChangesOf(f), undone \in SUBSET Of(work, "break") :
       work' = (work \ undone) \cup added
  /\ pc' = "answer"
  /\ UNCHANGED <<status, cycles, reviewDone, head, memory, env>>

WorkerEdits ==
  /\ pc = "fix" /\ attempt <= MaxAttempts
  /\ \E f \in cur : \E added \in SUBSET ChangesOf(f), undone \in SUBSET Of(work, "break") :
       work' = (work \ undone) \cup added
  /\ pc' = "answer"
  /\ UNCHANGED <<status, cycles, reviewDone, head, memory, env>>

TryAgain == pc' = "fix" /\ attempt' = attempt + 1 /\ UNCHANGED <<dry, before, todo, cur, waivers>>

\* The worker failed, timed out, or claims a conflict with the specification.
AnswerError ==
  /\ pc = "answer"
  /\ TryAgain
  /\ UNCHANGED <<status, cycles, reviewDone, tree, env>>

\* An outage: fix discards the worktree and lets the exception through.
AnswerOutage ==
  /\ pc = "answer"
  /\ disturbed' = TRUE
  /\ work' = Discarded
  /\ Exit
  /\ UNCHANGED <<status, cycles, reviewDone, head, crashes, missed>>

\* The suite outlives its 600 seconds: the same, but run() does not catch it.
SuiteTimesOut ==
  /\ pc = "answer" /\ ~Green(work)
  /\ disturbed' = TRUE
  /\ work' = Discarded
  /\ Exit
  /\ UNCHANGED <<status, cycles, reviewDone, head, crashes, missed>>

SuiteFails ==
  /\ pc = "answer" /\ ~Green(work)
  /\ TryAgain
  /\ UNCHANGED <<status, cycles, reviewDone, tree, env>>

Waived == Cardinality(Of(work, "waiver")) > waivers

\* The suite passes, but with more waivers than before: not resolved.
SuiteWaived ==
  /\ pc = "answer" /\ Green(work) /\ Waived
  /\ pc' = "block"
  /\ UNCHANGED <<status, cycles, reviewDone, tree, memory, env>>

\* Mutant: the outcome of the suite is not looked at.
SuitePassesRed ==
  /\ pc = "answer" /\ ~Waived
  /\ status' = [f \in Findings |-> IF f \in cur THEN "done" ELSE status[f]]
  /\ pc' = "commit"
  /\ UNCHANGED <<cycles, reviewDone, tree, memory, env>>

SuitePasses ==
  /\ pc = "answer" /\ Green(work) /\ ~Waived
  /\ status' = [f \in Findings |-> IF f \in cur THEN "done" ELSE status[f]]
  /\ pc' = "commit"
  /\ UNCHANGED <<cycles, reviewDone, tree, memory, env>>

Committed == pc' = "fixes" /\ cur' = {} /\ attempt' = 0 /\ waivers' = 0

\* Mutant: git commit without git add.
CommitNothing ==
  /\ pc = "commit" /\ CommitAuto
  /\ Committed
  /\ UNCHANGED <<status, cycles, reviewDone, tree, dry, before, todo, env>>

Commit ==
  /\ pc = "commit" /\ CommitAuto
  /\ head' = work
  /\ Committed
  /\ UNCHANGED <<status, cycles, reviewDone, work, dry, before, todo, env>>

\* The commit gate is manual, or git refused: the finding is closed all the same.
CommitSkipped ==
  /\ pc = "commit"
  /\ missed' = TRUE
  /\ Committed
  /\ UNCHANGED <<status, cycles, reviewDone, tree, dry, before, todo, crashes, disturbed>>

GiveUp ==
  /\ pc = "fix" /\ attempt > MaxAttempts
  /\ work' = Discarded
  /\ pc' = "block"
  /\ UNCHANGED <<status, cycles, reviewDone, head, memory, env>>

\* Mutant: a finding that could not be fixed stays open.
BlockFindingNot ==
  /\ pc = "block"
  /\ pc' = "fixes" /\ cur' = {} /\ attempt' = 0 /\ waivers' = 0
  /\ UNCHANGED <<status, cycles, reviewDone, tree, dry, before, todo, env>>

BlockFinding ==
  /\ pc = "block"
  /\ status' = [f \in Findings |-> IF f \in cur THEN "blocked" ELSE status[f]]
  /\ pc' = "fixes" /\ cur' = {} /\ attempt' = 0 /\ waivers' = 0
  /\ UNCHANGED <<cycles, reviewDone, tree, dry, before, todo, env>>

-----------------------------------------------------------------------------
\* Killed outright, or interrupted so that fix still discards the worktree.
Crash ==
  /\ pc # "off" /\ crashes < MaxCrashes
  /\ crashes' = crashes + 1 /\ disturbed' = TRUE
  /\ work' \in {work} \cup {t \in {Discarded} : pc \in {"fix", "answer"}}
  /\ Exit
  /\ UNCHANGED <<status, cycles, reviewDone, head, missed>>

Over == reviewDone /\ pc = "off" /\ UNCHANGED vars

Running ==
  \/ BeginCycle \/ CriticReports \/ CriticUnavailable \/ CriticBreaksOff \/ LoopEnds \/ Park \/ Finish
  \/ NextFix \/ FixesDone \/ WorkerEdits \/ AnswerError \/ AnswerOutage \/ SuiteTimesOut \/ SuiteFails
  \/ SuiteWaived \/ SuitePasses \/ Commit \/ CommitSkipped \/ GiveUp \/ BlockFinding

Next == Start \/ Running \/ Crash \/ Over

Spec == Init /\ [][Next]_vars

\* A running phase goes on, as every worker call has a timeout, and a stopped
\* one is started again.  Outages are not bounded.
FairSpec == Spec /\ WF_vars(Start) /\ WF_vars(Running)

-----------------------------------------------------------------------------
(* Properties.                                                             *)

\* Every variable has its type.
TypeOK ==
  /\ status \in [Findings -> {"none", "todo", "done", "blocked"}]
  /\ cycles \in 0..MaxCycles /\ reviewDone \in BOOLEAN
  /\ work \subseteq Changes /\ head \subseteq Changes
  /\ pc \in {"off", "loop", "critic", "park", "finish", "fixes", "fix", "answer", "commit", "block"}
  /\ dry \in 0..2 /\ before \subseteq Findings /\ todo \subseteq Findings
  /\ cur \subseteq Findings /\ Cardinality(cur) <= 1
  /\ attempt \in 0..MaxAttempts + 1 /\ waivers \in Nat
  /\ crashes \in 0..MaxCrashes /\ disturbed \in BOOLEAN /\ missed \in BOOLEAN

\* The machine never closes a finding only a person can decide, and none of
\* those is left open for a next run to find when the phase is over.
HumanFindingsParked ==
  \A f \in Findings : Route[f] = "human" =>
    status[f] # "done" /\ (reviewDone => status[f] \in {"none", "blocked"})

\* Nothing REVIEW commits has a failing suite, whatever was left in the
\* worktree by failed attempts, kills and discards.
HeadStaysGreen == Green(head)

\* Undisturbed, the phase leaves no finding open: each was fixed or blocked.
UndisturbedDecidesAll == reviewDone /\ ~disturbed => Open = {}

\* As long as commits are made and nothing is killed, a finding that was
\* closed with a fix keeps it: discarding a later failed attempt, with whatever
\* it left behind, does not take it away.
SolvedStaysSolved ==
  [][crashes' = 0 /\ ~missed' =>
       \A f \in Findings : status[f] = "done" /\ Fixed(work, f) /\ pc # "commit" => Fixed(work', f)]_vars

\* The cycle budget is spent across runs: however often an outage stops the
\* phase, it comes to its end.
Terminates == <>reviewDone

\* remediate._count_waivers: the number of waivers must never grow as the
\* result of a fix.  It does: the fix that only added a waiver is turned down
\* but stays in the worktree, and the next fix's commit takes it along.
WaiversNeverGrow == Of(head, "waiver") = {}
=============================================================================
