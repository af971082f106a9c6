------------------------------ MODULE WorkLoop ------------------------------
(***************************************************************************)
(* The WORK phase of the factory: Orchestrator._work_loop and _work_one,   *)
(* with the tracker they write after every change (tracker/local.py), the  *)
(* regression baseline they keep in memory and save in state.json          *)
(* (RunState.green_nodes), the worktree and HEAD of the project's          *)
(* repository, a worker that may answer anything, and a process that may   *)
(* be killed between any two writes and started again.                     *)
(*                                                                         *)
(* A story is its ticket number, and stands for its one DoD test too.      *)
(* Tests are deterministic: `work' and `head' give the result each DoD     *)
(* test has on the code in the worktree and at HEAD.  That the tests       *)
(* themselves keep their text is build.restore_if_tampered's business.     *)
(***************************************************************************)
EXTENDS Naturals

CONSTANTS
  Stories,      \* the story tickets, by their key number
  Epics,        \* the epics the stories belong to
  NoEpic,       \* the parent of a story whose atom has no use case
  EpicOf,       \* the parent of each story
  MaxAttempts,  \* limits.implement_attempts
  MaxTickets,   \* limits.max_tickets_per_run, 0 = no cap
  CommitAuto,   \* gates.commit = "auto"
  Results,      \* what running a test can do: pass, fail, or outlive its 600 s
  MaxCrashes,   \* bound: how often the process is killed
  MaxOutages    \* bound: how often a worker call ends a run

NoStory == 0

ASSUME StoriesAssumption  == Stories \subseteq Nat \ {NoStory}
ASSUME EpicsAssumption    == NoEpic \notin Epics /\ EpicOf \in [Stories -> Epics \cup {NoEpic}]
ASSUME LimitsAssumption   == MaxAttempts \in Nat /\ MaxTickets \in Nat /\ CommitAuto \in BOOLEAN
ASSUME ResultsAssumption  == {"pass", "fail"} \subseteq Results /\ Results \subseteq {"pass", "fail", "hang"}
ASSUME BoundsAssumption   == MaxCrashes \in Nat /\ MaxOutages \in Nat

VARIABLES
  \* backlog/tickets.yaml
  status,     \* Ticket.status of each story
  attempts,   \* Ticket.attempts of each story
  lastError,  \* Ticket.last_error of each story
  subtasks,   \* whether a story has subtasks, and whether all of them are done
  bugs,       \* the number of BUG tickets raised for each story
  epicDone,   \* the epics in status done
  \* .factory/state.json
  baseline,   \* green_nodes as saved
  workDone,   \* WORK is in done_phases
  \* the project's git repository
  work,       \* the result of each DoD test in the worktree
  head,       \* the result of each DoD test at HEAD
  missed,     \* history: stories finished since HEAD last moved whose commit was skipped or failed
  \* the memory of the running process
  pc,         \* the step _work_loop or _work_one is at
  cur,        \* the story being worked on
  attempt,    \* the loop variable of the attempts
  reason,     \* why raise_bug was called
  green,      \* green_nodes in memory
  processed,  \* stories this run has taken
  \* the environment
  crashes, outages

tickets == <<status, attempts, lastError, subtasks, bugs, epicDone>>
state   == <<baseline, workDone>>
repo    == <<work, head, missed>>
memory  == <<cur, attempt, reason, green, processed>>
env     == <<crashes, outages>>
vars    == <<tickets, state, repo, pc, memory, env>>

Statuses == {"todo", "in_progress", "blocked", "done"}
Reasons  == {"none", "conflict", "exhausted", "regression"}
InStory  == {"decompose", "attempt", "worker", "answer", "dod", "regress", "commit", "append", "done", "bug", "block"}
Steps    == {"stopped", "pick", "epic", "save"} \cup InStory

Passing(tests, set) == \A s \in set : tests[s] = "pass"
Todo                == {s \in Stories : status[s] = "todo"}
Decided(s)          == status[s] \in {"done", "blocked"}

Init ==
  /\ status    = [s \in Stories |-> "todo"]
  /\ attempts  = [s \in Stories |-> 0]
  /\ lastError = [s \in Stories |-> "none"]
  /\ subtasks  = [s \in Stories |-> "none"]
  /\ bugs      = [s \in Stories |-> 0]
  /\ epicDone  = {}
  /\ baseline  = {} /\ workDone = FALSE
  /\ work      = [s \in Stories |-> "fail"]     \* red: no implementation yet
  /\ head      = work
  /\ missed    = {}
  /\ pc = "stopped" /\ cur = NoStory /\ attempt = 0 /\ reason = "none" /\ green = {} /\ processed = 0
  /\ crashes = 0 /\ outages = 0

-----------------------------------------------------------------------------
(* Starting and ending a run.                                              *)

\* The process ends: whatever is not on disk is gone.
Halt ==
  /\ pc' = "stopped" /\ cur' = NoStory /\ attempt' = 0
  /\ reason' = "none" /\ green' = {} /\ processed' = 0

\* Mutant: _requeue_interrupted is not called.
RequeuedNothing == status

\* _requeue_interrupted: what a dead run left in progress goes back to the queue.
Requeued == [s \in Stories |-> IF status[s] = "in_progress" THEN "todo" ELSE status[s]]

Start ==
  /\ pc = "stopped" /\ ~workDone
  /\ green' = baseline
  /\ status' = Requeued
  /\ pc' = "pick"
  /\ UNCHANGED <<attempts, lastError, subtasks, bugs, epicDone, state, repo, cur, attempt, reason, processed, env>>

CapReached == MaxTickets # 0 /\ processed >= MaxTickets

\* No story is left: run() adds WORK to done_phases and saves.
Finish ==
  /\ pc = "pick" /\ Todo = {}
  /\ workDone' = TRUE /\ baseline' = green
  /\ Halt
  /\ UNCHANGED <<tickets, repo, env>>

StopAtCap ==
  /\ pc = "pick" /\ Todo # {} /\ CapReached
  /\ baseline' = green
  /\ Halt
  /\ UNCHANGED <<tickets, workDone, repo, env>>

\* Mutant: any TODO story, not the first by key.
IsNextAny(s) == s \in Todo

\* search() sorts by key number and _next_story takes the first.
IsNext(s) == s \in Todo /\ \A t \in Todo : s <= t

Pick ==
  /\ pc = "pick" /\ ~CapReached
  /\ \E s \in Stories :
       /\ IsNext(s)
       /\ cur' = s
       /\ status' = [status EXCEPT ![s] = "in_progress"]
  /\ pc' = "decompose"
  /\ UNCHANGED <<attempts, lastError, subtasks, bugs, epicDone, state, repo, attempt, reason, green, processed, env>>

-----------------------------------------------------------------------------
(* One story.                                                              *)

\* Existing subtasks are kept; otherwise the worker proposes some, or none.
Decompose ==
  /\ pc = "decompose"
  /\ \E found \in IF subtasks[cur] = "none" THEN {"none", "open"} ELSE {subtasks[cur]} :
       subtasks' = [subtasks EXCEPT ![cur] = found]
  /\ pc' = "attempt" /\ attempt' = 1
  /\ UNCHANGED <<status, attempts, lastError, bugs, epicDone, state, repo, cur, reason, green, processed, env>>

\* ask_yaml raises: WorkerUnavailable is caught by run(), which saves the
\* state; RuntimeError is not caught.  The story stays in progress.
DecomposeFails ==
  /\ pc = "decompose" /\ outages < MaxOutages
  /\ outages' = outages + 1
  /\ subtasks[cur] = "none"
  /\ baseline' \in {green, baseline}
  /\ Halt
  /\ UNCHANGED <<tickets, workDone, repo, crashes>>

\* Mutant: the loop has no upper bound.
BeginAttemptUncapped ==
  /\ pc = "attempt"
  /\ attempts' = [attempts EXCEPT ![cur] = attempt]
  /\ pc' = "worker"
  /\ UNCHANGED <<status, lastError, subtasks, bugs, epicDone, state, repo, memory, env>>

BeginAttempt ==
  /\ pc = "attempt" /\ attempt <= MaxAttempts
  /\ attempts' = [attempts EXCEPT ![cur] = attempt]
  /\ pc' = "worker"
  /\ UNCHANGED <<status, lastError, subtasks, bugs, epicDone, state, repo, memory, env>>

\* build.implement / build.debug: the worker may leave the code in any state.
WorkerEdits ==
  /\ pc = "worker"
  /\ work' \in [Stories -> Results]
  /\ pc' = "answer"
  /\ UNCHANGED <<tickets, state, head, missed, memory, env>>

NextAttempt == pc' = "attempt" /\ attempt' = attempt + 1 /\ UNCHANGED <<cur, reason, green, processed>>

AnswerOk ==
  /\ pc = "answer"
  /\ pc' = "dod"
  /\ UNCHANGED <<tickets, state, repo, memory, env>>

\* A worker error or timeout that is not an outage costs the attempt.
AnswerError ==
  /\ pc = "answer"
  /\ NextAttempt
  /\ UNCHANGED <<tickets, state, repo, env>>

Escalate(why) == pc' = "bug" /\ reason' = why /\ UNCHANGED <<cur, attempt, green, processed>>

AnswerConflict ==
  /\ pc = "answer"
  /\ Escalate("conflict")
  /\ UNCHANGED <<tickets, state, repo, env>>

\* The attempt is given back, the story is queued again, run() saves and stops.
AnswerOutage ==
  /\ pc = "answer" /\ outages < MaxOutages
  /\ outages' = outages + 1
  /\ attempts' = [attempts EXCEPT ![cur] = attempt - 1]
  /\ status' = [status EXCEPT ![cur] = "todo"]
  /\ baseline' = green
  /\ Halt
  /\ UNCHANGED <<lastError, subtasks, bugs, epicDone, workDone, repo, crashes>>

RunDod ==
  /\ pc = "dod" /\ work[cur] # "hang"
  /\ IF work[cur] = "pass" THEN pc' = "regress" /\ UNCHANGED memory
                           ELSE NextAttempt
  /\ UNCHANGED <<tickets, state, repo, env>>

Exhausted ==
  /\ pc = "attempt" /\ attempt > MaxAttempts
  /\ Escalate("exhausted")
  /\ UNCHANGED <<tickets, state, repo, env>>

\* Mutant: the result of the regression run is not looked at.
RunRegressionIgnored ==
  /\ pc = "regress" /\ \A s \in green : work[s] # "hang"
  /\ pc' = "commit"
  /\ UNCHANGED <<tickets, state, repo, memory, env>>

\* The regression check runs the baseline only, never the whole suite.
RunRegression ==
  /\ pc = "regress" /\ \A s \in green : work[s] # "hang"
  /\ IF Passing(work, green) THEN pc' = "commit" /\ UNCHANGED memory
                             ELSE Escalate("regression")
  /\ UNCHANGED <<tickets, state, repo, env>>

\* subprocess.run raises TimeoutExpired, which nobody catches.
TestsTimeOut ==
  /\ \/ pc = "dod" /\ work[cur] = "hang"
     \/ pc = "regress" /\ \E s \in green : work[s] = "hang"
  /\ Halt
  /\ UNCHANGED <<tickets, state, repo, env>>

\* git add -A; git commit: HEAD becomes the worktree.
Commit ==
  /\ pc = "commit" /\ CommitAuto
  /\ head' = work /\ missed' = {}
  /\ pc' = "append"
  /\ UNCHANGED <<tickets, state, work, memory, env>>

\* The commit gate is manual, or git refused: the story is finished all the same.
CommitSkipped ==
  /\ pc = "commit"
  /\ missed' = missed \cup {cur}
  /\ pc' = "append"
  /\ UNCHANGED <<tickets, state, work, head, memory, env>>

\* The baseline grows in memory, then the subtasks are closed.
AppendGreen ==
  /\ pc = "append"
  /\ green' = green \cup {cur}
  /\ subtasks' = [subtasks EXCEPT ![cur] = IF @ = "none" THEN "none" ELSE "done"]
  /\ pc' = "done"
  /\ UNCHANGED <<status, attempts, lastError, bugs, epicDone, state, repo, cur, attempt, reason, processed, env>>

MarkDone ==
  /\ pc = "done"
  /\ status' = [status EXCEPT ![cur] = "done"]
  /\ pc' = "epic"
  /\ UNCHANGED <<attempts, lastError, subtasks, bugs, epicDone, state, repo, memory, env>>

EpicReady(e) == e # NoEpic /\ \A s \in Stories : EpicOf[s] = e => status[s] = "done"

\* Mutant: the epic of the last story is not looked at.
CloseEpicNever == pc = "epic" /\ pc' = "save" /\ UNCHANGED <<tickets, state, repo, memory, env>>

CloseEpicIfReady ==
  /\ pc = "epic"
  /\ epicDone' = IF EpicReady(EpicOf[cur]) THEN epicDone \cup {EpicOf[cur]} ELSE epicDone
  /\ pc' = "save"
  /\ UNCHANGED <<status, attempts, lastError, subtasks, bugs, state, repo, memory, env>>

\* Mutant: the story is blocked before its BUG is created.
FileBugLate ==
  /\ pc = "bug"
  /\ status' = [status EXCEPT ![cur] = "blocked"]
  /\ pc' = "block"
  /\ UNCHANGED <<attempts, lastError, subtasks, bugs, epicDone, state, repo, memory, env>>

\* deliver.raise_bug: the BUG ticket first, then the story is blocked.
FileBug ==
  /\ pc = "bug"
  /\ bugs' = [bugs EXCEPT ![cur] = @ + 1]
  /\ pc' = "block"
  /\ UNCHANGED <<status, attempts, lastError, subtasks, epicDone, state, repo, memory, env>>

BlockStory ==
  /\ pc = "block"
  /\ status' = [status EXCEPT ![cur] = "blocked"]
  /\ lastError' = [lastError EXCEPT ![cur] = reason]
  /\ pc' = "save"
  /\ UNCHANGED <<attempts, subtasks, bugs, epicDone, state, repo, memory, env>>

\* Mutant: state.save is forgotten after a story.
SaveStateNot ==
  /\ pc = "save"
  /\ processed' = processed + 1
  /\ pc' = "pick" /\ cur' = NoStory /\ attempt' = 0 /\ reason' = "none"
  /\ UNCHANGED <<tickets, state, repo, green, env>>

\* Back in _work_loop: processed += 1 and state.save.
SaveState ==
  /\ pc = "save"
  /\ baseline' = green
  /\ processed' = processed + 1
  /\ pc' = "pick" /\ cur' = NoStory /\ attempt' = 0 /\ reason' = "none"
  /\ UNCHANGED <<tickets, workDone, repo, green, env>>

-----------------------------------------------------------------------------
(* The process is killed, or the phase is over.                            *)

Crash ==
  /\ pc # "stopped" /\ crashes < MaxCrashes
  /\ crashes' = crashes + 1
  /\ Halt
  /\ UNCHANGED <<tickets, state, repo, outages>>

Over == workDone /\ pc = "stopped" /\ UNCHANGED vars

Progress ==
  \/ Finish \/ StopAtCap \/ Pick \/ Decompose \/ BeginAttempt \/ WorkerEdits
  \/ AnswerOk \/ AnswerError \/ AnswerConflict \/ RunDod \/ Exhausted \/ RunRegression \/ TestsTimeOut
  \/ Commit \/ CommitSkipped \/ AppendGreen \/ MarkDone \/ CloseEpicIfReady
  \/ FileBug \/ BlockStory \/ SaveState

Next == Start \/ Progress \/ DecomposeFails \/ AnswerOutage \/ Crash \/ Over

Spec == Init /\ [][Next]_vars

\* Worker calls and test runs end (each has a timeout), so a running process
\* goes on; a stopped one is started again, by a person or run_until_done.sh.
FairSpec == Spec /\ WF_vars(Start) /\ WF_vars(Progress)

-----------------------------------------------------------------------------
(* Properties.                                                             *)

\* Every variable has its type (tickets, state.json, repository, process).
TypeOK ==
  /\ status \in [Stories -> Statuses] /\ attempts \in [Stories -> 0..MaxAttempts]
  /\ lastError \in [Stories -> Reasons] /\ subtasks \in [Stories -> {"none", "open", "done"}]
  /\ bugs \in [Stories -> Nat] /\ epicDone \subseteq Epics
  /\ baseline \subseteq Stories /\ workDone \in BOOLEAN
  /\ work \in [Stories -> Results] /\ head \in [Stories -> Results] /\ missed \subseteq Stories
  /\ pc \in Steps /\ cur \in Stories \cup {NoStory} /\ attempt \in 0..MaxAttempts + 1
  /\ reason \in Reasons /\ green \subseteq Stories /\ processed \in Nat
  /\ crashes \in 0..MaxCrashes /\ outages \in 0..MaxOutages

\* Every blocked story has a BUG ticket a person will see: raise_bug creates
\* the BUG before it blocks the story, so no kill loses the report.
BlockedHasBug == \A s \in Stories : status[s] = "blocked" => bugs[s] >= 1

\* No story collects BUG tickets run after run: one per escalation, and a
\* second one only when a kill fell between the BUG and the blocking.
OneBugPerEscalation ==
  \A s \in Stories : bugs[s] <= crashes + (IF s = cur \/ status[s] = "blocked" THEN 1 ELSE 0)

\* A story given up as out of attempts has had all of them: neither an outage
\* nor a kill makes the machine give up early.
ExhaustedMeansAllAttempts ==
  \A s \in Stories : status[s] = "blocked" /\ lastError[s] = "exhausted" => attempts[s] = MaxAttempts

\* raise_bug: escalations are reported, once, and only when they are due.
EscalationsReported == BlockedHasBug /\ OneBugPerEscalation /\ ExhaustedMeansAllAttempts

\* WORK enters done_phases only when every story is done or blocked: a story
\* a dead run left in progress is not skipped for good.
WorkDoneMeansDecided == workDone => \A s \in Stories : Decided(s)

\* At most one story is in progress, and no story before it is open, across
\* kills and restarts: an interrupted story is the first to be taken again.
InterruptedComesFirst ==
  \A s, t \in Stories : status[s] = "in_progress" /\ t < s => Decided(t)

\* _next_story and _requeue_interrupted: no story is passed over.
NothingSkipped == WorkDoneMeansDecided /\ InterruptedComesFirst

\* Every story in the regression baseline passes its DoD test at HEAD, unless
\* its own commit was skipped or refused and HEAD has not moved since: no
\* commit of a story breaks an earlier one, whatever the worker does.
BaselineAtHead == \A s \in green \cup baseline : head[s] = "pass" \/ s \in missed

\* As long as no run is killed, every done story is in the regression
\* baseline that the next story, or the next run, checks.
DoneInBaseline ==
  crashes = 0 => \A s \in Stories : status[s] = "done" => s \in green \cup baseline

\* Nor does any done story fail at HEAD as long as no run is killed.
DonePassesAtHead ==
  crashes = 0 => \A s \in Stories : status[s] = "done" => head[s] = "pass" \/ s \in missed

\* green_nodes guards what is done.
DoneGuarded == DoneInBaseline /\ DonePassesAtHead

\* An epic is closed only when all its stories are done; and while no run is
\* killed it is closed by the time the next story is taken.
EpicDoneMeansStoriesDone ==
  \A e \in epicDone : \A s \in Stories : EpicOf[s] = e => status[s] = "done"

EpicClosedInTime ==
  crashes = 0 /\ pc \in {"pick", "stopped"} =>
    \A s \in Stories : EpicReady(EpicOf[s]) => EpicOf[s] \in epicDone

\* A done story has no open subtask.
DoneMeansSubtasksDone == \A s \in Stories : status[s] = "done" => subtasks[s] # "open"

\* The tickets agree: epics and subtasks with their stories.
TicketsConsistent == EpicDoneMeansStoriesDone /\ EpicClosedInTime /\ DoneMeansSubtasksDone

\* The backlog the phase implements.
BacklogView == INSTANCE Backlog WITH
  open    <- {s \in Stories : ~Decided(s)},
  done    <- {s \in Stories : status[s] = "done"},
  blocked <- {s \in Stories : status[s] = "blocked"},
  closed  <- workDone

\* Stories are decided one by one in key order, exactly once, the phase closes
\* when none is open -- and, with every run started again and finitely many
\* kills and outages, all of this happens.
ImplementsBacklog == BacklogView!Spec

\* The safety part of it.
ImplementsBacklogSafely == BacklogView!SafeSpec

\* README section 7: the DoD tests of completed tickets accumulate in the
\* baseline.  A run killed after the story is done and before state.save
\* loses the story's test from it for good.
EveryDoneStoryGuarded ==
  pc \in {"stopped", "pick"} => \A s \in Stories : status[s] = "done" => s \in green \cup baseline
=============================================================================
