# sw_factory in TLA+

`sw_factory` (src/) is a pipeline that turns a requirements document into a
tested program by calling an LLM worker over and over: it derives a model (an
FSM or a rule table), cuts the model into tickets, has tests written, has each
ticket implemented and checked, has the result reviewed and repaired, and gives
a release verdict.  The worker may answer anything, be out of quota, time out,
or edit what it must not; the process may be killed at any point and is started
again by a person or by `tools/run_until_done.sh`.  Everything the program
promises, it promises in spite of that.  This directory models the control of
the program, checks it with TLC and proves its safety with TLAPS.

## Inventory

| Component | State it keeps | Operations | Talks to |
|---|---|---|---|
| Phase loop, `orchestrator.py` `run`, `_execute`, `_check_gate`, `approve`; `cli.py` `reset`; `tools/run_until_done.sh` | `.factory/state.json`: phase, done_phases, approvals, green_nodes, review_cycles | run, approve, reset, restart | every stage; other processes through state.json, without a lock |
| WORK, `_work_loop`, `_work_one`, `_close_epic_if_ready`, `_requeue_interrupted`; `build.implement/debug/run_tests`, `deliver.commit/raise_bug`, `planning.decompose` | tickets, green_nodes in memory, worktree and HEAD | pick, decompose, attempt, DoD test, regression test, commit, block | tracker, worker, git |
| REVIEW, `_review_loop`, `stages/critic.py`, `stages/remediate.py` | findings as BUG tickets, review_cycles, worktree and HEAD | review, file, fix, discard, commit, park | tracker, worker, git |
| Local tracker, `tracker/local.py`, `tracker/base.py` | `backlog/tickets.yaml` | create, update, transition, search | all stages |
| Test protection and generation, `build.py`, `entry.py` | hashes and bytes of tests or domain code | snapshot, restore, spec_tests, generate_driver, spec_e2e | worker, worktree |
| E2E and delivery, `_e2e_loop`, `deliver.py` | worktree, HEAD, remote | run_e2e, debug_e2e, push | worker, git |
| Ticketize, `planning.ticketize` | epics and stories by signature | create, keep, re-spec | tracker |
| Model derivation, `analysis.py` | artifacts/*.yaml | elicit, derive, model, repair | worker |
| Validation and simulation, `models.py`, `simulate.py` | none (pure) | FSM.validate, RuleTable.validate, run_all | analysis |
| Release verdict, `release.py` | RELEASE.md | judge | tracker, tests |
| Worker wrappers, `worker/*.py`, `context.ask_yaml` | call log | run, classify failures; `ask_yaml` asks again, once, for an answer that is no YAML | the `claude` command |
| Usage server, `tools/usage_server.py` | offsets, calls and limits in memory and in a cache file; counters and events in memory | get the page (each request in a thread of its own), take an export, restart | the session files and the exporters of Claude Code |
| Artifacts, YAML repair, scaffold, cost, Jira stub, `tools/vm_gui.py` | files | input and output | - |

What is hard here, and what makes each part correct:

* **WORK** writes five things per finished story (commit, baseline in memory,
  subtasks, story, epic) to three places (git, tickets.yaml, state.json), and may
  die between any two.  Correct: a story is neither skipped nor decided twice, a
  blocked one has its BUG ticket, what the baseline guards passes at HEAD, epics
  and subtasks agree with stories, giving up costs exactly the allowed attempts.
* **The phase loop** holds state.json in memory while `approve` and other runs
  rewrite it.  Correct: the artifact past a gate is the one a person approved,
  later artifacts come from the earlier ones in use, no phase is skipped or
  repeated, and the thing completes.
* **REVIEW** repairs in a worktree that keeps what failed attempts left, discards
  only tracked files, and must end although outages restart it without bound.
  Correct: HEAD stays green, closed findings stay fixed, nobody's finding is
  silently dropped, the phase ends.
* **Protection** must restore tests on every path of every worker call.
* **Ticketize** must be idempotent and leave nothing stale when a transition
  changes.
* **The repair loops** of MODEL replace the whole model by what a worker answers, up
  to a limit that two loops share.  Correct: they end, within the calls the limit
  allows, with a model that is validated and saved.
* **The checks** decide what is worth a repair from phrases in guards and actions,
  and from graph searches.  Correct: a machine that, run as a program, loses the
  customer's money was reported, and one that can play a use case is not reported
  as stuck in it.
* **The usage server** reads files that grow under it, in threads that share its
  lists without a lock, and saves them to a file it truncates first.  Correct: a
  request is counted once and none is forgotten, whatever the threads, the writer
  and a kill do, and the exports of a process add up to its counter.

## Modules

| Module | Models |
|---|---|
| `Backlog` | what WORK promises: stories decided in key order, each once, then the phase closes |
| `WorkLoop` | WORK, one action per write or answer; refines `Backlog` |
| `Pipeline` | the phase loop, gates, approve, reset and restarts; artifacts as version numbers |
| `Review` | REVIEW; the worktree and HEAD as sets of changes |
| `Delivery` | DRIVER, E2E_SPEC and E2E: protected files, commits, the E2E loop, push |
| `Respec` | the backlog over several models: ticketize, WORK as a whole, the diagnosis table, the scope check of the verdict |
| `FsmChecks` | what MODEL computes about an FSM or a rule table: validation and simulation, as functions |
| `ModelRepair` | the MODEL phase: derivation, both repair loops, and the program the model describes |
| `Usage` | the usage server: `Store` and its threads, `Telemetry` |
| `WorkLoop_proofs`, `Pipeline_proofs`, `Review_proofs`, `Delivery_proofs`, `Respec_proofs`, `ModelRepair_proofs`, `Usage_proofs` | the theorems about each of them; those about `FsmChecks` are in `ModelRepair_proofs` |
| `LeastElements` | least and greatest elements, and induction, in a form the proofs can use |
| `MCWorkLoop`, `MCPipeline`, `MCReview`, `MCDelivery`, `MCRespec`, `MCModelRepair`, `MCUsage` | the instances TLC checks |

### WorkLoop

A story is its ticket's key number and stands for its one DoD test
(`planning.py` gives each story exactly one).  `status`, `attempts`,
`lastError`, `subtasks`, `bugs` and `epicDone` are tickets.yaml, which
`LocalTracker._flush` rewrites after every change; `baseline` and `workDone` are
state.json; `green`, `cur`, `attempt`, `processed` live in the process and
`Halt` forgets them.  `work` and `head` map each story to the result its test
has in the worktree and at HEAD; `WorkerEdits` may set the worktree to anything,
since the code makes no assumption about a worker except that protected tests
are put back.  One action is one write: `FileBug` and `BlockStory` are the two
writes of `raise_bug`, `AppendGreen`, `MarkDone`, `CloseEpicIfReady`, `SaveState`
those of a finished story, so that `Crash` can fall between them.  The two reads
of the tracker inside `_work_one` need no actions: nobody else writes it.
`AnswerError`, `AnswerConflict`, `AnswerOutage` and `AnswerOk` are the branches
on the worker's answer in the order of the code, and `TestsTimeOut` is the
TimeoutExpired nobody catches.  `missed` is a history variable.

### Pipeline

A phase that leaves an artifact writes a fresh version and remembers the version
of what it was derived from.  The phases that keep an existing file
(`spec_tests`, `generate_driver`, `spec_e2e`) do so here, and a phase that fails
may have left its file (`HalfWritten`).  `run` saves at four places; `Pause` and
`SavePaused` are apart because the message comes before the save.  An `approve`
command loads state.json and saves what it loaded (`ApproveLoad`, `ApproveSave`).
A `Setting` says which gates are manual and whether `run_until_done.sh` starts
runs; without it, a person starts a run only when no approve is under way, which
is how one person at a terminal works.  The script is modelled without its own
stop on a repeated log line: it may always start another run.

### Review

A finding is the signature `critic._file` gives it.  Starting from a green suite,
a tree is a set of changes: a fix, a waiver (xfail or skip), or a break, each in
a tracked file or in a new one, as `git checkout -- .` tells these apart.
`ChangesOf` leaves out what `_fix_tests` and `_fix_code` take back.  A worker may
undo breaks but not another finding's fix: that would be an honest failure no
check of this phase looks for, and would only make `SolvedStaysSolved` false for
a reason outside the code.  The findings of a cycle are fixed in any order.
`disturbed` and `missed` are history variables.

### Delivery

A tree gives each of four groups of files its content: the domain code, the
entry point, the unit tests, the scenarios.  A worker may leave any tree
(`WorkerEdits`), so a failed call, a kill, and a worker that repairs one thing
and bends another are all there.  `snap` is the snapshot a phase takes before
the call, `Restored` what it puts back; `GenerateFails` raises before it is put
back, `Generated` after, as in the code.  `CommitGenerated` may be refused by
git without anyone noticing, `Push` may fail.  `mark`, `disturbed`, `refused` and
`idle` are history variables.  Not in the trees: files a worker adds.  A snapshot
does not know them, so a new `conftest.py` or a new domain module stays.  Which
trees pass the scenarios is the constant `Passing`.

### Respec

`tickets` is the backlog in key order, as `LocalTracker.search` sorts it.
`TicketizeEpic` and `TicketizeAtom` are the two loops of `ticketize`, one write
each, and `Crash` falls between them.  A model maps atoms to a signature and a
use case; the signature leaves the use case out, as `Transition.signature` does,
so an atom that moves to another use case keeps its story under the old epic.
WORK is reduced to what it does to tickets (`Split`, `Finish`, `Block`); its steps
are in `WorkLoop`.  `SplitRaises` is the RuntimeError of `decompose` nobody
catches.  `TableEntry` and `ScopeMet` are what `write_fsm_spec` and `judge` read.
`built` is a history field.

### FsmChecks

The checks of `models.py` and `simulate.py` are functions from a model to its
defects or findings.  Guards and actions are text in the code, searched by
patterns; here each is the set of the phrases found in it, and `Plus`, `Minus`,
`Clear`, `Call` and `Name` say which quantity a phrase of an action names and
how, so that what one check takes for a change of the credit and another only
for a mention stays apart.  `PinsZero` is `_guard_pins_zero`, with its mistakes:
`credit == 0 || ...` and `credit - price == 0` count as pinning the credit to
zero.  The searches (`_reachable_from`, `_states_that_can_hold_credit`,
`_states_holding`, the sets of states of `replay_usecases`) are recursive
functions over the number of rounds.  A finding is the check and the transition,
state or use case it is about; its wording is left out.  What two checks share
in the code (reachability, the spreading of credit) they share here.

### ModelRepair

`model_fsm` and `model_rules`, chosen by `form`, are one machine: `Derive`, the
loop over defects (`Validated`, `AskToRevise`, `Revise`, `RevisionsSpent`), the
loop over findings (`Simulated`, `AskToRefine`, `Refine`) and `Finish`.  The two
differ where the code differs: an FSM goes on to simulation after its last
revision and is validated at the end, a table raises after its last revision and
is not validated again.  `NoRefinement` holds the three ways out of the second
loop, the one for lack of progress included.  A worker may answer any model of
the instance each time it is asked, so no order of repairs is assumed.  Every
question goes through `ask_yaml`: an answer that is no YAML is `Unparsed`, the
question is put once more, and the second such answer ends the phase, so that a
question may cost two calls.  `Stop` is any other failure of a call, or a kill.

When MODEL is over, the machine it handed on is run: `Fire` takes a transition
whose guard may hold, follows the customer's credit and remembers in `run.loss`
a transition that let go of some; `TryUseCase` plays a use case from wherever
the program stands.  This is what the checks of `simulate.py` reason about, and
`LossIsReported` and `PlayedIsNotReported` hold their findings against it.
`refined`, `calls` and `run` are history; `calls` counts worker calls, not questions.

### Usage

`Store.refresh` is cut at every access to what the handler threads share:
`Look` (stat), `Read` (seek, read, tell), `SetOffset`, `Ingest` and `Record` for
each line, the two sorts, and `Dump`, `Open`, `Write` of `save`.  A position in
the file counts half lines, since the writer may be in the middle of one; a
thread that reads the first half cannot parse it, nor can anyone parse the other
half later.  `list.sort` is what CPython does: while keys are computed the list
is empty, an append to it allocates it anew and makes the sort raise, and the
old list is put back.  `Write` may come after another thread has written a
shorter or longer text to the same file, which leaves a mixture (`Torn`).
`Telemetry.ingest` holds a lock, so `IngestPost` is one action; exports are lost,
repeated and overtaken on the way.  The two halves share no state, so `Init`
chooses which one a behaviour exercises.  `halved`, `overlapped`, `spoiled` and
`overtaken` are history variables, and name the ways the counts really go wrong:
each was found necessary, as TLC refutes the property without it.

## Runs

| Run | Instance | Shows |
|---|---|---|
| `work_safety` | 2 stories of one epic, 2 attempts, no cap, tests that pass, fail or hang, 1 kill, 1 outage | the six invariants of `WorkLoop`, conjunctions of eleven parts and the type invariant |
| `work_refines` | 2 stories, the second without an epic, 1 ticket per run, no hanging tests, fair | `WorkLoop` implements `Backlog`, liveness included |
| `work_lost_baseline` | 1 kill | violated: `EveryDoneStoryGuarded` |
| `pipeline` | attended with both gates manual, and unattended with the default gates; 2 faults, 1 reset | the six properties of `Pipeline` |
| `pipeline_stale_tests` | 1 fault | violated: `TestsMatchModel` |
| `review` | a finding for each route, 2 cycles, 2 attempts, 1 kill | the six properties of `Review` |
| `review_waivers` | 1 cycle, 1 attempt | violated: `WaiversNeverGrow` |
| `delivery` | 2 attempts, 2 kills or failed calls, automatic push; the scenarios pass on a program that starts and does what they demand | the six properties of `Delivery` |
| `delivery_outage` | no kill | violated: `OutageIsNoAttempt` |
| `respec` | 2 atoms, 2 use cases, 2 requirements, 6 models, 2 resets, 1 kill of ticketize | the six properties of `Respec` |
| `model` | 1284 machines of 2 to 4 states (746 of them sound), 66 rule tables, 1 use case, 2 declarations, 3 repair attempts, 1 kill or failed call, credit up to 2 | the five properties of `ModelRepair` |
| `usage` | 2 threads, 2 requests, 2 sessions, 2 lines, 2 pages per start, 1 kill or rotation, counters up to 2, 4 events | the four properties of `Usage` |

**Bounds.** `MaxCrashes`, `MaxOutages`, `MaxFaults` and `MaxResets` bound the
environment.  One kill is enough for every hazard listed: each is a kill at one
place of a sequence that then runs on; two faults let a phase fail in the run
that recovers from the first.  Two stories give a baseline that a second story
can break, an epic that is half done and an order to violate; two attempts give
an attempt that is neither first nor last; a cap of one ticket, in `work_refines`, makes every story
change run.  The theorems hold for all values of these.  In `Review`, two cycles
and two attempts let the leftovers of one fix meet the next, in the same cycle
and in the next one.  In `Delivery` two contents of a file are enough, as only
sameness matters, and two faults let a killed call be followed by a failed one.
In `Respec` the six models differ by an atom's content, its use case, or its
presence, and two resets let an atom go and come back.
In `ModelRepair` the limit is the default of `fsm_repair_attempts`; with fewer
attempts the stop for lack of progress would never come before the limit.  The
machines have every defect and every finding of the code, alone and together, and
a ring of four states in which credit is carried past states that do not look at
it; a credit of two tells "deduct one" from "set to zero".  In `Usage` two threads are
what two open pages are; two lines let one be read and one be half written, or
one request come in two records.  The instance with two kills (6.0 million
distinct states) and the one with three pages (4.1 million) passed as well; with
three lines 8.3 million states were looked at without a violation before the
search was ended.  `StopAtCap`, `StopEarly` and outages stop a run without
ending the phase.

**Deadlock** is checked in every run but `usage`: `Over`, `Complete`, `Delivered`
and `Done` mark the only states where nothing is left to do, and `SplitRaises` the
runs that come to nothing.  In `usage` a server at rest, with the bounds of the
file and of the pages used up, may have nothing left to do.

**Fairness.** Weak fairness of a running process: every worker call has a
timeout (`worker_timeout_s`, `gen_timeout_s`) and every test run has 600 s, so
each step ends.  Weak fairness of starting a stopped run: a person, or the
script, does (`WF_vars(Launch)` and `WF_pc(Proceed)` in `ModelRepair`); and, in `Pipeline`, a person who was asked to approve does.
`Delivery` also assumes, by strong fairness, that a worker asked for the same
file again and again leaves it once; each time it does not, the phase raises.
Otherwise nothing is assumed of what a worker answers, of kills, or of a critic; in
`Review` outages are not even bounded.  `Completes` is claimed of attended runs
only: with the script, an approve can fall between a run's pause message and its
save each time.

**Where `ApprovedIsUsed` ends.** With the script and both gates manual it fails: an
approve of the model whose save comes late puts back a state.json in which
TICKETIZE is not done, the pause at TICKETIZE is approved on top of that, and the
next run makes the tickets again and goes on with the old approval.  That takes
two approve commands for the model and a save that overtakes a run's last two,
so the run `pipeline` has the script only with the default gates, where the
theorem `ApprovalsHold` says it cannot happen.

**What the violated properties show.**

* `EveryDoneStoryGuarded`: a kill after `tracker.transition(DONE)` and before
  `state.save` loses the story's test from `green_nodes` for good, as `_work_one`
  never sees the story again.  `DoneInBaseline`, a part of `DoneGuarded`, says this is the
  only way.
* `TestsMatchModel`: the 1:1 check of `spec_tests` raises with the wrong file on
  disk; the next run sees that the file exists and skips the check.
* `WaiversNeverGrow`: a fix turned down for an added waiver is not discarded.
* `OutageIsNoAttempt`: `debug_e2e` does not look for an outage and the E2E loop does
  not look at what it returns, so a worker out of quota costs the E2E attempts.

Met while modelling, without a run of their own; the properties that hold name
these conditions (`crashes = 0`, `~missed'`, `~disturbed`, `head = work`,
`~respec`, `refined`, `PlainGuards`, `NoQuietMove`, `halved`, `spoiled`).

In WORK and the phases:

* a kill between the last story's DONE and its epic leaves the epic open;
* `run_tests` lets `TimeoutExpired` through: a story whose test hangs is requeued by
  the next start with its attempts counted from 1, every time;
* a story still open when its atom leaves the model makes `decompose` raise in
  every run; `Settles` says this is the only way WORK fails to end;
* an approve between `[PAUSE]` and the run's save is overwritten;
* a reset empties green_nodes while the done stories stay done; a reopened story
  keeps its old, done subtasks, whose status and text the diagnosis table and the
  worker then see; an atom that moved to another use case can leave its
  requirement untraced for good.

In REVIEW and delivery:

* a failed fix's new files survive the discard, so the next finding can start on
  a red suite; with a manual commit gate a discard throws away fixes of closed
  findings;
* a critic failure ends REVIEW as done with findings open, though the log says
  the next run goes on;
* DRIVER and E2E_SPEC do not put altered files back if the call failed, DRIVER
  does not guard the tests and E2E_SPEC not the domain code (though build.py:256
  says it must not change); a fix of `debug_e2e` is not committed before the push.

In MODEL:

* the second half of what `check_refund_reachable` says of itself
  (simulate.py:99-100) is not there: only the states right after a coin are
  looked at, not those the credit is carried to;
* a guard with `||`, or `credit - price == 0`, is taken to say that there is no
  credit (`PinsZero`), and hides a loss behind it; and a transition that sells or
  deducts on its way to a state that does not know of credit is reported by
  neither ledger finding (simulate.py:188 says it is);
* a rule table that simulation had mended is not validated again, though
  analysis.py:71 says the loop is that of an FSM, and the last revision of a rule
  table is never looked at: the phase raises even if it is sound;
* a repair that does not help is kept all the same, also when it made things
  worse, and a model repaired by hand in fsm.yaml, as the exception asks, is
  overwritten by the run that resumes.

In the usage server:

* two pages asked for at once may each count a request, as `_seen` is read and
  extended without a lock; a call added while another thread sorts is lost, and
  that request for the page fails; a cache saved during a sort has an empty list
  with offsets that say everything was read, so the next start forgets the calls
  for good;
* a line read when it is half written is lost; a file that was rotated and has
  grown past the old offset is taken for the old one; limits have no id and are
  counted again after a rotation;
* an export that a later one overtakes makes the next count too much; beyond
  20 000 events the oldest are dropped, whatever window the page asks for;
* calibration loads, changes and saves its file without a lock
  (usage_server.py:605-610).

## Proofs

Every invariant and every action property that a run checks is also a theorem,
for every value of the constants; the runs and the theorems speak of the same
definitions.  (`ApprovedIsUsed` is proved where it holds: see above.)

| Module | Theorem | Property |
|---|---|---|
| `WorkLoop_proofs` | `EscalationsAreReported`, `NothingIsSkipped`, `BaselineHolds`, `DoneIsGuarded`, `TicketsAgree` | `EscalationsReported`, `NothingSkipped`, `BaselineAtHead`, `DoneGuarded`, `TicketsConsistent` |
| | `Refinement` | every step of `WorkLoop` is one of `Backlog` or changes nothing there |
| `Pipeline_proofs` | `ApprovalsHold`, `NoPhaseSkipped`, `LineageKept`, `ConfirmedStays` | `ApprovedIsUsed`, `PhasesInOrder`, `LineageIntact`, `ConfirmedIsKept` |
| `Review_proofs` | `PersonsAreAsked`, `HeadIsGreen`, `AllIsDecided`, `FixesStay` | `HumanFindingsParked`, `HeadStaysGreen`, `UndisturbedDecidesAll`, `SolvedStaysSolved` |
| `Delivery_proofs` | `ProtectionHolds`, `GeneratedStays`, `EndIsReported`, `PushIsTested` | `ProtectedHeld`, `GeneratedIsCommitted`, `E2eReported`, `PushedPasses` |
| `Respec_proofs` | `TicketizeIsIdempotent`, `StoriesAreCurrent`, `ScopeIsBuilt`, `TableIsRightAtFirst` | `NoTwins`, `DoneIsCurrent`, `ScopeMetIsBuilt`, `TableRightAtFirst` |
| `ModelRepair_proofs` | `HandsOnSound`, `LossesAreReported`, `PlayableIsPassed` | `HandedOnIsSound`, `LossIsReported`, `PlayedIsNotReported` |
| | `CallsWithinBudget` | the safety part of `EndsInBudget`: at most `4 * Limit` worker calls |
| | `ClosureWithin`, `ClosureClosed`, `NoDefectsIsSound` | what the graph searches and `FSM.validate` compute |
| `Usage_proofs` | `NothingIsCountedTwice`, `NothingIsMissed`, `TotalsAreCounters` | `CountedOnce`, `AllCounted`, `TotalIsCounter` |

Each of the seven modules about a specification also has `TypeCorrect`
(`TypeOK`).  The argument is the same in all of them: an inductive invariant
`IInv`, a conjunction of named parts, proved initially and part by part over the
actions; then each property from it.  `IInv` was model-checked on the run's
instance before it was proved.

**WORK.** None of the properties is inductive: each depends on where the process
stands between two writes.  `Control` ties the status of the current story and of
all others to `pc`; `Guarded` says what the baseline in memory and on disk guards
at each step, and what a done story still lacks before `SaveState`; `Counted`
counts BUG tickets and attempts against escalations; `EpicsKept` says which epic
may be ready but open while `pc = "epic"`.  The lemma `CurIsFirst` (no open story
precedes the current one) carries the refinement.

**The phase loop.** `IInv` says which phases are done at each step of `run`
(`Ordered`), that what is done has an artifact (`Made`) derived from what is there
(`Derived`), and who holds an older copy of state.json than whom (`Nested`:
approve command, disk, run).  `Nested` is the heart of it: the phase at work is
done in no copy (`WorkIsNew`), so a new version never replaces one that anything
calls done.  `Attended` and `OneGate` say what the copies know of an approval.

**REVIEW.** `Suite`: a fix comes to its commit only with a suite that passes.
`Decided`: while nothing disturbs the phase, every open finding a machine can fix
is in the cycle's list or is the current one.  `Kept`: the fix of a closed finding
that the worktree has is at HEAD, or is the one being committed, so that a
discard cannot lose it.  Outages are unbounded in the theorems as in the module.

**Delivery.** The properties speak of the worktree between worker calls;
`Protection` says what holds during one (the snapshot still has the protected
files as marked), `Generation` what a phase that generates has left when it
commits, `Outcome` what the E2E loop knows of the worktree, the BUG tickets and
the remote.  The proof of `PushedPasses` showed that one of its conditions,
`~disturbed`, was not needed: the property was strengthened.

**Ticketize.** What the diagnosis table and the verdict read depends on which
tickets belong together.  `Owned` gives every subtask and BUG a story, `Built`
ties a done story to the signature it was finished for, `Current` says which
stories are current while ticketize is half way through the model, and `Agreeing`
that the tickets of a story that was never reopened are done together.
`First` and `Latest` are reasoned about through the least element of a set
(`LeastElements`).

**MODEL.** The first half of `ModelRepair_proofs` is about `FsmChecks` alone.
`ClosureWithin` and `ClosureClosed` say that the round-by-round searches compute
the least set the edges do not lead out of: every round before the last adds a
state or none does any more, and there are no more states to add than edges.  From
that, `NoDefectsIsSound` compares `FSM.validate` with `SoundFsm`, which has no
search in it, and `AfterSteps` with `OriginsClosed` follow a use case.  The second
half is about behaviours: `InMemory` (what was validated when), `Counted` (how
often a worker has been called: at most twice per question, the open one at most
once so far), and then the program: `OnTrack` says that it and
the use case it is playing are in the states the replay computed, `Credited` that
with credit it is in a state to which the check has spread credit.
`LossIsReported` follows by looking at the transition that lets go of it.
Its second clause used to be stated for every declaration; the proof failed for a
declaration that accounts for the credit by names beside the places it can go
(`sales`, `deposit`, `refund`): such a transition may satisfy it while it loses
money.  The clause now says so.

**The usage server.** Two invariants share the work.  For counting too much:
`Claimed` bounds, for every request and list, the times it is in the list plus the
threads that are about to add it (by 1, or by the number of threads once two
overlapped), and `LimitsBehind` keeps the limits counted so far in front of the
lines a thread has left.  For missing: `Taken` says that what is in front of the
offset, of where a thread starts and of where it has read to is in a list or with
a thread; `Dumped` that what is saved is complete up to its offset.  `Placed` lets
both speak of positions: one that is in the middle of a line was read there, so
that the line is one of `halved`.  `InTurn` is what not overlapping means;
`Typed` are the types of everything, thread variables included.  `Metered` carries
`TotalIsCounter`: the posts under way tell what a counter once was.

**Assumptions** on constants, all stated by name in the modules, checked by TLC on
every instance, and no stronger than the code: stories are numbers other than the
one that stands for none, epics are not stories; limits are natural numbers, where
the code needs one attempt positive; routes are the three of `critic.py`; an
answer the parser has let through has sequences of transitions, rules and events,
finitely many states and events, and initial states among them
(`AnswersAssumption`, `UseCasesAssumption`: lists of a YAML file); use cases are
known by their ids; what is declared conserved is a finite list
(`DeclaredAssumption`); handler threads are finitely many (`ThreadsAssumption`);
a limit record is not a request.

**Induction.** A theorem that takes a predicate cannot be used by the provers
here.  `SetInduction` says the same of a set of numbers (0 is in it, and with n
also n+1: so all are), and `BelowIsWellFounded` gives least elements; with these
the recursive functions of the modules (`Closure`, `After`, `Total`) are proved
about by showing that a function with the recursion's equations exists and that
any two agree.  The modules have no RECURSIVE operators.

**Only model-checked**: liveness (`ImplementsBacklog` with its fairness,
`Completes`, `Terminates`, `Delivers`, `Settles`, and that MODEL ends in
`EndsInBudget`), since TLAPS cannot reason about ENABLED and so not about the
fairness these rest on; and the four violated properties, which are refuted by
their counterexamples.

## Not modelled

* Where a module is narrower than the code in a detail: `Review` starts with a clean
  worktree and a green suite, where the E2E loop may have left edits or failures,
  so `HeadStaysGreen` says that REVIEW adds none; its `Discarded` restores tracked files from HEAD,
  where `git checkout -- .` takes what a refused commit had staged.  `FsmChecks`
  keeps findings in a set, so two equal findings count once against `prev`
  (analysis.py:223), and has neither the words of ADJUST_WORDS in event names nor
  guards that read the credit without pinning it.  In `Usage` the offset is read
  in the same step as the stat, and one record is a limit or a request, where
  usage_server.py:245-258 may take it as both.
* Torn writes of state.json and tickets.yaml: both are rewritten in place; here a
  write happens or does not.  (The cache of the usage server is modelled torn.)
* The text of a model: which words the patterns of `simulate.py` find in a guard
  or an action, and the wording of findings.  `FsmChecks` starts from the phrases.
* The stages that only turn one text into another (elicit, derive, scenarios),
  the release verdict beyond its scope check (`_dedupe`, the report), and the
  wrappers around a worker: the outcomes of a call are inputs of every phase.
* Prompts, YAML repair, scaffolding, cost accounting, the Jira stub, `vm_gui`, the
  figures the usage server computes for its page, and its calibration: text, logs,
  arithmetic on times and prices, and input/output.
* Tampered tests in WORK: assumed to be put back, which `build.restore_if_tampered`
  does after every worker call there; the phases where it is not so simple are in
  `Delivery`.

## Plan

In the order of what matters to a user of the factory:

1. `WorkLoop`, `Backlog`, `Pipeline` and the proofs about them (done).
2. `Review`, `Delivery`, `Respec`, `FsmChecks`, `ModelRepair`, `Usage` (done).
3. The inductive invariants of these and the theorems above (done).
4. More about `FsmChecks`: what the searches that spread credit find, stated like
   `NoDefectsIsSound` without a search; and the refinement of `Pipeline` to a list
   of phases.
