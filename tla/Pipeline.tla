------------------------------ MODULE Pipeline ------------------------------
(***************************************************************************)
(* Orchestrator.run and the state.json it lives by: the phases, the gates, *)
(* done_phases, the `approve' and `reset' commands, and the artifacts each *)
(* phase leaves on disk.  A run, an approve and a reset are processes of   *)
(* their own; they share state.json and the artifacts, without a lock.     *)
(*                                                                         *)
(* An artifact is a version number, fresh whenever a worker wrote it (two  *)
(* answers to one prompt differ), together with the version of what it was *)
(* derived from.  What the phases do inside is in the other modules.       *)
(***************************************************************************)
EXTENDS Naturals

CONSTANTS
  Settings,   \* how a project may be run, see Setting
  MaxFaults,  \* bound: kills, outages, exceptions and capped runs
  MaxResets   \* bound: `reset' commands

\* Phase and ORDER.
INIT == 1  ELICIT == 2  USECASE == 3  MODEL == 4  TICKETIZE == 5  SPEC_TESTS == 6  WORK == 7
DRIVER == 8  E2E_SPEC == 9  E2E == 10  REVIEW == 11  RELEASE == 12  COMPLETE == 13
Phase == INIT..COMPLETE

GateOf == {MODEL, TICKETIZE}

\* manual: the gated phases whose gate is "manual" in factory.yaml.
\* script: run_until_done.sh starts runs again without asking anyone.
Setting == [manual : SUBSET GateOf, script : BOOLEAN]

ASSUME SettingsAssumption == Settings \subseteq Setting
ASSUME BoundsAssumption   == MaxFaults \in Nat /\ MaxResets \in Nat

\* The phases that leave an artifact, and the one each is derived from.
Artifacts == {ELICIT, USECASE, MODEL, TICKETIZE, SPEC_TESTS, DRIVER, E2E_SPEC}
Source    == [p \in Artifacts |-> CASE p = USECASE -> ELICIT
                                    [] p \in {MODEL, E2E_SPEC} -> USECASE
                                    [] p \in {TICKETIZE, SPEC_TESTS, DRIVER} -> MODEL
                                    [] OTHER -> ELICIT]
\* Phases that leave an existing file alone, and phases that may have written
\* their file by the time they fail.
KeepsExisting == {SPEC_TESTS, DRIVER, E2E_SPEC}
MayHalfWrite  == {MODEL, SPEC_TESTS, DRIVER, E2E_SPEC}

NoGate    == 0
NoVersion == 0

VARIABLES
  setting,    \* one of Settings, fixed from the start
  disk,       \* .factory/state.json: phase, done_phases, approvals
  mem,        \* the RunState of the running process
  pc,         \* where run() is
  announced,  \* the gate a [PAUSE] message named and no one has answered yet
  apc,        \* the gate an approve process is working on
  acopy,      \* the RunState that approve process loaded
  version,    \* the artifact of each phase on disk
  basis,      \* the version of its source it was derived from
  gen,        \* the last version number handed out
  reviewed,   \* history: the version a person had in front of them when approving a gate
  faults, resets

approving == <<apc, acopy, reviewed>>
files     == <<version, basis, gen>>
env       == <<setting, faults, resets>>
vars      == <<disk, mem, pc, announced, approving, files, env>>

RunState == [phase : Phase, done : SUBSET Phase, approvals : SUBSET GateOf]
Fresh    == [phase |-> INIT, done |-> {}, approvals |-> {}]
Steps    == {"off", "loop", "work", "confirm", "gate", "pausing"}

Init ==
  /\ setting \in Settings
  /\ disk = Fresh /\ mem = Fresh /\ pc = "off" /\ announced = NoGate
  /\ apc = NoGate /\ acopy = Fresh
  /\ version  = [p \in Artifacts |-> NoVersion]
  /\ basis    = [p \in Artifacts |-> NoVersion]
  /\ gen      = 0
  /\ reviewed = [g \in GateOf |-> NoVersion]
  /\ faults = 0 /\ resets = 0

-----------------------------------------------------------------------------
(* One run.                                                                *)

Exit == pc' = "off" /\ mem' = Fresh

\* Orchestrator.__init__ loads state.json.  Without the script a person
\* starts a run, and answers the pause of the run before first.
Launch ==
  /\ pc = "off" /\ disk.phase # COMPLETE
  /\ setting.script \/ (apc = NoGate /\ announced = NoGate)
  /\ mem' = disk /\ pc' = "loop"
  /\ UNCHANGED <<disk, announced, approving, files, env>>

\* Mutant: done_phases is not looked at.
LoopAgain ==
  /\ pc = "loop"
  /\ IF mem.phase = COMPLETE THEN Exit ELSE pc' = "work" /\ UNCHANGED mem
  /\ UNCHANGED <<disk, announced, approving, files, env>>

\* Mutant: the loop does not return at COMPLETE.
LoopPastEnd ==
  /\ pc = "loop"
  /\ pc' = (IF mem.phase \in mem.done THEN "gate" ELSE "work")
  /\ UNCHANGED <<mem, disk, announced, approving, files, env>>

\* A phase in done_phases is not executed again.
Loop ==
  /\ pc = "loop"
  /\ IF mem.phase = COMPLETE THEN Exit
                             ELSE pc' = (IF mem.phase \in mem.done THEN "gate" ELSE "work") /\ UNCHANGED mem
  /\ UNCHANGED <<disk, announced, approving, files, env>>

\* A worker's answer for phase p reaches the disk.
Write(p, from) ==
  /\ gen' = gen + 1
  /\ version' = [version EXCEPT ![p] = gen + 1]
  /\ basis' = [basis EXCEPT ![p] = from]

Keeps(p) == p \in KeepsExisting /\ version[p] # NoVersion

Execute ==
  /\ pc = "work"
  /\ IF mem.phase \in Artifacts /\ ~Keeps(mem.phase)
     THEN Write(mem.phase, version[Source[mem.phase]])
     ELSE UNCHANGED files
  /\ pc' = "confirm"
  /\ UNCHANGED <<disk, mem, announced, approving, env>>

\* A phase that fails may have written its file: a model under repair, a test
\* file that does not match the model, an entry point of a worker timed out.
HalfWritten(p) ==
  \/ UNCHANGED files
  \/ /\ p \in MayHalfWrite /\ ~Keeps(p)
     /\ \E from \in IF p = SPEC_TESTS THEN {NoVersion, version[MODEL]} ELSE {version[Source[p]]} : Write(p, from)

\* Mutant: a phase that stopped early goes into done_phases too.
StopEarlyAsDone ==
  /\ pc = "work" /\ faults < MaxFaults
  /\ faults' = faults + 1
  /\ HalfWritten(mem.phase)
  /\ disk' = [mem EXCEPT !.done = @ \cup {mem.phase}]
  /\ Exit
  /\ UNCHANGED <<announced, approving, setting, resets>>

\* WorkerUnavailable, or WORK at its cap: the state is saved and run returns.
StopEarly ==
  /\ pc = "work" /\ faults < MaxFaults
  /\ faults' = faults + 1
  /\ HalfWritten(mem.phase)
  /\ disk' = mem
  /\ Exit
  /\ UNCHANGED <<announced, approving, setting, resets>>

\* Any other exception, or a kill: nothing is saved.
Die ==
  /\ pc # "off" /\ faults < MaxFaults
  /\ faults' = faults + 1
  /\ IF pc = "work" THEN HalfWritten(mem.phase) ELSE UNCHANGED files
  /\ Exit
  /\ UNCHANGED <<disk, announced, approving, setting, resets>>

\* Mutant: the finished phase is not added to done_phases.
ConfirmForgets ==
  /\ pc = "confirm"
  /\ disk' = mem
  /\ pc' = "gate"
  /\ UNCHANGED <<mem, announced, approving, files, env>>

Confirm ==
  /\ pc = "confirm"
  /\ mem' = [mem EXCEPT !.done = @ \cup {mem.phase}]
  /\ disk' = mem'
  /\ pc' = "gate"
  /\ UNCHANGED <<announced, approving, files, env>>

\* Mutant: one approval opens every gate.
BlockedUnlessAny == mem.phase \in setting.manual /\ mem.approvals = {}

Blocked == mem.phase \in setting.manual /\ mem.phase \notin mem.approvals

Advance ==
  /\ pc = "gate" /\ ~Blocked
  /\ mem' = [mem EXCEPT !.phase = @ + 1]
  /\ disk' = mem'
  /\ pc' = "loop"
  /\ UNCHANGED <<announced, approving, files, env>>

\* The [PAUSE] message is out before the state is saved.
Pause ==
  /\ pc = "gate" /\ Blocked
  /\ announced' = mem.phase
  /\ pc' = "pausing"
  /\ UNCHANGED <<disk, mem, approving, files, env>>

SavePaused ==
  /\ pc = "pausing"
  /\ disk' = mem
  /\ Exit
  /\ UNCHANGED <<announced, approving, files, env>>

-----------------------------------------------------------------------------
(* The other commands.                                                     *)

\* A person has seen the pause, looks at the artifact and approves, once: the
\* command loads state.json ...
ApproveLoad ==
  /\ apc = NoGate /\ announced # NoGate
  /\ setting.script \/ pc = "off"
  /\ announced' = NoGate
  /\ apc' = announced
  /\ acopy' = disk
  /\ reviewed' = [reviewed EXCEPT ![announced] = version[announced]]
  /\ UNCHANGED <<disk, mem, pc, files, env>>

\* Mutant: the approval is set in memory only.
ApproveUnsaved ==
  /\ apc # NoGate
  /\ apc' = NoGate /\ acopy' = Fresh
  /\ UNCHANGED <<disk, mem, pc, announced, reviewed, files, env>>

\* ... adds the approval and saves what it loaded.
ApproveSave ==
  /\ apc # NoGate
  /\ disk' = [acopy EXCEPT !.approvals = @ \cup {apc}]
  /\ apc' = NoGate /\ acopy' = Fresh
  /\ UNCHANGED <<mem, pc, announced, reviewed, files, env>>

\* `reset' deletes state.json and leaves every artifact where it is.
Reset ==
  /\ pc = "off" /\ apc = NoGate /\ resets < MaxResets
  /\ resets' = resets + 1
  /\ disk' = Fresh
  /\ announced' = NoGate
  /\ reviewed' = [g \in GateOf |-> NoVersion]
  /\ UNCHANGED <<mem, pc, apc, acopy, files, setting, faults>>

Complete == pc = "off" /\ disk.phase = COMPLETE /\ UNCHANGED vars

Running == Loop \/ Execute \/ Confirm \/ Advance \/ Pause \/ SavePaused

Next == Launch \/ Running \/ StopEarly \/ Die \/ ApproveLoad \/ ApproveSave \/ Reset \/ Complete

Spec == Init /\ [][Next]_vars

\* A run goes on (worker calls time out), a stopped one is started again, and
\* a person asked to approve does.
FairSpec == Spec /\ WF_vars(Launch) /\ WF_vars(Running) /\ WF_vars(ApproveLoad) /\ WF_vars(ApproveSave)

-----------------------------------------------------------------------------
(* Properties.                                                             *)

\* Every variable has its type.
TypeOK ==
  /\ setting \in Settings /\ disk \in RunState /\ mem \in RunState /\ acopy \in RunState
  /\ pc \in Steps /\ announced \in GateOf \cup {NoGate} /\ apc \in GateOf \cup {NoGate}
  /\ gen \in Nat /\ version \in [Artifacts -> 0..gen] /\ basis \in [Artifacts -> 0..gen]
  /\ reviewed \in [GateOf -> 0..gen]
  /\ faults \in 0..MaxFaults /\ resets \in 0..MaxResets

\* README section 4: past a manual gate, the artifact in use is the version a
\* person approved, however often runs stop, die, and start again, and, where
\* only one gate is manual, with approve commands racing the script's runs.
\* (With two, an approve command that saves an old copy can undo TICKETIZE
\* between its pause and its approval, and the tickets are made again.)
ApprovedIsUsed ==
  \A g \in setting.manual : disk.phase > g \/ mem.phase > g => reviewed[g] = version[g] /\ version[g] # NoVersion

\* done_phases holds exactly the phases before the current one, or those and
\* the current one: no phase is ever skipped.
PhasesInOrder ==
  \A st \in {disk, mem, acopy} : st.done \in {1..st.phase - 1, 1..st.phase}

\* The use cases, the model and the tickets in use were derived from the
\* version of their source in use.
LineageIntact ==
  \A p \in {USECASE, MODEL, TICKETIZE} :
    disk.phase > p \/ mem.phase > p => basis[p] = version[Source[p]]

\* What done_phases on disk says is done is not generated again.
ConfirmedIsKept == [][\A p \in Artifacts : p \in disk.done => version'[p] = version[p]]_vars

\* With a person starting every run and answering every pause, and finitely
\* many faults, the pipeline completes.
Completes == ~setting.script => <>(disk.phase = COMPLETE)

\* build.spec_tests: the tests in use match the model in use.
TestsMatchModel ==
  disk.phase > SPEC_TESTS => basis[SPEC_TESTS] = version[MODEL]
=============================================================================
