-------------------------- MODULE Pipeline_proofs --------------------------
(***************************************************************************)
(* Proofs about Pipeline, for every set of settings and every number of    *)
(* faults and resets.                                                      *)
(*                                                                         *)
(* Ordered ties done_phases to the step run() is at; it needs nothing else *)
(* than types, so it holds with an approve command that saves over a run's *)
(* state.  Nested orders the copies of state.json: an approve command      *)
(* holds no more of done_phases than the disk, the disk no more than the   *)
(* run, so the phase at work is not one the disk says is done.  Attended   *)
(* says that with a person at the terminal one process at a time holds a   *)
(* copy of state.json and that copy is current, which is what an approval  *)
(* depends on.  OneGate says what is left of it with the script: where     *)
(* only one gate is manual, no copy can be so old that the gated phase is  *)
(* not done in it.                                                         *)
(***************************************************************************)
EXTENDS Pipeline, TLAPS

\* Which phases are done at each step.
Ordered ==
  /\ PhasesInOrder
  /\ pc \in {"work", "confirm"} => mem.done = 1..mem.phase - 1
  /\ pc \in {"gate", "pausing"} => mem.done = 1..mem.phase
  /\ pc \in {"work", "confirm", "gate"} => mem.phase # COMPLETE

\* The artifacts LineageIntact is about.
Chain == {USECASE, MODEL, TICKETIZE}

\* Which artifacts there are.
Made ==
  /\ \A st \in {disk, mem, acopy} : \A p \in st.done \cap Artifacts : version[p] # NoVersion
  /\ pc = "confirm" /\ mem.phase \in Artifacts => version[mem.phase] # NoVersion

\* Who may lag behind whom.
Nested ==
  /\ acopy.done \subseteq disk.done
  /\ apc = NoGate => acopy = Fresh
  /\ IF pc = "off" THEN mem = Fresh ELSE disk.done \subseteq mem.done

\* Phases done by the run or the disk were derived from what is there.
Derived ==
  /\ \A st \in {disk, mem, acopy} : \A p \in st.done \cap Chain : basis[p] = version[Source[p]]
  /\ pc = "confirm" /\ mem.phase \in Chain => basis[mem.phase] = version[Source[mem.phase]]

\* What state.json, the copies of it, and the person know of each other.
Known(g) == g \in disk.done /\ reviewed[g] = version[g]

Attended ==
  ~setting.script =>
    /\ mem = IF pc = "off" THEN Fresh ELSE disk
    /\ apc # NoGate => pc = "off" /\ announced = NoGate /\ acopy = disk /\ Known(apc)
    /\ announced # NoGate => pc \in {"off", "pausing"} /\ announced \in disk.done
    /\ \A g \in disk.approvals : Known(g)
    /\ \A g \in setting.manual : disk.phase > g => g \in disk.approvals

\* No two gates are manual, as with the defaults of config.py.
OneGateAtMost == \E g \in GateOf : setting.manual \subseteq {g}

\* What the copies of state.json know of the one manual gate.
OneGate ==
  \A g \in GateOf : setting.manual \subseteq {g} =>
    /\ g \in mem.done => g \in disk.done
    /\ announced # NoGate => announced = g /\ g \in disk.done
    /\ apc # NoGate => apc = g /\ g \in acopy.done /\ reviewed[g] = version[g]
    /\ \A st \in {disk, mem, acopy} :
         /\ g \in st.approvals => g \in st.done /\ reviewed[g] = version[g]
         /\ g \in setting.manual /\ st.phase > g => g \in st.approvals

IInv == TypeOK /\ Ordered /\ Made /\ Nested /\ Derived /\ Attended /\ OneGate

USE SettingsAssumption, BoundsAssumption
USE DEF Phase, INIT, ELICIT, USECASE, MODEL, TICKETIZE, SPEC_TESTS, WORK, DRIVER, E2E_SPEC, E2E, REVIEW,
        RELEASE, COMPLETE, GateOf, NoGate, NoVersion, Steps, Artifacts

\* done_phases at a phase, before it is done and after.
LEMMA Intervals ==
  \A p \in Phase : /\ 1..p = (1..p - 1) \cup {p} /\ p \notin 1..p - 1
                   /\ 1..p \subseteq Phase /\ 1..p - 1 \subseteq Phase /\ (p + 1) - 1 = p
  OBVIOUS

LEMMA FreshState == Fresh \in RunState /\ Fresh.done = 1..Fresh.phase - 1 /\ Fresh.phase = 1 /\ Fresh.approvals = {}
  BY DEF Fresh, RunState

\* Half-written or whole, a phase's file is a new version of it alone.
LEMMA WriteVersions ==
  ASSUME TypeOK, NEW p \in Artifacts, NEW from \in 0..gen, Write(p, from)
  PROVE  /\ gen' \in Nat /\ version' \in [Artifacts -> 0..gen'] /\ basis' \in [Artifacts -> 0..gen']
         /\ reviewed \in [GateOf -> 0..gen']
         /\ version'[p] # NoVersion
         /\ basis'[p] = from
         /\ \A q \in Artifacts \ {p} : version'[q] = version[q] /\ basis'[q] = basis[q]
  BY DEF TypeOK, Write

\* What a working phase may do to the files.
FilesStep(p) ==
  /\ gen' \in Nat /\ version' \in [Artifacts -> 0..gen'] /\ basis' \in [Artifacts -> 0..gen']
  /\ reviewed \in [GateOf -> 0..gen']
  /\ \A q \in Artifacts : version[q] # NoVersion => version'[q] # NoVersion
  /\ \A q \in Artifacts \ {p} : version'[q] = version[q] /\ basis'[q] = basis[q]

LEMMA SourceType == Source \in [Artifacts -> Artifacts]
  BY DEF Source

LEMMA HalfWrittenFiles ==
  ASSUME TypeOK, NEW p \in Phase, HalfWritten(p)
  PROVE  FilesStep(p)
<1>1. CASE UNCHANGED files
  BY <1>1 DEF files, FilesStep, TypeOK
<1>2. CASE p \in MayHalfWrite /\ \E from \in 0..gen : Write(p, from)
  <2>1. PICK from \in 0..gen : Write(p, from)
    BY <1>2
  <2>2. p \in Artifacts
    BY <1>2 DEF MayHalfWrite
  <2> QED
    BY <2>1, <2>2, WriteVersions DEF FilesStep
<1>3. ASSUME p \in MayHalfWrite,
             \E from \in IF p = SPEC_TESTS THEN {NoVersion, version[MODEL]} ELSE {version[Source[p]]} : Write(p, from)
      PROVE  \E from \in 0..gen : Write(p, from)
  <2>1. p \in Artifacts /\ MODEL \in Artifacts
    BY <1>3 DEF MayHalfWrite
  <2>2. version[MODEL] \in 0..gen /\ version[Source[p]] \in 0..gen /\ NoVersion \in 0..gen
    BY <2>1, SourceType DEF TypeOK
  <2> QED
    BY <1>3, <2>2
<1> QED
  BY <1>1, <1>2, <1>3 DEF HalfWritten

LEMMA ExecuteFiles ==
  ASSUME TypeOK, Execute
  PROVE  /\ FilesStep(mem.phase)
         /\ mem.phase \in Artifacts => version'[mem.phase] # NoVersion
         /\ mem.phase \in Chain => basis'[mem.phase] = version[Source[mem.phase]]
<1> mem.phase \in Phase
  BY DEF TypeOK, RunState
<1>1. CASE mem.phase \in Artifacts /\ ~Keeps(mem.phase)
  <2>1. version[Source[mem.phase]] \in 0..gen
    BY <1>1, SourceType DEF TypeOK
  <2>2. Write(mem.phase, version[Source[mem.phase]])
    BY <1>1 DEF Execute
  <2> QED
    BY <1>1, <2>1, <2>2, WriteVersions DEF FilesStep
<1>2. CASE ~(mem.phase \in Artifacts /\ ~Keeps(mem.phase))
  BY <1>2 DEF Execute, files, FilesStep, TypeOK, Keeps, KeepsExisting, Chain
<1> QED
  BY <1>1, <1>2

-----------------------------------------------------------------------------
(* Types and the order of the phases.                                      *)

\* Every step keeps the types.
LEMMA TypeStep == TypeOK /\ Ordered /\ [Next]_vars => TypeOK'
<1> SUFFICES ASSUME TypeOK, Ordered, [Next]_vars PROVE TypeOK'
  OBVIOUS
<1> USE FreshState DEF TypeOK, files, env, approving, Exit
<1>0. mem.phase \in Phase /\ mem \in RunState
  BY DEF RunState
<1>1. CASE Launch
  BY <1>1 DEF Launch
<1>2. CASE Loop
  BY <1>2 DEF Loop
<1>3. CASE Execute
  BY <1>3, ExecuteFiles DEF Execute, FilesStep
<1>4. CASE Confirm
  <2>1. [mem EXCEPT !.done = @ \cup {mem.phase}] \in RunState
    BY <1>0 DEF RunState
  <2> QED
    BY <1>4, <2>1 DEF Confirm
<1>5. CASE Advance
  <2>0. mem.phase # COMPLETE
    BY <1>5 DEF Advance, Ordered
  <2>1. mem.phase + 1 \in Phase
    BY <1>0, <2>0
  <2>2. [mem EXCEPT !.phase = @ + 1] \in RunState
    BY <1>0, <2>1 DEF RunState
  <2> QED
    BY <1>5, <2>2 DEF Advance
<1>6. CASE Pause
  <2>1. mem.phase \in GateOf
    BY <1>6 DEF Pause, Blocked, Setting
  <2> QED
    BY <1>6, <2>1 DEF Pause
<1>7. CASE SavePaused
  BY <1>7 DEF SavePaused
<1>8. CASE StopEarly
  <2>1. FilesStep(mem.phase)
    BY <1>0, <1>8, HalfWrittenFiles DEF StopEarly
  <2> QED
    BY <1>8, <2>1 DEF StopEarly, FilesStep
<1>9. CASE Die
  <2>1. CASE pc = "work"
    <3>1. FilesStep(mem.phase)
      BY <1>0, <1>9, <2>1, HalfWrittenFiles DEF Die
    <3> QED
      BY <1>9, <3>1 DEF Die, FilesStep
  <2>2. CASE pc # "work"
    BY <1>9, <2>2 DEF Die
  <2> QED
    BY <2>1, <2>2
<1>10. CASE ApproveLoad
  BY <1>10 DEF ApproveLoad
<1>11. CASE ApproveSave
  <2>1. [acopy EXCEPT !.approvals = @ \cup {apc}] \in RunState
    BY <1>11 DEF ApproveSave, RunState
  <2> QED
    BY <1>11, <2>1 DEF ApproveSave
<1>12. CASE Reset
  BY <1>12 DEF Reset
<1>13. CASE Complete \/ UNCHANGED vars
  BY <1>13 DEF Complete, vars
<1> QED
  BY <1>1, <1>2, <1>3, <1>4, <1>5, <1>6, <1>7, <1>8, <1>9, <1>10, <1>11, <1>12, <1>13 DEF Next, Running

\* Every step keeps the phases in order.
LEMMA OrderedStep == TypeOK /\ Ordered /\ [Next]_vars => Ordered'
<1> SUFFICES ASSUME TypeOK, Ordered, [Next]_vars PROVE Ordered'
  OBVIOUS
<1> USE FreshState DEF Ordered, PhasesInOrder, Exit, approving
<1>0. mem.phase \in Phase /\ mem \in RunState
  BY DEF RunState, TypeOK
<1>1. CASE Launch
  BY <1>1 DEF Launch
<1>2. CASE Loop
  BY <1>0, <1>2, Intervals DEF Loop
<1>3. CASE Execute
  BY <1>3 DEF Execute
<1>4. CASE Confirm
  <2>1. mem'.done = 1..mem.phase /\ mem'.phase = mem.phase
    BY <1>0, <1>4, Intervals DEF Confirm, RunState
  <2> QED
    BY <1>4, <2>1 DEF Confirm
<1>5. CASE Advance
  <2>1. mem'.done = 1..mem'.phase - 1
    BY <1>0, <1>5, Intervals DEF Advance, RunState
  <2> QED
    BY <1>5, <2>1 DEF Advance
<1>6. CASE Pause
  BY <1>6 DEF Pause
<1>7. CASE SavePaused
  BY <1>7 DEF SavePaused
<1>8. CASE StopEarly
  BY <1>8 DEF StopEarly
<1>9. CASE Die
  BY <1>9 DEF Die
<1>10. CASE ApproveLoad
  BY <1>10 DEF ApproveLoad
<1>11. CASE ApproveSave
  <2>1. disk'.done = acopy.done /\ disk'.phase = acopy.phase
    BY <1>11 DEF ApproveSave, RunState, TypeOK
  <2> QED
    BY <1>11, <2>1 DEF ApproveSave
<1>12. CASE Reset
  BY <1>12 DEF Reset
<1>13. CASE Complete \/ UNCHANGED vars
  BY <1>13 DEF Complete, vars
<1> QED
  BY <1>1, <1>2, <1>3, <1>4, <1>5, <1>6, <1>7, <1>8, <1>9, <1>10, <1>11, <1>12, <1>13 DEF Next, Running

-----------------------------------------------------------------------------
(* The artifacts.                                                          *)

\* Only a phase at work touches a file, its own, and no file is ever removed.
LEMMA FilesChange ==
  ASSUME TypeOK, [Next]_vars
  PROVE  /\ \A q \in Artifacts : version[q] # NoVersion => version'[q] # NoVersion
         /\ \A q \in Artifacts : (version'[q] = version[q] /\ basis'[q] = basis[q]) \/ (pc = "work" /\ q = mem.phase)
<1>0. mem.phase \in Phase
  BY DEF TypeOK, RunState
<1>1. CASE UNCHANGED files
  BY <1>1 DEF files
<1>2. CASE pc = "work" /\ FilesStep(mem.phase)
  BY <1>2 DEF FilesStep
<1>3. CASE Execute
  BY <1>2, <1>3, ExecuteFiles DEF Execute
<1>4. CASE StopEarly
  BY <1>0, <1>2, <1>4, HalfWrittenFiles DEF StopEarly
<1>5. CASE Die
  BY <1>0, <1>1, <1>2, <1>5, HalfWrittenFiles DEF Die
<1>6. CASE Launch \/ Loop \/ Confirm \/ Advance \/ Pause \/ SavePaused \/ ApproveLoad \/ ApproveSave \/ Reset
  BY <1>1, <1>6 DEF Launch, Loop, Confirm, Advance, Pause, SavePaused, ApproveLoad, ApproveSave, Reset
<1>7. CASE Complete \/ UNCHANGED vars
  BY <1>1, <1>7 DEF Complete, vars
<1> QED
  BY <1>3, <1>4, <1>5, <1>6, <1>7 DEF Next, Running

\* Where done_phases of a process or of the disk comes from.
LEMMA DoneComesFrom ==
  ASSUME TypeOK, [Next]_vars, NEW st \in {disk', mem', acopy'}
  PROVE  \/ \E old \in {disk, mem, acopy} : st.done = old.done
         \/ st.done = {}
         \/ pc = "confirm" /\ st.done = mem.done \cup {mem.phase}
<1> USE FreshState DEF Exit, Fresh, approving, RunState
<1>1. CASE Launch \/ Loop \/ Execute \/ Pause \/ SavePaused
  BY <1>1 DEF Launch, Loop, Execute, Pause, SavePaused
<1>2. CASE Confirm
  <2>1. mem'.done = mem.done \cup {mem.phase} /\ disk' = mem' /\ acopy' = acopy /\ pc = "confirm"
    BY <1>2 DEF Confirm, TypeOK
  <2> QED
    BY <2>1
<1>3. CASE Advance
  <2>1. mem'.done = mem.done /\ disk' = mem' /\ acopy' = acopy
    BY <1>3 DEF Advance, TypeOK
  <2> QED
    BY <2>1
<1>4. CASE StopEarly \/ Die
  BY <1>4 DEF StopEarly, Die
<1>5. CASE ApproveSave
  <2>1. disk'.done = acopy.done /\ mem' = mem /\ acopy' = Fresh
    BY <1>5 DEF ApproveSave, TypeOK
  <2> QED
    BY <2>1
<1>6. CASE ApproveLoad \/ Reset
  BY <1>6 DEF ApproveLoad, Reset
<1>7. CASE Complete \/ UNCHANGED vars
  BY <1>7 DEF Complete, vars
<1> QED
  BY <1>1, <1>2, <1>3, <1>4, <1>5, <1>6, <1>7 DEF Next, Running
\* Every step leaves each lagging copy behind the one it lags.
LEMMA NestedStep == TypeOK /\ Nested /\ [Next]_vars => Nested'
<1> SUFFICES ASSUME TypeOK, Nested, [Next]_vars PROVE Nested'
  OBVIOUS
<1> USE FreshState DEF Nested, Exit, Fresh, approving
<1>1. CASE Launch \/ Loop \/ Execute \/ Pause \/ SavePaused
  BY <1>1 DEF Launch, Loop, Execute, Pause, SavePaused
<1>2. CASE Confirm
  <2>1. mem'.done = mem.done \cup {mem.phase} /\ disk' = mem' /\ acopy' = acopy
    BY <1>2 DEF Confirm, TypeOK, RunState
  <2> QED
    BY <1>2, <2>1 DEF Confirm
<1>3. CASE Advance
  <2>1. mem'.done = mem.done /\ disk' = mem' /\ acopy' = acopy
    BY <1>3 DEF Advance, TypeOK, RunState
  <2> QED
    BY <1>3, <2>1 DEF Advance
<1>4. CASE StopEarly \/ Die
  BY <1>4 DEF StopEarly, Die
<1>5. CASE ApproveSave
  <2>1. disk'.done = acopy.done /\ mem' = mem /\ acopy' = Fresh
    BY <1>5 DEF ApproveSave, TypeOK, RunState
  <2> QED
    BY <1>5, <2>1 DEF ApproveSave
<1>6. CASE ApproveLoad
  BY <1>6 DEF ApproveLoad
<1>7. CASE Reset
  BY <1>7 DEF Reset
<1>8. CASE Complete \/ UNCHANGED vars
  BY <1>8 DEF Complete, vars
<1> QED
  BY <1>1, <1>2, <1>3, <1>4, <1>5, <1>6, <1>7, <1>8 DEF Next, Running

\* The phase at work is one that nothing says is done.
LEMMA WorkIsNew ==
  ASSUME TypeOK, Ordered, Nested, pc = "work", NEW st \in {disk, mem, acopy}
  PROVE  mem.phase \notin st.done
<1>1. st.done \subseteq mem.done
  BY DEF Nested
<1>2. mem.phase \notin mem.done
  BY Intervals DEF Ordered, TypeOK, RunState
<1> QED
  BY <1>1, <1>2

\* Every step leaves the artifact of each phase that is done.
LEMMA MadeStep == TypeOK /\ Made /\ [Next]_vars => Made'
<1> SUFFICES ASSUME TypeOK, Made, [Next]_vars PROVE Made'
  OBVIOUS
<1>1. ASSUME NEW st \in {disk', mem', acopy'}, NEW p \in st.done \cap Artifacts
      PROVE  version'[p] # NoVersion
  <2>1. version[p] # NoVersion
    <3>1. CASE \E old \in {disk, mem, acopy} : st.done = old.done
      BY <1>1, <3>1 DEF Made
    <3>2. CASE pc = "confirm" /\ st.done = mem.done \cup {mem.phase}
      BY <1>1, <3>2 DEF Made
    <3> QED
      BY <1>1, <3>1, <3>2, DoneComesFrom
  <2> QED
    BY <1>1, <2>1, FilesChange
<1>2. pc' = "confirm" /\ mem'.phase \in Artifacts => version'[mem'.phase] # NoVersion
  <2>1. CASE Execute
    BY <2>1, ExecuteFiles DEF Execute
  <2>2. CASE UNCHANGED <<pc, mem>>
    BY <2>2, FilesChange DEF Made
  <2>3. CASE Launch \/ Loop \/ Confirm \/ Advance \/ Pause \/ SavePaused \/ StopEarly \/ Die
    BY <2>3 DEF Launch, Loop, Confirm, Advance, Pause, SavePaused, StopEarly, Die, Exit
  <2>4. CASE ApproveLoad \/ ApproveSave \/ Reset \/ Complete \/ UNCHANGED vars
    BY <2>2, <2>4 DEF ApproveLoad, ApproveSave, Reset, Complete, vars
  <2> QED
    BY <2>1, <2>3, <2>4 DEF Next, Running
<1> QED
  BY <1>1, <1>2 DEF Made

\* The phases up to one are done whenever that one is.
LEMMA SourceDone ==
  ASSUME TypeOK, Ordered, NEW st \in {disk, mem, acopy}, NEW p \in st.done \cap Chain
  PROVE  Source[p] \in st.done /\ p \in Artifacts /\ Source[p] \in Artifacts
<1>1. p \in Artifacts /\ Source[p] \in Artifacts /\ Source[p] < p /\ Source[p] \in Phase
  BY DEF Chain, Source
<1>2. st.done \in {1..st.phase - 1, 1..st.phase} /\ st.phase \in Phase
  BY DEF Ordered, PhasesInOrder, TypeOK, RunState
<1>3. ASSUME NEW n \in Nat, p \in 1..n PROVE Source[p] \in 1..n
  <2>1. \A a, b \in Nat : a \in 1..n /\ b < a /\ 1 <= b => b \in 1..n
    OBVIOUS
  <2>2. p \in Nat /\ Source[p] \in Nat /\ 1 <= Source[p]
    BY <1>1
  <2> QED
    BY <1>1, <1>3, <2>1, <2>2
<1>4. Source[p] \in st.done
  <2>1. st.phase \in Nat /\ st.phase - 1 \in Nat
    BY <1>2
  <2>2. CASE st.done = 1..st.phase - 1
    BY <1>3, <2>1, <2>2
  <2>3. CASE st.done = 1..st.phase
    BY <1>3, <2>1, <2>3
  <2> QED
    BY <1>2, <2>2, <2>3
<1> QED
  BY <1>1, <1>4

\* Every step leaves what is done derived from what is there.
LEMMA DerivedStep == TypeOK /\ Ordered /\ Nested /\ Derived /\ [Next]_vars => Derived'
<1> SUFFICES ASSUME TypeOK, Ordered, Nested, Derived, [Next]_vars PROVE Derived'
  OBVIOUS
<1>0. ASSUME NEW p \in Chain, pc # "work" PROVE version'[Source[p]] = version[Source[p]] /\ basis'[p] = basis[p]
  <2>1. p \in Artifacts /\ Source[p] \in Artifacts
    BY <1>0 DEF Chain, Source
  <2> QED
    BY <1>0, <2>1, FilesChange
<1>1. ASSUME NEW st \in {disk', mem', acopy'}, NEW p \in st.done \cap Chain
      PROVE  basis'[p] = version'[Source[p]]
  <2>1. CASE \E old \in {disk, mem, acopy} : st.done = old.done
    <3>1. PICK old \in {disk, mem, acopy} : st.done = old.done
      BY <2>1
    <3>2. basis[p] = version[Source[p]]
      BY <1>1, <3>1 DEF Derived
    <3>3. Source[p] \in old.done /\ p \in Artifacts /\ Source[p] \in Artifacts
      BY <1>1, <3>1, SourceDone
    <3>4. pc = "work" => mem.phase # p /\ mem.phase # Source[p]
      BY <1>1, <3>1, <3>3, WorkIsNew
    <3> QED
      BY <3>2, <3>3, <3>4, FilesChange
  <2>2. CASE pc = "confirm" /\ st.done = mem.done \cup {mem.phase}
    <3>1. basis[p] = version[Source[p]]
      BY <1>1, <2>2 DEF Derived
    <3> QED
      BY <1>0, <1>1, <2>2, <3>1
  <2> QED
    BY <1>1, <2>1, <2>2, DoneComesFrom
<1>2. pc' = "confirm" /\ mem'.phase \in Chain => basis'[mem'.phase] = version'[Source[mem'.phase]]
  <2>1. CASE Execute
    <3>1. SUFFICES ASSUME mem.phase \in Chain PROVE basis'[mem.phase] = version'[Source[mem.phase]]
      BY <2>1 DEF Execute
    <3>2. Source[mem.phase] \in Artifacts \ {mem.phase}
      BY <3>1 DEF Chain, Source
    <3> QED
      BY <2>1, <3>1, <3>2, ExecuteFiles DEF FilesStep
  <2>2. CASE UNCHANGED <<pc, mem>>
    BY <1>0, <2>2 DEF Derived
  <2>3. CASE Launch \/ Loop \/ Confirm \/ Advance \/ Pause \/ SavePaused \/ StopEarly \/ Die
    BY <2>3 DEF Launch, Loop, Confirm, Advance, Pause, SavePaused, StopEarly, Die, Exit
  <2>4. CASE ApproveLoad \/ ApproveSave \/ Reset \/ Complete \/ UNCHANGED vars
    BY <2>2, <2>4 DEF ApproveLoad, ApproveSave, Reset, Complete, vars
  <2> QED
    BY <2>1, <2>3, <2>4 DEF Next, Running
<1> QED
  BY <1>1, <1>2 DEF Derived

-----------------------------------------------------------------------------
(* The approvals.                                                          *)

\* How a project is run does not change.
LEMMA SettingKept == [Next]_vars => setting' = setting
<1> SUFFICES ASSUME [Next]_vars PROVE setting' = setting
  OBVIOUS
<1>1. CASE Running
  BY <1>1 DEF Running, Loop, Execute, Confirm, Advance, Pause, SavePaused, env
<1>2. CASE Launch \/ StopEarly \/ Die
  BY <1>2 DEF Launch, StopEarly, Die, env
<1>3. CASE ApproveLoad \/ ApproveSave \/ Reset
  BY <1>3 DEF ApproveLoad, ApproveSave, Reset, env
<1>4. CASE Complete \/ UNCHANGED vars
  BY <1>4 DEF Complete, vars, env
<1> QED
  BY <1>1, <1>2, <1>3, <1>4 DEF Next

\* With a person at the terminal, every step keeps what the copies of
\* state.json say of each other and of what that person approved.
LEMMA AttendedStep == TypeOK /\ Ordered /\ Nested /\ Attended /\ [Next]_vars => Attended'
<1> SUFFICES ASSUME TypeOK, Ordered, Nested, Attended, [Next]_vars PROVE Attended'
  OBVIOUS
<1> SUFFICES ASSUME ~setting.script PROVE Attended'
  BY SettingKept DEF Attended
<1>0. /\ mem.phase \in Phase /\ disk \in RunState /\ mem \in RunState /\ acopy \in RunState
      /\ setting.manual \subseteq GateOf
      /\ GateOf \subseteq Artifacts
  BY DEF TypeOK, RunState, Setting
<1>1. ASSUME NEW g \in GateOf, Known(g), disk.done \subseteq disk'.done, reviewed'[g] = reviewed[g]
      PROVE  Known(g)'
  <2>1. pc = "work" => g # mem.phase
    BY <1>1, WorkIsNew DEF Known
  <2> QED
    BY <1>0, <1>1, <2>1, FilesChange DEF Known
<1>2. disk.approvals \subseteq GateOf
  BY <1>0 DEF RunState
<1> USE FreshState DEF Attended, Exit, approving, env
<1>3. CASE Launch
  BY <1>1, <1>2, <1>3 DEF Launch
<1>4. CASE Loop
  BY <1>1, <1>2, <1>4 DEF Loop
<1>5. CASE Execute
  BY <1>1, <1>2, <1>5 DEF Execute
<1>6. CASE Confirm
  <2>1. /\ disk' = mem' /\ mem'.approvals = disk.approvals /\ mem'.phase = disk.phase
        /\ disk.done \subseteq disk'.done
    BY <1>0, <1>6 DEF Confirm, RunState
  <2> QED
    BY <1>1, <1>2, <1>6, <2>1 DEF Confirm
<1>7. CASE Advance
  <2>1. /\ disk' = mem' /\ mem'.approvals = disk.approvals /\ mem'.phase = disk.phase + 1
        /\ disk.done = disk'.done
    BY <1>0, <1>7 DEF Advance, RunState
  <2>2. \A g \in setting.manual : disk'.phase > g => g \in disk.approvals
    BY <1>0, <1>7, <2>1 DEF Advance, Blocked
  <2> QED
    BY <1>1, <1>2, <1>7, <2>1, <2>2 DEF Advance
<1>8. CASE Pause
  <2>1. mem.phase \in disk.done /\ mem = disk
    BY <1>0, <1>8, Intervals DEF Pause, Ordered
  <2> QED
    BY <1>1, <1>2, <1>8, <2>1 DEF Pause
<1>9. CASE SavePaused
  BY <1>1, <1>2, <1>9 DEF SavePaused
<1>10. CASE StopEarly
  BY <1>1, <1>2, <1>10 DEF StopEarly
<1>11. CASE Die
  BY <1>1, <1>2, <1>11 DEF Die
<1>12. CASE ApproveLoad
  <2>1. announced \in GateOf /\ announced \in disk.done /\ pc = "off"
    BY <1>12 DEF ApproveLoad, TypeOK
  <2>2. \A g \in GateOf : g = announced => Known(g)'
    BY <1>0, <1>12, <2>1 DEF ApproveLoad, TypeOK, Known, files
  <2>3. \A g \in disk.approvals : Known(g)'
    BY <1>0, <1>2, <1>12 DEF ApproveLoad, TypeOK, Known, files
  <2> QED
    BY <1>12, <2>1, <2>2, <2>3 DEF ApproveLoad
<1>13. CASE ApproveSave
  <2>1. /\ disk' = [acopy EXCEPT !.approvals = @ \cup {apc}] /\ acopy = disk /\ pc = "off" /\ announced = NoGate
        /\ Known(apc) /\ apc \in GateOf
    BY <1>13 DEF ApproveSave, TypeOK
  <2>2. disk'.done = disk.done /\ disk'.approvals = disk.approvals \cup {apc} /\ disk'.phase = disk.phase
    BY <1>0, <2>1 DEF RunState
  <2>3. \A g \in disk'.approvals : Known(g)'
    BY <1>1, <1>2, <1>13, <2>1, <2>2 DEF ApproveSave
  <2> QED
    BY <1>13, <2>1, <2>2, <2>3 DEF ApproveSave
<1>14. CASE Reset
  BY <1>0, <1>14 DEF Reset
<1>15. CASE Complete \/ UNCHANGED vars
  BY <1>15 DEF Complete, vars, files, Known
<1> QED
  BY <1>3, <1>4, <1>5, <1>6, <1>7, <1>8, <1>9, <1>10, <1>11, <1>12, <1>13, <1>14, <1>15 DEF Next, Running

\* With one manual gate, every step keeps what the copies say of its approval.
LEMMA OneGateStep == TypeOK /\ Ordered /\ Nested /\ OneGate /\ [Next]_vars => OneGate'
<1> SUFFICES ASSUME TypeOK, Ordered, Nested, OneGate, [Next]_vars,
                    NEW g \in GateOf, setting.manual \subseteq {g}
             PROVE  /\ g \in mem'.done => g \in disk'.done
                    /\ announced' # NoGate => announced' = g /\ g \in disk'.done
                    /\ apc' # NoGate => apc' = g /\ g \in acopy'.done /\ reviewed'[g] = version'[g]
                    /\ \A st \in {disk', mem', acopy'} :
                         /\ g \in st.approvals => g \in st.done /\ reviewed'[g] = version'[g]
                         /\ g \in setting.manual /\ st.phase > g => g \in st.approvals
  BY SettingKept DEF OneGate
<1>0. /\ g \in mem.done => g \in disk.done
      /\ announced # NoGate => announced = g /\ g \in disk.done
      /\ apc # NoGate => apc = g /\ g \in acopy.done /\ reviewed[g] = version[g]
      /\ \A st \in {disk, mem, acopy} :
           /\ g \in st.approvals => g \in st.done /\ reviewed[g] = version[g]
           /\ g \in setting.manual /\ st.phase > g => g \in st.approvals
  BY DEF OneGate
<1>1. disk \in RunState /\ mem \in RunState /\ acopy \in RunState /\ mem.phase \in Phase /\ g \in Artifacts
  BY DEF TypeOK, RunState
<1>2. \A st \in {disk, mem, acopy} : g \in st.done => version'[g] = version[g]
  BY <1>1, WorkIsNew, FilesChange
<1> USE <1>0, <1>2, FreshState DEF Exit, approving
<1>3. CASE Launch
  BY <1>3 DEF Launch
<1>4. CASE Loop
  BY <1>4 DEF Loop
<1>5. CASE Execute
  BY <1>5 DEF Execute
<1>6. CASE Confirm
  <2>1. /\ disk' = mem' /\ mem'.approvals = mem.approvals /\ mem'.phase = mem.phase
        /\ mem.done \subseteq mem'.done /\ disk.done \subseteq mem.done
    BY <1>1, <1>6 DEF Confirm, RunState, Nested
  <2> QED
    BY <1>6, <2>1 DEF Confirm
<1>7. CASE Advance
  <2>1. /\ disk' = mem' /\ mem'.approvals = mem.approvals /\ mem'.phase = mem.phase + 1
        /\ mem'.done = mem.done /\ disk.done \subseteq mem.done
    BY <1>1, <1>7 DEF Advance, RunState, Nested
  <2>2. g \in setting.manual /\ mem'.phase > g => g \in mem.approvals
    BY <1>1, <1>7, <2>1 DEF Advance, Blocked
  <2> QED
    BY <1>7, <2>1, <2>2 DEF Advance
<1>8. CASE Pause
  <2>1. mem.phase = g
    BY <1>8 DEF Pause, Blocked
  <2>2. g \in mem.done
    BY <1>1, <1>8, <2>1, Intervals DEF Pause, Ordered
  <2> QED
    BY <1>8, <2>1, <2>2 DEF Pause
<1>9. CASE SavePaused
  <2>1. disk.done \subseteq mem.done
    BY <1>9 DEF SavePaused, Nested
  <2> QED
    BY <1>9, <2>1 DEF SavePaused
<1>10. CASE StopEarly
  <2>1. disk.done \subseteq mem.done
    BY <1>10 DEF StopEarly, Nested
  <2> QED
    BY <1>10, <2>1 DEF StopEarly
<1>11. CASE Die
  BY <1>11 DEF Die
<1>12. CASE ApproveLoad
  BY <1>12 DEF ApproveLoad, TypeOK, files
<1>13. CASE ApproveSave
  <2>1. /\ disk'.done = acopy.done /\ disk'.phase = acopy.phase /\ disk'.approvals = acopy.approvals \cup {apc}
        /\ mem' = mem /\ acopy' = Fresh /\ apc' = NoGate /\ announced' = announced /\ reviewed' = reviewed
        /\ apc = g
    BY <1>1, <1>13 DEF ApproveSave, RunState
  <2> QED
    BY <2>1
<1>14. CASE Reset
  BY <1>14 DEF Reset, Nested
<1>15. CASE Complete \/ UNCHANGED vars
  BY <1>15 DEF Complete, vars
<1> QED
  BY <1>3, <1>4, <1>5, <1>6, <1>7, <1>8, <1>9, <1>10, <1>11, <1>12, <1>13, <1>14, <1>15 DEF Next, Running

-----------------------------------------------------------------------------
(* The theorems.                                                           *)

\* The pipeline starts in the invariant.
LEMMA InitIInv == Init => IInv
<1> SUFFICES ASSUME Init PROVE IInv
  OBVIOUS
<1> USE FreshState DEF Init
<1>1. TypeOK
  BY DEF TypeOK
<1>2. Fresh.done = {}
  BY DEF Fresh
<1>3. Ordered /\ Made /\ Nested /\ Derived
  BY <1>2 DEF Ordered, PhasesInOrder, Made, Nested, Derived
<1>4. Attended
  BY <1>1 DEF Attended, TypeOK, Setting
<1>5. OneGate
  BY <1>2 DEF OneGate
<1> QED
  BY <1>1, <1>3, <1>4, <1>5 DEF IInv

\* The invariant of every step.
LEMMA Invariant == Spec => []IInv
<1>1. IInv /\ [Next]_vars => IInv'
  BY TypeStep, OrderedStep, NestedStep, MadeStep, DerivedStep, AttendedStep, OneGateStep DEF IInv
<1> QED
  BY InitIInv, <1>1, PTL DEF Spec

\* Every variable keeps its type.
THEOREM TypeCorrect == Spec => []TypeOK
<1>1. IInv => TypeOK
  BY DEF IInv
<1> QED
  BY <1>1, Invariant, PTL

\* No phase is skipped: in state.json and in every copy of it a process holds,
\* done_phases is an initial part of ORDER that ends at the current phase or
\* right before it, even with approve commands saving over a run's state.
THEOREM NoPhaseSkipped == Spec => []PhasesInOrder
<1>1. IInv => PhasesInOrder
  BY DEF IInv, Ordered
<1> QED
  BY <1>1, Invariant, PTL

\* Past a manual gate a person approved the version of the artifact that is in
\* use, whichever runs stop, die and start again between: with a person at the
\* terminal, and with the script if no two gates are manual.
THEOREM ApprovalsHold == Spec => [](~setting.script \/ OneGateAtMost => ApprovedIsUsed)
<1>1. IInv => (~setting.script \/ OneGateAtMost => ApprovedIsUsed)
  <2> SUFFICES ASSUME IInv, ~setting.script \/ OneGateAtMost,
                      NEW g \in setting.manual, disk.phase > g \/ mem.phase > g
               PROVE  reviewed[g] = version[g] /\ version[g] # NoVersion
    BY DEF ApprovedIsUsed
  <2>1. g \in GateOf /\ g \in Artifacts
    BY DEF IInv, TypeOK, Setting
  <2>2. CASE ~setting.script
    <3>1. disk.phase > g
      BY <2>1, <2>2, FreshState DEF IInv, Attended
    <3>2. Known(g)
      BY <2>2, <3>1 DEF IInv, Attended
    <3> QED
      BY <2>1, <3>2 DEF IInv, Made, Known
  <2>3. CASE OneGateAtMost
    <3>1. setting.manual \subseteq {g}
      BY <2>3 DEF OneGateAtMost
    <3>2. \E st \in {disk, mem, acopy} : g \in st.done /\ reviewed[g] = version[g]
      BY <2>1, <3>1 DEF IInv, OneGate
    <3> QED
      BY <2>1, <3>2 DEF IInv, Made
  <2> QED
    BY <2>2, <2>3
<1> QED
  BY <1>1, Invariant, PTL

\* The use cases, the model and the tickets in use were derived from the
\* version of their source in use, also with approve commands racing the runs.
THEOREM LineageKept == Spec => []LineageIntact
<1>1. IInv => LineageIntact
  <2> SUFFICES ASSUME IInv, NEW p \in Chain, NEW st \in {disk, mem}, st.phase > p
               PROVE  basis[p] = version[Source[p]]
    BY DEF LineageIntact, Chain
  <2>0. PhasesInOrder /\ st \in {disk, mem, acopy} /\ st \in RunState /\ p \in Phase
    <3>1. PhasesInOrder /\ disk \in RunState /\ mem \in RunState
      BY DEF IInv, Ordered, TypeOK
    <3>2. p \in Phase
      BY DEF Chain
    <3> QED
      BY <3>1, <3>2
  <2>1. st.done \in {1..st.phase - 1, 1..st.phase} /\ st.phase \in Phase
    BY <2>0 DEF PhasesInOrder, RunState
  <2>2. p \in 1..st.phase - 1 /\ p \in 1..st.phase
    BY <2>0, <2>1
  <2>3. p \in st.done
    BY <2>1, <2>2
  <2> QED
    BY <2>3 DEF IInv, Derived
<1> QED
  BY <1>1, Invariant, PTL

\* What state.json says is done keeps its artifact, whatever is approved or
\* reset meanwhile: a resumed run starts from the files it left.
THEOREM ConfirmedStays == Spec => ConfirmedIsKept
<1>1. IInv /\ [Next]_vars => \A p \in Artifacts : p \in disk.done => version'[p] = version[p]
  <2> SUFFICES ASSUME IInv, [Next]_vars, NEW p \in Artifacts, p \in disk.done
               PROVE  version'[p] = version[p]
    OBVIOUS
  <2>1. pc = "work" => p # mem.phase
    BY WorkIsNew DEF IInv
  <2> QED
    BY <2>1, FilesChange DEF IInv
<1> QED
  BY <1>1, Invariant, PTL DEF Spec, ConfirmedIsKept
=============================================================================
