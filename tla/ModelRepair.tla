----------------------------- MODULE ModelRepair -----------------------------
(***************************************************************************)
(* The MODEL phase (analysis.py): a worker derives an FSM or a rule table  *)
(* from the use cases, and what validation and simulation find wrong with  *)
(* it is sent back to be mended, a limited number of times.                *)
(*                                                                         *)
(* The model that is handed on is then run as the program it describes:    *)
(* domain predicates may hold or not, and the customer's credit is         *)
(* followed, so that what the checks say can be held against what happens. *)
(*                                                                         *)
(* A worker may answer any model.  Each time it is asked, the model found  *)
(* wanting is saved first, as the prompt quotes the file; nothing else     *)
(* reads that file before it is saved again, so it is not in the state.    *)
(***************************************************************************)
EXTENDS FsmChecks

CONSTANTS
  Fsms, Tables,  \* what a worker may answer, for either form
  UseCases,      \* the use cases of the project
  Declared,      \* the quantities its principles declare conserved
  Limit,         \* limits.fsm_repair_attempts
  MaxFaults,     \* bound: kills and failed worker calls
  MaxCredit      \* bound: coins put in before anything is done with them

ASSUME LimitAssumption  == Limit \in Nat \ {0}
ASSUME BoundsAssumption == MaxFaults \in Nat /\ MaxCredit \in Nat

VARIABLES
  form,     \* model_form: "fsm" or "rules"
  pc,       \* where MODEL is; "off" when no run is in it, "done" when it is over
  attempt,  \* the attempt of the loop it is in
  prev,     \* the number of findings at the last repair of this loop, 0 for None
  model,    \* the model in memory
  saved,    \* the model in memory is what the file holds
  refined,  \* history: this model was answered to simulation's findings
  calls,    \* history: worker calls of this run of MODEL
  unparsed, \* ask_yaml: answers to the question it has open that were no YAML
  faults,
  run       \* the program the model describes

stage == <<attempt, prev, model, saved, refined, calls, unparsed>>
vars  == <<form, pc, stage, faults, run>>

Places == {"off", "derive", "validate", "revise", "simulate", "refine", "finish", "done"}

\* Where a question to the worker is open.
Asking == {"derive", "revise", "refine"}

NoModel == [none |-> "none"]

\* FSM.initial looks for the marked ones among the states.
IsFsm(m) ==
  /\ m.initials \subseteq m.states /\ IsFiniteSet(m.states) /\ IsFiniteSet(m.events)
  /\ m.transitions \in Seq(Elements(m.transitions))

ASSUME AnswersAssumption ==
  /\ \A m \in Fsms : IsFsm(m)
  /\ \A m \in Tables : m.rules \in Seq(Elements(m.rules))
  /\ NoModel \notin Fsms \cup Tables

\* Use cases are known by their ids; planning.ticketize keeps them by these.
ASSUME UseCasesAssumption ==
  /\ IsFiniteSet(UseCases)
  /\ \A u \in UseCases : u.events \in Seq(Elements(u.events))
  /\ \A u, v \in UseCases : u.id = v.id => u = v

ASSUME DeclaredAssumption == IsFiniteSet(Declared)

NoCase  == [id |-> "none", rest |-> << >>]
NoRun   == [at |-> "none", credit |-> 0, loss |-> 0, case |-> NoCase]

Answers == IF form = "fsm" THEN Fsms ELSE Tables

Defects == IF form = "fsm" THEN FsmDefects(model) ELSE TableDefects(model)

Findings == IF form = "fsm" THEN FsmFindings(model, UseCases, Declared)
                            ELSE TableFindings(model, UseCases, Declared)

\* The findings that are worth asking a worker about.
Fixable == {f \in Findings : f.fixable}

Init ==
  /\ form \in {"fsm", "rules"}
  /\ pc = "off" /\ attempt = 1 /\ prev = 0 /\ model = NoModel
  /\ saved = FALSE /\ refined = FALSE /\ calls = 0 /\ unparsed = 0 /\ faults = 0
  /\ run = NoRun

\* An exception or a kill: what was in memory is gone, the phase is not done.
Leave ==
  /\ pc' = "off" /\ attempt' = 1 /\ prev' = 0 /\ model' = NoModel
  /\ saved' = FALSE /\ refined' = FALSE /\ calls' = 0 /\ unparsed' = 0

\* A run comes to MODEL: it starts from nothing, whatever the file holds.
Launch ==
  /\ pc = "off"
  /\ pc' = "derive"
  /\ UNCHANGED <<form, stage, faults, run>>

\* A call that brings a model, at the first asking or the second.
Answered ==
  /\ model' \in Answers
  /\ saved' = FALSE /\ calls' = calls + 1 /\ unparsed' = 0
  /\ UNCHANGED <<form, faults, run>>

\* A call whose answer cannot be parsed: the question is put once more, and the
\* second time the phase raises.
Unparsed ==
  /\ pc \in Asking
  /\ IF unparsed = 1 THEN Leave
     ELSE /\ calls' = calls + 1 /\ unparsed' = unparsed + 1
          /\ UNCHANGED <<pc, attempt, prev, model, saved, refined>>
  /\ UNCHANGED <<form, faults, run>>

Derive ==
  /\ pc = "derive"
  /\ Answered
  /\ pc' = "validate"
  /\ UNCHANGED <<attempt, prev, refined>>

-----------------------------------------------------------------------------
(* The loop over structural defects.                                       *)

ToSimulation == pc' = "simulate" /\ attempt' = 1

Validated ==
  /\ pc = "validate" /\ attempt <= Limit /\ Defects = {}
  /\ ToSimulation
  /\ UNCHANGED <<form, prev, model, saved, refined, calls, unparsed, faults, run>>

AskToRevise ==
  /\ pc = "validate" /\ attempt <= Limit /\ Defects # {}
  /\ pc' = "revise" /\ model' = NoModel
  /\ UNCHANGED <<form, attempt, prev, saved, refined, calls, unparsed, faults, run>>

Revise ==
  /\ pc = "revise"
  /\ Answered
  /\ pc' = "validate" /\ attempt' = attempt + 1
  /\ UNCHANGED <<prev, refined>>

\* The last answer is not looked at: an FSM goes on to simulation as it is, and
\* for a rule table the phase raises, sound or not.
RevisionsSpent ==
  /\ pc = "validate" /\ attempt > Limit
  /\ IF form = "fsm" THEN ToSimulation /\ UNCHANGED <<prev, model, saved, refined, calls, unparsed>>
                     ELSE Leave
  /\ UNCHANGED <<form, faults, run>>

-----------------------------------------------------------------------------
(* The loop over what simulation finds.                                    *)

\* Mutant: as long as there is something to mend.
NoRefinementEndless == Fixable = {}

\* Mutant: the last attempt of an FSM asks as well.
NoRefinementOnceMore ==
  \/ Fixable = {}
  \/ form = "fsm" /\ prev # 0 /\ Cardinality(Fixable) >= prev
  \/ attempt > Limit

\* An FSM is left as it is when nothing can be mended, when there is no less to
\* mend than the time before, and at the last attempt.  A table is looked at
\* Limit times, and taken as answered after that.
NoRefinement ==
  IF form = "fsm"
  THEN \/ Fixable = {}
       \/ prev # 0 /\ Cardinality(Fixable) >= prev
       \/ attempt >= Limit
  ELSE attempt > Limit \/ Fixable = {}

Simulated ==
  /\ pc = "simulate" /\ NoRefinement
  /\ pc' = "finish" /\ attempt' = 1 /\ prev' = 0
  /\ UNCHANGED <<form, model, saved, refined, calls, unparsed, faults, run>>

AskToRefine ==
  /\ pc = "simulate" /\ ~NoRefinement
  /\ pc' = "refine" /\ model' = NoModel
  /\ prev' = IF form = "fsm" THEN Cardinality(Fixable) ELSE 0
  /\ UNCHANGED <<form, attempt, saved, refined, calls, unparsed, faults, run>>

Refine ==
  /\ pc = "refine"
  /\ Answered
  /\ pc' = "simulate" /\ attempt' = attempt + 1 /\ refined' = TRUE
  /\ UNCHANGED prev

-----------------------------------------------------------------------------
(* The end of the phase.                                                   *)

HandOn ==
  /\ pc' = "done" /\ saved' = TRUE /\ calls' = 0
  /\ run' = IF form = "fsm" THEN [NoRun EXCEPT !.at = Initial(model)] ELSE NoRun
  /\ UNCHANGED <<attempt, prev, model, refined, unparsed>>

\* Mutant: what simulation let through is not validated again.
FinishUnvalidated ==
  /\ pc = "finish"
  /\ HandOn
  /\ UNCHANGED <<form, faults>>

\* The model is saved.  An FSM is validated once more, and raises if it must.
Finish ==
  /\ pc = "finish"
  /\ IF form = "fsm" /\ Defects # {} THEN Leave /\ UNCHANGED run ELSE HandOn
  /\ UNCHANGED <<form, faults>>

\* A kill, or a worker call that fails or is turned away.
Stop ==
  /\ pc \notin {"off", "done"} /\ faults < MaxFaults
  /\ faults' = faults + 1
  /\ Leave
  /\ UNCHANGED <<form, run>>

-----------------------------------------------------------------------------
(* The program.                                                            *)

Running == pc = "done" /\ form = "fsm"

\* The guard of t holds: what it says of the credit is true, the rest may be.
Holds(t) ==
  /\ "zero" \in t.guard => run.credit = 0
  /\ "exact" \in t.guard => run.credit = 1

\* The credit after t; a drink costs one coin.
CreditAfter(t) ==
  IF "zero" \in t.action THEN 0
  ELSE IF "insert" \in t.action THEN run.credit + 1
  ELSE IF "deduct" \in t.action /\ run.credit > 0 THEN run.credit - 1 ELSE run.credit

\* t lets go of credit that is neither paid out in full, nor sold for, nor kept
\* elsewhere; with "change" some of it is paid out.
Loses(t) == CreditAfter(t) < run.credit /\ t.action \cap {"refund", "sale", "carry"} = {}

Fire(i) ==
  LET t == model.transitions[i]
  IN  /\ Running /\ t.src = run.at /\ Holds(t)
      /\ CreditAfter(t) <= MaxCredit
      /\ run' = [at     |-> t.dst,
                 credit |-> CreditAfter(t),
                 loss   |-> IF Loses(t) THEN i ELSE 0,
                 case   |-> IF run.case.rest # << >> /\ Head(run.case.rest) = t.event
                            THEN [run.case EXCEPT !.rest = Tail(@)] ELSE NoCase]
      /\ UNCHANGED <<form, pc, stage, faults>>

\* From here on the events of u are tried one by one.
TryUseCase(u) ==
  /\ Running /\ run.case = NoCase /\ u.events # << >>
  /\ run' = [run EXCEPT !.case = [id |-> u.id, rest |-> u.events], !.loss = 0]
  /\ UNCHANGED <<form, pc, stage, faults>>

\* The phase is over; a program may rest in any state, and must in a final one.
Over == pc = "done" /\ UNCHANGED vars

Working == Unparsed \/ Derive \/ Validated \/ AskToRevise \/ Revise \/ RevisionsSpent
           \/ Simulated \/ AskToRefine \/ Refine \/ Finish

Program == \/ Running /\ \E i \in DOMAIN model.transitions : Fire(i)
           \/ \E u \in UseCases : TryUseCase(u)

Next == Launch \/ Working \/ Stop \/ Program \/ Over

\* A run that is in MODEL goes on to another step: every call has a timeout.
Proceed == pc \notin {"off", "done"} /\ pc' \in Places \ {pc}

Spec     == Init /\ [][Next]_vars
FairSpec == Spec /\ WF_vars(Launch) /\ WF_pc(Proceed)

-----------------------------------------------------------------------------
(* Properties.                                                             *)

TypeOK ==
  /\ form \in {"fsm", "rules"}
  /\ pc \in Places
  /\ attempt \in 1..(Limit + 1) /\ prev \in Nat /\ calls \in Nat
  /\ model = NoModel <=> pc \in {"off"} \cup Asking
  /\ saved \in BOOLEAN /\ refined \in BOOLEAN /\ unparsed \in 0..1 /\ faults \in 0..MaxFaults
  /\ run.credit \in 0..MaxCredit /\ run.case.id \in {u.id : u \in UseCases} \cup {NoCase.id}

\* The states that must be in every set with the initial ones that no transition
\* leaves.
Reachable(fsm) ==
  LET Closed(set) == \A t \in Elements(fsm.transitions) : t.src \in set => t.dst \in set
  IN  {s \in fsm.states : \A set \in SUBSET fsm.states : fsm.initials \subseteq set /\ Closed(set) => s \in set}

SoundFsm(fsm) ==
  /\ fsm.named /\ \E s \in fsm.states : fsm.initials = {s}
  /\ \A t \in Elements(fsm.transitions) : {t.src, t.dst} \subseteq fsm.states /\ t.event \in fsm.events
  /\ \A i, j \in DOMAIN fsm.transitions : LET t == fsm.transitions[i]  u == fsm.transitions[j] IN
       i # j => /\ t.id # u.id
                /\ t.src = u.src /\ t.event = u.event => t.guard \cup u.guard # {}
  /\ Reachable(fsm) = fsm.states
  /\ \A s \in fsm.states \ fsm.finals : \E t \in Elements(fsm.transitions) : t.src = s

SoundTable(table) ==
  /\ table.named /\ table.rules # << >>
  /\ \A i, j \in DOMAIN table.rules : i # j => table.rules[i].id # table.rules[j].id
  /\ \A r \in Elements(table.rules) : r.guard \cup r.action # {}

\* What MODEL hands on is in the file, and an FSM is sound whatever the repairs
\* did to it.  A rule table is sound unless simulation had it refined
\* (analysis.py:145: nothing validates it then).
HandedOnIsSound ==
  pc = "done" => /\ saved
                 /\ IF form = "fsm" THEN SoundFsm(model) ELSE refined \/ SoundTable(model)

\* No guard pins the credit to zero that can hold when there is some.
PlainGuards(fsm) == \A t \in Elements(fsm.transitions) : t.guard \cap {"either", "exact"} = {}

\* No transition pays, books or moves some of the credit on its way to a state
\* that does not know of credit.
NoQuietMove(fsm) ==
  \A t \in Elements(fsm.transitions) :
    t.dst \in CreditAware(fsm) \/ t.action \cap {"refund", "change", "sale", "carry", "zero", "deduct"} = {}

Reported(checks) == \E f \in Findings : f.check \in checks

\* A program that loses the customer's money had that reported: with the credit
\* declared conserved, by the very transition, or the declaration as mistaken
\* (unless it names more than the places the credit can go to); and by the ledger
\* check, unless it is the guards or a quiet move that mislead it.
LossIsReported ==
  run.loss # 0 /\ PlainGuards(model) =>
    LET t == model.transitions[run.loss]
    IN  /\ "change" \notin t.action =>
             \A c \in Declared : c.kind = "open" /\ c.lhs = "credit" /\ c.rhs \subseteq {"sales", "deposit", "refund"} =>
               \/ Reported({"declaration"})
               \/ \E f \in Findings : f.check = "conservation" /\ f.ref = <<"credit", t.id>>
        /\ "zero" \in t.action /\ NoQuietMove(model) => Reported({"P2 lost", "P2 abandoned"})

\* A use case the program has played to its end is not reported as one that
\* cannot be played.
PlayedIsNotReported ==
  run.case # NoCase /\ run.case.rest = << >> =>
    ~\E f \in Findings : f.check = "replay" /\ f.ref = run.case.id

\* A run of MODEL ends, whatever the worker answers and however often it is no YAML,
\* and calls a worker at most four times as often as fsm_repair_attempts allows one
\* loop: two loops, and two calls to a question.
EndsInBudget ==
  /\ [](calls <= 4 * Limit)
  /\ pc = "derive" ~> pc \in {"off", "done"}
=============================================================================
