------------------------------ MODULE FsmChecks ------------------------------
(***************************************************************************)
(* What the MODEL phase computes about a model a worker answered:          *)
(* FSM.validate and RuleTable.validate (models.py), and the checks of      *)
(* simulate.py, as functions of the model.                                 *)
(*                                                                         *)
(* Guards and actions are text, and the checks look for phrases in it.  An *)
(* action or a guard is the set of the phrases found in it; the relations  *)
(* below say which quantity each phrase of an action names, and how.       *)
(***************************************************************************)
EXTENDS Naturals, Sequences, FiniteSets

CONSTANTS
  Coins,   \* the events whose name says that a coin is put in
  Faults   \* the events whose name says that the hardware failed

\* q += ...,  q -= ...,  q = 0 or q := 0,  q(...),  and q named in passing.
Plus  == {<<"insert", "credit">>, <<"sale", "sales">>, <<"carry", "deposit">>,
          <<"line", "lines">>, <<"event", "events">>, <<"skip", "dropped">>}
Minus == {<<"deduct", "credit">>, <<"take", "stock">>}
Clear == {<<"zero", "credit">>}
Call  == {<<"refund", "refund">>, <<"change", "refund">>, <<"deliver", "deliver">>,
          <<"adjust", "adjust_stock">>, <<"save", "save">>}
Name  == {<<"refund", "credit">>, <<"change", "credit">>, <<"carry", "credit">>,
          <<"adjust", "stock">>}

\* What the action a does by one of these relations.
Does(rel, a) == {r[2] : r \in {r \in rel : r[1] \in a}}

Moves == Plus \cup Minus \cup Clear
Words == Moves \cup Call \cup Name

\* The guard phrases are "free" (a predicate of the domain), "zero" (credit ==
\* 0), "either" (credit == 0 || ...) and "exact" (credit - price == 0).
PinsZero(guard, q) == q = "credit" /\ guard \cap {"zero", "either", "exact"} # {}

When(condition, finding) == IF condition THEN {finding} ELSE {}

Elements(seq) == {seq[i] : i \in DOMAIN seq}

Onward(edges, set) == set \cup {t.dst : t \in {t \in edges : t.src \in set}}

\* Where the edges lead from a set of states, in n rounds; that many are enough if
\* there are no more than n edges.
Closure(edges, from, n) ==
  LET round[i \in 0..n] == IF i = 0 THEN from ELSE Onward(edges, round[i-1])
  IN  round[n]

-----------------------------------------------------------------------------
(* models.py: structure.                                                   *)

\* Every branch is open: guards are not looked at.
Reached(fsm, from) == Closure(Elements(fsm.transitions), from, Len(fsm.transitions))

Initial(fsm) == CHOOSE s \in fsm.initials : TRUE

Duplicates(seq) == {seq[i].id : i \in {i \in DOMAIN seq : \E j \in 1..(i-1) : seq[i].id = seq[j].id}}

\* Transitions without a guard that compete for the same event in the same state.
Ambiguous(fsm) ==
  {<<t.src, t.event>> : t \in {fsm.transitions[i] : i \in {i \in DOMAIN fsm.transitions :
     \E j \in DOMAIN fsm.transitions \ {i} :
       /\ fsm.transitions[i].src = fsm.transitions[j].src
       /\ fsm.transitions[i].event = fsm.transitions[j].event
       /\ fsm.transitions[i].guard = {} /\ fsm.transitions[j].guard = {}}}}

\* FSM.validate.  An identifier YAML read as a boolean hides all other defects.
FsmDefects(fsm) ==
  LET ts == Elements(fsm.transitions)
      outgoing == {t.src : t \in ts}
  IN  IF ~fsm.named THEN {<<"id is not a string">>} ELSE
      When(Cardinality(fsm.initials) # 1, <<"initial">>)
      \cup {<<"duplicate", id>> : id \in Duplicates(fsm.transitions)}
      \cup {<<"undefined", t.id>> : t \in {t \in ts : ~({t.src, t.dst} \subseteq fsm.states /\ t.event \in fsm.events)}}
      \cup {<<"ambiguous", b>> : b \in Ambiguous(fsm)}
      \cup {<<"unreachable", s>> : s \in IF fsm.initials = {} THEN {}
                                         ELSE fsm.states \ Reached(fsm, {Initial(fsm)})}
      \cup {<<"deadlock", s>> : s \in fsm.states \ (fsm.finals \cup outgoing)}

\* RuleTable.validate.
TableDefects(table) ==
  IF ~table.named THEN {<<"id is not a string">>} ELSE
  When(table.rules = << >>, <<"no rules">>)
  \cup {<<"duplicate", id>> : id \in Duplicates(table.rules)}
  \cup {<<"blank", r.id>> : r \in {r \in Elements(table.rules) : r.guard = {} /\ r.action = {}}}

-----------------------------------------------------------------------------
(* simulate.py: the meaning of an FSM.                                     *)

\* Only what the FSM can mend goes back to the worker.
Finding(check, ref) == [check |-> check, ref |-> ref, fixable |-> TRUE]
ForPeople(check, ref) == [check |-> check, ref |-> ref, fixable |-> FALSE]

\* The transitions that add to q, and the states they lead to.
Adding(fsm, q) == {t \in Elements(fsm.transitions) : q \in Does(Plus, t.action)}
Seeds(fsm, q) == {t.dst : t \in Adding(fsm, q)}

\* check_refund_reachable: from where a coin goes some refund can be reached.
RefundReachable(fsm) ==
  LET Refunds(reach) == \E t \in Elements(fsm.transitions) : t.src \in reach /\ "refund" \in Does(Call, t.action)
  IN  {Finding("P1", s) : s \in {s \in Seeds(fsm, "credit") : ~Refunds(Reached(fsm, {s}))}}

\* check_ledger_adjustable: a stock that is counted can be corrected.
LedgerAdjustable(fsm) ==
  LET actions == UNION {t.action : t \in Elements(fsm.transitions)}
  IN  When("stock" \in Does(Plus \cup Minus, actions) /\ "adjust_stock" \notin Does(Call, actions),
           Finding("P3", "stock"))

\* check_fault_stops_selling: a hardware fault does not lead to where coins are taken.
FaultStopsSelling(fsm) ==
  LET selling == {t.src : t \in {t \in Adding(fsm, "credit") : t.event \in Coins}}
  IN  {Finding("P4", t.id) : t \in {t \in Elements(fsm.transitions) : t.event \in Faults \cap fsm.events /\ t.dst \in selling}}

\* check_every_transition_persists, where anything is saved at all.
EveryTransitionPersists(fsm) ==
  {Finding("P5", t.id) : t \in {t \in Elements(fsm.transitions) :
     /\ \E u \in Elements(fsm.transitions) : "save" \in u.action
     /\ t.src # t.dst /\ t.action # {} /\ "save" \notin t.action}}

\* _credit_aware_states: some transition reads the credit, or adds to it.
CreditAware(fsm) ==
  {t.src : t \in {t \in Elements(fsm.transitions) :
     PinsZero(t.guard, "credit") \/ "credit" \in Does(Plus \cup Minus \cup Name, t.action)}}

\* Mutant: a guard on something else keeps the quantity out as well.
CarriesOnUnguarded(t, q) == q \notin Does(Clear, t.action) /\ t.guard = {}

\* A transition that may leave some of q behind.
CarriesOn(t, q) == q \notin Does(Clear, t.action) /\ ~PinsZero(t.guard, q)

\* _states_that_can_hold_credit: coins spread to the states that look at them.
CanHoldCredit(fsm) ==
  LET live == CreditAware(fsm)
      spreading == {t \in Elements(fsm.transitions) : t.dst \in live /\ CarriesOn(t, "credit")}
  IN  Closure(spreading, Seeds(fsm, "credit"), Len(fsm.transitions))

\* check_ledger_balance, the three findings of a single transition.
LedgerBalance(fsm) ==
  LET holds == CanHoldCredit(fsm)
      aware == CreditAware(fsm)
      Zeroed(t) == "credit" \in Does(Clear, t.action)
      Lost(t) == /\ Zeroed(t) /\ t.src \in holds /\ ~PinsZero(t.guard, "credit")
                 /\ t.action \cap {"refund", "sale", "carry"} = {}
      Unpaid(t) == "sale" \in t.action /\ ~Zeroed(t) /\ "deduct" \notin t.action
      Abandoned(t) == /\ t.src \in holds /\ t.dst \notin holds \cup aware /\ ~PinsZero(t.guard, "credit")
                      /\ t.action \cap {"refund", "change", "sale", "carry", "zero", "deduct"} = {}
      Those(P(_)) == {t \in Elements(fsm.transitions) : P(t)}
  IN  {Finding("P2 lost", t.id) : t \in Those(Lost)}
      \cup {Finding("P2 unpaid", t.id) : t \in Those(Unpaid)}
      \cup {Finding("P2 abandoned", <<t.event, t.dst>>) : t \in Those(Abandoned)}

\* check_stock_balance: what is handed out is taken from the stock.
StockBalance(fsm) ==
  {Finding("stock", t.id) : t \in {t \in Elements(fsm.transitions) :
     "deliver" \in t.action /\ "stock" \notin Does(Minus, t.action)}}

\* Mutant: use cases start in the initial state.
OriginsInitial(fsm) == fsm.initials

\* A use case starts in any state that can be reached.
Origins(fsm) == IF fsm.initials = {} THEN fsm.states ELSE Reached(fsm, {Initial(fsm)})

\* The states after each of the first n events of a use case.
After(fsm, events) ==
  LET states[n \in 0..Len(events)] ==
        IF n = 0 THEN Origins(fsm)
        ELSE LET cur == states[n-1]
             IN  {t.dst : t \in {t \in Elements(fsm.transitions) : t.src \in cur /\ t.event = events[n]}}
  IN  states

\* replay_usecases.  A use case is its id and the events its steps are tagged with.
Replay(fsm, ucs) ==
  LET tagged == {u \in ucs : u.events # << >>}
      Stuck(u) == {n \in DOMAIN u.events : After(fsm, u.events)[n] = {}}
  IN  {Finding("replay", u.id) : u \in {u \in tagged : Stuck(u) # {}}}
      \cup When(ucs # {} /\ tagged = {}, ForPeople("replay", "tags"))

\* check_coverage, the part that rules share: every use case has an atom.
Uncovered(atoms, ucs) == {u.id : u \in ucs} \ {t.usecase : t \in atoms}

Coverage(fsm, ucs) ==
  {Finding("coverage", u) : u \in Uncovered(Elements(fsm.transitions), ucs)}
  \cup {Finding("coverage", e) : e \in fsm.events \ {t.event : t \in Elements(fsm.transitions)}}

-----------------------------------------------------------------------------
(* simulate.py: the quantities the principles declare conserved.           *)

\* _states_holding: like CanHoldCredit, but into every state.
StatesHolding(fsm, q) ==
  Closure({t \in Elements(fsm.transitions) : CarriesOn(t, q)}, Seeds(fsm, q), Len(fsm.transitions))

\* "closed", lhs = rhs_1 + rhs_2: both sides move together or not at all.
\* "open", lhs -> rhs_1, rhs_2: what leaves lhs goes to a rhs or out by one.
Breaks(c, t) ==
  IF c.kind = "closed"
  THEN LET moved == Does(Plus \cup Minus, t.action)
       IN  (c.lhs \in moved) # (c.rhs \cap moved # {})
  ELSE /\ ~PinsZero(t.guard, c.lhs)
       /\ c.lhs \in Does(Minus \cup Clear, t.action)
       /\ c.rhs \cap Does(Moves \cup Call, t.action) = {}

\* check_conservation.  A declared name no action mentions is an error of the
\* declaration.  mayHold[q]: the atoms at which there may be some of q to lose.
Conservation(atoms, declared, mayHold) ==
  LET Missing(c) == ~({c.lhs} \cup c.rhs \subseteq Does(Words, UNION {t.action : t \in atoms}))
      Checked(c) == IF c.kind = "closed" THEN atoms ELSE mayHold[c.lhs]
  IN  {ForPeople("declaration", c.lhs) : c \in {c \in declared : Missing(c)}}
      \cup UNION {{Finding("conservation", <<c.lhs, t.id>>) : t \in {t \in Checked(c) : Breaks(c, t)}}
                    : c \in {c \in declared : ~Missing(c)}}

Quantities(declared) == {c.lhs : c \in declared}

FsmConservation(fsm, declared) ==
  LET Leaving(states) == {t \in Elements(fsm.transitions) : t.src \in states}
  IN  Conservation(Elements(fsm.transitions), declared,
                   [q \in Quantities(declared) |-> Leaving(StatesHolding(fsm, q))])

\* run_all.  A check that raises is a finding too, and one for the worker: the
\* search of P4 does on an event id that is not a string.
FsmFindings(fsm, ucs, declared) ==
  RefundReachable(fsm) \cup LedgerAdjustable(fsm)
  \cup (IF fsm.named THEN FaultStopsSelling(fsm) ELSE {Finding("check error", "P4")})
  \cup EveryTransitionPersists(fsm)
  \cup LedgerBalance(fsm) \cup StockBalance(fsm)
  \cup Replay(fsm, ucs) \cup Coverage(fsm, ucs)
  \cup FsmConservation(fsm, declared)

\* What _simulate_rules_and_repair looks at: a rule is nowhere, nothing is exempt.
TableFindings(table, ucs, declared) ==
  LET rules == Elements(table.rules)
  IN  Conservation(rules, declared, [q \in Quantities(declared) |-> rules])
      \cup {Finding("coverage", u) : u \in Uncovered(rules, ucs)}
=============================================================================
