---------------------------- MODULE MCModelRepair ----------------------------
(* Instances of ModelRepair: vending machines of two to four states, sound ones *)
(* and ones with each of the defects and findings.                              *)
EXTENDS ModelRepair

T(id, src, event, dst, guard, action) ==
  [id |-> id, src |-> src, event |-> event, dst |-> dst, guard |-> guard, action |-> action, usecase |-> "UC-1"]

Machine(states, transitions) ==
  [named |-> TRUE, states |-> states, initials |-> {"a"}, finals |-> {},
   events |-> {"coin", "pick", "back"}, transitions |-> transitions]

Inserting == {T("T-1", "a", "coin", dst, {}, {"insert"}) : dst \in {"a", "b"}}

\* Two states, with two transitions of every kind between them.
Small ==
  {Machine({"a", "b"}, <<t, u, v>>) :
     t \in Inserting,
     u \in {T("T-2", src, "pick", dst, guard, action) :
              src \in {"a", "b"}, dst \in {"a", "b"}, guard \in {{}, {"either"}},
              action \in {{}, {"zero"}}},
     v \in {T("T-3", src, event, dst, guard, action) :
              src \in {"a", "b"}, dst \in {"a", "b"}, event \in {"pick", "back"}, guard \in {{}, {"zero"}},
              action \in {{"zero"}, {"refund", "zero"}}}}

\* A ring of four, on which the credit can be carried, paid and lost, and two ways
\* off it that sell and pay out.
Ring ==
  {Machine({"a", "b", "c", "d"}, <<T("T-1", "a", "coin", "b", {}, {"insert"}), t, u, v>> \o more) :
     t \in {T("T-2", "b", "pick", "c", {}, action) : action \in {{}, {"sale", "deduct"}}},
     u \in {T("T-3", "c", "pick", "d", guard, action) :
              guard \in {{}, {"free"}, {"exact"}}, action \in {{}, {"deduct"}, {"carry", "zero"}}},
     v \in {T("T-4", "d", "back", "a", guard, action) :
              guard \in {{}, {"zero"}}, action \in {{"zero"}, {"change", "zero"}, {"refund", "zero"}}},
     more \in {<< >>, <<T("T-5", "c", "back", "c", {"free"}, {"sale", "deduct", "carry"}),
                       T("T-6", "d", "coin", "a", {}, {"refund", "zero"})>>}}

Good == Machine({"a", "b"}, <<T("T-1", "a", "coin", "b", {}, {"insert"}),
                              T("T-2", "b", "pick", "b", {"free"}, {"sale", "deduct", "carry"}),
                              T("T-3", "b", "back", "a", {}, {"refund", "zero"})>>)

\* Good with one thing wrong.
Broken ==
  {[Good EXCEPT !.named = FALSE], [Good EXCEPT !.initials = {}], [Good EXCEPT !.initials = {"a", "b"}],
   [Good EXCEPT !.states = @ \cup {"c"}], [Good EXCEPT !.states = @ \cup {"c"}, !.finals = {"c"}],
   [Good EXCEPT !.transitions[3].dst = "x"], [Good EXCEPT !.transitions[2].event = "x"],
   [Good EXCEPT !.transitions[3].id = "T-2"],
   [Good EXCEPT !.transitions[3].event = "pick", !.transitions[2].guard = {}],
   [Good EXCEPT !.transitions[2].usecase = ""],
   [Good EXCEPT !.transitions = << >>],
   [Good EXCEPT !.transitions[3].dst = "c", !.states = @ \cup {"c"}, !.finals = {"c"}]}

\* The checks of stock, saving and faults.
Rest ==
  {[Good EXCEPT !.events = (@ \ {"back"}) \cup {event},
                !.transitions[2].action = @ \cup more, !.transitions[3].event = event] :
     more \in SUBSET {"deliver", "take", "adjust", "save"}, event \in {"back", "jam"}}

AllFsms == Small \cup Ring \cup Broken \cup Rest \cup {Good}

R(id, guard, action, usecase) == [id |-> id, guard |-> guard, action |-> action, usecase |-> usecase]

AllTables ==
  {[named |-> named, rules |-> rules] :
     named \in BOOLEAN,
     rules \in {<< >>} \cup
       {<<R("R-1", {"free"}, {"line", "event"}, "UC-1"), R(id, guard, action, usecase)>> :
          id \in {"R-1", "R-2"}, guard \in {{}, {"free"}}, usecase \in {"UC-1", "UC-2"},
          action \in {{}, {"line", "skip"}, {"line"}, {"skip"}}}}

Cases == {[id |-> "UC-1", events |-> <<"pick", "coin">>]}

Conserved == {[kind |-> "open", lhs |-> "credit", rhs |-> {"sales", "deposit", "refund"}],
              [kind |-> "closed", lhs |-> "lines", rhs |-> {"events", "dropped"}]}
==============================================================================
