--------------------------- MODULE Respec_proofs ---------------------------
(***************************************************************************)
(* Proofs about Respec, for every set of models, requirements, signatures  *)
(* and any number of resets and kills.                                     *)
(*                                                                         *)
(* What the diagnosis table and the verdict read depends on how tickets of *)
(* one atom belong together.  IInv adds: what a ticket's type says of its  *)
(* reference (Fitting), that every subtask and BUG has a story (Owned),    *)
(* what a done story was built for (Built), which stories are current      *)
(* while ticketize runs (Current), and that the tickets of a story that    *)
(* was never reopened agree on being done (Agreeing).                      *)
(***************************************************************************)
EXTENDS Respec, LeastElements, SequenceTheorems, TLAPS

Tickets == DOMAIN tickets

\* Epics refer to use cases, all other tickets to atoms.
Fitting == \A i \in Tickets : tickets[i].ref \in (IF tickets[i].type = "epic" THEN UseCases ELSE Atoms)

\* Two tickets of the same story.
Same(i, j) == tickets[i].type # "epic" /\ tickets[j].type # "epic" /\ tickets[i].ref = tickets[j].ref

Owned == \A j \in Tickets : tickets[j].type \in {"subtask", "bug"} => \E i \in Having("story") : Same(i, j)

Built == \A i \in Having("story") : tickets[i].status = "done" => tickets[i].built = tickets[i].sig

\* The atoms ticketize has been through have a story with their signature.
Current ==
  phase # "model" => \A a \in DOMAIN model \ pending : \E i \in Of("story", a) : tickets[i].sig = model[a].sig

\* The other tickets of a story that was not reopened are done if it is, and there
\* is no BUG among them while it is open.
Agreeing ==
  \A i \in Having("story"), j \in Tickets : ~tickets[i].respec /\ Same(i, j) =>
    /\ tickets[j].status = "done" <=> tickets[i].status = "done"
    /\ tickets[i].status = "todo" => tickets[j].type # "bug"

IInv == TypeOK /\ Fitting /\ NoTwins /\ Owned /\ Built /\ Current /\ Agreeing

USE OwnersAssumption, BoundsAssumption, AtomsAssumption, ModelsAssumption

-----------------------------------------------------------------------------
(* What the actions do to the tickets.                                     *)

\* One ticket more.
Extends(t) ==
  /\ tickets' \in Seq(Ticket)
  /\ Len(tickets) + 1 \notin Tickets
  /\ Tickets' = Tickets \cup {Len(tickets) + 1}
  /\ tickets'[Len(tickets) + 1] = t
  /\ \A i \in Tickets : tickets'[i] = tickets[i]

\* The same tickets, which still are of the same story or use case.
Updates ==
  /\ tickets' \in Seq(Ticket)
  /\ Tickets' = Tickets
  /\ \A i \in Tickets : tickets'[i].type = tickets[i].type /\ tickets'[i].ref = tickets[i].ref /\ tickets'[i].uc = tickets[i].uc

\* TicketizeEpic and TicketizeAtom.
NewEpic(u)  == Of("epic", u) = {} /\ Extends(New("epic", u, u, "none"))
NewStory(a) == Of("story", a) = {} /\ Extends(New("story", a, model[a].uc, model[a].sig))

Revisited(i, a) ==
  /\ Updates
  /\ tickets'[i] = IF tickets[i].sig = model[a].sig THEN tickets[i] ELSE Reopened(tickets[i], model[a].sig)
  /\ \A j \in Tickets \ {i} : tickets'[j] = tickets[j]

\* Split, Finish and Block.
NewSubtask(i) ==
  /\ Of("subtask", tickets[i].ref) = {}
  /\ Extends(New("subtask", tickets[i].ref, tickets[i].uc, tickets[i].sig))

MadeDone(i) ==
  /\ Updates
  /\ tickets'[i].status = "done" /\ tickets'[i].built = tickets[i].sig
  /\ \A j \in Tickets :
       /\ tickets'[j].sig = tickets[j].sig /\ tickets'[j].respec = tickets[j].respec
       /\ j # i => tickets'[j].built = tickets[j].built
       /\ j \in Of("subtask", tickets[i].ref) => tickets'[j].status = "done"
       /\ tickets[j].type # "epic" /\ j \notin {i} \cup Of("subtask", tickets[i].ref) => tickets'[j] = tickets[j]

MadeBlocked(i) ==
  LET n == Len(tickets) + 1 IN
  /\ tickets' \in Seq(Ticket)
  /\ n \notin Tickets /\ Tickets' = Tickets \cup {n}
  /\ tickets'[n] = New("bug", tickets[i].ref, tickets[i].uc, "none")
  /\ tickets'[i] = [tickets[i] EXCEPT !.status = "blocked"]
  /\ \A j \in Tickets \ {i} : tickets'[j] = tickets[j]

\* All that a step can do to the tickets.
TicketsChange ==
  \/ UNCHANGED tickets
  \/ \E u \in UseCases : NewEpic(u)
  \/ \E a \in DOMAIN model : NewStory(a) \/ \E i \in Of("story", a) : Revisited(i, a)
  \/ \E i \in Todo : NewSubtask(i) \/ MadeDone(i) \/ MadeBlocked(i)

LEMMA ModelFacts ==
  ASSUME NEW m \in Models
  PROVE  DOMAIN m \subseteq Atoms /\ \A a \in DOMAIN m : m[a].sig \in Sigs /\ m[a].uc \in UseCases
<1>1. PICK A \in SUBSET Atoms \ {{}} : m \in [A -> Atom]
  BY DEF Model
<1> QED
  BY <1>1 DEF Atom

LEMMA TicketFacts ==
  ASSUME TypeOK
  PROVE  /\ Tickets = 1..Len(tickets) /\ Len(tickets) \in Nat
         /\ \A i \in Tickets : tickets[i] \in Ticket
BY LenProperties DEF TypeOK, Tickets

LEMMA CreateExtends ==
  ASSUME TypeOK, NEW t \in Ticket, Create(t)
  PROVE  Extends(t)
<1>1. tickets \in Seq(Ticket) /\ Tickets = 1..Len(tickets) /\ Len(tickets) \in Nat
  BY TicketFacts DEF TypeOK
<1>2. /\ tickets' \in Seq(Ticket) /\ Len(tickets') = Len(tickets) + 1
      /\ \A i \in 1..Len(tickets) : tickets'[i] = tickets[i]
      /\ tickets'[Len(tickets) + 1] = t
  BY <1>1, AppendProperties DEF Create
<1>3. Tickets' = 1..Len(tickets')
  BY <1>2, LenProperties DEF Tickets
<1> QED
  BY <1>1, <1>2, <1>3 DEF Extends

LEMMA NewTicket ==
  ASSUME NEW type \in {"epic", "story", "subtask", "bug"}, NEW ref \in Atoms \cup UseCases,
         NEW uc \in UseCases, NEW sig \in Sigs \cup {"none"}
  PROVE  New(type, ref, uc, sig) \in Ticket
BY DEF New, Ticket

\* TicketizeEpic writes nothing or the first epic of its use case.
LEMMA EpicEffect ==
  ASSUME TypeOK, NEW u \in UseCases, TicketizeEpic(u)
  PROVE  UNCHANGED tickets \/ NewEpic(u)
<1>1. New("epic", u, u, "none") \in Ticket
  BY NewTicket
<1>2. CASE Of("epic", u) = {}
  <2>1. Create(New("epic", u, u, "none"))
    BY <1>2 DEF TicketizeEpic
  <2> QED
    BY <1>1, <1>2, <2>1, CreateExtends DEF NewEpic
<1>3. CASE Of("epic", u) # {}
  BY <1>3 DEF TicketizeEpic
<1> QED
  BY <1>2, <1>3

\* TicketizeAtom writes the first story of its atom, or looks at one there is.
LEMMA AtomEffect ==
  ASSUME TypeOK, NEW a \in Atoms, TicketizeAtom(a)
  PROVE  a \in DOMAIN model /\ (NewStory(a) \/ \E i \in Of("story", a) : Revisited(i, a))
<1>1. a \in DOMAIN model /\ model[a].sig \in Sigs /\ model[a].uc \in UseCases
  BY ModelFacts DEF TicketizeAtom, TypeOK, AllPending
<1>2. CASE Of("story", a) = {} /\ Create(New("story", a, model[a].uc, model[a].sig))
  BY <1>1, <1>2, NewTicket, CreateExtends DEF NewStory
<1>3. CASE \E i \in Of("story", a) : tickets' = [tickets EXCEPT ![i] =
             IF tickets[i].sig = model[a].sig THEN tickets[i] ELSE Reopened(tickets[i], model[a].sig)]
  <2>1. PICK i \in Of("story", a) : tickets' = [tickets EXCEPT ![i] =
             IF tickets[i].sig = model[a].sig THEN tickets[i] ELSE Reopened(tickets[i], model[a].sig)]
    BY <1>3
  <2> DEFINE t == IF tickets[i].sig = model[a].sig THEN tickets[i] ELSE Reopened(tickets[i], model[a].sig)
  <2>2. i \in 1..Len(tickets) /\ tickets[i] \in Ticket /\ tickets \in Seq(Ticket)
    BY TicketFacts DEF TypeOK, Of, Having, Tickets
  <2>3. t \in Ticket /\ t.type = tickets[i].type /\ t.ref = tickets[i].ref /\ t.uc = tickets[i].uc
    BY <1>1, <2>2 DEF Reopened, Ticket
  <2>4. tickets' = [tickets EXCEPT ![i] = t]
    BY <2>1
  <2> HIDE DEF t
  <2>5. /\ tickets' \in Seq(Ticket) /\ Len(tickets') = Len(tickets)
        /\ \A j \in 1..Len(tickets) : tickets'[j] = IF j = i THEN t ELSE tickets[j]
    BY <2>2, <2>3, <2>4, ExceptSeq
  <2>6. Tickets' = 1..Len(tickets') /\ Tickets = 1..Len(tickets)
    BY <2>5, TicketFacts, LenProperties DEF Tickets
  <2>7. Updates
    BY <2>3, <2>5, <2>6 DEF Updates
  <2>8. tickets'[i] = t /\ \A j \in Tickets \ {i} : tickets'[j] = tickets[j]
    BY <2>2, <2>5, <2>6
  <2> QED
    BY <1>1, <2>7, <2>8 DEF t, Revisited
<1> QED
  BY <1>1, <1>2, <1>3 DEF TicketizeAtom

\* Split writes the first subtask of an open story.
LEMMA SplitEffect ==
  ASSUME TypeOK, Fitting, NEW i \in Todo, Split(i)
  PROVE  NewSubtask(i)
<1>1. tickets[i] \in Ticket
  BY TicketFacts DEF Todo, Having, Tickets
<1>2. New("subtask", tickets[i].ref, tickets[i].uc, tickets[i].sig) \in Ticket
  BY <1>1, NewTicket DEF Ticket
<1> QED
  BY <1>2, CreateExtends DEF Split, NewSubtask

\* Finish marks the story, its subtasks and maybe epics, and nothing else, as done.
LEMMA FinishEffect ==
  ASSUME TypeOK, NEW i \in Todo, Finish(i)
  PROVE  MadeDone(i)
<1> DEFINE done(j) == [tickets[j] EXCEPT !.status = "done", !.built = IF j = i THEN tickets[i].sig ELSE @]
           t(j) == IF j \in FinishedWith(i) THEN done(j) ELSE tickets[j]
<1>1. /\ tickets \in Seq(Ticket) /\ Tickets = 1..Len(tickets) /\ Len(tickets) \in Nat
      /\ i \in Tickets /\ \A j \in Tickets : tickets[j] \in Ticket
  BY TicketFacts DEF TypeOK, Todo, Having, Tickets
<1>2. tickets' = [j \in 1..Len(tickets) |-> t(j)]
  BY <1>1 DEF Finish, Tickets
<1>3. \A j \in Tickets :
        /\ done(j) \in Ticket
        /\ done(j).type = tickets[j].type /\ done(j).ref = tickets[j].ref /\ done(j).uc = tickets[j].uc
        /\ done(j).sig = tickets[j].sig /\ done(j).respec = tickets[j].respec /\ done(j).status = "done"
        /\ done(j).built = (IF j = i THEN tickets[i].sig ELSE tickets[j].built)
  <2> SUFFICES ASSUME NEW j \in Tickets
      PROVE  /\ done(j) \in Ticket
             /\ done(j).type = tickets[j].type /\ done(j).ref = tickets[j].ref /\ done(j).uc = tickets[j].uc
             /\ done(j).sig = tickets[j].sig /\ done(j).respec = tickets[j].respec /\ done(j).status = "done"
             /\ done(j).built = (IF j = i THEN tickets[i].sig ELSE tickets[j].built)
    BY Zenon
  <2>1. tickets[j] \in Ticket /\ tickets[i] \in Ticket
    BY <1>1
  <2>2. CASE j = i
    BY <2>1, <2>2 DEF Ticket
  <2>3. CASE j # i
    BY <2>1, <2>3 DEF Ticket
  <2> QED
    BY <2>2, <2>3, Zenon
<1>4. /\ i \in FinishedWith(i)
      /\ Of("subtask", tickets[i].ref) \subseteq FinishedWith(i)
      /\ \A j \in FinishedWith(i) \ ({i} \cup Of("subtask", tickets[i].ref)) : tickets[j].type = "epic"
  BY DEF FinishedWith, Of, Having
<1>5. \A j \in 1..Len(tickets) : tickets'[j] = t(j)
  BY <1>2
<1> HIDE DEF done
<1>6. \A j \in 1..Len(tickets) : t(j) \in Ticket
  BY <1>1, <1>3
<1>7. tickets' \in [1..Len(tickets) -> Ticket]
  <2> HIDE DEF t
  <2> QED
    BY <1>2, <1>6
<1>8. tickets' \in Seq(Ticket)
  BY <1>1, <1>7, SeqDef
<1>9. Tickets' = Tickets
  BY <1>1, <1>7 DEF Tickets
<1>10. Updates
  BY <1>1, <1>3, <1>5, <1>8, <1>9 DEF Updates
<1> QED
  BY <1>1, <1>3, <1>4, <1>5, <1>10 DEF MadeDone

\* Block marks the story as blocked and writes a BUG.
LEMMA BlockEffect ==
  ASSUME TypeOK, NEW i \in Todo, Block(i)
  PROVE  MadeBlocked(i)
<1> DEFINE blocked == [tickets[i] EXCEPT !.status = "blocked"]
           mid == [tickets EXCEPT ![i] = blocked]
           bug == New("bug", tickets[i].ref, tickets[i].uc, "none")
<1>1. /\ tickets \in Seq(Ticket) /\ Tickets = 1..Len(tickets) /\ Len(tickets) \in Nat
      /\ i \in Tickets /\ tickets[i] \in Ticket
  BY TicketFacts DEF TypeOK, Todo, Having, Tickets
<1>2. blocked \in Ticket
  BY <1>1 DEF Ticket
<1>3. bug \in Ticket
  BY <1>1, NewTicket DEF Ticket
<1>4. tickets' = Append(mid, bug)
  BY DEF Block
<1> HIDE DEF blocked, bug
<1>5. /\ mid \in Seq(Ticket) /\ Len(mid) = Len(tickets)
      /\ \A j \in 1..Len(tickets) : mid[j] = IF j = i THEN blocked ELSE tickets[j]
  BY <1>1, <1>2, ExceptSeq
<1> HIDE DEF mid
<1>6. /\ tickets' \in Seq(Ticket) /\ Len(tickets') = Len(mid) + 1
      /\ \A j \in 1..Len(mid) : tickets'[j] = mid[j]
      /\ tickets'[Len(mid) + 1] = bug
  BY <1>3, <1>4, <1>5, AppendProperties
<1>7. Tickets' = 1..Len(tickets')
  BY <1>6, LenProperties DEF Tickets
<1> QED
  BY <1>1, <1>5, <1>6, <1>7 DEF blocked, bug, MadeBlocked

\* Every step is one of these.
LEMMA StepsChangeTickets ==
  ASSUME TypeOK, Fitting, [Next]_vars
  PROVE  TicketsChange
<1>1. CASE \E u \in UseCases : TicketizeEpic(u)
  BY <1>1, EpicEffect DEF TicketsChange
<1>2. CASE \E a \in Atoms : TicketizeAtom(a)
  BY <1>2, AtomEffect DEF TicketsChange
<1>3. CASE \E i \in Todo : WorkOne(i)
  BY <1>3, SplitEffect, FinishEffect, BlockEffect DEF WorkOne, TicketsChange
<1>4. CASE Derive \/ TicketizeEnds \/ WorkEnds \/ Crash \/ Reset
  BY <1>4 DEF Derive, TicketizeEnds, WorkEnds, Crash, Reset, TicketsChange
<1>5. CASE (\E i \in Todo : SplitRaises(i)) \/ Done \/ UNCHANGED vars
  BY <1>5 DEF SplitRaises, Done, vars, TicketsChange
<1> QED
  BY <1>1, <1>2, <1>3, <1>4, <1>5 DEF Next, Running

-----------------------------------------------------------------------------
(* IInv is inductive.                                                      *)

LEMMA TypeStep == TypeOK /\ Fitting /\ [Next]_vars => TypeOK'
<1> SUFFICES ASSUME TypeOK, Fitting, [Next]_vars PROVE TypeOK'
  OBVIOUS
<1>1. tickets' \in Seq(Ticket)
  <2>1. TicketsChange /\ tickets \in Seq(Ticket)
    BY StepsChangeTickets DEF TypeOK
  <2> QED
    BY <2>1 DEF TicketsChange, NewEpic, NewStory, Revisited, NewSubtask, MadeDone, MadeBlocked, Extends, Updates
<1> HIDE DEF TypeOK
<1>2. /\ phase' \in {"model", "ticketize", "work", "done"}
      /\ model' \in Models /\ pending' \subseteq AllPending(model)' /\ (phase' # "ticketize" => pending' = {})
      /\ resets' \in 0..MaxResets /\ crashes' \in 0..MaxCrashes
  <2> USE DEF TypeOK
  <2>1. CASE Derive
    BY <2>1 DEF Derive
  <2>2. CASE \E u \in UseCases : TicketizeEpic(u)
    BY <2>2 DEF TicketizeEpic, AllPending
  <2>3. CASE \E a \in Atoms : TicketizeAtom(a)
    BY <2>3 DEF TicketizeAtom, AllPending
  <2>4. CASE TicketizeEnds \/ WorkEnds
    BY <2>4 DEF TicketizeEnds, WorkEnds, AllPending
  <2>5. CASE \E i \in Todo : WorkOne(i)
    BY <2>5 DEF WorkOne, Split, Finish, Block, AllPending
  <2>6. CASE Crash
    BY <2>6 DEF Crash, AllPending
  <2>7. CASE Reset
    BY <2>7 DEF Reset, AllPending
  <2>8. CASE (\E i \in Todo : SplitRaises(i)) \/ Done \/ UNCHANGED vars
    BY <2>8 DEF SplitRaises, Done, vars, AllPending
  <2> QED
    BY <2>1, <2>2, <2>3, <2>4, <2>5, <2>6, <2>7, <2>8 DEF Next, Running
<1> QED
  BY <1>1, <1>2 DEF TypeOK

\* Block changes nothing of the tickets there are but the one status.
LEMMA BlockedKeeps ==
  ASSUME TypeOK, NEW i \in Todo, MadeBlocked(i)
  PROVE  /\ i \in Tickets /\ tickets[i].type = "story" /\ tickets[i].status = "todo"
         /\ tickets'[i].status = "blocked"
         /\ \A j \in Tickets :
              /\ tickets'[j].type = tickets[j].type /\ tickets'[j].ref = tickets[j].ref
              /\ tickets'[j].sig = tickets[j].sig /\ tickets'[j].respec = tickets[j].respec
              /\ tickets'[j].built = tickets[j].built
              /\ j # i => tickets'[j] = tickets[j]
<1>1. tickets[i] \in Ticket /\ i \in Tickets /\ tickets[i].type = "story" /\ tickets[i].status = "todo"
  BY TicketFacts DEF Todo, Having, Tickets
<1>2. /\ tickets'[i].type = tickets[i].type /\ tickets'[i].ref = tickets[i].ref
      /\ tickets'[i].sig = tickets[i].sig /\ tickets'[i].respec = tickets[i].respec
      /\ tickets'[i].built = tickets[i].built /\ tickets'[i].status = "blocked"
  BY <1>1 DEF MadeBlocked, Ticket
<1> QED
  BY <1>1, <1>2 DEF MadeBlocked

\* A story that ticketize comes back to stays as it is or is reopened.
LEMMA RevisitedKeeps ==
  ASSUME TypeOK, NEW a \in DOMAIN model, NEW i \in Of("story", a), Revisited(i, a)
  PROVE  /\ i \in Tickets /\ tickets[i].type = "story" /\ tickets'[i].sig = model[a].sig
         /\ tickets'[i] = tickets[i] \/ (tickets'[i].status = "todo" /\ tickets'[i].respec)
<1>1. tickets[i] \in Ticket /\ i \in Tickets /\ tickets[i].type = "story"
  BY TicketFacts DEF Of, Having, Tickets
<1>2. CASE tickets[i].sig = model[a].sig
  <2>1. tickets'[i] = tickets[i]
    BY <1>2 DEF Revisited
  <2> QED
    BY <1>1, <1>2, <2>1
<1>3. CASE tickets[i].sig # model[a].sig
  <2>1. tickets'[i] = Reopened(tickets[i], model[a].sig)
    BY <1>3 DEF Revisited
  <2> QED
    BY <1>1, <2>1 DEF Reopened, Ticket
<1> QED
  BY <1>1, <1>2, <1>3

LEMMA FittingStep ==
  ASSUME TypeOK, Fitting, TicketsChange
  PROVE  Fitting'
<1> USE DEF Fitting
<1>1. CASE UNCHANGED tickets
  BY <1>1 DEF Tickets
<1>2. CASE \E u \in UseCases : NewEpic(u)
  BY <1>2 DEF NewEpic, Extends, New
<1>3. ASSUME NEW a \in DOMAIN model, NewStory(a) PROVE Fitting'
  BY <1>3, ModelFacts DEF NewStory, Extends, New, TypeOK
<1>4. ASSUME NEW i \in Tickets, NEW a \in DOMAIN model, Revisited(i, a) PROVE Fitting'
  BY <1>4 DEF Revisited, Updates
<1>5. ASSUME NEW i \in Todo, NewSubtask(i) PROVE Fitting'
  BY <1>5 DEF NewSubtask, Extends, New, Todo, Having, Tickets
<1>6. ASSUME NEW i \in Todo, MadeDone(i) PROVE Fitting'
  BY <1>6 DEF MadeDone, Updates
<1>7. ASSUME NEW i \in Todo, MadeBlocked(i) PROVE Fitting'
  <2>1. tickets[i].ref \in Atoms /\ \A j \in Tickets : tickets'[j].type = tickets[j].type /\ tickets'[j].ref = tickets[j].ref
    BY <1>7, BlockedKeeps DEF Todo, Having, Tickets
  <2> QED
    BY <1>7, <2>1 DEF MadeBlocked, New
<1> QED
  BY <1>1, <1>2, <1>3, <1>4, <1>5, <1>6, <1>7 DEF TicketsChange, Of, Having, Tickets

LEMMA NoTwinsStep ==
  ASSUME TypeOK, NoTwins, TicketsChange
  PROVE  NoTwins'
<1> USE DEF NoTwins, Having, Tickets
<1>1. CASE UNCHANGED tickets
  BY <1>1
<1>2. CASE \E u \in UseCases : NewEpic(u)
  BY <1>2 DEF NewEpic, Extends, New, Of
<1>3. ASSUME NEW a \in DOMAIN model, NewStory(a) PROVE NoTwins'
  BY <1>3 DEF NewStory, Extends, New, Of
<1>4. ASSUME NEW i, NEW a \in DOMAIN model, Revisited(i, a) PROVE NoTwins'
  BY <1>4 DEF Revisited, Updates
<1>5. ASSUME NEW i \in Todo, NewSubtask(i) PROVE NoTwins'
  BY <1>5 DEF NewSubtask, Extends, New, Of
<1>6. ASSUME NEW i \in Todo, MadeDone(i) PROVE NoTwins'
  BY <1>6 DEF MadeDone, Updates
<1>7. ASSUME NEW i \in Todo, MadeBlocked(i) PROVE NoTwins'
  <2>1. \A j \in Tickets : tickets'[j].type = tickets[j].type /\ tickets'[j].ref = tickets[j].ref
    BY <1>7, BlockedKeeps
  <2> QED
    BY <1>7, <2>1 DEF MadeBlocked, New
<1> QED
  BY <1>1, <1>2, <1>3, <1>4, <1>5, <1>6, <1>7 DEF TicketsChange

LEMMA OwnedStep ==
  ASSUME TypeOK, Owned, TicketsChange
  PROVE  Owned'
<1> USE DEF Owned, Same, Having, Tickets
<1>1. CASE UNCHANGED tickets
  BY <1>1
<1>2. CASE \E u \in UseCases : NewEpic(u)
  BY <1>2 DEF NewEpic, Extends, New
<1>3. ASSUME NEW a \in DOMAIN model, NewStory(a) PROVE Owned'
  BY <1>3 DEF NewStory, Extends, New
<1>4. ASSUME NEW i, NEW a \in DOMAIN model, Revisited(i, a) PROVE Owned'
  BY <1>4 DEF Revisited, Updates
<1>5. ASSUME NEW i \in Todo, NewSubtask(i) PROVE Owned'
  BY <1>5 DEF NewSubtask, Extends, New, Todo
<1>6. ASSUME NEW i \in Todo, MadeDone(i) PROVE Owned'
  BY <1>6 DEF MadeDone, Updates
<1>7. ASSUME NEW i \in Todo, MadeBlocked(i) PROVE Owned'
  <2>1. /\ i \in Tickets /\ tickets[i].type = "story"
        /\ \A j \in Tickets : tickets'[j].type = tickets[j].type /\ tickets'[j].ref = tickets[j].ref
    BY <1>7, BlockedKeeps
  <2> QED
    BY <1>7, <2>1 DEF MadeBlocked, New
<1> QED
  BY <1>1, <1>2, <1>3, <1>4, <1>5, <1>6, <1>7 DEF TicketsChange

LEMMA BuiltStep ==
  ASSUME TypeOK, Built, TicketsChange
  PROVE  Built'
<1> USE DEF Built, Having, Tickets
<1>1. CASE UNCHANGED tickets
  BY <1>1
<1>2. CASE \E u \in UseCases : NewEpic(u)
  BY <1>2 DEF NewEpic, Extends, New
<1>3. ASSUME NEW a \in DOMAIN model, NewStory(a) PROVE Built'
  BY <1>3 DEF NewStory, Extends, New
<1>4. ASSUME NEW a \in DOMAIN model, NEW i \in Of("story", a), Revisited(i, a) PROVE Built'
  <2>1. tickets'[i] = tickets[i] \/ tickets'[i].status = "todo"
    BY <1>4, RevisitedKeeps
  <2> QED
    BY <1>4, <2>1 DEF Revisited, Updates
<1>5. ASSUME NEW i \in Todo, NewSubtask(i) PROVE Built'
  BY <1>5 DEF NewSubtask, Extends, New
<1>6. ASSUME NEW i \in Todo, MadeDone(i) PROVE Built'
  BY <1>6 DEF MadeDone, Updates, Of, Todo
<1>7. ASSUME NEW i \in Todo, MadeBlocked(i) PROVE Built'
  <2>1. /\ tickets'[i].status = "blocked"
        /\ \A j \in Tickets : j # i => tickets'[j] = tickets[j]
    BY <1>7, BlockedKeeps
  <2>2. /\ Tickets' = Tickets \cup {Len(tickets) + 1}
        /\ tickets'[Len(tickets) + 1].type = "bug"
    BY <1>7 DEF MadeBlocked, New
  <2> QED
    BY <2>1, <2>2
<1> QED
  BY <1>1, <1>2, <1>3, <1>4, <1>5, <1>6, <1>7 DEF TicketsChange

LEMMA AgreeingStep ==
  ASSUME TypeOK, NoTwins, Owned, Agreeing, TicketsChange
  PROVE  Agreeing'
<1> USE DEF Agreeing, Same, Having, Tickets
<1>0. \A i, j \in Having("story") : Same(i, j) => i = j
  BY DEF NoTwins
<1>1. CASE UNCHANGED tickets
  BY <1>1
<1>2. CASE \E u \in UseCases : NewEpic(u)
  BY <1>2 DEF NewEpic, Extends, New
<1>3. ASSUME NEW a \in DOMAIN model, NewStory(a) PROVE Agreeing'
  <2>1. \A j \in Tickets : tickets[j].ref = a => tickets[j].type = "epic"
    BY <1>3, TicketFacts DEF NewStory, Of, Owned, Ticket
  <2> QED
    BY <1>3, <2>1 DEF NewStory, Extends, New
<1>4. ASSUME NEW a \in DOMAIN model, NEW i \in Of("story", a), Revisited(i, a) PROVE Agreeing'
  <2>1. i \in Having("story") /\ (tickets'[i] = tickets[i] \/ tickets'[i].respec)
    BY <1>4, RevisitedKeeps
  <2> QED
    BY <1>0, <1>4, <2>1 DEF Revisited, Updates
<1>5. ASSUME NEW i \in Todo, NewSubtask(i) PROVE Agreeing'
  BY <1>0, <1>5 DEF NewSubtask, Extends, New, Todo
<1>6. ASSUME NEW i \in Todo, MadeDone(i) PROVE Agreeing'
  <2> DEFINE own == {i} \cup Of("subtask", tickets[i].ref)
  <2>1. i \in Having("story") /\ tickets[i].status = "todo"
    BY DEF Todo
  <2>2. /\ Tickets' = Tickets
        /\ \A j \in Tickets : tickets'[j].type = tickets[j].type /\ tickets'[j].ref = tickets[j].ref
                              /\ tickets'[j].respec = tickets[j].respec
        /\ \A j \in own : tickets'[j].status = "done"
        /\ \A j \in Tickets \ own : tickets[j].type # "epic" => tickets'[j] = tickets[j]
    BY <1>6 DEF MadeDone, Updates, Of
  <2>3. \A j \in own : Same(i, j)
    BY <2>1 DEF Of
  <2>4. \A j \in Tickets \ own : Same(i, j) => tickets[j].type = "bug"
    BY <1>0, <2>1, TicketFacts DEF Of, Ticket
  <2> HIDE DEF own
  <2>5. ASSUME NEW k \in Having("story")', NEW j \in Tickets', ~tickets'[k].respec, Same(k, j)'
        PROVE  /\ tickets'[j].status = "done" <=> tickets'[k].status = "done"
               /\ tickets'[k].status = "todo" => tickets'[j].type # "bug"
    <3>1. k \in Having("story") /\ j \in Tickets /\ ~tickets[k].respec /\ Same(k, j)
      BY <2>2, <2>5
    <3>2. i \in own
      BY DEF own
    <3>3. CASE k = i
      BY <2>1, <2>2, <2>4, <3>1, <3>2, <3>3
    <3>4. CASE k # i
      <4>1. k \notin own /\ j \notin own
        BY <1>0, <2>1, <2>3, <3>1, <3>4
      <4> QED
        BY <2>2, <3>1, <4>1
    <3> QED
      BY <3>3, <3>4
  <2> QED
    BY <2>5
<1>7. ASSUME NEW i \in Todo, MadeBlocked(i) PROVE Agreeing'
  BY <1>0, <1>7, BlockedKeeps DEF MadeBlocked, New
<1> QED
  BY <1>1, <1>2, <1>3, <1>4, <1>5, <1>6, <1>7 DEF TicketsChange

\* Who has a story with its signature keeps it while no ticket's signature changes.
LEMMA StaysCurrent ==
  ASSUME Tickets \subseteq Tickets',
         \A j \in Tickets : /\ tickets'[j].type = tickets[j].type /\ tickets'[j].ref = tickets[j].ref
                            /\ tickets'[j].sig = tickets[j].sig,
         NEW a, NEW i \in Of("story", a)
  PROVE  i \in Of("story", a)' /\ tickets'[i].sig = tickets[i].sig
BY DEF Of, Having, Tickets

LEMMA CurrentStep ==
  ASSUME TypeOK, Fitting, Current, [Next]_vars
  PROVE  Current'
<1> USE DEF Current
<1>0. DOMAIN model \cap UseCases = {}
  BY ModelFacts DEF TypeOK
<1>1. CASE Derive
  BY <1>1 DEF Derive, AllPending
<1>2. ASSUME NEW u \in UseCases, TicketizeEpic(u) PROVE Current'
  <2>1. UNCHANGED tickets \/ NewEpic(u)
    BY <1>2, EpicEffect
  <2>2. /\ Tickets \subseteq Tickets'
        /\ \A j \in Tickets : tickets'[j] = tickets[j]
    BY <2>1 DEF NewEpic, Extends, Tickets
  <2> QED
    BY <1>0, <1>2, <2>2, StaysCurrent DEF TicketizeEpic
<1>3. ASSUME NEW a \in Atoms, TicketizeAtom(a) PROVE Current'
  <2>1. a \in DOMAIN model /\ (NewStory(a) \/ \E i \in Of("story", a) : Revisited(i, a))
    BY <1>3, AtomEffect
  <2>2. \E i \in Of("story", a)' : tickets'[i].sig = model[a].sig
    <3>1. CASE NewStory(a)
      BY <3>1 DEF NewStory, Extends, New, Of, Having, Tickets
    <3>2. ASSUME NEW i \in Of("story", a), Revisited(i, a) PROVE i \in Of("story", a)' /\ tickets'[i].sig = model[a].sig
      BY <2>1, <3>2, RevisitedKeeps DEF Revisited, Updates, Of, Having, Tickets
    <3> QED
      BY <2>1, <3>1, <3>2
  <2>3. ASSUME NEW b \in DOMAIN model \ {a}, NEW i \in Of("story", b)
        PROVE  i \in Of("story", b)' /\ tickets'[i] = tickets[i]
    BY <2>1, <2>3 DEF NewStory, Extends, Revisited, Updates, Of, Having, Tickets
  <2> QED
    BY <1>3, <2>2, <2>3 DEF TicketizeAtom
<1>4. ASSUME NEW i \in Todo, WorkOne(i) PROVE Current'
  <2>1. NewSubtask(i) \/ MadeDone(i) \/ MadeBlocked(i)
    BY <1>4, SplitEffect, FinishEffect, BlockEffect DEF WorkOne
  <2>2. /\ Tickets \subseteq Tickets'
        /\ \A j \in Tickets : /\ tickets'[j].type = tickets[j].type /\ tickets'[j].ref = tickets[j].ref
                               /\ tickets'[j].sig = tickets[j].sig
    <3>1. CASE NewSubtask(i)
      BY <3>1 DEF NewSubtask, Extends
    <3>2. CASE MadeDone(i)
      BY <3>2 DEF MadeDone, Updates
    <3>3. CASE MadeBlocked(i)
      BY <3>3, BlockedKeeps DEF MadeBlocked
    <3> QED
      BY <2>1, <3>1, <3>2, <3>3
  <2>3. UNCHANGED <<phase, model, pending>>
    BY <1>4 DEF WorkOne, Split, Finish, Block
  <2> QED
    BY <2>2, <2>3, StaysCurrent
<1>5. CASE TicketizeEnds \/ WorkEnds
  BY <1>5 DEF TicketizeEnds, WorkEnds, Of, Having
<1>6. CASE Crash
  BY <1>6 DEF Crash, AllPending
<1>7. CASE Reset
  BY <1>7 DEF Reset
<1>8. CASE (\E i \in Todo : SplitRaises(i)) \/ Done \/ UNCHANGED vars
  BY <1>8 DEF SplitRaises, Done, vars, Of, Having
<1> QED
  BY <1>1, <1>2, <1>3, <1>4, <1>5, <1>6, <1>7, <1>8 DEF Next, Running

-----------------------------------------------------------------------------
(* The theorems.                                                           *)

\* The backlog of a use case and of an atom hangs together in every reachable
\* state: TypeOK and NoTwins with what they need.
THEOREM Invariant == Spec => []IInv
<1>1. Init => IInv
  <2> SUFFICES ASSUME Init PROVE IInv
    OBVIOUS
  <2>1. Tickets = {} /\ tickets \in Seq(Ticket)
    BY DEF Init, Tickets
  <2>2. TypeOK
    BY <2>1 DEF Init, TypeOK
  <2> QED
    BY <2>1, <2>2 DEF Init, IInv, Fitting, NoTwins, Owned, Built, Current, Agreeing, Having, Tickets, AllPending
<1>2. IInv /\ [Next]_vars => IInv'
  <2> SUFFICES ASSUME IInv, [Next]_vars PROVE IInv'
    OBVIOUS
  <2>1. TypeOK /\ Fitting /\ NoTwins /\ Owned /\ Built /\ Current /\ Agreeing
    BY DEF IInv
  <2>2. TicketsChange
    BY <2>1, StepsChangeTickets
  <2> QED
    BY <2>1, <2>2, TypeStep, FittingStep, NoTwinsStep, OwnedStep, BuiltStep, CurrentStep, AgreeingStep DEF IInv
<1> QED
  BY <1>1, <1>2, PTL DEF Spec

\* Every variable has its type.
THEOREM TypeCorrect == Spec => []TypeOK
BY Invariant, PTL DEF IInv

\* No generation of the model, and no kill of ticketize, gives a use case two
\* epics, an atom two stories or a story two sets of subtasks.
THEOREM TicketizeIsIdempotent == Spec => []NoTwins
BY Invariant, PTL DEF IInv

LEMMA CurrentStories ==
  ASSUME IInv
  PROVE  DoneIsCurrent
BY DEF IInv, TypeOK, Current, Built, DoneIsCurrent, Of

\* In WORK and after it every atom of the model has a story with its signature,
\* and a done one was finished for that signature.
THEOREM StoriesAreCurrent == Spec => []DoneIsCurrent
<1>1. IInv => DoneIsCurrent
  BY CurrentStories
<1> QED
  BY <1>1, Invariant, PTL

\* When release.judge finds the scope met, every requirement reaches an atom of
\* the present model whose story was finished for it.
THEOREM ScopeIsBuilt == Spec => []ScopeMetIsBuilt
<1>1. IInv => ScopeMetIsBuilt
  BY CurrentStories DEF DoneIsCurrent, ScopeMetIsBuilt, ScopeMet, Traced, Of
<1> QED
  BY <1>1, Invariant, PTL

\* The last ticket that write_fsm_spec meets is one of the atom's.
LEMMA EntryIsOwn ==
  ASSUME TypeOK, NEW a, NEW i \in Of("story", a)
  PROVE  \E j \in Tickets : Same(i, j) /\ TableEntry(a) = tickets[j]
<1> DEFINE own == {j \in DOMAIN tickets : tickets[j].type # "epic" /\ tickets[j].ref = a}
<1>1. i \in own
  BY DEF Of, Having
<1>2. own \in SUBSET Nat /\ Len(tickets) \in Nat /\ \A j \in own : j <= Len(tickets)
  BY TicketFacts DEF Tickets
<1>3. \A j \in own : j \in Tickets /\ Same(i, j)
  BY <1>1 DEF Same, Tickets
<1>4. TableEntry(a) = tickets[Latest(own)]
  BY DEF TableEntry
<1> HIDE DEF own
<1>5. \E j \in own : \A k \in own : k <= j
  BY <1>1, <1>2, Greatest
<1>6. \E j \in own : \A k \in own : j >= k
  BY <1>2, <1>5
<1>7. Latest(own) \in own
  BY <1>6 DEF Latest
<1> QED
  BY <1>3, <1>4, <1>7

\* The table that the driver is built against says done of an atom exactly if its
\* story is done, as long as that story has not been reopened.
THEOREM TableIsRightAtFirst == Spec => []TableRightAtFirst
<1>1. IInv => TableRightAtFirst
  <2> SUFFICES ASSUME IInv, NEW a \in DOMAIN model, NEW i \in Of("story", a), ~tickets[i].respec
               PROVE  TableEntry(a).status = "done" <=> tickets[i].status = "done"
    BY DEF TableRightAtFirst
  <2>1. PICK j \in Tickets : Same(i, j) /\ TableEntry(a) = tickets[j]
    BY EntryIsOwn DEF IInv
  <2>2. i \in Having("story")
    BY DEF Of
  <2> QED
    BY <2>1, <2>2 DEF IInv, Agreeing
<1> QED
  BY <1>1, Invariant, PTL
============================================================================
