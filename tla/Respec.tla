------------------------------- MODULE Respec -------------------------------
(***************************************************************************)
(* The backlog over several generations of the model.  A person resets the *)
(* pipeline (keeping artifacts and backlog), the model is derived anew,    *)
(* planning.ticketize brings the tickets in line with it, WORK decides the *)
(* open stories, and entry.write_fsm_spec and release.judge read the       *)
(* result back.                                                            *)
(*                                                                         *)
(* Tickets are a sequence in the order of their keys, as search returns    *)
(* them.  The steps inside WORK are in WorkLoop; here a story is split and *)
(* decided.  One subtask stands for the up to five of a story.             *)
(***************************************************************************)
EXTENDS Naturals, Sequences

CONSTANTS
  Atoms,      \* ids a transition or rule may have
  UseCases,   \* ids of the use cases
  Sigs,       \* signatures: the content of an atom
  Models,     \* the models a worker may derive
  Owners,     \* the use cases each requirement is listed in
  MaxResets,  \* bound: `reset' commands
  MaxCrashes  \* bound: kills while ticketize runs

ASSUME OwnersAssumption == \A r \in DOMAIN Owners : Owners[r] \subseteq UseCases
ASSUME BoundsAssumption == MaxResets \in Nat /\ MaxCrashes \in Nat
ASSUME AtomsAssumption  == Atoms \cap UseCases = {}

\* An atom's signature leaves its use case out.
Atom  == [sig : Sigs, uc : UseCases]
Model == UNION {[A -> Atom] : A \in SUBSET Atoms \ {{}}}

ASSUME ModelsAssumption == Models \subseteq Model

VARIABLES
  phase,    \* state.json: the phase
  model,    \* fsm.yaml or rules.yaml: its atoms
  pending,  \* what the running ticketize has not looked at yet
  tickets,  \* tickets.yaml
  resets, crashes

vars == <<phase, model, pending, tickets, resets, crashes>>

\* ref: fsm_ref, of an epic usecase_ref.  uc: the parent epic's use case.
\* built: history, the signature a story was last finished for.
Ticket ==
  [type : {"epic", "story", "subtask", "bug"}, ref : Atoms \cup UseCases, uc : UseCases,
   sig : Sigs \cup {"none"}, status : {"todo", "blocked", "done"}, respec : BOOLEAN,
   built : Sigs \cup {"none"}]

New(type, ref, uc, sig) ==
  [type |-> type, ref |-> ref, uc |-> uc, sig |-> sig, status |-> "todo", respec |-> FALSE, built |-> "none"]

\* The tickets of a type, and those of an atom or use case among them.
Having(type)    == {i \in DOMAIN tickets : tickets[i].type = type}
Of(type, ref)   == {i \in Having(type) : tickets[i].ref = ref}
First(indices)  == CHOOSE i \in indices : \A j \in indices : i <= j
Latest(indices) == CHOOSE i \in indices : \A j \in indices : i >= j

AllPending(m) == UseCases \cup DOMAIN m

Create(ticket) == tickets' = Append(tickets, ticket)

Init ==
  /\ phase = "ticketize" /\ model \in Models /\ pending = AllPending(model)
  /\ tickets = <<>> /\ resets = 0 /\ crashes = 0

-----------------------------------------------------------------------------
(* MODEL and TICKETIZE.                                                    *)

\* After a reset a worker is asked for the model again.
Derive ==
  /\ phase = "model"
  /\ model' \in Models
  /\ phase' = "ticketize" /\ pending' = AllPending(model')
  /\ UNCHANGED <<tickets, resets, crashes>>

\* Mutant: no search for the epic there is.
TicketizeEpicAgain(u) ==
  /\ phase = "ticketize" /\ u \in pending \cap UseCases
  /\ Create(New("epic", u, u, "none"))
  /\ pending' = pending \ {u}
  /\ UNCHANGED <<phase, model, resets, crashes>>

\* One epic for each use case, the existing one if there is one.
TicketizeEpic(u) ==
  /\ phase = "ticketize" /\ u \in pending \cap UseCases
  /\ IF Of("epic", u) = {} THEN Create(New("epic", u, u, "none")) ELSE UNCHANGED tickets
  /\ pending' = pending \ {u}
  /\ UNCHANGED <<phase, model, resets, crashes>>

\* Mutant: the new signature is written, the status stays.
ReopenedInName(t, sig) == [t EXCEPT !.sig = sig, !.respec = TRUE]

\* A changed atom's story is to be done again; its use case stays what it was.
Reopened(t, sig) == [t EXCEPT !.sig = sig, !.status = "todo", !.respec = TRUE]

\* After the epics, one story for each atom: kept, reopened or created.
TicketizeAtom(a) ==
  /\ phase = "ticketize" /\ pending \cap UseCases = {} /\ a \in pending
  /\ \/ Of("story", a) = {} /\ Create(New("story", a, model[a].uc, model[a].sig))
     \/ \E i \in Of("story", a) :
          /\ i = First(Of("story", a))
          /\ tickets' = [tickets EXCEPT ![i] =
               IF tickets[i].sig = model[a].sig THEN tickets[i] ELSE Reopened(tickets[i], model[a].sig)]
  /\ pending' = pending \ {a}
  /\ UNCHANGED <<phase, model, resets, crashes>>

\* Mutant: the atoms are not waited for.
TicketizeEndsEarly ==
  /\ phase = "ticketize" /\ pending \cap UseCases = {}
  /\ phase' = "work"
  /\ UNCHANGED <<model, pending, tickets, resets, crashes>>

TicketizeEnds ==
  /\ phase = "ticketize" /\ pending = {}
  /\ phase' = "work"
  /\ UNCHANGED <<model, pending, tickets, resets, crashes>>

\* A killed ticketize starts over with the tickets it had written.
Crash ==
  /\ phase = "ticketize" /\ crashes < MaxCrashes
  /\ crashes' = crashes + 1
  /\ pending' = AllPending(model)
  /\ UNCHANGED <<phase, model, tickets, resets>>

-----------------------------------------------------------------------------
(* WORK.                                                                   *)

Todo == {i \in Having("story") : tickets[i].status = "todo"}

\* The first open story in key order.
IsNext(i) == phase = "work" /\ Todo # {} /\ i = First(Todo)

\* decompose keeps the subtasks there are, though they were written for what
\* the story said when it was first taken up.
Split(i) ==
  /\ IsNext(i)
  /\ Of("subtask", tickets[i].ref) = {} /\ tickets[i].ref \in DOMAIN model
  /\ Create(New("subtask", tickets[i].ref, tickets[i].uc, tickets[i].sig))
  /\ UNCHANGED <<phase, model, pending, resets, crashes>>

\* Without an atom in the model it raises; the next run takes the story again.
Raises(i) ==
  IsNext(i) /\ Of("subtask", tickets[i].ref) = {} /\ tickets[i].ref \notin DOMAIN model

SplitRaises(i) == Raises(i) /\ UNCHANGED vars

\* The story, its subtasks, and its epic if it was the last one open.
FinishedWith(i) ==
  {i} \cup Of("subtask", tickets[i].ref)
      \cup (IF \A j \in Having("story") \ {i} : tickets[j].uc = tickets[i].uc => tickets[j].status = "done"
            THEN Of("epic", tickets[i].uc) ELSE {})

\* Mutant: the subtasks stay open.
FinishAlone(i) ==
  /\ IsNext(i) /\ ~Raises(i)
  /\ tickets' = [tickets EXCEPT ![i].status = "done", ![i].built = tickets[i].sig]
  /\ UNCHANGED <<phase, model, pending, resets, crashes>>

\* The worker may have returned an empty list of subtasks.
Finish(i) ==
  /\ IsNext(i) /\ ~Raises(i)
  /\ tickets' = [j \in DOMAIN tickets |->
       IF j \in FinishedWith(i)
       THEN [tickets[j] EXCEPT !.status = "done", !.built = IF j = i THEN tickets[i].sig ELSE @]
       ELSE tickets[j]]
  /\ UNCHANGED <<phase, model, pending, resets, crashes>>

\* deliver.raise_bug.
Block(i) ==
  /\ IsNext(i) /\ ~Raises(i)
  /\ tickets' = Append([tickets EXCEPT ![i].status = "blocked"], New("bug", tickets[i].ref, tickets[i].uc, "none"))
  /\ UNCHANGED <<phase, model, pending, resets, crashes>>

\* Mutant: the phase waits for blocked stories too.
WorkEndsAllDone ==
  /\ phase = "work" /\ Todo = {}
  /\ phase' = (IF \E i \in Having("story") : tickets[i].status = "blocked" THEN "work" ELSE "done")
  /\ UNCHANGED <<model, pending, tickets, resets, crashes>>

WorkEnds ==
  /\ phase = "work" /\ Todo = {}
  /\ phase' = "done"
  /\ UNCHANGED <<model, pending, tickets, resets, crashes>>

Reset ==
  /\ phase # "model" /\ resets < MaxResets
  /\ resets' = resets + 1
  /\ phase' = "model" /\ pending' = {}
  /\ UNCHANGED <<model, tickets, crashes>>

Done == phase = "done" /\ UNCHANGED vars

WorkOne(i) == Split(i) \/ Finish(i) \/ Block(i)

Running ==
  \/ Derive
  \/ \E u \in UseCases : TicketizeEpic(u)
  \/ \E a \in Atoms : TicketizeAtom(a)
  \/ TicketizeEnds
  \/ \E i \in Todo : WorkOne(i)
  \/ WorkEnds

Next == Running \/ (\E i \in Todo : SplitRaises(i)) \/ Crash \/ Reset \/ Done

Spec == Init /\ [][Next]_vars

\* The pipeline is run until it is done.
FairSpec == Spec /\ WF_vars(Running)

-----------------------------------------------------------------------------
(* What is read back.                                                      *)

\* entry.write_fsm_spec: the dictionary keeps the last ticket of each atom.
TableEntry(a) == tickets[Latest({i \in DOMAIN tickets : tickets[i].type # "epic" /\ tickets[i].ref = a})]

\* Mutant: the atoms of the model are left out.
TracedToDone(r) ==
  \E u \in Owners[r] : \E i \in Having("story") : tickets[i].uc = u /\ tickets[i].status = "done"

\* release._untraced_requirements: a use case with an atom and a done story.
Traced(r) ==
  \E u \in Owners[r] :
    /\ \E a \in DOMAIN model : model[a].uc = u
    /\ \E i \in Having("story") : tickets[i].uc = u /\ tickets[i].status = "done"

\* release.judge: every story is done and every requirement traced.
ScopeMet ==
  /\ \A i \in Having("story") : tickets[i].status = "done"
  /\ \A r \in DOMAIN Owners : Traced(r)

-----------------------------------------------------------------------------
(* Properties.                                                             *)

\* Every variable has its type.
TypeOK ==
  /\ phase \in {"model", "ticketize", "work", "done"}
  /\ model \in Models /\ pending \subseteq AllPending(model) /\ (phase # "ticketize" => pending = {})
  /\ tickets \in Seq(Ticket) /\ resets \in 0..MaxResets /\ crashes \in 0..MaxCrashes

\* planning.ticketize is idempotent: no use case has two epics, no atom two
\* stories and no story two sets of subtasks, whenever it is killed and
\* however often it is run again over another model.
NoTwins ==
  \A type \in {"epic", "story", "subtask"} : \A i, j \in Having(type) :
    tickets[i].ref = tickets[j].ref => i = j

\* planning.ticketize: in WORK and after it every atom of the model has a
\* story with its signature, and a done one was finished for that signature.
DoneIsCurrent ==
  phase \in {"work", "done"} =>
    \A a \in DOMAIN model : \E i \in Of("story", a) :
      tickets[i].sig = model[a].sig /\ (tickets[i].status = "done" => tickets[i].built = model[a].sig)

\* release.judge: when it finds the scope met, every requirement reaches an
\* atom of the model as it is now whose story was finished for it, in spite of
\* the stories that atoms of earlier models have left behind.
ScopeMetIsBuilt ==
  phase \in {"work", "done"} /\ ScopeMet =>
    \A r \in DOMAIN Owners : \E a \in DOMAIN model :
      model[a].uc \in Owners[r] /\ \E i \in Of("story", a) : tickets[i].status = "done" /\ tickets[i].built = model[a].sig

\* README section 3 on the driver: the table says done of an atom exactly if
\* it has been built, as long as its story has not been reopened and the
\* tickets are those of the model.
TableRightAtFirst ==
  phase \in {"work", "done"} =>
    \A a \in DOMAIN model : \A i \in Of("story", a) :
      ~tickets[i].respec => (TableEntry(a).status = "done" <=> tickets[i].status = "done")

\* Every generation is worked off, unless an open story that has no subtasks
\* belongs to no atom any more.
Settles == <>[](phase = "done" \/ \E i \in Todo : Raises(i))
=============================================================================
