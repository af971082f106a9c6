------------------------- MODULE ModelRepair_proofs -------------------------
(***************************************************************************)
(* Proofs about ModelRepair, for every set of machines, tables and use     *)
(* cases, every limit, and any number of kills.                            *)
(*                                                                         *)
(* The first half is about FsmChecks, independent of any behaviour: its    *)
(* closures stop growing in time and hold what can be reached, and what    *)
(* validation, the ledger check and the check of conserved quantities find *)
(* nothing of.  The second half shows that MODEL hands on only what these  *)
(* found sound, and that the program it hands on stays within what they    *)
(* followed.  IInv adds to the properties: what is in memory and when it   *)
(* was validated (InMemory), how often a worker has been called (Counted), *)
(* where the program and the use case it is playing are (OnTrack), and     *)
(* where it can be while it holds credit (Credited).                       *)
(***************************************************************************)
EXTENDS ModelRepair, LeastElements, FiniteSetTheorems, SequenceTheorems, TLAPS

\* What is in memory is an answer; what has left the loop over structural defects
\* as a table had none, unless it was refined, and an FSM has none in the end.
InMemory ==
  /\ model # NoModel => model \in Answers
  /\ pc # "done" \/ form = "rules" => run = NoRun
  /\ pc = "done" => saved
  /\ pc = "done" /\ form = "fsm" => FsmDefects(model) = {}
  /\ pc \in {"simulate", "finish", "done"} /\ form = "rules" => refined \/ TableDefects(model) = {}

\* Each question has taken at most two calls, the open one at most one so far: those
\* of the first loop, and with them those of the second.
Counted ==
  /\ pc \notin Asking => unparsed = 0
  /\ pc \in {"off", "derive"} => attempt = 1 /\ calls <= unparsed
  /\ pc = "validate" => calls <= 2 * attempt
  /\ pc = "revise" => calls <= 2 * attempt + unparsed /\ attempt <= Limit
  /\ pc \in {"simulate", "refine"} =>
       IF form = "fsm" THEN calls <= 2 * (Limit + attempt) + unparsed /\ attempt <= Limit
                       ELSE calls <= 2 * (Limit + attempt) - 2 + unparsed
  /\ pc = "refine" => IF form = "fsm" THEN attempt < Limit ELSE attempt <= Limit
  /\ calls <= 4 * Limit

\* The program has played the first k events of the use case u.
HasPlayed(u, k) ==
  /\ u.events # << >>
  /\ run.case = [id |-> u.id, rest |-> run.case.rest]
  /\ run.case.rest \in Seq(Elements(u.events)) /\ Len(run.case.rest) = Len(u.events) - k
  /\ \A i \in 1..Len(run.case.rest) : run.case.rest[i] = u.events[k + i]
  /\ run.at \in After(model, u.events)[k]
  /\ \A n \in 1..k : After(model, u.events)[n] # {}

OnTrack ==
  pc = "done" /\ form = "fsm" =>
    /\ run = [at |-> run.at, credit |-> run.credit, loss |-> run.loss, case |-> run.case]
    /\ run.at \in Origins(model)
    /\ run.case # NoCase => \E u \in UseCases : \E k \in 0..Len(u.events) : HasPlayed(u, k)

\* A program that holds credit is where the checks have followed it.
Credited ==
  pc = "done" /\ form = "fsm" /\ run.credit > 0 /\ PlainGuards(model) =>
    /\ run.at \in StatesHolding(model, "credit")
    /\ NoQuietMove(model) => run.at \in CanHoldCredit(model) \/ Reported({"P2 abandoned"})

IInv == TypeOK /\ InMemory /\ Counted /\ OnTrack /\ Credited /\ LossIsReported

-----------------------------------------------------------------------------
(* What the checks compute.                                                *)

\* The image of a finite set is finite and no larger.
LEMMA FiniteImage ==
  ASSUME NEW S, IsFiniteSet(S), NEW f
  PROVE  IsFiniteSet({f[x] : x \in S}) /\ Cardinality({f[x] : x \in S}) <= Cardinality(S)
<1> DEFINE T == {f[x] : x \in S}
           g == [x \in S |-> f[x]]
<1>1. g \in Surjection(S, T)
  BY DEF Surjection
<1> HIDE DEF T, g
<1>2. IsFiniteSet(T) /\ Cardinality(T) <= Cardinality(S)
  BY <1>1, FS_Surjection
<1> QED
  BY <1>2 DEF T

\* r holds the rounds of a closure.
Rounds(r, edges, from, n) == r = [i \in 0..n |-> IF i = 0 THEN from ELSE Onward(edges, r[i-1])]

\* The rounds of a closure are well defined.
LEMMA RoundsExist ==
  ASSUME NEW edges, NEW from, NEW n \in Nat
  PROVE  \E r : Rounds(r, edges, from, n)
<1> DEFINE T == {k \in Nat : \E r : Rounds(r, edges, from, k)}
<1>1. 0 \in T
  <2> DEFINE r == [i \in 0..0 |-> from]
  <2>1. r = [i \in 0..0 |-> IF i = 0 THEN from ELSE Onward(edges, r[i-1])]
    OBVIOUS
  <2> QED
    BY <2>1 DEF Rounds
<1>2. ASSUME NEW k \in Nat, k \in T PROVE k + 1 \in T
  <2>1. PICK r : Rounds(r, edges, from, k)
    BY <1>2
  <2>2. r[0] = from /\ \A i \in 1..k : r[i] = Onward(edges, r[i-1])
    BY <2>1 DEF Rounds
  <2> DEFINE s == [i \in 0..(k+1) |-> IF i <= k THEN r[i] ELSE Onward(edges, r[k])]
  <2>3. s = [i \in 0..(k+1) |-> IF i = 0 THEN from ELSE Onward(edges, s[i-1])]
    <3>1. \A i \in 0..k : s[i] = r[i]
      OBVIOUS
    <3>2. s[k+1] = Onward(edges, r[k])
      OBVIOUS
    <3>3. s = [i \in 0..(k+1) |-> s[i]]
      OBVIOUS
    <3> HIDE DEF s
    <3>4. \A i \in 0..(k+1) : s[i] = IF i = 0 THEN from ELSE Onward(edges, s[i-1])
      <4> SUFFICES ASSUME NEW i \in 0..(k+1) PROVE s[i] = IF i = 0 THEN from ELSE Onward(edges, s[i-1])
        OBVIOUS
      <4>1. CASE i = 0
        BY <2>2, <3>1, <4>1
      <4>2. CASE i \in 1..k
        BY <2>2, <3>1, <4>2
      <4>3. CASE i = k + 1
        BY <3>1, <3>2, <4>3
      <4> QED
        BY <4>1, <4>2, <4>3
    <3> QED
      BY <3>3, <3>4
  <2>4. Rounds(s, edges, from, k + 1)
    BY <2>3 DEF Rounds
  <2> HIDE DEF s
  <2> QED
    BY <2>4
<1>3. Nat \subseteq T
  <2> HIDE DEF T
  <2> QED
    BY <1>1, <1>2, SetInduction
<1> QED
  BY <1>3

\* A closure is the last of its rounds.
LEMMA ClosureIsLast ==
  ASSUME NEW edges, NEW from, NEW n \in Nat
  PROVE  \E r : /\ r[0] = from /\ \A i \in Nat : i < n => r[i+1] = Onward(edges, r[i])
                /\ Closure(edges, from, n) = r[n]
<1> DEFINE r == CHOOSE r : Rounds(r, edges, from, n)
<1>1. Closure(edges, from, n) = r[n]
  BY DEF Closure, Rounds
<1>2. Rounds(r, edges, from, n)
  BY RoundsExist
<1> HIDE DEF r
<1>3. r[0] = from
  BY <1>2 DEF Rounds
<1>4. ASSUME NEW i \in Nat, i < n PROVE r[i+1] = Onward(edges, r[i])
  <2>1. i + 1 \in 0..n /\ i + 1 # 0 /\ (i + 1) - 1 = i
    BY <1>4
  <2>2. r[i+1] = Onward(edges, r[(i+1)-1])
    BY <1>2, <2>1 DEF Rounds
  <2> QED
    BY <2>1, <2>2
<1> QED
  BY <1>1, <1>3, <1>4

\* A closure starts from its set and stays within every set that the edges do not lead out of.
THEOREM ClosureWithin ==
  ASSUME NEW edges, NEW from, NEW n \in Nat,
         NEW C, from \subseteq C, \A t \in edges : t.src \in C => t.dst \in C
  PROVE  from \subseteq Closure(edges, from, n) /\ Closure(edges, from, n) \subseteq C
<1>1. PICK r : /\ r[0] = from /\ \A i \in Nat : i < n => r[i+1] = Onward(edges, r[i])
               /\ Closure(edges, from, n) = r[n]
  BY ClosureIsLast
<1> DEFINE T == {k \in Nat : k <= n => from \subseteq r[k] /\ r[k] \subseteq C}
<1>2. 0 \in T
  BY <1>1
<1>3. ASSUME NEW k \in Nat, k \in T PROVE k + 1 \in T
  <2>1. SUFFICES ASSUME k + 1 <= n PROVE from \subseteq r[k+1] /\ r[k+1] \subseteq C
    OBVIOUS
  <2>2. r[k+1] = Onward(edges, r[k]) /\ from \subseteq r[k] /\ r[k] \subseteq C
    BY <1>1, <1>3, <2>1
  <2> QED
    BY <2>2 DEF Onward
<1>4. n \in T
  <2> HIDE DEF T
  <2> QED
    BY <1>2, <1>3, SetInduction
<1> QED
  BY <1>1, <1>4

\* No edge of a finite sequence leads out of the closure of as many rounds: every
\* round before the last adds a state or none does any more.
THEOREM ClosureClosed ==
  ASSUME NEW seq, NEW n \in Nat, DOMAIN seq = 1..n,
         NEW edges, edges \subseteq Elements(seq), NEW from
  PROVE  \A t \in edges : t.src \in Closure(edges, from, n) => t.dst \in Closure(edges, from, n)
<1> DEFINE indices == {i \in 1..n : seq[i] \in edges}
           f == [i \in indices |-> seq[i].dst]
           added == {t.dst : t \in edges}
<1>1. IsFiniteSet(added) /\ Cardinality(added) <= n
  <2>1. IsFiniteSet(1..n) /\ Cardinality(1..n) = n
    BY FS_Interval
  <2>2. indices \in SUBSET (1..n)
    OBVIOUS
  <2>3. added = {f[i] : i \in indices}
    <3>1. \A t \in edges : \E i \in indices : t = seq[i] /\ t.dst = f[i]
      BY DEF Elements
    <3>2. \A i \in indices : seq[i] \in edges /\ seq[i].dst = f[i]
      OBVIOUS
    <3> HIDE DEF indices, f
    <3> QED
      BY <3>1, <3>2
  <2> HIDE DEF indices, f, added
  <2>4. IsFiniteSet(indices) /\ Cardinality(indices) <= n
    <3>1. IsFiniteSet(indices) /\ Cardinality(indices) <= Cardinality(1..n)
      BY <2>1, <2>2, FS_Subset, Zenon
    <3> QED
      BY <2>1, <3>1
  <2>5. IsFiniteSet(added) /\ Cardinality(added) <= Cardinality(indices)
    BY <2>3, <2>4, FiniteImage
  <2>6. Cardinality(added) \in Nat /\ Cardinality(indices) \in Nat
    BY <2>4, <2>5, FS_CardinalityType
  <2> QED
    BY <2>4, <2>5, <2>6
<1>2. PICK r : /\ r[0] = from /\ \A i \in Nat : i < n => r[i+1] = Onward(edges, r[i])
               /\ Closure(edges, from, n) = r[n]
  BY ClosureIsLast
<1> DEFINE fixed(k) == Onward(edges, r[k]) = r[k]
           grown(k) == Cardinality(r[k] \ from) >= k
           T == {k \in Nat : k <= n => r[k] \ from \subseteq added /\ from \subseteq r[k] /\ (fixed(k) \/ grown(k))}
\* A round that is not the last one has a new element.
<1>3. ASSUME NEW k \in Nat, r[k] \ from \subseteq added, from \subseteq r[k], ~fixed(k), grown(k),
             NEW s, s = Onward(edges, r[k])
      PROVE  s \ from \subseteq added /\ from \subseteq s /\ Cardinality(s \ from) >= k + 1
  <2>1. s \ from \subseteq added /\ r[k] \subseteq s
    BY <1>3 DEF Onward
  <2>2. PICK x \in s : x \notin r[k]
    BY <1>3, <2>1
  <2> DEFINE old == r[k] \ from
             new == s \ from
  <2>3. /\ IsFiniteSet(old) /\ IsFiniteSet(new)
    <3>1. old \in SUBSET added /\ new \in SUBSET added
      BY <1>3, <2>1
    <3> HIDE DEF old, new, added
    <3> QED
      BY <1>1, <3>1, FS_Subset
  <2>4. old \cup {x} \in SUBSET new /\ x \notin old
    BY <1>3, <2>1, <2>2
  <2>5. Cardinality(old) >= k
    BY <1>3
  <2> HIDE DEF old, new
  <2>6. Cardinality(old \cup {x}) = Cardinality(old) + 1
    BY <2>3, <2>4, FS_AddElement
  <2>7. Cardinality(old \cup {x}) <= Cardinality(new)
    BY <2>3, <2>4, FS_Subset
  <2>8. Cardinality(old) \in Nat /\ Cardinality(new) \in Nat
    BY <2>3, FS_CardinalityType
  <2>9. Cardinality(new) >= k + 1
    BY <2>5, <2>6, <2>7, <2>8
  <2> QED
    BY <1>3, <2>1, <2>9 DEF new
<1>4. 0 \in T
  <2>1. r[0] \ from = {}
    BY <1>2
  <2>2. Cardinality(r[0] \ from) = 0
    BY <2>1, FS_EmptySet
  <2>3. grown(0)
    BY <2>2
  <2>4. r[0] \ from \subseteq added /\ from \subseteq r[0]
    BY <1>2, <2>1
  <2> HIDE DEF fixed, grown, added
  <2> QED
    BY <2>3, <2>4
<1>5. ASSUME NEW k \in Nat, k \in T PROVE k + 1 \in T
  <2>1. SUFFICES ASSUME k + 1 <= n
        PROVE  r[k+1] \ from \subseteq added /\ from \subseteq r[k+1] /\ (fixed(k+1) \/ grown(k+1))
    OBVIOUS
  <2>2. /\ r[k+1] = Onward(edges, r[k])
        /\ r[k] \ from \subseteq added /\ from \subseteq r[k] /\ (fixed(k) \/ grown(k))
    BY <1>2, <1>5, <2>1
  <2>3. CASE fixed(k)
    <3>1. r[k+1] = r[k]
      BY <2>2, <2>3
    <3> QED
      BY <2>2, <2>3, <3>1
  <2>4. CASE ~fixed(k) /\ grown(k)
    BY <1>3, <2>2, <2>4
  <2> QED
    BY <2>2, <2>3, <2>4
<1>6. n \in T
  <2> HIDE DEF T
  <2> QED
    BY <1>4, <1>5, SetInduction
<1>7. fixed(n)
  <2>1. SUFFICES ASSUME ~fixed(n) PROVE FALSE
    OBVIOUS
  <2>2. r[n] \ from \subseteq added /\ from \subseteq r[n] /\ grown(n)
    BY <1>6, <2>1
  <2> DEFINE s == Onward(edges, r[n])
             new == s \ from
  <2>3. new \in SUBSET added /\ Cardinality(new) >= n + 1
    BY <1>3, <2>1, <2>2, ZenonT(30)
  <2> HIDE DEF new, added
  <2>4. Cardinality(new) <= Cardinality(added) /\ Cardinality(new) \in Nat /\ Cardinality(added) \in Nat
    BY <1>1, <2>3, FS_Subset, FS_CardinalityType
  <2> QED
    BY <1>1, <2>3, <2>4
<1> QED
  BY <1>2, <1>7 DEF Onward

-----------------------------------------------------------------------------
(* Validation.                                                             *)

\* FSM.validate finds nothing only in a sound machine: with the search for
\* unreachable states, which follows the transitions round by round, no set of
\* states that they do not lead out of leaves one out.
THEOREM NoDefectsIsSound ==
  ASSUME NEW m, IsFsm(m), FsmDefects(m) = {}
  PROVE  SoundFsm(m)
<1> DEFINE ts == Elements(m.transitions)
           n  == Len(m.transitions)
<1>1. DOMAIN m.transitions = 1..n /\ n \in Nat
  BY LenProperties DEF IsFsm
<1>2. m.named /\ Cardinality(m.initials) = 1 /\ Duplicates(m.transitions) = {} /\ Ambiguous(m) = {}
  BY DEF FsmDefects, When
<1>3. \A t \in ts : {t.src, t.dst} \subseteq m.states /\ t.event \in m.events
  BY <1>2 DEF FsmDefects
<1>4. m.initials # {} => m.states \subseteq Reached(m, {Initial(m)})
  BY <1>2 DEF FsmDefects
<1>5. m.states \subseteq m.finals \cup {t.src : t \in ts}
  BY <1>2 DEF FsmDefects
<1>6. PICK s \in m.states : m.initials = {s}
  <2>1. IsFiniteSet(m.initials)
    BY FS_Subset DEF IsFsm
  <2>2. \E s : m.initials = {s}
    BY <1>2, <2>1, FS_Singleton
  <2> QED
    BY <2>2 DEF IsFsm
<1>7. \A i, j \in DOMAIN m.transitions : i # j => m.transitions[i].id # m.transitions[j].id
  <2>1. \A i \in 1..n : \A j \in 1..(i-1) : m.transitions[i].id # m.transitions[j].id
    BY <1>1, <1>2 DEF Duplicates
  <2> QED
    BY <1>1, <2>1
<1>8. \A i, j \in DOMAIN m.transitions :
        i # j /\ m.transitions[i].src = m.transitions[j].src /\ m.transitions[i].event = m.transitions[j].event
          => m.transitions[i].guard \cup m.transitions[j].guard # {}
  <2> SUFFICES ASSUME NEW i \in DOMAIN m.transitions, NEW j \in DOMAIN m.transitions \ {i},
                      m.transitions[i].src = m.transitions[j].src, m.transitions[i].event = m.transitions[j].event,
                      m.transitions[i].guard = {}, m.transitions[j].guard = {}
               PROVE  FALSE
    OBVIOUS
  <2> DEFINE t == m.transitions[i]
  <2>1. <<t.src, t.event>> \in Ambiguous(m)
    BY DEF Ambiguous
  <2> QED
    BY <1>2, <2>1
<1>9. Reachable(m) = m.states
  <2>1. SUFFICES ASSUME NEW C \in SUBSET m.states, m.initials \subseteq C, \A t \in ts : t.src \in C => t.dst \in C
                 PROVE  m.states \subseteq C
    BY DEF Reachable
  <2>2. Initial(m) = s
    BY <1>6 DEF Initial
  <2>3. Reached(m, {s}) \subseteq C
    BY <1>1, <1>6, <2>1, ClosureWithin DEF Reached
  <2> QED
    BY <1>4, <1>6, <2>2, <2>3
<1>10. \A x \in m.states \ m.finals : \E t \in ts : t.src = x
  BY <1>5
<1> QED
  BY <1>2, <1>3, <1>6, <1>7, <1>8, <1>9, <1>10 DEF SoundFsm

LEMMA NoTableDefectsIsSound ==
  ASSUME NEW m, m.rules \in Seq(Elements(m.rules)), TableDefects(m) = {}
  PROVE  SoundTable(m)
<1> DEFINE n == Len(m.rules)
<1>1. DOMAIN m.rules = 1..n /\ n \in Nat
  BY LenProperties
<1>2. m.named /\ m.rules # << >> /\ Duplicates(m.rules) = {}
  BY DEF TableDefects, When
<1>3. \A r \in Elements(m.rules) : r.guard \cup r.action # {}
  BY <1>2 DEF TableDefects
<1>4. \A i, j \in DOMAIN m.rules : i # j => m.rules[i].id # m.rules[j].id
  <2>1. \A i \in 1..n : \A j \in 1..(i-1) : m.rules[i].id # m.rules[j].id
    BY <1>1, <1>2 DEF Duplicates
  <2> QED
    BY <1>1, <2>1
<1> QED
  BY <1>2, <1>3, <1>4 DEF SoundTable

-----------------------------------------------------------------------------
(* There are finitely many findings, so that they can be counted.          *)

LEMMA FiniteWithin ==
  ASSUME NEW S, IsFiniteSet(S), NEW f, NEW T, T \subseteq {f[x] : x \in S}
  PROVE  IsFiniteSet(T)
<1> DEFINE image == {f[x] : x \in S}
<1>1. IsFiniteSet(image)
  BY FiniteImage
<1>2. T \in SUBSET image
  OBVIOUS
<1> HIDE DEF image
<1> QED
  BY <1>1, <1>2, FS_Subset

LEMMA ElementsFinite ==
  ASSUME NEW seq, seq \in Seq(Elements(seq))
  PROVE  IsFiniteSet(Elements(seq))
<1>1. DOMAIN seq = 1..Len(seq) /\ Len(seq) \in Nat
  BY LenProperties
<1>2. IsFiniteSet(DOMAIN seq)
  BY <1>1, FS_Interval
<1>3. IsFiniteSet({seq[i] : i \in DOMAIN seq})
  BY <1>2, FiniteImage
<1> QED
  BY <1>3 DEF Elements

LEMMA ConservationFinite ==
  ASSUME NEW atoms, IsFiniteSet(atoms), NEW mayHold, \A c \in Declared : mayHold[c.lhs] \subseteq atoms
  PROVE  IsFiniteSet(Conservation(atoms, Declared, mayHold))
<1> DEFINE Missing(c) == ~({c.lhs} \cup c.rhs \subseteq Does(Words, UNION {t.action : t \in atoms}))
           Checked(c) == IF c.kind = "closed" THEN atoms ELSE mayHold[c.lhs]
           mistaken == {ForPeople("declaration", c.lhs) : c \in {c \in Declared : Missing(c)}}
           broken == UNION {{Finding("conservation", <<c.lhs, t.id>>) : t \in {t \in Checked(c) : Breaks(c, t)}}
                              : c \in {c \in Declared : ~Missing(c)}}
           pairs == Declared \X atoms
           f == [c \in Declared |-> ForPeople("declaration", c.lhs)]
           g == [p \in pairs |-> Finding("conservation", <<p[1].lhs, p[2].id>>)]
<1>1. Conservation(atoms, Declared, mayHold) = mistaken \cup broken
  BY DEF Conservation
<1>2. IsFiniteSet(mistaken)
  <2>1. mistaken \subseteq {f[c] : c \in Declared}
    BY Zenon
  <2> HIDE DEF mistaken, f
  <2> QED
    BY <2>1, DeclaredAssumption, FiniteWithin
<1>3. IsFiniteSet(broken)
  <2>1. IsFiniteSet(pairs)
    BY DeclaredAssumption, FS_Product
  <2>2. broken \subseteq {g[p] : p \in pairs}
    <3> SUFFICES ASSUME NEW x \in broken PROVE x \in {g[p] : p \in pairs}
      OBVIOUS
    <3>1. PICK c \in Declared : x \in {Finding("conservation", <<c.lhs, t.id>>) : t \in {t \in Checked(c) : Breaks(c, t)}}
      OBVIOUS
    <3>2. PICK t \in Checked(c) : x = Finding("conservation", <<c.lhs, t.id>>)
      BY <3>1
    <3>3. <<c, t>> \in pairs
      OBVIOUS
    <3>4. g[<<c, t>>] = Finding("conservation", <<c.lhs, t.id>>)
      BY <3>3
    <3> HIDE DEF pairs, g
    <3> QED
      BY <3>2, <3>3, <3>4
  <2> HIDE DEF broken, g, pairs
  <2> QED
    BY <2>1, <2>2, FiniteWithin
<1> HIDE DEF mistaken, broken
<1> QED
  BY <1>1, <1>2, <1>3, FS_Union

LEMMA UncoveredFinite ==
  ASSUME NEW atoms
  PROVE  IsFiniteSet({Finding("coverage", u) : u \in Uncovered(atoms, UseCases)})
<1> DEFINE T == {Finding("coverage", u) : u \in Uncovered(atoms, UseCases)}
           f == [u \in UseCases |-> Finding("coverage", u.id)]
<1>1. T \subseteq {f[u] : u \in UseCases}
  BY DEF Uncovered
<1> HIDE DEF T, f
<1>2. IsFiniteSet(T)
  BY <1>1, UseCasesAssumption, FiniteWithin
<1> QED
  BY <1>2 DEF T

LEMMA WhenFinite ==
  ASSUME NEW condition, NEW finding
  PROVE  IsFiniteSet(When(condition, finding))
BY FS_EmptySet, FS_Singleton DEF When

\* The findings of run_all on an FSM.
LEMMA FsmFindingsFinite ==
  ASSUME NEW m, IsFsm(m)
  PROVE  IsFiniteSet(FsmFindings(m, UseCases, Declared))
<1> DEFINE ts == Elements(m.transitions)
<1>1. IsFiniteSet(ts)
  BY ElementsFinite DEF IsFsm
<1>2. IsFiniteSet(RefundReachable(m))
  <2> DEFINE f == [t \in ts |-> Finding("P1", t.dst)]
  <2>1. RefundReachable(m) \subseteq {f[t] : t \in ts}
    BY DEF RefundReachable, Seeds, Adding
  <2> HIDE DEF f, ts
  <2> QED
    BY <1>1, <2>1, FiniteWithin
<1>3. IsFiniteSet(LedgerAdjustable(m))
  BY WhenFinite DEF LedgerAdjustable
<1>4. IsFiniteSet(FaultStopsSelling(m)) /\ IsFiniteSet({Finding("check error", "P4")})
  <2> DEFINE f == [t \in ts |-> Finding("P4", t.id)]
  <2>1. FaultStopsSelling(m) \subseteq {f[t] : t \in ts}
    BY DEF FaultStopsSelling
  <2> HIDE DEF f, ts
  <2>2. IsFiniteSet(FaultStopsSelling(m))
    BY <1>1, <2>1, FiniteWithin
  <2> QED
    BY <2>2, FS_Singleton
<1>5. IsFiniteSet(EveryTransitionPersists(m))
  <2> DEFINE f == [t \in ts |-> Finding("P5", t.id)]
  <2>1. EveryTransitionPersists(m) \subseteq {f[t] : t \in ts}
    BY DEF EveryTransitionPersists
  <2> HIDE DEF f, ts
  <2> QED
    BY <1>1, <2>1, FiniteWithin
<1>6. IsFiniteSet(LedgerBalance(m))
  <2> DEFINE f == [t \in ts |-> Finding("P2 lost", t.id)]
             g == [t \in ts |-> Finding("P2 unpaid", t.id)]
             h == [t \in ts |-> Finding("P2 abandoned", <<t.event, t.dst>>)]
             F == {f[t] : t \in ts}
             G == {g[t] : t \in ts}
             H == {h[t] : t \in ts}
  <2>1. LedgerBalance(m) \in SUBSET ((F \cup G) \cup H)
    BY DEF LedgerBalance
  <2>2. IsFiniteSet(F) /\ IsFiniteSet(G) /\ IsFiniteSet(H)
    <3> HIDE DEF ts, f, g, h
    <3> QED
      BY <1>1, FiniteImage
  <2> HIDE DEF F, G, H
  <2>3. IsFiniteSet((F \cup G) \cup H)
    BY <2>2, FS_Union
  <2> QED
    BY <2>1, <2>3, FS_Subset
<1>7. IsFiniteSet(StockBalance(m))
  <2> DEFINE f == [t \in ts |-> Finding("stock", t.id)]
  <2>1. StockBalance(m) \subseteq {f[t] : t \in ts}
    BY DEF StockBalance
  <2> HIDE DEF f, ts
  <2> QED
    BY <1>1, <2>1, FiniteWithin
<1>8. IsFiniteSet(Replay(m, UseCases))
  <2> DEFINE f == [u \in UseCases |-> Finding("replay", u.id)]
             F == {f[u] : u \in UseCases}
             G == {ForPeople("replay", "tags")}
  <2>1. Replay(m, UseCases) \in SUBSET (F \cup G)
    BY DEF Replay, When
  <2>2. IsFiniteSet(F)
    <3> HIDE DEF f
    <3> QED
      BY UseCasesAssumption, FiniteImage
  <2>3. IsFiniteSet(G)
    BY FS_Singleton
  <2> HIDE DEF F, G
  <2> QED
    BY <2>1, <2>2, <2>3, FS_Union, FS_Subset
<1>9. IsFiniteSet(Coverage(m, UseCases))
  <2> DEFINE f == [e \in m.events |-> Finding("coverage", e)]
             T == {Finding("coverage", e) : e \in m.events \ {t.event : t \in ts}}
  <2>1. T \subseteq {f[e] : e \in m.events}
    OBVIOUS
  <2>2. Coverage(m, UseCases) = {Finding("coverage", u) : u \in Uncovered(ts, UseCases)} \cup T
    BY DEF Coverage
  <2> HIDE DEF f, T
  <2>3. IsFiniteSet(T)
    BY <2>1, FiniteWithin DEF IsFsm
  <2> QED
    BY <2>2, <2>3, UncoveredFinite, FS_Union
<1>10. IsFiniteSet(FsmConservation(m, Declared))
  <2> DEFINE Leaving(states) == {t \in ts : t.src \in states}
             mayHold == [q \in Quantities(Declared) |-> Leaving(StatesHolding(m, q))]
  <2>1. \A c \in Declared : mayHold[c.lhs] \subseteq ts
    BY DEF Quantities
  <2>2. FsmConservation(m, Declared) = Conservation(ts, Declared, mayHold)
    BY DEF FsmConservation
  <2> HIDE DEF ts, mayHold
  <2> QED
    BY <1>1, <2>1, <2>2, ConservationFinite
<1> DEFINE fourth == IF m.named THEN FaultStopsSelling(m) ELSE {Finding("check error", "P4")}
<1>11. IsFiniteSet(fourth)
  BY <1>4
<1>12. FsmFindings(m, UseCases, Declared) =
         RefundReachable(m) \cup LedgerAdjustable(m) \cup fourth \cup EveryTransitionPersists(m)
         \cup LedgerBalance(m) \cup StockBalance(m) \cup Replay(m, UseCases) \cup Coverage(m, UseCases)
         \cup FsmConservation(m, Declared)
  BY DEF FsmFindings
<1> HIDE DEF fourth, ts
<1> QED
  BY <1>2, <1>3, <1>5, <1>6, <1>7, <1>8, <1>9, <1>10, <1>11, <1>12, FS_Union, Zenon

LEMMA TableFindingsFinite ==
  ASSUME NEW m, m.rules \in Seq(Elements(m.rules))
  PROVE  IsFiniteSet(TableFindings(m, UseCases, Declared))
<1> DEFINE rules == Elements(m.rules)
           mayHold == [q \in Quantities(Declared) |-> rules]
<1>1. IsFiniteSet(rules)
  BY ElementsFinite
<1>2. \A c \in Declared : mayHold[c.lhs] \subseteq rules
  BY DEF Quantities
<1>3. TableFindings(m, UseCases, Declared) =
        Conservation(rules, Declared, mayHold) \cup {Finding("coverage", u) : u \in Uncovered(rules, UseCases)}
  BY DEF TableFindings
<1> HIDE DEF rules, mayHold
<1> QED
  BY <1>1, <1>2, <1>3, ConservationFinite, UncoveredFinite, FS_Union, ZenonT(30)

-----------------------------------------------------------------------------
(* What simulation finds, and what a program can do.                       *)

\* r holds the states after each of the first n events of a use case.
Played(r, m, events, n) ==
  r = [i \in 0..n |->
        IF i = 0 THEN Origins(m)
        ELSE LET cur == r[i-1]
             IN  {t.dst : t \in {t \in Elements(m.transitions) : t.src \in cur /\ t.event = events[i]}}]

Onwards(m, cur, event) == {t.dst : t \in {t \in Elements(m.transitions) : t.src \in cur /\ t.event = event}}

LEMMA PlayedExist ==
  ASSUME NEW m, NEW events, NEW n \in Nat
  PROVE  \E r : Played(r, m, events, n)
<1> DEFINE T == {k \in Nat : \E r : Played(r, m, events, k)}
<1>0. \A r : \A k \in Nat : Played(r, m, events, k) <=>
        r = [i \in 0..k |-> IF i = 0 THEN Origins(m) ELSE Onwards(m, r[i-1], events[i])]
  BY DEF Played, Onwards
<1>1. 0 \in T
  <2> DEFINE r == [i \in 0..0 |-> Origins(m)]
  <2>1. r = [i \in 0..0 |-> IF i = 0 THEN Origins(m) ELSE Onwards(m, r[i-1], events[i])]
    OBVIOUS
  <2>2. Played(r, m, events, 0)
    BY <1>0, <2>1
  <2> HIDE DEF r
  <2> QED
    BY <2>2
<1>2. ASSUME NEW k \in Nat, k \in T PROVE k + 1 \in T
  <2>1. PICK r : Played(r, m, events, k)
    BY <1>2
  <2>2. r = [i \in 0..k |-> IF i = 0 THEN Origins(m) ELSE Onwards(m, r[i-1], events[i])]
    BY <1>0, <2>1
  <2>3. r[0] = Origins(m) /\ \A i \in 1..k : r[i] = Onwards(m, r[i-1], events[i])
    BY <2>2
  <2> DEFINE s == [i \in 0..(k+1) |-> IF i <= k THEN r[i] ELSE Onwards(m, r[k], events[k+1])]
  <2>4. (\A i \in 0..k : s[i] = r[i]) /\ s[k+1] = Onwards(m, r[k], events[k+1]) /\ s = [i \in 0..(k+1) |-> s[i]]
    OBVIOUS
  <2> HIDE DEF s
  <2>5. ASSUME NEW i \in 0..(k+1) PROVE s[i] = IF i = 0 THEN Origins(m) ELSE Onwards(m, s[i-1], events[i])
    <3>1. CASE i = 0
      BY <2>3, <2>4, <3>1, SMTT(30)
    <3>2. CASE i \in 1..k
      <4>1. i \in 0..k /\ i - 1 \in 0..k /\ i # 0
        BY <3>2
      <4>2. s[i] = r[i] /\ s[i-1] = r[i-1] /\ r[i] = Onwards(m, r[i-1], events[i])
        BY <2>3, <2>4, <3>2, <4>1
      <4> QED
        BY <4>1, <4>2
    <3>3. CASE i = k + 1
      BY <2>4, <3>3, SMTT(30)
    <3> QED
      BY <3>1, <3>2, <3>3
  <2>6. s = [i \in 0..(k+1) |-> IF i = 0 THEN Origins(m) ELSE Onwards(m, s[i-1], events[i])]
    BY <2>4, <2>5
  <2>7. Played(s, m, events, k + 1)
    BY <1>0, <2>6
  <2> QED
    BY <2>7
<1>3. Nat \subseteq T
  <2> HIDE DEF T
  <2> QED
    BY <1>1, <1>2, SetInduction
<1> QED
  BY <1>3

\* After computes what the events of a use case lead to, one after the other.
LEMMA AfterSteps ==
  ASSUME NEW m, NEW events, Len(events) \in Nat
  PROVE  /\ After(m, events)[0] = Origins(m)
         /\ \A i \in Nat : i < Len(events) => After(m, events)[i+1] = Onwards(m, After(m, events)[i], events[i+1])
<1> DEFINE n == Len(events)
           r == CHOOSE r : Played(r, m, events, n)
<1>1. After(m, events) = r
  BY DEF After, Played
<1>2. Played(r, m, events, n)
  BY PlayedExist
<1> HIDE DEF r
<1>3. r = [i \in 0..n |-> IF i = 0 THEN Origins(m) ELSE Onwards(m, r[i-1], events[i])]
  BY <1>2 DEF Played, Onwards
<1>4. r[0] = Origins(m)
  BY <1>3
<1>5. ASSUME NEW i \in Nat, i < n PROVE r[i+1] = Onwards(m, r[i], events[i+1])
  <2>1. i + 1 \in 0..n /\ i + 1 # 0 /\ (i + 1) - 1 = i
    BY <1>5
  <2>2. r[i+1] = Onwards(m, r[(i+1)-1], events[i+1])
    BY <1>3, <2>1
  <2> QED
    BY <2>1, <2>2
<1> QED
  BY <1>1, <1>4, <1>5

\* Every state the machine goes through is one that a use case may start in.
LEMMA OriginsClosed ==
  ASSUME NEW m, IsFsm(m), SoundFsm(m)
  PROVE  /\ Initial(m) \in Origins(m)
         /\ \A t \in Elements(m.transitions) : t.src \in Origins(m) => t.dst \in Origins(m)
<1> DEFINE ts == Elements(m.transitions)
           n == Len(m.transitions)
           C == {Initial(m)} \cup {t.dst : t \in ts}
<1>1. DOMAIN m.transitions = 1..n /\ n \in Nat
  BY LenProperties DEF IsFsm
<1>2. m.initials # {}
  BY DEF SoundFsm
<1>3. Origins(m) = Closure(ts, {Initial(m)}, n)
  BY <1>2 DEF Origins, Reached
<1>4. {Initial(m)} \subseteq Closure(ts, {Initial(m)}, n)
  <2>1. {Initial(m)} \subseteq C /\ \A t \in ts : t.src \in C => t.dst \in C
    OBVIOUS
  <2> HIDE DEF C, ts
  <2> QED
    BY <1>1, <2>1, ClosureWithin
<1>5. \A t \in ts : t.src \in Closure(ts, {Initial(m)}, n) => t.dst \in Closure(ts, {Initial(m)}, n)
  BY <1>1, ClosureClosed
<1> QED
  BY <1>3, <1>4, <1>5

\* Only the replay of use cases says "replay" in its findings.
LEMMA OnlyReplaySaysReplay ==
  ASSUME NEW m, NEW f \in FsmFindings(m, UseCases, Declared), f.check = "replay"
  PROVE  f \in Replay(m, UseCases)
<1>0. \A check, ref : Finding(check, ref).check = check /\ ForPeople(check, ref).check = check
  BY DEF Finding, ForPeople
<1>1. f \notin RefundReachable(m)
  <2>1. \A g \in RefundReachable(m) : \E x : g = Finding("P1", x)
    BY DEF RefundReachable
  <2> QED
    BY <1>0, <2>1
<1>2. f \notin LedgerAdjustable(m)
  BY <1>0 DEF LedgerAdjustable, When
<1>3. f \notin FaultStopsSelling(m) /\ f # Finding("check error", "P4")
  <2>1. \A g \in FaultStopsSelling(m) : \E x : g = Finding("P4", x)
    BY DEF FaultStopsSelling
  <2>2. f \notin FaultStopsSelling(m)
    BY <1>0, <2>1
  <2>3. f # Finding("check error", "P4")
    <3>1. Finding("check error", "P4").check = "check error"
      BY <1>0
    <3> QED
      BY <3>1
  <2> QED
    BY <2>2, <2>3
<1>4. f \notin EveryTransitionPersists(m)
  BY <1>0 DEF EveryTransitionPersists
<1>5. f \notin LedgerBalance(m)
  <2>1. \A g \in LedgerBalance(m) : \E x : g = Finding("P2 lost", x) \/ g = Finding("P2 unpaid", x) \/ g = Finding("P2 abandoned", x)
    BY DEF LedgerBalance
  <2>2. ASSUME NEW g \in LedgerBalance(m) PROVE g.check \in {"P2 lost", "P2 unpaid", "P2 abandoned"}
    <3>1. PICK x : g = Finding("P2 lost", x) \/ g = Finding("P2 unpaid", x) \/ g = Finding("P2 abandoned", x)
      BY <2>1
    <3> QED
      BY <1>0, <3>1
  <2> QED
    BY <2>2
<1>6. f \notin StockBalance(m)
  BY <1>0 DEF StockBalance
<1>7. f \notin Coverage(m, UseCases)
  BY <1>0 DEF Coverage
<1>8. f \notin FsmConservation(m, Declared)
  <2>1. \A g \in FsmConservation(m, Declared) : \E x : g = ForPeople("declaration", x) \/ g = Finding("conservation", x)
    BY DEF FsmConservation, Conservation
  <2>2. ASSUME NEW g \in FsmConservation(m, Declared) PROVE g.check \in {"declaration", "conservation"}
    <3>1. PICK x : g = ForPeople("declaration", x) \/ g = Finding("conservation", x)
      BY <2>1
    <3> QED
      BY <1>0, <3>1
  <2> QED
    BY <2>2
<1> QED
  BY <1>1, <1>2, <1>3, <1>4, <1>5, <1>6, <1>7, <1>8 DEF FsmFindings

\* A use case no step of which finds the machine stuck is not reported.
LEMMA PlayableIsNotReported ==
  ASSUME NEW m, NEW u \in UseCases, u.events # << >>,
         \A n \in DOMAIN u.events : After(m, u.events)[n] # {},
         NEW f \in FsmFindings(m, UseCases, Declared), f.check = "replay"
  PROVE  f.ref # u.id
<1>1. f \in Replay(m, UseCases)
  BY OnlyReplaySaysReplay
<1>2. PICK v \in UseCases : v.events # << >> /\ f = Finding("replay", v.id) /\ \E n \in DOMAIN v.events : After(m, v.events)[n] = {}
  BY <1>1 DEF Replay, When
<1>3. f.ref = v.id
  BY <1>2 DEF Finding
<1> QED
  BY <1>2, <1>3, UseCasesAssumption

-----------------------------------------------------------------------------
(* MODEL.                                                                  *)

USE LimitAssumption, BoundsAssumption

\* TypeOK in two parts: the flags and all else.
Flags == saved \in BOOLEAN /\ refined \in BOOLEAN

Ranges ==
  /\ form \in {"fsm", "rules"} /\ pc \in Places
  /\ attempt \in 1..(Limit + 1) /\ prev \in Nat /\ calls \in Nat /\ unparsed \in 0..1 /\ faults \in 0..MaxFaults
  /\ model = NoModel <=> pc \in {"off"} \cup Asking
  /\ run.credit \in 0..MaxCredit /\ run.case.id \in {u.id : u \in UseCases} \cup {NoCase.id}

\* The findings on what is in memory can be counted.
LEMMA FixableCounted ==
  ASSUME TypeOK, InMemory, model # NoModel
  PROVE  Cardinality(Fixable) \in Nat
<1>1. IsFiniteSet(Findings)
  BY FsmFindingsFinite, TableFindingsFinite, AnswersAssumption DEF InMemory, Answers, Findings, TypeOK
<1>2. Fixable \in SUBSET Findings
  BY DEF Fixable
<1> QED
  BY <1>1, <1>2, FS_Subset, FS_CardinalityType

LEMMA FlagsStep == Flags /\ [Next]_vars => Flags'
<1> SUFFICES ASSUME Flags, [Next]_vars PROVE Flags'
  OBVIOUS
<1> USE DEF Flags
<1>1. CASE Launch
  BY <1>1, Zenon DEF Launch, stage
<1>2. CASE Derive
  BY <1>2, Zenon DEF Derive, Answered
<1>3. CASE Validated
  BY <1>3, Zenon DEF Validated
<1>4. CASE AskToRevise
  BY <1>4, Zenon DEF AskToRevise
<1>5. CASE Revise
  BY <1>5, Zenon DEF Revise, Answered
<1>6. CASE RevisionsSpent
  BY <1>6, Zenon DEF RevisionsSpent, Leave
<1>7. CASE Simulated
  BY <1>7, Zenon DEF Simulated
<1>8. CASE AskToRefine
  BY <1>8, Zenon DEF AskToRefine
<1>9. CASE Refine
  BY <1>9, Zenon DEF Refine, Answered
<1>10. CASE Finish
  BY <1>10, Zenon DEF Finish, Leave, HandOn
<1>11. CASE Stop
  BY <1>11, Zenon DEF Stop, Leave
<1>12. CASE Running /\ \E i \in DOMAIN model.transitions : Fire(i)
  BY <1>12, Zenon DEF Fire, stage
<1>13. CASE \E u \in UseCases : TryUseCase(u)
  BY <1>13, Zenon DEF TryUseCase, stage
<1>14. CASE Over
  BY <1>14, Zenon DEF Over, vars, stage
<1>15. CASE UNCHANGED vars
  BY <1>15, Zenon DEF vars, stage
<1>16. CASE Unparsed
  BY <1>16, Zenon DEF Unparsed, Leave
<1> QED
  BY <1>1, <1>2, <1>3, <1>4, <1>5, <1>6, <1>7, <1>8, <1>9, <1>10, <1>11, <1>12, <1>13, <1>14, <1>15, <1>16 DEF Next, Working, Program

\* Every other variable keeps its type; the last findings are counted as there are
\* finitely many, and the attempts stay within the limit.
LEMMA RangesStep == TypeOK /\ InMemory /\ Counted /\ OnTrack /\ [Next]_vars => Ranges'
<1> SUFFICES ASSUME TypeOK, InMemory, Counted, OnTrack, [Next]_vars PROVE Ranges'
  OBVIOUS
<1> USE DEF TypeOK, Ranges, Counted, Places, Asking
<1>1. CASE Launch
  BY <1>1 DEF Launch, stage
<1>0. Answered => model' # NoModel /\ calls' = calls + 1 /\ unparsed' = 0 /\ UNCHANGED <<form, faults, run>>
  BY AnswersAssumption, Zenon DEF Answered, Answers
<1>2. CASE Derive
  BY <1>0, <1>2 DEF Derive
<1>3. CASE Validated
  BY <1>3 DEF Validated, ToSimulation
<1>4. CASE AskToRevise
  BY <1>4 DEF AskToRevise
<1>5. CASE Revise
  BY <1>0, <1>5 DEF Revise
<1>6. CASE RevisionsSpent
  BY <1>6 DEF RevisionsSpent, ToSimulation, Leave
<1>7. CASE Simulated
  BY <1>7 DEF Simulated
<1>8. CASE AskToRefine
  BY <1>8, FixableCounted DEF AskToRefine, NoRefinement
<1>9. CASE Refine
  BY <1>0, <1>9 DEF Refine
<1>10. CASE Finish
  <2>1. run' = run \/ run' = NoRun \/ run' = [NoRun EXCEPT !.at = Initial(model)]
    BY <1>10, Zenon DEF Finish, Leave, HandOn
  <2>2. run'.credit \in 0..MaxCredit /\ run'.case.id \in {u.id : u \in UseCases} \cup {NoCase.id}
    BY <2>1 DEF NoRun
  <2> QED
    BY <1>10, <2>2 DEF Finish, Leave, HandOn
<1>11. CASE Stop
  BY <1>11 DEF Stop, Leave
<1>12. CASE Running /\ \E i \in DOMAIN model.transitions : Fire(i)
  <2>1. PICK i \in DOMAIN model.transitions : Fire(i)
    BY <1>12
  <2>2. run'.credit \in 0..MaxCredit
    <3>1. CreditAfter(model.transitions[i]) \in Nat
      BY DEF CreditAfter, TypeOK
    <3> QED
      BY <2>1, <3>1 DEF Fire
  <2>3. run'.case.id \in {u.id : u \in UseCases} \cup {NoCase.id}
    <3> DEFINE t == model.transitions[i]
    <3>1. CASE run.case.rest # << >> /\ Head(run.case.rest) = t.event
      <4>1. run'.case = [run.case EXCEPT !.rest = Tail(@)]
        BY <2>1, <3>1 DEF Fire
      <4>2. \E u \in UseCases : run.case = [id |-> u.id, rest |-> run.case.rest]
        BY <1>12, <3>1 DEF OnTrack, HasPlayed, Running, NoCase
      <4>3. PICK u \in UseCases : run.case = [id |-> u.id, rest |-> run.case.rest]
        BY <4>2
      <4>4. run'.case.id = u.id
        BY <4>1, <4>3
      <4> QED
        BY <4>4
    <3>2. CASE ~(run.case.rest # << >> /\ Head(run.case.rest) = t.event)
      <4>1. run'.case = NoCase
        BY <2>1, <3>2 DEF Fire
      <4> QED
        BY <4>1 DEF NoCase
    <3> QED
      BY <3>1, <3>2
  <2> QED
    BY <2>1, <2>2, <2>3 DEF Fire, stage
<1>13. CASE \E u \in UseCases : TryUseCase(u)
  <2>1. PICK u \in UseCases : TryUseCase(u)
    BY <1>13
  <2>2. run = [at |-> run.at, credit |-> run.credit, loss |-> run.loss, case |-> run.case]
    BY <2>1 DEF TryUseCase, Running, OnTrack
  <2>3. run'.credit = run.credit /\ run'.case.id = u.id
    BY <2>1, <2>2 DEF TryUseCase
  <2> QED
    BY <2>1, <2>3 DEF TryUseCase, stage
<1>14. CASE Over
  BY <1>14 DEF Over, vars, stage
<1>15. CASE UNCHANGED vars
  BY <1>15 DEF vars, stage
<1>16. CASE Unparsed
  BY <1>16 DEF Unparsed, Leave
<1> QED
  BY <1>1, <1>2, <1>3, <1>4, <1>5, <1>6, <1>7, <1>8, <1>9, <1>10, <1>11, <1>12, <1>13, <1>14, <1>15, <1>16 DEF Next, Working, Program

\* What the phase has validated is what it hands on.
LEMMA InMemoryStep == TypeOK /\ InMemory /\ [Next]_vars => InMemory'
<1> SUFFICES ASSUME TypeOK, InMemory, [Next]_vars PROVE InMemory'
  OBVIOUS
<1> USE DEF TypeOK, InMemory, Places, Asking
<1>1. CASE Launch
  BY <1>1 DEF Launch, stage, Defects, Answers
<1>2. CASE Derive
  BY <1>2, AnswersAssumption DEF Derive, Answered, Answers, Defects
<1>3. CASE Validated
  BY <1>3 DEF Validated, ToSimulation, Defects, Answers
<1>4. CASE AskToRevise
  BY <1>4 DEF AskToRevise, Defects, Answers
<1>5. CASE Revise
  BY <1>5, AnswersAssumption DEF Revise, Answered, Answers, Defects
<1>6. CASE RevisionsSpent
  BY <1>6 DEF RevisionsSpent, ToSimulation, Leave, Defects, Answers
<1>7. CASE Simulated
  BY <1>7 DEF Simulated, Defects, Answers
<1>8. CASE AskToRefine
  BY <1>8, FixableCounted DEF AskToRefine, NoRefinement, Defects, Answers
<1>9. CASE Refine
  BY <1>9, AnswersAssumption DEF Refine, Answered, Answers, Defects
<1>10. CASE Finish
  BY <1>10 DEF Finish, Leave, HandOn, NoRun, NoCase, Defects, Answers
<1>11. CASE Stop
  BY <1>11 DEF Stop, Leave, Defects, Answers
<1>12. CASE Running /\ \E i \in DOMAIN model.transitions : Fire(i)
  <2>1. PICK i \in DOMAIN model.transitions : Fire(i)
    BY <1>12
  <2> QED
    BY <1>12, <2>1 DEF Fire, stage, Running, Answers
<1>13. CASE \E u \in UseCases : TryUseCase(u)
  BY <1>13 DEF TryUseCase, stage, Running, Answers
<1>14. CASE Over
  BY <1>14 DEF Over, vars, stage, Defects, Answers
<1>15. CASE UNCHANGED vars
  BY <1>15 DEF vars, stage, Defects, Answers
<1>16. CASE Unparsed
  BY <1>16 DEF Unparsed, Leave, Defects, Answers
<1> QED
  BY <1>1, <1>2, <1>3, <1>4, <1>5, <1>6, <1>7, <1>8, <1>9, <1>10, <1>11, <1>12, <1>13, <1>14, <1>15, <1>16 DEF Next, Working, Program

\* Each loop puts a question per attempt, and an FSM has one fewer in the second; a
\* question takes two calls at most.
LEMMA CountedStep == TypeOK /\ Counted /\ [Next]_vars => Counted'
<1> SUFFICES ASSUME TypeOK, Counted, [Next]_vars PROVE Counted'
  OBVIOUS
<1> USE DEF TypeOK, Counted, Places, Asking
<1>1. CASE Launch
  BY <1>1 DEF Launch, stage
<1>2. CASE Derive
  BY <1>2 DEF Derive, Answered
<1>3. CASE Validated
  BY <1>3 DEF Validated, ToSimulation
<1>4. CASE AskToRevise
  BY <1>4 DEF AskToRevise
<1>5. CASE Revise
  BY <1>5 DEF Revise, Answered
<1>6. CASE RevisionsSpent
  BY <1>6 DEF RevisionsSpent, ToSimulation, Leave
<1>7. CASE Simulated
  BY <1>7 DEF Simulated
<1>8. CASE AskToRefine
  BY <1>8 DEF AskToRefine, NoRefinement
<1>9. CASE Refine
  <2>1. /\ pc = "refine" /\ pc' = "simulate" /\ attempt' = attempt + 1 /\ form' = form
        /\ calls' = calls + 1 /\ unparsed' = 0
    BY <1>9 DEF Refine, Answered
  <2> QED
    BY <2>1
<1>10. CASE Finish
  BY <1>10 DEF Finish, Leave, HandOn
<1>11. CASE Stop
  BY <1>11 DEF Stop, Leave
<1>12. CASE Running /\ \E i \in DOMAIN model.transitions : Fire(i)
  <2>1. PICK i \in DOMAIN model.transitions : Fire(i)
    BY <1>12
  <2> QED
    BY <2>1 DEF Fire, stage, Running
<1>13. CASE \E u \in UseCases : TryUseCase(u)
  BY <1>13 DEF TryUseCase, stage, Running
<1>14. CASE Over
  BY <1>14 DEF Over, vars, stage
<1>15. CASE UNCHANGED vars
  BY <1>15 DEF vars, stage
<1>16. CASE Unparsed
  BY <1>16 DEF Unparsed, Leave
<1> QED
  BY <1>1, <1>2, <1>3, <1>4, <1>5, <1>6, <1>7, <1>8, <1>9, <1>10, <1>11, <1>12, <1>13, <1>14, <1>15, <1>16 DEF Next, Working, Program

-----------------------------------------------------------------------------
(* The program.                                                            *)

\* What fires is a transition of the sound machine that was handed on.
LEMMA FiringFacts ==
  ASSUME TypeOK, InMemory, NEW i \in DOMAIN model.transitions, Fire(i)
  PROVE  /\ pc = "done" /\ form = "fsm" /\ UNCHANGED <<form, pc, model>>
         /\ IsFsm(model) /\ SoundFsm(model)
         /\ model.transitions[i] \in Elements(model.transitions)
         /\ run.credit \in Nat /\ i # 0
         /\ Findings = FsmFindings(model, UseCases, Declared)
<1>1. pc = "done" /\ form = "fsm" /\ UNCHANGED <<form, pc, model>>
  BY DEF Fire, Running, stage
<1>2. model \in Fsms /\ FsmDefects(model) = {}
  BY <1>1 DEF InMemory, Answers, TypeOK, Asking
<1>3. IsFsm(model) /\ SoundFsm(model)
  BY <1>2, AnswersAssumption, NoDefectsIsSound
<1>4. i \in 1..Len(model.transitions)
  BY <1>3, LenProperties DEF IsFsm
<1> QED
  BY <1>1, <1>3, <1>4 DEF Elements, Findings, TypeOK

\* One more event of the use case has been played.
LEMMA PlaysOn ==
  ASSUME TypeOK, InMemory, OnTrack, NEW i \in DOMAIN model.transitions, Fire(i),
         run.case.rest # << >>, Head(run.case.rest) = model.transitions[i].event
  PROVE  \E u \in UseCases : \E k \in 0..Len(u.events) : HasPlayed(u, k)'
<1> DEFINE t == model.transitions[i]
           rest == run.case.rest
<1>0. /\ pc = "done" /\ form = "fsm" /\ UNCHANGED <<form, pc, model>> /\ t \in Elements(model.transitions)
  BY FiringFacts
<1>1. run.case # NoCase
  BY DEF NoCase
<1>2. PICK u \in UseCases : \E k \in 0..Len(u.events) : HasPlayed(u, k)
  BY <1>0, <1>1 DEF OnTrack
<1>3. PICK k \in 0..Len(u.events) : HasPlayed(u, k)
  BY <1>2
<1>4. Len(u.events) \in Nat
  BY UseCasesAssumption, LenProperties
<1>5. /\ rest \in Seq(Elements(u.events)) /\ Len(rest) = Len(u.events) - k
      /\ \A n \in 1..Len(rest) : rest[n] = u.events[k + n]
  BY <1>3 DEF HasPlayed
<1>6. Len(rest) \in Nat /\ Len(rest) # 0
  BY <1>5, EmptySeq, LenProperties
<1>7. /\ Head(rest) = rest[1] /\ Tail(rest) \in Seq(Elements(u.events)) /\ Len(Tail(rest)) = Len(rest) - 1
      /\ \A n \in 1..Len(Tail(rest)) : Tail(rest)[n] = rest[n + 1]
  <2>1. rest # << >> /\ rest \in Seq(Elements(u.events))
    BY <1>5
  <2> HIDE DEF rest
  <2>2. /\ Tail(rest) \in Seq(Elements(u.events)) /\ Len(Tail(rest)) = Len(rest) - 1
        /\ \A n \in 1..Len(Tail(rest)) : Tail(rest)[n] = rest[n + 1]
    BY <2>1, HeadTailProperties
  <2>3. Head(rest) = rest[1]
    BY <2>1
  <2> QED
    BY <2>2, <2>3
<1>8. run'.case = [id |-> u.id, rest |-> Tail(rest)] /\ run'.at = t.dst
  <2>1. run'.case = [run.case EXCEPT !.rest = Tail(rest)] /\ run'.at = t.dst
    BY DEF Fire
  <2>2. run.case = [id |-> u.id, rest |-> rest]
    BY <1>3 DEF HasPlayed
  <2>3. ASSUME NEW c, NEW x, NEW y, NEW z, c = [id |-> x, rest |-> y]
        PROVE  [c EXCEPT !.rest = z] = [id |-> x, rest |-> z]
    BY <2>3
  <2> HIDE DEF rest, t
  <2>4. [run.case EXCEPT !.rest = Tail(rest)] = [id |-> u.id, rest |-> Tail(rest)]
    BY <2>2, <2>3, ZenonT(30)
  <2> QED
    BY <2>1, <2>4
<1>9. t.dst \in After(model, u.events)[k+1]
  <2>1. After(model, u.events)[k+1] = Onwards(model, After(model, u.events)[k], u.events[k+1])
    <3>1. k \in Nat /\ k < Len(u.events)
      BY <1>4, <1>5, <1>6
    <3> QED
      BY <1>4, <3>1, AfterSteps
  <2>2. t.event = u.events[k+1]
    BY <1>5, <1>6, <1>7
  <2>3. t.src = run.at /\ run.at \in After(model, u.events)[k]
    BY <1>3 DEF Fire, HasPlayed
  <2> QED
    BY <1>0, <2>1, <2>2, <2>3 DEF Onwards
<1>10. \A n \in 1..(k+1) : After(model, u.events)[n] # {}
  <2>1. \A n \in 1..k : After(model, u.events)[n] # {}
    BY <1>3 DEF HasPlayed
  <2>2. \A n \in 1..(k+1) : n \in 1..k \/ n = k + 1
    BY <1>3
  <2>3. After(model, u.events)[k+1] # {}
    BY <1>9
  <2> QED
    BY <2>1, <2>2, <2>3
<1>11. k + 1 \in 0..Len(u.events)
  BY <1>4, <1>5, <1>6
<1> DEFINE rest2 == Tail(rest)
<1>12. /\ Len(rest2) = Len(u.events) - (k + 1)
       /\ \A n \in 1..Len(rest2) : rest2[n] = u.events[(k + 1) + n]
  <2>1. Len(rest2) = Len(rest) - 1 /\ \A n \in 1..Len(rest2) : rest2[n] = rest[n + 1]
    BY <1>7
  <2> HIDE DEF rest2, rest
  <2>2. ASSUME NEW n \in 1..Len(rest2) PROVE rest2[n] = u.events[(k + 1) + n]
    <3>1. n + 1 \in 1..Len(rest) /\ k + (n + 1) = (k + 1) + n
      BY <1>6, <2>1
    <3> QED
      BY <1>5, <2>1, <3>1
  <2> QED
    BY <1>4, <1>5, <2>1, <2>2, SMTT(30)
<1>13. u.events # << >>
  BY <1>3 DEF HasPlayed
<1>14. run'.case.rest = rest2 /\ run'.case = [id |-> u.id, rest |-> run'.case.rest]
  BY <1>8
<1> HIDE DEF rest2, rest
<1>15. HasPlayed(u, k + 1)'
  BY <1>0, <1>7, <1>8, <1>9, <1>10, <1>12, <1>13, <1>14 DEF HasPlayed, rest2
<1> QED
  BY <1>11, <1>15

LEMMA OnTrackStep ==
  ASSUME TypeOK, InMemory, OnTrack, [Next]_vars
  PROVE  OnTrack'
<1>1. CASE \/ Launch \/ Unparsed \/ Derive \/ Validated \/ AskToRevise \/ Revise \/ RevisionsSpent
          \/ Simulated \/ AskToRefine \/ Refine \/ Stop
  BY <1>1 DEF OnTrack, Launch, Asking, Unparsed, Derive, Validated, ToSimulation, AskToRevise, Revise,
              RevisionsSpent, Leave, Simulated, AskToRefine, Refine, Stop
<1>2. CASE Finish
  <2> SUFFICES ASSUME pc' = "done", form' = "fsm" PROVE OnTrack'
    BY DEF OnTrack
  <2>1. form = "fsm" /\ Defects = {} /\ HandOn /\ model' = model
    BY <1>2 DEF Finish, Leave, HandOn
  <2>2. model \in Fsms /\ FsmDefects(model) = {}
    BY <1>2, <2>1 DEF Finish, Defects, InMemory, Answers, TypeOK, Asking
  <2>3. Initial(model) \in Origins(model)
    BY <2>2, AnswersAssumption, NoDefectsIsSound, OriginsClosed
  <2>4. run' = [at |-> Initial(model), credit |-> 0, loss |-> 0, case |-> NoCase]
    BY <2>1 DEF HandOn, NoRun
  <2> QED
    BY <2>1, <2>3, <2>4 DEF OnTrack
<1>3. ASSUME NEW i \in DOMAIN model.transitions, Fire(i) PROVE OnTrack'
  <2> DEFINE t == model.transitions[i]
  <2>1. /\ pc = "done" /\ form = "fsm" /\ UNCHANGED <<form, pc, model>>
        /\ IsFsm(model) /\ SoundFsm(model) /\ t \in Elements(model.transitions)
    BY <1>3, FiringFacts
  <2>2. /\ run' = [at |-> run'.at, credit |-> run'.credit, loss |-> run'.loss, case |-> run'.case]
        /\ run'.at = t.dst /\ t.src = run.at
    BY <1>3 DEF Fire
  <2>3. run'.at \in Origins(model)
    BY <2>1, <2>2, OriginsClosed DEF OnTrack
  <2>4. CASE run.case.rest # << >> /\ Head(run.case.rest) = t.event
    BY <1>3, <2>1, <2>2, <2>3, <2>4, PlaysOn DEF OnTrack
  <2>5. CASE ~(run.case.rest # << >> /\ Head(run.case.rest) = t.event)
    <3>1. run'.case = NoCase
      BY <1>3, <2>5 DEF Fire
    <3> QED
      BY <2>1, <2>2, <2>3, <3>1 DEF OnTrack
  <2> QED
    BY <2>4, <2>5
<1>4. ASSUME NEW u \in UseCases, TryUseCase(u) PROVE OnTrack'
  <2>1. pc = "done" /\ form = "fsm" /\ UNCHANGED <<form, pc, model>> /\ u.events # << >>
    BY <1>4 DEF TryUseCase, Running, stage
  <2>2. run = [at |-> run.at, credit |-> run.credit, loss |-> run.loss, case |-> run.case] /\ run.at \in Origins(model)
    BY <2>1 DEF OnTrack
  <2>3. /\ run' = [at |-> run'.at, credit |-> run'.credit, loss |-> run'.loss, case |-> run'.case]
        /\ run'.at = run.at /\ run'.case = [id |-> u.id, rest |-> u.events]
    BY <1>4, <2>2 DEF TryUseCase
  <2>4. Len(u.events) \in Nat /\ u.events \in Seq(Elements(u.events))
    BY UseCasesAssumption, LenProperties
  <2>5. run.at \in After(model, u.events)[0]
    BY <2>2, <2>4, AfterSteps
  <2>6. HasPlayed(u, 0)'
    BY <2>1, <2>3, <2>4, <2>5 DEF HasPlayed
  <2>7. 0 \in 0..Len(u.events)
    BY <2>4
  <2> QED
    BY <2>1, <2>2, <2>3, <2>6, <2>7 DEF OnTrack
<1>5. CASE Over \/ UNCHANGED vars
  <2>1. UNCHANGED <<form, pc, model, run>>
    BY <1>5 DEF Over, vars, stage
  <2>2. \A u, k : HasPlayed(u, k)' <=> HasPlayed(u, k)
    BY <2>1 DEF HasPlayed
  <2> QED
    BY <2>1, <2>2 DEF OnTrack
<1> QED
  BY <1>1, <1>2, <1>3, <1>4, <1>5 DEF Next, Working, Program

\* Where credit goes, the closures over the transitions that carry it on follow.
LEMMA CreditIsFollowed ==
  ASSUME NEW m, IsFsm(m), NEW t \in Elements(m.transitions)
  PROVE  /\ "insert" \in t.action => t.dst \in StatesHolding(m, "credit") /\ t.dst \in CanHoldCredit(m)
         /\ CarriesOn(t, "credit") /\ t.src \in StatesHolding(m, "credit") => t.dst \in StatesHolding(m, "credit")
         /\ CarriesOn(t, "credit") /\ t.src \in CanHoldCredit(m) /\ t.dst \in CreditAware(m)
              => t.dst \in CanHoldCredit(m)
<1> DEFINE ts == Elements(m.transitions)
           n == Len(m.transitions)
           carrying == {u \in ts : CarriesOn(u, "credit")}
           spreading == {u \in ts : u.dst \in CreditAware(m) /\ CarriesOn(u, "credit")}
           seeds == Seeds(m, "credit")
           C == seeds \cup {u.dst : u \in ts}
<1>1. DOMAIN m.transitions = 1..n /\ n \in Nat
  BY LenProperties DEF IsFsm
<1>2. carrying \subseteq ts /\ spreading \subseteq ts
  OBVIOUS
<1>3. StatesHolding(m, "credit") = Closure(carrying, seeds, n) /\ CanHoldCredit(m) = Closure(spreading, seeds, n)
  BY DEF StatesHolding, CanHoldCredit
<1>4. "insert" \in t.action => t.dst \in seeds
  <2>1. <<"insert", "credit">> \in Plus
    BY DEF Plus
  <2> QED
    BY <2>1 DEF Seeds, Adding, Does
<1>5. seeds \subseteq C /\ (\A u \in carrying : u.dst \in C) /\ (\A u \in spreading : u.dst \in C)
  OBVIOUS
<1>6. /\ CarriesOn(t, "credit") => t \in carrying
      /\ CarriesOn(t, "credit") /\ t.dst \in CreditAware(m) => t \in spreading
  OBVIOUS
<1> HIDE DEF carrying, spreading, seeds, C, ts, n
<1>7. seeds \subseteq Closure(carrying, seeds, n) /\ seeds \subseteq Closure(spreading, seeds, n)
  BY <1>1, <1>5, ClosureWithin
<1>8. /\ \A u \in carrying : u.src \in Closure(carrying, seeds, n) => u.dst \in Closure(carrying, seeds, n)
      /\ \A u \in spreading : u.src \in Closure(spreading, seeds, n) => u.dst \in Closure(spreading, seeds, n)
  BY <1>1, <1>2, ClosureClosed DEF ts
<1> QED
  BY <1>3, <1>4, <1>6, <1>7, <1>8

\* With plain guards a transition that fires while there is credit is not one whose
\* guard pins it to zero.
LEMMA GuardIsPlain ==
  ASSUME NEW m, PlainGuards(m), NEW t \in Elements(m.transitions), Holds(t), run.credit # 0
  PROVE  ~PinsZero(t.guard, "credit")
BY DEF PlainGuards, Holds, PinsZero

LEMMA CreditedStep ==
  ASSUME TypeOK, InMemory, OnTrack, Credited, [Next]_vars
  PROVE  Credited'
<1>1. CASE \/ Launch \/ Unparsed \/ Derive \/ Validated \/ AskToRevise \/ Revise \/ RevisionsSpent
          \/ Simulated \/ AskToRefine \/ Refine \/ Stop
  BY <1>1 DEF Credited, Launch, Asking, Unparsed, Derive, Validated, ToSimulation, AskToRevise, Revise,
              RevisionsSpent, Leave, Simulated, AskToRefine, Refine, Stop
<1>2. CASE Finish
  <2>1. pc' = "done" => run'.credit = 0
    BY <1>2 DEF Finish, Leave, HandOn, NoRun
  <2>2. pc' = "done" => ~(run'.credit > 0)
    BY <2>1
  <2> QED
    BY <2>2 DEF Credited
<1>3. ASSUME NEW i \in DOMAIN model.transitions, Fire(i) PROVE Credited'
  <2> DEFINE t == model.transitions[i]
  <2>1. /\ pc = "done" /\ form = "fsm" /\ UNCHANGED <<form, pc, model>>
        /\ IsFsm(model) /\ t \in Elements(model.transitions) /\ run.credit \in Nat
    BY <1>3, FiringFacts
  <2>2. t.src = run.at /\ Holds(t) /\ run'.at = t.dst /\ run'.credit = CreditAfter(t)
    BY <1>3 DEF Fire
  <2>3. \A checks : Reported(checks)' <=> Reported(checks)
    BY <2>1 DEF Reported, Findings
  <2> SUFFICES ASSUME run'.credit > 0, PlainGuards(model)
               PROVE  /\ t.dst \in StatesHolding(model, "credit")
                      /\ NoQuietMove(model) => t.dst \in CanHoldCredit(model) \/ Reported({"P2 abandoned"})
    BY <2>1, <2>2, <2>3 DEF Credited
  <2>4. CASE "insert" \in t.action
    BY <2>1, <2>4, CreditIsFollowed
  <2>5. CASE "insert" \notin t.action
    <3>1. "zero" \notin t.action /\ run.credit > 0
      BY <2>1, <2>2, <2>5 DEF CreditAfter
    <3>2. ~PinsZero(t.guard, "credit")
      BY <2>1, <2>2, <3>1, GuardIsPlain
    <3>3. CarriesOn(t, "credit")
      BY <3>1, <3>2 DEF CarriesOn, Does, Clear
    <3>4. /\ t.src \in StatesHolding(model, "credit")
          /\ NoQuietMove(model) => t.src \in CanHoldCredit(model) \/ Reported({"P2 abandoned"})
      BY <2>1, <2>2, <3>1 DEF Credited
    <3>5. ASSUME NoQuietMove(model), t.src \in CanHoldCredit(model), t.dst \notin CanHoldCredit(model)
          PROVE  Reported({"P2 abandoned"})
      <4>1. t.dst \notin CreditAware(model)
        BY <2>1, <3>3, <3>5, CreditIsFollowed
      <4>2. t.action \cap {"refund", "change", "sale", "carry", "zero", "deduct"} = {}
        BY <2>1, <3>5, <4>1 DEF NoQuietMove
      <4>3. Finding("P2 abandoned", <<t.event, t.dst>>) \in LedgerBalance(model)
        BY <2>1, <3>2, <3>5, <4>1, <4>2 DEF LedgerBalance
      <4>4. Finding("P2 abandoned", <<t.event, t.dst>>) \in Findings
        BY <2>1, <4>3 DEF Findings, FsmFindings
      <4> QED
        BY <4>4 DEF Reported, Finding
    <3> QED
      BY <2>1, <3>3, <3>4, <3>5, CreditIsFollowed
  <2> QED
    BY <2>4, <2>5
<1>4. ASSUME NEW u \in UseCases, TryUseCase(u) PROVE Credited'
  <2>1. pc = "done" /\ form = "fsm" /\ UNCHANGED <<form, pc, model>>
    BY <1>4 DEF TryUseCase, Running, stage
  <2>2. run = [at |-> run.at, credit |-> run.credit, loss |-> run.loss, case |-> run.case]
    BY <2>1 DEF OnTrack
  <2>3. run'.at = run.at /\ run'.credit = run.credit
    BY <1>4, <2>2 DEF TryUseCase
  <2> QED
    BY <2>1, <2>3 DEF Credited, Reported, Findings
<1>5. CASE Over \/ UNCHANGED vars
  BY <1>5 DEF Credited, Reported, Findings, Over, vars, stage
<1> QED
  BY <1>1, <1>2, <1>3, <1>4, <1>5 DEF Next, Working, Program

-----------------------------------------------------------------------------
(* The theorems.                                                           *)

\* The transition that has just lost credit is the one the check of conserved
\* quantities reports, and the ledger check reports it as lost.
LEMMA LossStep ==
  ASSUME TypeOK, InMemory, Credited, NEW i \in DOMAIN model.transitions, Fire(i),
         Loses(model.transitions[i]), PlainGuards(model)
  PROVE  LET t == model.transitions[i] IN
         /\ "change" \notin t.action =>
              \A c \in Declared : c.kind = "open" /\ c.lhs = "credit" /\ c.rhs \subseteq {"sales", "deposit", "refund"} =>
                \/ Reported({"declaration"})
                \/ \E f \in Findings : f.check = "conservation" /\ f.ref = <<"credit", t.id>>
         /\ "zero" \in t.action /\ NoQuietMove(model) => Reported({"P2 lost", "P2 abandoned"})
<1> DEFINE t == model.transitions[i]
           ts == Elements(model.transitions)
<1>1. /\ pc = "done" /\ form = "fsm" /\ t \in ts /\ run.credit \in Nat
      /\ Findings = FsmFindings(model, UseCases, Declared)
  BY FiringFacts
<1>2. t.src = run.at /\ Holds(t)
  BY DEF Fire
<1>3. /\ run.credit > 0 /\ ("zero" \in t.action \/ "deduct" \in t.action)
      /\ t.action \cap {"refund", "sale", "carry"} = {}
  BY <1>1 DEF Loses, CreditAfter
<1>4. ~PinsZero(t.guard, "credit")
  BY <1>1, <1>2, <1>3, GuardIsPlain
<1>5. ASSUME NEW c \in Declared, c.kind = "open", c.lhs = "credit", c.rhs \subseteq {"sales", "deposit", "refund"},
             "change" \notin t.action
      PROVE  \/ Reported({"declaration"})
             \/ \E f \in Findings : f.check = "conservation" /\ f.ref = <<"credit", t.id>>
  <2> DEFINE Leaving(states) == {u \in ts : u.src \in states}
             mayHold == [q \in Quantities(Declared) |-> Leaving(StatesHolding(model, q))]
             missing == ~({c.lhs} \cup c.rhs \subseteq Does(Words, UNION {u.action : u \in ts}))
  <2>1. FsmConservation(model, Declared) = Conservation(ts, Declared, mayHold)
    BY DEF FsmConservation
  <2>2. FsmConservation(model, Declared) \subseteq Findings
    BY <1>1 DEF FsmFindings
  <2>3. CASE missing
    <3>1. ForPeople("declaration", c.lhs) \in Conservation(ts, Declared, mayHold)
      BY <2>3 DEF Conservation
    <3> QED
      BY <2>1, <2>2, <3>1 DEF Reported, ForPeople
  <2>4. CASE ~missing
    <3>1. t \in mayHold["credit"]
      BY <1>1, <1>2, <1>3, <1>5 DEF Quantities, Credited
    <3>2. "credit" \in Does(Minus \cup Clear, t.action)
      <4>1. <<"deduct", "credit">> \in Minus \cup Clear /\ <<"zero", "credit">> \in Minus \cup Clear
        BY DEF Minus, Clear
      <4> QED
        BY <1>3, <4>1 DEF Does
    <3>3. c.rhs \cap Does(Moves \cup Call, t.action) = {}
      BY <1>3, <1>5 DEF Does, Moves, Plus, Minus, Clear, Call
    <3>4. Breaks(c, t)
      BY <1>4, <1>5, <3>2, <3>3 DEF Breaks
    <3>5. Finding("conservation", <<c.lhs, t.id>>) \in Conservation(ts, Declared, mayHold)
      <4> DEFINE Missing(d) == ~({d.lhs} \cup d.rhs \subseteq Does(Words, UNION {u.action : u \in ts}))
                 Checked(d) == IF d.kind = "closed" THEN ts ELSE mayHold[d.lhs]
                 broken(d) == {Finding("conservation", <<d.lhs, u.id>>) : u \in {u \in Checked(d) : Breaks(d, u)}}
      <4>1. UNION {broken(d) : d \in {d \in Declared : ~Missing(d)}} \subseteq Conservation(ts, Declared, mayHold)
        BY DEF Conservation
      <4>2. t \in Checked(c)
        BY <1>5, <3>1
      <4>3. Finding("conservation", <<c.lhs, t.id>>) \in broken(c)
        <5> HIDE DEF Checked, t
        <5> QED
          BY <3>4, <4>2
      <4>4. c \in {d \in Declared : ~Missing(d)}
        BY <2>4
      <4> HIDE DEF broken, Missing
      <4> QED
        BY <4>1, <4>3, <4>4
    <3> QED
      BY <1>5, <2>1, <2>2, <3>5 DEF Finding
  <2> QED
    BY <2>3, <2>4
<1>6. ASSUME "zero" \in t.action, NoQuietMove(model)
      PROVE  Reported({"P2 lost", "P2 abandoned"})
  <2>1. CASE t.src \in CanHoldCredit(model)
    <3>1. "credit" \in Does(Clear, t.action)
      <4>1. <<"zero", "credit">> \in Clear
        BY DEF Clear
      <4> QED
        BY <1>6, <4>1 DEF Does
    <3>2. Finding("P2 lost", t.id) \in LedgerBalance(model)
      BY <1>1, <1>3, <1>4, <2>1, <3>1 DEF LedgerBalance
    <3>3. Finding("P2 lost", t.id) \in Findings
      BY <1>1, <3>2 DEF FsmFindings
    <3> QED
      BY <3>3 DEF Reported, Finding
  <2>2. CASE Reported({"P2 abandoned"})
    BY <2>2 DEF Reported
  <2> QED
    BY <1>1, <1>2, <1>3, <1>6, <2>1, <2>2 DEF Credited
<1> QED
  BY <1>5, <1>6

LEMMA LossIsReportedStep ==
  ASSUME TypeOK, InMemory, OnTrack, Credited, LossIsReported, [Next]_vars
  PROVE  LossIsReported'
<1>1. CASE \/ Launch \/ Unparsed \/ Derive \/ Validated \/ AskToRevise \/ Revise \/ RevisionsSpent
          \/ Simulated \/ AskToRefine \/ Refine \/ Stop
  <2>1. run'.loss = 0
    BY <1>1 DEF InMemory, NoRun, Launch, Asking, Unparsed, Derive, Validated, ToSimulation, AskToRevise, Revise,
                RevisionsSpent, Answered, Simulated, AskToRefine, Refine, Stop
  <2> QED
    BY <2>1 DEF LossIsReported
<1>2. CASE Finish
  <2>1. run = NoRun
    BY <1>2 DEF Finish, InMemory
  <2>2. run'.loss = 0
    BY <1>2, <2>1 DEF Finish, HandOn, NoRun
  <2> QED
    BY <2>2 DEF LossIsReported
<1>3. ASSUME NEW i \in DOMAIN model.transitions, Fire(i) PROVE LossIsReported'
  <2>1. UNCHANGED <<form, pc, model>> /\ i # 0
    BY <1>3, FiringFacts
  <2>2. Findings' = Findings /\ \A checks : Reported(checks)' <=> Reported(checks)
    BY <2>1 DEF Reported, Findings
  <2>3. run'.loss = IF Loses(model.transitions[i]) THEN i ELSE 0
    BY <1>3 DEF Fire
  <2>4. CASE Loses(model.transitions[i]) /\ PlainGuards(model)
    BY <1>3, <2>1, <2>2, <2>3, <2>4, LossStep DEF LossIsReported
  <2>5. CASE ~Loses(model.transitions[i]) \/ ~PlainGuards(model)
    BY <2>1, <2>3, <2>5 DEF LossIsReported
  <2> QED
    BY <2>4, <2>5
<1>4. ASSUME NEW u \in UseCases, TryUseCase(u) PROVE LossIsReported'
  <2>1. run = [at |-> run.at, credit |-> run.credit, loss |-> run.loss, case |-> run.case]
    BY <1>4 DEF TryUseCase, Running, OnTrack
  <2>2. run'.loss = 0
    BY <1>4, <2>1 DEF TryUseCase
  <2> QED
    BY <2>2 DEF LossIsReported
<1>5. CASE Over \/ UNCHANGED vars
  BY <1>5 DEF LossIsReported, Reported, Findings, Over, vars, stage
<1> QED
  BY <1>1, <1>2, <1>3, <1>4, <1>5 DEF Next, Working, Program

\* What MODEL hands on and where the program it describes can be: all that the
\* properties of ModelRepair rest on.
THEOREM Invariant == Spec => []IInv
<1>1. Init => IInv
  <2> SUFFICES ASSUME Init PROVE IInv
    OBVIOUS
  <2>1. Flags
    BY Zenon DEF Init, Flags
  <2>2. Ranges
    BY DEF Init, Ranges, Places, Asking, NoRun, NoCase
  <2>3. TypeOK
    BY <2>1, <2>2, Zenon DEF TypeOK, Flags, Ranges
  <2>4. InMemory /\ OnTrack /\ Credited
    BY DEF Init, InMemory, OnTrack, Credited
  <2>5. Counted
    BY DEF Init, Counted, Asking
  <2>6. LossIsReported
    BY DEF Init, NoRun, LossIsReported
  <2> QED
    BY <2>3, <2>4, <2>5, <2>6 DEF IInv
<1>2. IInv /\ [Next]_vars => IInv'
  <2> SUFFICES ASSUME IInv, [Next]_vars PROVE IInv'
    OBVIOUS
  <2>1. TypeOK /\ InMemory /\ Counted /\ OnTrack /\ Credited /\ LossIsReported
    BY DEF IInv
  <2>2. Flags
    BY <2>1, Zenon DEF TypeOK, Flags
  <2>3. Flags' /\ Ranges'
    BY <2>1, <2>2, FlagsStep, RangesStep
  <2>4. TypeOK'
    BY <2>3, Zenon DEF TypeOK, Flags, Ranges
  <2> QED
    BY <2>1, <2>4, InMemoryStep, CountedStep, OnTrackStep, CreditedStep, LossIsReportedStep DEF IInv
<1> QED
  BY <1>1, <1>2, PTL DEF Spec

\* Every variable has its type, the attempts are within the limit, and the findings
\* that are counted are finitely many.
THEOREM TypeCorrect == Spec => []TypeOK
BY Invariant, PTL DEF IInv

\* What MODEL hands on is saved; an FSM is sound, whatever simulation had it refined
\* to, and so is a table that was not refined.
THEOREM HandsOnSound == Spec => []HandedOnIsSound
<1>1. IInv => HandedOnIsSound
  <2> SUFFICES ASSUME IInv, pc = "done"
               PROVE  saved /\ IF form = "fsm" THEN SoundFsm(model) ELSE refined \/ SoundTable(model)
    BY DEF HandedOnIsSound
  <2>1. model # NoModel /\ form \in {"fsm", "rules"}
    BY DEF IInv, TypeOK, Asking
  <2>2. CASE form = "fsm"
    BY <2>1, <2>2, NoDefectsIsSound, AnswersAssumption DEF IInv, InMemory, Answers
  <2>3. CASE form = "rules"
    BY <2>1, <2>3, NoTableDefectsIsSound, AnswersAssumption DEF IInv, InMemory, Answers
  <2> QED
    BY <2>1, <2>2, <2>3
<1> QED
  BY <1>1, Invariant, PTL

\* A run of MODEL calls a worker at most four times as often as the limit says,
\* second askings for unparsable answers included: the part of EndsInBudget that is
\* not about it ending.
THEOREM CallsWithinBudget == Spec => [](calls <= 4 * Limit)
BY Invariant, PTL DEF IInv, Counted

\* A program that loses credit had that reported by simulation.
THEOREM LossesAreReported == Spec => []LossIsReported
BY Invariant, PTL DEF IInv

\* No use case the program has played to its end is reported as one it cannot play.
THEOREM PlayableIsPassed == Spec => []PlayedIsNotReported
<1>1. IInv => PlayedIsNotReported
  <2> SUFFICES ASSUME IInv, run.case # NoCase, run.case.rest = << >>,
                      NEW f \in Findings, f.check = "replay"
               PROVE  f.ref # run.case.id
    BY DEF PlayedIsNotReported
  <2>1. pc = "done" /\ form = "fsm"
    BY DEF IInv, TypeOK, InMemory, NoRun
  <2>2. PICK u \in UseCases : \E k \in 0..Len(u.events) : HasPlayed(u, k)
    BY <2>1 DEF IInv, OnTrack
  <2>3. PICK k \in 0..Len(u.events) : HasPlayed(u, k)
    BY <2>2
  <2>4. DOMAIN u.events = 1..Len(u.events) /\ Len(u.events) \in Nat
    BY UseCasesAssumption, LenProperties
  <2>5. Len(run.case.rest) = 0 /\ Len(run.case.rest) = Len(u.events) - k
    BY <2>3, EmptySeq DEF HasPlayed
  <2>6. k = Len(u.events)
    BY <2>4, <2>5
  <2>7. u.events # << >> /\ \A n \in DOMAIN u.events : After(model, u.events)[n] # {}
    BY <2>3, <2>4, <2>6 DEF HasPlayed
  <2>8. f \in FsmFindings(model, UseCases, Declared)
    BY <2>1 DEF Findings
  <2>9. run.case.id = u.id
    BY <2>3 DEF HasPlayed
  <2> QED
    BY <2>7, <2>8, <2>9, PlayableIsNotReported
<1> QED
  BY <1>1, Invariant, PTL
=============================================================================
