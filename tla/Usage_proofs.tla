---------------------------- MODULE Usage_proofs ----------------------------
(***************************************************************************)
(* Proofs about Usage, for any finite set of handler threads, any requests *)
(* and sessions, and every bound.                                          *)
(*                                                                         *)
(* IInv adds to the properties: the types of what is in memory, in the     *)
(* cache and in each thread (Typed), that threads which never overlapped   *)
(* take turns (InTurn), how many threads are about to count a request      *)
(* (Claimed), that a position in the file stays meaningful while the file  *)
(* is not rotated (Placed), which of its limits may have been counted      *)
(* (LimitsBehind), which of its lines must have been (Taken, Dumped), and  *)
(* where the counters stand (Metered).                                     *)
(***************************************************************************)
EXTENDS Usage, LeastElements, FiniteSetTheorems, SequenceTheorems, TLAPS

Lines     == Requests \cup {Limit}
Positions == 0..2 * MaxLines
CallList  == [items : [Requests -> Nat], allocated : BOOLEAN]
LimitList == [items : Nat, allocated : BOOLEAN]
Saved     == [offset : Positions, calls : [Requests -> Nat], limits : Nat]
Event     == [session : Sessions, value : Nat]

\* The record of all local variables.
Variables(local) ==
  [start |-> local.start, end |-> local.end, todo |-> local.todo, new |-> local.new,
   kept |-> local.kept, dump |-> local.dump]

\* The local variables of a thread at `step`.
Local(step, local) ==
  /\ local = Variables(local)
  /\ local.start \in Positions /\ local.end \in Positions
  /\ local.todo \in Seq(Lines) /\ local.new \in BOOLEAN
  /\ CASE step = "calls sorted"  -> local.kept \in CallList
       [] step = "limits sorted" -> local.kept \in LimitList
       [] OTHER                  -> local.kept = NoCalls
  /\ step \in {"open", "write"} => local.dump \in Saved
  /\ step \in {"ingest", "record"} => local.todo # << >>

\* At rest nothing is in memory, and all that is on disk or in memory is of its type.
Typed ==
  /\ file \in Seq(Lines) /\ partial \in BOOLEAN
  /\ calls \in CallList /\ limits \in LimitList
  /\ th = [t \in Threads |-> th[t]] /\ \A t \in Threads : Local(pc[t], th[t])
  /\ Loadable => cache \in Saved
  /\ up = "down" =>
       /\ offset = 0 /\ calls = NoCalls /\ limits = NoLimits /\ seen = {}
       /\ \A t \in Threads : pc[t] = "idle"

\* Threads that never overlapped take turns.
InTurn == ~overlapped => \A t, u \in Threads : t # u => pc[t] = "idle" \/ pc[u] = "idle"

\* The threads that are about to count the request r.
Claims(r) == {t \in Threads : pc[t] = "record" /\ Head(th[t].todo) = r}

\* How often a request may be counted.
Most == IF overlapped THEN Cardinality(Threads) ELSE 1

\* With the claims that are open a request stays within Most in every list, and
\* one that no thread has seen is in none.
ListsClaimed ==
  \A list \in CallLists, r \in Requests :
    list[r] + Cardinality(Claims(r)) <= Most /\ (r \notin seen => list[r] = 0)

\* What is in the cache, or on its way there.
Dumps == {th[t].dump : t \in {t \in Threads : pc[t] \in {"open", "write"}}} \cup (IF Loadable THEN {cache} ELSE {})

Claimed == ListsClaimed /\ \A d \in Dumps, r \in Requests : d.calls[r] <= Most

\* A position up to which the file was read once: the line it cuts is a halved one.
Place(p) == p <= Size /\ (p % 2 = 1 => (p + 1) \div 2 \in halved)

\* The lines a thread has left end where it read to.
Ends(local, p) ==
  /\ Len(local.todo) <= p \div 2
  /\ \A j \in 1..Len(local.todo) : local.todo[j] = file[p \div 2 - Len(local.todo) + j]

Placed ==
  rotations = 0 =>
    /\ Place(offset)
    /\ \A t \in Threads :
         Place(th[t].start) /\ Place(th[t].end) /\ (pc[t] = "offset" => Ends(th[t], th[t].end))
    /\ \A d \in Dumps : Place(d.offset)

\* How many of the first n lines say that a limit was hit.
LimitsTo(n) == Cardinality({i \in 1..n : file[i] = Limit})

\* The limits that were counted are in front of the lines that t has left, or of
\* the offset.
Behind(t) ==
  /\ pc[t] = "read" => th[t].start = offset
  /\ pc[t] = "offset" => offset \div 2 + Len(th[t].todo) <= th[t].end \div 2
  /\ pc[t] \in {"ingest", "record"} =>
       Ends(th[t], offset) /\ limits.items <= LimitsTo(offset \div 2 - Len(th[t].todo))
  /\ pc[t] = "limits sorted" => th[t].kept.items <= LimitsTo(offset \div 2)

LimitsBehind ==
  ~overlapped /\ rotations = 0 =>
    /\ limits.items <= LimitsTo(offset \div 2)
    /\ \A t \in Threads : Behind(t)
    /\ \A d \in Dumps : d.limits <= LimitsTo(d.offset \div 2)

\* The request r is in a list, or among the lines a thread goes through.
Listed(r) == \E list \in CallLists : list[r] > 0
With(r)   == \E t \in Threads : pc[t] \in {"ingest", "record"} /\ Contains(th[t].todo, r)
Held(r)   == Listed(r) \/ With(r)

\* The requests of the whole lines up to p.
RequestsTo(p) == {file[i] : i \in {i \in DOMAIN file \ halved : 2 * i <= p}} \cap Requests

\* A list that is not allocated has nothing in it.
Allocated ==
  /\ ~calls.allocated => calls.items = NoCalls.items
  /\ \A t \in Threads : pc[t] = "calls sorted" /\ ~th[t].kept.allocated => th[t].kept.items = NoCalls.items

\* What was seen is in a list, and what is in front of the offset, or of where a
\* thread starts or has read to, is in a list or with a thread.
Taken ==
  /\ Allocated
  /\ ~spoiled => \A r \in seen : Listed(r)
  /\ up # "down" /\ ~spoiled /\ rotations = 0 =>
       /\ \A r \in RequestsTo(offset) : Held(r)
       /\ \A t \in Threads :
            /\ pc[t] = "read" => \A r \in RequestsTo(th[t].start) : Held(r)
            /\ pc[t] = "offset" => \A r \in RequestsTo(th[t].end) : Held(r) \/ Contains(th[t].todo, r)

\* What is saved has every request up to its offset.
Dumped == ~spoiled /\ rotations = 0 => \A d \in Dumps : \A r \in RequestsTo(d.offset) : d.calls[r] > 0

\* Posts tell what a counter once was.
Metered ==
  /\ counter \in [Sessions -> Nat] /\ last \in [Sessions -> Nat] /\ events \in Seq(Event)
  /\ \A s \in Sessions : last[s] <= counter[s]
  /\ \A p \in posts : p \in Sessions \X Nat /\ p[2] <= counter[p[1]]

IInv ==
  /\ TypeOK /\ Typed /\ InTurn /\ Claimed /\ Placed /\ LimitsBehind /\ Taken /\ Dumped
  /\ CountedOnce /\ AllCounted /\ Metered /\ TotalIsCounter

-----------------------------------------------------------------------------
(* What the actions do to a thread.                                        *)

LEMMA MaxOfTwo ==
  ASSUME NEW a \in Nat, NEW b \in Nat
  PROVE  Max({a, b}) = IF a >= b THEN a ELSE b
<1> DEFINE m == IF a >= b THEN a ELSE b
<1>1. m \in {a, b} /\ \A y \in {a, b} : m >= y
  OBVIOUS
<1>2. \A x \in {a, b} : (\A y \in {a, b} : x >= y) => x = m
  OBVIOUS
<1>3. Max({a, b}) \in {a, b} /\ \A y \in {a, b} : Max({a, b}) >= y
  BY <1>1, Zenon DEF Max
<1> QED
  BY <1>2, <1>3

\* The others stay where they are.
Others(t) == \A u \in Threads \ {t} : pc'[u] = pc[u] /\ th'[u] = th[u]

\* t is at `step` with the local variables `local`.
LEMMA Arrives ==
  ASSUME TypeOK, Typed, NEW t \in Threads, NEW step, NEW local, Goes(t, step, local)
  PROVE  /\ pc'[t] = step /\ th'[t] = local /\ Others(t)
         /\ th' = [u \in Threads |-> th'[u]]
         /\ pc' = [u \in Threads |-> pc'[u]]
<1>1. pc = [u \in Threads |-> pc[u]] /\ th = [u \in Threads |-> th[u]]
  BY DEF TypeOK, Typed
<1> QED
  BY <1>1 DEF Goes, Others

\* Local variables of which some are changed.
LEMMA Changed ==
  ASSUME NEW c, c = Variables(c), NEW x
  PROVE  /\ [c EXCEPT !.start = x] = [start |-> x, end |-> c.end, todo |-> c.todo, new |-> c.new,
                                      kept |-> c.kept, dump |-> c.dump]
         /\ [c EXCEPT !.end = x] = [start |-> c.start, end |-> x, todo |-> c.todo, new |-> c.new,
                                    kept |-> c.kept, dump |-> c.dump]
         /\ [c EXCEPT !.todo = x] = [start |-> c.start, end |-> c.end, todo |-> x, new |-> c.new,
                                     kept |-> c.kept, dump |-> c.dump]
         /\ [c EXCEPT !.new = x] = [start |-> c.start, end |-> c.end, todo |-> c.todo, new |-> x,
                                    kept |-> c.kept, dump |-> c.dump]
         /\ [c EXCEPT !.kept = x] = [start |-> c.start, end |-> c.end, todo |-> c.todo, new |-> c.new,
                                     kept |-> x, dump |-> c.dump]
         /\ [c EXCEPT !.dump = x] = [start |-> c.start, end |-> c.end, todo |-> c.todo, new |-> c.new,
                                     kept |-> c.kept, dump |-> x]
<1>1. \E s, e, d, n, k, m : c = [start |-> s, end |-> e, todo |-> d, new |-> n, kept |-> k, dump |-> m]
  BY DEF Variables
<1> QED
  BY <1>1

LEMMA IdleVariables == Idle = Variables(Idle) /\ Idle.start = 0 /\ Idle.end = 0 /\ Idle.todo = << >>
                       /\ Idle.new = FALSE /\ Idle.kept = NoCalls /\ Idle.dump = << >>
  BY DEF Idle, Variables

LEMMA Starting ==
  ASSUME NEW e, NEW d
  PROVE  [Idle EXCEPT !.end = e, !.todo = d] =
           [start |-> 0, end |-> e, todo |-> d, new |-> FALSE, kept |-> NoCalls, dump |-> << >>]
<1>1. [Idle EXCEPT !.end = e, !.todo = d] = [[Idle EXCEPT !.end = e] EXCEPT !.todo = d]
  OBVIOUS
<1> DEFINE c == [Idle EXCEPT !.end = e]
<1>2. c = [start |-> 0, end |-> e, todo |-> << >>, new |-> FALSE, kept |-> NoCalls, dump |-> << >>]
  <2>1. c = [start |-> Idle.start, end |-> e, todo |-> Idle.todo, new |-> Idle.new, kept |-> Idle.kept,
             dump |-> Idle.dump]
    BY IdleVariables, Changed
  <2> QED
    BY <2>1, IdleVariables, Zenon
<1>3. c = Variables(c)
  BY <1>2 DEF Variables
<1> HIDE DEF c
<1>4. [c EXCEPT !.todo = d] = [start |-> c.start, end |-> c.end, todo |-> d, new |-> c.new,
                               kept |-> c.kept, dump |-> c.dump]
  BY <1>3, Changed
<1>5. /\ c.start = 0 /\ c.end = e /\ c.new = FALSE /\ c.kept = NoCalls /\ c.dump = << >>
  BY <1>2
<1> QED
  BY <1>1, <1>4, <1>5 DEF c

\* t has taken the first of its lines.
LEMMA Resting ==
  ASSUME Typed, NEW t \in Threads
  PROVE  /\ Rest(t) = [start |-> th[t].start, end |-> th[t].end, todo |-> Tail(th[t].todo),
                       new |-> th[t].new, kept |-> th[t].kept, dump |-> th[t].dump]
         /\ [Rest(t) EXCEPT !.new = TRUE] =
              [start |-> th[t].start, end |-> th[t].end, todo |-> Tail(th[t].todo),
               new |-> TRUE, kept |-> th[t].kept, dump |-> th[t].dump]
<1>1. th[t] = Variables(th[t])
  BY DEF Typed, Local
<1>2. Rest(t) = [th[t] EXCEPT !.todo = Tail(th[t].todo)]
  BY DEF Rest
<1>3. Rest(t) = [start |-> th[t].start, end |-> th[t].end, todo |-> Tail(th[t].todo),
                 new |-> th[t].new, kept |-> th[t].kept, dump |-> th[t].dump]
  BY <1>1, <1>2, Changed
<1>4. Rest(t) = Variables(Rest(t))
  BY <1>3 DEF Variables
<1> DEFINE c == Rest(t)
<1>5. [c EXCEPT !.new = TRUE] = [start |-> c.start, end |-> c.end, todo |-> c.todo, new |-> TRUE,
                                 kept |-> c.kept, dump |-> c.dump]
  BY <1>4, Changed
<1>6. c.start = th[t].start /\ c.end = th[t].end /\ c.todo = Tail(th[t].todo) /\ c.kept = th[t].kept
      /\ c.dump = th[t].dump
  BY <1>3
<1> QED
  BY <1>3, <1>5, <1>6

\* The changed lists.
LEMMA Lists ==
  /\ \A list \in CallList, x \in [Requests -> Nat] :
       Added(list, x) \in CallList /\ Added(list, x).items = x /\ Added(list, x).allocated
  /\ \A list \in LimitList, x \in Nat : Added(list, x) \in LimitList /\ Added(list, x).items = x
  /\ \A x \in [Requests -> Nat] : [NoCalls EXCEPT !.items = x] \in CallList /\ [NoCalls EXCEPT !.items = x].items = x
                                  /\ [NoCalls EXCEPT !.items = x].allocated
  /\ \A x \in Nat : [NoLimits EXCEPT !.items = x] \in LimitList /\ [NoLimits EXCEPT !.items = x].items = x
  /\ LET n == [NoCalls EXCEPT !.allocated = FALSE]
     IN  n \in CallList /\ n.items = NoCalls.items /\ ~n.allocated
  /\ LET n == [NoLimits EXCEPT !.allocated = FALSE]
     IN  n \in LimitList /\ n.items = 0
  /\ NoCalls \in CallList /\ NoLimits \in LimitList
  /\ NoCalls.items = [r \in Requests |-> 0] /\ NoLimits.items = 0 /\ NoCalls.allocated
<1>1. \A list \in CallList, x \in [Requests -> Nat] :
        Added(list, x) \in CallList /\ Added(list, x).items = x /\ Added(list, x).allocated
  BY DEF CallList, Added
<1>2. \A list \in LimitList, x \in Nat : Added(list, x) \in LimitList /\ Added(list, x).items = x
  BY DEF LimitList, Added
<1>3. NoCalls \in CallList /\ NoLimits \in LimitList
  BY DEF CallList, LimitList, NoCalls, NoLimits
<1>4. NoCalls.items = [r \in Requests |-> 0] /\ NoLimits.items = 0 /\ NoCalls.allocated
  BY DEF NoCalls, NoLimits
<1>5. \A list \in CallList : \A x \in [Requests -> Nat] :
        /\ [list EXCEPT !.items = x] \in CallList
        /\ [list EXCEPT !.items = x].items = x /\ [list EXCEPT !.items = x].allocated = list.allocated
  BY DEF CallList
<1>6. \A list \in LimitList : \A x \in Nat :
        [list EXCEPT !.items = x] \in LimitList /\ [list EXCEPT !.items = x].items = x
  BY DEF LimitList
<1>7. \A list \in CallList : LET n == [list EXCEPT !.allocated = FALSE]
                             IN  n \in CallList /\ n.items = list.items /\ ~n.allocated
  BY DEF CallList
<1>8. \A list \in LimitList : LET n == [list EXCEPT !.allocated = FALSE]
                              IN  n \in LimitList /\ n.items = list.items
  BY DEF LimitList
<1>9. \A x \in [Requests -> Nat] : [NoCalls EXCEPT !.items = x] \in CallList /\ [NoCalls EXCEPT !.items = x].items = x
                                   /\ [NoCalls EXCEPT !.items = x].allocated
  BY <1>3, <1>4, <1>5, Zenon
<1>10. \A x \in Nat : [NoLimits EXCEPT !.items = x] \in LimitList /\ [NoLimits EXCEPT !.items = x].items = x
  BY <1>3, <1>6, Zenon
<1>11. LET n == [NoCalls EXCEPT !.allocated = FALSE]
       IN  n \in CallList /\ n.items = NoCalls.items /\ ~n.allocated
  BY <1>3, <1>7, Zenon
<1>12. LET n == [NoLimits EXCEPT !.allocated = FALSE]
       IN  n \in LimitList /\ n.items = NoLimits.items
  BY <1>3, <1>8, Zenon
<1>13. LET n == [NoLimits EXCEPT !.allocated = FALSE]
       IN  n \in LimitList /\ n.items = 0
  BY <1>4, <1>12, Zenon
<1> QED
  BY <1>1, <1>2, <1>3, <1>4, <1>9, <1>10, <1>11, <1>13, Zenon

-----------------------------------------------------------------------------
(* What is read of the file.                                               *)

LEMMA SizeIsNat ==
  ASSUME file \in Seq(Lines), partial \in BOOLEAN, partial => file # << >>
  PROVE  /\ Size \in Nat /\ Size <= 2 * Len(file) /\ Len(file) \in Nat
         /\ (partial => Size = 2 * Len(file) - 1) /\ (~partial => Size = 2 * Len(file))
<1>1. Len(file) \in Nat /\ (file # << >> => Len(file) > 0)
  OBVIOUS
<1> QED
  BY <1>1 DEF Size

\* The whole lines from s on are the last ones of the file that are whole.
LEMMA WholeLines ==
  ASSUME file \in Seq(Lines), partial \in BOOLEAN, partial => file # << >>, NEW s \in Nat
  PROVE  /\ Whole(s, Size) \in Seq(Lines)
         /\ Len(Whole(s, Size)) = IF (s + 1) \div 2 < Size \div 2 THEN Size \div 2 - (s + 1) \div 2 ELSE 0
         /\ \A j \in 1..Len(Whole(s, Size)) :
              Whole(s, Size)[j] = file[Size \div 2 - Len(Whole(s, Size)) + j]
<1> DEFINE first == (s + 1) \div 2 + 1
           final == Size \div 2
<1>1. first \in Nat \ {0} /\ final \in Nat /\ final <= Len(file) /\ Len(file) \in Nat
  BY SizeIsNat
<1>2. CASE first > final
  <2>1. Whole(s, Size) = << >>
    BY <1>2 DEF Whole
  <2>2. << >> \in Seq(Lines) /\ Len(<< >>) = 0
    OBVIOUS
  <2> QED
    BY <1>1, <1>2, <2>1, <2>2
<1>3. CASE first <= final
  <2>1. Whole(s, Size) = SubSeq(file, first, final)
    BY <1>1, <1>3 DEF Whole
  <2> HIDE DEF first, final
  <2>2. /\ SubSeq(file, first, final) \in Seq(Lines)
        /\ Len(SubSeq(file, first, final)) = final - first + 1
        /\ \A j \in 1..(final - first + 1) : SubSeq(file, first, final)[j] = file[first + j - 1]
    BY <1>1, <1>3, SubSeqProperties
  <2>3. \A j \in 1..(final - first + 1) : first + j - 1 = final - (final - first + 1) + j
    BY <1>1
  <2>4. final = Size \div 2 /\ first = (s + 1) \div 2 + 1 /\ (s + 1) \div 2 \in Nat
    BY DEF final, first
  <2>5. final - first + 1 = Size \div 2 - (s + 1) \div 2
    BY <1>1, <2>4
  <2>6. (s + 1) \div 2 < Size \div 2
    <3>1. first = (s + 1) \div 2 + 1 /\ final = Size \div 2 /\ (s + 1) \div 2 \in Nat
      BY <2>4
    <3> QED
      BY <1>1, <1>3, <3>1
  <2>7. Len(Whole(s, Size)) = final - first + 1
    BY <2>1, <2>2
  <2>8. \A j \in 1..Len(Whole(s, Size)) : Whole(s, Size)[j] = file[final - Len(Whole(s, Size)) + j]
    BY <2>1, <2>2, <2>3, <2>7
  <2> QED
    BY <2>1, <2>2, <2>4, <2>5, <2>6, <2>7, <2>8
<1> QED
  BY <1>1, <1>2, <1>3

-----------------------------------------------------------------------------
(* What each action makes of a thread.                                     *)

\* t is at `step`, with these local variables.
Stands(t, step, start, end, todo, kept, dump) ==
  /\ pc'[t] = step /\ th'[t] = Variables(th'[t])
  /\ th'[t].start = start /\ th'[t].end = end /\ th'[t].todo = todo /\ th'[t].new \in BOOLEAN
  /\ th'[t].kept = kept /\ th'[t].dump = dump

Rests(t, step)  == Stands(t, step, 0, 0, << >>, NoCalls, << >>)

\* With the lines `todo` left.
Left(t, todo) ==
  Stands(t, IF todo = << >> THEN "sort calls" ELSE "ingest", th[t].start, 0, todo, th[t].kept, th[t].dump)

\* Only t has moved.
Alone(t) == Others(t) /\ th' = [u \in Threads |-> th'[u]] /\ pc' = [u \in Threads |-> pc'[u]]

LEMMA Stand ==
  ASSUME TypeOK, Typed, NEW t \in Threads, NEW step, NEW s, NEW e, NEW d, NEW n \in BOOLEAN, NEW k, NEW m,
         Goes(t, step, [start |-> s, end |-> e, todo |-> d, new |-> n, kept |-> k, dump |-> m])
  PROVE  Stands(t, step, s, e, d, k, m) /\ Alone(t)
<1> DEFINE local == [start |-> s, end |-> e, todo |-> d, new |-> n, kept |-> k, dump |-> m]
<1>1. local = Variables(local) /\ local.start = s /\ local.end = e /\ local.todo = d /\ local.new = n
      /\ local.kept = k /\ local.dump = m
  BY DEF Variables
<1> HIDE DEF local
<1>2. Goes(t, step, local)
  BY DEF local
<1>3. pc'[t] = step /\ th'[t] = local /\ Alone(t)
  BY <1>2, Arrives DEF Alone
<1> QED
  BY <1>1, <1>3 DEF Stands

\* t takes on what it has: v is th[t], so that a change of one of them is one of a record.
LEMMA StandsWith ==
  ASSUME TypeOK, Typed, NEW t \in Threads, NEW step
  PROVE  LET v == th[t]
         IN  /\ Goes(t, step, v) => Stands(t, step, v.start, v.end, v.todo, v.kept, v.dump) /\ Alone(t)
             /\ \A x : Goes(t, step, [v EXCEPT !.start = x]) =>
                         Stands(t, step, x, v.end, v.todo, v.kept, v.dump) /\ Alone(t)
             /\ \A x : Goes(t, step, [v EXCEPT !.end = x]) =>
                         Stands(t, step, v.start, x, v.todo, v.kept, v.dump) /\ Alone(t)
             /\ \A x : Goes(t, step, [v EXCEPT !.kept = x]) =>
                         Stands(t, step, v.start, v.end, v.todo, x, v.dump) /\ Alone(t)
             /\ Goes(t, step, Idle) => Rests(t, step) /\ Alone(t)
             /\ \A x : Goes(t, step, [Idle EXCEPT !.dump = x]) =>
                         Stands(t, step, 0, 0, << >>, NoCalls, x) /\ Alone(t)
<1> DEFINE v == th[t]
<1>1. v = Variables(v) /\ v.new \in BOOLEAN
  BY DEF Typed, Local
<1>2. Idle = Variables(Idle) /\ Idle.start = 0 /\ Idle.end = 0 /\ Idle.todo = << >>
      /\ Idle.new \in BOOLEAN /\ Idle.kept = NoCalls /\ Idle.dump = << >>
  BY IdleVariables
<1> HIDE DEF v
<1>3. Goes(t, step, v) => Stands(t, step, v.start, v.end, v.todo, v.kept, v.dump) /\ Alone(t)
  BY <1>1, Arrives, Zenon DEF Stands, Alone
<1>4. ASSUME NEW x, Goes(t, step, [v EXCEPT !.start = x])
      PROVE  Stands(t, step, x, v.end, v.todo, v.kept, v.dump) /\ Alone(t)
  <2>1. [v EXCEPT !.start = x] =
          [start |-> x, end |-> v.end, todo |-> v.todo, new |-> v.new, kept |-> v.kept, dump |-> v.dump]
    BY <1>1, Changed
  <2> QED
    BY <1>1, <1>4, <2>1, Stand
<1>5. ASSUME NEW x, Goes(t, step, [v EXCEPT !.end = x])
      PROVE  Stands(t, step, v.start, x, v.todo, v.kept, v.dump) /\ Alone(t)
  <2>1. [v EXCEPT !.end = x] =
          [start |-> v.start, end |-> x, todo |-> v.todo, new |-> v.new, kept |-> v.kept, dump |-> v.dump]
    BY <1>1, Changed
  <2> QED
    BY <1>1, <1>5, <2>1, Stand
<1>6. ASSUME NEW x, Goes(t, step, [v EXCEPT !.kept = x])
      PROVE  Stands(t, step, v.start, v.end, v.todo, x, v.dump) /\ Alone(t)
  <2>1. [v EXCEPT !.kept = x] =
          [start |-> v.start, end |-> v.end, todo |-> v.todo, new |-> v.new, kept |-> x, dump |-> v.dump]
    BY <1>1, Changed
  <2> QED
    BY <1>1, <1>6, <2>1, Stand
<1>7. Goes(t, step, Idle) => Rests(t, step) /\ Alone(t)
  BY <1>2, Arrives, Zenon DEF Stands, Alone, Rests
<1>8. ASSUME NEW x, Goes(t, step, [Idle EXCEPT !.dump = x])
      PROVE  Stands(t, step, 0, 0, << >>, NoCalls, x) /\ Alone(t)
  <2>1. [Idle EXCEPT !.dump = x] =
          [start |-> Idle.start, end |-> Idle.end, todo |-> Idle.todo, new |-> Idle.new, kept |-> Idle.kept,
           dump |-> x]
    BY <1>2, Changed
  <2>2. Stands(t, step, Idle.start, Idle.end, Idle.todo, Idle.kept, x) /\ Alone(t)
    BY <1>2, <1>8, <2>1, Stand
  <2> QED
    BY <1>2, <2>2
<1> QED
  BY <1>3, <1>4, <1>5, <1>6, <1>7, <1>8, Zenon DEF v

LEMMA GetDoes ==
  ASSUME TypeOK, Typed, NEW t \in Threads, Get(t)
  PROVE  /\ Alone(t)
         /\ pc[t] = "idle"
         /\ Rests(t, "look")
  BY StandsWith DEF Get

LEMMA BootDoes ==
  ASSUME TypeOK, Typed, NEW t \in Threads, Boot(t)
  PROVE  /\ Alone(t)
         /\ Rests(t, "look")
  BY StandsWith DEF Boot

LEMMA LookDoes ==
  ASSUME TypeOK, Typed, NEW t \in Threads, Look(t)
  PROVE  /\ Alone(t)
         /\ pc[t] = "look"
         /\ Size = offset => Stands(t, "sort calls", th[t].start, th[t].end, th[t].todo, th[t].kept, th[t].dump)
         /\ Size # offset => Stands(t, "read", IF Size < offset THEN 0 ELSE offset, th[t].end, th[t].todo, th[t].kept, th[t].dump)
  BY StandsWith DEF Look

LEMMA ReadDoes ==
  ASSUME TypeOK, Typed, NEW t \in Threads, Read(t)
  PROVE  /\ Alone(t)
         /\ pc[t] = "read"
         /\ Stands(t, "offset", 0, Max({th[t].start, Size}), Whole(th[t].start, Size), NoCalls, << >>)
<1>1. Goes(t, "offset", [Idle EXCEPT !.end = Max({th[t].start, Size}), !.todo = Whole(th[t].start, Size)])
  BY DEF Read
<1>2. Goes(t, "offset", [start |-> 0, end |-> Max({th[t].start, Size}), todo |-> Whole(th[t].start, Size),
                         new |-> FALSE, kept |-> NoCalls, dump |-> << >>])
  BY <1>1, Starting
<1>3. Stands(t, "offset", 0, Max({th[t].start, Size}), Whole(th[t].start, Size), NoCalls, << >>) /\ Alone(t)
  BY <1>2, Stand, Zenon
<1> QED
  BY <1>3 DEF Read

LEMMA SetOffsetDoes ==
  ASSUME TypeOK, Typed, NEW t \in Threads, SetOffset(t)
  PROVE  /\ Alone(t)
         /\ pc[t] = "offset"
         /\ Left(t, th[t].todo)
<1> DEFINE step == IF th[t].todo = << >> THEN "sort calls" ELSE "ingest"
<1>1. [th[t] EXCEPT !.end = 0].todo = th[t].todo
  <2>1. th[t] = Variables(th[t])
    BY DEF Typed, Local
  <2>2. [th[t] EXCEPT !.end = 0] = [start |-> th[t].start, end |-> 0, todo |-> th[t].todo, new |-> th[t].new,
                                    kept |-> th[t].kept, dump |-> th[t].dump]
    BY <2>1, Changed
  <2> QED
    BY <2>2
<1>2. Goes(t, step, [th[t] EXCEPT !.end = 0])
  BY <1>1 DEF SetOffset, Continues
<1> HIDE DEF step
<1>3. Stands(t, step, th[t].start, 0, th[t].todo, th[t].kept, th[t].dump) /\ Alone(t)
  BY <1>2, StandsWith
<1> QED
  BY <1>3 DEF SetOffset, Left, step

LEMMA TakesNext ==
  ASSUME TypeOK, Typed, NEW t \in Threads
  PROVE  /\ Continues(t, Rest(t)) =>
              Stands(t, IF Tail(th[t].todo) = << >> THEN "sort calls" ELSE "ingest",
                     th[t].start, th[t].end, Tail(th[t].todo), th[t].kept, th[t].dump) /\ Alone(t)
         /\ Continues(t, [Rest(t) EXCEPT !.new = TRUE]) =>
              Stands(t, IF Tail(th[t].todo) = << >> THEN "sort calls" ELSE "ingest",
                     th[t].start, th[t].end, Tail(th[t].todo), th[t].kept, th[t].dump) /\ Alone(t)
<1> DEFINE step == IF Tail(th[t].todo) = << >> THEN "sort calls" ELSE "ingest"
           d == Tail(th[t].todo)
<1>1. th[t].new \in BOOLEAN
  BY DEF Typed, Local
<1>2. ASSUME Continues(t, Rest(t))
      PROVE  Stands(t, step, th[t].start, th[t].end, d, th[t].kept, th[t].dump) /\ Alone(t)
  <2>1. Rest(t) = [start |-> th[t].start, end |-> th[t].end, todo |-> d,
                   new |-> th[t].new, kept |-> th[t].kept, dump |-> th[t].dump]
    BY Resting
  <2>2. Rest(t).todo = d
    BY <2>1
  <2>3. Goes(t, step, Rest(t))
    BY <1>2, <2>2 DEF Continues
  <2> HIDE DEF step, d
  <2>4. Goes(t, step, [start |-> th[t].start, end |-> th[t].end, todo |-> d,
                       new |-> th[t].new, kept |-> th[t].kept, dump |-> th[t].dump])
    BY <2>1, <2>3
  <2> QED
    BY <1>1, <2>4, Stand
<1>3. ASSUME Continues(t, [Rest(t) EXCEPT !.new = TRUE])
      PROVE  Stands(t, step, th[t].start, th[t].end, d, th[t].kept, th[t].dump) /\ Alone(t)
  <2>1. [Rest(t) EXCEPT !.new = TRUE] =
          [start |-> th[t].start, end |-> th[t].end, todo |-> d,
           new |-> TRUE, kept |-> th[t].kept, dump |-> th[t].dump]
    BY Resting
  <2>2. [Rest(t) EXCEPT !.new = TRUE].todo = d
    BY <2>1, Zenon
  <2>3. Goes(t, step, [Rest(t) EXCEPT !.new = TRUE])
    BY <1>3, <2>2, Zenon DEF Continues
  <2> HIDE DEF step, d
  <2>4. Goes(t, step, [start |-> th[t].start, end |-> th[t].end, todo |-> d,
                       new |-> TRUE, kept |-> th[t].kept, dump |-> th[t].dump])
    BY <2>1, <2>3, Zenon
  <2>5. TRUE \in BOOLEAN
    OBVIOUS
  <2> QED
    BY <2>4, <2>5, Stand, Zenon
<1> QED
  BY <1>2, <1>3, Zenon

LEMMA IngestDoes ==
  ASSUME TypeOK, Typed, NEW t \in Threads, Ingest(t)
  PROVE  /\ Alone(t)
         /\ pc[t] = "ingest"
         /\ Head(th[t].todo) \in Requests \ seen => Stands(t, "record", th[t].start, th[t].end, th[t].todo, th[t].kept, th[t].dump)
         /\ Head(th[t].todo) \notin Requests \ seen =>
            Stands(t, IF Tail(th[t].todo) = << >> THEN "sort calls" ELSE "ingest",
                   th[t].start, th[t].end, Tail(th[t].todo), th[t].kept, th[t].dump)
  BY StandsWith, TakesNext, Zenon DEF Ingest

LEMMA RecordDoes ==
  ASSUME TypeOK, Typed, NEW t \in Threads, Record(t)
  PROVE  /\ Alone(t)
         /\ pc[t] = "record"
         /\ Stands(t, IF Tail(th[t].todo) = << >> THEN "sort calls" ELSE "ingest",
                   th[t].start, th[t].end, Tail(th[t].todo), th[t].kept, th[t].dump)
  BY TakesNext, Zenon DEF Record

LEMMA SortCallsDoes ==
  ASSUME TypeOK, Typed, NEW t \in Threads, SortCalls(t)
  PROVE  /\ Alone(t)
         /\ pc[t] = "sort calls"
         /\ calls.items = NoCalls.items => Stands(t, "sort limits", th[t].start, th[t].end, th[t].todo, th[t].kept, th[t].dump)
         /\ calls.items # NoCalls.items => Stands(t, "calls sorted", th[t].start, th[t].end, th[t].todo, calls, th[t].dump)
  BY StandsWith DEF SortCalls

LEMMA CallsSortedDoes ==
  ASSUME TypeOK, Typed, NEW t \in Threads, CallsSorted(t)
  PROVE  /\ Alone(t)
         /\ pc[t] = "calls sorted"
         /\ calls.allocated => Rests(t, "idle")
         /\ ~calls.allocated => Stands(t, "sort limits", th[t].start, th[t].end, th[t].todo, NoCalls, th[t].dump)
  BY StandsWith DEF CallsSorted, Raises

LEMMA SortLimitsDoes ==
  ASSUME TypeOK, Typed, NEW t \in Threads, SortLimits(t)
  PROVE  /\ Alone(t)
         /\ pc[t] = "sort limits"
         /\ limits.items = 0 => Stands(t, "save", th[t].start, th[t].end, th[t].todo, th[t].kept, th[t].dump)
         /\ limits.items # 0 => Stands(t, "limits sorted", th[t].start, th[t].end, th[t].todo, limits, th[t].dump)
  BY StandsWith DEF SortLimits

LEMMA LimitsSortedDoes ==
  ASSUME TypeOK, Typed, NEW t \in Threads, LimitsSorted(t)
  PROVE  /\ Alone(t)
         /\ pc[t] = "limits sorted"
         /\ limits.allocated => Rests(t, "idle")
         /\ ~limits.allocated => Stands(t, "save", th[t].start, th[t].end, th[t].todo, NoCalls, th[t].dump)
  BY StandsWith DEF LimitsSorted, Raises

LEMMA DumpDoes ==
  ASSUME TypeOK, Typed, NEW t \in Threads, Dump(t)
  PROVE  /\ Alone(t)
         /\ pc[t] = "save"
         /\ IF th[t].new \/ up = "starting"
            THEN Stands(t, "open", 0, 0, << >>, NoCalls, [offset |-> offset, calls |-> calls.items, limits |-> limits.items])
            ELSE Rests(t, "idle")
  BY StandsWith DEF Dump, Answers

LEMMA OpenDoes ==
  ASSUME TypeOK, Typed, NEW t \in Threads, Open(t)
  PROVE  /\ Alone(t)
         /\ pc[t] = "open"
         /\ Stands(t, "write", th[t].start, th[t].end, th[t].todo, th[t].kept, th[t].dump)
  BY StandsWith DEF Open

LEMMA WriteDoes ==
  ASSUME TypeOK, Typed, NEW t \in Threads, Write(t)
  PROVE  /\ Alone(t)
         /\ pc[t] = "write"
         /\ Rests(t, "idle")
  BY StandsWith DEF Write, Answers

-----------------------------------------------------------------------------
(* Types.                                                                  *)

\* What is at a new step with variables of their types is of its type.
LEMMA LocalOf ==
  ASSUME Typed, NEW t \in Threads, NEW step, NEW s \in Positions, NEW e \in Positions, NEW d \in Seq(Lines), NEW k, NEW m,
         Stands(t, step, s, e, d, k, m),
         step = "calls sorted" => k \in CallList,
         step = "limits sorted" => k \in LimitList,
         step \notin {"calls sorted", "limits sorted"} => k = NoCalls,
         step \in {"open", "write"} => m \in Saved,
         step \in {"ingest", "record"} => d # << >>
  PROVE  Local(pc'[t], th'[t])
  BY DEF Stands, Local

LEMMA OthersLocal ==
  ASSUME Typed, NEW t \in Threads, Others(t), Local(pc'[t], th'[t])
  PROVE  \A u \in Threads : Local(pc'[u], th'[u])
  BY DEF Typed, Others

\* What t has been doing is done with what is of its type.
LEMMA HasLocal ==
  ASSUME TypeOK, Typed, NEW t \in Threads
  PROVE  /\ th[t].start \in Positions /\ th[t].end \in Positions /\ th[t].todo \in Seq(Lines)
         /\ pc[t] = "calls sorted" => th[t].kept \in CallList
         /\ pc[t] = "limits sorted" => th[t].kept \in LimitList
         /\ pc[t] \notin {"calls sorted", "limits sorted"} => th[t].kept = NoCalls
         /\ pc[t] \in {"open", "write"} => th[t].dump \in Saved
         /\ pc[t] \in {"ingest", "record"} => th[t].todo # << >>
         /\ pc[t] \in Steps
  BY DEF TypeOK, Typed, Local

LEMMA PositionsAre == 0 \in Positions /\ Positions \subseteq Nat /\ (TypeOK /\ Typed => offset \in Positions /\ Size \in Positions)
<1>1. MaxLines \in Nat
  BY BoundsAssumption
<1>2. TypeOK /\ Typed => Size \in Nat /\ Size <= 2 * Len(file) /\ Len(file) \in Nat /\ Len(file) <= MaxLines
  BY SizeIsNat DEF TypeOK, Typed
<1> QED
  BY <1>1, <1>2 DEF Positions, TypeOK

\* Threads whose variables nobody touches keep them.
LEMMA LocalsStay ==
  ASSUME Typed, UNCHANGED <<pc, th>>
  PROVE  th' = [u \in Threads |-> th'[u]] /\ \A u \in Threads : Local(pc'[u], th'[u])
  BY DEF Typed

LEMMA NoLines == << >> \in Seq(Lines)
  OBVIOUS

\* Threads keep the types of their variables.
LEMMA LocalStep ==
  ASSUME TypeOK, Typed, [Next]_vars
  PROVE  th' = [u \in Threads |-> th'[u]] /\ \A u \in Threads : Local(pc'[u], th'[u])
<1>1. ASSUME NEW line \in Requests \cup {Limit}, WriteLine(line) PROVE th' = [u \in Threads |-> th'[u]] /\ \A u \in Threads : Local(pc'[u], th'[u])
  <2>1. UNCHANGED <<pc, th>>
    BY <1>1 DEF WriteLine, Recording
  <2> QED
    BY <2>1, LocalsStay
<1>2. ASSUME WriteRest PROVE th' = [u \in Threads |-> th'[u]] /\ \A u \in Threads : Local(pc'[u], th'[u])
  <2>1. UNCHANGED <<pc, th>>
    BY <1>2 DEF WriteRest, Recording
  <2> QED
    BY <2>1, LocalsStay
<1>3. ASSUME Rotate PROVE th' = [u \in Threads |-> th'[u]] /\ \A u \in Threads : Local(pc'[u], th'[u])
  <2>1. UNCHANGED <<pc, th>>
    BY <1>3 DEF Rotate, Recording
  <2> QED
    BY <2>1, LocalsStay
<1>4. ASSUME NEW t \in Threads, Boot(t) PROVE th' = [u \in Threads |-> th'[u]] /\ \A u \in Threads : Local(pc'[u], th'[u])
  <2>1. Alone(t) /\ pc[t] \in Steps
    BY <1>4, BootDoes, HasLocal
  <2>2. Stands(t, "look", 0, 0, << >>, NoCalls, << >>)
    BY <1>4, BootDoes DEF Rests
  <2>3. Local(pc'[t], th'[t])
    BY <1>4, <2>2, BootDoes, HasLocal, PositionsAre, NoLines DEF Stands, Local
  <2> QED
    BY <2>1, <2>3, OthersLocal DEF Alone
<1>5. ASSUME NEW t \in Threads, Get(t) PROVE th' = [u \in Threads |-> th'[u]] /\ \A u \in Threads : Local(pc'[u], th'[u])
  <2>1. Alone(t) /\ pc[t] \in Steps
    BY <1>5, GetDoes, HasLocal
  <2>2. Stands(t, "look", 0, 0, << >>, NoCalls, << >>)
    BY <1>5, GetDoes DEF Rests
  <2>3. Local(pc'[t], th'[t])
    BY <1>5, <2>2, GetDoes, HasLocal, PositionsAre, NoLines DEF Stands, Local
  <2> QED
    BY <2>1, <2>3, OthersLocal DEF Alone
<1>6. ASSUME NEW t \in Threads, Look(t) PROVE th' = [u \in Threads |-> th'[u]] /\ \A u \in Threads : Local(pc'[u], th'[u])
  <2>1. Alone(t) /\ pc[t] \in Steps
    BY <1>6, LookDoes, HasLocal
  <2> SUFFICES Local(pc'[t], th'[t])
    BY <2>1, OthersLocal DEF Alone
  <2>2. CASE Size = offset
    <3>1. Stands(t, "sort calls", th[t].start, th[t].end, th[t].todo, th[t].kept, th[t].dump)
      BY <1>6, <2>2, LookDoes
    <3> QED
      BY <1>6, <2>2, <3>1, LookDoes, HasLocal, PositionsAre, NoLines DEF Stands, Local
  <2>3. CASE Size # offset
    <3>1. Stands(t, "read", IF Size < offset THEN 0 ELSE offset, th[t].end, th[t].todo, th[t].kept, th[t].dump)
      BY <1>6, <2>3, LookDoes
    <3> QED
      BY <1>6, <2>3, <3>1, LookDoes, HasLocal, PositionsAre, NoLines DEF Stands, Local
  <2> QED
    BY <2>2, <2>3
<1>7. ASSUME NEW t \in Threads, Read(t) PROVE th' = [u \in Threads |-> th'[u]] /\ \A u \in Threads : Local(pc'[u], th'[u])
  <2>1. Alone(t) /\ pc[t] = "read"
    BY <1>7, ReadDoes
  <2>2. Stands(t, "offset", 0, Max({th[t].start, Size}), Whole(th[t].start, Size), NoCalls, << >>)
    BY <1>7, ReadDoes
  <2>3. th[t].start \in Positions /\ Size \in Positions /\ 0 \in Positions /\ Positions \subseteq Nat
    BY HasLocal, PositionsAre
  <2>4. Max({th[t].start, Size}) \in Positions
    BY <2>3, MaxOfTwo
  <2>5. Whole(th[t].start, Size) \in Seq(Lines)
    BY <2>3, WholeLines DEF TypeOK, Typed
  <2>6. Local(pc'[t], th'[t])
    BY <2>2, <2>3, <2>4, <2>5 DEF Stands, Local
  <2> QED
    BY <2>1, <2>6, OthersLocal DEF Alone
<1>8. ASSUME NEW t \in Threads, SetOffset(t) PROVE th' = [u \in Threads |-> th'[u]] /\ \A u \in Threads : Local(pc'[u], th'[u])
  <2>1. Alone(t) /\ pc[t] \in Steps
    BY <1>8, SetOffsetDoes, HasLocal
  <2> SUFFICES Local(pc'[t], th'[t])
    BY <2>1, OthersLocal DEF Alone
  <2>2. CASE th[t].todo = << >>
    <3>1. Stands(t, "sort calls", th[t].start, 0, th[t].todo, th[t].kept, th[t].dump)
      BY <1>8, <2>2, SetOffsetDoes DEF Left
    <3> QED
      BY <1>8, <2>2, <3>1, SetOffsetDoes, HasLocal, PositionsAre, NoLines DEF Stands, Local
  <2>3. CASE th[t].todo # << >>
    <3>1. Stands(t, "ingest", th[t].start, 0, th[t].todo, th[t].kept, th[t].dump)
      BY <1>8, <2>3, SetOffsetDoes DEF Left
    <3> QED
      BY <1>8, <2>3, <3>1, SetOffsetDoes, HasLocal, PositionsAre, NoLines DEF Stands, Local
  <2> QED
    BY <2>2, <2>3
<1>9. ASSUME NEW t \in Threads, Ingest(t) PROVE th' = [u \in Threads |-> th'[u]] /\ \A u \in Threads : Local(pc'[u], th'[u])
  <2>1. Alone(t) /\ pc[t] \in Steps
    BY <1>9, IngestDoes, HasLocal
  <2>2. Tail(th[t].todo) \in Seq(Lines)
    <3>1. th[t].todo \in Seq(Lines) /\ th[t].todo # << >>
      BY <1>9, HasLocal, IngestDoes
    <3> QED
      BY <3>1, HeadTailProperties
  <2> SUFFICES Local(pc'[t], th'[t])
    BY <2>1, OthersLocal DEF Alone
  <2>3. CASE Head(th[t].todo) \in Requests \ seen
    <3>1. Stands(t, "record", th[t].start, th[t].end, th[t].todo, th[t].kept, th[t].dump)
      BY <1>9, <2>3, IngestDoes
    <3> QED
      BY <1>9, <2>2, <2>3, <3>1, IngestDoes, HasLocal DEF Stands, Local
  <2>4. CASE Head(th[t].todo) \notin Requests \ seen /\ Tail(th[t].todo) = << >>
    <3>1. Stands(t, "sort calls", th[t].start, th[t].end, Tail(th[t].todo), th[t].kept, th[t].dump)
      BY <1>9, <2>4, IngestDoes
    <3> QED
      BY <1>9, <2>2, <2>4, <3>1, IngestDoes, HasLocal DEF Stands, Local
  <2>5. CASE Head(th[t].todo) \notin Requests \ seen /\ Tail(th[t].todo) # << >>
    <3>1. Stands(t, "ingest", th[t].start, th[t].end, Tail(th[t].todo), th[t].kept, th[t].dump)
      BY <1>9, <2>5, IngestDoes
    <3> QED
      BY <1>9, <2>2, <2>5, <3>1, IngestDoes, HasLocal DEF Stands, Local
  <2> QED
    BY <2>3, <2>4, <2>5
<1>10. ASSUME NEW t \in Threads, Record(t) PROVE th' = [u \in Threads |-> th'[u]] /\ \A u \in Threads : Local(pc'[u], th'[u])
  <2>1. Alone(t) /\ pc[t] \in Steps
    BY <1>10, RecordDoes, HasLocal
  <2>2. Tail(th[t].todo) \in Seq(Lines)
    <3>1. th[t].todo \in Seq(Lines) /\ th[t].todo # << >>
      BY <1>10, HasLocal, RecordDoes
    <3> QED
      BY <3>1, HeadTailProperties
  <2> SUFFICES Local(pc'[t], th'[t])
    BY <2>1, OthersLocal DEF Alone
  <2>3. CASE Tail(th[t].todo) = << >>
    <3>1. Stands(t, "sort calls", th[t].start, th[t].end, Tail(th[t].todo), th[t].kept, th[t].dump)
      BY <1>10, <2>3, RecordDoes
    <3> QED
      BY <1>10, <2>2, <2>3, <3>1, RecordDoes, HasLocal DEF Stands, Local
  <2>4. CASE Tail(th[t].todo) # << >>
    <3>1. Stands(t, "ingest", th[t].start, th[t].end, Tail(th[t].todo), th[t].kept, th[t].dump)
      BY <1>10, <2>4, RecordDoes
    <3> QED
      BY <1>10, <2>2, <2>4, <3>1, RecordDoes, HasLocal DEF Stands, Local
  <2> QED
    BY <2>3, <2>4
<1>11. ASSUME NEW t \in Threads, SortCalls(t) PROVE th' = [u \in Threads |-> th'[u]] /\ \A u \in Threads : Local(pc'[u], th'[u])
  <2>1. Alone(t) /\ pc[t] \in Steps
    BY <1>11, SortCallsDoes, HasLocal
  <2> SUFFICES Local(pc'[t], th'[t])
    BY <2>1, OthersLocal DEF Alone
  <2>2. CASE calls.items = NoCalls.items
    <3>1. Stands(t, "sort limits", th[t].start, th[t].end, th[t].todo, th[t].kept, th[t].dump)
      BY <1>11, <2>2, SortCallsDoes
    <3> QED
      BY <1>11, <2>2, <3>1, SortCallsDoes, HasLocal, PositionsAre, NoLines DEF Stands, Local
  <2>3. CASE calls.items # NoCalls.items
    <3>1. Stands(t, "calls sorted", th[t].start, th[t].end, th[t].todo, calls, th[t].dump)
      BY <1>11, <2>3, SortCallsDoes
    <3> QED
      BY <1>11, <2>3, <3>1, SortCallsDoes, HasLocal, PositionsAre, NoLines DEF Typed, Stands, Local
  <2> QED
    BY <2>2, <2>3
<1>12. ASSUME NEW t \in Threads, CallsSorted(t) PROVE th' = [u \in Threads |-> th'[u]] /\ \A u \in Threads : Local(pc'[u], th'[u])
  <2>1. Alone(t) /\ pc[t] \in Steps
    BY <1>12, CallsSortedDoes, HasLocal
  <2> SUFFICES Local(pc'[t], th'[t])
    BY <2>1, OthersLocal DEF Alone
  <2>2. CASE calls.allocated
    <3>1. Stands(t, "idle", 0, 0, << >>, NoCalls, << >>)
      BY <1>12, <2>2, CallsSortedDoes DEF Rests
    <3> QED
      BY <1>12, <2>2, <3>1, CallsSortedDoes, HasLocal, PositionsAre, NoLines DEF Stands, Local
  <2>3. CASE ~calls.allocated
    <3>1. Stands(t, "sort limits", th[t].start, th[t].end, th[t].todo, NoCalls, th[t].dump)
      BY <1>12, <2>3, CallsSortedDoes DEF Rests
    <3> QED
      BY <1>12, <2>3, <3>1, CallsSortedDoes, HasLocal, PositionsAre, NoLines DEF Stands, Local
  <2> QED
    BY <2>2, <2>3
<1>13. ASSUME NEW t \in Threads, SortLimits(t) PROVE th' = [u \in Threads |-> th'[u]] /\ \A u \in Threads : Local(pc'[u], th'[u])
  <2>1. Alone(t) /\ pc[t] \in Steps
    BY <1>13, SortLimitsDoes, HasLocal
  <2> SUFFICES Local(pc'[t], th'[t])
    BY <2>1, OthersLocal DEF Alone
  <2>2. CASE limits.items = 0
    <3>1. Stands(t, "save", th[t].start, th[t].end, th[t].todo, th[t].kept, th[t].dump)
      BY <1>13, <2>2, SortLimitsDoes
    <3> QED
      BY <1>13, <2>2, <3>1, SortLimitsDoes, HasLocal, PositionsAre, NoLines DEF Stands, Local
  <2>3. CASE limits.items # 0
    <3>1. Stands(t, "limits sorted", th[t].start, th[t].end, th[t].todo, limits, th[t].dump)
      BY <1>13, <2>3, SortLimitsDoes
    <3> QED
      BY <1>13, <2>3, <3>1, SortLimitsDoes, HasLocal, PositionsAre, NoLines DEF Typed, Stands, Local
  <2> QED
    BY <2>2, <2>3
<1>14. ASSUME NEW t \in Threads, LimitsSorted(t) PROVE th' = [u \in Threads |-> th'[u]] /\ \A u \in Threads : Local(pc'[u], th'[u])
  <2>1. Alone(t) /\ pc[t] \in Steps
    BY <1>14, LimitsSortedDoes, HasLocal
  <2> SUFFICES Local(pc'[t], th'[t])
    BY <2>1, OthersLocal DEF Alone
  <2>2. CASE limits.allocated
    <3>1. Stands(t, "idle", 0, 0, << >>, NoCalls, << >>)
      BY <1>14, <2>2, LimitsSortedDoes DEF Rests
    <3> QED
      BY <1>14, <2>2, <3>1, LimitsSortedDoes, HasLocal, PositionsAre, NoLines DEF Stands, Local
  <2>3. CASE ~limits.allocated
    <3>1. Stands(t, "save", th[t].start, th[t].end, th[t].todo, NoCalls, th[t].dump)
      BY <1>14, <2>3, LimitsSortedDoes DEF Rests
    <3> QED
      BY <1>14, <2>3, <3>1, LimitsSortedDoes, HasLocal, PositionsAre, NoLines DEF Stands, Local
  <2> QED
    BY <2>2, <2>3
<1>15. ASSUME NEW t \in Threads, Dump(t) PROVE th' = [u \in Threads |-> th'[u]] /\ \A u \in Threads : Local(pc'[u], th'[u])
  <2>1. Alone(t)
    BY <1>15, DumpDoes
  <2> SUFFICES Local(pc'[t], th'[t])
    BY <2>1, OthersLocal DEF Alone
  <2> DEFINE dump == [offset |-> offset, calls |-> calls.items, limits |-> limits.items]
  <2>2. dump \in Saved
    BY PositionsAre DEF Typed, Saved, CallList, LimitList
  <2>3. CASE th[t].new \/ up = "starting"
    <3>1. Stands(t, "open", 0, 0, << >>, NoCalls, dump)
      BY <1>15, <2>3, DumpDoes
    <3> HIDE DEF dump
    <3> QED
      BY <2>2, <3>1, PositionsAre, NoLines DEF Stands, Local
  <2>4. CASE ~(th[t].new \/ up = "starting")
    <3>1. Stands(t, "idle", 0, 0, << >>, NoCalls, << >>)
      BY <1>15, <2>4, DumpDoes DEF Rests
    <3> QED
      BY <3>1, PositionsAre, NoLines DEF Stands, Local
  <2> QED
    BY <2>3, <2>4
<1>16. ASSUME NEW t \in Threads, Open(t) PROVE th' = [u \in Threads |-> th'[u]] /\ \A u \in Threads : Local(pc'[u], th'[u])
  <2>1. Alone(t) /\ pc[t] \in Steps
    BY <1>16, OpenDoes, HasLocal
  <2>2. Stands(t, "write", th[t].start, th[t].end, th[t].todo, th[t].kept, th[t].dump)
    BY <1>16, OpenDoes
  <2>3. Local(pc'[t], th'[t])
    BY <1>16, <2>2, OpenDoes, HasLocal, PositionsAre, NoLines DEF Stands, Local
  <2> QED
    BY <2>1, <2>3, OthersLocal DEF Alone
<1>17. ASSUME NEW t \in Threads, Write(t) PROVE th' = [u \in Threads |-> th'[u]] /\ \A u \in Threads : Local(pc'[u], th'[u])
  <2>1. Alone(t) /\ pc[t] \in Steps
    BY <1>17, WriteDoes, HasLocal
  <2>2. Stands(t, "idle", 0, 0, << >>, NoCalls, << >>)
    BY <1>17, WriteDoes DEF Rests
  <2>3. Local(pc'[t], th'[t])
    BY <1>17, <2>2, WriteDoes, HasLocal, PositionsAre, NoLines DEF Stands, Local
  <2> QED
    BY <2>1, <2>3, OthersLocal DEF Alone
<1>18. ASSUME NEW s \in Sessions, Use(s) PROVE th' = [u \in Threads |-> th'[u]] /\ \A u \in Threads : Local(pc'[u], th'[u])
  <2>1. UNCHANGED <<pc, th>>
    BY <1>18 DEF Use, Metering
  <2> QED
    BY <2>1, LocalsStay
<1>19. ASSUME NEW s \in Sessions, Export(s) PROVE th' = [u \in Threads |-> th'[u]] /\ \A u \in Threads : Local(pc'[u], th'[u])
  <2>1. UNCHANGED <<pc, th>>
    BY <1>19 DEF Export, Metering
  <2> QED
    BY <2>1, LocalsStay
<1>20. ASSUME NEW p \in posts, Lose(p) PROVE th' = [u \in Threads |-> th'[u]] /\ \A u \in Threads : Local(pc'[u], th'[u])
  <2>1. UNCHANGED <<pc, th>>
    BY <1>20 DEF Lose, Metering
  <2> QED
    BY <2>1, LocalsStay
<1>21. ASSUME NEW p \in posts, IngestPost(p) PROVE th' = [u \in Threads |-> th'[u]] /\ \A u \in Threads : Local(pc'[u], th'[u])
  <2>1. UNCHANGED <<pc, th>>
    BY <1>21 DEF IngestPost, Metering
  <2> QED
    BY <2>1, LocalsStay
<1>22. ASSUME Crash PROVE th' = [u \in Threads |-> th'[u]] /\ \A u \in Threads : Local(pc'[u], th'[u])
  <2>1. th' = [t \in Threads |-> Idle] /\ pc' = [t \in Threads |-> "idle"]
    BY <1>22 DEF Crash
  <2>2. Local("idle", Idle)
    BY IdleVariables, PositionsAre, NoLines DEF Local
  <2> QED
    BY <2>1, <2>2
<1>23. ASSUME UNCHANGED vars PROVE th' = [u \in Threads |-> th'[u]] /\ \A u \in Threads : Local(pc'[u], th'[u])
  <2>1. UNCHANGED <<pc, th>>
    BY <1>23 DEF vars
  <2> QED
    BY <2>1, LocalsStay
<1> QED
  BY <1>1, <1>2, <1>3, <1>4, <1>5, <1>6, <1>7, <1>8, <1>9, <1>10, <1>11, <1>12, <1>13, <1>14, <1>15, <1>16, <1>17, <1>18, <1>19, <1>20, <1>21, <1>22, <1>23, Zenon DEF Next, Thread

\* The file keeps its type.
LEMMA DiskStep ==
  ASSUME TypeOK, Typed, [Next]_vars
  PROVE  /\ file' \in Seq(Lines) /\ partial' \in BOOLEAN /\ (partial' => file' # << >>)
         /\ Len(file') <= MaxLines
<1>1. ASSUME NEW line \in Requests \cup {Limit}, WriteLine(line) PROVE /\ file' \in Seq(Lines) /\ partial' \in BOOLEAN /\ (partial' => file' # << >>)
         /\ Len(file') <= MaxLines
  <2>1. line \in Lines
    BY <1>1 DEF Lines
  <2>2. file' = Append(file, line) /\ partial' \in BOOLEAN /\ Len(file) < MaxLines /\ file \in Seq(Lines)
    BY <1>1 DEF WriteLine, Typed
  <2>3. file' \in Seq(Lines) /\ Len(file') = Len(file) + 1
    BY <2>1, <2>2, AppendProperties
  <2>4. Len(file) \in Nat /\ MaxLines \in Nat
    BY <2>2, BoundsAssumption
  <2>5. file' # << >> /\ Len(file') <= MaxLines
    BY <2>2, <2>3, <2>4
  <2> QED
    BY <2>2, <2>3, <2>5
<1>2. ASSUME WriteRest PROVE /\ file' \in Seq(Lines) /\ partial' \in BOOLEAN /\ (partial' => file' # << >>)
         /\ Len(file') <= MaxLines
  BY <1>2 DEF WriteRest, Recording, vars, disk, store, history, telemetry, TypeOK, Typed, Lines
<1>3. ASSUME Rotate PROVE /\ file' \in Seq(Lines) /\ partial' \in BOOLEAN /\ (partial' => file' # << >>)
         /\ Len(file') <= MaxLines
  <2>1. file' = << >> /\ partial' = FALSE
    BY <1>3 DEF Rotate
  <2>2. Len(<< >>) = 0 /\ MaxLines \in Nat
    BY BoundsAssumption
  <2>3. file' \in Seq(Lines) /\ Len(file') <= MaxLines
    BY <2>1, <2>2, NoLines
  <2>4. partial' \in BOOLEAN /\ ~partial'
    BY <2>1
  <2> QED
    BY <2>3, <2>4
<1>4. ASSUME NEW t \in Threads, Boot(t) PROVE /\ file' \in Seq(Lines) /\ partial' \in BOOLEAN /\ (partial' => file' # << >>)
         /\ Len(file') <= MaxLines
  BY <1>4 DEF Boot, Storing, vars, disk, store, history, telemetry, TypeOK, Typed, Lines
<1>5. ASSUME NEW t \in Threads, Get(t) PROVE /\ file' \in Seq(Lines) /\ partial' \in BOOLEAN /\ (partial' => file' # << >>)
         /\ Len(file') <= MaxLines
  BY <1>5 DEF Get, vars, disk, store, history, telemetry, TypeOK, Typed, Lines
<1>6. ASSUME NEW t \in Threads, Look(t) PROVE /\ file' \in Seq(Lines) /\ partial' \in BOOLEAN /\ (partial' => file' # << >>)
         /\ Len(file') <= MaxLines
  BY <1>6 DEF Look, Storing, vars, disk, store, history, telemetry, TypeOK, Typed, Lines
<1>7. ASSUME NEW t \in Threads, Read(t) PROVE /\ file' \in Seq(Lines) /\ partial' \in BOOLEAN /\ (partial' => file' # << >>)
         /\ Len(file') <= MaxLines
  BY <1>7 DEF Read, Storing, vars, disk, store, history, telemetry, TypeOK, Typed, Lines
<1>8. ASSUME NEW t \in Threads, SetOffset(t) PROVE /\ file' \in Seq(Lines) /\ partial' \in BOOLEAN /\ (partial' => file' # << >>)
         /\ Len(file') <= MaxLines
  BY <1>8 DEF SetOffset, Storing, vars, disk, store, history, telemetry, TypeOK, Typed, Lines
<1>9. ASSUME NEW t \in Threads, Ingest(t) PROVE /\ file' \in Seq(Lines) /\ partial' \in BOOLEAN /\ (partial' => file' # << >>)
         /\ Len(file') <= MaxLines
  BY <1>9 DEF Ingest, Storing, vars, disk, store, history, telemetry, TypeOK, Typed, Lines
<1>10. ASSUME NEW t \in Threads, Record(t) PROVE /\ file' \in Seq(Lines) /\ partial' \in BOOLEAN /\ (partial' => file' # << >>)
         /\ Len(file') <= MaxLines
  BY <1>10 DEF Record, Storing, vars, disk, store, history, telemetry, TypeOK, Typed, Lines
<1>11. ASSUME NEW t \in Threads, SortCalls(t) PROVE /\ file' \in Seq(Lines) /\ partial' \in BOOLEAN /\ (partial' => file' # << >>)
         /\ Len(file') <= MaxLines
  BY <1>11 DEF SortCalls, Storing, vars, disk, store, history, telemetry, TypeOK, Typed, Lines
<1>12. ASSUME NEW t \in Threads, CallsSorted(t) PROVE /\ file' \in Seq(Lines) /\ partial' \in BOOLEAN /\ (partial' => file' # << >>)
         /\ Len(file') <= MaxLines
  BY <1>12 DEF CallsSorted, Storing, vars, disk, store, history, telemetry, TypeOK, Typed, Lines
<1>13. ASSUME NEW t \in Threads, SortLimits(t) PROVE /\ file' \in Seq(Lines) /\ partial' \in BOOLEAN /\ (partial' => file' # << >>)
         /\ Len(file') <= MaxLines
  BY <1>13 DEF SortLimits, Storing, vars, disk, store, history, telemetry, TypeOK, Typed, Lines
<1>14. ASSUME NEW t \in Threads, LimitsSorted(t) PROVE /\ file' \in Seq(Lines) /\ partial' \in BOOLEAN /\ (partial' => file' # << >>)
         /\ Len(file') <= MaxLines
  BY <1>14 DEF LimitsSorted, Storing, vars, disk, store, history, telemetry, TypeOK, Typed, Lines
<1>15. ASSUME NEW t \in Threads, Dump(t) PROVE /\ file' \in Seq(Lines) /\ partial' \in BOOLEAN /\ (partial' => file' # << >>)
         /\ Len(file') <= MaxLines
  BY <1>15 DEF Dump, Storing, vars, disk, store, history, telemetry, TypeOK, Typed, Lines
<1>16. ASSUME NEW t \in Threads, Open(t) PROVE /\ file' \in Seq(Lines) /\ partial' \in BOOLEAN /\ (partial' => file' # << >>)
         /\ Len(file') <= MaxLines
  BY <1>16 DEF Open, Storing, vars, disk, store, history, telemetry, TypeOK, Typed, Lines
<1>17. ASSUME NEW t \in Threads, Write(t) PROVE /\ file' \in Seq(Lines) /\ partial' \in BOOLEAN /\ (partial' => file' # << >>)
         /\ Len(file') <= MaxLines
  BY <1>17 DEF Write, Storing, vars, disk, store, history, telemetry, TypeOK, Typed, Lines
<1>18. ASSUME NEW s \in Sessions, Use(s) PROVE /\ file' \in Seq(Lines) /\ partial' \in BOOLEAN /\ (partial' => file' # << >>)
         /\ Len(file') <= MaxLines
  BY <1>18 DEF Use, Metering, vars, disk, store, history, telemetry, TypeOK, Typed, Lines
<1>19. ASSUME NEW s \in Sessions, Export(s) PROVE /\ file' \in Seq(Lines) /\ partial' \in BOOLEAN /\ (partial' => file' # << >>)
         /\ Len(file') <= MaxLines
  BY <1>19 DEF Export, Metering, vars, disk, store, history, telemetry, TypeOK, Typed, Lines
<1>20. ASSUME NEW p \in posts, Lose(p) PROVE /\ file' \in Seq(Lines) /\ partial' \in BOOLEAN /\ (partial' => file' # << >>)
         /\ Len(file') <= MaxLines
  BY <1>20 DEF Lose, Metering, vars, disk, store, history, telemetry, TypeOK, Typed, Lines
<1>21. ASSUME NEW p \in posts, IngestPost(p) PROVE /\ file' \in Seq(Lines) /\ partial' \in BOOLEAN /\ (partial' => file' # << >>)
         /\ Len(file') <= MaxLines
  BY <1>21 DEF IngestPost, Metering, vars, disk, store, history, telemetry, TypeOK, Typed, Lines
<1>22. ASSUME Crash PROVE /\ file' \in Seq(Lines) /\ partial' \in BOOLEAN /\ (partial' => file' # << >>)
         /\ Len(file') <= MaxLines
  BY <1>22 DEF Crash, vars, disk, store, history, telemetry, TypeOK, Typed, Lines
<1>23. ASSUME UNCHANGED vars PROVE /\ file' \in Seq(Lines) /\ partial' \in BOOLEAN /\ (partial' => file' # << >>)
         /\ Len(file') <= MaxLines
  BY <1>23 DEF vars, disk, store, history, telemetry, TypeOK, Typed, Lines
<1> QED
  BY <1>1, <1>2, <1>3, <1>4, <1>5, <1>6, <1>7, <1>8, <1>9, <1>10, <1>11, <1>12, <1>13, <1>14, <1>15, <1>16, <1>17, <1>18, <1>19, <1>20, <1>21, <1>22, <1>23, Zenon DEF Next, Thread

\* The lists keep their types.
LEMMA ListsStep ==
  ASSUME TypeOK, Typed, [Next]_vars
  PROVE  calls' \in CallList /\ limits' \in LimitList
<1>1. ASSUME NEW line \in Requests \cup {Limit}, WriteLine(line) PROVE calls' \in CallList /\ limits' \in LimitList
  BY <1>1 DEF WriteLine, Recording, vars, disk, store, history, telemetry, Typed
<1>2. ASSUME WriteRest PROVE calls' \in CallList /\ limits' \in LimitList
  BY <1>2 DEF WriteRest, Recording, vars, disk, store, history, telemetry, Typed
<1>3. ASSUME Rotate PROVE calls' \in CallList /\ limits' \in LimitList
  BY <1>3 DEF Rotate, Recording, vars, disk, store, history, telemetry, Typed
<1>4. ASSUME NEW t \in Threads, Boot(t) PROVE calls' \in CallList /\ limits' \in LimitList
  <2>1. CASE Loadable
    <3>1. cache.calls \in [Requests -> Nat] /\ cache.limits \in Nat
      BY <2>1 DEF Typed, Saved
    <3>2. calls' = [NoCalls EXCEPT !.items = cache.calls] /\ limits' = [NoLimits EXCEPT !.items = cache.limits]
      BY <1>4, <2>1 DEF Boot
    <3> QED
      BY <3>1, <3>2, Lists
  <2>2. CASE ~Loadable
    BY <1>4, <2>2 DEF Boot, store, Typed
  <2> QED
    BY <2>1, <2>2
<1>5. ASSUME NEW t \in Threads, Get(t) PROVE calls' \in CallList /\ limits' \in LimitList
  BY <1>5 DEF Get, vars, disk, store, history, telemetry, Typed
<1>6. ASSUME NEW t \in Threads, Look(t) PROVE calls' \in CallList /\ limits' \in LimitList
  BY <1>6 DEF Look, Storing, vars, disk, store, history, telemetry, Typed
<1>7. ASSUME NEW t \in Threads, Read(t) PROVE calls' \in CallList /\ limits' \in LimitList
  BY <1>7 DEF Read, Storing, vars, disk, store, history, telemetry, Typed
<1>8. ASSUME NEW t \in Threads, SetOffset(t) PROVE calls' \in CallList /\ limits' \in LimitList
  BY <1>8 DEF SetOffset, Storing, vars, disk, store, history, telemetry, Typed
<1>9. ASSUME NEW t \in Threads, Ingest(t) PROVE calls' \in CallList /\ limits' \in LimitList
  <2>1. calls' = calls /\ limits' \in {limits, Added(limits, limits.items + 1)}
    BY <1>9 DEF Ingest
  <2>2. calls \in CallList /\ limits \in LimitList /\ limits.items + 1 \in Nat
    BY DEF Typed, LimitList
  <2> QED
    BY <2>1, <2>2, Lists
<1>10. ASSUME NEW t \in Threads, Record(t) PROVE calls' \in CallList /\ limits' \in LimitList
  <2> DEFINE r == Head(th[t].todo)
  <2>1. limits' = limits /\ calls' = Added(calls, [calls.items EXCEPT ![r] = calls.items[r] + 1])
    BY <1>10 DEF Record
  <2>2. calls \in CallList /\ limits \in LimitList /\ calls.items \in [Requests -> Nat]
    BY DEF Typed, CallList
  <2>3. r \in Requests
    BY <1>10 DEF Record, TypeOK
  <2> HIDE DEF r
  <2>4. [calls.items EXCEPT ![r] = calls.items[r] + 1] \in [Requests -> Nat]
    BY <2>2, <2>3
  <2> QED
    BY <2>1, <2>2, <2>4, Lists
<1>11. ASSUME NEW t \in Threads, SortCalls(t) PROVE calls' \in CallList /\ limits' \in LimitList
  <2>1. calls' \in {calls, [NoCalls EXCEPT !.allocated = FALSE]} /\ limits' = limits
    BY <1>11 DEF SortCalls
  <2> QED
    BY <2>1, Lists DEF Typed
<1>12. ASSUME NEW t \in Threads, CallsSorted(t) PROVE calls' \in CallList /\ limits' \in LimitList
  <2>1. calls' = th[t].kept /\ limits' = limits /\ pc[t] = "calls sorted"
    BY <1>12 DEF CallsSorted
  <2> QED
    BY <2>1, HasLocal DEF Typed
<1>13. ASSUME NEW t \in Threads, SortLimits(t) PROVE calls' \in CallList /\ limits' \in LimitList
  <2>1. limits' \in {limits, [NoLimits EXCEPT !.allocated = FALSE]} /\ calls' = calls
    BY <1>13 DEF SortLimits
  <2> QED
    BY <2>1, Lists DEF Typed
<1>14. ASSUME NEW t \in Threads, LimitsSorted(t) PROVE calls' \in CallList /\ limits' \in LimitList
  <2>1. limits' = th[t].kept /\ calls' = calls /\ pc[t] = "limits sorted"
    BY <1>14 DEF LimitsSorted
  <2> QED
    BY <2>1, HasLocal DEF Typed
<1>15. ASSUME NEW t \in Threads, Dump(t) PROVE calls' \in CallList /\ limits' \in LimitList
  BY <1>15 DEF Dump, Storing, vars, disk, store, history, telemetry, Typed
<1>16. ASSUME NEW t \in Threads, Open(t) PROVE calls' \in CallList /\ limits' \in LimitList
  BY <1>16 DEF Open, Storing, vars, disk, store, history, telemetry, Typed
<1>17. ASSUME NEW t \in Threads, Write(t) PROVE calls' \in CallList /\ limits' \in LimitList
  BY <1>17 DEF Write, Storing, vars, disk, store, history, telemetry, Typed
<1>18. ASSUME NEW s \in Sessions, Use(s) PROVE calls' \in CallList /\ limits' \in LimitList
  BY <1>18 DEF Use, Metering, vars, disk, store, history, telemetry, Typed
<1>19. ASSUME NEW s \in Sessions, Export(s) PROVE calls' \in CallList /\ limits' \in LimitList
  BY <1>19 DEF Export, Metering, vars, disk, store, history, telemetry, Typed
<1>20. ASSUME NEW p \in posts, Lose(p) PROVE calls' \in CallList /\ limits' \in LimitList
  BY <1>20 DEF Lose, Metering, vars, disk, store, history, telemetry, Typed
<1>21. ASSUME NEW p \in posts, IngestPost(p) PROVE calls' \in CallList /\ limits' \in LimitList
  BY <1>21 DEF IngestPost, Metering, vars, disk, store, history, telemetry, Typed
<1>22. ASSUME Crash PROVE calls' \in CallList /\ limits' \in LimitList
  BY <1>22, Lists DEF Crash, vars, disk, store, history, telemetry, Typed
<1>23. ASSUME UNCHANGED vars PROVE calls' \in CallList /\ limits' \in LimitList
  BY <1>23 DEF vars, disk, store, history, telemetry, Typed
<1> QED
  BY <1>1, <1>2, <1>3, <1>4, <1>5, <1>6, <1>7, <1>8, <1>9, <1>10, <1>11, <1>12, <1>13, <1>14, <1>15, <1>16, <1>17, <1>18, <1>19, <1>20, <1>21, <1>22, <1>23, Zenon DEF Next, Thread

\* What can be loaded is of its type.
LEMMA CacheStep ==
  ASSUME TypeOK, Typed, [Next]_vars
  PROVE  Loadable' => cache' \in Saved
<1>1. ASSUME NEW line \in Requests \cup {Limit}, WriteLine(line) PROVE Loadable' => cache' \in Saved
  BY <1>1 DEF WriteLine, Recording, vars, disk, store, history, telemetry, Typed, Loadable
<1>2. ASSUME WriteRest PROVE Loadable' => cache' \in Saved
  BY <1>2 DEF WriteRest, Recording, vars, disk, store, history, telemetry, Typed, Loadable
<1>3. ASSUME Rotate PROVE Loadable' => cache' \in Saved
  BY <1>3 DEF Rotate, Recording, vars, disk, store, history, telemetry, Typed, Loadable
<1>4. ASSUME NEW t \in Threads, Boot(t) PROVE Loadable' => cache' \in Saved
  BY <1>4 DEF Boot, Storing, vars, disk, store, history, telemetry, Typed, Loadable
<1>5. ASSUME NEW t \in Threads, Get(t) PROVE Loadable' => cache' \in Saved
  BY <1>5 DEF Get, vars, disk, store, history, telemetry, Typed, Loadable
<1>6. ASSUME NEW t \in Threads, Look(t) PROVE Loadable' => cache' \in Saved
  BY <1>6 DEF Look, Storing, vars, disk, store, history, telemetry, Typed, Loadable
<1>7. ASSUME NEW t \in Threads, Read(t) PROVE Loadable' => cache' \in Saved
  BY <1>7 DEF Read, Storing, vars, disk, store, history, telemetry, Typed, Loadable
<1>8. ASSUME NEW t \in Threads, SetOffset(t) PROVE Loadable' => cache' \in Saved
  BY <1>8 DEF SetOffset, Storing, vars, disk, store, history, telemetry, Typed, Loadable
<1>9. ASSUME NEW t \in Threads, Ingest(t) PROVE Loadable' => cache' \in Saved
  BY <1>9 DEF Ingest, Storing, vars, disk, store, history, telemetry, Typed, Loadable
<1>10. ASSUME NEW t \in Threads, Record(t) PROVE Loadable' => cache' \in Saved
  BY <1>10 DEF Record, Storing, vars, disk, store, history, telemetry, Typed, Loadable
<1>11. ASSUME NEW t \in Threads, SortCalls(t) PROVE Loadable' => cache' \in Saved
  BY <1>11 DEF SortCalls, Storing, vars, disk, store, history, telemetry, Typed, Loadable
<1>12. ASSUME NEW t \in Threads, CallsSorted(t) PROVE Loadable' => cache' \in Saved
  BY <1>12 DEF CallsSorted, Storing, vars, disk, store, history, telemetry, Typed, Loadable
<1>13. ASSUME NEW t \in Threads, SortLimits(t) PROVE Loadable' => cache' \in Saved
  BY <1>13 DEF SortLimits, Storing, vars, disk, store, history, telemetry, Typed, Loadable
<1>14. ASSUME NEW t \in Threads, LimitsSorted(t) PROVE Loadable' => cache' \in Saved
  BY <1>14 DEF LimitsSorted, Storing, vars, disk, store, history, telemetry, Typed, Loadable
<1>15. ASSUME NEW t \in Threads, Dump(t) PROVE Loadable' => cache' \in Saved
  BY <1>15 DEF Dump, Storing, vars, disk, store, history, telemetry, Typed, Loadable
<1>16. ASSUME NEW t \in Threads, Open(t) PROVE Loadable' => cache' \in Saved
  BY <1>16 DEF Open, Storing, vars, disk, store, history, telemetry, Typed, Loadable
<1>17. ASSUME NEW t \in Threads, Write(t) PROVE Loadable' => cache' \in Saved
  BY <1>17, HasLocal DEF Write, Storing, vars, disk, store, history, telemetry, Typed, Loadable
<1>18. ASSUME NEW s \in Sessions, Use(s) PROVE Loadable' => cache' \in Saved
  BY <1>18 DEF Use, Metering, vars, disk, store, history, telemetry, Typed, Loadable
<1>19. ASSUME NEW s \in Sessions, Export(s) PROVE Loadable' => cache' \in Saved
  BY <1>19 DEF Export, Metering, vars, disk, store, history, telemetry, Typed, Loadable
<1>20. ASSUME NEW p \in posts, Lose(p) PROVE Loadable' => cache' \in Saved
  BY <1>20 DEF Lose, Metering, vars, disk, store, history, telemetry, Typed, Loadable
<1>21. ASSUME NEW p \in posts, IngestPost(p) PROVE Loadable' => cache' \in Saved
  BY <1>21 DEF IngestPost, Metering, vars, disk, store, history, telemetry, Typed, Loadable
<1>22. ASSUME Crash PROVE Loadable' => cache' \in Saved
  BY <1>22 DEF Crash, vars, disk, store, history, telemetry, Typed, Loadable
<1>23. ASSUME UNCHANGED vars PROVE Loadable' => cache' \in Saved
  BY <1>23 DEF vars, disk, store, history, telemetry, Typed, Loadable
<1> QED
  BY <1>1, <1>2, <1>3, <1>4, <1>5, <1>6, <1>7, <1>8, <1>9, <1>10, <1>11, <1>12, <1>13, <1>14, <1>15, <1>16, <1>17, <1>18, <1>19, <1>20, <1>21, <1>22, <1>23, Zenon DEF Next, Thread

\* A server that is down has nothing in memory.
LEMMA DownStep ==
  ASSUME TypeOK, Typed, [Next]_vars
  PROVE  up' = "down" =>
           /\ offset' = 0 /\ calls' = NoCalls /\ limits' = NoLimits /\ seen' = {}
           /\ \A u \in Threads : pc'[u] = "idle"
<1>1. ASSUME NEW line \in Requests \cup {Limit}, WriteLine(line) PROVE up' = "down" =>
           /\ offset' = 0 /\ calls' = NoCalls /\ limits' = NoLimits /\ seen' = {}
           /\ \A u \in Threads : pc'[u] = "idle"
  BY <1>1 DEF WriteLine, Recording, vars, disk, store, history, telemetry, TypeOK, Typed
<1>2. ASSUME WriteRest PROVE up' = "down" =>
           /\ offset' = 0 /\ calls' = NoCalls /\ limits' = NoLimits /\ seen' = {}
           /\ \A u \in Threads : pc'[u] = "idle"
  BY <1>2 DEF WriteRest, Recording, vars, disk, store, history, telemetry, TypeOK, Typed
<1>3. ASSUME Rotate PROVE up' = "down" =>
           /\ offset' = 0 /\ calls' = NoCalls /\ limits' = NoLimits /\ seen' = {}
           /\ \A u \in Threads : pc'[u] = "idle"
  BY <1>3 DEF Rotate, Recording, vars, disk, store, history, telemetry, TypeOK, Typed
<1>4. ASSUME NEW t \in Threads, Boot(t) PROVE up' = "down" =>
           /\ offset' = 0 /\ calls' = NoCalls /\ limits' = NoLimits /\ seen' = {}
           /\ \A u \in Threads : pc'[u] = "idle"
  BY <1>4 DEF Boot
<1>5. ASSUME NEW t \in Threads, Get(t) PROVE up' = "down" =>
           /\ offset' = 0 /\ calls' = NoCalls /\ limits' = NoLimits /\ seen' = {}
           /\ \A u \in Threads : pc'[u] = "idle"
  BY <1>5 DEF Get
<1>6. ASSUME NEW t \in Threads, Look(t) PROVE up' = "down" =>
           /\ offset' = 0 /\ calls' = NoCalls /\ limits' = NoLimits /\ seen' = {}
           /\ \A u \in Threads : pc'[u] = "idle"
  <2>1. up' = "serving" \/ (up' = up /\ pc[t] # "idle")
    BY <1>6 DEF Look, Answers
  <2> QED
    BY <2>1 DEF Typed
<1>7. ASSUME NEW t \in Threads, Read(t) PROVE up' = "down" =>
           /\ offset' = 0 /\ calls' = NoCalls /\ limits' = NoLimits /\ seen' = {}
           /\ \A u \in Threads : pc'[u] = "idle"
  <2>1. up' = "serving" \/ (up' = up /\ pc[t] # "idle")
    BY <1>7 DEF Read, Answers
  <2> QED
    BY <2>1 DEF Typed
<1>8. ASSUME NEW t \in Threads, SetOffset(t) PROVE up' = "down" =>
           /\ offset' = 0 /\ calls' = NoCalls /\ limits' = NoLimits /\ seen' = {}
           /\ \A u \in Threads : pc'[u] = "idle"
  <2>1. up' = "serving" \/ (up' = up /\ pc[t] # "idle")
    BY <1>8 DEF SetOffset, Answers
  <2> QED
    BY <2>1 DEF Typed
<1>9. ASSUME NEW t \in Threads, Ingest(t) PROVE up' = "down" =>
           /\ offset' = 0 /\ calls' = NoCalls /\ limits' = NoLimits /\ seen' = {}
           /\ \A u \in Threads : pc'[u] = "idle"
  <2>1. up' = "serving" \/ (up' = up /\ pc[t] # "idle")
    BY <1>9 DEF Ingest, Answers
  <2> QED
    BY <2>1 DEF Typed
<1>10. ASSUME NEW t \in Threads, Record(t) PROVE up' = "down" =>
           /\ offset' = 0 /\ calls' = NoCalls /\ limits' = NoLimits /\ seen' = {}
           /\ \A u \in Threads : pc'[u] = "idle"
  <2>1. up' = "serving" \/ (up' = up /\ pc[t] # "idle")
    BY <1>10 DEF Record, Answers
  <2> QED
    BY <2>1 DEF Typed
<1>11. ASSUME NEW t \in Threads, SortCalls(t) PROVE up' = "down" =>
           /\ offset' = 0 /\ calls' = NoCalls /\ limits' = NoLimits /\ seen' = {}
           /\ \A u \in Threads : pc'[u] = "idle"
  <2>1. up' = "serving" \/ (up' = up /\ pc[t] # "idle")
    BY <1>11 DEF SortCalls, Answers
  <2> QED
    BY <2>1 DEF Typed
<1>12. ASSUME NEW t \in Threads, CallsSorted(t) PROVE up' = "down" =>
           /\ offset' = 0 /\ calls' = NoCalls /\ limits' = NoLimits /\ seen' = {}
           /\ \A u \in Threads : pc'[u] = "idle"
  <2>1. up' = "serving" \/ (up' = up /\ pc[t] # "idle")
    BY <1>12 DEF CallsSorted, Answers
  <2> QED
    BY <2>1 DEF Typed
<1>13. ASSUME NEW t \in Threads, SortLimits(t) PROVE up' = "down" =>
           /\ offset' = 0 /\ calls' = NoCalls /\ limits' = NoLimits /\ seen' = {}
           /\ \A u \in Threads : pc'[u] = "idle"
  <2>1. up' = "serving" \/ (up' = up /\ pc[t] # "idle")
    BY <1>13 DEF SortLimits, Answers
  <2> QED
    BY <2>1 DEF Typed
<1>14. ASSUME NEW t \in Threads, LimitsSorted(t) PROVE up' = "down" =>
           /\ offset' = 0 /\ calls' = NoCalls /\ limits' = NoLimits /\ seen' = {}
           /\ \A u \in Threads : pc'[u] = "idle"
  <2>1. up' = "serving" \/ (up' = up /\ pc[t] # "idle")
    BY <1>14 DEF LimitsSorted, Answers
  <2> QED
    BY <2>1 DEF Typed
<1>15. ASSUME NEW t \in Threads, Dump(t) PROVE up' = "down" =>
           /\ offset' = 0 /\ calls' = NoCalls /\ limits' = NoLimits /\ seen' = {}
           /\ \A u \in Threads : pc'[u] = "idle"
  <2>1. up' = "serving" \/ (up' = up /\ pc[t] # "idle")
    BY <1>15 DEF Dump, Answers
  <2> QED
    BY <2>1 DEF Typed
<1>16. ASSUME NEW t \in Threads, Open(t) PROVE up' = "down" =>
           /\ offset' = 0 /\ calls' = NoCalls /\ limits' = NoLimits /\ seen' = {}
           /\ \A u \in Threads : pc'[u] = "idle"
  <2>1. up' = "serving" \/ (up' = up /\ pc[t] # "idle")
    BY <1>16 DEF Open, Answers
  <2> QED
    BY <2>1 DEF Typed
<1>17. ASSUME NEW t \in Threads, Write(t) PROVE up' = "down" =>
           /\ offset' = 0 /\ calls' = NoCalls /\ limits' = NoLimits /\ seen' = {}
           /\ \A u \in Threads : pc'[u] = "idle"
  <2>1. up' = "serving" \/ (up' = up /\ pc[t] # "idle")
    BY <1>17 DEF Write, Answers
  <2> QED
    BY <2>1 DEF Typed
<1>18. ASSUME NEW s \in Sessions, Use(s) PROVE up' = "down" =>
           /\ offset' = 0 /\ calls' = NoCalls /\ limits' = NoLimits /\ seen' = {}
           /\ \A u \in Threads : pc'[u] = "idle"
  BY <1>18 DEF Use, Metering, vars, disk, store, history, telemetry, TypeOK, Typed
<1>19. ASSUME NEW s \in Sessions, Export(s) PROVE up' = "down" =>
           /\ offset' = 0 /\ calls' = NoCalls /\ limits' = NoLimits /\ seen' = {}
           /\ \A u \in Threads : pc'[u] = "idle"
  BY <1>19 DEF Export, Metering, vars, disk, store, history, telemetry, TypeOK, Typed
<1>20. ASSUME NEW p \in posts, Lose(p) PROVE up' = "down" =>
           /\ offset' = 0 /\ calls' = NoCalls /\ limits' = NoLimits /\ seen' = {}
           /\ \A u \in Threads : pc'[u] = "idle"
  BY <1>20 DEF Lose, Metering, vars, disk, store, history, telemetry, TypeOK, Typed
<1>21. ASSUME NEW p \in posts, IngestPost(p) PROVE up' = "down" =>
           /\ offset' = 0 /\ calls' = NoCalls /\ limits' = NoLimits /\ seen' = {}
           /\ \A u \in Threads : pc'[u] = "idle"
  BY <1>21 DEF IngestPost, Metering, vars, disk, store, history, telemetry, TypeOK, Typed
<1>22. ASSUME Crash PROVE up' = "down" =>
           /\ offset' = 0 /\ calls' = NoCalls /\ limits' = NoLimits /\ seen' = {}
           /\ \A u \in Threads : pc'[u] = "idle"
  BY <1>22 DEF Crash, vars, disk, store, history, telemetry, TypeOK, Typed
<1>23. ASSUME UNCHANGED vars PROVE up' = "down" =>
           /\ offset' = 0 /\ calls' = NoCalls /\ limits' = NoLimits /\ seen' = {}
           /\ \A u \in Threads : pc'[u] = "idle"
  BY <1>23 DEF vars, disk, store, history, telemetry, TypeOK, Typed
<1> QED
  BY <1>1, <1>2, <1>3, <1>4, <1>5, <1>6, <1>7, <1>8, <1>9, <1>10, <1>11, <1>12, <1>13, <1>14, <1>15, <1>16, <1>17, <1>18, <1>19, <1>20, <1>21, <1>22, <1>23, Zenon DEF Next, Thread

LEMMA TypedStep ==
  ASSUME TypeOK, Typed, [Next]_vars
  PROVE  Typed'
<1>1. file' \in Seq(Lines) /\ partial' \in BOOLEAN
  BY DiskStep
<1>2. calls' \in CallList /\ limits' \in LimitList
  BY ListsStep
<1>3. th' = [u \in Threads |-> th'[u]] /\ \A u \in Threads : Local(pc'[u], th'[u])
  BY LocalStep
<1>4. Loadable' => cache' \in Saved
  BY CacheStep
<1>5. up' = "down" => /\ offset' = 0 /\ calls' = NoCalls /\ limits' = NoLimits /\ seen' = {}
                      /\ \A t \in Threads : pc'[t] = "idle"
  BY DownStep
<1> QED
  BY <1>1, <1>2, <1>3, <1>4, <1>5 DEF Typed

\* Threads are at one of the steps, and record what is a request.
LEMMA ControlStep ==
  ASSUME TypeOK, Typed, [Next]_vars
  PROVE  /\ pc' = [u \in Threads |-> pc'[u]] /\ \A u \in Threads : pc'[u] \in Steps
         /\ \A u \in Threads : pc'[u] = "record" => Head(th'[u].todo) \in Requests
<1>1. ASSUME NEW line \in Requests \cup {Limit}, WriteLine(line) PROVE /\ pc' = [u \in Threads |-> pc'[u]] /\ \A u \in Threads : pc'[u] \in Steps
         /\ \A u \in Threads : pc'[u] = "record" => Head(th'[u].todo) \in Requests
  BY <1>1 DEF WriteLine, Recording, vars, disk, store, history, telemetry, TypeOK
<1>2. ASSUME WriteRest PROVE /\ pc' = [u \in Threads |-> pc'[u]] /\ \A u \in Threads : pc'[u] \in Steps
         /\ \A u \in Threads : pc'[u] = "record" => Head(th'[u].todo) \in Requests
  BY <1>2 DEF WriteRest, Recording, vars, disk, store, history, telemetry, TypeOK
<1>3. ASSUME Rotate PROVE /\ pc' = [u \in Threads |-> pc'[u]] /\ \A u \in Threads : pc'[u] \in Steps
         /\ \A u \in Threads : pc'[u] = "record" => Head(th'[u].todo) \in Requests
  BY <1>3 DEF Rotate, Recording, vars, disk, store, history, telemetry, TypeOK
<1>4. ASSUME NEW t \in Threads, Boot(t) PROVE /\ pc' = [u \in Threads |-> pc'[u]] /\ \A u \in Threads : pc'[u] \in Steps
         /\ \A u \in Threads : pc'[u] = "record" => Head(th'[u].todo) \in Requests
  <2>1. Alone(t)
    BY <1>4, BootDoes
  <2>2. pc'[t] \in Steps \ {"record"}
    BY <1>4, BootDoes DEF Stands, Rests, Left, Steps
  <2> QED
    BY <2>1, <2>2 DEF Alone, Others, TypeOK
<1>5. ASSUME NEW t \in Threads, Get(t) PROVE /\ pc' = [u \in Threads |-> pc'[u]] /\ \A u \in Threads : pc'[u] \in Steps
         /\ \A u \in Threads : pc'[u] = "record" => Head(th'[u].todo) \in Requests
  <2>1. Alone(t)
    BY <1>5, GetDoes
  <2>2. pc'[t] \in Steps \ {"record"}
    BY <1>5, GetDoes DEF Stands, Rests, Left, Steps
  <2> QED
    BY <2>1, <2>2 DEF Alone, Others, TypeOK
<1>6. ASSUME NEW t \in Threads, Look(t) PROVE /\ pc' = [u \in Threads |-> pc'[u]] /\ \A u \in Threads : pc'[u] \in Steps
         /\ \A u \in Threads : pc'[u] = "record" => Head(th'[u].todo) \in Requests
  <2>1. Alone(t)
    BY <1>6, LookDoes
  <2>2. pc'[t] \in Steps \ {"record"}
    BY <1>6, LookDoes DEF Stands, Rests, Left, Steps
  <2> QED
    BY <2>1, <2>2 DEF Alone, Others, TypeOK
<1>7. ASSUME NEW t \in Threads, Read(t) PROVE /\ pc' = [u \in Threads |-> pc'[u]] /\ \A u \in Threads : pc'[u] \in Steps
         /\ \A u \in Threads : pc'[u] = "record" => Head(th'[u].todo) \in Requests
  <2>1. Alone(t)
    BY <1>7, ReadDoes
  <2>2. pc'[t] \in Steps \ {"record"}
    BY <1>7, ReadDoes DEF Stands, Rests, Left, Steps
  <2> QED
    BY <2>1, <2>2 DEF Alone, Others, TypeOK
<1>8. ASSUME NEW t \in Threads, SetOffset(t) PROVE /\ pc' = [u \in Threads |-> pc'[u]] /\ \A u \in Threads : pc'[u] \in Steps
         /\ \A u \in Threads : pc'[u] = "record" => Head(th'[u].todo) \in Requests
  <2>1. Alone(t)
    BY <1>8, SetOffsetDoes
  <2>2. pc'[t] \in Steps \ {"record"}
    BY <1>8, SetOffsetDoes DEF Stands, Rests, Left, Steps
  <2> QED
    BY <2>1, <2>2 DEF Alone, Others, TypeOK
<1>9. ASSUME NEW t \in Threads, Ingest(t) PROVE /\ pc' = [u \in Threads |-> pc'[u]] /\ \A u \in Threads : pc'[u] \in Steps
         /\ \A u \in Threads : pc'[u] = "record" => Head(th'[u].todo) \in Requests
  <2>1. Alone(t)
    BY <1>9, IngestDoes
  <2>2. CASE Head(th[t].todo) \in Requests \ seen
    <3>1. pc'[t] = "record" /\ th'[t].todo = th[t].todo
      BY <1>9, <2>2, IngestDoes DEF Stands
    <3> QED
      BY <2>1, <2>2, <3>1 DEF Alone, Others, TypeOK, Steps
  <2>3. CASE Head(th[t].todo) \notin Requests \ seen
    <3>1. pc'[t] \in Steps \ {"record"}
      BY <1>9, <2>3, IngestDoes DEF Stands, Steps
    <3> QED
      BY <2>1, <3>1 DEF Alone, Others, TypeOK
  <2> QED
    BY <2>2, <2>3
<1>10. ASSUME NEW t \in Threads, Record(t) PROVE /\ pc' = [u \in Threads |-> pc'[u]] /\ \A u \in Threads : pc'[u] \in Steps
         /\ \A u \in Threads : pc'[u] = "record" => Head(th'[u].todo) \in Requests
  <2>1. Alone(t)
    BY <1>10, RecordDoes
  <2>2. pc'[t] \in Steps \ {"record"}
    BY <1>10, RecordDoes DEF Stands, Rests, Left, Steps
  <2> QED
    BY <2>1, <2>2 DEF Alone, Others, TypeOK
<1>11. ASSUME NEW t \in Threads, SortCalls(t) PROVE /\ pc' = [u \in Threads |-> pc'[u]] /\ \A u \in Threads : pc'[u] \in Steps
         /\ \A u \in Threads : pc'[u] = "record" => Head(th'[u].todo) \in Requests
  <2>1. Alone(t)
    BY <1>11, SortCallsDoes
  <2>2. pc'[t] \in Steps \ {"record"}
    BY <1>11, SortCallsDoes DEF Stands, Rests, Left, Steps
  <2> QED
    BY <2>1, <2>2 DEF Alone, Others, TypeOK
<1>12. ASSUME NEW t \in Threads, CallsSorted(t) PROVE /\ pc' = [u \in Threads |-> pc'[u]] /\ \A u \in Threads : pc'[u] \in Steps
         /\ \A u \in Threads : pc'[u] = "record" => Head(th'[u].todo) \in Requests
  <2>1. Alone(t)
    BY <1>12, CallsSortedDoes
  <2>2. pc'[t] \in Steps \ {"record"}
    BY <1>12, CallsSortedDoes DEF Stands, Rests, Left, Steps
  <2> QED
    BY <2>1, <2>2 DEF Alone, Others, TypeOK
<1>13. ASSUME NEW t \in Threads, SortLimits(t) PROVE /\ pc' = [u \in Threads |-> pc'[u]] /\ \A u \in Threads : pc'[u] \in Steps
         /\ \A u \in Threads : pc'[u] = "record" => Head(th'[u].todo) \in Requests
  <2>1. Alone(t)
    BY <1>13, SortLimitsDoes
  <2>2. pc'[t] \in Steps \ {"record"}
    BY <1>13, SortLimitsDoes DEF Stands, Rests, Left, Steps
  <2> QED
    BY <2>1, <2>2 DEF Alone, Others, TypeOK
<1>14. ASSUME NEW t \in Threads, LimitsSorted(t) PROVE /\ pc' = [u \in Threads |-> pc'[u]] /\ \A u \in Threads : pc'[u] \in Steps
         /\ \A u \in Threads : pc'[u] = "record" => Head(th'[u].todo) \in Requests
  <2>1. Alone(t)
    BY <1>14, LimitsSortedDoes
  <2>2. pc'[t] \in Steps \ {"record"}
    BY <1>14, LimitsSortedDoes DEF Stands, Rests, Left, Steps
  <2> QED
    BY <2>1, <2>2 DEF Alone, Others, TypeOK
<1>15. ASSUME NEW t \in Threads, Dump(t) PROVE /\ pc' = [u \in Threads |-> pc'[u]] /\ \A u \in Threads : pc'[u] \in Steps
         /\ \A u \in Threads : pc'[u] = "record" => Head(th'[u].todo) \in Requests
  <2>1. Alone(t)
    BY <1>15, DumpDoes
  <2>2. pc'[t] \in Steps \ {"record"}
    BY <1>15, DumpDoes DEF Stands, Rests, Left, Steps
  <2> QED
    BY <2>1, <2>2 DEF Alone, Others, TypeOK
<1>16. ASSUME NEW t \in Threads, Open(t) PROVE /\ pc' = [u \in Threads |-> pc'[u]] /\ \A u \in Threads : pc'[u] \in Steps
         /\ \A u \in Threads : pc'[u] = "record" => Head(th'[u].todo) \in Requests
  <2>1. Alone(t)
    BY <1>16, OpenDoes
  <2>2. pc'[t] \in Steps \ {"record"}
    BY <1>16, OpenDoes DEF Stands, Rests, Left, Steps
  <2> QED
    BY <2>1, <2>2 DEF Alone, Others, TypeOK
<1>17. ASSUME NEW t \in Threads, Write(t) PROVE /\ pc' = [u \in Threads |-> pc'[u]] /\ \A u \in Threads : pc'[u] \in Steps
         /\ \A u \in Threads : pc'[u] = "record" => Head(th'[u].todo) \in Requests
  <2>1. Alone(t)
    BY <1>17, WriteDoes
  <2>2. pc'[t] \in Steps \ {"record"}
    BY <1>17, WriteDoes DEF Stands, Rests, Left, Steps
  <2> QED
    BY <2>1, <2>2 DEF Alone, Others, TypeOK
<1>18. ASSUME NEW s \in Sessions, Use(s) PROVE /\ pc' = [u \in Threads |-> pc'[u]] /\ \A u \in Threads : pc'[u] \in Steps
         /\ \A u \in Threads : pc'[u] = "record" => Head(th'[u].todo) \in Requests
  BY <1>18 DEF Use, Metering, vars, disk, store, history, telemetry, TypeOK
<1>19. ASSUME NEW s \in Sessions, Export(s) PROVE /\ pc' = [u \in Threads |-> pc'[u]] /\ \A u \in Threads : pc'[u] \in Steps
         /\ \A u \in Threads : pc'[u] = "record" => Head(th'[u].todo) \in Requests
  BY <1>19 DEF Export, Metering, vars, disk, store, history, telemetry, TypeOK
<1>20. ASSUME NEW p \in posts, Lose(p) PROVE /\ pc' = [u \in Threads |-> pc'[u]] /\ \A u \in Threads : pc'[u] \in Steps
         /\ \A u \in Threads : pc'[u] = "record" => Head(th'[u].todo) \in Requests
  BY <1>20 DEF Lose, Metering, vars, disk, store, history, telemetry, TypeOK
<1>21. ASSUME NEW p \in posts, IngestPost(p) PROVE /\ pc' = [u \in Threads |-> pc'[u]] /\ \A u \in Threads : pc'[u] \in Steps
         /\ \A u \in Threads : pc'[u] = "record" => Head(th'[u].todo) \in Requests
  BY <1>21 DEF IngestPost, Metering, vars, disk, store, history, telemetry, TypeOK
<1>22. ASSUME Crash PROVE /\ pc' = [u \in Threads |-> pc'[u]] /\ \A u \in Threads : pc'[u] \in Steps
         /\ \A u \in Threads : pc'[u] = "record" => Head(th'[u].todo) \in Requests
  <2>1. pc' = [t \in Threads |-> "idle"]
    BY <1>22 DEF Crash
  <2> QED
    BY <2>1 DEF Steps
<1>23. ASSUME UNCHANGED vars PROVE /\ pc' = [u \in Threads |-> pc'[u]] /\ \A u \in Threads : pc'[u] \in Steps
         /\ \A u \in Threads : pc'[u] = "record" => Head(th'[u].todo) \in Requests
  BY <1>23 DEF vars, disk, store, history, telemetry, TypeOK
<1> QED
  BY <1>1, <1>2, <1>3, <1>4, <1>5, <1>6, <1>7, <1>8, <1>9, <1>10, <1>11, <1>12, <1>13, <1>14, <1>15, <1>16, <1>17, <1>18, <1>19, <1>20, <1>21, <1>22, <1>23, Zenon DEF Next, Thread

\* Until the server serves only one thread is busy.
LEMMA StartStep ==
  ASSUME TypeOK, Typed, [Next]_vars
  PROVE  up' # "serving" => \A u, v \in Threads : u # v => pc'[u] = "idle" \/ pc'[v] = "idle"
<1>1. ASSUME NEW line \in Requests \cup {Limit}, WriteLine(line) PROVE up' # "serving" => \A u, v \in Threads : u # v => pc'[u] = "idle" \/ pc'[v] = "idle"
  BY <1>1 DEF WriteLine, Recording, vars, disk, store, history, telemetry, TypeOK
<1>2. ASSUME WriteRest PROVE up' # "serving" => \A u, v \in Threads : u # v => pc'[u] = "idle" \/ pc'[v] = "idle"
  BY <1>2 DEF WriteRest, Recording, vars, disk, store, history, telemetry, TypeOK
<1>3. ASSUME Rotate PROVE up' # "serving" => \A u, v \in Threads : u # v => pc'[u] = "idle" \/ pc'[v] = "idle"
  BY <1>3 DEF Rotate, Recording, vars, disk, store, history, telemetry, TypeOK
<1>4. ASSUME NEW t \in Threads, Boot(t) PROVE up' # "serving" => \A u, v \in Threads : u # v => pc'[u] = "idle" \/ pc'[v] = "idle"
  <2>1. Alone(t) /\ up = "down"
    BY <1>4, BootDoes DEF Boot
  <2> QED
    BY <2>1 DEF Alone, Others, Typed
<1>5. ASSUME NEW t \in Threads, Get(t) PROVE up' # "serving" => \A u, v \in Threads : u # v => pc'[u] = "idle" \/ pc'[v] = "idle"
  BY <1>5 DEF Get
<1>6. ASSUME NEW t \in Threads, Look(t) PROVE up' # "serving" => \A u, v \in Threads : u # v => pc'[u] = "idle" \/ pc'[v] = "idle"
  <2>1. Alone(t) /\ pc[t] # "idle" /\ (up' = up \/ up' = "serving")
    BY <1>6, LookDoes DEF Look, Answers
  <2> QED
    BY <2>1 DEF Alone, Others, TypeOK
<1>7. ASSUME NEW t \in Threads, Read(t) PROVE up' # "serving" => \A u, v \in Threads : u # v => pc'[u] = "idle" \/ pc'[v] = "idle"
  <2>1. Alone(t) /\ pc[t] # "idle" /\ (up' = up \/ up' = "serving")
    BY <1>7, ReadDoes DEF Read, Answers
  <2> QED
    BY <2>1 DEF Alone, Others, TypeOK
<1>8. ASSUME NEW t \in Threads, SetOffset(t) PROVE up' # "serving" => \A u, v \in Threads : u # v => pc'[u] = "idle" \/ pc'[v] = "idle"
  <2>1. Alone(t) /\ pc[t] # "idle" /\ (up' = up \/ up' = "serving")
    BY <1>8, SetOffsetDoes DEF SetOffset, Answers
  <2> QED
    BY <2>1 DEF Alone, Others, TypeOK
<1>9. ASSUME NEW t \in Threads, Ingest(t) PROVE up' # "serving" => \A u, v \in Threads : u # v => pc'[u] = "idle" \/ pc'[v] = "idle"
  <2>1. Alone(t) /\ pc[t] # "idle" /\ (up' = up \/ up' = "serving")
    BY <1>9, IngestDoes DEF Ingest, Answers
  <2> QED
    BY <2>1 DEF Alone, Others, TypeOK
<1>10. ASSUME NEW t \in Threads, Record(t) PROVE up' # "serving" => \A u, v \in Threads : u # v => pc'[u] = "idle" \/ pc'[v] = "idle"
  <2>1. Alone(t) /\ pc[t] # "idle" /\ (up' = up \/ up' = "serving")
    BY <1>10, RecordDoes DEF Record, Answers
  <2> QED
    BY <2>1 DEF Alone, Others, TypeOK
<1>11. ASSUME NEW t \in Threads, SortCalls(t) PROVE up' # "serving" => \A u, v \in Threads : u # v => pc'[u] = "idle" \/ pc'[v] = "idle"
  <2>1. Alone(t) /\ pc[t] # "idle" /\ (up' = up \/ up' = "serving")
    BY <1>11, SortCallsDoes DEF SortCalls, Answers
  <2> QED
    BY <2>1 DEF Alone, Others, TypeOK
<1>12. ASSUME NEW t \in Threads, CallsSorted(t) PROVE up' # "serving" => \A u, v \in Threads : u # v => pc'[u] = "idle" \/ pc'[v] = "idle"
  <2>1. Alone(t) /\ pc[t] # "idle" /\ (up' = up \/ up' = "serving")
    BY <1>12, CallsSortedDoes DEF CallsSorted, Answers
  <2> QED
    BY <2>1 DEF Alone, Others, TypeOK
<1>13. ASSUME NEW t \in Threads, SortLimits(t) PROVE up' # "serving" => \A u, v \in Threads : u # v => pc'[u] = "idle" \/ pc'[v] = "idle"
  <2>1. Alone(t) /\ pc[t] # "idle" /\ (up' = up \/ up' = "serving")
    BY <1>13, SortLimitsDoes DEF SortLimits, Answers
  <2> QED
    BY <2>1 DEF Alone, Others, TypeOK
<1>14. ASSUME NEW t \in Threads, LimitsSorted(t) PROVE up' # "serving" => \A u, v \in Threads : u # v => pc'[u] = "idle" \/ pc'[v] = "idle"
  <2>1. Alone(t) /\ pc[t] # "idle" /\ (up' = up \/ up' = "serving")
    BY <1>14, LimitsSortedDoes DEF LimitsSorted, Answers
  <2> QED
    BY <2>1 DEF Alone, Others, TypeOK
<1>15. ASSUME NEW t \in Threads, Dump(t) PROVE up' # "serving" => \A u, v \in Threads : u # v => pc'[u] = "idle" \/ pc'[v] = "idle"
  <2>1. Alone(t) /\ pc[t] # "idle" /\ (up' = up \/ up' = "serving")
    BY <1>15, DumpDoes DEF Dump, Answers
  <2> QED
    BY <2>1 DEF Alone, Others, TypeOK
<1>16. ASSUME NEW t \in Threads, Open(t) PROVE up' # "serving" => \A u, v \in Threads : u # v => pc'[u] = "idle" \/ pc'[v] = "idle"
  <2>1. Alone(t) /\ pc[t] # "idle" /\ (up' = up \/ up' = "serving")
    BY <1>16, OpenDoes DEF Open, Answers
  <2> QED
    BY <2>1 DEF Alone, Others, TypeOK
<1>17. ASSUME NEW t \in Threads, Write(t) PROVE up' # "serving" => \A u, v \in Threads : u # v => pc'[u] = "idle" \/ pc'[v] = "idle"
  <2>1. Alone(t) /\ pc[t] # "idle" /\ (up' = up \/ up' = "serving")
    BY <1>17, WriteDoes DEF Write, Answers
  <2> QED
    BY <2>1 DEF Alone, Others, TypeOK
<1>18. ASSUME NEW s \in Sessions, Use(s) PROVE up' # "serving" => \A u, v \in Threads : u # v => pc'[u] = "idle" \/ pc'[v] = "idle"
  BY <1>18 DEF Use, Metering, vars, disk, store, history, telemetry, TypeOK
<1>19. ASSUME NEW s \in Sessions, Export(s) PROVE up' # "serving" => \A u, v \in Threads : u # v => pc'[u] = "idle" \/ pc'[v] = "idle"
  BY <1>19 DEF Export, Metering, vars, disk, store, history, telemetry, TypeOK
<1>20. ASSUME NEW p \in posts, Lose(p) PROVE up' # "serving" => \A u, v \in Threads : u # v => pc'[u] = "idle" \/ pc'[v] = "idle"
  BY <1>20 DEF Lose, Metering, vars, disk, store, history, telemetry, TypeOK
<1>21. ASSUME NEW p \in posts, IngestPost(p) PROVE up' # "serving" => \A u, v \in Threads : u # v => pc'[u] = "idle" \/ pc'[v] = "idle"
  BY <1>21 DEF IngestPost, Metering, vars, disk, store, history, telemetry, TypeOK
<1>22. ASSUME Crash PROVE up' # "serving" => \A u, v \in Threads : u # v => pc'[u] = "idle" \/ pc'[v] = "idle"
  <2>1. pc' = [t \in Threads |-> "idle"]
    BY <1>22 DEF Crash
  <2> QED
    BY <2>1
<1>23. ASSUME UNCHANGED vars PROVE up' # "serving" => \A u, v \in Threads : u # v => pc'[u] = "idle" \/ pc'[v] = "idle"
  BY <1>23 DEF vars, disk, store, history, telemetry, TypeOK
<1> QED
  BY <1>1, <1>2, <1>3, <1>4, <1>5, <1>6, <1>7, <1>8, <1>9, <1>10, <1>11, <1>12, <1>13, <1>14, <1>15, <1>16, <1>17, <1>18, <1>19, <1>20, <1>21, <1>22, <1>23, Zenon DEF Next, Thread

\* What is in memory keeps its type.
LEMMA MemoryStep ==
  ASSUME TypeOK, Typed, [Next]_vars
  PROVE  offset' \in Positions /\ seen' \subseteq Requests
<1>1. ASSUME NEW line \in Requests \cup {Limit}, WriteLine(line) PROVE offset' \in Positions /\ seen' \subseteq Requests
  BY <1>1, PositionsAre DEF WriteLine, Recording, vars, disk, store, history, telemetry, TypeOK
<1>2. ASSUME WriteRest PROVE offset' \in Positions /\ seen' \subseteq Requests
  BY <1>2, PositionsAre DEF WriteRest, Recording, vars, disk, store, history, telemetry, TypeOK
<1>3. ASSUME Rotate PROVE offset' \in Positions /\ seen' \subseteq Requests
  BY <1>3, PositionsAre DEF Rotate, Recording, vars, disk, store, history, telemetry, TypeOK
<1>4. ASSUME NEW t \in Threads, Boot(t) PROVE offset' \in Positions /\ seen' \subseteq Requests
  <2>1. CASE Loadable
    <3>1. cache.offset \in Positions
      BY <2>1 DEF Typed, Saved
    <3> QED
      BY <1>4, <2>1, <3>1 DEF Boot
  <2>2. CASE ~Loadable
    BY <1>4, <2>2, PositionsAre DEF Boot, store, TypeOK
  <2> QED
    BY <2>1, <2>2
<1>5. ASSUME NEW t \in Threads, Get(t) PROVE offset' \in Positions /\ seen' \subseteq Requests
  BY <1>5, PositionsAre DEF Get, vars, disk, store, history, telemetry, TypeOK
<1>6. ASSUME NEW t \in Threads, Look(t) PROVE offset' \in Positions /\ seen' \subseteq Requests
  BY <1>6, PositionsAre DEF Look, Storing, vars, disk, store, history, telemetry, TypeOK
<1>7. ASSUME NEW t \in Threads, Read(t) PROVE offset' \in Positions /\ seen' \subseteq Requests
  BY <1>7, PositionsAre DEF Read, Storing, vars, disk, store, history, telemetry, TypeOK
<1>8. ASSUME NEW t \in Threads, SetOffset(t) PROVE offset' \in Positions /\ seen' \subseteq Requests
  BY <1>8, HasLocal DEF SetOffset, TypeOK
<1>9. ASSUME NEW t \in Threads, Ingest(t) PROVE offset' \in Positions /\ seen' \subseteq Requests
  BY <1>9, PositionsAre DEF Ingest, Storing, vars, disk, store, history, telemetry, TypeOK
<1>10. ASSUME NEW t \in Threads, Record(t) PROVE offset' \in Positions /\ seen' \subseteq Requests
  BY <1>10, PositionsAre DEF Record, TypeOK
<1>11. ASSUME NEW t \in Threads, SortCalls(t) PROVE offset' \in Positions /\ seen' \subseteq Requests
  BY <1>11, PositionsAre DEF SortCalls, Storing, vars, disk, store, history, telemetry, TypeOK
<1>12. ASSUME NEW t \in Threads, CallsSorted(t) PROVE offset' \in Positions /\ seen' \subseteq Requests
  BY <1>12, PositionsAre DEF CallsSorted, Storing, vars, disk, store, history, telemetry, TypeOK
<1>13. ASSUME NEW t \in Threads, SortLimits(t) PROVE offset' \in Positions /\ seen' \subseteq Requests
  BY <1>13, PositionsAre DEF SortLimits, Storing, vars, disk, store, history, telemetry, TypeOK
<1>14. ASSUME NEW t \in Threads, LimitsSorted(t) PROVE offset' \in Positions /\ seen' \subseteq Requests
  BY <1>14, PositionsAre DEF LimitsSorted, Storing, vars, disk, store, history, telemetry, TypeOK
<1>15. ASSUME NEW t \in Threads, Dump(t) PROVE offset' \in Positions /\ seen' \subseteq Requests
  BY <1>15, PositionsAre DEF Dump, Storing, vars, disk, store, history, telemetry, TypeOK
<1>16. ASSUME NEW t \in Threads, Open(t) PROVE offset' \in Positions /\ seen' \subseteq Requests
  BY <1>16, PositionsAre DEF Open, Storing, vars, disk, store, history, telemetry, TypeOK
<1>17. ASSUME NEW t \in Threads, Write(t) PROVE offset' \in Positions /\ seen' \subseteq Requests
  BY <1>17, PositionsAre DEF Write, Storing, vars, disk, store, history, telemetry, TypeOK
<1>18. ASSUME NEW s \in Sessions, Use(s) PROVE offset' \in Positions /\ seen' \subseteq Requests
  BY <1>18, PositionsAre DEF Use, Metering, vars, disk, store, history, telemetry, TypeOK
<1>19. ASSUME NEW s \in Sessions, Export(s) PROVE offset' \in Positions /\ seen' \subseteq Requests
  BY <1>19, PositionsAre DEF Export, Metering, vars, disk, store, history, telemetry, TypeOK
<1>20. ASSUME NEW p \in posts, Lose(p) PROVE offset' \in Positions /\ seen' \subseteq Requests
  BY <1>20, PositionsAre DEF Lose, Metering, vars, disk, store, history, telemetry, TypeOK
<1>21. ASSUME NEW p \in posts, IngestPost(p) PROVE offset' \in Positions /\ seen' \subseteq Requests
  BY <1>21, PositionsAre DEF IngestPost, Metering, vars, disk, store, history, telemetry, TypeOK
<1>22. ASSUME Crash PROVE offset' \in Positions /\ seen' \subseteq Requests
  BY <1>22, PositionsAre DEF Crash, vars, disk, store, history, telemetry, TypeOK
<1>23. ASSUME UNCHANGED vars PROVE offset' \in Positions /\ seen' \subseteq Requests
  BY <1>23, PositionsAre DEF vars, store, TypeOK
<1> QED
  BY <1>1, <1>2, <1>3, <1>4, <1>5, <1>6, <1>7, <1>8, <1>9, <1>10, <1>11, <1>12, <1>13, <1>14, <1>15, <1>16, <1>17, <1>18, <1>19, <1>20, <1>21, <1>22, <1>23, Zenon DEF Next, Thread

\* The counters of faults and pages keep within their bounds.
LEMMA BoundsStep ==
  ASSUME TypeOK, Typed, [Next]_vars
  PROVE  /\ source' \in {"records", "telemetry"} /\ up' \in {"down", "starting", "serving"}
         /\ polls' \in 0..MaxPolls /\ crashes' \in Nat /\ rotations' \in Nat /\ crashes' + rotations' <= MaxFaults
<1>1. ASSUME NEW line \in Requests \cup {Limit}, WriteLine(line) PROVE /\ source' \in {"records", "telemetry"} /\ up' \in {"down", "starting", "serving"}
         /\ polls' \in 0..MaxPolls /\ crashes' \in Nat /\ rotations' \in Nat /\ crashes' + rotations' <= MaxFaults
  BY <1>1 DEF WriteLine, Recording, vars, disk, store, history, telemetry, TypeOK, Answers
<1>2. ASSUME WriteRest PROVE /\ source' \in {"records", "telemetry"} /\ up' \in {"down", "starting", "serving"}
         /\ polls' \in 0..MaxPolls /\ crashes' \in Nat /\ rotations' \in Nat /\ crashes' + rotations' <= MaxFaults
  BY <1>2 DEF WriteRest, Recording, vars, disk, store, history, telemetry, TypeOK, Answers
<1>3. ASSUME Rotate PROVE /\ source' \in {"records", "telemetry"} /\ up' \in {"down", "starting", "serving"}
         /\ polls' \in 0..MaxPolls /\ crashes' \in Nat /\ rotations' \in Nat /\ crashes' + rotations' <= MaxFaults
  BY <1>3, BoundsAssumption DEF Rotate, Recording, vars, disk, store, history, telemetry, TypeOK, Answers
<1>4. ASSUME NEW t \in Threads, Boot(t) PROVE /\ source' \in {"records", "telemetry"} /\ up' \in {"down", "starting", "serving"}
         /\ polls' \in 0..MaxPolls /\ crashes' \in Nat /\ rotations' \in Nat /\ crashes' + rotations' <= MaxFaults
  BY <1>4 DEF Boot, Storing, vars, disk, store, history, telemetry, TypeOK, Answers
<1>5. ASSUME NEW t \in Threads, Get(t) PROVE /\ source' \in {"records", "telemetry"} /\ up' \in {"down", "starting", "serving"}
         /\ polls' \in 0..MaxPolls /\ crashes' \in Nat /\ rotations' \in Nat /\ crashes' + rotations' <= MaxFaults
  BY <1>5, BoundsAssumption DEF Get, vars, disk, store, history, telemetry, TypeOK, Answers
<1>6. ASSUME NEW t \in Threads, Look(t) PROVE /\ source' \in {"records", "telemetry"} /\ up' \in {"down", "starting", "serving"}
         /\ polls' \in 0..MaxPolls /\ crashes' \in Nat /\ rotations' \in Nat /\ crashes' + rotations' <= MaxFaults
  BY <1>6 DEF Look, Storing, vars, disk, store, history, telemetry, TypeOK, Answers
<1>7. ASSUME NEW t \in Threads, Read(t) PROVE /\ source' \in {"records", "telemetry"} /\ up' \in {"down", "starting", "serving"}
         /\ polls' \in 0..MaxPolls /\ crashes' \in Nat /\ rotations' \in Nat /\ crashes' + rotations' <= MaxFaults
  BY <1>7 DEF Read, Storing, vars, disk, store, history, telemetry, TypeOK, Answers
<1>8. ASSUME NEW t \in Threads, SetOffset(t) PROVE /\ source' \in {"records", "telemetry"} /\ up' \in {"down", "starting", "serving"}
         /\ polls' \in 0..MaxPolls /\ crashes' \in Nat /\ rotations' \in Nat /\ crashes' + rotations' <= MaxFaults
  BY <1>8 DEF SetOffset, Storing, vars, disk, store, history, telemetry, TypeOK, Answers
<1>9. ASSUME NEW t \in Threads, Ingest(t) PROVE /\ source' \in {"records", "telemetry"} /\ up' \in {"down", "starting", "serving"}
         /\ polls' \in 0..MaxPolls /\ crashes' \in Nat /\ rotations' \in Nat /\ crashes' + rotations' <= MaxFaults
  BY <1>9 DEF Ingest, Storing, vars, disk, store, history, telemetry, TypeOK, Answers
<1>10. ASSUME NEW t \in Threads, Record(t) PROVE /\ source' \in {"records", "telemetry"} /\ up' \in {"down", "starting", "serving"}
         /\ polls' \in 0..MaxPolls /\ crashes' \in Nat /\ rotations' \in Nat /\ crashes' + rotations' <= MaxFaults
  BY <1>10 DEF Record, Storing, vars, disk, store, history, telemetry, TypeOK, Answers
<1>11. ASSUME NEW t \in Threads, SortCalls(t) PROVE /\ source' \in {"records", "telemetry"} /\ up' \in {"down", "starting", "serving"}
         /\ polls' \in 0..MaxPolls /\ crashes' \in Nat /\ rotations' \in Nat /\ crashes' + rotations' <= MaxFaults
  BY <1>11 DEF SortCalls, Storing, vars, disk, store, history, telemetry, TypeOK, Answers
<1>12. ASSUME NEW t \in Threads, CallsSorted(t) PROVE /\ source' \in {"records", "telemetry"} /\ up' \in {"down", "starting", "serving"}
         /\ polls' \in 0..MaxPolls /\ crashes' \in Nat /\ rotations' \in Nat /\ crashes' + rotations' <= MaxFaults
  BY <1>12 DEF CallsSorted, Storing, vars, disk, store, history, telemetry, TypeOK, Answers
<1>13. ASSUME NEW t \in Threads, SortLimits(t) PROVE /\ source' \in {"records", "telemetry"} /\ up' \in {"down", "starting", "serving"}
         /\ polls' \in 0..MaxPolls /\ crashes' \in Nat /\ rotations' \in Nat /\ crashes' + rotations' <= MaxFaults
  BY <1>13 DEF SortLimits, Storing, vars, disk, store, history, telemetry, TypeOK, Answers
<1>14. ASSUME NEW t \in Threads, LimitsSorted(t) PROVE /\ source' \in {"records", "telemetry"} /\ up' \in {"down", "starting", "serving"}
         /\ polls' \in 0..MaxPolls /\ crashes' \in Nat /\ rotations' \in Nat /\ crashes' + rotations' <= MaxFaults
  BY <1>14 DEF LimitsSorted, Storing, vars, disk, store, history, telemetry, TypeOK, Answers
<1>15. ASSUME NEW t \in Threads, Dump(t) PROVE /\ source' \in {"records", "telemetry"} /\ up' \in {"down", "starting", "serving"}
         /\ polls' \in 0..MaxPolls /\ crashes' \in Nat /\ rotations' \in Nat /\ crashes' + rotations' <= MaxFaults
  BY <1>15 DEF Dump, Storing, vars, disk, store, history, telemetry, TypeOK, Answers
<1>16. ASSUME NEW t \in Threads, Open(t) PROVE /\ source' \in {"records", "telemetry"} /\ up' \in {"down", "starting", "serving"}
         /\ polls' \in 0..MaxPolls /\ crashes' \in Nat /\ rotations' \in Nat /\ crashes' + rotations' <= MaxFaults
  BY <1>16 DEF Open, Storing, vars, disk, store, history, telemetry, TypeOK, Answers
<1>17. ASSUME NEW t \in Threads, Write(t) PROVE /\ source' \in {"records", "telemetry"} /\ up' \in {"down", "starting", "serving"}
         /\ polls' \in 0..MaxPolls /\ crashes' \in Nat /\ rotations' \in Nat /\ crashes' + rotations' <= MaxFaults
  BY <1>17 DEF Write, Storing, vars, disk, store, history, telemetry, TypeOK, Answers
<1>18. ASSUME NEW s \in Sessions, Use(s) PROVE /\ source' \in {"records", "telemetry"} /\ up' \in {"down", "starting", "serving"}
         /\ polls' \in 0..MaxPolls /\ crashes' \in Nat /\ rotations' \in Nat /\ crashes' + rotations' <= MaxFaults
  BY <1>18 DEF Use, Metering, vars, disk, store, history, telemetry, TypeOK, Answers
<1>19. ASSUME NEW s \in Sessions, Export(s) PROVE /\ source' \in {"records", "telemetry"} /\ up' \in {"down", "starting", "serving"}
         /\ polls' \in 0..MaxPolls /\ crashes' \in Nat /\ rotations' \in Nat /\ crashes' + rotations' <= MaxFaults
  BY <1>19 DEF Export, Metering, vars, disk, store, history, telemetry, TypeOK, Answers
<1>20. ASSUME NEW p \in posts, Lose(p) PROVE /\ source' \in {"records", "telemetry"} /\ up' \in {"down", "starting", "serving"}
         /\ polls' \in 0..MaxPolls /\ crashes' \in Nat /\ rotations' \in Nat /\ crashes' + rotations' <= MaxFaults
  BY <1>20 DEF Lose, Metering, vars, disk, store, history, telemetry, TypeOK, Answers
<1>21. ASSUME NEW p \in posts, IngestPost(p) PROVE /\ source' \in {"records", "telemetry"} /\ up' \in {"down", "starting", "serving"}
         /\ polls' \in 0..MaxPolls /\ crashes' \in Nat /\ rotations' \in Nat /\ crashes' + rotations' <= MaxFaults
  BY <1>21 DEF IngestPost, Metering, vars, disk, store, history, telemetry, TypeOK, Answers
<1>22. ASSUME Crash PROVE /\ source' \in {"records", "telemetry"} /\ up' \in {"down", "starting", "serving"}
         /\ polls' \in 0..MaxPolls /\ crashes' \in Nat /\ rotations' \in Nat /\ crashes' + rotations' <= MaxFaults
  BY <1>22, BoundsAssumption DEF Crash, vars, disk, store, history, telemetry, TypeOK, Answers
<1>23. ASSUME UNCHANGED vars PROVE /\ source' \in {"records", "telemetry"} /\ up' \in {"down", "starting", "serving"}
         /\ polls' \in 0..MaxPolls /\ crashes' \in Nat /\ rotations' \in Nat /\ crashes' + rotations' <= MaxFaults
  BY <1>23 DEF vars, disk, store, history, telemetry, TypeOK, Answers
<1> QED
  BY <1>1, <1>2, <1>3, <1>4, <1>5, <1>6, <1>7, <1>8, <1>9, <1>10, <1>11, <1>12, <1>13, <1>14, <1>15, <1>16, <1>17, <1>18, <1>19, <1>20, <1>21, <1>22, <1>23, Zenon DEF Next, Thread

\* Lines are halved within the file.
LEMMA HalvedStep ==
  ASSUME TypeOK, Typed, [Next]_vars
  PROVE  halved' \subseteq 1..MaxLines
<1>1. ASSUME NEW line \in Requests \cup {Limit}, WriteLine(line) PROVE halved' \subseteq 1..MaxLines
  BY <1>1 DEF WriteLine, Recording, vars, disk, store, history, telemetry, TypeOK
<1>2. ASSUME WriteRest PROVE halved' \subseteq 1..MaxLines
  BY <1>2 DEF WriteRest, Recording, vars, disk, store, history, telemetry, TypeOK
<1>3. ASSUME Rotate PROVE halved' \subseteq 1..MaxLines
  BY <1>3 DEF Rotate, Recording, vars, disk, store, history, telemetry, TypeOK
<1>4. ASSUME NEW t \in Threads, Boot(t) PROVE halved' \subseteq 1..MaxLines
  BY <1>4 DEF Boot, Storing, vars, disk, store, history, telemetry, TypeOK
<1>5. ASSUME NEW t \in Threads, Get(t) PROVE halved' \subseteq 1..MaxLines
  BY <1>5 DEF Get, vars, disk, store, history, telemetry, TypeOK
<1>6. ASSUME NEW t \in Threads, Look(t) PROVE halved' \subseteq 1..MaxLines
  BY <1>6 DEF Look, Storing, vars, disk, store, history, telemetry, TypeOK
<1>7. ASSUME NEW t \in Threads, Read(t) PROVE halved' \subseteq 1..MaxLines
  <2>1. partial => Len(file) \in 1..MaxLines
    <3>1. file \in Seq(Lines) /\ Len(file) <= MaxLines /\ (partial => file # << >>) /\ MaxLines \in Nat
      BY BoundsAssumption DEF TypeOK, Typed
    <3> QED
      BY <3>1
  <2>2. halved' \subseteq halved \cup (IF partial THEN {Len(file)} ELSE {})
    BY <1>7 DEF Read
  <2> QED
    BY <2>1, <2>2 DEF TypeOK
<1>8. ASSUME NEW t \in Threads, SetOffset(t) PROVE halved' \subseteq 1..MaxLines
  BY <1>8 DEF SetOffset, Storing, vars, disk, store, history, telemetry, TypeOK
<1>9. ASSUME NEW t \in Threads, Ingest(t) PROVE halved' \subseteq 1..MaxLines
  BY <1>9 DEF Ingest, Storing, vars, disk, store, history, telemetry, TypeOK
<1>10. ASSUME NEW t \in Threads, Record(t) PROVE halved' \subseteq 1..MaxLines
  BY <1>10 DEF Record, Storing, vars, disk, store, history, telemetry, TypeOK
<1>11. ASSUME NEW t \in Threads, SortCalls(t) PROVE halved' \subseteq 1..MaxLines
  BY <1>11 DEF SortCalls, Storing, vars, disk, store, history, telemetry, TypeOK
<1>12. ASSUME NEW t \in Threads, CallsSorted(t) PROVE halved' \subseteq 1..MaxLines
  BY <1>12 DEF CallsSorted, Storing, vars, disk, store, history, telemetry, TypeOK
<1>13. ASSUME NEW t \in Threads, SortLimits(t) PROVE halved' \subseteq 1..MaxLines
  BY <1>13 DEF SortLimits, Storing, vars, disk, store, history, telemetry, TypeOK
<1>14. ASSUME NEW t \in Threads, LimitsSorted(t) PROVE halved' \subseteq 1..MaxLines
  BY <1>14 DEF LimitsSorted, Storing, vars, disk, store, history, telemetry, TypeOK
<1>15. ASSUME NEW t \in Threads, Dump(t) PROVE halved' \subseteq 1..MaxLines
  BY <1>15 DEF Dump, Storing, vars, disk, store, history, telemetry, TypeOK
<1>16. ASSUME NEW t \in Threads, Open(t) PROVE halved' \subseteq 1..MaxLines
  BY <1>16 DEF Open, Storing, vars, disk, store, history, telemetry, TypeOK
<1>17. ASSUME NEW t \in Threads, Write(t) PROVE halved' \subseteq 1..MaxLines
  BY <1>17 DEF Write, Storing, vars, disk, store, history, telemetry, TypeOK
<1>18. ASSUME NEW s \in Sessions, Use(s) PROVE halved' \subseteq 1..MaxLines
  BY <1>18 DEF Use, Metering, vars, disk, store, history, telemetry, TypeOK
<1>19. ASSUME NEW s \in Sessions, Export(s) PROVE halved' \subseteq 1..MaxLines
  BY <1>19 DEF Export, Metering, vars, disk, store, history, telemetry, TypeOK
<1>20. ASSUME NEW p \in posts, Lose(p) PROVE halved' \subseteq 1..MaxLines
  BY <1>20 DEF Lose, Metering, vars, disk, store, history, telemetry, TypeOK
<1>21. ASSUME NEW p \in posts, IngestPost(p) PROVE halved' \subseteq 1..MaxLines
  BY <1>21 DEF IngestPost, Metering, vars, disk, store, history, telemetry, TypeOK
<1>22. ASSUME Crash PROVE halved' \subseteq 1..MaxLines
  BY <1>22 DEF Crash, vars, disk, store, history, telemetry, TypeOK
<1>23. ASSUME UNCHANGED vars PROVE halved' \subseteq 1..MaxLines
  BY <1>23 DEF vars, disk, store, history, telemetry, TypeOK
<1> QED
  BY <1>1, <1>2, <1>3, <1>4, <1>5, <1>6, <1>7, <1>8, <1>9, <1>10, <1>11, <1>12, <1>13, <1>14, <1>15, <1>16, <1>17, <1>18, <1>19, <1>20, <1>21, <1>22, <1>23, Zenon DEF Next, Thread

\* The latest events are at most so many, and all of them if there are fewer.
LEMMA KeptEvents ==
  ASSUME NEW evs \in Seq(Event)
  PROVE  /\ Kept(evs) \in Seq(Event) /\ Len(Kept(evs)) <= MaxEvents
         /\ Len(Kept(evs)) < MaxEvents => Kept(evs) = evs
<1> DEFINE n == Len(evs)
<1>1. n \in Nat /\ MaxEvents \in Nat
  BY BoundsAssumption
<1>2. CASE n < MaxEvents
  <2>1. {1, n - MaxEvents + 1} = {1, n - MaxEvents + 1} /\ n - MaxEvents + 1 <= 1 /\ n - MaxEvents + 1 \in Int
    BY <1>1, <1>2
  <2>2. Max({1, n - MaxEvents + 1}) = 1
    <3> DEFINE m == n - MaxEvents + 1
    <3>1. m \in Int /\ m <= 1
      BY <2>1
    <3> HIDE DEF m
    <3>2. 1 \in {1, m} /\ (\A y \in {1, m} : 1 >= y) /\ \A x \in {1, m} : (\A y \in {1, m} : x >= y) => x = 1
      BY <3>1
    <3>3. Max({1, m}) \in {1, m} /\ \A y \in {1, m} : Max({1, m}) >= y
      BY <3>2, Zenon DEF Max
    <3>4. Max({1, m}) = 1
      BY <3>2, <3>3
    <3> QED
      BY <3>4 DEF m
  <2>3. Kept(evs) = SubSeq(evs, 1, n)
    BY <2>2 DEF Kept
  <2>4. SubSeq(evs, 1, n) = evs
    BY SubSeqFull
  <2> QED
    BY <1>1, <1>2, <2>3, <2>4
<1>3. CASE n >= MaxEvents
  <2>1. n - MaxEvents + 1 \in Nat /\ n - MaxEvents + 1 >= 1
    BY <1>1, <1>3
  <2>2. Max({1, n - MaxEvents + 1}) = n - MaxEvents + 1
    <3> DEFINE m == n - MaxEvents + 1
    <3>1. m \in Nat /\ m >= 1
      BY <2>1
    <3> HIDE DEF m
    <3>2. Max({1, m}) = m
      BY <3>1, MaxOfTwo
    <3> QED
      BY <3>2 DEF m
  <2>3. Kept(evs) = SubSeq(evs, n - MaxEvents + 1, n)
    BY <2>2 DEF Kept
  <2>4. \A a, b \in Int : (\A i \in a..b : i \in 1..n) =>
           SubSeq(evs, a, b) \in Seq(Event) /\ Len(SubSeq(evs, a, b)) = IF a <= b THEN b - a + 1 ELSE 0
    BY <1>1, SubSeqProperties
  <2>5. \A i \in (n - MaxEvents + 1)..n : i \in 1..n
    BY <1>1, <2>1
  <2>6. Kept(evs) \in Seq(Event) /\ Len(Kept(evs)) = MaxEvents
    BY <1>1, <2>1, <2>3, <2>4, <2>5
  <2> QED
    BY <1>1, <2>6
<1> QED
  BY <1>1, <1>2, <1>3

-----------------------------------------------------------------------------
(* The counters.                                                           *)

Adds(evs, s, i) == IF evs[i].session = s THEN evs[i].value ELSE 0

\* r holds what the first 0, 1, ... events of s add up to.
Sums(r, evs, s, n) == r = [i \in 0..n |-> IF i = 0 THEN 0 ELSE r[i-1] + Adds(evs, s, i)]

LEMMA SumsOf ==
  ASSUME NEW r, NEW evs, NEW s, NEW n \in Nat, Sums(r, evs, s, n)
  PROVE  r[0] = 0 /\ \A i \in 1..n : r[i] = r[i-1] + Adds(evs, s, i)
  BY DEF Sums

\* A sum over so many events is the one over fewer, continued.
LEMMA SumsGoOn ==
  ASSUME NEW evs, NEW more, NEW s, NEW n \in Nat, NEW r, Sums(r, evs, s, n),
         \A i \in 1..n : Adds(more, s, i) = Adds(evs, s, i)
  PROVE  LET q == [i \in 0..(n+1) |-> IF i <= n THEN r[i] ELSE r[n] + Adds(more, s, n+1)]
         IN  Sums(q, more, s, n+1)
<1> DEFINE q == [i \in 0..(n+1) |-> IF i <= n THEN r[i] ELSE r[n] + Adds(more, s, n+1)]
<1>1. r[0] = 0 /\ \A i \in 1..n : r[i] = r[i-1] + Adds(evs, s, i)
  BY SumsOf
<1>2. /\ \A i \in 0..n : q[i] = r[i]
      /\ q[n+1] = r[n] + Adds(more, s, n+1)
      /\ q = [i \in 0..(n+1) |-> q[i]]
  OBVIOUS
<1> HIDE DEF q
<1>3. \A i \in 0..(n+1) : q[i] = IF i = 0 THEN 0 ELSE q[i-1] + Adds(more, s, i)
  <2> SUFFICES ASSUME NEW i \in 0..(n+1) PROVE q[i] = IF i = 0 THEN 0 ELSE q[i-1] + Adds(more, s, i)
    OBVIOUS
  <2>1. CASE i = 0
    BY <1>1, <1>2, <2>1
  <2>2. CASE i \in 1..n
    <3>1. i - 1 \in 0..n /\ i \in 0..n /\ i # 0
      BY <2>2
    <3> QED
      BY <1>1, <1>2, <2>2, <3>1
  <2>3. CASE i = n + 1
    <3>1. i - 1 = n /\ n \in 0..n /\ i # 0
      BY <2>3
    <3> QED
      BY <1>2, <2>3, <3>1
  <2> QED
    BY <2>1, <2>2, <2>3
<1> QED
  BY <1>2, <1>3 DEF Sums, q

\* The sums are well defined.
LEMMA SumsExist ==
  ASSUME NEW evs, NEW s, NEW n \in Nat
  PROVE  \E r : Sums(r, evs, s, n)
<1> DEFINE T == {k \in Nat : \E r : Sums(r, evs, s, k)}
<1>1. 0 \in T
  <2>1. [i \in 0..0 |-> 0] = [i \in 0..0 |-> IF i = 0 THEN 0 ELSE [j \in 0..0 |-> 0][i-1] + Adds(evs, s, i)]
    OBVIOUS
  <2> QED
    BY <2>1 DEF Sums
<1>2. ASSUME NEW k \in Nat, k \in T PROVE k + 1 \in T
  <2>1. PICK r : Sums(r, evs, s, k)
    BY <1>2
  <2>2. \E q : Sums(q, evs, s, k + 1)
    BY <2>1, SumsGoOn
  <2> QED
    BY <2>2
<1> HIDE DEF T
<1>3. n \in T
  BY <1>1, <1>2, SetInduction
<1> QED
  BY <1>3 DEF T

\* There is one sum of the same events.
LEMMA SumsAgree ==
  ASSUME NEW evs, NEW s, NEW n \in Nat, NEW r, NEW q, Sums(r, evs, s, n), Sums(q, evs, s, n)
  PROVE  r[n] = q[n]
<1> DEFINE T == {k \in Nat : k <= n => r[k] = q[k]}
<1>1. 0 \in T
  BY SumsOf
<1>2. ASSUME NEW k \in Nat, k \in T PROVE k + 1 \in T
  <2>1. SUFFICES ASSUME k + 1 <= n PROVE r[k+1] = q[k+1]
    OBVIOUS
  <2>2. k + 1 \in 1..n /\ (k + 1) - 1 = k /\ r[k] = q[k]
    BY <1>2, <2>1
  <2>3. r[k+1] = r[k] + Adds(evs, s, k+1) /\ q[k+1] = q[k] + Adds(evs, s, k+1)
    BY <2>2, SumsOf
  <2> QED
    BY <2>2, <2>3
<1> HIDE DEF T
<1>3. n \in T
  BY <1>1, <1>2, SetInduction
<1> QED
  BY <1>3 DEF T

\* What Total is.
LEMMA TotalIs ==
  ASSUME NEW evs \in Seq(Event), NEW s, NEW r, Sums(r, evs, s, Len(evs))
  PROVE  Total(s, evs) = r[Len(evs)]
<1> DEFINE n == Len(evs)
           sum == CHOOSE f : f = [i \in 0..n |-> IF i = 0 THEN 0
                                   ELSE f[i-1] + (IF evs[i].session = s THEN evs[i].value ELSE 0)]
<1>1. Sums(sum, evs, s, n)
  <2>1. \E f : f = [i \in 0..n |-> IF i = 0 THEN 0
                                   ELSE f[i-1] + (IF evs[i].session = s THEN evs[i].value ELSE 0)]
    BY DEF Sums, Adds
  <2>2. sum = [i \in 0..n |-> IF i = 0 THEN 0
                                   ELSE sum[i-1] + (IF evs[i].session = s THEN evs[i].value ELSE 0)]
    BY <2>1, Zenon
  <2> HIDE DEF sum
  <2> QED
    BY <2>2 DEF Sums, Adds
<1>2. Total(s, evs) = sum[n]
  BY Zenon DEF Total
<1>3. n \in Nat
  OBVIOUS
<1> HIDE DEF sum
<1> QED
  BY <1>1, <1>2, <1>3, SumsAgree

LEMMA TotalOfNone == \A s : Total(s, << >>) = 0
<1> SUFFICES ASSUME NEW s PROVE Total(s, << >>) = 0
  OBVIOUS
<1>1. << >> \in Seq(Event) /\ Len(<< >>) = 0 /\ 0 \in Nat
  OBVIOUS
<1>2. PICK r : Sums(r, << >>, s, 0)
  BY <1>1, SumsExist
<1> QED
  BY <1>1, <1>2, TotalIs, SumsOf

\* One more event adds its value to the total of its session.
LEMMA TotalOfMore ==
  ASSUME NEW evs \in Seq(Event), NEW e \in Event, NEW s
  PROVE  Total(s, Append(evs, e)) = Total(s, evs) + (IF e.session = s THEN e.value ELSE 0)
<1> DEFINE n == Len(evs)
           more == Append(evs, e)
<1>1. n \in Nat /\ more \in Seq(Event) /\ Len(more) = n + 1 /\ more[n+1] = e /\ \A i \in 1..n : more[i] = evs[i]
  BY AppendProperties
<1>2. PICK r : Sums(r, evs, s, n)
  BY <1>1, SumsExist
<1> DEFINE q == [i \in 0..(n+1) |-> IF i <= n THEN r[i] ELSE r[n] + Adds(more, s, n+1)]
<1> HIDE DEF n, more
<1>3. \A i \in 1..n : Adds(more, s, i) = Adds(evs, s, i)
  BY <1>1 DEF Adds
<1>4. Sums(q, more, s, n+1)
  BY <1>1, <1>2, <1>3, SumsGoOn
<1>5. q[n+1] = r[n] + Adds(more, s, n+1)
  BY <1>1
<1> HIDE DEF q
<1>6. Total(s, evs) = r[n]
  BY <1>2, TotalIs DEF n
<1>7. Total(s, more) = q[n+1]
  BY <1>1, <1>4, TotalIs
<1>8. Adds(more, s, n+1) = IF e.session = s THEN e.value ELSE 0
  BY <1>1 DEF Adds
<1> QED
  BY <1>5, <1>6, <1>7, <1>8 DEF more

LEMMA MeterStays ==
  ASSUME TypeOK, Metered, TotalIsCounter, UNCHANGED <<counter, posts, last, events, overtaken>>
  PROVE  /\ Metered' /\ TotalIsCounter'
         /\ Len(events') <= MaxEvents /\ overtaken' \subseteq Sessions
  BY DEF TypeOK, Metered, TotalIsCounter

\* A value that comes after a smaller one adds the difference.
LEMMA IngestAdds ==
  ASSUME TypeOK, Metered, TotalIsCounter, NEW p \in posts, IngestPost(p)
  PROVE  /\ Metered' /\ TotalIsCounter'
         /\ Len(events') <= MaxEvents /\ overtaken' \subseteq Sessions
<1> DEFINE s == p[1]
           value == p[2]
           delta == Increase(s, value)
           e == [session |-> s, value |-> delta]
           more == IF delta = 0 THEN events ELSE Append(events, e)
<1>1. s \in Sessions /\ value \in Nat /\ value <= counter[s]
  BY DEF Metered
<1>2. /\ last \in [Sessions -> Nat] /\ counter \in [Sessions -> Nat] /\ events \in Seq(Event)
      /\ \A u \in Sessions : last[u] <= counter[u]
  BY DEF Metered
<1>3. delta = (IF value > last[s] THEN value - last[s] ELSE 0) /\ delta \in Nat
  BY <1>1, <1>2 DEF Increase
<1>4. events' = Kept(more) /\ last' = [last EXCEPT ![s] = value] /\ counter' = counter
  BY DEF IngestPost
<1>5. overtaken' = IF value < last[s] THEN overtaken \cup {s} ELSE overtaken
  BY DEF IngestPost
<1>6. posts' \subseteq posts
  BY DEF IngestPost
<1>7. e \in Event /\ e.session = s /\ e.value = delta
  BY <1>1, <1>3 DEF Event
<1> HIDE DEF s, value, delta, e
<1>8. more \in Seq(Event)
  BY <1>2, <1>7, AppendProperties
<1>9. /\ delta = 0 => more = events
      /\ delta # 0 => \A u \in Sessions : Total(u, more) = Total(u, events) + (IF s = u THEN delta ELSE 0)
  <2>1. \A u \in Sessions :
          Total(u, Append(events, e)) = Total(u, events) + (IF e.session = u THEN e.value ELSE 0)
    BY <1>2, <1>7, TotalOfMore
  <2> QED
    BY <1>7, <2>1
<1>10. Len(more) >= Len(events) /\ Len(more) \in Nat /\ Len(events) \in Nat
  BY <1>2, <1>7, AppendProperties
<1> HIDE DEF more
<1>11. /\ events' \in Seq(Event) /\ Len(events') <= MaxEvents
       /\ Len(events') < MaxEvents => events' = more
  BY <1>4, <1>8, KeptEvents
<1>12. /\ last' \in [Sessions -> Nat] /\ last'[s] = value
       /\ \A u \in Sessions \ {s} : last'[u] = last[u]
  BY <1>1, <1>2, <1>4
<1>13. Metered'
  <2>1. \A u \in Sessions : last'[u] <= counter[u]
    BY <1>1, <1>2, <1>12
  <2> QED
    BY <1>2, <1>4, <1>6, <1>11, <1>12, <2>1 DEF Metered
<1>14. TotalIsCounter'
  <2> SUFFICES ASSUME NEW u \in Sessions \ overtaken', Len(events') < MaxEvents
               PROVE  Total(u, events') = last'[u] /\ Total(u, events') <= counter'[u]
    BY DEF TotalIsCounter
  <2>1. u \notin overtaken /\ events' = more /\ Len(events) < MaxEvents
    <3>1. MaxEvents \in Nat
      BY BoundsAssumption
    <3> QED
      BY <1>5, <1>10, <1>11, <3>1
  <2>2. Total(u, events) = last[u]
    BY <2>1 DEF TotalIsCounter
  <2>3. CASE u = s
    <3>1. value >= last[s]
      BY <1>1, <1>2, <1>5, <2>3
    <3>2. Total(u, more) = value
      BY <1>1, <1>2, <1>3, <1>9, <2>2, <2>3, <3>1
    <3> QED
      BY <1>1, <1>4, <1>12, <2>1, <2>3, <3>2
  <2>4. CASE u # s
    <3>1. Total(u, more) = last[u]
      BY <1>2, <1>9, <2>2, <2>4
    <3> QED
      BY <1>2, <1>4, <1>12, <2>1, <2>4, <3>1
  <2> QED
    BY <2>3, <2>4
<1> QED
  BY <1>1, <1>5, <1>11, <1>13, <1>14 DEF TypeOK

\* Every step keeps what the counters and their posts are.
LEMMA MeterStep ==
  ASSUME TypeOK, Metered, TotalIsCounter, [Next]_vars
  PROVE  /\ Metered' /\ TotalIsCounter'
         /\ Len(events') <= MaxEvents /\ overtaken' \subseteq Sessions
<1>1. ASSUME NEW line \in Requests \cup {Limit}, WriteLine(line) PROVE /\ Metered' /\ TotalIsCounter'
         /\ Len(events') <= MaxEvents /\ overtaken' \subseteq Sessions
  <2>1. UNCHANGED <<counter, posts, last, events, overtaken>>
    BY <1>1 DEF WriteLine, Recording, vars, telemetry
  <2> QED
    BY <2>1, MeterStays
<1>2. ASSUME WriteRest PROVE /\ Metered' /\ TotalIsCounter'
         /\ Len(events') <= MaxEvents /\ overtaken' \subseteq Sessions
  <2>1. UNCHANGED <<counter, posts, last, events, overtaken>>
    BY <1>2 DEF WriteRest, Recording, vars, telemetry
  <2> QED
    BY <2>1, MeterStays
<1>3. ASSUME Rotate PROVE /\ Metered' /\ TotalIsCounter'
         /\ Len(events') <= MaxEvents /\ overtaken' \subseteq Sessions
  <2>1. UNCHANGED <<counter, posts, last, events, overtaken>>
    BY <1>3 DEF Rotate, Recording, vars, telemetry
  <2> QED
    BY <2>1, MeterStays
<1>4. ASSUME NEW t \in Threads, Boot(t) PROVE /\ Metered' /\ TotalIsCounter'
         /\ Len(events') <= MaxEvents /\ overtaken' \subseteq Sessions
  <2>1. UNCHANGED <<counter, posts, last, events, overtaken>>
    BY <1>4 DEF Boot, Storing, vars, telemetry
  <2> QED
    BY <2>1, MeterStays
<1>5. ASSUME NEW t \in Threads, Get(t) PROVE /\ Metered' /\ TotalIsCounter'
         /\ Len(events') <= MaxEvents /\ overtaken' \subseteq Sessions
  <2>1. UNCHANGED <<counter, posts, last, events, overtaken>>
    BY <1>5 DEF Get, telemetry
  <2> QED
    BY <2>1, MeterStays
<1>6. ASSUME NEW t \in Threads, Look(t) PROVE /\ Metered' /\ TotalIsCounter'
         /\ Len(events') <= MaxEvents /\ overtaken' \subseteq Sessions
  <2>1. UNCHANGED <<counter, posts, last, events, overtaken>>
    BY <1>6 DEF Look, Storing, vars, telemetry
  <2> QED
    BY <2>1, MeterStays
<1>7. ASSUME NEW t \in Threads, Read(t) PROVE /\ Metered' /\ TotalIsCounter'
         /\ Len(events') <= MaxEvents /\ overtaken' \subseteq Sessions
  <2>1. UNCHANGED <<counter, posts, last, events, overtaken>>
    BY <1>7 DEF Read, Storing, vars, telemetry
  <2> QED
    BY <2>1, MeterStays
<1>8. ASSUME NEW t \in Threads, SetOffset(t) PROVE /\ Metered' /\ TotalIsCounter'
         /\ Len(events') <= MaxEvents /\ overtaken' \subseteq Sessions
  <2>1. UNCHANGED <<counter, posts, last, events, overtaken>>
    BY <1>8 DEF SetOffset, Storing, vars, telemetry
  <2> QED
    BY <2>1, MeterStays
<1>9. ASSUME NEW t \in Threads, Ingest(t) PROVE /\ Metered' /\ TotalIsCounter'
         /\ Len(events') <= MaxEvents /\ overtaken' \subseteq Sessions
  <2>1. UNCHANGED <<counter, posts, last, events, overtaken>>
    BY <1>9 DEF Ingest, Storing, vars, telemetry
  <2> QED
    BY <2>1, MeterStays
<1>10. ASSUME NEW t \in Threads, Record(t) PROVE /\ Metered' /\ TotalIsCounter'
         /\ Len(events') <= MaxEvents /\ overtaken' \subseteq Sessions
  <2>1. UNCHANGED <<counter, posts, last, events, overtaken>>
    BY <1>10 DEF Record, Storing, vars, telemetry
  <2> QED
    BY <2>1, MeterStays
<1>11. ASSUME NEW t \in Threads, SortCalls(t) PROVE /\ Metered' /\ TotalIsCounter'
         /\ Len(events') <= MaxEvents /\ overtaken' \subseteq Sessions
  <2>1. UNCHANGED <<counter, posts, last, events, overtaken>>
    BY <1>11 DEF SortCalls, Storing, vars, telemetry
  <2> QED
    BY <2>1, MeterStays
<1>12. ASSUME NEW t \in Threads, CallsSorted(t) PROVE /\ Metered' /\ TotalIsCounter'
         /\ Len(events') <= MaxEvents /\ overtaken' \subseteq Sessions
  <2>1. UNCHANGED <<counter, posts, last, events, overtaken>>
    BY <1>12 DEF CallsSorted, Storing, vars, telemetry
  <2> QED
    BY <2>1, MeterStays
<1>13. ASSUME NEW t \in Threads, SortLimits(t) PROVE /\ Metered' /\ TotalIsCounter'
         /\ Len(events') <= MaxEvents /\ overtaken' \subseteq Sessions
  <2>1. UNCHANGED <<counter, posts, last, events, overtaken>>
    BY <1>13 DEF SortLimits, Storing, vars, telemetry
  <2> QED
    BY <2>1, MeterStays
<1>14. ASSUME NEW t \in Threads, LimitsSorted(t) PROVE /\ Metered' /\ TotalIsCounter'
         /\ Len(events') <= MaxEvents /\ overtaken' \subseteq Sessions
  <2>1. UNCHANGED <<counter, posts, last, events, overtaken>>
    BY <1>14 DEF LimitsSorted, Storing, vars, telemetry
  <2> QED
    BY <2>1, MeterStays
<1>15. ASSUME NEW t \in Threads, Dump(t) PROVE /\ Metered' /\ TotalIsCounter'
         /\ Len(events') <= MaxEvents /\ overtaken' \subseteq Sessions
  <2>1. UNCHANGED <<counter, posts, last, events, overtaken>>
    BY <1>15 DEF Dump, Storing, vars, telemetry
  <2> QED
    BY <2>1, MeterStays
<1>16. ASSUME NEW t \in Threads, Open(t) PROVE /\ Metered' /\ TotalIsCounter'
         /\ Len(events') <= MaxEvents /\ overtaken' \subseteq Sessions
  <2>1. UNCHANGED <<counter, posts, last, events, overtaken>>
    BY <1>16 DEF Open, Storing, vars, telemetry
  <2> QED
    BY <2>1, MeterStays
<1>17. ASSUME NEW t \in Threads, Write(t) PROVE /\ Metered' /\ TotalIsCounter'
         /\ Len(events') <= MaxEvents /\ overtaken' \subseteq Sessions
  <2>1. UNCHANGED <<counter, posts, last, events, overtaken>>
    BY <1>17 DEF Write, Storing, vars, telemetry
  <2> QED
    BY <2>1, MeterStays
<1>18. ASSUME NEW s \in Sessions, Use(s) PROVE /\ Metered' /\ TotalIsCounter'
         /\ Len(events') <= MaxEvents /\ overtaken' \subseteq Sessions
  <2>1. counter' = [counter EXCEPT ![s] = counter[s] + 1] /\ UNCHANGED <<posts, last, events, overtaken>>
    BY <1>18 DEF Use
  <2>2. counter' \in [Sessions -> Nat] /\ \A u \in Sessions : counter[u] <= counter'[u] /\ counter[u] \in Nat
    BY <2>1 DEF Metered
  <2>3. Metered'
    <3>1. \A p \in posts : p \in Sessions \X Nat /\ p[2] <= counter'[p[1]]
      BY <2>2 DEF Metered
    <3>2. \A u \in Sessions : last[u] <= counter'[u]
      BY <2>2 DEF Metered
    <3> QED
      BY <2>1, <2>2, <3>1, <3>2 DEF Metered
  <2>4. TotalIsCounter'
    <3>1. \A u \in Sessions : last[u] \in Nat /\ last[u] <= counter'[u]
      BY <2>2 DEF Metered
    <3> QED
      BY <2>1, <3>1 DEF TotalIsCounter
  <2> QED
    BY <2>1, <2>3, <2>4 DEF TypeOK
<1>19. ASSUME NEW s \in Sessions, Export(s) PROVE /\ Metered' /\ TotalIsCounter'
         /\ Len(events') <= MaxEvents /\ overtaken' \subseteq Sessions
  <2>1. posts' = posts \cup {<<s, counter[s]>>} /\ UNCHANGED <<counter, last, events, overtaken>>
    BY <1>19 DEF Export
  <2>2. Metered' /\ TotalIsCounter'
    BY <2>1 DEF Metered, TotalIsCounter
  <2> QED
    BY <2>1, <2>2 DEF TypeOK
<1>20. ASSUME NEW p \in posts, Lose(p) PROVE /\ Metered' /\ TotalIsCounter'
         /\ Len(events') <= MaxEvents /\ overtaken' \subseteq Sessions
  <2>1. posts' \subseteq posts /\ UNCHANGED <<counter, last, events, overtaken>>
    BY <1>20 DEF Lose
  <2>2. Metered' /\ TotalIsCounter'
    BY <2>1 DEF Metered, TotalIsCounter
  <2> QED
    BY <2>1, <2>2 DEF TypeOK
<1>21. ASSUME NEW p \in posts, IngestPost(p) PROVE /\ Metered' /\ TotalIsCounter'
         /\ Len(events') <= MaxEvents /\ overtaken' \subseteq Sessions
  BY <1>21, IngestAdds
<1>22. ASSUME Crash PROVE /\ Metered' /\ TotalIsCounter'
         /\ Len(events') <= MaxEvents /\ overtaken' \subseteq Sessions
  <2>1. last' = [s \in Sessions |-> 0] /\ events' = << >> /\ UNCHANGED <<counter, posts, overtaken>>
    BY <1>22 DEF Crash
  <2>2. << >> \in Seq(Event) /\ Len(<< >>) = 0 /\ MaxEvents \in Nat
    BY BoundsAssumption
  <2>3. Metered' /\ TotalIsCounter'
    BY <2>1, <2>2, TotalOfNone DEF Metered, TotalIsCounter
  <2> QED
    BY <2>1, <2>2, <2>3 DEF TypeOK
<1>23. ASSUME UNCHANGED vars PROVE /\ Metered' /\ TotalIsCounter'
         /\ Len(events') <= MaxEvents /\ overtaken' \subseteq Sessions
  <2>1. UNCHANGED <<counter, posts, last, events, overtaken>>
    BY <1>23 DEF vars, telemetry
  <2> QED
    BY <2>1, MeterStays
<1> QED
  BY <1>1, <1>2, <1>3, <1>4, <1>5, <1>6, <1>7, <1>8, <1>9, <1>10, <1>11, <1>12, <1>13, <1>14, <1>15, <1>16, <1>17, <1>18, <1>19, <1>20, <1>21, <1>22, <1>23, Zenon DEF Next, Thread

\* Every step keeps the types.
LEMMA TypeStep ==
  ASSUME TypeOK, Typed, Metered, TotalIsCounter, [Next]_vars
  PROVE  TypeOK'
<1>1. /\ source' \in {"records", "telemetry"} /\ up' \in {"down", "starting", "serving"}
      /\ polls' \in 0..MaxPolls /\ crashes' \in Nat /\ rotations' \in Nat /\ crashes' + rotations' <= MaxFaults
  BY BoundsStep
<1>2. Len(file') <= MaxLines /\ (partial' => file' # << >>)
  BY DiskStep
<1>3. offset' \in 0..2 * MaxLines /\ seen' \subseteq Requests
  BY MemoryStep DEF Positions
<1>4. /\ pc' \in [Threads -> Steps]
      /\ \A u \in Threads : pc'[u] = "record" => Head(th'[u].todo) \in Requests
  BY ControlStep
<1>5. halved' \subseteq 1..MaxLines
  BY HalvedStep
<1>6. up' # "serving" => \A t, u \in Threads : t # u => pc'[t] = "idle" \/ pc'[u] = "idle"
  BY StartStep
<1>7. Len(events') <= MaxEvents /\ overtaken' \subseteq Sessions
  BY MeterStep
<1> QED
  BY <1>1, <1>2, <1>3, <1>4, <1>5, <1>6, <1>7 DEF TypeOK

-----------------------------------------------------------------------------
(* Nothing is counted twice.                                               *)

LEMMA ListTypes ==
  ASSUME TypeOK, Typed
  PROVE  /\ \A list \in CallLists : list \in [Requests -> Nat]
         /\ calls.items \in CallLists
         /\ \A t \in Threads : pc[t] = "calls sorted" => th[t].kept.items \in CallLists /\ th[t].kept \in CallList
<1>1. calls.items \in [Requests -> Nat]
  BY DEF Typed, CallList
<1>2. \A t \in Threads : pc[t] = "calls sorted" => th[t].kept \in CallList /\ th[t].kept.items \in [Requests -> Nat]
  BY HasLocal DEF CallList
<1> QED
  BY <1>1, <1>2 DEF CallLists

\* A step of t in which no sort of calls begins or ends.
LEMMA SameLists ==
  ASSUME TypeOK, Typed, NEW t \in Threads, Alone(t), calls'.items = calls.items, pc[t] # "calls sorted", pc'[t] # "calls sorted"
  PROVE  CallLists' = CallLists
<1>1. \A u \in Threads : pc'[u] = "calls sorted" <=> pc[u] = "calls sorted"
  BY DEF Alone, Others
<1>2. \A u \in Threads : pc[u] = "calls sorted" => th'[u] = th[u]
  BY DEF Alone, Others
<1> QED
  BY <1>1, <1>2 DEF CallLists

LEMMA PlusZero == \A n \in Nat : n <= n /\ n + 0 = n
  OBVIOUS

LEMMA MostIsNat == Cardinality(Threads) \in Nat /\ Most \in Nat /\ (Threads # {} => Most >= 1 /\ Cardinality(Threads) >= 1)
<1>1. Cardinality(Threads) \in Nat
  BY ThreadsAssumption, FS_CardinalityType
<1>2. Threads # {} => Cardinality(Threads) # 0
  BY ThreadsAssumption, FS_EmptySet
<1> QED
  BY <1>1, <1>2 DEF Most

LEMMA ClaimsAreFew ==
  ASSUME NEW r
  PROVE  IsFiniteSet(Claims(r)) /\ Cardinality(Claims(r)) \in Nat /\ Cardinality(Claims(r)) <= Cardinality(Threads)
<1>1. Claims(r) \subseteq Threads
  BY DEF Claims
<1>2. IsFiniteSet(Claims(r)) /\ Cardinality(Claims(r)) <= Cardinality(Threads)
  BY <1>1, ThreadsAssumption, FS_Subset
<1> QED
  BY <1>2, FS_CardinalityType

\* Claims and lists of which there are no more than before.
LEMMA ClaimsFewer ==
  ASSUME TypeOK, Typed, ListsClaimed, \A list \in CallLists' : list \in CallLists \/ list = NoCalls.items,
         \A r \in Requests : Claims(r)' \subseteq Claims(r),
         seen' = seen, Most' \in Nat, Most <= Most'
  PROVE  ListsClaimed'
<1> SUFFICES ASSUME NEW list \in CallLists', NEW r \in Requests
             PROVE  list[r] + Cardinality(Claims(r)') <= Most' /\ (r \notin seen => list[r] = 0)
  BY DEF ListsClaimed
<1>1. Claims(r)' \subseteq Claims(r) /\ IsFiniteSet(Claims(r)) /\ Cardinality(Claims(r)) \in Nat
  BY ClaimsAreFew
<1>2. Cardinality(Claims(r)') \in Nat /\ Cardinality(Claims(r)') <= Cardinality(Claims(r))
  <2> DEFINE C == Claims(r)'
  <2>1. C \subseteq Claims(r)
    BY <1>1
  <2> HIDE DEF C
  <2>2. IsFiniteSet(C) /\ Cardinality(C) <= Cardinality(Claims(r))
    BY <1>1, <2>1, FS_Subset
  <2>3. Cardinality(C) \in Nat
    BY <2>2, FS_CardinalityType
  <2> QED
    BY <2>2, <2>3 DEF C
<1>3. Most \in Nat
  BY MostIsNat
<1>4. CASE list \in CallLists
  <2>1. list[r] \in Nat
    BY <1>4, ListTypes
  <2>2. list[r] + Cardinality(Claims(r)) <= Most /\ (r \notin seen => list[r] = 0)
    BY <1>4 DEF ListsClaimed
  <2> QED
    BY <1>1, <1>2, <1>3, <2>1, <2>2
<1>5. CASE list = NoCalls.items
  <2>1. list[r] = 0
    BY <1>5, Lists
  <2>2. calls.items[r] \in Nat /\ calls.items[r] + Cardinality(Claims(r)) <= Most
    BY ListTypes DEF ListsClaimed
  <2> QED
    BY <1>1, <1>2, <1>3, <2>1, <2>2
<1> QED
  BY <1>4, <1>5

\* A step of t in which the calls stay where they are, and after which t records nothing.
LEMMA ClaimsKept ==
  ASSUME TypeOK, Typed, ListsClaimed, NEW t \in Threads, Alone(t), calls'.items = calls.items, seen' = seen,
         overlapped' = overlapped, pc[t] # "calls sorted", pc'[t] \notin {"calls sorted", "record"}
  PROVE  ListsClaimed'
<1>1. CallLists' = CallLists
  BY SameLists
<1>2. \A r \in Requests : Claims(r)' \subseteq Claims(r)
  BY DEF Claims, Alone, Others
<1>3. Most' \in Nat /\ Most <= Most'
  <2>1. Most' = Most /\ Most \in Nat
    BY MostIsNat DEF Most
  <2> QED
    BY <2>1, PlusZero, Zenon
<1> QED
  BY <1>1, <1>2, <1>3, ClaimsFewer

LEMMA ClaimsStay ==
  ASSUME ListsClaimed, UNCHANGED <<calls, pc, th, seen, overlapped>>
  PROVE  ListsClaimed'
  BY DEF ListsClaimed, CallLists, Claims, Most

\* When all threads are elsewhere, the list in place is the only one and nothing is claimed.
LEMMA ClaimsAfresh ==
  ASSUME Most' \in Nat, \A u \in Threads : pc'[u] \notin {"calls sorted", "record"}, calls'.items \in [Requests -> Nat],
         \A r \in Requests : calls'.items[r] <= Most' /\ (r \notin seen' => calls'.items[r] = 0)
  PROVE  ListsClaimed'
<1>1. CallLists' = {calls'.items}
  BY DEF CallLists
<1>2. \A r : Claims(r)' = {}
  BY DEF Claims
<1>3. Cardinality({}) = 0
  BY FS_EmptySet
<1>4. \A r \in Requests : calls'.items[r] \in Nat
  OBVIOUS
<1> SUFFICES ASSUME NEW list \in CallLists', NEW r \in Requests
             PROVE  list[r] + Cardinality(Claims(r)') <= Most' /\ (r \notin seen' => list[r] = 0)
  BY DEF ListsClaimed
<1>5. list = calls'.items /\ Cardinality(Claims(r)') = 0
  BY <1>1, <1>2, <1>3
<1>6. list[r] \in Nat /\ list[r] <= Most' /\ (r \notin seen' => list[r] = 0)
  BY <1>4, <1>5
<1>7. list[r] + 0 = list[r]
  BY <1>6, PlusZero, Zenon
<1> QED
  BY <1>5, <1>6, <1>7, Zenon

\* Threads that have not overlapped take turns.
LEMMA InTurnStep ==
  ASSUME TypeOK, Typed, InTurn, [Next]_vars
  PROVE  InTurn'
<1>1. ASSUME NEW line \in Requests \cup {Limit}, WriteLine(line) PROVE InTurn'
  BY <1>1 DEF WriteLine, Recording, vars, disk, store, history, telemetry, InTurn
<1>2. ASSUME WriteRest PROVE InTurn'
  BY <1>2 DEF WriteRest, Recording, vars, disk, store, history, telemetry, InTurn
<1>3. ASSUME Rotate PROVE InTurn'
  BY <1>3 DEF Rotate, Recording, vars, disk, store, history, telemetry, InTurn
<1>4. ASSUME NEW t \in Threads, Boot(t) PROVE InTurn'
  <2>1. Alone(t) /\ up = "down"
    BY <1>4, BootDoes DEF Boot
  <2> QED
    BY <2>1 DEF Alone, Others, InTurn, Typed
<1>5. ASSUME NEW t \in Threads, Get(t) PROVE InTurn'
  <2>1. Alone(t) /\ overlapped' = (overlapped \/ \E u \in Threads \ {t} : pc[u] # "idle")
    BY <1>5, GetDoes DEF Get
  <2> QED
    BY <2>1 DEF Alone, Others, InTurn
<1>6. ASSUME NEW t \in Threads, Look(t) PROVE InTurn'
  <2>1. Alone(t) /\ pc[t] # "idle" /\ overlapped' = overlapped
    BY <1>6, LookDoes DEF Look, history
  <2> QED
    BY <2>1 DEF Alone, Others, InTurn
<1>7. ASSUME NEW t \in Threads, Read(t) PROVE InTurn'
  <2>1. Alone(t) /\ pc[t] # "idle" /\ overlapped' = overlapped
    BY <1>7, ReadDoes DEF Read, history
  <2> QED
    BY <2>1 DEF Alone, Others, InTurn
<1>8. ASSUME NEW t \in Threads, SetOffset(t) PROVE InTurn'
  <2>1. Alone(t) /\ pc[t] # "idle" /\ overlapped' = overlapped
    BY <1>8, SetOffsetDoes DEF SetOffset, history
  <2> QED
    BY <2>1 DEF Alone, Others, InTurn
<1>9. ASSUME NEW t \in Threads, Ingest(t) PROVE InTurn'
  <2>1. Alone(t) /\ pc[t] # "idle" /\ overlapped' = overlapped
    BY <1>9, IngestDoes DEF Ingest, history
  <2> QED
    BY <2>1 DEF Alone, Others, InTurn
<1>10. ASSUME NEW t \in Threads, Record(t) PROVE InTurn'
  <2>1. Alone(t) /\ pc[t] # "idle" /\ overlapped' = overlapped
    BY <1>10, RecordDoes DEF Record, history
  <2> QED
    BY <2>1 DEF Alone, Others, InTurn
<1>11. ASSUME NEW t \in Threads, SortCalls(t) PROVE InTurn'
  <2>1. Alone(t) /\ pc[t] # "idle" /\ overlapped' = overlapped
    BY <1>11, SortCallsDoes DEF SortCalls, history
  <2> QED
    BY <2>1 DEF Alone, Others, InTurn
<1>12. ASSUME NEW t \in Threads, CallsSorted(t) PROVE InTurn'
  <2>1. Alone(t) /\ pc[t] # "idle" /\ overlapped' = overlapped
    BY <1>12, CallsSortedDoes DEF CallsSorted, history
  <2> QED
    BY <2>1 DEF Alone, Others, InTurn
<1>13. ASSUME NEW t \in Threads, SortLimits(t) PROVE InTurn'
  <2>1. Alone(t) /\ pc[t] # "idle" /\ overlapped' = overlapped
    BY <1>13, SortLimitsDoes DEF SortLimits, history
  <2> QED
    BY <2>1 DEF Alone, Others, InTurn
<1>14. ASSUME NEW t \in Threads, LimitsSorted(t) PROVE InTurn'
  <2>1. Alone(t) /\ pc[t] # "idle" /\ overlapped' = overlapped
    BY <1>14, LimitsSortedDoes DEF LimitsSorted, history
  <2> QED
    BY <2>1 DEF Alone, Others, InTurn
<1>15. ASSUME NEW t \in Threads, Dump(t) PROVE InTurn'
  <2>1. Alone(t) /\ pc[t] # "idle" /\ overlapped' = overlapped
    BY <1>15, DumpDoes DEF Dump, history
  <2> QED
    BY <2>1 DEF Alone, Others, InTurn
<1>16. ASSUME NEW t \in Threads, Open(t) PROVE InTurn'
  <2>1. Alone(t) /\ pc[t] # "idle" /\ overlapped' = overlapped
    BY <1>16, OpenDoes DEF Open, history
  <2> QED
    BY <2>1 DEF Alone, Others, InTurn
<1>17. ASSUME NEW t \in Threads, Write(t) PROVE InTurn'
  <2>1. Alone(t) /\ pc[t] # "idle" /\ overlapped' = overlapped
    BY <1>17, WriteDoes DEF Write, history
  <2> QED
    BY <2>1 DEF Alone, Others, InTurn
<1>18. ASSUME NEW s \in Sessions, Use(s) PROVE InTurn'
  BY <1>18 DEF Use, Metering, vars, disk, store, history, telemetry, InTurn
<1>19. ASSUME NEW s \in Sessions, Export(s) PROVE InTurn'
  BY <1>19 DEF Export, Metering, vars, disk, store, history, telemetry, InTurn
<1>20. ASSUME NEW p \in posts, Lose(p) PROVE InTurn'
  BY <1>20 DEF Lose, Metering, vars, disk, store, history, telemetry, InTurn
<1>21. ASSUME NEW p \in posts, IngestPost(p) PROVE InTurn'
  BY <1>21 DEF IngestPost, Metering, vars, disk, store, history, telemetry, InTurn
<1>22. ASSUME Crash PROVE InTurn'
  <2>1. pc' = [t \in Threads |-> "idle"]
    BY <1>22 DEF Crash
  <2> QED
    BY <2>1 DEF InTurn
<1>23. ASSUME UNCHANGED vars PROVE InTurn'
  BY <1>23 DEF vars, disk, store, history, telemetry, InTurn
<1> QED
  BY <1>1, <1>2, <1>3, <1>4, <1>5, <1>6, <1>7, <1>8, <1>9, <1>10, <1>11, <1>12, <1>13, <1>14, <1>15, <1>16, <1>17, <1>18, <1>19, <1>20, <1>21, <1>22, <1>23, Zenon DEF Next, Thread

\* Every step keeps the lists within the claims.
LEMMA ListsClaimedStep ==
  ASSUME TypeOK, Typed, InTurn, Claimed, ListsClaimed, [Next]_vars
  PROVE  ListsClaimed'
<1>1. ASSUME NEW line \in Requests \cup {Limit}, WriteLine(line) PROVE ListsClaimed'
  <2>1. UNCHANGED <<calls, pc, th, seen, overlapped>>
    BY <1>1 DEF WriteLine, Recording, store, history
  <2> QED
    BY <2>1, ClaimsStay
<1>2. ASSUME WriteRest PROVE ListsClaimed'
  <2>1. UNCHANGED <<calls, pc, th, seen, overlapped>>
    BY <1>2 DEF WriteRest, Recording, store, history
  <2> QED
    BY <2>1, ClaimsStay
<1>3. ASSUME Rotate PROVE ListsClaimed'
  <2>1. UNCHANGED <<calls, pc, th, seen, overlapped>>
    BY <1>3 DEF Rotate, Recording, store, history
  <2> QED
    BY <2>1, ClaimsStay
<1>4. ASSUME NEW t \in Threads, Boot(t) PROVE ListsClaimed'
  <2>1. Alone(t) /\ up = "down" /\ pc'[t] = "look" /\ overlapped' = overlapped
    BY <1>4, BootDoes DEF Boot, Rests, Stands, history
  <2>2. \A u \in Threads : pc'[u] \notin {"calls sorted", "record"}
    BY <2>1 DEF Alone, Others, Typed
  <2>3. Most' = Most /\ Most \in Nat
    BY <2>1, MostIsNat DEF Most
  <2>4. CASE Loadable
    <3>1. cache.calls \in [Requests -> Nat] /\ \A r \in Requests : cache.calls[r] <= Most
      BY <2>4 DEF Typed, Saved, Claimed, Dumps
    <3>2. calls' = [NoCalls EXCEPT !.items = cache.calls] /\ seen' = {r \in Requests : cache.calls[r] > 0}
      BY <1>4, <2>4 DEF Boot
    <3>3. calls'.items = cache.calls
      BY <3>1, <3>2, Lists
    <3>4. \A r \in Requests : cache.calls[r] \in Nat /\ (r \notin seen' => cache.calls[r] = 0)
      BY <3>1, <3>2
    <3> QED
      BY <2>2, <2>3, <3>1, <3>3, <3>4, ClaimsAfresh
  <2>5. CASE ~Loadable
    <3>1. calls' = NoCalls
      BY <1>4, <2>1, <2>5 DEF Boot, store, Typed
    <3>2. calls'.items \in [Requests -> Nat] /\ \A r \in Requests : calls'.items[r] = 0
      BY <3>1, Lists
    <3>3. Most' \in Nat /\ \A r \in Requests : calls'.items[r] <= Most'
      BY <2>3, <3>2
    <3> QED
      BY <2>2, <3>2, <3>3, ClaimsAfresh
  <2> QED
    BY <2>4, <2>5
<1>5. ASSUME NEW t \in Threads, Get(t) PROVE ListsClaimed'
  <2>1. Alone(t) /\ pc[t] = "idle" /\ pc'[t] = "look"
    BY <1>5, GetDoes DEF Rests, Stands
  <2>2. calls' = calls /\ seen' = seen /\ overlapped' \in BOOLEAN /\ (overlapped => overlapped')
    BY <1>5 DEF Get, store
  <2>3. CallLists' = CallLists
    BY <2>1, <2>2, SameLists
  <2>4. \A r \in Requests : Claims(r)' \subseteq Claims(r)
    BY <2>1 DEF Claims, Alone, Others
  <2>5. Most' \in Nat /\ Most <= Most'
    BY <2>2, MostIsNat DEF Most
  <2> QED
    BY <2>2, <2>3, <2>4, <2>5, ClaimsFewer
<1>6. ASSUME NEW t \in Threads, Look(t) PROVE ListsClaimed'
  <2>1. Alone(t) /\ pc[t] # "calls sorted" /\ pc'[t] \notin {"calls sorted", "record"}
    BY <1>6, LookDoes DEF Stands, Rests, Left
  <2>2. calls' = calls /\ seen' = seen /\ overlapped' = overlapped
    BY <1>6 DEF Look, store, history
  <2> QED
    BY <2>1, <2>2, ClaimsKept
<1>7. ASSUME NEW t \in Threads, Read(t) PROVE ListsClaimed'
  <2>1. Alone(t) /\ pc[t] # "calls sorted" /\ pc'[t] \notin {"calls sorted", "record"}
    BY <1>7, ReadDoes DEF Stands, Rests, Left
  <2>2. calls' = calls /\ seen' = seen /\ overlapped' = overlapped
    BY <1>7 DEF Read, store, history
  <2> QED
    BY <2>1, <2>2, ClaimsKept
<1>8. ASSUME NEW t \in Threads, SetOffset(t) PROVE ListsClaimed'
  <2>1. Alone(t) /\ pc[t] # "calls sorted" /\ pc'[t] \notin {"calls sorted", "record"}
    BY <1>8, SetOffsetDoes DEF Stands, Rests, Left
  <2>2. calls' = calls /\ seen' = seen /\ overlapped' = overlapped
    BY <1>8 DEF SetOffset, store, history
  <2> QED
    BY <2>1, <2>2, ClaimsKept
<1>9. ASSUME NEW t \in Threads, Ingest(t) PROVE ListsClaimed'
  <2>h. PICK h : h = Head(th[t].todo)
    OBVIOUS
  <2>1. Alone(t) /\ pc[t] = "ingest" /\ calls' = calls /\ seen' = seen /\ overlapped' = overlapped
    BY <1>9, IngestDoes DEF Ingest, history
  <2>2. CASE h \notin Requests \ seen
    <3>1. pc'[t] \in {"sort calls", "ingest"}
      BY <1>9, <2>2, IngestDoes, <2>h DEF Stands
    <3> QED
      BY <2>1, <3>1, ClaimsKept
  <2>3. CASE h \in Requests \ seen
    <3>1. pc'[t] = "record" /\ th'[t].todo = th[t].todo
      BY <1>9, <2>h, <2>3, IngestDoes DEF Stands
    <3>2. CallLists' = CallLists /\ Most' = Most
      BY <2>1, <3>1, SameLists DEF Most
    <3>3. \A r \in Requests \ {h} : Claims(r)' = Claims(r)
      BY <2>h, <2>1, <3>1 DEF Claims, Alone, Others
    <3>4. \A list \in CallLists : list[h] = 0
      BY <2>3 DEF ListsClaimed
    <3>5. ASSUME NEW r \in {h}
          PROVE  Cardinality(Claims(r)') \in Nat /\ Cardinality(Claims(r)') <= Most
      <4> DEFINE C == Claims(r)'
      <4>1. C \subseteq Threads /\ t \in C /\ (~overlapped => C \subseteq {t})
        BY <2>h, <2>1, <3>1 DEF Claims, InTurn, Alone, Others
      <4> HIDE DEF C
      <4>2. IsFiniteSet(C) /\ Cardinality(C) <= Cardinality(Threads)
        BY <4>1, ThreadsAssumption, FS_Subset
      <4>3. Cardinality(C) \in Nat
        BY <4>2, FS_CardinalityType
      <4>4. ~overlapped => C = {t} /\ Cardinality({t}) = 1
        BY <4>1, FS_Singleton
      <4>5. Cardinality(C) <= Most
        BY <4>2, <4>3, <4>4 DEF Most
      <4> QED
        BY <4>3, <4>5 DEF C
    <3> SUFFICES ASSUME NEW list \in CallLists, NEW r \in Requests
                 PROVE  list[r] + Cardinality(Claims(r)') <= Most /\ (r \notin seen => list[r] = 0)
      BY <2>1, <3>2 DEF ListsClaimed
    <3>6. CASE r = h
      <4>1. Cardinality(Claims(r)') \in Nat /\ Cardinality(Claims(r)') <= Most
        BY <3>5, <3>6
      <4>2. list[r] = 0
        BY <3>4, <3>6
      <4> QED
        BY <4>1, <4>2, MostIsNat
    <3>7. CASE r # h
      BY <3>3, <3>7 DEF ListsClaimed
    <3> QED
      BY <3>6, <3>7
  <2> QED
    BY <2>2, <2>3
<1>10. ASSUME NEW t \in Threads, Record(t) PROVE ListsClaimed'
  <2>h. PICK h : h = Head(th[t].todo)
    OBVIOUS
  <2>1. Alone(t) /\ pc[t] = "record" /\ pc'[t] \in {"sort calls", "ingest"} /\ overlapped' = overlapped
    BY <1>10, RecordDoes DEF Record, history, Stands
  <2>2. h \in Requests /\ seen' = seen \cup {h} /\ calls' = Added(calls, [calls.items EXCEPT ![h] = calls.items[h] + 1])
    BY <1>10, <2>h, <2>1 DEF Record, TypeOK
  <2>3. calls.items \in [Requests -> Nat] /\ calls \in CallList
    BY ListTypes DEF Typed
  <2>4. t \in Claims(h) /\ \A r \in Requests : Claims(r)' = IF r = h THEN Claims(r) \ {t} ELSE Claims(r)
    <3>1. t \in Claims(h)
      BY <2>h, <2>1 DEF Claims
    <3>2. ASSUME NEW r \in Requests PROVE Claims(r)' = IF r = h THEN Claims(r) \ {t} ELSE Claims(r)
      BY <2>h, <2>1 DEF Claims, Alone, Others
    <3> QED
      BY <3>1, <3>2
  <2>5. calls'.items = [calls.items EXCEPT ![h] = calls.items[h] + 1]
    <3>1. [calls.items EXCEPT ![h] = calls.items[h] + 1] \in [Requests -> Nat]
      BY <2>2, <2>3
    <3>2. \A list \in CallList, x \in [Requests -> Nat] : Added(list, x).items = x
      BY Lists, Zenon
    <3> QED
      BY <2>2, <2>3, <3>1, <3>2
  <2>6. calls'.items[h] = calls.items[h] + 1 /\ \A r \in Requests \ {h} : calls'.items[r] = calls.items[r]
    BY <2>2, <2>3, <2>5
  <2>7. \A list \in CallLists' : list \in CallLists \/ list = calls'.items
    BY <2>1, ZenonT(40) DEF CallLists, Alone, Others
  <2>8. ASSUME NEW r \in {h}
        PROVE  Cardinality(Claims(r)') = Cardinality(Claims(r)) - 1 /\ Cardinality(Claims(r)) \in Nat
    <3>1. Claims(r)' = Claims(r) \ {t} /\ t \in Claims(r)
      BY <2>2, <2>4
    <3>2. IsFiniteSet(Claims(r)) /\ Cardinality(Claims(r)) \in Nat
      BY ClaimsAreFew
    <3>3. Cardinality(Claims(r) \ {t}) = Cardinality(Claims(r)) - 1
      BY <3>1, <3>2, FS_RemoveElement
    <3> QED
      BY <3>1, <3>2, <3>3
  <2>9. Most' = Most /\ Most \in Nat /\ calls.items \in CallLists
    BY <2>1, MostIsNat, ListTypes DEF Most
  <2> SUFFICES ASSUME NEW list \in CallLists', NEW r \in Requests
               PROVE  list[r] + Cardinality(Claims(r)') <= Most /\ (r \notin seen' => list[r] = 0)
    BY <2>9 DEF ListsClaimed
  <2>10. PICK old \in CallLists : list[r] = IF list = calls'.items /\ r = h THEN old[r] + 1 ELSE old[r]
    BY <2>6, <2>7, <2>9
  <2>11. old[r] \in Nat /\ old[r] + Cardinality(Claims(r)) <= Most /\ (r \notin seen => old[r] = 0)
    BY <2>10, ListTypes DEF ListsClaimed
  <2>12. CASE r = h
    <3>1. Cardinality(Claims(r)') = Cardinality(Claims(r)) - 1 /\ Cardinality(Claims(r)) \in Nat
      BY <2>8, <2>12
    <3>2. r \in seen' /\ list[r] \in {old[r], old[r] + 1}
      BY <2>2, <2>10, <2>12
    <3> QED
      BY <2>9, <2>11, <3>1, <3>2
  <2>13. CASE r # h
    BY <2>2, <2>4, <2>10, <2>11, <2>13
  <2> QED
    BY <2>12, <2>13
<1>11. ASSUME NEW t \in Threads, SortCalls(t) PROVE ListsClaimed'
  <2>1. Alone(t) /\ pc[t] = "sort calls" /\ pc'[t] # "record" /\ seen' = seen /\ overlapped' = overlapped
    BY <1>11, SortCallsDoes DEF SortCalls, Stands, history
  <2>2. \A r \in Requests : Claims(r)' \subseteq Claims(r)
    BY <2>1 DEF Claims, Alone, Others
  <2>3. Most' \in Nat /\ Most <= Most'
    <3>1. Most' = Most /\ Most \in Nat
      BY <2>1, MostIsNat DEF Most
    <3> QED
      BY <3>1
  <2>4. CASE calls.items = NoCalls.items
    <3>1. calls' = calls /\ pc'[t] = "sort limits"
      BY <1>11, <2>4, SortCallsDoes DEF SortCalls, Stands
    <3> QED
      BY <2>1, <3>1, ClaimsKept
  <2>5. CASE calls.items # NoCalls.items
    <3>1. pc'[t] = "calls sorted" /\ th'[t].kept = calls /\ calls' = [NoCalls EXCEPT !.allocated = FALSE]
      BY <1>11, <2>5, SortCallsDoes DEF SortCalls, Stands
    <3>2. calls'.items = NoCalls.items
      BY <3>1, Lists
    <3>3. \A u \in Threads : pc'[u] = "calls sorted" => th'[u].kept.items \in CallLists
      BY <2>1, <3>1, ListTypes DEF Alone, Others
    <3>4. \A list \in CallLists' : list \in CallLists \/ list = NoCalls.items
      BY <3>2, <3>3 DEF CallLists
    <3> QED
      BY <2>1, <2>2, <2>3, <3>4, ClaimsFewer
  <2> QED
    BY <2>4, <2>5
<1>12. ASSUME NEW t \in Threads, CallsSorted(t) PROVE ListsClaimed'
  <2>1. Alone(t) /\ pc[t] = "calls sorted" /\ pc'[t] \in {"idle", "sort limits"} /\ seen' = seen /\ overlapped' = overlapped
    BY <1>12, CallsSortedDoes DEF CallsSorted, Stands, Rests
  <2>2. \A r \in Requests : Claims(r)' \subseteq Claims(r)
    BY <2>1 DEF Claims, Alone, Others
  <2>3. Most' \in Nat /\ Most <= Most'
    <3>1. Most' = Most /\ Most \in Nat
      BY <2>1, MostIsNat DEF Most
    <3> QED
      BY <3>1
  <2>4. calls' = th[t].kept
    BY <1>12 DEF CallsSorted
  <2>5. \A u \in Threads : pc'[u] = "calls sorted" => th'[u].kept.items \in CallLists
    BY <2>1, ListTypes DEF Alone, Others
  <2>6. \A list \in CallLists' : list \in CallLists
    BY <2>1, <2>4, <2>5, ListTypes DEF CallLists
  <2> QED
    BY <2>1, <2>2, <2>3, <2>6, ClaimsFewer
<1>13. ASSUME NEW t \in Threads, SortLimits(t) PROVE ListsClaimed'
  <2>1. Alone(t) /\ pc[t] # "calls sorted" /\ pc'[t] \notin {"calls sorted", "record"}
    BY <1>13, SortLimitsDoes DEF Stands, Rests, Left
  <2>2. calls' = calls /\ seen' = seen /\ overlapped' = overlapped
    BY <1>13 DEF SortLimits, store, history
  <2> QED
    BY <2>1, <2>2, ClaimsKept
<1>14. ASSUME NEW t \in Threads, LimitsSorted(t) PROVE ListsClaimed'
  <2>1. Alone(t) /\ pc[t] # "calls sorted" /\ pc'[t] \notin {"calls sorted", "record"}
    BY <1>14, LimitsSortedDoes DEF Stands, Rests, Left
  <2>2. calls' = calls /\ seen' = seen /\ overlapped' = overlapped
    BY <1>14 DEF LimitsSorted, store, history
  <2> QED
    BY <2>1, <2>2, ClaimsKept
<1>15. ASSUME NEW t \in Threads, Dump(t) PROVE ListsClaimed'
  <2>1. Alone(t) /\ pc[t] # "calls sorted" /\ pc'[t] \notin {"calls sorted", "record"}
    BY <1>15, DumpDoes DEF Stands, Rests, Left
  <2>2. calls' = calls /\ seen' = seen /\ overlapped' = overlapped
    BY <1>15 DEF Dump, store, history
  <2> QED
    BY <2>1, <2>2, ClaimsKept
<1>16. ASSUME NEW t \in Threads, Open(t) PROVE ListsClaimed'
  <2>1. Alone(t) /\ pc[t] # "calls sorted" /\ pc'[t] \notin {"calls sorted", "record"}
    BY <1>16, OpenDoes DEF Stands, Rests, Left
  <2>2. calls' = calls /\ seen' = seen /\ overlapped' = overlapped
    BY <1>16 DEF Open, store, history
  <2> QED
    BY <2>1, <2>2, ClaimsKept
<1>17. ASSUME NEW t \in Threads, Write(t) PROVE ListsClaimed'
  <2>1. Alone(t) /\ pc[t] # "calls sorted" /\ pc'[t] \notin {"calls sorted", "record"}
    BY <1>17, WriteDoes DEF Stands, Rests, Left
  <2>2. calls' = calls /\ seen' = seen /\ overlapped' = overlapped
    BY <1>17 DEF Write, store, history
  <2> QED
    BY <2>1, <2>2, ClaimsKept
<1>18. ASSUME NEW s \in Sessions, Use(s) PROVE ListsClaimed'
  <2>1. UNCHANGED <<calls, pc, th, seen, overlapped>>
    BY <1>18 DEF Use, Metering, store, history
  <2> QED
    BY <2>1, ClaimsStay
<1>19. ASSUME NEW s \in Sessions, Export(s) PROVE ListsClaimed'
  <2>1. UNCHANGED <<calls, pc, th, seen, overlapped>>
    BY <1>19 DEF Export, Metering, store, history
  <2> QED
    BY <2>1, ClaimsStay
<1>20. ASSUME NEW p \in posts, Lose(p) PROVE ListsClaimed'
  <2>1. UNCHANGED <<calls, pc, th, seen, overlapped>>
    BY <1>20 DEF Lose, Metering, store, history
  <2> QED
    BY <2>1, ClaimsStay
<1>21. ASSUME NEW p \in posts, IngestPost(p) PROVE ListsClaimed'
  <2>1. UNCHANGED <<calls, pc, th, seen, overlapped>>
    BY <1>21 DEF IngestPost, Metering, store, history
  <2> QED
    BY <2>1, ClaimsStay
<1>22. ASSUME Crash PROVE ListsClaimed'
  <2>1. pc' = [t \in Threads |-> "idle"] /\ calls' = NoCalls
    BY <1>22 DEF Crash
  <2>2. calls'.items \in [Requests -> Nat] /\ \A r \in Requests : calls'.items[r] = 0
    BY <2>1, Lists
  <2>3. Most' \in Nat
    BY <1>22, MostIsNat DEF Crash, history, Most
  <2>4. \A u \in Threads : pc'[u] \notin {"calls sorted", "record"}
    BY <2>1
  <2>5. \A r \in Requests : calls'.items[r] <= Most'
    BY <2>2, <2>3
  <2> QED
    BY <2>2, <2>3, <2>4, <2>5, ClaimsAfresh
<1>23. ASSUME UNCHANGED vars PROVE ListsClaimed'
  <2>1. UNCHANGED <<calls, pc, th, seen, overlapped>>
    BY <1>23 DEF vars, store, history
  <2> QED
    BY <2>1, ClaimsStay
<1> QED
  BY <1>1, <1>2, <1>3, <1>4, <1>5, <1>6, <1>7, <1>8, <1>9, <1>10, <1>11, <1>12, <1>13, <1>14, <1>15, <1>16, <1>17, <1>18, <1>19, <1>20, <1>21, <1>22, <1>23, Zenon DEF Next, Thread

\* What is dumped.
Memory == [offset |-> offset, calls |-> calls.items, limits |-> limits.items]

LEMMA IsDumped ==
  ASSUME NEW d
  PROVE  /\ d \in Dumps <=> ((\E t \in Threads : pc[t] \in {"open", "write"} /\ d = th[t].dump)
                           \/ (cache # Empty /\ cache # Torn /\ d = cache))
         /\ d \in Dumps' <=> ((\E t \in Threads : pc'[t] \in {"open", "write"} /\ d = th'[t].dump)
                            \/ (cache' # Empty /\ cache' # Torn /\ d = cache'))
<1>1. d \in Dumps <=> ((\E t \in Threads : pc[t] \in {"open", "write"} /\ d = th[t].dump)
                     \/ (cache # Empty /\ cache # Torn /\ d = cache))
  BY DEF Dumps, Loadable
<1>2. d \in Dumps' <=> ((\E t \in Threads : pc'[t] \in {"open", "write"} /\ d = th'[t].dump)
                      \/ (cache' # Empty /\ cache' # Torn /\ d = cache'))
  BY DEF Dumps, Loadable
<1> QED
  BY <1>1, <1>2

\* What is saved is what was, or what is in memory.
LEMMA DumpsStep ==
  ASSUME TypeOK, Typed, [Next]_vars
  PROVE  \A d \in Dumps' : d \in Dumps \/ (d = Memory /\ \E u \in Threads : Dump(u) /\ pc'[u] = "open")
<1>1. ASSUME NEW line \in Requests \cup {Limit}, WriteLine(line) PROVE \A d \in Dumps' : d \in Dumps \/ (d = Memory /\ \E u \in Threads : Dump(u) /\ pc'[u] = "open")
  <2>1. UNCHANGED <<pc, th, cache>>
    BY <1>1 DEF WriteLine, Recording
  <2> QED
    BY <2>1, IsDumped
<1>2. ASSUME WriteRest PROVE \A d \in Dumps' : d \in Dumps \/ (d = Memory /\ \E u \in Threads : Dump(u) /\ pc'[u] = "open")
  <2>1. UNCHANGED <<pc, th, cache>>
    BY <1>2 DEF WriteRest, Recording
  <2> QED
    BY <2>1, IsDumped
<1>3. ASSUME Rotate PROVE \A d \in Dumps' : d \in Dumps \/ (d = Memory /\ \E u \in Threads : Dump(u) /\ pc'[u] = "open")
  <2>1. UNCHANGED <<pc, th, cache>>
    BY <1>3 DEF Rotate, Recording
  <2> QED
    BY <2>1, IsDumped
<1>4. ASSUME NEW t \in Threads, Boot(t) PROVE \A d \in Dumps' : d \in Dumps \/ (d = Memory /\ \E u \in Threads : Dump(u) /\ pc'[u] = "open")
  <2>1. Alone(t) /\ pc'[t] \notin {"open", "write"}
    BY <1>4, BootDoes DEF Stands, Rests, Left
  <2>2. cache' = cache
    BY <1>4 DEF Boot
  <2> QED
    BY <2>1, <2>2, IsDumped DEF Alone, Others
<1>5. ASSUME NEW t \in Threads, Get(t) PROVE \A d \in Dumps' : d \in Dumps \/ (d = Memory /\ \E u \in Threads : Dump(u) /\ pc'[u] = "open")
  <2>1. Alone(t) /\ pc'[t] \notin {"open", "write"}
    BY <1>5, GetDoes DEF Stands, Rests, Left
  <2>2. cache' = cache
    BY <1>5 DEF Get
  <2> QED
    BY <2>1, <2>2, IsDumped DEF Alone, Others
<1>6. ASSUME NEW t \in Threads, Look(t) PROVE \A d \in Dumps' : d \in Dumps \/ (d = Memory /\ \E u \in Threads : Dump(u) /\ pc'[u] = "open")
  <2>1. Alone(t) /\ pc'[t] \notin {"open", "write"}
    BY <1>6, LookDoes DEF Stands, Rests, Left
  <2>2. cache' = cache
    BY <1>6 DEF Look
  <2> QED
    BY <2>1, <2>2, IsDumped DEF Alone, Others
<1>7. ASSUME NEW t \in Threads, Read(t) PROVE \A d \in Dumps' : d \in Dumps \/ (d = Memory /\ \E u \in Threads : Dump(u) /\ pc'[u] = "open")
  <2>1. Alone(t) /\ pc'[t] \notin {"open", "write"}
    BY <1>7, ReadDoes DEF Stands, Rests, Left
  <2>2. cache' = cache
    BY <1>7 DEF Read
  <2> QED
    BY <2>1, <2>2, IsDumped DEF Alone, Others
<1>8. ASSUME NEW t \in Threads, SetOffset(t) PROVE \A d \in Dumps' : d \in Dumps \/ (d = Memory /\ \E u \in Threads : Dump(u) /\ pc'[u] = "open")
  <2>1. Alone(t) /\ pc'[t] \notin {"open", "write"}
    BY <1>8, SetOffsetDoes DEF Stands, Rests, Left
  <2>2. cache' = cache
    BY <1>8 DEF SetOffset
  <2> QED
    BY <2>1, <2>2, IsDumped DEF Alone, Others
<1>9. ASSUME NEW t \in Threads, Ingest(t) PROVE \A d \in Dumps' : d \in Dumps \/ (d = Memory /\ \E u \in Threads : Dump(u) /\ pc'[u] = "open")
  <2>1. Alone(t) /\ pc'[t] \notin {"open", "write"}
    BY <1>9, IngestDoes DEF Stands, Rests, Left
  <2>2. cache' = cache
    BY <1>9 DEF Ingest
  <2> QED
    BY <2>1, <2>2, IsDumped DEF Alone, Others
<1>10. ASSUME NEW t \in Threads, Record(t) PROVE \A d \in Dumps' : d \in Dumps \/ (d = Memory /\ \E u \in Threads : Dump(u) /\ pc'[u] = "open")
  <2>1. Alone(t) /\ pc'[t] \notin {"open", "write"}
    BY <1>10, RecordDoes DEF Stands, Rests, Left
  <2>2. cache' = cache
    BY <1>10 DEF Record
  <2> QED
    BY <2>1, <2>2, IsDumped DEF Alone, Others
<1>11. ASSUME NEW t \in Threads, SortCalls(t) PROVE \A d \in Dumps' : d \in Dumps \/ (d = Memory /\ \E u \in Threads : Dump(u) /\ pc'[u] = "open")
  <2>1. Alone(t) /\ pc'[t] \notin {"open", "write"}
    BY <1>11, SortCallsDoes DEF Stands, Rests, Left
  <2>2. cache' = cache
    BY <1>11 DEF SortCalls
  <2> QED
    BY <2>1, <2>2, IsDumped DEF Alone, Others
<1>12. ASSUME NEW t \in Threads, CallsSorted(t) PROVE \A d \in Dumps' : d \in Dumps \/ (d = Memory /\ \E u \in Threads : Dump(u) /\ pc'[u] = "open")
  <2>1. Alone(t) /\ pc'[t] \notin {"open", "write"}
    BY <1>12, CallsSortedDoes DEF Stands, Rests, Left
  <2>2. cache' = cache
    BY <1>12 DEF CallsSorted
  <2> QED
    BY <2>1, <2>2, IsDumped DEF Alone, Others
<1>13. ASSUME NEW t \in Threads, SortLimits(t) PROVE \A d \in Dumps' : d \in Dumps \/ (d = Memory /\ \E u \in Threads : Dump(u) /\ pc'[u] = "open")
  <2>1. Alone(t) /\ pc'[t] \notin {"open", "write"}
    BY <1>13, SortLimitsDoes DEF Stands, Rests, Left
  <2>2. cache' = cache
    BY <1>13 DEF SortLimits
  <2> QED
    BY <2>1, <2>2, IsDumped DEF Alone, Others
<1>14. ASSUME NEW t \in Threads, LimitsSorted(t) PROVE \A d \in Dumps' : d \in Dumps \/ (d = Memory /\ \E u \in Threads : Dump(u) /\ pc'[u] = "open")
  <2>1. Alone(t) /\ pc'[t] \notin {"open", "write"}
    BY <1>14, LimitsSortedDoes DEF Stands, Rests, Left
  <2>2. cache' = cache
    BY <1>14 DEF LimitsSorted
  <2> QED
    BY <2>1, <2>2, IsDumped DEF Alone, Others
<1>15. ASSUME NEW t \in Threads, Dump(t) PROVE \A d \in Dumps' : d \in Dumps \/ (d = Memory /\ \E u \in Threads : Dump(u) /\ pc'[u] = "open")
  <2>1. Alone(t) /\ cache' = cache /\ pc[t] = "save"
    BY <1>15, DumpDoes DEF Dump
  <2>2. CASE th[t].new \/ up = "starting"
    <3>1. pc'[t] = "open" /\ th'[t].dump = Memory
      BY <1>15, <2>2, DumpDoes DEF Stands, Memory
    <3>2. \A d \in Dumps' : d \in Dumps \/ d = Memory
      BY <2>1, <3>1, IsDumped DEF Alone, Others
    <3> QED
      BY <1>15, <3>1, <3>2
  <2>3. CASE ~(th[t].new \/ up = "starting")
    <3>1. pc'[t] = "idle"
      BY <1>15, <2>3, DumpDoes DEF Stands, Rests
    <3> QED
      BY <2>1, <3>1, IsDumped DEF Alone, Others
  <2> QED
    BY <2>2, <2>3
<1>16. ASSUME NEW t \in Threads, Open(t) PROVE \A d \in Dumps' : d \in Dumps \/ (d = Memory /\ \E u \in Threads : Dump(u) /\ pc'[u] = "open")
  <2>1. Alone(t) /\ cache' = Empty /\ pc[t] = "open" /\ pc'[t] = "write" /\ th'[t].dump = th[t].dump
    BY <1>16, OpenDoes DEF Open, Stands
  <2> QED
    BY <2>1, IsDumped DEF Alone, Others
<1>17. ASSUME NEW t \in Threads, Write(t) PROVE \A d \in Dumps' : d \in Dumps \/ (d = Memory /\ \E u \in Threads : Dump(u) /\ pc'[u] = "open")
  <2>1. Alone(t) /\ cache' \in {th[t].dump, Torn} /\ pc[t] = "write" /\ pc'[t] = "idle"
    BY <1>17, WriteDoes DEF Write, Stands, Rests
  <2> QED
    BY <2>1, IsDumped DEF Alone, Others
<1>18. ASSUME NEW s \in Sessions, Use(s) PROVE \A d \in Dumps' : d \in Dumps \/ (d = Memory /\ \E u \in Threads : Dump(u) /\ pc'[u] = "open")
  <2>1. UNCHANGED <<pc, th, cache>>
    BY <1>18 DEF Use, Metering
  <2> QED
    BY <2>1, IsDumped
<1>19. ASSUME NEW s \in Sessions, Export(s) PROVE \A d \in Dumps' : d \in Dumps \/ (d = Memory /\ \E u \in Threads : Dump(u) /\ pc'[u] = "open")
  <2>1. UNCHANGED <<pc, th, cache>>
    BY <1>19 DEF Export, Metering
  <2> QED
    BY <2>1, IsDumped
<1>20. ASSUME NEW p \in posts, Lose(p) PROVE \A d \in Dumps' : d \in Dumps \/ (d = Memory /\ \E u \in Threads : Dump(u) /\ pc'[u] = "open")
  <2>1. UNCHANGED <<pc, th, cache>>
    BY <1>20 DEF Lose, Metering
  <2> QED
    BY <2>1, IsDumped
<1>21. ASSUME NEW p \in posts, IngestPost(p) PROVE \A d \in Dumps' : d \in Dumps \/ (d = Memory /\ \E u \in Threads : Dump(u) /\ pc'[u] = "open")
  <2>1. UNCHANGED <<pc, th, cache>>
    BY <1>21 DEF IngestPost, Metering
  <2> QED
    BY <2>1, IsDumped
<1>22. ASSUME Crash PROVE \A d \in Dumps' : d \in Dumps \/ (d = Memory /\ \E u \in Threads : Dump(u) /\ pc'[u] = "open")
  <2>1. pc' = [t \in Threads |-> "idle"] /\ cache' = cache
    BY <1>22 DEF Crash
  <2> QED
    BY <2>1, IsDumped
<1>23. ASSUME UNCHANGED vars PROVE \A d \in Dumps' : d \in Dumps \/ (d = Memory /\ \E u \in Threads : Dump(u) /\ pc'[u] = "open")
  <2>1. UNCHANGED <<pc, th, cache>>
    BY <1>23 DEF vars
  <2> QED
    BY <2>1, IsDumped
<1> QED
  BY <1>1, <1>2, <1>3, <1>4, <1>5, <1>6, <1>7, <1>8, <1>9, <1>10, <1>11, <1>12, <1>13, <1>14, <1>15, <1>16, <1>17, <1>18, <1>19, <1>20, <1>21, <1>22, <1>23, Zenon DEF Next, Thread


LEMMA DumpTypes ==
  ASSUME TypeOK, Typed
  PROVE  Dumps \subseteq Saved /\ Memory \in Saved
<1>1. Dumps \subseteq Saved
  BY HasLocal DEF Dumps, Typed
<1>2. Memory \in Saved
  BY PositionsAre DEF Memory, Saved, Typed, CallList, LimitList
<1> QED
  BY <1>1, <1>2

\* Threads that have overlapped have done so for good.
LEMMA OverlapGrows ==
  ASSUME TypeOK, [Next]_vars
  PROVE  Most' = Most \/ (overlapped' /\ Threads # {})
<1>1. ASSUME NEW line \in Requests \cup {Limit}, WriteLine(line) PROVE Most' = Most \/ (overlapped' /\ Threads # {})
  BY <1>1 DEF WriteLine, Recording, history, Most
<1>2. ASSUME WriteRest PROVE Most' = Most \/ (overlapped' /\ Threads # {})
  BY <1>2 DEF WriteRest, Recording, history, Most
<1>3. ASSUME Rotate PROVE Most' = Most \/ (overlapped' /\ Threads # {})
  BY <1>3 DEF Rotate, Recording, history, Most
<1>4. ASSUME NEW t \in Threads, Boot(t) PROVE Most' = Most \/ (overlapped' /\ Threads # {})
  BY <1>4 DEF Boot, Storing, history, Most
<1>5. ASSUME NEW t \in Threads, Get(t) PROVE Most' = Most \/ (overlapped' /\ Threads # {})
  <2>1. overlapped' = (overlapped \/ \E u \in Threads \ {t} : pc[u] # "idle")
    BY <1>5 DEF Get
  <2>2. CASE overlapped
    BY <2>1, <2>2 DEF Most
  <2>3. CASE ~overlapped /\ \E u \in Threads \ {t} : pc[u] # "idle"
    BY <2>1, <2>3
  <2>4. CASE ~overlapped /\ ~ \E u \in Threads \ {t} : pc[u] # "idle"
    <3>1. Most' = Most
      BY <2>1, <2>4 DEF Most
    <3> QED
      BY <3>1
  <2> QED
    BY <2>2, <2>3, <2>4
<1>6. ASSUME NEW t \in Threads, Look(t) PROVE Most' = Most \/ (overlapped' /\ Threads # {})
  BY <1>6 DEF Look, Storing, history, Most
<1>7. ASSUME NEW t \in Threads, Read(t) PROVE Most' = Most \/ (overlapped' /\ Threads # {})
  BY <1>7 DEF Read, Storing, history, Most
<1>8. ASSUME NEW t \in Threads, SetOffset(t) PROVE Most' = Most \/ (overlapped' /\ Threads # {})
  BY <1>8 DEF SetOffset, Storing, history, Most
<1>9. ASSUME NEW t \in Threads, Ingest(t) PROVE Most' = Most \/ (overlapped' /\ Threads # {})
  BY <1>9 DEF Ingest, Storing, history, Most
<1>10. ASSUME NEW t \in Threads, Record(t) PROVE Most' = Most \/ (overlapped' /\ Threads # {})
  BY <1>10 DEF Record, Storing, history, Most
<1>11. ASSUME NEW t \in Threads, SortCalls(t) PROVE Most' = Most \/ (overlapped' /\ Threads # {})
  BY <1>11 DEF SortCalls, Storing, history, Most
<1>12. ASSUME NEW t \in Threads, CallsSorted(t) PROVE Most' = Most \/ (overlapped' /\ Threads # {})
  BY <1>12 DEF CallsSorted, Storing, history, Most
<1>13. ASSUME NEW t \in Threads, SortLimits(t) PROVE Most' = Most \/ (overlapped' /\ Threads # {})
  BY <1>13 DEF SortLimits, Storing, history, Most
<1>14. ASSUME NEW t \in Threads, LimitsSorted(t) PROVE Most' = Most \/ (overlapped' /\ Threads # {})
  BY <1>14 DEF LimitsSorted, Storing, history, Most
<1>15. ASSUME NEW t \in Threads, Dump(t) PROVE Most' = Most \/ (overlapped' /\ Threads # {})
  BY <1>15 DEF Dump, Storing, history, Most
<1>16. ASSUME NEW t \in Threads, Open(t) PROVE Most' = Most \/ (overlapped' /\ Threads # {})
  BY <1>16 DEF Open, Storing, history, Most
<1>17. ASSUME NEW t \in Threads, Write(t) PROVE Most' = Most \/ (overlapped' /\ Threads # {})
  BY <1>17 DEF Write, Storing, history, Most
<1>18. ASSUME NEW s \in Sessions, Use(s) PROVE Most' = Most \/ (overlapped' /\ Threads # {})
  BY <1>18 DEF Use, Metering, history, Most
<1>19. ASSUME NEW s \in Sessions, Export(s) PROVE Most' = Most \/ (overlapped' /\ Threads # {})
  BY <1>19 DEF Export, Metering, history, Most
<1>20. ASSUME NEW p \in posts, Lose(p) PROVE Most' = Most \/ (overlapped' /\ Threads # {})
  BY <1>20 DEF Lose, Metering, history, Most
<1>21. ASSUME NEW p \in posts, IngestPost(p) PROVE Most' = Most \/ (overlapped' /\ Threads # {})
  BY <1>21 DEF IngestPost, Metering, history, Most
<1>22. ASSUME Crash PROVE Most' = Most \/ (overlapped' /\ Threads # {})
  BY <1>22 DEF Crash, history, Most
<1>23. ASSUME UNCHANGED vars PROVE Most' = Most \/ (overlapped' /\ Threads # {})
  BY <1>23 DEF vars, history, Most
<1> QED
  BY <1>1, <1>2, <1>3, <1>4, <1>5, <1>6, <1>7, <1>8, <1>9, <1>10, <1>11, <1>12, <1>13, <1>14, <1>15, <1>16, <1>17, <1>18, <1>19, <1>20, <1>21, <1>22, <1>23, Zenon DEF Next, Thread

LEMMA MostGrows ==
  ASSUME TypeOK, [Next]_vars
  PROVE  Most' \in Nat /\ Most <= Most'
<1>1. Most \in Nat
  BY MostIsNat
<1>2. CASE Most' = Most
  BY <1>1, <1>2
<1>3. CASE overlapped' /\ Threads # {}
  <2>1. Most' = Cardinality(Threads)
    BY <1>3 DEF Most
  <2>2. Cardinality(Threads) \in Nat /\ Most <= Cardinality(Threads)
    BY <1>3, MostIsNat DEF Most
  <2> QED
    BY <2>1, <2>2
<1> QED
  BY <1>2, <1>3, OverlapGrows

\* Every step keeps how often a request may be counted.
LEMMA ClaimedStep ==
  ASSUME TypeOK, Typed, InTurn, Claimed, [Next]_vars
  PROVE  Claimed'
<1>1. ListsClaimed
  BY DEF Claimed
<1>2. ListsClaimed'
  BY <1>1, ListsClaimedStep
<1>3. ASSUME NEW d \in Dumps', NEW r \in Requests PROVE d.calls[r] <= Most'
  <2>1. Most \in Nat /\ Most' \in Nat /\ Most <= Most'
    BY MostIsNat, MostGrows
  <2>2. CASE d \in Dumps
    <3>1. d.calls[r] <= Most /\ d.calls[r] \in Nat
      BY <2>2, DumpTypes DEF Claimed, Saved
    <3> QED
      BY <2>1, <3>1
  <2>3. CASE d = Memory
    <3>1. d.calls = calls.items
      BY <2>3 DEF Memory
    <3>2. calls.items[r] \in Nat /\ calls.items[r] + Cardinality(Claims(r)) <= Most /\ Cardinality(Claims(r)) \in Nat
      BY <1>1, ListTypes, ClaimsAreFew DEF ListsClaimed
    <3> QED
      BY <2>1, <3>1, <3>2
  <2> QED
    BY <1>3, <2>2, <2>3, DumpsStep
<1> QED
  BY <1>2, <1>3 DEF Claimed

\* What is within the claims is within Most.
LEMMA ClaimedIsCountedOnce ==
  ASSUME TypeOK, Typed, Claimed, NEW list \in CallLists, NEW r \in Requests
  PROVE  list[r] <= IF overlapped THEN Cardinality(Threads) ELSE 1
<1>1. list[r] \in Nat /\ list[r] + Cardinality(Claims(r)) <= Most /\ Cardinality(Claims(r)) \in Nat
  BY ListTypes, ClaimsAreFew DEF Claimed, ListsClaimed
<1>2. list[r] <= Most
  BY <1>1, MostIsNat
<1> QED
  BY <1>2 DEF Most

-----------------------------------------------------------------------------
(* Positions in the file.                                                  *)

LEMMA FileStays ==
  ASSUME TypeOK, Typed, rotations' = 0, UNCHANGED disk, halved \subseteq halved'
  PROVE  /\ rotations = 0 /\ Len(file) <= Len(file') /\ \A i \in 1..Len(file) : file'[i] = file[i]
         /\ Size <= Size' /\ halved \subseteq halved'
<1>1. Size' = Size
  BY DEF disk, Size
<1>2. Size \in Nat /\ Len(file) \in Nat
  BY SizeIsNat DEF TypeOK, Typed
<1> QED
  BY <1>1, <1>2 DEF disk

\* A file that is not rotated grows.
LEMMA FileGrows ==
  ASSUME TypeOK, Typed, rotations' = 0, [Next]_vars
  PROVE  /\ rotations = 0 /\ Len(file) <= Len(file') /\ \A i \in 1..Len(file) : file'[i] = file[i]
         /\ Size <= Size' /\ halved \subseteq halved'
<1>1. ASSUME NEW line \in Requests \cup {Limit}, WriteLine(line) PROVE /\ rotations = 0 /\ Len(file) <= Len(file') /\ \A i \in 1..Len(file) : file'[i] = file[i]
         /\ Size <= Size' /\ halved \subseteq halved'
  <2>1. /\ ~partial /\ file' = Append(file, line) /\ partial' \in BOOLEAN /\ rotations' = rotations
        /\ halved' = halved /\ line \in Lines
    BY <1>1 DEF WriteLine, Recording, history, Lines
  <2>2. file \in Seq(Lines) /\ Len(file) \in Nat
    BY DEF Typed
  <2>3. Len(file') = Len(file) + 1 /\ \A i \in 1..Len(file) : file'[i] = file[i]
    BY <2>1, <2>2, AppendProperties
  <2>4. Size = 2 * Len(file)
    BY <2>1 DEF Size
  <2>5. Size' \in {2 * Len(file'), 2 * Len(file') - 1}
    BY <2>1 DEF Size
  <2> QED
    BY <2>1, <2>2, <2>3, <2>4, <2>5
<1>2. ASSUME WriteRest PROVE /\ rotations = 0 /\ Len(file) <= Len(file') /\ \A i \in 1..Len(file) : file'[i] = file[i]
         /\ Size <= Size' /\ halved \subseteq halved'
  <2>1. file' = file /\ partial /\ ~partial' /\ rotations' = rotations /\ halved' = halved
    BY <1>2 DEF WriteRest, Recording, history
  <2>2. Len(file) \in Nat
    BY DEF Typed
  <2>3. Size = 2 * Len(file) - 1 /\ Size' = 2 * Len(file)
    BY <2>1 DEF Size
  <2> QED
    BY <2>1, <2>2, <2>3
<1>3. ASSUME Rotate PROVE /\ rotations = 0 /\ Len(file) <= Len(file') /\ \A i \in 1..Len(file) : file'[i] = file[i]
         /\ Size <= Size' /\ halved \subseteq halved'
  <2>1. rotations' = rotations + 1 /\ rotations \in Nat
    BY <1>3 DEF Rotate, TypeOK
  <2> QED
    BY <2>1
<1>4. ASSUME NEW t \in Threads, Boot(t) PROVE /\ rotations = 0 /\ Len(file) <= Len(file') /\ \A i \in 1..Len(file) : file'[i] = file[i]
         /\ Size <= Size' /\ halved \subseteq halved'
  <2>1. UNCHANGED disk /\ halved \subseteq halved'
    BY <1>4 DEF Boot, Storing, history
  <2> QED
    BY <2>1, FileStays
<1>5. ASSUME NEW t \in Threads, Get(t) PROVE /\ rotations = 0 /\ Len(file) <= Len(file') /\ \A i \in 1..Len(file) : file'[i] = file[i]
         /\ Size <= Size' /\ halved \subseteq halved'
  <2>1. UNCHANGED disk /\ halved \subseteq halved'
    BY <1>5 DEF Get, history
  <2> QED
    BY <2>1, FileStays
<1>6. ASSUME NEW t \in Threads, Look(t) PROVE /\ rotations = 0 /\ Len(file) <= Len(file') /\ \A i \in 1..Len(file) : file'[i] = file[i]
         /\ Size <= Size' /\ halved \subseteq halved'
  <2>1. UNCHANGED disk /\ halved \subseteq halved'
    BY <1>6 DEF Look, Storing, history
  <2> QED
    BY <2>1, FileStays
<1>7. ASSUME NEW t \in Threads, Read(t) PROVE /\ rotations = 0 /\ Len(file) <= Len(file') /\ \A i \in 1..Len(file) : file'[i] = file[i]
         /\ Size <= Size' /\ halved \subseteq halved'
  <2>1. UNCHANGED disk /\ halved \subseteq halved'
    BY <1>7 DEF Read, Storing
  <2> QED
    BY <2>1, FileStays
<1>8. ASSUME NEW t \in Threads, SetOffset(t) PROVE /\ rotations = 0 /\ Len(file) <= Len(file') /\ \A i \in 1..Len(file) : file'[i] = file[i]
         /\ Size <= Size' /\ halved \subseteq halved'
  <2>1. UNCHANGED disk /\ halved \subseteq halved'
    BY <1>8 DEF SetOffset, Storing, history
  <2> QED
    BY <2>1, FileStays
<1>9. ASSUME NEW t \in Threads, Ingest(t) PROVE /\ rotations = 0 /\ Len(file) <= Len(file') /\ \A i \in 1..Len(file) : file'[i] = file[i]
         /\ Size <= Size' /\ halved \subseteq halved'
  <2>1. UNCHANGED disk /\ halved \subseteq halved'
    BY <1>9 DEF Ingest, Storing, history
  <2> QED
    BY <2>1, FileStays
<1>10. ASSUME NEW t \in Threads, Record(t) PROVE /\ rotations = 0 /\ Len(file) <= Len(file') /\ \A i \in 1..Len(file) : file'[i] = file[i]
         /\ Size <= Size' /\ halved \subseteq halved'
  <2>1. UNCHANGED disk /\ halved \subseteq halved'
    BY <1>10 DEF Record, Storing, history
  <2> QED
    BY <2>1, FileStays
<1>11. ASSUME NEW t \in Threads, SortCalls(t) PROVE /\ rotations = 0 /\ Len(file) <= Len(file') /\ \A i \in 1..Len(file) : file'[i] = file[i]
         /\ Size <= Size' /\ halved \subseteq halved'
  <2>1. UNCHANGED disk /\ halved \subseteq halved'
    BY <1>11 DEF SortCalls, Storing, history
  <2> QED
    BY <2>1, FileStays
<1>12. ASSUME NEW t \in Threads, CallsSorted(t) PROVE /\ rotations = 0 /\ Len(file) <= Len(file') /\ \A i \in 1..Len(file) : file'[i] = file[i]
         /\ Size <= Size' /\ halved \subseteq halved'
  <2>1. UNCHANGED disk /\ halved \subseteq halved'
    BY <1>12 DEF CallsSorted, Storing, history
  <2> QED
    BY <2>1, FileStays
<1>13. ASSUME NEW t \in Threads, SortLimits(t) PROVE /\ rotations = 0 /\ Len(file) <= Len(file') /\ \A i \in 1..Len(file) : file'[i] = file[i]
         /\ Size <= Size' /\ halved \subseteq halved'
  <2>1. UNCHANGED disk /\ halved \subseteq halved'
    BY <1>13 DEF SortLimits, Storing, history
  <2> QED
    BY <2>1, FileStays
<1>14. ASSUME NEW t \in Threads, LimitsSorted(t) PROVE /\ rotations = 0 /\ Len(file) <= Len(file') /\ \A i \in 1..Len(file) : file'[i] = file[i]
         /\ Size <= Size' /\ halved \subseteq halved'
  <2>1. UNCHANGED disk /\ halved \subseteq halved'
    BY <1>14 DEF LimitsSorted, Storing, history
  <2> QED
    BY <2>1, FileStays
<1>15. ASSUME NEW t \in Threads, Dump(t) PROVE /\ rotations = 0 /\ Len(file) <= Len(file') /\ \A i \in 1..Len(file) : file'[i] = file[i]
         /\ Size <= Size' /\ halved \subseteq halved'
  <2>1. UNCHANGED disk /\ halved \subseteq halved'
    BY <1>15 DEF Dump, Storing, history
  <2> QED
    BY <2>1, FileStays
<1>16. ASSUME NEW t \in Threads, Open(t) PROVE /\ rotations = 0 /\ Len(file) <= Len(file') /\ \A i \in 1..Len(file) : file'[i] = file[i]
         /\ Size <= Size' /\ halved \subseteq halved'
  <2>1. UNCHANGED disk /\ halved \subseteq halved'
    BY <1>16 DEF Open, Storing, history
  <2> QED
    BY <2>1, FileStays
<1>17. ASSUME NEW t \in Threads, Write(t) PROVE /\ rotations = 0 /\ Len(file) <= Len(file') /\ \A i \in 1..Len(file) : file'[i] = file[i]
         /\ Size <= Size' /\ halved \subseteq halved'
  <2>1. UNCHANGED disk /\ halved \subseteq halved'
    BY <1>17 DEF Write, Storing, history
  <2> QED
    BY <2>1, FileStays
<1>18. ASSUME NEW s \in Sessions, Use(s) PROVE /\ rotations = 0 /\ Len(file) <= Len(file') /\ \A i \in 1..Len(file) : file'[i] = file[i]
         /\ Size <= Size' /\ halved \subseteq halved'
  <2>1. UNCHANGED disk /\ halved \subseteq halved'
    BY <1>18 DEF Use, Metering, history
  <2> QED
    BY <2>1, FileStays
<1>19. ASSUME NEW s \in Sessions, Export(s) PROVE /\ rotations = 0 /\ Len(file) <= Len(file') /\ \A i \in 1..Len(file) : file'[i] = file[i]
         /\ Size <= Size' /\ halved \subseteq halved'
  <2>1. UNCHANGED disk /\ halved \subseteq halved'
    BY <1>19 DEF Export, Metering, history
  <2> QED
    BY <2>1, FileStays
<1>20. ASSUME NEW p \in posts, Lose(p) PROVE /\ rotations = 0 /\ Len(file) <= Len(file') /\ \A i \in 1..Len(file) : file'[i] = file[i]
         /\ Size <= Size' /\ halved \subseteq halved'
  <2>1. UNCHANGED disk /\ halved \subseteq halved'
    BY <1>20 DEF Lose, Metering, history
  <2> QED
    BY <2>1, FileStays
<1>21. ASSUME NEW p \in posts, IngestPost(p) PROVE /\ rotations = 0 /\ Len(file) <= Len(file') /\ \A i \in 1..Len(file) : file'[i] = file[i]
         /\ Size <= Size' /\ halved \subseteq halved'
  <2>1. UNCHANGED disk /\ halved \subseteq halved'
    BY <1>21 DEF IngestPost, Metering, history
  <2> QED
    BY <2>1, FileStays
<1>22. ASSUME Crash PROVE /\ rotations = 0 /\ Len(file) <= Len(file') /\ \A i \in 1..Len(file) : file'[i] = file[i]
         /\ Size <= Size' /\ halved \subseteq halved'
  <2>1. UNCHANGED disk /\ halved \subseteq halved'
    BY <1>22 DEF Crash, history
  <2> QED
    BY <2>1, FileStays
<1>23. ASSUME UNCHANGED vars PROVE /\ rotations = 0 /\ Len(file) <= Len(file') /\ \A i \in 1..Len(file) : file'[i] = file[i]
         /\ Size <= Size' /\ halved \subseteq halved'
  <2>1. UNCHANGED disk /\ halved \subseteq halved'
    BY <1>23 DEF vars, history
  <2> QED
    BY <2>1, FileStays
<1> QED
  BY <1>1, <1>2, <1>3, <1>4, <1>5, <1>6, <1>7, <1>8, <1>9, <1>10, <1>11, <1>12, <1>13, <1>14, <1>15, <1>16, <1>17, <1>18, <1>19, <1>20, <1>21, <1>22, <1>23, Zenon DEF Next, Thread

\* What Place and Ends come to after a step.
NextPlace(p) == p <= Size' /\ (p % 2 = 1 => (p + 1) \div 2 \in halved')

NextEnds(todo, p) ==
  Len(todo) <= p \div 2 /\ \A j \in 1..Len(todo) : todo[j] = file'[p \div 2 - Len(todo) + j]

NextThread(u) ==
  NextPlace(th'[u].start) /\ NextPlace(th'[u].end) /\ (pc'[u] = "offset" => NextEnds(th'[u].todo, th'[u].end))

LEMMA Sizes ==
  ASSUME TypeOK, Typed, [Next]_vars
  PROVE  /\ Size \in Nat /\ Size <= 2 * Len(file) /\ Len(file) \in Nat
         /\ Size' \in Nat /\ Size' <= 2 * Len(file') /\ Len(file') \in Nat
<1>1. Size \in Nat /\ Size <= 2 * Len(file) /\ Len(file) \in Nat
  BY SizeIsNat DEF TypeOK, Typed
<1>2. file' \in Seq(Lines) /\ partial' \in BOOLEAN /\ (partial' => file' # << >>)
  BY DiskStep
<1>3. Len(file') \in Nat /\ (file' # << >> => Len(file') > 0)
  BY <1>2
<1>4. Size' = 2 * Len(file') - (IF partial' THEN 1 ELSE 0)
  BY DEF Size
<1>5. Size' \in Nat /\ Size' <= 2 * Len(file')
  BY <1>2, <1>3, <1>4
<1> QED
  BY <1>1, <1>3, <1>5

LEMMA PlaceStays ==
  ASSUME TypeOK, Typed, [Next]_vars, rotations' = 0
  PROVE  /\ \A p \in Nat : Place(p) => NextPlace(p)
         /\ NextPlace(0)
         /\ \A todo \in Seq(Lines), p \in Nat :
              /\ p <= Size /\ Len(todo) <= p \div 2
              /\ \A j \in 1..Len(todo) : todo[j] = file[p \div 2 - Len(todo) + j]
              => NextEnds(todo, p)
<1>1. Size <= Size' /\ halved \subseteq halved' /\ \A i \in 1..Len(file) : file'[i] = file[i]
  BY FileGrows
<1>2. Size \in Nat /\ Size' \in Nat /\ Size <= 2 * Len(file) /\ Len(file) \in Nat
  BY Sizes
<1>3. \A p \in Nat : Place(p) => NextPlace(p)
  BY <1>1, <1>2 DEF Place, NextPlace
<1>4. NextPlace(0)
  BY <1>2 DEF NextPlace
<1>5. ASSUME NEW todo \in Seq(Lines), NEW p \in Nat, p <= Size, Len(todo) <= p \div 2,
             \A j \in 1..Len(todo) : todo[j] = file[p \div 2 - Len(todo) + j]
      PROVE  NextEnds(todo, p)
  <2>1. \A j \in 1..Len(todo) : p \div 2 - Len(todo) + j \in 1..Len(file)
    <3>1. Len(todo) \in Nat /\ p \div 2 \in Nat /\ p \div 2 <= Len(file)
      BY <1>2, <1>5
    <3> QED
      BY <1>5, <3>1, <1>2
  <2> QED
    BY <1>1, <1>5, <2>1 DEF NextEnds
<1> QED
  BY <1>3, <1>4, <1>5

\* A step of t keeps the others where they are.
LEMMA ThreadsPlaced ==
  ASSUME TypeOK, Typed, Placed, [Next]_vars, rotations' = 0, NEW t \in Threads, Others(t), NextThread(t)
  PROVE  \A u \in Threads : NextThread(u)
<1> SUFFICES ASSUME NEW u \in Threads \ {t} PROVE NextThread(u)
  OBVIOUS
<1>1. rotations = 0
  BY FileGrows
<1>2. pc'[u] = pc[u] /\ th'[u] = th[u]
  BY DEF Others
<1>3. Place(th[u].start) /\ Place(th[u].end) /\ (pc[u] = "offset" => Ends(th[u], th[u].end))
  BY <1>1 DEF Placed
<1>4. th[u].start \in Nat /\ th[u].end \in Nat /\ th[u].todo \in Seq(Lines)
  BY HasLocal, PositionsAre
<1>5. NextPlace(th[u].start) /\ NextPlace(th[u].end)
  BY <1>3, <1>4, PlaceStays
<1>6. pc[u] = "offset" => NextEnds(th[u].todo, th[u].end)
  BY <1>3, <1>4, PlaceStays DEF Ends, Place
<1> QED
  BY <1>2, <1>5, <1>6 DEF NextThread

LEMMA AllStay ==
  ASSUME TypeOK, Typed, Placed, [Next]_vars, rotations' = 0, UNCHANGED <<pc, th>>
  PROVE  \A u \in Threads : NextThread(u)
<1> SUFFICES ASSUME NEW u \in Threads PROVE NextThread(u)
  OBVIOUS
<1>1. rotations = 0
  BY FileGrows
<1>3. Place(th[u].start) /\ Place(th[u].end) /\ (pc[u] = "offset" => Ends(th[u], th[u].end))
  BY <1>1 DEF Placed
<1>4. th[u].start \in Nat /\ th[u].end \in Nat /\ th[u].todo \in Seq(Lines)
  BY HasLocal, PositionsAre
<1>5. NextPlace(th[u].start) /\ NextPlace(th[u].end)
  BY <1>3, <1>4, PlaceStays
<1>6. pc[u] = "offset" => NextEnds(th[u].todo, th[u].end)
  BY <1>3, <1>4, PlaceStays DEF Ends, Place
<1> QED
  BY <1>5, <1>6 DEF NextThread

\* Every step keeps the positions of the threads.
LEMMA ThreadsPlacedStep ==
  ASSUME TypeOK, Typed, Placed, [Next]_vars, rotations' = 0
  PROVE  \A u \in Threads : NextThread(u)
<1>1. ASSUME NEW line \in Requests \cup {Limit}, WriteLine(line) PROVE \A u \in Threads : NextThread(u)
  <2>1. UNCHANGED <<pc, th>>
    BY <1>1 DEF WriteLine, Recording
  <2> QED
    BY <2>1, AllStay
<1>2. ASSUME WriteRest PROVE \A u \in Threads : NextThread(u)
  <2>1. UNCHANGED <<pc, th>>
    BY <1>2 DEF WriteRest, Recording
  <2> QED
    BY <2>1, AllStay
<1>3. ASSUME Rotate PROVE \A u \in Threads : NextThread(u)
  <2>1. UNCHANGED <<pc, th>>
    BY <1>3 DEF Rotate, Recording
  <2> QED
    BY <2>1, AllStay
<1>4. ASSUME NEW t \in Threads, Boot(t) PROVE \A u \in Threads : NextThread(u)
  <2>1. Alone(t) /\ pc'[t] # "offset" /\ th'[t].start \in {th[t].start, 0} /\ th'[t].end \in {th[t].end, 0}
    BY <1>4, BootDoes DEF Stands, Rests, Left
  <2>2. NextThread(t)
    <3>1. Place(th[t].start) /\ Place(th[t].end) /\ Place(offset)
      BY FileGrows DEF Placed
    <3>2. th[t].start \in Nat /\ th[t].end \in Nat /\ offset \in Nat
      BY HasLocal, PositionsAre
    <3>3. NextPlace(th[t].start) /\ NextPlace(th[t].end) /\ NextPlace(offset) /\ NextPlace(0)
      BY <3>1, <3>2, PlaceStays
    <3> QED
      BY <2>1, <3>3 DEF NextThread
  <2> QED
    BY <2>1, <2>2, ThreadsPlaced DEF Alone
<1>5. ASSUME NEW t \in Threads, Get(t) PROVE \A u \in Threads : NextThread(u)
  <2>1. Alone(t) /\ pc'[t] # "offset" /\ th'[t].start \in {th[t].start, 0} /\ th'[t].end \in {th[t].end, 0}
    BY <1>5, GetDoes DEF Stands, Rests, Left
  <2>2. NextThread(t)
    <3>1. Place(th[t].start) /\ Place(th[t].end) /\ Place(offset)
      BY FileGrows DEF Placed
    <3>2. th[t].start \in Nat /\ th[t].end \in Nat /\ offset \in Nat
      BY HasLocal, PositionsAre
    <3>3. NextPlace(th[t].start) /\ NextPlace(th[t].end) /\ NextPlace(offset) /\ NextPlace(0)
      BY <3>1, <3>2, PlaceStays
    <3> QED
      BY <2>1, <3>3 DEF NextThread
  <2> QED
    BY <2>1, <2>2, ThreadsPlaced DEF Alone
<1>6. ASSUME NEW t \in Threads, Look(t) PROVE \A u \in Threads : NextThread(u)
  <2>1. Alone(t) /\ pc'[t] # "offset" /\ th'[t].start \in {th[t].start, 0, offset} /\ th'[t].end \in {th[t].end, 0}
    BY <1>6, LookDoes DEF Stands, Rests, Left
  <2>2. NextThread(t)
    <3>1. Place(th[t].start) /\ Place(th[t].end) /\ Place(offset)
      BY FileGrows DEF Placed
    <3>2. th[t].start \in Nat /\ th[t].end \in Nat /\ offset \in Nat
      BY HasLocal, PositionsAre
    <3>3. NextPlace(th[t].start) /\ NextPlace(th[t].end) /\ NextPlace(offset) /\ NextPlace(0)
      BY <3>1, <3>2, PlaceStays
    <3> QED
      BY <2>1, <3>3 DEF NextThread
  <2> QED
    BY <2>1, <2>2, ThreadsPlaced DEF Alone
<1>7. ASSUME NEW t \in Threads, Read(t) PROVE \A u \in Threads : NextThread(u)
  <2>1. Alone(t)
    BY <1>7, ReadDoes
  <2>2. Stands(t, "offset", 0, Max({th[t].start, Size}), Whole(th[t].start, Size), NoCalls, << >>)
    BY <1>7, ReadDoes
  <2>3. th[t].start \in Nat /\ Size \in Nat /\ th[t].start <= Size
    BY HasLocal, PositionsAre, FileGrows DEF Placed, Place
  <2>4. Max({th[t].start, Size}) = Size
    BY <2>3, MaxOfTwo
  <2>5. pc'[t] = "offset" /\ th'[t].start = 0 /\ th'[t].end = Size /\ th'[t].todo = Whole(th[t].start, Size)
    BY <2>2, <2>4 DEF Stands
  <2>6. halved' = halved \cup (IF partial THEN {Len(file)} ELSE {}) /\ file' = file /\ Size' = Size
    BY <1>7, <2>4 DEF Read, Storing, disk, Size
  <2>7. NextPlace(Size)
    <3>1. file \in Seq(Lines) /\ partial \in BOOLEAN /\ (partial => file # << >>)
      BY DEF TypeOK, Typed
    <3>2. CASE partial
      <4>1. Size = 2 * Len(file) - 1 /\ Len(file) \in Nat
        BY <3>1, <3>2, SizeIsNat
      <4>2. (Size + 1) \div 2 = Len(file)
        BY <4>1
      <4>3. Len(file) \in halved'
        BY <2>6, <3>2
      <4> QED
        BY <2>3, <2>6, <4>2, <4>3 DEF NextPlace
    <3>3. CASE ~partial
      <4>1. Size = 2 * Len(file) /\ Len(file) \in Nat
        BY <3>1, <3>3, SizeIsNat
      <4>2. Size % 2 = 0
        BY <4>1
      <4> QED
        BY <2>3, <2>6, <4>2 DEF NextPlace
    <3> QED
      BY <3>1, <3>2, <3>3
  <2>8. NextEnds(Whole(th[t].start, Size), Size)
    <3> DEFINE w == Whole(th[t].start, Size)
    <3>1. /\ w \in Seq(Lines)
          /\ Len(w) = IF (th[t].start + 1) \div 2 < Size \div 2 THEN Size \div 2 - (th[t].start + 1) \div 2 ELSE 0
          /\ \A j \in 1..Len(w) : w[j] = file[Size \div 2 - Len(w) + j]
      BY <2>3, WholeLines DEF TypeOK, Typed
    <3> HIDE DEF w
    <3>2. Len(w) <= Size \div 2
      BY <2>3, <3>1
    <3>3. NextEnds(w, Size)
      BY <2>6, <3>1, <3>2 DEF NextEnds
    <3> QED
      BY <3>3 DEF w
  <2>9. NextThread(t)
    BY <2>5, <2>7, <2>8, PlaceStays DEF NextThread
  <2> QED
    BY <2>1, <2>9, ThreadsPlaced DEF Alone
<1>8. ASSUME NEW t \in Threads, SetOffset(t) PROVE \A u \in Threads : NextThread(u)
  <2>1. Alone(t) /\ pc'[t] # "offset" /\ th'[t].start \in {th[t].start, 0} /\ th'[t].end \in {th[t].end, 0}
    BY <1>8, SetOffsetDoes DEF Stands, Rests, Left
  <2>2. NextThread(t)
    <3>1. Place(th[t].start) /\ Place(th[t].end) /\ Place(offset)
      BY FileGrows DEF Placed
    <3>2. th[t].start \in Nat /\ th[t].end \in Nat /\ offset \in Nat
      BY HasLocal, PositionsAre
    <3>3. NextPlace(th[t].start) /\ NextPlace(th[t].end) /\ NextPlace(offset) /\ NextPlace(0)
      BY <3>1, <3>2, PlaceStays
    <3> QED
      BY <2>1, <3>3 DEF NextThread
  <2> QED
    BY <2>1, <2>2, ThreadsPlaced DEF Alone
<1>9. ASSUME NEW t \in Threads, Ingest(t) PROVE \A u \in Threads : NextThread(u)
  <2>1. Alone(t) /\ pc'[t] # "offset" /\ th'[t].start \in {th[t].start, 0} /\ th'[t].end \in {th[t].end, 0}
    BY <1>9, IngestDoes DEF Stands, Rests, Left
  <2>2. NextThread(t)
    <3>1. Place(th[t].start) /\ Place(th[t].end) /\ Place(offset)
      BY FileGrows DEF Placed
    <3>2. th[t].start \in Nat /\ th[t].end \in Nat /\ offset \in Nat
      BY HasLocal, PositionsAre
    <3>3. NextPlace(th[t].start) /\ NextPlace(th[t].end) /\ NextPlace(offset) /\ NextPlace(0)
      BY <3>1, <3>2, PlaceStays
    <3> QED
      BY <2>1, <3>3 DEF NextThread
  <2> QED
    BY <2>1, <2>2, ThreadsPlaced DEF Alone
<1>10. ASSUME NEW t \in Threads, Record(t) PROVE \A u \in Threads : NextThread(u)
  <2>1. Alone(t) /\ pc'[t] # "offset" /\ th'[t].start \in {th[t].start, 0} /\ th'[t].end \in {th[t].end, 0}
    BY <1>10, RecordDoes DEF Stands, Rests, Left
  <2>2. NextThread(t)
    <3>1. Place(th[t].start) /\ Place(th[t].end) /\ Place(offset)
      BY FileGrows DEF Placed
    <3>2. th[t].start \in Nat /\ th[t].end \in Nat /\ offset \in Nat
      BY HasLocal, PositionsAre
    <3>3. NextPlace(th[t].start) /\ NextPlace(th[t].end) /\ NextPlace(offset) /\ NextPlace(0)
      BY <3>1, <3>2, PlaceStays
    <3> QED
      BY <2>1, <3>3 DEF NextThread
  <2> QED
    BY <2>1, <2>2, ThreadsPlaced DEF Alone
<1>11. ASSUME NEW t \in Threads, SortCalls(t) PROVE \A u \in Threads : NextThread(u)
  <2>1. Alone(t) /\ pc'[t] # "offset" /\ th'[t].start \in {th[t].start, 0} /\ th'[t].end \in {th[t].end, 0}
    BY <1>11, SortCallsDoes DEF Stands, Rests, Left
  <2>2. NextThread(t)
    <3>1. Place(th[t].start) /\ Place(th[t].end) /\ Place(offset)
      BY FileGrows DEF Placed
    <3>2. th[t].start \in Nat /\ th[t].end \in Nat /\ offset \in Nat
      BY HasLocal, PositionsAre
    <3>3. NextPlace(th[t].start) /\ NextPlace(th[t].end) /\ NextPlace(offset) /\ NextPlace(0)
      BY <3>1, <3>2, PlaceStays
    <3> QED
      BY <2>1, <3>3 DEF NextThread
  <2> QED
    BY <2>1, <2>2, ThreadsPlaced DEF Alone
<1>12. ASSUME NEW t \in Threads, CallsSorted(t) PROVE \A u \in Threads : NextThread(u)
  <2>1. Alone(t) /\ pc'[t] # "offset" /\ th'[t].start \in {th[t].start, 0} /\ th'[t].end \in {th[t].end, 0}
    BY <1>12, CallsSortedDoes DEF Stands, Rests, Left
  <2>2. NextThread(t)
    <3>1. Place(th[t].start) /\ Place(th[t].end) /\ Place(offset)
      BY FileGrows DEF Placed
    <3>2. th[t].start \in Nat /\ th[t].end \in Nat /\ offset \in Nat
      BY HasLocal, PositionsAre
    <3>3. NextPlace(th[t].start) /\ NextPlace(th[t].end) /\ NextPlace(offset) /\ NextPlace(0)
      BY <3>1, <3>2, PlaceStays
    <3> QED
      BY <2>1, <3>3 DEF NextThread
  <2> QED
    BY <2>1, <2>2, ThreadsPlaced DEF Alone
<1>13. ASSUME NEW t \in Threads, SortLimits(t) PROVE \A u \in Threads : NextThread(u)
  <2>1. Alone(t) /\ pc'[t] # "offset" /\ th'[t].start \in {th[t].start, 0} /\ th'[t].end \in {th[t].end, 0}
    BY <1>13, SortLimitsDoes DEF Stands, Rests, Left
  <2>2. NextThread(t)
    <3>1. Place(th[t].start) /\ Place(th[t].end) /\ Place(offset)
      BY FileGrows DEF Placed
    <3>2. th[t].start \in Nat /\ th[t].end \in Nat /\ offset \in Nat
      BY HasLocal, PositionsAre
    <3>3. NextPlace(th[t].start) /\ NextPlace(th[t].end) /\ NextPlace(offset) /\ NextPlace(0)
      BY <3>1, <3>2, PlaceStays
    <3> QED
      BY <2>1, <3>3 DEF NextThread
  <2> QED
    BY <2>1, <2>2, ThreadsPlaced DEF Alone
<1>14. ASSUME NEW t \in Threads, LimitsSorted(t) PROVE \A u \in Threads : NextThread(u)
  <2>1. Alone(t) /\ pc'[t] # "offset" /\ th'[t].start \in {th[t].start, 0} /\ th'[t].end \in {th[t].end, 0}
    BY <1>14, LimitsSortedDoes DEF Stands, Rests, Left
  <2>2. NextThread(t)
    <3>1. Place(th[t].start) /\ Place(th[t].end) /\ Place(offset)
      BY FileGrows DEF Placed
    <3>2. th[t].start \in Nat /\ th[t].end \in Nat /\ offset \in Nat
      BY HasLocal, PositionsAre
    <3>3. NextPlace(th[t].start) /\ NextPlace(th[t].end) /\ NextPlace(offset) /\ NextPlace(0)
      BY <3>1, <3>2, PlaceStays
    <3> QED
      BY <2>1, <3>3 DEF NextThread
  <2> QED
    BY <2>1, <2>2, ThreadsPlaced DEF Alone
<1>15. ASSUME NEW t \in Threads, Dump(t) PROVE \A u \in Threads : NextThread(u)
  <2>1. Alone(t) /\ pc'[t] # "offset" /\ th'[t].start \in {th[t].start, 0} /\ th'[t].end \in {th[t].end, 0}
    BY <1>15, DumpDoes DEF Stands, Rests, Left
  <2>2. NextThread(t)
    <3>1. Place(th[t].start) /\ Place(th[t].end) /\ Place(offset)
      BY FileGrows DEF Placed
    <3>2. th[t].start \in Nat /\ th[t].end \in Nat /\ offset \in Nat
      BY HasLocal, PositionsAre
    <3>3. NextPlace(th[t].start) /\ NextPlace(th[t].end) /\ NextPlace(offset) /\ NextPlace(0)
      BY <3>1, <3>2, PlaceStays
    <3> QED
      BY <2>1, <3>3 DEF NextThread
  <2> QED
    BY <2>1, <2>2, ThreadsPlaced DEF Alone
<1>16. ASSUME NEW t \in Threads, Open(t) PROVE \A u \in Threads : NextThread(u)
  <2>1. Alone(t) /\ pc'[t] # "offset" /\ th'[t].start \in {th[t].start, 0} /\ th'[t].end \in {th[t].end, 0}
    BY <1>16, OpenDoes DEF Stands, Rests, Left
  <2>2. NextThread(t)
    <3>1. Place(th[t].start) /\ Place(th[t].end) /\ Place(offset)
      BY FileGrows DEF Placed
    <3>2. th[t].start \in Nat /\ th[t].end \in Nat /\ offset \in Nat
      BY HasLocal, PositionsAre
    <3>3. NextPlace(th[t].start) /\ NextPlace(th[t].end) /\ NextPlace(offset) /\ NextPlace(0)
      BY <3>1, <3>2, PlaceStays
    <3> QED
      BY <2>1, <3>3 DEF NextThread
  <2> QED
    BY <2>1, <2>2, ThreadsPlaced DEF Alone
<1>17. ASSUME NEW t \in Threads, Write(t) PROVE \A u \in Threads : NextThread(u)
  <2>1. Alone(t) /\ pc'[t] # "offset" /\ th'[t].start \in {th[t].start, 0} /\ th'[t].end \in {th[t].end, 0}
    BY <1>17, WriteDoes DEF Stands, Rests, Left
  <2>2. NextThread(t)
    <3>1. Place(th[t].start) /\ Place(th[t].end) /\ Place(offset)
      BY FileGrows DEF Placed
    <3>2. th[t].start \in Nat /\ th[t].end \in Nat /\ offset \in Nat
      BY HasLocal, PositionsAre
    <3>3. NextPlace(th[t].start) /\ NextPlace(th[t].end) /\ NextPlace(offset) /\ NextPlace(0)
      BY <3>1, <3>2, PlaceStays
    <3> QED
      BY <2>1, <3>3 DEF NextThread
  <2> QED
    BY <2>1, <2>2, ThreadsPlaced DEF Alone
<1>18. ASSUME NEW s \in Sessions, Use(s) PROVE \A u \in Threads : NextThread(u)
  <2>1. UNCHANGED <<pc, th>>
    BY <1>18 DEF Use, Metering
  <2> QED
    BY <2>1, AllStay
<1>19. ASSUME NEW s \in Sessions, Export(s) PROVE \A u \in Threads : NextThread(u)
  <2>1. UNCHANGED <<pc, th>>
    BY <1>19 DEF Export, Metering
  <2> QED
    BY <2>1, AllStay
<1>20. ASSUME NEW p \in posts, Lose(p) PROVE \A u \in Threads : NextThread(u)
  <2>1. UNCHANGED <<pc, th>>
    BY <1>20 DEF Lose, Metering
  <2> QED
    BY <2>1, AllStay
<1>21. ASSUME NEW p \in posts, IngestPost(p) PROVE \A u \in Threads : NextThread(u)
  <2>1. UNCHANGED <<pc, th>>
    BY <1>21 DEF IngestPost, Metering
  <2> QED
    BY <2>1, AllStay
<1>22. ASSUME Crash PROVE \A u \in Threads : NextThread(u)
  <2>1. th' = [t \in Threads |-> Idle] /\ pc' = [t \in Threads |-> "idle"]
    BY <1>22 DEF Crash
  <2>2. NextPlace(0)
    BY PlaceStays
  <2> QED
    BY <2>1, <2>2, IdleVariables DEF NextThread
<1>23. ASSUME UNCHANGED vars PROVE \A u \in Threads : NextThread(u)
  <2>1. UNCHANGED <<pc, th>>
    BY <1>23 DEF vars
  <2> QED
    BY <2>1, AllStay
<1> QED
  BY <1>1, <1>2, <1>3, <1>4, <1>5, <1>6, <1>7, <1>8, <1>9, <1>10, <1>11, <1>12, <1>13, <1>14, <1>15, <1>16, <1>17, <1>18, <1>19, <1>20, <1>21, <1>22, <1>23, Zenon DEF Next, Thread

LEMMA OffsetStays ==
  ASSUME TypeOK, Typed, Placed, [Next]_vars, rotations' = 0
  PROVE  /\ NextPlace(offset) /\ offset \in Nat /\ offset <= Size
         /\ NextPlace(0) /\ 0 \in Nat /\ 0 <= Size
<1>1. Place(offset) /\ offset \in Nat
  BY FileGrows, PositionsAre DEF Placed
<1>2. offset <= Size /\ 0 <= Size
  BY <1>1, Sizes DEF Place
<1> QED
  BY <1>1, <1>2, PlaceStays

\* Every step keeps the offset at a position.
LEMMA OffsetPlacedStep ==
  ASSUME TypeOK, Typed, Placed, [Next]_vars, rotations' = 0
  PROVE  NextPlace(offset') /\ offset' \in Nat /\ offset' <= Size
<1>1. ASSUME NEW line \in Requests \cup {Limit}, WriteLine(line) PROVE NextPlace(offset') /\ offset' \in Nat /\ offset' <= Size
  <2>1. offset' = offset
    BY <1>1 DEF WriteLine, Recording, store, vars
  <2> QED
    BY <2>1, OffsetStays
<1>2. ASSUME WriteRest PROVE NextPlace(offset') /\ offset' \in Nat /\ offset' <= Size
  <2>1. offset' = offset
    BY <1>2 DEF WriteRest, Recording, store, vars
  <2> QED
    BY <2>1, OffsetStays
<1>3. ASSUME Rotate PROVE NextPlace(offset') /\ offset' \in Nat /\ offset' <= Size
  <2>1. offset' = offset
    BY <1>3 DEF Rotate, Recording, store, vars
  <2> QED
    BY <2>1, OffsetStays
<1>4. ASSUME NEW t \in Threads, Boot(t) PROVE NextPlace(offset') /\ offset' \in Nat /\ offset' <= Size
  <2>1. CASE Loadable
    <3>1. offset' = cache.offset /\ cache \in Dumps
      BY <1>4, <2>1 DEF Boot, Dumps
    <3>2. Place(cache.offset) /\ cache.offset \in Nat
      BY <3>1, FileGrows, DumpTypes, PositionsAre DEF Placed, Saved
    <3> QED
      BY <3>1, <3>2, PlaceStays DEF Place
  <2>2. CASE ~Loadable
    <3>1. offset' = offset
      BY <1>4, <2>2 DEF Boot, store
    <3> QED
      BY <3>1, OffsetStays
  <2> QED
    BY <2>1, <2>2
<1>5. ASSUME NEW t \in Threads, Get(t) PROVE NextPlace(offset') /\ offset' \in Nat /\ offset' <= Size
  <2>1. offset' = offset
    BY <1>5 DEF Get, store, vars
  <2> QED
    BY <2>1, OffsetStays
<1>6. ASSUME NEW t \in Threads, Look(t) PROVE NextPlace(offset') /\ offset' \in Nat /\ offset' <= Size
  <2>1. offset' = offset
    BY <1>6 DEF Look, Storing, store, vars
  <2> QED
    BY <2>1, OffsetStays
<1>7. ASSUME NEW t \in Threads, Read(t) PROVE NextPlace(offset') /\ offset' \in Nat /\ offset' <= Size
  <2>1. offset' = offset
    BY <1>7 DEF Read, Storing, store, vars
  <2> QED
    BY <2>1, OffsetStays
<1>8. ASSUME NEW t \in Threads, SetOffset(t) PROVE NextPlace(offset') /\ offset' \in Nat /\ offset' <= Size
  <2>1. offset' = th[t].end
    BY <1>8 DEF SetOffset
  <2>2. Place(th[t].end) /\ th[t].end \in Nat
    BY FileGrows, HasLocal, PositionsAre DEF Placed
  <2> QED
    BY <2>1, <2>2, PlaceStays DEF Place
<1>9. ASSUME NEW t \in Threads, Ingest(t) PROVE NextPlace(offset') /\ offset' \in Nat /\ offset' <= Size
  <2>1. offset' = offset
    BY <1>9 DEF Ingest, Storing, store, vars
  <2> QED
    BY <2>1, OffsetStays
<1>10. ASSUME NEW t \in Threads, Record(t) PROVE NextPlace(offset') /\ offset' \in Nat /\ offset' <= Size
  <2>1. offset' = offset
    BY <1>10 DEF Record, Storing, store, vars
  <2> QED
    BY <2>1, OffsetStays
<1>11. ASSUME NEW t \in Threads, SortCalls(t) PROVE NextPlace(offset') /\ offset' \in Nat /\ offset' <= Size
  <2>1. offset' = offset
    BY <1>11 DEF SortCalls, Storing, store, vars
  <2> QED
    BY <2>1, OffsetStays
<1>12. ASSUME NEW t \in Threads, CallsSorted(t) PROVE NextPlace(offset') /\ offset' \in Nat /\ offset' <= Size
  <2>1. offset' = offset
    BY <1>12 DEF CallsSorted, Storing, store, vars
  <2> QED
    BY <2>1, OffsetStays
<1>13. ASSUME NEW t \in Threads, SortLimits(t) PROVE NextPlace(offset') /\ offset' \in Nat /\ offset' <= Size
  <2>1. offset' = offset
    BY <1>13 DEF SortLimits, Storing, store, vars
  <2> QED
    BY <2>1, OffsetStays
<1>14. ASSUME NEW t \in Threads, LimitsSorted(t) PROVE NextPlace(offset') /\ offset' \in Nat /\ offset' <= Size
  <2>1. offset' = offset
    BY <1>14 DEF LimitsSorted, Storing, store, vars
  <2> QED
    BY <2>1, OffsetStays
<1>15. ASSUME NEW t \in Threads, Dump(t) PROVE NextPlace(offset') /\ offset' \in Nat /\ offset' <= Size
  <2>1. offset' = offset
    BY <1>15 DEF Dump, Storing, store, vars
  <2> QED
    BY <2>1, OffsetStays
<1>16. ASSUME NEW t \in Threads, Open(t) PROVE NextPlace(offset') /\ offset' \in Nat /\ offset' <= Size
  <2>1. offset' = offset
    BY <1>16 DEF Open, Storing, store, vars
  <2> QED
    BY <2>1, OffsetStays
<1>17. ASSUME NEW t \in Threads, Write(t) PROVE NextPlace(offset') /\ offset' \in Nat /\ offset' <= Size
  <2>1. offset' = offset
    BY <1>17 DEF Write, Storing, store, vars
  <2> QED
    BY <2>1, OffsetStays
<1>18. ASSUME NEW s \in Sessions, Use(s) PROVE NextPlace(offset') /\ offset' \in Nat /\ offset' <= Size
  <2>1. offset' = offset
    BY <1>18 DEF Use, Metering, store, vars
  <2> QED
    BY <2>1, OffsetStays
<1>19. ASSUME NEW s \in Sessions, Export(s) PROVE NextPlace(offset') /\ offset' \in Nat /\ offset' <= Size
  <2>1. offset' = offset
    BY <1>19 DEF Export, Metering, store, vars
  <2> QED
    BY <2>1, OffsetStays
<1>20. ASSUME NEW p \in posts, Lose(p) PROVE NextPlace(offset') /\ offset' \in Nat /\ offset' <= Size
  <2>1. offset' = offset
    BY <1>20 DEF Lose, Metering, store, vars
  <2> QED
    BY <2>1, OffsetStays
<1>21. ASSUME NEW p \in posts, IngestPost(p) PROVE NextPlace(offset') /\ offset' \in Nat /\ offset' <= Size
  <2>1. offset' = offset
    BY <1>21 DEF IngestPost, Metering, store, vars
  <2> QED
    BY <2>1, OffsetStays
<1>22. ASSUME Crash PROVE NextPlace(offset') /\ offset' \in Nat /\ offset' <= Size
  <2>1. offset' = 0
    BY <1>22 DEF Crash
  <2> QED
    BY <2>1, OffsetStays
<1>23. ASSUME UNCHANGED vars PROVE NextPlace(offset') /\ offset' \in Nat /\ offset' <= Size
  <2>1. offset' = offset
    BY <1>23 DEF vars, store
  <2> QED
    BY <2>1, OffsetStays
<1> QED
  BY <1>1, <1>2, <1>3, <1>4, <1>5, <1>6, <1>7, <1>8, <1>9, <1>10, <1>11, <1>12, <1>13, <1>14, <1>15, <1>16, <1>17, <1>18, <1>19, <1>20, <1>21, <1>22, <1>23, Zenon DEF Next, Thread

LEMMA PlacedStep ==
  ASSUME TypeOK, Typed, Placed, [Next]_vars
  PROVE  Placed'
<1> SUFFICES ASSUME rotations' = 0
             PROVE  /\ Place(offset)'
                    /\ \A t \in Threads :
                         (/\ Place(th[t].start) /\ Place(th[t].end) /\ (pc[t] = "offset" => Ends(th[t], th[t].end)))'
                    /\ \A d \in Dumps' : NextPlace(d.offset)
  BY DEF Placed, Place, NextPlace
<1>1. Place(offset)'
  BY OffsetPlacedStep DEF Place, NextPlace
<1>2. ASSUME NEW t \in Threads
      PROVE  (/\ Place(th[t].start) /\ Place(th[t].end) /\ (pc[t] = "offset" => Ends(th[t], th[t].end)))'
  BY ThreadsPlacedStep DEF Place, NextPlace, Ends, NextEnds, NextThread
<1>3. ASSUME NEW d \in Dumps' PROVE NextPlace(d.offset)
  <2>1. CASE d \in Dumps
    <3>1. Place(d.offset) /\ d.offset \in Nat
      BY <2>1, FileGrows, DumpTypes, PositionsAre DEF Placed, Saved
    <3> QED
      BY <3>1, PlaceStays
  <2>2. CASE d = Memory
    <3>1. d.offset = offset
      BY <2>2 DEF Memory
    <3> QED
      BY <3>1, OffsetStays
  <2> QED
    BY <1>3, <2>1, <2>2, DumpsStep
<1> QED
  BY <1>1, <1>2, <1>3

-----------------------------------------------------------------------------
(* Limits.                                                                 *)

LEMMA LimitSets ==
  ASSUME NEW n \in Nat
  PROVE  IsFiniteSet({i \in 1..n : file[i] = Limit}) /\ LimitsTo(n) \in Nat
<1>1. IsFiniteSet(1..n) /\ {i \in 1..n : file[i] = Limit} \subseteq 1..n
  BY FS_Interval
<1>2. IsFiniteSet({i \in 1..n : file[i] = Limit})
  BY <1>1, FS_Subset
<1> QED
  BY <1>2, FS_CardinalityType DEF LimitsTo

LEMMA MoreLimits ==
  ASSUME NEW m \in Nat, NEW n \in Nat, m <= n
  PROVE  LimitsTo(m) <= LimitsTo(n)
<1>1. {i \in 1..m : file[i] = Limit} \subseteq {i \in 1..n : file[i] = Limit}
  OBVIOUS
<1>2. IsFiniteSet({i \in 1..n : file[i] = Limit})
  BY LimitSets
<1> QED
  BY <1>1, <1>2, FS_Subset, Zenon DEF LimitsTo

LEMMA OneMoreLimit ==
  ASSUME NEW n \in Nat, file[n+1] = Limit
  PROVE  LimitsTo(n+1) = LimitsTo(n) + 1
<1> DEFINE S == {i \in 1..n : file[i] = Limit}
           T == {i \in 1..(n+1) : file[i] = Limit}
<1>1. T = S \cup {n+1} /\ n+1 \notin S
  OBVIOUS
<1>2. IsFiniteSet(S)
  BY LimitSets
<1> HIDE DEF S, T
<1>3. Cardinality(T) = Cardinality(S) + 1
  BY <1>1, <1>2, FS_AddElement
<1> QED
  BY <1>3 DEF LimitsTo, S, T

LEMMA NoLimitsAtFirst == LimitsTo(0) = 0
<1>1. {i \in 1..0 : file[i] = Limit} = {}
  OBVIOUS
<1> QED
  BY <1>1, FS_EmptySet DEF LimitsTo

\* What Behind comes to after a step, in terms of the file before it.
NextBehind(u) ==
  /\ pc'[u] = "read" => th'[u].start = offset'
  /\ pc'[u] = "offset" => offset' \div 2 + Len(th'[u].todo) <= th'[u].end \div 2
  /\ pc'[u] \in {"ingest", "record"} =>
       /\ Len(th'[u].todo) <= offset' \div 2
       /\ \A j \in 1..Len(th'[u].todo) : th'[u].todo[j] = file[offset' \div 2 - Len(th'[u].todo) + j]
       /\ limits'.items <= LimitsTo(offset' \div 2 - Len(th'[u].todo))
  /\ pc'[u] = "limits sorted" => th'[u].kept.items <= LimitsTo(offset' \div 2)

NextLimits == limits'.items <= LimitsTo(offset' \div 2) /\ \A u \in Threads : NextBehind(u)

\* What holds while threads take turns and the file is not rotated.
Orderly == ~overlapped /\ rotations = 0

LEMMA Halves ==
  ASSUME TypeOK, Typed, Placed, rotations = 0
  PROVE  /\ offset \in Nat /\ offset <= Size /\ offset \div 2 \in Nat /\ offset \div 2 <= Len(file)
         /\ \A t \in Threads : /\ th[t].end \in Nat /\ th[t].end \div 2 \in Nat /\ th[t].end <= Size
                               /\ th[t].end \div 2 <= Len(file)
         /\ Len(file) \in Nat /\ Size \in Nat /\ Size \div 2 \in Nat
         /\ \A t \in Threads : th[t].todo \in Seq(Lines) /\ Len(th[t].todo) \in Nat
<1>1. Size \in Nat /\ Size <= 2 * Len(file) /\ Len(file) \in Nat
  BY SizeIsNat DEF TypeOK, Typed
<1>2. offset \in Nat /\ offset <= Size
  BY PositionsAre DEF Placed, Place
<1>3. \A t \in Threads : th[t].end \in Nat /\ th[t].end <= Size /\ th[t].todo \in Seq(Lines)
  BY HasLocal, PositionsAre DEF Placed, Place
<1>4. \A p \in Nat : p <= Size => p \div 2 \in Nat /\ p \div 2 <= Len(file)
  BY <1>1
<1>5. \A t \in Threads : Len(th[t].todo) \in Nat
  BY <1>3
<1> QED
  BY <1>1, <1>2, <1>3, <1>4, <1>5

\* A step of the one busy thread t after which it is not reading.
LEMMA BehindKept ==
  ASSUME TypeOK, Typed, InTurn, LimitsBehind, Orderly, NEW t \in Threads, Others(t), pc[t] # "idle",
         offset' = offset, limits'.items <= LimitsTo(offset \div 2), NextBehind(t)
  PROVE  NextLimits
<1>1. \A u \in Threads \ {t} : pc'[u] = "idle"
  BY DEF Orderly, InTurn, Others
<1>2. \A u \in Threads \ {t} : NextBehind(u)
  BY <1>1 DEF NextBehind
<1> QED
  BY <1>2 DEF NextLimits

LEMMA BehindStays ==
  ASSUME TypeOK, Typed, LimitsBehind, Orderly, UNCHANGED <<offset, limits, pc, th>>
  PROVE  NextLimits
  BY DEF LimitsBehind, Orderly, NextLimits, NextBehind, Behind, Ends

\* What is in front of the lines that are left grows by the one that is taken.
LEMMA NextLine ==
  ASSUME NEW todo \in Seq(Lines), todo # << >>, NEW n \in Nat, Len(todo) <= n,
         \A j \in 1..Len(todo) : todo[j] = file[n - Len(todo) + j],
         NEW k \in Nat, k <= LimitsTo(n - Len(todo)), NEW m, m = IF Head(todo) = Limit THEN k + 1 ELSE k
  PROVE  /\ m <= LimitsTo(n) /\ m <= LimitsTo(n - Len(Tail(todo))) /\ Len(Tail(todo)) <= n
         /\ \A j \in 1..Len(Tail(todo)) : Tail(todo)[j] = file[n - Len(Tail(todo)) + j]
<1> DEFINE l == Len(todo)
<1>1. l \in Nat /\ l # 0 /\ l <= n
  OBVIOUS
<1>2. \A j \in 1..l : todo[j] = file[n - l + j]
  OBVIOUS
<1>3. Head(todo) = todo[1] /\ Len(Tail(todo)) = l - 1 /\ \A j \in 1..(l-1) : Tail(todo)[j] = todo[j+1]
  BY <1>1
<1>4. k <= LimitsTo(n - l)
  OBVIOUS
<1> HIDE DEF l
<1>5. n - l \in Nat /\ n - l + 1 \in Nat /\ n - l + 1 <= n
  BY <1>1
<1>6. Head(todo) = file[n - l + 1]
  BY <1>1, <1>2, <1>3
<1>7. LimitsTo(n - l) \in Nat /\ LimitsTo(n - l + 1) \in Nat /\ LimitsTo(n) \in Nat
  BY <1>5, LimitSets
<1>8. m \in Nat /\ m <= LimitsTo(n - l + 1)
  <2>1. CASE Head(todo) = Limit
    <3>1. LimitsTo(n - l + 1) = LimitsTo(n - l) + 1
      BY <1>5, <1>6, <2>1, OneMoreLimit
    <3> QED
      BY <1>4, <1>7, <2>1, <3>1
  <2>2. CASE Head(todo) # Limit
    <3>1. LimitsTo(n - l) <= LimitsTo(n - l + 1)
      BY <1>5, MoreLimits
    <3> QED
      BY <1>4, <1>7, <2>2, <3>1
  <2> QED
    BY <2>1, <2>2
<1>9. m <= LimitsTo(n)
  <2>1. LimitsTo(n - l + 1) <= LimitsTo(n)
    BY <1>5, MoreLimits
  <2> QED
    BY <1>7, <1>8, <2>1
<1>10. ASSUME NEW j \in 1..(l-1) PROVE Tail(todo)[j] = file[n - (l - 1) + j]
  <2>1. j + 1 \in 1..l /\ n - l + (j + 1) = n - (l - 1) + j
    BY <1>1
  <2> QED
    BY <1>2, <1>3, <2>1
<1>11. n - (l - 1) = n - l + 1 /\ l - 1 <= n
  BY <1>1
<1> QED
  BY <1>3, <1>8, <1>9, <1>10, <1>11

\* A thread that has taken its next line.
LEMMA TailBehind ==
  ASSUME TypeOK, Typed, InTurn, Placed, LimitsBehind, Orderly, NEW t \in Threads, Alone(t), pc[t] # "idle",
         pc'[t] \in {"sort calls", "ingest"}, th'[t].todo = Tail(th[t].todo), th[t].todo # << >>,
         offset' = offset, Ends(th[t], offset), limits.items <= LimitsTo(offset \div 2 - Len(th[t].todo)),
         NEW m, m = IF Head(th[t].todo) = Limit THEN limits.items + 1 ELSE limits.items,
         limits'.items = m
  PROVE  NextLimits
<1> DEFINE n == offset \div 2
           todo == th[t].todo
<1>1. /\ m <= LimitsTo(n) /\ m <= LimitsTo(n - Len(Tail(todo))) /\ Len(Tail(todo)) <= n
      /\ \A j \in 1..Len(Tail(todo)) : Tail(todo)[j] = file[n - Len(Tail(todo)) + j]
  <2>1. n \in Nat /\ todo \in Seq(Lines) /\ todo # << >> /\ limits.items \in Nat
    BY Halves DEF Orderly, Typed, LimitList
  <2>2. Len(todo) <= n /\ \A j \in 1..Len(todo) : todo[j] = file[n - Len(todo) + j]
    BY DEF Ends
  <2>3. limits.items <= LimitsTo(n - Len(todo)) /\ m = IF Head(todo) = Limit THEN limits.items + 1 ELSE limits.items
    OBVIOUS
  <2> HIDE DEF n, todo
  <2> QED
    BY <2>1, <2>2, <2>3, NextLine
<1>2. th'[t].todo = Tail(todo) /\ offset' \div 2 = n
  OBVIOUS
<1> HIDE DEF n, todo
<1>3. NextBehind(t)
  BY <1>1, <1>2 DEF NextBehind
<1>4. limits'.items <= LimitsTo(offset \div 2)
  BY <1>1 DEF n
<1> QED
  BY <1>3, <1>4, BehindKept DEF Alone

\* Every step keeps the counted limits behind what is left to read.
LEMMA NextLimitsStep ==
  ASSUME TypeOK, Typed, InTurn, Placed, LimitsBehind, Orderly, ~overlapped', [Next]_vars
  PROVE  NextLimits
<1>1. ASSUME NEW line \in Requests \cup {Limit}, WriteLine(line) PROVE NextLimits
  <2>1. UNCHANGED <<offset, limits, pc, th>>
    BY <1>1 DEF WriteLine, Recording, store
  <2> QED
    BY <2>1, BehindStays
<1>2. ASSUME WriteRest PROVE NextLimits
  <2>1. UNCHANGED <<offset, limits, pc, th>>
    BY <1>2 DEF WriteRest, Recording, store
  <2> QED
    BY <2>1, BehindStays
<1>3. ASSUME Rotate PROVE NextLimits
  <2>1. UNCHANGED <<offset, limits, pc, th>>
    BY <1>3 DEF Rotate, Recording, store
  <2> QED
    BY <2>1, BehindStays
<1>4. ASSUME NEW t \in Threads, Boot(t) PROVE NextLimits
  <2>1. Alone(t) /\ pc'[t] = "look" /\ up = "down"
    BY <1>4, BootDoes DEF Boot, Rests, Stands
  <2>2. \A u \in Threads : NextBehind(u)
    BY <2>1 DEF NextBehind, Alone, Others, Typed
  <2>3. CASE Loadable
    <3>1. cache \in Dumps /\ cache.limits \in Nat
      BY <2>3 DEF Dumps, Typed, Saved
    <3>2. offset' = cache.offset /\ limits' = [NoLimits EXCEPT !.items = cache.limits]
      BY <1>4, <2>3 DEF Boot
    <3>3. limits'.items = cache.limits
      BY <3>1, <3>2, Lists
    <3>4. cache.limits <= LimitsTo(cache.offset \div 2)
      BY <3>1 DEF LimitsBehind, Orderly
    <3> QED
      BY <2>2, <3>2, <3>3, <3>4 DEF NextLimits
  <2>4. CASE ~Loadable
    <3>1. offset' = offset /\ limits' = limits
      BY <1>4, <2>4 DEF Boot, store
    <3>2. limits.items <= LimitsTo(offset \div 2)
      BY DEF LimitsBehind, Orderly
    <3> QED
      BY <2>2, <3>1, <3>2 DEF NextLimits
  <2> QED
    BY <2>3, <2>4
<1>5. ASSUME NEW t \in Threads, Get(t) PROVE NextLimits
  <2>1. Alone(t) /\ pc'[t] = "look" /\ offset' = offset /\ limits' = limits
    BY <1>5, GetDoes DEF Get, Rests, Stands, store
  <2>2. \A u \in Threads \ {t} : pc[u] = "idle"
    BY <1>5 DEF Get
  <2>3. \A u \in Threads : NextBehind(u)
    BY <2>1, <2>2 DEF NextBehind, Alone, Others
  <2>4. limits.items <= LimitsTo(offset \div 2)
    BY DEF LimitsBehind, Orderly
  <2> QED
    BY <2>1, <2>3, <2>4 DEF NextLimits
<1>6. ASSUME NEW t \in Threads, Look(t) PROVE NextLimits
  <2>1. Alone(t) /\ pc[t] # "idle" /\ pc'[t] \in {"read", "sort calls"}
    BY <1>6, LookDoes DEF Stands
  <2>2. offset' = offset /\ limits' = limits
    BY <1>6 DEF Look, store
  <2>3. limits.items <= LimitsTo(offset \div 2)
    BY DEF LimitsBehind, Orderly
  <2>4. pc'[t] = "read" => th'[t].start = offset
    <3>1. offset <= Size /\ Size \in Nat /\ offset \in Nat
      BY Halves DEF Orderly
    <3>2. CASE Size = offset
      <4>1. pc'[t] = "sort calls"
        BY <1>6, <3>2, LookDoes DEF Stands
      <4> QED
        BY <4>1
    <3>3. CASE Size # offset
      <4>1. th'[t].start = IF Size < offset THEN 0 ELSE offset
        BY <1>6, <3>3, LookDoes DEF Stands
      <4> QED
        BY <3>1, <4>1
    <3> QED
      BY <3>2, <3>3
  <2>5. NextBehind(t)
    BY <2>1, <2>2, <2>4 DEF NextBehind
  <2> QED
    BY <2>1, <2>2, <2>3, <2>5, BehindKept DEF Alone
<1>7. ASSUME NEW t \in Threads, Read(t) PROVE NextLimits
  <2>1. Alone(t) /\ pc[t] = "read" /\ Stands(t, "offset", 0, Max({th[t].start, Size}), Whole(th[t].start, Size), NoCalls, << >>)
    BY <1>7, ReadDoes
  <2>2. offset' = offset /\ limits' = limits
    BY <1>7 DEF Read, store
  <2>3. limits.items <= LimitsTo(offset \div 2) /\ th[t].start = offset
    BY <2>1 DEF LimitsBehind, Orderly, Behind
  <2>4. offset <= Size /\ Size \in Nat /\ offset \in Nat
    BY Halves DEF Orderly
  <2>5. pc'[t] = "offset" /\ th'[t].end = Size /\ th'[t].todo = Whole(offset, Size)
    BY <2>1, <2>3, <2>4, MaxOfTwo DEF Stands
  <2>6. Len(Whole(offset, Size)) = IF (offset + 1) \div 2 < Size \div 2 THEN Size \div 2 - (offset + 1) \div 2 ELSE 0
    BY <2>4, WholeLines DEF TypeOK, Typed
  <2>7. offset \div 2 + Len(Whole(offset, Size)) <= Size \div 2
    BY <2>4, <2>6
  <2>8. NextBehind(t)
    BY <2>2, <2>5, <2>7 DEF NextBehind
  <2> QED
    BY <2>1, <2>2, <2>3, <2>8, BehindKept DEF Alone
<1>8. ASSUME NEW t \in Threads, SetOffset(t) PROVE NextLimits
  <2>1. Alone(t) /\ pc[t] = "offset" /\ pc'[t] = (IF th[t].todo = << >> THEN "sort calls" ELSE "ingest")
        /\ th'[t].todo = th[t].todo
    BY <1>8, SetOffsetDoes DEF Left, Stands
  <2>2. offset' = th[t].end /\ limits' = limits
    BY <1>8 DEF SetOffset
  <2>3. /\ limits.items <= LimitsTo(offset \div 2) /\ offset \div 2 + Len(th[t].todo) <= th[t].end \div 2
        /\ Ends(th[t], th[t].end)
    BY <2>1 DEF LimitsBehind, Orderly, Behind, Placed
  <2>4. /\ offset \div 2 \in Nat /\ th[t].end \div 2 \in Nat /\ Len(th[t].todo) \in Nat
    BY Halves DEF Orderly
  <2> DEFINE n == th[t].end \div 2
             l == Len(th[t].todo)
             k == offset \div 2
  <2>5. n \in Nat /\ l \in Nat /\ k \in Nat /\ n - l \in Nat /\ k <= n - l /\ n - l <= n /\ limits.items \in Nat
    BY <2>3, <2>4 DEF Typed, LimitList
  <2>6. limits.items <= LimitsTo(n - l) /\ limits.items <= LimitsTo(n)
    <3> HIDE DEF n, l, k
    <3>1. LimitsTo(k) <= LimitsTo(n - l) /\ LimitsTo(n - l) <= LimitsTo(n)
      BY <2>5, MoreLimits
    <3>2. LimitsTo(k) \in Nat /\ LimitsTo(n - l) \in Nat /\ LimitsTo(n) \in Nat
      BY <2>5, LimitSets
    <3>3. limits.items <= LimitsTo(k)
      BY <2>3 DEF k
    <3> QED
      BY <2>5, <3>1, <3>2, <3>3
  <2>7. NextBehind(t)
    BY <2>1, <2>2, <2>3, <2>6 DEF NextBehind, Ends
  <2>8. \A u \in Threads \ {t} : NextBehind(u)
    BY <2>1 DEF NextBehind, Orderly, InTurn, Alone, Others
  <2> QED
    BY <2>2, <2>6, <2>7, <2>8 DEF NextLimits
<1>9. ASSUME NEW t \in Threads, Ingest(t) PROVE NextLimits
  <2>h. PICK h : h = Head(th[t].todo)
    OBVIOUS
  <2>1. Alone(t) /\ pc[t] = "ingest"
    BY <1>9, IngestDoes
  <2>2. offset' = offset /\ limits' = IF h \notin Requests \ seen /\ h = Limit THEN Added(limits, limits.items + 1) ELSE limits
    BY <1>9, <2>h DEF Ingest
  <2>3. Ends(th[t], offset) /\ limits.items <= LimitsTo(offset \div 2 - Len(th[t].todo))
    BY <2>1 DEF LimitsBehind, Orderly, Behind
  <2>4. CASE h \in Requests \ seen
    <3>1. pc'[t] = "record" /\ th'[t].todo = th[t].todo
      BY <1>9, <2>h, <2>4, IngestDoes DEF Stands
    <3>2. limits' = limits /\ limits.items <= LimitsTo(offset \div 2)
      BY <2>2, <2>4 DEF LimitsBehind, Orderly
    <3>3. NextBehind(t)
      BY <2>2, <2>3, <3>1, <3>2 DEF NextBehind, Ends
    <3> QED
      BY <2>1, <2>2, <3>2, <3>3, BehindKept DEF Alone
  <2>5. CASE h \notin Requests \ seen
    <3>1. pc'[t] \in {"sort calls", "ingest"} /\ th'[t].todo = Tail(th[t].todo)
      BY <1>9, <2>h, <2>5, IngestDoes DEF Stands
    <3>2. th[t].todo # << >>
      BY <2>1, HasLocal
    <3>3. limits'.items = IF h = Limit THEN limits.items + 1 ELSE limits.items
      <4>1. limits \in LimitList /\ limits.items + 1 \in Nat
        BY DEF Typed, LimitList
      <4>2. Added(limits, limits.items + 1).items = limits.items + 1
        BY <4>1, Lists, Zenon
      <4> QED
        BY <2>2, <2>5, <4>2
    <3> QED
      BY <2>1, <2>2, <2>3, <2>h, <3>1, <3>2, <3>3, TailBehind
  <2> QED
    BY <2>4, <2>5
<1>10. ASSUME NEW t \in Threads, Record(t) PROVE NextLimits
  <2>1. Alone(t) /\ pc[t] = "record" /\ pc'[t] \in {"sort calls", "ingest"} /\ th'[t].todo = Tail(th[t].todo)
    BY <1>10, RecordDoes DEF Stands
  <2>2. offset' = offset /\ limits' = limits
    BY <1>10 DEF Record
  <2>3. Ends(th[t], offset) /\ limits.items <= LimitsTo(offset \div 2 - Len(th[t].todo)) /\ th[t].todo # << >>
    BY <2>1, HasLocal DEF LimitsBehind, Orderly, Behind
  <2>4. Head(th[t].todo) # Limit
    BY <2>1, LimitAssumption DEF TypeOK
  <2> QED
    BY <2>1, <2>2, <2>3, <2>4, TailBehind
<1>11. ASSUME NEW t \in Threads, SortCalls(t) PROVE NextLimits
  <2>1. Alone(t) /\ pc[t] # "idle" /\ pc'[t] \notin {"read", "offset", "ingest", "record", "limits sorted"}
    BY <1>11, SortCallsDoes DEF Stands, Rests
  <2>2. offset' = offset /\ limits' = limits
    BY <1>11 DEF SortCalls, store
  <2>3. limits.items <= LimitsTo(offset \div 2)
    BY DEF LimitsBehind, Orderly
  <2>4. NextBehind(t)
    BY <2>1 DEF NextBehind
  <2> QED
    BY <2>1, <2>2, <2>3, <2>4, BehindKept DEF Alone
<1>12. ASSUME NEW t \in Threads, CallsSorted(t) PROVE NextLimits
  <2>1. Alone(t) /\ pc[t] # "idle" /\ pc'[t] \notin {"read", "offset", "ingest", "record", "limits sorted"}
    BY <1>12, CallsSortedDoes DEF Stands, Rests
  <2>2. offset' = offset /\ limits' = limits
    BY <1>12 DEF CallsSorted, store
  <2>3. limits.items <= LimitsTo(offset \div 2)
    BY DEF LimitsBehind, Orderly
  <2>4. NextBehind(t)
    BY <2>1 DEF NextBehind
  <2> QED
    BY <2>1, <2>2, <2>3, <2>4, BehindKept DEF Alone
<1>13. ASSUME NEW t \in Threads, SortLimits(t) PROVE NextLimits
  <2>1. Alone(t) /\ pc[t] = "sort limits" /\ offset' = offset
    BY <1>13, SortLimitsDoes DEF SortLimits
  <2>2. limits.items <= LimitsTo(offset \div 2) /\ LimitsTo(offset \div 2) \in Nat
    BY Halves, LimitSets DEF LimitsBehind, Orderly
  <2>3. CASE limits.items = 0
    <3>1. limits' = limits /\ pc'[t] = "save"
      BY <1>13, <2>3, SortLimitsDoes DEF SortLimits, Stands
    <3>2. NextBehind(t)
      BY <3>1 DEF NextBehind
    <3> QED
      BY <2>1, <2>2, <3>1, <3>2, BehindKept DEF Alone
  <2>4. CASE limits.items # 0
    <3>1. limits' = [NoLimits EXCEPT !.allocated = FALSE] /\ pc'[t] = "limits sorted" /\ th'[t].kept = limits
      BY <1>13, <2>4, SortLimitsDoes DEF SortLimits, Stands
    <3>2. limits'.items = 0
      BY <3>1, Lists
    <3>3. limits'.items <= LimitsTo(offset \div 2)
      BY <2>2, <3>2
    <3>4. NextBehind(t)
      BY <2>1, <2>2, <3>1 DEF NextBehind
    <3> QED
      BY <2>1, <3>3, <3>4, BehindKept DEF Alone
  <2> QED
    BY <2>3, <2>4
<1>14. ASSUME NEW t \in Threads, LimitsSorted(t) PROVE NextLimits
  <2>1. Alone(t) /\ pc[t] = "limits sorted" /\ pc'[t] \in {"idle", "save"} /\ offset' = offset /\ limits' = th[t].kept
    BY <1>14, LimitsSortedDoes DEF LimitsSorted, Stands, Rests
  <2>2. limits'.items <= LimitsTo(offset \div 2)
    BY <2>1 DEF LimitsBehind, Orderly, Behind
  <2>3. NextBehind(t)
    BY <2>1 DEF NextBehind
  <2> QED
    BY <2>1, <2>2, <2>3, BehindKept DEF Alone
<1>15. ASSUME NEW t \in Threads, Dump(t) PROVE NextLimits
  <2>1. Alone(t) /\ pc[t] # "idle" /\ pc'[t] \notin {"read", "offset", "ingest", "record", "limits sorted"}
    BY <1>15, DumpDoes DEF Stands, Rests
  <2>2. offset' = offset /\ limits' = limits
    BY <1>15 DEF Dump, store
  <2>3. limits.items <= LimitsTo(offset \div 2)
    BY DEF LimitsBehind, Orderly
  <2>4. NextBehind(t)
    BY <2>1 DEF NextBehind
  <2> QED
    BY <2>1, <2>2, <2>3, <2>4, BehindKept DEF Alone
<1>16. ASSUME NEW t \in Threads, Open(t) PROVE NextLimits
  <2>1. Alone(t) /\ pc[t] # "idle" /\ pc'[t] \notin {"read", "offset", "ingest", "record", "limits sorted"}
    BY <1>16, OpenDoes DEF Stands, Rests
  <2>2. offset' = offset /\ limits' = limits
    BY <1>16 DEF Open, store
  <2>3. limits.items <= LimitsTo(offset \div 2)
    BY DEF LimitsBehind, Orderly
  <2>4. NextBehind(t)
    BY <2>1 DEF NextBehind
  <2> QED
    BY <2>1, <2>2, <2>3, <2>4, BehindKept DEF Alone
<1>17. ASSUME NEW t \in Threads, Write(t) PROVE NextLimits
  <2>1. Alone(t) /\ pc[t] # "idle" /\ pc'[t] \notin {"read", "offset", "ingest", "record", "limits sorted"}
    BY <1>17, WriteDoes DEF Stands, Rests
  <2>2. offset' = offset /\ limits' = limits
    BY <1>17 DEF Write, store
  <2>3. limits.items <= LimitsTo(offset \div 2)
    BY DEF LimitsBehind, Orderly
  <2>4. NextBehind(t)
    BY <2>1 DEF NextBehind
  <2> QED
    BY <2>1, <2>2, <2>3, <2>4, BehindKept DEF Alone
<1>18. ASSUME NEW s \in Sessions, Use(s) PROVE NextLimits
  <2>1. UNCHANGED <<offset, limits, pc, th>>
    BY <1>18 DEF Use, Metering, store
  <2> QED
    BY <2>1, BehindStays
<1>19. ASSUME NEW s \in Sessions, Export(s) PROVE NextLimits
  <2>1. UNCHANGED <<offset, limits, pc, th>>
    BY <1>19 DEF Export, Metering, store
  <2> QED
    BY <2>1, BehindStays
<1>20. ASSUME NEW p \in posts, Lose(p) PROVE NextLimits
  <2>1. UNCHANGED <<offset, limits, pc, th>>
    BY <1>20 DEF Lose, Metering, store
  <2> QED
    BY <2>1, BehindStays
<1>21. ASSUME NEW p \in posts, IngestPost(p) PROVE NextLimits
  <2>1. UNCHANGED <<offset, limits, pc, th>>
    BY <1>21 DEF IngestPost, Metering, store
  <2> QED
    BY <2>1, BehindStays
<1>22. ASSUME Crash PROVE NextLimits
  <2>1. pc' = [t \in Threads |-> "idle"] /\ offset' = 0 /\ limits' = NoLimits
    BY <1>22 DEF Crash
  <2>2. limits'.items = 0 /\ offset' \div 2 = 0
    BY <2>1, Lists
  <2>3. limits'.items <= LimitsTo(offset' \div 2)
    BY <2>2, NoLimitsAtFirst
  <2>4. \A u \in Threads : NextBehind(u)
    BY <2>1 DEF NextBehind
  <2> QED
    BY <2>3, <2>4 DEF NextLimits
<1>23. ASSUME UNCHANGED vars PROVE NextLimits
  <2>1. UNCHANGED <<offset, limits, pc, th>>
    BY <1>23 DEF vars, store
  <2> QED
    BY <2>1, BehindStays
<1> QED
  BY <1>1, <1>2, <1>3, <1>4, <1>5, <1>6, <1>7, <1>8, <1>9, <1>10, <1>11, <1>12, <1>13, <1>14, <1>15, <1>16, <1>17, <1>18, <1>19, <1>20, <1>21, <1>22, <1>23, Zenon DEF Next, Thread

\* Threads that have not overlapped have not done so before.
LEMMA NeverOverlapped ==
  ASSUME ~overlapped', [Next]_vars
  PROVE  ~overlapped
<1>1. ASSUME NEW line \in Requests \cup {Limit}, WriteLine(line) PROVE ~overlapped
  BY <1>1 DEF WriteLine, Recording, history
<1>2. ASSUME WriteRest PROVE ~overlapped
  BY <1>2 DEF WriteRest, Recording, history
<1>3. ASSUME Rotate PROVE ~overlapped
  BY <1>3 DEF Rotate, Recording, history
<1>4. ASSUME NEW t \in Threads, Boot(t) PROVE ~overlapped
  BY <1>4 DEF Boot, Storing, history
<1>5. ASSUME NEW t \in Threads, Get(t) PROVE ~overlapped
  BY <1>5 DEF Get, history
<1>6. ASSUME NEW t \in Threads, Look(t) PROVE ~overlapped
  BY <1>6 DEF Look, Storing, history
<1>7. ASSUME NEW t \in Threads, Read(t) PROVE ~overlapped
  BY <1>7 DEF Read, Storing, history
<1>8. ASSUME NEW t \in Threads, SetOffset(t) PROVE ~overlapped
  BY <1>8 DEF SetOffset, Storing, history
<1>9. ASSUME NEW t \in Threads, Ingest(t) PROVE ~overlapped
  BY <1>9 DEF Ingest, Storing, history
<1>10. ASSUME NEW t \in Threads, Record(t) PROVE ~overlapped
  BY <1>10 DEF Record, Storing, history
<1>11. ASSUME NEW t \in Threads, SortCalls(t) PROVE ~overlapped
  BY <1>11 DEF SortCalls, Storing, history
<1>12. ASSUME NEW t \in Threads, CallsSorted(t) PROVE ~overlapped
  BY <1>12 DEF CallsSorted, Storing, history
<1>13. ASSUME NEW t \in Threads, SortLimits(t) PROVE ~overlapped
  BY <1>13 DEF SortLimits, Storing, history
<1>14. ASSUME NEW t \in Threads, LimitsSorted(t) PROVE ~overlapped
  BY <1>14 DEF LimitsSorted, Storing, history
<1>15. ASSUME NEW t \in Threads, Dump(t) PROVE ~overlapped
  BY <1>15 DEF Dump, Storing, history
<1>16. ASSUME NEW t \in Threads, Open(t) PROVE ~overlapped
  BY <1>16 DEF Open, Storing, history
<1>17. ASSUME NEW t \in Threads, Write(t) PROVE ~overlapped
  BY <1>17 DEF Write, Storing, history
<1>18. ASSUME NEW s \in Sessions, Use(s) PROVE ~overlapped
  BY <1>18 DEF Use, Metering, history
<1>19. ASSUME NEW s \in Sessions, Export(s) PROVE ~overlapped
  BY <1>19 DEF Export, Metering, history
<1>20. ASSUME NEW p \in posts, Lose(p) PROVE ~overlapped
  BY <1>20 DEF Lose, Metering, history
<1>21. ASSUME NEW p \in posts, IngestPost(p) PROVE ~overlapped
  BY <1>21 DEF IngestPost, Metering, history
<1>22. ASSUME Crash PROVE ~overlapped
  BY <1>22 DEF Crash, history
<1>23. ASSUME UNCHANGED vars PROVE ~overlapped
  BY <1>23 DEF vars, history
<1> QED
  BY <1>1, <1>2, <1>3, <1>4, <1>5, <1>6, <1>7, <1>8, <1>9, <1>10, <1>11, <1>12, <1>13, <1>14, <1>15, <1>16, <1>17, <1>18, <1>19, <1>20, <1>21, <1>22, <1>23, Zenon DEF Next, Thread

\* How many limits there are in the first n lines after a step.
NextLimitsTo(n) == Cardinality({i \in 1..n : file'[i] = Limit})

LEMMA LimitsStayBehind ==
  ASSUME TypeOK, Typed, [Next]_vars, rotations' = 0
  PROVE  \A n \in Nat : n <= Len(file) => NextLimitsTo(n) = LimitsTo(n)
<1> SUFFICES ASSUME NEW n \in Nat, n <= Len(file)
             PROVE  NextLimitsTo(n) = LimitsTo(n)
  OBVIOUS
<1>1. \A i \in 1..n : file'[i] = file[i]
  BY FileGrows, Sizes
<1>2. {i \in 1..n : file'[i] = Limit} = {i \in 1..n : file[i] = Limit}
  BY <1>1
<1> QED
  BY <1>2 DEF LimitsTo, NextLimitsTo

\* Every step keeps the limits.
LEMMA LimitsBehindStep ==
  ASSUME TypeOK, Typed, InTurn, Placed, LimitsBehind, [Next]_vars
  PROVE  LimitsBehind'
<1> SUFFICES ASSUME ~overlapped', rotations' = 0
             PROVE  /\ limits'.items <= NextLimitsTo(offset' \div 2)
                    /\ \A t \in Threads :
                         /\ pc'[t] = "read" => th'[t].start = offset'
                         /\ pc'[t] = "offset" => offset' \div 2 + Len(th'[t].todo) <= th'[t].end \div 2
                         /\ pc'[t] \in {"ingest", "record"} =>
                              /\ Len(th'[t].todo) <= offset' \div 2
                              /\ \A j \in 1..Len(th'[t].todo) :
                                   th'[t].todo[j] = file'[offset' \div 2 - Len(th'[t].todo) + j]
                              /\ limits'.items <= NextLimitsTo(offset' \div 2 - Len(th'[t].todo))
                         /\ pc'[t] = "limits sorted" => th'[t].kept.items <= NextLimitsTo(offset' \div 2)
                    /\ \A d \in Dumps' : d.limits <= NextLimitsTo(d.offset \div 2)
  BY DEF LimitsBehind, Behind, Ends, LimitsTo, NextLimitsTo
<1>1. Orderly
  BY NeverOverlapped, FileGrows DEF Orderly
<1>2. NextLimits
  BY <1>1, NextLimitsStep
<1>3. \A n \in Nat : n <= Len(file) => NextLimitsTo(n) = LimitsTo(n)
  BY LimitsStayBehind
<1>h. \A p \in Nat : p <= Size => p \div 2 \in Nat /\ p \div 2 <= Len(file)
  <2>1. Size \in Nat /\ Size <= 2 * Len(file) /\ Len(file) \in Nat
    BY SizeIsNat DEF TypeOK, Typed
  <2> QED
    BY <2>1
<1>4. offset' \div 2 \in Nat /\ offset' \div 2 <= Len(file)
  <2>1. offset' \in Nat /\ offset' <= Size
    BY OffsetPlacedStep
  <2> QED
    BY <2>1, <1>h
<1>5. \A u \in Threads : Len(th'[u].todo) \in Nat
  <2>1. \A u \in Threads : th'[u].todo \in Seq(Lines)
    BY LocalStep DEF Local
  <2> QED
    BY <2>1
<1>6. limits'.items <= NextLimitsTo(offset' \div 2)
  BY <1>2, <1>3, <1>4 DEF NextLimits
<1>7. ASSUME NEW t \in Threads
      PROVE  /\ pc'[t] = "read" => th'[t].start = offset'
             /\ pc'[t] = "offset" => offset' \div 2 + Len(th'[t].todo) <= th'[t].end \div 2
             /\ pc'[t] \in {"ingest", "record"} =>
                  /\ Len(th'[t].todo) <= offset' \div 2
                  /\ \A j \in 1..Len(th'[t].todo) :
                       th'[t].todo[j] = file'[offset' \div 2 - Len(th'[t].todo) + j]
                  /\ limits'.items <= NextLimitsTo(offset' \div 2 - Len(th'[t].todo))
             /\ pc'[t] = "limits sorted" => th'[t].kept.items <= NextLimitsTo(offset' \div 2)
  <2>1. NextBehind(t)
    BY <1>2 DEF NextLimits
  <2>2. ASSUME pc'[t] \in {"ingest", "record"}
        PROVE  /\ Len(th'[t].todo) <= offset' \div 2
               /\ \A j \in 1..Len(th'[t].todo) :
                    th'[t].todo[j] = file'[offset' \div 2 - Len(th'[t].todo) + j]
               /\ limits'.items <= NextLimitsTo(offset' \div 2 - Len(th'[t].todo))
    <3>1. PICK n \in Nat : n = offset' \div 2
      BY <1>4
    <3>2. PICK l \in Nat : l = Len(th'[t].todo)
      BY <1>5
    <3>3. l <= n /\ (\A j \in 1..l : th'[t].todo[j] = file[n - l + j]) /\ limits'.items <= LimitsTo(n - l)
      BY <2>1, <2>2, <3>1, <3>2 DEF NextBehind
    <3>4. n <= Len(file) /\ Len(file) \in Nat
      BY <1>4, <3>1, Sizes
    <3>5. \A j \in 1..l : n - l + j \in 1..Len(file)
      BY <3>3, <3>4
    <3>6. \A j \in 1..l : th'[t].todo[j] = file'[n - l + j]
      BY <3>3, <3>5, FileGrows
    <3>7. n - l \in Nat /\ n - l <= Len(file)
      BY <3>3, <3>4
    <3>8. NextLimitsTo(n - l) = LimitsTo(n - l)
      BY <3>7, <1>3
    <3> QED
      BY <3>1, <3>2, <3>3, <3>6, <3>8
  <2> QED
    BY <1>3, <1>4, <2>1, <2>2 DEF NextBehind
<1>8. ASSUME NEW d \in Dumps' PROVE d.limits <= NextLimitsTo(d.offset \div 2)
  <2>1. d.limits <= LimitsTo(d.offset \div 2) /\ d.offset \in Nat /\ d.offset <= Size
    <3>1. CASE d \in Dumps
      <4>1. d.offset \in Nat /\ Place(d.offset)
        BY <3>1, <1>1, DumpTypes, PositionsAre DEF Placed, Orderly, Saved
      <4> QED
        BY <1>1, <3>1, <4>1 DEF LimitsBehind, Orderly, Place
    <3>2. CASE d = Memory
      <4>1. d.limits = limits.items /\ d.offset = offset
        BY <3>2 DEF Memory
      <4> QED
        BY <1>1, <4>1, Halves DEF LimitsBehind, Orderly
    <3> QED
      BY <1>8, <3>1, <3>2, DumpsStep
  <2>2. d.offset \div 2 \in Nat /\ d.offset \div 2 <= Len(file)
    BY <2>1, <1>h
  <2> QED
    BY <1>3, <2>1, <2>2
<1> QED
  BY <1>6, <1>7, <1>8

\* Limits behind the offset are limits in the file.
LEMMA LimitsAreLines ==
  ASSUME TypeOK, Typed, Placed, LimitsBehind, ~overlapped, rotations = 0
  PROVE  limits.items <= Cardinality({i \in DOMAIN file : file[i] = Limit})
<1>1. DOMAIN file = 1..Len(file) /\ Len(file) \in Nat
  BY DEF Typed
<1>2. LimitsTo(Len(file)) = Cardinality({i \in DOMAIN file : file[i] = Limit})
  BY <1>1 DEF LimitsTo
<1>3. offset \div 2 \in Nat /\ offset \div 2 <= Len(file)
  BY Halves
<1>4. /\ LimitsTo(offset \div 2) <= LimitsTo(Len(file))
      /\ LimitsTo(offset \div 2) \in Nat /\ LimitsTo(Len(file)) \in Nat
  BY <1>1, <1>3, MoreLimits, LimitSets
<1>5. limits.items \in Nat /\ limits.items <= LimitsTo(offset \div 2)
  BY DEF Typed, LimitList, LimitsBehind
<1> QED
  BY <1>2, <1>4, <1>5

-----------------------------------------------------------------------------
(* Nothing is lost.                                                        *)

\* Where a request is listed, before and after a step.
LEMMA ListedIs ==
  ASSUME NEW r
  PROVE  /\ Listed(r) <=> calls.items[r] > 0 \/ \E u \in Threads : pc[u] = "calls sorted" /\ th[u].kept.items[r] > 0
         /\ Listed(r)' <=> calls'.items[r] > 0 \/ \E u \in Threads : pc'[u] = "calls sorted" /\ th'[u].kept.items[r] > 0
  BY DEF Listed, CallLists

\* r is still held.
Keeps(r) == (Listed(r) => Listed(r)') /\ (With(r) => Listed(r)' \/ With(r)')

LEMMA KeptWhenStill ==
  ASSUME UNCHANGED <<calls, pc, th>>
  PROVE  \A r \in Requests : Keeps(r)
  BY DEF Keeps, Listed, With, CallLists

LEMMA KeptByOthers ==
  ASSUME NEW t \in Threads, Alone(t), calls'.items = calls.items, pc[t] \notin {"calls sorted", "ingest", "record"}
  PROVE  \A r \in Requests : Keeps(r)
<1> SUFFICES ASSUME NEW r \in Requests PROVE Keeps(r)
  OBVIOUS
<1>1. Listed(r) => Listed(r)'
  BY ListedIs DEF Alone, Others
<1>2. With(r) => With(r)'
  BY DEF With, Alone, Others
<1> QED
  BY <1>1, <1>2 DEF Keeps

LEMMA FirstOrRest ==
  ASSUME NEW todo \in Seq(Lines), todo # << >>, NEW r, Contains(todo, r)
  PROVE  r = Head(todo) \/ (Contains(Tail(todo), r) /\ Tail(todo) # << >>)
<1>1. Len(todo) \in Nat /\ Len(todo) > 0 /\ Head(todo) = todo[1] /\ Len(Tail(todo)) = Len(todo) - 1
      /\ \A j \in 1..Len(Tail(todo)) : Tail(todo)[j] = todo[j+1]
  OBVIOUS
<1>2. PICK i \in 1..Len(todo) : todo[i] = r
  BY DEF Contains
<1>3. CASE i # 1
  <2>1. i - 1 \in 1..Len(Tail(todo)) /\ Tail(todo)[i-1] = r
    BY <1>1, <1>2, <1>3
  <2>2. Tail(todo) # << >>
    <3>1. Len(<< >>) = 0 /\ i - 1 \notin 1..0
      BY <1>2
    <3> QED
      BY <2>1, <3>1
  <2> QED
    BY <2>1, <2>2 DEF Contains
<1> QED
  BY <1>1, <1>2, <1>3

\* t takes the first of its lines, which is listed if it is a request.
LEMMA KeptByTaker ==
  ASSUME TypeOK, Typed, NEW t \in Threads, Alone(t), pc[t] \in {"ingest", "record"},
         th'[t].todo = Tail(th[t].todo), pc'[t] = IF Tail(th[t].todo) = << >> THEN "sort calls" ELSE "ingest",
         \A r \in Requests : (Listed(r) => Listed(r)') /\ (r = Head(th[t].todo) => Listed(r)')
  PROVE  \A r \in Requests : Keeps(r)
<1> SUFFICES ASSUME NEW r \in Requests, With(r) PROVE Listed(r)' \/ With(r)'
  BY DEF Keeps
<1>1. PICK u \in Threads : pc[u] \in {"ingest", "record"} /\ Contains(th[u].todo, r)
  BY DEF With
<1>2. CASE u # t
  BY <1>1, <1>2 DEF With, Alone, Others
<1>3. CASE u = t
  <2>1. th[t].todo \in Seq(Lines) /\ th[t].todo # << >> /\ Contains(th[t].todo, r)
    BY <1>1, <1>3, HasLocal
  <2>2. r = Head(th[t].todo) \/ (Contains(Tail(th[t].todo), r) /\ Tail(th[t].todo) # << >>)
    BY <2>1, FirstOrRest, Zenon
  <2>3. CASE r = Head(th[t].todo)
    BY <2>3
  <2>4. CASE Contains(Tail(th[t].todo), r) /\ Tail(th[t].todo) # << >>
    <3>1. Contains(th'[t].todo, r) /\ pc'[t] = "ingest"
      BY <2>4
    <3> QED
      BY <3>1 DEF With
  <2> QED
    BY <2>2, <2>3, <2>4
<1> QED
  BY <1>2, <1>3

\* What is spoiled stays so.
LEMMA SpoiledStays ==
  ASSUME ~spoiled', [Next]_vars
  PROVE  ~spoiled
<1>1. ASSUME NEW line \in Requests \cup {Limit}, WriteLine(line) PROVE ~spoiled
  BY <1>1 DEF WriteLine, Recording, history
<1>2. ASSUME WriteRest PROVE ~spoiled
  BY <1>2 DEF WriteRest, Recording, history
<1>3. ASSUME Rotate PROVE ~spoiled
  BY <1>3 DEF Rotate, Recording, history
<1>4. ASSUME NEW t \in Threads, Boot(t) PROVE ~spoiled
  BY <1>4 DEF Boot, Storing, history
<1>5. ASSUME NEW t \in Threads, Get(t) PROVE ~spoiled
  BY <1>5 DEF Get, history
<1>6. ASSUME NEW t \in Threads, Look(t) PROVE ~spoiled
  BY <1>6 DEF Look, Storing, history
<1>7. ASSUME NEW t \in Threads, Read(t) PROVE ~spoiled
  BY <1>7 DEF Read, Storing, history
<1>8. ASSUME NEW t \in Threads, SetOffset(t) PROVE ~spoiled
  BY <1>8 DEF SetOffset, Storing, history
<1>9. ASSUME NEW t \in Threads, Ingest(t) PROVE ~spoiled
  BY <1>9 DEF Ingest, Storing, history
<1>10. ASSUME NEW t \in Threads, Record(t) PROVE ~spoiled
  BY <1>10 DEF Record, Storing, history
<1>11. ASSUME NEW t \in Threads, SortCalls(t) PROVE ~spoiled
  BY <1>11 DEF SortCalls, Storing, history
<1>12. ASSUME NEW t \in Threads, CallsSorted(t) PROVE ~spoiled
  BY <1>12 DEF CallsSorted, Raises, history
<1>13. ASSUME NEW t \in Threads, SortLimits(t) PROVE ~spoiled
  BY <1>13 DEF SortLimits, Storing, history
<1>14. ASSUME NEW t \in Threads, LimitsSorted(t) PROVE ~spoiled
  BY <1>14 DEF LimitsSorted, Raises, history
<1>15. ASSUME NEW t \in Threads, Dump(t) PROVE ~spoiled
  BY <1>15 DEF Dump, Storing, history
<1>16. ASSUME NEW t \in Threads, Open(t) PROVE ~spoiled
  BY <1>16 DEF Open, Storing, history
<1>17. ASSUME NEW t \in Threads, Write(t) PROVE ~spoiled
  BY <1>17 DEF Write, Storing, history
<1>18. ASSUME NEW s \in Sessions, Use(s) PROVE ~spoiled
  BY <1>18 DEF Use, Metering, history
<1>19. ASSUME NEW s \in Sessions, Export(s) PROVE ~spoiled
  BY <1>19 DEF Export, Metering, history
<1>20. ASSUME NEW p \in posts, Lose(p) PROVE ~spoiled
  BY <1>20 DEF Lose, Metering, history
<1>21. ASSUME NEW p \in posts, IngestPost(p) PROVE ~spoiled
  BY <1>21 DEF IngestPost, Metering, history
<1>22. ASSUME Crash PROVE ~spoiled
  BY <1>22 DEF Crash, history
<1>23. ASSUME UNCHANGED vars PROVE ~spoiled
  BY <1>23 DEF vars, history
<1> QED
  BY <1>1, <1>2, <1>3, <1>4, <1>5, <1>6, <1>7, <1>8, <1>9, <1>10, <1>11, <1>12, <1>13, <1>14, <1>15, <1>16, <1>17, <1>18, <1>19, <1>20, <1>21, <1>22, <1>23, Zenon DEF Next, Thread

\* While the server runs and nothing is spoiled, no request gets lost.
LEMMA HeldStep ==
  ASSUME TypeOK, Typed, Taken, ~spoiled', up # "down", up' # "down", [Next]_vars
  PROVE  \A r \in Requests : Keeps(r)
<1>1. ASSUME NEW line \in Requests \cup {Limit}, WriteLine(line) PROVE \A r \in Requests : Keeps(r)
  <2>1. UNCHANGED <<calls, pc, th>>
    BY <1>1 DEF WriteLine, Recording, store
  <2> QED
    BY <2>1, KeptWhenStill
<1>2. ASSUME WriteRest PROVE \A r \in Requests : Keeps(r)
  <2>1. UNCHANGED <<calls, pc, th>>
    BY <1>2 DEF WriteRest, Recording, store
  <2> QED
    BY <2>1, KeptWhenStill
<1>3. ASSUME Rotate PROVE \A r \in Requests : Keeps(r)
  <2>1. UNCHANGED <<calls, pc, th>>
    BY <1>3 DEF Rotate, Recording, store
  <2> QED
    BY <2>1, KeptWhenStill
<1>4. ASSUME NEW t \in Threads, Boot(t) PROVE \A r \in Requests : Keeps(r)
  BY <1>4 DEF Boot
<1>5. ASSUME NEW t \in Threads, Get(t) PROVE \A r \in Requests : Keeps(r)
  <2>1. Alone(t) /\ pc[t] \notin {"calls sorted", "ingest", "record"}
    BY <1>5, GetDoes
  <2>2. calls' = calls
    BY <1>5 DEF Get, store
  <2> QED
    BY <2>1, <2>2, KeptByOthers
<1>6. ASSUME NEW t \in Threads, Look(t) PROVE \A r \in Requests : Keeps(r)
  <2>1. Alone(t) /\ pc[t] \notin {"calls sorted", "ingest", "record"}
    BY <1>6, LookDoes
  <2>2. calls' = calls
    BY <1>6 DEF Look, store
  <2> QED
    BY <2>1, <2>2, KeptByOthers
<1>7. ASSUME NEW t \in Threads, Read(t) PROVE \A r \in Requests : Keeps(r)
  <2>1. Alone(t) /\ pc[t] \notin {"calls sorted", "ingest", "record"}
    BY <1>7, ReadDoes
  <2>2. calls' = calls
    BY <1>7 DEF Read, store
  <2> QED
    BY <2>1, <2>2, KeptByOthers
<1>8. ASSUME NEW t \in Threads, SetOffset(t) PROVE \A r \in Requests : Keeps(r)
  <2>1. Alone(t) /\ pc[t] \notin {"calls sorted", "ingest", "record"}
    BY <1>8, SetOffsetDoes
  <2>2. calls' = calls
    BY <1>8 DEF SetOffset, store
  <2> QED
    BY <2>1, <2>2, KeptByOthers
<1>9. ASSUME NEW t \in Threads, Ingest(t) PROVE \A r \in Requests : Keeps(r)
  <2>h. PICK h : h = Head(th[t].todo)
    OBVIOUS
  <2>1. Alone(t) /\ pc[t] = "ingest" /\ calls' = calls
    BY <1>9, IngestDoes DEF Ingest
  <2>2. pc'[t] # "calls sorted"
    BY <1>9, IngestDoes DEF Stands
  <2>3. \A r \in Requests : Listed(r) => Listed(r)'
    BY <2>1, ListedIs DEF Alone, Others
  <2>4. CASE h \in Requests \ seen
    <3>1. pc'[t] = "record" /\ th'[t].todo = th[t].todo
      BY <1>9, <2>h, <2>4, IngestDoes DEF Stands
    <3>2. \A r \in Requests : With(r) => With(r)'
      BY <2>1, <3>1 DEF With, Alone, Others
    <3> QED
      BY <2>3, <3>2 DEF Keeps
  <2>5. CASE h \notin Requests \ seen
    <3>1. /\ th'[t].todo = Tail(th[t].todo)
          /\ pc'[t] = IF Tail(th[t].todo) = << >> THEN "sort calls" ELSE "ingest"
      BY <1>9, <2>h, <2>5, IngestDoes DEF Stands
    <3>2. \A r \in Requests : r = Head(th[t].todo) => Listed(r)'
      BY <2>3, <2>5, <2>h, SpoiledStays DEF Taken
    <3> QED
      BY <2>1, <2>3, <3>1, <3>2, KeptByTaker
  <2> QED
    BY <2>4, <2>5
<1>10. ASSUME NEW t \in Threads, Record(t) PROVE \A r \in Requests : Keeps(r)
  <2>h. PICK h : h = Head(th[t].todo)
    OBVIOUS
  <2>1. Alone(t) /\ pc[t] = "record" /\ h \in Requests
    BY <1>10, <2>h, RecordDoes DEF TypeOK
  <2>2. calls' = Added(calls, [calls.items EXCEPT ![h] = calls.items[h] + 1])
    BY <1>10, <2>h DEF Record
  <2>3. calls.items \in [Requests -> Nat] /\ [calls.items EXCEPT ![h] = calls.items[h] + 1] \in [Requests -> Nat]
    BY <2>1 DEF Typed, CallList
  <2>4. calls'.items = [calls.items EXCEPT ![h] = calls.items[h] + 1]
    <3>1. calls \in CallList
      BY DEF Typed
    <3>2. PICK more : more = [calls.items EXCEPT ![h] = calls.items[h] + 1]
      OBVIOUS
    <3>3. more \in [Requests -> Nat] /\ calls' = Added(calls, more)
      BY <2>2, <2>3, <3>2
    <3>4. calls'.items = more
      BY <3>1, <3>3, Lists, Zenon
    <3> QED
      BY <3>2, <3>4
  <2>5. calls'.items[h] > 0 /\ \A r \in Requests : calls.items[r] > 0 => calls'.items[r] > 0
    BY <2>1, <2>3, <2>4
  <2>6. /\ th'[t].todo = Tail(th[t].todo)
        /\ pc'[t] = IF Tail(th[t].todo) = << >> THEN "sort calls" ELSE "ingest"
    BY <1>10, RecordDoes DEF Stands
  <2>7. \A r \in Requests : (Listed(r) => Listed(r)') /\ (r = Head(th[t].todo) => Listed(r)')
    BY <2>1, <2>5, <2>h, ListedIs DEF Alone, Others
  <2> QED
    BY <2>1, <2>6, <2>7, KeptByTaker
<1>11. ASSUME NEW t \in Threads, SortCalls(t) PROVE \A r \in Requests : Keeps(r)
  <2>1. Alone(t) /\ pc[t] = "sort calls"
    BY <1>11, SortCallsDoes
  <2>2. CASE calls.items = NoCalls.items
    <3>1. calls' = calls
      BY <1>11, <2>2 DEF SortCalls
    <3> QED
      BY <2>1, <3>1, KeptByOthers
  <2>3. CASE calls.items # NoCalls.items
    <3>1. pc'[t] = "calls sorted" /\ th'[t].kept = calls
      BY <1>11, <2>3, SortCallsDoes DEF SortCalls, Stands
    <3>2. \A r \in Requests : Listed(r) => Listed(r)'
      BY <2>1, <3>1, ListedIs DEF Alone, Others
    <3>3. \A r \in Requests : With(r) => With(r)'
      BY <2>1 DEF With, Alone, Others
    <3> QED
      BY <3>2, <3>3 DEF Keeps
  <2> QED
    BY <2>2, <2>3
<1>12. ASSUME NEW t \in Threads, CallsSorted(t) PROVE \A r \in Requests : Keeps(r)
  <2>1. Alone(t) /\ pc[t] = "calls sorted" /\ calls' = th[t].kept
    BY <1>12, CallsSortedDoes DEF CallsSorted
  <2>2. ~calls.allocated
    BY <1>12 DEF CallsSorted, Raises
  <2>3. \A r \in Requests : ~(calls.items[r] > 0)
    <3>1. calls.items = NoCalls.items
      BY <2>2 DEF Taken, Allocated
    <3>2. \A r \in Requests : NoCalls.items[r] = 0
      BY DEF NoCalls
    <3> QED
      BY <3>1, <3>2
  <2>4. \A r \in Requests : Listed(r) => Listed(r)'
    BY <2>1, <2>3, ListedIs DEF Alone, Others
  <2>5. \A r \in Requests : With(r) => With(r)'
    BY <2>1 DEF With, Alone, Others
  <2> QED
    BY <2>4, <2>5 DEF Keeps
<1>13. ASSUME NEW t \in Threads, SortLimits(t) PROVE \A r \in Requests : Keeps(r)
  <2>1. Alone(t) /\ pc[t] \notin {"calls sorted", "ingest", "record"}
    BY <1>13, SortLimitsDoes
  <2>2. calls' = calls
    BY <1>13 DEF SortLimits, store
  <2> QED
    BY <2>1, <2>2, KeptByOthers
<1>14. ASSUME NEW t \in Threads, LimitsSorted(t) PROVE \A r \in Requests : Keeps(r)
  <2>1. Alone(t) /\ pc[t] \notin {"calls sorted", "ingest", "record"}
    BY <1>14, LimitsSortedDoes
  <2>2. calls' = calls
    BY <1>14 DEF LimitsSorted, store
  <2> QED
    BY <2>1, <2>2, KeptByOthers
<1>15. ASSUME NEW t \in Threads, Dump(t) PROVE \A r \in Requests : Keeps(r)
  <2>1. Alone(t) /\ pc[t] \notin {"calls sorted", "ingest", "record"}
    BY <1>15, DumpDoes
  <2>2. calls' = calls
    BY <1>15 DEF Dump, store
  <2> QED
    BY <2>1, <2>2, KeptByOthers
<1>16. ASSUME NEW t \in Threads, Open(t) PROVE \A r \in Requests : Keeps(r)
  <2>1. Alone(t) /\ pc[t] \notin {"calls sorted", "ingest", "record"}
    BY <1>16, OpenDoes
  <2>2. calls' = calls
    BY <1>16 DEF Open, store
  <2> QED
    BY <2>1, <2>2, KeptByOthers
<1>17. ASSUME NEW t \in Threads, Write(t) PROVE \A r \in Requests : Keeps(r)
  <2>1. Alone(t) /\ pc[t] \notin {"calls sorted", "ingest", "record"}
    BY <1>17, WriteDoes
  <2>2. calls' = calls
    BY <1>17 DEF Write, store
  <2> QED
    BY <2>1, <2>2, KeptByOthers
<1>18. ASSUME NEW s \in Sessions, Use(s) PROVE \A r \in Requests : Keeps(r)
  <2>1. UNCHANGED <<calls, pc, th>>
    BY <1>18 DEF Use, Metering, store
  <2> QED
    BY <2>1, KeptWhenStill
<1>19. ASSUME NEW s \in Sessions, Export(s) PROVE \A r \in Requests : Keeps(r)
  <2>1. UNCHANGED <<calls, pc, th>>
    BY <1>19 DEF Export, Metering, store
  <2> QED
    BY <2>1, KeptWhenStill
<1>20. ASSUME NEW p \in posts, Lose(p) PROVE \A r \in Requests : Keeps(r)
  <2>1. UNCHANGED <<calls, pc, th>>
    BY <1>20 DEF Lose, Metering, store
  <2> QED
    BY <2>1, KeptWhenStill
<1>21. ASSUME NEW p \in posts, IngestPost(p) PROVE \A r \in Requests : Keeps(r)
  <2>1. UNCHANGED <<calls, pc, th>>
    BY <1>21 DEF IngestPost, Metering, store
  <2> QED
    BY <2>1, KeptWhenStill
<1>22. ASSUME Crash PROVE \A r \in Requests : Keeps(r)
  BY <1>22 DEF Crash
<1>23. ASSUME UNCHANGED vars PROVE \A r \in Requests : Keeps(r)
  <2>1. UNCHANGED <<calls, pc, th>>
    BY <1>23 DEF vars, store
  <2> QED
    BY <2>1, KeptWhenStill
<1> QED
  BY <1>1, <1>2, <1>3, <1>4, <1>5, <1>6, <1>7, <1>8, <1>9, <1>10, <1>11, <1>12, <1>13, <1>14, <1>15, <1>16, <1>17, <1>18, <1>19, <1>20, <1>21, <1>22, <1>23, Zenon DEF Next, Thread

LEMMA AllocatedStays ==
  ASSUME Allocated, NEW t \in Threads, Alone(t), pc'[t] # "calls sorted", calls' = calls
  PROVE  Allocated'
  BY DEF Allocated, Alone, Others

\* A list that is not allocated stays empty.
LEMMA AllocatedStep ==
  ASSUME TypeOK, Typed, Allocated, [Next]_vars
  PROVE  Allocated'
<1>1. ASSUME NEW line \in Requests \cup {Limit}, WriteLine(line) PROVE Allocated'
  BY <1>1 DEF WriteLine, Recording, store, Allocated
<1>2. ASSUME WriteRest PROVE Allocated'
  BY <1>2 DEF WriteRest, Recording, store, Allocated
<1>3. ASSUME Rotate PROVE Allocated'
  BY <1>3 DEF Rotate, Recording, store, Allocated
<1>4. ASSUME NEW t \in Threads, Boot(t) PROVE Allocated'
  <2>1. Alone(t) /\ pc'[t] = "look"
    BY <1>4, BootDoes DEF Stands, Rests
  <2>2. CASE Loadable
    <3>1. cache \in Saved
      BY <2>2 DEF Typed
    <3>2. cache.calls \in [Requests -> Nat] /\ calls' = [NoCalls EXCEPT !.items = cache.calls]
      BY <1>4, <2>2, <3>1 DEF Boot, Saved
    <3>3. calls'.allocated
      BY <3>2, Lists, Zenon
    <3> QED
      BY <2>1, <3>3 DEF Allocated, Alone, Others
  <2>3. CASE ~Loadable
    <3>1. calls' = calls
      BY <1>4, <2>3 DEF Boot, store
    <3> QED
      BY <2>1, <3>1, AllocatedStays
  <2> QED
    BY <2>2, <2>3
<1>5. ASSUME NEW t \in Threads, Get(t) PROVE Allocated'
  <2>1. Alone(t) /\ pc'[t] # "calls sorted"
    BY <1>5, GetDoes DEF Stands, Rests, Left
  <2>2. calls' = calls
    BY <1>5 DEF Get, store
  <2> QED
    BY <2>1, <2>2, AllocatedStays
<1>6. ASSUME NEW t \in Threads, Look(t) PROVE Allocated'
  <2>1. Alone(t) /\ pc'[t] # "calls sorted"
    BY <1>6, LookDoes DEF Stands, Rests, Left
  <2>2. calls' = calls
    BY <1>6 DEF Look, store
  <2> QED
    BY <2>1, <2>2, AllocatedStays
<1>7. ASSUME NEW t \in Threads, Read(t) PROVE Allocated'
  <2>1. Alone(t) /\ pc'[t] # "calls sorted"
    BY <1>7, ReadDoes DEF Stands, Rests, Left
  <2>2. calls' = calls
    BY <1>7 DEF Read, store
  <2> QED
    BY <2>1, <2>2, AllocatedStays
<1>8. ASSUME NEW t \in Threads, SetOffset(t) PROVE Allocated'
  <2>1. Alone(t) /\ pc'[t] # "calls sorted"
    BY <1>8, SetOffsetDoes DEF Stands, Rests, Left
  <2>2. calls' = calls
    BY <1>8 DEF SetOffset, store
  <2> QED
    BY <2>1, <2>2, AllocatedStays
<1>9. ASSUME NEW t \in Threads, Ingest(t) PROVE Allocated'
  <2>1. Alone(t) /\ pc'[t] # "calls sorted"
    BY <1>9, IngestDoes DEF Stands, Rests, Left
  <2>2. calls' = calls
    BY <1>9 DEF Ingest, store
  <2> QED
    BY <2>1, <2>2, AllocatedStays
<1>10. ASSUME NEW t \in Threads, Record(t) PROVE Allocated'
  <2>1. Alone(t) /\ pc'[t] # "calls sorted"
    BY <1>10, RecordDoes DEF Stands
  <2>2. calls'.allocated
    <3>1. PICK more : more = [calls.items EXCEPT ![Head(th[t].todo)] = calls.items[Head(th[t].todo)] + 1]
      OBVIOUS
    <3>2. Head(th[t].todo) \in Requests /\ calls \in CallList
      BY <1>10 DEF Record, TypeOK, Typed
    <3>3. more \in [Requests -> Nat]
      BY <3>1, <3>2 DEF CallList
    <3>4. calls' = Added(calls, more)
      BY <1>10, <3>1 DEF Record
    <3> QED
      BY <3>2, <3>3, <3>4, Lists, Zenon
  <2> QED
    BY <2>1, <2>2 DEF Allocated, Alone, Others
<1>11. ASSUME NEW t \in Threads, SortCalls(t) PROVE Allocated'
  <2>1. Alone(t)
    BY <1>11, SortCallsDoes
  <2>2. CASE calls.items = NoCalls.items
    <3>1. calls' = calls /\ pc'[t] # "calls sorted"
      BY <1>11, <2>2, SortCallsDoes DEF SortCalls, Stands
    <3> QED
      BY <2>1, <3>1, AllocatedStays
  <2>3. CASE calls.items # NoCalls.items
    <3>1. th'[t].kept = calls /\ calls' = [NoCalls EXCEPT !.allocated = FALSE]
      BY <1>11, <2>3, SortCallsDoes DEF SortCalls, Stands
    <3>2. calls'.items = NoCalls.items
      BY <3>1, Lists
    <3> QED
      BY <2>1, <2>3, <3>1, <3>2 DEF Allocated, Alone, Others
  <2> QED
    BY <2>2, <2>3
<1>12. ASSUME NEW t \in Threads, CallsSorted(t) PROVE Allocated'
  <2>1. Alone(t) /\ pc[t] = "calls sorted" /\ pc'[t] # "calls sorted"
    BY <1>12, CallsSortedDoes DEF Stands, Rests
  <2>2. calls' = th[t].kept
    BY <1>12 DEF CallsSorted
  <2> QED
    BY <2>1, <2>2 DEF Allocated, Alone, Others
<1>13. ASSUME NEW t \in Threads, SortLimits(t) PROVE Allocated'
  <2>1. Alone(t) /\ pc'[t] # "calls sorted"
    BY <1>13, SortLimitsDoes DEF Stands, Rests, Left
  <2>2. calls' = calls
    BY <1>13 DEF SortLimits, store
  <2> QED
    BY <2>1, <2>2, AllocatedStays
<1>14. ASSUME NEW t \in Threads, LimitsSorted(t) PROVE Allocated'
  <2>1. Alone(t) /\ pc'[t] # "calls sorted"
    BY <1>14, LimitsSortedDoes DEF Stands, Rests, Left
  <2>2. calls' = calls
    BY <1>14 DEF LimitsSorted, store
  <2> QED
    BY <2>1, <2>2, AllocatedStays
<1>15. ASSUME NEW t \in Threads, Dump(t) PROVE Allocated'
  <2>1. Alone(t) /\ pc'[t] # "calls sorted"
    BY <1>15, DumpDoes DEF Stands, Rests, Left
  <2>2. calls' = calls
    BY <1>15 DEF Dump, store
  <2> QED
    BY <2>1, <2>2, AllocatedStays
<1>16. ASSUME NEW t \in Threads, Open(t) PROVE Allocated'
  <2>1. Alone(t) /\ pc'[t] # "calls sorted"
    BY <1>16, OpenDoes DEF Stands, Rests, Left
  <2>2. calls' = calls
    BY <1>16 DEF Open, store
  <2> QED
    BY <2>1, <2>2, AllocatedStays
<1>17. ASSUME NEW t \in Threads, Write(t) PROVE Allocated'
  <2>1. Alone(t) /\ pc'[t] # "calls sorted"
    BY <1>17, WriteDoes DEF Stands, Rests, Left
  <2>2. calls' = calls
    BY <1>17 DEF Write, store
  <2> QED
    BY <2>1, <2>2, AllocatedStays
<1>18. ASSUME NEW s \in Sessions, Use(s) PROVE Allocated'
  BY <1>18 DEF Use, Metering, store, Allocated
<1>19. ASSUME NEW s \in Sessions, Export(s) PROVE Allocated'
  BY <1>19 DEF Export, Metering, store, Allocated
<1>20. ASSUME NEW p \in posts, Lose(p) PROVE Allocated'
  BY <1>20 DEF Lose, Metering, store, Allocated
<1>21. ASSUME NEW p \in posts, IngestPost(p) PROVE Allocated'
  BY <1>21 DEF IngestPost, Metering, store, Allocated
<1>22. ASSUME Crash PROVE Allocated'
  <2>1. calls' = NoCalls /\ \A u \in Threads : pc'[u] = "idle"
    BY <1>22 DEF Crash
  <2> QED
    BY <2>1 DEF Allocated
<1>23. ASSUME UNCHANGED vars PROVE Allocated'
  BY <1>23 DEF vars, store, Allocated
<1> QED
  BY <1>1, <1>2, <1>3, <1>4, <1>5, <1>6, <1>7, <1>8, <1>9, <1>10, <1>11, <1>12, <1>13, <1>14, <1>15, <1>16, <1>17, <1>18, <1>19, <1>20, <1>21, <1>22, <1>23, Zenon DEF Next, Thread

\* A server comes up by booting.
LEMMA OnlyBootStarts ==
  ASSUME Typed, up = "down", up' # "down", [Next]_vars
  PROVE  \E u \in Threads : Boot(u)
<1>1. ASSUME NEW line \in Requests \cup {Limit}, WriteLine(line) PROVE \E u \in Threads : Boot(u)
  BY <1>1 DEF WriteLine, Recording
<1>2. ASSUME WriteRest PROVE \E u \in Threads : Boot(u)
  BY <1>2 DEF WriteRest, Recording
<1>3. ASSUME Rotate PROVE \E u \in Threads : Boot(u)
  BY <1>3 DEF Rotate, Recording
<1>4. ASSUME NEW t \in Threads, Boot(t) PROVE \E u \in Threads : Boot(u)
  BY <1>4
<1>5. ASSUME NEW t \in Threads, Get(t) PROVE \E u \in Threads : Boot(u)
  BY <1>5 DEF Get
<1>6. ASSUME NEW t \in Threads, Look(t) PROVE \E u \in Threads : Boot(u)
  BY <1>6 DEF Look, Typed
<1>7. ASSUME NEW t \in Threads, Read(t) PROVE \E u \in Threads : Boot(u)
  BY <1>7 DEF Read, Typed
<1>8. ASSUME NEW t \in Threads, SetOffset(t) PROVE \E u \in Threads : Boot(u)
  BY <1>8 DEF SetOffset, Typed
<1>9. ASSUME NEW t \in Threads, Ingest(t) PROVE \E u \in Threads : Boot(u)
  BY <1>9 DEF Ingest, Typed
<1>10. ASSUME NEW t \in Threads, Record(t) PROVE \E u \in Threads : Boot(u)
  BY <1>10 DEF Record, Typed
<1>11. ASSUME NEW t \in Threads, SortCalls(t) PROVE \E u \in Threads : Boot(u)
  BY <1>11 DEF SortCalls, Typed
<1>12. ASSUME NEW t \in Threads, CallsSorted(t) PROVE \E u \in Threads : Boot(u)
  BY <1>12 DEF CallsSorted, Typed
<1>13. ASSUME NEW t \in Threads, SortLimits(t) PROVE \E u \in Threads : Boot(u)
  BY <1>13 DEF SortLimits, Typed
<1>14. ASSUME NEW t \in Threads, LimitsSorted(t) PROVE \E u \in Threads : Boot(u)
  BY <1>14 DEF LimitsSorted, Typed
<1>15. ASSUME NEW t \in Threads, Dump(t) PROVE \E u \in Threads : Boot(u)
  BY <1>15 DEF Dump, Typed
<1>16. ASSUME NEW t \in Threads, Open(t) PROVE \E u \in Threads : Boot(u)
  BY <1>16 DEF Open, Typed
<1>17. ASSUME NEW t \in Threads, Write(t) PROVE \E u \in Threads : Boot(u)
  BY <1>17 DEF Write, Typed
<1>18. ASSUME NEW s \in Sessions, Use(s) PROVE \E u \in Threads : Boot(u)
  BY <1>18 DEF Use, Metering
<1>19. ASSUME NEW s \in Sessions, Export(s) PROVE \E u \in Threads : Boot(u)
  BY <1>19 DEF Export, Metering
<1>20. ASSUME NEW p \in posts, Lose(p) PROVE \E u \in Threads : Boot(u)
  BY <1>20 DEF Lose, Metering
<1>21. ASSUME NEW p \in posts, IngestPost(p) PROVE \E u \in Threads : Boot(u)
  BY <1>21 DEF IngestPost, Metering
<1>22. ASSUME Crash PROVE \E u \in Threads : Boot(u)
  BY <1>22 DEF Crash
<1>23. ASSUME UNCHANGED vars PROVE \E u \in Threads : Boot(u)
  BY <1>23 DEF vars
<1> QED
  BY <1>1, <1>2, <1>3, <1>4, <1>5, <1>6, <1>7, <1>8, <1>9, <1>10, <1>11, <1>12, <1>13, <1>14, <1>15, <1>16, <1>17, <1>18, <1>19, <1>20, <1>21, <1>22, <1>23, Zenon DEF Next, Thread

\* What a running server has newly seen is listed.
LEMMA SeenGrows ==
  ASSUME TypeOK, Typed, up # "down", [Next]_vars
  PROVE  \A r \in seen' : r \in seen \/ Listed(r)'
<1>1. ASSUME NEW line \in Requests \cup {Limit}, WriteLine(line) PROVE \A r \in seen' : r \in seen \/ Listed(r)'
  BY <1>1 DEF WriteLine, Recording, store
<1>2. ASSUME WriteRest PROVE \A r \in seen' : r \in seen \/ Listed(r)'
  BY <1>2 DEF WriteRest, Recording, store
<1>3. ASSUME Rotate PROVE \A r \in seen' : r \in seen \/ Listed(r)'
  BY <1>3 DEF Rotate, Recording, store
<1>4. ASSUME NEW t \in Threads, Boot(t) PROVE \A r \in seen' : r \in seen \/ Listed(r)'
  BY <1>4 DEF Boot
<1>5. ASSUME NEW t \in Threads, Get(t) PROVE \A r \in seen' : r \in seen \/ Listed(r)'
  BY <1>5 DEF Get, store
<1>6. ASSUME NEW t \in Threads, Look(t) PROVE \A r \in seen' : r \in seen \/ Listed(r)'
  BY <1>6 DEF Look, store
<1>7. ASSUME NEW t \in Threads, Read(t) PROVE \A r \in seen' : r \in seen \/ Listed(r)'
  BY <1>7 DEF Read, store
<1>8. ASSUME NEW t \in Threads, SetOffset(t) PROVE \A r \in seen' : r \in seen \/ Listed(r)'
  BY <1>8 DEF SetOffset, store
<1>9. ASSUME NEW t \in Threads, Ingest(t) PROVE \A r \in seen' : r \in seen \/ Listed(r)'
  BY <1>9 DEF Ingest, store
<1>10. ASSUME NEW t \in Threads, Record(t) PROVE \A r \in seen' : r \in seen \/ Listed(r)'
  <2>h. PICK h : h = Head(th[t].todo)
    OBVIOUS
  <2>1. seen' = seen \cup {h} /\ calls' = Added(calls, [calls.items EXCEPT ![h] = calls.items[h] + 1])
    BY <1>10, <2>h DEF Record
  <2>2. h \in Requests /\ calls \in CallList
    BY <1>10, <2>h DEF Record, TypeOK, Typed
  <2>3. PICK more : more = [calls.items EXCEPT ![h] = calls.items[h] + 1]
    OBVIOUS
  <2>4. more \in [Requests -> Nat] /\ more[h] > 0
    BY <2>2, <2>3 DEF CallList
  <2>5. calls' = Added(calls, more)
    BY <2>1, <2>3
  <2>6. calls'.items = more
    BY <2>2, <2>4, <2>5, Lists, Zenon
  <2> QED
    BY <2>1, <2>4, <2>6, ListedIs
<1>11. ASSUME NEW t \in Threads, SortCalls(t) PROVE \A r \in seen' : r \in seen \/ Listed(r)'
  BY <1>11 DEF SortCalls, store
<1>12. ASSUME NEW t \in Threads, CallsSorted(t) PROVE \A r \in seen' : r \in seen \/ Listed(r)'
  BY <1>12 DEF CallsSorted, store
<1>13. ASSUME NEW t \in Threads, SortLimits(t) PROVE \A r \in seen' : r \in seen \/ Listed(r)'
  BY <1>13 DEF SortLimits, store
<1>14. ASSUME NEW t \in Threads, LimitsSorted(t) PROVE \A r \in seen' : r \in seen \/ Listed(r)'
  BY <1>14 DEF LimitsSorted, store
<1>15. ASSUME NEW t \in Threads, Dump(t) PROVE \A r \in seen' : r \in seen \/ Listed(r)'
  BY <1>15 DEF Dump, store
<1>16. ASSUME NEW t \in Threads, Open(t) PROVE \A r \in seen' : r \in seen \/ Listed(r)'
  BY <1>16 DEF Open, store
<1>17. ASSUME NEW t \in Threads, Write(t) PROVE \A r \in seen' : r \in seen \/ Listed(r)'
  BY <1>17 DEF Write, store
<1>18. ASSUME NEW s \in Sessions, Use(s) PROVE \A r \in seen' : r \in seen \/ Listed(r)'
  BY <1>18 DEF Use, Metering, store
<1>19. ASSUME NEW s \in Sessions, Export(s) PROVE \A r \in seen' : r \in seen \/ Listed(r)'
  BY <1>19 DEF Export, Metering, store
<1>20. ASSUME NEW p \in posts, Lose(p) PROVE \A r \in seen' : r \in seen \/ Listed(r)'
  BY <1>20 DEF Lose, Metering, store
<1>21. ASSUME NEW p \in posts, IngestPost(p) PROVE \A r \in seen' : r \in seen \/ Listed(r)'
  BY <1>21 DEF IngestPost, Metering, store
<1>22. ASSUME Crash PROVE \A r \in seen' : r \in seen \/ Listed(r)'
  BY <1>22 DEF Crash, store
<1>23. ASSUME UNCHANGED vars PROVE \A r \in seen' : r \in seen \/ Listed(r)'
  BY <1>23 DEF vars, store
<1> QED
  BY <1>1, <1>2, <1>3, <1>4, <1>5, <1>6, <1>7, <1>8, <1>9, <1>10, <1>11, <1>12, <1>13, <1>14, <1>15, <1>16, <1>17, <1>18, <1>19, <1>20, <1>21, <1>22, <1>23, Zenon DEF Next, Thread

\* What is loaded is listed, and has every request up to the offset that is loaded.
LEMMA Boots ==
  ASSUME TypeOK, Typed, Dumped, NEW t \in Threads, Boot(t), ~spoiled
  PROVE  /\ \A r \in seen' : Listed(r)'
         /\ rotations = 0 => \A r \in RequestsTo(offset') : Listed(r)'
         /\ \A u \in Threads : pc'[u] \notin {"read", "offset"}
<1>1. Alone(t) /\ pc'[t] = "look" /\ up = "down"
  BY BootDoes DEF Boot, Stands, Rests
<1>2. \A u \in Threads : pc'[u] \notin {"read", "offset"}
  BY <1>1 DEF Typed, Alone, Others
<1>3. CASE Loadable
  <2>1. cache \in Saved /\ cache \in Dumps
    BY <1>3 DEF Typed, Dumps
  <2>2. /\ cache.calls \in [Requests -> Nat] /\ calls' = [NoCalls EXCEPT !.items = cache.calls]
        /\ seen' = {r \in Requests : cache.calls[r] > 0} /\ offset' = cache.offset
    BY <1>3, <2>1 DEF Boot, Saved
  <2>3. calls'.items = cache.calls
    BY <2>2, Lists, Zenon
  <2>4. \A r \in Requests : cache.calls[r] > 0 => Listed(r)'
    BY <2>3, ListedIs
  <2>5. rotations = 0 => \A r \in RequestsTo(cache.offset) : cache.calls[r] > 0
    BY <2>1 DEF Dumped
  <2>6. \A r \in RequestsTo(cache.offset) : r \in Requests
    BY DEF RequestsTo
  <2> QED
    BY <1>2, <2>2, <2>4, <2>5, <2>6
<1>4. CASE ~Loadable
  <2>1. offset' = 0 /\ seen' = {}
    BY <1>1, <1>4 DEF Boot, store, Typed
  <2>2. RequestsTo(0) = {}
    <3>1. \A i \in DOMAIN file : i \in Nat /\ i # 0
      BY DEF Typed
    <3>2. \A i \in DOMAIN file : ~(2 * i <= 0)
      BY <3>1
    <3> QED
      BY <3>2 DEF RequestsTo
  <2> QED
    BY <1>2, <2>1, <2>2
<1> QED
  BY <1>3, <1>4

\* The requests of the whole lines up to p, after a step.
NextRequestsTo(p) == {file'[i] : i \in {i \in DOMAIN file' \ halved' : 2 * i <= p}} \cap Requests

LEMMA RequestsStay ==
  ASSUME TypeOK, Typed, [Next]_vars, rotations' = 0
  PROVE  \A p \in Nat : p <= Size => NextRequestsTo(p) \subseteq RequestsTo(p)
<1> SUFFICES ASSUME NEW p \in Nat, p <= Size, NEW i \in DOMAIN file' \ halved', 2 * i <= p
             PROVE  i \in DOMAIN file \ halved /\ file'[i] = file[i]
  BY DEF NextRequestsTo, RequestsTo
<1>1. file \in Seq(Lines) /\ file' \in Seq(Lines)
  BY DiskStep DEF Typed
<1>2. i \in Nat /\ i >= 1
  BY <1>1
<1>3. i <= Len(file)
  BY <1>2, Sizes
<1>4. i \in DOMAIN file
  BY <1>1, <1>2, <1>3
<1> QED
  BY <1>2, <1>3, <1>4, FileGrows

\* The server runs on, unspoiled and on the same file.
Running == up # "down" /\ up' # "down" /\ ~spoiled' /\ rotations' = 0

LEMMA StillHeld ==
  ASSUME TypeOK, Typed, Taken, [Next]_vars, Running
  PROVE  /\ \A r \in Requests : Held(r) => Held(r)'
         /\ \A p \in Nat : p <= Size /\ (\A r \in RequestsTo(p) : Held(r)) => \A r \in NextRequestsTo(p) : Held(r)'
<1>1. \A r \in Requests : Held(r) => Held(r)'
  BY HeldStep DEF Keeps, Held, Running
<1>2. \A p : NextRequestsTo(p) \subseteq Requests
  BY DEF NextRequestsTo
<1>3. \A p \in Nat : p <= Size => NextRequestsTo(p) \subseteq RequestsTo(p)
  BY RequestsStay DEF Running
<1> QED
  BY <1>1, <1>2, <1>3

\* What Taken says of the thread u after a step.
NextTaken(u) ==
  /\ pc'[u] = "read" => \A r \in NextRequestsTo(th'[u].start) : Held(r)'
  /\ pc'[u] = "offset" => \A r \in NextRequestsTo(th'[u].end) : Held(r)' \/ Contains(th'[u].todo, r)

\* Before the step it holds.
LEMMA TakenNow ==
  ASSUME TypeOK, Typed, Placed, Taken, Running, [Next]_vars
  PROVE  /\ \A r \in RequestsTo(offset) : Held(r)
         /\ \A t \in Threads :
              /\ pc[t] = "read" => \A r \in RequestsTo(th[t].start) : Held(r)
              /\ pc[t] = "offset" => \A r \in RequestsTo(th[t].end) : Held(r) \/ Contains(th[t].todo, r)
         /\ offset \in Nat /\ offset <= Size
         /\ \A t \in Threads : /\ th[t].start \in Nat /\ th[t].start <= Size /\ Place(th[t].start)
                               /\ th[t].end \in Nat /\ th[t].end <= Size
<1>1. up # "down" /\ ~spoiled /\ rotations = 0
  BY SpoiledStays, FileGrows DEF Running
<1>2. offset \in Nat /\ offset <= Size
  BY <1>1, PositionsAre DEF Placed, Place
<1>3. \A t \in Threads : /\ th[t].start \in Nat /\ th[t].start <= Size /\ Place(th[t].start)
                         /\ th[t].end \in Nat /\ th[t].end <= Size
  BY <1>1, HasLocal, PositionsAre DEF Placed, Place
<1> QED
  BY <1>1, <1>2, <1>3 DEF Taken

LEMMA TakenStays ==
  ASSUME TypeOK, Typed, Placed, Taken, Running, [Next]_vars, NEW u \in Threads, pc'[u] = pc[u], th'[u] = th[u]
  PROVE  NextTaken(u)
<1>1. ASSUME pc[u] = "read" PROVE \A r \in NextRequestsTo(th[u].start) : Held(r)'
  BY <1>1, TakenNow, StillHeld
<1>2. ASSUME pc[u] = "offset" PROVE \A r \in NextRequestsTo(th[u].end) : Held(r)' \/ Contains(th[u].todo, r)
  <2> SUFFICES ASSUME NEW r \in NextRequestsTo(th[u].end) PROVE Held(r)' \/ Contains(th[u].todo, r)
    OBVIOUS
  <2>1. r \in RequestsTo(th[u].end) /\ r \in Requests
    BY RequestsStay, TakenNow DEF NextRequestsTo, Running
  <2> QED
    BY <1>2, <2>1, TakenNow, StillHeld
<1> QED
  BY <1>1, <1>2 DEF NextTaken

\* A step of t.
LEMMA TakenBy ==
  ASSUME TypeOK, Typed, Placed, Taken, Running, [Next]_vars, NEW t \in Threads, Alone(t), NextTaken(t)
  PROVE  \A u \in Threads : NextTaken(u)
  BY TakenStays DEF Alone, Others

\* Whole lines that are neither in front of s nor cut at s are among those from s on.
LEMMA FromThere ==
  ASSUME TypeOK, Typed, NEW s \in Nat, s <= Size, Place(s), NEW i \in DOMAIN file \ halved, 2 * i <= Size, ~(2 * i <= s)
  PROVE  Contains(Whole(s, Size), file[i])
<1> DEFINE w == Whole(s, Size)
           n == Size \div 2
           m == (s + 1) \div 2
<1>1. /\ Len(w) = IF m < n THEN n - m ELSE 0
      /\ \A j \in 1..Len(w) : w[j] = file[n - Len(w) + j]
  BY WholeLines DEF TypeOK, Typed
<1>2. i \in Nat /\ i >= 1 /\ Size \in Nat /\ n \in Nat /\ m \in Nat
  <2>1. i \in Nat /\ i >= 1
    BY DEF Typed
  <2>2. Size \in Nat
    BY SizeIsNat DEF TypeOK, Typed
  <2> QED
    BY <2>1, <2>2
<1>3. i <= n
  BY <1>2
<1>4. m < i
  <2>1. CASE s % 2 = 1
    <3>1. i # m
      BY <2>1 DEF Place
    <3>2. m <= i
      BY <1>2, <2>1
    <3> QED
      BY <1>2, <3>1, <3>2
  <2>2. CASE s % 2 # 1
    BY <1>2, <2>2
  <2> QED
    BY <2>1, <2>2
<1> HIDE DEF w, n, m
<1>5. Len(w) = n - m
  BY <1>1, <1>2, <1>3, <1>4
<1>6. i - m \in 1..Len(w) /\ n - Len(w) + (i - m) = i
  BY <1>2, <1>3, <1>4, <1>5
<1>7. w[i - m] = file[i]
  BY <1>1, <1>6
<1> QED
  BY <1>6, <1>7 DEF Contains, w

\* While the server runs, what is in front of where a thread starts or has read to is held.
LEMMA ThreadsTakenStep ==
  ASSUME TypeOK, Typed, Placed, Taken, Running, [Next]_vars
  PROVE  \A u \in Threads : NextTaken(u)
<1>1. ASSUME NEW line \in Requests \cup {Limit}, WriteLine(line) PROVE \A u \in Threads : NextTaken(u)
  BY <1>1, TakenStays DEF WriteLine, Recording
<1>2. ASSUME WriteRest PROVE \A u \in Threads : NextTaken(u)
  BY <1>2, TakenStays DEF WriteRest, Recording
<1>3. ASSUME Rotate PROVE \A u \in Threads : NextTaken(u)
  BY <1>3, TakenStays DEF Rotate, Recording
<1>4. ASSUME NEW t \in Threads, Boot(t) PROVE \A u \in Threads : NextTaken(u)
  BY <1>4 DEF Boot, Running
<1>5. ASSUME NEW t \in Threads, Get(t) PROVE \A u \in Threads : NextTaken(u)
  <2>1. Alone(t) /\ pc'[t] \notin {"read", "offset"}
    BY <1>5, GetDoes DEF Stands, Rests, Left
  <2> QED
    BY <2>1, TakenBy DEF NextTaken
<1>6. ASSUME NEW t \in Threads, Look(t) PROVE \A u \in Threads : NextTaken(u)
  <2>1. Alone(t)
    BY <1>6, LookDoes
  <2>2. CASE Size = offset
    <3>1. pc'[t] = "sort calls"
      BY <1>6, <2>2, LookDoes DEF Stands
    <3> QED
      BY <2>1, <3>1, TakenBy DEF NextTaken
  <2>3. CASE Size # offset
    <3>1. pc'[t] = "read" /\ th'[t].start = IF Size < offset THEN 0 ELSE offset
      BY <1>6, <2>3, LookDoes DEF Stands
    <3>2. offset \in Nat /\ offset <= Size /\ Size \in Nat
      BY TakenNow, Sizes
    <3>3. th'[t].start = offset
      BY <3>1, <3>2
    <3>4. \A r \in NextRequestsTo(offset) : Held(r)'
      BY TakenNow, StillHeld
    <3>5. NextTaken(t)
      BY <3>1, <3>3, <3>4 DEF NextTaken
    <3> QED
      BY <2>1, <3>5, TakenBy
  <2> QED
    BY <2>2, <2>3
<1>7. ASSUME NEW t \in Threads, Read(t) PROVE \A u \in Threads : NextTaken(u)
  <2>1. Alone(t) /\ pc[t] = "read" /\ Stands(t, "offset", 0, Max({th[t].start, Size}), Whole(th[t].start, Size), NoCalls, << >>)
    BY <1>7, ReadDoes
  <2>s. PICK s : s = th[t].start
    OBVIOUS
  <2>2. s \in Nat /\ s <= Size /\ Size \in Nat /\ Place(s)
    BY <2>s, TakenNow, Sizes
  <2>3. pc'[t] = "offset" /\ th'[t].end = Size /\ th'[t].todo = Whole(s, Size)
    BY <2>1, <2>2, <2>s, MaxOfTwo DEF Stands
  <2>4. \A r \in RequestsTo(s) : Held(r)
    BY <2>1, <2>s, TakenNow
  <2>5. ASSUME NEW r \in RequestsTo(Size) PROVE Held(r) \/ Contains(Whole(s, Size), r)
    <3>1. PICK i \in DOMAIN file \ halved : 2 * i <= Size /\ r = file[i] /\ r \in Requests
      BY DEF RequestsTo
    <3>2. CASE 2 * i <= s
      <4>1. r \in RequestsTo(s)
        BY <3>1, <3>2 DEF RequestsTo
      <4> QED
        BY <2>4, <4>1
    <3>3. CASE ~(2 * i <= s)
      BY <2>2, <3>1, <3>3, FromThere
    <3> QED
      BY <3>2, <3>3
  <2>6. \A r \in NextRequestsTo(Size) : Held(r)' \/ Contains(Whole(s, Size), r)
    <3>1. \A r \in NextRequestsTo(Size) : r \in RequestsTo(Size) /\ r \in Requests
      <4>1. Size \in Nat /\ Size <= Size
        BY <2>2
      <4> QED
        BY <4>1, RequestsStay DEF NextRequestsTo, Running
    <3> QED
      BY <2>5, <3>1, StillHeld
  <2>7. NextTaken(t)
    BY <2>3, <2>6 DEF NextTaken
  <2> QED
    BY <2>1, <2>7, TakenBy
<1>8. ASSUME NEW t \in Threads, SetOffset(t) PROVE \A u \in Threads : NextTaken(u)
  <2>1. Alone(t) /\ pc'[t] \notin {"read", "offset"}
    BY <1>8, SetOffsetDoes DEF Stands, Rests, Left
  <2> QED
    BY <2>1, TakenBy DEF NextTaken
<1>9. ASSUME NEW t \in Threads, Ingest(t) PROVE \A u \in Threads : NextTaken(u)
  <2>1. Alone(t) /\ pc'[t] \notin {"read", "offset"}
    BY <1>9, IngestDoes DEF Stands, Rests, Left
  <2> QED
    BY <2>1, TakenBy DEF NextTaken
<1>10. ASSUME NEW t \in Threads, Record(t) PROVE \A u \in Threads : NextTaken(u)
  <2>1. Alone(t) /\ pc'[t] \notin {"read", "offset"}
    BY <1>10, RecordDoes DEF Stands, Rests, Left
  <2> QED
    BY <2>1, TakenBy DEF NextTaken
<1>11. ASSUME NEW t \in Threads, SortCalls(t) PROVE \A u \in Threads : NextTaken(u)
  <2>1. Alone(t) /\ pc'[t] \notin {"read", "offset"}
    BY <1>11, SortCallsDoes DEF Stands, Rests, Left
  <2> QED
    BY <2>1, TakenBy DEF NextTaken
<1>12. ASSUME NEW t \in Threads, CallsSorted(t) PROVE \A u \in Threads : NextTaken(u)
  <2>1. Alone(t) /\ pc'[t] \notin {"read", "offset"}
    BY <1>12, CallsSortedDoes DEF Stands, Rests, Left
  <2> QED
    BY <2>1, TakenBy DEF NextTaken
<1>13. ASSUME NEW t \in Threads, SortLimits(t) PROVE \A u \in Threads : NextTaken(u)
  <2>1. Alone(t) /\ pc'[t] \notin {"read", "offset"}
    BY <1>13, SortLimitsDoes DEF Stands, Rests, Left
  <2> QED
    BY <2>1, TakenBy DEF NextTaken
<1>14. ASSUME NEW t \in Threads, LimitsSorted(t) PROVE \A u \in Threads : NextTaken(u)
  <2>1. Alone(t) /\ pc'[t] \notin {"read", "offset"}
    BY <1>14, LimitsSortedDoes DEF Stands, Rests, Left
  <2> QED
    BY <2>1, TakenBy DEF NextTaken
<1>15. ASSUME NEW t \in Threads, Dump(t) PROVE \A u \in Threads : NextTaken(u)
  <2>1. Alone(t) /\ pc'[t] \notin {"read", "offset"}
    BY <1>15, DumpDoes DEF Stands, Rests, Left
  <2> QED
    BY <2>1, TakenBy DEF NextTaken
<1>16. ASSUME NEW t \in Threads, Open(t) PROVE \A u \in Threads : NextTaken(u)
  <2>1. Alone(t) /\ pc'[t] \notin {"read", "offset"}
    BY <1>16, OpenDoes DEF Stands, Rests, Left
  <2> QED
    BY <2>1, TakenBy DEF NextTaken
<1>17. ASSUME NEW t \in Threads, Write(t) PROVE \A u \in Threads : NextTaken(u)
  <2>1. Alone(t) /\ pc'[t] \notin {"read", "offset"}
    BY <1>17, WriteDoes DEF Stands, Rests, Left
  <2> QED
    BY <2>1, TakenBy DEF NextTaken
<1>18. ASSUME NEW s \in Sessions, Use(s) PROVE \A u \in Threads : NextTaken(u)
  BY <1>18, TakenStays DEF Use, Metering
<1>19. ASSUME NEW s \in Sessions, Export(s) PROVE \A u \in Threads : NextTaken(u)
  BY <1>19, TakenStays DEF Export, Metering
<1>20. ASSUME NEW p \in posts, Lose(p) PROVE \A u \in Threads : NextTaken(u)
  BY <1>20, TakenStays DEF Lose, Metering
<1>21. ASSUME NEW p \in posts, IngestPost(p) PROVE \A u \in Threads : NextTaken(u)
  BY <1>21, TakenStays DEF IngestPost, Metering
<1>22. ASSUME Crash PROVE \A u \in Threads : NextTaken(u)
  BY <1>22 DEF Crash, Running
<1>23. ASSUME UNCHANGED vars PROVE \A u \in Threads : NextTaken(u)
  BY <1>23, TakenStays DEF vars
<1> QED
  BY <1>1, <1>2, <1>3, <1>4, <1>5, <1>6, <1>7, <1>8, <1>9, <1>10, <1>11, <1>12, <1>13, <1>14, <1>15, <1>16, <1>17, <1>18, <1>19, <1>20, <1>21, <1>22, <1>23, Zenon DEF Next, Thread

\* While the server runs, what is in front of the offset is held.
LEMMA OffsetTakenStep ==
  ASSUME TypeOK, Typed, Placed, Taken, Running, [Next]_vars
  PROVE  \A r \in NextRequestsTo(offset') : Held(r)'
<1>1. ASSUME NEW line \in Requests \cup {Limit}, WriteLine(line) PROVE \A r \in NextRequestsTo(offset') : Held(r)'
  <2>1. offset' = offset
    BY <1>1 DEF WriteLine, Recording, store
  <2> QED
    BY <2>1, TakenNow, StillHeld
<1>2. ASSUME WriteRest PROVE \A r \in NextRequestsTo(offset') : Held(r)'
  <2>1. offset' = offset
    BY <1>2 DEF WriteRest, Recording, store
  <2> QED
    BY <2>1, TakenNow, StillHeld
<1>3. ASSUME Rotate PROVE \A r \in NextRequestsTo(offset') : Held(r)'
  <2>1. offset' = offset
    BY <1>3 DEF Rotate, Recording, store
  <2> QED
    BY <2>1, TakenNow, StillHeld
<1>4. ASSUME NEW t \in Threads, Boot(t) PROVE \A r \in NextRequestsTo(offset') : Held(r)'
  BY <1>4 DEF Boot, Running
<1>5. ASSUME NEW t \in Threads, Get(t) PROVE \A r \in NextRequestsTo(offset') : Held(r)'
  <2>1. offset' = offset
    BY <1>5 DEF Get, store
  <2> QED
    BY <2>1, TakenNow, StillHeld
<1>6. ASSUME NEW t \in Threads, Look(t) PROVE \A r \in NextRequestsTo(offset') : Held(r)'
  <2>1. offset' = offset
    BY <1>6 DEF Look, store
  <2> QED
    BY <2>1, TakenNow, StillHeld
<1>7. ASSUME NEW t \in Threads, Read(t) PROVE \A r \in NextRequestsTo(offset') : Held(r)'
  <2>1. offset' = offset
    BY <1>7 DEF Read, store
  <2> QED
    BY <2>1, TakenNow, StillHeld
<1>8. ASSUME NEW t \in Threads, SetOffset(t) PROVE \A r \in NextRequestsTo(offset') : Held(r)'
  <2>p. PICK p : p = th[t].end
    OBVIOUS
  <2>1. pc[t] = "offset" /\ offset' = p
    BY <1>8, <2>p DEF SetOffset
  <2>2. p \in Nat /\ p <= Size /\ \A r \in RequestsTo(p) : Held(r) \/ Contains(th[t].todo, r)
    BY <2>1, <2>p, TakenNow
  <2>3. pc'[t] = (IF th[t].todo = << >> THEN "sort calls" ELSE "ingest") /\ th'[t].todo = th[t].todo
    BY <1>8, SetOffsetDoes DEF Left, Stands
  <2>4. ASSUME NEW r, Contains(th[t].todo, r) PROVE Held(r)'
    <3>1. th[t].todo # << >>
      BY <2>4 DEF Contains
    <3> QED
      BY <2>3, <2>4, <3>1 DEF Held, With
  <2>5. \A r \in NextRequestsTo(p) : r \in RequestsTo(p) /\ r \in Requests
    BY <2>2, RequestsStay DEF NextRequestsTo, Running
  <2> QED
    BY <2>1, <2>2, <2>4, <2>5, StillHeld
<1>9. ASSUME NEW t \in Threads, Ingest(t) PROVE \A r \in NextRequestsTo(offset') : Held(r)'
  <2>1. offset' = offset
    BY <1>9 DEF Ingest, store
  <2> QED
    BY <2>1, TakenNow, StillHeld
<1>10. ASSUME NEW t \in Threads, Record(t) PROVE \A r \in NextRequestsTo(offset') : Held(r)'
  <2>1. offset' = offset
    BY <1>10 DEF Record, store
  <2> QED
    BY <2>1, TakenNow, StillHeld
<1>11. ASSUME NEW t \in Threads, SortCalls(t) PROVE \A r \in NextRequestsTo(offset') : Held(r)'
  <2>1. offset' = offset
    BY <1>11 DEF SortCalls, store
  <2> QED
    BY <2>1, TakenNow, StillHeld
<1>12. ASSUME NEW t \in Threads, CallsSorted(t) PROVE \A r \in NextRequestsTo(offset') : Held(r)'
  <2>1. offset' = offset
    BY <1>12 DEF CallsSorted, store
  <2> QED
    BY <2>1, TakenNow, StillHeld
<1>13. ASSUME NEW t \in Threads, SortLimits(t) PROVE \A r \in NextRequestsTo(offset') : Held(r)'
  <2>1. offset' = offset
    BY <1>13 DEF SortLimits, store
  <2> QED
    BY <2>1, TakenNow, StillHeld
<1>14. ASSUME NEW t \in Threads, LimitsSorted(t) PROVE \A r \in NextRequestsTo(offset') : Held(r)'
  <2>1. offset' = offset
    BY <1>14 DEF LimitsSorted, store
  <2> QED
    BY <2>1, TakenNow, StillHeld
<1>15. ASSUME NEW t \in Threads, Dump(t) PROVE \A r \in NextRequestsTo(offset') : Held(r)'
  <2>1. offset' = offset
    BY <1>15 DEF Dump, store
  <2> QED
    BY <2>1, TakenNow, StillHeld
<1>16. ASSUME NEW t \in Threads, Open(t) PROVE \A r \in NextRequestsTo(offset') : Held(r)'
  <2>1. offset' = offset
    BY <1>16 DEF Open, store
  <2> QED
    BY <2>1, TakenNow, StillHeld
<1>17. ASSUME NEW t \in Threads, Write(t) PROVE \A r \in NextRequestsTo(offset') : Held(r)'
  <2>1. offset' = offset
    BY <1>17 DEF Write, store
  <2> QED
    BY <2>1, TakenNow, StillHeld
<1>18. ASSUME NEW s \in Sessions, Use(s) PROVE \A r \in NextRequestsTo(offset') : Held(r)'
  <2>1. offset' = offset
    BY <1>18 DEF Use, Metering, store
  <2> QED
    BY <2>1, TakenNow, StillHeld
<1>19. ASSUME NEW s \in Sessions, Export(s) PROVE \A r \in NextRequestsTo(offset') : Held(r)'
  <2>1. offset' = offset
    BY <1>19 DEF Export, Metering, store
  <2> QED
    BY <2>1, TakenNow, StillHeld
<1>20. ASSUME NEW p \in posts, Lose(p) PROVE \A r \in NextRequestsTo(offset') : Held(r)'
  <2>1. offset' = offset
    BY <1>20 DEF Lose, Metering, store
  <2> QED
    BY <2>1, TakenNow, StillHeld
<1>21. ASSUME NEW p \in posts, IngestPost(p) PROVE \A r \in NextRequestsTo(offset') : Held(r)'
  <2>1. offset' = offset
    BY <1>21 DEF IngestPost, Metering, store
  <2> QED
    BY <2>1, TakenNow, StillHeld
<1>22. ASSUME Crash PROVE \A r \in NextRequestsTo(offset') : Held(r)'
  BY <1>22 DEF Crash, Running
<1>23. ASSUME UNCHANGED vars PROVE \A r \in NextRequestsTo(offset') : Held(r)'
  <2>1. offset' = offset
    BY <1>23 DEF vars, store
  <2> QED
    BY <2>1, TakenNow, StillHeld
<1> QED
  BY <1>1, <1>2, <1>3, <1>4, <1>5, <1>6, <1>7, <1>8, <1>9, <1>10, <1>11, <1>12, <1>13, <1>14, <1>15, <1>16, <1>17, <1>18, <1>19, <1>20, <1>21, <1>22, <1>23, Zenon DEF Next, Thread

\* Every step keeps what was taken.
LEMMA TakenStep ==
  ASSUME TypeOK, Typed, Placed, Taken, Dumped, [Next]_vars
  PROVE  Taken'
<1>1. Allocated'
  BY AllocatedStep DEF Taken
<1>2. ASSUME ~spoiled', up = "down", up' # "down"
      PROVE  /\ \A r \in seen' : Listed(r)'
             /\ rotations' = 0 => (\A r \in NextRequestsTo(offset') : Held(r)') /\ \A u \in Threads : NextTaken(u)
  <2>1. PICK t \in Threads : Boot(t)
    BY <1>2, OnlyBootStarts
  <2>2. ~spoiled
    BY <1>2, SpoiledStays
  <2>3. /\ \A r \in seen' : Listed(r)'
        /\ rotations = 0 => \A r \in RequestsTo(offset') : Listed(r)'
        /\ \A u \in Threads : pc'[u] \notin {"read", "offset"}
    BY <2>1, <2>2, Boots
  <2>4. ASSUME rotations' = 0 PROVE \A r \in NextRequestsTo(offset') : Held(r)'
    <3>1. rotations = 0 /\ offset' \in Nat /\ offset' <= Size
      BY <2>4, FileGrows, OffsetPlacedStep
    <3>2. NextRequestsTo(offset') \subseteq RequestsTo(offset')
      BY <2>4, <3>1, RequestsStay
    <3> QED
      BY <2>3, <3>1, <3>2 DEF Held
  <2> QED
    BY <2>3, <2>4 DEF NextTaken
<1>3. ASSUME ~spoiled' PROVE \A r \in seen' : Listed(r)'
  <2> SUFFICES ASSUME NEW r \in seen' PROVE Listed(r)'
    OBVIOUS
  <2>1. up' # "down"
    BY DownStep
  <2>2. CASE up = "down"
    BY <1>2, <1>3, <2>1, <2>2
  <2>3. CASE up # "down"
    <3>1. r \in seen \/ Listed(r)'
      BY <2>3, SeenGrows
    <3>2. ASSUME r \in seen PROVE Listed(r)'
      <4>1. Listed(r) /\ r \in Requests
        BY <1>3, <3>2, SpoiledStays DEF Taken, TypeOK
      <4> QED
        BY <1>3, <2>1, <2>3, <4>1, HeldStep DEF Keeps
    <3> QED
      BY <3>1, <3>2
  <2> QED
    BY <2>2, <2>3
<1>4. ASSUME up' # "down", ~spoiled', rotations' = 0
      PROVE  (\A r \in NextRequestsTo(offset') : Held(r)') /\ \A u \in Threads : NextTaken(u)
  <2>1. CASE up = "down"
    BY <1>2, <1>4, <2>1
  <2>2. CASE up # "down"
    <3>1. Running
      BY <1>4, <2>2 DEF Running
    <3> QED
      BY <3>1, OffsetTakenStep, ThreadsTakenStep
  <2> QED
    BY <2>1, <2>2
<1> QED
  BY <1>1, <1>3, <1>4 DEF Taken, NextTaken, NextRequestsTo, RequestsTo

\* What is saved while no other thread is halfway is complete.
LEMMA DumpedStep ==
  ASSUME TypeOK, Typed, Placed, Taken, Dumped, [Next]_vars
  PROVE  Dumped'
<1> SUFFICES ASSUME ~spoiled', rotations' = 0, NEW d \in Dumps', NEW r \in NextRequestsTo(d.offset)
             PROVE  d.calls[r] > 0
  BY DEF Dumped, NextRequestsTo, RequestsTo
<1>1. ~spoiled /\ rotations = 0
  BY SpoiledStays, FileGrows
<1>2. d \in Dumps \/ (d = Memory /\ \E u \in Threads : Dump(u) /\ pc'[u] = "open")
  BY DumpsStep
<1>3. CASE d \in Dumps
  <2>1. d.offset \in Nat /\ d.offset <= Size
    BY <1>1, <1>3, DumpTypes, PositionsAre DEF Placed, Place, Saved
  <2>2. r \in RequestsTo(d.offset)
    BY <2>1, RequestsStay
  <2> QED
    BY <1>1, <1>3, <2>2 DEF Dumped
<1>4. ASSUME d = Memory, NEW t \in Threads, Dump(t), pc'[t] = "open" PROVE d.calls[r] > 0
  <2>1. d.offset = offset /\ d.calls = calls.items
    BY <1>4 DEF Memory
  <2>2. pc[t] = "save" /\ \A u \in Threads \ {t} : ~Halfway(u)
    <3>1. pc[t] = "save"
      BY <1>4 DEF Dump
    <3>2. th[t].new \/ up = "starting"
      BY <1>4, DumpDoes DEF Stands, Rests, Dump, Answers
    <3> QED
      BY <1>4, <3>1, <3>2 DEF Dump
  <2>3. \A u \in Threads : pc[u] \notin {"ingest", "record", "calls sorted"}
    BY <2>2 DEF Halfway
  <2>4. offset \in Nat /\ offset <= Size
    BY <1>1, PositionsAre DEF Placed, Place
  <2>5. r \in RequestsTo(offset)
    BY <2>1, <2>4, RequestsStay
  <2>6. up # "down"
    BY <2>2 DEF Typed
  <2>7. Held(r)
    BY <1>1, <2>5, <2>6 DEF Taken
  <2>8. ~With(r)
    BY <2>3 DEF With
  <2> QED
    BY <2>1, <2>3, <2>7, <2>8, ListedIs DEF Held
<1> QED
  BY <1>2, <1>3, <1>4

\* No request and, without overlap and rotation, no limit is counted twice.
LEMMA IsCountedOnce ==
  ASSUME TypeOK, Typed, Claimed, Placed, LimitsBehind
  PROVE  CountedOnce
  BY ClaimedIsCountedOnce, LimitsAreLines DEF CountedOnce

\* What is taken is counted, or with a thread.
LEMMA TakenIsCounted ==
  ASSUME TypeOK, Typed, Taken
  PROVE  AllCounted
<1> SUFFICES ASSUME up # "down", ~spoiled, rotations = 0,
                    NEW i \in DOMAIN file \ halved, 2 * i <= offset, file[i] \in Requests
             PROVE  \/ \E list \in CallLists : list[file[i]] > 0
                    \/ \E t \in Threads : pc[t] \in {"ingest", "record"} /\ Contains(th[t].todo, file[i])
  BY DEF AllCounted
<1>1. file[i] \in RequestsTo(offset)
  BY DEF RequestsTo
<1>2. Held(file[i])
  BY <1>1 DEF Taken
<1> QED
  BY <1>2 DEF Held, Listed, With

-----------------------------------------------------------------------------
(* The invariant.                                                          *)

LEMMA InitInv == Init => IInv
<1> SUFFICES ASSUME Init PROVE IInv
  OBVIOUS
<1>1. TypeOK
  BY BoundsAssumption DEF Init, TypeOK, Steps
<1>2. Typed
  <2>1. file \in Seq(Lines) /\ partial \in BOOLEAN /\ calls \in CallList /\ limits \in LimitList
    BY NoLines, Lists DEF Init
  <2>2. th = [t \in Threads |-> th[t]] /\ \A t \in Threads : Local(pc[t], th[t])
    <3>1. th = [t \in Threads |-> Idle] /\ pc = [t \in Threads |-> "idle"]
      BY DEF Init
    <3>2. Local("idle", Idle)
      BY IdleVariables, NoLines, PositionsAre DEF Local
    <3> QED
      BY <3>1, <3>2, Zenon
  <2> QED
    BY <2>1, <2>2 DEF Init, Typed, Loadable
<1>3. InTurn /\ \A t \in Threads : pc[t] = "idle" /\ th[t] = Idle
  BY DEF Init, InTurn
<1>4. Dumps = {}
  BY <1>3 DEF Dumps, Init, Loadable
<1>5. Claimed
  <2>1. CallLists = {NoCalls.items}
    BY <1>3 DEF Init, CallLists
  <2>2. \A r \in Requests : NoCalls.items[r] = 0
    BY DEF NoCalls
  <2>3. \A r : Claims(r) = {}
    BY <1>3 DEF Claims
  <2>4. Most = 1 /\ Cardinality({}) = 0
    BY FS_EmptySet DEF Most, Init
  <2>5. \A r : Cardinality(Claims(r)) = 0
    BY <2>3, <2>4
  <2> QED
    BY <1>4, <2>1, <2>2, <2>4, <2>5 DEF Claimed, ListsClaimed
<1>6. Size = 0 /\ offset = 0
  BY DEF Init, Size
<1>7. Placed
  BY <1>3, <1>4, <1>6, IdleVariables DEF Placed, Place
<1>8. LimitsBehind
  <2>1. limits.items = 0 /\ offset \div 2 = 0
    BY Lists, <1>6 DEF Init
  <2>2. LimitsTo(offset \div 2) = 0
    BY <2>1, NoLimitsAtFirst
  <2>3. \A t \in Threads : Behind(t)
    BY <1>3 DEF Behind
  <2>4. limits.items <= LimitsTo(offset \div 2)
    BY <2>1, <2>2
  <2> QED
    BY <1>4, <2>3, <2>4 DEF LimitsBehind
<1>9. Taken
  BY <1>3, Lists DEF Init, Taken, Allocated
<1>10. Dumped
  BY <1>4 DEF Dumped
<1>11. Metered /\ TotalIsCounter
  <2>1. << >> \in Seq(Event)
    OBVIOUS
  <2>2. \A s \in Sessions : counter[s] = 0 /\ last[s] = 0
    BY DEF Init
  <2>3. Metered
    BY <2>1, <2>2 DEF Init, Metered
  <2>4. \A s \in Sessions : Total(s, events) = 0
    BY TotalOfNone DEF Init
  <2> QED
    BY <2>2, <2>3, <2>4 DEF TotalIsCounter
<1> QED
  BY <1>1, <1>2, <1>3, <1>5, <1>7, <1>8, <1>9, <1>10, <1>11, IsCountedOnce, TakenIsCounted DEF IInv

LEMMA NextInv == IInv /\ [Next]_vars => IInv'
<1> SUFFICES ASSUME IInv, [Next]_vars PROVE IInv'
  OBVIOUS
<1>1. TypeOK /\ Typed /\ InTurn /\ Claimed /\ Placed /\ LimitsBehind /\ Taken /\ Dumped /\ Metered /\ TotalIsCounter
  BY DEF IInv
<1>2. TypeOK' /\ Typed' /\ InTurn'
  BY <1>1, TypeStep, TypedStep, InTurnStep
<1>3. Claimed' /\ Placed' /\ LimitsBehind'
  BY <1>1, ClaimedStep, PlacedStep, LimitsBehindStep
<1>4. Taken' /\ Dumped'
  BY <1>1, TakenStep, DumpedStep
<1>5. Metered' /\ TotalIsCounter'
  BY <1>1, MeterStep
<1>6. CountedOnce' /\ AllCounted'
  BY <1>2, <1>3, <1>4, IsCountedOnce, TakenIsCounted, PTL
<1> QED
  BY <1>2, <1>3, <1>4, <1>5, <1>6 DEF IInv

\* All that the properties of the usage server rest on holds in every reachable state.
THEOREM Invariant == Spec => []IInv
<1>1. Init => IInv
  BY InitInv
<1>2. IInv /\ [Next]_vars => IInv'
  BY NextInv
<1> QED
  BY <1>1, <1>2, PTL DEF Spec

\* What the server and its threads keep is of its type, within the bounds.
THEOREM TypeCorrect == Spec => []TypeOK
<1>1. IInv => TypeOK
  BY DEF IInv
<1> QED
  BY <1>1, Invariant, PTL

\* Over kills, rotations and whatever cache is found, _ingest_file counts a
\* request once, and only handlers that overlap may each count it; without
\* overlap and rotation no limit is counted twice.
THEOREM NothingIsCountedTwice == Spec => []CountedOnce
<1>1. IInv => CountedOnce
  BY DEF IInv
<1> QED
  BY <1>1, Invariant, PTL

\* What _refresh has read of the file stays counted, or is with the thread that
\* counts it, unless a line was read in halves, or a sort or a save was disturbed.
THEOREM NothingIsMissed == Spec => []AllCounted
<1>1. IInv => AllCounted
  BY DEF IInv
<1> QED
  BY <1>1, Invariant, PTL

\* The deltas of Telemetry.ingest add up to the counter they came from, unless
\* posts overtook each other or events had to go.
THEOREM TotalsAreCounters == Spec => []TotalIsCounter
<1>1. IInv => TotalIsCounter
  BY DEF IInv
<1> QED
  BY <1>1, Invariant, PTL

=============================================================================
