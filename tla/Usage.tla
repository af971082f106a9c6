-------------------------------- MODULE Usage --------------------------------
(***************************************************************************)
(* The usage dashboard's server (tools/usage_server.py).  It counts what   *)
(* Claude Code used from two sources that share no state: the records      *)
(* sessions append to their files, read in increments by whichever handler *)
(* thread is asked for the page (Store), and the counters that running     *)
(* processes export (Telemetry).  A behaviour exercises one of them.       *)
(*                                                                         *)
(* The handler threads are not synchronised: any of them may stop between  *)
(* any two accesses to what they share.  One session file is modelled; the *)
(* position in it counts half lines, as the writer may be in the middle of *)
(* one.  Times, models and prices of a record are left out, and so is the  *)
(* log of exports, which nothing reads.                                    *)
(***************************************************************************)
EXTENDS Naturals, Sequences, FiniteSets, SequencesExt

CONSTANTS
  Threads, Requests, Sessions,
  Limit,         \* a record that says a limit was hit
  MaxLines,      \* bound: lines of the file
  MaxFaults,     \* bound: kills of the server and rotations of the file
  MaxPolls,      \* bound: times the page is asked for while the server runs
  MaxCount,      \* bound: of a session's counter
  MaxEvents      \* what is kept of the events, 20000 in the code

ASSUME ThreadsAssumption == IsFiniteSet(Threads)
ASSUME LimitAssumption   == Limit \notin Requests
ASSUME BoundsAssumption  == {MaxLines, MaxFaults, MaxPolls, MaxCount, MaxEvents} \subseteq Nat

VARIABLES
  source,    \* "records" or "telemetry"
  up,        \* "down", "starting" or "serving"
  crashes, polls,
  \* the session file
  file,      \* its lines
  partial,   \* the last one is half written
  rotations,
  \* Store
  offset, calls, limits, seen, cache,
  pc, th,    \* the threads' control and local variables
  \* history of the records
  halved,    \* lines of which a read took the first half only
  overlapped, \* two threads were in refresh and save at the same time
  spoiled,   \* a sort found its list changed, or a save saw half the work of another
  \* Telemetry
  counter, posts, last, events,
  overtaken  \* history: sessions of which a smaller value came after a larger one

disk      == <<file, partial, rotations>>
store     == <<offset, calls, limits, seen>>
history   == <<halved, overlapped, spoiled>>
telemetry == <<counter, posts, last, events, overtaken>>
vars      == <<source, up, crashes, polls, disk, store, cache, pc, th, history, telemetry>>

Steps == {"idle", "look", "read", "offset", "ingest", "record", "sort calls", "calls sorted",
          "sort limits", "limits sorted", "save", "open", "write"}

\* A Python list, of which only how often each thing is in it matters.  While
\* list.sort computes its keys the list is empty and not allocated.
NoCalls  == [items |-> [r \in Requests |-> 0], allocated |-> TRUE]
NoLimits == [items |-> 0, allocated |-> TRUE]

Idle == [start |-> 0, end |-> 0, todo |-> << >>, new |-> FALSE, kept |-> NoCalls, dump |-> << >>]

\* The cache: nothing to load, unreadable, or offsets, calls and limits.
Empty == << >>
Torn  == <<"torn">>
Loadable == cache \notin {Empty, Torn}

Size == 2 * Len(file) - (IF partial THEN 1 ELSE 0)

\* The lines of the bytes from s to e that are whole.
Whole(s, e) ==
  LET first == (s + 1) \div 2 + 1
      final == e \div 2
  IN  IF first > final THEN << >> ELSE SubSeq(file, first, final)

Init ==
  /\ source \in {"records", "telemetry"}
  /\ up = "down" /\ crashes = 0 /\ polls = 0
  /\ file = << >> /\ partial = FALSE /\ rotations = 0
  /\ offset = 0 /\ calls = NoCalls /\ limits = NoLimits /\ seen = {} /\ cache = Empty
  /\ pc = [t \in Threads |-> "idle"] /\ th = [t \in Threads |-> Idle]
  /\ halved = {} /\ overlapped = FALSE /\ spoiled = FALSE
  /\ counter = [s \in Sessions |-> 0] /\ posts = {}
  /\ last = [s \in Sessions |-> 0] /\ events = << >> /\ overtaken = {}

-----------------------------------------------------------------------------
(* The sessions that are recorded.                                         *)

Recording == source = "records" /\ UNCHANGED <<source, up, crashes, polls, store, cache, pc, th, history, telemetry>>

\* A line, or the first half of one.
WriteLine(line) ==
  /\ Recording
  /\ ~partial /\ Len(file) < MaxLines
  /\ file' = Append(file, line) /\ partial' \in BOOLEAN
  /\ UNCHANGED rotations

WriteRest ==
  /\ Recording
  /\ partial /\ partial' = FALSE
  /\ UNCHANGED <<file, rotations>>

Rotate ==
  /\ Recording
  /\ file # << >> /\ crashes + rotations < MaxFaults
  /\ rotations' = rotations + 1
  /\ file' = << >> /\ partial' = FALSE

-----------------------------------------------------------------------------
(* Store.                                                                  *)

\* t goes on to `step`, with its local variables changed as `local` says.
Goes(t, step, local) == pc' = [pc EXCEPT ![t] = step] /\ th' = [th EXCEPT ![t] = local]

Storing == UNCHANGED <<source, crashes, polls, disk, telemetry>>

\* do_GET of /api/usage.
Get(t) ==
  /\ source = "records" /\ up = "serving" /\ pc[t] = "idle"
  /\ polls < MaxPolls /\ polls' = polls + 1
  /\ Goes(t, "look", Idle)
  /\ overlapped' = (overlapped \/ \E u \in Threads \ {t} : pc[u] # "idle")
  /\ UNCHANGED <<source, up, crashes, disk, store, cache, halved, spoiled, telemetry>>

\* A file that is shorter than what was read of it has been rotated.
Look(t) ==
  /\ pc[t] = "look"
  /\ IF Size = offset THEN Goes(t, "sort calls", th[t])
     ELSE Goes(t, "read", [th[t] EXCEPT !.start = IF Size < offset THEN 0 ELSE offset])
  /\ UNCHANGED <<up, store, cache, history>> /\ Storing

\* A line of which one half is read cannot be parsed, nor can the other half later.
Read(t) ==
  /\ pc[t] = "read"
  /\ LET end == Max({th[t].start, Size})
     IN  /\ Goes(t, "offset", [Idle EXCEPT !.end = end, !.todo = Whole(th[t].start, Size)])
         /\ halved' = halved \cup (IF end = Size /\ partial THEN {Len(file)} ELSE {})
  /\ UNCHANGED <<up, store, cache, overlapped, spoiled>> /\ Storing

\* t goes on with the lines it has left.
Continues(t, local) == Goes(t, IF local.todo = << >> THEN "sort calls" ELSE "ingest", local)

\* Mutant: what was not read is skipped.
SetOffsetToSize(t) ==
  /\ pc[t] = "offset"
  /\ offset' = Size
  /\ Continues(t, [th[t] EXCEPT !.end = 0])
  /\ UNCHANGED <<up, calls, limits, seen, cache, history>> /\ Storing

SetOffset(t) ==
  /\ pc[t] = "offset"
  /\ offset' = th[t].end
  /\ Continues(t, [th[t] EXCEPT !.end = 0])
  /\ UNCHANGED <<up, calls, limits, seen, cache, history>> /\ Storing

\* list.append.
Added(list, items) == [list EXCEPT !.items = items, !.allocated = TRUE]

Rest(t) == [th[t] EXCEPT !.todo = Tail(@)]

\* The first line that is left: a limit is added, a request looked up.
Ingest(t) ==
  /\ pc[t] = "ingest"
  /\ LET first == Head(th[t].todo)
     IN  IF first \in Requests \ seen
         THEN Goes(t, "record", th[t]) /\ UNCHANGED limits
         ELSE /\ limits' = IF first = Limit THEN Added(limits, limits.items + 1) ELSE limits
              /\ Continues(t, Rest(t))
  /\ UNCHANGED <<up, offset, calls, seen, cache, history>> /\ Storing

\* Mutant: the request is not remembered.
RecordUnseen(t) ==
  /\ pc[t] = "record"
  /\ LET r == Head(th[t].todo)
     IN  calls' = Added(calls, [calls.items EXCEPT ![r] = @ + 1])
  /\ Continues(t, [Rest(t) EXCEPT !.new = TRUE])
  /\ UNCHANGED <<up, offset, limits, seen, cache, history>> /\ Storing

\* The request was not seen when t looked.
Record(t) ==
  /\ pc[t] = "record"
  /\ LET r == Head(th[t].todo)
     IN  /\ seen' = seen \cup {r}
         /\ calls' = Added(calls, [calls.items EXCEPT ![r] = @ + 1])
  /\ Continues(t, [Rest(t) EXCEPT !.new = TRUE])
  /\ UNCHANGED <<up, offset, limits, cache, history>> /\ Storing

\* An exception: the page is not answered.
Raises(t) == Goes(t, "idle", Idle) /\ spoiled' = TRUE

SortCalls(t) ==
  /\ pc[t] = "sort calls"
  /\ IF calls.items = NoCalls.items THEN Goes(t, "sort limits", th[t]) /\ UNCHANGED calls
     ELSE /\ Goes(t, "calls sorted", [th[t] EXCEPT !.kept = calls])
          /\ calls' = [NoCalls EXCEPT !.allocated = FALSE]
  /\ UNCHANGED <<up, offset, limits, seen, cache, history>> /\ Storing

\* The list is put back as it was; "list modified during sort" if it was.
CallsSorted(t) ==
  /\ pc[t] = "calls sorted"
  /\ calls' = th[t].kept
  /\ IF calls.allocated THEN Raises(t)
     ELSE Goes(t, "sort limits", [th[t] EXCEPT !.kept = NoCalls]) /\ UNCHANGED spoiled
  /\ UNCHANGED <<up, offset, limits, seen, cache, halved, overlapped>> /\ Storing

SortLimits(t) ==
  /\ pc[t] = "sort limits"
  /\ IF limits.items = 0 THEN Goes(t, "save", th[t]) /\ UNCHANGED limits
     ELSE /\ Goes(t, "limits sorted", [th[t] EXCEPT !.kept = limits])
          /\ limits' = [NoLimits EXCEPT !.allocated = FALSE]
  /\ UNCHANGED <<up, offset, calls, seen, cache, history>> /\ Storing

LimitsSorted(t) ==
  /\ pc[t] = "limits sorted"
  /\ limits' = th[t].kept
  /\ IF limits.allocated THEN Raises(t)
     ELSE Goes(t, "save", [th[t] EXCEPT !.kept = NoCalls]) /\ UNCHANGED spoiled
  /\ UNCHANGED <<up, offset, calls, seen, cache, halved, overlapped>> /\ Storing

\* The answer is sent, or the server begins to serve.
Answers(t) == Goes(t, "idle", Idle) /\ up' = "serving"

\* u has taken lines from the file that are in no list, or a list from its place.
Halfway(u) == pc[u] \in {"ingest", "record", "calls sorted", "limits sorted"}

\* Store.save: after new calls, and always when the server starts.  First the
\* dump, then opening the file truncates it, then it is written.
Dump(t) ==
  /\ pc[t] = "save"
  /\ IF th[t].new \/ up = "starting"
     THEN /\ Goes(t, "open", [Idle EXCEPT !.dump = [offset |-> offset, calls |-> calls.items, limits |-> limits.items]])
          /\ spoiled' = (spoiled \/ \E u \in Threads \ {t} : Halfway(u))
          /\ UNCHANGED up
     ELSE Answers(t) /\ UNCHANGED spoiled
  /\ UNCHANGED <<store, cache, halved, overlapped>> /\ Storing

Open(t) ==
  /\ pc[t] = "open"
  /\ cache' = Empty
  /\ Goes(t, "write", th[t])
  /\ UNCHANGED <<up, store, history>> /\ Storing

\* Over what another thread has written meanwhile, of which a rest may stay.
Write(t) ==
  /\ pc[t] = "write"
  /\ cache' \in IF cache = Empty THEN {th[t].dump} ELSE {th[t].dump, Torn}
  /\ Answers(t)
  /\ UNCHANGED <<store, history>> /\ Storing

-----------------------------------------------------------------------------
(* The process.                                                            *)

\* main: what the cache has is loaded, and the records are read before serving.
Boot(t) ==
  /\ up = "down" /\ up' = "starting"
  /\ IF Loadable
     THEN /\ offset' = cache.offset
          /\ calls' = [NoCalls EXCEPT !.items = cache.calls]
          /\ limits' = [NoLimits EXCEPT !.items = cache.limits]
          /\ seen' = {r \in Requests : cache.calls[r] > 0}
     ELSE UNCHANGED store
  /\ Goes(t, "look", Idle)
  /\ UNCHANGED <<cache, history>> /\ Storing

Crash ==
  /\ up # "down" /\ crashes + rotations < MaxFaults
  /\ up' = "down" /\ crashes' = crashes + 1 /\ polls' = 0
  /\ offset' = 0 /\ calls' = NoCalls /\ limits' = NoLimits /\ seen' = {}
  /\ pc' = [t \in Threads |-> "idle"] /\ th' = [t \in Threads |-> Idle]
  /\ last' = [s \in Sessions |-> 0] /\ events' = << >>
  /\ UNCHANGED <<source, disk, cache, history, counter, posts, overtaken>>

-----------------------------------------------------------------------------
(* Telemetry.                                                              *)

Metering == source = "telemetry" /\ UNCHANGED <<source, up, crashes, polls, disk, store, cache, pc, th, history>>

Use(s) ==
  /\ Metering
  /\ counter[s] < MaxCount
  /\ counter' = [counter EXCEPT ![s] = @ + 1]
  /\ UNCHANGED <<posts, last, events, overtaken>>

\* An export posts what the counter has come to since the process started.
Export(s) ==
  /\ Metering
  /\ counter[s] > 0
  /\ posts' = posts \cup {<<s, counter[s]>>}
  /\ UNCHANGED <<counter, last, events, overtaken>>

Lose(p) ==
  /\ Metering
  /\ posts' = posts \ {p}
  /\ UNCHANGED <<counter, last, events, overtaken>>

\* Mutant: the counter is taken for the increase.
IncreaseAll(s, value) == value

\* The last value is 0 where the code has none yet: nothing is subtracted then.
Increase(s, value) == IF value > last[s] THEN value - last[s] ELSE 0

\* Mutant: one more is kept.
KeptOneMore(evs) == SubSeq(evs, Max({1, Len(evs) - MaxEvents}), Len(evs))

\* The latest events.
Kept(evs) == SubSeq(evs, Max({1, Len(evs) - MaxEvents + 1}), Len(evs))

\* Telemetry.ingest holds the lock throughout.  A post may come once more, when
\* its answer was lost.
IngestPost(p) ==
  /\ Metering
  /\ up = "serving"
  /\ LET s == p[1]
         delta == Increase(s, p[2])
         more == IF delta = 0 THEN events ELSE Append(events, [session |-> s, value |-> delta])
     IN  /\ events' = Kept(more)
         /\ last' = [last EXCEPT ![s] = p[2]]
         /\ overtaken' = IF p[2] < last[s] THEN overtaken \cup {s} ELSE overtaken
  /\ posts' \in {posts, posts \ {p}}
  /\ UNCHANGED counter

-----------------------------------------------------------------------------

Thread(t) ==
  \/ Look(t) \/ Read(t) \/ SetOffset(t) \/ Ingest(t) \/ Record(t)
  \/ SortCalls(t) \/ CallsSorted(t) \/ SortLimits(t) \/ LimitsSorted(t)
  \/ Dump(t) \/ Open(t) \/ Write(t)

Next ==
  \/ \E line \in Requests \cup {Limit} : WriteLine(line)
  \/ WriteRest \/ Rotate
  \/ \E t \in Threads : Boot(t) \/ Get(t) \/ Thread(t)
  \/ \E s \in Sessions : Use(s) \/ Export(s)
  \/ \E p \in posts : Lose(p) \/ IngestPost(p)
  \/ Crash

Spec == Init /\ [][Next]_vars

-----------------------------------------------------------------------------
(* Properties.                                                             *)

TypeOK ==
  /\ source \in {"records", "telemetry"} /\ up \in {"down", "starting", "serving"}
  /\ polls \in 0..MaxPolls /\ crashes \in Nat /\ rotations \in Nat /\ crashes + rotations <= MaxFaults
  /\ Len(file) <= MaxLines /\ (partial => file # << >>)
  /\ offset \in 0..2 * MaxLines /\ seen \subseteq Requests
  /\ pc \in [Threads -> Steps] /\ halved \subseteq 1..MaxLines
  /\ up # "serving" => \A t, u \in Threads : t # u => pc[t] = "idle" \/ pc[u] = "idle"
  /\ \A t \in Threads : pc[t] = "record" => Head(th[t].todo) \in Requests
  /\ Len(events) <= MaxEvents /\ overtaken \subseteq Sessions

\* The lists of calls there are: the one in place, and what a sort has taken from it.
CallLists == {calls.items} \cup {th[t].kept.items : t \in {t \in Threads : pc[t] = "calls sorted"}}

\* A request of several records is counted once, over restarts, rotations and
\* whatever cache is found; only threads that refresh at the same time may each
\* count it.  Limits, which have no id, are then not counted twice either, as
\* long as the file is not rotated.
CountedOnce ==
  /\ \A list \in CallLists, r \in Requests : list[r] <= IF overlapped THEN Cardinality(Threads) ELSE 1
  /\ ~overlapped /\ rotations = 0 =>
       limits.items <= Cardinality({i \in DOMAIN file : file[i] = Limit})

\* What has been read of the file is counted, or is being counted, however the
\* handler threads and kills fall, as long as the file is not rotated: unless a
\* read met a line half written, a sort found that another thread had changed its
\* list, or a save fell between another's read and its counting.
AllCounted ==
  up # "down" /\ ~spoiled /\ rotations = 0 =>
    \A i \in DOMAIN file \ halved :
      2 * i <= offset /\ file[i] \in Requests =>
        \/ \E list \in CallLists : list[file[i]] > 0
        \/ \E t \in Threads : pc[t] \in {"ingest", "record"} /\ Contains(th[t].todo, file[i])

\* What the page adds up for the session s.
Total(s, evs) ==
  LET sum[n \in 0..Len(evs)] ==
        IF n = 0 THEN 0 ELSE sum[n-1] + (IF evs[n].session = s THEN evs[n].value ELSE 0)
  IN  sum[Len(evs)]

\* The events of a session add up to the counter as it was at the latest export
\* this process took, with exports lost, repeated and from before its start:
\* unless one was overtaken by a later one, or events had to go.
TotalIsCounter ==
  \A s \in Sessions \ overtaken :
    Len(events) < MaxEvents => Total(s, events) = last[s] /\ Total(s, events) <= counter[s]
=============================================================================
