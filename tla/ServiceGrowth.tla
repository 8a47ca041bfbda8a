--------------------------- MODULE ServiceGrowth ---------------------------
(***************************************************************************)
(* The growth of one watched service (service_growth.rs): a pass measures  *)
(* it between two questions to its manager, and a tracker keeps a bounded, *)
(* spaced history from which it tells growth that lasted a whole window.   *)
(***************************************************************************)
EXTENDS Integers, SequencesExt

CONSTANTS
    Window,        \* service_memory_growth_window_secs, in ticks
    MinGrowth,     \* service_memory_growth_min_mb, in units
    MaxHistory,    \* MAX_HISTORY
    MaxFootprint,  \* bound: the largest footprint, in units
    MaxStarts      \* bound: incarnations of the service

ASSUME GrowthAssumption ==
    /\ Window \in Nat \ {0} /\ MinGrowth \in Nat \ {0} /\ MaxHistory \in Nat \ (0 .. 2)
    /\ MaxFootprint \in Nat /\ MaxStarts \in Nat \ {0}

VARIABLES
    unit,      \* the incarnation of the service: invocation, pid, cgroup
    sample,    \* the measurement under way
    history,   \* the tracker's History of the target
    status,    \* the last observation
    calm       \* the good samples since the service last started, was not
               \* measured, or shrank, and not older than two windows

growth == <<unit, sample, history, status, calm>>

NoSample == [at |-> "idle", of |-> 0, total |-> 0]
NoHistory == [of |-> 0, last |-> [age |-> 0, total |-> 0], points |-> <<>>]

GrowthInit ==
    /\ unit = 1 /\ sample = NoSample
    /\ history = NoHistory /\ status = "none" /\ calm = {}

CeilDiv(a, b) == (a + b - 1) \div b
Largest(S) == CHOOSE x \in S : \A y \in S : y <= x

\* Fault: rounded down.
SpacingDown == Window \div MaxHistory
\* Points are kept this far apart: MaxHistory of them reach past the window.
Spacing == CeilDiv(Window, MaxHistory - 2)

Now(total) == [age |-> 0, total |-> total]

\* Fault: the generation of a sample is not compared.
DisturbedNoGeneration(of, total) ==
    history.last.age > Window \div 2 \/ total < history.last.total
\* What starts a history anew: another generation, a gap, a decrease.
Disturbed(of, total) ==
    \/ history.of # of
    \/ history.last.age > Window \div 2
    \/ total < history.last.total

\* The points after a sample: the newest if it is far enough from the one before,
\* and of those as old as the window only the last.
Kept(total) ==
    LET points == IF Last(history.points).age >= Spacing
                  THEN Append(history.points, Now(total)) ELSE history.points
        aged == {i \in 2 .. Len(points) : points[i].age >= Window}
        first == Largest({1, Len(points) - MaxHistory + 1} \cup aged)
    IN SubSeq(points, first, Len(points))

\* Balanced growth over the window: each half has a quarter of it, and of the least.
Grows(points, total) ==
    LET base == Head(points)
        grown == total - base.total
        half == Largest({CeilDiv(grown, 4), CeilDiv(MinGrowth, 4)})
        middle == points[Largest({i \in 1 .. Len(points) : 2 * points[i].age >= base.age})]
    IN /\ grown >= MinGrowth
       /\ middle.total - base.total >= half
       /\ total - middle.total >= half

\* Tracker::observe for a row that was measured.
Observed(of, total) ==
    LET fresh == history = NoHistory \/ Disturbed(of, total)
        points == IF fresh THEN <<Now(total)>> ELSE Kept(total)
    IN /\ history' = [of |-> of, last |-> Now(total), points |-> points]
       /\ status' = IF fresh /\ history # NoHistory THEN "reset"
                    ELSE IF Head(points).age < Window THEN "warming_up"
                    ELSE IF Grows(points, total) THEN "sustained_growth" ELSE "stable"

-----------------------------------------------------------------------------
(* A pass: properties of the unit, counters of its cgroup, properties again. *)

\* collect asks the manager; passes are apart.
SampleBegin ==
    /\ sample.at = "idle" /\ (history = NoHistory \/ history.last.age > 0)
    /\ sample' = [NoSample EXCEPT !.at = "asked", !.of = unit]
    /\ UNCHANGED <<unit, history, status, calm>>

\* sample_unit: the counters of the incarnation that was asked for, or none. The
\* two are read one after the other, so the sum may be anything.
SampleRead ==
    /\ sample.at = "asked" /\ unit = sample.of
    /\ \E total \in 0 .. MaxFootprint :
          sample' = [sample EXCEPT !.at = "read", !.total = total]
    /\ UNCHANGED <<unit, history, status, calm>>

\* The manager, the process and the cgroup are what they were.
SampleEnd ==
    /\ sample.at = "read" /\ unit = sample.of
    /\ Observed(sample.of, sample.total)
    /\ calm' = {Now(sample.total)} \cup
          IF \/ \E p \in calm : p.total > sample.total
             \/ \A p \in calm : p.age > Window \div 2
          THEN {} ELSE calm
    /\ sample' = NoSample
    /\ UNCHANGED unit

\* The manager is silent, a counter cannot be read, the incarnation changed, or
\* five seconds are over.
SampleFails ==
    /\ sample.at # "idle"
    /\ history' = NoHistory /\ status' = "unavailable" /\ calm' = {}
    /\ sample' = NoSample
    /\ UNCHANGED unit

\* The service is restarted.
Restarted ==
    /\ unit < MaxStarts
    /\ unit' = unit + 1 /\ calm' = {}
    /\ UNCHANGED <<sample, history, status>>

\* A new runtime state has a new tracker.
Forgotten ==
    /\ sample.at = "idle"
    /\ history' = NoHistory /\ status' = "none" /\ calm' = {}
    /\ UNCHANGED <<unit, sample>>

\* Ages are counted up to twice the window; a sample does not last a tick.
Aged(p) == [p EXCEPT !.age = IF @ < 2 * Window THEN @ + 1 ELSE @]
Passes ==
    /\ sample.at = "idle"
    /\ history' = IF history = NoHistory THEN NoHistory
                  ELSE [history EXCEPT !.last = Aged(@),
                                       !.points = [i \in DOMAIN @ |-> Aged(@[i])]]
    /\ calm' = {Aged(p) : p \in {q \in calm : q.age < 2 * Window - 1}}
    /\ UNCHANGED <<unit, sample, status>>

-----------------------------------------------------------------------------
(* Growth is told of one life of the service, measured all along a window, and
   not longer than two, without a decrease or a gap, whatever restarts between
   the questions and the counters: Tracker::observe over collect. It is growth in
   both halves: the sample in the middle is no older than half the time again. *)
GrowthIsTrue ==
    [][SampleEnd /\ status' = "sustained_growth" =>
          \E base, middle \in calm' :
             /\ Window <= base.age /\ base.age < 2 * Window
             /\ base.age <= 2 * middle.age /\ middle.age < Window
             /\ middle.total - base.total >= CeilDiv(MinGrowth, 4)
             /\ sample.total - middle.total >= CeilDiv(MinGrowth, 4)
             /\ sample.total - base.total >= MinGrowth]_growth

(* A steady growth, measured each tick and a unit per tick for a window or more,
   is told although Tracker::observe keeps only some of the samples. *)
GrowthIsTold ==
    [][SampleEnd /\ (\E oldest \in calm' :
           /\ oldest.age >= Window
           /\ calm' = {[age |-> a, total |-> sample.total - a] : a \in 0 .. oldest.age})
       => status' = "sustained_growth"]_growth
=============================================================================
