------------------------------ MODULE Reports ------------------------------
(***************************************************************************)
(* What the guard's pass tells of what it finds (main.rs): one monitor at a *)
(* time, chosen at the start, over the memory of states all of them share   *)
(* (report_state_transition) or one of its own.                            *)
(*                                                                         *)
(* A message is a desktop notification, an event or a line of the journal. *)
(***************************************************************************)
EXTENDS ServiceGrowth

CONSTANTS
    Repeat,        \* report_repeat_secs, in ticks
    Sustain        \* memory_pressure_sustain_secs, in ticks

ASSUME ReportsAssumption == Repeat \in Nat \ {0} /\ Sustain \in Nat

VARIABLES
    monitor,    \* the one that looks
    entry,      \* its report state: the value, and the age of last_emitted
    memory,     \* the memory monitor's hysteresis: state, candidate and its age
    looked,     \* what the pass last found, or "": for the first time
    told,       \* the last message: about what, and its age
    lasting     \* how long the memory observation has been what it is, and how
                \* long it had been so when the state last changed

reportsVars == <<monitor, entry, memory, looked, told, lasting, growth>>

\* Ages are counted up to here.
Old == IF Repeat > Sustain THEN Repeat ELSE Sustain
ReportsOlder(age) == IF age < Old THEN age + 1 ELSE Old

\* mount: one of the extra mounts.
\* oneway: large logs, and the list of unreadable mounts, which record no "ok".
Monitors == {"early", "trend", "swap", "zombies", "inode", "mount", "rapid", "links", "heavy",
             "growth", "oneway", "memory", "disk", "reap", "rust"}

\* What a pass may find. "blind": could not be read or measured; "other": other
\* processes than "bad", as many; "worse": both, or a higher band.
Findings ==
    CASE monitor \in {"early", "trend", "swap", "zombies", "oneway", "rust"} -> {"ok", "bad"}
      [] monitor \in {"inode", "rapid", "growth"} -> {"ok", "bad", "blind"}
      [] monitor = "reap" -> {"ok", "bad", "other", "worse"}
      [] OTHER -> {"ok", "bad", "worse"}

NoEntry == [value |-> "", age |-> Old]
NoMemory == [state |-> "ok", candidate |-> "", age |-> 0]
NotTold == [about |-> "", age |-> Old]
NoRun == [of |-> "", age |-> 0, taken |-> Sustain]

ReportsInit ==
           /\ monitor \in Monitors
           /\ entry = NoEntry /\ memory = NoMemory
           /\ looked = "" /\ told = NotTold /\ lasting = NoRun
           /\ GrowthInit

-----------------------------------------------------------------------------
(* The shared memory of states.                                            *)

\* Fault: every look counts as an emission.
EmittedAlways(v) ==
    LET due == entry.value # v \/ (v # "ok" /\ entry.age >= Repeat)
    IN [emit |-> due, entry |-> [value |-> v, age |-> 0]]

\* report_state_transition: a change is due at once, an unchanged state that is
\* not ok when it is as old as Repeat.
Emitted(v) ==
    LET due == entry.value # v \/ (v # "ok" /\ entry.age >= Repeat)
    IN [emit |-> due,
        entry |-> [value |-> v, age |-> IF due THEN 0 ELSE entry.age]]

Tell(v, yes) == told' = IF yes THEN [about |-> v, age |-> 0] ELSE told

\* The shape of most monitors: a notification on entry, an event when due.
OnEntry(v) ==
    /\ entry' = Emitted(v).entry
    /\ Tell(v, v # "ok" /\ (entry.value # v \/ Emitted(v).emit))

\* check_disk_early_warning: the band below the warning, left upwards too.
Early(v) == monitor = "early" /\ OnEntry(v)
\* check_disk_trends: recorded whether it warns or not.
Trend(v) == monitor = "trend" /\ OnEntry(v)
\* check_swap_devices: whatever the issues are, one state.
Swap(v) == monitor = "swap" /\ OnEntry(v)
\* check_zombie_processes: over the threshold or not.
Zombies(v) == monitor = "zombies" /\ OnEntry(v)
\* check_inode_usage: what cannot be read is a state, told as an event.
Inode(v) == monitor = "inode" /\ OnEntry(v)
\* check_extra_mounts: an entry for each mount, and its band is the state.
Mount(v) == monitor = "mount" /\ OnEntry(v)

\* check_rapid_disk_fill: a rate that cannot be measured is recorded, silently.
Rapid(v) ==
    /\ monitor = "rapid"
    /\ entry' = Emitted(v).entry
    /\ Tell(v, v = "bad" /\ Emitted(v).emit)

\* check_link_drift: the notification too is sent when the event is due.
Links(v) ==
    /\ monitor = "links"
    /\ entry' = Emitted(v).entry
    /\ Tell(v, v # "ok" /\ Emitted(v).emit)

\* check_heavy_processes: a process no longer heavy is forgotten, not "ok".
Heavy(v) ==
    /\ monitor = "heavy"
    /\ IF v = "ok" THEN entry' = NoEntry /\ UNCHANGED told
       ELSE entry' = Emitted(v).entry /\ Tell(v, Emitted(v).emit)

\* The finding of the service's tracker.
Tracked == CASE status' = "sustained_growth" -> "bad"
             [] status' = "unavailable" -> "blind"
             [] OTHER -> "ok"

\* The service growth report: recovery is told as well.
Growth(v) ==
    /\ monitor = "growth" /\ v = Tracked
    /\ entry' = Emitted(v).entry
    /\ Tell(v, Emitted(v).emit /\ (v # "ok" \/ entry.value \notin {"", v}))

\* check_large_logs, the unreadable mounts: nothing found, nothing recorded.
OneWay(v) ==
    /\ monitor = "oneway"
    /\ IF v = "ok" THEN UNCHANGED <<entry, told>>
       ELSE entry' = Emitted(v).entry /\ Tell(v, Emitted(v).emit)

-----------------------------------------------------------------------------
(* Monitors with a memory of their own.                                    *)

\* check_disk_state_change: a first sighting only when it is critical.
DiskState(v) ==
    /\ monitor = "disk"
    /\ entry' = [entry EXCEPT !.value = v]
    /\ Tell(v, IF entry.value = "" THEN v = "worse" ELSE entry.value # v)

\* check_reap_candidates: the signature is the set, not the count.
ReapList(v) ==
    /\ monitor = "reap"
    /\ entry' = [entry EXCEPT !.value = v]
    /\ Tell(v, entry.value # v /\ (v = "ok" => entry.value # ""))

\* report_proactive_rust_state: kept for the process, across reloads. "bad" is off.
RustState(v) ==
    /\ monitor = "rust"
    /\ entry' = IF entry.value = "" /\ v = "ok" THEN entry ELSE [entry EXCEPT !.value = v]
    /\ Tell(v, entry.value # v /\ (v = "ok" => entry.value # ""))

\* Fault: the candidate keeps its age when the observation changes.
StabilizedSoon(v) ==
    IF memory.state = v THEN [memory EXCEPT !.candidate = "", !.age = 0]
    ELSE IF memory.candidate = "" THEN [memory EXCEPT !.candidate = v, !.age = 0]
    ELSE IF memory.age < Sustain THEN [memory EXCEPT !.candidate = v]
    ELSE [state |-> v, candidate |-> "", age |-> 0]

\* stabilize_memory_pressure_at: an observation that differs from the candidate
\* starts a candidate of its own.
Stabilized(v) ==
    IF memory.state = v THEN [memory EXCEPT !.candidate = "", !.age = 0]
    ELSE IF memory.candidate # v THEN [memory EXCEPT !.candidate = v, !.age = 0]
    ELSE IF memory.age < Sustain THEN memory
    ELSE [state |-> v, candidate |-> "", age |-> 0]

\* check_memory_pressure: what it reports is the stabilized state.
Memory(v) ==
    LET now == Stabilized(v).state
        age == IF lasting.of = v THEN lasting.age ELSE 0
    IN /\ monitor = "memory"
       /\ memory' = Stabilized(v)
       /\ lasting' = [of |-> v, age |-> age,
                      taken |-> IF now # memory.state THEN age ELSE lasting.taken]
       /\ entry' = Emitted(now).entry
       /\ Tell(now, Emitted(now).emit /\ (now # "ok" \/ entry.value \notin {"", "ok"}))
       /\ looked' = now

-----------------------------------------------------------------------------
\* A pass that gets as far as the monitor; it may read nothing, and tells nothing.
LookAgain(v) ==
         /\ v \in Findings
         /\ \/ Memory(v) /\ UNCHANGED growth
            \/ /\ \/ (SampleEnd \/ SampleFails) /\ Growth(v)
               /\ looked' = v
               /\ UNCHANGED <<memory, lasting>>
            \/ /\ \/ Early(v) \/ Trend(v) \/ Swap(v) \/ Zombies(v) \/ Inode(v) \/ Mount(v)
                  \/ Rapid(v) \/ Links(v) \/ Heavy(v) \/ OneWay(v)
                  \/ DiskState(v) \/ ReapList(v) \/ RustState(v)
               /\ looked' = v
               /\ UNCHANGED <<memory, lasting, growth>>
         /\ UNCHANGED monitor

\* The pass measures the service, which may be restarted at any time.
Measure ==
    /\ monitor = "growth"
    /\ SampleBegin \/ SampleRead \/ Restarted
    /\ UNCHANGED <<monitor, entry, memory, looked, told, lasting>>

\* Instants are monotonic; the passes are some ticks apart.
Tick ==
    /\ Passes
    /\ entry' = [entry EXCEPT !.age = ReportsOlder(@)]
    /\ memory' = [memory EXCEPT !.age = IF memory.candidate = "" THEN 0 ELSE ReportsOlder(@)]
    /\ told' = [told EXCEPT !.age = ReportsOlder(@)]
    /\ lasting' = [lasting EXCEPT !.age = ReportsOlder(@)]
    /\ UNCHANGED <<monitor, looked>>

\* apply_policy_reload: a new runtime state, except for what the process keeps.
PolicyReloaded ==
    /\ monitor # "rust" /\ Forgotten
    /\ entry' = NoEntry /\ memory' = NoMemory /\ looked' = "" /\ lasting' = NoRun
    /\ UNCHANGED <<monitor, told>>

ReportsNext == (\E v \in Findings : LookAgain(v)) \/ Measure \/ Tick \/ PolicyReloaded

ReportsSpec == ReportsInit /\ [][ReportsNext]_reportsVars

-----------------------------------------------------------------------------
(* The values of the variables (report states, tracker, measurement). *)
ReportsTypeOK ==
    /\ monitor \in Monitors
    /\ entry.age \in 0 .. Old /\ told.age \in 0 .. Old
    /\ entry.value \in Findings \cup {""} /\ looked \in Findings \cup {""}
    /\ unit \in 1 .. MaxStarts /\ sample.at \in {"idle", "asked", "read"}
    /\ history = NoHistory \/ Len(history.points) \in 1 .. MaxHistory

(* The memory pressure acted on (stabilize_memory_pressure_at): it was seen
   for all of the sustain time, in every pass that could read the memory,
   before it was taken; and what has been seen that long is the candidate,
   with that age, until it is taken. *)
SustainedFirst ==
    /\ lasting.taken >= Sustain
    /\ monitor = "memory" /\ lasting.of \notin {"", memory.state} =>
          memory.candidate = lasting.of /\ memory.age = lasting.age

(* No monitor goes quiet and none repeats itself (report_state_transition and
   its callers). A finding that is new and not ok is told in the pass that
   makes it; one that stays is told again when the last message is Repeat old,
   not sooner, by the monitors that repeat. The exceptions are the code's: an
   unmeasured fill rate, the first sighting of a disk that is not critical, and
   the one-way monitors, which tell a new episode only when a lasting one would
   be told. *)
Quiet(v) ==
    \/ v = "ok" \/ (monitor = "rapid" /\ v = "blind")
    \/ monitor = "disk" /\ looked = "" /\ v = "bad"
Repeating == monitor \notin {"disk", "reap", "rust"}
NewsIsTold ==
    [][(\E v \in Findings : LookAgain(v)) =>
          LET found == looked'
          IN /\ ~Quiet(found) /\ found # looked /\ monitor # "oneway" =>
                    told' = [about |-> found, age |-> 0]
             /\ ~Quiet(found) /\ Repeating => told'.about = found /\ told'.age < Repeat
             /\ found = looked /\ told' # told => Repeating /\ told.age >= Repeat]_reportsVars
=============================================================================
