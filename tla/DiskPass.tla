------------------------------ MODULE DiskPass ------------------------------
(***************************************************************************)
(* The disk half of the guard's pass (main.rs run_guard_once): thresholds, *)
(* the sync freeze, and the cleanups it starts in the background.          *)
(*                                                                         *)
(* 0 .. Full stands for 0 .. 100 percent.  Usage above Floor is garbage,   *)
(* of which a cleanup frees some; WHAT it may remove is Removal's matter.  *)
(* The marker file is shared with `dracon-sync pause`.                     *)
(***************************************************************************)
EXTENDS Integers

CONSTANTS
    Full,          \* a full disk
    Floor,         \* usage that no cleanup can free
    Raw,           \* thresholds and knobs as the policy file may give them
    Tasks,         \* bound: cleanups that run at once
    MaxWrites,     \* bound: units others write to the disk
    MaxResets      \* bound: restarts and reloads of the daemon

ASSUME DiskAssumption ==
    /\ Full \in Nat \ {0} /\ Floor \in 0 .. Full
    /\ MaxWrites \in Nat /\ MaxResets \in Nat
    /\ Raw \subseteq [warn : Nat, action : Nat, critical : Nat, proactive : Nat,
                      unfreeze : Nat, freeze : BOOLEAN, cycles : Nat, move : BOOLEAN]

VARIABLES
    policy,     \* the policy in force
    used,       \* disk usage
    marker,     \* the freeze marker: none, guard (it has the guard's prefix), other
    pass,       \* where the pass is, the usage and the marker it has seen
    due,        \* paced cleanups whose cooldown is over
    cycle,      \* guard_cycle, modulo the policy's cycles
    task,       \* the background cleanups
    writes, resets

vars == <<policy, used, marker, pass, due, cycle, task, writes, resets>>
bounds == <<writes, resets>>

Modes == {"pressure", "proactive"}
Larger(a, b) == IF a < b THEN b ELSE a
Smaller(a, b) == IF a < b THEN a ELSE b

\* Fault: the thresholds below the action threshold are taken as they are.
NormalUnordered(raw) ==
    LET warn == Smaller(Larger(raw.warn, 1), Full)
        action == Smaller(Larger(raw.action, warn), Full)
    IN [raw EXCEPT !.warn = warn, !.action = action,
                   !.critical = Smaller(Larger(@, action), Full),
                   !.unfreeze = Smaller(Larger(@, 1), Full), !.cycles = Larger(@, 1)]

\* normalize_guard_policy: every threshold into its band, in the code's order;
\* what starts before action stays below it, but above 0.
Normal(raw) ==
    LET warn == Smaller(Larger(raw.warn, 1), Full)
        action == Smaller(Larger(raw.action, warn), Full)
        critical == Smaller(Larger(raw.critical, Larger(raw.action, warn)), Full)
        Below(x) == IF x >= action THEN Larger(action - 1, 1) ELSE x
    IN [raw EXCEPT !.warn = warn, !.action = action, !.critical = critical,
                   !.proactive = Below(@),
                   !.unfreeze = Below(Smaller(Larger(@, 1), Full)),
                   !.cycles = Larger(@, 1)]

Idle == [pc |-> "idle", mode |-> "pressure", used |-> 0]
Between == [pc |-> "between", used |-> 0, frozen |-> FALSE]

Init ==
    /\ policy \in {Normal(raw) : raw \in Raw}
    /\ used \in 0 .. Full
    /\ marker \in {"none", "guard", "other"}
    /\ pass = Between /\ due = Modes /\ cycle = 0
    /\ task = [t \in Tasks |-> Idle]
    /\ writes = 0 /\ resets = 0

-----------------------------------------------------------------------------
(* The pass.                                                               *)

\* It reads the disk and the marker once. (One that cannot read the disk ends
\* here, and changes nothing.)
Look ==
    /\ pass.pc = "between"
    /\ pass' = [pc |-> "freeze", used |-> used, frozen |-> marker # "none"]
    /\ UNCHANGED <<policy, used, marker, due, cycle, task, bounds>>

ToClean == pass' = [pass EXCEPT !.pc = "clean"]
AtFreeze == pass.pc = "freeze" /\ ToClean
AskedToFreeze == policy.freeze /\ pass.used >= policy.action

\* manage_sync_freeze. Writing the marker may fail.
Freeze ==
    /\ AtFreeze /\ AskedToFreeze /\ ~pass.frozen
    /\ marker' \in {"guard", marker}
    /\ UNCHANGED <<policy, used, due, cycle, task, bounds>>

\* Fault: whoever wrote the marker.
UnfreezeAny ==
    /\ AtFreeze /\ ~AskedToFreeze /\ pass.frozen /\ pass.used <= policy.unfreeze
    /\ marker' \in {"none", marker}
    /\ UNCHANGED <<policy, used, due, cycle, task, bounds>>

\* Fault: only while the policy asks for freezes.
UnfreezeIfAsked ==
    /\ AtFreeze /\ policy.freeze /\ pass.used < policy.action
    /\ pass.frozen /\ pass.used <= policy.unfreeze
    /\ IF marker = "guard" THEN marker' \in {"none", "guard"} ELSE marker' = marker
    /\ UNCHANGED <<policy, used, due, cycle, task, bounds>>

\* Whatever the policy says of freezing now; a marker that has gone or is not
\* the guard's is left, removing it may fail.
Unfreeze ==
    /\ AtFreeze /\ ~AskedToFreeze /\ pass.frozen /\ pass.used <= policy.unfreeze
    /\ IF marker = "guard" THEN marker' \in {"none", "guard"} ELSE marker' = marker
    /\ UNCHANGED <<policy, used, due, cycle, task, bounds>>

LeaveMarker ==
    /\ AtFreeze
    /\ IF AskedToFreeze THEN pass.frozen ELSE ~pass.frozen \/ pass.used > policy.unfreeze
    /\ UNCHANGED <<policy, used, marker, due, cycle, task, bounds>>

\* spawn_background_cleanup: the task keeps the usage of this pass. (Bound: a
\* pass that would start more cleanups than Tasks waits for one to end.)
Spawn(mode) ==
    /\ due' = due \ {mode}
    /\ \E t \in Tasks : task[t] = Idle
                        /\ task' = [task EXCEPT ![t] = [pc |-> "move", mode |-> mode, used |-> pass.used]]
EndPass == pass.pc = "clean" /\ pass' = Between

\* Stamped before the cleanup is known to have done anything (auto_cleanup_due_at).
CleanPressure ==
    /\ EndPass /\ pass.used >= policy.action /\ "pressure" \in due
    /\ Spawn("pressure")
    /\ UNCHANGED <<policy, used, marker, cycle, bounds>>

InBand == policy.proactive <= pass.used /\ pass.used < policy.action
NextCycle == (cycle + 1) % policy.cycles

\* Every so many passes in the band, if the last such cleanup is as old as that.
CleanProactive ==
    /\ EndPass /\ InBand /\ NextCycle = 0 /\ "proactive" \in due
    /\ Spawn("proactive")
    /\ cycle' = NextCycle
    /\ UNCHANGED <<policy, used, marker, bounds>>

CountCycle ==
    /\ EndPass /\ InBand /\ (NextCycle # 0 \/ "proactive" \notin due)
    /\ cycle' = NextCycle
    /\ UNCHANGED <<policy, used, marker, due, task, bounds>>

CleanNothing ==
    /\ EndPass
    /\ IF pass.used >= policy.action THEN "pressure" \notin due ELSE pass.used < policy.proactive
    /\ UNCHANGED <<policy, used, marker, due, cycle, task, bounds>>

\* cooldown_due, whether or not the last cleanup has ended.
CoolDown(mode) ==
    /\ mode \notin due
    /\ due' = due \cup {mode}
    /\ UNCHANGED <<policy, used, marker, pass, cycle, task, bounds>>

-----------------------------------------------------------------------------
(* A background cleanup.                                                   *)

\* run_auto_relocate moves cold trees off the disk while its usage, read anew
\* before each move, is at action; then the usage is read again.
Move(t) ==
    /\ task[t].pc = "move" /\ policy.move
    /\ used >= policy.action /\ used > Floor
    /\ used' = used - 1
    /\ task' = [task EXCEPT ![t].used = used']
    /\ UNCHANGED <<policy, marker, pass, due, cycle, bounds>>

\* No candidate, no move asked for, or usage below action.
MoveEnds(t) ==
    /\ task[t].pc = "move"
    /\ task' = [task EXCEPT ![t].pc = "clean"]
    /\ UNCHANGED <<policy, used, marker, pass, due, cycle, bounds>>

\* run_auto_cleanup, and run_proactive_cleanup before it in the proactive mode.
Clean(t) ==
    /\ task[t].pc = "clean"
    /\ used' \in {used} \cup (Floor .. used)
    /\ task' = [task EXCEPT ![t] = Idle]
    /\ UNCHANGED <<policy, marker, pass, due, cycle, bounds>>

-----------------------------------------------------------------------------
(* Everybody else.                                                         *)

Fill ==
    /\ writes < MaxWrites /\ used < Full
    /\ used' = used + 1 /\ writes' = writes + 1
    /\ UNCHANGED <<policy, marker, pass, due, cycle, task, resets>>

\* `dracon-sync pause` writes its marker unless there is one, `resume` and the
\* freeze watchdog remove any.
Pause ==
    /\ marker = "none" /\ marker' = "other"
    /\ UNCHANGED <<policy, used, pass, due, cycle, task, bounds>>
Resume ==
    /\ marker # "none" /\ marker' = "none"
    /\ UNCHANGED <<policy, used, pass, due, cycle, task, bounds>>

\* apply_policy_reload between two passes: a new runtime, and the cleanups go on.
Reload ==
    /\ pass = Between /\ resets < MaxResets
    /\ resets' = resets + 1
    /\ policy' \in {Normal(raw) : raw \in Raw}
    /\ due' = Modes /\ cycle' = 0
    /\ UNCHANGED <<used, marker, pass, task, writes>>

\* The daemon dies, its cleanups with it, and is started again.
Restart ==
    /\ resets < MaxResets
    /\ resets' = resets + 1
    /\ pass' = Between /\ due' = Modes /\ cycle' = 0
    /\ task' = [t \in Tasks |-> Idle]
    /\ UNCHANGED <<policy, used, marker, writes>>

-----------------------------------------------------------------------------
Pass ==
    \/ Look \/ Freeze \/ Unfreeze \/ LeaveMarker
    \/ CleanPressure \/ CleanProactive \/ CountCycle \/ CleanNothing
Cleanup(t) == Move(t) \/ MoveEnds(t) \/ Clean(t)
World == Fill \/ Pause \/ Resume \/ Reload \/ Restart

Next == Pass \/ (\E mode \in Modes : CoolDown(mode)) \/ (\E t \in Tasks : Cleanup(t)) \/ World

Spec == Init /\ [][Next]_vars

(* Passes follow one another, cooldowns and cleanups end; a marker that can be
   removed is removed some time, and a cleanup finds some time what it may free. *)
Fairness ==
    /\ WF_vars(Pass) /\ SF_vars(Unfreeze /\ marker' = "none")
    /\ \A mode \in Modes : WF_vars(CoolDown(mode))
    /\ \A t \in Tasks : WF_vars(MoveEnds(t)) /\ WF_vars(Clean(t))
    /\ SF_vars(\E t \in Tasks : Clean(t) /\ used' < used)
FairSpec == Spec /\ Fairness

-----------------------------------------------------------------------------
(* The thresholds are in order, whatever the policy file says
   (normalize_guard_policy): both what starts before action and what ends the
   freeze lie below it. *)
InOrder ==
    /\ 1 <= policy.warn /\ policy.warn <= policy.action
    /\ policy.action <= policy.critical /\ policy.critical <= Full
    /\ \A x \in {policy.proactive, policy.unfreeze} : x < policy.action \/ policy.action = 1
    /\ policy.unfreeze >= 1

(* The values of the variables (disk, marker, pass and cleanups). *)
TypeOK ==
    /\ cycle \in 0 .. policy.cycles - 1
    /\ used \in 0 .. Full /\ marker \in {"none", "guard", "other"} /\ due \subseteq Modes
    /\ pass.pc \in {"between", "freeze", "clean"} /\ pass.used \in 0 .. Full
    /\ \A t \in Tasks : task[t].pc \in {"idle", "move", "clean"} /\ task[t].mode \in Modes

(* "Never remove or rewrite another owner's marker" (manage_sync_freeze), as
   far as the pass could know: a marker it saw is never taken from its owner. *)
OthersMarkerKept ==
    [][marker = "other" /\ (pass.frozen \/ pass.pc # "freeze") => marker' = "other" \/ Resume]_vars

(* A freeze of the guard's own does not outlast the cause: when enough of the
   disk is garbage and nobody writes for ever, cleanups bring the usage down
   and the marker is removed, across restarts and reloads that no longer ask
   for freezes. The cleanups begin at proactive: with unfreeze lower than that
   the usage may stay between the two, frozen, with nobody cleaning. *)
SyncComesBack ==
    marker = "guard" ~>
        marker # "guard" \/ policy.unfreeze < Floor \/ policy.unfreeze + 1 < policy.proactive
=============================================================================
