---------------------------- MODULE NiceLimiters ----------------------------
(***************************************************************************)
(* The two nice limiters of src/src/main.rs on ONE pid: the heavy-process  *)
(* limiter (check_heavy_processes, map reniced_pids, here `legacy` as in   *)
(* the code's NiceRestoreScope) and the memory-pressure limiter            *)
(* (check_memory_pressure, map memory_reniced_pids, here `memory`).  Both  *)
(* work in every pass on one snapshot taken before them, each records the  *)
(* nice value to restore, and a release of one must leave the other's      *)
(* value in force.  Only `memory` is in the mitigation ledger, which is    *)
(* written at the end of a pass.                                           *)
(*                                                                         *)
(* The pid is held by one incarnation (pid and start time, here a number)  *)
(* after the other; 0 is no process.  renice acts on the PID, after the    *)
(* incarnation was checked, so it is a step of its own.  One pid is        *)
(* modelled: the limiters keep their records by pid, and what one process  *)
(* does to another is that a child starts at its parent's nice value, also *)
(* one the guard gave the parent (Inherited).                              *)
(***************************************************************************)
EXTENDS Integers

CONSTANTS
    Natives,    \* nice values processes start with or are given by others
    Tiers,      \* values of the cpu and footprint tiers, graduated_nice_value
    MaxInc      \* bound: incarnations of the pid

MaxNice == 19

ASSUME NiceAssumption ==
    /\ MaxInc \in Nat
    /\ Natives \subseteq 0 .. MaxNice /\ Tiers \subseteq 0 .. MaxNice
    /\ Natives # {}

VARIABLES
    inc,        \* the incarnation that holds the pid, 0 for none
    nextInc,    \* the one that gets it next
    nice,       \* the live nice value
    found,      \* the value the guard found it with: its own, or inherited
    legacy,     \* reniced_pids[pid], Nothing when absent
    memory,     \* memory_reniced_pids[pid], Nothing when absent
    ledger,     \* the memory record on disk
    pc,         \* where the guard is
    mode,       \* what it is doing: pass, start, reload, stop
    sample,     \* the pid's row of the snapshot, and what the pass makes of it
    want,       \* the renice about to be executed: of which record, to what
    excused,    \* the guard cannot be held to this incarnation, see Excuse
    misread     \* it was recorded from a snapshot the guard had outdated

vars == <<inc, nextInc, nice, found, legacy, memory, ledger, pc, mode, sample,
          want, excused, misread>>
process == <<inc, nextInc, found>>

Nothing == [inc |-> 0, orig |-> 0, applied |-> 0]
NoSample == [inc |-> 0, nice |-> 0, tier |-> 0, heavy |-> FALSE, pressure |-> FALSE]
NoWish == [inc |-> 0, val |-> 0, scope |-> "none"]

Level == 0 .. MaxNice
Record == [inc : 0 .. MaxInc, orig : Level, applied : 0 .. MaxNice + 5]
Rows == [inc : 0 .. MaxInc, nice : Level, tier : Level, heavy : BOOLEAN, pressure : BOOLEAN]
Wishes == [inc : 0 .. MaxInc, val : 0 .. MaxNice + 5,
           scope : {"none", "legacy", "memory", "both"}]

(* The types: the process, the two maps of the guard, its ledger and the pass. *)
TypeOK ==
    /\ inc \in 0 .. MaxInc /\ nextInc \in 1 .. MaxInc + 1
    /\ nice \in Level /\ found \in Level
    /\ legacy \in Record /\ memory \in Record /\ ledger \in Record
    /\ pc \in {"down", "idle", "heavy", "heavySet", "cool", "coolSet", "mem",
               "memSet", "memCoolSet", "end", "restore", "restoreSet"}
    /\ mode \in {"pass", "start", "reload", "stop"}
    /\ sample \in Rows /\ want \in Wishes
    /\ excused \in BOOLEAN /\ misread \in BOOLEAN

Init ==
    /\ inc = 0 /\ nextInc = 1 /\ nice = 0 /\ found = 0
    /\ legacy = Nothing /\ memory = Nothing /\ ledger = Nothing
    /\ pc = "down" /\ mode = "pass"
    /\ sample = NoSample /\ want = NoWish
    /\ excused = FALSE /\ misread = FALSE

-----------------------------------------------------------------------------
(* Fault: the tier is taken whatever the value of the snapshot. *)
GraduatedTier(s) == s.tier

(* graduated_nice_value: never below the value of the snapshot. *)
Graduated(s) == IF s.tier > s.nice THEN s.tier ELSE s.nice

(* The kernel's limit on what renice asks for. *)
Clamp(v) == IF v > MaxNice THEN MaxNice ELSE v

(* drop_stale_nice_adjustments *)
Current(record) == IF record.inc # inc THEN Nothing ELSE record

(* The maps' prunes: gone and reused incarnations, unless unreadable. *)
Pruned(record) == {record, Current(record)}

(* What a MitigationRecord keeps of a record. *)
Persisted(record) == [record EXCEPT !.applied = 0]

(* The guard gave up on a process (retry limits, a permanent failure), others
   set its nice value, it took the pid between a check and a renice, or the
   guard died before its record was in the ledger. *)
Excuse(i) == IF i = inc /\ inc # 0 THEN excused' = TRUE ELSE UNCHANGED excused

(* The renice that was decided on is executed on whatever holds the pid. *)
Renice ==
    /\ inc # 0
    /\ nice' = Clamp(want.val)
    /\ IF inc # want.inc THEN Excuse(inc) ELSE UNCHANGED excused

Wish(i, v, scope) == want' = [inc |-> i, val |-> v, scope |-> scope]
(* Both limiters are through: the snapshot is not used any more. *)
ToEnd == want' = NoWish /\ pc' = "end" /\ sample' = NoSample
NoMoreWish(next) == want' = NoWish /\ pc' = next

-----------------------------------------------------------------------------
(* What a child of a parent whose own value is v may start at: v, or what a
   limiter has made of the parent (a tier, the guess of a hydrated record). *)
Inherited(v) == {v} \cup {t \in Tiers : t > v} \cup {Clamp(v + 5)}

(* The process, and others who set its nice value. *)
Start(v) ==
    /\ inc = 0 /\ nextInc <= MaxInc
    /\ inc' = nextInc /\ nextInc' = nextInc + 1
    /\ nice' = v /\ found' = v
    /\ UNCHANGED <<legacy, memory, ledger, pc, mode, sample, want, excused, misread>>

Exit ==
    /\ inc # 0
    /\ inc' = 0 /\ nice' = 0 /\ found' = 0
    /\ excused' = FALSE /\ misread' = FALSE
    /\ UNCHANGED <<nextInc, legacy, memory, ledger, pc, mode, sample, want>>

OthersRenice(v) ==
    /\ inc # 0 /\ v # nice
    /\ nice' = v /\ found' = v
    /\ IF inc \in {legacy.inc, memory.inc, ledger.inc, sample.inc, want.inc}
         THEN Excuse(inc) ELSE UNCHANGED excused
    /\ UNCHANGED <<inc, nextInc, legacy, memory, ledger, pc, mode, sample, want, misread>>

-----------------------------------------------------------------------------
(* run_guard_once: one snapshot for both limiters. *)
PassBegin ==
    /\ pc = "idle"
    /\ \E t \in Tiers, h, p \in BOOLEAN :
          /\ sample' = [inc |-> inc, nice |-> nice, tier |-> t, heavy |-> h, pressure |-> p]
          /\ inc = 0 => ~h
    /\ pc' = "heavy" /\ mode' = "pass"
    /\ UNCHANGED <<process, nice, legacy, memory, ledger, want, excused, misread>>

SampleIsCurrent == sample.inc # 0 /\ sample.inc = inc

(* A sustained heavy process that is not at its graduated value yet. *)
HeavyDecide ==
    /\ pc = "heavy" /\ sample.heavy /\ SampleIsCurrent
    /\ legacy' = Current(legacy) /\ memory' = Current(memory)
    /\ IF legacy'.inc = 0 \/ legacy'.applied # Graduated(sample)
         THEN Wish(inc, Graduated(sample), "legacy") /\ pc' = "heavySet"
         ELSE NoMoreWish("cool")
    /\ UNCHANGED <<process, nice, ledger, mode, sample, excused, misread>>

(* Not heavy, exempt, not sustained, auto_renice off, or replaced. *)
HeavySkip ==
    /\ pc = "heavy"
    /\ pc' = "cool"
    /\ UNCHANGED <<process, nice, legacy, memory, ledger, mode, sample, want, excused, misread>>

(* Fault: every apply takes the value of the snapshot for the original. *)
HeavyOriginalSample == sample.nice

(* The original value: its own record's, the other limiter's, the snapshot's. *)
HeavyOriginal ==
    IF legacy.inc # 0 THEN legacy.orig
    ELSE IF memory.inc # 0 THEN memory.orig ELSE sample.nice

HeavyRenice ==
    /\ pc = "heavySet"
    /\ Renice
    /\ legacy' = [inc |-> want.inc, applied |-> want.val, orig |-> HeavyOriginal]
    /\ NoMoreWish("cool")
    /\ UNCHANGED <<process, memory, ledger, mode, sample, misread>>

(* A renice of any step fails and nothing is given up: applies are left for
   the next pass, releases are retried in it, up to a limit. *)
After == [heavySet |-> "cool", coolSet |-> "mem", memSet |-> "end",
          memCoolSet |-> "end", restoreSet |-> "restore"]

ReniceFails ==
    /\ pc \in DOMAIN After
    /\ IF After[pc] = "end" THEN ToEnd ELSE NoMoreWish(After[pc]) /\ UNCHANGED sample
    /\ UNCHANGED <<process, nice, legacy, memory, ledger, mode, excused, misread>>

(* A release leaves the other limiter's value in force. *)
CoolValue(mine, other) == IF other.inc = mine.inc THEN other.applied ELSE mine.orig

(* Un-renice recovery, after the release window. *)
Cool ==
    /\ pc = "cool"
    /\ legacy.inc # 0 /\ ~sample.heavy
    /\ \/ /\ legacy.inc = inc
          /\ Wish(inc, CoolValue(legacy, memory), "legacy")
          /\ memory' = Current(memory)
          /\ pc' = "coolSet"
          /\ UNCHANGED <<legacy, excused>>
       \/ /\ legacy.inc # inc               \* gone or reused
          /\ legacy' = Nothing
          /\ NoMoreWish("mem")
          /\ UNCHANGED <<memory, excused>>
       \/ /\ legacy' = Nothing              \* unreadable too often
          /\ Excuse(legacy.inc)
          /\ NoMoreWish("mem")
          /\ UNCHANGED memory
    /\ UNCHANGED <<process, nice, ledger, mode, sample, misread>>

CoolRenice ==
    /\ pc = "coolSet"
    /\ \/ Renice
       \/ Excuse(want.inc) /\ UNCHANGED nice    \* failed, at the retry limit
    /\ legacy' = Nothing
    /\ NoMoreWish("mem")
    /\ UNCHANGED <<process, memory, ledger, mode, sample, misread>>

(* Nothing to release or not yet; the prune of reniced_pids. *)
CoolDone ==
    /\ pc = "cool"
    /\ legacy' \in Pruned(legacy)
    /\ pc' = "mem"
    /\ UNCHANGED <<process, nice, memory, ledger, mode, sample, want, excused, misread>>

-----------------------------------------------------------------------------
(* check_memory_pressure, the renice of a top offender. *)
MemDecide ==
    /\ pc = "mem" /\ sample.pressure /\ SampleIsCurrent
    /\ legacy' = Current(legacy) /\ memory' = Current(memory)
    /\ IF memory'.inc = 0 \/ memory'.applied # Graduated(sample)
         THEN Wish(inc, Graduated(sample), "memory") /\ pc' = "memSet" /\ UNCHANGED sample
         ELSE ToEnd
    /\ UNCHANGED <<process, nice, ledger, mode, excused, misread>>

MemOriginal ==
    IF memory.inc # 0 THEN memory.orig
    ELSE IF legacy.inc # 0 THEN legacy.orig ELSE sample.nice

MemRenice ==
    /\ pc = "memSet"
    /\ Renice
    /\ memory' = [inc |-> want.inc, applied |-> want.val, orig |-> MemOriginal]
    /\ IF memory.inc = 0 /\ legacy.inc = 0 /\ nice # sample.nice
         THEN misread' = TRUE ELSE UNCHANGED misread
    /\ ToEnd
    /\ UNCHANGED <<process, legacy, ledger, mode>>

(* The pressure is ok and the release window over. *)
MemCool ==
    /\ pc = "mem" /\ memory.inc # 0 /\ ~sample.pressure
    /\ \/ /\ memory.inc = inc
          /\ Wish(inc, CoolValue(memory, legacy), "memory")
          /\ legacy' = Current(legacy)
          /\ pc' = "memCoolSet" /\ sample' = NoSample
          /\ UNCHANGED <<memory, excused>>
       \/ /\ memory.inc # inc
          /\ memory' = Nothing
          /\ ToEnd
          /\ UNCHANGED <<legacy, excused>>
       \/ /\ memory' = Nothing
          /\ Excuse(memory.inc)
          /\ ToEnd
          /\ UNCHANGED legacy
    /\ UNCHANGED <<process, nice, ledger, mode, misread>>

MemCoolRenice ==
    /\ pc = "memCoolSet"
    /\ \/ Renice
       \/ Excuse(want.inc) /\ UNCHANGED nice
    /\ memory' = Nothing
    /\ ToEnd
    /\ UNCHANGED <<process, legacy, ledger, mode, misread>>

MemDone ==
    /\ pc = "mem"
    /\ ToEnd
    /\ UNCHANGED <<process, nice, legacy, memory, ledger, mode, excused, misread>>

(* The prune of memory_reniced_pids, and persist_mitigations, which may fail. *)
PassEnd ==
    /\ pc = "end"
    /\ memory' \in Pruned(memory)
    /\ ledger' \in {ledger, Persisted(memory')}
    /\ pc' = "idle"
    /\ UNCHANGED <<process, nice, legacy, mode, sample, want, excused, misread>>

-----------------------------------------------------------------------------
(* restore_runtime_adjustments at the start, on a reload and on a stop; one
   restore for two records of the same incarnation. *)
RestoreBegin(m) ==
    /\ pc = "idle" /\ m \in {"reload", "stop"}
    /\ mode' = m /\ pc' = "restore"
    /\ UNCHANGED <<process, nice, legacy, memory, ledger, sample, want, excused, misread>>

Scope == IF legacy.inc # 0 /\ memory.inc = legacy.inc THEN "both"
         ELSE IF legacy.inc # 0 THEN "legacy" ELSE "memory"

(* remove_nice_scope, for the record of limiter `mine` *)
Without(record, scope, mine) == IF scope \in {mine, "both"} THEN Nothing ELSE record

RemoveScope(scope) ==
    /\ legacy' = Without(legacy, scope, "legacy")
    /\ memory' = Without(memory, scope, "memory")

RestoreDecide ==
    /\ pc = "restore"
    /\ \E s \in {Scope, "memory"} :
          LET record == IF s = "memory" THEN memory ELSE legacy IN
          /\ s = "memory" => memory.inc # 0 /\ Scope # "both"
          /\ record.inc # 0
          /\ \/ /\ record.inc = inc
                /\ Wish(inc, record.orig, s)
                /\ pc' = "restoreSet"
                /\ UNCHANGED <<legacy, memory, excused>>
             \/ /\ RemoveScope(s)           \* its namespace cannot be reached
                /\ Excuse(record.inc)
                /\ UNCHANGED <<want, pc>>
             \/ /\ record.inc # inc         \* gone or reused
                /\ RemoveScope(s)
                /\ UNCHANGED <<want, pc, excused>>
    /\ UNCHANGED <<process, nice, ledger, mode, sample, misread>>

RestoreRenice ==
    /\ pc = "restoreSet"
    /\ \/ Renice
       \/ Excuse(want.inc) /\ UNCHANGED nice    \* a permanent failure
    /\ RemoveScope(want.scope)
    /\ NoMoreWish("restore")
    /\ UNCHANGED <<process, ledger, mode, sample, misread>>

(* Fault: a reload resets the runtime state although a restore was deferred. *)
RestoreEndDiscards ==
    /\ pc = "restore"
    /\ ledger' \in IF mode = "reload" THEN {ledger} ELSE {ledger, Persisted(memory)}
    /\ IF mode = "start" THEN UNCHANGED <<legacy, memory>>
                         ELSE legacy' = Nothing /\ memory' = Nothing
    /\ pc' = IF mode = "stop" THEN "down" ELSE "idle"
    /\ IF mode = "stop" THEN Excuse(inc) ELSE UNCHANGED excused
    /\ mode' = "pass"
    /\ UNCHANGED <<process, nice, sample, want, misread>>

(* The ledger is written after a start and before a stop, not by a reload. *)
RestoreEnd ==
    /\ pc = "restore"
    /\ ledger' \in IF mode = "reload" THEN {ledger} ELSE {ledger, Persisted(memory)}
    /\ IF mode = "stop" THEN pc' = "down" /\ legacy' = Nothing /\ memory' = Nothing
                        ELSE pc' = "idle" /\ UNCHANGED <<legacy, memory>>
    /\ IF mode = "stop" /\ inc # 0 /\ inc \in {legacy.inc, memory.inc} /\ ledger'.inc # inc
         THEN Excuse(inc) ELSE UNCHANGED excused
    /\ mode' = "pass"
    /\ UNCHANGED <<process, nice, sample, want, misread>>

(* legacy renices, and memory renices of this pass, die with the guard. *)
GuardDies ==
    /\ pc # "down"
    /\ pc' = "down" /\ mode' = "pass"
    /\ legacy' = Nothing /\ memory' = Nothing /\ sample' = NoSample /\ want' = NoWish
    /\ IF inc \in {legacy.inc, memory.inc} /\ ledger.inc # inc
         THEN Excuse(inc) ELSE UNCHANGED excused
    /\ UNCHANGED <<process, nice, ledger, misread>>

(* hydrate_mitigations_from: the applied value is not in the ledger, the
   default degradation stands in for it. *)
Hydrate ==
    /\ pc = "down"
    /\ memory' = IF ledger.inc # 0 /\ ledger.inc = inc
                   THEN [ledger EXCEPT !.applied = ledger.orig + 5] ELSE Nothing
    /\ pc' = "restore" /\ mode' = "start"
    /\ UNCHANGED <<process, nice, legacy, ledger, sample, want, excused, misread>>

-----------------------------------------------------------------------------
Process ==
    \/ Exit
    \/ \E v \in Natives : OthersRenice(v) \/ \E n \in Inherited(v) : Start(n)

Pass ==
    \/ PassBegin \/ HeavyDecide \/ HeavySkip \/ HeavyRenice \/ ReniceFails
    \/ Cool \/ CoolRenice \/ CoolDone
    \/ MemDecide \/ MemRenice \/ MemCool \/ MemCoolRenice \/ MemDone \/ PassEnd

Life ==
    \/ \E m \in {"reload", "stop"} : RestoreBegin(m)
    \/ RestoreDecide \/ RestoreRenice \/ RestoreEnd \/ GuardDies \/ Hydrate

Next == Process \/ Pass \/ Life

Spec == Init /\ [][Next]_vars

-----------------------------------------------------------------------------
(* Records of one incarnation agree on its original value: "Both maps
   captured the same pre-limiter nice value" (runtime_adjustment_plan), on
   which the plan's merging of two restores into one rests. *)
BothAgree == legacy.inc # 0 /\ legacy.inc = memory.inc => legacy.orig = memory.orig

(* A process that is not at the nice value it was found with is on record, in a
   map or, while the guard is down, in the ledger: whatever sequence of applies
   and releases of the two limiters, reloads and restarts led here.  What it was
   found with is its own value, except for the child of a degraded parent: no
   limiter looks for what renice leaves to children, so such a child is degraded
   without a record until a limiter degrades it further. *)
DegradedIsRecorded ==
    inc # 0 /\ nice # found /\ ~excused /\ ~misread
        => inc \in (IF pc = "down" THEN {ledger.inc} ELSE {legacy.inc, memory.inc})

(* The value a record will restore is the one the guard found the process with,
   which is the one it would have unless a degraded parent left it its value. *)
OriginalIsTrue ==
    \A r \in {legacy, memory, ledger} :
        r.inc # 0 /\ r.inc = inc /\ ~excused /\ ~misread => r.orig = found

(* The guard only lowers priorities: whatever it applies, merges or restores,
   a process never runs above the priority it was found with, and so not above
   its own. *)
NeverPromoted == inc # 0 /\ ~excused => nice >= found
=============================================================================
