----------------------------- MODULE GuardDaemon -----------------------------
(***************************************************************************)
(* The life of the guard (main.rs): start, policy reload, passes, stop, as *)
(* the daemon and as the one-shot `guard once`, which share a lock file    *)
(* and the mitigation ledger.                                              *)
(*                                                                         *)
(* Of a pass it keeps the process half, and there one write-ahead          *)
(* adjustment for each process: how a limiter works is the matter of its   *)
(* own module, and the disk half that of DiskPass.                         *)
(***************************************************************************)
EXTENDS Naturals, FiniteSets

CONSTANTS
    Adj,           \* processes that may be adjusted
    Policies,      \* what the policy file may say
    MaxCrashes     \* bound: deaths of a guard process

ASSUME GuardAssumption ==
    /\ Policies \subseteq [enabled : BOOLEAN, name : STRING]
    /\ MaxCrashes \in Nat

VARIABLES
    file,       \* the policy file: a policy, or one that does not parse
    ledger,     \* guard-mitigations.json: how it reads, of which boot, its records
    applied,    \* processes whose adjustment is in force
    dropped,    \* ghost: adjustments whose record somebody else removed
    run,        \* the guard processes
    hup, term,  \* the daemon's signal flags
    crashes     \* deaths so far (bound)

vars == <<file, ledger, applied, dropped, run, hup, term, crashes>>
processes == <<ledger, applied, dropped>>
signals == <<hup, term>>

Procs == {"daemon", "once"}
Corrupt == [enabled |-> FALSE, name |-> "corrupt"]
AnyPolicy == CHOOSE p \in Policies : TRUE
Steps == {"down", "hydrate", "restore", "persist", "loop", "reload", "pass",
          "apply", "stop", "stopped"}

\* GuardRuntimeState, with the policy in force and what a pass has read.
Fresh == [mem |-> {}, unavail |-> FALSE, last |-> {}]
Down == [pc |-> "down", rt |-> Fresh, pol |-> AnyPolicy, new |-> AnyPolicy,
         adj |-> {}]

Missing == [reads |-> "missing", old |-> FALSE, recs |-> {}]

Init ==
    /\ file \in Policies
    /\ ledger \in {Missing} \cup [reads : {"legacy"}, old : {FALSE}, recs : {{}, Adj}]
    /\ applied \in {{}, ledger.recs}
    /\ dropped = {}
    /\ run = [p \in Procs |-> Down]
    /\ hup = FALSE /\ term = FALSE /\ crashes = 0

-----------------------------------------------------------------------------
At(p, pc) == run[p].pc = pc
Goto(p, pc) == run' = [run EXCEPT ![p].pc = pc]

\* flock: the lock file's owner holds it until it exits, however it exits.
LockIsFree == \A p \in Procs : At(p, "down")

\* Fault: the lock is not asked for.
StartUnlocked(p) ==
    /\ At(p, "down")
    /\ file # Corrupt /\ (p = "daemon" => file.enabled)
    /\ run' = [run EXCEPT ![p] = [Down EXCEPT !.pc = "hydrate", !.pol = file, !.new = file]]
    /\ IF p = "daemon" THEN hup' = FALSE /\ term' = FALSE ELSE UNCHANGED signals
    /\ UNCHANGED <<file, processes, crashes>>

\* cmd_guard_daemon, cmd_guard_once: a policy that does not parse ends the
\* program, a disabled one ends the daemon; then the lock.
Start(p) ==
    /\ LockIsFree
    /\ file # Corrupt /\ (p = "daemon" => file.enabled)
    /\ run' = [run EXCEPT ![p] = [Down EXCEPT !.pc = "hydrate", !.pol = file, !.new = file]]
    /\ IF p = "daemon" THEN hup' = FALSE /\ term' = FALSE ELSE UNCHANGED signals
    /\ UNCHANGED <<file, processes, crashes>>

-----------------------------------------------------------------------------
(* The ledger.                                                             *)

\* hydrate_mitigations_from: the runtimes it may leave. Processes that have
\* gone are not adopted; a previous boot's ledger is archived, unless that
\* fails; what cannot be read, or was written before boots were recorded, makes
\* the ledger unavailable.
Hydrated(rt) ==
    LET Adopted(S, flag) == [rt EXCEPT !.mem = @ \cup S, !.unavail = flag]
        Live == {S \in SUBSET ledger.recs : ledger.recs \cap applied \subseteq S}
    IN CASE ledger.reads = "missing" -> {rt}
         [] ledger.reads = "bad" -> {Adopted({}, TRUE)}
         [] ledger.reads = "legacy" -> {Adopted(S, ledger.recs # {}) : S \in Live}
         [] ledger.reads = "ok" /\ ledger.old -> {Adopted({}, flag) : flag \in BOOLEAN}
         [] OTHER -> {Adopted(S, FALSE) : S \in Live}

\* persist_mitigations_to: nothing is written while the ledger is unavailable,
\* nor when the records are those last written. Each alternative is the runtime
\* and the ledger after it; the write may fail. (Torn writes: OomBias.)
Saved(rt) ==
    {[rt |-> rt, ledger |-> ledger]} \cup
    (IF rt.unavail \/ rt.last = {rt.mem} THEN {}
     ELSE {[rt |-> [rt EXCEPT !.last = {rt.mem}],
            ledger |-> [reads |-> "ok", old |-> FALSE, recs |-> rt.mem]]})
IsSaved(rt) == ~rt.unavail /\ rt.last = {rt.mem}

\* restore_runtime_adjustments: some are restored, the others stay on record;
\* nothing is done while the ledger is unavailable. Each alternative is what
\* is left.
Unrestored(rt) == IF rt.unavail THEN {rt.mem} ELSE SUBSET rt.mem
Lifted(rt, left) == applied' = applied \ (rt.mem \ left)

-----------------------------------------------------------------------------
(* From start to loop, and the loop's head.                                *)

Hydrate(p) ==
    /\ At(p, "hydrate")
    /\ \E rt \in Hydrated(run[p].rt) :
         run' = [run EXCEPT ![p].rt = rt,
                            ![p].pc = IF p = "once" /\ rt.mem = {} THEN "pass" ELSE "restore"]
    /\ UNCHANGED <<file, processes, signals, crashes>>

Restore(p) ==
    /\ At(p, "restore")
    /\ \E left \in Unrestored(run[p].rt) :
         /\ Lifted(run[p].rt, left)
         /\ run' = [run EXCEPT ![p].rt.mem = left,
                               ![p].pc = IF p = "once" THEN "pass" ELSE "persist"]
    /\ UNCHANGED <<file, ledger, dropped, signals, crashes>>

\* The daemon's persists outside a pass: after the start, and at the very end.
PersistStart ==
    /\ At("daemon", "persist")
    /\ \E after \in Saved(run["daemon"].rt) :
         /\ ledger' = after.ledger
         /\ run' = [run EXCEPT !["daemon"].pc = "loop", !["daemon"].rt = after.rt]
    /\ UNCHANGED <<file, applied, dropped, signals, crashes>>

PersistEnd ==
    /\ At("daemon", "stopped")
    /\ \E after \in Saved(run["daemon"].rt) : ledger' = after.ledger
    /\ run' = [run EXCEPT !["daemon"] = Down]
    /\ hup' = FALSE /\ term' = FALSE
    /\ UNCHANGED <<file, applied, dropped, crashes>>

LoopStops ==
    /\ At("daemon", "loop") /\ term
    /\ Goto("daemon", "stop")
    /\ UNCHANGED <<file, processes, signals, crashes>>

\* The loop's head: an unavailable ledger is tried again; the reload flag is
\* cleared before the policy is read, and one that does not parse is ignored.
Loop ==
    LET r == run["daemon"]  reload == hup /\ file # Corrupt IN
    /\ r.pc = "loop" /\ ~term
    /\ \E rt \in IF r.rt.unavail THEN Hydrated(r.rt) ELSE {r.rt} :
         run' = [run EXCEPT !["daemon"].rt = rt,
                            !["daemon"].pc = IF reload THEN "reload" ELSE "pass",
                            !["daemon"].new = IF reload THEN file ELSE @]
    /\ hup' = FALSE
    /\ UNCHANGED <<file, processes, term, crashes>>

\* Fault: a policy that disables the guard is deferred like any other.
DefersAny(rt, new) == rt.mem # {} \/ rt.unavail

\* apply_policy_reload keeps the old policy while something is owed, unless
\* the new one disables the guard.
Defers(rt, new) == (rt.mem # {} \/ rt.unavail) /\ new.enabled

\* The runtime is replaced only when nothing is owed.
Reset(rt) == IF rt.mem = {} /\ ~rt.unavail THEN Fresh ELSE rt

\* Fault: the flag is cleared when the reload is done.
ReloadClears ==
    LET r == run["daemon"] IN
    /\ r.pc = "reload"
    /\ \E left \in Unrestored(r.rt) : LET rt == [r.rt EXCEPT !.mem = left] IN
         /\ Lifted(r.rt, left)
         /\ run' = IF Defers(rt, r.new)
                   THEN [run EXCEPT !["daemon"].rt = rt, !["daemon"].pc = "loop"]
                   ELSE [run EXCEPT !["daemon"].rt = Reset(rt), !["daemon"].pol = r.new,
                            !["daemon"].pc = IF r.new.enabled THEN "pass" ELSE "stop"]
    /\ hup' = FALSE
    /\ UNCHANGED <<file, ledger, dropped, term, crashes>>

\* Restore, then apply or defer; a deferred policy is forgotten, and a
\* disabled guard leaves the loop.
Reload ==
    LET r == run["daemon"] IN
    /\ r.pc = "reload"
    /\ \E left \in Unrestored(r.rt) : LET rt == [r.rt EXCEPT !.mem = left] IN
         /\ Lifted(r.rt, left)
         /\ run' = IF Defers(rt, r.new)
                   THEN [run EXCEPT !["daemon"].rt = rt, !["daemon"].pc = "loop"]
                   ELSE [run EXCEPT !["daemon"].rt = Reset(rt), !["daemon"].pol = r.new,
                            !["daemon"].pc = IF r.new.enabled THEN "pass" ELSE "stop"]
    /\ UNCHANGED <<file, ledger, dropped, signals, crashes>>

-----------------------------------------------------------------------------
(* One pass, run_guard_once.                                               *)

After(p) == IF p = "once" THEN "stop" ELSE "loop"

\* The primary disk, or the process list, cannot be read: the rest of the pass
\* is skipped, with its persist.
PassFails(p) ==
    /\ At(p, "pass")
    /\ Goto(p, After(p))
    /\ UNCHANGED <<file, processes, signals, crashes>>

\* apply_oom_bias: the record is durable before the process is touched.
Intend(p, a) ==
    LET r == run[p]  rt == [r.rt EXCEPT !.mem = @ \cup {a}] IN
    /\ r.pc = "pass" /\ ~r.rt.unavail /\ a \notin r.rt.mem
    /\ \E after \in Saved(rt) :
         /\ IsSaved(after.rt)
         /\ ledger' = after.ledger
         /\ run' = [run EXCEPT ![p].pc = "apply", ![p].adj = {a}, ![p].rt = after.rt]
    /\ UNCHANGED <<file, applied, dropped, signals, crashes>>

\* The write to the process, which may fail; the record is kept.
Apply(p) ==
    /\ At(p, "apply")
    /\ applied' \in {applied, applied \cup run[p].adj}
    /\ run' = [run EXCEPT ![p].pc = "pass", ![p].adj = {}]
    /\ UNCHANGED <<file, ledger, dropped, signals, crashes>>

\* check_memory_pressure releases what is no longer wanted, or has gone.
Release(p, a) ==
    /\ At(p, "pass") /\ a \in run[p].rt.mem /\ ~run[p].rt.unavail
    /\ applied' = applied \ {a}
    /\ run' = [run EXCEPT ![p].rt.mem = @ \ {a}]
    /\ UNCHANGED <<file, ledger, dropped, signals, crashes>>

PassEnd(p) ==
    /\ At(p, "pass")
    /\ \E after \in Saved(run[p].rt) :
         /\ ledger' = after.ledger
         /\ run' = [run EXCEPT ![p].pc = After(p), ![p].rt = after.rt]
    /\ UNCHANGED <<file, applied, dropped, signals, crashes>>

\* The last restore. The daemon persists after it, a one-shot run does not.
Stop(p) ==
    LET rt == run[p].rt IN
    /\ At(p, "stop")
    /\ \E left \in Unrestored(rt) :
         /\ Lifted(rt, left)
         /\ run' = IF p = "once" THEN [run EXCEPT ![p] = Down]
                   ELSE [run EXCEPT ![p].rt.mem = left, ![p].pc = "stopped"]
    /\ UNCHANGED <<file, ledger, dropped, signals, crashes>>

Die(p) ==
    /\ ~At(p, "down") /\ crashes < MaxCrashes
    /\ crashes' = crashes + 1
    /\ run' = [run EXCEPT ![p] = Down]
    /\ IF p = "daemon" THEN hup' = FALSE /\ term' = FALSE ELSE UNCHANGED signals
    /\ UNCHANGED <<file, processes>>

-----------------------------------------------------------------------------
(* Everybody else.                                                         *)

Hangup ==
    /\ ~At("daemon", "down") /\ ~hup
    /\ hup' = TRUE
    /\ UNCHANGED <<file, processes, run, term, crashes>>

Terminate ==
    /\ ~At("daemon", "down") /\ ~term
    /\ term' = TRUE
    /\ UNCHANGED <<file, processes, run, hup, crashes>>

EditPolicy ==
    /\ file' \in (Policies \cup {Corrupt}) \ {file}
    /\ UNCHANGED <<processes, run, signals, crashes>>

\* An adjusted process exits, or somebody else sets the value back.
Exits(a) ==
    /\ a \in applied
    /\ applied' = applied \ {a}
    /\ UNCHANGED <<file, ledger, dropped, run, signals, crashes>>

\* The ledger is damaged, repaired, or removed by an operator.
Damage ==
    /\ ledger.reads = "ok" /\ ledger' = [ledger EXCEPT !.reads = "bad"]
    /\ UNCHANGED <<file, applied, dropped, run, signals, crashes>>
Repair ==
    /\ ledger.reads \in {"bad", "legacy"} /\ ledger' = [ledger EXCEPT !.reads = "ok"]
    /\ UNCHANGED <<file, applied, dropped, run, signals, crashes>>
Remove ==
    /\ ledger.reads \in {"bad", "legacy"} /\ ledger' = Missing
    /\ dropped' = dropped \cup ledger.recs
    /\ UNCHANGED <<file, applied, run, signals, crashes>>

\* Processes end with the boot.
Reboot ==
    /\ crashes < MaxCrashes
    /\ crashes' = crashes + 1
    /\ applied' = {} /\ dropped' = {}
    /\ run' = [p \in Procs |-> Down]
    /\ ledger' = [ledger EXCEPT !.old = ledger.reads \in {"ok", "bad"}]
    /\ hup' = FALSE /\ term' = FALSE
    /\ UNCHANGED file

-----------------------------------------------------------------------------
Guard(p) ==
    \/ Start(p) \/ Hydrate(p) \/ Restore(p)
    \/ PassFails(p) \/ Apply(p) \/ PassEnd(p) \/ Stop(p) \/ Die(p)
    \/ \E a \in Adj : Intend(p, a) \/ Release(p, a)
Daemon == PersistStart \/ LoopStops \/ Loop \/ Reload \/ PersistEnd

World ==
    \/ Hangup \/ Terminate \/ EditPolicy
    \/ \E a \in Adj : Exits(a)
    \/ Damage \/ Repair \/ Remove \/ Reboot

Next == (\E p \in Procs : Guard(p)) \/ Daemon \/ World

Spec == Init /\ [][Next]_vars

(* Every call of the guard returns or times out, so that a process that runs
   goes on: a pass ends, a daemon comes round its loop. Nobody need start one. *)
Fairness ==
    /\ WF_vars(Daemon)
    /\ \A p \in Procs : WF_vars(Hydrate(p) \/ Restore(p) \/ Apply(p) \/ Stop(p))
                        /\ SF_vars(PassEnd(p))
FairSpec == Spec /\ Fairness

-----------------------------------------------------------------------------
(* The types: the policy file, the ledger, what is in force, and the runtime
   state of the daemon and of the one-shot run. *)
TypeOK ==
    /\ file \in Policies \cup {Corrupt}
    /\ ledger \in [reads : {"missing", "bad", "legacy", "ok"}, old : BOOLEAN, recs : SUBSET Adj]
    /\ applied \subseteq Adj /\ dropped \subseteq Adj
    /\ \A p \in Procs : LET r == run[p] IN
         /\ r.pc \in Steps /\ r.pol \in Policies /\ r.new \in Policies
         /\ r.adj \subseteq r.rt.mem /\ r.rt.mem \subseteq Adj /\ r.rt.unavail \in BOOLEAN
         /\ r.rt.last \in {{}} \cup {{S} : S \in SUBSET Adj}
    /\ hup \in BOOLEAN /\ term \in BOOLEAN /\ crashes \in 0 .. MaxCrashes

(* An adjustment in force has its record on disk, in bytes that can be read or
   repaired: through crashes, reloads, one-shot runs beside the daemon, an
   unreadable ledger and everything else that might write over it
   (hydrate_mitigations_from, "Unreadable/corrupt state is NOT empty"). *)
Durable == applied \ dropped \subseteq ledger.recs

(* A reload that disables the guard stops it, whatever cannot be restored
   (cmd_guard_daemon, audit F93). *)
DisableStops ==
    hup /\ file \in Policies /\ ~file.enabled
        ~> At("daemon", "down") \/ file = Corrupt \/ file.enabled

(* A reload is not lost, though it comes while another is being made: the
   policy it was sent for comes into force, unless something is owed or the
   ledger cannot be used at that moment (apply_policy_reload defers it then). *)
ReloadTaken ==
    \A new \in Policies :
        hup /\ file = new ~>
            LET r == run["daemon"] IN
            \/ r.pol = new \/ file # new \/ r.pc = "down" \/ term
            \/ r.rt.mem # {} \/ r.rt.unavail
=============================================================================
