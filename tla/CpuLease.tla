------------------------------ MODULE CpuLease ------------------------------
(***************************************************************************)
(* The reversible CPU lease of src/src/cpu_limit.rs on ONE workload scope. *)
(*                                                                         *)
(* Three kinds of process work on the scope's CPUQuota: the guard, which   *)
(* caps and releases it (and recovers leases when it starts); one expiry   *)
(* service per lease generation, which the user manager starts when the    *)
(* lease's timer elapses and restarts until it succeeds; and an operator,  *)
(* who sets any quota at any time.  The lease file, its lock file and the  *)
(* manager's timers are the only things they share.  Leases of different   *)
(* scopes share nothing but a directory, so one scope is modelled.         *)
(*                                                                         *)
(* A generation is a number, in the order the guard drew them; generation  *)
(* 0 is "no lease".  An invocation of the scope is a number too; unit = 0  *)
(* is a scope the manager reports as not-found.                            *)
(***************************************************************************)
EXTENDS Integers, FiniteSets

CONSTANTS
    Quotas,     \* the CPUQuotaPerSecUSec values that occur, as numbers
    Targets,    \* the values "percent * 10_000" a policy may ask for
    NoLimit,    \* the quota of a fresh scope (u64::MAX, "infinity")
    MaxGen,     \* bound: lease generations drawn
    MaxInv,     \* bound: invocations of the scope
    MaxBoot     \* bound: boots of the machine

ASSUME BoundsAssumption ==
    /\ MaxGen \in Nat /\ MaxInv \in Nat /\ MaxBoot \in Nat \ {0}
    /\ Quotas \subseteq Nat /\ Targets \subseteq Quotas
    /\ NoLimit \in Quotas

VARIABLES
    unit,       \* the scope's current invocation, 0 when not loaded
    nextInv,    \* the invocation the scope gets when it is started next
    boot,       \* the boot id
    quota,      \* [val, by]: the scope's quota and, for the properties, whose it is
    file,       \* the lease file on disk, NoLease when there is none
    timer,      \* per generation: none, waiting, elapsed (its service retries), done
    expired,    \* generations whose expires_at_unix_secs the wall clock has passed
    holder,     \* who holds the lock file
    cs,         \* [pc, lease]: where the lock holder is, and its copy of the lease
    moved,      \* quota or unit was changed by others since the holder last read them
    gpc,        \* the guard: down, recovering, hydrating, up
    gInv,       \* the invocation a cap read BEFORE it takes the lock, 0 when not capping
    rec,        \* generations in the guard's capped_pids
    ledger,     \* the generations the persisted mitigation ledger holds
    ng          \* generations drawn so far

vars == <<unit, nextInv, boot, quota, file, timer, expired, holder, cs,
          moved, gpc, gInv, rec, ledger, ng>>
world == <<unit, nextInv, boot, expired>>
guardVars == <<gpc, gInv, rec, ledger, ng>>

Gens == 1 .. MaxGen
Guard == 0              \* lock holders: the guard, or the service of a generation
Nobody == -1
External == 0           \* quota owners: external, a generation, or Stray
Stray == -1             \* a cap that landed on an invocation no lease names

Lease == [gen : 0 .. MaxGen, inv : 0 .. MaxInv, boot : 1 .. MaxBoot,
          original : Quotas, applied : Quotas, armed : BOOLEAN, verified : BOOLEAN]
NoLease == [gen |-> 0, inv |-> 0, boot |-> 1, original |-> NoLimit,
            applied |-> NoLimit, armed |-> FALSE, verified |-> FALSE]
Armed(lease) == [lease EXCEPT !.armed = TRUE]
Verified(lease) == [lease EXCEPT !.verified = TRUE]
Outside == [pc |-> "out", lease |-> NoLease]

Decisions == {"reuse", "restoreUnprotected", "dropUnapplied", "preserveExternal"}
Steps == {"out", "saveIntent", "arm", "saveArmed", "validate", "capSet",
          "saveVerified", "relRead", "relSet", "relRemove"} \cup Decisions

(* The types: the scope and its quota, the lease file (CpuLease), the timers, the
   holder of the lock, the guard and its ledger. *)
TypeOK ==
    /\ unit \in 0 .. MaxInv
    /\ nextInv \in 1 .. MaxInv + 1
    /\ boot \in 1 .. MaxBoot
    /\ quota \in [val : Quotas, by : {Stray, External} \cup Gens]
    /\ file \in Lease
    /\ timer \in [Gens -> {"none", "waiting", "elapsed", "done"}]
    /\ expired \subseteq Gens
    /\ holder \in {Nobody, Guard} \cup Gens
    /\ cs \in [pc : Steps, lease : Lease]
    /\ moved \in BOOLEAN
    /\ gpc \in {"down", "recovering", "hydrating", "up"}
    /\ gInv \in 0 .. MaxInv
    /\ rec \subseteq Gens
    /\ ledger \subseteq Gens
    /\ ng \in 0 .. MaxGen

Init ==
    /\ unit = 0 /\ nextInv = 1 /\ boot = 1
    /\ quota = [val |-> NoLimit, by |-> External]
    /\ file = NoLease
    /\ timer = [g \in Gens |-> "none"]
    /\ expired = {}
    /\ holder = Nobody /\ cs = Outside /\ moved = FALSE
    /\ gpc = "down" /\ gInv = 0 /\ rec = {} /\ ledger = {}
    /\ ng = 0

-----------------------------------------------------------------------------
(* Leaving the critical section: the lock file is dropped with the handle. *)
Leave ==
    /\ holder' = Nobody /\ cs' = Outside
    /\ gInv' = IF holder = Guard THEN 0 ELSE gInv
Goto(pc) == cs' = [pc |-> pc, lease |-> cs.lease] /\ UNCHANGED <<holder, gInv>>

(* A step whose effect may be followed by success or, the call having timed
   out or its verification having failed, by an error return. *)
ThenOrFail(pc) == Goto(pc) \/ Leave

GuardIdle == gpc = "up" /\ holder # Guard /\ gInv = 0
InCap(pc) == holder = Guard /\ cs.pc = pc

(* SetUnitProperties on a unit that is not loaded is an error; reading the
   quota of one is not, and yields the default, no limit. *)
SetQuota(v, owner) == unit # 0 /\ quota' = [val |-> v, by |-> owner]

-----------------------------------------------------------------------------
(* cap_prepared: the invocation is read, and the scope must be active,
   before the lock is tried. *)
CapObserve ==
    /\ GuardIdle
    /\ unit # 0
    /\ gInv' = unit
    /\ UNCHANGED <<world, quota, file, timer, holder, cs, moved, gpc, rec, ledger, ng>>

(* Lock busy, property unreadable, quota already as strict: nothing claimed. *)
CapRefuse ==
    /\ gInv # 0 /\ holder # Guard
    /\ gInv' = 0
    /\ UNCHANGED <<world, quota, file, timer, holder, cs, moved, gpc, rec, ledger, ng>>

CapEnters == gInv # 0 /\ holder = Nobody
NamesThisUnit(lease) == lease.inv = gInv /\ lease.boot = boot

(* An intent of another invocation or boot is retired, the unit untouched. *)
CapRetireStale ==
    /\ CapEnters
    /\ file # NoLease /\ ~NamesThisUnit(file)
    /\ file' = NoLease
    /\ gInv' = 0
    /\ UNCHANGED <<world, quota, timer, holder, cs, moved, gpc, rec, ledger, ng>>

(* The timer unit reads "active" while it waits, and may still read so while
   its elapsed service is retrying. *)
TimerReads(g, active) ==
    /\ active => timer[g] \in {"waiting", "elapsed"}
    /\ ~active => timer[g] # "waiting"

(* Fault: an intent whose timer is not armed is dropped without restoring. *)
ReconcileIntentDrops(lease, current, armed) ==
    IF current = lease.applied
      THEN IF armed THEN "reuse" ELSE "dropUnapplied"
      ELSE IF current = lease.original /\ ~lease.verified
             THEN "dropUnapplied" ELSE "preserveExternal"

(* Fault: an intent at its applied quota is reused whether armed or not. *)
ReconcileIntentReuses(lease, current, armed) ==
    IF current = lease.applied THEN "reuse"
      ELSE IF current = lease.original /\ ~lease.verified
             THEN "dropUnapplied" ELSE "preserveExternal"

(* What reconcile_intent makes of an existing intent. *)
ReconcileIntent(lease, current, armed) ==
    IF current = lease.applied
      THEN IF armed THEN "reuse" ELSE "restoreUnprotected"
      ELSE IF current = lease.original /\ ~lease.verified
             THEN "dropUnapplied" ELSE "preserveExternal"

CapReconcile ==
    /\ CapEnters
    /\ file # NoLease /\ NamesThisUnit(file)
    /\ \E active \in BOOLEAN :
          /\ TimerReads(file.gen, active)
          /\ cs' = [pc |-> ReconcileIntent(file, quota.val,
                              file.armed /\ file.gen \notin expired /\ active),
                    lease |-> file]
    /\ holder' = Guard
    /\ moved' = FALSE
    /\ UNCHANGED <<world, quota, file, timer, guardVars>>

(* The guard records what cap returned, unless the last save reported an error. *)
RecordOrFail == rec' \in {rec, rec \cup {cs.lease.gen}}

CapReuse ==
    /\ InCap("reuse")
    /\ file' = Verified(cs.lease)
    /\ RecordOrFail
    /\ Leave
    /\ UNCHANGED <<world, quota, timer, moved, gpc, ledger, ng>>

CapRestoreUnprotected ==
    /\ InCap("restoreUnprotected")
    /\ SetQuota(cs.lease.original, External)
    /\ ThenOrFail("dropUnapplied")
    /\ UNCHANGED <<world, file, timer, moved, gpc, rec, ledger, ng>>

CapDropUnapplied ==
    /\ InCap("dropUnapplied")
    /\ file' = NoLease
    /\ Leave
    /\ UNCHANGED <<world, quota, timer, moved, gpc, rec, ledger, ng>>

(* No intent on disk: read the original quota and draw a generation. *)
CapRead ==
    /\ CapEnters
    /\ file = NoLease /\ ng < MaxGen
    /\ \E target \in Targets :
          /\ quota.val > target
          /\ cs' = [pc |-> "saveIntent",
                    lease |-> [gen |-> ng + 1, inv |-> gInv, boot |-> boot,
                               original |-> quota.val, applied |-> target,
                               armed |-> FALSE, verified |-> FALSE]]
    /\ holder' = Guard
    /\ ng' = ng + 1
    /\ moved' = FALSE
    /\ UNCHANGED <<world, quota, file, timer, gpc, gInv, rec, ledger>>

(* Durable intent precedes the timer and the mutation. *)
CapSaveIntent ==
    /\ InCap("saveIntent")
    /\ file' = cs.lease
    /\ ThenOrFail("arm")
    /\ UNCHANGED <<world, quota, timer, moved, gpc, rec, ledger, ng>>

CapArm ==
    /\ InCap("arm")
    /\ timer' = [timer EXCEPT ![cs.lease.gen] = "waiting"]
    /\ ThenOrFail("saveArmed")
    /\ UNCHANGED <<world, quota, file, moved, gpc, rec, ledger, ng>>

CapSaveArmed ==
    /\ InCap("saveArmed")
    /\ TimerReads(cs.lease.gen, TRUE)
    /\ file' = Armed(cs.lease)
    /\ \/ cs' = [pc |-> "validate", lease |-> Armed(cs.lease)]
          /\ UNCHANGED <<holder, gInv>>
       \/ Leave
    /\ UNCHANGED <<world, quota, timer, moved, gpc, rec, ledger, ng>>

(* The last reads before the mutation: quota, invocation, wall clock. *)
CapValidate ==
    /\ InCap("validate")
    /\ quota.val = cs.lease.original
    /\ unit = cs.lease.inv
    /\ cs.lease.gen \notin expired
    /\ Goto("capSet")
    /\ moved' = FALSE
    /\ UNCHANGED <<world, quota, file, timer, gpc, rec, ledger, ng>>

CapSet ==
    /\ InCap("capSet")
    /\ SetQuota(cs.lease.applied, IF unit = cs.lease.inv THEN cs.lease.gen ELSE Stray)
    /\ ThenOrFail("saveVerified")
    /\ UNCHANGED <<world, file, timer, moved, gpc, rec, ledger, ng>>

CapSaveVerified ==
    /\ InCap("saveVerified")
    /\ file' = Verified(cs.lease)
    /\ RecordOrFail
    /\ Leave
    /\ UNCHANGED <<world, quota, timer, moved, gpc, ledger, ng>>

-----------------------------------------------------------------------------
(* release_with, called by the guard for a recorded generation, by recover
   for the generation it read from the file, or by an expiry service. *)
ReleaseEnter(p, g) ==
    /\ holder = Nobody
    /\ file # NoLease /\ file.gen = g
    /\ holder' = p
    /\ cs' = [pc |-> "relRead", lease |-> file]
    /\ UNCHANGED <<world, quota, file, timer, moved, gInv, rec, ledger, ng>>

(* No file, or the file of another generation: an obsolete release is Ok. *)
Obsolete(g) == holder = Nobody /\ file.gen # g

(* Fault: ownership is checked, the current quota is not. *)
ReleaseReadNoCompare ==
    /\ cs.pc = "relRead"
    /\ LET owned == cs.lease.boot = boot /\ cs.lease.inv = unit IN
       Goto(IF owned THEN "relSet" ELSE "relRemove")
    /\ moved' = FALSE
    /\ UNCHANGED <<world, quota, file, timer, gpc, rec, ledger, ng>>

(* Is the unit still the one the lease names, and at the leased quota? *)
ReleaseRead ==
    /\ cs.pc = "relRead"
    /\ LET owned == cs.lease.boot = boot /\ cs.lease.inv = unit IN
       Goto(IF owned /\ quota.val = cs.lease.applied THEN "relSet" ELSE "relRemove")
    /\ moved' = FALSE
    /\ UNCHANGED <<world, quota, file, timer, gpc, rec, ledger, ng>>

ReleaseSet ==
    /\ cs.pc = "relSet"
    /\ SetQuota(cs.lease.original, External)
    /\ ThenOrFail("relRemove")
    /\ UNCHANGED <<world, file, timer, moved, gpc, rec, ledger, ng>>

(* Stopping the timer is best effort; an elapsed timer's service goes on. *)
ReleaseRemove ==
    /\ cs.pc = "relRemove"
    /\ file' = NoLease
    /\ LET g == cs.lease.gen IN
       timer' \in IF holder = g THEN {[timer EXCEPT ![g] = "done"]}
                  ELSE IF timer[g] = "waiting" THEN {timer, [timer EXCEPT ![g] = "none"]}
                  ELSE {timer}
    /\ rec' = IF holder = Guard THEN rec \ {cs.lease.gen} ELSE rec
    /\ Leave
    /\ UNCHANGED <<world, quota, moved, gpc, ledger, ng>>

(* Fault: an expiry service that failed is not started again. *)
AbortNoRestart ==
    /\ holder # Nobody
    /\ Leave
    /\ timer' = IF holder \in Gens THEN [timer EXCEPT ![holder] = "done"] ELSE timer
    /\ UNCHANGED <<world, quota, file, moved, gpc, rec, ledger, ng>>

(* Any call in the critical section may fail, any check may refuse, and the
   process may be killed: the lock is dropped and nothing else changes.  A
   guard goes on with its pass; a failed expiry service is restarted. *)
Abort ==
    /\ holder # Nobody
    /\ Leave
    /\ UNCHANGED <<world, quota, file, timer, moved, gpc, rec, ledger, ng>>

-----------------------------------------------------------------------------
(* The guard around the leases. *)
GuardRelease(g) ==
    /\ GuardIdle /\ g \in rec
    /\ ReleaseEnter(Guard, g)
    /\ UNCHANGED gpc

GuardReleaseObsolete(g) ==
    /\ GuardIdle /\ g \in rec
    /\ Obsolete(g)
    /\ rec' = rec \ {g}
    /\ UNCHANGED <<world, quota, file, timer, holder, cs, moved, gpc, gInv, ledger, ng>>

(* The prune at the end of check_memory_pressure drops the record of a root
   that is gone or reused, without a release. *)
GuardForget(g) ==
    /\ GuardIdle /\ g \in rec
    /\ rec' = rec \ {g}
    /\ UNCHANGED <<world, quota, file, timer, holder, cs, moved, gpc, gInv, ledger, ng>>

GuardPersist ==
    /\ GuardIdle
    /\ ledger' = rec
    /\ UNCHANGED <<world, quota, file, timer, holder, cs, moved, gpc, gInv, rec, ng>>

GuardStart ==
    /\ gpc = "down"
    /\ gpc' = "recovering"
    /\ UNCHANGED <<world, quota, file, timer, holder, cs, moved, gInv, rec, ledger, ng>>

(* recover: one release per lease file; an error is logged, the file kept. *)
Recover ==
    /\ gpc = "recovering"
    /\ ReleaseEnter(Guard, file.gen)
    /\ gpc' = "hydrating"

RecoverNothing ==
    /\ gpc = "recovering"
    /\ file = NoLease \/ holder # Nobody
    /\ gpc' = "hydrating"
    /\ UNCHANGED <<world, quota, file, timer, holder, cs, moved, gInv, rec, ledger, ng>>

Hydrate ==
    /\ gpc = "hydrating" /\ holder # Guard
    /\ gpc' = "up"
    /\ rec' = ledger
    /\ UNCHANGED <<world, quota, file, timer, holder, cs, moved, gInv, ledger, ng>>

(* The guard dies, or is told to stop, anywhere. *)
GuardDies ==
    /\ gpc # "down"
    /\ gpc' = "down" /\ rec' = {} /\ gInv' = 0
    /\ IF holder = Guard THEN holder' = Nobody /\ cs' = Outside
                         ELSE UNCHANGED <<holder, cs>>
    /\ UNCHANGED <<world, quota, file, timer, moved, ledger, ng>>

-----------------------------------------------------------------------------
(* The user manager: --on-active, Restart=on-failure. *)
TimerElapse(g) ==
    /\ timer[g] = "waiting"
    /\ timer' = [timer EXCEPT ![g] = "elapsed"]
    /\ UNCHANGED <<world, quota, file, holder, cs, moved, guardVars>>

ExpiryEnter(g) ==
    /\ timer[g] = "elapsed"
    /\ ReleaseEnter(g, g)
    /\ UNCHANGED gpc

ExpiryObsolete(g) ==
    /\ timer[g] = "elapsed"
    /\ Obsolete(g)
    /\ timer' = [timer EXCEPT ![g] = "done"]
    /\ UNCHANGED <<world, quota, file, holder, cs, moved, guardVars>>

(* The wall clock passes a lease's expires_at_unix_secs; the timer runs on
   the monotonic clock, so neither bounds the other. *)
WallClockExpires(g) ==
    /\ g <= ng
    /\ expired' = expired \cup {g}
    /\ UNCHANGED <<unit, nextInv, boot, quota, file, timer, holder, cs, moved, guardVars>>

(* systemctl set-property by somebody else. *)
OperatorSets(q) ==
    /\ unit # 0
    /\ quota' = [val |-> q, by |-> External]
    /\ moved' = TRUE
    /\ UNCHANGED <<world, file, timer, holder, cs, guardVars>>

UnitStops ==
    /\ unit # 0
    /\ unit' = 0
    /\ quota' = [val |-> NoLimit, by |-> External]
    /\ moved' = TRUE
    /\ UNCHANGED <<nextInv, boot, expired, file, timer, holder, cs, guardVars>>

UnitStarts ==
    /\ unit = 0 /\ nextInv <= MaxInv
    /\ unit' = nextInv
    /\ nextInv' = nextInv + 1
    /\ moved' = TRUE
    /\ UNCHANGED <<boot, expired, quota, file, timer, holder, cs, guardVars>>

(* Scopes, runtime quotas and transient timers end with the boot; the lease
   file, fsynced, stays; a ledger of another boot is never adopted. *)
Reboot ==
    /\ boot < MaxBoot
    /\ boot' = boot + 1
    /\ unit' = 0
    /\ quota' = [val |-> NoLimit, by |-> External]
    /\ timer' = [g \in Gens |-> "none"]
    /\ holder' = Nobody /\ cs' = Outside /\ moved' = TRUE
    /\ gpc' = "down" /\ gInv' = 0 /\ rec' = {} /\ ledger' = {}
    /\ UNCHANGED <<nextInv, expired, file, ng>>

-----------------------------------------------------------------------------
Cap ==
    \/ CapObserve \/ CapRefuse \/ CapRetireStale \/ CapReconcile \/ CapReuse
    \/ CapRestoreUnprotected \/ CapDropUnapplied \/ CapRead \/ CapSaveIntent
    \/ CapArm \/ CapSaveArmed \/ CapValidate \/ CapSet \/ CapSaveVerified

Release == ReleaseRead \/ ReleaseSet \/ ReleaseRemove

GuardLife ==
    \/ GuardPersist \/ GuardStart \/ Recover \/ RecoverNothing \/ Hydrate \/ GuardDies
    \/ \E g \in Gens : GuardRelease(g) \/ GuardReleaseObsolete(g) \/ GuardForget(g)

Manager == \E g \in Gens : TimerElapse(g) \/ ExpiryEnter(g) \/ ExpiryObsolete(g)

Environment ==
    \/ UnitStops \/ UnitStarts \/ Reboot
    \/ \E q \in Quotas : OperatorSets(q)
    \/ \E g \in Gens : WallClockExpires(g)

Next == Cap \/ Release \/ Abort \/ GuardLife \/ Manager \/ Environment

Spec == Init /\ [][Next]_vars

(* Every call has a timeout, so whoever holds the lock leaves it; a timer
   elapses; and the steps of a restarted expiry service succeed if they are
   tried for ever.  Nothing is assumed of the guard: it may stay down. *)
Fairness ==
    /\ WF_vars(holder # Nobody /\ (Cap \/ Release \/ Abort) /\ holder' = Nobody)
    /\ \A g \in Gens :
          /\ WF_vars(TimerElapse(g))
          /\ SF_vars(ExpiryEnter(g))
          /\ SF_vars(holder = g /\ ReleaseRead)
          /\ SF_vars(holder = g /\ ReleaseSet)
          /\ SF_vars(holder = g /\ ReleaseRemove)

FairSpec == Spec /\ Fairness

-----------------------------------------------------------------------------
(* Whenever the scope runs at a quota the guard applied, the lease that can
   lift it is on disk, marked armed, names this invocation and this boot and
   keeps the original quota, and its expiry timer waits or its service is
   being retried: there is no instant at which a crash of the guard would
   leave the workload throttled for good (cap_prepared's order of writes,
   release_with's and the reconciliation's order of restore and remove). *)
AppliedIsBacked ==
    quota.by \in Gens =>
        /\ file.gen = quota.by /\ file.armed
        /\ file.inv = unit /\ file.boot = boot
        /\ quota.val = file.applied /\ file.applied < file.original
        /\ timer[quota.by] \in {"waiting", "elapsed"}

(* A generation the guard holds as capped, and that still has the lease file,
   is one cap reported as applied: its file is armed. *)
RecordedIsArmed == \A g \in rec \cup ledger : file.gen = g => file.armed

(* cap, release and the reconciliation never write a quota over a value they
   did not read: what a write replaces is the value the lease expects there,
   unless somebody changed quota or unit after the holder's last read. *)
QuotaWritten == cs' # cs /\ cs.pc \in {"capSet", "relSet", "restoreUnprotected"} /\ quota' # quota
Expected == IF cs.pc = "capSet" THEN cs.lease.original ELSE cs.lease.applied
NoBlindOverwrite == [][QuotaWritten => moved \/ quota.val = Expected]_vars

(* Every quota the guard applied is lifted, whatever happens to the guard:
   "A separate manager timer restores the original quota even if the guard
   dies" (the module comment of cpu_limit.rs). *)
Lifted == \A g \in Gens : quota.by = g ~> quota.by # g

(* The lease is an undo log of the quota (cap_prepared: "Durable intent precedes
   timer AND mutation"): a generation is in force only while an armed lease of
   it is on disk, at every step and through every crash. *)
Undo == INSTANCE UndoLog WITH
    Things <- Gens,
    applied <- {quota.by} \cap Gens,
    owed <- IF file.armed THEN {file.gen} ELSE {}
ImplementsUndoLog == Undo!Spec
=============================================================================
