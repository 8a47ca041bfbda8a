--------------------------- MODULE CpuLeaseProofs ---------------------------
(* Proofs about CpuLease: for any quotas, targets, number of generations,
   invocations and boots, a quota the guard applied is always backed by a
   durable, armed lease, and no process overwrites a quota it did not read. *)
EXTENDS CpuLease, TLAPS

CapSteps == {"saveIntent", "arm", "saveArmed", "validate", "capSet", "saveVerified"} \cup Decisions
ReleaseSteps == {"relRead", "relSet", "relRemove"}

(* Who is in the critical section, and where. *)
HolderInv ==
    /\ holder = Nobody <=> cs.pc = "out"
    /\ holder \in Gens => cs.pc \in ReleaseSteps /\ cs.lease.gen = holder
    /\ cs.pc \in CapSteps => holder = Guard /\ gInv = cs.lease.inv
    /\ gInv # 0 => gpc = "up"
    /\ holder = Guard => gpc # "down"

(* The holder's copy is the lease on disk, but for a new intent not yet saved. *)
CopyInv ==
    /\ cs.pc \notin {"out", "saveIntent"} => cs.lease = file
    /\ cs.pc = "saveIntent" => file = NoLease
    /\ cs.pc # "out" => cs.lease.gen # 0 /\ cs.lease.inv # 0
                         /\ cs.lease.applied < cs.lease.original
    /\ cs.pc \in CapSteps => cs.lease.boot = boot
    /\ cs.pc \in {"validate", "capSet", "saveVerified", "reuse"} => cs.lease.armed
    /\ cs.pc \in {"validate", "capSet"} => timer[cs.lease.gen] \in {"waiting", "elapsed"}

(* Leases on disk, generations and invocations are drawn in order. *)
FileInv ==
    /\ file # NoLease =>
          /\ file.gen # 0 /\ file.inv # 0 /\ file.applied < file.original
          /\ file.inv < nextInv /\ file.gen <= ng
    /\ gInv < nextInv /\ unit < nextInv
    /\ rec \subseteq 1 .. ng /\ ledger \subseteq 1 .. ng
    /\ cs.pc \in {"saveIntent", "arm", "saveArmed"} => cs.lease.gen \notin rec \cup ledger
    /\ cs.pc # "out" => cs.lease.gen <= ng

(* Where a lease file is about to go, or is not yet of use, the scope is not
   at a quota of the guard's. *)
NothingApplied ==
    cs.pc \in {"saveIntent", "arm", "saveArmed", "validate", "capSet",
               "dropUnapplied", "relRemove"} => quota.by \notin Gens

(* The invocation a cap read before the lock is still good enough to tell a
   stale intent: a lease that names the present unit names gInv. *)
ObservedInv ==
    gInv # 0 /\ holder # Guard /\ file # NoLease /\ file.inv = unit /\ file.boot = boot
        => gInv = unit

(* What the holder is about to overwrite is what it read. *)
ReadInv ==
    ~moved => /\ cs.pc = "capSet" => quota.val = cs.lease.original
              /\ cs.pc \in {"relSet", "restoreUnprotected"} => quota.val = cs.lease.applied

IInv == /\ TypeOK /\ HolderInv /\ CopyInv /\ FileInv /\ NothingApplied
        /\ ObservedInv /\ ReadInv /\ AppliedIsBacked /\ RecordedIsArmed

(* The fields of a lease, so that the proofs below need not open it. *)
LEMMA LeaseFields ==
  ASSUME NEW l \in Lease
  PROVE  /\ l.gen \in 0 .. MaxGen /\ l.inv \in 0 .. MaxInv /\ l.boot \in 1 .. MaxBoot
         /\ l.original \in Quotas /\ l.applied \in Quotas
         /\ l.armed \in BOOLEAN /\ l.verified \in BOOLEAN
  BY DEF Lease

(* A lease whose timer is armed differs from it in that mark only. *)
LEMMA ArmedLease ==
  ASSUME NEW l \in Lease
  PROVE  /\ Armed(l) \in Lease /\ Armed(l).armed
         /\ Armed(l).gen = l.gen /\ Armed(l).inv = l.inv /\ Armed(l).boot = l.boot
         /\ Armed(l).original = l.original /\ Armed(l).applied = l.applied
  BY DEF Armed, Lease

(* A lease that was verified differs from it in that mark only. *)
LEMMA VerifiedLease ==
  ASSUME NEW l \in Lease
  PROVE  /\ Verified(l) \in Lease /\ Verified(l).armed = l.armed
         /\ Verified(l).gen = l.gen /\ Verified(l).inv = l.inv /\ Verified(l).boot = l.boot
         /\ Verified(l).original = l.original /\ Verified(l).applied = l.applied
  BY DEF Verified, Lease

(* The sentinel is of its type and has no generation. *)
LEMMA NoLeaseIsLease == NoLease \in Lease /\ NoLease.gen = 0
  BY BoundsAssumption DEF NoLease, Lease

(* A generation drawn below the bound is one of the generations. *)
LEMMA NextGen == ASSUME NEW n \in 0 .. MaxGen, n < MaxGen PROVE n + 1 \in 0 .. MaxGen
  BY BoundsAssumption

(* No lease, nobody in the critical section: the invariant starts true. *)
LEMMA InitIInv == Init => IInv
  <1> SUFFICES ASSUME Init PROVE IInv
    OBVIOUS
  <1> USE BoundsAssumption, NoLeaseIsLease DEF Init, Gens, Guard, Nobody, External, Stray, Outside
  <1>1. TypeOK
    <2>1. cs \in [pc : Steps, lease : Lease] /\ quota \in [val : Quotas, by : {Stray, External} \cup Gens]
      BY DEF Steps
    <2>2. timer \in [Gens -> {"none", "waiting", "elapsed", "done"}]
      OBVIOUS
    <2>3. /\ unit \in 0 .. MaxInv /\ nextInv \in 1 .. MaxInv + 1 /\ boot \in 1 .. MaxBoot
          /\ gInv \in 0 .. MaxInv /\ ng \in 0 .. MaxGen /\ holder \in {Nobody, Guard} \cup Gens
      OBVIOUS
    <2>4. QED
      BY <2>1, <2>2, <2>3 DEF TypeOK
  <1>2. HolderInv /\ CopyInv /\ FileInv
    BY DEF HolderInv, CopyInv, FileInv, CapSteps, ReleaseSteps, Decisions
  <1>3. QED
    BY <1>1, <1>2 DEF IInv, NothingApplied, ObservedInv, ReadInv, AppliedIsBacked, RecordedIsArmed

(* Every step of the guard, of a timer's recovery and of the outside world
   keeps the invariant; one case per action. *)
LEMMA NextIInv == IInv /\ [Next]_vars => IInv'
  <2> SUFFICES ASSUME IInv, [Next]_vars PROVE IInv'
    OBVIOUS
  <2> USE BoundsAssumption, NoLeaseIsLease, LeaseFields, ArmedLease, VerifiedLease
      DEF IInv, TypeOK, HolderInv, CopyInv, FileInv, NothingApplied,
        ObservedInv, ReadInv, AppliedIsBacked, RecordedIsArmed, world, guardVars, Gens,
        Guard, Nobody, External, Stray, Outside, Steps, Decisions,
        CapSteps, ReleaseSteps, Leave, Goto, ThenOrFail, GuardIdle, InCap, SetQuota,
        CapEnters, RecordOrFail, ReleaseEnter, Obsolete
  <2>1. CASE CapObserve
    BY <2>1 DEF CapObserve
  <2>2. CASE CapRefuse
    BY <2>2 DEF CapRefuse
  <2>3. CASE CapRetireStale
    BY <2>3 DEF CapRetireStale, NamesThisUnit
  <2>4. CASE CapReconcile
    <3>1. TypeOK'
      <4>1. cs'.pc \in Decisions /\ cs' = [pc |-> cs'.pc, lease |-> file]
        BY <2>4 DEF CapReconcile, ReconcileIntent
      <4>2. cs' \in [pc : Steps, lease : Lease]
        BY <4>1
      <4>3. QED
        BY <2>4, <4>2 DEF CapReconcile
    <3>2. HolderInv' /\ CopyInv'
      BY <2>4 DEF CapReconcile, NamesThisUnit, TimerReads, ReconcileIntent
    <3>3. FileInv'
      BY <2>4 DEF CapReconcile, NamesThisUnit, TimerReads, ReconcileIntent
    <3>4. NothingApplied' /\ ObservedInv' /\ ReadInv' /\ AppliedIsBacked' /\ RecordedIsArmed'
      BY <2>4 DEF CapReconcile, NamesThisUnit, TimerReads, ReconcileIntent
    <3> QED
      BY <3>1, <3>2, <3>3, <3>4 DEF IInv
  <2>5. CASE CapReuse
    <3>1. TypeOK'
      BY <2>5 DEF CapReuse
    <3>2. HolderInv' /\ CopyInv'
      BY <2>5 DEF CapReuse
    <3>3. FileInv'
      BY <2>5 DEF CapReuse
    <3>4. NothingApplied' /\ ObservedInv' /\ ReadInv' /\ AppliedIsBacked' /\ RecordedIsArmed'
      BY <2>5 DEF CapReuse
    <3> QED
      BY <3>1, <3>2, <3>3, <3>4 DEF IInv
  <2>6. CASE CapRestoreUnprotected
    <3>1. TypeOK'
      BY <2>6 DEF CapRestoreUnprotected
    <3>2. HolderInv' /\ CopyInv'
      <4>1. CASE Goto("dropUnapplied")
        BY <2>6, <4>1 DEF CapRestoreUnprotected
      <4>2. CASE Leave
        BY <2>6, <4>2 DEF CapRestoreUnprotected
      <4>3. QED
        BY <2>6, <4>1, <4>2 DEF CapRestoreUnprotected
    <3>3. FileInv'
      BY <2>6 DEF CapRestoreUnprotected
    <3>4. NothingApplied' /\ ObservedInv' /\ ReadInv' /\ AppliedIsBacked' /\ RecordedIsArmed'
      BY <2>6 DEF CapRestoreUnprotected
    <3> QED
      BY <3>1, <3>2, <3>3, <3>4 DEF IInv
  <2>7. CASE CapDropUnapplied
    BY <2>7 DEF CapDropUnapplied
  <2>8. CASE CapRead
    <3>1. TypeOK'
      <4>1. PICK target \in Targets : cs' = [pc |-> "saveIntent",
                lease |-> [gen |-> ng + 1, inv |-> gInv, boot |-> boot, original |-> quota.val,
                           applied |-> target, armed |-> FALSE, verified |-> FALSE]]
        BY <2>8 DEF CapRead
      <4>2. cs'.lease \in Lease
        BY <2>8, <4>1 DEF CapRead, Lease
      <4>3. cs' \in [pc : Steps, lease : Lease]
        BY <4>1, <4>2
      <4>4. ng' \in 0 .. MaxGen /\ holder' \in {Nobody, Guard} \cup Gens /\ moved' \in BOOLEAN
        <5>1. ng \in 0 .. MaxGen /\ ng < MaxGen /\ ng' = ng + 1 /\ holder' = Guard /\ moved' = FALSE
          BY <2>8 DEF CapRead
        <5>2. QED
          BY <5>1, NextGen
      <4>5. QED
        BY <2>8, <4>3, <4>4 DEF CapRead
    <3>2. HolderInv' /\ CopyInv'
      BY <2>8 DEF CapRead
    <3>3. FileInv'
      BY <2>8 DEF CapRead
    <3>4. NothingApplied' /\ ObservedInv' /\ ReadInv' /\ AppliedIsBacked' /\ RecordedIsArmed'
      BY <2>8 DEF CapRead
    <3> QED
      BY <3>1, <3>2, <3>3, <3>4 DEF IInv
  <2>9. CASE CapSaveIntent
    <3>1. TypeOK'
      BY <2>9 DEF CapSaveIntent
    <3>2. HolderInv' /\ CopyInv'
      <4>1. CASE Goto("arm")
        BY <2>9, <4>1 DEF CapSaveIntent
      <4>2. CASE Leave
        BY <2>9, <4>2 DEF CapSaveIntent
      <4>3. QED
        BY <2>9, <4>1, <4>2 DEF CapSaveIntent
    <3>3. FileInv'
      BY <2>9 DEF CapSaveIntent
    <3>4. NothingApplied' /\ ObservedInv' /\ ReadInv' /\ AppliedIsBacked' /\ RecordedIsArmed'
      BY <2>9 DEF CapSaveIntent
    <3> QED
      BY <3>1, <3>2, <3>3, <3>4 DEF IInv
  <2>10. CASE CapArm
    <3>1. TypeOK'
      BY <2>10 DEF CapArm
    <3>2. HolderInv' /\ CopyInv'
      <4>1. CASE Goto("saveArmed")
        BY <2>10, <4>1 DEF CapArm
      <4>2. CASE Leave
        BY <2>10, <4>2 DEF CapArm
      <4>3. QED
        BY <2>10, <4>1, <4>2 DEF CapArm
    <3>3. FileInv'
      BY <2>10 DEF CapArm
    <3>4. NothingApplied' /\ ObservedInv' /\ ReadInv' /\ AppliedIsBacked' /\ RecordedIsArmed'
      BY <2>10 DEF CapArm
    <3> QED
      BY <3>1, <3>2, <3>3, <3>4 DEF IInv
  <2>11. CASE CapSaveArmed
    <3>1. TypeOK'
      BY <2>11 DEF CapSaveArmed, TimerReads
    <3>2. HolderInv' /\ CopyInv'
      <4>1. CASE cs'.pc = "validate"
        BY <2>11, <4>1 DEF CapSaveArmed, TimerReads
      <4>2. CASE Leave
        BY <2>11, <4>2 DEF CapSaveArmed
      <4>3. QED
        BY <2>11, <4>1, <4>2 DEF CapSaveArmed
    <3>3. FileInv'
      BY <2>11 DEF CapSaveArmed, TimerReads
    <3>4. NothingApplied' /\ ObservedInv' /\ ReadInv' /\ AppliedIsBacked' /\ RecordedIsArmed'
      BY <2>11 DEF CapSaveArmed, TimerReads
    <3> QED
      BY <3>1, <3>2, <3>3, <3>4 DEF IInv
  <2>12. CASE CapValidate
    BY <2>12 DEF CapValidate
  <2>13. CASE CapSet
    <3>1. TypeOK'
      <4>1. quota' \in [val : Quotas, by : {Stray, External} \cup Gens]
        BY <2>13 DEF CapSet
      <4>2. cs' \in [pc : Steps, lease : Lease] /\ holder' \in {Nobody, Guard} \cup Gens
                /\ gInv' \in 0 .. MaxInv
        BY <2>13 DEF CapSet
      <4>3. QED
        BY <2>13, <4>1, <4>2 DEF CapSet
    <3>2. HolderInv' /\ CopyInv'
      <4>1. CASE Goto("saveVerified")
        BY <2>13, <4>1 DEF CapSet
      <4>2. CASE Leave
        BY <2>13, <4>2 DEF CapSet
      <4>3. QED
        BY <2>13, <4>1, <4>2 DEF CapSet
    <3>3. FileInv'
      BY <2>13 DEF CapSet
    <3>4. NothingApplied' /\ ObservedInv' /\ ReadInv' /\ AppliedIsBacked' /\ RecordedIsArmed'
      BY <2>13 DEF CapSet
    <3> QED
      BY <3>1, <3>2, <3>3, <3>4 DEF IInv
  <2>14. CASE CapSaveVerified
    <3>1. TypeOK'
      BY <2>14 DEF CapSaveVerified
    <3>2. HolderInv' /\ CopyInv'
      BY <2>14 DEF CapSaveVerified
    <3>3. FileInv'
      BY <2>14 DEF CapSaveVerified
    <3>4. NothingApplied' /\ ObservedInv' /\ ReadInv' /\ AppliedIsBacked' /\ RecordedIsArmed'
      BY <2>14 DEF CapSaveVerified
    <3> QED
      BY <3>1, <3>2, <3>3, <3>4 DEF IInv
  <2>15. CASE ReleaseRead
    BY <2>15 DEF ReleaseRead
  <2>16. CASE ReleaseSet
    <3>1. TypeOK'
      BY <2>16 DEF ReleaseSet
    <3>2. HolderInv' /\ CopyInv'
      <4>1. CASE Goto("relRemove")
        BY <2>16, <4>1 DEF ReleaseSet
      <4>2. CASE Leave
        BY <2>16, <4>2 DEF ReleaseSet
      <4>3. QED
        BY <2>16, <4>1, <4>2 DEF ReleaseSet
    <3>3. FileInv'
      BY <2>16 DEF ReleaseSet
    <3>4. NothingApplied' /\ ObservedInv' /\ ReadInv' /\ AppliedIsBacked' /\ RecordedIsArmed'
      BY <2>16 DEF ReleaseSet
    <3> QED
      BY <3>1, <3>2, <3>3, <3>4 DEF IInv
  <2>17. CASE ReleaseRemove
    <3>1. TypeOK'
      <4>1. timer' \in [Gens -> {"none", "waiting", "elapsed", "done"}]
        BY <2>17 DEF ReleaseRemove
      <4>2. rec' \subseteq Gens
        BY <2>17 DEF ReleaseRemove
      <4>3. QED
        BY <2>17, <4>1, <4>2 DEF ReleaseRemove
    <3>2. HolderInv' /\ CopyInv'
      BY <2>17 DEF ReleaseRemove
    <3>3. FileInv'
      <4>1. rec' \subseteq rec /\ file' = NoLease /\ cs'.pc = "out"
              /\ UNCHANGED <<ledger, ng, nextInv, unit>> /\ gInv' \in {0, gInv}
        BY <2>17 DEF ReleaseRemove
      <4>2. QED
        BY <4>1
    <3>4. NothingApplied' /\ ObservedInv' /\ ReadInv' /\ AppliedIsBacked' /\ RecordedIsArmed'
      BY <2>17 DEF ReleaseRemove
    <3> QED
      BY <3>1, <3>2, <3>3, <3>4 DEF IInv
  <2>18. CASE Abort
    BY <2>18 DEF Abort
  <2>19. CASE GuardPersist
    BY <2>19 DEF GuardPersist
  <2>20. CASE GuardStart
    BY <2>20 DEF GuardStart
  <2>21. CASE Recover
    BY <2>21 DEF Recover
  <2>22. CASE RecoverNothing
    BY <2>22 DEF RecoverNothing
  <2>23. CASE Hydrate
    BY <2>23 DEF Hydrate
  <2>24. CASE GuardDies
    BY <2>24 DEF GuardDies
  <2>25. CASE UnitStops
    BY <2>25 DEF UnitStops
  <2>26. CASE UnitStarts
    BY <2>26 DEF UnitStarts
  <2>27. CASE Reboot
    BY <2>27 DEF Reboot
  <2>28. ASSUME NEW g \in Gens, GuardRelease(g) PROVE IInv'
    BY <2>28 DEF GuardRelease
  <2>29. ASSUME NEW g \in Gens, GuardReleaseObsolete(g) PROVE IInv'
    BY <2>29 DEF GuardReleaseObsolete
  <2>30. ASSUME NEW g \in Gens, GuardForget(g) PROVE IInv'
    BY <2>30 DEF GuardForget
  <2>31. ASSUME NEW g \in Gens, TimerElapse(g) PROVE IInv'
    BY <2>31 DEF TimerElapse
  <2>32. ASSUME NEW g \in Gens, ExpiryEnter(g) PROVE IInv'
    BY <2>32 DEF ExpiryEnter
  <2>33. ASSUME NEW g \in Gens, ExpiryObsolete(g) PROVE IInv'
    BY <2>33 DEF ExpiryObsolete
  <2>34. ASSUME NEW q \in Quotas, OperatorSets(q) PROVE IInv'
    BY <2>34 DEF OperatorSets
  <2>35. ASSUME NEW g \in Gens, WallClockExpires(g) PROVE IInv'
    BY <2>35 DEF WallClockExpires
  <2>36. CASE UNCHANGED vars
    BY <2>36 DEF vars
  <2>37. QED
    BY <2>1, <2>2, <2>3, <2>4, <2>5, <2>6, <2>7, <2>8, <2>9, <2>10, <2>11, <2>12, <2>13, <2>14, <2>15, <2>16, <2>17, <2>18, <2>19, <2>20, <2>21, <2>22, <2>23, <2>24, <2>25, <2>26, <2>27, <2>28, <2>29, <2>30, <2>31, <2>32, <2>33, <2>34, <2>35, <2>36
       DEF Next, Cap, Release, GuardLife, Manager, Environment

(* The invariant the theorems below follow from. *)
THEOREM Inductive == Spec => []IInv
<1>1. QED
  BY InitIInv, NextIInv, PTL DEF Spec

(* The variables of CpuLease keep their types: lease records on disk and in
   the critical section are well formed whatever failed in between. *)
THEOREM TypeCorrect == Spec => []TypeOK
<1>1. IInv => TypeOK
  BY DEF IInv
<1>2. QED
  BY <1>1, Inductive, PTL

(* The order of writes in cap_prepared and release_with is crash safe: a scope
   at a quota the guard applied always has its armed lease and its timer. *)
THEOREM Backed == Spec => []AppliedIsBacked
<1>1. IInv => AppliedIsBacked
  BY DEF IInv
<1>2. QED
  BY <1>1, Inductive, PTL

(* What the guard reports and records as capped has an armed lease on disk, or
   none any more. *)
THEOREM Recorded == Spec => []RecordedIsArmed
<1>1. IInv => RecordedIsArmed
  BY DEF IInv
<1>2. QED
  BY <1>1, Inductive, PTL

(* Compare-and-restore, and the checks before the cap: no write of the guard or
   of an expiry service replaces a quota other than the one it read, unless
   the quota or the unit was changed in between. *)
THEOREM CompareAndRestore == Spec => NoBlindOverwrite
<1>1. IInv => [QuotaWritten => moved \/ quota.val = Expected]_vars
  BY DEF IInv, ReadInv, TypeOK, QuotaWritten, Expected
<1>2. QED
  BY <1>1, Inductive, PTL DEF NoBlindOverwrite
-----------------------------------------------------------------------------
(* CpuLease implements UndoLog.  Four kinds of step change what UndoLog sees. *)

(* A lease file goes while its generation is not in force. *)
LEMMA DischargeStep ==
  ASSUME IInv, IInv', UNCHANGED quota, file' = NoLease
  PROVE  Undo!Discharge
<1>1. quota.by \notin Gens
  BY NoLeaseIsLease, BoundsAssumption DEF IInv, AppliedIsBacked, Gens
<1>2. ~file'.armed
  BY DEF NoLease
<1>3. (IF file.armed THEN {file.gen} ELSE {}) \subseteq
        (IF file.armed THEN {file.gen} ELSE {}) \ ({quota.by} \cap Gens)
  BY <1>1
<1>4. QED
  BY <1>1, <1>2, <1>3, Zenon DEF Undo!Discharge

(* A lease is saved, for the first time or with a mark more than it had. *)
LEMMA OweStep ==
  ASSUME IInv, IInv', UNCHANGED quota, file'.gen \in Gens,
         file = NoLease \/ (file'.gen = file.gen /\ (file.armed => file'.armed))
  PROVE  Undo!Owe
<1> DEFINE S == IF file'.armed THEN {file'.gen} ELSE {}
<1>1. S \in SUBSET Gens
  OBVIOUS
<1>2. (IF file.armed THEN {file.gen} ELSE {}) \cup S = (IF file'.armed THEN {file'.gen} ELSE {})
  BY DEF NoLease
<1>3. QED
  BY <1>1, <1>2 DEF Undo!Owe

(* A quota of nobody's replaces what was in force. *)
LEMMA LiftStep ==
  ASSUME UNCHANGED file, quota'.by \notin Gens
  PROVE  Undo!Lift
<1>1. ({quota'.by} \cap Gens) = ({quota.by} \cap Gens) \ ({quota.by} \cap Gens)
  OBVIOUS
<1>2. QED
  BY <1>1 DEF Undo!Lift

(* The quota of an armed lease comes into force where none was. *)
LEMMA ApplyStep ==
  ASSUME UNCHANGED file, quota.by \notin Gens, file.armed,
         quota'.by \in Gens => quota'.by = file.gen
  PROVE  Undo!Apply
<1> DEFINE S == {quota'.by} \cap Gens
<1>1. S \in SUBSET (IF file.armed THEN {file.gen} ELSE {})
  OBVIOUS
<1>2. ({quota'.by} \cap Gens) = ({quota.by} \cap Gens) \cup S
  OBVIOUS
<1>3. QED
  BY <1>1, <1>2 DEF Undo!Apply

(* Every step of the lease is one of these, or changes neither quota nor file. *)
LEMMA UndoStep == IInv /\ IInv' /\ [Next]_vars => [Undo!Next]_(Undo!vars)
<1> SUFFICES ASSUME IInv, IInv', [Next]_vars
             PROVE  Undo!Next \/ UNCHANGED <<quota, file>>
  BY DEF Undo!vars
<1> USE BoundsAssumption, NoLeaseIsLease DEF External, Stray, Gens
<1>1. CASE CapRetireStale \/ CapDropUnapplied \/ ReleaseRemove
  BY <1>1, DischargeStep DEF CapRetireStale, CapDropUnapplied, ReleaseRemove, Undo!Next
<1>2. CASE CapSaveIntent
  <2>1. cs.pc = "saveIntent" /\ file' = cs.lease
    BY <1>2 DEF CapSaveIntent, InCap
  <2>2. cs.lease \in Lease /\ cs.lease.gen # 0
    BY <2>1 DEF IInv, TypeOK, CopyInv
  <2>3. cs.lease.gen \in 0 .. MaxGen
    BY <2>2, LeaseFields
  <2>4. file = NoLease
    BY <2>1 DEF IInv, CopyInv
  <2>5. QED
    BY <1>2, <2>1, <2>2, <2>3, <2>4, OweStep DEF CapSaveIntent, Undo!Next
<1>3. CASE CapSaveArmed \/ CapReuse \/ CapSaveVerified
  <2> DEFINE l == cs.lease
  <2>1. cs.pc \in {"saveArmed", "reuse", "saveVerified"}
    BY <1>3 DEF CapSaveArmed, CapReuse, CapSaveVerified, InCap
  <2>2. l = file /\ l \in Lease /\ l.gen # 0
    BY <2>1 DEF IInv, CopyInv, TypeOK
  <2>3. file' \in {Armed(l), Verified(l)}
    BY <1>3 DEF CapSaveArmed, CapReuse, CapSaveVerified
  <2>4. file'.gen = l.gen /\ l.gen \in 0 .. MaxGen /\ (l.armed => file'.armed)
    <3> HIDE DEF l
    <3>1. QED
      BY <2>2, <2>3, ArmedLease, VerifiedLease, LeaseFields
  <2>5. UNCHANGED quota
    BY <1>3 DEF CapSaveArmed, CapReuse, CapSaveVerified
  <2>6. file'.gen = file.gen /\ file'.gen \in Gens /\ (file.armed => file'.armed)
    BY <2>2, <2>4
  <2>7. Undo!Owe
    BY <2>5, <2>6, OweStep
  <2>8. QED
    BY <2>7 DEF Undo!Next
<1>4. CASE CapSet
  <2>1. quota.by \notin Gens /\ file = cs.lease /\ file.armed
    BY <1>4 DEF CapSet, InCap, IInv, NothingApplied, CopyInv
  <2>2. quota'.by \in Gens => quota'.by = file.gen
    BY <1>4, <2>1 DEF CapSet, SetQuota
  <2>3. QED
    BY <1>4, <2>1, <2>2, ApplyStep DEF CapSet, Undo!Next
<1>5. CASE CapRestoreUnprotected \/ ReleaseSet \/ UnitStops \/ Reboot \/ \E q \in Quotas : OperatorSets(q)
  BY <1>5, LiftStep DEF CapRestoreUnprotected, ReleaseSet, UnitStops, Reboot, OperatorSets, SetQuota, Undo!Next
<1>6. CASE CapObserve \/ CapRefuse \/ CapReconcile \/ CapRead \/ CapArm \/ CapValidate \/ ReleaseRead \/ Abort
  BY <1>6 DEF CapObserve, CapRefuse, CapReconcile, CapRead, CapArm, CapValidate, ReleaseRead, Abort
<1>7. CASE GuardLife \/ Manager
  BY <1>7 DEF GuardLife, Manager, GuardPersist, GuardStart, Recover, RecoverNothing, Hydrate, GuardDies,
              GuardRelease, GuardReleaseObsolete, GuardForget, TimerElapse, ExpiryEnter,
              ExpiryObsolete, ReleaseEnter
<1>8. CASE UnitStarts \/ \E g \in Gens : WallClockExpires(g)
  BY <1>8 DEF UnitStarts, WallClockExpires
<1>9. CASE UNCHANGED vars
  BY <1>9 DEF vars
<1>10. QED
  BY <1>1, <1>2, <1>3, <1>4, <1>5, <1>6, <1>7, <1>8, <1>9 DEF Next, Cap, Release, Environment

(* The lease is an undo log of the quota (cap_prepared, release_with): no step
   brings a generation into force that no armed lease on disk owes a restore,
   none lets that lease go while it is, and none does both at once. *)
THEOREM LeaseIsUndoLog == Spec => ImplementsUndoLog
<1>1. Init => Undo!Init
  BY BoundsAssumption DEF Init, Undo!Init, NoLease, External, Gens
<1>2. QED
  BY <1>1, UndoStep, Inductive, PTL DEF Spec, ImplementsUndoLog, Undo!Spec
=============================================================================
