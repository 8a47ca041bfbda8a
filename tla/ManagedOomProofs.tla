-------------------------- MODULE ManagedOomProofs --------------------------
(* Proofs about ManagedOom: for any number of members, any size of a drain
   pass and any number of boots, no member of a job is at the OOM target
   without a debt, and the sentinel's certificate is true and stays. *)
EXTENDS ManagedOom, TLAPS

BiasSteps == {"biasDebt", "biasJob", "arm", "biasWrite"}
DrainSteps == {"drainDebt", "drainJob", "list", "restore"}
ArchiveSteps == {"copy", "copying", "remove"}

(* Before the sentinel registers the job there is nothing of it; it lives in the boot it registered it
   in, and is past its last look at the workload only when that is gone. *)
SentinelInv ==
    /\ sentinel = "none" => job = NoJob /\ alive = {} /\ debt = "none" /\ pc = "out"
    /\ SentinelLives => job.boot = boot /\ ~job.proof
    /\ sentinel = "certify" => alive = {}

(* Who is in the critical section works on the job record that is on disk, of
   this boot and without a certificate; only an archiver has one of another boot. *)
HolderInv ==
    /\ holder = "nobody" <=> pc = "out"
    /\ pc \in BiasSteps \cup DrainSteps =>
          /\ job.boot = boot /\ mine.job.boot = boot
          /\ ~job.proof /\ ~mine.job.proof
    /\ pc \in ArchiveSteps => job.boot # boot

(* The debt on disk is the one the holder has written, unless an operator has
   retired it, which needs a scope that is gone. *)
DebtInv ==
    /\ pc = "biasDebt" => mine.debt # "draining"
    /\ pc \in {"biasJob", "arm", "biasWrite"} => debt = "live" \/ ~Scope
    /\ pc \in {"drainJob", "list", "restore"} => mine.debt = "draining"

IInv == TypeOK /\ SentinelInv /\ HolderInv /\ DebtInv /\ BiasIsOwed /\ CertifiedIsEmpty

(* The type invariant by the kind of its variables. *)
DiskOK ==
    /\ boot \in 1 .. MaxBoot /\ job \in Jobs /\ debt \in Debts
    /\ late \in BOOLEAN /\ retired \in BOOLEAN /\ archive \in {"none", "partial", "full"}
WorkloadOK ==
    /\ born \in 0 .. MaxMembers /\ alive \subseteq 1 .. born /\ high \subseteq alive
    /\ sentinel \in {"none", "admitted", "watch", "scan", "count", "certify", "gone"}
    /\ seen \subseteq Members
ServicesOK ==
    /\ guard \in {"down", "idle", "try"}
    /\ recov \in {"off", "look", "try", "sleep", "leaving", "failed"}
    /\ others \in BOOLEAN
HolderOK ==
    /\ holder \in {"nobody", "guard", "recov"}
    /\ pc \in {"out", "biasDebt", "biasJob", "arm", "biasWrite", "drainDebt", "drainJob",
               "list", "restore", "copy", "copying", "remove"}
    /\ mine \in [debt : Debts, job : Jobs]
    /\ target \in 0 .. MaxMembers /\ todo \subseteq Members

-----------------------------------------------------------------------------
(* Job records: their fields, *)
LEMMA JobFields ==
  ASSUME NEW j \in Jobs
  PROVE  j.boot \in 0 .. MaxBoot /\ j.phase \in Phases /\ j.proof \in BOOLEAN
  BY DEF Jobs

(* a save that changes the phase, *)
LEMMA JobPhase ==
  ASSUME NEW j \in Jobs, NEW phase \in Phases
  PROVE  /\ [j EXCEPT !.phase = phase] \in Jobs
         /\ [j EXCEPT !.phase = phase].boot = j.boot
         /\ [j EXCEPT !.phase = phase].proof = j.proof
  BY DEF Jobs

(* the certificate, *)
LEMMA JobCertified ==
  ASSUME NEW j \in Jobs
  PROVE  /\ [j EXCEPT !.phase = "terminal", !.proof = TRUE] \in Jobs
         /\ [j EXCEPT !.phase = "terminal", !.proof = TRUE].boot = j.boot
         /\ [j EXCEPT !.phase = "terminal", !.proof = TRUE].phase = "terminal"
         /\ [j EXCEPT !.phase = "terminal", !.proof = TRUE].proof
  BY DEF Jobs, Phases

(* an admission, *)
LEMMA JobAdmitted ==
  ASSUME NEW b \in 1 .. MaxBoot
  PROVE  [boot |-> b, phase |-> "admitted", proof |-> FALSE] \in Jobs
  BY DEF Jobs, Phases

(* and the absence of a job. *)
LEMMA NoJobIsJob == NoJob \in Jobs /\ NoJob.boot = 0 /\ ~NoJob.proof
  BY BoundsAssumption DEF NoJob, Jobs, Phases

(* The copies a lock holder works on. *)
Copies == [debt : Debts, job : Jobs]

(* Their fields, *)
LEMMA CopyFields == ASSUME NEW m \in Copies PROVE m.debt \in Debts /\ m.job \in Jobs
  BY DEF Copies

(* the copies of nobody, *)
LEMMA NothingIsCopy == Nothing \in Copies
  BY NoJobIsJob DEF Nothing, Copies, Debts

(* what is read from disk, *)
LEMMA NewCopy == ASSUME NEW d \in Debts, NEW j \in Jobs PROVE [debt |-> d, job |-> j] \in Copies
  BY DEF Copies

(* and the debt that drain_one has marked. *)
LEMMA DrainingCopy ==
  ASSUME NEW m \in Copies
  PROVE  /\ [m EXCEPT !.debt = "draining"] \in Copies
         /\ [m EXCEPT !.debt = "draining"].debt = "draining"
         /\ [m EXCEPT !.debt = "draining"].job = m.job
  BY DEF Copies, Debts

-----------------------------------------------------------------------------
(* No job, nobody in the critical section: the invariant starts true. *)
LEMMA InitIInv == Init => IInv
  <1> SUFFICES ASSUME Init PROVE IInv
    OBVIOUS
  <1> USE BoundsAssumption, NoJobIsJob, NothingIsCopy DEF Init
  <1>1. TypeOK
    <2>1. DiskOK /\ WorkloadOK
      <3>1. boot \in 1 .. MaxBoot
        OBVIOUS
      <3>2. DiskOK
        BY <3>1 DEF DiskOK, Debts
      <3>3. born \in 0 .. MaxMembers /\ alive \subseteq 1 .. born /\ high \subseteq alive
        OBVIOUS
      <3> QED
        BY <3>2, <3>3 DEF WorkloadOK
    <2>2. ServicesOK /\ HolderOK
      <3>1. target \in 0 .. MaxMembers
        OBVIOUS
      <3> QED
        BY <3>1 DEF ServicesOK, HolderOK, Copies
    <2> QED
      BY <2>1, <2>2 DEF TypeOK, DiskOK, WorkloadOK, ServicesOK, HolderOK
  <1>2. SentinelInv /\ HolderInv /\ DebtInv
    BY DEF SentinelInv, HolderInv, DebtInv, SentinelLives, BiasSteps, DrainSteps, ArchiveSteps
  <1> QED
    BY <1>1, <1>2 DEF IInv, BiasIsOwed, CertifiedIsEmpty

(* Every step keeps the invariant; one case per action. *)
LEMMA NextIInv == IInv /\ [Next]_vars => IInv'
  <1> SUFFICES ASSUME IInv, [Next]_vars PROVE IInv'
    OBVIOUS
  <1>f. /\ job.boot \in 0 .. MaxBoot /\ job.phase \in Phases /\ job.proof \in BOOLEAN
        /\ mine \in Copies /\ mine.debt \in Debts /\ mine.job \in Jobs
        /\ mine.job.boot \in 0 .. MaxBoot /\ mine.job.proof \in BOOLEAN
    BY JobFields, CopyFields DEF IInv, TypeOK, Copies
  <1>g. alive \subseteq Members
    BY BoundsAssumption DEF IInv, TypeOK, Members
  <1> USE BoundsAssumption, NoJobIsJob, NothingIsCopy, <1>f, <1>g
      DEF IInv, TypeOK, SentinelInv, HolderInv, DebtInv, BiasIsOwed, CertifiedIsEmpty,
        SentinelLives, Scope, BiasSteps, DrainSteps, ArchiveSteps, Members, Debts, Phases, Copies,
        disk, workload, critical, services, Release, Returns, Leave, Goto, GotoOrFail, Tries, May
  <1>1. CASE Admit
    <2>1. TypeOK'
      BY <1>1, JobAdmitted DEF Admit
    <2>2. SentinelInv' /\ HolderInv' /\ DebtInv'
      BY <1>1, JobAdmitted DEF Admit
    <2>3. BiasIsOwed' /\ CertifiedIsEmpty'
      BY <1>1, JobAdmitted DEF Admit
    <2> QED
      BY <2>1, <2>2, <2>3
  <1>2. CASE Spawn
    <2>1. TypeOK'
      <3>1. DiskOK'
        BY <1>2 DEF DiskOK, Spawn
      <3>2. WorkloadOK'
        <4>1. CASE UNCHANGED <<born, alive>>
          BY <1>2, <4>1 DEF WorkloadOK, Spawn
        <4>2. CASE born < MaxMembers /\ born' = born + 1 /\ alive' = alive \cup {born + 1}
          <5>1. born' \in 0 .. MaxMembers
            BY <4>2
          <5>2. alive' \subseteq 1 .. born' /\ high' \subseteq alive'
            BY <1>2, <4>2 DEF Spawn
          <5> QED
            BY <1>2, <5>1, <5>2 DEF WorkloadOK, Spawn
        <4> QED
          BY <1>2, <4>1, <4>2 DEF Spawn
      <3>3. ServicesOK'
        BY <1>2 DEF ServicesOK, Spawn
      <3>4. HolderOK'
        BY <1>2 DEF HolderOK, Spawn
      <3> QED
        BY <3>1, <3>2, <3>3, <3>4 DEF DiskOK, WorkloadOK, ServicesOK, HolderOK
    <2>2. SentinelInv' /\ HolderInv' /\ DebtInv'
      BY <1>2 DEF Spawn
    <2>3. BiasIsOwed' /\ CertifiedIsEmpty'
      BY <1>2 DEF Spawn
    <2> QED
      BY <2>1, <2>2, <2>3
  <1>3. CASE ScanBegin
    BY <1>3 DEF ScanBegin
  <1>4. CASE ScanEnd
    BY <1>4 DEF ScanEnd
  <1>5. CASE Count
    BY <1>5 DEF Count, TerminalCandidate
  <1>6. CASE Certify
    <2>1. TypeOK'
      <3>1. DiskOK'
        BY <1>6, JobCertified DEF DiskOK, Certify
      <3>2. WorkloadOK'
        BY <1>6, JobCertified DEF WorkloadOK, Certify
      <3>3. ServicesOK'
        BY <1>6, JobCertified DEF ServicesOK, Certify
      <3>4. HolderOK'
        BY <1>6, JobCertified DEF HolderOK, Certify
      <3> QED
        BY <3>1, <3>2, <3>3, <3>4 DEF DiskOK, WorkloadOK, ServicesOK, HolderOK
    <2>2. SentinelInv' /\ HolderInv' /\ DebtInv'
      BY <1>6, JobCertified DEF Certify
    <2>3. BiasIsOwed' /\ CertifiedIsEmpty'
      BY <1>6, JobCertified DEF Certify
    <2> QED
      BY <2>1, <2>2, <2>3
  <1>7. CASE CertifyFails
    BY <1>7 DEF CertifyFails
  <1>8. CASE SentinelDies
    BY <1>8 DEF SentinelDies
  <1>9. CASE BiasDebt
    <2>1. TypeOK'
      <3>1. DiskOK'
        BY <1>9 DEF DiskOK, BiasDebt
      <3>2. WorkloadOK'
        BY <1>9 DEF WorkloadOK, BiasDebt
      <3>3. ServicesOK'
        BY <1>9 DEF ServicesOK, BiasDebt
      <3>4. HolderOK'
        <4>1. CASE Goto("biasJob")
          BY <1>9, <4>1 DEF HolderOK, BiasDebt
        <4>2. CASE Leave(TRUE)
          BY <1>9, <4>2 DEF HolderOK, BiasDebt
        <4> QED
          BY <1>9, <4>1, <4>2 DEF BiasDebt
      <3> QED
        BY <3>1, <3>2, <3>3, <3>4 DEF DiskOK, WorkloadOK, ServicesOK, HolderOK
    <2>2. SentinelInv' /\ HolderInv' /\ DebtInv'
      BY <1>9 DEF BiasDebt
    <2>3. BiasIsOwed' /\ CertifiedIsEmpty'
      BY <1>9 DEF BiasDebt
    <2> QED
      BY <2>1, <2>2, <2>3
  <1>10. CASE BiasJob
    <2>1. TypeOK'
      <3>1. DiskOK'
        BY <1>10, JobPhase DEF DiskOK, BiasJob
      <3>2. WorkloadOK'
        BY <1>10, JobPhase DEF WorkloadOK, BiasJob
      <3>3. ServicesOK'
        BY <1>10, JobPhase DEF ServicesOK, BiasJob
      <3>4. HolderOK'
        BY <1>10, JobPhase DEF HolderOK, BiasJob
      <3> QED
        BY <3>1, <3>2, <3>3, <3>4 DEF DiskOK, WorkloadOK, ServicesOK, HolderOK
    <2>2. SentinelInv' /\ HolderInv' /\ DebtInv'
      BY <1>10, JobPhase DEF BiasJob
    <2>3. BiasIsOwed' /\ CertifiedIsEmpty'
      BY <1>10, JobPhase DEF BiasJob
    <2> QED
      BY <2>1, <2>2, <2>3
  <1>11. CASE Arm
    <2>1. TypeOK'
      <3>1. DiskOK'
        BY <1>11 DEF DiskOK, Arm
      <3>2. WorkloadOK'
        BY <1>11 DEF WorkloadOK, Arm
      <3>3. ServicesOK'
        BY <1>11 DEF ServicesOK, Arm
      <3>4. HolderOK'
        <4>1. CASE target \in high
          BY <1>11, <4>1 DEF HolderOK, Arm
        <4>2. CASE target \notin high
          BY <1>11, <4>2 DEF HolderOK, Arm
        <4> QED
          BY <1>11, <4>1, <4>2 DEF Arm
      <3> QED
        BY <3>1, <3>2, <3>3, <3>4 DEF DiskOK, WorkloadOK, ServicesOK, HolderOK
    <2>2. SentinelInv' /\ HolderInv' /\ DebtInv'
      BY <1>11 DEF Arm
    <2>3. BiasIsOwed' /\ CertifiedIsEmpty'
      BY <1>11 DEF Arm
    <2> QED
      BY <2>1, <2>2, <2>3
  <1>12. CASE BiasWrite
    BY <1>12 DEF BiasWrite
  <1>13. CASE GuardLook
    BY <1>13 DEF GuardLook
  <1>14. CASE RecovLook
    BY <1>14 DEF RecovLook
  <1>15. CASE DrainDebt
    <2>1. TypeOK'
      BY <1>15, DrainingCopy DEF DrainDebt
    <2>2. SentinelInv' /\ HolderInv' /\ DebtInv'
      BY <1>15, DrainingCopy DEF DrainDebt
    <2>3. BiasIsOwed' /\ CertifiedIsEmpty'
      BY <1>15, DrainingCopy DEF DrainDebt
    <2> QED
      BY <2>1, <2>2, <2>3
  <1>16. CASE DrainJob
    <2>1. TypeOK'
      <3>1. DiskOK'
        BY <1>16, JobPhase DEF DiskOK, DrainJob
      <3>2. WorkloadOK'
        BY <1>16, JobPhase DEF WorkloadOK, DrainJob
      <3>3. ServicesOK'
        BY <1>16, JobPhase DEF ServicesOK, DrainJob
      <3>4. HolderOK'
        BY <1>16, JobPhase DEF HolderOK, DrainJob
      <3> QED
        BY <3>1, <3>2, <3>3, <3>4 DEF DiskOK, WorkloadOK, ServicesOK, HolderOK
    <2>2. SentinelInv' /\ HolderInv' /\ DebtInv'
      BY <1>16, JobPhase DEF DrainJob
    <2>3. BiasIsOwed' /\ CertifiedIsEmpty'
      BY <1>16, JobPhase DEF DrainJob
    <2> QED
      BY <2>1, <2>2, <2>3
  <1>17. CASE DrainList
    <2>1. TypeOK'
      <3>1. DiskOK'
        BY <1>17 DEF DiskOK, DrainList, FirstMembers
      <3>2. WorkloadOK'
        BY <1>17 DEF WorkloadOK, DrainList, FirstMembers
      <3>3. ServicesOK'
        BY <1>17 DEF ServicesOK, DrainList, FirstMembers
      <3>4. HolderOK'
        <4>1. FirstMembers \subseteq alive
          BY DEF FirstMembers
        <4>2. todo' \subseteq Members
          BY <1>17, <4>1 DEF DrainList
        <4> QED
          BY <1>17, <4>2 DEF HolderOK, DrainList
      <3> QED
        BY <3>1, <3>2, <3>3, <3>4 DEF DiskOK, WorkloadOK, ServicesOK, HolderOK
    <2>2. SentinelInv' /\ HolderInv' /\ DebtInv'
      BY <1>17 DEF DrainList, FirstMembers
    <2>3. BiasIsOwed' /\ CertifiedIsEmpty'
      BY <1>17 DEF DrainList, FirstMembers
    <2> QED
      BY <2>1, <2>2, <2>3
  <1>18. CASE DrainStops
    BY <1>18 DEF DrainStops
  <1>19. CASE DrainFinish
    BY <1>19 DEF DrainFinish
  <1>20. CASE ArchiveCopy
    BY <1>20 DEF ArchiveCopy
  <1>21. CASE ArchiveCopied
    BY <1>21 DEF ArchiveCopied
  <1>22. CASE ArchiveExists
    BY <1>22 DEF ArchiveExists
  <1>23. CASE ArchiveRemove
    BY <1>23 DEF ArchiveRemove
  <1>24. CASE Abort
    BY <1>24 DEF Abort
  <1>25. CASE GuardStarts
    BY <1>25 DEF GuardStarts
  <1>26. CASE GuardDies
    <2>1. TypeOK'
      <3>1. DiskOK'
        BY <1>26 DEF DiskOK, GuardDies
      <3>2. WorkloadOK'
        BY <1>26 DEF WorkloadOK, GuardDies
      <3>3. ServicesOK'
        BY <1>26 DEF ServicesOK, GuardDies
      <3>4. HolderOK'
        <4>1. CASE holder = "guard"
          BY <1>26, <4>1 DEF HolderOK, GuardDies
        <4>2. CASE holder # "guard"
          BY <1>26, <4>2 DEF HolderOK, GuardDies
        <4> QED
          BY <1>26, <4>1, <4>2 DEF GuardDies
      <3> QED
        BY <3>1, <3>2, <3>3, <3>4 DEF DiskOK, WorkloadOK, ServicesOK, HolderOK
    <2>2. SentinelInv' /\ HolderInv' /\ DebtInv'
      BY <1>26 DEF GuardDies
    <2>3. BiasIsOwed' /\ CertifiedIsEmpty'
      BY <1>26 DEF GuardDies
    <2> QED
      BY <2>1, <2>2, <2>3
  <1>27. CASE RecovWakes
    BY <1>27 DEF RecovWakes
  <1>28. CASE RecovExits
    BY <1>28 DEF RecovExits
  <1>29. CASE RecovFails
    <2>1. TypeOK'
      <3>1. DiskOK'
        BY <1>29 DEF DiskOK, RecovFails
      <3>2. WorkloadOK'
        BY <1>29 DEF WorkloadOK, RecovFails
      <3>3. ServicesOK'
        BY <1>29 DEF ServicesOK, RecovFails
      <3>4. HolderOK'
        <4>1. CASE holder = "recov"
          BY <1>29, <4>1 DEF HolderOK, RecovFails
        <4>2. CASE holder # "recov"
          BY <1>29, <4>2 DEF HolderOK, RecovFails
        <4> QED
          BY <1>29, <4>1, <4>2 DEF RecovFails
      <3> QED
        BY <3>1, <3>2, <3>3, <3>4 DEF DiskOK, WorkloadOK, ServicesOK, HolderOK
    <2>2. SentinelInv' /\ HolderInv' /\ DebtInv'
      BY <1>29 DEF RecovFails
    <2>3. BiasIsOwed' /\ CertifiedIsEmpty'
      BY <1>29 DEF RecovFails
    <2> QED
      BY <2>1, <2>2, <2>3
  <1>30. CASE OthersAppear
    BY <1>30 DEF OthersAppear
  <1>31. CASE OthersRetire
    <2>1. TypeOK'
      <3>1. DiskOK'
        BY <1>31 DEF DiskOK, OthersRetire
      <3>2. WorkloadOK'
        BY <1>31 DEF WorkloadOK, OthersRetire
      <3>3. ServicesOK'
        BY <1>31 DEF ServicesOK, OthersRetire
      <3>4. HolderOK'
        BY <1>31 DEF HolderOK, OthersRetire
      <3> QED
        BY <3>1, <3>2, <3>3, <3>4 DEF DiskOK, WorkloadOK, ServicesOK, HolderOK
    <2>2. SentinelInv' /\ HolderInv' /\ DebtInv'
      BY <1>31 DEF OthersRetire
    <2>3. BiasIsOwed' /\ CertifiedIsEmpty'
      BY <1>31 DEF OthersRetire
    <2> QED
      BY <2>1, <2>2, <2>3
  <1>32. CASE Reconcile
    <2>1. TypeOK'
      BY <1>32 DEF Reconcile
    <2>2. SentinelInv' /\ HolderInv' /\ DebtInv'
      BY <1>32 DEF Reconcile
    <2>3. BiasIsOwed' /\ CertifiedIsEmpty'
      BY <1>32 DEF Reconcile
    <2> QED
      BY <2>1, <2>2, <2>3
  <1>33. CASE LeaseElapses
    BY <1>33 DEF LeaseElapses
  <1>34. CASE Reboot
    BY <1>34 DEF Reboot
  <1>35. ASSUME NEW p \in Members, Fork(p) PROVE IInv'
    BY <1>35 DEF Fork
  <1>36. ASSUME NEW p \in Members, Exit(p) PROVE IInv'
    BY <1>36 DEF Exit
  <1>37. ASSUME NEW p \in Members, DrainRestore(p) PROVE IInv'
    BY <1>37 DEF DrainRestore
  <1>38. ASSUME NEW m \in Members, BiasEnter(m) PROVE IInv'
    <2>1. TypeOK'
      BY <1>38, NewCopy DEF BiasEnter, Steerable
    <2>2. SentinelInv' /\ HolderInv' /\ DebtInv'
      BY <1>38, NewCopy DEF BiasEnter, Steerable
    <2>3. BiasIsOwed' /\ CertifiedIsEmpty'
      BY <1>38, NewCopy DEF BiasEnter, Steerable
    <2> QED
      BY <2>1, <2>2, <2>3
  <1>39. ASSUME NEW d \in {"guard", "recov"}, DrainBusy(d) PROVE IInv'
    BY <1>39 DEF DrainBusy
  <1>40. ASSUME NEW d \in {"guard", "recov"}, DrainGone(d) PROVE IInv'
    BY <1>40 DEF DrainGone
  <1>41. ASSUME NEW d \in {"guard", "recov"}, DrainRetire(d) PROVE IInv'
    BY <1>41 DEF DrainRetire, Decide
  <1>42. ASSUME NEW d \in {"guard", "recov"}, DrainHold(d) PROVE IInv'
    BY <1>42 DEF DrainHold, Decide
  <1>43. ASSUME NEW d \in {"guard", "recov"}, DrainEnter(d) PROVE IInv'
    <2>1. TypeOK'
      BY <1>43, NewCopy DEF DrainEnter, Decide
    <2>2. SentinelInv' /\ HolderInv' /\ DebtInv'
      BY <1>43, NewCopy DEF DrainEnter, Decide
    <2>3. BiasIsOwed' /\ CertifiedIsEmpty'
      BY <1>43, NewCopy DEF DrainEnter, Decide
    <2> QED
      BY <2>1, <2>2, <2>3
  <1>44. CASE UNCHANGED vars
    BY <1>44 DEF vars
  <1> QED
    BY <1>1, <1>2, <1>3, <1>4, <1>5, <1>6, <1>7, <1>8, <1>9, <1>10, <1>11, <1>12, <1>13, <1>14, <1>15, <1>16, <1>17, <1>18, <1>19, <1>20, <1>21, <1>22, <1>23, <1>24, <1>25, <1>26, <1>27, <1>28, <1>29, <1>30, <1>31, <1>32, <1>33, <1>34, <1>35, <1>36, <1>37, <1>38, <1>39, <1>40, <1>41, <1>42, <1>43, <1>44
    DEF Next, Sentinel, Workload, Bias, Drain, Life, Environment

-----------------------------------------------------------------------------
(* The invariant the theorems below follow from. *)
THEOREM Inductive == Spec => []IInv
<1>1. QED
  BY InitIInv, NextIInv, PTL DEF Spec

(* The records, places and sets of the model keep their types. *)
THEOREM TypeCorrect == Spec => []TypeOK
<1>1. IInv => TypeOK
  BY DEF IInv
<1>2. QED
  BY <1>1, Inductive, PTL

(* The write-ahead debt of bias_inner and its retirement in drain_one: no
   member is at the target without a debt of this boot. *)
THEOREM Owed == Spec => []BiasIsOwed
<1>1. IInv => BiasIsOwed
  BY DEF IInv
<1>2. QED
  BY <1>1, Inductive, PTL

(* The sentinel's terminal certificate, written after the count of tasks in
   enter, is true of the workload. *)
THEOREM CertificateTrue == Spec => []CertifiedIsEmpty
<1>1. IInv => CertifiedIsEmpty
  BY DEF IInv
<1>2. QED
  BY <1>1, Inductive, PTL

(* drain_one and bias_inner save the job record they loaded under the lock the
   certificate is written under: it is never written over. *)
THEOREM CertificateKept == Spec => CertificateStays
<1>1. ASSUME IInv, Next, job.proof PROVE job'.proof
  <2> USE <1>1 DEF IInv, HolderInv, SentinelInv, SentinelLives, BiasSteps, DrainSteps,
                   disk, workload, critical, services
  <2>1. job \in Jobs /\ mine \in Copies /\ mine.job \in Jobs
    BY CopyFields DEF TypeOK, Copies
  <2>2. sentinel \in {"none", "gone"} /\ pc \notin BiasSteps \cup DrainSteps
    BY NoJobIsJob DEF TypeOK
  <2>3. CASE Sentinel
    BY <2>2, <2>3, NoJobIsJob DEF Sentinel, Admit, Spawn, ScanBegin, ScanEnd, Count, Certify, CertifyFails
  <2>4. CASE Workload
    BY <2>4 DEF Workload, SentinelDies, Fork, Exit
  <2>5. CASE Bias
    BY <2>2, <2>5 DEF Bias, BiasDebt, BiasJob, Arm, BiasWrite, BiasEnter
  <2>6. CASE Drain
    BY <2>2, <2>6 DEF Drain, GuardLook, RecovLook, DrainBusy, DrainGone, DrainRetire,
      DrainHold, DrainEnter, DrainDebt, DrainJob, DrainList, DrainStops, DrainFinish,
      DrainRestore, ArchiveCopy, ArchiveCopied, ArchiveExists, ArchiveRemove
  <2>7. CASE Abort \/ Life \/ Environment
    BY <2>7 DEF Abort, Life, GuardStarts, GuardDies, RecovWakes, RecovExits, RecovFails,
      Environment, OthersAppear, OthersRetire, Reconcile, LeaseElapses, Reboot
  <2> QED
    BY <2>3, <2>4, <2>5, <2>6, <2>7 DEF Next
<1>2. IInv /\ [Next]_vars => [job.proof => job'.proof]_vars
  BY <1>1
<1>3. QED
  BY <1>2, Inductive, PTL DEF Spec, CertificateStays

(* The check of bias_inner under the lock and the mark drain_one writes before
   it restores: in a draining job nobody but a newborn comes to the target. *)
THEOREM DrainingIsLeftAlone == Spec => NoBiasWhileDraining
<1>1. ASSUME IInv, Next, NEW p \in alive, p \notin high, p \in high' PROVE debt = "live"
  <2> USE <1>1 DEF IInv, disk, workload, critical, services
  <2>1. alive \subseteq 1 .. born /\ born \in 0 .. MaxMembers
    BY DEF TypeOK
  <2>2. CASE Sentinel
    BY <2>2 DEF Sentinel, Admit, Spawn, ScanBegin, ScanEnd, Count, Certify, CertifyFails
  <2>3. CASE Workload
    BY <2>1, <2>3, BoundsAssumption DEF Workload, SentinelDies, Fork, Exit
  <2>4. CASE Bias
    <3>1. CASE BiasWrite
      BY <3>1 DEF BiasWrite, DebtInv, Scope
    <3>2. QED
      BY <2>4, <3>1 DEF Bias, BiasDebt, BiasJob, Arm, BiasEnter
  <2>5. CASE Drain
    BY <2>5 DEF Drain, GuardLook, RecovLook, DrainBusy, DrainGone, DrainRetire,
      DrainHold, DrainEnter, DrainDebt, DrainJob, DrainList, DrainStops, DrainFinish,
      DrainRestore, ArchiveCopy, ArchiveCopied, ArchiveExists, ArchiveRemove
  <2>6. CASE Abort \/ Life \/ Environment
    BY <2>6 DEF Abort, Life, GuardStarts, GuardDies, RecovWakes, RecovExits, RecovFails,
      Environment, OthersAppear, OthersRetire, Reconcile, LeaseElapses, Reboot
  <2> QED
    BY <2>2, <2>3, <2>4, <2>5, <2>6 DEF Next
<1>2. IInv /\ [Next]_vars => [\A p \in alive : p \notin high /\ p \in high' => debt = "live"]_vars
  BY <1>1
<1>3. QED
  BY <1>2, Inductive, PTL DEF Spec, NoBiasWhileDraining
-----------------------------------------------------------------------------
(* ManagedOom implements UndoLog.  A step that leaves the scores alone may
   write a debt, or let one go that covers nobody. *)
LEMMA DebtStep ==
  ASSUME IInv', UNCHANGED high
  PROVE  Undo!Owe \/ Undo!Discharge
<1> DEFINE owed == IF debt = "none" THEN {} ELSE Members
           owed2 == IF debt' = "none" THEN {} ELSE Members
<1>1. CASE debt' = "none"
  <2>1. high = {}
    BY <1>1 DEF IInv, BiasIsOwed
  <2>2. owed \in SUBSET (owed \ high) /\ owed2 = owed \ owed
    BY <1>1, <2>1
  <2>3. QED
    BY <2>2 DEF Undo!Discharge
<1>2. CASE debt' # "none"
  <2>1. owed2 = owed \cup Members
    BY <1>2
  <2>2. QED
    BY <2>1 DEF Undo!Owe
<1>3. QED
  BY <1>1, <1>2

(* Members leave the target, or end. *)
LEMMA LiftStep ==
  ASSUME UNCHANGED debt, high' \subseteq high
  PROVE  Undo!Lift
<1>1. high' = high \ (high \ high')
  OBVIOUS
<1>2. QED
  BY <1>1 DEF Undo!Lift

(* Members come to the target: there is a debt. *)
LEMMA ApplyStep ==
  ASSUME IInv', UNCHANGED debt, high \subseteq high'
  PROVE  Undo!Apply
<1>1. high' \in SUBSET (IF debt = "none" THEN {} ELSE Members)
  BY BoundsAssumption DEF IInv, TypeOK, BiasIsOwed, Members
<1>2. high' = high \cup high'
  OBVIOUS
<1>3. QED
  BY <1>1, <1>2 DEF Undo!Apply

(* Every step of a job is one of these: none changes scores and debt at once. *)
LEMMA UndoStep == IInv' /\ [Next]_vars => [Undo!Next]_(Undo!vars)
<1> SUFFICES ASSUME IInv', [Next]_vars PROVE Undo!Next
  BY DEF Undo!vars
<1>1. UNCHANGED high \/ (UNCHANGED debt /\ (high' \subseteq high \/ high \subseteq high'))
  <2> USE DEF disk, workload
  <2>1. CASE Sentinel
    BY <2>1 DEF Sentinel, Admit, Spawn, ScanBegin, ScanEnd, Count, Certify, CertifyFails
  <2>2. CASE Workload
    BY <2>2 DEF Workload, SentinelDies, Fork, Exit
  <2>3. CASE Bias
    BY <2>3 DEF Bias, BiasDebt, BiasJob, Arm, BiasWrite, BiasEnter
  <2>4. CASE Drain
    BY <2>4 DEF Drain, GuardLook, RecovLook, DrainBusy, DrainGone, DrainRetire,
      DrainHold, DrainEnter, DrainDebt, DrainJob, DrainList, DrainStops, DrainFinish,
      DrainRestore, ArchiveCopy, ArchiveCopied, ArchiveExists, ArchiveRemove
  <2>5. CASE Abort \/ Life \/ Environment
    BY <2>5 DEF Abort, Life, GuardStarts, GuardDies, RecovWakes, RecovExits, RecovFails,
      Environment, OthersAppear, OthersRetire, Reconcile, LeaseElapses, Reboot
  <2>6. CASE UNCHANGED vars
    BY <2>6 DEF vars
  <2>7. QED
    BY <2>1, <2>2, <2>3, <2>4, <2>5, <2>6 DEF Next
<1>2. QED
  BY <1>1, DebtStep, LiftStep, ApplyStep DEF Undo!Next

(* A managed job is an undo log of its members' scores (bias_inner, drain_one,
   "Write-ahead lifetime debt"): nobody comes to the target before the debt is on
   disk, and no retirement, reconciliation or archive lets it go while somebody
   is there. *)
THEOREM JobIsUndoLog == Spec => ImplementsUndoLog
<1>1. Init => Undo!Init
  BY DEF Init, Undo!Init
<1>2. QED
  BY <1>1, UndoStep, Inductive, PTL DEF Spec, ImplementsUndoLog, Undo!Spec
=============================================================================
