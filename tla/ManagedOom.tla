----------------------------- MODULE ManagedOom -----------------------------
(***************************************************************************)
(* Registered jobs and their lifetime OOM debt (src/src/managed_oom.rs and *)
(* src/src/oom_job.rs), for ONE job generation.                            *)
(*                                                                         *)
(* A job is a scope whose first process, the sentinel, registers it before *)
(* the first workload instruction and stays until the workload is gone.    *)
(* Under pressure the guard raises members of the job to the OOM target,   *)
(* after it has written a debt for the whole job and has seen that an      *)
(* independent recoverer service runs.  Guard and recoverer both drain     *)
(* debts: they hold one until its lease is over, then restore the members  *)
(* to the job's baseline again and again, until the sentinel's terminal    *)
(* certificate retires it.  A lock file per job serialises them and the    *)
(* certificate; an operator's reconciliation does not take it.             *)
(*                                                                         *)
(* The contract of oom_job.rs holds: members neither leave the scope nor   *)
(* write their scores.  Every score is the baseline or the target, and     *)
(* `high` are the members at the target.  Other jobs appear only through   *)
(* the debts the recoverer sees beside this one.                           *)
(***************************************************************************)
EXTENDS Integers, FiniteSets

CONSTANTS
    MaxMembers,     \* bound: processes the workload forks, numbered as they are born
    Batch,          \* members one drain pass looks at besides the sentinel
    MaxBoot         \* bound: boots of the machine

ASSUME BoundsAssumption ==
    MaxMembers \in Nat /\ Batch \in Nat \ {0} /\ MaxBoot \in Nat \ {0}

VARIABLES
    boot,       \* the boot id
    job,        \* the job record on disk, NoJob before admission
    debt,       \* the debt record on disk: none, live, draining
    late,       \* the debt's deadline has passed
    retired,    \* the retired record exists
    archive,    \* the previous-boot record: none, partial, full
    born,       \* members forked so far
    alive,      \* members that live
    high,       \* members whose oom_score_adj is at the target
    sentinel,   \* where the sentinel is
    seen,       \* the members its scan has listed
    guard,      \* the guard: down, idle, try (it saw the debt)
    recov,      \* the recoverer: off, look, try, sleep, leaving, failed
    others,     \* there are debts of other jobs
    holder,     \* who holds the job's lock: nobody, guard, recov
    pc,         \* where the holder is
    mine,       \* the holder's copy of the debt and of the job record
    target,     \* the member it biases, 0 for none
    todo        \* the members it has still to restore

vars == <<boot, job, debt, late, retired, archive, born, alive, high, sentinel, seen,
          guard, recov, others, holder, pc, mine, target, todo>>
disk == <<job, debt, late, retired, archive>>
workload == <<born, alive, sentinel, seen>>
critical == <<holder, pc, mine, target, todo>>
services == <<guard, recov, others>>

Members == 1 .. MaxMembers
Phases == {"admitted", "active", "draining", "terminal"}
Jobs == [boot : 0 .. MaxBoot, phase : Phases, proof : BOOLEAN]
NoJob == [boot |-> 0, phase |-> "admitted", proof |-> FALSE]
Debts == {"none", "live", "draining"}
Nothing == [debt |-> "none", job |-> NoJob]

(* The types: the job record and its debt (Job, Debt), the workload, the holder
   of the lock and what it has read, the two services. *)
TypeOK ==
    /\ boot \in 1 .. MaxBoot /\ job \in Jobs /\ debt \in Debts
    /\ late \in BOOLEAN /\ retired \in BOOLEAN /\ archive \in {"none", "partial", "full"}
    /\ born \in 0 .. MaxMembers /\ alive \subseteq 1 .. born /\ high \subseteq alive
    /\ sentinel \in {"none", "admitted", "watch", "scan", "count", "certify", "gone"}
    /\ seen \subseteq Members
    /\ guard \in {"down", "idle", "try"}
    /\ recov \in {"off", "look", "try", "sleep", "leaving", "failed"}
    /\ others \in BOOLEAN
    /\ holder \in {"nobody", "guard", "recov"}
    /\ pc \in {"out", "biasDebt", "biasJob", "arm", "biasWrite", "drainDebt", "drainJob",
               "list", "restore", "copy", "copying", "remove"}
    /\ mine \in [debt : Debts, job : Jobs]
    /\ target \in 0 .. MaxMembers /\ todo \subseteq Members

Init ==
    /\ boot = 1 /\ job = NoJob /\ debt = "none" /\ late = FALSE
    /\ retired = FALSE /\ archive = "none"
    /\ born = 0 /\ alive = {} /\ high = {} /\ sentinel = "none" /\ seen = {}
    /\ guard = "down" /\ recov = "off" /\ others = FALSE
    /\ holder = "nobody" /\ pc = "out" /\ mine = Nothing /\ target = 0 /\ todo = {}

-----------------------------------------------------------------------------
SentinelLives == sentinel \notin {"none", "gone"}
Scope == SentinelLives \/ alive # {}

(* The lock is dropped; a recoverer that counted no debt will exit. *)
Release == holder' = "nobody" /\ pc' = "out" /\ mine' = Nothing /\ target' = 0 /\ todo' = {}
Returns(d, pending) ==
    /\ guard' = IF d = "guard" THEN "idle" ELSE guard
    /\ recov' = IF d = "recov" THEN IF pending \/ others THEN "sleep" ELSE "leaving" ELSE recov
    /\ UNCHANGED others
Leave(pending) == Release /\ Returns(holder, pending)
Goto(next) == pc' = next /\ UNCHANGED <<holder, mine, target, todo, services>>

(* A save may report an error although the rename has happened. *)
GotoOrFail(next) == Goto(next) \/ Leave(TRUE)

-----------------------------------------------------------------------------
(* The sentinel, enter(): admission is durable before the workload starts. *)
Admit ==
    /\ sentinel = "none" /\ job = NoJob
    /\ sentinel' = "admitted"
    /\ job' = [boot |-> boot, phase |-> "admitted", proof |-> FALSE]
    /\ UNCHANGED <<boot, debt, late, retired, archive, born, alive, high, seen, services, critical>>

Spawn ==
    /\ sentinel = "admitted"
    /\ sentinel' = "watch"
    /\ \/ born < MaxMembers /\ born' = born + 1 /\ alive' = alive \cup {born + 1}
       \/ UNCHANGED <<born, alive>>
    /\ UNCHANGED <<boot, disk, high, seen, services, critical>>

(* When its child has exited, it lists cgroup.procs, which misses who is
   born while it reads, *)
ScanBegin ==
    /\ sentinel = "watch" /\ 1 \notin alive
    /\ sentinel' = "scan" /\ seen' = alive
    /\ UNCHANGED <<boot, disk, born, alive, high, services, critical>>

ScanEnd ==
    /\ sentinel = "scan"
    /\ sentinel' = "count" /\ seen' = seen \cap alive
    /\ UNCHANGED <<boot, disk, born, alive, high, services, critical>>

(* Fault: the list alone is taken for proof. *)
TerminalCandidateOfList == seen = {}

(* and then reads pids.current, which is exact. *)
TerminalCandidate == seen = {} /\ alive = {}

Count ==
    /\ sentinel = "count"
    /\ sentinel' = IF TerminalCandidate THEN "certify" ELSE "watch"
    /\ seen' = {}
    /\ UNCHANGED <<boot, disk, born, alive, high, services, critical>>

(* Fault: the certificate is written without the lock. *)
CertifyUnlocked ==
    /\ sentinel = "certify"
    /\ sentinel' = "gone"
    /\ job' = [job EXCEPT !.phase = "terminal", !.proof = TRUE]
    /\ UNCHANGED <<boot, debt, late, retired, archive, born, alive, high, seen, services, critical>>

(* The certificate, under the lock; then the sentinel exits. *)
Certify ==
    /\ sentinel = "certify" /\ holder = "nobody"
    /\ sentinel' = "gone"
    /\ job' = [job EXCEPT !.phase = "terminal", !.proof = TRUE]
    /\ UNCHANGED <<boot, debt, late, retired, archive, born, alive, high, seen, services, critical>>

CertifyFails ==
    /\ sentinel = "certify"
    /\ sentinel' = "watch"
    /\ UNCHANGED <<boot, disk, born, alive, high, seen, services, critical>>

(* The workload; the sentinel is not immune. *)
Fork(p) ==
    /\ p \in alive /\ born < MaxMembers
    /\ born' = born + 1
    /\ alive' = alive \cup {born + 1}
    /\ high' = IF p \in high THEN high \cup {born + 1} ELSE high
    /\ UNCHANGED <<boot, disk, sentinel, seen, services, critical>>

Exit(p) ==
    /\ p \in alive
    /\ alive' = alive \ {p} /\ high' = high \ {p}
    /\ UNCHANGED <<boot, disk, born, sentinel, seen, services, critical>>

SentinelDies ==
    /\ SentinelLives
    /\ sentinel' = "gone" /\ seen' = {}
    /\ UNCHANGED <<boot, disk, born, alive, high, services, critical>>

-----------------------------------------------------------------------------
(* bias_inner: all its checks, and the member's score, read under the lock. *)
Steerable(m) ==
    /\ job.boot = boot /\ job.phase # "terminal" /\ ~job.proof
    /\ SentinelLives /\ m \in alive
    /\ m \in high => debt # "none"

(* Fault: a draining job is steered like any other. *)
BiasEnterDraining(m) ==
    /\ guard = "idle" /\ holder = "nobody"
    /\ Steerable(m)
    /\ holder' = "guard" /\ pc' = "biasDebt" /\ target' = m
    /\ mine' = [debt |-> debt, job |-> job]
    /\ UNCHANGED <<boot, disk, workload, high, services, todo>>

BiasEnter(m) ==
    /\ guard = "idle" /\ holder = "nobody"
    /\ Steerable(m) /\ debt # "draining"
    /\ holder' = "guard" /\ pc' = "biasDebt" /\ target' = m
    /\ mine' = [debt |-> debt, job |-> job]
    /\ UNCHANGED <<boot, disk, workload, high, services, todo>>

(* Write-ahead lifetime debt, its lease begun anew. *)
BiasDebt ==
    /\ pc = "biasDebt"
    /\ debt' = IF mine.debt = "none" THEN "live" ELSE mine.debt
    /\ late' = FALSE
    /\ GotoOrFail("biasJob")
    /\ UNCHANGED <<boot, job, retired, archive, workload, high>>

BiasJob ==
    /\ pc = "biasJob"
    /\ job' = [mine.job EXCEPT !.phase = "active"]
    /\ GotoOrFail("arm")
    /\ UNCHANGED <<boot, debt, late, retired, archive, workload, high>>

(* ensure_recoverer: a service that is off is started; what the manager calls
   active is relied on.  A member already at the target needs no write. *)
Arm ==
    /\ pc = "arm" /\ recov # "failed"
    /\ recov' = IF recov = "off" THEN "look" ELSE recov
    /\ IF target \in high THEN Release
                          ELSE pc' = "biasWrite" /\ UNCHANGED <<holder, mine, target, todo>>
    /\ UNCHANGED <<boot, disk, workload, high, guard, others>>

BiasWrite ==
    /\ pc = "biasWrite" /\ target \in alive
    /\ high' = high \cup {target}
    /\ Leave(TRUE)
    /\ UNCHANGED <<boot, disk, workload>>

-----------------------------------------------------------------------------
(* drain: the directory is read without a lock. *)
GuardLook ==
    /\ guard = "idle" /\ holder # "guard" /\ debt # "none"
    /\ guard' = "try"
    /\ UNCHANGED <<boot, disk, workload, high, recov, others, critical>>

RecovLook ==
    /\ recov = "look"
    /\ recov' = IF debt # "none" THEN "try" ELSE IF others THEN "sleep" ELSE "leaving"
    /\ UNCHANGED <<boot, disk, workload, high, guard, others, critical>>

Tries(d) == IF d = "guard" THEN guard = "try" ELSE recov = "try"
May(d) == Tries(d) /\ holder = "nobody"
DrainBusy(d) ==
    /\ Tries(d) /\ holder \notin {"nobody", d}
    /\ Returns(d, TRUE)
    /\ UNCHANGED <<boot, disk, workload, high, critical>>

(* Fault: a job that is to be drained is drained, whatever its certificate. *)
DecideDrainFirst ==
    CASE job.boot # boot -> "archive"
      [] job.boot = boot /\ (debt = "draining" \/ late) -> "drain"
      [] job.boot = boot /\ debt = "live" /\ ~late /\ job.proof -> "retire"
      [] OTHER -> "hold"

(* The pure decision, on the records as they are under the lock. *)
Decide ==
    CASE job.boot # boot -> "archive"
      [] job.boot = boot /\ job.proof /\ job.phase = "terminal" -> "retire"
      [] job.boot = boot /\ ~job.proof /\ (debt = "draining" \/ late) -> "drain"
      [] OTHER -> "hold"

DrainGone(d) ==
    /\ May(d) /\ debt = "none"
    /\ Returns(d, FALSE)
    /\ UNCHANGED <<boot, disk, workload, high, critical>>

DrainRetire(d) ==
    /\ May(d) /\ debt # "none" /\ Decide = "retire"
    /\ debt' = "none" /\ retired' = TRUE
    /\ Returns(d, FALSE)
    /\ UNCHANGED <<boot, job, late, archive, workload, high, critical>>

DrainHold(d) ==
    /\ May(d) /\ debt # "none" /\ Decide = "hold"
    /\ Returns(d, TRUE)
    /\ UNCHANGED <<boot, disk, workload, high, critical>>

DrainEnter(d) ==
    /\ May(d) /\ debt # "none" /\ Decide \in {"drain", "archive"}
    /\ holder' = d
    /\ pc' = IF Decide = "drain" THEN "drainDebt" ELSE "copy"
    /\ mine' = [debt |-> debt, job |-> job]
    /\ UNCHANGED <<boot, disk, workload, high, services, target, todo>>

DrainDebt ==
    /\ pc = "drainDebt"
    /\ debt' = "draining"
    /\ \/ pc' = "drainJob" /\ mine' = [mine EXCEPT !.debt = "draining"]
          /\ UNCHANGED <<holder, target, todo, services>>
       \/ Leave(TRUE)
    /\ UNCHANGED <<boot, job, late, retired, archive, workload, high>>

DrainJob ==
    /\ pc = "drainJob"
    /\ job' = [mine.job EXCEPT !.phase = "draining"]
    /\ GotoOrFail("list")
    /\ UNCHANGED <<boot, debt, late, retired, archive, workload, high>>

(* A bounded pass over the members, oldest first; none when the boundary
   cannot be verified any more. *)
FirstMembersCountingSentinel ==     \* Fault: the sentinel takes a place in the pass.
    {p \in alive : Cardinality({q \in alive : q < p}) + 1 < Batch}
FirstMembers == {p \in alive : Cardinality({q \in alive : q < p}) < Batch}
DrainList ==
    /\ pc = "list"
    /\ pc' = "restore"
    /\ todo' = IF Scope THEN FirstMembers ELSE {}
    /\ UNCHANGED <<boot, disk, workload, high, services, holder, mine, target>>

(* Compare and restore, one member after the other; *)
DrainRestore(p) ==
    /\ pc = "restore" /\ p \in todo /\ \A q \in todo : p <= q
    /\ high' = high \ {p}
    /\ todo' = todo \ {p}
    /\ UNCHANGED <<boot, disk, workload, services, holder, pc, mine, target>>

(* the first that is exempt, elsewhere or unwritable ends the pass. *)
DrainStops ==
    /\ pc = "restore" /\ todo # {}
    /\ todo' = {}
    /\ UNCHANGED <<boot, disk, workload, high, services, holder, pc, mine, target>>

(* Fault: a pass that restored everybody it listed retires the debt. *)
DrainFinishRetires ==
    /\ pc = "restore" /\ todo = {}
    /\ debt' = "none" /\ retired' = TRUE
    /\ Leave(TRUE)
    /\ UNCHANGED <<boot, job, late, archive, workload, high>>

(* The attempt is counted in the debt, which is written back. *)
DrainFinish ==
    /\ pc = "restore" /\ todo = {}
    /\ debt' = mine.debt
    /\ Leave(TRUE)
    /\ UNCHANGED <<boot, job, late, retired, archive, workload, high>>

(* archive_previous_boot: copy unless the destination exists, then remove. *)
ArchiveCopy ==
    /\ pc = "copy" /\ archive = "none"
    /\ archive' = "partial"
    /\ Goto("copying")
    /\ UNCHANGED <<boot, job, debt, late, retired, workload, high>>

ArchiveCopied ==
    /\ pc = "copying"
    /\ archive' = "full"
    /\ Goto("remove")
    /\ UNCHANGED <<boot, job, debt, late, retired, workload, high>>

ArchiveExists ==
    /\ pc = "copy" /\ archive # "none"
    /\ Goto("remove")
    /\ UNCHANGED <<boot, disk, workload, high>>

ArchiveRemove ==
    /\ pc = "remove"
    /\ debt' = "none"
    /\ Leave(FALSE)
    /\ UNCHANGED <<boot, job, late, retired, archive, workload, high>>

(* Any check or call under the lock may fail. *)
Abort ==
    /\ holder # "nobody"
    /\ Leave(TRUE)
    /\ UNCHANGED <<boot, disk, workload, high>>

-----------------------------------------------------------------------------
GuardStarts ==
    /\ guard = "down"
    /\ guard' = "idle"
    /\ UNCHANGED <<boot, disk, workload, high, recov, others, critical>>

GuardDies ==
    /\ guard # "down"
    /\ guard' = "down"
    /\ IF holder = "guard" THEN Release ELSE UNCHANGED critical
    /\ UNCHANGED <<boot, disk, workload, high, recov, others>>

(* recover_loop: it sleeps between passes, exits when none is pending, and is
   restarted by the manager when it fails. *)
RecovWakes ==
    /\ recov \in {"sleep", "failed"}
    /\ recov' = "look"
    /\ UNCHANGED <<boot, disk, workload, high, guard, others, critical>>

RecovExits ==
    /\ recov = "leaving"
    /\ recov' = "off"
    /\ UNCHANGED <<boot, disk, workload, high, guard, others, critical>>

RecovFails ==
    /\ recov \in {"look", "try", "sleep"}
    /\ recov' = "failed"
    /\ IF holder = "recov" THEN Release ELSE UNCHANGED critical
    /\ UNCHANGED <<boot, disk, workload, high, guard, others>>

(* Debts of other jobs: a bias of theirs arms the recoverer as well. *)
OthersAppear ==
    /\ ~others /\ recov # "failed" /\ guard = "idle" /\ holder # "guard"
    /\ others' = TRUE
    /\ recov' = IF recov = "off" THEN "look" ELSE recov
    /\ UNCHANGED <<boot, disk, workload, high, guard, critical>>

OthersRetire ==
    /\ others
    /\ others' = FALSE
    /\ UNCHANGED <<boot, disk, workload, high, guard, recov, critical>>

(* Fault: a job without its sentinel is taken for gone. *)
ReconcileNoSentinel ==
    /\ debt # "none" /\ ~SentinelLives
    /\ debt' = "none" /\ retired' = TRUE
    /\ UNCHANGED <<boot, job, late, archive, workload, high, services, critical>>

(* oom-job-reconcile: no lock; neither scope nor sentinel may be left. *)
Reconcile ==
    /\ debt # "none" /\ ~Scope
    /\ debt' = "none" /\ retired' = TRUE
    /\ UNCHANGED <<boot, job, late, archive, workload, high, services, critical>>

LeaseElapses ==
    /\ debt # "none" /\ ~late
    /\ late' = TRUE
    /\ UNCHANGED <<boot, job, debt, retired, archive, workload, high, services, critical>>

Reboot ==
    /\ boot < MaxBoot
    /\ boot' = boot + 1
    /\ alive' = {} /\ high' = {} /\ seen' = {}
    /\ sentinel' = IF sentinel = "none" THEN "none" ELSE "gone"
    /\ guard' = "down" /\ recov' = "off"
    /\ Release
    /\ UNCHANGED <<disk, born, others>>

-----------------------------------------------------------------------------
Sentinel == Admit \/ Spawn \/ ScanBegin \/ ScanEnd \/ Count \/ Certify \/ CertifyFails
Workload == SentinelDies \/ \E p \in Members : Fork(p) \/ Exit(p)
Bias == BiasDebt \/ BiasJob \/ Arm \/ BiasWrite \/ \E m \in Members : BiasEnter(m)
Drain ==
    \/ GuardLook \/ RecovLook
    \/ \E d \in {"guard", "recov"} :
          DrainBusy(d) \/ DrainGone(d) \/ DrainRetire(d) \/ DrainHold(d) \/ DrainEnter(d)
    \/ DrainDebt \/ DrainJob \/ DrainList \/ DrainStops \/ DrainFinish
    \/ \E p \in Members : DrainRestore(p)
    \/ ArchiveCopy \/ ArchiveCopied \/ ArchiveExists \/ ArchiveRemove
Life == GuardStarts \/ GuardDies \/ RecovWakes \/ RecovExits \/ RecovFails
Environment == OthersAppear \/ OthersRetire \/ Reconcile \/ LeaseElapses \/ Reboot

Next == Sentinel \/ Workload \/ Bias \/ Drain \/ Abort \/ Life \/ Environment

Spec == Init /\ [][Next]_vars

(* The units of the guard and of the recoverer are started again whenever they
   fail; nobody stays under the lock; the lock is got some time if it is tried
   again and again, and what is tried again and again under it, by whomever,
   succeeds some time.  A pass takes the oldest members and does not remember
   where it stopped, so Restored needs Batch >= MaxMembers as well. *)
Fairness ==
    /\ WF_vars(GuardStarts) /\ SF_vars(GuardLook)
    /\ WF_vars((Bias \/ Drain \/ Abort) /\ holder # "nobody" /\ critical' # critical)
    /\ SF_vars(\E d \in {"guard", "recov"} : DrainRetire(d))
    /\ SF_vars(\E d \in {"guard", "recov"} : DrainEnter(d))
    /\ SF_vars(DrainDebt /\ pc' # "out") /\ SF_vars(DrainJob /\ pc' # "out")
    /\ SF_vars(DrainList)
    /\ \A p \in Members : SF_vars(DrainRestore(p))
FairSpec == Spec /\ Fairness

-----------------------------------------------------------------------------
(* A member at the target, whoever biased it and however it was born, belongs
   to a job of this boot that has a debt on disk and no certificate: no crash,
   failed save, fork, retirement or reconciliation loses it. *)
BiasIsOwed == high # {} => debt # "none" /\ job.boot = boot /\ ~job.proof

(* The certificate says what it means: the workload is gone for good. *)
CertifiedIsEmpty == job.proof => alive = {} /\ job.phase = "terminal"

(* A certificate, once written, is not written over by a guard or recoverer
   that saves the job record it had loaded. *)
CertificateStays == [][job.proof => job'.proof]_vars

(* No new application in a draining job: nobody but a newborn comes to the
   target once restoration has begun. *)
NoBiasWhileDraining ==
    [][\A p \in alive : p \notin high /\ p \in high' => debt = "live"]_vars

(* What a draining debt covers is restored although the guard may die again
   and again and the recoverer may be gone, *)
Restored == \A p \in Members : debt = "draining" /\ p \in high ~> p \notin high

(* and a certified job's debt is retired, if the boot lasts. *)
DebtRetires == debt # "none" /\ job.proof ~> debt = "none" \/ job.boot # boot

(* The debts are an undo log of the members' scores (managed_oom.rs,
   "Write-ahead lifetime debt"): who is at the target, by a bias or by birth,
   is covered by a debt on disk until it is back. *)
Undo == INSTANCE UndoLog WITH
    Things <- Members,
    applied <- high,
    owed <- IF debt = "none" THEN {} ELSE Members
ImplementsUndoLog == Undo!Spec
=============================================================================
