# A TLA+ model of the DraconDev system guard

TLA+ modules about the program in `src/`: a guard daemon and command line tool
that watches disk, memory and processes of a Linux workstation, throttles what
misbehaves, cleans what can be cleaned, moves data out of the way, and gives
every throttled process back what it took. The modules are translated from the
Rust code; `PROJECT.json` maps each definition to the lines it stands for.

Two promises run through the program. *Reversibility*: whatever it changes in a
running workload (CPU quota, OOM score, nice value) is changed back, or is on
disk so that somebody will change it back. *No loss*: what it moves or deletes is
garbage, or exists in one complete copy at every instant. Processes fork, exit
and reuse pids between any two of its steps, operators and workloads work on the
same values and paths, writes fail half-way, and any of its processes may die at
any instant.

| module | models | checked by | proved in |
|---|---|---|---|
| `UndoLog` | what a reversible limiter promises, abstractly | (a property of two runs) | (both refinements) |
| `CpuLease` | the CPU lease of one scope (`cpu_limit.rs`) | `CpuLease` | `CpuLeaseProofs` |
| `OomBias` | OOM bias, descendant sweep, ledger (`main.rs`, `oom_restore.rs`) | `OomBias` | `OomBiasProofs` |
| `NiceLimiters` | the two nice limiters on one pid (`main.rs`) | `NiceLimiters` | `NiceLimitersProofs` |
| `ManagedOom` | one managed job (`managed_oom.rs`, `oom_job.rs`) | `ManagedOom`, `ManagedOomLive` | `ManagedOomProofs` |
| `GuardDaemon` | start, reload, pass, stop of daemon and `guard once` (`main.rs`) | `GuardDaemon` | `GuardDaemonProofs` |
| `DiskPass` | thresholds, sync freeze, background cleanups (`main.rs`, `policy.rs`) | `DiskPass` | `GuardPassProofs` |
| `Removal` | every check-then-remove cleaner (`main.rs`, `disk.rs`, `git_temp.rs`) | `Removal` | `GuardPassProofs` |
| `Stash` | moving into the stash, restore, purge, expiry (`stash.rs`) | `Stash` | `StashProofs` |
| `Relocation` | relocate, its records, the link policy (`relocate.rs`, `links.rs`) | `Relocation` | `RelocationProofs` |
| `Reap` | ending abandoned processes and trees (`reap.rs`, `forgotten.rs`) | `Reap` | `GuardPassProofs` |
| `ServiceGrowth` | growth of a watched service (`service_growth.rs`) | within `Reports` | `GuardPassProofs` |
| `Reports` | what fifteen monitors tell, and when (`main.rs`) | `Reports` | `GuardPassProofs` |

`tlc -workers 2 -config MC<run>.cfg <module>.tla` checks a run: `MCCpuLease`,
`MCOomBias`, `MCNiceLimiters`, `MCRelocation`, `MCStash`, `MCGuardDaemon` and
`MCDiskPass` are the modules that give their constants values; the others have
plain numbers or model values for constants and need no MC module.
`tlapm CpuLeaseProofs.tla` checks the proofs of a module.

## 1. Inventory

### How the parts interact

One process, the **guard daemon** (`cmd_guard_daemon`, `main.rs`), runs a
sequential pass at the interval its policy sets (`run_guard_once`): it takes one
snapshot of all processes, checks disk and inodes, memory pressure and heavy
processes, and acts through limiters. Its maps live in memory
(`GuardRuntimeState`); part of them is copied to a *mitigation ledger* on disk,
from which the next guard hydrates. A pass spawns background tasks (cleanup,
stash expiry) that report through slots in the runtime and outlive the pass.
SIGHUP reloads the policy between passes, SIGTERM ends the loop; both restore
adjustments first. `guard once` runs one pass under the same lock, from and to
the same ledger.

Other processes share state with it, always through files, the kernel or the
user manager: the *expiry service* of a CPU lease, the *OOM recoverer*, the
*sentinel* of each managed job, the *watchdog* script, `dracon-sync` with its
freeze marker, and every one-shot command an operator runs (`stash`, `relocate`,
`link apply`, `reap`, `disk clean`, `guard clean`, `storage --cleanup`,
`oom-job-reconcile`, ...). The environment interferes with all of them:
workloads fork and exit, pids are reused, files are written, operators change
quotas, scores and nice values, machines reboot.

Modules meet where components share state. `GuardDaemon` has the loop and the
ledger, with one abstract adjustment per process in place of the limiters;
`CpuLease`, `OomBias`, `NiceLimiters` are what those adjustments are, and each
has the parts of start, reload and stop that concern it. `DiskPass` is the disk
half of the same pass, and starts cleanups; what a cleanup may remove is
`Removal`, what it moves instead `Stash` and `Relocation`. `Reports` EXTENDS
`ServiceGrowth`: the finding of the tracker is what the report is made of.

### The components

For each: state, operations, what is hard, what makes it correct.

**CPU lease** (`cpu_limit.rs`; `main.rs` 6608-6641, 6941-6958, 7048-7056).
State: a lease file per scope (original and applied quota, invocation, boot,
armed, verified), a lock file, a transient timer per generation, the guard's
`capped_pids`. Operations: `cap`, `reconcile_intent`, `release`, `recover`,
`expire`. Hard: five durable steps per cap with a crash between any two, the
timer racing the guard, restarts of the scope and of the machine, an operator
writing the same property. Correct: a quota in force is always backed by what
lifts it; nobody else's quota is overwritten; every quota is lifted.

**OOM bias** (`main.rs` 2160-2213, 2548-2884, 3177-3186, 6881-6936). State: per
root its original score, the descendants known before the bias, the pending
restorations; all in memory and in the ledger. Operations: bias, sweep, restore
pending, release, prune, hydrate. Hard: children inherit the score while the
guard works on an old snapshot; pids are reused; each persist may fail. Correct:
write-ahead; nobody who inherited is lost; the restored value is the true one.

**Nice limiters** (`main.rs` 2482-2537, 3040-3146, 3199-3323, 6486-6551,
6786-6876, 9078-9371). State: two maps of original and applied nice values per
pid, one of them in the ledger. Operations: renice, cool down and release for
each limiter, merged restore at start, stop and reload. Hard: two limiters, one
process, one snapshot; a release of one while the other is in force. Correct:
records agree, degraded processes are on record, nobody is promoted.

**Mitigation ledger** (`main.rs` 7216-7476). State: a JSON file and the guard's
belief about it. Operations: persist (temp, fsync, rename, fsync of the
directory), hydrate. Hard: a failure between rename and the last fsync; a ledger
that is unreadable, of another boot, without a boot, removed or repaired; two
programs that write it. Correct: what was applied is in the ledger.

**Managed OOM jobs** (`managed_oom.rs`, `oom_job.rs`). State: job, debt, retired
and previous-boot records per generation, a lock file per generation; the scope
and its members. Operations: `launch` and `enter` (the sentinel), `bias`,
`drain`, `recover_loop`, `reconcile_orphan`. Hard: guard, recoverer, sentinel
and operator on the same records; newborns; a certificate that must be true.
Correct: no biased member without a debt; a debt is retired only when its scope
has ended; what is drained is restored.

**Guard daemon loop** (`main.rs` 10383-10624, 11600-11660, 12083-12290). State:
policy, runtime, daemon lock, pending reload. Operations: start, pass, reload,
stop, `guard once`. Hard: a reload deferred while restorations are pending,
signals during a pass or a reload, an unusable ledger. Correct: one guard at a
time; no reload forgets an adjustment; a disabled guard stops; a reload is taken.

**Sync freeze** (`main.rs` 7581 ff.): a marker file, shared with `dracon-sync`,
that stops synchronisation while the disk is full. Correct: removed when the
disk recovers, if it is the guard's; never anybody else's.

**Background cleanup** (`main.rs` 9415-9500): spawned work, two cooldowns, the
proactive cycle. Hard: only the start is paced; it runs beside later passes and
reloads. Correct: what it decided on is judged again before it acts.

**Stash** (`stash.rs`), **relocate** (`relocate.rs`), **links** (`links.rs`):
moving data between places and filesystems with a record of where it came from.
Hard: a crash between any two steps, retries, two runs at once. Correct: at
every instant a complete copy exists and a record or link finds it.

**Temporary files, trash, Rust targets, modules** (`main.rs`), **git
temporaries** (`git_temp.rs`), **disk report and apply** (`disk.rs`,
`disk_refs.rs`): check, then delete. Hard: what was checked changes before the
removal; two cleaners meet. Correct: nothing in use or fresh when checked is
removed; what stays in the trash can be restored.

**Reap** (`reap.rs`), **forgotten orphans** (`forgotten.rs`): select, verify,
signal, wait, kill; then the browser's profile. Hard: pid reuse between any two
of these, members that fork. Correct: only what was verified is signalled.

**Memory pressure classification** (`main.rs` 2386-2480): levels with a sustain
time. **Disk state, trends, rapid fill, inodes, mounts** and **report
throttling** (`main.rs` 2351 ff., 9700-10350): findings with a memory of what
was told. Correct: no change without sustained pressure; news is told at once,
repeats are not told too soon.

**Service growth** (`service_growth.rs`): a bounded, spaced history of the
footprint of a service. Hard: restarts between question and counter, gaps.
Correct: growth is told of one life, measured over a whole window.

**Nix generations**, **tmux health**, **doctor**, **protection probe**,
**events**, **path safety**, **policy**, **setup, zram**, **watchdog**,
**command line**: observation, diagnosis, configuration, glue.

`PROJECT.json` gives each one's status, and under "hazards" what is hard to test
in it, at its line.

## 2. Plan

Done: every module of the table is modelled and checked. Proved: the safety of
`CpuLease`, `NiceLimiters` and `ManagedOom`; the two refinements of `UndoLog`;
the safety of `GuardDaemon`, `Stash`, `DiskPass`, `Relocation` and `OomBias`; that of
`Removal`, `Reap`, `Reports` and `ServiceGrowth`. No invariant and no action property
of a run is without a theorem.

Left to prove: `PathLeads` of `Relocation` with a link policy that is applied *while*
its source is being relocated, which TLC checks for two relocations and refutes for
four. Relocations of one source to one root that overlap are not a matter of proof:
the code does not keep what its comment says of them (section 6).

To be modelled if more is wanted: the retry budget of a descendant in
`OomBias`; the choice of Nix generations as an operator against a reference
definition; rotation of the event log.

## 3. Conventions

A module is one component on one *subject* (one scope, one pid, one job, one
entry, one monitor) because subjects of one kind share nothing but a directory;
`OomBias` and `Reap` have several processes because inheritance and reuse of
numbers is what they are about, `Relocation` two sources because they share the
file of records. Variables and actions keep the names of the code. An action is
the whole stretch of a handler between two points where another process, or a
crash, can come between; what is written together is one action, what is written
in two steps is two. Every call that can fail has a failing alternative in the
action or an `Abort`-like action beside it, and a save can report failure *after*
its rename. A removal of a tree can leave any part of it. Processes of the same
kind that use one lock file are serialised by `holder`; actions of those who do
not take the lock have no such guard.

`GuardPassProofs` extends the four modules about parts of the pass. So that it can,
`Removal`, `Reap` and `Reports` have names of their own for what other modules
call `Init`, `Next`, `Spec`, `TypeOK` and `vars` (`RemovalInit`, `ReapNext`,
`reportsVars`, ...), and `removals` for the passes of cleaners, `hunt` for the pass
of the reaper.

A definition marked *Fault* is a plausible bug. It is not part of any
specification; it is put in place of the definition after it to show that a
property notices (`PROJECT.json`, "mutants").

Definitions marked as ghosts in the comments remember history for a property
and never decide what the code does: `quota.by` and `moved` in `CpuLease`; `mark`, `base`
and `late` in `OomBias`; `found`, `excused` and `misread` in
`NiceLimiters`; `dropped` in `GuardDaemon`; `written`, `late`, `cut`, `moved`,
`muddled` in `Relocation`; `written`, `late`, `given`, `spent` in `Stash`; `stay`
and `wrote` in `Removal`; `ok` and `clock` in `Reap`; `told` and `lasting` in
`Reports`; `calm` in `ServiceGrowth`.

Each module has a type invariant, `TypeOK` or `ReapTypeOK` and the like. A run lists
it only where it adds something to the questions of the run.

## 4. The modules and what their runs show

Every run ends with the whole state space explored and no error. State counts
are distinct states; no run needs more than some minutes with two workers.

### UndoLog

Two sets: what is changed at this moment (`applied`) and what a durable record
promises to change back (`owed`). `Owe` comes before `Apply`, a record goes
(`Discharge`) only for what is no longer applied. `CpuLease` implements it with
lease generations (applied: the generation whose quota is in force; owed: the
generation of an armed lease file), `ManagedOom` with members of a job (applied:
those at the target; owed: all, while there is a debt). The instances, named
`Undo`, are at the end of the two modules; `ImplementsUndoLog == Undo!Spec` is
checked in their runs and proved. The refinement says more than the invariants: no step may
exchange record and change at once, or apply what was never owed.

### CpuLease

State: the scope (`unit`, `quota`), the machine (`boot`), the disk (`file`,
`ledger`), the manager (`timer`), the wall clock (`expired`), the lock
(`holder`, `cs` with the holder's copy), the guard (`gpc`, `gInv`, `rec`).
`Cap*` are the steps of `cap_prepared` in the order of the code, from the
invocation read before the lock (`CapObserve`) over the intent, the timer, the
armed lease and the quota to the verified lease; `CapReconcile` and the four
decisions are `reconcile_intent`; `Release*` is `release_with`, entered by the
guard, by `recover` at start and by the expiry service; `Guard*`, `Hydrate` and
`Recover` are the parts of a pass and of a start that use the lease.

- `AppliedIsBacked`: a quota the guard applied is always backed by a durable,
  armed lease for this invocation and boot with the original in it, and by a timer
  that waits or a service that is retried. There is no instant at which a crash
  would leave the workload throttled for good.
- `RecordedIsArmed`: what the guard or its ledger takes for capped is an armed
  lease, if the lease is still there.
- `NoBlindOverwrite`: no quota is written over a value other than the one the
  lease expects, unless somebody changed it after the last read.
- `ImplementsUndoLog`, and `Lifted`: every quota the guard applied is lifted.

*Bounds*: three quotas of which the largest is "no limit", two targets, one
lease generation, two invocations, two boots: 66,888 states. A second invocation
meets the lease of the first, a second boot finds the file of the first; three
quotas are the least that tell original, applied and foreign apart. A second
generation, which meets the timer of the first, multiplies the states by 23; with
it (`MaxGen = 2`, `Spec` in place of `FairSpec`) everything but `Lifted` was
explored as well, 1,555,950 states; for every number of generations the three
safety properties are proved.

*Fairness*: a lock holder leaves the lock (all its calls have timeouts), a
waiting timer elapses, the expiry service, which the unit restarts on failure,
gets the lock and gets each of its calls through some time. Nothing is assumed of
the guard: it may die and stay dead. That is the claim of the comment at the head
of `cpu_limit.rs`.

### OomBias

State: processes with parent, score and the value they would have without the
guard; the guard's three maps in `mem`, on disk in `ledger`, and `last`, what
the guard believes is on disk; the snapshot of the pass. `BiasIntent` is
`apply_oom_bias` up to its write-ahead persist, `BiasWrite` the rest; `Sweep`
and `SweepSettled` are the two halves of `sweep_stranded_oom_descendants`, which
passes over a child that bears an exempt or a kernel thread's name as it looks
(`Exempt`, `spared`);
`RestorePending` one step of `restore_pending_oom_descendants`; `ReleaseRoot`
and `Pruned` the ends of `check_memory_pressure`; `Hydrate` the start.

- `BiasIsRecorded`: a process the guard biased is on record in the ledger and in
  memory with its true value.
- `InheritedIsOwed`: a process that inherited the target is pending or will be
  found by the sweep, unless it is one of those `late` excuses.
- `RestoresTheTruth`: what is written back is what the process would have had.

*Bounds*: three incarnations, the third on the pid of the first, each large enough
to be biased; one native value, and two that others may give the third (one of its
own, and one the guard does not bias); the second and the third may bear an exempt
name when a sweep looks: 3,444,222 states. This gives a root, its
child, a root below a root, and the reuse of a root's pid by a process that is itself
a root; a value taken from the wrong record shows in the third. Other instances of
the same size, without exempt names, were explored without an error: foreign values for the second as well
as the third process, two native values, roots that are never nested; and, with
two native values and foreign ones for all three, 28,039,341 states.
`Torn = FALSE`: the write-ahead property holds only if the last fsync of a
persist never fails (section 6).

`late` excuses processes the guard cannot be held to. It says which they are: who
was forked past the snapshot of a pass that releases, or below a child whose
restoration is under way, or on a pid that is still on record (`Slips`); whose
way up to its root was cut by an exit or loses its meaning because somebody wrote
a score that is on record (`Exit`, `OperatorSets`); who had inherited from further up
when the root above it was biased, or was owed a restoration when it was biased
itself (`Unsafe`); for whom the records hold two values (`Ambiguous`); and whom a sweep
has passed over for its name, with all it forks later (`Skipped`): such a child keeps
the target of its root and nobody owes it anything. A child that bears an exempt name
and has not been passed over yet is still owed. Section 6 has what the code says about
the last five.

### NiceLimiters

State: the incarnation on the pid with its live nice value and the one the guard
`found` it with; the records of both limiters and the ledger's; the pass's snapshot
row and the renice about to be executed. A process starts with a value of its own, or
with one a limiter has given its parent (`Inherited`): nothing in the code looks for
children as `OomBias` does, so a child of a reniced process keeps what it has
inherited, and if it is reniced itself, that is what is recorded as its original
(section 6). What the properties say is therefore relative to the value the guard
found, and that a descendant comes back to the value of its family is not among
them. Each `renice` is a step of its own after the
check of the incarnation, because the pid may be reused in between. `HeavyDecide`,
`HeavyRenice`, `Cool*` are `check_heavy_processes`; `Mem*` the renice half of
`check_memory_pressure`; `Restore*` the merged plan of
`restore_runtime_adjustments_with_samples` at start, stop and reload.

- `DegradedIsRecorded`: a process below the priority the guard found it with is on
  record.
- `OriginalIsTrue`: the value a record will restore is the one the process was found
  with.
- `NeverPromoted`: nobody runs above the priority it was found with.

That two records of one incarnation hold the same original, on which merging them
into one restore rests (`BothAgree`), is proved.

*Bounds*: two incarnations, native values 0 and 16 (16 + 5 passes the limit of
19), tiers 5 and 10, and what children inherit with them: 2,977,460 states.

`excused` marks an incarnation the guard cannot be held to: somebody else reniced
it while on record, the pid was reused between check and `renice`, or the guard
died with a record it keeps in memory only (heavy renices are never in the
ledger; memory renices reach it at the end of the pass). `misread` marks one
recorded from a snapshot the other limiter had outdated in the same pass; no
property covers that case (section 6).

### ManagedOom

State: the job, debt, retired and previous-boot records on disk; the workload
(`born`, `alive`, those at the target in `high`); the sentinel; guard and recoverer,
each with the place it is at; the lock holder with its copies. `Admit`, `Spawn`,
`ScanBegin`, `ScanEnd`, `Count`, `Certify` are `oom_job.rs` `enter`; `Bias*` and
`Arm` are `bias_inner` and `ensure_recoverer`; `Drain*` and `Archive*` are `drain`
and `drain_one` with `decide`, entered by guard and recoverer alike; `Reconcile`
is the operator's command, which takes no lock. Scores are abstracted to "baseline"
and "target", which is what the contract of `oom_job.rs` admits; other jobs
appear as one bit, the debts that keep the recoverer from exiting.

- `BiasIsOwed`: a member at the target belongs to a job of this boot with a debt
  on disk and no certificate.
- `CertifiedIsEmpty`: the certificate is written only for a workload that is
  gone, although a list of members can miss a newborn.
- `CertificateStays`: nobody who saves a loaded job record writes over it.
- `NoBiasWhileDraining`: once restoration has begun, only newborns come to the
  target.
- `ImplementsUndoLog`; and in `ManagedOomLive`
- `Restored`: a biased member of a draining job returns to the baseline;
- `DebtRetires`: a certified job's debt is retired, if the boot lasts.

*Bounds*: three members, drained one at a time, two boots: 282,475 states; three
members give a child of a child and a pass that leaves members for the next.
`ManagedOomLive`: two members, one boot, a pass that reaches both: 35,750 states.

*Fairness* (`ManagedOomLive`): the guard is started again whenever it is down
(its unit restarts it on failure, the watchdog when it has stopped), looks for debts in every
pass, gets a lock it tries for again and again, does not stay under it, and each
drain step that is tried again and again succeeds some time. Nothing is assumed
of the recoverer. A pass takes the first 256 members and does not remember where
it stopped: `Restored` holds when a pass reaches all members (`Batch >=
MaxMembers`), and its mutant is a pass one too short. A member that is exempt for
ever, and all members behind it, are not restored; the fairness excludes it.

### GuardDaemon

State: the policy file, the ledger (how it reads, of which boot, its records),
what is in force, the two programs (daemon and `guard once`, each with its
place, runtime and policy), the signal flags. `Start` is the entry of
`cmd_guard_daemon` and `cmd_guard_once` up to the lock; `Hydrated` is
`hydrate_mitigations_from` as the set of runtimes it may leave, `Saved`
`persist_mitigations_to` as the set of outcomes it may have; `Loop` and `Reload`
are the head of the loop and `apply_policy_reload`; `Intend`, `Apply`, `Release`,
`PassEnd` are a pass with one write-ahead adjustment per process; `Stop` and
`PersistEnd` the end.

- `Durable`: an adjustment in force has its record on disk, in bytes that can be
  read or repaired: through crashes, reloads, a one-shot run before or after the
  daemon's, and a ledger that is damaged, of another boot, without one, or
  repaired. Only a record an operator removed is excused (`dropped`).
- `DisableStops`: a reload that disables the guard stops it, whatever cannot be
  restored.
- `ReloadTaken`: the policy a SIGHUP was sent for comes into force although the
  signal comes while another reload is being made, unless something is owed at
  that moment (the code then defers, and forgets, that policy).

*Bounds*: one adjustable process, three policies (two enabled, one disabled), one
death or reboot: 63,192 states. The hazards are about the order of one record, one flag
and one ledger; two enabled policies are the least that tell a taken reload from
a lost one. The run may stop: nobody need start a guard, and a policy may be
disabled for good.

*Fairness*: each step of a running program is taken some time, since every call
returns or times out, and a pass ends. Starting a guard and sending signals is
nobody's duty.

### DiskPass

State: policy, usage, the freeze marker and whose it is, the pass with the usage
and the marker it has seen, the cooldowns, the cycle, the background tasks.
`Normal` is `normalize_guard_policy` on the disk thresholds, in the code's order
of clamps; `Look`, `Freeze`, `Unfreeze`, `LeaveMarker` are `manage_sync_freeze`,
which acts on what the pass saw before; `Clean*` and `CountCycle` decide what to
start; `Move`, `MoveEnds`, `Clean` are a task, which may outlive the pass and the
runtime. Others write to the disk, pause and resume synchronisation, reload,
restart.

- `InOrder`: the thresholds are in order whatever the policy file says.
- `OthersMarkerKept`: a marker the pass saw is never taken from another owner.
- `SyncComesBack`: the guard's own freeze ends when cleanups can bring the usage
  down, across restarts and reloads that no longer ask for freezes.

*Bounds*: a disk of five units one of which cannot be freed, three policies (as
shipped; out of range and out of order; no freeze), two tasks, one write, one
reset: 360,950 states. Five units give each of the five thresholds a place.

*Fairness*: passes follow one another, cooldowns and tasks end (they have
timeouts); a marker that can be removed is removed some time; a cleanup finds
some time what it may free. `SyncComesBack` excepts a policy whose `unfreeze`
lies below what can be freed, or below what the proactive cleanup starts at
(section 6).

### Removal

One entry (`family`: tmp, target, modules, git scratch, trash, bin) with the age of
its directory and of its newest content, whether it is whole, and its
`.trashinfo`; users who open, run, listen, build; cleaners that each follow one
of fourteen rules. A pass begins with an age (`Starts`), looks at the processes,
reads its clock, gives its verdict and removes in steps (`RemoveEntry`, `Sweep`,
`Forget`), or stashes. What a rule's look at the processes finds is in two parts:
`Sure` are those it finds or else the pass ends (`/proc` or `ps` cannot be read);
`Loose` are those it misses when it cannot read, for some looks answer "nobody" then:
sockets (`main.rs:4437`), executables (4391), pidfiles and working directories (3647),
git's owners (`git_temp.rs:250`). `...Allows` are the verdicts; `lifted` the age limits
that fall when the disk is critical. An entry may be protected, or, in the trash,
have a name like a credential's (`Bars`).

- `UsersAreSpared`: a removal never takes an entry from a process that has used it
  since before the pass looked and that the look found, nor from one that wrote it
  after that and before the verdict; only `disk clean`, the cleaner of git's scratch
  and the wipe of the whole trash take a protected entry; and no cleaner of the trash
  takes one that is like a credential.
- `Restorable`: an entry that is in the trash, even in part, has its `.trashinfo`.

*Bounds*: two cleaners of any kind (the guard's and an operator's, or two
overlapping background cleanups), one user, two writes or new entries of the name:
2,176,618 states. What each user is owed does not depend on other users.

### Stash

One origin and the entries of a stash root, on one filesystem or two (`cross`).
`Move*` is `stash_move_inner` (count, rename or copy and verify, manifest, older
automatic generations), `Restore*` `stash_restore`, `Purge`, `Expire*` the guard's
`stash_expire_detailed`. Every actor may die between any two steps; what it was
removing is left in part.

- `Kept`: what lay in the origin is there or in an entry, until it is purged by
  name, its manifest says that it has expired, or a newer automatic generation
  replaces an older one.
- `ManifestMeansWhole`: an entry that has a manifest holds at least what it counts.

*Bounds*: two files, two entries, a cleanup and an operator: 2,695,103 states,
symmetry on files. Two files give a copy that is cut short, two entries an older
and a newer generation. `late` excuses what is written to the origin while it is
being moved, which the code does not promise to keep, and what a publish that failed
renames back into an origin the other mover is about to remove (section 6).

### Relocation

Sources, each with its places (source, staging, backup, destinations); runs of
`relocate` that plan, check, copy, verify, stage, link, unstage, with every
failure and its undoing; `Record*` is `record_relocation`; `Apply*` is
`apply_one_link` of `links.rs` on the same paths; `Operator*` is what the refusal
over a stale staging directory tells an operator to do.

- `CompleteCopy`: one place holds the whole directory at every instant.
- `PathLeads`: when nothing is under way, the path leads to all of it; only a
  death or double failure between staging and link, or a policy that points the
  path elsewhere, is excepted (`cut`).
- `MovesAreRecorded`: a move the guard completed is on record, unless somebody wrote
  over a stale copy of the records (`muddled`).

*Bounds*: one source with two files that the guard moves to one root and an operator to
another, one empty source the guard moves; each run begun once, one application
of the link policy: 1,190,776 states, symmetry on files. Two files give a partial
copy; two sources give two writers of the records; two roots, a second
destination beside the first, and a run that meets what another left half-way.
With two starts of the guard's run, so that it meets what it left itself, the
same properties were explored over 3,927,502 states. Two runs of the guard that
overlap, to its one cold root, are not in the run: with them TLC finds `CompleteCopy` and
`PathLeads` violated, in thirteen states each (section 6).

A destination in the code is the root and the *basename* of the source, so that two
sources of one basename meet in one root; the second is refused once the first is
there (the destination exists), and overlapping runs of the two meet as those of one
source do. The model gives each source its own place in a root.

### Reap

Numbers and the processes that have them. `ScanServers` and `ScanTree` are the
candidates of `reap.rs` and `forgotten.rs`; `Verify` and `VerifyTree` ask again;
`Term`, `Poll`, `Escalate`, `Kill` are the termination, member by member, deepest
first; `CheckProfile` and `RemoveProfile` the browser's directory.

- `SignalsAreDue`: a signal reaches a process that met every gate at the last
  verification, or one that took the number since.
- `ProfileIsDead`: the profile is removed under no browser that was there at the last
  check, whoever was refused, skipped or forked.

*Bounds*: two numbers, four births: 2,428,960 states: a number can be used three
times, a root can have a helper, and one of each can be replaced.

### Reports, with ServiceGrowth

`Reports` follows one monitor, chosen at the start, over the shared memory
(`Emitted` is `report_state_transition`) or its own: `Early`, `Trend`, `Swap`,
... are the fifteen callers. `Stabilized` is `stabilize_memory_pressure_at`.
What the monitors measure is a choice of finding, except for service growth:
`SampleBegin`, `SampleRead`, `SampleEnd` and `SampleFails` are `collect` and
`sample_unit`, with restarts of the service between them; `Observed`, `Kept` and
`Grows` are the tracker.

- `SustainedFirst`: memory pressure is acted on only when it was seen for the whole
  sustain time, and what has been seen that long is not forgotten.
- `NewsIsTold`: news is told in the pass that finds it, a lasting finding again when the
  last message is old enough and not sooner. The exceptions are listed at the
  property.
- `GrowthIsTrue`: growth is told of one life of the service, measured along a whole
  window, and in both its halves.
- `GrowthIsTold`: a steady growth is told although the history keeps only some samples.

*Bounds*: repeat after 4 ticks, sustain 3, window 4 with two inner points of the
history, a footprint of up to 5, two starts: 1,552,607 states. Ages are counted
up to the largest interval they are compared with. Two inner points are so few that
samples are left out, and fewer than `SteadyGrowthTold` assumes (section 5); an
instance it covers (`MaxHistory = 6`, a footprint of up to 8, one start) was explored
too.

### Fairness where there is none

`OomBias`, `NiceLimiters`, `Removal`, `Stash`, `Relocation`, `Reap` and `Reports` are
checked for safety only: their work may legitimately end half-way and be left to
the next pass or an operator.

## 5. What is proved

The `...Proofs` modules of section 1 prove, with TLAPS, type correctness and the
invariants and action properties listed under "theorems" in `PROJECT.json`, for
*every* value of the constants: any sets of quotas, files, processes, sources and
policies, any number of generations, boots, incarnations, members, entries and
tasks. They rest on the named assumptions of the modules (`BoundsAssumption`,
`NiceAssumption`, ...), which say that the bounds are numbers and the values are in
range and which TLC evaluates on each run. Seven theorems have a hypothesis of their
own: six because the code does not keep the property without it or the proof goes no
further, one that the constants of the code satisfy. Each is named below.

**Refinements.** `LeaseIsUndoLog` and `JobIsUndoLog`: every step of the lease, and
of the job, is one of the four of `UndoLog` or a stutter. Each action is sorted
by what it does to the two sets, from the inductive invariants below: a lease is
removed (`Discharge`) when `NothingApplied` holds, a bias is written (`Apply`) when
`HolderInv` and `DebtInv` say that there is a debt.

**CPU lease.** `AppliedIsBacked` is not inductive: whether it survives the next
step depends on where the lock holder is and on what it has in hand. `IInv` adds

- `HolderInv`: who is in the critical section, and where;
- `CopyInv`: the holder's copy is the lease on disk, except for a new intent;
- `FileInv`: generations and invocations are drawn in order, so a new lease is
  in no record;
- `NothingApplied`: where a lease file is about to go, or is not armed yet, the
  scope is not at a quota of the guard's. This is the heart: it says why the order
  *intent, timer, armed lease, quota* and the order *quota, then file* are safe;
- `ObservedInv`: the invocation a cap read before the lock still tells a stale
  intent from a current one;
- `ReadInv`: what the holder is about to overwrite is what it read, unless `moved`.

`NextIInv` goes through the actions one by one, `Inductive` concludes `Spec => []IInv`;
`TypeCorrect`, `Backed` and `Recorded` follow, and `CompareAndRestore` is an action
property from `ReadInv`.

**OOM bias.** What a torn or old ledger would do to a restart is the point, so the
invariant says the same of *two* sets of records, of the ledger and of what a guard
that runs has in memory, or one that starts would read (`View`). `Sound` of a set
of records is

- `RecordInv`: records name processes that have been, with values the guard may give
  back; nobody who inherited is known from before or sits on the pid of a
  recorded root, and a debt names a root above its process;
- `OwesAll`: who inherited is pending, or below a root whose record cannot be
  dropped as stale, or below a child that is pending below such a root. The last
  is why the order matters in which a pass releases a root and persists;
- `BiasedAll`: whom the guard biased is on record with its own value.

`ProcInv` says that the score of a process follows from how it came by it, `PassInv`
what the snapshot and the pass know: who inherited is in the snapshot with all above
it, or was forked since below a root biased in this pass; behind the sweep such a
newborn is the only one that is not pending.

`ValuesAreTrue` says what each of them is given back. `ValueInv` adds to the above

- `Truthful`, again of both sets of records: going up from who inherited, the first
  process the sweep stops at *gives* it the value it would have. It is a root that is
  on record with that value and cannot be dropped as stale, or it has
  gone from the record and somebody on the path is pending with that value; and
  what is pending for the process itself is just that. Nobody who inherited has a pid
  for which anybody is pending, so that it stops nobody below; and nothing
  is pending for whom the guard has biased since;
- `InHand`: that nothing is pending for whom the guard is about to bias;
- `AtRest`: a process that is not there has the score it would have without the guard.

Two facts about paths carry the steps: going up, one meets at most one process of the
roots (`OneHit`), and with other roots one still comes as far, if these stop nowhere
on the way (`UpAsFar`, `StillFrom`). So a sweep takes for a process the value of the
root that gives (`SweepValue`), unless that root owes its children several, and a
fork joins the path of its parent.

`BiasStaysOnRecord`, `HeirsAreOwed` and `ValuesAreTrue` need
`~Torn`: with an fsync that fails after the rename TLC has a counterexample
to each (section 6). `TypeCorrect` does not. TLC checked `IInv` and `ValueInv` on the
instance of the run without exempt names and on one with foreign values for two processes
(5,159,454 states).

**Nice limiters.** `IInv` adds `Drawn` (incarnations are drawn in order),
`Downed` (a guard that is down has no maps), `Wished` (between decision and
`renice` the record the wish came from is still there), `Sampled` (up to the
first renice of a pass the snapshot is true) and `Floors` (nothing the guard
remembers of the present process is above the priority it was found with; a
hydrated guess is upwards from the original). None of them asks what a process may
start with. From it follow `TypeCorrect`, `RecordsAgree`,
`DegradedRecorded`, `OriginalsTrue` and `NotPromoted`.

**Managed job.** `BiasIsOwed` needs to know who may write or remove the debt and
the certificate. `IInv` adds

- `SentinelInv`: before admission there is nothing of the job; a living sentinel's
  job is of this boot and has no certificate; a sentinel about to certify has seen
  the workload gone, and nobody is left who could fork;
- `HolderInv`: who biases or drains holds a job record of this boot without a
  certificate, and so does the disk: this is why saving the loaded copy is harmless;
  only an archiver works on a record of another boot;
- `DebtInv`: the debt on disk is the one the holder wrote, or an operator has
  retired it, which needs a scope that is gone: a bias cannot find a member then.

The last is the argument for a reconciliation that takes no lock. `TypeCorrect`,
`Owed` and `CertificateTrue` follow; `CertificateKept` and `DrainingIsLeftAlone`
are action properties from `HolderInv` and `DebtInv`.

**Guard daemon.** `Durable` holds at an instant; to survive the next write of the
ledger it needs what the running program remembers. `Relies` (in `RunInv`) says
it for each program and each place: what is in force is in memory, and what memory
believes to be on disk is on disk, so that the shortcut for unchanged content may
skip a write; it does not where the ledger was unreadable or of another
boot. `OneRuns` is the daemon lock, `LedgerInv` says that a missing ledger records
nothing and that nothing is in force under a ledger of a previous boot.

**Disk pass.** `IInv` is the type invariant with `InForce`: whatever natural numbers
the file has, after the clamps of `normalize_guard_policy` the thresholds are in
order (`ThresholdsInOrder`). The cycle stays below the policy's number also when a
reload lowers it. `OthersMarkerIsKept` is an action property of its own.

**Stash.** `BaseInv` says that names are given once and that nobody but its mover
has to do with an entry that has no manifest. `WholeInv` adds that the count a mover
carries is not above what it has put into the entry, and that whoever takes
anything from an entry takes its manifest first; that proves `ManifestIsWhole` for any
number of movers. For `NothingIsLost`, `KeptInv` adds

- `Secure`: a file that is owed is in the origin, or in an entry that nobody may remove;
- `CopyFor`, `RestoreFor`: a copy in either direction holds, or has yet to copy,
  what the side it is about to remove has;
- `NewestFor`: no automatic generation is newer than that of the cleanup that
  replaces the others.

`OneEach` is its hypothesis: at most one cleanup and at most one operator, beside any number of
expiring guards. With two cleanups each may take the other's new generation for
an older one; of two operators who restore one entry, one may remove what the other
has brought home: TLC has both (section 6). `KeptInv` was checked by TLC with two files
and two entries, and with one file and three entries (15.4 million states).

**Relocation.** `MovesStayOnRecord` needs little. `NeverLost` and `PathStaysGood` need
`TreeInv`, for each source

- `PlaceOK`: a root holds a copy, never a link, and of its own relocation only;
- `Whole`: the whole tree is in a root that nobody may truncate, or at home where
  nobody has verified anything yet, or in the backup that a forced link made;
- `Orderly`, unless a move was cut short: the path leads to the tree, or exactly one
  relocation has it in staging, is able to put it back or on, and nobody else
  has begun to; once the source or its staging is a link, one relocation at most is
  still under way beside the one that made it (`OneMover`);
- `LinkOK`: the policy links only to the root of a relocation, and what it puts aside
  counts as cut short.

Both are of the form `Spec /\ []Apart => ...`. `Apart` speaks of what is under way
at one time, not of what is configured: no two relocations of a source that move to the
same root at once, at most two that move at once, and no application of the policy to a
source *while* a relocation of it moves. So they cover any number of relocations one
after the other to one root, the guard's repeated cleanups with their one cold root, and
the workflow whose policy entry `relocate` prints for the source it has just moved.
What `Apart` leaves out is
- two that overlap to one root. There the code does not keep what its comment promises,
  and both properties fail (section 6);
- a policy applied during a move. The run has it and finds no error with two
  relocations; with four relocations of a source and a policy at once `PathLeads` fails,
  in 31 states; with three it holds (9,389 states);
- three at once, to three roots, of which one may come to copy a directory that is not
  the tree: the proof does not go that far.

The code has no lock that would make relocations `Apart`: a reader should take it for
what an operator must see to. `TreeInv` was found by running TLC from every state that
satisfies it on small instances, and checked as an invariant under `Apart` with three
runs of which two share a root and up to two applications of the policy (107,704
states).

**Removal.** What a cleaner owes whom depends on its rule and on how far it is. `Good` says
it of one pass: whoever used the entry before it looked, and is still owed something, is
among those it has seen; a rule that asks nobody has seen nobody; a write since then
has made the entry too young for the age this rule is going to ask (`Saving`: of the
content, of the directory, or of the top alone, as the rule does); and who has come as
far as to remove owes nobody anything, and protected entries go by four rules
only. Whom a look that cannot read has missed is owed nothing, and `Good` does not
count on its finding anybody. No pass reads what is another's, so that `AllGood` goes through for any number of
them, each by its own step. `UsersAreSpared` is then what `Good` says at the removal. For
`Restorable`, `InfoKept` adds that one pass at most is on its way to take the
`.trashinfo`, and that the entry is gone by then.

**Reap.** `Scanned` is what a scan leaves to the verification: a server that is still the
process that was seen is old, and the members of a tree that are still those that were
seen belong to the root that was seen. `Signalled` says that whoever is yet to be
signalled, or has had TERM and may yet be killed, has gone, was due when verified, or
took the number after the clock of the verification (`Rightly`), and that the root of a
tree comes last. A birth takes a start above the clock, and so keeps it whatever number
it takes. `Checked` is the same clock for the browsers: none that is older than the
check is alive when the profile goes. `EndedRightly` and `ProfileWasDead` follow.

**Reports.** For `SustainedFirst`, `Sustained` relates what has really been seen all the
time (`lasting`) to the memory of the guard: what lasts is the state in force, or the
candidate, with the candidate's age. For `NewsIsTold`, `Recorded` says for each kind of
monitor that its entry is its last finding (but for those that forget an "ok"), and that
the last message was about the entry and is as old as it. Both are proved for any pace
of passes and reloads.

**Service growth.** The tracker keeps, prunes and picks points by their age, with a
greatest index here and a first one there. Induction over sequences is out of reach, and
`ByAge` stands in for it: the points come in the order of their age, so those of at
least any age are a prefix. It survives a new point, a suffix and a tick, and gives the
greatest index of any age at once. `Traced` says that what the history of the running
incarnation holds are calm samples, and that none of these is above its last. From it
`GrowthTold`: the base and the middle of a growth that is told are two such samples.
For `SteadyGrowthTold`, `Followed` says that the history is as good as the samples were:
points are a spacing apart (`Spread`), so that the bound on their number never cuts
into the window; the oldest is as old as the oldest calm sample, or as a window
(`Reaches`); and a calm sample between two points is less than a spacing younger than
the older of them (`Tight`). It assumes `4 * Spacing <= Window`, which thirty points to a
window of at least 60 seconds give (`service_growth.rs:226`, `policy.rs:1764`), and
`MinGrowth <= Window`, without which a growth of a unit per tick may be less than the least
that counts.

**Only model-checked.** Everything under fairness (`Lifted`, `Restored`, `DebtRetires`,
`DisableStops`, `ReloadTaken`, `SyncComesBack`): the prover does not handle
liveness under weak and strong fairness, nor ENABLED. `Stash` and `Relocation` beyond
the hypotheses. Induction over data is out of its reach as well (its
induction theorems take an operator as parameter), which is why no module here
rests on a recursive definition.

## 6. Where the program and its own text differ

Met while modelling. None is a violation of a property the runs check, because the properties
say what the code can keep; where a property needs an excuse (a ghost, a constant), it is
named.

*Limiters*

- `main.rs:6514` reads the nice value from the pass's snapshot, after the other
  limiter may have released in the same pass; the comment at 749 says the original
  is recorded (`misread` in `NiceLimiters`).
- A child forked between snapshot and release of its root keeps the score of 250
  with nobody owing it anything (`main.rs:2838`; 1013-1016 say that
  later children are swept back; `late` in `OomBias`).
- A child forked by a process that either limiter has reniced starts at the degraded
  nice value, which no record of its own takes back: there is no sweep for nice values.
  When it is reniced itself, the inherited value is recorded as its original
  (`main.rs:2516`, 6514; `Inherited` in `NiceLimiters`).
- The sweep passes over children whose command is exempt or a kernel thread's
  (`main.rs:2837-2842`), although such a child inherits 250 like any other; nobody gives
  it back (`Skipped` in `OomBias`).
- A child that inherits on a pid that is still on record is passed over by the
  sweep (`tracked_pids.contains`, `main.rs:2799`, 2839) until that record is pruned; if
  its root is released in the same pass, nobody restores it.
- `apply_oom_bias` does not look at `oom_pending_descendants`: a process that is biased
  while a restoration is owed to it is given the value of its former root by that debt.
- A child's debt takes its value from a map of roots by `.entry().or_insert` over a
  `HashMap` (`main.rs:2817-2833`; 2822: "a released root's original value is still
  known"). A root that was released and biased again may be known with two values; which
  one a child gets is left to the iteration order. And who had inherited from
  further up when a nested root is biased counts as known from before.
- When the directory fsync of a persist fails after the rename, the shortcut for
  unchanged content later skips a write that is needed (`main.rs:7289` and 7302
  against 7301; `Torn = TRUE` breaks all three properties of `OomBias`, the last in
  thirty steps).
- An operator's quota set between read and write of a release is overwritten
  (`cpu_limit.rs:533`; 531 says it is not; `moved` in `CpuLease`).
- A recoverer that has counted no debts is "active" until it exits, and a bias
  written in between has no recoverer but the guard (`managed_oom.rs:410`).
- A copy of an archive that was cut short is taken for complete and its source
  removed (`managed_oom.rs:138`; 135 says complete).

*Guard*

- `hydrate_mitigations_from` returns on a missing ledger without clearing
  `mitigation_ledger_unavailable` (`main.rs:7338`; 7330: "Missing state is fresh
  state."): after an operator has removed a bad ledger, the daemon that saw it bad
  keeps it unavailable until it is restarted.
- A deferred reload drops the policy it has loaded and the signal (`main.rs:12207`): it
  takes another SIGHUP. `guard once` does not persist after its last restore
  (11625), so that the next guard finds records of what is already restored.
- "exiting here is clean" (`main.rs:12245`): a freeze marker of the guard's stays.
  A reload that changes the marker's path strands the old one.
- With `unfreeze` more than one below `proactive`, usage may stay between them:
  frozen, with nobody cleaning (`dracon-system.example.toml:111` says "set to
  ~warn_percent" and does not mention `proactive`; `SyncComesBack` excepts it).
- The marker is looked at and written later (`main.rs:7625`); a pause in between is
  overwritten. Cleanups are paced by their starts only, and may overlap. A cleanup
  that `guard once` spawns dies with the process. The summary slot has no
  effect in the daemon.
- The large-log warning ("log-size-warning", near `main.rs:9985`) and
  "disk-extra-unreadable" never record that all is well again, so that a new
  episode is told only when an old one would be.

*Moving*

- Of two relocations of one source to one root that run at once, both may find the
  destination absent; the one that fails then removes what is there as "our own
  partial copy" (`relocate.rs:468`), which may be the other's, already linked to.
  The comment above it (467) says "`dest` was verified absent above, so anything there on
  failure is our own partial copy". The guard's cleanups may overlap (only their starts are
  paced, and nothing locks) and have one cold root. In the run a source's two relocations
  have roots of their own; section 5 says what is proved without that. What the refusal
  prints ("mv staging source, then re-run", 343 and 405) does not suffice: the
  destination exists, and the next run refuses for that.
- Concurrent rewrites of the relocation record lose entries (`relocate.rs:801`;
  `muddled`).
- A restore on another filesystem that fails removes the origin whoever made it
  (`stash.rs:501`: "The origin must not exist."); an automatic replacement takes any
  other automatic generation, also a newer one of an overlapping cleanup
  (`stash.rs:288`). Two movers of one origin can publish a count that is not the
  entry's. A death after a restoring rename leaves a manifest in the origin.
- Two cleanups that overlap may each take the other's new generation for an older one
  (`stash.rs:297-320`), and of two operators who restore one entry one may remove
  what the other has brought home. A publish that fails renames the entry back
  into an origin another mover may be about to remove. (The run has one of each; the
  hypothesis `OneEach` of section 5.)
- The first removal that fails ends a batch of the expiry, always at the same
  entry (`stash.rs:610`).

*Removing*

- `disk clean` and the cleaner of git's scratch files never consult
  `protected_paths` (`UsersAreSpared` excepts them). The "re-capture ... immediately
  before the unlink" (`disk.rs`, about 1139) uses one snapshot for all, and the age of a
  plain file is not asked again.
- Some looks at the processes fail open: an unreadable `/proc/net/unix` has no sockets
  (`main.rs:4437`), `/proc` that cannot be listed no executables (4391) and no git
  (`git_temp.rs:250`), an unreadable pidfile or working directory is passed over
  (`Loose` in `Removal`).
- Targets, modules and trash are judged by the age of the top directory alone
  (`main.rs`, about 3860); the proactive cleanup does not repeat the 60-second
  check. `storage --cleanup` sees executables inside a candidate, not open files.
- Emptying the whole trash asks protection for the trash's directories only
  (`main.rs:4984`): protected entries in it go with the rest, while the cleaner that goes
  entry by entry spares them. It removes the info directory although files may be left, or
  were refused (`main.rs` 4970-5035; `Restorable` is about the ageing trash).

*Reaping and growth*

- "microseconds" between verification and signal (`reap.rs`, about 690) is up to five
  seconds for SIGKILL; `members_left = 0` does not count members that were refused,
  skipped or forked since. The removal of the profile checks for itself.
- The sum of counters read one after the other may count a page twice (said in the
  source's own provenance notes): in the model the total is arbitrary.

*Nix* (`main.rs` 5581-5774; not modelled). Without a "(current)" marker the message
says that the prune of generations is skipped, and `+N` is used. The user's list is of
`-p default`, the deletion acts on the default profile of the user; the system's
plan is made from `system-*-link` and applied to `profiles/default`. After a system
prune that fails the function returns before the garbage collection which the
message says still runs.

## 7. What is left out, and why

- The order of the steps of *different* limiters in one pass: they share the ledger
  (`GuardDaemon`) and the nice value of a process (`NiceLimiters`), nothing else.
- `OomBias`: the retry budget of a descendant. `ManagedOom`: the forced drain and the
  calls with an expected job, which only the protection probe makes; the contents of the exempt set (any
  member may stop a drain); more than one job.
- Several origins in one stash, several entries before one cleaner, several services
  before one tracker: they do not meet, except that one expiry batch ends at the
  first failure (section 6).
- A torn write of the ledger: `OomBias` has it as a constant, `GuardDaemon` not.
- Numbers that only decide *whether* something is found: thresholds of memory,
  trends, rates, inode shares, sizes. They are choices of the environment, so that the
  properties hold whatever they are. The disk thresholds are numbers because
  their order matters.
- Time is an event or a small age, not a clock; which of two unrelated deadlines is
  first is left open.
- String work: protected paths, credential-like names and git-tracked sources are one
  bit; names of stash entries and backups are fresh.
- The contract of a managed job is assumed: its members neither leave the scope nor
  write their scores. What the code does when they break it is to stop the drain,
  which is an allowed failure here.
- Package caches and docker are cleaned by their own tools; Nix generations are a
  list in and a list out, once per cleanup; the event log has one lock around every
  access; doctor, tmux health, the space report, printing, setup and zram observe
  or print; the protection probe drives the limiters on a process of its own.
  `PROJECT.json` gives the status of each component.
- Hazards no property covers have a note in `PROJECT.json`.
