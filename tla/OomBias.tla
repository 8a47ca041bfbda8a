------------------------------ MODULE OomBias -------------------------------
(***************************************************************************)
(* OOM steering of src/src/main.rs: under critical pressure the guard      *)
(* raises oom_score_adj of the biggest processes (roots) to a target; a    *)
(* child forked below a root inherits the target, and a sweep in every     *)
(* pass gives it back the root's original value.  Root records, the sets   *)
(* of known descendants and the pending restorations are kept in memory    *)
(* and in a ledger that is written before every mutation.                  *)
(*                                                                         *)
(* A member of Procs is one process INCARNATION (pid and start time);      *)
(* PidOf gives its pid, so two incarnations may reuse one.  The guard      *)
(* works on a snapshot taken when its pass begins, while processes fork,   *)
(* exit and are adjusted by others between any two of its steps.           *)
(***************************************************************************)
EXTENDS Integers

CONSTANTS
    Procs,      \* process incarnations
    PidOf,      \* their pids
    Biasable,   \* the ones big enough to be among the top RSS processes
    Exempt,     \* the ones whose command may be an exempt or a kernel thread's name
    Natives,    \* oom_score_adj values processes are started with
    Foreign,    \* per process, the values others may give it later
    Target,     \* OOM_BIAS_TARGET
    Protected,  \* OOM_PROTECTED_ADJ
    Torn        \* may the fsync of the ledger's directory fail after the rename

Pids == {PidOf[p] : p \in Procs}
Init1 == 0      \* the process that adopts orphans, parent of whatever has no other

ASSUME ConstantsAssumption ==
    /\ Procs \subseteq Nat \ {Init1}
    /\ PidOf \in [Procs -> Nat \ {Init1}]
    /\ Biasable \subseteq Procs /\ Exempt \subseteq Procs
    /\ Natives \subseteq Int \ {Target} /\ Foreign \in [Procs -> SUBSET (Int \ {Target})]
    /\ Target \in Int /\ Protected \in Int
    /\ Natives # {} /\ Torn \in BOOLEAN

VARIABLES
    life,       \* per process: unborn, alive, dead
    parent,     \* its parent, a process or Init1
    adj,        \* its live oom_score_adj
    base,       \* the value it would have had without the guard
    mark,       \* why its value is what it is: own, biased, inherited
    mem,        \* the guard's maps: [biased, known, pending]
    ledger,     \* the copy on disk
    last,       \* last_persisted_mitigations: what the guard knows it wrote
    pc,         \* where the guard is
    mode,       \* the pass: critical (or any other), ok, restore (start or stop), reload
    sampled,    \* the snapshot: the parent each sampled process had, or Absent
    cur,        \* the process being biased
    late        \* processes the guard cannot be held to, see Slips, Exit, OperatorSets,
                \* Unsafe, Ambiguous, Skipped

vars == <<life, parent, adj, base, mark, mem, ledger, last, pc, mode,
        sampled, cur, late>>
processVars == <<life, parent, base>>
passVars == <<mode, sampled, cur>>

Absent == -1
NoRoot == [proc |-> Init1, orig |-> Target]
NoDebt == [root |-> Init1, orig |-> Target]
NoRecords == [biased  |-> [i \in Pids |-> NoRoot],
              known   |-> [i \in Pids |-> {}],
              pending |-> [p \in Procs |-> NoDebt]]
Never == [biased |-> <<>>]     \* nothing persisted since the guard started
NoSample == [p \in Procs |-> Absent]

Alive == {p \in Procs : life[p] = "alive"}

Values == Natives \cup UNION {Foreign[p] : p \in Procs}

Records == [biased  : [Pids -> [proc : Procs \cup {Init1}, orig : Values \cup {Target}]],
            known   : [Pids -> SUBSET Procs],
            pending : [Procs -> [root : Pids \cup {Init1}, orig : Values \cup {Target}]]]

(* A pass that releases nobody is a critical one, which may bias or not. *)
Modes == {"critical", "ok", "restore", "reload"}
Releasing == {"ok", "restore", "reload"}

(* The types: the processes, the maps of the guard (GuardRuntimeState), its ledger
   and the pass. *)
TypeOK ==
    /\ life \in [Procs -> {"unborn", "alive", "dead"}]
    /\ parent \in [Procs -> Procs \cup {Init1}]
    /\ adj \in [Procs -> Values \cup {Target}]
    /\ base \in [Procs -> Values \cup {Target}]
    /\ mark \in [Procs -> {"own", "biased", "inherited"}]
    /\ mem \in Records /\ ledger \in Records /\ last \in Records \cup {Never}
    /\ pc \in {"down", "starting", "idle", "apply", "write", "restore", "release"}
    /\ mode \in Modes
    /\ sampled \in [Procs -> Procs \cup {Init1, Absent}]
    /\ cur \in Procs \cup {Init1}
    /\ late \subseteq Procs

-----------------------------------------------------------------------------
(* Whom one meets going up from p, as far as the processes whose pid is in stop. *)
Up(up, p, stop) ==
    {a \in Procs : \A S \in SUBSET Procs :
        (\A x \in S \cup {p} : (x = p \/ PidOf[x] \notin stop) /\ up[x] \in Procs => up[x] \in S)
            => a \in S}

Ancestors(up, p) == Up(up, p, {})

(* nearest_biased_ancestor: the pid of the nearest ancestor among the roots,
   or Init1; matched by pid, as in the code. *)
NearestRoot(up, p, roots) ==
    LET hits == {a \in Up(up, p, roots) : PidOf[a] \in roots}
    IN IF hits = {} THEN Init1 ELSE PidOf[CHOOSE a \in hits : TRUE]

(* process_identity_status of a recorded process. *)
Gone(p) == p \in Procs /\ \A q \in Alive : PidOf[q] # PidOf[p]
Match(p) == p \in Alive

Recorded(m) == {i \in Pids : m.biased[i] # NoRoot}
Indebted(m) == {p \in Procs : m.pending[p] # NoDebt}
PendingRoots(m) == {m.pending[p].root : p \in Indebted(m)}

(* The values a sweep may take for root i: its record's, if the record still
   names the process or one that is gone, else one its pending children carry. *)
RootValues(m, i) ==
    IF i \in Recorded(m) /\ (Match(m.biased[i].proc) \/ Gone(m.biased[i].proc))
      THEN {m.biased[i].orig}
      ELSE {m.pending[p].orig : p \in {q \in Indebted(m) : m.pending[q].root = i}}

SweepRoots(m) == {i \in Pids : RootValues(m, i) # {}}

(* remove_oom_bias: the known set stays while a child restoration is owed. *)
RemoveBias(m, i) ==
    [m EXCEPT !.biased[i] = NoRoot,
              !.known[i] = IF i \in PendingRoots(m) THEN @ ELSE {}]

(* persist_mitigations_to: skipped when nothing changed since the last one
   that succeeded; a failure is reported before, or after, the rename. *)
PersistOk(m) ==
    /\ ledger' = IF m = last THEN ledger ELSE m
    /\ last' = m
PersistFails(m) ==
    /\ m # last
    /\ ledger' \in IF Torn THEN {ledger, m} ELSE {ledger}
    /\ UNCHANGED last
Persist(m) == PersistOk(m) \/ PersistFails(m)

-----------------------------------------------------------------------------
(* Processes.  A fork slips past the guard's bookkeeping if it inherits the target
   on a pid that is still on record (the sweep goes by pid) or below a child that
   is being restored in this pass; in a pass that releases (the snapshot misses
   it, its root is dropped in the same pass); and below one that slipped. *)
Slips(p, from) ==
    \/ /\ from \in Alive /\ mark[from] # "own"
       /\ \E m \in {mem, ledger} : PidOf[p] \in Recorded(m) \cup PendingRoots(m)
    \/ pc \notin {"idle", "down"} /\ from \in Alive /\ mark[from] = "inherited"
    \/ mode \in Releasing
    \/ from \in late

Fork(p, from) ==
    /\ life[p] = "unborn"
    /\ \A q \in Alive : PidOf[q] # PidOf[p]
    /\ from \in Alive \cup {Init1}
    /\ life' = [life EXCEPT ![p] = "alive"]
    /\ parent' = [parent EXCEPT ![p] = from]
    /\ IF from = Init1
         THEN \E v \in Natives :
                 /\ adj' = [adj EXCEPT ![p] = v] /\ base' = [base EXCEPT ![p] = v]
                 /\ mark' = mark
         ELSE /\ adj' = [adj EXCEPT ![p] = adj[from]]
              /\ base' = [base EXCEPT ![p] = base[from]]
              /\ mark' = [mark EXCEPT ![p] = IF mark[from] = "own" THEN "own" ELSE "inherited"]
    /\ late' = IF Slips(p, from) THEN late \cup {p} ELSE late
    /\ UNCHANGED <<mem, ledger, last, pc, passVars>>

(* Children of a process that exits are adopted, so nothing ties them to a
   root above it any more. *)
Exit(p) ==
    /\ p \in Alive
    /\ life' = [life EXCEPT ![p] = "dead"]
    /\ parent' = [q \in Procs |-> IF parent[q] = p \/ q = p THEN Init1 ELSE parent[q]]
    /\ adj' = [adj EXCEPT ![p] = base[p]]
    /\ mark' = [mark EXCEPT ![p] = "own"]
    /\ late' = (late \cup {q \in Alive : p \in Ancestors(parent, q)}) \ {p}
    /\ UNCHANGED <<base, mem, ledger, last, pc, passVars>>

(* Somebody else writes oom_score_adj; what hangs below a recorded process
   loses the meaning the record had for it. *)
OnRecord(p) ==
    \/ mark[p] # "own"
    \/ \E m \in {mem, ledger} : m.pending[p] # NoDebt \/ m.biased[PidOf[p]].proc = p

OperatorSets(p, v) ==
    /\ p \in Alive /\ v # adj[p]
    /\ adj' = [adj EXCEPT ![p] = v]
    /\ base' = [base EXCEPT ![p] = v]
    /\ mark' = [mark EXCEPT ![p] = "own"]
    /\ late' = IF OnRecord(p) THEN late \cup {p} \cup {q \in Alive : p \in Ancestors(parent, q)}
                              ELSE late
    /\ UNCHANGED <<life, parent, mem, ledger, last, pc, passVars>>

-----------------------------------------------------------------------------
(* The pass. *)
PassBegin(m) ==
    /\ pc \in {"idle", "starting"}
    /\ pc = "starting" => m = "restore"
    /\ mode' = m
    /\ sampled' = [p \in Procs |-> IF p \in Alive THEN parent[p] ELSE Absent]
    /\ pc' = "apply"
    /\ UNCHANGED <<processVars, adj, mark, mem, ledger, last, cur, late>>

(* oom_bias_target *)
CanBias(v) == v < Target /\ v > Protected

(* apply_oom_bias up to the write: a record is believed only while the live
   value is the target; the intent is on disk before the mutation. *)
BiasCandidate(p) ==
    /\ pc = "apply" /\ mode = "critical"
    /\ p \in Biasable \cap Alive /\ sampled[p] # Absent
    /\ ~(PidOf[p] \in Recorded(mem) /\ adj[p] = Target)

SampledBelow(p) == {q \in Procs : sampled[q] # Absent /\ p \in Ancestors(sampled, q)}

(* Fault: a record that is stale keeps the original value it carried. *)
IntentKeepsOriginal(p) ==
    [mem EXCEPT !.biased[PidOf[p]] =
                   [proc |-> p, orig |-> IF @ = NoRoot THEN adj[p] ELSE @.orig],
                !.known[PidOf[p]] = SampledBelow(p)]

Intent(p) == [mem EXCEPT !.biased[PidOf[p]] = [proc |-> p, orig |-> adj[p]],
                         !.known[PidOf[p]] = SampledBelow(p)]

(* Whom the new record does not do justice: children that had inherited already,
   and p itself if a restoration is still owed to it (the code does not look). *)
Unsafe(p) == {q \in SampledBelow(p) : mark[q] = "inherited"}
             \cup {q \in {p} : mem.pending[q] # NoDebt}

BiasIntent(p) ==
    /\ BiasCandidate(p) /\ CanBias(adj[p])
    /\ \/ /\ PersistOk(Intent(p))
          /\ mem' = Intent(p)
          /\ cur' = p /\ pc' = "write"
       \/ /\ PersistFails(Intent(p))
          /\ mem' = RemoveBias(Intent(p), PidOf[p])
          /\ UNCHANGED <<cur, pc>>
    /\ late' = late \cup Unsafe(p)
    /\ UNCHANGED <<processVars, adj, mark, mode, sampled>>

(* A stale record of a process that may not be biased now is just dropped. *)
BiasDropStale(p) ==
    /\ BiasCandidate(p) /\ ~CanBias(adj[p])
    /\ PidOf[p] \in Recorded(mem)
    /\ mem' = [mem EXCEPT !.biased[PidOf[p]] = NoRoot]
    /\ UNCHANGED <<processVars, adj, mark, ledger, last, pc, passVars, late>>

(* Fault: an error reported after the write drops the intent. *)
BiasWriteForgets ==
    /\ pc = "write"
    /\ pc' = "apply" /\ cur' = Init1
    /\ cur \in Alive
    /\ adj' = [adj EXCEPT ![cur] = Target]
    /\ mark' = [mark EXCEPT ![cur] = "biased"]
    /\ mem' = RemoveBias(mem, PidOf[cur])
    /\ UNCHANGED <<processVars, ledger, last, mode, sampled, late>>

(* The descriptor held since before the intent cannot reach another process. *)
BiasWrite ==
    /\ pc = "write"
    /\ pc' = "apply" /\ cur' = Init1
    /\ \/ /\ cur \in Alive
          /\ adj' = [adj EXCEPT ![cur] = Target]
          /\ mark' = [mark EXCEPT ![cur] = "biased"]
       \/ UNCHANGED <<adj, mark>>           \* it failed; the intent is retained
    /\ UNCHANGED <<processVars, mem, ledger, last, mode, sampled, late>>

(* sweep_stranded_oom_descendants, up to the write-ahead persist: every
   sampled process below a root, not itself tracked, not known from before and
   not of an exempt name (spared: a policy or an exec changes what that is from
   pass to pass) becomes a pending restoration to the root's value. *)
NewDebts(spared) ==
    {p \in Procs \ spared :
        /\ sampled[p] # Absent
        /\ PidOf[p] \notin Recorded(mem)
        /\ mem.pending[p] = NoDebt
        /\ LET i == NearestRoot(sampled, p, SweepRoots(mem)) IN
           i # Init1 /\ p \notin mem.known[i]}

Swept(value, spared) ==
    [mem EXCEPT !.pending = [p \in Procs |->
        IF p \in NewDebts(spared)
          THEN LET i == NearestRoot(sampled, p, SweepRoots(mem)) IN [root |-> i, orig |-> value[i]]
          ELSE mem.pending[p]]]

(* Released and biased again, a root may owe its children different values; the
   code takes any of them for a new one. *)
Ambiguous ==
    {p \in NewDebts({}) : \E v, w \in RootValues(mem, NearestRoot(sampled, p, SweepRoots(mem))) : v # w}

(* A child that is passed over keeps what it inherited, and nothing says so. *)
Skipped(spared) == {p \in spared : mark[p] = "inherited"}

Sweep ==
    /\ pc = "apply"
    /\ \E spared \in SUBSET (NewDebts({}) \cap Exempt),
          value \in [SweepRoots(mem) -> Values \cup {Target}] :
          /\ \A i \in SweepRoots(mem) : value[i] \in RootValues(mem, i)
          /\ mem' = Swept(value, spared)
          /\ late' = late \cup Ambiguous \cup Skipped(spared)
    /\ \/ /\ PersistOk(mem')
          /\ pc' = "restore"
       \/ /\ PersistFails(mem')
          /\ pc' = "release"
    /\ sampled' = NoSample                  \* not used after this
    /\ UNCHANGED <<processVars, adj, mark, mode, cur>>

(* oom_restore::restore: write the original only over the target. *)
RestoreAdj(p, orig) ==
    IF adj[p] = Target
      THEN /\ adj' = [adj EXCEPT ![p] = orig]
           /\ base' = [base EXCEPT ![p] = orig]
           /\ mark' = [mark EXCEPT ![p] = "own"]
      ELSE UNCHANGED <<adj, mark, base>>

(* restore_pending_oom_descendants, for one of them. *)
RestorePending(p) ==
    /\ pc = "restore" /\ p \in Indebted(mem)
    /\ LET debt == mem.pending[p] IN
       IF p \in Alive
         THEN /\ RestoreAdj(p, debt.orig)
              /\ mem' = [mem EXCEPT !.pending[p] = NoDebt, !.known[debt.root] = @ \cup {p}]
         ELSE /\ mem' = [mem EXCEPT !.pending[p] = NoDebt]
              /\ UNCHANGED <<adj, mark, base>>
    /\ UNCHANGED <<life, parent, ledger, last, pc, passVars, late>>

(* Fault: the list is cleared once every debt has been tried. *)
SweepSettledClears ==
    /\ pc = "restore"
    /\ mem' = [mem EXCEPT !.pending = [p \in Procs |-> NoDebt]]
    /\ Persist(mem')
    /\ pc' = "release"
    /\ UNCHANGED <<processVars, adj, mark, passVars, late>>

(* All were tried: the debts that are left, unreadable, refused, not verified
   or of a name that has become exempt, are retained. *)
SweepSettled ==
    /\ pc = "restore"
    /\ Persist(mem)
    /\ pc' = "release"
    /\ UNCHANGED <<processVars, adj, mark, mem, passVars, late>>

(* The release after the cool-down, and the restoration of a reload or a
   stop: a root that matches is restored, then its record dropped; one that
   fails is simply not released in this pass. *)
ReleaseRoot(i) ==
    /\ pc = "release" /\ mode \in Releasing
    /\ i \in Recorded(mem)
    /\ LET root == mem.biased[i] IN
       IF Match(root.proc) THEN RestoreAdj(root.proc, root.orig) ELSE UNCHANGED <<adj, mark, base>>
    /\ mem' = RemoveBias(mem, i)
    /\ UNCHANGED <<life, parent, ledger, last, pc, passVars, late>>

(* The prunes: records of roots gone or reused, unless a child restoration is
   owed, and the known sets of pids without a record. *)
Pruned(m) ==
    LET kept == {i \in Recorded(m) : Match(m.biased[i].proc) \/ i \in PendingRoots(m)} IN
    [m EXCEPT !.biased = [i \in Pids |-> IF i \in kept THEN @[i] ELSE NoRoot],
              !.known = [i \in Pids |-> IF i \in kept THEN @[i] ELSE {}]]

PassEnd ==
    /\ pc = "release" /\ mode # "reload"
    /\ mem' = IF mode = "restore" THEN mem ELSE Pruned(mem)
    /\ Persist(mem')
    /\ pc' = "idle"
    /\ mode' = "critical" /\ sampled' = NoSample /\ cur' = Init1
    /\ UNCHANGED <<processVars, adj, mark, late>>

(* apply_policy_reload: the runtime starts afresh if nothing is left to
   restore; else the old one goes on.  The ledger is not written here. *)
ReloadEnd ==
    /\ pc = "release" /\ mode = "reload"
    /\ IF Recorded(mem) \cup Indebted(mem) = {}
         THEN mem' = NoRecords /\ last' = Never
         ELSE UNCHANGED <<mem, last>>
    /\ pc' = "idle"
    /\ mode' = "critical" /\ sampled' = NoSample /\ cur' = Init1
    /\ UNCHANGED <<processVars, adj, mark, ledger, late>>

GuardDies ==
    /\ pc # "down"
    /\ pc' = "down" /\ mem' = NoRecords /\ last' = Never
    /\ mode' = "critical" /\ sampled' = NoSample /\ cur' = Init1
    /\ UNCHANGED <<processVars, adj, mark, ledger, late>>

(* hydrate_mitigations_from, same boot: what is gone or reused is not adopted. *)
Hydrate ==
    /\ pc = "down"
    /\ pc' = "starting"
    /\ mem' = [biased |-> [i \in Pids |-> IF Match(ledger.biased[i].proc) THEN ledger.biased[i] ELSE NoRoot],
               known |-> ledger.known,
               pending |-> [p \in Procs |-> IF p \in Alive THEN ledger.pending[p] ELSE NoDebt]]
    /\ UNCHANGED <<processVars, adj, mark, ledger, last, passVars, late>>

-----------------------------------------------------------------------------
Init ==
    /\ life = [p \in Procs |-> "unborn"]
    /\ parent = [p \in Procs |-> Init1]
    /\ base \in {[p \in Procs |-> v] : v \in Natives}
    /\ adj = base
    /\ mark = [p \in Procs |-> "own"]
    /\ mem = NoRecords /\ ledger = NoRecords /\ last = Never
    /\ pc = "down" /\ mode = "critical" /\ sampled = NoSample /\ cur = Init1
    /\ late = {}

Processes ==
    \E p \in Procs :
        \/ \E from \in Procs \cup {Init1} : Fork(p, from)
        \/ Exit(p)
        \/ \E v \in Foreign[p] : OperatorSets(p, v)

Pass ==
    \/ \E m \in Modes : PassBegin(m)
    \/ \E p \in Procs : BiasIntent(p) \/ BiasDropStale(p) \/ RestorePending(p)
    \/ BiasWrite \/ Sweep \/ SweepSettled \/ PassEnd \/ ReloadEnd
    \/ \E i \in Pids : ReleaseRoot(i)

Next == Processes \/ Pass \/ GuardDies \/ Hydrate

Spec == Init /\ [][Next]_vars

-----------------------------------------------------------------------------
(* What the guard knows, or will know once it has been started again. *)
View == IF pc = "down" THEN ledger ELSE mem

(* A process the sweep will find: it is pending, or it hangs below a root
   and is not taken for one that was there before the bias. *)
Owed(p) ==
    \/ View.pending[p] # NoDebt
    \/ LET i == NearestRoot(parent, p, SweepRoots(View)) IN
       i # Init1 /\ p \notin View.known[i] /\ PidOf[p] \notin Recorded(View)

(* Write-ahead: a process the guard itself biased is on record, in the ledger
   and in the memory of a running guard, with the value it had. *)
BiasIsRecorded ==
    \A p \in Alive : mark[p] = "biased" =>
        \A m \in {ledger, View} :
            /\ m.biased[PidOf[p]].proc = p
            /\ p \notin late => m.biased[PidOf[p]].orig = base[p]

(* The sweep's bookkeeping loses nobody: whoever inherited the target is owed
   a restoration, through crashes, failed writes and failed persists, unless
   it slipped past a snapshot or a sweep passed it over for its exempt name. *)
InheritedIsOwed ==
    \A p \in Alive : mark[p] = "inherited" /\ p \notin late => Owed(p)

(* What the guard writes back is the value the process would have had. *)
RestoresTheTruth ==
    [][\A p \in Procs :
          adj[p] = Target /\ adj'[p] # Target /\ life'[p] = "alive" /\ p \notin late'
              => adj'[p] = base[p]]_vars
=============================================================================
