-------------------------- MODULE GuardDaemonProofs --------------------------
(* Proofs about GuardDaemon: for any number of processes, any policies and
   any number of deaths, an adjustment in force has its record on disk. *)
EXTENDS GuardDaemon, TLAPS

(* A guard's runtime, and all there is to know of its process. *)
Runtimes ==
    [mem : SUBSET Adj, unavail : BOOLEAN, last : {{}} \cup {{S} : S \in SUBSET Adj}]
Guards == [pc : Steps, rt : Runtimes, pol : Policies, new : Policies, adj : SUBSET Adj]
Ledgers == [reads : {"missing", "bad", "legacy", "ok"}, old : BOOLEAN, recs : SUBSET Adj]

(* What a guard process may rely on when the ledger is L and the adjustments
   in force that somebody must have on record are O, and those whose record
   somebody removed D: one that has read the ledger, and thinks it can use it,
   remembers all that is owed; what it last saved is still on disk unless
   somebody removed it; what it is about to apply is saved. *)
Relies(r, L, O, D) ==
    /\ r.pc = "down" => r = Down
    /\ r.pc = "hydrate" => r.rt = Fresh /\ r.adj = {}
    /\ r.pc \notin {"down", "hydrate"} /\ ~r.rt.unavail => O \subseteq r.rt.mem
    /\ \A S \in r.rt.last : S \subseteq L.recs \cup D /\ ~L.old
    /\ IF r.pc = "apply" THEN r.rt.last = {r.rt.mem} /\ r.adj \subseteq r.rt.mem ELSE r.adj = {}

Owed == applied \ dropped

(* acquire_daemon_lock: at most one guard runs. *)
OneRuns == \A p, q \in Procs : p = q \/ At(p, "down") \/ At(q, "down")

(* A ledger that is not there records nothing; nothing is in force under one
   of a previous boot. *)
LedgerInv ==
    /\ ledger.reads = "missing" => ledger.recs = {}
    /\ ledger.old => applied = {}

(* The variables nobody relies on. *)
SimpleOK ==
    /\ file \in Policies \cup {Corrupt}
    /\ hup \in BOOLEAN /\ term \in BOOLEAN /\ crashes \in 0 .. MaxCrashes

StateOK == ledger \in Ledgers /\ applied \subseteq Adj /\ dropped \subseteq Adj

RunInv ==
    /\ run \in [Procs -> Guards]
    /\ \A p \in Procs : Relies(run[p], ledger, Owed, dropped)

IInv == SimpleOK /\ StateOK /\ RunInv /\ OneRuns /\ LedgerInv /\ Durable

-----------------------------------------------------------------------------
(* Records: a runtime, *)
LEMMA RuntimeFields ==
  ASSUME NEW rt \in Runtimes
  PROVE  /\ rt.mem \subseteq Adj /\ rt.unavail \in BOOLEAN
         /\ rt.last \in {{}} \cup {{S} : S \in SUBSET Adj}
         /\ rt = [mem |-> rt.mem, unavail |-> rt.unavail, last |-> rt.last]
  BY DEF Runtimes

(* a guard process, *)
LEMMA GuardFields ==
  ASSUME NEW r \in Guards
  PROVE  /\ r.pc \in Steps /\ r.rt \in Runtimes /\ r.pol \in Policies /\ r.new \in Policies
         /\ r.adj \subseteq Adj
  BY DEF Guards

(* and the ledger. *)
LEMMA LedgerFields ==
  ASSUME NEW L \in Ledgers
  PROVE  /\ L.reads \in {"missing", "bad", "legacy", "ok"} /\ L.old \in BOOLEAN
         /\ L.recs \subseteq Adj
  BY DEF Ledgers

(* A new runtime is one, *)
LEMMA FreshIsRuntime == Fresh \in Runtimes /\ Fresh.mem = {} /\ Fresh.last = {} /\ ~Fresh.unavail
  BY DEF Fresh, Runtimes

(* and a process that does not run relies on nothing. *)
LEMMA DownRelies ==
  ASSUME NEW L, NEW O, NEW D
  PROVE  Relies(Down, L, O, D)
  BY DEF Relies, Down, Fresh

LEMMA DownIsGuard ==
  ASSUME Policies # {}
  PROVE  Down \in Guards /\ Down.pc = "down"
  <1>1. AnyPolicy \in Policies
    BY DEF AnyPolicy
  <1>2. QED
    BY <1>1, FreshIsRuntime DEF Down, Guards, Steps

(* There is a policy as soon as a process exists whose policy it is. *)
LEMMA SomePolicy ==
  ASSUME run \in [Procs -> Guards]
  PROVE  Policies # {}
  <1>1. run["daemon"] \in Guards
    BY DEF Procs
  <1>2. QED
    BY <1>1, GuardFields

-----------------------------------------------------------------------------
(* When one guard process moves, having the lock or taking it while it is
   free, the others do not run: what matters is what the one relies on. *)
LEMMA OneMoves ==
  ASSUME RunInv, OneRuns, NEW p \in Procs, ~At(p, "down") \/ LockIsFree,
         NEW r \in Guards, run' = [run EXCEPT ![p] = r],
         Relies(r, ledger', Owed', dropped')
  PROVE  RunInv' /\ OneRuns'
  <1>1. run \in [Procs -> Guards] /\ run' \in [Procs -> Guards]
    BY DEF RunInv
  <1>2. run'[p] = r /\ \A q \in Procs \ {p} : run'[q] = run[q]
    BY <1>1
  <1>3. \A q \in Procs \ {p} : run[q].pc = "down" /\ run[q] = Down
    <2>1. SUFFICES ASSUME NEW q \in Procs \ {p} PROVE run[q].pc = "down" /\ run[q] = Down
      OBVIOUS
    <2>2. run[q].pc = "down"
      BY DEF OneRuns, LockIsFree, At
    <2>3. QED
      BY <2>2 DEF RunInv, Relies
  <1>4. \A q \in Procs : Relies(run'[q], ledger', Owed', dropped')
    BY <1>2, <1>3, DownRelies
  <1>5. OneRuns'
    BY <1>2, <1>3 DEF OneRuns, At
  <1>6. QED
    BY <1>1, <1>4, <1>5 DEF RunInv

(* What somebody else does to the ledger and to the processes leaves a guard
   what it relies on, when no more is owed and nothing saved is lost unseen. *)
LEMMA ReliesStill ==
  ASSUME NEW r, NEW L1, NEW O1, NEW D1, NEW L2, NEW O2, NEW D2,
         Relies(r, L1, O1, D1),
         O2 \subseteq O1, L1.recs \cup D1 \subseteq L2.recs \cup D2, L2.old => L1.old
  PROVE  Relies(r, L2, O2, D2)
  BY DEF Relies

LEMMA OthersRely ==
  ASSUME RunInv, OneRuns, UNCHANGED run, Owed' \subseteq Owed,
         ledger.recs \cup dropped \subseteq ledger'.recs \cup dropped',
         ledger'.old => ledger.old
  PROVE  RunInv' /\ OneRuns'
  <1>1. \A p \in Procs : Relies(run'[p], ledger', Owed', dropped')
    <2>1. SUFFICES ASSUME NEW p \in Procs PROVE Relies(run[p], ledger', Owed', dropped')
      OBVIOUS
    <2>2. Relies(run[p], ledger, Owed, dropped)
      BY DEF RunInv
    <2>3. QED
      BY <2>2, ReliesStill
  <1>2. QED
    BY <1>1 DEF RunInv, OneRuns, At

(* hydrate_mitigations_from: a runtime that can use the ledger after it has in
   its records all that is owed; what it last saved is as before. *)
LEMMA HydratedKnows ==
  ASSUME StateOK, LedgerInv, Durable, NEW rt \in Runtimes, NEW after \in Hydrated(rt)
  PROVE  after \in Runtimes /\ after.last = rt.last /\ (~after.unavail => Owed \subseteq after.mem)
  <1> DEFINE Adopted(S, flag) == [rt EXCEPT !.mem = @ \cup S, !.unavail = flag]
             Live == {S \in SUBSET ledger.recs : ledger.recs \cap applied \subseteq S}
  <1> USE LedgerFields DEF StateOK
  <1>1. ASSUME NEW S \in SUBSET Adj, NEW flag \in BOOLEAN
        PROVE  /\ Adopted(S, flag) \in Runtimes /\ Adopted(S, flag).last = rt.last
               /\ Adopted(S, flag).mem = rt.mem \cup S /\ Adopted(S, flag).unavail = flag
    BY DEF Runtimes
  <1>2. Owed \subseteq ledger.recs /\ Owed \subseteq applied
    BY DEF Durable, Owed
  <1> HIDE DEF Adopted
  <1>3. CASE ledger.reads = "missing"
    BY <1>2, <1>3 DEF Hydrated, LedgerInv
  <1>4. CASE ledger.reads = "bad"
    <2>1. after = Adopted({}, TRUE)
      BY <1>4 DEF Hydrated, Adopted
    <2>2. QED
      BY <2>1, <1>1
  <1>5. CASE ledger.reads = "legacy"
    <2>1. PICK S \in Live : after = Adopted(S, ledger.recs # {})
      BY <1>5 DEF Hydrated, Adopted
    <2>2. S \subseteq Adj /\ Owed \subseteq S
      BY <1>2
    <2>3. QED
      BY <2>1, <2>2, <1>1
  <1>6. CASE ledger.reads = "ok" /\ ledger.old
    <2>1. PICK flag \in BOOLEAN : after = Adopted({}, flag)
      BY <1>6 DEF Hydrated, Adopted
    <2>2. Owed = {}
      BY <1>2, <1>6 DEF LedgerInv
    <2>3. QED
      BY <2>1, <2>2, <1>1
  <1>7. CASE ledger.reads = "ok" /\ ~ledger.old
    <2>1. PICK S \in Live : after = Adopted(S, FALSE)
      BY <1>7 DEF Hydrated, Adopted
    <2>2. S \subseteq Adj /\ Owed \subseteq S
      BY <1>2
    <2>3. QED
      BY <2>1, <2>2, <1>1
  <1>8. QED
    BY <1>3, <1>4, <1>5, <1>6, <1>7

(* persist_mitigations_to: whatever is written holds what is owed, because a
   runtime that knows less writes nothing. *)
LEMMA SavedHolds ==
  ASSUME StateOK, LedgerInv, Durable, NEW rt \in Runtimes, NEW after \in Saved(rt),
         ~rt.unavail => Owed \subseteq rt.mem,
         \A S \in rt.last : S \subseteq ledger.recs \cup dropped /\ ~ledger.old
  PROVE  /\ after.rt \in Runtimes /\ after.ledger \in Ledgers
         /\ after.rt.mem = rt.mem /\ after.rt.unavail = rt.unavail
         /\ \A S \in after.rt.last : S \subseteq after.ledger.recs \cup dropped /\ ~after.ledger.old
         /\ Owed \subseteq after.ledger.recs
         /\ after.ledger.reads = "missing" => after.ledger.recs = {}
         /\ after.ledger.old => applied = {}
  <1> DEFINE Written == [rt |-> [rt EXCEPT !.last = {rt.mem}],
                         ledger |-> [reads |-> "ok", old |-> FALSE, recs |-> rt.mem]]
  <1>1. CASE after = [rt |-> rt, ledger |-> ledger]
    BY <1>1 DEF StateOK, LedgerInv, Durable, Owed
  <1>2. CASE ~rt.unavail /\ after = Written
    <2>1. rt.mem \subseteq Adj
      BY RuntimeFields
    <2>2. [rt EXCEPT !.last = {rt.mem}] \in Runtimes
      BY <2>1 DEF Runtimes
    <2>3. Written.ledger \in Ledgers
      BY <2>1 DEF Ledgers
    <2>4. [rt EXCEPT !.last = {rt.mem}].mem = rt.mem /\ [rt EXCEPT !.last = {rt.mem}].unavail = rt.unavail
          /\ [rt EXCEPT !.last = {rt.mem}].last = {rt.mem}
      BY DEF Runtimes
    <2>5. QED
      BY <1>2, <2>2, <2>3, <2>4
  <1>3. QED
    BY <1>1, <1>2 DEF Saved

(* restore_runtime_adjustments: what is owed afterwards is on record still. *)
LEMMA UnrestoredIsKept ==
  ASSUME NEW rt \in Runtimes, NEW left \in Unrestored(rt), Lifted(rt, left), UNCHANGED dropped
  PROVE  /\ [rt EXCEPT !.mem = left] \in Runtimes
         /\ [rt EXCEPT !.mem = left].mem = left /\ left \subseteq rt.mem
         /\ [rt EXCEPT !.mem = left].unavail = rt.unavail
         /\ [rt EXCEPT !.mem = left].last = rt.last
         /\ applied' \subseteq applied /\ Owed' \subseteq Owed
         /\ Owed \subseteq rt.mem => Owed' \subseteq left
  <1>1. left \subseteq rt.mem
    BY DEF Unrestored
  <1>2. rt.mem \subseteq Adj
    BY RuntimeFields
  <1>3. [rt EXCEPT !.mem = left] \in Runtimes
    BY <1>1, <1>2 DEF Runtimes
  <1>4. /\ [rt EXCEPT !.mem = left].mem = left
        /\ [rt EXCEPT !.mem = left].unavail = rt.unavail
        /\ [rt EXCEPT !.mem = left].last = rt.last
    BY DEF Runtimes
  <1>5. applied' = applied \ (rt.mem \ left)
    BY DEF Lifted
  <1>6. QED
    BY <1>1, <1>3, <1>4, <1>5 DEF Owed

-----------------------------------------------------------------------------
(* At the start every process is down and the ledger holds what is in force. *)
LEMMA InitIInv == Init => IInv
  <1> SUFFICES ASSUME Init PROVE IInv
    OBVIOUS
  <1> USE GuardAssumption DEF Init
  <1>1. SimpleOK
    <2>1. crashes \in 0 .. MaxCrashes
      OBVIOUS
    <2>2. file \in Policies \cup {Corrupt} /\ hup \in BOOLEAN /\ term \in BOOLEAN
      BY Zenon
    <2>3. QED
      BY <2>1, <2>2 DEF SimpleOK
  <1>2. ledger \in Ledgers /\ ledger.recs \subseteq Adj /\ (ledger.reads = "missing" => ledger.recs = {})
        /\ ~ledger.old
    <2>1. CASE ledger = Missing
      BY <2>1 DEF Ledgers, Missing
    <2>2. CASE ledger \in [reads : {"legacy"}, old : {FALSE}, recs : {{}, Adj}]
      BY <2>2 DEF Ledgers
    <2>3. QED
      BY <2>1, <2>2
  <1>3. StateOK /\ LedgerInv /\ Durable
    BY <1>2 DEF StateOK, LedgerInv, Durable
  <1>4. Policies # {}
    OBVIOUS
  <1>5. run \in [Procs -> Guards] /\ \A p \in Procs : run[p] = Down
    BY <1>4, DownIsGuard
  <1>6. RunInv /\ OneRuns
    BY <1>4, <1>5, DownIsGuard, DownRelies DEF RunInv, OneRuns, At
  <1>7. QED
    BY <1>1, <1>3, <1>6 DEF IInv

(* start: the lock is free, and nothing is read yet. *)
LEMMA StartKeeps ==
  ASSUME IInv, NEW p \in Procs, Start(p)
  PROVE  RunInv' /\ OneRuns' /\ SimpleOK'
  <1> DEFINE r == [Down EXCEPT !.pc = "hydrate", !.pol = file, !.new = file]
  <1>1. run \in [Procs -> Guards] /\ run' = [run EXCEPT ![p] = r] /\ LockIsFree
    BY DEF IInv, RunInv, Start
  <1>2. file \in Policies
    BY DEF IInv, SimpleOK, Start
  <1>3. Down \in Guards /\ Down.rt = Fresh /\ Down.adj = {}
    BY <1>1, SomePolicy, DownIsGuard DEF Down
  <1>4. r \in Guards /\ r.pc = "hydrate" /\ r.rt = Fresh /\ r.adj = {}
    BY <1>2, <1>3 DEF Guards, Steps
  <1>5. Relies(r, ledger', Owed', dropped')
    BY <1>4, FreshIsRuntime DEF Relies
  <1> HIDE DEF r
  <1>6. RunInv' /\ OneRuns'
    BY <1>1, <1>4, <1>5, OneMoves DEF IInv
  <1>7. SimpleOK'
    BY DEF IInv, SimpleOK, Start, signals
  <1>8. QED
    BY <1>6, <1>7

(* hydrate: the guard has read the ledger. *)
LEMMA HydrateKeeps ==
  ASSUME IInv, NEW p \in Procs, Hydrate(p)
  PROVE  RunInv' /\ OneRuns'
  <1>1. run[p] \in Guards /\ run \in [Procs -> Guards] /\ run[p].pc = "hydrate"
        /\ Relies(run[p], ledger, Owed, dropped)
    BY DEF IInv, RunInv, Hydrate, At
  <1>2. PICK rt \in Hydrated(run[p].rt) :
          run' = [run EXCEPT ![p].rt = rt,
                             ![p].pc = IF p = "once" /\ rt.mem = {} THEN "pass" ELSE "restore"]
    BY DEF Hydrate
  <1> DEFINE pc == IF p = "once" /\ rt.mem = {} THEN "pass" ELSE "restore"
             r == [run[p] EXCEPT !.rt = rt, !.pc = pc]
  <1>3. rt \in Runtimes /\ rt.last = {} /\ (~rt.unavail => Owed \subseteq rt.mem)
    BY <1>1, HydratedKnows, GuardFields, FreshIsRuntime DEF IInv, Relies
  <1>4. pc \in {"pass", "restore"} /\ pc \in Steps
    BY DEF Steps
  <1>5. run' = [run EXCEPT ![p] = r]
    BY <1>1, <1>2
  <1> HIDE DEF pc
  <1>6. r \in Guards /\ r.pc = pc /\ r.rt = rt /\ r.adj = run[p].adj
    BY <1>1, <1>3, <1>4 DEF Guards
  <1>7. UNCHANGED <<ledger, Owed, dropped>>
    BY DEF Hydrate, processes, Owed
  <1>8. Relies(r, ledger', Owed', dropped')
    BY <1>1, <1>3, <1>4, <1>6, <1>7 DEF Relies
  <1> HIDE DEF r
  <1>9. QED
    BY <1>1, <1>5, <1>6, <1>8, OneMoves DEF IInv, At

(* What a guard process does that keeps its place or takes it to another one
   from which it no longer applies anything, with a runtime that is as good. *)
LEMMA Moves ==
  ASSUME IInv, NEW p \in Procs, ~At(p, "down"), NEW r \in Guards,
         run' = [run EXCEPT ![p] = r], r.pc \notin {"down", "hydrate", "apply"}, r.adj = {},
         ~r.rt.unavail => Owed' \subseteq r.rt.mem,
         \A S \in r.rt.last : S \subseteq ledger'.recs \cup dropped' /\ ~ledger'.old
  PROVE  RunInv' /\ OneRuns'
  <1>1. Relies(r, ledger', Owed', dropped')
    BY DEF Relies
  <1>2. QED
    BY <1>1, OneMoves DEF IInv

(* What is known of a guard that is not before its first look at the ledger. *)
LEMMA Running ==
  ASSUME IInv, NEW p \in Procs, run[p].pc \notin {"down", "hydrate"}
  PROVE  /\ run \in [Procs -> Guards] /\ run[p] \in Guards /\ run[p].rt \in Runtimes
         /\ ~At(p, "down")
         /\ ~run[p].rt.unavail => Owed \subseteq run[p].rt.mem
         /\ \A S \in run[p].rt.last : S \subseteq ledger.recs \cup dropped /\ ~ledger.old
         /\ IF run[p].pc = "apply"
            THEN run[p].rt.last = {run[p].rt.mem} /\ run[p].adj \subseteq run[p].rt.mem
            ELSE run[p].adj = {}
  <1>1. run \in [Procs -> Guards] /\ run[p] \in Guards /\ Relies(run[p], ledger, Owed, dropped)
    BY DEF IInv, RunInv
  <1>2. QED
    BY <1>1, GuardFields DEF Relies, At

(* A process that ends, however it does, lets the lock go. *)
LEMMA Ends ==
  ASSUME IInv, NEW p \in Procs, ~At(p, "down"), run' = [run EXCEPT ![p] = Down]
  PROVE  RunInv' /\ OneRuns'
  <1>1. Down \in Guards
    BY SomePolicy, DownIsGuard DEF IInv, RunInv
  <1>2. QED
    BY <1>1, DownRelies, OneMoves DEF IInv

(* Less in force: what is on disk is enough still. *)
LEMMA LessInForce ==
  ASSUME StateOK, LedgerInv, Durable, applied' \subseteq applied,
         UNCHANGED <<ledger, dropped>>
  PROVE  StateOK' /\ LedgerInv' /\ Durable' /\ Owed' \subseteq Owed
  BY DEF StateOK, LedgerInv, Durable, Owed

(* restore_runtime_adjustments, after the start. *)
LEMMA RestoreKeeps ==
  ASSUME IInv, NEW p \in Procs, Restore(p)
  PROVE  RunInv' /\ OneRuns' /\ StateOK' /\ LedgerInv' /\ Durable'
  <1>1. run[p].pc = "restore" /\ UNCHANGED <<ledger, dropped>>
    BY DEF Restore, At
  <1>2. PICK left \in Unrestored(run[p].rt) :
          /\ Lifted(run[p].rt, left)
          /\ run' = [run EXCEPT ![p].rt.mem = left,
                                ![p].pc = IF p = "once" THEN "pass" ELSE "persist"]
    BY DEF Restore
  <1> DEFINE pc == IF p = "once" THEN "pass" ELSE "persist"
             rt == [run[p].rt EXCEPT !.mem = left]
             r == [run[p] EXCEPT !.rt = rt, !.pc = pc]
  <1>3. run[p] \in Guards /\ run[p].rt \in Runtimes /\ run \in [Procs -> Guards] /\ run[p].adj = {}
    BY <1>1, Running
  <1>4. rt \in Runtimes /\ rt.last = run[p].rt.last /\ rt.unavail = run[p].rt.unavail
        /\ (Owed \subseteq run[p].rt.mem => Owed' \subseteq rt.mem)
    BY <1>1, <1>2, <1>3, UnrestoredIsKept
  <1>5. pc \in Steps /\ pc \notin {"down", "hydrate", "apply"}
    BY DEF Steps
  <1>6. run' = [run EXCEPT ![p] = r]
    BY <1>2, <1>3
  <1> HIDE DEF pc, rt
  <1>7. r \in Guards /\ r.pc = pc /\ r.rt = rt /\ r.adj = {}
    BY <1>3, <1>4, <1>5 DEF Guards
  <1> HIDE DEF r
  <1>8. RunInv' /\ OneRuns'
    BY <1>1, <1>4, <1>5, <1>6, <1>7, Moves, Running
  <1>9. applied' \subseteq applied
    BY <1>2 DEF Lifted
  <1>10. QED
    BY <1>1, <1>8, <1>9, LessInForce DEF IInv

(* persist_mitigations_to in the daemon after its start and at the end of a pass. *)
LEMMA SaveKeeps ==
  ASSUME IInv, NEW p \in Procs, run[p].pc \notin {"down", "hydrate", "apply"},
         NEW pc \in Steps, pc \notin {"down", "hydrate", "apply"},
         NEW after \in Saved(run[p].rt), ledger' = after.ledger,
         run' = [run EXCEPT ![p].pc = pc, ![p].rt = after.rt], UNCHANGED <<applied, dropped>>
  PROVE  RunInv' /\ OneRuns' /\ StateOK' /\ LedgerInv' /\ Durable'
  <1> DEFINE r == [run[p] EXCEPT !.pc = pc, !.rt = after.rt]
  <1>1. run[p] \in Guards /\ run[p].rt \in Runtimes /\ run \in [Procs -> Guards] /\ run[p].adj = {}
    BY Running
  <1>2. /\ after.rt \in Runtimes /\ after.ledger \in Ledgers
        /\ after.rt.mem = run[p].rt.mem /\ after.rt.unavail = run[p].rt.unavail
        /\ \A S \in after.rt.last : S \subseteq after.ledger.recs \cup dropped /\ ~after.ledger.old
        /\ Owed \subseteq after.ledger.recs
        /\ after.ledger.reads = "missing" => after.ledger.recs = {}
        /\ after.ledger.old => applied = {}
    BY <1>1, Running, SavedHolds DEF IInv
  <1>3. run' = [run EXCEPT ![p] = r]
    BY <1>1
  <1>4. r \in Guards /\ r.pc = pc /\ r.rt = after.rt /\ r.adj = {}
    BY <1>1, <1>2 DEF Guards
  <1> HIDE DEF r
  <1>5. Owed' = Owed
    BY DEF Owed
  <1>6. ~At(p, "down") /\ (~run[p].rt.unavail => Owed \subseteq run[p].rt.mem)
    BY Running
  <1>7. /\ ~r.rt.unavail => Owed' \subseteq r.rt.mem
        /\ \A S \in r.rt.last : S \subseteq ledger'.recs \cup dropped' /\ ~ledger'.old
    BY <1>2, <1>4, <1>5, <1>6
  <1>8. RunInv' /\ OneRuns'
    BY <1>3, <1>4, <1>6, <1>7, Moves
  <1>9. StateOK' /\ LedgerInv' /\ Durable'
    BY <1>2, <1>5 DEF IInv, StateOK, LedgerInv, Durable, Owed
  <1>10. QED
    BY <1>8, <1>9

LEMMA PersistStartKeeps ==
  ASSUME IInv, PersistStart
  PROVE  RunInv' /\ OneRuns' /\ StateOK' /\ LedgerInv' /\ Durable'
  <1>1. run["daemon"].pc = "persist" /\ UNCHANGED <<applied, dropped>>
    BY DEF PersistStart, At
  <1>2. PICK after \in Saved(run["daemon"].rt) :
          /\ ledger' = after.ledger
          /\ run' = [run EXCEPT !["daemon"].pc = "loop", !["daemon"].rt = after.rt]
    BY DEF PersistStart
  <1>3. "loop" \in Steps /\ "daemon" \in Procs
    BY DEF Steps, Procs
  <1>4. QED
    BY <1>1, <1>2, <1>3, SaveKeeps

LEMMA PassEndKeeps ==
  ASSUME IInv, NEW p \in Procs, PassEnd(p)
  PROVE  RunInv' /\ OneRuns' /\ StateOK' /\ LedgerInv' /\ Durable'
  <1>1. run[p].pc = "pass" /\ UNCHANGED <<applied, dropped>>
    BY DEF PassEnd, At
  <1>2. PICK after \in Saved(run[p].rt) :
          /\ ledger' = after.ledger
          /\ run' = [run EXCEPT ![p].pc = After(p), ![p].rt = after.rt]
    BY DEF PassEnd
  <1>3. After(p) \in Steps /\ After(p) \notin {"down", "hydrate", "apply"}
    BY DEF Steps, After
  <1>4. QED
    BY <1>1, <1>2, <1>3, SaveKeeps

(* The daemon's last save, after which it exits. *)
LEMMA PersistEndKeeps ==
  ASSUME IInv, PersistEnd
  PROVE  RunInv' /\ OneRuns' /\ StateOK' /\ LedgerInv' /\ Durable'
  <1>1. run["daemon"].pc = "stopped" /\ UNCHANGED <<applied, dropped>> /\ "daemon" \in Procs
        /\ run' = [run EXCEPT !["daemon"] = Down]
    BY DEF PersistEnd, At, Procs
  <1>2. PICK after \in Saved(run["daemon"].rt) : ledger' = after.ledger
    BY DEF PersistEnd
  <1>3. run["daemon"].rt \in Runtimes /\ ~At("daemon", "down")
    BY <1>1, Running
  <1>4. /\ after.ledger \in Ledgers /\ Owed \subseteq after.ledger.recs
        /\ after.ledger.reads = "missing" => after.ledger.recs = {}
        /\ after.ledger.old => applied = {}
    BY <1>1, <1>3, Running, SavedHolds DEF IInv
  <1>5. RunInv' /\ OneRuns'
    BY <1>1, <1>3, Ends
  <1>6. StateOK' /\ LedgerInv' /\ Durable'
    BY <1>1, <1>2, <1>4 DEF IInv, StateOK, LedgerInv, Durable, Owed
  <1>7. QED
    BY <1>5, <1>6

(* A guard that only goes on to its next step. *)
LEMMA GotoKeeps ==
  ASSUME IInv, NEW p \in Procs, run[p].pc \notin {"down", "hydrate", "apply"},
         NEW pc \in Steps, pc \notin {"down", "hydrate", "apply"}, Goto(p, pc),
         UNCHANGED <<ledger, applied, dropped>>
  PROVE  RunInv' /\ OneRuns'
  <1> DEFINE r == [run[p] EXCEPT !.pc = pc]
  <1>1. run[p] \in Guards /\ run[p].rt \in Runtimes /\ run \in [Procs -> Guards] /\ run[p].adj = {}
    BY Running
  <1>2. run' = [run EXCEPT ![p] = r]
    BY <1>1 DEF Goto
  <1>3. r \in Guards /\ r.pc = pc /\ r.rt = run[p].rt /\ r.adj = {}
    BY <1>1 DEF Guards
  <1> HIDE DEF r
  <1>4. Owed' = Owed
    BY DEF Owed
  <1>5. /\ ~At(p, "down") /\ (~r.rt.unavail => Owed' \subseteq r.rt.mem)
        /\ \A S \in r.rt.last : S \subseteq ledger'.recs \cup dropped' /\ ~ledger'.old
    BY <1>3, <1>4, Running
  <1>6. QED
    BY <1>2, <1>3, <1>5, Moves

(* The loop's head: an unavailable ledger is read again. *)
LEMMA LoopKeeps ==
  ASSUME IInv, Loop
  PROVE  RunInv' /\ OneRuns'
  <1> DEFINE reload == hup /\ file # Corrupt
             pc == IF reload THEN "reload" ELSE "pass"
             new == IF reload THEN file ELSE run["daemon"].new
  <1>1. run["daemon"].pc = "loop" /\ "daemon" \in Procs /\ UNCHANGED <<ledger, applied, dropped>>
    BY DEF Loop, Procs, processes
  <1>2. run["daemon"] \in Guards /\ run["daemon"].rt \in Runtimes /\ run \in [Procs -> Guards]
        /\ run["daemon"].adj = {}
    BY <1>1, Running
  <1>3. PICK rt \in IF run["daemon"].rt.unavail THEN Hydrated(run["daemon"].rt)
                                                ELSE {run["daemon"].rt} :
          run' = [run EXCEPT !["daemon"].rt = rt,
                             !["daemon"].pc = IF reload THEN "reload" ELSE "pass",
                             !["daemon"].new = IF reload THEN file ELSE @]
    BY DEF Loop
  <1> DEFINE r == [run["daemon"] EXCEPT !.rt = rt, !.pc = pc, !.new = new]
  <1>4. rt \in Runtimes /\ rt.last = run["daemon"].rt.last /\ (~rt.unavail => Owed \subseteq rt.mem)
    <2>1. CASE run["daemon"].rt.unavail
      BY <1>2, <1>3, <2>1, HydratedKnows DEF IInv
    <2>2. CASE ~run["daemon"].rt.unavail
      BY <1>1, <1>2, <1>3, <2>2, Running
    <2>3. QED
      BY <2>1, <2>2
  <1>5. pc \in Steps /\ pc \notin {"down", "hydrate", "apply"}
    BY DEF Steps
  <1>6. new \in Policies
    BY <1>2, GuardFields DEF IInv, SimpleOK
  <1>7. run' = [run EXCEPT !["daemon"] = r]
    BY <1>2, <1>3
  <1> HIDE DEF pc, new, reload
  <1>8. r \in Guards /\ r.pc = pc /\ r.rt = rt /\ r.adj = {}
    BY <1>2, <1>4, <1>5, <1>6 DEF Guards
  <1> HIDE DEF r
  <1>9. Owed' = Owed
    BY <1>1 DEF Owed
  <1>10. QED
    BY <1>1, <1>4, <1>5, <1>7, <1>8, <1>9, Moves, Running

(* apply_policy_reload: what is restored is no longer owed; the runtime is
   replaced only when nothing is. *)
LEMMA ReloadKeeps ==
  ASSUME IInv, Reload
  PROVE  RunInv' /\ OneRuns' /\ StateOK' /\ LedgerInv' /\ Durable'
  <1> DEFINE d == run["daemon"]
  <1>1. d.pc = "reload" /\ "daemon" \in Procs /\ UNCHANGED <<ledger, dropped>>
    BY DEF Reload, Procs
  <1>2. d \in Guards /\ d.rt \in Runtimes /\ run \in [Procs -> Guards] /\ d.adj = {}
    BY <1>1, Running
  <1>3. PICK left \in Unrestored(d.rt) : LET rt == [d.rt EXCEPT !.mem = left] IN
          /\ Lifted(d.rt, left)
          /\ run' = IF Defers(rt, d.new)
                    THEN [run EXCEPT !["daemon"].rt = rt, !["daemon"].pc = "loop"]
                    ELSE [run EXCEPT !["daemon"].rt = Reset(rt), !["daemon"].pol = d.new,
                             !["daemon"].pc = IF d.new.enabled THEN "pass" ELSE "stop"]
    BY DEF Reload
  <1> DEFINE rt == [d.rt EXCEPT !.mem = left]
             kept == [d EXCEPT !.rt = rt, !.pc = "loop"]
             pc == IF d.new.enabled THEN "pass" ELSE "stop"
             taken == [d EXCEPT !.rt = Reset(rt), !.pol = d.new, !.pc = pc]
  <1>4. rt \in Runtimes /\ rt.last = d.rt.last /\ rt.unavail = d.rt.unavail
        /\ (Owed \subseteq d.rt.mem => Owed' \subseteq rt.mem)
    BY <1>1, <1>2, <1>3, UnrestoredIsKept
  <1>5. run' = [run EXCEPT !["daemon"] = kept] \/ run' = [run EXCEPT !["daemon"] = taken]
    BY <1>2, <1>3
  <1>6. pc \in {"pass", "stop"} /\ {"loop", "pass", "stop"} \subseteq Steps
    BY DEF Steps
  <1>7. /\ ~At("daemon", "down") /\ (~d.rt.unavail => Owed \subseteq d.rt.mem)
        /\ \A S \in d.rt.last : S \subseteq ledger.recs \cup dropped /\ ~ledger.old
    BY <1>1, Running
  <1> HIDE DEF rt, pc
  <1>8. Reset(rt) \in Runtimes /\ (Reset(rt) = rt \/ (Reset(rt) = Fresh /\ rt.mem = {} /\ ~rt.unavail))
    BY <1>4, FreshIsRuntime DEF Reset
  <1> HIDE DEF d
  <1>9. kept \in Guards /\ kept.pc = "loop" /\ kept.rt = rt /\ kept.adj = {}
    BY <1>2, <1>4, <1>6 DEF Guards
  <1>10. taken \in Guards /\ taken.pc = pc /\ taken.rt = Reset(rt) /\ taken.adj = {}
    BY <1>2, <1>6, <1>8 DEF Guards
  <1> HIDE DEF kept, taken
  <1>11. /\ ~rt.unavail => Owed' \subseteq rt.mem
         /\ \A S \in rt.last : S \subseteq ledger'.recs \cup dropped' /\ ~ledger'.old
    BY <1>1, <1>4, <1>7
  <1>12. /\ ~Reset(rt).unavail => Owed' \subseteq Reset(rt).mem
         /\ \A S \in Reset(rt).last : S \subseteq ledger'.recs \cup dropped' /\ ~ledger'.old
    BY <1>8, <1>11, FreshIsRuntime
  <1>13. applied' \subseteq applied
    BY <1>3 DEF Lifted
  <1>14. StateOK' /\ LedgerInv' /\ Durable'
    BY <1>1, <1>13, LessInForce DEF IInv
  <1>15. CASE run' = [run EXCEPT !["daemon"] = kept]
    BY <1>1, <1>7, <1>9, <1>11, <1>14, <1>15, Moves
  <1>16. CASE run' = [run EXCEPT !["daemon"] = taken]
    BY <1>1, <1>6, <1>7, <1>10, <1>12, <1>14, <1>16, Moves
  <1>17. QED
    BY <1>5, <1>15, <1>16

(* The last restore: the daemon saves after it, a one-shot run exits. *)
LEMMA StopKeeps ==
  ASSUME IInv, NEW p \in Procs, Stop(p)
  PROVE  RunInv' /\ OneRuns' /\ StateOK' /\ LedgerInv' /\ Durable'
  <1>1. run[p].pc = "stop" /\ UNCHANGED <<ledger, dropped>>
    BY DEF Stop, At
  <1>2. run[p] \in Guards /\ run[p].rt \in Runtimes /\ run \in [Procs -> Guards] /\ run[p].adj = {}
    BY <1>1, Running
  <1>3. PICK left \in Unrestored(run[p].rt) :
          /\ Lifted(run[p].rt, left)
          /\ run' = IF p = "once" THEN [run EXCEPT ![p] = Down]
                    ELSE [run EXCEPT ![p].rt.mem = left, ![p].pc = "stopped"]
    BY DEF Stop
  <1> DEFINE rt == [run[p].rt EXCEPT !.mem = left]
             r == [run[p] EXCEPT !.rt = rt, !.pc = "stopped"]
  <1>4. rt \in Runtimes /\ rt.last = run[p].rt.last /\ rt.unavail = run[p].rt.unavail
        /\ (Owed \subseteq run[p].rt.mem => Owed' \subseteq rt.mem)
    BY <1>1, <1>2, <1>3, UnrestoredIsKept
  <1>5. run' = [run EXCEPT ![p] = Down] \/ run' = [run EXCEPT ![p] = r]
    BY <1>2, <1>3
  <1> HIDE DEF rt
  <1>6. r \in Guards /\ r.pc = "stopped" /\ r.rt = rt /\ r.adj = {}
    BY <1>2, <1>4 DEF Guards, Steps
  <1> HIDE DEF r
  <1>7. /\ ~rt.unavail => Owed' \subseteq rt.mem
        /\ \A S \in rt.last : S \subseteq ledger'.recs \cup dropped' /\ ~ledger'.old
        /\ ~At(p, "down")
    BY <1>1, <1>4, Running
  <1>8. RunInv' /\ OneRuns'
    BY <1>5, <1>6, <1>7, Moves, Ends
  <1>9. applied' \subseteq applied
    BY <1>3 DEF Lifted
  <1>10. QED
    BY <1>1, <1>8, <1>9, LessInForce DEF IInv

(* A release: no longer in force, no longer in the records. *)
LEMMA ReleaseKeeps ==
  ASSUME IInv, NEW p \in Procs, NEW a \in Adj, Release(p, a)
  PROVE  RunInv' /\ OneRuns' /\ StateOK' /\ LedgerInv' /\ Durable'
  <1>1. run[p].pc = "pass" /\ UNCHANGED <<ledger, dropped>> /\ applied' = applied \ {a}
        /\ run' = [run EXCEPT ![p].rt.mem = @ \ {a}]
    BY DEF Release, At
  <1>2. run[p] \in Guards /\ run[p].rt \in Runtimes /\ run \in [Procs -> Guards] /\ run[p].adj = {}
    BY <1>1, Running
  <1> DEFINE rt == [run[p].rt EXCEPT !.mem = @ \ {a}]
             r == [run[p] EXCEPT !.rt = rt]
  <1>3. rt \in Runtimes /\ rt.mem = run[p].rt.mem \ {a} /\ rt.unavail = run[p].rt.unavail
        /\ rt.last = run[p].rt.last
    BY <1>2 DEF Runtimes
  <1>4. run' = [run EXCEPT ![p] = r]
    BY <1>1, <1>2
  <1> HIDE DEF rt
  <1>5. r \in Guards /\ r.pc = "pass" /\ r.rt = rt /\ r.adj = {}
    BY <1>1, <1>2, <1>3 DEF Guards
  <1> HIDE DEF r
  <1>6. Owed' = Owed \ {a}
    BY <1>1 DEF Owed
  <1>7. /\ ~rt.unavail => Owed' \subseteq rt.mem
        /\ \A S \in rt.last : S \subseteq ledger'.recs \cup dropped' /\ ~ledger'.old
        /\ ~At(p, "down")
    BY <1>1, <1>3, <1>6, Running
  <1>8. RunInv' /\ OneRuns'
    BY <1>4, <1>5, <1>7, Moves
  <1>9. QED
    BY <1>1, <1>8, LessInForce DEF IInv

(* apply_oom_bias: the record of what is to be applied is on disk. *)
LEMMA IntendKeeps ==
  ASSUME IInv, NEW p \in Procs, NEW a \in Adj, Intend(p, a)
  PROVE  RunInv' /\ OneRuns' /\ StateOK' /\ LedgerInv' /\ Durable'
  <1> DEFINE rt == [run[p].rt EXCEPT !.mem = @ \cup {a}]
  <1>1. run[p].pc = "pass" /\ UNCHANGED <<applied, dropped>> /\ ~run[p].rt.unavail
    BY DEF Intend
  <1>2. PICK after \in Saved(rt) :
          /\ IsSaved(after.rt)
          /\ ledger' = after.ledger
          /\ run' = [run EXCEPT ![p].pc = "apply", ![p].adj = {a}, ![p].rt = after.rt]
    BY DEF Intend
  <1> DEFINE r == [run[p] EXCEPT !.pc = "apply", !.adj = {a}, !.rt = after.rt]
  <1>3. run[p] \in Guards /\ run[p].rt \in Runtimes /\ run \in [Procs -> Guards]
        /\ Owed \subseteq run[p].rt.mem /\ ~At(p, "down")
        /\ \A S \in run[p].rt.last : S \subseteq ledger.recs \cup dropped /\ ~ledger.old
    BY <1>1, Running
  <1>4. rt \in Runtimes /\ rt.mem = run[p].rt.mem \cup {a} /\ rt.unavail = run[p].rt.unavail
        /\ rt.last = run[p].rt.last
    BY <1>3 DEF Runtimes
  <1> HIDE DEF rt
  <1>5. Owed \subseteq rt.mem
    BY <1>3, <1>4
  <1>6. /\ after.rt \in Runtimes /\ after.ledger \in Ledgers
        /\ after.rt.mem = rt.mem /\ after.rt.unavail = rt.unavail
        /\ \A S \in after.rt.last : S \subseteq after.ledger.recs \cup dropped /\ ~after.ledger.old
        /\ Owed \subseteq after.ledger.recs
        /\ after.ledger.reads = "missing" => after.ledger.recs = {}
        /\ after.ledger.old => applied = {}
    BY <1>3, <1>4, <1>5, SavedHolds DEF IInv
  <1>7. run' = [run EXCEPT ![p] = r]
    BY <1>2, <1>3
  <1>8. r \in Guards /\ r.pc = "apply" /\ r.rt = after.rt /\ r.adj = {a}
    BY <1>3, <1>6 DEF Guards, Steps
  <1> HIDE DEF r
  <1>9. r.rt.last = {r.rt.mem} /\ r.adj \subseteq r.rt.mem
    BY <1>2, <1>4, <1>6, <1>8 DEF IsSaved
  <1>10. Owed' = Owed
    BY <1>1 DEF Owed
  <1>11. Relies(r, ledger', Owed', dropped')
    BY <1>1, <1>2, <1>5, <1>6, <1>8, <1>9, <1>10 DEF Relies
  <1>12. RunInv' /\ OneRuns'
    BY <1>3, <1>7, <1>8, <1>11, OneMoves DEF IInv
  <1>13. StateOK' /\ LedgerInv' /\ Durable'
    BY <1>1, <1>2, <1>6, <1>10 DEF IInv, StateOK, LedgerInv, Durable, Owed
  <1>14. QED
    BY <1>12, <1>13

(* The write to the process: what comes into force is on disk. *)
LEMMA ApplyKeeps ==
  ASSUME IInv, NEW p \in Procs, Apply(p)
  PROVE  RunInv' /\ OneRuns' /\ StateOK' /\ LedgerInv' /\ Durable'
  <1>1. run[p].pc = "apply" /\ UNCHANGED <<ledger, dropped>>
        /\ applied' \in {applied, applied \cup run[p].adj}
        /\ run' = [run EXCEPT ![p].pc = "pass", ![p].adj = {}]
    BY DEF Apply, At
  <1> DEFINE r == [run[p] EXCEPT !.pc = "pass", !.adj = {}]
  <1>2. /\ run[p] \in Guards /\ run[p].rt \in Runtimes /\ run \in [Procs -> Guards]
        /\ ~At(p, "down") /\ (~run[p].rt.unavail => Owed \subseteq run[p].rt.mem)
        /\ \A S \in run[p].rt.last : S \subseteq ledger.recs \cup dropped /\ ~ledger.old
        /\ run[p].rt.last = {run[p].rt.mem} /\ run[p].adj \subseteq run[p].rt.mem
    BY <1>1, Running
  <1>3. run[p].adj \subseteq ledger.recs \cup dropped /\ ~ledger.old /\ run[p].adj \subseteq Adj
    <2>1. run[p].rt.mem \in run[p].rt.last
      BY <1>2, Zenon
    <2>2. run[p].rt.mem \subseteq ledger.recs \cup dropped /\ ~ledger.old
      BY <1>2, <2>1, Zenon
    <2>3. QED
      BY <1>2, <2>2, GuardFields
  <1>4. run' = [run EXCEPT ![p] = r]
    BY <1>1, <1>2
  <1>5. r \in Guards /\ r.pc = "pass" /\ r.rt = run[p].rt /\ r.adj = {}
    BY <1>2 DEF Guards, Steps
  <1> HIDE DEF r
  <1>6. Owed' \subseteq Owed \cup run[p].adj
    BY <1>1 DEF Owed
  <1>7. /\ ~r.rt.unavail => Owed' \subseteq r.rt.mem
        /\ \A S \in r.rt.last : S \subseteq ledger'.recs \cup dropped' /\ ~ledger'.old
    <2>1. ASSUME ~run[p].rt.unavail PROVE Owed' \subseteq run[p].rt.mem
      <3>1. Owed \subseteq run[p].rt.mem /\ run[p].adj \subseteq run[p].rt.mem
        BY <1>2, <2>1, Zenon
      <3>2. QED
        BY <1>6, <3>1
    <2>2. \A S \in run[p].rt.last : S \subseteq ledger'.recs \cup dropped' /\ ~ledger'.old
      <3>1. \A S \in run[p].rt.last : S \subseteq ledger.recs \cup dropped /\ ~ledger.old
        BY <1>2, Zenon
      <3>2. ledger' = ledger /\ dropped' = dropped
        BY <1>1
      <3>3. QED
        BY <3>1, <3>2, Zenon
    <2>3. QED
      BY <1>5, <2>1, <2>2, Zenon
  <1>8. RunInv' /\ OneRuns'
    BY <1>2, <1>4, <1>5, <1>7, Moves
  <1>9. StateOK' /\ LedgerInv' /\ Durable'
    BY <1>1, <1>3 DEF IInv, StateOK, LedgerInv, Durable
  <1>10. QED
    BY <1>8, <1>9

(* A reboot: nothing runs, nothing is in force. *)
LEMMA RebootKeeps ==
  ASSUME IInv, Reboot
  PROVE  RunInv' /\ OneRuns' /\ StateOK' /\ LedgerInv' /\ Durable'
  <1>1. run' = [p \in Procs |-> Down] /\ applied' = {} /\ dropped' = {}
        /\ ledger' = [ledger EXCEPT !.old = ledger.reads \in {"ok", "bad"}]
    BY DEF Reboot
  <1>2. Down \in Guards /\ Down.pc = "down"
    BY SomePolicy, DownIsGuard DEF IInv, RunInv
  <1>3. RunInv' /\ OneRuns'
    BY <1>1, <1>2, DownRelies DEF RunInv, OneRuns, At
  <1>4. ledger' \in Ledgers /\ ledger'.reads = ledger.reads /\ ledger'.recs = ledger.recs
    <2> DEFINE old == ledger.reads \in {"ok", "bad"}
    <2>1. ledger' = [ledger EXCEPT !.old = old] /\ old \in BOOLEAN
      BY <1>1
    <2> HIDE DEF old
    <2>2. QED
      BY <2>1 DEF IInv, StateOK, Ledgers
  <1>5. StateOK' /\ LedgerInv' /\ Durable'
    BY <1>1, <1>4 DEF IInv, StateOK, LedgerInv, Durable
  <1>6. QED
    BY <1>3, <1>5

(* Everybody else who touches the ledger or the processes. *)
LEMMA WorldKeeps ==
  ASSUME IInv, World
  PROVE  RunInv' /\ OneRuns' /\ StateOK' /\ LedgerInv' /\ Durable'
  <1> USE DEF IInv
  <1>1. CASE Hangup \/ Terminate \/ EditPolicy
    <2>1. UNCHANGED <<ledger, applied, dropped, run>>
      BY <1>1 DEF Hangup, Terminate, EditPolicy, processes
    <2>2. RunInv' /\ OneRuns'
      BY <2>1, OthersRely DEF Owed
    <2>3. QED
      BY <2>1, <2>2 DEF StateOK, LedgerInv, Durable
  <1>2. ASSUME NEW a \in Adj, Exits(a)
        PROVE  RunInv' /\ OneRuns' /\ StateOK' /\ LedgerInv' /\ Durable'
    <2>1. applied' \subseteq applied /\ UNCHANGED <<ledger, dropped, run>>
      BY <1>2 DEF Exits
    <2>2. StateOK' /\ LedgerInv' /\ Durable' /\ Owed' \subseteq Owed
      BY <2>1, LessInForce
    <2>3. QED
      BY <2>1, <2>2, OthersRely
  <1>3. CASE Damage \/ Repair
    <2>1. UNCHANGED <<applied, dropped, run>>
      BY <1>3 DEF Damage, Repair
    <2>2. ledger' \in Ledgers /\ ledger'.recs = ledger.recs /\ ledger'.old = ledger.old
          /\ ledger'.reads # "missing"
      BY <1>3 DEF Damage, Repair, StateOK, Ledgers
    <2>3. RunInv' /\ OneRuns'
      BY <2>1, <2>2, OthersRely DEF Owed
    <2>4. QED
      BY <2>1, <2>2, <2>3 DEF StateOK, LedgerInv, Durable
  <1>4. CASE Remove
    <2>1. UNCHANGED <<applied, run>> /\ ledger' = Missing /\ dropped' = dropped \cup ledger.recs
      BY <1>4 DEF Remove
    <2>2. Missing \in Ledgers /\ Missing.recs = {} /\ ~Missing.old
      BY DEF Missing, Ledgers
    <2>3. Owed' \subseteq Owed /\ Owed' = {}
      BY <2>1 DEF Owed, Durable
    <2>4. RunInv' /\ OneRuns'
      BY <2>1, <2>2, <2>3, OthersRely
    <2>5. ledger.recs \subseteq Adj
      BY LedgerFields DEF StateOK
    <2>6. QED
      BY <2>1, <2>2, <2>3, <2>4, <2>5 DEF StateOK, LedgerInv, Durable, Owed
  <1>5. CASE Reboot
    BY <1>5, RebootKeeps
  <1>6. QED
    BY <1>1, <1>2, <1>3, <1>4, <1>5 DEF World

(* The guard's own steps, the pass among them. *)
LEMMA GuardKeeps ==
  ASSUME IInv, NEW p \in Procs, Guard(p)
  PROVE  RunInv' /\ OneRuns' /\ StateOK' /\ LedgerInv' /\ Durable' /\ SimpleOK'
  <1>1. CASE Start(p)
    <2>1. UNCHANGED <<ledger, applied, dropped>>
      BY <1>1 DEF Start, processes
    <2>2. QED
      BY <1>1, <2>1, StartKeeps DEF IInv, StateOK, LedgerInv, Durable
  <1>2. CASE Hydrate(p)
    <2>1. UNCHANGED <<ledger, applied, dropped, file, hup, term, crashes>>
      BY <1>2 DEF Hydrate, processes, signals
    <2>2. QED
      BY <1>2, <2>1, HydrateKeeps DEF IInv, StateOK, LedgerInv, Durable, SimpleOK
  <1>3. CASE PassFails(p)
    <2>1. UNCHANGED <<ledger, applied, dropped, file, hup, term, crashes>>
          /\ run[p].pc = "pass" /\ Goto(p, After(p))
      BY <1>3 DEF PassFails, processes, signals, At
    <2>2. After(p) \in Steps /\ After(p) \notin {"down", "hydrate", "apply"}
      BY DEF Steps, After
    <2>3. RunInv' /\ OneRuns'
      BY <2>1, <2>2, GotoKeeps
    <2>4. QED
      BY <2>1, <2>3 DEF IInv, StateOK, LedgerInv, Durable, SimpleOK
  <1>4. CASE Restore(p) \/ Apply(p) \/ PassEnd(p) \/ Stop(p)
             \/ \E a \in Adj : Intend(p, a) \/ Release(p, a)
    <2>1. UNCHANGED <<file, hup, term, crashes>>
      BY <1>4 DEF Restore, Apply, PassEnd, Stop, Intend, Release, signals
    <2>2. SimpleOK'
      BY <2>1 DEF IInv, SimpleOK
    <2>3. QED
      BY <1>4, <2>2, RestoreKeeps, ApplyKeeps, PassEndKeeps, StopKeeps, IntendKeeps, ReleaseKeeps
  <1>5. CASE Die(p)
    <2>1. ~At(p, "down") /\ run' = [run EXCEPT ![p] = Down] /\ UNCHANGED <<ledger, applied, dropped>>
          /\ UNCHANGED file /\ crashes < MaxCrashes /\ crashes' = crashes + 1
      BY <1>5 DEF Die, processes
    <2>2. RunInv' /\ OneRuns'
      BY <2>1, Ends
    <2>3. hup' \in BOOLEAN /\ term' \in BOOLEAN
      BY <1>5 DEF Die, signals, IInv, SimpleOK
    <2>4. crashes' \in 0 .. MaxCrashes
      BY <2>1, GuardAssumption DEF IInv, SimpleOK
    <2>5. QED
      BY <2>1, <2>2, <2>3, <2>4 DEF IInv, StateOK, LedgerInv, Durable, SimpleOK
  <1>6. QED
    BY <1>1, <1>2, <1>3, <1>4, <1>5 DEF Guard

(* The daemon's steps outside a pass. *)
LEMMA DaemonKeeps ==
  ASSUME IInv, Daemon
  PROVE  RunInv' /\ OneRuns' /\ StateOK' /\ LedgerInv' /\ Durable' /\ SimpleOK'
  <1>1. SimpleOK'
    BY Zenon DEF Daemon, PersistStart, LoopStops, Loop, Reload, PersistEnd, IInv, SimpleOK, signals
  <1>2. CASE PersistStart \/ Reload \/ PersistEnd
    BY <1>1, <1>2, PersistStartKeeps, ReloadKeeps, PersistEndKeeps
  <1>3. CASE Loop
    <2>1. UNCHANGED <<ledger, applied, dropped>>
      BY <1>3 DEF Loop, processes
    <2>2. QED
      BY <1>1, <1>3, <2>1, LoopKeeps DEF IInv, StateOK, LedgerInv, Durable
  <1>4. CASE LoopStops
    <2>1. UNCHANGED <<ledger, applied, dropped>> /\ run["daemon"].pc = "loop" /\ Goto("daemon", "stop")
      BY <1>4 DEF LoopStops, processes, At
    <2>2. "stop" \in Steps /\ "daemon" \in Procs
      BY DEF Steps, Procs
    <2>3. RunInv' /\ OneRuns'
      BY <2>1, <2>2, GotoKeeps
    <2>4. QED
      BY <1>1, <2>1, <2>3 DEF IInv, StateOK, LedgerInv, Durable
  <1>5. QED
    BY <1>2, <1>3, <1>4 DEF Daemon

(* What nobody relies on stays in its type when others act. *)
LEMMA WorldSimple ==
  ASSUME IInv, World
  PROVE  SimpleOK'
  <1>1. file' \in Policies \cup {Corrupt} /\ hup' \in BOOLEAN /\ term' \in BOOLEAN
    BY Zenon DEF World, Hangup, Terminate, EditPolicy, Exits, Damage, Repair, Remove, Reboot,
                 IInv, SimpleOK, signals
  <1>2. crashes' \in 0 .. MaxCrashes
    <2>1. UNCHANGED crashes \/ (crashes < MaxCrashes /\ crashes' = crashes + 1)
      BY DEF World, Hangup, Terminate, EditPolicy, Exits, Damage, Repair, Remove, Reboot
    <2>2. QED
      BY <2>1, GuardAssumption DEF IInv, SimpleOK
  <1>3. QED
    BY <1>1, <1>2 DEF SimpleOK

(* The inductive invariant. *)
LEMMA NextIInv == IInv /\ [Next]_vars => IInv'
  <1> SUFFICES ASSUME IInv, [Next]_vars PROVE IInv'
    OBVIOUS
  <1>1. CASE \E p \in Procs : Guard(p)
    BY <1>1, GuardKeeps DEF IInv
  <1>2. CASE Daemon
    BY <1>2, DaemonKeeps DEF IInv
  <1>3. CASE World
    BY <1>3, WorldKeeps, WorldSimple DEF IInv
  <1>4. CASE UNCHANGED vars
    BY <1>4 DEF vars, processes, IInv, SimpleOK, StateOK, RunInv, OneRuns, LedgerInv, Durable,
                Owed, At
  <1>5. QED
    BY <1>1, <1>2, <1>3, <1>4 DEF Next

THEOREM Inductive == Spec => []IInv
  BY InitIInv, NextIInv, PTL DEF Spec

-----------------------------------------------------------------------------
(* Every variable of the guard's life has its type, whatever the policies. *)
THEOREM TypeCorrect == Spec => []TypeOK
  <1>1. IInv => TypeOK
    <2> SUFFICES ASSUME IInv PROVE TypeOK
      OBVIOUS
    <2>1. ASSUME NEW p \in Procs
          PROVE  LET r == run[p] IN
                   /\ r.pc \in Steps /\ r.pol \in Policies /\ r.new \in Policies
                   /\ r.adj \subseteq r.rt.mem /\ r.rt.mem \subseteq Adj /\ r.rt.unavail \in BOOLEAN
                   /\ r.rt.last \in {{}} \cup {{S} : S \in SUBSET Adj}
      <3>1. run[p] \in Guards /\ Relies(run[p], ledger, Owed, dropped)
        BY DEF IInv, RunInv
      <3>2. run[p].rt \in Runtimes
        BY <3>1, GuardFields
      <3>3. run[p].adj \subseteq run[p].rt.mem
        BY <3>1 DEF Relies
      <3>4. QED
        BY <3>1, <3>2, <3>3, GuardFields, RuntimeFields
    <2>2. QED
      BY <2>1 DEF IInv, SimpleOK, StateOK, Ledgers, TypeOK
  <1>2. QED
    BY Inductive, <1>1, PTL

(* An adjustment in force has its record on disk (hydrate_mitigations_from,
   persist_mitigations_to): through any number of deaths and reboots, reloads,
   one-shot runs beside the daemon, and a ledger that cannot be read. *)
THEOREM LedgerIsDurable == Spec => []Durable
  <1>1. IInv => Durable
    BY DEF IInv
  <1>2. QED
    BY Inductive, <1>1, PTL
=============================================================================
