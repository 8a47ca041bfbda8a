---------------------------- MODULE OomBiasProofs ----------------------------
(* Proofs about OomBias: for any processes, pids, values and roots nested in one
   another, what the guard biased is on record, what inherited is owed, and what is given
   back is the value the process would have. *)
EXTENDS OomBias, TLAPS

Above(p) == Ancestors(parent, p)
Born(p) == life[p] # "unborn"

(* Whom a restoration is owed to. *)
Heirs == {p \in Alive : mark[p] = "inherited" /\ p \notin late}

-----------------------------------------------------------------------------
(* The inductive invariant: processes, records, the pass. *)
ProcInv ==
    /\ \A p \in Procs : parent[p] \in Procs => parent[p] \in Alive
    /\ \A p \in Procs : life[p] # "alive" => parent[p] = Init1 /\ mark[p] = "own"
    /\ \A p \in Alive : \A q \in Alive : PidOf[p] = PidOf[q] => p = q
    /\ \A p \in Alive : adj[p] = IF mark[p] = "own" THEN base[p] ELSE Target

(* Records name processes that have been, with values the guard may give back;
   nobody who inherited is known from before or has the pid of a recorded root,
   and who owes it is above it. *)
RecordOK(m, i) ==
    \/ m.biased[i] = NoRoot
    \/ /\ m.biased[i].proc \in Procs /\ PidOf[m.biased[i].proc] = i
       /\ Born(m.biased[i].proc)
       /\ m.biased[i].orig \in Values /\ CanBias(m.biased[i].orig)
DebtOK(m, p) ==
    \/ m.pending[p] = NoDebt
    \/ /\ m.pending[p].root \in Pids /\ Born(p)
       /\ m.pending[p].orig \in Values /\ CanBias(m.pending[p].orig)
HeirOK(m, p) ==
    /\ m.biased[PidOf[p]] = NoRoot
    /\ m.pending[p] # NoDebt => \E a \in Above(p) : PidOf[a] = m.pending[p].root
KnownOK(m, i) == \A p \in m.known[i] : Born(p) /\ p \notin Heirs
RecordInv(m) ==
    /\ \A i \in Pids : RecordOK(m, i) /\ KnownOK(m, i)
    /\ \A p \in Procs : DebtOK(m, p)
    /\ \A p \in Heirs : HeirOK(m, p)

(* Who inherited is pending, or below a root that is on record and cannot be
   dropped as stale, or below a child that is pending below a root. *)
Holds(m, a) == m.biased[PidOf[a]].proc = a /\ (adj[a] = Target \/ CanBias(adj[a]))
HasRoot(m, p) ==
    \E a \in Above(p) : Holds(m, a) \/ \E q \in Above(p) : m.pending[q].root = PidOf[a]
OwesAll(m) == \A p \in Heirs : m.pending[p] # NoDebt \/ HasRoot(m, p)
BiasedIn(m, p) ==
    /\ m.biased[PidOf[p]].proc = p
    /\ p \notin late => m.biased[PidOf[p]].orig = base[p]
BiasedAll(m) == \A p \in Alive : mark[p] = "biased" => BiasedIn(m, p)

Sound(m) == m \in Records /\ RecordInv(m) /\ OwesAll(m) /\ BiasedAll(m)

(* The pass: a child is in the snapshot with all above it, or was forked below a
   biased root since; behind the sweep it is pending or below such a root. *)
InWrite ==
    pc = "write" => /\ mode = "critical" /\ cur \in Procs /\ Born(cur) /\ mark[cur] = "own"
                    /\ (cur \in Alive => BiasedIn(mem, cur) /\ BiasedIn(ledger, cur))
SeenOrNew(p) ==
    IF sampled[p] # Absent THEN \A x \in Above(p) \cup {p} : sampled[x] = parent[x]
    ELSE mode = "critical" /\ parent[p] \in Procs /\ mark[parent[p]] = "biased"
OwedOrNew(p) ==
    \/ mem.pending[p] # NoDebt
    \/ mode = "critical" /\ parent[p] \in Procs /\ Holds(mem, parent[p])
PassInv ==
    /\ last = Never \/ last = ledger
    /\ pc = "down" => mem = NoRecords
    /\ InWrite
    /\ \A p \in Procs : sampled[p] # Absent => Born(p)
    /\ pc \in {"apply", "write"} => \A p \in Heirs : SeenOrNew(p)
    /\ pc \in {"restore", "release"} => \A p \in Heirs : OwedOrNew(p)

IInv == TypeOK /\ ProcInv /\ Sound(ledger) /\ Sound(View) /\ PassInv

-----------------------------------------------------------------------------
(* Going up. *)
LEMMA Constants ==
  /\ Init1 \notin Procs /\ Absent \notin Procs /\ Init1 # Absent
  /\ Procs \subseteq Nat
  /\ \A p \in Procs : PidOf[p] \in Pids
  /\ Init1 \notin Pids /\ Pids \subseteq Nat
  /\ Target \in Int /\ Protected \in Int /\ Values \subseteq Int /\ Target \notin Values
  /\ \A p \in Procs : Foreign[p] \subseteq Values
  /\ Natives \subseteq Values
  <1>1. \A p \in Procs : PidOf[p] \in Nat \ {Init1}
    BY ConstantsAssumption
  <1>2. \A p \in Procs : Foreign[p] \subseteq Int \ {Target}
    BY ConstantsAssumption
  <1>3. \A p \in Procs : Foreign[p] \subseteq Values
    BY DEF Values
  <1>4. Values \subseteq Int \ {Target}
    BY <1>2, ConstantsAssumption DEF Values
  <1>5. Natives \subseteq Values
    BY DEF Values
  <1>6. Pids \subseteq Nat \ {Init1}
    BY <1>1 DEF Pids
  <1>7. \A p \in Procs : PidOf[p] \in Pids
    BY DEF Pids
  <1>8. Procs \subseteq Nat \ {Init1} /\ Target \in Int /\ Protected \in Int
    BY ConstantsAssumption
  <1>9. QED
    BY <1>3, <1>4, <1>5, <1>6, <1>7, <1>8 DEF Absent, Init1

(* Up is closed, and the least closed set. *)
LEMMA UpIsClosed ==
  ASSUME NEW f, NEW p \in Procs, NEW stop
  PROVE  /\ Up(f, p, stop) \subseteq Procs
         /\ \A x \in Up(f, p, stop) \cup {p} :
              (x = p \/ PidOf[x] \notin stop) /\ f[x] \in Procs => f[x] \in Up(f, p, stop)
  BY DEF Up

LEMMA UpIsLeast ==
  ASSUME NEW f, NEW p \in Procs, NEW stop, NEW S \in SUBSET Procs,
         \A x \in S \cup {p} : (x = p \/ PidOf[x] \notin stop) /\ f[x] \in Procs => f[x] \in S
  PROVE  Up(f, p, stop) \subseteq S
  BY DEF Up

LEMMA UpFrame ==
  ASSUME NEW f, NEW g, NEW p \in Procs, NEW stop,
         \A x \in Up(f, p, stop) \cup {p} : g[x] = f[x]
  PROVE  Up(g, p, stop) = Up(f, p, stop)
  <1>1. Up(g, p, stop) \subseteq Up(f, p, stop)
    BY UpIsClosed, UpIsLeast
  <1>2. Up(f, p, stop) \subseteq Up(g, p, stop)
    BY <1>1, UpIsClosed, UpIsLeast
  <1>3. QED
    BY <1>1, <1>2

LEMMA AboveIsClosed ==
  ASSUME NEW f, NEW p \in Procs
  PROVE  /\ Ancestors(f, p) \subseteq Procs
         /\ \A x \in Ancestors(f, p) \cup {p} : f[x] \in Procs => f[x] \in Ancestors(f, p)
         /\ \A x \in Ancestors(f, p) \cup {p} : Ancestors(f, x) \subseteq Ancestors(f, p)
  <1>1. /\ Ancestors(f, p) \subseteq Procs
        /\ \A x \in Ancestors(f, p) \cup {p} : f[x] \in Procs => f[x] \in Ancestors(f, p)
    BY UpIsClosed DEF Ancestors
  <1>2. ASSUME NEW x \in Ancestors(f, p) \cup {p}
        PROVE  Ancestors(f, x) \subseteq Ancestors(f, p)
    BY <1>1, UpIsLeast DEF Ancestors
  <1>3. QED
    BY <1>1, <1>2

LEMMA AboveFrame ==
  ASSUME NEW f, NEW g, NEW p \in Procs,
         \A x \in Ancestors(f, p) \cup {p} : g[x] = f[x]
  PROVE  Ancestors(g, p) = Ancestors(f, p)
  BY UpFrame DEF Ancestors

(* nearest_biased_ancestor finds one if there is one. *)
LEMMA NearestIs ==
  ASSUME NEW f, NEW p \in Procs, NEW roots, NearestRoot(f, p, roots) # Init1
  PROVE  /\ NearestRoot(f, p, roots) \in roots
         /\ \E h \in Ancestors(f, p) : PidOf[h] = NearestRoot(f, p, roots)
  <1> DEFINE hits == {a \in Up(f, p, roots) : PidOf[a] \in roots}
             h == CHOOSE a \in hits : TRUE
  <1>1. hits # {} /\ NearestRoot(f, p, roots) = PidOf[h]
    BY DEF NearestRoot
  <1>2. h \in hits
    BY <1>1
  <1>3. Up(f, p, roots) \subseteq Ancestors(f, p)
    BY AboveIsClosed, UpIsLeast
  <1>4. QED
    BY <1>1, <1>2, <1>3

LEMMA NearestFinds ==
  ASSUME NEW f, NEW p \in Procs, NEW roots,
         NEW a \in Ancestors(f, p), PidOf[a] \in roots
  PROVE  NearestRoot(f, p, roots) # Init1
  <1> DEFINE U == Up(f, p, roots)
             hits == {x \in U : PidOf[x] \in roots}
  <1>1. hits # {}
    <2>1. SUFFICES ASSUME hits = {} PROVE FALSE
      OBVIOUS
    <2>2. \A x \in U \cup {p} : f[x] \in Procs => f[x] \in U
      BY <2>1, UpIsClosed
    <2>3. Ancestors(f, p) \subseteq U
      BY <2>2, UpIsClosed, UpIsLeast DEF Ancestors
    <2>4. QED
      BY <2>1, <2>3
  <1>2. NearestRoot(f, p, roots) = PidOf[CHOOSE x \in hits : TRUE]
    BY <1>1 DEF NearestRoot
  <1>3. (CHOOSE x \in hits : TRUE) \in Procs
    BY <1>1, UpIsClosed
  <1>4. QED
    BY <1>2, <1>3, Constants

-----------------------------------------------------------------------------
(* Types. *)
RootRec == [proc : Procs \cup {Init1}, orig : Values \cup {Target}]
DebtRec == [root : Pids \cup {Init1}, orig : Values \cup {Target}]

LEMMA RecordsAre ==
  ASSUME NEW m \in Records
  PROVE  /\ m.biased \in [Pids -> RootRec] /\ m.known \in [Pids -> SUBSET Procs]
         /\ m.pending \in [Procs -> DebtRec]
         /\ m = [biased |-> m.biased, known |-> m.known, pending |-> m.pending]
  BY DEF Records, RootRec, DebtRec

LEMMA RecordsMade ==
  ASSUME NEW b \in [Pids -> RootRec], NEW k \in [Pids -> SUBSET Procs],
         NEW d \in [Procs -> DebtRec]
  PROVE  [biased |-> b, known |-> k, pending |-> d] \in Records
  BY DEF Records, RootRec, DebtRec

LEMMA Nothing ==
  /\ NoRoot \in RootRec /\ NoDebt \in DebtRec /\ NoRecords \in Records
  /\ NoRoot.proc = Init1 /\ NoDebt.root = Init1
  /\ \A i \in Pids : NoRecords.biased[i] = NoRoot /\ NoRecords.known[i] = {}
  /\ \A p \in Procs : NoRecords.pending[p] = NoDebt
  /\ Never \notin Records
  <1>1. NoRoot \in RootRec /\ NoDebt \in DebtRec
    BY DEF NoRoot, NoDebt, RootRec, DebtRec
  <1>2. NoRecords \in Records
    BY <1>1, RecordsMade DEF NoRecords
  <1>3. Never \notin Records
    <2>1. DOMAIN Never = {"biased"}
      BY DEF Never
    <2>2. \A m \in Records : "known" \in DOMAIN m
      BY DEF Records
    <2>3. QED
      BY <2>1, <2>2
  <1>4. QED
    BY <1>1, <1>2, <1>3 DEF NoRecords, NoRoot, NoDebt

LEMMA FieldsSet ==
  ASSUME NEW m \in Records, NEW b \in [Pids -> RootRec], NEW k \in [Pids -> SUBSET Procs],
         NEW d \in [Procs -> DebtRec]
  PROVE  /\ [m EXCEPT !.biased = b] = [biased |-> b, known |-> m.known, pending |-> m.pending]
         /\ [m EXCEPT !.known = k] = [biased |-> m.biased, known |-> k, pending |-> m.pending]
         /\ [m EXCEPT !.pending = d] = [biased |-> m.biased, known |-> m.known, pending |-> d]
  BY DEF Records

LEMMA RootAndKnownSet ==
  ASSUME NEW m \in Records, NEW b \in [Pids -> RootRec], NEW k \in [Pids -> SUBSET Procs]
  PROVE  [m EXCEPT !.biased = b, !.known = k] = [biased |-> b, known |-> k, pending |-> m.pending]
  <1> DEFINE n == [m EXCEPT !.biased = b]
  <1>1. n = [biased |-> b, known |-> m.known, pending |-> m.pending]
    BY RecordsAre, FieldsSet
  <1>2. n \in Records
    BY <1>1, RecordsAre, RecordsMade
  <1>3. [m EXCEPT !.biased = b, !.known = k] = [n EXCEPT !.known = k]
    OBVIOUS
  <1>4. n.biased = b /\ n.pending = m.pending
    BY <1>1
  <1> HIDE DEF n
  <1>5. [n EXCEPT !.known = k] = [biased |-> b, known |-> k, pending |-> m.pending]
    BY <1>2, <1>4, RecordsAre, FieldsSet
  <1>6. QED
    BY <1>3, <1>5

(* What is put in the place of one record or of all. *)
LEMMA RemoveBiasMade ==
  ASSUME NEW m \in Records, NEW i \in Pids
  PROVE  /\ RemoveBias(m, i) \in Records
         /\ RemoveBias(m, i).pending = m.pending
         /\ \A j \in Pids :
              /\ RemoveBias(m, i).biased[j] = IF j = i THEN NoRoot ELSE m.biased[j]
              /\ RemoveBias(m, i).known[j] \subseteq m.known[j]
  <1> DEFINE b == [m.biased EXCEPT ![i] = NoRoot]
             k == [m.known EXCEPT ![i] = IF i \in PendingRoots(m) THEN @ ELSE {}]
  <1>2. b \in [Pids -> RootRec] /\ k \in [Pids -> SUBSET Procs]
    BY RecordsAre, Nothing
  <1>1. RemoveBias(m, i) = [biased |-> b, known |-> k, pending |-> m.pending]
    <2>1. RemoveBias(m, i) = [m EXCEPT !.biased = b, !.known = k]
      BY DEF RemoveBias
    <2> HIDE DEF b, k
    <2>2. QED
      BY <1>2, <2>1, RootAndKnownSet
  <1>3. QED
    BY <1>1, <1>2, RecordsMade, RecordsAre

LEMMA IntentMade ==
  ASSUME TypeOK, NEW p \in Procs
  PROVE  /\ Intent(p) \in Records
         /\ Intent(p).pending = mem.pending
         /\ \A j \in Pids :
              /\ Intent(p).biased[j] = IF j = PidOf[p] THEN [proc |-> p, orig |-> adj[p]]
                                                       ELSE mem.biased[j]
              /\ Intent(p).known[j] = IF j = PidOf[p] THEN SampledBelow(p) ELSE mem.known[j]
  <1> DEFINE r == [proc |-> p, orig |-> adj[p]]
             b == [mem.biased EXCEPT ![PidOf[p]] = r]
             k == [mem.known EXCEPT ![PidOf[p]] = SampledBelow(p)]
  <1>1. mem \in Records /\ r \in RootRec /\ SampledBelow(p) \in SUBSET Procs
    BY DEF TypeOK, RootRec, SampledBelow
  <1>3. b \in [Pids -> RootRec] /\ k \in [Pids -> SUBSET Procs]
    BY <1>1, RecordsAre, Constants
  <1>2. Intent(p) = [biased |-> b, known |-> k, pending |-> mem.pending]
    <2>1. Intent(p) = [mem EXCEPT !.biased = b, !.known = k]
      BY DEF Intent
    <2>2. QED
      BY <1>1, <1>3, <2>1, RootAndKnownSet
  <1>4. QED
    BY <1>1, <1>2, <1>3, RecordsMade, RecordsAre, Constants

LEMMA PrunedMade ==
  ASSUME NEW m \in Records
  PROVE  /\ Pruned(m) \in Records
         /\ Pruned(m).pending = m.pending
         /\ \A j \in Pids :
              /\ Pruned(m).biased[j] \in {m.biased[j], NoRoot}
              /\ Match(m.biased[j].proc) => Pruned(m).biased[j] = m.biased[j]
              /\ Pruned(m).known[j] \subseteq m.known[j]
  <1> DEFINE kept == {i \in Recorded(m) : Match(m.biased[i].proc) \/ i \in PendingRoots(m)}
             b == [i \in Pids |-> IF i \in kept THEN m.biased[i] ELSE NoRoot]
             k == [i \in Pids |-> IF i \in kept THEN m.known[i] ELSE {}]
  <1>2. b \in [Pids -> RootRec] /\ k \in [Pids -> SUBSET Procs]
    BY RecordsAre, Nothing
  <1>1. Pruned(m) = [biased |-> b, known |-> k, pending |-> m.pending]
    <2>1. Pruned(m) = [m EXCEPT !.biased = b, !.known = k]
      <3>1. DOMAIN m.biased = Pids /\ DOMAIN m.known = Pids
        BY RecordsAre
      <3>2. QED
        BY <3>1 DEF Pruned
    <2>2. QED
      BY <1>2, <2>1, RootAndKnownSet
  <1>3. \A j \in Pids : Match(m.biased[j].proc) => b[j] = m.biased[j]
    BY DEF Recorded
  <1>4. QED
    BY <1>1, <1>2, <1>3, RecordsMade, RecordsAre

LEMMA DropMade ==
  ASSUME NEW m \in Records, NEW i \in Pids
  PROVE  /\ [m EXCEPT !.biased[i] = NoRoot] \in Records
         /\ [m EXCEPT !.biased[i] = NoRoot].known = m.known
         /\ [m EXCEPT !.biased[i] = NoRoot].pending = m.pending
         /\ \A j \in Pids : [m EXCEPT !.biased[i] = NoRoot].biased[j]
                              = IF j = i THEN NoRoot ELSE m.biased[j]
  <1> DEFINE b == [m.biased EXCEPT ![i] = NoRoot]
  <1>1. b \in [Pids -> RootRec]
    BY RecordsAre, Nothing
  <1>2. [m EXCEPT !.biased[i] = NoRoot] = [m EXCEPT !.biased = b]
    OBVIOUS
  <1>3. \A j \in Pids : b[j] = IF j = i THEN NoRoot ELSE m.biased[j]
    BY RecordsAre
  <1> HIDE DEF b
  <1>4. QED
    BY <1>1, <1>2, <1>3, FieldsSet, RecordsAre, RecordsMade

(* What RestorePending leaves of the maps. *)
Written(m, p) == [m EXCEPT !.pending[p] = NoDebt]
WrittenBelow(m, p, i) == [m EXCEPT !.pending[p] = NoDebt, !.known[i] = @ \cup {p}]

LEMMA SettledMade ==
  ASSUME NEW m \in Records, NEW p \in Procs, NEW i,
         NEW r, r = Written(m, p) \/ r = WrittenBelow(m, p, i)
  PROVE  /\ r \in Records /\ r.biased = m.biased
         /\ \A q \in Procs : r.pending[q] = IF q = p THEN NoDebt ELSE m.pending[q]
         /\ \A j \in Pids : r.known[j] \subseteq m.known[j] \cup {p}
  <1> DEFINE d == [m.pending EXCEPT ![p] = NoDebt]
             n == [m EXCEPT !.pending = d]
             k == [m.known EXCEPT ![i] = @ \cup {p}]
  <1>1. d \in [Procs -> DebtRec] /\ k \in [Pids -> SUBSET Procs]
    BY RecordsAre, Nothing
  <1>2. Written(m, p) = n
    BY DEF Written
  <1>3. \A q \in Procs : d[q] = IF q = p THEN NoDebt ELSE m.pending[q]
    BY RecordsAre
  <1>4. \A j \in Pids : k[j] \subseteq m.known[j] \cup {p}
    BY RecordsAre
  <1>5. /\ n = [biased |-> m.biased, known |-> m.known, pending |-> d]
        /\ n.biased = m.biased /\ n.known = m.known /\ n.pending = d
    <2> HIDE DEF d
    <2>1. n = [biased |-> m.biased, known |-> m.known, pending |-> d]
      BY <1>1, FieldsSet, RecordsAre
    <2>2. QED
      BY <2>1
  <1>6. n \in Records
    BY <1>1, <1>5, RecordsAre, RecordsMade
  <1>7. WrittenBelow(m, p, i) = [n EXCEPT !.known = k]
    <2>1. WrittenBelow(m, p, i) = [n EXCEPT !.known[i] = @ \cup {p}]
      BY DEF WrittenBelow
    <2>2. [n EXCEPT !.known[i] = @ \cup {p}] = [n EXCEPT !.known = [n.known EXCEPT ![i] = @ \cup {p}]]
      OBVIOUS
    <2>3. QED
      BY <2>1, <2>2, <1>5
  <1> HIDE DEF n, d, k
  <1>8. [n EXCEPT !.known = k] = [biased |-> m.biased, known |-> k, pending |-> d]
    BY <1>1, <1>5, <1>6, FieldsSet, RecordsAre
  <1>9. QED
    BY <1>1, <1>2, <1>3, <1>4, <1>5, <1>6, <1>7, <1>8, RecordsMade, RecordsAre

LEMMA SweptMade ==
  ASSUME TypeOK, NEW value, NEW spared,
         \A i \in SweepRoots(mem) : value[i] \in RootValues(mem, i)
  PROVE  /\ Swept(value, spared) \in Records
         /\ Swept(value, spared).biased = mem.biased /\ Swept(value, spared).known = mem.known
         /\ \A p \in Procs : p \notin NewDebts(spared) => Swept(value, spared).pending[p] = mem.pending[p]
         /\ \A p \in NewDebts(spared) :
              LET i == NearestRoot(sampled, p, SweepRoots(mem))
              IN  Swept(value, spared).pending[p] = [root |-> i, orig |-> value[i]]
  <1> DEFINE i(p) == NearestRoot(sampled, p, SweepRoots(mem))
             d == [p \in Procs |-> IF p \in NewDebts(spared) THEN [root |-> i(p), orig |-> value[i(p)]]
                                                      ELSE mem.pending[p]]
  <1>1. mem \in Records
    BY DEF TypeOK
  <1>2. \A p \in NewDebts(spared) : p \in Procs /\ i(p) # Init1
    BY DEF NewDebts
  <1>3. ASSUME NEW p \in NewDebts(spared)
        PROVE  [root |-> i(p), orig |-> value[i(p)]] \in DebtRec
    <2>1. i(p) \in SweepRoots(mem)
      BY <1>2, NearestIs
    <2>3. i(p) \in Pids
      BY <2>1 DEF SweepRoots
    <2>2. RootValues(mem, i(p)) \subseteq Values \cup {Target}
      <3>1. mem.biased[i(p)].orig \in Values \cup {Target}
        BY <1>1, <2>3, RecordsAre DEF RootRec
      <3>2. \A q \in Procs : mem.pending[q].orig \in Values \cup {Target}
        BY <1>1, RecordsAre DEF DebtRec
      <3> HIDE DEF i
      <3>3. QED
        BY <3>1, <3>2 DEF RootValues, Indebted
    <2>4. QED
      BY <2>1, <2>2, <2>3 DEF DebtRec
  <1>4. d \in [Procs -> DebtRec]
    BY <1>1, <1>3, RecordsAre
  <1>5. Swept(value, spared) = [mem EXCEPT !.pending = d]
    BY DEF Swept
  <1>6. /\ \A p \in Procs : p \notin NewDebts(spared) => d[p] = mem.pending[p]
        /\ \A p \in NewDebts(spared) : d[p] = [root |-> i(p), orig |-> value[i(p)]]
    BY <1>2
  <1> HIDE DEF d
  <1>7. Swept(value, spared) = [biased |-> mem.biased, known |-> mem.known, pending |-> d]
    BY <1>1, <1>4, <1>5, FieldsSet, RecordsAre
  <1>8. QED
    BY <1>1, <1>4, <1>6, <1>7, RecordsAre, RecordsMade

(* What Hydrate takes over from the ledger. *)
Hydrated ==
    [biased |-> [i \in Pids |-> IF Match(ledger.biased[i].proc) THEN ledger.biased[i] ELSE NoRoot],
     known |-> ledger.known,
     pending |-> [p \in Procs |-> IF p \in Alive THEN ledger.pending[p] ELSE NoDebt]]

LEMMA HydratedMade ==
  ASSUME TypeOK
  PROVE  /\ Hydrated \in Records /\ Hydrated.known = ledger.known
         /\ \A i \in Pids : Hydrated.biased[i]
                              = IF Match(ledger.biased[i].proc) THEN ledger.biased[i] ELSE NoRoot
         /\ \A p \in Procs : Hydrated.pending[p] = IF p \in Alive THEN ledger.pending[p] ELSE NoDebt
  <1> DEFINE b == [i \in Pids |-> IF Match(ledger.biased[i].proc) THEN ledger.biased[i] ELSE NoRoot]
             d == [p \in Procs |-> IF p \in Alive THEN ledger.pending[p] ELSE NoDebt]
  <1>1. ledger \in Records
    BY DEF TypeOK
  <1>2. b \in [Pids -> RootRec] /\ d \in [Procs -> DebtRec]
    BY <1>1, RecordsAre, Nothing
  <1>3. Hydrated = [biased |-> b, known |-> ledger.known, pending |-> d]
    BY DEF Hydrated
  <1>4. QED
    BY <1>1, <1>2, <1>3, RecordsAre, RecordsMade

(* A persist without torn fsyncs leaves the new maps on disk or the old ones. *)
LEMMA Persists ==
  ASSUME ~Torn, TypeOK, last = Never \/ last = ledger, NEW m \in Records
  PROVE  /\ PersistOk(m) => ledger' = m /\ last' = m
         /\ PersistFails(m) => ledger' = ledger /\ last' = last
         /\ Persist(m) => /\ ledger' \in {ledger, m}
                          /\ last' = Never \/ last' = ledger'
  BY Nothing DEF PersistOk, PersistFails, Persist

LEMMA PersistTyped ==
  ASSUME TypeOK, NEW m \in Records
  PROVE  /\ PersistOk(m) => ledger' \in Records /\ last' \in Records \cup {Never}
         /\ PersistFails(m) => ledger' \in Records /\ last' \in Records \cup {Never}
         /\ Persist(m) => ledger' \in Records /\ last' \in Records \cup {Never}
  BY DEF PersistOk, PersistFails, Persist, TypeOK

ProcsTyped ==
    /\ life \in [Procs -> {"unborn", "alive", "dead"}]
    /\ parent \in [Procs -> Procs \cup {Init1}]
    /\ adj \in [Procs -> Values \cup {Target}]
    /\ base \in [Procs -> Values \cup {Target}]
    /\ mark \in [Procs -> {"own", "biased", "inherited"}]
    /\ late \subseteq Procs
GuardTyped ==
    /\ mem \in Records /\ ledger \in Records /\ last \in Records \cup {Never}
    /\ pc \in {"down", "starting", "idle", "apply", "write", "restore", "release"}
    /\ mode \in Modes
    /\ sampled \in [Procs -> Procs \cup {Init1, Absent}]
    /\ cur \in Procs \cup {Init1}

LEMMA TypeParts ==
  /\ TypeOK => ProcsTyped /\ GuardTyped
  /\ ProcsTyped' /\ GuardTyped' => TypeOK'
  BY DEF TypeOK, ProcsTyped, GuardTyped

LEMMA Restored ==
  ASSUME ProcsTyped, NEW p \in Alive, NEW v \in Values \cup {Target}, RestoreAdj(p, v),
         UNCHANGED <<life, parent>>, late' \subseteq Procs
  PROVE  ProcsTyped'
  BY DEF ProcsTyped, RestoreAdj, Alive

LEMMA InitTyped == Init => TypeOK
  BY Constants, Nothing DEF Init, TypeOK, NoSample, Modes, Alive

LEMMA ProcessesTyped ==
  ASSUME TypeOK, Processes
  PROVE  TypeOK'
  <1>1. ProcsTyped /\ GuardTyped
    BY TypeParts
  <1>2. UNCHANGED <<mem, ledger, last, pc, passVars>>
    BY DEF Processes, Fork, Exit, OperatorSets
  <1>3. GuardTyped'
    BY <1>1, <1>2 DEF GuardTyped, passVars
  <1>4. ASSUME NEW p \in Procs, NEW from \in Procs \cup {Init1}, Fork(p, from)
        PROVE  ProcsTyped'
    <2>1. from \in Alive \cup {Init1}
      BY <1>4 DEF Fork
    <2>2. /\ late' \subseteq Procs
          /\ life' \in [Procs -> {"unborn", "alive", "dead"}]
          /\ parent' \in [Procs -> Procs \cup {Init1}]
      BY <1>1, <1>4 DEF Fork, ProcsTyped
    <2>3. CASE from = Init1
      BY <1>1, <1>4, <2>2, <2>3, Constants DEF Fork, ProcsTyped
    <2>4. CASE from # Init1
      BY <1>1, <1>4, <2>1, <2>2, <2>4 DEF Fork, ProcsTyped, Alive
    <2>5. QED
      BY <2>3, <2>4
  <1>5. ASSUME NEW p \in Procs, Exit(p) PROVE ProcsTyped'
    BY <1>1, <1>5 DEF Exit, ProcsTyped, Alive
  <1>6. ASSUME NEW p \in Procs, NEW v \in Foreign[p], OperatorSets(p, v)
        PROVE  ProcsTyped'
    BY <1>1, <1>6, Constants DEF OperatorSets, ProcsTyped, Alive
  <1>7. QED
    BY <1>3, <1>4, <1>5, <1>6, TypeParts DEF Processes

LEMMA PassTyped ==
  ASSUME TypeOK, Pass
  PROVE  TypeOK'
  <1>1. ProcsTyped /\ GuardTyped
    BY TypeParts
  <1>2. mem \in Records /\ ledger \in Records
    BY <1>1 DEF GuardTyped
  <1>3. ASSUME NEW m \in Modes, PassBegin(m) PROVE TypeOK'
    BY <1>1, <1>3, TypeParts DEF PassBegin, ProcsTyped, GuardTyped, processVars
  <1>4. ASSUME NEW p \in Procs, BiasIntent(p) PROVE TypeOK'
    <2>1. late' \subseteq Procs
      BY <1>1, <1>4 DEF BiasIntent, ProcsTyped, Unsafe, SampledBelow
    <2>2. ProcsTyped'
      BY <1>1, <1>4, <2>1 DEF BiasIntent, ProcsTyped, processVars
    <2>3. Intent(p) \in Records /\ RemoveBias(Intent(p), PidOf[p]) \in Records
      BY IntentMade, RemoveBiasMade, Constants
    <2>4. GuardTyped'
      BY <1>1, <1>4, <2>3, PersistTyped DEF BiasIntent, GuardTyped
    <2>5. QED
      BY <2>2, <2>4, TypeParts
  <1>5. ASSUME NEW p \in Procs, BiasDropStale(p) PROVE TypeOK'
    <2>1. mem' \in Records
      BY <1>2, <1>5, DropMade, Constants DEF BiasDropStale
    <2>2. QED
      BY <1>1, <1>5, <2>1, TypeParts DEF BiasDropStale, ProcsTyped, GuardTyped, processVars, passVars
  <1>6. ASSUME NEW p \in Procs, RestorePending(p) PROVE TypeOK'
    <2> DEFINE debt == mem.pending[p]
    <2>1. debt \in DebtRec /\ debt.orig \in Values \cup {Target}
      BY <1>2, RecordsAre DEF DebtRec
    <2>2. ProcsTyped'
      BY <1>1, <1>6, <2>1, Restored DEF RestorePending, ProcsTyped
    <2>3. mem' \in Records
      <3>1. mem' = Written(mem, p) \/ mem' = WrittenBelow(mem, p, debt.root)
        BY <1>6 DEF RestorePending, Written, WrittenBelow
      <3>2. QED
        BY <1>2, <3>1, SettledMade
    <2>4. QED
      BY <1>1, <1>6, <2>2, <2>3, TypeParts DEF RestorePending, GuardTyped, passVars
  <1>7. CASE BiasWrite
    BY <1>1, <1>7, TypeParts DEF BiasWrite, ProcsTyped, GuardTyped, processVars, Alive
  <1>8. CASE Sweep
    <2>1. PICK spared \in SUBSET (NewDebts({}) \cap Exempt),
               value \in [SweepRoots(mem) -> Values \cup {Target}] :
            /\ \A i \in SweepRoots(mem) : value[i] \in RootValues(mem, i)
            /\ mem' = Swept(value, spared)
            /\ late' = late \cup Ambiguous \cup Skipped(spared)
      BY <1>8 DEF Sweep
    <2>2. mem' \in Records
      BY <2>1, SweptMade
    <2>3. ledger' \in Records /\ last' \in Records \cup {Never}
      BY <1>8, <2>2, PersistTyped DEF Sweep
    <2>4. NoSample \in [Procs -> Procs \cup {Init1, Absent}]
      BY DEF NoSample
    <2>5. late' \subseteq Procs
      BY <1>1, <2>1 DEF Ambiguous, Skipped, NewDebts, ProcsTyped
    <2>6. QED
      BY <1>1, <1>8, <2>2, <2>3, <2>4, <2>5, TypeParts
         DEF Sweep, ProcsTyped, GuardTyped, processVars
  <1>9. CASE SweepSettled
    BY <1>1, <1>2, <1>9, PersistTyped, TypeParts
       DEF SweepSettled, ProcsTyped, GuardTyped, processVars, passVars
  <1>10. CASE PassEnd
    <2>1. mem' \in Records
      BY <1>2, <1>10, PrunedMade DEF PassEnd
    <2>2. ledger' \in Records /\ last' \in Records \cup {Never}
      BY <1>10, <2>1, PersistTyped DEF PassEnd
    <2>3. NoSample \in [Procs -> Procs \cup {Init1, Absent}] /\ "critical" \in Modes
      BY DEF NoSample, Modes
    <2>4. QED
      BY <1>1, <1>10, <2>1, <2>2, <2>3, TypeParts
         DEF PassEnd, ProcsTyped, GuardTyped, processVars
  <1>11. CASE ReloadEnd
    <2>3. NoSample \in [Procs -> Procs \cup {Init1, Absent}] /\ "critical" \in Modes
      BY DEF NoSample, Modes
    <2>4. QED
      BY <1>1, <1>11, <2>3, Nothing, TypeParts
         DEF ReloadEnd, ProcsTyped, GuardTyped, processVars
  <1>12. ASSUME NEW i \in Pids, ReleaseRoot(i) PROVE TypeOK'
    <2>1. mem.biased[i] \in RootRec /\ mem.biased[i].orig \in Values \cup {Target}
      BY <1>2, RecordsAre DEF RootRec
    <2>2. ProcsTyped'
      BY <1>1, <1>12, <2>1, Restored DEF ReleaseRoot, ProcsTyped, Match
    <2>3. mem' \in Records
      BY <1>2, <1>12, RemoveBiasMade DEF ReleaseRoot
    <2>4. QED
      BY <1>1, <1>12, <2>2, <2>3, TypeParts DEF ReleaseRoot, GuardTyped, passVars
  <1>13. QED
    BY <1>3, <1>4, <1>5, <1>6, <1>7, <1>8, <1>9, <1>10, <1>11, <1>12 DEF Pass

LEMMA Typed ==
  ASSUME TypeOK, [Next]_vars
  PROVE  TypeOK'
  <1>1. CASE Processes
    BY <1>1, ProcessesTyped
  <1>2. CASE Pass
    BY <1>2, PassTyped
  <1>3. ProcsTyped /\ GuardTyped
    BY TypeParts
  <1>4. NoSample \in [Procs -> Procs \cup {Init1, Absent}] /\ "critical" \in Modes
    BY DEF NoSample, Modes
  <1>5. CASE GuardDies
    BY <1>3, <1>4, <1>5, Nothing, TypeParts
       DEF GuardDies, ProcsTyped, GuardTyped, processVars
  <1>6. CASE Hydrate
    <2>1. mem' = Hydrated
      BY <1>6 DEF Hydrate, Hydrated
    <2>2. QED
      BY <1>3, <1>6, <2>1, HydratedMade, TypeParts
         DEF Hydrate, ProcsTyped, GuardTyped, processVars, passVars
  <1>7. CASE UNCHANGED vars
    BY <1>7 DEF vars, TypeOK
  <1>8. QED
    BY <1>1, <1>2, <1>5, <1>6, <1>7 DEF Next

-----------------------------------------------------------------------------
(* The processes of a step of the guard: nobody comes or goes, and a value that
   changes is given back, or is the target and on record. *)
LEMMA AboveAlive ==
  ASSUME ProcInv, NEW p \in Procs
  PROVE  Above(p) \subseteq Alive
  <1>1. Alive \in SUBSET Procs
    BY DEF Alive
  <1>2. \A x \in Alive \cup {p} : parent[x] \in Procs => parent[x] \in Alive
    BY <1>1 DEF ProcInv
  <1>3. QED
    BY <1>1, <1>2, UpIsLeast DEF Above, Ancestors

Same(p) == adj'[p] = adj[p] /\ base'[p] = base[p] /\ mark'[p] = mark[p]
GivenBack(p) ==
    /\ p \in Alive /\ mark'[p] = "own" /\ adj'[p] = base'[p] /\ CanBias(adj'[p])
Taken(p) ==
    /\ p \in Alive /\ mark[p] = "own" /\ mark'[p] = "biased"
    /\ adj'[p] = Target /\ base'[p] = base[p]
Quiet ==
    /\ life' = life /\ parent' = parent /\ late \subseteq late'
    /\ \A p \in Procs : Same(p) \/ GivenBack(p) \/ Taken(p)

LEMMA QuietProcs ==
  ASSUME TypeOK, ProcInv, Quiet
  PROVE  /\ ProcInv' /\ Heirs' \subseteq Heirs /\ Alive' = Alive
         /\ \A p \in Procs : Above(p)' = Above(p) /\ Born(p)' = Born(p)
  <1>1. Alive' = Alive /\ \A p \in Procs : Above(p)' = Above(p) /\ Born(p)' = Born(p)
    BY DEF Quiet, Alive, Above, Born
  <1>2. ProcInv'
    BY <1>1 DEF ProcInv, Quiet, Same, GivenBack, Taken, Alive
  <1>3. Heirs' \subseteq Heirs
    BY <1>1 DEF Heirs, Quiet, Same, GivenBack, Taken, Alive
  <1>4. QED
    BY <1>1, <1>2, <1>3

LEMMA QuietHolds ==
  ASSUME Quiet, NEW m, NEW a \in Procs, Holds(m, a)
  PROVE  Holds(m, a)'
  BY DEF Quiet, Same, GivenBack, Taken, Holds, CanBias

LEMMA QuietRecords ==
  ASSUME TypeOK, ProcInv, Quiet, NEW m, RecordInv(m)
  PROVE  RecordInv(m)'
  <1>1. /\ Heirs' \subseteq Heirs
        /\ \A p \in Procs : Above(p)' = Above(p) /\ Born(p)' = Born(p)
    BY QuietProcs
  <1>2. Heirs \subseteq Procs
    BY DEF Heirs, Alive
  <1>3. ASSUME NEW i \in Pids PROVE RecordOK(m, i)' /\ KnownOK(m, i)'
    BY <1>1 DEF RecordInv, RecordOK, KnownOK, CanBias, Born, Quiet
  <1>4. ASSUME NEW p \in Procs PROVE DebtOK(m, p)'
    BY <1>1 DEF RecordInv, DebtOK, CanBias
  <1>5. ASSUME NEW p \in Heirs' PROVE HeirOK(m, p)'
    <2>1. p \in Heirs /\ p \in Procs /\ HeirOK(m, p) /\ Above(p)' = Above(p)
      BY <1>1, <1>2 DEF RecordInv
    <2>2. QED
      BY <2>1 DEF HeirOK
  <1>6. QED
    BY <1>3, <1>4, <1>5 DEF RecordInv

LEMMA QuietSound ==
  ASSUME TypeOK, ProcInv, Quiet, NEW m, Sound(m),
         \A p \in Procs : Taken(p) => BiasedIn(m, p)
  PROVE  Sound(m)'
  <1>1. /\ Heirs' \subseteq Heirs /\ Alive' = Alive
        /\ \A p \in Procs : Above(p)' = Above(p)
    BY QuietProcs
  <1>2. Heirs \subseteq Procs /\ Alive \subseteq Procs
    BY DEF Heirs, Alive
  <1>3. OwesAll(m)'
    <2>1. SUFFICES ASSUME NEW p \in Heirs', m.pending[p] = NoDebt
                   PROVE  HasRoot(m, p)'
      BY DEF OwesAll
    <2>2. p \in Procs /\ HasRoot(m, p) /\ Above(p)' = Above(p)
      BY <1>1, <1>2, <2>1 DEF Sound, OwesAll
    <2>3. PICK a \in Above(p) : Holds(m, a) \/ \E q \in Above(p) : m.pending[q].root = PidOf[a]
      BY <2>2 DEF HasRoot
    <2>4. a \in Procs
      BY <2>2, AboveIsClosed DEF Above
    <2>5. Holds(m, a) => Holds(m, a)'
      BY <2>4, QuietHolds
    <2>6. QED
      BY <2>2, <2>3, <2>5 DEF HasRoot
  <1>4. BiasedAll(m)'
    <2>1. SUFFICES ASSUME NEW p \in Alive', mark'[p] = "biased"
                   PROVE  BiasedIn(m, p)'
      BY DEF BiasedAll
    <2>2. p \in Procs /\ p \in Alive /\ BiasedIn(m, p) /\ base'[p] = base[p]
      BY <1>1, <1>2, <2>1 DEF Sound, BiasedAll, Quiet, Same, GivenBack, Taken
    <2>3. QED
      BY <2>2 DEF BiasedIn, Quiet
  <1>5. RecordInv(m)'
    BY QuietRecords DEF Sound
  <1>6. QED
    BY <1>3, <1>4, <1>5 DEF Sound, Records, Values, Pids

(* The invariant speaks of maps by their values. *)
LEMMA SoundAt ==
  ASSUME NEW m, Sound(m)'
  PROVE  /\ m = ledger' => Sound(ledger)'
         /\ m = View' => Sound(View)'
  BY DEF Sound, RecordInv, RecordOK, KnownOK, DebtOK, HeirOK, OwesAll, HasRoot, Holds,
         BiasedAll, BiasedIn

LEMMA SoundOf ==
  ASSUME NEW m
  PROVE  /\ m = ledger /\ Sound(ledger) => Sound(m)
         /\ m = View /\ Sound(View) => Sound(m)
         /\ m = mem /\ Sound(View) /\ pc # "down" => Sound(m)
  BY DEF View, Sound, RecordInv, RecordOK, KnownOK, DebtOK, HeirOK, OwesAll, HasRoot, Holds,
         BiasedAll, BiasedIn

(* Fewer records are as good, as long as what they are there for has them. *)
LEMMA Fewer ==
  ASSUME TypeOK', NEW m, NEW n, RecordInv(m)',
         \A i \in Pids : n.biased[i] \in {m.biased[i], NoRoot},
         \A p \in Procs : n.pending[p] \in {m.pending[p], NoDebt},
         \A i \in Pids : KnownOK(n, i)'
  PROVE  RecordInv(n)'
  <1>1. ASSUME NEW i \in Pids PROVE RecordOK(n, i)'
    BY DEF RecordInv, RecordOK
  <1>2. ASSUME NEW p \in Procs PROVE DebtOK(n, p)'
    BY DEF RecordInv, DebtOK
  <1>3. ASSUME NEW p \in Heirs' PROVE HeirOK(n, p)'
    <2>1. p \in Procs /\ PidOf[p] \in Pids /\ HeirOK(m, p)'
      BY Constants DEF RecordInv, Heirs, Alive
    <2>2. QED
      BY <2>1 DEF HeirOK
  <1>4. QED
    BY <1>1, <1>2, <1>3 DEF RecordInv

LEMMA QuietStep ==
  ASSUME TypeOK, ProcInv, Quiet, Sound(ledger), Sound(View), ledger' = ledger, View' = View,
         \A p \in Procs : Taken(p) => BiasedIn(ledger, p) /\ BiasedIn(View, p)
  PROVE  ProcInv' /\ Sound(ledger)' /\ Sound(View)'
  <1>1. ASSUME NEW m, m = ledger \/ m = View
        PROVE  Sound(m)'
    <2>1. Sound(m)
      BY <1>1, SoundOf
    <2>2. \A p \in Procs : Taken(p) => BiasedIn(m, p)
      BY <1>1 DEF BiasedIn
    <2>3. QED
      BY <2>1, <2>2, QuietSound
  <1>2. ASSUME NEW m, m = ledger PROVE Sound(ledger)'
    BY <1>1, <1>2, SoundAt
  <1>3. ASSUME NEW m, m = View PROVE Sound(View)'
    BY <1>1, <1>3, SoundAt
  <1>4. QED
    BY <1>2, <1>3, QuietProcs

LEMMA QuietNew ==
  ASSUME TypeOK, ProcInv, Quiet, Sound(ledger), ~\E p \in Procs : Taken(p),
         NEW n, Sound(n)', ledger' = ledger \/ ledger' = n, View' = n
  PROVE  ProcInv' /\ Sound(ledger)' /\ Sound(View)'
  <1>1. ASSUME NEW m, m = ledger, ledger' = ledger PROVE Sound(ledger)'
    <2>1. Sound(m)
      BY <1>1, SoundOf
    <2>2. Sound(m)'
      BY <2>1, QuietSound
    <2>3. QED
      BY <1>1, <2>2, SoundAt
  <1>2. QED
    BY <1>1, SoundAt, QuietProcs

(* Steps of the guard that leave the processes alone. *)
LEMMA NothingTaken ==
  ASSUME UNCHANGED <<life, parent, adj, base, mark>>, late \subseteq late'
  PROVE  Quiet /\ \A p \in Procs : ~Taken(p)
  BY DEF Quiet, Same, Taken

LEMMA BeginKeeps ==
  ASSUME IInv, TypeOK', NEW kind \in Modes, PassBegin(kind)
  PROVE  IInv'
  <1>1. Quiet /\ ~\E p \in Procs : Taken(p)
    BY NothingTaken DEF PassBegin, processVars
  <1>2. ledger' = ledger /\ View' = View
    BY DEF PassBegin, View
  <1>3. ProcInv' /\ Sound(ledger)' /\ Sound(View)'
    BY <1>1, <1>2, QuietStep DEF IInv
  <1>4. Heirs' \subseteq Heirs /\ \A p \in Procs : Above(p)' = Above(p) /\ Born(p)' = Born(p)
    BY <1>1, QuietProcs DEF IInv
  <1>5. ASSUME NEW p \in Heirs' PROVE SeenOrNew(p)'
    <2>1. p \in Alive /\ p \in Procs
      BY <1>4 DEF Heirs, Alive
    <2>2. \A x \in Above(p) \cup {p} : x \in Alive /\ x \in Procs
      BY <2>1, AboveAlive DEF IInv, Alive
    <2>3. \A x \in Above(p) \cup {p} : sampled'[x] = parent[x]
      BY <2>2 DEF PassBegin
    <2>4. sampled'[p] # Absent
      BY <2>1, <2>3, Constants DEF IInv, TypeOK
    <2>5. \A x \in Above(p)' \cup {p} : sampled'[x] = parent'[x]
      BY <1>4, <2>1, <2>3 DEF PassBegin, processVars
    <2>6. QED
      BY <2>4, <2>5 DEF SeenOrNew
  <1>6. PassInv'
    <2>1. \A p \in Procs : sampled'[p] # Absent => Born(p)'
      BY DEF PassBegin, Born, Alive, processVars
    <2>2. QED
      BY <1>5, <2>1 DEF PassBegin, IInv, PassInv, InWrite
  <1>7. QED
    BY <1>3, <1>6 DEF IInv

LEMMA WriteKeeps ==
  ASSUME IInv, TypeOK', BiasWrite
  PROVE  IInv'
  <1>1. /\ pc = "write" /\ cur \in Procs /\ mark[cur] = "own"
        /\ cur \in Alive => BiasedIn(mem, cur) /\ BiasedIn(ledger, cur)
    BY DEF IInv, PassInv, InWrite, BiasWrite
  <1>2. \A p \in Procs : Same(p) \/ (p = cur /\ Taken(p))
    <2>1. base' = base
      BY DEF BiasWrite, processVars
    <2>2. CASE UNCHANGED <<adj, mark>>
      BY <2>1, <2>2 DEF Same
    <2>3. CASE /\ cur \in Alive /\ adj' = [adj EXCEPT ![cur] = Target]
               /\ mark' = [mark EXCEPT ![cur] = "biased"]
      <3>1. DOMAIN adj = Procs /\ DOMAIN mark = Procs
        BY DEF IInv, TypeOK
      <3>2. QED
        BY <1>1, <2>1, <2>3, <3>1 DEF Same, Taken
    <2>4. QED
      BY <2>2, <2>3 DEF BiasWrite
  <1>3. Quiet
    BY <1>2 DEF Quiet, BiasWrite, processVars
  <1>4. \A p \in Procs : Taken(p) => p = cur /\ p \in Alive
    BY <1>2 DEF Same, Taken
  <1>5. ledger' = ledger /\ View' = View /\ View = mem
    BY <1>1 DEF BiasWrite, View
  <1>6. ProcInv' /\ Sound(ledger)' /\ Sound(View)'
    BY <1>1, <1>3, <1>4, <1>5, QuietStep DEF IInv
  <1>7. Heirs' \subseteq Heirs /\ \A p \in Procs : Above(p)' = Above(p) /\ Born(p)' = Born(p)
    BY <1>3, QuietProcs DEF IInv
  <1>8. ASSUME NEW p \in Heirs' PROVE SeenOrNew(p)'
    <2>1. SeenOrNew(p) /\ p \in Procs
      BY <1>1, <1>7 DEF IInv, PassInv, Heirs, Alive
    <2>2. \A a \in Procs : mark[a] = "biased" => mark'[a] = "biased"
      BY <1>2 DEF Same, Taken
    <2>3. QED
      BY <1>7, <2>1, <2>2 DEF SeenOrNew, BiasWrite, processVars
  <1>9. PassInv'
    BY <1>7, <1>8 DEF BiasWrite, IInv, PassInv, InWrite
  <1>10. QED
    BY <1>6, <1>9 DEF IInv

LEMMA QuietBoth ==
  ASSUME TypeOK, ProcInv, Quiet, Sound(ledger), Sound(View), ~\E p \in Procs : Taken(p),
         NEW m, m = ledger \/ m = View
  PROVE  Sound(m)'
  <1>1. Sound(m)
    BY SoundOf
  <1>2. QED
    BY <1>1, QuietSound

(* Dropping records that hold nobody alive. *)
LEMMA KeptSound ==
  ASSUME TypeOK, TypeOK', ProcInv, Quiet, ~\E p \in Procs : Taken(p),
         NEW m, NEW n \in Records, Sound(m),
         \A i \in Pids : n.biased[i] \in {m.biased[i], NoRoot} /\ n.known[i] \subseteq m.known[i],
         \A p \in Procs : n.pending[p] \in {m.pending[p], NoDebt},
         \A a \in Alive : Holds(m, a) => n.biased[PidOf[a]] = m.biased[PidOf[a]],
         \A q \in Alive : n.pending[q] = m.pending[q]
  PROVE  Sound(n)'
  <1>1. Sound(m)'
    BY QuietSound
  <1>2. /\ Heirs' \subseteq Heirs /\ Alive' = Alive
        /\ \A p \in Procs : Above(p)' = Above(p)
    BY QuietProcs
  <1>3. RecordInv(n)'
    <2>1. RecordInv(m)'
      BY <1>1 DEF Sound
    <2>2. \A i \in Pids : KnownOK(n, i)'
      BY <2>1 DEF RecordInv, KnownOK
    <2>3. QED
      BY <2>1, <2>2, Fewer
  <1>4. ASSUME NEW a \in Alive, Holds(m, a) PROVE Holds(n, a)'
    <2>1. a \in Procs /\ Holds(m, a)'
      BY <1>4, QuietHolds DEF Alive
    <2>2. QED
      BY <1>4, <2>1 DEF Holds
  <1>5. OwesAll(n)'
    <2>1. SUFFICES ASSUME NEW p \in Heirs', n.pending[p] = NoDebt
                   PROVE  HasRoot(n, p)'
      BY DEF OwesAll
    <2>2. p \in Alive /\ p \in Procs /\ p \in Heirs
      BY <1>2 DEF Heirs, Alive
    <2>3. HasRoot(m, p)
      BY <2>1, <2>2 DEF Sound, OwesAll
    <2>4. PICK a \in Above(p) : Holds(m, a) \/ \E q \in Above(p) : m.pending[q].root = PidOf[a]
      BY <2>3 DEF HasRoot
    <2>5. Above(p) \subseteq Alive /\ Above(p)' = Above(p)
      BY <1>2, <2>2, AboveAlive
    <2>6. CASE Holds(m, a)
      BY <1>4, <2>4, <2>5, <2>6 DEF HasRoot
    <2>7. CASE \E q \in Above(p) : m.pending[q].root = PidOf[a]
      BY <2>4, <2>5, <2>7 DEF HasRoot
    <2>8. QED
      BY <2>4, <2>6, <2>7
  <1>6. BiasedAll(n)'
    <2>1. SUFFICES ASSUME NEW p \in Alive', mark'[p] = "biased"
                   PROVE  BiasedIn(n, p)'
      BY DEF BiasedAll
    <2>2. p \in Alive /\ p \in Procs
      BY <1>2, <2>1 DEF Alive
    <2>3. mark[p] = "biased" /\ adj[p] = Target
      BY <2>1, <2>2 DEF Quiet, Same, GivenBack, ProcInv
    <2>4. BiasedIn(m, p)' /\ BiasedIn(m, p)
      BY <1>1, <2>1, <2>2, <2>3 DEF Sound, BiasedAll
    <2>5. n.biased[PidOf[p]] = m.biased[PidOf[p]]
      BY <2>2, <2>3, <2>4 DEF Holds, BiasedIn
    <2>6. QED
      BY <2>4, <2>5 DEF BiasedIn
  <1>7. QED
    BY <1>3, <1>5, <1>6 DEF Sound, Records, Values, Pids

LEMMA DiesKeeps ==
  ASSUME IInv, TypeOK', GuardDies
  PROVE  IInv'
  <1>1. Quiet /\ ~\E p \in Procs : Taken(p)
    BY NothingTaken DEF GuardDies, processVars
  <1>2. ledger' = ledger /\ View' = ledger
    BY DEF GuardDies, View
  <1>3. ASSUME NEW n, n = ledger
        PROVE  ProcInv' /\ Sound(ledger)' /\ Sound(View)'
    <2>1. Sound(n)'
      BY <1>1, <1>3, QuietBoth DEF IInv
    <2>2. QED
      BY <1>1, <1>2, <1>3, <2>1, QuietNew DEF IInv
  <1>4. PassInv'
    BY DEF GuardDies, PassInv, InWrite, NoSample
  <1>5. QED
    BY <1>3, <1>4 DEF IInv

LEMMA HydrateKeeps ==
  ASSUME IInv, TypeOK', Hydrate
  PROVE  IInv'
  <1>1. Quiet /\ ~\E p \in Procs : Taken(p)
    BY NothingTaken DEF Hydrate, processVars
  <1>2. ledger' = ledger /\ mem' = Hydrated /\ View' = Hydrated
    BY DEF Hydrate, View, Hydrated
  <1>3. ASSUME NEW m, m = ledger, NEW n, n = Hydrated
        PROVE  Sound(n)'
    <2>1. Sound(m)
      BY <1>3, SoundOf DEF IInv
    <2>2. /\ n \in Records /\ n.known = m.known
          /\ \A i \in Pids : n.biased[i] = IF Match(m.biased[i].proc) THEN m.biased[i] ELSE NoRoot
          /\ \A p \in Procs : n.pending[p] = IF p \in Alive THEN m.pending[p] ELSE NoDebt
      BY <1>3, HydratedMade DEF IInv
    <2>3. \A a \in Alive : a \in Procs /\ PidOf[a] \in Pids
      BY Constants DEF Alive
    <2>4. \A a \in Alive : Holds(m, a) => n.biased[PidOf[a]] = m.biased[PidOf[a]]
      BY <2>2, <2>3 DEF Holds, Match
    <2>5. QED
      BY <1>1, <2>1, <2>2, <2>3, <2>4, KeptSound DEF IInv
  <1>4. ASSUME NEW n, n = Hydrated
        PROVE  ProcInv' /\ Sound(ledger)' /\ Sound(View)'
    <2>1. Sound(n)'
      BY <1>3, <1>4
    <2>2. QED
      BY <1>1, <1>2, <1>4, <2>1, QuietNew DEF IInv
  <1>5. PassInv'
    BY DEF Hydrate, processVars, passVars, IInv, PassInv, InWrite, Born
  <1>6. QED
    BY <1>4, <1>5 DEF IInv

LEMMA EndKeeps ==
  ASSUME ~Torn, IInv, TypeOK', PassEnd
  PROVE  IInv'
  <1>1. Quiet /\ ~\E p \in Procs : Taken(p)
    BY NothingTaken DEF PassEnd, processVars
  <1>2. /\ View = mem /\ View' = mem' /\ mem \in Records
        /\ mem' = IF mode = "restore" THEN mem ELSE Pruned(mem)
    BY DEF PassEnd, View, IInv, TypeOK
  <1>3. ASSUME NEW m, m = mem, NEW n, n = mem'
        PROVE  Sound(n)'
    <2>1. Sound(m) /\ m \in Records
      BY <1>2, <1>3, SoundOf DEF IInv
    <2>2. CASE mode = "restore"
      <3>1. n = View
        BY <1>2, <1>3, <2>2
      <3>2. QED
        BY <1>1, <3>1, QuietBoth DEF IInv
    <2>3. CASE mode # "restore"
      <3>1. n = Pruned(m)
        BY <1>2, <1>3, <2>3
      <3>2. /\ n \in Records /\ n.pending = m.pending
            /\ \A j \in Pids :
                 /\ n.biased[j] \in {m.biased[j], NoRoot}
                 /\ Match(m.biased[j].proc) => n.biased[j] = m.biased[j]
                 /\ n.known[j] \subseteq m.known[j]
        BY <2>1, <3>1, PrunedMade
      <3>3. \A a \in Alive : a \in Procs /\ PidOf[a] \in Pids
        BY Constants DEF Alive
      <3>4. \A a \in Alive : Holds(m, a) => n.biased[PidOf[a]] = m.biased[PidOf[a]]
        BY <3>2, <3>3 DEF Holds, Match
      <3>5. QED
        BY <1>1, <2>1, <3>2, <3>4, KeptSound DEF IInv
    <2>4. QED
      BY <2>2, <2>3
  <1>4. /\ ledger' \in {ledger, mem'}
        /\ last' = Never \/ last' = ledger'
    <2>1. mem' \in Records
      BY DEF TypeOK
    <2>2. QED
      BY <2>1, Persists DEF IInv, PassInv, PassEnd
  <1>5. ASSUME NEW n, n = mem'
        PROVE  ProcInv' /\ Sound(ledger)' /\ Sound(View)'
    <2>1. Sound(n)'
      BY <1>3, <1>5
    <2>2. QED
      BY <1>1, <1>2, <1>4, <1>5, <2>1, QuietNew DEF IInv
  <1>6. PassInv'
    BY <1>4 DEF PassEnd, PassInv, InWrite, NoSample
  <1>7. QED
    BY <1>5, <1>6 DEF IInv

LEMMA ReloadKeeps ==
  ASSUME IInv, TypeOK', ReloadEnd
  PROVE  IInv'
  <1>1. Quiet /\ ~\E p \in Procs : Taken(p)
    BY NothingTaken DEF ReloadEnd, processVars
  <1>2. ledger' = ledger /\ View = mem /\ View' = mem'
    BY DEF ReloadEnd, View
  <1>3. ASSUME mem' = NoRecords, Recorded(mem) \cup Indebted(mem) = {}
        PROVE  ProcInv' /\ Sound(ledger)' /\ Sound(View)'
    <2>1. ASSUME NEW m, m = mem, NEW n, n = NoRecords
          PROVE  Sound(n)'
      <3>1. Sound(m) /\ Recorded(m) = {} /\ Indebted(m) = {}
        BY <1>2, <1>3, <2>1, SoundOf DEF IInv, Recorded, Indebted
      <3>2. \A i \in Pids : m.biased[i] = NoRoot
        BY <3>1 DEF Recorded
      <3>3. \A p \in Procs : m.pending[p] = NoDebt
        BY <3>1 DEF Indebted
      <3>4. \A a \in Alive : ~Holds(m, a)
        BY <3>2, Nothing, Constants DEF Holds, Alive
      <3>5. /\ n \in Records
            /\ \A i \in Pids : n.biased[i] = NoRoot /\ n.known[i] = {}
            /\ \A p \in Procs : n.pending[p] = NoDebt
        BY <2>1, Nothing
      <3>6. /\ \A i \in Pids : n.biased[i] \in {m.biased[i], NoRoot} /\ n.known[i] \subseteq m.known[i]
            /\ \A p \in Procs : n.pending[p] \in {m.pending[p], NoDebt}
            /\ \A a \in Alive : Holds(m, a) => n.biased[PidOf[a]] = m.biased[PidOf[a]]
        BY <3>4, <3>5
      <3>7. \A q \in Alive : n.pending[q] = m.pending[q]
        BY <3>3, <3>5 DEF Alive
      <3>8. QED
        BY <1>1, <3>1, <3>5, <3>6, <3>7, KeptSound DEF IInv
    <2>2. ASSUME NEW n, n = NoRecords
          PROVE  ProcInv' /\ Sound(ledger)' /\ Sound(View)'
      BY <1>1, <1>2, <1>3, <2>1, <2>2, QuietNew DEF IInv
    <2>3. QED
      BY <2>2
  <1>4. ASSUME mem' = mem
        PROVE  ProcInv' /\ Sound(ledger)' /\ Sound(View)'
    BY <1>1, <1>2, <1>4, QuietStep DEF IInv
  <1>5. ProcInv' /\ Sound(ledger)' /\ Sound(View)'
    BY <1>3, <1>4 DEF ReloadEnd
  <1>6. PassInv'
    BY DEF ReloadEnd, IInv, PassInv, InWrite, NoSample
  <1>7. QED
    BY <1>5, <1>6 DEF IInv

LEMMA DropStaleKeeps ==
  ASSUME IInv, TypeOK', NEW p \in Procs, BiasDropStale(p)
  PROVE  IInv'
  <1>1. Quiet /\ ~\E q \in Procs : Taken(q)
    BY NothingTaken DEF BiasDropStale, processVars
  <1>2. /\ ledger' = ledger /\ View = mem /\ View' = mem' /\ mem \in Records
        /\ mem' = [mem EXCEPT !.biased[PidOf[p]] = NoRoot]
    BY DEF BiasDropStale, BiasCandidate, View, IInv, TypeOK
  <1>3. p \in Alive /\ adj[p] # Target /\ ~CanBias(adj[p])
    BY DEF BiasDropStale, BiasCandidate
  <1>4. ASSUME NEW m, m = mem, NEW n, n = mem'
        PROVE  Sound(n)'
    <2>1. Sound(m) /\ m \in Records
      BY <1>2, <1>4, SoundOf DEF IInv
    <2>2. n = [m EXCEPT !.biased[PidOf[p]] = NoRoot]
      BY <1>2, <1>4
    <2>3. /\ n \in Records /\ n.known = m.known /\ n.pending = m.pending
          /\ \A j \in Pids : n.biased[j] = IF j = PidOf[p] THEN NoRoot ELSE m.biased[j]
      BY <2>1, <2>2, DropMade, Constants
    <2>4. \A a \in Alive : Holds(m, a) => n.biased[PidOf[a]] = m.biased[PidOf[a]]
      <3>1. SUFFICES ASSUME NEW a \in Alive, Holds(m, a)
                     PROVE  n.biased[PidOf[a]] = m.biased[PidOf[a]]
        OBVIOUS
      <3>2. a \in Procs /\ PidOf[a] \in Pids /\ a # p
        BY <1>3, <3>1, Constants DEF Holds, Alive
      <3>3. PidOf[a] # PidOf[p]
        BY <1>3, <3>2 DEF IInv, ProcInv
      <3>4. QED
        BY <2>3, <3>2, <3>3
    <2>5. QED
      BY <1>1, <2>1, <2>3, <2>4, KeptSound DEF IInv
  <1>5. ASSUME NEW n, n = mem'
        PROVE  ProcInv' /\ Sound(ledger)' /\ Sound(View)'
    <2>1. Sound(n)'
      BY <1>4, <1>5
    <2>2. QED
      BY <1>1, <1>2, <1>5, <2>1, QuietNew DEF IInv
  <1>6. PassInv'
    <2>1. Heirs' = Heirs /\ \A q \in Procs : Above(q)' = Above(q) /\ Born(q)' = Born(q)
      BY DEF BiasDropStale, processVars, Heirs, Alive, Above, Born
    <2>2. Heirs \subseteq Procs
      BY DEF Heirs, Alive
    <2>3. pc = "apply" /\ UNCHANGED <<ledger, last, pc, passVars, processVars, mark>>
      BY DEF BiasDropStale, BiasCandidate
    <2>4. \A q \in Heirs' : SeenOrNew(q)'
      BY <2>1, <2>2, <2>3 DEF IInv, PassInv, SeenOrNew, passVars, processVars
    <2>5. QED
      BY <2>1, <2>3, <2>4 DEF IInv, PassInv, InWrite, passVars
  <1>7. QED
    BY <1>5, <1>6 DEF IInv

LEMMA SettledKeeps ==
  ASSUME ~Torn, IInv, TypeOK', SweepSettled
  PROVE  IInv'
  <1>1. Quiet /\ ~\E p \in Procs : Taken(p)
    BY NothingTaken DEF SweepSettled, processVars
  <1>2. View = mem /\ View' = mem' /\ mem' = mem /\ mem \in Records
    BY DEF SweepSettled, View, IInv, TypeOK
  <1>3. /\ ledger' \in {ledger, mem'}
        /\ last' = Never \/ last' = ledger'
    BY <1>2, Persists DEF IInv, PassInv, SweepSettled
  <1>4. ASSUME NEW n, n = mem'
        PROVE  ProcInv' /\ Sound(ledger)' /\ Sound(View)'
    <2>1. Sound(n)'
      BY <1>1, <1>2, <1>4, QuietBoth DEF IInv
    <2>2. QED
      BY <1>1, <1>2, <1>3, <1>4, <2>1, QuietNew DEF IInv
  <1>5. PassInv'
    <2>1. Heirs' = Heirs /\ \A q \in Procs : Born(q)' = Born(q)
      BY DEF SweepSettled, processVars, Heirs, Alive, Born
    <2>2. \A q \in Heirs' : OwedOrNew(q)'
      BY <1>2, <2>1 DEF IInv, PassInv, OwedOrNew, Holds, SweepSettled, passVars, processVars
    <2>3. QED
      BY <1>3, <2>1, <2>2 DEF IInv, PassInv, InWrite, SweepSettled, passVars
  <1>6. QED
    BY <1>4, <1>5 DEF IInv

(* Giving back a value the guard may give is quiet. *)
LEMMA RestoreIsQuiet ==
  ASSUME TypeOK, ProcInv, NEW p \in Alive, NEW v, CanBias(v), RestoreAdj(p, v),
         UNCHANGED <<life, parent, late>>
  PROVE  /\ Quiet /\ ~\E q \in Procs : Taken(q)
         /\ mark'[p] = "own" \/ mark'[p] = mark[p]
         /\ mark[p] # "own" => mark'[p] = "own"
         /\ p \notin Heirs'
  <1>1. p \in Procs
    BY DEF Alive
  <1>2. CASE adj[p] = Target
    <2>1. /\ adj' = [adj EXCEPT ![p] = v] /\ base' = [base EXCEPT ![p] = v]
          /\ mark' = [mark EXCEPT ![p] = "own"]
      BY <1>2 DEF RestoreAdj
    <2>2. DOMAIN adj = Procs /\ DOMAIN base = Procs /\ DOMAIN mark = Procs
      BY DEF TypeOK
    <2>3. mark'[p] = "own" /\ adj'[p] = v /\ base'[p] = v /\ p \in Alive
      BY <1>1, <2>1, <2>2
    <2>4. \A q \in Procs : q # p => Same(q)
      BY <2>1, <2>2 DEF Same
    <2>5. GivenBack(p)
      BY <2>3 DEF GivenBack
    <2>6. ~\E q \in Procs : Taken(q)
      BY <2>3, <2>4 DEF Taken, Same
    <2>7. Quiet
      BY <2>4, <2>5 DEF Quiet
    <2>8. QED
      BY <2>3, <2>6, <2>7 DEF Heirs
  <1>3. CASE adj[p] # Target
    <2>1. UNCHANGED <<adj, mark, base>>
      BY <1>3 DEF RestoreAdj
    <2>2. Quiet /\ ~\E q \in Procs : Taken(q)
      BY <2>1, NothingTaken
    <2>3. mark[p] = "own"
      BY <1>3 DEF ProcInv
    <2>4. QED
      BY <2>1, <2>2, <2>3 DEF Heirs
  <1>4. QED
    BY <1>2, <1>3

LEMMA BiasedStay ==
  ASSUME TypeOK, ProcInv, Quiet, ~\E p \in Procs : Taken(p), NEW m, NEW n, Sound(m),
         \A p \in Alive : mark'[p] = "biased" /\ m.biased[PidOf[p]].proc = p
                            => n.biased[PidOf[p]] = m.biased[PidOf[p]]
  PROVE  BiasedAll(n)'
  <1>1. SUFFICES ASSUME NEW p \in Alive', mark'[p] = "biased"
                 PROVE  BiasedIn(n, p)'
    BY DEF BiasedAll
  <1>2. p \in Alive
    BY <1>1, QuietProcs
  <1>3. BiasedIn(m, p)'
    BY <1>1, QuietSound DEF Sound, BiasedAll
  <1>4. QED
    BY <1>1, <1>2, <1>3 DEF BiasedIn

LEMMA RestoreKeeps ==
  ASSUME IInv, TypeOK', NEW p \in Procs, RestorePending(p)
  PROVE  IInv'
  <1>1. /\ ledger' = ledger /\ View = mem /\ View' = mem' /\ mem \in Records
        /\ pc = "restore" /\ pc' = "restore" /\ mem.pending[p] # NoDebt
        /\ UNCHANGED <<life, parent, late, last, mode, sampled, cur>>
    BY DEF RestorePending, View, IInv, TypeOK, Indebted, passVars
  <1>2. Sound(mem)
    BY <1>1 DEF IInv
  <1>3. CanBias(mem.pending[p].orig) /\ Born(p)
    BY <1>1, <1>2 DEF Sound, RecordInv, DebtOK
  <1>4. Quiet /\ (~\E q \in Procs : Taken(q)) /\ p \notin Heirs'
    <2>1. CASE p \in Alive
      BY <1>1, <1>3, <2>1, RestoreIsQuiet DEF RestorePending, IInv
    <2>2. CASE p \notin Alive
      <3>1. UNCHANGED <<adj, mark, base>>
        BY <2>2 DEF RestorePending
      <3>2. QED
        BY <1>1, <2>2, <3>1, NothingTaken DEF Heirs, Alive
    <2>3. QED
      BY <2>1, <2>2
  <1>5. /\ mem'.biased = mem.biased
        /\ \A q \in Procs : mem'.pending[q] = IF q = p THEN NoDebt ELSE mem.pending[q]
        /\ \A j \in Pids : mem'.known[j] \subseteq mem.known[j] \cup {p}
    <2>1. mem' = Written(mem, p) \/ mem' = WrittenBelow(mem, p, mem.pending[p].root)
      BY DEF RestorePending, Written, WrittenBelow
    <2>2. mem' \in Records /\ mem'.biased = mem.biased
      BY <1>1, <2>1, SettledMade
    <2>3. ASSUME NEW q \in Procs
          PROVE  mem'.pending[q] = IF q = p THEN NoDebt ELSE mem.pending[q]
      BY <1>1, <2>1, SettledMade
    <2>4. ASSUME NEW j \in Pids
          PROVE  mem'.known[j] \subseteq mem.known[j] \cup {p}
      BY <1>1, <2>1, SettledMade
    <2>5. QED
      BY <2>2, <2>3, <2>4
  <1>6. Heirs' \subseteq Heirs /\ \A q \in Procs : Above(q)' = Above(q) /\ Born(q)' = Born(q)
    BY <1>4, QuietProcs DEF IInv
  <1>7. ASSUME NEW q \in Heirs'
        PROVE  /\ q \in Procs /\ q # p
               /\ \/ mem.pending[q] # NoDebt
                  \/ /\ mode = "critical" /\ parent[q] \in Procs
                     /\ Holds(mem, parent[q])
    BY <1>1, <1>4, <1>6 DEF IInv, PassInv, OwedOrNew, Heirs, Alive
  <1>8. ASSUME NEW m, m = mem, NEW n, n = mem'
        PROVE  Sound(n)'
    <2>1. /\ Sound(m) /\ n \in Records /\ n.biased = m.biased
          /\ \A q \in Procs : n.pending[q] = IF q = p THEN NoDebt ELSE m.pending[q]
          /\ \A j \in Pids : n.known[j] \subseteq m.known[j] \cup {p}
      <3>1. Sound(m)
        BY <1>1, <1>8, SoundOf DEF IInv
      <3>2. n \in Records
        BY <1>8 DEF TypeOK, Records, Values, Pids
      <3>3. QED
        BY <1>5, <1>8, <3>1, <3>2
    <2>2. Sound(m)'
      BY <1>4, <2>1, QuietSound DEF IInv
    <2>3. RecordInv(n)'
      <3>1. \A j \in Pids : KnownOK(n, j)'
        BY <1>3, <1>4, <1>6, <2>1, <2>2 DEF Sound, RecordInv, KnownOK
      <3>2. QED
        BY <2>1, <2>2, <3>1, Fewer DEF Sound
    <2>4. OwesAll(n)'
      <3>1. SUFFICES ASSUME NEW q \in Heirs', n.pending[q] = NoDebt
                     PROVE  HasRoot(n, q)'
        BY DEF OwesAll
      <3>2. q \in Procs /\ parent[q] \in Procs /\ Holds(m, parent[q])
        BY <1>7, <1>8, <2>1, <3>1 DEF Holds
      <3>3. Holds(m, parent[q])'
        BY <1>1, <1>4, <3>2, QuietHolds
      <3>4. Holds(n, parent[q])'
        BY <2>1, <3>3 DEF Holds
      <3>5. parent[q] \in Above(q)'
        BY <1>6, <3>2, AboveIsClosed DEF Above
      <3>6. QED
        BY <1>1, <3>4, <3>5 DEF HasRoot
    <2>5. BiasedAll(n)'
      BY <1>4, <2>1, BiasedStay DEF IInv
    <2>6. QED
      BY <2>1, <2>3, <2>4, <2>5 DEF Sound, Records, Values, Pids
  <1>9. ASSUME NEW n, n = mem'
        PROVE  ProcInv' /\ Sound(ledger)' /\ Sound(View)'
    BY <1>1, <1>4, <1>8, <1>9, QuietNew DEF IInv
  <1>10. PassInv'
    <2>1. ASSUME NEW q \in Heirs' PROVE OwedOrNew(q)'
      <3>1. CASE mem.pending[q] # NoDebt
        BY <1>5, <1>7, <3>1 DEF OwedOrNew
      <3>2. CASE mode = "critical" /\ parent[q] \in Procs /\ Holds(mem, parent[q])
        <4>1. ASSUME NEW m, m = mem PROVE Holds(mem, parent[q])'
          <5>1. Holds(m, parent[q])'
            BY <1>1, <1>4, <3>2, <4>1, QuietHolds DEF Holds
          <5>2. QED
            BY <1>5, <4>1, <5>1 DEF Holds
        <4>2. QED
          BY <1>1, <3>2, <4>1 DEF OwedOrNew
      <3>3. QED
        BY <1>7, <3>1, <3>2
    <2>2. QED
      BY <1>1, <1>6, <2>1 DEF IInv, PassInv, InWrite
  <1>11. QED
    BY <1>9, <1>10 DEF IInv

LEMMA ReleaseKeeps ==
  ASSUME IInv, TypeOK', NEW i \in Pids, ReleaseRoot(i)
  PROVE  IInv'
  <1> DEFINE root == mem.biased[i]
  <1>1. /\ ledger' = ledger /\ View = mem /\ View' = mem' /\ mem \in Records
        /\ pc = "release" /\ pc' = "release" /\ mode \in Releasing /\ root # NoRoot
        /\ mem' = RemoveBias(mem, i)
        /\ UNCHANGED <<life, parent, late, last, mode, sampled, cur>>
    BY DEF ReleaseRoot, View, IInv, TypeOK, Recorded, passVars
  <1>2. CanBias(root.orig)
    BY <1>1 DEF IInv, Sound, RecordInv, RecordOK
  <1>3. Quiet /\ ~\E q \in Procs : Taken(q)
    <2>1. CASE Match(root.proc)
      BY <1>1, <1>2, <2>1, RestoreIsQuiet DEF ReleaseRoot, IInv, Match
    <2>2. CASE ~Match(root.proc)
      <3>1. UNCHANGED <<adj, mark, base>>
        BY <2>2 DEF ReleaseRoot
      <3>2. QED
        BY <1>1, <3>1, NothingTaken
    <2>3. QED
      BY <2>1, <2>2
  <1>4. /\ mem'.pending = mem.pending
        /\ \A j \in Pids : /\ mem'.biased[j] = IF j = i THEN NoRoot ELSE mem.biased[j]
                           /\ mem'.known[j] \subseteq mem.known[j]
    BY <1>1, RemoveBiasMade
  <1>5. /\ Heirs' \subseteq Heirs /\ Alive' = Alive
        /\ \A q \in Procs : Above(q)' = Above(q) /\ Born(q)' = Born(q)
    BY <1>3, QuietProcs DEF IInv
  <1>6. \A q \in Heirs' : q \in Procs /\ mem.pending[q] # NoDebt
    BY <1>1, <1>5 DEF IInv, PassInv, OwedOrNew, Releasing, Heirs, Alive
  <1>7. \A q \in Alive : mark'[q] = "biased" /\ mem.biased[PidOf[q]].proc = q => PidOf[q] # i
    <2>1. SUFFICES ASSUME NEW q \in Alive, mark'[q] = "biased", root.proc = q
                   PROVE  FALSE
      OBVIOUS
    <2>2. mark[q] = "biased"
      BY <1>3, <2>1 DEF Quiet, Same, GivenBack, Alive
    <2>3. RestoreAdj(q, root.orig)
      BY <2>1 DEF ReleaseRoot, Match
    <2>4. mark'[q] = "own"
      BY <1>1, <1>2, <2>2, <2>3, RestoreIsQuiet DEF IInv
    <2>5. QED
      BY <2>1, <2>4
  <1>8. ASSUME NEW m, m = mem, NEW n, n = mem'
        PROVE  Sound(n)'
    <2>1. /\ Sound(m) /\ n \in Records /\ n.pending = m.pending
          /\ \A j \in Pids : /\ n.biased[j] = IF j = i THEN NoRoot ELSE m.biased[j]
                             /\ n.known[j] \subseteq m.known[j]
      <3>1. Sound(m)
        BY <1>1, <1>8, SoundOf DEF IInv
      <3>2. n \in Records
        BY <1>8 DEF TypeOK, Records, Values, Pids
      <3>3. QED
        BY <1>4, <1>8, <3>1, <3>2
    <2>2. Sound(m)'
      BY <1>3, <2>1, QuietSound DEF IInv
    <2>3. RecordInv(n)'
      <3>1. \A j \in Pids : KnownOK(n, j)'
        BY <2>1, <2>2 DEF Sound, RecordInv, KnownOK
      <3>2. QED
        BY <2>1, <2>2, <3>1, Fewer DEF Sound
    <2>4. OwesAll(n)'
      BY <1>6, <1>8, <2>1 DEF OwesAll
    <2>5. \A q \in Alive : q \in Procs /\ PidOf[q] \in Pids
      BY Constants DEF Alive
    <2>6. BiasedAll(n)'
      BY <1>3, <1>7, <1>8, <2>1, <2>5, BiasedStay DEF IInv
    <2>7. QED
      BY <2>1, <2>3, <2>4, <2>6 DEF Sound, Records, Values, Pids
  <1>9. ASSUME NEW n, n = mem'
        PROVE  ProcInv' /\ Sound(ledger)' /\ Sound(View)'
    BY <1>1, <1>3, <1>8, <1>9, QuietNew DEF IInv
  <1>10. PassInv'
    BY <1>1, <1>4, <1>5, <1>6 DEF IInv, PassInv, InWrite, OwedOrNew
  <1>11. QED
    BY <1>9, <1>10 DEF IInv

(* What hangs below a root that is held finds a root to be swept for. *)
LEMMA RootSwept ==
  ASSUME TypeOK, ProcInv, NEW m, NEW p \in Procs, HasRoot(m, p)
  PROVE  \E a \in Above(p) : PidOf[a] \in SweepRoots(m)
  <1>1. PICK a \in Above(p) : Holds(m, a) \/ \E q \in Above(p) : m.pending[q].root = PidOf[a]
    BY DEF HasRoot
  <1>2. Above(p) \subseteq Alive
    BY AboveAlive
  <1>3. a \in Alive /\ a \in Procs /\ PidOf[a] \in Pids
    BY <1>1, <1>2, Constants DEF Alive
  <1>4. RootValues(m, PidOf[a]) # {}
    <2>1. CASE Holds(m, a)
      <3>1. m.biased[PidOf[a]].proc = a
        BY <2>1 DEF Holds
      <3>2. PidOf[a] \in Recorded(m)
        BY <1>3, <3>1, Nothing, Constants DEF Recorded
      <3>3. Match(m.biased[PidOf[a]].proc)
        BY <1>3, <3>1 DEF Match
      <3>4. QED
        BY <3>2, <3>3 DEF RootValues
    <2>2. CASE \E q \in Above(p) : m.pending[q].root = PidOf[a]
      <3>1. PICK q \in Above(p) : m.pending[q].root = PidOf[a]
        BY <2>2
      <3>2. q \in Procs /\ m.pending[q] # NoDebt
        BY <1>2, <1>3, <3>1, Nothing, Constants DEF Alive
      <3>3. q \in Indebted(m)
        BY <3>2 DEF Indebted
      <3>4. QED
        BY <3>1, <3>3 DEF RootValues
    <2>3. QED
      BY <1>1, <2>1, <2>2
  <1>5. QED
    BY <1>1, <1>3, <1>4 DEF SweepRoots

LEMMA RootValuesAre ==
  ASSUME NEW m, RecordInv(m), NEW i \in Pids, NEW v \in RootValues(m, i)
  PROVE  v \in Values /\ CanBias(v)
  <1>1. CASE v = m.biased[i].orig /\ i \in Recorded(m)
    BY <1>1 DEF RecordInv, RecordOK, Recorded
  <1>2. CASE \E p \in Indebted(m) : v = m.pending[p].orig
    BY <1>2 DEF RecordInv, DebtOK, Indebted
  <1>3. QED
    BY <1>1, <1>2 DEF RootValues

(* The snapshot shows of an heir what is above it. *)
LEMMA SeenAbove ==
  ASSUME NEW p \in Procs, SeenOrNew(p), sampled[p] # Absent
  PROVE  Ancestors(sampled, p) = Above(p)
  BY AboveFrame DEF SeenOrNew, Above

LEMMA SweepFinds ==
  ASSUME IInv, pc = "apply", NEW p \in Heirs
  PROVE  \/ p \in NewDebts({}) \/ mem.pending[p] # NoDebt
         \/ /\ mode = "critical" /\ parent[p] \in Procs
            /\ Holds(mem, parent[p])
  <1>1. p \in Procs /\ p \in Alive /\ SeenOrNew(p) /\ Sound(mem) /\ PidOf[p] \in Pids
    BY Constants DEF Heirs, Alive, IInv, PassInv, View
  <1>2. CASE sampled[p] = Absent
    <2>1. mode = "critical" /\ parent[p] \in Procs /\ mark[parent[p]] = "biased"
      BY <1>1, <1>2 DEF SeenOrNew
    <2>2. parent[p] \in Alive /\ adj[parent[p]] = Target
      BY <1>1, <2>1 DEF IInv, ProcInv
    <2>3. Holds(mem, parent[p])
      BY <1>1, <2>1, <2>2 DEF Sound, BiasedAll, BiasedIn, Holds
    <2>4. QED
      BY <2>1, <2>3
  <1>3. CASE sampled[p] # Absent /\ mem.pending[p] = NoDebt
    <2>1. HasRoot(mem, p)
      BY <1>1, <1>3 DEF Sound, OwesAll
    <2>2. PICK a \in Above(p) : PidOf[a] \in SweepRoots(mem)
      BY <1>1, <2>1, RootSwept DEF IInv
    <2>3. Ancestors(sampled, p) = Above(p)
      BY <1>1, <1>3, SeenAbove
    <2> DEFINE i == NearestRoot(sampled, p, SweepRoots(mem))
    <2>4. i # Init1 /\ i \in SweepRoots(mem)
      BY <1>1, <2>2, <2>3, NearestFinds, NearestIs
    <2>5. i \in Pids
      BY <2>4 DEF SweepRoots
    <2>6. p \notin mem.known[i]
      BY <1>1, <2>5 DEF Sound, RecordInv, KnownOK
    <2>7. PidOf[p] \notin Recorded(mem)
      BY <1>1 DEF Sound, RecordInv, HeirOK, Recorded
    <2>8. p \in NewDebts({})
      BY <1>1, <1>3, <2>4, <2>6, <2>7 DEF NewDebts
    <2>9. QED
      BY <2>8
  <1>4. QED
    BY <1>2, <1>3

(* Who is passed over is not a debt; an heir who is passed over is held to be late. *)
LEMMA DebtsLess ==
  ASSUME NEW spared, Heirs' \subseteq Heirs, late' = late \cup Ambiguous \cup Skipped(spared)
  PROVE  /\ NewDebts(spared) \subseteq NewDebts({})
         /\ \A p \in Heirs' : p \in NewDebts({}) => p \in NewDebts(spared)
  <1>1. NewDebts(spared) = NewDebts({}) \ spared
    BY DEF NewDebts
  <1>2. ASSUME NEW p \in Heirs', p \in spared PROVE FALSE
    <2>1. p \in Heirs
      BY <1>2
    <2>2. mark[p] = "inherited"
      BY <2>1 DEF Heirs
    <2>3. p \in late'
      BY <1>2, <2>2 DEF Skipped
    <2>4. QED
      BY <1>2, <2>3 DEF Heirs
  <1>3. QED
    BY <1>1, <1>2

LEMMA SweepKeeps ==
  ASSUME ~Torn, IInv, TypeOK', Sweep
  PROVE  IInv'
  <1>1. /\ pc = "apply" /\ View = mem /\ View' = mem' /\ mem \in Records /\ mem' \in Records
        /\ pc' \in {"restore", "release"} /\ sampled' = NoSample
        /\ UNCHANGED <<life, parent, adj, base, mark, mode, cur>> /\ late \subseteq late'
    BY DEF Sweep, View, IInv, TypeOK, processVars
  <1>2. PICK spared, value :
          /\ \A i \in SweepRoots(mem) : value[i] \in RootValues(mem, i)
          /\ mem' = Swept(value, spared)
          /\ late' = late \cup Ambiguous \cup Skipped(spared)
    BY DEF Sweep
  <1>3. Quiet /\ ~\E q \in Procs : Taken(q)
    BY <1>1, NothingTaken
  <1>4. /\ Heirs' \subseteq Heirs
        /\ \A q \in Procs : Above(q)' = Above(q) /\ Born(q)' = Born(q)
    BY <1>3, QuietProcs DEF IInv
  <1>5. /\ ledger' \in {ledger, mem'}
        /\ last' = Never \/ last' = ledger'
    BY <1>1, Persists DEF IInv, PassInv, Sweep
  <1> DEFINE root(p) == NearestRoot(sampled, p, SweepRoots(mem))
  <1>6. /\ mem'.biased = mem.biased /\ mem'.known = mem.known
        /\ \A p \in Procs : p \notin NewDebts(spared) => mem'.pending[p] = mem.pending[p]
        /\ \A p \in NewDebts(spared) : mem'.pending[p] = [root |-> root(p), orig |-> value[root(p)]]
    BY <1>2, SweptMade DEF IInv
  <1>7. ASSUME NEW p \in NewDebts(spared)
        PROVE  /\ mem'.pending[p] # NoDebt /\ mem.pending[p] = NoDebt
               /\ mem'.pending[p].root \in Pids
               /\ \E h \in Ancestors(sampled, p) : PidOf[h] = mem'.pending[p].root
               /\ mem'.pending[p].orig \in Values /\ CanBias(mem'.pending[p].orig)
               /\ p \in Procs /\ sampled[p] # Absent /\ Born(p)
    <2>1. /\ p \in Procs /\ sampled[p] # Absent /\ root(p) # Init1 /\ mem.pending[p] = NoDebt
          /\ mem'.pending[p].root = root(p) /\ mem'.pending[p].orig = value[root(p)]
      <3>1. p \in Procs /\ sampled[p] # Absent /\ root(p) # Init1 /\ mem.pending[p] = NoDebt
        BY DEF NewDebts
      <3>2. mem'.pending[p].root = root(p) /\ mem'.pending[p].orig = value[root(p)]
        <4> HIDE DEF root
        <4>1. mem'.pending[p] = [root |-> root(p), orig |-> value[root(p)]]
          BY <1>6
        <4>2. QED
          BY <4>1
      <3>3. QED
        BY <3>1, <3>2
    <2>2. root(p) \in SweepRoots(mem) /\ \E h \in Ancestors(sampled, p) : PidOf[h] = root(p)
      BY <2>1, NearestIs
    <2>3. root(p) \in Pids
      BY <2>2 DEF SweepRoots
    <2>4. value[root(p)] \in RootValues(mem, root(p))
      BY <1>2, <2>2
    <2>5. value[root(p)] \in Values /\ CanBias(value[root(p)])
      BY <1>1, <2>3, <2>4, RootValuesAre DEF IInv, Sound
    <2>6. Born(p)
      BY <2>1 DEF IInv, PassInv
    <2>7. QED
      BY <2>1, <2>2, <2>3, <2>5, <2>6, Nothing, Constants
  <1>8. ASSUME NEW m, m = mem, NEW n, n = mem'
        PROVE  Sound(n)'
    <2>1. Sound(m) /\ Sound(m)' /\ n \in Records /\ n.biased = m.biased /\ n.known = m.known
      BY <1>1, <1>3, <1>6, <1>8, QuietBoth, SoundOf DEF IInv, Records, Values, Pids
    <2>2. ASSUME NEW p \in Procs PROVE DebtOK(n, p)'
      <3>1. CASE p \in NewDebts(spared)
        BY <1>4, <1>7, <1>8, <3>1 DEF DebtOK
      <3>2. CASE p \notin NewDebts(spared)
        BY <1>6, <1>8, <2>1, <3>2 DEF Sound, RecordInv, DebtOK
      <3>3. QED
        BY <3>1, <3>2
    <2>3. ASSUME NEW p \in Heirs' PROVE HeirOK(n, p)'
      <3>1. p \in Heirs /\ p \in Procs /\ HeirOK(m, p)' /\ Above(p)' = Above(p)
        BY <1>4, <2>1 DEF Sound, RecordInv, Heirs, Alive
      <3>2. CASE p \in NewDebts(spared)
        <4>1. SeenOrNew(p) /\ sampled[p] # Absent
          BY <1>1, <1>7, <3>1, <3>2 DEF IInv, PassInv
        <4>2. Ancestors(sampled, p) = Above(p)'
          BY <3>1, <4>1, SeenAbove
        <4>3. \E h \in Above(p)' : PidOf[h] = n.pending[p].root
          BY <1>7, <1>8, <3>2, <4>2
        <4>4. QED
          BY <2>1, <3>1, <4>3 DEF HeirOK
      <3>3. CASE p \notin NewDebts(spared)
        BY <1>6, <1>8, <2>1, <3>1, <3>3 DEF HeirOK
      <3>4. QED
        BY <3>2, <3>3
    <2>4. RecordInv(n)'
      BY <2>1, <2>2, <2>3 DEF Sound, RecordInv, RecordOK, KnownOK
    <2>5. OwesAll(n)'
      <3>1. SUFFICES ASSUME NEW p \in Heirs', n.pending[p] = NoDebt
                     PROVE  HasRoot(n, p)'
        BY DEF OwesAll
      <3>2. p \in Procs /\ p \notin NewDebts(spared)
        BY <1>4, <1>7, <1>8, <3>1 DEF Heirs, Alive
      <3>3. HasRoot(m, p)'
        BY <1>6, <1>8, <2>1, <3>1, <3>2 DEF Sound, OwesAll
      <3>4. PICK a \in Above(p)' :
              Holds(m, a)' \/ \E q \in Above(p)' : m.pending[q].root = PidOf[a]
        BY <3>3 DEF HasRoot
      <3>5. CASE Holds(m, a)'
        BY <2>1, <3>4, <3>5 DEF Holds, HasRoot
      <3>6. CASE \E q \in Above(p)' : m.pending[q].root = PidOf[a]
        <4>1. PICK q \in Above(p)' : m.pending[q].root = PidOf[a]
          BY <3>6
        <4>2. q \in Procs /\ a \in Procs
          BY <3>2, <3>4, <4>1, AboveIsClosed DEF Above
        <4>3. m.pending[q] # NoDebt
          BY <4>1, <4>2, Nothing, Constants
        <4>4. n.pending[q] = m.pending[q]
          BY <1>6, <1>7, <1>8, <4>2, <4>3
        <4>5. QED
          BY <3>4, <4>1, <4>4 DEF HasRoot
      <3>7. QED
        BY <3>4, <3>5, <3>6
    <2>6. BiasedAll(n)'
      BY <2>1 DEF Sound, BiasedAll, BiasedIn
    <2>7. QED
      BY <2>1, <2>4, <2>5, <2>6 DEF Sound, Records, Values, Pids
  <1>9. ASSUME NEW n, n = mem'
        PROVE  ProcInv' /\ Sound(ledger)' /\ Sound(View)'
    BY <1>1, <1>3, <1>5, <1>8, <1>9, QuietNew DEF IInv
  <1>10. PassInv'
    <2>1. ASSUME NEW p \in Heirs' PROVE OwedOrNew(p)'
      <3>1. p \in Heirs /\ p \in Procs /\ (p \in NewDebts({}) => p \in NewDebts(spared))
        BY <1>2, <1>4, DebtsLess DEF Heirs, Alive
      <3>2. CASE p \in NewDebts(spared)
        BY <1>7, <3>2 DEF OwedOrNew
      <3>3. CASE mem.pending[p] # NoDebt
        BY <1>6, <1>7, <3>1, <3>3 DEF OwedOrNew
      <3>4. CASE mode = "critical" /\ parent[p] \in Procs /\ Holds(mem, parent[p])
        BY <1>1, <1>6, <3>4 DEF OwedOrNew, Holds
      <3>5. QED
        BY <1>1, <3>1, <3>2, <3>3, <3>4, SweepFinds
    <2>2. QED
      BY <1>1, <1>5, <2>1 DEF PassInv, InWrite, NoSample
  <1>11. QED
    BY <1>9, <1>10 DEF IInv

LEMMA IntentKeeps ==
  ASSUME ~Torn, IInv, TypeOK', NEW p \in Procs, BiasIntent(p)
  PROVE  IInv'
  <1> DEFINE r == Intent(p)
             i == PidOf[p]
             o == RemoveBias(r, i)
  <1>1. /\ pc = "apply" /\ mode = "critical" /\ mode' = mode /\ sampled' = sampled
        /\ p \in Alive /\ CanBias(adj[p])
        /\ UNCHANGED <<life, parent, adj, base, mark>> /\ late' = late \cup Unsafe(p)
        /\ View = mem /\ View' = mem'
        /\ \/ PersistOk(r) /\ mem' = r /\ cur' = p /\ pc' = "write"
           \/ PersistFails(r) /\ mem' = o /\ UNCHANGED <<cur, pc>>
    BY DEF BiasIntent, BiasCandidate, processVars, View
  <1>2. mem \in Records /\ i \in Pids /\ adj[p] \in Values \cup {Target}
    BY Constants DEF IInv, TypeOK
  <1>3. mark[p] = "own" /\ base[p] = adj[p] /\ adj[p] \in Values
    BY <1>1, <1>2, Constants DEF IInv, ProcInv, TypeOK, CanBias
  <1>4. /\ r \in Records /\ r.pending = mem.pending
        /\ r.biased[i] = [proc |-> p, orig |-> adj[p]] /\ r.known[i] = SampledBelow(p)
        /\ \A j \in Pids : j # i => r.biased[j] = mem.biased[j] /\ r.known[j] = mem.known[j]
    BY <1>2, IntentMade DEF IInv
  <1>5. /\ o \in Records /\ o.pending = mem.pending
        /\ o.biased[i] = NoRoot /\ o.known[i] \subseteq SampledBelow(p)
        /\ \A j \in Pids : j # i => o.biased[j] = mem.biased[j] /\ o.known[j] \subseteq mem.known[j]
    <2> HIDE DEF r, i
    <2>1. QED
      BY <1>2, <1>4, RemoveBiasMade
  <1>6. Quiet /\ ~\E q \in Procs : Taken(q)
    BY <1>1, NothingTaken
  <1>7. /\ Heirs' \subseteq Heirs /\ Alive' = Alive
        /\ \A q \in Procs : Above(q)' = Above(q) /\ Born(q)' = Born(q)
    BY <1>6, QuietProcs DEF IInv
  <1>8. /\ \A q \in Heirs' : q \in Procs /\ q \in Alive /\ mark[q] = "inherited" /\ q \notin SampledBelow(p)
        /\ \A q \in SampledBelow(p) : q \in Procs /\ Born(q)
    BY <1>1, <1>7 DEF Heirs, Alive, Unsafe, SampledBelow, IInv, PassInv
  <1>9. \A q \in Alive : q \in Procs /\ PidOf[q] \in Pids /\ (PidOf[q] = i => q = p)
    BY <1>1, Constants DEF IInv, ProcInv, Alive
  <1> HIDE DEF r, o, i
  <1>10. ASSUME NEW m, m = mem, NEW n \in Records, n.pending = m.pending,
                n.biased[i] \in {NoRoot, [proc |-> p, orig |-> adj[p]]},
                n.known[i] \subseteq SampledBelow(p),
                \A j \in Pids : j # i => n.biased[j] = m.biased[j] /\ n.known[j] \subseteq m.known[j]
         PROVE  Sound(n)'
    <2>1. Sound(m) /\ Sound(m)'
      BY <1>1, <1>6, <1>10, QuietBoth, SoundOf DEF IInv
    <2>2. ASSUME NEW j \in Pids PROVE RecordOK(n, j)' /\ KnownOK(n, j)'
      <3>1. CASE j = i
        <4>1. RecordOK(n, j)'
          BY <1>1, <1>3, <1>7, <1>10, <3>1 DEF RecordOK, Born, Alive, i
        <4>2. KnownOK(n, j)'
          BY <1>7, <1>8, <1>10, <3>1 DEF KnownOK
        <4>3. QED
          BY <4>1, <4>2
      <3>2. CASE j # i
        BY <1>10, <2>1, <3>2 DEF Sound, RecordInv, RecordOK, KnownOK
      <3>3. QED
        BY <3>1, <3>2
    <2>3. ASSUME NEW q \in Procs PROVE DebtOK(n, q)'
      BY <1>10, <2>1 DEF Sound, RecordInv, DebtOK
    <2>4. ASSUME NEW q \in Heirs' PROVE HeirOK(n, q)'
      <3>1. HeirOK(m, q)' /\ PidOf[q] # i /\ PidOf[q] \in Pids
        BY <1>3, <1>8, <1>9, <2>1 DEF Sound, RecordInv
      <3>2. QED
        BY <1>10, <3>1 DEF HeirOK
    <2>5. OwesAll(n)'
      <3>1. SUFFICES ASSUME NEW q \in Heirs', n.pending[q] = NoDebt
                     PROVE  HasRoot(n, q)'
        BY DEF OwesAll
      <3>2. /\ q \in Procs /\ q \in Heirs /\ q \notin SampledBelow(p)
            /\ SeenOrNew(q) /\ HasRoot(m, q) /\ Above(q)' = Above(q)
        BY <1>1, <1>7, <1>8, <1>10, <2>1, <3>1 DEF IInv, PassInv, Sound, OwesAll
      <3>3. Above(q) \subseteq Alive
        BY <3>2, AboveAlive DEF IInv
      <3>4. ASSUME NEW a \in Above(q), a # p, Holds(m, a)
            PROVE  HasRoot(n, q)'
        <4>1. n.biased[PidOf[a]] = m.biased[PidOf[a]]
          BY <1>9, <1>10, <3>3, <3>4
        <4>2. Holds(n, a)'
          BY <1>1, <3>4, <4>1 DEF Holds
        <4>3. QED
          BY <3>2, <4>2 DEF HasRoot
      <3>5. CASE sampled[q] = Absent
        <4>1. parent[q] \in Procs /\ mark[parent[q]] = "biased"
          BY <3>2, <3>5 DEF SeenOrNew
        <4>2. parent[q] \in Above(q) /\ parent[q] # p /\ parent[q] \in Alive
          BY <1>3, <3>2, <3>3, <4>1, AboveIsClosed DEF Above
        <4>3. Holds(m, parent[q])
          BY <2>1, <4>1, <4>2 DEF Sound, BiasedAll, BiasedIn, Holds, IInv, ProcInv
        <4>4. QED
          BY <3>4, <4>2, <4>3
      <3>6. CASE sampled[q] # Absent
        <4>1. p \notin Above(q)
          BY <3>2, <3>6, SeenAbove DEF SampledBelow
        <4>2. PICK a \in Above(q) : Holds(m, a) \/ \E x \in Above(q) : m.pending[x].root = PidOf[a]
          BY <3>2 DEF HasRoot
        <4>3. CASE Holds(m, a)
          BY <3>4, <4>1, <4>2, <4>3
        <4>4. CASE \E x \in Above(q) : m.pending[x].root = PidOf[a]
          BY <1>10, <3>2, <4>2, <4>4 DEF HasRoot
        <4>5. QED
          BY <4>2, <4>3, <4>4
      <3>7. QED
        BY <3>5, <3>6
    <2>6. BiasedAll(n)'
      <3>1. \A q \in Alive : mark'[q] = "biased" => n.biased[PidOf[q]] = m.biased[PidOf[q]]
        BY <1>1, <1>3, <1>9, <1>10
      <3>2. QED
        BY <1>6, <2>1, <3>1, BiasedStay DEF IInv
    <2>7. QED
      BY <1>10, <2>1, <2>2, <2>3, <2>4, <2>5, <2>6 DEF Sound, RecordInv, Records, Values, Pids
  <1>11. ASSUME NEW m, m = mem, NEW n, n = mem'
         PROVE  Sound(n)'
    <2>1. CASE n = r
      BY <1>4, <1>10, <1>11, <2>1
    <2>2. CASE n = o
      BY <1>5, <1>10, <1>11, <2>2
    <2>3. QED
      BY <1>1, <1>11, <2>1, <2>2
  <1>12. /\ ledger' = ledger \/ ledger' = mem'
         /\ pc' = "write" => ledger' = mem' /\ mem' = r /\ cur' = p
         /\ last' = Never \/ last' = ledger'
         /\ pc' \in {"apply", "write"}
    <2>1. PersistOk(r) => ledger' = r /\ last' = r
      BY <1>4, Persists DEF IInv, PassInv
    <2>2. PersistFails(r) => ledger' = ledger /\ last' = last
      BY <1>4, Persists DEF IInv, PassInv
    <2>3. QED
      BY <1>1, <2>1, <2>2 DEF IInv, PassInv
  <1>13. ASSUME NEW n, n = mem'
         PROVE  ProcInv' /\ Sound(ledger)' /\ Sound(View)'
    <2>1. Sound(n)'
      BY <1>11, <1>13
    <2>2. QED
      BY <1>1, <1>6, <1>12, <1>13, <2>1, QuietNew DEF IInv
  <1>14. InWrite'
    <2>1. SUFFICES ASSUME pc' = "write" PROVE InWrite'
      BY DEF InWrite
    <2>2. mem'.biased[i].proc = p /\ mem'.biased[i].orig = base'[p]
      BY <1>1, <1>3, <1>4, <1>12, <2>1
    <2>3. BiasedIn(mem, p)' /\ BiasedIn(ledger, p)'
      BY <1>12, <2>1, <2>2 DEF BiasedIn, i
    <2>4. QED
      BY <1>1, <1>3, <1>12, <2>1, <2>3 DEF InWrite, Born, Alive
  <1>15. PassInv'
    <2>1. \A q \in Heirs' : SeenOrNew(q)'
      BY <1>1, <1>7, <1>8 DEF IInv, PassInv, SeenOrNew
    <2>2. QED
      BY <1>1, <1>7, <1>12, <1>14, <2>1 DEF IInv, PassInv
  <1>16. QED
    BY <1>13, <1>15 DEF IInv

-----------------------------------------------------------------------------
(* Steps of the processes: the maps stay as they are, and mean as much to those
   who are still owed something. *)
LEMMA MapsStay ==
  ASSUME UNCHANGED <<mem, ledger, last, pc, passVars>>
  PROVE  /\ ledger' = ledger /\ View' = View /\ mem' = mem
         /\ UNCHANGED <<last, pc, mode, sampled, cur>>
         /\ (\A m : m = ledger \/ m = View => Sound(m)') => Sound(ledger)' /\ Sound(View)'
  <1>1. /\ ledger' = ledger /\ View' = View /\ mem' = mem
        /\ UNCHANGED <<last, pc, mode, sampled, cur>>
    BY DEF View, passVars
  <1>2. ASSUME \A m : m = ledger \/ m = View => Sound(m)'
        PROVE  Sound(ledger)' /\ Sound(View)'
    <2>1. ASSUME NEW m, m = ledger PROVE Sound(ledger)'
      BY <1>1, <1>2, <2>1, SoundAt
    <2>2. ASSUME NEW m, m = View PROVE Sound(View)'
      BY <1>1, <1>2, <2>2, SoundAt
    <2>3. QED
      BY <2>1, <2>2
  <1>3. QED
    BY <1>1, <1>2

LEMMA LessSound ==
  ASSUME NEW m, Sound(m), Heirs' \subseteq Heirs,
         \A p \in Procs : Born(p) => Born(p)',
         \A q \in Heirs' : /\ Above(q)' = Above(q)
                           /\ \A a \in Above(q) : Holds(m, a) => adj'[a] = adj[a],
         \A p \in Alive' : mark'[p] = "biased" =>
            /\ p \in Alive /\ mark[p] = "biased" /\ base'[p] = base[p]
            /\ p \in late => p \in late'
  PROVE  Sound(m)'
  <1>1. RecordInv(m)'
    <2>1. ASSUME NEW i \in Pids PROVE RecordOK(m, i)' /\ KnownOK(m, i)'
      <3>1. RecordOK(m, i) /\ KnownOK(m, i) /\ m.known[i] \subseteq Procs
        BY RecordsAre DEF Sound, RecordInv
      <3>2. QED
        BY <3>1 DEF RecordOK, KnownOK
    <2>2. ASSUME NEW p \in Procs PROVE DebtOK(m, p)'
      BY DEF Sound, RecordInv, DebtOK
    <2>3. ASSUME NEW q \in Heirs' PROVE HeirOK(m, q)'
      BY DEF Sound, RecordInv, HeirOK
    <2>4. QED
      BY <2>1, <2>2, <2>3 DEF RecordInv
  <1>2. OwesAll(m)'
    <2>1. SUFFICES ASSUME NEW q \in Heirs', m.pending[q] = NoDebt
                   PROVE  HasRoot(m, q)'
      BY DEF OwesAll
    <2>2. HasRoot(m, q) /\ Above(q)' = Above(q)
      BY <2>1 DEF Sound, OwesAll
    <2>3. \A a \in Above(q) : Holds(m, a) => Holds(m, a)'
      BY <2>1 DEF Holds
    <2>4. QED
      BY <2>2, <2>3 DEF HasRoot
  <1>3. BiasedAll(m)'
    BY DEF Sound, BiasedAll, BiasedIn
  <1>4. QED
    BY <1>1, <1>2, <1>3 DEF Sound, Records, Values, Pids

LEMMA ExitKeeps ==
  ASSUME IInv, TypeOK', NEW e \in Procs, Exit(e)
  PROVE  IInv'
  <1>1. /\ UNCHANGED <<mem, ledger, last, pc, passVars, base>>
        /\ e \in Alive /\ life' = [life EXCEPT ![e] = "dead"]
        /\ parent' = [q \in Procs |-> IF parent[q] = e \/ q = e THEN Init1 ELSE parent[q]]
        /\ adj' = [adj EXCEPT ![e] = base[e]] /\ mark' = [mark EXCEPT ![e] = "own"]
        /\ late' = (late \cup {q \in Alive : e \in Above(q)}) \ {e}
    BY DEF Exit, Above
  <1>2. /\ DOMAIN adj = Procs /\ DOMAIN mark = Procs /\ DOMAIN life = Procs
        /\ DOMAIN parent = Procs /\ DOMAIN base = Procs
    BY DEF IInv, TypeOK
  <1>3. /\ Alive' = Alive \ {e} /\ \A p \in Procs : Born(p) <=> Born(p)'
        /\ mark'[e] = "own" /\ adj'[e] = base'[e] /\ parent'[e] = Init1 /\ e \notin late'
        /\ \A p \in Procs : p # e => /\ mark'[p] = mark[p] /\ adj'[p] = adj[p]
                                     /\ base'[p] = base[p]
                                     /\ parent'[p] = IF parent[p] = e THEN Init1 ELSE parent[p]
                                     /\ p \in late => p \in late'
    BY <1>1, <1>2 DEF Alive, Born
  <1>4. ASSUME NEW q \in Heirs'
        PROVE  /\ q \in Heirs /\ q \in Procs /\ Above(q)' = Above(q) /\ e \notin Above(q)
               /\ \A x \in Above(q) \cup {q} : x \in Procs /\ x # e /\ parent'[x] = parent[x]
    <2>1. q \in Procs /\ q \in Alive /\ q # e /\ q \in Heirs /\ e \notin Above(q)
      BY <1>1, <1>3 DEF Heirs, Alive
    <2>2. ASSUME NEW x \in Above(q) \cup {q}
          PROVE  x \in Procs /\ x # e /\ parent'[x] = parent[x]
      <3>1. x \in Procs /\ (parent[x] \in Procs => parent[x] \in Above(q))
        BY <2>1, AboveIsClosed DEF Above
      <3>2. QED
        BY <1>3, <2>1, <3>1
    <2>3. Above(q)' = Above(q)
      <3>1. Ancestors(parent', q) = Ancestors(parent, q)
        BY <2>1, <2>2, AboveFrame DEF Above
      <3>2. QED
        BY <3>1 DEF Above
    <2>4. QED
      BY <2>1, <2>2, <2>3
  <1>5. ProcInv'
    <2>1. \A p \in Procs : parent'[p] \in Procs => parent'[p] \in Alive'
      BY <1>3, Constants DEF IInv, ProcInv
    <2>2. \A p \in Procs : life'[p] # "alive" => parent'[p] = Init1 /\ mark'[p] = "own"
      BY <1>1, <1>2, <1>3, Constants DEF IInv, ProcInv
    <2>3. \A p \in Alive' : \A q \in Alive' : PidOf[p] = PidOf[q] => p = q
      BY <1>3 DEF IInv, ProcInv
    <2>4. \A p \in Alive' : adj'[p] = IF mark'[p] = "own" THEN base'[p] ELSE Target
      BY <1>3 DEF IInv, ProcInv, Alive
    <2>5. QED
      BY <2>1, <2>2, <2>3, <2>4 DEF ProcInv
  <1>6. ASSUME NEW m, m = ledger \/ m = View
        PROVE  Sound(m)'
    <2>1. Sound(m)
      BY <1>6, SoundOf DEF IInv
    <2>2. \A q \in Heirs' : /\ Above(q)' = Above(q)
                            /\ \A a \in Above(q) : Holds(m, a) => adj'[a] = adj[a]
      BY <1>3, <1>4
    <2>3. \A p \in Alive' : mark'[p] = "biased" =>
            /\ p \in Alive /\ mark[p] = "biased" /\ base'[p] = base[p]
            /\ p \in late => p \in late'
      BY <1>3 DEF Alive
    <2>4. Heirs' \subseteq Heirs /\ \A p \in Procs : Born(p) => Born(p)'
      BY <1>3, <1>4
    <2>5. QED
      BY <2>1, <2>2, <2>3, <2>4, LessSound
  <1>7. /\ Sound(ledger)' /\ Sound(View)' /\ ledger' = ledger /\ mem' = mem
        /\ UNCHANGED <<last, pc, mode, sampled, cur>>
    BY <1>1, <1>6, MapsStay
  <1>8. InWrite'
    BY <1>3, <1>7 DEF IInv, PassInv, InWrite, BiasedIn
  <1>9. ASSUME NEW q \in Heirs'
        PROVE  (SeenOrNew(q) => SeenOrNew(q)') /\ (OwedOrNew(q) => OwedOrNew(q)')
    <2>1. parent'[q] = parent[q] /\ (parent[q] \in Procs => parent[q] \in Above(q) /\ parent[q] # e)
      BY <1>4, AboveIsClosed DEF Above
    <2>2. SeenOrNew(q) => SeenOrNew(q)'
      BY <1>3, <1>4, <1>7, <2>1 DEF SeenOrNew
    <2>3. OwedOrNew(q) => OwedOrNew(q)'
      BY <1>3, <1>7, <2>1 DEF OwedOrNew, Holds
    <2>4. QED
      BY <2>2, <2>3
  <1>10. PassInv'
    BY <1>3, <1>4, <1>7, <1>8, <1>9 DEF IInv, PassInv
  <1>11. QED
    BY <1>5, <1>7, <1>10 DEF IInv

LEMMA OperatorKeeps ==
  ASSUME IInv, TypeOK', NEW b \in Procs, NEW v, OperatorSets(b, v)
  PROVE  IInv'
  <1>1. /\ UNCHANGED <<life, parent, mem, ledger, last, pc, passVars>>
        /\ b \in Alive /\ late \subseteq late'
        /\ adj' = [adj EXCEPT ![b] = v] /\ base' = [base EXCEPT ![b] = v]
        /\ mark' = [mark EXCEPT ![b] = "own"]
        /\ OnRecord(b) => b \in late' /\ {q \in Alive : b \in Above(q)} \subseteq late'
    BY DEF OperatorSets, Above
  <1>2. DOMAIN adj = Procs /\ DOMAIN mark = Procs /\ DOMAIN base = Procs
    BY DEF IInv, TypeOK
  <1>3. /\ Alive' = Alive /\ \A p \in Procs : (Born(p) <=> Born(p)') /\ Above(p)' = Above(p)
        /\ mark'[b] = "own" /\ adj'[b] = base'[b]
        /\ \A p \in Procs : p # b => /\ mark'[p] = mark[p] /\ adj'[p] = adj[p]
                                     /\ base'[p] = base[p]
    BY <1>1, <1>2 DEF Alive, Born, Above
  <1>4. ASSUME NEW q \in Heirs'
        PROVE  /\ q \in Heirs /\ q \in Procs
               /\ OnRecord(b) => b \notin Above(q)
    BY <1>1, <1>3 DEF Heirs, Alive
  <1>5. ProcInv'
    BY <1>1, <1>3 DEF IInv, ProcInv, Alive
  <1>6. /\ mark[b] # "own" => OnRecord(b)
        /\ \A m : (m = ledger \/ m = View \/ m = mem) /\ m.biased[PidOf[b]].proc = b => OnRecord(b)
    BY DEF OnRecord, View
  <1>7. ASSUME NEW m, m = ledger \/ m = View
        PROVE  Sound(m)'
    <2>1. Sound(m)
      BY <1>7, SoundOf DEF IInv
    <2>2. \A q \in Heirs' : /\ Above(q)' = Above(q)
                            /\ \A a \in Above(q) : Holds(m, a) => adj'[a] = adj[a]
      <3>1. SUFFICES ASSUME NEW q \in Heirs', NEW a \in Above(q), Holds(m, a)
                     PROVE  adj'[a] = adj[a]
        BY <1>3, <1>4
      <3>2. a \in Procs
        BY <1>4, <3>1, AboveIsClosed DEF Above
      <3>3. a # b
        BY <1>4, <1>6, <1>7, <3>1 DEF Holds
      <3>4. QED
        BY <1>3, <3>2, <3>3
    <2>3. \A p \in Alive' : mark'[p] = "biased" =>
            /\ p \in Alive /\ mark[p] = "biased" /\ base'[p] = base[p]
            /\ p \in late => p \in late'
      BY <1>1, <1>3 DEF Alive
    <2>4. Heirs' \subseteq Heirs /\ \A p \in Procs : Born(p) => Born(p)'
      BY <1>3, <1>4
    <2>5. QED
      BY <2>1, <2>2, <2>3, <2>4, LessSound
  <1>8. /\ Sound(ledger)' /\ Sound(View)' /\ ledger' = ledger /\ mem' = mem
        /\ UNCHANGED <<last, pc, mode, sampled, cur>>
    BY <1>1, <1>7, MapsStay
  <1>9. InWrite'
    <2>1. SUFFICES ASSUME pc = "write" PROVE InWrite'
      BY <1>8 DEF InWrite
    <2>2. /\ mode = "critical" /\ cur \in Procs /\ Born(cur) /\ mark[cur] = "own"
          /\ cur \in Alive => BiasedIn(mem, cur) /\ BiasedIn(ledger, cur)
      BY <2>1 DEF IInv, PassInv, InWrite
    <2>3. CASE cur = b
      BY <1>1, <1>3, <1>6, <1>8, <2>2, <2>3 DEF InWrite, BiasedIn
    <2>4. CASE cur # b
      BY <1>1, <1>3, <1>8, <2>2, <2>4 DEF InWrite, BiasedIn
    <2>5. QED
      BY <2>3, <2>4
  <1>10. ASSUME NEW q \in Heirs'
         PROVE  (SeenOrNew(q) => SeenOrNew(q)') /\ (OwedOrNew(q) => OwedOrNew(q)')
    <2>1. /\ q \in Procs /\ Above(q)' = Above(q) /\ parent' = parent
          /\ parent[q] \in Procs => parent[q] \in Above(q)
      BY <1>1, <1>3, <1>4, AboveIsClosed DEF Above
    <2>2. SeenOrNew(q) => SeenOrNew(q)'
      BY <1>3, <1>4, <1>6, <1>8, <2>1 DEF SeenOrNew
    <2>3. OwedOrNew(q) => OwedOrNew(q)'
      BY <1>3, <1>4, <1>6, <1>8, <2>1 DEF OwedOrNew, Holds
    <2>4. QED
      BY <2>2, <2>3
  <1>11. PassInv'
    BY <1>3, <1>4, <1>8, <1>9, <1>10 DEF IInv, PassInv
  <1>12. QED
    BY <1>5, <1>8, <1>11 DEF IInv

(* A fork: who is there keeps what it had; an heir that is new has a parent that
   the guard biased, or an heir for parent, and its pid is not on record. *)
LEMMA ForkIs ==
  ASSUME IInv, TypeOK', NEW c \in Procs, NEW f \in Procs \cup {Init1}, Fork(c, f)
  PROVE  /\ ProcInv'
         /\ c \notin Alive /\ ~Born(c) /\ Alive' = Alive \cup {c} /\ late \subseteq late'
         /\ \A p \in Procs : Born(p) => Born(p)'
         /\ \A p \in Procs : p # c => /\ mark'[p] = mark[p] /\ adj'[p] = adj[p]
                                      /\ base'[p] = base[p] /\ parent'[p] = parent[p]
                                      /\ Above(p)' = Above(p)
         /\ mark'[c] # "biased" /\ c \notin Heirs /\ Heirs' \subseteq Heirs \cup {c}
         /\ c \in Heirs' =>
              /\ f \in Alive /\ f \in Procs /\ f # c /\ parent'[c] = f
              /\ mark[f] = "biased" \/ f \in Heirs
              /\ f \in Above(c)' /\ Above(f) \subseteq Above(c)'
              /\ \A m \in {mem, ledger} : PidOf[c] \notin Recorded(m) \cup PendingRoots(m)
              /\ pc \notin {"idle", "down"} => mark[f] = "biased"
              /\ mode \notin Releasing
  <1>1. /\ life[c] = "unborn" /\ (\A q \in Alive : PidOf[q] # PidOf[c])
        /\ f \in Alive \cup {Init1} /\ life' = [life EXCEPT ![c] = "alive"]
        /\ parent' = [parent EXCEPT ![c] = f]
        /\ late' = IF Slips(c, f) THEN late \cup {c} ELSE late
    BY DEF Fork
  <1>2. /\ DOMAIN adj = Procs /\ DOMAIN mark = Procs /\ DOMAIN life = Procs
        /\ DOMAIN parent = Procs /\ DOMAIN base = Procs
    BY DEF IInv, TypeOK
  <1>3. /\ c \notin Alive /\ ~Born(c) /\ Alive' = Alive \cup {c} /\ late \subseteq late'
        /\ \A p \in Procs : Born(p) => Born(p)'
    BY <1>1, <1>2 DEF Alive, Born
  <1>4. parent[c] = Init1 /\ mark[c] = "own"
    BY <1>1 DEF IInv, ProcInv
  <1>5. /\ \A p \in Procs : p # c => /\ mark'[p] = mark[p] /\ adj'[p] = adj[p]
                                     /\ base'[p] = base[p] /\ parent'[p] = parent[p]
        /\ parent'[c] = f
        /\ f = Init1 => mark'[c] = "own" /\ adj'[c] = base'[c]
        /\ f # Init1 => /\ adj'[c] = adj[f] /\ base'[c] = base[f]
                        /\ mark'[c] = IF mark[f] = "own" THEN "own" ELSE "inherited"
    <2>1. CASE f = Init1
      <3>1. PICK v \in Natives : /\ adj' = [adj EXCEPT ![c] = v] /\ base' = [base EXCEPT ![c] = v]
                                 /\ mark' = mark
        BY <2>1 DEF Fork
      <3>2. QED
        BY <1>1, <1>2, <1>4, <2>1, <3>1
    <2>2. CASE f # Init1
      <3>1. /\ adj' = [adj EXCEPT ![c] = adj[f]] /\ base' = [base EXCEPT ![c] = base[f]]
            /\ mark' = [mark EXCEPT ![c] = IF mark[f] = "own" THEN "own" ELSE "inherited"]
        BY <2>2 DEF Fork
      <3>2. QED
        BY <1>1, <1>2, <2>2, <3>1
    <2>3. QED
      BY <2>1, <2>2
  <1>6. mark'[c] # "biased" /\ (mark'[c] = "inherited" => f \in Alive /\ f \in Procs /\ mark[f] # "own")
    BY <1>1, <1>5 DEF Alive
  <1>7. ASSUME NEW p \in Procs, p # c PROVE Above(p)' = Above(p)
    <2>1. Above(p) \subseteq Alive
      BY AboveAlive DEF IInv
    <2>2. \A x \in Above(p) \cup {p} : parent'[x] = parent[x]
      BY <1>3, <1>5, <1>7, <2>1 DEF Alive
    <2>3. Ancestors(parent', p) = Ancestors(parent, p)
      BY <2>2, AboveFrame DEF Above
    <2>4. QED
      BY <2>3 DEF Above
  <1>8. ProcInv'
    <2>1. \A p \in Procs : parent'[p] \in Procs => parent'[p] \in Alive'
      BY <1>1, <1>3, <1>5, Constants DEF IInv, ProcInv
    <2>2. \A p \in Procs : life'[p] # "alive" => parent'[p] = Init1 /\ mark'[p] = "own"
      BY <1>1, <1>2, <1>5 DEF IInv, ProcInv
    <2>3. \A p \in Alive' : \A q \in Alive' : PidOf[p] = PidOf[q] => p = q
      BY <1>1, <1>3 DEF IInv, ProcInv
    <2>4. ASSUME NEW p \in Alive' PROVE adj'[p] = IF mark'[p] = "own" THEN base'[p] ELSE Target
      <3>1. CASE p = c
        BY <1>1, <1>5, <3>1, Constants DEF IInv, ProcInv, Alive
      <3>2. CASE p # c
        BY <1>3, <1>5, <3>2 DEF IInv, ProcInv, Alive
      <3>3. QED
        BY <3>1, <3>2
    <2>5. QED
      BY <2>1, <2>2, <2>3, <2>4 DEF ProcInv
  <1>9. c \notin Heirs /\ Heirs' \subseteq Heirs \cup {c}
    BY <1>3, <1>5 DEF Heirs, Alive
  <1>10. ASSUME c \in Heirs'
         PROVE  /\ f \in Alive /\ f \in Procs /\ f # c /\ parent'[c] = f
                /\ mark[f] = "biased" \/ f \in Heirs
                /\ f \in Above(c)' /\ Above(f) \subseteq Above(c)'
                /\ \A m \in {mem, ledger} : PidOf[c] \notin Recorded(m) \cup PendingRoots(m)
                /\ pc \notin {"idle", "down"} => mark[f] = "biased"
                /\ mode \notin Releasing
    <2>1. mark'[c] = "inherited" /\ c \notin late' /\ ~Slips(c, f)
      BY <1>1, <1>10 DEF Heirs
    <2>2. f \in Alive /\ f \in Procs /\ mark[f] # "own" /\ f # c /\ f \notin late
      BY <1>3, <1>6, <2>1 DEF Slips
    <2>3. mark[f] \in {"biased", "inherited"}
      BY <2>2 DEF IInv, TypeOK
    <2>4. /\ \A m \in {mem, ledger} : PidOf[c] \notin Recorded(m) \cup PendingRoots(m)
          /\ pc \notin {"idle", "down"} => mark[f] = "biased"
          /\ mode \notin Releasing
      BY <2>1, <2>2, <2>3 DEF Slips
    <2>5. f \in Above(c)' /\ Above(f)' \subseteq Above(c)'
      <3>1. f \in Ancestors(parent', c) /\ Ancestors(parent', f) \subseteq Ancestors(parent', c)
        BY <1>5, <2>2, AboveIsClosed
      <3>2. QED
        BY <3>1 DEF Above
    <2>6. QED
      BY <1>5, <1>7, <2>2, <2>3, <2>4, <2>5 DEF Heirs
  <1>11. QED
    BY <1>3, <1>5, <1>6, <1>7, <1>8, <1>9, <1>10

LEMMA ForkSound ==
  ASSUME IInv, TypeOK', NEW c \in Procs, NEW f \in Procs \cup {Init1}, Fork(c, f),
         NEW m, m = ledger \/ m = View
  PROVE  Sound(m)'
  <1>1. Sound(m) /\ (m = ledger \/ m = mem)
    BY SoundOf DEF IInv, View
  <1>2. /\ c \notin Alive /\ ~Born(c) /\ Alive' = Alive \cup {c} /\ late \subseteq late'
        /\ \A p \in Procs : Born(p) => Born(p)'
        /\ \A p \in Procs : p # c => /\ mark'[p] = mark[p] /\ adj'[p] = adj[p]
                                     /\ base'[p] = base[p] /\ Above(p)' = Above(p)
        /\ mark'[c] # "biased" /\ c \notin Heirs /\ Heirs' \subseteq Heirs \cup {c}
    BY ForkIs
  <1>3. \A q \in Heirs' : q # c => q \in Heirs /\ q \in Procs
    BY <1>2 DEF Heirs, Alive
  <1>4. RecordInv(m)'
    <2>1. ASSUME NEW i \in Pids PROVE RecordOK(m, i)' /\ KnownOK(m, i)'
      <3>1. RecordOK(m, i) /\ KnownOK(m, i) /\ m.known[i] \subseteq Procs
        BY <1>1, RecordsAre DEF Sound, RecordInv
      <3>2. KnownOK(m, i)'
        BY <1>2, <1>3, <3>1 DEF KnownOK
      <3>3. QED
        BY <1>2, <3>1, <3>2 DEF RecordOK
    <2>2. ASSUME NEW p \in Procs PROVE DebtOK(m, p)'
      BY <1>1, <1>2 DEF Sound, RecordInv, DebtOK
    <2>3. ASSUME NEW q \in Heirs' PROVE HeirOK(m, q)'
      <3>1. CASE q = c
        <4>1. PidOf[c] \in Pids /\ PidOf[c] \notin Recorded(m)
          BY <1>1, <2>3, <3>1, ForkIs, Constants
        <4>2. m.pending[c] = NoDebt
          BY <1>1, <1>2 DEF Sound, RecordInv, DebtOK
        <4>3. QED
          BY <3>1, <4>1, <4>2 DEF HeirOK, Recorded
      <3>2. CASE q # c
        <4>1. HeirOK(m, q) /\ Above(q)' = Above(q)
          BY <1>1, <1>2, <1>3, <2>3, <3>2 DEF Sound, RecordInv
        <4>2. QED
          BY <4>1 DEF HeirOK
      <3>3. QED
        BY <3>1, <3>2
    <2>4. QED
      BY <2>1, <2>2, <2>3 DEF RecordInv
  <1>5. ASSUME NEW a \in Alive, Holds(m, a) PROVE Holds(m, a)'
    BY <1>2, <1>5 DEF Holds, Alive
  <1>6. ASSUME NEW q \in Procs, NEW r \in Procs, Above(q) \subseteq Above(r)', HasRoot(m, q)
        PROVE  HasRoot(m, r)'
    <2>1. Above(q) \subseteq Alive
      BY AboveAlive DEF IInv
    <2>2. PICK a \in Above(q) : Holds(m, a) \/ \E x \in Above(q) : m.pending[x].root = PidOf[a]
      BY <1>6 DEF HasRoot
    <2>3. Holds(m, a) => Holds(m, a)'
      BY <1>5, <2>1, <2>2
    <2>4. QED
      BY <1>6, <2>2, <2>3 DEF HasRoot
  <1>7. OwesAll(m)'
    <2>1. SUFFICES ASSUME NEW q \in Heirs', m.pending[q] = NoDebt
                   PROVE  HasRoot(m, q)'
      BY DEF OwesAll
    <2>2. CASE q # c
      <3>1. q \in Procs /\ HasRoot(m, q) /\ Above(q)' = Above(q)
        BY <1>1, <1>2, <1>3, <2>1, <2>2 DEF Sound, OwesAll
      <3>2. QED
        BY <1>6, <3>1
    <2>3. CASE q = c
      <3>1. /\ f \in Alive /\ f \in Procs
            /\ mark[f] = "biased" \/ f \in Heirs
            /\ f \in Above(c)' /\ Above(f) \subseteq Above(c)'
        BY <2>1, <2>3, ForkIs
      <3>2. CASE mark[f] = "biased"
        <4>1. Holds(m, f)
          BY <1>1, <3>1, <3>2 DEF Sound, BiasedAll, BiasedIn, Holds, IInv, ProcInv
        <4>2. QED
          BY <1>5, <2>3, <3>1, <4>1 DEF HasRoot
      <3>3. CASE f \in Heirs /\ m.pending[f] = NoDebt
        BY <1>1, <1>6, <2>3, <3>1, <3>3 DEF Sound, OwesAll
      <3>4. CASE f \in Heirs /\ m.pending[f] # NoDebt
        <4>1. PICK a \in Above(f) : PidOf[a] = m.pending[f].root
          BY <1>1, <3>4 DEF Sound, RecordInv, HeirOK
        <4>2. QED
          BY <2>3, <3>1, <4>1 DEF HasRoot
      <3>5. QED
        BY <3>1, <3>2, <3>3, <3>4
    <2>4. QED
      BY <2>2, <2>3
  <1>8. BiasedAll(m)'
    <2>1. SUFFICES ASSUME NEW p \in Alive', mark'[p] = "biased" PROVE BiasedIn(m, p)'
      BY DEF BiasedAll
    <2>2. p # c /\ p \in Alive /\ p \in Procs
      BY <1>2, <2>1 DEF Alive
    <2>3. BiasedIn(m, p) /\ base'[p] = base[p]
      BY <1>1, <1>2, <2>1, <2>2 DEF Sound, BiasedAll
    <2>4. QED
      BY <1>2, <2>3 DEF BiasedIn
  <1>9. QED
    BY <1>1, <1>4, <1>7, <1>8 DEF Sound, Records, Values, Pids

LEMMA ForkKeeps ==
  ASSUME IInv, TypeOK', NEW c \in Procs, NEW f \in Procs \cup {Init1}, Fork(c, f)
  PROVE  IInv'
  <1>1. /\ Sound(ledger)' /\ Sound(View)' /\ ledger' = ledger /\ mem' = mem
        /\ UNCHANGED <<last, pc, mode, sampled, cur>>
    BY ForkSound, MapsStay DEF Fork
  <1>2. /\ ProcInv' /\ c \notin Alive /\ ~Born(c) /\ Alive' = Alive \cup {c} /\ late \subseteq late'
        /\ \A p \in Procs : Born(p) => Born(p)'
        /\ \A p \in Procs : p # c => /\ mark'[p] = mark[p] /\ adj'[p] = adj[p]
                                     /\ base'[p] = base[p] /\ parent'[p] = parent[p]
                                     /\ Above(p)' = Above(p)
        /\ c \notin Heirs /\ Heirs' \subseteq Heirs \cup {c}
    BY ForkIs
  <1>3. InWrite'
    BY <1>1, <1>2 DEF IInv, PassInv, InWrite, BiasedIn
  <1>4. ASSUME NEW q \in Heirs', q # c
        PROVE  /\ q \in Heirs
               /\ SeenOrNew(q) => SeenOrNew(q)'
               /\ OwedOrNew(q) => OwedOrNew(q)'
    <2>1. q \in Heirs /\ q \in Procs
      BY <1>2, <1>4 DEF Heirs, Alive
    <2>2. Above(q) \subseteq Alive /\ Above(q)' = Above(q)
      BY <1>2, <1>4, <2>1, AboveAlive DEF IInv
    <2>3. \A x \in Above(q) \cup {q} : x \in Procs /\ x # c /\ parent'[x] = parent[x]
      BY <1>2, <1>4, <2>1, <2>2 DEF Alive
    <2>4. parent[q] \in Procs => parent[q] # c
      BY <1>2, <2>1 DEF IInv, ProcInv
    <2>5. SeenOrNew(q) => SeenOrNew(q)'
      BY <1>1, <1>2, <2>2, <2>3, <2>4 DEF SeenOrNew
    <2>6. OwedOrNew(q) => OwedOrNew(q)'
      BY <1>1, <1>2, <2>3, <2>4 DEF OwedOrNew, Holds
    <2>7. QED
      BY <2>1, <2>5, <2>6
  <1>5. ASSUME c \in Heirs', pc \notin {"idle", "down"}
        PROVE  SeenOrNew(c)' /\ OwedOrNew(c)'
    <2>1. /\ f \in Alive /\ f \in Procs /\ f # c /\ parent'[c] = f
          /\ mark[f] = "biased" /\ mode \notin Releasing
      BY <1>5, ForkIs
    <2>2. mode = "critical"
      BY <2>1 DEF IInv, TypeOK, Modes, Releasing
    <2>3. sampled'[c] = Absent
      BY <1>1, <1>2 DEF IInv, PassInv
    <2>4. Holds(mem, f)
      BY <1>5, <2>1 DEF IInv, View, Sound, BiasedAll, BiasedIn, Holds, ProcInv
    <2>5. QED
      BY <1>1, <1>2, <2>1, <2>2, <2>3, <2>4 DEF SeenOrNew, OwedOrNew, Holds
  <1>6. PassInv'
    <2>1. pc \in {"apply", "write"} => \A q \in Heirs' : SeenOrNew(q)'
      BY <1>4, <1>5 DEF IInv, PassInv
    <2>2. pc \in {"restore", "release"} => \A q \in Heirs' : OwedOrNew(q)'
      BY <1>4, <1>5 DEF IInv, PassInv
    <2>3. QED
      BY <1>1, <1>2, <1>3, <2>1, <2>2 DEF IInv, PassInv
  <1>7. QED
    BY <1>1, <1>2, <1>6 DEF IInv

-----------------------------------------------------------------------------
LEMMA InitIInv == Init => IInv
  <1> SUFFICES ASSUME Init PROVE IInv
    OBVIOUS
  <1>1. TypeOK
    BY InitTyped
  <1>2. Alive = {} /\ Heirs = {} /\ View = NoRecords /\ ledger = NoRecords
    BY DEF Init, Alive, Heirs, View
  <1>3. ASSUME NEW m, m = NoRecords PROVE Sound(m)
    BY <1>2, <1>3, Nothing
       DEF Sound, RecordInv, RecordOK, KnownOK, DebtOK, OwesAll, BiasedAll
  <1>4. Sound(ledger) /\ Sound(View)
    <2>1. ASSUME NEW m, m = NoRecords PROVE Sound(ledger)
      BY <1>2, <1>3, <2>1
         DEF Sound, RecordInv, RecordOK, KnownOK, DebtOK, OwesAll, BiasedAll
    <2>2. QED
      BY <1>2, <2>1
  <1>5. ProcInv
    BY <1>2, Constants DEF Init, ProcInv
  <1>6. PassInv
    BY <1>2 DEF Init, PassInv, InWrite, NoSample
  <1>7. QED
    BY <1>1, <1>4, <1>5, <1>6 DEF IInv

LEMMA NextIInv ==
  ASSUME ~Torn
  PROVE  IInv /\ [Next]_vars => IInv'
  <1> SUFFICES ASSUME IInv, [Next]_vars PROVE IInv'
    OBVIOUS
  <1>1. TypeOK'
    BY Typed DEF IInv
  <1>2. CASE Processes
    <2>1. ASSUME NEW p \in Procs, NEW from \in Procs \cup {Init1}, Fork(p, from) PROVE IInv'
      BY <1>1, <2>1, ForkKeeps
    <2>2. ASSUME NEW p \in Procs, Exit(p) PROVE IInv'
      BY <1>1, <2>2, ExitKeeps
    <2>3. ASSUME NEW p \in Procs, NEW v \in Foreign[p], OperatorSets(p, v) PROVE IInv'
      BY <1>1, <2>3, OperatorKeeps
    <2>4. QED
      BY <1>2, <2>1, <2>2, <2>3 DEF Processes
  <1>3. CASE Pass
    <2>1. ASSUME NEW kind \in Modes, PassBegin(kind) PROVE IInv'
      BY <1>1, <2>1, BeginKeeps
    <2>2. ASSUME NEW p \in Procs, BiasIntent(p) PROVE IInv'
      BY <1>1, <2>2, IntentKeeps
    <2>3. ASSUME NEW p \in Procs, BiasDropStale(p) PROVE IInv'
      BY <1>1, <2>3, DropStaleKeeps
    <2>4. ASSUME NEW p \in Procs, RestorePending(p) PROVE IInv'
      BY <1>1, <2>4, RestoreKeeps
    <2>5. CASE BiasWrite
      BY <1>1, <2>5, WriteKeeps
    <2>6. CASE Sweep
      BY <1>1, <2>6, SweepKeeps
    <2>7. CASE SweepSettled
      BY <1>1, <2>7, SettledKeeps
    <2>8. CASE PassEnd
      BY <1>1, <2>8, EndKeeps
    <2>9. CASE ReloadEnd
      BY <1>1, <2>9, ReloadKeeps
    <2>10. ASSUME NEW i \in Pids, ReleaseRoot(i) PROVE IInv'
      BY <1>1, <2>10, ReleaseKeeps
    <2>11. QED
      BY <1>3, <2>1, <2>2, <2>3, <2>4, <2>5, <2>6, <2>7, <2>8, <2>9, <2>10 DEF Pass
  <1>4. CASE GuardDies
    BY <1>1, <1>4, DiesKeeps
  <1>5. CASE Hydrate
    BY <1>1, <1>5, HydrateKeeps
  <1>6. CASE UNCHANGED vars
    <2>1. UNCHANGED <<life, parent, adj, base, mark, mem, ledger, last, pc, mode, sampled, cur, late>>
      BY <1>6 DEF vars
    <2>2. Quiet /\ ~\E q \in Procs : Taken(q)
      BY <2>1, NothingTaken
    <2>3. ledger' = ledger /\ View' = View
      BY <2>1 DEF View
    <2>4. ProcInv' /\ Sound(ledger)' /\ Sound(View)'
      BY <2>2, <2>3, QuietStep DEF IInv
    <2>5. PassInv'
      BY <2>1 DEF IInv, PassInv, InWrite, BiasedIn, Born, Heirs, Alive, SeenOrNew, OwedOrNew,
                  Above, Holds
    <2>6. QED
      BY <1>1, <2>4, <2>5 DEF IInv
  <1>7. QED
    BY <1>2, <1>3, <1>4, <1>5, <1>6 DEF Next

-----------------------------------------------------------------------------
(* Every variable of GuardRuntimeState, its ledger and the pass has its type,
   whatever fsync does. *)
THEOREM TypeCorrect == Spec => []TypeOK
  <1>1. Init => TypeOK
    BY InitTyped
  <1>2. TypeOK /\ [Next]_vars => TypeOK'
    BY Typed
  <1>3. QED
    BY <1>1, <1>2, PTL DEF Spec

(* apply_oom_bias writes ahead: whom the guard biased is on record, in the ledger
   and in a running guard's memory, with the value it had; through crashes,
   failed persists and writes, pids used again and adjustments by others, as
   long as a persist that reports an error has left the old ledger. *)
THEOREM BiasStaysOnRecord ==
  ASSUME ~Torn
  PROVE  Spec => []BiasIsRecorded
  <1>1. IInv => BiasIsRecorded
    BY DEF IInv, Sound, BiasedAll, BiasedIn, BiasIsRecorded
  <1>2. QED
    BY InitIInv, NextIInv, <1>1, PTL DEF Spec

(* sweep_stranded_oom_descendants loses nobody: who inherited the target is
   pending, or will be found by the next sweep below a root that is still on
   record; for any number of processes and roots nested in one another. *)
THEOREM HeirsAreOwed ==
  ASSUME ~Torn
  PROVE  Spec => []InheritedIsOwed
  <1>1. IInv => InheritedIsOwed
    <2> SUFFICES ASSUME IInv, NEW p \in Heirs, View.pending[p] = NoDebt
                 PROVE  Owed(p)
      BY DEF InheritedIsOwed, Heirs, Owed
    <2> DEFINE i == NearestRoot(parent, p, SweepRoots(View))
    <2>1. p \in Procs /\ PidOf[p] \in Pids /\ Sound(View)
      BY Constants DEF Heirs, Alive, IInv
    <2>2. HasRoot(View, p)
      BY <2>1 DEF Sound, OwesAll
    <2>3. \E a \in Above(p) : PidOf[a] \in SweepRoots(View)
      <3>1. ASSUME NEW m, m = View
            PROVE  \E a \in Above(p) : PidOf[a] \in SweepRoots(View)
        <4>1. HasRoot(m, p)
          BY <2>2, <3>1 DEF HasRoot, Holds
        <4>2. QED
          BY <2>1, <3>1, <4>1, RootSwept DEF IInv
      <3>2. QED
        BY <3>1
    <2>4. i # Init1 /\ i \in SweepRoots(View)
      BY <2>1, <2>3, NearestFinds, NearestIs DEF Above
    <2>5. i \in Pids
      BY <2>4 DEF SweepRoots
    <2>6. p \notin View.known[i] /\ PidOf[p] \notin Recorded(View)
      BY <2>1, <2>5 DEF Sound, RecordInv, KnownOK, HeirOK, Recorded
    <2>7. QED
      BY <2>4, <2>6 DEF Owed
  <1>2. QED
    BY InitIInv, NextIInv, <1>1, PTL DEF Spec

-----------------------------------------------------------------------------
(* The values.  Going up from p one meets at most one process of the roots. *)
LEMMA UpUnfolds ==
  ASSUME NEW f, NEW z \in Procs, NEW stop, NEW x \in Up(f, z, stop)
  PROVE  f[z] \in Procs /\ (x = f[z] \/ (PidOf[f[z]] \notin stop /\ x \in Up(f, f[z], stop)))
  <1>1. CASE f[z] \in Procs
    <2> DEFINE S == {y \in Procs : y = f[z] \/ (PidOf[f[z]] \notin stop /\ y \in Up(f, f[z], stop))}
    <2>1. ASSUME NEW y \in S \cup {z}, y = z \/ PidOf[y] \notin stop, f[y] \in Procs
          PROVE  f[y] \in S
      <3>1. CASE y = z
        BY <1>1, <3>1
      <3>2. CASE y # z /\ y = f[z]
        BY <1>1, <2>1, <3>2, UpIsClosed
      <3>3. CASE y # z /\ y # f[z]
        <4>1. PidOf[f[z]] \notin stop /\ y \in Up(f, f[z], stop)
          BY <2>1, <3>3
        <4>2. PidOf[y] \notin stop
          BY <2>1, <3>3
        <4>3. QED
          BY <1>1, <2>1, <4>1, <4>2, UpIsClosed
      <3>4. QED
        BY <3>1, <3>2, <3>3
    <2>2. Up(f, z, stop) \subseteq S
      <3> HIDE DEF S
      <3>1. S \in SUBSET Procs
        BY DEF S
      <3>2. QED
        BY <2>1, <3>1, UpIsLeast
    <2>3. QED
      BY <1>1, <2>2
  <1>2. CASE f[z] \notin Procs
    <2>1. \A S \in SUBSET Procs : S = {} => Up(f, z, stop) \subseteq S
      BY <1>2, UpIsLeast
    <2>2. {} \in SUBSET Procs
      OBVIOUS
    <2>3. Up(f, z, stop) \subseteq {}
      BY <2>1, <2>2
    <2>4. QED
      BY <2>3
  <1>3. QED
    BY <1>1, <1>2

LEMMA OneHit ==
  ASSUME NEW f, NEW p \in Procs, NEW stop,
         NEW x \in Up(f, p, stop), PidOf[x] \in stop,
         NEW y \in Up(f, p, stop), PidOf[y] \in stop
  PROVE  x = y
  <1> DEFINE Leads(z) == z = x \/ (PidOf[z] \notin stop /\ x \in Up(f, z, stop))
             S == {z \in Procs : Leads(z)}
  <1>1. ASSUME NEW z \in S \cup {p}, z = p \/ PidOf[z] \notin stop, f[z] \in Procs
        PROVE  f[z] \in S
    <2>1. z \in Procs /\ x \in Procs
      BY UpIsClosed
    <2>2. x \in Up(f, z, stop)
      BY <1>1
    <2>3. x = f[z] \/ (PidOf[f[z]] \notin stop /\ x \in Up(f, f[z], stop))
      BY <2>1, <2>2, UpUnfolds
    <2>4. QED
      BY <1>1, <2>3
  <1>2. Up(f, p, stop) \subseteq S
    <2>1. S \in SUBSET Procs
      OBVIOUS
    <2> HIDE DEF S
    <2>2. QED
      BY <1>1, <2>1, UpIsLeast
  <1>3. QED
    BY <1>2

LEMMA NearestHit ==
  ASSUME NEW f, NEW p \in Procs, NEW roots, NEW a \in Up(f, p, roots), PidOf[a] \in roots
  PROVE  NearestRoot(f, p, roots) = PidOf[a]
  <1> DEFINE hits == {x \in Up(f, p, roots) : PidOf[x] \in roots}
  <1>1. a \in hits
    OBVIOUS
  <1>2. (CHOOSE x \in hits : TRUE) \in hits
    BY <1>1
  <1>3. (CHOOSE x \in hits : TRUE) = a
    BY <1>1, <1>2, OneHit
  <1>4. QED
    BY <1>1, <1>3 DEF NearestRoot

(* With other roots one still comes as far, if they stop nowhere on the way. *)
LEMMA UpAsFar ==
  ASSUME NEW f, NEW g, NEW p \in Procs, NEW stop, NEW other,
         \A x \in Up(f, p, stop) \cup {p} : g[x] = f[x],
         \A x \in Up(f, p, stop) : PidOf[x] \in other => PidOf[x] \in stop
  PROVE  Up(f, p, stop) \subseteq Up(g, p, other)
  <1> DEFINE S == Up(f, p, stop) \cap Up(g, p, other)
  <1>1. ASSUME NEW x \in S \cup {p}, x = p \/ PidOf[x] \notin stop, f[x] \in Procs
        PROVE  f[x] \in S
    <2>1. f[x] \in Up(f, p, stop)
      BY <1>1, UpIsClosed
    <2>2. g[x] = f[x] /\ (x = p \/ PidOf[x] \notin other)
      BY <1>1
    <2>3. f[x] \in Up(g, p, other)
      BY <1>1, <2>2, UpIsClosed
    <2>4. QED
      BY <2>1, <2>3
  <1>2. S \in SUBSET Procs
    BY UpIsClosed
  <1> HIDE DEF S
  <1>3. Up(f, p, stop) \subseteq S
    BY <1>1, <1>2, UpIsLeast
  <1>4. QED
    BY <1>3 DEF S

LEMMA UpToParent ==
  ASSUME NEW f, NEW p \in Procs, NEW stop, f[p] \in Procs, PidOf[f[p]] \in stop
  PROVE  Up(f, p, stop) = {f[p]}
  <1>1. f[p] \in Up(f, p, stop)
    BY UpIsClosed
  <1>2. \A S \in SUBSET Procs : S = {f[p]} => Up(f, p, stop) \subseteq S
    BY UpIsLeast
  <1>3. {f[p]} \in SUBSET Procs
    OBVIOUS
  <1>4. Up(f, p, stop) \subseteq {f[p]}
    BY <1>2, <1>3
  <1>5. QED
    BY <1>1, <1>4

LEMMA UpIsAbove ==
  ASSUME NEW p \in Procs, NEW stop
  PROVE  Up(parent, p, stop) \subseteq Above(p) /\ Above(p) \subseteq Procs
  BY AboveIsClosed, UpIsLeast DEF Above

(* Who stops the sweep on its way up: who is on record, or has a pid that is owed for. *)
Stands(m, x) == m.biased[PidOf[x]].proc = x \/ PidOf[x] \in PendingRoots(m)

LEMMA RecordNames ==
  ASSUME ProcInv, NEW m, RecordInv(m), NEW x \in Alive, PidOf[x] \in Recorded(m),
         Match(m.biased[PidOf[x]].proc) \/ Gone(m.biased[PidOf[x]].proc)
  PROVE  m.biased[PidOf[x]].proc = x
  <1>1. x \in Procs /\ RecordOK(m, PidOf[x])
    BY Constants DEF Alive, RecordInv
  <1>2. PidOf[m.biased[PidOf[x]].proc] = PidOf[x]
    BY <1>1 DEF RecordOK, Recorded
  <1>3. ~Gone(m.biased[PidOf[x]].proc)
    BY <1>2 DEF Gone
  <1>4. QED
    BY <1>2, <1>3 DEF Match, ProcInv

LEMMA StandsSwept ==
  ASSUME ProcInv, NEW m, RecordInv(m), NEW x \in Alive
  PROVE  /\ PidOf[x] \in SweepRoots(m) <=> Stands(m, x)
         /\ RootValues(m, PidOf[x]) =
              IF m.biased[PidOf[x]].proc = x THEN {m.biased[PidOf[x]].orig}
              ELSE {m.pending[p].orig : p \in {q \in Indebted(m) : m.pending[q].root = PidOf[x]}}
  <1> DEFINE i == PidOf[x]
  <1>1. x \in Procs /\ i \in Pids
    BY Constants DEF Alive
  <1>3. m.biased[i].proc = x => i \in Recorded(m) /\ Match(m.biased[i].proc)
    BY <1>1, Nothing, Constants DEF Recorded, Match
  <1>4. ASSUME i \in Recorded(m), Match(m.biased[i].proc) \/ Gone(m.biased[i].proc)
        PROVE  m.biased[i].proc = x
    BY <1>4, RecordNames
  <1>5. RootValues(m, i) =
              IF m.biased[i].proc = x THEN {m.biased[i].orig}
              ELSE {m.pending[p].orig : p \in {q \in Indebted(m) : m.pending[q].root = i}}
    BY <1>3, <1>4 DEF RootValues
  <1>6. i \in SweepRoots(m) <=> RootValues(m, i) # {}
    BY <1>1 DEF SweepRoots
  <1>7. QED
    BY <1>5, <1>6 DEF Stands, PendingRoots

LEMMA OwedValue ==
  ASSUME ProcInv, NEW m, RecordInv(m), NEW x \in Alive, m.biased[PidOf[x]].proc # x,
         NEW q \in Indebted(m), m.pending[q].root = PidOf[x]
  PROVE  m.pending[q].orig \in RootValues(m, PidOf[x])
  BY RecordNames DEF RootValues

(* Both hold after a step as well. *)
LEMMA AfterAlive == (ProcInv => \A p \in Procs : Above(p) \subseteq Alive)'
  <1>1. ProcInv => \A p \in Procs : Above(p) \subseteq Alive
    BY AboveAlive
  <1>2. QED
    BY <1>1, PTL

LEMMA AfterSwept ==
  (\A m : ProcInv /\ RecordInv(m) =>
      \A x \in Alive : PidOf[x] \in SweepRoots(m) => Stands(m, x))'
  <1>1. \A m : ProcInv /\ RecordInv(m) =>
          \A x \in Alive : PidOf[x] \in SweepRoots(m) => Stands(m, x)
    BY StandsSwept
  <1>2. QED
    BY <1>1, PTL

(* What the root a would give back to p, which inherited from it. *)
Gives(m, p, a) ==
    LET debt == [root |-> PidOf[a], orig |-> base[p]] IN
    /\ m.biased[PidOf[a]].proc = a => Holds(m, a) /\ m.biased[PidOf[a]].orig = base[p]
    /\ m.biased[PidOf[a]].proc # a => \E q \in Above(p) \cup {p} : m.pending[q] = debt
    /\ m.pending[p] # NoDebt => m.pending[p] = debt

(* The nearest root of whoever inherited gives back the value p would have; and
   no debt is left for a process the guard has biased since. *)
ComesFrom(m, p) == \E a \in Up(parent, p, SweepRoots(m)) : Gives(m, p, a)
Truthful(m) ==
    /\ \A p \in Heirs : ComesFrom(m, p) /\ PidOf[p] \notin PendingRoots(m)
    /\ \A p \in Alive \ late : mark[p] = "biased" => m.pending[p] = NoDebt
InHand ==
    pc = "write" /\ cur \in Alive \ late => mem.pending[cur] = NoDebt /\ ledger.pending[cur] = NoDebt
AtRest == base \in [Procs -> Values] /\ \A p \in Procs \ Alive : adj[p] = base[p]
ValueInv ==
    /\ AtRest
    /\ Truthful(ledger) /\ Truthful(View) /\ InHand

LEMMA GivesStands ==
  ASSUME ProcInv, NEW m, NEW p \in Alive, NEW a \in Above(p), Gives(m, p, a)
  PROVE  Stands(m, a)
  <1>1. p \in Procs /\ a \in Alive /\ Above(p) \subseteq Procs
    BY AboveAlive, UpIsAbove DEF Alive
  <1>2. a \in Procs /\ PidOf[a] \in Pids
    BY <1>1, Constants DEF Alive
  <1>3. CASE m.biased[PidOf[a]].proc = a
    BY <1>3 DEF Stands
  <1>4. CASE m.biased[PidOf[a]].proc # a
    <2>1. PICK q \in Above(p) \cup {p} : m.pending[q] = [root |-> PidOf[a], orig |-> base[p]]
      BY <1>4 DEF Gives
    <2>2. q \in Procs /\ m.pending[q].root = PidOf[a] /\ m.pending[q] # NoDebt
      BY <1>1, <1>2, <2>1, Nothing, Constants
    <2>3. QED
      BY <2>2 DEF Stands, PendingRoots, Indebted
  <1>5. QED
    BY <1>3, <1>4

(* The root of an heir whose parent is held is the parent. *)
LEMMA ParentGives ==
  ASSUME ProcInv, NEW m, RecordInv(m), NEW p \in Alive, parent[p] \in Procs,
         Holds(m, parent[p])
  PROVE  Up(parent, p, SweepRoots(m)) = {parent[p]}
  <1>1. p \in Procs /\ parent[p] \in Alive
    BY DEF Alive, ProcInv
  <1>2. Stands(m, parent[p])
    BY DEF Stands, Holds
  <1>3. PidOf[parent[p]] \in SweepRoots(m)
    BY <1>1, <1>2, StandsSwept
  <1>4. QED
    BY <1>1, <1>3, UpToParent

(* From one set of maps to the next. *)
LEMMA StillFrom ==
  ASSUME ProcInv, ProcInv', NEW m, NEW n, RecordInv(m), RecordInv(n)',
         NEW p \in Heirs, p \in Heirs', ComesFrom(m, p),
         \A x \in Above(p) \cup {p} : parent'[x] = parent[x],
         \A x \in Up(parent, p, SweepRoots(m)) : Stands(n, x) => Stands(m, x),
         \A a \in Up(parent, p, SweepRoots(m)) : Gives(m, p, a) => Gives(n, p, a)'
  PROVE  ComesFrom(n, p)'
  <1> DEFINE U == Up(parent, p, SweepRoots(m))
  <1>1. p \in Procs /\ p \in Alive /\ p \in Alive'
    BY DEF Heirs, Alive
  <1>2. Above(p)' = Above(p)
    BY <1>1, AboveFrame DEF Above
  <1>3. Above(p) \subseteq Alive /\ Above(p) \subseteq Alive'
    <2>1. Above(p)' \subseteq Alive'
      BY <1>1, AfterAlive
    <2>2. QED
      BY <1>1, <1>2, <2>1, AboveAlive
  <1>4. U \subseteq Above(p)
    BY <1>1, UpIsAbove
  <1>5. ASSUME NEW x \in U, PidOf[x] \in SweepRoots(n)'
        PROVE  PidOf[x] \in SweepRoots(m)
    <2>1. x \in Alive /\ x \in Alive'
      BY <1>3, <1>4
    <2>2. Stands(n, x)'
      BY <1>5, <2>1, AfterSwept
    <2>3. Stands(m, x)
      BY <2>2 DEF Stands, PendingRoots, Indebted
    <2>4. QED
      BY <2>1, <2>3, StandsSwept
  <1>6. U \subseteq Up(parent', p, SweepRoots(n)')
    BY <1>1, <1>4, <1>5, UpAsFar
  <1>7. PICK a \in U : Gives(m, p, a)
    BY DEF ComesFrom
  <1>8. QED
    BY <1>6, <1>7 DEF ComesFrom

LEMMA TruthAt ==
  ASSUME NEW m, Truthful(m)'
  PROVE  /\ m = ledger' => Truthful(ledger)'
         /\ m = View' => Truthful(View)'
  <1>1. ASSUME m = ledger' PROVE Truthful(ledger)'
    <2>1. /\ SweepRoots(m)' = SweepRoots(ledger)' /\ PendingRoots(m)' = PendingRoots(ledger)'
          /\ \A p, a : Gives(m, p, a)' => Gives(ledger, p, a)'
      BY <1>1 DEF SweepRoots, RootValues, PendingRoots, Indebted, Recorded, Gives, Holds
    <2>2. QED
      BY <1>1, <2>1 DEF Truthful, ComesFrom
  <1>2. ASSUME m = View' PROVE Truthful(View)'
    <2>1. /\ SweepRoots(m)' = SweepRoots(View)' /\ PendingRoots(m)' = PendingRoots(View)'
          /\ \A p, a : Gives(m, p, a)' => Gives(View, p, a)'
      BY <1>2 DEF SweepRoots, RootValues, PendingRoots, Indebted, Recorded, Gives, Holds
    <2>2. QED
      BY <1>2, <2>1 DEF Truthful, ComesFrom
  <1>3. QED
    BY <1>1, <1>2

LEMMA TruthOf ==
  ASSUME NEW m
  PROVE  /\ m = ledger /\ Truthful(ledger) => Truthful(m)
         /\ m = View /\ Truthful(View) => Truthful(m)
         /\ m = mem /\ Truthful(View) /\ pc # "down" => Truthful(m)
  <1>1. ASSUME NEW n, m = n, Truthful(n) PROVE Truthful(m)
    BY <1>1
  <1>2. QED
    BY <1>1 DEF View

LEMMA QuietGives ==
  ASSUME TypeOK, ProcInv, Quiet, NEW m, NEW n, NEW p \in Heirs', NEW a \in Above(p), Gives(m, p, a),
         m.biased[PidOf[a]].proc = a => n.biased[PidOf[a]] = m.biased[PidOf[a]],
         m.biased[PidOf[a]].proc # a => n.biased[PidOf[a]].proc # a,
         \A q \in Above(p) \cup {p} : n.pending[q] = m.pending[q]
  PROVE  Gives(n, p, a)'
  <1>1. /\ p \in Heirs /\ p \in Procs /\ Above(p)' = Above(p) /\ base'[p] = base[p]
    BY QuietProcs DEF Heirs, Alive, Quiet, Same, GivenBack, Taken
  <1>2. a \in Procs
    BY <1>1, UpIsAbove
  <1>3. Holds(m, a) => Holds(m, a)'
    BY <1>2, QuietHolds
  <1>4. n.biased[PidOf[a]].proc = a => m.biased[PidOf[a]].proc = a /\ n.biased[PidOf[a]] = m.biased[PidOf[a]]
    OBVIOUS
  <1>5. ASSUME n.biased[PidOf[a]].proc = a
        PROVE  Holds(n, a)' /\ n.biased[PidOf[a]].orig = base'[p]
    BY <1>1, <1>3, <1>4, <1>5 DEF Gives, Holds
  <1>6. ASSUME n.biased[PidOf[a]].proc # a
        PROVE  \E q \in Above(p) \cup {p} : n.pending[q] = [root |-> PidOf[a], orig |-> base'[p]]
    BY <1>1, <1>6 DEF Gives
  <1>7. ASSUME n.pending[p] # NoDebt
        PROVE  n.pending[p] = [root |-> PidOf[a], orig |-> base'[p]]
    BY <1>1, <1>7 DEF Gives
  <1>8. QED
    BY <1>1, <1>5, <1>6, <1>7 DEF Gives

LEMMA QuietTruth ==
  ASSUME TypeOK, ProcInv, Quiet, NEW m, NEW n, RecordInv(m), RecordInv(n)', Truthful(m),
         \A p \in Heirs' : PidOf[p] \in PendingRoots(n) => PidOf[p] \in PendingRoots(m),
         \A p \in Heirs' : \A a \in Up(parent, p, SweepRoots(m)) :
            /\ Stands(n, a) => Stands(m, a)
            /\ Gives(m, p, a) => Gives(n, p, a)',
         \A p \in Alive : mark'[p] = "biased" /\ p \notin late' => n.pending[p] = NoDebt
  PROVE  Truthful(n)'
  <1>1. ProcInv' /\ Heirs' \subseteq Heirs /\ Alive' = Alive /\ parent' = parent
    BY QuietProcs DEF Quiet
  <1>2. ASSUME NEW p \in Heirs'
        PROVE  ComesFrom(n, p)' /\ PidOf[p] \notin PendingRoots(n)
    <2>1. p \in Heirs /\ ComesFrom(m, p) /\ PidOf[p] \notin PendingRoots(m)
      BY <1>1 DEF Truthful
    <2>2. ComesFrom(n, p)'
      BY <1>1, <2>1, StillFrom
    <2>3. QED
      BY <2>1, <2>2
  <1>3. PendingRoots(n)' = PendingRoots(n)
    BY DEF PendingRoots, Indebted
  <1>4. QED
    BY <1>1, <1>2, <1>3 DEF Truthful

(* A step of the processes alone, *)
LEMMA QuietSame ==
  ASSUME TypeOK, ProcInv, Quiet, NEW m, Sound(m), Sound(m)', Truthful(m),
         \A p \in Procs : Taken(p) /\ p \notin late' => m.pending[p] = NoDebt
  PROVE  Truthful(m)'
  <1>1. ASSUME NEW p \in Heirs', NEW a \in Up(parent, p, SweepRoots(m)), Gives(m, p, a)
        PROVE  Gives(m, p, a)'
    <2>1. p \in Procs
      BY DEF Heirs, Alive
    <2>2. a \in Above(p)
      BY <1>1, <2>1, UpIsAbove
    <2>3. QED
      BY <1>1, <2>2, QuietGives
  <1>2. ASSUME NEW p \in Alive, mark'[p] = "biased", p \notin late'
        PROVE  m.pending[p] = NoDebt
    <2>1. p \in Procs /\ p \notin late
      BY <1>2 DEF Alive, Quiet
    <2>2. Taken(p) \/ mark[p] = "biased"
      BY <1>2, <2>1 DEF Quiet, Same, GivenBack, Taken
    <2>3. QED
      BY <1>2, <2>1, <2>2 DEF Truthful
  <1>3. RecordInv(m) /\ RecordInv(m)'
    BY DEF Sound
  <1>4. QED
    BY <1>1, <1>2, <1>3, QuietTruth

(* and one that drops records of the dead. *)
LEMMA KeptTruth ==
  ASSUME TypeOK, ProcInv, Quiet, ~\E p \in Procs : Taken(p),
         NEW m, NEW n, Sound(m), Sound(n)', Truthful(m),
         \A a \in Alive : n.biased[PidOf[a]].proc = a <=> m.biased[PidOf[a]].proc = a,
         \A a \in Alive : m.biased[PidOf[a]].proc = a => n.biased[PidOf[a]] = m.biased[PidOf[a]],
         \A q \in Alive : n.pending[q] = m.pending[q],
         PendingRoots(n) \subseteq PendingRoots(m)
  PROVE  Truthful(n)'
  <1>1. ASSUME NEW p \in Heirs', NEW a \in Up(parent, p, SweepRoots(m))
        PROVE  /\ Stands(n, a) => Stands(m, a)
               /\ Gives(m, p, a) => Gives(n, p, a)'
    <2>1. p \in Procs /\ p \in Alive
      BY QuietProcs DEF Heirs, Alive
    <2>2. a \in Above(p) /\ Above(p) \subseteq Alive
      BY <1>1, <2>1, UpIsAbove, AboveAlive
    <2>3. QED
      BY <2>1, <2>2, QuietGives DEF Stands
  <1>2. ASSUME NEW p \in Alive, mark'[p] = "biased", p \notin late'
        PROVE  n.pending[p] = NoDebt
    <2>1. p \in Procs /\ p \notin late /\ mark[p] = "biased"
      BY <1>2 DEF Alive, Quiet, Same, GivenBack, Taken
    <2>2. QED
      BY <1>2, <2>1 DEF Truthful
  <1>3. RecordInv(m) /\ RecordInv(n)'
    BY DEF Sound
  <1>4. QED
    BY <1>1, <1>2, <1>3, QuietTruth

LEMMA SoundAfter ==
  ASSUME NEW m
  PROVE  /\ m = ledger' /\ Sound(ledger)' => Sound(m)'
         /\ m = View' /\ Sound(View)' => Sound(m)'
  BY DEF Sound, RecordInv, RecordOK, KnownOK, DebtOK, HeirOK, OwesAll, HasRoot, Holds,
         BiasedAll, BiasedIn

LEMMA LedgerTruth ==
  ASSUME IInv, IInv', ValueInv, Quiet, ledger' = ledger,
         \A p \in Procs : Taken(p) /\ p \notin late' => ledger.pending[p] = NoDebt
  PROVE  Truthful(ledger)'
  <1>1. ASSUME NEW m, m = ledger PROVE Truthful(ledger)'
    <2>1. Sound(m) /\ Sound(m)' /\ Truthful(m)
      BY <1>1, SoundOf, SoundAfter, TruthOf DEF IInv, ValueInv
    <2>2. Truthful(m)'
      BY <1>1, <2>1, QuietSame DEF IInv
    <2>3. QED
      BY <1>1, <2>2, TruthAt
  <1>2. QED
    BY <1>1

LEMMA ViewTruth ==
  ASSUME IInv, IInv', ValueInv, Quiet, View' = View,
         \A p \in Procs : Taken(p) /\ p \notin late' => View.pending[p] = NoDebt
  PROVE  Truthful(View)'
  <1>1. ASSUME NEW m, m = View PROVE Truthful(View)'
    <2>1. Sound(m) /\ Sound(m)' /\ Truthful(m)
      BY <1>1, SoundOf, SoundAfter, TruthOf DEF IInv, ValueInv
    <2>2. Truthful(m)'
      BY <1>1, <2>1, QuietSame DEF IInv
    <2>3. QED
      BY <1>1, <2>2, TruthAt
  <1>2. QED
    BY <1>1

LEMMA NewTruth ==
  ASSUME IInv, IInv', ValueInv, Quiet, ~\E p \in Procs : Taken(p),
         NEW n, Truthful(n)', ledger' = ledger \/ ledger' = n, View' = n
  PROVE  Truthful(ledger)' /\ Truthful(View)'
  BY TruthAt, LedgerTruth

(* A value a process would have is a possible one; who is not there has none other. *)
LEMMA KeepsRest ==
  ASSUME IInv, AtRest, [Next]_vars
  PROVE  AtRest'
  <1>1. TypeOK /\ Sound(View)
    BY DEF IInv
  <1>2. base \in [Procs -> Values] /\ DOMAIN adj = Procs /\ DOMAIN base = Procs /\ DOMAIN life = Procs
    BY <1>1 DEF AtRest, TypeOK
  <1>3. ASSUME NEW p \in Procs, NEW f \in Procs \cup {Init1}, Fork(p, f) PROVE AtRest'
    <2>1. base' \in [Procs -> Values]
      BY <1>2, <1>3, Constants DEF Fork, Alive
    <2>2. \A q \in Procs \ Alive' : q # p /\ q \notin Alive
      BY <1>2, <1>3 DEF Fork, Alive
    <2>3. \A q \in Procs \ {p} : adj'[q] = adj[q] /\ base'[q] = base[q]
      BY <1>2, <1>3 DEF Fork
    <2>4. QED
      BY <2>1, <2>2, <2>3 DEF AtRest
  <1>4. ASSUME NEW p \in Procs, Exit(p) PROVE AtRest'
    <2>1. base' = base /\ adj' = [adj EXCEPT ![p] = base[p]] /\ Alive' = Alive \ {p}
      BY <1>2, <1>4 DEF Exit, Alive
    <2>2. QED
      BY <1>2, <2>1 DEF AtRest
  <1>5. ASSUME NEW p \in Alive, NEW v \in Values, NEW w \in Values \cup {Target},
               base' = base \/ base' = [base EXCEPT ![p] = v],
               adj' = adj \/ adj' = [adj EXCEPT ![p] = w], life' = life
        PROVE  AtRest'
    BY <1>2, <1>5 DEF AtRest, Alive
  <1>6. ASSUME NEW p \in Procs, NEW v \in Foreign[p], OperatorSets(p, v) PROVE AtRest'
    BY <1>5, <1>6, Constants DEF OperatorSets
  <1>7. ASSUME UNCHANGED <<life, adj, base>> PROVE AtRest'
    BY <1>7 DEF AtRest, Alive
  <1>8. ASSUME NEW p \in Procs, RestorePending(p) PROVE AtRest'
    <2>1. Sound(mem) /\ mem.pending[p] # NoDebt
      BY <1>1, <1>8 DEF RestorePending, View, Indebted
    <2>2. mem.pending[p].orig \in Values
      BY <2>1 DEF Sound, RecordInv, DebtOK
    <2>3. QED
      BY <1>5, <1>7, <1>8, <2>2 DEF RestorePending, RestoreAdj
  <1>9. ASSUME NEW i \in Pids, ReleaseRoot(i) PROVE AtRest'
    <2>1. Sound(mem) /\ mem.biased[i] # NoRoot
      BY <1>1, <1>9 DEF ReleaseRoot, View, Recorded
    <2>2. mem.biased[i].orig \in Values
      BY <2>1 DEF Sound, RecordInv, RecordOK
    <2>3. QED
      BY <1>5, <1>7, <1>9, <2>2 DEF ReleaseRoot, RestoreAdj, Match
  <1>10. ASSUME BiasWrite PROVE AtRest'
    <2>1. CASE cur \in Alive /\ adj' = [adj EXCEPT ![cur] = Target]
      <3>1. base' = base /\ Alive' = Alive
        BY <1>10 DEF BiasWrite, processVars, Alive
      <3>2. QED
        BY <1>2, <2>1, <3>1 DEF AtRest
    <2>2. CASE UNCHANGED <<adj, mark>>
      BY <1>7, <1>10, <2>2 DEF BiasWrite, processVars
    <2>3. QED
      BY <1>10, <2>1, <2>2 DEF BiasWrite
  <1>11. ASSUME Processes PROVE AtRest'
    BY <1>3, <1>4, <1>6, <1>11 DEF Processes
  <1>12. ASSUME Pass PROVE AtRest'
    BY <1>7, <1>8, <1>9, <1>10, <1>12
       DEF Pass, PassBegin, BiasIntent, BiasDropStale, Sweep, SweepSettled, PassEnd, ReloadEnd, processVars
  <1>13. ASSUME GuardDies \/ Hydrate PROVE AtRest'
    BY <1>7, <1>13 DEF GuardDies, Hydrate, processVars
  <1>14. QED
    BY <1>7, <1>11, <1>12, <1>13 DEF Next, vars

TruthInv == Truthful(ledger) /\ Truthful(View) /\ InHand

LEMMA BeginTruth ==
  ASSUME IInv, IInv', ValueInv, NEW kind \in Modes, PassBegin(kind)
  PROVE  TruthInv'
  <1>1. Quiet /\ ~\E p \in Procs : Taken(p)
    BY NothingTaken DEF PassBegin, processVars
  <1>2. ledger' = ledger /\ View' = View
    BY DEF PassBegin, View
  <1>3. InHand'
    BY DEF PassBegin, InHand
  <1>4. QED
    BY <1>1, <1>2, <1>3, LedgerTruth, ViewTruth DEF TruthInv

LEMMA WriteTruth ==
  ASSUME IInv, IInv', ValueInv, BiasWrite
  PROVE  TruthInv'
  <1>1. /\ pc = "write" /\ cur \in Procs /\ mark[cur] = "own" /\ TypeOK
        /\ life' = life /\ parent' = parent /\ base' = base /\ late' = late
        /\ ledger' = ledger /\ View' = View /\ View = mem
    BY DEF BiasWrite, IInv, PassInv, InWrite, View, processVars
  <1>2. Quiet /\ \A p \in Procs : Taken(p) => p = cur /\ p \in Alive
    <2>1. \A p \in Procs : p # cur => Same(p)
      BY <1>1 DEF BiasWrite, TypeOK, Same
    <2>2. Same(cur) \/ Taken(cur)
      BY <1>1 DEF BiasWrite, TypeOK, Same, Taken
    <2>3. QED
      BY <1>1, <2>1, <2>2 DEF Quiet, Taken, Same
  <1>3. \A p \in Procs : Taken(p) /\ p \notin late' => ledger.pending[p] = NoDebt /\ View.pending[p] = NoDebt
    BY <1>1, <1>2 DEF ValueInv, InHand
  <1>4. InHand'
    BY DEF BiasWrite, InHand
  <1>5. QED
    BY <1>1, <1>2, <1>3, <1>4, LedgerTruth, ViewTruth DEF TruthInv

LEMMA DiesTruth ==
  ASSUME IInv, IInv', ValueInv, GuardDies
  PROVE  TruthInv'
  <1>1. Quiet /\ ~\E p \in Procs : Taken(p)
    BY NothingTaken DEF GuardDies, processVars
  <1>2. ledger' = ledger /\ View' = ledger'
    BY DEF GuardDies, View
  <1>3. Truthful(ledger)'
    BY <1>1, <1>2, LedgerTruth
  <1>4. ASSUME NEW n, n = ledger PROVE Truthful(View)'
    <2>1. Sound(n) /\ Sound(n)' /\ Truthful(n)
      BY <1>2, <1>4, SoundOf, SoundAfter, TruthOf DEF IInv, ValueInv
    <2>2. Truthful(n)'
      BY <1>1, <2>1, QuietSame DEF IInv
    <2>3. QED
      BY <1>2, <1>4, <2>2, TruthAt
  <1>5. InHand'
    BY DEF GuardDies, InHand
  <1>6. QED
    BY <1>3, <1>4, <1>5 DEF TruthInv

LEMMA HydrateTruth ==
  ASSUME IInv, IInv', ValueInv, Hydrate
  PROVE  TruthInv'
  <1>1. Quiet /\ ~\E p \in Procs : Taken(p)
    BY NothingTaken DEF Hydrate, processVars
  <1>2. ledger' = ledger /\ mem' = Hydrated /\ View' = Hydrated
    BY DEF Hydrate, View, Hydrated
  <1>3. ASSUME NEW m, m = ledger, NEW n, n = Hydrated
        PROVE  Truthful(n)'
    <2>1. Sound(m) /\ Truthful(m) /\ Sound(n)'
      BY <1>2, <1>3, SoundOf, SoundAfter, TruthOf DEF IInv, ValueInv
    <2>2. /\ \A i \in Pids : n.biased[i] = IF Match(m.biased[i].proc) THEN m.biased[i] ELSE NoRoot
          /\ \A p \in Procs : n.pending[p] = IF p \in Alive THEN m.pending[p] ELSE NoDebt
      BY <1>3, HydratedMade DEF IInv
    <2>3. \A a \in Alive : a \in Procs /\ PidOf[a] \in Pids /\ a # Init1
      BY Constants DEF Alive
    <2>4. /\ \A a \in Alive : n.biased[PidOf[a]].proc = a <=> m.biased[PidOf[a]].proc = a
          /\ \A a \in Alive : m.biased[PidOf[a]].proc = a => n.biased[PidOf[a]] = m.biased[PidOf[a]]
      BY <2>2, <2>3, Nothing DEF Match
    <2>5. \A q \in Alive : n.pending[q] = m.pending[q]
      BY <2>2, <2>3
    <2>6. PendingRoots(n) \subseteq PendingRoots(m)
      BY <2>2 DEF PendingRoots, Indebted
    <2>7. QED
      BY <1>1, <2>1, <2>4, <2>5, <2>6, KeptTruth DEF IInv
  <1>4. ASSUME NEW n, n = Hydrated
        PROVE  Truthful(ledger)' /\ Truthful(View)'
    <2>1. Truthful(n)'
      BY <1>3, <1>4
    <2>2. QED
      BY <1>1, <1>2, <1>4, <2>1, NewTruth
  <1>5. InHand'
    BY DEF Hydrate, InHand
  <1>6. QED
    BY <1>4, <1>5 DEF TruthInv

(* Maps that say the same of the living. *)
LEMMA EndTruth ==
  ASSUME ~Torn, IInv, IInv', ValueInv, PassEnd
  PROVE  TruthInv'
  <1>1. Quiet /\ ~\E p \in Procs : Taken(p)
    BY NothingTaken DEF PassEnd, processVars
  <1>2. /\ View = mem /\ View' = mem' /\ mem \in Records
        /\ mem' = IF mode = "restore" THEN mem ELSE Pruned(mem)
    BY DEF PassEnd, View, IInv, TypeOK
  <1>3. ASSUME NEW m, m = mem, NEW n, n = mem'
        PROVE  Truthful(n)'
    <2>1. Sound(m) /\ m \in Records /\ Truthful(m) /\ Sound(n)'
      BY <1>2, <1>3, SoundOf, SoundAfter, TruthOf DEF IInv, ValueInv
    <2>2. /\ n.pending = m.pending
          /\ \A j \in Pids : /\ n.biased[j] \in {m.biased[j], NoRoot}
                             /\ Match(m.biased[j].proc) => n.biased[j] = m.biased[j]
      BY <1>2, <1>3, <2>1, PrunedMade
    <2>3. \A a \in Alive : a \in Procs /\ PidOf[a] \in Pids /\ a # Init1
      BY Constants DEF Alive
    <2>4. /\ \A a \in Alive : n.biased[PidOf[a]].proc = a <=> m.biased[PidOf[a]].proc = a
          /\ \A a \in Alive : m.biased[PidOf[a]].proc = a => n.biased[PidOf[a]] = m.biased[PidOf[a]]
      BY <2>2, <2>3, Nothing DEF Match
    <2>5. PendingRoots(n) \subseteq PendingRoots(m)
      BY <2>2 DEF PendingRoots, Indebted
    <2>6. QED
      BY <1>1, <2>1, <2>2, <2>4, <2>5, KeptTruth DEF IInv
  <1>4. ledger' \in {ledger, mem'}
    <2>1. mem' \in Records
      BY DEF IInv, TypeOK
    <2>2. QED
      BY <2>1, Persists DEF IInv, PassInv, PassEnd
  <1>5. ASSUME NEW n, n = mem'
        PROVE  Truthful(ledger)' /\ Truthful(View)'
    <2>1. Truthful(n)'
      BY <1>3, <1>5
    <2>2. QED
      BY <1>1, <1>2, <1>4, <1>5, <2>1, NewTruth
  <1>6. InHand'
    BY DEF PassEnd, InHand
  <1>7. QED
    BY <1>5, <1>6 DEF TruthInv

(* A runtime that starts afresh owes nothing to anybody. *)
LEMMA NobodyComes ==
  ASSUME ProcInv, NEW m, Recorded(m) \cup Indebted(m) = {}, Truthful(m)
  PROVE  Heirs = {}
  <1>1. SUFFICES ASSUME NEW p \in Heirs PROVE FALSE
    OBVIOUS
  <1>2. p \in Procs /\ p \in Alive
    BY DEF Heirs, Alive
  <1>3. PICK a \in Up(parent, p, SweepRoots(m)) : Gives(m, p, a)
    BY DEF Truthful, ComesFrom
  <1>4. a \in Above(p) /\ a \in Alive /\ a \in Procs /\ PidOf[a] \in Pids
    BY <1>2, <1>3, UpIsAbove, AboveAlive, Constants DEF Alive
  <1>5. Stands(m, a)
    BY <1>2, <1>3, <1>4, GivesStands
  <1>6. m.biased[PidOf[a]] # NoRoot \/ PendingRoots(m) # {}
    BY <1>4, <1>5, Nothing, Constants DEF Stands
  <1>7. QED
    BY <1>4, <1>6 DEF Recorded, PendingRoots

LEMMA ReloadTruth ==
  ASSUME IInv, IInv', ValueInv, ReloadEnd
  PROVE  TruthInv'
  <1>1. Quiet /\ ~\E p \in Procs : Taken(p)
    BY NothingTaken DEF ReloadEnd, processVars
  <1>2. ledger' = ledger /\ View = mem /\ View' = mem'
    BY DEF ReloadEnd, View
  <1>3. ASSUME mem' = NoRecords, Recorded(mem) \cup Indebted(mem) = {}
        PROVE  Truthful(View)'
    <2>1. ASSUME NEW m, m = mem PROVE Heirs = {}
      <3>1. Truthful(m) /\ Recorded(m) \cup Indebted(m) = {}
        BY <1>2, <1>3, <2>1, TruthOf DEF ValueInv, Recorded, Indebted
      <3>2. QED
        BY <3>1, NobodyComes DEF IInv
    <2>2. Heirs' = {}
      BY <1>1, <2>1, QuietProcs DEF IInv
    <2>3. \A p \in Procs : View'.pending[p] = NoDebt
      BY <1>2, <1>3, Nothing
    <2>4. QED
      BY <2>2, <2>3 DEF Truthful, Alive
  <1>4. ASSUME mem' = mem PROVE Truthful(View)'
    BY <1>1, <1>2, <1>4, ViewTruth
  <1>5. Truthful(View)'
    BY <1>3, <1>4 DEF ReloadEnd
  <1>6. InHand'
    BY DEF ReloadEnd, InHand
  <1>7. QED
    BY <1>1, <1>2, <1>5, <1>6, LedgerTruth DEF TruthInv

LEMMA SettledTruth ==
  ASSUME ~Torn, IInv, IInv', ValueInv, SweepSettled
  PROVE  TruthInv'
  <1>1. Quiet /\ ~\E p \in Procs : Taken(p)
    BY NothingTaken DEF SweepSettled, processVars
  <1>2. View = mem /\ View' = mem' /\ mem' = mem /\ mem \in Records
    BY DEF SweepSettled, View, IInv, TypeOK
  <1>3. ledger' \in {ledger, mem'}
    BY <1>2, Persists DEF IInv, PassInv, SweepSettled
  <1>4. ASSUME NEW n, n = mem'
        PROVE  Truthful(ledger)' /\ Truthful(View)'
    <2>1. Sound(n) /\ Sound(n)' /\ Truthful(n)
      BY <1>2, <1>4, SoundOf, SoundAfter, TruthOf DEF IInv, ValueInv
    <2>2. Truthful(n)'
      BY <1>1, <2>1, QuietSame DEF IInv
    <2>3. QED
      BY <1>1, <1>2, <1>3, <1>4, <2>2, NewTruth
  <1>5. InHand'
    BY DEF SweepSettled, InHand
  <1>6. QED
    BY <1>4, <1>5 DEF TruthInv

LEMMA DropStaleTruth ==
  ASSUME IInv, IInv', ValueInv, NEW b \in Procs, BiasDropStale(b)
  PROVE  TruthInv'
  <1>1. Quiet /\ ~\E q \in Procs : Taken(q)
    BY NothingTaken DEF BiasDropStale, processVars
  <1>2. /\ ledger' = ledger /\ View = mem /\ View' = mem' /\ mem \in Records
        /\ mem' = [mem EXCEPT !.biased[PidOf[b]] = NoRoot]
    BY DEF BiasDropStale, BiasCandidate, View, IInv, TypeOK
  <1>3. b \in Alive /\ adj[b] # Target /\ ~CanBias(adj[b]) /\ mark[b] = "own"
    BY DEF BiasDropStale, BiasCandidate, IInv, ProcInv
  <1>4. ASSUME NEW m, m = mem, NEW n, n = mem'
        PROVE  Truthful(n)'
    <2>1. Sound(m) /\ m \in Records /\ Truthful(m) /\ Sound(n)'
      BY <1>2, <1>4, SoundOf, SoundAfter, TruthOf DEF IInv, ValueInv
    <2>2. n = [m EXCEPT !.biased[PidOf[b]] = NoRoot]
      BY <1>2, <1>4
    <2>3. /\ n.pending = m.pending
          /\ \A j \in Pids : n.biased[j] = IF j = PidOf[b] THEN NoRoot ELSE m.biased[j]
      BY <2>1, <2>2, DropMade, Constants
    <2>4. ASSUME NEW p \in Heirs', NEW a \in Up(parent, p, SweepRoots(m))
          PROVE  /\ Stands(n, a) => Stands(m, a)
                 /\ Gives(m, p, a) => Gives(n, p, a)'
      <3>1. p \in Procs /\ p \in Alive
        BY <1>1, QuietProcs DEF Heirs, Alive, IInv
      <3>2. a \in Above(p) /\ a \in Alive /\ a \in Procs /\ PidOf[a] \in Pids /\ a # Init1
        BY <2>4, <3>1, UpIsAbove, AboveAlive, Constants DEF IInv
      <3>3. n.biased[PidOf[a]].proc = a => m.biased[PidOf[a]].proc = a
        BY <2>3, <3>2, Nothing
      <3>4. Stands(n, a) => Stands(m, a)
        BY <2>3, <3>3 DEF Stands, PendingRoots, Indebted
      <3>5. ASSUME Gives(m, p, a) PROVE Gives(n, p, a)'
        <4>1. ASSUME m.biased[PidOf[a]].proc = a
              PROVE  n.biased[PidOf[a]] = m.biased[PidOf[a]]
          <5>1. a # b
            BY <1>3, <3>5, <4>1 DEF Gives, Holds
          <5>2. PidOf[a] # PidOf[b]
            BY <1>3, <3>2, <5>1 DEF IInv, ProcInv
          <5>3. QED
            BY <2>3, <3>2, <5>2
        <4>2. QED
          BY <1>1, <2>3, <3>2, <3>3, <3>5, <4>1, QuietGives DEF IInv
      <3>6. QED
        BY <3>4, <3>5
    <2>5. ASSUME NEW p \in Alive, mark'[p] = "biased", p \notin late'
          PROVE  n.pending[p] = NoDebt
      <3>1. p \notin late /\ mark[p] = "biased"
        BY <1>1, <2>5 DEF Alive, Quiet, Same, GivenBack, Taken
      <3>2. QED
        BY <2>1, <2>3, <2>5, <3>1 DEF Truthful
    <2>6. PendingRoots(n) = PendingRoots(m) /\ RecordInv(m) /\ RecordInv(n)'
      BY <2>1, <2>3 DEF PendingRoots, Indebted, Sound
    <2>7. QED
      BY <1>1, <2>1, <2>4, <2>5, <2>6, QuietTruth DEF IInv
  <1>5. ASSUME NEW n, n = mem'
        PROVE  Truthful(ledger)' /\ Truthful(View)'
    <2>1. Truthful(n)'
      BY <1>4, <1>5
    <2>2. QED
      BY <1>1, <1>2, <1>5, <2>1, NewTruth
  <1>6. InHand'
    BY DEF BiasDropStale, BiasCandidate, InHand
  <1>7. QED
    BY <1>5, <1>6 DEF TruthInv

LEMMA RestoreTruth ==
  ASSUME IInv, IInv', ValueInv, NEW b \in Procs, RestorePending(b)
  PROVE  TruthInv'
  <1>1. /\ ledger' = ledger /\ View = mem /\ View' = mem' /\ mem \in Records
        /\ pc = "restore" /\ pc' = "restore" /\ mem.pending[b] # NoDebt
        /\ UNCHANGED <<life, parent, late, last, mode, sampled, cur>>
    BY DEF RestorePending, View, IInv, TypeOK, Indebted, passVars
  <1>2. Sound(mem)
    BY <1>1 DEF IInv
  <1>3. CanBias(mem.pending[b].orig)
    BY <1>1, <1>2 DEF Sound, RecordInv, DebtOK
  <1>4. Quiet /\ (~\E q \in Procs : Taken(q)) /\ b \notin Heirs'
    <2>1. CASE b \in Alive
      BY <1>1, <1>3, <2>1, RestoreIsQuiet DEF RestorePending, IInv
    <2>2. CASE b \notin Alive
      <3>1. UNCHANGED <<adj, mark, base>>
        BY <2>2 DEF RestorePending
      <3>2. QED
        BY <1>1, <2>2, <3>1, NothingTaken DEF Heirs, Alive
    <2>3. QED
      BY <2>1, <2>2
  <1>5. /\ mem'.biased = mem.biased
        /\ \A q \in Procs : mem'.pending[q] = IF q = b THEN NoDebt ELSE mem.pending[q]
    <2>1. mem' = Written(mem, b) \/ mem' = WrittenBelow(mem, b, mem.pending[b].root)
      BY DEF RestorePending, Written, WrittenBelow
    <2>2. mem' \in Records /\ mem'.biased = mem.biased
      BY <1>1, <2>1, SettledMade
    <2>3. ASSUME NEW q \in Procs
          PROVE  mem'.pending[q] = IF q = b THEN NoDebt ELSE mem.pending[q]
      BY <1>1, <2>1, SettledMade
    <2>4. QED
      BY <2>2, <2>3
  <1>6. ASSUME NEW q \in Heirs'
        PROVE  /\ q \in Procs /\ q # b /\ q \in Alive /\ q \in Heirs
               /\ \/ mem.pending[q] # NoDebt
                  \/ parent[q] \in Procs /\ Holds(mem, parent[q])
    BY <1>1, <1>4, QuietProcs DEF IInv, PassInv, OwedOrNew, Heirs, Alive
  <1>7. ASSUME NEW m, m = mem, NEW n, n = mem'
        PROVE  Truthful(n)'
    <2>1. Sound(m) /\ m \in Records /\ Truthful(m) /\ Sound(n)'
      BY <1>1, <1>7, SoundOf, SoundAfter, TruthOf DEF IInv, ValueInv
    <2>2. /\ n.biased = m.biased
          /\ \A q \in Procs : n.pending[q] = IF q = b THEN NoDebt ELSE m.pending[q]
      BY <1>5, <1>7
    <2>3. PendingRoots(n) \subseteq PendingRoots(m)
      BY <2>2 DEF PendingRoots, Indebted
    <2>4. ASSUME NEW p \in Heirs', NEW a \in Up(parent, p, SweepRoots(m))
          PROVE  /\ Stands(n, a) => Stands(m, a)
                 /\ Gives(m, p, a) => Gives(n, p, a)'
      <3>1. p \in Procs /\ p \in Alive /\ p # b /\ Above(p)' = Above(p) /\ base'[p] = base[p] /\ p \in Heirs
        BY <1>4, <1>6, QuietProcs DEF Quiet, Same, GivenBack, Taken, IInv, Heirs
      <3>2. a \in Above(p) /\ a \in Procs
        BY <2>4, <3>1, UpIsAbove
      <3>3. Stands(n, a) => Stands(m, a)
        BY <2>2, <2>3 DEF Stands
      <3>4. ASSUME Gives(m, p, a) PROVE Gives(n, p, a)'
        <4>1. Holds(m, a) => Holds(m, a)'
          BY <1>4, <3>2, QuietHolds
        <4>2. ASSUME n.biased[PidOf[a]].proc = a
              PROVE  Holds(n, a)' /\ n.biased[PidOf[a]].orig = base'[p]
          BY <2>2, <3>1, <3>4, <4>1, <4>2 DEF Gives, Holds
        <4>3. ASSUME n.biased[PidOf[a]].proc # a
              PROVE  n.pending[p] = [root |-> PidOf[a], orig |-> base'[p]]
          <5>1. m.biased[PidOf[a]].proc # a
            BY <2>2, <4>3
          <5>2. ~(parent[p] \in Procs /\ Holds(m, parent[p]))
            <6>1. SUFFICES ASSUME parent[p] \in Procs, Holds(m, parent[p]) PROVE FALSE
              OBVIOUS
            <6>2. a = parent[p]
              BY <2>1, <2>4, <3>1, <6>1, ParentGives DEF IInv, Sound
            <6>3. QED
              BY <5>1, <6>1, <6>2 DEF Holds
          <5>3. m.pending[p] # NoDebt
            BY <1>6, <1>7, <5>2 DEF Holds
          <5>4. QED
            BY <2>2, <3>1, <3>4, <5>3 DEF Gives
        <4>4. n.pending[p] = m.pending[p]
          BY <2>2, <3>1
        <4>5. QED
          BY <3>1, <3>4, <4>2, <4>3, <4>4 DEF Gives
      <3>5. QED
        BY <3>3, <3>4
    <2>5. ASSUME NEW p \in Alive, mark'[p] = "biased", p \notin late'
          PROVE  n.pending[p] = NoDebt
      <3>1. p \in Procs /\ p \notin late /\ mark[p] = "biased"
        BY <1>4, <2>5 DEF Alive, Quiet, Same, GivenBack, Taken
      <3>2. QED
        BY <2>1, <2>2, <2>5, <3>1 DEF Truthful
    <2>6. RecordInv(m) /\ RecordInv(n)'
      BY <2>1 DEF Sound
    <2>7. QED
      BY <1>4, <2>1, <2>3, <2>4, <2>5, <2>6, QuietTruth DEF IInv
  <1>8. ASSUME NEW n, n = mem'
        PROVE  Truthful(ledger)' /\ Truthful(View)'
    <2>1. Truthful(n)'
      BY <1>7, <1>8
    <2>2. QED
      BY <1>1, <1>4, <1>8, <2>1, NewTruth
  <1>9. InHand'
    BY <1>1 DEF InHand
  <1>10. QED
    BY <1>8, <1>9 DEF TruthInv

LEMMA ReleaseTruth ==
  ASSUME IInv, IInv', ValueInv, NEW i \in Pids, ReleaseRoot(i)
  PROVE  TruthInv'
  <1> DEFINE root == mem.biased[i]
  <1>1. /\ ledger' = ledger /\ View = mem /\ View' = mem' /\ mem \in Records
        /\ pc = "release" /\ pc' = "release" /\ mode \in Releasing /\ root # NoRoot
        /\ mem' = RemoveBias(mem, i)
        /\ UNCHANGED <<life, parent, late, last, mode, sampled, cur>>
    BY DEF ReleaseRoot, View, IInv, TypeOK, Recorded, passVars
  <1>2. CanBias(root.orig)
    BY <1>1 DEF IInv, Sound, RecordInv, RecordOK
  <1>3. Quiet /\ ~\E q \in Procs : Taken(q)
    <2>1. CASE Match(root.proc)
      BY <1>1, <1>2, <2>1, RestoreIsQuiet DEF ReleaseRoot, IInv, Match
    <2>2. CASE ~Match(root.proc)
      <3>1. UNCHANGED <<adj, mark, base>>
        BY <2>2 DEF ReleaseRoot
      <3>2. QED
        BY <1>1, <3>1, NothingTaken
    <2>3. QED
      BY <2>1, <2>2
  <1>4. /\ mem'.pending = mem.pending
        /\ \A j \in Pids : mem'.biased[j] = IF j = i THEN NoRoot ELSE mem.biased[j]
    BY <1>1, RemoveBiasMade
  <1>5. \A q \in Heirs' : q \in Procs /\ q \in Alive /\ q \in Heirs /\ mem.pending[q] # NoDebt
    BY <1>1, <1>3, QuietProcs DEF IInv, PassInv, OwedOrNew, Releasing, Heirs, Alive
  <1>6. ASSUME NEW m, m = mem, NEW n, n = mem'
        PROVE  Truthful(n)'
    <2>1. Sound(m) /\ Truthful(m) /\ Sound(n)'
      BY <1>1, <1>6, SoundOf, SoundAfter, TruthOf DEF IInv, ValueInv
    <2>2. /\ n.pending = m.pending
          /\ \A j \in Pids : n.biased[j] = IF j = i THEN NoRoot ELSE m.biased[j]
      BY <1>4, <1>6
    <2>3. ASSUME NEW p \in Heirs', NEW a \in Up(parent, p, SweepRoots(m))
          PROVE  /\ Stands(n, a) => Stands(m, a)
                 /\ Gives(m, p, a) => Gives(n, p, a)'
      <3>1. p \in Procs /\ p \in Alive /\ Above(p)' = Above(p) /\ base'[p] = base[p]
        BY <1>3, <1>5, QuietProcs DEF Quiet, Same, GivenBack, Taken, IInv, Heirs
      <3>2. a \in Above(p) /\ a \in Procs /\ PidOf[a] \in Pids /\ a # Init1
        BY <2>3, <3>1, UpIsAbove, Constants
      <3>3. n.biased[PidOf[a]].proc = a => n.biased[PidOf[a]] = m.biased[PidOf[a]]
        BY <2>2, <3>2, Nothing
      <3>4. Stands(n, a) => Stands(m, a)
        BY <2>2, <3>3 DEF Stands, PendingRoots, Indebted
      <3>5. ASSUME Gives(m, p, a) PROVE Gives(n, p, a)'
        <4>1. Holds(m, a) => Holds(m, a)'
          BY <1>3, <3>2, QuietHolds
        <4>2. ASSUME n.biased[PidOf[a]].proc = a
              PROVE  Holds(n, a)' /\ n.biased[PidOf[a]].orig = base'[p]
          BY <3>1, <3>3, <3>5, <4>1, <4>2 DEF Gives, Holds
        <4>3. n.pending[p] = [root |-> PidOf[a], orig |-> base'[p]]
          BY <1>5, <1>6, <2>2, <3>1, <3>5 DEF Gives
        <4>4. QED
          BY <4>2, <4>3 DEF Gives
      <3>6. QED
        BY <3>4, <3>5
    <2>4. ASSUME NEW p \in Alive, mark'[p] = "biased", p \notin late'
          PROVE  n.pending[p] = NoDebt
      <3>1. p \in Procs /\ p \notin late /\ mark[p] = "biased"
        BY <1>3, <2>4 DEF Alive, Quiet, Same, GivenBack, Taken
      <3>2. QED
        BY <2>1, <2>2, <2>4, <3>1 DEF Truthful
    <2>5. PendingRoots(n) = PendingRoots(m) /\ RecordInv(m) /\ RecordInv(n)'
      BY <2>1, <2>2 DEF PendingRoots, Indebted, Sound
    <2>6. QED
      BY <1>3, <2>1, <2>3, <2>4, <2>5, QuietTruth DEF IInv
  <1>7. ASSUME NEW n, n = mem'
        PROVE  Truthful(ledger)' /\ Truthful(View)'
    <2>1. Truthful(n)'
      BY <1>6, <1>7
    <2>2. QED
      BY <1>1, <1>3, <1>7, <2>1, NewTruth
  <1>8. InHand'
    BY <1>1 DEF InHand
  <1>9. QED
    BY <1>7, <1>8 DEF TruthInv

(* The sweep finds the root an heir has, with the one value it can be owed. *)
LEMMA SweepValue ==
  ASSUME IInv, pc = "apply", NEW m, m = mem, Sound(m), NEW value,
         \A j \in SweepRoots(m) : value[j] \in RootValues(m, j),
         NEW p \in Heirs, p \in NewDebts({}), p \notin Ambiguous,
         NEW a \in Up(parent, p, SweepRoots(m)), Gives(m, p, a)
  PROVE  LET j == NearestRoot(sampled, p, SweepRoots(m))
         IN  [root |-> j, orig |-> value[j]] = [root |-> PidOf[a], orig |-> base[p]]
  <1> DEFINE R == SweepRoots(m)
  <1>1. p \in Procs /\ p \in Alive /\ SeenOrNew(p) /\ sampled[p] # Absent
    BY DEF Heirs, Alive, IInv, PassInv, NewDebts
  <1>2. a \in Above(p) /\ a \in Alive /\ a \in Procs /\ PidOf[a] \in Pids /\ Above(p) \subseteq Procs
    BY <1>1, UpIsAbove, AboveAlive, Constants DEF IInv, Alive
  <1>3. Up(sampled, p, R) = Up(parent, p, R)
    <2>1. Up(parent, p, R) \subseteq Above(p)
      BY <1>1, UpIsAbove
    <2>2. \A x \in Up(parent, p, R) \cup {p} : sampled[x] = parent[x]
      BY <1>1, <2>1 DEF SeenOrNew
    <2> HIDE DEF R
    <2>3. QED
      BY <1>1, <2>2, UpFrame
  <1>4. PidOf[a] \in R
    <2>1. Stands(m, a)
      BY <1>1, <1>2, GivesStands DEF IInv
    <2>2. QED
      BY <1>2, <2>1, StandsSwept DEF IInv, Sound
  <1>5. NearestRoot(sampled, p, R) = PidOf[a]
    BY <1>1, <1>3, <1>4, NearestHit
  <1>6. base[p] \in RootValues(m, PidOf[a])
    <2>1. CASE m.biased[PidOf[a]].proc = a
      BY <1>2, <2>1, StandsSwept DEF IInv, Sound, Gives
    <2>2. CASE m.biased[PidOf[a]].proc # a
      <3>1. PICK q \in Above(p) \cup {p} : m.pending[q] = [root |-> PidOf[a], orig |-> base[p]]
        BY <2>2 DEF Gives
      <3>2. q \in Procs /\ m.pending[q].root = PidOf[a] /\ m.pending[q].orig = base[p]
            /\ m.pending[q] # NoDebt
        BY <1>1, <1>2, <3>1, Nothing, Constants
      <3>3. q \in Indebted(m)
        BY <3>2 DEF Indebted
      <3>4. QED
        BY <1>2, <2>2, <3>2, <3>3, OwedValue DEF IInv, Sound
    <2>3. QED
      BY <2>1, <2>2
  <1>7. \A v, w \in RootValues(m, PidOf[a]) : v = w
    BY <1>5 DEF Ambiguous
  <1>8. value[PidOf[a]] = base[p]
    BY <1>4, <1>6, <1>7
  <1>9. QED
    BY <1>5, <1>8

LEMMA SweepTruth ==
  ASSUME ~Torn, IInv, IInv', ValueInv, Sweep
  PROVE  TruthInv'
  <1>1. /\ pc = "apply" /\ View = mem /\ View' = mem' /\ mem \in Records /\ mem' \in Records
        /\ pc' \in {"restore", "release"}
        /\ UNCHANGED <<life, parent, adj, base, mark>>
    BY DEF Sweep, View, IInv, TypeOK, processVars
  <1>2. PICK spared, value :
          /\ \A j \in SweepRoots(mem) : value[j] \in RootValues(mem, j)
          /\ mem' = Swept(value, spared)
          /\ late' = late \cup Ambiguous \cup Skipped(spared)
    BY DEF Sweep
  <1>3. Quiet /\ ~\E q \in Procs : Taken(q)
    BY <1>1, <1>2, NothingTaken
  <1>4. ledger' \in {ledger, mem'}
    BY <1>1, Persists DEF IInv, PassInv, Sweep
  <1> DEFINE root(p) == NearestRoot(sampled, p, SweepRoots(mem))
  <1>5. /\ mem'.biased = mem.biased
        /\ \A p \in Procs : p \notin NewDebts(spared) => mem'.pending[p] = mem.pending[p]
        /\ \A p \in NewDebts(spared) : mem'.pending[p] = [root |-> root(p), orig |-> value[root(p)]]
    BY <1>2, SweptMade DEF IInv
  <1>6. \A p \in NewDebts(spared) : p \in Procs /\ mem.pending[p] = NoDebt /\ root(p) \in SweepRoots(mem)
    BY NearestIs DEF NewDebts
  <1>7. ASSUME NEW m, m = mem, NEW n, n = mem'
        PROVE  Truthful(n)'
    <2>1. Sound(m) /\ Truthful(m) /\ Sound(n)' /\ RecordInv(m) /\ RecordInv(n)'
      BY <1>1, <1>7, SoundOf, SoundAfter, TruthOf DEF IInv, ValueInv, Sound
    <2>2. /\ n.biased = m.biased
          /\ \A p \in Procs : p \notin NewDebts(spared) => n.pending[p] = m.pending[p]
      BY <1>5, <1>7
    <2>3. \A p \in NewDebts(spared) : n.pending[p].root \in SweepRoots(m)
      <3> HIDE DEF root
      <3>1. SUFFICES ASSUME NEW p \in NewDebts(spared) PROVE mem'.pending[p].root \in SweepRoots(mem)
        BY <1>7
      <3>2. mem'.pending[p] = [root |-> root(p), orig |-> value[root(p)]]
        BY <1>5
      <3>3. QED
        BY <1>6, <3>2
    <2>4. PendingRoots(n) \subseteq PendingRoots(m) \cup SweepRoots(m)
      BY <2>2, <2>3 DEF PendingRoots, Indebted
    <2>5. ASSUME NEW x \in Alive, Stands(n, x) PROVE Stands(m, x)
      BY <2>1, <2>2, <2>4, <2>5, StandsSwept DEF Stands, IInv
    <2>6. \A p \in Heirs' : p \in Heirs /\ p \in Procs /\ p \in Alive /\ p \notin Ambiguous
      BY <1>1, <1>2 DEF Heirs, Alive
    <2>7. ASSUME NEW p \in Heirs', PidOf[p] \in PendingRoots(n)
          PROVE  PidOf[p] \in PendingRoots(m)
      <3>1. Stands(m, p)
        BY <2>5, <2>6, <2>7 DEF Stands
      <3>2. m.biased[PidOf[p]].proc # p
        BY <2>1, <2>6, Nothing, Constants DEF RecordInv, HeirOK
      <3>3. QED
        BY <3>1, <3>2 DEF Stands
    <2>8. ASSUME NEW p \in Heirs', NEW a \in Up(parent, p, SweepRoots(m)), Gives(m, p, a)
          PROVE  Gives(n, p, a)'
      <3>1. /\ p \in Procs /\ p \in Alive /\ p \in Heirs /\ p \notin Ambiguous
            /\ Above(p)' = Above(p) /\ base'[p] = base[p]
        BY <1>1, <2>6 DEF Above
      <3>2. a \in Procs /\ PidOf[a] \in Pids /\ Above(p) \subseteq Procs
        BY <2>8, <3>1, UpIsAbove, Constants
      <3>3. ASSUME n.biased[PidOf[a]].proc = a
            PROVE  Holds(n, a)' /\ n.biased[PidOf[a]].orig = base'[p]
        BY <1>1, <2>2, <2>8, <3>3 DEF Gives, Holds
      <3>4. ASSUME n.biased[PidOf[a]].proc # a
            PROVE  \E q \in Above(p) \cup {p} : n.pending[q] = [root |-> PidOf[a], orig |-> base'[p]]
        <4>1. PICK q \in Above(p) \cup {p} : m.pending[q] = [root |-> PidOf[a], orig |-> base[p]]
          BY <2>2, <2>8, <3>4 DEF Gives
        <4>2. q \in Procs /\ m.pending[q].root # NoDebt.root
          BY <3>1, <3>2, <4>1, Nothing, Constants
        <4>3. q \notin NewDebts(spared)
          BY <1>6, <1>7, <4>2
        <4>4. QED
          BY <2>2, <3>1, <4>1, <4>2, <4>3
      <3>5. ASSUME n.pending[p] # NoDebt
            PROVE  n.pending[p] = [root |-> PidOf[a], orig |-> base'[p]]
        <4>1. CASE p \in NewDebts(spared)
          <5>1. n.pending[p] = [root |-> root(p), orig |-> value[root(p)]]
            BY <1>5, <1>7, <4>1
          <5>2. \A j \in SweepRoots(m) : value[j] \in RootValues(m, j)
            BY <1>2, <1>7
          <5>3. [root |-> root(p), orig |-> value[root(p)]] = [root |-> PidOf[a], orig |-> base[p]]
            <6>1. p \in NewDebts({})
              BY <4>1 DEF NewDebts
            <6>2. QED
              BY <1>1, <1>7, <2>1, <2>8, <3>1, <6>1, <5>2, SweepValue
          <5> HIDE DEF root
          <5>4. QED
            BY <3>1, <5>1, <5>3
        <4>2. CASE p \notin NewDebts(spared)
          BY <2>2, <2>8, <3>1, <3>5, <4>2 DEF Gives
        <4>3. QED
          BY <4>1, <4>2
      <3>6. QED
        BY <3>1, <3>3, <3>4, <3>5 DEF Gives
    <2>9. ASSUME NEW p \in Alive, mark'[p] = "biased", p \notin late'
          PROVE  n.pending[p] = NoDebt
      <3>1. p \in Procs /\ p \notin late /\ mark[p] = "biased"
        BY <1>1, <1>2, <2>9 DEF Alive
      <3>2. m.biased[PidOf[p]].proc = p /\ PidOf[p] \in Pids
        BY <2>1, <2>9, <3>1, Constants DEF Sound, BiasedAll, BiasedIn
      <3>3. p \notin NewDebts(spared)
        BY <1>7, <3>1, <3>2, Nothing, Constants DEF NewDebts, Recorded
      <3>4. QED
        BY <2>1, <2>2, <2>9, <3>1, <3>3 DEF Truthful
    <2>10. \A p \in Heirs' : \A a \in Up(parent, p, SweepRoots(m)) : Stands(n, a) => Stands(m, a)
      BY <2>5, <2>6, UpIsAbove, AboveAlive DEF IInv
    <2>11. QED
      BY <1>3, <2>1, <2>7, <2>8, <2>9, <2>10, QuietTruth DEF IInv
  <1>8. ASSUME NEW n, n = mem'
        PROVE  Truthful(ledger)' /\ Truthful(View)'
    <2>1. Truthful(n)'
      BY <1>7, <1>8
    <2>2. QED
      BY <1>1, <1>3, <1>4, <1>8, <2>1, NewTruth
  <1>9. InHand'
    BY <1>1 DEF InHand
  <1>10. QED
    BY <1>8, <1>9 DEF TruthInv

LEMMA IntentTruth ==
  ASSUME ~Torn, IInv, IInv', ValueInv, NEW b \in Procs, BiasIntent(b)
  PROVE  TruthInv'
  <1> DEFINE i == PidOf[b]
             r == Intent(b)
             o == RemoveBias(r, i)
  <1>1. /\ pc = "apply" /\ b \in Alive
        /\ UNCHANGED <<life, parent, adj, base, mark>> /\ late' = late \cup Unsafe(b)
        /\ View = mem /\ View' = mem'
        /\ \/ PersistOk(r) /\ mem' = r /\ cur' = b /\ pc' = "write"
           \/ PersistFails(r) /\ mem' = o /\ UNCHANGED <<cur, pc>>
    BY DEF BiasIntent, BiasCandidate, processVars, View
  <1>2. mem \in Records /\ i \in Pids
    BY Constants DEF IInv, TypeOK
  <1>3. mark[b] = "own"
    <2>1. adj[b] # Target
      BY Constants DEF BiasIntent, CanBias, IInv, TypeOK
    <2>2. QED
      BY <1>1, <2>1 DEF IInv, ProcInv
  <1>4. /\ r \in Records /\ r.pending = mem.pending
        /\ \A j \in Pids : j # i => r.biased[j] = mem.biased[j]
    BY <1>2, IntentMade DEF IInv
  <1>5. /\ o.pending = mem.pending
        /\ \A j \in Pids : j # i => o.biased[j] = mem.biased[j]
    <2> HIDE DEF r, i
    <2>1. QED
      BY <1>2, <1>4, RemoveBiasMade
  <1>6. Quiet /\ ~\E q \in Procs : Taken(q)
    BY <1>1, NothingTaken
  <1>7. /\ ledger' = ledger \/ ledger' = mem'
        /\ pc' = "write" => ledger' = mem' /\ mem' = r /\ cur' = b
    <2>1. PersistOk(r) => ledger' = r /\ last' = r
      BY <1>4, Persists DEF IInv, PassInv
    <2>2. PersistFails(r) => ledger' = ledger /\ last' = last
      BY <1>4, Persists DEF IInv, PassInv
    <2>3. QED
      BY <1>1, <2>1, <2>2
  <1> HIDE DEF r, o, i
  <1>8. mem'.pending = mem.pending /\ \A j \in Pids : j # i => mem'.biased[j] = mem.biased[j]
    BY <1>1, <1>4, <1>5
  <1>9. ASSUME NEW m, m = mem, Sound(m), NEW p \in Heirs', NEW a \in Up(parent, p, SweepRoots(m))
        PROVE  a \in Above(p) /\ a \in Procs /\ PidOf[a] \in Pids /\ PidOf[a] # i
    <2>1. /\ p \in Procs /\ p \in Alive /\ p \in Heirs /\ mark[p] = "inherited" /\ p \notin SampledBelow(b)
          /\ SeenOrNew(p)
      BY <1>1 DEF Heirs, Alive, Unsafe, IInv, PassInv
    <2>2. a \in Above(p) /\ a \in Alive /\ a \in Procs /\ PidOf[a] \in Pids
      BY <1>9, <2>1, UpIsAbove, AboveAlive, Constants DEF IInv
    <2>3. CASE sampled[p] = Absent
      <3>1. parent[p] \in Procs /\ mark[parent[p]] = "biased"
        BY <2>1, <2>3 DEF SeenOrNew
      <3>2. Holds(m, parent[p])
        <4>1. parent[p] \in Alive /\ adj[parent[p]] = Target
          BY <2>1, <3>1 DEF IInv, ProcInv
        <4>2. QED
          BY <1>9, <3>1, <4>1 DEF Sound, BiasedAll, BiasedIn, Holds
      <3>3. a = parent[p]
        BY <1>9, <2>1, <3>1, <3>2, ParentGives DEF IInv, Sound
      <3>4. a # b
        BY <1>3, <3>1, <3>3
      <3>5. QED
        BY <1>1, <2>2, <3>4 DEF IInv, ProcInv, i
    <2>4. CASE sampled[p] # Absent
      <3>1. b \notin Above(p)
        BY <2>1, <2>4, SeenAbove DEF SampledBelow
      <3>2. QED
        BY <1>1, <2>2, <3>1 DEF IInv, ProcInv, i
    <2>5. QED
      BY <2>3, <2>4
  <1>10. ASSUME NEW m, m = mem, NEW n, n = mem'
         PROVE  Truthful(n)'
    <2>1. Sound(m) /\ Truthful(m) /\ Sound(n)' /\ RecordInv(m) /\ RecordInv(n)'
      BY <1>1, <1>10, SoundOf, SoundAfter, TruthOf DEF IInv, ValueInv, Sound
    <2>2. n.pending = m.pending /\ \A j \in Pids : j # i => n.biased[j] = m.biased[j]
      BY <1>8, <1>10
    <2>3. ASSUME NEW p \in Heirs', NEW a \in Up(parent, p, SweepRoots(m))
          PROVE  /\ Stands(n, a) => Stands(m, a)
                 /\ Gives(m, p, a) => Gives(n, p, a)'
      <3>1. a \in Above(p) /\ n.biased[PidOf[a]] = m.biased[PidOf[a]]
        BY <1>9, <1>10, <2>1, <2>2, <2>3
      <3>2. Stands(n, a) => Stands(m, a)
        BY <2>2, <3>1 DEF Stands, PendingRoots, Indebted
      <3>3. ASSUME Gives(m, p, a) PROVE Gives(n, p, a)'
        BY <1>6, <2>2, <3>1, <3>3, QuietGives DEF IInv
      <3>4. QED
        BY <3>2, <3>3
    <2>4. \A p \in Alive : mark'[p] = "biased" /\ p \notin late' => n.pending[p] = NoDebt
      BY <1>1, <2>1, <2>2 DEF Truthful
    <2>5. PendingRoots(n) = PendingRoots(m)
      BY <2>2 DEF PendingRoots, Indebted
    <2>6. QED
      BY <1>6, <2>1, <2>3, <2>4, <2>5, QuietTruth DEF IInv
  <1>11. ASSUME NEW n, n = mem'
         PROVE  Truthful(ledger)' /\ Truthful(View)'
    <2>1. Truthful(n)'
      BY <1>10, <1>11
    <2>2. QED
      BY <1>1, <1>6, <1>7, <1>11, <2>1, NewTruth
  <1>12. InHand'
    <2>1. ASSUME pc' = "write", cur' \notin late'
          PROVE  mem'.pending[cur'] = NoDebt /\ ledger'.pending[cur'] = NoDebt
      BY <1>1, <1>7, <1>8, <2>1 DEF Unsafe
    <2>2. QED
      BY <2>1 DEF InHand
  <1>13. QED
    BY <1>11, <1>12 DEF TruthInv

(* Steps of the processes. *)
LEMMA MapsTrue ==
  ASSUME UNCHANGED <<mem, ledger, last, pc, passVars>>,
         \A m : m = ledger \/ m = View => Truthful(m)'
  PROVE  Truthful(ledger)' /\ Truthful(View)'
  <1>1. ledger' = ledger /\ View' = View
    BY MapsStay
  <1>2. ASSUME NEW m, m = ledger PROVE Truthful(ledger)'
    BY <1>1, <1>2, TruthAt
  <1>3. ASSUME NEW m, m = View PROVE Truthful(View)'
    BY <1>1, <1>3, TruthAt
  <1>4. QED
    BY <1>2, <1>3

LEMMA BothTrue ==
  ASSUME IInv, IInv', ValueInv, UNCHANGED <<mem, ledger, last, pc, passVars>>,
         NEW m, m = ledger \/ m = View
  PROVE  Sound(m) /\ Sound(m)' /\ Truthful(m)
  <1>1. ledger' = ledger /\ View' = View
    BY MapsStay
  <1>2. QED
    BY <1>1, SoundOf, SoundAfter, TruthOf DEF IInv, ValueInv

LEMMA LessTruth ==
  ASSUME ProcInv, ProcInv', NEW m, RecordInv(m), RecordInv(m)', Truthful(m), Heirs' \subseteq Heirs,
         \A q \in Heirs' : /\ Above(q)' = Above(q) /\ base'[q] = base[q]
                           /\ \A x \in Above(q) \cup {q} : parent'[x] = parent[x]
                           /\ \A a \in Above(q) : Holds(m, a) => adj'[a] = adj[a],
         \A p \in Alive' : mark'[p] = "biased" /\ p \notin late' =>
            p \in Alive /\ mark[p] = "biased" /\ p \notin late
  PROVE  Truthful(m)'
  <1>1. PendingRoots(m)' = PendingRoots(m)
    BY DEF PendingRoots, Indebted
  <1>2. ASSUME NEW q \in Heirs' PROVE ComesFrom(m, q)' /\ PidOf[q] \notin PendingRoots(m)
    <2>1. q \in Procs /\ q \in Heirs /\ ComesFrom(m, q) /\ PidOf[q] \notin PendingRoots(m)
      BY DEF Truthful, Heirs, Alive
    <2>2. ASSUME NEW a \in Up(parent, q, SweepRoots(m)), Gives(m, q, a) PROVE Gives(m, q, a)'
      <3>1. a \in Above(q)
        BY <2>1, <2>2, UpIsAbove
      <3>2. Holds(m, a) => Holds(m, a)'
        BY <3>1 DEF Holds
      <3>3. QED
        BY <2>2, <3>1, <3>2 DEF Gives
    <2>3. ComesFrom(m, q)'
      BY <2>1, <2>2, StillFrom
    <2>4. QED
      BY <2>1, <2>3
  <1>3. QED
    BY <1>1, <1>2 DEF Truthful

LEMMA ExitTruth ==
  ASSUME IInv, IInv', ValueInv, NEW e \in Procs, Exit(e)
  PROVE  TruthInv'
  <1>1. /\ UNCHANGED <<mem, ledger, last, pc, passVars, base>>
        /\ e \in Alive /\ life' = [life EXCEPT ![e] = "dead"]
        /\ parent' = [q \in Procs |-> IF parent[q] = e \/ q = e THEN Init1 ELSE parent[q]]
        /\ adj' = [adj EXCEPT ![e] = base[e]] /\ mark' = [mark EXCEPT ![e] = "own"]
        /\ late' = (late \cup {q \in Alive : e \in Above(q)}) \ {e}
    BY DEF Exit, Above
  <1>2. /\ DOMAIN adj = Procs /\ DOMAIN mark = Procs /\ DOMAIN life = Procs
    BY DEF IInv, TypeOK
  <1>3. /\ Alive' = Alive \ {e} /\ mark'[e] = "own"
        /\ \A p \in Procs : p # e => /\ mark'[p] = mark[p] /\ adj'[p] = adj[p]
                                     /\ parent'[p] = IF parent[p] = e THEN Init1 ELSE parent[p]
                                     /\ p \in late => p \in late'
    BY <1>1, <1>2 DEF Alive
  <1>4. ASSUME NEW q \in Heirs'
        PROVE  /\ q \in Heirs /\ Above(q)' = Above(q)
               /\ \A x \in Above(q) \cup {q} : x \in Procs /\ x # e /\ parent'[x] = parent[x]
    <2>1. q \in Procs /\ q \in Alive /\ q # e /\ q \in Heirs /\ e \notin Above(q)
      BY <1>1, <1>3 DEF Heirs, Alive
    <2>2. ASSUME NEW x \in Above(q) \cup {q}
          PROVE  x \in Procs /\ x # e /\ parent'[x] = parent[x]
      <3>1. x \in Procs /\ (parent[x] \in Procs => parent[x] \in Above(q))
        BY <2>1, AboveIsClosed DEF Above
      <3>2. QED
        BY <1>3, <2>1, <3>1
    <2>3. Ancestors(parent', q) = Ancestors(parent, q)
      BY <2>1, <2>2, AboveFrame DEF Above
    <2>4. QED
      BY <2>1, <2>2, <2>3 DEF Above
  <1>5. ASSUME NEW m, m = ledger \/ m = View
        PROVE  Truthful(m)'
    <2>1. /\ RecordInv(m) /\ RecordInv(m)' /\ Truthful(m)
      BY <1>1, <1>5, BothTrue DEF Sound
    <2>2. \A q \in Heirs' : /\ Above(q)' = Above(q) /\ base'[q] = base[q]
                            /\ \A x \in Above(q) \cup {q} : parent'[x] = parent[x]
                            /\ \A a \in Above(q) : Holds(m, a) => adj'[a] = adj[a]
      BY <1>1, <1>3, <1>4
    <2>3. \A p \in Alive' : mark'[p] = "biased" /\ p \notin late' =>
            p \in Alive /\ mark[p] = "biased" /\ p \notin late
      BY <1>3 DEF Alive
    <2>4. Heirs' \subseteq Heirs
      BY <1>4
    <2>5. QED
      BY <2>1, <2>2, <2>3, <2>4, LessTruth DEF IInv
  <1>6. InHand'
    BY <1>1, <1>3 DEF ValueInv, InHand, passVars, Alive
  <1>7. QED
    BY <1>1, <1>5, <1>6, MapsTrue DEF TruthInv

LEMMA OperatorTruth ==
  ASSUME IInv, IInv', ValueInv, NEW b \in Procs, NEW v, OperatorSets(b, v)
  PROVE  TruthInv'
  <1>1. /\ UNCHANGED <<life, parent, mem, ledger, last, pc, passVars>>
        /\ b \in Alive /\ late \subseteq late'
        /\ adj' = [adj EXCEPT ![b] = v] /\ base' = [base EXCEPT ![b] = v]
        /\ mark' = [mark EXCEPT ![b] = "own"]
        /\ OnRecord(b) => b \in late' /\ {q \in Alive : b \in Above(q)} \subseteq late'
    BY DEF OperatorSets, Above
  <1>2. DOMAIN adj = Procs /\ DOMAIN mark = Procs /\ DOMAIN base = Procs
    BY DEF IInv, TypeOK
  <1>3. /\ Alive' = Alive /\ \A p \in Procs : Above(p)' = Above(p)
        /\ mark'[b] = "own"
        /\ \A p \in Procs : p # b => /\ mark'[p] = mark[p] /\ adj'[p] = adj[p]
                                     /\ base'[p] = base[p]
    BY <1>1, <1>2 DEF Alive, Above
  <1>4. ASSUME NEW q \in Heirs'
        PROVE  /\ q \in Heirs /\ q \in Procs /\ q # b /\ Above(q) \subseteq Procs
               /\ OnRecord(b) => b \notin Above(q)
    <2>1. q \in Heirs /\ q \in Procs /\ q # b
      BY <1>1, <1>3 DEF Heirs, Alive
    <2>2. QED
      BY <1>1, <2>1, UpIsAbove DEF Heirs, Alive
  <1>5. ASSUME NEW m, m = ledger \/ m = View
        PROVE  Truthful(m)'
    <2>1. /\ RecordInv(m) /\ RecordInv(m)' /\ Truthful(m)
      BY <1>1, <1>5, BothTrue DEF Sound
    <2>2. m.biased[PidOf[b]].proc = b => OnRecord(b)
      BY <1>5 DEF OnRecord, View
    <2>3. \A q \in Heirs' : /\ Above(q)' = Above(q) /\ base'[q] = base[q]
                            /\ \A x \in Above(q) \cup {q} : parent'[x] = parent[x]
                            /\ \A a \in Above(q) : Holds(m, a) => adj'[a] = adj[a]
      BY <1>1, <1>3, <1>4, <2>2 DEF Holds
    <2>4. \A p \in Alive' : mark'[p] = "biased" /\ p \notin late' =>
            p \in Alive /\ mark[p] = "biased" /\ p \notin late
      BY <1>1, <1>3 DEF Alive
    <2>5. Heirs' \subseteq Heirs
      BY <1>4
    <2>6. QED
      BY <2>1, <2>3, <2>4, <2>5, LessTruth DEF IInv
  <1>6. InHand'
    BY <1>1, <1>3 DEF ValueInv, InHand, passVars
  <1>7. QED
    BY <1>1, <1>5, <1>6, MapsTrue DEF TruthInv

LEMMA ForkTruth ==
  ASSUME IInv, IInv', ValueInv, NEW c \in Procs, NEW f \in Procs \cup {Init1}, Fork(c, f)
  PROVE  TruthInv'
  <1>1. /\ UNCHANGED <<mem, ledger, last, pc, passVars>>
        /\ TypeOK' /\ ProcInv' /\ ProcInv
    BY DEF Fork, IInv
  <1>2. /\ c \notin Alive /\ ~Born(c) /\ Alive' = Alive \cup {c} /\ late \subseteq late'
        /\ \A p \in Procs : p # c => /\ mark'[p] = mark[p] /\ adj'[p] = adj[p]
                                     /\ base'[p] = base[p] /\ parent'[p] = parent[p]
                                     /\ Above(p)' = Above(p)
        /\ mark'[c] # "biased" /\ Heirs' \subseteq Heirs \cup {c}
    BY <1>1, ForkIs
  <1>3. ASSUME c \in Heirs'
        PROVE  /\ f \in Alive /\ f \in Procs /\ f # c /\ f \notin late /\ parent'[c] = f
               /\ mark[f] = "biased" \/ f \in Heirs
               /\ f \in Above(c)' /\ Above(f) \subseteq Above(c)'
               /\ \A m \in {mem, ledger} : PidOf[c] \notin PendingRoots(m)
               /\ base'[c] = base[f]
    <2>1. /\ f \in Alive /\ f \in Procs /\ f # c /\ parent'[c] = f
          /\ mark[f] = "biased" \/ f \in Heirs
          /\ f \in Above(c)' /\ Above(f) \subseteq Above(c)'
          /\ \A m \in {mem, ledger} : PidOf[c] \notin PendingRoots(m)
      BY <1>1, <1>3, ForkIs
    <2>2. f # Init1 /\ DOMAIN base = Procs
      BY <2>1, Constants DEF IInv, TypeOK
    <2>3. base'[c] = base[f]
      BY <2>2 DEF Fork
    <2>4. f \notin late
      BY <1>3, <2>1 DEF Fork, Slips, Heirs
    <2>5. QED
      BY <2>1, <2>3, <2>4
  <1>4. ASSUME NEW m, m = ledger \/ m = View
        PROVE  Truthful(m)'
    <2>1. /\ Sound(m) /\ RecordInv(m) /\ RecordInv(m)' /\ Truthful(m) /\ m \in {mem, ledger}
      BY <1>1, <1>4, BothTrue DEF Sound, View
    <2>2. PendingRoots(m)' = PendingRoots(m)
      BY DEF PendingRoots, Indebted
    <2>3. ASSUME NEW q \in Heirs, q # c, q \in Heirs'
          PROVE  ComesFrom(m, q)' /\ PidOf[q] \notin PendingRoots(m)
      <3>1. q \in Procs /\ ComesFrom(m, q) /\ PidOf[q] \notin PendingRoots(m)
        BY <2>1 DEF Truthful, Heirs, Alive
      <3>2. Above(q) \subseteq Alive /\ Above(q)' = Above(q) /\ base'[q] = base[q]
        BY <1>1, <1>2, <2>3, <3>1, AboveAlive
      <3>3. \A x \in Above(q) \cup {q} : x \in Procs /\ x # c /\ parent'[x] = parent[x]
        BY <1>2, <2>3, <3>1, <3>2 DEF Alive
      <3>4. ASSUME NEW a \in Up(parent, q, SweepRoots(m)), Gives(m, q, a) PROVE Gives(m, q, a)'
        <4>1. a \in Above(q)
          BY <3>1, <3>4, UpIsAbove
        <4>2. Holds(m, a) => Holds(m, a)'
          BY <1>2, <3>3, <4>1 DEF Holds
        <4>3. QED
          BY <3>2, <3>4, <4>2 DEF Gives
      <3>5. ComesFrom(m, q)'
        BY <1>1, <2>1, <2>3, <3>1, <3>3, <3>4, StillFrom
      <3>6. QED
        BY <3>1, <3>5
    <2>4. ASSUME c \in Heirs' PROVE ComesFrom(m, c)' /\ PidOf[c] \notin PendingRoots(m)
      <3> DEFINE R == SweepRoots(m)'
      <3>1. m.pending[c] = NoDebt
        BY <1>2, <2>1 DEF RecordInv, DebtOK
      <3>2. f \in Up(parent', c, R)
        BY <1>3, <2>4, UpIsClosed
      <3>3. CASE mark[f] = "biased"
        <4>1. BiasedIn(m, f) /\ adj[f] = Target
          BY <1>1, <1>3, <2>1, <2>4, <3>3 DEF Sound, BiasedAll, ProcInv
        <4>2. Holds(m, f)' /\ m.biased[PidOf[f]].orig = base'[c]
          BY <1>2, <1>3, <2>4, <4>1 DEF BiasedIn, Holds
        <4>3. Gives(m, c, f)'
          BY <3>1, <4>2 DEF Gives, Holds
        <4>4. QED
          BY <1>3, <2>1, <2>4, <3>2, <4>3 DEF ComesFrom
      <3>4. CASE mark[f] # "biased"
        <4>1. f \in Heirs /\ f \in Alive' /\ f \in Heirs'
          BY <1>2, <1>3, <2>4, <3>4 DEF Heirs, Fork, Slips
        <4>2. PICK a \in Up(parent', f, R) : Gives(m, f, a)'
          BY <1>3, <2>3, <2>4, <4>1 DEF ComesFrom
        <4>3. PidOf[f] \notin R
          <5>1. m.biased[PidOf[f]].proc # f
            BY <1>3, <2>1, <2>4, <4>1, Nothing, Constants DEF RecordInv, HeirOK
          <5>2. ~Stands(m, f)'
            BY <1>3, <2>2, <2>3, <2>4, <4>1, <5>1 DEF Stands
          <5>3. QED
            BY <1>1, <2>1, <4>1, <5>2, AfterSwept
        <4>4. Up(parent', f, R) \subseteq Up(parent', c, R)
          <5> HIDE DEF R
          <5>1. Up(parent', c, R) \in SUBSET Procs
            BY UpIsClosed
          <5>2. \A x \in Up(parent', c, R) \cup {f} :
                  (x = f \/ PidOf[x] \notin R) /\ parent'[x] \in Procs => parent'[x] \in Up(parent', c, R)
            BY <3>2, <4>3, UpIsClosed
          <5>3. QED
            BY <1>3, <2>4, <5>1, <5>2, UpIsLeast
        <4>5. Above(f)' \cup {f} \subseteq Above(c)' \cup {c} /\ base'[f] = base'[c]
          BY <1>2, <1>3, <2>4
        <4>6. Gives(m, c, a)'
          BY <3>1, <4>2, <4>5 DEF Gives
        <4>7. QED
          BY <1>3, <2>1, <2>4, <4>2, <4>4, <4>6 DEF ComesFrom
      <3>5. QED
        BY <3>3, <3>4
    <2>5. \A p \in Alive' : mark'[p] = "biased" /\ p \notin late' => m.pending[p] = NoDebt
      BY <1>2, <2>1 DEF Truthful, Alive
    <2>6. QED
      BY <1>2, <2>2, <2>3, <2>4, <2>5 DEF Truthful
  <1>5. InHand'
    BY <1>1, <1>2 DEF ValueInv, InHand, passVars, IInv, PassInv, InWrite
  <1>6. QED
    BY <1>1, <1>4, <1>5, MapsTrue DEF TruthInv

-----------------------------------------------------------------------------
LEMMA InitValue == Init => ValueInv
  <1> SUFFICES ASSUME Init PROVE ValueInv
    OBVIOUS
  <1>1. Alive = {} /\ Heirs = {}
    BY DEF Init, Alive, Heirs
  <1>2. AtRest
    BY Constants DEF Init, AtRest
  <1>3. QED
    BY <1>1, <1>2 DEF ValueInv, Truthful, InHand

LEMMA NextValue ==
  ASSUME ~Torn
  PROVE  IInv /\ ValueInv /\ [Next]_vars => ValueInv'
  <1> SUFFICES ASSUME IInv, ValueInv, [Next]_vars PROVE ValueInv'
    OBVIOUS
  <1>1. IInv'
    BY NextIInv
  <1>2. CASE Processes
    <2>1. ASSUME NEW p \in Procs, NEW from \in Procs \cup {Init1}, Fork(p, from) PROVE TruthInv'
      BY <1>1, <2>1, ForkTruth
    <2>2. ASSUME NEW p \in Procs, Exit(p) PROVE TruthInv'
      BY <1>1, <2>2, ExitTruth
    <2>3. ASSUME NEW p \in Procs, NEW v \in Foreign[p], OperatorSets(p, v) PROVE TruthInv'
      BY <1>1, <2>3, OperatorTruth
    <2>4. TruthInv'
      BY <1>2, <2>1, <2>2, <2>3 DEF Processes
    <2>5. QED
      BY <2>4, KeepsRest DEF ValueInv, TruthInv
  <1>3. CASE Pass
    <2>1. ASSUME NEW kind \in Modes, PassBegin(kind) PROVE TruthInv'
      BY <1>1, <2>1, BeginTruth
    <2>2. ASSUME NEW p \in Procs, BiasIntent(p) PROVE TruthInv'
      BY <1>1, <2>2, IntentTruth
    <2>3. ASSUME NEW p \in Procs, BiasDropStale(p) PROVE TruthInv'
      BY <1>1, <2>3, DropStaleTruth
    <2>4. ASSUME NEW p \in Procs, RestorePending(p) PROVE TruthInv'
      BY <1>1, <2>4, RestoreTruth
    <2>5. CASE BiasWrite
      BY <1>1, <2>5, WriteTruth, KeepsRest DEF ValueInv, TruthInv
    <2>6. CASE Sweep
      BY <1>1, <2>6, SweepTruth, KeepsRest DEF ValueInv, TruthInv
    <2>7. CASE SweepSettled
      BY <1>1, <2>7, SettledTruth, KeepsRest DEF ValueInv, TruthInv
    <2>8. CASE PassEnd
      BY <1>1, <2>8, EndTruth, KeepsRest DEF ValueInv, TruthInv
    <2>9. CASE ReloadEnd
      BY <1>1, <2>9, ReloadTruth, KeepsRest DEF ValueInv, TruthInv
    <2>10. ASSUME NEW i \in Pids, ReleaseRoot(i) PROVE TruthInv'
      BY <1>1, <2>10, ReleaseTruth
    <2>11. TruthInv' => ValueInv'
      BY KeepsRest DEF ValueInv, TruthInv
    <2>12. QED
      BY <1>3, <2>1, <2>2, <2>3, <2>4, <2>5, <2>6, <2>7, <2>8, <2>9, <2>10, <2>11 DEF Pass
  <1>4. CASE GuardDies
    BY <1>1, <1>4, DiesTruth, KeepsRest DEF ValueInv, TruthInv
  <1>5. CASE Hydrate
    BY <1>1, <1>5, HydrateTruth, KeepsRest DEF ValueInv, TruthInv
  <1>6. CASE UNCHANGED vars
    <2>1. UNCHANGED <<life, parent, adj, base, mark, mem, ledger, last, pc, mode, sampled, cur, late>>
      BY <1>6 DEF vars
    <2>2. Quiet /\ ~\E q \in Procs : Taken(q)
      BY <2>1, NothingTaken
    <2>3. ledger' = ledger /\ View' = View
      BY <2>1 DEF View
    <2>4. Truthful(ledger)' /\ Truthful(View)'
      BY <1>1, <2>2, <2>3, LedgerTruth, ViewTruth
    <2>5. InHand'
      BY <2>1 DEF ValueInv, InHand, Alive
    <2>6. QED
      BY <2>4, <2>5, KeepsRest DEF ValueInv
  <1>7. QED
    BY <1>2, <1>3, <1>4, <1>5, <1>6 DEF Next

(* A value given back: by the sweep, *)
LEMMA PendingIsTrue ==
  ASSUME IInv, ValueInv, NEW b \in Procs, RestorePending(b), NEW p \in Procs,
         adj[p] = Target, adj'[p] # Target, p \notin late'
  PROVE  adj'[p] = base[p]
  <1>1. p = b /\ b \in Alive /\ late' = late /\ adj'[p] = mem.pending[p].orig
        /\ View = mem /\ mem.pending[p] # NoDebt /\ pc # "down"
    BY DEF RestorePending, RestoreAdj, IInv, TypeOK, View, Indebted
  <1>2. base[p] \in Values /\ mark[p] # "own"
    BY <1>1, Constants DEF ValueInv, AtRest, IInv, ProcInv
  <1>3. ASSUME NEW m, m = mem PROVE m.pending[p].orig = base[p]
    <2>1. Truthful(m) /\ m.pending[p] # NoDebt
      BY <1>1, <1>3, TruthOf DEF ValueInv
    <2>2. mark[p] = "inherited"
      BY <1>1, <1>2, <2>1 DEF Truthful, IInv, TypeOK
    <2>3. ComesFrom(m, p)
      BY <1>1, <2>1, <2>2 DEF Truthful, Heirs
    <2>4. QED
      BY <2>1, <2>3 DEF ComesFrom, Gives
  <1>4. QED
    BY <1>1, <1>3

(* and with its record. *)
LEMMA RecordIsTrue ==
  ASSUME IInv, ValueInv, NEW i \in Pids, ReleaseRoot(i), NEW p \in Procs,
         adj[p] = Target, adj'[p] # Target, p \notin late'
  PROVE  adj'[p] = base[p]
  <1>1. /\ late' = late /\ View = mem /\ i \in Recorded(mem)
        /\ p = mem.biased[i].proc /\ p \in Alive /\ adj'[p] = mem.biased[i].orig
    BY DEF ReleaseRoot, RestoreAdj, IInv, TypeOK, View, Match
  <1>2. base[p] \in Values /\ mark[p] # "own"
    BY <1>1, Constants DEF ValueInv, AtRest, IInv, ProcInv
  <1>3. Sound(mem) /\ PidOf[p] = i
    BY <1>1 DEF IInv, Sound, RecordInv, RecordOK, Recorded
  <1>4. mark[p] = "biased"
    <2>1. mem.biased[PidOf[p]] # NoRoot
      BY <1>1, <1>3 DEF Recorded
    <2>2. p \notin Heirs
      BY <1>3, <2>1 DEF Sound, RecordInv, HeirOK
    <2>3. QED
      BY <1>1, <1>2, <2>2 DEF Heirs, IInv, TypeOK
  <1>5. QED
    BY <1>1, <1>3, <1>4 DEF Sound, BiasedAll, BiasedIn

(* No other step takes the target from a process that the guard is held to. *)
LEMMA GivesTheTruth ==
  ASSUME ~Torn, IInv, ValueInv, [Next]_vars, NEW p \in Procs,
         adj[p] = Target, adj'[p] # Target, life'[p] = "alive", p \notin late'
  PROVE  adj'[p] = base[p]
  <1>1. TypeOK /\ DOMAIN adj = Procs /\ DOMAIN life = Procs
    BY DEF IInv, TypeOK
  <1>2. p \in Alive /\ mark[p] # "own"
    <2>1. base[p] # Target
      BY Constants DEF ValueInv, AtRest
    <2>2. QED
      BY <2>1 DEF ValueInv, AtRest, IInv, ProcInv
  <1>3. ASSUME NEW c \in Procs, NEW from \in Procs \cup {Init1}, Fork(c, from) PROVE FALSE
    <2>1. p # c
      BY <1>2, <1>3 DEF Fork, Alive
    <2>2. QED
      BY <1>1, <1>3, <2>1 DEF Fork
  <1>4. ASSUME NEW e \in Procs, Exit(e) PROVE FALSE
    BY <1>1, <1>4 DEF Exit
  <1>5. ASSUME NEW b \in Procs, NEW v \in Foreign[b], OperatorSets(b, v) PROVE FALSE
    <2>1. p = b
      BY <1>1, <1>5 DEF OperatorSets
    <2>2. OnRecord(p)
      BY <1>2 DEF OnRecord
    <2>3. QED
      BY <1>5, <2>1, <2>2 DEF OperatorSets
  <1>6. ASSUME BiasWrite PROVE FALSE
    BY <1>1, <1>6 DEF BiasWrite, Alive
  <1>7. ASSUME Processes PROVE FALSE
    BY <1>3, <1>4, <1>5, <1>7 DEF Processes
  <1>8. CASE Pass
    BY <1>6, <1>8, PendingIsTrue, RecordIsTrue
       DEF Pass, PassBegin, BiasIntent, BiasDropStale, Sweep, SweepSettled, PassEnd, ReloadEnd
  <1>9. CASE GuardDies \/ Hydrate \/ UNCHANGED vars
    BY <1>9 DEF GuardDies, Hydrate, vars
  <1>10. QED
    BY <1>7, <1>8, <1>9 DEF Next

(* What oom_restore::restore writes back, for a record or for a debt, is the value
   the process would have had: to roots and to whatever inherited from them, on
   roots nested in one another, pids used again and records kept by a crash. *)
THEOREM ValuesAreTrue ==
  ASSUME ~Torn
  PROVE  Spec => RestoresTheTruth
  <1>1. IInv /\ ValueInv /\ [Next]_vars =>
          [\A p \in Procs : adj[p] = Target /\ adj'[p] # Target /\ life'[p] = "alive"
                             /\ p \notin late' => adj'[p] = base[p]]_vars
    BY GivesTheTruth
  <1>2. QED
    BY InitIInv, NextIInv, InitValue, NextValue, <1>1, PTL DEF Spec, RestoresTheTruth
=============================================================================
