-------------------------- MODULE RelocationProofs --------------------------
(* Proofs about Relocation, for any number of sources, files, relocations and
   starts: the types, the records of the moves, and, as long as the relocations
   under way at one time are Apart, that a complete tree is never lost and the
   path stays good. *)
EXTENDS Relocation, FiniteSetTheorems, TLAPS

Node == UNION {Nodes(s) : s \in Sources}
Files == UNION {FilesOf[s] : s \in Sources}
Records == [link : Sources, to : Dests]
RunType == [pc : Phases, plan : Nat, todo : SUBSET Files, copy : SUBSET Records]

(* The types, of the functions as well. *)
PlacesTyped ==
    /\ at \in [Sources -> [Places -> Node]]
    /\ \A s \in Sources : \A p \in Places : at[s][p] \in Nodes(s)
    /\ \A s \in Sources : at[s]["backup"] # Absent => s = Entry.source
FilesTyped ==
    /\ written \in [Sources -> SUBSET Files] /\ late \in [Sources -> SUBSET Files]
    /\ \A s \in Sources : late[s] \subseteq written[s] /\ written[s] \subseteq FilesOf[s]
    /\ cut \subseteq Sources
RunsTyped ==
    /\ run \in [Runs -> RunType]
    /\ \A r \in Runs : run[r].todo \subseteq FilesOf[SourceOf[r]]
    /\ starts \in [Runs -> Nat] /\ \A r \in Runs : starts[r] <= MaxStarts[r]
LedgerTyped ==
    /\ records \subseteq Records /\ moved \in [Sources -> {"none"} \cup Dests]
    /\ muddled \in BOOLEAN
LinkTyped ==
    /\ link \in {"idle", "linking", "removing", "forcing", "replacing"}
    /\ applies \in 0 .. MaxApplies

TypeInv == PlacesTyped /\ FilesTyped /\ RunsTyped /\ LedgerTyped /\ LinkTyped

-----------------------------------------------------------------------------
(* What is at a place. *)
LEMMA Kinds ==
  /\ ~IsDir(Absent) /\ ~IsLink(Absent) /\ FilesAt(Absent) = {}
  /\ \A F : /\ IsDir(Dir(F)) /\ ~IsLink(Dir(F)) /\ Dir(F) # Absent
            /\ Dir(F).files = F /\ FilesAt(Dir(F)) = F
  /\ \A p : /\ IsLink(Link(p)) /\ ~IsDir(Link(p)) /\ Link(p) # Absent
            /\ Link(p).to = p /\ FilesAt(Link(p)) = {}
  BY DEF IsDir, IsLink, FilesAt, Absent, Dir, Link

LEMMA NodeIs ==
  ASSUME NEW s \in Sources, NEW n \in Nodes(s)
  PROVE  /\ n = Absent \/ IsDir(n) \/ IsLink(n)
         /\ IsDir(n) => n = Dir(n.files) /\ n.files \subseteq FilesOf[s] /\ n.files = FilesAt(n)
         /\ IsLink(n) => n = Link(n.to) /\ n.to \in Dests
         /\ FilesAt(n) \subseteq FilesOf[s]
  <1>1. CASE n = Absent
    BY <1>1, Kinds
  <1>2. CASE \E F \in SUBSET FilesOf[s] : n = Dir(F)
    BY <1>2, Kinds
  <1>3. CASE \E p \in Dests : n = Link(p)
    BY <1>3, Kinds
  <1>4. QED
    BY <1>1, <1>2, <1>3 DEF Nodes

LEMMA NodeMade ==
  ASSUME NEW s \in Sources
  PROVE  /\ Absent \in Nodes(s)
         /\ \A F : F \subseteq FilesOf[s] => Dir(F) \in Nodes(s)
         /\ \A p \in Dests : Link(p) \in Nodes(s)
         /\ Nodes(s) \subseteq Node
  BY DEF Nodes, Node

LEMMA Removed ==
  ASSUME NEW s \in Sources, NEW n \in Nodes(s), NEW m \in Removals(n)
  PROVE  /\ m \in Nodes(s)
         /\ ~IsLink(n) => ~IsLink(m)
         /\ n = Absent => m = Absent
         /\ IsLink(m) => m = n
  <1>1. CASE IsDir(n)
    BY <1>1, NodeIs, NodeMade, Kinds DEF Removals
  <1>2. CASE ~IsDir(n)
    BY <1>2, NodeMade, Kinds DEF Removals
  <1>3. QED
    BY <1>1, <1>2

(* The place each source and each relocation has. *)
LEMMA PlacesAre ==
  /\ "source" \in Places /\ "staging" \in Places /\ "backup" \in Places
  /\ Dests \subseteq Places
  /\ "source" \notin Dests /\ "staging" \notin Dests /\ "backup" \notin Dests
  /\ \A r \in Runs : SourceOf[r] \in Sources /\ DestOf[r] \in Dests
  BY RelocationAssumption DEF Places, Dests

-----------------------------------------------------------------------------
(* What Put and Rename make of the places. *)
LEMMA PutIs ==
  ASSUME PlacesTyped, NEW s \in Sources, NEW p \in Places, NEW n \in Nodes(s), Put(s, p, n),
         p = "backup" => n = Absent \/ s = Entry.source
  PROVE  /\ PlacesTyped'
         /\ at'[s][p] = n
         /\ \A q \in Places : q # p => at'[s][q] = at[s][q]
         /\ \A t \in Sources : t # s => at'[t] = at[t]
  <1>1. at \in [Sources -> [Places -> Node]] /\ n \in Node
    BY NodeMade DEF PlacesTyped
  <1>2. at' = [at EXCEPT ![s] = [at[s] EXCEPT ![p] = n]]
    BY <1>1 DEF Put
  <1>3. [at[s] EXCEPT ![p] = n] \in [Places -> Node]
    BY <1>1
  <1>4. at' \in [Sources -> [Places -> Node]]
    BY <1>1, <1>2, <1>3
  <1>5. /\ at'[s][p] = n
        /\ \A q \in Places : q # p => at'[s][q] = at[s][q]
        /\ \A t \in Sources : t # s => at'[t] = at[t]
    BY <1>1, <1>2
  <1>6. \A t \in Sources : \A q \in Places : at'[t][q] \in Nodes(t)
    BY <1>5 DEF PlacesTyped
  <1>7. \A t \in Sources : at'[t]["backup"] # Absent => t = Entry.source
    BY <1>5, PlacesAre DEF PlacesTyped
  <1>8. QED
    BY <1>4, <1>5, <1>6, <1>7 DEF PlacesTyped, Nodes

LEMMA RenameIs ==
  ASSUME PlacesTyped, NEW s \in Sources, NEW p \in Places, NEW q \in Places, p # q,
         q = "backup" => s = Entry.source, Rename(s, p, q)
  PROVE  /\ PlacesTyped'
         /\ at'[s][q] = at[s][p] /\ at'[s][p] = Absent
         /\ \A x \in Places : x # p /\ x # q => at'[s][x] = at[s][x]
         /\ \A t \in Sources : t # s => at'[t] = at[t]
  <1>1. at \in [Sources -> [Places -> Node]] /\ at[s][p] \in Node /\ Absent \in Node
    BY NodeMade DEF PlacesTyped
  <1>2. at' = [at EXCEPT ![s] = [[at[s] EXCEPT ![q] = at[s][p]] EXCEPT ![p] = Absent]]
    BY <1>1 DEF Rename
  <1>3. [[at[s] EXCEPT ![q] = at[s][p]] EXCEPT ![p] = Absent] \in [Places -> Node]
    BY <1>1
  <1>4. at' \in [Sources -> [Places -> Node]]
    BY <1>1, <1>2, <1>3
  <1>5. /\ at'[s][q] = at[s][p] /\ at'[s][p] = Absent
        /\ \A x \in Places : x # p /\ x # q => at'[s][x] = at[s][x]
        /\ \A t \in Sources : t # s => at'[t] = at[t]
    BY <1>1, <1>2
  <1>6. \A t \in Sources : \A x \in Places : at'[t][x] \in Nodes(t)
    BY <1>5, NodeMade DEF PlacesTyped
  <1>7. \A t \in Sources : at'[t]["backup"] # Absent => t = Entry.source
    BY <1>5, PlacesAre DEF PlacesTyped
  <1>8. QED
    BY <1>4, <1>5, <1>6, <1>7 DEF PlacesTyped, Nodes
-----------------------------------------------------------------------------
(* What a relocation changes of itself, and what it leaves to the others. *)
Alone(r) == \A q \in Runs : q # r => run'[q] = run[q]

LEMMA RunIs ==
  ASSUME RunsTyped, NEW r \in Runs, NEW x \in RunType, x.todo \subseteq FilesOf[SourceOf[r]],
         run' = [run EXCEPT ![r] = x], UNCHANGED starts
  PROVE  RunsTyped' /\ run'[r] = x /\ Alone(r)
  BY DEF RunsTyped, Alone

LEMMA GotoIs ==
  ASSUME RunsTyped, NEW r \in Runs, NEW pc \in Phases, Goto(r, pc), UNCHANGED starts
  PROVE  /\ RunsTyped' /\ Alone(r)
         /\ run'[r].pc = pc /\ run'[r].plan = run[r].plan
         /\ run'[r].todo = run[r].todo /\ run'[r].copy = run[r].copy
  <1> DEFINE x == [run[r] EXCEPT !.pc = pc]
  <1>1. run[r] \in RunType /\ run[r].todo \subseteq FilesOf[SourceOf[r]]
    BY DEF RunsTyped
  <1>2. /\ x \in RunType /\ x.todo = run[r].todo /\ x.pc = pc
        /\ x.plan = run[r].plan /\ x.copy = run[r].copy
    BY <1>1 DEF RunType
  <1>3. run' = [run EXCEPT ![r] = x]
    BY DEF Goto
  <1> HIDE DEF x
  <1>4. RunsTyped' /\ run'[r] = x /\ Alone(r)
    BY <1>1, <1>2, <1>3, RunIs
  <1>5. QED
    BY <1>2, <1>4

LEMMA EndsIs ==
  ASSUME RunsTyped, NEW r \in Runs, Ends(r), UNCHANGED starts
  PROVE  RunsTyped' /\ Alone(r) /\ run'[r].pc = "idle" /\ run'[r].todo = {}
  <1>1. NoRun \in RunType /\ NoRun.todo = {} /\ NoRun.pc = "idle"
    BY DEF NoRun, RunType, Phases
  <1>2. RunsTyped' /\ run'[r] = NoRun /\ Alone(r)
    BY <1>1, RunIs DEF Ends
  <1>3. QED
    BY <1>1, <1>2

Walks(r, pc, F) == run' = [run EXCEPT ![r].pc = pc, ![r].todo = F]

LEMMA CopyIs ==
  ASSUME RunsTyped, NEW r \in Runs, NEW pc \in Phases, NEW F \in SUBSET FilesOf[SourceOf[r]],
         Walks(r, pc, F), UNCHANGED starts
  PROVE  /\ RunsTyped' /\ Alone(r)
         /\ run'[r].pc = pc /\ run'[r].todo = F /\ run'[r].plan = run[r].plan
  <1> DEFINE x == [run[r] EXCEPT !.pc = pc, !.todo = F]
  <1>1. run[r] \in RunType /\ F \subseteq Files
    BY PlacesAre DEF RunsTyped, Files
  <1>2. x \in RunType /\ x.todo = F /\ x.pc = pc /\ x.plan = run[r].plan
    BY <1>1 DEF RunType
  <1>3. run' = [run EXCEPT ![r] = x]
    BY DEF RunsTyped, Walks
  <1> HIDE DEF x
  <1>4. RunsTyped' /\ run'[r] = x /\ Alone(r)
    BY <1>1, <1>2, <1>3, RunIs
  <1>5. QED
    BY <1>2, <1>4

(* What is left as it is keeps its types. *)
LEMMA Untouched ==
  /\ PlacesTyped /\ UNCHANGED at => PlacesTyped'
  /\ FilesTyped /\ UNCHANGED <<written, late, cut>> => FilesTyped'
  /\ RunsTyped /\ UNCHANGED <<run, starts>> => RunsTyped'
  /\ LedgerTyped /\ UNCHANGED ledger => LedgerTyped'
  /\ LinkTyped /\ UNCHANGED <<link, applies>> => LinkTyped'
  BY DEF PlacesTyped, Nodes, FilesTyped, RunsTyped, LedgerTyped, LinkTyped, ledger
-----------------------------------------------------------------------------
(* Each step of a relocation keeps the types and does no more than it says. *)
LEMMA PlanDoes ==
  ASSUME TypeInv, NEW r \in Runs, Plan(r)
  PROVE  TypeInv' /\ Alone(r) /\ run'[r].pc = "planned"
  <1> DEFINE s == SourceOf[r]
             x == [NoRun EXCEPT !.pc = "planned", !.plan = Cardinality(at[s]["source"].files)]
  <1>1. IsFiniteSet(at[s]["source"].files)
    <2>1. at[s]["source"] \in Nodes(s) /\ IsDir(at[s]["source"]) /\ s \in Sources
      BY PlacesAre DEF Plan, TypeInv, PlacesTyped
    <2>2. at[s]["source"].files \subseteq FilesOf[s] /\ IsFiniteSet(FilesOf[s])
      BY <2>1, NodeIs, RelocationAssumption
    <2>3. QED
      BY <2>2, FS_Subset
  <1>2. x \in RunType /\ x.pc = "planned" /\ x.todo = {}
    BY <1>1, FS_CardinalityType DEF NoRun, RunType, Phases
  <1>3. run' = [run EXCEPT ![r] = x]
    BY DEF Plan
  <1> HIDE DEF x
  <1>4. run' \in [Runs -> RunType] /\ run'[r] = x /\ Alone(r)
    BY <1>2, <1>3 DEF TypeInv, RunsTyped, Alone
  <1>5. starts' \in [Runs -> Nat] /\ \A q \in Runs : starts'[q] <= MaxStarts[q]
    <2>1. /\ starts \in [Runs -> Nat] /\ \A q \in Runs : starts[q] <= MaxStarts[q]
          /\ starts' = [starts EXCEPT ![r] = starts[r] + 1] /\ starts[r] < MaxStarts[r]
          /\ MaxStarts \in [Runs -> Nat]
      BY RelocationAssumption DEF TypeInv, RunsTyped, Plan
    <2>2. QED
      BY <2>1
  <1>6. RunsTyped'
    BY <1>2, <1>4, <1>5 DEF TypeInv, RunsTyped, Alone
  <1>7. QED
    BY <1>2, <1>4, <1>6, Untouched DEF TypeInv, Plan, env

LEMMA GoesOn ==
  ASSUME TypeInv, NEW r \in Runs,
         \/ Refuse(r) \/ Check(r) \/ CopyFails(r) \/ StageFails(r) \/ LinkFails(r)
         \/ Verify(r) \/ Die(r) \/ RecordRead(r) \/ RecordWrite(r) \/ RecordFails(r)
  PROVE  TypeInv' /\ Alone(r)
  <1> USE DEF TypeInv, Phases, env
  <1>1. CASE Refuse(r) \/ StageFails(r)
    BY <1>1, EndsIs, Untouched DEF Refuse, StageFails
  <1>2. CASE Check(r) \/ CopyFails(r) \/ LinkFails(r)
    BY <1>2, GotoIs, Untouched DEF Check, CopyFails, LinkFails
  <1>3. CASE Verify(r)
    BY <1>3, GotoIs, Untouched DEF Verify
  <1>4. CASE Die(r)
    <2>1. FilesTyped'
      BY <1>4, PlacesAre DEF Die, FilesTyped
    <2>2. QED
      BY <1>4, <2>1, EndsIs, Untouched DEF Die
  <1>5. CASE RecordRead(r)
    <2> DEFINE x == [run[r] EXCEPT !.pc = "writing", !.copy = records]
    <2>1. /\ x \in RunType /\ x.todo = run[r].todo /\ run' = [run EXCEPT ![r] = x]
      BY <1>5 DEF RecordRead, RunsTyped, LedgerTyped, RunType
    <2> HIDE DEF x
    <2>2. run[r].todo \subseteq FilesOf[SourceOf[r]] /\ UNCHANGED starts
      BY <1>5 DEF RunsTyped, RecordRead
    <2>3. RunsTyped' /\ Alone(r)
      BY <2>1, <2>2, RunIs
    <2>4. QED
      BY <1>5, <2>3, Untouched DEF RecordRead
  <1>6. CASE RecordWrite(r)
    <2>1. WithRecord(r) \subseteq Records
      BY PlacesAre DEF WithRecord, RunsTyped, RunType, Records
    <2>2. LedgerTyped'
      BY <1>6, <2>1, PlacesAre DEF RecordWrite, LedgerTyped
    <2>3. QED
      BY <1>6, <2>2, EndsIs, Untouched DEF RecordWrite
  <1>7. CASE RecordFails(r)
    <2>1. LedgerTyped'
      BY <1>7 DEF RecordFails, LedgerTyped
    <2>2. QED
      BY <1>7, <2>1, EndsIs, Untouched DEF RecordFails
  <1>8. QED
    BY <1>1, <1>2, <1>3, <1>4, <1>5, <1>6, <1>7

(* A step that puts a node at a place of its source, and nothing elsewhere. *)
PutBy(s, p, n) ==
    /\ at'[s][p] = n /\ \A q \in Places : q # p => at'[s][q] = at[s][q]
    /\ \A t \in Sources : t # s => at'[t] = at[t]
RenamedBy(s, p, q) ==
    /\ at'[s][q] = at[s][p] /\ at'[s][p] = Absent
    /\ \A x \in Places : x # p /\ x # q => at'[s][x] = at[s][x]
    /\ \A t \in Sources : t # s => at'[t] = at[t]

LEMMA CopyBeginDoes ==
  ASSUME TypeInv, NEW r \in Runs, CopyBegin(r)
  PROVE  /\ TypeInv' /\ Alone(r)
         /\ PutBy(SourceOf[r], DestOf[r], Dir(FilesAt(at[SourceOf[r]][DestOf[r]])))
         /\ IF IsDir(Resolved(SourceOf[r]))
            THEN run'[r].pc = "copying" /\ run'[r].todo = Resolved(SourceOf[r]).files
            ELSE run'[r].pc = "failed"
  <1> DEFINE s == SourceOf[r]
             d == DestOf[r]
  <1>1. s \in Sources /\ d \in Places /\ d # "backup"
    BY PlacesAre
  <1>2. \A p \in Places : at[s][p] \in Nodes(s)
    BY <1>1 DEF TypeInv, PlacesTyped
  <1>3. Resolved(s) \in Nodes(s)
    BY <1>1, <1>2, NodeIs, PlacesAre DEF Resolved
  <1>4. Dir(FilesAt(at[s][d])) \in Nodes(s)
    BY <1>1, <1>2, NodeIs, NodeMade
  <1>5. PlacesTyped' /\ PutBy(s, d, Dir(FilesAt(at[s][d])))
    BY <1>1, <1>4, PutIs DEF CopyBegin, TypeInv, PutBy
  <1>6. CASE IsDir(Resolved(s))
    <2>1. Resolved(s).files \subseteq FilesOf[s]
      BY <1>1, <1>3, <1>6, NodeIs
    <2>2. /\ RunsTyped' /\ Alone(r)
          /\ run'[r].pc = "copying" /\ run'[r].todo = Resolved(s).files
      <3> DEFINE F == Resolved(s).files
      <3>1. Walks(r, "copying", F) /\ UNCHANGED starts
        BY <1>6 DEF CopyBegin, Walks
      <3>2. F \in SUBSET FilesOf[SourceOf[r]] /\ "copying" \in Phases
        BY <2>1 DEF Phases
      <3> HIDE DEF F
      <3>3. RunsTyped' /\ Alone(r) /\ run'[r].pc = "copying" /\ run'[r].todo = F
        BY <3>1, <3>2, CopyIs DEF TypeInv
      <3>4. QED
        BY <3>3 DEF F
    <2>3. QED
      BY <1>5, <1>6, <2>2, Untouched DEF CopyBegin, TypeInv, env
  <1>7. CASE ~IsDir(Resolved(s))
    <2>1. RunsTyped' /\ Alone(r) /\ run'[r].pc = "failed"
      BY <1>7, GotoIs DEF CopyBegin, TypeInv, Phases
    <2>2. QED
      BY <1>5, <1>7, <2>1, Untouched DEF CopyBegin, TypeInv, env
  <1>8. QED
    BY <1>6, <1>7

LEMMA CopyFileDoes ==
  ASSUME TypeInv, NEW r \in Runs, CopyFile(r)
  PROVE  /\ TypeInv' /\ Alone(r) /\ run'[r].pc = "copying"
         /\ \E f, n : /\ PutBy(SourceOf[r], DestOf[r], n)
                      /\ run'[r].todo = run[r].todo \ {f} /\ IsDir(n)
                      /\ at[SourceOf[r]]["source"] # Link(DestOf[r]) =>
                           FilesAt(n) = FilesAt(at[SourceOf[r]][DestOf[r]]) \cup {f}
  <1> DEFINE s == SourceOf[r]
             d == DestOf[r]
  <1>1. s \in Sources /\ d \in Places /\ d # "backup" /\ d \in Dests
    BY PlacesAre
  <1>2. \A p \in Places : at[s][p] \in Nodes(s)
    BY <1>1 DEF TypeInv, PlacesTyped
  <1>3. Resolved(s) \in Nodes(s)
    BY <1>1, <1>2, NodeIs, PlacesAre DEF Resolved
  <1>4. PICK f \in FilesAt(Resolved(s)) :
          /\ run' = [run EXCEPT ![r].todo = run[r].todo \ {f}]
          /\ Put(s, d, Dir(IF at[s]["source"] = Link(d)
                           THEN FilesAt(at[s][d]) \ {f} ELSE FilesAt(at[s][d]) \cup {f}))
    BY DEF CopyFile
  <1> DEFINE n == Dir(IF at[s]["source"] = Link(d)
                      THEN FilesAt(at[s][d]) \ {f} ELSE FilesAt(at[s][d]) \cup {f})
  <1>5. f \in FilesOf[s] /\ FilesAt(at[s][d]) \subseteq FilesOf[s]
    BY <1>1, <1>2, <1>3, <1>4, NodeIs
  <1>6. n \in Nodes(s) /\ IsDir(n)
    BY <1>1, <1>5, NodeMade, Kinds
  <1>7. at[s]["source"] # Link(d) => FilesAt(n) = FilesAt(at[s][d]) \cup {f}
    BY Kinds
  <1>8. Put(s, d, n)
    BY <1>4
  <1> HIDE DEF n
  <1>9. PlacesTyped' /\ PutBy(s, d, n)
    BY <1>1, <1>6, <1>8, PutIs DEF TypeInv, PutBy
  <1>10. Walks(r, "copying", run[r].todo \ {f})
    <2>1. run \in [Runs -> RunType] /\ run[r].pc = "copying"
      BY DEF CopyFile, TypeInv, RunsTyped
    <2> DEFINE T == run[r].todo \ {f}
    <2>2. run[r] = [pc |-> "copying", plan |-> run[r].plan, todo |-> run[r].todo, copy |-> run[r].copy]
      BY <2>1 DEF RunType
    <2>3. [run[r] EXCEPT !.todo = T] = [run[r] EXCEPT !.pc = "copying", !.todo = T]
      BY <2>1 DEF RunType
    <2>4. run' = [run EXCEPT ![r] = [run[r] EXCEPT !.todo = T]]
      BY <1>4
    <2> HIDE DEF T
    <2>5. Walks(r, "copying", T)
      BY <2>1, <2>3, <2>4 DEF Walks
    <2>6. QED
      BY <2>5 DEF T
  <1>11. /\ run[r].todo \ {f} \in SUBSET FilesOf[SourceOf[r]] /\ "copying" \in Phases
         /\ UNCHANGED <<starts, ledger, env>>
    BY DEF TypeInv, RunsTyped, Phases, CopyFile
  <1> DEFINE T == run[r].todo \ {f}
  <1>12. RunsTyped' /\ Alone(r) /\ run'[r].pc = "copying" /\ run'[r].todo = T
    <2> HIDE DEF T
    <2>1. Walks(r, "copying", T) /\ T \in SUBSET FilesOf[SourceOf[r]]
      BY <1>10, <1>11 DEF T
    <2>2. QED
      BY <2>1, <1>11, CopyIs DEF TypeInv
  <1>13. QED
    BY <1>6, <1>7, <1>9, <1>11, <1>12, Untouched DEF TypeInv, env

LEMMA CleanupDoes ==
  ASSUME TypeInv, NEW r \in Runs, Cleanup(r)
  PROVE  /\ TypeInv' /\ Alone(r) /\ run'[r].pc = "idle" /\ run[r].pc = "failed"
         /\ \E n \in Removals(at[SourceOf[r]][DestOf[r]]) : PutBy(SourceOf[r], DestOf[r], n)
  <1> DEFINE s == SourceOf[r]
             d == DestOf[r]
  <1>1. s \in Sources /\ d \in Places /\ d # "backup"
    BY PlacesAre
  <1>2. PICK n \in Removals(at[s][d]) : Put(s, d, n)
    BY DEF Cleanup
  <1>3. n \in Nodes(s)
    BY <1>1, Removed DEF TypeInv, PlacesTyped
  <1>4. PlacesTyped' /\ PutBy(s, d, n)
    BY <1>1, <1>2, <1>3, PutIs DEF TypeInv, PutBy
  <1>5. RunsTyped' /\ Alone(r) /\ run'[r].pc = "idle"
    BY EndsIs DEF Cleanup, TypeInv
  <1>6. QED
    BY <1>4, <1>5, Untouched DEF Cleanup, TypeInv, env

LEMMA StageDoes ==
  ASSUME TypeInv, NEW r \in Runs, Stage(r)
  PROVE  /\ TypeInv' /\ Alone(r) /\ run'[r].pc = "staged"
         /\ RenamedBy(SourceOf[r], "source", "staging")
  <1>1. PlacesTyped' /\ RenamedBy(SourceOf[r], "source", "staging")
    BY PlacesAre, RenameIs DEF Stage, TypeInv, RenamedBy
  <1>2. RunsTyped' /\ Alone(r) /\ run'[r].pc = "staged"
    BY GotoIs DEF Stage, TypeInv, Phases
  <1>3. QED
    BY <1>1, <1>2, Untouched DEF Stage, TypeInv, env

LEMMA LinkSourceDoes ==
  ASSUME TypeInv, NEW r \in Runs, LinkSource(r)
  PROVE  /\ TypeInv' /\ Alone(r) /\ run'[r].pc = "linked"
         /\ PutBy(SourceOf[r], "source", Link(DestOf[r]))
  <1>1. Link(DestOf[r]) \in Nodes(SourceOf[r])
    BY PlacesAre, NodeMade
  <1>2. PlacesTyped' /\ PutBy(SourceOf[r], "source", Link(DestOf[r]))
    BY <1>1, PlacesAre, PutIs DEF LinkSource, TypeInv, PutBy
  <1>3. RunsTyped' /\ Alone(r) /\ run'[r].pc = "linked"
    BY GotoIs DEF LinkSource, TypeInv, Phases
  <1>4. QED
    BY <1>2, <1>3, Untouched DEF LinkSource, TypeInv, env

LEMMA RestoreDoes ==
  ASSUME TypeInv, NEW r \in Runs, Restore(r)
  PROVE  /\ TypeInv' /\ Alone(r) /\ run'[r].pc = "idle"
         /\ \/ /\ CanRename(at[SourceOf[r]]["staging"], at[SourceOf[r]]["source"])
               /\ RenamedBy(SourceOf[r], "staging", "source") /\ UNCHANGED cut
            \/ UNCHANGED at /\ cut' = cut \cup {SourceOf[r]}
  <1>1. /\ PlacesTyped'
        /\ \/ /\ CanRename(at[SourceOf[r]]["staging"], at[SourceOf[r]]["source"])
              /\ RenamedBy(SourceOf[r], "staging", "source") /\ UNCHANGED cut
           \/ UNCHANGED at /\ cut' = cut \cup {SourceOf[r]}
    BY PlacesAre, RenameIs, Untouched DEF Restore, TypeInv, RenamedBy
  <1>2. RunsTyped' /\ Alone(r) /\ run'[r].pc = "idle"
    BY EndsIs DEF Restore, TypeInv
  <1>3. FilesTyped'
    BY <1>1, PlacesAre DEF Restore, TypeInv, FilesTyped
  <1>4. QED
    BY <1>1, <1>2, <1>3, Untouched DEF Restore, TypeInv

LEMMA UnstageDoes ==
  ASSUME TypeInv, NEW r \in Runs, Unstage(r)
  PROVE  /\ TypeInv' /\ Alone(r) /\ run'[r].pc \in {"recording", "idle"}
         /\ \E n \in Removals(at[SourceOf[r]]["staging"]) : PutBy(SourceOf[r], "staging", n)
  <1> DEFINE s == SourceOf[r]
  <1>1. s \in Sources /\ "staging" \in Places
    BY PlacesAre
  <1>2. PICK n \in Removals(at[s]["staging"]) : Put(s, "staging", n)
    BY DEF Unstage
  <1>3. n \in Nodes(s)
    BY <1>1, Removed DEF TypeInv, PlacesTyped
  <1>4. PlacesTyped' /\ PutBy(s, "staging", n)
    BY <1>1, <1>2, <1>3, PutIs DEF TypeInv, PutBy
  <1>5. RunsTyped' /\ Alone(r) /\ run'[r].pc \in {"recording", "idle"}
    BY GotoIs, EndsIs DEF Unstage, TypeInv, Phases
  <1>6. QED
    BY <1>2, <1>4, <1>5, Untouched DEF Unstage, TypeInv, env

-----------------------------------------------------------------------------
(* The link policy, and everybody else. *)
LEMMA ApplyTyped ==
  ASSUME TypeInv, Apply
  PROVE  TypeInv'
  <1> DEFINE s == Entry.source
  <1>1. s \in Sources /\ Entry.target \in Dests
    BY RelocationAssumption
  <1>2. /\ Absent \in Nodes(s) /\ Link(Entry.target) \in Nodes(s)
    BY <1>1, NodeMade
  <1> USE DEF TypeInv
  <1>3. CASE ApplyBegin
    <2>1. LinkTyped'
      BY <1>3, RelocationAssumption DEF ApplyBegin, LinkTyped
    <2>2. QED
      BY <1>3, <2>1, Untouched DEF ApplyBegin
  <1>4. CASE ApplyRemove
    <2>1. PlacesTyped' /\ FilesTyped' /\ LinkTyped'
      <3>1. CASE IsLink(at[s]["source"])
        BY <1>1, <1>2, <1>4, <3>1, PlacesAre, PutIs DEF ApplyRemove, FilesTyped, LinkTyped
      <3>2. CASE ~IsLink(at[s]["source"])
        BY <1>4, <3>2, Untouched DEF ApplyRemove, LinkTyped
      <3>3. QED
        BY <3>1, <3>2
    <2>2. QED
      BY <1>4, <2>1, Untouched DEF ApplyRemove
  <1>5. CASE ApplyForce
    <2>1. PlacesTyped' /\ FilesTyped' /\ LinkTyped'
      BY <1>1, <1>5, PlacesAre, RenameIs, Untouched DEF ApplyForce, FilesTyped, LinkTyped
    <2>2. QED
      BY <1>5, <2>1, Untouched DEF ApplyForce
  <1>6. CASE ApplyLink
    <2>1. PlacesTyped'
      BY <1>1, <1>2, <1>6, PlacesAre, PutIs, RenameIs, Untouched DEF ApplyLink
    <2>2. FilesTyped' /\ LinkTyped'
      BY <1>1, <1>6 DEF ApplyLink, FilesTyped, LinkTyped
    <2>3. QED
      BY <1>6, <2>1, <2>2, Untouched DEF ApplyLink
  <1>7. QED
    BY <1>3, <1>4, <1>5, <1>6 DEF Apply

(* A file written to a source, early or late. *)
WrittenBy(s, f) ==
    /\ written'[s] = written[s] \cup {f}
    /\ \A t \in Sources : t # s => written'[t] = written[t] /\ late'[t] = late[t]

LEMMA WriteDoes ==
  ASSUME TypeInv, NEW s \in Sources, NEW f \in FilesOf[s], Write(s, f)
  PROVE  /\ TypeInv' /\ WrittenBy(s, f)
         /\ late'[s] = IF OnTheMove(s) THEN late[s] \cup {f} ELSE late[s]
         /\ \E p \in Places :
              /\ p = IF IsLink(at[s]["source"]) THEN at[s]["source"].to ELSE "source"
              /\ IsDir(at[s][p]) /\ PutBy(s, p, Dir(at[s][p].files \cup {f}))
  <1> DEFINE p == IF IsLink(at[s]["source"]) THEN at[s]["source"].to ELSE "source"
  <1>1. \A q \in Places : at[s][q] \in Nodes(s)
    BY DEF TypeInv, PlacesTyped
  <1>2. p \in Places /\ p # "backup"
    BY <1>1, PlacesAre, NodeIs
  <1>3. /\ f \notin written[s] /\ IsDir(at[s][p]) /\ Put(s, p, Dir(at[s][p].files \cup {f}))
        /\ written' = [written EXCEPT ![s] = written[s] \cup {f}]
        /\ late' = [late EXCEPT ![s] = IF OnTheMove(s) THEN late[s] \cup {f} ELSE late[s]]
    BY DEF Write
  <1> HIDE DEF p
  <1>4. Dir(at[s][p].files \cup {f}) \in Nodes(s)
    BY <1>1, <1>2, <1>3, NodeIs, NodeMade
  <1>5. PlacesTyped' /\ PutBy(s, p, Dir(at[s][p].files \cup {f}))
    BY <1>2, <1>3, <1>4, PutIs DEF TypeInv, PutBy
  <1>6. /\ FilesTyped' /\ WrittenBy(s, f)
        /\ late'[s] = IF OnTheMove(s) THEN late[s] \cup {f} ELSE late[s]
    <2>1. f \in Files
      BY DEF Files
    <2>2. QED
      BY <1>3, <2>1 DEF TypeInv, FilesTyped, Write, WrittenBy
  <1>7. QED
    BY <1>2, <1>3, <1>5, <1>6, Untouched DEF p, Write, TypeInv

LEMMA RecreateDoes ==
  ASSUME TypeInv, NEW s \in Sources, NEW f \in FilesOf[s], Recreate(s, f)
  PROVE  /\ TypeInv' /\ WrittenBy(s, f) /\ late'[s] = late[s] \cup {f}
         /\ PutBy(s, "source", Dir({f}))
  <1>1. Dir({f}) \in Nodes(s) /\ "source" \in Places
    BY NodeMade, PlacesAre
  <1>2. PlacesTyped' /\ PutBy(s, "source", Dir({f}))
    BY <1>1, PutIs DEF Recreate, TypeInv, PutBy
  <1>3. FilesTyped' /\ WrittenBy(s, f) /\ late'[s] = late[s] \cup {f}
    <2>1. f \in Files
      BY DEF Files
    <2>2. QED
      BY <2>1 DEF TypeInv, FilesTyped, Recreate, WrittenBy
  <1>4. QED
    BY <1>2, <1>3, Untouched DEF Recreate, TypeInv

LEMMA OperatorDoes ==
  ASSUME TypeInv, NEW s \in Sources
  PROVE  /\ OperatorRestores(s) => TypeInv' /\ RenamedBy(s, "staging", "source")
         /\ OperatorClears(s) => TypeInv' /\ PutBy(s, "staging", Absent)
         /\ \A d \in Dests : OperatorDropsCopy(s, d) => TypeInv' /\ PutBy(s, d, Absent)
  <1>1. Absent \in Nodes(s)
    BY NodeMade
  <1>2. ASSUME OperatorRestores(s) PROVE TypeInv' /\ RenamedBy(s, "staging", "source")
    <2>1. PlacesTyped' /\ RenamedBy(s, "staging", "source")
      BY <1>2, PlacesAre, RenameIs DEF OperatorRestores, TypeInv, RenamedBy
    <2>2. QED
      BY <1>2, <2>1, Untouched DEF OperatorRestores, TypeInv, env
  <1>3. ASSUME OperatorClears(s) PROVE TypeInv' /\ PutBy(s, "staging", Absent)
    <2>1. PlacesTyped' /\ PutBy(s, "staging", Absent)
      BY <1>1, <1>3, PlacesAre, PutIs DEF OperatorClears, TypeInv, PutBy
    <2>2. QED
      BY <1>3, <2>1, Untouched DEF OperatorClears, TypeInv, env
  <1>4. ASSUME NEW d \in Dests, OperatorDropsCopy(s, d) PROVE TypeInv' /\ PutBy(s, d, Absent)
    <2>1. PlacesTyped' /\ PutBy(s, d, Absent)
      BY <1>1, <1>4, PlacesAre, PutIs DEF OperatorDropsCopy, TypeInv, PutBy
    <2>2. QED
      BY <1>4, <2>1, Untouched DEF OperatorDropsCopy, TypeInv, env
  <1>5. QED
    BY <1>2, <1>3, <1>4

-----------------------------------------------------------------------------
LEMMA InitTyped ==
  ASSUME Init
  PROVE  TypeInv
  <1>1. \A s \in Sources : written[s] \subseteq FilesOf[s]
    BY DEF Init
  <1>2. PlacesTyped
    <2>1. at = [s \in Sources |-> [p \in Places |-> IF p = "source" THEN Dir(written[s]) ELSE Absent]]
      BY DEF Init
    <2>2. \A s \in Sources : \A p \in Places : at[s][p] \in Nodes(s)
      BY <1>1, <2>1, NodeMade
    <2>3. at \in [Sources -> [Places -> Node]]
      BY <1>1, <2>1, NodeMade
    <2>4. QED
      BY <2>1, <2>2, <2>3, PlacesAre DEF PlacesTyped
  <1>3. FilesTyped
    BY <1>1 DEF Init, FilesTyped, Files
  <1>4. RunsTyped
    BY RelocationAssumption DEF Init, RunsTyped, RunType, NoRun, Phases
  <1>5. LedgerTyped /\ LinkTyped
    <2>1. /\ records = {} /\ moved = [s \in Sources |-> "none"] /\ muddled = FALSE
          /\ link = "idle" /\ applies = 0
      BY DEF Init
    <2>2. moved \in [Sources -> {"none"} \cup Dests]
      BY <2>1
    <2>3. applies \in 0 .. MaxApplies
      BY <2>1, RelocationAssumption
    <2>4. QED
      BY <2>1, <2>2, <2>3 DEF LedgerTyped, LinkTyped
  <1>6. QED
    BY <1>2, <1>3, <1>4, <1>5 DEF TypeInv

LEMMA Typed ==
  ASSUME TypeInv, [Next]_vars
  PROVE  TypeInv'
  <1>1. CASE UNCHANGED vars
    BY <1>1, Untouched DEF vars, env, ledger, TypeInv
  <1>2. ASSUME NEW r \in Runs, Relocate(r) PROVE TypeInv'
    BY <1>2, PlanDoes, GoesOn, CopyBeginDoes, CopyFileDoes, CleanupDoes, StageDoes,
       LinkSourceDoes, RestoreDoes, UnstageDoes DEF Relocate
  <1>3. ASSUME NEW s \in Sources, Others(s) PROVE TypeInv'
    BY <1>3, WriteDoes, RecreateDoes, OperatorDoes DEF Others
  <1>4. QED
    BY <1>1, <1>2, <1>3, ApplyTyped DEF Next

(* The paths, the disks, the records and the relocations under way have their
   types; a link leads to a disk, and a backup is only of the policy's source. *)
THEOREM TypeCorrect == Spec => []TypeOK
  <1>1. TypeInv => TypeOK
    <2> SUFFICES ASSUME TypeInv PROVE TypeOK
      OBVIOUS
    <2>1. \A s \in Sources :
            /\ DOMAIN at[s] = Places
            /\ \A p \in Places : at[s][p] \in Nodes(s)
            /\ at[s]["backup"] # Absent => s = Entry.source
            /\ late[s] \subseteq written[s] /\ written[s] \subseteq FilesOf[s]
      BY DEF TypeInv, PlacesTyped, FilesTyped
    <2>2. \A r \in Runs :
            /\ run[r].pc \in Phases /\ run[r].todo \subseteq FilesOf[SourceOf[r]]
            /\ run[r].plan \in Nat /\ starts[r] \in 0 .. MaxStarts[r]
      BY RelocationAssumption DEF TypeInv, RunsTyped, RunType
    <2>3. QED
      BY <2>1, <2>2 DEF TypeOK, TypeInv, LedgerTyped, LinkTyped, Records
  <1>2. QED
    BY <1>1, InitTyped, Typed, PTL DEF Spec

-----------------------------------------------------------------------------
(* A move the guard completed stays on record, however many relocations read and
   rewrite the file at once, as long as none wrote over a stale copy of it
   (record_relocation). *)
THEOREM MovesStayOnRecord == Spec => []MovesAreRecorded
  <1>1. Init => MovesAreRecorded
    BY DEF Init, MovesAreRecorded
  <1>2. ASSUME TypeInv, MovesAreRecorded, [Next]_vars PROVE MovesAreRecorded'
    <2>1. CASE UNCHANGED ledger
      BY <1>2, <2>1 DEF MovesAreRecorded, ledger
    <2>2. ASSUME NEW r \in Runs, RecordWrite(r) PROVE MovesAreRecorded'
      BY <1>2, <2>2, PlacesAre DEF RecordWrite, WithRecord, MovesAreRecorded, TypeInv, LedgerTyped
    <2>3. ASSUME NEW r \in Runs, RecordFails(r) PROVE MovesAreRecorded'
      BY <1>2, <2>3 DEF RecordFails, MovesAreRecorded
    <2>4. ASSUME NEW r \in Runs, Relocate(r), ~RecordWrite(r), ~RecordFails(r)
          PROVE  UNCHANGED ledger
      BY <2>4 DEF Relocate, Plan, Refuse, Check, CopyBegin, CopyFile, CopyFails, Verify, Cleanup,
         Stage, StageFails, LinkSource, LinkFails, Restore, Unstage, RecordRead, Die
    <2>5. CASE Apply
      BY <2>1, <2>5 DEF Apply, ApplyBegin, ApplyRemove, ApplyForce, ApplyLink
    <2>6. CASE \E s \in Sources : Others(s)
      BY <2>1, <2>6 DEF Others, Write, Recreate, OperatorRestores, OperatorClears, OperatorDropsCopy
    <2>7. QED
      BY <1>2, <2>1, <2>2, <2>3, <2>4, <2>5, <2>6 DEF Next, vars
  <1>3. QED
    BY <1>1, <1>2, InitTyped, Typed, PTL DEF Spec

-----------------------------------------------------------------------------
(* That a complete tree is never lost.  What a relocation may do to the tree of
   another of the same source is the difficulty, so Apart says which may overlap:
   not two to one root, which would remove each other's copy; not three at once,
   of which one may have copied a directory that is not the tree, and link to
   that; and the link policy is not applied to a source while it is moved.  One
   after the other, all of them may: any number of relocations, to any roots, and
   the policy for the very source that a relocation printed the entry for. *)
RunsOf(s) == {r \in Runs : SourceOf[r] = s}
AtRest == {"idle", "recording", "writing"}
Moving(s) == {r \in RunsOf(s) : run[r].pc \notin AtRest}
Apart ==
    \A s \in Sources :
        /\ \A r, q \in Moving(s) : DestOf[r] = DestOf[q] => r = q
        /\ \A r, q, t \in Moving(s) : r = q \/ q = t \/ r = t
        /\ s = Entry.source /\ link # "idle" => Moving(s) = {}

(* The files that were there before any move. *)
Early(s) == written[s] \ late[s]
Full(s, p) == Early(s) \subseteq FilesAt(at[s][p])
Reaches(s, p) ==
    Early(s) \subseteq FilesAt(IF IsLink(at[s][p]) THEN at[s][at[s][p].to] ELSE at[s][p])

Copying == {"copying", "failed"}        \* may still truncate or remove its copy
Aside == {"staged", "unlinked"}         \* the source's name is free
InHand == Aside \cup {"linked"}         \* the staged tree is its own to remove
Going == {"checked", "verified"} \cup Copying \cup Aside

(* A root holds a copy, never a link, and only of a relocation to it; a link
   leads to the root of a relocation of the source; a copy begins from nothing. *)
PlaceOK(s) ==
    /\ \A d \in Dests :
         /\ ~IsLink(at[s][d])
         /\ at[s][d] # Absent => \E r \in RunsOf(s) : DestOf[r] = d
    /\ \A p \in Places : IsLink(at[s][p]) =>
         \E r \in RunsOf(s) : at[s][p] = Link(DestOf[r])
    /\ \A r \in RunsOf(s) :
         run[r].pc \in {"planned", "checked"} => at[s][DestOf[r]] = Absent

(* A relocation that copies has all of the tree copied or to copy, and from the
   verification on has it. *)
Faithful(r) ==
    /\ run[r].pc = "copying" =>
         Early(SourceOf[r]) \subseteq FilesAt(at[SourceOf[r]][DestOf[r]]) \cup run[r].todo
    /\ run[r].pc \in InHand \cup {"verified"} => Full(SourceOf[r], DestOf[r])

(* The tree is complete at a root that no relocation is still filling, or in the
   policy's backup, or it is at home and no relocation has verified a copy. *)
Doomed(s, d) == \E r \in RunsOf(s) : DestOf[r] = d /\ run[r].pc \in Copying
Kept(s) == \E d \in Dests : Full(s, d) /\ ~Doomed(s, d)
AtHome(s) ==
    /\ IsDir(at[s]["source"]) /\ Full(s, "source")
    /\ \A r \in RunsOf(s) : run[r].pc \notin InHand \cup {"verified"} /\ Faithful(r)
Whole(s) == Early(s) = {} \/ Kept(s) \/ AtHome(s) \/ Full(s, "backup")

(* As long as no move of the source was cut short: its path leads to the tree,
   unless one relocation holds the tree in staging; and if somebody has made a
   directory there meanwhile, that relocation is stuck and will be cut short. *)
Stuck(s, q) == run[q].pc \in Aside /\ IsDir(at[s]["source"])
PathOK(s) == (\A r \in RunsOf(s) : run[r].pc \notin Aside) => Reaches(s, "source")
OneInHand(s) ==
    \A r \in RunsOf(s) : \A q \in RunsOf(s) :
        run[r].pc \in InHand /\ run[q].pc \in InHand => r = q
CopyOK(s, r) == Faithful(r) \/ \E q \in RunsOf(s) : q # r /\ Stuck(s, q)
NotLinkedTo(s, r) ==
    run[r].pc \in Copying \cup {"checked", "verified"} =>
        at[s]["source"] # Link(DestOf[r]) /\ at[s]["staging"] # Link(DestOf[r])
StagedOK(s, r) ==
    run[r].pc \in InHand =>
        /\ at[s]["staging"] # Absent /\ at[s]["staging"] # Dir({})
        /\ at[s]["staging"] # Link(DestOf[r])
        /\ run[r].pc = "linked" => at[s]["source"] = Link(DestOf[r])
        /\ run[r].pc \in Aside =>
             /\ ~IsLink(at[s]["source"]) /\ at[s]["source"] # Dir({})
             /\ Reaches(s, "staging")
(* Once the name of the source or of its staging is a link, one relocation at
   most is still under way beside the one that made it. *)
OneMover(s) ==
    \A r \in RunsOf(s) : \A q \in RunsOf(s) :
        /\ IsLink(at[s]["source"]) /\ run[r].pc \in Going /\ run[q].pc \in Going => r = q
        /\ IsLink(at[s]["staging"]) /\ run[r].pc \in Going \cup {"linked"}
             /\ run[q].pc \in Going \cup {"linked"} => r = q
Orderly(s) ==
    /\ PathOK(s) /\ OneInHand(s) /\ OneMover(s)
    /\ \A r \in RunsOf(s) : CopyOK(s, r) /\ NotLinkedTo(s, r) /\ StagedOK(s, r)

TreeOK(s) ==
    /\ PlaceOK(s) /\ Whole(s)
    /\ s \notin cut /\ Early(s) # {} => Orderly(s)
(* The policy points its link at the root of a relocation, and what it has put
   aside counts as cut short. *)
LinkOK ==
    /\ link # "idle" => \E r \in RunsOf(Entry.source) : DestOf[r] = Entry.target
    /\ link = "replacing" => Entry.source \in cut
TreeInv == LinkOK /\ \A s \in Sources : TreeOK(s)

-----------------------------------------------------------------------------
(* While a relocation is under way, no other fills or waits for its root, one
   other at most is under way, and the policy leaves the source alone. *)
LEMMA ApartIs ==
  ASSUME Apart, NEW r \in Runs, run[r].pc \notin AtRest
  PROVE  /\ \A q \in RunsOf(SourceOf[r]) :
              run[q].pc \notin AtRest /\ DestOf[q] = DestOf[r] => q = r
         /\ \A q, t \in RunsOf(SourceOf[r]) :
              run[q].pc \notin AtRest /\ run[t].pc \notin AtRest => r = q \/ q = t \/ r = t
  <1>1. r \in Moving(SourceOf[r]) /\ SourceOf[r] \in Sources
    BY PlacesAre DEF Moving, RunsOf
  <1>2. \A q \in RunsOf(SourceOf[r]) : run[q].pc \notin AtRest => q \in Moving(SourceOf[r])
    BY DEF Moving
  <1>3. QED
    BY <1>1, <1>2 DEF Apart

(* A step that does not concern a source. *)
LEMMA Elsewhere ==
  ASSUME NEW s \in Sources, TreeOK(s), at'[s] = at[s],
         written'[s] = written[s], late'[s] = late[s], s \in cut' <=> s \in cut,
         \A r \in RunsOf(s) : run'[r] = run[r]
  PROVE  TreeOK(s)'
  <1>1. Early(s)' = Early(s)
    BY DEF Early
  <1>2. \A r \in RunsOf(s) : SourceOf[r] = s
    BY DEF RunsOf
  <1>3. PlaceOK(s)'
    BY DEF TreeOK, PlaceOK
  <1>4. Whole(s)'
    BY <1>1, <1>2 DEF TreeOK, Whole, Kept, Doomed, AtHome, Full, Faithful
  <1>5. Orderly(s) => Orderly(s)'
    <2> SUFFICES ASSUME Orderly(s) PROVE Orderly(s)'
      OBVIOUS
    <2>1. \A p : Reaches(s, p)' <=> Reaches(s, p)
      BY <1>1 DEF Reaches
    <2>2. PathOK(s)' /\ OneInHand(s)' /\ OneMover(s)'
      BY <2>1 DEF Orderly, PathOK, OneInHand, OneMover
    <2>3. \A r \in RunsOf(s) : CopyOK(s, r)'
      BY <1>1, <1>2 DEF Orderly, CopyOK, Faithful, Full, Stuck
    <2>4. \A r \in RunsOf(s) : NotLinkedTo(s, r)' /\ StagedOK(s, r)'
      BY <2>1 DEF Orderly, NotLinkedTo, StagedOK
    <2>5. QED
      BY <2>2, <2>3, <2>4 DEF Orderly
  <1>6. QED
    BY <1>1, <1>3, <1>4, <1>5 DEF TreeOK

-----------------------------------------------------------------------------
(* The steps that leave every place as it is. *)
Waits(r) ==
    LET s == SourceOf[r]  from == run[r].pc  to == run'[r].pc IN
    /\ UNCHANGED <<at, written, late>> /\ (s \in cut => s \in cut')
    /\ to \in {"planned", "checked"} => at[s][DestOf[r]] = Absent
    /\ to = "checked" => at[s]["staging"] = Absent /\ IsDir(at[s]["source"])
    /\ to \in Copying => to = "failed" /\ from = "copying"
    /\ to = "verified" => from = "copying" /\ run[r].todo = {}
    /\ to \in InHand => to = "unlinked" /\ from = "staged"
    /\ from \in Aside => to \in Aside \/ s \in cut'

LEMMA WaitsTree ==
  ASSUME NEW r \in Runs, TreeOK(SourceOf[r]), Apart, Alone(r), Waits(r)
  PROVE  TreeOK(SourceOf[r])'
  <1> DEFINE s == SourceOf[r]
             d == DestOf[r]
  <1>1. s \in Sources /\ d \in Dests
    BY PlacesAre
  <1>2. \A q \in RunsOf(s) : q \in Runs /\ SourceOf[q] = s /\ (q = r \/ run'[q] = run[q])
    BY DEF RunsOf, Alone
  <1>3. /\ Early(s)' = Early(s) /\ \A p : Full(s, p)' <=> Full(s, p)
        /\ \A p : Reaches(s, p)' <=> Reaches(s, p)
    BY DEF Waits, Early, Full, Reaches
  <1>4. r \in RunsOf(s) /\ UNCHANGED at
    BY DEF RunsOf, Waits
  <1>5. Faithful(r) => Faithful(r)'
    BY <1>3 DEF Waits, Faithful, Full, Copying, InHand, Aside
  <1>6. \A q \in RunsOf(s) : Faithful(q) => Faithful(q)'
    BY <1>2, <1>3, <1>4, <1>5 DEF Faithful
  <1>7. PlaceOK(s)'
    BY <1>2, <1>4 DEF TreeOK, PlaceOK, Waits
  <1>8. Whole(s)'
    <2>1. CASE Early(s) = {}
      BY <1>3, <2>1 DEF Whole
    <2>2. CASE Kept(s)
      BY <1>2, <1>3, <2>2 DEF Whole, Kept, Doomed, Waits, Copying
    <2>3. CASE AtHome(s) /\ run'[r].pc \notin InHand \cup {"verified"}
      BY <1>2, <1>3, <1>4, <1>6, <2>3 DEF Whole, AtHome
    <2>4. CASE AtHome(s) /\ run'[r].pc = "verified"
      <3>1. Full(s, d)
        BY <1>4, <2>4 DEF AtHome, Faithful, Waits, Full
      <3>2. ~Doomed(s, d)'
        BY <1>2, <2>4, ApartIs DEF Doomed, Waits, Copying, AtRest
      <3>3. QED
        BY <1>1, <1>3, <3>1, <3>2 DEF Whole, Kept
    <2>5. CASE AtHome(s) /\ run'[r].pc \in InHand
      BY <1>4, <2>5 DEF AtHome, Waits, InHand, Aside
    <2>6. CASE Full(s, "backup")
      BY <1>3, <2>6 DEF Whole
    <2>7. QED
      BY <2>1, <2>2, <2>3, <2>4, <2>5, <2>6 DEF TreeOK, Whole
  <1>9. ASSUME Orderly(s), s \notin cut' PROVE Orderly(s)'
    <2>1. \A q \in RunsOf(s) : run[q].pc \in Aside <=> run'[q].pc \in Aside
      BY <1>2, <1>9 DEF Waits, InHand, Aside
    <2>2. \A q \in RunsOf(s) : run'[q].pc \in InHand => run[q].pc \in InHand
      BY <1>2 DEF Waits, InHand, Aside
    <2>3. PathOK(s)' /\ OneInHand(s)'
      BY <1>3, <1>9, <2>1, <2>2 DEF Orderly, PathOK, OneInHand
    <2>4. \A q \in RunsOf(s) : CopyOK(s, q)'
      BY <1>4, <1>6, <1>9, <2>1 DEF Orderly, CopyOK, Stuck
    <2>5. \A q \in RunsOf(s) : NotLinkedTo(s, q)'
      BY <1>2, <1>4, <1>9, Kinds DEF Orderly, NotLinkedTo, Waits, Copying
    <2>6. \A q \in RunsOf(s) : StagedOK(s, q)'
      BY <1>2, <1>3, <1>4, <1>9, <2>1 DEF Orderly, StagedOK, Waits, InHand, Aside
    <2>7. OneMover(s)'
      <3>1. IsLink(at[s]["source"]) \/ IsLink(at[s]["staging"]) =>
              \A q \in RunsOf(s) :
                 /\ run'[q].pc \in Going => run[q].pc \in Going
                 /\ run'[q].pc = "linked" => run[q].pc = "linked"
        BY <1>2, Kinds DEF Waits, Going, Copying, InHand, Aside, IsDir, IsLink
      <3>2. QED
        BY <1>4, <1>9, <3>1 DEF Orderly, OneMover
    <2>8. QED
      BY <2>3, <2>4, <2>5, <2>6, <2>7 DEF Orderly
  <1>10. QED
    BY <1>3, <1>7, <1>8, <1>9 DEF TreeOK, Waits

LEMMA WaitsAre ==
  ASSUME TypeInv, NEW r \in Runs,
         \/ Plan(r) \/ Refuse(r) \/ Check(r) \/ CopyFails(r) \/ StageFails(r) \/ LinkFails(r)
         \/ Verify(r) \/ Die(r) \/ RecordRead(r) \/ RecordWrite(r) \/ RecordFails(r)
  PROVE  Waits(r) /\ Alone(r)
         /\ \A t \in Sources : t # SourceOf[r] => (t \in cut' <=> t \in cut)
  <1>1. run[r].pc \in Phases /\ run \in [Runs -> RunType]
    BY DEF TypeInv, RunsTyped, RunType
  <1>2. Alone(r) /\ RunsTyped
    BY PlanDoes, GoesOn DEF TypeInv
  <1> USE DEF Waits, Copying, InHand, Aside, env
  <1>3. CASE Plan(r)
    BY <1>2, <1>3, PlanDoes DEF Plan
  <1>4. CASE Refuse(r) \/ StageFails(r)
    BY <1>2, <1>4, EndsIs DEF Refuse, StageFails
  <1>5. CASE Check(r) \/ CopyFails(r) \/ LinkFails(r)
    BY <1>2, <1>5, GotoIs DEF Check, CopyFails, LinkFails, Phases
  <1>6. CASE Verify(r)
    BY <1>2, <1>6, GotoIs DEF Verify, Phases
  <1>7. CASE Die(r)
    BY <1>2, <1>7, EndsIs DEF Die
  <1>8. CASE RecordRead(r)
    <2>1. run'[r].pc = "writing" /\ run[r].pc = "recording"
      BY <1>1, <1>8 DEF RecordRead, RunType
    <2>2. QED
      BY <1>2, <1>8, <2>1 DEF RecordRead
  <1>9. CASE RecordWrite(r) \/ RecordFails(r)
    BY <1>2, <1>9, EndsIs DEF RecordWrite, RecordFails
  <1>10. QED
    BY <1>3, <1>4, <1>5, <1>6, <1>7, <1>8, <1>9

-----------------------------------------------------------------------------
(* The steps that work on the relocation's own root. *)
Fills(r, n) ==
    /\ PutBy(SourceOf[r], DestOf[r], n) /\ ~IsLink(n)
    /\ UNCHANGED <<written, late, cut>>
    /\ run[r].pc \in Copying \cup {"checked"} /\ run'[r].pc \in Copying \cup {"idle"}

LEMMA FillsTree ==
  ASSUME NEW r \in Runs, NEW n, TreeOK(SourceOf[r]), Apart, Alone(r), Fills(r, n),
         AtHome(SourceOf[r]) => Faithful(r)',
         SourceOf[r] \notin cut /\ Early(SourceOf[r]) # {} =>
            Faithful(r)' \/ \E q \in RunsOf(SourceOf[r]) : q # r /\ Stuck(SourceOf[r], q)
  PROVE  TreeOK(SourceOf[r])'
  <1> DEFINE s == SourceOf[r]
             d == DestOf[r]
  <1>1. s \in Sources /\ d \in Dests /\ d \in Places /\ d # "source" /\ d # "staging"
    BY PlacesAre
  <1>2. \A q \in RunsOf(s) : q \in Runs /\ SourceOf[q] = s /\ DestOf[q] \in Places
    BY PlacesAre DEF RunsOf
  <1>3. \A q \in RunsOf(s) :
          q # r => run'[q] = run[q] /\ (run[q].pc \in AtRest \/ DestOf[q] # d)
    BY <1>2, ApartIs DEF Alone, Fills, Copying, AtRest
  <1>4. Early(s)' = Early(s) /\ r \in RunsOf(s) /\ (s \in cut' <=> s \in cut)
    BY DEF Fills, Early, RunsOf
  <1>5. /\ at'[s]["source"] = at[s]["source"] /\ at'[s]["staging"] = at[s]["staging"]
        /\ \A p \in Places : p # d => at'[s][p] = at[s][p]
        /\ at'[s][d] = n /\ ~IsLink(n)
    BY <1>1, PlacesAre DEF Fills, PutBy
  <1>6. \A q \in RunsOf(s) : q # r => (Faithful(q) => Faithful(q)')
    BY <1>2, <1>3, <1>4, <1>5 DEF Faithful, Full, AtRest, InHand, Aside
  <1>7. run'[r].pc \notin {"planned", "checked", "verified"} \cup InHand /\ run[r].pc \notin InHand
    BY DEF Fills, Copying, InHand, Aside
  <1>8. PlaceOK(s)'
    <2>1. PlaceOK(s)
      BY DEF TreeOK
    <2>2. \A e \in Dests :
            /\ ~IsLink(at'[s][e])
            /\ at'[s][e] # Absent => \E q \in RunsOf(s) : DestOf[q] = e
      BY <1>1, <1>4, <1>5, <2>1, PlacesAre DEF PlaceOK
    <2>3. \A p \in Places : IsLink(at'[s][p]) => \E q \in RunsOf(s) : at'[s][p] = Link(DestOf[q])
      BY <1>5, <2>1 DEF PlaceOK
    <2>4. \A q \in RunsOf(s) : run'[q].pc \in {"planned", "checked"} => at'[s][DestOf[q]] = Absent
      BY <1>2, <1>3, <1>5, <1>7, <2>1 DEF PlaceOK, AtRest
    <2>5. QED
      BY <2>2, <2>3, <2>4 DEF PlaceOK
  <1>9. Whole(s)'
    <2>1. CASE Early(s) = {}
      BY <1>4, <2>1 DEF Whole
    <2>2. CASE Kept(s) /\ Early(s) # {}
      <3>1. PICK e \in Dests : Full(s, e) /\ ~Doomed(s, e)
        BY <2>2 DEF Kept
      <3>2. e # d
        <4>1. CASE run[r].pc = "checked"
          BY <1>4, <2>2, <3>1, <4>1, Kinds DEF TreeOK, PlaceOK, Full
        <4>2. CASE run[r].pc \in Copying
          BY <1>4, <3>1, <4>2 DEF Doomed
        <4>3. QED
          BY <4>1, <4>2 DEF Fills
      <3>3. Full(s, e)' /\ ~Doomed(s, e)'
        BY <1>1, <1>3, <1>4, <1>5, <3>1, <3>2, PlacesAre DEF Full, Doomed
      <3>4. QED
        BY <3>3 DEF Whole, Kept
    <2>3. CASE AtHome(s)
      BY <1>3, <1>4, <1>5, <1>6, <1>7, <2>3 DEF Whole, AtHome, Full
    <2>4. CASE Full(s, "backup")
      BY <1>1, <1>4, <1>5, <2>4, PlacesAre DEF Whole, Full
    <2>5. QED
      BY <2>1, <2>2, <2>3, <2>4 DEF TreeOK, Whole
  <1>10. ASSUME Orderly(s), s \notin cut, Early(s) # {} PROVE Orderly(s)'
    <2>1. NotLinkedTo(s, r) /\ at[s]["source"] # Link(d) /\ at[s]["staging"] # Link(d)
      BY <1>4, <1>10 DEF Orderly, NotLinkedTo, Fills
    <2>2. \A p \in {"source", "staging"} : Reaches(s, p) => Reaches(s, p)'
      <3> SUFFICES ASSUME NEW p \in {"source", "staging"}, Reaches(s, p) PROVE Reaches(s, p)'
        OBVIOUS
      <3>1. CASE IsLink(at[s][p])
        <4>1. PICK q \in RunsOf(s) : at[s][p] = Link(DestOf[q])
          BY <3>1, PlacesAre DEF TreeOK, PlaceOK
        <4>2. at[s][p].to = DestOf[q] /\ DestOf[q] # d /\ DestOf[q] \in Places
          BY <1>2, <2>1, <4>1, Kinds
        <4>3. QED
          BY <1>4, <1>5, <3>1, <4>2 DEF Reaches
      <3>2. CASE ~IsLink(at[s][p])
        BY <1>4, <1>5, <3>2 DEF Reaches
      <3>3. QED
        BY <3>1, <3>2
    <2>3. \A q \in RunsOf(s) : run'[q].pc \in InHand <=> run[q].pc \in InHand
      BY <1>3, <1>7
    <2>4. \A q \in RunsOf(s) : run'[q].pc \in Aside <=> run[q].pc \in Aside
      BY <1>3, <1>7 DEF InHand
    <2>5. PathOK(s)' /\ OneInHand(s)'
      BY <1>10, <2>2, <2>3, <2>4 DEF Orderly, PathOK, OneInHand
    <2>6. \A q \in RunsOf(s) : CopyOK(s, q)'
      BY <1>4, <1>5, <1>6, <1>10, <2>4 DEF Orderly, CopyOK, Stuck
    <2>7. \A q \in RunsOf(s) : NotLinkedTo(s, q)'
      BY <1>3, <1>5, <1>10, <2>1 DEF Orderly, NotLinkedTo
    <2>8. \A q \in RunsOf(s) : StagedOK(s, q)'
      BY <1>3, <1>5, <1>7, <1>10, <2>2 DEF Orderly, StagedOK
    <2>9. OneMover(s)'
      <3>1. \A q \in RunsOf(s) :
              /\ run'[q].pc \in Going => run[q].pc \in Going
              /\ run'[q].pc = "linked" => run[q].pc = "linked"
        BY <1>3 DEF Fills, Going, Copying, Aside
      <3>2. QED
        BY <1>5, <1>10, <3>1 DEF Orderly, OneMover
    <2>10. QED
      BY <2>5, <2>6, <2>7, <2>8, <2>9 DEF Orderly
  <1>11. QED
    BY <1>4, <1>8, <1>9, <1>10 DEF TreeOK

LEMMA CopyBeginTree ==
  ASSUME TypeInv, NEW r \in Runs, TreeOK(SourceOf[r]), Apart, CopyBegin(r)
  PROVE  TreeOK(SourceOf[r])'
  <1> DEFINE s == SourceOf[r]
             d == DestOf[r]
             n == Dir(FilesAt(at[s][d]))
  <1>1. /\ Alone(r) /\ PutBy(s, d, n)
        /\ IF IsDir(Resolved(s))
           THEN run'[r].pc = "copying" /\ run'[r].todo = Resolved(s).files
           ELSE run'[r].pc = "failed"
    BY CopyBeginDoes
  <1>2. Fills(r, n)
    BY <1>1, Kinds DEF Fills, Copying, CopyBegin, env
  <1>3. Early(s)' = Early(s) /\ run[r].pc = "checked" /\ r \in RunsOf(s)
    BY DEF CopyBegin, Early, env, RunsOf
  <1>4. IsDir(Resolved(s)) /\ Early(s) \subseteq FilesAt(Resolved(s)) => Faithful(r)'
    BY <1>1, <1>3 DEF Faithful, InHand, Aside, FilesAt
  <1>5. ~IsDir(Resolved(s)) => Faithful(r)'
    BY <1>1 DEF Faithful, InHand, Aside
  <1>6. AtHome(s) => Faithful(r)'
    BY <1>4, Kinds DEF AtHome, Resolved, Full, IsDir, IsLink
  <1>7. ASSUME s \notin cut, Early(s) # {}
        PROVE  Faithful(r)' \/ \E q \in RunsOf(s) : q # r /\ Stuck(s, q)
    <2>1. CASE \A q \in RunsOf(s) : run[q].pc \notin Aside
      <3>1. Reaches(s, "source")
        BY <1>7, <2>1 DEF TreeOK, Orderly, PathOK
      <3>2. Early(s) \subseteq FilesAt(Resolved(s))
        BY <3>1 DEF Reaches, Resolved
      <3>3. QED
        BY <1>4, <1>5, <3>2
    <2>2. ASSUME NEW q \in RunsOf(s), run[q].pc \in Aside PROVE Stuck(s, q) \/ ~IsDir(Resolved(s))
      <3>1. ~IsLink(at[s]["source"])
        BY <1>7, <2>2 DEF TreeOK, Orderly, StagedOK, InHand
      <3>2. QED
        BY <2>2, <3>1 DEF Stuck, Resolved
    <2>3. \A q \in RunsOf(s) : run[q].pc \in Aside => q # r
      BY <1>3 DEF Aside
    <2>4. QED
      BY <1>5, <2>1, <2>2, <2>3
  <1>8. QED
    BY <1>1, <1>2, <1>6, <1>7, FillsTree

LEMMA CopyFileTree ==
  ASSUME TypeInv, NEW r \in Runs, TreeOK(SourceOf[r]), Apart, CopyFile(r)
  PROVE  TreeOK(SourceOf[r])'
  <1> DEFINE s == SourceOf[r]
             d == DestOf[r]
  <1>1. PICK f, n : /\ PutBy(s, d, n) /\ run'[r].todo = run[r].todo \ {f} /\ IsDir(n)
                    /\ at[s]["source"] # Link(d) =>
                         FilesAt(n) = FilesAt(at[s][d]) \cup {f}
    BY CopyFileDoes
  <1>2. Alone(r) /\ run'[r].pc = "copying" /\ run[r].pc = "copying" /\ UNCHANGED <<written, late, cut>>
    BY CopyFileDoes DEF CopyFile, env
  <1>3. Fills(r, n)
    BY <1>1, <1>2 DEF Fills, Copying, IsDir, IsLink
  <1>4. /\ Early(s)' = Early(s) /\ at'[s][d] = n /\ r \in RunsOf(s)
    BY <1>1, <1>2 DEF Early, PutBy, RunsOf
  <1>5. at[s]["source"] # Link(d) /\ Faithful(r) => Faithful(r)'
    BY <1>1, <1>2, <1>4 DEF Faithful, InHand, Aside
  <1>6. AtHome(s) => Faithful(r)'
    BY <1>4, <1>5, Kinds DEF AtHome
  <1>7. ASSUME s \notin cut, Early(s) # {}
        PROVE  Faithful(r)' \/ \E q \in RunsOf(s) : q # r /\ Stuck(s, q)
    BY <1>2, <1>4, <1>5, <1>7 DEF TreeOK, Orderly, CopyOK, NotLinkedTo, Copying
  <1>8. QED
    BY <1>2, <1>3, <1>6, <1>7, FillsTree

LEMMA CleanupTree ==
  ASSUME TypeInv, NEW r \in Runs, TreeOK(SourceOf[r]), Apart, Cleanup(r)
  PROVE  TreeOK(SourceOf[r])'
  <1> DEFINE s == SourceOf[r]
             d == DestOf[r]
  <1>1. PICK n \in Removals(at[s][d]) : PutBy(s, d, n)
    BY CleanupDoes
  <1>2. Alone(r) /\ run'[r].pc = "idle" /\ run[r].pc = "failed" /\ UNCHANGED <<written, late, cut>>
    BY CleanupDoes DEF Cleanup, env
  <1>3. ~IsLink(n)
    BY PlacesAre, Removed DEF TreeOK, PlaceOK, TypeInv, PlacesTyped
  <1>4. Fills(r, n)
    BY <1>1, <1>2, <1>3 DEF Fills, Copying
  <1>5. Faithful(r)'
    BY <1>2 DEF Faithful, InHand, Aside
  <1>6. QED
    BY <1>2, <1>4, <1>5, FillsTree

-----------------------------------------------------------------------------
(* The steps that rename, link or remove beside the roots. *)
LEMMA BesideRoots ==
  ASSUME NEW s \in Sources, TreeOK(s), Early(s)' = Early(s),
         \A e \in Dests : at'[s][e] = at[s][e],
         \A q \in RunsOf(s) :
            run'[q] = run[q] \/ run'[q].pc \notin {"planned", "checked"} \cup Copying,
         \A p \in {"source", "staging", "backup"} :
            IsLink(at'[s][p]) => \E q \in RunsOf(s) : at'[s][p] = Link(DestOf[q])
  PROVE  /\ PlaceOK(s)'
         /\ Kept(s) => Kept(s)'
         /\ at'[s]["backup"] = at[s]["backup"] /\ Full(s, "backup") => Full(s, "backup")'
         /\ \A q \in RunsOf(s) : run'[q] = run[q] /\ Faithful(q) => Faithful(q)'
         /\ \A q \in RunsOf(s) : Full(s, DestOf[q])' <=> Full(s, DestOf[q])
         /\ \A p, o \in Places : at'[s][p] = at[s][o] /\ Reaches(s, o) => Reaches(s, p)'
  <1>1. \A q \in RunsOf(s) : q \in Runs /\ SourceOf[q] = s /\ DestOf[q] \in Dests
    BY PlacesAre DEF RunsOf
  <1>2. PlaceOK(s)
    BY DEF TreeOK
  <1>3. PlaceOK(s)'
    <2>1. \A e \in Dests :
            /\ ~IsLink(at'[s][e])
            /\ at'[s][e] # Absent => \E q \in RunsOf(s) : DestOf[q] = e
      BY <1>2 DEF PlaceOK
    <2>2. \A p \in Places : IsLink(at'[s][p]) => \E q \in RunsOf(s) : at'[s][p] = Link(DestOf[q])
      BY <2>1 DEF Places
    <2>3. \A q \in RunsOf(s) : run'[q].pc \in {"planned", "checked"} => at'[s][DestOf[q]] = Absent
      BY <1>1, <1>2 DEF PlaceOK
    <2>4. QED
      BY <2>1, <2>2, <2>3 DEF PlaceOK
  <1>4. Kept(s) => Kept(s)'
    BY DEF Kept, Full, Doomed
  <1>5. \A q \in RunsOf(s) : run'[q] = run[q] /\ Faithful(q) => Faithful(q)'
    BY <1>1 DEF Faithful, Full
  <1>6. \A q \in RunsOf(s) : Full(s, DestOf[q])' <=> Full(s, DestOf[q])
    BY <1>1 DEF Full
  <1>7. ASSUME NEW p \in Places, NEW o \in Places, at'[s][p] = at[s][o], Reaches(s, o)
        PROVE  Reaches(s, p)'
    <2>1. CASE IsLink(at[s][o])
      <3>1. at[s][o].to \in Dests
        BY <1>1, <1>2, <2>1, Kinds DEF PlaceOK
      <3>2. QED
        BY <1>7, <2>1, <3>1 DEF Reaches
    <2>2. CASE ~IsLink(at[s][o])
      BY <1>7, <2>2 DEF Reaches
    <2>3. QED
      BY <2>1, <2>2
  <1>8. at'[s]["backup"] = at[s]["backup"] /\ Full(s, "backup") => Full(s, "backup")'
    BY DEF Full
  <1>9. QED
    BY <1>3, <1>4, <1>5, <1>6, <1>7, <1>8

(* While one relocation is past the verification of its copy no other has the
   tree in hand, and nobody is at home. *)
LEMMA NobodyElse ==
  ASSUME TypeInv, NEW r \in Runs, Orderly(SourceOf[r]),
         run[r].pc = "verified",
         CanRename(at[SourceOf[r]]["source"], at[SourceOf[r]]["staging"])
  PROVE  \A q \in RunsOf(SourceOf[r]) : run[q].pc \notin InHand
  <1> DEFINE s == SourceOf[r]
             S == at[s]["source"]
             G == at[s]["staging"]
  <1> SUFFICES ASSUME NEW q \in RunsOf(s), run[q].pc \in InHand PROVE FALSE
    OBVIOUS
  <1>1. r \in RunsOf(s) /\ q # r /\ q \in Runs /\ SourceOf[q] = s
    BY DEF RunsOf, InHand, Aside
  <1>2. StagedOK(s, q) /\ NotLinkedTo(s, r)
    BY <1>1 DEF Orderly
  <1>3. S \in Nodes(s) /\ S # Absent /\ G # Absent /\ G # Dir({})
    BY <1>2, PlacesAre DEF StagedOK, CanRename, TypeInv, PlacesTyped
  <1>4. IsLink(S) /\ IsLink(G)
    BY <1>3 DEF CanRename
  <1>5. run[q].pc = "linked"
    BY <1>2, <1>4 DEF StagedOK, InHand
  <1>6. QED
    BY <1>1, <1>4, <1>5 DEF Orderly, OneMover, Going

LEMMA StageTree ==
  ASSUME TypeInv, NEW r \in Runs, TreeOK(SourceOf[r]), Stage(r)
  PROVE  TreeOK(SourceOf[r])'
  <1> DEFINE s == SourceOf[r]
             d == DestOf[r]
  <1>1. /\ Alone(r) /\ run'[r].pc = "staged" /\ run[r].pc = "verified"
        /\ RenamedBy(s, "source", "staging")
        /\ CanRename(at[s]["source"], at[s]["staging"])
    BY StageDoes DEF Stage
  <1>2. /\ Early(s)' = Early(s) /\ (s \in cut' <=> s \in cut)
        /\ s \in Sources /\ r \in RunsOf(s)
    BY PlacesAre DEF Stage, env, Early, RunsOf
  <1>3. \A q \in RunsOf(s) : q # r => run'[q] = run[q]
    BY <1>1 DEF Alone, RunsOf
  <1>4. /\ at'[s]["staging"] = at[s]["source"] /\ at'[s]["source"] = Absent
        /\ at'[s]["backup"] = at[s]["backup"] /\ \A e \in Dests : at'[s][e] = at[s][e]
    BY <1>1, PlacesAre DEF RenamedBy
  <1>5. /\ PlaceOK(s)' /\ (Kept(s) => Kept(s)')
        /\ Full(s, "backup") => Full(s, "backup")'
        /\ \A q \in RunsOf(s) : q # r /\ Faithful(q) => Faithful(q)'
        /\ Full(s, d)' <=> Full(s, d)
        /\ Reaches(s, "source") => Reaches(s, "staging")'
    <2>1. \A p \in {"source", "staging", "backup"} :
            IsLink(at'[s][p]) => \E q \in RunsOf(s) : at'[s][p] = Link(DestOf[q])
      BY <1>4, PlacesAre, Kinds DEF TreeOK, PlaceOK
    <2>2. \A q \in RunsOf(s) :
            run'[q] = run[q] \/ run'[q].pc \notin {"planned", "checked"} \cup Copying
      BY <1>1, <1>3 DEF Copying
    <2>3. QED
      BY <1>2, <1>3, <1>4, <2>1, <2>2, BesideRoots, PlacesAre
  <1>6. Whole(s)'
    BY <1>1, <1>2, <1>5 DEF TreeOK, Whole, AtHome
  <1>7. ASSUME Orderly(s), Early(s) # {} PROVE Orderly(s)'
    <2>1. \A q \in RunsOf(s) : run[q].pc \notin InHand
      BY <1>1, <1>7, NobodyElse DEF TreeOK
    <2>2. Reaches(s, "source")
      BY <1>7, <2>1 DEF Orderly, PathOK, InHand
    <2>3. \A q \in RunsOf(s) : Faithful(q)
      BY <1>7, <2>1 DEF Orderly, CopyOK, Stuck, InHand
    <2>4. PathOK(s)' /\ OneInHand(s)'
      BY <1>1, <1>2, <1>3, <2>1 DEF PathOK, OneInHand, Aside
    <2>5. \A q \in RunsOf(s) : CopyOK(s, q)'
      BY <1>1, <1>2, <1>5, <2>3 DEF CopyOK, Faithful, InHand, Aside
    <2>6. \A q \in RunsOf(s) : NotLinkedTo(s, q) /\ q # r => NotLinkedTo(s, q)'
      BY <1>3, <1>4, Kinds DEF NotLinkedTo
    <2>7. \A q \in RunsOf(s) : NotLinkedTo(s, q)'
      BY <1>1, <1>7, <2>6 DEF Orderly, NotLinkedTo, Copying
    <2>8. StagedOK(s, r)'
      <3>1. at[s]["source"] # Link(d)
        BY <1>1, <1>2, <1>7 DEF Orderly, NotLinkedTo
      <3>2. at[s]["source"] # Absent /\ at[s]["source"] # Dir({})
        BY <1>1, <1>7, <2>2, Kinds DEF CanRename, Reaches
      <3>3. QED
        BY <1>1, <1>4, <1>5, <2>2, <3>1, <3>2, Kinds DEF StagedOK, InHand
    <2>9. \A q \in RunsOf(s) : StagedOK(s, q)'
      BY <1>3, <2>1, <2>8 DEF StagedOK
    <2>10. OneMover(s)'
      BY <1>1, <1>2, <1>3, <1>4, <1>7, <2>1, Kinds DEF Orderly, OneMover, Going, Aside, InHand
    <2>11. QED
      BY <2>4, <2>5, <2>7, <2>9, <2>10 DEF Orderly
  <1>8. QED
    BY <1>2, <1>5, <1>6, <1>7 DEF TreeOK

(* While a relocation has the tree in hand, the others have verified copies that
   are faithful, or it is stuck. *)
LEMMA InHandAlone ==
  ASSUME NEW r \in Runs, Orderly(SourceOf[r]), run[r].pc \in InHand
  PROVE  /\ \A q \in RunsOf(SourceOf[r]) : q # r => run[q].pc \notin InHand
         /\ Faithful(r)
         /\ ~Stuck(SourceOf[r], r) => \A q \in RunsOf(SourceOf[r]) : Faithful(q)
  <1>1. r \in RunsOf(SourceOf[r])
    BY DEF RunsOf
  <1>2. \A q \in RunsOf(SourceOf[r]) : q # r => run[q].pc \notin InHand
    BY <1>1 DEF Orderly, OneInHand
  <1>3. \A q \in RunsOf(SourceOf[r]) : q # r => ~Stuck(SourceOf[r], q)
    BY <1>2 DEF Stuck, InHand
  <1>4. QED
    BY <1>1, <1>2, <1>3 DEF Orderly, CopyOK

LEMMA LinkSourceTree ==
  ASSUME TypeInv, NEW r \in Runs, TreeOK(SourceOf[r]), Apart, LinkSource(r)
  PROVE  TreeOK(SourceOf[r])'
  <1> DEFINE s == SourceOf[r]
             d == DestOf[r]
  <1>1. /\ Alone(r) /\ run'[r].pc = "linked" /\ run[r].pc = "staged"
        /\ PutBy(s, "source", Link(d)) /\ at[s]["source"] = Absent
    BY LinkSourceDoes DEF LinkSource
  <1>2. /\ Early(s)' = Early(s) /\ (s \in cut' <=> s \in cut)
        /\ s \in Sources /\ r \in RunsOf(s) /\ d \in Dests
    BY PlacesAre DEF LinkSource, env, Early, RunsOf
  <1>3. \A q \in RunsOf(s) : q \in Runs /\ SourceOf[q] = s /\ (q # r => run'[q] = run[q])
    BY <1>1 DEF Alone, RunsOf
  <1>4. /\ at'[s]["source"] = Link(d) /\ at'[s]["staging"] = at[s]["staging"]
        /\ at'[s]["backup"] = at[s]["backup"] /\ \A e \in Dests : at'[s][e] = at[s][e]
    BY <1>1, PlacesAre DEF PutBy
  <1>5. /\ PlaceOK(s)' /\ (Kept(s) => Kept(s)')
        /\ Full(s, "backup") => Full(s, "backup")'
        /\ \A q \in RunsOf(s) : q # r /\ Faithful(q) => Faithful(q)'
        /\ Full(s, d)' <=> Full(s, d)
    <2>1. \A p \in {"source", "staging", "backup"} :
            IsLink(at'[s][p]) => \E q \in RunsOf(s) : at'[s][p] = Link(DestOf[q])
      BY <1>2, <1>4, PlacesAre DEF TreeOK, PlaceOK
    <2>2. \A q \in RunsOf(s) :
            run'[q] = run[q] \/ run'[q].pc \notin {"planned", "checked"} \cup Copying
      BY <1>1, <1>3 DEF Copying
    <2>3. QED
      BY <1>2, <1>3, <1>4, <2>1, <2>2, BesideRoots
  <1>6. Whole(s)'
    BY <1>1, <1>2, <1>5, Kinds DEF TreeOK, Whole, AtHome
  <1>7. ASSUME Orderly(s) PROVE Orderly(s)'
    <2>1. /\ \A q \in RunsOf(s) : q # r => run[q].pc \notin InHand
          /\ \A q \in RunsOf(s) : Faithful(q)
      BY <1>1, <1>7, InHandAlone, Kinds DEF InHand, Aside, Stuck
    <2>2. Full(s, d)
      BY <1>1, <1>2, <2>1 DEF Faithful, InHand, Aside
    <2>3. PathOK(s)'
      BY <1>2, <1>4, <1>5, <2>2, Kinds DEF PathOK, Reaches, Full
    <2>4. OneInHand(s)'
      BY <1>1, <1>3, <2>1 DEF OneInHand
    <2>5. Faithful(r)'
      BY <1>1, <1>5, <2>2 DEF Faithful
    <2>6. \A q \in RunsOf(s) : CopyOK(s, q)'
      BY <1>5, <2>1, <2>5 DEF CopyOK
    <2>7. ASSUME NEW q \in RunsOf(s) PROVE NotLinkedTo(s, q)'
      <3>1. CASE q = r
        BY <1>1, <3>1 DEF NotLinkedTo, Copying
      <3>2. CASE q # r
        <4>1. run[q].pc \notin AtRest => Link(d) # Link(DestOf[q])
          BY <1>1, <1>3, <3>2, ApartIs, Kinds DEF AtRest
        <4>2. NotLinkedTo(s, q)
          BY <1>7 DEF Orderly
        <4>3. QED
          BY <1>3, <1>4, <3>2, <4>1, <4>2 DEF NotLinkedTo, Copying, AtRest
      <3>3. QED
        BY <3>1, <3>2
    <2>8. StagedOK(s, r)'
      BY <1>1, <1>2, <1>4, <1>7 DEF Orderly, StagedOK, InHand, Aside
    <2>9. \A q \in RunsOf(s) : StagedOK(s, q)'
      BY <1>3, <2>1, <2>8 DEF StagedOK
    <2>10. OneMover(s)'
      <3>1. \A q, o \in RunsOf(s) :
              run'[q].pc \in Going /\ run'[o].pc \in Going => q = o
        <4>1. \A q \in RunsOf(s) : run'[q].pc \in Going => q # r /\ run[q].pc \notin AtRest
          BY <1>1, <1>3 DEF Going, Copying, Aside, AtRest
        <4>2. QED
          BY <1>1, <4>1, ApartIs DEF AtRest
      <3>2. \A q \in RunsOf(s) :
              run'[q].pc \in Going \cup {"linked"} => run[q].pc \in Going \cup {"linked"}
        BY <1>1, <1>3 DEF Going, Aside
      <3>3. QED
        BY <1>4, <1>7, <3>1, <3>2 DEF Orderly, OneMover
    <2>11. QED
      BY <2>3, <2>4, <2>6, <2>7, <2>9, <2>10 DEF Orderly
  <1>8. QED
    BY <1>2, <1>5, <1>6, <1>7 DEF TreeOK

LEMMA RestoreTree ==
  ASSUME TypeInv, NEW r \in Runs, TreeOK(SourceOf[r]), Apart, Restore(r)
  PROVE  TreeOK(SourceOf[r])'
  <1> DEFINE s == SourceOf[r]
             d == DestOf[r]
  <1>1. /\ Alone(r) /\ run'[r].pc = "idle" /\ run[r].pc = "unlinked"
        /\ UNCHANGED <<written, late>>
    BY RestoreDoes DEF Restore
  <1>2. /\ Early(s)' = Early(s) /\ s \in Sources /\ r \in RunsOf(s) /\ d \in Dests
    BY <1>1, PlacesAre DEF Early, RunsOf
  <1>3. \A q \in RunsOf(s) : q \in Runs /\ SourceOf[q] = s /\ (q # r => run'[q] = run[q])
    BY <1>1 DEF Alone, RunsOf
  <1>4. CASE UNCHANGED at /\ cut' = cut \cup {s}
    <2>1. Waits(r)
      BY <1>1, <1>4 DEF Waits, Copying, InHand, Aside
    <2>2. QED
      BY <1>1, <2>1, WaitsTree
  <1>5. CASE /\ CanRename(at[s]["staging"], at[s]["source"])
             /\ RenamedBy(s, "staging", "source") /\ UNCHANGED cut
    <2>1. CanRename(at[s]["staging"], at[s]["source"])
      BY <1>5
    <2>2. /\ at'[s]["source"] = at[s]["staging"] /\ at'[s]["staging"] = Absent
          /\ at'[s]["backup"] = at[s]["backup"] /\ \A e \in Dests : at'[s][e] = at[s][e]
      BY <1>5, PlacesAre DEF RenamedBy
    <2>3. /\ PlaceOK(s)' /\ (Kept(s) => Kept(s)')
          /\ Full(s, "backup") => Full(s, "backup")'
          /\ \A q \in RunsOf(s) : q # r /\ Faithful(q) => Faithful(q)'
          /\ Reaches(s, "staging") => Reaches(s, "source")'
      <3>1. \A p \in {"source", "staging", "backup"} :
              IsLink(at'[s][p]) => \E q \in RunsOf(s) : at'[s][p] = Link(DestOf[q])
        BY <2>2, PlacesAre, Kinds DEF TreeOK, PlaceOK
      <3>2. \A q \in RunsOf(s) :
              run'[q] = run[q] \/ run'[q].pc \notin {"planned", "checked"} \cup Copying
        BY <1>1, <1>3 DEF Copying
      <3>3. QED
        BY <1>2, <1>3, <2>2, <3>1, <3>2, BesideRoots, PlacesAre
    <2>4. Whole(s)'
      BY <1>1, <1>2, <2>3 DEF TreeOK, Whole, AtHome, InHand, Aside
    <2>5. ASSUME Orderly(s) PROVE Orderly(s)'
      <3>1. StagedOK(s, r) /\ run[r].pc \in InHand
        BY <1>1, <1>2, <2>5 DEF Orderly, InHand, Aside
      <3>2. Reaches(s, "staging") /\ at[s]["source"] = Absent
        BY <1>1, <2>1, <3>1 DEF StagedOK, CanRename, Aside
      <3>3. /\ \A q \in RunsOf(s) : q # r => run[q].pc \notin InHand
            /\ \A q \in RunsOf(s) : Faithful(q)
        BY <2>5, <3>1, <3>2, InHandAlone, Kinds DEF Stuck
      <3>4. PathOK(s)' /\ OneInHand(s)'
        BY <1>1, <1>3, <2>3, <3>2, <3>3 DEF PathOK, OneInHand, InHand, Aside
      <3>5. Faithful(r)'
        BY <1>1 DEF Faithful, InHand, Aside
      <3>6. \A q \in RunsOf(s) : CopyOK(s, q)'
        BY <2>3, <3>3, <3>5 DEF CopyOK
      <3>7. \A q \in RunsOf(s) : NotLinkedTo(s, q)'
        BY <1>1, <1>3, <2>2, <2>5, Kinds DEF Orderly, NotLinkedTo, Copying
      <3>8. \A q \in RunsOf(s) : StagedOK(s, q)'
        BY <1>1, <1>3, <3>3 DEF StagedOK, InHand, Aside
      <3>9. OneMover(s)'
        <4>1. \A q \in RunsOf(s) :
                run'[q].pc \in Going \cup {"linked"} => q # r /\ run[q].pc \in Going
          BY <1>1, <1>3, <3>3 DEF Going, Copying, InHand, Aside
        <4>2. QED
          BY <1>1, <1>2, <2>2, <2>5, <4>1, Kinds DEF Orderly, OneMover, Going, Aside
      <3>10. QED
        BY <3>4, <3>6, <3>7, <3>8, <3>9 DEF Orderly
    <2>6. QED
      BY <1>2, <1>5, <2>3, <2>4, <2>5 DEF TreeOK
  <1>6. QED
    BY <1>4, <1>5, RestoreDoes

LEMMA UnstageTree ==
  ASSUME TypeInv, NEW r \in Runs, TreeOK(SourceOf[r]), Unstage(r)
  PROVE  TreeOK(SourceOf[r])'
  <1> DEFINE s == SourceOf[r]
             d == DestOf[r]
  <1>1. PICK n \in Removals(at[s]["staging"]) : PutBy(s, "staging", n)
    BY UnstageDoes
  <1>2. /\ Alone(r) /\ run'[r].pc \in {"recording", "idle"} /\ run[r].pc = "linked"
        /\ Early(s)' = Early(s) /\ (s \in cut' <=> s \in cut)
    BY UnstageDoes DEF Unstage, env, Early
  <1>3. s \in Sources /\ r \in RunsOf(s) /\ d \in Dests /\ "staging" \in Places
    BY PlacesAre DEF RunsOf
  <1>4. \A q \in RunsOf(s) : q \in Runs /\ SourceOf[q] = s /\ (q # r => run'[q] = run[q])
    BY <1>2 DEF Alone, RunsOf
  <1>5. /\ at'[s]["source"] = at[s]["source"] /\ at'[s]["staging"] = n
        /\ at'[s]["backup"] = at[s]["backup"] /\ \A e \in Dests : at'[s][e] = at[s][e]
        /\ IsLink(n) => n = at[s]["staging"]
    BY <1>1, <1>3, PlacesAre, Removed DEF PutBy, TypeInv, PlacesTyped
  <1>6. /\ PlaceOK(s)' /\ (Kept(s) => Kept(s)')
        /\ Full(s, "backup") => Full(s, "backup")'
        /\ \A q \in RunsOf(s) : q # r /\ Faithful(q) => Faithful(q)'
        /\ Reaches(s, "source") => Reaches(s, "source")'
    <2>1. \A p \in {"source", "staging", "backup"} :
            IsLink(at'[s][p]) => \E q \in RunsOf(s) : at'[s][p] = Link(DestOf[q])
      BY <1>5, PlacesAre DEF TreeOK, PlaceOK
    <2>2. \A q \in RunsOf(s) :
            run'[q] = run[q] \/ run'[q].pc \notin {"planned", "checked"} \cup Copying
      BY <1>2, <1>4 DEF Copying
    <2>3. QED
      BY <1>2, <1>3, <1>4, <1>5, <2>1, <2>2, BesideRoots, PlacesAre
  <1>7. Whole(s)'
    BY <1>2, <1>3, <1>6 DEF TreeOK, Whole, AtHome, InHand
  <1>8. ASSUME Orderly(s) PROVE Orderly(s)'
    <2>1. /\ \A q \in RunsOf(s) : q # r => run[q].pc \notin InHand
          /\ \A q \in RunsOf(s) : Faithful(q)
      BY <1>2, <1>8, InHandAlone DEF InHand, Aside, Stuck
    <2>2. PathOK(s)' /\ OneInHand(s)'
      BY <1>2, <1>4, <1>6, <1>8, <2>1 DEF Orderly, PathOK, OneInHand, InHand, Aside
    <2>3. Faithful(r)'
      BY <1>2 DEF Faithful, InHand, Aside
    <2>4. \A q \in RunsOf(s) : CopyOK(s, q)'
      BY <1>6, <2>1, <2>3 DEF CopyOK
    <2>5. \A q \in RunsOf(s) : NotLinkedTo(s, q)'
      BY <1>2, <1>4, <1>5, <1>8, Kinds DEF Orderly, NotLinkedTo, Copying
    <2>6. \A q \in RunsOf(s) : StagedOK(s, q)'
      BY <1>2, <1>4, <2>1 DEF StagedOK, InHand, Aside
    <2>7. OneMover(s)'
      <3>1. \A q \in RunsOf(s) :
              /\ run'[q].pc \in Going => run[q].pc \in Going
              /\ run'[q].pc = "linked" => run[q].pc = "linked"
        BY <1>2, <1>4 DEF Going, Copying, Aside
      <3>2. QED
        BY <1>5, <1>8, <3>1 DEF Orderly, OneMover
    <2>8. QED
      BY <2>2, <2>4, <2>5, <2>6, <2>7 DEF Orderly
  <1>9. QED
    BY <1>2, <1>6, <1>7, <1>8 DEF TreeOK

-----------------------------------------------------------------------------
(* What the operator and whoever writes to the directory do. *)
LEMMA IdleOrderly ==
  ASSUME NEW s \in Sources, \A r \in RunsOf(s) : run'[r].pc = "idle", Reaches(s, "source")'
  PROVE  Orderly(s)'
  BY DEF Orderly, PathOK, OneInHand, OneMover, Going, CopyOK, Faithful, NotLinkedTo, StagedOK,
     Copying, InHand, Aside

LEMMA WriteTree ==
  ASSUME TypeInv, NEW s \in Sources, TreeOK(s),
         NEW f \in FilesOf[s], Write(s, f)
  PROVE  TreeOK(s)'
  <1>1. PICK p \in Places :
          /\ p = IF IsLink(at[s]["source"]) THEN at[s]["source"].to ELSE "source"
          /\ IsDir(at[s][p]) /\ PutBy(s, p, Dir(at[s][p].files \cup {f}))
    BY WriteDoes
  <1>2. /\ written'[s] = written[s] \cup {f} /\ f \notin written[s]
        /\ late'[s] = IF OnTheMove(s) THEN late[s] \cup {f} ELSE late[s]
        /\ UNCHANGED <<run, cut>>
    BY WriteDoes DEF Write, WrittenBy
  <1>3. \A q \in RunsOf(s) : q \in Runs /\ SourceOf[q] = s /\ DestOf[q] \in Places
    BY PlacesAre DEF RunsOf
  <1>4. p = "source" \/ p \in Dests
    <2>1. at[s]["source"] \in Nodes(s)
      BY PlacesAre DEF TypeInv, PlacesTyped
    <2>2. QED
      BY <1>1, <2>1, NodeIs
  <1>5. /\ at'[s][p] = Dir(FilesAt(at[s][p]) \cup {f}) /\ f \in FilesAt(at'[s][p])
        /\ \A q \in Places : q # p => at'[s][q] = at[s][q]
    BY <1>1, Kinds DEF PutBy, FilesAt
  <1>6. \A q \in Places :
          /\ FilesAt(at[s][q]) \subseteq FilesAt(at'[s][q])
          /\ (IsLink(at[s][q]) \/ IsLink(at'[s][q])) => at'[s][q] = at[s][q]
          /\ IsDir(at[s][q]) <=> IsDir(at'[s][q])
          /\ at[s][q] = Absent <=> at'[s][q] = Absent
    <2>1. /\ ~IsLink(at[s][p]) /\ at[s][p] # Absent
          /\ ~IsLink(at'[s][p]) /\ IsDir(at'[s][p]) /\ at'[s][p] # Absent
          /\ FilesAt(at[s][p]) \subseteq FilesAt(at'[s][p])
      BY <1>1, <1>5, Kinds DEF IsDir, IsLink
    <2>2. QED
      BY <1>1, <1>5, <2>1
  <1>7. PlaceOK(s)'
    <2>1. PlaceOK(s)
      BY DEF TreeOK
    <2>2. \A e \in Dests :
            /\ ~IsLink(at'[s][e])
            /\ at'[s][e] # Absent => \E q \in RunsOf(s) : DestOf[q] = e
      BY <1>6, <2>1, PlacesAre DEF PlaceOK
    <2>3. \A q \in Places : IsLink(at'[s][q]) => \E r \in RunsOf(s) : at'[s][q] = Link(DestOf[r])
      BY <1>6, <2>1 DEF PlaceOK
    <2>4. \A r \in RunsOf(s) : run'[r].pc \in {"planned", "checked"} => at'[s][DestOf[r]] = Absent
      BY <1>2, <1>3, <1>6, <2>1 DEF PlaceOK
    <2>5. QED
      BY <2>2, <2>3, <2>4 DEF PlaceOK
  <1>8. CASE OnTheMove(s)
    <2>1. Early(s)' = Early(s)
      BY <1>2, <1>8 DEF Early
    <2>2. \A q \in Places : Full(s, q) => Full(s, q)'
      BY <1>6, <2>1 DEF Full
    <2>3. \A r \in RunsOf(s) : Faithful(r) => Faithful(r)'
      BY <1>2, <1>3, <1>6, <2>1, <2>2 DEF Faithful
    <2>4. Whole(s)'
      <3>1. Full(s, "backup") => Full(s, "backup")'
        BY <2>2, PlacesAre
      <3>2. QED
        BY <1>2, <1>6, <2>1, <2>2, <2>3, <3>1, PlacesAre DEF TreeOK, Whole, Kept, Doomed, AtHome
    <2>5. ASSUME Orderly(s) PROVE Orderly(s)'
      <3>1. \A q \in {"source", "staging"} : Reaches(s, q) => Reaches(s, q)'
        <4> SUFFICES ASSUME NEW q \in {"source", "staging"}, Reaches(s, q) PROVE Reaches(s, q)'
          OBVIOUS
        <4>1. CASE IsLink(at[s][q])
          <5>1. at[s][q] \in Nodes(s)
            BY PlacesAre DEF TypeInv, PlacesTyped
          <5>2. at[s][q].to \in Places
            BY <4>1, <5>1, NodeIs, PlacesAre
          <5>3. QED
            BY <1>6, <2>1, <4>1, <5>2, PlacesAre DEF Reaches
        <4>2. CASE ~IsLink(at[s][q])
          BY <1>6, <2>1, <4>2, PlacesAre DEF Reaches
        <4>3. QED
          BY <4>1, <4>2
      <3>2. PathOK(s)' /\ OneInHand(s)'
        BY <1>2, <2>5, <3>1 DEF Orderly, PathOK, OneInHand
      <3>3. \A r \in RunsOf(s) : CopyOK(s, r)'
        BY <1>2, <1>6, <2>3, <2>5, PlacesAre DEF Orderly, CopyOK, Stuck
      <3>4. \A r \in RunsOf(s) : NotLinkedTo(s, r)'
        BY <1>2, <1>6, <2>5, PlacesAre, Kinds DEF Orderly, NotLinkedTo
      <3>5. ASSUME NEW r \in RunsOf(s), run[r].pc \in InHand PROVE StagedOK(s, r)'
        <4>1. StagedOK(s, r)
          BY <2>5 DEF Orderly
        <4>2. at'[s]["staging"] = at[s]["staging"]
          BY <1>4, <1>5, PlacesAre
        <4>3. at'[s]["source"] = Dir({}) => at[s]["source"] = Dir({})
          BY <1>5, <1>6, PlacesAre, Kinds
        <4>4. QED
          BY <1>2, <1>6, <3>1, <3>5, <4>1, <4>2, <4>3, PlacesAre, Kinds DEF StagedOK
      <3>6. \A r \in RunsOf(s) : StagedOK(s, r)'
        BY <1>2, <3>5 DEF StagedOK
      <3>7. OneMover(s)'
        BY <1>2, <1>6, <2>5, PlacesAre DEF Orderly, OneMover
      <3>8. QED
        BY <3>2, <3>3, <3>4, <3>6, <3>7 DEF Orderly
    <2>6. QED
      BY <1>2, <1>7, <2>1, <2>4, <2>5 DEF TreeOK
  <1>9. CASE ~OnTheMove(s)
    <2>1. (\A r \in RunsOf(s) : run[r].pc = "idle") /\ s \notin cut
      BY <1>9 DEF OnTheMove, Busy, Active, RunsOf
    <2>2. Early(s)' \subseteq Early(s) \cup {f}
      BY <1>2, <1>9 DEF Early
    <2>3. Reaches(s, "source") \/ Early(s) = {}
      BY <2>1 DEF TreeOK, Orderly, PathOK, Aside
    <2>4. Early(s)' \subseteq FilesAt(at'[s][p])
      BY <1>1, <1>5, <1>6, <2>2, <2>3 DEF Reaches
    <2>5. Reaches(s, "source")'
      BY <1>1, <1>6, <2>4, PlacesAre DEF Reaches
    <2>6. Orderly(s)'
      BY <1>2, <2>1, <2>5, IdleOrderly
    <2>7. Whole(s)'
      <3>1. CASE p = "source"
        BY <1>1, <1>2, <1>6, <2>1, <2>4, <3>1 DEF Whole, AtHome, Full, Faithful, InHand, Aside
      <3>2. CASE p \in Dests
        BY <1>2, <2>1, <2>4, <3>2 DEF Whole, Kept, Full, Doomed, Copying
      <3>3. QED
        BY <1>4, <3>1, <3>2
    <2>8. QED
      BY <1>7, <2>6, <2>7 DEF TreeOK
  <1>10. QED
    BY <1>8, <1>9

LEMMA RecreateTree ==
  ASSUME TypeInv, NEW s \in Sources, TreeOK(s), NEW f \in FilesOf[s], Recreate(s, f)
  PROVE  TreeOK(s)'
  <1>1. /\ at[s]["source"] = Absent /\ at'[s]["source"] = Dir({f})
        /\ at'[s]["staging"] = at[s]["staging"] /\ at'[s]["backup"] = at[s]["backup"]
        /\ \A e \in Dests : at'[s][e] = at[s][e]
    BY RecreateDoes, PlacesAre DEF Recreate, PutBy
  <1>2. UNCHANGED <<run, cut>> /\ Early(s)' = Early(s)
    BY RecreateDoes DEF Recreate, WrittenBy, Early
  <1>3. /\ PlaceOK(s)' /\ (Kept(s) => Kept(s)')
        /\ Full(s, "backup") => Full(s, "backup")'
        /\ \A q \in RunsOf(s) : Faithful(q) => Faithful(q)'
        /\ Reaches(s, "staging") => Reaches(s, "staging")'
    <2>1. \A p \in {"source", "staging", "backup"} :
            IsLink(at'[s][p]) => \E q \in RunsOf(s) : at'[s][p] = Link(DestOf[q])
      BY <1>1, PlacesAre, Kinds DEF TreeOK, PlaceOK
    <2>2. QED
      BY <1>1, <1>2, <2>1, BesideRoots, PlacesAre
  <1>4. Whole(s)'
    BY <1>1, <1>2, <1>3, Kinds DEF TreeOK, Whole, AtHome
  <1>5. ASSUME Orderly(s), Early(s) # {} PROVE Orderly(s)'
    <2>1. ~Reaches(s, "source")
      BY <1>1, <1>5, Kinds DEF Reaches
    <2>2. PathOK(s)' /\ OneInHand(s)'
      BY <1>2, <1>5, <2>1 DEF Orderly, PathOK, OneInHand
    <2>3. \A r \in RunsOf(s) : CopyOK(s, r)'
      BY <1>1, <1>3, <1>5, Kinds DEF Orderly, CopyOK, Stuck
    <2>4. \A r \in RunsOf(s) : NotLinkedTo(s, r)'
      BY <1>1, <1>2, <1>5, Kinds DEF Orderly, NotLinkedTo
    <2>5. ASSUME NEW r \in RunsOf(s) PROVE StagedOK(s, r)'
      <3>1. StagedOK(s, r)
        BY <1>5 DEF Orderly
      <3>2. ~IsLink(at'[s]["source"]) /\ at'[s]["source"] # Dir({}) /\ run'[r].pc = run[r].pc
        BY <1>1, <1>2, Kinds
      <3>3. run[r].pc \in InHand => run[r].pc # "linked"
        BY <1>1, <3>1, Kinds DEF StagedOK
      <3>4. QED
        BY <1>1, <1>3, <3>1, <3>2, <3>3 DEF StagedOK
    <2>6. OneMover(s)'
      BY <1>1, <1>2, <1>5, Kinds DEF Orderly, OneMover
    <2>7. QED
      BY <2>2, <2>3, <2>4, <2>5, <2>6 DEF Orderly
  <1>6. QED
    BY <1>2, <1>3, <1>4, <1>5 DEF TreeOK

LEMMA OperatorTree ==
  ASSUME TypeInv, NEW s \in Sources, TreeOK(s),
         \/ OperatorRestores(s) \/ OperatorClears(s)
         \/ \E d \in Dests : OperatorDropsCopy(s, d)
  PROVE  TreeOK(s)'
  <1>1. /\ UNCHANGED <<run, cut>> /\ Early(s)' = Early(s)
        /\ \A r \in RunsOf(s) : run[r].pc = "idle" /\ Faithful(r)'
        /\ \A e \in Dests : ~Doomed(s, e)'
    BY DEF OperatorRestores, OperatorClears, OperatorDropsCopy, env, Active, RunsOf, Early,
       Faithful, Doomed, Copying, InHand, Aside
  <1>2. CASE OperatorRestores(s)
    <2>1. /\ at[s]["source"] = Absent
          /\ at'[s]["source"] = at[s]["staging"] /\ at'[s]["staging"] = Absent
          /\ at'[s]["backup"] = at[s]["backup"] /\ \A e \in Dests : at'[s][e] = at[s][e]
      BY <1>2, OperatorDoes, PlacesAre DEF OperatorRestores, RenamedBy
    <2>2. PlaceOK(s)' /\ (Kept(s) => Kept(s)') /\ (Full(s, "backup") => Full(s, "backup")')
      <3>1. \A p \in {"source", "staging", "backup"} :
              IsLink(at'[s][p]) => \E q \in RunsOf(s) : at'[s][p] = Link(DestOf[q])
        BY <2>1, PlacesAre, Kinds DEF TreeOK, PlaceOK
      <3>2. QED
        BY <1>1, <2>1, <3>1, BesideRoots
    <2>3. Whole(s)'
      BY <1>1, <2>1, <2>2, Kinds DEF TreeOK, Whole, AtHome
    <2>4. ~Orderly(s) \/ Early(s) = {}
      BY <1>1, <2>1, Kinds DEF Orderly, PathOK, Reaches, Aside
    <2>5. QED
      BY <1>1, <2>2, <2>3, <2>4 DEF TreeOK
  <1>3. CASE OperatorClears(s)
    <2>1. /\ at'[s]["source"] = at[s]["source"] /\ at'[s]["staging"] = Absent
          /\ at'[s]["backup"] = at[s]["backup"] /\ \A e \in Dests : at'[s][e] = at[s][e]
          /\ IsLink(at[s]["source"])
      BY <1>3, OperatorDoes, PlacesAre DEF OperatorClears, PutBy
    <2>2. /\ PlaceOK(s)' /\ (Kept(s) => Kept(s)') /\ (Full(s, "backup") => Full(s, "backup")')
          /\ Reaches(s, "source") => Reaches(s, "source")'
      <3>1. \A p \in {"source", "staging", "backup"} :
              IsLink(at'[s][p]) => \E q \in RunsOf(s) : at'[s][p] = Link(DestOf[q])
        BY <2>1, PlacesAre, Kinds DEF TreeOK, PlaceOK
      <3>2. QED
        BY <1>1, <2>1, <3>1, BesideRoots, PlacesAre
    <2>3. Whole(s)'
      BY <1>1, <2>1, <2>2 DEF TreeOK, Whole, AtHome, IsDir, IsLink
    <2>4. Orderly(s) => Orderly(s)'
      BY <1>1, <2>2, IdleOrderly DEF Orderly, PathOK, Aside
    <2>5. QED
      BY <1>1, <2>2, <2>3, <2>4 DEF TreeOK
  <1>4. ASSUME NEW d \in Dests, OperatorDropsCopy(s, d) PROVE TreeOK(s)'
    <2>1. /\ at'[s][d] = Absent /\ \A p \in Places : p # d => at'[s][p] = at[s][p]
          /\ IsDir(at[s]["source"]) /\ FilesAt(at[s][d]) \subseteq FilesAt(at[s]["source"])
          /\ at'[s]["source"] = at[s]["source"] /\ ~IsLink(at[s]["source"])
      BY <1>4, OperatorDoes, PlacesAre DEF OperatorDropsCopy, PutBy, FilesAt, IsDir, IsLink
    <2>2. PlaceOK(s)'
      <3>1. PlaceOK(s)
        BY DEF TreeOK
      <3>2. \A e \in Dests :
              /\ ~IsLink(at'[s][e])
              /\ at'[s][e] # Absent => \E q \in RunsOf(s) : DestOf[q] = e
        BY <2>1, <3>1, PlacesAre, Kinds DEF PlaceOK
      <3>3. \A p \in Places : IsLink(at'[s][p]) => \E q \in RunsOf(s) : at'[s][p] = Link(DestOf[q])
        BY <2>1, <3>1, Kinds DEF PlaceOK
      <3>4. \A q \in RunsOf(s) : run'[q].pc \notin {"planned", "checked"}
        BY <1>1
      <3>5. QED
        BY <3>2, <3>3, <3>4 DEF PlaceOK
    <2>3. Full(s, "source") => AtHome(s)'
      BY <1>1, <2>1 DEF AtHome, Full, InHand, Aside
    <2>4. Whole(s)'
      <3>1. CASE Early(s) = {}
        BY <1>1, <3>1 DEF Whole
      <3>2. CASE AtHome(s)
        BY <2>3, <3>2 DEF Whole, AtHome
      <3>3. CASE Kept(s)
        <4>1. PICK e \in Dests : Full(s, e)
          BY <3>3 DEF Kept
        <4>2. CASE e = d
          BY <2>1, <2>3, <4>1, <4>2 DEF Whole, Full
        <4>3. CASE e # d
          BY <1>1, <2>1, <4>1, <4>3, PlacesAre DEF Whole, Kept, Full
        <4>4. QED
          BY <4>2, <4>3
      <3>4. CASE Full(s, "backup")
        BY <1>1, <2>1, <3>4, PlacesAre DEF Whole, Full
      <3>5. QED
        BY <3>1, <3>2, <3>3, <3>4 DEF TreeOK, Whole
    <2>5. Reaches(s, "source") => Reaches(s, "source")'
      BY <1>1, <2>1 DEF Reaches
    <2>6. Orderly(s) => Orderly(s)'
      BY <1>1, <2>5, IdleOrderly DEF Orderly, PathOK, Aside
    <2>7. QED
      BY <1>1, <2>2, <2>4, <2>6 DEF TreeOK
  <1>5. QED
    BY <1>2, <1>3, <1>4

(* The link policy, on a source that nobody moves meanwhile.  It takes away a link,
   or puts what it finds aside; what it links to, it has not looked into. *)
LEMMA PolicyTree ==
  ASSUME TypeInv, TreeInv, Apart, Apply
  PROVE  LinkOK' /\ TreeOK(Entry.source)'
  <1> DEFINE s == Entry.source
             e == Entry.target
  <1>1. s \in Sources /\ e \in Dests /\ e \in Places
    BY RelocationAssumption, PlacesAre
  <1>2. TreeOK(s) /\ LinkOK /\ PlacesTyped /\ UNCHANGED <<run, written, late>>
    BY <1>1 DEF TreeInv, TypeInv, Apply, ApplyBegin, ApplyRemove, ApplyForce, ApplyLink
  <1>3. Early(s)' = Early(s) /\ \A q \in RunsOf(s) : SourceOf[q] = s /\ DestOf[q] \in Dests
    BY <1>2, PlacesAre DEF Early, RunsOf
  <1>4. link # "idle" =>
          /\ \A r \in RunsOf(s) : run[r].pc \in AtRest
          /\ \E r \in RunsOf(s) : DestOf[r] = e
    BY <1>1, <1>2 DEF Apart, Moving, LinkOK
  <1>5. ASSUME UNCHANGED <<at, cut>> PROVE TreeOK(s)'
    BY <1>1, <1>2, <1>3, <1>5, Elsewhere
  <1>6. ASSUME link # "idle", s \in cut', (Kept(s) => Kept(s)'), PlaceOK(s)', Whole(s)'
        PROVE  TreeOK(s)'
    BY <1>6 DEF TreeOK
  <1>7. CASE ApplyBegin
    <2>1. UNCHANGED <<at, cut>> /\ link = "idle" /\ link' # "replacing" /\ at[s][e] # Absent
      BY <1>7 DEF ApplyBegin, Issue
    <2>2. \E r \in RunsOf(s) : DestOf[r] = e
      BY <1>1, <1>2, <2>1 DEF TreeOK, PlaceOK
    <2>3. QED
      BY <1>5, <2>1, <2>2 DEF LinkOK
  <1>8. CASE ApplyRemove
    <2>1. link = "removing" /\ link' \in {"linking", "idle"} /\ LinkOK'
      BY <1>2, <1>8 DEF ApplyRemove, LinkOK
    <2>2. CASE UNCHANGED <<at, cut>>
      BY <1>5, <2>1, <2>2
    <2>3. CASE /\ IsLink(at[s]["source"]) /\ Put(s, "source", Absent)
               /\ cut' = cut \cup {s}
      <3>1. /\ at'[s]["source"] = Absent
            /\ \A p \in Places : p # "source" => at'[s][p] = at[s][p]
        BY <1>1, <1>2, <2>3, PutIs, NodeMade, PlacesAre
      <3>2. /\ PlaceOK(s)' /\ (Kept(s) => Kept(s)')
            /\ Full(s, "backup") => Full(s, "backup")'
        <4>1. \A p \in {"source", "staging", "backup"} :
                IsLink(at'[s][p]) => \E q \in RunsOf(s) : at'[s][p] = Link(DestOf[q])
          BY <1>2, <3>1, PlacesAre, Kinds DEF TreeOK, PlaceOK
        <4>2. QED
          BY <1>1, <1>2, <1>3, <3>1, <4>1, BesideRoots, PlacesAre
      <3>3. Whole(s)'
        BY <1>2, <1>3, <2>3, <3>2 DEF TreeOK, Whole, AtHome, IsDir, IsLink
      <3>4. QED
        BY <1>6, <2>1, <2>3, <3>2, <3>3
    <2>4. QED
      BY <1>8, <2>1, <2>2, <2>3 DEF ApplyRemove
  <1>9. CASE ApplyForce
    <2>1. link = "forcing"
      BY <1>9 DEF ApplyForce
    <2>2. CASE UNCHANGED <<at, cut>> /\ link' = "idle"
      BY <1>5, <2>2 DEF LinkOK
    <2>3. CASE /\ at[s]["source"] # Absent /\ at[s]["backup"] = Absent
               /\ Rename(s, "source", "backup") /\ link' = "replacing"
               /\ cut' = cut \cup {s}
      <3>1. /\ at'[s]["backup"] = at[s]["source"] /\ at'[s]["source"] = Absent
            /\ \A p \in Places : p \notin {"source", "backup"} => at'[s][p] = at[s][p]
        BY <1>1, <1>2, <2>3, RenameIs, PlacesAre
      <3>2. PlaceOK(s)' /\ (Kept(s) => Kept(s)')
        <4>1. \A p \in {"source", "staging", "backup"} :
                IsLink(at'[s][p]) => \E q \in RunsOf(s) : at'[s][p] = Link(DestOf[q])
          BY <1>2, <3>1, PlacesAre, Kinds DEF TreeOK, PlaceOK
        <4>2. QED
          BY <1>1, <1>2, <1>3, <3>1, <4>1, BesideRoots, PlacesAre
      <3>3. Whole(s)'
        BY <1>2, <1>3, <2>3, <3>1, <3>2, Kinds DEF TreeOK, Whole, AtHome, Full
      <3>4. LinkOK'
        BY <1>4, <2>1, <2>3 DEF LinkOK
      <3>5. QED
        BY <1>6, <2>1, <2>3, <3>2, <3>3, <3>4
    <2>4. QED
      BY <1>9, <2>2, <2>3 DEF ApplyForce
  <1>10. CASE ApplyLink
    <2>1. link \in {"linking", "replacing"} /\ LinkOK'
      BY <1>10 DEF ApplyLink, LinkOK
    <2>2. CASE UNCHANGED at /\ cut' = cut \cup {s}
      <3>1. /\ PlaceOK(s)' /\ (Kept(s) => Kept(s)')
            /\ Full(s, "backup") => Full(s, "backup")'
        BY <1>2, <1>3, <2>2 DEF TreeOK, PlaceOK, Kept, Full, Doomed
      <3>2. AtHome(s) => AtHome(s)'
        BY <1>2, <1>3, <2>2 DEF AtHome, Full, Faithful
      <3>3. QED
        BY <1>2, <1>3, <1>6, <2>1, <2>2, <3>1, <3>2 DEF TreeOK, Whole
    <2>3. CASE /\ at[s]["source"] = Absent /\ Put(s, "source", Link(e)) /\ UNCHANGED cut
      <3>1. /\ at'[s]["source"] = Link(e)
            /\ \A p \in Places : p # "source" => at'[s][p] = at[s][p]
        BY <1>1, <1>2, <2>3, PutIs, NodeMade, PlacesAre
      <3>2. /\ PlaceOK(s)' /\ (Kept(s) => Kept(s)')
            /\ Full(s, "backup") => Full(s, "backup")'
        <4>1. \A p \in {"source", "staging", "backup"} :
                IsLink(at'[s][p]) => \E q \in RunsOf(s) : at'[s][p] = Link(DestOf[q])
          BY <1>2, <1>4, <2>1, <3>1, PlacesAre, Kinds DEF TreeOK, PlaceOK
        <4>2. QED
          BY <1>1, <1>2, <1>3, <3>1, <4>1, BesideRoots, PlacesAre
      <3>3. Whole(s)'
        BY <1>2, <1>3, <2>3, <3>2, Kinds DEF TreeOK, Whole, AtHome
      <3>4. ~Orderly(s) \/ Early(s) = {}
        BY <1>4, <2>1, <2>3, Kinds DEF Orderly, PathOK, Reaches, AtRest, Aside
      <3>5. QED
        BY <1>2, <1>3, <2>1, <2>3, <3>2, <3>3, <3>4 DEF TreeOK
    <2>4. CASE /\ link = "replacing" /\ CanRename(at[s]["backup"], at[s]["source"])
               /\ Rename(s, "backup", "source") /\ UNCHANGED cut
      <3>1. /\ at'[s]["source"] = at[s]["backup"] /\ at'[s]["backup"] = Absent
            /\ \A p \in Places : p \notin {"source", "backup"} => at'[s][p] = at[s][p]
        BY <1>1, <1>2, <2>4, RenameIs, PlacesAre
      <3>2. PlaceOK(s)' /\ (Kept(s) => Kept(s)')
        <4>1. \A p \in {"source", "staging", "backup"} :
                IsLink(at'[s][p]) => \E q \in RunsOf(s) : at'[s][p] = Link(DestOf[q])
          BY <1>2, <3>1, PlacesAre, Kinds DEF TreeOK, PlaceOK
        <4>2. QED
          BY <1>1, <1>2, <1>3, <3>1, <4>1, BesideRoots, PlacesAre
      <3>3. AtHome(s) => Early(s) = {}
        BY <2>4, Kinds DEF AtHome, CanRename, Full, IsDir, IsLink
      <3>4. Full(s, "backup") /\ Early(s) # {} => AtHome(s)'
        <4> SUFFICES ASSUME Full(s, "backup"), Early(s) # {} PROVE AtHome(s)'
          OBVIOUS
        <4>1. IsDir(at[s]["backup"])
          BY DEF Full, FilesAt
        <4>2. \A r \in RunsOf(s) : run'[r].pc \notin InHand \cup {"verified"} /\ Faithful(r)'
          BY <1>2, <1>4, <2>1 DEF AtRest, InHand, Aside, Faithful
        <4>3. QED
          BY <1>3, <3>1, <4>1, <4>2 DEF AtHome, Full
      <3>5. Whole(s)'
        BY <1>2, <1>3, <3>2, <3>3, <3>4 DEF TreeOK, Whole
      <3>6. QED
        BY <1>2, <1>6, <2>1, <2>4, <3>2, <3>5 DEF LinkOK
    <2>5. QED
      BY <1>10, <2>1, <2>2, <2>3, <2>4 DEF ApplyLink
  <1>11. QED
    BY <1>7, <1>8, <1>9, <1>10 DEF Apply

LEMMA InitTree ==
  ASSUME Init
  PROVE  TreeInv
  <1> SUFFICES ASSUME NEW s \in Sources PROVE TreeOK(s)
    BY DEF Init, TreeInv, LinkOK
  <1>1. /\ at[s]["source"] = Dir(written[s])
        /\ \A p \in Places : p # "source" => at[s][p] = Absent
        /\ \A r \in RunsOf(s) : run[r].pc = "idle"
        /\ Early(s) \subseteq written[s]
    BY PlacesAre DEF Init, RunsOf, NoRun, Early
  <1>2. PlaceOK(s)
    BY <1>1, PlacesAre, Kinds DEF PlaceOK
  <1>3. Full(s, "source") /\ Reaches(s, "source") /\ IsDir(at[s]["source"])
    BY <1>1, Kinds DEF Full, Reaches
  <1>4. Whole(s)
    BY <1>1, <1>3 DEF Whole, AtHome, Faithful, InHand, Aside
  <1>5. Orderly(s)
    BY <1>1, <1>3 DEF Orderly, PathOK, OneInHand, OneMover, Going, CopyOK, Faithful, NotLinkedTo, StagedOK,
       Copying, InHand, Aside
  <1>6. QED
    BY <1>2, <1>4, <1>5 DEF TreeOK

(* A step of a relocation concerns its source only. *)
LEMMA RelocateElsewhere ==
  ASSUME TypeInv, NEW r \in Runs, Relocate(r), NEW s \in Sources, s # SourceOf[r]
  PROVE  /\ at'[s] = at[s] /\ written'[s] = written[s] /\ late'[s] = late[s]
         /\ s \in cut' <=> s \in cut
         /\ \A q \in RunsOf(s) : run'[q] = run[q]
  <1>1. \A q \in RunsOf(s) : q \in Runs /\ q # r
    BY DEF RunsOf
  <1>2. CASE \/ Plan(r) \/ Refuse(r) \/ Check(r) \/ CopyFails(r) \/ StageFails(r) \/ LinkFails(r)
             \/ Verify(r) \/ Die(r) \/ RecordRead(r) \/ RecordWrite(r) \/ RecordFails(r)
    BY <1>1, <1>2, WaitsAre DEF Waits, Alone
  <1>3. CASE CopyBegin(r)
    BY <1>1, <1>3, CopyBeginDoes DEF CopyBegin, PutBy, Alone, env
  <1>4. CASE CopyFile(r)
    BY <1>1, <1>4, CopyFileDoes DEF CopyFile, PutBy, Alone, env
  <1>5. CASE Cleanup(r)
    BY <1>1, <1>5, CleanupDoes DEF Cleanup, PutBy, Alone, env
  <1>6. CASE Stage(r)
    BY <1>1, <1>6, StageDoes DEF Stage, RenamedBy, Alone, env
  <1>7. CASE LinkSource(r)
    BY <1>1, <1>7, LinkSourceDoes DEF LinkSource, PutBy, Alone, env
  <1>8. CASE Restore(r)
    BY <1>1, <1>8, RestoreDoes DEF Restore, RenamedBy, Alone
  <1>9. CASE Unstage(r)
    BY <1>1, <1>9, UnstageDoes DEF Unstage, PutBy, Alone, env
  <1>10. QED
    BY <1>2, <1>3, <1>4, <1>5, <1>6, <1>7, <1>8, <1>9 DEF Relocate

LEMMA TreeKept ==
  ASSUME TypeInv, TreeInv, [Next]_vars, Apart
  PROVE  TreeInv'
  <1>1. CASE UNCHANGED vars
    <2> SUFFICES ASSUME NEW s \in Sources PROVE TreeOK(s)'
      BY <1>1 DEF vars, env, TreeInv, LinkOK
    <2>1. QED
      BY <1>1, Elsewhere DEF vars, env, TreeInv
  <1>2. ASSUME NEW r \in Runs, Relocate(r) PROVE TreeInv'
    <2>1. TreeOK(SourceOf[r]) /\ link' = link /\ cut \subseteq cut'
      BY <1>2, PlacesAre DEF TreeInv, Relocate, Plan, Refuse, Check, CopyBegin, CopyFile,
         CopyFails, Verify, Cleanup, Stage, StageFails, LinkSource, LinkFails, Restore, Unstage,
         RecordRead, RecordWrite, RecordFails, Die, env
    <2>2. TreeOK(SourceOf[r])'
      BY <1>2, <2>1, WaitsAre, WaitsTree, CopyBeginTree, CopyFileTree, CleanupTree, StageTree,
         LinkSourceTree, RestoreTree, UnstageTree DEF Relocate
    <2>3. \A s \in Sources : s # SourceOf[r] => TreeOK(s)'
      BY <1>2, RelocateElsewhere, Elsewhere DEF TreeInv
    <2>4. QED
      BY <2>1, <2>2, <2>3 DEF TreeInv, LinkOK
  <1>3. ASSUME NEW s \in Sources, Others(s) PROVE TreeInv'
    <2>1. TreeOK(s)
      BY DEF TreeInv
    <2>2. TreeOK(s)'
      BY <1>3, <2>1, WriteTree, RecreateTree, OperatorTree DEF Others
    <2>3. /\ UNCHANGED <<run, cut, link>>
          /\ \A t \in Sources : t # s =>
               at'[t] = at[t] /\ written'[t] = written[t] /\ late'[t] = late[t]
      <3>1. ASSUME NEW f \in FilesOf[s], Write(s, f) \/ Recreate(s, f)
            PROVE  /\ UNCHANGED <<run, cut, link>>
                   /\ \A t \in Sources : t # s =>
                        at'[t] = at[t] /\ written'[t] = written[t] /\ late'[t] = late[t]
        <4>1. CASE Write(s, f)
          BY <4>1, WriteDoes DEF Write, WrittenBy, PutBy
        <4>2. CASE Recreate(s, f)
          BY <4>2, RecreateDoes DEF Recreate, WrittenBy, PutBy
        <4>3. QED
          BY <3>1, <4>1, <4>2
      <3>2. CASE OperatorRestores(s) \/ OperatorClears(s) \/ \E d \in Dests : OperatorDropsCopy(s, d)
        BY <3>2, OperatorDoes DEF OperatorRestores, OperatorClears, OperatorDropsCopy, env, PutBy, RenamedBy
      <3>3. QED
        BY <1>3, <3>1, <3>2 DEF Others
    <2>4. \A t \in Sources : t # s => TreeOK(t)'
      BY <2>3, Elsewhere DEF TreeInv
    <2>5. QED
      BY <2>2, <2>3, <2>4 DEF TreeInv, LinkOK
  <1>4. ASSUME Apply PROVE TreeInv'
    <2>1. \A t \in Sources : t # Entry.source =>
            /\ at'[t] = at[t] /\ run' = run /\ written' = written /\ late' = late
            /\ t \in cut' <=> t \in cut
      <3>1. PlacesTyped /\ Entry.source \in Sources /\ Entry.target \in Dests
        BY RelocationAssumption DEF TypeInv
      <3>2. \A n : \A p \in Places : Put(Entry.source, p, n) =>
              \A t \in Sources : t # Entry.source => at'[t] = at[t]
        BY <3>1 DEF Put, PlacesTyped
      <3>3. \A p, q \in Places : Rename(Entry.source, p, q) =>
              \A t \in Sources : t # Entry.source => at'[t] = at[t]
        BY <3>1 DEF Rename, PlacesTyped
      <3>4. QED
        BY <1>4, <3>2, <3>3, PlacesAre DEF Apply, ApplyBegin, ApplyRemove, ApplyForce, ApplyLink
    <2>2. QED
      BY <1>4, <2>1, PolicyTree, Elsewhere DEF TreeInv
  <1>5. QED
    BY <1>1, <1>2, <1>3, <1>4 DEF Next

(* One place holds the whole directory at every instant, for any number of
   relocations to any roots and any applications of the policy, as long as those
   under way at one time are Apart: whichever dies, fails or is refused between any
   two steps, whatever is written meanwhile and whatever of the printed recovery
   the operator follows (apply_relocate; apply_one_link). *)
THEOREM NeverLost == Spec /\ []Apart => []CompleteCopy
  <1>1. TreeInv => CompleteCopy
    <2> SUFFICES ASSUME TreeInv, NEW s \in Sources
                 PROVE  \E p \in Places : Early(s) \subseteq FilesAt(at[s][p])
      BY DEF CompleteCopy, Early
    <2>1. QED
      BY PlacesAre DEF TreeInv, TreeOK, Whole, Kept, AtHome, Full
  <1>2. QED
    BY <1>1, InitTyped, Typed, InitTree, TreeKept, PTL DEF Spec

(* And when nothing is under way the path leads to all of it, under the same
   condition, unless a death or a failure between staging and link cut a move
   short or the policy took the path (apply_relocate, "restored rather than left
   broken"). *)
THEOREM PathStaysGood == Spec /\ []Apart => []PathLeads
  <1>1. TreeInv => PathLeads
    <2> SUFFICES ASSUME TreeInv, NEW s \in Sources, ~Busy(s), s \notin cut
                 PROVE  Early(s) \subseteq FilesAt(Resolved(s))
      BY DEF PathLeads, Early
    <2>1. CASE Early(s) = {}
      BY <2>1
    <2>2. CASE Early(s) # {}
      <3>1. \A r \in RunsOf(s) : run[r].pc \notin Aside
        BY DEF Busy, Active, RunsOf, Aside
      <3>2. Reaches(s, "source")
        BY <2>2, <3>1 DEF TreeInv, TreeOK, Orderly, PathOK
      <3>3. QED
        BY <3>2 DEF Reaches, Resolved
    <2>3. QED
      BY <2>1, <2>2
  <1>2. QED
    BY <1>1, InitTyped, Typed, InitTree, TreeKept, PTL DEF Spec
=============================================================================
