----------------------------- MODULE StashProofs -----------------------------
(* Proofs about Stash: for any number of files, entries, cleanups and
   operators, a manifest stands for a whole entry; and for one cleanup beside
   one operator nothing is lost. *)
EXTENDS Stash, FiniteSetTheorems, TLAPS

Counts == 0 .. Cardinality(Files)
Manifests == [auto : BOOLEAN, files : Counts, there : BOOLEAN]
Acts == [pc : Phases, e : 0 .. MaxEntries, auto : BOOLEAN, count : Counts, todo : SUBSET Files]

Movers == {"moving", "copying", "removing", "publishing", "replacing"}
Unplaced == {"moving", "copying", "removing"}

(* What is there, *)
DiskInv ==
    /\ cross \in BOOLEAN /\ origin \in Trees /\ entry \in [Entries -> Trees]
    /\ origin.files \subseteq written
    /\ \A e \in Entries : entry[e].files \subseteq written
    /\ \A e \in Entries : ~entry[e].there => entry[e] = Nothing
GhostInv ==
    /\ old \subseteq Entries /\ pass \subseteq Entries /\ spent \subseteq Entries
    /\ written \subseteq Files /\ late \subseteq written /\ given \subseteq written

(* and who works at it: names are given once, *)
ActInv ==
    /\ next \in 1 .. MaxEntries + 1
    /\ act \in [Actors -> Acts]
    /\ \A a \in Actors : act[a].e < next /\ (act[a].pc # "idle" => act[a].e # 0)
    /\ \A e \in Entries : e >= next => entry[e] = Nothing /\ e \notin pass
    /\ \A a, b \in Actors : a # b /\ act[a].pc \in Movers /\ act[b].pc \in Movers
                              => act[a].e # act[b].e

(* and nobody else has to do with an entry that is not complete. *)
PlaceInv ==
    /\ \A a \in Actors : act[a].pc = "moving" => entry[act[a].e] = Nothing
    /\ \A a \in Actors : act[a].pc \in Unplaced =>
          /\ act[a].e \notin pass /\ ~entry[act[a].e].manifest.there
          /\ \A b \in Actors \ {a} : act[b].e # act[a].e

BaseInv == DiskInv /\ GhostInv /\ ActInv /\ PlaceInv

(* The count a mover publishes is not above what it has put into the entry,
   which nobody else can have got hold of unless the origin was exchanged. *)
WholeInv ==
    /\ \A a \in Actors : act[a].pc = "moving" => act[a].count = Cardinality(act[a].todo)
    /\ \A a \in Actors :
          act[a].pc \in {"removing", "publishing"} /\ act[a].e \notin spent =>
             Cardinality(entry[act[a].e].files) >= act[a].count
    /\ \A a \in Actors :
          act[a].pc = "publishing" /\ act[a].e \notin spent =>
             /\ ~entry[act[a].e].manifest.there
             /\ \A b \in Actors \ {a} : act[b].e # act[a].e
    /\ ManifestMeansWhole

(* One background cleanup beside one command line. *)
OneEach ==
    /\ \A a, b \in Cleanups : a = b
    /\ \A a, b \in Operators : a = b

Owed == written \ (late \cup given)

(* What is left of an entry on which one must not rely: it is being filled
   from an origin that is still there, or cleared after its files were taken
   home, or an expiry has listed it when it had a manifest and it has none. *)
Doomed(e) ==
    \/ \E a \in Actors : act[a].e = e /\ act[a].pc \in {"copying", "clearing"}
    \/ e \in pass /\ ~entry[e].manifest.there

(* A file is in the origin, or in an entry, other than this one, on which one may rely. *)
Beside(f, e) ==
    \/ f \in origin.files
    \/ \E x \in Entries \ {e} : ~Doomed(x) /\ f \in entry[x].files

Secure == \A f \in Owed : Beside(f, 0)

(* A copy holds what has not still to be copied of the origin. *)
CopyFor(a) ==
    \A f \in Owed : f \in origin.files =>
        /\ act[a].pc = "copying" => f \in act[a].todo \/ f \in entry[act[a].e].files
        /\ act[a].pc = "removing" => f \in entry[act[a].e].files

(* A restore by copy leaves to be copied what is nowhere else; and the entry has its manifest
   unless somebody gave it up. *)
RestoreFor(a) ==
    act[a].pc \in {"restoring", "back"} =>
        \A f \in Owed : LET e == act[a].e IN f \in entry[e].files =>
            /\ entry[e].manifest.there
            /\ act[a].pc = "back" => f \in act[a].todo \/ Beside(f, e)

(* Cleanups move automatically, operators do not, and nobody else restores. *)
Restorers == {"restoring", "home", "back", "clearing"}
OfficeFor(a) ==
    /\ act[a].pc \in Movers => act[a].auto = (a \in Cleanups)
    /\ act[a].pc = "replacing" => act[a].auto
    /\ act[a].pc \in Restorers => a \in Operators

(* No automatic generation is newer than that of the cleanup that replaces the others. *)
IsAuto(e) == entry[e].manifest.there /\ entry[e].manifest.auto
NewestFor(a) ==
    a \in Cleanups /\ act[a].pc \in Movers =>
        /\ \A e \in Entries : e > act[a].e => ~IsAuto(e)
        /\ \A b \in Actors : act[b].pc = "moving" /\ act[b].e > act[a].e => ~origin.manifest.there

KeptInv ==
    /\ Secure
    /\ \A a \in Actors : CopyFor(a) /\ RestoreFor(a) /\ OfficeFor(a) /\ NewestFor(a)

-----------------------------------------------------------------------------
(* Files can be counted. *)
LEMMA Counted ==
  ASSUME NEW F \in SUBSET Files
  PROVE  Cardinality(F) \in Counts /\ IsFiniteSet(F)
  <1>1. IsFiniteSet(F) /\ Cardinality(F) <= Cardinality(Files)
    BY FS_Subset, StashAssumption
  <1>2. Cardinality(F) \in Nat /\ Cardinality(Files) \in Nat
    BY <1>1, FS_CardinalityType, StashAssumption
  <1>3. QED
    BY <1>1, <1>2 DEF Counts

LEMMA MoreFiles ==
  ASSUME NEW F \in SUBSET Files, NEW G \in SUBSET F
  PROVE  Cardinality(G) <= Cardinality(F)
  BY FS_Subset, Counted

LEMMA NoFiles == 0 \in Counts /\ Counts \subseteq Nat
  BY FS_CardinalityType, StashAssumption DEF Counts

(* Manifests, *)
LEMMA ManifestFields ==
  ASSUME NEW m \in Manifests
  PROVE  m.auto \in BOOLEAN /\ m.files \in Counts /\ m.there \in BOOLEAN
  BY DEF Manifests

LEMMA ManifestIs ==
  ASSUME NEW auto \in BOOLEAN, NEW n \in Counts
  PROVE  /\ Manifest(auto, n) \in Manifests /\ Manifest(auto, n).there
         /\ Manifest(auto, n).files = n /\ Manifest(auto, n).auto = auto
  BY DEF Manifest, Manifests

LEMMA NoManifestIs == NoManifest \in Manifests /\ ~NoManifest.there
  BY NoFiles DEF NoManifest, Manifests

(* directories, *)
LEMMA TreeFields ==
  ASSUME NEW t \in Trees
  PROVE  t.there \in BOOLEAN /\ t.files \in SUBSET Files /\ t.manifest \in Manifests
  BY DEF Trees, Manifests, Counts

LEMMA TreeIs ==
  ASSUME NEW F \in SUBSET Files, NEW m \in Manifests
  PROVE  Tree(F, m) \in Trees /\ Tree(F, m).there /\ Tree(F, m).files = F /\ Tree(F, m).manifest = m
  BY DEF Tree, Trees, Manifests, Counts

LEMMA NothingIs ==
  Nothing \in Trees /\ ~Nothing.there /\ Nothing.files = {} /\ Nothing.manifest = NoManifest
  BY NoManifestIs DEF Nothing, Trees, Manifests, Counts

(* what remove_dir_all leaves of one, *)
LEMMA RemainsIs ==
  ASSUME NEW t \in Trees, ~t.there => t = Nothing, NEW n \in Remains(t)
  PROVE  /\ n \in Trees /\ n.files \subseteq t.files /\ n.manifest \in {t.manifest, NoManifest}
         /\ ~n.there => n = Nothing
  <1>1. CASE n = Nothing
    BY <1>1, NothingIs
  <1>2. ASSUME NEW F \in SUBSET t.files, NEW m \in {t.manifest, NoManifest},
               n = [there |-> t.there, files |-> F, manifest |-> m]
        PROVE  /\ n \in Trees /\ n.files \subseteq t.files /\ n.manifest \in {t.manifest, NoManifest}
               /\ ~n.there => n = Nothing
    <2>1. F \in SUBSET Files /\ m \in Manifests
      BY TreeFields, NoManifestIs
    <2>2. n \in Trees
      BY <1>2, <2>1, TreeFields DEF Trees, Manifests, Counts
    <2>3. CASE ~t.there
      BY <1>2, <2>3, NothingIs DEF Nothing
    <2>4. QED
      BY <1>2, <2>2, <2>3
  <1>3. n = Nothing \/ \E F \in SUBSET t.files, m \in {t.manifest, NoManifest} :
                         n = [there |-> t.there, files |-> F, manifest |-> m]
    BY DEF Remains
  <1>4. QED
    BY <1>1, <1>2, <1>3

LEMMA RemainsTrees ==
  ASSUME NEW t \in Trees, NEW n \in Remains(t)
  PROVE  n \in Trees /\ n.files \subseteq t.files /\ n.manifest \in {t.manifest, NoManifest}
  <1>1. CASE n = Nothing
    BY <1>1, NothingIs
  <1>2. ASSUME NEW F \in SUBSET t.files, NEW m \in {t.manifest, NoManifest},
               n = [there |-> t.there, files |-> F, manifest |-> m]
        PROVE  n \in Trees /\ n.files \subseteq t.files /\ n.manifest \in {t.manifest, NoManifest}
    <2>1. F \in SUBSET Files /\ m \in Manifests
      BY TreeFields, NoManifestIs
    <2>2. QED
      BY <1>2, <2>1, TreeFields DEF Trees, Manifests, Counts
  <1>3. QED
    BY <1>1, <1>2 DEF Remains

(* and nothing remains of nothing, *)
LEMMA NothingRemains ==
  ASSUME NEW n \in Remains(Nothing)
  PROVE  n = Nothing
  BY NothingIs DEF Remains, Nothing

(* and actors. *)
LEMMA ActFields ==
  ASSUME NEW r \in Acts
  PROVE  /\ r.pc \in Phases /\ r.e \in 0 .. MaxEntries /\ r.auto \in BOOLEAN
         /\ r.count \in Counts /\ r.todo \in SUBSET Files
  BY DEF Acts

LEMMA IdleIs ==
  Idle \in Acts /\ Idle.pc = "idle" /\ Idle.e = 0 /\ Idle.auto = FALSE /\ Idle.todo = {}
  BY NoFiles, StashAssumption DEF Idle, Acts, Phases

(* One actor goes on, the others stay. *)
LEMMA GotoIs ==
  ASSUME act \in [Actors -> Acts], NEW a \in Actors, NEW pc \in Phases, Goto(a, pc)
  PROVE  /\ act' \in [Actors -> Acts]
         /\ act'[a].pc = pc /\ act'[a].e = act[a].e /\ act'[a].auto = act[a].auto
         /\ act'[a].count = act[a].count /\ act'[a].todo = act[a].todo
         /\ \A b \in Actors \ {a} : act'[b] = act[b]
  <1> DEFINE r == [act[a] EXCEPT !.pc = pc]
  <1>1. r \in Acts /\ r.pc = pc /\ r.e = act[a].e /\ r.auto = act[a].auto /\ r.count = act[a].count
        /\ r.todo = act[a].todo
    BY DEF Acts
  <1>2. act' = [act EXCEPT ![a] = r]
    BY DEF Goto
  <1> HIDE DEF r
  <1>3. QED
    BY <1>1, <1>2

LEMMA EndsIs ==
  ASSUME act \in [Actors -> Acts], NEW a \in Actors, Ends(a)
  PROVE  /\ act' \in [Actors -> Acts] /\ act'[a].pc = "idle" /\ act'[a].e = 0
         /\ \A b \in Actors \ {a} : act'[b] = act[b]
  BY IdleIs DEF Ends

(* One entry changes, the others stay. *)
LEMMA EntryIs ==
  ASSUME entry \in [Entries -> Trees], NEW e \in Entries, NEW n \in Trees, SetEntry(e, n)
  PROVE  /\ entry' \in [Entries -> Trees] /\ entry'[e] = n
         /\ \A f \in Entries \ {e} : entry'[f] = entry[f]
  BY DEF SetEntry

-----------------------------------------------------------------------------
(* What each action does to the records, in terms of their fields. *)
LEMMA MoveBeginIs ==
  ASSUME BaseInv, NEW a \in Actors, MoveBegin(a)
  PROVE  /\ act' \in [Actors -> Acts]
         /\ act[a].pc = "idle" /\ act'[a].pc = "moving" /\ act'[a].e = next
         /\ act'[a].auto = (a \in Cleanups)
         /\ act'[a].count = Cardinality(origin.files) /\ act'[a].todo = origin.files
         /\ \A b \in Actors \ {a} : act'[b] = act[b]
  <1> DEFINE r == [pc |-> "moving", e |-> next, auto |-> a \in Cleanups,
                   count |-> Cardinality(origin.files), todo |-> origin.files]
  <1>1. origin.files \in SUBSET Files /\ act \in [Actors -> Acts] /\ next \in 1 .. MaxEntries
    BY TreeFields DEF BaseInv, DiskInv, ActInv, MoveBegin, Entries
  <1>2. (a \in Cleanups) \in BOOLEAN
    OBVIOUS
  <1>3. r \in Acts
    BY <1>1, <1>2, Counted DEF Acts, Phases
  <1>4. act' = [act EXCEPT ![a] = r] /\ act[a].pc = "idle"
    BY DEF MoveBegin
  <1> HIDE DEF r
  <1>5. r.pc = "moving" /\ r.e = next /\ r.auto = (a \in Cleanups)
        /\ r.count = Cardinality(origin.files) /\ r.todo = origin.files
    BY Zenon DEF r
  <1>6. act'[a] = r /\ act' \in [Actors -> Acts] /\ \A b \in Actors \ {a} : act'[b] = act[b]
    BY <1>1, <1>3, <1>4
  <1>7. QED
    BY <1>4, <1>5, <1>6, Zenon

(* An actor's own entry is one. *)
LEMMA OwnEntry ==
  ASSUME BaseInv, NEW a \in Actors, act[a].pc # "idle"
  PROVE  act[a].e \in Entries /\ act[a].e < next
  BY StashAssumption DEF BaseInv, ActInv, Entries, Acts

(* A step that gives no name away keeps the names apart, when nobody comes to
   work at an entry that is not complete, *)
NamesKept ==
    /\ act' \in [Actors -> Acts] /\ next' = next /\ pass' \subseteq pass
    /\ \A b \in Actors : act'[b].e < next /\ (act'[b].pc # "idle" => act'[b].e # 0)
    /\ \A b \in Actors : act'[b].pc \in Movers => act[b].pc \in Movers /\ act'[b].e = act[b].e
    /\ \A b \in Actors : act'[b].pc \in Unplaced => act[b].pc \in Unplaced
    /\ \A b \in Actors : act'[b].pc = "moving" => act[b].pc = "moving"
    /\ \A b \in Actors : \/ act'[b].e = act[b].e \/ act'[b].e = 0
                         \/ entry[act'[b].e].manifest.there

(* and such an entry gets no manifest. *)
EntriesKept ==
    /\ \A e \in Entries : e >= next => entry'[e] = Nothing
    /\ \A b \in Actors : act'[b].pc \in Unplaced => ~entry'[act'[b].e].manifest.there
    /\ \A b \in Actors : act'[b].pc = "moving" => entry'[act'[b].e] = Nothing

LEMMA BaseStep ==
  ASSUME BaseInv, NamesKept, EntriesKept, DiskInv', GhostInv'
  PROVE  BaseInv'
  <1>1. ActInv'
    <2>1. \A e \in Entries : e >= next' => entry'[e] = Nothing /\ e \notin pass'
      BY DEF BaseInv, ActInv, NamesKept, EntriesKept
    <2>2. ASSUME NEW b \in Actors, NEW c \in Actors, b # c, act'[b].pc \in Movers, act'[c].pc \in Movers
          PROVE  act'[b].e # act'[c].e
      BY <2>2 DEF BaseInv, ActInv, NamesKept
    <2>3. QED
      BY <2>1, <2>2 DEF BaseInv, ActInv, NamesKept
  <1>2. ASSUME NEW b \in Actors, act'[b].pc \in Unplaced
        PROVE  /\ act'[b].e \notin pass' /\ ~entry'[act'[b].e].manifest.there
               /\ \A c \in Actors \ {b} : act'[c].e # act'[b].e
    <2>1. act[b].pc \in Unplaced /\ act'[b].e = act[b].e /\ act[b].e # 0
      BY <1>2 DEF NamesKept, Unplaced, Movers
    <2>2. act[b].e \notin pass /\ ~entry[act[b].e].manifest.there
          /\ \A c \in Actors \ {b} : act[c].e # act[b].e
      BY <2>1 DEF BaseInv, PlaceInv
    <2>3. ASSUME NEW c \in Actors \ {b} PROVE act'[c].e # act'[b].e
      BY <2>1, <2>2 DEF NamesKept
    <2>4. QED
      BY <1>2, <2>1, <2>2, <2>3 DEF NamesKept, EntriesKept
  <1>3. PlaceInv'
    BY <1>2 DEF PlaceInv, EntriesKept
  <1>4. QED
    BY <1>1, <1>3 DEF BaseInv

(* One actor goes on with its entry, or ends, or takes up an entry that has a
   manifest. *)
LEMMA OneActs ==
  ASSUME BaseInv, NEW a \in Actors, act' \in [Actors -> Acts], next' = next, pass' \subseteq pass,
         \A b \in Actors \ {a} : act'[b] = act[b],
         \/ act'[a].pc = "idle" /\ act'[a].e = 0
         \/ /\ act[a].pc # "idle" /\ act'[a].e = act[a].e
            /\ act'[a].pc \in Movers => act[a].pc \in Movers
            /\ act'[a].pc \in Unplaced => act[a].pc \in Unplaced
            /\ act'[a].pc # "moving"
         \/ /\ act'[a].pc = "restoring" /\ act'[a].e \in Entries /\ act'[a].e < next
            /\ entry[act'[a].e].manifest.there
  PROVE  NamesKept
  <1>1. 0 < next /\ act[a].e < next
    BY DEF BaseInv, ActInv
  <1>2. \A b \in Actors \ {a} : act'[b] = act[b] /\ act[b].e < next /\ (act[b].pc # "idle" => act[b].e # 0)
    BY DEF BaseInv, ActInv
  <1>3. act[a].pc # "idle" => act[a].e # 0
    BY DEF BaseInv, ActInv
  <1>4. CASE act'[a].pc = "idle" /\ act'[a].e = 0
    BY <1>1, <1>2, <1>4 DEF NamesKept, Movers, Unplaced
  <1>5. CASE /\ act[a].pc # "idle" /\ act'[a].e = act[a].e
             /\ act'[a].pc \in Movers => act[a].pc \in Movers
             /\ act'[a].pc \in Unplaced => act[a].pc \in Unplaced
             /\ act'[a].pc # "moving"
    BY <1>1, <1>2, <1>3, <1>5 DEF NamesKept
  <1>6. CASE /\ act'[a].pc = "restoring" /\ act'[a].e \in Entries /\ act'[a].e < next
             /\ entry[act'[a].e].manifest.there
    BY <1>2, <1>6 DEF NamesKept, Movers, Unplaced, Entries
  <1>7. QED
    BY <1>4, <1>5, <1>6

LEMMA NobodyActs ==
  ASSUME BaseInv, UNCHANGED <<act, next>>, pass' \subseteq pass
  PROVE  NamesKept
  BY DEF BaseInv, ActInv, NamesKept

(* One entry changes: it gets no manifest while it is not complete. *)
LEMMA OneEntry ==
  ASSUME BaseInv, NamesKept, NEW e \in Entries, e < next, NEW n \in Trees, SetEntry(e, n),
         \A b \in Actors : act'[b].pc = "moving" => act[b].e # e,
         \/ n.manifest.there => entry[e].manifest.there
         \/ \A b \in Actors : act'[b].pc \in Unplaced => act'[b].e # e
  PROVE  EntriesKept
  <1>1. entry' \in [Entries -> Trees] /\ entry'[e] = n /\ \A f \in Entries \ {e} : entry'[f] = entry[f]
    BY EntryIs DEF BaseInv, DiskInv
  <1>2. \A f \in Entries : f >= next => entry'[f] = Nothing
    BY <1>1 DEF BaseInv, ActInv, Entries
  <1>3. ASSUME NEW b \in Actors, act'[b].pc \in Unplaced
        PROVE  /\ ~entry'[act'[b].e].manifest.there
               /\ act'[b].pc = "moving" => entry'[act'[b].e] = Nothing
    <2>1. act'[b].e = act[b].e /\ act[b].pc \in Unplaced /\ act[b].pc # "idle"
          /\ (act'[b].pc = "moving" => act[b].pc = "moving")
      BY <1>3 DEF NamesKept, Unplaced, Movers
    <2>2. act[b].e \in Entries /\ ~entry[act[b].e].manifest.there
          /\ (act[b].pc = "moving" => entry[act[b].e] = Nothing)
      BY <2>1, OwnEntry DEF BaseInv, PlaceInv
    <2>3. QED
      BY <1>1, <1>3, <2>1, <2>2
  <1>4. QED
    BY <1>2, <1>3 DEF EntriesKept, Unplaced

LEMMA SameEntries ==
  ASSUME BaseInv, NamesKept, UNCHANGED entry
  PROVE  EntriesKept
  <1>1. ASSUME NEW b \in Actors, act'[b].pc \in Unplaced
        PROVE  /\ ~entry[act'[b].e].manifest.there
               /\ act'[b].pc = "moving" => entry[act'[b].e] = Nothing
    BY <1>1 DEF NamesKept, Unplaced, Movers, BaseInv, PlaceInv
  <1>2. QED
    BY <1>1 DEF EntriesKept, Unplaced, BaseInv, ActInv

(* The origin and one entry change, within what was written. *)
LEMMA DiskStep ==
  ASSUME BaseInv, NEW e \in Entries, NEW n \in Trees, SetEntry(e, n), n.files \subseteq written,
         ~n.there => n = Nothing, origin' \in Trees, origin'.files \subseteq written,
         UNCHANGED <<cross, written>>
  PROVE  DiskInv'
  <1>1. entry' \in [Entries -> Trees] /\ entry'[e] = n /\ \A f \in Entries \ {e} : entry'[f] = entry[f]
    BY EntryIs DEF BaseInv, DiskInv
  <1>2. QED
    BY <1>1 DEF BaseInv, DiskInv

LEMMA DiskOrigin ==
  ASSUME BaseInv, UNCHANGED <<cross, entry, written>>, origin' \in Trees, origin'.files \subseteq written
  PROVE  DiskInv'
  BY DEF BaseInv, DiskInv

(* A place and what is still to be copied change. *)
LEMMA GotoTodo ==
  ASSUME act \in [Actors -> Acts], NEW a \in Actors, NEW pc \in Phases, NEW F \in SUBSET Files,
         act' = [act EXCEPT ![a].pc = pc, ![a].todo = F]
  PROVE  /\ act' \in [Actors -> Acts]
         /\ act'[a].pc = pc /\ act'[a].e = act[a].e /\ act'[a].auto = act[a].auto
         /\ act'[a].count = act[a].count /\ act'[a].todo = F
         /\ \A b \in Actors \ {a} : act'[b] = act[b]
  <1> DEFINE r == [act[a] EXCEPT !.pc = pc, !.todo = F]
  <1>1. r \in Acts /\ r.pc = pc /\ r.e = act[a].e /\ r.auto = act[a].auto /\ r.count = act[a].count
        /\ r.todo = F
    BY DEF Acts
  <1>2. act' = [act EXCEPT ![a] = r]
    OBVIOUS
  <1> HIDE DEF r
  <1>3. QED
    BY <1>1, <1>2

LEMMA TodoLess ==
  ASSUME act \in [Actors -> Acts], NEW a \in Actors, NEW f,
         act' = [act EXCEPT ![a].todo = @ \ {f}]
  PROVE  /\ act' \in [Actors -> Acts]
         /\ act'[a].pc = act[a].pc /\ act'[a].e = act[a].e /\ act'[a].auto = act[a].auto
         /\ act'[a].count = act[a].count /\ act'[a].todo = act[a].todo \ {f}
         /\ \A b \in Actors \ {a} : act'[b] = act[b]
  <1> DEFINE r == [act[a] EXCEPT !.todo = @ \ {f}]
  <1>1. r \in Acts /\ r.pc = act[a].pc /\ r.e = act[a].e /\ r.auto = act[a].auto
        /\ r.count = act[a].count /\ r.todo = act[a].todo \ {f}
    BY DEF Acts
  <1>2. act' = [act EXCEPT ![a] = r]
    OBVIOUS
  <1> HIDE DEF r
  <1>3. QED
    BY <1>1, <1>2

-----------------------------------------------------------------------------
(* The steps of a move keep the names apart and the records in shape. *)
LEMMA MoveBeginBase ==
  ASSUME BaseInv, NEW a \in Actors, MoveBegin(a)
  PROVE  BaseInv'
  <1>1. next \in Entries /\ next' = next + 1 /\ UNCHANGED <<cross, origin, entry, old, pass, ghosts>>
    BY DEF MoveBegin
  <1>2. DiskInv' /\ GhostInv'
    BY <1>1 DEF BaseInv, DiskInv, GhostInv, ghosts
  <1>3. next' \in 1 .. MaxEntries + 1 /\ next \in 1 .. MaxEntries
    BY <1>1, StashAssumption DEF Entries
  <1>4. /\ act' \in [Actors -> Acts] /\ act'[a].pc = "moving" /\ act'[a].e = next
        /\ \A b \in Actors \ {a} : act'[b] = act[b]
    BY MoveBeginIs
  <1>5. \A b \in Actors : act[b].e < next /\ (act[b].pc # "idle" => act[b].e # 0)
                          /\ act[b].e \in Nat
    BY StashAssumption DEF BaseInv, ActInv, Acts
  <1>6. \A b \in Actors : act'[b].e < next' /\ (act'[b].pc # "idle" => act'[b].e # 0)
    BY <1>1, <1>3, <1>4, <1>5
  <1>7. \A e \in Entries : e >= next' => entry'[e] = Nothing /\ e \notin pass'
    BY <1>1, <1>3 DEF BaseInv, ActInv, Entries
  <1>8. ASSUME NEW b \in Actors, NEW c \in Actors, b # c, act'[b].pc \in Movers, act'[c].pc \in Movers
        PROVE  act'[b].e # act'[c].e
    <2>1. CASE b = a \/ c = a
      BY <1>3, <1>4, <1>5, <1>8, <2>1
    <2>2. CASE b # a /\ c # a
      BY <1>4, <1>8, <2>2 DEF BaseInv, ActInv
    <2>3. QED
      BY <2>1, <2>2
  <1>9. ActInv'
    BY <1>3, <1>4, <1>6, <1>7, <1>8 DEF ActInv
  <1>10. entry[next] = Nothing /\ next \notin pass
    BY <1>1, <1>3 DEF BaseInv, ActInv
  <1>11. ASSUME NEW b \in Actors, act'[b].pc \in Unplaced
         PROVE  /\ act'[b].e \notin pass /\ ~entry[act'[b].e].manifest.there
                /\ \A c \in Actors \ {b} : act'[c].e # act'[b].e
                /\ act'[b].pc = "moving" => entry[act'[b].e] = Nothing
    <2>1. CASE b = a
      BY <1>3, <1>4, <1>5, <1>10, <2>1, NothingIs, NoManifestIs
    <2>2. CASE b # a
      <3>1. act'[b] = act[b] /\ act[b].pc \in Unplaced /\ act[b].e # next
        BY <1>3, <1>4, <1>5, <1>11, <2>2
      <3>2. QED
        BY <1>4, <3>1 DEF BaseInv, PlaceInv
    <2>3. QED
      BY <2>1, <2>2
  <1>12. PlaceInv'
    BY <1>1, <1>11 DEF PlaceInv, Unplaced
  <1>13. QED
    BY <1>2, <1>9, <1>12 DEF BaseInv

LEMMA MoveRenameBase ==
  ASSUME BaseInv, NEW a \in Actors, MoveRename(a)
  PROVE  BaseInv'
  <1> DEFINE e == act[a].e
  <1>1. act[a].pc = "moving" /\ SetEntry(e, origin) /\ origin' = Nothing /\ origin.there
        /\ Goto(a, "publishing") /\ UNCHANGED <<cross, next, old, pass, written, late, given>>
        /\ spent' \in {spent, spent \cup {e}}
    BY DEF MoveRename
  <1>2. e \in Entries /\ e < next /\ act \in [Actors -> Acts] /\ "publishing" \in Phases
        /\ origin \in Trees /\ origin.files \subseteq written
    BY <1>1, OwnEntry DEF Phases, BaseInv, ActInv, DiskInv
  <1>3. /\ act' \in [Actors -> Acts] /\ act'[a].pc = "publishing" /\ act'[a].e = e
        /\ \A b \in Actors \ {a} : act'[b] = act[b]
    BY <1>1, <1>2, GotoIs
  <1>4. NamesKept
    BY <1>1, <1>3, OneActs DEF Movers, Unplaced
  <1>5. \A b \in Actors : act'[b].pc \in Unplaced => act[b].e # e /\ act'[b].e # e
    BY <1>1, <1>3 DEF BaseInv, PlaceInv, Unplaced
  <1>6. EntriesKept
    BY <1>1, <1>2, <1>4, <1>5, OneEntry DEF Unplaced
  <1>7. DiskInv' /\ GhostInv'
    BY <1>1, <1>2, DiskStep, NothingIs DEF BaseInv, GhostInv
  <1>8. QED
    BY <1>4, <1>6, <1>7, BaseStep

LEMMA MoveCopyBeginBase ==
  ASSUME BaseInv, NEW a \in Actors, MoveCopyBegin(a)
  PROVE  BaseInv'
  <1> DEFINE e == act[a].e
  <1>1. act[a].pc = "moving" /\ SetEntry(e, Tree({}, NoManifest))
        /\ act' = [act EXCEPT ![a].pc = "copying", ![a].todo = origin.files]
        /\ UNCHANGED <<cross, origin, next, old, pass, written, late, given, spent>>
    BY DEF MoveCopyBegin, ghosts
  <1>2. e \in Entries /\ e < next /\ act \in [Actors -> Acts] /\ "copying" \in Phases
        /\ origin \in Trees /\ origin.files \subseteq written /\ origin.files \in SUBSET Files
    BY <1>1, OwnEntry, TreeFields DEF Phases, BaseInv, ActInv, DiskInv
  <1>3. /\ act' \in [Actors -> Acts] /\ act'[a].pc = "copying" /\ act'[a].e = e
        /\ \A b \in Actors \ {a} : act'[b] = act[b]
    BY <1>1, <1>2, GotoTodo
  <1>4. NamesKept
    BY <1>1, <1>3, OneActs DEF Movers, Unplaced
  <1>5. \A b \in Actors : act'[b].pc = "moving" => act[b].e # e
    BY <1>1, <1>3 DEF BaseInv, PlaceInv, Unplaced
  <1>6. Tree({}, NoManifest) \in Trees /\ ~Tree({}, NoManifest).manifest.there
        /\ Tree({}, NoManifest).files = {} /\ Tree({}, NoManifest).there
    BY TreeIs, NoManifestIs
  <1>7. EntriesKept
    BY <1>1, <1>2, <1>4, <1>5, <1>6, OneEntry
  <1>8. DiskInv' /\ GhostInv'
    BY <1>1, <1>2, <1>6, DiskStep DEF BaseInv, GhostInv
  <1>9. QED
    BY <1>4, <1>7, <1>8, BaseStep

(* A file comes into an entry. *)
LEMMA FileAdded ==
  ASSUME NEW n \in Trees, NEW f \in Files
  PROVE  /\ [n EXCEPT !.files = @ \cup {f}, !.there = TRUE] \in Trees
         /\ [n EXCEPT !.files = @ \cup {f}, !.there = TRUE].files = n.files \cup {f}
         /\ [n EXCEPT !.files = @ \cup {f}, !.there = TRUE].manifest = n.manifest
         /\ [n EXCEPT !.files = @ \cup {f}, !.there = TRUE].there
  BY DEF Trees

LEMMA MoveCopyIs ==
  ASSUME BaseInv, NEW a \in Actors, MoveCopy(a)
  PROVE  \E f \in origin.files :
           LET n == [entry[act[a].e] EXCEPT !.files = @ \cup {f}, !.there = TRUE] IN
           /\ f \in act[a].todo \/ f \notin entry[act[a].e].files
           /\ act' = [act EXCEPT ![a].todo = @ \ {f}]
           /\ SetEntry(act[a].e, n)
  <1>1. act[a].e \in Entries /\ entry \in [Entries -> Trees]
    BY OwnEntry DEF MoveCopy, BaseInv, DiskInv
  <1>2. QED
    BY <1>1 DEF MoveCopy, SetEntry

LEMMA MoveCopyBase ==
  ASSUME BaseInv, NEW a \in Actors, MoveCopy(a)
  PROVE  BaseInv'
  <1> DEFINE e == act[a].e
  <1>1. act[a].pc = "copying" /\ UNCHANGED <<cross, origin, next, old, pass, written, late, given, spent>>
    BY DEF MoveCopy, ghosts
  <1>2. PICK f \in origin.files :
           LET n == [entry[e] EXCEPT !.files = @ \cup {f}, !.there = TRUE] IN
           /\ act' = [act EXCEPT ![a].todo = @ \ {f}]
           /\ SetEntry(e, n)
    BY MoveCopyIs
  <1> DEFINE n == [entry[e] EXCEPT !.files = @ \cup {f}, !.there = TRUE]
  <1>3. e \in Entries /\ e < next /\ act \in [Actors -> Acts] /\ entry[e] \in Trees
        /\ origin \in Trees /\ f \in written /\ f \in Files /\ entry[e].files \subseteq written
    BY <1>1, <1>2, OwnEntry, TreeFields DEF BaseInv, ActInv, DiskInv
  <1>4. n \in Trees /\ n.files = entry[e].files \cup {f} /\ n.manifest = entry[e].manifest /\ n.there
    BY <1>3, FileAdded
  <1> HIDE DEF n
  <1>5. /\ act' \in [Actors -> Acts] /\ act'[a].pc = "copying" /\ act'[a].e = e
        /\ \A b \in Actors \ {a} : act'[b] = act[b]
    BY <1>1, <1>2, <1>3, TodoLess
  <1>6. NamesKept
    BY <1>1, <1>5, OneActs
  <1>7. \A b \in Actors : act'[b].pc = "moving" => act[b].e # e
    BY <1>1, <1>5 DEF BaseInv, PlaceInv, Unplaced
  <1>8. SetEntry(e, n)
    BY <1>2 DEF n
  <1>9. EntriesKept
    BY <1>3, <1>4, <1>6, <1>7, <1>8, OneEntry
  <1>10. n.files \subseteq written
    BY <1>3, <1>4
  <1>11. DiskInv'
    BY <1>1, <1>3, <1>4, <1>8, <1>10, DiskStep DEF BaseInv, DiskInv
  <1>12. GhostInv'
    BY <1>1 DEF BaseInv, GhostInv
  <1>13. QED
    BY <1>6, <1>9, <1>11, <1>12, BaseStep

LEMMA MoveFailsBase ==
  ASSUME BaseInv, NEW a \in Actors, MoveFails(a)
  PROVE  BaseInv'
  <1> DEFINE e == act[a].e
  <1>1. act[a].pc \in {"moving", "copying"} /\ Ends(a)
        /\ UNCHANGED <<cross, origin, next, old, pass, written, late, given, spent>>
    BY DEF MoveFails, ghosts
  <1>2. PICK n \in Remains(entry[e]) : SetEntry(e, n)
    BY DEF MoveFails
  <1>3. e \in Entries /\ e < next /\ act \in [Actors -> Acts] /\ entry[e] \in Trees
        /\ origin \in Trees /\ origin.files \subseteq written
        /\ entry[e].files \subseteq written /\ (~entry[e].there => entry[e] = Nothing)
    BY <1>1, OwnEntry DEF BaseInv, ActInv, DiskInv
  <1>4. /\ n \in Trees /\ n.files \subseteq entry[e].files /\ n.manifest \in {entry[e].manifest, NoManifest}
        /\ ~n.there => n = Nothing
    BY <1>2, <1>3, RemainsIs
  <1>5. /\ act' \in [Actors -> Acts] /\ act'[a].pc = "idle" /\ act'[a].e = 0
        /\ \A b \in Actors \ {a} : act'[b] = act[b]
    BY <1>1, <1>3, EndsIs
  <1>6. NamesKept
    BY <1>1, <1>5, OneActs
  <1>7. \A b \in Actors : act'[b].pc = "moving" => act[b].e # e
    BY <1>1, <1>5 DEF BaseInv, PlaceInv, Unplaced
  <1>8. EntriesKept
    BY <1>2, <1>3, <1>4, <1>6, <1>7, NoManifestIs, OneEntry
  <1>9. DiskInv' /\ GhostInv'
    BY <1>1, <1>2, <1>3, <1>4, DiskStep DEF BaseInv, GhostInv
  <1>10. QED
    BY <1>6, <1>8, <1>9, BaseStep

LEMMA MoveVerifyBase ==
  ASSUME BaseInv, NEW a \in Actors, MoveVerify(a)
  PROVE  BaseInv'
  <1>1. act[a].pc = "copying" /\ Goto(a, "removing") /\ "removing" \in Phases
        /\ UNCHANGED <<cross, origin, entry, next, old, pass, written, late, given, spent>>
    BY DEF MoveVerify, disk, ghosts, Phases
  <1>2. NamesKept
    BY <1>1, GotoIs, OneActs DEF BaseInv, ActInv, Movers, Unplaced
  <1>3. EntriesKept
    BY <1>1, <1>2, SameEntries
  <1>4. DiskInv' /\ GhostInv'
    BY <1>1 DEF BaseInv, DiskInv, GhostInv
  <1>5. QED
    BY <1>2, <1>3, <1>4, BaseStep

LEMMA MoveRemoveBase ==
  ASSUME BaseInv, NEW a \in Actors, MoveRemove(a)
  PROVE  BaseInv'
  <1>1. act[a].pc = "removing" /\ (Goto(a, "publishing") \/ Ends(a)) /\ "publishing" \in Phases
        /\ UNCHANGED <<cross, entry, next, old, pass, written, late, given, spent>>
        /\ origin' \in Remains(origin)
    BY DEF MoveRemove, ghosts, Phases, Remains
  <1>2. NamesKept
    BY <1>1, GotoIs, EndsIs, OneActs DEF BaseInv, ActInv, Movers, Unplaced
  <1>3. EntriesKept
    BY <1>1, <1>2, SameEntries
  <1>4. origin' \in Trees /\ origin'.files \subseteq origin.files
    <2>1. CASE origin' = Nothing
      BY <2>1, NothingIs
    <2>2. CASE origin' # Nothing
      BY <1>1, <2>2, RemainsTrees DEF BaseInv, DiskInv
    <2>3. QED
      BY <2>1, <2>2
  <1>5. DiskInv' /\ GhostInv'
    BY <1>1, <1>4, DiskOrigin DEF BaseInv, DiskInv, GhostInv
  <1>6. QED
    BY <1>2, <1>3, <1>5, BaseStep

(* The manifest comes into the entry. *)
LEMMA ManifestAdded ==
  ASSUME NEW n \in Trees, NEW m \in Manifests
  PROVE  /\ [n EXCEPT !.manifest = m] \in Trees /\ [n EXCEPT !.manifest = m].files = n.files
         /\ [n EXCEPT !.manifest = m].manifest = m /\ [n EXCEPT !.manifest = m].there = n.there
  BY DEF Trees, Manifests, Counts

LEMMA MovePublishIs ==
  ASSUME BaseInv, NEW a \in Actors, MovePublish(a)
  PROVE  /\ act[a].e \in Entries /\ act[a].e < next /\ entry[act[a].e] \in Trees
         /\ Manifest(act[a].auto, act[a].count) \in Manifests
         /\ SetEntry(act[a].e, [entry[act[a].e] EXCEPT !.manifest = Manifest(act[a].auto, act[a].count)])
  <1>1. act[a].e \in Entries /\ act[a].e < next /\ entry \in [Entries -> Trees] /\ act[a] \in Acts
    BY OwnEntry DEF MovePublish, BaseInv, DiskInv, ActInv
  <1>2. QED
    BY <1>1, ManifestIs, ActFields DEF MovePublish, SetEntry

LEMMA MovePublishBase ==
  ASSUME BaseInv, NEW a \in Actors, MovePublish(a)
  PROVE  BaseInv'
  <1> DEFINE e == act[a].e
             n == [entry[e] EXCEPT !.manifest = Manifest(act[a].auto, act[a].count)]
  <1>1. act[a].pc = "publishing" /\ (Goto(a, "replacing") \/ Ends(a)) /\ "replacing" \in Phases
        /\ UNCHANGED <<cross, origin, next, old, pass, written, late, given, spent>>
        /\ entry[e].there
    BY DEF MovePublish, ghosts, Phases
  <1>2. e \in Entries /\ e < next /\ entry[e] \in Trees /\ SetEntry(e, n)
        /\ Manifest(act[a].auto, act[a].count) \in Manifests
        /\ entry[e].files \subseteq written /\ origin \in Trees /\ origin.files \subseteq written
    BY MovePublishIs DEF BaseInv, DiskInv
  <1>3. n \in Trees /\ n.files = entry[e].files /\ n.there
    BY <1>1, <1>2, ManifestAdded
  <1> HIDE DEF n
  <1>4. /\ act' \in [Actors -> Acts] /\ \A b \in Actors \ {a} : act'[b] = act[b]
        /\ \/ act'[a].pc = "idle" /\ act'[a].e = 0
           \/ act'[a].pc = "replacing" /\ act'[a].e = act[a].e
    BY <1>1, GotoIs, EndsIs DEF BaseInv, ActInv
  <1>5. NamesKept
    BY <1>1, <1>4, OneActs DEF Movers, Unplaced
  <1>6. \A b \in Actors : act'[b].pc \in Unplaced => act[b].e # e /\ act'[b].e # e
    <2>1. \A b \in Actors \ {a} : act[b].pc \in Unplaced => act[b].e # e
      BY <1>1 DEF BaseInv, PlaceInv
    <2>2. act'[a].pc \notin Unplaced
      BY <1>4 DEF Unplaced
    <2>3. QED
      BY <1>4, <2>1, <2>2
  <1>7. EntriesKept
    BY <1>2, <1>3, <1>5, <1>6, OneEntry DEF Unplaced
  <1>8. DiskInv' /\ GhostInv'
    BY <1>1, <1>2, <1>3, DiskStep DEF BaseInv, GhostInv
  <1>9. QED
    BY <1>5, <1>7, <1>8, BaseStep

LEMMA MovePublishFailsBase ==
  ASSUME BaseInv, NEW a \in Actors, MovePublishFails(a)
  PROVE  BaseInv'
  <1> DEFINE e == act[a].e
  <1>1. act[a].pc = "publishing" /\ Ends(a) /\ UNCHANGED <<cross, next, old, pass, written, given, spent>>
    BY DEF MovePublishFails
  <1>2. e \in Entries /\ e < next /\ act \in [Actors -> Acts] /\ entry[e] \in Trees
        /\ entry[e].files \subseteq written
    BY <1>1, OwnEntry DEF BaseInv, ActInv, DiskInv
  <1>3. /\ act' \in [Actors -> Acts] /\ act'[a].pc = "idle" /\ act'[a].e = 0
        /\ \A b \in Actors \ {a} : act'[b] = act[b]
    BY <1>1, <1>2, EndsIs
  <1>4. NamesKept
    BY <1>1, <1>3, OneActs
  <1>5. CASE UNCHANGED <<origin, entry, late>>
    <2>1. EntriesKept
      BY <1>4, <1>5, SameEntries
    <2>2. DiskInv' /\ GhostInv'
      BY <1>1, <1>5 DEF BaseInv, DiskInv, GhostInv
    <2>3. QED
      BY <1>4, <2>1, <2>2, BaseStep
  <1>6. CASE /\ origin' = entry[e] /\ SetEntry(e, Nothing)
             /\ late' \in {late, late \cup entry[e].files}
    <2>1. \A b \in Actors : act'[b].pc \in Unplaced => act[b].e # e
      <3>1. \A b \in Actors \ {a} : act[b].pc \in Unplaced => act[b].e # e
        BY <1>1 DEF BaseInv, PlaceInv
      <3>2. QED
        BY <1>3, <3>1 DEF Unplaced
    <2>2. EntriesKept
      BY <1>2, <1>4, <1>6, <2>1, NothingIs, NoManifestIs, OneEntry DEF Unplaced
    <2>3. DiskInv' /\ GhostInv'
      BY <1>1, <1>2, <1>6, DiskStep, NothingIs DEF BaseInv, GhostInv
    <2>4. QED
      BY <1>4, <2>2, <2>3, BaseStep
  <1>7. QED
    BY <1>5, <1>6 DEF MovePublishFails

(* What is removed from an entry that is there, in whole or in part. *)
LEMMA EntryShrinks ==
  ASSUME BaseInv, NamesKept, NEW e \in Entries, NEW n, n \in Remains(entry[e]) \cup {entry[e]},
         SetEntry(e, n), entry[e].there \/ n = entry[e] \/ e \in pass,
         UNCHANGED <<cross, origin, written>>
  PROVE  EntriesKept /\ DiskInv'
  <1>1. entry[e] \in Trees /\ (~entry[e].there => entry[e] = Nothing) /\ entry[e].files \subseteq written
        /\ origin \in Trees /\ origin.files \subseteq written
    BY DEF BaseInv, DiskInv
  <1>2. /\ n \in Trees /\ n.files \subseteq entry[e].files /\ n.manifest \in {entry[e].manifest, NoManifest}
        /\ ~n.there => n = Nothing
    BY <1>1, RemainsIs
  <1>3. DiskInv'
    BY <1>1, <1>2, DiskStep
  <1>4. CASE n = entry[e]
    <2>1. UNCHANGED entry
      BY <1>4 DEF SetEntry, BaseInv, DiskInv
    <2>2. QED
      BY <1>3, <2>1, SameEntries
  <1>5. CASE n # entry[e]
    <2>1. entry[e] # Nothing \/ e \in pass
      BY <1>5, NothingIs
    <2>2. e < next
      BY <2>1, StashAssumption DEF BaseInv, ActInv, Entries
    <2>3. \A b \in Actors : act'[b].pc = "moving" => act[b].e # e
      BY <2>1 DEF NamesKept, BaseInv, PlaceInv, Unplaced
    <2>4. EntriesKept
      BY <1>2, <2>2, <2>3, NoManifestIs, OneEntry
    <2>5. QED
      BY <1>3, <2>4
  <1>6. QED
    BY <1>4, <1>5

LEMMA MoveReplaceBase ==
  ASSUME BaseInv, NEW a \in Actors, MoveReplace(a)
  PROVE  BaseInv'
  <1>1. UNCHANGED <<cross, origin, next, old, act, pass, written, late>>
    BY DEF MoveReplace
  <1>2. PICK e \in Entries \ {act[a].e} :
          /\ AutoGeneration(e)
          /\ \E n \in Remains(entry[e]) : SetEntry(e, n)
          /\ given' = IF e < act[a].e /\ entry[e].manifest.auto
                      THEN given \cup entry[e].files ELSE given
          /\ spent' = spent \cup {e}
    BY DEF MoveReplace
  <1>3. PICK n \in Remains(entry[e]) : SetEntry(e, n)
    BY <1>2
  <1>4. entry[e].there
    BY <1>2 DEF AutoGeneration
  <1>5. NamesKept
    BY <1>1, NobodyActs
  <1>6. EntriesKept /\ DiskInv'
    BY <1>1, <1>3, <1>4, <1>5, EntryShrinks
  <1>7. GhostInv'
    BY <1>1, <1>2 DEF BaseInv, DiskInv, GhostInv
  <1>8. QED
    BY <1>5, <1>6, <1>7, BaseStep

(* Steps that touch nothing but where an actor is. *)
LEMMA OnlyActs ==
  ASSUME BaseInv, NamesKept, UNCHANGED <<cross, origin, entry, next, old, pass, ghosts>>
  PROVE  BaseInv'
  <1>1. EntriesKept
    BY SameEntries
  <1>2. DiskInv' /\ GhostInv'
    BY DEF BaseInv, DiskInv, GhostInv, ghosts
  <1>3. QED
    BY <1>1, <1>2, BaseStep

LEMMA EndsBase ==
  ASSUME BaseInv, NEW a \in Actors, MoveEnds(a) \/ Die(a)
  PROVE  BaseInv'
  <1>1. Ends(a) /\ UNCHANGED <<cross, origin, entry, next, old, pass, ghosts>>
    BY DEF MoveEnds, Die, disk
  <1>2. NamesKept
    BY <1>1, EndsIs, OneActs DEF BaseInv, ActInv
  <1>3. QED
    BY <1>1, <1>2, OnlyActs

(* The steps of a restore. *)
LEMMA RestoreBeginIs ==
  ASSUME BaseInv, NEW a \in Actors, NEW e \in Entries, RestoreBegin(a, e)
  PROVE  /\ act' \in [Actors -> Acts]
         /\ act'[a].pc = "restoring" /\ act'[a].e = e /\ e < next /\ act'[a].auto = FALSE
         /\ \A b \in Actors \ {a} : act'[b] = act[b]
  <1> DEFINE r == [Idle EXCEPT !.pc = "restoring", !.e = e, !.count = entry[e].manifest.files]
  <1>1. entry[e] \in Trees /\ act \in [Actors -> Acts] /\ act' = [act EXCEPT ![a] = r]
        /\ entry[e].there
    BY DEF RestoreBegin, BaseInv, DiskInv, ActInv
  <1>2. entry[e].manifest.files \in Counts /\ e \in 0 .. MaxEntries
    BY <1>1, TreeFields, ManifestFields, StashAssumption DEF Entries
  <1>3. r \in Acts /\ r.pc = "restoring" /\ r.e = e /\ r.auto = FALSE
    BY <1>2, IdleIs DEF Acts, Phases
  <1>4. e < next
    BY <1>1, NothingIs, StashAssumption DEF BaseInv, ActInv, Entries
  <1> HIDE DEF r
  <1>5. QED
    BY <1>1, <1>3, <1>4

LEMMA RestoreBeginBase ==
  ASSUME BaseInv, NEW a \in Actors, NEW e \in Entries, RestoreBegin(a, e)
  PROVE  BaseInv'
  <1>1. entry[e].manifest.there /\ UNCHANGED <<cross, origin, entry, next, old, pass, ghosts>>
    BY DEF RestoreBegin, disk
  <1>2. NamesKept
    BY <1>1, RestoreBeginIs, OneActs
  <1>3. QED
    BY <1>1, <1>2, OnlyActs

LEMMA RestoreRenameBase ==
  ASSUME BaseInv, NEW a \in Actors, RestoreRename(a)
  PROVE  BaseInv'
  <1> DEFINE e == act[a].e
  <1>1. act[a].pc = "restoring" /\ Goto(a, "home") /\ "home" \in Phases
        /\ UNCHANGED <<cross, next, old, pass, written, given, spent>>
        /\ origin' = entry[e] /\ SetEntry(e, Nothing) /\ entry[e].there
        /\ late' \in {late, late \cup entry[e].files}
    BY DEF RestoreRename, Phases
  <1>2. e \in Entries /\ e < next /\ act \in [Actors -> Acts] /\ entry[e] \in Trees
        /\ entry[e].files \subseteq written
    BY <1>1, OwnEntry DEF BaseInv, ActInv, DiskInv
  <1>3. NamesKept
    BY <1>1, <1>2, GotoIs, OneActs DEF Movers, Unplaced
  <1>4. \A b \in Actors : act'[b].pc = "moving" => act[b].e # e
    BY <1>1, <1>3, NothingIs DEF NamesKept, BaseInv, PlaceInv
  <1>5. EntriesKept
    BY <1>1, <1>2, <1>3, <1>4, NothingIs, NoManifestIs, OneEntry
  <1>6. DiskInv' /\ GhostInv'
    BY <1>1, <1>2, DiskStep, NothingIs DEF BaseInv, GhostInv
  <1>7. QED
    BY <1>3, <1>5, <1>6, BaseStep

LEMMA RestoreUnmarkBase ==
  ASSUME BaseInv, NEW a \in Actors, RestoreUnmark(a)
  PROVE  BaseInv'
  <1>1. act[a].pc = "home" /\ Ends(a) /\ UNCHANGED <<cross, entry, next, old, pass, ghosts>>
    BY DEF RestoreUnmark
  <1>2. PICK m \in {origin.manifest, NoManifest} : origin' = [origin EXCEPT !.manifest = m]
    BY DEF RestoreUnmark
  <1>3. origin \in Trees /\ origin.files \subseteq written /\ m \in Manifests
    BY <1>2, TreeFields, NoManifestIs DEF BaseInv, DiskInv
  <1>4. origin' \in Trees /\ origin'.files = origin.files
    BY <1>2, <1>3, ManifestAdded
  <1>5. NamesKept
    BY <1>1, EndsIs, OneActs DEF BaseInv, ActInv
  <1>6. EntriesKept
    BY <1>1, <1>5, SameEntries
  <1>7. DiskInv' /\ GhostInv'
    BY <1>1, <1>3, <1>4, DiskOrigin DEF BaseInv, GhostInv, ghosts
  <1>8. QED
    BY <1>5, <1>6, <1>7, BaseStep

LEMMA RestoreCopyBeginBase ==
  ASSUME BaseInv, NEW a \in Actors, RestoreCopyBegin(a)
  PROVE  BaseInv'
  <1> DEFINE n == entry[act[a].e]
  <1>1. act[a].pc = "restoring" /\ origin' = Tree(origin.files, n.manifest) /\ "back" \in Phases
        /\ act' = [act EXCEPT ![a].pc = "back", ![a].todo = n.files]
        /\ UNCHANGED <<cross, entry, next, old, pass, ghosts>>
    BY DEF RestoreCopyBegin, Phases
  <1>2. n \in Trees /\ origin \in Trees /\ origin.files \subseteq written /\ act \in [Actors -> Acts]
    BY <1>1, OwnEntry DEF BaseInv, ActInv, DiskInv
  <1>3. n.files \in SUBSET Files /\ n.manifest \in Manifests /\ origin.files \in SUBSET Files
    BY <1>2, TreeFields
  <1> HIDE DEF n
  <1>4. origin' \in Trees /\ origin'.files = origin.files
    BY <1>1, <1>3, TreeIs
  <1>5. NamesKept
    <2>1. /\ act' \in [Actors -> Acts] /\ act'[a].pc = "back" /\ act'[a].e = act[a].e
          /\ \A b \in Actors \ {a} : act'[b] = act[b]
      BY <1>1, <1>2, <1>3, GotoTodo
    <2>2. QED
      BY <1>1, <2>1, OneActs DEF Movers, Unplaced
  <1>6. EntriesKept
    BY <1>1, <1>5, SameEntries
  <1>7. DiskInv' /\ GhostInv'
    BY <1>1, <1>2, <1>4, DiskOrigin DEF BaseInv, GhostInv, ghosts
  <1>8. QED
    BY <1>5, <1>6, <1>7, BaseStep

LEMMA RestoreCopyBase ==
  ASSUME BaseInv, NEW a \in Actors, RestoreCopy(a)
  PROVE  BaseInv'
  <1>1. act[a].pc = "back" /\ UNCHANGED <<cross, entry, next, old, pass, written, given, spent>>
    BY DEF RestoreCopy
  <1>2. PICK f \in act[a].todo \cap entry[act[a].e].files :
          /\ act' = [act EXCEPT ![a].todo = @ \ {f}]
          /\ origin' = Tree(origin.files \cup {f}, origin.manifest)
          /\ late' = IF Moving THEN late \cup {f} ELSE late
    BY DEF RestoreCopy
  <1>3. act[a].e \in Entries /\ origin \in Trees /\ origin.files \subseteq written /\ f \in written
        /\ act \in [Actors -> Acts] /\ f \in Files
    BY <1>1, <1>2, OwnEntry DEF BaseInv, ActInv, DiskInv, GhostInv
  <1>4. origin' \in Trees /\ origin'.files = origin.files \cup {f}
    BY <1>2, <1>3, TreeFields, TreeIs
  <1>5. NamesKept
    BY <1>1, <1>2, <1>3, TodoLess, OneActs DEF Movers, Unplaced
  <1>6. EntriesKept
    BY <1>1, <1>5, SameEntries
  <1>7. DiskInv'
    BY <1>1, <1>3, <1>4, DiskOrigin
  <1>8. GhostInv'
    BY <1>1, <1>2, <1>3 DEF BaseInv, GhostInv
  <1>9. QED
    BY <1>5, <1>6, <1>7, <1>8, BaseStep

LEMMA RestoreFailsBase ==
  ASSUME BaseInv, NEW a \in Actors, RestoreFails(a)
  PROVE  BaseInv'
  <1>1. act[a].pc = "back" /\ origin' \in Remains(origin) /\ Ends(a)
        /\ late' = late \cup (origin.files \ entry[act[a].e].files)
        /\ UNCHANGED <<cross, entry, next, old, pass, written, given, spent>>
    BY DEF RestoreFails
  <1>2. origin \in Trees /\ origin.files \subseteq written
    BY DEF BaseInv, DiskInv
  <1>3. origin' \in Trees /\ origin'.files \subseteq origin.files
    BY <1>1, <1>2, RemainsTrees
  <1>4. NamesKept
    BY <1>1, EndsIs, OneActs DEF BaseInv, ActInv
  <1>5. EntriesKept
    BY <1>1, <1>4, SameEntries
  <1>6. DiskInv'
    BY <1>1, <1>2, <1>3, DiskOrigin
  <1>7. GhostInv'
    BY <1>1, <1>2 DEF BaseInv, GhostInv
  <1>8. QED
    BY <1>4, <1>5, <1>6, <1>7, BaseStep

LEMMA RestoreVerifyBase ==
  ASSUME BaseInv, NEW a \in Actors, RestoreVerify(a)
  PROVE  BaseInv'
  <1>1. act[a].pc = "back" /\ origin' = [origin EXCEPT !.manifest = NoManifest]
        /\ (Goto(a, "clearing") \/ Ends(a)) /\ "clearing" \in Phases
        /\ UNCHANGED <<cross, entry, next, old, pass, ghosts>>
    BY DEF RestoreVerify, Phases
  <1>2. origin \in Trees /\ origin.files \subseteq written
    BY DEF BaseInv, DiskInv
  <1>3. origin' \in Trees /\ origin'.files = origin.files
    BY <1>1, <1>2, NoManifestIs, ManifestAdded
  <1>4. NamesKept
    BY <1>1, GotoIs, EndsIs, OneActs DEF BaseInv, ActInv, Movers, Unplaced
  <1>5. EntriesKept
    BY <1>1, <1>4, SameEntries
  <1>6. DiskInv' /\ GhostInv'
    BY <1>1, <1>2, <1>3, DiskOrigin DEF BaseInv, GhostInv, ghosts
  <1>7. QED
    BY <1>4, <1>5, <1>6, BaseStep

LEMMA RestoreClearBase ==
  ASSUME BaseInv, NEW a \in Actors, RestoreClear(a)
  PROVE  BaseInv'
  <1> DEFINE e == act[a].e
  <1>1. act[a].pc = "clearing" /\ Ends(a) /\ spent' = spent \cup {e}
        /\ UNCHANGED <<cross, origin, next, old, pass, written, late, given>>
    BY DEF RestoreClear
  <1>2. PICK n \in Remains(entry[e]) : SetEntry(e, n)
    BY DEF RestoreClear
  <1>3. e \in Entries /\ e < next /\ entry[e] \in Trees /\ (~entry[e].there => entry[e] = Nothing)
    BY <1>1, OwnEntry DEF BaseInv, DiskInv
  <1>4. NamesKept
    BY <1>1, EndsIs, OneActs DEF BaseInv, ActInv
  <1>5. entry[e].there \/ n = entry[e]
    <2>1. CASE ~entry[e].there
      BY <1>2, <1>3, <2>1, NothingRemains
    <2>2. QED
      BY <2>1
  <1>6. EntriesKept /\ DiskInv'
    BY <1>1, <1>2, <1>3, <1>4, <1>5, EntryShrinks
  <1>7. GhostInv'
    BY <1>1, <1>3 DEF BaseInv, GhostInv
  <1>8. QED
    BY <1>4, <1>6, <1>7, BaseStep

(* What the expiry removes, and what an operator purges. *)
LEMMA FirstIs ==
  ASSUME NEW S \in SUBSET Entries, S # {}
  PROVE  First(S) \in S
  <1>1. S \subseteq Nat
    BY StashAssumption DEF Entries
  <1> DEFINE R == OpToRel(<, Nat)
  <1>2. ASSUME NEW e \in Nat, NEW f \in Nat, f < e PROVE <<f, e>> \in R
    BY <1>2, SMT DEF OpToRel
  <1>3. IsWellFoundedOn(R, Nat)
    BY NatLessThanWellFounded
  <1> HIDE DEF R
  <1>4. PICK e \in S : \A f \in S : ~ (<<f, e>> \in R)
    BY <1>1, <1>3, WFMin
  <1>5. ASSUME NEW f \in S PROVE e <= f
    <2>1. e \in Nat /\ f \in Nat /\ ~ (f < e)
      BY <1>1, <1>2, <1>4, Zenon
    <2>2. QED
      BY <2>1
  <1>6. QED
    BY <1>5 DEF First

LEMMA PurgeBase ==
  ASSUME BaseInv, NEW a \in Actors, NEW e \in Entries, Purge(a, e)
  PROVE  BaseInv'
  <1>1. UNCHANGED <<cross, origin, next, old, act, pass, written, late>> /\ entry[e].there
        /\ given' = given \cup entry[e].files /\ spent' = spent \cup {e}
    BY DEF Purge
  <1>2. PICK n \in Remains(entry[e]) : SetEntry(e, n)
    BY DEF Purge
  <1>3. NamesKept
    BY <1>1, NobodyActs
  <1>4. EntriesKept /\ DiskInv'
    BY <1>1, <1>2, <1>3, EntryShrinks
  <1>5. GhostInv'
    BY <1>1 DEF BaseInv, DiskInv, GhostInv
  <1>6. QED
    BY <1>3, <1>4, <1>5, BaseStep

LEMMA ExpireListBase ==
  ASSUME BaseInv, ExpireList
  PROVE  BaseInv'
  <1>1. UNCHANGED <<cross, origin, entry, next, old, act, written, late, given, spent>>
        /\ pass' = {e \in Entries : Expired(e)}
    BY DEF ExpireList, disk, ghosts
  <1>2. \A e \in pass' : e \in Entries /\ entry[e].there /\ entry[e].manifest.there
    BY <1>1 DEF Expired
  <1>3. \A e \in Entries : e >= next' => entry'[e] = Nothing /\ e \notin pass'
    BY <1>1, <1>2, NothingIs DEF BaseInv, ActInv
  <1>4. ActInv'
    BY <1>1, <1>3 DEF BaseInv, ActInv
  <1>5. \A b \in Actors : act'[b].pc \in Unplaced => act'[b].e \notin pass'
    BY <1>1, <1>2 DEF BaseInv, PlaceInv
  <1>6. PlaceInv'
    BY <1>1, <1>5 DEF BaseInv, PlaceInv
  <1>7. DiskInv' /\ GhostInv'
    BY <1>1, <1>2 DEF BaseInv, DiskInv, GhostInv
  <1>8. QED
    BY <1>4, <1>6, <1>7 DEF BaseInv

(* An expiry takes its first entry and does something to it. *)
LEMMA ExpireIs ==
  ASSUME BaseInv, ExpireOne \/ ExpireFails
  PROVE  LET e == First(pass) IN
           /\ e \in pass /\ e \in Entries /\ pass' \subseteq pass
           /\ UNCHANGED <<cross, origin, next, old, act, written, late>>
           /\ \E n \in Remains(entry[e]) \cup {entry[e]} :
                /\ SetEntry(e, n)
                /\ entry[e].manifest.there /\ n # entry[e] => given' = given \cup entry[e].files
                /\ given' \in {given, given \cup entry[e].files}
                /\ n # entry[e] => spent' = spent \cup {e}
                /\ spent' \in {spent, spent \cup {e}}
  <1> DEFINE e == First(pass)
  <1>1. pass # {} /\ pass \in SUBSET Entries
    BY DEF ExpireOne, ExpireFails, BaseInv, GhostInv
  <1>2. e \in pass /\ e \in Entries
    BY <1>1, FirstIs
  <1>3. entry[e] \in Trees /\ (~entry[e].there => entry[e] = Nothing) /\ ~Nothing.there
        /\ ~Nothing.manifest.there /\ Nothing.files = {}
    BY <1>2, NothingIs, NoManifestIs DEF BaseInv, DiskInv
  <1> HIDE DEF e
  <1>4. CASE ExpireOne
    <2>1. Nothing \in Remains(entry[e])
      BY DEF Remains
    <2>2. /\ SetEntry(e, Nothing) /\ pass' \subseteq pass
          /\ given' = IF entry[e].manifest.there THEN given \cup entry[e].files ELSE given
          /\ spent' = IF entry[e].there THEN spent \cup {e} ELSE spent
          /\ UNCHANGED <<cross, origin, next, old, act, written, late>>
      BY <1>4 DEF ExpireOne, e
    <2>3. QED
      BY <1>2, <1>3, <2>1, <2>2 DEF e
  <1>5. CASE ExpireFails
    BY <1>2, <1>5 DEF ExpireFails, e
  <1>6. QED
    BY <1>4, <1>5

LEMMA ExpireBase ==
  ASSUME BaseInv, ExpireOne \/ ExpireFails
  PROVE  BaseInv'
  <1> DEFINE e == First(pass)
  <1>1. PICK n \in Remains(entry[e]) \cup {entry[e]} :
          /\ SetEntry(e, n)
          /\ given' \in {given, given \cup entry[e].files}
          /\ spent' \in {spent, spent \cup {e}}
    BY ExpireIs
  <1>2. e \in pass /\ e \in Entries /\ pass' \subseteq pass
        /\ UNCHANGED <<cross, origin, next, old, act, written, late>>
    BY ExpireIs
  <1> HIDE DEF e
  <1>3. NamesKept
    BY <1>2, NobodyActs
  <1>4. EntriesKept /\ DiskInv'
    BY <1>1, <1>2, <1>3, EntryShrinks
  <1>5. GhostInv'
    BY <1>1, <1>2 DEF BaseInv, DiskInv, GhostInv
  <1>6. QED
    BY <1>3, <1>4, <1>5, BaseStep

(* Everybody else. *)
LEMMA WriteBase ==
  ASSUME BaseInv, NEW f \in Files, Write(f)
  PROVE  BaseInv'
  <1>1. UNCHANGED <<cross, entry, next, old, act, pass, given, spent>>
        /\ origin' = Tree(origin.files \cup {f}, origin.manifest)
        /\ written' = written \cup {f} /\ late' \in {late, late \cup {f}}
    BY DEF Write
  <1>2. origin \in Trees /\ origin.files \subseteq written
    BY DEF BaseInv, DiskInv
  <1>3. origin' \in Trees /\ origin'.files = origin.files \cup {f}
    BY <1>1, <1>2, TreeFields, TreeIs
  <1>4. NamesKept
    BY <1>1, NobodyActs
  <1>5. EntriesKept
    BY <1>1, <1>4, SameEntries
  <1>6. DiskInv' /\ GhostInv'
    BY <1>1, <1>2, <1>3 DEF BaseInv, DiskInv, GhostInv
  <1>7. QED
    BY <1>4, <1>5, <1>6, BaseStep

LEMMA RestBase ==
  ASSUME BaseInv, UNCHANGED vars \/ \E e \in Entries : Ages(e)
  PROVE  BaseInv'
  <1>1. UNCHANGED <<cross, origin, entry, next, act, pass, written, late, given, spent>>
        /\ old' \subseteq Entries
    BY DEF Ages, vars, disk, ghosts, BaseInv, GhostInv
  <1>2. QED
    BY <1>1 DEF BaseInv, DiskInv, GhostInv, ActInv, PlaceInv

LEMMA InitBase ==
  ASSUME Init
  PROVE  BaseInv
  <1>1. /\ cross \in BOOLEAN /\ written \in SUBSET Files /\ origin = Tree(written, NoManifest)
        /\ entry = [e \in Entries |-> Nothing] /\ next = 1 /\ old = {} /\ pass = {}
        /\ act = [a \in Actors |-> Idle] /\ late = {} /\ given = {} /\ spent = {}
    BY DEF Init
  <1>2. origin \in Trees /\ origin.files = written
    BY <1>1, NoManifestIs, TreeIs
  <1>3. DiskInv /\ GhostInv
    BY <1>1, <1>2, NothingIs DEF DiskInv, GhostInv
  <1>4. act \in [Actors -> Acts] /\ \A a \in Actors : act[a].pc = "idle" /\ act[a].e = 0
    BY <1>1, IdleIs
  <1>5. ActInv
    BY <1>1, <1>4, StashAssumption DEF ActInv, Movers
  <1>6. PlaceInv
    BY <1>4 DEF PlaceInv, Unplaced
  <1>7. QED
    BY <1>3, <1>5, <1>6 DEF BaseInv

LEMMA NextBase ==
  ASSUME BaseInv, [Next]_vars
  PROVE  BaseInv'
  <1>1. ASSUME NEW a \in Actors, Move(a) \/ Die(a)
        PROVE  BaseInv'
    BY <1>1, MoveBeginBase, MoveRenameBase, MoveCopyBeginBase, MoveCopyBase, MoveFailsBase,
       MoveVerifyBase, MoveRemoveBase, MovePublishBase, MovePublishFailsBase, MoveReplaceBase,
       EndsBase DEF Move
  <1>2. ASSUME NEW a \in Actors, Restore(a) \/ \E e \in Entries : Purge(a, e)
        PROVE  BaseInv'
    BY <1>2, RestoreBeginBase, RestoreRenameBase, RestoreUnmarkBase, RestoreCopyBeginBase,
       RestoreCopyBase, RestoreFailsBase, RestoreVerifyBase, RestoreClearBase, PurgeBase DEF Restore
  <1>3. CASE Expire
    BY <1>3, ExpireListBase, ExpireBase DEF Expire
  <1>4. CASE \E f \in Files : Write(f)
    BY <1>4, WriteBase
  <1>5. Operators \subseteq Actors
    BY DEF Actors
  <1>6. QED
    BY <1>1, <1>2, <1>3, <1>4, <1>5, RestBase DEF Next

(* The types: everywhere in the code an actor finds an entry it has made or has
   read the manifest of, and no name is given twice. *)
THEOREM TypeCorrect == Spec => []TypeOK
  <1>1. BaseInv => TypeOK
    <2>1. ASSUME BaseInv, NEW a \in Actors
          PROVE  act[a].pc \in Phases /\ act[a].e \in 0 .. next - 1 /\ act[a].todo \subseteq Files
      BY <2>1, StashAssumption DEF BaseInv, ActInv, Acts
    <2>2. QED
      BY <2>1 DEF TypeOK, BaseInv, DiskInv, GhostInv, ActInv
  <1>2. QED
    BY <1>1, InitBase, NextBase, PTL DEF Spec

-----------------------------------------------------------------------------
(* A manifest stands for a whole entry.  Of one actor: *)
WholeFor(a) ==
    /\ act[a].pc = "moving" => act[a].count = Cardinality(act[a].todo)
    /\ act[a].pc \in {"removing", "publishing"} /\ act[a].e \notin spent =>
          Cardinality(entry[act[a].e].files) >= act[a].count
    /\ act[a].pc = "publishing" /\ act[a].e \notin spent =>
          ~entry[act[a].e].manifest.there /\ \A b \in Actors \ {a} : act[b].e # act[a].e

WholeIn(e) == entry[e].manifest.there => Cardinality(entry[e].files) >= entry[e].manifest.files

LEMMA WholeParts ==
  WholeInv <=> (\A a \in Actors : WholeFor(a)) /\ (\A e \in Entries \ spent : WholeIn(e))
  BY Zenon DEF WholeInv, WholeFor, WholeIn, ManifestMeansWhole

(* One of A acts, the others stay, and what the others publish is left alone. *)
StaysWhole(b) ==
    /\ act'[b].pc = "moving" => /\ act[b].pc = "moving" /\ act'[b].count = act[b].count
                                /\ act'[b].todo = act[b].todo
    /\ act'[b].pc \in {"removing", "publishing"} =>
          act'[b].pc = act[b].pc /\ act'[b].e = act[b].e /\ act'[b].count = act[b].count

LEMMA WholeStep ==
  ASSUME BaseInv, WholeInv, spent \subseteq spent', NEW A \in SUBSET Actors,
         \A b \in Actors \ A : StaysWhole(b),
         \A b \in A : WholeFor(b)',
         \A b \in Actors : \/ act'[b].e = act[b].e \/ act'[b].e = 0 \/ act'[b].e >= next
                           \/ entry[act'[b].e].manifest.there,
         \A e \in Entries \ spent' : \/ entry'[e] = entry[e]
                                     \/ /\ \A b \in Actors \ A : act'[b].pc \in {"removing", "publishing"}
                                                                  => act[b].e # e
                                        /\ WholeIn(e)'
  PROVE  WholeInv'
  <1>1. /\ \A b \in Actors : WholeFor(b)
        /\ \A e \in Entries \ spent : WholeIn(e)
    BY WholeParts
  <1>2. ASSUME NEW e \in Entries \ spent' PROVE WholeIn(e)'
    <2>1. CASE entry'[e] = entry[e]
      BY <1>1, <2>1 DEF WholeIn
    <2>2. QED
      BY <2>1
  <1>3. ASSUME NEW b \in Actors \ A PROVE WholeFor(b)'
    <2>1. StaysWhole(b) /\ WholeFor(b)
      BY <1>1
    <2>2. ASSUME act'[b].pc = "moving" PROVE act'[b].count = Cardinality(act'[b].todo)
      BY <2>1, <2>2 DEF WholeFor, StaysWhole
    <2>3. ASSUME act'[b].pc \in {"removing", "publishing"}, act'[b].e \notin spent'
          PROVE  /\ Cardinality(entry'[act'[b].e].files) >= act'[b].count
                 /\ act'[b].pc = "publishing" =>
                      ~entry'[act'[b].e].manifest.there /\ \A c \in Actors \ {b} : act'[c].e # act'[b].e
      <3>1. act'[b].pc = act[b].pc /\ act'[b].e = act[b].e /\ act'[b].count = act[b].count
            /\ act[b].e \notin spent /\ act[b].pc # "idle"
        BY <2>1, <2>3 DEF StaysWhole
      <3>2. act[b].e \in Entries /\ act[b].e < next /\ act[b].e # 0
        BY <3>1, OwnEntry DEF BaseInv, ActInv
      <3>3. entry'[act[b].e] = entry[act[b].e]
        BY <2>3, <3>1, <3>2
      <3>4. ASSUME act'[b].pc = "publishing", NEW c \in Actors \ {b}
            PROVE  act'[c].e # act'[b].e
        <4>1. act[c].e # act[b].e /\ ~entry[act[b].e].manifest.there
          BY <2>1, <3>1, <3>4 DEF WholeFor
        <4>2. \/ act'[c].e = act[c].e \/ act'[c].e = 0 \/ act'[c].e >= next
              \/ entry[act'[c].e].manifest.there
          OBVIOUS
        <4>3. CASE act'[c].e >= next
          <5>1. act[b].e \in Nat /\ next \in Nat
            BY <3>2, StashAssumption DEF BaseInv, ActInv, Entries
          <5>2. QED
            BY <3>1, <3>2, <4>3, <5>1
        <4>4. QED
          BY <3>1, <3>2, <4>1, <4>2, <4>3
      <3>5. Cardinality(entry'[act'[b].e].files) >= act'[b].count
        BY <2>1, <2>3, <3>1, <3>3, Zenon DEF WholeFor
      <3>6. act'[b].pc = "publishing" => ~entry'[act'[b].e].manifest.there
        BY <2>1, <2>3, <3>1, <3>3, Zenon DEF WholeFor
      <3>7. QED
        BY <3>4, <3>5, <3>6
    <2>4. QED
      BY <2>2, <2>3 DEF WholeFor
  <1>4. \A b \in Actors : WholeFor(b)'
    BY <1>3
  <1>5. QED
    BY <1>2, <1>4, Zenon DEF WholeInv, WholeFor, WholeIn, ManifestMeansWhole

LEMMA WholeByOne ==
  ASSUME BaseInv, WholeInv, spent \subseteq spent', NEW a \in Actors, WholeFor(a)',
         \A b \in Actors \ {a} : act'[b] = act[b],
         \/ act'[a].e = act[a].e \/ act'[a].e = 0 \/ act'[a].e >= next
         \/ entry[act'[a].e].manifest.there,
         NEW e \in Entries, \A f \in Entries \ {e} : entry'[f] = entry[f],
         \/ entry'[e] = entry[e]
         \/ e \in spent'
         \/ /\ \A b \in Actors \ {a} : act[b].pc \in {"removing", "publishing"} => act[b].e # e
            /\ WholeIn(e)'
  PROVE  WholeInv'
  <1>1. \A b \in Actors \ {a} : StaysWhole(b)
    BY DEF StaysWhole
  <1>2. \A b \in Actors : \/ act'[b].e = act[b].e \/ act'[b].e = 0 \/ act'[b].e >= next
                          \/ entry[act'[b].e].manifest.there
    OBVIOUS
  <1>3. ASSUME NEW f \in Entries \ spent'
        PROVE  \/ entry'[f] = entry[f]
               \/ /\ \A b \in Actors \ {a} : act'[b].pc \in {"removing", "publishing"} => act[b].e # f
                  /\ WholeIn(f)'
    <2>1. CASE f = e
      BY <2>1 DEF WholeIn
    <2>2. QED
      BY <2>1
  <1> DEFINE A == {a}
  <1>4. A \in SUBSET Actors /\ (\A b \in A : WholeFor(b)')
    OBVIOUS
  <1> HIDE DEF A
  <1>5. /\ \A b \in Actors \ A : StaysWhole(b)
        /\ \A f \in Entries \ spent' :
              \/ entry'[f] = entry[f]
              \/ /\ \A b \in Actors \ A : act'[b].pc \in {"removing", "publishing"} => act[b].e # f
                 /\ WholeIn(f)'
    BY <1>1, <1>3 DEF A
  <1>6. QED
    BY <1>2, <1>4, <1>5, WholeStep

LEMMA WholeActs ==
  ASSUME BaseInv, WholeInv, UNCHANGED <<entry, spent>>, NEW a \in Actors, WholeFor(a)',
         \A b \in Actors \ {a} : act'[b] = act[b],
         \/ act'[a].e = act[a].e \/ act'[a].e = 0 \/ act'[a].e >= next
         \/ entry[act'[a].e].manifest.there
  PROVE  WholeInv'
  <1>1. \A b \in Actors \ {a} : StaysWhole(b)
    BY DEF StaysWhole
  <1>2. \A b \in Actors : \/ act'[b].e = act[b].e \/ act'[b].e = 0 \/ act'[b].e >= next
                          \/ entry[act'[b].e].manifest.there
    OBVIOUS
  <1> DEFINE A == {a}
  <1>3. A \in SUBSET Actors /\ (\A b \in A : WholeFor(b)') /\ \A b \in Actors \ A : StaysWhole(b)
    BY <1>1
  <1> HIDE DEF A
  <1>4. QED
    BY <1>2, <1>3, WholeStep

LEMMA WholeEntries ==
  ASSUME BaseInv, WholeInv, UNCHANGED act, spent \subseteq spent',
         \A e \in Entries \ spent' : entry'[e] = entry[e]
  PROVE  WholeInv'
  <1>1. \A b \in Actors : StaysWhole(b)
    BY DEF StaysWhole
  <1>2. {} \in SUBSET Actors
    OBVIOUS
  <1>3. QED
    BY <1>1, <1>2, WholeStep

(* Whoever moves nothing publishes nothing. *)
LEMMA NotMoving ==
  ASSUME NEW a, act'[a].pc \notin {"moving", "removing", "publishing"}
  PROVE  WholeFor(a)'
  BY DEF WholeFor

LEMMA MoveBeginWhole ==
  ASSUME BaseInv, WholeInv, NEW a \in Actors, MoveBegin(a)
  PROVE  WholeInv'
  <1>1. /\ act'[a].pc = "moving" /\ act'[a].e = next /\ \A b \in Actors \ {a} : act'[b] = act[b]
        /\ act'[a].count = Cardinality(origin.files) /\ act'[a].todo = origin.files
    BY MoveBeginIs
  <1>2. UNCHANGED <<entry, spent>> /\ next \in Entries
    BY DEF MoveBegin, ghosts
  <1>3. WholeFor(a)'
    BY <1>1 DEF WholeFor
  <1>4. act'[a].e >= next
    BY <1>1, <1>2, StashAssumption DEF Entries
  <1>5. QED
    BY <1>1, <1>2, <1>3, <1>4, WholeActs

LEMMA MoveRenameWhole ==
  ASSUME BaseInv, WholeInv, NEW a \in Actors, MoveRename(a)
  PROVE  WholeInv'
  <1>0. PICK e \in Entries : e = act[a].e
    BY OwnEntry DEF MoveRename
  <1>1. act[a].pc = "moving" /\ SetEntry(e, origin) /\ Goto(a, "publishing")
        /\ spent' = IF act[a].todo \subseteq origin.files /\ ~origin.manifest.there
                    THEN spent ELSE spent \cup {e}
    BY <1>0 DEF MoveRename
  <1>2. act \in [Actors -> Acts] /\ "publishing" \in Phases /\ origin \in Trees
        /\ act[a] \in Acts
    BY <1>1 DEF Phases, BaseInv, ActInv, DiskInv
  <1>3. /\ act'[a].pc = "publishing" /\ act'[a].e = e /\ act'[a].count = act[a].count
        /\ \A b \in Actors \ {a} : act'[b] = act[b]
    BY <1>0, <1>1, <1>2, GotoIs
  <1>4. entry'[e] = origin /\ \A f \in Entries \ {e} : entry'[f] = entry[f]
    BY <1>1, <1>2, EntryIs DEF BaseInv, DiskInv
  <1>5. ASSUME e \notin spent'
        PROVE  Cardinality(origin.files) >= act[a].count /\ ~origin.manifest.there
    <2>1. act[a].todo \subseteq origin.files /\ ~origin.manifest.there
      BY <1>1, <1>5
    <2>2. act[a].count = Cardinality(act[a].todo)
      BY <1>1 DEF WholeInv
    <2>3. origin.files \in SUBSET Files
      BY <1>2, TreeFields
    <2>4. QED
      BY <2>1, <2>2, <2>3, MoreFiles, Counted, NoFiles
  <1>6. \A b \in Actors \ {a} : act[b].e # e
    BY <1>0, <1>1 DEF BaseInv, PlaceInv, Unplaced
  <1>7. WholeFor(a)' /\ (e \in spent' \/ WholeIn(e)')
    BY <1>3, <1>4, <1>5, <1>6 DEF WholeFor, WholeIn
  <1>8. spent \subseteq spent'
    BY <1>1
  <1>9. act'[a].e = act[a].e
    BY <1>0, <1>3
  <1>10. QED
    BY <1>3, <1>4, <1>6, <1>7, <1>8, <1>9, WholeByOne

(* A step of one that works at an entry that is not complete. *)
LEMMA UnplacedWhole ==
  ASSUME BaseInv, WholeInv, NEW a \in Actors, act[a].pc \in Unplaced, UNCHANGED spent, WholeFor(a)',
         \A b \in Actors \ {a} : act'[b] = act[b], act'[a].e = act[a].e \/ act'[a].e = 0,
         NEW n \in Trees, SetEntry(act[a].e, n), ~n.manifest.there
  PROVE  WholeInv'
  <1>0. PICK e \in Entries : e = act[a].e
    BY OwnEntry DEF Unplaced
  <1>1. \A b \in Actors \ {a} : act[b].e # e
    BY <1>0 DEF BaseInv, PlaceInv, Unplaced
  <1>2. entry'[e] = n /\ \A f \in Entries \ {e} : entry'[f] = entry[f]
    BY <1>0, EntryIs DEF BaseInv, DiskInv
  <1>3. WholeIn(e)'
    BY <1>2 DEF WholeIn
  <1>4. QED
    BY <1>0, <1>1, <1>2, <1>3, WholeByOne

LEMMA MoveCopyBeginWhole ==
  ASSUME BaseInv, WholeInv, NEW a \in Actors, MoveCopyBegin(a)
  PROVE  WholeInv'
  <1>1. act[a].pc = "moving" /\ SetEntry(act[a].e, Tree({}, NoManifest)) /\ UNCHANGED spent
        /\ act' = [act EXCEPT ![a].pc = "copying", ![a].todo = origin.files]
    BY DEF MoveCopyBegin, ghosts
  <1>2. origin.files \in SUBSET Files /\ act \in [Actors -> Acts] /\ "copying" \in Phases
    BY TreeFields DEF Phases, BaseInv, ActInv, DiskInv
  <1>3. /\ act'[a].pc = "copying" /\ act'[a].e = act[a].e
        /\ \A b \in Actors \ {a} : act'[b] = act[b]
    BY <1>1, <1>2, GotoTodo
  <1>4. Tree({}, NoManifest) \in Trees /\ ~Tree({}, NoManifest).manifest.there
    BY TreeIs, NoManifestIs
  <1>5. WholeFor(a)'
    BY <1>3, NotMoving
  <1>6. QED
    BY <1>1, <1>3, <1>4, <1>5, UnplacedWhole DEF Unplaced

LEMMA MoveCopyWhole ==
  ASSUME BaseInv, WholeInv, NEW a \in Actors, MoveCopy(a)
  PROVE  WholeInv'
  <1> DEFINE e == act[a].e
  <1>1. act[a].pc = "copying" /\ UNCHANGED spent
    BY DEF MoveCopy, ghosts
  <1>2. PICK f \in origin.files :
           LET n == [entry[e] EXCEPT !.files = @ \cup {f}, !.there = TRUE] IN
           /\ act' = [act EXCEPT ![a].todo = @ \ {f}]
           /\ SetEntry(e, n)
    BY MoveCopyIs
  <1> DEFINE n == [entry[e] EXCEPT !.files = @ \cup {f}, !.there = TRUE]
  <1>3. act \in [Actors -> Acts] /\ entry[e] \in Trees /\ f \in Files /\ ~entry[e].manifest.there
    BY <1>1, <1>2, OwnEntry, TreeFields DEF BaseInv, ActInv, DiskInv, PlaceInv, Unplaced
  <1>4. n \in Trees /\ ~n.manifest.there
    BY <1>3, FileAdded
  <1>5. SetEntry(e, n)
    BY <1>2
  <1> HIDE DEF n
  <1>6. /\ act'[a].pc = "copying" /\ act'[a].e = act[a].e
        /\ \A b \in Actors \ {a} : act'[b] = act[b]
    BY <1>1, <1>2, <1>3, TodoLess
  <1>7. WholeFor(a)'
    BY <1>6, NotMoving
  <1>8. QED
    BY <1>1, <1>4, <1>5, <1>6, <1>7, UnplacedWhole DEF Unplaced

LEMMA MoveFailsWhole ==
  ASSUME BaseInv, WholeInv, NEW a \in Actors, MoveFails(a)
  PROVE  WholeInv'
  <1>1. act[a].pc \in Unplaced /\ act[a].pc # "idle" /\ Ends(a) /\ UNCHANGED spent
    BY DEF MoveFails, ghosts, Unplaced
  <1>2. PICK n \in Remains(entry[act[a].e]) : SetEntry(act[a].e, n)
    BY DEF MoveFails
  <1>3. entry[act[a].e] \in Trees /\ ~entry[act[a].e].manifest.there
    BY <1>1, OwnEntry DEF BaseInv, DiskInv, PlaceInv
  <1>4. n \in Trees /\ ~n.manifest.there
    BY <1>3, RemainsTrees, NoManifestIs
  <1>5. act'[a].pc = "idle" /\ act'[a].e = 0 /\ \A b \in Actors \ {a} : act'[b] = act[b]
    BY <1>1, EndsIs DEF BaseInv, ActInv
  <1>6. WholeFor(a)'
    BY <1>5, NotMoving
  <1>7. QED
    BY <1>1, <1>2, <1>4, <1>5, <1>6, UnplacedWhole

LEMMA MoveVerifyWhole ==
  ASSUME BaseInv, WholeInv, NEW a \in Actors, MoveVerify(a)
  PROVE  WholeInv'
  <1>1. /\ Goto(a, "removing") /\ "removing" \in Phases /\ UNCHANGED <<entry, spent>>
        /\ Cardinality(entry[act[a].e].files) = act[a].count /\ act \in [Actors -> Acts]
        /\ act[a] \in Acts
    BY DEF MoveVerify, disk, ghosts, Phases, BaseInv, ActInv
  <1>2. /\ act'[a].pc = "removing" /\ act'[a].e = act[a].e /\ act'[a].count = act[a].count
        /\ \A b \in Actors \ {a} : act'[b] = act[b]
    BY <1>1, GotoIs
  <1>3. act[a].count \in Nat
    BY <1>1, ActFields, NoFiles
  <1>4. WholeFor(a)'
    BY <1>1, <1>2, <1>3 DEF WholeFor
  <1>5. QED
    BY <1>1, <1>2, <1>4, WholeActs

LEMMA MoveRemoveWhole ==
  ASSUME BaseInv, WholeInv, NEW a \in Actors, MoveRemove(a)
  PROVE  WholeInv'
  <1>1. act[a].pc = "removing" /\ (Goto(a, "publishing") \/ Ends(a)) /\ "publishing" \in Phases
        /\ UNCHANGED <<entry, spent>> /\ act \in [Actors -> Acts]
    BY DEF MoveRemove, ghosts, Phases, BaseInv, ActInv
  <1>2. CASE Ends(a)
    <2>1. act'[a].pc = "idle" /\ act'[a].e = 0 /\ \A b \in Actors \ {a} : act'[b] = act[b]
      BY <1>1, <1>2, EndsIs
    <2>2. QED
      BY <1>1, <2>1, NotMoving, WholeActs
  <1>3. CASE Goto(a, "publishing")
    <2>1. /\ act'[a].pc = "publishing" /\ act'[a].e = act[a].e /\ act'[a].count = act[a].count
          /\ \A b \in Actors \ {a} : act'[b] = act[b]
      BY <1>1, <1>3, GotoIs
    <2>2. ~entry[act[a].e].manifest.there /\ \A b \in Actors \ {a} : act[b].e # act[a].e
      BY <1>1 DEF BaseInv, PlaceInv, Unplaced
    <2>3. act[a].e \notin spent => Cardinality(entry[act[a].e].files) >= act[a].count
      BY <1>1 DEF WholeInv
    <2>4. WholeFor(a)'
      BY <1>1, <2>1, <2>2, <2>3 DEF WholeFor
    <2>5. QED
      BY <1>1, <2>1, <2>4, WholeActs
  <1>4. QED
    BY <1>1, <1>2, <1>3

(* Nobody else publishes or fills the entry of a publisher, or an entry that is
   restored. *)
LEMMA PublishersEntry ==
  ASSUME BaseInv, WholeInv, NEW a \in Actors, act[a].pc # "idle", act[a].e \notin spent
  PROVE  \A b \in Actors \ {a} : act[b].pc \in {"removing", "publishing"} => act[b].e # act[a].e
  BY DEF BaseInv, PlaceInv, Unplaced, WholeInv

LEMMA MovePublishWhole ==
  ASSUME BaseInv, WholeInv, NEW a \in Actors, MovePublish(a)
  PROVE  WholeInv'
  <1>0. PICK e \in Entries : e = act[a].e
    BY OwnEntry DEF MovePublish
  <1> DEFINE n == [entry[e] EXCEPT !.manifest = Manifest(act[a].auto, act[a].count)]
  <1>1. act[a].pc = "publishing" /\ (Goto(a, "replacing") \/ Ends(a)) /\ "replacing" \in Phases
        /\ UNCHANGED spent
    BY DEF MovePublish, ghosts, Phases
  <1>2. entry[e] \in Trees /\ SetEntry(e, n) /\ act[a] \in Acts
        /\ Manifest(act[a].auto, act[a].count) \in Manifests
    BY <1>0, MovePublishIs DEF BaseInv, ActInv
  <1>3. n \in Trees /\ n.files = entry[e].files /\ n.manifest = Manifest(act[a].auto, act[a].count)
    BY <1>2, ManifestAdded
  <1> HIDE DEF n
  <1>4. n.manifest.files = act[a].count
    BY <1>2, <1>3, ActFields, ManifestIs
  <1>5. entry'[e] = n /\ \A f \in Entries \ {e} : entry'[f] = entry[f]
    BY <1>2, <1>3, EntryIs DEF BaseInv, DiskInv
  <1>6. e \notin spent => Cardinality(entry[e].files) >= act[a].count
    BY <1>0, <1>1 DEF WholeInv
  <1>7. e \in spent' \/ WholeIn(e)'
    BY <1>1, <1>3, <1>4, <1>5, <1>6 DEF WholeIn
  <1>8. /\ \A b \in Actors \ {a} : act'[b] = act[b]
        /\ act'[a].pc \in {"idle", "replacing"} /\ (act'[a].e = act[a].e \/ act'[a].e = 0)
    BY <1>1, GotoIs, EndsIs DEF BaseInv, ActInv
  <1>9. WholeFor(a)'
    BY <1>8, NotMoving
  <1>10. e \in spent' \/ \A b \in Actors \ {a} : act[b].pc \in {"removing", "publishing"} => act[b].e # e
    BY <1>0, <1>1, PublishersEntry
  <1>11. QED
    BY <1>1, <1>5, <1>7, <1>8, <1>9, <1>10, WholeByOne

(* The entry is renamed away. *)
LEMMA EntryGoesWhole ==
  ASSUME BaseInv, WholeInv, NEW a \in Actors, act[a].pc # "idle", SetEntry(act[a].e, Nothing),
         UNCHANGED spent, \A b \in Actors \ {a} : act'[b] = act[b],
         act'[a].pc \notin {"moving", "removing", "publishing"},
         act'[a].e = act[a].e \/ act'[a].e = 0
  PROVE  WholeInv'
  <1>1. PICK e \in Entries : e = act[a].e
    BY OwnEntry
  <1>2. entry'[e] = Nothing /\ \A f \in Entries \ {e} : entry'[f] = entry[f]
    BY <1>1, NothingIs, EntryIs DEF BaseInv, DiskInv
  <1>3. WholeFor(a)' /\ WholeIn(e)'
    BY <1>2, NothingIs, NoManifestIs, NotMoving DEF WholeIn
  <1>4. e \in spent' \/ \A b \in Actors \ {a} : act[b].pc \in {"removing", "publishing"} => act[b].e # e
    BY <1>1, PublishersEntry
  <1>5. QED
    BY <1>2, <1>3, <1>4, WholeByOne

(* An actor ends or goes on without touching an entry. *)
LEMMA QuietWhole ==
  ASSUME BaseInv, WholeInv, NEW a \in Actors, UNCHANGED <<entry, spent>>,
         \A b \in Actors \ {a} : act'[b] = act[b],
         act'[a].pc \notin {"moving", "removing", "publishing"},
         \/ act'[a].e = act[a].e \/ act'[a].e = 0
         \/ entry[act'[a].e].manifest.there
  PROVE  WholeInv'
  BY NotMoving, WholeActs

LEMMA EndsWhole ==
  ASSUME BaseInv, WholeInv, NEW a \in Actors, Ends(a), UNCHANGED <<entry, spent>>
  PROVE  WholeInv'
  BY EndsIs, QuietWhole DEF BaseInv, ActInv

LEMMA MovePublishFailsWhole ==
  ASSUME BaseInv, WholeInv, NEW a \in Actors, MovePublishFails(a)
  PROVE  WholeInv'
  <1>1. act[a].pc = "publishing" /\ Ends(a) /\ UNCHANGED spent
        /\ (UNCHANGED entry \/ SetEntry(act[a].e, Nothing))
    BY DEF MovePublishFails
  <1>2. act'[a].pc = "idle" /\ act'[a].e = 0 /\ \A b \in Actors \ {a} : act'[b] = act[b]
    BY <1>1, EndsIs DEF BaseInv, ActInv
  <1>3. QED
    BY <1>1, <1>2, EndsWhole, EntryGoesWhole

LEMMA MoveReplaceWhole ==
  ASSUME BaseInv, WholeInv, NEW a \in Actors, MoveReplace(a)
  PROVE  WholeInv'
  <1>1. PICK e \in Entries : /\ \E n \in Remains(entry[e]) : SetEntry(e, n)
                             /\ spent' = spent \cup {e}
    BY DEF MoveReplace
  <1>2. \A f \in Entries \ {e} : entry'[f] = entry[f]
    BY <1>1 DEF SetEntry, BaseInv, DiskInv
  <1>3. UNCHANGED act
    BY DEF MoveReplace
  <1>4. QED
    BY <1>1, <1>2, <1>3, WholeEntries

LEMMA RestoreBeginWhole ==
  ASSUME BaseInv, WholeInv, NEW a \in Actors, NEW e \in Entries, RestoreBegin(a, e)
  PROVE  WholeInv'
  <1>1. entry[e].manifest.there /\ UNCHANGED <<entry, spent>>
    BY DEF RestoreBegin, disk, ghosts
  <1>2. QED
    BY <1>1, RestoreBeginIs, QuietWhole

LEMMA RestoreRenameWhole ==
  ASSUME BaseInv, WholeInv, NEW a \in Actors, RestoreRename(a)
  PROVE  WholeInv'
  <1>1. act[a].pc = "restoring" /\ Goto(a, "home") /\ "home" \in Phases /\ UNCHANGED spent
        /\ SetEntry(act[a].e, Nothing)
    BY DEF RestoreRename, Phases
  <1>2. act'[a].pc = "home" /\ act'[a].e = act[a].e /\ \A b \in Actors \ {a} : act'[b] = act[b]
    BY <1>1, GotoIs DEF BaseInv, ActInv
  <1>3. QED
    BY <1>1, <1>2, EntryGoesWhole

LEMMA RestoreCopyBeginWhole ==
  ASSUME BaseInv, WholeInv, NEW a \in Actors, RestoreCopyBegin(a)
  PROVE  WholeInv'
  <1> DEFINE F == entry[act[a].e].files
  <1>1. act' = [act EXCEPT ![a].pc = "back", ![a].todo = F] /\ "back" \in Phases
        /\ UNCHANGED <<entry, spent>> /\ act \in [Actors -> Acts]
    BY DEF RestoreCopyBegin, ghosts, Phases, BaseInv, ActInv
  <1>2. F \in SUBSET Files
    BY OwnEntry, TreeFields DEF RestoreCopyBegin, BaseInv, DiskInv
  <1> HIDE DEF F
  <1>3. act'[a].pc = "back" /\ act'[a].e = act[a].e /\ \A b \in Actors \ {a} : act'[b] = act[b]
    BY <1>1, <1>2, GotoTodo
  <1>4. QED
    BY <1>1, <1>3, QuietWhole

LEMMA RestoreCopyWhole ==
  ASSUME BaseInv, WholeInv, NEW a \in Actors, RestoreCopy(a)
  PROVE  WholeInv'
  <1>1. act[a].pc = "back" /\ UNCHANGED <<entry, spent>> /\ act \in [Actors -> Acts]
    BY DEF RestoreCopy, BaseInv, ActInv
  <1>2. PICK f : act' = [act EXCEPT ![a].todo = @ \ {f}]
    BY DEF RestoreCopy
  <1>3. act'[a].pc = "back" /\ act'[a].e = act[a].e /\ \A b \in Actors \ {a} : act'[b] = act[b]
    BY <1>1, <1>2, TodoLess
  <1>4. QED
    BY <1>1, <1>3, QuietWhole

LEMMA RestoreEndsWhole ==
  ASSUME BaseInv, WholeInv, NEW a \in Actors, RestoreUnmark(a) \/ RestoreFails(a) \/ RestoreVerify(a)
  PROVE  WholeInv'
  <1>1. (Ends(a) \/ Goto(a, "clearing")) /\ UNCHANGED <<entry, spent>> /\ "clearing" \in Phases
    BY DEF RestoreUnmark, RestoreFails, RestoreVerify, ghosts, Phases
  <1>2. CASE Goto(a, "clearing")
    <2>1. act'[a].pc = "clearing" /\ act'[a].e = act[a].e /\ \A b \in Actors \ {a} : act'[b] = act[b]
      BY <1>1, <1>2, GotoIs DEF BaseInv, ActInv
    <2>2. QED
      BY <1>1, <2>1, QuietWhole
  <1>3. QED
    BY <1>1, <1>2, EndsWhole

LEMMA RestoreClearWhole ==
  ASSUME BaseInv, WholeInv, NEW a \in Actors, RestoreClear(a)
  PROVE  WholeInv'
  <1>0. PICK e \in Entries : e = act[a].e
    BY OwnEntry DEF RestoreClear
  <1>1. Ends(a) /\ spent' = spent \cup {e} /\ \E n : SetEntry(e, n)
    BY <1>0 DEF RestoreClear
  <1>2. \A f \in Entries \ {e} : entry'[f] = entry[f]
    BY <1>1 DEF SetEntry, BaseInv, DiskInv
  <1>3. act'[a].pc = "idle" /\ act'[a].e = 0 /\ \A b \in Actors \ {a} : act'[b] = act[b]
    BY <1>1, EndsIs DEF BaseInv, ActInv
  <1>4. WholeFor(a)'
    BY <1>3, NotMoving
  <1>5. QED
    BY <1>1, <1>2, <1>3, <1>4, WholeByOne

LEMMA PurgeWhole ==
  ASSUME BaseInv, WholeInv, NEW a \in Actors, NEW e \in Entries, Purge(a, e)
  PROVE  WholeInv'
  <1>1. UNCHANGED act /\ spent' = spent \cup {e} /\ \E n : SetEntry(e, n)
    BY DEF Purge
  <1>2. \A f \in Entries \ {e} : entry'[f] = entry[f]
    BY <1>1 DEF SetEntry, BaseInv, DiskInv
  <1>3. QED
    BY <1>1, <1>2, WholeEntries

LEMMA ExpireWhole ==
  ASSUME BaseInv, WholeInv, ExpireOne \/ ExpireFails
  PROVE  WholeInv'
  <1>1. PICK e \in Entries :
          /\ UNCHANGED act
          /\ \E n : /\ SetEntry(e, n)
                    /\ n # entry[e] => spent' = spent \cup {e}
                    /\ spent' \in {spent, spent \cup {e}}
    BY ExpireIs
  <1>2. PICK n : /\ SetEntry(e, n)
                 /\ n # entry[e] => spent' = spent \cup {e}
                 /\ spent' \in {spent, spent \cup {e}}
    BY <1>1
  <1>3. entry'[e] = n /\ \A f \in Entries \ {e} : entry'[f] = entry[f]
    BY <1>2 DEF SetEntry, BaseInv, DiskInv
  <1>4. QED
    BY <1>1, <1>2, <1>3, WholeEntries

LEMMA RestWhole ==
  ASSUME BaseInv, WholeInv,
         \/ ExpireList \/ UNCHANGED vars
         \/ \E f \in Files : Write(f)
         \/ \E e \in Entries : Ages(e)
  PROVE  WholeInv'
  <1>1. UNCHANGED <<entry, act, spent>>
    BY DEF ExpireList, Write, Ages, vars, disk, ghosts
  <1>2. QED
    BY <1>1, WholeEntries

LEMMA InitWhole ==
  ASSUME Init
  PROVE  WholeInv
  <1>1. /\ \A e \in Entries : entry[e] = Nothing
        /\ \A a \in Actors : act[a].pc = "idle"
    BY IdleIs DEF Init
  <1>2. QED
    BY <1>1, NothingIs, NoManifestIs DEF WholeInv, ManifestMeansWhole

LEMMA NextWhole ==
  ASSUME BaseInv, WholeInv, [Next]_vars
  PROVE  WholeInv'
  <1>1. ASSUME NEW a \in Actors, MoveEnds(a) \/ Die(a) PROVE WholeInv'
    <2>1. Ends(a) /\ UNCHANGED <<entry, spent>>
      BY <1>1 DEF MoveEnds, Die, disk, ghosts
    <2>2. QED
      BY <2>1, EndsWhole
  <1>2. ASSUME NEW a \in Actors, Move(a) \/ Die(a)
        PROVE  WholeInv'
    BY <1>1, <1>2, MoveBeginWhole, MoveRenameWhole, MoveCopyBeginWhole, MoveCopyWhole,
       MoveFailsWhole, MoveVerifyWhole, MoveRemoveWhole, MovePublishWhole, MovePublishFailsWhole,
       MoveReplaceWhole DEF Move
  <1>3. ASSUME NEW a \in Actors, Restore(a) \/ \E e \in Entries : Purge(a, e)
        PROVE  WholeInv'
    BY <1>3, RestoreBeginWhole, RestoreRenameWhole, RestoreCopyBeginWhole, RestoreCopyWhole,
       RestoreEndsWhole, RestoreClearWhole, PurgeWhole DEF Restore
  <1>4. Operators \subseteq Actors
    BY DEF Actors
  <1>5. QED
    BY <1>2, <1>3, <1>4, ExpireWhole, RestWhole DEF Next, Expire

(* A manifest tells the truth, for any number of cleanups and operators: it is
   published by one that has put as much into the entry as it counts, and whoever
   takes anything out of an entry takes the entry. *)
THEOREM ManifestIsWhole == Spec => []ManifestMeansWhole
  <1>1. Init => BaseInv /\ WholeInv
    BY InitBase, InitWhole
  <1>2. BaseInv /\ WholeInv /\ [Next]_vars => (BaseInv /\ WholeInv)'
    BY NextBase, NextWhole
  <1>3. BaseInv /\ WholeInv => ManifestMeansWhole
    BY DEF WholeInv
  <1>4. QED
    BY <1>1, <1>2, <1>3, PTL DEF Spec

-----------------------------------------------------------------------------
(* Nothing is lost. *)
LEMMA ThreeActors ==
  ASSUME OneEach, NEW a \in Actors, NEW b \in Actors, NEW c \in Actors, a # b, b # c, a # c
  PROVE  FALSE
  BY DEF OneEach, Actors

LEMMA OneOperator ==
  ASSUME OneEach, KeptInv, NEW a \in Actors, NEW b \in Actors, a # b,
         act[a].pc \in Restorers \/ a \in Operators
  PROVE  act[b].pc \notin Restorers
  BY DEF OneEach, KeptInv, OfficeFor

(* What a step may do to what an actor that does not act has in hand. *)
Unharmed(b) ==
    /\ \A f \in Owed' : f \in origin'.files /\ act[b].pc \in {"copying", "removing"} =>
          /\ f \in origin.files
          /\ f \in entry[act[b].e].files => f \in entry'[act[b].e].files
    /\ act[b].pc \in {"restoring", "back"} =>
          \A f \in Owed' : f \in entry'[act[b].e].files =>
             /\ f \in entry[act[b].e].files
             /\ entry[act[b].e].manifest.there => entry'[act[b].e].manifest.there
             /\ act[b].pc = "back" /\ Beside(f, act[b].e) => Beside(f, act[b].e)'

(* No generation becomes automatic above that of another cleanup. *)
NotNewer(a) ==
    \A x \in Entries : IsAuto(x)' =>
        \/ IsAuto(x)
        \/ x = act[a].e /\ \A c \in Cleanups \ {a} : act[c].pc \in Movers => ~ (x > act[c].e)

LEMMA NewestStep ==
  ASSUME OneEach, BaseInv, KeptInv, NEW a \in Actors, \A b \in Actors \ {a} : act'[b] = act[b],
         act'[a].pc \in Movers => act[a].pc \in Movers /\ act'[a].e = act[a].e,
         act'[a].pc = "moving" => act[a].pc = "moving",
         NotNewer(a), origin'.manifest.there => origin.manifest.there \/ act'[a].pc \notin Movers
  PROVE  \A c \in Actors : NewestFor(c)'
  <1> SUFFICES ASSUME NEW c \in Actors, c \in Cleanups, act'[c].pc \in Movers
               PROVE  /\ \A x \in Entries : x > act'[c].e => ~IsAuto(x)'
                      /\ \A b \in Actors : act'[b].pc = "moving" /\ act'[b].e > act'[c].e
                                              => ~origin'.manifest.there
    BY DEF NewestFor
  <1>1. act[c].pc \in Movers /\ act'[c].e = act[c].e /\ NewestFor(c)
    BY DEF KeptInv
  <1>2. ASSUME NEW x \in Entries, x > act[c].e PROVE ~IsAuto(x)'
    <2>1. ~IsAuto(x)
      BY <1>1, <1>2 DEF NewestFor
    <2>2. x # act[a].e \/ c # a
      <3>1. SUFFICES ASSUME c = a, x = act[a].e PROVE FALSE
        OBVIOUS
      <3>2. x \in Nat
        BY StashAssumption DEF Entries
      <3>3. QED
        BY <1>2, <3>1, <3>2
    <2>3. QED
      BY <1>1, <1>2, <2>1, <2>2 DEF NotNewer
  <1>3. ASSUME NEW b \in Actors, act'[b].pc = "moving", act'[b].e > act[c].e
        PROVE  ~origin'.manifest.there
    <2>1. act[b].pc = "moving" /\ act'[b].e = act[b].e
      BY <1>3 DEF Movers
    <2>2. ~origin.manifest.there
      BY <1>1, <1>3, <2>1 DEF NewestFor
    <2>3. CASE act'[a].pc \in Movers
      BY <2>2, <2>3
    <2>4. CASE act'[a].pc \notin Movers
      <3>1. a # c /\ a # b
        BY <1>3, <2>4 DEF Movers
      <3>2. b # c
        <4>1. SUFFICES ASSUME b = c PROVE FALSE
          OBVIOUS
        <4>2. act[c].e \in Entries /\ act[c].e > act[c].e
          BY <1>1, <1>3, <2>1, <4>1, OwnEntry DEF Movers
        <4>3. QED
          BY <4>2, StashAssumption DEF Entries
      <3>3. QED
        BY <3>1, <3>2, ThreeActors
    <2>5. QED
      BY <2>3, <2>4
  <1>4. QED
    BY <1>1, <1>2, <1>3

LEMMA KeptStep ==
  ASSUME KeptInv, NEW A \in SUBSET Actors, Owed' \subseteq Owed,
         \A f \in Owed' : Beside(f, 0) => Beside(f, 0)',
         \A b \in Actors \ A : act'[b] = act[b] /\ Unharmed(b),
         \A b \in A : CopyFor(b)' /\ RestoreFor(b)' /\ OfficeFor(b)',
         \A c \in Actors : NewestFor(c)'
  PROVE  KeptInv'
  <1>1. Secure'
    BY DEF KeptInv, Secure
  <1>2. ASSUME NEW b \in Actors \ A PROVE CopyFor(b)' /\ RestoreFor(b)' /\ OfficeFor(b)'
    <2>1. act'[b] = act[b] /\ Unharmed(b) /\ CopyFor(b) /\ RestoreFor(b) /\ OfficeFor(b)
      BY DEF KeptInv
    <2>2. CopyFor(b)'
      BY <2>1 DEF CopyFor, Unharmed
    <2>3. RestoreFor(b)'
      <3>1. SUFFICES ASSUME act[b].pc \in {"restoring", "back"}, NEW f \in Owed', f \in entry'[act[b].e].files
                     PROVE  /\ entry'[act[b].e].manifest.there
                            /\ act[b].pc = "back" => f \in act[b].todo \/ Beside(f, act[b].e)'
        BY <2>1 DEF RestoreFor
      <3>2. f \in entry[act[b].e].files /\ f \in Owed
            /\ (entry[act[b].e].manifest.there => entry'[act[b].e].manifest.there)
            /\ (act[b].pc = "back" /\ Beside(f, act[b].e) => Beside(f, act[b].e)')
        BY <2>1, <3>1, Zenon DEF Unharmed
      <3>3. entry[act[b].e].manifest.there /\ (act[b].pc = "back" => f \in act[b].todo \/ Beside(f, act[b].e))
        BY <2>1, <3>1, <3>2, Zenon DEF RestoreFor
      <3>4. QED
        BY <3>2, <3>3
    <2>4. OfficeFor(b)'
      BY <2>1 DEF OfficeFor
    <2>5. QED
      BY <2>2, <2>3, <2>4
  <1>3. QED
    BY <1>1, <1>2 DEF KeptInv

(* Empty hands. *)
LEMMA NoHands ==
  ASSUME NEW a \in Actors
  PROVE  /\ act'[a].pc \notin {"copying", "removing"} => CopyFor(a)'
         /\ act'[a].pc \notin {"restoring", "back"} => RestoreFor(a)'
         /\ act'[a].pc \notin Movers \cup Restorers => OfficeFor(a)'
  BY DEF CopyFor, RestoreFor, OfficeFor, Movers

(* An actor that begins neither a copy nor a clearing dooms no entry. *)
LEMMA DoomedActs ==
  ASSUME NEW a \in Actors, \A b \in Actors \ {a} : act'[b] = act[b],
         act'[a].pc \in {"copying", "clearing"} => act[a].pc = act'[a].pc /\ act'[a].e = act[a].e,
         pass' \subseteq pass
  PROVE  \A x \in Entries : Doomed(x)' => \/ Doomed(x)
                                          \/ entry[x].manifest.there /\ ~entry'[x].manifest.there
  <1>1. ASSUME NEW x \in Entries, NEW b \in Actors, act'[b].e = x, act'[b].pc \in {"copying", "clearing"}
        PROVE  Doomed(x)
    <2>1. act[b].e = x /\ act[b].pc \in {"copying", "clearing"}
      BY <1>1
    <2>2. QED
      BY <2>1 DEF Doomed
  <1>2. QED
    BY <1>1 DEF Doomed

(* A step that leaves the files where they are. *)
LEMMA QuietUnharmed ==
  ASSUME UNCHANGED entry, Owed' \subseteq Owed, origin'.files = origin.files,
         \A x \in Entries : Doomed(x)' => Doomed(x)
  PROVE  /\ \A f \in Owed' : Beside(f, 0) => Beside(f, 0)'
         /\ \A b \in Actors : act'[b] = act[b] => Unharmed(b)
  <1>1. ASSUME NEW f, NEW e, Beside(f, e) PROVE Beside(f, e)'
    BY <1>1 DEF Beside
  <1>2. ASSUME NEW b \in Actors, act'[b] = act[b] PROVE Unharmed(b)
    <2>1. PICK e : e = act[b].e
      OBVIOUS
    <2>2. \A f : Beside(f, act[b].e) => Beside(f, act[b].e)'
      BY <1>1, <1>2, <2>1 DEF Beside
    <2>3. QED
      BY <2>2 DEF Unharmed
  <1>3. QED
    BY <1>1, <1>2

LEMMA QuietKept ==
  ASSUME OneEach, BaseInv, KeptInv, NEW a \in Actors, \A b \in Actors \ {a} : act'[b] = act[b],
         UNCHANGED entry, Owed' \subseteq Owed, origin'.files = origin.files,
         \A x \in Entries : Doomed(x)' => Doomed(x),
         CopyFor(a)', RestoreFor(a)', OfficeFor(a)', \A c \in Actors : NewestFor(c)'
  PROVE  KeptInv'
  <1> DEFINE A == {a}
  <1>1. A \in SUBSET Actors /\ \A b \in A : CopyFor(b)' /\ RestoreFor(b)' /\ OfficeFor(b)'
    OBVIOUS
  <1>2. /\ \A f \in Owed' : Beside(f, 0) => Beside(f, 0)'
        /\ \A b \in Actors : act'[b] = act[b] => Unharmed(b)
    BY QuietUnharmed
  <1>3. \A b \in Actors \ A : act'[b] = act[b] /\ Unharmed(b)
    BY <1>2
  <1> HIDE DEF A
  <1>4. QED
    BY <1>1, <1>2, <1>3, KeptStep

LEMMA SameAuto ==
  ASSUME NEW a, \A x \in Entries : entry'[x].manifest = entry[x].manifest
  PROVE  NotNewer(a)
  BY DEF NotNewer, IsAuto

LEMMA MoveBeginKept ==
  ASSUME OneEach, BaseInv, KeptInv, NEW a \in Actors, MoveBegin(a)
  PROVE  KeptInv'
  <1>1. /\ act'[a].pc = "moving" /\ act'[a].e = next /\ \A b \in Actors \ {a} : act'[b] = act[b]
        /\ act'[a].auto = (a \in Cleanups)
    BY MoveBeginIs
  <1>2. UNCHANGED <<origin, entry, pass, written, late, given>> /\ next \in Entries /\ ~origin.manifest.there
    BY DEF MoveBegin, ghosts
  <1>3. \A x \in Entries : Doomed(x)' => Doomed(x)
    BY <1>1, <1>2, DoomedActs
  <1>4. CopyFor(a)' /\ RestoreFor(a)'
    BY <1>1, NoHands
  <1>5. OfficeFor(a)'
    BY <1>1 DEF OfficeFor, Restorers
  <1>6. ASSUME NEW c \in Actors PROVE NewestFor(c)'
    <2>1. CASE c = a
      <3>1. \A x \in Entries : x > next => entry[x] = Nothing
        BY <1>2, StashAssumption DEF BaseInv, ActInv, Entries
      <3>2. \A x \in Entries : x > next => ~IsAuto(x)'
        BY <1>2, <3>1, NothingIs, NoManifestIs DEF IsAuto
      <3>3. QED
        BY <1>1, <1>2, <2>1, <3>2 DEF NewestFor
    <2>2. CASE c # a
      <3>1. NewestFor(c) /\ act'[c] = act[c]
        BY <1>1, <2>2 DEF KeptInv
      <3>2. \A x \in Entries : IsAuto(x)' <=> IsAuto(x)
        BY <1>2 DEF IsAuto
      <3>3. QED
        BY <1>2, <3>1, <3>2 DEF NewestFor
    <2>3. QED
      BY <2>1, <2>2
  <1>7. Owed' \subseteq Owed
    BY <1>2 DEF Owed
  <1>8. QED
    BY <1>1, <1>2, <1>3, <1>4, <1>5, <1>6, <1>7, QuietKept

(* An actor ends, and leaves the files where they are. *)
LEMMA EndsKept ==
  ASSUME OneEach, BaseInv, KeptInv, NEW a \in Actors, Ends(a), UNCHANGED <<entry, written, late, given>>,
         origin'.files = origin.files, origin'.manifest.there => origin.manifest.there, pass' \subseteq pass
  PROVE  KeptInv'
  <1>1. act'[a].pc = "idle" /\ act'[a].e = 0 /\ \A b \in Actors \ {a} : act'[b] = act[b]
    BY EndsIs DEF BaseInv, ActInv
  <1>2. CopyFor(a)' /\ RestoreFor(a)' /\ OfficeFor(a)'
    BY <1>1, NoHands DEF Movers, Restorers
  <1>3. \A x \in Entries : Doomed(x)' => Doomed(x)
    BY <1>1, DoomedActs
  <1>4. \A c \in Actors : NewestFor(c)'
    BY <1>1, SameAuto, NewestStep DEF Movers
  <1>5. Owed' \subseteq Owed
    BY DEF Owed
  <1>6. QED
    BY <1>1, <1>2, <1>3, <1>4, <1>5, QuietKept

LEMMA MoveVerifyKept ==
  ASSUME OneEach, BaseInv, KeptInv, NEW a \in Actors, MoveVerify(a)
  PROVE  KeptInv'
  <1>1. /\ act[a].pc = "copying" /\ act[a].todo = {} /\ Goto(a, "removing") /\ "removing" \in Phases
        /\ UNCHANGED <<origin, entry, pass, written, late, given>> /\ act \in [Actors -> Acts]
    BY DEF MoveVerify, disk, ghosts, Phases, BaseInv, ActInv
  <1>2. /\ act'[a].pc = "removing" /\ act'[a].e = act[a].e /\ act'[a].auto = act[a].auto
        /\ \A b \in Actors \ {a} : act'[b] = act[b]
    BY <1>1, GotoIs
  <1>3. Owed' = Owed
    BY <1>1 DEF Owed
  <1>4. CopyFor(a)'
    BY <1>1, <1>2, <1>3 DEF CopyFor, KeptInv
  <1>5. RestoreFor(a)'
    BY <1>2, NoHands
  <1>6. OfficeFor(a)'
    BY <1>1, <1>2 DEF OfficeFor, KeptInv, Movers, Restorers
  <1>7. \A x \in Entries : Doomed(x)' => Doomed(x)
    BY <1>1, <1>2, DoomedActs
  <1>8. \A c \in Actors : NewestFor(c)'
    BY <1>1, <1>2, SameAuto, NewestStep DEF Movers
  <1>9. QED
    BY <1>1, <1>2, <1>3, <1>4, <1>5, <1>6, <1>7, <1>8, QuietKept

(* While the origin is being removed, what is owed of it is in the entry. *)
LEMMA MoveRemoveKept ==
  ASSUME OneEach, BaseInv, KeptInv, NEW a \in Actors, MoveRemove(a)
  PROVE  KeptInv'
  <1>0. PICK e \in Entries : e = act[a].e
    BY OwnEntry DEF MoveRemove
  <1>1. /\ act[a].pc = "removing" /\ (Goto(a, "publishing") \/ Ends(a)) /\ "publishing" \in Phases
        /\ UNCHANGED <<entry, pass, written, late, given>> /\ act \in [Actors -> Acts]
        /\ origin' \in Remains(origin)
    BY DEF MoveRemove, ghosts, Phases, BaseInv, ActInv, Remains
  <1>2. origin'.files \subseteq origin.files /\ (origin'.manifest.there => origin.manifest.there)
    BY <1>1, RemainsTrees, NoManifestIs DEF BaseInv, DiskInv
  <1>3. /\ act'[a].pc \in {"publishing", "idle"} /\ \A b \in Actors \ {a} : act'[b] = act[b]
        /\ act'[a].pc = "publishing" => act'[a].e = act[a].e /\ act'[a].auto = act[a].auto
    BY <1>1, GotoIs, EndsIs
  <1>4. Owed' = Owed
    BY <1>1 DEF Owed
  <1>5. CopyFor(a)' /\ RestoreFor(a)' /\ OfficeFor(a)'
    BY <1>1, <1>3, NoHands DEF OfficeFor, KeptInv, Movers, Restorers
  <1>6. \A x \in Entries : Doomed(x)' => Doomed(x)
    BY <1>1, <1>3, DoomedActs
  <1>7. \A c \in Actors : NewestFor(c)'
    BY <1>1, <1>2, <1>3, SameAuto, NewestStep DEF Movers
  <1>8. e \notin pass /\ \A b \in Actors \ {a} : act[b].e # e
    BY <1>0, <1>1 DEF BaseInv, PlaceInv, Unplaced
  <1>9. ~Doomed(e)
    BY <1>0, <1>1, <1>8 DEF Doomed
  <1>10. ASSUME NEW x, x # e, NEW f \in Owed, Beside(f, x) PROVE Beside(f, x)'
    <2>1. CASE f \in origin.files
      <3>1. f \in entry[e].files
        BY <1>0, <1>1, <2>1 DEF KeptInv, CopyFor
      <3>2. ~Doomed(e)' /\ e \in Entries \ {x} /\ f \in entry'[e].files
        BY <1>1, <1>6, <1>9, <1>10, <3>1
      <3>3. QED
        BY <3>2 DEF Beside
    <2>2. CASE \E y \in Entries \ {x} : ~Doomed(y) /\ f \in entry[y].files
      BY <1>1, <1>6, <2>2 DEF Beside
    <2>3. QED
      BY <1>10, <2>1, <2>2 DEF Beside
  <1>11. ASSUME NEW b \in Actors \ {a} PROVE act'[b] = act[b] /\ Unharmed(b)
    <2>1. PICK x : x = act[b].e
      OBVIOUS
    <2>2. x # e /\ act'[b] = act[b]
      BY <1>3, <1>8, <2>1
    <2>3. \A f \in Owed' : Beside(f, act[b].e) => Beside(f, act[b].e)'
      BY <1>4, <1>10, <2>1, <2>2 DEF Beside
    <2>4. QED
      BY <1>1, <1>2, <2>2, <2>3 DEF Unharmed
  <1>12. \A f \in Owed' : Beside(f, 0) => Beside(f, 0)'
    BY <1>0, <1>4, <1>10, StashAssumption DEF Entries
  <1> DEFINE A == {a}
  <1>13. A \in SUBSET Actors /\ (\A b \in A : CopyFor(b)' /\ RestoreFor(b)' /\ OfficeFor(b)')
         /\ \A b \in Actors \ A : act'[b] = act[b] /\ Unharmed(b)
    BY <1>5, <1>11
  <1> HIDE DEF A
  <1>14. QED
    BY <1>4, <1>7, <1>12, <1>13, KeptStep

(* The steps of a restore. *)
LEMMA RestoreBeginKept ==
  ASSUME OneEach, BaseInv, KeptInv, NEW a \in Operators, NEW e \in Entries, RestoreBegin(a, e)
  PROVE  KeptInv'
  <1>0. a \in Actors
    BY DEF Actors
  <1>1. entry[e].manifest.there /\ UNCHANGED <<origin, entry, pass, written, late, given>>
    BY DEF RestoreBegin, disk, ghosts
  <1>2. act'[a].pc = "restoring" /\ act'[a].e = e /\ \A b \in Actors \ {a} : act'[b] = act[b]
    BY <1>0, RestoreBeginIs
  <1>3. CopyFor(a)'
    BY <1>0, <1>2, NoHands
  <1>4. RestoreFor(a)'
    BY <1>1, <1>2 DEF RestoreFor
  <1>5. OfficeFor(a)'
    BY <1>2 DEF OfficeFor, Movers
  <1>6. \A x \in Entries : Doomed(x)' => Doomed(x)
    BY <1>0, <1>1, <1>2, DoomedActs
  <1>7. \A c \in Actors : NewestFor(c)'
    BY <1>0, <1>1, <1>2, SameAuto, NewestStep DEF Movers
  <1>8. Owed' \subseteq Owed
    BY <1>1 DEF Owed
  <1>9. QED
    BY <1>0, <1>1, <1>2, <1>3, <1>4, <1>5, <1>6, <1>7, <1>8, QuietKept

LEMMA RestoreCopyBeginIs ==
  ASSUME BaseInv, NEW a \in Actors, RestoreCopyBegin(a)
  PROVE  /\ act'[a].pc = "back" /\ act'[a].e = act[a].e /\ act'[a].todo = entry[act[a].e].files
         /\ \A b \in Actors \ {a} : act'[b] = act[b]
         /\ origin'.files = origin.files
  <1> DEFINE n == entry[act[a].e]
  <1>1. /\ act' = [act EXCEPT ![a].pc = "back", ![a].todo = n.files] /\ "back" \in Phases
        /\ act \in [Actors -> Acts] /\ origin' = Tree(origin.files, n.manifest) /\ n \in Trees
    BY OwnEntry DEF RestoreCopyBegin, Phases, BaseInv, ActInv, DiskInv
  <1>2. n.files \in SUBSET Files /\ n.manifest \in Manifests /\ origin.files \in SUBSET Files
    BY <1>1, TreeFields DEF BaseInv, DiskInv
  <1> DEFINE F == n.files
             r == [act[a] EXCEPT !.pc = "back", !.todo = F]
  <1> HIDE DEF n
  <1>3. F \in SUBSET Files /\ act' = [act EXCEPT ![a] = r] /\ act[a] \in Acts
    BY <1>1, <1>2
  <1> HIDE DEF F
  <1>4. r.pc = "back" /\ r.e = act[a].e /\ r.todo = F
    BY <1>3 DEF Acts
  <1> HIDE DEF r
  <1>5. /\ act'[a].pc = "back" /\ act'[a].e = act[a].e /\ act'[a].todo = F
        /\ \A b \in Actors \ {a} : act'[b] = act[b]
    BY <1>1, <1>3, <1>4
  <1>6. QED
    BY <1>1, <1>2, <1>5, TreeIs DEF n, F

LEMMA RestoreCopyBeginKept ==
  ASSUME OneEach, BaseInv, KeptInv, NEW a \in Actors, RestoreCopyBegin(a)
  PROVE  KeptInv'
  <1>0. PICK n : n = entry[act[a].e]
    OBVIOUS
  <1>1. act[a].pc = "restoring" /\ UNCHANGED <<entry, pass, written, late, given>>
        /\ origin'.manifest = n.manifest
    BY <1>0 DEF RestoreCopyBegin, ghosts, Tree
  <1>2. origin'.files = origin.files
    BY RestoreCopyBeginIs
  <1>3. /\ act'[a].pc = "back" /\ act'[a].e = act[a].e /\ act'[a].todo = n.files
        /\ \A b \in Actors \ {a} : act'[b] = act[b]
    BY <1>0, RestoreCopyBeginIs
  <1>4. Owed' = Owed
    BY <1>1 DEF Owed
  <1>5. CopyFor(a)'
    BY <1>3, NoHands
  <1>6. RestoreFor(a)'
    <2>1. RestoreFor(a)
      BY DEF KeptInv
    <2>2. \A f \in Owed : f \in n.files => n.manifest.there
      BY <1>0, <1>1, <2>1 DEF RestoreFor
    <2>3. QED
      BY <1>0, <1>1, <1>3, <1>4, <2>2 DEF RestoreFor
  <1>7. OfficeFor(a)'
    BY <1>1, <1>3 DEF OfficeFor, KeptInv, Movers, Restorers
  <1>8. \A x \in Entries : Doomed(x)' => Doomed(x)
    BY <1>1, <1>3, DoomedActs
  <1>9. \A c \in Actors : NewestFor(c)'
    BY <1>1, <1>3, SameAuto, NewestStep DEF Movers
  <1>10. QED
    BY <1>1, <1>2, <1>3, <1>4, <1>5, <1>6, <1>7, <1>8, <1>9, QuietKept

(* A file that comes home is not owed while somebody moves the origin. *)
LEMMA RestoreCopyKept ==
  ASSUME OneEach, BaseInv, KeptInv, NEW a \in Actors, RestoreCopy(a)
  PROVE  KeptInv'
  <1>1. /\ act[a].pc = "back" /\ UNCHANGED <<entry, pass, written, given>> /\ act \in [Actors -> Acts]
        /\ origin \in Trees
    BY DEF RestoreCopy, BaseInv, ActInv, DiskInv
  <1>2. PICK f \in act[a].todo \cap entry[act[a].e].files :
          /\ act' = [act EXCEPT ![a].todo = @ \ {f}]
          /\ origin' = Tree(origin.files \cup {f}, origin.manifest)
          /\ late' = IF Moving THEN late \cup {f} ELSE late
    BY DEF RestoreCopy
  <1>3. f \in Files
    BY <1>1, <1>2, ActFields
  <1>4. origin'.files = origin.files \cup {f} /\ origin'.manifest = origin.manifest
    BY <1>1, <1>2, <1>3, TreeFields, TreeIs
  <1>5. /\ act'[a].pc = "back" /\ act'[a].e = act[a].e /\ act'[a].todo = act[a].todo \ {f}
        /\ \A b \in Actors \ {a} : act'[b] = act[b]
    BY <1>1, <1>2, TodoLess
  <1>6. Owed' \subseteq Owed
    BY <1>1, <1>2 DEF Owed
  <1>7. \A x \in Entries : Doomed(x)' => Doomed(x)
    BY <1>1, <1>5, DoomedActs
  <1>8. ASSUME NEW g, NEW x, Beside(g, x) PROVE Beside(g, x)'
    BY <1>1, <1>4, <1>7, <1>8 DEF Beside
  <1>9. CopyFor(a)'
    BY <1>5, NoHands
  <1>10. RestoreFor(a)'
    <2>1. RestoreFor(a)
      BY DEF KeptInv
    <2>2. PICK e : e = act[a].e
      OBVIOUS
    <2>3. SUFFICES ASSUME NEW g \in Owed', g \in entry[e].files
                   PROVE  entry[e].manifest.there /\ (g \in act'[a].todo \/ Beside(g, e)')
      BY <1>1, <1>5, <2>2 DEF RestoreFor, Beside
    <2>4. entry[e].manifest.there /\ (g \in act[a].todo \/ Beside(g, e))
      BY <1>1, <1>6, <2>1, <2>2, <2>3 DEF RestoreFor
    <2>5. CASE g = f
      BY <1>4, <2>4, <2>5 DEF Beside
    <2>6. CASE g # f
      BY <1>5, <1>8, <2>4, <2>6
    <2>7. QED
      BY <2>5, <2>6
  <1>11. OfficeFor(a)'
    BY <1>1, <1>5 DEF OfficeFor, KeptInv, Movers, Restorers
  <1>12. \A c \in Actors : NewestFor(c)'
    BY <1>1, <1>4, <1>5, SameAuto, NewestStep DEF Movers
  <1>13. ASSUME NEW b \in Actors \ {a} PROVE act'[b] = act[b] /\ Unharmed(b)
    <2>1. act'[b] = act[b]
      BY <1>5
    <2>2. PICK x : x = act[b].e
      OBVIOUS
    <2>3. \A g \in Owed' : Beside(g, act[b].e) => Beside(g, act[b].e)'
      BY <1>8, <2>1, <2>2 DEF Beside
    <2>4. act[b].pc \in {"copying", "removing"} => f \notin Owed'
      BY <1>1, <1>2 DEF Owed, Moving
    <2>5. QED
      BY <1>1, <1>4, <2>1, <2>3, <2>4 DEF Unharmed
  <1> DEFINE A == {a}
  <1>14. A \in SUBSET Actors /\ (\A b \in A : CopyFor(b)' /\ RestoreFor(b)' /\ OfficeFor(b)')
         /\ \A b \in Actors \ A : act'[b] = act[b] /\ Unharmed(b)
    BY <1>9, <1>10, <1>11, <1>13
  <1> HIDE DEF A
  <1>15. QED
    BY <1>6, <1>8, <1>12, <1>14, KeptStep

(* A restore that fails removes of the origin what is owed only if it is in the
   entry, which then has its manifest and which nobody else clears. *)
LEMMA RestoreFailsKept ==
  ASSUME OneEach, BaseInv, KeptInv, NEW a \in Actors, RestoreFails(a)
  PROVE  KeptInv'
  <1>0. PICK e \in Entries : e = act[a].e
    BY OwnEntry DEF RestoreFails
  <1>1. /\ act[a].pc = "back" /\ Ends(a) /\ UNCHANGED <<entry, pass, written, given>>
        /\ origin' \in Remains(origin) /\ late' = late \cup (origin.files \ entry[e].files)
    BY <1>0 DEF RestoreFails
  <1>2. origin'.files \subseteq origin.files /\ (origin'.manifest.there => origin.manifest.there)
    BY <1>1, RemainsTrees, NoManifestIs DEF BaseInv, DiskInv
  <1>3. act'[a].pc = "idle" /\ act'[a].e = 0 /\ \A b \in Actors \ {a} : act'[b] = act[b]
    BY <1>1, EndsIs DEF BaseInv, ActInv
  <1>4. Owed' \subseteq Owed /\ \A f \in Owed' : f \in origin.files => f \in entry[e].files
    BY <1>1 DEF Owed
  <1>5. CopyFor(a)' /\ RestoreFor(a)' /\ OfficeFor(a)'
    BY <1>3, NoHands DEF Movers, Restorers
  <1>6. \A x \in Entries : Doomed(x)' => Doomed(x)
    BY <1>1, <1>3, DoomedActs
  <1>7. \A c \in Actors : NewestFor(c)'
    BY <1>1, <1>2, <1>3, SameAuto, NewestStep DEF Movers
  <1>8. \A b \in Actors \ {a} : act[b].pc \notin Restorers
    BY <1>1, OneOperator DEF Restorers
  <1>9. ASSUME NEW f \in Owed', f \in origin.files PROVE f \in entry[e].files /\ ~Doomed(e)'
    <2>1. f \in entry[e].files /\ entry[e].manifest.there
      BY <1>0, <1>1, <1>4, <1>9 DEF KeptInv, RestoreFor
    <2>2. ASSUME NEW b \in Actors, act'[b].e = e, act'[b].pc \in {"copying", "clearing"} PROVE FALSE
      <3>1. b # a /\ act[b].e = e /\ act[b].pc = "copying"
        BY <1>3, <1>8, <2>2 DEF Restorers
      <3>2. QED
        BY <2>1, <3>1 DEF BaseInv, PlaceInv, Unplaced
    <2>3. QED
      BY <1>1, <2>1, <2>2 DEF Doomed
  <1>10. ASSUME NEW f \in Owed', Beside(f, 0) PROVE Beside(f, 0)'
    <2>1. CASE f \in origin.files
      BY <1>0, <1>1, <1>9, <2>1, StashAssumption DEF Beside, Entries
    <2>2. CASE f \notin origin.files
      BY <1>1, <1>6, <1>10, <2>2 DEF Beside
    <2>3. QED
      BY <2>1, <2>2
  <1>11. ASSUME NEW b \in Actors \ {a} PROVE act'[b] = act[b] /\ Unharmed(b)
    BY <1>1, <1>2, <1>3, <1>8 DEF Unharmed, Restorers
  <1> DEFINE A == {a}
  <1>12. A \in SUBSET Actors /\ (\A b \in A : CopyFor(b)' /\ RestoreFor(b)' /\ OfficeFor(b)')
         /\ \A b \in Actors \ A : act'[b] = act[b] /\ Unharmed(b)
    BY <1>5, <1>11
  <1> HIDE DEF A
  <1>13. QED
    BY <1>4, <1>7, <1>10, <1>12, KeptStep

(* What is cleared was copied home, or lies in yet another entry. *)
LEMMA RestoreVerifyKept ==
  ASSUME OneEach, BaseInv, KeptInv, NEW a \in Actors, RestoreVerify(a)
  PROVE  KeptInv'
  <1>0. PICK e \in Entries : e = act[a].e
    BY OwnEntry DEF RestoreVerify
  <1>1. /\ act[a].pc = "back" /\ act[a].todo = {} /\ (Goto(a, "clearing") \/ Ends(a)) /\ "clearing" \in Phases
        /\ UNCHANGED <<entry, pass, written, late, given>>
        /\ origin' = [origin EXCEPT !.manifest = NoManifest] /\ act \in [Actors -> Acts]
    BY DEF RestoreVerify, ghosts, Phases, BaseInv, ActInv
  <1>2. origin'.files = origin.files /\ ~origin'.manifest.there
    BY <1>1, ManifestAdded, NoManifestIs DEF BaseInv, DiskInv
  <1>3. CASE Ends(a)
    BY <1>1, <1>2, <1>3, EndsKept
  <1>4. CASE Goto(a, "clearing")
    <2>1. act'[a].pc = "clearing" /\ act'[a].e = e /\ \A b \in Actors \ {a} : act'[b] = act[b]
      BY <1>0, <1>1, <1>4, GotoIs
    <2>2. Owed' = Owed
      BY <1>1 DEF Owed
    <2>3. CopyFor(a)' /\ RestoreFor(a)' /\ OfficeFor(a)'
      BY <1>1, <2>1, NoHands DEF OfficeFor, KeptInv, Movers, Restorers
    <2>4. \A c \in Actors : NewestFor(c)'
      BY <1>1, <1>2, <2>1, SameAuto, NewestStep DEF Movers
    <2>5. \A b \in Actors \ {a} : act[b].pc \notin Restorers
      BY <1>1, OneOperator DEF Restorers
    <2>6. \A x \in Entries \ {e} : Doomed(x)' => Doomed(x)
      BY <1>1, <2>1 DEF Doomed
    <2>7. ASSUME NEW f \in Owed', Beside(f, 0) PROVE Beside(f, 0)'
      <3>1. f \in entry[e].files => Beside(f, e)
        BY <1>0, <1>1, <2>2 DEF KeptInv, RestoreFor
      <3>2. Beside(f, e)
        BY <2>7, <3>1 DEF Beside
      <3>3. QED
        BY <1>1, <1>2, <2>6, <3>2, StashAssumption DEF Beside, Entries
    <2>8. ASSUME NEW b \in Actors \ {a} PROVE act'[b] = act[b] /\ Unharmed(b)
      BY <1>1, <1>2, <2>1, <2>5 DEF Unharmed, Restorers
    <2> DEFINE A == {a}
    <2>9. A \in SUBSET Actors /\ (\A b \in A : CopyFor(b)' /\ RestoreFor(b)' /\ OfficeFor(b)')
          /\ \A b \in Actors \ A : act'[b] = act[b] /\ Unharmed(b)
      BY <2>3, <2>8
    <2> HIDE DEF A
    <2>10. QED
      BY <2>2, <2>4, <2>7, <2>9, KeptStep
  <1>5. QED
    BY <1>1, <1>3, <1>4

(* Part of an entry is removed: one on which nobody relies, or of which nothing
   is owed. *)
Shrinks(x) ==
    /\ UNCHANGED origin /\ Owed' \subseteq Owed
    /\ \A y \in Entries \ {x} : entry'[y] = entry[y] /\ (Doomed(y)' => Doomed(y))
    /\ entry'[x].files \subseteq entry[x].files
    /\ IsAuto(x)' => IsAuto(x)
    /\ \A f \in Owed' : f \in entry[x].files => Doomed(x) \/ (f \in entry'[x].files /\ ~Doomed(x)')

SparedBy(x, b) ==
    /\ act'[b] = act[b]
    /\ act[b].pc \in {"copying", "removing"} /\ act[b].e = x => Owed' \cap entry[x].files = {}
    /\ act[b].pc \in {"restoring", "back"} /\ act[b].e = x /\ entry[x].manifest.there =>
          entry'[x].manifest.there \/ Owed' \cap entry[x].files = {}

LEMMA ShrinkBeside ==
  ASSUME BaseInv, NEW x \in Entries, Shrinks(x), NEW f \in Owed', NEW z, Beside(f, z)
  PROVE  Beside(f, z)'
  <1>1. CASE f \in origin.files
    BY <1>1 DEF Beside, Shrinks
  <1>2. CASE \E y \in Entries \ {z} : ~Doomed(y) /\ f \in entry[y].files
    <2>1. PICK y \in Entries \ {z} : ~Doomed(y) /\ f \in entry[y].files
      BY <1>2
    <2>2. ~Doomed(y)' /\ f \in entry'[y].files
      BY <2>1 DEF Shrinks
    <2>3. QED
      BY <2>1, <2>2 DEF Beside
  <1>3. QED
    BY <1>1, <1>2 DEF Beside

LEMMA ShrinkUnharmed ==
  ASSUME BaseInv, NEW x \in Entries, Shrinks(x), NEW b \in Actors, SparedBy(x, b)
  PROVE  Unharmed(b)
  <1>1. PICK z : z = act[b].e
    OBVIOUS
  <1>2. act'[b] = act[b] /\ UNCHANGED origin
    BY DEF SparedBy, Shrinks
  <1>3. \A f \in Owed' : Beside(f, act[b].e) => Beside(f, act[b].e)'
    BY <1>1, <1>2, ShrinkBeside DEF Beside
  <1>4. CASE act[b].pc \in {"copying", "removing"}
    <2>1. z \in Entries
      BY <1>1, <1>4, OwnEntry
    <2>2. \A f \in Owed' : f \in entry[z].files => f \in entry'[z].files
      BY <1>1, <1>4, <2>1 DEF SparedBy, Shrinks
    <2>3. QED
      BY <1>1, <1>2, <1>4, <2>2 DEF Unharmed
  <1>5. CASE act[b].pc \in {"restoring", "back"}
    <2>1. z \in Entries
      BY <1>1, <1>5, OwnEntry
    <2>2. ASSUME NEW f \in Owed', f \in entry'[z].files
          PROVE  f \in entry[z].files /\ (entry[z].manifest.there => entry'[z].manifest.there)
      BY <1>1, <1>5, <2>1, <2>2 DEF SparedBy, Shrinks
    <2>3. QED
      BY <1>1, <1>3, <1>5, <2>2 DEF Unharmed
  <1>6. CASE act[b].pc \notin {"copying", "removing", "restoring", "back"}
    BY <1>6 DEF Unharmed
  <1>7. QED
    BY <1>4, <1>5, <1>6

LEMMA ShrinkKept ==
  ASSUME BaseInv, KeptInv, NEW x \in Entries, Shrinks(x), NEW A \in SUBSET Actors,
         \A b \in Actors \ A : SparedBy(x, b),
         \A b \in A : CopyFor(b)' /\ RestoreFor(b)' /\ OfficeFor(b)', \A c \in Actors : NewestFor(c)'
  PROVE  KeptInv'
  <1>1. \A f \in Owed' : Beside(f, 0) => Beside(f, 0)'
    BY ShrinkBeside
  <1>2. \A b \in Actors \ A : act'[b] = act[b] /\ Unharmed(b)
    BY ShrinkUnharmed DEF SparedBy
  <1>3. Owed' \subseteq Owed
    BY DEF Shrinks
  <1>4. QED
    BY <1>1, <1>2, <1>3, KeptStep

LEMMA NobodyNewest ==
  ASSUME KeptInv, UNCHANGED act, origin'.manifest.there => origin.manifest.there,
         \A x \in Entries : IsAuto(x)' => IsAuto(x)
  PROVE  \A c \in Actors : NewestFor(c)'
  <1> SUFFICES ASSUME NEW c \in Actors PROVE NewestFor(c)'
    OBVIOUS
  <1>1. NewestFor(c)
    BY DEF KeptInv
  <1>2. QED
    BY <1>1 DEF NewestFor

(* The operator, the expiry and the cleanup that replaces give up what they
   remove while it has its manifest. *)
LEMMA GiveUpKept ==
  ASSUME BaseInv, KeptInv, UNCHANGED <<origin, act, written, late>>, NEW x \in Entries,
         NEW n \in Remains(entry[x]), SetEntry(x, n), pass' \subseteq pass,
         given' = given \cup entry[x].files
  PROVE  KeptInv'
  <1>1. entry'[x] = n /\ (\A y \in Entries \ {x} : entry'[y] = entry[y])
        /\ n.files \subseteq entry[x].files /\ n.manifest \in {entry[x].manifest, NoManifest}
    BY RemainsTrees DEF SetEntry, BaseInv, DiskInv
  <1>2. Owed' \subseteq Owed /\ Owed' \cap entry[x].files = {}
    BY DEF Owed
  <1>3. \A y \in Entries \ {x} : Doomed(y)' => Doomed(y)
    BY <1>1 DEF Doomed
  <1>4. Shrinks(x)
    BY <1>1, <1>2, <1>3, NoManifestIs DEF Shrinks, IsAuto
  <1>5. \A b \in Actors : SparedBy(x, b)
    BY <1>2 DEF SparedBy
  <1>6. \A c \in Actors : NewestFor(c)'
    BY <1>1, NoManifestIs, NobodyNewest DEF IsAuto
  <1>7. {} \in SUBSET Actors
    OBVIOUS
  <1>8. QED
    BY <1>4, <1>5, <1>6, <1>7, ShrinkKept

LEMMA PurgeKept ==
  ASSUME BaseInv, KeptInv, NEW a \in Actors, NEW e \in Entries, Purge(a, e)
  PROVE  KeptInv'
  BY GiveUpKept DEF Purge

LEMMA MoveReplaceKept ==
  ASSUME BaseInv, KeptInv, NEW a \in Actors, MoveReplace(a)
  PROVE  KeptInv'
  <1>1. PICK x \in Entries \ {act[a].e} :
          /\ AutoGeneration(x)
          /\ \E n \in Remains(entry[x]) : SetEntry(x, n)
          /\ given' = IF x < act[a].e /\ entry[x].manifest.auto
                      THEN given \cup entry[x].files ELSE given
    BY DEF MoveReplace
  <1>2. UNCHANGED <<origin, act, pass, written, late>> /\ act[a].pc = "replacing"
    BY DEF MoveReplace
  <1>3. a \in Cleanups /\ NewestFor(a)
    BY <1>2 DEF KeptInv, OfficeFor, Movers
  <1>4. act[a].e \in Entries
    BY <1>2, OwnEntry
  <1>5. IsAuto(x)
    BY <1>1 DEF AutoGeneration, IsAuto
  <1>6. ~ (x > act[a].e)
    BY <1>2, <1>3, <1>5 DEF NewestFor, Movers
  <1>7. x < act[a].e
    BY <1>1, <1>4, <1>6, StashAssumption DEF Entries
  <1>8. PICK n \in Remains(entry[x]) : SetEntry(x, n)
    BY <1>1
  <1>9. given' = given \cup entry[x].files
    BY <1>1, <1>5, <1>7 DEF IsAuto
  <1>10. QED
    BY <1>2, <1>8, <1>9, GiveUpKept

LEMMA ExpireKept ==
  ASSUME BaseInv, KeptInv, ExpireOne \/ ExpireFails
  PROVE  KeptInv'
  <1>0. PICK e \in pass : e = First(pass)
    BY ExpireIs
  <1>1. /\ e \in Entries /\ pass' \subseteq pass /\ UNCHANGED <<origin, act, written, late>>
        /\ \E n \in Remains(entry[e]) \cup {entry[e]} :
              /\ SetEntry(e, n)
              /\ entry[e].manifest.there /\ n # entry[e] => given' = given \cup entry[e].files
              /\ given' \in {given, given \cup entry[e].files}
    BY <1>0, ExpireIs
  <1>2. PICK n \in Remains(entry[e]) \cup {entry[e]} :
          /\ SetEntry(e, n)
          /\ entry[e].manifest.there /\ n # entry[e] => given' = given \cup entry[e].files
          /\ given' \in {given, given \cup entry[e].files}
    BY <1>1
  <1>3. CASE given' = given \cup entry[e].files /\ n # entry[e]
    BY <1>1, <1>2, <1>3, GiveUpKept
  <1>4. CASE n = entry[e] \/ ~entry[e].manifest.there
    <2>1. entry'[e] = n /\ (\A y \in Entries \ {e} : entry'[y] = entry[y])
          /\ n.files \subseteq entry[e].files /\ n.manifest \in {entry[e].manifest, NoManifest}
      BY <1>1, <1>2, RemainsTrees DEF SetEntry, BaseInv, DiskInv
    <2>2. Owed' \subseteq Owed
      BY <1>1, <1>2 DEF Owed
    <2>3. \A y \in Entries \ {e} : Doomed(y)' => Doomed(y)
      BY <1>1, <2>1 DEF Doomed
    <2>4. Doomed(e) \/ (n = entry[e] /\ ~Doomed(e)')
      BY <1>0, <1>1, <1>4, <2>1 DEF Doomed
    <2>5. Shrinks(e)
      BY <1>1, <2>1, <2>2, <2>3, <2>4, NoManifestIs DEF Shrinks, IsAuto
    <2>6. \A b \in Actors : SparedBy(e, b)
      BY <1>0, <1>1, <1>4, <2>1 DEF SparedBy, BaseInv, PlaceInv, Unplaced
    <2>7. \A c \in Actors : NewestFor(c)'
      BY <1>1, <2>1, NoManifestIs, NobodyNewest DEF IsAuto
    <2>8. {} \in SUBSET Actors
      OBVIOUS
    <2>9. QED
      BY <1>1, <2>5, <2>6, <2>7, <2>8, ShrinkKept
  <1>5. QED
    BY <1>2, <1>3, <1>4

LEMMA MoveFailsKept ==
  ASSUME OneEach, BaseInv, KeptInv, NEW a \in Actors, MoveFails(a)
  PROVE  KeptInv'
  <1>0. PICK e \in Entries : e = act[a].e
    BY OwnEntry DEF MoveFails
  <1>1. act[a].pc \in {"moving", "copying"} /\ Ends(a) /\ UNCHANGED <<origin, pass, written, late, given>>
    BY DEF MoveFails, ghosts
  <1>2. PICK n \in Remains(entry[e]) : SetEntry(e, n)
    BY <1>0 DEF MoveFails
  <1>3. entry'[e] = n /\ (\A y \in Entries \ {e} : entry'[y] = entry[y])
        /\ n.files \subseteq entry[e].files /\ n.manifest \in {entry[e].manifest, NoManifest}
    BY <1>2, RemainsTrees DEF SetEntry, BaseInv, DiskInv
  <1>4. act'[a].pc = "idle" /\ act'[a].e = 0 /\ \A b \in Actors \ {a} : act'[b] = act[b]
    BY <1>1, EndsIs DEF BaseInv, ActInv
  <1>5. CopyFor(a)' /\ RestoreFor(a)' /\ OfficeFor(a)'
    BY <1>4, NoHands DEF Movers, Restorers
  <1>6. /\ \A b \in Actors \ {a} : act[b].e # e
        /\ Doomed(e) \/ entry[e].files = {}
    BY <1>0, <1>1, NothingIs DEF BaseInv, PlaceInv, Unplaced, Doomed
  <1>7. Owed' \subseteq Owed /\ \A y \in Entries \ {e} : Doomed(y)' => Doomed(y)
    BY <1>1, <1>3, <1>4, DoomedActs DEF Owed
  <1>8. Shrinks(e)
    BY <1>1, <1>3, <1>6, <1>7, NoManifestIs DEF Shrinks, IsAuto
  <1>9. \A b \in Actors \ {a} : SparedBy(e, b)
    BY <1>4, <1>6 DEF SparedBy
  <1>10. NotNewer(a)
    BY <1>3, NoManifestIs DEF NotNewer, IsAuto
  <1>11. \A c \in Actors : NewestFor(c)'
    BY <1>1, <1>4, <1>10, NewestStep DEF Movers
  <1> DEFINE A == {a}
  <1>12. A \in SUBSET Actors /\ (\A b \in A : CopyFor(b)' /\ RestoreFor(b)' /\ OfficeFor(b)')
         /\ \A b \in Actors \ A : SparedBy(e, b)
    BY <1>5, <1>9
  <1> HIDE DEF A
  <1>13. QED
    BY <1>8, <1>11, <1>12, ShrinkKept

LEMMA RestoreClearKept ==
  ASSUME OneEach, BaseInv, KeptInv, NEW a \in Actors, RestoreClear(a)
  PROVE  KeptInv'
  <1>0. PICK e \in Entries : e = act[a].e
    BY OwnEntry DEF RestoreClear
  <1>1. act[a].pc = "clearing" /\ Ends(a) /\ UNCHANGED <<origin, pass, written, late, given>>
    BY DEF RestoreClear
  <1>2. PICK n \in Remains(entry[e]) : SetEntry(e, n)
    BY <1>0 DEF RestoreClear
  <1>3. entry'[e] = n /\ (\A y \in Entries \ {e} : entry'[y] = entry[y])
        /\ n.files \subseteq entry[e].files /\ n.manifest \in {entry[e].manifest, NoManifest}
    BY <1>2, RemainsTrees DEF SetEntry, BaseInv, DiskInv
  <1>4. act'[a].pc = "idle" /\ act'[a].e = 0 /\ \A b \in Actors \ {a} : act'[b] = act[b]
    BY <1>1, EndsIs DEF BaseInv, ActInv
  <1>5. CopyFor(a)' /\ RestoreFor(a)' /\ OfficeFor(a)'
    BY <1>4, NoHands DEF Movers, Restorers
  <1>6. Doomed(e) /\ \A b \in Actors \ {a} : act[b].pc \notin Restorers
    BY <1>0, <1>1, OneOperator DEF Doomed, Restorers
  <1>7. Owed' \subseteq Owed /\ \A y \in Entries \ {e} : Doomed(y)' => Doomed(y)
    BY <1>1, <1>3, <1>4, DoomedActs DEF Owed
  <1>8. Shrinks(e)
    BY <1>1, <1>3, <1>6, <1>7, NoManifestIs DEF Shrinks, IsAuto
  <1>9. \A b \in Actors \ {a} : act[b].pc \in Unplaced => act[b].e # e
    BY <1>0 DEF BaseInv, PlaceInv
  <1>10. \A b \in Actors \ {a} : SparedBy(e, b)
    BY <1>4, <1>6, <1>9 DEF SparedBy, Restorers, Unplaced
  <1>11. NotNewer(a)
    BY <1>3, NoManifestIs DEF NotNewer, IsAuto
  <1>12. \A c \in Actors : NewestFor(c)'
    BY <1>1, <1>4, <1>11, NewestStep DEF Movers
  <1> DEFINE A == {a}
  <1>13. A \in SUBSET Actors /\ (\A b \in A : CopyFor(b)' /\ RestoreFor(b)' /\ OfficeFor(b)')
         /\ \A b \in Actors \ A : SparedBy(e, b)
    BY <1>5, <1>10
  <1> HIDE DEF A
  <1>14. QED
    BY <1>8, <1>12, <1>13, ShrinkKept

(* An entry is filled, on which nobody relies and which nobody else has. *)
LEMMA FillKept ==
  ASSUME BaseInv, KeptInv, UNCHANGED <<origin, pass, written, late, given>>,
         NEW a \in Actors, NEW e \in Entries, e = act[a].e, act[a].pc \in Unplaced,
         act'[a].pc = "copying", act'[a].e = e, \A b \in Actors \ {a} : act'[b] = act[b],
         \A y \in Entries \ {e} : entry'[y] = entry[y], Doomed(e) \/ entry[e].files = {},
         CopyFor(a)', OfficeFor(a)', \A c \in Actors : NewestFor(c)'
  PROVE  KeptInv'
  <1>1. Owed' = Owed
    BY DEF Owed
  <1>2. \A y \in Entries \ {e} : Doomed(y)' => Doomed(y)
    BY DEF Doomed
  <1>3. ASSUME NEW f, NEW z, Beside(f, z) PROVE Beside(f, z)'
    BY <1>2, <1>3 DEF Beside
  <1>4. \A b \in Actors \ {a} : act[b].e # e
    BY DEF BaseInv, PlaceInv
  <1>5. ASSUME NEW b \in Actors \ {a} PROVE act'[b] = act[b] /\ Unharmed(b)
    <2>1. PICK z : z = act[b].e
      OBVIOUS
    <2>2. \A f : Beside(f, act[b].e) => Beside(f, act[b].e)'
      BY <1>3, <2>1 DEF Beside
    <2>3. act[b].pc \in {"copying", "removing", "restoring", "back"} => entry'[act[b].e] = entry[act[b].e]
      BY <1>4, OwnEntry
    <2>4. QED
      BY <2>2, <2>3 DEF Unharmed
  <1>6. RestoreFor(a)'
    BY NoHands
  <1> DEFINE A == {a}
  <1>7. A \in SUBSET Actors /\ (\A b \in A : CopyFor(b)' /\ RestoreFor(b)' /\ OfficeFor(b)')
        /\ \A b \in Actors \ A : act'[b] = act[b] /\ Unharmed(b)
    BY <1>5, <1>6
  <1> HIDE DEF A
  <1>8. QED
    BY <1>1, <1>3, <1>7, KeptStep

LEMMA MoveCopyBeginKept ==
  ASSUME OneEach, BaseInv, KeptInv, NEW a \in Actors, MoveCopyBegin(a)
  PROVE  KeptInv'
  <1>0. PICK e \in Entries : e = act[a].e
    BY OwnEntry DEF MoveCopyBegin
  <1>1. act[a].pc = "moving" /\ SetEntry(e, Tree({}, NoManifest)) /\ "copying" \in Phases
        /\ act' = [act EXCEPT ![a].pc = "copying", ![a].todo = origin.files]
        /\ UNCHANGED <<origin, pass, written, late, given>> /\ act \in [Actors -> Acts]
        /\ origin.files \in SUBSET Files
    BY <1>0, TreeFields DEF MoveCopyBegin, ghosts, Phases, BaseInv, ActInv, DiskInv
  <1>2. /\ act'[a].pc = "copying" /\ act'[a].e = e /\ act'[a].todo = origin.files
        /\ act'[a].auto = act[a].auto
        /\ \A b \in Actors \ {a} : act'[b] = act[b]
    BY <1>0, <1>1, GotoTodo
  <1>3. entry'[e] = Tree({}, NoManifest) /\ \A y \in Entries \ {e} : entry'[y] = entry[y]
    BY <1>1 DEF SetEntry, BaseInv, DiskInv
  <1>4. ~IsAuto(e)'
    BY <1>3, TreeIs, NoManifestIs DEF IsAuto
  <1>5. CopyFor(a)'
    BY <1>1, <1>2 DEF CopyFor
  <1>6. OfficeFor(a)'
    BY <1>1, <1>2 DEF OfficeFor, KeptInv, Movers, Restorers
  <1>7. NotNewer(a)
    BY <1>3, <1>4 DEF NotNewer, IsAuto
  <1>8. \A c \in Actors : NewestFor(c)'
    BY <1>0, <1>1, <1>2, <1>7, NewestStep DEF Movers
  <1>9. entry[e].files = {}
    BY <1>0, <1>1, NothingIs DEF BaseInv, PlaceInv
  <1>10. QED
    BY <1>0, <1>1, <1>2, <1>3, <1>5, <1>6, <1>8, <1>9, FillKept DEF Unplaced

LEMMA MoveCopyKept ==
  ASSUME OneEach, BaseInv, KeptInv, NEW a \in Actors, MoveCopy(a)
  PROVE  KeptInv'
  <1>0. PICK e \in Entries : e = act[a].e
    BY OwnEntry DEF MoveCopy
  <1>1. act[a].pc = "copying" /\ UNCHANGED <<origin, pass, written, late, given>> /\ act \in [Actors -> Acts]
        /\ entry[e] \in Trees /\ origin \in Trees
    BY DEF MoveCopy, ghosts, BaseInv, ActInv, DiskInv
  <1>2. PICK f \in origin.files :
           LET n == [entry[e] EXCEPT !.files = @ \cup {f}, !.there = TRUE] IN
           /\ act' = [act EXCEPT ![a].todo = @ \ {f}]
           /\ SetEntry(e, n)
    BY <1>0, MoveCopyIs
  <1> DEFINE n == [entry[e] EXCEPT !.files = @ \cup {f}, !.there = TRUE]
  <1>3. n.files = entry[e].files \cup {f} /\ n.manifest = entry[e].manifest
    BY <1>1, <1>2, TreeFields, FileAdded
  <1>4. SetEntry(e, n)
    BY <1>2
  <1> HIDE DEF n
  <1>5. /\ act'[a].pc = "copying" /\ act'[a].e = e /\ act'[a].todo = act[a].todo \ {f}
        /\ act'[a].auto = act[a].auto
        /\ \A b \in Actors \ {a} : act'[b] = act[b]
    BY <1>0, <1>1, <1>2, TodoLess
  <1>6. entry'[e] = n /\ \A y \in Entries \ {e} : entry'[y] = entry[y]
    BY <1>4 DEF SetEntry, BaseInv, DiskInv
  <1>7. CopyFor(a)'
    <2>1. CopyFor(a) /\ Owed' = Owed
      BY <1>1 DEF KeptInv, Owed
    <2>2. QED
      BY <1>0, <1>1, <1>3, <1>5, <1>6, <2>1 DEF CopyFor
  <1>8. OfficeFor(a)'
    BY <1>1, <1>5 DEF OfficeFor, KeptInv, Movers, Restorers
  <1>9. NotNewer(a)
    BY <1>3, <1>6 DEF NotNewer, IsAuto
  <1>10. \A c \in Actors : NewestFor(c)'
    BY <1>0, <1>1, <1>5, <1>9, NewestStep DEF Movers
  <1>11. Doomed(e)
    BY <1>0, <1>1 DEF Doomed
  <1>12. QED
    BY <1>0, <1>1, <1>5, <1>6, <1>7, <1>8, <1>10, <1>11, FillKept DEF Unplaced

LEMMA MovePublishKept ==
  ASSUME OneEach, BaseInv, KeptInv, NEW a \in Actors, MovePublish(a)
  PROVE  KeptInv'
  <1>0. PICK e \in Entries : e = act[a].e
    BY OwnEntry DEF MovePublish
  <1> DEFINE m == Manifest(act[a].auto, act[a].count)
             n == [entry[e] EXCEPT !.manifest = m]
  <1>1. /\ act[a].pc = "publishing" /\ "replacing" \in Phases
        /\ IF act[a].auto THEN Goto(a, "replacing") ELSE Ends(a)
        /\ UNCHANGED <<origin, pass, written, late, given>> /\ act \in [Actors -> Acts]
        /\ act[a] \in Acts
    BY DEF MovePublish, ghosts, Phases, BaseInv, ActInv
  <1>2. entry[e] \in Trees /\ SetEntry(e, n) /\ m \in Manifests
    BY <1>0, MovePublishIs
  <1>3. n.files = entry[e].files /\ n.manifest = m
    BY <1>2, ManifestAdded
  <1>4. m.there /\ m.auto = act[a].auto
    BY <1>1, ActFields, ManifestIs
  <1> HIDE DEF m, n
  <1>5. entry'[e] = n /\ \A y \in Entries \ {e} : entry'[y] = entry[y]
    BY <1>2 DEF SetEntry, BaseInv, DiskInv
  <1>6. /\ \A b \in Actors \ {a} : act'[b] = act[b]
        /\ act[a].auto => act'[a].pc = "replacing" /\ act'[a].e = e /\ act'[a].auto = act[a].auto
        /\ ~act[a].auto => act'[a].pc = "idle"
    BY <1>0, <1>1, GotoIs, EndsIs
  <1>7. act'[a].pc \in {"replacing", "idle"}
    BY <1>6
  <1>8. Owed' = Owed
    BY <1>1 DEF Owed
  <1>9. CopyFor(a)' /\ RestoreFor(a)'
    BY <1>7, NoHands
  <1>10. OfficeFor(a)'
    BY <1>1, <1>6, <1>7 DEF OfficeFor, KeptInv, Movers, Restorers
  <1>11. \A x \in Entries : Doomed(x)' => Doomed(x)
    <2>1. \A x \in Entries : entry[x].manifest.there => entry'[x].manifest.there
      BY <1>3, <1>4, <1>5
    <2>2. QED
      BY <1>1, <1>6, <1>7, <2>1, DoomedActs
  <1>12. NotNewer(a)
    <2>1. SUFFICES ASSUME act[a].auto, NEW c \in Cleanups \ {a} PROVE FALSE
      BY <1>0, <1>3, <1>4, <1>5 DEF NotNewer, IsAuto
    <2>2. a \in Cleanups
      BY <1>1, <2>1 DEF KeptInv, OfficeFor, Movers
    <2>3. QED
      BY <2>1, <2>2 DEF OneEach
  <1>13. \A c \in Actors : NewestFor(c)'
    BY <1>0, <1>1, <1>6, <1>7, <1>12, NewestStep DEF Movers
  <1>14. ASSUME NEW f, NEW z, Beside(f, z) PROVE Beside(f, z)'
    BY <1>1, <1>3, <1>5, <1>11, <1>14 DEF Beside
  <1>15. ASSUME NEW b \in Actors \ {a} PROVE act'[b] = act[b] /\ Unharmed(b)
    <2>1. PICK z : z = act[b].e
      OBVIOUS
    <2>2. \A f : Beside(f, act[b].e) => Beside(f, act[b].e)'
      BY <1>6, <1>14, <2>1 DEF Beside
    <2>3. ASSUME act[b].pc \in {"copying", "removing", "restoring", "back"}
          PROVE  /\ entry'[act[b].e].files = entry[act[b].e].files
                 /\ entry[act[b].e].manifest.there => entry'[act[b].e].manifest.there
      BY <1>3, <1>4, <1>5, <2>3, OwnEntry
    <2>4. QED
      BY <1>1, <1>6, <2>2, <2>3 DEF Unharmed
  <1> DEFINE A == {a}
  <1>16. A \in SUBSET Actors /\ (\A b \in A : CopyFor(b)' /\ RestoreFor(b)' /\ OfficeFor(b)')
         /\ \A b \in Actors \ A : act'[b] = act[b] /\ Unharmed(b)
    BY <1>9, <1>10, <1>15
  <1> HIDE DEF A
  <1>17. QED
    BY <1>8, <1>13, <1>14, <1>16, KeptStep

(* The origin becomes an entry, which nobody dooms. *)
LEMMA MoveRenameKept ==
  ASSUME OneEach, BaseInv, KeptInv, NEW a \in Actors, MoveRename(a)
  PROVE  KeptInv'
  <1>0. PICK e \in Entries : e = act[a].e
    BY OwnEntry DEF MoveRename
  <1>1. act[a].pc = "moving" /\ SetEntry(e, origin) /\ origin' = Nothing /\ Goto(a, "publishing")
        /\ "publishing" \in Phases /\ UNCHANGED <<pass, written, late, given>> /\ act \in [Actors -> Acts]
    BY <1>0 DEF MoveRename, Phases, BaseInv, ActInv
  <1>2. /\ act'[a].pc = "publishing" /\ act'[a].e = e /\ act'[a].auto = act[a].auto
        /\ \A b \in Actors \ {a} : act'[b] = act[b]
    BY <1>0, <1>1, GotoIs
  <1>3. entry'[e] = origin /\ \A y \in Entries \ {e} : entry'[y] = entry[y]
    BY <1>1 DEF SetEntry, BaseInv, DiskInv
  <1>4. entry[e] = Nothing /\ e \notin pass /\ \A b \in Actors \ {a} : act[b].e # e
    BY <1>0, <1>1 DEF BaseInv, PlaceInv, Unplaced
  <1>5. Owed' = Owed
    BY <1>1 DEF Owed
  <1>6. CopyFor(a)' /\ RestoreFor(a)'
    BY <1>2, NoHands
  <1>7. OfficeFor(a)'
    BY <1>1, <1>2 DEF OfficeFor, KeptInv, Movers, Restorers
  <1>8. ~Doomed(e)' /\ \A y \in Entries \ {e} : Doomed(y)' => Doomed(y)
    BY <1>1, <1>2, <1>3, <1>4 DEF Doomed
  <1>9. NotNewer(a)
    <2>1. SUFFICES ASSUME IsAuto(e)', NEW c \in Cleanups \ {a}, act[c].pc \in Movers, e > act[c].e
                   PROVE  FALSE
      BY <1>0, <1>3 DEF NotNewer, IsAuto
    <2>2. c \in Actors /\ NewestFor(c)
      BY DEF KeptInv, Actors
    <2>3. ~origin.manifest.there
      BY <1>0, <1>1, <2>1, <2>2 DEF NewestFor
    <2>4. QED
      BY <1>3, <2>1, <2>3 DEF IsAuto
  <1>10. \A c \in Actors : NewestFor(c)'
    BY <1>0, <1>1, <1>2, <1>9, NothingIs, NoManifestIs, NewestStep DEF Movers
  <1>11. ASSUME NEW f, NEW z, z # e, Beside(f, z) PROVE Beside(f, z)'
    <2>1. CASE f \in origin.files
      BY <1>3, <1>8, <1>11, <2>1 DEF Beside
    <2>2. CASE \E y \in Entries \ {z} : ~Doomed(y) /\ f \in entry[y].files
      <3>1. PICK y \in Entries \ {z} : ~Doomed(y) /\ f \in entry[y].files
        BY <2>2
      <3>2. y # e
        BY <1>4, <3>1, NothingIs
      <3>3. QED
        BY <1>3, <1>8, <3>1, <3>2 DEF Beside
    <2>3. QED
      BY <1>11, <2>1, <2>2 DEF Beside
  <1>12. ASSUME NEW b \in Actors \ {a} PROVE act'[b] = act[b] /\ Unharmed(b)
    <2>1. PICK z : z = act[b].e
      OBVIOUS
    <2>2. act'[b] = act[b] /\ z # e
      BY <1>2, <1>4, <2>1
    <2>3. \A f : Beside(f, act[b].e) => Beside(f, act[b].e)'
      BY <1>11, <2>1, <2>2 DEF Beside
    <2>4. act[b].pc \in {"restoring", "back"} => entry'[act[b].e] = entry[act[b].e]
      BY <1>3, <2>1, <2>2, OwnEntry
    <2>5. origin'.files = {}
      BY <1>1, NothingIs
    <2>6. QED
      BY <2>2, <2>3, <2>4, <2>5 DEF Unharmed
  <1>13. \A f \in Owed' : Beside(f, 0) => Beside(f, 0)'
    BY <1>11, StashAssumption DEF Entries
  <1> DEFINE A == {a}
  <1>14. A \in SUBSET Actors /\ (\A b \in A : CopyFor(b)' /\ RestoreFor(b)' /\ OfficeFor(b)')
         /\ \A b \in Actors \ A : act'[b] = act[b] /\ Unharmed(b)
    BY <1>6, <1>7, <1>12
  <1> HIDE DEF A
  <1>15. QED
    BY <1>5, <1>10, <1>13, <1>14, KeptStep

(* An entry comes home, where nothing was; who moves the origin meanwhile need
   not care for it. *)
LEMMA HomeKept ==
  ASSUME OneEach, BaseInv, KeptInv, NEW a \in Actors, NEW e \in Entries, e = act[a].e,
         origin' = entry[e], SetEntry(e, Nothing), Vacant(origin),
         late' = IF Moving THEN late \cup entry[e].files ELSE late,
         UNCHANGED <<pass, written, given>>,
         act'[a].pc \in {"idle", "home"}, \A b \in Actors \ {a} : act'[b] = act[b], OfficeFor(a)'
  PROVE  KeptInv'
  <1>1. entry'[e] = Nothing /\ \A y \in Entries \ {e} : entry'[y] = entry[y]
    BY DEF SetEntry, BaseInv, DiskInv
  <1>2. Nothing.files = {} /\ ~Nothing.manifest.there
    BY NothingIs, NoManifestIs
  <1>3. Owed' \subseteq Owed
    BY DEF Owed
  <1>4. CopyFor(a)' /\ RestoreFor(a)'
    BY NoHands
  <1>5. \A y \in Entries \ {e} : Doomed(y)' => Doomed(y)
    BY <1>1 DEF Doomed
  <1>6. NotNewer(a)
    BY <1>1, <1>2 DEF NotNewer, IsAuto
  <1>7. \A c \in Actors : NewestFor(c)'
    BY <1>6, NewestStep DEF Movers
  <1>8. ASSUME NEW f, NEW z, Beside(f, z) PROVE Beside(f, z)'
    <2>1. f \notin origin.files
      BY DEF Vacant
    <2>2. PICK y \in Entries \ {z} : ~Doomed(y) /\ f \in entry[y].files
      BY <1>8, <2>1 DEF Beside
    <2>3. QED
      BY <1>1, <1>5, <2>2 DEF Beside
  <1>9. ASSUME NEW b \in Actors \ {a} PROVE act'[b] = act[b] /\ Unharmed(b)
    <2>1. PICK z : z = act[b].e
      OBVIOUS
    <2>2. \A f : Beside(f, act[b].e) => Beside(f, act[b].e)'
      BY <1>8, <2>1 DEF Beside
    <2>3. CASE act[b].pc \in {"copying", "removing"}
      <3>1. late' = late \cup entry[e].files
        BY <2>3 DEF Moving
      <3>2. Owed' \cap origin'.files = {}
        BY <3>1 DEF Owed
      <3>3. QED
        BY <2>3, <3>2 DEF Unharmed
    <2>4. CASE act[b].pc \in {"restoring", "back"}
      <3>1. z \in Entries
        BY <2>1, <2>4, OwnEntry
      <3>2. z # e => entry'[z] = entry[z]
        BY <1>1, <3>1
      <3>3. z = e => entry'[z].files = {}
        BY <1>1, <1>2
      <3>4. QED
        BY <2>1, <2>2, <2>4, <3>2, <3>3 DEF Unharmed
    <2>5. QED
      BY <2>3, <2>4 DEF Unharmed
  <1> DEFINE A == {a}
  <1>10. A \in SUBSET Actors /\ (\A b \in A : CopyFor(b)' /\ RestoreFor(b)' /\ OfficeFor(b)')
         /\ \A b \in Actors \ A : act'[b] = act[b] /\ Unharmed(b)
    BY <1>4, <1>9
  <1> HIDE DEF A
  <1>11. QED
    BY <1>3, <1>7, <1>8, <1>10, KeptStep

LEMMA MovePublishFailsKept ==
  ASSUME OneEach, BaseInv, KeptInv, NEW a \in Actors, MovePublishFails(a)
  PROVE  KeptInv'
  <1>0. PICK e \in Entries : e = act[a].e
    BY OwnEntry DEF MovePublishFails
  <1>1. Ends(a) /\ UNCHANGED <<pass, written, given>>
    BY DEF MovePublishFails
  <1>2. act'[a].pc = "idle" /\ \A b \in Actors \ {a} : act'[b] = act[b]
    BY <1>1, EndsIs DEF BaseInv, ActInv
  <1>3. OfficeFor(a)'
    BY <1>2, NoHands DEF Movers, Restorers
  <1>4. CASE UNCHANGED <<origin, entry, late>>
    BY <1>1, <1>4, EndsKept
  <1>5. CASE /\ origin' = entry[e] /\ SetEntry(e, Nothing) /\ Vacant(origin)
             /\ late' = IF Moving THEN late \cup entry[e].files ELSE late
    BY <1>0, <1>1, <1>2, <1>3, <1>5, HomeKept
  <1>6. QED
    BY <1>0, <1>4, <1>5 DEF MovePublishFails

LEMMA RestoreRenameKept ==
  ASSUME OneEach, BaseInv, KeptInv, NEW a \in Actors, RestoreRename(a)
  PROVE  KeptInv'
  <1>0. PICK e \in Entries : e = act[a].e
    BY OwnEntry DEF RestoreRename
  <1>1. /\ act[a].pc = "restoring" /\ Goto(a, "home") /\ "home" \in Phases
        /\ UNCHANGED <<pass, written, given>>
        /\ origin' = entry[e] /\ SetEntry(e, Nothing) /\ Vacant(origin)
        /\ late' = IF Moving THEN late \cup entry[e].files ELSE late
    BY <1>0 DEF RestoreRename, Phases
  <1>2. act'[a].pc = "home" /\ \A b \in Actors \ {a} : act'[b] = act[b]
    BY <1>1, GotoIs DEF BaseInv, ActInv
  <1>3. OfficeFor(a)'
    BY <1>1, <1>2 DEF OfficeFor, KeptInv, Movers, Restorers
  <1>4. QED
    BY <1>0, <1>1, <1>2, <1>3, HomeKept

(* A file that is written while somebody moves or restores the origin is not owed. *)
LEMMA WriteKept ==
  ASSUME BaseInv, KeptInv, NEW f \in Files, Write(f)
  PROVE  KeptInv'
  <1>1. /\ f \notin written /\ UNCHANGED <<entry, act, pass, given>>
        /\ origin' = Tree(origin.files \cup {f}, origin.manifest) /\ written' = written \cup {f}
        /\ late' = IF Moving \/ Restoring THEN late \cup {f} ELSE late
    BY DEF Write
  <1>2. origin'.files = origin.files \cup {f} /\ origin'.manifest = origin.manifest
    BY <1>1, TreeFields, TreeIs DEF BaseInv, DiskInv
  <1>3. Owed' \subseteq Owed \cup {f} /\ (Moving \/ Restoring => f \notin Owed')
    BY <1>1 DEF Owed
  <1>4. \A x \in Entries : f \notin entry[x].files
    BY <1>1 DEF BaseInv, DiskInv
  <1>5. \A x \in Entries : Doomed(x)' => Doomed(x)
    BY <1>1 DEF Doomed
  <1>6. ASSUME NEW g, NEW z, Beside(g, z) PROVE Beside(g, z)'
    BY <1>1, <1>2, <1>5, <1>6 DEF Beside
  <1>7. Secure'
    <2>1. Beside(f, 0)'
      BY <1>2 DEF Beside
    <2>2. QED
      BY <1>3, <1>6, <2>1 DEF KeptInv, Secure
  <1>8. ASSUME NEW a \in Actors PROVE CopyFor(a)' /\ RestoreFor(a)' /\ OfficeFor(a)' /\ NewestFor(a)'
    <2>1. CopyFor(a) /\ RestoreFor(a) /\ OfficeFor(a) /\ NewestFor(a)
      BY DEF KeptInv
    <2>2. CopyFor(a)'
      <3>1. act[a].pc \in {"copying", "removing"} => Moving
        BY DEF Moving
      <3>2. QED
        BY <1>1, <1>2, <1>3, <2>1, <3>1 DEF CopyFor
    <2>3. RestoreFor(a)'
      <3>1. SUFFICES ASSUME act[a].pc \in {"restoring", "back"}, NEW g \in Owed', g \in entry[act[a].e].files
                     PROVE  /\ entry[act[a].e].manifest.there
                            /\ act[a].pc = "back" => g \in act[a].todo \/ Beside(g, act[a].e)'
        BY <1>1 DEF RestoreFor
      <3>2. g \in Owed
        BY <1>3, <3>1 DEF Restoring
      <3>3. entry[act[a].e].manifest.there /\ (act[a].pc = "back" => g \in act[a].todo \/ Beside(g, act[a].e))
        BY <2>1, <3>1, <3>2, Zenon DEF RestoreFor
      <3>4. PICK z : z = act[a].e
        OBVIOUS
      <3>5. Beside(g, act[a].e) => Beside(g, act[a].e)'
        BY <1>1, <1>6, <3>4 DEF Beside
      <3>6. QED
        BY <3>3, <3>5
    <2>4. OfficeFor(a)'
      BY <1>1, <2>1 DEF OfficeFor
    <2>5. NewestFor(a)'
      BY <1>1, <1>2, <2>1 DEF NewestFor, IsAuto
    <2>6. QED
      BY <2>2, <2>3, <2>4, <2>5
  <1>9. QED
    BY <1>7, <1>8 DEF KeptInv

LEMMA RestKept ==
  ASSUME BaseInv, KeptInv, ExpireList \/ UNCHANGED vars \/ \E e \in Entries : Ages(e)
  PROVE  KeptInv'
  <1>1. UNCHANGED <<origin, entry, act, written, late, given>>
        /\ (pass' = pass \/ pass' = {e \in Entries : Expired(e)})
    BY DEF ExpireList, Ages, vars, disk, ghosts
  <1>2. \A x \in Entries : Doomed(x)' => Doomed(x)
    BY <1>1 DEF Doomed, Expired
  <1>3. Owed' = Owed
    BY <1>1 DEF Owed
  <1>4. /\ \A f \in Owed' : Beside(f, 0) => Beside(f, 0)'
        /\ \A b \in Actors : act'[b] = act[b] => Unharmed(b)
    BY <1>1, <1>2, <1>3, QuietUnharmed
  <1>5. \A c \in Actors : NewestFor(c)'
    BY <1>1, NobodyNewest DEF IsAuto
  <1>6. {} \in SUBSET Actors
    OBVIOUS
  <1>7. QED
    BY <1>1, <1>3, <1>4, <1>5, <1>6, KeptStep

LEMMA InitKept ==
  ASSUME Init
  PROVE  KeptInv
  <1>1. origin.files = written /\ \A a \in Actors : act[a].pc = "idle"
    BY IdleIs, TreeIs, NoManifestIs DEF Init
  <1>2. Secure
    BY <1>1 DEF Secure, Beside, Owed
  <1>3. ASSUME NEW a \in Actors PROVE CopyFor(a) /\ RestoreFor(a) /\ OfficeFor(a) /\ NewestFor(a)
    BY <1>1 DEF CopyFor, RestoreFor, OfficeFor, NewestFor, Movers, Restorers
  <1>4. QED
    BY <1>2, <1>3 DEF KeptInv

LEMMA NextKept ==
  ASSUME OneEach, BaseInv, KeptInv, [Next]_vars
  PROVE  KeptInv'
  <1>1. ASSUME NEW a \in Actors, MoveEnds(a) \/ Die(a) PROVE KeptInv'
    BY <1>1, EndsKept DEF MoveEnds, Die, disk, ghosts
  <1>2. ASSUME NEW a \in Actors, Move(a) \/ Die(a)
        PROVE  KeptInv'
    BY <1>1, <1>2, MoveBeginKept, MoveRenameKept, MoveCopyBeginKept, MoveCopyKept,
       MoveFailsKept, MoveVerifyKept, MoveRemoveKept, MovePublishKept, MovePublishFailsKept,
       MoveReplaceKept DEF Move
  <1>3. ASSUME NEW a \in Actors, RestoreUnmark(a) PROVE KeptInv'
    <2>1. PICK m \in {origin.manifest, NoManifest} : origin' = [origin EXCEPT !.manifest = m]
      BY <1>3 DEF RestoreUnmark
    <2>2. origin \in Trees /\ m \in Manifests
      BY TreeFields, NoManifestIs DEF BaseInv, DiskInv
    <2>3. origin'.files = origin.files /\ (origin'.manifest.there => origin.manifest.there)
      BY <2>1, <2>2, ManifestAdded, NoManifestIs
    <2>4. QED
      BY <1>3, <2>3, EndsKept DEF RestoreUnmark, ghosts
  <1>4. ASSUME NEW a \in Operators, Restore(a) \/ \E e \in Entries : Purge(a, e)
        PROVE  KeptInv'
    <2>1. a \in Actors
      BY DEF Actors
    <2>2. QED
      BY <1>3, <1>4, <2>1, RestoreBeginKept, RestoreRenameKept, RestoreCopyBeginKept, RestoreCopyKept,
         RestoreFailsKept, RestoreVerifyKept, RestoreClearKept, PurgeKept DEF Restore
  <1>5. QED
    BY <1>2, <1>4, ExpireKept, WriteKept, RestKept DEF Next, Expire

(* Nothing is lost, of any number of files and entries, while at most one
   cleanup and at most one operator are at work: with two cleanups each may take
   the other's new generation for an older one, and of two operators who restore the
   same entry one may remove what the other has brought home. *)
THEOREM NothingIsLost ==
  ASSUME OneEach
  PROVE  Spec => []Kept
  <1>1. Init => BaseInv /\ KeptInv
    BY InitBase, InitKept
  <1>2. BaseInv /\ KeptInv /\ [Next]_vars => (BaseInv /\ KeptInv)'
    BY NextBase, NextKept
  <1>3. BaseInv /\ KeptInv => Kept
    <2>1. SUFFICES ASSUME KeptInv, NEW f \in Owed
                   PROVE  f \in origin.files \cup UNION {entry[e].files : e \in Entries}
      BY DEF Kept, Owed
    <2>2. Beside(f, 0)
      BY <2>1 DEF KeptInv, Secure
    <2>3. CASE f \in origin.files
      BY <2>3
    <2>4. CASE \E x \in Entries : f \in entry[x].files
      BY <2>4
    <2>5. QED
      BY <2>2, <2>3, <2>4 DEF Beside
  <1>4. QED
    BY <1>1, <1>2, <1>3, PTL DEF Spec

=============================================================================
