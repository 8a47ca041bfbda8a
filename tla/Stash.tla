------------------------------- MODULE Stash --------------------------------
(***************************************************************************)
(* The stash (stash.rs): a directory that would be deleted is moved into   *)
(* the stash root instead, with a manifest that says where it came from;   *)
(* it can be restored, purged by name, and is deleted when its time is up. *)
(*                                                                         *)
(* One origin: the directories a stash root serves share nothing but the   *)
(* names of their entries, which are unique.  The guard's background       *)
(* cleanups move it automatically (stash_first_remove), the guard's pass   *)
(* expires entries (maybe_expire_stash), an operator moves by hand,        *)
(* restores and purges.  Origin and root are on one filesystem, where      *)
(* rename works, or on two, where the directory is copied.                 *)
(***************************************************************************)
EXTENDS Naturals, FiniteSets

CONSTANTS
    Files,        \* what may come to be in the origin
    MaxEntries,   \* entries ever made
    Cleanups,     \* background cleanups: automatic moves
    Operators     \* command lines: moves by hand, restores, purges

ASSUME StashAssumption == IsFiniteSet(Files) /\ MaxEntries \in Nat

Actors == Cleanups \cup Operators
Entries == 1 .. MaxEntries

VARIABLES
    cross,     \* origin and root are on different filesystems
    origin,    \* the directory; a restore may leave a manifest in it
    entry,     \* the entries of the root
    next,      \* the next entry's name
    old,       \* the entries whose time to live is over
    act,       \* each actor: where it is, its entry, its count, what is left
    pass,      \* the entries the guard's expiry has listed and not yet seen
    written,   \* ghost: all that was ever written to the origin
    late,      \* ghost: what was put into the origin while it was being moved or
               \*   restored, or was in the way of a restore that failed
    given,     \* ghost: what was given up: purged, expired, superseded
    spent      \* ghost: the entries whose removal was begun, or whose count is
               \*   that of another directory

disk == <<cross, origin, entry, next>>
ghosts == <<written, late, given, spent>>
vars == <<disk, old, act, pass, ghosts>>

NoManifest == [auto |-> FALSE, files |-> 0, there |-> FALSE]
Manifest(auto, n) == [auto |-> auto, files |-> n, there |-> TRUE]
Tree(F, m) == [there |-> TRUE, files |-> F, manifest |-> m]
Nothing == [there |-> FALSE, files |-> {}, manifest |-> NoManifest]
Idle == [pc |-> "idle", e |-> 0, auto |-> FALSE, count |-> 0, todo |-> {}]

Phases == {"idle", "moving", "copying", "removing", "publishing", "replacing",
           "restoring", "home", "back", "clearing"}

\* What remove_dir_all leaves of a tree: nothing, or part of it.
Remains(n) ==
    {Nothing} \cup {[there |-> n.there, files |-> F, manifest |-> m] :
                       F \in SUBSET n.files, m \in {n.manifest, NoManifest}}

\* rename(2) replaces nothing but an empty directory.
Vacant(n) == n.files = {} /\ ~n.manifest.there

Goto(a, pc) == act' = [act EXCEPT ![a].pc = pc]
Ends(a) == act' = [act EXCEPT ![a] = Idle]
SetEntry(e, n) == entry' = [entry EXCEPT ![e] = n]

Moving == \E a \in Actors : act[a].pc \in {"moving", "copying", "removing"}
Restoring == \E a \in Actors : act[a].pc \in {"restoring", "home", "back", "clearing"}

-----------------------------------------------------------------------------
(* stash_move_inner.                                                       *)

\* The preflight: a real directory, without the reserved name in it; a strict
\* count; a fresh name for the entry.
MoveBegin(a) ==
    /\ act[a].pc = "idle" /\ next \in Entries
    /\ origin.there /\ ~origin.manifest.there
    /\ act' = [act EXCEPT ![a] = [pc |-> "moving", e |-> next, auto |-> a \in Cleanups,
                                  count |-> Cardinality(origin.files), todo |-> origin.files]]
    /\ next' = next + 1
    /\ UNCHANGED <<cross, origin, entry, old, pass, ghosts>>

\* Within one filesystem the directory becomes the entry, even if it is another
\* directory by now than the one that was counted (ghost).
MoveRename(a) ==
    /\ act[a].pc = "moving" /\ ~cross /\ origin.there
    /\ SetEntry(act[a].e, origin)
    /\ origin' = Nothing
    /\ spent' = IF act[a].todo \subseteq origin.files /\ ~origin.manifest.there
                THEN spent ELSE spent \cup {act[a].e}
    /\ Goto(a, "publishing")
    /\ UNCHANGED <<cross, next, old, pass, written, late, given>>

\* Fault: the manifest is written before what it describes.
PublishFirst(a) ==
    /\ act[a].pc = "moving" /\ origin.there
    /\ SetEntry(act[a].e, Tree({}, Manifest(act[a].auto, act[a].count)))
    /\ act' = [act EXCEPT ![a].pc = "copying", ![a].todo = origin.files]
    /\ UNCHANGED <<cross, origin, next, old, pass, ghosts>>

\* Otherwise, or if the rename fails for another reason, it is copied.
MoveCopyBegin(a) ==
    /\ act[a].pc = "moving" /\ origin.there
    /\ SetEntry(act[a].e, Tree({}, NoManifest))
    /\ act' = [act EXCEPT ![a].pc = "copying", ![a].todo = origin.files]
    /\ UNCHANGED <<cross, origin, next, old, pass, ghosts>>

MoveCopy(a) ==
    /\ act[a].pc = "copying"
    /\ \E f \in origin.files :
         /\ f \in act[a].todo \/ f \notin entry[act[a].e].files
         /\ act' = [act EXCEPT ![a].todo = @ \ {f}]
         /\ entry' = [entry EXCEPT ![act[a].e].files = @ \cup {f}, ![act[a].e].there = TRUE]
    /\ UNCHANGED <<cross, origin, next, old, pass, ghosts>>

\* The origin is gone, an entry cannot be read or written, or the counts of the
\* copy differ from those of the preflight: the copy is removed, the origin untouched.
MoveFails(a) ==
    /\ act[a].pc \in {"moving", "copying"}
    /\ \E n \in Remains(entry[act[a].e]) : SetEntry(act[a].e, n)
    /\ Ends(a)
    /\ UNCHANGED <<cross, origin, next, old, pass, ghosts>>

MoveVerify(a) ==
    /\ act[a].pc = "copying" /\ act[a].todo = {}
    /\ Cardinality(entry[act[a].e].files) = act[a].count /\ ~origin.manifest.there
    /\ Goto(a, "removing")
    /\ UNCHANGED <<disk, old, pass, ghosts>>

\* remove_dir_all of the origin. If it fails the move ends, with what is left of
\* the origin and a whole entry that has no manifest.
MoveRemove(a) ==
    /\ act[a].pc = "removing"
    /\ \/ origin' = Nothing /\ (IF origin.there THEN Goto(a, "publishing") ELSE Ends(a))
       \/ origin' \in Remains(origin) \ {Nothing} /\ Ends(a)
    /\ UNCHANGED <<cross, entry, next, old, pass, ghosts>>

\* The manifest is staged, synced and published into the entry.
MovePublish(a) ==
    LET e == act[a].e IN
    /\ act[a].pc = "publishing" /\ entry[e].there /\ ~entry[e].manifest.there
    /\ entry' = [entry EXCEPT ![e].manifest = Manifest(act[a].auto, act[a].count)]
    /\ IF act[a].auto THEN Goto(a, "replacing") ELSE Ends(a)
    /\ UNCHANGED <<cross, origin, next, old, pass, ghosts>>

\* If that fails the entry is renamed back, which may fail as well.
MovePublishFails(a) ==
    LET e == act[a].e IN
    /\ act[a].pc = "publishing"
    /\ \/ /\ ~cross /\ entry[e].there /\ Vacant(origin)
          /\ origin' = entry[e] /\ SetEntry(e, Nothing)
          /\ late' = IF Moving THEN late \cup entry[e].files ELSE late
       \/ UNCHANGED <<origin, entry, late>>
    /\ Ends(a)
    /\ UNCHANGED <<cross, next, old, pass, written, given, spent>>

\* Fault: what was stashed by hand is replaced as well.
AnyGeneration(e) == entry[e].there /\ entry[e].manifest.there

\* A generation that an automatic move may replace: its manifest is readable and
\* says that it was made automatically.
AutoGeneration(e) == entry[e].there /\ entry[e].manifest.there /\ entry[e].manifest.auto

\* replace_older_auto_generations: any automatic generation that is not the
\* new one; a failure leaves it to the expiry. Giving up an older generation is
\* what the function is for (ghost).
MoveReplace(a) ==
    /\ act[a].pc = "replacing"
    /\ \E e \in Entries \ {act[a].e} :
         /\ AutoGeneration(e)
         /\ \E n \in Remains(entry[e]) : SetEntry(e, n)
         /\ given' = IF e < act[a].e /\ entry[e].manifest.auto
                     THEN given \cup entry[e].files ELSE given
         /\ spent' = spent \cup {e}
    /\ UNCHANGED <<cross, origin, next, old, act, pass, written, late>>

MoveEnds(a) ==
    /\ act[a].pc = "replacing"
    /\ Ends(a)
    /\ UNCHANGED <<disk, old, pass, ghosts>>

-----------------------------------------------------------------------------
(* stash_restore and stash_purge, at an operator's command line.           *)

\* A manifest, and no origin.
RestoreBegin(a, e) ==
    /\ act[a].pc = "idle"
    /\ entry[e].there /\ entry[e].manifest.there /\ ~origin.there
    /\ act' = [act EXCEPT ![a] = [Idle EXCEPT !.pc = "restoring", !.e = e,
                                              !.count = entry[e].manifest.files]]
    /\ UNCHANGED <<disk, old, pass, ghosts>>

\* The rename takes the manifest home, too; it is removed afterwards.
RestoreRename(a) ==
    LET e == act[a].e IN
    /\ act[a].pc = "restoring" /\ ~cross /\ entry[e].there /\ Vacant(origin)
    /\ origin' = entry[e]
    /\ SetEntry(e, Nothing)
    /\ late' = IF Moving THEN late \cup entry[e].files ELSE late
    /\ Goto(a, "home")
    /\ UNCHANGED <<cross, next, old, pass, written, given, spent>>

RestoreUnmark(a) ==
    /\ act[a].pc = "home"
    /\ \E m \in {origin.manifest, NoManifest} : origin' = [origin EXCEPT !.manifest = m]
    /\ Ends(a)
    /\ UNCHANGED <<cross, entry, next, old, pass, ghosts>>

\* Another filesystem, or a rename that failed, because the origin has come
\* to be in the meantime or the entry has gone.
RestoreCopyBegin(a) ==
    LET n == entry[act[a].e] IN
    /\ act[a].pc = "restoring"
    /\ cross \/ ~n.there \/ ~Vacant(origin)
    /\ origin' = Tree(origin.files, n.manifest)
    /\ act' = [act EXCEPT ![a].pc = "back", ![a].todo = n.files]
    /\ UNCHANGED <<cross, entry, next, old, pass, ghosts>>

RestoreCopy(a) ==
    /\ act[a].pc = "back"
    /\ \E f \in act[a].todo \cap entry[act[a].e].files :
         /\ act' = [act EXCEPT ![a].todo = @ \ {f}]
         /\ origin' = Tree(origin.files \cup {f}, origin.manifest)
         /\ late' = IF Moving THEN late \cup {f} ELSE late
    /\ UNCHANGED <<cross, entry, next, old, pass, written, given, spent>>

\* The copy fails, or its counts are not the manifest's: the origin is removed,
\* whoever made it, and the entry kept. What was in the way is lost (ghost).
RestoreFails(a) ==
    /\ act[a].pc = "back"
    /\ origin' \in Remains(origin)
    /\ late' = late \cup (origin.files \ entry[act[a].e].files)
    /\ Ends(a)
    /\ UNCHANGED <<cross, entry, next, old, pass, written, given, spent>>

\* The manifest is dropped from the copy, the copy is walked; a walk that
\* fails leaves both.
RestoreVerify(a) ==
    /\ act[a].pc = "back" /\ act[a].todo = {}
    /\ origin' = [origin EXCEPT !.manifest = NoManifest]
    /\ \/ Cardinality(origin.files) = act[a].count /\ Goto(a, "clearing")
       \/ Ends(a)
    /\ UNCHANGED <<cross, entry, next, old, pass, ghosts>>

RestoreClear(a) ==
    LET e == act[a].e IN
    /\ act[a].pc = "clearing"
    /\ \E n \in Remains(entry[e]) : SetEntry(e, n)
    /\ spent' = spent \cup {e}
    /\ Ends(a)
    /\ UNCHANGED <<cross, origin, next, old, pass, written, late, given>>

\* The operator gives up one entry, whatever its manifest.
Purge(a, e) ==
    /\ act[a].pc = "idle" /\ entry[e].there
    /\ \E n \in Remains(entry[e]) : SetEntry(e, n)
    /\ given' = given \cup entry[e].files
    /\ spent' = spent \cup {e}
    /\ UNCHANGED <<cross, origin, next, old, act, pass, written, late>>

\* A process dies; what it was removing is left half-way, as the failing
\* alternatives leave it.
Die(a) ==
    /\ act[a].pc # "idle"
    /\ Ends(a)
    /\ UNCHANGED <<disk, old, pass, ghosts>>

-----------------------------------------------------------------------------
(* stash_expire_detailed, from the guard's pass.                           *)

\* stash_list: only a readable manifest says how old an entry is.
Expired(e) == entry[e].there /\ entry[e].manifest.there /\ e \in old

\* The list is made first.
ExpireList ==
    /\ pass = {}
    /\ pass' = {e \in Entries : Expired(e)}
    /\ pass' # {}
    /\ UNCHANGED <<disk, old, act, ghosts>>

First(S) == CHOOSE e \in S : \A f \in S : e <= f

\* Then each entry of it is removed, whatever has become of it; one that
\* vanished is skipped.
ExpireOne ==
    LET e == First(pass) IN
    /\ pass # {}
    /\ SetEntry(e, Nothing)
    /\ pass' = pass \ {e}
    /\ given' = IF entry[e].manifest.there THEN given \cup entry[e].files ELSE given
    /\ spent' = IF entry[e].there THEN spent \cup {e} ELSE spent
    /\ UNCHANGED <<cross, origin, next, old, act, written, late>>

\* A removal that fails ends the batch; so does the death of the guard.
ExpireFails ==
    LET e == First(pass) IN
    /\ pass # {}
    /\ \E n \in Remains(entry[e]) \cup {entry[e]} :
         /\ SetEntry(e, n)
         /\ given' = IF n # entry[e] /\ entry[e].manifest.there
                     THEN given \cup entry[e].files ELSE given
         /\ spent' = IF n # entry[e] THEN spent \cup {e} ELSE spent
    /\ pass' = {}
    /\ UNCHANGED <<cross, origin, next, old, act, written, late>>

-----------------------------------------------------------------------------
(* Everybody else.                                                         *)

\* A build writes to the origin, and makes it if it is not there.
Write(f) ==
    /\ f \in Files \ written
    /\ origin' = Tree(origin.files \cup {f}, origin.manifest)
    /\ written' = written \cup {f}
    /\ late' = IF Moving \/ Restoring THEN late \cup {f} ELSE late
    /\ UNCHANGED <<cross, entry, next, old, act, pass, given, spent>>

\* The time to live of an entry is over.
Ages(e) ==
    /\ entry[e].manifest.there /\ e \notin old
    /\ old' = old \cup {e}
    /\ UNCHANGED <<disk, act, pass, ghosts>>

Init ==
    /\ cross \in BOOLEAN
    /\ written \in SUBSET Files /\ origin = Tree(written, NoManifest)
    /\ entry = [e \in Entries |-> Nothing] /\ next = 1 /\ old = {} /\ pass = {}
    /\ act = [a \in Actors |-> Idle]
    /\ late = {} /\ given = {} /\ spent = {}

Move(a) ==
    \/ MoveBegin(a) \/ MoveRename(a) \/ MoveCopyBegin(a) \/ MoveCopy(a)
    \/ MoveFails(a) \/ MoveVerify(a) \/ MoveRemove(a)
    \/ MovePublish(a) \/ MovePublishFails(a) \/ MoveReplace(a) \/ MoveEnds(a)

Restore(a) ==
    \/ \E e \in Entries : RestoreBegin(a, e)
    \/ RestoreRename(a) \/ RestoreUnmark(a)
    \/ RestoreCopyBegin(a) \/ RestoreCopy(a) \/ RestoreFails(a)
    \/ RestoreVerify(a) \/ RestoreClear(a)

Expire == ExpireList \/ ExpireOne \/ ExpireFails

Next ==
    \/ \E a \in Actors : Move(a) \/ Die(a)
    \/ \E a \in Operators : Restore(a) \/ (\E e \in Entries : Purge(a, e))
    \/ Expire
    \/ \E f \in Files : Write(f)
    \/ \E e \in Entries : Ages(e)

Spec == Init /\ [][Next]_vars

-----------------------------------------------------------------------------
Trees ==
    [there : BOOLEAN, files : SUBSET Files,
     manifest : [auto : BOOLEAN, files : 0 .. Cardinality(Files), there : BOOLEAN]]

\* The types: the origin, the entries with their manifests, and who is at work.
TypeOK ==
    /\ cross \in BOOLEAN /\ origin \in Trees /\ entry \in [Entries -> Trees]
    /\ next \in 1 .. MaxEntries + 1 /\ old \subseteq Entries /\ pass \subseteq Entries
    /\ \A a \in Actors : /\ act[a].pc \in Phases /\ act[a].e \in 0 .. next - 1
                         /\ act[a].todo \subseteq Files
    /\ \A e \in Entries : e >= next => entry[e] = Nothing
    /\ late \subseteq written /\ given \subseteq written /\ written \subseteq Files

\* Nothing is lost: what lay in the origin is there or in an entry, until an
\* operator purges it by name, its manifest says it has expired, or a newer
\* automatic generation takes the place of an older one (stash.rs; PIN_REASON,
\* replace_older_auto_generations). A death leaves at worst an entry without
\* manifest, and nothing unattended removes that.
Kept ==
    written \ (late \cup given) \subseteq
        origin.files \cup UNION {entry[e].files : e \in Entries}

\* A manifest tells the truth: an entry that has one holds at least what the
\* manifest counts, unless its removal was begun or the origin was exchanged
\* after the count. A restore by rename trusts it (stash_restore).
ManifestMeansWhole ==
    \A e \in Entries \ spent :
        entry[e].manifest.there => Cardinality(entry[e].files) >= entry[e].manifest.files
=============================================================================
