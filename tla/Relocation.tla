----------------------------- MODULE Relocation -----------------------------
(***************************************************************************)
(* Moving a cold directory to another disk and leaving a symlink behind    *)
(* (relocate.rs), with the guard's relocate-first cleanup (main.rs,        *)
(* run_auto_relocate), its record of the moves, and the link policy        *)
(* (links.rs) that works on the same paths.                                *)
(*                                                                         *)
(* A source is one directory; around it are the places a run or an         *)
(* operator may put its tree: the staging name beside it, the backup a     *)
(* forced link makes, and one destination for each destination root.       *)
(* Each run may die between any two steps, several runs may be in flight   *)
(* (background cleanups overlap, an operator has the command line), and    *)
(* somebody writes to the directory meanwhile.                             *)
(***************************************************************************)
EXTENDS Naturals, FiniteSets

CONSTANTS
    Sources,      \* directories to relocate
    FilesOf,      \* the files that may come to be in each of them
    Runs,         \* relocations: plan and apply of one source to one root
    SourceOf,     \* the source of each run
    DestOf,       \* the place its destination root gives to the source
    Recording,    \* the runs that are the guard's: they record their moves
    MaxStarts,    \* how often each run is begun
    Entry,        \* the source and target of the link policy's entry
    MaxApplies    \* how often the link policy is applied

Dests == {DestOf[r] : r \in Runs}
Places == {"source", "staging", "backup"} \cup Dests

ASSUME RelocationAssumption ==
    /\ SourceOf \in [Runs -> Sources]
    /\ Dests \cap {"source", "staging", "backup"} = {}
    /\ \A s \in Sources : IsFiniteSet(FilesOf[s])
    /\ Recording \subseteq Runs
    /\ MaxStarts \in [Runs -> Nat] /\ MaxApplies \in Nat
    /\ Entry.source \in Sources /\ Entry.target \in Dests

VARIABLES
    at,        \* what is at each place of each source
    run,       \* each run: where it is, what it planned, what it has to copy
    starts,    \* begun runs (bound)
    records,   \* the file of relocation records: links and their targets
    link,      \* the application of the link policy: where it is
    applies,   \* its applications (bound)
    written,   \* ghost: the files ever written to a source
    late,      \* ghost: those written while its tree was on the move or split
    cut,       \* ghost: the sources cut short after staging, or linked by policy
    moved,     \* ghost: where the guard's last completed move took a source
    muddled    \* ghost: a record was written over a stale copy, or torn

ledger == <<records, moved, muddled>>
env == <<link, applies, written, late, cut>>
vars == <<at, run, starts, ledger, env>>

Absent == [kind |-> "absent"]
Dir(F) == [kind |-> "dir", files |-> F]
Link(p) == [kind |-> "link", to |-> p]
IsDir(n) == n.kind = "dir"
IsLink(n) == n.kind = "link"

Nodes(s) ==
    {Absent} \cup {Dir(F) : F \in SUBSET FilesOf[s]} \cup {Link(p) : p \in Dests}

NoRun == [pc |-> "idle", plan |-> 0, todo |-> {}, copy |-> {}]
Phases == {"idle", "planned", "checked", "copying", "failed", "verified",
           "staged", "unlinked", "linked", "recording", "writing"}

\* What a path through the source leads to: symlinks are followed.
Resolved(s) ==
    LET n == at[s]["source"] IN IF IsLink(n) THEN at[s][n.to] ELSE n
FilesAt(n) == IF IsDir(n) THEN n.files ELSE {}

\* rename(2): a directory replaces only an empty directory, a link only a link.
CanRename(n, onto) ==
    /\ n # Absent
    /\ \/ onto = Absent
       \/ IsDir(n) /\ onto = Dir({})
       \/ IsLink(n) /\ IsLink(onto)

\* What remove_dir_all leaves: nothing, or, if it fails, part of the tree.
Removals(n) ==
    {Absent} \cup (IF IsDir(n) THEN {Dir(F) : F \in SUBSET n.files} ELSE {n})

Put(s, p, n) == at' = [at EXCEPT ![s][p] = n]
Rename(s, p, q) ==
    at' = [at EXCEPT ![s][q] = at[s][p], ![s][p] = Absent]
Goto(r, pc) == run' = [run EXCEPT ![r].pc = pc]
Ends(r) == run' = [run EXCEPT ![r] = NoRun]

Active(s) == \E r \in Runs : SourceOf[r] = s /\ run[r].pc # "idle"

-----------------------------------------------------------------------------
(* One relocation.                                                         *)

\* plan_relocate: a real directory, not protected and not tracked, whose
\* destination does not exist; the plan keeps what the strict walk counts.
Plan(r) ==
    LET s == SourceOf[r] IN
    /\ run[r].pc = "idle" /\ starts[r] < MaxStarts[r]
    /\ IsDir(at[s]["source"])
    /\ at[s][DestOf[r]] = Absent
    /\ run' = [run EXCEPT ![r] = [NoRun EXCEPT !.pc = "planned",
                 !.plan = Cardinality(at[s]["source"].files)]]
    /\ starts' = [starts EXCEPT ![r] = @ + 1]
    /\ UNCHANGED <<at, ledger, env>>

\* A dry run, a plan that does not fit, a git-tracked or protected source;
\* apply_relocate refuses for the disk's free space, or for what has changed.
Refuse(r) ==
    /\ run[r].pc = "planned"
    /\ Ends(r)
    /\ UNCHANGED <<at, starts, ledger, env>>

\* apply_relocate before any copying: no staging of an earlier run, no
\* destination, still a real directory.
Check(r) ==
    LET s == SourceOf[r] IN
    /\ run[r].pc = "planned"
    /\ at[s]["staging"] = Absent
    /\ at[s][DestOf[r]] = Absent
    /\ IsDir(at[s]["source"])
    /\ Goto(r, "checked")
    /\ UNCHANGED <<at, starts, ledger, env>>

\* copy_tree creates the destination and walks the source.
CopyBegin(r) ==
    LET s == SourceOf[r]  d == DestOf[r] IN
    /\ run[r].pc = "checked"
    /\ Put(s, d, Dir(FilesAt(at[s][d])))
    /\ IF IsDir(Resolved(s))
       THEN run' = [run EXCEPT ![r].pc = "copying", ![r].todo = Resolved(s).files]
       ELSE Goto(r, "failed")
    /\ UNCHANGED <<starts, ledger, env>>

\* One file; it may be one written since the walk began. A file copied onto
\* itself, through a link somebody made to this destination, is truncated.
CopyFile(r) ==
    LET s == SourceOf[r]  d == DestOf[r] IN
    /\ run[r].pc = "copying"
    /\ \E f \in FilesAt(Resolved(s)) :
         /\ f \in run[r].todo \/ f \notin FilesAt(at[s][d])
         /\ run' = [run EXCEPT ![r].todo = @ \ {f}]
         /\ Put(s, d, Dir(IF at[s]["source"] = Link(d)
                          THEN FilesAt(at[s][d]) \ {f}
                          ELSE FilesAt(at[s][d]) \cup {f}))
    /\ UNCHANGED <<starts, ledger, env>>

\* A file that cannot be read or written, no space left, a source that went.
CopyFails(r) ==
    /\ run[r].pc = "copying"
    /\ Goto(r, "failed")
    /\ UNCHANGED <<at, starts, ledger, env>>

\* Fault: an entry that cannot be read is skipped, and nobody counts.
Unverified(r) ==
    /\ run[r].pc = "copying"
    /\ Goto(r, "verified")
    /\ UNCHANGED <<at, starts, ledger, env>>

\* The destination is walked again and compared with the plan.
Verify(r) ==
    LET n == at[SourceOf[r]][DestOf[r]] IN
    /\ run[r].pc = "copying" /\ run[r].todo = {}
    /\ Goto(r, IF IsDir(n) /\ Cardinality(n.files) = run[r].plan
               THEN "verified" ELSE "failed")
    /\ UNCHANGED <<at, starts, ledger, env>>

\* "Anything there on failure is our own partial copy": it is removed, if it can be.
Cleanup(r) ==
    LET s == SourceOf[r]  d == DestOf[r] IN
    /\ run[r].pc = "failed"
    /\ \E n \in Removals(at[s][d]) : Put(s, d, n)
    /\ Ends(r)
    /\ UNCHANGED <<starts, ledger, env>>

\* The source is renamed to its staging name.
Stage(r) ==
    LET s == SourceOf[r] IN
    /\ run[r].pc = "verified"
    /\ CanRename(at[s]["source"], at[s]["staging"])
    /\ Rename(s, "source", "staging")
    /\ Goto(r, "staged")
    /\ UNCHANGED <<starts, ledger, env>>

\* The rename fails: the run ends, the copy stays.
StageFails(r) ==
    /\ run[r].pc = "verified"
    /\ Ends(r)
    /\ UNCHANGED <<at, starts, ledger, env>>

\* symlink(2), which needs the name to be free.
LinkSource(r) ==
    LET s == SourceOf[r] IN
    /\ run[r].pc = "staged"
    /\ at[s]["source"] = Absent
    /\ Put(s, "source", Link(DestOf[r]))
    /\ Goto(r, "linked")
    /\ UNCHANGED <<starts, ledger, env>>

LinkFails(r) ==
    /\ run[r].pc = "staged"
    /\ Goto(r, "unlinked")
    /\ UNCHANGED <<at, starts, ledger, env>>

\* Fault: nothing is renamed back.
NotRestored(r) ==
    /\ run[r].pc = "unlinked"
    /\ Ends(r)
    /\ UNCHANGED <<at, starts, ledger, env>>

\* The source is renamed back; if that fails, the tree stays in staging.
Restore(r) ==
    LET s == SourceOf[r] IN
    /\ run[r].pc = "unlinked"
    /\ \/ CanRename(at[s]["staging"], at[s]["source"]) /\ Rename(s, "staging", "source")
          /\ UNCHANGED cut
       \/ UNCHANGED at /\ cut' = cut \cup {s}
    /\ Ends(r)
    /\ UNCHANGED <<starts, ledger, link, applies, written, late>>

\* The staged tree is removed; a failure is a warning. Only run_auto_relocate
\* goes on to record_relocation.
Unstage(r) ==
    LET s == SourceOf[r] IN
    /\ run[r].pc = "linked"
    /\ \E n \in Removals(at[s]["staging"]) : Put(s, "staging", n)
    /\ IF r \in Recording THEN Goto(r, "recording") ELSE Ends(r)
    /\ UNCHANGED <<starts, ledger, env>>

-----------------------------------------------------------------------------
(* record_relocation: read, edit, write in place, without a lock.          *)

RecordRead(r) ==
    /\ run[r].pc = "recording"
    /\ run' = [run EXCEPT ![r].pc = "writing", ![r].copy = records]
    /\ UNCHANGED <<at, starts, ledger, env>>

\* Fault: the other records are not kept.
ForgetOthers(r) == {[link |-> SourceOf[r], to |-> DestOf[r]]}

\* One record for each link.
WithRecord(r) ==
    {x \in run[r].copy : x.link # SourceOf[r]}
        \cup {[link |-> SourceOf[r], to |-> DestOf[r]]}

RecordWrite(r) ==
    /\ run[r].pc = "writing"
    /\ records' = WithRecord(r)
    /\ moved' = [moved EXCEPT ![SourceOf[r]] = DestOf[r]]
    /\ muddled' = (muddled \/ run[r].copy # records)
    /\ Ends(r)
    /\ UNCHANGED <<at, starts, env>>

\* The write fails (a warning): the file is as it was, or truncated, and a
\* file that does not parse reads as no records.
RecordFails(r) ==
    /\ run[r].pc \in {"recording", "writing"}
    /\ \/ UNCHANGED <<records, muddled>>
       \/ run[r].pc = "writing" /\ records' = {} /\ muddled' = TRUE
    /\ Ends(r)
    /\ UNCHANGED <<at, starts, env, moved>>

\* The process dies. What it was removing or writing is left half-way, as the
\* failing alternatives of Cleanup, Unstage and RecordFails leave it.
Die(r) ==
    /\ run[r].pc # "idle"
    /\ cut' = IF run[r].pc \in {"staged", "unlinked"} THEN cut \cup {SourceOf[r]} ELSE cut
    /\ Ends(r)
    /\ UNCHANGED <<at, starts, ledger, link, applies, written, late>>

-----------------------------------------------------------------------------
(* links.rs: `link apply` for the one entry of the policy, the snippet a    *)
(* relocation prints to be put there.                                      *)

\* evaluate_link: what is wrong with a link.
Issue(s, target) ==
    LET n == at[s]["source"] IN
    IF at[s][target] = Absent THEN "target_missing"
    ELSE IF n = Absent THEN "link_missing"
    ELSE IF IsDir(n) THEN "path_not_symlink"
    ELSE IF n.to = target THEN "ok" ELSE "link_target_mismatch"

\* apply_one_link as far as the first change: without --force-replace a
\* directory is left alone, and what is in sync always is.
ApplyBegin ==
    LET issue == Issue(Entry.source, Entry.target) IN
    /\ link = "idle" /\ applies < MaxApplies
    /\ \/ issue = "link_missing" /\ link' = "linking"
       \/ issue = "link_target_mismatch" /\ link' = "removing"
       \/ issue = "path_not_symlink" /\ link' = "forcing"
    /\ applies' = applies + 1
    /\ UNCHANGED <<at, run, starts, ledger, written, late, cut>>

\* remove_file, which does not remove a directory.
ApplyRemove ==
    LET s == Entry.source IN
    /\ link = "removing"
    /\ IF IsLink(at[s]["source"])
       THEN Put(s, "source", Absent) /\ link' = "linking" /\ cut' = cut \cup {s}
       ELSE UNCHANGED <<at, cut>> /\ link' = "idle"
    /\ UNCHANGED <<run, starts, ledger, applies, written, late>>

\* --force-replace: what is there is renamed to a fresh backup name.
ApplyForce ==
    LET s == Entry.source IN
    /\ link = "forcing"
    /\ \/ /\ at[s]["source"] # Absent /\ at[s]["backup"] = Absent
          /\ Rename(s, "source", "backup") /\ link' = "replacing"
          /\ cut' = cut \cup {s}
       \/ UNCHANGED <<at, cut>> /\ link' = "idle"
    /\ UNCHANGED <<run, starts, ledger, applies, written, late>>

\* symlink(2); if it fails after a backup, the backup is renamed back.
ApplyLink ==
    LET s == Entry.source IN
    /\ link \in {"linking", "replacing"}
    /\ \/ /\ at[s]["source"] = Absent /\ Put(s, "source", Link(Entry.target))
          /\ UNCHANGED cut
       \/ /\ link = "replacing" /\ CanRename(at[s]["backup"], at[s]["source"])
          /\ Rename(s, "backup", "source") /\ UNCHANGED cut
       \/ UNCHANGED at /\ cut' = cut \cup {s}
    /\ link' = "idle"
    /\ UNCHANGED <<run, starts, ledger, applies, written, late>>

-----------------------------------------------------------------------------
(* Everybody else.                                                         *)

Busy(s) == Active(s) \/ (s = Entry.source /\ link # "idle")
OnTheMove(s) == Busy(s) \/ at[s]["staging"] # Absent \/ s \in cut

\* Somebody writes a new file under the source's path.
Write(s, f) ==
    LET n == at[s]["source"]  p == IF IsLink(n) THEN n.to ELSE "source" IN
    /\ f \in FilesOf[s] \ written[s]
    /\ IsDir(at[s][p])
    /\ Put(s, p, Dir(at[s][p].files \cup {f}))
    /\ written' = [written EXCEPT ![s] = @ \cup {f}]
    /\ late' = [late EXCEPT ![s] = IF OnTheMove(s) THEN @ \cup {f} ELSE @]
    /\ UNCHANGED <<run, starts, ledger, link, applies, cut>>

\* Somebody finds no directory there and makes one.
Recreate(s, f) ==
    /\ f \in FilesOf[s] \ written[s]
    /\ at[s]["source"] = Absent
    /\ Put(s, "source", Dir({f}))
    /\ written' = [written EXCEPT ![s] = @ \cup {f}]
    /\ late' = [late EXCEPT ![s] = @ \cup {f}]
    /\ UNCHANGED <<run, starts, ledger, link, applies, cut>>

\* The recovery that stale_staging_refusal prints when the source is missing,
\* and the one for a source that is already a link: verify, remove staging.
OperatorRestores(s) ==
    /\ ~Active(s) /\ at[s]["source"] = Absent /\ at[s]["staging"] # Absent
    /\ Rename(s, "staging", "source")
    /\ UNCHANGED <<run, starts, ledger, env>>

OperatorClears(s) ==
    /\ ~Active(s) /\ IsLink(at[s]["source"]) /\ at[s]["staging"] # Absent
    /\ IsDir(Resolved(s)) /\ FilesAt(at[s]["staging"]) \subseteq Resolved(s).files
    /\ Put(s, "staging", Absent)
    /\ UNCHANGED <<run, starts, ledger, env>>

\* An operator removes a copy that has everything from the source and is in
\* the way of the next relocation ("already exists").
OperatorDropsCopy(s, d) ==
    /\ ~Active(s) /\ IsDir(at[s]["source"]) /\ IsDir(at[s][d])
    /\ at[s][d].files \subseteq at[s]["source"].files
    /\ Put(s, d, Absent)
    /\ UNCHANGED <<run, starts, ledger, env>>

Init ==
    /\ written \in [Sources -> UNION {SUBSET FilesOf[s] : s \in Sources}]
    /\ \A s \in Sources : written[s] \subseteq FilesOf[s] /\ (written[s] = {} => FilesOf[s] = {})
    /\ at = [s \in Sources |-> [p \in Places |->
                 IF p = "source" THEN Dir(written[s]) ELSE Absent]]
    /\ run = [r \in Runs |-> NoRun] /\ starts = [r \in Runs |-> 0]
    /\ records = {} /\ moved = [s \in Sources |-> "none"] /\ muddled = FALSE
    /\ link = "idle" /\ applies = 0
    /\ late = [s \in Sources |-> {}] /\ cut = {}

Relocate(r) ==
    \/ Plan(r) \/ Refuse(r) \/ Check(r)
    \/ CopyBegin(r) \/ CopyFile(r) \/ CopyFails(r) \/ Verify(r) \/ Cleanup(r)
    \/ Stage(r) \/ StageFails(r) \/ LinkSource(r) \/ LinkFails(r)
    \/ Restore(r) \/ Unstage(r)
    \/ RecordRead(r) \/ RecordWrite(r) \/ RecordFails(r)
    \/ Die(r)

Apply == ApplyBegin \/ ApplyRemove \/ ApplyForce \/ ApplyLink

Others(s) ==
    \/ \E f \in FilesOf[s] : Write(s, f) \/ Recreate(s, f)
    \/ OperatorRestores(s) \/ OperatorClears(s)
    \/ \E d \in Dests : OperatorDropsCopy(s, d)

Next == (\E r \in Runs : Relocate(r)) \/ Apply \/ (\E s \in Sources : Others(s))

Spec == Init /\ [][Next]_vars

-----------------------------------------------------------------------------
(* The types: the paths, the disks, the record of relocations and the relocations
   under way. A link leads to a disk, never to itself. *)
TypeOK ==
    /\ \A s \in Sources :
         /\ DOMAIN at[s] = Places
         /\ \A p \in Places : at[s][p] \in Nodes(s)
         /\ at[s]["backup"] # Absent => s = Entry.source
         /\ late[s] \subseteq written[s] /\ written[s] \subseteq FilesOf[s]
    /\ \A r \in Runs :
         /\ run[r].pc \in Phases /\ run[r].todo \subseteq FilesOf[SourceOf[r]]
         /\ run[r].plan \in Nat /\ starts[r] \in 0 .. MaxStarts[r]
    /\ records \subseteq [link : Sources, to : Dests]
    /\ link \in {"idle", "linking", "removing", "forcing", "replacing"}
    /\ applies \in 0 .. MaxApplies

\* One place holds the whole directory, at every instant: whatever dies, fails
\* or is done at the same time, the tree that was there before a move is
\* complete at the source, in staging, in a backup or at a destination
\* (relocate.rs, apply_relocate: copy, verify, stage, link, and only then remove).
CompleteCopy ==
    \A s \in Sources : \E p \in Places :
        written[s] \ late[s] \subseteq FilesAt(at[s][p])

\* When nothing is under way, the path the workload uses leads to all of it:
\* to the directory itself or through the link to a complete destination. Only a
\* death or a double failure between staging and link, or a link policy that
\* points the path at whatever its target holds, may leave it elsewhere
\* (apply_relocate, "restored rather than left broken").
PathLeads ==
    \A s \in Sources : ~Busy(s) /\ s \notin cut =>
        written[s] \ late[s] \subseteq FilesAt(Resolved(s))

\* A move the guard completed is on record as long as nobody wrote over a
\* stale copy of the records (relocate.rs, record_relocation), so that the
\* drift check watches its link.
MovesAreRecorded ==
    ~muddled => \A s \in Sources :
        moved[s] # "none" => [link |-> s, to |-> moved[s]] \in records

=============================================================================
