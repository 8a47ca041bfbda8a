------------------------------ MODULE Removal ------------------------------
(***************************************************************************)
(* What the cleaners may remove (main.rs, disk.rs, git_temp.rs): one entry *)
(* -- a tmp directory, a build target, a node_modules tree, git's scratch  *)
(* file or a trashed file -- its users, and cleaners that look at it,      *)
(* judge it and remove it in steps.                                        *)
(*                                                                         *)
(* Ages are classes: 0 under a minute, 1 young, 2 past the short limit     *)
(* (e2e, large, action, git), 3 past the long one.  Every cleaner reads    *)
(* its clock when its pass starts: only the first minute passes inside one.*)
(***************************************************************************)
EXTENDS Integers

CONSTANTS
    Cleaners,      \* passes that may run side by side: the guard's, an operator's
    Users,         \* processes that use the entry
    MaxTouches     \* bound: writes and new entries of the same name

ASSUME RemovalAssumption == MaxTouches \in Nat

VARIABLES
    family, barred,    \* what the entry is; why a cleaner might have to leave it
    top, deep,         \* ages: of the directory itself, of its newest content
    parts,             \* whole, part (a removal has begun) or gone
    info,              \* its .trashinfo
    use,               \* how each process uses it
    removals,          \* the passes
    stay, wrote,       \* whom each pass owes: seen and still there; wrote in time
    written

onDisk == <<top, deep, parts, info>>
removalVars == <<family, barred, onDisk, use, removals, stay, wrote, written>>

\* trash: emptied by age; bin: the same with trash_min_age_days = 0.  An entry may
\* lie under protected_paths; a trashed one may hold a name like a credential's.
Families == {"tmp", "target", "modules", "git", "trash", "bin"}
Bars == {"no", "protected", "credential"}
EntryKinds == {"none", "open", "exe", "socket", "pidfile", "build", "git", "hidden"}
Steps == {"idle", "look", "cut", "verdict", "remove", "sweep", "forget"}

\* The cleaners of each family, the guard's and the operator's.
RulesOf == [tmp |-> {"general", "large", "e2e", "profile", "disk"},
            target |-> {"action", "proactive", "storage"},
            modules |-> {"modules", "clean", "storage"},
            git |-> {"git", "diskgit"},
            trash |-> {"trash"},
            bin |-> {"empty", "wipe"}]
RemovalRules == UNION {RulesOf[f] : f \in Families}
Guards == RemovalRules \ {"clean", "git", "storage", "disk", "diskgit"}

\* When the disk is critical the age limits of litter and of targets are lifted.
Liftable == {"e2e", "action"}
AgedFirst == {"action", "proactive", "git"}
\* An operator's clean always deletes.
CanStash == {"action", "proactive", "modules"}

Using(kinds) == {u \in Users : use[u] \in kinds}

\* What each scan finds.  The descriptors of other users are hidden from all.
\* collect_open_paths_under: descriptors, cwd and exe under the tmp roots.
OpenPaths == Using({"open", "exe", "build"})
Sockets == Using({"socket"})
Binaries == Using({"exe"})
Pidfiles == Using({"pidfile"})
\* A cargo or rustc whose cwd is in the project; a package manager, anywhere.
Builders == Using({"build"})
Managers == Using({"build"})
\* A git that writes packs, in the repository.
Packers == Using({"git"})
\* ProcSnapshot: as OpenPaths, for any path.
Snapshot == Using({"open", "exe", "build"})

\* Whom each rule asks for, the others for nobody: those a scan surely finds,
\* for the pass ends when /proc or ps cannot be read,
Sure(rule) ==
    CASE rule \in {"general", "large", "e2e", "profile"} -> OpenPaths
      [] rule = "disk" -> Snapshot
      [] rule = "storage" -> IF family = "target" THEN Builders ELSE Managers
      [] OTHER -> {}

\* and those it misses when it cannot read: an unreadable /proc/net/unix has no
\* sockets, /proc that cannot be listed no binaries and no git, a pidfile or a
\* working directory that cannot be read is passed over.
Loose(rule) ==
    CASE rule \in {"general", "large", "e2e", "profile"} -> Sockets
      [] rule \in {"action", "proactive"} -> Builders
      [] rule = "storage" -> Binaries \cup Sockets \cup Pidfiles
      [] rule \in {"git", "diskgit"} -> Packers
      [] OTHER -> {}

NoRemoval == [at |-> "idle", rule |-> "general", lifted |-> FALSE, age |-> 0,
              seen |-> {}, dirty |-> FALSE]
Ended(c) == [removals EXCEPT ![c] = NoRemoval]

RemovalInit ==
           /\ family \in Families /\ barred \in Bars
           /\ barred = "credential" => family \in {"trash", "bin"}
           /\ top = 0 /\ deep = 0 /\ parts = "whole" /\ info = (family \in {"trash", "bin"})
           /\ use = [u \in Users |-> "none"]
           /\ removals = [c \in Cleaners |-> NoRemoval]
           /\ stay = [c \in Cleaners |-> {}] /\ wrote = [c \in Cleaners |-> {}]
           /\ written = 0

------------------------------------------------------------------------------
(* A pass: begin, look at the processes, read the clock, judge, remove.      *)

\* What a pass reads before it looks at the processes: find_rust_target_dirs,
\* find_git_temp_files and the audit of `disk` take the age.
Starts(c, rule, lifted) ==
    /\ removals[c].at = "idle" /\ parts # "gone" /\ rule \in RulesOf[family]
    /\ removals' = [removals EXCEPT ![c] =
          [NoRemoval EXCEPT !.at = IF rule \in {"modules", "clean", "trash", "empty", "wipe"}
                                   THEN "verdict" ELSE "look",
                            !.rule = rule, !.lifted = lifted,
                            !.age = IF rule \in AgedFirst THEN top ELSE 0]]
    /\ stay' = [stay EXCEPT ![c] = {}] /\ wrote' = [wrote EXCEPT ![c] = {}]
    /\ UNCHANGED <<family, barred, onDisk, use, written>>

\* A cleanup of the guard.
BeginPass(c, rule) ==
    /\ rule \in Guards
    /\ \E lifted \in IF rule \in Liftable THEN BOOLEAN ELSE {FALSE} :
          Starts(c, rule, lifted)

\* `guard clean`: the limit of targets is lifted, modules are never stashed.
BeginClean(c, rule) ==
    /\ rule \in {"action", "trash", "empty", "wipe", "clean", "git"}
    /\ Starts(c, rule, rule = "action")

\* `storage --cleanup --apply`: chosen by size and kind, not tracked.
BeginStorage(c) == Starts(c, "storage", FALSE)

\* tree_has_fresh_content: the whole tree, by its newest content.
Fresh(limit) == deep < limit

\* find_temp_cruft: what the audit lists, by the entry's own age;
\* directory_bytes_and_age: the newest content, and not known is live.
Cruft(floor) == top >= floor
LiveChurn(floor) == deep < floor

\* The floor of a finding of `disk`: a litter name has the short one.
SafeAge(litter) == IF litter THEN 2 ELSE 3

\* The findings of the audit that `disk clean` goes on with: old, idle, and free
\* in the audit's own snapshot.
AuditedTmp(floor) == Cruft(floor) /\ ~LiveChurn(floor) /\ Snapshot = {}
\* Its look for git's owners may miss them, like the one after it.
AuditedGit == top >= 2 /\ Snapshot = {}

\* `disk clean`: the audit, then apply_with_floors.
BeginDisk(c) ==
    \/ \E litter \in BOOLEAN : AuditedTmp(SafeAge(litter)) /\ Starts(c, "disk", litter)
    \/ AuditedGit /\ Starts(c, "diskgit", FALSE)

\* One scan for the whole pass (storage: right before it deletes).
LookAt(c) ==
      /\ removals[c].at = "look"
      /\ \E missed \in SUBSET Loose(removals[c].rule) :
            LET seen == Sure(removals[c].rule) \cup (Loose(removals[c].rule) \ missed)
            IN /\ removals' = [removals EXCEPT ![c].at = IF removals[c].rule = "e2e"
                                                         THEN "cut" ELSE "verdict",
                                               ![c].seen = seen]
               /\ stay' = [stay EXCEPT ![c] = seen]
      /\ UNCHANGED <<family, barred, onDisk, use, wrote, written>>

\* The lifted cutoff of the fast path is the time after the scan.
Cut(c) ==
    /\ removals[c].at = "cut"
    /\ removals' = [removals EXCEPT ![c].at = "verdict"]
    /\ UNCHANGED <<family, barred, onDisk, use, stay, wrote, written>>

\* tmp_entry_block: one scan's users, or a protected path.
Blocked(t) == t.seen # {} \/ barred # "no"

GeneralAllows(t) == ~Fresh(3) /\ ~Blocked(t)

\* Fault: the size-aware floor removes before it asks for users and protection.
LargeUngated(t) == ~Fresh(2)
\* A large entry while the disk fills: a shorter limit, the same block.
LargeAllows(t) == ~Fresh(2) /\ ~Blocked(t)

\* Test litter: what the general pass leaves, past the short limit; when the
\* disk is critical, anything not written since the cutoff.
E2eAllows(t) ==
    /\ Fresh(3)
    /\ IF t.lifted THEN ~t.dirty ELSE ~Fresh(2)
    /\ ~Blocked(t)

\* A reaped browser's profile has no age limit: its owner is dead, and no
\* command line names it now (path_named_by_live_cmdline).
ProfileAllows(t) == ~Blocked(t) /\ Using({"open"}) = {}

\* `disk clean` looks at the content again; protected_paths is not asked.
DiskAllows(t) == ~LiveChurn(SafeAge(t.lifted)) /\ t.seen = {}

\* git's scratch: no git packs in the repository, and the file is past the limit
\* by the age it was listed with; protected_paths is not asked.
GitAllows(t) == t.seen = {} /\ t.age >= 2
\* `disk clean` reads the age again, after its second snapshot.
DiskGitAllows(t) == t.seen = {} /\ top >= 2

\* The lingering limit by the age the scan found, unless critical; then nobody
\* building, and not touched in the last minute.
ActionAllows(t) ==
    /\ t.lifted \/ t.age >= 2
    /\ ~Blocked(t)
    /\ top > 0

ProactiveAllows(t) == t.age >= 3 /\ ~Blocked(t)

ModulesAllows(t) == top >= 3 /\ barred = "no"

\* Credential-like entries and protected ones stay.
TrashAllows(t) == top >= 3 /\ barred = "no"

\* Emptying asks no age.  While some name in the trash is like a credential's the
\* entries go one by one, by the rule above;
EmptyAllows(t) == barred = "no"

\* otherwise the whole directory goes, and only the directory itself is asked
\* for protection: a protected entry in it goes with the rest.
WipeAllows(t) == barred # "credential"

\* `storage --cleanup --apply` looks again right before it deletes.
StorageAllows(t) == t.seen = {} /\ top > 0 /\ barred = "no"

Allows(t) ==
    CASE t.rule = "general" -> GeneralAllows(t)
      [] t.rule = "large" -> LargeAllows(t)
      [] t.rule = "e2e" -> E2eAllows(t)
      [] t.rule = "profile" -> ProfileAllows(t)
      [] t.rule = "disk" -> DiskAllows(t)
      [] t.rule = "action" -> ActionAllows(t)
      [] t.rule = "proactive" -> ProactiveAllows(t)
      [] t.rule \in {"modules", "clean"} -> ModulesAllows(t)
      [] t.rule = "git" -> GitAllows(t)
      [] t.rule = "diskgit" -> DiskGitAllows(t)
      [] t.rule = "empty" -> EmptyAllows(t)
      [] t.rule = "wipe" -> WipeAllows(t)
      [] t.rule = "trash" -> TrashAllows(t)
      [] t.rule = "storage" -> StorageAllows(t)

Verdict(c) ==
    /\ removals[c].at = "verdict" /\ parts # "gone"
    /\ removals' = IF Allows(removals[c])
                   THEN [removals EXCEPT ![c] =
                         [NoRemoval EXCEPT !.at = "remove", !.rule = removals[c].rule]]
                   ELSE Ended(c)
    /\ UNCHANGED <<family, barred, onDisk, use, stay, wrote, written>>

\* A removal ends early: the entry is gone, or something in it is not ours to
\* delete (counted as denied), or the pass dies.
GiveUp(c) ==
    /\ removals[c].at # "idle"
    /\ removals' = Ended(c)
    /\ UNCHANGED <<family, barred, onDisk, use, stay, wrote, written>>

\* stash_first_remove on one file system: the tree is renamed into the stash.
Stash(c) ==
    /\ removals[c].at = "remove" /\ removals[c].rule \in CanStash /\ parts = "whole"
    /\ parts' = "gone"
    /\ removals' = Ended(c)
    /\ UNCHANGED <<family, barred, top, deep, info, use, stay, wrote, written>>

\* remove_file.
Unlink(c) ==
    /\ removals[c].at = "remove" /\ family = "git" /\ parts # "gone"
    /\ parts' = "gone"
    /\ removals' = Ended(c)
    /\ UNCHANGED <<family, barred, top, deep, info, use, stay, wrote, written>>

\* remove_dir_all: the content first, the directory last.
RemoveEntry(c) ==
    /\ removals[c].at = "remove" /\ family # "git" /\ parts # "gone"
    /\ parts' = "part"
    /\ removals' = [removals EXCEPT ![c].at = "sweep"]
    /\ UNCHANGED <<family, barred, top, deep, info, use, stay, wrote, written>>

\* Fault: the metadata goes first.
SweepForgets(c) ==
    /\ removals[c].at = "sweep" /\ parts = "part"
    /\ info' = FALSE
    /\ removals' = Ended(c)
    /\ UNCHANGED <<family, barred, top, deep, parts, use, stay, wrote, written>>

\* A new entry of the name is another directory: the old removal misses it.
Sweep(c) ==
    /\ removals[c].at = "sweep" /\ parts = "part"
    /\ parts' = "gone"
    /\ removals' = IF family \in {"trash", "bin"} THEN [removals EXCEPT ![c].at = "forget"]
                   ELSE Ended(c)
    /\ UNCHANGED <<family, barred, top, deep, info, use, stay, wrote, written>>

\* A wipe goes on to the info directory when the files did not all go, or were
\* refused: their directory is protected.
WipeFails(c) ==
    /\ removals[c].rule = "wipe"
    /\ \/ removals[c].at = "sweep"
       \/ removals[c].at = "verdict" /\ barred = "protected"
    /\ removals' = [removals EXCEPT ![c].at = "forget"]
    /\ UNCHANGED <<family, barred, onDisk, use, stay, wrote, written>>

\* purge_aged_trash_entries removes the .trashinfo once the entry is gone,
\* a wipe the whole info directory after the whole files directory.
Forget(c) ==
    /\ removals[c].at = "forget"
    /\ info' = FALSE
    /\ removals' = Ended(c)
    /\ UNCHANGED <<family, barred, top, deep, parts, use, stay, wrote, written>>

------------------------------------------------------------------------------
(* The users and the clock.                                                  *)

Use(u, kind) ==
    /\ use[u] = "none" /\ kind # "none" /\ parts # "gone"
    /\ use' = [use EXCEPT ![u] = kind]
    /\ UNCHANGED <<family, barred, onDisk, removals, stay, wrote, written>>

Release(u) ==
    /\ use[u] # "none"
    /\ use' = [use EXCEPT ![u] = "none"]
    /\ stay' = [c \in Cleaners |-> stay[c] \ {u}]
    /\ UNCHANGED <<family, barred, onDisk, removals, wrote, written>>

\* Only the lifted cutoff of the fast path needs to know of writes after it.
Dirtied == [c \in Cleaners |->
    [removals[c] EXCEPT !.dirty = removals[c].rule = "e2e" /\ removals[c].at = "verdict"]]

\* Which writes save the entry from a pass that has not judged it yet: any, for
\* the rules that judge by content; those that touch the directory, for the
\* rules that read its age when they judge.
Saves(c, touches) ==
    /\ removals[c].at = "verdict"
    /\ \/ removals[c].rule \in {"general", "large", "e2e", "disk"}
       \/ touches /\ removals[c].rule \in {"action", "modules", "clean", "trash", "storage",
                                           "diskgit"}

Write(u) ==
    /\ use[u] # "none" /\ parts # "gone" /\ written < MaxTouches
    /\ \E touches \in IF family = "git" THEN {TRUE} ELSE BOOLEAN :
          /\ top' = IF touches THEN 0 ELSE top
          /\ wrote' = [c \in Cleaners |->
                          IF Saves(c, touches) THEN wrote[c] \cup {u} ELSE wrote[c]]
    /\ deep' = 0 /\ written' = written + 1
    /\ removals' = Dirtied
    /\ UNCHANGED <<family, barred, parts, info, use, stay>>

\* A new entry of the same name; a trashed name is taken while its info exists.
Recreate ==
    /\ parts = "gone" /\ written < MaxTouches /\ ~info
    /\ parts' = "whole" /\ top' = 0 /\ deep' = 0 /\ info' = (family \in {"trash", "bin"})
    /\ use' = [u \in Users |-> "none"]
    /\ stay' = [c \in Cleaners |-> {}] /\ wrote' = [c \in Cleaners |-> {}]
    /\ removals' = Dirtied
    /\ written' = written + 1
    /\ UNCHANGED <<family, barred>>

Ageing(age, limit) == IF age < limit THEN age + 1 ELSE age

\* A minute goes by; after it a write has stopped counting for the rules that
\* ask only for the last minute.
Minute ==
    /\ deep = 0
    /\ deep' = 1 /\ top' = Ageing(top, 1)
    /\ wrote' = [c \in Cleaners |->
                    IF removals[c].at = "verdict" /\ removals[c].rule \in {"action", "storage"}
                    THEN {} ELSE wrote[c]]
    /\ UNCHANGED <<family, barred, parts, info, use, removals, stay, written>>

\* Hours and days pass between the passes.
Days ==
    /\ deep \in {1, 2} /\ \A c \in Cleaners : removals[c].at = "idle"
    /\ deep' = Ageing(deep, 3) /\ top' = Ageing(top, 3)
    /\ UNCHANGED <<family, barred, parts, info, use, removals, stay, wrote, written>>

RemovalNext ==
           \/ \E c \in Cleaners :
                 \/ \E rule \in RemovalRules : BeginPass(c, rule) \/ BeginClean(c, rule)
                 \/ BeginStorage(c) \/ BeginDisk(c)
                 \/ LookAt(c) \/ Cut(c) \/ Verdict(c) \/ GiveUp(c)
                 \/ Stash(c) \/ Unlink(c) \/ RemoveEntry(c) \/ Sweep(c) \/ WipeFails(c) \/ Forget(c)
           \/ \E u \in Users :
                 \/ \E kind \in EntryKinds : Use(u, kind)
                 \/ Release(u) \/ Write(u)
           \/ Recreate \/ Minute \/ Days

RemovalSpec == RemovalInit /\ [][RemovalNext]_removalVars

------------------------------------------------------------------------------
(* The values of the variables (the entry and the passes at work on it). *)
RemovalTypeOK ==
    /\ family \in Families /\ barred \in Bars
    /\ top \in 0 .. 3 /\ deep \in 0 .. top
    /\ parts \in {"whole", "part", "gone"} /\ info \in BOOLEAN
    /\ use \in [Users -> EntryKinds]
    /\ removals \in [Cleaners -> [at : Steps, rule : RemovalRules, lifted : BOOLEAN, age : 0 .. 3,
                                  seen : SUBSET Users, dirty : BOOLEAN]]
    /\ stay \in [Cleaners -> SUBSET Users] /\ wrote \in [Cleaners -> SUBSET Users]
    /\ written \in 0 .. MaxTouches

(* An entry that is in the trash, even in part, can be restored: its .trashinfo
   is there, whatever pass died half-way or raced another one
   (purge_aged_trash_entries' order of removals). Emptying keeps no such order
   (empty_trash_at): a file that could not be removed loses its .trashinfo. *)
Restorable == family = "trash" /\ parts # "gone" => info

Takes(c) == removals[c].at \in {"remove", "sweep"} /\ parts' # parts

(* A removal never takes an entry from a process that has used it since before
   the pass looked and that its look found -- what a scan that cannot read
   misses is nobody's guarantee (live_unix_socket_paths, live_git_owners and
   live_process_binary_under answer "none") -- nor from one that wrote it, in a
   way the rule's age sees, after that and before the verdict.  Only `disk clean`,
   the cleaner of git's scratch and the wipe of the whole trash take a protected
   entry, and no cleaner of the trash one that is like a credential.  So a lifted
   age limit (critical), a shorter one (large, litter) or another pass at work
   beside it never costs a process its files: tmp_entry_block,
   tree_has_fresh_content and the cutoffs. *)
UsersAreSpared ==
    [][\A c \in Cleaners : Takes(c) =>
          /\ stay[c] = {} /\ wrote[c] = {}
          /\ barred = "protected" => removals[c].rule \in {"disk", "git", "diskgit", "wipe"}
          /\ barred = "credential" => removals[c].rule \notin {"trash", "empty", "wipe"}]_removalVars

=============================================================================
