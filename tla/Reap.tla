-------------------------------- MODULE Reap --------------------------------
(***************************************************************************)
(* Ending abandoned processes (reap.rs, forgotten.rs, main.rs): idle dev   *)
(* servers, orphaned servers under memory pressure, and orphaned test      *)
(* browsers as whole trees, whose profile directory is then removed.       *)
(*                                                                         *)
(* Signals go to numbers.  A process is known by its start, and numbers    *)
(* are used again between any two steps of the pass.                       *)
(***************************************************************************)
EXTENDS Integers

CONSTANTS
    Pids,          \* process numbers
    MaxBirths      \* bound: processes started

ASSUME ReapAssumption == MaxBirths \in Nat

VARIABLES
    proc,       \* the process that has a number, or None
    births,     \* starts handed out: the clock
    hunt,       \* the reaping pass
    profile,    \* the profile directory of the test browsers exists
    clock,      \* when the pass last verified or checked
    ok          \* the processes that were due then

reapVars == <<proc, births, hunt, profile, clock, ok>>

ReapRules == {"stale", "orphan", "tree"}
ProcessKinds == {"server", "root", "helper", "other"}
None == [start |-> 0, kind |-> "other", of |-> 0, orphan |-> FALSE,
         busy |-> FALSE, old |-> FALSE]
Alive == {p \in Pids : proc[p] # None}

NoHunt == [at |-> "idle", rule |-> "stale", root |-> 0,
           seen |-> [p \in Pids |-> 0], todo |-> {}, sent |-> {}]

ReapInit ==
        /\ proc = [p \in Pids |-> None] /\ births = 0
        /\ hunt = NoHunt /\ profile = FALSE
        /\ clock = 0 /\ ok = {}

------------------------------------------------------------------------------
(* The processes: servers, a browser (root) and its helpers, others -- with a
   terminal, exempt, or of no signature.                                     *)

Born(p, kind) ==
    /\ proc[p] = None /\ births < MaxBirths
    /\ births' = births + 1
    /\ \E parent \in IF kind = "helper" THEN {q \in Alive : proc[q].kind = "root"} ELSE {p} :
          proc' = [proc EXCEPT ![p] =
              [None EXCEPT !.start = births + 1, !.kind = kind,
                           !.of = IF kind = "helper" THEN proc[parent].start ELSE births + 1]]
    /\ profile' = (profile \/ kind = "root")
    /\ UNCHANGED <<hunt, clock, ok>>

Exit(p) ==
    /\ p \in Alive
    /\ proc' = [proc EXCEPT ![p] = None]
    /\ UNCHANGED <<births, hunt, profile, clock, ok>>

\* Its owner dies; it starts or stops working or being driven; time passes.
Change(p) ==
    /\ p \in Alive
    /\ \/ proc' = [proc EXCEPT ![p].orphan = TRUE]
       \/ proc' = [proc EXCEPT ![p].busy = ~@]
       \/ proc' = [proc EXCEPT ![p].old = TRUE]
    /\ UNCHANGED <<births, hunt, profile, clock, ok>>

------------------------------------------------------------------------------
(* Scan and verification.                                                    *)

\* The gates a scan and a verification share: an allowlisted server that sleeps;
\* one whose owner is dead; a test browser whose owner is dead, that sleeps and
\* that no client drives.
Fits(rule, x) ==
    CASE rule = "stale" -> x.kind = "server" /\ ~x.busy
      [] rule = "orphan" -> x.kind = "server" /\ x.orphan
      [] rule = "tree" -> x.kind = "root" /\ x.orphan /\ ~x.busy

\* Age is asked by the scan alone.
Due(rule, x) == x # None /\ Fits(rule, x) /\ (rule # "orphan" => x.old)

ScanServers(rule) ==
    /\ hunt.at = "idle" /\ rule \in {"stale", "orphan"}
    /\ \E p \in Pids : Due(rule, proc[p])
    /\ hunt' = [NoHunt EXCEPT !.at = "verify", !.rule = rule,
                              !.seen = [p \in Pids |-> IF Due(rule, proc[p])
                                                       THEN proc[p].start ELSE 0]]
    /\ UNCHANGED <<proc, births, profile, clock, ok>>

\* A tree: a root and its descendants (build_tree).
ScanTree(r) ==
    /\ hunt.at = "idle" /\ Due("tree", proc[r])
    /\ hunt' = [NoHunt EXCEPT !.at = "verify", !.rule = "tree", !.root = r,
                              !.seen = [p \in Pids |-> IF proc[p].of = proc[r].start
                                                       THEN proc[p].start ELSE 0]]
    /\ UNCHANGED <<proc, births, profile, clock, ok>>

\* Fault: the number is taken for the process.
SameNumber(p) == hunt.seen[p] # 0 /\ proc[p] # None
\* The process that was scanned still has its number.
Same(p) == hunt.seen[p] # 0 /\ proc[p].start = hunt.seen[p]

\* Everything that may rightly be ended now.
DueNow ==
    {proc[p].start : p \in
        {q \in Alive :
            IF hunt.rule = "tree"
            THEN \E r \in Alive : Due("tree", proc[r]) /\ proc[q].of = proc[r].start
            ELSE Due(hunt.rule, proc[q])}}

\* verify_candidate_for_reap, verify_orphan_for_reap: one candidate at a time.
Verify(p) ==
    /\ hunt.at = "verify" /\ hunt.rule # "tree" /\ hunt.seen[p] # 0
    /\ IF Same(p) /\ Fits(hunt.rule, proc[p])
       THEN hunt' = [hunt EXCEPT !.at = "term", !.seen[p] = 0, !.todo = {p}, !.sent = {}]
       ELSE hunt' = [hunt EXCEPT !.seen[p] = 0]
    /\ clock' = births /\ ok' = DueNow
    /\ UNCHANGED <<proc, births, profile>>

\* verify_forgotten_tree_for_reap: the root by every gate but age, the members
\* by their start; who is gone or replaced is left out.
VerifyTree ==
    /\ hunt.at = "verify" /\ hunt.rule = "tree"
    /\ IF Same(hunt.root) /\ Fits("tree", proc[hunt.root])
       THEN hunt' = [hunt EXCEPT !.at = "term", !.todo = {p \in Pids : Same(p)}]
       ELSE hunt' = NoHunt
    /\ clock' = births /\ ok' = DueNow
    /\ UNCHANGED <<proc, births, profile>>

\* No candidate is left, or the pass is past its budget, or dies.
EndHunt ==
    /\ hunt.at # "idle"
    /\ hunt' = NoHunt
    /\ UNCHANGED <<proc, births, profile, clock, ok>>

------------------------------------------------------------------------------
(* terminate_process, terminate_tree: TERM, up to fifty looks, KILL.         *)

\* Fault: in any order.
Turn(p) == p \in hunt.todo
\* Deepest first.
InTurn(p) == p \in hunt.todo /\ (p = hunt.root => hunt.todo = {p})

\* kill(2) reaches whoever has the number now; a refusal is not counted as sent.
Term(p) ==
    /\ hunt.at = "term" /\ InTurn(p)
    /\ \E reached \in IF p \in Alive THEN BOOLEAN ELSE {FALSE} :
          hunt' = [hunt EXCEPT !.todo = @ \ {p},
                               !.sent = IF reached THEN @ \cup {p} ELSE @,
                               !.at = IF hunt.todo = {p} THEN "wait" ELSE @]
    /\ UNCHANGED <<proc, births, profile, clock, ok>>

\* A look drops who is gone: that number is not signalled again.
Poll ==
    /\ hunt.at = "wait" /\ hunt.sent \ Alive # {}
    /\ hunt' = [hunt EXCEPT !.sent = @ \cap Alive]
    /\ UNCHANGED <<proc, births, profile, clock, ok>>

\* After the last look, KILL for whoever was there.
Escalate ==
    /\ hunt.at = "wait" /\ hunt.sent # {} /\ hunt.sent \subseteq Alive
    /\ hunt' = [hunt EXCEPT !.at = "kill", !.todo = hunt.sent]
    /\ UNCHANGED <<proc, births, profile, clock, ok>>

Kill(p) ==
    /\ hunt.at = "kill" /\ p \in hunt.todo
    /\ hunt' = [hunt EXCEPT !.todo = @ \ {p},
                            !.at = IF hunt.todo = {p} THEN "last" ELSE @]
    /\ UNCHANGED <<proc, births, profile, clock, ok>>

\* Done: the next candidate; or the tree's profile, if none that was signalled
\* is left (tree_yields_profile).  Who was refused or skipped does not count.
Done ==
    /\ hunt.at \in {"wait", "last"}
    /\ hunt.at = "wait" => hunt.sent = {}
    /\ IF hunt.rule # "tree"
       THEN hunt' = [hunt EXCEPT !.at = "verify", !.sent = {}]
       ELSE IF hunt.sent \cap Alive = {} /\ profile
       THEN hunt' = [NoHunt EXCEPT !.at = "check"]
       ELSE hunt' = NoHunt
    /\ UNCHANGED <<proc, births, profile, clock, ok>>

------------------------------------------------------------------------------
(* reclaim_reaped_browser_profiles.                                          *)

Browsers == {p \in Alive : proc[p].kind \in {"root", "helper"}}

\* Fault: the tree is trusted to be gone.
CheckProfileTrusts ==
    /\ hunt.at = "check"
    /\ hunt' = [hunt EXCEPT !.at = "remove"]
    /\ clock' = births
    /\ UNCHANGED <<proc, births, profile, ok>>

\* Nobody holds it open, no socket is in it, no command line names it.
CheckProfile ==
    /\ hunt.at = "check"
    /\ hunt' = IF Browsers = {} THEN [hunt EXCEPT !.at = "remove"] ELSE NoHunt
    /\ clock' = births
    /\ UNCHANGED <<proc, births, profile, ok>>

RemoveProfile ==
    /\ hunt.at = "remove"
    /\ profile' = FALSE
    /\ hunt' = NoHunt
    /\ UNCHANGED <<proc, births, clock, ok>>

ReapNext ==
        \/ \E p \in Pids :
              \/ \E kind \in ProcessKinds : Born(p, kind)
              \/ Exit(p) \/ Change(p)
              \/ ScanTree(p) \/ Verify(p) \/ Term(p) \/ Kill(p)
        \/ \E rule \in ReapRules : ScanServers(rule)
        \/ VerifyTree \/ EndHunt \/ Poll \/ Escalate \/ Done
        \/ CheckProfile \/ RemoveProfile

ReapSpec == ReapInit /\ [][ReapNext]_reapVars

------------------------------------------------------------------------------
(* Types; and a tree is ended deepest first: once its root has been signalled
   no member still waits for its signal (terminate_tree's order). *)
ReapTypeOK ==
    /\ proc \in [Pids -> [start : 0 .. MaxBirths, kind : ProcessKinds, of : 0 .. MaxBirths,
                          orphan : BOOLEAN, busy : BOOLEAN, old : BOOLEAN]]
    /\ births \in 0 .. MaxBirths /\ profile \in BOOLEAN
    /\ hunt \in [at : {"idle", "verify", "term", "wait", "kill", "last", "check", "remove"},
                 rule : ReapRules, root : Pids \cup {0}, seen : [Pids -> 0 .. MaxBirths],
                 todo : SUBSET Pids, sent : SUBSET Pids]
    /\ clock \in 0 .. births /\ ok \subseteq 1 .. MaxBirths
    /\ hunt.at = "term" /\ hunt.root \in hunt.sent => hunt.todo = {}

Signals(p) == hunt.at \in {"term", "kill"} /\ p \in hunt.todo \ hunt'.todo

(* A signal reaches a process that met every gate -- age too -- when its
   candidate was last verified, or one that took the number afterwards: what was
   scanned earlier is never trusted, though age is asked by the scan alone and
   numbers are used again in between (the starttime comparisons at kill time). *)
SignalsAreDue ==
    [][\A p \in Alive : Signals(p) =>
          proc[p].start \in ok \/ proc[p].start > clock]_reapVars

(* The profile is removed under no browser that was there when it was last
   checked: neither members the tree never listed (forked since the scan), nor
   those refused or skipped, nor a browser started on the same profile meanwhile
   (reclaim_reaped_browser_profiles re-checks what members_left = 0 promises). *)
ProfileIsDead ==
    [][profile /\ ~profile' => \A p \in Browsers : proc[p].start > clock]_reapVars

=============================================================================
