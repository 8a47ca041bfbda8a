---------------------------- MODULE GuardPassProofs ----------------------------
(* Proofs about the parts of the guard's pass. DiskPass: for any policy file and
   any number of cleanups the thresholds in force are in order, the pass and its
   cleanups keep their types, and the marker of another owner that a pass has
   seen stays his.  Removal: what the cleanups spare, for any number of cleaners
   and users.  Reap: who is signalled and when a profile goes, for any number of
   processes.  Reports: what is told, for every monitor, and with ServiceGrowth,
   which it extends, what is told of a service that grows.  The parts have variables
   of their own, and names that let one module extend them all. *)
EXTENDS TLAPS, DiskPass, Removal, Reap, Reports, SequenceTheorems

-----------------------------------------------------------------------------
(* The disk half of the pass. *)

Policies == [warn : Nat, action : Nat, critical : Nat, proactive : Nat,
             unfreeze : Nat, freeze : BOOLEAN, cycles : Nat, move : BOOLEAN]

(* A policy that may be in force: its thresholds are in order and it has a cycle. *)
InForce(p) ==
    /\ p.action \in Nat /\ p.cycles \in Nat \ {0}
    /\ 1 <= p.warn /\ p.warn <= p.action
    /\ p.action <= p.critical /\ p.critical <= Full
    /\ p.proactive < p.action \/ p.action = 1
    /\ p.unfreeze < p.action \/ p.action = 1
    /\ p.unfreeze >= 1

(* The types, of the functions as well. *)
IInv ==
    /\ InForce(policy)
    /\ cycle \in 0 .. policy.cycles - 1
    /\ used \in 0 .. Full /\ marker \in {"none", "guard", "other"} /\ due \subseteq Modes
    /\ pass \in [pc : {"between", "freeze", "clean"}, used : 0 .. Full, frozen : BOOLEAN]
    /\ task \in [Tasks -> [pc : {"idle", "move", "clean"}, mode : Modes, used : 0 .. Full]]

-----------------------------------------------------------------------------
(* Smaller and Larger, and what normalize_guard_policy makes of any policy file. *)
LEMMA Clamped ==
  ASSUME NEW x \in Nat, NEW lo \in Nat, NEW hi \in Nat, lo <= hi
  PROVE  /\ Smaller(Larger(x, lo), hi) \in Nat
         /\ lo <= Smaller(Larger(x, lo), hi) /\ Smaller(Larger(x, lo), hi) <= hi
  BY DEF Smaller, Larger

LEMMA NormalIsInOrder ==
  ASSUME NEW raw \in Policies
  PROVE  InForce(Normal(raw))
  <1> DEFINE warn == Smaller(Larger(raw.warn, 1), Full)
             action == Smaller(Larger(raw.action, warn), Full)
             critical == Smaller(Larger(raw.critical, Larger(raw.action, warn)), Full)
             Below(x) == IF x >= action THEN Larger(action - 1, 1) ELSE x
             unfreeze == Smaller(Larger(raw.unfreeze, 1), Full)
             cycles == Larger(raw.cycles, 1)
             p == Normal(raw)
  <1>1. /\ raw.warn \in Nat /\ raw.action \in Nat /\ raw.critical \in Nat /\ raw.proactive \in Nat
        /\ raw.unfreeze \in Nat /\ raw.cycles \in Nat
    BY DEF Policies
  <1>2. Full \in Nat /\ 1 <= Full
    BY DiskAssumption
  <1>3. warn \in Nat /\ 1 <= warn /\ warn <= Full
    BY <1>1, <1>2, Clamped
  <1>4. unfreeze \in Nat /\ 1 <= unfreeze
    BY <1>1, <1>2, Clamped
  <1>5. cycles \in Nat \ {0}
    BY <1>1 DEF Larger
  <1>6. /\ p.warn = warn /\ p.action = action /\ p.critical = critical
        /\ p.proactive = Below(raw.proactive) /\ p.unfreeze = Below(unfreeze) /\ p.cycles = cycles
    BY DEF Normal, Policies
  <1> HIDE DEF warn, unfreeze, cycles, p
  <1>7. action \in Nat /\ warn <= action /\ action <= Full
    BY <1>1, <1>2, <1>3, Clamped
  <1>8. action <= critical /\ critical <= Full
    BY <1>1, <1>2, <1>3 DEF Smaller, Larger
  <1> HIDE DEF action, critical
  <1>9. \A x \in Nat : (Below(x) < action \/ action = 1) /\ (x >= 1 => Below(x) >= 1)
    BY <1>3, <1>7 DEF Larger
  <1> HIDE DEF Below
  <1>10. InForce(p)
    BY <1>1, <1>3, <1>4, <1>5, <1>6, <1>7, <1>8, <1>9 DEF InForce
  <1>11. QED
    BY <1>10 DEF p

LEMMA NormalRaw ==
  ASSUME NEW raw \in Raw
  PROVE  InForce(Normal(raw))
  BY NormalIsInOrder, DiskAssumption DEF Policies

-----------------------------------------------------------------------------
LEMMA InitIInv ==
  ASSUME Init
  PROVE  IInv
  <1>1. InForce(policy)
    BY NormalRaw DEF Init
  <1>2. QED
    BY <1>1, DiskAssumption DEF Init, IInv, InForce, Idle, Between, Modes

(* Every step keeps them. *)
LEMMA Reached ==
  ASSUME IInv, [Next]_vars
  PROVE  IInv'
  <1> USE DiskAssumption DEF IInv, bounds
  <1>1. CASE UNCHANGED vars
    BY <1>1 DEF vars, InForce
  <1>2. CASE Look
    BY <1>2 DEF Look
  <1>3. CASE Freeze \/ Unfreeze \/ LeaveMarker
    BY <1>3 DEF Freeze, Unfreeze, LeaveMarker, AtFreeze, ToClean
  <1>4. ASSUME NEW mode \in Modes, Spawn(mode)
        PROVE  /\ due' \subseteq Modes
               /\ task' \in [Tasks -> [pc : {"idle", "move", "clean"}, mode : Modes, used : 0 .. Full]]
    BY <1>4 DEF Spawn
  <1>5. Between \in [pc : {"between", "freeze", "clean"}, used : 0 .. Full, frozen : BOOLEAN]
    BY DEF Between
  <1>6. NextCycle \in 0 .. policy.cycles - 1
    BY DEF NextCycle, InForce
  <1>7. CASE CleanPressure \/ CleanNothing
    BY <1>4, <1>5, <1>7 DEF CleanPressure, CleanNothing, EndPass, Modes
  <1>8. CASE CleanProactive \/ CountCycle
    BY <1>4, <1>5, <1>6, <1>8 DEF CleanProactive, CountCycle, EndPass, Modes
  <1>9. CASE \E mode \in Modes : CoolDown(mode)
    BY <1>9 DEF CoolDown
  <1>10. CASE \E t \in Tasks : Cleanup(t)
    BY <1>10 DEF Cleanup, Move, MoveEnds, Clean, Idle, Modes
  <1>11. CASE Fill \/ Pause \/ Resume
    BY <1>11 DEF Fill, Pause, Resume
  <1>12. CASE Reload
    BY <1>12, NormalRaw DEF Reload, InForce
  <1>13. CASE Restart
    BY <1>5, <1>13 DEF Restart, Idle, Modes, InForce
  <1>14. QED
    BY <1>1, <1>2, <1>3, <1>7, <1>8, <1>9, <1>10, <1>11, <1>12, <1>13 DEF Next, Pass, World

(* Every policy in force, after any start or reload and whatever the policy file
   says, has its thresholds in order (normalize_guard_policy). *)
THEOREM ThresholdsInOrder == Spec => []InOrder
  <1>1. IInv => InOrder
    BY DEF IInv, InForce, InOrder
  <1>2. QED
    BY <1>1, InitIInv, Reached, PTL DEF Spec

(* The pass sees a usage there can be, a cleanup has a mode, and the cycle stays
   below the policy's, also when a reload lowers it. *)
THEOREM TypeCorrect == Spec => []TypeOK
  <1>1. IInv => TypeOK
    BY DEF IInv, TypeOK
  <1>2. QED
    BY <1>1, InitIInv, Reached, PTL DEF Spec

(* A marker of another owner that the pass has seen is neither rewritten nor
   removed by any step of the pass or of its cleanups (manage_sync_freeze). *)
THEOREM OthersMarkerIsKept == Spec => OthersMarkerKept
  <1> DEFINE DiskKept == marker = "other" /\ (pass.frozen \/ pass.pc # "freeze") => marker' = "other" \/ Resume
  <1>1. ASSUME [Next]_vars PROVE DiskKept \/ UNCHANGED vars
    <2>1. CASE Freeze
      BY <2>1 DEF Freeze, AtFreeze
    <2>2. CASE Unfreeze
      BY <2>2 DEF Unfreeze
    <2>3. CASE Look \/ LeaveMarker \/ CleanPressure \/ CleanProactive \/ CountCycle \/ CleanNothing
      BY <2>3 DEF Look, LeaveMarker, CleanPressure, CleanProactive, CountCycle, CleanNothing
    <2>4. CASE (\E mode \in Modes : CoolDown(mode)) \/ (\E t \in Tasks : Cleanup(t))
      BY <2>4 DEF CoolDown, Cleanup, Move, MoveEnds, Clean
    <2>5. CASE World
      BY <2>5 DEF World, Fill, Pause, Resume, Reload, Restart
    <2>6. QED
      BY <1>1, <2>1, <2>2, <2>3, <2>4, <2>5 DEF Next, Pass
  <1>2. QED
    BY <1>1, PTL DEF Spec, OthersMarkerKept

-----------------------------------------------------------------------------
(* What the cleanups remove. *)

TaskSet == [at : Steps, rule : RemovalRules, lifted : BOOLEAN, age : 0 .. 3,
            seen : SUBSET Users, dirty : BOOLEAN]

(* The rules that ask for no process when they begin. *)
Unasking == {"modules", "clean", "trash", "empty", "wipe"}
ByContent == {"general", "large", "disk"}
ByTouch == {"modules", "clean", "trash", "diskgit"}

(* A write that should save the entry from a pass has made it young for the age
   which that pass asks. *)
Saving(t) ==
    \/ t.rule \in ByContent /\ deep <= 1
    \/ t.rule = "e2e" /\ deep <= 1 /\ t.dirty
    \/ t.rule \in {"action", "storage"} /\ top = 0
    \/ t.rule \in ByTouch /\ top <= 1

(* What a rule may take of an entry that is barred. *)
MayTake(rule) ==
    /\ barred = "protected" => rule \in {"disk", "git", "diskgit", "wipe"}
    /\ barred = "credential" => rule \notin {"trash", "empty", "wipe"}

(* A pass t that owes the processes S and the writers W. *)
Good(t, S, W) ==
    t.at # "idle" =>
        /\ t.rule \in RulesOf[family]
        /\ S \subseteq t.seen
        /\ t.rule \in Unasking => t.seen = {} /\ t.at # "look"
        /\ t.at = "cut" => t.rule = "e2e"
        /\ t.at \in {"look", "cut"} => W = {}
        /\ t.at = "verdict" => W = {} \/ Saving(t)
        /\ t.at \in {"remove", "sweep", "forget"} =>
              S = {} /\ W = {} /\ MayTake(t.rule)

(* The .trashinfo outlives the entry, and one pass at most takes it away. *)
InfoKept ==
    family = "trash" =>
        /\ parts # "gone" => info
        /\ \A c \in Cleaners : removals[c].at = "forget" => parts = "gone" /\ info
        /\ \A c, d \in Cleaners : removals[c].at = "forget" /\ removals[d].at = "forget" => c = d

RemovalTypes ==
    /\ family \in Families
    /\ top \in 0 .. 3 /\ deep \in 0 .. 3
    /\ removals \in [Cleaners -> TaskSet]
    /\ stay \in [Cleaners -> SUBSET Users] /\ wrote \in [Cleaners -> SUBSET Users]

AllGood == \A c \in Cleaners : Good(removals[c], stay[c], wrote[c])

RemovalIInv == RemovalTypes /\ AllGood /\ InfoKept

-----------------------------------------------------------------------------
(* Tasks by their parts. *)
RemovalTask(at, rule, lifted, age, seen, dirty) ==
           [at |-> at, rule |-> rule, lifted |-> lifted, age |-> age, seen |-> seen, dirty |-> dirty]

LEMMA TaskMade ==
  ASSUME NEW a \in Steps, NEW r \in RemovalRules, NEW l \in BOOLEAN, NEW g \in 0 .. 3,
         NEW s \in SUBSET Users, NEW d \in BOOLEAN
  PROVE  RemovalTask(a, r, l, g, s, d) \in TaskSet
  BY Zenon DEF RemovalTask, TaskSet

LEMMA TaskParts ==
  ASSUME NEW x \in TaskSet
  PROVE  /\ x.at \in Steps /\ x.rule \in RemovalRules /\ x.age \in 0 .. 3 /\ x.seen \in SUBSET Users
         /\ x.lifted \in BOOLEAN /\ x.dirty \in BOOLEAN
  BY Zenon DEF TaskSet

LEMMA TaskIs ==
  ASSUME NEW x \in TaskSet
  PROVE  x = RemovalTask(x.at, x.rule, x.lifted, x.age, x.seen, x.dirty)
  BY DEF TaskSet, RemovalTask

LEMMA TaskChanged ==
  ASSUME NEW x \in TaskSet, NEW v
  PROVE  /\ [x EXCEPT !.at = v] = RemovalTask(v, x.rule, x.lifted, x.age, x.seen, x.dirty)
         /\ [x EXCEPT !.dirty = v] = RemovalTask(x.at, x.rule, x.lifted, x.age, x.seen, v)
         /\ [x EXCEPT !.seen = v] = RemovalTask(x.at, x.rule, x.lifted, x.age, v, x.dirty)
         /\ [x EXCEPT !.rule = v] = RemovalTask(x.at, v, x.lifted, x.age, x.seen, x.dirty)
         /\ [x EXCEPT !.lifted = v] = RemovalTask(x.at, x.rule, v, x.age, x.seen, x.dirty)
         /\ [x EXCEPT !.age = v] = RemovalTask(x.at, x.rule, x.lifted, v, x.seen, x.dirty)
  <1> DEFINE a == x.at  r == x.rule  l == x.lifted  g == x.age  s == x.seen  d == x.dirty
  <1>1. x = RemovalTask(a, r, l, g, s, d)
    BY TaskIs
  <1> HIDE DEF a, r, l, g, s, d
  <1>2. /\ [x EXCEPT !.at = v] = RemovalTask(v, r, l, g, s, d)
        /\ [x EXCEPT !.dirty = v] = RemovalTask(a, r, l, g, s, v)
        /\ [x EXCEPT !.seen = v] = RemovalTask(a, r, l, g, v, d)
    BY <1>1 DEF RemovalTask
  <1>3. /\ [x EXCEPT !.rule = v] = RemovalTask(a, v, l, g, s, d)
        /\ [x EXCEPT !.lifted = v] = RemovalTask(a, r, v, g, s, d)
        /\ [x EXCEPT !.age = v] = RemovalTask(a, r, l, v, s, d)
    BY <1>1 DEF RemovalTask
  <1>4. QED
    BY <1>2, <1>3 DEF a, r, l, g, s, d

LEMMA RulesAre ==
  /\ \A f \in Families : RulesOf[f] \subseteq RemovalRules
  /\ "general" \in RemovalRules
  BY DEF RemovalRules, RulesOf, Families

LEMMA IdleIsTask == NoRemoval \in TaskSet /\ NoRemoval.at = "idle" /\ NoRemoval.rule = "general" /\ NoRemoval.seen = {}
  <1>1. NoRemoval = RemovalTask("idle", "general", FALSE, 0, {}, FALSE)
    BY Zenon DEF NoRemoval, RemovalTask
  <1>2. "idle" \in Steps /\ 0 \in 0 .. 3 /\ {} \in SUBSET Users
    BY DEF Steps
  <1>3. NoRemoval \in TaskSet
    BY <1>1, <1>2, RulesAre, TaskMade, Zenon
  <1>4. QED
    BY <1>3 DEF NoRemoval

LEMMA RemovalStarts ==
  ASSUME RemovalInit
  PROVE  RemovalIInv
  <1>1. RemovalTypes
    BY IdleIsTask DEF RemovalInit, RemovalTypes
  <1>2. AllGood
    BY IdleIsTask DEF RemovalInit, AllGood, Good
  <1>3. InfoKept
    BY IdleIsTask DEF RemovalInit, InfoKept
  <1>4. QED
    BY <1>1, <1>2, <1>3 DEF RemovalIInv

-----------------------------------------------------------------------------
(* A step of one pass. *)
LEMMA OneTask ==
  ASSUME RemovalTypes, AllGood, NEW c \in Cleaners, NEW t \in TaskSet,
         NEW S \in SUBSET Users, NEW W \in SUBSET Users,
         removals' = [removals EXCEPT ![c] = t], stay' = [stay EXCEPT ![c] = S],
         wrote' = [wrote EXCEPT ![c] = W],
         family' = family, barred' = barred, top' = top, deep' = deep,
         Good(t, S, W)
  PROVE  RemovalTypes' /\ AllGood'
  <1>1. RemovalTypes'
    BY DEF RemovalTypes
  <1>2. AllGood'
    <2>1. SUFFICES ASSUME NEW d \in Cleaners
                   PROVE  Good(removals[d], stay[d], wrote[d])'
      BY DEF AllGood
    <2>2. /\ removals'[d] = (IF d = c THEN t ELSE removals[d]) /\ stay'[d] = (IF d = c THEN S ELSE stay[d])
          /\ wrote'[d] = (IF d = c THEN W ELSE wrote[d])
      BY DEF RemovalTypes
    <2>3. Good(removals'[d], stay'[d], wrote'[d])
      BY <2>2 DEF AllGood
    <2>4. QED
      BY <2>3, Zenon DEF Good, Saving, MayTake
  <1>3. QED
    BY <1>1, <1>2

LEMMA OneInfo ==
  ASSUME RemovalTypes, InfoKept, NEW c \in Cleaners, NEW t \in TaskSet,
         removals' = [removals EXCEPT ![c] = t], family' = family, parts' = parts, info' = info,
         t.at # "forget"
  PROVE  InfoKept'
  <1>1. \A d \in Cleaners : removals'[d].at = "forget" => removals[d].at = "forget"
    BY DEF RemovalTypes
  <1>2. QED
    BY <1>1 DEF InfoKept

LEMMA PassKept ==
  ASSUME RemovalTypes, NEW c \in Cleaners
  PROVE  /\ removals[c] \in TaskSet /\ stay[c] \in SUBSET Users /\ wrote[c] \in SUBSET Users
         /\ stay = [stay EXCEPT ![c] = stay[c]] /\ wrote = [wrote EXCEPT ![c] = wrote[c]]
  BY DEF RemovalTypes

LEMMA IdleIsGood ==
  ASSUME NEW S, NEW W
  PROVE  Good(NoRemoval, S, W)
  BY IdleIsTask DEF Good

(* A pass that ends and touches nothing else. *)
LEMMA EndsStep ==
  ASSUME RemovalIInv, NEW c \in Cleaners, removals' = [removals EXCEPT ![c] = NoRemoval],
         stay' = stay, wrote' = wrote, family' = family, barred' = barred,
         top' = top, deep' = deep
  PROVE  RemovalTypes' /\ AllGood'
  <1>1. Good(NoRemoval, stay[c], wrote[c])
    BY IdleIsGood
  <1>2. stay' = [stay EXCEPT ![c] = stay[c]] /\ wrote' = [wrote EXCEPT ![c] = wrote[c]]
    BY PassKept DEF RemovalIInv
  <1>3. QED
    BY <1>1, <1>2, OneTask, PassKept, IdleIsTask, Zenon DEF RemovalIInv

LEMMA TaskFields ==
  ASSUME NEW a, NEW r, NEW l, NEW g, NEW s, NEW d
  PROVE  /\ RemovalTask(a, r, l, g, s, d).at = a /\ RemovalTask(a, r, l, g, s, d).rule = r
         /\ RemovalTask(a, r, l, g, s, d).seen = s /\ RemovalTask(a, r, l, g, s, d).age = g
         /\ RemovalTask(a, r, l, g, s, d).dirty = d /\ RemovalTask(a, r, l, g, s, d).lifted = l
  BY DEF RemovalTask

(* The task of a pass that has just begun. *)
Begun(at, rule, lifted, age) ==
    [NoRemoval EXCEPT !.at = at, !.rule = rule, !.lifted = lifted, !.age = age]

LEMMA BegunIs ==
  ASSUME NEW a \in Steps, NEW r \in RemovalRules, NEW l \in BOOLEAN, NEW g \in 0 .. 3
  PROVE  /\ Begun(a, r, l, g) \in TaskSet /\ Begun(a, r, l, g).at = a
         /\ Begun(a, r, l, g).rule = r /\ Begun(a, r, l, g).seen = {}
  <1> DEFINE i == "idle"  b == "general"  f == FALSE  z == 0  e == {}
  <1>1. NoRemoval = RemovalTask(i, b, f, z, e, f)
    BY Zenon DEF NoRemoval, RemovalTask
  <1>2. f \in BOOLEAN
    BY Zenon
  <1>3. e \in SUBSET Users
    OBVIOUS
  <1> HIDE DEF i, b, f, z
  <1> DEFINE one == [NoRemoval EXCEPT !.at = a]
             two == [one EXCEPT !.rule = r]
             three == [two EXCEPT !.lifted = l]
             four == [three EXCEPT !.age = g]
  <1>4. Begun(a, r, l, g) = four
    BY DEF Begun
  <1> HIDE DEF e
  <1>5. one = RemovalTask(a, b, f, z, e, f)
    BY <1>1 DEF RemovalTask
  <1> HIDE DEF one
  <1>6. two = RemovalTask(a, r, f, z, e, f)
    BY <1>5 DEF RemovalTask
  <1> HIDE DEF two
  <1>7. three = RemovalTask(a, r, l, z, e, f)
    BY <1>6 DEF RemovalTask
  <1> HIDE DEF three
  <1>8. four = RemovalTask(a, r, l, g, e, f)
    BY <1>7 DEF RemovalTask
  <1> HIDE DEF four
  <1>9. Begun(a, r, l, g) = RemovalTask(a, r, l, g, e, f)
    BY <1>4, <1>8
  <1>10. Begun(a, r, l, g) \in TaskSet
    BY <1>2, <1>3, <1>9, TaskMade, Zenon
  <1>11. Begun(a, r, l, g).at = a /\ Begun(a, r, l, g).rule = r /\ Begun(a, r, l, g).seen = e
    BY <1>9, TaskFields
  <1>12. QED
    BY <1>10, <1>11 DEF e

(* The task of a pass that has said yes. *)
Judged(at, rule) == [NoRemoval EXCEPT !.at = at, !.rule = rule]

LEMMA JudgedIs ==
  ASSUME NEW a \in Steps, NEW r \in RemovalRules
  PROVE  /\ Judged(a, r) \in TaskSet /\ Judged(a, r).at = a
         /\ Judged(a, r).rule = r /\ Judged(a, r).seen = {}
  <1> DEFINE i == "idle"  b == "general"  f == FALSE  z == 0  e == {}
  <1>1. NoRemoval = RemovalTask(i, b, f, z, e, f)
    BY Zenon DEF NoRemoval, RemovalTask
  <1>2. f \in BOOLEAN
    BY Zenon
  <1>3. e \in SUBSET Users /\ z \in 0 .. 3
    OBVIOUS
  <1> HIDE DEF i, b, f, z
  <1> DEFINE one == [NoRemoval EXCEPT !.at = a]
             two == [one EXCEPT !.rule = r]
  <1>4. Judged(a, r) = two
    BY DEF Judged
  <1> HIDE DEF e
  <1>5. one = RemovalTask(a, b, f, z, e, f)
    BY <1>1 DEF RemovalTask
  <1> HIDE DEF one
  <1>6. two = RemovalTask(a, r, f, z, e, f)
    BY <1>5 DEF RemovalTask
  <1> HIDE DEF two
  <1>7. Judged(a, r) = RemovalTask(a, r, f, z, e, f)
    BY <1>4, <1>6
  <1>8. Judged(a, r) \in TaskSet
    BY <1>2, <1>3, <1>7, TaskMade, Zenon
  <1>9. Judged(a, r).at = a /\ Judged(a, r).rule = r /\ Judged(a, r).seen = e
    BY <1>7, TaskFields
  <1>10. QED
    BY <1>8, <1>9 DEF e

LEMMA StartsStep ==
  ASSUME RemovalIInv, NEW c \in Cleaners, NEW rule \in RemovalRules, NEW lifted \in BOOLEAN,
         Starts(c, rule, lifted)
  PROVE  RemovalIInv'
  <1> DEFINE at == IF rule \in {"modules", "clean", "trash", "empty", "wipe"}
                   THEN "verdict" ELSE "look"
             age == IF rule \in AgedFirst THEN top ELSE 0
             t == Begun(at, rule, lifted, age)
  <1>1. /\ rule \in RulesOf[family]
        /\ removals' = [removals EXCEPT ![c] =
              [NoRemoval EXCEPT !.at = at, !.rule = rule, !.lifted = lifted, !.age = age]]
        /\ stay' = [stay EXCEPT ![c] = {}] /\ wrote' = [wrote EXCEPT ![c] = {}]
        /\ family' = family /\ barred' = barred /\ top' = top /\ deep' = deep
        /\ parts' = parts /\ info' = info
    BY Zenon DEF Starts, onDisk
  <1>2. at \in Steps /\ (at = "verdict" \/ at = "look") /\ (rule \in Unasking => at # "look")
    BY DEF Steps, Unasking
  <1>3. age \in 0 .. 3
    BY DEF RemovalIInv, RemovalTypes
  <1>4. {} \in SUBSET Users
    OBVIOUS
  <1> HIDE DEF at, age
  <1>5. t \in TaskSet
    BY <1>2, <1>3, BegunIs, Zenon
  <1>6. removals' = [removals EXCEPT ![c] = t]
    BY <1>1 DEF Begun
  <1>7. t.at = at /\ t.rule = rule /\ t.seen = {}
    BY <1>2, <1>3, BegunIs
  <1> HIDE DEF t
  <1>8. Good(t, {}, {})
    BY <1>1, <1>2, <1>7 DEF Good
  <1>9. RemovalTypes' /\ AllGood'
    BY <1>1, <1>4, <1>5, <1>6, <1>8, OneTask, Zenon DEF RemovalIInv
  <1>10. t.at # "forget"
    BY <1>2, <1>7
  <1>11. InfoKept'
    BY <1>1, <1>5, <1>6, <1>10, OneInfo, Zenon DEF RemovalIInv
  <1>12. QED
    BY <1>9, <1>11 DEF RemovalIInv

LEMMA BeginStep ==
  ASSUME RemovalIInv, NEW c \in Cleaners,
         \/ \E rule \in RemovalRules : BeginPass(c, rule) \/ BeginClean(c, rule)
         \/ BeginStorage(c) \/ BeginDisk(c)
  PROVE  RemovalIInv'
  <1>1. {TRUE, FALSE} = BOOLEAN
    BY Zenon
  <1>2. {"storage", "disk", "diskgit"} \subseteq RemovalRules
    BY DEF RemovalRules, RulesOf, Families
  <1>3. ASSUME NEW rule \in RemovalRules, BeginPass(c, rule)
        PROVE  RemovalIInv'
    BY <1>3, StartsStep, Zenon DEF BeginPass
  <1>4. ASSUME NEW rule \in RemovalRules, BeginClean(c, rule)
        PROVE  RemovalIInv'
    <2>1. (rule = "action") \in BOOLEAN
      BY Zenon
    <2>2. QED
      BY <1>4, <2>1, StartsStep, Zenon DEF BeginClean
  <1>5. CASE BeginStorage(c)
    BY <1>1, <1>2, <1>5, StartsStep, Zenon DEF BeginStorage
  <1>6. CASE BeginDisk(c)
    BY <1>1, <1>2, <1>6, StartsStep, Zenon DEF BeginDisk
  <1>7. QED
    BY <1>3, <1>4, <1>5, <1>6

LEMMA RemovalLook ==
  ASSUME RemovalIInv, NEW c \in Cleaners, LookAt(c)
  PROVE  RemovalIInv'
  <1>a. PICK missed \in SUBSET Loose(removals[c].rule) :
           /\ removals' = [removals EXCEPT
                 ![c].at = IF removals[c].rule = "e2e" THEN "cut" ELSE "verdict",
                 ![c].seen = Sure(removals[c].rule) \cup (Loose(removals[c].rule) \ missed)]
           /\ stay' = [stay EXCEPT
                 ![c] = Sure(removals[c].rule) \cup (Loose(removals[c].rule) \ missed)]
    BY Zenon DEF LookAt
  <1> DEFINE x == removals[c]
             seen == Sure(x.rule) \cup (Loose(x.rule) \ missed)
             at == IF x.rule = "e2e" THEN "cut" ELSE "verdict"
             t == RemovalTask(at, x.rule, x.lifted, x.age, seen, x.dirty)
  <1>1. /\ x.at = "look"
        /\ removals' = [removals EXCEPT ![c].at = at, ![c].seen = seen]
        /\ stay' = [stay EXCEPT ![c] = seen] /\ wrote' = wrote
        /\ family' = family /\ barred' = barred /\ top' = top /\ deep' = deep
        /\ parts' = parts /\ info' = info
    BY <1>a, Zenon DEF LookAt, onDisk
  <1>2. /\ x \in TaskSet /\ x.at \in Steps /\ x.rule \in RemovalRules /\ x.age \in 0 .. 3
        /\ x.lifted \in BOOLEAN /\ x.dirty \in BOOLEAN
    BY PassKept, TaskParts, Zenon DEF RemovalIInv
  <1>3. seen \in SUBSET Users
    BY DEF Sure, Loose, OpenPaths, Sockets, Snapshot, Builders, Managers, Binaries, Pidfiles,
           Packers, Using
  <1>4. at \in Steps /\ (at = "verdict" \/ (at = "cut" /\ x.rule = "e2e"))
    BY DEF Steps
  <1>5. x.rule \in RulesOf[family] /\ wrote[c] = {} /\ x.rule \notin Unasking
    BY <1>1 DEF RemovalIInv, AllGood, Good
  <1> HIDE DEF seen, at
  <1>6. t \in TaskSet
    BY <1>2, <1>3, <1>4, TaskMade, Zenon
  <1>7. t.at = at /\ t.rule = x.rule /\ t.seen = seen
    BY TaskFields
  <1>8. removals' = [removals EXCEPT ![c] = t]
    <2> HIDE DEF x
    <2> DEFINE one == [x EXCEPT !.at = at]
               two == [one EXCEPT !.seen = seen]
    <2>1. one = RemovalTask(at, x.rule, x.lifted, x.age, x.seen, x.dirty)
      BY <1>2, TaskChanged
    <2>2. removals' = [removals EXCEPT ![c] = two]
      <3>1. removals \in [Cleaners -> TaskSet]
        BY DEF RemovalIInv, RemovalTypes
      <3>2. QED
        BY <1>1, <3>1 DEF x
    <2> HIDE DEF one
    <2>3. two = t
      BY <2>1 DEF RemovalTask
    <2>4. QED
      BY <2>2, <2>3
  <1> HIDE DEF t
  <1>9. Good(t, seen, wrote[c])
    BY <1>4, <1>5, <1>7 DEF Good
  <1>10. wrote[c] \in SUBSET Users /\ wrote' = [wrote EXCEPT ![c] = wrote[c]]
    BY <1>1, PassKept DEF RemovalIInv
  <1>11. RemovalTypes' /\ AllGood'
    BY <1>1, <1>3, <1>6, <1>8, <1>9, <1>10, OneTask, Zenon DEF RemovalIInv
  <1>12. t.at # "forget"
    BY <1>4, <1>7
  <1>13. InfoKept'
    BY <1>1, <1>6, <1>8, <1>12, OneInfo, Zenon DEF RemovalIInv
  <1>14. QED
    BY <1>11, <1>13 DEF RemovalIInv

(* A pass that goes on and keeps what it knows. *)
LEMMA GoesOn ==
  ASSUME RemovalIInv, NEW c \in Cleaners, NEW at \in Steps,
         removals' = [removals EXCEPT ![c].at = at], stay' = stay, wrote' = wrote,
         family' = family, barred' = barred, top' = top, deep' = deep,
         removals[c].at # "idle",
         at = "verdict" => removals[c].at = "cut",
         at \in {"sweep", "forget"} =>
            \/ removals[c].at \in {"remove", "sweep", "forget"}
            \/ stay[c] = {} /\ wrote[c] = {} /\ MayTake(removals[c].rule),
         at \in {"verdict", "sweep", "forget"}
  PROVE  /\ RemovalTypes' /\ AllGood'
         /\ \A d \in Cleaners : removals'[d].at = IF d = c THEN at ELSE removals[d].at
  <1> DEFINE x == removals[c]
             t == RemovalTask(at, x.rule, x.lifted, x.age, x.seen, x.dirty)
  <1>1. /\ x \in TaskSet /\ x.rule \in RemovalRules /\ x.age \in 0 .. 3 /\ x.seen \in SUBSET Users
        /\ x.lifted \in BOOLEAN /\ x.dirty \in BOOLEAN
    BY PassKept, TaskParts, Zenon DEF RemovalIInv
  <1>2. t \in TaskSet
    BY <1>1, TaskMade, Zenon
  <1>3. t.at = at /\ t.rule = x.rule /\ t.seen = x.seen
    BY TaskFields
  <1>4. removals' = [removals EXCEPT ![c] = t] /\ removals \in [Cleaners -> TaskSet]
    <2> HIDE DEF x
    <2>1. [x EXCEPT !.at = at] = t
      BY <1>1, TaskChanged
    <2>2. removals \in [Cleaners -> TaskSet]
      BY DEF RemovalIInv, RemovalTypes
    <2>3. QED
      BY <2>1, <2>2 DEF x
  <1> HIDE DEF t
  <1>5. Good(t, stay[c], wrote[c])
    BY <1>3 DEF RemovalIInv, AllGood, Good
  <1>6. /\ stay[c] \in SUBSET Users /\ wrote[c] \in SUBSET Users
        /\ stay' = [stay EXCEPT ![c] = stay[c]] /\ wrote' = [wrote EXCEPT ![c] = wrote[c]]
    BY PassKept DEF RemovalIInv
  <1>7. RemovalTypes' /\ AllGood'
    BY <1>2, <1>4, <1>5, <1>6, OneTask, Zenon DEF RemovalIInv
  <1>8. QED
    BY <1>2, <1>3, <1>4, <1>7

LEMMA CutStep ==
  ASSUME RemovalIInv, NEW c \in Cleaners, Cut(c)
  PROVE  RemovalIInv'
  <1>1. /\ removals[c].at = "cut" /\ removals' = [removals EXCEPT ![c].at = "verdict"]
        /\ stay' = stay /\ wrote' = wrote
        /\ family' = family /\ barred' = barred /\ top' = top /\ deep' = deep
        /\ parts' = parts /\ info' = info
    BY Zenon DEF Cut, onDisk
  <1>2. "verdict" \in Steps
    BY DEF Steps
  <1>3. /\ RemovalTypes' /\ AllGood'
        /\ \A d \in Cleaners : removals'[d].at = IF d = c THEN "verdict" ELSE removals[d].at
    <2> DEFINE at == "verdict"
    <2>1. /\ at \in Steps /\ at = "verdict" /\ at \notin {"sweep", "forget"}
          /\ at \in {"verdict", "sweep", "forget"} /\ removals[c].at # "idle"
      BY <1>1, <1>2
    <2> HIDE DEF at
    <2>2. removals' = [removals EXCEPT ![c].at = at]
      BY <1>1 DEF at
    <2>3. /\ RemovalTypes' /\ AllGood'
          /\ \A d \in Cleaners : removals'[d].at = IF d = c THEN at ELSE removals[d].at
      BY <1>1, <2>1, <2>2, GoesOn, Zenon
    <2>4. QED
      BY <2>3 DEF at
  <1>4. \A d \in Cleaners : removals'[d].at = "forget" => removals[d].at = "forget"
    BY <1>3
  <1>5. InfoKept'
    BY <1>1, <1>4 DEF RemovalIInv, InfoKept
  <1>6. QED
    BY <1>3, <1>5 DEF RemovalIInv

LEMMA GiveUpStep ==
  ASSUME RemovalIInv, NEW c \in Cleaners, GiveUp(c)
  PROVE  RemovalIInv'
  <1>1. /\ removals' = [removals EXCEPT ![c] = NoRemoval] /\ stay' = stay /\ wrote' = wrote
        /\ family' = family /\ barred' = barred /\ top' = top /\ deep' = deep
        /\ parts' = parts /\ info' = info
    BY Zenon DEF GiveUp, Ended, onDisk
  <1>2. RemovalTypes' /\ AllGood'
    BY <1>1, EndsStep, Zenon
  <1>3. NoRemoval.at # "forget"
    BY IdleIsTask
  <1>4. InfoKept'
    BY <1>1, <1>3, IdleIsTask, OneInfo, Zenon DEF RemovalIInv
  <1>5. QED
    BY <1>2, <1>4 DEF RemovalIInv

(* What the verdict of each rule is worth: nobody is owed anything when it says yes. *)
LEMMA VerdictSpares ==
  ASSUME RemovalTypes, NEW t \in TaskSet, NEW S, NEW W, Good(t, S, W), t.at = "verdict", Allows(t)
  PROVE  W = {} /\ MayTake(t.rule) /\ S = {}
  <1>1. /\ t.rule \in RulesOf[family] /\ S \subseteq t.seen /\ (W = {} \/ Saving(t))
        /\ t.rule \in Unasking => t.seen = {}
    BY DEF Good
  <1>2. top \in 0 .. 3 /\ deep \in 0 .. 3
    BY DEF RemovalTypes
  <1>3. t.rule \in RemovalRules
    BY TaskParts
  <1> USE DEF Allows, Saving, ByContent, ByTouch, Unasking, Fresh, Blocked, LiveChurn, SafeAge,
              MayTake
  <1>4. CASE t.rule = "general"
    BY <1>1, <1>2, <1>4 DEF GeneralAllows
  <1>5. CASE t.rule = "large"
    BY <1>1, <1>2, <1>5 DEF LargeAllows
  <1>6. CASE t.rule = "e2e"
    BY <1>1, <1>2, <1>6 DEF E2eAllows
  <1>7. CASE t.rule = "profile"
    BY <1>1, <1>2, <1>7 DEF ProfileAllows
  <1>8. CASE t.rule = "disk"
    BY <1>1, <1>2, <1>8 DEF DiskAllows
  <1>9. CASE t.rule = "action"
    BY <1>1, <1>2, <1>9 DEF ActionAllows
  <1>10. CASE t.rule = "proactive"
    <2>1. ~Blocked(t)
      BY <1>10 DEF ProactiveAllows
    <2>2. t.seen = {} /\ barred = "no"
      BY <2>1, Zenon
    <2>3. ~Saving(t)
      BY <1>10
    <2>4. MayTake(t.rule)
      BY <2>2
    <2>5. QED
      BY <1>1, <2>2, <2>3, <2>4, Zenon
  <1>11. CASE t.rule \in {"modules", "clean"}
    <2>1. ModulesAllows(t)
      BY <1>11
    <2>2. top >= 3 /\ barred = "no"
      BY <2>1 DEF ModulesAllows
    <2>3. ~Saving(t)
      BY <1>2, <1>11, <2>2
    <2>4. MayTake(t.rule)
      BY <2>2
    <2>5. S = {}
      BY <1>1, <1>11
    <2>6. QED
      BY <1>1, <2>2, <2>3, <2>4, <2>5, Zenon
  <1>12. CASE t.rule = "git"
    BY <1>1, <1>2, <1>12 DEF GitAllows
  <1>13. CASE t.rule = "diskgit"
    BY <1>1, <1>2, <1>13 DEF DiskGitAllows
  <1>14. CASE t.rule = "empty"
    BY <1>1, <1>2, <1>14 DEF EmptyAllows
  <1>15. CASE t.rule = "trash"
    BY <1>1, <1>2, <1>15 DEF TrashAllows
  <1>16. CASE t.rule = "storage"
    BY <1>1, <1>2, <1>16 DEF StorageAllows
  <1>19. CASE t.rule = "wipe"
    BY <1>1, <1>2, <1>19 DEF WipeAllows
  <1>17. t.rule \in {"general", "large", "e2e", "profile", "disk", "action", "proactive", "modules",
                    "clean", "git", "diskgit", "empty", "wipe", "trash", "storage"}
    BY <1>3 DEF RemovalRules, RulesOf, Families
  <1>18. QED
    BY <1>4, <1>5, <1>6, <1>7, <1>8, <1>9, <1>10, <1>11, <1>12, <1>13, <1>14, <1>15, <1>16, <1>17,
       <1>19

LEMMA VerdictStep ==
  ASSUME RemovalIInv, NEW c \in Cleaners, Verdict(c)
  PROVE  RemovalIInv'
  <1> DEFINE x == removals[c]
             S == stay[c]
             r == x.rule
             t == [NoRemoval EXCEPT !.at = "remove", !.rule = x.rule]
             n == IF Allows(x) THEN t ELSE NoRemoval
  <1>1. /\ x.at = "verdict" /\ stay' = stay /\ wrote' = wrote
        /\ removals' = IF Allows(x) THEN [removals EXCEPT ![c] = t] ELSE [removals EXCEPT ![c] = NoRemoval]
        /\ family' = family /\ barred' = barred /\ top' = top /\ deep' = deep
        /\ parts' = parts /\ info' = info
    BY Zenon DEF Verdict, Ended, onDisk
  <1>2. /\ x \in TaskSet /\ x.rule \in RemovalRules /\ stay[c] \in SUBSET Users
        /\ wrote[c] \in SUBSET Users /\ stay = [stay EXCEPT ![c] = stay[c]]
        /\ wrote = [wrote EXCEPT ![c] = wrote[c]]
    BY PassKept, TaskParts, Zenon DEF RemovalIInv
  <1>4. S \in SUBSET Users /\ stay' = [stay EXCEPT ![c] = S]
    BY <1>1, <1>2
  <1>5. t \in TaskSet /\ t.at = "remove" /\ t.rule = x.rule /\ t.seen = {}
    <2> DEFINE at == "remove"
    <2>1. at \in Steps /\ r \in RemovalRules
      BY <1>2 DEF Steps
    <2>2. t = Judged(at, r)
      BY DEF Judged
    <2> HIDE DEF at, r, t
    <2>3. Judged(at, r) \in TaskSet /\ Judged(at, r).at = at /\ Judged(at, r).rule = r
          /\ Judged(at, r).seen = {}
      BY <2>1, JudgedIs
    <2>4. QED
      BY <2>2, <2>3 DEF at, r
  <1>6. Good(n, S, wrote[c])
    <2>1. CASE Allows(x)
      <3>1. Good(x, stay[c], wrote[c])
        BY DEF RemovalIInv, AllGood
      <3>2. wrote[c] = {} /\ MayTake(x.rule) /\ stay[c] = {}
        BY <1>1, <1>2, <2>1, <3>1, VerdictSpares, Zenon DEF RemovalIInv
      <3>3. x.rule \in RulesOf[family]
        BY <1>1, <3>1 DEF Good
      <3>4. n = t /\ S = {}
        BY <2>1, <3>2
      <3> HIDE DEF n, S, t
      <3>5. QED
        BY <1>5, <3>2, <3>3, <3>4 DEF Good
    <2>2. CASE ~Allows(x)
      <3>1. n = NoRemoval
        BY <2>2
      <3>2. QED
        BY <3>1, IdleIsGood, Zenon
    <2>3. QED
      BY <2>1, <2>2
  <1>7. removals' = [removals EXCEPT ![c] = n] /\ n \in TaskSet /\ n.at # "forget"
    BY <1>1, <1>5, IdleIsTask
  <1> HIDE DEF n, S
  <1>8. RemovalTypes' /\ AllGood'
    BY <1>1, <1>2, <1>4, <1>6, <1>7, OneTask, Zenon DEF RemovalIInv
  <1>9. InfoKept'
    BY <1>1, <1>7, OneInfo, Zenon DEF RemovalIInv
  <1>10. QED
    BY <1>8, <1>9 DEF RemovalIInv

-----------------------------------------------------------------------------
(* The removals. *)
LEMMA StashStep ==
  ASSUME RemovalIInv, NEW c \in Cleaners, Stash(c) \/ Unlink(c)
  PROVE  RemovalIInv'
  <1>1. /\ removals' = [removals EXCEPT ![c] = NoRemoval] /\ stay' = stay /\ wrote' = wrote
        /\ family' = family /\ barred' = barred /\ top' = top /\ deep' = deep
        /\ parts' = "gone" /\ parts # "gone" /\ info' = info
    BY DEF Stash, Unlink, Ended
  <1>2. RemovalTypes' /\ AllGood'
    BY <1>1, EndsStep, Zenon
  <1>3. \A d \in Cleaners : removals'[d].at = "forget" => removals[d].at = "forget"
    BY <1>1, IdleIsTask DEF RemovalIInv, RemovalTypes
  <1>4. InfoKept'
    BY <1>1, <1>3 DEF RemovalIInv, InfoKept
  <1>5. QED
    BY <1>2, <1>4 DEF RemovalIInv

LEMMA RemoveStep ==
  ASSUME RemovalIInv, NEW c \in Cleaners, RemoveEntry(c)
  PROVE  RemovalIInv'
  <1>1. /\ removals[c].at = "remove" /\ removals' = [removals EXCEPT ![c].at = "sweep"]
        /\ stay' = stay /\ wrote' = wrote
        /\ family' = family /\ barred' = barred /\ top' = top /\ deep' = deep
        /\ parts' = "part" /\ parts # "gone" /\ info' = info
    BY DEF RemoveEntry
  <1>2. /\ RemovalTypes' /\ AllGood'
        /\ \A d \in Cleaners : removals'[d].at = IF d = c THEN "sweep" ELSE removals[d].at
    <2> DEFINE at == "sweep"
    <2>1. /\ at \in Steps /\ at # "verdict" /\ removals[c].at \in {"remove", "sweep", "forget"}
          /\ at \in {"verdict", "sweep", "forget"} /\ removals[c].at # "idle"
      BY <1>1 DEF Steps
    <2> HIDE DEF at
    <2>2. removals' = [removals EXCEPT ![c].at = at]
      BY <1>1 DEF at
    <2>3. /\ RemovalTypes' /\ AllGood'
          /\ \A d \in Cleaners : removals'[d].at = IF d = c THEN at ELSE removals[d].at
      BY <1>1, <2>1, <2>2, GoesOn, Zenon
    <2>4. QED
      BY <2>3 DEF at
  <1>3. \A d \in Cleaners : removals'[d].at = "forget" => removals[d].at = "forget"
    BY <1>2
  <1>4. InfoKept'
    BY <1>1, <1>3 DEF RemovalIInv, InfoKept
  <1>5. QED
    BY <1>2, <1>4 DEF RemovalIInv

LEMMA SweepStep ==
  ASSUME RemovalIInv, NEW c \in Cleaners, Sweep(c)
  PROVE  RemovalIInv'
  <1>1. /\ removals[c].at = "sweep" /\ stay' = stay /\ wrote' = wrote
        /\ family' = family /\ barred' = barred /\ top' = top /\ deep' = deep
        /\ parts' = "gone" /\ parts = "part" /\ info' = info
        /\ removals' = IF family \in {"trash", "bin"} THEN [removals EXCEPT ![c].at = "forget"]
                       ELSE [removals EXCEPT ![c] = NoRemoval]
    BY DEF Sweep, Ended
  <1>2. CASE family \in {"trash", "bin"}
    <2>1. /\ RemovalTypes' /\ AllGood'
          /\ \A d \in Cleaners : removals'[d].at = IF d = c THEN "forget" ELSE removals[d].at
      <3> DEFINE at == "forget"
      <3>1. /\ at \in Steps /\ at # "verdict" /\ removals[c].at \in {"remove", "sweep", "forget"}
            /\ at \in {"verdict", "sweep", "forget"} /\ removals[c].at # "idle"
        BY <1>1 DEF Steps
      <3> HIDE DEF at
      <3>2. removals' = [removals EXCEPT ![c].at = at]
        BY <1>1, <1>2 DEF at
      <3>3. /\ RemovalTypes' /\ AllGood'
            /\ \A d \in Cleaners : removals'[d].at = IF d = c THEN at ELSE removals[d].at
        BY <1>1, <3>1, <3>2, GoesOn, Zenon
      <3>4. QED
        BY <3>3 DEF at
    <2>2. family = "trash" => info /\ \A d \in Cleaners : removals[d].at # "forget"
      BY <1>1 DEF RemovalIInv, InfoKept
    <2>3. InfoKept'
      BY <1>1, <2>1, <2>2 DEF InfoKept
    <2>4. QED
      BY <2>1, <2>3 DEF RemovalIInv
  <1>3. CASE family \notin {"trash", "bin"}
    <2>1. RemovalTypes' /\ AllGood'
      BY <1>1, <1>3, EndsStep, Zenon
    <2>2. InfoKept'
      BY <1>1, <1>3 DEF InfoKept
    <2>3. QED
      BY <2>1, <2>2 DEF RemovalIInv
  <1>4. QED
    BY <1>2, <1>3

LEMMA WipeFailsStep ==
  ASSUME RemovalIInv, NEW c \in Cleaners, WipeFails(c)
  PROVE  RemovalIInv'
  <1>1. /\ removals[c].rule = "wipe"
        /\ \/ removals[c].at = "sweep"
           \/ removals[c].at = "verdict" /\ barred = "protected"
        /\ removals' = [removals EXCEPT ![c].at = "forget"]
        /\ stay' = stay /\ wrote' = wrote
        /\ family' = family /\ barred' = barred /\ top' = top /\ deep' = deep
    BY Zenon DEF WipeFails, onDisk
  <1>2. /\ Good(removals[c], stay[c], wrote[c])
        /\ removals[c].at # "idle"
    BY <1>1 DEF RemovalIInv, AllGood
  <1>3. ASSUME removals[c].at = "verdict", barred = "protected"
        PROVE  stay[c] = {} /\ wrote[c] = {} /\ MayTake(removals[c].rule)
    <2>1. stay[c] = {} /\ (wrote[c] = {} \/ Saving(removals[c]))
      BY <1>1, <1>2, <1>3 DEF Good, Unasking
    <2>2. ~Saving(removals[c])
      BY <1>1 DEF Saving, ByContent, ByTouch
    <2>3. MayTake(removals[c].rule)
      BY <1>1, <1>3 DEF MayTake
    <2>4. QED
      BY <2>1, <2>2, <2>3, Zenon
  <1>4. RemovalTypes' /\ AllGood'
    <2> DEFINE at == "forget"
    <2>1. at \in Steps /\ at # "verdict" /\ at \in {"verdict", "sweep", "forget"}
      BY DEF Steps
    <2>2. \/ removals[c].at \in {"remove", "sweep", "forget"}
          \/ stay[c] = {} /\ wrote[c] = {} /\ MayTake(removals[c].rule)
      BY <1>1, <1>3
    <2> HIDE DEF at
    <2>3. removals' = [removals EXCEPT ![c].at = at]
      BY <1>1 DEF at
    <2>4. QED
      BY <1>1, <1>2, <2>1, <2>2, <2>3, GoesOn, Zenon
  <1>5. family # "trash"
    BY <1>1, <1>2 DEF RemovalIInv, Good, RulesOf
  <1>6. InfoKept'
    BY <1>1, <1>5 DEF InfoKept
  <1>7. QED
    BY <1>4, <1>6 DEF RemovalIInv

LEMMA ForgetStep ==
  ASSUME RemovalIInv, NEW c \in Cleaners, Forget(c)
  PROVE  RemovalIInv'
  <1>1. /\ removals[c].at = "forget" /\ removals' = [removals EXCEPT ![c] = NoRemoval]
        /\ stay' = stay /\ wrote' = wrote
        /\ family' = family /\ barred' = barred /\ top' = top /\ deep' = deep /\ parts' = parts
    BY Zenon DEF Forget, Ended
  <1>2. RemovalTypes' /\ AllGood'
    BY <1>1, EndsStep, Zenon
  <1>3. \A d \in Cleaners : removals'[d].at = "forget" => removals[d].at = "forget" /\ d # c
    BY <1>1, IdleIsTask DEF RemovalIInv, RemovalTypes
  <1>4. InfoKept'
    BY <1>1, <1>3 DEF RemovalIInv, InfoKept
  <1>5. QED
    BY <1>2, <1>4 DEF RemovalIInv

-----------------------------------------------------------------------------
(* The users and the clock. *)

(* Each pass keeps its place, and what it owes is still good. *)
LEMMA TasksKept ==
  ASSUME InfoKept, family' = family, parts' = parts, info' = info,
         \A d \in Cleaners : removals'[d].at = removals[d].at
  PROVE  InfoKept'
  BY DEF InfoKept

LEMMA UseStep ==
  ASSUME RemovalIInv, NEW u \in Users, NEW kind \in EntryKinds, Use(u, kind)
  PROVE  RemovalIInv'
  <1>1. /\ removals' = removals /\ stay' = stay /\ wrote' = wrote
        /\ family' = family /\ barred' = barred /\ top' = top /\ deep' = deep
        /\ parts' = parts /\ info' = info
    BY Zenon DEF Use, onDisk
  <1>2. RemovalTypes' /\ InfoKept'
    BY <1>1 DEF RemovalIInv, RemovalTypes, InfoKept
  <1>3. AllGood'
    BY <1>1, Zenon DEF RemovalIInv, AllGood, Good, Saving, MayTake
  <1>4. QED
    BY <1>2, <1>3 DEF RemovalIInv

LEMMA ReleaseStep ==
  ASSUME RemovalIInv, NEW u \in Users, Release(u)
  PROVE  RemovalIInv'
  <1>1. /\ removals' = removals /\ stay' = [c \in Cleaners |-> stay[c] \ {u}] /\ wrote' = wrote
        /\ family' = family /\ barred' = barred /\ top' = top /\ deep' = deep
        /\ parts' = parts /\ info' = info
    BY Zenon DEF Release, onDisk
  <1>2. stay' \in [Cleaners -> SUBSET Users]
    BY <1>1 DEF RemovalIInv, RemovalTypes
  <1>3. RemovalTypes' /\ InfoKept'
    BY <1>1, <1>2 DEF RemovalIInv, RemovalTypes, InfoKept
  <1>4. AllGood'
    <2>1. SUFFICES ASSUME NEW d \in Cleaners
                   PROVE  Good(removals[d], stay[d], wrote[d])'
      BY DEF AllGood
    <2>2. Good(removals[d], stay[d], wrote[d])
      BY DEF RemovalIInv, AllGood
    <2>3. stay'[d] \subseteq stay[d]
      BY <1>1
    <2>4. Good(removals[d], stay'[d], wrote[d])
      BY <2>2, <2>3 DEF Good
    <2>5. QED
      BY <1>1, <2>4, Zenon DEF Good, Saving, MayTake
  <1>5. QED
    BY <1>3, <1>4 DEF RemovalIInv

(* What Dirtied does to a pass. *)
LEMMA DirtiedIs ==
  ASSUME RemovalTypes, removals' = Dirtied
  PROVE  /\ removals' \in [Cleaners -> TaskSet]
         /\ \A d \in Cleaners :
               /\ removals'[d].at = removals[d].at /\ removals'[d].rule = removals[d].rule
               /\ removals'[d].seen = removals[d].seen
               /\ removals[d].rule = "e2e" /\ removals[d].at = "verdict" => removals'[d].dirty
  <1>1. ASSUME NEW d \in Cleaners
        PROVE  /\ removals'[d] \in TaskSet
               /\ removals'[d].at = removals[d].at /\ removals'[d].rule = removals[d].rule
               /\ removals'[d].seen = removals[d].seen
               /\ removals[d].rule = "e2e" /\ removals[d].at = "verdict" => removals'[d].dirty
    <2> DEFINE x == removals[d]
               dirty == removals[d].rule = "e2e" /\ removals[d].at = "verdict"
    <2>1. dirty \in BOOLEAN
      BY Zenon
    <2>2. x \in TaskSet
      BY DEF RemovalTypes
    <2>3. /\ x.at \in Steps /\ x.rule \in RemovalRules /\ x.age \in 0 .. 3 /\ x.seen \in SUBSET Users
          /\ x.lifted \in BOOLEAN
      BY <2>2, TaskParts
    <2>4. removals'[d] = [x EXCEPT !.dirty = dirty]
      BY DEF Dirtied
    <2>5. dirty <=> (removals[d].rule = "e2e" /\ removals[d].at = "verdict")
      OBVIOUS
    <2> HIDE DEF dirty
    <2>6. [x EXCEPT !.dirty = dirty] = RemovalTask(x.at, x.rule, x.lifted, x.age, x.seen, dirty)
      BY <2>2, TaskChanged
    <2>7. removals'[d] \in TaskSet
      <3>1. RemovalTask(x.at, x.rule, x.lifted, x.age, x.seen, dirty) \in TaskSet
        BY <2>1, <2>3, TaskMade, Zenon
      <3>2. QED
        BY <2>4, <2>6, <3>1
    <2>8. /\ removals'[d].at = x.at /\ removals'[d].rule = x.rule /\ removals'[d].seen = x.seen
          /\ removals'[d].dirty = dirty
      BY <2>4, <2>6, TaskFields
    <2>9. dirty => removals'[d].dirty
      BY <2>8, Zenon
    <2>10. QED
      BY <2>5, <2>7, <2>8, <2>9, Zenon DEF x
  <1>2. removals' \in [Cleaners -> TaskSet]
    <2> DEFINE new(d) == [removals[d] EXCEPT !.dirty = removals[d].rule = "e2e" /\ removals[d].at = "verdict"]
    <2>1. removals' = [d \in Cleaners |-> new(d)]
      BY DEF Dirtied
    <2> HIDE DEF new
    <2>2. QED
      BY <1>1, <2>1
  <1>3. QED
    BY <1>1, <1>2

LEMMA WriteStep ==
  ASSUME RemovalIInv, NEW u \in Users, Write(u)
  PROVE  RemovalIInv'
  <1>1. PICK touches \in BOOLEAN :
          /\ top' = IF touches THEN 0 ELSE top
          /\ wrote' = [c \in Cleaners |-> IF Saves(c, touches) THEN wrote[c] \cup {u} ELSE wrote[c]]
    <2>1. PICK touches \in IF family = "git" THEN {TRUE} ELSE BOOLEAN :
          /\ top' = IF touches THEN 0 ELSE top
          /\ wrote' = [c \in Cleaners |-> IF Saves(c, touches) THEN wrote[c] \cup {u} ELSE wrote[c]]
      BY DEF Write
    <2>2. touches \in BOOLEAN
      BY Zenon
    <2>3. QED
      BY <2>1, <2>2, Zenon
  <1>2. /\ deep' = 0 /\ removals' = Dirtied /\ stay' = stay
        /\ family' = family /\ barred' = barred /\ parts' = parts /\ info' = info
    BY DEF Write
  <1>3. /\ removals' \in [Cleaners -> TaskSet]
        /\ \A d \in Cleaners :
               /\ removals'[d].at = removals[d].at /\ removals'[d].rule = removals[d].rule
               /\ removals'[d].seen = removals[d].seen
               /\ removals[d].rule = "e2e" /\ removals[d].at = "verdict" => removals'[d].dirty
    BY <1>2, DirtiedIs, Zenon DEF RemovalIInv
  <1>4. wrote' \in [Cleaners -> SUBSET Users] /\ top \in 0 .. 3 /\ top' \in 0 .. 3
    BY <1>1 DEF RemovalIInv, RemovalTypes
  <1>5. RemovalTypes'
    BY <1>2, <1>3, <1>4 DEF RemovalIInv, RemovalTypes
  <1>6. InfoKept'
    BY <1>2, <1>3, TasksKept, Zenon DEF RemovalIInv
  <1>7. AllGood'
    <2>1. SUFFICES ASSUME NEW d \in Cleaners
                   PROVE  Good(removals[d], stay[d], wrote[d])'
      BY DEF AllGood
    <2>2. Good(removals[d], stay[d], wrote[d])
      BY DEF RemovalIInv, AllGood
    <2>3. /\ removals'[d].at = removals[d].at /\ removals'[d].rule = removals[d].rule
          /\ removals'[d].seen = removals[d].seen /\ stay'[d] = stay[d]
      BY <1>2, <1>3
    <2>4. removals[d].at # "verdict" => wrote'[d] = wrote[d]
      BY <1>1 DEF Saves
    <2>5. removals[d].at = "verdict" => wrote'[d] = {} \/ Saving(removals[d])'
      <3>1. SUFFICES ASSUME removals[d].at = "verdict"
                     PROVE  wrote'[d] = {} \/ Saving(removals[d])'
        OBVIOUS
      <3>2. CASE Saves(d, touches)
        <4>1. \/ removals[d].rule \in {"general", "large", "e2e", "disk"}
              \/ touches /\ removals[d].rule \in {"action", "modules", "clean", "trash", "storage", "diskgit"}
          BY <3>2 DEF Saves
        <4>2. touches => top' = 0
          BY <1>1
        <4>3. removals[d].rule = "e2e" => removals'[d].dirty
          BY <1>3, <3>1
        <4>4. QED
          BY <1>2, <2>3, <4>1, <4>2, <4>3 DEF Saving, ByContent, ByTouch
      <3>3. CASE ~Saves(d, touches)
        <4>1. wrote'[d] = wrote[d]
          BY <1>1, <3>3
        <4>2. wrote[d] = {} \/ Saving(removals[d])
          BY <2>2, <3>1 DEF Good
        <4>3. top' = 0 \/ top' = top
          BY <1>1
        <4>4. removals[d].rule = "e2e" => removals'[d].dirty
          BY <1>3, <3>1
        <4>5. Saving(removals[d]) => Saving(removals[d])'
          BY <1>2, <2>3, <4>3, <4>4 DEF Saving, ByContent, ByTouch
        <4>6. QED
          BY <4>1, <4>2, <4>5
      <3>4. QED
        BY <3>2, <3>3
    <2>6. QED
      BY <1>2, <2>2, <2>3, <2>4, <2>5 DEF Good, MayTake
  <1>8. QED
    BY <1>5, <1>6, <1>7 DEF RemovalIInv

LEMMA RecreateStep ==
  ASSUME RemovalIInv, Recreate
  PROVE  RemovalIInv'
  <1>1. /\ parts = "gone" /\ ~info /\ parts' = "whole" /\ top' = 0 /\ deep' = 0
        /\ stay' = [c \in Cleaners |-> {}] /\ wrote' = [c \in Cleaners |-> {}]
        /\ removals' = Dirtied /\ family' = family /\ barred' = barred
    BY DEF Recreate
  <1>2. family = "trash" => info'
    BY DEF Recreate
  <1>3. /\ removals' \in [Cleaners -> TaskSet]
        /\ \A d \in Cleaners : /\ removals'[d].at = removals[d].at /\ removals'[d].rule = removals[d].rule
                              /\ removals'[d].seen = removals[d].seen
    BY <1>1, DirtiedIs, Zenon DEF RemovalIInv
  <1>4. RemovalTypes'
    BY <1>1, <1>3 DEF RemovalIInv, RemovalTypes
  <1>5. InfoKept'
    <2>1. family = "trash" => \A d \in Cleaners : removals[d].at # "forget"
      BY <1>1 DEF RemovalIInv, InfoKept
    <2>2. QED
      BY <1>1, <1>2, <1>3, <2>1 DEF InfoKept
  <1>6. AllGood'
    <2>1. SUFFICES ASSUME NEW d \in Cleaners
                   PROVE  Good(removals[d], stay[d], wrote[d])'
      BY DEF AllGood
    <2>2. Good(removals[d], stay[d], wrote[d])
      BY DEF RemovalIInv, AllGood
    <2>3. /\ removals'[d].at = removals[d].at /\ removals'[d].rule = removals[d].rule
          /\ removals'[d].seen = removals[d].seen /\ stay'[d] = {} /\ wrote'[d] = {}
      BY <1>1, <1>3
    <2>4. QED
      BY <1>1, <2>2, <2>3 DEF Good, MayTake
  <1>7. QED
    BY <1>4, <1>5, <1>6 DEF RemovalIInv

LEMMA MinuteStep ==
  ASSUME RemovalIInv, Minute
  PROVE  RemovalIInv'
  <1>1. /\ deep' = 1 /\ removals' = removals /\ stay' = stay
        /\ family' = family /\ barred' = barred /\ parts' = parts /\ info' = info
        /\ wrote' = [c \in Cleaners |->
                        IF removals[c].at = "verdict" /\ removals[c].rule \in {"action", "storage"}
                        THEN {} ELSE wrote[c]]
    BY DEF Minute
  <1>2. top \in 0 .. 3 /\ top' \in 0 .. 3 /\ (top <= 1 => top' <= 1)
    BY DEF Minute, Ageing, RemovalIInv, RemovalTypes
  <1>3. RemovalTypes'
    BY <1>1, <1>2 DEF RemovalIInv, RemovalTypes
  <1>4. InfoKept'
    BY <1>1, TasksKept, Zenon DEF RemovalIInv
  <1>5. AllGood'
    <2>1. SUFFICES ASSUME NEW d \in Cleaners
                   PROVE  Good(removals[d], stay[d], wrote[d])'
      BY DEF AllGood
    <2>2. Good(removals[d], stay[d], wrote[d])
      BY DEF RemovalIInv, AllGood
    <2>3. /\ wrote'[d] = {} \/ wrote'[d] = wrote[d]
          /\ removals[d].at = "verdict" /\ removals[d].rule \in {"action", "storage"} => wrote'[d] = {}
      BY <1>1
    <2>4. ASSUME removals[d].at = "verdict", Saving(removals[d]), removals[d].rule \notin {"action", "storage"}
          PROVE  Saving(removals[d])'
      <3>1. CASE removals[d].rule \in ByContent
        BY <1>1, <3>1 DEF Saving
      <3>2. CASE removals[d].rule = "e2e" /\ removals[d].dirty
        BY <1>1, <3>2 DEF Saving
      <3>3. CASE removals[d].rule \in ByTouch /\ top <= 1
        BY <1>1, <1>2, <3>3 DEF Saving
      <3>4. QED
        BY <2>4, <3>1, <3>2, <3>3 DEF Saving
    <2>5. removals[d].at = "verdict" => wrote'[d] = {} \/ Saving(removals[d])'
      BY <2>2, <2>3, <2>4 DEF Good
    <2>6. QED
      BY <1>1, <2>2, <2>3, <2>5 DEF Good, MayTake
  <1>6. QED
    BY <1>3, <1>4, <1>5 DEF RemovalIInv

LEMMA DaysStep ==
  ASSUME RemovalIInv, Days
  PROVE  RemovalIInv'
  <1>1. /\ removals' = removals /\ stay' = stay /\ wrote' = wrote
        /\ family' = family /\ barred' = barred /\ parts' = parts /\ info' = info
        /\ \A c \in Cleaners : removals[c].at = "idle"
    BY DEF Days
  <1>2. top' \in 0 .. 3 /\ deep' \in 0 .. 3
    BY DEF Days, Ageing, RemovalIInv, RemovalTypes
  <1>3. RemovalTypes' /\ InfoKept'
    BY <1>1, <1>2 DEF RemovalIInv, RemovalTypes, InfoKept
  <1>4. AllGood'
    BY <1>1 DEF AllGood, Good
  <1>5. QED
    BY <1>3, <1>4 DEF RemovalIInv

-----------------------------------------------------------------------------
(* The passes and the users keep the invariant. *)
LEMMA RemovalStep ==
  ASSUME RemovalIInv, [RemovalNext]_removalVars
  PROVE  RemovalIInv'
  <1>1. CASE UNCHANGED removalVars
    <2>1. /\ removals' = removals /\ stay' = stay /\ wrote' = wrote
          /\ family' = family /\ barred' = barred /\ top' = top /\ deep' = deep
          /\ parts' = parts /\ info' = info
      BY <1>1, Zenon DEF removalVars, onDisk
    <2>2. RemovalTypes' /\ InfoKept'
      BY <2>1 DEF RemovalIInv, RemovalTypes, InfoKept
    <2>3. AllGood'
      BY <2>1, Zenon DEF RemovalIInv, AllGood, Good, Saving, MayTake
    <2>4. QED
      BY <2>2, <2>3 DEF RemovalIInv
  <1>2. ASSUME NEW c \in Cleaners,
               \/ \E rule \in RemovalRules : BeginPass(c, rule) \/ BeginClean(c, rule)
               \/ BeginStorage(c) \/ BeginDisk(c)
        PROVE  RemovalIInv'
    BY <1>2, BeginStep, Zenon
  <1>3. ASSUME NEW c \in Cleaners, LookAt(c) \/ Cut(c) \/ Verdict(c) \/ GiveUp(c)
        PROVE  RemovalIInv'
    BY <1>3, RemovalLook, CutStep, VerdictStep, GiveUpStep, Zenon
  <1>4. ASSUME NEW c \in Cleaners,
               Stash(c) \/ Unlink(c) \/ RemoveEntry(c) \/ Sweep(c) \/ WipeFails(c) \/ Forget(c)
        PROVE  RemovalIInv'
    BY <1>4, StashStep, RemoveStep, SweepStep, WipeFailsStep, ForgetStep, Zenon
  <1>5. ASSUME NEW u \in Users, (\E kind \in EntryKinds : Use(u, kind)) \/ Release(u) \/ Write(u)
        PROVE  RemovalIInv'
    BY <1>5, UseStep, ReleaseStep, WriteStep, Zenon
  <1>6. CASE Recreate \/ Minute \/ Days
    BY <1>6, RecreateStep, MinuteStep, DaysStep, Zenon
  <1>7. QED
    BY <1>1, <1>2, <1>3, <1>4, <1>5, <1>6, Zenon DEF RemovalNext

LEMMA RemovalReached == RemovalSpec => []RemovalIInv
  <1>1. RemovalInit => RemovalIInv
    BY RemovalStarts
  <1>2. RemovalIInv /\ [RemovalNext]_removalVars => RemovalIInv'
    BY RemovalStep
  <1>3. QED
    BY <1>1, <1>2, PTL DEF RemovalSpec

(* purge_aged_trash_entries removes the entry first and its .trashinfo only when
   the entry is gone: at any number of passes, of the guard and of operators, an
   entry in the trash can be restored. *)
THEOREM AlwaysRestorable == RemovalSpec => []Restorable
  <1>1. RemovalIInv => Restorable
    BY DEF RemovalIInv, InfoKept, Restorable
  <1>2. QED
    BY <1>1, RemovalReached, PTL

(* Every cleaner's verdict (tmp_entry_block, tree_has_fresh_content, the cutoffs
   and the protected paths) spares the users and the writers it is to spare,
   however many passes, users and writes there are. *)
THEOREM RemovalsSpare == RemovalSpec => UsersAreSpared
  <1>1. ASSUME RemovalIInv, [RemovalNext]_removalVars
        PROVE  [\A c \in Cleaners : Takes(c) =>
                   /\ stay[c] = {} /\ wrote[c] = {}
                   /\ barred = "protected" =>
                         removals[c].rule \in {"disk", "git", "diskgit", "wipe"}
                   /\ barred = "credential" =>
                         removals[c].rule \notin {"trash", "empty", "wipe"}]_removalVars
    <2>1. ASSUME NEW c \in Cleaners, Takes(c)
          PROVE  stay[c] = {} /\ wrote[c] = {} /\ MayTake(removals[c].rule)
      BY <1>1, <2>1 DEF RemovalIInv, AllGood, Good, Takes
    <2>2. QED
      BY <2>1 DEF MayTake
  <1>2. QED
    BY <1>1, RemovalReached, PTL DEF RemovalSpec, UsersAreSpared

-----------------------------------------------------------------------------
(* Who is reaped. *)

ProcessSet == [start : 0 .. MaxBirths, kind : ProcessKinds, of : 0 .. MaxBirths,
               orphan : BOOLEAN, busy : BOOLEAN, old : BOOLEAN]
HuntSet == [at : {"idle", "verify", "term", "wait", "kill", "last", "check", "remove"},
            rule : ReapRules, root : Pids \cup {0}, seen : [Pids -> 0 .. MaxBirths],
            todo : SUBSET Pids, sent : SUBSET Pids]

(* Types, with starts that were handed out. *)
ReapTypes ==
    /\ proc \in [Pids -> ProcessSet]
    /\ births \in 0 .. MaxBirths
    /\ hunt \in HuntSet
    /\ clock \in 0 .. births /\ ok \subseteq 1 .. MaxBirths
    /\ \A p \in Pids : /\ hunt.seen[p] <= births /\ proc[p].start <= births
                       /\ proc[p] # None => proc[p].start >= 1

(* What a scan leaves to the verification. *)
Scanned ==
    /\ hunt.rule = "stale" => \A p \in Pids : Same(p) => proc[p].old
    /\ hunt.at = "verify" =>
        /\ hunt.todo = {} /\ hunt.sent = {}
        /\ hunt.rule = "tree" =>
              /\ hunt.root \in Pids
              /\ Same(hunt.root) =>
                    /\ proc[hunt.root].old
                    /\ \A p \in Pids : Same(p) => proc[p].of = hunt.seen[hunt.root]

(* A number that is or may again be signalled. *)
Rightly(p) == proc[p] = None \/ proc[p].start \in ok \/ proc[p].start > clock

Signalled ==
    /\ hunt.at \in {"term", "wait", "kill", "last"} =>
          \A p \in hunt.todo \cup hunt.sent : Rightly(p)
    /\ hunt.at \in {"wait", "last"} => hunt.todo = {}
    /\ hunt.at = "term" =>
          \/ hunt.rule = "tree" /\ (hunt.root \in hunt.sent => hunt.todo = {})
          \/ hunt.rule # "tree" /\ hunt.sent = {} /\ \E p \in Pids : hunt.todo = {p}

(* No browser of before the check is left when the profile is removed. *)
Checked ==
    /\ hunt.at = "check" => hunt.todo = {} /\ hunt.sent = {} /\ \A p \in Pids : hunt.seen[p] = 0
    /\ hunt.at = "remove" => \A p \in Browsers : proc[p].start > clock

ReapIInv == profile \in BOOLEAN /\ ReapTypes /\ Scanned /\ Signalled /\ Checked

LEMMA NoneIsOne ==
  ASSUME MaxBirths \in Nat
  PROVE  None \in ProcessSet /\ None.start = 0
  BY DEF None, ProcessSet, ProcessKinds

LEMMA NoHuntIsOne ==
  ASSUME MaxBirths \in Nat
  PROVE  /\ NoHunt \in HuntSet /\ NoHunt.at = "idle" /\ NoHunt.rule = "stale" /\ NoHunt.root = 0
         /\ NoHunt.todo = {} /\ NoHunt.sent = {} /\ \A p \in Pids : NoHunt.seen[p] = 0
  BY DEF NoHunt, HuntSet, ReapRules

LEMMA ReapStarts ==
  ASSUME ReapInit, MaxBirths \in Nat
  PROVE  ReapIInv
  <1>1. ReapTypes
    BY NoneIsOne, NoHuntIsOne DEF ReapInit, ReapTypes
  <1>2. Scanned /\ Signalled /\ Checked
    BY NoHuntIsOne DEF ReapInit, Scanned, Signalled, Checked, Same
  <1>3. profile \in BOOLEAN
    BY Zenon DEF ReapInit
  <1>4. QED
    BY <1>1, <1>2, <1>3 DEF ReapIInv

-----------------------------------------------------------------------------
(* What a step of the processes does to a number. *)
Follows(q) ==
    \/ proc'[q] = None
    \/ proc[q] = None /\ proc'[q].start \in births + 1 .. births'
    \/ /\ proc[q] # None /\ proc'[q].start = proc[q].start
       /\ proc'[q].of = proc[q].of /\ proc'[q].kind = proc[q].kind
       /\ proc[q].old => proc'[q].old

Process(start, kind, of, orphan, busy, old) ==
    [start |-> start, kind |-> kind, of |-> of, orphan |-> orphan, busy |-> busy, old |-> old]

LEMMA ProcessIs ==
  ASSUME NEW x \in ProcessSet
  PROVE  x = Process(x.start, x.kind, x.of, x.orphan, x.busy, x.old)
  BY DEF ProcessSet, Process

LEMMA ProcessChanged ==
  ASSUME NEW x \in ProcessSet, NEW v
  PROVE  /\ [x EXCEPT !.orphan = v] = Process(x.start, x.kind, x.of, v, x.busy, x.old)
         /\ [x EXCEPT !.busy = v] = Process(x.start, x.kind, x.of, x.orphan, v, x.old)
         /\ [x EXCEPT !.old = v] = Process(x.start, x.kind, x.of, x.orphan, x.busy, v)
  <1> DEFINE s == x.start  k == x.kind  o == x.of  a == x.orphan  b == x.busy  c == x.old
  <1>1. x = Process(s, k, o, a, b, c)
    BY ProcessIs
  <1> HIDE DEF s, k, o, a, b, c
  <1>2. /\ [x EXCEPT !.orphan = v] = Process(s, k, o, v, b, c)
        /\ [x EXCEPT !.busy = v] = Process(s, k, o, a, v, c)
        /\ [x EXCEPT !.old = v] = Process(s, k, o, a, b, v)
    BY <1>1 DEF Process
  <1>3. QED
    BY <1>2 DEF s, k, o, a, b, c

LEMMA ProcessMade ==
  ASSUME NEW s \in 0 .. MaxBirths, NEW k \in ProcessKinds, NEW o \in 0 .. MaxBirths,
         NEW a \in BOOLEAN, NEW b \in BOOLEAN, NEW c \in BOOLEAN
  PROVE  Process(s, k, o, a, b, c) \in ProcessSet
  BY Zenon DEF ProcessSet, Process

LEMMA BornFollows ==
  ASSUME MaxBirths \in Nat, ReapTypes, NEW p \in Pids, NEW kind \in ProcessKinds, Born(p, kind)
  PROVE  births' \in births .. MaxBirths /\ proc' \in [Pids -> ProcessSet] /\ \A q \in Pids : Follows(q)
  <1> USE DEF ReapTypes
  <1>1. /\ births < MaxBirths /\ births' = births + 1 /\ proc[p] = None
        /\ births \in Nat
    BY DEF Born
  <1>2. PICK parent \in IF kind = "helper" THEN {q \in Alive : proc[q].kind = "root"} ELSE {p} :
           proc' = [proc EXCEPT ![p] =
              [None EXCEPT !.start = births + 1, !.kind = kind,
                           !.of = IF kind = "helper" THEN proc[parent].start ELSE births + 1]]
    BY DEF Born
  <1> DEFINE of == IF kind = "helper" THEN proc[parent].start ELSE births + 1
             x == Process(births + 1, kind, of, FALSE, FALSE, FALSE)
  <1>3. of \in 0 .. MaxBirths
    <2>1. parent \in Pids
      BY <1>2 DEF Alive
    <2>2. QED
      BY <1>1, <2>1 DEF ProcessSet
  <1>4. proc' = [proc EXCEPT ![p] = x]
    <2>1. None = Process(0, "other", 0, FALSE, FALSE, FALSE)
      BY DEF None, Process
    <2>2. ASSUME NEW f, None = Process(0, "other", 0, f, f, f)
          PROVE  [None EXCEPT !.start = births + 1, !.kind = kind, !.of = of]
                    = Process(births + 1, kind, of, f, f, f)
      <3> HIDE DEF of
      <3> DEFINE n == births + 1  zero == 0  other == "other"
      <3>1. None = Process(zero, other, zero, f, f, f)
        BY <2>2
      <3> HIDE DEF n, zero, other
      <3>2. [None EXCEPT !.start = n, !.kind = kind, !.of = of] = Process(n, kind, of, f, f, f)
        <4> DEFINE one == [None EXCEPT !.start = n]
                   two == [one EXCEPT !.kind = kind]
        <4>1. one = Process(n, other, zero, f, f, f)
          BY <3>1 DEF Process
        <4> HIDE DEF one
        <4>2. two = Process(n, kind, zero, f, f, f)
          BY <4>1 DEF Process
        <4> HIDE DEF two
        <4>3. [two EXCEPT !.of = of] = Process(n, kind, of, f, f, f)
          BY <4>2 DEF Process
        <4>4. [None EXCEPT !.start = n, !.kind = kind, !.of = of] = [two EXCEPT !.of = of]
          BY DEF one, two
        <4>5. QED
          BY <4>3, <4>4
      <3>3. QED
        BY <3>2 DEF n
    <2>3. QED
      BY <1>2, <2>1, <2>2, Zenon DEF of
  <1>5. births + 1 \in 0 .. MaxBirths
    BY <1>1
  <1> HIDE DEF of
  <1>6. x \in ProcessSet
    BY <1>3, <1>5, ProcessMade, Zenon
  <1>7. x.start = births + 1
    BY DEF Process
  <1> HIDE DEF x
  <1>8. proc' \in [Pids -> ProcessSet] /\ \A q \in Pids : proc'[q] = IF q = p THEN x ELSE proc[q]
    BY <1>4, <1>6
  <1>9. \A q \in Pids : Follows(q)
    BY <1>1, <1>7, <1>8 DEF Follows
  <1>10. QED
    BY <1>1, <1>8, <1>9

LEMMA ExitFollows ==
  ASSUME MaxBirths \in Nat, ReapTypes, NEW p \in Pids, Exit(p)
  PROVE  births' \in births .. MaxBirths /\ proc' \in [Pids -> ProcessSet] /\ \A q \in Pids : Follows(q)
  <1>1. births' = births /\ births \in 0 .. MaxBirths /\ proc' = [proc EXCEPT ![p] = None]
    BY DEF Exit, ReapTypes
  <1>2. proc' \in [Pids -> ProcessSet] /\ \A q \in Pids : proc'[q] = IF q = p THEN None ELSE proc[q]
    BY <1>1, NoneIsOne DEF ReapTypes
  <1>3. QED
    BY <1>1, <1>2 DEF Follows

LEMMA ChangeFollows ==
  ASSUME MaxBirths \in Nat, ReapTypes, NEW p \in Pids, Change(p)
  PROVE  births' \in births .. MaxBirths /\ proc' \in [Pids -> ProcessSet] /\ \A q \in Pids : Follows(q)
  <1>1. /\ births' = births /\ births \in 0 .. MaxBirths /\ proc[p] \in ProcessSet /\ proc[p] # None
        /\ proc \in [Pids -> ProcessSet]
    BY DEF Change, ReapTypes, Alive
  <1> DEFINE y(orphan, busy, old) ==
                  Process(proc[p].start, proc[p].kind, proc[p].of, orphan, busy, old)
  <1>2. \E orphan, busy, old \in BOOLEAN :
            (proc[p].old => old) /\ proc' = [proc EXCEPT ![p] = y(orphan, busy, old)]
    <2>0. proc[p].orphan \in BOOLEAN /\ proc[p].busy \in BOOLEAN /\ proc[p].old \in BOOLEAN /\ (~proc[p].busy) \in BOOLEAN
      BY <1>1, Zenon DEF ProcessSet
    <2>1. CASE proc' = [proc EXCEPT ![p].orphan = TRUE]
      <3>1. proc' = [proc EXCEPT ![p] = y(TRUE, proc[p].busy, proc[p].old)]
        <4>1. [proc[p] EXCEPT !.orphan = TRUE] = y(TRUE, proc[p].busy, proc[p].old)
          BY <1>1, ProcessChanged
        <4>2. QED
          BY <2>1, <4>1
      <3>2. QED
        BY <2>0, <3>1, Zenon
    <2>2. CASE proc' = [proc EXCEPT ![p].busy = ~@]
      <3>1. proc' = [proc EXCEPT ![p] = y(proc[p].orphan, ~proc[p].busy, proc[p].old)]
        <4>1. [proc[p] EXCEPT !.busy = ~@] = y(proc[p].orphan, ~proc[p].busy, proc[p].old)
          BY <1>1, ProcessChanged
        <4>2. QED
          BY <2>2, <4>1
      <3>2. QED
        BY <2>0, <3>1, Zenon
    <2>3. CASE proc' = [proc EXCEPT ![p].old = TRUE]
      <3>1. proc' = [proc EXCEPT ![p] = y(proc[p].orphan, proc[p].busy, TRUE)]
        <4>1. [proc[p] EXCEPT !.old = TRUE] = y(proc[p].orphan, proc[p].busy, TRUE)
          BY <1>1, ProcessChanged
        <4>2. QED
          BY <2>3, <4>1
      <3>2. QED
        BY <2>0, <3>1, Zenon
    <2>4. QED
      BY <2>1, <2>2, <2>3 DEF Change
  <1>3. PICK orphan, busy, old \in BOOLEAN :
            (proc[p].old => old) /\ proc' = [proc EXCEPT ![p] = y(orphan, busy, old)]
    BY <1>2
  <1> DEFINE x == y(orphan, busy, old)
  <1>4. x \in ProcessSet
    <2>1. proc[p].start \in 0 .. MaxBirths /\ proc[p].kind \in ProcessKinds /\ proc[p].of \in 0 .. MaxBirths
      BY <1>1 DEF ProcessSet
    <2>2. QED
      BY <2>1, ProcessMade, Zenon
  <1>5. x.start = proc[p].start /\ x.of = proc[p].of /\ x.kind = proc[p].kind /\ (proc[p].old => x.old)
    BY <1>3 DEF Process
  <1> HIDE DEF x
  <1>6. proc' \in [Pids -> ProcessSet] /\ \A q \in Pids : proc'[q] = IF q = p THEN x ELSE proc[q]
    BY <1>1, <1>3, <1>4 DEF x
  <1>7. \A q \in Pids : Follows(q)
    BY <1>1, <1>5, <1>6 DEF Follows
  <1>8. QED
    BY <1>1, <1>6, <1>7

(* The processes' steps keep the invariant: a start given out is later than any check. *)
LEMMA WorldStep ==
  ASSUME MaxBirths \in Nat, ReapIInv, NEW p \in Pids,
         (\E kind \in ProcessKinds : Born(p, kind)) \/ Exit(p) \/ Change(p)
  PROVE  ReapIInv'
  <1> USE DEF ReapIInv
  <1>1. births' \in births .. MaxBirths /\ proc' \in [Pids -> ProcessSet] /\ \A q \in Pids : Follows(q)
    BY BornFollows, ExitFollows, ChangeFollows
  <1>2. UNCHANGED <<hunt, clock, ok>>
    BY DEF Born, Exit, Change
  <1>3. profile' \in BOOLEAN
    BY Zenon DEF Born, Exit, Change
  <1>4. /\ births \in Nat /\ clock \in Nat /\ clock <= births
        /\ \A q \in Pids : /\ hunt.seen[q] \in Nat /\ hunt.seen[q] <= births
                           /\ proc[q].start \in Nat /\ proc[q].start <= births
                           /\ proc[q] # None => proc[q].start >= 1
    BY DEF ReapTypes, HuntSet, ProcessSet
  <1>5. /\ births' \in Nat /\ births <= births' /\ births' <= MaxBirths
        /\ \A q \in Pids : /\ hunt'.seen[q] <= births' /\ proc'[q].start <= births'
                           /\ proc'[q] # None => proc'[q].start >= 1
    BY <1>1, <1>2, <1>4, NoneIsOne DEF Follows
  <1>6. ReapTypes'
    BY <1>1, <1>2, <1>4, <1>5 DEF ReapTypes
  <1>7. Scanned'
    <2>1. \A q \in Pids : Same(q)' => Same(q) /\ (proc[q].old => proc'[q].old) /\ proc'[q].of = proc[q].of
      BY <1>1, <1>2, <1>4, NoneIsOne DEF Same, Follows
    <2>2. QED
      BY <1>2, <2>1 DEF Scanned, Same
  <1>8. Signalled'
    <2>1. \A q \in Pids : Rightly(q) => Rightly(q)'
      BY <1>1, <1>2, <1>4 DEF Rightly, Follows
    <2>2. hunt.todo \cup hunt.sent \subseteq Pids
      BY DEF ReapTypes, HuntSet
    <2>3. QED
      BY <1>2, <2>1, <2>2 DEF Signalled
  <1>9. Checked'
    <2>1. ASSUME NEW q \in Browsers', hunt.at = "remove"
          PROVE  proc'[q].start > clock
      <3>1. q \in Pids /\ proc'[q] # None /\ proc'[q].kind \in {"root", "helper"}
        BY <2>1 DEF Browsers, Alive
      <3>2. CASE proc[q] = None /\ proc'[q].start \in births + 1 .. births'
        BY <1>4, <1>5, <3>1, <3>2
      <3>3. CASE proc[q] # None /\ proc'[q].start = proc[q].start /\ proc'[q].kind = proc[q].kind
        BY <2>1, <3>1, <3>3 DEF Checked, Browsers, Alive
      <3>4. QED
        BY <1>1, <3>1, <3>2, <3>3 DEF Follows
    <2>2. QED
      BY <1>2, <2>1 DEF Checked
  <1>10. QED
    BY <1>3, <1>6, <1>7, <1>8, <1>9

-----------------------------------------------------------------------------
(* What a step of the pass has to show: the processes stay as they are, and what
   was seen was handed out. *)
LEMMA HuntTypes ==
  ASSUME MaxBirths \in Nat, ReapTypes, proc' = proc, births' = births, hunt' \in HuntSet,
         \A p \in Pids : hunt'.seen[p] = 0 \/ hunt'.seen[p] = hunt.seen[p] \/ hunt'.seen[p] = proc[p].start,
         (clock' = clock /\ ok' = ok) \/ (clock' = births /\ ok' = DueNow)
  PROVE  ReapTypes'
  <1>1. births \in Nat /\ births <= MaxBirths /\ \A p \in Pids : hunt.seen[p] <= births /\ proc[p].start <= births
    BY DEF ReapTypes
  <1>2. \A p \in Pids : hunt'.seen[p] <= births
    BY <1>1
  <1>3. clock' \in 0 .. births
    BY <1>1 DEF ReapTypes
  <1>4. DueNow \subseteq 1 .. MaxBirths
    <2>1. \A p \in Alive : proc[p].start \in 1 .. MaxBirths
      BY <1>1 DEF ReapTypes, Alive, ProcessSet
    <2>2. QED
      BY <2>1 DEF DueNow
  <1>5. ok' \subseteq 1 .. MaxBirths
    BY <1>4 DEF ReapTypes
  <1>6. QED
    BY <1>2, <1>3, <1>5 DEF ReapTypes

LEMMA ScanServersStep ==
  ASSUME MaxBirths \in Nat, ReapIInv, NEW rule \in ReapRules, ScanServers(rule)
  PROVE  ReapIInv'
  <1> USE DEF ReapIInv
  <1>1. /\ hunt' = [NoHunt EXCEPT !.at = "verify", !.rule = rule,
                                  !.seen = [p \in Pids |-> IF Due(rule, proc[p])
                                                           THEN proc[p].start ELSE 0]]
        /\ UNCHANGED <<proc, births, profile, clock, ok>> /\ rule \in {"stale", "orphan"}
    BY DEF ScanServers
  <1>2. \A p \in Pids : proc[p].start \in 0 .. MaxBirths
    BY DEF ReapTypes, ProcessSet
  <1> DEFINE seen == [p \in Pids |-> IF Due(rule, proc[p]) THEN proc[p].start ELSE 0]
  <1>8. /\ seen \in [Pids -> 0 .. MaxBirths]
        /\ \A p \in Pids : seen[p] = IF Due(rule, proc[p]) THEN proc[p].start ELSE 0
    BY <1>2
  <1>9. hunt' = [NoHunt EXCEPT !.at = "verify", !.rule = rule, !.seen = seen]
    BY <1>1
  <1> HIDE DEF seen
  <1>10. hunt' = [at |-> "verify", rule |-> rule, root |-> 0, seen |-> seen, todo |-> {}, sent |-> {}]
    BY <1>9 DEF NoHunt
  <1>3. /\ hunt' \in HuntSet /\ hunt'.at = "verify" /\ hunt'.rule = rule /\ hunt'.todo = {} /\ hunt'.sent = {}
        /\ \A p \in Pids : hunt'.seen[p] = IF Due(rule, proc[p]) THEN proc[p].start ELSE 0
    BY <1>8, <1>10 DEF HuntSet
  <1>4. ReapTypes'
    <2>1. \A p \in Pids : hunt'.seen[p] = 0 \/ hunt'.seen[p] = hunt.seen[p] \/ hunt'.seen[p] = proc[p].start
      BY <1>3, Zenon
    <2>2. hunt' \in HuntSet /\ proc' = proc /\ births' = births /\ clock' = clock /\ ok' = ok
      BY <1>1, <1>3
    <2>3. QED
      BY <2>1, <2>2, HuntTypes, Zenon
  <1>5. rule = "stale" => \A p \in Pids : hunt'.seen[p] # 0 => proc[p].old
    BY <1>3 DEF Due
  <1>6. Scanned' /\ Signalled' /\ Checked'
    BY <1>1, <1>3, <1>5 DEF Scanned, Signalled, Checked, Same
  <1>7. QED
    BY <1>1, <1>4, <1>6

LEMMA ScanTreeStep ==
  ASSUME MaxBirths \in Nat, ReapIInv, NEW r \in Pids, ScanTree(r)
  PROVE  ReapIInv'
  <1> USE DEF ReapIInv
  <1>1. /\ hunt' = [NoHunt EXCEPT !.at = "verify", !.rule = "tree", !.root = r,
                                  !.seen = [p \in Pids |-> IF proc[p].of = proc[r].start
                                                           THEN proc[p].start ELSE 0]]
        /\ UNCHANGED <<proc, births, profile, clock, ok>> /\ Due("tree", proc[r])
    BY DEF ScanTree
  <1>2. \A p \in Pids : proc[p].start \in 0 .. MaxBirths
    BY DEF ReapTypes, ProcessSet
  <1> DEFINE seen == [p \in Pids |-> IF proc[p].of = proc[r].start THEN proc[p].start ELSE 0]
  <1>9. /\ seen \in [Pids -> 0 .. MaxBirths]
        /\ \A p \in Pids : seen[p] = IF proc[p].of = proc[r].start THEN proc[p].start ELSE 0
    BY <1>2
  <1>10. hunt' = [NoHunt EXCEPT !.at = "verify", !.rule = "tree", !.root = r, !.seen = seen]
    BY <1>1
  <1> HIDE DEF seen
  <1>11. hunt' = [at |-> "verify", rule |-> "tree", root |-> r, seen |-> seen, todo |-> {}, sent |-> {}]
    BY <1>10 DEF NoHunt
  <1>3. /\ hunt' \in HuntSet /\ hunt'.at = "verify" /\ hunt'.rule = "tree" /\ hunt'.root = r
        /\ hunt'.todo = {} /\ hunt'.sent = {}
        /\ \A p \in Pids : hunt'.seen[p] = IF proc[p].of = proc[r].start THEN proc[p].start ELSE 0
    BY <1>9, <1>11 DEF HuntSet, ReapRules
  <1>4. ReapTypes'
    <2>1. \A p \in Pids : hunt'.seen[p] = 0 \/ hunt'.seen[p] = hunt.seen[p] \/ hunt'.seen[p] = proc[p].start
      BY <1>3, Zenon
    <2>2. hunt' \in HuntSet /\ proc' = proc /\ births' = births /\ clock' = clock /\ ok' = ok
      BY <1>1, <1>3
    <2>3. QED
      BY <2>1, <2>2, HuntTypes, Zenon
  <1>5. proc[r].old
    BY <1>1 DEF Due
  <1>6. hunt'.seen[r] # 0 => \A p \in Pids : hunt'.seen[p] # 0 => proc[p].of = hunt'.seen[r]
    BY <1>3
  <1>7. Scanned' /\ Signalled' /\ Checked'
    BY <1>1, <1>3, <1>5, <1>6 DEF Scanned, Signalled, Checked, Same
  <1>8. QED
    BY <1>1, <1>4, <1>7

(* The candidates that stand the verification are due: what the scan asked for
   besides is still true of the process that was scanned. *)
LEMMA VerifyStep ==
  ASSUME MaxBirths \in Nat, ReapIInv, NEW p \in Pids, Verify(p)
  PROVE  ReapIInv'
  <1> USE DEF ReapIInv
  <1>1. /\ UNCHANGED <<proc, births, profile>> /\ clock' = births /\ ok' = DueNow
        /\ hunt.at = "verify" /\ hunt.rule # "tree" /\ hunt.seen[p] # 0
    BY DEF Verify
  <1>2. /\ hunt' \in HuntSet /\ hunt'.rule = hunt.rule /\ hunt'.sent = {}
        /\ \A q \in Pids : hunt'.seen[q] = IF q = p THEN 0 ELSE hunt.seen[q]
        /\ \/ hunt'.at = "verify" /\ hunt'.todo = {}
           \/ hunt'.at = "term" /\ hunt'.todo = {p} /\ Same(p) /\ Fits(hunt.rule, proc[p])
    <2>1. CASE Same(p) /\ Fits(hunt.rule, proc[p])
      <3> DEFINE seen == [hunt.seen EXCEPT ![p] = 0]
      <3>1. seen \in [Pids -> 0 .. MaxBirths] /\ \A q \in Pids : seen[q] = IF q = p THEN 0 ELSE hunt.seen[q]
        BY DEF ReapTypes, HuntSet
      <3>2. hunt \in HuntSet
        BY DEF ReapTypes
      <3>3. hunt' = [hunt EXCEPT !.at = "term", !.seen = seen, !.todo = {p}, !.sent = {}]
        BY <2>1, <3>2 DEF Verify, HuntSet
      <3> HIDE DEF seen
      <3>4. hunt' = [at |-> "term", rule |-> hunt.rule, root |-> hunt.root, seen |-> seen,
                     todo |-> {p}, sent |-> {}]
        BY <3>2, <3>3 DEF HuntSet
      <3>5. QED
        BY <2>1, <3>1, <3>2, <3>4 DEF HuntSet
    <2>2. CASE ~(Same(p) /\ Fits(hunt.rule, proc[p]))
      BY <1>1, <2>2 DEF Verify, ReapTypes, HuntSet, Scanned
    <2>3. QED
      BY <2>1, <2>2
  <1>3. ReapTypes'
    <2>1. \A q \in Pids : hunt'.seen[q] = 0 \/ hunt'.seen[q] = hunt.seen[q] \/ hunt'.seen[q] = proc[q].start
      BY <1>2, Zenon
    <2>2. hunt' \in HuntSet /\ proc' = proc /\ births' = births /\ clock' = births /\ ok' = DueNow
      BY <1>1, <1>2
    <2>3. QED
      BY <2>1, <2>2, HuntTypes, Zenon
  <1>4. Scanned' /\ Checked'
    BY <1>1, <1>2 DEF Scanned, Checked, Same
  <1>5. hunt'.at = "term" => proc[p].start \in DueNow
    <2>1. SUFFICES ASSUME Same(p), Fits(hunt.rule, proc[p])
                   PROVE  p \in Alive /\ Due(hunt.rule, proc[p])
      BY <1>1, <1>2 DEF DueNow
    <2>2. proc[p] # None
      BY <2>1, <1>1, NoneIsOne DEF Same
    <2>3. hunt.rule # "orphan" => proc[p].old
      BY <1>1, <2>1 DEF Scanned, ReapTypes, HuntSet, ReapRules
    <2>4. QED
      BY <2>1, <2>2, <2>3 DEF Due, Alive
  <1>6. Signalled'
    BY <1>1, <1>2, <1>5 DEF Signalled, Rightly
  <1>7. QED
    BY <1>1, <1>3, <1>4, <1>6

LEMMA VerifyTreeStep ==
  ASSUME MaxBirths \in Nat, ReapIInv, VerifyTree
  PROVE  ReapIInv'
  <1> USE DEF ReapIInv
  <1>1. /\ UNCHANGED <<proc, births, profile>> /\ clock' = births /\ ok' = DueNow
        /\ hunt.at = "verify" /\ hunt.rule = "tree"
    BY DEF VerifyTree
  <1>2. /\ hunt' \in HuntSet
        /\ \/ hunt' = NoHunt
           \/ /\ hunt'.at = "term" /\ hunt'.rule = "tree" /\ hunt'.root = hunt.root /\ hunt'.sent = {}
              /\ hunt'.todo = {p \in Pids : Same(p)} /\ hunt'.seen = hunt.seen
              /\ Same(hunt.root) /\ Fits("tree", proc[hunt.root])
    <2>1. CASE Same(hunt.root) /\ Fits("tree", proc[hunt.root])
      <3>1. hunt \in HuntSet
        BY DEF ReapTypes
      <3>2. hunt' = [hunt EXCEPT !.at = "term", !.todo = {p \in Pids : Same(p)}]
        BY <2>1 DEF VerifyTree
      <3> DEFINE todo == {p \in Pids : Same(p)}
      <3>3. todo \in SUBSET Pids /\ hunt.sent = {}
        BY <1>1 DEF Scanned
      <3> HIDE DEF todo
      <3>4. hunt' = [at |-> "term", rule |-> hunt.rule, root |-> hunt.root, seen |-> hunt.seen,
                     todo |-> todo, sent |-> {}]
        BY <3>1, <3>2, <3>3 DEF HuntSet, todo
      <3>5. QED
        BY <1>1, <2>1, <3>1, <3>3, <3>4 DEF HuntSet, todo
    <2>2. CASE ~(Same(hunt.root) /\ Fits("tree", proc[hunt.root]))
      BY <1>1, <2>2, NoHuntIsOne DEF VerifyTree
    <2>3. QED
      BY <2>1, <2>2
  <1>3. ReapTypes'
    <2>1. \A q \in Pids : hunt'.seen[q] = 0 \/ hunt'.seen[q] = hunt.seen[q] \/ hunt'.seen[q] = proc[q].start
      BY <1>2, NoHuntIsOne
    <2>2. hunt' \in HuntSet /\ proc' = proc /\ births' = births /\ clock' = births /\ ok' = DueNow
      BY <1>1, <1>2
    <2>3. QED
      BY <2>1, <2>2, HuntTypes, Zenon
  <1>4. Scanned' /\ Checked'
    BY <1>1, <1>2, NoHuntIsOne DEF Scanned, Checked, Same
  <1>5. ASSUME NEW p \in Pids, Same(p), Same(hunt.root), Fits("tree", proc[hunt.root])
        PROVE  proc[p].start \in DueNow
    <2>1. hunt.root \in Pids /\ proc[hunt.root].old
      BY <1>1, <1>5 DEF Scanned
    <2>2. p \in Alive /\ hunt.root \in Alive
      BY <1>5, <2>1, NoneIsOne DEF Same, Alive
    <2>3. Due("tree", proc[hunt.root])
      BY <1>5, <2>1, <2>2 DEF Due, Alive
    <2>4. proc[p].of = proc[hunt.root].start
      BY <1>1, <1>5 DEF Scanned, Same
    <2>5. QED
      BY <1>1, <2>2, <2>3, <2>4 DEF DueNow
  <1>6. Signalled'
    BY <1>1, <1>2, <1>5, NoHuntIsOne DEF Signalled, Rightly
  <1>7. QED
    BY <1>1, <1>3, <1>4, <1>6

(* Fields of the pass that a step changes, the others as they are. *)
LEMMA HuntChanged ==
  ASSUME NEW x \in HuntSet, NEW at \in {"idle", "verify", "term", "wait", "kill", "last", "check", "remove"},
         NEW todo \in SUBSET Pids, NEW sent \in SUBSET Pids, NEW y,
         y = [at |-> at, rule |-> x.rule, root |-> x.root, seen |-> x.seen, todo |-> todo, sent |-> sent]
  PROVE  /\ y \in HuntSet /\ y.at = at /\ y.todo = todo /\ y.sent = sent
         /\ y.rule = x.rule /\ y.root = x.root /\ y.seen = x.seen
  BY DEF HuntSet

(* The steps between the verification and the last signal: nobody is added to
   those who may be signalled. *)
LEMMA SignalSteps ==
  ASSUME MaxBirths \in Nat, ReapIInv, hunt' \in HuntSet,
         proc' = proc, births' = births, profile' = profile, clock' = clock, ok' = ok,
         hunt'.seen = hunt.seen, hunt'.rule = hunt.rule, hunt'.root = hunt.root,
         hunt.at \in {"term", "wait", "kill", "last"}, hunt'.at \in {"term", "wait", "kill", "last"},
         hunt'.todo \cup hunt'.sent \subseteq hunt.todo \cup hunt.sent,
         hunt'.at \in {"wait", "last"} => hunt'.todo = {},
         hunt'.at = "term" => hunt.rule = "tree" /\ (hunt'.root \in hunt'.sent => hunt'.todo = {})
  PROVE  ReapIInv'
  <1> USE DEF ReapIInv
  <1>1. ReapTypes'
    <2>1. \A q \in Pids : hunt'.seen[q] = 0 \/ hunt'.seen[q] = hunt.seen[q] \/ hunt'.seen[q] = proc[q].start
      OBVIOUS
    <2>2. QED
      BY <2>1, HuntTypes, Zenon
  <1>2. Scanned' /\ Checked'
    BY DEF Scanned, Checked, Same
  <1>3. Signalled'
    BY DEF Signalled, Rightly
  <1>4. QED
    BY <1>1, <1>2, <1>3

LEMMA TermStep ==
  ASSUME MaxBirths \in Nat, ReapIInv, NEW p \in Pids, Term(p)
  PROVE  ReapIInv'
  <1>0. hunt \in HuntSet /\ hunt.at = "term" /\ InTurn(p) /\ Signalled
    BY DEF Term, ReapIInv, ReapTypes
  <1>1. /\ proc' = proc /\ births' = births /\ profile' = profile /\ clock' = clock /\ ok' = ok
    BY DEF Term
  <1>2. PICK reached \in BOOLEAN :
          hunt' = [hunt EXCEPT !.todo = @ \ {p},
                               !.sent = IF reached THEN @ \cup {p} ELSE @,
                               !.at = IF hunt.todo = {p} THEN "wait" ELSE @]
    BY Zenon DEF Term
  <1> DEFINE todo == hunt.todo \ {p}
             sent == IF reached THEN hunt.sent \cup {p} ELSE hunt.sent
             at == IF hunt.todo = {p} THEN "wait" ELSE "term"
  <1>3. todo \in SUBSET Pids /\ sent \in SUBSET Pids
    BY <1>0 DEF HuntSet
  <1>4. hunt' = [hunt EXCEPT !.todo = todo, !.sent = sent, !.at = at]
    BY <1>0, <1>2
  <1>5. at \in {"term", "wait"} /\ (at = "wait" => todo = {}) /\ (at = "term" => hunt.todo # {p})
    OBVIOUS
  <1>6. p \in hunt.todo /\ todo \cup sent \subseteq hunt.todo \cup hunt.sent /\ sent \subseteq hunt.sent \cup {p}
    BY <1>0 DEF InTurn
  <1>7. hunt.todo # {p} => hunt.rule = "tree" /\ (hunt.root \in hunt.sent => hunt.todo = {}) /\ hunt.root # p
    BY <1>0 DEF Signalled, InTurn
  <1> HIDE DEF todo, sent, at
  <1>8. hunt' = [at |-> at, rule |-> hunt.rule, root |-> hunt.root, seen |-> hunt.seen, todo |-> todo, sent |-> sent]
    BY <1>0, <1>4 DEF HuntSet
  <1>9. /\ hunt' \in HuntSet /\ hunt'.at = at /\ hunt'.todo = todo /\ hunt'.sent = sent
        /\ hunt'.rule = hunt.rule /\ hunt'.root = hunt.root /\ hunt'.seen = hunt.seen
    BY <1>0, <1>3, <1>5, <1>8, HuntChanged
  <1>10. QED
    BY <1>0, <1>1, <1>5, <1>6, <1>7, <1>9, SignalSteps

LEMMA PollStep ==
  ASSUME MaxBirths \in Nat, ReapIInv, Poll
  PROVE  ReapIInv'
  <1>1. /\ hunt \in HuntSet /\ hunt.at = "wait" /\ Signalled
        /\ proc' = proc /\ births' = births /\ profile' = profile /\ clock' = clock /\ ok' = ok
        /\ hunt' = [hunt EXCEPT !.sent = @ \cap Alive]
    BY DEF Poll, ReapIInv, ReapTypes
  <1>2. /\ hunt' \in HuntSet /\ hunt'.at = "wait" /\ hunt'.todo = hunt.todo /\ hunt'.sent \subseteq hunt.sent
        /\ hunt'.rule = hunt.rule /\ hunt'.root = hunt.root /\ hunt'.seen = hunt.seen
    BY <1>1 DEF HuntSet
  <1>3. QED
    BY <1>1, <1>2, SignalSteps DEF Signalled

LEMMA EscalateStep ==
  ASSUME MaxBirths \in Nat, ReapIInv, Escalate
  PROVE  ReapIInv'
  <1>1. /\ hunt \in HuntSet /\ hunt.at = "wait" /\ Signalled
        /\ proc' = proc /\ births' = births /\ profile' = profile /\ clock' = clock /\ ok' = ok
        /\ hunt' = [hunt EXCEPT !.at = "kill", !.todo = hunt.sent]
    BY DEF Escalate, ReapIInv, ReapTypes
  <1>2. /\ hunt' \in HuntSet /\ hunt'.at = "kill" /\ hunt'.todo = hunt.sent /\ hunt'.sent = hunt.sent
        /\ hunt'.rule = hunt.rule /\ hunt'.root = hunt.root /\ hunt'.seen = hunt.seen
    BY <1>1 DEF HuntSet
  <1>3. QED
    BY <1>1, <1>2, SignalSteps DEF Signalled

LEMMA KillStep ==
  ASSUME MaxBirths \in Nat, ReapIInv, NEW p \in Pids, Kill(p)
  PROVE  ReapIInv'
  <1>1. /\ hunt \in HuntSet /\ hunt.at = "kill" /\ Signalled
        /\ proc' = proc /\ births' = births /\ profile' = profile /\ clock' = clock /\ ok' = ok
        /\ hunt' = [hunt EXCEPT !.todo = @ \ {p}, !.at = IF hunt.todo = {p} THEN "last" ELSE @]
    BY DEF Kill, ReapIInv, ReapTypes
  <1>2. /\ hunt' \in HuntSet /\ hunt'.at = (IF hunt.todo = {p} THEN "last" ELSE "kill")
        /\ hunt'.todo = hunt.todo \ {p} /\ hunt'.sent = hunt.sent
        /\ hunt'.rule = hunt.rule /\ hunt'.root = hunt.root /\ hunt'.seen = hunt.seen
    BY <1>1 DEF HuntSet
  <1>3. hunt'.at \in {"last", "kill"} /\ (hunt'.at = "last" => hunt'.todo = {})
    BY <1>2
  <1>4. QED
    BY <1>1, <1>2, <1>3, SignalSteps

(* The steps that end a candidate, a tree or the pass. *)
LEMMA ReapIdleStep ==
  ASSUME MaxBirths \in Nat, ReapIInv, hunt' \in HuntSet,
         proc' = proc, births' = births, profile' \in BOOLEAN, clock' \in {clock, births}, ok' = ok,
         hunt'.todo = {}, hunt'.sent = {},
         \A q \in Pids : hunt'.seen[q] = 0,
         hunt'.at \in {"idle", "check", "remove"},
         hunt'.at = "remove" => Browsers = {}
  PROVE  ReapIInv'
  <1> USE DEF ReapIInv
  <1>1. ReapTypes'
    <2>1. \A q \in Pids : hunt'.seen[q] <= births
      BY DEF ReapTypes
    <2>2. clock' \in 0 .. births
      BY DEF ReapTypes
    <2>3. QED
      BY <2>1, <2>2 DEF ReapTypes
  <1>2. Scanned'
    BY DEF Scanned, Same
  <1>3. Signalled'
    BY DEF Signalled, Rightly
  <1>4. Checked'
    BY DEF Checked, Browsers, Alive
  <1>5. QED
    BY <1>1, <1>2, <1>3, <1>4

LEMMA EndPassStep ==
  ASSUME MaxBirths \in Nat, ReapIInv, EndHunt \/ RemoveProfile
  PROVE  ReapIInv'
  <1>1. proc' = proc /\ births' = births /\ clock' = clock /\ ok' = ok /\ hunt' = NoHunt
    BY DEF EndHunt, RemoveProfile
  <1>2. profile' \in BOOLEAN
    BY Zenon DEF EndHunt, RemoveProfile, ReapIInv
  <1>3. QED
    BY <1>1, <1>2, NoHuntIsOne, ReapIdleStep

LEMMA CheckProfileStep ==
  ASSUME MaxBirths \in Nat, ReapIInv, CheckProfile
  PROVE  ReapIInv'
  <1>1. /\ hunt \in HuntSet /\ hunt.at = "check"
        /\ proc' = proc /\ births' = births /\ profile' = profile /\ clock' = births /\ ok' = ok
        /\ hunt' = IF Browsers = {} THEN [hunt EXCEPT !.at = "remove"] ELSE NoHunt
    BY DEF CheckProfile, ReapIInv, ReapTypes
  <1>2. hunt.todo = {} /\ hunt.sent = {} /\ \A p \in Pids : hunt.seen[p] = 0
    BY <1>1 DEF ReapIInv, Checked
  <1>3. /\ hunt' \in HuntSet /\ hunt'.todo = {} /\ hunt'.sent = {} /\ \A p \in Pids : hunt'.seen[p] = 0
        /\ hunt'.at \in {"idle", "remove"} /\ (hunt'.at = "remove" => Browsers = {})
    <2>1. CASE Browsers = {}
      BY <1>1, <1>2, <2>1 DEF HuntSet
    <2>2. CASE Browsers # {}
      BY <1>1, <2>2, NoHuntIsOne
    <2>3. QED
      BY <2>1, <2>2
  <1>4. profile' \in BOOLEAN
    BY <1>1, Zenon DEF ReapIInv
  <1>5. QED
    BY <1>1, <1>3, <1>4, ReapIdleStep

LEMMA DoneStep ==
  ASSUME MaxBirths \in Nat, ReapIInv, Done
  PROVE  ReapIInv'
  <1>1. /\ hunt \in HuntSet /\ hunt.at \in {"wait", "last"} /\ hunt.todo = {}
        /\ proc' = proc /\ births' = births /\ profile' = profile /\ clock' = clock /\ ok' = ok
    BY DEF Done, ReapIInv, ReapTypes, Signalled
  <1>2. CASE hunt.rule # "tree"
    <2>1. hunt' = [hunt EXCEPT !.at = "verify", !.sent = {}]
      BY <1>2 DEF Done
    <2>2. /\ hunt' \in HuntSet /\ hunt'.at = "verify" /\ hunt'.rule = hunt.rule /\ hunt'.seen = hunt.seen
          /\ hunt'.todo = {} /\ hunt'.sent = {}
      BY <1>1, <2>1 DEF HuntSet
    <2>3. ReapTypes'
      <3>1. \A q \in Pids : hunt'.seen[q] = 0 \/ hunt'.seen[q] = hunt.seen[q] \/ hunt'.seen[q] = proc[q].start
        BY <2>2
      <3>2. QED
        BY <1>1, <2>2, <3>1, HuntTypes, Zenon DEF ReapIInv
    <2>4. Scanned' /\ Signalled' /\ Checked'
      BY <1>1, <1>2, <2>2 DEF ReapIInv, Scanned, Signalled, Checked, Same
    <2>5. profile' \in BOOLEAN
      BY <1>1, Zenon DEF ReapIInv
    <2>6. QED
      BY <2>3, <2>4, <2>5 DEF ReapIInv
  <1>3. CASE hunt.rule = "tree"
    <2>1. hunt' = [NoHunt EXCEPT !.at = "check"] \/ hunt' = NoHunt
      BY <1>3 DEF Done
    <2>2. /\ hunt' \in HuntSet /\ hunt'.todo = {} /\ hunt'.sent = {} /\ \A p \in Pids : hunt'.seen[p] = 0
          /\ hunt'.at \in {"idle", "check"}
      <3>1. CASE hunt' = [NoHunt EXCEPT !.at = "check"]
        BY <3>1, NoHuntIsOne DEF HuntSet
      <3>2. CASE hunt' = NoHunt
        BY <3>2, NoHuntIsOne
      <3>3. QED
        BY <2>1, <3>1, <3>2
    <2>3. profile' \in BOOLEAN
      BY <1>1, Zenon DEF ReapIInv
    <2>4. QED
      BY <1>1, <2>2, <2>3, ReapIdleStep
  <1>4. QED
    BY <1>2, <1>3

LEMMA ReapReached ==
  ASSUME MaxBirths \in Nat, ReapIInv, [ReapNext]_reapVars
  PROVE  ReapIInv'
  <1>1. CASE UNCHANGED reapVars
    <2>1. profile' \in BOOLEAN
      BY <1>1, Zenon DEF reapVars, ReapIInv
    <2>2. ReapTypes' /\ Scanned' /\ Signalled' /\ Checked'
      BY <1>1 DEF reapVars, ReapIInv, ReapTypes, Scanned, Signalled, Checked, Same, Rightly, Browsers, Alive
    <2>3. QED
      BY <2>1, <2>2 DEF ReapIInv
  <1>2. ASSUME NEW p \in Pids, (\E kind \in ProcessKinds : Born(p, kind)) \/ Exit(p) \/ Change(p)
        PROVE  ReapIInv'
    BY <1>2, WorldStep
  <1>3. ASSUME NEW p \in Pids, ScanTree(p) \/ Verify(p) \/ Term(p) \/ Kill(p)
        PROVE  ReapIInv'
    BY <1>3, ScanTreeStep, VerifyStep, TermStep, KillStep
  <1>4. ASSUME NEW rule \in ReapRules, ScanServers(rule)
        PROVE  ReapIInv'
    BY <1>4, ScanServersStep
  <1>5. CASE VerifyTree \/ EndHunt \/ Poll \/ Escalate \/ Done \/ CheckProfile \/ RemoveProfile
    BY <1>5, VerifyTreeStep, EndPassStep, PollStep, EscalateStep, DoneStep, CheckProfileStep
  <1>6. QED
    BY <1>1, <1>2, <1>3, <1>4, <1>5 DEF ReapNext

LEMMA ReapInductive == ReapSpec => []ReapIInv
  <1>1. ReapInit => ReapIInv
    BY ReapStarts, ReapAssumption
  <1>2. ReapIInv /\ [ReapNext]_reapVars => ReapIInv'
    BY ReapReached, ReapAssumption
  <1>3. QED
    BY <1>1, <1>2, PTL DEF ReapSpec

(* The pass and what it signals have their types, and a tree's root is not sent a
   signal while others of it are still to be sent theirs (terminate_tree). *)
THEOREM ReapTypeCorrect == ReapSpec => []ReapTypeOK
  <1>1. ReapIInv => ReapTypeOK
    <2>1. ReapIInv => /\ proc \in [Pids -> ProcessSet] /\ births \in 0 .. MaxBirths /\ hunt \in HuntSet
                      /\ clock \in 0 .. births /\ ok \subseteq 1 .. MaxBirths
                      /\ (hunt.at = "term" /\ hunt.root \in hunt.sent => hunt.todo = {})
      BY DEF ReapIInv, ReapTypes, Signalled
    <2>2. ReapIInv => profile \in BOOLEAN
      BY Zenon DEF ReapIInv
    <2>3. QED
      BY <2>1, <2>2, Zenon DEF ReapTypeOK, ProcessSet, HuntSet
  <1>2. QED
    BY <1>1, ReapInductive, PTL

(* The verifications of reap.rs before each TERM and each KILL: a signal reaches a
   process that met every gate when last verified, or one that took its number
   since, however often numbers are used again. *)
THEOREM EndedRightly == ReapSpec => SignalsAreDue
  <1> DEFINE Right == \A p \in Alive : Signals(p) => proc[p].start \in ok \/ proc[p].start > clock
  <1>1. ReapIInv => Right
    <2>1. SUFFICES ASSUME ReapIInv, NEW p \in Alive, Signals(p)
                   PROVE  proc[p].start \in ok \/ proc[p].start > clock
      OBVIOUS
    <2>2. hunt.at \in {"term", "kill"} /\ p \in hunt.todo /\ proc[p] # None
      BY <2>1 DEF Signals, Alive
    <2>3. Rightly(p)
      BY <2>1, <2>2 DEF ReapIInv, Signalled
    <2>4. QED
      BY <2>2, <2>3 DEF Rightly
  <1>2. ReapIInv /\ [ReapNext]_reapVars => Right \/ UNCHANGED reapVars
    BY <1>1
  <1>3. QED
    BY <1>2, ReapInductive, PTL DEF SignalsAreDue, ReapSpec

(* reclaim_reaped_browser_profiles: a profile is removed under no browser that was
   there at the check, for any number of browsers and births. *)
THEOREM ProfileWasDead == ReapSpec => ProfileIsDead
  <1> DEFINE Dead == profile /\ ~profile' => \A p \in Browsers : proc[p].start > clock
  <1>1. ReapIInv /\ [ReapNext]_reapVars => Dead \/ UNCHANGED reapVars
    <2>1. SUFFICES ASSUME ReapIInv, ReapNext, profile, ~profile'
                   PROVE  \A p \in Browsers : proc[p].start > clock
      BY DEF reapVars
    <2>2. RemoveProfile
      BY <2>1, Zenon DEF ReapNext, Born, Exit, Change, ScanTree, Verify, Term, Kill, ScanServers, VerifyTree,
                 EndHunt, Poll, Escalate, Done, CheckProfile
    <2>3. QED
      BY <2>1, <2>2 DEF RemoveProfile, ReapIInv, Checked
  <1>2. QED
    BY <1>1, ReapInductive, PTL DEF ProfileIsDead, ReapSpec

-----------------------------------------------------------------------------
(* What the monitors tell. *)

(* No finding, no candidate, nothing told. *)
Blank == ""

LEMMA BlankIs == Blank # "ok" /\ Blank # "bad" /\ Blank # "blind" /\ Blank # "other" /\ Blank # "worse"
  BY DEF Blank

Words == {Blank, "ok", "bad", "blind", "other", "worse"}
Ages == 0 .. Old

ReportsTypes ==
    /\ monitor \in Monitors /\ looked \in Words
    /\ entry \in [value : Words, age : Ages] /\ told \in [about : Words, age : Ages]
    /\ memory \in [state : Words \ {Blank}, candidate : Words, age : Ages]
    /\ lasting \in [of : Words, age : Ages, taken : Nat]

(* The observation that lasts is the state, or the candidate with its age. *)
Sustained ==
    /\ lasting.taken >= Sustain
    /\ memory.candidate # Blank => lasting.of = memory.candidate /\ lasting.age = memory.age
    /\ monitor = "memory" /\ lasting.of \notin {Blank, memory.state} =>
          memory.candidate = lasting.of /\ memory.age = lasting.age

(* Findings that are recorded without a word. *)
Hush(v) == v \in {Blank, "ok"} \/ (monitor = "rapid" /\ v = "blind")

(* The entry is the last finding, but for the monitors that forget "ok"; and the
   last message is about the entry, and as old. *)
Recorded ==
    /\ monitor = "heavy" => entry.value = IF looked = "ok" THEN Blank ELSE looked
    /\ monitor = "oneway" /\ looked = "bad" => entry.value = "bad"
    /\ monitor = "rust" => entry.value = looked \/ (entry.value = Blank /\ looked = "ok")
    /\ monitor \notin {"heavy", "oneway", "rust"} => entry.value = looked
    /\ Repeating /\ ~Hush(entry.value) => told.about = entry.value /\ told.age = entry.age

ReportsIInv == ReportsTypes /\ Sustained /\ Recorded

Paced == Repeat \in Nat \ {0} /\ Sustain \in Nat

LEMMA OldIs ==
  ASSUME Paced
  PROVE  /\ Old \in Nat /\ Old >= Repeat /\ Old >= Sustain /\ 0 \in Ages /\ Old \in Ages
         /\ \A age \in Ages : ReportsOlder(age) \in Ages
  BY DEF Paced, Old, Ages, ReportsOlder

LEMMA NothingIs ==
  /\ NoEntry = [value |-> Blank, age |-> Old] /\ NotTold = [about |-> Blank, age |-> Old]
  /\ NoMemory = [state |-> "ok", candidate |-> Blank, age |-> 0]
  /\ NoRun = [of |-> Blank, age |-> 0, taken |-> Sustain]
  BY Zenon DEF NoEntry, NotTold, NoMemory, NoRun, Blank

LEMMA NothingTyped ==
  ASSUME Paced
  PROVE  /\ NoEntry \in [value : Words, age : Ages] /\ NotTold \in [about : Words, age : Ages]
         /\ NoMemory \in [state : Words \ {Blank}, candidate : Words, age : Ages]
         /\ NoRun \in [of : Words, age : Ages, taken : Nat]
  BY OldIs, NothingIs, BlankIs DEF Words, Paced

LEMMA ReportsStarts ==
  ASSUME ReportsInit, Paced
  PROVE  ReportsIInv
  <1>1. /\ monitor \in Monitors /\ entry = NoEntry /\ memory = NoMemory
        /\ looked = Blank /\ told = NotTold /\ lasting = NoRun
    BY Zenon DEF ReportsInit, Blank
  <1>2. ReportsTypes
    BY <1>1, NothingTyped DEF ReportsTypes, Words
  <1>3. Sustained
    <2>1. lasting.taken = Sustain /\ lasting.of = Blank /\ memory.candidate = Blank
      BY <1>1, NothingIs
    <2>2. lasting.taken >= Sustain
      BY <2>1 DEF Paced
    <2>3. QED
      BY <2>1, <2>2 DEF Sustained
  <1>4. Recorded
    BY <1>1, NothingIs, BlankIs DEF Recorded, Hush
  <1>5. QED
    BY <1>2, <1>3, <1>4 DEF ReportsIInv

LEMMA FindingsAre ==
  ASSUME monitor \in Monitors, NEW v \in Findings
  PROVE  v \in Words \ {Blank}
  BY BlankIs DEF Findings, Words, Monitors

LEMMA EmittedIs ==
  ASSUME ReportsTypes, Paced, NEW v \in Words
  PROVE  /\ Emitted(v).entry \in [value : Words, age : Ages] /\ Emitted(v).entry.value = v
         /\ Emitted(v).emit <=> entry.value # v \/ (v # "ok" /\ entry.age >= Repeat)
         /\ Emitted(v).entry.age = IF Emitted(v).emit THEN 0 ELSE entry.age
  <1> DEFINE dueNow == entry.value # v \/ (v # "ok" /\ entry.age >= Repeat)
             age == IF dueNow THEN 0 ELSE entry.age
  <1>1. age \in Ages
    BY OldIs DEF ReportsTypes
  <1> HIDE DEF age
  <1>2. Emitted(v) = [emit |-> dueNow, entry |-> [value |-> v, age |-> age]]
    BY Zenon DEF Emitted, age
  <1>3. Emitted(v).entry = [value |-> v, age |-> age] /\ (Emitted(v).emit <=> dueNow)
    <2> HIDE DEF dueNow
    <2>1. QED
      BY <1>2
  <1>4. QED
    BY <1>1, <1>3 DEF age

(* A monitor that tells when the shared memory says so: what it tells, and what it leaves. *)
LEMMA TellsWhenDue ==
  ASSUME ReportsIInv, Paced, Repeating, monitor # "rust", NEW v \in Words \ {Blank},
         monitor = "heavy" => v # "ok", monitor = "oneway" => v = "bad",
         entry' = Emitted(v).entry, monitor' = monitor, looked' = v,
         told' = told \/ told' = [about |-> v, age |-> 0],
         ~Hush(v) => told' = IF Emitted(v).emit THEN [about |-> v, age |-> 0] ELSE told,
         Hush(v) /\ looked = v => told' = told
  PROVE  /\ entry' \in [value : Words, age : Ages] /\ told' \in [about : Words, age : Ages]
         /\ looked' \in Words /\ Recorded'
         /\ ~Hush(v) /\ v # looked /\ monitor # "oneway" => told' = [about |-> v, age |-> 0]
         /\ ~Hush(v) => told'.about = v /\ told'.age < Repeat
         /\ v = looked /\ told' # told => told.age >= Repeat
  <1>1. /\ entry' \in [value : Words, age : Ages] /\ entry'.value = v
        /\ Emitted(v).emit <=> entry.value # v \/ (v # "ok" /\ entry.age >= Repeat)
        /\ entry'.age = IF Emitted(v).emit THEN 0 ELSE entry.age
    BY EmittedIs DEF ReportsIInv
  <1>2. told' \in [about : Words, age : Ages]
    BY OldIs DEF ReportsIInv, ReportsTypes
  <1>3. entry.age \in Nat /\ told.age \in Nat /\ Repeat \in Nat /\ Repeat > 0
    BY DEF ReportsIInv, ReportsTypes, Ages, Paced
  <1>4. ~Hush(v) => v # "ok" /\ v # Blank /\ (v = looked => entry.value = v)
    <2>1. looked \in Words \cup {Blank} /\ v # Blank
      BY DEF ReportsIInv, ReportsTypes
    <2>2. v # "ok" => (v = looked => entry.value = v)
      BY <2>1 DEF ReportsIInv, Recorded, Repeating
    <2>3. QED
      BY <2>1, <2>2 DEF Hush
  <1>5. ~Hush(v) /\ v # looked /\ monitor # "oneway" => entry.value # v
    BY DEF ReportsIInv, Recorded, Hush
  <1>6. ~Hush(v) /\ ~Emitted(v).emit => told.about = v /\ told.age = entry.age /\ told.age < Repeat
    BY <1>1, <1>3, <1>4 DEF ReportsIInv, Recorded
  <1>7. ~Hush(v) => told'.about = v /\ told'.age = entry'.age /\ told'.age < Repeat
    BY <1>1, <1>3, <1>6
  <1>8. v = looked /\ told' # told => told.age >= Repeat
    <2>1. SUFFICES ASSUME v = looked, told' # told
                   PROVE  told.age >= Repeat
      OBVIOUS
    <2>2. ~Hush(v) /\ Emitted(v).emit
      BY <2>1
    <2>3. entry.value = v /\ entry.age >= Repeat
      BY <1>1, <1>4, <2>1, <2>2
    <2>4. QED
      BY <2>2, <2>3 DEF ReportsIInv, Recorded
  <1>9. Recorded'
    BY <1>1, <1>7 DEF Recorded, Hush, Repeating
  <1>10. QED
    BY <1>1, <1>2, <1>5, <1>7, <1>8, <1>9

(* What a look has to tell of what it found (NewsIsTold). *)
Told(found) ==
    /\ ~Quiet(found) /\ found # looked /\ monitor # "oneway" => told' = [about |-> found, age |-> 0]
    /\ ~Quiet(found) /\ Repeating => told'.about = found /\ told'.age < Repeat
    /\ found = looked /\ told' # told => Repeating /\ told.age >= Repeat

LookKept ==
    /\ entry' \in [value : Words, age : Ages] /\ told' \in [about : Words, age : Ages]
    /\ looked' \in Words /\ Recorded' /\ Told(looked')

LEMMA QuietIs ==
  ASSUME NEW v \in Words \ {Blank}
  PROVE  ~Quiet(v) => v # "ok" /\ ~Hush(v)
  BY DEF Quiet, Hush

LEMMA KeptWhenDue ==
  ASSUME ReportsIInv, Paced, Repeating, monitor # "rust", NEW v \in Words \ {Blank},
         monitor = "heavy" => v # "ok", monitor = "oneway" => v = "bad",
         entry' = Emitted(v).entry, monitor' = monitor, looked' = v,
         told' = told \/ told' = [about |-> v, age |-> 0],
         ~Hush(v) => told' = IF Emitted(v).emit THEN [about |-> v, age |-> 0] ELSE told,
         Hush(v) /\ looked = v => told' = told
  PROVE  LookKept
  <1>1. /\ entry' \in [value : Words, age : Ages] /\ told' \in [about : Words, age : Ages]
        /\ looked' \in Words /\ Recorded'
        /\ ~Hush(v) /\ v # looked /\ monitor # "oneway" => told' = [about |-> v, age |-> 0]
        /\ ~Hush(v) => told'.about = v /\ told'.age < Repeat
        /\ v = looked /\ told' # told => told.age >= Repeat
    BY TellsWhenDue
  <1>2. ~Quiet(v) => ~Hush(v)
    BY QuietIs
  <1>3. QED
    BY <1>1, <1>2 DEF LookKept, Told

(* The monitors with a notification on entry and an event when due. *)
LEMMA OnEntryKept ==
  ASSUME ReportsIInv, Paced, NEW v \in Words \ {Blank},
         monitor \in {"early", "trend", "swap", "zombies", "inode", "mount"},
         OnEntry(v), monitor' = monitor, looked' = v
  PROVE  LookKept
  <1> DEFINE new == [about |-> v, age |-> 0]
  <1>1. entry' = Emitted(v).entry
    BY Zenon DEF OnEntry
  <1>2. told' = IF v # "ok" /\ (entry.value # v \/ Emitted(v).emit) THEN new ELSE told
    BY Zenon DEF OnEntry, Tell
  <1>3. Emitted(v).emit <=> entry.value # v \/ (v # "ok" /\ entry.age >= Repeat)
    BY EmittedIs DEF ReportsIInv
  <1> HIDE DEF new
  <1>4. told' = told \/ told' = new
    BY <1>2
  <1>5. monitor # "rapid" /\ monitor # "heavy" /\ monitor # "oneway" /\ monitor # "rust" /\ Repeating
    BY DEF Repeating
  <1>6. Hush(v) <=> v = "ok"
    BY <1>5 DEF Hush
  <1>7. ~Hush(v) => told' = IF Emitted(v).emit THEN new ELSE told
    BY <1>2, <1>3, <1>6
  <1>8. Hush(v) => told' = told
    BY <1>2, <1>6
  <1>9. QED
    BY <1>1, <1>4, <1>5, <1>7, <1>8, KeptWhenDue, Zenon DEF new

(* The fill rate and the links: told when due. *)
LEMMA WhenDueKept ==
  ASSUME ReportsIInv, Paced, NEW v \in Words \ {Blank}, v \in Findings,
         Rapid(v) \/ Links(v) \/ (Heavy(v) /\ v # "ok") \/ (OneWay(v) /\ v # "ok"),
         monitor' = monitor, looked' = v
  PROVE  LookKept
  <1> DEFINE new == [about |-> v, age |-> 0]
  <1>1. entry' = Emitted(v).entry
    BY Zenon DEF Rapid, Links, Heavy, OneWay
  <1>2. \/ monitor = "rapid" /\ told' = IF v = "bad" /\ Emitted(v).emit THEN new ELSE told
        \/ monitor = "links" /\ told' = IF v # "ok" /\ Emitted(v).emit THEN new ELSE told
        \/ monitor \in {"heavy", "oneway"} /\ v # "ok" /\ told' = IF Emitted(v).emit THEN new ELSE told
    BY Zenon DEF Rapid, Links, Heavy, OneWay, Tell
  <1> HIDE DEF new
  <1>3. told' = told \/ told' = new
    BY <1>2
  <1>4. monitor # "rust" /\ Repeating
    BY <1>2 DEF Repeating
  <1>5. /\ monitor = "rapid" => v \in {"ok", "bad", "blind"}
        /\ monitor = "oneway" => v \in {"ok", "bad"}
    BY DEF Findings
  <1>6. /\ ~Hush(v) => told' = IF Emitted(v).emit THEN new ELSE told
        /\ Hush(v) => told' = told
    BY <1>2, <1>5 DEF Hush
  <1>7. (monitor = "heavy" => v # "ok") /\ (monitor = "oneway" => v = "bad")
    BY <1>2, <1>5
  <1>8. QED
    BY <1>1, <1>3, <1>4, <1>6, <1>7, KeptWhenDue, Zenon DEF new

(* The monitors that record no "ok". *)
LEMMA SilentKept ==
  ASSUME ReportsIInv, Paced, Heavy("ok") \/ OneWay("ok"), monitor' = monitor, looked' = "ok"
  PROVE  LookKept
  <1>1. told' = told /\ ((monitor = "heavy" /\ entry' = NoEntry) \/ (monitor = "oneway" /\ entry' = entry))
    BY Zenon DEF Heavy, OneWay
  <1>2. /\ entry' \in [value : Words, age : Ages] /\ told' \in [about : Words, age : Ages]
        /\ looked' \in Words
    BY <1>1, NothingTyped DEF ReportsIInv, ReportsTypes, Words
  <1>3. Recorded'
    BY <1>1, NothingIs DEF ReportsIInv, Recorded, Hush, Repeating
  <1>4. Told(looked')
    BY <1>1 DEF Told, Quiet
  <1>5. QED
    BY <1>2, <1>3, <1>4 DEF LookKept

LEMMA GrowthKept ==
  ASSUME ReportsIInv, Paced, NEW v \in Words \ {Blank}, Growth(v), monitor' = monitor, looked' = v
  PROVE  LookKept
  <1> DEFINE new == [about |-> v, age |-> 0]
  <1>1. entry' = Emitted(v).entry /\ monitor = "growth"
    BY Zenon DEF Growth
  <1>2. told' = IF Emitted(v).emit /\ (v # "ok" \/ entry.value \notin {Blank, v}) THEN new ELSE told
    BY Zenon DEF Growth, Tell, Blank
  <1> HIDE DEF new
  <1>3. told' = told \/ told' = new
    BY <1>2
  <1>4. Hush(v) <=> v = "ok"
    BY <1>1 DEF Hush
  <1>5. ~Hush(v) => told' = IF Emitted(v).emit THEN new ELSE told
    BY <1>2, <1>4
  <1>6. Hush(v) /\ looked = v => told' = told
    <2>1. entry.value = looked
      BY <1>1 DEF ReportsIInv, Recorded
    <2>2. QED
      BY <1>2, <1>4, <2>1
  <1>7. monitor # "rust" /\ monitor # "heavy" /\ monitor # "oneway" /\ Repeating
    BY <1>1 DEF Repeating
  <1>8. QED
    BY <1>1, <1>3, <1>5, <1>6, <1>7, KeptWhenDue, Zenon DEF new

(* The monitors with a memory of their own tell a change and do not repeat. *)
LEMMA OwnKept ==
  ASSUME ReportsIInv, Paced, NEW v \in Words \ {Blank}, v \in Findings,
         DiskState(v) \/ ReapList(v) \/ RustState(v), monitor' = monitor, looked' = v
  PROVE  LookKept
  <1> DEFINE new == [about |-> v, age |-> 0]
  <1>1. \/ monitor = "disk" /\ entry' = [entry EXCEPT !.value = v]
           /\ told' = IF (IF entry.value = Blank THEN v = "worse" ELSE entry.value # v) THEN new ELSE told
        \/ monitor = "reap" /\ entry' = [entry EXCEPT !.value = v]
           /\ told' = IF entry.value # v /\ (v = "ok" => entry.value # Blank) THEN new ELSE told
        \/ monitor = "rust" /\ entry' = (IF entry.value = Blank /\ v = "ok" THEN entry ELSE [entry EXCEPT !.value = v])
           /\ told' = IF entry.value # v /\ (v = "ok" => entry.value # Blank) THEN new ELSE told
    BY Zenon DEF DiskState, ReapList, RustState, Tell, Blank
  <1>2. new \in [about : Words, age : Ages]
    BY OldIs
  <1>3. /\ entry' \in [value : Words, age : Ages] /\ told' \in [about : Words, age : Ages]
        /\ looked' \in Words
    <2>1. [entry EXCEPT !.value = v] \in [value : Words, age : Ages]
      BY DEF ReportsIInv, ReportsTypes
    <2> HIDE DEF new
    <2>2. (entry' = entry \/ entry' = [entry EXCEPT !.value = v]) /\ (told' = told \/ told' = new)
      BY <1>1, Zenon
    <2>3. entry \in [value : Words, age : Ages] /\ told \in [about : Words, age : Ages]
      BY DEF ReportsIInv, ReportsTypes
    <2>4. QED
      BY <1>2, <2>1, <2>2, <2>3
  <1>4. entry'.value = v \/ (monitor = "rust" /\ v = "ok" /\ entry'.value = Blank)
    <2>1. [entry EXCEPT !.value = v].value = v
      BY DEF ReportsIInv, ReportsTypes
    <2>2. QED
      BY <1>1, <2>1, Zenon
  <1>5. ~Repeating
    BY <1>1 DEF Repeating
  <1>6. Recorded'
    BY <1>1, <1>4, <1>5 DEF Recorded, Repeating
  <1>7. Told(looked')
    <2> HIDE DEF new
    <2>1. /\ monitor \in {"disk", "reap"} => entry.value = looked
          /\ monitor = "rust" => entry.value = looked \/ (entry.value = Blank /\ looked = "ok")
      BY DEF ReportsIInv, Recorded
    <2>2. monitor = "disk" => v \in {"ok", "bad", "worse"}
      BY DEF Findings
    <2>3. ~Quiet(v) => v # "ok" /\ ~(monitor = "disk" /\ looked = Blank /\ v = "bad")
      BY Zenon DEF Quiet, Blank
    <2>4. ~Quiet(v) /\ v # looked => told' = new
      <3>1. CASE monitor = "disk"
        BY <1>1, <2>1, <2>2, <2>3, <3>1
      <3>2. CASE monitor = "reap"
        BY <1>1, <2>1, <2>3, <3>2
      <3>3. CASE monitor = "rust"
        BY <1>1, <2>1, <2>3, <3>3
      <3>4. QED
        BY <1>1, <3>1, <3>2, <3>3
    <2>5. v = looked => told' = told
      BY <1>1, <2>1
    <2>6. QED
      BY <1>5, <2>4, <2>5 DEF Told, new
  <1>8. QED
    BY <1>3, <1>6, <1>7 DEF LookKept

-----------------------------------------------------------------------------
(* The hysteresis of the memory pressure. *)
MemoryState(state, candidate, age) == [state |-> state, candidate |-> candidate, age |-> age]

LEMMA StabilizedIs ==
  ASSUME ReportsTypes, Paced, NEW v \in Words \ {Blank}
  PROVE  /\ Stabilized(v) \in [state : Words \ {Blank}, candidate : Words, age : Ages]
         /\ \/ memory.state = v /\ Stabilized(v) = MemoryState(v, Blank, 0)
            \/ memory.state # v /\ memory.candidate # v
               /\ Stabilized(v) = MemoryState(memory.state, v, 0)
            \/ memory.state # v /\ memory.candidate = v /\ memory.age < Sustain /\ Stabilized(v) = memory
            \/ memory.state # v /\ memory.candidate = v /\ memory.age >= Sustain
               /\ Stabilized(v) = MemoryState(v, Blank, 0)
  <1> DEFINE quiet == [memory EXCEPT !.candidate = Blank, !.age = 0]
             waits == [memory EXCEPT !.candidate = v, !.age = 0]
  <1>1. Stabilized(v) = IF memory.state = v THEN quiet
                        ELSE IF memory.candidate # v THEN waits
                        ELSE IF memory.age < Sustain THEN memory
                        ELSE MemoryState(v, Blank, 0)
    BY Zenon DEF Stabilized, Blank, MemoryState
  <1>2. quiet = MemoryState(memory.state, Blank, 0) /\ waits = MemoryState(memory.state, v, 0)
    <2> DEFINE st == memory.state  ca == memory.candidate  ag == memory.age  b == Blank  z == 0
               one == [memory EXCEPT !.candidate = b]
               two == [memory EXCEPT !.candidate = v]
    <2>1. memory = MemoryState(st, ca, ag)
      BY DEF ReportsTypes, MemoryState
    <2>2. quiet = [one EXCEPT !.age = z] /\ waits = [two EXCEPT !.age = z]
      OBVIOUS
    <2> HIDE DEF st, ca, ag, b, z, quiet, waits
    <2>3. one = MemoryState(st, b, ag) /\ two = MemoryState(st, v, ag)
      BY <2>1 DEF MemoryState
    <2> HIDE DEF one, two
    <2>4. quiet = MemoryState(st, b, z) /\ waits = MemoryState(st, v, z)
      BY <2>2, <2>3 DEF MemoryState
    <2>5. QED
      BY <2>4 DEF st, b, z
  <1> HIDE DEF quiet, waits
  <1>3. memory.age \in Nat /\ Sustain \in Nat
    BY DEF ReportsTypes, Ages, Paced
  <1>4. \/ memory.state = v /\ Stabilized(v) = MemoryState(v, Blank, 0)
        \/ memory.state # v /\ memory.candidate # v
           /\ Stabilized(v) = MemoryState(memory.state, v, 0)
        \/ memory.state # v /\ memory.candidate = v /\ memory.age < Sustain /\ Stabilized(v) = memory
        \/ memory.state # v /\ memory.candidate = v /\ memory.age >= Sustain
           /\ Stabilized(v) = MemoryState(v, Blank, 0)
    BY <1>1, <1>2, <1>3
  <1>5. /\ MemoryState(v, Blank, 0) \in [state : Words \ {Blank}, candidate : Words, age : Ages]
        /\ MemoryState(memory.state, v, 0) \in [state : Words \ {Blank}, candidate : Words, age : Ages]
        /\ memory \in [state : Words \ {Blank}, candidate : Words, age : Ages]
    <2>1. Blank \in Words
      BY DEF Words
    <2>2. QED
      BY <2>1, OldIs DEF ReportsTypes, MemoryState
  <1>6. QED
    BY <1>4, <1>5

LEMMA MemoryKept ==
  ASSUME ReportsIInv, Paced, NEW v \in Words \ {Blank}, Memory(v), monitor' = monitor
  PROVE  /\ memory' \in [state : Words \ {Blank}, candidate : Words, age : Ages]
         /\ lasting' \in [of : Words, age : Ages, taken : Nat]
         /\ Sustained'
  <1> DEFINE age == IF lasting.of = v THEN lasting.age ELSE 0
             taken == IF Stabilized(v).state # memory.state THEN age ELSE lasting.taken
  <1>1. memory' = Stabilized(v) /\ lasting' = [of |-> v, age |-> age, taken |-> taken]
    BY Zenon DEF Memory
  <1>2. /\ memory \in [state : Words \ {Blank}, candidate : Words, age : Ages] /\ lasting.taken \in Nat
        /\ age \in Ages /\ age \in Nat /\ memory.age \in Nat /\ Sustain \in Nat
    BY OldIs DEF ReportsIInv, ReportsTypes, Ages, Paced
  <1>3. taken \in Nat
    BY <1>2
  <1>9. age = IF lasting.of = v THEN lasting.age ELSE 0
    OBVIOUS
  <1>10. taken = IF Stabilized(v).state # memory.state THEN age ELSE lasting.taken
    OBVIOUS
  <1> HIDE DEF age, taken
  <1>4. memory' \in [state : Words \ {Blank}, candidate : Words, age : Ages]
    BY <1>1, StabilizedIs DEF ReportsIInv
  <1>5. lasting' \in [of : Words, age : Ages, taken : Nat]
    BY <1>1, <1>2, <1>3
  <1>6. lasting'.of = v /\ lasting'.age = age /\ lasting'.taken = taken
    BY <1>1
  <1>7. Sustained'
    <2>1. CASE memory.state = v /\ Stabilized(v) = MemoryState(v, Blank, 0)
      <3>1. memory'.state = v /\ memory'.candidate = Blank
        BY <1>1, <2>1 DEF MemoryState
      <3>2. taken = lasting.taken
        BY <1>1, <1>10, <2>1, <3>1
      <3>3. QED
        BY <1>6, <3>1, <3>2 DEF ReportsIInv, Sustained
    <2>2. CASE memory.state # v /\ memory.candidate # v /\ Stabilized(v) = MemoryState(memory.state, v, 0)
      <3>1. memory'.state = memory.state /\ memory'.candidate = v /\ memory'.age = 0
        BY <1>1, <2>2 DEF MemoryState
      <3>2. taken = lasting.taken
        BY <1>1, <1>10, <3>1
      <3>3. monitor = "memory"
        BY Zenon DEF Memory
      <3>4. age = 0
        BY <1>9, <2>2, <3>3 DEF ReportsIInv, Sustained
      <3>5. QED
        BY <1>6, <3>1, <3>2, <3>4 DEF ReportsIInv, Sustained
    <2>3. CASE memory.state # v /\ memory.candidate = v /\ Stabilized(v) = memory
      <3>1. taken = lasting.taken /\ memory' = memory
        BY <1>1, <1>10, <2>3
      <3>2. age = memory.age
        BY <1>9, <2>3 DEF ReportsIInv, Sustained
      <3>3. QED
        BY <1>6, <2>3, <3>1, <3>2 DEF ReportsIInv, Sustained
    <2>4. CASE memory.state # v /\ memory.candidate = v /\ memory.age >= Sustain
               /\ Stabilized(v) = MemoryState(v, Blank, 0)
      <3>1. memory'.state = v /\ memory'.candidate = Blank
        BY <1>1, <2>4 DEF MemoryState
      <3>2. taken = age
        BY <1>1, <1>10, <2>4, <3>1
      <3>3. age = memory.age
        BY <1>9, <2>4 DEF ReportsIInv, Sustained
      <3>4. QED
        BY <1>2, <1>6, <2>4, <3>1, <3>2, <3>3 DEF Sustained
    <2>5. QED
      BY <2>1, <2>2, <2>3, <2>4, StabilizedIs, Zenon DEF ReportsIInv
  <1>8. QED
    BY <1>4, <1>5, <1>7

LEMMA MemoryTells ==
  ASSUME ReportsIInv, Paced, NEW v \in Words \ {Blank}, Memory(v), monitor' = monitor
  PROVE  LookKept
  <1> DEFINE now == Stabilized(v).state
             new == [about |-> now, age |-> 0]
  <1>1. monitor = "memory" /\ entry' = Emitted(now).entry /\ looked' = now
    BY Zenon DEF Memory
  <1>2. told' = IF Emitted(now).emit /\ (now # "ok" \/ entry.value \notin {Blank, "ok"}) THEN new ELSE told
    BY Zenon DEF Memory, Tell, Blank
  <1>3. now \in Words \ {Blank}
    BY StabilizedIs DEF ReportsIInv
  <1> HIDE DEF now, new
  <1>4. told' = told \/ told' = new
    BY <1>2
  <1>5. Hush(now) <=> now = "ok"
    BY <1>1, <1>3 DEF Hush
  <1>6. ~Hush(now) => told' = IF Emitted(now).emit THEN new ELSE told
    BY <1>2, <1>5
  <1>7. Hush(now) /\ looked = now => told' = told
    <2>1. entry.value = looked
      BY <1>1 DEF ReportsIInv, Recorded
    <2>2. QED
      BY <1>2, <1>5, <2>1
  <1>8. monitor # "rust" /\ monitor # "heavy" /\ monitor # "oneway" /\ Repeating
    BY <1>1 DEF Repeating
  <1>9. QED
    BY <1>1, <1>3, <1>4, <1>6, <1>7, <1>8, KeptWhenDue, Zenon DEF new

-----------------------------------------------------------------------------
(* The steps. *)
LEMMA ReportsLook ==
  ASSUME ReportsIInv, Paced, NEW v \in Findings, LookAgain(v)
  PROVE  ReportsIInv' /\ Told(looked')
  <1>1. monitor' = monitor /\ v \in Findings
    BY Zenon DEF LookAgain
  <1>2. v \in Words \ {Blank}
    BY FindingsAre DEF ReportsIInv, ReportsTypes
  <1>3. CASE Memory(v)
    <2>1. LookKept /\ Sustained' /\ memory' \in [state : Words \ {Blank}, candidate : Words, age : Ages]
          /\ lasting' \in [of : Words, age : Ages, taken : Nat]
      BY <1>1, <1>2, <1>3, MemoryTells, MemoryKept, Zenon
    <2>2. QED
      BY <1>1, <2>1 DEF LookKept, ReportsIInv, ReportsTypes
  <1>4. CASE looked' = v /\ UNCHANGED <<memory, lasting>>
             /\ \/ Growth(v) \/ Early(v) \/ Trend(v) \/ Swap(v) \/ Zombies(v) \/ Inode(v) \/ Mount(v)
                \/ Rapid(v) \/ Links(v) \/ Heavy(v) \/ OneWay(v)
                \/ DiskState(v) \/ ReapList(v) \/ RustState(v)
    <2>1. LookKept
      <3>1. CASE Growth(v)
        BY <1>1, <1>2, <1>4, <3>1, GrowthKept, Zenon
      <3>2. CASE Early(v) \/ Trend(v) \/ Swap(v) \/ Zombies(v) \/ Inode(v) \/ Mount(v)
        <4>1. OnEntry(v) /\ monitor \in {"early", "trend", "swap", "zombies", "inode", "mount"}
          BY <3>2, Zenon DEF Early, Trend, Swap, Zombies, Inode, Mount
        <4>2. QED
          BY <1>1, <1>2, <1>4, <4>1, OnEntryKept, Zenon
      <3>3. CASE Rapid(v) \/ Links(v) \/ (Heavy(v) /\ v # "ok") \/ (OneWay(v) /\ v # "ok")
        BY <1>1, <1>2, <1>4, <3>3, WhenDueKept, Zenon
      <3>4. CASE v = "ok" /\ (Heavy(v) \/ OneWay(v))
        BY <1>1, <1>4, <3>4, SilentKept, Zenon
      <3>5. CASE DiskState(v) \/ ReapList(v) \/ RustState(v)
        BY <1>1, <1>2, <1>4, <3>5, OwnKept, Zenon
      <3>6. QED
        BY <1>4, <3>1, <3>2, <3>3, <3>4, <3>5, Zenon
    <2>2. memory' = memory /\ lasting' = lasting
      BY <1>4
    <2>3. QED
      BY <1>1, <2>1, <2>2 DEF LookKept, ReportsIInv, ReportsTypes, Sustained
  <1>5. QED
    BY <1>3, <1>4, Zenon DEF LookAgain

LEMMA TickStep ==
  ASSUME ReportsIInv, Paced, Tick
  PROVE  ReportsIInv'
  <1>1. /\ entry' = [entry EXCEPT !.age = ReportsOlder(entry.age)]
        /\ told' = [told EXCEPT !.age = ReportsOlder(told.age)]
        /\ lasting' = [lasting EXCEPT !.age = ReportsOlder(lasting.age)]
        /\ memory' = [memory EXCEPT !.age = IF memory.candidate = Blank THEN 0 ELSE ReportsOlder(memory.age)]
        /\ monitor' = monitor /\ looked' = looked
    BY Zenon DEF Tick, Blank
  <1>2. /\ entry \in [value : Words, age : Ages] /\ told \in [about : Words, age : Ages]
        /\ memory \in [state : Words \ {Blank}, candidate : Words, age : Ages]
        /\ lasting \in [of : Words, age : Ages, taken : Nat]
    BY DEF ReportsIInv, ReportsTypes
  <1> DEFINE age == IF memory.candidate = Blank THEN 0 ELSE ReportsOlder(memory.age)
  <1>3. age \in Ages /\ ReportsOlder(entry.age) \in Ages /\ ReportsOlder(told.age) \in Ages /\ ReportsOlder(lasting.age) \in Ages
    BY <1>2, OldIs
  <1>4. memory.candidate # Blank => age = ReportsOlder(memory.age)
    OBVIOUS
  <1> HIDE DEF age
  <1>5. /\ entry' \in [value : Words, age : Ages] /\ entry'.value = entry.value /\ entry'.age = ReportsOlder(entry.age)
        /\ told' \in [about : Words, age : Ages] /\ told'.about = told.about /\ told'.age = ReportsOlder(told.age)
    BY <1>1, <1>2, <1>3
  <1>6. /\ memory' \in [state : Words \ {Blank}, candidate : Words, age : Ages]
        /\ memory'.state = memory.state /\ memory'.candidate = memory.candidate /\ memory'.age = age
    BY <1>1, <1>2, <1>3 DEF age
  <1>7. /\ lasting' \in [of : Words, age : Ages, taken : Nat]
        /\ lasting'.of = lasting.of /\ lasting'.age = ReportsOlder(lasting.age) /\ lasting'.taken = lasting.taken
    BY <1>1, <1>2, <1>3
  <1>8. ReportsTypes'
    BY <1>1, <1>5, <1>6, <1>7 DEF ReportsIInv, ReportsTypes
  <1>9. Sustained'
    BY <1>1, <1>4, <1>6, <1>7 DEF ReportsIInv, Sustained
  <1>10. Recorded'
    BY <1>1, <1>5 DEF ReportsIInv, Recorded, Hush, Repeating
  <1>11. QED
    BY <1>8, <1>9, <1>10 DEF ReportsIInv

LEMMA ReloadStep ==
  ASSUME ReportsIInv, Paced, PolicyReloaded
  PROVE  ReportsIInv'
  <1>1. /\ entry' = NoEntry /\ memory' = NoMemory /\ looked' = Blank /\ lasting' = NoRun
        /\ monitor' = monitor /\ told' = told
    BY Zenon DEF PolicyReloaded, Blank
  <1>2. ReportsTypes'
    BY <1>1, NothingTyped DEF ReportsIInv, ReportsTypes, Words
  <1>3. Sustained'
    <2>1. lasting'.taken = Sustain /\ lasting'.of = Blank /\ memory'.candidate = Blank
      BY <1>1, NothingIs
    <2>2. lasting'.taken >= Sustain
      BY <2>1 DEF Paced
    <2>3. QED
      BY <2>1, <2>2 DEF Sustained
  <1>4. Recorded'
    BY <1>1, NothingIs, BlankIs DEF Recorded, Hush
  <1>5. QED
    BY <1>2, <1>3, <1>4 DEF ReportsIInv

LEMMA ReportsStays ==
  ASSUME ReportsIInv, UNCHANGED <<monitor, entry, memory, looked, told, lasting>>
  PROVE  ReportsIInv'
  <1>1. /\ monitor' = monitor /\ entry' = entry /\ memory' = memory /\ looked' = looked
        /\ told' = told /\ lasting' = lasting
    BY Zenon
  <1>2. QED
    BY <1>1, Zenon DEF ReportsIInv, ReportsTypes, Sustained, Recorded, Hush, Repeating

LEMMA ReportsStep ==
  ASSUME ReportsIInv, Paced, [ReportsNext]_reportsVars
  PROVE  ReportsIInv'
  <1>1. CASE UNCHANGED reportsVars
    BY <1>1, ReportsStays, Zenon DEF reportsVars
  <1>2. ASSUME NEW v \in Findings, LookAgain(v)
        PROVE  ReportsIInv'
    BY <1>2, ReportsLook, Zenon
  <1>3. CASE Measure
    BY <1>3, ReportsStays, Zenon DEF Measure
  <1>4. CASE Tick \/ PolicyReloaded
    BY <1>4, TickStep, ReloadStep, Zenon
  <1>5. QED
    BY <1>1, <1>2, <1>3, <1>4, Zenon DEF ReportsNext

LEMMA ReportsReached == ReportsSpec => []ReportsIInv
  <1>1. ReportsInit => ReportsIInv
    BY ReportsStarts, ReportsAssumption DEF Paced
  <1>2. ReportsIInv /\ [ReportsNext]_reportsVars => ReportsIInv'
    BY ReportsStep, ReportsAssumption DEF Paced
  <1>3. QED
    BY <1>1, <1>2, PTL DEF ReportsSpec

(* stabilize_memory_pressure_at: whatever is seen, however often the pass comes and the
   policy is reloaded, a pressure is taken only after it was seen for memory_pressure_sustain_secs. *)
THEOREM PressureIsSustained == ReportsSpec => []SustainedFirst
  <1>1. Paced
    BY ReportsAssumption DEF Paced
  <1>2. ReportsIInv => SustainedFirst
    BY Zenon DEF ReportsIInv, Sustained, SustainedFirst, Blank
  <1>3. QED
    BY <1>1, <1>2, ReportsReached, PTL

(* report_state_transition and its callers: for every monitor, a new finding is told at once,
   one that stays is told again after report_repeat_secs, and not before. *)
THEOREM MonitorsTell == ReportsSpec => NewsIsTold
  <1>1. Paced
    BY ReportsAssumption DEF Paced
  <1> DEFINE Heard ==
        (\E v \in Findings : LookAgain(v)) =>
          LET found == looked'
          IN /\ ~Quiet(found) /\ found # looked /\ monitor # "oneway" =>
                    told' = [about |-> found, age |-> 0]
             /\ ~Quiet(found) /\ Repeating => told'.about = found /\ told'.age < Repeat
             /\ found = looked /\ told' # told => Repeating /\ told.age >= Repeat
  <1>2. ReportsIInv => Heard
    BY <1>1, ReportsLook, Zenon DEF Told
  <1>3. NewsIsTold <=> [][Heard]_reportsVars
    BY PTL DEF NewsIsTold
  <1>4. ReportsIInv /\ [ReportsNext]_reportsVars => [Heard]_reportsVars
    BY <1>2
  <1>5. QED
    BY <1>1, <1>3, <1>4, ReportsReached, PTL DEF ReportsSpec

-----------------------------------------------------------------------------
(* What a watched service is told of. *)

Points == [age : 0 .. 2 * Window, total : 0 .. MaxFootprint]

(* The points come in the order of their age: those of at least any age are a
   prefix. It is what stands in for the greatest index with an age. *)
ByAge(s) == \A t \in Nat : \E k \in 0 .. Len(s) : \A i \in 1 .. Len(s) : s[i].age >= t <=> i <= k

(* What the history of the running incarnation holds is among the calm samples,
   and none of these is above its last. *)
Traced ==
    /\ Len(history.points) >= 1 /\ ByAge(history.points)
    /\ history.last.age < 2 * Window => history.last \in calm
    /\ \A i \in 1 .. Len(history.points) :
          history.points[i].age < 2 * Window => history.points[i] \in calm
    /\ \A p \in calm : p.total <= history.last.total

GrowthTypes ==
    /\ unit \in Nat \ {0}
    /\ sample \in [at : {"idle", "asked", "read"}, of : Nat, total : 0 .. MaxFootprint]
    /\ history \in [of : Nat, last : Points, points : Seq(Points)]
    /\ calm \subseteq Points

GrowthIInv ==
    /\ GrowthTypes
    /\ history.of <= unit
    /\ history.of = unit => Traced

-----------------------------------------------------------------------------
(* The operators of the tracker. *)
LEMMA LargestIs ==
  ASSUME NEW S, S \subseteq Int, NEW m \in S, \A y \in S : y <= m
  PROVE  Largest(S) = m
  <1>1. \E x \in S : \A y \in S : y <= x
    OBVIOUS
  <1>2. Largest(S) \in S /\ \A y \in S : y <= Largest(S)
    BY <1>1 DEF Largest
  <1> DEFINE l == Largest(S)
  <1>3. l \in S /\ l \in Int /\ m \in Int /\ m <= l /\ l <= m
    BY <1>2
  <1> HIDE DEF l
  <1>4. l = m
    BY <1>3
  <1>5. QED
    BY <1>4 DEF l

LEMMA CeilDivIs ==
  ASSUME NEW a \in Nat
  PROVE  CeilDiv(a, 4) \in Nat /\ (a >= 1 => CeilDiv(a, 4) >= 1) /\ 4 * CeilDiv(a, 4) <= a + 3
  BY DEF CeilDiv

LEMMA PointIs ==
  ASSUME NEW p \in Points
  PROVE  p.age \in Nat /\ p.total \in Nat /\ p.age <= 2 * Window
  BY GrowthAssumption DEF Points

LEMMA NowIs ==
  ASSUME NEW total \in 0 .. MaxFootprint
  PROVE  Now(total) \in Points /\ Now(total).age = 0 /\ Now(total).total = total
  BY GrowthAssumption DEF Now, Points

LEMMA AgedIs ==
  ASSUME NEW p \in Points
  PROVE  /\ Aged(p) \in Points /\ Aged(p).total = p.total
         /\ Aged(p).age = IF p.age < 2 * Window THEN p.age + 1 ELSE p.age
  BY GrowthAssumption DEF Aged, Points

(* Of a history cut at some indices, the greatest of a given age. *)
LEMMA CutAppended ==
  ASSUME NEW s \in Seq(Points), ByAge(s), NEW total \in 0 .. MaxFootprint
  PROVE  ByAge(Append(s, Now(total)))
  <1> DEFINE n == Len(s)
             r == Append(s, Now(total))
  <1>1. n \in Nat /\ Len(r) = n + 1 /\ r[n + 1] = Now(total) /\ \A i \in 1 .. n : r[i] = s[i]
    BY NowIs
  <1> HIDE DEF r
  <1>2. ASSUME NEW t \in Nat
        PROVE  \E k \in 0 .. Len(r) : \A i \in 1 .. Len(r) : r[i].age >= t <=> i <= k
    <2>1. PICK k \in 0 .. n : \A i \in 1 .. n : s[i].age >= t <=> i <= k
      BY DEF ByAge
    <2>2. CASE t = 0
      <3>1. \A i \in 1 .. n : s[i].age \in Nat
        BY ElementOfSeq, PointIs
      <3>2. ASSUME NEW i \in 1 .. n + 1
            PROVE  r[i].age >= t
        <4>1. CASE i = n + 1
          BY <4>1, <1>1, <2>2, NowIs
        <4>2. CASE i # n + 1
          <5>1. i \in 1 .. n
            BY <4>2, <1>1
          <5>2. QED
            BY <5>1, <1>1, <2>2, <3>1
        <4>3. QED
          BY <4>1, <4>2
      <3>3. n + 1 \in 0 .. Len(r) /\ \A i \in 1 .. Len(r) : r[i].age >= t <=> i <= n + 1
        BY <1>1, <3>2
      <3>4. QED
        BY <3>3
    <2>3. CASE t # 0
      <3>1. \A i \in 1 .. n + 1 : r[i].age >= t <=> i <= k
        <4>1. TAKE i \in 1 .. n + 1
        <4>2. CASE i = n + 1
          BY <4>2, <1>1, <2>3, NowIs
        <4>3. CASE i # n + 1
          <5>1. i \in 1 .. n
            BY <4>3, <1>1
          <5>2. QED
            BY <5>1, <1>1, <2>1
        <4>4. QED
          BY <4>2, <4>3
      <3>2. QED
        BY <3>1, <1>1
    <2>4. QED
      BY <2>2, <2>3
  <1>3. QED
    BY <1>2 DEF ByAge, r

(* What a suffix holds. *)
LEMMA SuffixIs ==
  ASSUME NEW s \in Seq(Points), NEW f \in 1 .. Len(s)
  PROVE  LET r == SubSeq(s, f, Len(s))
         IN /\ r \in Seq(Points) /\ Len(r) = Len(s) - f + 1
            /\ \A i \in 1 .. Len(r) : r[i] = s[f + i - 1]
  <1> DEFINE n == Len(s)
             r == SubSeq(s, f, n)
  <1>1. n \in Nat /\ \A i \in f .. n : s[i] \in Points
    BY ElementOfSeq
  <1>2. /\ r \in Seq(Points)
        /\ Len(r) = IF f <= n THEN n - f + 1 ELSE 0
        /\ \A i \in 1 .. n - f + 1 : r[i] = s[f + i - 1]
    BY <1>1, SubSeqProperties
  <1> HIDE DEF r
  <1>3. Len(r) = n - f + 1
    BY <1>1, <1>2
  <1>4. QED
    BY <1>2, <1>3 DEF r

(* Every suffix of a sequence in order is in order. *)
LEMMA CutSuffix ==
  ASSUME NEW s \in Seq(Points), ByAge(s), NEW f \in 1 .. Len(s)
  PROVE  LET r == SubSeq(s, f, Len(s))
         IN /\ r \in Seq(Points) /\ Len(r) = Len(s) - f + 1
            /\ \A i \in 1 .. Len(r) : r[i] = s[f + i - 1]
            /\ ByAge(r)
  <1> DEFINE n == Len(s)
             r == SubSeq(s, f, n)
  <1>1. n \in Nat
    OBVIOUS
  <1>2. r \in Seq(Points) /\ Len(r) = n - f + 1 /\ \A i \in 1 .. Len(r) : r[i] = s[f + i - 1]
    BY SuffixIs
  <1> HIDE DEF r
  <1>3. ASSUME NEW t \in Nat
        PROVE  \E k \in 0 .. Len(r) : \A i \in 1 .. Len(r) : r[i].age >= t <=> i <= k
    <2>1. PICK k \in 0 .. n : \A i \in 1 .. n : s[i].age >= t <=> i <= k
      BY DEF ByAge
    <2> DEFINE l == IF k < f THEN 0 ELSE k - f + 1
    <2>2. l \in 0 .. Len(r)
      BY <1>1, <1>2
    <2>3. ASSUME NEW i \in 1 .. Len(r)
          PROVE  r[i].age >= t <=> i <= l
      <3>1. f + i - 1 \in 1 .. n /\ r[i] = s[f + i - 1]
        BY <1>1, <1>2
      <3>2. r[i].age >= t <=> f + i - 1 <= k
        BY <3>1, <2>1
      <3>3. QED
        BY <3>2, <1>1
    <2>4. QED
      BY <2>2, <2>3
  <1>4. QED
    BY <1>2, <1>3 DEF ByAge, r

(* The points before the window and MAX_HISTORY cut them. *)
Grown(total) ==
    IF Last(history.points).age >= Spacing THEN Append(history.points, Now(total)) ELSE history.points

(* Kept: points in order, not more than MAX_HISTORY, of which only the first is as old as
   the window. *)
LEMMA KeptIs ==
  ASSUME GrowthTypes, NEW total \in 0 .. MaxFootprint,
         Len(history.points) >= 1, ByAge(history.points)
  PROVE  LET K == Kept(total)
         IN /\ K \in Seq(Points) /\ Len(K) \in 1 .. MaxHistory /\ ByAge(K)
            /\ \A i \in 2 .. Len(K) : K[i].age < Window
            /\ \A i \in 1 .. Len(K) :
                  \/ K[i] = Now(total)
                  \/ \E j \in 1 .. Len(history.points) : K[i] = history.points[j]
            /\ \E f \in 1 .. Len(Grown(total)) :
                  /\ K = SubSeq(Grown(total), f, Len(Grown(total)))
                  /\ f = 1 \/ Grown(total)[f].age >= Window \/ f = Len(Grown(total)) - MaxHistory + 1
  <1> DEFINE h == history.points
             s == IF Last(h).age >= Spacing THEN Append(h, Now(total)) ELSE h
             n == Len(s)
             aged == {i \in 2 .. n : s[i].age >= Window}
             marks == {1, n - MaxHistory + 1} \cup aged
             f == Largest(marks)
             K == SubSeq(s, f, n)
  <1>1. h \in Seq(Points) /\ Now(total) \in Points
    BY NowIs DEF GrowthTypes
  <1>2. /\ s \in Seq(Points) /\ ByAge(s) /\ n \in Nat /\ n >= 1
        /\ \A i \in 1 .. n : s[i] = Now(total) \/ \E j \in 1 .. Len(h) : s[i] = h[j]
    <2>1. CASE Last(h).age >= Spacing
      <3>1. s = Append(h, Now(total))
        BY <2>1
      <3>2. ByAge(Append(h, Now(total)))
        BY <1>1, CutAppended
      <3>3. /\ Append(h, Now(total)) \in Seq(Points) /\ Len(Append(h, Now(total))) = Len(h) + 1
            /\ Append(h, Now(total))[Len(h) + 1] = Now(total)
            /\ \A i \in 1 .. Len(h) : Append(h, Now(total))[i] = h[i]
        BY <1>1
      <3> HIDE DEF s
      <3>4. QED
        BY <3>1, <3>2, <3>3, <1>1
    <2>2. CASE ~(Last(h).age >= Spacing)
      BY <2>2, <1>1
    <2>3. QED
      BY <2>1, <2>2
  <1> HIDE DEF s
  <1>3. PICK k \in 0 .. n : \A i \in 1 .. n : s[i].age >= Window <=> i <= k
    BY <1>2, GrowthAssumption DEF ByAge
  <1>4. aged = {i \in 2 .. n : i <= k}
    BY <1>3
  <1> HIDE DEF aged
  <1>5. marks \subseteq Int /\ \A y \in marks : y <= n
    BY <1>2, <1>4, GrowthAssumption
  <1>6. /\ f \in 1 .. n /\ f >= n - MaxHistory + 1 /\ \A i \in aged : i <= f
        /\ f = 1 \/ s[f].age >= Window \/ f = n - MaxHistory + 1
    <2>1. \E m \in marks : \A y \in marks : y <= m
      <3> DEFINE a == IF k >= 2 THEN k ELSE 1
                 m == IF n - MaxHistory + 1 > a THEN n - MaxHistory + 1 ELSE a
      <3>1. m \in marks
        BY <1>4, <1>2, GrowthAssumption
      <3>2. \A y \in marks : y <= m
        BY <1>4, <1>2, GrowthAssumption
      <3>3. QED
        BY <3>1, <3>2
    <2>2. f \in marks /\ \A y \in marks : y <= f
      BY <2>1, <1>5, LargestIs
    <2>3. f \in Int /\ f <= n
      BY <2>2, <1>5
    <2>4. 1 <= f /\ n - MaxHistory + 1 <= f /\ \A i \in aged : i <= f
      BY <2>2
    <2>5. f = 1 \/ s[f].age >= Window \/ f = n - MaxHistory + 1
      BY <2>2 DEF aged
    <2> HIDE DEF f
    <2>6. QED
      BY <2>3, <2>4, <2>5, <1>2
  <1> HIDE DEF f
  <1>7. /\ K \in Seq(Points) /\ Len(K) = n - f + 1 /\ ByAge(K)
        /\ \A i \in 1 .. Len(K) : K[i] = s[f + i - 1]
    BY <1>2, <1>6, CutSuffix
  <1>8. Kept(total) = K
    BY DEF Kept, s, f, aged
  <1> HIDE DEF K
  <1>9. Len(K) \in 1 .. MaxHistory
    BY <1>2, <1>6, <1>7, GrowthAssumption
  <1>10. ASSUME NEW i \in 2 .. Len(K)
         PROVE  K[i].age < Window
    <2>1. f + i - 1 \in 2 .. n /\ f + i - 1 \notin aged /\ K[i] = s[f + i - 1]
      BY <1>2, <1>6, <1>7, <1>9
    <2>2. s[f + i - 1] \in Points
      BY <1>2, <2>1, ElementOfSeq
    <2>3. QED
      BY <2>1, <2>2, PointIs, GrowthAssumption DEF aged
  <1>11. ASSUME NEW i \in 1 .. Len(K)
         PROVE  K[i] = Now(total) \/ \E j \in 1 .. Len(h) : K[i] = h[j]
    <2>1. f + i - 1 \in 1 .. n /\ K[i] = s[f + i - 1]
      BY <1>2, <1>6, <1>7, <1>9
    <2>2. QED
      BY <2>1, <1>2
  <1>12. s = Grown(total)
    BY DEF s, Grown
  <1>13. \E i \in 1 .. Len(Grown(total)) :
            /\ K = SubSeq(Grown(total), i, Len(Grown(total)))
            /\ i = 1 \/ Grown(total)[i].age >= Window \/ i = Len(Grown(total)) - MaxHistory + 1
    BY <1>6, <1>12 DEF K
  <1>14. QED
    BY <1>7, <1>8, <1>9, <1>10, <1>11, <1>13

(* The middle is the last point at half of the first one's age, or more. *)
LEMMA MiddleIs ==
  ASSUME NEW s \in Seq(Points), Len(s) >= 1, ByAge(s)
  PROVE  \E m \in 1 .. Len(s) :
            /\ Largest({i \in 1 .. Len(s) : 2 * s[i].age >= Head(s).age}) = m
            /\ s[1].age <= 2 * s[m].age
            /\ m < Len(s) => 2 * s[m + 1].age < s[1].age
  <1> DEFINE n == Len(s)
             a == s[1].age
             far == {i \in 1 .. n : 2 * s[i].age >= a}
  <1>1. /\ n \in Nat /\ n >= 1 /\ Head(s) = s[1]
        /\ \A i \in 1 .. n : s[i].age \in Nat
    BY ElementOfSeq, PointIs
  <1>2. a \in Nat
    BY <1>1
  <1>3. (a + 1) \div 2 \in Nat /\ \A x \in Nat : 2 * x >= a <=> x >= (a + 1) \div 2
    BY <1>2
  <1>4. PICK k \in 0 .. n : \A i \in 1 .. n : s[i].age >= (a + 1) \div 2 <=> i <= k
    BY <1>3 DEF ByAge
  <1>5. far = {i \in 1 .. n : i <= k}
    BY <1>1, <1>3, <1>4
  <1>6. 1 \in far
    BY <1>1, <1>2
  <1>7. k \in far /\ k \in 1 .. n
    BY <1>5, <1>6, <1>1
  <1>8. Largest(far) = k
    <2>1. far \subseteq Int /\ \A y \in far : y <= k
      BY <1>5
    <2>2. QED
      BY <1>7, <2>1, LargestIs
  <1>9. k < n => 2 * s[k + 1].age < a
    <2>1. SUFFICES ASSUME k < n
                   PROVE  2 * s[k + 1].age < a
      OBVIOUS
    <2>2. k + 1 \in 1 .. n /\ k + 1 \notin far
      BY <2>1, <1>5, <1>1
    <2>3. QED
      BY <2>2, <1>1, <1>2
  <1>10. QED
    BY <1>1, <1>7, <1>8, <1>9

(* Of two parts, the larger. *)
LEMMA LargestOfTwo ==
  ASSUME NEW x \in Int, NEW y \in Int
  PROVE  Largest({x, y}) = IF x >= y THEN x ELSE y
  <1>1. CASE x >= y
    <2>1. x \in {x, y} /\ {x, y} \subseteq Int /\ \A z \in {x, y} : z <= x
      BY <1>1
    <2>2. QED
      BY <2>1, <1>1, LargestIs
  <1>2. CASE ~(x >= y)
    <2>1. y \in {x, y} /\ {x, y} \subseteq Int /\ \A z \in {x, y} : z <= y
      BY <1>2
    <2>2. QED
      BY <2>1, <1>2, LargestIs
  <1>3. QED
    BY <1>1, <1>2

(* Balanced growth has its middle behind the first point, at half of its age or more. *)
LEMMA GrowsIs ==
  ASSUME NEW s \in Seq(Points), Len(s) >= 1, ByAge(s), NEW total \in 0 .. MaxFootprint,
         Grows(s, total)
  PROVE  \E m \in 2 .. Len(s) :
            /\ s[1].age <= 2 * s[m].age
            /\ s[m].total - s[1].total >= CeilDiv(MinGrowth, 4)
            /\ total - s[m].total >= CeilDiv(MinGrowth, 4)
            /\ total - s[1].total >= MinGrowth
  <1> DEFINE n == Len(s)
             grown == total - s[1].total
             half == Largest({CeilDiv(grown, 4), CeilDiv(MinGrowth, 4)})
  <1>1. n \in Nat /\ n >= 1 /\ Head(s) = s[1] /\ \A i \in 1 .. n : s[i].total \in Nat
    BY ElementOfSeq, PointIs
  <1>2. PICK m \in 1 .. n :
            /\ Largest({i \in 1 .. n : 2 * s[i].age >= Head(s).age}) = m
            /\ s[1].age <= 2 * s[m].age
    BY MiddleIs
  <1>3. /\ grown >= MinGrowth
        /\ s[m].total - s[1].total >= half
        /\ total - s[m].total >= half
    BY <1>1, <1>2 DEF Grows
  <1>4. half >= CeilDiv(MinGrowth, 4) /\ half >= 1 /\ half \in Nat /\ CeilDiv(MinGrowth, 4) \in Nat
    <2>1. grown \in Nat /\ MinGrowth \in Nat /\ MinGrowth >= 1
      BY <1>1, <1>3, GrowthAssumption
    <2> DEFINE x == CeilDiv(grown, 4)
               y == CeilDiv(MinGrowth, 4)
    <2>2. x \in Nat /\ y \in Nat /\ y >= 1
      BY <2>1, CeilDivIs
    <2> HIDE DEF x, y
    <2>3. Largest({x, y}) = IF x >= y THEN x ELSE y
      BY <2>2, LargestOfTwo
    <2>4. QED
      BY <2>2, <2>3 DEF x, y
  <1> HIDE DEF half
  <1>5. m # 1
    BY <1>1, <1>3, <1>4
  <1>6. QED
    <2>1. m \in 2 .. n /\ s[m].total \in Nat /\ s[1].total \in Nat
      BY <1>1, <1>5
    <2> DEFINE x == s[m].total - s[1].total
               y == total - s[m].total
               least == CeilDiv(MinGrowth, 4)
    <2>2. x \in Int /\ y \in Int /\ least \in Int /\ half \in Int /\ half >= least /\ x >= half /\ y >= half
      BY <2>1, <1>3, <1>4
    <2> HIDE DEF x, y, least
    <2>3. x >= least /\ y >= least
      BY <2>2
    <2>4. QED
      BY <2>1, <2>3, <1>2, <1>3 DEF x, y, least

-----------------------------------------------------------------------------
(* The steps. *)
LEMMA NoHistoryIs ==
  /\ NoHistory \in [of : Nat, last : Points, points : Seq(Points)] /\ NoHistory.of = 0
  /\ NoSample \in [at : {"idle", "asked", "read"}, of : Nat, total : 0 .. MaxFootprint]
  <1>1. [age |-> 0, total |-> 0] \in Points
    BY GrowthAssumption DEF Points
  <1>2. <<>> \in Seq(Points)
    OBVIOUS
  <1>3. QED
    BY <1>1, <1>2, GrowthAssumption DEF NoHistory, NoSample

LEMMA GrowthStarts ==
  ASSUME GrowthInit
  PROVE  GrowthIInv
  BY NoHistoryIs DEF GrowthInit, GrowthIInv, GrowthTypes

(* A measurement that does not disturb: the ghost grows by it, and a history of the
   running incarnation keeps to the ghost. *)
LEMMA SampleTraced ==
  ASSUME GrowthIInv, SampleEnd, ~Disturbed(sample.of, sample.total), history # NoHistory
  PROVE  /\ history.of = unit /\ Traced /\ sample.total \in 0 .. MaxFootprint
         /\ calm' = calm \cup {Now(sample.total)}
         /\ history' = [of |-> unit, last |-> Now(sample.total), points |-> Kept(sample.total)]
  <1>1. /\ sample.of = unit /\ history.of = unit /\ history.last.age <= Window \div 2
        /\ sample.total >= history.last.total /\ sample.total \in 0 .. MaxFootprint
        /\ history.last \in Points
    <2>1. history.last \in Points /\ sample.total \in 0 .. MaxFootprint
      BY DEF GrowthIInv, GrowthTypes
    <2>2. Window \div 2 \in Nat
      BY GrowthAssumption
    <2>3. QED
      BY <2>1, <2>2, PointIs DEF SampleEnd, Disturbed
  <1>2. Traced
    BY <1>1 DEF GrowthIInv
  <1>3. history.last \in calm
    <2>1. history.last.age < 2 * Window
      BY <1>1, PointIs, GrowthAssumption
    <2>2. QED
      BY <2>1, <1>2 DEF Traced
  <1>4. ~\E p \in calm : p.total > sample.total
    <2>1. SUFFICES ASSUME NEW p \in calm
                   PROVE  ~(p.total > sample.total)
      OBVIOUS
    <2>2. p \in Points /\ p.total <= history.last.total
      BY <1>2 DEF Traced, GrowthIInv, GrowthTypes
    <2>3. QED
      BY <2>2, <1>1, PointIs
  <1>5. ~\A p \in calm : p.age > Window \div 2
    BY <1>1, <1>3, PointIs, GrowthAssumption
  <1>6. calm' = calm \cup {Now(sample.total)}
    BY <1>4, <1>5 DEF SampleEnd
  <1>7. history' = [of |-> unit, last |-> Now(sample.total), points |-> Kept(sample.total)]
    BY <1>1 DEF SampleEnd, Observed
  <1>8. QED
    BY <1>1, <1>2, <1>6, <1>7

LEMMA SampleEndStep ==
  ASSUME GrowthIInv, SampleEnd
  PROVE  GrowthIInv'
  <1> DEFINE now == Now(sample.total)
  <1>1. /\ unit' = unit /\ unit \in Nat \ {0} /\ sample.of = unit
        /\ sample.total \in 0 .. MaxFootprint /\ sample' = NoSample
        /\ now \in Points /\ now.age = 0 /\ now.total = sample.total /\ now \in calm'
        /\ calm' \subseteq calm \cup {now} /\ calm \subseteq Points
    <2>1. sample.total \in 0 .. MaxFootprint
      BY DEF GrowthIInv, GrowthTypes
    <2>2. QED
      BY <2>1, NowIs DEF SampleEnd, GrowthIInv, GrowthTypes
  <1>2. \A p \in calm' : p.total <= now.total
    <2>1. SUFFICES ASSUME NEW p \in calm', p # now
                   PROVE  p.total <= now.total
      BY <1>1
    <2>2. p \in calm /\ ~(p.total > sample.total)
      BY <2>1 DEF SampleEnd
    <2>3. QED
      BY <2>2, <1>1, PointIs
  <1>3. CASE history = NoHistory \/ Disturbed(sample.of, sample.total)
    <2>1. history' = [of |-> unit, last |-> now, points |-> <<now>>]
      BY <1>1, <1>3 DEF SampleEnd, Observed
    <2>2. <<now>> \in Seq(Points) /\ Len(<<now>>) = 1 /\ <<now>>[1] = now
      BY <1>1
    <2>3. ByAge(<<now>>)
      <3>1. ASSUME NEW t \in Nat
            PROVE  \E k \in 0 .. 1 : \A i \in 1 .. 1 : <<now>>[i].age >= t <=> i <= k
        <4>1. CASE t = 0
          BY <4>1, <1>1, <2>2
        <4>2. CASE t # 0
          BY <4>2, <1>1, <2>2
        <4>3. QED
          BY <4>1, <4>2
      <3>2. QED
        BY <3>1, <2>2 DEF ByAge
    <2>4. Traced'
      BY <1>1, <1>2, <2>1, <2>2, <2>3 DEF Traced
    <2>5. GrowthTypes'
      BY <1>1, <2>1, <2>2, NoHistoryIs DEF GrowthTypes
    <2>6. QED
      BY <1>1, <2>1, <2>4, <2>5 DEF GrowthIInv
  <1>4. CASE ~(history = NoHistory \/ Disturbed(sample.of, sample.total))
    <2> DEFINE K == Kept(sample.total)
    <2>1. /\ history.of = unit /\ Traced /\ calm' = calm \cup {now}
          /\ history' = [of |-> unit, last |-> now, points |-> K]
      BY <1>4, SampleTraced
    <2>2. /\ K \in Seq(Points) /\ Len(K) \in 1 .. MaxHistory /\ ByAge(K)
          /\ \A i \in 1 .. Len(K) :
                \/ K[i] = now
                \/ \E j \in 1 .. Len(history.points) : K[i] = history.points[j]
      BY <2>1, <1>1, KeptIs DEF Traced, GrowthIInv
    <2> HIDE DEF K
    <2>3. \A i \in 1 .. Len(K) : K[i].age < 2 * Window => K[i] \in calm'
      BY <2>1, <2>2 DEF Traced
    <2>4. Len(K) >= 1
      BY <2>2, GrowthAssumption
    <2>5. Traced'
      BY <1>1, <1>2, <2>1, <2>2, <2>3, <2>4 DEF Traced
    <2>6. GrowthTypes'
      BY <1>1, <2>1, <2>2, NoHistoryIs DEF GrowthTypes
    <2>7. QED
      BY <1>1, <2>1, <2>5, <2>6 DEF GrowthIInv
  <1>5. QED
    BY <1>3, <1>4

LEMMA PassesStep ==
  ASSUME GrowthIInv, Passes
  PROVE  GrowthIInv'
  <1>1. /\ unit' = unit /\ sample' = sample /\ unit \in Nat \ {0} /\ calm \subseteq Points
        /\ sample \in [at : {"idle", "asked", "read"}, of : Nat, total : 0 .. MaxFootprint]
        /\ calm' = {Aged(p) : p \in {q \in calm : q.age < 2 * Window - 1}}
        /\ history \in [of : Nat, last : Points, points : Seq(Points)]
    BY DEF Passes, GrowthIInv, GrowthTypes
  <1>2. calm' \subseteq Points
    BY <1>1, AgedIs
  <1>3. CASE history = NoHistory
    BY <1>1, <1>2, <1>3, NoHistoryIs DEF Passes, GrowthIInv, GrowthTypes
  <1>4. CASE history # NoHistory
    <2> DEFINE h == history.points
               n == Len(h)
               r == [i \in DOMAIN h |-> Aged(h[i])]
    <2>1. n \in Nat /\ DOMAIN h = 1 .. n /\ \A i \in 1 .. n : h[i] \in Points
      BY <1>1, ElementOfSeq, LenProperties
    <2>2. /\ r \in Seq(Points) /\ Len(r) = n /\ \A i \in 1 .. n : r[i] = Aged(h[i])
      <3>1. r \in [1 .. n -> Points]
        BY <2>1, AgedIs
      <3>2. \A i \in 1 .. n : r[i] = Aged(h[i])
        BY <2>1
      <3> HIDE DEF r
      <3>3. QED
        BY <3>1, <3>2, <2>1
    <2>3. history' = [history EXCEPT !.last = Aged(history.last), !.points = r]
      BY <1>4 DEF Passes
    <2> HIDE DEF r
    <2>4. /\ history'.of = history.of /\ history'.last = Aged(history.last) /\ history'.points = r
          /\ history' \in [of : Nat, last : Points, points : Seq(Points)]
      BY <2>2, <2>3, <1>1, AgedIs
    <2>5. GrowthTypes' /\ history'.of <= unit'
      BY <1>1, <1>2, <2>4 DEF GrowthTypes, GrowthIInv
    <2>6. ASSUME history.of = unit
          PROVE  Traced'
      <3>1. Traced
        BY <2>6 DEF GrowthIInv
      <3>2. ASSUME NEW p \in Points, p.age < 2 * Window => p \in calm, Aged(p).age < 2 * Window
            PROVE  Aged(p) \in calm'
        <4>1. p.age < 2 * Window - 1
          BY <3>2, AgedIs, PointIs, GrowthAssumption
        <4>2. p \in calm
          BY <4>1, <3>2, PointIs, GrowthAssumption
        <4>3. QED
          BY <4>1, <4>2, <1>1
      <3>3. history.last \in Points
        BY <1>1
      <3>4. history'.last.age < 2 * Window => history'.last \in calm'
        BY <3>1, <3>2, <3>3, <2>4 DEF Traced
      <3>5. \A i \in 1 .. n : r[i].age < 2 * Window => r[i] \in calm'
        BY <3>1, <3>2, <2>1, <2>2 DEF Traced
      <3>6. \A p \in calm' : p.total <= history'.last.total
        <4>1. SUFFICES ASSUME NEW p \in calm
                       PROVE  Aged(p).total <= Aged(history.last).total
          BY <1>1, <2>4
        <4>2. p.total <= history.last.total
          BY <3>1 DEF Traced
        <4>3. QED
          BY <4>2, <1>1, <3>3, AgedIs
      <3>7. ByAge(r)
        <4>1. ASSUME NEW t \in Nat
              PROVE  \E k \in 0 .. n : \A i \in 1 .. n : r[i].age >= t <=> i <= k
          <5>1. \A i \in 1 .. n : /\ h[i].age \in Nat /\ h[i].age <= 2 * Window
                                 /\ r[i].age = IF h[i].age < 2 * Window THEN h[i].age + 1 ELSE h[i].age
            BY <2>1, <2>2, PointIs, AgedIs
          <5>2. CASE t = 0
            <6>1. n \in 0 .. n /\ \A i \in 1 .. n : r[i].age >= t <=> i <= n
              BY <5>1, <5>2, <2>1, GrowthAssumption
            <6> HIDE DEF n
            <6>2. QED
              BY <6>1
          <5>3. CASE t > 2 * Window
            <6>1. \A i \in 1 .. n : r[i].age >= t <=> i <= 0
              BY <5>1, <5>3, GrowthAssumption
            <6>2. QED
              BY <6>1, <2>1
          <5>4. CASE t # 0 /\ t <= 2 * Window
            <6>1. t - 1 \in Nat
              BY <5>4
            <6>2. PICK k \in 0 .. n : \A i \in 1 .. n : h[i].age >= t - 1 <=> i <= k
              BY <6>1, <3>1 DEF Traced, ByAge
            <6>3. \A i \in 1 .. n : r[i].age >= t <=> h[i].age >= t - 1
              BY <5>1, <5>4, GrowthAssumption
            <6>4. QED
              BY <6>2, <6>3
          <5>5. QED
            BY <5>2, <5>3, <5>4, GrowthAssumption
        <4>2. QED
          BY <4>1, <2>2 DEF ByAge
      <3>8. Len(r) >= 1
        BY <3>1, <2>2 DEF Traced
      <3>9. QED
        BY <3>4, <3>5, <3>6, <3>7, <3>8, <2>2, <2>4 DEF Traced
    <2>7. QED
      BY <2>4, <2>5, <2>6, <1>1 DEF GrowthIInv
  <1>5. QED
    BY <1>3, <1>4

LEMMA GrowthStep ==
  ASSUME GrowthIInv,
         \/ SampleBegin \/ SampleRead \/ SampleEnd \/ SampleFails \/ Restarted \/ Forgotten \/ Passes
         \/ UNCHANGED growth
  PROVE  GrowthIInv'
  <1>1. CASE UNCHANGED growth
    BY <1>1 DEF growth, GrowthIInv, GrowthTypes, Traced
  <1>2. CASE SampleBegin \/ SampleRead
    <2>1. UNCHANGED <<unit, history, calm>>
      BY <1>2 DEF SampleBegin, SampleRead
    <2>2. sample' \in [at : {"idle", "asked", "read"}, of : Nat, total : 0 .. MaxFootprint]
      BY <1>2, NoHistoryIs DEF SampleBegin, SampleRead, GrowthIInv, GrowthTypes
    <2>3. QED
      BY <2>1, <2>2 DEF GrowthIInv, GrowthTypes, Traced
  <1>3. CASE SampleFails \/ Forgotten
    <2>1. /\ history' = NoHistory /\ unit' = unit /\ calm' = {} /\ sample' \in {sample, NoSample}
      BY <1>3 DEF SampleFails, Forgotten
    <2>2. QED
      BY <2>1, NoHistoryIs DEF GrowthIInv, GrowthTypes
  <1>4. CASE Restarted
    BY <1>4 DEF Restarted, GrowthIInv, GrowthTypes
  <1>5. QED
    BY <1>1, <1>2, <1>3, <1>4, SampleEndStep, PassesStep

(* Growth that is told has its base and its middle among the calm samples. *)
LEMMA ToldOfCalm ==
  ASSUME GrowthIInv, SampleEnd, status' = "sustained_growth"
  PROVE  \E base, middle \in calm' :
            /\ Window <= base.age /\ base.age < 2 * Window
            /\ base.age <= 2 * middle.age /\ middle.age < Window
            /\ middle.total - base.total >= CeilDiv(MinGrowth, 4)
            /\ sample.total - middle.total >= CeilDiv(MinGrowth, 4)
            /\ sample.total - base.total >= MinGrowth
  <1> DEFINE now == Now(sample.total)
             K == Kept(sample.total)
  <1>1. sample.total \in 0 .. MaxFootprint /\ now \in Points /\ now.age = 0
    BY NowIs DEF GrowthIInv, GrowthTypes
  <1>2. history # NoHistory /\ ~Disturbed(sample.of, sample.total)
    <2>1. ASSUME history = NoHistory
          PROVE  FALSE
      <3>1. status' = IF Head(<<now>>).age < Window THEN "warming_up"
                      ELSE IF Grows(<<now>>, sample.total) THEN "sustained_growth" ELSE "stable"
        BY <2>1 DEF SampleEnd, Observed
      <3>2. Head(<<now>>).age < Window
        BY <1>1, GrowthAssumption
      <3>3. QED
        BY <3>1, <3>2
    <2>2. ASSUME history # NoHistory, Disturbed(sample.of, sample.total)
          PROVE  FALSE
      BY <2>2 DEF SampleEnd, Observed
    <2>3. QED
      BY <2>1, <2>2
  <1>3. Traced /\ calm' = calm \cup {now}
    BY <1>2, SampleTraced
  <1>4. /\ K \in Seq(Points) /\ Len(K) \in 1 .. MaxHistory /\ ByAge(K)
        /\ \A i \in 2 .. Len(K) : K[i].age < Window
        /\ \A i \in 1 .. Len(K) :
              \/ K[i] = now
              \/ \E j \in 1 .. Len(history.points) : K[i] = history.points[j]
    BY <1>1, <1>3, KeptIs DEF Traced, GrowthIInv
  <1>5. ~(Head(K).age < Window) /\ Grows(K, sample.total)
    BY <1>2 DEF SampleEnd, Observed
  <1> HIDE DEF K
  <1>6. Len(K) \in Nat /\ Len(K) >= 1 /\ Head(K) = K[1] /\ \A i \in 1 .. Len(K) : K[i] \in Points
    BY <1>4, ElementOfSeq, GrowthAssumption
  <1>7. PICK m \in 2 .. Len(K) :
            /\ K[1].age <= 2 * K[m].age
            /\ K[m].total - K[1].total >= CeilDiv(MinGrowth, 4)
            /\ sample.total - K[m].total >= CeilDiv(MinGrowth, 4)
            /\ sample.total - K[1].total >= MinGrowth
    BY <1>1, <1>4, <1>5, <1>6, GrowsIs
  <1>8. /\ K[1] \in Points /\ K[m] \in Points /\ K[m].age < Window
        /\ K[1].age >= Window /\ K[1].age < 2 * Window
    BY <1>4, <1>5, <1>6, <1>7, PointIs, GrowthAssumption
  <1>9. \A i \in 1 .. Len(K) : K[i].age < 2 * Window => K[i] \in calm'
    BY <1>3, <1>4 DEF Traced
  <1>10. K[1] \in calm' /\ K[m] \in calm'
    BY <1>6, <1>7, <1>8, <1>9, PointIs, GrowthAssumption
  <1>11. QED
    BY <1>7, <1>8, <1>10

-----------------------------------------------------------------------------
(* That steady growth is told needs the other direction: what the history keeps
   of the calm samples. *)

(* No point is younger than its place requires. *)
Spread(s) ==
    \A j \in 1 .. Len(s) : s[j].age = 2 * Window \/ s[j].age >= (Len(s) - j) * Spacing + s[Len(s)].age

(* The first point is as old as the window, or as old as all that is calm. *)
Reaches(s, S) == s[1].age >= Window \/ \A p \in S : p.age <= s[1].age

(* The samples between two points are less than the spacing behind the first. *)
Tight(s, S) ==
    \A i \in 1 .. Len(s) : \A p \in S :
        p.age < s[i].age /\ (i < Len(s) => s[i + 1].age < p.age) => s[i].age - p.age < Spacing

Followed ==
    /\ history.of # unit => calm = {}
    /\ history.of = unit =>
          /\ \A p \in calm : history.last.age <= p.age
          /\ Spread(history.points) /\ Reaches(history.points, calm) /\ Tight(history.points, calm)

LEMMA SpacingIs ==
  Spacing \in Nat /\ Spacing >= 1 /\ (MaxHistory - 2) * Spacing >= Window
  <1>1. ASSUME NEW a \in Nat \ {0}, NEW b \in Nat \ {0}
        PROVE  CeilDiv(a, b) \in Nat /\ CeilDiv(a, b) >= 1 /\ b * CeilDiv(a, b) >= a
    BY DEF CeilDiv
  <1>2. MaxHistory - 2 \in Nat \ {0} /\ Window \in Nat \ {0}
    BY GrowthAssumption
  <1>3. QED
    BY <1>1, <1>2 DEF Spacing

LEMMA Times ==
  ASSUME NEW a \in Int, NEW b \in Int, a <= b
  PROVE  a * Spacing <= b * Spacing /\ (a + 1) * Spacing = a * Spacing + Spacing
  BY SpacingIs

LEMMA GrownFollows ==
  ASSUME GrowthIInv, Traced, Followed, history.of = unit, NEW total \in 0 .. MaxFootprint
  PROVE  LET s == Grown(total)
             S == calm \cup {Now(total)}
         IN /\ s \in Seq(Points) /\ Len(s) >= 1
            /\ Spread(s) /\ Reaches(s, S) /\ Tight(s, S)
  <1> DEFINE h == history.points
             n == Len(h)
             now == Now(total)
             S == calm \cup {now}
             r == Append(h, now)
  <1>1. /\ h \in Seq(Points) /\ n \in Nat /\ n >= 1 /\ calm \subseteq Points
        /\ now \in Points /\ now.age = 0 /\ \A i \in 1 .. n : h[i] \in Points
    BY NowIs, ElementOfSeq DEF GrowthIInv, GrowthTypes, Traced
  <1>2. Spread(h) /\ Reaches(h, calm) /\ Tight(h, calm)
    BY DEF Followed
  <1>3. Reaches(h, S)
    BY <1>1, <1>2, PointIs DEF Reaches
  <1>4. CASE Last(h).age >= Spacing
    <2>1. /\ Grown(total) = r /\ r \in Seq(Points) /\ Len(r) = n + 1 /\ r[n + 1] = now
          /\ \A i \in 1 .. n : r[i] = h[i]
      BY <1>1, <1>4 DEF Grown
    <2>2. h[n].age >= Spacing /\ h[n].age \in Nat
      BY <1>1, <1>4, PointIs DEF Last
    <2> HIDE DEF r
    <2>3. Spread(r)
      <3>1. ASSUME NEW j \in 1 .. n
            PROVE  r[j].age = 2 * Window \/ r[j].age >= (n + 1 - j) * Spacing
        <4>1. h[j].age = 2 * Window \/ h[j].age >= (n - j) * Spacing + h[n].age
          BY <1>2 DEF Spread
        <4>2. (n + 1 - j) * Spacing = (n - j) * Spacing + Spacing /\ (n - j) * Spacing \in Int
          BY <1>1, SpacingIs
        <4>3. h[j].age \in Nat
          BY <1>1, PointIs
        <4> DEFINE d == (n - j) * Spacing
                   e == (n + 1 - j) * Spacing
        <4> HIDE DEF d, e
        <4>4. /\ e = d + Spacing /\ d \in Int /\ Spacing \in Int
              /\ h[j].age = 2 * Window \/ h[j].age >= d + h[n].age
          BY <4>1, <4>2, SpacingIs DEF d, e
        <4>5. h[j].age = 2 * Window \/ h[j].age >= e
          BY <4>3, <4>4, <2>2
        <4>6. QED
          BY <4>5, <2>1 DEF e
      <3>2. r[n + 1].age = 0 /\ (n + 1 - (n + 1)) * Spacing = 0
        BY <2>1, <1>1, SpacingIs
      <3>3. ASSUME NEW j \in 1 .. n + 1
            PROVE  r[j].age = 2 * Window \/ r[j].age >= (n + 1 - j) * Spacing + 0
        <4>1. CASE j = n + 1
          BY <4>1, <3>2
        <4>2. CASE j # n + 1
          <5>1. j \in 1 .. n /\ (n + 1 - j) * Spacing \in Int
            BY <4>2, <1>1, SpacingIs
          <5>2. QED
            BY <5>1, <3>1
        <4>3. QED
          BY <4>1, <4>2
      <3>4. QED
        BY <2>1, <3>2, <3>3 DEF Spread
    <2>4. Reaches(r, S)
      BY <1>1, <1>3, <2>1 DEF Reaches
    <2>5. Tight(r, S)
      <3>1. SUFFICES ASSUME NEW i \in 1 .. n + 1, NEW p \in S,
                            p.age < r[i].age, i < n + 1 => r[i + 1].age < p.age
                     PROVE  r[i].age - p.age < Spacing
        BY <2>1 DEF Tight
      <3>2. p \in Points /\ p.age \in Nat
        BY <1>1, PointIs
      <3>3. i # n + 1
        BY <3>1, <3>2, <2>1, <1>1
      <3>4. i \in 1 .. n /\ r[i] = h[i] /\ h[i].age \in Nat
        BY <3>3, <1>1, <2>1, PointIs
      <3>5. p # now
        BY <3>1, <3>4, <1>1, <2>1, PointIs
      <3>6. i < n => h[i + 1].age < p.age
        BY <3>1, <3>4, <2>1, <1>1
      <3>7. QED
        BY <3>1, <3>4, <3>5, <3>6, <1>2 DEF Tight
    <2>6. QED
      BY <2>1, <2>3, <2>4, <2>5, <1>1
  <1>5. CASE ~(Last(h).age >= Spacing)
    <2>1. Grown(total) = h
      BY <1>5 DEF Grown
    <2>2. h[n].age < Spacing /\ h[n].age \in Nat
      BY <1>1, <1>5, SpacingIs, PointIs DEF Last
    <2>3. Tight(h, S)
      <3>1. SUFFICES ASSUME NEW i \in 1 .. n, NEW p \in S,
                            p.age < h[i].age, i < n => h[i + 1].age < p.age
                     PROVE  h[i].age - p.age < Spacing
        BY DEF Tight
      <3>2. CASE p = now
        <4>1. i = n
          <5>1. i < n => h[i + 1] \in Points
            BY <1>1
          <5>2. i < n => h[i + 1].age \in Nat
            BY <5>1, PointIs
          <5>3. QED
            BY <3>1, <3>2, <5>2, <1>1
        <4>2. QED
          BY <4>1, <2>2, <3>2, <1>1
      <3>3. CASE p # now
        BY <3>1, <3>3, <1>2 DEF Tight
      <3>4. QED
        BY <3>2, <3>3
    <2>4. QED
      BY <1>1, <1>2, <1>3, <2>1, <2>3
  <1>6. QED
    BY <1>4, <1>5

LEMMA SuffixFollows ==
  ASSUME NEW s \in Seq(Points), NEW S, S \subseteq Points, Len(s) >= 1,
         Spread(s), Reaches(s, S), Tight(s, S), NEW f \in 1 .. Len(s),
         f = 1 \/ s[f].age >= Window \/ f = Len(s) - MaxHistory + 1
  PROVE  LET r == SubSeq(s, f, Len(s)) IN Spread(r) /\ Reaches(r, S) /\ Tight(r, S)
  <1> DEFINE n == Len(s)
             r == SubSeq(s, f, n)
  <1>1. n \in Nat /\ \A i \in 1 .. n : s[i] \in Points /\ s[i].age \in Nat
    BY ElementOfSeq, PointIs
  <1>2. Len(r) = n - f + 1 /\ \A i \in 1 .. Len(r) : r[i] = s[f + i - 1]
    BY SuffixIs
  <1> HIDE DEF r
  <1>3. Spread(r)
    <2>1. ASSUME NEW j \in 1 .. Len(r)
          PROVE  r[j].age = 2 * Window \/ r[j].age >= (Len(r) - j) * Spacing + r[Len(r)].age
      <3>1. /\ f + j - 1 \in 1 .. n /\ r[j] = s[f + j - 1] /\ r[Len(r)] = s[n]
            /\ Len(r) - j = n - (f + j - 1)
        <4>1. f + j - 1 \in 1 .. n /\ Len(r) - j = n - (f + j - 1)
          BY <1>1, <1>2
        <4>2. Len(r) \in 1 .. Len(r) /\ f + Len(r) - 1 = n
          BY <1>1, <1>2
        <4>3. r[Len(r)] = s[f + Len(r) - 1]
          BY <4>2, <1>2
        <4>4. QED
          BY <4>1, <4>2, <4>3, <1>2
      <3>2. s[f + j - 1].age = 2 * Window \/ s[f + j - 1].age >= (n - (f + j - 1)) * Spacing + s[n].age
        BY <3>1 DEF Spread
      <3>3. QED
        BY <3>1, <3>2
    <2>2. QED
      BY <2>1 DEF Spread
  <1>4. Reaches(r, S)
    <2>1. r[1] = s[f]
      BY <1>1, <1>2
    <2>2. CASE f = 1
      BY <2>1, <2>2 DEF Reaches
    <2>3. CASE s[f].age >= Window
      BY <2>1, <2>3 DEF Reaches
    <2>4. CASE f = n - MaxHistory + 1
      <3>1. s[f].age = 2 * Window \/ s[f].age >= (n - f) * Spacing + s[n].age
        BY DEF Spread
      <3>2. n - f = MaxHistory - 1 /\ MaxHistory - 1 \in Int /\ MaxHistory - 2 \in Int
        BY <2>4, <1>1, GrowthAssumption
      <3>3. (n - f) * Spacing >= Window /\ (n - f) * Spacing \in Int
        BY <3>2, SpacingIs, Times, GrowthAssumption
      <3>4. s[f].age >= Window
        BY <3>1, <3>3, <1>1, GrowthAssumption
      <3>5. QED
        BY <3>4, <2>1 DEF Reaches
    <2>5. QED
      BY <2>2, <2>3, <2>4
  <1>5. Tight(r, S)
    <2>1. SUFFICES ASSUME NEW i \in 1 .. Len(r), NEW p \in S,
                          p.age < r[i].age, i < Len(r) => r[i + 1].age < p.age
                   PROVE  r[i].age - p.age < Spacing
      BY DEF Tight
    <2> DEFINE m == f + i - 1
    <2>2. m \in 1 .. n /\ r[i] = s[m]
      BY <1>1, <1>2
    <2>3. m < n => i < Len(r) /\ r[i + 1] = s[m + 1]
      BY <1>1, <1>2
    <2> HIDE DEF m
    <2>4. QED
      BY <2>1, <2>2, <2>3 DEF Tight
  <1>6. QED
    BY <1>3, <1>4, <1>5 DEF r

(* A history that begins has nothing calm before it. *)
LEMMA FreshIsAlone ==
  ASSUME GrowthIInv, Followed, SampleEnd, history = NoHistory \/ Disturbed(sample.of, sample.total)
  PROVE  calm' = {Now(sample.total)}
  <1> DEFINE now == Now(sample.total)
  <1>1. /\ unit' = unit /\ unit \in Nat \ {0} /\ sample.of = unit
        /\ sample.total \in 0 .. MaxFootprint /\ calm \subseteq Points
    BY DEF SampleEnd, GrowthIInv, GrowthTypes
  <1>2. CASE history.of # unit
    BY <1>2 DEF Followed, SampleEnd
  <1>3. CASE history.of = unit
    <2>1. Traced /\ history # NoHistory /\ history.last \in Points
      BY <1>3, <1>1, NoHistoryIs DEF GrowthIInv, GrowthTypes
    <2>2. CASE history.last.age > Window \div 2
      <3>1. \A p \in calm : p.age > Window \div 2
        BY <2>1, <2>2, <1>1, <1>3, PointIs, GrowthAssumption DEF Followed
      <3>2. QED
        BY <3>1 DEF SampleEnd
    <2>3. CASE ~(history.last.age > Window \div 2)
      <3>1. sample.total < history.last.total
        BY <2>1, <2>3, <1>3, <1>1 DEF Disturbed
      <3>2. history.last.age < 2 * Window
        BY <2>1, <2>3, PointIs, GrowthAssumption
      <3>3. history.last \in calm /\ history.last.total > sample.total
        BY <3>1, <3>2, <2>1, <1>1, PointIs DEF Traced
      <3>4. QED
        BY <3>3 DEF SampleEnd
    <2>4. QED
      BY <2>2, <2>3
  <1>4. QED
    BY <1>2, <1>3

LEMMA SampleEndFollows ==
  ASSUME GrowthIInv, Followed, SampleEnd
  PROVE  Followed'
  <1> DEFINE now == Now(sample.total)
  <1>1. /\ unit' = unit /\ unit \in Nat \ {0} /\ sample.of = unit
        /\ sample.total \in 0 .. MaxFootprint
        /\ now \in Points /\ now.age = 0 /\ now.total = sample.total /\ calm \subseteq Points
    <2>1. sample.total \in 0 .. MaxFootprint
      BY DEF GrowthIInv, GrowthTypes
    <2>2. QED
      BY <2>1, NowIs DEF SampleEnd, GrowthIInv, GrowthTypes
  <1>2. CASE history = NoHistory \/ Disturbed(sample.of, sample.total)
    <2>1. history' = [of |-> unit, last |-> now, points |-> <<now>>]
      BY <1>1, <1>2 DEF SampleEnd, Observed
    <2>2. calm' = {now}
      BY <1>2, FreshIsAlone
    <2>3. <<now>>[1] = now /\ Len(<<now>>) = 1
      OBVIOUS
    <2>4. Spread(<<now>>)
      BY <2>3, <1>1, SpacingIs DEF Spread
    <2>5. Reaches(<<now>>, {now}) /\ Tight(<<now>>, {now})
      BY <2>3, <1>1, GrowthAssumption DEF Reaches, Tight
    <2>6. QED
      BY <2>1, <2>2, <2>4, <2>5, <1>1 DEF Followed
  <1>3. CASE ~(history = NoHistory \/ Disturbed(sample.of, sample.total))
    <2> DEFINE K == Kept(sample.total)
               s == Grown(sample.total)
               S == calm \cup {now}
    <2>1. /\ history.of = unit /\ Traced /\ calm' = S
          /\ history' = [of |-> unit, last |-> now, points |-> K]
      BY <1>3, SampleTraced
    <2>2. s \in Seq(Points) /\ Len(s) >= 1 /\ Spread(s) /\ Reaches(s, S) /\ Tight(s, S)
      BY <1>1, <2>1, GrownFollows
    <2>3. PICK f \in 1 .. Len(s) :
             /\ K = SubSeq(s, f, Len(s))
             /\ f = 1 \/ s[f].age >= Window \/ f = Len(s) - MaxHistory + 1
      BY <1>1, <2>1, KeptIs DEF Traced, GrowthIInv
    <2> HIDE DEF s, K
    <2>4. S \subseteq Points
      BY <1>1
    <2>5. Spread(K) /\ Reaches(K, S) /\ Tight(K, S)
      BY <2>2, <2>3, <2>4, SuffixFollows
    <2>6. \A p \in S : 0 <= p.age
      BY <2>4, PointIs
    <2>7. QED
      BY <2>1, <2>5, <2>6, <1>1 DEF Followed
  <1>4. QED
    BY <1>2, <1>3

LEMMA PassesFollows ==
  ASSUME GrowthIInv, Followed, Passes
  PROVE  Followed'
  <1>1. /\ unit' = unit /\ calm \subseteq Points
        /\ calm' = {Aged(p) : p \in {q \in calm : q.age < 2 * Window - 1}}
        /\ history \in [of : Nat, last : Points, points : Seq(Points)] /\ unit \in Nat \ {0}
    BY DEF Passes, GrowthIInv, GrowthTypes
  <1>2. CASE history = NoHistory
    BY <1>1, <1>2, NoHistoryIs DEF Passes, Followed
  <1>3. CASE history # NoHistory
    <2> DEFINE h == history.points
               n == Len(h)
               r == [i \in DOMAIN h |-> Aged(h[i])]
    <2>1. n \in Nat /\ DOMAIN h = 1 .. n /\ \A i \in 1 .. n : h[i] \in Points
      BY <1>1, ElementOfSeq, LenProperties
    <2>2. /\ r \in Seq(Points) /\ Len(r) = n /\ \A i \in 1 .. n : r[i] = Aged(h[i])
      <3>1. r \in [1 .. n -> Points]
        BY <2>1, AgedIs
      <3>2. \A i \in 1 .. n : r[i] = Aged(h[i])
        BY <2>1
      <3> HIDE DEF r
      <3>3. QED
        BY <3>1, <3>2, <2>1
    <2>3. history' = [history EXCEPT !.last = Aged(history.last), !.points = r]
      BY <1>3 DEF Passes
    <2> HIDE DEF r
    <2>4. history'.of = history.of /\ history'.last = Aged(history.last) /\ history'.points = r
      BY <2>3, <1>1
    <2>5. CASE history.of # unit
      BY <2>4, <2>5, <1>1 DEF Followed
    <2>6. CASE history.of = unit
      <3>1. /\ \A p \in calm : history.last.age <= p.age
            /\ Spread(h) /\ Reaches(h, calm) /\ Tight(h, calm) /\ n >= 1
        BY <2>6 DEF Followed, Traced, GrowthIInv
      <3>2. \A i \in 1 .. n : /\ h[i].age \in Nat /\ h[i].age <= 2 * Window
                             /\ r[i].age = IF h[i].age < 2 * Window THEN h[i].age + 1 ELSE h[i].age
        BY <2>1, <2>2, PointIs, AgedIs
      <3>3. ASSUME NEW q \in calm'
            PROVE  \E p \in calm : q.age = p.age + 1 /\ p.age < 2 * Window - 1 /\ p.age \in Nat
        <4>1. PICK p \in calm : p.age < 2 * Window - 1 /\ q = Aged(p)
          BY <1>1
        <4>2. p \in Points /\ p.age \in Nat
          BY <1>1, PointIs
        <4>3. QED
          BY <4>1, <4>2, AgedIs, GrowthAssumption
      <3>4. \A q \in calm' : history'.last.age <= q.age
        <4>1. SUFFICES ASSUME NEW q \in calm'
                       PROVE  history'.last.age <= q.age
          OBVIOUS
        <4>2. PICK p \in calm : q.age = p.age + 1 /\ p.age \in Nat
          BY <3>3
        <4>3. QED
          <5>1. history.last \in Points /\ history.last.age \in Nat /\ history.last.age <= p.age
            BY <3>1, <1>1, PointIs
          <5>2. history'.last.age <= history.last.age + 1
            BY <2>4, <5>1, AgedIs
          <5>3. history'.last.age \in Nat
            BY <2>4, <5>1, AgedIs, PointIs
          <5>4. QED
            BY <5>1, <5>2, <5>3, <4>2
      <3>5. Spread(r)
        <4>1. ASSUME NEW j \in 1 .. n
              PROVE  r[j].age = 2 * Window \/ r[j].age >= (n - j) * Spacing + r[n].age
          <5>1. h[j].age = 2 * Window \/ h[j].age >= (n - j) * Spacing + h[n].age
            BY <3>1 DEF Spread
          <5>2. (n - j) * Spacing \in Nat
            BY <2>1, SpacingIs
          <5> DEFINE d == (n - j) * Spacing
          <5> HIDE DEF d
          <5>3. d \in Nat /\ (h[j].age = 2 * Window \/ h[j].age >= d + h[n].age)
            BY <5>1, <5>2 DEF d
          <5>4. r[j].age = 2 * Window \/ r[j].age >= d + r[n].age
            <6> DEFINE x == h[j].age
                       y == h[n].age
                       w == 2 * Window
            <6>1. /\ x \in Nat /\ y \in Nat /\ w \in Nat /\ x <= w /\ y <= w
                  /\ r[j].age = IF x < w THEN x + 1 ELSE x
                  /\ r[n].age = IF y < w THEN y + 1 ELSE y
              BY <3>1, <3>2, <2>1, GrowthAssumption
            <6>2. x = w \/ x >= d + y
              BY <5>3
            <6> HIDE DEF x, y, w
            <6>3. r[j].age = w \/ r[j].age >= d + r[n].age
              BY <6>1, <6>2, <5>3
            <6>4. QED
              BY <6>3 DEF w
          <5>5. QED
            BY <5>4 DEF d
        <4>2. QED
          BY <4>1, <2>2 DEF Spread
      <3>6. Reaches(r, calm')
        <4>1. CASE h[1].age >= Window
          BY <4>1, <3>1, <3>2, <2>1, GrowthAssumption DEF Reaches
        <4>2. CASE ~(h[1].age >= Window)
          <5>1. \A p \in calm : p.age <= h[1].age
            BY <4>2, <3>1 DEF Reaches
          <5>2. r[1].age = h[1].age + 1
            BY <4>2, <3>1, <3>2, <2>1, GrowthAssumption
          <5>3. \A q \in calm' : q.age <= r[1].age
            <6>1. SUFFICES ASSUME NEW q \in calm'
                           PROVE  q.age <= r[1].age
              OBVIOUS
            <6>2. PICK p \in calm : q.age = p.age + 1 /\ p.age \in Nat
              BY <3>3
            <6>3. QED
              BY <6>2, <5>1, <5>2, <3>1, <3>2, <2>1
          <5>4. QED
            BY <5>3 DEF Reaches
        <4>3. QED
          BY <4>1, <4>2
      <3>7. Tight(r, calm')
        <4>1. SUFFICES ASSUME NEW i \in 1 .. n, NEW q \in calm',
                              q.age < r[i].age, i < n => r[i + 1].age < q.age
                       PROVE  r[i].age - q.age < Spacing
          BY <2>2 DEF Tight
        <4>2. PICK p \in calm : q.age = p.age + 1 /\ p.age < 2 * Window - 1 /\ p.age \in Nat
          BY <3>3
        <4>3. p.age < h[i].age
          BY <4>1, <4>2, <3>2
        <4>4. i < n => h[i + 1].age < p.age
          <5>1. SUFFICES ASSUME i < n
                         PROVE  h[i + 1].age < p.age
            OBVIOUS
          <5>2. i + 1 \in 1 .. n /\ r[i + 1].age < q.age
            BY <5>1, <4>1, <2>1
          <5>3. QED
            BY <5>2, <4>2, <3>2, GrowthAssumption
        <4>5. h[i].age - p.age < Spacing
          BY <4>3, <4>4, <3>1 DEF Tight
        <4>6. QED
          <5> DEFINE x == h[i].age
                     w == 2 * Window
          <5>1. /\ x \in Nat /\ w \in Nat
                /\ r[i].age = IF x < w THEN x + 1 ELSE x
            BY <3>1, <3>2, <2>1, GrowthAssumption
          <5>2. x - p.age < Spacing
            BY <4>5
          <5> HIDE DEF x, w
          <5>3. QED
            BY <5>1, <5>2, <4>2, SpacingIs
      <3>8. QED
        BY <3>4, <3>5, <3>6, <3>7, <2>4, <2>6, <1>1 DEF Followed
    <2>7. QED
      BY <2>5, <2>6
  <1>4. QED
    BY <1>2, <1>3

LEMMA FollowedStep ==
  ASSUME GrowthIInv, Followed,
         \/ SampleBegin \/ SampleRead \/ SampleEnd \/ SampleFails \/ Restarted \/ Forgotten \/ Passes
         \/ UNCHANGED growth
  PROVE  Followed'
  <1>1. CASE SampleBegin \/ SampleRead \/ UNCHANGED growth
    <2>1. UNCHANGED <<unit, history, calm>>
      BY <1>1 DEF SampleBegin, SampleRead, growth
    <2>2. QED
      BY <2>1 DEF Followed, Spread, Reaches, Tight
  <1>2. CASE SampleFails \/ Forgotten
    <2>1. history' = NoHistory /\ unit' = unit /\ calm' = {} /\ unit \in Nat \ {0}
      BY <1>2 DEF SampleFails, Forgotten, GrowthIInv, GrowthTypes
    <2>2. QED
      BY <2>1, NoHistoryIs DEF Followed
  <1>3. CASE Restarted
    <2>1. unit' = unit + 1 /\ history' = history /\ calm' = {} /\ history.of \in Nat
          /\ history.of <= unit /\ unit \in Nat
      BY <1>3 DEF Restarted, GrowthIInv, GrowthTypes
    <2>2. history'.of # unit'
      BY <2>1
    <2>3. QED
      BY <2>1, <2>2 DEF Followed
  <1>4. QED
    BY <1>1, <1>2, <1>3, SampleEndFollows, PassesFollows

(* The growth of a unit per tick that is calm for a window is told: the points reach
   back as far, and the middle is not more than a spacing off the half. *)
LEMMA SteadyIsTold ==
  ASSUME GrowthIInv, GrowthIInv', Followed, Followed', SampleEnd,
         4 * Spacing <= Window, MinGrowth <= Window,
         NEW oldest \in calm', oldest.age >= Window,
         calm' = {[age |-> a, total |-> sample.total - a] : a \in 0 .. oldest.age}
  PROVE  status' = "sustained_growth"
  <1> DEFINE T == sample.total
             A == oldest.age
             K == Kept(T)
             n == Len(K)
             dot(a) == [age |-> a, total |-> T - a]
  <1>1. /\ T \in 0 .. MaxFootprint /\ T \in Nat /\ A \in Nat /\ A >= Window
        /\ Window \in Nat \ {0} /\ unit \in Nat \ {0}
    <2>1. oldest \in Points
      BY DEF GrowthIInv, GrowthTypes
    <2>2. T \in 0 .. MaxFootprint /\ unit \in Nat \ {0}
      BY DEF GrowthIInv, GrowthTypes
    <2>3. QED
      BY <2>1, <2>2, PointIs, GrowthAssumption
  <1>2. /\ \A a \in 0 .. A : dot(a) \in calm' /\ dot(a).age = a
        /\ \A p \in calm' : p.total = T - p.age
    OBVIOUS
  <1>3. history # NoHistory /\ ~Disturbed(sample.of, sample.total)
    <2>1. SUFFICES ASSUME history = NoHistory \/ Disturbed(sample.of, sample.total)
                   PROVE  FALSE
      OBVIOUS
    <2>2. calm' = {Now(T)} /\ Now(T).age = 0
      BY <2>1, <1>1, FreshIsAlone, NowIs
    <2>3. 1 \in 0 .. A
      BY <1>1
    <2>4. \E p \in calm' : p.age = 1
      BY <2>3, <1>2
    <2> HIDE DEF A, dot, T
    <2>5. QED
      BY <2>2, <2>4
  <1>4. /\ Traced /\ history.of = unit /\ unit' = unit
        /\ history' = [of |-> unit, last |-> Now(T), points |-> K]
    BY <1>3, SampleTraced DEF SampleEnd
  <1>5. /\ K \in Seq(Points) /\ ByAge(K) /\ \A i \in 2 .. n : K[i].age < Window
    BY <1>1, <1>4, KeptIs DEF Traced, GrowthIInv
  <1>6. status' = IF Head(K).age < Window THEN "warming_up"
                  ELSE IF Grows(K, T) THEN "sustained_growth" ELSE "stable"
    BY <1>3 DEF SampleEnd, Observed
  <1>7. /\ n \in Nat /\ n >= 1 /\ Reaches(K, calm') /\ Tight(K, calm')
        /\ \A i \in 1 .. n : K[i].age < 2 * Window => K[i] \in calm'
    <2>1. history'.of = unit' /\ history'.points = K
      BY <1>4
    <2>2. Traced'
      BY <2>1 DEF GrowthIInv
    <2>3. QED
      BY <2>1, <2>2, <1>5 DEF Followed, Traced
  <1> HIDE DEF K
  <1>8. Head(K) = K[1] /\ \A i \in 1 .. n : K[i].age \in Nat
    BY <1>5, <1>7, ElementOfSeq, PointIs
  <1>9. K[1].age >= Window
    BY <1>1, <1>7, <1>8 DEF Reaches
  <1>10. K[n].age < Spacing
    <2>1. dot(0) \in calm' /\ dot(0).age = 0
      BY <1>1, <1>2
    <2>2. 0 < K[n].age => K[n].age - 0 < Spacing
      BY <2>1, <1>7 DEF Tight
    <2>3. K[n].age \in Nat
      BY <1>7, <1>8
    <2>4. QED
      BY <2>2, <2>3, SpacingIs
  <1>11. ASSUME NEW i \in 1 .. n, i < n
         PROVE  K[i].age <= K[i + 1].age + Spacing
    <2>1. i + 1 \in 2 .. n /\ K[i + 1].age \in Nat /\ K[i + 1].age < Window /\ K[i].age \in Nat
      BY <1>5, <1>7, <1>8, <1>11
    <2> DEFINE a == K[i + 1].age + 1
    <2>2. dot(a) \in calm' /\ dot(a).age = a /\ a \in Nat
      <3>1. a \in 0 .. A /\ a \in Nat
        BY <1>1, <2>1
      <3> HIDE DEF a, A
      <3>2. QED
        BY <3>1, <1>2
    <2>3. CASE a < K[i].age
      <3>1. K[i + 1].age < a
        BY <2>1
      <3>2. K[i].age - a < Spacing
        BY <2>2, <2>3, <3>1, <1>7 DEF Tight
      <3>3. QED
        BY <3>2, <2>1, SpacingIs
    <2>4. CASE ~(a < K[i].age)
      BY <2>1, <2>4, SpacingIs
    <2>5. QED
      BY <2>3, <2>4
  <1>12. n >= 2
    BY <1>1, <1>7, <1>8, <1>9, <1>10, SpacingIs
  <1>13. K[1].age < 2 * Window
    <2>1. K[2].age < Window /\ K[2].age \in Nat /\ K[1].age <= K[2].age + Spacing /\ K[1].age \in Nat
      BY <1>5, <1>7, <1>8, <1>11, <1>12
    <2>2. QED
      BY <2>1, <1>1, SpacingIs
  <1>14. PICK m \in 1 .. n :
            /\ Largest({i \in 1 .. n : 2 * K[i].age >= Head(K).age}) = m
            /\ K[1].age <= 2 * K[m].age
            /\ m < n => 2 * K[m + 1].age < K[1].age
    BY <1>5, <1>7, MiddleIs
  <1> DEFINE base == K[1].age
             middle == K[m].age
             half == Largest({CeilDiv(base, 4), CeilDiv(MinGrowth, 4)})
  <1>15. base \in Nat /\ middle \in Nat /\ base >= Window /\ base <= 2 * middle
    BY <1>7, <1>8, <1>9, <1>14
  <1>16. m < n
    BY <1>7, <1>8, <1>9, <1>10, <1>14, <1>15, <1>1, SpacingIs
  <1>17. 2 * middle <= base + 2 * Spacing - 1 /\ middle < 2 * Window
    <2>1. middle <= K[m + 1].age + Spacing /\ 2 * K[m + 1].age < base
      BY <1>11, <1>14, <1>16
    <2>2. K[m + 1].age \in Nat /\ K[m + 1].age < Window
      BY <1>5, <1>7, <1>8, <1>16
    <2> DEFINE z == K[m + 1].age
               b == base
               x == middle
    <2>3. /\ z \in Nat /\ z < Window /\ x <= z + Spacing /\ 2 * z < b /\ b \in Nat /\ x \in Nat
          /\ Spacing \in Nat /\ Window \in Nat
      BY <2>1, <2>2, <1>1, <1>15, SpacingIs
    <2> HIDE DEF z, b, x
    <2>4. 2 * x <= b + 2 * Spacing - 1 /\ x < 2 * Window
      BY <2>3
    <2>5. QED
      BY <2>4 DEF b, x
  <1>18. K[1].total = T - base /\ K[m].total = T - middle
    <2>1. K[1] \in calm' /\ K[m] \in calm'
      BY <1>7, <1>13, <1>17, <1>14
    <2>2. QED
      BY <2>1, <1>2
  <1>19. half \in Nat /\ 4 * half <= base + 3
    <2> DEFINE x == CeilDiv(base, 4)
               y == CeilDiv(MinGrowth, 4)
    <2>1. MinGrowth \in Nat /\ MinGrowth <= base
      BY <1>1, <1>15, GrowthAssumption
    <2>2. x \in Nat /\ y \in Nat /\ 4 * x <= base + 3 /\ 4 * y <= MinGrowth + 3
      BY <2>1, <1>15, CeilDivIs
    <2> HIDE DEF x, y, base
    <2>3. Largest({x, y}) = IF x >= y THEN x ELSE y
      BY <2>2, LargestOfTwo
    <2>4. (IF x >= y THEN x ELSE y) \in Nat /\ 4 * (IF x >= y THEN x ELSE y) <= base + 3
      BY <2>1, <2>2, <1>15
    <2>5. QED
      BY <2>3, <2>4 DEF x, y
  <1>20. base - middle >= half /\ middle >= half
    <2> HIDE DEF base, middle, half
    <2>1. 4 * (base - middle) >= base + 2
      BY <1>1, <1>15, <1>17, SpacingIs
    <2>2. QED
      BY <2>1, <1>15, <1>19
  <1>21. Grows(K, T)
    <2>1. T - Head(K).total = base /\ base >= MinGrowth
      BY <1>8, <1>18, <1>1, <1>15, GrowthAssumption
    <2>2. K[m].total - Head(K).total >= half /\ T - K[m].total >= half
      <3>1. half \in Int /\ base \in Int /\ middle \in Int /\ T \in Int
        BY <1>1, <1>15, <1>19
      <3> HIDE DEF base, middle, half
      <3>2. (T - middle) - (T - base) >= half /\ T - (T - middle) >= half
        BY <3>1, <1>20
      <3>3. QED
        BY <3>2, <1>8, <1>18
    <2>3. Grows(K, T) <=>
            /\ T - Head(K).total >= MinGrowth
            /\ K[m].total - Head(K).total >= Largest({CeilDiv(T - Head(K).total, 4), CeilDiv(MinGrowth, 4)})
            /\ T - K[m].total >= Largest({CeilDiv(T - Head(K).total, 4), CeilDiv(MinGrowth, 4)})
      BY <1>14 DEF Grows
    <2>4. QED
      BY <2>1, <2>2, <2>3
  <1>22. QED
    BY <1>1, <1>6, <1>8, <1>9, <1>21

(* Every step of the reports is one of the tracker's, or leaves it alone. *)
LEMMA TrackerStep ==
  ASSUME [ReportsNext]_reportsVars
  PROVE  \/ SampleBegin \/ SampleRead \/ SampleEnd \/ SampleFails \/ Restarted \/ Forgotten \/ Passes
         \/ UNCHANGED growth
  BY Zenon DEF ReportsNext, LookAgain, Measure, Tick, PolicyReloaded, reportsVars

(* Tracker::observe over collect: for any window, least growth, number of points and
   footprints, and however often the service restarts, is reloaded or cannot be
   measured, growth that is told is growth of one life of the service over a whole
   window, in both its halves. *)
THEOREM GrowthTold == ReportsSpec => GrowthIsTrue
  <1> DEFINE True == SampleEnd /\ status' = "sustained_growth" =>
          \E base, middle \in calm' :
             /\ Window <= base.age /\ base.age < 2 * Window
             /\ base.age <= 2 * middle.age /\ middle.age < Window
             /\ middle.total - base.total >= CeilDiv(MinGrowth, 4)
             /\ sample.total - middle.total >= CeilDiv(MinGrowth, 4)
             /\ sample.total - base.total >= MinGrowth
  <1>1. ReportsInit => GrowthIInv
    BY GrowthStarts DEF ReportsInit
  <1>2. GrowthIInv /\ [ReportsNext]_reportsVars => GrowthIInv'
    BY TrackerStep, GrowthStep
  <1>3. GrowthIInv => True
    BY ToldOfCalm
  <1>4. QED
    BY <1>1, <1>2, <1>3, PTL DEF ReportsSpec, GrowthIsTrue

(* The same tracker misses no steady growth, for any window, least growth and number of
   points, if the points are four to a window or closer (MAX_HISTORY is 32) and the
   window is long enough for the least growth, whatever happened before. *)
THEOREM SteadyGrowthTold ==
  ASSUME 4 * Spacing <= Window, MinGrowth <= Window
  PROVE  ReportsSpec => GrowthIsTold
  <1> DEFINE Steady == \E oldest \in calm' :
           /\ oldest.age >= Window
           /\ calm' = {[age |-> a, total |-> sample.total - a] : a \in 0 .. oldest.age}
  <1>1. ReportsInit => GrowthIInv /\ Followed
    <2>1. ReportsInit => calm = {} /\ history = NoHistory /\ unit = 1
      BY DEF ReportsInit, GrowthInit
    <2>2. NoHistory.of # 1
      BY NoHistoryIs
    <2>3. QED
      BY <2>1, <2>2, GrowthStarts DEF ReportsInit, Followed
  <1>2. GrowthIInv /\ Followed /\ [ReportsNext]_reportsVars => (GrowthIInv /\ Followed)'
    BY TrackerStep, GrowthStep, FollowedStep
  <1>3. GrowthIInv /\ Followed /\ GrowthIInv' /\ Followed' =>
          (SampleEnd /\ Steady => status' = "sustained_growth")
    BY SteadyIsTold
  <1>4. GrowthIsTold <=> [][SampleEnd /\ Steady => status' = "sustained_growth"]_growth
    BY PTL DEF GrowthIsTold
  <1> HIDE DEF Steady
  <1>5. QED
    BY <1>1, <1>2, <1>3, <1>4, PTL DEF ReportsSpec
=============================================================================
