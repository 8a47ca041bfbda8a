------------------------- MODULE NiceLimitersProofs -------------------------
(* Proofs about NiceLimiters: for any nice values, any tiers and any number  *)
(* of incarnations of the pid, the two limiters keep what is needed to give  *)
(* a process back the priority it would have without the guard.              *)
EXTENDS NiceLimiters, TLAPS

(* Incarnations are drawn in order: none that is on record holds the pid next. *)
Drawn ==
    /\ inc < nextInc /\ legacy.inc < nextInc /\ memory.inc < nextInc
    /\ ledger.inc < nextInc /\ sample.inc < nextInc /\ want.inc < nextInc

(* A guard that is down has no maps. *)
Downed == pc = "down" => legacy = Nothing /\ memory = Nothing

(* Between the decision and the renice: both maps hold nothing of another
   incarnation, or the record the wish was taken from is still there. *)
Wished ==
    /\ pc \in {"heavySet", "memSet"} =>
          /\ want.inc # 0 /\ sample.inc = want.inc /\ want.val >= sample.nice
          /\ legacy.inc \in {0, want.inc} /\ memory.inc \in {0, want.inc}
    /\ pc = "coolSet" =>
          legacy.inc # 0 /\ want.inc = legacy.inc /\ want.val = CoolValue(legacy, memory)
    /\ pc = "memCoolSet" =>
          memory.inc # 0 /\ want.inc = memory.inc /\ want.val = CoolValue(memory, legacy)
    /\ pc = "restoreSet" =>
          /\ want.inc # 0 /\ want.scope \in {"legacy", "memory", "both"}
          /\ want.scope \in {"legacy", "both"} => legacy.inc = want.inc /\ want.val = legacy.orig
          /\ want.scope \in {"memory", "both"} => memory.inc = want.inc /\ want.val = memory.orig
          /\ want.scope # "both" => legacy.inc # memory.inc

(* Up to the first renice of a pass the snapshot is true. *)
Sampled ==
    pc \in {"heavy", "heavySet"} /\ inc # 0 /\ sample.inc = inc /\ ~excused
        => sample.nice = nice

(* Whatever the guard remembers of the present process is not above the
   priority it was found with; a hydrated applied value is a guess upwards from the original. *)
Floors ==
    inc # 0 /\ ~excused =>
        /\ legacy.inc = inc => legacy.orig >= found /\ legacy.applied >= found
        /\ memory.inc = inc => memory.orig >= found /\ memory.applied >= found
        /\ ledger.inc = inc => ledger.orig >= found
        /\ sample.inc = inc => sample.nice >= found

IInv == /\ TypeOK /\ Drawn /\ Downed /\ Wished /\ Sampled /\ Floors
        /\ BothAgree /\ DegradedIsRecorded /\ OriginalIsTrue /\ NeverPromoted

(* The type invariant by the kind of its variables, one proof step for each. *)
LevelsOK == inc \in 0 .. MaxInc /\ nextInc \in 1 .. MaxInc + 1 /\ nice \in Level /\ found \in Level
RecordsOK == legacy \in Record /\ memory \in Record /\ ledger \in Record
ControlOK == /\ pc \in {"down", "idle", "heavy", "heavySet", "cool", "coolSet", "mem",
                        "memSet", "memCoolSet", "end", "restore", "restoreSet"}
             /\ mode \in {"pass", "start", "reload", "stop"}
PassOK == sample \in Rows /\ want \in Wishes
FlagsOK == excused \in BOOLEAN /\ misread \in BOOLEAN

-----------------------------------------------------------------------------
(* The fields of a record. *)
LEMMA RecordFields ==
  ASSUME NEW r \in Record
  PROVE  r.inc \in 0 .. MaxInc /\ r.orig \in Level /\ r.applied \in 0 .. MaxNice + 5
  BY DEF Record

(* A MitigationRecord keeps whose it is and the original value. *)
LEMMA PersistedRecord ==
  ASSUME NEW r \in Record
  PROVE  Persisted(r) \in Record /\ Persisted(r).inc = r.inc /\ Persisted(r).orig = r.orig
  BY DEF Persisted, Record, MaxNice

(* The guess a hydrated record starts with is above the original. *)
LEMMA HydratedRecord ==
  ASSUME NEW r \in Record
  PROVE  /\ [r EXCEPT !.applied = r.orig + 5] \in Record
         /\ [r EXCEPT !.applied = r.orig + 5].inc = r.inc
         /\ [r EXCEPT !.applied = r.orig + 5].orig = r.orig
         /\ [r EXCEPT !.applied = r.orig + 5].applied >= r.orig
  BY DEF Record, Level, MaxNice

(* The fields of a row of the snapshot. *)
LEMMA RowFields ==
  ASSUME NEW r \in Rows
  PROVE  /\ r.inc \in 0 .. MaxInc /\ r.nice \in Level /\ r.tier \in Level
         /\ r.heavy \in BOOLEAN /\ r.pressure \in BOOLEAN
  BY DEF Rows

(* The fields of a renice that was decided on. *)
LEMMA WishFields ==
  ASSUME NEW w \in Wishes
  PROVE  w.inc \in 0 .. MaxInc /\ w.val \in 0 .. MaxNice + 5
  BY DEF Wishes

(* What PassBegin builds is a row. *)
LEMMA NewRow ==
  ASSUME NEW i \in 0 .. MaxInc, NEW v \in Level, NEW t \in Level,
         NEW h \in BOOLEAN, NEW p \in BOOLEAN
  PROVE  [inc |-> i, nice |-> v, tier |-> t, heavy |-> h, pressure |-> p] \in Rows
  BY DEF Rows

(* What a decision builds is a wish. *)
LEMMA NewWish ==
  ASSUME NEW i \in 0 .. MaxInc, NEW v \in 0 .. MaxNice + 5,
         NEW s \in {"none", "legacy", "memory", "both"}
  PROVE  [inc |-> i, val |-> v, scope |-> s] \in Wishes
  BY DEF Wishes

(* What an apply puts on record is a record. *)
LEMMA NewRecord ==
  ASSUME NEW i \in 0 .. MaxInc, NEW o \in Level, NEW a \in 0 .. MaxNice + 5
  PROVE  [inc |-> i, applied |-> a, orig |-> o] \in Record
  BY DEF Record

(* The sentinels are of their type and name no incarnation: no row. *)
LEMMA NoRow ==
  /\ NoSample \in Rows /\ NoSample.inc = 0
  BY NiceAssumption DEF NoSample, Rows, Level, MaxNice

(* No wish. *)
LEMMA NoWishIsWish == NoWish \in Wishes /\ NoWish.inc = 0
  BY NiceAssumption DEF NoWish, Wishes, MaxNice

(* No record. *)
LEMMA NothingRecord == Nothing \in Record /\ Nothing.inc = 0
  BY NiceAssumption DEF Nothing, Record, Level, MaxNice

(* The guard starts with nothing on record. *)
LEMMA InitIInv == Init => IInv
  <1> SUFFICES ASSUME Init PROVE IInv
    OBVIOUS
  <1> USE NiceAssumption, NothingRecord, NoRow, NoWishIsWish DEF Init, Level, MaxNice
  <1>1. TypeOK
    <2>1. LevelsOK /\ RecordsOK
      BY DEF LevelsOK, RecordsOK
    <2>2. ControlOK
      BY DEF ControlOK
    <2>3. PassOK /\ FlagsOK
      BY DEF PassOK, FlagsOK
    <2> QED
      BY <2>1, <2>2, <2>3 DEF TypeOK, LevelsOK, RecordsOK, ControlOK, PassOK, FlagsOK
  <1>2. QED
    BY <1>1 DEF IInv, Drawn, Downed, Wished, Sampled, Floors, BothAgree,
      DegradedIsRecorded, OriginalIsTrue, NeverPromoted

(* Every step of the process, of a pass and of a restore keeps IInv; under
   each action, one step per part of it. *)
LEMMA NextIInv == IInv /\ [Next]_vars => IInv'
  <1> SUFFICES ASSUME IInv, [Next]_vars PROVE IInv'
    OBVIOUS
  <1>f. /\ legacy.inc \in 0 .. MaxInc /\ legacy.orig \in Level /\ legacy.applied \in 0 .. MaxNice + 5
        /\ memory.inc \in 0 .. MaxInc /\ memory.orig \in Level /\ memory.applied \in 0 .. MaxNice + 5
        /\ ledger.inc \in 0 .. MaxInc /\ ledger.orig \in Level
        /\ sample.inc \in 0 .. MaxInc /\ sample.nice \in Level /\ sample.tier \in Level
        /\ sample.heavy \in BOOLEAN /\ sample.pressure \in BOOLEAN
        /\ want.inc \in 0 .. MaxInc /\ want.val \in 0 .. MaxNice + 5
    BY RecordFields, RowFields, WishFields DEF IInv, TypeOK
  <1> USE NiceAssumption, NothingRecord, NoRow, NoWishIsWish, <1>f
      DEF IInv, TypeOK, Drawn, Downed, Wished, Sampled, Floors, BothAgree,
        DegradedIsRecorded, OriginalIsTrue, NeverPromoted, Level, MaxNice, process,
        Excuse, Renice, Clamp, Wish, ToEnd, NoMoreWish
  <1>1. CASE Exit
    <2>1. TypeOK'
      <3>1. LevelsOK'
        BY <1>1 DEF LevelsOK, Exit
      <3>2. RecordsOK'
        BY <1>1 DEF RecordsOK, Exit
      <3>3. ControlOK'
        BY <1>1 DEF ControlOK, Exit
      <3>4. PassOK'
        BY <1>1 DEF PassOK, Exit
      <3>5. FlagsOK'
        BY <1>1 DEF FlagsOK, Exit
      <3> QED
        BY <3>1, <3>2, <3>3, <3>4, <3>5 DEF LevelsOK, RecordsOK, ControlOK, PassOK, FlagsOK
    <2>2. Drawn' /\ Downed' /\ Wished'
      BY <1>1 DEF Exit
    <2>3. Sampled' /\ BothAgree' /\ DegradedIsRecorded'
      BY <1>1 DEF Exit
    <2>4. Floors' /\ NeverPromoted'
      BY <1>1 DEF Exit
    <2>5. OriginalIsTrue'
      BY <1>1 DEF Exit
    <2> QED
      BY <2>1, <2>2, <2>3, <2>4, <2>5
  <1>2. ASSUME NEW v \in Natives, NEW n \in Inherited(v), Start(n) PROVE IInv'
    <2>0. n \in 0 .. 19
      BY DEF Inherited
    <2>1. TypeOK'
      BY <1>2, <2>0 DEF Start
    <2>2. Drawn' /\ Downed' /\ Wished'
      BY <1>2, <2>0 DEF Start
    <2>3. Sampled' /\ BothAgree' /\ DegradedIsRecorded'
      BY <1>2, <2>0 DEF Start
    <2>4. Floors' /\ NeverPromoted'
      BY <1>2, <2>0 DEF Start
    <2>5. OriginalIsTrue'
      BY <1>2, <2>0 DEF Start
    <2> QED
      BY <2>1, <2>2, <2>3, <2>4, <2>5
  <1>3. ASSUME NEW v \in Natives, OthersRenice(v) PROVE IInv'
    <2>1. TypeOK'
      BY <1>3 DEF OthersRenice
    <2>2. Drawn' /\ Downed' /\ Wished'
      BY <1>3 DEF OthersRenice
    <2>3. Sampled' /\ BothAgree' /\ DegradedIsRecorded'
      BY <1>3 DEF OthersRenice
    <2>4. Floors' /\ NeverPromoted'
      BY <1>3 DEF OthersRenice
    <2>5. OriginalIsTrue'
      BY <1>3 DEF OthersRenice
    <2> QED
      BY <2>1, <2>2, <2>3, <2>4, <2>5
  <1>4. CASE PassBegin
    <2>1. TypeOK'
      <3>1. LevelsOK'
        BY <1>4 DEF LevelsOK, PassBegin
      <3>2. RecordsOK'
        BY <1>4 DEF RecordsOK, PassBegin
      <3>3. ControlOK'
        BY <1>4 DEF ControlOK, PassBegin
      <3>4. PassOK'
        BY <1>4 DEF PassOK, PassBegin, Rows
      <3>5. FlagsOK'
        BY <1>4 DEF FlagsOK, PassBegin
      <3> QED
        BY <3>1, <3>2, <3>3, <3>4, <3>5 DEF LevelsOK, RecordsOK, ControlOK, PassOK, FlagsOK
    <2>2. Drawn' /\ Downed' /\ Wished'
      BY <1>4 DEF PassBegin
    <2>3. Sampled' /\ BothAgree' /\ DegradedIsRecorded'
      BY <1>4 DEF PassBegin
    <2>4. Floors' /\ NeverPromoted'
      BY <1>4 DEF PassBegin
    <2>5. OriginalIsTrue'
      BY <1>4 DEF PassBegin
    <2> QED
      BY <2>1, <2>2, <2>3, <2>4, <2>5
  <1>5. CASE HeavyDecide
    <2>1. TypeOK'
      <3>1. LevelsOK'
        BY <1>5 DEF LevelsOK, HeavyDecide, Graduated, SampleIsCurrent, Current
      <3>2. RecordsOK'
        BY <1>5 DEF RecordsOK, HeavyDecide, Graduated, SampleIsCurrent, Current
      <3>3. ControlOK'
        BY <1>5 DEF ControlOK, HeavyDecide, Graduated, SampleIsCurrent, Current
      <3>4. PassOK'
        BY <1>5 DEF PassOK, HeavyDecide, Graduated, SampleIsCurrent, Current, Wishes
      <3>5. FlagsOK'
        BY <1>5 DEF FlagsOK, HeavyDecide, Graduated, SampleIsCurrent, Current
      <3> QED
        BY <3>1, <3>2, <3>3, <3>4, <3>5 DEF LevelsOK, RecordsOK, ControlOK, PassOK, FlagsOK
    <2>2. Drawn' /\ Downed' /\ Wished'
      BY <1>5 DEF HeavyDecide, Graduated, SampleIsCurrent, Current
    <2>3. Sampled' /\ BothAgree' /\ DegradedIsRecorded'
      BY <1>5 DEF HeavyDecide, Graduated, SampleIsCurrent, Current
    <2>4. Floors' /\ NeverPromoted'
      BY <1>5 DEF HeavyDecide, Graduated, SampleIsCurrent, Current
    <2>5. OriginalIsTrue'
      BY <1>5 DEF HeavyDecide, Graduated, SampleIsCurrent, Current
    <2> QED
      BY <2>1, <2>2, <2>3, <2>4, <2>5
  <1>6. CASE HeavySkip
    BY <1>6 DEF HeavySkip
  <1>7. CASE HeavyRenice
    <2>1. TypeOK'
      <3>1. LevelsOK'
        BY <1>7 DEF LevelsOK, HeavyRenice, HeavyOriginal
      <3>2. RecordsOK'
        BY <1>7, NewRecord DEF RecordsOK, HeavyRenice, HeavyOriginal
      <3>3. ControlOK'
        BY <1>7 DEF ControlOK, HeavyRenice, HeavyOriginal
      <3>4. PassOK'
        BY <1>7 DEF PassOK, HeavyRenice, HeavyOriginal
      <3>5. FlagsOK'
        BY <1>7 DEF FlagsOK, HeavyRenice, HeavyOriginal
      <3> QED
        BY <3>1, <3>2, <3>3, <3>4, <3>5 DEF LevelsOK, RecordsOK, ControlOK, PassOK, FlagsOK
    <2>2. Drawn' /\ Downed' /\ Wished'
      BY <1>7 DEF HeavyRenice, HeavyOriginal
    <2>3. Sampled' /\ BothAgree' /\ DegradedIsRecorded'
      BY <1>7 DEF HeavyRenice, HeavyOriginal
    <2>4. Floors' /\ NeverPromoted'
      BY <1>7 DEF HeavyRenice, HeavyOriginal
    <2>5. OriginalIsTrue'
      BY <1>7 DEF HeavyRenice, HeavyOriginal
    <2> QED
      BY <2>1, <2>2, <2>3, <2>4, <2>5
  <1>8. CASE ReniceFails
    <2>1. TypeOK'
      BY <1>8 DEF ReniceFails, After
    <2>2. Drawn' /\ Downed' /\ Wished'
      BY <1>8 DEF ReniceFails, After
    <2>3. Sampled' /\ BothAgree' /\ DegradedIsRecorded'
      BY <1>8 DEF ReniceFails, After
    <2>4. Floors' /\ NeverPromoted'
      BY <1>8 DEF ReniceFails, After
    <2>5. OriginalIsTrue'
      BY <1>8 DEF ReniceFails, After
    <2> QED
      BY <2>1, <2>2, <2>3, <2>4, <2>5
  <1>9. CASE Cool
    <2>1. TypeOK'
      <3>1. LevelsOK'
        BY <1>9 DEF LevelsOK, Cool, CoolValue, Current
      <3>2. RecordsOK'
        BY <1>9 DEF RecordsOK, Cool, CoolValue, Current
      <3>3. ControlOK'
        BY <1>9 DEF ControlOK, Cool, CoolValue, Current
      <3>4. PassOK'
        BY <1>9 DEF PassOK, Cool, CoolValue, Current, Wishes
      <3>5. FlagsOK'
        BY <1>9 DEF FlagsOK, Cool, CoolValue, Current
      <3> QED
        BY <3>1, <3>2, <3>3, <3>4, <3>5 DEF LevelsOK, RecordsOK, ControlOK, PassOK, FlagsOK
    <2>2. Drawn' /\ Downed' /\ Wished'
      BY <1>9 DEF Cool, CoolValue, Current
    <2>3. Sampled' /\ BothAgree' /\ DegradedIsRecorded'
      BY <1>9 DEF Cool, CoolValue, Current
    <2>4. Floors' /\ NeverPromoted'
      BY <1>9 DEF Cool, CoolValue, Current
    <2>5. OriginalIsTrue'
      BY <1>9 DEF Cool, CoolValue, Current
    <2> QED
      BY <2>1, <2>2, <2>3, <2>4, <2>5
  <1>10. CASE CoolRenice
    <2>1. TypeOK'
      <3>1. LevelsOK'
        BY <1>10 DEF LevelsOK, CoolRenice, CoolValue
      <3>2. RecordsOK'
        BY <1>10 DEF RecordsOK, CoolRenice, CoolValue
      <3>3. ControlOK'
        BY <1>10 DEF ControlOK, CoolRenice, CoolValue
      <3>4. PassOK'
        BY <1>10 DEF PassOK, CoolRenice, CoolValue
      <3>5. FlagsOK'
        BY <1>10 DEF FlagsOK, CoolRenice, CoolValue
      <3> QED
        BY <3>1, <3>2, <3>3, <3>4, <3>5 DEF LevelsOK, RecordsOK, ControlOK, PassOK, FlagsOK
    <2>2. Drawn' /\ Downed' /\ Wished'
      BY <1>10 DEF CoolRenice, CoolValue
    <2>3. Sampled' /\ BothAgree' /\ DegradedIsRecorded'
      BY <1>10 DEF CoolRenice, CoolValue
    <2>4. Floors' /\ NeverPromoted'
      BY <1>10 DEF CoolRenice, CoolValue
    <2>5. OriginalIsTrue'
      BY <1>10 DEF CoolRenice, CoolValue
    <2> QED
      BY <2>1, <2>2, <2>3, <2>4, <2>5
  <1>11. CASE CoolDone
    <2>1. TypeOK'
      BY <1>11 DEF CoolDone, Pruned, Current
    <2>2. Drawn' /\ Downed' /\ Wished'
      BY <1>11 DEF CoolDone, Pruned, Current
    <2>3. Sampled' /\ BothAgree' /\ DegradedIsRecorded'
      BY <1>11 DEF CoolDone, Pruned, Current
    <2>4. Floors' /\ NeverPromoted'
      BY <1>11 DEF CoolDone, Pruned, Current
    <2>5. OriginalIsTrue'
      BY <1>11 DEF CoolDone, Pruned, Current
    <2> QED
      BY <2>1, <2>2, <2>3, <2>4, <2>5
  <1>12. CASE MemDecide
    <2>1. TypeOK'
      <3>1. LevelsOK'
        BY <1>12 DEF LevelsOK, MemDecide, Graduated, SampleIsCurrent, Current
      <3>2. RecordsOK'
        BY <1>12 DEF RecordsOK, MemDecide, Graduated, SampleIsCurrent, Current
      <3>3. ControlOK'
        BY <1>12 DEF ControlOK, MemDecide, Graduated, SampleIsCurrent, Current
      <3>4. PassOK'
        BY <1>12 DEF PassOK, MemDecide, Graduated, SampleIsCurrent, Current, Wishes
      <3>5. FlagsOK'
        BY <1>12 DEF FlagsOK, MemDecide, Graduated, SampleIsCurrent, Current
      <3> QED
        BY <3>1, <3>2, <3>3, <3>4, <3>5 DEF LevelsOK, RecordsOK, ControlOK, PassOK, FlagsOK
    <2>2. Drawn' /\ Downed' /\ Wished'
      BY <1>12 DEF MemDecide, Graduated, SampleIsCurrent, Current
    <2>3. Sampled' /\ BothAgree' /\ DegradedIsRecorded'
      BY <1>12 DEF MemDecide, Graduated, SampleIsCurrent, Current
    <2>4. Floors' /\ NeverPromoted'
      BY <1>12 DEF MemDecide, Graduated, SampleIsCurrent, Current
    <2>5. OriginalIsTrue'
      BY <1>12 DEF MemDecide, Graduated, SampleIsCurrent, Current
    <2> QED
      BY <2>1, <2>2, <2>3, <2>4, <2>5
  <1>13. CASE MemRenice
    <2>1. TypeOK'
      <3>1. LevelsOK'
        BY <1>13 DEF LevelsOK, MemRenice, MemOriginal
      <3>2. RecordsOK'
        BY <1>13, NewRecord DEF RecordsOK, MemRenice, MemOriginal
      <3>3. ControlOK'
        BY <1>13 DEF ControlOK, MemRenice, MemOriginal
      <3>4. PassOK'
        BY <1>13 DEF PassOK, MemRenice, MemOriginal
      <3>5. FlagsOK'
        BY <1>13 DEF FlagsOK, MemRenice, MemOriginal
      <3> QED
        BY <3>1, <3>2, <3>3, <3>4, <3>5 DEF LevelsOK, RecordsOK, ControlOK, PassOK, FlagsOK
    <2>2. Drawn' /\ Downed' /\ Wished'
      BY <1>13 DEF MemRenice, MemOriginal
    <2>3. Sampled' /\ BothAgree' /\ DegradedIsRecorded'
      BY <1>13 DEF MemRenice, MemOriginal
    <2>4. Floors' /\ NeverPromoted'
      BY <1>13 DEF MemRenice, MemOriginal
    <2>5. OriginalIsTrue'
      BY <1>13 DEF MemRenice, MemOriginal
    <2> QED
      BY <2>1, <2>2, <2>3, <2>4, <2>5
  <1>14. CASE MemCool
    <2>1. TypeOK'
      <3>1. LevelsOK'
        BY <1>14 DEF LevelsOK, MemCool, CoolValue, Current
      <3>2. RecordsOK'
        BY <1>14 DEF RecordsOK, MemCool, CoolValue, Current
      <3>3. ControlOK'
        BY <1>14 DEF ControlOK, MemCool, CoolValue, Current
      <3>4. PassOK'
        BY <1>14 DEF PassOK, MemCool, CoolValue, Current, Wishes
      <3>5. FlagsOK'
        BY <1>14 DEF FlagsOK, MemCool, CoolValue, Current
      <3> QED
        BY <3>1, <3>2, <3>3, <3>4, <3>5 DEF LevelsOK, RecordsOK, ControlOK, PassOK, FlagsOK
    <2>2. Drawn' /\ Downed' /\ Wished'
      BY <1>14 DEF MemCool, CoolValue, Current
    <2>3. Sampled' /\ BothAgree' /\ DegradedIsRecorded'
      BY <1>14 DEF MemCool, CoolValue, Current
    <2>4. Floors' /\ NeverPromoted'
      BY <1>14 DEF MemCool, CoolValue, Current
    <2>5. OriginalIsTrue'
      BY <1>14 DEF MemCool, CoolValue, Current
    <2> QED
      BY <2>1, <2>2, <2>3, <2>4, <2>5
  <1>15. CASE MemCoolRenice
    <2>1. TypeOK'
      <3>1. LevelsOK'
        BY <1>15 DEF LevelsOK, MemCoolRenice, CoolValue
      <3>2. RecordsOK'
        BY <1>15 DEF RecordsOK, MemCoolRenice, CoolValue
      <3>3. ControlOK'
        BY <1>15 DEF ControlOK, MemCoolRenice, CoolValue
      <3>4. PassOK'
        BY <1>15 DEF PassOK, MemCoolRenice, CoolValue
      <3>5. FlagsOK'
        BY <1>15 DEF FlagsOK, MemCoolRenice, CoolValue
      <3> QED
        BY <3>1, <3>2, <3>3, <3>4, <3>5 DEF LevelsOK, RecordsOK, ControlOK, PassOK, FlagsOK
    <2>2. Drawn' /\ Downed' /\ Wished'
      BY <1>15 DEF MemCoolRenice, CoolValue
    <2>3. Sampled' /\ BothAgree' /\ DegradedIsRecorded'
      BY <1>15 DEF MemCoolRenice, CoolValue
    <2>4. Floors' /\ NeverPromoted'
      BY <1>15 DEF MemCoolRenice, CoolValue
    <2>5. OriginalIsTrue'
      BY <1>15 DEF MemCoolRenice, CoolValue
    <2> QED
      BY <2>1, <2>2, <2>3, <2>4, <2>5
  <1>16. CASE MemDone
    BY <1>16 DEF MemDone
  <1>17. CASE PassEnd
    <2>1. TypeOK'
      BY <1>17, PersistedRecord DEF PassEnd, Pruned, Current
    <2>2. Drawn' /\ Downed' /\ Wished'
      BY <1>17, PersistedRecord DEF PassEnd, Pruned, Current
    <2>3. Sampled' /\ BothAgree' /\ DegradedIsRecorded'
      BY <1>17, PersistedRecord DEF PassEnd, Pruned, Current
    <2>4. Floors' /\ NeverPromoted'
      BY <1>17, PersistedRecord DEF PassEnd, Pruned, Current
    <2>5. OriginalIsTrue'
      BY <1>17, PersistedRecord DEF PassEnd, Pruned, Current
    <2> QED
      BY <2>1, <2>2, <2>3, <2>4, <2>5
  <1>18. CASE RestoreDecide
    <2>1. TypeOK'
      <3>1. LevelsOK'
        BY <1>18 DEF LevelsOK, RestoreDecide, Scope, RemoveScope, Without
      <3>2. RecordsOK'
        BY <1>18 DEF RecordsOK, RestoreDecide, Scope, RemoveScope, Without
      <3>3. ControlOK'
        BY <1>18 DEF ControlOK, RestoreDecide, Scope, RemoveScope, Without
      <3>4. PassOK'
        BY <1>18 DEF PassOK, RestoreDecide, Scope, RemoveScope, Without, Wishes
      <3>5. FlagsOK'
        BY <1>18 DEF FlagsOK, RestoreDecide, Scope, RemoveScope, Without
      <3> QED
        BY <3>1, <3>2, <3>3, <3>4, <3>5 DEF LevelsOK, RecordsOK, ControlOK, PassOK, FlagsOK
    <2>2. Drawn' /\ Downed' /\ Wished'
      BY <1>18 DEF RestoreDecide, Scope, RemoveScope, Without
    <2>3. Sampled' /\ BothAgree' /\ DegradedIsRecorded'
      BY <1>18 DEF RestoreDecide, Scope, RemoveScope, Without
    <2>4. Floors' /\ NeverPromoted'
      BY <1>18 DEF RestoreDecide, Scope, RemoveScope, Without
    <2>5. OriginalIsTrue'
      BY <1>18 DEF RestoreDecide, Scope, RemoveScope, Without
    <2> QED
      BY <2>1, <2>2, <2>3, <2>4, <2>5
  <1>19. CASE RestoreRenice
    <2>1. TypeOK'
      <3>1. LevelsOK'
        BY <1>19 DEF LevelsOK, RestoreRenice, RemoveScope, Without
      <3>2. RecordsOK'
        BY <1>19 DEF RecordsOK, RestoreRenice, RemoveScope, Without
      <3>3. ControlOK'
        BY <1>19 DEF ControlOK, RestoreRenice, RemoveScope, Without
      <3>4. PassOK'
        BY <1>19 DEF PassOK, RestoreRenice, RemoveScope, Without
      <3>5. FlagsOK'
        BY <1>19 DEF FlagsOK, RestoreRenice, RemoveScope, Without
      <3> QED
        BY <3>1, <3>2, <3>3, <3>4, <3>5 DEF LevelsOK, RecordsOK, ControlOK, PassOK, FlagsOK
    <2>2. Drawn' /\ Downed' /\ Wished'
      BY <1>19 DEF RestoreRenice, RemoveScope, Without
    <2>3. Sampled' /\ BothAgree' /\ DegradedIsRecorded'
      BY <1>19 DEF RestoreRenice, RemoveScope, Without
    <2>4. Floors' /\ NeverPromoted'
      BY <1>19 DEF RestoreRenice, RemoveScope, Without
    <2>5. OriginalIsTrue'
      BY <1>19 DEF RestoreRenice, RemoveScope, Without
    <2> QED
      BY <2>1, <2>2, <2>3, <2>4, <2>5
  <1>20. CASE RestoreEnd
    <2>1. TypeOK'
      BY <1>20, PersistedRecord DEF RestoreEnd
    <2>2. Drawn' /\ Downed' /\ Wished'
      BY <1>20, PersistedRecord DEF RestoreEnd
    <2>3. Sampled' /\ BothAgree' /\ DegradedIsRecorded'
      BY <1>20, PersistedRecord DEF RestoreEnd
    <2>4. Floors' /\ NeverPromoted'
      BY <1>20, PersistedRecord DEF RestoreEnd
    <2>5. OriginalIsTrue'
      BY <1>20, PersistedRecord DEF RestoreEnd
    <2> QED
      BY <2>1, <2>2, <2>3, <2>4, <2>5
  <1>21. CASE GuardDies
    <2>1. TypeOK'
      BY <1>21 DEF GuardDies
    <2>2. Drawn' /\ Downed' /\ Wished'
      BY <1>21 DEF GuardDies
    <2>3. Sampled' /\ BothAgree' /\ DegradedIsRecorded'
      BY <1>21 DEF GuardDies
    <2>4. Floors' /\ NeverPromoted'
      BY <1>21 DEF GuardDies
    <2>5. OriginalIsTrue'
      BY <1>21 DEF GuardDies
    <2> QED
      BY <2>1, <2>2, <2>3, <2>4, <2>5
  <1>22. CASE Hydrate
    <2>1. TypeOK'
      BY <1>22, HydratedRecord DEF Hydrate
    <2>2. Drawn' /\ Downed' /\ Wished'
      BY <1>22, HydratedRecord DEF Hydrate
    <2>3. Sampled' /\ BothAgree' /\ DegradedIsRecorded'
      BY <1>22, HydratedRecord DEF Hydrate
    <2>4. Floors' /\ NeverPromoted'
      BY <1>22, HydratedRecord DEF Hydrate
    <2>5. OriginalIsTrue'
      BY <1>22, HydratedRecord DEF Hydrate
    <2> QED
      BY <2>1, <2>2, <2>3, <2>4, <2>5
  <1>23. ASSUME NEW m \in {"reload", "stop"}, RestoreBegin(m) PROVE IInv'
    BY <1>23 DEF RestoreBegin
  <1>24. CASE UNCHANGED vars
    BY <1>24 DEF vars, CoolValue
  <1> QED
    BY <1>1, <1>2, <1>3, <1>4, <1>5, <1>6, <1>7, <1>8, <1>9, <1>10, <1>11, <1>12, <1>13, <1>14, <1>15, <1>16, <1>17, <1>18, <1>19, <1>20, <1>21, <1>22, <1>23, <1>24 DEF Next, Process, Pass, Life
-----------------------------------------------------------------------------
(* The invariant the theorems below follow from. *)
THEOREM Inductive == Spec => []IInv
  BY InitIInv, NextIInv, PTL DEF Spec

(* Every variable stays in its type: the levels within what the kernel takes,
   the hydrated guess included. *)
THEOREM TypeCorrect == Spec => []TypeOK
  BY Inductive, PTL DEF IInv

(* Two records of one incarnation agree on the original value, so that
   runtime_adjustment_plan may restore both with one renice. *)
THEOREM RecordsAgree == Spec => []BothAgree
  BY Inductive, PTL DEF IInv

(* No sequence of applies, releases, failures, reloads and restarts leaves a
   process that the guard degraded, and no longer knows of.  What a process
   inherited from a degraded parent is not the guard's doing to it. *)
THEOREM DegradedRecorded == Spec => []DegradedIsRecorded
  BY Inductive, PTL DEF IInv

(* The value every record would restore is the one the process was found with
   (its own, or a degraded parent's), unless it was taken from a snapshot that a
   release of the same pass had outdated. *)
THEOREM OriginalsTrue == Spec => []OriginalIsTrue
  BY Inductive, PTL DEF IInv

(* The guard never raises a process above the priority it was found with, and so
   never above its own, not even with an original value misread from an outdated
   snapshot. *)
THEOREM NotPromoted == Spec => []NeverPromoted
  BY Inductive, PTL DEF IInv
=============================================================================
