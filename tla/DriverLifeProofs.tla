-------------------------- MODULE DriverLifeProofs --------------------------
(***************************************************************************)
(* DriverLife with exact counts implements DriverLife with levels, for any *)
(* scripts: each step of probe, of remove, of a failure and of a call is   *)
(* one there.  With levels there are finitely many states, which TLC goes  *)
(* through in full, and what it finds then holds for exact counts, however *)
(* often a driver comes and goes and however many files are open.          *)
(***************************************************************************)
EXTENDS DriverLife, TLAPS

Levels == INSTANCE DriverLife WITH held <- [r \in DOMAIN held |-> Level(held[r])], Exact <- FALSE

level == [r \in DOMAIN held |-> Level(held[r])]

(* Each resource of the driver has a count, that of a clock may be negative. *)
Counts == held \in [Names(drv) -> Int]

-----------------------------------------------------------------------------
(* Counts and levels. *)

(* A level tells whether the count is positive, zero or negative.          *)
LEMMA LevelSign ==
  ASSUME NEW n \in Int
  PROVE  /\ Levels!Level(n) = Level(n) /\ Level(n) \in -1..2
         /\ (Level(n) > 0 <=> n > 0) /\ (Level(n) = 0 <=> n = 0)
         /\ n \in {0, 1} => Level(n) = n
BY DEF Level, Levels!Level

(* One more or one less: the level changes by one, or a level that stands  *)
(* for many counts stays.                                                  *)
LEMMA LevelShift ==
  ASSUME NEW n \in Int, NEW k \in {-1, 1}
  PROVE  Level(n + k) = Level(Level(n) + k) \/ (Level(n) \in {-1, 2} /\ Level(n + k) = Level(n))
BY DEF Level

(* Both see the same names of resources, and the same resources held.      *)
LEMMA SameHeld ==
  ASSUME Counts
  PROVE  /\ Levels!Names(drv) = Names(drv) /\ Levels!D = D
         /\ DOMAIN level = DOMAIN held
         /\ \A r : Levels!Has(r) <=> Has(r)
         /\ \A set : Levels!Missing(set) = Missing(set)
         /\ \A c : Levels!Comes(c) <=> Comes(c)
<1>1. Levels!Names(drv) = Names(drv) /\ Levels!D = D /\ DOMAIN level = DOMAIN held
  BY DEF Levels!Names, Names, Levels!D, D, level
<1>2. ASSUME NEW r PROVE Levels!Has(r) <=> Has(r)
  <2>1. r \in DOMAIN held => held[r] \in Int
    BY DEF Counts
  <2>2. QED
    BY <2>1, LevelSign DEF Levels!Has, Has
<1>3. QED
  BY <1>1, <1>2 DEF Levels!Missing, Missing, Levels!Comes, Comes

(* Counting one more or one less is a shift of the levels.                 *)
LEMMA CountShifts ==
  ASSUME Exact, Counts, NEW set, NEW k \in {-1, 1}, Count(set, k)
  PROVE  Levels!Count(set, k)
<1> DEFINE same == {r \in set \cap DOMAIN held : Level(held[r]) \in {-1, 2} /\ Level(held[r] + k) = Level(held[r])}
<1>1. held' = [r \in DOMAIN held |-> IF r \in set THEN held[r] + k ELSE held[r]]
  BY DEF Count
<1>2. ASSUME NEW r \in DOMAIN held
      PROVE  Level(held'[r]) = IF r \in set \ same THEN Levels!Level(Level(held[r]) + k) ELSE Level(held[r])
  <2>1. held[r] \in Int /\ Level(held[r]) \in Int
    BY LevelSign DEF Counts
  <2>2. Levels!Level(Level(held[r]) + k) = Level(Level(held[r]) + k)
    BY <2>1, LevelSign
  <2>3. QED
    BY <1>1, <2>1, <2>2, LevelShift
<1>3. same \in SUBSET {r \in set \cap DOMAIN level : level[r] \in {-1, 2}}
  BY DEF level
<1>4. DOMAIN held' = DOMAIN held
  BY <1>1
<1> HIDE DEF same
<1>5. level' = [r \in DOMAIN level |-> IF r \in set \ same THEN Levels!Level(level[r] + k) ELSE level[r]]
  BY <1>2, <1>4 DEF level
<1>6. QED
  BY <1>3, <1>5 DEF Levels!Count, Levels!Many, level

(* Resources that are set to zero or one have that level.                  *)
LEMMA SetToSets ==
  ASSUME Counts, NEW set, NEW n \in {0, 1}, held' = SetTo(set, n)
  PROVE  level' = Levels!SetTo(set, n)
<1>1. Level(n) = n
  BY LevelSign
<1>2. QED
  BY <1>1 DEF SetTo, Levels!SetTo, level

(* The counts stay counts. *)
LEMMA CountsStep ==
  ASSUME Exact, Counts, [Next]_vars
  PROVE  Counts'
<1>1. drv' = drv
  BY DEF Next, vars, Probe, Remove, Acquire, Skip, FailUnnoticed, Fail, Pass, Touch, GiveBack, Drop, Done,
     OpenFile, CloseFile, Calls, Continue
<1>2. \/ held' = held \/ (\E set : \E k \in {-1, 1} : Count(set, k)) \/ (\E set : held' = SetTo(set, 0))
      \/ \E c : held' = [r \in DOMAIN held |-> IF r \in c.sets THEN 1 ELSE IF r \in c.clears THEN 0 ELSE held[r]]
  BY DEF Next, vars, Probe, Remove, Acquire, Skip, FailUnnoticed, Fail, Pass, Touch, GiveBack, Drop, Done,
     OpenFile, CloseFile, Calls, Continue
<1>3. ASSUME NEW set, NEW k \in {-1, 1}, Count(set, k) PROVE held' \in [Names(drv) -> Int]
  BY <1>3 DEF Count, Counts
<1>4. ASSUME NEW set, held' = SetTo(set, 0) PROVE held' \in [Names(drv) -> Int]
  BY <1>4 DEF SetTo, Counts
<1>5. ASSUME NEW c, held' = [r \in DOMAIN held |-> IF r \in c.sets THEN 1 ELSE IF r \in c.clears THEN 0 ELSE held[r]]
      PROVE  held' \in [Names(drv) -> Int]
  BY <1>5 DEF Counts
<1>6. held' \in [Names(drv) -> Int]
  BY <1>2, <1>3, <1>4, <1>5 DEF Counts
<1>7. QED
  BY <1>1, <1>6 DEF Counts, Names

-----------------------------------------------------------------------------
(* The steps. *)

(* The driver comes or goes, or a step fails. *)
LEMMA BeginsFollow ==
  ASSUME Counts, Probe \/ Remove \/ Fail
  PROVE  Levels!Next
<1>1. held' = held /\ unheld' = unheld /\ drv' = drv
  BY DEF Probe, Remove, Fail
<1>2. level' = level
  BY <1>1 DEF level
<1>3. CASE Probe
  BY <1>1, <1>2, <1>3, SameHeld DEF Probe, Levels!Next, Levels!Probe, level
<1>4. CASE Remove
  BY <1>1, <1>2, <1>4, SameHeld DEF Remove, Levels!Next, Levels!Remove, level
<1>5. CASE Fail
  <2>1. Levels!Undo(Head(todo).undo) = Undo(Head(todo).undo)
    BY SameHeld DEF Undo, Levels!Undo
  <2>2. Levels!Fail
    BY <1>1, <1>2, <1>5, <2>1, SameHeld DEF Fail, At, Levels!Fail, Levels!At, level
  <2>3. QED
    BY <2>2 DEF Levels!Next
<1>6. QED
  BY <1>3, <1>4, <1>5

(* A step that changes no count. *)
LEMMA PassesFollow ==
  ASSUME Counts, Skip \/ FailUnnoticed \/ Pass \/ Touch
  PROVE  Levels!Next
<1>1. held' = held /\ Levels!Continue
  BY DEF Skip, FailUnnoticed, Pass, Touch, Continue, Levels!Continue
<1>2. level' = level
  BY <1>1 DEF level
<1>3. Levels!Skipped <=> Skipped
  BY SameHeld DEF Skipped, Levels!Skipped
<1>4. CASE Skip \/ FailUnnoticed \/ Pass
  <2>1. unheld' = unheld
    BY <1>4 DEF Skip, FailUnnoticed, Pass
  <2>2. Levels!Skip \/ Levels!FailUnnoticed \/ Levels!Pass
    BY <1>1, <1>2, <1>3, <1>4, <2>1, SameHeld DEF Skip, FailUnnoticed, Pass, At, Levels!Skip, Levels!FailUnnoticed,
       Levels!Pass, Levels!At, level
  <2>3. QED
    BY <2>2 DEF Levels!Next
<1>5. CASE Touch
  <2>1. Levels!Touch
    BY <1>1, <1>2, <1>5, SameHeld DEF Touch, At, Levels!Touch, Levels!At, level
  <2>2. QED
    BY <2>1 DEF Levels!Next
<1>6. QED
  BY <1>4, <1>5

(* A step that takes or gives back. *)
LEMMA ChangesFollow ==
  ASSUME Exact, Counts, Acquire \/ GiveBack \/ Drop
  PROVE  Levels!Next
<1>1. Levels!Continue
  BY DEF Acquire, GiveBack, Drop, Continue, Levels!Continue
<1>2. Levels!Skipped <=> Skipped
  BY SameHeld DEF Skipped, Levels!Skipped
<1>3. CASE Acquire
  <2>1. Levels!Count(Head(todo).res, 1)
    BY <1>3, CountShifts DEF Acquire
  <2>2. Levels!Acquire
    BY <1>1, <1>2, <1>3, <2>1, SameHeld DEF Acquire, At, Levels!Acquire, Levels!At
  <2>3. QED
    BY <2>2 DEF Levels!Next
<1>4. CASE GiveBack
  <2> DEFINE set == {r \in Head(todo).res : Has(r) \/ r \in Counted}
  <2>1. Levels!Count(set, -1)
    BY <1>4, CountShifts DEF GiveBack
  <2>2. set = {r \in Head(todo).res : Levels!Has(r) \/ r \in Counted}
    BY SameHeld
  <2> HIDE DEF set
  <2>3. Levels!GiveBack
    BY <1>1, <1>4, <2>1, <2>2, SameHeld DEF GiveBack, At, Levels!GiveBack, Levels!At
  <2>4. QED
    BY <2>3 DEF Levels!Next
<1>5. CASE Drop
  <2>1. level' = Levels!SetTo(Head(todo).res, 0)
    BY <1>5, SetToSets DEF Drop
  <2>2. Levels!Drop
    BY <1>1, <1>5, <2>1 DEF Drop, At, Levels!Drop, Levels!At, level
  <2>3. QED
    BY <2>2 DEF Levels!Next
<1>6. QED
  BY <1>3, <1>4, <1>5

(* The end of a script; a module that is unloaded forgets its statics.     *)
LEMMA DoneFollows ==
  ASSUME Counts, Done
  PROVE  Levels!Next
<1>1. level' = IF phase' = "out" /\ ~Kind[drv].unbinds THEN Levels!SetTo(Statics, 0) ELSE level
  <2>1. CASE phase' = "out" /\ ~Kind[drv].unbinds
    <3>1. held' = SetTo(Statics, 0)
      BY <2>1 DEF Done
    <3>2. QED
      BY <2>1, <3>1, SetToSets
  <2>2. CASE ~(phase' = "out" /\ ~Kind[drv].unbinds)
    <3>1. held' = held
      BY <2>2 DEF Done
    <3>2. QED
      BY <2>2, <3>1 DEF level
  <2>3. QED
    BY <2>1, <2>2
<1>2. Levels!Done
  BY <1>1 DEF Done, Levels!Done, level
<1>3. QED
  BY <1>2 DEF Levels!Next

(* Calls and files. *)
LEMMA OutsideFollows ==
  ASSUME Exact, Counts, OpenFile \/ CloseFile \/ Calls
  PROVE  Levels!Next
<1>1. CASE OpenFile
  <2>1. Levels!Count({"file"}, 1)
    BY <1>1, CountShifts DEF OpenFile
  <2>2. Levels!OpenFile
    BY <1>1, <2>1, SameHeld DEF OpenFile, Levels!OpenFile
  <2>3. QED
    BY <2>2 DEF Levels!Next
<1>2. CASE CloseFile
  <2>1. Levels!Count({"file"}, -1)
    BY <1>2, CountShifts DEF CloseFile
  <2>2. Levels!CloseFile
    BY <1>2, <2>1, SameHeld DEF CloseFile, Levels!CloseFile
  <2>3. QED
    BY <2>2 DEF Levels!Next
<1>3. CASE Calls
  <2>1. PICK c \in D.calls :
          /\ Comes(c) /\ c.sets \cup c.clears # {}
          /\ held' = [r \in DOMAIN held |-> IF r \in c.sets THEN 1 ELSE IF r \in c.clears THEN 0 ELSE held[r]]
          /\ UNCHANGED <<drv, phase, todo, unheld>>
    BY <1>3 DEF Calls
  <2>2. level' = [r \in DOMAIN level |-> IF r \in c.sets THEN 1 ELSE IF r \in c.clears THEN 0 ELSE level[r]]
    <3>1. Level(0) = 0 /\ Level(1) = 1
      BY DEF Level
    <3>2. QED
      BY <2>1, <3>1 DEF level
  <2>3. Levels!Calls
    BY <2>1, <2>2, SameHeld DEF Levels!Calls, level
  <2>4. QED
    BY <2>3 DEF Levels!Next
<1>4. QED
  BY <1>1, <1>2, <1>3

(* Every step is a step with levels or is not seen there. *)
LEMMA StepFollows ==
  ASSUME Exact, Counts, [Next]_vars
  PROVE  [Levels!Next]_(Levels!vars)
<1>1. CASE Next
  BY <1>1, BeginsFollow, PassesFollow, ChangesFollow, DoneFollows, OutsideFollows DEF Next
<1>2. CASE UNCHANGED vars
  BY <1>2 DEF vars, Levels!vars
<1>3. QED
  BY <1>1, <1>2

(* The counts of a driver that was never there. *)
LEMMA InitFollows ==
  ASSUME Init
  PROVE  Counts /\ Levels!Init
<1>1. PICK given \in SUBSET ({"major"} \cap Names(drv)) :
        held = [r \in Names(drv) |-> IF r \in given THEN 1 ELSE 0]
  BY DEF Init
<1>2. Counts
  BY <1>1 DEF Counts
<1>3. level = [r \in Names(drv) |-> IF r \in given THEN 1 ELSE 0]
  <2>1. Level(0) = 0 /\ Level(1) = 1
    BY DEF Level
  <2>2. QED
    BY <1>1, <2>1 DEF level
<1>4. Levels!Init
  BY <1>2, <1>3, SameHeld DEF Init, Levels!Init, level
<1>5. QED
  BY <1>2, <1>4

-----------------------------------------------------------------------------
(* Whatever the scripts, and however often and with however many open      *)
(* files a driver comes and goes: with exact counts it does what it may do *)
(* with levels.                                                            *)
THEOREM LifeFollowsLevels == Exact => (Spec => Levels!Spec /\ []Counts)
<1> SUFFICES ASSUME Exact PROVE Spec => Levels!Spec /\ []Counts
  OBVIOUS
<1>1. Init => Counts /\ Levels!Init
  BY InitFollows
<1>2. Counts /\ [Next]_vars => Counts' /\ [Levels!Next]_(Levels!vars)
  BY CountsStep, StepFollows
<1>3. QED
  BY <1>1, <1>2, PTL DEF Spec, Levels!Spec

(* With exact counts, a driver that is out, after any number of probes     *)
(* that failed at any step and of removals, has given back what it         *)
(* acquired, if that is so with levels, which TLC decides for the scripts  *)
(* at hand.                                                                *)
THEOREM NothingEverKept ==
  Exact => ((Levels!Spec => []Levels!NothingKept) => (Spec => []NothingKept))
<1>1. ASSUME Counts, Levels!NothingKept PROVE NothingKept
  <2>1. ASSUME NEW r \in DOMAIN held
        PROVE  /\ level[r] = Level(held[r]) /\ (Level(held[r]) = 0 <=> held[r] = 0)
               /\ (Level(held[r]) > 0 <=> held[r] > 0)
    BY <1>1, LevelSign DEF Counts, level
  <2>2. QED
    BY <1>1, <2>1, SameHeld DEF NothingKept, Levels!NothingKept, level
<1>2. QED
  BY <1>1, LifeFollowsLevels, PTL

(* With exact counts, however many files are open and however often probe  *)
(* ran: only what is held is touched, given back or found by an interrupt, *)
(* a timer, a notifier or a user, if that is so with levels.               *)
THEOREM OnlyHeldEverUsed ==
  Exact => ((Levels!Spec => []Levels!OnlyHeldUsed) => (Spec => []OnlyHeldUsed))
<1>1. ASSUME Counts, Levels!OnlyHeldUsed PROVE OnlyHeldUsed
  BY <1>1, SameHeld DEF OnlyHeldUsed, Levels!OnlyHeldUsed
<1>2. QED
  BY <1>1, LifeFollowsLevels, PTL

=============================================================================
