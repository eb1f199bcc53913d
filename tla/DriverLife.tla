----------------------------- MODULE DriverLife -----------------------------
(***************************************************************************)
(* One driver comes and goes, again and again, by its script, while the    *)
(* calls it has let in keep coming: interrupts, timers, notifiers, the bus *)
(* and open files may call between any two steps of probe and remove.      *)
(* Acquiring may fail wherever the code looks at the result; where it does *)
(* not look, only in the places that Unnoticed names.                      *)
(*                                                                         *)
(* How often a resource is held is a count.  Unless Exact, it is told only *)
(* as a level: -1 owed, 0 free, 1 held, 2 held more than once.  There are  *)
(* then finitely many states, although nothing bounds how often the driver *)
(* comes and how many files are open.                                      *)
(***************************************************************************)
EXTENDS Integers, Sequences

CONSTANTS Drivers,              \* the script of each driver, see ModuleScripts
          Kind,                 \* of each driver: its files, and what a removal waits for
          Statics,              \* resources that outlive a removal but not the module
          Exclusive,            \* resources that exist once
          Counted,              \* resources whose users the kernel counts
          Known,                \* what is known to go wrong: <<kind, driver, resource>>
          Unnoticed,            \* <<driver, resource>>: the failures nobody looks at that may happen
          Exact                 \* counts are numbers

ASSUME LifeAssumption ==
  /\ Exact \in BOOLEAN
  /\ \A k \in Known : k[1] \in {"kept", "unheld", "gone"} /\ k[2] \in DOMAIN Drivers
  /\ \A u \in Unnoticed : u[1] \in DOMAIN Drivers

VARIABLES
  drv,          \* the driver of this behaviour
  phase, todo,  \* where it is in its life, and the steps that are left
  held,         \* how often each resource is held
  unheld        \* history: resources touched or given back that were not held

vars == <<drv, phase, todo, held, unheld>>

D == Drivers[drv]
Names(d) ==
  UNION { s.res : s \in {Drivers[d].probe[i] : i \in 1..Len(Drivers[d].probe)} }
  \cup UNION { s.res : s \in {Drivers[d].remove[i] : i \in 1..Len(Drivers[d].remove)} }
  \cup UNION { c.on \cup c.needs \cup c.sets : c \in Drivers[d].calls } \cup {"file"}

(* The beep driver may be given its major number as a parameter. *)
Init ==
  /\ drv \in DOMAIN Drivers
  /\ phase = "out" /\ todo = <<>> /\ unheld = {}
  /\ \E given \in SUBSET ({"major"} \cap Names(drv)) :
       held = [r \in Names(drv) |-> IF r \in given THEN 1 ELSE 0]

Has(r) == r \in DOMAIN held /\ held[r] > 0
SetTo(set, n) == [r \in DOMAIN held |-> IF r \in set THEN n ELSE held[r]]
Missing(set) == {r \in set : ~Has(r)}

(* The level of a count, and the levels that many counts have: such a      *)
(* level may stay when one is added or taken away.                         *)
Level(n) == IF n > 1 THEN 2 ELSE IF n < 0 THEN -1 ELSE n
Many == {-1, 2}

Count(set, n) ==
  IF Exact
  THEN held' = [r \in DOMAIN held |-> IF r \in set THEN held[r] + n ELSE held[r]]
  ELSE \E same \in SUBSET {r \in set \cap DOMAIN held : held[r] \in Many} :
         held' = [r \in DOMAIN held |-> IF r \in set \ same THEN Level(held[r] + n) ELSE held[r]]

-----------------------------------------------------------------------------
Probe ==
  /\ phase = "out" /\ phase' = "probe" /\ todo' = D.probe /\ UNCHANGED <<drv, held, unheld>>

(* Platform devices go whatever is open, modules when nothing is. *)
Remove ==
  /\ phase = "in" /\ (Kind[drv].unbinds \/ ~Has("file"))
  /\ phase' = "remove" /\ todo' = D.remove /\ UNCHANGED <<drv, held, unheld>>

(* The last n entries of the undo list. *)
Undo(n) ==
  [i \in 1..n |-> [op |-> "put", res |-> {D.undo[Len(D.undo) - n + i]}, undo |-> 0, unless |-> "never"]]

At(ops) == todo # <<>> /\ Head(todo).op \in ops
Skipped == Has(Head(todo).unless)
Continue == todo' = Tail(todo) /\ UNCHANGED <<drv, phase>>

Acquire ==
  /\ At({"get", "sure", "try"}) /\ ~Skipped
  /\ \A r \in Head(todo).res : r \in Exclusive => ~Has(r)
  /\ Count(Head(todo).res, 1) /\ UNCHANGED unheld /\ Continue

Skip == todo # <<>> /\ Skipped /\ UNCHANGED <<held, unheld>> /\ Continue

FailUnnoticed ==
  /\ At({"try"}) /\ ~Skipped /\ \E r \in Head(todo).res : <<drv, r>> \in Unnoticed \/ (r \in Exclusive /\ Has(r))
  /\ UNCHANGED <<held, unheld>> /\ Continue

Fail ==
  /\ \/ At({"get"})
     \/ At({"check"}) /\ Missing(Head(todo).res) # {}
  /\ phase' = "undo" /\ todo' = Undo(Head(todo).undo)
  /\ UNCHANGED <<drv, held, unheld>>

Pass == At({"check"}) /\ Missing(Head(todo).res) = {} /\ UNCHANGED <<held, unheld>> /\ Continue

Touch ==
  /\ At({"use"}) /\ unheld' = unheld \cup Missing(Head(todo).res) /\ UNCHANGED held /\ Continue

(* A clock's use count goes below zero, and the next enable then leaves    *)
(* the clock off.                                                          *)
GiveBack ==
  /\ At({"put"}) /\ unheld' = unheld \cup Missing(Head(todo).res)
  /\ Count({r \in Head(todo).res : Has(r) \/ r \in Counted}, -1) /\ Continue

Drop ==
  /\ At({"del"}) /\ held' = SetTo(Head(todo).res, 0) /\ UNCHANGED unheld /\ Continue

(* The end of a script.  Unloading a module forgets its static variables.  *)
Done ==
  /\ todo = <<>> /\ phase \in {"probe", "undo", "remove"}
  /\ phase' = IF phase = "probe" THEN "in" ELSE "out"
  /\ held' = IF phase' = "out" /\ ~Kind[drv].unbinds THEN SetTo(Statics, 0) ELSE held
  /\ UNCHANGED <<drv, todo, unheld>>

-----------------------------------------------------------------------------
(* The outside. *)

(* The owner of an open file cannot be unloading. *)
OpenFile ==
  /\ Has(Kind[drv].gate) /\ (Kind[drv].unbinds \/ phase # "remove")
  /\ Count({"file"}, 1) /\ UNCHANGED <<drv, phase, todo, unheld>>

CloseFile ==
  /\ Has("file") /\ Count({"file"}, -1) /\ UNCHANGED <<drv, phase, todo, unheld>>

Comes(c) == \A r \in c.on : Has(r)

(* A call that changes what is held: a timer starts or has expired. *)
Calls ==
  \E c \in D.calls :
    /\ Comes(c) /\ c.sets \cup c.clears # {}
    /\ held' = [r \in DOMAIN held |-> IF r \in c.sets THEN 1 ELSE IF r \in c.clears THEN 0 ELSE held[r]]
    /\ UNCHANGED <<drv, phase, todo, unheld>>

-----------------------------------------------------------------------------
Next == Probe \/ Remove \/ Acquire \/ Skip \/ FailUnnoticed \/ Fail \/ Pass \/ Touch \/ GiveBack
        \/ Drop \/ Done \/ OpenFile \/ CloseFile \/ Calls

Spec == Init /\ [][Next]_vars

-----------------------------------------------------------------------------
(* Properties. *)

(* A driver whose probe failed, at whatever step, or that was removed, has *)
(* given back everything it acquired, each resource as often as it took    *)
(* it; but for the leaks that are known.                                   *)
NothingKept ==
  phase = "out" =>
    \A r \in DOMAIN held \ ({"file"} \cup Statics) :
      held[r] = 0 \/ <<IF held[r] > 0 THEN "kept" ELSE "unheld", drv, r>> \in Known

(* Nothing is touched or given back that is not held; and whenever an      *)
(* interrupt, a timer, a notifier, a worker or a user of an open file may  *)
(* call, what that call works on is held.                                  *)
OnlyHeldUsed ==
  /\ \A r \in unheld : <<"unheld", drv, r>> \in Known
  /\ \A c \in D.calls : Comes(c) =>
       \A r \in Missing(c.needs) : <<"gone", drv, r>> \in Known

=============================================================================
