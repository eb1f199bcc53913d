--------------------------- MODULE TinyTtyProofs ---------------------------
(***************************************************************************)
(* Proofs about the tiny tty driver, for every set of users, every number  *)
(* of opens and every choice of the allocations that may fail.             *)
(*                                                                         *)
(* What open_count counts rests on driver_data, which belongs to the tty   *)
(* and not to the open: an open clears it, and it is back before the next  *)
(* call of the tty core unless the port could not be allocated.  The timer *)
(* then follows open_count, on one processor: there its handler has always *)
(* submitted it again before a close can delete it.                        *)
(***************************************************************************)
EXTENDS TinyTty, FiniteSetTheorems, TLAPS

USE DEF port, files, vars

-----------------------------------------------------------------------------
(* The inductive invariant. *)

(* The core, the tty and the users agree: one user is in tiny_open, the    *)
(* tty lives while it has a user, and whoever has the port open finds the  *)
(* port and, between two calls of the core, driver_data.                   *)
UsersAgree ==
  /\ \A u \in Users : user[u] = "opening" <=> core = u
  /\ tty # 0 <=> \E u \in Users : user[u] # "closed"
  /\ tty <= ttys /\ ttys <= nopen
  /\ \A u \in Users : user[u] = "failed" => "port" \in lost
  /\ core # NONE => table
  /\ openers # {} => table /\ (core = NONE => driver_data)

(* The count, also while somebody is in tiny_open. *)
Counted ==
  /\ open_count <= Cardinality(openers)
  /\ "port" \notin lost => open_count = Cardinality(openers)

(* On one processor the timer is pending or its handler runs, not both,    *)
(* exactly while a port that has one is open; a port whose timer was never *)
(* refused has one, and only with it is one stopped.                       *)
TimerAgrees ==
  /\ armed => tpc = "idle"
  /\ armed \/ tpc # "idle" => timer /\ open_count > 0 /\ loaded
  /\ open_count > 0 /\ timer => armed \/ tpc # "idle"
  /\ open_count > 0 => tty_of = tty
  /\ bug # "double_add"
  /\ "timer" \notin lost =>
       /\ bug = "none"
       /\ open_count > 0 => timer
       /\ table /\ core = NONE => timer

IInv == TypeOK /\ UsersAgree /\ Counted /\ (~Smp => TimerAgrees)

-----------------------------------------------------------------------------
(* The number of openers is a number, and no more than there are users; it *)
(* is zero when there is none.                                             *)
LEMMA OpenersFinite ==
  /\ IsFiniteSet(openers) /\ Cardinality(openers) \in Nat
  /\ Cardinality(openers) <= Cardinality(Users) /\ Cardinality(Users) \in Nat
  /\ Cardinality(openers) = 0 <=> openers = {}
<1>1. openers \in SUBSET Users
  BY DEF openers
<1>2. QED
  BY <1>1, TtyAssumption, FS_Subset, FS_CardinalityType, FS_EmptySet

(* A user more or less among the openers changes their number by one.      *)
LEMMA OneOpenerMore ==
  ASSUME NEW u \in Users, u \notin openers, openers' = openers \cup {u}
  PROVE  Cardinality(openers') = Cardinality(openers) + 1
BY OpenersFinite, FS_AddElement

(* One opener leaves. *)
LEMMA OneOpenerLess ==
  ASSUME NEW u \in Users, openers' = openers \ {u}
  PROVE  Cardinality(openers') = IF u \in openers THEN Cardinality(openers) - 1
                                 ELSE Cardinality(openers)
BY OpenersFinite, FS_RemoveElement

(* A probed module without users has nothing to agree about. *)
LEMMA InitHolds == Init => IInv
<1> SUFFICES ASSUME Init PROVE IInv
  OBVIOUS
<1>1. openers = {}
  BY DEF Init, openers
<1>2. Cardinality(openers) = 0 /\ Cardinality(Users) \in Nat
  BY <1>1, OpenersFinite
<1>3. FlagType
  BY DEF Init, FlagType
<1>4. CountType
  BY <1>2, TtyAssumption DEF Init, CountType
<1>5. ThreadType
  BY DEF Init, ThreadType
<1>6. UsersAgree /\ Counted /\ TimerAgrees
  BY <1>1, <1>2, TtyAssumption DEF Init, UsersAgree, Counted, TimerAgrees
<1>7. QED
  BY <1>3, <1>4, <1>5, <1>6 DEF IInv, TypeOK

(* An open before the mutex changes no count; the first one of a tty finds *)
(* no other user.                                                          *)
LEMMA OpenPortStep == ASSUME NEW u \in Users, IInv, OpenPort(u) PROVE IInv'
<1> USE DEF IInv, TypeOK
<1>1. openers' = openers /\ u \notin openers
  BY DEF ThreadType, OpenPort, openers
<1>2. Cardinality(openers') = Cardinality(openers)
  BY <1>1
<1>3. FlagType'
  BY DEF FlagType, OpenPort
<1>4. CountType'
  BY TtyAssumption DEF CountType, UsersAgree, OpenPort
<1>5. ThreadType'
  BY DEF ThreadType, OpenPort
<1>6. UsersAgree'
  BY <1>1, TtyAssumption DEF CountType, ThreadType, UsersAgree, OpenPort
<1>7. Counted'
  BY <1>2 DEF Counted, OpenPort
<1>8. ASSUME ~Smp PROVE TimerAgrees'
  <2>1. open_count > 0 => tty # 0
    BY OpenersFinite DEF CountType, UsersAgree, Counted, openers
  <2>2. QED
    BY <1>8, <2>1 DEF CountType, ThreadType, UsersAgree, TimerAgrees, OpenPort, Runs
<1>9. QED
  BY <1>3, <1>4, <1>5, <1>6, <1>7, <1>8

(* The counted half of an open makes its user an opener. *)
LEMMA CountOpenStep == ASSUME NEW u \in Users, IInv, CountOpen(u) PROVE IInv'
<1> USE DEF IInv, TypeOK
<1>1. openers' = openers \cup {u} /\ u \notin openers
  BY DEF ThreadType, UsersAgree, CountOpen, openers
<1>2. Cardinality(openers') = Cardinality(openers) + 1
  BY <1>1, OneOpenerMore
<1>3. Cardinality(openers') <= Cardinality(Users)
  <2>1. openers' \in SUBSET Users
    BY <1>1 DEF openers
  <2>2. QED
    BY <2>1, TtyAssumption, FS_Subset
<1>4. FlagType'
  BY DEF FlagType, CountOpen
<1>5. CountType'
  BY <1>2, <1>3, OpenersFinite, TtyAssumption DEF CountType, Counted, CountOpen
<1>6. ThreadType'
  BY DEF ThreadType, CountOpen
<1>7. UsersAgree'
  BY <1>1, TtyAssumption DEF CountType, ThreadType, UsersAgree, CountOpen
<1>8. Counted'
  BY <1>2, OpenersFinite DEF CountType, Counted, CountOpen
<1>9. ASSUME ~Smp PROVE TimerAgrees'
  BY <1>9 DEF CountType, ThreadType, UsersAgree, TimerAgrees, CountOpen, Runs
<1>10. QED
  BY <1>4, <1>5, <1>6, <1>7, <1>8, <1>9

(* A close takes at most one from the count, and from a count that holds   *)
(* its user exactly one: driver_data is there then.  The last one finds    *)
(* the timer pending, or its handler would still be running.               *)
LEMMA CloseStep == ASSUME NEW u \in Users, IInv, Close(u) PROVE IInv'
<1> USE DEF IInv, TypeOK
<1>1. openers' = openers \ {u} /\ core = NONE /\ core' = NONE
  BY DEF ThreadType, Close, openers
<1>2. Cardinality(openers') =
        IF u \in openers THEN Cardinality(openers) - 1 ELSE Cardinality(openers)
  BY <1>1, OneOpenerLess
<1>3. u \in openers => driver_data /\ Cardinality(openers) > 0
  BY <1>1, OpenersFinite DEF UsersAgree
<1>4. user[u] = "failed" <=> u \notin openers
  BY DEF Close, openers
<1>5. open_count' = open_count \/ (open_count > 0 /\ open_count' = open_count - 1)
  BY DEF Close, do_close, CountType
<1>6. FlagType'
  BY DEF FlagType, Close, do_close, del_timer
<1>7. CountType'
  BY <1>5, OpenersFinite, TtyAssumption DEF CountType, Close
<1>8. ThreadType'
  BY DEF ThreadType, Close, do_close, del_timer
<1>9. UsersAgree'
  <2>1. \A v \in Users : user'[v] = "opening" <=> core' = v
    BY <1>1, TtyAssumption DEF ThreadType, UsersAgree, Close
  <2>2. tty' # 0 <=> \E v \in Users : user'[v] # "closed"
    BY DEF ThreadType, UsersAgree, Close
  <2>3. tty' <= ttys' /\ ttys' <= nopen'
    BY DEF CountType, UsersAgree, Close
  <2>4. \A v \in Users : user'[v] = "failed" => "port" \in lost'
    BY DEF ThreadType, UsersAgree, Close
  <2>5. openers' # {} => table' /\ driver_data'
    BY <1>1 DEF ThreadType, UsersAgree, Close, openers
  <2>6. QED
    BY <1>1, <2>1, <2>2, <2>3, <2>4, <2>5 DEF UsersAgree
<1>10. Counted'
  <2>1. CASE u \in openers
    <3>1. open_count > 0 => open_count' = open_count - 1
      BY <1>3, <2>1 DEF Close, do_close, CountType
    <3>2. QED
      BY <1>2, <1>3, <1>5, <2>1, <3>1, OpenersFinite DEF Counted, CountType, Close
  <2>2. CASE u \notin openers
    <3>1. "port" \in lost'
      BY <1>4, <2>2 DEF UsersAgree, Close
    <3>2. QED
      BY <1>2, <1>5, <2>2, <3>1, OpenersFinite DEF Counted, CountType
  <2>3. QED
    BY <2>1, <2>2
<1>11. ASSUME ~Smp PROVE TimerAgrees'
  <2>1. tpc = "idle" /\ loaded /\ tpc' = "idle" /\ loaded' /\ timer' = timer /\ lost' = lost
        /\ table' = table /\ tty_of' = tty_of /\ bug = "none"
    BY <1>11 DEF Close, Runs
  <2>2. open_count' > 0 => tty' = tty
    <3> SUFFICES ASSUME open_count' > 0 PROVE tty' = tty
      OBVIOUS
    <3>1. Cardinality(openers') > 0
      BY <1>2, <1>7, <1>10, OpenersFinite DEF Counted, CountType
    <3>2. PICK v \in openers \ {u} : TRUE
      BY <1>1, <3>1, FS_EmptySet
    <3>3. v \in Users \ {u} /\ user[v] # "closed"
      BY <3>2 DEF openers
    <3>4. QED
      BY <3>3 DEF Close
  <2>3. \/ open_count' = open_count /\ armed' = armed /\ bug' = bug
        \/ open_count' > 0 /\ open_count' = open_count - 1 /\ armed' = armed /\ bug' = bug
        \/ open_count = 1 /\ open_count' = 0 /\ timer /\ ~armed' /\ bug' = bug
        \/ open_count = 1 /\ open_count' = 0 /\ ~timer /\ armed' = armed /\ bug' = "null_timer"
    BY DEF Close, do_close, del_timer, CountType
  <2>4. QED
    BY <1>1, <1>11, <2>1, <2>2, <2>3 DEF TimerAgrees, CountType
<1>12. QED
  BY <1>6, <1>7, <1>8, <1>9, <1>10, <1>11

(* The timer's handler touches nothing the users look at. *)
LEMMA TimerStep == ASSUME IInv, Timer PROVE IInv'
<1> USE DEF IInv, TypeOK, Timer, TimerExpires, TimerInsert, TimerRearm
<1>1. openers' = openers
  BY DEF openers
<1>2. FlagType'
  BY DEF FlagType
<1>3. CountType' /\ UsersAgree' /\ Counted'
  BY <1>1 DEF CountType, UsersAgree, Counted
<1>4. ThreadType'
  BY DEF ThreadType
<1>5. ASSUME ~Smp PROVE TimerAgrees'
  BY <1>5 DEF TimerAgrees
<1>6. QED
  BY <1>2, <1>3, <1>4, <1>5

(* With all users gone the count is zero, and the unloaded module leaves   *)
(* no timer.                                                               *)
LEMMA ExitStep == ASSUME IInv, Exit PROVE IInv'
<1> USE DEF IInv, TypeOK
<1>1. openers = {} /\ openers' = {}
  BY DEF Exit, openers
<1>2. open_count = 0 /\ open_count' = 0 /\ Cardinality(openers') = 0
  BY <1>1, OpenersFinite, FS_EmptySet DEF Counted, CountType, Exit
<1>3. FlagType'
  BY DEF FlagType, Exit, del_timer
<1>4. CountType'
  BY <1>2 DEF CountType, Exit
<1>5. ThreadType'
  BY DEF ThreadType, Exit, del_timer
<1>6. core = NONE /\ core' = NONE
  BY DEF ThreadType, UsersAgree, Exit
<1>7. UsersAgree'
  BY <1>1, <1>6 DEF UsersAgree, Exit
<1>8. Counted'
  BY <1>2 DEF Counted
<1>9. ASSUME ~Smp PROVE TimerAgrees'
  BY <1>2, <1>6, <1>9 DEF TimerAgrees, CountType, Exit, Runs, del_timer
<1>10. QED
  BY <1>3, <1>4, <1>5, <1>7, <1>8, <1>9

(* Every step keeps the invariant. *)
LEMMA NextStep == ASSUME IInv, [Next]_vars PROVE IInv'
<1>1. ASSUME NEW u \in Users, OpenPort(u) PROVE IInv'
  BY <1>1, OpenPortStep
<1>2. ASSUME NEW u \in Users, CountOpen(u) PROVE IInv'
  BY <1>2, CountOpenStep
<1>3. ASSUME NEW u \in Users, Close(u) PROVE IInv'
  BY <1>3, CloseStep
<1>4. CASE Timer
  BY <1>4, TimerStep
<1>5. CASE Exit
  BY <1>5, ExitStep
<1>6. CASE UNCHANGED vars
  BY <1>6 DEF IInv, TypeOK, FlagType, CountType, ThreadType, UsersAgree, Counted,
              TimerAgrees, openers
<1>7. QED
  BY <1>1, <1>2, <1>3, <1>4, <1>5, <1>6 DEF Next

-----------------------------------------------------------------------------
(* The theorems. *)

(* The invariant holds in every state of every behaviour. *)
THEOREM Invariance == Spec => []IInv
<1>1. Init => IInv
  BY InitHolds
<1>2. IInv /\ [Next]_vars => IInv'
  BY NextStep
<1>3. QED
  BY <1>1, <1>2, PTL DEF Spec

(* open_count counts the users that have the port open (tiny_open,         *)
(* tiny_close), on one processor or several, unless an open has failed to  *)
(* allocate the port; then it never counts too many.                       *)
THEOREM OpenersCounted == Spec => []CountsOpeners
<1>1. IInv => CountsOpeners
  BY DEF IInv, UsersAgree, Counted, CountsOpeners, openers
<1>2. QED
  BY <1>1, Invariance, PTL

(* On one processor the timer, once it exists, runs exactly while the port *)
(* is open and is never submitted twice; it is missing only after it could *)
(* not be allocated.                                                       *)
THEOREM TimerFollowsCount == Spec => [](~Smp => TimerMatchesCount)
<1>1. IInv => (~Smp => TimerMatchesCount)
  BY DEF IInv, TypeOK, CountType, TimerAgrees, TimerMatchesCount
<1>2. QED
  BY <1>1, Invariance, PTL

(* On one processor the timer's handler never works on a tty_struct that   *)
(* was freed, nor after the module is gone.                                *)
THEOREM TimerNeedsTty == Spec => [](~Smp => TimerOnLiveTty)
<1>1. IInv => (~Smp => TimerOnLiveTty)
  <2> SUFFICES ASSUME IInv, ~Smp, armed \/ tpc # "idle"
               PROVE  loaded /\ tty # 0 /\ tty_of = tty
    BY DEF TimerOnLiveTty
  <2>1. open_count > 0 /\ loaded /\ tty_of = tty
    BY DEF IInv, TimerAgrees
  <2>2. openers # {}
    BY <2>1, OpenersFinite DEF IInv, TypeOK, CountType, Counted
  <2>3. QED
    BY <2>1, <2>2 DEF IInv, UsersAgree, openers
<1>2. QED
  BY <1>1, Invariance, PTL

=============================================================================
