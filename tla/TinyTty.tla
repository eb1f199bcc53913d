------------------------------ MODULE TinyTty ------------------------------
(***************************************************************************)
(* One port of the tiny tty driver (my_linux_driver_codes/tty/tiny_tty.c). *)
(*                                                                         *)
(* Users open and close the port and use it in between; the tty core       *)
(* (external) serialises opens and closes, shares one tty_struct among     *)
(* them from the first open to the last close, and releases a file whose   *)
(* open failed.  A timer plays the receiving hardware.  A section of the   *)
(* code under tiny->mutex is one step.  With Smp the timer's handler may   *)
(* run beside the users; without it a softirq runs to its end.             *)
(***************************************************************************)
EXTENDS Integers, FiniteSets

CONSTANTS NONE,       \* no user
          Users,      \* who opens the port
          Smp,        \* the handler may run beside the users
          Fails,      \* the allocations that may fail
          MaxOpen     \* bound: calls of tiny_open

ASSUME TtyAssumption ==
  /\ IsFiniteSet(Users) /\ NONE \notin Users /\ Smp \in BOOLEAN
  /\ Fails \subseteq {"port", "timer"}
  /\ MaxOpen \in Nat

VARIABLES
  table,               \* tiny_table[index] is not NULL
  tty_of, open_count,  \* tiny->tty and tiny->open_count
  timer, armed,        \* tiny->timer is allocated; it is pending
  tty, driver_data,    \* the tty_struct (0: none), whether it has driver_data
  core, user,          \* who is in tiny_open; where each user is
  tpc,                 \* the handler of the timer
  loaded,              \* the module is loaded
  lost, bug,           \* observations: the allocations that failed; what stopped the kernel
  ttys, nopen          \* tty_structs so far; calls of tiny_open so far

port  == <<table, tty_of, open_count, timer, armed>>
files == <<tty, driver_data, core, user, ttys, nopen>>
vars  == <<port, files, tpc, loaded, lost, bug>>

Init ==
  /\ table = FALSE /\ tty_of = 0 /\ open_count = 0 /\ timer = FALSE /\ armed = FALSE
  /\ tty = 0 /\ driver_data = FALSE
  /\ core = NONE /\ user = [u \in Users |-> "closed"]
  /\ tpc = "idle" /\ loaded = TRUE /\ lost = {} /\ bug = "none" /\ ttys = 0 /\ nopen = 0

(* A user takes a step: not above a softirq of one processor, and not      *)
(* after the kernel has stopped.                                           *)
Runs == loaded /\ bug = "none" /\ (Smp \/ tpc = "idle")

-----------------------------------------------------------------------------
(* tiny_open up to the mutex: driver_data is cleared, and the first open   *)
(* allocates the port.                                                     *)
OpenPort(u) ==
  /\ Runs /\ core = NONE /\ user[u] = "closed" /\ nopen < MaxOpen
  /\ nopen' = nopen + 1 /\ driver_data' = FALSE
  /\ ttys' = IF tty = 0 THEN ttys + 1 ELSE ttys
  /\ tty' = IF tty = 0 THEN ttys + 1 ELSE tty
  /\ \/ /\ table /\ core' = u /\ user' = [user EXCEPT ![u] = "opening"]
        /\ UNCHANGED <<table, tty_of, lost>>
     \/ /\ ~table /\ core' = u /\ user' = [user EXCEPT ![u] = "opening"]
        /\ table' = TRUE /\ tty_of' = tty' /\ UNCHANGED lost
     \/ /\ ~table /\ "port" \in Fails /\ lost' = lost \cup {"port"}
        /\ user' = [user EXCEPT ![u] = "failed"]
        /\ UNCHANGED <<table, tty_of, core>>
  /\ UNCHANGED <<open_count, timer, armed, tpc, loaded, bug>>

(* Mutant: every open submits the timer.                                   *)
CountOpenArms(u) ==
  /\ Runs /\ core = u /\ core' = NONE
  /\ driver_data' = TRUE /\ tty_of' = tty /\ open_count' = open_count + 1
  /\ user' = [user EXCEPT ![u] = "open"]
  /\ timer' = TRUE /\ armed' = TRUE /\ bug' = IF armed THEN "double_add" ELSE bug
  /\ UNCHANGED <<table, tty, ttys, nopen, tpc, loaded, lost>>

(* The rest of tiny_open, under the mutex: the first open allocates the    *)
(* timer, unless an earlier one has, and submits it.                       *)
CountOpen(u) ==
  /\ Runs /\ core = u /\ core' = NONE
  /\ driver_data' = TRUE /\ tty_of' = tty /\ open_count' = open_count + 1
  /\ \/ /\ open_count' # 1 /\ user' = [user EXCEPT ![u] = "open"]
        /\ UNCHANGED <<timer, armed, bug, lost>>
     \/ /\ open_count' = 1 /\ user' = [user EXCEPT ![u] = "open"]
        /\ timer' = TRUE /\ armed' = TRUE
        /\ bug' = IF armed THEN "double_add" ELSE bug
        /\ UNCHANGED lost
     \/ /\ open_count' = 1 /\ ~timer /\ "timer" \in Fails /\ lost' = lost \cup {"timer"}
        /\ user' = [user EXCEPT ![u] = "counted"]
        /\ UNCHANGED <<timer, armed, bug>>
  /\ UNCHANGED <<table, tty, ttys, nopen, tpc, loaded>>

-----------------------------------------------------------------------------
(* del_timer (external) of tiny->timer. *)
del_timer ==
  IF timer THEN armed' = FALSE /\ UNCHANGED bug ELSE bug' = "null_timer" /\ UNCHANGED armed

(* Mutants: any close counts as the last; the timer is never stopped.      *)
do_close_all ==
  IF open_count = 0 THEN UNCHANGED <<open_count, armed, bug>> ELSE open_count' = 0 /\ del_timer
do_close_keeps ==
  open_count' = (IF open_count = 0 THEN 0 ELSE open_count - 1) /\ UNCHANGED <<armed, bug>>

(* The last close stops the timer. *)
do_close ==
  IF open_count = 0 THEN UNCHANGED <<open_count, armed, bug>>
  ELSE /\ open_count' = open_count - 1
       /\ IF open_count' = 0 THEN del_timer ELSE UNCHANGED <<armed, bug>>

(* tiny_close; the core calls it for a failed open too, and frees the tty  *)
(* with its last user.                                                     *)
Close(u) ==
  /\ Runs /\ core = NONE /\ user[u] \in {"open", "failed", "counted"}
  /\ IF driver_data THEN do_close ELSE UNCHANGED <<open_count, armed, bug>>
  /\ user' = [user EXCEPT ![u] = "closed"]
  /\ LET left == \E v \in Users \ {u} : user[v] # "closed" IN
       /\ tty' = IF left THEN tty ELSE 0
       /\ driver_data' = (driver_data /\ left)
  /\ UNCHANGED <<table, tty_of, timer, tpc, core, ttys, nopen, loaded, lost>>

-----------------------------------------------------------------------------
(* The timer has expired. *)
TimerExpires ==
  /\ loaded /\ bug = "none" /\ armed /\ tpc = "idle"
  /\ armed' = FALSE /\ tpc' = "insert"
  /\ UNCHANGED <<table, tty_of, open_count, timer, files, loaded, lost, bug>>

(* tiny_timer inserts a character into tiny->tty ... *)
TimerInsert ==
  /\ bug = "none" /\ tpc = "insert" /\ tpc' = "rearm"
  /\ UNCHANGED <<port, files, loaded, lost, bug>>

(* Mutant: the timer is not submitted again. *)
TimerOnce ==
  /\ bug = "none" /\ tpc = "rearm" /\ tpc' = "idle"
  /\ UNCHANGED <<port, files, loaded, lost, bug>>

(* ... and submits the timer again. *)
TimerRearm ==
  /\ bug = "none" /\ tpc = "rearm" /\ tpc' = "idle"
  /\ armed' = TRUE /\ bug' = IF armed THEN "double_add" ELSE bug
  /\ UNCHANGED <<table, tty_of, open_count, timer, files, loaded, lost>>

(* tiny_exit: no file is open, so open_count is 0 unless a close was       *)
(* missed; the timer is stopped and the port is freed.                     *)
Exit ==
  /\ Runs /\ \A u \in Users : user[u] = "closed"
  /\ loaded' = FALSE
  /\ IF table THEN del_timer ELSE UNCHANGED <<armed, bug>>
  /\ table' = FALSE /\ open_count' = 0 /\ timer' = FALSE
  /\ UNCHANGED <<tty_of, files, tpc, lost>>

-----------------------------------------------------------------------------
Timer == TimerExpires \/ TimerInsert \/ TimerRearm

Next ==
  \/ \E u \in Users : OpenPort(u) \/ CountOpen(u) \/ Close(u)
  \/ Timer \/ Exit

(* Timers expire and their handlers run; users do what they like. *)
Spec == Init /\ [][Next]_vars /\ WF_vars(Timer)

-----------------------------------------------------------------------------
(* Properties. *)

(* Every variable holds a value of its type; open_count never exceeds the  *)
(* number of users, however they open and close.                           *)
FlagType ==
  /\ table \in BOOLEAN /\ timer \in BOOLEAN /\ armed \in BOOLEAN
  /\ driver_data \in BOOLEAN /\ loaded \in BOOLEAN
CountType ==
  /\ open_count \in 0..Cardinality(Users)
  /\ tty_of \in 0..MaxOpen /\ tty \in 0..MaxOpen /\ ttys \in 0..MaxOpen /\ nopen \in 0..MaxOpen
ThreadType ==
  /\ core \in Users \cup {NONE}
  /\ user \in [Users -> {"closed", "opening", "open", "failed", "counted"}]
  /\ tpc \in {"idle", "insert", "rearm"}
  /\ lost \subseteq Fails /\ bug \in {"none", "double_add", "null_timer"}

TypeOK == FlagType /\ CountType /\ ThreadType

openers == {u \in Users : user[u] \in {"open", "counted"}}

(* open_count counts the users that have opened the port, also while       *)
(* another is in tiny_open, unless the port could not be allocated for     *)
(* someone: it may then count too few, but never too many.                 *)
CountsOpeners ==
  loaded =>
    /\ open_count <= Cardinality(openers)
    /\ "port" \notin lost => open_count = Cardinality(openers)

(* The release of a failed open leaves the count of the others alone: the  *)
(* comment in tiny_open has driver_data cleared "in case something fails". *)
FailedOpensUncounted == core = NONE /\ loaded => open_count = Cardinality(openers)

(* A user that has the port open finds driver_data when it calls           *)
(* tiny_write, tiny_tiocmget or tiny_tiocmset: not so while another is     *)
(* between the first lines of tiny_open and its mutex.                     *)
DataWhileOpen == loaded => ((\E u \in Users : user[u] = "open") => driver_data)

(* An open port has a timer unless one could not be allocated, and the     *)
(* timer is pending or running exactly while the port that has one is      *)
(* open.  A pending timer is never submitted.                              *)
TimerMatchesCount ==
  /\ bug # "double_add"
  /\ open_count > 0 /\ "timer" \notin lost => timer
  /\ open_count > 0 /\ timer <=> armed \/ tpc # "idle"

(* No close stops a timer that the port does not have: not so after the    *)
(* timer could not be allocated, when the last close, be it the release of *)
(* the failed open itself, calls del_timer with NULL.                      *)
NoNullTimer == bug # "null_timer"

(* The handler of the timer works on the tty_struct of the port's users    *)
(* and on a port that exists, never on one that was closed and freed.      *)
TimerOnLiveTty == armed \/ tpc # "idle" => loaded /\ tty # 0 /\ tty_of = tty

(* As long as the port is open its users are fed characters. *)
FeedsWhileOpen == []<>(lost # {} \/ open_count = 0 \/ tpc = "insert")

=============================================================================
