----------------------------- MODULE TinySerial -----------------------------
(***************************************************************************)
(* The serial port without hardware of                                     *)
(* my_linux_driver_codes/serial/tiny_serial.c: a timer feeds the terminal  *)
(* and takes the output the serial core has put into a circular buffer,    *)
(* and start_tx takes it as well.                                          *)
(*                                                                         *)
(* The task is the serial core (external) and what it calls.  The timer's  *)
(* handler interrupts it, save where it holds port->lock with interrupts   *)
(* off; on several processors it runs beside it.  Characters are numbered  *)
(* as they are written.                                                    *)
(***************************************************************************)
EXTENDS Integers, Sequences

CONSTANTS Smp,                \* the handler runs on another processor
          MayFail,            \* kmalloc may fail
          XmitSize, FifoSize, \* UART_XMIT_SIZE, port->fifosize
          MaxWrite, MaxOpen   \* bounds: characters written, opens

ASSUME SerialAssumption ==
  /\ Smp \in BOOLEAN /\ MayFail \in BOOLEAN
  /\ XmitSize \in Nat \ {0} /\ FifoSize \in Nat \ {0} /\ {MaxWrite, MaxOpen} \subseteq Nat

VARIABLES
  task,              \* where the core is
  tty, stopped,      \* the port has a terminal; it is stopped
  head, tail, buf,   \* state->xmit
  x_char,            \* port->x_char is set
  timer,             \* no memory for it yet, or how often it is queued
  tpc, left,         \* the handler's place, and its count of characters
  at,                \* the tail each thread has read
  owed,              \* history: characters written and neither taken nor flushed
  strays,            \* history: characters taken that were not the next one
  written, opens     \* bounds

core == <<task, tty, stopped, written, opens>>
ring == <<head, tail, buf, at, owed, strays>>
vars == <<core, ring, x_char, timer, tpc, left>>

None == -1

Init ==
  /\ task = "closed" /\ tty = FALSE /\ stopped = FALSE /\ written = 0 /\ opens = 0
  /\ head = 0 /\ tail = 0 /\ buf = [i \in 0..XmitSize - 1 |-> 0]
  /\ at = [t \in {"task", "timer"} |-> 0] /\ owed = <<>> /\ strays = 0
  /\ x_char = FALSE /\ timer = None /\ tpc = "idle" /\ left = 0

Empty == head = tail
TaskAt(s) == task = s /\ (Smp \/ tpc = "idle")
Locked == task \in {"drain", "store"}

-----------------------------------------------------------------------------
(* The buffer: a thread reads the tail, and then stores the next. *)

Read(t) == at' = [at EXCEPT ![t] = tail] /\ UNCHANGED <<head, tail, buf, owed, strays>>

(* Mutant: the last place of the buffer is left out. *)
StoreShort(t) ==
  /\ tail' = IF at[t] + 1 >= XmitSize - 1 THEN 0 ELSE at[t] + 1
  /\ IF owed # <<>> /\ buf[at[t]] = Head(owed) THEN owed' = Tail(owed) /\ UNCHANGED strays
     ELSE strays' = 1 /\ UNCHANGED owed
  /\ UNCHANGED <<head, buf, at>>

Store(t) ==
  /\ tail' = (at[t] + 1) % XmitSize
  /\ IF owed # <<>> /\ buf[at[t]] = Head(owed) THEN owed' = Tail(owed) /\ UNCHANGED strays
     ELSE strays' = 1 /\ UNCHANGED owed
  /\ UNCHANGED <<head, buf, at>>

(* uart_circ_clear (external). *)
Clear == head' = 0 /\ tail' = 0 /\ owed' = <<>> /\ UNCHANGED <<buf, at, strays>>

-----------------------------------------------------------------------------
(* The life of the port. *)

Open ==
  /\ TaskAt("closed") /\ opens < MaxOpen /\ opens' = opens + 1 /\ tty' = TRUE /\ task' = "startup"
  /\ UNCHANGED <<stopped, written, ring, x_char, timer, tpc, left>>

add_timer == timer' = IF timer = None THEN 1 ELSE timer + 1

Startup ==
  /\ TaskAt("startup") /\ Clear
  /\ \/ add_timer /\ task' = "open"
     \/ timer = None /\ MayFail /\ task' = "failed" /\ UNCHANGED timer
  /\ UNCHANGED <<tty, stopped, written, opens, x_char, tpc, left>>

(* A close or a hangup; a port that failed to start is not shut down. *)
Close ==
  /\ \/ TaskAt("open") /\ task' = "shutdown"
     \/ TaskAt("failed") /\ task' = "leave"
  /\ UNCHANGED <<tty, stopped, written, opens, ring, x_char, timer, tpc, left>>

(* Mutant: the timer is left to find that there is no terminal. *)
ShutdownKeeps ==
  /\ TaskAt("shutdown") /\ task' = "leave" /\ UNCHANGED timer
  /\ UNCHANGED <<tty, stopped, written, opens, ring, x_char, tpc, left>>

(* del_timer takes the timer from its queue and waits for nobody. *)
Shutdown ==
  /\ TaskAt("shutdown") /\ task' = "leave" /\ timer' = 0
  /\ UNCHANGED <<tty, stopped, written, opens, ring, x_char, tpc, left>>

Leave ==
  /\ TaskAt("leave") /\ task' = "closed" /\ tty' = FALSE /\ stopped' = FALSE /\ Clear
  /\ UNCHANGED <<written, opens, x_char, timer, tpc, left>>

Exit ==
  /\ TaskAt("closed") /\ task' = "gone"
  /\ UNCHANGED <<tty, stopped, written, opens, ring, x_char, timer, tpc, left>>

-----------------------------------------------------------------------------
(* The core writes, and calls start_tx in a critical section of its own    *)
(* unless the terminal is stopped.                                         *)

Write ==
  /\ TaskAt("open") /\ written < MaxWrite /\ (head + 1) % XmitSize # tail
  /\ written' = written + 1 /\ owed' = Append(owed, written')
  /\ buf' = [buf EXCEPT ![head] = written'] /\ head' = (head + 1) % XmitSize
  /\ task' = "start"
  /\ UNCHANGED <<tty, stopped, opens, tail, at, strays, x_char, timer, tpc, left>>

SendXchar ==
  /\ TaskAt("open") /\ ~x_char /\ x_char' = TRUE /\ task' = "drain"
  /\ UNCHANGED <<tty, stopped, written, opens, ring, timer, tpc, left>>

StopTty ==
  /\ TaskAt("open") /\ stopped' = ~stopped /\ task' = IF stopped THEN "start" ELSE "open"
  /\ UNCHANGED <<tty, written, opens, ring, x_char, timer, tpc, left>>

FlushBuffer ==
  /\ TaskAt("open") /\ Clear /\ UNCHANGED <<core, x_char, timer, tpc, left>>

Start ==
  /\ TaskAt("start") /\ task' = IF stopped \/ Empty THEN "open" ELSE "drain"
  /\ UNCHANGED <<tty, stopped, written, opens, ring, x_char, timer, tpc, left>>

(* start_tx *)
Drain ==
  /\ TaskAt("drain")
  /\ IF Empty THEN task' = "open" /\ UNCHANGED ring ELSE task' = "store" /\ Read("task")
  /\ UNCHANGED <<tty, stopped, written, opens, x_char, timer, tpc, left>>

(* Mutant: the character is taken and the tail stays. *)
DrainStoreKeeps ==
  /\ TaskAt("store") /\ task' = "drain"
  /\ UNCHANGED <<ring, tty, stopped, written, opens, x_char, timer, tpc, left>>

DrainStore ==
  /\ TaskAt("store") /\ Store("task") /\ task' = "drain"
  /\ UNCHANGED <<tty, stopped, written, opens, x_char, timer, tpc, left>>

-----------------------------------------------------------------------------
(* The timer. *)

Expire ==
  /\ timer > 0 /\ tpc = "idle" /\ (Smp \/ ~Locked) /\ timer' = timer - 1 /\ tpc' = "feed"
  /\ UNCHANGED <<core, ring, x_char, left>>

(* Without a terminal the timer is given up, else the terminal is fed. *)
Feed ==
  /\ tpc = "feed" /\ tpc' = IF tty THEN "arm" ELSE "idle"
  /\ UNCHANGED <<core, ring, x_char, timer, left>>

(* Mutant: the timer is queued again only when there is output. *)
ArmForOutput ==
  /\ tpc = "arm" /\ tpc' = "tx" /\ IF Empty THEN UNCHANGED timer ELSE add_timer
  /\ UNCHANGED <<core, ring, x_char, left>>

Arm ==
  /\ tpc = "arm" /\ tpc' = "tx" /\ add_timer
  /\ UNCHANGED <<core, ring, x_char, left>>

(* tx_chars: a control character goes alone. *)
TxChars ==
  /\ tpc = "tx" /\ x_char' = FALSE /\ left' = FifoSize
  /\ tpc' = IF x_char \/ Empty \/ stopped THEN "idle" ELSE "read"
  /\ UNCHANGED <<core, ring, timer>>

TxRead == tpc = "read" /\ Read("timer") /\ tpc' = "store" /\ UNCHANGED <<core, x_char, timer, left>>

TxStore ==
  /\ tpc = "store" /\ Store("timer") /\ left' = left - 1
  /\ tpc' = IF head = tail' \/ left' = 0 THEN "idle" ELSE "read"
  /\ UNCHANGED <<core, x_char, timer>>

-----------------------------------------------------------------------------
Core == Open \/ Close \/ Exit \/ Write \/ SendXchar \/ StopTty \/ FlushBuffer
Task == Startup \/ Shutdown \/ Leave \/ Start \/ Drain \/ DrainStore
Timer == Expire \/ Feed \/ Arm \/ TxChars \/ TxRead \/ TxStore
Next == Core \/ Task \/ Timer

(* A queued timer expires, and handlers and calls run to their end. *)
Spec == Init /\ [][Next]_vars /\ WF_vars(Timer) /\ WF_vars(Task)

-----------------------------------------------------------------------------
(* Properties. *)

(* Whoever takes the output, each character is taken once and in order:    *)
(* the buffer holds exactly what is still owed.                            *)
TakenInOrder ==
  /\ strays = 0
  /\ tpc # "store" /\ task # "store" =>
       owed = [i \in 1..(head - tail) % XmitSize |-> buf[(tail + i - 1) % XmitSize]]

(* The timer runs exactly while the port is started: it is never queued    *)
(* twice, not given up by an expiry that finds no terminal, and not queued *)
(* when the port is closed or the module gone.                             *)
TimerWhileOpen ==
  /\ timer <= 1
  /\ task \in {"open", "start", "drain", "store"} => timer = 1 \/ tpc \in {"feed", "arm"}
  /\ task \in {"closed", "gone"} => timer < 1 /\ tpc = "idle"

(* Written output is taken, by start_tx or the timer, or flushed, unless   *)
(* the terminal is stopped; a control character also when it is.           *)
OutputTaken ==
  /\ (owed # <<>> /\ ~stopped) ~> (owed = <<>> \/ stopped)
  /\ (task = "open" /\ x_char) ~> (~x_char \/ task = "shutdown")

=============================================================================
