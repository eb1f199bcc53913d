------------------------------ MODULE S3cUart ------------------------------
(***************************************************************************)
(* One port of the S3C24xx UART driver (linux_driver/tty/s3c2410.c), on    *)
(* the one processor these chips have.                                     *)
(*                                                                         *)
(* The task is the serial core (external): it opens, writes to, stops,     *)
(* closes, suspends and resumes the port.  What it calls with port->lock   *)
(* held runs with interrupts off and is one step; startup and shutdown run *)
(* without the lock.  The two interrupts have handlers of their own, which *)
(* were requested without IRQF_DISABLED: each may interrupt the other.     *)
(* The stack says who is at work; the task runs when it is empty.          *)
(***************************************************************************)
EXTENDS S3cUartClock, SequencesExt

CONSTANTS Flows,        \* the values of UPF_CONS_FLOW boards pass
          LowLatency,   \* UPF_LOW_LATENCY: a push runs the line discipline, which may echo
          SuspendClosed,\* a port that is not open is suspended as well
          Fails,        \* the interrupts whose request may fail
          XmitSize, FifoSize,                       \* of the buffer and the FIFOs
          MaxWrite, MaxRx, MaxOpen, MaxSuspend, MaxTermios  \* bounds

ASSUME UartAssumption ==
  /\ Flows \subseteq BOOLEAN /\ LowLatency \in BOOLEAN /\ SuspendClosed \in BOOLEAN
  /\ Fails \subseteq {"tx", "rx"}
  /\ XmitSize \in Nat \ {0} /\ FifoSize \in Nat \ {0}
  /\ {MaxWrite, MaxRx, MaxOpen, MaxSuspend, MaxTermios} \subseteq Nat

VARIABLES
  p,                 \* the port: flags, interrupts, receiver and FIFOs
  cons_flow,         \* port->flags & UPF_CONS_FLOW
  xmit, x_char,      \* characters in the buffer; a control character waits
  stopped,           \* the terminal is stopped
  task, goal,        \* where the core is, and the state it makes for
  stack, txpc, rxpc, \* the handlers at work, innermost last, and their places
  txe,               \* local of rx_chars: the transmitter was empty
  inserted,          \* characters are inserted and not pushed
  count              \* bounds: how often each bounded step was taken

life == <<cons_flow, task, goal, count>>
out  == <<xmit, x_char, stopped>>
rx   == <<rxpc, txe, inserted>>
vars == <<p, life, out, stack, txpc, rx, clock>>

(* irq is -1 without a handler, else the depth of disable_irq.  rxmode is  *)
(* the receiver's mode in UCON.                                            *)
Port == [tx_enabled : BOOLEAN, rx_enabled : BOOLEAN, tx_claimed : BOOLEAN, rx_claimed : BOOLEAN,
         irq : [{"tx", "rx"} -> -1..2], rxmode : BOOLEAN, fifo : 0..FifoSize + 1, rxfifo : 0..FifoSize]

(* Probed: init_port has copied the flag and reset the port.               *)
Init ==
  /\ p = [tx_enabled |-> FALSE, rx_enabled |-> FALSE, tx_claimed |-> FALSE, rx_claimed |-> FALSE,
          irq |-> [l \in {"tx", "rx"} |-> -1], rxmode |-> TRUE, fifo |-> 0, rxfifo |-> 0]
  /\ cons_flow \in Flows
  /\ xmit = 0 /\ x_char = FALSE /\ stopped = FALSE
  /\ task = "closed" /\ goal = "closed"
  /\ stack = <<>> /\ txpc = "idle" /\ rxpc = "idle" /\ txe = FALSE /\ inserted = FALSE
  /\ count = [k \in {"write", "rx", "open", "suspend", "termios"} |-> 0]
  /\ ClockInit

Counts(k, max) == count[k] < max /\ count' = [count EXCEPT ![k] = @ + 1]

-----------------------------------------------------------------------------
(* The operations on the port, as functions from port to port. *)

disable_irq(q, l) == [q EXCEPT !.irq[l] = IF @ >= 0 THEN @ + 1 ELSE @]
enable_irq(q, l)  == [q EXCEPT !.irq[l] = IF @ > 0 THEN @ - 1 ELSE @]

(* Mutant: only the flag says that the receiver is on again. *)
rx_enable_flag(q, left) == [q EXCEPT !.fifo = left, !.rxfifo = 0, !.rx_enabled = TRUE]

(* The receiver is turned on once the transmitter is empty, or after one   *)
(* second with what is left.                                               *)
rx_enable(q, left) ==
  [q EXCEPT !.fifo = left, !.rxfifo = 0, !.rxmode = TRUE, !.rx_enabled = TRUE]
rx_disable(q) == [q EXCEPT !.rxmode = FALSE, !.rx_enabled = FALSE]

stop_tx(q, left) ==
  LET off == [disable_irq(q, "tx") EXCEPT !.tx_enabled = FALSE] IN
  IF ~q.tx_enabled THEN q ELSE IF cons_flow THEN rx_enable(off, left) ELSE off

start_tx(q) ==
  LET on(r) == [enable_irq(r, "tx") EXCEPT !.tx_enabled = TRUE] IN
  IF q.tx_enabled THEN q ELSE IF cons_flow THEN on(rx_disable(q)) ELSE on(q)

stop_rx(q) == IF q.rx_enabled THEN [disable_irq(q, "rx") EXCEPT !.rx_enabled = FALSE] ELSE q

Left == {0, p.fifo}

-----------------------------------------------------------------------------
(* The serial core opens and closes. *)

TaskAt(s) == task = s /\ stack = <<>>

Open ==
  /\ TaskAt("closed") /\ Counts("open", MaxOpen)
  /\ use' = PowerOn(use) /\ p' = [p EXCEPT !.rx_enabled = TRUE]
  /\ task' = "request_rx" /\ goal' = "open"
  /\ UNCHANGED <<cons_flow, out, stack, txpc, rx, cfg_clocks, clksrc, baudclk, ubrdiv, rate_of>>

(* request_irq (external) clears the depth. *)
RequestRx ==
  /\ TaskAt("request_rx")
  /\ \/ p' = [p EXCEPT !.irq.rx = 0] /\ task' = "enable_tx"
     \/ "rx" \in Fails /\ task' = "dead" /\ UNCHANGED p
  /\ UNCHANGED <<cons_flow, goal, count, out, stack, txpc, rx, clock>>

(* Mutant: the flag is left to start_tx. *)
EnableTxLater ==
  /\ TaskAt("enable_tx") /\ task' = "request_tx"
  /\ p' = [p EXCEPT !.rx_claimed = TRUE]
  /\ UNCHANGED <<cons_flow, goal, count, out, stack, txpc, rx, clock>>

EnableTx ==
  /\ TaskAt("enable_tx") /\ task' = "request_tx"
  /\ p' = [p EXCEPT !.rx_claimed = TRUE, !.tx_enabled = TRUE]
  /\ UNCHANGED <<cons_flow, goal, count, out, stack, txpc, rx, clock>>

(* The second request fails: startup calls shutdown. *)
RequestTx ==
  /\ TaskAt("request_tx")
  /\ \/ p' = [p EXCEPT !.irq.tx = 0] /\ task' = "claim_tx" /\ UNCHANGED goal
     \/ "tx" \in Fails /\ task' = "free_tx" /\ goal' = "dead" /\ UNCHANGED p
  /\ UNCHANGED <<cons_flow, count, out, stack, txpc, rx, clock>>

ClaimTx ==
  /\ TaskAt("claim_tx") /\ p' = [p EXCEPT !.tx_claimed = TRUE] /\ task' = "speed"
  /\ UNCHANGED <<cons_flow, goal, count, out, stack, txpc, rx, clock>>

(* The core sets the speed of the terminal, which outlives the open, and   *)
(* after a resume starts the output.                                       *)
SetSpeed ==
  /\ TaskAt("speed") /\ task' = "open" /\ goal' = "open"
  /\ set_termios(rate_of)
  /\ p' = IF goal = "resumed" THEN start_tx(p) ELSE p
  /\ UNCHANGED <<cons_flow, count, out, stack, txpc, rx>>

SetTermios ==
  /\ TaskAt("open") /\ Counts("termios", MaxTermios)
  /\ \E rate \in Bauds \cup {0} : set_termios(rate)
  /\ UNCHANGED <<p, cons_flow, task, goal, out, stack, txpc, rx>>

(* The last close stops the receiver and waits for the output, though not  *)
(* for ever; a port that failed to start is only powered off.              *)
Close ==
  /\ \/ TaskAt("open") /\ p' = stop_rx(p) /\ task' = "drain" /\ goal' = "closed"
        /\ UNCHANGED <<use, stopped>>
     \/ TaskAt("dead") /\ task' = "closed" /\ goal' = "closed" /\ use' = PowerOff(use)
        /\ stopped' = FALSE /\ UNCHANGED p
  /\ UNCHANGED <<cons_flow, count, xmit, x_char, stack, txpc, rx,
                 cfg_clocks, clksrc, baudclk, ubrdiv, rate_of>>

Drain ==
  /\ TaskAt("drain") /\ (p.fifo = 0 \/ goal = "closed") /\ task' = "free_tx"
  /\ UNCHANGED <<p, cons_flow, goal, count, out, stack, txpc, rx, clock>>

(* shutdown frees each interrupt it has claimed; a handler may still run   *)
(* between the steps.                                                      *)
FreeTx ==
  /\ TaskAt("free_tx") /\ task' = "clear_tx"
  /\ p' = IF p.tx_claimed THEN [p EXCEPT !.irq.tx = -1] ELSE p
  /\ UNCHANGED <<cons_flow, goal, count, out, stack, txpc, rx, clock>>

ClearTx ==
  /\ TaskAt("clear_tx") /\ task' = "free_rx"
  /\ p' = IF p.tx_claimed THEN [p EXCEPT !.tx_enabled = FALSE, !.tx_claimed = FALSE] ELSE p
  /\ UNCHANGED <<cons_flow, goal, count, out, stack, txpc, rx, clock>>

Freed(q) ==
  IF q.rx_claimed THEN [q EXCEPT !.irq.rx = -1, !.rx_claimed = FALSE, !.rx_enabled = FALSE] ELSE q

(* The core empties the buffer of a closed port, and powers the port off.  *)
FreeRx ==
  /\ TaskAt("free_rx") /\ p' = Freed(p) /\ task' = goal
  /\ use' = IF goal = "dead" THEN use ELSE PowerOff(use)
  /\ IF goal = "suspended" THEN UNCHANGED <<xmit, stopped>> ELSE xmit' = 0 /\ stopped' = FALSE
  /\ goal' = IF goal = "suspended" THEN "resumed" ELSE goal
  /\ UNCHANGED <<cons_flow, count, x_char, stack, txpc, rx,
                 cfg_clocks, clksrc, baudclk, ubrdiv, rate_of>>

-----------------------------------------------------------------------------
(* Power management. *)

Suspend ==
  /\ Counts("suspend", MaxSuspend)
  /\ \/ /\ TaskAt("open") /\ \E left \in Left : p' = stop_rx(stop_tx(p, left))
        /\ task' = "drain" /\ goal' = "suspended" /\ UNCHANGED use
     \/ /\ SuspendClosed /\ TaskAt("closed") /\ use' = PowerOff(use)
        /\ task' = "suspended" /\ UNCHANGED <<p, goal>>
  /\ UNCHANGED <<cons_flow, out, stack, txpc, rx, cfg_clocks, clksrc, baudclk, ubrdiv, rate_of>>

(* The port is reset with its clock on, then the core starts it again.     *)
Resume ==
  /\ TaskAt("suspended") /\ use' = PowerOn(clk_disable(clk_enable(use, "uart"), "uart"))
  /\ p' = [p EXCEPT !.rxmode = TRUE, !.fifo = 0, !.rxfifo = 0,
                    !.rx_enabled = IF goal = "resumed" THEN TRUE ELSE @]
  /\ task' = IF goal = "resumed" THEN "request_rx" ELSE "closed"
  /\ UNCHANGED <<cons_flow, goal, count, out, stack, txpc, rx,
                 cfg_clocks, clksrc, baudclk, ubrdiv, rate_of>>

-----------------------------------------------------------------------------
(* The serial core sends; the lock makes each of these one step. *)

Write ==
  /\ TaskAt("open") /\ xmit < XmitSize /\ Counts("write", MaxWrite)
  /\ xmit' = xmit + 1 /\ p' = IF stopped THEN p ELSE start_tx(p)
  /\ UNCHANGED <<cons_flow, task, goal, x_char, stopped, stack, txpc, rx, clock>>

SendXchar ==
  /\ TaskAt("open") /\ ~x_char /\ Counts("write", MaxWrite)
  /\ x_char' = TRUE /\ p' = start_tx(p)
  /\ UNCHANGED <<cons_flow, task, goal, xmit, stopped, stack, txpc, rx, clock>>

StopTty ==
  /\ TaskAt("open") /\ ~stopped /\ stopped' = TRUE
  /\ \E left \in Left : p' = stop_tx(p, left)
  /\ UNCHANGED <<life, xmit, x_char, stack, txpc, rx, clock>>

StartTty ==
  /\ TaskAt("open") /\ stopped /\ stopped' = FALSE
  /\ p' = IF xmit > 0 THEN start_tx(p) ELSE p
  /\ UNCHANGED <<life, xmit, x_char, stack, txpc, rx, clock>>

-----------------------------------------------------------------------------
(* tx_chars. *)

AtTx(s) == txpc = s /\ stack # <<>> /\ Last(stack) = "tx"
TxTo(s) ==
  /\ txpc' = s /\ stack' = IF s = "idle" THEN Front(stack) ELSE stack
  /\ UNCHANGED <<life, stopped, rx, clock>>

(* The FIFO is empty and the interrupt is enabled. *)
TxIrq ==
  /\ txpc = "idle" /\ p.irq["tx"] = 0 /\ p.fifo = 0
  /\ stack' = Append(stack, "tx") /\ txpc' = "entry"
  /\ UNCHANGED <<p, life, out, rx, clock>>

TxEntry ==
  /\ AtTx("entry")
  /\ \/ /\ x_char /\ x_char' = FALSE /\ p' = [p EXCEPT !.fifo = @ + 1]
        /\ TxTo("idle") /\ UNCHANGED xmit
     \/ ~x_char /\ (xmit = 0 \/ stopped) /\ TxTo("stop") /\ UNCHANGED <<p, xmit, x_char>>
     \/ /\ ~x_char /\ xmit > 0 /\ ~stopped /\ TxTo("drained")
        /\ LET n == IF xmit < FifoSize - p.fifo THEN xmit ELSE FifoSize - p.fifo IN
             xmit' = xmit - n /\ p' = [p EXCEPT !.fifo = @ + n]
        /\ UNCHANGED x_char

(* Mutant: whatever is left, the transmitter stops. *)
TxDrainedStops ==
  /\ AtTx("drained") /\ TxTo("stop")
  /\ UNCHANGED <<p, xmit, x_char>>

TxDrained ==
  /\ AtTx("drained") /\ TxTo(IF xmit = 0 THEN "stop" ELSE "idle")
  /\ UNCHANGED <<p, xmit, x_char>>

(* stop_tx without the lock, in three steps. *)
TxStop ==
  /\ AtTx("stop") /\ TxTo(IF p.tx_enabled THEN "disabled" ELSE "idle")
  /\ p' = IF p.tx_enabled THEN disable_irq(p, "tx") ELSE p
  /\ UNCHANGED <<xmit, x_char>>

TxDisabled ==
  /\ AtTx("disabled") /\ TxTo(IF cons_flow THEN "rx_on" ELSE "idle")
  /\ p' = [p EXCEPT !.tx_enabled = FALSE]
  /\ UNCHANGED <<xmit, x_char>>

TxRxOn ==
  /\ AtTx("rx_on") /\ TxTo("idle") /\ \E left \in Left : p' = rx_enable(p, left)
  /\ UNCHANGED <<xmit, x_char>>

-----------------------------------------------------------------------------
(* rx_chars; it takes up to 64 characters, more than MaxRx. *)

AtRx(s) == rxpc = s /\ stack # <<>> /\ Last(stack) = "rx"
RxTo(s) ==
  /\ rxpc' = s /\ stack' = IF s = "idle" THEN Front(stack) ELSE stack
  /\ UNCHANGED <<life, x_char, stopped, txpc, clock>>

RxIrq ==
  /\ rxpc = "idle" /\ p.irq["rx"] = 0 /\ p.rxfifo > 0
  /\ stack' = Append(stack, "rx") /\ rxpc' = "loop"
  /\ UNCHANGED <<p, life, out, txpc, txe, inserted, clock>>

RxChar ==
  /\ AtRx("loop")
  /\ IF p.rxfifo = 0 THEN RxTo("push") /\ UNCHANGED <<p, txe>>
     ELSE RxTo("test") /\ p' = [p EXCEPT !.rxfifo = @ - 1] /\ txe' = (p.fifo = 0)
  /\ UNCHANGED <<xmit, inserted>>

(* Under console flow control a character that comes while the transmitter *)
(* works is dropped, and the first that comes after it clears the FIFO and *)
(* leaves without a push; any other is inserted.                           *)
RxTest ==
  /\ AtRx("test")
  /\ CASE ~cons_flow \/ (p.rx_enabled /\ txe) -> RxTo("loop") /\ inserted' = TRUE /\ UNCHANGED p
       [] cons_flow /\ ~txe ->
            RxTo("loop") /\ p' = [p EXCEPT !.rx_enabled = FALSE] /\ UNCHANGED inserted
       [] cons_flow /\ ~p.rx_enabled /\ txe ->
            RxTo("idle") /\ p' = [p EXCEPT !.rxfifo = 0, !.rx_enabled = TRUE] /\ UNCHANGED inserted
  /\ UNCHANGED <<xmit, txe>>

(* With low latency the line discipline runs at once and may echo.         *)
RxPush ==
  /\ AtRx("push") /\ RxTo("idle") /\ inserted' = FALSE
  /\ \/ UNCHANGED <<p, xmit>>
     \/ /\ LowLatency /\ inserted /\ xmit < XmitSize /\ xmit' = xmit + 1
        /\ p' = IF stopped THEN p ELSE start_tx(p)
  /\ UNCHANGED txe

-----------------------------------------------------------------------------
(* The controller (external). *)

TxShift ==
  /\ p.fifo > 0 /\ p' = [p EXCEPT !.fifo = @ - 1]
  /\ UNCHANGED <<life, out, stack, txpc, rx, clock>>

RxArrive ==
  /\ p.rxmode /\ p.rxfifo < FifoSize /\ Counts("rx", MaxRx)
  /\ p' = [p EXCEPT !.rxfifo = @ + 1]
  /\ UNCHANGED <<cons_flow, task, goal, out, stack, txpc, rx, clock>>

-----------------------------------------------------------------------------
Startup == RequestRx \/ EnableTx \/ RequestTx \/ ClaimTx \/ SetSpeed
Shutdown == Drain \/ FreeTx \/ ClearTx \/ FreeRx
Core == Open \/ SetTermios \/ Close \/ Suspend \/ Resume
        \/ Write \/ SendXchar \/ StopTty \/ StartTty
Tx == TxIrq \/ TxEntry \/ TxDrained \/ TxStop \/ TxDisabled \/ TxRxOn
Rx == RxIrq \/ RxChar \/ RxTest \/ RxPush

Next == Core \/ Startup \/ Shutdown \/ Tx \/ Rx \/ TxShift \/ RxArrive

(* Interrupts that stay raised are served, handlers and calls run to their *)
(* end, and the transmitter shifts out what it has.                        *)
Spec == Init /\ [][Next]_vars
        /\ WF_vars(Tx) /\ WF_vars(Rx) /\ WF_vars(TxShift) /\ WF_vars(Startup) /\ WF_vars(Shutdown)

-----------------------------------------------------------------------------
(* Properties. *)

TypeOK ==
  /\ p \in Port /\ cons_flow \in BOOLEAN
  /\ xmit \in 0..XmitSize /\ x_char \in BOOLEAN /\ stopped \in BOOLEAN
  /\ task \in {"closed", "request_rx", "enable_tx", "request_tx", "claim_tx", "speed", "open", "drain",
               "free_tx", "clear_tx", "free_rx", "dead", "suspended"}
  /\ goal \in {"open", "closed", "dead", "suspended", "resumed"}
  /\ stack \in {<<>>, <<"tx">>, <<"rx">>, <<"tx", "rx">>, <<"rx", "tx">>}
  /\ txpc \in {"idle", "entry", "drained", "stop", "disabled", "rx_on"}
  /\ rxpc \in {"idle", "loop", "test", "push"} /\ txe \in BOOLEAN /\ inserted \in BOOLEAN

(* Whenever no handler is at work on a started port, the transmit          *)
(* interrupt is enabled exactly if tx_enabled says so and is never         *)
(* disabled twice; a port that is closed, suspended or failed to start has *)
(* given back both interrupts.                                             *)
IrqsAgree ==
  stack = <<>> =>
    /\ task \in {"speed", "open", "drain"} =>
         p.irq["tx"] = (IF p.tx_enabled THEN 0 ELSE 1) /\ p.irq["rx"] \in 0..1
    /\ task \in {"closed", "suspended", "dead"} => p.irq["tx"] = -1 /\ p.irq["rx"] = -1

(* "If there isn't anything more to transmit, or the uart is now stopped": *)
(* only then may the transmit interrupt of an open port be off.            *)
OutputHasIrq == TaskAt("open") /\ xmit > 0 /\ ~stopped => p.tx_enabled

(* Output of an open port is sent, unless the terminal is stopped or the   *)
(* port closed or suspended.                                               *)
OutputDrains ==
  (task = "open" /\ xmit > 0 /\ ~stopped) ~> (xmit = 0 \/ stopped \/ task # "open")

(* Under console flow control the receiver is off during output only, also *)
(* when an earlier user left it off: with the transmitter stopped an open  *)
(* port listens.                                                           *)
ReceiverOn == TaskAt("open") /\ ~p.tx_enabled => p.rxmode

(* What was inserted is pushed before the handler is done.                 *)
InputPushed == rxpc = "idle" => ~inserted

(* An open port holds its clock and the clock of its baud rate once, a     *)
(* closed or suspended one holds neither, through every change of the      *)
(* rate, failed start and suspend; so a reset finds the clock on.          *)
ClocksBalanced ==
  LET off == task \in {"closed", "suspended"} IN
  \A c \in Clocks : use[c] = IF ~off /\ c \in {"uart", baudclk} THEN 1 ELSE 0

=============================================================================
