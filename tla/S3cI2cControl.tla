--------------------------- MODULE S3cI2cControl ---------------------------
(***************************************************************************)
(* IICCON of the S3C24xx I2C driver, which three parties read, modify and  *)
(* write: the task that starts a transfer and the cpufreq notifier under   *)
(* i2c->lock with interrupts off, the handler without the lock; and the    *)
(* task that resets a HDMIPHY controller clears it, without the lock.      *)
(* Composes the divisors of S3cI2cClock with the control bits.             *)
(*                                                                         *)
(* Every access is a read and a write; in between others may run: on one   *)
(* processor the handler beside a thread that has interrupts on, on two    *)
(* whoever is not kept out by the lock.                                    *)
(***************************************************************************)
EXTENDS S3cI2cClock, Sequences

CONSTANTS Smp,      \* the handler and the threads run beside each other
          HdmiPhy,  \* the controller is the one of the HDMIPHY
          NONE

Parties == {"task", "irq", "cpufreq"}

ASSUME ControlAssumption == Smp \in BOOLEAN /\ HdmiPhy \in BOOLEAN /\ NONE \notin Parties

VARIABLES
  ctl,      \* IICCON: IRQEN, ACKEN, IRQPEND
  lock,     \* who holds i2c->lock
  left,     \* the accesses each party still has to make, first one first
  copy,     \* what it has read of IICCON, and not yet written
  running,  \* a transfer is on the bus
  want,     \* history: the bits and divisors as if every access were atomic
  lost      \* history: an interrupt was cleared by somebody else than the handler

control == <<ctl, lock, left, copy, running, want, lost>>
allVars == <<vars, control>>

Bits == [irqen : BOOLEAN, acken : BOOLEAN, pend : BOOLEAN]

ControlInit ==
  /\ Init /\ ctl = [irqen |-> TRUE, acken |-> TRUE, pend |-> FALSE]
  /\ lock = NONE /\ left = [t \in Parties |-> <<>>] /\ copy = [t \in Parties |-> NONE]
  /\ running = FALSE /\ lost = FALSE
  /\ want = [irqen |-> TRUE, acken |-> TRUE, con |-> iiccon]

(* What an access makes of the bits it has read. *)
enable_irq(c)  == [c EXCEPT !.irqen = TRUE]
disable_irq(c) == [c EXCEPT !.irqen = FALSE]
enable_ack(c)  == [c EXCEPT !.acken = TRUE]
disable_ack(c) == [c EXCEPT !.acken = FALSE]
Modified(op, c) ==
  CASE op = "enable_irq" -> enable_irq(c) [] op = "disable_irq" -> disable_irq(c)
    [] op = "enable_ack" -> enable_ack(c) [] op = "disable_ack" -> disable_ack(c)
    [] OTHER -> c

-----------------------------------------------------------------------------
(* Who may run.  A thread that holds the lock has interrupts off. *)
ThreadRuns == Smp \/ left["irq"] = <<>>
IrqsOn     == Smp \/ lock = NONE

Read(t) ==
  /\ left[t] # <<>> /\ copy[t] = NONE /\ (t # "irq" => ThreadRuns)
  /\ copy' = [copy EXCEPT ![t] = [con |-> iiccon, bits |-> ctl]]
  /\ UNCHANGED <<vars, ctl, lock, left, running, want, lost>>

(* Written back is everything that was read: a byte that has ended in      *)
(* between loses its interrupt.                                            *)
Store(t, bits) ==
  /\ ctl' = bits /\ copy' = [copy EXCEPT ![t] = NONE]
  /\ lost' = (lost \/ (ctl.pend /\ ~bits.pend /\ t # "irq"))
  /\ left' = [left EXCEPT ![t] = Tail(@)]
  /\ lock' = IF lock = t /\ Tail(left[t]) = <<>> THEN NONE ELSE lock

(* The control bits: the divisors are written as they were read.  The last *)
(* access of the task puts the START on the bus, the last of the handler   *)
(* acknowledges the interrupt, and a stop ends the transfer.               *)
Write(t) ==
  LET op == Head(left[t])
      bits == [Modified(op, copy[t].bits) EXCEPT !.pend = IF op = "ack" THEN FALSE ELSE @]
  IN
  /\ left[t] # <<>> /\ copy[t] # NONE /\ t # "cpufreq" /\ (t # "irq" => ThreadRuns)
  /\ iiccon' = copy[t].con /\ Store(t, bits)
  /\ want' = [Modified(op, want) EXCEPT !.con = @]
  /\ running' = CASE op = "start" -> TRUE [] op = "disable_irq" -> FALSE [] OTHER -> running
  /\ UNCHANGED <<target, hw, rep, clkrate, iiclc, on, refused, wiped, phase>>

-----------------------------------------------------------------------------
(* set_master, before doxfer takes the lock, when the bus of the HDMIPHY    *)
(* hangs: all of IICCON is written with zeros, and the transfer goes on.   *)
set_master ==
  /\ HdmiPhy /\ left["task"] = <<>> /\ ThreadRuns /\ (Smp \/ lock = NONE)
  /\ Reset /\ running' = FALSE
  /\ ctl' = [irqen |-> FALSE, acken |-> FALSE, pend |-> FALSE]
  /\ want' = [irqen |-> FALSE, acken |-> FALSE, con |-> iiccon']
  /\ lost' = (lost \/ ctl.pend)
  /\ UNCHANGED <<lock, left, copy>>

(* doxfer, once the bus is free; message_start writes IICCON as it was. *)
doxfer ==
  /\ lock = NONE /\ left["task"] = <<>> /\ ThreadRuns /\ ~running /\ ~ctl.pend
  /\ lock' = "task"
  /\ left' = [left EXCEPT !["task"] = << "enable_irq", "enable_ack", "start" >>]
  /\ UNCHANGED <<vars, ctl, copy, running, want, lost>>

(* A byte has ended (external). *)
ByteEnds ==
  /\ running /\ ~ctl.pend /\ ctl' = [ctl EXCEPT !.pend = TRUE]
  /\ UNCHANGED <<vars, lock, left, copy, running, want, lost>>

(* The handler: the start of another message, the last byte of a read, the *)
(* end of the transfer, or only another byte; then the acknowledgement.    *)
HandlerOps == { <<>>, <<"enable_ack", "restart">>, <<"disable_ack">>, <<"disable_irq">> }
Interrupt ==
  /\ ctl.pend /\ ctl.irqen /\ left["irq"] = <<>> /\ IrqsOn
  /\ \E ops \in HandlerOps : left' = [left EXCEPT !["irq"] = ops \o <<"ack">>]
  /\ UNCHANGED <<vars, ctl, lock, copy, running, want, lost>>

(* The notifier leaves the divisors alone, or takes the lock for them. *)
Follows == (phase = "announced" /\ rep > clkrate) \/ (phase = "switched" /\ rep < clkrate)
Changed == PreChange \/ PostChange

(* Mutant: the notifier does not take the lock. *)
NotifierUnlocked ==
  /\ Follows /\ left["cpufreq"] = <<>> /\ ThreadRuns
  /\ left' = [left EXCEPT !["cpufreq"] = <<"divisor">>]
  /\ UNCHANGED <<vars, ctl, lock, copy, running, want, lost>>

Notifier ==
  /\ Follows /\ left["cpufreq"] = <<>> /\ ThreadRuns /\ lock = NONE /\ lock' = "cpufreq"
  /\ left' = [left EXCEPT !["cpufreq"] = <<"divisor">>]
  /\ UNCHANGED <<vars, ctl, copy, running, want, lost>>

NotifierIdle == ~Follows /\ ThreadRuns /\ Changed /\ UNCHANGED control

(* A rate that is refused leaves the register alone. *)
NotifierWrite ==
  /\ left["cpufreq"] # <<>> /\ copy["cpufreq"] # NONE /\ ThreadRuns
  /\ Changed /\ Store("cpufreq", IF refused' THEN ctl ELSE copy["cpufreq"].bits)
  /\ want' = [want EXCEPT !.con = iiccon'] /\ UNCHANGED running

(* Everything is suspended and nobody is at work; init writes the register *)
(* anew.                                                                   *)
Wake ==
  /\ Resume /\ lock = NONE /\ left["irq"] = <<>> /\ ~running
  /\ ctl' = [irqen |-> on', acken |-> on', pend |-> FALSE]
  /\ want' = [irqen |-> on', acken |-> on', con |-> iiccon']
  /\ UNCHANGED <<lock, left, copy, running, lost>>

ClockSource == Switch \/ \E r \in Rates : Announce(r)

ControlNext ==
  \/ \E t \in Parties : Read(t) \/ Write(t)
  \/ set_master \/ doxfer \/ ByteEnds \/ Interrupt \/ Notifier \/ NotifierIdle \/ NotifierWrite \/ Wake
  \/ ClockSource /\ UNCHANGED control

ControlSpec == ControlInit /\ [][ControlNext]_allVars

-----------------------------------------------------------------------------
(* Properties. *)

(* Every access to IICCON takes effect as if it were atomic: whatever the  *)
(* task, the handler and the notifier do beside each other, the divisors,  *)
(* the interrupt enable and the acknowledge enable are what the last one   *)
(* to write each meant.  A HDMIPHY reset means all of the register: that   *)
(* it drops the divisors is NeverTooFastReset.                             *)
RegisterMerged == want = [irqen |-> ctl.irqen, acken |-> ctl.acken, con |-> iiccon]

(* Only the handler clears an interrupt. *)
InterruptKept == ~lost

=============================================================================
