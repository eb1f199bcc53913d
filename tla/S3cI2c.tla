------------------------------- MODULE S3cI2c -------------------------------
(***************************************************************************)
(* The S3C24xx I2C bus driver (linux_driver/i2c/i2c-s3c2410.c).            *)
(*                                                                         *)
(* Three actors share the driver's state and the controller's registers:   *)
(*  - the task that called s3c24xx_i2c_xfer(), at program point pc;        *)
(*  - the interrupt handler, at label irqPc, which takes no lock;          *)
(*  - the controller and the bus (external), which transfer a byte while   *)
(*    no interrupt is pending and put the STOP on the bus once the last    *)
(*    interrupt is acknowledged.                                           *)
(* With Smp the handler and the task run on different processors; without  *)
(* it the handler runs to its end before the task takes another step.      *)
(*                                                                         *)
(* Bytes are not modelled: moved[i] counts the bytes of message i that the *)
(* handler fetched from or stored into its buffer.                         *)
(***************************************************************************)
EXTENDS Integers, Sequences

CONSTANTS MsgLists,     \* the i2c_msg arrays that callers pass to master_xfer
          Smp,          \* the handler may run beside the task
          HdmiPhy,      \* the controller is TYPE_S3C2440_HDMIPHY
          Timely,       \* the bus answers within the HZ * 5 of the wait
          Retries,      \* adap.retries
          MaxXfer,      \* bound: calls of s3c24xx_i2c_xfer
          MaxSuspend,   \* bound: suspend / resume cycles
          MaxSpurious   \* bound: interrupts nobody asked for

Msg == [rd : BOOLEAN, len : Nat, nostart : BOOLEAN, ignoreNak : BOOLEAN]

ASSUME ConstAssumption ==
  /\ MsgLists \subseteq Seq(Msg) \ {<<>>}
  /\ Smp \in BOOLEAN /\ HdmiPhy \in BOOLEAN /\ Timely \in BOOLEAN
  /\ Retries \in Nat \ {0}
  /\ MaxXfer \in Nat /\ MaxSuspend \in Nat /\ MaxSpurious \in Nat

VARIABLES
  state, msgs, msg, msg_num, msg_idx, msg_ptr,  \* struct s3c24xx_i2c
  suspended,
  irqen, acken, pend,                           \* IICCON
  start, busy, rxmode, lastbit,                 \* IICSTAT: written START, read BUSBUSY
  pc, args, retry, ret, clk,                    \* the calling task
  irqPc, irqErr,                                \* the handler
  moved, live, oops,                            \* observations for the properties
  nxfer, nsuspend, nspurious                    \* the bounds' counters

drv    == <<state, msgs, msg, msg_num, msg_idx, msg_ptr>>
con    == <<irqen, acken, pend>>
stat   == <<start, busy, rxmode, lastbit>>
task   == <<pc, args, retry, ret, clk>>
isr    == <<irqPc, irqErr>>
ghost  == <<moved, live, oops>>
counts == <<nxfer, nsuspend, nspurious>>
vars   == <<drv, suspended, con, stat, task, isr, ghost, counts>>

NULL == 0     \* i2c->msg is an index into msgs, or NULL

(* The error codes the driver returns. *)
EIO == -5
ENXIO == -6
EAGAIN == -11
EINVAL == -22
ECONNREFUSED == -111
EREMOTEIO == -121
Errors == {EIO, ENXIO, EAGAIN, EINVAL, ECONNREFUSED, EREMOTEIO}

States == {"IDLE", "START", "READ", "WRITE", "STOP"}
TaskPoints == {"idle", "doxfer", "set_master", "start", "wait", "sleep",
               "waited", "bus_idle", "retry"}
IrqPoints == {"none", "retry_write", "prepare_read", "complete", "irqoff", "out_ack"}

(* s3c24xx_i2c_probe ends with the controller initialised (interrupt and   *)
(* acknowledge on) and the clock off.                                      *)
Init ==
  /\ state = "IDLE" /\ msgs = <<>> /\ msg = NULL
  /\ msg_num = 0 /\ msg_idx = 0 /\ msg_ptr = 0
  /\ suspended = FALSE
  /\ irqen = TRUE /\ acken = TRUE /\ pend = FALSE
  /\ start = FALSE /\ busy = FALSE /\ rxmode = FALSE /\ lastbit = FALSE
  /\ pc = "idle" /\ args = <<>> /\ retry = 0 /\ ret = 0 /\ clk = 0
  /\ irqPc = "none" /\ irqErr = 0
  /\ moved = <<>> /\ live = FALSE /\ oops = FALSE
  /\ nxfer = 0 /\ nsuspend = 0 /\ nspurious = 0

-----------------------------------------------------------------------------
(* Helpers of both the task and the handler. *)

(* The current message is the last of the set. *)
is_lastmsg == msg_idx >= msg_num - 1

(* Mutants: the comparisons of the two helpers below, off by one. *)
MsgLastLate == msg_ptr = msgs[msg].len
MsgEndEarly == msg_ptr >= msgs[msg].len - 1
MsgEndLate == msg_ptr > msgs[msg].len

(* The next byte is the last of the current message. *)
is_msglast == msg_ptr = msgs[msg].len - 1

(* The end of the current message is reached. *)
is_msgend == msg_ptr >= msgs[msg].len

(* Mutant: MASTER_RX is forgotten for a read. *)
StartKeepsMode(m) ==
  /\ acken' = TRUE
  /\ start' = TRUE /\ busy' = TRUE
  /\ UNCHANGED rxmode

(* Put the (repeated) START of message m on the bus. *)
message_start(m) ==
  /\ acken' = TRUE
  /\ rxmode' = m.rd
  /\ start' = TRUE /\ busy' = TRUE

-----------------------------------------------------------------------------
(* The task: s3c24xx_i2c_xfer, s3c24xx_i2c_doxfer, s3c24xx_i2c_set_master. *)

(* On one processor the task is stopped while the handler runs. *)
TaskRuns == (Smp \/ irqPc = "none") /\ ~oops

(* s3c24xx_i2c_xfer is called with the array l. *)
Xfer(l) ==
  /\ TaskRuns /\ pc = "idle" /\ nxfer < MaxXfer
  /\ pc' = "doxfer" /\ args' = l /\ retry' = 0 /\ clk' = clk + 1
  /\ nxfer' = nxfer + 1
  /\ UNCHANGED <<drv, suspended, con, stat, ret, isr, ghost, nsuspend, nspurious>>

(* The entry of s3c24xx_i2c_doxfer. *)
Doxfer ==
  /\ TaskRuns /\ pc = "doxfer"
  /\ IF suspended THEN pc' = "retry" /\ ret' = EIO
                  ELSE pc' = "set_master" /\ ret' = ret
  /\ UNCHANGED <<drv, suspended, con, stat, args, retry, clk, isr, ghost, counts>>

(* Mutant: the bus is not asked whether it is busy. *)
SetMasterBlind ==
  /\ TaskRuns /\ pc = "set_master"
  /\ pc' = "start"
  /\ UNCHANGED <<drv, suspended, con, stat, args, retry, ret, clk, isr, ghost, counts>>

(* One of the polls of s3c24xx_i2c_set_master finds the bus free. *)
SetMasterFree ==
  /\ TaskRuns /\ pc = "set_master" /\ ~busy
  /\ pc' = "start"
  /\ UNCHANGED <<drv, suspended, con, stat, args, retry, ret, clk, isr, ghost, counts>>

(* All its polls find the bus busy: -EAGAIN, or a reset of an HDMIPHY.     *)
SetMasterBusy ==
  /\ TaskRuns /\ pc = "set_master" /\ busy
  /\ IF HdmiPhy
       THEN /\ pc' = "start" /\ ret' = ret
            /\ irqen' = FALSE /\ acken' = FALSE /\ pend' = FALSE
            /\ start' = FALSE /\ busy' = FALSE /\ rxmode' = FALSE
            /\ UNCHANGED lastbit
       ELSE /\ pc' = "retry" /\ ret' = EAGAIN
            /\ UNCHANGED <<con, stat>>
  /\ UNCHANGED <<drv, suspended, args, retry, clk, isr, ghost, counts>>

(* The locked section that hands the array to the handler. *)
StartXfer ==
  /\ TaskRuns /\ pc = "start"
  /\ msgs' = args /\ msg' = 1 /\ msg_num' = Len(args)
  /\ msg_ptr' = 0 /\ msg_idx' = 0 /\ state' = "START"
  /\ irqen' = TRUE
  /\ message_start(args[1])
  /\ moved' = [i \in 1..Len(args) |-> 0] /\ live' = TRUE
  /\ pc' = "wait"
  /\ UNCHANGED <<suspended, pend, lastbit, args, retry, ret, clk, isr, oops, counts>>

(* Mutant: the task does not wait. *)
NoWait ==
  /\ TaskRuns /\ pc = "wait"
  /\ pc' = "waited"
  /\ UNCHANGED <<drv, suspended, con, stat, args, retry, ret, clk, isr, ghost, counts>>

(* wait_event_timeout tests its condition, before it sleeps and when woken. *)
WaitCheck ==
  /\ TaskRuns /\ pc = "wait"
  /\ pc' = IF msg_num = 0 THEN "waited" ELSE "sleep"
  /\ UNCHANGED <<drv, suspended, con, stat, args, retry, ret, clk, isr, ghost, counts>>

(* Mutant: wait_event, which has no timeout. *)
WaitForever == FALSE /\ UNCHANGED vars

(* The HZ * 5 of wait_event_timeout are over. *)
WaitTimeout ==
  /\ TaskRuns /\ pc = "sleep" /\ ~Timely
  /\ pc' = "waited"
  /\ UNCHANGED <<drv, suspended, con, stat, args, retry, ret, clk, isr, ghost, counts>>

(* The result is whatever msg_idx holds now. *)
ReadResult ==
  /\ TaskRuns /\ pc = "waited"
  /\ ret' = msg_idx /\ pc' = "bus_idle"
  /\ UNCHANGED <<drv, suspended, con, stat, args, retry, clk, isr, ghost, counts>>

(* The bounded wait for the STOP; a bus that stays busy only earns a       *)
(* warning, so the task goes on in either case.                            *)
BusIdle ==
  /\ TaskRuns /\ pc = "bus_idle"
  /\ pc' = "retry"
  /\ UNCHANGED <<drv, suspended, con, stat, args, retry, ret, clk, isr, ghost, counts>>

(* s3c24xx_i2c_xfer tries again after -EAGAIN, else returns. *)
Return ==
  /\ TaskRuns /\ pc = "retry"
  /\ IF ret = EAGAIN /\ retry + 1 < Retries
       THEN pc' = "doxfer" /\ retry' = retry + 1 /\ UNCHANGED <<ret, clk, live>>
       ELSE /\ pc' = "idle" /\ clk' = clk - 1 /\ live' = FALSE
            /\ ret' = IF ret = EAGAIN THEN EREMOTEIO ELSE ret
            /\ UNCHANGED retry
  /\ UNCHANGED <<drv, suspended, con, stat, args, isr, moved, oops, counts>>

-----------------------------------------------------------------------------
(* The interrupt handler: s3c24xx_i2c_irq and i2c_s3c_irq_nextbyte.        *)

(* The stores of s3c24xx_i2c_stop and s3c24xx_i2c_master_complete up to    *)
(* msg_num = 0, at message idx; MasterComplete and DisableIrq are the rest. *)
stop(err, idx) ==
  /\ start' = FALSE /\ state' = "STOP"
  /\ msg_ptr' = 0 /\ msg' = NULL /\ msg_idx' = idx + 1 /\ msg_num' = 0
  /\ irqErr' = err /\ irqPc' = "complete"
  /\ UNCHANGED <<msgs, busy, rxmode, lastbit>>

(* The interrupt is taken. *)
IrqEnters == irqPc = "none" /\ pend /\ irqen /\ ~suspended /\ ~oops

(* No transfer is under way: acknowledge, and in STATE_STOP mask it first. *)
IrqUnwanted ==
  /\ IrqEnters /\ state \in {"IDLE", "STOP"}
  /\ irqPc' = IF state = "STOP" THEN "irqoff" ELSE "out_ack"
  /\ UNCHANGED <<drv, suspended, con, stat, task, irqErr, ghost, counts>>

(* The address byte has been sent. *)
IrqStart ==
  /\ IrqEnters /\ state = "START"
  /\ IF lastbit /\ ~msgs[msg].ignoreNak THEN stop(ENXIO, msg_idx)
     ELSE IF is_lastmsg /\ msgs[msg].len = 0 THEN stop(0, msg_idx)
     ELSE /\ state' = IF msgs[msg].rd THEN "READ" ELSE "WRITE"
          /\ irqPc' = IF msgs[msg].rd THEN "prepare_read" ELSE "retry_write"
          /\ UNCHANGED <<msgs, msg, msg_num, msg_idx, msg_ptr, stat, irqErr>>
  /\ UNCHANGED <<suspended, con, task, ghost, counts>>

(* A data byte has been sent. *)
IrqWrite ==
  /\ IrqEnters /\ state = "WRITE"
  /\ IF lastbit /\ ~msgs[msg].ignoreNak THEN stop(ECONNREFUSED, msg_idx)
     ELSE irqPc' = "retry_write" /\ UNCHANGED <<drv, stat, irqErr>>
  /\ UNCHANGED <<suspended, con, task, ghost, counts>>

(* A data byte has been received: store it. *)
IrqRead ==
  /\ IrqEnters /\ state = "READ"
  /\ msg_ptr' = msg_ptr + 1
  /\ moved' = [moved EXCEPT ![msg] = @ + 1]
  /\ irqPc' = "prepare_read"
  /\ UNCHANGED <<state, msgs, msg, msg_num, msg_idx, suspended, con, stat, task,
                 irqErr, live, oops, counts>>

(* retry_write with a message to look at. *)
AtRetryWrite == irqPc = "retry_write" /\ ~oops /\ msg # NULL

(* The next byte of the message. *)
WriteByte ==
  /\ AtRetryWrite /\ ~is_msgend
  /\ msg_ptr' = msg_ptr + 1
  /\ moved' = [moved EXCEPT ![msg] = @ + 1]
  /\ irqPc' = "out_ack"
  /\ UNCHANGED <<state, msgs, msg, msg_num, msg_idx, suspended, con, stat, task,
                 irqErr, live, oops, counts>>

(* The last message is written: the STOP. *)
WriteStop ==
  /\ AtRetryWrite /\ is_msgend /\ is_lastmsg
  /\ stop(0, msg_idx)
  /\ UNCHANGED <<suspended, con, task, ghost, counts>>

(* The next message, with its START. *)
WriteNextStart ==
  /\ AtRetryWrite /\ is_msgend /\ ~is_lastmsg /\ ~msgs[msg + 1].nostart
  /\ message_start(msgs[msg + 1])
  /\ state' = "START" /\ msg_ptr' = 0 /\ msg_idx' = msg_idx + 1 /\ msg' = msg + 1
  /\ irqPc' = "out_ack"
  /\ UNCHANGED <<msgs, msg_num, suspended, irqen, pend, lastbit, task, irqErr, ghost, counts>>

(* The next message, written without a START: retry_write again. *)
WriteNextNoStart ==
  /\ AtRetryWrite /\ is_msgend /\ ~is_lastmsg
  /\ msgs[msg + 1].nostart /\ ~msgs[msg + 1].rd
  /\ msg_ptr' = 0 /\ msg_idx' = msg_idx + 1 /\ msg' = msg + 1
  /\ UNCHANGED <<state, msgs, msg_num, suspended, con, stat, task, isr, ghost, counts>>

(* The next message reads and has no START, which is refused. *)
WriteRefuse ==
  /\ AtRetryWrite /\ is_msgend /\ ~is_lastmsg
  /\ msgs[msg + 1].nostart /\ msgs[msg + 1].rd
  /\ stop(EINVAL, msg_idx + 1)
  /\ UNCHANGED <<suspended, con, task, ghost, counts>>

(* retry_write after s3c24xx_i2c_stop(-EINVAL): is_msgend reads through    *)
(* the NULL i2c->msg, and the kernel stops there.                          *)
RetryWriteNull ==
  /\ irqPc = "retry_write" /\ ~oops /\ msg = NULL
  /\ oops' = TRUE
  /\ UNCHANGED <<drv, suspended, con, stat, task, isr, moved, live, counts>>

(* prepare_read: refuse the acknowledge of the last byte, finish, or go to *)
(* the next message, which is given no START of its own.                   *)
PrepareRead ==
  /\ irqPc = "prepare_read" /\ ~oops
  /\ \/ /\ is_msglast
        /\ acken' = (acken /\ ~is_lastmsg)
        /\ irqPc' = "out_ack"
        /\ UNCHANGED <<drv, stat, irqErr>>
     \/ /\ ~is_msglast /\ is_msgend /\ is_lastmsg
        /\ stop(0, msg_idx)
        /\ UNCHANGED acken
     \/ /\ ~is_msglast /\ is_msgend /\ ~is_lastmsg
        /\ msg_ptr' = 0 /\ msg_idx' = msg_idx + 1 /\ msg' = msg + 1
        /\ irqPc' = "out_ack"
        /\ UNCHANGED <<state, msgs, msg_num, acken, stat, irqErr>>
     \/ /\ ~is_msglast /\ ~is_msgend
        /\ irqPc' = "out_ack"
        /\ UNCHANGED <<drv, acken, stat, irqErr>>
  /\ UNCHANGED <<suspended, irqen, pend, task, ghost, counts>>

(* The rest of s3c24xx_i2c_master_complete: the return code replaces the   *)
(* count, and a sleeping task is woken.                                    *)
MasterComplete ==
  /\ irqPc = "complete" /\ ~oops
  /\ msg_idx' = IF irqErr # 0 THEN irqErr ELSE msg_idx
  /\ pc' = IF pc = "sleep" THEN "wait" ELSE pc
  /\ irqPc' = "irqoff"
  /\ UNCHANGED <<state, msgs, msg, msg_num, msg_ptr, suspended, con, stat,
                 args, retry, ret, clk, irqErr, ghost, counts>>

(* Mutant: the goto out_ack after the stop is missing. *)
DisableIrqFallsThrough ==
  /\ irqPc = "irqoff" /\ ~oops
  /\ irqen' = FALSE
  /\ irqPc' = "retry_write"
  /\ UNCHANGED <<drv, suspended, acken, pend, stat, task, irqErr, ghost, counts>>

(* The rest of s3c24xx_i2c_stop; only the NOSTART refusal falls back into  *)
(* retry_write.                                                            *)
DisableIrq ==
  /\ irqPc = "irqoff" /\ ~oops
  /\ irqen' = FALSE
  /\ irqPc' = IF irqErr = EINVAL THEN "retry_write" ELSE "out_ack"
  /\ UNCHANGED <<drv, suspended, acken, pend, stat, task, irqErr, ghost, counts>>

(* out_ack: acknowledge the interrupt and leave. *)
OutAck ==
  /\ irqPc = "out_ack" /\ ~oops
  /\ pend' = FALSE
  /\ irqPc' = "none" /\ irqErr' = 0
  /\ UNCHANGED <<drv, suspended, irqen, acken, stat, task, ghost, counts>>

-----------------------------------------------------------------------------
(* Power management. *)

(* s3c24xx_i2c_suspend_noirq: no handler is running. *)
Suspend ==
  /\ ~suspended /\ irqPc = "none" /\ ~oops /\ nsuspend < MaxSuspend
  /\ suspended' = TRUE /\ nsuspend' = nsuspend + 1
  /\ UNCHANGED <<drv, con, stat, task, isr, ghost, nxfer, nspurious>>

(* s3c24xx_i2c_resume with s3c24xx_i2c_init, the power of the controller   *)
(* lost in between or not.                                                 *)
Resume ==
  /\ suspended
  /\ suspended' = FALSE
  /\ irqen' = TRUE /\ acken' = TRUE /\ pend' = FALSE
  /\ \E lost \in BOOLEAN :
       /\ start' = (start /\ ~lost) /\ busy' = (busy /\ ~lost)
       /\ rxmode' = (rxmode /\ ~lost) /\ lastbit' = (lastbit /\ ~lost)
  /\ UNCHANGED <<drv, task, isr, ghost, counts>>

-----------------------------------------------------------------------------
(* The controller and the bus (external). *)

(* A byte has gone over the bus; nak is its ninth bit. *)
BusByte(nak) ==
  /\ start /\ ~pend /\ ~suspended /\ ~oops
  /\ pend' = TRUE /\ lastbit' = nak
  /\ UNCHANGED <<drv, suspended, irqen, acken, start, busy, rxmode, task, isr,
                 ghost, counts>>

(* The STOP has gone over the bus, after the interrupt was acknowledged. *)
BusStop ==
  /\ busy /\ ~start /\ ~pend /\ ~suspended /\ ~oops
  /\ busy' = FALSE
  /\ UNCHANGED <<drv, suspended, con, start, rxmode, lastbit, task, isr, ghost, counts>>

(* Another master addresses the controller at the slave address of         *)
(* s3c24xx_i2c_init, whose interrupt nobody asked for.                     *)
BusSpurious ==
  /\ nspurious < MaxSpurious
  /\ ~start /\ ~busy /\ ~pend /\ ~suspended /\ ~oops
  /\ pend' = TRUE /\ nspurious' = nspurious + 1
  /\ UNCHANGED <<drv, suspended, irqen, acken, stat, task, isr, ghost, nxfer, nsuspend>>

-----------------------------------------------------------------------------
Task ==
  \/ Doxfer \/ SetMasterFree \/ SetMasterBusy \/ StartXfer
  \/ WaitCheck \/ WaitTimeout \/ ReadResult \/ BusIdle \/ Return

Irq ==
  \/ IrqUnwanted \/ IrqStart \/ IrqWrite \/ IrqRead
  \/ WriteByte \/ WriteStop \/ WriteNextStart \/ WriteNextNoStart \/ WriteRefuse
  \/ RetryWriteNull \/ PrepareRead
  \/ MasterComplete \/ DisableIrq \/ OutAck

Bus == (\E nak \in BOOLEAN : BusByte(nak)) \/ BusStop

Next ==
  \/ \E l \in MsgLists : Xfer(l)
  \/ Task \/ Irq \/ Bus
  \/ BusSpurious \/ Suspend \/ Resume

(* The scheduler runs a ready task and a raised interrupt, and the timer   *)
(* of the wait expires; whether the bus ever answers is Timely's business. *)
Spec ==
  /\ Init /\ [][Next]_vars
  /\ WF_vars(Task) /\ WF_vars(Irq)
  /\ (Timely => WF_vars(Bus))

-----------------------------------------------------------------------------
(* Properties. *)

DriverType ==
  /\ state \in States
  /\ msgs \in MsgLists \cup {<<>>} /\ msg \in 0..Len(msgs)
  /\ msg_num \in {0, Len(msgs)} /\ msg_ptr \in Nat
  /\ msg_idx \in 0..Len(msgs) \cup Errors
  /\ moved \in [1..Len(msgs) -> Nat]

RegisterType ==
  /\ suspended \in BOOLEAN
  /\ irqen \in BOOLEAN /\ acken \in BOOLEAN /\ pend \in BOOLEAN
  /\ start \in BOOLEAN /\ busy \in BOOLEAN /\ rxmode \in BOOLEAN /\ lastbit \in BOOLEAN
  /\ live \in BOOLEAN /\ oops \in BOOLEAN

ThreadType ==
  /\ pc \in TaskPoints /\ args \in MsgLists \cup {<<>>}
  /\ retry \in 0..(Retries - 1) /\ ret \in Int /\ clk \in {0, 1}
  /\ irqPc \in IrqPoints /\ irqErr \in Errors \cup {0}
  /\ nxfer \in 0..MaxXfer /\ nsuspend \in 0..MaxSuspend /\ nspurious \in 0..MaxSpurious

(* Every variable of the driver, of the controller's registers and of the  *)
(* two threads of control holds a value of its C type: i2c->msg stays in   *)
(* the array, msg_idx is a count of messages or a return code.             *)
TypeOK == DriverType /\ RegisterType /\ ThreadType

(* The handler never fetches a byte behind the end of a message's buffer,  *)
(* and never stores one there, whatever interrupts late, after a suspend   *)
(* or for a transfer that timed out (msg->buf[msg_ptr++]).                 *)
BufferBounds ==
  /\ \A i \in 1..Len(msgs) : moved[i] <= msgs[i].len
  /\ msg # NULL => msg_ptr <= msgs[msg].len

(* The handler never follows a NULL i2c->msg: it has set msg to NULL only  *)
(* in states in which no label of i2c_s3c_irq_nextbyte uses it.            *)
NoNullMessage == ~oops /\ (irqPc \in {"retry_write", "prepare_read"} => msg # NULL)

(* A count that s3c24xx_i2c_xfer returns is a count of messages whose      *)
(* bytes have all been moved, timeouts and late interrupts included.       *)
CountedMeansMoved ==
  pc = "retry" /\ ret > 0 => \A i \in 1..ret : moved[i] = msgs[i].len

(* While the caller waits for an unfinished transfer its interrupt is      *)
(* enabled: the s3c24xx_i2c_disable_irq that ends the previous transfer    *)
(* never lands behind the s3c24xx_i2c_enable_irq of this one.              *)
TransferKeepsIrq == pc \in {"wait", "sleep"} /\ msg_num # 0 => irqen

(* The handler touches the messages of a call only until that call has     *)
(* returned: they may be on the caller's stack.                            *)
HandlerOwnsMessages ==
  irqPc \in {"retry_write", "prepare_read"} /\ msg # NULL => live

(* The handler touches the controller's registers only while the transfer  *)
(* that enabled its clock has not disabled it.                             *)
HandlerClocked == irqPc # "none" => clk = 1

(* Bytes flow in the direction of the current message, and the controller  *)
(* was switched to that direction with a START.                            *)
DirectionMatches ==
  /\ irqPc = "prepare_read" => msgs[msg].rd /\ rxmode
  /\ irqPc = "retry_write" /\ msg # NULL => ~msgs[msg].rd /\ ~rxmode

(* The controller acknowledges every byte it reads but the last byte of    *)
(* the last message, whose refusal tells the slave to release the bus.     *)
LastByteRefused ==
  irqPc = "prepare_read" => (acken <=> ~(is_msgend /\ is_lastmsg))

(* A call of s3c24xx_i2c_xfer returns, unless the handler has read through *)
(* a NULL message and stopped the kernel.                                  *)
XferReturns == pc # "idle" ~> pc = "idle" \/ oops

=============================================================================
