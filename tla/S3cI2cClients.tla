--------------------------- MODULE S3cI2cClients ---------------------------
(***************************************************************************)
(* The S3C24xx I2C driver under the clients of this repository: a register *)
(* write (one write message), a register read (a write and a read message, *)
(* linux_driver/i2c/4412-i2c2.c) and the probe of the I2C core (one empty  *)
(* message).  They read only with the last message, and a message that     *)
(* asks for no START of its own is a write.                                *)
(***************************************************************************)
EXTENDS S3cI2c

WriteMsg(n) == [rd |-> FALSE, len |-> n, nostart |-> FALSE, ignoreNak |-> FALSE]
ReadMsg(n)  == [rd |-> TRUE, len |-> n, nostart |-> FALSE, ignoreNak |-> FALSE]

(* The touch screen: a register is written by one message of two bytes and *)
(* read by two of one byte each, from the kernel and through its file.     *)
touch_screen_write_byte == << WriteMsg(2) >>
touch_screen_read_byte  == << WriteMsg(1), ReadMsg(1) >>
i2c_touch_screen_write_func == << WriteMsg(2) >>
i2c_touch_screen_read_func  == << WriteMsg(1), ReadMsg(1) >>

TouchScreenLists ==
  { touch_screen_write_byte, touch_screen_read_byte,
    i2c_touch_screen_write_func, i2c_touch_screen_read_func }

ASSUME ClientAssumption ==
  \A l \in MsgLists : \A i \in 1..Len(l) :
    l[i].rd => i = Len(l) /\ ~l[i].nostart

(* A handler that runs beside the task is raised by a transfer only, and   *)
(* no task resets the controller beneath it.                               *)
ASSUME SmpAssumption == Smp => MaxSpurious = 0 /\ ~HdmiPhy

-----------------------------------------------------------------------------
(* The inductive invariant behind the theorems of S3cI2cProofs. *)

(* i2c->msg is set exactly while a transfer is under way, and agrees with  *)
(* the message and byte counters.                                          *)
Cursor ==
  /\ msg # NULL <=> state \in {"START", "READ", "WRITE"}
  /\ msg = NULL => msg_num = 0
  /\ msg # NULL => /\ msg_num = Len(msgs)
                   /\ msg_idx = msg - 1
                   /\ msg_ptr <= msgs[msg].len

(* What the handler has moved, message by message. *)
Moves ==
  /\ \A i \in 1..Len(msgs) : moved[i] <= msgs[i].len
  /\ msg # NULL => /\ moved[msg] = msg_ptr
                   /\ \A i \in 1..Len(msgs) : i > msg => moved[i] = 0

(* READ and WRITE agree with the message; between two interrupts a read    *)
(* still has room for a byte.                                              *)
Direction ==
  /\ state = "READ" => /\ msgs[msg].rd
                       /\ irqPc # "prepare_read" => msg_ptr < msgs[msg].len
  /\ state = "WRITE" => ~msgs[msg].rd

(* The labels of the handler and the states they belong to. *)
Handler ==
  /\ irqPc # "none" => pend /\ ~suspended
  /\ irqPc = "retry_write" => state = "WRITE"
  /\ irqPc = "prepare_read" => state = "READ"
  /\ irqPc \in {"complete", "irqoff"} => state = "STOP"
  /\ irqErr # EINVAL /\ ~oops

(* The calling task; beside a running handler it never owns the bus. *)
Caller ==
  /\ pc # "idle" => args \in MsgLists
  /\ clk = IF pc = "idle" THEN 0 ELSE 1
  /\ Smp => /\ start \/ pend => busy
            /\ pc = "start" => ~busy

IInv == /\ TypeOK /\ Cursor /\ Moves /\ Direction /\ Handler /\ Caller
        /\ TransferKeepsIrq

(* On one processor, what msg_idx and then ret count has been moved. *)
Counted ==
  /\ irqPc # "complete" \/ irqErr = 0 =>
       \A i \in 1..Len(msgs) : i <= msg_idx => moved[i] = msgs[i].len
  /\ pc \in {"bus_idle", "retry"} => /\ ret <= Len(msgs)
                                     /\ \A i \in 1..Len(msgs) : i <= ret => moved[i] = msgs[i].len
=============================================================================
