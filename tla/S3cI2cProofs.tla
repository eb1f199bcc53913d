---------------------------- MODULE S3cI2cProofs ----------------------------
(***************************************************************************)
(* Proofs about the S3C24xx I2C driver, for every set of message arrays    *)
(* that satisfies ClientAssumption and for every bound.                    *)
(*                                                                         *)
(* The handler takes no lock, so the safety of i2c->msg rests on the       *)
(* agreement of several variables: the state of the machine, the label the *)
(* handler is at, the message and byte counters, and the BUSBUSY bit that  *)
(* keeps the next transfer away while the handler finishes the last one.   *)
(* IInv (in S3cI2cClients) states that agreement; there is one lemma per   *)
(* action.                                                                 *)
(***************************************************************************)
EXTENDS S3cI2cClients, TLAPS

USE DEF vars, drv, con, stat, task, isr, ghost, counts, NULL

(* What the assumptions say of one array of messages. *)
LEMMA ListFacts ==
  ASSUME NEW l \in MsgLists
  PROVE  /\ l \in Seq(Msg) /\ Len(l) \in Nat /\ Len(l) >= 1
         /\ \A i \in 1..Len(l) : /\ l[i] \in Msg /\ l[i].len \in Nat
                                 /\ l[i].rd \in BOOLEAN /\ l[i].nostart \in BOOLEAN
                                 /\ l[i].ignoreNak \in BOOLEAN
                                 /\ l[i].rd => i = Len(l) /\ ~l[i].nostart
<1>1. l \in Seq(Msg) /\ l # <<>>
  BY ConstAssumption
<1>2. Len(l) \in Nat /\ Len(l) >= 1 /\ \A i \in 1..Len(l) : l[i] \in Msg
  BY <1>1
<1>3. QED
  BY <1>1, <1>2, ClientAssumption DEF Msg

(* The same of the array the handler works on. *)
LEMMA CurrentFacts ==
  ASSUME IInv
  PROVE  /\ Len(msgs) \in Nat
         /\ \A i \in 1..Len(msgs) : /\ msgs[i] \in Msg /\ msgs[i].len \in Nat
                                    /\ msgs[i].rd \in BOOLEAN /\ msgs[i].nostart \in BOOLEAN
                                    /\ msgs[i].ignoreNak \in BOOLEAN
                                    /\ msgs[i].rd => i = Len(msgs) /\ ~msgs[i].nostart
<1>1. CASE msgs \in MsgLists
  BY <1>1, ListFacts
<1>2. CASE msgs = <<>>
  BY <1>2
<1>3. QED
  BY <1>1, <1>2 DEF IInv, TypeOK, DriverType

(* A new call of s3c24xx_i2c_xfer keeps the invariant.                     *)
LEMMA XferStep == ASSUME NEW l \in MsgLists, IInv, Xfer(l) PROVE IInv'
<1>1. DriverType' /\ RegisterType' /\ Cursor' /\ Moves' /\ Direction' /\
   Handler' /\ Caller' /\ TransferKeepsIrq'
  BY DEF IInv, TypeOK, DriverType, RegisterType, Cursor, Moves, Direction,
     Handler, Caller, TransferKeepsIrq, Xfer, TaskRuns, States, Errors
<1>2. ThreadType'
  BY ConstAssumption, SmpAssumption, CurrentFacts
     DEF IInv, TypeOK, DriverType, RegisterType, ThreadType, Cursor, Moves,
        Direction, Handler, Caller, TransferKeepsIrq, Xfer, TaskRuns,
        TaskPoints, IrqPoints, EINVAL
<1>3. QED
  BY <1>1, <1>2 DEF IInv, TypeOK

(* The entry of s3c24xx_i2c_doxfer, suspended or not, keeps it.            *)
LEMMA DoxferStep == ASSUME IInv, Doxfer PROVE IInv'
BY DEF IInv, TypeOK, DriverType, RegisterType, ThreadType, Cursor, Moves,
     Direction, Handler, Caller, TransferKeepsIrq, Doxfer, TaskRuns, States,
     Errors, EIO, TaskPoints, IrqPoints

(* A free bus lets the task start: no handler can be running then.         *)
LEMMA SetMasterFreeStep == ASSUME IInv, SetMasterFree PROVE IInv'
BY DEF IInv, TypeOK, DriverType, RegisterType, ThreadType, Cursor, Moves,
     Direction, Handler, Caller, TransferKeepsIrq, SetMasterFree, TaskRuns,
     States, Errors, TaskPoints, IrqPoints

(* A busy bus ends the attempt, or resets an HDMIPHY controller.           *)
LEMMA SetMasterBusyStep == ASSUME IInv, SetMasterBusy PROVE IInv'
<1>1. DriverType' /\ Cursor' /\ Moves' /\ Direction' /\ Caller' /\
   TransferKeepsIrq'
  BY DEF IInv, TypeOK, DriverType, Cursor, Moves, Direction, Caller,
     TransferKeepsIrq, SetMasterBusy, TaskRuns, States, Errors, EAGAIN
<1>2. RegisterType'
  BY DEF IInv, TypeOK, RegisterType, SetMasterBusy, TaskRuns, EAGAIN
<1>3. ThreadType'
  <2>1. CASE HdmiPhy
    BY <2>1 DEF IInv, TypeOK, ThreadType, SetMasterBusy, TaskPoints
  <2>2. CASE ~HdmiPhy
    BY <2>2 DEF IInv, TypeOK, ThreadType, SetMasterBusy, TaskPoints, EAGAIN
  <2>3. QED
    BY <2>1, <2>2
<1>4. Handler'
  BY ConstAssumption, SmpAssumption, CurrentFacts
     DEF IInv, TypeOK, DriverType, RegisterType, ThreadType, Cursor, Moves,
        Direction, Handler, Caller, TransferKeepsIrq, SetMasterBusy, TaskRuns,
        EAGAIN, EINVAL
<1>5. QED
  BY <1>1, <1>2, <1>3, <1>4 DEF IInv, TypeOK

(* The locked section hands over an array of which nothing is moved yet; no *)
(* handler runs, because the bus was found free.                           *)
LEMMA StartXferStep == ASSUME IInv, StartXfer PROVE IInv'
<1>1. /\ args \in MsgLists /\ Len(args) \in Nat /\ Len(args) >= 1
      /\ args[1].rd \in BOOLEAN
      /\ \A i \in 1..Len(args) : args[i].len \in Nat
  BY ListFacts DEF IInv, Caller, StartXfer
<1>2. /\ msgs' = args /\ msg' = 1 /\ msg_num' = Len(args) /\ msg_ptr' = 0 /\ msg_idx' = 0
      /\ state' = "START" /\ moved' = [i \in 1..Len(args) |-> 0]
      /\ irqen' = TRUE /\ live' = TRUE /\ acken' = TRUE /\ rxmode' = args[1].rd
      /\ start' = TRUE /\ busy' = TRUE /\ pc = "start" /\ pc' = "wait"
      /\ UNCHANGED <<suspended, pend, lastbit, args, retry, ret, clk, isr, oops, counts>>
  BY DEF StartXfer, message_start
<1>3. irqPc = "none"
  BY ConstAssumption DEF IInv, Handler, Caller, StartXfer, TaskRuns
<1>4. DriverType'
  BY <1>1, <1>2 DEF DriverType, States
<1>5. RegisterType'
  BY <1>1, <1>2 DEF RegisterType, IInv, TypeOK
<1>6. ThreadType'
  BY <1>2 DEF ThreadType, IInv, TypeOK, TaskPoints
<1>7. Cursor'
  BY <1>1, <1>2 DEF Cursor
<1>8. Moves'
  BY <1>1, <1>2 DEF Moves
<1>9. Direction'
  BY <1>2 DEF Direction
<1>10. Handler'
  BY <1>2, <1>3 DEF Handler, IInv
<1>11. Caller'
  BY <1>1, <1>2 DEF Caller, IInv
<1>12. TransferKeepsIrq'
  BY <1>2 DEF TransferKeepsIrq
<1>13. QED
  BY <1>4, <1>5, <1>6, <1>7, <1>8, <1>9, <1>10, <1>11, <1>12 DEF IInv, TypeOK

(* The test of msg_num before and after sleeping keeps it.                 *)
LEMMA WaitCheckStep == ASSUME IInv, WaitCheck PROVE IInv'
BY DEF IInv, TypeOK, DriverType, RegisterType, ThreadType, Cursor, Moves,
     Direction, Handler, Caller, TransferKeepsIrq, WaitCheck, TaskRuns, States,
     Errors, TaskPoints, IrqPoints

(* A timeout leaves the transfer to the handler, which keeps it.           *)
LEMMA WaitTimeoutStep == ASSUME IInv, WaitTimeout PROVE IInv'
BY DEF IInv, TypeOK, DriverType, RegisterType, ThreadType, Cursor, Moves,
     Direction, Handler, Caller, TransferKeepsIrq, WaitTimeout, TaskRuns,
     States, Errors, TaskPoints, IrqPoints

(* The result is a message count or an error code.                         *)
LEMMA ReadResultStep == ASSUME IInv, ReadResult PROVE IInv'
<1>1. DriverType' /\ RegisterType' /\ Cursor' /\ Moves' /\ Direction' /\
   Handler' /\ Caller' /\ TransferKeepsIrq'
  BY DEF IInv, TypeOK, DriverType, RegisterType, Cursor, Moves, Direction,
     Handler, Caller, TransferKeepsIrq, ReadResult, TaskRuns, States, Errors,
     EIO, ENXIO, EAGAIN, EINVAL, ECONNREFUSED, EREMOTEIO
<1>2. ThreadType'
  BY DEF IInv, TypeOK, DriverType, RegisterType, ThreadType, ReadResult,
     TaskRuns, TaskPoints, IrqPoints, Errors, EIO, ENXIO, EAGAIN, EINVAL,
     ECONNREFUSED, EREMOTEIO
<1>3. QED
  BY <1>1, <1>2 DEF IInv, TypeOK

(* The wait for the STOP changes nothing of the transfer.                  *)
LEMMA BusIdleStep == ASSUME IInv, BusIdle PROVE IInv'
BY DEF IInv, TypeOK, DriverType, RegisterType, ThreadType, Cursor, Moves,
     Direction, Handler, Caller, TransferKeepsIrq, BusIdle, TaskRuns, States,
     Errors, TaskPoints, IrqPoints

(* The end of a call, or its next attempt, keeps it.                       *)
LEMMA ReturnStep == ASSUME IInv, Return PROVE IInv'
<1>1. DriverType' /\ Cursor' /\ Moves' /\ Direction' /\ Handler' /\
   Caller' /\ TransferKeepsIrq'
  BY DEF IInv, TypeOK, DriverType, Cursor, Moves, Direction, Handler, Caller,
     TransferKeepsIrq, Return, TaskRuns, States, Errors, EAGAIN, EREMOTEIO
<1>2. RegisterType'
  BY DEF IInv, TypeOK, RegisterType, Return, TaskRuns, EAGAIN, EREMOTEIO
<1>3. ThreadType'
  BY ConstAssumption, SmpAssumption, CurrentFacts
     DEF IInv, TypeOK, DriverType, RegisterType, ThreadType, Cursor, Moves,
        Direction, Handler, Caller, TransferKeepsIrq, Return, TaskRuns,
        TaskPoints, IrqPoints, EAGAIN, EREMOTEIO, EINVAL
<1>4. QED
  BY <1>1, <1>2, <1>3 DEF IInv, TypeOK

(* An interrupt in STATE_IDLE or STATE_STOP touches no message.            *)
LEMMA IrqUnwantedStep == ASSUME IInv, IrqUnwanted PROVE IInv'
BY DEF IInv, TypeOK, DriverType, RegisterType, ThreadType, Cursor, Moves,
     Direction, Handler, Caller, TransferKeepsIrq, IrqUnwanted, IrqEnters,
     States, Errors, TaskPoints, IrqPoints

(* The address interrupt chooses the direction of its message.             *)
LEMMA IrqStartStep == ASSUME IInv, IrqStart PROVE IInv'
<1>1. Cursor' /\ Moves' /\ Direction' /\ Handler' /\ Caller' /\
   TransferKeepsIrq'
  BY DEF IInv, Cursor, Moves, Direction, Handler, Caller, TransferKeepsIrq,
     IrqStart, IrqEnters, stop, is_lastmsg, ENXIO, EINVAL, Errors
<1>2. DriverType'
  BY CurrentFacts
     DEF IInv, TypeOK, DriverType, RegisterType, ThreadType, Cursor, Handler,
        IrqStart, IrqEnters, stop, is_lastmsg, States, Errors, ENXIO, EINVAL
<1>3. RegisterType'
  BY DEF IInv, TypeOK, RegisterType, IrqStart, IrqEnters, stop, is_lastmsg,
     ENXIO
<1>4. ThreadType'
  BY DEF IInv, TypeOK, ThreadType, IrqStart, IrqEnters, stop, is_lastmsg,
     TaskPoints, IrqPoints, ENXIO, EINVAL, Errors
<1>5. QED
  BY <1>1, <1>2, <1>3, <1>4 DEF IInv, TypeOK

(* The interrupt after a written byte keeps it.                            *)
LEMMA IrqWriteStep == ASSUME IInv, IrqWrite PROVE IInv'
<1>1. Cursor' /\ Moves' /\ Direction' /\ Handler' /\ Caller' /\
   TransferKeepsIrq'
  BY DEF IInv, Cursor, Moves, Direction, Handler, Caller, TransferKeepsIrq,
     IrqWrite, IrqEnters, stop, ECONNREFUSED, EINVAL, Errors
<1>2. DriverType'
  BY CurrentFacts
     DEF IInv, TypeOK, DriverType, RegisterType, ThreadType, Cursor, Handler,
        IrqWrite, IrqEnters, stop, States, Errors, ECONNREFUSED, EINVAL
<1>3. RegisterType'
  BY DEF IInv, TypeOK, RegisterType, IrqWrite, IrqEnters, stop, ECONNREFUSED
<1>4. ThreadType'
  BY DEF IInv, TypeOK, ThreadType, IrqWrite, IrqEnters, stop, TaskPoints,
     IrqPoints, ECONNREFUSED, EINVAL, Errors
<1>5. QED
  BY <1>1, <1>2, <1>3, <1>4 DEF IInv, TypeOK

(* A received byte is stored inside the buffer of its message.             *)
LEMMA IrqReadStep == ASSUME IInv, IrqRead PROVE IInv'
<1>1. RegisterType' /\ ThreadType' /\ Direction' /\ Handler' /\ Caller' /\
   TransferKeepsIrq'
  BY DEF IInv, TypeOK, RegisterType, ThreadType, Direction, Handler, Caller,
     TransferKeepsIrq, IrqRead, IrqEnters, TaskPoints, IrqPoints
<1>2. DriverType'
  BY CurrentFacts
     DEF IInv, TypeOK, DriverType, RegisterType, ThreadType, Cursor, Handler,
        IrqRead, IrqEnters, States, Errors
<1>3. Cursor'
  BY ConstAssumption, SmpAssumption, CurrentFacts
     DEF IInv, TypeOK, DriverType, RegisterType, ThreadType, Cursor, Moves,
        Direction, Handler, Caller, TransferKeepsIrq, IrqRead, IrqEnters,
        EINVAL
<1>4. Moves'
  BY ConstAssumption, SmpAssumption, CurrentFacts
     DEF IInv, TypeOK, DriverType, RegisterType, ThreadType, Cursor, Moves,
        Direction, Handler, Caller, TransferKeepsIrq, IrqRead, IrqEnters,
        EINVAL
<1>5. QED
  BY <1>1, <1>2, <1>3, <1>4 DEF IInv, TypeOK

(* A written byte is fetched inside the buffer of its message.             *)
LEMMA WriteByteStep == ASSUME IInv, WriteByte PROVE IInv'
<1>1. DriverType' /\ RegisterType' /\ ThreadType' /\ Handler' /\
   Caller' /\ TransferKeepsIrq'
  BY DEF IInv, TypeOK, DriverType, RegisterType, ThreadType, Handler, Caller,
     TransferKeepsIrq, WriteByte, AtRetryWrite, is_msgend, States, Errors,
     TaskPoints, IrqPoints
<1>2. Cursor'
  BY CurrentFacts
     DEF IInv, TypeOK, DriverType, RegisterType, ThreadType, Cursor, Handler,
        WriteByte, AtRetryWrite, is_msgend
<1>3. Moves'
  BY CurrentFacts
     DEF IInv, TypeOK, DriverType, RegisterType, ThreadType, Cursor, Handler,
        Moves, WriteByte, AtRetryWrite, is_msgend
<1>4. Direction'
  BY CurrentFacts
     DEF IInv, TypeOK, DriverType, RegisterType, ThreadType, Cursor, Handler,
        Direction, WriteByte, AtRetryWrite, is_msgend
<1>5. QED
  BY <1>1, <1>2, <1>3, <1>4 DEF IInv, TypeOK

(* The end of the last written message clears i2c->msg.                    *)
LEMMA WriteStopStep == ASSUME IInv, WriteStop PROVE IInv'
<1>1. Cursor' /\ Moves' /\ Direction' /\ Caller' /\ TransferKeepsIrq'
  BY DEF IInv, Cursor, Moves, Direction, Caller, TransferKeepsIrq, WriteStop,
     AtRetryWrite, stop, is_msgend
<1>2. DriverType'
  BY CurrentFacts
     DEF IInv, TypeOK, DriverType, RegisterType, ThreadType, Cursor, Handler,
        WriteStop, AtRetryWrite, stop, is_msgend, States, Errors
<1>3. RegisterType'
  BY DEF IInv, TypeOK, RegisterType, WriteStop, AtRetryWrite, stop, is_msgend
<1>4. ThreadType'
  BY DEF IInv, TypeOK, ThreadType, WriteStop, AtRetryWrite, stop, is_msgend,
     TaskPoints, IrqPoints
<1>5. Handler'
  BY ConstAssumption, SmpAssumption, CurrentFacts
     DEF IInv, TypeOK, DriverType, RegisterType, ThreadType, Cursor, Moves,
        Direction, Handler, Caller, TransferKeepsIrq, WriteStop, AtRetryWrite,
        stop, is_msgend, EINVAL
<1>6. QED
  BY <1>1, <1>2, <1>3, <1>4, <1>5 DEF IInv, TypeOK

(* The next message begins with nothing of it moved.                       *)
LEMMA WriteNextStartStep == ASSUME IInv, WriteNextStart PROVE IInv'
<1>1. ThreadType' /\ Direction' /\ Handler' /\ TransferKeepsIrq'
  BY DEF IInv, TypeOK, ThreadType, Direction, Handler, TransferKeepsIrq,
     WriteNextStart, AtRetryWrite, message_start, is_lastmsg, is_msgend,
     TaskPoints, IrqPoints
<1>2. DriverType'
  BY CurrentFacts
     DEF IInv, TypeOK, DriverType, RegisterType, ThreadType, Cursor, Handler,
        WriteNextStart, AtRetryWrite, message_start, is_lastmsg, is_msgend,
        States, Errors
<1>3. RegisterType'
  BY CurrentFacts
     DEF IInv, TypeOK, DriverType, RegisterType, ThreadType, Cursor, Handler,
        WriteNextStart, AtRetryWrite, message_start, is_lastmsg, is_msgend
<1>4. Cursor'
  BY CurrentFacts
     DEF IInv, TypeOK, DriverType, RegisterType, ThreadType, Cursor, Handler,
        WriteNextStart, AtRetryWrite, message_start, is_lastmsg, is_msgend
<1>5. Moves'
  BY CurrentFacts
     DEF IInv, TypeOK, DriverType, RegisterType, ThreadType, Cursor, Handler,
        Moves, WriteNextStart, AtRetryWrite, message_start, is_lastmsg,
        is_msgend
<1>6. Caller'
  BY CurrentFacts
     DEF IInv, TypeOK, DriverType, RegisterType, ThreadType, Cursor, Handler,
        Caller, WriteNextStart, AtRetryWrite, message_start, is_lastmsg,
        is_msgend
<1>7. QED
  BY <1>1, <1>2, <1>3, <1>4, <1>5, <1>6 DEF IInv, TypeOK

(* The same for a message written without a START.                         *)
LEMMA WriteNextNoStartStep == ASSUME IInv, WriteNextNoStart PROVE IInv'
<1>1. RegisterType' /\ ThreadType' /\ Handler' /\ Caller' /\
   TransferKeepsIrq'
  BY DEF IInv, TypeOK, RegisterType, ThreadType, Handler, Caller,
     TransferKeepsIrq, WriteNextNoStart, AtRetryWrite, is_lastmsg, is_msgend,
     TaskPoints, IrqPoints
<1>2. DriverType'
  BY CurrentFacts
     DEF IInv, TypeOK, DriverType, RegisterType, ThreadType, Cursor, Handler,
        WriteNextNoStart, AtRetryWrite, is_lastmsg, is_msgend, States, Errors
<1>3. Cursor'
  BY CurrentFacts
     DEF IInv, TypeOK, DriverType, RegisterType, ThreadType, Cursor, Handler,
        WriteNextNoStart, AtRetryWrite, is_lastmsg, is_msgend
<1>4. Moves'
  BY CurrentFacts
     DEF IInv, TypeOK, DriverType, RegisterType, ThreadType, Cursor, Handler,
        Moves, WriteNextNoStart, AtRetryWrite, is_lastmsg, is_msgend
<1>5. Direction'
  BY CurrentFacts
     DEF IInv, TypeOK, DriverType, RegisterType, ThreadType, Cursor, Handler,
        Direction, WriteNextNoStart, AtRetryWrite, is_lastmsg, is_msgend
<1>6. QED
  BY <1>1, <1>2, <1>3, <1>4, <1>5 DEF IInv, TypeOK

(* No client asks to read without a START, so it is never refused. *)
LEMMA WriteRefuseStep == ASSUME IInv, WriteRefuse PROVE IInv'
BY CurrentFacts
     DEF IInv, TypeOK, DriverType, Cursor, WriteRefuse, AtRetryWrite,
        is_lastmsg, is_msgend

(* The handler never gets to retry_write without a message. *)
LEMMA RetryWriteNullStep == ASSUME IInv, RetryWriteNull PROVE IInv'
BY DEF IInv, Cursor, Handler, RetryWriteNull

(* prepare_read leaves room for the next byte, or ends the transfer.       *)
LEMMA PrepareReadStep == ASSUME IInv, PrepareRead PROVE IInv'
<1>1. Caller' /\ TransferKeepsIrq'
  BY DEF IInv, Caller, TransferKeepsIrq, PrepareRead, stop, is_lastmsg,
     is_msgend, is_msglast
<1>2. DriverType'
  BY CurrentFacts
     DEF IInv, TypeOK, DriverType, RegisterType, ThreadType, Cursor, Handler,
        PrepareRead, stop, is_lastmsg, is_msgend, is_msglast, States, Errors
<1>3. RegisterType'
  BY DEF IInv, TypeOK, RegisterType, PrepareRead, stop, is_lastmsg, is_msgend,
     is_msglast
<1>4. ThreadType'
  BY DEF IInv, TypeOK, ThreadType, PrepareRead, stop, is_lastmsg, is_msgend,
     is_msglast, TaskPoints, IrqPoints
<1>5. Cursor'
  BY CurrentFacts
     DEF IInv, TypeOK, DriverType, RegisterType, ThreadType, Cursor, Handler,
        PrepareRead, stop, is_lastmsg, is_msgend, is_msglast
<1>6. Moves'
  BY CurrentFacts
     DEF IInv, TypeOK, DriverType, RegisterType, ThreadType, Cursor, Handler,
        Moves, PrepareRead, stop, is_lastmsg, is_msgend, is_msglast
<1>7. Direction'
  BY CurrentFacts
     DEF IInv, TypeOK, DriverType, RegisterType, ThreadType, Cursor, Handler,
        Direction, PrepareRead, stop, is_lastmsg, is_msgend, is_msglast
<1>8. Handler'
  BY ConstAssumption, SmpAssumption, CurrentFacts
     DEF IInv, TypeOK, DriverType, RegisterType, ThreadType, Cursor, Moves,
        Direction, Handler, Caller, TransferKeepsIrq, PrepareRead, stop,
        is_lastmsg, is_msgend, is_msglast, EINVAL
<1>9. QED
  BY <1>1, <1>2, <1>3, <1>4, <1>5, <1>6, <1>7, <1>8 DEF IInv, TypeOK

(* The return code replaces the count, and the task is woken.              *)
LEMMA MasterCompleteStep == ASSUME IInv, MasterComplete PROVE IInv'
<1>1. RegisterType' /\ ThreadType' /\ Moves' /\ Direction' /\ Handler' /\
   Caller' /\ TransferKeepsIrq'
  BY DEF IInv, TypeOK, RegisterType, ThreadType, Moves, Direction, Handler,
     Caller, TransferKeepsIrq, MasterComplete, TaskPoints, IrqPoints, EINVAL,
     Errors
<1>2. DriverType'
  BY DEF IInv, TypeOK, DriverType, RegisterType, ThreadType, MasterComplete,
     States, Errors, EINVAL
<1>3. Cursor'
  BY CurrentFacts
     DEF IInv, TypeOK, DriverType, RegisterType, ThreadType, Cursor, Handler,
        MasterComplete, EINVAL, Errors
<1>4. QED
  BY <1>1, <1>2, <1>3 DEF IInv, TypeOK

(* The interrupt is masked while no transfer is under way.                 *)
LEMMA DisableIrqStep == ASSUME IInv, DisableIrq PROVE IInv'
<1>1. DriverType' /\ Cursor' /\ Moves' /\ Direction' /\ Handler' /\
   Caller'
  BY DEF IInv, TypeOK, DriverType, Cursor, Moves, Direction, Handler, Caller,
     DisableIrq, States, Errors, EINVAL
<1>2. RegisterType'
  BY DEF IInv, TypeOK, RegisterType, DisableIrq
<1>3. ThreadType'
  BY DEF IInv, TypeOK, ThreadType, DisableIrq, TaskPoints, IrqPoints, EINVAL,
     Errors
<1>4. TransferKeepsIrq'
  BY CurrentFacts
     DEF IInv, TypeOK, DriverType, RegisterType, ThreadType, Cursor, Handler,
        TransferKeepsIrq, DisableIrq, EINVAL, Errors
<1>5. QED
  BY <1>1, <1>2, <1>3, <1>4 DEF IInv, TypeOK

(* The acknowledge ends the handler.                                       *)
LEMMA OutAckStep == ASSUME IInv, OutAck PROVE IInv'
<1>1. DriverType' /\ Cursor' /\ Moves' /\ Direction' /\ Caller' /\
   TransferKeepsIrq'
  BY DEF IInv, TypeOK, DriverType, Cursor, Moves, Direction, Caller,
     TransferKeepsIrq, OutAck, States, Errors
<1>2. RegisterType'
  BY DEF IInv, TypeOK, RegisterType, OutAck
<1>3. ThreadType'
  BY DEF IInv, TypeOK, ThreadType, OutAck, TaskPoints, IrqPoints
<1>4. Handler'
  BY ConstAssumption, SmpAssumption, CurrentFacts
     DEF IInv, TypeOK, DriverType, RegisterType, ThreadType, Cursor, Moves,
        Direction, Handler, Caller, TransferKeepsIrq, OutAck, EINVAL
<1>5. QED
  BY <1>1, <1>2, <1>3, <1>4 DEF IInv, TypeOK

(* Suspend finds no handler running.                                       *)
LEMMA SuspendStep == ASSUME IInv, Suspend PROVE IInv'
<1>1. DriverType' /\ RegisterType' /\ Cursor' /\ Moves' /\ Direction' /\
   Handler' /\ Caller' /\ TransferKeepsIrq'
  BY DEF IInv, TypeOK, DriverType, RegisterType, Cursor, Moves, Direction,
     Handler, Caller, TransferKeepsIrq, Suspend, States, Errors
<1>2. ThreadType'
  BY ConstAssumption, SmpAssumption, CurrentFacts
     DEF IInv, TypeOK, DriverType, RegisterType, ThreadType, Cursor, Moves,
        Direction, Handler, Caller, TransferKeepsIrq, Suspend, TaskPoints,
        IrqPoints, EINVAL
<1>3. QED
  BY <1>1, <1>2 DEF IInv, TypeOK

(* Resume re-initialises the controller under an unfinished transfer.      *)
LEMMA ResumeStep == ASSUME IInv, Resume PROVE IInv'
<1>1. DriverType' /\ Cursor' /\ Moves' /\ Direction' /\ Handler' /\
   Caller' /\ TransferKeepsIrq'
  BY DEF IInv, TypeOK, DriverType, Cursor, Moves, Direction, Handler, Caller,
     TransferKeepsIrq, Resume, States, Errors
<1>2. RegisterType'
  BY DEF IInv, TypeOK, RegisterType, Resume
<1>3. ThreadType'
  BY DEF IInv, TypeOK, ThreadType, Resume, TaskPoints, IrqPoints
<1>4. QED
  BY <1>1, <1>2, <1>3 DEF IInv, TypeOK

(* A byte on the bus raises the interrupt of a busy bus.                   *)
LEMMA BusByteStep == ASSUME NEW nak \in BOOLEAN, IInv, BusByte(nak) PROVE IInv'
BY DEF IInv, TypeOK, DriverType, RegisterType, ThreadType, Cursor, Moves,
     Direction, Handler, Caller, TransferKeepsIrq, BusByte, States, Errors,
     TaskPoints, IrqPoints

(* The STOP on the bus is seen after the interrupt is acknowledged.        *)
LEMMA BusStopStep == ASSUME IInv, BusStop PROVE IInv'
<1>1. DriverType' /\ Cursor' /\ Moves' /\ Direction' /\ Handler' /\
   Caller' /\ TransferKeepsIrq'
  BY DEF IInv, TypeOK, DriverType, Cursor, Moves, Direction, Handler, Caller,
     TransferKeepsIrq, BusStop, States, Errors
<1>2. RegisterType'
  BY DEF IInv, TypeOK, RegisterType, BusStop
<1>3. ThreadType'
  BY DEF IInv, TypeOK, ThreadType, BusStop, TaskPoints, IrqPoints
<1>4. QED
  BY <1>1, <1>2, <1>3 DEF IInv, TypeOK

(* An interrupt nobody asked for finds no transfer on one processor, and is *)
(* excluded by SmpAssumption on several.                                    *)
LEMMA BusSpuriousStep == ASSUME IInv, BusSpurious PROVE IInv'
<1>1. DriverType' /\ RegisterType' /\ Cursor' /\ Moves' /\ Direction' /\
   Handler' /\ TransferKeepsIrq'
  BY DEF IInv, TypeOK, DriverType, RegisterType, Cursor, Moves, Direction,
     Handler, TransferKeepsIrq, BusSpurious, States, Errors
<1>2. ThreadType'
  BY ConstAssumption, SmpAssumption, CurrentFacts
     DEF IInv, TypeOK, DriverType, RegisterType, ThreadType, Cursor, Moves,
        Direction, Handler, Caller, TransferKeepsIrq, BusSpurious, TaskPoints,
        IrqPoints, EINVAL
<1>3. Caller'
  BY ConstAssumption, SmpAssumption, CurrentFacts
     DEF IInv, TypeOK, DriverType, RegisterType, ThreadType, Cursor, Moves,
        Direction, Handler, Caller, TransferKeepsIrq, BusSpurious, EINVAL
<1>4. QED
  BY <1>1, <1>2, <1>3 DEF IInv, TypeOK

(* The agreement holds at first and is kept by every step. *)
LEMMA InitIInv == Init => IInv
<1>1. Init => DriverType
  <2>1. <<>> \in [1..Len(<<>>) -> Nat] /\ Len(<<>>) = 0
    OBVIOUS
  <2>2. QED
    BY <2>1 DEF Init, DriverType, States
<1>2. Init => RegisterType
  BY DEF Init, RegisterType
<1>3. Init => ThreadType
  BY ConstAssumption DEF Init, ThreadType, TaskPoints, IrqPoints
<1>4. Init => Cursor
  BY DEF Init, Cursor
<1>5. Init => Moves
  BY DEF Init, Moves
<1>6. Init => Direction
  BY DEF Init, Direction
<1>7. Init => Handler
  BY DEF Init, Handler, EINVAL
<1>8. Init => Caller
  BY DEF Init, Caller
<1>9. Init => TransferKeepsIrq
  BY DEF Init, TransferKeepsIrq
<1>10. QED
  BY <1>1, <1>2, <1>3, <1>4, <1>5, <1>6, <1>7, <1>8, <1>9 DEF IInv, TypeOK

(* Every step of the task, the handler, the bus and power management. *)
LEMMA NextIInv == IInv /\ [Next]_vars => IInv'
<1>1. ASSUME IInv, Task PROVE IInv'
  BY <1>1, DoxferStep, SetMasterFreeStep, SetMasterBusyStep, StartXferStep, WaitCheckStep,
     WaitTimeoutStep, ReadResultStep, BusIdleStep, ReturnStep DEF Task
<1>2. ASSUME IInv, Irq PROVE IInv'
  BY <1>2, IrqUnwantedStep, IrqStartStep, IrqWriteStep, IrqReadStep, WriteByteStep,
     WriteStopStep, WriteNextStartStep, WriteNextNoStartStep, WriteRefuseStep,
     RetryWriteNullStep, PrepareReadStep, MasterCompleteStep, DisableIrqStep, OutAckStep
     DEF Irq
<1>3. ASSUME IInv, Bus PROVE IInv'
  BY <1>3, BusByteStep, BusStopStep DEF Bus
<1>4. ASSUME IInv, UNCHANGED vars PROVE IInv'
  BY <1>4 DEF IInv, TypeOK, DriverType, RegisterType, ThreadType, Cursor, Moves, Direction,
              Handler, Caller, TransferKeepsIrq
<1>5. QED
  BY <1>1, <1>2, <1>3, <1>4, XferStep, BusSpuriousStep, SuspendStep, ResumeStep DEF Next

(* The agreement of i2c->state, i2c->msg, the counters and the BUSBUSY bit  *)
(* that the lock-free handler of s3c24xx_i2c_irq relies on always holds.    *)
THEOREM Invariance == Spec => []IInv
<1>1. Init => IInv
  BY InitIInv
<1>2. IInv /\ [Next]_vars => IInv'
  BY NextIInv
<1>3. QED
  BY <1>1, <1>2, PTL DEF Spec

(* Every variable keeps its type: i2c->msg stays inside the caller's array *)
(* and the counters of the driver in their ranges.                         *)
THEOREM TypeCorrect == Spec => []TypeOK
<1>1. IInv => TypeOK
  BY DEF IInv
<1>2. QED
  BY <1>1, Invariance, PTL

(* i2c_s3c_irq_nextbyte stays inside the buffers, for arrays of any length *)
(* and messages of any size, on one processor or several, whatever         *)
(* interrupts after a timeout, a suspend or a reset of the controller.     *)
THEOREM BuffersSafe == Spec => []BufferBounds
<1>1. IInv => BufferBounds
  BY DEF IInv, Cursor, Moves, BufferBounds
<1>2. QED
  BY <1>1, Invariance, PTL

(* The handler never follows a NULL i2c->msg. *)
THEOREM NullSafe == Spec => []NoNullMessage
<1>1. IInv => NoNullMessage
  BY DEF IInv, Cursor, Handler, NoNullMessage
<1>2. QED
  BY <1>1, Invariance, PTL

(* The interrupt of a transfer that is waited for is never left disabled by *)
(* the end of an earlier transfer.                                          *)
THEOREM IrqKept == Spec => []TransferKeepsIrq
<1>1. IInv => TransferKeepsIrq
  BY DEF IInv
<1>2. QED
  BY <1>1, Invariance, PTL

-----------------------------------------------------------------------------
(* On one processor msg_idx counts messages moved to their end, except in  *)
(* the window of s3c24xx_i2c_master_complete that no task can see.         *)
LEMMA TaskCounted == ASSUME IInv, Counted, ~Smp, Task PROVE Counted'
<1>1. CASE Doxfer \/ SetMasterFree \/ WaitCheck \/ WaitTimeout \/ BusIdle \/ Return
  BY <1>1, CurrentFacts
     DEF Counted, Doxfer, SetMasterFree, WaitCheck, WaitTimeout, BusIdle, Return, TaskRuns,
         EIO, EAGAIN, EREMOTEIO
<1>2. CASE SetMasterBusy
  <2>1. CASE HdmiPhy
    BY <1>2, <2>1 DEF Counted, SetMasterBusy
  <2>2. CASE ~HdmiPhy
    <3>1. ret' = EAGAIN /\ UNCHANGED <<msgs, msg_idx, moved, irqPc, irqErr>>
      BY <1>2, <2>2 DEF SetMasterBusy
    <3>2. QED
      BY <3>1, CurrentFacts DEF Counted, EAGAIN
  <2>3. QED
    BY <2>1, <2>2
<1>3. CASE StartXfer
  BY <1>3 DEF Counted, StartXfer, TaskRuns
<1>4. CASE ReadResult
  BY <1>4, CurrentFacts
     DEF Counted, ReadResult, TaskRuns, IInv, TypeOK, DriverType, Errors, EIO, ENXIO, EAGAIN,
         EINVAL, ECONNREFUSED, EREMOTEIO
<1>5. QED
  BY <1>1, <1>2, <1>3, <1>4 DEF Task

(* The handler counts a message only at its end. *)
LEMMA IrqCounted == ASSUME IInv, Counted, ~Smp, Irq PROVE Counted'
<1>1. CASE IrqUnwanted \/ DisableIrq \/ OutAck
  BY <1>1, CurrentFacts DEF Counted, IrqUnwanted, IrqEnters, DisableIrq, OutAck, IInv, Handler
<1>2. CASE IrqStart
  BY <1>2, CurrentFacts
     DEF Counted, IrqStart, IrqEnters, stop, is_lastmsg, ENXIO, IInv, TypeOK, DriverType, ThreadType, Cursor, Moves, Handler
<1>3. CASE IrqWrite
  BY <1>3, CurrentFacts DEF Counted, IrqWrite, IrqEnters, stop, ECONNREFUSED
<1>4. CASE IrqRead
  <2>1. /\ msg \in 1..Len(msgs) /\ msg_idx = msg - 1 /\ moved[msg] < msgs[msg].len
        /\ irqPc # "complete"
    BY <1>4, CurrentFacts
       DEF IrqRead, IrqEnters, IInv, TypeOK, DriverType, Cursor, Moves, Direction
  <2>2. \A i \in 1..Len(msgs) : i # msg => moved'[i] = moved[i]
    BY <1>4 DEF IrqRead, IInv, TypeOK, DriverType
  <2>3. UNCHANGED <<msgs, msg_idx, pc, ret, irqErr>>
    BY <1>4 DEF IrqRead
  <2>4. QED
    BY <2>1, <2>2, <2>3, CurrentFacts DEF Counted, IInv, TypeOK, DriverType, ThreadType
<1>5. CASE WriteByte
  BY <1>5, CurrentFacts
     DEF Counted, WriteByte, AtRetryWrite, is_msgend, IInv, TypeOK, DriverType, ThreadType, Cursor, Moves, Handler
<1>6. CASE WriteStop
  BY <1>6, CurrentFacts
     DEF Counted, WriteStop, AtRetryWrite, is_msgend, stop, IInv, TypeOK, DriverType, ThreadType, Cursor, Moves, Handler
<1>7. CASE WriteNextStart
  BY <1>7, CurrentFacts
     DEF Counted, WriteNextStart, AtRetryWrite, is_msgend, message_start, IInv, TypeOK, DriverType, ThreadType, Cursor, Moves, Handler
<1>8. CASE WriteNextNoStart
  BY <1>8, CurrentFacts
     DEF Counted, WriteNextNoStart, AtRetryWrite, is_msgend, IInv, TypeOK, DriverType, ThreadType, Cursor, Moves, Handler
<1>9. CASE WriteRefuse
  BY <1>9, CurrentFacts DEF IInv, TypeOK, DriverType, Cursor, WriteRefuse, AtRetryWrite, is_lastmsg
<1>10. CASE RetryWriteNull
  BY <1>10 DEF IInv, Cursor, Handler, RetryWriteNull
<1>11. CASE PrepareRead
  BY <1>11, CurrentFacts
     DEF Counted, PrepareRead, is_msglast, is_msgend, is_lastmsg, stop, Direction,
         IInv, TypeOK, DriverType, ThreadType, Cursor, Moves, Handler
<1>12. CASE MasterComplete
  BY <1>12, CurrentFacts
     DEF Counted, MasterComplete, Errors, EIO, ENXIO, EAGAIN, EINVAL, ECONNREFUSED, EREMOTEIO,
         TaskPoints, IInv, TypeOK, DriverType, ThreadType, Cursor, Moves, Handler
<1>13. QED
  BY <1>1, <1>2, <1>3, <1>4, <1>5, <1>6, <1>7, <1>8, <1>9, <1>10, <1>11, <1>12 DEF Irq

(* Every step keeps the count right on one processor. *)
LEMMA NextCounted == IInv /\ Counted /\ ~Smp /\ [Next]_vars => Counted'
<1>. SUFFICES ASSUME IInv, Counted, ~Smp, [Next]_vars PROVE Counted'
  OBVIOUS
<1>1. CASE \E l \in MsgLists : Xfer(l)
  BY <1>1 DEF Counted, Xfer
<1>2. CASE Bus
  BY <1>2 DEF Counted, Bus, BusByte, BusStop
<1>3. CASE BusSpurious \/ Suspend \/ Resume
  BY <1>3 DEF Counted, BusSpurious, Suspend, Resume
<1>4. CASE UNCHANGED vars
  BY <1>4 DEF Counted
<1>5. QED
  BY <1>1, <1>2, <1>3, <1>4, TaskCounted, IrqCounted DEF Next

(* On one processor a positive result of s3c24xx_i2c_xfer is a number of   *)
(* messages that have been moved in full, also when the wait timed out.    *)
(* (On several processors the task may read msg_idx between two stores of  *)
(* s3c24xx_i2c_stop.)                                                      *)
THEOREM CountsRight == Spec => [](~Smp => CountedMeansMoved)
<1>1. Init => Counted
  BY DEF Init, Counted
<1>2. IInv /\ (~Smp => Counted) /\ [Next]_vars => (~Smp => Counted)'
  BY NextCounted
<1>3. IInv /\ (~Smp => Counted) => (~Smp => CountedMeansMoved)
  BY DEF IInv, TypeOK, DriverType, ThreadType, Counted, CountedMeansMoved
<1>4. QED
  BY <1>1, <1>2, <1>3, Invariance, PTL DEF Spec

-----------------------------------------------------------------------------
(* When the bus answers in time, the messages are the caller's only while  *)
(* it waits, on one processor or several.                                  *)
Waited == msg # NULL => pc \in {"wait", "sleep"} /\ live

(* Every step of the driver keeps a transfer's messages behind its caller. *)
LEMMA WaitedStep ==
  ASSUME Timely, IInv, Waited, [Next]_vars
  PROVE  Waited'
<1>1. CASE \E l \in MsgLists : Xfer(l)
  BY <1>1 DEF Waited, Xfer
<1>2. CASE Task
  <2>1. CASE StartXfer
    BY <2>1 DEF Waited, StartXfer
  <2>2. CASE WaitCheck
    <3>1. msg # NULL => msg_num # 0
      BY CurrentFacts DEF IInv, TypeOK, DriverType, Cursor
    <3>2. QED
      BY <2>2, <3>1 DEF Waited, WaitCheck
  <2>3. CASE Doxfer \/ SetMasterFree \/ SetMasterBusy \/ ReadResult \/ BusIdle \/ Return
    BY <2>3 DEF Waited, Doxfer, SetMasterFree, SetMasterBusy, ReadResult, BusIdle, Return
  <2>4. ~WaitTimeout
    BY DEF WaitTimeout
  <2>5. QED
    BY <1>2, <2>1, <2>2, <2>3, <2>4 DEF Task
<1>3. CASE Irq
  <2>1. UNCHANGED live /\ (msg' # NULL => msg # NULL)
    BY <1>3 DEF Irq, IrqUnwanted, IrqStart, IrqWrite, IrqRead, WriteByte, WriteStop, WriteNextStart, WriteNextNoStart,
       WriteRefuse, RetryWriteNull, PrepareRead, MasterComplete, DisableIrq, OutAck, stop, AtRetryWrite, IInv, Handler,
       Cursor
  <2>2. pc' = pc \/ (pc = "sleep" /\ pc' = "wait")
    BY <1>3 DEF Irq, IrqUnwanted, IrqStart, IrqWrite, IrqRead, WriteByte, WriteStop, WriteNextStart, WriteNextNoStart,
       WriteRefuse, RetryWriteNull, PrepareRead, MasterComplete, DisableIrq, OutAck
  <2>3. QED
    BY <2>1, <2>2 DEF Waited
<1>4. CASE Bus \/ BusSpurious \/ Suspend \/ Resume \/ UNCHANGED vars
  BY <1>4 DEF Waited, Bus, BusByte, BusStop, BusSpurious, Suspend, Resume
<1>5. QED
  BY <1>1, <1>2, <1>3, <1>4 DEF Next

(* The handler lets go of the messages before the call of                  *)
(* s3c24xx_i2c_xfer returns: they may be on the caller's stack.            *)
THEOREM MessagesOwned == Timely => (Spec => []HandlerOwnsMessages)
<1> SUFFICES ASSUME Timely PROVE Spec => []HandlerOwnsMessages
  OBVIOUS
<1>1. Init => Waited
  BY DEF Init, Waited
<1>2. IInv /\ Waited /\ [Next]_vars => Waited'
  BY WaitedStep
<1>3. Waited => HandlerOwnsMessages
  BY DEF Waited, HandlerOwnsMessages
<1>4. QED
  BY <1>1, <1>2, <1>3, Invariance, PTL DEF Spec

-----------------------------------------------------------------------------
(* On one processor an interrupt belongs to a transfer that is waited for, *)
(* when the bus answers in time and nobody else raises the interrupt.      *)
Raised ==
  /\ irqPc # "none" => pc \in {"wait", "sleep"}
  /\ start => msg # NULL
  /\ pend /\ irqPc = "none" => msg # NULL

(* A resume leaves no interrupt pending and gives no START: it keeps the   *)
(* registers, or they are lost.                                            *)
LEMMA ResumeSettles ==
  ASSUME IInv, Resume
  PROVE  /\ irqPc = "none" /\ UNCHANGED <<drv, irqPc, pc>> /\ ~pend' /\ irqen' /\ (start' => start)
         /\ UNCHANGED <<start, rxmode>> \/ ~start'
<1>1. irqPc = "none" /\ UNCHANGED <<drv, irqPc, pc>> /\ ~pend' /\ irqen'
  BY DEF Resume, IInv, Handler, task, isr
<1>2. PICK lost \in BOOLEAN : start' = (start /\ ~lost) /\ rxmode' = (rxmode /\ ~lost)
  BY DEF Resume
<1>3. start \in BOOLEAN /\ rxmode \in BOOLEAN
  BY DEF IInv, TypeOK, RegisterType
<1>4. CASE lost
  <2>1. ~start'
    BY <1>2, <1>4, Zenon
  <2>2. QED
    BY <1>1, <2>1, Zenon
<1>5. CASE ~lost
  <2>1. start' = start /\ rxmode' = rxmode
    BY <1>2, <1>3, <1>5, Zenon
  <2>2. QED
    BY <1>1, <2>1, Zenon
<1>6. QED
  BY <1>4, <1>5

(* Every step keeps the interrupt inside a transfer that is waited for. *)
LEMMA RaisedStep ==
  ASSUME ~Smp, Timely, MaxSpurious = 0, IInv, Waited, Raised, [Next]_vars
  PROVE  Raised'
<1> USE DEF Raised
<1>1. CASE \E l \in MsgLists : Xfer(l)
  BY <1>1 DEF Xfer, TaskRuns
<1>2. CASE Task
  BY <1>2 DEF Task, Doxfer, SetMasterFree, SetMasterBusy, StartXfer, WaitCheck, WaitTimeout, ReadResult, BusIdle, Return,
     TaskRuns, message_start
<1>3. CASE Irq
  <2>2. pc \in {"wait", "sleep"}
    <3>1. irqPc # "none" \/ IrqEnters
      BY <1>3 DEF Irq, IrqUnwanted, IrqStart, IrqWrite, IrqRead, WriteByte, WriteStop, WriteNextStart, WriteNextNoStart,
         WriteRefuse, RetryWriteNull, PrepareRead, MasterComplete, DisableIrq, OutAck, AtRetryWrite
    <3>2. QED
      BY <3>1 DEF IrqEnters, Waited
  <2>3. pc' \in {"wait", "sleep"}
    BY <1>3, <2>2 DEF Irq, IrqUnwanted, IrqStart, IrqWrite, IrqRead, WriteByte, WriteStop, WriteNextStart, WriteNextNoStart,
       WriteRefuse, RetryWriteNull, PrepareRead, MasterComplete, DisableIrq, OutAck
  <2>4. start' => msg' # NULL
    <3>1. msg \in Nat
      BY CurrentFacts DEF IInv, TypeOK, DriverType
    <3>2. CASE WriteNextStart \/ WriteNextNoStart \/ PrepareRead
      <4>1. \/ start' = start /\ msg' = msg
            \/ start' = FALSE
            \/ msg' = msg + 1
        BY <3>2 DEF WriteNextStart, WriteNextNoStart, PrepareRead, stop
      <4>2. ASSUME msg' = msg + 1 PROVE msg' # NULL
        BY <3>1, <4>2 DEF NULL
      <4>3. QED
        BY <4>1, <4>2, Zenon
    <3>3. CASE IrqStart \/ IrqWrite \/ WriteStop \/ WriteRefuse
      BY <3>3 DEF IrqStart, IrqWrite, WriteStop, WriteRefuse, stop
    <3>4. CASE IrqUnwanted \/ IrqRead \/ WriteByte \/ RetryWriteNull \/ MasterComplete \/ DisableIrq \/ OutAck
      BY <3>4 DEF IrqUnwanted, IrqRead, WriteByte, RetryWriteNull, MasterComplete, DisableIrq, OutAck
    <3>5. QED
      BY <1>3, <3>2, <3>3, <3>4 DEF Irq
  <2>5. irqPc' = "none" => ~pend'
    BY <1>3 DEF Irq, IrqUnwanted, IrqStart, IrqWrite, IrqRead, WriteByte, WriteStop, WriteNextStart, WriteNextNoStart,
       WriteRefuse, RetryWriteNull, PrepareRead, MasterComplete, DisableIrq, OutAck, stop, AtRetryWrite
  <2>6. QED
    BY <2>3, <2>4, <2>5
<1>4. CASE Bus \/ Suspend \/ UNCHANGED vars
  BY <1>4 DEF Bus, BusByte, BusStop, Suspend
<1>5. CASE Resume
  <2>1. UNCHANGED <<irqPc, pc, msg>> /\ ~pend' /\ (start' => start)
    BY <1>5, ResumeSettles
  <2>2. QED
    BY <2>1
<1>6. ~BusSpurious
  BY DEF BusSpurious, IInv, TypeOK, ThreadType
<1>7. QED
  BY <1>1, <1>2, <1>3, <1>4, <1>5, <1>6 DEF Next

(* The handler runs only while the caller's clock is on, also around a     *)
(* suspend and after a reset of the HDMIPHY controller.                    *)
THEOREM HandlerHasClock == ~Smp /\ Timely /\ MaxSpurious = 0 => (Spec => []HandlerClocked)
<1> SUFFICES ASSUME ~Smp, Timely, MaxSpurious = 0 PROVE Spec => []HandlerClocked
  OBVIOUS
<1>1. Init => Waited /\ Raised
  BY DEF Init, Waited, Raised
<1>2. IInv /\ Waited /\ Raised /\ [Next]_vars => Waited' /\ Raised'
  BY WaitedStep, RaisedStep
<1>3. IInv /\ Raised => HandlerClocked
  BY DEF IInv, Raised, Caller, HandlerClocked
<1>4. QED
  BY <1>1, <1>2, <1>3, Invariance, PTL DEF Spec

-----------------------------------------------------------------------------
(* Direction and acknowledge, on one processor or several, in time or not. *)

(* Without suspends the driver is not suspended. *)
Awake == MaxSuspend = 0 => ~suspended

(* Only a suspend sets i2c->suspended. *)
LEMMA AwakeStep ==
  ASSUME IInv, Awake, [Next]_vars
  PROVE  Awake'
<1>1. CASE \E l \in MsgLists : Xfer(l)
  BY <1>1 DEF Xfer, Awake
<1>2. CASE Task
  BY <1>2 DEF Task, Doxfer, SetMasterFree, SetMasterBusy, StartXfer, WaitCheck, WaitTimeout, ReadResult, BusIdle, Return,
     Awake
<1>3. CASE Irq
  BY <1>3 DEF Irq, IrqUnwanted, IrqStart, IrqWrite, IrqRead, WriteByte, WriteStop, WriteNextStart, WriteNextNoStart,
     WriteRefuse, RetryWriteNull, PrepareRead, MasterComplete, DisableIrq, OutAck, Awake
<1>4. CASE Bus \/ BusSpurious \/ Resume \/ UNCHANGED vars
  BY <1>4 DEF Bus, BusByte, BusStop, BusSpurious, Resume, Awake
<1>5. CASE Suspend
  BY <1>5 DEF Suspend, Awake, IInv, TypeOK, ThreadType
<1>6. QED
  BY <1>1, <1>2, <1>3, <1>4, <1>5 DEF Next

(* No handler starts before the next transfer does: nothing raises the     *)
(* interrupt, or the reset of the controller has disabled it.              *)
Silent == irqPc = "none" /\ (IF MaxSpurious = 0 THEN ~start /\ ~pend ELSE ~irqen)

(* The controller is switched to the direction of the message. *)
Switched == msg # NULL => (rxmode <=> msgs[msg].rd) \/ Silent

(* A reset and a resume, which lose the direction, leave silence behind.   *)
LEMMA SwitchedStep ==
  ASSUME MaxSuspend = 0 \/ MaxSpurious = 0, IInv, Awake, Switched, [Next]_vars
  PROVE  Switched'
<1> USE DEF Switched
<1>1. CASE \E l \in MsgLists : Xfer(l)
  BY <1>1 DEF Xfer, Silent
<1>2. CASE Task
  <2>1. CASE StartXfer
    BY <2>1 DEF StartXfer, message_start
  <2>2. CASE Doxfer \/ SetMasterFree \/ WaitCheck \/ WaitTimeout \/ ReadResult \/ BusIdle \/ Return
    BY <2>2 DEF Doxfer, SetMasterFree, WaitCheck, WaitTimeout, ReadResult, BusIdle, Return, Silent
  <2>3. CASE SetMasterBusy
    BY <2>3, SmpAssumption DEF SetMasterBusy, TaskRuns, Silent
  <2>4. QED
    BY <1>2, <2>1, <2>2, <2>3 DEF Task
<1>3. CASE Irq
  <2> USE DEF IInv, TypeOK, DriverType, Cursor, Direction, Handler
  <2>1. ~Silent
    BY <1>3 DEF Irq, IrqUnwanted, IrqStart, IrqWrite, IrqRead, WriteByte, WriteStop, WriteNextStart, WriteNextNoStart,
       WriteRefuse, RetryWriteNull, PrepareRead, MasterComplete, DisableIrq, OutAck, AtRetryWrite, IrqEnters, Silent
  <2>2. CASE IrqUnwanted \/ DisableIrq \/ OutAck \/ MasterComplete \/ RetryWriteNull \/ IrqRead \/ WriteByte
    BY <2>1, <2>2 DEF IrqUnwanted, DisableIrq, OutAck, MasterComplete, RetryWriteNull, IrqRead, WriteByte
  <2>3. CASE WriteStop \/ WriteRefuse \/ IrqWrite \/ IrqStart
    BY <2>1, <2>3 DEF WriteStop, WriteRefuse, IrqWrite, IrqStart, stop
  <2>4. CASE WriteNextStart
    BY <2>4 DEF WriteNextStart, message_start
  <2>5. CASE WriteNextNoStart
    BY <2>1, <2>5 DEF WriteNextNoStart, AtRetryWrite
  <2>6. CASE PrepareRead
    BY <2>1, <2>6, CurrentFacts DEF PrepareRead, is_msglast, is_msgend, is_lastmsg, stop
  <2>7. QED
    BY <1>3, <2>2, <2>3, <2>4, <2>5, <2>6 DEF Irq
<1>4. CASE Bus \/ Suspend
  BY <1>4 DEF Bus, BusByte, BusStop, Suspend, Silent
<1>5. CASE BusSpurious
  BY <1>5 DEF BusSpurious, Silent, IInv, TypeOK, ThreadType
<1>6. CASE Resume
  <2>1. MaxSpurious = 0
    BY <1>6 DEF Resume, Awake
  <2>2. QED
    BY <1>6, <2>1, ResumeSettles DEF Silent, drv
<1>7. CASE UNCHANGED vars
  BY <1>7 DEF Silent
<1>8. QED
  BY <1>1, <1>2, <1>3, <1>4, <1>5, <1>6, <1>7 DEF Next

(* Every byte goes in the direction the controller was switched to with    *)
(* the START, whatever messages come before without one of their own, also *)
(* after a timeout and, unless somebody else raises the interrupt, after a *)
(* suspend.                                                                *)
THEOREM DirectionsMatch == MaxSuspend = 0 \/ MaxSpurious = 0 => (Spec => []DirectionMatches)
<1> SUFFICES ASSUME MaxSuspend = 0 \/ MaxSpurious = 0 PROVE Spec => []DirectionMatches
  OBVIOUS
<1>1. Init => Awake /\ Switched
  BY DEF Init, Awake, Switched
<1>2. IInv /\ Awake /\ Switched /\ [Next]_vars => Awake' /\ Switched'
  BY AwakeStep, SwitchedStep
<1>3. IInv /\ Switched => DirectionMatches
  BY DEF IInv, TypeOK, RegisterType, Switched, Silent, Cursor, Direction, Handler, DirectionMatches
<1>4. QED
  BY <1>1, <1>2, <1>3, Invariance, PTL DEF Spec

(* The acknowledge of the next byte is set, unless a reset of the          *)
(* controller has taken the interrupt away.                                *)
Acknowledging ==
  \/ irqPc = "none" /\ ~irqen
  \/ /\ state = "START" => acken /\ msg_ptr = 0
     /\ state = "READ" /\ irqPc = "prepare_read" => (acken <=> msg_ptr < msgs[msg].len)
     /\ state = "READ" /\ irqPc # "prepare_read" => (acken <=> msg_ptr # msgs[msg].len - 1)

(* Every step leaves the acknowledge ready for the next byte. *)
LEMMA AcknowledgingStep ==
  ASSUME MaxSuspend = 0, IInv, Awake, Acknowledging, [Next]_vars
  PROVE  Acknowledging'
<1> USE DEF Acknowledging
<1>1. CASE \E l \in MsgLists : Xfer(l)
  BY <1>1 DEF Xfer
<1>2. CASE Task
  <2>1. CASE StartXfer
    BY <2>1 DEF StartXfer, message_start
  <2>2. CASE Doxfer \/ SetMasterFree \/ WaitCheck \/ WaitTimeout \/ ReadResult \/ BusIdle \/ Return
    BY <2>2 DEF Doxfer, SetMasterFree, WaitCheck, WaitTimeout, ReadResult, BusIdle, Return
  <2>3. CASE SetMasterBusy
    BY <2>3, SmpAssumption DEF SetMasterBusy, TaskRuns
  <2>4. QED
    BY <1>2, <2>1, <2>2, <2>3 DEF Task
<1>3. CASE Irq
  <2> USE DEF IInv, TypeOK, DriverType, Cursor, Direction, Handler
  <2>0. ~(irqPc = "none" /\ ~irqen)
    BY <1>3 DEF Irq, IrqUnwanted, IrqStart, IrqWrite, IrqRead, WriteByte, WriteStop, WriteNextStart, WriteNextNoStart,
       WriteRefuse, RetryWriteNull, PrepareRead, MasterComplete, DisableIrq, OutAck, AtRetryWrite, IrqEnters
  <2>1. CASE IrqUnwanted \/ DisableIrq \/ OutAck \/ MasterComplete \/ RetryWriteNull
    BY <2>0, <2>1 DEF IrqUnwanted, DisableIrq, OutAck, MasterComplete, RetryWriteNull
  <2>2. CASE WriteStop \/ WriteRefuse \/ IrqWrite \/ WriteByte
    BY <2>2 DEF WriteStop, WriteRefuse, IrqWrite, WriteByte, stop, AtRetryWrite, IrqEnters
  <2>3. CASE IrqStart
    <3>1. /\ state = "START" /\ acken /\ UNCHANGED <<msgs, acken>>
          /\ \/ msg' = NULL /\ state' = "STOP"
             \/ /\ ~(is_lastmsg /\ msgs[msg].len = 0) /\ UNCHANGED <<msg, msg_ptr>>
                /\ \/ msgs[msg].rd /\ state' = "READ" /\ irqPc' = "prepare_read"
                   \/ ~msgs[msg].rd /\ state' = "WRITE"
      BY <2>0, <2>3 DEF IrqStart, IrqEnters, stop
    <3>2. msg \in 1..Len(msgs) /\ msg_ptr \in Nat /\ msgs[msg].len \in Nat
      BY <3>1, CurrentFacts
    <3>3. msgs[msg].rd => is_lastmsg
      BY <3>2, CurrentFacts DEF is_lastmsg
    <3>4. msg_ptr = 0
      BY <2>0, <3>1
    <3>5. QED
      BY <3>1, <3>2, <3>3, <3>4
  <2>4. CASE IrqRead
    <3>1. /\ state = "READ" /\ irqPc = "none" /\ irqPc' = "prepare_read" /\ msg_ptr' = msg_ptr + 1
          /\ UNCHANGED <<state, msgs, msg, acken>>
      BY <2>4 DEF IrqRead, IrqEnters
    <3>2. /\ msg_ptr \in Nat /\ msgs[msg].len \in Nat /\ msg_ptr < msgs[msg].len
      BY <3>1, CurrentFacts
    <3>3. msg_ptr # msgs[msg].len - 1 <=> msg_ptr' < msgs'[msg'].len
      BY <3>1, <3>2
    <3>4. QED
      BY <2>0, <3>1, <3>3
  <2>5. CASE WriteNextStart
    BY <2>5 DEF WriteNextStart, message_start, AtRetryWrite
  <2>6. CASE WriteNextNoStart
    BY <2>6 DEF WriteNextNoStart, AtRetryWrite
  <2>7. CASE PrepareRead
    BY <2>0, <2>7, CurrentFacts DEF PrepareRead, is_msglast, is_msgend, is_lastmsg, stop
  <2>8. QED
    BY <1>3, <2>1, <2>2, <2>3, <2>4, <2>5, <2>6, <2>7 DEF Irq
<1>4. CASE Bus \/ BusSpurious \/ UNCHANGED vars
  BY <1>4 DEF Bus, BusByte, BusStop, BusSpurious
<1>5. ~Suspend /\ ~Resume
  BY DEF Suspend, Resume, Awake, IInv, TypeOK, ThreadType
<1>6. QED
  BY <1>1, <1>2, <1>3, <1>4, <1>5 DEF Next

(* For every length of a read: every byte but the last is acknowledged,    *)
(* also after timeouts, resets and interrupts nobody asked for; a resume   *)
(* in the middle of a read acknowledges one byte too many.                 *)
THEOREM LastByteNotAcknowledged == MaxSuspend = 0 => (Spec => []LastByteRefused)
<1> SUFFICES ASSUME MaxSuspend = 0 PROVE Spec => []LastByteRefused
  OBVIOUS
<1>1. Init => Awake /\ Acknowledging
  BY DEF Init, Awake, Acknowledging
<1>2. IInv /\ Awake /\ Acknowledging /\ [Next]_vars => Awake' /\ Acknowledging'
  BY AwakeStep, AcknowledgingStep
<1>3. IInv /\ Acknowledging => LastByteRefused
  <2> SUFFICES ASSUME IInv, Acknowledging, irqPc = "prepare_read" PROVE acken <=> ~(is_msgend /\ is_lastmsg)
    BY DEF LastByteRefused
  <2>1. state = "READ" /\ msg \in 1..Len(msgs) /\ msg_idx = msg - 1 /\ msg_num = Len(msgs) /\ msgs[msg].rd
    BY CurrentFacts DEF IInv, TypeOK, DriverType, Cursor, Direction, Handler
  <2>2. is_lastmsg
    BY <2>1, CurrentFacts DEF is_lastmsg
  <2>3. msg_ptr \in Nat /\ msgs[msg].len \in Nat
    BY <2>1, CurrentFacts DEF IInv, TypeOK, DriverType
  <2>4. is_msgend <=> ~(msg_ptr < msgs[msg].len)
    BY <2>3 DEF is_msgend
  <2>5. QED
    BY <2>1, <2>2, <2>4 DEF Acknowledging
<1>4. QED
  BY <1>1, <1>2, <1>3, Invariance, PTL DEF Spec

=============================================================================
