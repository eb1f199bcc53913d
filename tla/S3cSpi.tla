------------------------------- MODULE S3cSpi -------------------------------
(***************************************************************************)
(* The S3C64xx SPI controller driver (linux_driver/spi/spi_s3c64xx.c).     *)
(*                                                                         *)
(* Clients queue messages and set up devices; one worker of a single       *)
(* threaded work queue transfers the queued messages; the callbacks of two *)
(* DMA channels (external) complete its transfers; power management and    *)
(* the removal of the driver set SUSPND and wait for the worker.           *)
(* A section of the code under sdd->lock is one step.                      *)
(***************************************************************************)
EXTENDS Integers, Sequences, SequencesExt

CONSTANTS NONE,          \* no message, no device
          Devices, Dev,  \* Dev[d]: the spi_device d: the speed it was set up for, its mode
          ClkFromCmu,    \* sci->clk_from_cmu: the source clock itself is set
          SrcRate,       \* clk_get_rate(sdd->src_clk)
          Messages, Msg, \* Msg[m]: its device, its transfers, is_dma_mapped
          Aborts,        \* a DMA transfer may end with other than RES_OK
          MapFails,      \* dma_map_single may fail
          PoliteSetup,   \* no client calls spi_setup while a message of its device is in flight
          MaxSuspend,    \* bound: suspends and removals
          MaxSetup        \* bound: calls of spi_setup

Transfer == [tx : BOOLEAN, rx : BOOLEAN, dma : BOOLEAN, aligned : BOOLEAN,
             cs_change : BOOLEAN, speed : Nat]

ASSUME SpiAssumption ==
  /\ NONE \notin Devices /\ NONE \notin Messages
  /\ Dev \in [Devices -> [speed : Nat \ {0}, mode : SUBSET {"CPOL", "CPHA", "CS_HIGH"}]]
  /\ Msg \in [Messages -> [spi : Devices, xfers : Seq(Transfer), is_dma_mapped : BOOLEAN]]
  /\ ClkFromCmu \in BOOLEAN /\ SrcRate \in Nat \ {0, 1}
  /\ Aborts \in BOOLEAN /\ MapFails \in BOOLEAN /\ PoliteSetup \in BOOLEAN
  /\ MaxSuspend \in Nat /\ MaxSetup \in Nat

Channels == {"tx", "rx"}

VARIABLES
  queue, work,                 \* sdd->queue; the work item is pending
  suspnd, spibusy, busy,       \* sdd->state; busy: the channels whose TXBUSY / RXBUSY is set
  cur_speed, cur_mode,         \* the configuration the driver believes in
  hw,                          \* the configuration of the controller
  tgl_spi, level,              \* the device left selected; the chip select lines
  completion,                  \* xfer_completion
  wpc, msg, xi, status, cs_toggle, \* the worker and its locals
  seen,                        \* ... the SUSPND bit it has read of sdd->state
  spc, setting,                \* the caller of s3c64xx_spi_setup and its device
  act,                         \* the signals are active (S3C64XX_SPI_ACT)
  chan, mapped,                \* DMA: the running channels; the mapped buffers
  result,                      \* msg->status at completion
  pm, clk,                     \* power management; the clocks
  nsuspend, nsetup              \* the bounds' counters

driver == <<queue, work, suspnd, spibusy>>
config == <<cur_speed, cur_mode, hw>>
cs     == <<tgl_spi, level>>
worker == <<wpc, msg, xi, status, cs_toggle, seen>>
setup  == <<spc, setting>>
dma    == <<busy, completion, chan>>
counts == <<nsuspend, nsetup>>
vars   == <<driver, config, cs, worker, setup, act, dma, mapped, result, pm, clk, counts>>

Off == [speed |-> 0, mode |-> {}]   \* a controller that was not configured since power on

Init ==
  /\ queue = <<>> /\ work = FALSE /\ suspnd = FALSE /\ spibusy = FALSE /\ busy = {}
  /\ cur_speed = 0 /\ cur_mode = {} /\ hw = Off
  /\ tgl_spi = NONE
  /\ level = [d \in Devices |-> IF "CS_HIGH" \in Dev[d].mode THEN 0 ELSE 1]
  /\ completion = 0
  /\ wpc = "idle" /\ msg = NONE /\ xi = 0 /\ status = 0 /\ cs_toggle = FALSE
  /\ seen = FALSE /\ spc = "idle" /\ setting = NONE
  /\ act = FALSE /\ chan = {} /\ mapped = {}
  /\ result = [m \in Messages |-> "none"]
  /\ pm = "on" /\ clk = TRUE
  /\ nsuspend = 0 /\ nsetup = 0

-----------------------------------------------------------------------------
(* The message at work. *)
spi == Msg[msg].spi
xfers == Msg[msg].xfers
xfer == xfers[xi]

Accepted(m) == m = msg \/ m \in ToSet(queue)

ActiveLevel(mode) == IF "CS_HIGH" \in mode THEN 1 ELSE 0
InactiveLevel(mode) == 1 - ActiveLevel(mode)
Selected(d) == level[d] = ActiveLevel(Dev[d].mode)

(* The buffers of message m that s3c64xx_spi_map_mssg maps. *)
Slots(m) ==
  IF Msg[m].is_dma_mapped THEN {}
  ELSE {s \in (1..Len(Msg[m].xfers)) \X Channels :
          LET x == Msg[m].xfers[s[1]]
          IN  x.dma /\ IF s[2] = "tx" THEN x.tx ELSE x.rx}

(* The prescaler has eight bits. *)
PsrMask == 255
psr(speed) == ((SrcRate \div speed) \div 2 - 1) % (PsrMask + 1)
rate(p) == (SrcRate \div 2) \div (p + 1)

(* spi->max_speed_hz as spi_setup leaves it for a device that asks for a   *)
(* speed: what the prescaler can provide, though not with its last value.  *)
max_speed(d) ==
  LET half  == SrcRate \div 2
      asked == IF Dev[d].speed > half THEN half ELSE Dev[d].speed
      first == IF psr(asked) = PsrMask THEN PsrMask - 1 ELSE psr(asked)
      next  == IF rate(first) > asked /\ first + 1 < PsrMask THEN first + 1 ELSE first
  IN  IF ClkFromCmu THEN Dev[d].speed ELSE rate(next)

(* No device is set up at more than it asked for, or it is refused.        *)
ASSUME SetUpAssumption == \A d \in Devices : max_speed(d) \in 1..Dev[d].speed

(* s3c64xx_spi_config for the speed and mode the driver wants now. *)
Configure(speed, mode) ==
  /\ cur_speed' = speed /\ cur_mode' = mode
  /\ hw' = [speed |-> IF ClkFromCmu THEN speed ELSE rate(psr(speed)), mode |-> mode]

(* disable_cs of device d. *)
disable_cs(d) ==
  /\ tgl_spi' = IF tgl_spi = d THEN NONE ELSE tgl_spi
  /\ level' = [level EXCEPT ![d] = InactiveLevel(Dev[d].mode)]

-----------------------------------------------------------------------------
(* The clients. *)

(* s3c64xx_spi_transfer; under SUSPND it returns -ESHUTDOWN. *)
SpiTransfer(m) ==
  /\ ~suspnd /\ result[m] = "none" /\ ~Accepted(m)
  /\ PoliteSetup => setting # Msg[m].spi
  /\ queue' = Append(queue, m) /\ work' = TRUE
  /\ UNCHANGED <<suspnd, spibusy, config, cs, worker, setup, act, dma, mapped, result, pm,
                 clk, counts>>

(* Mutant: spi_setup does not look into the queue. *)
SetupUnchecked(d) ==
  /\ spc = "idle" /\ spc' = "deselect" /\ setting' = d
  /\ nsetup < MaxSetup /\ nsetup' = nsetup + 1
  /\ ~suspnd /\ (PoliteSetup /\ msg # NONE => spi # d)
  /\ UNCHANGED <<driver, config, cs, worker, act, dma, mapped, result, pm, clk,
                 nsuspend>>

(* s3c64xx_spi_setup of device d: the checks under the lock.  It is refused *)
(* while a message of d is in the queue, and under SUSPND.                  *)
SetupCheck(d) ==
  /\ spc = "idle" /\ spc' = "deselect" /\ setting' = d
  /\ nsetup < MaxSetup /\ nsetup' = nsetup + 1
  /\ \A m \in ToSet(queue) : Msg[m].spi # d
  /\ ~suspnd
  /\ PoliteSetup /\ msg # NONE => spi # d
  /\ UNCHANGED <<driver, config, cs, worker, act, dma, mapped, result, pm, clk,
                 nsuspend>>

(* setup_exit: disable_cs without the lock, which reads tgl_spi, ... *)
SetupReadToggled ==
  /\ spc = "deselect" /\ spc' = IF tgl_spi = setting THEN "clear" ELSE "level"
  /\ UNCHANGED <<driver, config, cs, worker, setting, act, dma, mapped, result, pm, clk,
                 counts>>

(* ... clears it if it was the device ... *)
SetupClearToggled ==
  /\ spc = "clear" /\ spc' = "level" /\ tgl_spi' = NONE
  /\ UNCHANGED <<driver, config, level, worker, setting, act, dma, mapped, result, pm, clk,
                 counts>>

(* ... and deselects the device. *)
SetupDeselect ==
  /\ spc = "level" /\ spc' = "idle" /\ setting' = NONE
  /\ level' = [level EXCEPT ![setting] = InactiveLevel(Dev[setting].mode)]
  /\ UNCHANGED <<driver, config, tgl_spi, worker, act, dma, mapped, result, pm, clk,
                 counts>>

-----------------------------------------------------------------------------
(* The worker: s3c64xx_spi_work. *)

(* The work item is taken and the DMA channels are acquired. *)
Work ==
  /\ wpc = "idle" /\ work
  /\ work' = FALSE /\ wpc' = "loop"
  /\ UNCHANGED <<queue, suspnd, spibusy, config, cs, msg, xi, status, cs_toggle, seen, setup,
                 act, dma, mapped, result, pm, clk, counts>>

(* Mutant: the newest message goes first. *)
TakeNewest ==
  /\ wpc = "loop" /\ queue # <<>> /\ ~suspnd
  /\ msg' = Last(queue) /\ queue' = Front(queue) /\ spibusy' = TRUE
  /\ wpc' = "config" /\ xi' = 0 /\ status' = 0 /\ cs_toggle' = FALSE
  /\ UNCHANGED <<work, suspnd, config, cs, seen, setup, act, dma, mapped, result, pm, clk,
                 counts>>

(* The locked section that takes the next message ... *)
TakeMessage ==
  /\ wpc = "loop" /\ queue # <<>> /\ ~suspnd
  /\ msg' = Head(queue) /\ queue' = Tail(queue) /\ spibusy' = TRUE
  /\ wpc' = "config" /\ xi' = 0 /\ status' = 0 /\ cs_toggle' = FALSE
  /\ UNCHANGED <<work, suspnd, config, cs, seen, setup, act, dma, mapped, result, pm, clk,
                 counts>>

(* ... or leaves the loop. *)
LeaveLoop ==
  /\ wpc = "loop" /\ (queue = <<>> \/ suspnd)
  /\ wpc' = "idle"
  /\ UNCHANGED <<driver, config, cs, msg, xi, status, cs_toggle, seen, setup, act, dma,
                 mapped, result, pm, clk, counts>>

-----------------------------------------------------------------------------
(* The worker: handle_msg. *)

(* Reconfigure when the device needs another speed or mode. *)
ConfigMessage ==
  /\ wpc = "config" /\ wpc' = "map"
  /\ IF cur_speed # max_speed(spi) \/ cur_mode # Dev[spi].mode
       THEN Configure(max_speed(spi), Dev[spi].mode) ELSE UNCHANGED config
  /\ UNCHANGED <<driver, cs, msg, xi, status, cs_toggle, seen, setup, act, dma, mapped,
                 result, pm, clk, counts>>

(* s3c64xx_spi_map_mssg maps all buffers ... *)
MapAll ==
  /\ wpc = "map" /\ wpc' = IF xfers = <<>> THEN "out" ELSE "begin"
  /\ mapped' = Slots(msg) /\ xi' = 1
  /\ UNCHANGED <<driver, config, cs, msg, status, cs_toggle, seen, setup, act, dma, result,
                 pm, clk, counts>>

(* ... or fails at a slot s, when it undoes the mapping of the same transfer. *)
MapFail ==
  /\ MapFails /\ wpc = "map" /\ wpc' = "out"
  /\ \E s \in Slots(msg) : mapped' = {t \in Slots(msg) : t[1] < s[1]}
  /\ status' = -12
  /\ UNCHANGED <<driver, config, cs, msg, xi, cs_toggle, seen, setup, act, dma, result, pm,
                 clk, counts>>

(* Mutant: a transfer without a speed of its own keeps the last one. *)
BeginKeepsSpeed ==
  /\ wpc = "begin" /\ completion' = 0
  /\ IF xfer.aligned
       THEN /\ wpc' = "start" /\ UNCHANGED status
            /\ IF xfer.speed \notin {0, cur_speed}
                 THEN Configure(xfer.speed, cur_mode) ELSE UNCHANGED config
       ELSE wpc' = "out" /\ status' = -5 /\ UNCHANGED config
  /\ UNCHANGED <<driver, cs, msg, xi, cs_toggle, seen, setup, act, busy, chan, mapped,
                 result, pm, clk, counts>>

(* The start of a transfer, before the lock: INIT_COMPLETION, the check of *)
(* its length, its own speed.                                              *)
BeginXfer ==
  /\ wpc = "begin" /\ completion' = 0
  /\ IF xfer.aligned
       THEN /\ wpc' = "start" /\ UNCHANGED status
            /\ LET speed == IF xfer.speed # 0 THEN xfer.speed ELSE max_speed(spi)
               IN  IF speed # cur_speed THEN Configure(speed, cur_mode) ELSE UNCHANGED config
       ELSE wpc' = "out" /\ status' = -5 /\ UNCHANGED config
  /\ UNCHANGED <<driver, cs, msg, xi, cs_toggle, seen, setup, act, busy, chan, mapped,
                 result, pm, clk, counts>>

(* The channels a transfer uses. *)
Uses(x) == {c \in Channels : IF c = "tx" THEN x.tx ELSE x.rx}

(* Mutant: enable_cs forgets the device left selected. *)
StartKeepsToggled ==
  /\ wpc = "start" /\ wpc' = "wait"
  /\ busy' = Uses(xfer)
  /\ chan' = IF xfer.dma THEN Uses(xfer) ELSE chan
  /\ level' = [level EXCEPT ![spi] = ActiveLevel(Dev[spi].mode)]
  /\ tgl_spi' = NONE /\ act' = TRUE
  /\ UNCHANGED <<driver, config, msg, xi, status, cs_toggle, completion, mapped, result, pm,
                 clk, counts, seen, setup>>

(* The locked section: enable_datapath, enable_cs and S3C64XX_SPI_ACT.     *)
(* enable_cs deselects the device left selected with the mode of this one. *)
StartXfer ==
  /\ wpc = "start" /\ wpc' = "wait"
  /\ busy' = Uses(xfer)
  /\ chan' = IF xfer.dma THEN Uses(xfer) ELSE chan
  /\ level' = [d \in Devices |->
                 IF d = spi THEN ActiveLevel(Dev[spi].mode)
                 ELSE IF d = tgl_spi THEN InactiveLevel(Dev[spi].mode)
                 ELSE level[d]]
  /\ tgl_spi' = NONE /\ act' = TRUE
  /\ UNCHANGED <<driver, config, msg, xi, status, cs_toggle, completion, mapped, result, pm,
                 clk, counts, seen, setup>>

(* wait_for_xfer in DMA mode: the completion; a transfer that only sends   *)
(* still has to drain the FIFO, which may take too long.                   *)
WaitDma ==
  /\ wpc = "wait" /\ xfer.dma /\ completion > 0
  /\ completion' = completion - 1
  /\ wpc' = "quiesce"
  /\ status' \in IF xfer.rx THEN {0} ELSE {0, -5}
  /\ UNCHANGED <<driver, config, cs, msg, xi, cs_toggle, seen, setup, act, busy, chan,
                 mapped, result, pm, clk, counts>>

(* wait_for_xfer in polling mode: the FIFO holds all bytes.  The flags are *)
(* changed without the lock: sdd->state is read ...                         *)
WaitPoll ==
  /\ wpc = "wait" /\ ~xfer.dma
  /\ wpc' = "store" /\ seen' = suspnd
  /\ UNCHANGED <<driver, config, cs, msg, xi, status, cs_toggle, setup, act, dma, mapped,
                 result, pm, clk, counts>>

(* ... and written back. *)
StoreFlags ==
  /\ wpc = "store" /\ wpc' = "quiesce" /\ status' = 0
  /\ suspnd' = seen /\ busy' = busy \ (IF xfer.rx THEN {"rx"} ELSE {"tx"})
  /\ UNCHANGED <<queue, work, spibusy, config, cs, msg, xi, cs_toggle, seen, setup, act,
                 completion, chan, mapped, result, pm, clk, counts>>

(* wait_for_xfer gives up. *)
WaitTimeout ==
  /\ wpc = "wait" /\ (xfer.dma => completion = 0)
  /\ wpc' = "quiesce" /\ status' = -5
  /\ UNCHANGED <<driver, config, cs, msg, xi, cs_toggle, seen, setup, act, dma, mapped,
                 result, pm, clk, counts>>

(* Mutant: a failed transfer leaves its DMA channels running. *)
QuiesceNoFlush ==
  /\ wpc = "quiesce" /\ act' = FALSE
  /\ wpc' = IF status = 0 THEN "next" ELSE "out"
  /\ UNCHANGED <<driver, config, cs, msg, xi, status, cs_toggle, seen, setup, dma, mapped,
                 result, pm, clk, counts>>

(* S3C64XX_SPI_DEACT. *)
Quiesce ==
  /\ wpc = "quiesce" /\ act' = FALSE
  /\ wpc' = IF status = 0 THEN "next" ELSE IF xfer.dma THEN "flush_tx" ELSE "out"
  /\ UNCHANGED <<driver, config, cs, msg, xi, status, cs_toggle, dma, mapped, result, pm,
                 clk, counts, seen, setup>>

(* Mutant: a callback does not look at the other channel. *)
CallbackAlone(c, ok) ==
  /\ chan' = chan \ {c}
  /\ busy' = IF ok THEN busy \ {c} ELSE busy
  /\ completion' = completion + 1

(* The callback of channel c: s3c64xx_spi_dma_rxcb or s3c64xx_spi_dma_txcb. *)
Callback(c, ok) ==
  /\ chan' = chan \ {c}
  /\ busy' = IF ok THEN busy \ {c} ELSE busy
  /\ completion' = IF busy \ {c} = {} THEN completion + 1 ELSE completion

(* S3C2410_DMAOP_FLUSH of a channel that is still busy; a flushed channel  *)
(* that runs gives its buffer back as aborted.                             *)
Flush(c) ==
  /\ wpc = IF c = "tx" THEN "flush_tx" ELSE "flush_rx"
  /\ wpc' = IF c = "tx" THEN "flush_rx" ELSE "out"
  /\ IF c \in busy /\ c \in chan THEN Callback(c, FALSE) ELSE UNCHANGED dma
  /\ UNCHANGED <<driver, config, cs, msg, xi, status, cs_toggle, seen, setup, act, mapped,
                 result, pm, clk, counts>>

(* The rest of the loop over the transfers: the cs_change hint, flush_fifo. *)
NextXfer ==
  /\ wpc = "next"
  /\ LET last == xi = Len(xfers) IN
       /\ wpc' = IF last THEN "out" ELSE "begin"
       /\ xi' = IF last THEN xi ELSE xi + 1
       /\ cs_toggle' = (cs_toggle \/ (xfer.cs_change /\ last))
       /\ IF xfer.cs_change /\ ~last THEN disable_cs(spi) ELSE UNCHANGED cs
  /\ UNCHANGED <<driver, config, msg, status, seen, setup, act, dma, mapped, result, pm, clk,
                 counts>>

(* Mutant: a failed message keeps its mappings. *)
FinishLeaksMappings ==
  /\ wpc = "out" /\ wpc' = "done"
  /\ IF ~cs_toggle \/ status # 0 THEN disable_cs(spi) ELSE tgl_spi' = spi /\ UNCHANGED level
  /\ mapped' = IF status = 0 THEN {} ELSE mapped
  /\ result' = [result EXCEPT ![msg] = IF status = 0 THEN "ok" ELSE "error"]
  /\ msg' = NONE
  /\ UNCHANGED <<driver, config, xi, status, cs_toggle, seen, setup, act, dma, pm, clk,
                 counts>>

(* out: the chip select, s3c64xx_spi_unmap_mssg, msg->complete. *)
FinishMessage ==
  /\ wpc = "out" /\ wpc' = "done"
  /\ IF ~cs_toggle \/ status # 0 THEN disable_cs(spi) ELSE tgl_spi' = spi /\ UNCHANGED level
  /\ mapped' = mapped \ Slots(msg)
  /\ result' = [result EXCEPT ![msg] = IF status = 0 THEN "ok" ELSE "error"]
  /\ msg' = NONE
  /\ UNCHANGED <<driver, config, xi, status, cs_toggle, seen, setup, act, dma, pm, clk,
                 counts>>

(* Mutant: one run of the work handles one message. *)
ClearBusyReturn ==
  /\ wpc = "done" /\ wpc' = "idle" /\ spibusy' = FALSE
  /\ UNCHANGED <<queue, work, suspnd, config, cs, msg, xi, status, cs_toggle, seen, setup,
                 act, dma, mapped, result, pm, clk, counts>>

(* Mutant: SPIBUSY is cleared only when the queue is empty. *)
ClearBusyWhenEmpty ==
  /\ wpc = "done" /\ wpc' = "loop" /\ spibusy' = (queue # <<>>)
  /\ UNCHANGED <<queue, work, suspnd, config, cs, msg, xi, status, cs_toggle, seen, setup,
                 act, dma, mapped, result, pm, clk, counts>>

(* Back under the lock: SPIBUSY is cleared.  It is a step apart from the  *)
(* next TakeMessage because suspend polls SPIBUSY without the lock.        *)
ClearBusy ==
  /\ wpc = "done" /\ wpc' = "loop" /\ spibusy' = FALSE
  /\ UNCHANGED <<queue, work, suspnd, config, cs, msg, xi, status, cs_toggle, seen, setup,
                 act, dma, mapped, result, pm, clk, counts>>

-----------------------------------------------------------------------------
(* The DMA engine (external) ends the transfer of a running channel. *)
DmaDone(c, ok) ==
  /\ c \in chan /\ (ok \/ Aborts)
  /\ Callback(c, ok)
  /\ UNCHANGED <<driver, config, cs, worker, setup, act, mapped, result, pm, clk,
                 counts>>

-----------------------------------------------------------------------------
(* Power management and removal. *)

(* The locked section at the start of s3c64xx_spi_suspend and _remove. *)
MarkSuspended(next) ==
  /\ pm = "on" /\ pm' = next
  /\ nsuspend < MaxSuspend /\ nsuspend' = nsuspend + 1
  /\ suspnd' = TRUE
  /\ UNCHANGED <<queue, work, spibusy, config, cs, worker, setup, act, dma, mapped, result,
                 clk, nsetup>>

(* Mutant: suspend does not wait for SPIBUSY. *)
SuspendAtOnce ==
  /\ pm = "suspending" /\ pm' = "suspended"
  /\ clk' = FALSE /\ cur_speed' = 0 /\ hw' = Off
  /\ UNCHANGED <<driver, cur_mode, cs, worker, setup, act, dma, mapped, result,
                 counts>>

(* SPIBUSY is clear: the clocks go off and the configuration is forgotten. *)
Suspended ==
  /\ pm = "suspending" /\ ~spibusy /\ pm' = "suspended"
  /\ clk' = FALSE /\ cur_speed' = 0 /\ hw' = Off
  /\ UNCHANGED <<driver, cur_mode, cs, worker, setup, act, dma, mapped, result,
                 counts>>

(* s3c64xx_spi_resume with s3c64xx_spi_hwinit, which stops the output clock *)
(* of a controller that has a prescaler; it does not queue the work.        *)
Resume ==
  /\ pm = "suspended" /\ pm' = "on"
  /\ clk' = TRUE /\ cur_speed' = 0 /\ suspnd' = FALSE /\ act' = FALSE
  /\ hw' = [hw EXCEPT !.speed = IF ClkFromCmu THEN @ ELSE 0]
  /\ UNCHANGED <<queue, work, spibusy, cur_mode, cs, worker, dma, mapped, result, counts, setup>>

(* s3c64xx_spi_remove goes on: SPIBUSY is clear, and destroy_workqueue     *)
(* waits for the work item to end.                                         *)
Removed ==
  /\ pm = "removing" /\ ~spibusy /\ ~work /\ wpc = "idle"
  /\ pm' = "removed" /\ clk' = FALSE
  /\ UNCHANGED <<driver, config, cs, worker, setup, act, dma, mapped, result,
                 counts>>

-----------------------------------------------------------------------------
Worker ==
  \/ Work \/ TakeMessage \/ LeaveLoop
  \/ ConfigMessage \/ MapAll \/ MapFail
  \/ BeginXfer \/ StartXfer \/ WaitDma \/ WaitPoll \/ StoreFlags \/ WaitTimeout
  \/ Quiesce \/ (\E c \in Channels : Flush(c)) \/ NextXfer \/ FinishMessage \/ ClearBusy

PowerManagement ==
  \/ MarkSuspended("suspending") \/ Suspended \/ Resume
  \/ MarkSuspended("removing") \/ Removed

Next ==
  \/ \E m \in Messages : SpiTransfer(m)
  \/ (\E d \in Devices : SetupCheck(d))
  \/ SetupReadToggled \/ SetupClearToggled \/ SetupDeselect
  \/ Worker
  \/ \E c \in Channels, ok \in BOOLEAN : DmaDone(c, ok)
  \/ PowerManagement

(* The workqueue runs its thread, which gives up every wait in time;       *)
(* suspend and removal poll SPIBUSY.  The DMA engine promises nothing.     *)
Spec ==
  /\ Init /\ [][Next]_vars
  /\ WF_vars(Worker) /\ WF_vars(Suspended) /\ WF_vars(Removed)

-----------------------------------------------------------------------------
(* Properties. *)

Handling == {"config", "map", "begin", "start", "wait", "store", "quiesce",
             "flush_tx", "flush_rx", "next", "out"}

(* Every variable holds a value of its type, and the worker has a message  *)
(* exactly while handle_msg runs.                                          *)
TypeOK ==
  /\ queue \in Seq(Messages) /\ work \in BOOLEAN /\ suspnd \in BOOLEAN /\ spibusy \in BOOLEAN
  /\ busy \subseteq Channels /\ chan \subseteq Channels /\ completion \in 0..1
  /\ cur_speed \in Nat /\ cur_mode \in SUBSET {"CPOL", "CPHA", "CS_HIGH"}
  /\ hw \in [speed : Nat, mode : SUBSET {"CPOL", "CPHA", "CS_HIGH"}]
  /\ tgl_spi \in Devices \cup {NONE} /\ level \in [Devices -> {0, 1}]
  /\ wpc \in Handling \cup {"idle", "loop", "done"}
  /\ msg \in Messages \cup {NONE} /\ (msg # NONE <=> wpc \in Handling)
  /\ seen \in BOOLEAN /\ xi \in Nat /\ status \in {0, -5, -12} /\ cs_toggle \in BOOLEAN
  /\ spc \in {"idle", "deselect", "clear", "level"} /\ setting \in Devices \cup {NONE}
  /\ (setting # NONE <=> spc # "idle")
  /\ act \in BOOLEAN /\ mapped \subseteq Nat \X Channels
  /\ result \in [Messages -> {"none", "ok", "error"}]
  /\ pm \in {"on", "suspending", "suspended", "removing", "removed"} /\ clk \in BOOLEAN
  /\ nsuspend \in 0..MaxSuspend /\ nsetup \in 0..MaxSetup

(* The worker is never in handle_msg while suspend or removal has switched *)
(* the controller's clocks off, although handle_msg runs without the lock. *)
ClockedTransfer == wpc \in Handling => clk

(* While a transfer's signals are active its device is selected: neither   *)
(* the end of another message nor spi_setup takes its chip select away.    *)
SelectedWhileActive == act => Selected(spi)

(* While a transfer's signals are active no other device is selected, the  *)
(* one left selected by the cs_change hint of an earlier message included. *)
ExclusiveCs == act => \A d \in Devices \ {spi} : ~Selected(d)

(* While a transfer's signals are active the controller has the mode of    *)
(* its device and the fastest clock the prescaler provides that is not     *)
(* faster than the transfer or else its device asked for, whatever         *)
(* configuration other messages, transfers or a suspend left behind.       *)
Configured ==
  act => LET asked == IF xfer.speed # 0 THEN xfer.speed ELSE Dev[spi].speed IN
         /\ hw.mode = Dev[spi].mode /\ hw.speed \in 1..asked
         /\ IF ClkFromCmu THEN hw.speed = asked
            ELSE \A p \in 0..PsrMask : rate(p) > asked \/ rate(p) <= hw.speed

(* A transfer that wait_for_xfer calls successful has ended in both        *)
(* directions: no channel is running or busy.                              *)
SuccessMeansMoved == wpc = "next" /\ xfer.dma => busy = {} /\ chan = {}

(* A DMA channel runs only on a buffer that is mapped: a message is        *)
(* unmapped and handed back when the engine has let go of it.              *)
DmaMapped == chan # {} => msg # NONE /\ \A c \in chan : <<xi, c>> \in mapped \/ Msg[msg].is_dma_mapped

(* When a message is completed none of its buffers stays mapped, however   *)
(* far its mapping or its transfers got.                                   *)
NoMappingLeft == msg = NONE => mapped = {}

(* Every message that s3c64xx_spi_transfer accepts is completed. *)
AcceptedCompletes == \A m \in Messages : Accepted(m) ~> result[m] # "none"

(* Suspend and removal get past their wait for the worker. *)
SuspendEnds == pm \in {"suspending", "removing"} ~> pm \in {"suspended", "removed"}

(* The driver is a first come, first served SPI service: each accepted     *)
(* message is completed once, in the order of acceptance, whatever         *)
(* suspends, resumes, removals and failures come in between.               *)
Service == INSTANCE SpiService WITH
  pending <- IF msg = NONE THEN queue ELSE <<msg>> \o queue,
  Results <- {"ok", "error"}

ServesInOrder == Service!Spec

=============================================================================
