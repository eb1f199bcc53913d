---------------------------- MODULE S3cSpiProofs ----------------------------
(***************************************************************************)
(* Proofs about the S3C64xx SPI controller driver, for every set of        *)
(* devices and messages and every bound.                                   *)
(***************************************************************************)
EXTENDS S3cSpi, SequenceTheorems, TLAPS

USE DEF vars, driver, config, cs, worker, setup, dma, counts

-----------------------------------------------------------------------------
(* The inductive invariant: the types, ... *)

Modes == SUBSET {"CPOL", "CPHA", "CS_HIGH"}
QueueType == queue \in Seq(Messages) /\ work \in BOOLEAN /\ suspnd \in BOOLEAN /\ spibusy \in BOOLEAN
DmaType == busy \subseteq Channels /\ chan \subseteq Channels /\ completion \in 0..1
ConfigType == cur_speed \in Nat /\ cur_mode \in Modes /\ hw \in [speed : Nat, mode : Modes]
CsType == tgl_spi \in Devices \cup {NONE} /\ level \in [Devices -> {0, 1}]
WorkerType ==
  /\ wpc \in Handling \cup {"idle", "loop", "done"}
  /\ msg \in Messages \cup {NONE} /\ (msg # NONE <=> wpc \in Handling)
  /\ seen \in BOOLEAN /\ xi \in Nat /\ status \in {0, -5, -12} /\ cs_toggle \in BOOLEAN
SetupType ==
  /\ spc \in {"idle", "deselect", "clear", "level"} /\ setting \in Devices \cup {NONE}
  /\ (setting # NONE <=> spc # "idle")
RestType ==
  /\ act \in BOOLEAN /\ mapped \subseteq Nat \X Channels
  /\ result \in [Messages -> {"none", "ok", "error"}]
  /\ pm \in {"on", "suspending", "suspended", "removing", "removed"} /\ clk \in BOOLEAN
  /\ nsuspend \in 0..MaxSuspend /\ nsetup \in 0..MaxSetup

(* ... where the worker is with its message, ... *)
Loaded == {"begin", "start", "wait", "store", "quiesce", "flush_tx", "flush_rx", "next"}
Place ==
  /\ spibusy <=> wpc \in Handling \cup {"done"}
  /\ act => wpc \in {"wait", "store", "quiesce"}
  /\ wpc \in Loaded => xi \in 1..Len(xfers)
  /\ wpc = "store" => ~xfer.dma
  /\ wpc \in {"flush_tx", "flush_rx"} => xfer.dma
  /\ wpc = "next" => status = 0

(* ... what its DMA channels do: a channel that runs is busy, a completion *)
(* says that none runs, and none runs once it has been flushed, ...        *)
DmaInv ==
  /\ chan \subseteq busy
  /\ completion # 0 => chan = {} /\ wpc # "start"
  /\ chan # {} => wpc \in {"wait", "quiesce", "flush_tx", "flush_rx"} /\ xfer.dma /\ chan \subseteq Uses(xfer)
  /\ wpc = "quiesce" /\ status = 0 => chan = {}
  /\ wpc = "flush_rx" => "tx" \notin chan

(* ... and which of its buffers are mapped.                                *)
MapInv ==
  /\ msg = NONE => mapped = {}
  /\ msg # NONE => mapped \subseteq Slots(msg)
  /\ wpc \in Loaded => mapped = Slots(msg)

IInv ==
  /\ QueueType /\ DmaType /\ ConfigType /\ CsType /\ WorkerType /\ SetupType /\ RestType
  /\ Place /\ DmaInv /\ MapInv

-----------------------------------------------------------------------------
(* The constants. *)

(* What the assumptions say of a message and of each of its transfers.     *)
LEMMA MessageFacts ==
  ASSUME NEW m \in Messages
  PROVE  /\ m # NONE /\ Msg[m].spi \in Devices /\ Msg[m].is_dma_mapped \in BOOLEAN
         /\ Msg[m].xfers \in Seq(Transfer) /\ Len(Msg[m].xfers) \in Nat
         /\ \A i \in 1..Len(Msg[m].xfers) : Msg[m].xfers[i] \in Transfer
<1>1. Msg[m] \in [spi : Devices, xfers : Seq(Transfer), is_dma_mapped : BOOLEAN] /\ m # NONE
  BY SpiAssumption
<1>2. Msg[m].xfers \in Seq(Transfer)
  BY <1>1
<1>3. QED
  BY <1>1, <1>2, LenProperties, ElementOfSeq

(* What they say of a device. *)
LEMMA DeviceFacts ==
  ASSUME NEW d \in Devices
  PROVE  d # NONE /\ Dev[d].speed \in Nat \ {0} /\ Dev[d].mode \in Modes /\ max_speed(d) \in Nat \ {0}
<1>1. Dev[d] \in [speed : Nat \ {0}, mode : SUBSET {"CPOL", "CPHA", "CS_HIGH"}] /\ d # NONE
  BY SpiAssumption
<1>2. max_speed(d) \in 1..Dev[d].speed
  BY SetUpAssumption
<1>3. QED
  BY <1>1, <1>2 DEF Modes

(* Every speed gives a prescaler of eight bits and a rate.                 *)
LEMMA RateFacts ==
  ASSUME NEW s \in Nat \ {0}
  PROVE  psr(s) \in 0..PsrMask /\ rate(psr(s)) \in Nat
<1>1. psr(s) \in 0..PsrMask
  <2> DEFINE a == (SrcRate \div s) \div 2 - 1
  <2>1. a \in Int
    BY SpiAssumption
  <2> HIDE DEF a
  <2>2. a % 256 \in 0..255
    BY <2>1
  <2>3. QED
    BY <2>2 DEF psr, PsrMask, a
<1>2. rate(psr(s)) \in Nat
  <2> DEFINE p == psr(s)
             h == SrcRate \div 2
  <2>1. p \in 0..255 /\ h \in Nat
    BY <1>1, SpiAssumption DEF PsrMask
  <2> HIDE DEF p, h
  <2>2. h \div (p + 1) \in Nat
    BY <2>1
  <2>3. QED
    BY <2>2 DEF rate, p, h
<1>3. QED
  BY <1>1, <1>2

(* The message at work. *)
LEMMA CurrentFacts ==
  ASSUME WorkerType, wpc \in Handling
  PROVE  /\ msg \in Messages /\ msg # NONE /\ spi \in Devices
         /\ xfers \in Seq(Transfer) /\ Len(xfers) \in Nat /\ xi \in Nat
         /\ xi \in 1..Len(xfers) => xfer \in Transfer
<1>1. msg \in Messages
  BY DEF WorkerType
<1>2. QED
  BY <1>1, MessageFacts DEF WorkerType, spi, xfers, xfer

-----------------------------------------------------------------------------
(* Who changes what. *)
AnyFlush == \E c \in Channels : Flush(c)
AnyDmaDone == \E c \in Channels, ok \in BOOLEAN : DmaDone(c, ok)
AnyTransfer == \E m \in Messages : SpiTransfer(m)
AnySetup == \E d \in Devices : SetupCheck(d)
AnyMark == \E next \in {"suspending", "removing"} : MarkSuspended(next)

(* The steps that change the queue, the flags, ... and those that do not.  *)
LEMMA Changes ==
  ASSUME [Next]_vars
  PROVE  /\ UNCHANGED <<queue, work>> \/ AnyTransfer \/ Work \/ TakeMessage
         /\ UNCHANGED suspnd \/ StoreFlags \/ AnyMark \/ Resume
         /\ UNCHANGED spibusy \/ TakeMessage \/ ClearBusy
         /\ UNCHANGED dma \/ BeginXfer \/ StartXfer \/ WaitDma \/ StoreFlags \/ AnyFlush \/ AnyDmaDone
         /\ UNCHANGED config \/ ConfigMessage \/ BeginXfer \/ Suspended \/ Resume
         /\ UNCHANGED cs \/ SetupClearToggled \/ SetupDeselect \/ StartXfer \/ NextXfer \/ FinishMessage
         /\ UNCHANGED setup \/ AnySetup \/ SetupReadToggled \/ SetupClearToggled \/ SetupDeselect
         /\ UNCHANGED worker \/ Worker
         /\ UNCHANGED <<msg, result>> \/ TakeMessage \/ FinishMessage
         /\ UNCHANGED act \/ StartXfer \/ Quiesce \/ Resume
         /\ UNCHANGED mapped \/ MapAll \/ MapFail \/ FinishMessage
         /\ UNCHANGED <<pm, clk, nsuspend>> \/ PowerManagement
         /\ UNCHANGED nsetup \/ AnySetup
<1>1. CASE AnyTransfer \/ AnySetup \/ SetupReadToggled \/ SetupClearToggled \/ SetupDeselect
  BY <1>1 DEF AnyTransfer, AnySetup, SpiTransfer, SetupCheck, SetupReadToggled, SetupClearToggled, SetupDeselect
<1>2. CASE Work \/ TakeMessage \/ LeaveLoop \/ ConfigMessage \/ MapAll \/ MapFail \/ BeginXfer
  BY <1>2 DEF Worker, Work, TakeMessage, LeaveLoop, ConfigMessage, MapAll, MapFail, BeginXfer
<1>3. CASE StartXfer \/ WaitDma \/ WaitPoll \/ StoreFlags \/ WaitTimeout \/ Quiesce
  BY <1>3 DEF Worker, StartXfer, WaitDma, WaitPoll, StoreFlags, WaitTimeout, Quiesce
<1>4. CASE AnyFlush \/ NextXfer \/ FinishMessage \/ ClearBusy
  BY <1>4 DEF Worker, AnyFlush, Flush, NextXfer, FinishMessage, ClearBusy
<1>5. CASE AnyDmaDone
  BY <1>5 DEF AnyDmaDone, DmaDone
<1>6. CASE PowerManagement
  BY <1>6 DEF PowerManagement, AnyMark, MarkSuspended, Suspended, Resume, Removed
<1>7. CASE UNCHANGED vars
  BY <1>7
<1>8. QED
  BY <1>1, <1>2, <1>3, <1>4, <1>5, <1>6, <1>7 DEF Next, Worker, AnyFlush, AnyDmaDone, AnyTransfer, AnySetup

-----------------------------------------------------------------------------
(* The steps keep the types. *)

(* The queue holds messages. *)
LEMMA QueueStep == ASSUME QueueType, WorkerType, [Next]_vars PROVE QueueType'
<1>1. queue' \in Seq(Messages) /\ work' \in BOOLEAN
  <2>1. CASE AnyTransfer
    BY <2>1, AppendProperties DEF QueueType, AnyTransfer, SpiTransfer
  <2>2. CASE Work
    BY <2>2 DEF QueueType, Work
  <2>3. CASE TakeMessage
    BY <2>3, HeadTailProperties DEF QueueType, TakeMessage
  <2>4. QED
    BY <2>1, <2>2, <2>3, Changes DEF QueueType
<1>2. suspnd' \in BOOLEAN
  BY Changes DEF QueueType, WorkerType, StoreFlags, AnyMark, MarkSuspended, Resume
<1>3. spibusy' \in BOOLEAN
  BY Changes DEF QueueType, TakeMessage, ClearBusy
<1>4. QED
  BY <1>1, <1>2, <1>3 DEF QueueType

(* The channels are the two there are, and a completion is never counted   *)
(* twice: none is counted while no channel runs.                           *)
LEMMA DmaTypeStep == ASSUME DmaType, DmaInv, [Next]_vars PROVE DmaType'
<1>1. CASE BeginXfer \/ StartXfer \/ StoreFlags
  BY <1>1 DEF DmaType, BeginXfer, StartXfer, StoreFlags, Uses
<1>2. CASE WaitDma
  BY <1>2 DEF DmaType, WaitDma
<1>3. ASSUME NEW c \in Channels, NEW ok \in BOOLEAN, c \in chan, Callback(c, ok) PROVE DmaType'
  <2>1. completion = 0
    BY <1>3 DEF DmaInv, DmaType
  <2>2. completion' \in 0..1
    BY <1>3, <2>1 DEF Callback
  <2>3. busy' \subseteq Channels /\ chan' \subseteq Channels
    BY <1>3 DEF Callback, DmaType
  <2>4. QED
    BY <2>2, <2>3 DEF DmaType
<1>4. CASE AnyFlush
  BY <1>3, <1>4 DEF AnyFlush, Flush, DmaType
<1>5. CASE AnyDmaDone
  BY <1>3, <1>5 DEF AnyDmaDone, DmaDone
<1>6. CASE UNCHANGED dma
  BY <1>6 DEF DmaType
<1>7. QED
  BY <1>1, <1>2, <1>4, <1>5, <1>6, Changes

(* A configuration has a speed and a mode. *)
LEMMA ConfigTypeStep ==
  ASSUME ConfigType, WorkerType, Place, [Next]_vars
  PROVE  ConfigType'
<1>1. ASSUME NEW speed \in Nat \ {0}, NEW mode \in Modes, Configure(speed, mode) PROVE ConfigType'
  BY <1>1, RateFacts DEF Configure, ConfigType
<1>2. CASE ConfigMessage
  <2>1. spi \in Devices
    BY <1>2, CurrentFacts DEF ConfigMessage, Handling
  <2>2. max_speed(spi) \in Nat \ {0} /\ Dev[spi].mode \in Modes
    BY <2>1, DeviceFacts
  <2>3. QED
    BY <1>1, <1>2, <2>2 DEF ConfigMessage, ConfigType
<1>3. CASE BeginXfer
  <2>1. spi \in Devices /\ xfer \in Transfer
    BY <1>3, CurrentFacts DEF BeginXfer, Handling, Place, Loaded
  <2> DEFINE speed == IF xfer.speed # 0 THEN xfer.speed ELSE max_speed(spi)
  <2>2. speed \in Nat \ {0}
    BY <2>1, DeviceFacts DEF Transfer
  <2>3. UNCHANGED config \/ Configure(speed, cur_mode)
    BY <1>3 DEF BeginXfer
  <2> HIDE DEF speed
  <2>4. QED
    BY <1>1, <2>2, <2>3 DEF ConfigType
<1>4. CASE Suspended \/ Resume
  <2>1. Off \in [speed : Nat, mode : Modes]
    BY DEF Off, Modes
  <2>2. Resume => hw' \in [speed : Nat, mode : Modes]
    BY DEF Resume, ConfigType
  <2>3. cur_speed' = 0 /\ cur_mode' = cur_mode /\ hw' \in [speed : Nat, mode : Modes]
    BY <1>4, <2>1, <2>2 DEF Suspended, Resume
  <2>4. QED
    BY <2>3 DEF ConfigType
<1>5. CASE UNCHANGED config
  BY <1>5 DEF ConfigType
<1>6. QED
  BY <1>2, <1>3, <1>4, <1>5, Changes

(* The lines have levels, and the device left selected is one. *)
LEMMA CsTypeStep ==
  ASSUME CsType, WorkerType, SetupType, [Next]_vars
  PROVE  CsType'
<1>1. \A mode : ActiveLevel(mode) \in {0, 1} /\ InactiveLevel(mode) \in {0, 1}
  BY DEF ActiveLevel, InactiveLevel
<1>2. ASSUME NEW d \in Devices, disable_cs(d) PROVE CsType'
  BY <1>1, <1>2 DEF CsType, disable_cs
<1>3. CASE SetupClearToggled \/ SetupDeselect
  BY <1>1, <1>3 DEF CsType, SetupType, SetupClearToggled, SetupDeselect
<1>4. CASE StartXfer
  BY <1>1, <1>4 DEF CsType, StartXfer
<1>5. CASE NextXfer
  BY <1>2, <1>5, CurrentFacts DEF NextXfer, Handling, CsType
<1>6. CASE FinishMessage
  BY <1>2, <1>6, CurrentFacts DEF FinishMessage, Handling, CsType
<1>7. CASE UNCHANGED cs
  BY <1>7 DEF CsType
<1>8. QED
  BY <1>3, <1>4, <1>5, <1>6, <1>7, Changes

(* The worker has a message while it handles one. *)
LEMMA WorkerTypeStep ==
  ASSUME WorkerType, QueueType, Place, [Next]_vars
  PROVE  WorkerType'
<1>1. CASE TakeMessage
  <2>1. Head(queue) \in Messages
    BY <1>1, HeadTailProperties DEF QueueType, TakeMessage
  <2>2. QED
    BY <1>1, <2>1, MessageFacts DEF TakeMessage, WorkerType, Handling
<1>2. CASE Worker /\ ~TakeMessage
  <2>1. /\ wpc' \in Handling \cup {"idle", "loop", "done"}
        /\ \/ msg' = msg /\ (wpc' \in Handling <=> wpc \in Handling)
           \/ msg' = NONE /\ wpc' = "done"
    <3>1. CASE Work \/ LeaveLoop \/ FinishMessage \/ ClearBusy
      BY <3>1 DEF Handling, Work, LeaveLoop, FinishMessage, ClearBusy
    <3>2. CASE ConfigMessage \/ MapAll \/ MapFail \/ BeginXfer \/ StartXfer
      BY <3>2 DEF Handling, ConfigMessage, MapAll, MapFail, BeginXfer, StartXfer
    <3>3. CASE WaitDma \/ WaitPoll \/ StoreFlags \/ WaitTimeout \/ Quiesce \/ NextXfer
      BY <3>3 DEF Handling, WaitDma, WaitPoll, StoreFlags, WaitTimeout, Quiesce, NextXfer
    <3>4. CASE AnyFlush
      BY <3>4 DEF Handling, AnyFlush, Flush
    <3>5. QED
      BY <1>2, <3>1, <3>2, <3>3, <3>4 DEF Worker, AnyFlush
  <2>2. msg' \in Messages \cup {NONE} /\ (msg' # NONE <=> wpc' \in Handling)
    BY <2>1 DEF WorkerType, Handling
  <2>3. seen' \in BOOLEAN
    BY <1>2 DEF WorkerType, QueueType, Worker, Work, LeaveLoop, ConfigMessage, MapAll, MapFail, BeginXfer, StartXfer,
       WaitDma, WaitPoll, StoreFlags, WaitTimeout, Quiesce, Flush, NextXfer, FinishMessage, ClearBusy
  <2>4. xi' \in Nat
    <3>1. xi' = xi \/ xi' = 1 \/ xi' = xi + 1
      BY <1>2 DEF Worker, Work, LeaveLoop, ConfigMessage, MapAll, MapFail, BeginXfer, StartXfer,
       WaitDma, WaitPoll, StoreFlags, WaitTimeout, Quiesce, Flush, NextXfer, FinishMessage, ClearBusy
    <3>2. QED
      BY <3>1 DEF WorkerType
  <2>5. status' \in {0, -5, -12}
    BY <1>2 DEF WorkerType, Worker, Work, LeaveLoop, ConfigMessage, MapAll, MapFail, BeginXfer, StartXfer,
       WaitDma, WaitPoll, StoreFlags, WaitTimeout, Quiesce, Flush, NextXfer, FinishMessage, ClearBusy
  <2>6. cs_toggle' \in BOOLEAN
    <3>1. UNCHANGED cs_toggle \/ NextXfer
      BY <1>2 DEF Worker, Work, LeaveLoop, ConfigMessage, MapAll, MapFail, BeginXfer, StartXfer,
       WaitDma, WaitPoll, StoreFlags, WaitTimeout, Quiesce, Flush, NextXfer, FinishMessage, ClearBusy
    <3>2. CASE NextXfer
      BY <3>2 DEF NextXfer
    <3>3. QED
      BY <3>1, <3>2 DEF WorkerType
  <2>7. QED
    BY <2>1, <2>2, <2>3, <2>4, <2>5, <2>6 DEF WorkerType
<1>3. CASE UNCHANGED worker
  BY <1>3 DEF WorkerType
<1>4. QED
  BY <1>1, <1>2, <1>3, Changes

(* A caller of spi_setup has a device. *)
LEMMA SetupTypeStep == ASSUME SetupType, [Next]_vars PROVE SetupType'
BY Changes, SpiAssumption DEF SetupType, AnySetup, SetupCheck, SetupReadToggled, SetupClearToggled, SetupDeselect

(* What is left. *)
LEMMA RestTypeStep ==
  ASSUME RestType, WorkerType, MapInv, [Next]_vars
  PROVE  RestType'
<1>1. act' \in BOOLEAN
  BY Changes DEF RestType, StartXfer, Quiesce, Resume
<1>2. mapped' \subseteq Nat \X Channels
  <2>1. \A m \in Messages : Slots(m) \subseteq Nat \X Channels
    BY MessageFacts DEF Slots
  <2>2. CASE MapAll \/ MapFail
    BY <2>1, <2>2, CurrentFacts DEF MapAll, MapFail, Handling
  <2>3. CASE FinishMessage
    BY <2>3 DEF FinishMessage, RestType
  <2>4. QED
    BY <2>2, <2>3, Changes DEF RestType
<1>3. result' \in [Messages -> {"none", "ok", "error"}]
  BY Changes DEF RestType, TakeMessage, FinishMessage
<1>4. pm' \in {"on", "suspending", "suspended", "removing", "removed"} /\ clk' \in BOOLEAN
  BY Changes DEF RestType, PowerManagement, MarkSuspended, Suspended, Resume, Removed
<1>5. nsuspend' \in 0..MaxSuspend
  <2>1. nsuspend' = nsuspend \/ (nsuspend < MaxSuspend /\ nsuspend' = nsuspend + 1)
    BY Changes DEF PowerManagement, MarkSuspended, Suspended, Resume, Removed
  <2>2. QED
    BY <2>1, SpiAssumption DEF RestType
<1>6. nsetup' \in 0..MaxSetup
  <2>1. nsetup' = nsetup \/ (nsetup < MaxSetup /\ nsetup' = nsetup + 1)
    BY Changes DEF AnySetup, SetupCheck
  <2>2. QED
    BY <2>1, SpiAssumption DEF RestType
<1>7. QED
  BY <1>1, <1>2, <1>3, <1>4, <1>5, <1>6 DEF RestType


-----------------------------------------------------------------------------
(* The steps keep the place of the worker, the channels and the mappings.  *)

(* The transfer at work is the same while message and index are.           *)
LEMMA SameXfer ==
  ASSUME UNCHANGED <<msg, xi>>
  PROVE  UNCHANGED <<spi, xfers, xfer>> /\ Slots(msg)' = Slots(msg)
BY DEF spi, xfers, xfer, Slots

(* The worker goes from place to place. *)
LEMMA PlaceStep ==
  ASSUME Place, WorkerType, RestType, [Next]_vars
  PROVE  Place'
<1>1. CASE Work \/ LeaveLoop \/ ClearBusy \/ TakeMessage \/ FinishMessage
  BY <1>1 DEF Place, Work, LeaveLoop, ClearBusy, TakeMessage, FinishMessage, Handling, Loaded
<1>2. CASE ConfigMessage \/ MapFail
  BY <1>2 DEF Place, ConfigMessage, MapFail, Handling, Loaded
<1>3. CASE MapAll
  <2>1. xfers \in Seq(Transfer) /\ msg' = msg /\ wpc = "map"
    BY <1>3, CurrentFacts DEF MapAll, Handling
  <2>2. xfers' = xfers
    BY <2>1 DEF xfers
  <2>3. xfers # <<>> => 1 \in 1..Len(xfers')
    BY <2>1, <2>2, EmptySeq
  <2>4. QED
    BY <1>3, <2>3 DEF Place, MapAll, Handling, Loaded
<1>4. CASE BeginXfer \/ StartXfer \/ WaitDma \/ WaitPoll \/ StoreFlags \/ WaitTimeout \/ Quiesce
  <2>1. UNCHANGED <<msg, xi, spibusy>>
    BY <1>4 DEF BeginXfer, StartXfer, WaitDma, WaitPoll, StoreFlags, WaitTimeout, Quiesce
  <2>2. UNCHANGED <<xfers, xfer>>
    BY <2>1, SameXfer
  <2>3. wpc \in Loaded /\ wpc' \in Loaded \cup {"out"}
    BY <1>4 DEF BeginXfer, StartXfer, WaitDma, WaitPoll, StoreFlags, WaitTimeout, Quiesce, Loaded
  <2>4. (spibusy <=> wpc \in Handling \cup {"done"})' /\ (wpc \in Loaded => xi \in 1..Len(xfers))'
    BY <2>1, <2>2, <2>3 DEF Place, Handling, Loaded
  <2>5. /\ act' => wpc' \in {"wait", "store", "quiesce"}
        /\ wpc' = "store" => ~xfer'.dma
        /\ wpc' \in {"flush_tx", "flush_rx"} => xfer'.dma
        /\ wpc' = "next" => status' = 0
    BY <1>4, <2>2 DEF Place, BeginXfer, StartXfer, WaitDma, WaitPoll, StoreFlags, WaitTimeout, Quiesce
  <2>6. QED
    BY <2>4, <2>5 DEF Place
<1>5. CASE AnyFlush
  <2>1. /\ UNCHANGED <<msg, xi, spibusy, act>>
        /\ \/ wpc = "flush_tx" /\ wpc' = "flush_rx"
           \/ wpc = "flush_rx" /\ wpc' = "out"
    BY <1>5 DEF AnyFlush, Flush, Channels
  <2>2. UNCHANGED <<xfers, xfer>>
    BY <2>1, SameXfer
  <2>3. QED
    BY <2>1, <2>2 DEF Place, Handling, Loaded
<1>6. CASE NextXfer
  <2>1. /\ UNCHANGED <<msg, spibusy, act>> /\ wpc = "next"
        /\ \/ xi = Len(xfers) /\ wpc' = "out"
           \/ xi # Len(xfers) /\ wpc' = "begin" /\ xi' = xi + 1
    BY <1>6 DEF NextXfer
  <2>2. Len(xfers) \in Nat /\ xfers' = xfers /\ xi \in 1..Len(xfers)
    BY <2>1, CurrentFacts DEF xfers, Place, Handling, Loaded
  <2>3. wpc' = "begin" => xi' \in 1..Len(xfers')
    BY <2>1, <2>2
  <2>4. QED
    BY <2>1, <2>3 DEF Place, Handling, Loaded
<1>7. CASE UNCHANGED worker
  <2>1. UNCHANGED <<xfers, xfer>>
    BY <1>7, SameXfer
  <2>2. UNCHANGED spibusy
    BY <1>7, Changes DEF TakeMessage, ClearBusy
  <2>3. act' = act \/ act' = FALSE
    BY <1>7, Changes DEF StartXfer, Quiesce, Resume
  <2>4. QED
    BY <1>7, <2>1, <2>2, <2>3 DEF Place
<1>8. QED
  BY <1>1, <1>2, <1>3, <1>4, <1>5, <1>6, <1>7, Changes DEF Worker, AnyFlush

(* A callback of a channel that runs keeps what is known of the channels.  *)
LEMMA CallbackKeeps ==
  ASSUME NEW c \in Channels, NEW ok \in BOOLEAN, DmaType, c \in chan, chan \subseteq busy, Callback(c, ok)
  PROVE  chan' = chan \ {c} /\ chan' \subseteq busy' /\ (completion' # 0 => completion # 0 \/ chan' = {})
BY DEF Callback, DmaType

(* Channels run from the start of a DMA transfer to its end or flush.      *)
LEMMA DmaInvStep ==
  ASSUME DmaInv, DmaType, WorkerType, Place, [Next]_vars
  PROVE  DmaInv'
<1>1. CASE StartXfer
  <2>1. /\ wpc = "start" /\ wpc' = "wait" /\ busy' = Uses(xfer) /\ UNCHANGED <<msg, xi, completion>>
        /\ chan' = IF xfer.dma THEN Uses(xfer) ELSE chan
    BY <1>1 DEF StartXfer
  <2>2. chan = {} /\ xfer' = xfer
    BY <2>1, SameXfer DEF DmaInv
  <2>3. QED
    BY <2>1, <2>2 DEF DmaInv, Uses
<1>2. CASE AnyFlush
  <2>1. PICK c \in Channels : Flush(c)
    BY <1>2 DEF AnyFlush
  <2>2. QED
    BY <2>1, CallbackKeeps, SameXfer DEF Flush, DmaInv, Uses, Channels, DmaType
<1>3. CASE AnyDmaDone
  <2>1. PICK c \in Channels, ok \in BOOLEAN : DmaDone(c, ok)
    BY <1>3 DEF AnyDmaDone
  <2>2. QED
    BY <2>1, CallbackKeeps, SameXfer DEF DmaDone, DmaInv, Uses
<1>4. CASE BeginXfer \/ WaitDma \/ WaitPoll \/ StoreFlags \/ WaitTimeout \/ Quiesce
  <2>1. UNCHANGED <<msg, xi, chan>>
    BY <1>4 DEF BeginXfer, WaitDma, WaitPoll, StoreFlags, WaitTimeout, Quiesce
  <2>2. xfer' = xfer
    BY <2>1, SameXfer
  <2>3. QED
    BY <1>4, <2>1, <2>2 DEF DmaInv, Place, DmaType, BeginXfer, WaitDma, WaitPoll, StoreFlags, WaitTimeout, Quiesce, Uses
<1>5. CASE Work \/ LeaveLoop \/ ClearBusy \/ TakeMessage \/ FinishMessage \/ ConfigMessage \/ MapAll \/ MapFail \/ NextXfer
  BY <1>5 DEF DmaInv, Work, LeaveLoop, ClearBusy, TakeMessage, FinishMessage, ConfigMessage, MapAll, MapFail, NextXfer
<1>6. CASE UNCHANGED worker /\ UNCHANGED dma
  BY <1>6, SameXfer DEF DmaInv, Uses
<1>7. QED
  BY <1>1, <1>2, <1>3, <1>4, <1>5, <1>6, Changes DEF Worker, AnyFlush

(* Mapped are the buffers of the message at work. *)
LEMMA MapInvStep ==
  ASSUME MapInv, WorkerType, [Next]_vars
  PROVE  MapInv'
<1>1. CASE MapAll \/ MapFail
  <2>1. msg' = msg /\ wpc = "map"
    BY <1>1 DEF MapAll, MapFail
  <2>2. Slots(msg)' = Slots(msg) /\ msg # NONE
    BY <2>1, CurrentFacts DEF Slots, Handling
  <2>3. QED
    BY <1>1, <2>1, <2>2 DEF MapInv, MapAll, MapFail, Loaded
<1>2. CASE FinishMessage
  <2>1. msg # NONE
    BY <1>2, CurrentFacts DEF FinishMessage, Handling
  <2>2. QED
    BY <1>2, <2>1 DEF MapInv, FinishMessage, Loaded
<1>3. CASE TakeMessage
  BY <1>3 DEF MapInv, TakeMessage, WorkerType, Handling, Loaded
<1>4. CASE UNCHANGED <<msg, mapped>> /\ (wpc' \in Loaded => wpc \in Loaded)
  <2>1. Slots(msg)' = Slots(msg)
    BY <1>4 DEF Slots
  <2>2. QED
    BY <1>4, <2>1 DEF MapInv
<1>5. MapAll \/ MapFail \/ TakeMessage \/ (wpc' \in Loaded => wpc \in Loaded)
  BY Changes DEF Loaded, Worker, Work, LeaveLoop, ConfigMessage, BeginXfer, StartXfer,
     WaitDma, WaitPoll, StoreFlags, WaitTimeout, Quiesce, Flush, NextXfer, FinishMessage, ClearBusy
<1>6. QED
  BY <1>1, <1>2, <1>3, <1>4, <1>5, Changes


-----------------------------------------------------------------------------
(* The invariant holds, whatever the clients, the DMA engine and the power *)
(* management do.                                                          *)

(* It holds at first, *)
LEMMA InitIInv == Init => IInv
<1> SUFFICES ASSUME Init PROVE IInv
  OBVIOUS
<1>1. QueueType /\ DmaType /\ WorkerType /\ SetupType /\ RestType
  <2>1. QueueType /\ SetupType
    BY EmptySeq DEF Init, QueueType, SetupType
  <2>2. WorkerType
    BY DEF Init, WorkerType, Handling
  <2>3. DmaType
    BY DEF Init, DmaType
  <2>4. 0 \in 0..MaxSuspend /\ 0 \in 0..MaxSetup
    BY SpiAssumption
  <2>5. RestType
    BY <2>4 DEF Init, RestType
  <2>6. QED
    BY <2>1, <2>2, <2>3, <2>5
<1>2. ConfigType
  <2>1. Off \in [speed : Nat, mode : Modes] /\ {} \in Modes
    BY DEF Off, Modes
  <2>2. QED
    BY <2>1 DEF Init, ConfigType
<1>3. CsType
  BY DEF Init, CsType
<1>4. Place /\ DmaInv /\ MapInv
  BY DEF Init, Place, DmaInv, MapInv, Handling, Loaded
<1>5. QED
  BY <1>1, <1>2, <1>3, <1>4 DEF IInv

(* and every step keeps it. *)
LEMMA NextIInv == IInv /\ [Next]_vars => IInv'
BY QueueStep, DmaTypeStep, ConfigTypeStep, CsTypeStep, WorkerTypeStep, SetupTypeStep, RestTypeStep,
   PlaceStep, DmaInvStep, MapInvStep DEF IInv

(* So it holds of every state. *)
THEOREM Invariance == Spec => []IInv
BY InitIInv, NextIInv, PTL DEF Spec

(* Every variable of the driver keeps its type. *)
THEOREM TypeCorrect == Spec => []TypeOK
<1>1. IInv => TypeOK
  BY DEF IInv, TypeOK, QueueType, DmaType, ConfigType, CsType, WorkerType, SetupType, RestType, Modes
<1>2. QED
  BY <1>1, Invariance, PTL

(* Whatever fails, and however far its mapping got: a message that has     *)
(* been completed leaves no buffer mapped.                                 *)
THEOREM MappingsUndone == Spec => []NoMappingLeft
<1>1. IInv => NoMappingLeft
  BY DEF IInv, MapInv, NoMappingLeft
<1>2. QED
  BY <1>1, Invariance, PTL

(* A DMA channel never runs on a buffer that is not mapped, also when a    *)
(* transfer timed out or the engine aborted it.                            *)
THEOREM ChannelsOnMappedBuffers == Spec => []DmaMapped
<1>1. IInv => DmaMapped
  <2> SUFFICES ASSUME IInv, chan # {}, NEW c \in chan
               PROVE  msg # NONE /\ (<<xi, c>> \in mapped \/ Msg[msg].is_dma_mapped)
    BY DEF DmaMapped
  <2>1. wpc \in Loaded /\ wpc \in Handling /\ xfer.dma /\ c \in Uses(xfer)
    BY DEF IInv, DmaInv, Loaded, Handling
  <2>2. /\ msg \in Messages /\ msg # NONE /\ mapped = Slots(msg) /\ xi \in 1..Len(xfers)
        /\ c \in Channels /\ (IF c = "tx" THEN xfer.tx ELSE xfer.rx)
    BY <2>1, CurrentFacts DEF IInv, MapInv, Place, Uses
  <2>3. ~Msg[msg].is_dma_mapped => <<xi, c>> \in Slots(msg)
    BY <2>1, <2>2 DEF Slots, xfers, xfer
  <2>4. QED
    BY <2>2, <2>3
<1>2. QED
  BY <1>1, Invariance, PTL

-----------------------------------------------------------------------------
(* The driver implements the service. *)

(* What is pending: the message at work and the queue.                     *)
Pending == IF msg = NONE THEN queue ELSE <<msg>> \o queue

(* At first nothing is pending. *)
LEMMA InitService == Init => Service!Init
BY DEF Init, Service!Init

(* Accepting a message and completing it are steps of the service; every   *)
(* other step leaves what is pending as it is.                             *)
LEMMA StepService ==
  ASSUME IInv, [Next]_vars
  PROVE  [Service!Next]_Service!vars
<1>1. queue \in Seq(Messages) /\ Pending \in Seq(Messages)
  BY DEF IInv, QueueType, WorkerType, Pending
<1>2. CASE AnyTransfer
  <2>1. PICK m \in Messages : SpiTransfer(m)
    BY <1>2 DEF AnyTransfer
  <2>2. result[m] = "none" /\ result' = result /\ msg' = msg /\ queue' = Append(queue, m)
        /\ m # msg /\ m \notin ToSet(queue)
    BY <2>1 DEF SpiTransfer, Accepted
  <2>3. Pending' = Append(Pending, m)
    BY <1>1, <2>2 DEF Pending, IInv, WorkerType
  <2>4. \A i \in 1..Len(Pending) : Pending[i] # m
    BY <1>1, <2>2 DEF Pending, ToSet
  <2>5. Service!Accept(m)
    BY <2>2, <2>3, <2>4 DEF Service!Accept, Pending
  <2>6. QED
    BY <2>5 DEF Service!Next
<1>3. CASE TakeMessage
  <2>1. msg = NONE /\ msg' # NONE /\ queue # <<>> /\ msg' = Head(queue) /\ queue' = Tail(queue) /\ result' = result
    BY <1>3, HeadTailProperties, SpiAssumption DEF TakeMessage, IInv, WorkerType, Handling, QueueType
  <2>2. <<Head(queue)>> \o Tail(queue) = queue
    BY <1>1, <2>1
  <2>3. Pending' = Pending
    BY <2>1, <2>2 DEF Pending
  <2>4. QED
    BY <2>1, <2>3 DEF Service!vars, Pending
<1>4. CASE FinishMessage
  <2>1. msg # NONE /\ msg \in Messages /\ msg' = NONE /\ queue' = queue
        /\ result' = [result EXCEPT ![msg] = IF status = 0 THEN "ok" ELSE "error"]
    BY <1>4, CurrentFacts DEF FinishMessage, IInv, Handling
  <2>2. Pending # <<>> /\ Head(Pending) = msg /\ Pending' = Tail(Pending)
    BY <1>1, <2>1 DEF Pending
  <2>3. PICK r \in {"ok", "error"} : result' = [result EXCEPT ![Head(Pending)] = r]
    BY <2>1, <2>2
  <2>4. Service!Complete(r)
    BY <2>2, <2>3 DEF Service!Complete, Pending
  <2>5. QED
    BY <2>4 DEF Service!Next
<1>5. CASE UNCHANGED <<queue, msg, result>>
  BY <1>5 DEF Service!vars
<1>6. QED
  BY <1>2, <1>3, <1>4, <1>5, Changes DEF Work

(* Each accepted message is completed exactly once and in the order of     *)
(* acceptance, whatever suspends, removals, failed mappings, aborts and    *)
(* timeouts come in between: the driver is a first come, first served      *)
(* service.                                                                *)
THEOREM FirstComeFirstServed == Spec => ServesInOrder
<1>1. IInv /\ [Next]_vars => [Service!Next]_Service!vars
  BY StepService
<1>2. QED
  BY InitService, <1>1, Invariance, PTL DEF Spec, ServesInOrder, Service!Spec


-----------------------------------------------------------------------------
(* Success, when the DMA engine aborts no transfer of its own accord.      *)

(* While a DMA transfer is awaited its channels run as long as they are    *)
(* busy; a transfer that succeeded has left no channel busy.               *)
MovedInv ==
  /\ wpc = "wait" /\ xfer.dma => busy = chan
  /\ wpc \in {"quiesce", "next"} /\ status = 0 /\ xfer.dma => busy = {}

(* A channel that ends is done with its part of the transfer. *)
LEMMA MovedStep ==
  ASSUME ~Aborts, IInv, MovedInv, [Next]_vars
  PROVE  MovedInv'
<1> USE DEF IInv, MovedInv
<1>1. CASE StartXfer
  <2>1. UNCHANGED <<msg, xi>>
    BY <1>1 DEF StartXfer
  <2>2. QED
    BY <1>1, <2>1, SameXfer DEF StartXfer
<1>2. CASE WaitDma \/ WaitPoll \/ StoreFlags \/ WaitTimeout \/ Quiesce
  <2>1. UNCHANGED <<msg, xi, chan>>
    BY <1>2 DEF WaitDma, WaitPoll, StoreFlags, WaitTimeout, Quiesce
  <2>2. xfer' = xfer
    BY <2>1, SameXfer
  <2>3. CASE WaitDma
    <3>1. wpc = "wait" /\ wpc' = "quiesce" /\ xfer.dma /\ completion # 0 /\ busy' = busy
      BY <2>3 DEF WaitDma, DmaType
    <3>2. QED
      BY <3>1 DEF DmaInv
  <2>4. CASE WaitPoll \/ StoreFlags
    BY <2>2, <2>4 DEF WaitPoll, StoreFlags, Place
  <2>5. CASE WaitTimeout \/ Quiesce
    BY <2>2, <2>5 DEF WaitTimeout, Quiesce
  <2>6. QED
    BY <1>2, <2>3, <2>4, <2>5
<1>3. CASE AnyDmaDone
  <2>1. PICK c \in Channels, ok \in BOOLEAN : DmaDone(c, ok)
    BY <1>3 DEF AnyDmaDone
  <2>2. /\ UNCHANGED <<wpc, msg, xi, status>> /\ c \in chan /\ chan' = chan \ {c} /\ busy' = busy \ {c}
    BY <2>1 DEF DmaDone, Callback
  <2>3. QED
    BY <2>2, SameXfer DEF DmaInv
<1>4. CASE AnyFlush \/ NextXfer \/ Work \/ LeaveLoop \/ ClearBusy \/ TakeMessage \/ FinishMessage
           \/ ConfigMessage \/ MapAll \/ MapFail \/ BeginXfer
  BY <1>4 DEF AnyFlush, Flush, NextXfer, Work, LeaveLoop, ClearBusy, TakeMessage, FinishMessage,
     ConfigMessage, MapAll, MapFail, BeginXfer, Channels
<1>5. CASE UNCHANGED worker /\ UNCHANGED dma
  BY <1>5, SameXfer
<1>6. QED
  BY <1>1, <1>2, <1>3, <1>4, <1>5, Changes DEF Worker, AnyFlush

(* A transfer the driver calls successful has ended in both directions.    *)
THEOREM SuccessIsReal == ~Aborts => (Spec => []SuccessMeansMoved)
<1> SUFFICES ASSUME ~Aborts PROVE Spec => []SuccessMeansMoved
  OBVIOUS
<1>1. Init => MovedInv
  BY DEF Init, MovedInv
<1>2. IInv /\ MovedInv /\ [Next]_vars => MovedInv'
  BY MovedStep
<1>3. IInv /\ MovedInv => SuccessMeansMoved
  BY DEF IInv, MovedInv, Place, DmaInv, SuccessMeansMoved
<1>4. QED
  BY <1>1, <1>2, <1>3, Invariance, PTL DEF Spec

-----------------------------------------------------------------------------
(* Suspend and removal. *)

(* The worker writes sdd->state without the lock when it polls a transfer; *)
(* nothing is lost unless both happen, polling and suspending.             *)
FlagsSafe ==
  \/ MaxSuspend = 0
  \/ \A m \in Messages : \A i \in 1..Len(Msg[m].xfers) : Msg[m].xfers[i].dma

(* SUSPND stays while the controller is not on, so that a worker that is   *)
(* between two messages when the clocks go off stays there.                *)
PowerInv ==
  /\ MaxSuspend = 0 => pm = "on"
  /\ pm # "on" => suspnd
  /\ clk <=> pm \notin {"suspended", "removed"}
  /\ ~clk => wpc \in {"idle", "loop"}

(* The worker's write of sdd->state loses no SUSPND bit, because there is  *)
(* none to lose when it polls.                                             *)
LEMMA PowerStep ==
  ASSUME FlagsSafe, IInv, PowerInv, [Next]_vars
  PROVE  PowerInv'
<1> USE DEF IInv, PowerInv
<1>1. CASE AnyMark
  <2>1. nsuspend < MaxSuspend /\ nsuspend \in 0..MaxSuspend
    BY <1>1 DEF AnyMark, MarkSuspended, RestType
  <2>2. MaxSuspend # 0
    BY <2>1
  <2>3. QED
    BY <1>1, <2>2 DEF AnyMark, MarkSuspended
<1>2. CASE Suspended \/ Removed
  BY <1>2 DEF Suspended, Removed, Place, WorkerType
<1>3. CASE Resume
  BY <1>3 DEF Resume
<1>4. CASE UNCHANGED <<pm, clk, suspnd>> /\ Worker
  <2>1. clk \/ Work \/ LeaveLoop \/ TakeMessage
    BY <1>4 DEF Worker, ConfigMessage, MapAll, MapFail, BeginXfer, StartXfer, WaitDma, WaitPoll, StoreFlags,
       WaitTimeout, Quiesce, Flush, NextXfer, FinishMessage, ClearBusy, Channels
  <2>2. QED
    BY <1>4, <2>1 DEF Work, LeaveLoop, TakeMessage
<1>5. CASE StoreFlags
  <2>1. UNCHANGED <<pm, clk>> /\ wpc = "store"
    BY <1>5, Changes DEF StoreFlags, PowerManagement, MarkSuspended, Suspended, Resume, Removed
  <2>2. ~xfer.dma /\ xi \in 1..Len(xfers) /\ msg \in Messages
    BY <2>1, CurrentFacts DEF Place, Loaded, Handling
  <2>3. MaxSuspend = 0
    BY <2>2 DEF FlagsSafe, xfers, xfer
  <2>4. QED
    BY <2>1, <2>3
<1>6. CASE UNCHANGED <<pm, clk, suspnd>> /\ UNCHANGED worker
  BY <1>6
<1>7. QED
  BY <1>1, <1>2, <1>3, <1>4, <1>5, <1>6, Changes DEF PowerManagement, AnyMark, Resume

(* It holds of every state. *)
LEMMA PowerInvariance == FlagsSafe => (Spec => [](IInv /\ PowerInv))
<1> SUFFICES ASSUME FlagsSafe PROVE Spec => [](IInv /\ PowerInv)
  OBVIOUS
<1>1. Init => PowerInv
  BY DEF Init, PowerInv
<1>2. IInv /\ PowerInv /\ [Next]_vars => PowerInv'
  BY PowerStep
<1>3. QED
  BY <1>1, <1>2, Invariance, PTL DEF Spec

(* Suspend and removal do not switch the clocks off under the worker.      *)
THEOREM TransfersHaveClocks == FlagsSafe => (Spec => []ClockedTransfer)
<1> SUFFICES ASSUME FlagsSafe PROVE Spec => []ClockedTransfer
  OBVIOUS
<1>1. PowerInv => ClockedTransfer
  BY DEF PowerInv, ClockedTransfer, Handling
<1>2. QED
  BY <1>1, PowerInvariance, PTL


-----------------------------------------------------------------------------
(* The chip select, when no client sets a device up that has a message.    *)

(* The device that is set up has no accepted message, and the device of a  *)
(* transfer whose signals are active is selected.                          *)
PoliteInv ==
  /\ setting # NONE => \A m \in Messages : Accepted(m) => Msg[m].spi # setting
  /\ act => Selected(spi)

(* spi_setup is for a device without messages, when it begins and on.      *)
LEMMA PoliteStep ==
  ASSUME PoliteSetup, IInv, PoliteInv, [Next]_vars
  PROVE  PoliteInv'
<1> USE DEF IInv, PoliteInv
<1>1. ASSUME NEW m \in Messages, setting' # NONE, Accepted(m)'
      PROVE  Msg[m].spi # setting'
  <2>1. CASE AnyTransfer
    <3>1. PICK n \in Messages : SpiTransfer(n)
      BY <2>1 DEF AnyTransfer
    <3>2. /\ setting' = setting /\ msg' = msg /\ queue' = Append(queue, n) /\ setting # Msg[n].spi
      BY <3>1 DEF SpiTransfer
    <3>3. Accepted(m) \/ m = n
      BY <1>1, <3>2 DEF Accepted, ToSet, QueueType
    <3>4. QED
      BY <1>1, <3>2, <3>3
  <2>2. CASE AnySetup
    <3>1. PICK d \in Devices : SetupCheck(d)
      BY <2>2 DEF AnySetup
    <3>2. /\ setting' = d /\ msg' = msg /\ queue' = queue
          /\ \A n \in ToSet(queue) : Msg[n].spi # d
          /\ msg # NONE => Msg[msg].spi # d
      BY <3>1 DEF SetupCheck, spi
    <3>3. m # NONE /\ (m = msg \/ m \in ToSet(queue))
      BY <1>1, <3>2, MessageFacts DEF Accepted
    <3>4. QED
      BY <3>2, <3>3
  <2>3. CASE TakeMessage
    <3>1. setting' = setting /\ queue # <<>> /\ msg' = Head(queue) /\ queue' = Tail(queue)
      BY <2>3 DEF TakeMessage
    <3>2. Accepted(m)
      BY <1>1, <3>1 DEF Accepted, ToSet, QueueType
    <3>3. QED
      BY <1>1, <3>1, <3>2
  <2>4. CASE FinishMessage
    <3>1. setting' = setting /\ queue' = queue /\ msg' = NONE /\ m # NONE
      BY <2>4, MessageFacts DEF FinishMessage
    <3>2. QED
      BY <1>1, <3>1 DEF Accepted
  <2>5. CASE UNCHANGED <<queue, msg>> /\ (setting' = setting \/ setting' = NONE)
    BY <1>1, <2>5 DEF Accepted
  <2>6. QED
    BY <2>1, <2>2, <2>3, <2>4, <2>5, Changes DEF Work, SetupReadToggled, SetupClearToggled, SetupDeselect
<1>2. ASSUME act' PROVE Selected(spi)'
  <2>1. CASE StartXfer
    <3>1. spi \in Devices /\ spi' = spi
      BY <2>1, CurrentFacts DEF StartXfer, Handling, spi
    <3>2. level'[spi] = ActiveLevel(Dev[spi].mode)
      BY <2>1, <3>1 DEF StartXfer
    <3>3. QED
      BY <3>1, <3>2 DEF Selected
  <2>2. CASE act /\ ~StartXfer
    <3>1. wpc \in {"wait", "store", "quiesce"} /\ wpc \in Handling
      BY <2>2 DEF Place, Handling
    <3>2. msg \in Messages /\ msg' = msg /\ spi' = spi /\ spi \in Devices
      BY <3>1, Changes, CurrentFacts DEF TakeMessage, FinishMessage, spi
    <3>3. level'[spi] = level[spi]
      <4>1. CASE SetupDeselect
        <5>1. setting # spi /\ level' = [level EXCEPT ![setting] = InactiveLevel(Dev[setting].mode)]
          BY <3>2, <4>1, SpiAssumption DEF SetupDeselect, SetupType, Accepted, spi
        <5>2. QED
          BY <3>2, <5>1 DEF CsType
      <4>2. QED
        BY <2>2, <3>1, <4>1, Changes DEF SetupClearToggled, NextXfer, FinishMessage
    <3>4. QED
      BY <2>2, <3>2, <3>3 DEF Selected
  <2>3. act \/ StartXfer
    BY <1>2, Changes DEF Quiesce, Resume
  <2>4. QED
    BY <2>1, <2>2, <2>3
<1>3. QED
  BY <1>1, <1>2

(* Nobody takes the chip select away from an active transfer. *)
THEOREM TransfersAreSelected == PoliteSetup => (Spec => []SelectedWhileActive)
<1> SUFFICES ASSUME PoliteSetup PROVE Spec => []SelectedWhileActive
  OBVIOUS
<1>1. Init => PoliteInv
  BY DEF Init, PoliteInv
<1>2. IInv /\ PoliteInv /\ [Next]_vars => PoliteInv'
  BY PoliteStep
<1>3. PoliteInv => SelectedWhileActive
  BY DEF PoliteInv, SelectedWhileActive
<1>4. QED
  BY <1>1, <1>2, <1>3, Invariance, PTL DEF Spec

(* Every device has the same polarity of its chip select.                  *)
OnePolarity == \A d, e \in Devices : ActiveLevel(Dev[d].mode) = ActiveLevel(Dev[e].mode)
(* No caller of spi_setup has found its device left selected and is about  *)
(* to forget that.                                                         *)
NoneForgets == spc # "clear"

(* Selected is at most the device of the message at work and the one left  *)
(* selected, which is deselected when a transfer starts.                   *)
OneSelected ==
  /\ \A d \in Devices : Selected(d) => d = tgl_spi \/ (msg # NONE /\ d = spi)
  /\ wpc \in {"wait", "store", "quiesce", "flush_tx", "flush_rx", "next"} => tgl_spi = NONE
  /\ wpc \in Handling \ {"out"} => ~cs_toggle
  /\ wpc = "out" /\ cs_toggle => tgl_spi = NONE

(* disable_cs deselects the device and leaves the others alone. *)
LEMMA DeselectsOne ==
  ASSUME CsType, NEW d \in Devices, disable_cs(d)
  PROVE  ~Selected(d)' /\ \A e \in Devices \ {d} : Selected(e)' = Selected(e)
<1>1. level'[d] # ActiveLevel(Dev[d].mode) /\ \A e \in Devices \ {d} : level'[e] = level[e]
  BY DEF disable_cs, CsType, InactiveLevel, ActiveLevel
<1>2. QED
  BY <1>1 DEF Selected

(* Whoever selects a device knows the one that is left selected. *)
LEMMA OneSelectedStep ==
  ASSUME OnePolarity, NoneForgets, IInv, OneSelected, [Next]_vars
  PROVE  OneSelected'
<1> USE DEF IInv, OneSelected
<1>1. CASE StartXfer
  <2>1. spi \in Devices /\ UNCHANGED <<msg, spi, cs_toggle>> /\ wpc = "start" /\ wpc' = "wait" /\ tgl_spi' = NONE
    BY <1>1, CurrentFacts DEF StartXfer, Handling, spi
  <2>2. ASSUME NEW d \in Devices \ {spi} PROVE ~Selected(d)'
    <3>1. level'[d] = IF d = tgl_spi THEN InactiveLevel(Dev[spi].mode) ELSE level[d]
      BY <1>1, <2>2 DEF StartXfer
    <3>2. level'[d] # ActiveLevel(Dev[d].mode)
      <4>1. CASE d = tgl_spi
        BY <2>1, <3>1, <4>1 DEF OnePolarity, InactiveLevel, ActiveLevel
      <4>2. CASE d # tgl_spi
        BY <3>1, <4>2 DEF Selected
      <4>3. QED
        BY <4>1, <4>2
    <3>3. QED
      BY <3>2 DEF Selected
  <2>3. msg' # NONE /\ spi' = spi
    BY <2>1, CurrentFacts DEF Handling
  <2>4. QED
    BY <2>1, <2>2, <2>3 DEF Handling
<1>2. CASE NextXfer
  <2>1. spi \in Devices /\ msg # NONE /\ UNCHANGED <<msg, spi>> /\ wpc = "next" /\ wpc' \in {"out", "begin"}
    BY <1>2, CurrentFacts DEF NextXfer, Handling, spi
  <2>2. disable_cs(spi) \/ UNCHANGED cs
    BY <1>2 DEF NextXfer
  <2>3. tgl_spi = NONE /\ tgl_spi' = NONE
    BY <2>1, <2>2 DEF disable_cs
  <2>4. \A d \in Devices : Selected(d)' => d = spi
    BY <2>1, <2>2, <2>3, DeselectsOne, SpiAssumption DEF Selected
  <2>5. wpc' = "begin" => ~cs_toggle'
    BY <1>2, <2>1 DEF NextXfer, Handling
  <2>6. QED
    BY <2>1, <2>3, <2>4, <2>5 DEF Handling
<1>3. CASE FinishMessage
  <2>1. spi \in Devices /\ wpc = "out" /\ wpc' = "done" /\ UNCHANGED cs_toggle
    BY <1>3, CurrentFacts DEF FinishMessage, Handling
  <2>2. CASE ~cs_toggle \/ status # 0
    <3>1. disable_cs(spi)
      BY <1>3, <2>2 DEF FinishMessage
    <3>2. \A d \in Devices : Selected(d)' => d # spi /\ d = tgl_spi /\ tgl_spi' = tgl_spi
      BY <2>1, <3>1, DeselectsOne DEF disable_cs
    <3>3. QED
      BY <2>1, <3>2 DEF Handling
  <2>3. CASE cs_toggle /\ status = 0
    <3>1. tgl_spi' = spi /\ level' = level /\ tgl_spi = NONE
      BY <1>3, <2>1, <2>3 DEF FinishMessage
    <3>2. \A d \in Devices : Selected(d)' => d = spi
      BY <3>1, SpiAssumption DEF Selected
    <3>3. QED
      BY <2>1, <3>1, <3>2 DEF Handling
  <2>4. QED
    BY <2>2, <2>3, <2>1 DEF WorkerType
<1>4. CASE SetupDeselect
  <2>1. UNCHANGED <<worker, spi, tgl_spi>> /\ setting \in Devices
        /\ level' = [level EXCEPT ![setting] = InactiveLevel(Dev[setting].mode)]
    BY <1>4 DEF SetupDeselect, SetupType, spi
  <2>2. \A d \in Devices : Selected(d)' => Selected(d)
    BY <2>1 DEF Selected, CsType, InactiveLevel, ActiveLevel
  <2>3. QED
    BY <2>1, <2>2
<1>5. CASE TakeMessage
  <2>1. msg = NONE /\ UNCHANGED cs /\ wpc' = "config" /\ ~cs_toggle'
    BY <1>5 DEF TakeMessage, WorkerType, Handling
  <2>2. QED
    BY <2>1 DEF Selected
<1>6. CASE UNCHANGED <<tgl_spi, level, msg, cs_toggle>>
           /\ (wpc' \in Handling => wpc \in Handling \ {"next", "out"})
           /\ (wpc' \in {"wait", "store", "quiesce", "flush_tx", "flush_rx", "next"} =>
                wpc \in {"wait", "store", "quiesce", "flush_tx", "flush_rx"})
  BY <1>6 DEF Selected, spi, Handling
<1>7. CASE UNCHANGED worker /\ UNCHANGED cs
  BY <1>7 DEF Selected, spi
<1>8. Worker => StartXfer \/ NextXfer \/ FinishMessage \/ TakeMessage \/
                (/\ UNCHANGED <<tgl_spi, level, msg, cs_toggle>>
                 /\ wpc' \in Handling => wpc \in Handling \ {"next", "out"}
                 /\ wpc' \in {"wait", "store", "quiesce", "flush_tx", "flush_rx", "next"} =>
                      wpc \in {"wait", "store", "quiesce", "flush_tx", "flush_rx"})
  BY DEF Worker, Work, LeaveLoop, ConfigMessage, MapAll, MapFail, BeginXfer, WaitDma, WaitPoll, StoreFlags,
     WaitTimeout, Quiesce, Flush, ClearBusy, Channels, Handling
<1>9. ~SetupClearToggled
  BY DEF SetupClearToggled, NoneForgets
<1>10. QED
  BY <1>1, <1>2, <1>3, <1>4, <1>5, <1>6, <1>7, <1>8, <1>9, Changes

(* No other device is selected while a transfer's signals are active, the  *)
(* one that cs_change has left selected included.                          *)
THEOREM OthersNotSelected == OnePolarity => (Spec /\ []NoneForgets => []ExclusiveCs)
<1> SUFFICES ASSUME OnePolarity PROVE Spec /\ []NoneForgets => []ExclusiveCs
  OBVIOUS
<1>1. Init => OneSelected
  BY DEF Init, OneSelected, Selected, ActiveLevel, Handling
<1>2. NoneForgets /\ IInv /\ OneSelected /\ [Next]_vars => OneSelected'
  BY OneSelectedStep
<1>3. IInv /\ OneSelected => ExclusiveCs
  BY SpiAssumption DEF IInv, Place, OneSelected, ExclusiveCs
<1>4. QED
  BY <1>1, <1>2, <1>3, Invariance, PTL DEF Spec


-----------------------------------------------------------------------------
(* The prescaler: division, ... *)

(* A quotient and what it is. *)
LEMMA Quotient ==
  ASSUME NEW a \in Nat, NEW d \in Nat \ {0}
  PROVE  /\ a \div d \in Nat /\ d * (a \div d) <= a /\ a < d * (a \div d) + d
         /\ \A q \in Nat : d * q <= a /\ a < d * q + d => a \div d = q
<1> DEFINE k == a \div d
<1>1. k \in Nat /\ d * k <= a /\ a < d * k + d
  OBVIOUS
<1> HIDE DEF k
<1>2. ASSUME NEW q \in Nat, d * q <= a, a < d * q + d PROVE k = q
  <2>1. d * k < d * q + d /\ d * q < d * k + d
    BY <1>1, <1>2
  <2>2. d * (k - q) < d * 1 /\ d * (q - k) < d * 1
    BY <1>1, <2>1
  <2>3. k - q < 1 /\ q - k < 1
    BY <1>1, <2>2
  <2>4. QED
    BY <1>1, <2>3
<1>3. QED
  BY <1>1, <1>2 DEF k

Half == SrcRate \div 2

(* ... the order in which the code divides, ... *)
LEMMA HalfQuotient ==
  ASSUME NEW s \in Nat \ {0}
  PROVE  (SrcRate \div s) \div 2 = Half \div s
<1> DEFINE q == SrcRate \div s
           k == q \div 2
           h == Half
<1>1. SrcRate \in Nat
  BY SpiAssumption
<1>2. q \in Nat /\ s * q <= SrcRate /\ SrcRate < s * q + s
  BY <1>1, Quotient
<1>3. h \in Nat /\ 2 * h <= SrcRate /\ SrcRate < 2 * h + 2
  BY <1>1 DEF Half
<1> HIDE DEF q, h
<1>4. k \in Nat /\ (q = 2 * k \/ q = 2 * k + 1)
  BY <1>2
<1> HIDE DEF k
<1>5. s * k \in Nat /\ (s * q = 2 * (s * k) \/ s * q = 2 * (s * k) + s)
  BY <1>4
<1>6. s * k <= h /\ h < s * k + s
  BY <1>1, <1>2, <1>3, <1>5
<1>7. h \div s = k
  BY <1>3, <1>4, <1>6, Quotient
<1>8. QED
  BY <1>7 DEF k, q, h

(* ... what the code computes for a speed, ... *)
LEMMA PsrIs ==
  ASSUME NEW s \in Nat \ {0}
  PROVE  psr(s) = (Half \div s - 1) % (PsrMask + 1)
<1>1. (SrcRate \div s) \div 2 = Half \div s
  BY HalfQuotient
<1>2. QED
  BY <1>1 DEF psr

(* ... a faster rate for a smaller value, ... *)
LEMMA RateFalls ==
  ASSUME NEW p \in 0..PsrMask, NEW q \in 0..PsrMask, p <= q
  PROVE  rate(p) \in Nat /\ rate(q) \in Nat /\ rate(q) <= rate(p)
<1> DEFINE a == Half
           x == a \div (p + 1)
           y == a \div (q + 1)
<1>1. a \in Nat /\ p \in Nat /\ q \in Nat /\ p + 1 \in Nat \ {0} /\ q + 1 \in Nat \ {0}
  BY SpiAssumption DEF Half, PsrMask
<1> HIDE DEF a
<1>2. x \in Nat /\ a < (p + 1) * x + (p + 1) /\ y \in Nat /\ (q + 1) * y <= a
  BY <1>1, Quotient
<1> HIDE DEF x, y
<1>3. (p + 1) * y <= (q + 1) * y
  BY <1>1, <1>2
<1>4. (p + 1) * y < (p + 1) * (x + 1)
  BY <1>1, <1>2, <1>3
<1>5. y < x + 1
  BY <1>1, <1>2, <1>4
<1>6. QED
  BY <1>2, <1>5 DEF rate, Half, a, x, y

(* ... the fastest rate, ... *)
LEMMA RateBelow ==
  ASSUME NEW p \in 0..PsrMask
  PROVE  rate(p) \in Nat /\ rate(p) <= rate(0)
<1>1. 0 \in 0..PsrMask /\ 0 <= p
  BY DEF PsrMask
<1>2. QED
  BY <1>1, RateFalls

(* ... and the way back from a rate to a value that provides it, which is  *)
(* another one where a slow source has the same rate for several.          *)
LEMMA PsrOfRate ==
  ASSUME NEW p \in 0..PsrMask, rate(p) # 0, Half \div rate(p) <= PsrMask + 1
  PROVE  rate(psr(rate(p))) = rate(p)
<1> DEFINE a == Half
           k == p + 1
           s == a \div k
           n == a \div s
<1>1. a \in Nat /\ k \in Nat \ {0} /\ rate(p) = s
  BY SpiAssumption DEF Half, PsrMask, rate
<1> HIDE DEF a, k
<1>2. s \in Nat \ {0} /\ k * s <= a /\ a < k * s + k
  BY <1>1, Quotient
<1> HIDE DEF s
<1>3. n \in Nat /\ s * n <= a /\ a < s * n + s
  BY <1>1, <1>2, Quotient
<1>4. n <= 256
  BY <1>1 DEF PsrMask, n, a
<1> HIDE DEF n
<1>5. k <= n
  <2>1. s * k = k * s
    BY <1>1, <1>2
  <2>2. s * k < s * (n + 1)
    BY <1>1, <1>2, <1>3, <2>1
  <2>3. k < n + 1
    BY <1>1, <1>2, <1>3, <2>2
  <2>4. QED
    BY <1>1, <1>3, <2>3
<1>6. n * s <= a /\ a < n * s + n
  <2>1. n * s = s * n
    BY <1>2, <1>3
  <2>2. k * (s + 1) <= n * (s + 1)
    BY <1>1, <1>2, <1>3, <1>5
  <2>3. k * (s + 1) = k * s + k /\ n * (s + 1) = n * s + n
    BY <1>1, <1>2, <1>3
  <2>4. QED
    BY <1>1, <1>2, <1>3, <2>1, <2>2, <2>3
<1>7. n \in Nat \ {0} /\ n - 1 \in 0..255 /\ (n - 1) + 1 = n
  BY <1>1, <1>3, <1>4, <1>5
<1>8. a \div n = s
  BY <1>1, <1>2, <1>6, <1>7, Quotient
<1>9. psr(s) = n - 1
  <2>1. psr(s) = (n - 1) % 256
    BY <1>2, PsrIs DEF PsrMask, n, a
  <2>2. QED
    BY <1>7, <2>1
<1>10. rate(n - 1) = s
  BY <1>7, <1>8 DEF rate, Half, a
<1>11. QED
  BY <1>1, <1>9, <1>10

(* A value the code computes for a speed never gives less than the speed.  *)
LEMMA PsrNotSlower ==
  ASSUME NEW s \in 1..Half
  PROVE  /\ psr(s) \in 0..PsrMask /\ \A p \in 0..psr(s) : rate(p) >= s
         /\ s = Half => psr(s) = 0
<1> DEFINE a == Half
           x == a \div s
<1>1. a \in Nat /\ s \in Nat \ {0} /\ s <= a
  BY SpiAssumption DEF Half
<1> HIDE DEF a
<1>2. x \in Nat /\ s * x <= a
  BY <1>1, Quotient
<1>3. x >= 1 /\ (s = a => x = 1)
  <2>1. a < s * x + s
    BY <1>1, Quotient
  <2>2. x # 0
    BY <1>1, <2>1, <1>2
  <2>3. s = a => x = 1
    <3>1. s * 1 <= s /\ s < s * 1 + s
      BY <1>1
    <3>2. s \div s = 1
      BY <1>1, <3>1, Quotient
    <3>3. QED
      BY <3>2
  <2>4. QED
    BY <1>2, <2>2, <2>3
<1>4. psr(s) = (x - 1) % 256
  BY <1>1, PsrIs DEF PsrMask, a
<1> HIDE DEF x
<1>5. psr(s) \in 0..255 /\ psr(s) <= x - 1 /\ (s = a => psr(s) = 0)
  BY <1>2, <1>3, <1>4
<1>6. ASSUME NEW p \in 0..psr(s) PROVE rate(p) >= s
  <2> DEFINE y == a \div (p + 1)
  <2>1. p \in Nat /\ p + 1 <= x /\ p + 1 \in Nat \ {0}
    BY <1>2, <1>5, <1>6
  <2>2. y \in Nat /\ a < (p + 1) * y + (p + 1)
    BY <1>1, <2>1, Quotient
  <2> HIDE DEF y
  <2>3. s * (p + 1) <= s * x
    BY <1>1, <1>2, <2>1
  <2>4. (p + 1) * s < (p + 1) * (y + 1)
    BY <1>1, <1>2, <2>1, <2>2, <2>3
  <2>5. s < y + 1
    BY <1>1, <2>1, <2>2, <2>4
  <2>6. rate(p) = y
    BY DEF rate, y, a, Half
  <2>7. QED
    BY <1>1, <2>2, <2>5, <2>6
<1>7. QED
  BY <1>5, <1>6 DEF PsrMask, a


(* Where spi_setup takes the next smaller rate, it is one that config's    *)
(* division finds again: a division that wrapped would not have got here.  *)
LEMMA NextIsFound ==
  ASSUME NEW s \in 1..Half, NEW c \in 0..PsrMask - 2, c = psr(s), rate(c) > s, rate(c + 1) <= s,
         rate(c + 1) # 0
  PROVE  Half \div rate(c + 1) <= PsrMask + 1
<1> DEFINE a == Half
           x == a \div s
           k == c + 2
           t == a \div k
           y == a \div (c + 1)
<1>1. a \in Nat /\ s \in Nat \ {0} /\ c \in 0..253 /\ c + 1 \in Nat \ {0} /\ k \in Nat \ {0}
  <2>1. a \in Nat
    BY SpiAssumption DEF Half
  <2>2. s \in 1..a
    OBVIOUS
  <2> HIDE DEF a
  <2>3. s \in Nat \ {0}
    BY <2>1, <2>2
  <2>4. c \in 0..253
    BY DEF PsrMask
  <2>5. QED
    BY <2>1, <2>3, <2>4
<1>2. c = (x - 1) % 256
  BY <1>1, PsrIs DEF PsrMask, a
<1>3. rate(c) = y /\ rate(c + 1) = t
  <2>1. (c + 1) + 1 = k
    BY <1>1
  <2>2. QED
    BY <2>1 DEF rate, Half, a, y, t
<1> HIDE DEF a, k
<1>4. x \in Nat /\ s * x <= a /\ a < s * x + s
  BY <1>1, Quotient
<1>5. t \in Nat \ {0} /\ k * t <= a /\ a < k * t + k /\ t <= s
  BY <1>1, <1>3, Quotient
<1>6. y \in Nat /\ (c + 1) * y <= a /\ y >= s + 1
  <2>1. y \in Nat /\ (c + 1) * y <= a
    BY <1>1, Quotient
  <2>2. y > s
    BY <1>3
  <2> HIDE DEF y
  <2>3. QED
    BY <1>1, <2>1, <2>2
<1> HIDE DEF x, t, y
<1>7. x >= 1
  <2>1. (c + 1) * (s + 1) <= (c + 1) * y
    BY <1>1, <1>6
  <2>2. 1 * (s + 1) <= (c + 1) * (s + 1)
    BY <1>1
  <2>3. s + 1 <= a
    BY <1>1, <1>6, <2>1, <2>2
  <2>4. x # 0
    BY <1>1, <1>4, <2>3
  <2>5. QED
    BY <1>4, <2>4
<1>8. x <= 256
  <2> SUFFICES ASSUME x > 256 PROVE FALSE
    BY <1>4
  <2>1. x >= k + 255
    BY <1>1, <1>2, <1>4 DEF k
  <2>2. s * (k + 255) <= s * x
    BY <1>1, <1>4, <2>1
  <2>3. s * (k + 255) = s * k + s * 255
    BY <1>1
  <2>4. s * k = k * s /\ k * t <= k * s
    BY <1>1, <1>5
  <2>5. s * 255 >= 255 /\ k <= 255
    BY <1>1 DEF k
  <2>6. QED
    BY <1>1, <1>4, <1>5, <2>2, <2>3, <2>4, <2>5
<1>9. c = x - 1 /\ k = x + 1
  BY <1>1, <1>2, <1>4, <1>7, <1>8 DEF k
<1>10. s > x
  <2>1. x * y <= a /\ x * (s + 1) <= x * y
    BY <1>1, <1>4, <1>6, <1>9
  <2>2. x * (s + 1) = s * x + x
    BY <1>1, <1>4
  <2>3. x * y \in Nat /\ s * x \in Nat
    BY <1>1, <1>4, <1>6
  <2> DEFINE xy == x * y
             sx == s * x
  <2>4. xy \in Nat /\ sx \in Nat /\ xy <= a /\ sx + x <= xy /\ a < sx + s
    BY <1>4, <2>1, <2>2, <2>3
  <2> HIDE DEF xy, sx
  <2>5. QED
    BY <1>1, <1>4, <2>4
<1>11. t >= x
  <2> SUFFICES ASSUME t <= x - 1 PROVE FALSE
    BY <1>4, <1>5
  <2>1. k * t <= k * (x - 1)
    BY <1>1, <1>4, <1>5, <1>7
  <2>2. k * (x - 1) + k = k * x
    BY <1>1, <1>4
  <2>3. k * x = x * x + x
    BY <1>4, <1>9
  <2>4. (x + 1) * x <= s * x
    BY <1>1, <1>4, <1>10
  <2>5. (x + 1) * x = x * x + x
    BY <1>4
  <2>6. QED
    BY <1>1, <1>4, <1>5, <2>1, <2>2, <2>3, <2>4, <2>5
<1>12. a \div t <= 256
  <2> DEFINE n == a \div t
  <2>1. n \in Nat /\ t * n <= a
    BY <1>1, <1>5, Quotient
  <2> HIDE DEF n
  <2>2. a < t * k + t + 1
    <3>1. t * k = k * t
      BY <1>1, <1>5
    <3>2. QED
      BY <1>1, <1>4, <1>5, <1>9, <1>11, <3>1
  <2>3. t * n <= t * (k + 1)
    BY <1>1, <1>5, <2>1, <2>2
  <2>4. n <= k + 1
    BY <1>1, <1>5, <2>1, <2>3
  <2>5. QED
    BY <1>1, <2>1, <2>4 DEF k, n
<1>13. QED
  BY <1>3, <1>12 DEF PsrMask, a

(* A speed a device is set up for is a rate that config finds again, and   *)
(* the fastest that is not faster than the device asked for, however slow  *)
(* the source.                                                             *)
LEMMA MaxSpeedIsFastest ==
  ASSUME ~ClkFromCmu, NEW d \in Devices
  PROVE  /\ rate(psr(max_speed(d))) = max_speed(d)
         /\ \A p \in 0..PsrMask : rate(p) > Dev[d].speed \/ rate(p) <= max_speed(d)
<1> DEFINE ms == max_speed(d)
           speed == Dev[d].speed
           asked == IF speed > Half THEN Half ELSE speed
           first == IF psr(asked) = PsrMask THEN PsrMask - 1 ELSE psr(asked)
           next  == IF rate(first) > asked /\ first + 1 < PsrMask THEN first + 1 ELSE first
<1>1. ms = rate(next)
  BY DEF max_speed, Half
<1>2. speed \in Nat \ {0} /\ ms \in Nat \ {0} /\ ms <= speed /\ Half \in Nat
  BY DeviceFacts, SetUpAssumption, SpiAssumption DEF Half
<1>3. asked \in 1..Half /\ asked <= speed /\ (asked = Half \/ asked = speed)
  <2>1. Half >= 1
    BY SpiAssumption DEF Half
  <2>2. QED
    BY <1>2, <2>1
<1> HIDE DEF ms, speed, asked
<1>4. /\ psr(asked) \in 0..255 /\ rate(first) >= asked /\ first \in 0..254
      /\ asked = Half => first = 0
  BY <1>3, PsrNotSlower DEF PsrMask
<1>10. first = psr(asked) \/ (psr(asked) = 255 /\ first = 254)
  BY DEF PsrMask
<1> HIDE DEF first
<1>5. next \in 0..254 /\ (next = first \/ (next = first + 1 /\ rate(first) > asked))
      /\ (rate(first) > asked /\ first # 254 => next = first + 1)
  BY <1>4 DEF PsrMask
<1> HIDE DEF next
<1>6. \A p \in 0..255 : rate(p) \in Nat
  BY RateBelow DEF PsrMask
<1>7. ASSUME NEW p \in 0..255 PROVE rate(p) > speed \/ rate(p) <= ms
  <2>1. CASE asked = Half
    <3>1. first = 0 /\ rate(0) = Half /\ rate(p) <= rate(0)
      <4>1. rate(0) = Half
        BY <1>2 DEF rate, Half
      <4>2. rate(p) <= rate(0)
        BY RateBelow DEF PsrMask
      <4>3. QED
        BY <1>4, <2>1, <4>1, <4>2
    <3>2. next = 0
      BY <1>2, <1>4, <1>5, <2>1, <3>1
    <3>3. QED
      BY <1>1, <3>1, <3>2
  <2>2. CASE asked = speed /\ next = first + 1
    <3>1. CASE p <= first
      <4>1. rate(first) <= rate(p) /\ rate(first) > asked
        <5>1. first \in 0..PsrMask /\ p \in 0..PsrMask
          BY <1>4 DEF PsrMask
        <5>2. QED
          BY <1>4, <1>5, <2>2, <3>1, <5>1, RateFalls
      <4>2. rate(first) \in Nat /\ rate(p) \in Nat
        BY <1>4, <1>6
      <4>3. QED
        BY <1>2, <2>2, <4>1, <4>2
    <3>2. CASE p > first
      <4>1. next \in 0..PsrMask /\ p \in 0..PsrMask /\ next <= p
        BY <1>4, <1>5, <2>2, <3>2 DEF PsrMask
      <4>2. rate(p) <= rate(next)
        BY <4>1, RateFalls
      <4>3. QED
        BY <1>1, <4>2
    <3>3. QED
      BY <1>4, <3>1, <3>2
  <2>3. CASE asked = speed /\ next = first
    <3>1. rate(first) \in Nat /\ rate(p) \in Nat /\ ms = rate(first)
      BY <1>1, <1>4, <1>6, <2>3
    <3>2. ms = speed
      BY <1>2, <1>4, <2>3, <3>1
    <3>3. QED
      BY <1>2, <3>1, <3>2
  <2>4. QED
    BY <1>3, <1>5, <2>1, <2>2, <2>3
<1>8. rate(psr(ms)) = ms
  <2>1. CASE next = first
    <3>1. rate(first) \in Nat /\ ms = rate(first) /\ (asked = Half => rate(first) <= Half)
      <4>1. rate(0) = Half
        BY <1>2 DEF rate, Half
      <4>2. QED
        BY <1>1, <1>4, <1>6, <2>1, <4>1
    <3>2. ms = asked
      BY <1>2, <1>3, <1>4, <3>1
    <3>3. CASE first = psr(asked)
      BY <3>1, <3>2, <3>3
    <3>4. CASE psr(asked) = 255 /\ first = 254
      <4>1. 255 \in 0..psr(asked) /\ 254 \in 0..PsrMask /\ 255 \in 0..PsrMask /\ 254 <= 255
        BY <3>4 DEF PsrMask
      <4>2. rate(255) >= asked
        BY <1>3, <4>1, PsrNotSlower
      <4>3. rate(255) <= rate(254)
        BY <4>1, RateFalls
      <4>4. rate(255) = asked
        <5>1. rate(254) = asked
          BY <3>1, <3>2, <3>4
        <5>2. rate(255) \in Nat /\ rate(254) \in Nat
          BY <1>6
        <5>3. QED
          BY <4>2, <4>3, <5>1, <5>2
      <4>5. QED
        BY <3>2, <3>4, <4>4
    <3>5. QED
      BY <1>10, <3>3, <3>4
  <2>2. CASE next = first + 1 /\ rate(first) > asked
    <3>1. first = psr(asked) /\ first \in 0..253
      BY <1>4, <1>5, <1>10, <2>2
    <3>2. first \in 0..PsrMask - 2 /\ first + 1 \in 0..PsrMask
      BY <3>1 DEF PsrMask
    <3>3. asked = speed
      <4>1. rate(0) = Half
        BY <1>2 DEF rate, Half
      <4>2. QED
        BY <1>2, <1>3, <1>4, <2>2, <4>1
    <3>4. rate(first + 1) <= asked /\ rate(first + 1) # 0
      BY <1>1, <1>2, <2>2, <3>3
    <3>5. Half \div rate(first + 1) <= PsrMask + 1
      BY <1>3, <2>2, <3>1, <3>2, <3>4, NextIsFound
    <3>6. QED
      BY <1>1, <2>2, <3>2, <3>4, <3>5, PsrOfRate
  <2>3. QED
    BY <1>5, <2>1, <2>2
<1>9. QED
  BY <1>7, <1>8 DEF PsrMask, ms, speed

-----------------------------------------------------------------------------
(* The configuration. *)

(* What a transfer wants: its own speed, or what its device was set up for.*)
Wanted == IF xfer.speed # 0 THEN xfer.speed ELSE max_speed(spi)
RateFor(s) == IF ClkFromCmu THEN s ELSE rate(psr(s))
(* A transfer with a speed of its own names one that config provides.      *)
OwnSpeedsExact ==
  \A m \in Messages : \A i \in 1..Len(Msg[m].xfers) :
    LET speed == Msg[m].xfers[i].speed IN speed # 0 => RateFor(speed) = speed

(* The driver is right about the controller unless it has forgotten the    *)
(* configuration; it has not while it handles a message; and during a      *)
(* transfer the configuration is the one wanted.                           *)
ConfigInv ==
  /\ cur_speed # 0 => hw = [speed |-> RateFor(cur_speed), mode |-> cur_mode]
  /\ wpc \in Loaded \cup {"map"} => cur_speed # 0 /\ cur_mode = Dev[spi].mode
  /\ wpc \in {"start", "wait", "store", "quiesce"} => cur_speed = Wanted

(* Every change of the configuration is noted, also its loss in a suspend. *)
LEMMA ConfigStep ==
  ASSUME IInv, PowerInv, ConfigInv, [Next]_vars
  PROVE  ConfigInv'
<1>1. ASSUME NEW speed \in Nat \ {0}, NEW mode, Configure(speed, mode)
      PROVE  cur_speed' = speed /\ cur_mode' = mode /\ hw' = [speed |-> RateFor(cur_speed), mode |-> cur_mode]'
  BY <1>1 DEF Configure, RateFor
<1>2. CASE ConfigMessage
  <2>1. /\ msg' = msg /\ spi' = spi /\ spi \in Devices /\ wpc' = "map"
    BY <1>2, CurrentFacts DEF IInv, ConfigMessage, Handling, spi
  <2>2. max_speed(spi) \in Nat \ {0}
    BY <2>1, DeviceFacts
  <2>3. CASE cur_speed # max_speed(spi) \/ cur_mode # Dev[spi].mode
    <3>1. Configure(max_speed(spi), Dev[spi].mode)
      BY <1>2, <2>3 DEF ConfigMessage
    <3>2. QED
      BY <1>1, <2>1, <2>2, <3>1 DEF ConfigInv, Loaded
  <2>4. CASE ~(cur_speed # max_speed(spi) \/ cur_mode # Dev[spi].mode)
    <3>1. UNCHANGED config
      BY <1>2, <2>4 DEF ConfigMessage
    <3>2. QED
      BY <2>1, <2>2, <2>4, <3>1 DEF ConfigInv, Loaded, RateFor
  <2>5. QED
    BY <2>3, <2>4
<1>3. CASE BeginXfer
  <2>1. /\ UNCHANGED <<msg, xi>> /\ spi' = spi /\ xfer' = xfer /\ spi \in Devices /\ xfer \in Transfer
        /\ wpc = "begin" /\ wpc' \in {"start", "out"}
    BY <1>3, CurrentFacts, SameXfer DEF IInv, Place, BeginXfer, Handling, Loaded
  <2>2. Wanted \in Nat \ {0} /\ Wanted' = Wanted
    BY <2>1, DeviceFacts DEF Wanted, Transfer
  <2>3. CASE xfer.aligned /\ Wanted # cur_speed
    <3>1. Configure(Wanted, cur_mode)
      BY <1>3, <2>3 DEF BeginXfer, Wanted
    <3>2. QED
      BY <1>1, <2>1, <2>2, <3>1 DEF ConfigInv, Loaded
  <2>4. CASE ~xfer.aligned \/ Wanted = cur_speed
    <3>1. UNCHANGED config /\ (wpc' = "start" => Wanted = cur_speed)
      BY <1>3, <2>4 DEF BeginXfer, Wanted
    <3>2. QED
      BY <2>1, <2>2, <3>1 DEF ConfigInv, Loaded, RateFor
  <2>5. QED
    BY <2>3, <2>4
<1>4. CASE Suspended \/ Resume
  <2>1. cur_speed' = 0 /\ wpc' = wpc /\ wpc \in {"idle", "loop"}
    BY <1>4 DEF Suspended, Resume, IInv, Place, WorkerType, PowerInv
  <2>2. QED
    BY <2>1 DEF ConfigInv, Loaded
<1>5. CASE UNCHANGED config /\ Worker
  <2>1. CASE MapAll \/ StartXfer \/ WaitDma \/ WaitPoll \/ StoreFlags \/ WaitTimeout \/ Quiesce \/ AnyFlush \/ NextXfer
    <3>1. msg' = msg /\ spi' = spi /\ wpc \in Loaded \cup {"map"}
      BY <2>1 DEF MapAll, StartXfer, WaitDma, WaitPoll, StoreFlags, WaitTimeout, Quiesce, AnyFlush, Flush, NextXfer,
         Loaded, Channels, spi
    <3>2. wpc' \in {"start", "wait", "store", "quiesce"} =>
            wpc \in {"start", "wait", "store", "quiesce"} /\ xi' = xi
      BY <2>1 DEF MapAll, StartXfer, WaitDma, WaitPoll, StoreFlags, WaitTimeout, Quiesce, AnyFlush, Flush, NextXfer,
         Channels
    <3>3. xi' = xi => Wanted' = Wanted
      BY <3>1, SameXfer DEF Wanted
    <3>4. QED
      BY <1>5, <3>1, <3>2, <3>3 DEF ConfigInv, RateFor
  <2>2. CASE Work \/ TakeMessage \/ LeaveLoop \/ MapFail \/ FinishMessage \/ ClearBusy
    <3>1. wpc' \in {"idle", "loop", "config", "out", "done"}
      BY <2>2 DEF Work, TakeMessage, LeaveLoop, MapFail, FinishMessage, ClearBusy
    <3>2. QED
      BY <1>5, <3>1 DEF ConfigInv, Loaded, RateFor
  <2>3. QED
    BY <1>2, <1>3, <1>5, <2>1, <2>2 DEF Worker, AnyFlush
<1>6. CASE UNCHANGED config /\ UNCHANGED worker
  <2>1. spi' = spi /\ Wanted' = Wanted
    BY <1>6, SameXfer DEF Wanted
  <2>2. QED
    BY <1>6, <2>1 DEF ConfigInv, RateFor
<1>7. QED
  BY <1>2, <1>3, <1>4, <1>5, <1>6, Changes

(* Whatever configuration other messages, transfers and suspends leave     *)
(* behind, a transfer has the mode of its device and the fastest clock     *)
(* that is not faster than was asked for.                                  *)
THEOREM TransfersConfigured == FlagsSafe /\ OwnSpeedsExact => (Spec => []Configured)
<1> SUFFICES ASSUME FlagsSafe, OwnSpeedsExact PROVE Spec => []Configured
  OBVIOUS
<1>1. Init => ConfigInv
  BY DEF Init, ConfigInv, Loaded
<1>2. IInv /\ PowerInv /\ ConfigInv /\ [Next]_vars => ConfigInv'
  BY ConfigStep
<1>3. IInv /\ ConfigInv => Configured
  <2> SUFFICES ASSUME IInv, ConfigInv, act PROVE Configured
    BY DEF Configured
  <2> DEFINE asked == IF xfer.speed # 0 THEN xfer.speed ELSE Dev[spi].speed
  <2>1. wpc \in {"wait", "store", "quiesce"}
    BY DEF IInv, Place
  <2>2. spi \in Devices /\ xi \in 1..Len(xfers) /\ xfer \in Transfer /\ msg \in Messages
    BY <2>1, CurrentFacts DEF IInv, Place, Handling, Loaded
  <2>3. cur_speed = Wanted /\ hw = [speed |-> RateFor(Wanted), mode |-> Dev[spi].mode]
    BY <2>1 DEF ConfigInv, Loaded
  <2>4. asked \in Nat \ {0} /\ max_speed(spi) \in 1..Dev[spi].speed /\ Dev[spi].speed \in Nat
        /\ xfer.speed \in Nat
    BY <2>2, DeviceFacts, SetUpAssumption DEF Transfer
  <2>5. CASE ClkFromCmu
    <3>1. Wanted = asked /\ RateFor(Wanted) = asked
      BY <2>5 DEF Wanted, RateFor, max_speed
    <3>2. QED
      BY <2>3, <2>4, <2>5, <3>1 DEF Configured
  <2>6. CASE ~ClkFromCmu
    <3>1. max_speed(spi) = rate(psr(max_speed(spi)))
      BY <2>2, <2>6, MaxSpeedIsFastest
    <3>2. xfer.speed # 0 => RateFor(xfer.speed) = xfer.speed
      BY <2>2 DEF OwnSpeedsExact, xfer, xfers
    <3>3. RateFor(Wanted) = Wanted /\ Wanted \in Nat \ {0}
      BY <2>2, <2>4, <2>6, <3>1, <3>2, DeviceFacts DEF Wanted, RateFor
    <3>4. \A q \in 0..PsrMask : rate(q) \in Nat
      BY RateBelow DEF PsrMask
    <3>5. Wanted <= asked /\ \A q \in 0..PsrMask : rate(q) > asked \/ rate(q) <= Wanted
      <4>1. CASE xfer.speed # 0
        BY <2>4, <3>2, <3>4, <4>1 DEF Wanted
      <4>2. CASE xfer.speed = 0
        <5>1. \A q \in 0..PsrMask : rate(q) > Dev[spi].speed \/ rate(q) <= max_speed(spi)
          BY <2>2, <2>6, MaxSpeedIsFastest
        <5>2. Wanted = max_speed(spi) /\ asked = Dev[spi].speed
          BY <4>2 DEF Wanted
        <5>3. QED
          BY <2>4, <5>1, <5>2
      <4>3. QED
        BY <4>1, <4>2
    <3>6. hw.mode = Dev[spi].mode /\ hw.speed = Wanted
      BY <2>3, <3>3
    <3> HIDE DEF asked
    <3>7. hw.speed \in 1..asked /\ \A q \in 0..PsrMask : rate(q) > asked \/ rate(q) <= hw.speed
      BY <2>4, <3>3, <3>5, <3>6
    <3>8. QED
      BY <2>6, <3>6, <3>7 DEF Configured, asked
  <2>7. QED
    BY <2>5, <2>6
<1>4. QED
  BY <1>1, <1>2, <1>3, PowerInvariance, PTL DEF Spec


=============================================================================
