# A verification project for the Linux driver code

The repository collects Linux drivers of the 2.6/3.0 kernels: controller drivers of
Samsung SoCs (I2C, SPI, UART) and drivers written while learning (a tty, a serial port, a
block device, a beeper, keys, LEDs, I2C and SPI clients).  This directory holds TLA+
models of the drivers, the TLC configurations that check them on small instances, and
proofs for every instance.

Contents: [inventory](#inventory), [hazards](#what-is-hard), [plan](#plan),
[modules](#modules), [runs and bounds](#runs-and-bounds), [fairness](#fairness),
[findings](#findings), [proofs](#proofs), [not modelled](#not-modelled),
[how to run](#how-to-run).

## Inventory

Paths are under `src/`.  `K` stands for the kernel framework that calls the driver.

| Part | State it keeps | Operations | Talks to |
|---|---|---|---|
| S3C24xx I2C bus driver, `linux_driver/i2c/i2c-s3c2410.c` | `struct s3c24xx_i2c`: state machine, message array, current message and byte, count or code; registers IICCON, IICSTAT, IICDS, IICLC | `master_xfer` (task), interrupt handler, cpufreq notifier, probe, remove, suspend, resume | `K` calls `master_xfer`; task and handler share the structure; the handler wakes the task through `i2c->wait`; the cpufreq notifier rewrites IICCON |
| S3C64xx SPI driver, `linux_driver/spi/spi_s3c64xx.c` | `struct s3c64xx_spi_driver_data`: queue, work item, flags `SUSPND`, `SPIBUSY`, `RXBUSY`, `TXBUSY`, active configuration, `tgl_spi`, completion | `transfer`, `setup`, `work`/`handle_msg`, two DMA callbacks, probe, remove, suspend, resume | clients queue messages; a work queue thread transfers them; DMA callbacks complete transfers; power management sets a flag and polls another |
| tiny_tty, `my_linux_driver_codes/tty/tiny_tty.c` | per port: tty, open count, timer, modem shadow, character count; `driver_data` of the tty | open, close, write, tiocmget/tiocmset, ioctl, timer, load, unload | tty core calls it, several users share one tty; the timer feeds the tty |
| S3C24xx UART driver, `linux_driver/tty/s3c2410.c` | `uart_port`, enabled flags of both directions, claimed interrupts, console | tx and rx interrupts, start/stop, startup/shutdown, set_termios with clock selection, console, power | serial core calls it, in part with the port lock held |
| tiny_serial, `my_linux_driver_codes/serial/tiny_serial.c`, `linux_driver/tty/tiny_serial.c` | one global timer, the circular buffer of the port | start_tx, timer, startup, shutdown | serial core; timer and task share the buffer |
| simp_blkdev, `my_linux_driver_codes/写一个块设备驱动.c` | radix tree of segments, size | make_request, getgeo, load with a size, unload | block layer |
| Beeper, `linux_driver/1/driver.c` | mapped registers, device number, cdev | open, release, ioctl, write, probe, remove | character device |
| Buttons, `my_linux_driver_codes/input/input2.c` | one timer, one `buttons_id` for four keys | interrupt, timer, load, unload | input layer |
| GPIO key, `linux_driver/输入子系统模块代码/input.c` | input device | interrupt, probe, remove | input layer |
| I2C touch screen clients, `linux_driver/i2c/4412-i2c*.c`, `mycode.c` | the client | read and write of a register | the I2C driver |
| SPI RFID client, `*/spi/my_rc522.c` | the client | read and write of a register | the SPI driver |
| LEDs, `linux_driver/视频15_LEDS驱动二/gpios/gpios.c` | two pins, a device registration | ioctl, probe, remove | character device |
| Examples: misc devices, first modules, key interrupt, UART registers | a device registration | open, read, write, ioctl | `K` |

What makes each part correct:

* **I2C**: a call returns, and a positive result counts messages whose bytes have all
  been moved; bytes go in the right direction and never outside a buffer; the handler
  follows no NULL pointer, touches no message of a call that has returned and no register
  whose clock is off; the end of one transfer does not disable the interrupt of the next;
  the bus is not faster than asked for, in the driver's whole kHz, through changes of the
  input clock.
* **SPI**: messages are completed once, in order; a transfer runs with clocks, with its
  own configuration and with exactly its device selected; success means that both
  directions have ended; DMA uses mapped buffers only and nothing stays mapped; suspend
  and removal end.
* **tiny_tty**: the open count counts the users; the timer runs exactly while the port is
  open, never beyond.  That calls of a user who has the port open find it, and that no
  timer is stopped that does not exist, is not so (see the findings).
* **UART**: the depth of `disable_irq` agrees with `tx_enabled` and with what the port is
  doing; the receiver is on unless the port sends; each clock is held once by an open port
  and by no other; the source and divisor chosen for a rate are near it if any are; output
  of a terminal that is
  not stopped drains; a failed startup undoes what it did.
* **tiny_serial**: no character of the buffer is taken twice or skipped; the timer runs
  exactly while the port is started.
* **simp_blkdev**: a read returns what was last written, zero where nothing was, through
  every cut of a request into pages and segments.
* **probe/remove of every driver**: each acquisition is released once on every path, and
  what a call from outside works on is held whenever that call may come.

## What is hard

`PROJECT.json` lists every hazard with its line.  In short: the I2C handler takes no lock
and runs beside the task, after timeouts even beside another call; the SPI driver changes
one word of flags partly under its lock and partly not, and its DMA callbacks, its worker,
its clients' `spi_setup` and power management all share the chip selects and the flags;
in tiny_tty the users of a tty share one `driver_data`, and a timer rearms itself while a
close deletes it; the UART's handlers interrupt each other and change, without the port
lock, what the serial core changes under it; in tiny_serial a timer and a task advance one
index; simp_blkdev cuts a request at two boundaries and may fail at each piece; and the
small drivers let calls in before what the calls need is there.

## Plan

The models are built:

1. `S3cI2c` with `S3cI2cClients` and `S3cI2cProofs`; `S3cI2cClock`, which
   `S3cI2cControl` composes with the other users of IICCON.
2. `S3cSpi` with `S3cSpiClients`, which implements the abstract `SpiService`.
3. `TinyTty`.
4. `S3cUart`, composed with `S3cUartClock`.
5. `TinySerial`.
6. `SimpBlkdev`, which implements the abstract `FlatDisk`.
7. `DriverLife` over the scripts of `DriverScripts` and `ModuleScripts`.


Beside each stands a module with its proofs (`S3cI2cProofs`, `S3cI2cControlProofs`,
`S3cSpiProofs`, `TinyTtyProofs`, `S3cUartProofs`, `TinySerialProofs`, `SimpBlkdevProofs`,
`DriverLifeProofs`).  They prove every safety property, action property and refinement that
the passing runs of these modules check, those of `DriverLife` from what TLC finds in its
run; what stays with TLC, and why, is at the end of [proofs](#proofs).  A hypothesis
that a theorem about the code still has is needed: the table of [findings](#findings) or the
remarks below it show what happens without it.

Every module takes its instance as CONSTANTS with named assumptions and has one action per
operation; none declares a RECURSIVE operator, so that theorems may be stated about it.

## Modules

### S3cI2c: the I2C transfers

Three actors.  The *task* is at `pc`: `idle`, then the steps of `s3c24xx_i2c_xfer` and
`s3c24xx_i2c_doxfer`, with its locals `args`, `retry`, `ret` and the clock's use count
`clk`.  The *handler* is at `irqPc`; its labels are those of `i2c_s3c_irq_nextbyte`
(`retry_write`, `prepare_read`, `out_ack`) and the three parts of `s3c24xx_i2c_stop` that
another processor can tell apart: the stop itself, `master_complete` and `disable_irq`.
The *bus* (external) transfers a byte while no interrupt is pending and START is set, and
ends a STOP once the last interrupt was acknowledged.

| State | Code |
|---|---|
| `state`, `msgs`, `msg`, `msg_num`, `msg_idx`, `msg_ptr`, `suspended` | the fields of `struct s3c24xx_i2c`; `msg` is an index into `msgs`, 0 for NULL |
| `irqen`, `acken`, `pend` | the bits of IICCON the handler and the task read and write |
| `start`, `busy`, `rxmode`, `lastbit` | IICSTAT: START as written, BUSBUSY as read, the mode, the ninth bit |
| `moved`, `live`, `oops` | observations: bytes moved of each message, the messages belong to a call that has not returned, NULL was followed |

A message is a record of its length and its flags; bytes are counted, not modelled.  With
`Smp` the handler and the task interleave at every step; without it the handler runs to
its end.  With `Smp = FALSE` the task can still be interrupted between any two of its steps.

`S3cI2cClients` states what the clients in the repository pass: reads come last, and a
message without a START of its own is a write.  It has the messages of the touch screen
clients (`TouchScreenLists`), which `i2c_up` and `i2c_timeout` transfer, and the inductive
invariant.

### S3cI2cClock: the I2C clock

`calcdivisor` and `clockrate` as operators, and the notifier called before and after a
change of the input clock.  `iiccon` keeps four bits of the scale, as the register does.
cpufreq (external) reports the new rate from its announcement on.  The driver computes in
whole kHz of the input rate and of the target; the rates of the model are in a smaller unit
(`KHz` of them are one), and the properties compare the rate on the bus, `hw` by `Divisor`,
exactly.  A target of 0 asks for 100 kHz.  `Reset` is the clearing of IICCON by a HDMIPHY
reset; `wiped` notes that no divisor has been chosen since.

### S3cI2cControl: who writes IICCON

Composes the clock with the control bits of the same register: each access is a read and a
write, and the task (`doxfer`) and the notifier make theirs under `i2c->lock` with
interrupts off, the handler without.  The handler is reduced to its accesses
(`HandlerOps`), since `S3cI2c` has the rest of it.  With `HdmiPhy`, `set_master` clears the
whole register before `doxfer` takes the lock.  `want` is the register as it were if
every access were atomic, `lost` notes an interrupt that somebody else than the handler
cleared.

### S3cSpi and SpiService: the SPI driver

The worker is at `wpc`, with `msg`, `xi` (the transfer), `status` and `cs_toggle` of
`handle_msg`.  A locked section is one step; what runs without the lock is cut where it
touches shared state: `wait_for_xfer` of a polled transfer reads and writes back
`sdd->state` in two steps (`WaitPoll`, `StoreFlags`), and `disable_cs` in `spi_setup` in
three.  The four flags are `suspnd`, `spibusy` and the set `busy`.  `chan` and `mapped`
stand for the DMA engine and the DMA mappings, `level` for the chip select lines, `hw` for
the configuration in the controller (`cur_speed` and `cur_mode` are what the driver
believes).  Transfers are records: directions, DMA or polled, aligned to the word, hint,
speed of its own.  `Dev[d].speed` is what a device asks for; `max_speed(d)` is what
`spi_setup` makes of it and `psr` the prescaler `s3c64xx_spi_config` computes from that,
unless the source clock itself is set (`ClkFromCmu`).  `S3cSpiClients` has the messages of
the card reader.

`SpiService` is a first come, first served queue whose messages are completed once.
`S3cSpi` implements it with `pending` mapped to the message at work followed by the queue.

### TinyTty: the tty

One port and its users.  The tty core (external) serialises opens and closes, keeps one
tty from the first open to the last close and releases a file whose open failed; between
the failure and the release another user may open the port.  `tiny_open` is cut before its
mutex, what runs under the mutex is one step, and the timer's handler is cut before it
submits the timer again.  `write` and the modem calls need `driver_data` and leave the
state above alone; what they rely on is `DataWhileOpen`, which an open of another user
violates for a moment.  `lost` and `bug` are observations:
the allocations that have failed, and a call of the timer functions that stops the kernel.

### S3cUart and S3cUartClock: the UART

One processor, as these chips have.  The *task* is the serial core (external) with what it
calls: a call it makes under the port lock has interrupts off and is one step, `startup`
and `shutdown` are cut at each statement a handler can notice.  The two *handlers* were
requested without `IRQF_DISABLED`, so either may interrupt the other: `stack` says which is
innermost, `txpc` and `rxpc` where they are.  `stop_tx` is one step when the core calls it
and three when `tx_chars` does.

| State | Code |
|---|---|
| `p.tx_enabled`, `p.rx_enabled`, `p.tx_claimed`, `p.rx_claimed` | the fields of `struct s3c24xx_uart_port` |
| `p.irq` | the interrupts: -1 without a handler, else the depth of `disable_irq` |
| `p.rxmode`, `p.fifo`, `p.rxfifo` | UCON's receive mode and the FIFOs |
| `xmit`, `x_char`, `stopped` | the buffer of the core, counted; the control character; the terminal |
| `task`, `goal` | the step of the core, and the state it makes for |
| `use`, `clksrc`, `baudclk`, `ubrdiv` | use counts, the chosen source and its clock, and the divisor register |

`S3cUartClock` has the choice of source and divisor as operators (`calcbaud`, `getclk`: the
first of the sources that deviate least) and the changes of the use counts; `RateReached`
compares the choice with every divisor of every source, up to the rounding of the
divisions. It is about the choice: `set_clksrc` of this file does nothing and `getsource`
always says `pclk`, so that the controller takes another source is `SourceTaken`, which no
board with one meets. A division by zero gives zero, as `__udivsi3` of this processor does
after it has reported the error.

### TinySerial

The task is the serial core with `startup`, `shutdown` and `start_tx`; the timer's handler
interrupts it except where the port lock is held, or runs beside it with `Smp`.  The buffer
is the circular one of the core; a store of `tail` is apart from its read.  `owed` holds
the characters, numbered, that were written and not yet taken; `strays` is set by a
character that was taken out of its turn.

### SimpBlkdev and FlatDisk: the block device

Requests of several tasks.  The cut at the pieces of the request is `NextVec`/`VecDone`, the
cut at the segments `Part`, the cut at the pages of a segment `CopyPage`; the mutex is held
for one part.  A request names the sectors after which its pieces end (`Vecs`, `Ended`, `Total`).
Addresses have the range of `sector_t` (`SectorRange`, in bytes), the size the module is
loaded with that of a `long` (`LongRange`).  `tree` is the
radix tree with the contents of the segments; `pages` and `kmaps` count what is allocated
and mapped.  `result` says how the last request of each
task ended, with `bio_endio(bio, 0)` or an error.  `FlatDisk` is an array of sectors whose
requests move their sectors from the first to the last, some at a time; one succeeds only
when all are moved, may give up only if memory can run out, and is refused only if it is not
within the disk.  `SimpBlkdev` implements it: the array is read off the
tree, zero where a segment is absent, and a request has moved what is behind `off`, `done`
and `copied`.

### DriverScripts, ModuleScripts and DriverLife: how drivers come and go

A driver is a script: what probe (or the module's init) acquires step by step, which of the
undo labels a failure jumps to, what remove gives back, and which calls from outside may
come while what is held.  `DriverScripts` has probe and remove of every driver,
`ModuleScripts` init and exit of the modules around them and the table of all.
`DriverLife` runs one script of the table again and again: each checked step may fail, a
step that is not checked fails where `Unnoticed` says so, platform devices may go while
files are open, and calls may come between any two steps.  A resource is a name with a
count; what a static variable remembers (a major number, the key last pressed) is a
resource that outlives a removal and not the module.

Not every driver gives back what it takes.  `Known` lists each exception with its line, as
(kind, driver, resource): `kept` after a removal or a failed probe, `unheld` for a use or
release of what is not held, `gone` for a call that finds nothing.  The two properties hold
for everything else, and each entry is needed: without any one of them TLC finds a
violation.

The counts are numbers if `Exact`.  Otherwise a count is told only as a level: owed, free,
held, or held more than once (-1, 0, 1, 2), and a level that many counts have may stay where
it is when one is added or taken away (`Count`).  There are then finitely many states,
though nothing bounds how often the driver comes and how many files are open.  TLC goes
through all of them, and `DriverLifeProofs` carries the result over to exact counts.

### MC modules

`MCS3cI2c`, `MCS3cI2cAny`, `MCS3cI2cClock`, `MCS3cSpi`, `MCS3cUart`, `MCTinySerial`,
`MCSimpBlkdev` and `MCDriverLife` name the instances: arrays of messages, clock rates,
devices and messages, boards, sizes and requests, known exceptions.  `TinyTty` needs none.

## Runs and bounds

| Run | Module | Question |
|---|---|---|
| `i2c_up` | `MCS3cI2c` | one processor, a bus that answers: direction, last acknowledge, clock |
| `i2c_smp` | `MCS3cI2cAny` | the handler beside the task, any arrays: its interrupt, its messages |
| `i2c_timeout` | `MCS3cI2c` | one processor with timeouts, late and spurious interrupts, HDMIPHY resets, suspends: buffers, counts, NULL, the return |
| `i2c_clock` | `MCS3cI2cClock` | all changes between the rates, beside transfers and HDMIPHY resets that write the same register |
| `spi_transfers` | `MCS3cSpi` | DMA and polled transfers, failing mappings, timeouts, `spi_setup` of a quiet device, a source clock that is set |
| `spi_suspend` | `MCS3cSpi` | DMA messages with aborts, suspends, resumes and removal, a prescaled clock; the refinement of `SpiService` (`ServesInOrder`) |
| `tty` | `TinyTty` | opens and closes of three users, every allocation failure, the timer |
| `uart` | `MCS3cUart` | both handlers beside the core, failing requests, a suspend, changes of the rate |
| `serial` | `MCTinySerial` | the timer beside `start_tx`, flushes and closes |
| `blkdev` | `MCSimpBlkdev` | two tasks' requests with every failure; the refinement of `FlatDisk` (`IsFlatDisk`) |
| `life` | `MCDriverLife` | every driver and module, every failure, calls at any moment, any number of probes and open files |
| `tty_failed_open` | `TinyTty` | expected to fail: see the findings |

What a passing run shows it shows for its constants; the disagreements below tell which
constants a property needs.

Bounds, all constants of the modules:

* `MaxXfer = 2` calls of `master_xfer`: the hazards of the I2C driver are between one
  transfer and the next, and the driver keeps nothing else from earlier ones.
  `Retries = 2` gives a first attempt, a retry and the end of the retries.  The arrays
  have up to two messages of up to two bytes, so that each of the tests for the last
  message, the last byte and the end of a message is true and false, with empty messages.
  `MaxSuspend = 1`, `MaxSpurious = 1`.
* Clock rates and targets are in tenths of a kHz.  The rates lie on both sides of the values
  at which the prescaler and the scale change, some of them between two kHz; the targets
  (the default, 13, 50.5 and 400.8 kHz) keep the divisor at 16 or below, and some rates are
  refused for some of them.
* A source clock of 13 gives the prescaler four different speeds, and one device asks for
  one that is not among them.
* Two SPI devices of equal or different polarity and three or four messages: one at work,
  one behind it for the same device, one or two for the other.  `MaxSuspend = 2` allows a suspend
  after a resume, and a removal after a resume.
* Three users of the tty, five opens: an open that fails, the open of another beside it, a
  third that keeps the tty alive, and a second life of the tty.
* UART: a FIFO of one place and a buffer of two, so that both fill and drain; two writes,
  two received characters, two opens, a suspend and a change of the rate, so that each
  handler meets each step of a start, a close and a suspend.  The boards are one with the
  default source and one with two sources of which either may be the nearest; 921600 baud
  is too much for one of them.
* tiny_serial: a buffer of four places, three of them usable, five characters and two
  opens: the indices wrap, and a close finds the buffer in every state.
* simp_blkdev: nine sectors in three segments of two pages of two sectors, the last with one
  sector; a size that the unit shifts to zero, one without unit, and zero.  A request of two
  sectors in one piece crosses a segment from sector 3, and from 7 into the last segment; one
  of two pieces, of one sector and of three, crosses from 4 the pages of one segment within
  its second piece, and from 7 the end of the disk.  Two tasks and three requests, so that
  one finds a segment another has allocated; a `Gang` of two so that the freeing takes two
  rounds.
* Drivers: no bound; the levels of the counts make the states finitely many.

`CHECK_DEADLOCK FALSE` is used throughout: with the bounds exhausted and nothing to do the
drivers are idle, as they are without work.

## Fairness

The scheduler runs a ready thread and a raised interrupt (`WF` of the task, the handler,
the worker), and a wait with a timeout ends.  The bus and the DMA engine promise nothing;
only where a run asks what happens with a bus that answers in time (`Timely`) is the bus
fair.  The SPI polls of `SPIBUSY` are weakly fair: they look again every 10 ms.  Timers
that are queued expire.  The UART's transmitter shifts out what it has, and its handlers
and the core's calls run to their end.  The requests of the block device share a mutex that
is released again and again; each is strongly fair, as the queue of a kernel mutex is first
in, first out.  Users, clients and power management are never obliged to act.

## Findings

| Run | What the code does |
|---|---|
| `tty_failed_open` | the release of a failed open takes the count of another user: `driver_data`, which the comment at `tiny_tty.c:100` clears "in case something fails", belongs to the tty and not to the open |

Others were met while modelling.  They are why the passing runs have the constants they
have, and changing the constant, or adding the property to the run, shows them:

| Change | Property | What the code does |
|---|---|---|
| `MCS3cI2cAny` on one processor with reads without START | `NoNullMessage` | refusing such a read, the handler goes on with the message it has just set to NULL (line 368) |
| `i2c_smp` with `Timely = FALSE` | `HandlerOwnsMessages` | after a timeout the handler keeps working on the messages of the returned call (line 539) |
| `i2c_up` with `Smp = TRUE` | `CountedMeansMoved` | `master_complete` sets `msg_num` to 0 before it stores the error code, and the waiter returns the count instead (lines 129-131) |
| `i2c_up` with `MaxSpurious = 1`, or `Timely = FALSE`, or `Smp = TRUE` | `HandlerClocked` | a foreign interrupt, one after the timeout, or one on the other processor finds the handler without the caller's clock (line 435) |
| `i2c_up` with `MaxSuspend = 1` | `LastByteRefused` | a resume in the middle of a read sets IICCON anew, and the last byte is acknowledged (line 1041) |
| `i2c_up` with `MaxSuspend = 1`, `MaxSpurious = 1` | `DirectionMatches` | after a resume with the power lost, a foreign interrupt carries on with a transfer whose direction is lost (line 1041) |
| `i2c_up` with reads that are not last | `DirectionMatches` | the message after a read gets no START (line 409) |
| `i2c_clock` with the target 40 (4 kHz) | `NeverTooFast` | a divisor of 17 does not fit the four bits of the register (line 641) |
| `i2c_clock` with `Smp = TRUE` | `RegisterMerged`, `NeverTooFast`, `NotTooSlow` | on two processors the handler, which does not take the lock, undoes what the notifier or the task writes (line 737) |
| `i2c_clock` with `InterruptKept` | `InterruptKept` | a byte that ends between the notifier's read and write of IICCON has its interrupt cleared by the write (line 692); the transfer then times out |
| `i2c_clock` with `NeverTooFastReset` | `NeverTooFastReset` | a HDMIPHY reset clears the divisors as well (line 495): "the controller will work after reset" (line 478), but at a sixteenth of its input clock |
| `i2c_clock` with `NeverFaster` | `NeverFaster` | the input rate and the target lose what is below a kHz (lines 666, 672): from 1601.5 kHz the bus runs at 100.09 for 100 |
| `spi_transfers` with `Aborts = TRUE` | `SuccessMeansMoved` | the callback of an aborted channel completes the transfer (line 499) |
| `spi_transfers` with `PoliteSetup = FALSE` | `SelectedWhileActive` | the check of `spi_setup` looks at the queue and misses the message in flight (line 861) |
| `spi_suspend` with `PoliteSetup = FALSE`, `MaxSetup = 1` | `ExclusiveCs` | `spi_setup` erases, without the lock, the note of a device left selected (line 403) |
| `spi_suspend` with `MixedPolarity` | `ExclusiveCs` | the last device is deselected with the polarity of the next (line 318) |
| `spi_suspend` with the polled `ToggleMsg` | `ClockedTransfer`, `Configured` | a write of the flags without the lock loses `SUSPND` (line 379); the resume then stops the output clock of a transfer that has begun (line 941) |
| `spi_suspend` with a transfer's own speed of 4 | `Configured` | a transfer's own speed is not rounded as `spi_setup` rounds: the bus runs at 6, and a speed above half the source wraps to the slowest (line 475) |
| `tty` with `Smp = TRUE` | `TimerMatchesCount`, `TimerOnLiveTty` | `del_timer` does not wait for a handler that submits the timer again (line 165) |
| `tty` with `DataWhileOpen` | `DataWhileOpen` | an open clears `driver_data` until it has the mutex (lines 101-122); `tiny_tiocmget` of another user follows NULL then (line 327) |
| `tty` with `NoNullTimer` | `NoNullTimer` | after the timer could not be allocated (line 135) the release of the failed open deletes NULL (line 165) |
| `uart` with `SourceTaken` | `SourceTaken` | on the board whose list has another source, `s3c2400_serial_setsource` switches nothing (line 1181), and the divisor is one for another clock |
| `uart` with `LowLatency = TRUE` | `OutputHasIrq` | an echo in the receive handler, between the test for output (line 412) and the stop, is left without an interrupt |
| `uart` with `SuspendClosed = TRUE` | `ClocksBalanced` | a suspend of a port that is not open gives its clocks back a second time (line 572), and the reset at the resume runs without them |
| `uart` with `MaxRx = 3` and `InputPushed` | `InputPushed` | the character that ends the flow control leaves the loop without pushing what was inserted before (line 346) |
| `serial` with `Smp = TRUE` | `TakenInOrder`, `TimerWhileOpen` | the timer and `start_tx` take the same character (line 86); `del_timer` waits for nobody (line 243) |
| `blkdev` with `SectorRange = 16` | `IsFlatDisk` | the end of a request wraps and passes the test (line 163) |
| `blkdev` with `MapsReturned` | `MapsReturned` | a transfer that fails leaves the page of the request mapped (line 180) |
| `life` without an entry of `Known` | both | one of the leaks and early or late calls that `MCDriverLife` lists |

Three remarks without a run.  `simp_blkdev_getgeo` (line 221) shifts by the quotient
`9 / heads / sectors`, since a division binds closer than a shift, so the cylinders do not
agree with the table above it.  The port lock that `rx_enable` takes below `stop_tx`
(`s3c2410.c:219`) is held already when the serial core calls it; on the single processors
of the S3C24xx a spin lock only turns interrupts off.  A low rate from a fast clock (50 baud
from 66 MHz) has a divisor of more than the sixteen bits of UBRDIV, and nothing checks
that (`s3c2410.c`, `s3c24xx_serial_calcbaud`); the theorem about the rate excludes it by
`RatesFit`.

On SMP and on arrays no client passes the findings are properties of the code and not of
a particular board: the S3C24xx are single processors, and the runs say which results
need that.

## Proofs

The theorems hold for every value of the constants that satisfies the named assumptions,
which TLC evaluates in every run.  A hypothesis of a theorem is a condition on the constants
as well; where a property fails without it, the row of [findings](#findings) that shows this
is what the hypothesis is for.  `any` means none.

| Module | Theorem | Property | Hypothesis |
|---|---|---|---|
| `S3cI2cProofs` | `TypeCorrect` | `TypeOK` | any |
| | `BuffersSafe` | `BufferBounds` | any |
| | `NullSafe` | `NoNullMessage` | any |
| | `IrqKept` | `TransferKeepsIrq` | any |
| | `CountsRight` | `CountedMeansMoved` | one processor |
| | `MessagesOwned` | `HandlerOwnsMessages` | `Timely`: the bus answers before the timeout |
| | `HandlerHasClock` | `HandlerClocked` | one processor, `Timely`, no spurious interrupt |
| | `DirectionsMatch` | `DirectionMatches` | no suspend, or no spurious interrupt |
| | `LastByteNotAcknowledged` | `LastByteRefused` | no suspend |
| `S3cI2cControlProofs` | `AccessesMerged` | `RegisterMerged` | one processor |
| | `BusNeverTooFast` | `NeverTooFast` (which leaves out a register cleared by a reset) | one processor, `DivisorsFit`: no pair of rates asks for a divisor of 17 |
| | `BusNotTooSlow` | `NotTooSlow` | one processor |
| | `SdaHeldLongEnough` | `SdaHeld` | any |
| `S3cSpiProofs` | `TypeCorrect` | `TypeOK` | any |
| | `MappingsUndone` | `NoMappingLeft` | any |
| | `ChannelsOnMappedBuffers` | `DmaMapped` | any |
| | `FirstComeFirstServed` | `ServesInOrder` | any |
| | `SuccessIsReal` | `SuccessMeansMoved` | the engine aborts no transfer |
| | `TransfersHaveClocks` | `ClockedTransfer` | `FlagsSafe`: no suspend, or no polled transfer |
| | `TransfersAreSelected` | `SelectedWhileActive` | `PoliteSetup`: no client sets up a device that has a message |
| | `OthersNotSelected` | `ExclusiveCs` | `OnePolarity`; and `NoneForgets` of the behaviour: no `spi_setup` comes to clear the note of a device left selected |
| | `TransfersConfigured` | `Configured` | `FlagsSafe`; and `OwnSpeedsExact`: a speed that a transfer names for itself is one the controller has |
| `TinyTtyProofs` | `OpenersCounted` | `CountsOpeners` | any |
| | `TimerFollowsCount` | `TimerMatchesCount` | one processor |
| | `TimerNeedsTty` | `TimerOnLiveTty` | one processor |
| `S3cUartProofs` | `TypeCorrect` | `TypeOK` | any |
| | `IrqsFollow` | `IrqsAgree` | any |
| | `ReceiverListens` | `ReceiverOn` | any |
| | `ClocksHeldOnce` | `ClocksBalanced` | only open ports are suspended |
| | `BaudRateReached` | `RateReached` | `RatesFit`: the divisors fit UBRDIV |
| `TinySerialProofs` | `OutputInOrder` | `TakenInOrder` | one processor |
| | `TimerFollowsPort` | `TimerWhileOpen` | one processor |
| `SimpBlkdevProofs` | `SegmentsAllFreed` | `SegmentsFreed` | any |
| | `FlatDiskImplemented` | `IsFlatDisk` | `AddressesFit`: `sector_t` can hold the end of every request |
| `DriverLifeProofs` | `LifeFollowsLevels` | `Levels!Spec` | `Exact` |
| | `NothingEverKept` | `NothingKept` | `Exact`, and that it holds with levels, as the run `life` finds |
| | `OnlyHeldEverUsed` | `OnlyHeldUsed` | `Exact`, and that it holds with levels, as the run `life` finds |

The assumptions of the modules give the types of the constants, with three that say more.
`ClientAssumption` (I2C) says that reads come last and that a message without a START of its
own is a write; the messages of the touch screen clients satisfy it, as TLC finds in
`i2c_up`.  `SmpAssumption` (I2C) considers a second processor without spurious interrupts and
without the HDMIPHY reset, which there would pull the controller away beneath the handler.
`SetUpAssumption` (SPI) leaves out devices that `spi_setup` refuses, which it takes from the
code's own test.

Each module has one inductive invariant `IInv`, one lemma for each action or for each part
of the invariant, and `Invariance`.  None of the properties is inductive alone.

**I2C transfers.**  The handler trusts `i2c->state` to tell it that `i2c->msg` is set, `msg`
and `msg_ptr` to be a place in the array, and the disabled interrupt to be its own
transfer's.  `IInv` states the agreement:

* `Cursor`: `msg` is set exactly in the states START, READ and WRITE, and then `msg_num`
  and `msg_idx` agree with it and `msg_ptr` is within its buffer;
* `Moves`: `msg_ptr` counts the bytes moved of the current message, and nothing of the
  later ones has been moved;
* `Direction`: the state agrees with the message, and between interrupts a read has room
  for another byte;
* `Handler`: the label of the handler fits the state of the machine, and a handler at work
  has an interrupt pending;
* `Caller`: the task owns the clock while it is in a call, and beside a running handler it
  never finds the bus free.  The last is why the late `disable_irq` cannot hit the next
  transfer: the bus stays busy until the interrupt is acknowledged, which comes after it.

The other parts are conditional.  `Counted` (what `msg_idx` and `ret` count has been moved)
is added for one processor, and `Waited` (a message is set only while its caller waits) for
a bus that answers in time.  `Raised` adds that an interrupt, and a START, belong to a
transfer that is waited for; a resume keeps this, since it leaves no interrupt pending and
gives no START (`ResumeSettles`).  `Switched` says that the controller has the direction of
the message or is `Silent`: the reset of the HDMIPHY controller and a resume lose the
direction, and no handler starts behind them until the next transfer does.
`Acknowledging` says for each label of a read whether the next byte is to be acknowledged;
it needs no more than that nobody suspends (`Awake`).

**I2C clock.** `ClockAgrees` says, for each phase of a change, that the rate the driver
last noted is at least the true one, and that the register holds the divisors of the noted
rate. `Exclusive` says that a party that has accesses left is alone, and that what it has
read, the interrupt excepted, is still what the register holds. The rest is arithmetic
about `calcdivisor` (`SettingNotTooFast`, `SettingNotTooSlow`, `DelayLongEnough`), with a
remainder of less than a kHz on either side of each comparison (`KHzFacts`). A HDMIPHY
reset finds nobody at work on the register, so no old value is written back over it, and it
sets `wiped`, under which `NeverTooFast` says nothing until the divisors are chosen again.
IICLC is read back by nobody, so what is said of the delay holds on several processors as
well, from the types and the phases alone (`SdaInv`).

**SPI.**  `Place` ties the worker's step to the flags and to the message and transfer at
work, `DmaInv` says which channels may run at which step and that a running one is busy,
`MapInv` which buffers are mapped.  In the refinement of `SpiService` every action is a
completion, an arrival or a stutter of the queue.  Each conditional theorem adds one
invariant: `MovedInv` (a channel of an awaited transfer runs as long as it is busy),
`PowerInv` (SUSPND stays while the controller is off, so that a worker between two messages
waits there), `PoliteInv`, `OneSelected` (selected is at most the device at work and the one
left selected), `ConfigInv` (what the driver believes of the controller is so unless it has
forgotten it).

That `spi_setup` and `config` agree about the clock is arithmetic.  `spi_setup` computes a
prescaler in eight bits, takes the next one if the rate is above what the device asked for,
and stores the rate as the device's speed; `config` divides once more and must arrive at
that rate (`MaxSpeedIsFastest`).  Several prescalers may have the same rate when the source
is slow, and a quotient above 256 wraps to a prescaler that is too fast; but a prescaler of
a rate divides back to the rate as long as the quotient has not wrapped (`PsrOfRate`), and
when it has, the next rate is still above what was asked for and `spi_setup` refuses the
device (`NextIsFound`: the rate it accepted was computed without a wrap).  So neither the
source clock nor the speeds of the devices need to be restricted.

**tiny_tty.**  `UsersAgree` (the users' steps agree with the tty and `driver_data`),
`Counted` (the open count is never more than the number of openers, and equal to it unless
an allocation of the port has failed) and, on one processor, `TimerAgrees`.

**UART.**  `PortInv` is the agreement of what the handlers are in the middle of with what
they have interrupted: `HandlersStacked` (which may be within which), `GoalAgrees` (what the
core is making for), `TxIrqAgrees`, `RxIrqAgrees`, `ReceiverAgrees`.  The depth of
`disable_irq` follows `tx_enabled` only outside the steps that change both, so the parts say
at each such step by how much they differ.  `ClockInv` counts the uses of each clock; it is
conditional on suspends of open ports only.  `BaudRateReached` is arithmetic: rounding to
the nearest divisor, one source at a time, and then the least of the deviations.

**tiny_serial.**  `TimerAgrees`, and `RingInv`: the characters between `tail` and `head` are
those owed, in order, also while a store of `tail` is outstanding (`Content`, `Storing`).

**simp_blkdev.**  `Requests` (where a request is), `TreeInv` (the segments allocated are those
in the tree, which is finite) and `LifeInv`, which holds the reason that the freeing leaves
nothing: below `next_seg` there is no segment any more, and a lookup that comes back less
than full has seen all the others (`GangfulFacts`).

**Refinement of FlatDisk.**  The mapping reads the array off the tree and takes a request to
have moved what lies behind `off`, `done` and `copied`.  Beside `IInv`, `FlatInv` says where
these are: `Places` (the piece, the part and the page within it are within the request, and
the request within the disk) and `DiskInv` (every segment is whole).  There is one lemma per
action: `CopyPage` moves a run of sectors, which `PageRun` finds in one page of one segment,
a part of an absent segment moves zeroes, a request ends well only from its last part
(`Succeed`), a failure ends it with an error, one that reaches beyond the disk is refused,
and the rest stutters.  `Results` says that each task has an outcome.

**Drivers.**  `Levels` is an instance of the module within its own proofs: the same
specification with `Exact` false and each count mapped to its level.  `Counts` (each resource
has an integer count) is enough for the implementation: adding one to a count, or taking one
away, is what `Count` allows its level (`LevelShift`, `CountShifts`), a resource is held
exactly if its level says so (`SameHeld`), and so each step of probe, of remove, of a failure
and of a call is one with levels.  The theorems about `NothingKept` and `OnlyHeldUsed` carry
over what holds with levels.  That it holds there is a fact about the scripts of these drivers
with their exceptions, a finite table, and about finitely many states: the run `life` goes
through all of them.

Only model-checked:

* liveness: `XferReturns`, `AcceptedCompletes`, `SuspendEnds`, `FeedsWhileOpen`,
  `OutputDrains`, `OutputTaken`, `RequestsEnd`, because fairness and ENABLED are beyond the
  proof system;
* `NothingKept` and `OnlyHeldUsed` with levels, which the theorems above take as hypothesis,
  for the scripts of these drivers;
* `FailedOpensUncounted`, which the code violates.

Induction over data and recursive definitions are beyond the installed provers as well; no
module needs them.


## Not modelled

* Data: bytes, addresses, FIFO contents (the block device's sectors excepted).  The
  properties count bytes and compare places.
* Arbitration loss, which the I2C handler only logs.
* The loops of the SPI `flush_fifo`, word sizes, and the length of the SPI waits, whose
  computation overflows for long transfers (line 336): a wait may end in a timeout at any
  time.
* The UART's console, break control, modem lines, frame formats, `/proc` and the counting
  of receive errors: straight-line register accesses, or state nothing else reads.
* The write, proc file, termios, modem lines and serial ioctls of tiny_tty: they read, log,
  or touch fields nothing else reads.  (`tiny_tiocmset` stores DTR as RTS, line 353, and
  `rx_count` outlives the close, line 84; both are plain to see.)
* `getgeo` of the block device (see the findings).
* Which of the four keys of `input2.c` is reported when two are pressed within 10 ms, the
  rates of the beeper, the pins of the LEDs: values of one assignment.
* The unmapping of a buffer that was never mapped when a receive buffer's mapping fails in
  the SPI driver (line 566): what was mapped is modelled, the DMA addresses are not.
* A clock rate that `clockrate` refuses although the larger prescaler would reach it
  (line 630): `NeverTooFast` and `NotTooSlow` are about the rates it accepts.
* `linux_driver/uart/mycode.c` and `linux_driver/i2c/mycode.c`, which do not compile; register
  headers, generated `.mod.c` and `.cmd` files, user programs and duplicates of files in the
  two trees.

## How to run

    tlc -workers 2 -config i2c_up.cfg MCS3cI2c
    tlapm S3cI2cProofs.tla          # and the other modules named *Proofs

`PROJECT.json` names the module of each configuration, and for each property a mutant of a
definition under which TLC finds the property violated: the mutants stand beside the
definitions they change, marked `Mutant`.
