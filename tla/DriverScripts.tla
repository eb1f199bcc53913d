--------------------------- MODULE DriverScripts ---------------------------
(***************************************************************************)
(* How the drivers of the repository come and go, as scripts over named    *)
(* resources: what probe (or module_init) acquires step by step, what a    *)
(* failure undoes, what remove (or module_exit) gives back, and which      *)
(* calls come from outside while some resource is held.                    *)
(*                                                                         *)
(* A probe ends in labels that fall through: a failure at a step runs the  *)
(* last `undo` entries of the undo list.                                   *)
(***************************************************************************)
EXTENDS Integers, Sequences

Step(op, set, n) == [op |-> op, res |-> set, undo |-> n, unless |-> "never"]

Get(r, n)   == Step("get", {r}, n)     \* acquire, or fail and undo
Sure(r)     == Step("sure", {r}, 0)    \* cannot fail, or fails without harm
Try(r)      == Step("try", {r}, 0)     \* a failure is not noticed
Check(r, n) == Step("check", {r}, n)   \* fail if an earlier Try has failed
Use(r)      == Step("use", {r}, 0)     \* touch
Put(r)      == Step("put", {r}, 0)     \* give back
Del(r)      == Step("del", {r}, 0)     \* give back if held

Call(on, needs) == [on |-> on, needs |-> needs, sets |-> {}, clears |-> {}]

(* platform: a device can be taken away while files are open; a module     *)
(* cannot.  gate: what must be held for a file to be opened.               *)
Platform(gate) == [unbinds |-> TRUE, gate |-> gate]
Module(gate)   == [unbinds |-> FALSE, gate |-> gate]

(* Static variables that the next probe finds as the last one left them,   *)
(* unless the module was unloaded in between.                              *)
StaticVariables == {"major", "buttons_id"}

(* What exists once, under a name or number of its own. *)
OneOfAKind == {"pin0", "pin1", "irq", "irq2", "misc", "class", "chrdev", "device"}

(* What the kernel counts the users of. *)
UseCounted == {"clk_on", "src_on"}

-----------------------------------------------------------------------------
(* The I2C bus driver.  The clock is held on during probe only. *)

I2cUndo == <<"cpufreq", "irq", "regs", "ioarea", "clk_on", "clk", "i2c">>

(* Mutant: request_irq fails to the label before the right one. *)
I2cProbeLabel ==
  << Get("i2c", 0), Get("clk", 1), Sure("clk_on"), Get("ioarea", 3), Get("regs", 4),
     Use("clk_on"), Get("irq", 4), Get("cpufreq", 6), Get("adapter", 7), Put("clk_on") >>

I2cProbe ==
  << Get("i2c", 0), Get("clk", 1), Sure("clk_on"), Get("ioarea", 3), Get("regs", 4),
     Use("clk_on"), Get("irq", 5), Get("cpufreq", 6), Get("adapter", 7), Put("clk_on") >>

I2cRemove ==
  << Put("cpufreq"), Put("adapter"), Put("irq"), Put("clk_on"), Put("clk"), Put("regs"),
     Put("ioarea"), Put("i2c") >>

I2cCalls == { Call({"irq"}, {"i2c", "regs"}), Call({"cpufreq"}, {"i2c", "clk", "regs"}),
              Call({"adapter"}, {"i2c", "clk", "regs", "irq"}) }

(* The bus without hardware of the I2C examples. *)
VirtualI2cProbe  == << Get("i2c", 0), Get("adapter", 0) >>
VirtualI2cRemove == << Put("adapter") >>

-----------------------------------------------------------------------------
(* The SPI controller driver.  The worker runs while the queue exists. *)

SpiUndo == <<"workqueue", "src_on", "src", "clk_on", "clk", "regs", "region", "master">>

SpiProbe ==
  << Get("master", 0), Get("region", 1), Get("regs", 2), Get("clk", 3), Get("clk_on", 4),
     Get("src", 5), Get("src_on", 6), Get("workqueue", 7), Use("regs"), Get("bus", 8) >>

(* Mutant: the clocks go before the worker. *)
SpiRemoveEarly ==
  << Put("bus"), Put("src_on"), Put("workqueue"), Put("src"), Put("clk_on"), Put("clk"),
     Put("regs"), Put("region"), Put("master") >>

SpiRemove ==
  << Put("bus"), Put("workqueue"), Put("src_on"), Put("src"), Put("clk_on"), Put("clk"),
     Put("regs"), Put("region"), Put("master") >>

SpiCalls == { Call({"bus"}, {"master", "workqueue"}),
              Call({"workqueue"}, {"master", "regs", "clk_on", "src_on"}) }

-----------------------------------------------------------------------------
(* The beep driver.  class_create's failure is an error pointer that       *)
(* device_create follows.  With a major number, once allocated or given,   *)
(* no number is reserved: register_chrdev_region is asked for none, and    *)
(* the device is added under a number that anybody may take.  The          *)
(* unregister of the failure path asks for a range that was never          *)
(* registered and so frees nothing.                                        *)

BeepUndo == <<"data", "mem">>

BeepNumber == [op |-> "try", res |-> {"region", "major"}, undo |-> 0, unless |-> "major"]

BeepAddCdev == << Use("region"), Get("cdev", 2) >>

BeepProbe ==
  << Get("pwm", 0), Try("gpio"), BeepNumber, Get("mem", 0), Get("data", 1) >> \o BeepAddCdev
  \o << Try("class"), Use("class"), Try("device") >> \o << Use("pwm"), Use("gpio") >>

BeepRemove ==
  << Use("pwm"), Use("gpio"), Put("pwm"), Put("gpio"), Del("device"), Put("class"), Put("cdev"),
     Put("data"), Put("mem"), Del("region") >>

(* open, release, ioctl and write work the registers; the file refers to   *)
(* the cdev inside mem.                                                    *)
BeepCalls == { Call({"file"}, {"pwm", "gpio", "mem"}) }

-----------------------------------------------------------------------------
(* Four buttons with one timer, which each interrupt starts. *)

ButtonsProbe ==
  << Try("input"), Use("input"), Try("registered"), Sure("timer"), Try("irq"), Try("irq2") >>

ButtonsRemove ==
  << Put("irq"), Put("irq2"), Del("timer"), Put("registered"), Del("input"), Put("input") >>

ButtonsCalls ==
  { [on |-> {l}, needs |-> {}, sets |-> {"buttons_id", "timer"}, clears |-> {}] : l \in {"irq", "irq2"} }
  \cup { [on |-> {"timer"}, needs |-> {"buttons_id", "input"}, sets |-> {}, clears |-> {"timer"}] }

(* The GPIO key: the interrupt is requested before its input device; the   *)
(* unregister frees the device.                                            *)
KeyProbe ==
  << Try("pin0"), Use("pin0"), Try("irq"), Try("input"), Use("input"), Try("registered") >>
KeyRemove == << Put("registered"), Del("input") >>
KeyCalls  == { Call({"irq"}, {"pin0", "input"}) }

(* Its example with platform data: the memory is overwritten at once. *)
ExampleProbe == << Sure("pdata") >> \o KeyProbe

(* Two interrupts whose handlers only log. *)
KeyIrqProbe  == << Try("irq"), Try("irq2") >>
KeyIrqRemove == << Put("irq"), Put("irq2") >>

-----------------------------------------------------------------------------
(* Miscellaneous devices.  The LED driver: a pin that is not there is      *)
(* reported, the result of the last one decides.                           *)

LedUndo   == << "misc" >>
LedProbe  == << Try("pin0"), Try("pin1"), Use("pin0"), Try("misc"), Check("pin1", 1) >>
LedRemove == << Put("pin0"), Put("pin1"), Put("misc") >>
LedCalls  == { Call({"file"}, {"pin0", "pin1"}) }

MiscProbe  == << Try("misc") >>
MiscRemove == << Put("misc") >>

(* The example of a character device frees an input device it never had.   *)
DetailProbe  == << Sure("pdata"), Try("pin0"), Use("pin0"), Try("class"), Try("chrdev"), Use("class"),
                   Try("device") >>
DetailRemove == << Use("input") >>
DetailCalls  == { Call({"file"}, {"pin0"}) }

(* The touch screen and the RFID reader: the device is there while bound.  *)
TouchUndo   == << "client" >>
TouchProbe  == << Sure("client"), Use("client"), Get("misc", 1) >>
TouchRemove == << Del("client") >>
ClientCalls == { Call({"file"}, {"client"}) }

Rc522Reset  == << Try("pin0"), Put("pin0") >>
Rc522Probe  == Rc522Reset \o << Sure("client"), Try("misc") >>
Rc522Remove == << Put("misc"), Del("client") >>

(* Without a device file, with the registers written in probe. *)
Rc522QuietReset  == << Try("pin0"), Put("pin0") >>
Rc522QuietProbe  == Rc522QuietReset \o << Sure("client"), Use("client") >>
Rc522QuietRemove == << Del("client") >>

-----------------------------------------------------------------------------
(* Terminals and the disk. *)

TtyUndo   == << "driver" >>
TtyProbe  == << Get("driver", 0), Get("registered", 1), Sure("ports") >>
TtyRemove == << Put("ports"), Put("registered") >>

SerialUndo   == << "registered" >>
SerialProbe  == << Get("registered", 0), Get("port", 1) >>
SerialRemove == << Put("port"), Put("registered") >>

(* The other copy of the driver leaves its port where it is. *)
CopyRemove == << Put("registered") >>

(* The UART driver numbers its ports by a counter that only goes up. *)
UartProbe  == << Sure("slot"), Step("get", {}, 0), Try("clk"), Try("port") >>
UartRemove == << Put("port") >>

(* The first open allocates the timer. *)
SerialCalls ==
  { [on |-> {"file"}, needs |-> {"port", "registered"}, sets |-> {"timer"}, clears |-> {}] }

BlkdevUndo   == << "queue" >>
BlkdevProbe  == << Get("queue", 0), Get("gendisk", 1), Sure("disk") >>
BlkdevRemove == << Put("disk"), Put("gendisk"), Put("queue") >>
BlkdevCalls  == { Call({"file"}, {"gendisk", "queue"}) }

=============================================================================
