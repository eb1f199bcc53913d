--------------------------- MODULE ModuleScripts ---------------------------
(***************************************************************************)
(* How the modules of the repository register the drivers whose probes and *)
(* removes DriverScripts gives, in the same language, and the table of     *)
(* them all.  Here "driver" is the registered driver and "device" the      *)
(* device registered beside it.                                            *)
(***************************************************************************)
EXTENDS DriverScripts

(* The bus of the I2C examples registers its device first. *)
VirtualI2cUndo == << "device" >>
VirtualI2cInit == << Get("device", 0), Get("driver", 1) >>
VirtualI2cExit == << Put("device"), Put("driver") >>

(* The touch screen: its two pins are requested, driven and freed; in one  *)
(* of its modules the result of neither is looked at, in the other the     *)
(* first one's failure leaves both pins alone.                             *)
TouchPins == << Try("pin0"), Use("pin0"), Put("pin0"), Try("pin1"), Use("pin1"), Put("pin1") >>
TouchInit == TouchPins \o << Get("driver", 0) >>
TouchExit == << Put("driver") >>

ScreenPins == << Sure("pin0"), Use("pin0"), Put("pin0"), Try("pin1"), Use("pin1"), Put("pin1") >>
ScreenInit == ScreenPins \o << Get("driver", 0) >>
ScreenExit == << Put("driver") >>

(* The results of both registrations are not looked at, and the device     *)
(* stays when the module goes.                                             *)
MiscInit == << Try("driver"), Try("device") >>
MiscExit == << Put("driver") >>

KeyInit == << Try("driver"), Try("device") >>
KeyExit == << Put("driver") >>

DetailInit == << Try("device"), Try("driver") >>
DetailExit == << Put("driver") >>

ExampleInit == << Try("device"), Try("driver") >>
ExampleExit == << Put("driver") >>

(* A driver alone, registered whether that worked or not. *)
LedInit   == << Try("driver") >>
LedExit   == << Put("driver") >>
FirstInit == << Try("driver") >>
FirstExit == << Put("driver") >>
Rc522Init == << Try("driver") >>
Rc522Exit == << Put("driver") >>

(* The UART driver: the numbers of the ports, then the platform driver of  *)
(* the processor, whose result is not looked at.                           *)
UartInit == << Get("numbers", 0), Try("driver") >>
UartExit == << Put("driver"), Put("numbers") >>

(* The beep device and its driver are modules of their own. *)
BeepDeviceInit == << Get("device", 0) >>
BeepDeviceExit == << Put("device") >>
BeepDriverInit == << Get("driver", 0) >>
BeepDriverExit == << Put("driver") >>

-----------------------------------------------------------------------------
Script(probe, undo, remove, calls) ==
  [probe |-> probe, undo |-> undo, remove |-> remove, calls |-> calls]

DriverTable ==
  [ i2c        |-> Script(I2cProbe, I2cUndo, I2cRemove, I2cCalls),
    virt_i2c   |-> Script(VirtualI2cProbe, <<>>, VirtualI2cRemove, {Call({"adapter"}, {"i2c"})}),
    spi        |-> Script(SpiProbe, SpiUndo, SpiRemove, SpiCalls),
    beep       |-> Script(BeepProbe, BeepUndo, BeepRemove, BeepCalls),
    buttons    |-> Script(ButtonsProbe, <<>>, ButtonsRemove, ButtonsCalls),
    key        |-> Script(KeyProbe, <<>>, KeyRemove, KeyCalls),
    example    |-> Script(ExampleProbe, <<>>, KeyRemove, KeyCalls),
    key_irq    |-> Script(KeyIrqProbe, <<>>, KeyIrqRemove, {}),
    leds       |-> Script(LedProbe, LedUndo, LedRemove, LedCalls),
    misc       |-> Script(MiscProbe, <<>>, MiscRemove, {}),
    detail     |-> Script(DetailProbe, <<>>, DetailRemove, DetailCalls),
    touch      |-> Script(TouchProbe, TouchUndo, TouchRemove, ClientCalls),
    rc522      |-> Script(Rc522Probe, <<>>, Rc522Remove, ClientCalls),
    rc522_quiet |-> Script(Rc522QuietProbe, <<>>, Rc522QuietRemove, {}),
    tiny_tty   |-> Script(TtyProbe, TtyUndo, TtyRemove, {Call({"file"}, {"driver", "registered"})}),
    tiny_serial |-> Script(SerialProbe, SerialUndo, SerialRemove, SerialCalls),
    serial_copy |-> Script(SerialProbe, SerialUndo, CopyRemove, {}),
    uart       |-> Script(UartProbe, <<>>, UartRemove, {Call({"port"}, {"clk"})}),
    blkdev     |-> Script(BlkdevProbe, BlkdevUndo, BlkdevRemove, BlkdevCalls),
    virt_i2c_mod |-> Script(VirtualI2cInit, VirtualI2cUndo, VirtualI2cExit, {}),
    touch_mod  |-> Script(TouchInit, <<>>, TouchExit, {}),
    screen_mod |-> Script(ScreenInit, <<>>, ScreenExit, {}),
    misc_mod   |-> Script(MiscInit, <<>>, MiscExit, {}),
    key_mod    |-> Script(KeyInit, <<>>, KeyExit, {}),
    detail_mod |-> Script(DetailInit, <<>>, DetailExit, {}),
    example_mod |-> Script(ExampleInit, <<>>, ExampleExit, {}),
    leds_mod   |-> Script(LedInit, <<>>, LedExit, {}),
    first_mod  |-> Script(FirstInit, <<>>, FirstExit, {}),
    rc522_mod  |-> Script(Rc522Init, <<>>, Rc522Exit, {}),
    uart_mod   |-> Script(UartInit, <<>>, UartExit, {}),
    beep_device |-> Script(BeepDeviceInit, <<>>, BeepDeviceExit, {}),
    beep_mod   |-> Script(BeepDriverInit, <<>>, BeepDriverExit, {}) ]

Modules ==
  {"virt_i2c_mod", "touch_mod", "screen_mod", "misc_mod", "key_mod", "detail_mod", "example_mod",
   "leds_mod", "first_mod", "rc522_mod", "uart_mod", "beep_device",
   "beep_mod"}

KindTable ==
  [ d \in DOMAIN DriverTable |->
      CASE d \in {"i2c", "virt_i2c", "spi", "key", "example", "key_irq", "rc522_quiet", "uart"} -> Platform("none")
        [] d = "beep" -> Platform("cdev")
        [] d \in {"leds", "misc", "touch", "rc522"} -> Platform("misc")
        [] d = "detail" -> Platform("chrdev")
        [] d = "buttons" \/ d \in Modules -> Module("none")
        [] d = "tiny_tty" -> Module("ports")
        [] d \in {"tiny_serial", "serial_copy"} -> Module("port")
        [] d = "blkdev" -> Module("disk") ]

=============================================================================
