---------------------------- MODULE MCDriverLife ----------------------------
(* Every driver, with what is known to go wrong in it.  Each entry is      *)
(* needed: without it DriverLife's properties are violated.                *)
EXTENDS DriverLife, ModuleScripts

Of(kind, d, set) == {<<kind, d, r>> : r \in set}

(* The modules that report success whatever happened. *)
Careless == {"misc_mod", "key_mod", "detail_mod", "example_mod", "leds_mod", "first_mod", "rc522_mod",
             "uart_mod"}

MCKnown ==
  \* remove disables a clock that is disabled (i2c-s3c2410.c:1011)
  Of("unheld", "i2c", {"clk_on"})
  \* the adapter's memory (i2c/1/myi2c.c: probe allocates, remove only unregisters)
  \cup Of("kept", "virt_i2c", {"i2c"})
  \* the paths of failure unmap nothing and free no number (driver.c:363, 477);
  \* a number that was given is not reserved (driver.c:377)
  \cup Of("kept", "beep", {"pwm", "gpio", "region"})
  \cup Of("unheld", "beep", {"region"})
  \* files that are open when the device goes
  \cup Of("gone", "beep", {"pwm", "gpio", "mem"}) \cup Of("gone", "leds", {"pin0", "pin1"})
  \cup Of("gone", "touch", {"client"}) \cup Of("gone", "rc522", {"client"})
  \* the timer that init starts, without a key (input2.c:284); a second free (input2.c:303)
  \cup Of("gone", "buttons", {"buttons_id"}) \cup Of("unheld", "buttons", {"input"})
  \* the interrupt outlives the input device (input.c:36, 52)
  \cup Of("gone", "key", {"input"}) \cup Of("kept", "key", {"pin0", "irq"})
  \cup Of("gone", "example", {"input"}) \cup Of("kept", "example", {"pin0", "irq", "pdata"})
  \* nothing is undone, and an input device that never was is unregistered (detail.c:110)
  \cup Of("kept", "detail", {"pin0", "class", "chrdev", "device", "pdata"})
  \cup Of("unheld", "detail", {"input"})
  \* the pins after a failed probe (gpios.c:142)
  \cup Of("kept", "leds", {"pin0"})
  \* the device file is not deregistered (4412-i2c2.c:225)
  \cup Of("kept", "touch", {"misc"})
  \* the driver's structure, the timer's
  \cup Of("kept", "tiny_tty", {"driver"}) \cup Of("kept", "tiny_serial", {"timer"})
  \* the port outlives its driver (linux_driver/tty/tiny_serial.c:326)
  \cup Of("kept", "serial_copy", {"port"})
  \* the number of the port and its clock (s3c2410.c:1094, 1111)
  \cup Of("kept", "uart", {"slot", "clk"})
  \* the device stays when the module goes (module.c:115, input.c:94, detail.c:151, example.c:117)
  \cup Of("kept", "misc_mod", {"device"}) \cup Of("kept", "key_mod", {"device"})
  \cup Of("kept", "detail_mod", {"device"}) \cup Of("kept", "example_mod", {"device"})
  \* a driver that is unregistered, a pin that is driven and freed, although neither was had
  \cup UNION { Of("unheld", d, {"driver"}) : d \in Careless }
  \cup Of("unheld", "touch_mod", {"pin0", "pin1"}) \cup Of("unheld", "screen_mod", {"pin1"})

(* A missing device node, the last pin, a driver that cannot be            *)
(* registered: probe or init goes on, or finds out later.                  *)
MCUnnoticed ==
  {<<"beep", "device">>, <<"detail", "device">>, <<"leds", "pin1">>, <<"touch_mod", "pin0">>,
   <<"touch_mod", "pin1">>, <<"screen_mod", "pin1">>} \cup {<<d, "driver">> : d \in Careless}
=============================================================================
