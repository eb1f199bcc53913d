---------------------------- MODULE S3cUartClock ----------------------------
(***************************************************************************)
(* The clocks of one S3C24xx UART port (linux_driver/tty/s3c2410.c): the   *)
(* divisor and the source chosen for a baud rate, and who holds which      *)
(* clock through set_termios and power management.                         *)
(*                                                                         *)
(* Clocks are counted as the clock framework (external) counts them.  The  *)
(* actions change the clock variables only; S3cUart composes them with the *)
(* life of the port.  The source is the one the driver has chosen; the     *)
(* set_clksrc of this file switches nothing (see SourceTaken).             *)
(***************************************************************************)
EXTENDS Integers, Sequences

CONSTANTS NONE,       \* a NULL pointer
          Rate,       \* the clocks clk_get finds, each with its rate
          Configs,    \* the clock lists boards pass: sequences of [name, divisor]
          Bauds,      \* the rates termios asks for
          InitBaud,   \* the rate of the first termios
          MaxDivisor  \* bound of the property: divisors a better choice could have

Clocks == {"uart"} \cup DOMAIN Rate

ASSUME ClockAssumption ==
  /\ NONE \notin Clocks /\ "pclk" \in DOMAIN Rate /\ "uart" \notin DOMAIN Rate
  /\ \A c \in DOMAIN Rate : Rate[c] \in Nat
  /\ Configs \subseteq Seq([name : STRING, divisor : Nat \ {0}])
  /\ \A cfg \in Configs : cfg # <<>> => \E i \in 1..Len(cfg) : cfg[i].name \in DOMAIN Rate
  /\ Bauds \subseteq Nat \ {0} /\ InitBaud \in Bauds /\ MaxDivisor \in Nat

VARIABLES
  cfg_clocks,       \* cfg->clocks
  use,              \* the use count of each clock
  clksrc, baudclk,  \* ourport->clksrc, ourport->baudclk
  ubrdiv,           \* UBRDIV
  rate_of           \* termios: the rate asked for, 0 for the user's own divisor

clock == <<cfg_clocks, use, clksrc, baudclk, ubrdiv, rate_of>>

tmp_clksrc == [name |-> "pclk", divisor |-> 1]

(* What s3c2400_serial_getsource says, whatever source was set.            *)
getsource == [name |-> "pclk", divisor |-> 1]

(* Probed and configured, the port has given back the clock the boot       *)
(* loader left on.                                                         *)
ClockInit ==
  /\ cfg_clocks \in Configs /\ use = [c \in Clocks |-> 0]
  /\ clksrc = NONE /\ baudclk = NONE
  /\ ubrdiv = 0 /\ rate_of = InitBaud

-----------------------------------------------------------------------------
(* UBRDIV has sixteen bits. *)
UbrdivValues == 65536

clk_enable(u, c)  == IF c = NONE THEN u ELSE [u EXCEPT ![c] = @ + 1]
clk_disable(u, c) == IF c = NONE THEN u ELSE [u EXCEPT ![c] = @ - 1]

PowerOn(u)  == clk_enable(clk_enable(u, "uart"), baudclk)
PowerOff(u) == clk_disable(clk_disable(u, baudclk), "uart")

(* Mutant: the quotient is cut instead of rounded. *)
calcbaud_cut(src, baud) ==
  LET rate == Rate[src.name] \div src.divisor
      quot == rate \div (16 * baud)
  IN  [clksrc |-> src, quot |-> quot - 1,
       calc |-> IF quot = 0 THEN 0 ELSE rate \div (quot * 16)]

(* The divisor of a source nearest to the rate, and the rate it gives.  A  *)
(* quotient of zero gives zero, which is what the division by it (external *)
(* on this processor) returns.                                             *)
calcbaud(src, baud) ==
  LET rate == Rate[src.name] \div src.divisor
      quot == (rate + 8 * baud) \div (16 * baud)
  IN  [clksrc |-> src, quot |-> quot - 1,
       calc |-> IF quot = 0 THEN 0 ELSE rate \div (quot * 16)]

deviation(c, baud) == IF c.calc > baud THEN c.calc - baud ELSE baud - c.calc

(* The list of sources.  A single fclk, which this controller cannot take, *)
(* gets the divisor of the source it does take.                            *)
sources ==
  CASE cfg_clocks = <<>> -> <<tmp_clksrc>>
    [] Len(cfg_clocks) = 1 /\ cfg_clocks[1].name = "fclk"
         -> <<[cfg_clocks[1] EXCEPT !.divisor = getsource.divisor]>>
    [] OTHER -> cfg_clocks
usable == {i \in DOMAIN sources : sources[i].name \in DOMAIN Rate}

(* The first of the sources with a clock that deviate least. *)
getclk(baud) ==
  LET res(i) == calcbaud(sources[i], baud)
      dev(i) == deviation(res(i), baud)
  IN  res(CHOOSE i \in usable : \A j \in usable : dev(i) < dev(j) \/ (dev(i) = dev(j) /\ i <= j))

(* Mutant: the old clock is kept when another one is taken. *)
SelectLeaks(src, clk, quot) ==
  /\ ubrdiv' = quot % UbrdivValues
  /\ IF clksrc # src \/ baudclk # clk
     THEN /\ use' = clk_enable(use, clk)
          /\ clksrc' = src /\ baudclk' = clk
     ELSE UNCHANGED <<use, clksrc, baudclk>>
  /\ UNCHANGED cfg_clocks

(* set_termios takes a source and its clock in the place of the old ones;  *)
(* the call of setsource has no effect.                                    *)
Select(src, clk, quot) ==
  /\ ubrdiv' = quot % UbrdivValues
  /\ IF clksrc # src \/ baudclk # clk
     THEN /\ use' = clk_enable(clk_disable(use, baudclk), clk)
          /\ clksrc' = src /\ baudclk' = clk
     ELSE UNCHANGED <<use, clksrc, baudclk>>
  /\ UNCHANGED cfg_clocks

(* The user asks for a rate, or for a divisor of his own with the clock as *)
(* it is.                                                                  *)
set_baud(baud) ==
  LET best == getclk(baud) IN
  Select(best.clksrc, best.clksrc.name, best.quot) /\ rate_of' = baud
set_divisor == Select(NONE, NONE, 1) /\ rate_of' = 0
set_termios(rate) == IF rate = 0 THEN set_divisor ELSE set_baud(rate)

-----------------------------------------------------------------------------
(* Properties. *)

(* With divisor d the source is within one part in forty of the baud rate; *)
(* or within that and the two units the integer arithmetic loses when it   *)
(* compares the rates of two sources.                                      *)
Within(src, d, baud) ==
  LET rate == Rate[src.name] \div src.divisor
      off  == IF rate > 16 * d * baud THEN rate - 16 * d * baud ELSE 16 * d * baud - rate
  IN  [near |-> off <= (16 * d * baud) \div 40, close |-> off <= (16 * d * baud) \div 40 + 2 * 16 * d]

(* If the source set_termios has chosen and the divisor in the register do *)
(* not come within 2.5 % of the baud rate, then no source of the board     *)
(* does with any divisor.                                                  *)
RateReached ==
  clksrc # NONE /\ ~Within(clksrc, ubrdiv + 1, rate_of).close
  => \A i \in usable, d \in 1..MaxDivisor : ~Within(sources[i], d, rate_of).near

(* The controller takes the source that was chosen: not so where a board   *)
(* lists another one than pclk, since s3c2400_serial_setsource only        *)
(* returns 0; the divisor is then one for another clock.                   *)
SourceTaken == clksrc # NONE => clksrc = getsource

=============================================================================
