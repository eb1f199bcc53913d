---------------------------- MODULE S3cI2cClock ----------------------------
(***************************************************************************)
(* The bus clock of the S3C24xx I2C driver: s3c24xx_i2c_calcdivisor,       *)
(* s3c24xx_i2c_clockrate and the cpufreq notifier that follows the input   *)
(* clock.  The driver computes in whole kHz: of the input rate and of the  *)
(* wanted one it drops what is below.  Rates here are in a smaller unit,   *)
(* KHz of which are a kHz (1000 in the code).                              *)
(*                                                                         *)
(* cpufreq (external) announces a new input rate, at which clk_get_rate    *)
(* already reports it, calls the notifier with CPUFREQ_PRECHANGE, switches *)
(* the clock and calls the notifier with CPUFREQ_POSTCHANGE.               *)
(***************************************************************************)
EXTENDS Integers

CONSTANTS KHz,        \* units of a rate in a kHz
          Rates,      \* the input rates of the platform
          Targets,    \* pdata->frequency: 0 asks for the default
          SdaDelay    \* pdata->sda_delay in ns, of an S3C2440

ASSUME ClockAssumption ==
  /\ KHz \in Nat \ {0} /\ Rates \subseteq Nat \ {0}
  /\ Targets \subseteq Nat /\ \A t \in Targets : t = 0 \/ t >= KHz   \* a target below a kHz divides by zero
  /\ SdaDelay \in Nat \ {0}

VARIABLES target,   \* pdata->frequency
          hw,       \* the input rate of the controller
          rep,      \* what clk_get_rate returns
          clkrate,  \* i2c->clkrate
          iiccon,   \* IICCON: [scale, div1], the four scale bits and TXDIV_512
          iiclc,    \* IICLC: the SDA delay, in units of five input clocks
          on,       \* IICCON was not cleared by a failed s3c24xx_i2c_init
          refused,  \* observation: the last s3c24xx_i2c_clockrate failed
          wiped,    \* observation: none has succeeded since set_master cleared IICCON
          phase     \* where cpufreq is

vars == <<target, hw, rep, clkrate, iiccon, iiclc, on, refused, wiped, phase>>

CeilDiv(a, b) == (a + b - 1) \div b

(* A rate in kHz, and the wanted one: 100 kHz unless the platform says otherwise. *)
InKHz(rate) == rate \div KHz
Wanted(frequency) == IF frequency = 0 THEN 100 ELSE InKHz(frequency)
target_frequency == Wanted(target)

(* The divisors for the wanted frequency, both rates in kHz; a record      *)
(* instead of the pointers.                                                *)
calcdivisor(clkin, wanted) ==
  LET raw  == clkin \div wanted
      div1 == IF raw > 16 * 16 THEN 512 ELSE 16
      up   == (raw + div1 - 1) \div div1
      divs == IF up = 0 THEN 1 ELSE IF up > 17 THEN 17 ELSE up
  IN  [div1 |-> div1, divs |-> divs, freq |-> clkin \div (divs * div1)]

(* s3c24xx_i2c_clockrate writes (divs - 1), of which IICCON keeps four     *)
(* bits as the scale; the frequency it checks is that of divs.             *)
Setting(rate) ==
  LET c == calcdivisor(InKHz(rate), target_frequency)
  IN  [ok |-> c.freq <= target_frequency,
       con |-> [scale |-> (c.divs - 1) % 16, div1 |-> c.div1]]

(* Mutant: the delay is rounded down to the unit of the register. *)
SdaRoundsDown(rate) ==
  LET d == (InKHz(rate) * SdaDelay) \div 5000000 IN IF d > 3 THEN 3 ELSE d

(* The SDA delay in units of five input clocks, of which IICLC holds two bits. *)
SdaSetting(rate) ==
  LET d == CeilDiv(CeilDiv(InKHz(rate) * SdaDelay, 1000000), 5) IN IF d > 3 THEN 3 ELSE d

(* The store of the settings; a frequency that cannot be met changes nothing. *)
clockrate ==
  /\ clkrate' = rep /\ refused' = ~Setting(rep).ok
  /\ LET s == Setting(rep) IN
       IF s.ok THEN iiccon' = s.con /\ iiclc' = SdaSetting(rep) /\ wiped' = FALSE
               ELSE UNCHANGED <<iiccon, iiclc, wiped>>

(* The probe succeeded. *)
Init ==
  /\ target \in Targets /\ hw \in Rates /\ rep = hw /\ clkrate = hw
  /\ LET s == Setting(hw) IN s.ok /\ iiccon = s.con
  /\ iiclc = SdaSetting(hw)
  /\ on = TRUE /\ refused = FALSE /\ wiped = FALSE /\ phase = "steady"

-----------------------------------------------------------------------------
(* cpufreq (external) announces the rate r. *)
Announce(r) ==
  /\ phase = "steady" /\ phase' = "announced" /\ rep' = r
  /\ UNCHANGED <<target, hw, clkrate, iiccon, iiclc, on, refused, wiped>>

(* Mutant of PreChange: a clock that is about to slow down is followed now. *)
PreChangeDown ==
  /\ phase = "announced" /\ phase' = "told"
  /\ IF rep - clkrate < 0 THEN clockrate ELSE UNCHANGED <<clkrate, iiccon, iiclc, refused, wiped>>
  /\ UNCHANGED <<target, hw, rep, on>>

(* s3c24xx_i2c_cpufreq_transition with CPUFREQ_PRECHANGE. *)
PreChange ==
  /\ phase = "announced" /\ phase' = "told"
  /\ IF rep - clkrate > 0 THEN clockrate ELSE UNCHANGED <<clkrate, iiccon, iiclc, refused, wiped>>
  /\ UNCHANGED <<target, hw, rep, on>>

(* The clock itself changes (external). *)
Switch ==
  /\ phase = "told" /\ phase' = "switched" /\ hw' = rep
  /\ UNCHANGED <<target, rep, clkrate, iiccon, iiclc, on, refused, wiped>>

(* Mutant of PostChange: a clock that went up is followed only now. *)
PostChangeUp ==
  /\ phase = "switched" /\ phase' = "steady"
  /\ IF rep - clkrate > 0 THEN clockrate ELSE UNCHANGED <<clkrate, iiccon, iiclc, refused, wiped>>
  /\ UNCHANGED <<target, hw, rep, on>>

(* s3c24xx_i2c_cpufreq_transition with CPUFREQ_POSTCHANGE. *)
PostChange ==
  /\ phase = "switched" /\ phase' = "steady"
  /\ IF rep - clkrate < 0 THEN clockrate ELSE UNCHANGED <<clkrate, iiccon, iiclc, refused, wiped>>
  /\ UNCHANGED <<target, hw, rep, on>>

(* s3c24xx_i2c_resume runs s3c24xx_i2c_init, which clears IICCON when the   *)
(* frequency cannot be met.                                                *)
Resume ==
  /\ phase = "steady"
  /\ clkrate' = rep /\ refused' = ~Setting(rep).ok /\ wiped' = FALSE
  /\ LET s == Setting(rep) IN
       IF s.ok THEN iiccon' = s.con /\ iiclc' = SdaSetting(rep) /\ on' = TRUE
               ELSE iiccon' = [scale |-> 0, div1 |-> 16] /\ on' = FALSE /\ UNCHANGED iiclc
  /\ UNCHANGED <<target, hw, rep, phase>>

(* s3c24xx_i2c_set_master resets a HDMIPHY controller that hangs: all of    *)
(* IICCON, the divisors with it, and nobody chooses them again.            *)
Reset ==
  /\ iiccon' = [scale |-> 0, div1 |-> 16] /\ wiped' = TRUE
  /\ UNCHANGED <<target, hw, rep, clkrate, iiclc, on, refused, phase>>

Next ==
  \/ \E r \in Rates : Announce(r)
  \/ PreChange \/ Switch \/ PostChange \/ Resume \/ Reset

Spec == Init /\ [][Next]_vars

-----------------------------------------------------------------------------
(* The frequency on the bus is hw \div Divisor; it is compared exactly. *)
Divisor == iiccon.div1 * (iiccon.scale + 1)

TypeOK ==
  /\ target \in Targets /\ hw \in Rates /\ rep \in Rates /\ clkrate \in Rates
  /\ iiccon \in [scale : 0..15, div1 : {16, 512}] /\ iiclc \in 0..3
  /\ on \in BOOLEAN /\ refused \in BOOLEAN /\ wiped \in BOOLEAN
  /\ phase \in {"steady", "announced", "told", "switched"}

(* At no moment of a frequency change does the bus run a kHz faster than   *)
(* the platform data asks for, in the whole kHz of the driver: the divisor *)
(* grows before the clock speeds up and shrinks only after it has slowed   *)
(* down.  Two cases are out of it: a refused rate, which is reported and   *)
(* leaves the divisor of the old one, and the time from a HDMIPHY reset to *)
(* the next choice of the divisors.                                        *)
NeverTooFast ==
  on /\ ~refused /\ ~wiped => hw < (target_frequency + 1) * KHz * Divisor

(* The same across resets, where the comment in set_master says that "the  *)
(* controller will work after reset": not so, it runs at a sixteenth of    *)
(* its input clock.                                                        *)
NeverTooFastReset == on /\ ~refused => hw < (target_frequency + 1) * KHz * Divisor

(* The same to the last unit: not so either, the driver drops what is      *)
(* below a kHz of both rates.                                              *)
NeverFaster ==
  on /\ ~refused /\ ~wiped => hw <= (IF target = 0 THEN 100 * KHz ELSE target) * Divisor

(* Between changes the bus is as fast as the controller's divisors allow:  *)
(* with the same prescaler, the next smaller divisor would reach the       *)
(* wanted frequency or pass it, in its whole kHz.                          *)
NotTooSlow ==
  on /\ ~refused /\ phase = "steady" =>
    hw >= target_frequency * KHz * iiccon.div1 * iiccon.scale

(* Between changes SDA is held for the requested time, at the input clock  *)
(* in whole kHz, or for the longest the register can express.  A HDMIPHY   *)
(* reset leaves the delay alone.                                           *)
SdaHeld ==
  on /\ ~refused /\ phase = "steady" =>
    iiclc = 3 \/ iiclc * 5 * 1000000 >= SdaDelay * InKHz(hw)

=============================================================================
