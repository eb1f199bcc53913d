------------------------ MODULE S3cI2cControlProofs ------------------------
(***************************************************************************)
(* Proofs about IICCON and the bus clock of the S3C24xx I2C driver, for    *)
(* every set of input rates, targets and delays.                           *)
(*                                                                         *)
(* On one processor whoever is between a read and a write of IICCON is     *)
(* alone with it: a thread that holds i2c->lock has interrupts off, and    *)
(* under the handler no thread runs.  So what was read is still there when *)
(* it is written, and the divisors are always those chosen for             *)
(* i2c->clkrate, the faster of the old and the new input rate while the    *)
(* clock changes.                                                          *)
(***************************************************************************)
EXTENDS S3cI2cControl, TLAPS

USE DEF vars, control, allVars

Con == [scale : 0..15, div1 : {16, 512}]
Ops == {"enable_irq", "disable_irq", "enable_ack", "disable_ack", "start", "restart", "ack", "divisor"}

-----------------------------------------------------------------------------
(* Arithmetic. *)

(* How far a quotient is from the division. *)
LEMMA DivTimes ==
  ASSUME NEW a \in Nat, NEW d \in Nat \ {0}
  PROVE  /\ a \div d \in Nat /\ (a \div d) * d <= a
         /\ a < (a \div d) * d + d
OBVIOUS

(* A quotient rounded up. *)
LEMMA CeilDivTimes ==
  ASSUME NEW a \in Nat, NEW d \in Nat \ {0}
  PROVE  CeilDiv(a, d) \in Nat /\ CeilDiv(a, d) * d >= a
BY DivTimes DEF CeilDiv

(* Rates in kHz, and the wanted one, which nothing is divided by as zero.  *)
LEMMA KHzFacts ==
  ASSUME NEW r \in Nat \ {0}, target \in Targets
  PROVE  /\ KHz \in Nat \ {0} /\ target_frequency \in Nat \ {0} /\ InKHz(r) \in Nat
         /\ InKHz(r) * KHz <= r /\ r < (InKHz(r) + 1) * KHz
<1>1. KHz \in Nat \ {0} /\ target \in Nat /\ (target = 0 \/ target >= KHz)
  BY ClockAssumption
<1>2. InKHz(r) \in Nat /\ InKHz(r) * KHz <= r /\ r < (InKHz(r) + 1) * KHz
  <2>1. InKHz(r) \in Nat /\ InKHz(r) * KHz <= r /\ r < InKHz(r) * KHz + KHz
    BY <1>1, DivTimes DEF InKHz
  <2>2. (InKHz(r) + 1) * KHz = InKHz(r) * KHz + KHz
    BY <1>1, <2>1
  <2>3. QED
    BY <2>1, <2>2
<1>3. target_frequency \in Nat \ {0}
  <2>1. CASE target = 0
    BY <2>1 DEF target_frequency, Wanted
  <2>2. CASE target >= KHz
    <3>1. target \div KHz \in Nat /\ target < (target \div KHz) * KHz + KHz
      BY <1>1, DivTimes
    <3>2. target \div KHz # 0
      BY <1>1, <2>2, <3>1
    <3>3. target # 0
      BY <1>1, <2>2
    <3>4. QED
      BY <3>1, <3>2, <3>3 DEF target_frequency, Wanted, InKHz
  <2>3. QED
    BY <1>1, <2>1, <2>2
<1>4. QED
  BY <1>1, <1>2, <1>3

(* The divisors fit their fields of IICCON, and unless they do not fit     *)
(* (17) the register says what was chosen.                                 *)
LEMMA SettingFacts ==
  ASSUME NEW r \in Nat \ {0}, target \in Targets
  PROVE  LET c == calcdivisor(InKHz(r), target_frequency) IN
         /\ c.div1 \in {16, 512} /\ c.divs \in 1..17
         /\ Setting(r).con \in Con
         /\ Setting(r).con.div1 = c.div1
         /\ c.divs <= 16 => Setting(r).con.scale = c.divs - 1
         /\ c.divs = 17 => Setting(r).con.scale = 0
         /\ Setting(r).ok = (InKHz(r) \div (c.divs * c.div1) <= target_frequency)
<1> DEFINE clkin == InKHz(r)
           raw == clkin \div target_frequency
           div1 == IF raw > 16 * 16 THEN 512 ELSE 16
           up == (raw + div1 - 1) \div div1
<1>0. clkin \in Nat /\ target_frequency \in Nat \ {0}
  BY KHzFacts
<1>1. raw \in Nat /\ up \in Nat
  BY <1>0, DivTimes
<1>2. calcdivisor(clkin, target_frequency) =
        [div1 |-> div1, divs |-> IF up = 0 THEN 1 ELSE IF up > 17 THEN 17 ELSE up,
         freq |-> clkin \div ((IF up = 0 THEN 1 ELSE IF up > 17 THEN 17 ELSE up) * div1)]
  BY DEF calcdivisor
<1> HIDE DEF clkin
<1>3. QED
  BY <1>1, <1>2 DEF Setting, Con, clkin

(* The setting for a rate is less than a kHz too fast for it, if its       *)
(* divisor fits.                                                           *)
LEMMA SettingNotTooFast ==
  ASSUME NEW r \in Nat \ {0}, target \in Targets, Setting(r).ok,
         calcdivisor(InKHz(r), target_frequency).divs <= 16
  PROVE  LET con == Setting(r).con IN
         r < (target_frequency + 1) * KHz * (con.div1 * (con.scale + 1))
<1> DEFINE c == calcdivisor(InKHz(r), target_frequency)
           con == Setting(r).con
           d == con.div1 * (con.scale + 1)
<1>1. con.scale + 1 = c.divs /\ con.div1 = c.div1 /\ c.div1 \in {16, 512} /\ c.divs \in 1..16
  BY SettingFacts
<1>2. c.divs * c.div1 = d /\ d \in Nat \ {0}
  BY <1>1
<1>3. InKHz(r) \div d <= target_frequency
  BY <1>2, SettingFacts
<1>4. /\ KHz \in Nat \ {0} /\ target_frequency \in Nat \ {0} /\ InKHz(r) \in Nat
      /\ r < (InKHz(r) + 1) * KHz
  BY KHzFacts
<1> HIDE DEF d
<1>5. InKHz(r) + 1 <= (target_frequency + 1) * d
  <2>1. InKHz(r) \div d \in Nat /\ InKHz(r) < (InKHz(r) \div d) * d + d
    BY <1>2, <1>4, DivTimes
  <2>2. (InKHz(r) \div d) * d <= target_frequency * d
    BY <1>2, <1>3, <1>4, <2>1
  <2>3. (target_frequency + 1) * d = target_frequency * d + d
    BY <1>2, <1>4
  <2>4. QED
    BY <1>2, <1>4, <2>1, <2>2, <2>3
<1>6. (InKHz(r) + 1) * KHz <= ((target_frequency + 1) * d) * KHz
  BY <1>2, <1>4, <1>5
<1>7. ((target_frequency + 1) * d) * KHz = (target_frequency + 1) * KHz * d
  BY <1>2, <1>4
<1>8. r < (target_frequency + 1) * KHz * d
  BY <1>2, <1>4, <1>6, <1>7
<1>9. QED
  BY <1>8 DEF d

(* With one unit less on the scale the rate would be reached or passed.    *)
LEMMA SettingNotTooSlow ==
  ASSUME NEW r \in Nat \ {0}, target \in Targets
  PROVE  r >= target_frequency * KHz * Setting(r).con.div1 * Setting(r).con.scale
<1> DEFINE clkin == InKHz(r)
           wanted == target_frequency
           raw == clkin \div wanted
           div1 == IF raw > 16 * 16 THEN 512 ELSE 16
           up == (raw + div1 - 1) \div div1
           scale == Setting(r).con.scale
<1>0. /\ KHz \in Nat \ {0} /\ wanted \in Nat \ {0} /\ clkin \in Nat /\ clkin * KHz <= r
  BY KHzFacts
<1>1. /\ raw \in Nat /\ raw * wanted <= clkin
      /\ up \in Nat /\ up * div1 <= raw + div1 - 1
  BY <1>0, DivTimes
<1>2. Setting(r).con.div1 = div1 /\ scale \in 0..15 /\ (scale = 0 \/ scale = up - 1)
  <2>1. /\ calcdivisor(clkin, wanted).div1 = div1
        /\ calcdivisor(clkin, wanted).divs = IF up = 0 THEN 1 ELSE IF up > 17 THEN 17 ELSE up
    BY DEF calcdivisor
  <2>2. scale \in 0..15
    BY SettingFacts DEF Con
  <2> HIDE DEF clkin, wanted
  <2>3. QED
    BY <1>1, <2>1, <2>2, SettingFacts DEF clkin, wanted
<1> HIDE DEF clkin, wanted, scale
<1>3. scale * div1 <= raw
  <2>1. CASE scale = 0
    BY <1>1, <2>1
  <2>2. CASE scale = up - 1
    <3>1. scale * div1 = up * div1 - div1
      BY <1>1, <2>2
    <3>2. QED
      BY <1>1, <1>2, <3>1
  <2>3. QED
    BY <1>2, <2>1, <2>2
<1>4. (scale * div1) * wanted <= raw * wanted
  BY <1>0, <1>1, <1>2, <1>3
<1>5. (scale * div1) * wanted <= clkin /\ scale * div1 \in Nat
  BY <1>0, <1>1, <1>2, <1>4
<1>6. ((scale * div1) * wanted) * KHz <= clkin * KHz
  BY <1>0, <1>2, <1>5
<1>7. ((scale * div1) * wanted) * KHz = wanted * KHz * div1 * scale
  BY <1>0, <1>2
<1>8. r >= wanted * KHz * div1 * scale
  BY <1>0, <1>2, <1>6, <1>7
<1>9. QED
  BY <1>2, <1>8 DEF wanted, scale

(* The delay covers the requested time or is the longest.                  *)
LEMMA DelayLongEnough ==
  ASSUME NEW r \in Nat \ {0}, target \in Targets
  PROVE  SdaSetting(r) \in 0..3
         /\ (SdaSetting(r) = 3 \/ SdaSetting(r) * 5 * 1000000 >= SdaDelay * InKHz(r))
<1> DEFINE clkin == InKHz(r)
           us == CeilDiv(clkin * SdaDelay, 1000000)
           d == CeilDiv(us, 5)
<1>1. clkin * SdaDelay \in Nat /\ clkin * SdaDelay = SdaDelay * clkin
  BY ClockAssumption, KHzFacts
<1>2. us \in Nat /\ us * 1000000 >= clkin * SdaDelay
  BY <1>1, CeilDivTimes
<1>3. d \in Nat /\ d * 5 >= us
  BY <1>2, CeilDivTimes
<1>4. SdaSetting(r) = IF d > 3 THEN 3 ELSE d
  BY DEF SdaSetting
<1>5. QED
  BY <1>1, <1>2, <1>3, <1>4

-----------------------------------------------------------------------------
(* The inductive invariant. *)

RateType ==
  /\ target \in Targets /\ hw \in Rates /\ rep \in Rates /\ clkrate \in Rates
  /\ phase \in {"steady", "announced", "told", "switched"}
FlagType == on \in BOOLEAN /\ refused \in BOOLEAN /\ wiped \in BOOLEAN
RegisterType ==
  /\ iiccon \in Con /\ ctl \in Bits
  /\ want \in [irqen : BOOLEAN, acken : BOOLEAN, con : Con]
PartyType ==
  /\ lock \in {NONE, "task", "cpufreq"}
  /\ left \in [Parties -> Seq(Ops)]
  /\ \A t \in Parties : copy[t] # NONE => copy[t] \in [con : Con, bits : Bits]
  /\ DOMAIN copy = Parties

(* The notifier follows the faster of the two rates while they differ. *)
RatesAgree ==
  /\ phase = "steady" => hw = rep /\ clkrate = rep
  /\ phase = "announced" => hw = clkrate
  /\ phase = "told" => clkrate = IF rep > hw THEN rep ELSE hw
  /\ phase = "switched" => hw = rep /\ clkrate >= rep

(* The registers hold what was chosen for the last rate that was accepted, *)
(* unless a reset has cleared IICCON since.                                *)
SdaAgrees == on /\ ~refused => iiclc = SdaSetting(clkrate)
ClockAgrees ==
  /\ RatesAgree /\ SdaAgrees
  /\ on /\ ~refused /\ ~wiped => Setting(clkrate).ok /\ iiccon = Setting(clkrate).con
  /\ wiped => iiccon.scale = 0

USE DEF RatesAgree, SdaAgrees

(* On one processor a party that has accesses left is alone, and what it   *)
(* has read, the interrupt excepted, is what the register holds.           *)
Exclusive ==
  /\ left["task"] # <<>> => lock = "task"
  /\ left["cpufreq"] # <<>> => lock = "cpufreq"
  /\ lock # NONE => left["irq"] = <<>>
  /\ \A t \in Parties : copy[t] # NONE =>
       /\ left[t] # <<>> /\ copy[t].con = iiccon
       /\ copy[t].bits.irqen = ctl.irqen /\ copy[t].bits.acken = ctl.acken

IInv == RateType /\ FlagType /\ RegisterType /\ PartyType /\ ClockAgrees /\ Exclusive /\ RegisterMerged

(* All rates and targets are positive. *)
LEMMA Numbers ==
  ASSUME RateType
  PROVE  /\ target \in Targets /\ hw \in Nat \ {0} /\ rep \in Nat \ {0} /\ clkrate \in Nat \ {0}
BY ClockAssumption DEF RateType

(* After the probe nobody is at work on the register. *)
LEMMA InitHolds == ControlInit => IInv
<1> SUFFICES ASSUME ControlInit PROVE IInv
  OBVIOUS
<1> USE DEF ControlInit, Init
<1>1. RateType
  BY DEF RateType
<1>2. FlagType
  BY DEF FlagType
<1>3. RegisterType
  BY <1>1, Numbers, SettingFacts DEF RegisterType, Bits
<1>4. PartyType
  BY DEF PartyType
<1>5. ClockAgrees
  BY DEF ClockAgrees
<1>6. Exclusive /\ RegisterMerged
  BY DEF Exclusive, RegisterMerged, Parties
<1>7. QED
  BY <1>1, <1>2, <1>3, <1>4, <1>5, <1>6 DEF IInv

(* A party reads the register. *)
LEMMA ReadStep == ASSUME NEW t \in Parties, IInv, Read(t) PROVE IInv'
<1> USE DEF IInv, Read
<1>1. RateType' /\ FlagType' /\ RegisterType' /\ RegisterMerged' /\ ClockAgrees'
  BY DEF RateType, FlagType, RegisterType, RegisterMerged, ClockAgrees, Setting, target_frequency, Wanted, InKHz
<1>2. PartyType'
  BY DEF PartyType, RegisterType
<1>3. Exclusive'
  BY DEF Exclusive, PartyType
<1>4. QED
  BY <1>1, <1>2, <1>3

(* What an access makes of the control bits it makes of the history too.   *)
LEMMA ModifiedFacts ==
  ASSUME NEW op \in Ops, NEW c \in Bits, NEW w \in [irqen : BOOLEAN, acken : BOOLEAN, con : Con],
         c.irqen = w.irqen, c.acken = w.acken
  PROVE  /\ Modified(op, c) \in Bits /\ Modified(op, c).pend = c.pend
         /\ Modified(op, w) \in [irqen : BOOLEAN, acken : BOOLEAN, con : Con]
         /\ Modified(op, w).con = w.con
         /\ Modified(op, c).irqen = Modified(op, w).irqen
         /\ Modified(op, c).acken = Modified(op, w).acken
BY DEF Ops, Bits, Modified, enable_irq, disable_irq, enable_ack, disable_ack

(* What is written under the lock, or by the handler, is what was read     *)
(* but for the bit that was meant.                                         *)
LEMMA WriteStep == ASSUME ~Smp, NEW t \in Parties, IInv, Write(t) PROVE IInv'
<1> DEFINE op == Head(left[t])
           bits == [Modified(op, copy[t].bits) EXCEPT !.pend = IF op = "ack" THEN FALSE ELSE @]
<1> USE DEF IInv
<1>1. /\ left[t] \in Seq(Ops) /\ left[t] # <<>> /\ op \in Ops /\ Tail(left[t]) \in Seq(Ops)
      /\ copy[t] # NONE /\ copy[t] \in [con : Con, bits : Bits] /\ t # "cpufreq"
      /\ copy[t].con = iiccon /\ copy[t].bits.irqen = ctl.irqen /\ copy[t].bits.acken = ctl.acken
  BY DEF Write, PartyType, Exclusive
<1>2. /\ iiccon' = iiccon /\ ctl' = bits
      /\ copy' = [copy EXCEPT ![t] = NONE] /\ left' = [left EXCEPT ![t] = Tail(@)]
      /\ lock' = IF lock = t /\ Tail(left[t]) = <<>> THEN NONE ELSE lock
      /\ want' = [Modified(op, want) EXCEPT !.con = iiccon]
      /\ UNCHANGED <<target, hw, rep, clkrate, iiclc, on, refused, wiped, phase>>
  <2>1. want.con = iiccon
    BY DEF RegisterMerged
  <2>2. Modified(op, want).con = want.con
    BY <1>1, ModifiedFacts DEF RegisterType, RegisterMerged
  <2>3. QED
    BY <1>1, <2>1, <2>2 DEF Write, Store
<1>3. /\ Modified(op, copy[t].bits) \in Bits
      /\ Modified(op, want) \in [irqen : BOOLEAN, acken : BOOLEAN, con : Con]
      /\ Modified(op, copy[t].bits).irqen = Modified(op, want).irqen
      /\ Modified(op, copy[t].bits).acken = Modified(op, want).acken
  BY <1>1, ModifiedFacts DEF RegisterType, RegisterMerged
<1>4. /\ bits \in Bits /\ bits.irqen = Modified(op, want).irqen /\ bits.acken = Modified(op, want).acken
  BY <1>3 DEF Bits
<1>5. RateType' /\ FlagType' /\ ClockAgrees'
  BY <1>2 DEF RateType, FlagType, ClockAgrees, Setting, target_frequency, Wanted, InKHz
<1>6. RegisterType'
  BY <1>2, <1>3, <1>4 DEF RegisterType
<1>7. PartyType'
  BY <1>1, <1>2 DEF PartyType
<1>8. Exclusive'
  <2>1. \A s \in Parties \ {t} : copy[s] = NONE
    BY <1>1, ControlAssumption DEF Write, ThreadRuns, Exclusive, Parties
  <2>2. left'["task"] # <<>> => lock' = "task"
    BY <1>1, <1>2, ControlAssumption DEF Exclusive, PartyType, Parties
  <2>3. left'["cpufreq"] # <<>> => lock' = "cpufreq"
    BY <1>1, <1>2, ControlAssumption DEF Exclusive, PartyType, Parties
  <2>4. lock' # NONE => left'["irq"] = <<>>
    BY <1>1, <1>2, ControlAssumption DEF Exclusive, PartyType, Parties
  <2>5. \A s \in Parties : copy'[s] = NONE
    BY <1>2, <2>1 DEF PartyType
  <2>6. QED
    BY <2>2, <2>3, <2>4, <2>5 DEF Exclusive
<1>9. RegisterMerged'
  BY <1>2, <1>3, <1>4 DEF RegisterMerged
<1>10. QED
  BY <1>5, <1>6, <1>7, <1>8, <1>9

(* A reset finds nobody between a read and a write, and writes all of the  *)
(* register.                                                               *)
LEMMA ResetStep == ASSUME ~Smp, IInv, set_master PROVE IInv'
<1> USE DEF IInv, set_master, Reset
<1>1. RateType' /\ FlagType'
  BY DEF RateType, FlagType
<1>2. RegisterType' /\ PartyType'
  BY DEF RegisterType, PartyType, Con, Bits
<1>3. ClockAgrees'
  BY DEF ClockAgrees, SdaSetting, InKHz
<1>4. Exclusive'
  <2>1. left["task"] = <<>> /\ left["cpufreq"] = <<>> /\ left["irq"] = <<>>
    BY ControlAssumption DEF Exclusive, ThreadRuns, Parties
  <2>2. \A t \in Parties : copy[t] = NONE
    BY <2>1 DEF Exclusive, Parties
  <2>3. QED
    BY <2>1, <2>2 DEF Exclusive
<1>5. RegisterMerged'
  BY DEF RegisterMerged
<1>6. QED
  BY <1>1, <1>2, <1>3, <1>4, <1>5

(* A party starts when it is alone: the threads take the lock, and the     *)
(* handler finds it free.                                                  *)
LEMMA StartStep == ASSUME ~Smp, IInv, doxfer \/ Interrupt \/ Notifier PROVE IInv'
<1> USE DEF IInv, doxfer, Interrupt, Notifier
<1>1. RateType' /\ FlagType' /\ RegisterType' /\ RegisterMerged' /\ ClockAgrees'
  BY DEF RateType, FlagType, RegisterType, RegisterMerged, ClockAgrees, Setting, target_frequency, Wanted, InKHz
<1>2. PartyType'
  <2>1. \A ops \in HandlerOps : ops \o <<"ack">> \in Seq(Ops)
    <3>1. HandlerOps \subseteq Seq(Ops) /\ <<"ack">> \in Seq(Ops)
      BY DEF HandlerOps, Ops
    <3>2. QED
      BY <3>1
  <2>2. <<"enable_irq", "enable_ack", "start">> \in Seq(Ops) /\ <<"divisor">> \in Seq(Ops)
    BY DEF Ops
  <2>3. left' \in [Parties -> Seq(Ops)]
    BY <2>1, <2>2 DEF PartyType, Parties
  <2>4. QED
    BY <2>3 DEF PartyType
<1>3. Exclusive'
  <2>1. lock = NONE /\ left["task"] = <<>> /\ left["cpufreq"] = <<>> /\ left["irq"] = <<>>
    BY ControlAssumption DEF Exclusive, ThreadRuns, IrqsOn, Parties
  <2>2. \A t \in Parties : copy'[t] = NONE
    BY <2>1 DEF Exclusive, Parties
  <2>3. CASE doxfer
    BY <2>1, <2>2, <2>3 DEF Exclusive, PartyType, Parties
  <2>4. CASE Interrupt
    BY <2>1, <2>2, <2>4 DEF Exclusive, PartyType, Parties
  <2>5. CASE Notifier
    BY <2>1, <2>2, <2>5 DEF Exclusive, PartyType, Parties
  <2>6. QED
    BY <2>3, <2>4, <2>5
<1>4. QED
  BY <1>1, <1>2, <1>3

(* The interrupt of a byte is no bit that was read before.                 *)
LEMMA ByteEndsStep == ASSUME IInv, ByteEnds PROVE IInv'
<1> USE DEF IInv, ByteEnds
<1>1. RateType' /\ FlagType' /\ PartyType' /\ ClockAgrees'
  BY DEF RateType, FlagType, PartyType, ClockAgrees, Setting, target_frequency, Wanted, InKHz
<1>2. RegisterType' /\ RegisterMerged' /\ Exclusive'
  BY DEF RegisterType, RegisterMerged, Exclusive, Bits
<1>3. QED
  BY <1>1, <1>2

(* The notifier, told of a change, sets the registers for the rate it      *)
(* follows or leaves them alone.                                           *)
LEMMA ChangedFacts ==
  ASSUME IInv, Changed
  PROVE  RateType' /\ FlagType' /\ ClockAgrees' /\ iiccon' \in Con
<1> USE DEF IInv, Changed, PreChange, PostChange, clockrate
<1>1. RateType' /\ FlagType'
  BY DEF RateType, FlagType
<1>2. iiccon' \in Con
  BY Numbers, SettingFacts DEF RegisterType
<1>3. ClockAgrees'
  BY Numbers DEF ClockAgrees, RateType, FlagType, Setting, target_frequency, Wanted, InKHz, SdaSetting
<1>4. QED
  BY <1>1, <1>2, <1>3

(* Where the rates ask for nothing the notifier writes nothing.            *)
LEMMA NotifierIdleStep == ASSUME IInv, NotifierIdle PROVE IInv'
<1>1. iiccon' = iiccon /\ UNCHANGED control
  BY Numbers DEF IInv, NotifierIdle, Follows, Changed, PreChange, PostChange
<1>2. RegisterType' /\ PartyType' /\ Exclusive' /\ RegisterMerged'
  BY <1>1 DEF IInv, RegisterType, PartyType, Exclusive, RegisterMerged
<1>3. QED
  BY <1>2, ChangedFacts DEF IInv, NotifierIdle

(* The notifier writes the divisors and, as it has read them, the bits.    *)
LEMMA NotifierWriteStep == ASSUME ~Smp, IInv, NotifierWrite PROVE IInv'
<1> DEFINE bits == IF refused' THEN ctl ELSE copy["cpufreq"].bits
<1> USE DEF IInv
<1>1. /\ left["cpufreq"] \in Seq(Ops) /\ left["cpufreq"] # <<>> /\ Tail(left["cpufreq"]) \in Seq(Ops)
      /\ copy["cpufreq"] \in [con : Con, bits : Bits]
      /\ copy["cpufreq"].bits.irqen = ctl.irqen /\ copy["cpufreq"].bits.acken = ctl.acken
  BY DEF NotifierWrite, PartyType, Exclusive, Parties
<1>2. /\ ctl' = bits
      /\ copy' = [copy EXCEPT !["cpufreq"] = NONE] /\ left' = [left EXCEPT !["cpufreq"] = Tail(@)]
      /\ lock' = IF lock = "cpufreq" /\ Tail(left["cpufreq"]) = <<>> THEN NONE ELSE lock
      /\ want' = [want EXCEPT !.con = iiccon']
  BY DEF NotifierWrite, Store
<1>3. bits \in Bits /\ bits.irqen = ctl.irqen /\ bits.acken = ctl.acken
  BY <1>1 DEF RegisterType
<1>4. RateType' /\ FlagType' /\ ClockAgrees' /\ iiccon' \in Con
  BY ChangedFacts DEF NotifierWrite
<1>5. RegisterType'
  BY <1>2, <1>3, <1>4 DEF RegisterType
<1>6. PartyType'
  BY <1>1, <1>2 DEF PartyType
<1>7. Exclusive'
  <2>1. \A s \in Parties : copy'[s] = NONE
    BY <1>1, <1>2, ControlAssumption DEF NotifierWrite, ThreadRuns, Exclusive, PartyType, Parties
  <2>2. left'["task"] # <<>> => lock' = "task"
    BY <1>1, <1>2, ControlAssumption DEF Exclusive, PartyType, Parties
  <2>3. left'["cpufreq"] # <<>> => lock' = "cpufreq"
    BY <1>1, <1>2, ControlAssumption DEF Exclusive, PartyType, Parties
  <2>4. lock' # NONE => left'["irq"] = <<>>
    BY <1>1, <1>2, ControlAssumption DEF Exclusive, PartyType, Parties
  <2>5. QED
    BY <2>1, <2>2, <2>3, <2>4 DEF Exclusive
<1>8. RegisterMerged'
  BY <1>2, <1>3 DEF RegisterMerged
<1>9. QED
  BY <1>4, <1>5, <1>6, <1>7, <1>8

(* A resume finds nobody at work and writes the register anew.             *)
LEMMA WakeStep == ASSUME IInv, Wake PROVE IInv'
<1> USE DEF IInv, Wake, Resume
<1>1. RateType' /\ FlagType'
  BY DEF RateType, FlagType, Setting, target_frequency, Wanted, InKHz
<1>2. iiccon' \in Con
  BY Numbers, SettingFacts DEF Con
<1>3. RegisterType'
  BY <1>1, <1>2 DEF RegisterType, FlagType, Bits
<1>4. PartyType' /\ RegisterMerged'
  BY DEF PartyType, RegisterMerged
<1>5. ClockAgrees'
  BY DEF ClockAgrees, Setting, target_frequency, Wanted, InKHz, SdaSetting
<1>6. Exclusive'
  BY ControlAssumption DEF Exclusive, Parties
<1>7. QED
  BY <1>1, <1>3, <1>4, <1>5, <1>6

(* The clock framework announces a rate, and switches to it.               *)
LEMMA ClockSourceStep == ASSUME IInv, ClockSource, UNCHANGED control PROVE IInv'
<1> USE DEF IInv, ClockSource, Switch, Announce
<1>1. RateType' /\ FlagType' /\ RegisterType' /\ PartyType' /\ Exclusive' /\ RegisterMerged'
  BY DEF RateType, FlagType, RegisterType, PartyType, Exclusive, RegisterMerged
<1>2. ClockAgrees'
  BY Numbers DEF ClockAgrees, RateType, Setting, target_frequency, Wanted, InKHz
<1>3. QED
  BY <1>1, <1>2

(* Every step keeps the invariant. *)
LEMMA NextStep == ASSUME ~Smp, IInv, [ControlNext]_allVars PROVE IInv'
<1>1. ASSUME NEW t \in Parties, Read(t) PROVE IInv'
  BY <1>1, ReadStep
<1>2. ASSUME NEW t \in Parties, Write(t) PROVE IInv'
  BY <1>2, WriteStep
<1>3. CASE doxfer \/ Interrupt \/ Notifier
  BY <1>3, StartStep
<1>4. CASE ByteEnds
  BY <1>4, ByteEndsStep
<1>5. CASE NotifierIdle
  BY <1>5, NotifierIdleStep
<1>6. CASE NotifierWrite
  BY <1>6, NotifierWriteStep
<1>7. CASE Wake
  BY <1>7, WakeStep
<1>8. CASE ClockSource /\ UNCHANGED control
  BY <1>8, ClockSourceStep
<1>9. CASE set_master
  BY <1>9, ResetStep
<1>10. CASE UNCHANGED allVars
  BY <1>10 DEF IInv, RateType, FlagType, RegisterType, PartyType, ClockAgrees, Exclusive,
              RegisterMerged, Setting, target_frequency, Wanted, InKHz
<1>11. QED
  BY <1>1, <1>2, <1>3, <1>4, <1>5, <1>6, <1>7, <1>8, <1>9, <1>10 DEF ControlNext

-----------------------------------------------------------------------------
(* The theorems. *)

(* The invariant holds on one processor, which the S3C24xx have. *)
THEOREM Invariance == ~Smp => (ControlSpec => []IInv)
<1> SUFFICES ASSUME ~Smp PROVE ControlSpec => []IInv
  OBVIOUS
<1>1. ControlInit => IInv
  BY InitHolds
<1>2. IInv /\ [ControlNext]_allVars => IInv'
  BY NextStep
<1>3. QED
  BY <1>1, <1>2, PTL DEF ControlSpec

(* Every access to IICCON by the task, a reset included, the handler or    *)
(* the notifier takes effect as if it were atomic.                         *)
THEOREM AccessesMerged == ~Smp => (ControlSpec => []RegisterMerged)
<1>1. IInv => RegisterMerged
  BY DEF IInv
<1>2. QED
  BY <1>1, Invariance, PTL

(* The platform's rates and targets ask for no divisor of 17, which        *)
(* clockrate accepts and the register cannot hold.                         *)
DivisorsFit == \A r \in Rates, t \in Targets : calcdivisor(InKHz(r), Wanted(t)).divs <= 16

(* Then the bus is at no moment of a frequency change a kHz faster than    *)
(* asked for, with transfers beside that write the divisors back, up to a  *)
(* HDMIPHY reset and again from the next choice of the divisors.           *)
THEOREM BusNeverTooFast == ~Smp /\ DivisorsFit => (ControlSpec => []NeverTooFast)
<1> SUFFICES ASSUME ~Smp, DivisorsFit PROVE ControlSpec => []NeverTooFast
  OBVIOUS
<1>1. IInv => NeverTooFast
  <2> SUFFICES ASSUME IInv, on, ~refused, ~wiped
               PROVE  hw < (target_frequency + 1) * KHz * Divisor
    BY DEF NeverTooFast
  <2>1. Setting(clkrate).ok /\ iiccon = Setting(clkrate).con /\ hw <= clkrate
    BY Numbers DEF IInv, ClockAgrees, RateType
  <2>2. calcdivisor(InKHz(clkrate), target_frequency).divs <= 16
    BY DEF DivisorsFit, IInv, RateType, target_frequency
  <2>3. clkrate < (target_frequency + 1) * KHz * Divisor
    BY <2>1, <2>2, Numbers, SettingNotTooFast DEF IInv, Divisor
  <2>4. (target_frequency + 1) * KHz * Divisor \in Nat
    <3>1. KHz \in Nat \ {0} /\ target_frequency \in Nat \ {0}
      BY Numbers, KHzFacts DEF IInv
    <3>2. Divisor \in Nat
      BY DEF IInv, RegisterType, Con, Divisor
    <3>3. QED
      BY <3>1, <3>2
  <2>5. QED
    BY <2>1, <2>3, <2>4, Numbers DEF IInv
<1>2. QED
  BY <1>1, Invariance, PTL

(* Between changes the next smaller divisor would reach the target; after  *)
(* a reset there is none.                                                  *)
THEOREM BusNotTooSlow == ~Smp => (ControlSpec => []NotTooSlow)
<1>1. IInv => NotTooSlow
  <2> SUFFICES ASSUME IInv, on, ~refused, phase = "steady"
               PROVE  hw >= target_frequency * KHz * iiccon.div1 * iiccon.scale
    BY DEF NotTooSlow
  <2>1. CASE wiped
    BY <2>1, Numbers, KHzFacts DEF IInv, ClockAgrees, RegisterType, Con
  <2>2. CASE ~wiped
    BY <2>2, Numbers, SettingNotTooSlow DEF IInv, ClockAgrees, RateType
  <2>3. QED
    BY <2>1, <2>2
<1>2. QED
  BY <1>1, Invariance, PTL

(* Only the notifier and a resume write IICLC, and no access to IICCON     *)
(* reads it: what it holds agrees with the rate however the accesses       *)
(* interleave.                                                             *)
SdaFlags == on \in BOOLEAN /\ refused \in BOOLEAN
SdaInv == RateType /\ SdaFlags /\ RatesAgree /\ SdaAgrees

(* Every step keeps it, on one processor and on several. *)
LEMMA SdaStep == ASSUME SdaInv, [ControlNext]_allVars PROVE SdaInv'
<1> USE DEF SdaInv, RateType, SdaFlags
<1> DEFINE Kept == UNCHANGED <<target, hw, rep, clkrate, iiclc, on, refused, phase>>
<1>1. ASSUME Kept PROVE SdaInv'
  BY <1>1 DEF SdaSetting, InKHz
<1>2. ASSUME NEW t \in Parties, Read(t) \/ Write(t) PROVE Kept
  BY <1>2 DEF Read, Write
<1>3. CASE set_master \/ doxfer \/ ByteEnds \/ Interrupt \/ Notifier
  <2>1. Kept
    BY <1>3 DEF set_master, Reset, doxfer, ByteEnds, Interrupt, Notifier
  <2>2. QED
    BY <2>1, <1>1
<1>4. CASE Changed
  <2>1. UNCHANGED <<target, hw, rep, on>>
    BY <1>4 DEF Changed, PreChange, PostChange
  <2>2. \/ UNCHANGED <<clkrate, iiclc, refused>>
        \/ /\ clkrate' = rep /\ refused' \in BOOLEAN
           /\ ~refused' => iiclc' = SdaSetting(rep)
    BY <1>4 DEF Changed, PreChange, PostChange, clockrate, Setting, target_frequency, Wanted, InKHz
  <2>3. RateType' /\ SdaFlags' /\ RatesAgree'
    BY <1>4, <2>1, <2>2, Numbers DEF Changed, PreChange, PostChange, clockrate
  <2>4. SdaAgrees'
    BY <2>1, <2>2 DEF SdaSetting, InKHz
  <2>5. QED
    BY <2>3, <2>4
<1>5. CASE Wake
  <2>1. /\ UNCHANGED <<target, hw, rep, phase>> /\ phase = "steady" /\ clkrate' = rep
        /\ on' \in BOOLEAN /\ refused' \in BOOLEAN
        /\ on' => iiclc' = SdaSetting(rep)
    BY <1>5 DEF Wake, Resume
  <2>2. RateType' /\ SdaFlags' /\ RatesAgree'
    BY <2>1
  <2>3. SdaAgrees'
    BY <2>1 DEF SdaSetting, InKHz
  <2>4. QED
    BY <2>2, <2>3
<1>6. CASE ClockSource
  BY <1>6, Numbers DEF ClockSource, Switch, Announce, SdaSetting, InKHz
<1>7. CASE UNCHANGED allVars
  BY <1>1, <1>7
<1>8. QED
  BY <1>1, <1>2, <1>3, <1>4, <1>5, <1>6, <1>7 DEF ControlNext, NotifierIdle, NotifierWrite

(* Between changes SDA is held as long as asked for, or as the register    *)
(* allows.                                                                 *)
THEOREM SdaHeldLongEnough == ControlSpec => []SdaHeld
<1>1. ControlInit => SdaInv
  BY InitHolds DEF IInv, FlagType, ClockAgrees, SdaInv, SdaFlags
<1>2. SdaInv /\ [ControlNext]_allVars => SdaInv'
  BY SdaStep
<1>3. SdaInv => SdaHeld
  BY Numbers, DelayLongEnough DEF SdaInv, SdaHeld
<1>4. QED
  BY <1>1, <1>2, <1>3, PTL DEF ControlSpec

=============================================================================
