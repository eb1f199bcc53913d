--------------------------- MODULE S3cUartProofs ---------------------------
(***************************************************************************)
(* Proofs about the S3C24xx UART port, for every board's clocks, every set *)
(* of baud rates and every size of the buffer and the FIFOs.               *)
(*                                                                         *)
(* tx_chars stops the transmitter without the lock, and rx_chars may start *)
(* it in between.  What holds at each of these steps: the depth of an      *)
(* interrupt follows its flag except between the two writes of stop_tx,    *)
(* where the flag is still set, so that a start_tx there does nothing.  An *)
(* interrupt has a handler at known places of the core only.  The clocks   *)
(* and the divisor are a matter of set_termios alone.                      *)
(***************************************************************************)
EXTENDS S3cUart, WellFoundedInduction, TLAPS

-----------------------------------------------------------------------------
(* The choice of a divisor. *)

(* A set of natural numbers has a least element. *)
LEMMA LeastExists ==
  ASSUME NEW S \in SUBSET Nat, S # {}
  PROVE  \E m \in S : \A n \in S : m <= n
<1>1. PICK m \in S : \A n \in S : ~ (<<n, m>> \in OpToRel(<, Nat))
  BY WFMin, NatLessThanWellFounded
<1>2. ASSUME NEW n \in S PROVE m <= n
  <2>1. <<n, m>> \in Nat \X Nat
    OBVIOUS
  <2>2. ~(n < m)
    BY <1>1, <2>1 DEF OpToRel
  <2>3. QED
    BY <2>2
<1>3. QED
  BY <1>2

(* What a quotient is.                                                     *)
LEMMA DivTimes ==
  ASSUME NEW a \in Nat, NEW d \in Nat \ {0}
  PROVE  /\ a \div d \in Nat /\ d * (a \div d) <= a
         /\ a < d * (a \div d) + d
OBVIOUS

(* Multiplication is monotonic.                                            *)
LEMMA TimesMonotonic ==
  ASSUME NEW a \in Nat, NEW b \in Nat, NEW w \in Nat, a <= b
  PROVE  w * a <= w * b
OBVIOUS

(* The boards' lists: every source has a divisor, and a source with a      *)
(* clock is there.                                                         *)
LEMMA SourcesUsable ==
  ASSUME cfg_clocks \in Configs
  PROVE  /\ usable # {} /\ usable \subseteq Nat
         /\ \A i \in usable : /\ sources[i].name \in DOMAIN Rate
                              /\ sources[i].divisor \in Nat \ {0}
                              /\ Rate[sources[i].name] \div sources[i].divisor \in Nat
<1> DEFINE Source == [name : STRING \cup DOMAIN Rate, divisor : Nat \ {0}]
<1>1. tmp_clksrc \in Source /\ tmp_clksrc.name \in DOMAIN Rate /\ tmp_clksrc.divisor \in Nat \ {0}
      /\ getsource.divisor \in Nat \ {0}
  BY ClockAssumption DEF tmp_clksrc, getsource
<1>2. /\ cfg_clocks \in Seq(Source)
      /\ cfg_clocks # <<>> => \E i \in 1..Len(cfg_clocks) : cfg_clocks[i].name \in DOMAIN Rate
  <2> DEFINE Given == [name : STRING, divisor : Nat \ {0}]
  <2>1. Given \subseteq Source /\ cfg_clocks \in Seq(Given)
    BY ClockAssumption
  <2> HIDE DEF Given, Source
  <2>2. cfg_clocks \in Seq(Source)
    BY <2>1
  <2>3. QED
    BY <2>2, ClockAssumption
<1>3. \A s \in Source : /\ s.divisor \in Nat \ {0}
                        /\ [s EXCEPT !.divisor = getsource.divisor] \in Source
                        /\ [s EXCEPT !.divisor = getsource.divisor].name = s.name
  BY <1>1
<1> HIDE DEF Source
<1>4. sources \in Seq(Source) /\ \E i \in DOMAIN sources : sources[i].name \in DOMAIN Rate
  <2>1. CASE cfg_clocks = <<>>
    <3>1. sources = <<tmp_clksrc>>
      BY <2>1 DEF sources
    <3>2. QED
      BY <1>1, <3>1
  <2>2. CASE cfg_clocks # <<>> /\ Len(cfg_clocks) = 1 /\ cfg_clocks[1].name = "fclk"
    <3> DEFINE only == [cfg_clocks[1] EXCEPT !.divisor = getsource.divisor]
    <3>1. sources = <<only>>
      BY <2>2 DEF sources
    <3>2. cfg_clocks[1] \in Source /\ cfg_clocks[1].name \in DOMAIN Rate
      BY <1>2, <2>2
    <3>3. only \in Source /\ only.name \in DOMAIN Rate
      BY <1>3, <3>2
    <3> HIDE DEF only
    <3>4. QED
      BY <3>1, <3>3
  <2>3. CASE cfg_clocks # <<>> /\ ~(Len(cfg_clocks) = 1 /\ cfg_clocks[1].name = "fclk")
    <3>1. sources = cfg_clocks
      BY <2>3 DEF sources
    <3>2. QED
      BY <1>2, <2>3, <3>1
  <2>4. QED
    BY <2>1, <2>2, <2>3
<1>5. usable # {} /\ usable \subseteq Nat /\ usable \subseteq DOMAIN sources
  BY <1>4 DEF usable
<1>6. ASSUME NEW i \in usable
      PROVE  /\ sources[i].name \in DOMAIN Rate /\ sources[i].divisor \in Nat \ {0}
             /\ Rate[sources[i].name] \div sources[i].divisor \in Nat
  <2>1. sources[i] \in Source /\ sources[i].name \in DOMAIN Rate
    BY <1>4, <1>5 DEF usable
  <2>2. Rate[sources[i].name] \in Nat /\ sources[i].divisor \in Nat \ {0}
    BY <1>3, <2>1, ClockAssumption
  <2>3. QED
    BY <2>1, <2>2, DivTimes
<1>7. QED
  BY <1>5, <1>6

(* What a source gives with the divisor nearest to the rate. *)
LEMMA CalcbaudType ==
  ASSUME NEW i \in usable, cfg_clocks \in Configs, NEW baud \in Nat \ {0}
  PROVE  LET c == calcbaud(sources[i], baud)
             r == Rate[sources[i].name] \div sources[i].divisor
             q == (r + 8 * baud) \div (16 * baud)
         IN  /\ r \in Nat /\ q \in Nat /\ c.clksrc = sources[i] /\ c.quot = q - 1
             /\ c.calc = (IF q = 0 THEN 0 ELSE r \div (16 * q)) /\ c.calc \in Nat
             /\ deviation(c, baud) \in Nat
<1> DEFINE c == calcbaud(sources[i], baud)
           r == Rate[sources[i].name] \div sources[i].divisor
           q == (r + 8 * baud) \div (16 * baud)
<1>1. r \in Nat
  BY SourcesUsable
<1> HIDE DEF r
<1>2. r + 8 * baud \in Nat /\ 16 * baud \in Nat \ {0}
  BY <1>1
<1>3. q \in Nat
  BY <1>2, DivTimes
<1> HIDE DEF q
<1>4. c = [clksrc |-> sources[i], quot |-> q - 1, calc |-> IF q = 0 THEN 0 ELSE r \div (q * 16)]
  BY DEF calcbaud, r, q
<1>5. q # 0 => r \div (q * 16) \in Nat /\ q * 16 = 16 * q
  BY <1>1, <1>3, DivTimes
<1>6. c.calc \in Nat /\ c.calc = IF q = 0 THEN 0 ELSE r \div (16 * q)
  BY <1>4, <1>5
<1>7. deviation(c, baud) \in Nat
  BY <1>6 DEF deviation
<1>8. QED
  BY <1>1, <1>3, <1>4, <1>6, <1>7 DEF r, q

(* getclk takes a source that deviates least. *)
LEMMA GetclkTakesNearest ==
  ASSUME cfg_clocks \in Configs, NEW baud \in Nat \ {0}
  PROVE  \E i \in usable :
           /\ getclk(baud) = calcbaud(sources[i], baud)
           /\ \A j \in usable : deviation(calcbaud(sources[i], baud), baud)
                                <= deviation(calcbaud(sources[j], baud), baud)
<1> DEFINE dev(i) == deviation(calcbaud(sources[i], baud), baud)
           First(i) == \A j \in usable : dev(i) < dev(j) \/ (dev(i) = dev(j) /\ i <= j)
           devs == {dev(i) : i \in usable}
<1>1. \A i \in usable : dev(i) \in Nat
  BY CalcbaudType
<1>2. usable # {} /\ usable \subseteq Nat
  BY SourcesUsable
<1> HIDE DEF dev
<1>3. devs \in SUBSET Nat /\ devs # {}
  BY <1>1, <1>2
<1>4. PICK m \in devs : \A n \in devs : m <= n
  BY <1>3, LeastExists
<1> DEFINE best == {i \in usable : dev(i) = m}
<1>5. best \in SUBSET Nat /\ best # {}
  BY <1>2, <1>4
<1>6. PICK i \in best : \A j \in best : i <= j
  BY <1>5, LeastExists
<1>7. First(i)
  <2> SUFFICES ASSUME NEW j \in usable PROVE dev(i) < dev(j) \/ (dev(i) = dev(j) /\ i <= j)
    OBVIOUS
  <2>1. dev(i) = m /\ m <= dev(j) /\ dev(j) \in Nat /\ m \in Nat
    BY <1>1, <1>3, <1>4, <1>6
  <2>2. dev(j) = m => i <= j
    BY <1>6
  <2>3. QED
    BY <2>1, <2>2
<1> DEFINE chosen == CHOOSE k \in usable : First(k)
<1>8. chosen \in usable /\ First(chosen)
  BY <1>6, <1>7
<1>9. getclk(baud) = calcbaud(sources[chosen], baud)
  BY DEF getclk, dev
<1>10. \A j \in usable : dev(chosen) <= dev(j)
  BY <1>1, <1>8
<1>11. QED
  BY <1>8, <1>9, <1>10 DEF dev

(* A source that comes near the rate with any divisor does so with the     *)
(* nearest one, q.                                                         *)
LEMMA NearestIsNear ==
  ASSUME NEW r \in Nat, NEW w \in Nat \ {0}, NEW h \in Nat, w = 2 * h, NEW d \in Nat \ {0},
         NEW q \in Nat, w * q <= r + h, r + h < w * q + w,
         40 * (r - w * d) <= w * d, 40 * (w * d - r) <= w * d
  PROVE  q >= 1 /\ 40 * (r - w * q) <= w * q /\ 40 * (w * q - r) <= w * q
<1>1. CASE d = q
  BY <1>1
<1>2. CASE d < q
  <2>1. w * d + w <= w * q
    <3>1. d + 1 <= q /\ d + 1 \in Nat
      BY <1>2
    <3>2. w * (d + 1) <= w * q /\ w * (d + 1) = w * d + w
      BY <3>1, TimesMonotonic
    <3>3. QED
      BY <3>2
  <2>2. 20 * w <= w * d
    BY <2>1
  <2>3. QED
    BY <1>2, <2>1, <2>2
<1>3. CASE d > q
  <2>1. w * q + w <= w * d
    <3>1. q + 1 <= d /\ q + 1 \in Nat
      BY <1>3
    <3>2. w * (q + 1) <= w * d /\ w * (q + 1) = w * q + w
      BY <3>1, TimesMonotonic
    <3>3. QED
      BY <3>2
  <2>2. w * d > 20 * w
    BY <2>1
  <2>3. q >= 20
    <3>1. d >= 21
      <4>1. SUFFICES ASSUME d <= 20 PROVE FALSE
        OBVIOUS
      <4>2. w * d <= w * 20
        BY <4>1, TimesMonotonic
      <4>3. QED
        BY <2>2, <4>2
    <3>2. w * 21 <= w * d
      BY <3>1, TimesMonotonic
    <3>3. SUFFICES ASSUME q <= 19 PROVE FALSE
      OBVIOUS
    <3>4. w * q <= w * 19
      BY <3>3, TimesMonotonic
    <3>5. QED
      BY <3>2, <3>4
  <2>4. w * 20 <= w * q
    BY <2>3, TimesMonotonic
  <2>5. QED
    BY <2>3, <2>4
<1>4. QED
  BY <1>1, <1>2, <1>3

(* The rate computed from the divisor q, cut to a whole number, deviates   *)
(* from the one asked for by less than one unit more than the source does; *)
(* v stands for 16 * q.                                                    *)
LEMMA NearDeviates ==
  ASSUME NEW r \in Nat, NEW v \in Nat \ {0}, NEW b \in Nat, NEW c \in Nat,
         v * c <= r, r < v * c + v, 40 * (r - v * b) <= v * b, 40 * (v * b - r) <= v * b
  PROVE  40 * (c - b) <= b + 39 /\ 40 * (b - c) <= b + 39
<1>1. v * (40 * (c - b)) <= v * b
  <2>1. v * (40 * (c - b)) = 40 * (v * c) - 40 * (v * b)
    OBVIOUS
  <2>2. QED
    BY <2>1
<1>2. v * (40 * (b - c)) < v * (b + 40)
  <2>1. v * (40 * (b - c)) = 40 * (v * b) - 40 * (v * c) /\ v * (b + 40) = v * b + 40 * v
    OBVIOUS
  <2>2. QED
    BY <2>1
<1>3. 40 * (c - b) <= b
  BY <1>1
<1>4. 40 * (b - c) < b + 40
  BY <1>2
<1>5. QED
  BY <1>3, <1>4

(* Back from the deviation of the computed rate to that of the source.     *)
LEMMA DeviatesClose ==
  ASSUME NEW r \in Nat, NEW v \in Nat \ {0}, NEW b \in Nat, NEW c \in Nat,
         v * c <= r, r < v * c + v, 40 * (c - b) <= b + 39, 40 * (b - c) <= b + 39
  PROVE  40 * (r - v * b) <= v * b + 80 * v /\ 40 * (v * b - r) <= v * b + 80 * v
<1>1. v * (40 * (c - b)) <= v * (b + 39) /\ v * (40 * (b - c)) <= v * (b + 39)
  OBVIOUS
<1>2. /\ v * (40 * (c - b)) = 40 * (v * c) - 40 * (v * b)
      /\ v * (40 * (b - c)) = 40 * (v * b) - 40 * (v * c)
      /\ v * (b + 39) = v * b + 39 * v
  OBVIOUS
<1>3. QED
  BY <1>1, <1>2

(* The part of one in forty, in whole numbers.                             *)
LEMMA Fortieth ==
  ASSUME NEW a \in Nat, NEW o \in Int
  PROVE  o <= a \div 40 <=> 40 * o <= a
OBVIOUS

(* If a source comes near the rate with some divisor, the choice comes     *)
(* close to it.                                                            *)
LEMMA ChoiceClose ==
  ASSUME cfg_clocks \in Configs, NEW b \in Nat, b > 1,
         NEW i \in usable, NEW d \in Nat \ {0}, Within(sources[i], d, b).near
  PROVE  getclk(b).quot \in Nat /\ Within(getclk(b).clksrc, getclk(b).quot + 1, b).close
<1> DEFINE R(j) == Rate[sources[j].name] \div sources[j].divisor
           Q(j) == (R(j) + 8 * b) \div (16 * b)
           C(j) == calcbaud(sources[j], b)
<1>1. b \in Nat \ {0} /\ 16 * b \in Nat \ {0} /\ 16 * b = 2 * (8 * b) /\ 8 * b \in Nat
  OBVIOUS
<1>2. ASSUME NEW j \in usable
      PROVE  /\ R(j) \in Nat /\ Q(j) \in Nat
             /\ (16 * b) * Q(j) <= R(j) + 8 * b /\ R(j) + 8 * b < (16 * b) * Q(j) + 16 * b
             /\ C(j).clksrc = sources[j] /\ C(j).quot = Q(j) - 1 /\ C(j).calc \in Nat
             /\ C(j).calc = (IF Q(j) = 0 THEN 0 ELSE R(j) \div (16 * Q(j)))
             /\ deviation(C(j), b) = (IF C(j).calc > b THEN C(j).calc - b ELSE b - C(j).calc)
  <2>1. /\ R(j) \in Nat /\ Q(j) \in Nat
        /\ C(j).clksrc = sources[j] /\ C(j).quot = Q(j) - 1 /\ C(j).calc \in Nat
        /\ C(j).calc = (IF Q(j) = 0 THEN 0 ELSE R(j) \div (16 * Q(j)))
    BY <1>1, CalcbaudType
  <2> HIDE DEF R, C
  <2>2. R(j) + 8 * b \in Nat
    BY <2>1
  <2>3. (16 * b) * Q(j) <= R(j) + 8 * b /\ R(j) + 8 * b < (16 * b) * Q(j) + 16 * b
    BY <1>1, <2>2, DivTimes
  <2> HIDE DEF Q
  <2>4. QED
    BY <2>1, <2>3 DEF deviation
<1>3. PICK k \in usable : /\ getclk(b) = C(k)
                          /\ deviation(C(k), b) <= deviation(C(i), b)
  BY <1>1, GetclkTakesNearest
<1> HIDE DEF Q, C
(* The near source, with its own nearest divisor.                          *)
<1>4. 40 * (R(i) - (16 * b) * d) <= (16 * b) * d /\ 40 * ((16 * b) * d - R(i)) <= (16 * b) * d
  <2> DEFINE a == 16 * d * b
             off == IF R(i) > a THEN R(i) - a ELSE a - R(i)
  <2>1. a \in Nat /\ a = (16 * b) * d /\ R(i) \in Nat
    BY <1>2
  <2>2. off <= a \div 40
    BY DEF Within
  <2> HIDE DEF a, R
  <2>3. 40 * off <= a
    BY <2>1, <2>2, Fortieth
  <2>4. QED
    BY <2>1, <2>3
<1> HIDE DEF R
<1>5. Q(i) >= 1 /\ 40 * (R(i) - (16 * b) * Q(i)) <= (16 * b) * Q(i)
                /\ 40 * ((16 * b) * Q(i) - R(i)) <= (16 * b) * Q(i)
  BY <1>1, <1>2, <1>4, NearestIsNear
<1>6. 40 * deviation(C(i), b) <= b + 39
  <2> DEFINE v == 16 * Q(i)
  <2>1. v \in Nat \ {0} /\ (16 * b) * Q(i) = v * b /\ R(i) \in Nat /\ C(i).calc = R(i) \div v
    BY <1>2, <1>5
  <2> HIDE DEF v
  <2>2. v * C(i).calc <= R(i) /\ R(i) < v * C(i).calc + v /\ C(i).calc \in Nat
    BY <2>1, DivTimes
  <2>3. 40 * (C(i).calc - b) <= b + 39 /\ 40 * (b - C(i).calc) <= b + 39
    BY <1>5, <2>1, <2>2, NearDeviates
  <2>4. QED
    BY <1>2, <2>2, <2>3
(* The source taken.                                                       *)
<1>7. 40 * (C(k).calc - b) <= b + 39 /\ 40 * (b - C(k).calc) <= b + 39
  <2>1. deviation(C(k), b) \in Nat /\ deviation(C(i), b) \in Nat
    BY <1>2
  <2>2. 40 * deviation(C(k), b) <= b + 39
    BY <1>3, <1>6, <2>1
  <2>3. QED
    BY <1>2, <2>2
<1>8. Q(k) >= 1
  BY <1>2, <1>7
<1> DEFINE v == 16 * Q(k)
<1>9. 40 * (R(k) - v * b) <= v * b + 80 * v /\ 40 * (v * b - R(k)) <= v * b + 80 * v
  <2>1. v \in Nat \ {0} /\ R(k) \in Nat /\ C(k).calc = R(k) \div v /\ C(k).calc \in Nat
    BY <1>2, <1>8
  <2> HIDE DEF v
  <2>2. v * C(k).calc <= R(k) /\ R(k) < v * C(k).calc + v
    BY <2>1, DivTimes
  <2>3. QED
    BY <1>7, <2>1, <2>2, DeviatesClose
<1>10. Within(sources[k], Q(k), b).close
  <2> DEFINE off == IF R(k) > v * b THEN R(k) - v * b ELSE v * b - R(k)
  <2>1. v * b \in Nat /\ v \in Nat /\ R(k) \in Nat
    BY <1>2
  <2>2. 40 * (off - 2 * v) <= v * b /\ off - 2 * v \in Int
    BY <1>9, <2>1
  <2>3. off - 2 * v <= (v * b) \div 40
    BY <2>1, <2>2, Fortieth
  <2>4. off <= (v * b) \div 40 + 2 * v
    BY <2>1, <2>3
  <2>5. 2 * 16 * Q(k) = 2 * v /\ 16 * Q(k) * b = v * b
    BY <1>2
  <2>6. QED
    BY <2>4, <2>5 DEF Within, R
<1>11. getclk(b).clksrc = sources[k] /\ getclk(b).quot = Q(k) - 1 /\ Q(k) \in Nat
  BY <1>2, <1>3
<1>12. QED
  BY <1>8, <1>10, <1>11

-----------------------------------------------------------------------------
(* The inductive invariant of the port. *)

Stacks == {<<>>, <<"tx">>, <<"rx">>, <<"tx", "rx">>, <<"rx", "tx">>}

(* A handler is on the stack while it is in the middle of its work.        *)
HandlersStacked ==
  /\ stack \in Stacks
  /\ txpc # "idle" <=> stack \in {<<"tx">>, <<"tx", "rx">>, <<"rx", "tx">>}
  /\ rxpc # "idle" <=> stack \in {<<"rx">>, <<"tx", "rx">>, <<"rx", "tx">>}

(* The transmit interrupt has a handler; the receive interrupt has.        *)
HasTx == task \in {"claim_tx", "speed", "open", "drain"} \/ (task = "free_tx" /\ goal # "dead")
HasRx == task \in {"enable_tx", "request_tx", "claim_tx", "speed", "open",
                   "drain", "free_tx", "clear_tx", "free_rx"}

(* What the core makes for at each of its places.                          *)
GoalAgrees ==
  /\ task \in {"request_rx", "enable_tx", "request_tx", "claim_tx", "speed"} => goal \in {"open", "resumed"}
  /\ task = "open" => goal = "open"
  /\ task = "drain" => goal \in {"closed", "suspended"}
  /\ task \in {"free_tx", "clear_tx", "free_rx"} => goal \in {"closed", "suspended", "dead"}
  /\ task = "closed" => goal = "closed"
  /\ task = "suspended" => goal = "resumed" \/ (SuspendClosed /\ goal = "closed")

(* While it has a handler the transmit interrupt is disabled once if the   *)
(* transmitter is not enabled, and where stop_tx is between its two writes.*)
TxMatches(q) == q.irq["tx"] = IF q.tx_enabled THEN 0 ELSE 1
TxIrqAgrees ==
  /\ HasTx => IF txpc = "disabled" THEN p.irq["tx"] = 1 ELSE TxMatches(p)
  /\ ~HasTx => p.irq["tx"] = -1 /\ txpc = "idle"
  /\ txpc = "disabled" \/ task = "request_tx" => p.tx_enabled
  /\ p.tx_claimed <=> \/ task \in {"speed", "open", "drain"}
                      \/ task \in {"free_tx", "clear_tx"} /\ goal # "dead"

(* The receive interrupt is never disabled twice.                          *)
RxIrqAgrees ==
  /\ HasRx => p.irq["rx"] \in 0..1
  /\ ~HasRx => p.irq["rx"] = -1
  /\ task \in {"enable_tx", "request_tx", "claim_tx", "speed", "open"} => p.irq["rx"] = 0
  /\ p.rx_claimed <=> HasRx /\ task # "enable_tx"

(* The receiver is off only where the transmitter is on or about to turn   *)
(* the receiver on.                                                        *)
ReceiverAgrees ==
  /\ ~cons_flow => p.rxmode
  /\ HasTx /\ ~p.tx_enabled /\ txpc # "rx_on" => p.rxmode

(* The clocks that are on, and the choice that is in the registers.        *)
RateType == cfg_clocks \in Configs /\ rate_of \in Bauds \cup {0} /\ baudclk \in DOMAIN Rate \cup {NONE}
Powered == task \notin {"closed", "suspended"}
Held(b) == [c \in Clocks |-> IF c \in {"uart", b} THEN 1 ELSE 0]
AllOff  == [c \in Clocks |-> 0]
ClocksAgree == use = IF Powered THEN Held(baudclk) ELSE AllOff
ChoiceAgrees ==
  clksrc # NONE => /\ rate_of \in Bauds
                   /\ clksrc = getclk(rate_of).clksrc
                   /\ ubrdiv = getclk(rate_of).quot % UbrdivValues

Depths == Int
Fill   == 0..FifoSize + 1
RxFill == 0..FifoSize
Shape == [tx_enabled : BOOLEAN, rx_enabled : BOOLEAN, tx_claimed : BOOLEAN, rx_claimed : BOOLEAN,
          irq : [{"tx", "rx"} -> Depths], rxmode : BOOLEAN, fifo : Fill, rxfifo : RxFill]
PortType == p \in Shape
XmitType == xmit \in 0..XmitSize
PlaceType ==
  /\ task \in {"closed", "request_rx", "enable_tx", "request_tx", "claim_tx", "speed", "open", "drain",
               "free_tx", "clear_tx", "free_rx", "dead", "suspended"}
  /\ goal \in {"open", "closed", "dead", "suspended", "resumed"}
  /\ txpc \in {"idle", "entry", "drained", "stop", "disabled", "rx_on"}
  /\ rxpc \in {"idle", "loop", "test", "push"}
FlagType ==
  /\ cons_flow \in BOOLEAN /\ x_char \in BOOLEAN /\ stopped \in BOOLEAN
  /\ txe \in BOOLEAN /\ inserted \in BOOLEAN
FifoAgrees == txpc = "entry" => p.fifo = 0

PortInv == HandlersStacked /\ GoalAgrees /\ TxIrqAgrees /\ RxIrqAgrees /\ ReceiverAgrees
ClockInv == RateType /\ (~SuspendClosed => ClocksAgree) /\ ChoiceAgrees
IInv == PortType /\ XmitType /\ PlaceType /\ FlagType /\ FifoAgrees /\ PortInv /\ ClockInv

USE DEF life, out, rx, vars, clock

(* What the leaves below need to know of the numbers of the port.          *)
LEMMA Numbers ==
  /\ 0 \in Fill /\ 0 \in RxFill /\ 0 \in Depths /\ -1 \in Depths
  /\ \A d \in Depths : d + 1 \in Depths /\ d - 1 \in Depths
  /\ \A n \in Fill : n > 0 => n - 1 \in Fill
  /\ 0 + 1 \in Fill
  /\ Fill \subseteq Nat /\ RxFill \subseteq Nat
BY UartAssumption DEF Fill, RxFill, Depths

(* The operations on the port keep its shape.                              *)
LEMMA OperationsShape ==
  ASSUME NEW q \in Shape, NEW l \in {"tx", "rx"}, NEW left \in Fill
  PROVE  /\ disable_irq(q, l) \in Shape /\ enable_irq(q, l) \in Shape
         /\ rx_enable(q, left) \in Shape /\ rx_disable(q) \in Shape
         /\ stop_tx(q, left) \in Shape /\ start_tx(q) \in Shape /\ stop_rx(q) \in Shape
<1>1. ASSUME NEW r \in Shape
      PROVE  /\ disable_irq(r, l) \in Shape /\ enable_irq(r, l) \in Shape
             /\ disable_irq(r, "tx") \in Shape /\ enable_irq(r, "tx") \in Shape
             /\ disable_irq(r, "rx") \in Shape
  <2>1. ASSUME NEW k \in {"tx", "rx"} PROVE disable_irq(r, k) \in Shape /\ enable_irq(r, k) \in Shape
    <3>1. r.irq[k] \in Depths /\ r.irq[k] + 1 \in Depths /\ r.irq[k] - 1 \in Depths
      BY Numbers DEF Shape
    <3>2. ASSUME NEW d \in Depths PROVE [r EXCEPT !.irq[k] = d] \in Shape
      BY DEF Shape
    <3>3. \/ disable_irq(r, k) = [r EXCEPT !.irq[k] = r.irq[k] + 1]
          \/ disable_irq(r, k) = [r EXCEPT !.irq[k] = r.irq[k]]
      BY DEF disable_irq, Shape
    <3>4. \/ enable_irq(r, k) = [r EXCEPT !.irq[k] = r.irq[k] - 1]
          \/ enable_irq(r, k) = [r EXCEPT !.irq[k] = r.irq[k]]
      BY DEF enable_irq, Shape
    <3>5. QED
      BY <3>1, <3>2, <3>3, <3>4
  <2>2. QED
    BY <2>1
<1>2. ASSUME NEW r \in Shape PROVE rx_enable(r, left) \in Shape /\ rx_disable(r) \in Shape
  BY Numbers DEF rx_enable, rx_disable, Shape
<1>3. ASSUME NEW r \in Shape
      PROVE  /\ [r EXCEPT !.tx_enabled = FALSE] \in Shape /\ [r EXCEPT !.tx_enabled = TRUE] \in Shape
             /\ [r EXCEPT !.rx_enabled = FALSE] \in Shape
  BY DEF Shape
<1>4. stop_tx(q, left) \in Shape
  BY <1>1, <1>2, <1>3 DEF stop_tx
<1>5. start_tx(q) \in Shape
  BY <1>1, <1>2, <1>3 DEF start_tx
<1>6. stop_rx(q) \in Shape
  BY <1>1, <1>3 DEF stop_rx
<1>7. QED
  BY <1>1, <1>2, <1>4, <1>5, <1>6

(* The places stay places: shutdown makes for a state that is one.         *)
LEMMA PlaceTypeStep ==
  ASSUME PlaceType, GoalAgrees, [Next]_vars
  PROVE  PlaceType'
<1>1. CASE Core
  BY <1>1 DEF Core, Open, SetTermios, Close, Suspend, Resume, Write, SendXchar, StopTty, StartTty,
     TaskAt, Counts, PlaceType, GoalAgrees
<1>2. CASE Startup
  BY <1>2 DEF Startup, RequestRx, EnableTx, RequestTx, ClaimTx, SetSpeed, TaskAt, PlaceType, GoalAgrees
<1>3. CASE Shutdown
  BY <1>3 DEF Shutdown, Drain, FreeTx, ClearTx, FreeRx, Freed, TaskAt, PlaceType, GoalAgrees
<1>4. CASE Tx
  BY <1>4 DEF Tx, TxIrq, TxEntry, TxDrained, TxStop, TxDisabled, TxRxOn, AtTx, TxTo, PlaceType,
     GoalAgrees
<1>5. CASE Rx
  BY <1>5 DEF Rx, RxIrq, RxChar, RxTest, RxPush, AtRx, RxTo, PlaceType, GoalAgrees
<1>6. CASE TxShift \/ RxArrive \/ UNCHANGED vars
  BY <1>6 DEF TxShift, RxArrive, Counts, PlaceType, GoalAgrees
<1>7. QED
  BY <1>1, <1>2, <1>3, <1>4, <1>5, <1>6 DEF Next

(* The buffer holds no more than its size and never less than nothing.     *)
LEMMA XmitTypeStep ==
  ASSUME XmitType, PortType, FifoAgrees, [Next]_vars
  PROVE  XmitType'
<1>1. CASE Core
  BY <1>1, UartAssumption DEF Core, Open, SetTermios, Close, Suspend, Resume, Write, SendXchar,
     StopTty, StartTty, TaskAt, Counts, XmitType, PortType, FifoAgrees, Shape, Fill
<1>2. CASE Startup
  BY <1>2, UartAssumption DEF Startup, RequestRx, EnableTx, RequestTx, ClaimTx, SetSpeed, TaskAt,
     XmitType, PortType, FifoAgrees, Shape, Fill
<1>3. CASE Shutdown
  BY <1>3, UartAssumption DEF Shutdown, Drain, FreeTx, ClearTx, FreeRx, Freed, TaskAt, XmitType,
     PortType, FifoAgrees, Shape, Fill
<1>4. CASE Tx
  BY <1>4, UartAssumption DEF Tx, TxIrq, TxEntry, TxDrained, TxStop, TxDisabled, TxRxOn, AtTx, TxTo,
     XmitType, PortType, FifoAgrees, Shape, Fill
<1>5. CASE Rx
  <2>1. xmit' = xmit \/ (xmit < XmitSize /\ xmit' = xmit + 1)
    BY <1>5 DEF Rx, RxIrq, RxChar, RxTest, RxPush
  <2>2. QED
    BY <2>1, UartAssumption DEF XmitType
<1>6. CASE TxShift \/ RxArrive \/ UNCHANGED vars
  BY <1>6, UartAssumption DEF TxShift, RxArrive, Counts, XmitType, PortType, FifoAgrees, Shape, Fill
<1>7. QED
  BY <1>1, <1>2, <1>3, <1>4, <1>5, <1>6 DEF Next

(* The flags stay flags.                                                   *)
LEMMA FlagTypeStep ==
  ASSUME FlagType, [Next]_vars
  PROVE  FlagType'
<1>1. CASE Core
  BY <1>1 DEF Core, Open, SetTermios, Close, Suspend, Resume, Write, SendXchar, StopTty, StartTty,
     TaskAt, Counts, FlagType
<1>2. CASE Startup
  BY <1>2 DEF Startup, RequestRx, EnableTx, RequestTx, ClaimTx, SetSpeed, TaskAt, FlagType
<1>3. CASE Shutdown
  BY <1>3 DEF Shutdown, Drain, FreeTx, ClearTx, FreeRx, Freed, TaskAt, FlagType
<1>4. CASE Tx
  BY <1>4 DEF Tx, TxIrq, TxEntry, TxDrained, TxStop, TxDisabled, TxRxOn, AtTx, TxTo, FlagType
<1>5. CASE Rx
  BY <1>5 DEF Rx, RxIrq, RxChar, RxTest, RxPush, AtRx, RxTo, FlagType
<1>6. CASE TxShift \/ RxArrive \/ UNCHANGED vars
  BY <1>6 DEF TxShift, RxArrive, Counts, FlagType
<1>7. QED
  BY <1>1, <1>2, <1>3, <1>4, <1>5, <1>6 DEF Next

(* The port keeps its shape; tx_chars fills an empty FIFO to its size at   *)
(* most.                                                                   *)
LEMMA PortTypeStep ==
  ASSUME PortType, XmitType, PlaceType, FifoAgrees, [Next]_vars
  PROVE  PortType'
<1>1. p.fifo \in Fill /\ p.rxfifo \in RxFill
  BY DEF PortType, Shape
<1>2. ASSUME NEW left \in Left PROVE left \in Fill
  BY <1>1, <1>2, Numbers DEF Left
<1>3. CASE Core
  <2>1. CASE Open \/ Resume
    BY <2>1, Numbers DEF Open, Resume, PortType, Shape
  <2>2. CASE Close
    BY <1>1, <2>2, OperationsShape DEF Close, PortType
  <2>3. CASE Suspend
    <3>1. CASE UNCHANGED p
      BY <3>1 DEF PortType
    <3>2. CASE \E left \in Left : p' = stop_rx(stop_tx(p, left))
      BY <1>2, <3>2, OperationsShape DEF PortType
    <3>3. QED
      BY <2>3, <3>1, <3>2 DEF Suspend
  <2>4. CASE Write \/ SendXchar \/ StartTty
    BY <1>1, <2>4, OperationsShape DEF Write, SendXchar, StartTty, PortType
  <2>5. CASE StopTty
    BY <1>2, <2>5, OperationsShape DEF StopTty, PortType
  <2>6. CASE SetTermios
    BY <2>6 DEF SetTermios, PortType
  <2>7. QED
    BY <1>3, <2>1, <2>2, <2>3, <2>4, <2>5, <2>6 DEF Core
<1>4. CASE Startup
  <2>1. [p EXCEPT !.irq.rx = 0] \in Shape /\ [p EXCEPT !.irq.tx = 0] \in Shape
    BY Numbers DEF PortType, Shape
  <2>2. CASE RequestRx \/ RequestTx
    BY <2>1, <2>2 DEF RequestRx, RequestTx, PortType
  <2>3. CASE EnableTx \/ ClaimTx
    BY <2>3 DEF EnableTx, ClaimTx, PortType, Shape
  <2>4. CASE SetSpeed
    BY <1>1, <2>4, OperationsShape DEF SetSpeed, PortType
  <2>5. QED
    BY <1>4, <2>2, <2>3, <2>4 DEF Startup
<1>5. CASE Shutdown
  <2>1. [p EXCEPT !.irq.tx = -1] \in Shape
    BY Numbers DEF PortType, Shape
  <2>2. Freed(p) \in Shape
    BY Numbers DEF Freed, PortType, Shape
  <2>3. CASE Drain \/ FreeTx \/ FreeRx
    BY <2>1, <2>2, <2>3 DEF Drain, FreeTx, FreeRx, PortType
  <2>4. CASE ClearTx
    BY <2>4 DEF ClearTx, PortType, Shape
  <2>5. QED
    BY <1>5, <2>3, <2>4 DEF Shutdown
<1>6. CASE Tx
  <2>1. CASE TxIrq \/ TxDrained
    BY <2>1 DEF TxIrq, TxDrained, PortType
  <2>2. CASE TxEntry
    <3>1. ASSUME NEW n \in Fill PROVE [p EXCEPT !.fifo = n] \in Shape
      BY DEF PortType, Shape
    <3>2. p.fifo = 0
      BY <2>2 DEF TxEntry, AtTx, FifoAgrees
    <3>3. p' = [p EXCEPT !.fifo = 0 + 1] \/ p' = p
          \/ LET n == IF xmit < FifoSize - 0 THEN xmit ELSE FifoSize - 0 IN
             p' = [p EXCEPT !.fifo = 0 + n]
      BY <2>2, <3>2 DEF TxEntry, PortType, Shape
    <3>4. LET n == IF xmit < FifoSize - 0 THEN xmit ELSE FifoSize - 0 IN 0 + n \in Fill
      BY UartAssumption DEF XmitType, Fill
    <3>5. QED
      BY <3>1, <3>3, <3>4, Numbers DEF PortType
  <2>3. CASE TxStop
    BY <2>3, Numbers, OperationsShape DEF TxStop, PortType
  <2>4. CASE TxDisabled
    BY <2>4 DEF TxDisabled, PortType, Shape
  <2>5. CASE TxRxOn
    BY <1>2, <2>5, OperationsShape DEF TxRxOn, PortType
  <2>6. QED
    BY <1>6, <2>1, <2>2, <2>3, <2>4, <2>5 DEF Tx
<1>7. CASE Rx
  <2>1. CASE RxIrq
    BY <2>1 DEF RxIrq, PortType
  <2>2. CASE RxChar
    <3>1. CASE p' = p
      BY <3>1 DEF PortType
    <3>2. CASE p.rxfifo # 0 /\ p' = [p EXCEPT !.rxfifo = @ - 1]
      <4>1. p.rxfifo # 0
        BY <3>2
      <4>2. p.rxfifo - 1 \in RxFill
        BY <1>1, <4>1, UartAssumption DEF RxFill
      <4>3. QED
        BY <3>2, <4>2 DEF PortType, Shape
    <3>3. QED
      BY <2>2, <3>1, <3>2 DEF RxChar
  <2>3. CASE RxTest
    BY <2>3, Numbers DEF RxTest, PortType, Shape
  <2>4. CASE RxPush
    BY <1>1, <2>4, OperationsShape DEF RxPush, PortType
  <2>5. QED
    BY <1>7, <2>1, <2>2, <2>3, <2>4 DEF Rx
<1>8. CASE TxShift
  BY <1>1, <1>8, Numbers DEF TxShift, PortType, Shape
<1>9. CASE RxArrive
  <2>1. p.rxfifo < FifoSize /\ p' = [p EXCEPT !.rxfifo = @ + 1]
    BY <1>9 DEF RxArrive
  <2>2. p.rxfifo < FifoSize
    BY <2>1
  <2>3. p.rxfifo + 1 \in RxFill
    BY <1>1, <2>2, UartAssumption DEF RxFill
  <2>4. QED
    BY <2>1, <2>3 DEF PortType, Shape
<1>10. CASE UNCHANGED vars
  BY <1>10 DEF PortType
<1>11. QED
  BY <1>3, <1>4, <1>5, <1>6, <1>7, <1>8, <1>9, <1>10 DEF Next

(* The FIFO is still empty when tx_chars looks at it.                      *)
LEMMA FifoStep ==
  ASSUME PortType, PlaceType, FifoAgrees, [Next]_vars
  PROVE  FifoAgrees'
<1>1. CASE Core
  BY <1>1, UartAssumption DEF Core, Open, SetTermios, Close, Suspend, Resume, Write, SendXchar,
     StopTty, StartTty, TaskAt, Counts, disable_irq, enable_irq, rx_enable, rx_disable, stop_tx,
     start_tx, stop_rx, Left, PortType, PlaceType, FifoAgrees, Shape
<1>2. CASE Startup
  BY <1>2, UartAssumption DEF Startup, RequestRx, EnableTx, RequestTx, ClaimTx, SetSpeed, TaskAt,
     start_tx, enable_irq, rx_disable, PortType, PlaceType, FifoAgrees, Shape
<1>3. CASE Shutdown
  BY <1>3, UartAssumption DEF Shutdown, Drain, FreeTx, ClearTx, FreeRx, Freed, TaskAt, start_tx,
     enable_irq, rx_disable, PortType, PlaceType, FifoAgrees, Shape
<1>4. CASE Tx
  BY <1>4, UartAssumption DEF Tx, TxIrq, TxEntry, TxDrained, TxStop, TxDisabled, TxRxOn, AtTx, TxTo,
     start_tx, enable_irq, rx_disable, PortType, PlaceType, FifoAgrees, Shape
<1>5. CASE Rx
  BY <1>5, UartAssumption DEF Rx, RxIrq, RxChar, RxTest, RxPush, AtRx, RxTo, start_tx, enable_irq,
     rx_disable, PortType, PlaceType, FifoAgrees, Shape
<1>6. CASE TxShift \/ RxArrive \/ UNCHANGED vars
  BY <1>6, UartAssumption DEF TxShift, RxArrive, Counts, PortType, PlaceType, FifoAgrees, Shape
<1>7. QED
  BY <1>1, <1>2, <1>3, <1>4, <1>5, <1>6 DEF Next

(* Every step of the core keeps the place and the goal together.           *)
LEMMA GoalStep ==
  ASSUME PlaceType, GoalAgrees, [Next]_vars
  PROVE  GoalAgrees'
<1>1. CASE Core
  BY <1>1 DEF Core, Open, SetTermios, Close, Suspend, Resume, Write, SendXchar, StopTty, StartTty,
     TaskAt, Counts, PlaceType, GoalAgrees
<1>2. CASE Startup
  BY <1>2 DEF Startup, RequestRx, EnableTx, RequestTx, ClaimTx, SetSpeed, TaskAt, PlaceType, GoalAgrees
<1>3. CASE Shutdown
  BY <1>3 DEF Shutdown, Drain, FreeTx, ClearTx, FreeRx, Freed, TaskAt, PlaceType, GoalAgrees
<1>4. CASE Tx
  BY <1>4 DEF Tx, TxIrq, TxEntry, TxDrained, TxStop, TxDisabled, TxRxOn, AtTx, TxTo, PlaceType,
     GoalAgrees
<1>5. CASE Rx
  BY <1>5 DEF Rx, RxIrq, RxChar, RxTest, RxPush, AtRx, RxTo, PlaceType, GoalAgrees
<1>6. CASE TxShift \/ RxArrive \/ UNCHANGED vars
  BY <1>6 DEF TxShift, RxArrive, Counts, PlaceType, GoalAgrees
<1>7. QED
  BY <1>1, <1>2, <1>3, <1>4, <1>5, <1>6 DEF Next

(* Two sequences of the same two elements are the same. *)
LEMMA PairsEqual ==
  ASSUME NEW S, NEW s \in Seq(S), NEW t \in Seq(S), Len(s) = 2, Len(t) = 2, s[1] = t[1], s[2] = t[2]
  PROVE  s = t
<1>1. s \in [1..2 -> S] /\ t \in [1..2 -> S]
  OBVIOUS
<1>2. \A i \in 1..2 : i = 1 \/ i = 2
  OBVIOUS
<1>3. \A i \in 1..2 : s[i] = t[i]
  BY <1>2
<1>4. QED
  BY <1>1, <1>3

(* Front of the two elements a handler can be above. *)
LEMMA StackFacts ==
  ASSUME NEW x \in {"tx", "rx"}, NEW y \in {"tx", "rx"}
  PROVE  /\ Append(<<x>>, y) = <<x, y>> /\ Append(<<>>, x) = <<x>>
         /\ Front(<<x, y>>) = <<x>> /\ Front(<<x>>) = <<>>
         /\ Last(<<x>>) = x /\ Last(<<x, y>>) = y
<1>1. Append(<<x>>, y) = <<x, y>>
  <2>1. Append(<<x>>, y) \in Seq({"tx", "rx"}) /\ <<x, y>> \in Seq({"tx", "rx"})
    OBVIOUS
  <2>2. Len(Append(<<x>>, y)) = 2 /\ Len(<<x, y>>) = 2
    OBVIOUS
  <2>3. Append(<<x>>, y)[1] = x /\ Append(<<x>>, y)[2] = y
    OBVIOUS
  <2>4. QED
    BY <2>1, <2>2, <2>3, PairsEqual
<1>2. Front(<<x, y>>) = <<x>>
  <2>1. Front(<<x, y>>) = SubSeq(<<x, y>>, 1, 1)
    BY DEF Front
  <2>2. SubSeq(<<x, y>>, 1, 1) \in Seq({"tx", "rx"}) /\ Len(SubSeq(<<x, y>>, 1, 1)) = 1
    OBVIOUS
  <2>3. SubSeq(<<x, y>>, 1, 1)[1] = x
    OBVIOUS
  <2>4. QED
    BY <2>1, <2>2, <2>3
<1>3. Append(<<>>, x) = <<x>> /\ Last(<<x>>) = x /\ Last(<<x, y>>) = y
  BY DEF Last
<1>4. Front(<<x>>) = <<>>
  BY DEF Front
<1>5. QED
  BY <1>1, <1>2, <1>3, <1>4

(* A handler starts above, and ends at the top of, the stack.              *)
LEMMA StackSteps ==
  ASSUME NEW s \in Stacks
  PROVE  /\ s = <<>> => Append(s, "tx") = <<"tx">> /\ Append(s, "rx") = <<"rx">>
         /\ s = <<"rx">> => Append(s, "tx") = <<"rx", "tx">>
         /\ s = <<"tx">> => Append(s, "rx") = <<"tx", "rx">>
         /\ s # <<>> /\ Last(s) = "tx" => \/ s = <<"tx">> /\ Front(s) = <<>>
                                          \/ s = <<"rx", "tx">> /\ Front(s) = <<"rx">>
         /\ s # <<>> /\ Last(s) = "rx" => \/ s = <<"rx">> /\ Front(s) = <<>>
                                          \/ s = <<"tx", "rx">> /\ Front(s) = <<"tx">>
BY StackFacts DEF Stacks

(* The stacks differ.                                                      *)
LEMMA StacksDiffer ==
  /\ <<>> # <<"tx">> /\ <<>> # <<"rx">> /\ <<>> # <<"tx", "rx">> /\ <<>> # <<"rx", "tx">>
  /\ <<"tx">> # <<"rx">> /\ <<"tx">> # <<"tx", "rx">> /\ <<"tx">> # <<"rx", "tx">>
  /\ <<"rx">> # <<"tx", "rx">> /\ <<"rx">> # <<"rx", "tx">> /\ <<"tx", "rx">> # <<"rx", "tx">>
OBVIOUS

(* The operations keep the depth and the flag of an interrupt together.    *)
LEMMA OperationsIrq ==
  ASSUME NEW q \in Shape, NEW left
  PROVE  /\ TxMatches(q) => TxMatches(start_tx(q)) /\ TxMatches(stop_tx(q, left)) /\ TxMatches(stop_rx(q))
         /\ q.irq["tx"] = -1 => start_tx(q).irq["tx"] = -1
         /\ start_tx(q).irq["rx"] = q.irq["rx"] /\ stop_tx(q, left).irq["rx"] = q.irq["rx"]
         /\ q.irq["rx"] = 0 => stop_rx(q).irq["rx"] \in 0..1
<1>1. q.irq["tx"] \in Int /\ q.irq["rx"] \in Int
  BY DEF Shape, Depths
<1>2. ASSUME NEW r \in Shape
      PROVE  /\ disable_irq(r, "tx").irq["tx"] = (IF r.irq["tx"] >= 0 THEN r.irq["tx"] + 1 ELSE r.irq["tx"])
             /\ disable_irq(r, "tx").irq["rx"] = r.irq["rx"]
             /\ enable_irq(r, "tx").irq["tx"] = (IF r.irq["tx"] > 0 THEN r.irq["tx"] - 1 ELSE r.irq["tx"])
             /\ enable_irq(r, "tx").irq["rx"] = r.irq["rx"]
             /\ disable_irq(r, "rx").irq["rx"] = (IF r.irq["rx"] >= 0 THEN r.irq["rx"] + 1 ELSE r.irq["rx"])
             /\ disable_irq(r, "rx").irq["tx"] = r.irq["tx"] /\ disable_irq(r, "rx").tx_enabled = r.tx_enabled
  BY DEF disable_irq, enable_irq, Shape, Depths
<1>3. /\ start_tx(q).irq = (IF q.tx_enabled THEN q.irq ELSE enable_irq(q, "tx").irq) /\ start_tx(q).tx_enabled
  BY DEF start_tx, rx_disable, enable_irq, Shape, Depths
<1>4. /\ stop_tx(q, left).irq = (IF q.tx_enabled THEN disable_irq(q, "tx").irq ELSE q.irq)
      /\ ~stop_tx(q, left).tx_enabled
  BY DEF stop_tx, rx_enable, disable_irq, Shape, Depths
<1>5. /\ stop_rx(q).irq = (IF q.rx_enabled THEN disable_irq(q, "rx").irq ELSE q.irq)
      /\ stop_rx(q).tx_enabled = q.tx_enabled
  BY DEF stop_rx, disable_irq, Shape, Depths
<1>6. QED
  BY <1>1, <1>2, <1>3, <1>4, <1>5 DEF TxMatches

(* What else the operations change and leave alone.                        *)
LEMMA OperationsKeep ==
  ASSUME NEW q \in Shape, NEW left
  PROVE  /\ start_tx(q).tx_claimed = q.tx_claimed /\ start_tx(q).rx_claimed = q.rx_claimed
         /\ stop_tx(q, left).tx_claimed = q.tx_claimed /\ stop_tx(q, left).rx_claimed = q.rx_claimed
         /\ stop_rx(q).tx_claimed = q.tx_claimed /\ stop_rx(q).rx_claimed = q.rx_claimed
         /\ start_tx(q).tx_enabled /\ ~stop_tx(q, left).tx_enabled /\ stop_rx(q).tx_enabled = q.tx_enabled
         /\ stop_rx(q).rxmode = q.rxmode /\ (q.tx_enabled => start_tx(q) = q)
         /\ ~cons_flow => stop_tx(q, left).rxmode = q.rxmode /\ start_tx(q).rxmode = q.rxmode
         /\ cons_flow => stop_tx(q, left).rxmode \/ stop_tx(q, left) = q
BY DEF start_tx, stop_tx, stop_rx, rx_enable, rx_disable, enable_irq, disable_irq, Shape

(* What a suspend of an open port does to it.                              *)
LEMMA SuspendStops ==
  ASSUME PortType, Suspend, task = "open"
  PROVE  \E left \in Fill : /\ p' = stop_rx(stop_tx(p, left))
                            /\ stop_tx(p, left) \in Shape /\ p \in Shape
<1>1. PICK left \in Left : p' = stop_rx(stop_tx(p, left))
  BY DEF Suspend, TaskAt
<1>2. left \in Fill
  BY <1>1, Numbers DEF PortType, Shape, Left
<1>3. QED
  BY <1>1, <1>2, OperationsShape DEF PortType

(* The steps that move characters only, and the steps of a handler before  *)
(* it writes to the registers.                                             *)
Moves == TxIrq \/ TxEntry \/ TxDrained \/ RxIrq \/ RxChar \/ RxTest \/ TxShift \/ RxArrive

(* They leave the interrupts and the receiver alone.                       *)
LEMMA MovesKeep ==
  ASSUME PortType, Moves \/ UNCHANGED vars
  PROVE  /\ p'.irq = p.irq /\ p'.tx_enabled = p.tx_enabled /\ p'.rxmode = p.rxmode
         /\ p'.tx_claimed = p.tx_claimed /\ p'.rx_claimed = p.rx_claimed
         /\ UNCHANGED <<task, goal, cons_flow>>
<1>1. CASE TxIrq \/ TxDrained \/ RxIrq \/ UNCHANGED vars
  BY <1>1 DEF TxIrq, TxDrained, TxTo, RxIrq
<1>2. CASE TxEntry
  BY <1>2 DEF TxEntry, TxTo, PortType, Shape
<1>3. CASE RxChar
  BY <1>3 DEF RxChar, RxTo, PortType, Shape
<1>4. CASE RxTest
  <2>1. \/ p' = p \/ p' = [p EXCEPT !.rx_enabled = FALSE]
        \/ p' = [p EXCEPT !.rxfifo = 0, !.rx_enabled = TRUE]
    BY <1>4 DEF RxTest
  <2>2. UNCHANGED <<task, goal, cons_flow>>
    BY <1>4 DEF RxTest, RxTo
  <2>3. QED
    BY <2>1, <2>2 DEF PortType, Shape
<1>5. CASE TxShift \/ RxArrive
  BY <1>5 DEF TxShift, RxArrive, PortType, Shape
<1>6. QED
  BY <1>1, <1>2, <1>3, <1>4, <1>5 DEF Moves

(* Starting and ending a handler keeps places and stack together.          *)
LEMMA StackStep ==
  ASSUME HandlersStacked, [Next]_vars
  PROVE  HandlersStacked'
<1>1. CASE Core
  BY <1>1, StackSteps, StacksDiffer DEF Core, Open, SetTermios, Close, Suspend, Resume, Write,
     SendXchar, StopTty, StartTty, TaskAt, Counts, HandlersStacked, Stacks
<1>2. CASE Startup
  BY <1>2, StackSteps, StacksDiffer DEF Startup, RequestRx, EnableTx, RequestTx, ClaimTx, SetSpeed,
     TaskAt, HandlersStacked, Stacks
<1>3. CASE Shutdown
  BY <1>3, StackSteps, StacksDiffer DEF Shutdown, Drain, FreeTx, ClearTx, FreeRx, Freed, TaskAt,
     HandlersStacked, Stacks
<1>4. CASE Tx
  BY <1>4, StackSteps, StacksDiffer DEF Tx, TxIrq, TxEntry, TxDrained, TxStop, TxDisabled, TxRxOn,
     AtTx, TxTo, HandlersStacked, Stacks
<1>5. CASE Rx
  BY <1>5, StackSteps, StacksDiffer DEF Rx, RxIrq, RxChar, RxTest, RxPush, AtRx, RxTo,
     HandlersStacked, Stacks
<1>6. CASE TxShift \/ RxArrive \/ UNCHANGED vars
  BY <1>6, StackSteps, StacksDiffer DEF TxShift, RxArrive, Counts, HandlersStacked, Stacks
<1>7. QED
  BY <1>1, <1>2, <1>3, <1>4, <1>5, <1>6 DEF Next

(* Every step keeps the transmit interrupt and tx_enabled together.        *)
LEMMA TxIrqStep ==
  ASSUME PortType, PlaceType, HandlersStacked, GoalAgrees, TxIrqAgrees, [Next]_vars
  PROVE  TxIrqAgrees'
<1>1. CASE Moves \/ UNCHANGED vars
  <2>1. /\ p'.irq = p.irq /\ p'.tx_enabled = p.tx_enabled /\ p'.tx_claimed = p.tx_claimed
        /\ UNCHANGED <<task, goal>>
    BY <1>1, MovesKeep
  <2>2. \/ txpc' = txpc
        \/ txpc # "disabled" /\ txpc' # "disabled" /\ (txpc # "idle" \/ p.irq["tx"] = 0)
    BY <1>1, StacksDiffer DEF Moves, TxIrq, TxEntry, TxDrained, RxIrq, RxChar, RxTest, TxShift, RxArrive,
       AtTx, TxTo, RxTo
  <2>3. QED
    BY <2>1, <2>2 DEF TxIrqAgrees, HasTx, TxMatches
<1>2. CASE Core
  <2>1. CASE Open
    BY <2>1, OperationsIrq, OperationsKeep, StacksDiffer DEF Open, TaskAt, Counts, PortType,
       PlaceType, Shape, HandlersStacked, GoalAgrees, TxIrqAgrees, HasTx, TxMatches
  <2>2. CASE SetTermios
    BY <2>2, OperationsIrq, OperationsKeep, StacksDiffer DEF SetTermios, TaskAt, Counts, PortType,
       PlaceType, Shape, HandlersStacked, GoalAgrees, TxIrqAgrees, HasTx, TxMatches
  <2>3. CASE Close
    BY <2>3, OperationsIrq, OperationsKeep, StacksDiffer DEF Close, TaskAt, Counts, PortType,
       PlaceType, Shape, HandlersStacked, GoalAgrees, TxIrqAgrees, HasTx, TxMatches
  <2>4. CASE Suspend
    <3>1. CASE task = "open"
      <4>1. PICK left \in Fill : /\ p' = stop_rx(stop_tx(p, left))
                                 /\ stop_tx(p, left) \in Shape /\ p \in Shape
        BY <2>4, <3>1, SuspendStops
      <4>2. TxMatches(p') /\ p'.tx_claimed = p.tx_claimed /\ txpc = "idle"
        BY <2>4, <3>1, <4>1, OperationsIrq, OperationsKeep, StacksDiffer
           DEF Suspend, TaskAt, TxIrqAgrees, HasTx, HandlersStacked
      <4>3. QED
        BY <2>4, <3>1, <4>2 DEF Suspend, TaskAt, TxIrqAgrees, HasTx
    <3>2. CASE task = "closed"
      BY <2>4, <3>2 DEF Suspend, TaskAt, TxIrqAgrees, HasTx
    <3>3. QED
      BY <2>4, <3>1, <3>2 DEF Suspend, TaskAt
  <2>5. CASE Resume
    BY <2>5, OperationsIrq, OperationsKeep, StacksDiffer DEF Resume, TaskAt, Counts, PortType,
       PlaceType, Shape, HandlersStacked, GoalAgrees, TxIrqAgrees, HasTx, TxMatches
  <2>6. CASE Write
    BY <2>6, OperationsIrq, OperationsKeep, StacksDiffer DEF Write, TaskAt, Counts, PortType,
       PlaceType, Shape, HandlersStacked, GoalAgrees, TxIrqAgrees, HasTx, TxMatches
  <2>7. CASE SendXchar
    BY <2>7, OperationsIrq, OperationsKeep, StacksDiffer DEF SendXchar, TaskAt, Counts, PortType,
       PlaceType, Shape, HandlersStacked, GoalAgrees, TxIrqAgrees, HasTx, TxMatches
  <2>8. CASE StopTty
    BY <2>8, OperationsIrq, OperationsKeep, StacksDiffer DEF StopTty, TaskAt, Counts, PortType,
       PlaceType, Shape, HandlersStacked, GoalAgrees, TxIrqAgrees, HasTx, TxMatches
  <2>9. CASE StartTty
    BY <2>9, OperationsIrq, OperationsKeep, StacksDiffer DEF StartTty, TaskAt, Counts, PortType,
       PlaceType, Shape, HandlersStacked, GoalAgrees, TxIrqAgrees, HasTx, TxMatches
  <2>10. QED
    BY <1>2, <2>1, <2>2, <2>3, <2>4, <2>5, <2>6, <2>7, <2>8, <2>9 DEF Core
<1>3. CASE Startup
  <2>1. CASE RequestRx
    BY <2>1, OperationsIrq, OperationsKeep, StacksDiffer DEF RequestRx, TaskAt, PortType, PlaceType,
       Shape, HandlersStacked, GoalAgrees, TxIrqAgrees, HasTx, TxMatches
  <2>2. CASE EnableTx
    BY <2>2, OperationsIrq, OperationsKeep, StacksDiffer DEF EnableTx, TaskAt, PortType, PlaceType,
       Shape, HandlersStacked, GoalAgrees, TxIrqAgrees, HasTx, TxMatches
  <2>3. CASE RequestTx
    BY <2>3, OperationsIrq, OperationsKeep, StacksDiffer DEF RequestTx, TaskAt, PortType, PlaceType,
       Shape, HandlersStacked, GoalAgrees, TxIrqAgrees, HasTx, TxMatches
  <2>4. CASE ClaimTx
    BY <2>4, OperationsIrq, OperationsKeep, StacksDiffer DEF ClaimTx, TaskAt, PortType, PlaceType,
       Shape, HandlersStacked, GoalAgrees, TxIrqAgrees, HasTx, TxMatches
  <2>5. CASE SetSpeed
    BY <2>5, OperationsIrq, OperationsKeep, StacksDiffer DEF SetSpeed, TaskAt, PortType, PlaceType,
       Shape, HandlersStacked, GoalAgrees, TxIrqAgrees, HasTx, TxMatches
  <2>6. QED
    BY <1>3, <2>1, <2>2, <2>3, <2>4, <2>5 DEF Startup
<1>4. CASE Shutdown
  <2>1. CASE Drain
    BY <2>1, OperationsIrq, OperationsKeep, StacksDiffer DEF Drain, TaskAt, Freed, PortType,
       PlaceType, Shape, HandlersStacked, GoalAgrees, TxIrqAgrees, HasTx, TxMatches
  <2>2. CASE FreeTx
    BY <2>2, OperationsIrq, OperationsKeep, StacksDiffer DEF FreeTx, TaskAt, Freed, PortType,
       PlaceType, Shape, HandlersStacked, GoalAgrees, TxIrqAgrees, HasTx, TxMatches
  <2>3. CASE ClearTx
    BY <2>3, OperationsIrq, OperationsKeep, StacksDiffer DEF ClearTx, TaskAt, Freed, PortType,
       PlaceType, Shape, HandlersStacked, GoalAgrees, TxIrqAgrees, HasTx, TxMatches
  <2>4. CASE FreeRx
    BY <2>4, OperationsIrq, OperationsKeep, StacksDiffer DEF FreeRx, TaskAt, Freed, PortType,
       PlaceType, Shape, HandlersStacked, GoalAgrees, TxIrqAgrees, HasTx, TxMatches
  <2>5. QED
    BY <1>4, <2>1, <2>2, <2>3, <2>4 DEF Shutdown
<1>5. CASE TxStop
  BY <1>5, OperationsIrq, OperationsKeep, StacksDiffer DEF TxStop, AtTx, TxTo, disable_irq,
     PortType, PlaceType, Shape, HandlersStacked, GoalAgrees, TxIrqAgrees, HasTx, TxMatches
<1>6. CASE TxDisabled
  BY <1>6, OperationsIrq, OperationsKeep, StacksDiffer DEF TxDisabled, AtTx, TxTo, PortType,
     PlaceType, Shape, HandlersStacked, GoalAgrees, TxIrqAgrees, HasTx, TxMatches
<1>7. CASE TxRxOn
  BY <1>7, OperationsIrq, OperationsKeep, StacksDiffer DEF TxRxOn, AtTx, TxTo, rx_enable, PortType,
     PlaceType, Shape, HandlersStacked, GoalAgrees, TxIrqAgrees, HasTx, TxMatches
<1>8. CASE RxPush
  <2>1. p' = p \/ p' = start_tx(p)
    BY <1>8 DEF RxPush
  <2>2. UNCHANGED <<task, goal, txpc>>
    BY <1>8 DEF RxPush, RxTo
  <2>3. /\ p'.tx_claimed = p.tx_claimed /\ (p.tx_enabled => p'.tx_enabled)
        /\ (TxMatches(p) => TxMatches(p'))
        /\ (p.irq["tx"] = -1 => p'.irq["tx"] = -1)
        /\ (txpc = "disabled" => p' = p)
    BY <2>1, OperationsIrq, OperationsKeep DEF PortType, TxIrqAgrees
  <2>4. QED
    BY <2>2, <2>3 DEF TxIrqAgrees, HasTx
<1>9. QED
  BY <1>1, <1>2, <1>3, <1>4, <1>5, <1>6, <1>7, <1>8 DEF Next, Tx, Rx, Moves

(* Every step keeps the receive interrupt disabled once at most.           *)
LEMMA RxIrqStep ==
  ASSUME PortType, PlaceType, HandlersStacked, GoalAgrees, RxIrqAgrees, [Next]_vars
  PROVE  RxIrqAgrees'
<1>1. CASE Moves \/ UNCHANGED vars
  BY <1>1, MovesKeep DEF RxIrqAgrees, HasRx
<1>2. CASE Core
  <2>1. CASE Open
    BY <2>1, OperationsIrq, OperationsKeep, StacksDiffer DEF Open, TaskAt, Counts, PortType,
       PlaceType, Shape, HandlersStacked, GoalAgrees, RxIrqAgrees, HasRx
  <2>2. CASE SetTermios
    BY <2>2, OperationsIrq, OperationsKeep, StacksDiffer DEF SetTermios, TaskAt, Counts, PortType,
       PlaceType, Shape, HandlersStacked, GoalAgrees, RxIrqAgrees, HasRx
  <2>3. CASE Close
    BY <2>3, OperationsIrq, OperationsKeep, StacksDiffer DEF Close, TaskAt, Counts, PortType,
       PlaceType, Shape, HandlersStacked, GoalAgrees, RxIrqAgrees, HasRx
  <2>4. CASE Suspend
    <3>1. CASE task = "open"
      <4>1. PICK left \in Fill : /\ p' = stop_rx(stop_tx(p, left))
                                 /\ stop_tx(p, left) \in Shape /\ p \in Shape
        BY <2>4, <3>1, SuspendStops
      <4>2. p'.irq["rx"] \in 0..1 /\ p'.rx_claimed = p.rx_claimed
        BY <3>1, <4>1, OperationsIrq, OperationsKeep DEF RxIrqAgrees
      <4>3. QED
        BY <2>4, <3>1, <4>2 DEF Suspend, TaskAt, RxIrqAgrees, HasRx
    <3>2. CASE task = "closed"
      BY <2>4, <3>2 DEF Suspend, TaskAt, RxIrqAgrees, HasRx
    <3>3. QED
      BY <2>4, <3>1, <3>2 DEF Suspend, TaskAt
  <2>5. CASE Resume
    BY <2>5, OperationsIrq, OperationsKeep, StacksDiffer DEF Resume, TaskAt, Counts, PortType,
       PlaceType, Shape, HandlersStacked, GoalAgrees, RxIrqAgrees, HasRx
  <2>6. CASE Write
    BY <2>6, OperationsIrq, OperationsKeep, StacksDiffer DEF Write, TaskAt, Counts, PortType,
       PlaceType, Shape, HandlersStacked, GoalAgrees, RxIrqAgrees, HasRx
  <2>7. CASE SendXchar
    BY <2>7, OperationsIrq, OperationsKeep, StacksDiffer DEF SendXchar, TaskAt, Counts, PortType,
       PlaceType, Shape, HandlersStacked, GoalAgrees, RxIrqAgrees, HasRx
  <2>8. CASE StopTty
    BY <2>8, OperationsIrq, OperationsKeep, StacksDiffer DEF StopTty, TaskAt, Counts, PortType,
       PlaceType, Shape, HandlersStacked, GoalAgrees, RxIrqAgrees, HasRx
  <2>9. CASE StartTty
    BY <2>9, OperationsIrq, OperationsKeep, StacksDiffer DEF StartTty, TaskAt, Counts, PortType,
       PlaceType, Shape, HandlersStacked, GoalAgrees, RxIrqAgrees, HasRx
  <2>10. QED
    BY <1>2, <2>1, <2>2, <2>3, <2>4, <2>5, <2>6, <2>7, <2>8, <2>9 DEF Core
<1>3. CASE Startup
  <2>1. CASE RequestRx
    BY <2>1, OperationsIrq, OperationsKeep, StacksDiffer DEF RequestRx, TaskAt, PortType, PlaceType,
       Shape, HandlersStacked, GoalAgrees, RxIrqAgrees, HasRx
  <2>2. CASE EnableTx
    BY <2>2, OperationsIrq, OperationsKeep, StacksDiffer DEF EnableTx, TaskAt, PortType, PlaceType,
       Shape, HandlersStacked, GoalAgrees, RxIrqAgrees, HasRx
  <2>3. CASE RequestTx
    BY <2>3, OperationsIrq, OperationsKeep, StacksDiffer DEF RequestTx, TaskAt, PortType, PlaceType,
       Shape, HandlersStacked, GoalAgrees, RxIrqAgrees, HasRx
  <2>4. CASE ClaimTx
    BY <2>4, OperationsIrq, OperationsKeep, StacksDiffer DEF ClaimTx, TaskAt, PortType, PlaceType,
       Shape, HandlersStacked, GoalAgrees, RxIrqAgrees, HasRx
  <2>5. CASE SetSpeed
    BY <2>5, OperationsIrq, OperationsKeep, StacksDiffer DEF SetSpeed, TaskAt, PortType, PlaceType,
       Shape, HandlersStacked, GoalAgrees, RxIrqAgrees, HasRx
  <2>6. QED
    BY <1>3, <2>1, <2>2, <2>3, <2>4, <2>5 DEF Startup
<1>4. CASE Shutdown
  <2>1. CASE Drain
    BY <2>1, OperationsIrq, OperationsKeep, StacksDiffer DEF Drain, TaskAt, Freed, PortType,
       PlaceType, Shape, HandlersStacked, GoalAgrees, RxIrqAgrees, HasRx
  <2>2. CASE FreeTx
    BY <2>2, OperationsIrq, OperationsKeep, StacksDiffer DEF FreeTx, TaskAt, Freed, PortType,
       PlaceType, Shape, HandlersStacked, GoalAgrees, RxIrqAgrees, HasRx
  <2>3. CASE ClearTx
    BY <2>3, OperationsIrq, OperationsKeep, StacksDiffer DEF ClearTx, TaskAt, Freed, PortType,
       PlaceType, Shape, HandlersStacked, GoalAgrees, RxIrqAgrees, HasRx
  <2>4. CASE FreeRx
    BY <2>4, OperationsIrq, OperationsKeep, StacksDiffer DEF FreeRx, TaskAt, Freed, PortType,
       PlaceType, Shape, HandlersStacked, GoalAgrees, RxIrqAgrees, HasRx
  <2>5. QED
    BY <1>4, <2>1, <2>2, <2>3, <2>4 DEF Shutdown
<1>5. CASE TxStop
  BY <1>5, OperationsIrq, OperationsKeep, StacksDiffer DEF TxStop, AtTx, TxTo, disable_irq,
     PortType, PlaceType, Shape, HandlersStacked, GoalAgrees, RxIrqAgrees, HasRx
<1>6. CASE TxDisabled
  BY <1>6, OperationsIrq, OperationsKeep, StacksDiffer DEF TxDisabled, AtTx, TxTo, PortType,
     PlaceType, Shape, HandlersStacked, GoalAgrees, RxIrqAgrees, HasRx
<1>7. CASE TxRxOn
  BY <1>7, OperationsIrq, OperationsKeep, StacksDiffer DEF TxRxOn, AtTx, TxTo, rx_enable, PortType,
     PlaceType, Shape, HandlersStacked, GoalAgrees, RxIrqAgrees, HasRx
<1>8. CASE RxPush
  BY <1>8, OperationsIrq, OperationsKeep, StacksDiffer DEF RxPush, AtRx, RxTo, PortType, PlaceType,
     Shape, HandlersStacked, GoalAgrees, RxIrqAgrees, HasRx
<1>9. QED
  BY <1>1, <1>2, <1>3, <1>4, <1>5, <1>6, <1>7, <1>8 DEF Next, Tx, Rx, Moves

(* Every step that leaves the transmitter off leaves the receiver on.      *)
LEMMA ReceiverStep ==
  ASSUME PortType, PlaceType, HandlersStacked, GoalAgrees, TxIrqAgrees, ReceiverAgrees, [Next]_vars
  PROVE  ReceiverAgrees'
<1>1. CASE Moves \/ UNCHANGED vars
  <2>1. /\ p'.rxmode = p.rxmode /\ p'.tx_enabled = p.tx_enabled
        /\ UNCHANGED <<task, goal, cons_flow>>
    BY <1>1, MovesKeep
  <2>2. txpc' = txpc \/ txpc # "rx_on"
    BY <1>1 DEF Moves, TxIrq, TxEntry, TxDrained, RxIrq, RxChar, RxTest, TxShift, RxArrive,
       AtTx, TxTo, RxTo
  <2>3. QED
    BY <2>1, <2>2 DEF ReceiverAgrees, HasTx
<1>2. CASE Core
  <2>1. CASE Open
    BY <2>1, OperationsIrq, OperationsKeep, StacksDiffer DEF Open, TaskAt, Counts, PortType,
       PlaceType, Shape, HandlersStacked, GoalAgrees, TxIrqAgrees, HasTx, ReceiverAgrees
  <2>2. CASE SetTermios
    BY <2>2, OperationsIrq, OperationsKeep, StacksDiffer DEF SetTermios, TaskAt, Counts, PortType,
       PlaceType, Shape, HandlersStacked, GoalAgrees, TxIrqAgrees, HasTx, ReceiverAgrees
  <2>3. CASE Close
    BY <2>3, OperationsIrq, OperationsKeep, StacksDiffer DEF Close, TaskAt, Counts, PortType,
       PlaceType, Shape, HandlersStacked, GoalAgrees, TxIrqAgrees, HasTx, ReceiverAgrees
  <2>4. CASE Suspend
    <3>1. CASE task = "open"
      <4>1. PICK left \in Fill : /\ p' = stop_rx(stop_tx(p, left))
                                 /\ stop_tx(p, left) \in Shape /\ p \in Shape
        BY <2>4, <3>1, SuspendStops
      <4>2. p'.rxmode
        BY <2>4, <3>1, <4>1, OperationsKeep, StacksDiffer
           DEF Suspend, TaskAt, ReceiverAgrees, HasTx, HandlersStacked
      <4>3. QED
        BY <4>2 DEF ReceiverAgrees
    <3>2. CASE task = "closed"
      BY <2>4, <3>2 DEF Suspend, TaskAt, ReceiverAgrees, HasTx
    <3>3. QED
      BY <2>4, <3>1, <3>2 DEF Suspend, TaskAt
  <2>5. CASE Resume
    BY <2>5, OperationsIrq, OperationsKeep, StacksDiffer DEF Resume, TaskAt, Counts, PortType,
       PlaceType, Shape, HandlersStacked, GoalAgrees, TxIrqAgrees, HasTx, ReceiverAgrees
  <2>6. CASE Write
    BY <2>6, OperationsIrq, OperationsKeep, StacksDiffer DEF Write, TaskAt, Counts, PortType,
       PlaceType, Shape, HandlersStacked, GoalAgrees, TxIrqAgrees, HasTx, ReceiverAgrees
  <2>7. CASE SendXchar
    BY <2>7, OperationsIrq, OperationsKeep, StacksDiffer DEF SendXchar, TaskAt, Counts, PortType,
       PlaceType, Shape, HandlersStacked, GoalAgrees, TxIrqAgrees, HasTx, ReceiverAgrees
  <2>8. CASE StopTty
    BY <2>8, OperationsIrq, OperationsKeep, StacksDiffer DEF StopTty, TaskAt, Counts, PortType,
       PlaceType, Shape, HandlersStacked, GoalAgrees, TxIrqAgrees, HasTx, ReceiverAgrees
  <2>9. CASE StartTty
    BY <2>9, OperationsIrq, OperationsKeep, StacksDiffer DEF StartTty, TaskAt, Counts, PortType,
       PlaceType, Shape, HandlersStacked, GoalAgrees, TxIrqAgrees, HasTx, ReceiverAgrees
  <2>10. QED
    BY <1>2, <2>1, <2>2, <2>3, <2>4, <2>5, <2>6, <2>7, <2>8, <2>9 DEF Core
<1>3. CASE Startup
  <2>1. CASE RequestRx
    BY <2>1, OperationsIrq, OperationsKeep, StacksDiffer DEF RequestRx, TaskAt, PortType, PlaceType,
       Shape, HandlersStacked, GoalAgrees, TxIrqAgrees, HasTx, ReceiverAgrees
  <2>2. CASE EnableTx
    BY <2>2, OperationsIrq, OperationsKeep, StacksDiffer DEF EnableTx, TaskAt, PortType, PlaceType,
       Shape, HandlersStacked, GoalAgrees, TxIrqAgrees, HasTx, ReceiverAgrees
  <2>3. CASE RequestTx
    BY <2>3, OperationsIrq, OperationsKeep, StacksDiffer DEF RequestTx, TaskAt, PortType, PlaceType,
       Shape, HandlersStacked, GoalAgrees, TxIrqAgrees, HasTx, ReceiverAgrees
  <2>4. CASE ClaimTx
    BY <2>4, OperationsIrq, OperationsKeep, StacksDiffer DEF ClaimTx, TaskAt, PortType, PlaceType,
       Shape, HandlersStacked, GoalAgrees, TxIrqAgrees, HasTx, ReceiverAgrees
  <2>5. CASE SetSpeed
    BY <2>5, OperationsIrq, OperationsKeep, StacksDiffer DEF SetSpeed, TaskAt, PortType, PlaceType,
       Shape, HandlersStacked, GoalAgrees, TxIrqAgrees, HasTx, ReceiverAgrees
  <2>6. QED
    BY <1>3, <2>1, <2>2, <2>3, <2>4, <2>5 DEF Startup
<1>4. CASE Shutdown
  <2>1. CASE Drain
    BY <2>1, OperationsIrq, OperationsKeep, StacksDiffer DEF Drain, TaskAt, Freed, PortType,
       PlaceType, Shape, HandlersStacked, GoalAgrees, TxIrqAgrees, HasTx, ReceiverAgrees
  <2>2. CASE FreeTx
    BY <2>2, OperationsIrq, OperationsKeep, StacksDiffer DEF FreeTx, TaskAt, Freed, PortType,
       PlaceType, Shape, HandlersStacked, GoalAgrees, TxIrqAgrees, HasTx, ReceiverAgrees
  <2>3. CASE ClearTx
    BY <2>3, OperationsIrq, OperationsKeep, StacksDiffer DEF ClearTx, TaskAt, Freed, PortType,
       PlaceType, Shape, HandlersStacked, GoalAgrees, TxIrqAgrees, HasTx, ReceiverAgrees
  <2>4. CASE FreeRx
    BY <2>4, OperationsIrq, OperationsKeep, StacksDiffer DEF FreeRx, TaskAt, Freed, PortType,
       PlaceType, Shape, HandlersStacked, GoalAgrees, TxIrqAgrees, HasTx, ReceiverAgrees
  <2>5. QED
    BY <1>4, <2>1, <2>2, <2>3, <2>4 DEF Shutdown
<1>5. CASE TxStop
  BY <1>5, OperationsIrq, OperationsKeep, StacksDiffer DEF TxStop, AtTx, TxTo, disable_irq,
     PortType, PlaceType, Shape, HandlersStacked, GoalAgrees, TxIrqAgrees, HasTx, ReceiverAgrees
<1>6. CASE TxDisabled
  BY <1>6, OperationsIrq, OperationsKeep, StacksDiffer DEF TxDisabled, AtTx, TxTo, PortType,
     PlaceType, Shape, HandlersStacked, GoalAgrees, TxIrqAgrees, HasTx, ReceiverAgrees
<1>7. CASE TxRxOn
  BY <1>7, OperationsIrq, OperationsKeep, StacksDiffer DEF TxRxOn, AtTx, TxTo, rx_enable, PortType,
     PlaceType, Shape, HandlersStacked, GoalAgrees, TxIrqAgrees, HasTx, ReceiverAgrees
<1>8. CASE RxPush
  BY <1>8, OperationsIrq, OperationsKeep, StacksDiffer DEF RxPush, AtRx, RxTo, PortType, PlaceType,
     Shape, HandlersStacked, GoalAgrees, TxIrqAgrees, HasTx, ReceiverAgrees
<1>9. QED
  BY <1>1, <1>2, <1>3, <1>4, <1>5, <1>6, <1>7, <1>8 DEF Next, Tx, Rx, Moves

-----------------------------------------------------------------------------
(* The clocks. *)

(* Powering on and off, and taking another clock, in terms of who is held. *)
LEMMA PowerFacts ==
  ASSUME NEW b \in DOMAIN Rate \cup {NONE}, NEW c \in DOMAIN Rate \cup {NONE}
  PROVE  /\ clk_enable(clk_enable(AllOff, "uart"), b) = Held(b)
         /\ clk_disable(clk_disable(Held(b), b), "uart") = AllOff
         /\ clk_disable(clk_enable(AllOff, "uart"), "uart") = AllOff
         /\ clk_enable(clk_disable(Held(b), b), c) = Held(c)
<1>1. NONE \notin Clocks /\ "uart" \in Clocks /\ "uart" \notin DOMAIN Rate /\ DOMAIN Rate \subseteq Clocks
  BY ClockAssumption DEF Clocks
<1>2. /\ clk_enable(AllOff, "uart") = Held(NONE)
      /\ clk_disable(Held(NONE), "uart") = AllOff
  <2>1. AllOff["uart"] = 0 /\ Held(NONE)["uart"] = 1 /\ "uart" # NONE
    BY <1>1 DEF AllOff, Held
  <2>2. [AllOff EXCEPT !["uart"] = 1] = Held(NONE) /\ [Held(NONE) EXCEPT !["uart"] = 0] = AllOff
    BY <1>1 DEF AllOff, Held
  <2>3. QED
    BY <2>1, <2>2 DEF clk_enable, clk_disable
<1>3. ASSUME NEW d \in DOMAIN Rate \cup {NONE}
      PROVE  clk_disable(Held(d), d) = Held(NONE) /\ clk_enable(Held(NONE), d) = Held(d)
  <2>1. CASE d = NONE
    BY <2>1 DEF clk_enable, clk_disable
  <2>2. CASE d # NONE
    <3>1. d \in Clocks /\ d # "uart"
      BY <1>1, <2>2
    <3>2. clk_disable(Held(d), d) = Held(NONE)
      <4>1. clk_disable(Held(d), d) = [Held(d) EXCEPT ![d] = @ - 1]
        BY <2>2 DEF clk_disable
      <4>2. Held(d)[d] = 1
        BY <1>1, <2>2, <3>1 DEF Held
      <4>3. [Held(d) EXCEPT ![d] = 0] = Held(NONE)
        BY <1>1, <2>2, <3>1 DEF Held
      <4>4. QED
        BY <4>1, <4>2, <4>3
    <3>3. clk_enable(Held(NONE), d) = Held(d)
      <4>1. clk_enable(Held(NONE), d) = [Held(NONE) EXCEPT ![d] = @ + 1]
        BY <2>2 DEF clk_enable
      <4>2. Held(NONE)[d] = 0
        BY <1>1, <2>2, <3>1 DEF Held
      <4>3. [Held(NONE) EXCEPT ![d] = 1] = Held(d)
        BY <1>1, <2>2, <3>1 DEF Held
      <4>4. QED
        BY <4>1, <4>2, <4>3
    <3>4. QED
      BY <3>2, <3>3
  <2>3. QED
    BY <2>1, <2>2
<1>4. clk_disable(clk_enable(AllOff, "uart"), "uart") = AllOff
  BY <1>2
<1>5. QED
  BY <1>2, <1>3, <1>4

(* What set_termios leaves: one clock held, and the choice in the          *)
(* registers.                                                              *)
LEMMA TermiosClocks ==
  ASSUME RateType, NEW rate \in Bauds \cup {0}, set_termios(rate)
  PROVE  /\ RateType' /\ (use = Held(baudclk) => use' = Held(baudclk'))
         /\ ChoiceAgrees => ChoiceAgrees'
<1>1. ASSUME NEW src, NEW clk \in DOMAIN Rate \cup {NONE}, NEW quot, Select(src, clk, quot)
      PROVE  /\ baudclk' = clk /\ clksrc' = src /\ cfg_clocks' = cfg_clocks
             /\ (use = Held(baudclk) => use' = Held(baudclk'))
             /\ ubrdiv' = quot % UbrdivValues
  BY <1>1, PowerFacts DEF Select, RateType
<1>2. CASE rate = 0
  <2>1. Select(NONE, NONE, 1) /\ rate_of' = 0
    BY <1>2 DEF set_termios, set_divisor
  <2>2. /\ baudclk' = NONE /\ clksrc' = NONE /\ cfg_clocks' = cfg_clocks
        /\ (use = Held(baudclk) => use' = Held(baudclk'))
    BY <1>1, <2>1
  <2>3. QED
    BY <2>1, <2>2 DEF RateType, ChoiceAgrees
<1>3. CASE rate # 0
  <2> DEFINE best == getclk(rate)
  <2>1. rate \in Bauds /\ rate \in Nat \ {0}
    BY <1>3, ClockAssumption
  <2>2. Select(best.clksrc, best.clksrc.name, best.quot) /\ rate_of' = rate
    BY <1>3 DEF set_termios, set_baud
  <2>3. PICK i \in usable : best = calcbaud(sources[i], rate)
    BY <2>1, GetclkTakesNearest DEF RateType
  <2>4. best.clksrc = sources[i]
    BY <2>3 DEF calcbaud
  <2>5. best.clksrc.name \in DOMAIN Rate
    BY <2>4, SourcesUsable DEF RateType
  <2> HIDE DEF best
  <2>6. /\ baudclk' = best.clksrc.name /\ clksrc' = best.clksrc /\ cfg_clocks' = cfg_clocks
        /\ (use = Held(baudclk) => use' = Held(baudclk'))
        /\ ubrdiv' = best.quot % UbrdivValues
    BY <1>1, <2>2, <2>5
  <2>7. getclk(rate)' = best
    <3>1. sources' = sources /\ usable' = usable
      BY <2>6 DEF sources, usable
    <3>2. QED
      BY <3>1 DEF best, getclk
  <2>8. RateType'
    BY <2>1, <2>2, <2>5, <2>6 DEF RateType
  <2>9. ChoiceAgrees => ChoiceAgrees'
    <3>1. (getclk(rate_of))' = best
      BY <2>2, <2>7
    <3>2. QED
      BY <2>1, <2>2, <2>6, <3>1 DEF ChoiceAgrees
  <2>10. QED
    BY <2>6, <2>8, <2>9
<1>4. QED
  BY <1>2, <1>3

(* A step that leaves the registers and their clock alone. *)
LEMMA StillChosen ==
  ASSUME RateType, ChoiceAgrees, UNCHANGED <<cfg_clocks, clksrc, baudclk, ubrdiv, rate_of>>
  PROVE  RateType' /\ ChoiceAgrees'
<1>1. sources' = sources /\ usable' = usable
  BY DEF sources, usable
<1>2. ASSUME NEW baud PROVE getclk(baud)' = getclk(baud)
  BY <1>1 DEF getclk
<1>3. getclk(rate_of)' = getclk(rate_of)
  BY <1>1 DEF getclk
<1>4. QED
  BY <1>3 DEF RateType, ChoiceAgrees

(* The steps that change no clock and neither power the port on nor off. *)
Idles == Startup \/ Drain \/ FreeTx \/ ClearTx \/ Tx \/ Rx \/ TxShift \/ RxArrive
         \/ Write \/ SendXchar \/ StopTty \/ StartTty

(* Every step keeps the clocks balanced and the choice in the registers.   *)
LEMMA ClockStep ==
  ASSUME PlaceType, GoalAgrees, ClockInv, [Next]_vars
  PROVE  ClockInv'
<1> USE DEF ClockInv, ClocksAgree, Powered
<1>1. CASE Idles /\ ~SetSpeed
  <2>1. UNCHANGED clock
    BY <1>1 DEF Idles, Startup, RequestRx, EnableTx, RequestTx, ClaimTx, Drain, FreeTx, ClearTx,
       Tx, TxIrq, TxEntry, TxDrained, TxStop, TxDisabled, TxRxOn, TxTo,
       Rx, RxIrq, RxChar, RxTest, RxPush, RxTo, TxShift, RxArrive, Write, SendXchar, StopTty, StartTty
  <2>2. Powered' = Powered
    BY <1>1 DEF Idles, Startup, RequestRx, EnableTx, RequestTx, ClaimTx, Drain, FreeTx, ClearTx,
       Tx, TxIrq, TxEntry, TxDrained, TxStop, TxDisabled, TxRxOn, TxTo, TaskAt,
       Rx, RxIrq, RxChar, RxTest, RxPush, RxTo, TxShift, RxArrive, Write, SendXchar, StopTty, StartTty
  <2>3. QED
    BY <2>1, <2>2, StillChosen
<1>2. CASE SetSpeed \/ SetTermios
  <2>1. PICK rate \in Bauds \cup {0} : set_termios(rate)
    BY <1>2 DEF SetSpeed, SetTermios, RateType
  <2>2. Powered /\ Powered'
    BY <1>2 DEF SetSpeed, SetTermios, TaskAt
  <2>3. QED
    BY <2>1, <2>2, TermiosClocks
<1>3. CASE Open \/ Close \/ FreeRx \/ Suspend \/ Resume
  <2>1. UNCHANGED <<cfg_clocks, clksrc, baudclk, ubrdiv, rate_of>>
    BY <1>3 DEF Open, Close, FreeRx, Suspend, Resume
  <2>2. RateType' /\ ChoiceAgrees' /\ baudclk \in DOMAIN Rate \cup {NONE} /\ baudclk' = baudclk
    BY <2>1, StillChosen DEF RateType
  <2>3. /\ PowerOn(AllOff) = Held(baudclk) /\ PowerOff(Held(baudclk)) = AllOff
        /\ clk_disable(clk_enable(AllOff, "uart"), "uart") = AllOff
    BY <2>2, PowerFacts DEF PowerOn, PowerOff
  <2>4. CASE Open
    BY <2>2, <2>3, <2>4 DEF Open, TaskAt
  <2>5. CASE Close
    BY <2>2, <2>3, <2>5 DEF Close, TaskAt
  <2>6. CASE FreeRx
    BY <2>2, <2>3, <2>6 DEF FreeRx, TaskAt, GoalAgrees
  <2>7. CASE Suspend
    BY <2>2, <2>3, <2>7 DEF Suspend, TaskAt
  <2>8. CASE Resume
    BY <2>2, <2>3, <2>8 DEF Resume, TaskAt, GoalAgrees
  <2>9. QED
    BY <1>3, <2>4, <2>5, <2>6, <2>7, <2>8
<1>4. CASE UNCHANGED vars
  BY <1>4, StillChosen
<1>5. QED
  BY <1>1, <1>2, <1>3, <1>4 DEF Next, Core, Shutdown, Startup, Idles

-----------------------------------------------------------------------------
(* A probed port satisfies the invariant.                                  *)
LEMMA Initially == Init => IInv
<1> SUFFICES ASSUME Init PROVE IInv
  OBVIOUS
<1> USE DEF Init, ClockInit
<1>1. PortType
  <2>1. [l \in {"tx", "rx"} |-> -1] \in [{"tx", "rx"} -> Depths]
    BY Numbers
  <2>2. QED
    BY <2>1, Numbers DEF PortType, Shape
<1>2. XmitType /\ PlaceType /\ FifoAgrees
  BY UartAssumption DEF XmitType, PlaceType, FifoAgrees
<1>3. FlagType
  BY UartAssumption DEF FlagType
<1>4. HandlersStacked /\ GoalAgrees
  BY StacksDiffer DEF HandlersStacked, Stacks, GoalAgrees
<1>5. TxIrqAgrees /\ RxIrqAgrees /\ ReceiverAgrees
  BY DEF TxIrqAgrees, RxIrqAgrees, ReceiverAgrees, HasTx, HasRx
<1>6. RateType /\ ChoiceAgrees
  BY ClockAssumption DEF RateType, ChoiceAgrees
<1>7. ClocksAgree
  BY DEF ClocksAgree, Powered, AllOff
<1>8. QED
  BY <1>1, <1>2, <1>3, <1>4, <1>5, <1>6, <1>7 DEF IInv, PortInv, ClockInv

(* The inductive invariant holds of every state of the port.               *)
THEOREM Invariance == Spec => []IInv
<1>1. Init => IInv
  BY Initially
<1>2. IInv /\ [Next]_vars => IInv'
  <2> SUFFICES ASSUME IInv, [Next]_vars PROVE IInv'
    OBVIOUS
  <2> USE DEF IInv, PortInv
  <2>1. PortType' /\ XmitType' /\ PlaceType' /\ FlagType' /\ FifoAgrees'
    BY PortTypeStep, XmitTypeStep, PlaceTypeStep, FlagTypeStep, FifoStep
  <2>2. PortInv'
    BY StackStep, GoalStep, TxIrqStep, RxIrqStep, ReceiverStep
  <2>3. ClockInv'
    BY ClockStep
  <2>4. QED
    BY <2>1, <2>2, <2>3
<1>3. QED
  BY <1>1, <1>2, PTL DEF Spec

(* Every variable of the port stays in its type: the FIFOs, the depth of   *)
(* disable_irq and the stack of the handlers are bounded.                  *)
THEOREM TypeCorrect == Spec => []TypeOK
<1>1. IInv => TypeOK
  <2> SUFFICES ASSUME IInv PROVE TypeOK
    OBVIOUS
  <2>1. p.irq \in [{"tx", "rx"} -> -1..2]
    <3>1. p.irq["tx"] \in -1..2
      BY DEF IInv, PortInv, TxIrqAgrees, TxMatches
    <3>2. p.irq["rx"] \in -1..2
      BY DEF IInv, PortInv, RxIrqAgrees
    <3>3. QED
      BY <3>1, <3>2 DEF IInv, PortType, Shape
  <2>2. p \in Port
    <3> DEFINE D == -1..2
    <3>1. p \in Shape /\ p.irq \in [{"tx", "rx"} -> D]
      BY <2>1 DEF IInv, PortType
    <3> HIDE DEF D
    <3>2. p \in [tx_enabled : BOOLEAN, rx_enabled : BOOLEAN, tx_claimed : BOOLEAN, rx_claimed : BOOLEAN,
                 irq : [{"tx", "rx"} -> D], rxmode : BOOLEAN, fifo : Fill, rxfifo : RxFill]
      BY <3>1 DEF Shape
    <3>3. QED
      BY <3>2 DEF D, Port, Fill, RxFill
  <2>3. xmit \in 0..XmitSize
    BY DEF IInv, XmitType
  <2>4. QED
    BY <2>2, <2>3 DEF IInv, PortInv, PlaceType, FlagType, HandlersStacked, Stacks, TypeOK
<1>2. QED
  BY <1>1, Invariance, PTL

(* For every board and every interleaving of the handlers, the transmit    *)
(* interrupt is enabled exactly if tx_enabled says so, and a closed port   *)
(* has given back both interrupts.                                         *)
THEOREM IrqsFollow == Spec => []IrqsAgree
<1>1. IInv => IrqsAgree
  BY StacksDiffer DEF IInv, PortInv, HandlersStacked, TxIrqAgrees, RxIrqAgrees, HasTx, HasRx, TxMatches,
     IrqsAgree
<1>2. QED
  BY <1>1, Invariance, PTL

(* An open port whose transmitter is off listens, also under console flow  *)
(* control.                                                                *)
THEOREM ReceiverListens == Spec => []ReceiverOn
<1>1. IInv => ReceiverOn
  BY StacksDiffer DEF IInv, PortInv, HandlersStacked, ReceiverAgrees, HasTx, ReceiverOn, TaskAt
<1>2. QED
  BY <1>1, Invariance, PTL

(* If only open ports are suspended, the port holds its clock and the      *)
(* clock of the baud rate once while it is powered, and none while it is   *)
(* not.                                                                    *)
THEOREM ClocksHeldOnce == ~SuspendClosed => (Spec => []ClocksBalanced)
<1> SUFFICES ASSUME ~SuspendClosed PROVE Spec => []ClocksBalanced
  OBVIOUS
<1>1. IInv => ClocksBalanced
  BY DEF IInv, ClockInv, ClocksAgree, Powered, Held, AllOff, ClocksBalanced
<1>2. QED
  BY <1>1, Invariance, PTL

(* The divisor of every rate fits the sixteen bits of UBRDIV, with every   *)
(* clock as it is.                                                         *)
RatesFit ==
  \A b \in Bauds : b > 1 /\ \A c \in DOMAIN Rate : (Rate[c] + 8 * b) \div (16 * b) <= UbrdivValues

(* If the undivided rates fit, so does the divisor of every source.        *)
LEMMA QuotientFits ==
  ASSUME RatesFit, cfg_clocks \in Configs, NEW b \in Bauds, NEW i \in usable
  PROVE  calcbaud(sources[i], b).quot < UbrdivValues
<1> DEFINE rate == Rate[sources[i].name]
           div  == sources[i].divisor
           r    == rate \div div
<1>1. rate \in Nat /\ div \in Nat \ {0} /\ b \in Nat \ {0} /\ sources[i].name \in DOMAIN Rate
  BY SourcesUsable, ClockAssumption
<1>2. (rate + 8 * b) \div (16 * b) <= 65536
  BY <1>1 DEF RatesFit, UbrdivValues
<1>3. calcbaud(sources[i], b).quot = (r + 8 * b) \div (16 * b) - 1
  BY <1>1, CalcbaudType
<1> HIDE DEF rate, div
<1>4. r \in Nat /\ r <= rate
  <2>1. r \in Nat /\ div * r <= rate
    BY <1>1, DivTimes
  <2>2. 1 * r <= div * r
    BY <1>1, <2>1
  <2>3. QED
    BY <1>1, <2>1, <2>2
<1> HIDE DEF r
<1>5. (r + 8 * b) \div (16 * b) <= (rate + 8 * b) \div (16 * b)
  <2> DEFINE w == 16 * b
             x == r + 8 * b
             y == rate + 8 * b
  <2>1. w \in Nat \ {0} /\ x \in Nat /\ y \in Nat /\ x <= y
    BY <1>1, <1>4
  <2> HIDE DEF w, x, y
  <2>2. x \div w <= y \div w
    BY <2>1
  <2>3. QED
    BY <2>2 DEF w, x, y
<1>6. (r + 8 * b) \div (16 * b) \in Nat /\ (rate + 8 * b) \div (16 * b) \in Nat
  BY <1>1, <1>4, DivTimes
<1>7. QED
  BY <1>2, <1>3, <1>5, <1>6 DEF UbrdivValues

(* If the divisors fit UBRDIV, a rate that some source comes near with     *)
(* some divisor is come close to by the source set_termios has chosen with *)
(* the divisor in the register, whichever sources the board has.           *)
THEOREM BaudRateReached == RatesFit => (Spec => []RateReached)
<1> SUFFICES ASSUME RatesFit PROVE Spec => []RateReached
  OBVIOUS
<1>1. ASSUME IInv PROVE RateReached
  <2> SUFFICES ASSUME clksrc # NONE, NEW i \in usable, NEW d \in 1..MaxDivisor,
                      Within(sources[i], d, rate_of).near
               PROVE  Within(clksrc, ubrdiv + 1, rate_of).close
    BY DEF RateReached
  <2> DEFINE best == getclk(rate_of)
  <2>1. /\ rate_of \in Bauds /\ clksrc = best.clksrc /\ ubrdiv = best.quot % UbrdivValues
        /\ cfg_clocks \in Configs
    BY <1>1 DEF IInv, ClockInv, ChoiceAgrees, RateType
  <2>2. rate_of \in Nat \ {0} /\ rate_of > 1 /\ d \in Nat \ {0}
    BY <1>1, <2>1, ClockAssumption DEF RatesFit
  <2>3. best.quot \in Nat /\ Within(best.clksrc, best.quot + 1, rate_of).close
    BY <2>1, <2>2, ChoiceClose
  <2>4. best.quot < UbrdivValues
    <3>1. PICK k \in usable : best = calcbaud(sources[k], rate_of)
      BY <2>1, <2>2, GetclkTakesNearest
    <3>2. QED
      BY <1>1, <2>1, <3>1, QuotientFits
  <2> HIDE DEF best
  <2>5. best.quot % UbrdivValues = best.quot
    BY <2>3, <2>4 DEF UbrdivValues
  <2>6. QED
    BY <2>1, <2>3, <2>5
<1>2. QED
  BY <1>1, Invariance, PTL

=============================================================================
