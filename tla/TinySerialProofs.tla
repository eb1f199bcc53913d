-------------------------- MODULE TinySerialProofs --------------------------
(***************************************************************************)
(* Proofs about the serial port without hardware, for every size of the    *)
(* buffer and of the FIFO, on one processor: there the handler, once       *)
(* started, ends before the core goes on, and does not start between the   *)
(* core's read of the tail and its store.                                  *)
(***************************************************************************)
EXTENDS TinySerial, TLAPS

USE DEF core, ring, vars

-----------------------------------------------------------------------------
(* Places in the buffer. *)

(* What the remainder is, one turn up or down. *)
LEMMA Wraps ==
  ASSUME NEW n \in Nat \ {0}, NEW a \in Int
  PROVE  /\ a \in 0..n - 1 => a % n = a
         /\ a \in n..2 * n - 1 => a % n = a - n
         /\ a \in -n..-1 => a % n = a + n
<1>1. ASSUME NEW q \in Int, a - q * n \in 0..n - 1
      PROVE  a % n = a - q * n
  <2> DEFINE k == a \div n
             r == a % n
  <2>1. k \in Int /\ r \in 0..n - 1 /\ a = n * k + r
    OBVIOUS
  <2> HIDE DEF k, r
  <2>2. n * (k - q) = n * k - n * q /\ n * q = q * n
    BY <2>1
  <2>3. n * (k - q) < n * 1 /\ n * (k - q) > n * (-1)
    BY <1>1, <2>1, <2>2
  <2>4. k - q < 1 /\ k - q > -1
    BY <2>1, <2>3
  <2>5. k = q
    BY <2>1, <2>4
  <2>6. QED
    BY <2>1, <2>2, <2>5 DEF r
<1>2. a - 0 * n = a /\ a - 1 * n = a - n /\ a - (-1) * n = a + n
  OBVIOUS
<1>3. a \in 0..n - 1 => a % n = a
  BY <1>1, <1>2
<1>4. a \in n..2 * n - 1 => a % n = a - n
  BY <1>1, <1>2
<1>5. a \in -n..-1 => a % n = a + n
  BY <1>1, <1>2
<1>6. QED
  BY <1>3, <1>4, <1>5

Places == 0..XmitSize - 1
After(h) == (h + 1) % XmitSize
HeldFrom(h, t) == (h - t) % XmitSize
Place(t, i) == (t + i - 1) % XmitSize

(* From the tail on: the places of what the buffer holds, and the next one.*)
LEMMA PlacesFrom ==
  ASSUME NEW h \in Places, NEW t \in Places
  PROVE  /\ HeldFrom(h, t) \in Places /\ (HeldFrom(h, t) = 0 <=> h = t)
         /\ Place(t, 1) = t /\ Place(t, HeldFrom(h, t) + 1) = h
         /\ After(h) \in Places
         /\ \A i \in 1..HeldFrom(h, t) : Place(t, i) \in Places /\ Place(t, i) # h
         /\ After(h) # t => HeldFrom(After(h), t) = HeldFrom(h, t) + 1
         /\ h # t => HeldFrom(h, After(t)) = HeldFrom(h, t) - 1
<1> DEFINE n == XmitSize
           up(x) == IF x < n THEN x ELSE x - n
           down(x) == IF x < 0 THEN x + n ELSE x
<1>1. n \in Nat \ {0} /\ h \in 0..n - 1 /\ t \in 0..n - 1
  BY SerialAssumption DEF Places
<1> HIDE DEF n
<1>2. ASSUME NEW x \in 0..2 * n - 1 PROVE x % n = up(x)
  <2>1. x \in Int /\ (x \in 0..n - 1 \/ x \in n..2 * n - 1)
    BY <1>1
  <2>2. (x \in 0..n - 1 => x % n = x) /\ (x \in n..2 * n - 1 => x % n = x - n)
    BY <1>1, <2>1, Wraps
  <2>3. QED
    BY <1>1, <2>1, <2>2
<1>3. ASSUME NEW x \in -n..n - 1 PROVE x % n = down(x)
  <2>1. x \in Int /\ (x \in 0..n - 1 \/ x \in -n..-1)
    BY <1>1
  <2>2. (x \in 0..n - 1 => x % n = x) /\ (x \in -n..-1 => x % n = x + n)
    BY <1>1, <2>1, Wraps
  <2>3. QED
    BY <1>1, <2>1, <2>2
<1>4. (h - t) % n = down(h - t) /\ down(h - t) \in 0..n - 1 /\ (down(h - t) = 0 <=> h = t)
  BY <1>1, <1>3
<1>5. \A i \in 1..n : (t + i - 1) % n = up(t + i - 1)
  BY <1>1, <1>2
<1>6. (h + 1) % n = up(h + 1) /\ (t + 1) % n = up(t + 1) /\ up(h + 1) \in 0..n - 1 /\ up(t + 1) \in 0..n - 1
  BY <1>1, <1>2
<1>7. up(t) = t /\ up(t + down(h - t)) = h
  BY <1>1
<1>8. \A i \in 1..down(h - t) : up(t + i - 1) \in 0..n - 1 /\ up(t + i - 1) # h
  BY <1>1
<1>9. up(h + 1) # t => (up(h + 1) - t) % n = down(h - t) + 1
  <2>1. (up(h + 1) - t) % n = down(up(h + 1) - t)
    BY <1>1, <1>3, <1>6
  <2>2. up(h + 1) # t => down(up(h + 1) - t) = down(h - t) + 1
    BY <1>1
  <2>3. QED
    BY <2>1, <2>2
<1>10. h # t => (h - ((t + 1) % n)) % n = down(h - t) - 1
  <2>1. (h - up(t + 1)) % n = down(h - up(t + 1))
    BY <1>1, <1>3, <1>6
  <2>2. h # t => down(h - up(t + 1)) = down(h - t) - 1
    BY <1>1
  <2>3. QED
    BY <1>6, <2>1, <2>2
<1> DEFINE held == (h - t) % n
           PlaceOf(i) == (t + i - 1) % n
<1>11. held = down(h - t) /\ held \in 0..n - 1 /\ (held = 0 <=> h = t)
  BY <1>4
<1>12. \A i \in 1..n : PlaceOf(i) = up(t + i - 1)
  BY <1>5
<1> HIDE DEF held, PlaceOf
<1>13. PlaceOf(1) = t /\ PlaceOf(held + 1) = h
  BY <1>1, <1>7, <1>11, <1>12
<1>14. \A i \in 1..held : PlaceOf(i) \in 0..n - 1 /\ PlaceOf(i) # h
  BY <1>1, <1>8, <1>11, <1>12
<1>15. (h + 1) % n # t => (((h + 1) % n) - t) % n = held + 1
  BY <1>6, <1>9, <1>11
<1>16. h # t => (h - ((t + 1) % n)) % n = held - 1
  BY <1>10, <1>11
<1>17. QED
  BY <1>6, <1>11, <1>13, <1>14, <1>15, <1>16 DEF n, Places, held, PlaceOf,
     After, HeldFrom, Place

(* The places after the next one are those after this one, one further. *)
LEMMA PlacesAfter ==
  ASSUME NEW h \in Places, NEW t \in Places, h # t, NEW i \in 1..HeldFrom(h, t) - 1
  PROVE  Place(After(t), i) = Place(t, i + 1)
<1> DEFINE n == XmitSize
           up(x) == IF x < n THEN x ELSE x - n
<1>1. n \in Nat \ {0} /\ t \in 0..n - 1 /\ i \in 1..n - 2
  BY SerialAssumption, PlacesFrom DEF Places
<1> HIDE DEF n
<1>2. ASSUME NEW x \in 0..2 * n - 1 PROVE x % n = up(x)
  <2>1. x \in Int /\ (x \in 0..n - 1 \/ x \in n..2 * n - 1)
    BY <1>1
  <2>2. (x \in 0..n - 1 => x % n = x) /\ (x \in n..2 * n - 1 => x % n = x - n)
    BY <1>1, <2>1, Wraps
  <2>3. QED
    BY <1>1, <2>1, <2>2
<1>3. (t + 1) % n = up(t + 1) /\ up(t + 1) + i - 1 \in 0..2 * n - 1
      /\ t + (i + 1) - 1 \in 0..2 * n - 1
  BY <1>1, <1>2
<1>4. (up(t + 1) + i - 1) % n = up(up(t + 1) + i - 1)
      /\ (t + (i + 1) - 1) % n = up(t + (i + 1) - 1)
  BY <1>2, <1>3
<1>5. up(up(t + 1) + i - 1) = up(t + (i + 1) - 1)
  BY <1>1
<1>6. QED
  BY <1>3, <1>4, <1>5 DEF Place, After, n

-----------------------------------------------------------------------------
(* The inductive invariant. *)

PlaceType ==
  /\ task \in {"closed", "startup", "open", "failed", "shutdown", "leave", "gone", "start", "drain", "store"}
  /\ tpc \in {"idle", "feed", "arm", "tx", "read", "store"}

(* The terminal is there while the port is open.  From startup to shutdown *)
(* the timer is queued once, or its handler is about to queue it; before   *)
(* and after there is neither a queued timer nor a handler.                *)
TimerAgrees ==
  /\ tty <=> task \notin {"closed", "gone"}
  /\ task \in {"open", "start", "drain", "store", "shutdown"} =>
       timer = IF tpc \in {"feed", "arm"} THEN 0 ELSE 1
  /\ task \in {"closed", "startup", "failed", "leave", "gone"} => timer \in -1..0 /\ tpc = "idle"
  /\ task \in {"drain", "store"} => tpc = "idle"

(* What is owed lies in the buffer from the tail to the head, whoever is   *)
(* between its read of the tail and its store.                             *)
Held == HeldFrom(head, tail)
RingType == head \in Places /\ tail \in Places /\ buf \in [Places -> Nat] /\ written \in Nat
Content ==
  /\ owed \in Seq(Nat) /\ Len(owed) = Held
  /\ \A i \in 1..Held : owed[i] = buf[Place(tail, i)]

(* Who is going to store has read the tail, and there is something there.  *)
Storing ==
  /\ at \in [{"task", "timer"} -> Places]
  /\ task = "store" => at["task"] = tail /\ head # tail
  /\ tpc = "store" => at["timer"] = tail
  /\ tpc \in {"read", "store"} => head # tail
  /\ strays = 0

RingInv == RingType /\ Content /\ Storing
IInv == PlaceType /\ TimerAgrees /\ RingInv

-----------------------------------------------------------------------------
(* Every step leads from one place of the core and the handler to another. *)
LEMMA PlaceTypeStep ==
  ASSUME PlaceType, [Next]_vars
  PROVE  PlaceType'
BY DEF PlaceType, Next, Core, Task, Timer, Open, Startup, Close, Shutdown, Leave, Exit, Write, SendXchar,
   StopTty, FlushBuffer, Start, Drain, DrainStore, Expire, Feed, Arm, TxChars, TxRead, TxStore

(* The timer is queued by startup and by its handler, and taken from the   *)
(* queue by its expiry and by shutdown: no step queues it twice.           *)
LEMMA TimerStep ==
  ASSUME ~Smp, PlaceType, TimerAgrees, [Next]_vars
  PROVE  TimerAgrees'
<1> USE DEF PlaceType, TimerAgrees
<1>1. CASE Core
  BY <1>1 DEF Core, Open, Close, Exit, Write, SendXchar, StopTty, FlushBuffer, TaskAt
<1>2. CASE Task
  BY <1>2 DEF Task, Startup, Shutdown, Leave, Start, Drain, DrainStore, TaskAt, add_timer, None
<1>3. CASE Timer
  BY <1>3 DEF Timer, Expire, Feed, Arm, TxChars, TxRead, TxStore, Locked, add_timer, None
<1>4. CASE UNCHANGED vars
  BY <1>4
<1>5. QED
  BY <1>1, <1>2, <1>3, <1>4 DEF Next

(* An empty buffer holds nothing. *)
LEMMA ClearKeeps ==
  ASSUME RingType, Clear, UNCHANGED written
  PROVE  RingType' /\ Content'
<1>1. head' = 0 /\ tail' = 0 /\ owed' = <<>> /\ buf' = buf
  BY DEF Clear
<1>2. 0 \in Places
  BY SerialAssumption DEF Places
<1>3. Held' = 0
  BY <1>1, <1>2, PlacesFrom DEF Held
<1>4. QED
  BY <1>1, <1>2, <1>3 DEF RingType, Content

(* The character taken is the next one, and the rest is still there.       *)
LEMMA StoreKeeps ==
  ASSUME RingType, Content, NEW t \in {"task", "timer"}, at[t] = tail, head # tail, Store(t), UNCHANGED written
  PROVE  RingType' /\ Content' /\ UNCHANGED <<strays, at>>
<1> DEFINE next == After(tail)
<1>1. head \in Places /\ tail \in Places
  BY DEF RingType
<1>2. Held \in Places /\ Held # 0 /\ Place(tail, 1) = tail /\ next \in Places
  <2>1. next \in Places
    BY <1>1, PlacesFrom
  <2>2. QED
    BY <1>1, <2>1, PlacesFrom DEF Held
<1>3. Held \in Nat /\ Held >= 1
  BY <1>2, SerialAssumption DEF Places
<1>4. owed # <<>> /\ buf[tail] = Head(owed)
  BY <1>2, <1>3 DEF Content
<1>5. /\ tail' = next /\ owed' = Tail(owed)
      /\ UNCHANGED <<head, buf, at, strays>>
  BY <1>4 DEF Store, After
<1>6. RingType'
  BY <1>2, <1>5 DEF RingType
<1>7. Held' = Held - 1
  <2>1. Held' = HeldFrom(head, next)
    BY <1>5 DEF Held
  <2>2. HeldFrom(head, next) = Held - 1
    BY <1>1, PlacesFrom DEF Held
  <2>3. QED
    BY <2>1, <2>2
<1>8. owed' \in Seq(Nat) /\ Len(owed') = Held'
  BY <1>3, <1>4, <1>5, <1>7 DEF Content
<1>9. ASSUME NEW i \in 1..Held' PROVE owed'[i] = buf'[Place(tail', i)]
  <2>1. i \in 1..Held - 1 /\ i + 1 \in 1..Held /\ i \in 1..Len(owed')
    BY <1>3, <1>7, <1>8, <1>9
  <2>2. owed'[i] = owed[i + 1]
    BY <1>4, <1>5, <2>1 DEF Content
  <2>3. owed[i + 1] = buf[Place(tail, i + 1)]
    BY <2>1 DEF Content
  <2>4. Place(next, i) = Place(tail, i + 1)
    BY <1>1, <2>1, PlacesAfter DEF Held
  <2>5. QED
    BY <1>5, <2>2, <2>3, <2>4
<1>10. QED
  BY <1>5, <1>6, <1>8, <1>9 DEF Content

(* A character goes to the place after the last one, which none of the     *)
(* others has.                                                             *)
LEMMA WriteKeeps ==
  ASSUME RingType, Content, Write
  PROVE  RingType' /\ Content' /\ UNCHANGED <<tail, at, strays>>
<1>1. head \in Places /\ tail \in Places /\ written \in Nat
  BY DEF RingType
<1>2. /\ head' = After(head) /\ head' # tail /\ written' = written + 1
      /\ owed' = Append(owed, written') /\ buf' = [buf EXCEPT ![head] = written']
      /\ UNCHANGED <<tail, at, strays>>
  BY DEF Write, After
<1>3. /\ Held \in Places /\ head' \in Places
      /\ Place(tail, Held + 1) = head
      /\ \A i \in 1..Held : Place(tail, i) \in Places /\ Place(tail, i) # head
  BY <1>1, <1>2, PlacesFrom DEF Held
<1>4. Held' = Held + 1
  <2>1. Held' = HeldFrom(After(head), tail)
    BY <1>2 DEF Held
  <2>2. HeldFrom(After(head), tail) = Held + 1
    BY <1>1, <1>2, PlacesFrom DEF Held
  <2>3. QED
    BY <2>1, <2>2
<1>5. RingType'
  BY <1>1, <1>2, <1>3 DEF RingType
<1>6. Held \in Nat
  BY <1>3, SerialAssumption DEF Places
<1>7. owed' \in Seq(Nat) /\ Len(owed') = Held'
  BY <1>1, <1>2, <1>4, <1>6 DEF Content
<1>8. ASSUME NEW i \in 1..Held' PROVE owed'[i] = buf'[Place(tail', i)]
  <2>1. CASE i \in 1..Held
    <3>1. owed'[i] = owed[i]
      BY <1>1, <1>2, <1>6, <2>1 DEF Content
    <3>2. Place(tail, i) \in Places /\ Place(tail, i) # head
      BY <1>3, <2>1
    <3>3. buf'[Place(tail, i)] = buf[Place(tail, i)]
      BY <1>2, <3>2 DEF RingType
    <3>4. QED
      BY <1>2, <2>1, <3>1, <3>3 DEF Content
  <2>2. CASE i = Held + 1
    <3>1. owed'[i] = written'
      BY <1>1, <1>2, <1>6, <2>2 DEF Content
    <3>2. buf'[head] = written'
      BY <1>1, <1>2 DEF RingType
    <3>3. QED
      BY <1>2, <1>3, <2>2, <3>1, <3>2
  <2>3. QED
    BY <1>4, <1>6, <1>8, <2>1, <2>2
<1>9. QED
  BY <1>2, <1>5, <1>7, <1>8 DEF Content

(* A step that leaves the buffer alone. *)
LEMMA RingStays ==
  ASSUME RingType, Content, UNCHANGED <<head, tail, buf, owed, written>>
  PROVE  RingType' /\ Content'
<1>1. Held' = Held
  BY DEF Held
<1>2. QED
  BY <1>1 DEF RingType, Content

(* Every step keeps what is owed in the buffer, and the tail a thread has  *)
(* read the tail until it stores: the other cannot run in between.         *)
LEMMA RingStep ==
  ASSUME ~Smp, PlaceType, TimerAgrees, RingInv, [Next]_vars
  PROVE  RingInv'
<1> USE DEF PlaceType, TimerAgrees, RingInv, Storing
<1>1. CASE Startup \/ Leave \/ FlushBuffer
  <2>1. Clear /\ UNCHANGED written /\ tpc = "idle" /\ tpc' = "idle" /\ task' # "store"
    BY <1>1 DEF Startup, Leave, FlushBuffer, TaskAt
  <2>2. UNCHANGED <<at, strays>>
    BY <2>1 DEF Clear
  <2>3. QED
    BY <2>1, <2>2, ClearKeeps
<1>2. CASE Write
  <2>1. tpc' = "idle" /\ task' = "start"
    BY <1>2 DEF Write, TaskAt
  <2>2. QED
    BY <1>2, <2>1, WriteKeeps
<1>3. CASE DrainStore
  <2>1. task = "store" /\ task' = "drain" /\ tpc' = "idle" /\ Store("task") /\ UNCHANGED written
    BY <1>3 DEF DrainStore, TaskAt
  <2>2. QED
    BY <2>1, StoreKeeps
<1>4. CASE TxStore
  <2>1. /\ tpc = "store" /\ Store("timer") /\ UNCHANGED <<task, written>>
        /\ tpc' = "idle" \/ (tpc' = "read" /\ head # tail')
    BY <1>4 DEF TxStore
  <2>2. head' = head /\ task' # "store"
    BY <2>1 DEF Store
  <2>3. QED
    BY <2>1, <2>2, StoreKeeps
<1>5. CASE Drain
  <2>1. UNCHANGED <<head, tail, buf, owed, written, strays, tpc>> /\ tpc = "idle"
    BY <1>5 DEF Drain, Read, TaskAt
  <2>2. \/ task' = "open" /\ at' = at
        \/ task' = "store" /\ head # tail /\ at' = [at EXCEPT !["task"] = tail]
    BY <1>5 DEF Drain, Read, Empty
  <2>3. QED
    BY <2>1, <2>2, RingStays DEF RingType
<1>6. CASE TxRead
  <2>1. UNCHANGED <<head, tail, buf, owed, written, strays, task>> /\ tpc = "read" /\ tpc' = "store"
        /\ at' = [at EXCEPT !["timer"] = tail]
    BY <1>6 DEF TxRead, Read
  <2>2. QED
    BY <2>1, RingStays DEF RingType
<1>7. CASE Open \/ Close \/ Exit \/ SendXchar \/ StopTty \/ Shutdown \/ Start
  <2>1. UNCHANGED <<ring, written, tpc>> /\ task # "store" /\ task' # "store"
    BY <1>7 DEF Open, Close, Exit, SendXchar, StopTty, Shutdown, Start, TaskAt
  <2>2. QED
    BY <2>1, RingStays
<1>8. CASE Expire \/ Feed \/ Arm \/ TxChars
  <2>1. UNCHANGED <<ring, written, task>> /\ tpc' # "store" /\ (tpc' = "read" => head # tail)
    BY <1>8 DEF Expire, Feed, Arm, TxChars, Empty
  <2>2. QED
    BY <2>1, RingStays
<1>9. CASE UNCHANGED vars
  BY <1>9, RingStays
<1>10. QED
  BY <1>1, <1>2, <1>3, <1>4, <1>5, <1>6, <1>7, <1>8, <1>9 DEF Next, Core, Task, Timer

-----------------------------------------------------------------------------
(* The results. *)

(* The inductive invariant holds of every state on one processor.          *)
THEOREM Invariance == ~Smp => (Spec => []IInv)
<1> SUFFICES ASSUME ~Smp PROVE Spec => []IInv
  OBVIOUS
<1>1. Init => IInv
  <2> SUFFICES ASSUME Init PROVE IInv
    OBVIOUS
  <2>1. PlaceType /\ TimerAgrees
    BY DEF Init, PlaceType, TimerAgrees, None
  <2>2. 0 \in Places /\ HeldFrom(0, 0) = 0
    BY SerialAssumption, PlacesFrom DEF Places
  <2>3. RingType
    BY <2>2 DEF Init, RingType, Places
  <2>4. Content
    BY <2>2 DEF Init, Content, Held
  <2>5. Storing
    BY <2>2 DEF Init, Storing
  <2>6. QED
    BY <2>1, <2>3, <2>4, <2>5 DEF IInv, RingInv
<1>2. IInv /\ [Next]_vars => IInv'
  BY PlaceTypeStep, TimerStep, RingStep DEF IInv
<1>3. QED
  BY <1>1, <1>2, PTL DEF Spec

(* For every size of the buffer: whoever takes the output, the timer or    *)
(* start_tx, every character is taken once and in order, and the buffer    *)
(* holds what is still owed.                                               *)
THEOREM OutputInOrder == ~Smp => (Spec => []TakenInOrder)
<1> SUFFICES ASSUME ~Smp PROVE Spec => []TakenInOrder
  OBVIOUS
<1>1. IInv => TakenInOrder
  <2> SUFFICES ASSUME IInv PROVE TakenInOrder
    OBVIOUS
  <2>1. strays = 0 /\ owed \in Seq(Nat) /\ Len(owed) = Held
        /\ \A i \in 1..Held : owed[i] = buf[Place(tail, i)]
    BY DEF IInv, RingInv, Content, Storing
  <2>2. owed = [i \in 1..Held |-> buf[Place(tail, i)]]
    BY <2>1
  <2>3. QED
    BY <2>1, <2>2 DEF TakenInOrder, Held, HeldFrom, Place
<1>2. QED
  BY <1>1, Invariance, PTL

(* For every schedule of one processor the timer runs exactly while the    *)
(* port is started, and is never queued twice.                             *)
THEOREM TimerFollowsPort == ~Smp => (Spec => []TimerWhileOpen)
<1> SUFFICES ASSUME ~Smp PROVE Spec => []TimerWhileOpen
  OBVIOUS
<1>1. IInv => TimerWhileOpen
  BY DEF IInv, PlaceType, TimerAgrees, TimerWhileOpen
<1>2. QED
  BY <1>1, Invariance, PTL

=============================================================================
