---------------------------- MODULE TimersProofs ----------------------------
(***************************************************************************)
(* The clock arithmetic is right for every reading of the clock, every     *)
(* interval and every size of the units, although time_add_ms does not     *)
(* carry a sum of exactly one second.  And where the intervals fit         *)
(* together (IntervalsFit), broker and copy hear each other in time and    *)
(* give each other up in time, at every load up to Clients calls.          *)
(***************************************************************************)
EXTENDS Timers, FiniteSetTheorems, SequenceTheorems, TLAPS

(* Quotient and remainder of an interval by the second.                    *)
LEMMA Division ==
  ASSUME NEW ms \in Nat, NEW n \in Nat \ {0}
  PROVE  /\ ms \div n \in Nat /\ ms % n \in 0..(n - 1)
         /\ ms = n * (ms \div n) + (ms % n)
  OBVIOUS

LEMMA SecondPositive == SECOND \in Nat \ {0}
  BY UnitAssumption DEF SECOND

(* Multiplication by the length of a second is monotone.                   *)
LEMMA Monotone ==
  ASSUME NEW x \in Int, NEW y \in Int, NEW n \in Nat, x < y
  PROVE  x * n + n <= y * n
  <1>1. (y - x - 1) * n >= 0
    OBVIOUS
  <1>2. (y - x - 1) * n = y * n - (x * n + n)
    OBVIOUS
  <1> QED
    BY <1>1, <1>2

(* What a deadline looks like: tv_nsec may reach a full second.            *)
Deadline == [tv_sec: Nat, tv_nsec: 0..SECOND]

LEMMA DeadlineTotal ==
  ASSUME NEW t \in Reading, NEW ms \in Nat
  PROVE  /\ time_add_ms(t, ms) \in Deadline
         /\ Total(time_add_ms(t, ms)) = Total(t) + ms * NS
  <1> DEFINE q == ms \div MS
             r == ms % MS
             p == r * NS
             sec == t.tv_sec + q
             nsec == t.tv_nsec + p
  <1>1. q \in Nat /\ r \in 0..(MS - 1) /\ ms = MS * q + r
    BY Division, UnitAssumption
  <1>2. t.tv_sec \in Nat /\ t.tv_nsec \in 0..(SECOND - 1) /\ SECOND \in Nat \ {0}
    BY SecondPositive DEF Reading
  <1>3. p \in Nat /\ p <= SECOND
    <2>1. r \in Int /\ MS \in Int /\ NS \in Nat /\ r < MS
      BY <1>1, UnitAssumption
    <2>2. r * NS + NS <= MS * NS
      BY <2>1, Monotone
    <2>3. r * NS \in Nat
      BY <1>1, UnitAssumption
    <2> QED
      BY <2>1, <2>2, <2>3 DEF SECOND
  <1>4. ms * NS = q * SECOND + p
    <2>1. (MS * q + r) * NS = q * (MS * NS) + r * NS
      BY <1>1, UnitAssumption
    <2> QED
      BY <2>1, <1>1 DEF SECOND
  <1>5. time_add_ms(t, ms) =
          IF nsec > SECOND THEN [tv_sec |-> sec + 1, tv_nsec |-> nsec - SECOND]
                           ELSE [tv_sec |-> sec, tv_nsec |-> nsec]
    BY DEF time_add_ms
  <1>6. sec \in Nat /\ nsec \in Nat /\ nsec < 2 * SECOND
    BY <1>1, <1>2, <1>3
  <1>7. sec * SECOND = t.tv_sec * SECOND + q * SECOND
    BY <1>1, <1>2
  <1>8. (sec + 1) * SECOND = sec * SECOND + SECOND
    BY <1>2, <1>6
  <1>9. \A x \in Nat : x * SECOND \in Nat
    BY <1>2
  <1> HIDE DEF q, r, p, sec, nsec
  <1>10. time_add_ms(t, ms) \in Deadline
    BY <1>2, <1>5, <1>6 DEF Deadline
  <1>11. Total(time_add_ms(t, ms)) = sec * SECOND + nsec
    <2>1. CASE nsec > SECOND
      <3>1. Total(time_add_ms(t, ms)) = (sec + 1) * SECOND + (nsec - SECOND)
        BY <1>5, <2>1 DEF Total
      <3> QED
        BY <3>1, <1>2, <1>6, <1>8, <1>9
    <2>2. CASE ~(nsec > SECOND)
      BY <1>5, <2>2 DEF Total
    <2> QED
      BY <2>1, <2>2
  <1>12. Total(time_add_ms(t, ms)) = t.tv_sec * SECOND + q * SECOND + (t.tv_nsec + p)
    BY <1>7, <1>11 DEF nsec
  <1> QED
    BY <1>1, <1>2, <1>3, <1>4, <1>9, <1>10, <1>12 DEF Total

(* time_cmp agrees with the order of the moments, except that a deadline   *)
(* whose tv_nsec is a full second may have passed at its very moment.      *)
LEMMA Compare ==
  ASSUME NEW a \in Reading, NEW d \in Deadline
  PROVE  /\ Passed(a, d) => Total(d) <= Total(a)
         /\ ~Passed(a, d) => Total(a) <= Total(d)
         /\ time_cmp(a, d) >= 0 <=> Total(d) <= Total(a)
<1> DEFINE sa == a.tv_sec
           sd == d.tv_sec
           na == a.tv_nsec
           nd == d.tv_nsec
<1>1. /\ sa \in Nat /\ sd \in Nat /\ SECOND \in Nat \ {0}
      /\ na \in 0..(SECOND - 1) /\ nd \in 0..SECOND
  BY SecondPositive DEF Reading, Deadline
<1>2. Total(a) = sa * SECOND + na /\ Total(d) = sd * SECOND + nd
  BY DEF Total
<1>3. sa * SECOND \in Nat /\ sd * SECOND \in Nat
  BY <1>1
<1>4. /\ Passed(a, d) <=> sa > sd \/ (sa = sd /\ na > nd)
      /\ time_cmp(a, d) >= 0 <=> sa > sd \/ (sa = sd /\ na >= nd)
  BY <1>1 DEF Passed, time_cmp
<1>5. CASE sa > sd
  <2>1. sd * SECOND + SECOND <= sa * SECOND
    BY <1>1, <1>5, Monotone
  <2> QED
    BY <1>1, <1>2, <1>3, <1>4, <1>5, <2>1
<1>6. CASE sa < sd
  <2>1. sa * SECOND + SECOND <= sd * SECOND
    BY <1>1, <1>6, Monotone
  <2> QED
    BY <1>1, <1>2, <1>3, <1>4, <1>6, <2>1
<1>7. CASE sa = sd
  BY <1>1, <1>2, <1>3, <1>4, <1>7
<1> QED
  BY <1>1, <1>5, <1>6, <1>7

LEMMA Moments ==
  /\ \A a \in Reading : a \in Deadline /\ Total(a) \in Nat
  /\ \A d \in Deadline : Total(d) \in Nat
<1>1. SECOND \in Nat \ {0}
  BY SecondPositive
<1>2. \A x \in Nat : x * SECOND \in Nat
  BY <1>1
<1>3. ASSUME NEW d \in Deadline PROVE Total(d) \in Nat
  <2>1. d.tv_sec \in Nat /\ d.tv_nsec \in 0..SECOND
    BY DEF Deadline
  <2>2. d.tv_sec * SECOND \in Nat /\ d.tv_nsec \in Nat
    BY <1>1, <1>2, <2>1
  <2> QED
    BY <2>2 DEF Total
<1>4. \A a \in Reading : a \in Deadline
  BY <1>1 DEF Reading, Deadline
<1> QED
  BY <1>3, <1>4

(* A deadline is never seen early and never missed, for every reading of   *)
(* the clock and every interval: the sum of exactly one second that        *)
(* time_add_ms leaves uncarried is harmless.                               *)
THEOREM DeadlineSound ==
  ASSUME NEW t \in Reading, NEW ms \in Nat, NEW a \in Reading
  PROVE  DeadlineRight(t, ms, a)
  <1>1. /\ time_add_ms(t, ms) \in Deadline
        /\ Total(time_add_ms(t, ms)) = Total(t) + ms * NS
    BY DeadlineTotal
  <1>2. Total(a) \in Int /\ Total(t) + ms * NS \in Int
    BY <1>1, Moments
  <1> QED
    BY <1>1, <1>2, Compare DEF DeadlineRight

-----------------------------------------------------------------------------
(* The clock gives proper readings.                                        *)
ClockOK == now \in Reading

LEMMA ReadingInit == Init => ClockOK
  BY IntervalAssumption DEF Init, ClockOK

LEMMA ReadingStep == ClockOK /\ [Next]_vars => ClockOK'
  <1> SUFFICES ASSUME now \in Reading, [Next]_vars PROVE now' \in Reading
    BY DEF ClockOK
  <1>1. CASE Tick
    <2>1. /\ now.tv_sec \in Nat /\ now.tv_nsec \in 0..(SECOND - 1)
          /\ SECOND \in Nat \ {0} /\ NS \in Nat /\ NS <= SECOND
      <3>1. MS \in Nat /\ NS \in Nat /\ MS >= 1
        BY UnitAssumption
      <3>2. 0 * NS + NS <= MS * NS
        BY <3>1, Monotone
      <3> QED
        BY <3>1, <3>2, SecondPositive DEF Reading, SECOND
    <2>2. \/ now.tv_nsec + NS < SECOND /\ now' = [now EXCEPT !.tv_nsec = @ + NS]
          \/ /\ ~(now.tv_nsec + NS < SECOND)
             /\ now' = [tv_sec |-> now.tv_sec + 1, tv_nsec |-> now.tv_nsec + NS - SECOND]
      BY <1>1 DEF Tick
    <2> QED
      BY <2>1, <2>2 DEF Reading
  <1>2. CASE ~Tick
    BY <1>2 DEF Next, vars, GetRequest, HeartbeatTimeout, GetResponse, OthersAnswer,
                ReceiveRequest, TaskDone, PingTimeout, Die, BrokerDies
  <1> QED
    BY <1>1, <1>2

(* Every deadline of broker and copy is seen in time at every moment of    *)
(* every run, for every length of the intervals, units and load.           *)
THEOREM DeadlinesCorrect == Spec => []DeadlinesRight
  <1>1. ClockOK => DeadlinesRight
    <2> SUFFICES ASSUME now \in Reading, NEW ms \in Interval, NEW late \in {-1, 0, 1},
                        Total(now) - (ms + late) * NS >= Total(Start)
                 PROVE  DeadlineRight(At(Total(now) - (ms + late) * NS), ms, now)
      BY DEF DeadlinesRight, ClockOK
    <2> DEFINE set == Total(now) - (ms + late) * NS
    <2>1. ms \in Nat
      BY IntervalAssumption DEF Interval
    <2>2. /\ SECOND \in Nat \ {0} /\ now.tv_sec \in Nat /\ now.tv_nsec \in Nat
          /\ Start.tv_sec \in Nat /\ Start.tv_nsec \in Nat
      BY IntervalAssumption, SecondPositive DEF Reading
    <2>3. Total(now) \in Int /\ Total(Start) \in Nat
      BY <2>2 DEF Total
    <2>4. (ms + late) * NS \in Int
      BY <2>1, UnitAssumption
    <2>5. set \in Nat
      BY <2>3, <2>4
    <2> HIDE DEF set
    <2>6. set \div SECOND \in Nat /\ set % SECOND \in 0..(SECOND - 1)
      BY <2>2, <2>5, Division
    <2>7. At(set) \in Reading
      BY <2>6 DEF At, Reading
    <2>8. DeadlineRight(At(set), ms, now)
      BY <2>1, <2>7, DeadlineSound
    <2> QED
      BY <2>8 DEF set
  <1> QED
    BY <1>1, ReadingInit, ReadingStep, PTL DEF Spec

-----------------------------------------------------------------------------
(* The bounds that hold in real time *)

(* The intervals fit together: WCDPING covers what a ping may be late, and *)
(* a copy comes back from a request before its own timeout.                *)
IntervalsFit ==
  /\ POLL + 1 + DELAY < WCDPING
  /\ BUSY < HEARTBEAT_INTERVAL + WCDPING

(* The load fits: the copy gets through all calls and a ping before the    *)
(* next round.                                                             *)
LoadFits == 2 * DELAY + Clients * BUSY < HEARTBEAT_INTERVAL

(* Intervals in the unit of the clock.                                     *)
Ns(ms) == ms * NS
Work(n) == n * Ns(BUSY)
Round == Ns(HEARTBEAT_INTERVAL + POLL + 1)
Silence == Ns(HEARTBEAT_INTERVAL + WCDPING + 1)
Rounds(n) == n * Round
Silences(n) == n * Silence

Message == [heartbeat: BOOLEAN, sent: Int]
Server == [up: BOOLEAN, time_t: Deadline, ping_loss: 0..LIVENESS, busy: BOOLEAN,
           done: Deadline]

TimersTypeOK ==
  /\ now \in Reading /\ timeout \in Deadline /\ copy \in Server
  /\ broker_up \in BOOLEAN /\ new_pong \in BOOLEAN /\ lost_pong \in -1..LIVENESS
  /\ calls \in Int /\ quiet \in Int
  /\ inbox \in Seq(Message) /\ outbox \in Seq(Message)

(* Moments that are a whole number of milliseconds apart.                  *)
OnGrid(t) == \E j \in Int : t = Total(Start) + j * NS

Calls(q) == {x \in DOMAIN q : ~q[x].heartbeat}
NumCalls(q) == Cardinality(Calls(q))
HasPing(q) == \E x \in DOMAIN q : q[x].heartbeat
Empty(q) == q = <<>>
Oldest(q) == Head(q).sent

(* When the broker last sent something: with every message it puts its     *)
(* timeout off.                                                            *)
Last == Total(timeout) - Ns(HEARTBEAT_INTERVAL)

(* By then the copy has read everything and finished its work.             *)
Finished == Last + Ns(DELAY) + Work(Clients)

Clock ==
  /\ Last <= Total(now) /\ quiet <= Total(now)
  /\ broker_up => Total(now) <= Total(timeout) + Ns(POLL) + NS
  /\ ~broker_up => Last <= quiet
  /\ ~copy.up => broker_up /\ Empty(inbox)
  /\ OnGrid(Total(now)) /\ OnGrid(Total(copy.done))
  /\ Total(copy.time_t) <= Total(now) + Ns(HEARTBEAT_INTERVAL + WCDPING)

SentBy(q, t) == \A x \in DOMAIN q : q[x].sent <= t /\ OnGrid(q[x].sent)

Queues ==
  /\ SentBy(inbox, Last) /\ SentBy(outbox, Finished)
  /\ broker_up /\ ~Empty(outbox) => Total(now) <= Finished + Ns(DELAY)

(* The calls that wait are with the copy.                                  *)
Serving == IF copy.busy THEN 1 ELSE 0

Load ==
  /\ calls <= Clients
  /\ copy.up => NumCalls(inbox) + Serving + NumCalls(outbox) = calls

(* The copy gets through its work in time, for the broker and for its own  *)
(* timeout.                                                                *)
Busy ==
  copy.busy =>
    /\ Total(now) <= Total(copy.done) /\ Total(copy.done) <= Total(now) + Ns(BUSY)
    /\ Total(copy.done) + Work(NumCalls(inbox)) <= Finished
    /\ Total(copy.done) < Total(copy.time_t)

Idle ==
  ~copy.busy /\ ~Empty(inbox) =>
    /\ Total(now) + Work(NumCalls(inbox)) <= Finished
    /\ Total(now) < Total(copy.time_t)

(* The next message comes before the ping timeout.                         *)
Listening ==
  /\ ~Empty(inbox) => Oldest(inbox) + Ns(DELAY) < Total(copy.time_t)
  /\ Empty(inbox) => Total(timeout) + Ns(WCDPING) <= Total(copy.time_t)
  /\ copy.ping_loss < LIVENESS => Total(now) <= Total(copy.time_t) + NS

Loss == copy.ping_loss > 0 => ~broker_up /\ Empty(inbox) /\ ~copy.busy

Heard ==
  LoadFits /\ copy.up /\ broker_up =>
    lost_pong <= 0 /\ (lost_pong = 0 /\ ~new_pong => HasPing(inbox) \/ HasPing(outbox))

(* Rounds until the broker gives the copy up.                              *)
RoundsLeft ==
  IF new_pong \/ HasPing(outbox) THEN LIVENESS + 1 ELSE LIVENESS - lost_pong

Detection ==
  LoadFits /\ ~copy.up /\ RoundsLeft > 0 =>
    Total(timeout) <= quiet + Ns(HEARTBEAT_INTERVAL) + Rounds(LIVENESS + 1 - RoundsLeft)

GivingUp ==
  ~broker_up =>
    Total(copy.time_t) + NS
      <= quiet + Ns(DELAY) + Work(Clients) + Silences(copy.ping_loss + 1)

AtWork == copy.up => Busy /\ Idle /\ Listening

TimersInv ==
  /\ TimersTypeOK /\ Clock /\ Queues /\ Load /\ AtWork
  /\ Loss /\ Heard /\ Detection /\ GivingUp

-----------------------------------------------------------------------------
(* Arithmetic *)

LEMMA Multiples ==
  ASSUME NEW r \in Nat
  PROVE  /\ \A n \in Int : n * r \in Int /\ (n + 1) * r = n * r + r
         /\ \A n \in Nat : n * r \in Nat
         /\ 0 * r = 0 /\ 1 * r = r
         /\ \A m, n \in Int : m <= n => m * r <= n * r
<1>1. ASSUME NEW m \in Int, NEW n \in Int, m <= n PROVE m * r <= n * r
  <2>1. CASE m = n
    BY <2>1
  <2>2. CASE m < n
    <3>1. m * r + r <= n * r
      BY <2>2, Monotone
    <3> QED
      BY <3>1
  <2> QED
    BY <1>1, <2>1, <2>2
<1>2. \A n \in Int : n * r \in Int /\ (n + 1) * r = n * r + r
  OBVIOUS
<1>3. \A n \in Nat : n * r \in Nat
  OBVIOUS
<1>4. 0 * r = 0 /\ 1 * r = r
  OBVIOUS
<1> QED
  BY <1>1, <1>2, <1>3, <1>4

LEMMA Scale ==
  /\ NS \in Nat \ {0}
  /\ \A x \in Nat : Ns(x) \in Nat
  /\ \A x, y \in Nat : Ns(x + y) = Ns(x) + Ns(y) /\ (x < y => Ns(x) + NS <= Ns(y))
  /\ Ns(1) = NS
<1>1. NS \in Nat \ {0}
  BY UnitAssumption
<1>2. \A x \in Nat : x * NS \in Nat
  BY <1>1, Multiples
<1>3. \A x, y \in Nat : (x + y) * NS = x * NS + y * NS
  BY <1>1
<1>4. \A x, y \in Nat : x < y => x * NS + NS <= y * NS
  BY <1>1, Monotone
<1>5. 1 * NS = NS
  BY <1>1
<1> QED
  BY <1>1, <1>2, <1>3, <1>4, <1>5 DEF Ns

LEMMA Works ==
  /\ \A n \in Nat : Work(n) \in Nat /\ Work(n + 1) = Work(n) + Ns(BUSY)
  /\ Work(0) = 0
  /\ \A m, n \in Nat : m <= n => Work(m) <= Work(n)
<1>1. PICK r \in Nat : r = Ns(BUSY)
  BY Scale, IntervalAssumption
<1>2. /\ \A n \in Int : n * r \in Int /\ (n + 1) * r = n * r + r
      /\ \A n \in Nat : n * r \in Nat
      /\ 0 * r = 0
      /\ \A m, n \in Int : m <= n => m * r <= n * r
  BY <1>1, Multiples
<1>3. \A n : Work(n) = n * r
  BY <1>1 DEF Work
<1>4. \A n \in Nat : n \in Int /\ n + 1 \in Nat
  OBVIOUS
<1>5. \A n \in Nat : Work(n) \in Nat /\ Work(n + 1) = Work(n) + r
  BY <1>2, <1>3, <1>4
<1>6. \A m, n \in Nat : m <= n => Work(m) <= Work(n)
  BY <1>2, <1>3, <1>4
<1>7. Work(0) = 0
  BY <1>2, <1>3
<1> QED
  BY <1>1, <1>5, <1>6, <1>7

LEMMA Intervals ==
  /\ Ns(HEARTBEAT_INTERVAL) \in Nat /\ Ns(WCDPING) \in Nat /\ Ns(BUSY) \in Nat
  /\ Ns(POLL) \in Nat /\ Ns(DELAY) \in Nat /\ NS \in Nat \ {0}
  /\ Work(Clients) \in Nat /\ Clients \in Nat /\ LIVENESS \in 1..127
  /\ Ns(HEARTBEAT_INTERVAL + WCDPING) = Ns(HEARTBEAT_INTERVAL) + Ns(WCDPING)
  /\ Round \in Nat /\ Round = Ns(HEARTBEAT_INTERVAL) + Ns(POLL) + NS
  /\ Silence \in Nat /\ Silence = Ns(HEARTBEAT_INTERVAL) + Ns(WCDPING) + NS
  /\ HEARTBEAT_INTERVAL \in Nat /\ HEARTBEAT_INTERVAL + WCDPING \in Nat /\ BUSY \in Nat
<1>1. /\ HEARTBEAT_INTERVAL \in Nat /\ WCDPING \in Nat /\ BUSY \in Nat /\ POLL \in Nat
      /\ DELAY \in Nat /\ Clients \in Nat
  BY IntervalAssumption
<1>2. /\ HEARTBEAT_INTERVAL + WCDPING \in Nat /\ HEARTBEAT_INTERVAL + POLL \in Nat
  BY <1>1
<1>3. /\ Ns(HEARTBEAT_INTERVAL + WCDPING) = Ns(HEARTBEAT_INTERVAL) + Ns(WCDPING)
      /\ Ns(HEARTBEAT_INTERVAL + POLL) = Ns(HEARTBEAT_INTERVAL) + Ns(POLL)
      /\ Ns(HEARTBEAT_INTERVAL + POLL + 1) = Ns(HEARTBEAT_INTERVAL + POLL) + Ns(1)
      /\ Ns(HEARTBEAT_INTERVAL + WCDPING + 1) = Ns(HEARTBEAT_INTERVAL + WCDPING) + Ns(1)
  BY <1>1, <1>2, Scale
<1>4. LIVENESS \in 1..127
  BY IntervalAssumption
<1>5. /\ Ns(HEARTBEAT_INTERVAL) \in Nat /\ Ns(WCDPING) \in Nat /\ Ns(BUSY) \in Nat
      /\ Ns(POLL) \in Nat /\ Ns(DELAY) \in Nat /\ NS \in Nat \ {0} /\ Ns(1) = NS
  BY <1>1, Scale
<1>6. Work(Clients) \in Nat
  BY <1>1, Works
<1>7. /\ Round = Ns(HEARTBEAT_INTERVAL) + Ns(POLL) + NS
      /\ Silence = Ns(HEARTBEAT_INTERVAL) + Ns(WCDPING) + NS
  BY <1>3, <1>5 DEF Round, Silence
<1>8. Round \in Nat /\ Silence \in Nat
  BY <1>5, <1>7
<1> QED
  BY <1>1, <1>2, <1>3, <1>4, <1>5, <1>6, <1>7, <1>8

(* IntervalsFit in the unit of the clock.                                  *)
Fits ==
  /\ Ns(POLL) + NS + Ns(DELAY) < Ns(WCDPING)
  /\ Ns(BUSY) < Ns(HEARTBEAT_INTERVAL) + Ns(WCDPING)

LEMMA Fit == ASSUME IntervalsFit PROVE Fits
<1>1. /\ HEARTBEAT_INTERVAL \in Nat /\ WCDPING \in Nat /\ BUSY \in Nat /\ POLL \in Nat
      /\ DELAY \in Nat
  BY IntervalAssumption
<1>2. POLL + 1 \in Nat /\ POLL + 1 + DELAY \in Nat /\ POLL + 1 + DELAY < WCDPING
  BY <1>1 DEF IntervalsFit
<1>3. Ns(POLL + 1 + DELAY) = Ns(POLL) + Ns(1) + Ns(DELAY)
  BY <1>1, <1>2, Scale
<1>4. Ns(POLL + 1 + DELAY) + NS <= Ns(WCDPING)
  BY <1>1, <1>2, Scale
<1>5. Ns(BUSY) + NS <= Ns(HEARTBEAT_INTERVAL + WCDPING)
  BY <1>1, Intervals, Scale DEF IntervalsFit
<1>6. /\ Ns(HEARTBEAT_INTERVAL) \in Nat /\ Ns(WCDPING) \in Nat /\ Ns(BUSY) \in Nat
      /\ Ns(POLL) \in Nat /\ Ns(DELAY) \in Nat /\ NS \in Nat \ {0} /\ Ns(1) = NS
      /\ Ns(HEARTBEAT_INTERVAL + WCDPING) = Ns(HEARTBEAT_INTERVAL) + Ns(WCDPING)
  BY Intervals, Scale
<1> QED
  BY <1>3, <1>4, <1>5, <1>6 DEF Fits

LEMMA LoadFit ==
  ASSUME LoadFits
  PROVE  Ns(DELAY) + Ns(DELAY) + Work(Clients) < Ns(HEARTBEAT_INTERVAL)
<1>1. HEARTBEAT_INTERVAL \in Nat /\ BUSY \in Nat /\ DELAY \in Nat /\ Clients \in Nat
  BY IntervalAssumption
<1>2. PICK c \in Nat : c = Clients * BUSY
  BY <1>1
<1>3. Work(Clients) = Ns(c)
  <2>1. Clients * (BUSY * NS) = (Clients * BUSY) * NS
    BY <1>1, UnitAssumption
  <2> QED
    BY <1>2, <2>1 DEF Work, Ns
<1>4. /\ DELAY + DELAY + c < HEARTBEAT_INTERVAL
      /\ DELAY + DELAY \in Nat /\ DELAY + DELAY + c \in Nat
  BY <1>1, <1>2 DEF LoadFits
<1>5. Ns(DELAY + DELAY + c) = Ns(DELAY) + Ns(DELAY) + Ns(c)
  BY <1>1, <1>4, Scale
<1>6. Ns(DELAY + DELAY + c) + NS <= Ns(HEARTBEAT_INTERVAL)
  BY <1>1, <1>4, Scale
<1>7. /\ Ns(HEARTBEAT_INTERVAL) \in Nat /\ Ns(DELAY) \in Nat /\ NS \in Nat \ {0}
      /\ Ns(c) \in Nat
  BY <1>2, Intervals, Scale
<1> QED
  BY <1>3, <1>5, <1>6, <1>7

(* A deadline lies its interval ahead.                                     *)
LEMMA Ahead ==
  ASSUME NEW t \in Reading, NEW ms \in Nat
  PROVE  time_add_ms(t, ms) \in Deadline /\ Total(time_add_ms(t, ms)) = Total(t) + Ns(ms)
  BY DeadlineTotal DEF Ns

LEMMA Grid ==
  ASSUME NEW a \in Int, OnGrid(a)
  PROVE  /\ \A x \in Nat : OnGrid(a + Ns(x))
         /\ OnGrid(a + NS)
         /\ \A b \in Int : OnGrid(b) /\ b < a => b + NS <= a
<1>1. NS \in Nat \ {0} /\ NS \in Nat /\ Total(Start) \in Int
  BY UnitAssumption, IntervalAssumption, Moments
<1>2. PICK i \in Int : a = Total(Start) + i * NS
  BY DEF OnGrid
<1>3. ASSUME NEW x \in Nat PROVE OnGrid(a + Ns(x))
  <2>1. (i + x) * NS = i * NS + x * NS /\ i * NS \in Int /\ x * NS \in Int
    BY <1>1
  <2>2. a + Ns(x) = Total(Start) + (i + x) * NS
    BY <1>1, <1>2, <2>1 DEF Ns
  <2>3. i + x \in Int
    OBVIOUS
  <2> QED
    BY <2>2, <2>3 DEF OnGrid
<1>4. OnGrid(a + NS)
  BY <1>3, Scale
<1>5. ASSUME NEW b \in Int, OnGrid(b), b < a PROVE b + NS <= a
  <2>1. PICK j \in Int : b = Total(Start) + j * NS
    BY <1>5 DEF OnGrid
  <2>2. i * NS \in Int /\ j * NS \in Int
    BY <1>1
  <2>3. CASE i <= j
    <3>1. i * NS <= j * NS
      BY <1>1, <2>3, Multiples
    <3> QED
      BY <1>1, <1>2, <1>5, <2>1, <2>2, <3>1
  <2>4. CASE j < i
    <3>1. j * NS + NS <= i * NS
      BY <1>1, <2>4, Monotone
    <3> QED
      BY <1>1, <1>2, <2>1, <2>2, <3>1
  <2> QED
    BY <2>3, <2>4
<1> QED
  BY <1>3, <1>4, <1>5

(* Tick moves the clock by one millisecond.                                *)
LEMMA OneTick ==
  ASSUME now \in Reading, Tick
  PROVE  now' \in Reading /\ Total(now') = Total(now) + NS
<1>1. /\ now.tv_sec \in Nat /\ now.tv_nsec \in 0..(SECOND - 1)
      /\ SECOND \in Nat \ {0} /\ NS \in Nat
  BY SecondPositive, UnitAssumption DEF Reading
<1>2. now' \in Reading
  BY ReadingStep DEF ClockOK, Next
<1>3. /\ now.tv_sec * SECOND \in Nat
      /\ (now.tv_sec + 1) * SECOND = now.tv_sec * SECOND + SECOND
  BY <1>1
<1>4. CASE now.tv_nsec + NS < SECOND
  <2>1. now' = [now EXCEPT !.tv_nsec = @ + NS]
    BY <1>4 DEF Tick
  <2>2. now'.tv_sec = now.tv_sec /\ now'.tv_nsec = now.tv_nsec + NS
    BY <2>1 DEF Reading
  <2> QED
    BY <1>1, <1>2, <1>3, <2>2 DEF Total
<1>5. CASE ~(now.tv_nsec + NS < SECOND)
  <2>1. now' = [tv_sec |-> now.tv_sec + 1, tv_nsec |-> now.tv_nsec + NS - SECOND]
    BY <1>5 DEF Tick
  <2>2. now'.tv_sec = now.tv_sec + 1 /\ now'.tv_nsec = now.tv_nsec + NS - SECOND
    BY <2>1
  <2> QED
    BY <1>1, <1>2, <1>3, <2>2 DEF Total
<1> QED
  BY <1>4, <1>5

-----------------------------------------------------------------------------
(* Queues *)

(* What a message adds to the calls of a queue.                            *)
Asks(m) == IF m.heartbeat THEN 0 ELSE 1

LEMMA Counting ==
  ASSUME NEW q \in Seq(Message)
  PROVE  /\ DOMAIN q = 1..Len(q) /\ Len(q) \in Nat
         /\ \A x \in DOMAIN q : q[x] \in Message
         /\ IsFiniteSet(Calls(q)) /\ NumCalls(q) \in Nat
<1>1. DOMAIN q = 1..Len(q) /\ Len(q) \in Nat
  BY LenProperties
<1>2. \A x \in DOMAIN q : q[x] \in Message
  BY <1>1, ElementOfSeq
<1>3. IsFiniteSet(1..Len(q)) /\ Calls(q) \in SUBSET (1..Len(q))
  BY <1>1, FS_Interval DEF Calls
<1>4. IsFiniteSet(Calls(q))
  BY <1>3, FS_Subset
<1> QED
  BY <1>1, <1>2, <1>4, FS_CardinalityType DEF NumCalls

LEMMA NoMessage ==
  /\ <<>> \in Seq(Message) /\ Empty(<<>>)
  /\ NumCalls(<<>>) = 0 /\ ~HasPing(<<>>) /\ \A t : SentBy(<<>>, t)
<1>1. Calls(<<>>) = {}
  BY DEF Calls
<1> QED
  BY <1>1, FS_EmptySet DEF NumCalls, HasPing, SentBy, Empty

LEMMA SentLater ==
  ASSUME NEW q \in Seq(Message), NEW t \in Int, NEW u \in Int, t <= u, SentBy(q, t)
  PROVE  SentBy(q, u)
<1> SUFFICES ASSUME NEW x \in DOMAIN q PROVE q[x].sent <= u /\ OnGrid(q[x].sent)
  BY DEF SentBy
<1>1. q[x] \in Message
  BY Counting
<1>2. q[x].sent \in Int /\ q[x].sent <= t /\ OnGrid(q[x].sent)
  BY <1>1 DEF Message, SentBy
<1> QED
  BY <1>2

LEMMA AppendMessage ==
  ASSUME NEW q \in Seq(Message), NEW m \in Message
  PROVE  /\ Append(q, m) \in Seq(Message)
         /\ NumCalls(Append(q, m)) = NumCalls(q) + Asks(m)
         /\ HasPing(Append(q, m)) <=> HasPing(q) \/ m.heartbeat
         /\ \A t : SentBy(q, t) /\ m.sent <= t /\ OnGrid(m.sent) => SentBy(Append(q, m), t)
         /\ ~Empty(Append(q, m))
         /\ Oldest(Append(q, m)) = IF Empty(q) THEN m.sent ELSE Oldest(q)
<1> DEFINE p == Append(q, m)
           n == Len(q) + 1
<1>1. p \in Seq(Message) /\ p # <<>> /\ Head(p) = IF q = <<>> THEN m ELSE Head(q)
  BY AppendProperties, HeadTailAppend
<1>2. /\ DOMAIN q = 1..Len(q) /\ Len(q) \in Nat /\ DOMAIN p = 1..n
      /\ \A x \in DOMAIN q : p[x] = q[x]
      /\ p[n] = m
  BY <1>1, AppendProperties, LenProperties
<1>3. n \notin DOMAIN q /\ DOMAIN p = DOMAIN q \cup {n}
  BY <1>2
<1> HIDE DEF p, n
<1>4. NumCalls(p) = NumCalls(q) + Asks(m)
  <2>1. IsFiniteSet(Calls(q)) /\ NumCalls(q) \in Nat
    BY Counting
  <2>2. CASE m.heartbeat
    <3>1. Calls(p) = Calls(q)
      BY <1>2, <1>3, <2>2 DEF Calls
    <3> QED
      BY <2>1, <2>2, <3>1 DEF NumCalls, Asks
  <2>3. CASE ~m.heartbeat
    <3>1. Calls(p) = Calls(q) \cup {n}
      BY <1>2, <1>3, <2>3 DEF Calls
    <3>2. n \notin Calls(q)
      BY <1>3 DEF Calls
    <3>3. Cardinality(Calls(q) \cup {n}) = Cardinality(Calls(q)) + 1
      BY <2>1, <3>2, FS_AddElement
    <3> QED
      BY <2>3, <3>1, <3>3 DEF NumCalls, Asks
  <2> QED
    BY <2>2, <2>3
<1>5. HasPing(p) <=> HasPing(q) \/ m.heartbeat
  BY <1>2, <1>3 DEF HasPing
<1>6. \A t : SentBy(q, t) /\ m.sent <= t /\ OnGrid(m.sent) => SentBy(p, t)
  BY <1>2, <1>3 DEF SentBy
<1>7. ~Empty(p) /\ Oldest(p) = IF Empty(q) THEN m.sent ELSE Oldest(q)
  BY <1>1 DEF Empty, Oldest
<1> QED
  BY <1>1, <1>4, <1>5, <1>6, <1>7 DEF p

LEMMA TailMessage ==
  ASSUME NEW q \in Seq(Message), ~Empty(q)
  PROVE  /\ Tail(q) \in Seq(Message) /\ Head(q) \in Message
         /\ NumCalls(q) = NumCalls(Tail(q)) + Asks(Head(q))
         /\ HasPing(q) <=> HasPing(Tail(q)) \/ Head(q).heartbeat
         /\ \A t : SentBy(q, t) =>
                     SentBy(Tail(q), t) /\ Head(q).sent <= t /\ OnGrid(Head(q).sent)
         /\ Oldest(q) = Head(q).sent
<1> DEFINE p == Tail(q)
           h == Head(q)
<1>1. /\ p \in Seq(Message) /\ h \in Message /\ Len(p) = Len(q) - 1
      /\ \A x \in 1..Len(p) : p[x] = q[x + 1]
  BY HeadTailProperties DEF Empty
<1>2. /\ DOMAIN q = 1..Len(q) /\ Len(q) \in Nat /\ Len(q) > 0
      /\ DOMAIN p = 1..(Len(q) - 1)
      /\ h = q[1]
  BY <1>1, LenProperties, EmptySeq DEF Empty
<1>3. /\ \A x \in DOMAIN p : x + 1 \in DOMAIN q /\ p[x] = q[x + 1] /\ x \in Nat
      /\ \A y \in DOMAIN q : y = 1 \/ (y - 1 \in DOMAIN p /\ q[y] = p[y - 1])
      /\ 1 \in DOMAIN q
  <2>1. \A x \in DOMAIN p : x + 1 \in DOMAIN q /\ p[x] = q[x + 1] /\ x \in Nat
    BY <1>1, <1>2
  <2>2. ASSUME NEW y \in DOMAIN q, y # 1 PROVE y - 1 \in DOMAIN p /\ q[y] = p[y - 1]
    <3>1. y \in Nat /\ y - 1 \in DOMAIN p /\ (y - 1) + 1 = y
      BY <1>2, <2>2
    <3> QED
      BY <2>1, <3>1
  <2> QED
    BY <1>2, <2>1, <2>2
<1> HIDE DEF p, h
<1>4. NumCalls(q) = NumCalls(p) + Asks(h)
  <2> DEFINE C == Calls(q) \ {1}
             D == Calls(p)
             up == [x \in D |-> x + 1]
             dn == [y \in C |-> y - 1]
  <2>1. IsFiniteSet(Calls(q)) /\ IsFiniteSet(D) /\ NumCalls(q) \in Nat /\ NumCalls(p) \in Nat
    BY <1>1, Counting
  <2>2. IsFiniteSet(C) /\ Cardinality(C) \in Nat
    BY <2>1, FS_RemoveElement, FS_CardinalityType
  <2>3. D \subseteq Nat /\ C \subseteq Nat
    BY <1>2, <1>3 DEF Calls
  <2>4. ASSUME NEW x \in D PROVE x + 1 \in C
    <3>1. x \in DOMAIN p /\ ~p[x].heartbeat
      BY DEF Calls
    <3>2. x + 1 \in DOMAIN q /\ ~q[x + 1].heartbeat /\ x + 1 # 1
      BY <1>2, <1>3, <3>1
    <3> QED
      BY <3>2 DEF Calls
  <2>5. ASSUME NEW y \in C PROVE y - 1 \in D
    <3>1. y \in DOMAIN q /\ ~q[y].heartbeat /\ y # 1
      BY DEF Calls
    <3> QED
      BY <1>3, <3>1 DEF Calls
  <2>6. ~(Cardinality(C) < Cardinality(D))
    <3> SUFFICES ASSUME Cardinality(C) < Cardinality(D) PROVE FALSE
      OBVIOUS
    <3>1. up \in [D -> C]
      BY <2>4
    <3> HIDE DEF C, D, up
    <3>2. PICK x \in D, y \in D : x # y /\ up[x] = up[y]
      BY <2>1, <2>2, <3>1, FS_PigeonHole
    <3> QED
      BY <2>3, <3>2 DEF up
  <2>7. ~(Cardinality(D) < Cardinality(C))
    <3> SUFFICES ASSUME Cardinality(D) < Cardinality(C) PROVE FALSE
      OBVIOUS
    <3>1. dn \in [C -> D]
      BY <2>5
    <3> HIDE DEF C, D, dn
    <3>2. PICK x \in C, y \in C : x # y /\ dn[x] = dn[y]
      BY <2>1, <2>2, <3>1, FS_PigeonHole
    <3> QED
      BY <2>3, <3>2 DEF dn
  <2>8. Cardinality(C) = NumCalls(p)
    BY <2>1, <2>2, <2>6, <2>7 DEF NumCalls
  <2>9. Cardinality(C) = IF 1 \in Calls(q) THEN NumCalls(q) - 1 ELSE NumCalls(q)
    BY <2>1, FS_RemoveElement DEF NumCalls
  <2>10. 1 \in Calls(q) <=> ~h.heartbeat
    BY <1>2, <1>3 DEF Calls
  <2> HIDE DEF C
  <2> QED
    BY <2>1, <2>8, <2>9, <2>10 DEF Asks
<1>5. HasPing(q) <=> HasPing(p) \/ h.heartbeat
  BY <1>2, <1>3 DEF HasPing
<1>6. \A t : SentBy(q, t) => SentBy(p, t) /\ h.sent <= t /\ OnGrid(h.sent)
  BY <1>2, <1>3 DEF SentBy
<1>7. Oldest(q) = h.sent
  BY DEF Oldest, h
<1> QED
  BY <1>1, <1>4, <1>5, <1>6, <1>7 DEF p, h

LEMMA OldestSent ==
  ASSUME NEW q \in Seq(Message), ~Empty(q), NEW t, SentBy(q, t)
  PROVE  Oldest(q) \in Int /\ Oldest(q) <= t /\ OnGrid(Oldest(q))
<1>1. Head(q) \in Message /\ Oldest(q) = Head(q).sent
  BY TailMessage
<1>2. Head(q).sent <= t /\ OnGrid(Head(q).sent)
  BY TailMessage
<1> QED
  BY <1>1, <1>2 DEF Message

-----------------------------------------------------------------------------
(* The invariant *)

(* The numbers of a state.                                                 *)
Numeric ==
  /\ Total(now) \in Int /\ Total(timeout) \in Int
  /\ Total(copy.time_t) \in Int /\ Total(copy.done) \in Int
  /\ quiet \in Int /\ calls \in Int /\ lost_pong \in -1..LIVENESS
  /\ copy.ping_loss \in 0..LIVENESS
  /\ Last \in Int /\ Last = Total(timeout) - Ns(HEARTBEAT_INTERVAL)
  /\ Finished \in Int /\ Finished = Last + Ns(DELAY) + Work(Clients)
  /\ NumCalls(inbox) \in Nat /\ NumCalls(outbox) \in Nat
  /\ Work(NumCalls(inbox)) \in Nat
  /\ ~Empty(inbox) => Oldest(inbox) \in Int
  /\ ~Empty(outbox) => Oldest(outbox) \in Int
  /\ RoundsLeft \in Int /\ RoundsLeft <= LIVENESS + 1

LEMMA Numbers == ASSUME TimersTypeOK PROVE Numeric
<1>1. copy \in Server /\ now \in Reading /\ timeout \in Deadline
  BY DEF TimersTypeOK
<1>2. /\ copy.ping_loss \in 0..LIVENESS /\ copy.up \in BOOLEAN /\ copy.busy \in BOOLEAN
      /\ copy.time_t \in Deadline /\ copy.done \in Deadline
  BY <1>1 DEF Server
<1>3. /\ Total(now) \in Int /\ Total(timeout) \in Int
      /\ Total(copy.time_t) \in Int /\ Total(copy.done) \in Int
  BY <1>1, <1>2, Moments
<1>4. Last \in Int /\ Last = Total(timeout) - Ns(HEARTBEAT_INTERVAL)
  BY <1>3, Intervals DEF Last
<1>5. Finished \in Int /\ Finished = Last + Ns(DELAY) + Work(Clients)
  BY <1>4, Intervals DEF Finished
<1>6. NumCalls(inbox) \in Nat /\ NumCalls(outbox) \in Nat
  BY Counting DEF TimersTypeOK
<1>7. Work(NumCalls(inbox)) \in Nat
  BY <1>6, Works
<1>8. /\ ~Empty(inbox) => Oldest(inbox) \in Int
      /\ ~Empty(outbox) => Oldest(outbox) \in Int
  <2>1. /\ ~Empty(inbox) => Head(inbox) \in Message
        /\ ~Empty(outbox) => Head(outbox) \in Message
    BY TailMessage DEF TimersTypeOK
  <2> QED
    BY <2>1 DEF Message, Oldest
<1>9. quiet \in Int /\ calls \in Int /\ lost_pong \in -1..LIVENESS
  BY DEF TimersTypeOK
<1>10. RoundsLeft \in Int /\ RoundsLeft <= LIVENESS + 1
  <2>1. RoundsLeft = LIVENESS + 1 \/ RoundsLeft = LIVENESS - lost_pong
    BY DEF RoundsLeft
  <2> QED
    BY <1>9, <2>1, Intervals
<1> QED
  BY <1>2, <1>3, <1>4, <1>5, <1>6, <1>7, <1>8, <1>9, <1>10 DEF Numeric

LEMMA NumbersNext == TimersTypeOK' => Numeric'
<1>1. TimersTypeOK => Numeric
  BY Numbers
<1> QED
  BY <1>1, PTL

(* A message that is sent now.                                             *)
LEMMA SentNow ==
  ASSUME now \in Reading, NEW b \in BOOLEAN
  PROVE  /\ Sent(b) \in Message /\ Sent(b).sent = Total(now) /\ Sent(b).heartbeat = b
         /\ Asks(Sent(b)) = IF b THEN 0 ELSE 1
<1>1. Total(now) \in Int
  BY Moments
<1> QED
  BY <1>1 DEF Sent, Message, Asks

(* Nothing is under way any more when the heartbeat timeout has passed.    *)
LEMMA RoundOver ==
  ASSUME TimersInv, LoadFits, broker_up, Passed(now, timeout)
  PROVE  Empty(outbox) /\ (copy.up => Empty(inbox) /\ ~copy.busy)
<1>1. TimersTypeOK /\ now \in Reading /\ timeout \in Deadline
  BY DEF TimersInv, TimersTypeOK
<1>2. Numeric
  BY <1>1, Numbers
<1>3. Total(timeout) <= Total(now)
  BY <1>1, Compare
<1>4. Ns(DELAY) + Ns(DELAY) + Work(Clients) < Ns(HEARTBEAT_INTERVAL)
  BY LoadFit
<1>5. Finished + Ns(DELAY) < Total(timeout)
  BY <1>2, <1>4, Intervals DEF Numeric
<1>6. Empty(outbox)
  BY <1>2, <1>3, <1>5, Intervals DEF Numeric, TimersInv, Queues
<1>7. ASSUME copy.up PROVE ~copy.busy
  BY <1>2, <1>3, <1>5, <1>7, Intervals DEF Numeric, TimersInv, AtWork, Busy
<1>8. ASSUME copy.up PROVE Empty(inbox)
  BY <1>2, <1>3, <1>5, <1>7, <1>8, Intervals DEF Numeric, TimersInv, AtWork, Idle
<1> QED
  BY <1>6, <1>7, <1>8

(* The copy is told something before its timeout, while the broker lives.  *)
LEMMA InTime ==
  ASSUME TimersInv, Fits, broker_up, copy.up, Empty(inbox)
  PROVE  Total(now) + Ns(DELAY) < Total(copy.time_t)
<1>1. Numeric
  BY Numbers DEF TimersInv
<1>2. Total(now) <= Total(timeout) + Ns(POLL) + NS
  BY DEF TimersInv, Clock
<1>3. Total(timeout) + Ns(WCDPING) <= Total(copy.time_t)
  BY DEF TimersInv, AtWork, Listening
<1> QED
  BY <1>1, <1>2, <1>3, Intervals DEF Numeric, Fits

LEMMA Parts ==
  ASSUME TimersInv
  PROVE  /\ TimersTypeOK /\ Clock /\ Queues /\ Load /\ AtWork
         /\ Loss /\ Heard /\ Detection /\ GivingUp /\ Numeric
  BY Numbers DEF TimersInv

LEMMA Counts ==
  /\ \A n \in Int : Rounds(n) \in Int /\ Rounds(n + 1) = Rounds(n) + Round
  /\ \A n \in Nat : Rounds(n) \in Nat
  /\ \A n \in Int : Silences(n) \in Int /\ Silences(n + 1) = Silences(n) + Silence
  /\ \A n \in Nat : Silences(n) \in Nat
  /\ Rounds(0) = 0 /\ Silences(1) = Silence
  /\ \A m, n \in Int : m <= n => Rounds(m) <= Rounds(n) /\ Silences(m) <= Silences(n)
<1>1. PICK r \in Nat : r = Round
  BY Intervals
<1>2. PICK s \in Nat : s = Silence
  BY Intervals
<1>3. \A n : Rounds(n) = n * r /\ Silences(n) = n * s
  BY <1>1, <1>2 DEF Rounds, Silences
<1>4. /\ \A n \in Int : n * r \in Int /\ (n + 1) * r = n * r + r
      /\ \A n \in Nat : n * r \in Nat
      /\ 0 * r = 0
      /\ \A m, n \in Int : m <= n => m * r <= n * r
  BY Multiples
<1>5. /\ \A n \in Int : n * s \in Int /\ (n + 1) * s = n * s + s
      /\ \A n \in Nat : n * s \in Nat
      /\ 1 * s = s
      /\ \A m, n \in Int : m <= n => m * s <= n * s
  BY Multiples
<1>6. \A n \in Int : n + 1 \in Int
  OBVIOUS
<1> HIDE <1>1, <1>2
<1>7. /\ \A n \in Int : Rounds(n) \in Int /\ Rounds(n + 1) = Rounds(n) + r
      /\ \A n \in Nat : Rounds(n) \in Nat
      /\ Rounds(0) = 0
      /\ \A m, n \in Int : m <= n => Rounds(m) <= Rounds(n)
  BY <1>3, <1>4, <1>6
<1>8. /\ \A n \in Int : Silences(n) \in Int /\ Silences(n + 1) = Silences(n) + s
      /\ \A n \in Nat : Silences(n) \in Nat
      /\ Silences(1) = s
      /\ \A m, n \in Int : m <= n => Silences(m) <= Silences(n)
  BY <1>3, <1>5, <1>6
<1> QED
  BY <1>1, <1>2, <1>7, <1>8

LEMMA Remaining ==
  ASSUME NEW n \in Int, n <= LIVENESS + 1
  PROVE  LIVENESS + 1 - n \in Nat /\ Rounds(LIVENESS + 1 - n) \in Nat
<1>1. LIVENESS + 1 - n \in Nat
  BY Intervals
<1> QED
  BY <1>1, Counts

(* get_request puts the heartbeat off, so that the copy has served the     *)
(* call before the next one.                                               *)
LEMMA GetRequestStep ==
  ASSUME TimersInv, Fits, GetRequest
  PROVE  TimersInv'
<1>1. /\ TimersTypeOK /\ Clock /\ Queues /\ Load /\ AtWork
      /\ Loss /\ Heard /\ Detection /\ GivingUp /\ Numeric
  BY Parts
<1>2. /\ broker_up /\ calls < Clients /\ calls' = calls + 1 /\ quiet' = Total(now)
      /\ now' = now /\ broker_up' = broker_up /\ new_pong' = new_pong
      /\ lost_pong' = lost_pong /\ copy' = copy /\ outbox' = outbox
      /\ timeout' = time_add_ms(now, HEARTBEAT_INTERVAL)
  BY DEF GetRequest, HeartbeatDeadline
<1>3. now \in Reading /\ inbox \in Seq(Message) /\ outbox \in Seq(Message)
  BY <1>1 DEF TimersTypeOK
<1>4. timeout' \in Deadline /\ Total(timeout') = Total(now) + Ns(HEARTBEAT_INTERVAL)
  BY <1>2, <1>3, Ahead, Intervals
<1>5. /\ Sent(FALSE) \in Message /\ Sent(FALSE).sent = Total(now)
      /\ Asks(Sent(FALSE)) = 1
  BY <1>3, SentNow
<1>6. /\ ~copy.up => inbox' = inbox
      /\ copy.up => inbox' = Append(inbox, Sent(FALSE))
  BY DEF GetRequest, ToCopy
<1>7. SentBy(inbox, Total(now)) /\ SentBy(outbox, Finished')
  <2>1. Last <= Total(now) /\ Last \in Int /\ Total(now) \in Int
    BY <1>1 DEF Clock, Numeric
  <2>2. Finished' = Total(now) + Ns(DELAY) + Work(Clients)
    BY <1>1, <1>4, Intervals DEF Finished, Last, Numeric
  <2>3. Finished \in Int /\ Finished' \in Int /\ Finished <= Finished'
    BY <1>1, <2>1, <2>2, Intervals DEF Numeric
  <2> QED
    BY <1>1, <1>3, <2>1, <2>3, SentLater DEF Queues
<1>8. /\ inbox' \in Seq(Message) /\ SentBy(inbox', Total(now))
      /\ HasPing(inbox) => HasPing(inbox')
  <2>1. OnGrid(Total(now)) /\ Total(now) <= Total(now)
    BY <1>1 DEF Clock, Numeric
  <2>2. CASE copy.up
    BY <1>3, <1>5, <1>6, <1>7, <2>1, <2>2, AppendMessage
  <2>3. CASE ~copy.up
    BY <1>3, <1>6, <1>7, <2>3
  <2> QED
    BY <2>2, <2>3
<1>9. copy.up => /\ ~Empty(inbox') /\ NumCalls(inbox') = NumCalls(inbox) + 1
                 /\ Oldest(inbox') = IF Empty(inbox) THEN Total(now) ELSE Oldest(inbox)
  BY <1>3, <1>5, <1>6, AppendMessage
<1> HIDE <1>6
<1>10. TimersTypeOK'
  BY <1>1, <1>2, <1>4, <1>8 DEF TimersTypeOK, Numeric
<1>11. Numeric'
  BY <1>10, NumbersNext
<1>12. Last' = Total(now) /\ Total(now') = Total(now)
  BY <1>1, <1>2, <1>4, Intervals DEF Last, Numeric
<1>13. Clock'
  <2>1. ~copy.up => Empty(inbox')
    BY <1>1, <1>6 DEF Clock
  <2> QED
    BY <1>1, <1>2, <1>4, <1>11, <1>12, <2>1, Intervals DEF Clock, Numeric
<1>14. Queues'
  <2>1. Total(now) <= Finished' + Ns(DELAY)
    BY <1>1, <1>11, <1>12, Intervals DEF Numeric
  <2> QED
    BY <1>2, <1>7, <1>8, <1>12, <2>1 DEF Queues
<1>15. Load'
  BY <1>1, <1>2, <1>9, <1>11, Intervals DEF Load, Serving, Numeric
<1>16. AtWork'
  <2> SUFFICES ASSUME copy.up PROVE Busy' /\ Idle' /\ Listening'
    BY <1>2 DEF AtWork
  <2>1. Busy /\ Idle /\ Listening
    BY <1>1 DEF AtWork
  <2>2. Busy'
    <3> SUFFICES ASSUME copy.busy
                 PROVE  Total(copy.done) + Work(NumCalls(inbox')) <= Finished'
      BY <1>2, <2>1 DEF Busy
    <3>1. NumCalls(inbox') + 1 <= Clients
      BY <1>1, <1>2, <1>9, <1>11, Intervals DEF Load, Serving, Numeric
    <3>2. /\ Work(NumCalls(inbox') + 1) = Work(NumCalls(inbox')) + Ns(BUSY)
          /\ Work(NumCalls(inbox') + 1) <= Work(Clients)
      BY <1>11, <3>1, Works, Intervals DEF Numeric
    <3> QED
      BY <1>1, <1>11, <1>12, <2>1, <3>2, Intervals DEF Busy, Numeric
  <2>3. Idle'
    <3>1. NumCalls(inbox') <= Clients
      BY <1>1, <1>2, <1>9, <1>11, Intervals DEF Load, Serving, Numeric
    <3>2. Work(NumCalls(inbox')) <= Work(Clients)
      BY <1>11, <3>1, Works, Intervals DEF Numeric
    <3>3. ~copy.busy => Total(now) < Total(copy.time_t)
      BY <1>1, <1>2, <2>1, InTime, Intervals DEF Idle, Numeric
    <3> QED
      BY <1>1, <1>2, <1>11, <1>12, <3>2, <3>3, Intervals DEF Idle, Numeric
  <2>4. Listening'
    <3>1. Empty(inbox) => Total(now) + Ns(DELAY) < Total(copy.time_t)
      BY <1>2, InTime
    <3> QED
      BY <1>2, <1>9, <2>1, <3>1 DEF Listening
  <2> QED
    BY <2>2, <2>3, <2>4
<1>17. Loss'
  BY <1>1, <1>2 DEF Loss
<1>18. Heard'
  BY <1>1, <1>2, <1>8 DEF Heard
<1>19. Detection'
  <2>1. Rounds(LIVENESS + 1 - RoundsLeft') \in Nat
    <3>1. RoundsLeft' \in Int /\ RoundsLeft' <= LIVENESS + 1
      BY <1>11 DEF Numeric
    <3> QED
      BY <3>1, Remaining
  <2> QED
    BY <1>1, <1>2, <1>4, <2>1, Intervals DEF Detection, Numeric
<1>20. GivingUp'
  BY <1>2 DEF GivingUp
<1> QED
  BY <1>10, <1>13, <1>14, <1>15, <1>16, <1>17, <1>18, <1>19, <1>20 DEF TimersInv

(* A heartbeat round finds nothing under way: a pong that was to come has  *)
(* come.                                                                   *)
LEMMA HeartbeatStep ==
  ASSUME TimersInv, Fits, HeartbeatTimeout
  PROVE  TimersInv'
<1>1. /\ TimersTypeOK /\ Clock /\ Queues /\ Load /\ AtWork
      /\ Loss /\ Heard /\ Detection /\ GivingUp /\ Numeric
  BY Parts
<1>2. /\ broker_up /\ Passed(now, timeout) /\ new_pong' = FALSE
      /\ now' = now /\ broker_up' = broker_up /\ calls' = calls
      /\ copy' = copy /\ outbox' = outbox /\ quiet' = quiet
      /\ timeout' = time_add_ms(now, HEARTBEAT_INTERVAL)
  BY DEF HeartbeatTimeout, HeartbeatDeadline, CheckPong
<1>3. /\ now \in Reading /\ inbox \in Seq(Message) /\ outbox \in Seq(Message)
      /\ new_pong \in BOOLEAN
  BY <1>1 DEF TimersTypeOK
<1>4. timeout' \in Deadline /\ Total(timeout') = Total(now) + Ns(HEARTBEAT_INTERVAL)
  BY <1>2, <1>3, Ahead, Intervals
<1>5. /\ Sent(TRUE) \in Message /\ Sent(TRUE).sent = Total(now)
      /\ Asks(Sent(TRUE)) = 0 /\ Sent(TRUE).heartbeat
  BY <1>3, SentNow
<1>6. /\ ~copy.up => inbox' = inbox
      /\ copy.up => inbox' = Append(inbox, Sent(TRUE))
  BY DEF HeartbeatTimeout, ToCopy
<1>7. LoadFits => Empty(outbox) /\ (copy.up => Empty(inbox) /\ ~copy.busy)
  BY <1>2, RoundOver
<1>8. LoadFits => ~HasPing(outbox) /\ (copy.up => ~HasPing(inbox))
  BY <1>7, NoMessage DEF Empty
<1>9. /\ new_pong => lost_pong' = 0
      /\ ~new_pong /\ lost_pong < LIVENESS => lost_pong' = lost_pong + 1
      /\ ~new_pong /\ ~(lost_pong < LIVENESS) => lost_pong' = lost_pong
  BY <1>3 DEF HeartbeatTimeout, CheckPong, LostPong
<1>10. SentBy(inbox, Total(now)) /\ SentBy(outbox, Finished')
  <2>1. Last <= Total(now) /\ Last \in Int /\ Total(now) \in Int
    BY <1>1 DEF Clock, Numeric
  <2>2. Finished' = Total(now) + Ns(DELAY) + Work(Clients)
    BY <1>1, <1>4, Intervals DEF Finished, Last, Numeric
  <2>3. Finished \in Int /\ Finished' \in Int /\ Finished <= Finished'
    BY <1>1, <2>1, <2>2, Intervals DEF Numeric
  <2> QED
    BY <1>1, <1>3, <2>1, <2>3, SentLater DEF Queues
<1>11. inbox' \in Seq(Message) /\ SentBy(inbox', Total(now))
  <2>1. OnGrid(Total(now)) /\ Total(now) <= Total(now)
    BY <1>1 DEF Clock, Numeric
  <2>2. CASE copy.up
    BY <1>3, <1>5, <1>6, <1>10, <2>1, <2>2, AppendMessage
  <2>3. CASE ~copy.up
    BY <1>3, <1>6, <1>10, <2>3
  <2> QED
    BY <2>2, <2>3
<1>12. copy.up =>
         /\ ~Empty(inbox') /\ NumCalls(inbox') = NumCalls(inbox) /\ HasPing(inbox')
         /\ Oldest(inbox') = IF Empty(inbox) THEN Total(now) ELSE Oldest(inbox)
  <2> SUFFICES ASSUME copy.up
               PROVE  /\ ~Empty(inbox') /\ NumCalls(inbox') = NumCalls(inbox)
                      /\ HasPing(inbox')
                      /\ Oldest(inbox') = IF Empty(inbox) THEN Total(now)
                                                          ELSE Oldest(inbox)
    OBVIOUS
  <2>1. /\ ~Empty(inbox') /\ NumCalls(inbox') = NumCalls(inbox) + 0
        /\ Oldest(inbox') = IF Empty(inbox) THEN Total(now) ELSE Oldest(inbox)
        /\ HasPing(inbox')
    BY <1>3, <1>5, <1>6, AppendMessage
  <2> HIDE <1>6
  <2>2. NumCalls(inbox) \in Nat
    BY <1>1 DEF Numeric
  <2> QED
    BY <2>1, <2>2
<1>13. lost_pong' \in -1..LIVENESS
  BY <1>1, <1>9, Intervals DEF Numeric
<1>14. TimersTypeOK'
  BY <1>1, <1>2, <1>4, <1>11, <1>13 DEF TimersTypeOK
<1>15. Numeric'
  BY <1>14, NumbersNext
<1>16. Last' = Total(now) /\ Total(now') = Total(now)
  BY <1>1, <1>2, <1>4, Intervals DEF Last, Numeric
<1>17. Clock'
  <2>1. ~copy.up => Empty(inbox')
    BY <1>1, <1>6 DEF Clock
  <2> QED
    BY <1>1, <1>2, <1>4, <1>15, <1>16, <2>1, Intervals DEF Clock, Numeric
<1>18. Queues'
  <2>1. Total(now) <= Finished' + Ns(DELAY)
    BY <1>1, <1>15, <1>16, Intervals DEF Numeric
  <2> QED
    BY <1>2, <1>10, <1>11, <1>16, <2>1 DEF Queues
<1>19. Load'
  BY <1>1, <1>2, <1>12 DEF Load, Serving
<1>20. AtWork'
  <2> SUFFICES ASSUME copy.up PROVE Busy' /\ Idle' /\ Listening'
    BY <1>2 DEF AtWork
  <2>1. Busy /\ Idle /\ Listening
    BY <1>1 DEF AtWork
  <2>2. Empty(inbox) => Total(now) + Ns(DELAY) < Total(copy.time_t)
    BY <1>2, InTime
  <2>3. Finished \in Int /\ Finished' \in Int /\ Finished <= Finished'
    BY <1>1, <1>15, <1>16, Intervals DEF Clock, Numeric
  <2>4. NumCalls(inbox') = NumCalls(inbox)
    BY <1>12
  <2>5. Busy'
    <3> SUFFICES ASSUME copy.busy
                 PROVE  Total(copy.done) + Work(NumCalls(inbox)) <= Finished'
      BY <1>2, <2>1, <2>4 DEF Busy
    <3> QED
      BY <1>1, <2>1, <2>3 DEF Busy, Numeric
  <2>6. Idle'
    <3>1. NumCalls(inbox) <= Clients
      <4>1. Serving \in Nat /\ NumCalls(inbox) + Serving + NumCalls(outbox) = calls
        BY <1>1 DEF Load, Serving
      <4> QED
        BY <1>1, <4>1, Intervals DEF Load, Numeric
    <3>2. Work(NumCalls(inbox)) <= Work(Clients)
      BY <1>1, <3>1, Works, Intervals DEF Numeric
    <3>3. Total(now) + Work(NumCalls(inbox)) <= Finished'
      BY <1>1, <1>15, <1>16, <3>2, Intervals DEF Numeric
    <3>4. ~copy.busy => Total(now) < Total(copy.time_t)
      BY <1>1, <2>1, <2>2, Intervals DEF Idle, Numeric
    <3> QED
      BY <1>2, <2>4, <3>3, <3>4 DEF Idle
  <2>7. Listening'
    <3>1. ~Empty(inbox') /\ Oldest(inbox') + Ns(DELAY) < Total(copy.time_t)
      BY <1>12, <2>1, <2>2 DEF Listening
    <3> QED
      BY <1>2, <2>1, <3>1 DEF Listening
  <2> QED
    BY <2>5, <2>6, <2>7
<1>21. Loss'
  BY <1>1, <1>2 DEF Loss
<1>22. Heard'
  <2> SUFFICES ASSUME LoadFits, copy.up PROVE lost_pong' <= 0 /\ HasPing(inbox')
    BY <1>2 DEF Heard
  <2>1. lost_pong <= 0 /\ (lost_pong = 0 => new_pong)
    BY <1>1, <1>2, <1>8 DEF Heard
  <2> QED
    BY <1>1, <1>9, <1>12, <2>1, Intervals DEF Numeric
<1>23. Detection'
  <2> SUFFICES ASSUME LoadFits, ~copy.up, RoundsLeft' > 0
               PROVE  Total(timeout') <= quiet + Ns(HEARTBEAT_INTERVAL)
                                           + Rounds(LIVENESS + 1 - RoundsLeft')
    BY <1>2 DEF Detection
  <2>1. RoundsLeft' = LIVENESS - lost_pong'
    BY <1>2, <1>8 DEF RoundsLeft
  <2>2. RoundsLeft = IF new_pong THEN LIVENESS + 1 ELSE LIVENESS - lost_pong
    BY <1>8 DEF RoundsLeft
  <2>3. /\ lost_pong \in Int /\ lost_pong' \in Int /\ LIVENESS \in Int
        /\ RoundsLeft \in Int /\ RoundsLeft' \in Int
    BY <1>1, <1>15, Intervals DEF Numeric
  <2>4. RoundsLeft = RoundsLeft' + 1
    <3>1. CASE new_pong
      BY <1>9, <2>1, <2>2, <2>3, <3>1
    <3>2. CASE ~new_pong /\ lost_pong < LIVENESS
      BY <1>9, <2>1, <2>2, <2>3, <3>2
    <3>3. CASE ~new_pong /\ ~(lost_pong < LIVENESS)
      BY <1>9, <2>1, <2>2, <2>3, <3>3
    <3> QED
      BY <3>1, <3>2, <3>3
  <2> HIDE <2>1, <2>2
  <2>5. PICK k \in Int : k = LIVENESS + 1 - RoundsLeft
    BY <2>3
  <2>6. k + 1 = LIVENESS + 1 - RoundsLeft' /\ RoundsLeft > 0
    <3>1. RoundsLeft > 0
      <4>1. PICK l \in Int : l = RoundsLeft'
        BY <2>3
      <4>2. l > 0 /\ RoundsLeft = l + 1
        BY <2>4, <4>1
      <4> QED
        BY <4>2
    <3>2. k + 1 = LIVENESS + 1 - RoundsLeft'
      BY <2>3, <2>4, <2>5
    <3> QED
      BY <3>1, <3>2
  <2>7. Total(timeout) <= quiet + Ns(HEARTBEAT_INTERVAL) + Rounds(k)
    BY <1>1, <2>5, <2>6 DEF Detection
  <2>8. Rounds(k + 1) = Rounds(k) + Round /\ Rounds(k) \in Int
    BY Counts
  <2>9. Total(now) <= Total(timeout) + Ns(POLL) + NS
    BY <1>1, <1>2 DEF Clock
  <2>10. Total(timeout') <= quiet + Ns(HEARTBEAT_INTERVAL) + Rounds(k + 1)
    BY <1>1, <1>4, <2>7, <2>8, <2>9, Intervals DEF Numeric
  <2> QED
    BY <2>6, <2>10
<1>24. GivingUp'
  BY <1>2 DEF GivingUp
<1> QED
  BY <1>14, <1>17, <1>18, <1>19, <1>20, <1>21, <1>22, <1>23, <1>24 DEF TimersInv

(* get_response: a pong that has come counts.                              *)
LEMMA GetResponseStep ==
  ASSUME TimersInv, GetResponse
  PROVE  TimersInv'
<1>1. /\ TimersTypeOK /\ Clock /\ Queues /\ Load /\ AtWork
      /\ Loss /\ Heard /\ Detection /\ GivingUp /\ Numeric
  BY Parts
<1>2. /\ broker_up /\ ~Empty(outbox) /\ outbox' = Tail(outbox)
      /\ now' = now /\ broker_up' = broker_up /\ timeout' = timeout
      /\ lost_pong' = lost_pong /\ copy' = copy /\ inbox' = inbox /\ quiet' = quiet
      /\ Head(outbox).heartbeat => new_pong' = TRUE /\ calls' = calls
      /\ ~Head(outbox).heartbeat => new_pong' = new_pong /\ calls' = calls - 1
  BY DEF GetResponse, Empty
<1>3. outbox \in Seq(Message)
  BY <1>1 DEF TimersTypeOK
<1>4. /\ outbox' \in Seq(Message)
      /\ NumCalls(outbox) = NumCalls(outbox') + Asks(Head(outbox))
      /\ HasPing(outbox) <=> HasPing(outbox') \/ Head(outbox).heartbeat
      /\ SentBy(outbox, Finished) => SentBy(outbox', Finished)
  BY <1>2, <1>3, TailMessage
<1>5. PICK b \in BOOLEAN : b <=> Head(outbox).heartbeat
  OBVIOUS
<1>6. /\ NumCalls(outbox) = NumCalls(outbox') + IF b THEN 0 ELSE 1
      /\ HasPing(outbox) <=> HasPing(outbox') \/ b
      /\ b => new_pong' = TRUE /\ calls' = calls
      /\ ~b => new_pong' = new_pong /\ calls' = calls - 1
  BY <1>2, <1>4, <1>5 DEF Asks
<1>7. TimersTypeOK'
  <2>1. calls \in Int /\ new_pong \in BOOLEAN
    BY <1>1 DEF TimersTypeOK
  <2>2. CASE b
    BY <1>1, <1>2, <1>4, <1>6, <2>1, <2>2 DEF TimersTypeOK
  <2>3. CASE ~b
    <3>1. calls' \in Int
      BY <1>6, <2>1, <2>3
    <3>2. new_pong' \in BOOLEAN
      BY <1>6, <2>1, <2>3
    <3> QED
      BY <1>1, <1>2, <1>4, <3>1, <3>2 DEF TimersTypeOK
  <2> QED
    BY <2>2, <2>3
<1>8. Numeric'
  BY <1>7, NumbersNext
<1>9. Last' = Last /\ Finished' = Finished
  BY <1>2 DEF Last, Finished
<1>10. Clock' /\ AtWork' /\ Loss' /\ GivingUp'
  BY <1>1, <1>2, <1>9 DEF Clock, AtWork, Busy, Idle, Listening, Loss, GivingUp
<1>11. Queues'
  BY <1>1, <1>2, <1>4, <1>9 DEF Queues
<1>12. Load'
  <2>1. /\ calls \in Int /\ NumCalls(inbox) \in Nat /\ Clients \in Nat
        /\ NumCalls(outbox) \in Nat /\ NumCalls(outbox') \in Nat
    BY <1>1, <1>8, Intervals DEF Numeric
  <2>2. PICK d \in {0, 1} : NumCalls(outbox) = NumCalls(outbox') + d /\ calls' = calls - d
    BY <1>6, <2>1
  <2>3. Serving' = Serving /\ Serving \in Nat
    BY <1>2 DEF Serving
  <2> QED
    BY <1>1, <1>2, <2>1, <2>2, <2>3 DEF Load
<1>13. Heard'
  BY <1>1, <1>2, <1>6 DEF Heard
<1>14. Detection'
  <2>1. RoundsLeft' = RoundsLeft
    BY <1>2, <1>6 DEF RoundsLeft
  <2> QED
    BY <1>1, <1>2, <2>1 DEF Detection
<1> QED
  BY <1>7, <1>10, <1>11, <1>12, <1>13, <1>14 DEF TimersInv

LEMMA OthersAnswerStep ==
  ASSUME TimersInv, OthersAnswer
  PROVE  TimersInv'
<1>1. /\ TimersTypeOK /\ Clock /\ Queues /\ Load /\ AtWork
      /\ Loss /\ Heard /\ Detection /\ GivingUp /\ Numeric
  BY Parts
<1>2. /\ ~copy.up /\ calls' = calls - 1
      /\ now' = now /\ broker_up' = broker_up /\ timeout' = timeout
      /\ new_pong' = new_pong /\ lost_pong' = lost_pong /\ copy' = copy
      /\ inbox' = inbox /\ outbox' = outbox /\ quiet' = quiet
  BY DEF OthersAnswer
<1>3. TimersTypeOK'
  BY <1>1, <1>2 DEF TimersTypeOK
<1>4. Last' = Last /\ Finished' = Finished /\ RoundsLeft' = RoundsLeft
  BY <1>2 DEF Last, Finished, RoundsLeft
<1>5. Load'
  BY <1>1, <1>2, Intervals DEF Load, Numeric
<1>6. Clock' /\ Queues' /\ AtWork' /\ Loss' /\ Heard'
  BY <1>1, <1>2, <1>4 DEF Clock, Queues, AtWork, Loss, Heard
<1>7. Detection' /\ GivingUp'
  BY <1>1, <1>2, <1>4 DEF Detection, GivingUp
<1> QED
  BY <1>3, <1>5, <1>6, <1>7 DEF TimersInv

(* step() reads a message: what it does then is finished in time.          *)
LEMMA ReceiveStep ==
  ASSUME TimersInv, Fits, ReceiveRequest
  PROVE  TimersInv'
<1>1. /\ TimersTypeOK /\ Clock /\ Queues /\ Load /\ AtWork
      /\ Loss /\ Heard /\ Detection /\ GivingUp /\ Numeric
  BY Parts
<1>2. PICK b \in BOOLEAN : b <=> Head(inbox).heartbeat
  OBVIOUS
<1>3. /\ copy.up /\ ~copy.busy /\ ~Empty(inbox) /\ inbox' = Tail(inbox)
      /\ now' = now /\ broker_up' = broker_up /\ timeout' = timeout
      /\ new_pong' = new_pong /\ lost_pong' = lost_pong /\ calls' = calls
      /\ quiet' = quiet
      /\ outbox' = IF b THEN Append(outbox, Sent(TRUE)) ELSE outbox
  BY <1>2 DEF ReceiveRequest, Empty
<1>4. /\ now \in Reading /\ inbox \in Seq(Message) /\ outbox \in Seq(Message)
      /\ copy \in Server
  BY <1>1 DEF TimersTypeOK
<1>5. /\ inbox' \in Seq(Message) /\ Head(inbox) \in Message
      /\ NumCalls(inbox) = NumCalls(inbox') + Asks(Head(inbox))
      /\ HasPing(inbox) <=> HasPing(inbox') \/ Head(inbox).heartbeat
      /\ SentBy(inbox, Last) => SentBy(inbox', Last)
  BY <1>3, <1>4, TailMessage
<1>6. copy' = [copy EXCEPT !.time_t = PingDeadline, !.busy = ~b,
                           !.done = IF b THEN @ ELSE time_add_ms(now, BUSY)]
  <2>1. Head(inbox).heartbeat = b
    BY <1>2, <1>5 DEF Message
  <2> QED
    BY <2>1 DEF ReceiveRequest
<1>7. /\ PingDeadline \in Deadline
      /\ Total(PingDeadline) = Total(now) + Ns(HEARTBEAT_INTERVAL) + Ns(WCDPING)
      /\ time_add_ms(now, BUSY) \in Deadline
      /\ Total(time_add_ms(now, BUSY)) = Total(now) + Ns(BUSY)
  <2>1. /\ PingDeadline \in Deadline
        /\ Total(PingDeadline) = Total(now) + Ns(HEARTBEAT_INTERVAL + WCDPING)
    BY <1>4, Ahead, Intervals DEF PingDeadline
  <2>2. /\ time_add_ms(now, BUSY) \in Deadline
        /\ Total(time_add_ms(now, BUSY)) = Total(now) + Ns(BUSY)
    BY <1>4, Ahead, Intervals
  <2>3. Total(now) \in Int
    BY <1>1 DEF Numeric
  <2> QED
    BY <2>1, <2>2, <2>3, Intervals
<1>8. /\ copy'.up = copy.up /\ copy'.ping_loss = copy.ping_loss
      /\ copy'.time_t = PingDeadline /\ copy'.busy = ~b
      /\ copy'.done = IF b THEN copy.done ELSE time_add_ms(now, BUSY)
  BY <1>4, <1>6 DEF Server
<1>9. copy' \in Server
  BY <1>4, <1>6, <1>7 DEF Server
<1>10. /\ Total(copy'.time_t) = Total(now) + Ns(HEARTBEAT_INTERVAL) + Ns(WCDPING)
       /\ ~b => Total(copy'.done) = Total(now) + Ns(BUSY)
       /\ OnGrid(Total(copy'.done))
  <2>1. OnGrid(Total(now) + Ns(BUSY))
    BY <1>1, Grid, Intervals DEF Clock, Numeric
  <2> QED
    BY <1>1, <1>7, <1>8, <2>1 DEF Clock
<1>11. /\ Total(now) + Work(NumCalls(inbox)) <= Finished /\ Total(now) <= Finished
       /\ copy.ping_loss = 0
  <2>1. Idle
    BY <1>1, <1>3 DEF AtWork
  <2>2. Total(now) + Work(NumCalls(inbox)) <= Finished
    BY <1>3, <2>1 DEF Idle
  <2>3. copy.ping_loss = 0
    <3>1. ~(copy.ping_loss > 0)
      BY <1>1, <1>3 DEF Loss
    <3>2. copy.ping_loss \in 0..LIVENESS /\ LIVENESS \in 1..127
      BY <1>1, Intervals DEF Numeric
    <3> QED
      BY <3>1, <3>2
  <2> QED
    BY <1>1, <2>2, <2>3 DEF Numeric
<1>12. NumCalls(inbox) = NumCalls(inbox') + IF b THEN 0 ELSE 1
  BY <1>2, <1>5 DEF Asks
<1>13. /\ outbox' \in Seq(Message) /\ NumCalls(outbox') = NumCalls(outbox)
       /\ SentBy(outbox', Finished)
       /\ HasPing(outbox') <=> HasPing(outbox) \/ b
  <2>1. /\ Sent(TRUE) \in Message /\ Sent(TRUE).sent = Total(now)
        /\ Asks(Sent(TRUE)) = 0 /\ Sent(TRUE).heartbeat
    BY <1>4, SentNow
  <2>2. SentBy(outbox, Finished) /\ OnGrid(Total(now)) /\ NumCalls(outbox) \in Nat
    BY <1>1 DEF Queues, Clock, Numeric
  <2>3. CASE b
    <3>1. /\ outbox' \in Seq(Message) /\ NumCalls(outbox') = NumCalls(outbox) + 0
          /\ SentBy(outbox', Finished) /\ HasPing(outbox')
      BY <1>3, <1>4, <1>11, <2>1, <2>2, <2>3, AppendMessage
    <3> HIDE <1>3
    <3> QED
      BY <2>2, <2>3, <3>1
  <2>4. CASE ~b
    BY <1>3, <1>4, <2>2, <2>4
  <2> QED
    BY <2>3, <2>4
<1>14. TimersTypeOK'
  BY <1>1, <1>3, <1>5, <1>9, <1>13 DEF TimersTypeOK
<1>15. Numeric'
  BY <1>14, NumbersNext
<1>16. /\ Last' = Last /\ Finished' = Finished /\ Total(now') = Total(now)
       /\ Total(timeout') = Total(timeout) /\ Last <= Total(now)
  BY <1>1, <1>3 DEF Last, Finished, Clock
<1>17. Clock'
  <2>1. Total(copy'.time_t) <= Total(now') + Ns(HEARTBEAT_INTERVAL + WCDPING)
    BY <1>1, <1>10, <1>16, Intervals DEF Numeric
  <2> QED
    BY <1>1, <1>3, <1>8, <1>10, <1>16, <2>1 DEF Clock
<1>18. Queues'
  <2>1. Total(now) <= Finished + Ns(DELAY)
    BY <1>1, <1>11, Intervals DEF Numeric
  <2> QED
    BY <1>1, <1>3, <1>5, <1>13, <1>16, <2>1 DEF Queues
<1>19. Load'
  <2>1. /\ NumCalls(inbox) \in Nat /\ NumCalls(inbox') \in Nat /\ NumCalls(outbox) \in Nat
    BY <1>1, <1>15 DEF Numeric
  <2>2. Serving = 0 /\ Serving' = IF b THEN 0 ELSE 1
    BY <1>3, <1>8 DEF Serving
  <2>3. NumCalls(inbox') + Serving' + NumCalls(outbox')
          = NumCalls(inbox) + Serving + NumCalls(outbox)
    BY <1>12, <1>13, <2>1, <2>2
  <2> QED
    BY <1>1, <1>3, <2>3 DEF Load
<1>20. Busy'
  <2> SUFFICES ASSUME ~b PROVE Busy'
    BY <1>8 DEF Busy
  <2>1. Work(NumCalls(inbox)) = Work(NumCalls(inbox')) + Ns(BUSY)
    <3>1. NumCalls(inbox) = NumCalls(inbox') + 1 /\ NumCalls(inbox') \in Nat
      BY <1>12, <1>15 DEF Numeric
    <3> QED
      BY <3>1, Works
  <2> QED
    BY <1>1, <1>10, <1>11, <1>15, <1>16, <2>1, Intervals DEF Busy, Numeric, Fits
<1>21. Idle'
  <2> SUFFICES ASSUME b PROVE Idle'
    BY <1>8 DEF Idle
  <2>1. NumCalls(inbox') = NumCalls(inbox)
    BY <1>12, <1>15 DEF Numeric
  <2>2. Total(now) < Total(copy'.time_t)
    BY <1>1, <1>10, Intervals DEF Numeric, Fits
  <2> QED
    BY <1>11, <1>16, <2>1, <2>2 DEF Idle
<1>22. Listening'
  <2>1. ~Empty(inbox') => Oldest(inbox') \in Int /\ Oldest(inbox') <= Last
    BY <1>1, <1>5, OldestSent DEF Queues
  <2>2. ~Empty(inbox') => Oldest(inbox') + Ns(DELAY) < Total(copy'.time_t)
    BY <1>1, <1>10, <1>16, <2>1, Intervals DEF Numeric, Fits
  <2>3. Total(timeout') + Ns(WCDPING) <= Total(copy'.time_t)
    BY <1>1, <1>10, <1>16, Intervals DEF Numeric
  <2>4. Total(now') <= Total(copy'.time_t) + NS
    BY <1>1, <1>10, <1>16, Intervals DEF Numeric
  <2> QED
    BY <2>2, <2>3, <2>4 DEF Listening
<1>23. AtWork'
  BY <1>20, <1>21, <1>22 DEF AtWork
<1>24. Loss'
  BY <1>8, <1>11 DEF Loss
<1>25. Heard'
  BY <1>1, <1>2, <1>3, <1>5, <1>8, <1>13 DEF Heard
<1>26. Detection'
  BY <1>3, <1>8 DEF Detection
<1>27. GivingUp'
  <2> SUFFICES ASSUME ~broker_up
               PROVE  Total(copy'.time_t) + NS
                        <= quiet + Ns(DELAY) + Work(Clients) + Silences(copy'.ping_loss + 1)
    BY <1>3 DEF GivingUp
  <2>1. Last <= quiet
    BY <1>1 DEF Clock
  <2>2. Silences(copy'.ping_loss + 1) = Silence
    BY <1>8, <1>11, Counts
  <2> QED
    BY <1>1, <1>10, <1>11, <2>1, <2>2, Intervals DEF Numeric
<1> QED
  BY <1>14, <1>17, <1>18, <1>19, <1>23, <1>24, <1>25, <1>26, <1>27 DEF TimersInv

LEMMA TaskDoneStep ==
  ASSUME TimersInv, TaskDone
  PROVE  TimersInv'
<1>1. /\ TimersTypeOK /\ Clock /\ Queues /\ Load /\ AtWork
      /\ Loss /\ Heard /\ Detection /\ GivingUp /\ Numeric
  BY Parts
<1>2. /\ copy.up /\ copy.busy /\ time_cmp(now, copy.done) >= 0
      /\ copy' = [copy EXCEPT !.busy = FALSE]
      /\ outbox' = Append(outbox, Sent(FALSE))
      /\ now' = now /\ broker_up' = broker_up /\ timeout' = timeout
      /\ new_pong' = new_pong /\ lost_pong' = lost_pong /\ calls' = calls
      /\ inbox' = inbox /\ quiet' = quiet
  BY DEF TaskDone
<1>3. /\ now \in Reading /\ outbox \in Seq(Message) /\ copy \in Server
      /\ copy.done \in Deadline
  BY <1>1 DEF TimersTypeOK, Server
<1>4. /\ copy' \in Server /\ copy'.up = copy.up /\ copy'.ping_loss = copy.ping_loss
      /\ copy'.time_t = copy.time_t /\ copy'.busy = FALSE /\ copy'.done = copy.done
  BY <1>2, <1>3 DEF Server
<1>5. Busy /\ Listening
  BY <1>1, <1>2 DEF AtWork
<1>6. /\ Total(now) + Work(NumCalls(inbox)) <= Finished /\ Total(now) <= Finished
      /\ Total(now) < Total(copy.time_t)
  <2>1. Total(copy.done) <= Total(now)
    BY <1>2, <1>3, Compare
  <2> QED
    BY <1>1, <1>2, <1>5, <2>1 DEF Busy, Numeric
<1>7. /\ outbox' \in Seq(Message) /\ NumCalls(outbox') = NumCalls(outbox) + 1
      /\ SentBy(outbox', Finished)
      /\ HasPing(outbox') <=> HasPing(outbox)
  <2>1. /\ Sent(FALSE) \in Message /\ Sent(FALSE).sent = Total(now)
        /\ Asks(Sent(FALSE)) = 1 /\ ~Sent(FALSE).heartbeat
    BY <1>3, SentNow
  <2>2. SentBy(outbox, Finished) /\ OnGrid(Total(now))
    BY <1>1 DEF Queues, Clock
  <2> QED
    BY <1>2, <1>3, <1>6, <2>1, <2>2, AppendMessage
<1>8. /\ now' = now /\ broker_up' = broker_up /\ timeout' = timeout
      /\ new_pong' = new_pong /\ lost_pong' = lost_pong /\ calls' = calls
      /\ inbox' = inbox /\ quiet' = quiet /\ copy.up /\ copy.busy
  BY <1>2
<1> HIDE <1>2
<1>9. TimersTypeOK'
  BY <1>1, <1>4, <1>7, <1>8 DEF TimersTypeOK
<1>10. Last' = Last /\ Finished' = Finished
  BY <1>8 DEF Last, Finished
<1>11. Clock'
  BY <1>1, <1>4, <1>8, <1>10 DEF Clock
<1>12. Queues'
  <2>1. Total(now) <= Finished + Ns(DELAY)
    BY <1>1, <1>6, Intervals DEF Numeric
  <2> QED
    BY <1>1, <1>7, <1>8, <1>10, <2>1 DEF Queues
<1>13. Load'
  <2>1. NumCalls(inbox) \in Nat /\ NumCalls(outbox) \in Nat
    BY <1>1 DEF Numeric
  <2>2. Serving = 1 /\ Serving' = 0
    BY <1>4, <1>8 DEF Serving
  <2> QED
    BY <1>1, <1>7, <1>8, <2>1, <2>2 DEF Load
<1>14. AtWork'
  <2>1. Busy'
    BY <1>4 DEF Busy
  <2>2. Idle'
    BY <1>4, <1>6, <1>8, <1>10 DEF Idle
  <2>3. Listening'
    BY <1>4, <1>5, <1>8 DEF Listening
  <2> QED
    BY <2>1, <2>2, <2>3 DEF AtWork
<1>15. Loss'
  BY <1>1, <1>4, <1>8 DEF Loss
<1>16. Heard'
  BY <1>1, <1>4, <1>7, <1>8 DEF Heard
<1>17. Detection'
  BY <1>4, <1>8 DEF Detection
<1>18. GivingUp'
  BY <1>1, <1>4, <1>8 DEF GivingUp
<1> QED
  BY <1>9, <1>11, <1>12, <1>13, <1>14, <1>15, <1>16, <1>17, <1>18 DEF TimersInv

(* The ping timeout of a copy passes only without its broker, when all     *)
(* messages are read and all requests answered.                            *)
LEMMA PingTimeoutStep ==
  ASSUME TimersInv, Fits, PingTimeout
  PROVE  TimersInv'
<1>1. /\ TimersTypeOK /\ Clock /\ Queues /\ Load /\ AtWork
      /\ Loss /\ Heard /\ Detection /\ GivingUp /\ Numeric
  BY Parts
<1>2. /\ copy.up /\ copy.ping_loss < LIVENESS /\ Passed(now, copy.time_t)
      /\ copy' = [copy EXCEPT !.time_t = PingDeadline, !.ping_loss = @ + 1]
      /\ now' = now /\ broker_up' = broker_up /\ timeout' = timeout
      /\ new_pong' = new_pong /\ lost_pong' = lost_pong /\ calls' = calls
      /\ inbox' = inbox /\ outbox' = outbox /\ quiet' = quiet
  BY DEF PingTimeout
<1>3. /\ now \in Reading /\ copy \in Server /\ copy.time_t \in Deadline
      /\ copy.ping_loss \in 0..LIVENESS
  BY <1>1 DEF TimersTypeOK, Server
<1>4. /\ PingDeadline \in Deadline
      /\ Total(PingDeadline) = Total(now) + Ns(HEARTBEAT_INTERVAL) + Ns(WCDPING)
  <2>1. /\ PingDeadline \in Deadline
        /\ Total(PingDeadline) = Total(now) + Ns(HEARTBEAT_INTERVAL + WCDPING)
    BY <1>3, Ahead, Intervals DEF PingDeadline
  <2>2. Total(now) \in Int
    BY <1>1 DEF Numeric
  <2> QED
    BY <2>1, <2>2, Intervals
<1>5. copy.ping_loss + 1 \in 0..LIVENESS
  BY <1>2, <1>3, Intervals
<1>6. /\ copy' \in Server /\ copy'.up = copy.up /\ copy'.ping_loss = copy.ping_loss + 1
      /\ copy'.time_t = PingDeadline /\ copy'.busy = copy.busy /\ copy'.done = copy.done
  BY <1>2, <1>3, <1>4, <1>5 DEF Server
<1>7. Total(copy'.time_t) = Total(now) + Ns(HEARTBEAT_INTERVAL) + Ns(WCDPING)
  BY <1>4, <1>6
<1>8. Total(copy.time_t) <= Total(now)
  BY <1>2, <1>3, Compare
<1>9. Busy /\ Idle /\ Listening
  BY <1>1, <1>2 DEF AtWork
<1>10. ~copy.busy
  BY <1>1, <1>8, <1>9 DEF Busy, Numeric
<1>11. Empty(inbox)
  BY <1>1, <1>8, <1>9, <1>10 DEF Idle, Numeric
<1>12. ~broker_up
  <2> SUFFICES ASSUME broker_up PROVE FALSE
    OBVIOUS
  <2>1. Total(now) + Ns(DELAY) < Total(copy.time_t)
    BY <1>2, <1>11, InTime
  <2> QED
    BY <1>1, <1>8, <2>1, Intervals DEF Numeric
<1>13. /\ now' = now /\ broker_up' = broker_up /\ timeout' = timeout
       /\ new_pong' = new_pong /\ lost_pong' = lost_pong /\ calls' = calls
       /\ inbox' = inbox /\ outbox' = outbox /\ quiet' = quiet
       /\ copy.up /\ copy.ping_loss < LIVENESS
  BY <1>2
<1> HIDE <1>2
<1>14. TimersTypeOK'
  BY <1>1, <1>6, <1>13 DEF TimersTypeOK
<1>15. /\ Last' = Last /\ Finished' = Finished /\ Total(timeout') = Total(timeout)
       /\ Total(now') = Total(now)
  BY <1>13 DEF Last, Finished
<1>16. Clock'
  <2>1. Total(copy'.time_t) <= Total(now') + Ns(HEARTBEAT_INTERVAL + WCDPING)
    BY <1>1, <1>7, <1>15, Intervals DEF Numeric
  <2> QED
    BY <1>1, <1>6, <1>13, <1>15, <2>1 DEF Clock
<1>17. Queues'
  BY <1>1, <1>13, <1>15 DEF Queues
<1>18. Load'
  BY <1>1, <1>6, <1>13 DEF Load, Serving
<1>19. AtWork'
  <2>1. Busy' /\ Idle'
    BY <1>6, <1>10, <1>11, <1>13 DEF Busy, Idle
  <2>2. Total(timeout) + Ns(WCDPING) <= Total(copy'.time_t)
    BY <1>1, <1>7, Intervals DEF Clock, Numeric
  <2>3. Total(now) <= Total(copy'.time_t) + NS
    BY <1>1, <1>7, Intervals DEF Numeric
  <2>4. Listening'
    BY <1>11, <1>13, <1>15, <2>2, <2>3 DEF Listening
  <2> QED
    BY <2>1, <2>4 DEF AtWork
<1>20. Loss'
  BY <1>6, <1>10, <1>11, <1>12, <1>13 DEF Loss
<1>21. Heard'
  BY <1>12, <1>13 DEF Heard
<1>22. Detection'
  BY <1>6, <1>13 DEF Detection
<1>23. GivingUp'
  <2>1. Total(copy.time_t) + NS
          <= quiet + Ns(DELAY) + Work(Clients) + Silences(copy.ping_loss + 1)
    BY <1>1, <1>12 DEF GivingUp
  <2>2. Total(now) <= Total(copy.time_t) + NS
    BY <1>9, <1>13 DEF Listening
  <2>3. PICK k \in Int : k = copy.ping_loss + 1
    BY <1>5
  <2>4. Silences(k + 1) = Silences(k) + Silence /\ Silences(k) \in Int
    BY Counts
  <2>5. Silences(copy'.ping_loss + 1) = Silences(k + 1)
    BY <1>6, <2>3
  <2>6. Total(copy'.time_t) + NS <= quiet + Ns(DELAY) + Work(Clients) + Silences(k + 1)
    BY <1>1, <1>7, <2>1, <2>2, <2>3, <2>4, Intervals DEF Numeric
  <2> QED
    BY <1>13, <2>5, <2>6 DEF GivingUp
<1> QED
  BY <1>14, <1>16, <1>17, <1>18, <1>19, <1>20, <1>21, <1>22, <1>23 DEF TimersInv

LEMMA DieStep ==
  ASSUME TimersInv, Die
  PROVE  TimersInv'
<1>1. /\ TimersTypeOK /\ Clock /\ Queues /\ Load /\ AtWork
      /\ Loss /\ Heard /\ Detection /\ GivingUp /\ Numeric
  BY Parts
<1>2. /\ copy.up /\ broker_up
      /\ copy' = [copy EXCEPT !.up = FALSE] /\ inbox' = <<>> /\ quiet' = Total(now)
      /\ now' = now /\ broker_up' = broker_up /\ timeout' = timeout
      /\ new_pong' = new_pong /\ lost_pong' = lost_pong /\ calls' = calls
      /\ outbox' = outbox
  BY DEF Die
<1>3. copy \in Server
  BY <1>1 DEF TimersTypeOK
<1>4. /\ copy' \in Server /\ copy'.up = FALSE /\ copy'.ping_loss = copy.ping_loss
      /\ copy'.time_t = copy.time_t /\ copy'.busy = copy.busy /\ copy'.done = copy.done
  BY <1>2, <1>3 DEF Server
<1>5. inbox' \in Seq(Message) /\ Empty(inbox') /\ \A t : SentBy(inbox', t)
  BY <1>2, NoMessage
<1>6. /\ now' = now /\ broker_up' = broker_up /\ timeout' = timeout
      /\ new_pong' = new_pong /\ lost_pong' = lost_pong /\ calls' = calls
      /\ outbox' = outbox /\ quiet' = Total(now) /\ broker_up
  BY <1>2
<1> HIDE <1>2
<1>7. TimersTypeOK'
  BY <1>1, <1>4, <1>5, <1>6 DEF TimersTypeOK, Numeric
<1>8. Numeric'
  BY <1>7, NumbersNext
<1>9. Last' = Last /\ Finished' = Finished
  BY <1>6 DEF Last, Finished
<1>10. Clock'
  BY <1>1, <1>4, <1>5, <1>6, <1>9 DEF Clock, Numeric
<1>11. Queues'
  BY <1>1, <1>5, <1>6, <1>9 DEF Queues
<1>12. Load' /\ AtWork' /\ Heard' /\ GivingUp'
  BY <1>1, <1>4, <1>6 DEF Load, AtWork, Heard, GivingUp
<1>13. Loss'
  BY <1>1, <1>4, <1>6 DEF Loss
<1>14. Detection'
  <2>1. RoundsLeft' \in Int /\ RoundsLeft' <= LIVENESS + 1
    BY <1>8 DEF Numeric
  <2>2. Rounds(LIVENESS + 1 - RoundsLeft') \in Nat
    BY <2>1, Remaining
  <2>3. Total(timeout) <= Total(now) + Ns(HEARTBEAT_INTERVAL)
    BY <1>1, Intervals DEF Clock, Numeric
  <2>4. Total(timeout) <= Total(now) + Ns(HEARTBEAT_INTERVAL)
                            + Rounds(LIVENESS + 1 - RoundsLeft')
    BY <1>1, <2>2, <2>3, Intervals DEF Numeric
  <2> QED
    BY <1>6, <2>4 DEF Detection
<1> QED
  BY <1>7, <1>10, <1>11, <1>12, <1>13, <1>14 DEF TimersInv

LEMMA BrokerDiesStep ==
  ASSUME TimersInv, BrokerDies
  PROVE  TimersInv'
<1>1. /\ TimersTypeOK /\ Clock /\ Queues /\ Load /\ AtWork
      /\ Loss /\ Heard /\ Detection /\ GivingUp /\ Numeric
  BY Parts
<1>2. /\ copy.up /\ broker_up /\ broker_up' = FALSE /\ quiet' = Total(now)
      /\ now' = now /\ timeout' = timeout /\ copy' = copy
      /\ new_pong' = new_pong /\ lost_pong' = lost_pong /\ calls' = calls
      /\ inbox' = inbox /\ outbox' = outbox
  BY DEF BrokerDies
<1>3. TimersTypeOK'
  BY <1>1, <1>2 DEF TimersTypeOK, Numeric
<1>4. Last' = Last /\ Finished' = Finished
  BY <1>2 DEF Last, Finished
<1>5. Clock'
  BY <1>1, <1>2, <1>4 DEF Clock, Numeric
<1>6. Queues' /\ Load' /\ Heard' /\ Detection' /\ Loss'
  BY <1>1, <1>2, <1>4 DEF Queues, Load, Serving, Heard, Detection, Loss
<1>7. AtWork'
  BY <1>1, <1>2, <1>4 DEF AtWork, Busy, Idle, Listening
<1>8. GivingUp'
  <2>1. copy.ping_loss = 0
    <3>1. ~(copy.ping_loss > 0)
      BY <1>1, <1>2 DEF Loss
    <3>2. copy.ping_loss \in 0..LIVENESS /\ LIVENESS \in 1..127
      BY <1>1, Intervals DEF Numeric
    <3> QED
      BY <3>1, <3>2
  <2>2. Silences(copy.ping_loss + 1) = Silence
    BY <2>1, Counts
  <2>3. Total(copy.time_t) + NS <= Total(now) + Ns(DELAY) + Work(Clients) + Silence
    BY <1>1, Intervals DEF Clock, Numeric
  <2> QED
    BY <1>2, <2>2, <2>3 DEF GivingUp
<1> QED
  BY <1>3, <1>5, <1>6, <1>7, <1>8 DEF TimersInv

(* Time passes only while nothing is overdue.                              *)
LEMMA TickStep ==
  ASSUME TimersInv, Fits, Tick
  PROVE  TimersInv'
<1>1. /\ TimersTypeOK /\ Clock /\ Queues /\ Load /\ AtWork
      /\ Loss /\ Heard /\ Detection /\ GivingUp /\ Numeric
  BY Parts
<1>2. /\ broker_up' = broker_up /\ timeout' = timeout
      /\ new_pong' = new_pong /\ lost_pong' = lost_pong /\ calls' = calls
      /\ copy' = copy /\ inbox' = inbox /\ outbox' = outbox /\ quiet' = quiet
  BY DEF Tick
<1>3. /\ now \in Reading /\ timeout \in Deadline /\ copy.time_t \in Deadline
      /\ copy.done \in Deadline /\ inbox \in Seq(Message) /\ outbox \in Seq(Message)
  BY <1>1 DEF TimersTypeOK, Server
<1>4. now' \in Reading /\ Total(now') = Total(now) + NS
  BY <1>3, OneTick
<1>5. broker_up => Total(now) <= Total(timeout) + Ns(POLL)
  <2> SUFFICES ASSUME broker_up PROVE Total(now) <= Total(timeout) + Ns(POLL)
    OBVIOUS
  <2>1. ~Passed(now, timeout) \/ ~(Total(now) - Total(timeout) > Ns(POLL))
    BY DEF Tick, Overdue, Since, Ns
  <2>2. ~Passed(now, timeout) => Total(now) <= Total(timeout)
    BY <1>3, Compare
  <2> QED
    BY <1>1, <2>1, <2>2, Intervals DEF Numeric
<1>6. broker_up /\ ~Empty(outbox) => Total(now) < Oldest(outbox) + Ns(DELAY)
  <2> SUFFICES ASSUME broker_up, ~Empty(outbox)
               PROVE  Total(now) < Oldest(outbox) + Ns(DELAY)
    OBVIOUS
  <2>1. ~(Total(now) - Oldest(outbox) >= Ns(DELAY))
    BY DEF Tick, Overdue, Since, Ns, Empty, Oldest
  <2> QED
    BY <1>1, <2>1, Intervals DEF Numeric
<1>7. copy.up /\ copy.busy => Total(now) < Total(copy.done)
  <2> SUFFICES ASSUME copy.up, copy.busy PROVE Total(now) < Total(copy.done)
    OBVIOUS
  <2>1. ~(time_cmp(now, copy.done) >= 0)
    BY DEF Tick, Overdue
  <2>2. ~(Total(copy.done) <= Total(now))
    BY <1>3, <2>1, Compare
  <2> QED
    BY <1>1, <2>2 DEF Numeric
<1>8. copy.up /\ copy.ping_loss < LIVENESS => Total(now) <= Total(copy.time_t)
  <2> SUFFICES ASSUME copy.up, copy.ping_loss < LIVENESS
               PROVE  Total(now) <= Total(copy.time_t)
    OBVIOUS
  <2>1. ~Passed(now, copy.time_t)
    BY DEF Tick, Overdue
  <2> QED
    BY <1>3, <2>1, Compare
<1>9. copy.up /\ ~copy.busy /\ ~Empty(inbox) => Total(now) < Oldest(inbox) + Ns(DELAY)
  <2> SUFFICES ASSUME copy.up, ~copy.busy, ~Empty(inbox)
               PROVE  Total(now) < Oldest(inbox) + Ns(DELAY)
    OBVIOUS
  <2>1. copy.ping_loss < LIVENESS
    <3>1. ~(copy.ping_loss > 0)
      BY <1>1 DEF Loss
    <3>2. copy.ping_loss \in 0..LIVENESS /\ LIVENESS \in 1..127
      BY <1>1, Intervals DEF Numeric
    <3> QED
      BY <3>1, <3>2
  <2>2. ~(Total(now) - Oldest(inbox) >= Ns(DELAY))
    BY <2>1 DEF Tick, Overdue, Since, Ns, Empty, Oldest
  <2> QED
    BY <1>1, <2>2, Intervals DEF Numeric
<1>10. TimersTypeOK'
  BY <1>1, <1>2, <1>4 DEF TimersTypeOK
<1>11. /\ Last' = Last /\ Finished' = Finished /\ RoundsLeft' = RoundsLeft
       /\ Total(timeout') = Total(timeout)
  BY <1>2 DEF Last, Finished, RoundsLeft
<1>12. OnGrid(Total(now)) /\ OnGrid(Total(now) + NS)
  BY <1>1, Grid DEF Clock, Numeric
<1>13. Clock'
  <2>1. /\ Last <= Total(now) + NS /\ quiet <= Total(now) + NS
        /\ broker_up => Total(now) + NS <= Total(timeout) + Ns(POLL) + NS
        /\ Total(copy.time_t) <= Total(now) + NS + Ns(HEARTBEAT_INTERVAL + WCDPING)
    BY <1>1, <1>5, Intervals DEF Clock, Numeric
  <2> QED
    BY <1>1, <1>2, <1>4, <1>11, <1>12, <2>1 DEF Clock
<1>14. Queues'
  <2> SUFFICES ASSUME broker_up, ~Empty(outbox)
               PROVE  Total(now) + NS <= Finished + Ns(DELAY)
    BY <1>1, <1>2, <1>4, <1>11 DEF Queues
  <2>1. /\ Oldest(outbox) \in Int /\ Oldest(outbox) <= Finished
        /\ OnGrid(Oldest(outbox))
    BY <1>1, <1>3, OldestSent DEF Queues
  <2>2. OnGrid(Oldest(outbox) + Ns(DELAY))
    BY <2>1, Grid, IntervalAssumption
  <2>3. Oldest(outbox) + Ns(DELAY) \in Int /\ Total(now) < Oldest(outbox) + Ns(DELAY)
    BY <1>6, <2>1, Intervals
  <2>4. Total(now) + NS <= Oldest(outbox) + Ns(DELAY)
    BY <1>1, <1>12, <2>2, <2>3, Grid DEF Numeric
  <2> QED
    BY <1>1, <2>1, <2>4, Intervals DEF Numeric
<1>15. Load'
  BY <1>1, <1>2 DEF Load, Serving
<1>16. AtWork'
  <2> SUFFICES ASSUME copy.up PROVE Busy' /\ Idle' /\ Listening'
    BY <1>2 DEF AtWork
  <2>1. Busy /\ Idle /\ Listening
    BY <1>1 DEF AtWork
  <2>2. Busy'
    <3> SUFFICES ASSUME copy.busy
                 PROVE  /\ Total(now) + NS <= Total(copy.done)
                        /\ Total(copy.done) <= Total(now) + NS + Ns(BUSY)
      BY <1>2, <1>4, <1>11, <2>1 DEF Busy
    <3>1. OnGrid(Total(copy.done))
      BY <1>1 DEF Clock
    <3>2. Total(now) + NS <= Total(copy.done)
      BY <1>1, <1>7, <1>12, <3>1, Grid DEF Numeric
    <3> QED
      BY <1>1, <2>1, <3>2, Intervals DEF Busy, Numeric
  <2>3. Idle'
    <3> SUFFICES ASSUME ~copy.busy, ~Empty(inbox)
                 PROVE  /\ Total(now) + NS + Work(NumCalls(inbox)) <= Finished
                        /\ Total(now) + NS < Total(copy.time_t)
      BY <1>2, <1>4, <1>11 DEF Idle
    <3>1. /\ Oldest(inbox) \in Int /\ Oldest(inbox) <= Last /\ OnGrid(Oldest(inbox))
      BY <1>1, <1>3, OldestSent DEF Queues
    <3>2. OnGrid(Oldest(inbox) + Ns(DELAY))
      BY <3>1, Grid, IntervalAssumption
    <3>3. Oldest(inbox) + Ns(DELAY) \in Int /\ Total(now) < Oldest(inbox) + Ns(DELAY)
      BY <1>9, <3>1, Intervals
    <3>4. Total(now) + NS <= Oldest(inbox) + Ns(DELAY)
      BY <1>1, <1>12, <3>2, <3>3, Grid DEF Numeric
    <3>5. NumCalls(inbox) <= Clients
      <4>1. Serving \in Nat /\ NumCalls(inbox) + Serving + NumCalls(outbox) = calls
        BY <1>1 DEF Load, Serving
      <4> QED
        BY <1>1, <4>1, Intervals DEF Load, Numeric
    <3>6. Work(NumCalls(inbox)) <= Work(Clients)
      BY <1>1, <3>5, Works, Intervals DEF Numeric
    <3>7. Oldest(inbox) + Ns(DELAY) < Total(copy.time_t)
      BY <2>1 DEF Listening
    <3>8. Total(now) + NS + Work(NumCalls(inbox)) <= Finished
      BY <1>1, <3>1, <3>4, <3>6, Intervals DEF Numeric
    <3>9. Total(now) + NS < Total(copy.time_t)
      BY <1>1, <3>1, <3>4, <3>7, Intervals DEF Numeric
    <3> QED
      BY <3>8, <3>9
  <2>4. Listening'
    <3>1. copy.ping_loss < LIVENESS => Total(now) + NS <= Total(copy.time_t) + NS
      BY <1>1, <1>8, Intervals DEF Numeric
    <3> QED
      BY <1>2, <1>4, <1>11, <2>1, <3>1 DEF Listening
  <2> QED
    BY <2>2, <2>3, <2>4
<1>17. Loss' /\ Heard' /\ Detection' /\ GivingUp'
  BY <1>1, <1>2, <1>11 DEF Loss, Heard, Detection, GivingUp
<1> QED
  BY <1>10, <1>13, <1>14, <1>15, <1>16, <1>17 DEF TimersInv

LEMMA TimersStep ==
  ASSUME TimersInv, Fits, [Next]_vars
  PROVE  TimersInv'
<1>1. CASE UNCHANGED vars
  BY <1>1 DEF vars, TimersInv, TimersTypeOK, Clock, Last, Queues, Finished, Load, Serving,
              AtWork, Busy, Idle, Listening, Loss, Heard, Detection, RoundsLeft, GivingUp
<1>2. CASE Next
  BY <1>2, GetRequestStep, HeartbeatStep, GetResponseStep, OthersAnswerStep, ReceiveStep,
     TaskDoneStep, PingTimeoutStep, DieStep, BrokerDiesStep, TickStep DEF Next
<1> QED
  BY <1>1, <1>2

LEMMA TimersStart ==
  ASSUME Init
  PROVE  TimersInv
<1>1. /\ now = Start /\ broker_up = TRUE /\ timeout = HeartbeatDeadline
      /\ new_pong = FALSE /\ lost_pong = -1 /\ calls = 0
      /\ copy = [up |-> TRUE, time_t |-> PingDeadline, ping_loss |-> 0,
                 busy |-> FALSE, done |-> Start]
      /\ inbox = <<>> /\ outbox = <<>> /\ quiet = Total(Start)
  BY DEF Init
<1>2. now \in Reading /\ Start \in Reading /\ Start \in Deadline /\ Total(Start) \in Int
  BY <1>1, IntervalAssumption, Moments
<1>3. /\ timeout \in Deadline /\ Total(timeout) = Total(now) + Ns(HEARTBEAT_INTERVAL)
      /\ PingDeadline \in Deadline
      /\ Total(PingDeadline) = Total(now) + Ns(HEARTBEAT_INTERVAL + WCDPING)
  BY <1>1, <1>2, Ahead, Intervals DEF HeartbeatDeadline, PingDeadline
<1>4. /\ inbox \in Seq(Message) /\ Empty(inbox) /\ NumCalls(inbox) = 0 /\ ~HasPing(inbox)
      /\ outbox \in Seq(Message) /\ Empty(outbox) /\ NumCalls(outbox) = 0
      /\ ~HasPing(outbox)
      /\ \A t : SentBy(inbox, t) /\ SentBy(outbox, t)
  BY <1>1, NoMessage
<1>5. /\ copy \in Server /\ copy.up = TRUE /\ copy.time_t = PingDeadline
      /\ copy.ping_loss = 0 /\ copy.busy = FALSE /\ copy.done = Start
  <2>1. 0 \in 0..LIVENESS
    BY Intervals
  <2> QED
    BY <1>1, <1>2, <1>3, <2>1 DEF Server
<1>6. /\ broker_up = TRUE /\ new_pong = FALSE /\ lost_pong = -1 /\ calls = 0
      /\ now = Start /\ quiet = Total(now)
  BY <1>1
<1> HIDE <1>1
<1>7. TimersTypeOK
  <2>1. lost_pong \in -1..LIVENESS /\ calls \in Int /\ quiet \in Int
    BY <1>2, <1>6, Intervals
  <2> QED
    BY <1>2, <1>3, <1>4, <1>5, <1>6, <2>1 DEF TimersTypeOK
<1>8. Numeric
  BY <1>7, Numbers
<1>9. OnGrid(Total(now))
  <2>1. Total(now) = Total(Start) + 0 * NS
    BY <1>2, <1>6, UnitAssumption
  <2> QED
    BY <2>1 DEF OnGrid
<1>10. Last = Total(now)
  BY <1>3, <1>8, Intervals DEF Numeric
<1>11. Clock
  BY <1>3, <1>5, <1>6, <1>8, <1>9, <1>10, Intervals DEF Clock, Numeric
<1>12. Queues
  BY <1>4 DEF Queues
<1>13. Load
  <2>1. Serving = 0 /\ Clients \in Nat
    BY <1>5, Intervals DEF Serving
  <2>2. NumCalls(inbox) + Serving + NumCalls(outbox) = 0
    BY <1>4, <2>1
  <2> QED
    BY <1>6, <2>1, <2>2 DEF Load
<1>14. AtWork
  <2>1. Busy /\ Idle
    BY <1>4, <1>5 DEF Busy, Idle
  <2>2. Listening
    <3>1. /\ Total(timeout) + Ns(WCDPING) <= Total(copy.time_t)
          /\ Total(now) <= Total(copy.time_t) + NS
      BY <1>3, <1>5, <1>8, Intervals DEF Numeric
    <3> QED
      BY <1>4, <3>1 DEF Listening
  <2> QED
    BY <2>1, <2>2 DEF AtWork
<1>15. Loss /\ Heard /\ Detection /\ GivingUp
  BY <1>5, <1>6 DEF Loss, Heard, Detection, GivingUp
<1> QED
  BY <1>7, <1>11, <1>12, <1>13, <1>14, <1>15 DEF TimersInv

(* The invariant of the clocks, for all intervals that fit.                *)
LEMMA TimersAlways == ASSUME IntervalsFit PROVE Spec => []TimersInv
<1>1. Fits
  BY Fit
<1>2. Init => TimersInv
  BY TimersStart
<1>3. TimersInv /\ [Next]_vars => TimersInv'
  BY <1>1, TimersStep
<1> QED
  BY <1>2, <1>3, PTL DEF Spec

-----------------------------------------------------------------------------
(* What the broker and the copy may rely on *)

LEMMA Associative ==
  ASSUME NEW a \in Nat, NEW b \in Nat, NEW c \in Nat
  PROVE  (a * b) * c = a * (b * c)
  OBVIOUS

(* The bounds of the properties in the unit of the clock.                  *)
LEMMA Bounds ==
  /\ (LIVENESS + 1) * (HEARTBEAT_INTERVAL + POLL + 1) * NS = Rounds(LIVENESS + 1)
  /\ (LIVENESS * (HEARTBEAT_INTERVAL + WCDPING + 1) + DELAY + Clients * BUSY) * NS
       = Silences(LIVENESS) + Ns(DELAY) + Work(Clients)
<1>1. /\ HEARTBEAT_INTERVAL \in Nat /\ WCDPING \in Nat /\ BUSY \in Nat /\ POLL \in Nat
      /\ DELAY \in Nat /\ Clients \in Nat /\ LIVENESS \in Nat /\ NS \in Nat
  BY IntervalAssumption, UnitAssumption
<1>2. PICK h \in Nat : h = HEARTBEAT_INTERVAL + POLL + 1
  BY <1>1
<1>3. PICK s \in Nat : s = HEARTBEAT_INTERVAL + WCDPING + 1
  BY <1>1
<1>4. (LIVENESS + 1) * h * NS = (LIVENESS + 1) * (h * NS)
  BY <1>1, Associative
<1>5. PICK x \in Nat : x = LIVENESS * s
  BY <1>1
<1>6. PICK y \in Nat : y = Clients * BUSY
  BY <1>1
<1>7. (x + DELAY + y) * NS = x * NS + DELAY * NS + y * NS
  BY <1>1
<1>8. x * NS = LIVENESS * (s * NS) /\ y * NS = Clients * (BUSY * NS)
  BY <1>1, <1>5, <1>6, Associative
<1>9. (LIVENESS * s + DELAY + Clients * BUSY) * NS
        = LIVENESS * (s * NS) + DELAY * NS + Clients * (BUSY * NS)
  BY <1>5, <1>6, <1>7, <1>8
<1>10. /\ Silences(LIVENESS) = LIVENESS * (s * NS) /\ Work(Clients) = Clients * (BUSY * NS)
       /\ Ns(DELAY) = DELAY * NS
  BY <1>3 DEF Silences, Silence, Work, Ns
<1>11. (LIVENESS * s + DELAY + Clients * BUSY) * NS
         = Silences(LIVENESS) + Ns(DELAY) + Work(Clients)
  <2>1. /\ Silences(LIVENESS) \in Int /\ Ns(DELAY) \in Int /\ Work(Clients) \in Int
    BY <1>1, Counts, Intervals
  <2> QED
    BY <1>9, <1>10, <2>1
<1>12. Rounds(LIVENESS + 1) = (LIVENESS + 1) * (h * NS)
  BY <1>2 DEF Rounds, Round, Ns
<1>13. (LIVENESS + 1) * h * NS = Rounds(LIVENESS + 1)
  BY <1>4, <1>12
<1> QED
  BY <1>2, <1>3, <1>11, <1>13

(* No copy takes a live broker for dead: WCDPING covers the poll of the    *)
(* broker and the way of the ping, although requests put heartbeats off    *)
(* and pings wait behind them.                                             *)
THEOREM BrokerHeardCorrect == ASSUME IntervalsFit PROVE Spec => []BrokerHeard
<1>1. TimersInv => BrokerHeard
  <2> SUFFICES ASSUME TimersInv, broker_up PROVE copy.ping_loss = 0
    BY DEF BrokerHeard
  <2>1. ~(copy.ping_loss > 0)
    BY DEF TimersInv, Loss
  <2>2. copy.ping_loss \in 0..LIVENESS /\ LIVENESS \in 1..127
    BY Parts, Intervals DEF Numeric
  <2> QED
    BY <2>1, <2>2
<1> QED
  BY <1>1, TimersAlways, PTL

(* The broker counts no pong of a live copy as lost: each request puts the *)
(* heartbeat off, so that the copy has served all of them before it.       *)
THEOREM PongsHeardCorrect ==
  ASSUME IntervalsFit, LoadFits PROVE Spec => []PongsHeard
<1>1. TimersInv => PongsHeard
  BY DEF TimersInv, Heard, PongsHeard
<1> QED
  BY <1>1, TimersAlways, PTL

(* A dead copy is given up LIVENESS + 1 rounds after its death or the last *)
(* request, at any load.                                                   *)
THEOREM DetectedInTimeCorrect ==
  ASSUME IntervalsFit, LoadFits PROVE Spec => []DetectedInTime
<1>1. TimersInv => DetectedInTime
  <2> SUFFICES ASSUME TimersInv, ~copy.up, lost_pong # LIVENESS
               PROVE  Total(now) - quiet <= Rounds(LIVENESS + 1)
    BY Bounds DEF DetectedInTime, Since
  <2>1. Numeric /\ Clock /\ Detection
    BY Parts
  <2>2. /\ lost_pong \in -1..LIVENESS /\ LIVENESS \in 1..127
        /\ RoundsLeft \in Int /\ RoundsLeft <= LIVENESS + 1
    BY <2>1, Intervals DEF Numeric
  <2>3. RoundsLeft = LIVENESS + 1 \/ RoundsLeft = LIVENESS - lost_pong
    BY DEF RoundsLeft
  <2>4. PICK n \in Int : n = RoundsLeft
    BY <2>2
  <2>5. n > 0 /\ n <= LIVENESS + 1
    BY <2>2, <2>3, <2>4
  <2>6. Total(timeout) <= quiet + Ns(HEARTBEAT_INTERVAL) + Rounds(LIVENESS + 1 - n)
    BY <2>1, <2>4, <2>5 DEF Detection
  <2>7. Total(now) <= Total(timeout) + Ns(POLL) + NS
    BY <2>1 DEF Clock
  <2>8. PICK k \in Int : k = LIVENESS + 1 - n
    BY <2>2, <2>4
  <2>9. /\ Rounds(k) \in Int /\ Rounds(k + 1) = Rounds(k) + Round
        /\ Rounds(k + 1) <= Rounds(LIVENESS + 1)
        /\ Rounds(k + 1) \in Int /\ Rounds(LIVENESS + 1) \in Int
    <3>1. k + 1 <= LIVENESS + 1 /\ k + 1 \in Int /\ LIVENESS + 1 \in Int
      BY <2>2, <2>4, <2>5, <2>8
    <3> QED
      BY <3>1, Counts
  <2> QED
    BY <2>1, <2>6, <2>7, <2>8, <2>9, Intervals DEF Numeric
<1> QED
  BY <1>1, TimersAlways, PTL

(* A copy gives a dead broker up, and registers again, after LIVENESS ping *)
(* timeouts that start when it has read what the broker had sent.          *)
THEOREM GivesUpInTimeCorrect == ASSUME IntervalsFit PROVE Spec => []GivesUpInTime
<1>1. TimersInv => GivesUpInTime
  <2> SUFFICES ASSUME TimersInv, ~broker_up, copy.ping_loss # LIVENESS
               PROVE  Total(now) - quiet <= Silences(LIVENESS) + Ns(DELAY) + Work(Clients)
    BY Bounds DEF GivesUpInTime, Since
  <2>1. Numeric /\ Clock /\ AtWork /\ GivingUp
    BY Parts
  <2>2. copy.ping_loss \in 0..LIVENESS /\ LIVENESS \in 1..127
    BY <2>1, Intervals DEF Numeric
  <2>3. copy.ping_loss < LIVENESS
    BY <2>2
  <2>4. Total(now) <= Total(copy.time_t) + NS
    BY <2>1, <2>3 DEF Clock, AtWork, Listening
  <2>5. PICK k \in Int : k = copy.ping_loss + 1
    BY <2>2
  <2>6. Total(copy.time_t) + NS <= quiet + Ns(DELAY) + Work(Clients) + Silences(k)
    BY <2>1, <2>5 DEF GivingUp
  <2>7. Silences(k) \in Int /\ Silences(LIVENESS) \in Int /\ Silences(k) <= Silences(LIVENESS)
    <3>1. k <= LIVENESS /\ LIVENESS \in Int
      BY <2>2, <2>3, <2>5
    <3> QED
      BY <3>1, Counts
  <2> QED
    BY <2>1, <2>4, <2>6, <2>7, Intervals DEF Numeric
<1> QED
  BY <1>1, TimersAlways, PTL
=============================================================================
