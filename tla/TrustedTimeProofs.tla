--------------------------- MODULE TrustedTimeProofs ---------------------------
(***************************************************************************)
(* Proofs about TrustedTime for every resolution of the timer and every    *)
(* length of the intervals, with any errors of the sources.                *)
(***************************************************************************)
EXTENDS TrustedTime, TLAPS

-----------------------------------------------------------------------------
(* Arithmetic                                                              *)

\* Multiplication keeps the order.
LEMMA TimesMonotone ==
    ASSUME NEW m \in Int, NEW n \in Int, NEW k \in Nat, m <= n PROVE m * k <= n * k
  OBVIOUS

\* Rounding to seconds loses less than one.
LEMMA Rounding ==
    ASSUME NEW t \in Int
    PROVE  /\ Seconds(t) \in Int
           /\ Ticks(Seconds(t)) <= t /\ t <= Ticks(Seconds(t)) + TicksPerSecond - 1
  BY IntervalAssumption DEF Seconds, Ticks

\* The absolute value is bounded from both sides.
LEMMA AbsBound ==
    ASSUME NEW x \in Int, NEW k \in Int PROVE Abs(x) <= k <=> -k <= x /\ x <= k
  BY DEF Abs

\* Seconds, in ticks, keep sums and order.
LEMMA TicksLinear ==
    ASSUME NEW x \in Int, NEW y \in Int
    PROVE  /\ Ticks(x) \in Int /\ Ticks(x + y) = Ticks(x) + Ticks(y)
           /\ Ticks(x - y) = Ticks(x) - Ticks(y) /\ Ticks(-x) = -Ticks(x)
           /\ x <= y => Ticks(x) <= Ticks(y)
  BY IntervalAssumption DEF Ticks

\* What the constants are.
LEMMA Constants ==
    /\ TicksPerSecond \in Nat \ {0} /\ MaxJump \in Nat /\ MaxTime \in Nat
    /\ Ticks(MaxJump) \in Int
  BY IntervalAssumption, TicksLinear

-----------------------------------------------------------------------------
(* The invariant of the clock                                              *)

\* While an exchange is in progress a set clock is due: it is not set again
\* from another source until the exchange ends.
ExchangeIsDue ==
    poll \in {"exchange", "sampled"} /\ clock.synchronized =>
        mono - clock.mono >= Ticks(ResyncInterval)

ClockInv == TypeOK /\ ExchangeIsDue /\ DriftBounded

\* The types that do not depend on the clock.
LEMMA Numbers ==
    ASSUME TypeOK
    PROVE  /\ mono \in Nat /\ MaxTime \in Nat /\ clock.mono \in Nat /\ clock.mono <= mono
           /\ clock.unix \in Int /\ origin.unix \in Int /\ origin.mono \in Nat
           /\ accepted \in Nat /\ clock.synchronized \in BOOLEAN /\ sample \in Int
           /\ Ticks(ResyncInterval) \in Nat /\ RealUnix \in Int
<1>1. mono \in Nat /\ MaxTime \in Nat
  BY IntervalAssumption DEF TypeOK
<1>2. /\ clock.mono \in 0..mono /\ clock.unix \in Int /\ clock.synchronized \in BOOLEAN
      /\ origin.unix \in Int /\ origin.mono \in 0..mono
  BY DEF TypeOK
<1>3. Ticks(ResyncInterval) \in Nat
  BY IntervalAssumption DEF Ticks
<1>4. RealUnix \in Int
  BY <1>1, Rounding, IntervalAssumption DEF RealUnix
<1> QED BY <1>1, <1>2, <1>3, <1>4 DEF TypeOK

\* A step that leaves the clock alone leaves its drift alone.
LEMMA DriftKept ==
    ASSUME DriftBounded, UNCHANGED <<clock, origin, accepted>> PROVE DriftBounded'
  BY DEF DriftBounded

\* What an accepted sample moves the clock by: the distance from the projected
\* time, which is bounded, and what was lost in rounding.
LEMMA JumpBounded ==
    ASSUME TypeOK, NEW unix \in Int, AcceptableJump(clock, unix, mono), clock.synchronized
    PROVE  Abs((Ticks(unix) - mono) - (Ticks(clock.unix) - clock.mono))
             <= Ticks(MaxJump) + TicksPerSecond - 1
<1> DEFINE e == mono - clock.mono
           s == Seconds(e)
           d == unix - (clock.unix + s)
           T == TicksPerSecond
<1>1. e \in Int /\ clock.unix \in Int /\ clock.mono \in Int /\ mono \in Int
      /\ MaxJump \in Int /\ T \in Int
  BY Numbers, IntervalAssumption
<1>2. s \in Int /\ Ticks(s) <= e /\ e <= Ticks(s) + T - 1
  BY <1>1, Rounding
<1>3. Abs(d) <= MaxJump
  BY DEF AcceptableJump, Projected, Elapsed
<1> HIDE DEF s
<1>4. d \in Int /\ -MaxJump <= d /\ d <= MaxJump
  BY <1>1, <1>2, <1>3, AbsBound
<1>5. Ticks(-MaxJump) <= Ticks(d) /\ Ticks(d) <= Ticks(MaxJump)
  <2> HIDE DEF d
  <2>1. -MaxJump \in Int
    BY <1>1
  <2> QED BY <1>1, <1>4, <2>1, TicksLinear
<1>6. Ticks(d) = Ticks(unix) - (Ticks(clock.unix) + Ticks(s))
  <2>1. clock.unix + s \in Int
    BY <1>1, <1>2
  <2>2. Ticks(clock.unix + s) = Ticks(clock.unix) + Ticks(s)
    BY <1>1, <1>2, TicksLinear
  <2>3. Ticks(unix - (clock.unix + s)) = Ticks(unix) - Ticks(clock.unix + s)
    BY <2>1, TicksLinear
  <2> QED BY <2>2, <2>3
<1>7. /\ Ticks(-MaxJump) = -Ticks(MaxJump) /\ Ticks(MaxJump) \in Int /\ Ticks(unix) \in Int
      /\ Ticks(clock.unix) \in Int /\ Ticks(s) \in Int
  BY <1>1, <1>2, TicksLinear
<1> DEFINE x == (Ticks(unix) - mono) - (Ticks(clock.unix) - clock.mono)
           k == Ticks(MaxJump) + T - 1
<1>8. x = Ticks(d) + Ticks(s) - e
  BY <1>1, <1>6, <1>7
<1>9. x \in Int /\ k \in Int /\ -k <= x /\ x <= k
  <2>1. Ticks(d) \in Int
    BY <1>4, TicksLinear
  <2> HIDE DEF e, d
  <2> QED BY <2>1, <1>1, <1>2, <1>5, <1>7, <1>8, Constants
<1> HIDE DEF x, k
<1>10. Abs(x) <= k
  BY <1>9, AbsBound
<1> QED BY <1>10 DEF x, k

\* One accepted sample more, one interval later, moved by one jump more.
LEMMA DriftStep ==
    ASSUME ClockInv, poll = "sampled", clock.synchronized,
           AcceptableJump(clock, sample, mono), clock' = Anchor(sample, "ntp"),
           accepted' = accepted + 1, origin' = origin
    PROVE  DriftBounded'
<1> DEFINE R == Ticks(ResyncInterval)
           J == Ticks(MaxJump) + TicksPerSecond - 1
           x == (Ticks(clock.unix) - clock.mono) - (Ticks(origin.unix) - origin.mono)
           y == (Ticks(sample) - mono) - (Ticks(clock.unix) - clock.mono)
           z == (Ticks(sample) - mono) - (Ticks(origin.unix) - origin.mono)
<1>1. /\ mono \in Nat /\ clock.mono \in Nat /\ clock.unix \in Int /\ origin.unix \in Int
      /\ origin.mono \in Nat /\ accepted \in Nat /\ sample \in Int /\ R \in Nat
  BY Numbers DEF ClockInv
<1>2. J \in Int /\ Ticks(clock.unix) \in Int /\ Ticks(origin.unix) \in Int /\ Ticks(sample) \in Int
  <2>1. J \in Int
    BY Constants
  <2>2. Ticks(clock.unix) \in Int /\ Ticks(origin.unix) \in Int /\ Ticks(sample) \in Int
    BY <1>1, TicksLinear
  <2> QED BY <2>1, <2>2
<1>3. accepted * R <= clock.mono - origin.mono /\ Abs(x) <= accepted * J
  BY DEF ClockInv, DriftBounded
<1>4. mono - clock.mono >= R
  BY DEF ClockInv, ExchangeIsDue
<1>5. Abs(y) <= J
  BY <1>1, JumpBounded DEF ClockInv
<1>6. clock'.unix = sample /\ clock'.mono = mono /\ clock'.synchronized
  BY DEF Anchor
<1>7. x \in Int /\ y \in Int /\ z = x + y
  BY <1>1, <1>2
<1> HIDE DEF R, J, x, y, z
<1>8. (accepted + 1) * R = accepted * R + R /\ (accepted + 1) * J = accepted * J + J
      /\ accepted * R \in Int /\ accepted * J \in Int
  BY <1>1, <1>2
<1>9. (accepted + 1) * R <= mono - origin.mono
  BY <1>1, <1>3, <1>4, <1>8
<1>10. Abs(z) <= (accepted + 1) * J
  <2> DEFINE k == accepted * J
  <2>1. k \in Int /\ Abs(x) <= k /\ (accepted + 1) * J = k + J
    BY <1>3, <1>8
  <2> HIDE DEF k
  <2>2. -k <= x /\ x <= k /\ -J <= y /\ y <= J
    BY <2>1, <1>2, <1>5, <1>7, AbsBound
  <2>3. z \in Int /\ k + J \in Int /\ -(k + J) <= z /\ z <= k + J
    BY <2>1, <2>2, <1>2, <1>7
  <2> QED BY <2>1, <2>3, AbsBound
<1> QED BY <1>6, <1>9, <1>10 DEF DriftBounded, R, J, z

-----------------------------------------------------------------------------
(* The steps                                                               *)

\* The types are kept: every reading of the timer is in the past.
LEMMA TypesKept == ASSUME TypeOK, Next PROVE TypeOK'
<1> USE DEF TypeOK, budget, task, history
<1>0. mono \in Nat /\ MaxTime \in Nat /\ RealUnix \in Int /\ Never = -1
  BY Numbers, Constants DEF Never
<1>1. CASE Tick
  <2>1. mono' = mono + 1 /\ mono' \in 0..MaxTime /\ timer' \in Nat /\ served' \in Nat
    BY <1>0, <1>1 DEF Tick
  <2>2. clock.mono \in 0..mono' /\ origin.mono \in 0..mono'
    BY <2>1, <1>0
  <2> QED BY <2>1, <2>2, <1>1 DEF Tick
<1>2. CASE Unlock
  BY <1>2 DEF Unlock
<1>3. CASE Close
  BY <1>3 DEF Close
<1>4. CASE LinkChanges
  BY <1>4 DEF LinkChanges
<1>5. ASSUME NEW e \in UsbErrors, SyncFromUsb(e) PROVE TypeOK'
  <2>1. RealUnix + e \in Int
    BY <1>0, IntervalAssumption
  <2>2. /\ clock' \in [synchronized : BOOLEAN, unix : Int, mono : 0..mono,
                       source : {"none", "ntp", "usb"}]
        /\ origin' \in [unix : Int, mono : 0..mono]
    BY <1>0, <1>5, <2>1 DEF SyncFromUsb, Anchor
  <2> QED BY <1>5, <2>2 DEF SyncFromUsb
<1>6. CASE PollLooks
  BY <1>6 DEF PollLooks, Sleeps
<1>7. CASE PollNotDue
  BY <1>7 DEF PollNotDue, Sleeps
<1>8. CASE PollLocked
  BY <1>8 DEF PollLocked, Sleeps
<1>9. CASE PollBegins
  BY <1>9 DEF PollBegins
<1>10. CASE ExchangeFails
  <2>1. last_initial' \in {Never} \cup 0..MaxTime
    BY <1>10 DEF ExchangeFails, InitialPaid
  <2>2. untried' \in BOOLEAN
    BY <1>10 DEF ExchangeFails
  <2> QED BY <1>10, <2>1, <2>2 DEF ExchangeFails, Sleeps
<1>11. CASE ExchangeEnds
  <2>0. mono' = mono /\ mono \in 0..mono
    BY <1>0, <1>11 DEF ExchangeEnds
  <2>1. clock' \in [synchronized : BOOLEAN, unix : Int, mono : 0..mono,
                    source : {"none", "ntp", "usb"}]
    <3>1. clock' = clock \/ clock' = Anchor(sample, "ntp")
      BY <1>11 DEF ExchangeEnds
    <3>2. Anchor(sample, "ntp") \in [synchronized : BOOLEAN, unix : Int, mono : 0..mono,
                                     source : {"none", "ntp", "usb"}]
      BY <2>0 DEF Anchor
    <3> QED BY <3>1, <3>2
  <2>5. origin' \in [unix : Int, mono : 0..mono]
    BY <2>0, <1>11 DEF ExchangeEnds
  <2>2. accepted' \in Nat
    BY <1>11 DEF ExchangeEnds
  <2>3. last_initial' \in {Never} \cup 0..MaxTime
    BY <1>11 DEF ExchangeEnds, InitialPaid
  <2>4. untried' \in BOOLEAN
    BY <1>11 DEF ExchangeEnds
  <2> QED BY <1>11, <2>0, <2>1, <2>2, <2>3, <2>4, <2>5 DEF ExchangeEnds, Sleeps
<1>12. ASSUME NEW e \in NtpErrors, ExchangeSamples(e) PROVE TypeOK'
  <2>1. RealUnix + e \in Int
    BY <1>0, IntervalAssumption
  <2> QED BY <1>12, <2>1 DEF ExchangeSamples
<1> QED BY <1>1, <1>2, <1>3, <1>4, <1>5, <1>6, <1>7, <1>8, <1>9, <1>10, <1>11, <1>12 DEF Next

\* An exchange begins only for a clock that is due, and the clock is not set
\* while it lasts.
LEMMA DueKept == ASSUME TypeOK, ExchangeIsDue, Next PROVE ExchangeIsDue'
<1> USE DEF ExchangeIsDue, budget, task, history
<1>1. mono \in Nat /\ clock.mono \in Nat /\ clock.mono <= mono /\ Ticks(ResyncInterval) \in Nat
  BY Numbers
<1>2. CASE Tick
  BY <1>1, <1>2 DEF Tick
<1>3. CASE Unlock \/ Close \/ LinkChanges
  BY <1>3 DEF Unlock, Close, LinkChanges
<1>4. ASSUME NEW e \in UsbErrors, SyncFromUsb(e) PROVE ExchangeIsDue'
  BY <1>4 DEF SyncFromUsb
<1>5. CASE PollLooks \/ PollNotDue \/ PollLocked \/ ExchangeFails \/ ExchangeEnds
  <2>1. poll' \in {"wait", "sleep"}
    BY <1>5 DEF PollLooks, PollNotDue, PollLocked, ExchangeFails, ExchangeEnds, Sleeps
  <2> QED BY <2>1
<1>6. CASE PollBegins
  <2>1. UNCHANGED <<mono, clock>>
    BY <1>6 DEF PollBegins
  <2>2. clock.synchronized => ResyncDue(clock, mono)
    BY <1>6 DEF PollBegins, InitialDue, PeriodicDue, Readiness
  <2> QED BY <2>1, <2>2, <1>1 DEF ResyncDue, Elapsed
<1>7. ASSUME NEW e \in NtpErrors, ExchangeSamples(e) PROVE ExchangeIsDue'
  BY <1>7 DEF ExchangeSamples
<1> QED BY <1>2, <1>3, <1>4, <1>5, <1>6, <1>7 DEF Next

\* A new origin has no drift.
LEMMA NewOrigin ==
    ASSUME mono \in Nat, NEW unix \in Int, clock'.unix = unix, clock'.mono = mono,
           origin' = [unix |-> unix, mono |-> mono], accepted' = 0
    PROVE  DriftBounded'
<1>1. Ticks(unix) \in Int /\ Ticks(ResyncInterval) \in Int
      /\ Ticks(MaxJump) + TicksPerSecond - 1 \in Int
  <2>1. ResyncInterval \in Int
    BY IntervalAssumption
  <2>2. Ticks(unix) \in Int /\ Ticks(ResyncInterval) \in Int
    BY <2>1, TicksLinear
  <2> QED BY <2>2, Constants
<1>2. 0 * Ticks(ResyncInterval) = 0 /\ 0 * (Ticks(MaxJump) + TicksPerSecond - 1) = 0
  BY <1>1
<1>3. (Ticks(unix) - mono) - (Ticks(unix) - mono) = 0 /\ Abs(0) = 0 /\ mono - mono = 0
  BY <1>1 DEF Abs
<1> QED BY <1>2, <1>3 DEF DriftBounded

\* Only an accepted sample moves a clock away from its origin.
LEMMA DriftNext == ASSUME ClockInv, Next PROVE DriftBounded'
<1> USE DEF budget, task, history
<1>0. mono \in Nat /\ RealUnix \in Int /\ sample \in Int
  BY Numbers DEF ClockInv
<1>1. CASE UNCHANGED <<clock, origin, accepted>>
  BY <1>1, DriftKept DEF ClockInv
<1>2. ASSUME NEW e \in UsbErrors, SyncFromUsb(e) PROVE DriftBounded'
  <2>1. RealUnix + e \in Int
    BY <1>0, IntervalAssumption
  <2>2. /\ clock'.unix = RealUnix + e /\ clock'.mono = mono /\ accepted' = 0
        /\ origin' = [unix |-> RealUnix + e, mono |-> mono]
    BY <1>2 DEF SyncFromUsb, Anchor
  <2> QED BY <1>0, <2>1, <2>2, NewOrigin
<1>3. CASE ExchangeEnds
  <2>1. CASE ~AcceptableJump(clock, sample, mono)
    BY <1>1, <1>3, <2>1 DEF ExchangeEnds
  <2>2. CASE AcceptableJump(clock, sample, mono) /\ clock.synchronized
    BY <1>3, <2>2, DriftStep DEF ExchangeEnds
  <2>3. CASE AcceptableJump(clock, sample, mono) /\ ~clock.synchronized
    <3>1. /\ clock'.unix = sample /\ clock'.mono = mono /\ accepted' = 0
          /\ origin' = [unix |-> sample, mono |-> mono]
      BY <1>3, <2>3 DEF ExchangeEnds, Anchor
    <3> QED BY <1>0, <3>1, NewOrigin
  <2> QED BY <2>1, <2>2, <2>3
<1>4. CASE \/ Tick \/ Unlock \/ Close \/ LinkChanges
           \/ PollLooks \/ PollNotDue \/ PollLocked \/ PollBegins \/ ExchangeFails
           \/ \E e \in NtpErrors : ExchangeSamples(e)
  <2>1. UNCHANGED <<clock, origin, accepted>>
    BY <1>4 DEF Tick, Unlock, Close, LinkChanges, PollLooks, PollNotDue, PollLocked,
                PollBegins, ExchangeFails, ExchangeSamples
  <2> QED BY <2>1, <1>1
<1> QED BY <1>2, <1>3, <1>4 DEF Next

-----------------------------------------------------------------------------
(* The theorems                                                            *)

\* The clock of a Device that starts is not set.
LEMMA InitClock == Init => ClockInv
<1> SUFFICES ASSUME Init PROVE ClockInv
  OBVIOUS
<1>1. TypeOK
  <2>1. /\ clock \in [synchronized : BOOLEAN, unix : Int, mono : 0..mono,
                      source : {"none", "ntp", "usb"}]
        /\ origin \in [unix : Int, mono : 0..mono]
    BY DEF Init
  <2>2. unlocked \in BOOLEAN /\ link \in BOOLEAN /\ untried \in BOOLEAN
    BY DEF Init
  <2>3. mono \in 0..MaxTime
    BY Constants DEF Init
  <2> QED BY <2>1, <2>2, <2>3 DEF Init, TypeOK
<1> QED BY <1>1 DEF Init, ClockInv, ExchangeIsDue, DriftBounded

\* The invariant of the clock.
THEOREM ClockInvariant == Spec => []ClockInv
<1>1. ClockInv /\ [Next]_vars => ClockInv'
  <2> SUFFICES ASSUME ClockInv, [Next]_vars PROVE ClockInv'
    OBVIOUS
  <2>1. CASE Next
    BY <2>1, TypesKept, DueKept, DriftNext DEF ClockInv
  <2>2. CASE UNCHANGED vars
    BY <2>2 DEF vars, ClockInv, TypeOK, ExchangeIsDue, DriftBounded
  <2> QED BY <2>1, <2>2
<1> QED BY <1>1, InitClock, PTL DEF Spec

\* However often a time server lies to resync_if_due, accept_ntp_sample lets it
\* move the trusted time by no more than one jump, and what rounding loses, per
\* interval since the last anchor it did not choose.
THEOREM ClockDriftBounded == Spec => []DriftBounded
<1>1. ClockInv => DriftBounded
  BY DEF ClockInv
<1> QED BY <1>1, ClockInvariant, PTL

\* The types of the clock and of the attempts to set it.
THEOREM ClockTypes == Spec => []TypeOK
<1>1. ClockInv => TypeOK
  BY DEF ClockInv
<1> QED BY <1>1, ClockInvariant, PTL

-----------------------------------------------------------------------------
(* The invariant of the retry budgets                                      *)

\* The error of the clock, in ticks
ClockError == Ticks(Epoch) + clock.mono - Ticks(clock.unix)

\* A clock whose error is far enough from a jump for an honest sample, rounded
\* and taken up to MaxExchange ago, to be accepted at any time.
Sound ==
    /\ clock.synchronized
    /\ Abs(ClockError) <= Ticks(MaxJump - Seconds(MaxExchange) - 1) - 1

\* The longest that the steps from an eligible moment to here can have taken
Allowance ==
    timer + (CASE poll = "sleep" -> 0
               [] poll = "wait" -> Poll
               [] poll = "exchange" -> Poll + MaxWait
               [] poll = "sampled" -> Poll + MaxWait + MaxExchange)

\* Service is for an open Vault with a good link, and a sample taken under it is
\* the real time.
ServiceIsGood ==
    /\ served > 0 => unlocked /\ link
    /\ timer <= Patience /\ started <= mono
    /\ poll = "sampled" => sample = Epoch + Seconds(mono - timer) \/ served <= timer

\* What has been paid for: an initial attempt only before the service began, a
\* periodic one also for the exchange in progress or the clock it has set.
PaidBefore ==
    /\ untried => last_initial = Never
    /\ last_initial # Never => last_initial + served <= mono
    /\ last_periodic # Never => last_periodic <= mono
    /\ last_periodic # Never /\ poll \in {"exchange", "sampled"} => last_periodic + timer <= mono
    /\ last_periodic # Never /\ poll \in {"sleep", "wait"} /\ Sound =>
         last_periodic + served <= mono \/ last_periodic <= clock.mono

\* How long the service can have waited for a clock that wants setting.
WaitBounded ==
    /\ ~clock.synchronized =>
         \/ served <= Allowance
         \/ last_initial # Never /\ mono <= last_initial + Ticks(InitialRetry) + Allowance
    /\ Sound /\ poll \in {"sleep", "wait"} =>
         \/ served <= Allowance + MaxExchange
         \/ mono <= clock.mono + Ticks(ResyncInterval) + Allowance
         \/ last_periodic # Never /\ mono <= last_periodic + Ticks(ResyncInterval) + Allowance
    /\ Sound /\ poll \in {"exchange", "sampled"} =>
         \/ served <= Ticks(ResyncInterval) + Allowance
         \/ mono <= clock.mono + Ticks(ResyncInterval) + Allowance

BudgetInv == TypeOK /\ ServiceIsGood /\ PaidBefore /\ WaitBounded

\* The real time and the projected one differ by the clock's error, but for
\* what the two roundings lose.
LEMMA RoundedError ==
    ASSUME TypeOK, NEW t \in Int
    PROVE  LET d == (Epoch + Seconds(mono - t)) - Projected(clock, mono)
           IN  /\ d \in Int /\ ClockError \in Int
               /\ Ticks(d) <= ClockError - t + TicksPerSecond - 1
               /\ ClockError - t - TicksPerSecond + 1 <= Ticks(d)
<1> DEFINE e == mono - clock.mono
           p == Seconds(mono - t)
           s == Seconds(e)
           q == Epoch + p
           u == clock.unix + s
           T == TicksPerSecond
<1>1. /\ mono \in Int /\ clock.mono \in Int /\ clock.unix \in Int /\ Epoch \in Int /\ T \in Int
      /\ mono - t \in Int /\ e \in Int
  <2>1. Epoch \in Int
    BY IntervalAssumption
  <2> QED BY <2>1, Numbers, Constants
<1>2. /\ p \in Int /\ Ticks(p) <= mono - t /\ mono - t <= Ticks(p) + T - 1
      /\ s \in Int /\ Ticks(s) <= e /\ e <= Ticks(s) + T - 1
  BY <1>1, Rounding
<1> HIDE DEF p, s
<1>3. /\ q \in Int /\ u \in Int /\ Ticks(q) = Ticks(Epoch) + Ticks(p)
      /\ Ticks(u) = Ticks(clock.unix) + Ticks(s)
  <2>1. q \in Int /\ u \in Int
    BY <1>1, <1>2
  <2>2. Ticks(q) = Ticks(Epoch) + Ticks(p)
    BY <1>1, <1>2, TicksLinear
  <2>3. Ticks(u) = Ticks(clock.unix) + Ticks(s)
    BY <1>1, <1>2, TicksLinear
  <2> QED BY <2>1, <2>2, <2>3
<1>4. /\ Ticks(p) \in Int /\ Ticks(s) \in Int /\ Ticks(Epoch) \in Int /\ Ticks(clock.unix) \in Int
  BY <1>1, <1>2, TicksLinear
<1> HIDE DEF q, u
<1>5. q - u \in Int /\ Ticks(q - u) = Ticks(q) - Ticks(u)
  BY <1>3, TicksLinear
<1>6. ClockError \in Int /\ ClockError = Ticks(Epoch) + clock.mono - Ticks(clock.unix)
  BY <1>1, <1>4 DEF ClockError
<1>7. /\ Ticks(q - u) <= ClockError - t + T - 1
      /\ ClockError - t - T + 1 <= Ticks(q - u)
  BY <1>1, <1>2, <1>3, <1>4, <1>5, <1>6
<1>8. q - u = (Epoch + Seconds(mono - t)) - Projected(clock, mono)
  <2>1. Projected(clock, mono) = u
    BY DEF u, s, Projected, Elapsed
  <2>2. Epoch + Seconds(mono - t) = q
    BY DEF q, p
  <2> QED BY <2>1, <2>2
<1> HIDE DEF T
<1> QED BY <1>5, <1>6, <1>7, <1>8 DEF T

\* The room of a jump, in ticks.
LEMMA Room ==
    LET x == Seconds(MaxExchange)
    IN  /\ x \in Int /\ MaxExchange \in Nat /\ Ticks(x) \in Int /\ Ticks(MaxJump) \in Int
        /\ MaxExchange <= Ticks(x) + TicksPerSecond - 1
        /\ Ticks(MaxJump - x - 1) = Ticks(MaxJump) - Ticks(x) - TicksPerSecond
        /\ Ticks(MaxJump - x - 2) = Ticks(MaxJump - x - 1) - TicksPerSecond
        /\ Ticks(MaxJump + 1) = Ticks(MaxJump) + TicksPerSecond
        /\ Ticks(-(MaxJump + 1)) = -(Ticks(MaxJump) + TicksPerSecond)
<1>1. MaxExchange \in Nat /\ MaxJump \in Nat /\ TicksPerSecond \in Nat
  BY IntervalAssumption
<1> DEFINE x == Seconds(MaxExchange)
<1>2. x \in Int /\ MaxExchange <= Ticks(x) + TicksPerSecond - 1
  BY <1>1, Rounding
<1> HIDE DEF x
<1>3. /\ Ticks(x) \in Int /\ Ticks(MaxJump) \in Int
      /\ Ticks(MaxJump - x - 1) = Ticks(MaxJump) - Ticks(x) - TicksPerSecond
      /\ Ticks(MaxJump - x - 2) = Ticks(MaxJump - x - 1) - TicksPerSecond
      /\ Ticks(MaxJump + 1) = Ticks(MaxJump) + TicksPerSecond
      /\ Ticks(-(MaxJump + 1)) = -(Ticks(MaxJump) + TicksPerSecond)
  BY <1>1, <1>2 DEF Ticks
<1> QED BY <1>1, <1>2, <1>3 DEF x

\* An honest sample is accepted by a sound clock.
LEMMA HonestAccepted ==
    ASSUME TypeOK, Sound, sample = Epoch + Seconds(mono - timer), timer <= MaxExchange
    PROVE  AcceptableJump(clock, sample, mono)
<1> DEFINE d == sample - Projected(clock, mono)
           G == ClockError
           T == TicksPerSecond
           x == Seconds(MaxExchange)
<1>1. timer \in Nat /\ clock.synchronized
  BY DEF TypeOK, Sound
<1>2. /\ d \in Int /\ G \in Int /\ Ticks(d) <= G - timer + T - 1 /\ G - timer - T + 1 <= Ticks(d)
  <2>1. timer \in Int /\ d = (Epoch + Seconds(mono - timer)) - Projected(clock, mono)
    BY <1>1
  <2> HIDE DEF d
  <2> QED BY <2>1, RoundedError
<1>3. /\ Ticks(MaxJump - x - 1) = Ticks(MaxJump) - Ticks(x) - T /\ MaxExchange \in Nat
      /\ MaxExchange <= Ticks(x) + T - 1 /\ Ticks(x) \in Int /\ Ticks(MaxJump) \in Int
      /\ Ticks(MaxJump + 1) = Ticks(MaxJump) + T
      /\ Ticks(-(MaxJump + 1)) = -(Ticks(MaxJump) + T) /\ x \in Int
  BY Room
<1>4. T \in Nat /\ T > 0 /\ MaxJump \in Nat
  BY Constants
<1>5. Abs(G) <= Ticks(MaxJump) - Ticks(x) - T - 1
  BY <1>3 DEF Sound
<1> DEFINE k == Ticks(MaxJump) - Ticks(x) - T - 1
<1>6. k \in Int /\ -k <= G /\ G <= k
  <2>1. k \in Int
    BY <1>3, <1>4
  <2> QED BY <2>1, <1>2, <1>5, AbsBound
<1>7. Ticks(d) \in Int
  BY <1>2, TicksLinear
<1> HIDE DEF d, G, T, x
<1>8. Ticks(-(MaxJump + 1)) < Ticks(d) /\ Ticks(d) < Ticks(MaxJump + 1)
  BY <1>1, <1>2, <1>3, <1>4, <1>6, <1>7
<1>9. ~(d <= -(MaxJump + 1)) /\ ~(MaxJump + 1 <= d)
  <2>1. -(MaxJump + 1) \in Int /\ MaxJump + 1 \in Int
    BY <1>4
  <2>2. d <= -(MaxJump + 1) => Ticks(d) <= Ticks(-(MaxJump + 1))
    BY <1>2, <2>1, TicksLinear
  <2>3. MaxJump + 1 <= d => Ticks(MaxJump + 1) <= Ticks(d)
    BY <1>2, <2>1, TicksLinear
  <2>4. Ticks(-(MaxJump + 1)) \in Int /\ Ticks(MaxJump + 1) \in Int
    BY <2>1, TicksLinear
  <2> QED BY <2>2, <2>3, <2>4, <1>7, <1>8
<1>10. Abs(d) <= MaxJump
  BY <1>2, <1>4, <1>9 DEF Abs
<1>11. Elapsed(clock, mono) >= 0
  BY Numbers DEF Elapsed
<1> QED BY <1>10, <1>11 DEF AcceptableJump, d

\* A plausible clock is sound.
LEMMA PlausibleIsSound ==
    ASSUME TypeOK, clock.synchronized, Plausible PROVE Sound
<1> DEFINE d == RealUnix - Projected(clock, mono)
           G == ClockError
           T == TicksPerSecond
           x == Seconds(MaxExchange)
           j == MaxJump - x - 2
<1>1. /\ d \in Int /\ G \in Int /\ Ticks(d) <= G + T - 1 /\ G - T + 1 <= Ticks(d)
  <2>1. mono \in Int /\ mono - 0 = mono
    BY Numbers
  <2>2. d = (Epoch + Seconds(mono - 0)) - Projected(clock, mono)
    <3>1. RealUnix = Epoch + Seconds(mono - 0)
      BY <2>1 DEF RealUnix
    <3> QED BY <3>1
  <2>3. /\ d \in Int /\ G \in Int /\ Ticks(d) <= G - 0 + T - 1 /\ G - 0 - T + 1 <= Ticks(d)
    BY <2>2, RoundedError
  <2>4. T \in Int
    BY Constants
  <2> QED BY <2>3, <2>4
<1>2. T \in Nat /\ MaxJump \in Nat
  BY Constants
<1>3. x \in Int /\ Ticks(j) = Ticks(MaxJump - x - 1) - T
  BY Room
<1>4. Abs(d) + x + 2 <= MaxJump
  BY DEF Plausible
<1> HIDE DEF d, G, x
<1>5. j \in Int /\ -j \in Int /\ -j <= d /\ d <= j
  BY <1>1, <1>2, <1>3, <1>4 DEF Abs
<1> HIDE DEF j
<1>6. Ticks(-j) <= Ticks(d) /\ Ticks(d) <= Ticks(j) /\ Ticks(-j) = -Ticks(j)
  BY <1>1, <1>5, TicksLinear
<1>7. Ticks(j) \in Int /\ Ticks(d) \in Int
  BY <1>1, <1>5, TicksLinear
<1> DEFINE k == Ticks(j) + T - 1
<1>8. k \in Int /\ -k <= G /\ G <= k
  BY <1>1, <1>2, <1>6, <1>7
<1>9. Abs(G) <= k
  <2> HIDE DEF k
  <2> QED BY <1>1, <1>8, AbsBound
<1>10. k = Ticks(MaxJump - x - 1) - 1
  <2>1. MaxJump - x - 1 \in Int
    BY <1>2, <1>3
  <2>2. Ticks(MaxJump - x - 1) \in Int
    BY <2>1, TicksLinear
  <2> QED BY <1>2, <1>3, <2>2 DEF j
<1> QED BY <1>9, <1>10 DEF Sound, G, x

-----------------------------------------------------------------------------
(* The steps and the budgets                                               *)

\* What the intervals are, in ticks.
LEMMA Intervals ==
    /\ Ticks(ResyncInterval) \in Nat /\ Ticks(InitialRetry) \in Nat /\ Ticks(StaleAfter) \in Nat
    /\ Poll \in Nat /\ MaxWait \in Nat /\ MaxExchange \in Nat
    /\ Ticks(InitialRetry) <= Ticks(ResyncInterval) /\ MaxExchange <= Ticks(ResyncInterval)
    /\ ServedBound = Ticks(ResyncInterval) + Poll + MaxWait + 2 * MaxExchange
    /\ ServedBound <= Ticks(StaleAfter)
<1>1. Ticks(InitialRetry) <= Ticks(ResyncInterval)
  BY TicksLinear, IntervalAssumption
<1> QED BY <1>1, IntervalAssumption DEF Ticks, ServedBound

\* The numbers the invariant compares.
LEMMA Counters ==
    ASSUME TypeOK
    PROVE  /\ mono \in Nat /\ timer \in Nat /\ served \in Nat /\ Never = -1
           /\ last_initial \in Int /\ last_periodic \in Int /\ started \in Int
           /\ clock.mono \in Nat /\ clock.mono <= mono /\ clock.synchronized \in BOOLEAN
           /\ poll \in {"sleep", "wait", "exchange", "sampled"}
<1>1. Never = -1
  BY DEF Never
<1>2. last_initial \in Int /\ last_periodic \in Int /\ started \in Int
  BY <1>1, Constants DEF TypeOK
<1> QED BY <1>1, <1>2, Numbers DEF TypeOK

\* What the task may have taken, and may take, by where it is.
LEMMA AllowanceIs ==
    /\ poll = "sleep" => Allowance = timer + 0 /\ Patience = Poll
    /\ poll = "wait" => Allowance = timer + Poll /\ Patience = MaxWait
    /\ poll = "exchange" => Allowance = timer + (Poll + MaxWait) /\ Patience = MaxExchange
    /\ poll = "sampled" => Allowance = timer + (Poll + MaxWait + MaxExchange)
                           /\ Patience = MaxExchange
  BY DEF Allowance, Patience

\* The same after a step.
LEMMA AllowanceNext ==
    /\ poll' = "sleep" => Allowance' = timer' + 0 /\ Patience' = Poll
    /\ poll' = "wait" => Allowance' = timer' + Poll /\ Patience' = MaxWait
    /\ poll' = "exchange" => Allowance' = timer' + (Poll + MaxWait) /\ Patience' = MaxExchange
    /\ poll' = "sampled" => Allowance' = timer' + (Poll + MaxWait + MaxExchange)
                            /\ Patience' = MaxExchange
  BY DEF Allowance, Patience

\* A clock that is not set stays as sound as it was.
LEMMA SoundKept == ASSUME UNCHANGED clock PROVE Sound' <=> Sound
  BY DEF Sound, ClockError

\* What was paid for before the service began still was one tick later.
LEMMA Shift ==
    ASSUME NEW x \in Int, NEW s \in Nat, NEW t \in Nat, NEW m \in Nat,
           x + s <= m, t <= s + 1
    PROVE  x + t <= m + 1
  OBVIOUS

\* Nothing added.
LEMMA PlusZero == ASSUME NEW x \in Int PROVE x + 0 = x
  OBVIOUS

\* A tick.
LEMMA TickBudget == ASSUME BudgetInv, Tick PROVE ServiceIsGood' /\ PaidBefore' /\ WaitBounded'
<1> USE DEF budget, task, history
<1>1. /\ mono \in Nat /\ timer \in Nat /\ served \in Nat /\ Never = -1
      /\ last_initial \in Int /\ last_periodic \in Int /\ started \in Int
      /\ clock.mono \in Nat /\ poll \in {"sleep", "wait", "exchange", "sampled"}
  BY Counters DEF BudgetInv
<1>2. /\ mono' = mono + 1 /\ timer' = timer + 1 /\ timer < Patience
      /\ served' \in {served, served + 1} /\ (served' # served => unlocked /\ link)
      /\ UNCHANGED <<unlocked, link, clock, last_initial, last_periodic, poll, started, sample,
                     untried>>
  BY DEF Tick
<1>3. Patience' = Patience /\ Allowance' = Allowance + 1 /\ Allowance \in Nat /\ Patience \in Nat
  BY <1>1, <1>2, AllowanceIs, AllowanceNext, Intervals
<1>4. mono' - timer' = mono - timer
  BY <1>1, <1>2
<1>5. Sound' <=> Sound
  BY <1>2, SoundKept
<1>6. ServiceIsGood'
  BY <1>1, <1>2, <1>3, <1>4 DEF BudgetInv, ServiceIsGood
<1>7. PaidBefore'
  <2>1. /\ mono \in Nat /\ served \in Nat /\ mono' = mono + 1
        /\ served' \in Nat /\ served' <= served + 1
    BY <1>1, <1>2
  <2>0. /\ untried => last_initial = Never
        /\ last_initial # Never => last_initial + served <= mono
        /\ last_periodic # Never => last_periodic <= mono
        /\ last_periodic # Never /\ poll \in {"sleep", "wait"} /\ Sound =>
             last_periodic + served <= mono \/ last_periodic <= clock.mono
    BY DEF BudgetInv, PaidBefore
  <2>5. ASSUME NEW x \in Int, x + served <= mono PROVE x + served' <= mono'
    BY <2>1, <2>5, Shift
  <2>6. last_initial # Never => last_initial + served' <= mono'
    BY <1>1, <2>0, <2>5
  <2>7. last_periodic # Never => last_periodic <= mono'
    <3>1. last_periodic \in Int
      BY <1>1
    <3> QED BY <2>0, <2>1, <3>1
  <2>2. /\ untried => last_initial = Never
        /\ last_initial # Never => last_initial + served' <= mono'
        /\ last_periodic # Never => last_periodic <= mono'
    BY <2>0, <2>6, <2>7
  <2>3. last_periodic # Never /\ poll \in {"exchange", "sampled"} =>
          last_periodic + timer' <= mono'
    BY <1>1, <1>2 DEF BudgetInv, PaidBefore
  <2>4. last_periodic # Never /\ poll \in {"sleep", "wait"} /\ Sound =>
          last_periodic + served' <= mono' \/ last_periodic <= clock.mono
    BY <1>1, <2>0, <2>5
  <2> QED BY <1>2, <1>5, <2>2, <2>3, <2>4 DEF PaidBefore
<1>8. WaitBounded'
  BY <1>1, <1>2, <1>3, <1>5, Intervals DEF BudgetInv, WaitBounded
<1> QED BY <1>6, <1>7, <1>8

\* The Vault opens or closes, or the link changes: the service starts anew.
LEMMA WorldBudget ==
    ASSUME BudgetInv, Unlock \/ Close \/ LinkChanges
    PROVE  ServiceIsGood' /\ PaidBefore' /\ WaitBounded'
<1> USE DEF budget, task, history
<1>1. /\ mono \in Nat /\ timer \in Nat /\ served \in Nat /\ Never = -1
      /\ last_initial \in Int /\ last_periodic \in Int /\ started \in Int
      /\ clock.mono \in Nat /\ poll \in {"sleep", "wait", "exchange", "sampled"}
  BY Counters DEF BudgetInv
<1>2. /\ served' = 0
      /\ UNCHANGED <<mono, clock, last_initial, last_periodic, poll, timer, started, sample,
                     untried>>
  BY <1>1 DEF Unlock, Close, LinkChanges, BudgetInv, ServiceIsGood
<1>3. Patience' = Patience /\ Allowance' = Allowance /\ Allowance \in Nat
  BY <1>1, <1>2, AllowanceIs, AllowanceNext, Intervals
<1>4. Sound' <=> Sound
  BY <1>2, SoundKept
<1>5. ServiceIsGood'
  BY <1>1, <1>2, <1>3 DEF BudgetInv, ServiceIsGood
<1>6. PaidBefore'
  BY <1>1, <1>2, <1>4 DEF BudgetInv, PaidBefore
<1>7. WaitBounded'
  BY <1>1, <1>2, <1>3, Intervals DEF WaitBounded
<1> QED BY <1>5, <1>6, <1>7

\* A clock that has just been set waits for nothing.
LEMMA FreshBudget ==
    ASSUME BudgetInv, clock'.synchronized, clock'.mono = mono, timer' \in Nat, timer' <= Patience',
           poll' \in {"sleep", "wait"}, UNCHANGED <<mono, unlocked, link, started, served, last_periodic>>,
           last_initial' \in {last_initial, Never}, untried' => untried
    PROVE  ServiceIsGood' /\ PaidBefore' /\ WaitBounded'
<1>1. /\ mono \in Nat /\ served \in Nat /\ Never = -1
      /\ last_initial \in Int /\ last_periodic \in Int /\ started \in Int
  BY Counters DEF BudgetInv
<1>2. Allowance' \in Nat
  BY AllowanceNext, Intervals
<1>3. ServiceIsGood'
  BY <1>1 DEF BudgetInv, ServiceIsGood
<1>4. PaidBefore'
  BY <1>1 DEF BudgetInv, PaidBefore
<1>5. WaitBounded'
  <2>1. mono' <= clock'.mono + Ticks(ResyncInterval) + Allowance'
    BY <1>1, <1>2, Intervals
  <2> QED BY <2>1 DEF WaitBounded
<1> QED BY <1>3, <1>4, <1>5

\* USB sets the clock while no exchange is in progress.
LEMMA UsbBudget ==
    ASSUME BudgetInv, NEW e \in UsbErrors, SyncFromUsb(e)
    PROVE  ServiceIsGood' /\ PaidBefore' /\ WaitBounded'
<1> USE DEF budget, task, history
<1>1. timer \in Nat /\ poll \in {"sleep", "wait", "exchange", "sampled"}
  BY Counters DEF BudgetInv
<1>2. timer <= Patience
  BY DEF BudgetInv, ServiceIsGood
<1>3. poll' = poll /\ timer' = timer /\ poll \in {"sleep", "wait"}
  BY <1>1 DEF SyncFromUsb
<1>4. timer' <= Patience'
  BY <1>2, <1>3, AllowanceIs, AllowanceNext
<1>5. clock'.synchronized /\ clock'.mono = mono
  BY DEF SyncFromUsb, Anchor
<1>6. /\ UNCHANGED <<mono, unlocked, link, started, served, last_periodic>>
      /\ last_initial' \in {last_initial, Never} /\ (untried' => untried)
  BY DEF SyncFromUsb
<1> QED BY <1>1, <1>3, <1>4, <1>5, <1>6, FreshBudget

\* A poll that finds nothing to do sleeps again: the clock was just young, or an
\* attempt was.
LEMMA AsleepBudget ==
    ASSUME BudgetInv, poll \in {"sleep", "wait"}, poll' = "sleep", timer' = 0,
           UNCHANGED <<mono, unlocked, link, clock, started, served, last_initial, last_periodic,
                       untried>>,
           ~clock.synchronized =>
             last_initial # Never /\ mono <= last_initial + Ticks(InitialRetry),
           clock.synchronized =>
             \/ mono <= clock.mono + Ticks(ResyncInterval)
             \/ last_periodic # Never /\ mono <= last_periodic + Ticks(ResyncInterval)
    PROVE  ServiceIsGood' /\ PaidBefore' /\ WaitBounded'
<1>1. /\ mono \in Nat /\ served \in Nat /\ last_initial \in Int /\ last_periodic \in Int
      /\ clock.mono \in Nat
  BY Counters DEF BudgetInv
<1>2. Allowance' = 0 /\ Patience' = Poll
  BY AllowanceNext
<1>3. Sound' <=> Sound
  BY SoundKept
<1>4. ServiceIsGood'
  BY <1>2, Intervals DEF BudgetInv, ServiceIsGood
<1>5. PaidBefore'
  BY <1>3 DEF BudgetInv, PaidBefore
<1>6. /\ ~clock.synchronized =>
           last_initial # Never /\ mono <= last_initial + Ticks(InitialRetry) + 0
      /\ clock.synchronized =>
           \/ mono <= clock.mono + Ticks(ResyncInterval) + 0
           \/ last_periodic # Never /\ mono <= last_periodic + Ticks(ResyncInterval) + 0
  BY <1>1, Intervals
<1>7. Sound => clock.synchronized
  BY DEF Sound
<1>8. WaitBounded'
  BY <1>2, <1>3, <1>6, <1>7 DEF WaitBounded
<1> QED BY <1>4, <1>5, <1>8

\* The look before the mutex.
LEMMA LooksBudget ==
    ASSUME BudgetInv, PollLooks PROVE ServiceIsGood' /\ PaidBefore' /\ WaitBounded'
<1> USE DEF budget, task, history
<1>1. /\ mono \in Nat /\ timer \in Nat /\ served \in Nat /\ Never = -1
      /\ last_initial \in Int /\ last_periodic \in Int
      /\ clock.mono \in Nat /\ clock.mono <= mono
  BY Counters DEF BudgetInv
<1>2. /\ poll = "sleep" /\ timer = Poll /\ timer' = 0
      /\ UNCHANGED <<mono, unlocked, link, clock, started, served, last_initial, last_periodic,
                     untried>>
  BY DEF PollLooks, Sleeps
<1>3. CASE Readiness(clock, mono) = "not_synced" \/ ResyncDue(clock, mono)
  <2>1. poll' = "wait"
    BY <1>3 DEF PollLooks
  <2>2. Allowance' = Poll /\ Allowance = Poll /\ Patience' = MaxWait
    BY <1>2, <2>1, AllowanceIs, AllowanceNext, Intervals
  <2>3. Sound' <=> Sound
    BY <1>2, SoundKept
  <2>4. ServiceIsGood'
    BY <1>2, <2>1, <2>2, Intervals DEF BudgetInv, ServiceIsGood
  <2>5. PaidBefore'
    BY <1>2, <2>1, <2>3 DEF BudgetInv, PaidBefore
  <2>6. WaitBounded'
    BY <1>2, <2>1, <2>2, <2>3 DEF BudgetInv, WaitBounded
  <2> QED BY <2>4, <2>5, <2>6
<1>4. CASE ~(Readiness(clock, mono) = "not_synced" \/ ResyncDue(clock, mono))
  <2>1. poll' = "sleep"
    BY <1>4 DEF PollLooks, Sleeps
  <2>2. clock.synchronized
    BY <1>4 DEF Readiness
  <2>3. ~(mono - clock.mono >= Ticks(ResyncInterval))
    BY <1>4, <2>2 DEF ResyncDue, Elapsed
  <2>4. mono <= clock.mono + Ticks(ResyncInterval)
    BY <2>3, <1>1, Intervals
  <2> QED BY <1>2, <2>1, <2>2, <2>4, AsleepBudget
<1> QED BY <1>3, <1>4

\* The look under the mutex finds that neither attempt is due.
LEMMA NotDueBudget ==
    ASSUME BudgetInv, PollNotDue PROVE ServiceIsGood' /\ PaidBefore' /\ WaitBounded'
<1> USE DEF budget, task, history
<1>1. /\ mono \in Nat /\ last_initial \in Int /\ last_periodic \in Int
      /\ clock.mono \in Nat /\ clock.mono <= mono
  BY Counters DEF BudgetInv
<1>2. /\ poll = "wait" /\ poll' = "sleep" /\ timer' = 0
      /\ UNCHANGED <<mono, unlocked, link, clock, started, served, last_initial, last_periodic,
                     untried>>
  BY DEF PollNotDue, Sleeps
<1>3. ~clock.synchronized => last_initial # Never /\ mono <= last_initial + Ticks(InitialRetry)
  <2>1. ~clock.synchronized =>
          last_initial # Never /\ ~(mono - last_initial >= Ticks(InitialRetry))
    BY DEF PollNotDue, InitialDue, Readiness
  <2> QED BY <2>1, <1>1, Intervals
<1>4. clock.synchronized =>
        \/ mono <= clock.mono + Ticks(ResyncInterval)
        \/ last_periodic # Never /\ mono <= last_periodic + Ticks(ResyncInterval)
  <2>1. clock.synchronized =>
          \/ ~(mono - clock.mono >= Ticks(ResyncInterval))
          \/ last_periodic # Never /\ ~(mono - last_periodic >= Ticks(ResyncInterval))
    BY DEF PollNotDue, PeriodicDue, ResyncDue, Elapsed
  <2> QED BY <2>1, <1>1, Intervals
<1> QED BY <1>2, <1>3, <1>4, AsleepBudget

\* A poll of a locked Device: there is no service.
LEMMA LockedBudget ==
    ASSUME BudgetInv, PollLocked PROVE ServiceIsGood' /\ PaidBefore' /\ WaitBounded'
<1> USE DEF budget, task, history
<1>1. mono \in Nat /\ served \in Nat /\ last_initial \in Int /\ last_periodic \in Int
  BY Counters DEF BudgetInv
<1>2. /\ poll = "wait" /\ poll' = "sleep" /\ timer' = 0 /\ ~unlocked
      /\ UNCHANGED <<mono, unlocked, link, clock, started, served, last_initial, untried>>
      /\ last_periodic' \in {last_periodic, mono}
  BY DEF PollLocked, Sleeps
<1>3. served = 0
  BY <1>1, <1>2 DEF BudgetInv, ServiceIsGood
<1>4. Allowance' = 0 /\ Patience' = Poll
  BY <1>2, AllowanceNext
<1>5. Sound' <=> Sound
  BY <1>2, SoundKept
<1>6. ServiceIsGood'
  BY <1>2, <1>4, Intervals DEF BudgetInv, ServiceIsGood
<1>7. PaidBefore'
  <2>1. last_periodic' # Never => last_periodic' <= mono
    BY <1>1, <1>2 DEF BudgetInv, PaidBefore
  <2>2. last_periodic' \in Int /\ served' = 0
    BY <1>1, <1>2, <1>3
  <2>3. last_periodic' # Never => last_periodic' + served' <= mono
    <3>1. last_periodic' + served' = last_periodic'
      BY <2>2, PlusZero
    <3> QED BY <2>1, <3>1
  <2> QED BY <1>2, <2>1, <2>3 DEF BudgetInv, PaidBefore
<1>8. WaitBounded'
  BY <1>2, <1>3, <1>4, Intervals DEF WaitBounded
<1> QED BY <1>6, <1>7, <1>8

\* An exchange begins: what was paid for a clock that is due was paid before the
\* service began.
LEMMA BeginsBudget ==
    ASSUME BudgetInv, PollBegins PROVE ServiceIsGood' /\ PaidBefore' /\ WaitBounded'
<1> USE DEF budget, task, history
<1>1. /\ mono \in Nat /\ timer \in Nat /\ served \in Nat /\ Never = -1
      /\ last_initial \in Int /\ last_periodic \in Int
      /\ clock.mono \in Nat /\ clock.mono <= mono
  BY Counters DEF BudgetInv
<1>2. /\ poll = "wait" /\ poll' = "exchange" /\ timer' = 0 /\ started' = mono
      /\ UNCHANGED <<mono, unlocked, link, clock, served, last_initial, untried>>
      /\ last_periodic' \in {last_periodic, mono}
  BY DEF PollBegins
<1>3. timer <= MaxWait
  BY <1>2, AllowanceIs DEF BudgetInv, ServiceIsGood
<1>4. /\ Allowance \in Nat /\ Allowance' \in Nat /\ Allowance <= Allowance'
      /\ Patience' = MaxExchange
  BY <1>1, <1>2, <1>3, AllowanceIs, AllowanceNext, Intervals
<1>5. Sound' <=> Sound
  BY <1>2, SoundKept
<1>6. ServiceIsGood'
  BY <1>1, <1>2, <1>4, Intervals DEF BudgetInv, ServiceIsGood
<1>7. PaidBefore'
  <2>1. last_periodic' # Never => last_periodic' <= mono
    BY <1>1, <1>2 DEF BudgetInv, PaidBefore
  <2>2. last_periodic' + timer' = last_periodic'
    <3>1. last_periodic' \in Int /\ timer' = 0
      BY <1>1, <1>2
    <3> QED BY <3>1, PlusZero
  <2> QED BY <1>2, <2>1, <2>2 DEF BudgetInv, PaidBefore
<1>8. ~clock.synchronized =>
         \/ served <= Allowance'
         \/ last_initial # Never /\ mono <= last_initial + Ticks(InitialRetry) + Allowance'
  <2>1. ~clock.synchronized =>
          \/ served <= Allowance
          \/ last_initial # Never /\ mono <= last_initial + Ticks(InitialRetry) + Allowance
    BY DEF BudgetInv, WaitBounded
  <2> QED BY <2>1, <1>1, <1>4, Intervals
<1>9. ASSUME Sound
      PROVE  \/ served <= Ticks(ResyncInterval) + Allowance'
             \/ mono <= clock.mono + Ticks(ResyncInterval) + Allowance'
  <2> DEFINE R == Ticks(ResyncInterval)
             A == Allowance
             B == Allowance'
  <2>1. \/ served <= A + MaxExchange
        \/ mono <= clock.mono + R + A
        \/ last_periodic # Never /\ mono <= last_periodic + R + A
    BY <1>2, <1>9 DEF BudgetInv, WaitBounded
  <2>2. last_periodic # Never =>
          last_periodic + served <= mono \/ last_periodic <= clock.mono
    BY <1>2, <1>9 DEF BudgetInv, PaidBefore
  <2>3. /\ A \in Nat /\ B \in Nat /\ A <= B /\ R \in Nat /\ MaxExchange \in Nat
        /\ MaxExchange <= R
    BY <1>4, Intervals
  <2> SUFFICES served <= R + B \/ mono <= clock.mono + R + B
    OBVIOUS
  <2> HIDE DEF R, A, B
  <2>4. CASE served <= A + MaxExchange
    BY <2>3, <2>4, <1>1
  <2>5. CASE mono <= clock.mono + R + A
    BY <2>3, <2>5, <1>1
  <2>6. CASE last_periodic # Never /\ mono <= last_periodic + R + A
    <3>1. CASE last_periodic + served <= mono
      BY <2>3, <2>6, <3>1, <1>1
    <3>2. CASE last_periodic <= clock.mono
      BY <2>3, <2>6, <3>2, <1>1
    <3> QED BY <2>2, <2>6, <3>1, <3>2
  <2> QED BY <2>1, <2>4, <2>5, <2>6
<1>10. WaitBounded'
  BY <1>2, <1>5, <1>8, <1>9 DEF WaitBounded
<1> QED BY <1>6, <1>7, <1>10

\* An exchange fails only without a good link: there is no service.
LEMMA FailsBudget ==
    ASSUME BudgetInv, ExchangeFails PROVE ServiceIsGood' /\ PaidBefore' /\ WaitBounded'
<1> USE DEF budget, task, history
<1>1. /\ mono \in Nat /\ served \in Nat /\ last_initial \in Int /\ last_periodic \in Int
      /\ started \in Int
  BY Counters DEF BudgetInv
<1>2. /\ poll' = "sleep" /\ timer' = 0 /\ ~link /\ ~untried'
      /\ UNCHANGED <<mono, unlocked, link, clock, started, served, last_periodic>>
      /\ last_initial' \in {last_initial, started}
  BY DEF ExchangeFails, Sleeps, InitialPaid
<1>3. served = 0
  BY <1>1, <1>2 DEF BudgetInv, ServiceIsGood
<1>4. Allowance' = 0 /\ Patience' = Poll
  BY <1>2, AllowanceNext
<1>5. ServiceIsGood'
  BY <1>2, <1>4, Intervals DEF BudgetInv, ServiceIsGood
<1>6. PaidBefore'
  <2>1. /\ last_initial # Never => last_initial + served <= mono
        /\ last_periodic # Never => last_periodic <= mono
        /\ started <= mono
    BY DEF BudgetInv, PaidBefore, ServiceIsGood
  <2>2. /\ last_initial + served = last_initial /\ started + served = started
        /\ last_periodic + served = last_periodic
    BY <1>1, <1>3
  <2>3. last_initial' # Never => last_initial' + served <= mono
    BY <1>2, <2>1, <2>2
  <2> QED BY <1>2, <2>1, <2>2, <2>3 DEF PaidBefore
<1>7. WaitBounded'
  BY <1>2, <1>3, <1>4, Intervals DEF WaitBounded
<1> QED BY <1>5, <1>6, <1>7

\* A sample: under a good link it is the real time.
LEMMA SamplesBudget ==
    ASSUME BudgetInv, NEW e \in NtpErrors, ExchangeSamples(e)
    PROVE  ServiceIsGood' /\ PaidBefore' /\ WaitBounded'
<1> USE DEF budget, task, history
<1>1. /\ mono \in Nat /\ timer \in Nat /\ served \in Nat /\ Never = -1
      /\ last_initial \in Int /\ last_periodic \in Int
      /\ clock.mono \in Nat /\ clock.mono <= mono
  BY Counters DEF BudgetInv
<1>2. /\ poll = "exchange" /\ poll' = "sampled" /\ timer' = 0 /\ (link => e = 0)
      /\ sample' = RealUnix + e
      /\ UNCHANGED <<mono, unlocked, link, clock, started, served, last_initial, last_periodic,
                     untried>>
  BY DEF ExchangeSamples
<1>3. timer <= MaxExchange
  BY <1>2, AllowanceIs DEF BudgetInv, ServiceIsGood
<1>4. /\ Allowance \in Nat /\ Allowance' \in Nat /\ Allowance <= Allowance'
      /\ Patience' = MaxExchange
  BY <1>1, <1>2, <1>3, AllowanceIs, AllowanceNext, Intervals
<1>5. Sound' <=> Sound
  BY <1>2, SoundKept
<1>6. sample' = Epoch + Seconds(mono - timer') \/ served <= timer'
  <2>1. CASE link
    <3>1. RealUnix \in Int /\ mono - 0 = mono
      BY <1>1, Numbers DEF BudgetInv
    <3>2. sample' = RealUnix
      BY <1>2, <2>1, <3>1
    <3> QED BY <1>2, <3>1, <3>2 DEF RealUnix
  <2>2. CASE ~link
    BY <1>1, <1>2, <2>2 DEF BudgetInv, ServiceIsGood
  <2> QED BY <2>1, <2>2
<1>7. ServiceIsGood'
  BY <1>2, <1>4, <1>6, Intervals DEF BudgetInv, ServiceIsGood
<1>8. PaidBefore'
  <2>1. last_periodic + timer' = last_periodic
    BY <1>1, <1>2
  <2> QED BY <1>2, <2>1 DEF BudgetInv, PaidBefore
<1>9. ~clock.synchronized =>
         \/ served <= Allowance'
         \/ last_initial # Never /\ mono <= last_initial + Ticks(InitialRetry) + Allowance'
  <2>1. ~clock.synchronized =>
          \/ served <= Allowance
          \/ last_initial # Never /\ mono <= last_initial + Ticks(InitialRetry) + Allowance
    BY DEF BudgetInv, WaitBounded
  <2> QED BY <2>1, <1>1, <1>4, Intervals
<1>10. Sound =>
         \/ served <= Ticks(ResyncInterval) + Allowance'
         \/ mono <= clock.mono + Ticks(ResyncInterval) + Allowance'
  <2>1. Sound =>
          \/ served <= Ticks(ResyncInterval) + Allowance
          \/ mono <= clock.mono + Ticks(ResyncInterval) + Allowance
    BY <1>2 DEF BudgetInv, WaitBounded
  <2> QED BY <2>1, <1>1, <1>4, Intervals
<1>11. WaitBounded'
  BY <1>2, <1>5, <1>9, <1>10 DEF WaitBounded
<1> QED BY <1>7, <1>8, <1>11

\* A sample that is refused under a sound clock was taken without a good link:
\* the service is younger than the sample.
LEMMA EndsBudget ==
    ASSUME BudgetInv, ExchangeEnds PROVE ServiceIsGood' /\ PaidBefore' /\ WaitBounded'
<1> USE DEF budget, task, history
<1>1. /\ mono \in Nat /\ timer \in Nat /\ served \in Nat /\ Never = -1
      /\ last_initial \in Int /\ last_periodic \in Int /\ started \in Int
  BY Counters DEF BudgetInv
<1>2. /\ poll = "sampled" /\ poll' = "sleep" /\ timer' = 0
      /\ UNCHANGED <<mono, unlocked, link, started, served, last_periodic>>
  BY DEF ExchangeEnds, Sleeps
<1>3. Allowance' = 0 /\ Patience' = Poll /\ timer' <= Patience'
  BY <1>2, AllowanceNext, Intervals
<1>4. CASE AcceptableJump(clock, sample, mono)
  <2>1. clock'.synchronized /\ clock'.mono = mono
    BY <1>4 DEF ExchangeEnds, Anchor
  <2>2. last_initial' \in {last_initial, Never} /\ untried' = untried
    BY <1>4 DEF ExchangeEnds
  <2> QED BY <1>2, <1>3, <2>1, <2>2, FreshBudget
<1>5. CASE ~AcceptableJump(clock, sample, mono)
  <2>1. clock.synchronized
    BY <1>5 DEF AcceptableJump
  <2>2. UNCHANGED <<clock, last_initial>> /\ ~untried'
    BY <1>5, <2>1 DEF ExchangeEnds, InitialPaid
  <2>3. Sound' <=> Sound
    BY <2>2, SoundKept
  <2>4. timer <= MaxExchange
    BY <1>2, AllowanceIs DEF BudgetInv, ServiceIsGood
  <2>5. Sound => served <= timer
    <3>1. sample = Epoch + Seconds(mono - timer) \/ served <= timer
      BY <1>2 DEF BudgetInv, ServiceIsGood
    <3> QED BY <1>5, <2>4, <3>1, HonestAccepted DEF BudgetInv
  <2>6. ServiceIsGood'
    BY <1>2, <1>3 DEF BudgetInv, ServiceIsGood
  <2>7. PaidBefore'
    <3>1. /\ last_initial # Never => last_initial + served <= mono
          /\ last_periodic # Never => last_periodic <= mono
          /\ last_periodic # Never => last_periodic + timer <= mono
      BY <1>2 DEF BudgetInv, PaidBefore
    <3>2. Sound /\ last_periodic # Never => last_periodic + served <= mono
      BY <1>1, <2>5, <3>1
    <3> QED BY <1>2, <2>2, <2>3, <3>1, <3>2 DEF PaidBefore
  <2>8. WaitBounded'
    <3>1. Sound => served <= 0 + MaxExchange
      BY <1>1, <2>4, <2>5, Intervals
    <3> QED BY <1>2, <1>3, <2>1, <2>2, <2>3, <3>1 DEF WaitBounded
  <2> QED BY <2>6, <2>7, <2>8
<1> QED BY <1>4, <1>5

-----------------------------------------------------------------------------
(* The theorems about the budgets                                          *)

\* A Device that starts has paid for nothing.
LEMMA InitBudget == Init => BudgetInv
<1> SUFFICES ASSUME Init PROVE BudgetInv
  OBVIOUS
<1>1. TypeOK
  BY InitClock DEF ClockInv
<1>2. Never = -1
  BY DEF Never
<1>3. ServiceIsGood
  BY <1>2, AllowanceIs, Intervals DEF Init, ServiceIsGood
<1>4. PaidBefore
  BY DEF Init, PaidBefore
<1>5. WaitBounded
  <2>1. Allowance = 0 /\ served = 0 /\ ~clock.synchronized
    BY AllowanceIs DEF Init
  <2> QED BY <2>1 DEF WaitBounded, Sound
<1> QED BY <1>1, <1>3, <1>4, <1>5 DEF BudgetInv

\* The invariant of the retry budgets.
THEOREM BudgetInvariant == Spec => []BudgetInv
<1>1. BudgetInv /\ [Next]_vars => BudgetInv'
  <2> SUFFICES ASSUME BudgetInv, [Next]_vars PROVE BudgetInv'
    OBVIOUS
  <2>1. CASE Next
    <3>1. TypeOK'
      BY <2>1, TypesKept DEF BudgetInv
    <3>2. ServiceIsGood' /\ PaidBefore' /\ WaitBounded'
      BY <2>1, TickBudget, WorldBudget, UsbBudget, LooksBudget, NotDueBudget, LockedBudget,
         BeginsBudget, FailsBudget, EndsBudget, SamplesBudget DEF Next
    <3> QED BY <3>1, <3>2 DEF BudgetInv
  <2>2. CASE UNCHANGED vars
    BY <2>2 DEF vars, BudgetInv, TypeOK, ServiceIsGood, PaidBefore, WaitBounded, Sound,
                ClockError, Allowance, Patience
  <2> QED BY <2>1, <2>2
<1> QED BY <1>1, InitBudget, PTL DEF Spec

\* A clock that is served long enough has been set, and recently.
LEMMA BudgetIsEnough == BudgetInv => ReadyWhileServed
<1> SUFFICES ASSUME BudgetInv PROVE ReadyWhileServed
  OBVIOUS
<1> DEFINE R == Ticks(ResyncInterval)
           L == Poll + MaxWait + 2 * MaxExchange
<1>1. /\ mono \in Nat /\ timer \in Nat /\ served \in Nat /\ Never = -1
      /\ last_initial \in Int /\ last_periodic \in Int
      /\ clock.mono \in Nat /\ clock.mono <= mono
      /\ poll \in {"sleep", "wait", "exchange", "sampled"}
  BY Counters DEF BudgetInv
<1>2. /\ R \in Nat /\ Ticks(InitialRetry) \in Nat /\ Ticks(InitialRetry) <= R
      /\ Poll \in Nat /\ MaxWait \in Nat /\ MaxExchange \in Nat /\ MaxExchange <= R
      /\ Ticks(StaleAfter) \in Nat /\ ServedBound = R + L /\ R + L <= Ticks(StaleAfter)
  BY Intervals
<1>3. timer <= Patience
  BY DEF BudgetInv, ServiceIsGood
<1>4. /\ Allowance \in Nat /\ L \in Nat /\ Allowance <= L
      /\ poll \in {"sleep", "wait"} => Allowance + MaxExchange <= L
  BY <1>1, <1>2, <1>3, AllowanceIs
<1> HIDE DEF R, L
<1>5. ~clock.synchronized /\ untried => served <= L
  <2>1. ~clock.synchronized /\ untried => served <= Allowance
    BY DEF BudgetInv, PaidBefore, WaitBounded
  <2> QED BY <1>1, <1>4, <2>1
<1>6. ~clock.synchronized => served <= R + L
  <2>1. ~clock.synchronized =>
          \/ served <= Allowance
          \/ /\ last_initial + served <= mono
             /\ mono <= last_initial + Ticks(InitialRetry) + Allowance
    BY DEF BudgetInv, PaidBefore, WaitBounded
  <2> QED BY <1>1, <1>2, <1>4, <2>1
<1>7. Sound => served <= R + L \/ mono - clock.mono <= R + L
  <2>1. CASE poll \in {"exchange", "sampled"}
    <3>1. Sound => served <= R + Allowance \/ mono <= clock.mono + R + Allowance
      BY <2>1 DEF BudgetInv, WaitBounded, R
    <3> QED BY <1>1, <1>2, <1>4, <3>1
  <2>2. CASE poll \in {"sleep", "wait"}
    <3>1. Sound =>
            \/ served <= Allowance + MaxExchange
            \/ mono <= clock.mono + R + Allowance
            \/ last_periodic # Never /\ mono <= last_periodic + R + Allowance
      BY <2>2 DEF BudgetInv, WaitBounded, R
    <3>2. Sound /\ last_periodic # Never =>
            last_periodic + served <= mono \/ last_periodic <= clock.mono
      BY <2>2 DEF BudgetInv, PaidBefore
    <3>3. Allowance + MaxExchange <= L
      BY <1>4, <2>2
    <3>4. Sound =>
            \/ served <= Allowance + MaxExchange
            \/ mono <= clock.mono + R + Allowance
            \/ /\ mono <= last_periodic + R + Allowance
               /\ last_periodic + served <= mono \/ last_periodic <= clock.mono
      BY <3>1, <3>2
    <3> QED BY <1>1, <1>2, <1>4, <3>3, <3>4
  <2> QED BY <1>1, <2>1, <2>2
<1>8. ASSUME served > ServedBound, Plausible PROVE Readiness(clock, mono) = "ready"
  <2>1. ~(served <= R + L)
    BY <1>1, <1>2, <1>4, <1>8
  <2>2. clock.synchronized
    BY <1>6, <2>1
  <2>3. Sound
    BY <1>8, <2>2, PlausibleIsSound DEF BudgetInv
  <2>4. mono - clock.mono <= R + L
    BY <1>7, <2>1, <2>3
  <2>5. ~(mono - clock.mono < 0) /\ ~(mono - clock.mono > Ticks(StaleAfter))
    BY <1>1, <1>2, <1>4, <2>4
  <2> QED BY <2>2, <2>5 DEF Readiness, Elapsed
<1>9. ASSUME served > L, untried PROVE clock.synchronized
  BY <1>1, <1>4, <1>5, <1>9
<1> QED BY <1>8, <1>9 DEF ReadyWhileServed, L

\* Whatever budget earlier attempts have used, resync_if_due sets the clock of a
\* Device that is open and has an honest time server before it goes stale, and
\* that of a Device just unlocked at its first poll: the polls of the locked
\* Device have not used the initial budget.
THEOREM ClockReadyWhileServed == Spec => []ReadyWhileServed
  BY BudgetInvariant, BudgetIsEnough, PTL

===============================================================================
