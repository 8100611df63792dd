------------------------------ MODULE TrustedTime ------------------------------
(***************************************************************************)
(* The trusted clock (trusted_time.cpp) and the time service's attempts to *)
(* set it (canonical_time_service.cpp): USB time.sync, the periodic NTP    *)
(* poll with its two retry budgets, and a reader of the status.            *)
(*                                                                         *)
(* Time is in ticks, TicksPerSecond of them to a second: the anchor holds  *)
(* seconds, the monotonic timer finer units, and the conversion rounds.    *)
(* The sync mutex is held from the second look of a poll to the end of its *)
(* exchange.  boot_sync runs before any unlock, finds the Vault locked and *)
(* changes nothing; a restart is Init.  The order of the mutexes, and that *)
(* a lock waits for an exchange, are in DeviceTasks: here the Vault may be *)
(* closed at any time.                                                     *)
(***************************************************************************)
EXTENDS Integers

CONSTANTS
    TicksPerSecond,
    ResyncInterval, StaleAfter, \* kResyncIntervalSeconds, kStaleAfterSeconds
    MaxJump,                    \* kMaxNtpJumpSeconds
    InitialRetry,               \* kInitialNtpRetrySeconds
    MinUnix, MaxUnix,           \* kMin/MaxAcceptedUnixSeconds
    Poll,                       \* kPeriodicPollInterval, in ticks
    MaxWait, MaxExchange,       \* ticks for the mutex, and for Wi-Fi and SNTP
    Epoch,                      \* real Unix time when the Device starts
    UsbErrors, NtpErrors,       \* errors of the sources, in seconds
    MaxTime                     \* bound on the monotonic timer, in ticks

ASSUME IntervalAssumption ==
    /\ TicksPerSecond \in Nat \ {0}
    /\ ResyncInterval \in Nat \ {0} /\ StaleAfter \in Nat
    /\ MaxJump \in Nat /\ InitialRetry \in Nat /\ InitialRetry <= ResyncInterval
    /\ Poll \in Nat \ {0} /\ MaxWait \in Nat /\ MaxExchange \in Nat
    /\ ResyncInterval * TicksPerSecond + Poll + MaxWait + 2 * MaxExchange
         <= StaleAfter * TicksPerSecond \* 6 hours and a poll, 24 hours
    /\ MaxExchange <= ResyncInterval * TicksPerSecond \* 14 seconds, 6 hours
    /\ MaxTime \in Nat
    /\ Epoch \in Int /\ MinUnix \in Int /\ MaxUnix \in Int
    /\ UsbErrors \subseteq Int /\ NtpErrors \subseteq Int

VARIABLES
    mono,       \* esp_timer_get_time()
    unlocked,   \* is the Vault open?
    link,       \* TRUE: Wi-Fi is configured and reaches an honest time server
    clock,      \* TrustedClock
    last_initial, last_periodic, \* last_*_attempt_us_
    poll, timer,\* where the periodic task is, and ticks spent there
    started, sample, \* of the last exchange, and of the one in progress
    read_at,    \* a reader of status(): its reading of the timer
    \* history
    origin,     \* the first anchor since which only NTP has changed the clock
    accepted,   \* NTP samples accepted since
    served,     \* ticks the Vault was open and the link good
    untried     \* no exchange has failed since the start

task == <<poll, timer, started, sample>>
budget == <<last_initial, last_periodic>>
history == <<origin, accepted, served, untried>>
vars == <<mono, unlocked, link, clock, last_initial, last_periodic, poll, timer, started,
          sample, read_at, origin, accepted, served, untried>>

Never == -1

TypeOK ==
    /\ mono \in 0..MaxTime
    /\ unlocked \in BOOLEAN /\ link \in BOOLEAN /\ untried \in BOOLEAN
    /\ clock \in [synchronized : BOOLEAN, unix : Int, mono : 0..mono,
                  source : {"none", "ntp", "usb"}]
    /\ last_initial \in {Never} \cup 0..MaxTime /\ last_periodic \in {Never} \cup 0..MaxTime
    /\ poll \in {"sleep", "wait", "exchange", "sampled"}
    /\ timer \in Nat /\ sample \in Int
    /\ started \in {Never} \cup 0..MaxTime /\ read_at \in {Never} \cup 0..MaxTime
    /\ origin \in [unix : Int, mono : 0..mono]
    /\ accepted \in Nat /\ served \in Nat

Init ==
    /\ mono = 0 /\ unlocked = FALSE /\ link \in BOOLEAN
    /\ clock = [synchronized |-> FALSE, unix |-> 0, mono |-> 0, source |-> "none"]
    /\ last_initial = Never /\ last_periodic = Never
    /\ poll = "sleep" /\ timer = 0 /\ started = Never /\ sample = 0
    /\ read_at = Never
    /\ origin = [unix |-> 0, mono |-> 0] /\ accepted = 0
    /\ served = 0 /\ untried = TRUE

-----------------------------------------------------------------------------
(* TrustedClock                                                            *)

Seconds(ticks) == ticks \div TicksPerSecond
Ticks(seconds) == seconds * TicksPerSecond
Abs(n) == IF n < 0 THEN -n ELSE n

Elapsed(c, t) == t - c.mono \* negative: elapsed_us returns -1

\* Unix time by the anchor.  The range of accepted seconds keeps the sum far
\* from 2^64, so the overflow checks never refuse.
Projected(c, t) == c.unix + Seconds(Elapsed(c, t))

Readiness(c, t) ==
    IF ~c.synchronized THEN "not_synced"
    ELSE IF Elapsed(c, t) < 0 \/ Elapsed(c, t) > Ticks(StaleAfter) THEN "stale"
    ELSE "ready"

ResyncDue(c, t) ==
    c.synchronized /\ (Elapsed(c, t) < 0 \/ Elapsed(c, t) >= Ticks(ResyncInterval))

\* accept_ntp_sample's condition
AcceptableJump(c, unix, t) ==
    ~c.synchronized \/ (Elapsed(c, t) >= 0 /\ Abs(unix - Projected(c, t)) <= MaxJump)

AcceptableUnix(unix) == MinUnix <= unix /\ unix <= MaxUnix

Anchor(unix, src) == [synchronized |-> TRUE, unix |-> unix, mono |-> mono, source |-> src]

-----------------------------------------------------------------------------
(* Time, the Vault and the network                                         *)

RealUnix == Epoch + Seconds(mono)

\* The periodic task sleeps Poll ticks and is scheduled within the same tick;
\* its mutex and its exchange take bounded time.
Patience == CASE poll = "sleep" -> Poll
              [] poll = "wait" -> MaxWait
              [] poll \in {"exchange", "sampled"} -> MaxExchange

\* served need not grow past the largest bound a property compares it with.
ServedBound == Ticks(ResyncInterval) + Poll + MaxWait + 2 * MaxExchange

Tick ==
    /\ mono < MaxTime /\ mono' = mono + 1
    /\ timer < Patience /\ timer' = timer + 1
    /\ served' = IF unlocked /\ link /\ served <= ServedBound THEN served + 1 ELSE served
    /\ UNCHANGED <<unlocked, link, clock, budget, poll, started, sample, read_at,
                   origin, accepted, untried>>

Unlock ==
    /\ ~unlocked /\ unlocked' = TRUE
    /\ UNCHANGED <<mono, link, clock, budget, task, read_at, history>>

\* A lock, a reset or a fatal error
Close ==
    /\ unlocked /\ unlocked' = FALSE /\ served' = 0
    /\ UNCHANGED <<mono, link, clock, budget, task, read_at, origin, accepted, untried>>

LinkChanges ==
    /\ link' = ~link /\ served' = 0
    /\ UNCHANGED <<mono, unlocked, clock, budget, task, read_at, origin, accepted, untried>>

-----------------------------------------------------------------------------
(* TimeService                                                             *)

\* sync_from_usb, which waits for the mutex.
SyncFromUsb(error) ==
    LET unix == RealUnix + error
    IN  /\ AcceptableUnix(unix) /\ unlocked
        /\ poll \notin {"exchange", "sampled"}
        /\ clock' = Anchor(unix, "usb")
        /\ origin' = [unix |-> unix, mono |-> mono] /\ accepted' = 0
        /\ UNCHANGED <<mono, unlocked, link, budget, task, read_at, served, untried>>

Sleeps == poll' = "sleep" /\ timer' = 0 /\ sample' = 0 /\ UNCHANGED started

\* resync_if_due, the look before the mutex: nothing to do, or wait for it.
PollLooks ==
    /\ poll = "sleep" /\ timer = Poll
    /\ IF Readiness(clock, mono) = "not_synced" \/ ResyncDue(clock, mono)
       THEN poll' = "wait" /\ timer' = 0 /\ UNCHANGED <<started, sample>>
       ELSE Sleeps
    /\ UNCHANGED <<mono, unlocked, link, clock, budget, read_at, history>>

InitialDue ==
    /\ Readiness(clock, mono) = "not_synced"
    /\ last_initial = Never \/ mono - last_initial >= Ticks(InitialRetry)

\* Mutant: the look before the mutex is not repeated under it.
PeriodicDueByFirstLook ==
    /\ clock.synchronized
    /\ last_periodic = Never \/ mono - last_periodic >= Ticks(ResyncInterval)

PeriodicDue ==
    /\ ResyncDue(clock, mono)
    /\ last_periodic = Never \/ mono - last_periodic >= Ticks(ResyncInterval)

\* resync_if_due, the look under the mutex.  The periodic attempt is paid for
\* whatever comes of it; an initial one only when it ends (see below).
PollNotDue ==
    /\ poll = "wait" /\ ~InitialDue /\ ~PeriodicDue /\ Sleeps
    /\ UNCHANGED <<mono, unlocked, link, clock, budget, read_at, history>>

\* Mutant: a poll of a locked Device counts as an initial attempt.
PollLockedPays ==
    /\ poll = "wait" /\ ~unlocked
    /\ InitialDue \/ PeriodicDue
    /\ last_initial' = IF InitialDue THEN mono ELSE last_initial
    /\ last_periodic' = IF PeriodicDue THEN mono ELSE last_periodic
    /\ Sleeps
    /\ UNCHANGED <<mono, unlocked, link, clock, read_at, history>>

\* sync_ntp_once finds the Vault locked.
PollLocked ==
    /\ poll = "wait" /\ ~unlocked
    /\ InitialDue \/ PeriodicDue
    /\ last_periodic' = IF PeriodicDue THEN mono ELSE last_periodic
    /\ Sleeps
    /\ UNCHANGED <<mono, unlocked, link, clock, last_initial, read_at, history>>

\* sync_ntp_once copies the Wi-Fi settings and begins the exchange.
PollBegins ==
    /\ poll = "wait" /\ unlocked
    /\ InitialDue \/ PeriodicDue
    /\ last_periodic' = IF PeriodicDue THEN mono ELSE last_periodic
    /\ poll' = "exchange" /\ timer' = 0 /\ started' = mono
    /\ UNCHANGED <<mono, unlocked, link, clock, last_initial, sample, read_at, origin,
                   accepted, served, untried>>

\* An initial attempt other than a locked one is paid for with its starting time.
InitialPaid == last_initial' = IF clock.synchronized THEN last_initial ELSE started

\* No Wi-Fi settings, no network, no answer, or one out of the range
ExchangeFails ==
    /\ poll = "exchange" /\ ~link
    /\ InitialPaid /\ Sleeps /\ untried' = FALSE
    /\ UNCHANGED <<mono, unlocked, link, clock, last_periodic, read_at, origin, accepted,
                   served>>

\* The answer is in the wall clock; the driver is torn down before the timer
\* is read.
ExchangeSamples(error) ==
    /\ poll = "exchange" /\ (link => error = 0)
    /\ AcceptableUnix(RealUnix + error)
    /\ poll' = "sampled" /\ timer' = 0 /\ sample' = RealUnix + error
    /\ UNCHANGED <<mono, unlocked, link, clock, budget, started, read_at, history>>

\* accept_ntp_sample; success forgives the initial attempts.
ExchangeEnds ==
    /\ poll = "sampled" /\ Sleeps
    /\ IF AcceptableJump(clock, sample, mono)
       THEN /\ clock' = Anchor(sample, "ntp")
            /\ last_initial' = IF clock.synchronized THEN last_initial ELSE Never
            /\ IF clock.synchronized
               THEN accepted' = accepted + 1 /\ UNCHANGED origin
               ELSE accepted' = 0 /\ origin' = [unix |-> sample, mono |-> mono]
            /\ UNCHANGED untried
       ELSE /\ InitialPaid /\ untried' = FALSE
            /\ UNCHANGED <<clock, origin, accepted>>
    /\ UNCHANGED <<mono, unlocked, link, last_periodic, read_at, served>>

\* status(): the timer is read before the clock's own mutex is taken.
StatusReads ==
    /\ read_at = Never /\ read_at' = mono
    /\ UNCHANGED <<mono, unlocked, link, clock, budget, task, history>>

\* Its answer is Readiness(clock, read_at).
StatusAnswers ==
    /\ read_at # Never /\ read_at' = Never
    /\ UNCHANGED <<mono, unlocked, link, clock, budget, task, history>>

-----------------------------------------------------------------------------
Next ==
    \/ Tick \/ Unlock \/ Close \/ LinkChanges
    \/ \E e \in UsbErrors : SyncFromUsb(e)
    \/ PollLooks \/ PollNotDue \/ PollLocked \/ PollBegins
    \/ ExchangeFails \/ ExchangeEnds
    \/ \E e \in NtpErrors : ExchangeSamples(e)

Spec == Init /\ [][Next]_vars

\* With a task, such as the UI, that asks for the status
ReaderSpec == Init /\ [][Next \/ StatusReads \/ StatusAnswers]_vars

-----------------------------------------------------------------------------
(* Properties                                                              *)

\* However often the network lies, it moves the trusted time by no more than
\* MaxJump (and the second lost in rounding) per ResyncInterval, counted from
\* the last anchor it did not choose.  About: resync_if_due, accept_ntp_sample.
DriftBounded ==
    clock.synchronized =>
        /\ accepted * Ticks(ResyncInterval) <= clock.mono - origin.mono
        /\ Abs((Ticks(clock.unix) - clock.mono) - (Ticks(origin.unix) - origin.mono))
             <= accepted * (Ticks(MaxJump) + TicksPerSecond - 1)

\* An anchor an honest server would confirm: with room for the exchange between
\* the sample and its use, and for rounding, then and now
Plausible ==
    \/ ~clock.synchronized
    \/ Abs(RealUnix - Projected(clock, mono)) + Seconds(MaxExchange) + 2 <= MaxJump

\* A Device that is open and has an honest time server for one interval and one
\* poll is READY, whatever budget earlier attempts have used; and the first poll
\* after a cold boot's unlock is eligible at once: polls of the locked Device
\* have not used the initial budget.  About: the retry budgets of resync_if_due.
ReadyWhileServed ==
    /\ served > ServedBound /\ Plausible => Readiness(clock, mono) = "ready"
    /\ served > Poll + MaxWait + 2 * MaxExchange /\ untried => clock.synchronized

\* Whoever asks for the status is told `stale' only of an anchor that is too old.
\* About: TrustedClock::snapshot, TimeService::status.
StaleMeansOld ==
    read_at # Never /\ Readiness(clock, read_at) = "stale"
        => Elapsed(clock, mono) > Ticks(StaleAfter)

=============================================================================
