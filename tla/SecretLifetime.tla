---------------------------- MODULE SecretLifetime ----------------------------
(***************************************************************************)
(* How long the Device may hold a key: the automatic-lock lifetime of the  *)
(* resident VMK and the time limit of a VMK that waits for its Vault       *)
(* request, against the monotonic clock.                                   *)
(*                                                                         *)
(* The protocol task reads the clock into `seen', does its housekeeping    *)
(* with it, and later reads it again for a request.  Time passes at every  *)
(* step, in particular while the lock boundary waits for the time service. *)
(* Who may begin which session is DeviceOwnership's subject; here a        *)
(* session is confirmed, cancelled or expired at any time.  A Vault is     *)
(* represented by the automatic-lock policy inside it, in days.            *)
(***************************************************************************)
EXTENDS Integers

CONSTANTS
    Days,       \* the policies a Vault may hold
    Never,      \* a Vault without a policy
    NoVault,
    DayLength,  \* kMillisecondsPerDay
    PendingTtl, \* kPendingVaultVmkTtlMs
    MaxTime,    \* the largest uint64_t
    LastUnlock  \* bound: no unlock is confirmed later than this

Policies == Days \cup {Never}

ASSUME LifetimeAssumption ==
    /\ Days \subseteq Nat \ {0}
    /\ DayLength \in Nat \ {0} /\ PendingTtl \in Nat \ {0} /\ MaxTime \in Nat
    /\ Never \notin Days /\ NoVault \notin Policies
    /\ LastUnlock \in Nat /\ \A d \in Days : LastUnlock + d * DayLength <= MaxTime

VARIABLES
    now,
    pc, after,      \* the protocol task; where it continues after a lock boundary
    seen,           \* its now_ms
    state,          \* Runtime::state_
    vault,          \* envelope_
    policy, since,  \* auto_lock_days_ and unlocked_since_ms_
    active,         \* unlock_session_active_
    session,        \* the operation of the confirmed or pending session
    pending,        \* pending_, by operation
    expires,        \* pending_expires_at_ms_
    \* history
    unlocked_at,    \* when a person last confirmed an unlock
    pending_at      \* when the pending key was delivered

runtime == <<state, vault, policy, since, active>>
waiting == <<session, pending, expires>>
history == <<unlocked_at, pending_at>>
vars == <<now, pc, after, seen, state, vault, policy, since, active,
          session, pending, expires, unlocked_at, pending_at>>

Times == 0..MaxTime
Sessions == {"none", "install", "unlock", "replace", "rekey"}

TypeOK ==
    /\ now \in Times /\ seen \in Times
    /\ pc \in {"poll", "read", "dispatch", "locking"} /\ after \in {"poll", "read", "dispatch"}
    /\ state \in {"unprovisioned", "locked", "unlocked", "error"}
    /\ vault \in Policies \cup {NoVault} /\ policy \in Policies
    /\ since \in Times /\ active \in BOOLEAN
    /\ session \in Sessions
    /\ pending \in {"none", "install", "rekey"} /\ expires \in Times
    /\ unlocked_at \in Times /\ pending_at \in Times

Init ==
    /\ now = 0 /\ pc = "poll" /\ after = "poll" /\ seen = 0
    /\ vault \in Policies \cup {NoVault}
    /\ state = IF vault = NoVault THEN "unprovisioned" ELSE "locked"
    /\ policy = Never /\ since = 0 /\ active = FALSE
    /\ session = "none" /\ pending = "none" /\ expires = 0
    /\ unlocked_at = 0 /\ pending_at = 0

-----------------------------------------------------------------------------
(* Runtime                                                                 *)

\* clear_unlock_session_state
ClearUnlockSession == policy' = Never /\ since' = 0 /\ active' = FALSE

\* Runtime::lock and enter_recovery_boundary
LockRuntime ==
    /\ ClearUnlockSession
    /\ state' = CASE state = "error" -> "error"
                  [] vault = NoVault /\ state # "error" -> "unprovisioned"
                  [] OTHER -> "locked"
    /\ UNCHANGED vault

\* Runtime::unlock and begin_unlock_session, at the time t
UnlockRuntime(p, t) ==
    /\ now <= LastUnlock
    /\ state' = "unlocked" /\ vault' = p
    /\ policy' = p /\ since' = t /\ active' = TRUE
    /\ unlocked_at' = t

\* fatal_security_error, or an error of format_schema2, erase_all or a re-key
\* that cannot be read back
FailRuntime == state' = "error" /\ ClearUnlockSession /\ UNCHANGED vault

\* Runtime::factory_reset
EraseRuntime == state' = "unprovisioned" /\ vault' = NoVault /\ ClearUnlockSession

\* automatic_lock_due, of a Runtime with these values
AutomaticLockDue(st, p, s, act, t) ==
    /\ st = "unlocked" /\ act /\ p # Never
    /\ t >= s /\ t - s >= p * DayLength

DueAt(t) == AutomaticLockDue(state, policy, since, active, t)

-----------------------------------------------------------------------------
(* The main loop                                                           *)

Tick == now < MaxTime /\ now' = now + 1
        /\ UNCHANGED <<pc, after, seen, runtime, waiting, history>>

\* lock_security_boundary first ends the session and the pending key, then
\* waits for the time service.
BeginLock(next) ==
    /\ pc' = "locking" /\ after' = next
    /\ session' = "none" /\ pending' = "none" /\ expires' = 0

\* Mutant: nobody looks at the deadline of the pending key.
NeverExpires(t) == UNCHANGED <<pending, expires>>

\* expire_pending
ExpirePending(t) ==
    IF pending # "none" /\ t >= expires
    THEN pending' = "none" /\ expires' = 0
    ELSE UNCHANGED <<pending, expires>>

\* housekeeping with the time just read; sessions expire by their own clock.
Housekeeping(next) ==
    /\ seen' = now
    /\ IF DueAt(now)
       THEN BeginLock(next)
       ELSE /\ session' \in {session, "none"} /\ ExpirePending(now)
            /\ pc' = next /\ UNCHANGED after
    /\ UNCHANGED <<now, runtime, history>>

\* Mutant: housekeeping is left to the requests.
PollOnlyReads == pc = "poll" /\ pc' = "read"
                 /\ UNCHANGED <<now, after, seen, runtime, waiting, history>>

\* One turn of the main loop
Poll == pc = "poll" /\ Housekeeping("read")

\* A complete line arrived: handle_line begins with its own housekeeping.
ReceiveLine == pc = "read" /\ Housekeeping("dispatch")

\* None arrived, or it is not a request for the handler.
NoLine == pc = "read" /\ pc' = "poll"
          /\ UNCHANGED <<now, after, seen, runtime, waiting, history>>

LockBoundary ==
    /\ pc = "locking" /\ pc' = after
    /\ LockRuntime
    /\ UNCHANGED <<now, after, seen, waiting, history>>

-----------------------------------------------------------------------------
(* Requests                                                                *)

Dispatching == pc = "dispatch" /\ UNCHANGED <<now, seen>>
Answer == pc' = "poll" /\ UNCHANGED after

NoPending == pending' = "none" /\ expires' = 0
KeepHistory == UNCHANGED history

\* session.begin and prepare_attempt; a re-key keeps the automatic-lock
\* session and destroys only the key.
SessionBegin(op) ==
    /\ Dispatching /\ Answer /\ NoPending /\ KeepHistory
    /\ session' = op
    /\ CASE op = "install" -> vault = NoVault /\ state = "unprovisioned" /\ UNCHANGED runtime
         [] op = "unlock" -> state = "locked" /\ UNCHANGED runtime
         [] op = "replace" -> vault # NoVault /\ state # "error" /\ LockRuntime
         [] op = "rekey" -> /\ state = "unlocked" /\ active
                            /\ state' = "locked" /\ UNCHANGED <<vault, policy, since, active>>

\* Any request that ends the session: cancel, a refusal, an unusable line.
SessionEnds ==
    /\ Dispatching /\ Answer /\ NoPending /\ KeepHistory
    /\ session' = "none"
    /\ UNCHANGED runtime

\* session.complete of an unlock or a Browser replacement; install_vmk reads
\* the clock itself.
CompleteUnlock ==
    /\ Dispatching /\ Answer /\ NoPending
    /\ session \in {"unlock", "replace"} /\ session' = "none"
    /\ state = "locked" /\ vault # NoVault
    /\ UnlockRuntime(vault, now)
    /\ UNCHANGED pending_at

\* The replacement of the registration failed after the unlock.
CompleteUndone ==
    /\ Dispatching /\ Answer /\ NoPending /\ KeepHistory
    /\ session = "replace" /\ session' = "none"
    /\ state = "locked" /\ LockRuntime

\* arm_pending_deadline
Deadline(t) == IF t > MaxTime - PendingTtl THEN MaxTime ELSE t + PendingTtl

\* session.complete of an initial provisioning, a recovery to a blank Device
\* or a re-key: the key waits for its Vault request.
CompletePending ==
    /\ Dispatching /\ Answer
    /\ session \in {"install", "rekey"} /\ session' = "none"
    /\ pending' = session /\ expires' = Deadline(seen)
    /\ pending_at' = seen /\ UNCHANGED <<runtime, unlocked_at>>

\* vault.install: format, install, unlock with the time of the request, register
VaultInstall(p) ==
    /\ Dispatching /\ Answer /\ NoPending
    /\ pending = "install" /\ seen < expires /\ state \in {"unprovisioned", "error"}
    /\ \/ UnlockRuntime(p, seen)
       \/ (EraseRuntime \/ FailRuntime) /\ UNCHANGED unlocked_at
    /\ UNCHANGED <<session, pending_at>>

\* The policy of a Vault committed during an unlock session takes effect at
\* once, against the time of the original unlock.
CommitPolicy(p) ==
    /\ vault' = p /\ policy' = p /\ UNCHANGED <<since, active>>
    /\ state' = "unlocked"

\* Both vault.update and vault.rekey then look whether the lifetime is over.
LockIfDue(p) ==
    IF AutomaticLockDue("unlocked", p, since, active, seen)
    THEN BeginLock("poll")
    ELSE Answer /\ NoPending /\ UNCHANGED session

\* Mutant: a shorter policy waits for the next housekeeping.
UpdateWithoutLock(p) ==
    /\ Dispatching /\ KeepHistory
    /\ state = "unlocked"
    /\ CommitPolicy(p) /\ Answer /\ UNCHANGED waiting

VaultUpdate(p) ==
    /\ Dispatching /\ KeepHistory
    /\ state = "unlocked"
    /\ \/ /\ CommitPolicy(p)
          /\ IF AutomaticLockDue("unlocked", p, since, active, seen)
             THEN BeginLock("poll")
             ELSE Answer /\ UNCHANGED waiting
       \/ /\ UNCHANGED runtime \/ FailRuntime \* not committed, or not readable
          /\ Answer /\ UNCHANGED waiting

VaultRekey(p) ==
    /\ Dispatching /\ KeepHistory
    /\ pending = "rekey" /\ seen < expires /\ state = "locked" /\ active
    /\ \/ CommitPolicy(p) /\ LockIfDue(p)
       \/ (UNCHANGED runtime \/ FailRuntime) /\ Answer /\ NoPending /\ UNCHANGED session

DeviceLock ==
    /\ Dispatching /\ KeepHistory
    /\ BeginLock("poll")
    /\ UNCHANGED runtime

\* factory_reset.commit and factory_reset.recovery_complete
FactoryReset ==
    /\ Dispatching /\ Answer /\ NoPending /\ KeepHistory
    /\ session' = "none"
    /\ EraseRuntime \/ FailRuntime

\* A request that leaves the Runtime and the keys alone.
OtherRequest == Dispatching /\ Answer /\ UNCHANGED <<runtime, waiting, history>>

\* The UI or the time service finds the open Vault unreadable.
FatalRead ==
    /\ state = "unlocked" /\ FailRuntime
    /\ UNCHANGED <<now, pc, after, seen, waiting, history>>

\* Power loss; the monotonic clock starts again.
Reboot ==
    /\ now' = 0 /\ pc' = "poll" /\ after' = "poll" /\ seen' = 0
    /\ state' = IF vault = NoVault THEN "unprovisioned" ELSE "locked"
    /\ ClearUnlockSession /\ NoPending /\ session' = "none"
    /\ unlocked_at' = 0 /\ pending_at' = 0
    /\ UNCHANGED vault

Requests ==
    \/ \E op \in Sessions \ {"none"} : SessionBegin(op)
    \/ SessionEnds \/ CompleteUnlock \/ CompleteUndone \/ CompletePending
    \/ \E p \in Policies : VaultInstall(p) \/ VaultUpdate(p) \/ VaultRekey(p)
    \/ DeviceLock \/ FactoryReset \/ OtherRequest

ProtocolTask == Poll \/ ReceiveLine \/ NoLine \/ LockBoundary \/ Requests

Next == Tick \/ ProtocolTask \/ FatalRead \/ Reboot

Spec == Init /\ [][Next]_vars

\* The main loop never ends (a read waits 20 ms at most) and time passes.
FairSpec == Spec /\ WF_vars(Tick) /\ WF_vars(ProtocolTask)

-----------------------------------------------------------------------------
(* Properties                                                              *)

\* Whenever the protocol task has done its housekeeping or has answered a
\* request, with the time it saw, a Device that is UNLOCKED under a committed
\* policy of d days was unlocked by a person less than d days ago: neither a
\* re-key, nor a policy change, nor a failed commit extends the lifetime.
\* About: housekeeping, automatic_lock_due, update_encrypted_vault,
\* rekey_encrypted_vault.
UnlockedWithinLifetime ==
    pc # "locking" /\ state = "unlocked" /\ vault \in Days
        => seen < unlocked_at + vault * DayLength

\* A key that waits for its Vault request is at most PendingTtl old when the
\* task reads or dispatches a line, and never outlives a lock.
\* About: arm_pending_deadline, expire_pending, lock_security_boundary.
PendingKeyInTime ==
    pending # "none" =>
        /\ pc # "locking"
        /\ pc \in {"read", "dispatch"} => seen < pending_at + PendingTtl

\* An automatic-lock session that survives without its key is the one of an
\* unfinished re-key, and still counts from the confirmed unlock: no request
\* can turn it into an UNLOCKED Device with a later origin.
\* About: enter_vmk_rekey_boundary, clear_unlock_session_state.
SessionOrigin ==
    /\ state = "unlocked" => active
    /\ active => since = unlocked_at /\ policy = vault /\ state \in {"locked", "unlocked"}

\* An UNLOCKED Device with a policy does not stay so forever, whatever the
\* host sends.  About: the main loop and housekeeping.
LocksItself ==
    (state = "unlocked" /\ policy \in Days) ~> (state # "unlocked" \/ policy = Never)

=============================================================================
