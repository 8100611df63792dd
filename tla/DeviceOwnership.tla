--------------------------- MODULE DeviceOwnership ---------------------------
(***************************************************************************)
(* Who may do what with a Device: the protocol task with its Runtime,      *)
(* registration::Store, AttemptCoordinator, CanonicalVmkSink and the two   *)
(* reset authorizations, and the one presence gate they share.             *)
(*                                                                         *)
(* A request handler is one step, because one task runs them all under     *)
(* runtime_access_mutex_; a handler that makes several durable writes is a *)
(* `job' with one step per write, so that a crash or an NVS error can hit  *)
(* between them.  Deadlines are abstract: whatever has one may expire at   *)
(* any time (PresenceGate has a clock).  The partition is the one that     *)
(* VaultPersistence shows to be atomic.  Requests carry any well-formed    *)
(* argument.  The registration id and the BRK of a Browser are one value;  *)
(* the Device id is left out.                                              *)
(***************************************************************************)
EXTENDS Integers

CONSTANTS
    VaultIds, Keys, Browsers, Attempts,
    MaxGeneration, MaxEpoch, \* the largest uint64_t and uint32_t
    Nothing

ASSUME BoundsAssumption == MaxGeneration \in Nat \ {0} /\ MaxEpoch \in Nat \ {0}

Envelopes == [vault_id: VaultIds, generation: 1..MaxGeneration, key: Keys]
Registrations == [vault_id: VaultIds, epoch: 1..MaxEpoch, brk: Browsers]

\* The BeginContexts that context_valid admits; a Recovery or a Replacement
\* that also carries a signature of the current Browser only adds a check.
InitialContexts ==
    [op: {"initial"}, vault_id: VaultIds, generation: {0}, epoch: {0},
     brk: {Nothing}, new_brk: Browsers]
TrustedContexts ==
    [op: {"unlock", "rekey"}, vault_id: VaultIds, generation: 1..MaxGeneration,
     epoch: 1..MaxEpoch, brk: Browsers, new_brk: {Nothing}]
ReplaceContexts ==
    [op: {"recovery", "replacement"}, vault_id: VaultIds, generation: 1..MaxGeneration,
     epoch: 1..MaxEpoch, brk: {Nothing}, new_brk: Browsers]
Contexts == InitialContexts \cup TrustedContexts \cup ReplaceContexts

Pending == [ctx: Contexts, key: Keys]

ASSUME NothingAssumption ==
    /\ Nothing \notin Envelopes /\ Nothing \notin Registrations
    /\ Nothing \notin Contexts /\ Nothing \notin Pending
    /\ Nothing \notin Keys /\ Nothing \notin Browsers /\ Nothing \notin Attempts
    /\ Nothing # "reset"

Operations == {"initial", "unlock", "rekey", "recovery", "replacement"}

VARIABLES
    \* flash
    partition,      \* what loading auth_nvs finds
    vault,          \* the envelope it finds, if any
    reg,            \* the persisted registration, Nothing when absent
    reg_corrupt,    \* is it structurally corrupt?
    \* Runtime
    state, resettable, cached, vmk,
    unlock_session, \* unlock_session_active_
    \* registration::Store
    store,          \* ready_ and recovery_reset_available_
    snapshot,       \* snapshot_
    \* StagedSessionV2Handler and AttemptCoordinator
    phase, attempt, ctx,
    \* CanonicalVmkSink
    pending,        \* pending_context_ and pending_vmk_
    \* the resets of CanonicalProtocolV2Handler
    healthy, recovery, \* the attempt of each, Nothing when inactive
    \* CanonicalPresence
    gate, gate_attempt, gate_op,
    \* the handler in progress
    job, job_envelope,
    \* history
    consent         \* the operation of the confirmation being acted upon

flash == <<partition, vault, reg, reg_corrupt>>
runtime == <<state, resettable, cached, vmk, unlock_session>>
registration == <<store, snapshot>>
session == <<phase, attempt, ctx>>
resets == <<healthy, recovery>>
presence == <<gate, gate_attempt, gate_op>>
working == <<job, job_envelope>>
vars == <<partition, vault, reg, reg_corrupt, state, resettable, cached, vmk,
          unlock_session, store, snapshot, phase, attempt, ctx, pending,
          healthy, recovery, gate, gate_attempt, gate_op, job, job_envelope, consent>>

Jobs == {"none", "format", "install", "register", "undo",
         "wipe_vault", "wipe_registration", "drop_registration", "drop_vault"}

ValuesOK ==
    /\ partition \in {"blank", "ready", "legacy", "corrupt", "dangling"}
    /\ vault \in Envelopes \cup {Nothing}
    /\ reg \in Registrations \cup {Nothing}
    /\ state \in {"off", "unprovisioned", "reprovision", "locked", "unlocked", "error"}
    /\ cached \in Envelopes \cup {Nothing}
    /\ vmk \in Keys \cup {Nothing}
    /\ store \in {"ready", "recoverable", "io"}
    /\ snapshot \in Registrations \cup {Nothing}
    /\ phase \in {"idle", "authorization", "presence"}
    /\ attempt \in Attempts \cup {Nothing} /\ ctx \in Contexts \cup {Nothing}
    /\ pending \in Pending \cup {Nothing}
    /\ healthy \in Attempts \cup {Nothing} /\ recovery \in Attempts \cup {Nothing}
    /\ gate \in {"idle", "awaiting", "confirmed"} /\ gate_attempt \in Attempts \cup {Nothing}
    /\ gate_op \in Operations \cup {"reset", Nothing}
    /\ job \in Jobs /\ job_envelope \in Envelopes \cup {Nothing}
    /\ consent \in Operations \cup {"reset", Nothing}

TypeOK ==
    /\ ValuesOK
    /\ reg_corrupt \in BOOLEAN /\ resettable \in BOOLEAN /\ unlock_session \in BOOLEAN

-----------------------------------------------------------------------------
(* Small state changes the handlers are made of                            *)

\* The protocol task is waiting for a request.
Waiting == state # "off" /\ job = "none"

\* clear_unlock_session_state
ClearUnlockSession == vmk' = Nothing /\ unlock_session' = FALSE

NoSession == phase' = "idle" /\ attempt' = Nothing /\ ctx' = Nothing
NoPresence == gate' = "idle" /\ gate_attempt' = Nothing /\ gate_op' = Nothing
NoResets == healthy' = Nothing /\ recovery' = Nothing

\* CanonicalProtocolV2Handler::disconnect; cancelling the session cancels the
\* presence whoever owns it.
CancelEverything == NoSession /\ pending' = Nothing /\ NoResets /\ NoPresence

\* begin_presence
AwaitPresence(a, op) == gate' = "awaiting" /\ gate_attempt' = a /\ gate_op' = op

\* consume_presence
Confirmed(a) == gate = "confirmed" /\ gate_attempt = a

Consume(a) ==
    /\ NoPresence
    /\ consent' = IF Confirmed(a) THEN gate_op ELSE Nothing

\* A confirmation is spent once no pending key and no job continues from it.
KeepConsent == consent' = IF pending = Nothing /\ job = "none" THEN Nothing ELSE consent

\* A new random attempt id.
Fresh(a) == a \notin {attempt, healthy, recovery, gate_attempt}

\* Runtime::lock and enter_recovery_boundary
LockRuntime ==
    /\ ClearUnlockSession
    /\ state' = CASE state = "error" -> "error"
                  [] state # "error" /\ cached # Nothing -> "locked"
                  [] OTHER -> "unprovisioned"
    /\ UNCHANGED <<resettable, cached>>

\* Runtime::unlock with a key that opens the Vault
UnlockRuntime(e) ==
    /\ state' = "unlocked" /\ cached' = e /\ vmk' = e.key
    /\ unlock_session' = TRUE /\ resettable' = FALSE

\* Runtime::factory_reset
Erased ==
    /\ partition' = "blank" /\ vault' = Nothing
    /\ state' = "unprovisioned" /\ resettable' = FALSE /\ cached' = Nothing
    /\ ClearUnlockSession

\* What a page-wise erase that stopped part-way leaves for a load to find.
EraseStops ==
    \/ UNCHANGED <<partition, vault>>
    \/ partition' = "blank" /\ vault' = Nothing
    \/ /\ partition \in {"ready", "corrupt", "dangling"}
       /\ partition' \in {"ready", "corrupt"} /\ vault' = Nothing
    \/ /\ partition \in {"corrupt", "dangling"} \/ vault # Nothing
       /\ partition' = "dangling" /\ vault' = Nothing

\* Runtime's reaction to an error of format_schema2 or erase_all.
RuntimeFails ==
    /\ state' = "error" /\ resettable' = FALSE /\ UNCHANGED cached
    /\ ClearUnlockSession

EraseFails == EraseStops /\ RuntimeFails

-----------------------------------------------------------------------------
(* What the Device says about itself                                       *)

RegistrationStatus ==
    CASE store = "ready" -> "ok" [] store = "recoverable" -> "corrupt" [] OTHER -> "io"

Bound == \/ cached = Nothing /\ snapshot = Nothing
         \/ /\ cached # Nothing /\ snapshot # Nothing
            /\ cached.vault_id = snapshot.vault_id

\* classify_recovery_reset
Decision ==
    IF state \in {"error", "reprovision"}
    THEN IF resettable /\ RegistrationStatus # "io" THEN "required" ELSE "unavailable"
    ELSE CASE RegistrationStatus = "corrupt" -> "required"
           [] RegistrationStatus = "io" -> "unavailable"
           [] OTHER -> IF Bound THEN "not_required" ELSE "required"

\* CanonicalBindingSource::snapshot and session_v2_begin_matches_snapshot
Clean == cached = Nothing /\ snapshot = Nothing

MatchesVault(c) ==
    /\ cached # Nothing /\ snapshot # Nothing
    /\ c.vault_id = cached.vault_id /\ c.generation = cached.generation

Matches(c) ==
    /\ store = "ready" /\ Bound
    /\ CASE c.op = "initial" -> Clean
         [] c.op \in {"unlock", "rekey"} ->
              MatchesVault(c) /\ c.epoch = snapshot.epoch /\ c.brk = snapshot.brk
         [] OTHER ->
              \/ c.op = "recovery" /\ Clean /\ c.epoch = 1
              \/ /\ MatchesVault(c)
                 /\ c.epoch = snapshot.epoch + 1 /\ c.new_brk # snapshot.brk

-----------------------------------------------------------------------------
(* session.begin / authorize / complete / cancel                           *)

\* CanonicalVmkSink::prepare_attempt, which decides after the session began.
Prepares(op) ==
    CASE op = "initial" -> cached = Nothing /\ state \in {"unprovisioned", "reprovision"}
      [] op = "unlock" -> cached # Nothing /\ state = "locked"
      [] op = "recovery" -> IF cached = Nothing
                            THEN state \in {"unprovisioned", "reprovision"}
                            ELSE state # "error"
      [] op = "replacement" -> cached # Nothing /\ state # "error"
      [] op = "rekey" -> cached # Nothing /\ state = "unlocked" /\ unlock_session

\* Mutant: the resident VMK outlives session.begin.
PrepareNothing(op) == UNCHANGED runtime

\* A recovery, a replacement and a re-key destroy the resident VMK at once;
\* the re-key keeps the automatic-lock session it will continue.
PrepareRuntime(op) ==
    CASE op \in {"recovery", "replacement"} /\ cached # Nothing -> LockRuntime
      [] op = "rekey" -> /\ state' = "locked" /\ vmk' = Nothing
                         /\ UNCHANGED <<resettable, cached, unlock_session>>
      [] OTHER -> UNCHANGED runtime

SessionBegin(c, a) ==
    /\ Waiting /\ Matches(c) /\ Fresh(a)
    /\ NoResets /\ NoPresence /\ pending' = Nothing
    /\ IF Prepares(c.op)
       THEN phase' = "authorization" /\ attempt' = a /\ ctx' = c /\ PrepareRuntime(c.op)
       ELSE NoSession /\ UNCHANGED runtime
    /\ KeepConsent
    /\ UNCHANGED <<flash, registration, working>>

\* The BRK signature, where one is required, is by ctx.brk.
SessionAuthorize ==
    /\ Waiting /\ phase = "authorization" /\ Matches(ctx)
    /\ AwaitPresence(attempt, ctx.op) /\ phase' = "presence"
    /\ KeepConsent
    /\ UNCHANGED <<flash, runtime, registration, attempt, ctx, pending, resets, working>>

\* Any session request that is refused: malformed, stale, mismatching,
\* unconfirmed, badly signed or badly encrypted.
SessionFailClosed ==
    /\ Waiting
    /\ phase # "idle" \/ healthy # Nothing \/ recovery # Nothing
    /\ NoSession /\ NoResets /\ NoPresence
    /\ KeepConsent
    /\ UNCHANGED <<flash, runtime, registration, pending, working>>

\* session.cancel, an unusable line, or the cable being pulled.
Disconnect ==
    /\ Waiting
    /\ CancelEverything
    /\ KeepConsent
    /\ UNCHANGED <<flash, runtime, registration, working>>

\* Mutant: no lock() after replace() failed.
StayUnlocked == UnlockRuntime(cached)

\* Runtime::lock right after an unlock that led to nothing
Relock == state' = "locked" /\ ClearUnlockSession /\ resettable' = FALSE /\ UNCHANGED cached

\* What replace() demands of the registration it has just reloaded.
Succeeds(old, new) == old # Nothing /\ old.vault_id = new.vault_id /\ old.epoch + 1 = new.epoch

\* The Runtime is unlocked first; registration::Store::replace then reloads
\* (which empties snapshot_ before it reads), compares and writes.
ReplaceRegistration(new) ==
    \/ /\ ~reg_corrupt /\ Succeeds(reg, new)
       /\ reg' = new /\ snapshot' = new
       /\ UnlockRuntime(cached)
    \/ /\ ~reg_corrupt /\ snapshot' = reg
       /\ reg' \in IF Succeeds(reg, new) THEN {reg, new} ELSE {reg} \* the write fails
       /\ Relock
    \/ /\ snapshot' = Nothing \* corrupt, or NVS fails to read
       /\ UNCHANGED reg
       /\ Relock

\* Mutant: a recovery keeps the key without asking whether there is a Vault.
KeepsEveryKey(c) == c.op \in {"initial", "rekey", "recovery"}

\* Does install_vmk keep the key for the Vault request that has to follow?
KeepsKey(c) ==
    \/ c.op \in {"initial", "rekey"}
    \/ c.op = "recovery" /\ cached = Nothing /\ state \in {"unprovisioned", "reprovision"}

OpensVault(c, k) ==
    /\ c.op \in {"unlock", "recovery", "replacement"}
    /\ state = "locked" /\ cached # Nothing /\ cached.key = k

\* session.complete with the key k; install_vmk.
SessionComplete(k) ==
    /\ Waiting /\ phase = "presence" /\ Matches(ctx) /\ Confirmed(attempt)
    /\ NoSession /\ Consume(attempt)
    /\ pending' = IF KeepsKey(ctx) THEN [ctx |-> ctx, key |-> k] ELSE Nothing
    /\ \/ /\ OpensVault(ctx, k) /\ ctx.op = "unlock"
          /\ UnlockRuntime(cached)
          /\ UNCHANGED <<reg, snapshot>>
       \/ /\ OpensVault(ctx, k) /\ ctx.op # "unlock"
          /\ ReplaceRegistration([vault_id |-> ctx.vault_id, epoch |-> ctx.epoch,
                                  brk |-> ctx.new_brk])
       \/ /\ ~OpensVault(ctx, k)
          /\ UNCHANGED <<reg, runtime, snapshot>>
    /\ UNCHANGED <<partition, vault, reg_corrupt, store, resets, working>>

-----------------------------------------------------------------------------
(* vault.install: format, install and unlock, register; or undo it all     *)

ExpectedGeneration(p) == IF p.ctx.op = "initial" THEN 1 ELSE p.ctx.generation

VaultInstall(e) ==
    /\ Waiting /\ pending # Nothing /\ pending.ctx.op \in {"initial", "recovery"}
    /\ e.vault_id = pending.ctx.vault_id /\ e.generation = ExpectedGeneration(pending)
    /\ job' = "format" /\ job_envelope' = e
    /\ KeepConsent
    /\ UNCHANGED <<flash, runtime, registration, session, pending, resets, presence>>

\* A Vault request whose envelope or operation does not fit the pending key.
VaultRejected ==
    /\ Waiting /\ pending # Nothing
    /\ pending' = Nothing
    /\ KeepConsent
    /\ UNCHANGED <<flash, runtime, registration, session, resets, presence, working>>

JobFormat ==
    /\ job = "format"
    /\ \/ /\ partition' = "ready" /\ vault' = Nothing
          /\ state' = "unprovisioned" /\ resettable' = FALSE /\ cached' = Nothing
          /\ ClearUnlockSession
          /\ job' = "install"
       \/ /\ EraseStops \/ (partition' \in {"blank", "corrupt", "ready"} /\ vault' = Nothing)
          /\ RuntimeFails
          /\ job' = "undo"
    /\ KeepConsent
    /\ UNCHANGED <<reg, reg_corrupt, registration, session, pending, resets, presence, job_envelope>>

\* The envelope must open under the pending key before anything is written.
JobInstall ==
    /\ job = "install"
    /\ \/ /\ job_envelope.key = pending.key
          /\ vault' = job_envelope /\ UnlockRuntime(job_envelope)
          /\ job' = "register"
       \/ /\ job_envelope.key = pending.key \* NVS reports an error to the write
          /\ vault' \in {Nothing, job_envelope}
          /\ job' = "undo"
          /\ UNCHANGED runtime
       \/ /\ job_envelope.key = pending.key \* ... or to the load after it
          /\ vault' = job_envelope
          /\ RuntimeFails
          /\ job' = "undo"
       \/ /\ job_envelope.key # pending.key
          /\ job' = "undo"
          /\ UNCHANGED <<vault, runtime>>
    /\ KeepConsent
    /\ UNCHANGED <<partition, reg, reg_corrupt, registration, session, pending, resets, presence, job_envelope>>

\* registration::Store::install_initial
JobRegister ==
    /\ job = "register"
    /\ LET new == [vault_id |-> pending.ctx.vault_id, epoch |-> 1, brk |-> pending.ctx.new_brk]
       IN  \/ /\ reg = Nothing /\ ~reg_corrupt
              /\ reg' = new /\ snapshot' = new
              /\ pending' = Nothing /\ job' = "none" /\ job_envelope' = Nothing
           \/ /\ reg' \in IF reg = Nothing /\ ~reg_corrupt THEN {reg, new} ELSE {reg}
              /\ snapshot' \in IF reg_corrupt THEN {Nothing} ELSE {reg, Nothing}
              /\ job' = "undo"
              /\ UNCHANGED <<pending, job_envelope>>
    /\ KeepConsent
    /\ UNCHANGED <<partition, vault, reg_corrupt, runtime, store, session, resets, presence>>

JobUndo ==
    /\ job = "undo"
    /\ Erased \/ EraseFails
    /\ pending' = Nothing /\ job' = "none" /\ job_envelope' = Nothing
    /\ KeepConsent
    /\ UNCHANGED <<reg, reg_corrupt, registration, session, resets, presence>>

-----------------------------------------------------------------------------
(* vault.update and vault.rekey                                            *)

\* replace_envelope compares with the partition, not with envelope_.
DurableAccepts(e) ==
    /\ vault # Nothing
    /\ vault.vault_id = e.vault_id /\ vault.generation + 1 = e.generation

\* NVS reports an error: the new generation may or may not have become durable.
WriteReportsError(e) ==
    /\ vault' \in IF DurableAccepts(e) THEN {vault, e} ELSE {vault}
    /\ UNCHANGED runtime

VaultUpdate(e) ==
    /\ Waiting /\ state = "unlocked"
    /\ e.vault_id = cached.vault_id /\ e.generation = cached.generation + 1
    /\ e.key = vmk
    /\ \/ /\ DurableAccepts(e)
          /\ vault' = e /\ cached' = e
          /\ resettable' = FALSE
          /\ UNCHANGED <<state, vmk, unlock_session, session, pending, resets, presence>>
       \/ /\ DurableAccepts(e) \* the new policy is already due: lock_security_boundary
          /\ vault' = e /\ cached' = e
          /\ resettable' = FALSE
          /\ state' = "locked" /\ ClearUnlockSession
          /\ CancelEverything
       \/ /\ WriteReportsError(e)
          /\ UNCHANGED <<session, pending, resets, presence>>
       \/ /\ DurableAccepts(e) \* the read back fails: fatal_security_error
          /\ vault' = e
          /\ state' = "error" /\ resettable' = TRUE /\ ClearUnlockSession
          /\ UNCHANGED <<cached, session, pending, resets, presence>>
    /\ KeepConsent
    /\ UNCHANGED <<partition, reg, reg_corrupt, registration, working>>

\* install_rekeyed_vault and rekey_encrypted_vault
VaultRekey(e) ==
    /\ Waiting /\ pending # Nothing /\ pending.ctx.op = "rekey"
    /\ e.vault_id = pending.ctx.vault_id /\ e.generation = pending.ctx.generation + 1
    /\ state = "locked" /\ cached # Nothing /\ vmk = Nothing /\ unlock_session
    /\ cached.generation = pending.ctx.generation /\ cached.vault_id = e.vault_id
    /\ e.key = pending.key
    /\ pending' = Nothing
    /\ \/ /\ DurableAccepts(e)
          /\ vault' = e /\ UnlockRuntime(e)
          /\ UNCHANGED <<session, resets, presence>>
       \/ /\ DurableAccepts(e) \* already due for the automatic lock
          /\ vault' = e /\ cached' = e /\ resettable' = FALSE
          /\ state' = "locked" /\ ClearUnlockSession
          /\ NoSession /\ NoResets /\ NoPresence
       \/ /\ WriteReportsError(e)
          /\ UNCHANGED <<session, resets, presence>>
       \/ /\ DurableAccepts(e) \* the read back fails
          /\ vault' = e
          /\ state' = "error" /\ ClearUnlockSession
          /\ UNCHANGED <<resettable, cached, session, resets, presence>>
    /\ KeepConsent
    /\ UNCHANGED <<partition, reg, reg_corrupt, registration, working>>

\* device.lock, and the automatic lock of housekeeping
DeviceLock ==
    /\ Waiting
    /\ CancelEverything /\ LockRuntime
    /\ KeepConsent
    /\ UNCHANGED <<flash, registration, working>>

-----------------------------------------------------------------------------
(* factory_reset.begin / cancel / commit                                   *)

HealthyResetBegin(a) ==
    /\ Waiting /\ Decision = "not_required" /\ state = "unlocked" /\ Fresh(a)
    /\ NoSession /\ pending' = Nothing
    /\ healthy' = a /\ recovery' = Nothing
    /\ AwaitPresence(a, "reset")
    /\ KeepConsent
    /\ UNCHANGED <<flash, runtime, registration, working>>

\* Mutant: the presence of a cancelled reset is left pending.
HealthyResetEndsAlone ==
    /\ Waiting /\ healthy # Nothing
    /\ healthy' = Nothing
    /\ KeepConsent
    /\ UNCHANGED <<flash, runtime, registration, session, pending, recovery, presence, working>>

\* Cancelled or expired; only an active reset touches the presence.
HealthyResetEnds ==
    /\ Waiting /\ healthy # Nothing
    /\ healthy' = Nothing /\ NoPresence
    /\ KeepConsent
    /\ UNCHANGED <<flash, runtime, registration, session, pending, recovery, working>>

\* Mutant: the outcome of consume_presence is ignored.
CommitUnconfirmed ==
    /\ Waiting /\ healthy # Nothing
    /\ healthy' = Nothing /\ Consume(healthy)
    /\ IF Decision = "not_required" /\ state = "unlocked"
       THEN /\ NoSession /\ pending' = Nothing /\ recovery' = Nothing
            /\ job' = "wipe_vault"
       ELSE UNCHANGED <<session, pending, recovery, job>>
    /\ UNCHANGED <<flash, runtime, registration, job_envelope>>

\* Mutant: the registration goes first.
CommitRegistrationFirst ==
    /\ Waiting /\ healthy # Nothing /\ Confirmed(healthy)
    /\ healthy' = Nothing /\ Consume(healthy)
    /\ IF Decision = "not_required" /\ state = "unlocked"
       THEN /\ NoSession /\ pending' = Nothing /\ recovery' = Nothing
            /\ job' = "drop_registration"
       ELSE UNCHANGED <<session, pending, recovery, job>>
    /\ UNCHANGED <<flash, runtime, registration, job_envelope>>

\* The confirmation is consumed before anything is destroyed.
HealthyResetCommit ==
    /\ Waiting /\ healthy # Nothing /\ Confirmed(healthy)
    /\ healthy' = Nothing /\ Consume(healthy)
    /\ IF Decision = "not_required" /\ state = "unlocked"
       THEN /\ NoSession /\ pending' = Nothing /\ recovery' = Nothing
            /\ job' = "wipe_vault"
       ELSE UNCHANGED <<session, pending, recovery, job>>
    /\ UNCHANGED <<flash, runtime, registration, job_envelope>>

JobWipeVault ==
    /\ job = "wipe_vault"
    /\ \/ Erased /\ job' = "wipe_registration"
       \/ EraseFails /\ job' = "none"
    /\ KeepConsent
    /\ UNCHANGED <<reg, reg_corrupt, registration, session, pending, resets, presence, job_envelope>>

\* clear_registration
JobWipeRegistration ==
    /\ job = "wipe_registration"
    /\ \/ reg' = Nothing /\ reg_corrupt' = FALSE /\ snapshot' = Nothing
       \/ /\ \/ UNCHANGED <<reg, reg_corrupt>>
             \/ reg' = Nothing /\ reg_corrupt' = FALSE
          /\ UNCHANGED snapshot
    /\ job' = "none"
    /\ KeepConsent
    /\ UNCHANGED <<partition, vault, runtime, store, session, pending, resets, presence, job_envelope>>

-----------------------------------------------------------------------------
(* factory_reset.recovery_begin / recovery_complete                        *)

RecoveryResetBegin(a) ==
    /\ Waiting /\ Decision = "required" /\ Fresh(a)
    /\ NoSession /\ pending' = Nothing
    /\ IF state = "error" THEN UNCHANGED runtime ELSE LockRuntime
    /\ healthy' = Nothing /\ recovery' = a
    /\ AwaitPresence(a, "reset")
    /\ KeepConsent
    /\ UNCHANGED <<flash, registration, working>>

RecoveryResetEnds ==
    /\ Waiting /\ recovery # Nothing
    /\ recovery' = Nothing /\ NoPresence
    /\ KeepConsent
    /\ UNCHANGED <<flash, runtime, registration, session, pending, healthy, working>>

RecoveryResetComplete ==
    /\ Waiting /\ recovery # Nothing /\ Confirmed(recovery)
    /\ recovery' = Nothing /\ Consume(recovery)
    /\ job' = IF Decision = "required" THEN "drop_registration" ELSE job
    /\ UNCHANGED <<flash, runtime, registration, session, pending, healthy, job_envelope>>

\* The registration goes first, so that a crash leaves a partial ownership
\* state.  Clearing a corrupt registration makes the store ready.
JobDropRegistration ==
    /\ job = "drop_registration"
    /\ \/ /\ reg' = Nothing /\ reg_corrupt' = FALSE /\ snapshot' = Nothing
          /\ store' = "ready"
          /\ job' = "drop_vault"
       \/ /\ \/ UNCHANGED <<reg, reg_corrupt>>
             \/ reg' = Nothing /\ reg_corrupt' = FALSE
          /\ job' = "none"
          /\ UNCHANGED <<store, snapshot>>
    /\ KeepConsent
    /\ UNCHANGED <<partition, vault, runtime, session, pending, resets, presence, job_envelope>>

JobDropVault ==
    /\ job = "drop_vault"
    /\ Erased \/ EraseFails
    /\ job' = "none"
    /\ KeepConsent
    /\ UNCHANGED <<reg, reg_corrupt, registration, session, pending, resets, presence, job_envelope>>

-----------------------------------------------------------------------------
(* Time, the user, power and flash                                         *)

\* housekeeping: the attempt or the pending key has expired.
ExpireSession ==
    /\ Waiting /\ phase # "idle"
    /\ NoSession /\ NoPresence
    /\ KeepConsent
    /\ UNCHANGED <<flash, runtime, registration, pending, resets, working>>

ExpirePending == VaultRejected

\* The UI task: a fresh press confirms, or the request expires there first.
Confirm ==
    /\ state # "off" /\ gate = "awaiting" /\ gate' = "confirmed"
    /\ UNCHANGED <<flash, runtime, registration, session, pending, resets, gate_attempt, gate_op, working, consent>>

GateExpires ==
    /\ state # "off" /\ gate # "idle" /\ NoPresence
    /\ UNCHANGED <<flash, runtime, registration, session, pending, resets, working, consent>>

PowerLoss ==
    /\ state # "off"
    /\ state' = "off" /\ resettable' = FALSE /\ cached' = Nothing /\ ClearUnlockSession
    /\ store' = "io" /\ snapshot' = Nothing
    /\ CancelEverything
    /\ job' = "none" /\ job_envelope' = Nothing /\ consent' = Nothing
    /\ UNCHANGED flash

\* Flash decays while the Device is off.
FlashRots ==
    /\ state = "off"
    /\ \/ /\ partition = "ready" /\ partition' = "corrupt" /\ vault' = Nothing
          /\ UNCHANGED <<reg, reg_corrupt>>
       \/ /\ reg # Nothing /\ reg' = Nothing /\ reg_corrupt' = TRUE
          /\ UNCHANGED <<partition, vault>>
    /\ UNCHANGED <<runtime, registration, session, pending, resets, presence, working, consent>>

\* registration::Store::initialize, then Runtime::initialize.  A Device id that
\* is corrupt leads to the same state as a registration that is.
BootRegistration ==
    \/ /\ store' = IF reg_corrupt THEN "recoverable" ELSE "ready"
       /\ snapshot' = reg
    \/ store' = "io" /\ snapshot' = Nothing

BootRuntime ==
    \/ /\ state' = CASE partition = "blank" -> "unprovisioned"
                     [] partition = "legacy" -> "reprovision"
                     [] partition = "ready" -> IF vault = Nothing THEN "unprovisioned" ELSE "locked"
                     [] OTHER -> "error"
       /\ resettable' = (partition \in {"legacy", "corrupt"})
       /\ cached' = vault
    \/ state' = "error" /\ resettable' = FALSE /\ cached' = Nothing

Boot ==
    /\ state = "off"
    /\ BootRegistration /\ BootRuntime /\ ClearUnlockSession
    /\ UNCHANGED <<flash, session, pending, resets, presence, working, consent>>

Init ==
    /\ partition \in {"blank", "legacy"} /\ vault = Nothing
    /\ reg = Nothing /\ reg_corrupt = FALSE
    /\ state = "off" /\ resettable = FALSE /\ cached = Nothing
    /\ vmk = Nothing /\ unlock_session = FALSE
    /\ store = "io" /\ snapshot = Nothing
    /\ phase = "idle" /\ attempt = Nothing /\ ctx = Nothing
    /\ pending = Nothing /\ healthy = Nothing /\ recovery = Nothing
    /\ gate = "idle" /\ gate_attempt = Nothing /\ gate_op = Nothing
    /\ job = "none" /\ job_envelope = Nothing /\ consent = Nothing

Session ==
    \/ \E c \in Contexts, a \in Attempts : SessionBegin(c, a)
    \/ SessionAuthorize \/ SessionFailClosed \/ Disconnect \/ ExpireSession
    \/ \E k \in Keys : SessionComplete(k)

Vault ==
    \/ \E e \in Envelopes : VaultInstall(e) \/ VaultUpdate(e) \/ VaultRekey(e)
    \/ ExpirePending \/ DeviceLock
    \/ JobFormat \/ JobInstall \/ JobRegister \/ JobUndo

Reset ==
    \/ \E a \in Attempts : HealthyResetBegin(a) \/ RecoveryResetBegin(a)
    \/ HealthyResetEnds \/ HealthyResetCommit \/ JobWipeVault \/ JobWipeRegistration
    \/ RecoveryResetEnds \/ RecoveryResetComplete \/ JobDropRegistration \/ JobDropVault

Environment == Confirm \/ GateExpires \/ PowerLoss \/ FlashRots \/ Boot

Next == Session \/ Vault \/ Reset \/ Environment

Spec == Init /\ [][Next]_vars

-----------------------------------------------------------------------------
(* Properties                                                              *)

\* The gate is shared by the session and both resets, and any of them cancels
\* it for all: a pending confirmation always has exactly one live owner, which
\* began it for that owner's own operation.
PresenceOwner ==
    gate # "idle" =>
        /\ gate_attempt \in {attempt, healthy, recovery}
        /\ gate_attempt = attempt => phase = "presence" /\ gate_op = ctx.op
        /\ gate_attempt \in {healthy, recovery} => gate_op = "reset"
        /\ healthy # Nothing \/ recovery # Nothing => phase = "idle"
        /\ healthy = Nothing \/ recovery = Nothing

\* The resident key exists exactly while the Runtime is UNLOCKED and is the one
\* that opens the cached Vault; a key that waits in the sink for its Vault
\* request never coexists with it.
KeyCustody ==
    /\ (vmk # Nothing) <=> (state = "unlocked")
    /\ vmk # Nothing => cached # Nothing /\ vmk = cached.key
    /\ pending # Nothing /\ job = "none" => vmk = Nothing

\* install_initial_vault and install_recovered_vault begin by formatting the
\* partition: from the moment the key is accepted until then there is no Vault
\* in it to destroy, whatever requests, crashes and errors came between.
NoVaultUnderPendingInstall ==
    \/ pending # Nothing /\ pending.ctx.op \in {"initial", "recovery"} /\ job = "none"
    \/ job = "format"
    => vault = Nothing /\ cached = Nothing

\* Outside a request an UNLOCKED Device has a registration for that very Vault.
UnlockedIsOwned ==
    state = "unlocked" /\ job = "none" =>
        snapshot # Nothing /\ snapshot.vault_id = cached.vault_id

\* snapshot_ is the persisted registration or its predecessor.
SnapshotLags ==
    /\ reg # Nothing /\ reg.vault_id = snapshot.vault_id
    /\ reg.epoch \in {snapshot.epoch, snapshot.epoch + 1}

\* A registration write that reported an error may have become durable; what
\* the Device trusts lags behind by at most that one epoch of the same Vault.
StaleRegistrationBounded ==
    Waiting /\ Decision = "not_required" /\ snapshot # Nothing => SnapshotLags

\* What one step may do to the Vault and the registration in flash, and to
\* the epoch.
VaultChangeConsented ==
    /\ vault # Nothing /\ vault' = Nothing => consent' = "reset" \/ vault = job_envelope
    /\ vault # Nothing /\ vault' = Nothing /\ job = "wipe_vault" => state = "unlocked"
    /\ vault = Nothing /\ vault' # Nothing => consent' \in {"initial", "recovery"}
    /\ vault # Nothing /\ vault' \notin {vault, Nothing} =>
           consent' = "rekey" \/ (state = "unlocked" /\ vault'.key = vault.key)

RegistrationChangeConsented ==
    /\ reg # Nothing /\ reg' = Nothing => consent' = "reset"
    /\ reg = Nothing /\ reg' # Nothing => consent' \in {"initial", "recovery"}
    /\ reg # Nothing /\ reg' \notin {reg, Nothing} => consent' \in {"recovery", "replacement"}

EpochStep ==
    reg # Nothing /\ reg' \notin {reg, Nothing} =>
        reg'.vault_id = reg.vault_id /\ reg'.epoch = reg.epoch + 1

\* Durable ownership changes only by a request whose own prompt was confirmed
\* on the Device, and a healthy reset erases only a Device that is still UNLOCKED
\* then.  The exceptions are vault.update, which needs the resident key, and
\* undoing an installation.
ConsentedChange ==
    [][state # "off" => VaultChangeConsented /\ RegistrationChangeConsented]_vars

\* Without a reset between, registration epochs of a Vault advance one by one,
\* even when the snapshot a request was matched against is stale.
EpochAdvances == [][EpochStep]_vars

-----------------------------------------------------------------------------
(* The inductive invariant behind the theorems of DeviceOwnershipProofs    *)

\* Session, pending key, job and the two resets exclude one another.
Exclusive ==
    /\ phase # "idle" =>
           pending = Nothing /\ job = "none" /\ healthy = Nothing /\ recovery = Nothing
    /\ healthy # Nothing \/ recovery # Nothing => pending = Nothing /\ job = "none"
    /\ healthy = Nothing \/ recovery = Nothing
    /\ (phase = "idle" <=> attempt = Nothing) /\ (phase = "idle" <=> ctx = Nothing)
    /\ gate = "idle" <=> gate_attempt = Nothing

\* What Runtime's state says about its key and its envelope.
RuntimeShape ==
    /\ (vmk # Nothing) <=> (state = "unlocked")
    /\ state = "unlocked" => vmk = cached.key
    /\ state \in {"locked", "unlocked"} => cached # Nothing
    /\ state \in {"unprovisioned", "reprovision"} => cached = Nothing

\* ... and about the partition: the cached envelope lags by one generation at
\* most.
FlashShape ==
    /\ vault # Nothing => partition = "ready"
    /\ state \in {"unprovisioned", "reprovision"} /\ job # "undo" => vault = Nothing
    /\ state \in {"locked", "unlocked"} =>
           /\ vault # Nothing
           /\ vault # cached => vault.generation = cached.generation + 1

PendingInstall == pending # Nothing /\ pending.ctx.op \in {"initial", "recovery"}
PendingRekey == pending # Nothing /\ pending.ctx.op = "rekey"

\* The states in which requests may be under way.
WaitingShape ==
    /\ phase # "idle" => state \in {"unprovisioned", "reprovision", "locked"}
    /\ pending # Nothing => PendingInstall \/ PendingRekey
    /\ PendingInstall /\ job \in {"none", "format"} => state \in {"unprovisioned", "reprovision"}
    /\ PendingRekey =>
           /\ state = "locked" /\ job = "none"
           /\ snapshot # Nothing /\ snapshot.vault_id = cached.vault_id
    /\ recovery # Nothing => state # "unlocked"

InstallJobs == {"format", "install", "register", "undo"}

JobShape ==
    /\ job # "none" => state # "off"
    /\ job \in InstallJobs =>
           /\ PendingInstall
           /\ job_envelope # Nothing /\ job_envelope.vault_id = pending.ctx.vault_id
    /\ job \notin InstallJobs \cup {"none"} => pending = Nothing /\ consent = "reset"
    /\ job = "install" => state = "unprovisioned" /\ partition = "ready"
    /\ job = "register" => state = "unlocked" /\ cached = job_envelope /\ vault = job_envelope
    /\ job = "undo" => vault \in {Nothing, job_envelope}
    /\ job = "wipe_vault" => state = "unlocked"
    /\ job = "wipe_registration" => state = "unprovisioned"
    /\ job \in {"drop_registration", "drop_vault"} => state # "unlocked"

ConsentShape == pending # Nothing => consent = pending.ctx.op

\* A snapshot that is worse than that is of no use: the Runtime has failed, or
\* it has no Vault for that registration, and a key can only come to wait for
\* its Vault without one.
RegistrationShape ==
    /\ snapshot # Nothing => SnapshotLags \/ state = "error" \/ ~Bound
    /\ PendingInstall => store = "ready"
    /\ PendingInstall /\ job # "undo" => snapshot = Nothing
    /\ job = "drop_registration" => snapshot = Nothing \/ state = "error" \/ ~Bound
    /\ state = "off" \/ store = "recoverable" => snapshot = Nothing
    /\ reg_corrupt => reg = Nothing

IndInv ==
    /\ TypeOK
    /\ Exclusive /\ PresenceOwner
    /\ RuntimeShape /\ FlashShape
    /\ WaitingShape /\ JobShape /\ ConsentShape
    /\ UnlockedIsOwned /\ RegistrationShape

-----------------------------------------------------------------------------
\* "Only the former [structural, unsupported or reprovision failures] may
\* expose the destructive, presence-gated recovery-reset surface"
\* (recovery_reset.hpp): it is not offered while flash holds a Vault and a
\* registration for it.
RecoveryOnlyWhenDamaged ==
    Waiting /\ Decision = "required" =>
        vault = Nothing \/ reg = Nothing \/ vault.vault_id # reg.vault_id

\* recovery_reset_allowed marks "a structural/reprovision condition for which
\* an explicitly user-confirmed destructive reset is a valid recovery"
\* (runtime.hpp): a recovery reset that was begun stays required, so that the
\* confirmation can complete it.
RecoveryResetStaysRequired ==
    Waiting /\ recovery # Nothing => Decision = "required"
=============================================================================
