----------------------- MODULE DeviceOwnershipProofs -----------------------
(***************************************************************************)
(* Proofs about DeviceOwnership for any sets of Vaults, keys, Browsers and *)
(* attempts and any ranges of generations and epochs.                      *)
(***************************************************************************)
EXTENDS DeviceOwnership, TLAPS

USE NothingAssumption

FlagsOK == reg_corrupt \in BOOLEAN /\ resettable \in BOOLEAN /\ unlock_session \in BOOLEAN

\* The conjuncts of IndInv that relate variables to one another, without the
\* one about the persisted registration.
Shape ==
    /\ Exclusive /\ PresenceOwner
    /\ RuntimeShape /\ FlashShape
    /\ WaitingShape /\ JobShape /\ ConsentShape
    /\ UnlockedIsOwned

\* A context that context_valid admits has the fields its operation needs.
LEMMA ContextFields ==
    ASSUME NEW c \in Contexts
    PROVE  /\ c.op \in Operations /\ c.vault_id \in VaultIds
           /\ c.op \in {"initial", "recovery", "replacement"} => c.new_brk \in Browsers
           /\ c.op \in {"recovery", "replacement"} => c.epoch \in 1..MaxEpoch
  BY DEF Contexts, InitialContexts, TrustedContexts, ReplaceContexts, Operations

\* The registration that a recovery or a replacement writes.
LEMMA ReplacementType ==
    ASSUME NEW c \in Contexts, c.op \in {"recovery", "replacement"}
    PROVE  [vault_id |-> c.vault_id, epoch |-> c.epoch, brk |-> c.new_brk] \in Registrations
  BY ContextFields DEF Registrations

\* What CanonicalVmkSink keeps is a context and a key.
LEMMA PendingType ==
    /\ \A c \in Contexts, k \in Keys : [ctx |-> c, key |-> k] \in Pending
    /\ \A p \in Pending : p.ctx \in Contexts /\ p.key \in Keys
  BY DEF Pending

\* The registration that install_initial writes.
LEMMA InitialType ==
    ASSUME NEW p \in Pending, p.ctx.op \in {"initial", "recovery"}
    PROVE  [vault_id |-> p.ctx.vault_id, epoch |-> 1, brk |-> p.ctx.new_brk] \in Registrations
<1>1. p.ctx \in Contexts
  BY PendingType
<1>2. 1 \in 1..MaxEpoch
  BY BoundsAssumption
<1> QED BY <1>1, <1>2, ContextFields DEF Registrations

\* The fields of an envelope.
LEMMA EnvelopeKey == ASSUME NEW e \in Envelopes PROVE e.key \in Keys /\ e.generation \in Int
  BY DEF Envelopes

\* The Device before its first boot satisfies the inductive invariant.
LEMMA InitInd == Init => IndInv
<1> SUFFICES ASSUME Init PROVE IndInv
  OBVIOUS
<1>1. ValuesOK
  BY DEF Init, ValuesOK, Jobs
<1>2. reg_corrupt \in BOOLEAN /\ resettable \in BOOLEAN /\ unlock_session \in BOOLEAN
  BY DEF Init
<1>3. Exclusive /\ PresenceOwner /\ RuntimeShape /\ FlashShape
  BY DEF Init, Exclusive, PresenceOwner, RuntimeShape, FlashShape
<1>4. WaitingShape /\ JobShape /\ ConsentShape /\ UnlockedIsOwned
  BY DEF Init, WaitingShape, PendingInstall, PendingRekey, JobShape, InstallJobs,
         ConsentShape, UnlockedIsOwned
<1>5. RegistrationShape
  BY DEF Init, RegistrationShape, PendingInstall
<1> QED BY <1>1, <1>2, <1>3, <1>4, <1>5 DEF IndInv, TypeOK

-----------------------------------------------------------------------------
(* Every step preserves the types                                          *)

\* The session.* requests and their expiry.
LEMMA SessionValues == ASSUME ValuesOK, Shape, Session PROVE ValuesOK'
<1> USE DEF ValuesOK, KeepConsent, NoSession, NoResets, NoPresence, ClearUnlockSession,
            flash, runtime, registration, session, resets, presence, working
<1>1. ASSUME NEW c \in Contexts, NEW a \in Attempts, SessionBegin(c, a) PROVE ValuesOK'
  BY <1>1 DEF SessionBegin, PrepareRuntime, LockRuntime
<1>2. CASE SessionAuthorize
  <2>1. ctx \in Contexts
    BY <1>2 DEF SessionAuthorize, Shape, Exclusive
  <2> QED BY <1>2, <2>1, ContextFields DEF SessionAuthorize, AwaitPresence
<1>3. CASE SessionFailClosed
  BY <1>3 DEF SessionFailClosed
<1>4. CASE Disconnect
  BY <1>4 DEF Disconnect, CancelEverything
<1>5. CASE ExpireSession
  BY <1>5 DEF ExpireSession
<1>6. ASSUME NEW k \in Keys, SessionComplete(k) PROVE ValuesOK'
  <2>1. ctx \in Contexts
    BY <1>6 DEF SessionComplete, Shape, Exclusive
  <2>2. /\ pending' \in Pending \cup {Nothing} /\ consent' \in {gate_op, Nothing}
        /\ UNCHANGED <<partition, vault, store, resets, working>>
    BY <1>6, <2>1, PendingType DEF SessionComplete, Consume
  <2>3. NoSession /\ NoPresence
    BY <1>6 DEF SessionComplete, Consume
  <2>4. CASE OpensVault(ctx, k) /\ ctx.op = "unlock"
    <3>1. UnlockRuntime(cached) /\ UNCHANGED <<reg, snapshot>>
      BY <1>6, <2>4 DEF SessionComplete
    <3>2. cached \in Envelopes /\ cached.key \in Keys
      BY <2>4 DEF OpensVault
    <3> QED BY <2>2, <2>3, <3>1, <3>2 DEF UnlockRuntime
  <2>5. CASE OpensVault(ctx, k) /\ ctx.op # "unlock"
    <3> DEFINE new == [vault_id |-> ctx.vault_id, epoch |-> ctx.epoch, brk |-> ctx.new_brk]
    <3>1. ReplaceRegistration(new)
      BY <1>6, <2>5 DEF SessionComplete
    <3>2. new \in Registrations
      BY <2>1, <2>5, ReplacementType DEF OpensVault
    <3>3. cached \in Envelopes /\ cached.key \in Keys
      BY <2>5 DEF OpensVault
    <3> HIDE DEF new
    <3> QED BY <2>2, <2>3, <3>1, <3>2, <3>3
            DEF ReplaceRegistration, UnlockRuntime, Relock
  <2>6. CASE ~OpensVault(ctx, k)
    BY <1>6, <2>2, <2>3, <2>6 DEF SessionComplete
  <2> QED BY <2>4, <2>5, <2>6
<1> QED BY <1>1, <1>2, <1>3, <1>4, <1>5, <1>6 DEF Session

\* The vault.* requests, device.lock and the steps of an installation.
LEMMA VaultValues == ASSUME ValuesOK, Shape, Vault PROVE ValuesOK'
<1> USE DEF ValuesOK, Jobs, KeepConsent, ClearUnlockSession, RuntimeFails, UnlockRuntime,
            flash, runtime, registration, session, resets, presence, working
<1>1. ASSUME NEW e \in Envelopes, VaultInstall(e) PROVE ValuesOK'
  BY <1>1 DEF VaultInstall
<1>2. ASSUME NEW e \in Envelopes, VaultUpdate(e) PROVE ValuesOK'
  <2>1. UNCHANGED <<partition, reg, registration, working>>
    BY <1>2 DEF VaultUpdate
  <2>2. /\ vault' \in {vault, e} /\ cached' \in {cached, e} /\ vmk' \in {vmk, Nothing}
        /\ state' \in {state, "locked", "error"} /\ consent' \in {consent, Nothing}
    BY <1>2 DEF VaultUpdate, WriteReportsError
  <2>3. \/ UNCHANGED <<session, pending, resets, presence>>
        \/ CancelEverything
    BY <1>2 DEF VaultUpdate
  <2> QED BY <2>1, <2>2, <2>3 DEF CancelEverything, NoSession, NoResets, NoPresence
<1>3. ASSUME NEW e \in Envelopes, VaultRekey(e) PROVE ValuesOK'
  <2>1. UNCHANGED <<partition, reg, registration, working>> /\ pending' = Nothing
    BY <1>3 DEF VaultRekey
  <2>2. /\ vault' \in {vault, e} /\ cached' \in {cached, e} /\ vmk' \in {vmk, Nothing, e.key}
        /\ state' \in {state, "locked", "unlocked", "error"} /\ consent' \in {consent, Nothing}
    BY <1>3 DEF VaultRekey, WriteReportsError
  <2>3. \/ UNCHANGED <<session, resets, presence>>
        \/ NoSession /\ NoResets /\ NoPresence
    BY <1>3 DEF VaultRekey
  <2> QED BY <2>1, <2>2, <2>3, EnvelopeKey DEF NoSession, NoResets, NoPresence
<1>4. CASE ExpirePending
  BY <1>4 DEF ExpirePending, VaultRejected
<1>5. CASE DeviceLock
  BY <1>5 DEF DeviceLock, LockRuntime, CancelEverything, NoSession, NoResets, NoPresence
<1>6. CASE JobFormat
  BY <1>6 DEF JobFormat, EraseStops
<1>7. CASE JobInstall
  <2>1. job_envelope \in Envelopes
    BY <1>7 DEF JobInstall, Shape, JobShape, InstallJobs
  <2> QED BY <1>7, <2>1, EnvelopeKey DEF JobInstall
<1>8. CASE JobRegister
  <2>1. pending \in Pending /\ pending.ctx.op \in {"initial", "recovery"}
    BY <1>8 DEF JobRegister, Shape, JobShape, InstallJobs, PendingInstall
  <2> QED BY <1>8, <2>1, InitialType DEF JobRegister
<1>9. CASE JobUndo
  BY <1>9 DEF JobUndo, Erased, EraseFails, EraseStops
<1> QED BY <1>1, <1>2, <1>3, <1>4, <1>5, <1>6, <1>7, <1>8, <1>9 DEF Vault

\* The factory_reset.* requests and the steps of a reset.
LEMMA ResetValues == ASSUME ValuesOK, Reset PROVE ValuesOK'
<1> USE DEF ValuesOK, Jobs, KeepConsent, NoSession, NoPresence, Consume, AwaitPresence,
            flash, runtime, registration, session, resets, presence, working
<1>1. ASSUME NEW a \in Attempts, HealthyResetBegin(a) PROVE ValuesOK'
  BY <1>1 DEF HealthyResetBegin
<1>2. ASSUME NEW a \in Attempts, RecoveryResetBegin(a) PROVE ValuesOK'
  BY <1>2 DEF RecoveryResetBegin, LockRuntime, ClearUnlockSession
<1>3. CASE HealthyResetEnds
  BY <1>3 DEF HealthyResetEnds
<1>4. CASE HealthyResetCommit
  BY <1>4 DEF HealthyResetCommit
<1>5. CASE JobWipeVault
  BY <1>5 DEF JobWipeVault, Erased, EraseFails, EraseStops, RuntimeFails, ClearUnlockSession
<1>6. CASE JobWipeRegistration
  BY <1>6 DEF JobWipeRegistration
<1>7. CASE RecoveryResetEnds
  BY <1>7 DEF RecoveryResetEnds
<1>8. CASE RecoveryResetComplete
  BY <1>8 DEF RecoveryResetComplete
<1>9. CASE JobDropRegistration
  BY <1>9 DEF JobDropRegistration
<1>10. CASE JobDropVault
  BY <1>10 DEF JobDropVault, Erased, EraseFails, EraseStops, RuntimeFails, ClearUnlockSession
<1> QED BY <1>1, <1>2, <1>3, <1>4, <1>5, <1>6, <1>7, <1>8, <1>9, <1>10 DEF Reset

\* The user, time, power, flash and the boot.
LEMMA EnvironmentValues == ASSUME ValuesOK, Environment PROVE ValuesOK'
<1> USE DEF ValuesOK, NoPresence, flash, runtime, registration, session, resets, presence, working
<1>1. CASE Confirm
  BY <1>1 DEF Confirm
<1>2. CASE GateExpires
  BY <1>2 DEF GateExpires
<1>3. CASE PowerLoss
  BY <1>3 DEF PowerLoss, ClearUnlockSession, CancelEverything, NoSession, NoResets, Jobs
<1>4. CASE FlashRots
  BY <1>4 DEF FlashRots
<1>5. CASE Boot
  BY <1>5 DEF Boot, BootRegistration, BootRuntime, ClearUnlockSession
<1> QED BY <1>1, <1>2, <1>3, <1>4, <1>5 DEF Environment

-----------------------------------------------------------------------------
(* The Boolean flags                                                       *)

\* Every assignment to a flag is a Boolean.
LEMMA FlagsStep == ASSUME FlagsOK, Next PROVE FlagsOK'
<1> USE DEF FlagsOK, flash, runtime, ClearUnlockSession, RuntimeFails, UnlockRuntime, Erased,
            EraseFails, LockRuntime
<1>1. CASE Session
  <2>1. ASSUME NEW c \in Contexts, NEW a \in Attempts, SessionBegin(c, a) PROVE FlagsOK'
    BY <2>1 DEF SessionBegin, PrepareRuntime
  <2>2. CASE SessionAuthorize \/ SessionFailClosed \/ Disconnect \/ ExpireSession
    BY <2>2 DEF SessionAuthorize, SessionFailClosed, Disconnect, ExpireSession
  <2>3. ASSUME NEW k \in Keys, SessionComplete(k) PROVE FlagsOK'
    BY <2>3 DEF SessionComplete, ReplaceRegistration, Relock
  <2> QED BY <1>1, <2>1, <2>2, <2>3 DEF Session
<1>2. CASE Vault
  <2>1. ASSUME NEW e \in Envelopes, VaultInstall(e) PROVE FlagsOK'
    BY <2>1 DEF VaultInstall
  <2>2. ASSUME NEW e \in Envelopes, VaultUpdate(e) PROVE FlagsOK'
    BY <2>2 DEF VaultUpdate, WriteReportsError
  <2>3. ASSUME NEW e \in Envelopes, VaultRekey(e) PROVE FlagsOK'
    BY <2>3 DEF VaultRekey, WriteReportsError
  <2>4. CASE ExpirePending \/ DeviceLock
    BY <2>4 DEF ExpirePending, VaultRejected, DeviceLock
  <2>5. CASE JobFormat \/ JobInstall \/ JobRegister \/ JobUndo
    BY <2>5 DEF JobFormat, JobInstall, JobRegister, JobUndo
  <2> QED BY <1>2, <2>1, <2>2, <2>3, <2>4, <2>5 DEF Vault
<1>3. CASE Reset
  <2>1. ASSUME NEW a \in Attempts, HealthyResetBegin(a) \/ RecoveryResetBegin(a) PROVE FlagsOK'
    BY <2>1 DEF HealthyResetBegin, RecoveryResetBegin
  <2>2. CASE HealthyResetEnds \/ HealthyResetCommit \/ RecoveryResetEnds \/ RecoveryResetComplete
    BY <2>2 DEF HealthyResetEnds, HealthyResetCommit, RecoveryResetEnds, RecoveryResetComplete
  <2>3. CASE JobWipeVault \/ JobWipeRegistration \/ JobDropRegistration \/ JobDropVault
    BY <2>3 DEF JobWipeVault, JobWipeRegistration, JobDropRegistration, JobDropVault
  <2> QED BY <1>3, <2>1, <2>2, <2>3 DEF Reset
<1>4. CASE Environment
  <2>1. CASE Confirm \/ GateExpires
    BY <2>1 DEF Confirm, GateExpires
  <2>2. CASE PowerLoss \/ FlashRots
    BY <2>2 DEF PowerLoss, FlashRots
  <2>3. CASE Boot
    <3>1. resettable' = (partition \in {"legacy", "corrupt"}) \/ resettable' = FALSE
      BY <2>3, Zenon DEF Boot, BootRuntime
    <3>2. (partition \in {"legacy", "corrupt"}) = TRUE \/ (partition \in {"legacy", "corrupt"}) = FALSE
      OBVIOUS
    <3>3. resettable' \in BOOLEAN
      BY <3>1, <3>2, Zenon
    <3> QED BY <2>3, <3>3 DEF Boot
  <2> QED BY <1>4, <2>1, <2>2, <2>3 DEF Environment
<1> QED BY <1>1, <1>2, <1>3, <1>4 DEF Next

-----------------------------------------------------------------------------
(* Every step preserves the relations between the variables                *)

\* session.complete is the delicate one: what it does depends on the context
\* that was matched, and on the confirmation being for it.
LEMMA SessionShape == ASSUME ValuesOK, Shape, Session PROVE Shape'
<1> USE DEF ValuesOK, Shape, Exclusive, PresenceOwner, RuntimeShape, FlashShape,
            WaitingShape, PendingInstall, PendingRekey, JobShape, InstallJobs,
            ConsentShape, UnlockedIsOwned,
            Waiting, KeepConsent, NoSession, NoResets, NoPresence, ClearUnlockSession,
            flash, runtime, registration, session, resets, presence, working
<1>1. ASSUME NEW c \in Contexts, NEW a \in Attempts, SessionBegin(c, a) PROVE Shape'
  BY <1>1, ContextFields DEF SessionBegin, Prepares, PrepareRuntime, LockRuntime, Operations
<1>2. CASE SessionAuthorize
  BY <1>2 DEF SessionAuthorize, AwaitPresence
<1>3. CASE SessionFailClosed
  BY <1>3 DEF SessionFailClosed
<1>4. CASE Disconnect
  BY <1>4 DEF Disconnect, CancelEverything
<1>5. CASE ExpireSession
  BY <1>5 DEF ExpireSession
<1>6. ASSUME NEW k \in Keys, SessionComplete(k) PROVE Shape'
  <2>1. ctx \in Contexts /\ phase = "presence" /\ pending = Nothing /\ job = "none"
    BY <1>6 DEF SessionComplete
  <2>2. /\ NoSession /\ NoPresence
        /\ UNCHANGED <<partition, vault, store, resets, working>>
    BY <1>6 DEF SessionComplete, Consume
  \* The confirmation that is consumed was given for this very operation.
  <2>3. consent' = ctx.op
    BY <1>6, <2>1 DEF SessionComplete, Consume, Confirmed
  <2>4. healthy = Nothing /\ recovery = Nothing
    BY <2>1
  <2>5. CASE OpensVault(ctx, k)
    <3>1. state = "locked" /\ cached \in Envelopes /\ cached.key \in Keys
      BY <2>5, EnvelopeKey DEF OpensVault
    <3>2. pending' = Nothing
      BY <1>6, <2>5, <3>1 DEF SessionComplete, OpensVault, KeepsKey
    <3>3. snapshot # Nothing /\ snapshot.vault_id = cached.vault_id /\ ctx.vault_id = cached.vault_id
      BY <1>6, <2>1, <2>5, <3>1, ContextFields
         DEF SessionComplete, OpensVault, Matches, Bound, MatchesVault, Clean, Operations
    <3>4. CASE ctx.op = "unlock"
      <4>1. UnlockRuntime(cached) /\ UNCHANGED <<reg, snapshot>>
        BY <1>6, <2>5, <3>4 DEF SessionComplete
      <4> QED BY <2>1, <2>2, <2>4, <3>1, <3>2, <3>3, <4>1 DEF UnlockRuntime
    <3>5. CASE ctx.op # "unlock"
      <4> DEFINE new == [vault_id |-> ctx.vault_id, epoch |-> ctx.epoch, brk |-> ctx.new_brk]
      <4>1. ReplaceRegistration(new)
        BY <1>6, <2>5, <3>5 DEF SessionComplete
      <4>2. new # Nothing /\ new.vault_id = cached.vault_id
        BY <2>1, <2>5, <3>3, <3>5, ReplacementType DEF OpensVault
      <4> HIDE DEF new
      <4> QED BY <2>1, <2>2, <2>4, <3>1, <3>2, <4>1, <4>2
              DEF ReplaceRegistration, UnlockRuntime, Relock
    <3> QED BY <3>4, <3>5
  <2>6. CASE ~OpensVault(ctx, k)
    <3>1. UNCHANGED <<runtime, snapshot>>
      BY <1>6, <2>6 DEF SessionComplete
    <3>2. CASE ~KeepsKey(ctx)
      <4>1. pending' = Nothing
        BY <1>6, <3>2 DEF SessionComplete
      <4> QED BY <2>1, <2>2, <2>4, <3>1, <4>1
    <3>3. CASE KeepsKey(ctx)
      <4>1. pending' # Nothing /\ pending'.ctx = ctx
        BY <1>6, <2>1, <3>3, PendingType DEF SessionComplete
      <4>2. ctx.op \in {"initial", "recovery"} => state \in {"unprovisioned", "reprovision"}
        BY <1>6, <2>1, <3>3 DEF SessionComplete, Matches, Clean, KeepsKey
      <4>3. ctx.op = "rekey" =>
                state = "locked" /\ snapshot # Nothing /\ snapshot.vault_id = cached.vault_id
        BY <1>6, <2>1 DEF SessionComplete, Matches, Bound, MatchesVault
      <4>4. ctx.op \in {"initial", "recovery", "rekey"}
        BY <3>3 DEF KeepsKey
      <4> QED BY <2>1, <2>2, <2>3, <2>4, <3>1, <4>1, <4>2, <4>3, <4>4
    <3> QED BY <3>2, <3>3
  <2> QED BY <2>5, <2>6
<1> QED BY <1>1, <1>2, <1>3, <1>4, <1>5, <1>6 DEF Session

\* vault.update and vault.rekey move Vault and cached envelope together; an
\* installation hands its key from the sink to the Runtime.
LEMMA VaultShape == ASSUME ValuesOK, Shape, Vault PROVE Shape'
<1> USE DEF ValuesOK, Shape, Exclusive, PresenceOwner, RuntimeShape, FlashShape,
            WaitingShape, PendingInstall, PendingRekey, JobShape, InstallJobs,
            ConsentShape, UnlockedIsOwned,
            Waiting, KeepConsent, ClearUnlockSession, RuntimeFails, UnlockRuntime,
            flash, runtime, registration, session, resets, presence, working
<1>1. ASSUME NEW e \in Envelopes, VaultInstall(e) PROVE Shape'
  BY <1>1 DEF VaultInstall
<1>2. ASSUME NEW e \in Envelopes, VaultUpdate(e) PROVE Shape'
  BY <1>2, EnvelopeKey DEF VaultUpdate, WriteReportsError, CancelEverything, NoSession, NoResets,
     NoPresence, DurableAccepts
<1>3. ASSUME NEW e \in Envelopes, VaultRekey(e) PROVE Shape'
  BY <1>3, EnvelopeKey DEF VaultRekey, WriteReportsError, NoSession, NoResets, NoPresence,
     DurableAccepts
<1>4. CASE ExpirePending
  BY <1>4 DEF ExpirePending, VaultRejected
<1>5. CASE DeviceLock
  BY <1>5 DEF DeviceLock, LockRuntime, CancelEverything, NoSession, NoResets, NoPresence
<1>6. CASE JobFormat
  BY <1>6 DEF JobFormat, EraseStops
<1>7. CASE JobInstall
  <2>1. job_envelope \in Envelopes /\ job_envelope.key # Nothing
    BY <1>7, EnvelopeKey DEF JobInstall
  <2> QED BY <1>7, <2>1 DEF JobInstall
<1>8. CASE JobRegister
  <2> DEFINE new == [vault_id |-> pending.ctx.vault_id, epoch |-> 1, brk |-> pending.ctx.new_brk]
  <2>1. new # Nothing /\ new.vault_id = cached.vault_id
    BY <1>8, InitialType DEF JobRegister
  <2>2. \/ snapshot' = new /\ pending' = Nothing /\ job' = "none" /\ job_envelope' = Nothing
        \/ job' = "undo" /\ UNCHANGED <<pending, job_envelope>>
    BY <1>8 DEF JobRegister
  <2>3. /\ job = "register" /\ KeepConsent
        /\ UNCHANGED <<partition, vault, runtime, session, resets, presence>>
    BY <1>8 DEF JobRegister
  <2> HIDE DEF new
  <2> QED BY <2>1, <2>2, <2>3
<1>9. CASE JobUndo
  BY <1>9 DEF JobUndo, Erased, EraseFails, EraseStops
<1> QED BY <1>1, <1>2, <1>3, <1>4, <1>5, <1>6, <1>7, <1>8, <1>9 DEF Vault

\* A reset excludes every session from its begin to its end.
LEMMA ResetShape == ASSUME ValuesOK, Shape, Reset PROVE Shape'
<1> USE DEF ValuesOK, Shape, Exclusive, PresenceOwner, RuntimeShape, FlashShape,
            WaitingShape, PendingInstall, PendingRekey, JobShape, InstallJobs,
            ConsentShape, UnlockedIsOwned,
            Waiting, KeepConsent, NoSession, NoPresence, AwaitPresence, Consume, Confirmed,
            flash, runtime, registration, session, resets, presence, working
<1>1. ASSUME NEW a \in Attempts, HealthyResetBegin(a) PROVE Shape'
  BY <1>1 DEF HealthyResetBegin
<1>2. ASSUME NEW a \in Attempts, RecoveryResetBegin(a) PROVE Shape'
  BY <1>2 DEF RecoveryResetBegin, LockRuntime, ClearUnlockSession
<1>3. CASE HealthyResetEnds
  BY <1>3 DEF HealthyResetEnds
<1>4. CASE HealthyResetCommit
  BY <1>4 DEF HealthyResetCommit
<1>5. CASE JobWipeVault
  BY <1>5 DEF JobWipeVault, Erased, EraseFails, EraseStops, RuntimeFails, ClearUnlockSession
<1>6. CASE JobWipeRegistration
  BY <1>6 DEF JobWipeRegistration
<1>7. CASE RecoveryResetEnds
  BY <1>7 DEF RecoveryResetEnds
<1>8. CASE RecoveryResetComplete
  BY <1>8 DEF RecoveryResetComplete
<1>9. CASE JobDropRegistration
  BY <1>9 DEF JobDropRegistration
<1>10. CASE JobDropVault
  BY <1>10 DEF JobDropVault, Erased, EraseFails, EraseStops, RuntimeFails, ClearUnlockSession
<1> QED BY <1>1, <1>2, <1>3, <1>4, <1>5, <1>6, <1>7, <1>8, <1>9, <1>10 DEF Reset

\* Losing power forgets everything but flash, and the boot reads flash.
LEMMA EnvironmentShape == ASSUME ValuesOK, Shape, Environment PROVE Shape'
<1> USE DEF ValuesOK, Shape, Exclusive, PresenceOwner, RuntimeShape, FlashShape,
            WaitingShape, PendingInstall, PendingRekey, JobShape, InstallJobs,
            ConsentShape, UnlockedIsOwned,
            NoPresence, flash, runtime, registration, session, resets, presence, working
<1>1. CASE Confirm
  BY <1>1 DEF Confirm
<1>2. CASE GateExpires
  BY <1>2 DEF GateExpires
<1>3. CASE PowerLoss
  BY <1>3 DEF PowerLoss, ClearUnlockSession, CancelEverything, NoSession, NoResets
<1>4. CASE FlashRots
  BY <1>4 DEF FlashRots
<1>5. CASE Boot
  BY <1>5 DEF Boot, BootRegistration, BootRuntime, ClearUnlockSession
<1> QED BY <1>1, <1>2, <1>3, <1>4, <1>5 DEF Environment

-----------------------------------------------------------------------------
(* Every step preserves what is known of the persisted registration        *)

\* ReplaceRegistration leaves the reloaded registration or its successor.
LEMMA ReplaceLags ==
    ASSUME NEW new \in Registrations, ReplaceRegistration(new)
    PROVE  snapshot' # Nothing => SnapshotLags'
  BY DEF ReplaceRegistration, SnapshotLags, Succeeds, Registrations

\* Only a session that matched a bound snapshot writes the registration.
LEMMA SessionRegistration ==
    ASSUME ValuesOK, Shape, RegistrationShape, Session PROVE RegistrationShape'
<1> USE DEF ValuesOK, Shape, Exclusive, RuntimeShape, WaitingShape, JobShape,
            PendingInstall, RegistrationShape, SnapshotLags, Bound, Waiting,
            NoSession, flash, runtime, registration, working
<1>1. ASSUME NEW c \in Contexts, NEW a \in Attempts, SessionBegin(c, a) PROVE RegistrationShape'
  BY <1>1, ContextFields DEF SessionBegin, Prepares, PrepareRuntime, LockRuntime, Operations
<1>2. CASE SessionAuthorize
  BY <1>2 DEF SessionAuthorize
<1>3. CASE SessionFailClosed
  BY <1>3 DEF SessionFailClosed
<1>4. CASE Disconnect
  BY <1>4 DEF Disconnect, CancelEverything
<1>5. CASE ExpireSession
  BY <1>5 DEF ExpireSession
<1>6. ASSUME NEW k \in Keys, SessionComplete(k) PROVE RegistrationShape'
  <2>1. ctx \in Contexts /\ phase = "presence" /\ pending = Nothing /\ job = "none" /\ state # "off"
    BY <1>6 DEF SessionComplete
  <2>2. Matches(ctx) /\ UNCHANGED <<reg_corrupt, store, job>>
    BY <1>6 DEF SessionComplete
  <2>3. store = "ready"
    BY <2>2 DEF Matches
  <2>4. CASE OpensVault(ctx, k)
    <3>1. pending' = Nothing
      BY <1>6, <2>4 DEF SessionComplete, OpensVault, KeepsKey
    <3>2. CASE ctx.op = "unlock"
      <4>1. UnlockRuntime(cached) /\ UNCHANGED <<reg, snapshot>>
        BY <1>6, <2>4, <3>2 DEF SessionComplete
      <4>2. state = "locked"
        BY <2>4 DEF OpensVault
      <4> QED BY <2>1, <2>2, <3>1, <4>1, <4>2 DEF UnlockRuntime
    <3>3. CASE ctx.op # "unlock"
      <4> DEFINE new == [vault_id |-> ctx.vault_id, epoch |-> ctx.epoch, brk |-> ctx.new_brk]
      <4>1. ReplaceRegistration(new)
        BY <1>6, <2>4, <3>3 DEF SessionComplete
      <4>2. new \in Registrations
        BY <2>1, <2>4, <3>3, ReplacementType DEF OpensVault
      <4> HIDE DEF new
      <4>3. snapshot' # Nothing => SnapshotLags'
        BY <4>1, <4>2, ReplaceLags
      <4>4. state' # "off" /\ (reg_corrupt => reg' = reg)
        BY <4>1 DEF ReplaceRegistration, UnlockRuntime, Relock
      <4> QED BY <2>1, <2>2, <2>3, <3>1, <4>3, <4>4
    <3> QED BY <3>2, <3>3
  <2>5. CASE ~OpensVault(ctx, k)
    <3>1. UNCHANGED <<reg, runtime, snapshot>>
      BY <1>6, <2>5 DEF SessionComplete
    <3>2. pending' = Nothing \/ (pending'.ctx = ctx /\ KeepsKey(ctx))
      BY <1>6 DEF SessionComplete
    <3>3. KeepsKey(ctx) /\ ctx.op \in {"initial", "recovery"} => snapshot = Nothing
      BY <2>2 DEF KeepsKey, Matches, Clean
    <3> QED BY <2>1, <2>2, <2>3, <3>1, <3>2, <3>3
  <2> QED BY <2>4, <2>5
<1> QED BY <1>1, <1>2, <1>3, <1>4, <1>5, <1>6 DEF Session

\* An installation starts without a registration and ends with its own.
LEMMA VaultRegistration ==
    ASSUME ValuesOK, Shape, RegistrationShape, Vault PROVE RegistrationShape'
<1> USE DEF ValuesOK, Shape, Exclusive, RuntimeShape, WaitingShape, JobShape,
            PendingInstall, PendingRekey, InstallJobs, RegistrationShape, SnapshotLags, Bound, Waiting,
            RuntimeFails, UnlockRuntime, flash, runtime, registration, working
<1>1. ASSUME NEW e \in Envelopes, VaultInstall(e) PROVE RegistrationShape'
  BY <1>1 DEF VaultInstall
<1>2. ASSUME NEW e \in Envelopes, VaultUpdate(e) PROVE RegistrationShape'
  BY <1>2 DEF VaultUpdate, WriteReportsError, CancelEverything
<1>3. ASSUME NEW e \in Envelopes, VaultRekey(e) PROVE RegistrationShape'
  BY <1>3 DEF VaultRekey, WriteReportsError
<1>4. CASE ExpirePending
  BY <1>4 DEF ExpirePending, VaultRejected
<1>5. CASE DeviceLock
  BY <1>5 DEF DeviceLock, LockRuntime, CancelEverything
<1>6. CASE JobFormat
  BY <1>6 DEF JobFormat
<1>7. CASE JobInstall
  BY <1>7 DEF JobInstall
<1>8. CASE JobRegister
  <2> DEFINE new == [vault_id |-> pending.ctx.vault_id, epoch |-> 1, brk |-> pending.ctx.new_brk]
  <2>1. \/ reg' = new /\ snapshot' = new /\ pending' = Nothing
        \/ snapshot' = Nothing
        \/ reg # Nothing /\ reg' = reg /\ snapshot' = reg /\ job' = "undo"
    BY <1>8 DEF JobRegister
  <2>2. new \in Registrations
    BY <1>8, InitialType DEF JobRegister
  <2>3. UNCHANGED <<state, store, reg_corrupt>> /\ state = "unlocked" /\ store = "ready"
    BY <1>8 DEF JobRegister
  <2>4. (reg_corrupt => reg' = reg) /\ job' \in {"none", "undo"}
    BY <1>8 DEF JobRegister
  <2> HIDE DEF new
  <2> QED BY <2>1, <2>2, <2>3, <2>4
<1>9. CASE JobUndo
  BY <1>9 DEF JobUndo, Erased, EraseFails
<1> QED BY <1>1, <1>2, <1>3, <1>4, <1>5, <1>6, <1>7, <1>8, <1>9 DEF Vault

\* A reset that fails part-way leaves the Device visibly unbound or failed.
LEMMA ResetRegistration ==
    ASSUME ValuesOK, Shape, RegistrationShape, Reset PROVE RegistrationShape'
<1> USE DEF ValuesOK, Shape, Exclusive, RuntimeShape, WaitingShape, JobShape,
            PendingInstall, InstallJobs, RegistrationShape, SnapshotLags, Bound, Waiting,
            flash, runtime, registration, working
<1>1. ASSUME NEW a \in Attempts, HealthyResetBegin(a) PROVE RegistrationShape'
  BY <1>1 DEF HealthyResetBegin
<1>2. ASSUME NEW a \in Attempts, RecoveryResetBegin(a) PROVE RegistrationShape'
  BY <1>2 DEF RecoveryResetBegin, LockRuntime
<1>3. CASE HealthyResetEnds
  BY <1>3 DEF HealthyResetEnds
<1>4. CASE HealthyResetCommit
  BY <1>4 DEF HealthyResetCommit
<1>5. CASE JobWipeVault
  BY <1>5 DEF JobWipeVault, Erased, EraseFails, RuntimeFails
<1>6. CASE JobWipeRegistration
  BY <1>6 DEF JobWipeRegistration
<1>7. CASE RecoveryResetEnds
  BY <1>7 DEF RecoveryResetEnds
<1>8. CASE RecoveryResetComplete
  BY <1>8 DEF RecoveryResetComplete, Decision, RegistrationStatus
<1>9. CASE JobDropRegistration
  BY <1>9 DEF JobDropRegistration
<1>10. CASE JobDropVault
  BY <1>10 DEF JobDropVault, Erased, EraseFails, RuntimeFails
<1> QED BY <1>1, <1>2, <1>3, <1>4, <1>5, <1>6, <1>7, <1>8, <1>9, <1>10 DEF Reset

\* The boot takes the snapshot from flash.
LEMMA EnvironmentRegistration ==
    ASSUME ValuesOK, Shape, RegistrationShape, Environment PROVE RegistrationShape'
<1> USE DEF ValuesOK, RegistrationShape, PendingInstall, SnapshotLags, Bound,
            flash, runtime, registration, working
<1>1. CASE Confirm
  BY <1>1 DEF Confirm
<1>2. CASE GateExpires
  BY <1>2 DEF GateExpires
<1>3. CASE PowerLoss
  BY <1>3 DEF PowerLoss, CancelEverything
<1>4. CASE FlashRots
  BY <1>4 DEF FlashRots
<1>5. CASE Boot
  BY <1>5 DEF Boot, BootRegistration, BootRuntime, Shape, WaitingShape, JobShape, PendingRekey
<1> QED BY <1>1, <1>2, <1>3, <1>4, <1>5 DEF Environment

-----------------------------------------------------------------------------
(* The inductive invariant and what follows from it                        *)

\* One step of any component keeps every conjunct but the flags.
LEMMA ShapeStep == ASSUME IndInv, Next PROVE ValuesOK' /\ Shape' /\ RegistrationShape'
<1>1. ValuesOK /\ Shape /\ RegistrationShape
  BY DEF IndInv, TypeOK, Shape
<1>2. CASE Session
  BY <1>1, <1>2, SessionValues, SessionShape, SessionRegistration
<1>3. CASE Vault
  BY <1>1, <1>3, VaultValues, VaultShape, VaultRegistration
<1>4. CASE Reset
  BY <1>1, <1>4, ResetValues, ResetShape, ResetRegistration
<1>5. CASE Environment
  BY <1>1, <1>5, EnvironmentValues, EnvironmentShape, EnvironmentRegistration
<1> QED BY <1>2, <1>3, <1>4, <1>5 DEF Next

\* A stuttering step keeps the inductive invariant.
LEMMA StutterInd == ASSUME IndInv, UNCHANGED vars PROVE IndInv'
<1> USE DEF vars
<1>1. TypeOK'
  BY DEF IndInv, TypeOK, ValuesOK
<1>2. Shape'
  BY DEF IndInv, Shape, Exclusive, PresenceOwner, RuntimeShape, FlashShape, WaitingShape,
         PendingInstall, PendingRekey, JobShape, ConsentShape, UnlockedIsOwned
<1>3. RegistrationShape'
  BY DEF IndInv, RegistrationShape, PendingInstall, SnapshotLags, Bound
<1> QED BY <1>1, <1>2, <1>3 DEF IndInv, Shape

\* Every step keeps the inductive invariant.
LEMMA StepInd == IndInv /\ [Next]_vars => IndInv'
<1> SUFFICES ASSUME IndInv, [Next]_vars PROVE IndInv'
  OBVIOUS
<1>1. CASE Next
  <2>1. FlagsOK'
    BY <1>1, FlagsStep DEF IndInv, TypeOK, FlagsOK
  <2> QED BY <1>1, <2>1, ShapeStep DEF IndInv, TypeOK, FlagsOK, Shape
<1>2. CASE UNCHANGED vars
  BY <1>2, StutterInd
<1> QED BY <1>1, <1>2

\* Everything the requests, the user, power and flash can do keeps the
\* inductive invariant.
THEOREM Inductive == Spec => []IndInv
  BY InitInd, StepInd, PTL DEF Spec

\* No handler leaves a variable outside its type.
THEOREM TypeCorrect == Spec => []TypeOK
<1>1. IndInv => TypeOK
  BY DEF IndInv
<1> QED BY <1>1, Inductive, PTL

\* A pending confirmation has exactly one owner, for that owner's operation.
THEOREM PresenceHasOneOwner == Spec => []PresenceOwner
<1>1. IndInv => PresenceOwner
  BY DEF IndInv
<1> QED BY <1>1, Inductive, PTL

\* The resident key exists exactly while UNLOCKED, opens the cached Vault, and
\* never coexists with a key that waits in CanonicalVmkSink.
THEOREM KeyIsInCustody == Spec => []KeyCustody
<1>1. IndInv => KeyCustody
  BY DEF IndInv, KeyCustody, RuntimeShape, WaitingShape, PendingInstall, PendingRekey
<1> QED BY <1>1, Inductive, PTL

\* Formatting the partition for an accepted key never destroys a Vault.
THEOREM InstallDestroysNothing == Spec => []NoVaultUnderPendingInstall
<1>1. IndInv => NoVaultUnderPendingInstall
  BY DEF IndInv, NoVaultUnderPendingInstall, RuntimeShape, FlashShape, WaitingShape,
         JobShape, InstallJobs, PendingInstall
<1> QED BY <1>1, Inductive, PTL

\* An UNLOCKED Device is owned by a Browser registered for its Vault.
THEOREM UnlockedOwnership == Spec => []UnlockedIsOwned
<1>1. IndInv => UnlockedIsOwned
  BY DEF IndInv
<1> QED BY <1>1, Inductive, PTL

\* The registration a usable Device trusts lags by one epoch at most.
THEOREM StalenessBounded == Spec => []StaleRegistrationBounded
<1>1. IndInv => StaleRegistrationBounded
  BY DEF IndInv, StaleRegistrationBounded, RegistrationShape, Decision, RegistrationStatus
<1> QED BY <1>1, Inductive, PTL

-----------------------------------------------------------------------------
(* Changes of ownership                                                    *)

\* A step outside the ones below changes neither the Vault nor the registration.
LEMMA OwnershipWriters ==
    ASSUME Next
    PROVE  \/ \E k \in Keys : SessionComplete(k)
           \/ \E e \in Envelopes : VaultUpdate(e) \/ VaultRekey(e)
           \/ JobFormat \/ JobInstall \/ JobRegister \/ JobUndo
           \/ JobWipeVault \/ JobWipeRegistration \/ JobDropRegistration \/ JobDropVault
           \/ FlashRots
           \/ UNCHANGED <<vault, reg>>
<1> USE DEF flash
<1>1. CASE Session
  BY <1>1 DEF Session, SessionBegin, SessionAuthorize, SessionFailClosed, Disconnect, ExpireSession
<1>2. CASE Vault
  BY <1>2 DEF Vault, VaultInstall, ExpirePending, VaultRejected, DeviceLock
<1>3. CASE Reset
  BY <1>3 DEF Reset, HealthyResetBegin, RecoveryResetBegin, HealthyResetEnds, HealthyResetCommit,
              RecoveryResetEnds, RecoveryResetComplete
<1>4. CASE Environment
  BY <1>4 DEF Environment, Confirm, GateExpires, PowerLoss, Boot
<1> QED BY <1>1, <1>2, <1>3, <1>4 DEF Next

\* session.complete writes the registration only for the operation confirmed.
LEMMA CompleteConsented ==
    ASSUME IndInv, NEW k \in Keys, SessionComplete(k)
    PROVE  UNCHANGED vault /\ RegistrationChangeConsented /\ EpochStep
<1>1. ctx \in Contexts /\ consent' = ctx.op /\ UNCHANGED vault
  BY DEF IndInv, TypeOK, ValuesOK, Exclusive, PresenceOwner, SessionComplete, Consume, Confirmed
<1>2. CASE UNCHANGED reg
  BY <1>1, <1>2 DEF RegistrationChangeConsented, EpochStep
<1>3. CASE reg' # reg
  <2> DEFINE new == [vault_id |-> ctx.vault_id, epoch |-> ctx.epoch, brk |-> ctx.new_brk]
  <2>1. ctx.op \in {"recovery", "replacement"} /\ ReplaceRegistration(new)
    BY <1>3 DEF SessionComplete, OpensVault
  <2>2. reg # Nothing /\ reg' = new /\ Succeeds(reg, new)
    BY <1>3, <2>1 DEF ReplaceRegistration, Succeeds
  <2>3. new \in Registrations
    BY <1>1, <2>1, ReplacementType
  <2> HIDE DEF new
  <2> QED BY <1>1, <2>1, <2>2, <2>3 DEF RegistrationChangeConsented, EpochStep, Succeeds
<1> QED BY <1>2, <1>3

\* vault.update is written with the resident key, over the envelope it opens.
LEMMA UpdateKeepsKey ==
    ASSUME IndInv, NEW e \in Envelopes, VaultUpdate(e)
    PROVE  VaultChangeConsented /\ UNCHANGED reg
<1>1. UNCHANGED reg /\ state = "unlocked" /\ e.key = cached.key
  BY DEF VaultUpdate, IndInv, RuntimeShape
<1>2. CASE vault' = vault
  BY <1>1, <1>2 DEF VaultChangeConsented
<1>3. CASE vault' # vault
  <2>1. vault # Nothing /\ vault' = e /\ DurableAccepts(e) /\ e.generation = cached.generation + 1
    BY <1>3 DEF VaultUpdate, WriteReportsError, DurableAccepts
  <2>2. cached \in Envelopes /\ vault \in Envelopes
    BY <1>1, <2>1 DEF IndInv, TypeOK, ValuesOK, RuntimeShape
  <2>3. vault = cached
    BY <1>1, <2>1, <2>2, EnvelopeKey DEF IndInv, FlashShape, DurableAccepts
  <2> QED BY <1>1, <2>1, <2>3 DEF VaultChangeConsented
<1> QED BY <1>2, <1>3

\* vault.rekey acts on the confirmation of its own session.
LEMMA RekeyConsented ==
    ASSUME IndInv, NEW e \in Envelopes, VaultRekey(e)
    PROVE  VaultChangeConsented /\ UNCHANGED reg
  BY DEF VaultRekey, WriteReportsError, DurableAccepts, KeepConsent, VaultChangeConsented,
         IndInv, ConsentShape

\* The steps of an installation: only the undo removes a Vault, and its own.
LEMMA InstallConsented ==
    ASSUME IndInv, JobFormat \/ JobInstall \/ JobRegister \/ JobUndo
    PROVE  VaultChangeConsented /\ RegistrationChangeConsented /\ EpochStep
<1> USE DEF IndInv, JobShape, InstallJobs, PendingInstall, ConsentShape, KeepConsent,
            VaultChangeConsented, RegistrationChangeConsented, EpochStep
<1>1. CASE JobFormat
  BY <1>1 DEF JobFormat, EraseStops, FlashShape, WaitingShape
<1>2. CASE JobInstall
  BY <1>2 DEF JobInstall, FlashShape
<1>3. CASE JobRegister
  BY <1>3 DEF JobRegister
<1>4. CASE JobUndo
  BY <1>4 DEF JobUndo, Erased, EraseFails, EraseStops
<1> QED BY <1>1, <1>2, <1>3, <1>4

\* The steps of a reset act on its confirmation.
LEMMA ResetConsented ==
    ASSUME IndInv, JobWipeVault \/ JobWipeRegistration \/ JobDropRegistration \/ JobDropVault
    PROVE  VaultChangeConsented /\ RegistrationChangeConsented /\ EpochStep
<1>1. consent' = "reset" /\ vault' \in {vault, Nothing} /\ reg' \in {reg, Nothing}
  <2> USE DEF IndInv, JobShape, InstallJobs, KeepConsent
  <2>1. CASE JobWipeVault
    BY <2>1 DEF JobWipeVault, Erased, EraseFails, EraseStops
  <2>2. CASE JobWipeRegistration
    BY <2>2 DEF JobWipeRegistration
  <2>3. CASE JobDropRegistration
    BY <2>3 DEF JobDropRegistration
  <2>4. CASE JobDropVault
    BY <2>4 DEF JobDropVault, Erased, EraseFails, EraseStops
  <2> QED BY <2>1, <2>2, <2>3, <2>4
<1>2. job = "wipe_vault" => state = "unlocked"
  BY DEF IndInv, JobShape
<1> QED BY <1>1, <1>2 DEF VaultChangeConsented, RegistrationChangeConsented, EpochStep

\* A step that leaves the Vault or the registration alone needs no consent.
LEMMA UnchangedConsented ==
    /\ UNCHANGED vault => VaultChangeConsented
    /\ UNCHANGED reg => RegistrationChangeConsented /\ EpochStep
  BY DEF VaultChangeConsented, RegistrationChangeConsented, EpochStep

\* Every step changes ownership only with consent, and epochs by one.
LEMMA OwnershipStep ==
    ASSUME IndInv, Next
    PROVE  /\ state # "off" => VaultChangeConsented /\ RegistrationChangeConsented
           /\ EpochStep
<1>1. CASE \E k \in Keys : SessionComplete(k)
  BY <1>1, CompleteConsented, UnchangedConsented
<1>2. CASE \E e \in Envelopes : VaultUpdate(e) \/ VaultRekey(e)
  BY <1>2, UpdateKeepsKey, RekeyConsented, UnchangedConsented
<1>3. CASE JobFormat \/ JobInstall \/ JobRegister \/ JobUndo
  BY <1>3, InstallConsented
<1>4. CASE JobWipeVault \/ JobWipeRegistration \/ JobDropRegistration \/ JobDropVault
  BY <1>4, ResetConsented
<1>5. CASE FlashRots
  BY <1>5 DEF FlashRots, EpochStep
<1>6. CASE UNCHANGED <<vault, reg>>
  BY <1>6, UnchangedConsented
<1> QED BY <1>1, <1>2, <1>3, <1>4, <1>5, <1>6, OwnershipWriters

\* Flash changes hands only by a request whose own prompt was confirmed.
THEOREM OwnershipConsented == Spec => ConsentedChange
<1>1. IndInv /\ [Next]_vars =>
          [state # "off" => VaultChangeConsented /\ RegistrationChangeConsented]_vars
  BY OwnershipStep
<1> QED BY <1>1, Inductive, PTL DEF Spec, ConsentedChange

\* Registration epochs of a Vault advance one by one.
THEOREM EpochsAdvance == Spec => EpochAdvances
<1>1. IndInv /\ [Next]_vars => [EpochStep]_vars
  BY OwnershipStep
<1> QED BY <1>1, Inductive, PTL DEF Spec, EpochAdvances
=============================================================================
