# M5Authenticator in TLA+

A verification development kept beside the M5Authenticator sources. The modules
model the logic of the Device firmware and of the Browser page that manages it:
how an Encrypted Vault is encoded and made durable, how a person's physical
presence is established, how keys, Vault and Browser registration change hands,
how long a key may stay, how the firmware's tasks share all this with the display
and the clock, and how Browser and Device keep two copies in step. TLC checks
small instances; TLAPS proves the most important results for every value of the
constants.

## 1. Inventory

### Device (firmware/)

Three tasks share the state: the **protocol task** (`app_main` loop: housekeeping,
then one USB line at a time), the **UI task** (20 ms poll) and the **time resync
task** (60 s poll). `sync_mutex_` guards the time service, `view_mutex_` the screen,
`runtime_access_mutex_` Runtime and registration; TrustedClock and
CanonicalPresence have mutexes of their own.

| Part | State | Operations | Hard behaviour | Module |
|---|---|---|---|---|
| `NvsPersistence`, `CompatibleNvsPersistence` | partition `auth_nvs`: schema, active pointer, two slots, last_used; a retired Schema 1 namespace | load, format_schema2, replace_envelope, set_last_used, erase_all | power loss or an NVS error between any two writes; page-wise erase; an error reported for a write that happened | `VaultPersistence` |
| `vault_format`, `vault_crypto` | none | encode, decode, seal, open | limits, optional parts, text encoding, two encodings of one value | `VaultFormat`, `Utf8` |
| `vault_runtime::Runtime` | state, cached envelope, VMK, automatic-lock session, reset permission | initialize, install, unlock, lock, update, rekey, factory_reset, metadata, with_credential, with_wifi | the cached envelope can disagree with flash; the VMK must be destroyed at every boundary and in time | `DeviceOwnership`, `SecretLifetime` |
| `UserPresenceGate`, `CanonicalPresence` | one pending request: operation, attempt, deadline, press generation, arming | begin, observe, confirm, consume, expire, cancel | two tasks; samples of BtnA taken before a request and used after it | `PresenceGate` |
| `AttemptCoordinator`, `StagedSessionV2Handler`, `DeviceSession` | one session attempt: context, keys, transcript, phase | begin, authorize, status, complete, cancel, expire | binding re-checked at each stage; late and repeated requests | `DeviceOwnership`, `SessionAgreement` |
| `CanonicalVmkSink` | a pending VMK with a 30 s deadline | prepare_attempt, install_vmk, install_initial / recovered / rekeyed_vault | several durable writes that must be undone together | `DeviceOwnership`, `SecretLifetime` |
| `registration::Store` | Device id and one Browser registration with an epoch, snapshot in RAM | initialize, install_initial, replace, clear | read errors while reloading, stale snapshot | `DeviceOwnership` |
| `CanonicalProtocolV2Handler` | healthy and recovery reset authorizations | handle_line, housekeeping, disconnect | session and two resets share one presence gate | `DeviceOwnership` |
| `TimeService`, `TrustedClock` | time anchor, source, staleness, retry budgets | boot_sync, resync, sync_from_usb, status, with_secret_boundary | retry budgets; a network that lies; lock order | `TrustedTime`, `DeviceTasks` |
| `VaultGenerator`, `totp_validity` | none | generate | period rollover between two readings of the clock | `RevealUi` |
| `CanonicalUiController` | account list, selection, revealed code with a 10 s deadline | run, render, security_boundary_clear | reveal racing a lock; partial redraws; lists that change under the user | `RevealUi`, `DeviceTasks` |
| USB transport | link phase, fault latch, line buffer | read, dispatch, answer, reset | partial frames, oversized lines, disconnects | `UsbTransport` |

### Browser (web/src)

`browser-vault.ts`, the transaction journal and the reset intent keep an encrypted
copy and the unfinished half of a two-sided commit in IndexedDB;
`canonical-management.ts` and `canonical-recovery-reset.ts` reconcile Browser and
Device (`BrowserJournal`); `session-flow-v2.ts` delivers a key (`SessionAgreement`).
`serial.ts` matches requests and responses; `import/` reads QR codes and migration
payloads; these two and the presentation are not modelled.

### What makes each part correct

- storage: a boot loads one whole generation; a successful reply is durable; bytes
  are read as what was sealed or not at all;
- presence: only a new gesture, in time, confirms;
- ownership: durable ownership changes only with a confirmation of that very
  operation; a key is resident only while UNLOCKED, and no longer than the policy
  counted from the confirmed unlock; a failure leaves less access, never more;
- session: a key is installed once, under the context it was sealed for;
- tasks: a lock leaves nothing of the Vault outside it, and no task waits forever;
- time: the network moves the clock a bounded amount, and an honest one keeps it
  READY;
- display: the code shown is the current one of the labelled account;
- Browser: whoever owns the Device can read its Vault, whatever crashed.

## 2. Modules

| Module | Models | Role |
|---|---|---|
| `AtomicVault` | the promise of the storage | abstract specification: one authoritative envelope, installed, advanced by one generation, or erased |
| `VaultPersistence` | nvs_persistence.cpp, compatible_nvs_persistence.cpp and the storage side of Runtime | detailed specification; `Durable` is its refinement mapping (`StoredVault`, what a boot would load) |
| `VaultFormat`, `Utf8` | vault_format.cpp, vault_crypto.cpp, the slot image, validate_envelope_with_key | codec on bytes, against a reference |
| `PresenceGate` | user_presence.cpp, CanonicalPresence, the presence part of the UI loop | two-task interleaving with a clock and a button |
| `DeviceOwnership` | canonical_protocol_v2.cpp, canonical_v2_state.cpp, session_protocol_v2.cpp, session_binding_v2.cpp, attempt_coordinator.cpp, registration.cpp, recovery_reset.hpp, and Runtime's lock states | composition of the ownership components over one flash |
| `SecretLifetime` | Runtime's unlock session, the pending key, housekeeping | the same requests against a clock |
| `SessionAgreement` | session-flow-v2.ts, session_protocol_v2.cpp, DeviceSession, the transcript | composition of Browsers and Device over an unreliable channel |
| `DeviceTasks` | the lock order of the three tasks | composition of UI, time service and protocol task over the mutexes |
| `TrustedTime` | trusted_time.cpp, canonical_time_service.cpp | clock and retry budgets in real time |
| `RevealUi` | run(), render(), vault_generator.cpp, totp_validity.hpp | one iteration of the UI loop as one action |
| `UsbTransport` | the app_main loop, usb_protocol_transport | framing and phases |
| `BrowserJournal` | canonical-management.ts, canonical-recovery-reset.ts, the three IndexedDB stores | composition of the page with an abstract Device |
| `MC...` | | instances for TLC |
| `...Proofs` | | theorems for TLAPS |

**VaultPersistence.** The variables `ns, schema, active, slot, last_used, legacy`
are NVS keys; `mode, resettable, cached` are `state_`, `recovery_reset_allowed_`
and `envelope_`; `pc` is the line of the call in progress. A blob either decodes
to an envelope, is `Torn`, is `Absent`, or is a Vault of a format this firmware does
not support (`Newer`, only on a Device that a newer one has written). A `last_used`
that is `Torn` makes the load fail as the code's length check does. `PowerLoss` and the `...IoError` actions
apply `PartialWrite`: whatever the write in progress may have left. An error code
may be reported for a write that did happen, and NVS may report success for a
blob that does not read back.

**VaultFormat.** Byte values, integer widths and limits on numbers are the code's;
fixed-length opaque fields are one byte. A writer encodes one of a few plaintexts,
possibly with a wrong byte or with a text it did not check, seals it, and the image
may come back a byte off; `meant`, `plain`, `sealed`, `image`, `vmk` follow it along
the way. AES-GCM (external) opens exactly what was sealed. The Browser's `vault-format.ts`
follows the same rules as the firmware's encoder, which only tests call.

**PresenceGate.** Every acquisition of CanonicalPresence's mutex is a step, so the
protocol task may begin, cancel or consume between any two calls of one iteration
of `run()`. `began` and `fresh_press` are history variables; they are only read
by properties. `view()`'s comparison with `same_presence` is equality of `View`.

**DeviceOwnership.** One step per request handler, because one task runs them all
and the other tasks only read Runtime under the mutex. Handlers with several
durable writes are *jobs* with one step per write (`format`, `install`,
`register`, `undo`, `wipe_*`, `drop_*`): the protocol task does nothing else
meanwhile, but the UI task and a power loss may come between. The outcome of a
write cut short by a power loss is the outcome of the same write reporting an
error, followed by the power loss. An envelope is `vault_id`, `generation` and the
key it is encrypted under; a Browser's registration id and BRK are one value.
Deadlines are abstract here (anything with a deadline may expire at any time).
`consent` is a history variable: the operation of the confirmation that the
current handler, pending key or job acts upon, taken from the gate.

**SecretLifetime.** The same handlers seen against the monotonic clock: a Vault is
its policy in days. `seen` is the time the protocol task last read, `locking` the
wait for the time service inside a lock boundary, during which time passes.
`unlocked_at` and `pending_at` are history.

**SessionAgreement.** Symbolic cryptography: a signature names its key and what it
signs, a sealed key opens only with the key and associated data it was sealed
with. `sent` only grows: every request ever sent may arrive at any time, twice or
never. Replies may be lost.

**DeviceTasks.** `held` is who holds which mutex; `p`, `u` and `r` are the places of
the tasks between two acquisitions. Clocks are abstract: at any look a deadline
may have passed.

**TrustedTime.** A clock in ticks smaller than a second, because anchors are in
seconds and the timer is not. `origin`, `accepted`, `served` and `untried` are
history; `link` says whether an honest server can be reached.

**RevealUi.** One iteration of `run()` is one action with the inputs `gesture`,
`works` (did storage succeed?) and `delay` (did the second change while a code was
made?). `lcd` holds the bands that are drawn separately. While the error screen is
shown a code may be redrawn over it until the next refresh; `OneAccountOnePeriod`
excepts that screen.

**UsbTransport.** One pass of the main loop is one action; a payload byte stands
for a frame of its kind. `Framing` is the reference: the lines of a byte stream,
defined byte by byte, against the code's cutting of reads.

**BrowserJournal.** Every await on IndexedDB or on the Device is a step, and the
page may be closed at each. Device handlers are atomic with their preconditions
(what DeviceOwnership and VaultPersistence establish). Another Browser may take
over, edit, erase or set up the Device while the page is closed.

Mutated forms of definitions (marked *Mutant* in comments) stand next to the
definition they change. They are not used by any specification; they document
which bug each property would catch.

## 3. What is checked

| Run | Instance | Properties |
|---|---|---|
| `vault_persistence` | 2 Vaults, 2 ciphertexts, generations 1..3 (both slots are reused and the largest generation reached) | `NeverPartialGeneration`, `StaleCacheBounded`, `AcknowledgedIsDurable`, and the refinement `AtomicCommit` |
| `presence` | 2 attempts, lifetime 2 and clock 0..3 (expiry before, at and after a saturated deadline), 2 presses | `FreshGesture`, `GrantInTime`, and the liveness property `RequestEnds` |
| `ownership` | 2 Vaults, keys and attempts, 3 Browsers, generations and epochs 1..3 | `PresenceOwner`, `KeyCustody`, `NoVaultUnderPendingInstall`, `UnlockedIsOwned`, `StaleRegistrationBounded`, `ConsentedChange` |
| `secret_lifetime` | policies of 1 and 2 days and none, days of 2 ticks, clock 0..6 | `UnlockedWithinLifetime`, `PendingKeyInTime`, and `LocksItself` (liveness) |
| `session_agreement` | 2 Browsers, 2 deliveries each, 2 attempts | `InjectiveAgreement`, `ReturnMeansInstalled`, `ReplacedBrowserIsOut` |
| `device_tasks` | the three tasks and mutexes, all four kinds of boundary | `LockedIsClean`, `AnchorOnlyUnlocked`, and `NoTaskWaitsForever`, `PrivateViewEnds` (liveness) |
| `trusted_time` | half-second ticks, intervals in the real order, 8 s; sources that are right, a second slow, or too fast to be accepted as a jump | `DriftBounded`, `ReadyWhileServed` |
| `reveal_ui` | 2 accounts, 3 lists, a period and a reveal of 2 ticks, clock 0..5, a clock that may be corrected either way | `OneAccountOnePeriod`, `CodeIsCurrent`, `RevealInTime`, `SelectionFollows` |
| `usb_transport` | lines of one byte, a buffer of three, 6 bytes in one connection | `FramesAreTheStream`, `FaultIsFinal`, `ProtocolAfterHello` |
| `vault_format` | 4 plaintexts, 2 headers, any two wrong bytes or keys; all texts of up to 4 bytes over the 24 bytes where the UTF-8 table changes its answer | `RoundTrip`, `Canonical`, `AcceptsExactlyUtf8`, `OnlyWhatWasSealed` |
| `browser_journal` | 2 Vaults, 2 contents, generations 1..3, 3 crashes, another Browser | `OwnerCanRead`, `WriterIsCurrent`, `CopiesOutliveTheDevice`, and `SettlesAlone` (liveness) |
| `browser_reset` | 1 Vault, generations 1..2, 2 crashes | divergence 9: `ErasedIsSettled` fails |

A run checks the properties that relate several steps or several actors. Each
module's `TypeOK` states its types; it is the first part of every inductive
invariant and is proved with it.

Bounds: values are compared only for equality, so two of each are enough to
confuse one with another; generations and epochs are only compared with
themselves plus one, and three let a stale value be followed by a retry and by
the largest value. `MaxGeneration`, `MaxEpoch`, `MaxTime` and `MaxPresses` stand
for the largest integers of the C++ types, so saturation and overflow guards are
exercised. Where time is bounded (`MaxTime` of SecretLifetime, TrustedTime,
RevealUi) the bound is larger than every interval of the instance added up once,
so each deadline is met, missed and met again. `LastUnlock` keeps the last
lifetime inside the clock. Six bytes are two oversized lines for a buffer of
three. Two deliveries let a request of the first arrive during the second; three
crashes let a reconciliation itself be interrupted twice.

Deadlock is checked in every run but `vault_format`, which enumerates inputs and
ends. `session_agreement` uses the symmetry of its two Browsers, and
checks invariants only; no other run uses symmetry.

**Fairness.** `presence`: weak fairness of the UI task (a FreeRTOS task in an
endless loop with a 20 ms delay, whose steps never block on the presence mutex
for longer than a few assignments) and of the clock. `secret_lifetime`: weak
fairness of the main loop, whose reads wait 20 ms at most, and of the clock.
`device_tasks`: strong fairness of each task, because a task that waits for a
mutex is enabled only while it is free; FreeRTOS hands a released mutex to the
waiting task, and each holder sleeps between two uses (20 ms, 60 s) for longer
than the waiter needs to run. `browser_journal`: a request is answered or lost
(the page times out), the page goes on after an await, and the user reconnects;
`SettlesAlone` promises nothing once another Browser or damage has interfered.
Nothing is assumed of the host, of the person or of the network.

### Divergences between the code and its documentation

Each, but for the eighth, is a counterexample of TLC to a property that restates a
document, a comment or a test. The last one is part of the regular runs; for the others the property
and a configuration stand in the project (the file in parentheses), to be run when
the code in question is touched: a configuration that begins to pass shows that
the divergence is gone.

1. `PartitionIsResettable` (MCVaultPersistenceReset.cfg): an interrupted page-wise
   erase can leave the active pointer without its slot. `read_active` reports
   kNotFound, which is not among the statuses that permit a reset: the Device
   refuses every request until it is re-flashed, although PROVISIONING_PROTOCOL.md
   has recovery_begin for "partial/corrupt ownership states". It takes a power loss
   and NVS keys spread over pages in one order.
2. `ConfirmsWhatIsShown` (MCPresenceGatePrompt.cfg): a presence request that
   replaces another between the UI task's two looks in one iteration is not
   redrawn, and can be confirmed under an old screen (DEVICE_UI.md: "The display
   identifies the operation category"). The window is one 20 ms poll.
3. `RecoveryOnlyWhenDamaged` (MCDeviceOwnershipDamaged.cfg): a transient NVS read
   error, in `registration::Store::replace` or in the load after `vault.update`,
   makes a healthy Device offer the destructive recovery reset, against the comment
   in recovery_reset.hpp. The reset still needs a confirmation (`ConsentedChange`),
   and a reboot ends the offer.
4. `RecoveryResetStaysRequired` (MCDeviceOwnershipRecovery.cfg):
   `factory_reset.recovery_begin` in ReprovisionRequired forgets that state, so the
   reset cannot be completed before a reboot.
5. `StaleMeansOld` (MCTrustedTimeStatus.cfg): `status()` reads the timer before it
   takes the clock's mutex; an anchor set in between is reported as stale, for one
   reading (TIME.md: "more than 24 hours old, or monotonic integrity failed").
6. `WarningStays` (MCRevealUiPrompt.cfg): a prompt that begins during a reveal is
   drawn over by the reveal's partial redraws of validity and code, until the
   reveal ends (DEVICE_UI.md: the warning "remain[s] explicit").
7. `FaultEndsPending` (MCUsbTransportFault.cfg): after hello, an empty line and a
   request followed by other bytes fault the link without ending what is pending,
   which then lives until its deadline or the disconnect (PROVISIONING_PROTOCOL.md:
   a "malformed/faulted transport security boundary" invalidates it).
8. `PresenceGestureQuarantine` compares times that the loop reads after
   `M5.update()` has read its own clock, so at the exact boundary it can end one
   iteration before the click is decided, against user_presence_test.cpp. It
   depends on M5Unified's timing; no module of this project covers it.
9. `ErasedIsSettled` (run `browser_reset`): a recovery reset begun while an update
   or re-key is unsettled records the generation of the update; after the erase no
   later connection of that profile can clean up, and the profile cannot set the
   Device up again.

While modelling it was also noticed that docs/DEVICE_UI.md describes the label of an account in another
order than `render` draws it; no property depends on it.

## 4. What is proved

`VaultProofs` (of VaultFormat: plaintexts and headers have the code's types, the
limits fit the fields they are written to, a text a writer did not check fits the
field and the envelope it is put in; any limits, any lengths, any number of wrong
bytes). The codec is proved for every input, not for the plaintexts of the run.
`ScanIsUtf8`: a character by arithmetic on its payload bits, then the scan and the
cuts of the reference walk along the text together, the least place they have not
both reached leading to a contradiction. For the records, `IsAt(b, at, w)` says that
the bytes `w` stand in `b` at an offset, and each reader is shown to be *exact*: it
yields a result precisely when the bytes its writer writes for that value stand there
(`ReadU16Means`, `ReadSizedMeans`, `ReadTextMeans`, ...). The recursions of `ReadAll`,
`ReadRecords` and `FlattenSeq` are unfolded by induction over sets of naturals, and
exactness passes to sequences of fields, records, the optional parts and the whole
(`DecodeMeans`, `DecodeEnvelopeMeans`). `PlaintextRoundTrip` and `PlaintextCanonical`
are its two directions. `SealInv` then says that the one box is of the plaintext under
its header and that an unchecked text is alone in its Vault; an equal box means equal
key, nonce, ciphertext and additional data, and the additional data determines the
header (`BoxIs`), so the four properties of the run hold. `RoundTrip` is about what
was stored: 32 records with fields of 1024 bytes are encodable, but exceed the 64 KiB
a slot takes, and `encode_envelope` refuses them; that exception came out of the proof
and is now in the property.

The other half of `VaultProofs` (of VaultPersistence: `MaxGeneration` is a positive
natural, there is a Vault id and a ciphertext, and `Absent`, `Torn` and `Newer` are not
envelopes).
`NeverPartialGeneration` is not inductive: whether the pointer may move depends
on what was verified. `IndInv` adds that the staged slot is never the active one
(`StagingIsInactive`), that a flip was verified (`FlipIsVerified`), that Runtime's
own checks still hold while its call runs (`CallMatchesCache`), that `ready` means
formatted, and that a format works on an empty partition. From it follow the
three safety theorems and `PersistenceRefinesAtomicVault`: each step maps to a
step of AtomicVault or leaves `StoredVault` alone.

`DeviceInputProofs` (of UsbTransport: a buffer of at least one byte; any stream and
any cut of it into reads). `FramesAreTheStream` compares what the loop took, in reads
and with what is left over carried along, with `Framing`, the stream read byte by byte.
`Framing` is a fold; it is unfolded by induction over a set of naturals, and of a
concatenation it is the framing of the first part continued on the second. `Stream`
then says how the lines taken and the bytes still in the buffer make up the framing of
all bytes received. `FaultIsFinal` and `ProtocolAfterHello` need `PhaseInv`: which
phase goes with which history of the connection.

The other half of `DeviceInputProofs` (of PresenceGate: positive bounds, sentinels
outside their sets). `FreshGesture` needs to know what the UI task knew when it
sampled: the first released sample may be stale, the second cannot be (`SampledSinceBegin`), an armed
gate that last saw the button up has seen every later press
(`ArmedWhileReleased`), and an armed gate that saw it down saw a new press
(`ArmedPressIsFresh`). `GrantInTime` follows with `DeadlineBounded`.

`DeviceOwnershipProofs` (positive bounds; `Nothing` is none of the values it is
used beside). None of the properties is inductive alone: that formatting destroys
nothing depends on the state a session was begun in, on the match made at its
completion, and on every other request having cancelled it meanwhile. `IndInv`
collects what the handlers rely on: session, pending key, job and resets exclude
one another (`Exclusive`); what the Runtime's state says about its key, its
envelope and flash (`RuntimeShape`, `FlashShape`: the envelope in flash is the
cached one or its successor); the states in which a session, a pending key or a
reset may exist (`WaitingShape`); how far a job has come (`JobShape`); that a
pending key was confirmed for its own operation (`ConsentShape`); and that a
snapshot which lags by more than an epoch belongs to a Device that has failed or
is unbound (`RegistrationShape`). One lemma per component and part shows that
every action keeps it. All properties of the run `ownership` follow, and
`EpochAdvances` (epochs of a Vault advance one by one); `ConsentedChange` and
`EpochAdvances` from a lemma per writer of flash, after `OwnershipWriters` has
shown that there are no others.

`SecretLifetimeProofs` (positive policies, a day and a time limit of at least one
tick, `Never` and `NoVault` distinct from the policies). `UnlockedWithinLifetime`
compares the time of the unlock with the policy inside the Vault, and the code
with `unlocked_since_ms_` and `auto_lock_days_`; `IndInv` adds that these agree
whenever an automatic-lock session exists, the one an unfinished re-key leaves
behind included (`SessionOrigin`), that the time seen is never ahead of the clock
an unlock reads (`SeenIsPast`), and that a pending key's deadline is at most the
limit after its delivery (`PendingDeadline`, which saturates instead of
overflowing). `Lifetime` and `PendingKeys` follow.

`DeviceUiProofs` (of RevealUi: a positive period and reveal duration; any accounts,
any clock). The properties look at what is drawn, and a frame redraws only the bands
that changed (`PartialRedraw`), so what is on the display was decided in an earlier
iteration. `UiInv` relates it to the UI's state: a reveal knows its account, its period
and a deadline at most the duration away (`GoodReveal`), and every band shows either
what the reveal would draw or nothing (`GoodDisplay`). The three invariants follow;
`SelectionFollows` needs the types only.

The other half of `DeviceUiProofs` (of DeviceTasks: a free mutex is held by no task).
`LockedIsClean` says what a
lock leaves behind, and the reason is who may do what between two mutexes: `Holders`
derives the holder of each mutex from the places of the three tasks, and
`ExchangeIsOpen` says that Wi-Fi settings and driver exist only inside an exchange,
which no lock or reset overtakes because both need the sync mutex. `LockedIsClean`
and `AnchorOnlyUnlocked` follow, and `TasksNoCircularWait`: among any tasks at
least one waits for none of the others, because every task asks only for a mutex
that comes after all it holds (`LockOrder`: sync, view, runtime). That each wait
then ends is `NoTaskWaitsForever`, which needs fairness and stays with TLC.

`SessionAgreementProofs` (positive bounds, `None` is no Browser). The property is
about the Device's installations and the proof about what every request ever sent
may say: `RequestsOK` and `SealedOnce` say that a delivery is sealed once, for the
context its Browser asked for and the attempt it was told; `BrowserKnows` what a
Browser knows at each place; `AttemptIsBound` that the attempt in progress is new
and bound to its context. With them a request that opens under the Device's own
transcript was sealed for this attempt, so `InjectiveAgreement` holds whatever is
late or repeated. `ReturnMeansInstalled` adds that a success in flight is true
(`AnswerIsTrue`), `ReplacedBrowserIsOut` that the registration is the one of the
last replacement (`RegisteredIsLast`). Cryptography is symbolic, as in the model.

`BrowserJournalProofs` (`MaxGeneration` positive, `MaxCrashes` any number, so the
page may be closed any number of times; `NoBody` is no content; with and without
other Browsers). `OwnerCanRead` needs that what is in flight is still in the journal
(`InFlightIsStaged`), that a pending entry is one generation ahead of the copy it
replaces or keeps the copy itself (`Entries`), and where the page can be for each
state of the Device (`PageFits`). `WriterIsCurrent` (the store has the Device's copy
and nothing of that Vault is pending) and the action property
`CopiesOutliveTheDevice` follow; the last from a lemma per step that writes the
store.

`TrustedTimeProofs` (the intervals in the order the code's constants have: an
interval, a poll and two exchanges fit into the time after which an anchor is
stale, an exchange into an interval, and the retry of a first attempt into an
interval; any resolution of the timer and any errors of the sources).
`DriftBounded` is inductive once it is known that a set clock is due while an
exchange is in progress (`ExchangeIsDue`); the rest is the arithmetic of rounding
(`JumpBounded`). `ReadyWhileServed` needs an account of the waiting: what has been
paid for and when, relative to the beginning of the service (`PaidBefore`), that a
sample taken under a good link is the real time (`ServiceIsGood`), and how long the
task can have waited from an eligible moment to where it is (`WaitBounded`, with
`Allowance` for the steps in between). `Sound`, the error of the anchor in ticks,
takes the place of the rounded seconds of `Plausible`, because it does not change
while the clock is not set; `HonestAccepted` shows that a sound clock accepts an
honest sample. The attempt to prove it corrected the property: `Plausible` had room
for one rounding and needs it for two, which only shows when a second is not a
whole number of exchanges (TLC finds the counterexample with three ticks to a
second).

Induction over numbers and sequences is done on sets (`SetInduction`, `Least`, from
the library's well-founded orders): the library's form with an operator as parameter
is not one the provers can apply.

Every invariant and action property of the passing runs is a theorem. Only
model-checked:

- liveness (`RequestEnds`, `LocksItself`, `NoTaskWaitsForever`, `PrivateViewEnds`,
  `SettlesAlone`): the prover has no fairness;
- the divergences, which are counterexamples.

## 5. What is not modelled, and the plan

Not modelled, because it is out of reach or has no state of its own:
cryptographic primitives (symbolic in SessionAgreement and VaultFormat, a choice
elsewhere), HMAC-SHA1 and the truncation of a code, JSON parsing (a malformed
request is the refusal it leads to), Wi-Fi and SNTP (their outcome is a choice),
wording, layout, scrolling, brightness and localisation, the USB driver's partial
writes and the screen-snapshot diagnostics, the firmware update page (a
third-party flashing library), QR decoding and camera access, CI and release
scripts. The retired Schema 1 storage, v1 protocol and their time service are not
in the image.

Not modelled, though they could be: a disconnect and reconnect that fall between
two looks of the main loop at the link (the code cannot see them: the new host
inherits the phase); `PresenceGestureQuarantine`; in the Browser, `serial.ts`
(requests and responses), setting up a Device from the recovery package, taking
over a Device by the profile that is modelled, and the multi-part import session.

What would come next: an abstract specification of the two-sided commit, implemented
by `BrowserJournal`, and models of `serial.ts` and the import session.
