-------------------------- MODULE VaultPersistence --------------------------
(***************************************************************************)
(* The auth_nvs partition (m5auth_vault_runtime/nvs_persistence.cpp and    *)
(* compatible_nvs_persistence.cpp) together with the part of               *)
(* vault_runtime::Runtime that decides when it is called and what is kept  *)
(* in RAM about it.  Every durable write is a step of its own; power may   *)
(* be lost, or NVS may report an error, before, during or after each one.  *)
(*                                                                         *)
(* Runtime is reduced to `mode' (state_ and schema_ready_), `cached'       *)
(* (envelope_ and has_vault_) and `resettable' (recovery_reset_allowed_);  *)
(* the keys and the lock state are the subject of DeviceOwnership.         *)
(***************************************************************************)
EXTENDS Integers

CONSTANTS
    VaultIds, Bodies, MaxGeneration,
    Credentials,    \* opaque credential ids (last_used)
    Absent,         \* the NVS key does not exist
    Torn,           \* the NVS key holds bytes the code rejects as corrupt
    Newer           \* a slot holds an envelope of a Vault format not supported

Envelopes == [vault_id: VaultIds, generation: 1..MaxGeneration, body: Bodies]

\* MaxGeneration stands for the largest uint64_t.
ASSUME GenerationAssumption == MaxGeneration \in Nat \ {0}

ASSUME NonEmptyAssumption == VaultIds # {} /\ Bodies # {}

ASSUME SentinelAssumption ==
    /\ Absent # Torn /\ Newer \notin {Absent, Torn}
    /\ Absent \notin Envelopes /\ Torn \notin Envelopes /\ Newer \notin Envelopes
    /\ Absent \notin Int
    /\ Absent \notin Credentials /\ Torn \notin Credentials

VARIABLES
    \* auth_nvs
    ns,         \* does the "vault2" namespace entry exist?
    schema,     \* key "schema"
    active,     \* key "active"
    slot,       \* keys "slot0" and "slot1"
    last_used,  \* key "last_used"
    legacy,     \* what the retired "state" namespace holds
    \* RAM
    mode,       \* Runtime::state_ and schema_ready_
    resettable, \* Runtime::recovery_reset_allowed_
    cached,     \* Runtime::envelope_, Absent when has_vault_ is false
    pc,         \* where the persistence call in progress stands
    call,       \* its arguments
    reply       \* what the last Vault commit reported to its caller

nvs == <<ns, schema, active, slot, last_used, legacy>>
ram == <<mode, resettable, cached, pc, call, reply>>
vars == <<ns, schema, active, slot, last_used, legacy,
          mode, resettable, cached, pc, call, reply>>

Slots == {0, 1}
Schemas == {Absent, 1, 2, 3}
LegacyStates == {"none", "schema1", "newer"}
Modes == {"off", "no_schema", "reprovision", "ready", "error"}
Kinds == {"install", "update", "rekey"}
Calls == [kind: Kinds, expected: 0..MaxGeneration, envelope: Envelopes, target: Slots]
PCs == {"idle", "check", "stage", "verify", "flip", "reload",
        "format_erase", "format_ns", "format_schema", "format_reload",
        "erase", "rollback"}

TypeOK ==
    /\ ns \in BOOLEAN
    /\ schema \in Schemas
    /\ active \in Slots \cup {Absent}
    /\ slot \in [Slots -> Envelopes \cup {Absent, Torn, Newer}]
    /\ last_used \in Credentials \cup {Absent, Torn}
    /\ legacy \in LegacyStates
    /\ mode \in Modes
    /\ resettable \in BOOLEAN
    /\ cached \in Envelopes \cup {Absent}
    /\ pc \in PCs
    /\ call \in Calls
    /\ reply \in {"none", "ok", "error"}

-----------------------------------------------------------------------------
(* Reading the partition                                                   *)

\* read_active(): Ok when there is no active pointer or it leads to an
\* envelope that decodes.
ActiveStatus ==
    IF active = Absent THEN "ok"
    ELSE IF slot[active] = Absent THEN "not_found"
    ELSE IF slot[active] = Torn THEN "corrupt"
    ELSE IF slot[active] = Newer THEN "unsupported_vault_format"
    ELSE "ok"

detect_legacy_schema ==
    IF legacy = "none" THEN "unprovisioned"
    ELSE IF legacy = "schema1" THEN "reprovision_required"
    ELSE "unsupported_schema"

\* NvsPersistence::load.  A last_used of another length than an id spoils it.
Schema2LoadStatus ==
    IF ~ns THEN detect_legacy_schema
    ELSE IF schema = Absent THEN "corrupt"
    ELSE IF schema = 1 THEN "reprovision_required"
    ELSE IF schema = 3 THEN "unsupported_schema"
    ELSE IF ActiveStatus = "ok" /\ last_used = Torn THEN "corrupt"
    ELSE ActiveStatus

\* CompatibleNvsPersistence::load: anything but success is probed once more
\* for a Schema 1 development partition.
LoadStatus ==
    IF Schema2LoadStatus \notin {"ok", "reprovision_required"} /\ legacy = "schema1"
    THEN "reprovision_required"
    ELSE Schema2LoadStatus

\* The envelope read_active finds in a formatted partition: the one a
\* successful load returns.
StoredVault ==
    IF ns /\ schema = 2 /\ active \in Slots /\ slot[active] \in Envelopes
    THEN slot[active] ELSE Absent

\* explicit_reset_recovery_status
ExplicitReset(status) ==
    status \in {"corrupt", "unsupported_schema", "reprovision_required"}

-----------------------------------------------------------------------------
(* Boot                                                                    *)

NoCall == [kind |-> "install", expected |-> 0, target |-> 0,
           envelope |-> CHOOSE e \in Envelopes : TRUE]

\* A Device as first flashed, or one that still carries a development
\* partition or a partition written by a newer firmware, in a newer schema or
\* with a Vault in a newer format.
Init ==
    /\ last_used = Absent
    /\ \/ /\ ns = FALSE /\ schema = Absent /\ legacy \in LegacyStates
          /\ active = Absent /\ slot = [s \in Slots |-> Absent]
       \/ /\ ns = TRUE /\ schema \in {1, 3} /\ legacy = "none"
          /\ active = Absent /\ slot = [s \in Slots |-> Absent]
       \/ /\ ns = TRUE /\ schema = 2 /\ legacy = "none"
          /\ active = 0 /\ slot = [s \in Slots |-> IF s = 0 THEN Newer ELSE Absent]
    /\ mode = "off" /\ resettable = FALSE /\ cached = Absent
    /\ pc = "idle" /\ call = NoCall /\ reply = "none"

\* Runtime::initialize with the status its load returned.
Initialize(status) ==
    /\ mode' = CASE status = "unprovisioned" -> "no_schema"
                 [] status = "reprovision_required" -> "reprovision"
                 [] status = "ok" -> "ready"
                 [] OTHER -> "error"
    /\ resettable' = (mode' = "reprovision" \/ (mode' = "error" /\ ExplicitReset(status)))
    /\ cached' = IF status = "ok" THEN StoredVault ELSE Absent

Boot(status) ==
    /\ mode = "off"
    /\ Initialize(status)
    /\ UNCHANGED <<nvs, pc, call, reply>>

\* Runtime::lock and enter_recovery_boundary recompute state_ from has_vault_
\* alone: a Runtime that had asked for reprovisioning forgets it.
LockBoundary ==
    /\ pc = "idle" /\ mode \in {"no_schema", "reprovision", "ready"}
    /\ mode' = IF mode = "reprovision" THEN "no_schema" ELSE mode
    /\ UNCHANGED <<nvs, resettable, cached, pc, call, reply>>

-----------------------------------------------------------------------------
(* Vault commits: Runtime::install_encrypted_vault, update_encrypted_vault *)
(* and rekey_encrypted_vault through NvsPersistence::replace_envelope      *)

\* The checks Runtime makes against its cached envelope before it calls
\* replace_envelope; on any other argument it returns without a write.
RuntimeAccepts(kind, expected, e) ==
    /\ mode = "ready"
    /\ IF kind = "install"
       THEN cached = Absent /\ expected = 0
       ELSE /\ cached # Absent
            /\ expected = cached.generation
            /\ expected # MaxGeneration
            /\ e.generation = expected + 1
            /\ e.vault_id = cached.vault_id

BeginCommit(kind, expected, e) ==
    /\ pc = "idle"
    /\ RuntimeAccepts(kind, expected, e)
    /\ pc' = "check"
    /\ call' = [kind |-> kind, expected |-> expected, envelope |-> e, target |-> 0]
    /\ reply' = "none"
    /\ UNCHANGED <<nvs, mode, resettable, cached>>

\* A failed commit returns to the caller; after a failed installation
\* CanonicalVmkSink resets the Runtime, which erases the partition.
FailCommit ==
    /\ reply' = "error"
    /\ pc' = IF call.kind = "install" THEN "rollback" ELSE "idle"
    /\ UNCHANGED call

\* Mutant: the generation of the durable envelope is not compared.
DurableAcceptsAnyGeneration ==
    IF call.expected = 0 THEN active = Absent ELSE active # Absent

\* The generation rules replace_envelope applies to the durable envelope.
DurableAccepts ==
    IF call.expected = 0
    THEN active = Absent
    ELSE /\ active # Absent
         /\ slot[active].generation = call.expected
         /\ call.expected # MaxGeneration
         /\ call.envelope.generation = call.expected + 1
         /\ call.envelope.vault_id = slot[active].vault_id

\* The inactive slot.
Target == IF active = Absent THEN 0 ELSE 1 - active

\* Opening read-write creates the namespace; then schema, active envelope
\* and generations are checked.
CheckCommit ==
    /\ pc = "check"
    /\ ns' = TRUE
    /\ \/ /\ schema = 2 /\ ActiveStatus = "ok" /\ DurableAccepts
          /\ pc' = "stage"
          /\ call' = [call EXCEPT !.target = Target]
          /\ UNCHANGED reply
       \/ /\ ~(schema = 2 /\ ActiveStatus = "ok" /\ DurableAccepts)
          /\ FailCommit
    /\ UNCHANGED <<schema, active, slot, last_used, legacy, mode, resettable, cached>>

\* Phase 1: the candidate goes to the inactive slot.
WriteStage(value) ==
    /\ slot' = [slot EXCEPT ![call.target] = value]
    /\ UNCHANGED <<ns, schema, active, last_used, legacy>>

\* NVS reporting success does not mean the bytes are the right ones.
StageCandidate ==
    /\ pc = "stage"
    /\ \E value \in {call.envelope, Torn} : WriteStage(value)
    /\ pc' = "verify"
    /\ UNCHANGED <<mode, resettable, cached, call, reply>>

\* Mutant: the durable copy is not compared with the candidate.
VerifyNothing ==
    /\ pc = "verify"
    /\ pc' = "flip"
    /\ UNCHANGED <<nvs, mode, resettable, cached, call, reply>>

\* The durable copy is read back before the pointer moves.
VerifyStaged ==
    /\ pc = "verify"
    /\ \/ slot[call.target] = call.envelope /\ pc' = "flip" /\ UNCHANGED <<call, reply>>
       \/ slot[call.target] # call.envelope /\ FailCommit
    /\ UNCHANGED <<nvs, mode, resettable, cached>>

\* Phase 2: the authoritative pointer moves.
WriteActive(value) ==
    /\ active' = value
    /\ UNCHANGED <<ns, schema, slot, last_used, legacy>>

FlipActive ==
    /\ pc = "flip"
    /\ WriteActive(call.target)
    /\ pc' = "reload"
    /\ UNCHANGED <<mode, resettable, cached, call, reply>>

\* After the write Runtime loads the partition again and compares.
ReloadMatches == LoadStatus = "ok" /\ StoredVault = call.envelope

\* Mutant: envelope_ is not replaced by the committed one.
ConfirmKeepsCache ==
    /\ pc = "reload"
    /\ ReloadMatches
    /\ resettable' = FALSE
    /\ mode' = "ready"
    /\ reply' = "ok"
    /\ pc' = "idle"
    /\ UNCHANGED <<nvs, call, cached>>

ConfirmCommit ==
    /\ pc = "reload"
    /\ ReloadMatches
    /\ cached' = StoredVault
    /\ resettable' = FALSE
    /\ mode' = "ready"
    /\ reply' = "ok"
    /\ pc' = "idle"
    /\ UNCHANGED <<nvs, call>>

\* The load fails or disagrees.  update calls fatal_security_error; install
\* keeps the reset permission of the load's status; rekey leaves it alone.
ConfirmFails(status) ==
    /\ pc = "reload"
    /\ status # "ok" \/ ~ReloadMatches
    /\ FailCommit
    /\ mode' = "error"
    /\ resettable' = CASE call.kind = "update" -> TRUE
                       [] call.kind = "install" -> status = "ok" \/ ExplicitReset(status)
                       [] OTHER -> resettable
    /\ cached' = IF call.kind = "install" /\ status = "ok" THEN StoredVault ELSE cached
    /\ UNCHANGED nvs

-----------------------------------------------------------------------------
(* Formatting and erasing                                                  *)

\* nvs_flash_erase_partition works flash page by flash page, and the keys
\* are spread over the pages: stopped part-way it has removed some of them.
NvsKeys == {"ns", "schema", "active", "slot0", "slot1", "last_used", "legacy"}

SlotKey(s) == IF s = 0 THEN "slot0" ELSE "slot1"

EraseSome ==
    \E gone \in SUBSET NvsKeys :
        /\ ns' = (ns /\ "ns" \notin gone)
        /\ schema' = IF "schema" \in gone THEN Absent ELSE schema
        /\ active' = IF "active" \in gone THEN Absent ELSE active
        /\ slot' = [s \in Slots |-> IF SlotKey(s) \in gone THEN Absent ELSE slot[s]]
        /\ last_used' = IF "last_used" \in gone THEN Absent ELSE last_used
        /\ legacy' = IF "legacy" \in gone THEN "none" ELSE legacy

EraseAll ==
    /\ ns' = FALSE /\ schema' = Absent /\ active' = Absent
    /\ slot' = [s \in Slots |-> Absent]
    /\ last_used' = Absent /\ legacy' = "none"

\* Runtime::format_for_schema2, called by CanonicalVmkSink when the Runtime
\* holds no Vault.
BeginFormat ==
    /\ pc = "idle"
    /\ mode \in {"no_schema", "reprovision", "ready"} /\ cached = Absent
    /\ pc' = "format_erase"
    /\ UNCHANGED <<nvs, mode, resettable, cached, call, reply>>

FormatErase ==
    /\ pc = "format_erase"
    /\ EraseAll
    /\ pc' = "format_ns"
    /\ UNCHANGED <<mode, resettable, cached, call, reply>>

WriteNamespace ==
    /\ ns' = TRUE
    /\ UNCHANGED <<schema, active, slot, last_used, legacy>>

FormatNamespace ==
    /\ pc = "format_ns"
    /\ WriteNamespace
    /\ pc' = "format_schema"
    /\ UNCHANGED <<mode, resettable, cached, call, reply>>

WriteSchema ==
    /\ schema' = 2
    /\ UNCHANGED <<ns, active, slot, last_used, legacy>>

FormatSchema ==
    /\ pc = "format_schema"
    /\ WriteSchema
    /\ pc' = "format_reload"
    /\ UNCHANGED <<mode, resettable, cached, call, reply>>

\* reload_after_persistence
FormatReload ==
    /\ pc = "format_reload"
    /\ LoadStatus = "ok"
    /\ mode' = "ready" /\ resettable' = FALSE /\ cached' = StoredVault
    /\ pc' = "idle"
    /\ UNCHANGED <<nvs, call, reply>>

\* Runtime::factory_reset: after an authorized reset, or to undo a failed
\* installation.  An error that cannot be reset has no authorized reset.
BeginErase ==
    /\ \/ /\ pc = "idle"
          /\ mode \in {"no_schema", "ready", "reprovision"} \/ (mode = "error" /\ resettable)
       \/ pc = "rollback"
    /\ pc' = "erase"
    /\ UNCHANGED <<nvs, mode, resettable, cached, call, reply>>

FinishErase ==
    /\ pc = "erase"
    /\ EraseAll
    /\ mode' = "no_schema" /\ resettable' = FALSE /\ cached' = Absent
    /\ pc' = "idle"
    /\ UNCHANGED <<call, reply>>

-----------------------------------------------------------------------------
(* last_used: written while UNLOCKED after a credential was used           *)

\* The write may fail, or be cut short by a power loss that follows, and leave
\* the old id, none, or bytes of another length; Runtime only reports it.
SetLastUsed(c) ==
    /\ pc = "idle" /\ mode = "ready" /\ cached # Absent
    /\ ns' = TRUE
    /\ last_used' \in IF schema = 2 THEN {c, last_used, Absent, Torn} ELSE {last_used}
    /\ UNCHANGED <<schema, active, slot, legacy>>
    /\ UNCHANGED ram

-----------------------------------------------------------------------------
(* Failure                                                                 *)

\* What a write that was cut short, or that reported an error, may have left.
PartialWrite ==
    \/ UNCHANGED nvs
    \/ pc = "stage" /\ \E value \in {call.envelope, Torn, Absent} : WriteStage(value)
    \/ pc = "flip" /\ WriteActive(call.target)
    \/ pc \in {"format_erase", "erase"} /\ EraseSome
    \/ pc = "format_ns" /\ WriteNamespace
    \/ pc = "format_schema" /\ WriteSchema

\* RAM is gone; the next boot reads what is left.
PowerLoss ==
    /\ mode # "off"
    /\ PartialWrite
    /\ mode' = "off" /\ resettable' = FALSE /\ cached' = Absent
    /\ pc' = "idle" /\ call' = NoCall /\ reply' = "none"

\* NVS reports an error to replace_envelope: Runtime returns it unchanged.
CommitIoError ==
    /\ pc \in {"check", "stage", "verify", "flip"}
    /\ PartialWrite
    /\ FailCommit
    /\ UNCHANGED <<mode, resettable, cached>>

\* NVS reports an error to format_schema2 or to the load after it: the
\* Runtime enters Error and the sink resets it.
FormatIoError ==
    /\ pc \in {"format_erase", "format_ns", "format_schema", "format_reload"}
    /\ PartialWrite
    /\ mode' = "error" /\ resettable' = FALSE
    /\ pc' = "rollback"
    /\ UNCHANGED <<cached, call, reply>>

\* Mutant: the Runtime carries on after a failed erase_all.
EraseErrorIgnored ==
    /\ pc = "erase"
    /\ PartialWrite
    /\ pc' = "idle"
    /\ UNCHANGED <<mode, resettable, cached, call, reply>>

\* NVS reports an error to erase_all.
EraseIoError ==
    /\ pc = "erase"
    /\ PartialWrite
    /\ mode' = "error" /\ resettable' = FALSE
    /\ pc' = "idle"
    /\ UNCHANGED <<cached, call, reply>>

Commit ==
    \/ \E k \in Kinds, x \in 0..MaxGeneration, e \in Envelopes : BeginCommit(k, x, e)
    \/ CheckCommit \/ StageCandidate \/ VerifyStaged \/ FlipActive
    \/ ConfirmCommit
    \/ \E st \in {LoadStatus, "io"} : ConfirmFails(st)

FormatAndErase ==
    \/ BeginFormat \/ FormatErase \/ FormatNamespace \/ FormatSchema \/ FormatReload
    \/ BeginErase \/ FinishErase

Failure == PowerLoss \/ CommitIoError \/ FormatIoError \/ EraseIoError

Next ==
    \/ Boot(LoadStatus)
    \/ Boot("io")
    \/ LockBoundary
    \/ Commit
    \/ FormatAndErase
    \/ \E c \in Credentials : SetLastUsed(c)
    \/ Failure

Spec == Init /\ [][Next]_vars

-----------------------------------------------------------------------------
(* Properties                                                              *)

\* No interruption of replace_envelope leaves a half-written envelope behind
\* the active pointer: "it never accepts a partial generation".
NeverPartialGeneration == active # Absent => slot[active] # Torn

\* A commit that reported an error may nevertheless have become durable, so
\* envelope_ can lag behind the partition; it never lags by more than that
\* one generation and never belongs to another Vault, because the second
\* attempt fails replace_envelope's own generation check.
StaleCacheBounded ==
    mode = "ready" /\ cached # Absent =>
        /\ StoredVault # Absent
        /\ StoredVault.vault_id = cached.vault_id
        /\ StoredVault.generation \in {cached.generation, cached.generation + 1}

\* When Runtime reports a Vault commit as successful, the envelope it was
\* given is the one the active pointer leads to in a formatted partition, so
\* the one a load takes, and the one Runtime keeps in RAM.
AcknowledgedIsDurable ==
    reply = "ok" /\ mode = "ready" /\ pc = "idle" /\ cached # Absent =>
        StoredVault = call.envelope /\ cached = call.envelope

\* Two slots, a pointer and a page-wise erase behave as one atomic Vault.
Durable == INSTANCE AtomicVault WITH vault <- StoredVault, NoVault <- Absent
AtomicCommit == Durable!Spec

-----------------------------------------------------------------------------
(* The inductive invariant behind the theorems of VaultProofs              *)

Committing == pc \in {"check", "stage", "verify", "flip", "reload"}
Staging == pc \in {"stage", "verify", "flip"}
Formatting == pc \in {"format_erase", "format_ns", "format_schema", "format_reload"}

\* Nothing survives a power loss in RAM.
OffIsIdle == mode = "off" => pc = "idle" /\ reply = "none"

\* Outside a format, Runtime only believes schema_ready_ when it is durable.
ReadyIsFormatted == mode = "ready" /\ ~Formatting => ns /\ schema = 2

\* Runtime's own checks still hold while its call is in progress.
CallMatchesCache ==
    Committing =>
        /\ mode = "ready"
        /\ call.kind = "install" => cached = Absent /\ call.expected = 0
        /\ call.kind # "install" => /\ cached # Absent
                                   /\ call.expected = cached.generation
                                   /\ call.envelope.generation = call.expected + 1
                                   /\ call.envelope.vault_id = cached.vault_id

\* The staged slot is never the authoritative one.
StagingIsInactive ==
    Staging =>
        /\ active # call.target
        /\ call.kind = "install" => active = Absent
        /\ call.kind # "install" => /\ active # Absent
                                   /\ slot[active] \in Envelopes
                                   /\ slot[active].generation = call.expected
                                   /\ slot[active].vault_id = call.envelope.vault_id

FlipIsVerified == pc = "flip" => slot[call.target] = call.envelope

FormattingIsEmpty ==
    Formatting => /\ cached = Absent
                  /\ pc # "format_erase" => active = Absent

IndInv ==
    /\ TypeOK
    /\ OffIsIdle /\ ReadyIsFormatted /\ CallMatchesCache /\ StagingIsInactive
    /\ FlipIsVerified /\ FormattingIsEmpty
    /\ NeverPartialGeneration /\ StaleCacheBounded /\ AcknowledgedIsDurable

-----------------------------------------------------------------------------
\* The recovery-only reset is documented as the path out of partial and
\* corrupt ownership states, so whatever a power loss leaves in auth_nvs
\* should either load or be classified as resettable; a Vault of a newer
\* firmware is neither partial nor corrupt.
PartitionIsResettable ==
    \/ LoadStatus \in {"ok", "unprovisioned", "unsupported_vault_format"}
    \/ ExplicitReset(LoadStatus)
=============================================================================
