--------------------------- MODULE BrowserJournal ---------------------------
(***************************************************************************)
(* One Vault in two places.  The Browser keeps a canonical copy of every   *)
(* Vault in IndexedDB (browser-vault.ts); the Device keeps its own.  A     *)
(* change is staged in a durable journal (browser-transaction-journal.ts), *)
(* sent, and reconciled with what the next hello shows; a reset also       *)
(* leaves a durable intent (browser-reset-intent.ts).  The page may be     *)
(* closed, or the Device unplugged, between any two awaits of              *)
(* canonical-management.ts and canonical-recovery-reset.ts.                *)
(*                                                                         *)
(* One Browser profile and one Device.  withCanonicalBrowserStateLock      *)
(* serialises the operations of the profile.  The Device answers requests  *)
(* in order, so what was in flight is done or lost before the next hello,  *)
(* and nothing else changes it while the page is open: hello is the state  *)
(* of the Device.  Another Browser may take over, update, erase or set up  *)
(* the Device while the page is closed.  Contents, keys and registration   *)
(* identities are abstract; a copy of this profile always carries this     *)
(* profile's registration.                                                 *)
(***************************************************************************)
EXTENDS Integers, FiniteSets

CONSTANTS
    VaultIds,       \* random 16-byte Vault ids
    Bodies,         \* contents of a Vault, with the key that encrypts them
    NoBody,
    MaxGeneration,  \* bound on edits
    MaxCrashes,     \* bound on closed pages and lost connections
    Others          \* BOOLEAN: do other Browsers use the Device?

ASSUME JournalAssumption ==
    /\ MaxGeneration \in Nat \ {0} /\ MaxCrashes \in Nat /\ Others \in BOOLEAN
    /\ NoBody \notin Bodies

VARIABLES
    \* Browser, durable
    store,      \* the canonical copy of each Vault
    journal,    \* the pending transaction of each Vault
    intent,     \* the reset intent: affected Vault -> generation
    \* Browser, page
    pc,
    \* the cable
    request,    \* the request in flight
    \* Device
    device,
    \* history
    crashes,
    disturbed   \* has another Browser or damage touched the Device?

browser == <<store, journal, intent>>
vars == <<store, journal, intent, pc, request, device, crashes, disturbed>>

Generations == 0..MaxGeneration
\* Generation 0 is no Vault.
Copy == [generation: Generations, body: Bodies \cup {NoBody}]
NoCopy == [generation |-> 0, body |-> NoBody]

Kinds == {"initial-provisioning", "vault-update", "vmk-rekey", "factory-reset"}
Transactions == [kind: Kinds \cup {"none"}, expected: Generations, candidate: Copy]
NoTransaction == [kind |-> "none", expected |-> 0, candidate |-> NoCopy]

NoRequest == [op |-> "none"]
Requests ==
    [op: {"install", "update", "rekey"}, vault: VaultIds, expected: Generations, copy: Copy]
    \cup [op: {"none", "commit_reset", "recovery_complete"}]

\* hello: which Vault, at which generation, registered to this profile or not.
Devices == [vaults: SUBSET VaultIds, copy: Copy, mine: BOOLEAN, damaged: BOOLEAN]
Clean == [vaults |-> {}, copy |-> NoCopy, mine |-> FALSE, damaged |-> FALSE]

Pending(v) == journal[v] # NoTransaction
Affected == DOMAIN intent
Intended == Affected # {}

\* exactBindingMatches: same Vault, same generation, this profile's registration.
BindingMatches(v, copy) ==
    /\ v \in device.vaults /\ device.mine
    /\ copy.generation > 0 /\ copy.generation = device.copy.generation

TypeOK ==
    /\ store \in [VaultIds -> Copy]
    /\ journal \in [VaultIds -> Transactions]
    /\ Affected \subseteq VaultIds /\ \A v \in Affected : intent[v] \in Generations
    /\ pc \in {"closed", "intent", "pending", "ready", "intended", "staged", "sent",
               "recovery", "recovery_staged", "recovery_sent", "cleanup"}
    /\ request \in Requests
    /\ device \in Devices /\ Cardinality(device.vaults) <= 1
    /\ crashes \in 0..MaxCrashes /\ disturbed \in BOOLEAN

Init ==
    /\ store = [v \in VaultIds |-> NoCopy]
    /\ journal = [v \in VaultIds |-> NoTransaction]
    /\ intent = [v \in {} |-> 0]
    /\ pc = "closed" /\ request = NoRequest
    /\ device = Clean
    /\ crashes = 0 /\ disturbed = FALSE

-----------------------------------------------------------------------------
(* The Device                                                              *)

Done == request' = NoRequest /\ UNCHANGED <<browser, pc, crashes, disturbed>>

\* vault.install, vault.update, vault.rekey, factory_reset.commit and
\* factory_reset.recovery_complete, each atomic (see DeviceOwnership and
\* VaultPersistence), with their preconditions.
Execute ==
    /\ CASE request.op = "install" ->
              /\ device.vaults = {} /\ ~device.damaged
              /\ device' = [vaults |-> {request.vault}, copy |-> request.copy,
                            mine |-> TRUE, damaged |-> FALSE]
         [] request.op \in {"update", "rekey"} ->
              /\ request.vault \in device.vaults /\ device.mine /\ ~device.damaged
              /\ device.copy.generation = request.expected
              /\ device' = [device EXCEPT !.copy = request.copy]
         [] request.op = "commit_reset" -> ~device.damaged /\ device' = Clean
         [] request.op = "recovery_complete" -> device.damaged /\ device' = Clean
         [] OTHER -> FALSE
    /\ Done

\* Refused, or never received.
Lose ==
    /\ request # NoRequest
    /\ UNCHANGED device
    /\ Done

-----------------------------------------------------------------------------
(* Opening the page, hello and reconciliation                              *)

\* Connect, or ask again after a request: initialize and
\* refreshHelloAndBrowserState.  main.ts sends a Device that asks for a
\* recovery reset to the recovery page instead.
Hello ==
    /\ pc \in {"closed", "ready", "sent"} /\ request = NoRequest
    /\ pc' = IF device.damaged THEN "recovery" ELSE "intent"
    /\ UNCHANGED <<browser, request, device, crashes, disturbed>>

\* An error ends the operation; the user reconnects.
Throw == pc' = "closed" /\ UNCHANGED browser

\* reconcileResetIntentForHello, on a clean Device: each affected copy, its
\* journal entry, then the intent.
Mismatch(v) == store[v].generation > 0 /\ store[v].generation # intent[v]

ForgetCopy(v) ==
    /\ v \in Affected /\ store[v].generation > 0 /\ ~Mismatch(v)
    /\ store' = [store EXCEPT ![v] = NoCopy]
    /\ UNCHANGED <<journal, intent, pc>>

ForgetEntry(v) ==
    /\ v \in Affected /\ store[v].generation = 0 /\ Pending(v)
    /\ journal' = [journal EXCEPT ![v] = NoTransaction]
    /\ UNCHANGED <<store, intent, pc>>

ForgetIntent(next) ==
    /\ \A v \in Affected : store[v].generation = 0 /\ ~Pending(v)
    /\ intent' = [v \in {} |-> 0]
    /\ pc' = next
    /\ UNCHANGED <<store, journal>>

Cleanup(next) ==
    \/ \E v \in VaultIds : ForgetCopy(v) \/ ForgetEntry(v)
    \/ ForgetIntent(next)
    \/ (\E v \in Affected : Mismatch(v)) /\ Throw

\* Mutant: a reset the Device did not do is never recognised.
StillBoundNever == FALSE

\* Otherwise a single affected Vault that is still bound clears the intent.
StillBound ==
    \E v \in VaultIds : /\ Affected = {v}
                        /\ store[v].generation = intent[v] /\ BindingMatches(v, store[v])

ReconcileIntent ==
    /\ pc = "intent"
    /\ \/ ~Intended /\ pc' = "pending" /\ UNCHANGED browser
       \/ Intended /\ device = Clean /\ Cleanup("pending")
       \/ /\ Intended /\ device # Clean /\ StillBound
          /\ intent' = [v \in {} |-> 0] /\ pc' = "pending"
          /\ UNCHANGED <<store, journal>>
       \/ Intended /\ device # Clean /\ ~StillBound /\ Throw
    /\ UNCHANGED <<request, device, crashes, disturbed>>

Drop(v) ==
    /\ journal' = [journal EXCEPT ![v] = NoTransaction]
    /\ UNCHANGED <<store, intent, pc>>

\* reconcilePendingForHello on a clean Device: a reset is finished, a setup that
\* did not happen is dropped, anything else stays.
ReconcileClean ==
    LET resets == {v \in VaultIds : journal[v].kind = "factory-reset"}
        setups == {v \in VaultIds : journal[v].kind = "initial-provisioning"}
        stale(v) == store[v].generation > 0 /\ store[v].generation # journal[v].expected
    IN  \/ \E v \in setups : Drop(v)
        \/ \E v \in resets : \/ store[v].generation = 0 /\ Drop(v)
                             \/ stale(v) /\ Throw
                             \/ /\ store[v].generation > 0 /\ ~stale(v)
                                /\ store' = [store EXCEPT ![v] = NoCopy]
                                /\ UNCHANGED <<journal, intent, pc>>
        \/ resets \cup setups = {} /\ pc' = "ready" /\ UNCHANGED browser

\* store.put of the candidate the Device shows, over the copy it was made from.
Promote(v) ==
    /\ store[v].generation = journal[v].expected
    /\ store' = [store EXCEPT ![v] = journal[v].candidate]
    /\ UNCHANGED <<journal, intent, pc>>

\* Mutant: the journal entry goes before the copy it holds is stored.
SettleForgetting(v) ==
    LET entry == journal[v]
    IN  IF entry.kind # "factory-reset" /\ BindingMatches(v, entry.candidate) THEN Drop(v)
        ELSE IF BindingMatches(v, store[v]) /\ device.copy.generation = entry.expected
        THEN Drop(v) ELSE Throw

\* The entry of the Vault the Device shows: the candidate is there, or the copy
\* it was to replace still is, or nothing can be said.
Settle(v) ==
    LET entry == journal[v]
    IN  IF entry.kind = "factory-reset"
        THEN IF BindingMatches(v, entry.candidate) /\ BindingMatches(v, store[v])
             THEN Drop(v) ELSE Throw
        ELSE IF BindingMatches(v, entry.candidate)
        THEN IF store[v].generation = entry.candidate.generation THEN Drop(v)
             ELSE Promote(v) \/ (store[v].generation # journal[v].expected /\ Throw)
        ELSE IF /\ entry.kind # "initial-provisioning"
                /\ device.copy.generation = entry.expected
                /\ BindingMatches(v, store[v])
        THEN Drop(v) ELSE Throw

\* Mutant: a page opens on an owned Device without settling its entry.
ReconcilePendingSkips ==
    /\ pc = "pending"
    /\ IF device.vaults = {} THEN ReconcileClean
       ELSE pc' = (IF device.mine THEN "ready" ELSE "closed") /\ UNCHANGED browser
    /\ UNCHANGED <<request, device, crashes, disturbed>>

ReconcilePending ==
    /\ pc = "pending"
    /\ IF device.vaults = {} THEN ReconcileClean
       ELSE \E v \in device.vaults :
              IF Pending(v) THEN Settle(v)
              ELSE /\ pc' = IF BindingMatches(v, store[v]) THEN "ready" ELSE "closed"
                   /\ UNCHANGED browser
    /\ UNCHANGED <<request, device, crashes, disturbed>>

-----------------------------------------------------------------------------
(* The operations.  Each begins from a reconciled page: "ready".           *)

Entry(kind, expected, candidate) ==
    [kind |-> kind, expected |-> expected, candidate |-> candidate]

Stage(v, entry, next) ==
    /\ ~Pending(v)
    /\ journal' = [journal EXCEPT ![v] = entry]
    /\ pc' = next
    /\ UNCHANGED <<store, intent, request, device, crashes, disturbed>>

\* initialProvision: a fresh Vault at generation 1, for a clean Device.
StageSetup(v, body) ==
    /\ pc = "ready" /\ device = Clean
    /\ store[v] = NoCopy /\ v \notin Affected
    /\ Stage(v, Entry("initial-provisioning", 0, [generation |-> 1, body |-> body]), "staged")

\* mutateVault and rotateVmk, by the active writer.
StageChange(v, kind, body) ==
    /\ pc = "ready" /\ BindingMatches(v, store[v])
    /\ store[v].generation < MaxGeneration
    /\ LET g == store[v].generation
       IN  Stage(v, Entry(kind, g, [generation |-> g + 1, body |-> body]), "staged")

\* factoryReset, once the user has confirmed it on the Device: the intent, then
\* the journal.
StageIntent(v) ==
    /\ pc = "ready" /\ BindingMatches(v, store[v]) /\ ~Intended
    /\ intent' = [w \in {v} |-> store[v].generation]
    /\ pc' = "intended"
    /\ UNCHANGED <<store, journal, request, device, crashes, disturbed>>

StageReset(v) ==
    /\ pc = "intended" /\ v \in Affected
    /\ Stage(v, Entry("factory-reset", store[v].generation, store[v]), "staged")

\* The entry that was staged is the one of the Vault on the Device, or of the
\* setup of a clean one.
Send(v) ==
    /\ pc = "staged" /\ Pending(v)
    /\ v \in device.vaults \/ (device.vaults = {} /\ journal[v].kind = "initial-provisioning")
    /\ request' =
         IF journal[v].kind = "factory-reset" THEN [op |-> "commit_reset"]
         ELSE [op |-> CASE journal[v].kind = "initial-provisioning" -> "install"
                        [] journal[v].kind = "vault-update" -> "update"
                        [] OTHER -> "rekey",
               vault |-> v, expected |-> journal[v].expected, copy |-> journal[v].candidate]
    /\ pc' = "sent"
    /\ UNCHANGED <<browser, device, crashes, disturbed>>

-----------------------------------------------------------------------------
(* canonical-recovery-reset.ts                                             *)

\* buildResetIntent: the Vault the Device still shows, every copy of the
\* profile, every pending candidate, each overriding the one before.
BuildResetIntent ==
    [v \in device.vaults \cup {w \in VaultIds : store[w].generation > 0 \/ Pending(w)} |->
        IF Pending(v) THEN journal[v].candidate.generation
        ELSE IF store[v].generation > 0 THEN store[v].generation
        ELSE device.copy.generation]

StageRecovery ==
    /\ pc = "recovery"
    /\ intent' = IF Intended THEN intent ELSE BuildResetIntent
    /\ pc' = "recovery_staged"
    /\ UNCHANGED <<store, journal, request, device, crashes, disturbed>>

SendRecovery ==
    /\ pc = "recovery_staged"
    /\ request' = [op |-> "recovery_complete"]
    /\ pc' = "recovery_sent"
    /\ UNCHANGED <<browser, device, crashes, disturbed>>

\* Mutant: an accepted request is taken for an erased Device.
FinishRecoveryUnproven ==
    /\ pc = "recovery_sent" /\ request = NoRequest
    /\ pc' = "cleanup"
    /\ UNCHANGED <<browser, request, device, crashes, disturbed>>

FinishRecovery ==
    /\ pc = "recovery_sent" /\ request = NoRequest
    /\ pc' = IF device = Clean THEN "cleanup" ELSE "closed"
    /\ UNCHANGED <<browser, request, device, crashes, disturbed>>

\* cleanupFromResetIntent
CleanupRecovery ==
    /\ pc = "cleanup" /\ Cleanup("closed")
    /\ UNCHANGED <<request, device, crashes, disturbed>>

-----------------------------------------------------------------------------
(* The world                                                               *)

\* The page is closed or the cable pulled; a request in flight may still arrive.
Crash ==
    /\ pc # "closed" /\ crashes < MaxCrashes
    /\ pc' = "closed" /\ crashes' = crashes + 1
    /\ UNCHANGED <<browser, request, device, disturbed>>

\* The Device's storage is damaged: it asks for a recovery reset, and may or may
\* not still show its Vault.
Damage ==
    /\ ~device.damaged /\ crashes < MaxCrashes
    /\ \E d \in {device, Clean} : device' = [d EXCEPT !.damaged = TRUE]
    /\ pc' = "closed" /\ request' = NoRequest
    /\ crashes' = crashes + 1 /\ disturbed' = TRUE
    /\ UNCHANGED browser

\* Another Browser, with the Recovery Package or the button: takes the Device
\* over, edits its Vault, erases it, or sets it up.
OtherBrowser ==
    /\ Others /\ pc = "closed" /\ request = NoRequest /\ ~device.damaged
    /\ \/ device.vaults # {} /\ device' = [device EXCEPT !.mine = FALSE]
       \/ /\ device.vaults # {} /\ ~device.mine /\ device.copy.generation < MaxGeneration
          /\ \E b \in Bodies : device' = [device EXCEPT
                !.copy = [generation |-> device.copy.generation + 1, body |-> b]]
       \/ device.vaults # {} /\ device' = Clean
       \/ /\ device = Clean
          /\ \E v \in VaultIds, g \in 1..MaxGeneration, b \in Bodies :
               device' = [vaults |-> {v}, copy |-> [generation |-> g, body |-> b],
                          mine |-> FALSE, damaged |-> FALSE]
    /\ disturbed' = TRUE
    /\ UNCHANGED <<browser, pc, request, crashes>>

Operation ==
    \E v \in VaultIds :
        \/ \E b \in Bodies : \/ StageSetup(v, b)
                             \/ StageChange(v, "vault-update", b)
                             \/ StageChange(v, "vmk-rekey", b)
        \/ StageIntent(v)

Continue ==
    \/ \E v \in VaultIds : StageReset(v) \/ Send(v)
    \/ StageRecovery \/ SendRecovery \/ FinishRecovery \/ CleanupRecovery

Next ==
    \/ Execute \/ Lose \/ Hello \/ ReconcileIntent \/ ReconcilePending
    \/ Operation \/ Continue \/ Crash \/ Damage \/ OtherBrowser

Spec == Init /\ [][Next]_vars

\* A request is answered or lost, a page that awaits goes on, and the user
\* reconnects.
FairSpec ==
    /\ Spec
    /\ WF_vars(Execute \/ Lose)
    /\ WF_vars(Hello)
    /\ WF_vars(ReconcileIntent)
    /\ WF_vars(ReconcilePending)
    /\ WF_vars(Continue)

-----------------------------------------------------------------------------

\* Wherever the page is closed, the profile can read the Device it owns: the
\* copy the Device holds, with its key, is in the store or in the journal.
OwnerCanRead ==
    \A v \in device.vaults :
        device.mine /\ ~device.damaged => device.copy \in {store[v], journal[v].candidate}

\* The active writer edits what the Device holds: a page that has reconciled
\* has the Device's own contents, not others of the same generation, and
\* nothing of that Vault is left pending.
WriterIsCurrent ==
    pc \in {"ready", "intended"} /\ device.mine =>
        \A v \in device.vaults : store[v] = device.copy /\ ~Pending(v)

\* A canonical copy is given up only when the Device has been seen erased.
CopiesOutliveTheDevice ==
    [][\A v \in VaultIds : store[v] # NoCopy /\ store'[v] = NoCopy => device = Clean]_vars

\* Left to itself, every staged transaction and every reset intent is settled,
\* wherever the page was closed.
SettlesAlone ==
    []~disturbed =>
        /\ \A v \in VaultIds : Pending(v) ~> ~Pending(v)
        /\ Intended ~> ~Intended

\* canonical-recovery-reset.ts builds the intent "so confirmed destruction
\* cannot orphan its browser replica": once the Device is erased, the copies the
\* intent names are given up and the intent is settled.
ErasedIsSettled == (Intended /\ device = Clean) ~> ~Intended
=============================================================================
