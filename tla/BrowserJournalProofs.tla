------------------------ MODULE BrowserJournalProofs ------------------------
(***************************************************************************)
(* Proofs about BrowserJournal for any Vaults, contents, numbers of edits  *)
(* and of closed pages, with or without other Browsers.                    *)
(***************************************************************************)
EXTENDS BrowserJournal, FiniteSetTheorems, TLAPS

Pages == {"closed", "intent", "pending", "ready", "intended", "staged", "sent",
          "recovery", "recovery_staged", "recovery_sent", "cleanup"}

\* The types, with the Device's Vaults apart.
Types ==
    /\ store \in [VaultIds -> Copy]
    /\ journal \in [VaultIds -> Transactions]
    /\ request \in Requests
    /\ device \in Devices
    /\ crashes \in 0..MaxCrashes /\ disturbed \in BOOLEAN

IntentOK == Affected \subseteq VaultIds /\ \A v \in Affected : intent[v] \in Generations

OneVault == device.vaults = {} \/ \E v \in VaultIds : device.vaults = {v}

\* A Device without a Vault has nothing else, but may be damaged.
EmptyIsClean == device.vaults = {} => device.copy = NoCopy /\ ~device.mine

\* Where the page can be: it waits while a request is in flight, it shows a
\* damaged Device only its recovery, and it cleans up only for an erased one.
PageFits ==
    /\ pc \in Pages
    /\ request # NoRequest => pc \in {"sent", "recovery_sent", "closed"}
    /\ device.damaged => pc \in {"closed", "recovery", "recovery_staged", "recovery_sent"}
    /\ pc = "cleanup" => device = Clean

\* A pending entry of a change is one generation ahead of the copy it replaces;
\* one of a reset holds the copy itself.  The copy may have been given up.
EntryOK(v) ==
    /\ journal[v].kind = "none" => journal[v] = NoTransaction
    /\ journal[v].kind = "factory-reset" => store[v] \in {journal[v].candidate, NoCopy}
    /\ journal[v].kind \in {"initial-provisioning", "vault-update", "vmk-rekey"} =>
         /\ journal[v].candidate.generation = journal[v].expected + 1
         /\ \/ store[v] \in {journal[v].candidate, NoCopy}
            \/ store[v].generation = journal[v].expected

Entries == \A v \in VaultIds : EntryOK(v)

\* What is in flight is still in the journal.
InFlightIsStaged ==
    request.op \in {"install", "update", "rekey"} =>
        journal[request.vault].candidate = request.copy

IndInv ==
    /\ Types /\ IntentOK /\ OneVault /\ EmptyIsClean /\ PageFits
    /\ Entries /\ InFlightIsStaged /\ OwnerCanRead /\ WriterIsCurrent

-----------------------------------------------------------------------------
(* What is there when nothing is                                           *)

\* The empty copy, the empty transaction, and no request.
LEMMA Nothing ==
    /\ NoCopy \in Copy /\ NoCopy.generation = 0 /\ NoCopy.body = NoBody
    /\ NoTransaction \in Transactions /\ NoTransaction.kind = "none"
    /\ NoTransaction.candidate = NoCopy /\ NoTransaction.expected = 0
    /\ NoRequest \in Requests /\ NoRequest.op = "none"
<1>1. NoCopy \in Copy /\ NoCopy.generation = 0 /\ NoCopy.body = NoBody
  BY JournalAssumption DEF NoCopy, Copy, Generations
<1>2. /\ NoTransaction \in Transactions /\ NoTransaction.kind = "none"
      /\ NoTransaction.candidate = NoCopy /\ NoTransaction.expected = 0
  BY <1>1, JournalAssumption DEF NoTransaction, Transactions, Generations
<1>3. NoRequest \in Requests /\ NoRequest.op = "none"
  BY DEF NoRequest, Requests
<1> QED BY <1>1, <1>2, <1>3

\* A clean Device.
LEMMA CleanIs ==
    /\ Clean \in Devices /\ Clean.vaults = {} /\ Clean.copy = NoCopy
    /\ ~Clean.mine /\ ~Clean.damaged
  BY Nothing DEF Clean, Devices

\* A Device that shows no Vault and is not damaged has been erased.
LEMMA ErasedIsClean ==
    ASSUME device \in Devices, EmptyIsClean, device.vaults = {}, ~device.damaged
    PROVE  device = Clean
  BY DEF EmptyIsClean, Devices, Clean

\* Nothing is in flight while the page is busy.
LEMMA BusyIsQuiet ==
    ASSUME PageFits, pc \notin {"sent", "recovery_sent", "closed"}
    PROVE  request = NoRequest /\ request.op = "none"
  BY Nothing DEF PageFits

-----------------------------------------------------------------------------
(* Kinds of step                                                           *)

\* A step that only moves the page, or writes or clears the intent.
LEMMA PageMoves ==
    ASSUME IndInv, UNCHANGED <<store, journal, request, device>>, IntentOK',
           crashes' \in 0..MaxCrashes, disturbed' \in BOOLEAN, PageFits',
           pc' \in {"ready", "intended"} => pc \in {"ready", "intended"} \/ WriterIsCurrent'
    PROVE  IndInv'
<1>1. Types'
  BY DEF IndInv, Types
<1>2. OneVault' /\ EmptyIsClean' /\ Entries' /\ InFlightIsStaged' /\ OwnerCanRead'
  BY DEF IndInv, OneVault, EmptyIsClean, Entries, EntryOK, InFlightIsStaged, OwnerCanRead
<1>3. WriterIsCurrent'
  BY DEF IndInv, WriterIsCurrent, Pending
<1> QED BY <1>1, <1>2, <1>3 DEF IndInv

\* Dropping the entry of a Vault whose copy the store has.
LEMMA DropStep ==
    ASSUME IndInv, NEW v \in VaultIds, pc \notin {"sent", "recovery_sent", "closed"},
           journal' = [journal EXCEPT ![v] = NoTransaction],
           UNCHANGED <<store, intent, pc, request, device, crashes, disturbed>>,
           v \in device.vaults /\ device.mine => device.copy = store[v]
    PROVE  IndInv'
<1>1. /\ journal'[v] = NoTransaction
      /\ \A w \in VaultIds : w # v => journal'[w] = journal[w]
  BY DEF IndInv, Types
<1>2. Types' /\ IntentOK' /\ PageFits'
  BY Nothing DEF IndInv, Types, IntentOK, Affected, PageFits
<1>3. Entries'
  BY <1>1, Nothing DEF IndInv, Entries, EntryOK
<1>4. InFlightIsStaged'
  BY BusyIsQuiet DEF IndInv, InFlightIsStaged
<1>5. \A w \in device.vaults : w \in VaultIds
  BY DEF IndInv, Types, Devices
<1>6. OwnerCanRead'
  BY <1>1, <1>5 DEF IndInv, OwnerCanRead
<1>7. WriterIsCurrent'
  BY <1>1, <1>5 DEF IndInv, WriterIsCurrent, Pending
<1> QED BY <1>2, <1>3, <1>4, <1>6, <1>7
        DEF IndInv, OneVault, EmptyIsClean

\* Giving up a copy while the Device shows no Vault.
LEMMA ForgetStep ==
    ASSUME IndInv, NEW v \in VaultIds, store' = [store EXCEPT ![v] = NoCopy],
           UNCHANGED <<journal, intent, pc, request, device, crashes, disturbed>>,
           device.vaults = {}
    PROVE  IndInv'
<1>1. /\ store'[v] = NoCopy
      /\ \A w \in VaultIds : w # v => store'[w] = store[w]
  BY DEF IndInv, Types
<1>2. Types' /\ IntentOK' /\ PageFits'
  BY Nothing DEF IndInv, Types, IntentOK, Affected, PageFits
<1>3. Entries'
  BY <1>1 DEF IndInv, Entries, EntryOK
<1> QED BY <1>2, <1>3
        DEF IndInv, OneVault, EmptyIsClean, InFlightIsStaged, OwnerCanRead, WriterIsCurrent

\* Staging an entry for a copy the Device agrees with.
LEMMA StageStep ==
    ASSUME IndInv, NEW v \in VaultIds, NEW entry \in Transactions,
           pc \in {"ready", "intended"}, Stage(v, entry, "staged"),
           entry.kind # "none",
           entry.kind = "factory-reset" => store[v] = entry.candidate,
           entry.kind # "factory-reset" =>
             /\ entry.candidate.generation = entry.expected + 1
             /\ store[v].generation = entry.expected
    PROVE  IndInv'
<1>0. /\ journal' = [journal EXCEPT ![v] = entry] /\ pc' = "staged"
      /\ UNCHANGED <<store, intent, request, device, crashes, disturbed>>
  BY DEF Stage
<1>1. /\ journal'[v] = entry
      /\ \A w \in VaultIds : w # v => journal'[w] = journal[w]
  BY <1>0 DEF IndInv, Types
<1>2. Types' /\ IntentOK'
  BY <1>0 DEF IndInv, Types, IntentOK, Affected
<1>3. PageFits' /\ InFlightIsStaged'
  BY <1>0, BusyIsQuiet DEF IndInv, PageFits, InFlightIsStaged, Pages
<1>4. Entries'
  BY <1>0, <1>1 DEF IndInv, Entries, EntryOK, Transactions, Kinds
<1>5. OwnerCanRead'
  BY <1>0 DEF IndInv, WriterIsCurrent, OwnerCanRead
<1> QED BY <1>0, <1>2, <1>3, <1>4, <1>5
        DEF IndInv, OneVault, EmptyIsClean, WriterIsCurrent

-----------------------------------------------------------------------------
(* The Device and the world                                                *)

\* The Device changes while the page waits or is closed.
LEMMA DeviceChanges ==
    ASSUME IndInv, UNCHANGED <<store, journal, intent>>, pc' \in {"sent", "recovery_sent", "closed"},
           request' \in {request, NoRequest}, device' \in Devices, OneVault', EmptyIsClean',
           crashes' \in 0..MaxCrashes, disturbed' \in BOOLEAN,
           device'.damaged => pc' \in {"recovery_sent", "closed"},
           OwnerCanRead'
    PROVE  IndInv'
<1>1. Types' /\ IntentOK'
  BY Nothing DEF IndInv, Types, IntentOK, Affected
<1>2. PageFits' /\ WriterIsCurrent'
  BY DEF PageFits, Pages, WriterIsCurrent
<1>3. Entries'
  BY DEF IndInv, Entries, EntryOK
<1>4. InFlightIsStaged'
  BY Nothing DEF IndInv, InFlightIsStaged
<1> QED BY <1>1, <1>2, <1>3, <1>4 DEF IndInv

\* A request the Device executes leaves what the journal holds, or nothing.
LEMMA ExecuteStep == ASSUME IndInv, Execute PROVE IndInv'
<1>1. /\ request' = NoRequest /\ UNCHANGED <<store, journal, intent, pc, crashes, disturbed>>
      /\ request.op # "none" /\ request \in Requests
  BY DEF Execute, Done, browser, IndInv, Types
<1>2. pc \in {"sent", "recovery_sent", "closed"}
  BY <1>1, Nothing DEF IndInv, PageFits
<1>3. crashes' \in 0..MaxCrashes /\ disturbed' \in BOOLEAN
  BY <1>1 DEF IndInv, Types
<1>4. CASE request.op = "install"
  <2>1. /\ request.vault \in VaultIds /\ request.copy \in Copy
        /\ journal[request.vault].candidate = request.copy
    BY <1>1, <1>4 DEF Requests, IndInv, InFlightIsStaged
  <2>2. device' = [vaults |-> {request.vault}, copy |-> request.copy,
                   mine |-> TRUE, damaged |-> FALSE]
    BY <1>4 DEF Execute
  <2>3. device' \in Devices /\ OneVault' /\ EmptyIsClean' /\ ~device'.damaged /\ OwnerCanRead'
    BY <2>1, <2>2, <1>1 DEF Devices, OneVault, EmptyIsClean, OwnerCanRead
  <2> QED BY <2>3, <1>1, <1>2, <1>3, DeviceChanges
<1>5. CASE request.op \in {"update", "rekey"}
  <2>1. /\ request.vault \in VaultIds /\ request.copy \in Copy
        /\ journal[request.vault].candidate = request.copy
    BY <1>1, <1>5 DEF Requests, IndInv, InFlightIsStaged
  <2>2. /\ device' = [device EXCEPT !.copy = request.copy] /\ request.vault \in device.vaults
        /\ ~device.damaged /\ device \in Devices
    BY <1>5 DEF Execute, IndInv, Types
  <2>3. /\ device'.vaults = device.vaults /\ device'.copy = request.copy
        /\ device' \in Devices /\ ~device'.damaged
    BY <2>1, <2>2 DEF Devices
  <2>4. device.vaults = {request.vault}
    BY <2>2 DEF IndInv, OneVault
  <2>5. OneVault' /\ EmptyIsClean' /\ OwnerCanRead'
    BY <2>1, <2>3, <2>4, <1>1 DEF OneVault, EmptyIsClean, OwnerCanRead
  <2> QED BY <2>3, <2>5, <1>1, <1>2, <1>3, DeviceChanges
<1>6. CASE request.op \in {"commit_reset", "recovery_complete"}
  <2>1. device' = Clean
    BY <1>6 DEF Execute
  <2>2. device' \in Devices /\ OneVault' /\ EmptyIsClean' /\ ~device'.damaged /\ OwnerCanRead'
    BY <2>1, CleanIs DEF OneVault, EmptyIsClean, OwnerCanRead
  <2> QED BY <2>2, <1>1, <1>2, <1>3, DeviceChanges
<1> QED BY <1>1, <1>4, <1>5, <1>6 DEF Requests

\* A request that is refused or never received changes nothing.
LEMMA LoseStep == ASSUME IndInv, Lose PROVE IndInv'
<1>1. /\ request' = NoRequest /\ pc \in {"sent", "recovery_sent", "closed"}
      /\ UNCHANGED <<device, store, journal, intent, pc, crashes, disturbed>>
  BY DEF Lose, Done, browser, IndInv, PageFits
<1>2. device.damaged => pc \in {"recovery_sent", "closed"}
  BY <1>1 DEF IndInv, PageFits
<1>3. OneVault' /\ EmptyIsClean' /\ OwnerCanRead'
  BY <1>1 DEF IndInv, OneVault, EmptyIsClean, OwnerCanRead
<1> QED BY <1>1, <1>2, <1>3, DeviceChanges DEF IndInv, Types

\* Closing the page loses nothing durable.
LEMMA CrashStep == ASSUME IndInv, Crash PROVE IndInv'
<1>1. /\ pc' = "closed" /\ UNCHANGED <<device, store, journal, intent, request, disturbed>>
      /\ crashes' \in 0..MaxCrashes
  BY JournalAssumption DEF Crash, browser, IndInv, Types
<1>2. OneVault' /\ EmptyIsClean' /\ OwnerCanRead'
  BY <1>1 DEF IndInv, OneVault, EmptyIsClean, OwnerCanRead
<1> QED BY <1>1, <1>2, DeviceChanges DEF IndInv, Types

\* A damaged Device is not one the profile owns.
LEMMA DamageStep == ASSUME IndInv, Damage PROVE IndInv'
<1>1. /\ pc' = "closed" /\ request' = NoRequest /\ UNCHANGED <<store, journal, intent>>
      /\ crashes' \in 0..MaxCrashes /\ disturbed' \in BOOLEAN
  BY JournalAssumption DEF Damage, browser, IndInv, Types
<1>2. PICK d \in {device, Clean} : device' = [d EXCEPT !.damaged = TRUE]
  BY DEF Damage
<1>3. d \in Devices /\ (d.vaults = {} => d.copy = NoCopy /\ ~d.mine)
      /\ (d.vaults = {} \/ \E v \in VaultIds : d.vaults = {v})
  BY CleanIs DEF IndInv, Types, EmptyIsClean, OneVault
<1>4. /\ device' \in Devices /\ device'.vaults = d.vaults /\ device'.copy = d.copy
      /\ device'.mine = d.mine /\ device'.damaged
  BY <1>2, <1>3 DEF Devices
<1>5. OneVault' /\ EmptyIsClean' /\ OwnerCanRead'
  BY <1>3, <1>4 DEF OneVault, EmptyIsClean, OwnerCanRead
<1> QED BY <1>1, <1>4, <1>5, DeviceChanges

\* What another Browser does takes the Device from this profile.
LEMMA OtherBrowserStep == ASSUME IndInv, OtherBrowser PROVE IndInv'
<1>1. /\ pc' = "closed" /\ request' = request /\ UNCHANGED <<store, journal, intent, crashes>>
      /\ disturbed' \in BOOLEAN /\ device \in Devices
  BY DEF OtherBrowser, browser, IndInv, Types
<1>2. device' \in Devices /\ OneVault' /\ EmptyIsClean' /\ ~device'.mine
  <2>1. CASE device.vaults # {} /\ device' = [device EXCEPT !.mine = FALSE]
    <3>1. device'.vaults = device.vaults /\ ~device'.mine /\ device' \in Devices
      BY <2>1, <1>1 DEF Devices
    <3> QED BY <3>1, <2>1 DEF IndInv, OneVault, EmptyIsClean
  <2>2. CASE /\ device.vaults # {} /\ ~device.mine /\ device.copy.generation < MaxGeneration
             /\ \E b \in Bodies : device' = [device EXCEPT
                   !.copy = [generation |-> device.copy.generation + 1, body |-> b]]
    <3>1. PICK b \in Bodies : device' = [device EXCEPT
             !.copy = [generation |-> device.copy.generation + 1, body |-> b]]
      BY <2>2
    <3>2. device.copy.generation + 1 \in Generations
      BY <2>2, <1>1, JournalAssumption DEF Devices, Copy, Generations
    <3>3. [generation |-> device.copy.generation + 1, body |-> b] \in Copy
      BY <3>2 DEF Copy
    <3>4. device'.vaults = device.vaults /\ device'.mine = device.mine /\ device' \in Devices
      BY <3>1, <3>3, <1>1 DEF Devices
    <3> QED BY <3>4, <2>2 DEF IndInv, OneVault, EmptyIsClean
  <2>3. CASE device' = Clean
    BY <2>3, CleanIs DEF OneVault, EmptyIsClean
  <2>4. CASE \E v \in VaultIds, g \in 1..MaxGeneration, b \in Bodies :
                device' = [vaults |-> {v}, copy |-> [generation |-> g, body |-> b],
                           mine |-> FALSE, damaged |-> FALSE]
    <3>1. PICK v \in VaultIds, g \in 1..MaxGeneration, b \in Bodies :
                device' = [vaults |-> {v}, copy |-> [generation |-> g, body |-> b],
                           mine |-> FALSE, damaged |-> FALSE]
      BY <2>4
    <3>2. [generation |-> g, body |-> b] \in Copy
      BY JournalAssumption DEF Copy, Generations
    <3> QED BY <3>1, <3>2 DEF Devices, OneVault, EmptyIsClean
  <2> QED BY <2>1, <2>2, <2>3, <2>4 DEF OtherBrowser
<1>3. OwnerCanRead'
  BY <1>2 DEF OwnerCanRead
<1> QED BY <1>1, <1>2, <1>3, DeviceChanges DEF IndInv, Types

-----------------------------------------------------------------------------
(* hello and reconciliation                                                *)

\* A step of the page that leaves the intent alone.
LEMMA PageOnly ==
    ASSUME IndInv, UNCHANGED <<browser, request, device, crashes, disturbed>>, PageFits',
           pc' \in {"ready", "intended"} => WriterIsCurrent'
    PROVE  IndInv'
  BY PageMoves DEF browser, IndInv, Types, IntentOK, Affected

\* A hello opens the page.
LEMMA HelloStep == ASSUME IndInv, Hello PROVE IndInv'
<1>1. PageFits' /\ pc' \notin {"ready", "intended"}
  BY DEF Hello, PageFits, Pages
<1> QED BY <1>1, PageOnly DEF Hello

\* An error closes the page.
LEMMA ThrowStep ==
    ASSUME IndInv, Throw, UNCHANGED <<request, device, crashes, disturbed>> PROVE IndInv'
<1>1. PageFits' /\ pc' \notin {"ready", "intended"}
  BY DEF Throw, PageFits, Pages, IndInv
<1> QED BY <1>1, PageOnly DEF Throw

\* Clearing the intent.
LEMMA NoIntent == (intent' = [v \in {} |-> 0]) => IntentOK'
  BY DEF IntentOK, Affected

\* The cleanup of a reset, for an erased Device.
LEMMA CleanupStep ==
    ASSUME IndInv, NEW next \in {"pending", "closed"}, Cleanup(next), device = Clean,
           pc \in {"intent", "cleanup"}, UNCHANGED <<request, device, crashes, disturbed>>
    PROVE  IndInv'
<1>1. ASSUME NEW v \in VaultIds, ForgetCopy(v) PROVE IndInv'
  BY <1>1, CleanIs, ForgetStep DEF ForgetCopy
<1>2. ASSUME NEW v \in VaultIds, ForgetEntry(v) PROVE IndInv'
  BY <1>2, CleanIs, DropStep DEF ForgetEntry
<1>3. CASE ForgetIntent(next)
  <2>1. request = NoRequest
    BY BusyIsQuiet DEF IndInv
  <2>2. PageFits'
    BY <1>3, <2>1, CleanIs DEF ForgetIntent, PageFits, Pages
  <2> QED BY <1>3, <2>2, NoIntent, PageMoves DEF ForgetIntent, IndInv, Types
<1> QED BY <1>1, <1>2, <1>3, ThrowStep DEF Cleanup

\* The intent is acted on, cleared, or left.
LEMMA ReconcileIntentStep == ASSUME IndInv, ReconcileIntent PROVE IndInv'
<1>1. /\ pc = "intent" /\ UNCHANGED <<request, device, crashes, disturbed>>
      /\ request = NoRequest /\ ~device.damaged
  BY BusyIsQuiet DEF ReconcileIntent, IndInv, PageFits
<1>2. CASE pc' = "pending" /\ UNCHANGED browser
  BY <1>1, <1>2, PageOnly DEF PageFits, Pages
<1>3. CASE device = Clean /\ Cleanup("pending")
  BY <1>1, <1>3, CleanupStep
<1>4. CASE intent' = [v \in {} |-> 0] /\ pc' = "pending" /\ UNCHANGED <<store, journal>>
  <2>1. PageFits'
    BY <1>1, <1>4 DEF PageFits, Pages
  <2> QED BY <1>1, <1>4, <2>1, NoIntent, PageMoves DEF IndInv, Types
<1>5. CASE Throw
  BY <1>1, <1>5, ThrowStep
<1> QED BY <1>2, <1>3, <1>4, <1>5 DEF ReconcileIntent

\* The entries of the profile, for an erased Device.
LEMMA ReconcileCleanStep ==
    ASSUME IndInv, ReconcileClean, pc = "pending", device.vaults = {},
           UNCHANGED <<request, device, crashes, disturbed>>
    PROVE  IndInv'
<1>1. ASSUME NEW v \in VaultIds, Drop(v) PROVE IndInv'
  BY <1>1, DropStep DEF Drop
<1>2. ASSUME NEW v \in VaultIds, store' = [store EXCEPT ![v] = NoCopy],
             UNCHANGED <<journal, intent, pc>>
      PROVE  IndInv'
  BY <1>2, ForgetStep
<1>3. CASE pc' = "ready" /\ UNCHANGED browser
  <2>1. PageFits' /\ WriterIsCurrent'
    BY <1>3, BusyIsQuiet DEF IndInv, PageFits, Pages, WriterIsCurrent
  <2> QED BY <1>3, <2>1, PageOnly
<1> QED BY <1>1, <1>2, <1>3, ThrowStep DEF ReconcileClean

\* The entry of the Vault on the Device is dropped only when the store has what
\* the Device holds, and promoted only when the entry does.
LEMMA SettleStep ==
    ASSUME IndInv, NEW v \in device.vaults, Settle(v), Pending(v), pc = "pending",
           UNCHANGED <<request, device, crashes, disturbed>>
    PROVE  IndInv'
<1> DEFINE entry == journal[v]
<1>1. /\ v \in VaultIds /\ device.vaults = {v} /\ ~device.damaged
      /\ store[v] \in Copy /\ entry \in Transactions /\ device.copy \in Copy
  BY DEF IndInv, Types, Devices, OneVault, PageFits
<1>2. /\ store[v].generation \in Nat /\ device.copy.generation \in Nat
      /\ entry.candidate.generation \in Nat /\ entry.expected \in Nat
  BY <1>1, JournalAssumption DEF Copy, Transactions, Generations
<1>3. EntryOK(v) /\ entry.kind \in Kinds
  BY <1>1 DEF IndInv, Entries, EntryOK, Pending, Transactions, Kinds
<1>4. device.mine => device.copy \in {store[v], entry.candidate}
  BY <1>1 DEF IndInv, OwnerCanRead
<1>5. CASE Throw
  BY <1>5, ThrowStep
<1>6. CASE Drop(v) /\ device.copy = store[v]
  BY <1>1, <1>6, DropStep DEF Drop
<1>7. CASE /\ store' = [store EXCEPT ![v] = entry.candidate]
           /\ UNCHANGED <<journal, intent, pc>> /\ device.copy = entry.candidate
           /\ entry.kind # "factory-reset"
  <2>1. store'[v] = entry.candidate /\ \A w \in VaultIds : w # v => store'[w] = store[w]
    BY <1>1, <1>7 DEF IndInv, Types
  <2>2. Types'
    BY <1>1, <1>7 DEF IndInv, Types, Transactions
  <2>3. Entries'
    BY <1>3, <1>7, <2>1 DEF IndInv, Entries, EntryOK
  <2>4. InFlightIsStaged' /\ PageFits' /\ IntentOK'
    BY <1>7 DEF IndInv, InFlightIsStaged, PageFits, IntentOK, Affected
  <2>5. OwnerCanRead'
    BY <1>1, <1>7, <2>1 DEF OwnerCanRead
  <2> QED BY <1>7, <2>2, <2>3, <2>4, <2>5 DEF IndInv, OneVault, EmptyIsClean, WriterIsCurrent
<1>8. CASE entry.kind = "factory-reset"
  <2>1. CASE BindingMatches(v, entry.candidate) /\ BindingMatches(v, store[v]) /\ Drop(v)
    <3>1. store[v] = entry.candidate
      BY <1>3, <1>8, <2>1, <1>2, Nothing DEF EntryOK, BindingMatches
    <3> QED BY <3>1, <2>1, <1>4, <1>6 DEF BindingMatches
  <2> QED BY <1>5, <1>8, <2>1 DEF Settle
<1>9. CASE entry.kind # "factory-reset" /\ BindingMatches(v, entry.candidate)
  <2>1. entry.candidate.generation = entry.expected + 1
        /\ (store[v] \in {entry.candidate, NoCopy} \/ store[v].generation = entry.expected)
    BY <1>3, <1>9 DEF EntryOK, Kinds
  <2>2. device.copy.generation = entry.candidate.generation /\ device.mine
    BY <1>9 DEF BindingMatches
  <2>3. CASE store[v].generation = entry.candidate.generation /\ Drop(v)
    <3>1. store[v] = entry.candidate
      BY <2>1, <2>3, <1>2, Nothing
    <3> QED BY <3>1, <2>2, <2>3, <1>4, <1>6
  <2>4. CASE Promote(v)
    <3>1. store[v].generation # entry.candidate.generation
      BY <2>1, <2>4, <1>2 DEF Promote
    <3> QED BY <3>1, <2>2, <2>4, <1>4, <1>7, <1>9 DEF Promote
  <2> QED BY <1>5, <1>9, <2>3, <2>4 DEF Settle
<1>10. CASE entry.kind # "factory-reset" /\ ~BindingMatches(v, entry.candidate)
  <2>1. CASE /\ Drop(v) /\ device.copy.generation = entry.expected /\ BindingMatches(v, store[v])
    <3>1. entry.candidate.generation = entry.expected + 1
      BY <1>3, <1>10 DEF EntryOK, Kinds
    <3> QED BY <3>1, <2>1, <1>2, <1>4, <1>6 DEF BindingMatches
  <2> QED BY <1>5, <1>10, <2>1 DEF Settle
<1> QED BY <1>8, <1>9, <1>10

\* The page is ready when the Device holds what the store has.
LEMMA ReconcilePendingStep == ASSUME IndInv, ReconcilePending PROVE IndInv'
<1>1. pc = "pending" /\ UNCHANGED <<request, device, crashes, disturbed>>
  BY DEF ReconcilePending
<1>2. CASE device.vaults = {}
  BY <1>1, <1>2, ReconcileCleanStep DEF ReconcilePending
<1>3. ASSUME NEW v \in device.vaults, Pending(v), Settle(v) PROVE IndInv'
  BY <1>1, <1>3, SettleStep
<1>4. ASSUME NEW v \in device.vaults, ~Pending(v), UNCHANGED browser,
             pc' = IF BindingMatches(v, store[v]) THEN "ready" ELSE "closed"
      PROVE  IndInv'
  <2>1. PageFits'
    BY <1>1, <1>4, BusyIsQuiet DEF IndInv, PageFits, Pages
  <2>2. ASSUME BindingMatches(v, store[v]) PROVE device.copy = store[v] /\ device.vaults = {v}
    <3>1. device.copy \in {store[v], NoCopy}
      BY <1>1, <1>4, <2>2, Nothing DEF IndInv, PageFits, OwnerCanRead, BindingMatches, Pending
    <3>2. device.copy # NoCopy
      BY <2>2, Nothing DEF BindingMatches
    <3> QED BY <3>1, <3>2 DEF IndInv, OneVault
  <2>3. pc' = "ready" => WriterIsCurrent'
    BY <1>1, <1>4, <2>2 DEF WriterIsCurrent, Pending, browser
  <2> QED BY <1>1, <1>4, <2>1, <2>3, PageOnly
<1> QED BY <1>2, <1>3, <1>4 DEF ReconcilePending

-----------------------------------------------------------------------------
(* The operations                                                          *)

\* The setup of a clean Device is staged.
LEMMA StageSetupStep ==
    ASSUME IndInv, NEW v \in VaultIds, NEW b \in Bodies, StageSetup(v, b) PROVE IndInv'
<1> DEFINE entry == Entry("initial-provisioning", 0, [generation |-> 1, body |-> b])
<1>1. [generation |-> 1, body |-> b] \in Copy
  BY JournalAssumption DEF Copy, Generations
<1>2. /\ entry \in Transactions /\ entry.kind = "initial-provisioning" /\ entry.expected = 0
      /\ entry.candidate.generation = 1
  BY <1>1, JournalAssumption DEF Entry, Transactions, Kinds, Generations
<1>3. pc = "ready" /\ store[v].generation = 0 /\ Stage(v, entry, "staged")
  BY Nothing DEF StageSetup
<1> HIDE DEF entry
<1> QED BY <1>2, <1>3, StageStep

\* A change of the Vault on the Device is staged.
LEMMA StageChangeStep ==
    ASSUME IndInv, NEW v \in VaultIds, NEW kind \in {"vault-update", "vmk-rekey"},
           NEW b \in Bodies, StageChange(v, kind, b)
    PROVE  IndInv'
<1> DEFINE g == store[v].generation
           entry == Entry(kind, g, [generation |-> g + 1, body |-> b])
<1>1. g \in Generations /\ g + 1 \in Generations
  BY JournalAssumption DEF StageChange, IndInv, Types, Copy, Generations
<1>2. [generation |-> g + 1, body |-> b] \in Copy
  BY <1>1 DEF Copy
<1>3. /\ entry \in Transactions /\ entry.kind = kind /\ entry.expected = g
      /\ entry.candidate.generation = g + 1
  BY <1>1, <1>2 DEF Entry, Transactions, Kinds
<1>4. pc = "ready" /\ Stage(v, entry, "staged")
  BY DEF StageChange
<1> HIDE DEF entry
<1> QED BY <1>3, <1>4, StageStep

\* The intent of a reset, for the Vault on the Device.
LEMMA StageIntentStep ==
    ASSUME IndInv, NEW v \in VaultIds, StageIntent(v) PROVE IndInv'
<1>1. /\ pc = "ready" /\ pc' = "intended" /\ intent' = [w \in {v} |-> store[v].generation]
      /\ UNCHANGED <<store, journal, request, device, crashes, disturbed>>
  BY DEF StageIntent
<1>2. store[v].generation \in Generations
  BY DEF IndInv, Types, Copy
<1>3. IntentOK'
  BY <1>1, <1>2 DEF IntentOK, Affected
<1>4. PageFits'
  BY <1>1, BusyIsQuiet DEF IndInv, PageFits, Pages
<1> QED BY <1>1, <1>3, <1>4, PageMoves DEF IndInv, Types

\* The entry of a reset holds the copy it gives up.
LEMMA StageResetStep ==
    ASSUME IndInv, NEW v \in VaultIds, StageReset(v) PROVE IndInv'
<1> DEFINE entry == Entry("factory-reset", store[v].generation, store[v])
<1>1. store[v] \in Copy /\ store[v].generation \in Generations
  BY DEF IndInv, Types, Copy
<1>2. entry \in Transactions /\ entry.kind = "factory-reset" /\ entry.candidate = store[v]
  BY <1>1 DEF Entry, Transactions, Kinds
<1>3. pc = "intended" /\ Stage(v, entry, "staged")
  BY DEF StageReset
<1> HIDE DEF entry
<1> QED BY <1>2, <1>3, StageStep

\* A request carries what was staged.
LEMMA SendStep ==
    ASSUME IndInv, NEW v \in VaultIds, Send(v) PROVE IndInv'
<1>1. /\ pc = "staged" /\ pc' = "sent"
      /\ UNCHANGED <<store, journal, intent, device, crashes, disturbed>>
  BY DEF Send, browser
<1>2. /\ journal[v] \in Transactions /\ journal[v].candidate \in Copy
      /\ journal[v].expected \in Generations
  BY DEF IndInv, Types, Transactions
<1>3. request' \in Requests /\ InFlightIsStaged'
  <2>1. CASE journal[v].kind = "factory-reset"
    <3>1. request' = [op |-> "commit_reset"]
      BY <2>1 DEF Send
    <3> QED BY <3>1 DEF Requests, InFlightIsStaged
  <2>2. CASE journal[v].kind # "factory-reset"
    <3>1. PICK op \in {"install", "update", "rekey"} :
            request' = [op |-> op, vault |-> v, expected |-> journal[v].expected,
                        copy |-> journal[v].candidate]
      BY <2>2 DEF Send
    <3> QED BY <3>1, <1>1, <1>2 DEF Requests, InFlightIsStaged
  <2> QED BY <2>1, <2>2
<1>4. ~device.damaged
  BY <1>1 DEF IndInv, PageFits
<1>5. Types' /\ IntentOK' /\ PageFits'
  BY <1>1, <1>3, <1>4 DEF IndInv, Types, IntentOK, Affected, PageFits, Pages
<1>6. Entries' /\ OwnerCanRead' /\ WriterIsCurrent'
  BY <1>1 DEF IndInv, Entries, EntryOK, OwnerCanRead, WriterIsCurrent
<1> QED BY <1>1, <1>3, <1>5, <1>6 DEF IndInv, OneVault, EmptyIsClean

\* The recovery page: the intent names Vaults of the profile or of the Device.
LEMMA StageRecoveryStep == ASSUME IndInv, StageRecovery PROVE IndInv'
<1>1. /\ pc = "recovery" /\ pc' = "recovery_staged"
      /\ UNCHANGED <<store, journal, request, device, crashes, disturbed>>
  BY DEF StageRecovery
<1>2. PageFits'
  BY <1>1, BusyIsQuiet DEF IndInv, PageFits, Pages
<1>3. IntentOK'
  <2>1. CASE intent' = intent
    BY <2>1 DEF IndInv, IntentOK, Affected
  <2>2. CASE intent' = BuildResetIntent
    <3>1. device.vaults \subseteq VaultIds /\ device.copy.generation \in Generations
      BY DEF IndInv, Types, Devices, Copy
    <3>2. \A v \in VaultIds : /\ journal[v].candidate.generation \in Generations
                              /\ store[v].generation \in Generations
      BY DEF IndInv, Types, Transactions, Copy
    <3> QED BY <2>2, <3>1, <3>2 DEF BuildResetIntent, IntentOK, Affected
  <2> QED BY <2>1, <2>2 DEF StageRecovery
<1> QED BY <1>1, <1>2, <1>3, PageMoves DEF IndInv, Types

\* The recovery request.
LEMMA SendRecoveryStep == ASSUME IndInv, SendRecovery PROVE IndInv'
<1>1. /\ pc = "recovery_staged" /\ pc' = "recovery_sent"
      /\ request' = [op |-> "recovery_complete"]
      /\ UNCHANGED <<store, journal, intent, device, crashes, disturbed>>
  BY DEF SendRecovery, browser
<1>2. request' \in Requests /\ InFlightIsStaged'
  BY <1>1 DEF Requests, InFlightIsStaged
<1>3. Types' /\ IntentOK' /\ PageFits'
  BY <1>1, <1>2 DEF IndInv, Types, IntentOK, Affected, PageFits, Pages
<1>4. Entries' /\ OwnerCanRead' /\ WriterIsCurrent'
  BY <1>1 DEF IndInv, Entries, EntryOK, OwnerCanRead, WriterIsCurrent
<1> QED BY <1>1, <1>2, <1>3, <1>4 DEF IndInv, OneVault, EmptyIsClean

\* The recovery page cleans up only when the next hello shows an erased Device.
LEMMA FinishRecoveryStep == ASSUME IndInv, FinishRecovery PROVE IndInv'
<1>1. PageFits' /\ pc' \notin {"ready", "intended"}
  BY CleanIs DEF FinishRecovery, PageFits, Pages
<1> QED BY <1>1, PageOnly DEF FinishRecovery

\* The cleanup of the recovery page.
LEMMA CleanupRecoveryStep == ASSUME IndInv, CleanupRecovery PROVE IndInv'
<1>1. device = Clean
  BY DEF IndInv, PageFits, CleanupRecovery
<1> QED BY <1>1, CleanupStep DEF CleanupRecovery

-----------------------------------------------------------------------------
(* The theorems                                                            *)

\* A new profile and a clean Device satisfy the invariant.
LEMMA InitInd == Init => IndInv
<1> SUFFICES ASSUME Init PROVE IndInv
  OBVIOUS
<1>1. Types
  <2>1. store \in [VaultIds -> Copy] /\ journal \in [VaultIds -> Transactions]
    BY Nothing DEF Init
  <2>2. request \in Requests /\ device \in Devices
    BY Nothing, CleanIs DEF Init
  <2>3. crashes \in 0..MaxCrashes
    BY JournalAssumption DEF Init
  <2>4. disturbed \in BOOLEAN
    BY DEF Init
  <2> QED BY <2>1, <2>2, <2>3, <2>4 DEF Types
<1>2. IntentOK /\ OneVault /\ EmptyIsClean /\ OwnerCanRead /\ WriterIsCurrent
  BY CleanIs DEF Init, IntentOK, Affected, OneVault, EmptyIsClean, OwnerCanRead, WriterIsCurrent
<1>3. PageFits /\ Entries /\ InFlightIsStaged
  BY Nothing, CleanIs DEF Init, PageFits, Pages, Entries, EntryOK, InFlightIsStaged
<1> QED BY <1>1, <1>2, <1>3 DEF IndInv

\* Every step of the page, the Device and the world keeps it.
LEMMA NextInd == IndInv /\ [Next]_vars => IndInv'
<1> SUFFICES ASSUME IndInv, [Next]_vars PROVE IndInv'
  OBVIOUS
<1>1. CASE Execute \/ Lose \/ Crash \/ Damage \/ OtherBrowser
  BY <1>1, ExecuteStep, LoseStep, CrashStep, DamageStep, OtherBrowserStep
<1>2. CASE Hello \/ ReconcileIntent \/ ReconcilePending
  BY <1>2, HelloStep, ReconcileIntentStep, ReconcilePendingStep
<1>3. CASE Operation
  BY <1>3, StageSetupStep, StageChangeStep, StageIntentStep DEF Operation
<1>4. CASE Continue
  BY <1>4, StageResetStep, SendStep, StageRecoveryStep, SendRecoveryStep, FinishRecoveryStep,
     CleanupRecoveryStep DEF Continue
<1>5. CASE UNCHANGED vars
  BY <1>5, PageMoves
     DEF vars, IndInv, Types, IntentOK, Affected, PageFits, WriterIsCurrent
<1> QED BY <1>1, <1>2, <1>3, <1>4, <1>5 DEF Next

\* The invariant of the Browser's copy, its journal and the Device.
THEOREM JournalInvariant == Spec => []IndInv
  BY InitInd, NextInd, PTL DEF Spec

\* Wherever the page is closed between two awaits of canonical-management.ts,
\* the profile has the copy that the Device it owns holds: in the store, or in
\* the journal that reconcilePendingForHello promotes.
THEOREM JournalOwnerCanRead == Spec => []OwnerCanRead
<1>1. IndInv => OwnerCanRead
  BY DEF IndInv
<1> QED BY <1>1, JournalInvariant, PTL

\* After reconcilePendingForHello the page edits the Device's own contents, not
\* others of the same generation.
THEOREM JournalWriterIsCurrent == Spec => []WriterIsCurrent
<1>1. IndInv => WriterIsCurrent
  BY DEF IndInv
<1> QED BY <1>1, JournalInvariant, PTL

\* The types, and that a Device holds one Vault at most.
THEOREM JournalTypes == Spec => []TypeOK
<1>1. IndInv => TypeOK
  <2> SUFFICES ASSUME IndInv PROVE TypeOK
    OBVIOUS
  <2>1. Cardinality(device.vaults) <= 1
    <3>1. CASE device.vaults = {}
      <4>1. Cardinality(device.vaults) = 0
        BY <3>1, FS_EmptySet
      <4> QED BY <4>1
    <3>2. CASE \E v \in VaultIds : device.vaults = {v}
      <4>1. Cardinality(device.vaults) = 1
        BY <3>2, FS_Singleton
      <4> QED BY <4>1
    <3> QED BY <3>1, <3>2 DEF IndInv, OneVault
  <2> QED BY <2>1 DEF IndInv, Types, IntentOK, PageFits, Pages, TypeOK
<1> QED BY <1>1, JournalInvariant, PTL

\* Only these steps write the store.
LEMMA StoreWriters ==
    ASSUME [Next]_vars, store' # store
    PROVE  ReconcileIntent \/ ReconcilePending \/ CleanupRecovery
<1>1. Execute \/ Lose \/ Hello \/ Crash \/ Damage \/ OtherBrowser => store' = store
  BY DEF Execute, Lose, Done, Hello, Crash, Damage, OtherBrowser, browser
<1>2. Operation => store' = store
  BY DEF Operation, StageSetup, StageChange, StageIntent, Stage
<1>3. Continue => store' = store \/ CleanupRecovery
  BY DEF Continue, StageReset, Stage, Send, StageRecovery, SendRecovery, FinishRecovery, browser
<1>4. UNCHANGED vars => store' = store
  BY DEF vars
<1> QED BY <1>1, <1>2, <1>3, <1>4 DEF Next

\* A cleanup, for an erased Device, is the only way a copy is given up: a copy
\* that is promoted is replaced by one that exists.
LEMMA GivesUpErased ==
    ASSUME IndInv, [Next]_vars, NEW v \in VaultIds, store[v] # NoCopy, store'[v] = NoCopy
    PROVE  device = Clean
<1>1. ReconcileIntent \/ ReconcilePending \/ CleanupRecovery
  BY StoreWriters
<1>2. CASE CleanupRecovery
  BY <1>2 DEF CleanupRecovery, IndInv, PageFits
<1>3. CASE ReconcileIntent
  BY <1>3 DEF ReconcileIntent, browser, Throw
<1>4. CASE ReconcilePending /\ device.vaults = {}
  BY <1>4, ErasedIsClean DEF ReconcilePending, IndInv, Types, PageFits
<1>5. CASE ReconcilePending /\ device.vaults # {}
  <2>1. PICK w \in device.vaults : Pending(w) /\ Settle(w)
    BY <1>5 DEF ReconcilePending, browser
  <2>2. Promote(w) /\ journal[w].kind # "factory-reset"
    BY <2>1 DEF Settle, Drop, Throw, browser
  <2>3. w \in VaultIds
    BY DEF IndInv, Types, Devices
  <2>4. store' = [store EXCEPT ![w] = journal[w].candidate] /\ store \in [VaultIds -> Copy]
    BY <2>2 DEF Promote, IndInv, Types
  <2>5. journal[w].candidate = NoCopy
    BY <2>3, <2>4
  <2>6. journal[w] \in Transactions /\ EntryOK(w)
    BY <2>3 DEF IndInv, Types, Entries
  <2>7. journal[w].candidate.generation = journal[w].expected + 1
    BY <2>1, <2>2, <2>6 DEF EntryOK, Pending, Transactions, Kinds
  <2>8. journal[w].expected \in Nat
    BY <2>6, JournalAssumption DEF Transactions, Generations
  <2> QED BY <2>5, <2>7, <2>8, Nothing
<1> QED BY <1>1, <1>2, <1>3, <1>4, <1>5

\* reconcileResetIntentForHello, reconcilePendingForHello and
\* cleanupFromResetIntent remove a canonical copy only when the Device has been
\* seen erased.
THEOREM JournalCopiesOutlive == Spec => CopiesOutliveTheDevice
<1>1. IndInv /\ [Next]_vars =>
        [\A v \in VaultIds : store[v] # NoCopy /\ store'[v] = NoCopy => device = Clean]_vars
  BY GivesUpErased
<1> QED BY <1>1, JournalInvariant, PTL DEF Spec, CopiesOutliveTheDevice

=============================================================================
