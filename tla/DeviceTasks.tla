------------------------------ MODULE DeviceTasks ------------------------------
(***************************************************************************)
(* The three tasks of the firmware and the mutexes between them: the       *)
(* protocol task (app_main), the UI task (CanonicalUiController::run) and  *)
(* the resynchronisation task of the time service.                         *)
(*                                                                         *)
(*   sync     TimeService::sync_mutex_                                     *)
(*   view     CanonicalUiController::view_mutex_                           *)
(*   runtime  runtime_access_mutex, recursive; every section it protects   *)
(*            takes neither of the other two                               *)
(*                                                                         *)
(* The mutexes inside TrustedClock and CanonicalPresence protect single    *)
(* reads and writes and are not modelled.  Clocks and presence requests are  *)
(* abstract here (see RevealUi): at any look a deadline may have passed, a *)
(* period rolled over, or a request be active, which suppresses gestures   *)
(* and the refresh and has a screen that shows nothing of the Vault.       *)
(***************************************************************************)
EXTENDS Integers

CONSTANT Free \* a mutex nobody holds

Tasks == {"protocol", "ui", "resync"}
Mutexes == {"sync", "view", "runtime"}

ASSUME FreeAssumption == Free \notin Tasks

VARIABLES
    held,       \* the holder of each mutex
    state,      \* Runtime::state_; blank stands for both unprovisioned states
    ready,      \* is the time READY?
    credentials, network, \* Wi-Fi settings copied out of the Vault; the driver
    \* the protocol task
    p, request,
    \* the UI task
    u, purpose, retried, unlocked_seen, dirty,
    visible, reveal, ui_error, \* vault_visible_, reveal_active_, storage_error_
    lcd,        \* what the display shows
    \* the resynchronisation task
    r,
    \* history
    late_anchor \* an anchor was set while the Device was locked

device == <<state, ready, late_anchor>>
wifi == <<credentials, network>>
protocol == <<p, request>>
ui == <<u, purpose, retried, unlocked_seen, dirty>>
display == <<visible, reveal, ui_error, lcd>>
vars == <<held, state, ready, late_anchor, credentials, network, p, request,
          u, purpose, retried, unlocked_seen, dirty,
          visible, reveal, ui_error, lcd, r>>

\* The requests that destroy a key, as they call with_secret_boundary
Boundaries == {"lock", "reset", "rekey", "replace"}

TypeOK ==
    /\ held \in [Mutexes -> Tasks \cup {Free}]
    /\ state \in {"blank", "locked", "unlocked", "error"}
    /\ ready \in BOOLEAN /\ late_anchor \in BOOLEAN
    /\ credentials \in BOOLEAN /\ network \in BOOLEAN
    /\ retried \in BOOLEAN /\ unlocked_seen \in BOOLEAN /\ dirty \in BOOLEAN
    /\ visible \in BOOLEAN /\ reveal \in BOOLEAN /\ ui_error \in BOOLEAN
    /\ p \in {"idle", "boundary", "secret", "work", "notify", "clear", "clear_work",
              "usb_secret", "usb_work", "handle_work"}
    /\ request \in Boundaries \cup {"none"}
    /\ u \in {"sleep", "wake", "look", "look_work", "generate", "generate_work", "gesture",
              "persist", "persist_work", "refresh", "refresh_work", "render"}
    /\ purpose \in {"none", "rollover", "hold"}
    /\ lcd \in {"plain", "labels", "otp"}
    /\ r \in {"sleep", "due", "sync", "copy", "connect", "sample"}

\* boot_sync() has returned `locked' before the tasks start.
Init ==
    /\ held = [m \in Mutexes |-> Free]
    /\ state \in {"blank", "locked", "error"}
    /\ ready = FALSE /\ late_anchor = FALSE
    /\ credentials = FALSE /\ network = FALSE
    /\ p = "idle" /\ request = "none"
    /\ u = "sleep" /\ purpose = "none" /\ retried = FALSE
    /\ unlocked_seen = FALSE /\ dirty = FALSE
    /\ visible = FALSE /\ reveal = FALSE /\ ui_error = FALSE /\ lcd = "plain"
    /\ r = "sleep"

-----------------------------------------------------------------------------
(* Mutexes                                                                 *)

\* The Runtime's mutex is recursive.
Acquire(m, t) ==
    /\ held[m] = Free \/ (m = "runtime" /\ held[m] = t)
    /\ held' = [held EXCEPT ![m] = t]
Release(ms, t) ==
    held' = [m \in Mutexes |-> IF m \in ms /\ held[m] = t THEN Free ELSE held[m]]

-----------------------------------------------------------------------------
(* The view, changed only by the holder of the view mutex                  *)

\* clear_private_view and hide_reveal
ClearPrivateView == visible' = FALSE /\ reveal' = FALSE
HideReveal == reveal' = FALSE /\ UNCHANGED visible

\* What render() may draw of a view; "plain" also stands for a request's screen.
Screens(vis, rev, err, rdy) ==
    {"plain"} \cup IF err \/ ~vis THEN {} ELSE {IF rev /\ rdy THEN "otp" ELSE "labels"}

-----------------------------------------------------------------------------
(* The protocol task                                                       *)

\* A request that destroys the resident key; session, pending key and resets
\* were cancelled first (see DeviceOwnership).
BeginBoundary(k) ==
    /\ p = "idle" /\ p' = "boundary" /\ request' = k
    /\ UNCHANGED <<held, device, wifi, ui, display, r>>

\* Mutant: a boundary does not wait for the time service.
EnterBoundaryAlone ==
    /\ p = "boundary" /\ p' = "secret"
    /\ network' = FALSE
    /\ UNCHANGED <<held, device, credentials, request, ui, display, r>>

\* with_secret_boundary: sync_mutex_, then the driver is torn down.
EnterBoundary ==
    /\ p = "boundary" /\ p' = "secret"
    /\ Acquire("sync", "protocol")
    /\ network' = FALSE
    /\ UNCHANGED <<device, credentials, request, ui, display, r>>

BoundaryRuntime ==
    /\ p = "secret" /\ p' = "work"
    /\ Acquire("runtime", "protocol")
    /\ UNCHANGED <<device, wifi, request, ui, display, r>>

\* The Runtime's part of a boundary: the new states it can lead to.
BoundaryOutcomes(k) ==
    CASE k = "lock" -> {IF state \in {"blank", "error"} THEN state ELSE "locked"}
      [] k = "reset" -> {"blank", "error", state}
      [] k = "rekey" -> {IF state = "unlocked" THEN "locked" ELSE state}
      [] k = "replace" -> {IF state \in {"locked", "unlocked"} THEN "locked" ELSE state}

\* Is the UI told?  A lock of a Device in error and a reset that failed are not
\* passed on; the sessions always are.
Notifies(k, ok) == k \in {"rekey", "replace"} \/ ok

\* Mutant: the UI is told outside with_secret_boundary, under the Runtime's mutex.
BoundaryWorkUnderRuntime ==
    /\ p = "work"
    /\ \E s \in BoundaryOutcomes(request), ok \in BOOLEAN :
          /\ request = "lock" => ok = (s # "error")
          /\ request = "reset" /\ ok => s = "blank"
          /\ request = "reset" /\ s = state => ~ok
          /\ state' = s /\ request' = "none"
          /\ IF Notifies(request, ok)
             THEN p' = "notify" /\ Release({"sync"}, "protocol")
             ELSE p' = "idle" /\ Release({"runtime", "sync"}, "protocol")
    /\ UNCHANGED <<ready, late_anchor, wifi, ui, display, r>>

\* Runtime::lock, factory_reset with clear_registration, or prepare_attempt
BoundaryWork ==
    /\ p = "work"
    /\ \E s \in BoundaryOutcomes(request), ok \in BOOLEAN :
          /\ request = "lock" => ok = (s # "error")
          /\ request = "reset" /\ ok => s = "blank"
          /\ request = "reset" /\ s = state => ~ok
          /\ state' = s /\ request' = "none"
          /\ IF Notifies(request, ok)
             THEN p' = "notify" /\ Release({"runtime"}, "protocol")
             ELSE p' = "idle" /\ Release({"runtime", "sync"}, "protocol")
    /\ UNCHANGED <<ready, late_anchor, wifi, ui, display, r>>

\* security_boundary_clear: the view, then the Runtime for its state
Notify ==
    /\ p = "notify" /\ p' = "clear"
    /\ Acquire("view", "protocol")
    /\ UNCHANGED <<device, wifi, request, ui, display, r>>

ClearRuntime ==
    /\ p = "clear" /\ p' = "clear_work"
    /\ Acquire("runtime", "protocol")
    /\ UNCHANGED <<device, wifi, request, ui, display, r>>

\* Mutant: the caches are emptied but the picture stays.
ClearWithoutRender ==
    /\ p = "clear_work" /\ p' = "idle"
    /\ Release({"runtime", "view", "sync"}, "protocol")
    /\ ClearPrivateView /\ ui_error' = (state = "error")
    /\ UNCHANGED <<device, wifi, request, ui, r, lcd>>

ClearWork ==
    /\ p = "clear_work" /\ p' = "idle"
    /\ Release({"runtime", "view", "sync"}, "protocol")
    /\ ClearPrivateView /\ ui_error' = (state = "error")
    /\ lcd' \in Screens(FALSE, FALSE, state = "error", ready)
    /\ UNCHANGED <<device, wifi, request, ui, r>>

\* time.sync
UsbSync ==
    \/ /\ p = "idle" /\ p' = "usb_secret" /\ Acquire("sync", "protocol")
       /\ UNCHANGED <<device, wifi, request, ui, display, r>>
    \/ /\ p = "usb_secret" /\ p' = "usb_work" /\ Acquire("runtime", "protocol")
       /\ UNCHANGED <<device, wifi, request, ui, display, r>>
    \/ /\ p = "usb_work" /\ p' = "idle" /\ Release({"runtime", "sync"}, "protocol")
       /\ ready' = (ready \/ state = "unlocked")
       /\ UNCHANGED <<state, late_anchor, wifi, request, ui, display, r>>

\* A request that only takes the Runtime: it may open the Vault
\* (session.complete, vault.install, vault.rekey), or find it unreadable
\* (vault.update), or change nothing that matters here.
HandleRequest ==
    \/ /\ p = "idle" /\ p' = "handle_work" /\ Acquire("runtime", "protocol")
       /\ UNCHANGED <<device, wifi, request, ui, display, r>>
    \/ /\ p = "handle_work" /\ p' = "idle" /\ Release({"runtime"}, "protocol")
       /\ \/ state' = state
          \/ state \in {"locked", "blank"} /\ state' = "unlocked"
          \/ state = "unlocked" /\ state' = "error"
       /\ UNCHANGED <<ready, late_anchor, wifi, request, ui, display, r>>

-----------------------------------------------------------------------------
(* The UI task: one iteration under view_mutex_                            *)

UiWakes ==
    /\ u = "sleep" /\ u' = "wake"
    /\ dirty' \in BOOLEAN \* the presence view or the readiness has changed
    /\ UNCHANGED <<held, device, wifi, protocol, purpose, retried, unlocked_seen, display, r>>

UiAcquires(from, to, m) ==
    /\ u = from /\ u' = to /\ Acquire(m, "ui")
    /\ UNCHANGED <<device, wifi, protocol, purpose, retried, unlocked_seen,
                   dirty, display, r>>

\* Mutant: only the locked state is looked for.
ClearsIn(s) == s = "locked"

\* A view in any other state than UNLOCKED is cleared.
Clears(s) == s # "unlocked"

\* The state is read under the Runtime's mutex and used after its release.
UiLook ==
    /\ u = "look_work" /\ Release({"runtime"}, "ui")
    /\ unlocked_seen' = (state = "unlocked")
    /\ \/ /\ Clears(state) /\ visible
          /\ ClearPrivateView /\ dirty' = TRUE
          /\ u' = "gesture" /\ UNCHANGED purpose
       \/ /\ ~(Clears(state) /\ visible) /\ reveal \* over, or no longer allowed
          /\ HideReveal /\ dirty' = TRUE
          /\ u' = "gesture" /\ UNCHANGED purpose
       \/ /\ ~(Clears(state) /\ visible) /\ reveal /\ ready /\ ~Clears(state)
          /\ u' \in {"gesture", "generate"} \* the period rolls over
          /\ purpose' = IF u' = "generate" THEN "rollover" ELSE "none"
          /\ UNCHANGED <<visible, reveal, dirty>>
       \/ /\ ~(Clears(state) /\ visible) /\ ~reveal
          /\ u' = "gesture" /\ UNCHANGED <<visible, reveal, dirty, purpose>>
    /\ UNCHANGED <<device, wifi, protocol, retried, ui_error, lcd, r>>

AfterGenerate == IF purpose = "rollover" THEN "gesture" ELSE "refresh"

\* refresh_revealed_totp: generate_for_credential under the Runtime's mutex,
\* then the comparison of periods; a code of the period before is tried once
\* more.  An unreadable Vault is a fatal error.
UiGenerate ==
    /\ u = "generate_work" /\ Release({"runtime"}, "ui")
    /\ \/ /\ state = "unlocked" /\ ready \* a code of the current period
          /\ reveal' = TRUE /\ u' = AfterGenerate /\ purpose' = "none" /\ retried' = FALSE
          /\ UNCHANGED <<state, dirty>>
       \/ /\ state = "unlocked" /\ ready /\ ~retried
          /\ retried' = TRUE /\ u' = "generate"
          /\ UNCHANGED <<state, reveal, dirty, purpose>>
       \/ /\ reveal' = FALSE /\ dirty' = TRUE /\ u' = AfterGenerate
          /\ purpose' = "none" /\ retried' = FALSE
          /\ state' \in IF state = "unlocked" THEN {"unlocked", "error"} ELSE {state}
    /\ UNCHANGED <<ready, late_anchor, wifi, protocol, 
                   unlocked_seen, visible, ui_error, lcd, r>>

\* Button gestures
UiGesture ==
    /\ u = "gesture"
    /\ \/ /\ u' = "refresh"
          /\ UNCHANGED <<purpose, retried, dirty, visible, reveal>>
       \/ /\ HideReveal /\ dirty' = TRUE
          /\ \/ u' = "refresh" /\ UNCHANGED <<purpose, retried>>
             \/ /\ visible /\ u' = "generate" /\ purpose' = "hold" /\ retried' = FALSE
             \/ /\ visible /\ u' = "persist" /\ UNCHANGED <<purpose, retried>>
    /\ UNCHANGED <<held, device, wifi, protocol, unlocked_seen, ui_error, lcd, r>>

\* persist_selection: Runtime::set_last_used opens the Vault as well.
UiPersist ==
    /\ u = "persist_work" /\ u' = "refresh" /\ Release({"runtime"}, "ui")
    /\ \/ state = "unlocked" /\ ui_error' = FALSE /\ UNCHANGED state
       \/ /\ ui_error' = TRUE
          /\ state' \in IF state = "unlocked" THEN {"unlocked", "error"} ELSE {state}
    /\ UNCHANGED <<ready, late_anchor, wifi, protocol, purpose, retried, 
                   unlocked_seen, dirty, visible, reveal, lcd, r>>

\* Not due, or not with a request or a locked Device.
UiSkipsRefresh ==
    /\ u = "refresh" /\ u' = "render"
    /\ UNCHANGED <<held, device, wifi, protocol, purpose, retried, 
                   unlocked_seen, dirty, display, r>>

UiBeginsRefresh == unlocked_seen /\ UiAcquires("refresh", "refresh_work", "runtime")

\* refresh_credentials: same generation, relist, locked meanwhile, unreadable
UiRefresh ==
    /\ u = "refresh_work" /\ u' = "render" /\ Release({"runtime"}, "ui")
    /\ \/ /\ state = "unlocked" /\ visible /\ ui_error' = FALSE
          /\ dirty' = (dirty \/ ui_error) /\ UNCHANGED <<state, visible, reveal>>
       \/ /\ state = "unlocked" /\ visible' = TRUE /\ reveal' = FALSE
          /\ ui_error' = FALSE /\ dirty' = TRUE /\ UNCHANGED state
       \/ /\ state # "unlocked" /\ ClearPrivateView
          /\ dirty' = (dirty \/ visible \/ reveal \/ ui_error)
          /\ ui_error' = FALSE /\ UNCHANGED state
       \/ /\ state = "unlocked" /\ state' = "error" /\ ClearPrivateView
          /\ ui_error' = TRUE /\ dirty' = TRUE
    /\ UNCHANGED <<ready, late_anchor, wifi, protocol, purpose, retried, 
                   unlocked_seen, lcd, r>>

\* render, or a redraw of the code or of the label alone
UiRender ==
    /\ u = "render" /\ u' = "sleep" /\ Release({"view"}, "ui")
    /\ \/ lcd' \in Screens(visible, reveal, ui_error, ready)
       \/ /\ ~dirty
          /\ \/ UNCHANGED lcd
             \/ reveal /\ lcd' = "otp"
             \/ /\ visible /\ ~ui_error /\ unlocked_seen
                /\ lcd' = IF lcd = "otp" THEN "otp" ELSE "labels"
    /\ unlocked_seen' = FALSE /\ dirty' = FALSE
    /\ UNCHANGED <<device, wifi, protocol, purpose, retried, visible, reveal, ui_error, r>>

UiStep ==
    \/ UiWakes
    \/ UiAcquires("wake", "look", "view")
    \/ UiAcquires("look", "look_work", "runtime")
    \/ UiAcquires("generate", "generate_work", "runtime")
    \/ UiAcquires("persist", "persist_work", "runtime")
    \/ UiLook \/ UiGenerate \/ UiGesture \/ UiPersist
    \/ UiSkipsRefresh \/ UiBeginsRefresh \/ UiRefresh \/ UiRender

-----------------------------------------------------------------------------
(* The resynchronisation task                                              *)

ResyncDue ==
    /\ r = "sleep" /\ r' = "due"
    /\ UNCHANGED <<held, device, wifi, protocol, ui, display>>

ResyncEnters ==
    /\ r = "due" /\ r' = "sync" /\ Acquire("sync", "resync")
    /\ UNCHANGED <<device, wifi, protocol, ui, display>>

\* Not due after all, seen under the mutex.
ResyncNotDue ==
    /\ r = "sync" /\ r' = "sleep" /\ Release({"sync"}, "resync")
    /\ UNCHANGED <<device, wifi, protocol, ui, display>>

ResyncRuntime ==
    /\ r = "sync" /\ r' = "copy" /\ Acquire("runtime", "resync")
    /\ UNCHANGED <<device, wifi, protocol, ui, display>>

\* sync_ntp_once copies the Wi-Fi settings and leaves the Runtime alone; or
\* there are none, the Device is locked, or the Vault is unreadable.
CopyCredentials ==
    /\ r = "copy"
    /\ \/ /\ state = "unlocked" /\ credentials' = TRUE /\ r' = "connect"
          /\ Release({"runtime"}, "resync") /\ UNCHANGED state
       \/ /\ r' = "sleep" /\ Release({"runtime", "sync"}, "resync") /\ UNCHANGED credentials
          /\ state' \in IF state = "unlocked" THEN {"unlocked", "error"} ELSE {state}
    /\ UNCHANGED <<ready, late_anchor, network, protocol, ui, display>>

\* connect_and_sync: the driver is started and waited for, ...
Connect ==
    /\ r = "connect" /\ r' = "sample" /\ network' = TRUE
    /\ UNCHANGED <<held, device, credentials, protocol, ui, display>>

\* ... then it is torn down, and the sample, if there is one, accepted; the
\* copies are wiped on every way out.
Sample ==
    /\ r \in {"connect", "sample"} /\ r' = "sleep"
    /\ network' = FALSE /\ credentials' = FALSE
    /\ Release({"sync"}, "resync")
    /\ \/ UNCHANGED <<ready, late_anchor>>
       \/ /\ r = "sample" /\ ready' = TRUE
          /\ late_anchor' = (late_anchor \/ state \in {"locked", "blank"})
    /\ UNCHANGED <<state, protocol, ui, display>>

\* The anchor becomes stale.
TimeStale ==
    /\ ready /\ ready' = FALSE
    /\ UNCHANGED <<held, state, late_anchor, wifi, protocol, ui, display, r>>

ResyncStep == ResyncEnters \/ ResyncNotDue \/ ResyncRuntime \/ CopyCredentials \/ Connect \/ Sample

-----------------------------------------------------------------------------
BoundaryStep == EnterBoundary \/ BoundaryRuntime \/ BoundaryWork \/ Notify
                \/ ClearRuntime \/ ClearWork

Next ==
    \/ \E k \in Boundaries : BeginBoundary(k)
    \/ BoundaryStep \/ UsbSync \/ HandleRequest
    \/ UiStep
    \/ ResyncDue \/ ResyncStep \/ TimeStale

Spec == Init /\ [][Next]_vars

\* Every task is scheduled.  A task that waits for a mutex which becomes free
\* again and again obtains it: each holder sleeps between two uses (20 ms in
\* the UI, 60 s in the time service), longer than the waiter needs to run.
FairSpec ==
    /\ Spec
    /\ SF_vars(UiStep)
    /\ SF_vars(ResyncStep)
    /\ SF_vars(BoundaryStep \/ (p # "idle" /\ (UsbSync \/ HandleRequest)))

-----------------------------------------------------------------------------
(* Properties                                                              *)

\* Once a request that locked the Device has been answered, nothing of the
\* Vault is left outside it: no code and no account on the display or in the
\* caches of the UI, no Wi-Fi settings in RAM and no network, whatever the UI
\* and the time service were doing when the lock came.
\* About: with_secret_boundary, security_boundary_clear, run().
LockedIsClean ==
    state = "locked" /\ p \notin {"notify", "clear", "clear_work"} =>
        /\ lcd \notin {"labels", "otp"}
        /\ ~visible /\ ~reveal
        /\ ~credentials /\ ~network

\* The trusted time is never set while the Device is locked or blank, not even
\* by an NTP exchange that began before.
\* About: sync_ntp_once, connect_and_sync, sync_from_usb.
AnchorOnlyUnlocked == ~late_anchor

\* The mutexes cannot bring the tasks to a halt: a boundary that was begun is
\* completed, although it takes all three, nested, against two tasks that each
\* take two; and the time service's attempt ends, although it waits for the
\* Runtime while it holds the mutex every boundary needs.
\* About: the lock order sync, view, runtime; resync_if_due.
NoTaskWaitsForever ==
    /\ p = "boundary" ~> p = "idle"
    /\ r = "due" ~> r = "sleep"

\* However UNLOCKED was left, also by a fatal error that nobody announces to
\* the UI, private data leave the display.  About: run().
PrivateViewEnds ==
    (state # "unlocked" /\ lcd \in {"labels", "otp"})
        ~> (state = "unlocked" \/ lcd \notin {"labels", "otp"})

=============================================================================
