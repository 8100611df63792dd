-------------------------------- MODULE RevealUi --------------------------------
(***************************************************************************)
(* What the display shows, and for how long: one iteration of              *)
(* CanonicalUiController::run as one step, on a clock, with the display    *)
(* divided into the bands that run() redraws separately.  How the          *)
(* iterations interleave with the other tasks is in DeviceTasks, how a     *)
(* request is confirmed in PresenceGate.                                   *)
(*                                                                         *)
(* Time is in ticks, one to a second; trusted Unix time is now + offset.   *)
(***************************************************************************)
EXTENDS Integers, Sequences, SequencesExt

CONSTANTS
    Credentials,    \* opaque credential ids
    Lists,          \* account lists a Vault may hold, in manual order
    None,           \* no credential, no code
    Period,         \* totp_validity::kPeriodSeconds
    RevealTicks,    \* kOtpRevealDurationMs
    RefreshTicks,   \* kCredentialRefreshIntervalMs
    Offsets,        \* Unix times of the trusted clock at tick 0
    MaxGeneration, MaxTime \* bounds

ASSUME BoundsAssumption ==
    /\ Period \in Nat \ {0} /\ RevealTicks \in Nat \ {0} /\ RefreshTicks \in Nat \ {0}
    /\ MaxGeneration \in Nat /\ MaxTime \in Nat
    /\ Offsets \subseteq Nat /\ Offsets # {}
    /\ None \notin Credentials
    /\ Lists \subseteq Seq(Credentials) /\ Lists # {}

VARIABLES
    now, offset, time_ready, \* the timer; the trusted time and its readiness
    unlocked, list, generation, last_used, \* the Runtime
    prompt,                 \* is a presence request active?
    view,                   \* what the controller keeps between iterations
    seen,                   \* previous_readiness, previous_presence, runtime_state_
    last_refresh,
    shown,                  \* the bands of the display
    \* history
    ran,                    \* has the UI run since the last tick?
    revealed_at,            \* when the user last asked for a code
    touched                 \* did the last iteration see a gesture?

world == <<now, offset, time_ready>>
runtime == <<unlocked, list, generation, last_used>>
controller == <<view, seen, last_refresh, shown>>
history == <<ran, revealed_at, touched>>
ui_vars == <<now, offset, time_ready, unlocked, list, generation, last_used, prompt,
             view, seen, last_refresh, shown, ran, revealed_at, touched>>

Times == 0..(MaxTime + 1)
Codes == [credential : Credentials, period : Nat]
NoReveal == [code |-> None, deadline |-> 0, period |-> 0, remaining |-> 0]

Views == [visible : BOOLEAN, list : Lists \cup {<<>>}, selected : Nat,
          generation : 0..MaxGeneration, error : BOOLEAN,
          reveal : [code : Codes \cup {None}, deadline : Nat, period : Nat, remaining : Nat]]

UiTypeOK ==
    /\ now \in Times /\ offset \in Offsets /\ generation \in 0..MaxGeneration
    /\ {time_ready, unlocked, prompt, ran, touched} \subseteq BOOLEAN
    /\ list \in Lists /\ last_used \in Credentials \cup {None}
    /\ view \in Views /\ view.selected \in 0..Len(view.list)
    /\ seen \in [ready : BOOLEAN, prompt : BOOLEAN, unlocked : BOOLEAN]
    /\ last_refresh \in Times /\ revealed_at \in Times
    /\ shown \in [screen : {"prompt", "status"}, label : Credentials \cup {None},
                  status : [is : {"none", "valid", "warning"}, period : Nat],
                  code : Codes \cup {None}]

-----------------------------------------------------------------------------
(* Trusted time and codes                                                  *)

\* totp_validity::from_unix_seconds
PeriodIndex(unix) == unix \div Period
Remaining(unix) == Period - (unix % Period)

\* generate_raw, as far as its caller can tell one code from another
Code(c, unix) == [credential |-> c, period |-> PeriodIndex(unix)]

-----------------------------------------------------------------------------
(* The controller's view; `dirty' is local to an iteration                 *)

EmptyView == [visible |-> FALSE, list |-> <<>>, selected |-> 0, generation |-> 0,
              error |-> FALSE, reveal |-> NoReveal]

Revealing(v) == v.reveal # NoReveal

\* selected_index_ is valid; the model counts from 1.
HasSelection(v) == v.visible /\ v.selected \in 1..Len(v.list)
Selected(v) == IF HasSelection(v) THEN v.list[v.selected] ELSE None

Hidden(v) == [v EXCEPT !.reveal = NoReveal]

\* clear_private_view keeps storage_error_.
Cleared(v) == [EmptyView EXCEPT !.error = v.error]

\* Mutant: the reveal is renewed with the code.
RevealRenewed(v, made, unix, time) ==
    [v EXCEPT !.reveal = [code |-> Code(Selected(v), made), deadline |-> time + RevealTicks,
                          period |-> PeriodIndex(unix), remaining |-> Remaining(unix)]]

\* refresh_revealed_totp: a code `made' at one time, compared with another; the
\* deadline stays.
RevealRefreshed(v, made, unix, time) ==
    [v EXCEPT !.reveal = [code |-> Code(Selected(v), made), deadline |-> v.reveal.deadline,
                          period |-> PeriodIndex(unix), remaining |-> Remaining(unix)]]

\* generate_for_credential: `at' is the time of the code, `unix' the time the
\* caller reads afterwards; a period that rolled over in between costs a
\* second try, made at `unix'.  `works' covers the reading of the Vault and the
\* write of last_used.
Generates(v, works) == HasSelection(v) /\ time_ready /\ unlocked /\ works
                       /\ Selected(v) \in ToSet(list)

\* Mutant: the first code is shown with the validity of the new period.
CodeTimeFirst(at, unix) == at

CodeTime(at, unix) == IF PeriodIndex(at) = PeriodIndex(unix) THEN at ELSE unix

\* Mutant: a new list starts at its first account.
PreferredFirst(v) == 1

\* refresh_credentials: the selected account, or else the last used one
Preferred(v) ==
    LET wanted == IF HasSelection(v) THEN Selected(v) ELSE last_used
    IN  IF wanted \in ToSet(list) THEN CHOOSE i \in 1..Len(list) : list[i] = wanted ELSE 1

\* refresh_credentials: nothing new, an unreadable Vault, or a new list
Relists(v) == ~v.visible \/ v.generation # generation

Refreshed(v, works) ==
    IF ~Relists(v) THEN [v EXCEPT !.error = FALSE]
    ELSE IF ~works THEN [Cleared(v) EXCEPT !.error = TRUE]
    ELSE [Cleared(v) EXCEPT !.visible = TRUE, !.list = list, !.error = FALSE,
                                     !.generation = generation,
                                     !.selected = IF list = <<>> THEN 0 ELSE Preferred(v)]

-----------------------------------------------------------------------------
(* Drawing                                                                 *)

NoStatus == [is |-> "none", period |-> 0]
Validity(v) == [is |-> "valid", period |-> v.reveal.period]

\* render()
Render(v, asking, timely) ==
    IF asking
    THEN [screen |-> "prompt", status |-> [is |-> "warning", period |-> 0],
          label |-> None, code |-> None]
    ELSE IF v.error \/ ~HasSelection(v)
    THEN [screen |-> "status", status |-> NoStatus, label |-> None, code |-> None]
    ELSE [screen |-> "status", label |-> Selected(v),
          status |-> IF Revealing(v) /\ timely THEN Validity(v) ELSE NoStatus,
          code |-> IF Revealing(v) /\ timely THEN v.reveal.code ELSE None]

\* render_reveal_region, render_reveal_validity, render_account_label
RenderRegion(v) == [shown EXCEPT !.status = Validity(v), !.code = v.reveal.code]
RenderValidity(v) == [shown EXCEPT !.status = Validity(v)]
RenderLabel(v) == IF v.error \/ ~HasSelection(v) THEN shown ELSE [shown EXCEPT !.label = Selected(v)]

-----------------------------------------------------------------------------
UiInit ==
    /\ now = 0 /\ offset \in Offsets /\ time_ready = FALSE
    /\ unlocked = FALSE /\ list \in Lists /\ generation = 0 /\ last_used = None
    /\ prompt = FALSE
    /\ view = EmptyView
    /\ seen = [ready |-> FALSE, prompt |-> FALSE, unlocked |-> FALSE]
    /\ last_refresh = 0
    /\ shown = Render(EmptyView, FALSE, FALSE)
    /\ ran = TRUE /\ revealed_at = 0 /\ touched = FALSE

(* The other tasks                                                         *)

\* The UI runs every 20 ms: at least once in a tick.
Tick ==
    /\ now < MaxTime /\ ran /\ now' = now + 1 /\ ran' = FALSE
    /\ UNCHANGED <<offset, time_ready, runtime, prompt, controller, revealed_at, touched>>

\* time.sync or NTP sets the clock; the anchor becomes stale.
TimeChanges ==
    /\ \/ time_ready' = TRUE /\ offset' \in Offsets
       \/ time_ready /\ time_ready' = FALSE /\ UNCHANGED offset
    /\ ran' = FALSE
    /\ UNCHANGED <<now, runtime, prompt, controller, revealed_at, touched>>

Unlock ==
    /\ ~unlocked /\ unlocked' = TRUE
    /\ UNCHANGED <<world, list, generation, last_used, prompt, controller, ran, revealed_at, touched>>

\* A lock clears the view and draws it (security_boundary_clear); a fatal
\* error only changes the Runtime.
Close ==
    /\ unlocked /\ unlocked' = FALSE
    /\ \/ /\ view' = EmptyView
          /\ seen' = [seen EXCEPT !.unlocked = FALSE]
          /\ shown' = Render(view', prompt, time_ready)
       \/ UNCHANGED <<view, seen, shown>>
    /\ UNCHANGED <<world, list, generation, last_used, prompt, last_refresh, history>>

\* vault.update commits another list.
Update ==
    /\ unlocked /\ generation < MaxGeneration /\ generation' = generation + 1
    /\ list' \in Lists
    /\ UNCHANGED <<world, unlocked, last_used, prompt, controller, ran, revealed_at, touched>>

\* A request begins, or ends.
PromptChanges ==
    /\ prompt' = ~prompt
    /\ UNCHANGED <<world, runtime, controller, ran, revealed_at, touched>>

-----------------------------------------------------------------------------
(* One iteration of run()                                                  *)

\* Another state than UNLOCKED clears the view; a reveal ends with its
\* deadline, with READY and with UNLOCKED.
Checked(v) ==
    LET cleared == IF ~unlocked /\ v.visible THEN Cleared(v) ELSE v
    IN  IF Revealing(cleared) /\ (~time_ready \/ now >= cleared.reveal.deadline \/ ~unlocked)
        THEN Hidden(cleared) ELSE cleared

\* Mutant: only a later period counts.
RollsForward(v, unix) == Revealing(v) /\ PeriodIndex(unix) > v.reveal.period

\* Does the period of a code still shown roll over?  `unix' is read later.
Rolls(v, unix) == Revealing(v) /\ PeriodIndex(unix) # v.reveal.period

RolledOver(v, at, unix, works) ==
    IF ~Rolls(v, at) THEN
        IF Revealing(v) THEN [v EXCEPT !.reveal.remaining = Remaining(at)] ELSE v
    ELSE IF Generates(v, works) THEN RevealRefreshed(v, CodeTime(at, unix), unix, now)
    ELSE Hidden(v)

\* select_next and select_previous wrap around; persist_selection reports a
\* failure as a storage error.
Moved(v, step, works) ==
    LET n == Len(v.list)
        moved == [Hidden(v) EXCEPT !.selected = 1 + ((v.selected - 1 + step + n) % n)]
    IN  IF n = 0 THEN v
        ELSE [moved EXCEPT !.error = ~(unlocked /\ works /\ Selected(moved) \in ToSet(list))]

\* reveal_selected
Asked(v, at, unix, works) ==
    IF Generates(v, works)
    THEN [RevealRefreshed(v, CodeTime(at, unix), unix, now)
            EXCEPT !.reveal.deadline = now + RevealTicks]
    ELSE Hidden(v)

Gestured(v, gesture, at, unix, works) ==
    CASE gesture = "none" -> v
      [] gesture = "hold" -> Asked(v, at, unix, works)
      [] gesture = "double" -> Moved(v, -1, works)
      [] gesture = "single" -> IF Revealing(v) THEN Hidden(v) ELSE Moved(v, 1, works)

RefreshDue == unlocked /\ ~prompt /\ now - last_refresh >= RefreshTicks

\* The generator and persist_selection write last_used, on success.
Touches(v, gesture, works) ==
    \/ gesture = "hold" /\ Generates(v, works)
    \/ /\ gesture = "double" \/ (gesture = "single" /\ ~Revealing(v))
       /\ v.list # <<>> /\ ~Gestured(v, gesture, 0, 0, works).error

\* While a code is made (`delay'), the clock may reach the next second.
Iterate(gesture, works, delay) ==
    LET at == now + offset
        unix == now + delay + offset
        v1 == Checked(view)
        v2 == RolledOver(v1, at, unix, works)
        v3 == Gestured(v2, gesture, at, unix, works)
        v4 == IF RefreshDue THEN Refreshed(v3, works) ELSE v3
        dirty == \/ seen # [ready |-> time_ready, prompt |-> prompt, unlocked |-> unlocked]
                 \/ v1 # view \/ gesture # "none"
                 \/ Revealing(v1) /\ ~Revealing(v2)
                 \/ RefreshDue /\ (v4.list # v3.list \/ v4.generation # v3.generation
                                    \/ v4.error # v3.error \/ v4.visible # v3.visible)
    IN  /\ gesture # "none" => ~prompt
        /\ ~works => gesture # "none" \/ Rolls(v1, at) \/ RefreshDue
        /\ delay > 0 => Rolls(v1, at) \/ gesture = "hold"
        /\ now' = now + delay
        /\ ran' = TRUE
        /\ view' = v4
        /\ seen' = [ready |-> time_ready, prompt |-> prompt, unlocked |-> unlocked]
        /\ last_refresh' = IF RefreshDue THEN now ELSE last_refresh
        /\ last_used' = IF Touches(v2, gesture, works) THEN Selected(v3) ELSE last_used
        /\ unlocked' = (unlocked /\ ~(RefreshDue /\ Relists(v3) /\ ~works))
        /\ touched' = (gesture # "none")
        /\ \/ dirty /\ shown' = Render(v4, prompt, time_ready)
           \/ ~dirty /\ Rolls(v1, at) /\ shown' = RenderRegion(v4)
           \/ ~dirty /\ ~Rolls(v1, at) /\ Revealing(v1)
              /\ v2.reveal.remaining # v1.reveal.remaining /\ shown' = RenderValidity(v4)
           \/ /\ ~dirty /\ ~Rolls(v1, at) /\ v2 = v1
              /\ shown' \in {shown} \cup IF ~prompt /\ unlocked THEN {RenderLabel(v4)} ELSE {}
        /\ revealed_at' = IF gesture = "hold" THEN now
                          ELSE IF Revealing(v4) \/ shown'.code # None THEN revealed_at ELSE 0
        /\ UNCHANGED <<offset, time_ready, list, generation, prompt>>

UiNext ==
    \/ Tick \/ TimeChanges \/ Unlock \/ Close \/ Update \/ PromptChanges
    \/ \E g \in {"none", "single", "double", "hold"}, works \in BOOLEAN, delay \in {0, 1} :
          now + delay <= MaxTime /\ Iterate(g, works, delay)

UiSpec == UiInit /\ [][UiNext]_ui_vars

-----------------------------------------------------------------------------
(* Properties                                                              *)

\* A code on the account screen stands below the label of its own account, next
\* to the validity of its own period, although the three bands are drawn
\* separately; the error screen apart, over which a code may be redrawn until
\* the next refresh.  About: run, render_reveal_region, refresh_credentials.
OneAccountOnePeriod ==
    shown.screen = "status" /\ shown.code # None /\ ~view.error =>
        /\ shown.label = shown.code.credential
        /\ shown.status = [is |-> "valid", period |-> shown.code.period]

\* After an iteration the code shown is the one the trusted time asks for.
\* About: the rollover in run.
CodeIsCurrent == ran /\ shown.code # None => shown.code.period = PeriodIndex(now + offset)

\* A code leaves the display RevealTicks after the gesture that asked for it,
\* however often it was recomputed; one tick for the iteration in progress.
\* About: reveal_selected, refresh_revealed_totp.
RevealInTime == shown.code # None => now <= revealed_at + RevealTicks + 1

\* An account list that changes under the user does not change which account
\* is selected, as long as it has it.  About: refresh_credentials.
SelectionFollows ==
    [][/\ HasSelection(view) /\ view'.visible /\ view'.generation # view.generation
       /\ ~touched' /\ Selected(view) \in ToSet(view'.list)
       => view'.list[view'.selected] = Selected(view)]_ui_vars

\* The screen of a request keeps its destructive-reset warning.
\* About: render_reveal_validity and render_reveal_region in run.
WarningStays == shown.screen = "prompt" => shown.status.is = "warning" /\ shown.code = None

=============================================================================
