---------------------------- MODULE PresenceGate ----------------------------
(***************************************************************************)
(* Physical user presence: session::UserPresenceGate behind the mutex of   *)
(* CanonicalPresence, called by two tasks.  The protocol task begins,      *)
(* cancels and consumes confirmations; the UI task samples BtnA, arms and  *)
(* confirms the gate and draws the prompt.  Each acquisition of the mutex  *)
(* is one step, so a request may be superseded between any two lines of    *)
(* one iteration of CanonicalUiController::run.                            *)
(***************************************************************************)
EXTENDS Integers

CONSTANTS
    Attempts,       \* random 16-byte attempt ids
    Operations,     \* PresenceOperation
    DefaultOperation, \* kTrustedBrowserUnlock, which clear() leaves behind
    NoAttempt,      \* the all-zero attempt id
    NoOperation,    \* no prompt on the screen
    Ttl,            \* kAttemptTtlMs, in clock ticks
    MaxTime,        \* the largest uint64_t time
    MaxPresses      \* the largest uint64_t button_press_generation_

ASSUME BoundsAssumption ==
    /\ Ttl \in Nat \ {0}
    /\ MaxTime \in Nat \ {0}
    /\ MaxPresses \in Nat \ {0}

ASSUME NoneAssumption ==
    /\ NoAttempt \notin Attempts /\ NoOperation \notin Operations
    /\ DefaultOperation \in Operations

VARIABLES
    \* the world
    now,            \* monotonic_ms()
    button,         \* is BtnA physically down?
    \* UserPresenceGate
    state, operation, attempt, expires_at, generation_at_start,
    neutral_samples, armed, last_pressed, press_edge,
    \* CanonicalPresence
    press_generation,
    \* CanonicalUiController::run
    ui_pc,
    pressed, was_pressed, \* M5.BtnA as of the last M5.update()
    now_ms,         \* the time of that sample
    previous,       \* the PresenceView the next iteration compares with
    dirty,
    displayed,      \* the operation named by the prompt on the LCD
    \* the caller
    granted,        \* the attempt whose consume_presence() just returned true
    \* history
    began,          \* the time of the begin of the pending request
    fresh_press     \* has BtnA gone down since that begin?

gate == <<state, operation, attempt, expires_at, generation_at_start,
          neutral_samples, armed, last_pressed, press_edge>>
sampled == <<pressed, was_pressed, now_ms>>
ui == <<ui_pc, pressed, was_pressed, now_ms, previous, dirty, displayed>>
history == <<began, fresh_press>>
vars == <<now, button, state, operation, attempt, expires_at, generation_at_start,
          neutral_samples, armed, last_pressed, press_edge, press_generation,
          ui_pc, pressed, was_pressed, now_ms, previous, dirty, displayed,
          granted, began, fresh_press>>

Times == 0..MaxTime
Views == [active: BOOLEAN, confirmed: BOOLEAN, operation: Operations]
UiPCs == {"update", "expire", "view", "observe", "press", "review", "render"}

ValuesOK ==
    /\ now \in Times /\ began \in Times /\ now_ms \in Times /\ expires_at \in Times
    /\ state \in {"idle", "awaiting", "confirmed"}
    /\ operation \in Operations
    /\ attempt \in Attempts \cup {NoAttempt}
    /\ generation_at_start \in 0..MaxPresses /\ press_generation \in 0..MaxPresses
    /\ neutral_samples \in 0..2
    /\ ui_pc \in UiPCs
    /\ displayed \in Operations \cup {NoOperation}
    /\ granted \in Attempts \cup {NoAttempt}

FlagsOK ==
    /\ button \in BOOLEAN /\ fresh_press \in BOOLEAN
    /\ armed \in BOOLEAN /\ last_pressed \in BOOLEAN /\ press_edge \in BOOLEAN
    /\ pressed \in BOOLEAN /\ was_pressed \in BOOLEAN
    /\ dirty \in BOOLEAN

TypeOK == ValuesOK /\ FlagsOK /\ previous \in Views

-----------------------------------------------------------------------------
(* UserPresenceGate                                                        *)

\* deadline_from: saturates instead of wrapping.
Deadline(t) == IF t > MaxTime - Ttl THEN MaxTime ELSE t + Ttl

\* clear()
Clear ==
    /\ state' = "idle" /\ operation' = DefaultOperation /\ attempt' = NoAttempt
    /\ expires_at' = 0 /\ generation_at_start' = 0
    /\ neutral_samples' = 0 /\ armed' = FALSE
    /\ last_pressed' = FALSE /\ press_edge' = FALSE

\* Mutant: off by one.
ExpiredLate(t) == state # "idle" /\ t > expires_at

\* What expire(t) tests.
Expired(t) == state # "idle" /\ t >= expires_at

\* view()
View == [active |-> state # "idle", confirmed |-> state = "confirmed", operation |-> operation]

-----------------------------------------------------------------------------
(* The protocol task                                                       *)

\* begin_presence: a new request replaces whatever was pending.
BeginPresence(op, a) ==
    /\ state' = "awaiting" /\ operation' = op /\ attempt' = a
    /\ expires_at' = Deadline(now)
    /\ generation_at_start' = press_generation
    /\ neutral_samples' = 0 /\ armed' = FALSE
    /\ last_pressed' = FALSE /\ press_edge' = FALSE
    /\ granted' = NoAttempt
    /\ began' = now /\ fresh_press' = FALSE
    /\ UNCHANGED <<now, button, press_generation, ui>>

CancelPresence ==
    /\ state # "idle"
    /\ Clear
    /\ granted' = NoAttempt
    /\ UNCHANGED <<now, button, press_generation, ui, history>>

\* Mutant: the deadline is not looked at again.
ConsumeWithoutExpiry(a) ==
    /\ IF state = "confirmed" THEN Clear ELSE UNCHANGED gate
    /\ granted' = IF state = "confirmed" /\ attempt = a THEN a ELSE NoAttempt
    /\ UNCHANGED <<now, button, press_generation, ui, history>>

\* consume_presence: an expired confirmation and one that belongs to another
\* attempt are refused and cleared; an unconfirmed request is left alone.  Its
\* time is read as handle_line is called, far less than a tick before.
ConsumePresence(a) ==
    /\ IF Expired(now) \/ state = "confirmed"
       THEN Clear
       ELSE UNCHANGED gate
    /\ granted' = IF ~Expired(now) /\ state = "confirmed" /\ attempt = a
                  THEN a ELSE NoAttempt
    /\ UNCHANGED <<now, button, press_generation, ui, history>>

\* security_boundary_clear draws the screen from the protocol task.
BoundaryRender ==
    /\ displayed' = IF View.active THEN View.operation ELSE NoOperation
    /\ UNCHANGED <<now, button, gate, press_generation,
                   ui_pc, sampled, previous, dirty, granted, history>>

-----------------------------------------------------------------------------
(* The UI task: one iteration of CanonicalUiController::run                *)

UiOnly == UNCHANGED <<now, button, granted, history>>

\* M5.update() samples BtnA and detects its edges.
UiUpdate ==
    /\ ui_pc = "update"
    /\ pressed' = button /\ was_pressed' = (button /\ ~pressed)
    /\ now_ms' = now
    /\ dirty' = FALSE
    /\ ui_pc' = "expire"
    /\ UNCHANGED <<gate, press_generation, previous, displayed>> /\ UiOnly

UiExpire ==
    /\ ui_pc = "expire"
    /\ IF Expired(now_ms)
       THEN Clear /\ dirty' = TRUE
       ELSE UNCHANGED <<gate, dirty>>
    /\ ui_pc' = "view"
    /\ UNCHANGED <<press_generation, sampled, previous, displayed>> /\ UiOnly

UiView ==
    /\ ui_pc = "view"
    /\ previous' = View
    /\ dirty' = (dirty \/ View # previous)
    /\ ui_pc' = IF View.active THEN "observe" ELSE "render"
    /\ UNCHANGED <<gate, press_generation, sampled, displayed>> /\ UiOnly

\* Mutant: one released sample is enough.
ObserveOneSample(down) ==
    /\ press_edge' = FALSE
    /\ neutral_samples' = IF down THEN 0 ELSE 1
    /\ armed' = (neutral_samples' >= 1)
    /\ last_pressed' = down

\* observe_input_state while the gate is not armed yet: two consecutive
\* released samples arm it.
ObserveUnarmed(down) ==
    /\ press_edge' = FALSE
    /\ neutral_samples' = CASE down -> 0
                            [] ~down /\ neutral_samples < 2 -> neutral_samples + 1
                            [] OTHER -> neutral_samples
    /\ armed' = (neutral_samples' >= 2)
    /\ last_pressed' = down

\* ... and once it is: a press after a released sample is an edge, and a
\* release withdraws an edge nobody used.
ObserveArmed(down) ==
    /\ press_edge' = (down /\ (press_edge \/ ~last_pressed))
    /\ last_pressed' = down
    /\ UNCHANGED <<neutral_samples, armed>>

UiObserve ==
    /\ ui_pc = "observe"
    /\ IF state # "awaiting"
       THEN UNCHANGED gate
       ELSE /\ IF armed THEN ObserveArmed(pressed) ELSE ObserveUnarmed(pressed)
            /\ UNCHANGED <<state, operation, attempt, expires_at, generation_at_start>>
    /\ ui_pc' = IF was_pressed THEN "press" ELSE "render"
    /\ UNCHANGED <<press_generation, sampled, previous, dirty, displayed>> /\ UiOnly

\* confirm_current: the edge is used up even when the generation is stale.
Confirms(generation) ==
    /\ state = "awaiting" /\ ~Expired(now_ms)
    /\ armed /\ press_edge
    /\ generation > generation_at_start

ConfirmCurrent(generation) ==
    \/ /\ Expired(now_ms)
       /\ Clear
    \/ /\ ~Expired(now_ms)
       /\ state' = IF Confirms(generation) THEN "confirmed" ELSE state
       /\ press_edge' = (press_edge /\ ~(state = "awaiting" /\ armed))
       /\ UNCHANGED <<operation, attempt, expires_at, generation_at_start,
                      neutral_samples, armed, last_pressed>>

\* button_pressed
UiPress ==
    /\ ui_pc = "press"
    /\ press_generation' = IF press_generation = MaxPresses THEN MaxPresses
                           ELSE press_generation + 1
    /\ ConfirmCurrent(press_generation')
    /\ dirty' = (dirty \/ Confirms(press_generation'))
    /\ ui_pc' = "review"
    /\ UNCHANGED <<sampled, previous, displayed>> /\ UiOnly

\* The view after the press becomes the one later iterations compare with;
\* a change seen here is not recorded in dirty.
UiReview ==
    /\ ui_pc = "review"
    /\ previous' = View
    /\ ui_pc' = "render"
    /\ UNCHANGED <<gate, press_generation, sampled, dirty, displayed>> /\ UiOnly

UiRender ==
    /\ ui_pc = "render"
    /\ displayed' = IF ~dirty THEN displayed
                    ELSE IF View.active THEN View.operation ELSE NoOperation
    /\ ui_pc' = "update"
    /\ UNCHANGED <<gate, press_generation, sampled, previous, dirty>> /\ UiOnly

Ui == UiUpdate \/ UiExpire \/ UiView \/ UiObserve \/ UiPress \/ UiReview \/ UiRender

-----------------------------------------------------------------------------
(* The world                                                               *)

\* The owner of the Device uses BtnA at any time.
PressButton ==
    /\ ~button /\ button' = TRUE
    /\ fresh_press' = TRUE
    /\ UNCHANGED <<now, gate, press_generation, ui, granted, began>>

ReleaseButton ==
    /\ button /\ button' = FALSE
    /\ UNCHANGED <<now, gate, press_generation, ui, granted, history>>

Tick ==
    /\ now < MaxTime
    /\ now' = now + 1
    /\ UNCHANGED <<button, gate, press_generation, ui, granted, history>>

Init ==
    /\ now = 0 /\ button \in BOOLEAN
    /\ state = "idle" /\ operation = DefaultOperation /\ attempt = NoAttempt
    /\ expires_at = 0 /\ generation_at_start = 0
    /\ neutral_samples = 0 /\ armed = FALSE
    /\ last_pressed = FALSE /\ press_edge = FALSE
    /\ press_generation = 0
    /\ ui_pc = "update" /\ pressed = FALSE /\ was_pressed = FALSE /\ now_ms = 0
    /\ previous = View
    /\ dirty = FALSE /\ displayed = NoOperation
    /\ granted = NoAttempt
    /\ began = 0 /\ fresh_press = FALSE

Protocol ==
    \/ \E op \in Operations, a \in Attempts : BeginPresence(op, a)
    \/ CancelPresence
    \/ \E a \in Attempts : ConsumePresence(a)
    \/ BoundaryRender

Next == Protocol \/ Ui \/ PressButton \/ ReleaseButton \/ Tick

Spec == Init /\ [][Next]_vars

\* Both the UI task and the clock keep running.
FairSpec == Spec /\ WF_vars(Ui) /\ WF_vars(Tick)

-----------------------------------------------------------------------------
(* Properties                                                              *)

\* A request is only ever confirmed by a press that began after the request:
\* neither a button held down since before, nor a press the UI task sampled
\* before and processed after the begin, confirms it.  One stale released
\* sample may be counted, which is why observe_input_state wants two.
FreshGesture == state = "confirmed" => fresh_press

\* consume_presence only succeeds for the attempt that is pending, after such
\* a press, and within the lifetime of the attempt, although the UI task
\* confirms with the time it read at the top of its loop.
GrantInTime ==
    [][granted' # NoAttempt /\ granted' # granted =>
           fresh_press /\ attempt = granted' /\ now < began + Ttl]_vars

\* No request stays pending for ever: unanswered, unconsumed or forgotten by
\* the protocol task, it is gone after its lifetime because the UI task
\* expires it.
RequestEnds ==
    \A t \in Times : (state # "idle" /\ began = t) ~> (state = "idle" \/ began # t)

-----------------------------------------------------------------------------
(* The inductive invariant behind FreshGesture                             *)

\* Arming takes two samples, so a UI task that has counted one and sampled
\* again has sampled after the begin.
SampledSinceBegin ==
    neutral_samples >= 1 /\ ui_pc \in {"expire", "view", "observe"} /\ ~pressed
        => fresh_press \/ ~button

\* An armed gate that has seen the button up knows of every later press.
ArmedWhileReleased ==
    armed /\ ~last_pressed => fresh_press \/ (~button /\ ~pressed)

ArmedPressIsFresh == armed /\ (last_pressed \/ press_edge) => fresh_press

ArmedCounted == neutral_samples >= 2 => armed

\* deadline_from saturates, so a request may live shorter but never longer.
DeadlineBounded == state # "idle" => expires_at <= began + Ttl

IndInv ==
    /\ TypeOK
    /\ SampledSinceBegin /\ ArmedWhileReleased /\ ArmedPressIsFresh /\ ArmedCounted
    /\ DeadlineBounded /\ FreshGesture

-----------------------------------------------------------------------------
\* "The display identifies the operation category" (DEVICE_UI.md): whoever
\* confirms a request confirms the operation the prompt names.
ConfirmsWhatIsShown ==
    [][state = "awaiting" /\ state' = "confirmed" => displayed = operation]_vars
=============================================================================
