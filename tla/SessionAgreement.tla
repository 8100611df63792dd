---------------------------- MODULE SessionAgreement ----------------------------
(***************************************************************************)
(* The delivery of a Vault key in one Protocol v2 session: the Browser's   *)
(* deliverVmkOverSessionV2 (session-flow-v2.ts), the Device's              *)
(* StagedSessionV2Handler, AttemptCoordinator and DeviceSession, and the   *)
(* transcript both sides compute.                                          *)
(*                                                                         *)
(* Cryptography is symbolic.  The attempt id, the challenge and the        *)
(* Device's ephemeral key are drawn together and never repeat: one number  *)
(* stands for the three.  A signature names its key and what it signs; a   *)
(* sealed key opens only under the key, and with the associated data, it   *)
(* was sealed under.  Requests may be lost, late or delivered again:       *)
(* whatever was ever sent may arrive at any time.  Replies may be lost.    *)
(*                                                                         *)
(* The operations unlock and replace stand for those with and without a    *)
(* required signature; what a delivered key does to the Vault, and the     *)
(* presence gate itself, are in DeviceOwnership and PresenceGate.          *)
(***************************************************************************)
EXTENDS Integers, Sequences

CONSTANTS
    Browsers,       \* each with its registration key (BRK)
    None,           \* no context, no key, no signature
    MaxDeliveries,  \* bound on deliveries a Browser starts
    MaxAttempts     \* bound on attempts the Device begins

ASSUME BoundAssumption ==
    /\ None \notin Browsers
    /\ MaxDeliveries \in Nat \ {0} /\ MaxAttempts \in Nat \ {0}

VARIABLES
    binding,        \* the Device's Vault generation and registration
    coordinator,    \* AttemptCoordinator
    crypto,         \* DeviceSession: the attempt whose private key exists, or 0
    context,        \* StagedSessionV2Handler::context_, or None
    confirmed,      \* the attempt whose prompt was confirmed, or 0
    attempts,       \* attempts begun so far
    sent,           \* every request ever sent
    browser,        \* what each Browser is doing
    installed       \* history: the keys given to install_vmk

device == <<binding, coordinator, crypto, context, confirmed, attempts>>
vars == <<binding, coordinator, crypto, context, confirmed, attempts, sent, browser, installed>>

Attempts == 1..MaxAttempts
Ephemerals == Browsers \X (1..MaxDeliveries) \* web ephemeral keys, and the keys delivered
Contexts == [op : {"unlock", "replace"}, generation : 0..MaxAttempts,
             epoch : 1..(MaxAttempts + 1), current : Browsers \cup {None},
             proposed : Browsers \cup {None}]
Transcripts == [context : Contexts, attempt : Attempts, web : Ephemerals]

Idle == [ctx |-> None, attempt |-> 0, state |-> "idle", transcript |-> None]
Quiet(n) == [number |-> n, pc |-> "idle", ctx |-> None, attempt |-> 0, transcript |-> None,
             reply |-> None]

TypeOK ==
    /\ binding \in [generation : 0..MaxAttempts, epoch : 1..(MaxAttempts + 1), brk : Browsers]
    /\ coordinator \in [ctx : Contexts \cup {None}, attempt : 0..MaxAttempts,
                        state : {"idle", "authorization", "presence"},
                        transcript : Transcripts \cup {None}]
    /\ crypto \in 0..MaxAttempts /\ confirmed \in 0..MaxAttempts
    /\ context \in Contexts \cup {None}
    /\ attempts \in 0..MaxAttempts
    /\ \A b \in Browsers :
         /\ browser[b].number \in 0..MaxDeliveries
         /\ browser[b].pc \in {"idle", "begin", "authorize", "status", "complete", "done"}
    /\ installed \in Seq([context : Contexts, attempt : Attempts, vmk : Ephemerals])

Init ==
    /\ binding \in [generation : {0}, epoch : {1}, brk : Browsers]
    /\ coordinator = Idle /\ crypto = 0 /\ context = None /\ confirmed = 0
    /\ attempts = 0 /\ sent = {} /\ installed = <<>>
    /\ browser = [b \in Browsers |-> Quiet(0)]

-----------------------------------------------------------------------------
(* Symbolic cryptography and the transcript                                *)

\* encode_transcript() on either side.
Transcript(ctx, attempt, web) == [context |-> ctx, attempt |-> attempt, web |-> web]

Sign(key, transcript) == [key |-> key, over |-> transcript]
Verify(key, transcript, signature) == signature = Sign(key, transcript)

\* HKDF of the shared secret, with the attempt as salt and the transcript as info.
SessionKey(attempt, web, transcript) == [device |-> attempt, web |-> web, info |-> transcript]

Seal(key, vmk, aad) == [key |-> key, vmk |-> vmk, aad |-> aad]
Opens(sealed, key, aad) == sealed.key = key /\ sealed.aad = aad

-----------------------------------------------------------------------------
(* The Device                                                              *)

MatchesVault(ctx) == ctx.generation = binding.generation

\* session_v2_begin_matches_snapshot()
MatchesSnapshot(ctx) ==
    /\ ctx.generation = binding.generation
    /\ \/ /\ ctx.op = "unlock"
          /\ ctx.epoch = binding.epoch /\ ctx.current = binding.brk /\ ctx.proposed = None
       \/ /\ ctx.op = "replace"
          /\ ctx.epoch = binding.epoch + 1
          /\ ctx.current \in {None, binding.brk}
          /\ ctx.proposed \notin {None, binding.brk}

\* AttemptCoordinator::cancel and clear_context(); fail_closed() does both.
FailClosed == coordinator' = Idle /\ crypto' = 0 /\ confirmed' = 0 /\ context' = None

\* An answer reaches the Browser that waits for it, or is lost.
Answer(m, reply) ==
    LET b == m.from IN
    browser' \in {browser} \cup
        IF browser[b].pc = m.op /\ browser[b].number = m.number /\ browser[b].reply = None
          THEN {[browser EXCEPT ![b].reply = reply]} ELSE {}

Refused(m) == Answer(m, [ok |-> FALSE])

KeepRest == UNCHANGED <<binding, attempts, sent, installed>>

\* session.begin: the attempt in progress ends whatever the outcome, and drawing the
\* new one may fail.
Begin(m) ==
    \/ /\ MatchesSnapshot(m.ctx) /\ attempts < MaxAttempts
       /\ attempts' = attempts + 1
       /\ coordinator' = [Idle EXCEPT !.ctx = m.ctx, !.attempt = attempts + 1,
                                      !.state = "authorization"]
       /\ crypto' = attempts + 1 /\ confirmed' = 0 /\ context' = m.ctx
       /\ Answer(m, [ok |-> TRUE, attempt |-> attempts + 1])
       /\ UNCHANGED <<binding, sent, installed>>
    \/ FailClosed /\ Refused(m) /\ KeepRest

\* The checks before authorize, status and complete.
Current(m) ==
    /\ context # None /\ coordinator.state # "idle" /\ coordinator.attempt = m.attempt
    /\ MatchesSnapshot(context)

\* The signature an authorization needs: always a valid one if there is one.
Authentic(m, transcript) ==
    IF coordinator.ctx.op = "unlock" \/ m.signature # None
      THEN /\ coordinator.ctx.current # None
           /\ Verify(coordinator.ctx.current, transcript, m.signature)
      ELSE TRUE

\* session.authorize
Authorize(m) ==
    LET transcript == Transcript(coordinator.ctx, coordinator.attempt, m.web) IN
    IF /\ Current(m)
       /\ coordinator.state = "authorization" /\ crypto = coordinator.attempt
       /\ Authentic(m, transcript)
      THEN /\ coordinator' = [coordinator EXCEPT !.state = "presence", !.transcript = transcript]
           /\ confirmed' = 0
           /\ Answer(m, [ok |-> TRUE])
           /\ UNCHANGED <<crypto, context>> /\ KeepRest
      ELSE FailClosed /\ Refused(m) /\ KeepRest

\* The user confirms the prompt of the attempt.
Confirm ==
    /\ coordinator.state = "presence"
    /\ confirmed' = coordinator.attempt
    /\ UNCHANGED <<binding, coordinator, crypto, context, attempts, sent, browser, installed>>

\* session.status
Status(m) ==
    IF Current(m)
      THEN /\ Answer(m, [ok |-> TRUE, confirmed |-> coordinator.state = "presence"
                                                     /\ confirmed = coordinator.attempt])
           /\ UNCHANGED <<coordinator, crypto, context, confirmed>> /\ KeepRest
      ELSE FailClosed /\ Refused(m) /\ KeepRest

\* What the installed key changes of the binding: a replacement registers the proposed
\* Browser.
Installed(ctx) ==
    IF ctx.op = "replace" THEN [binding EXCEPT !.epoch = ctx.epoch, !.brk = ctx.proposed]
                          ELSE binding

\* DeviceSession::open_vmk under the keys of the current attempt.
OpensNow(m) ==
    /\ crypto = coordinator.attempt /\ confirmed = coordinator.attempt
    /\ Opens(m.sealed,
             SessionKey(crypto, coordinator.transcript.web, coordinator.transcript),
             coordinator.transcript)

\* session.complete
Delivers(m) == Current(m) /\ coordinator.state = "presence" /\ OpensNow(m)

Install(m) ==
    /\ installed' = Append(installed, [context |-> context, attempt |-> coordinator.attempt,
                                       vmk |-> m.sealed.vmk])
    /\ binding' = Installed(context)

\* The sink takes the key or refuses it.
CompleteAnswersAnyway(m) ==
    /\ FailClosed /\ UNCHANGED <<attempts, sent>>
    /\ \/ Delivers(m) /\ Install(m) /\ Answer(m, [ok |-> TRUE])
       \/ Delivers(m) /\ Answer(m, [ok |-> TRUE]) /\ UNCHANGED <<installed, binding>>
       \/ ~Delivers(m) /\ Refused(m) /\ UNCHANGED <<installed, binding>>

CompleteKeepingAttempt(m) ==
    /\ \/ /\ Delivers(m) /\ Install(m) /\ Answer(m, [ok |-> TRUE])
          /\ UNCHANGED <<coordinator, crypto, context, confirmed>>
       \/ Refused(m) /\ FailClosed /\ UNCHANGED <<installed, binding>>
    /\ UNCHANGED <<attempts, sent>>

\* One shot: the attempt ends whatever happens.
Complete(m) ==
    /\ FailClosed /\ UNCHANGED <<attempts, sent>>
    /\ \/ Delivers(m) /\ Install(m) /\ Answer(m, [ok |-> TRUE])
       \/ Refused(m) /\ UNCHANGED <<installed, binding>>

\* session.cancel: only the answer depends on whether the attempt is the current one.
Cancel(m) ==
    /\ FailClosed /\ KeepRest
    /\ Answer(m, [ok |-> coordinator.state = "idle" \/ m.attempt = coordinator.attempt])

DeviceReceives(m) ==
    \/ m.op = "begin" /\ Begin(m)
    \/ m.op = "authorize" /\ Authorize(m)
    \/ m.op = "status" /\ Status(m)
    \/ m.op = "complete" /\ Complete(m)
    \/ m.op = "cancel" /\ Cancel(m)

\* expire() from housekeeping, and disconnect().
SessionEnds ==
    /\ coordinator.state # "idle"
    /\ FailClosed
    /\ UNCHANGED <<binding, attempts, sent, browser, installed>>

\* vault.update by the registered Browser while an attempt is in progress.
VaultUpdate ==
    /\ binding.generation < 1
    /\ binding' = [binding EXCEPT !.generation = @ + 1]
    /\ UNCHANGED <<coordinator, crypto, context, confirmed, attempts, sent, browser, installed>>

-----------------------------------------------------------------------------
(* The Browser: deliverVmkOverSessionV2                                    *)

Send(m) == sent' = sent \cup {m}
Request(b, op) == [op |-> op, from |-> b, number |-> browser[b].number]
Step(b, pc, ctx, attempt, transcript) ==
    browser' = [browser EXCEPT ![b].pc = pc, ![b].ctx = ctx, ![b].attempt = attempt,
                               ![b].transcript = transcript, ![b].reply = None]
Web(b) == <<b, browser[b].number>> \* its ephemeral key, and the key it delivers

\* The contexts a Browser may ask for: what it has stored may be out of date.
Asks(b) ==
    {ctx \in Contexts :
        /\ ctx.generation <= binding.generation
        /\ \/ /\ ctx.op = "unlock" /\ ctx.epoch <= binding.epoch
              /\ ctx.current = b /\ ctx.proposed = None
           \/ /\ ctx.op = "replace" /\ ctx.epoch \in 2..(binding.epoch + 1)
              /\ ctx.current = None /\ ctx.proposed = b}

\* session.begin
Starts(b, ctx) ==
    /\ browser[b].pc \in {"idle", "done"} /\ browser[b].number < MaxDeliveries
    /\ LET n == browser[b].number + 1 IN
         /\ browser' = [browser EXCEPT ![b] = [Quiet(n) EXCEPT !.pc = "begin", !.ctx = ctx]]
         /\ Send([op |-> "begin", from |-> b, number |-> n, ctx |-> ctx])

Replied(b, pc) == browser[b].pc = pc /\ browser[b].reply # None /\ browser[b].reply.ok

\* session.authorize, signed when the operation needs the current Browser.
Authorizes(b) ==
    LET a == browser[b].reply.attempt
        t == Transcript(browser[b].ctx, a, Web(b))
        sig == IF browser[b].ctx.op = "unlock" THEN Sign(b, t) ELSE None
    IN  /\ Replied(b, "begin")
        /\ Step(b, "authorize", browser[b].ctx, a, t)
        /\ Send([op |-> "authorize", from |-> b, number |-> browser[b].number,
                 attempt |-> a, web |-> Web(b), signature |-> sig])

\* session.status, again and again until it is confirmed.
Polls(b) ==
    /\ Replied(b, "authorize") \/ (Replied(b, "status") /\ ~browser[b].reply.confirmed)
    /\ Step(b, "status", browser[b].ctx, browser[b].attempt, browser[b].transcript)
    /\ Send([op |-> "status", from |-> b, number |-> browser[b].number,
             attempt |-> browser[b].attempt])

\* session.complete
Completes(b) ==
    LET t == browser[b].transcript
        key == SessionKey(browser[b].attempt, Web(b), t)
    IN  /\ Replied(b, "status") /\ browser[b].reply.confirmed
        /\ Step(b, "complete", browser[b].ctx, browser[b].attempt, t)
        /\ Send([op |-> "complete", from |-> b, number |-> browser[b].number,
                 attempt |-> browser[b].attempt, sealed |-> Seal(key, Web(b), t)])

Returns(b) ==
    /\ Replied(b, "complete")
    /\ Step(b, "done", browser[b].ctx, browser[b].attempt, browser[b].transcript)
    /\ UNCHANGED sent

\* An error, a time-out or a lost answer: the attempt is cancelled, if it is known.
GivesUp(b) ==
    /\ browser[b].pc \notin {"idle", "done"}
    /\ browser' = [browser EXCEPT ![b] = Quiet(@.number)]
    /\ IF browser[b].attempt = 0 THEN UNCHANGED sent
       ELSE Send([op |-> "cancel", from |-> b, number |-> browser[b].number,
                  attempt |-> browser[b].attempt])

BrowserStep(b) ==
    /\ \/ \E ctx \in Asks(b) : Starts(b, ctx)
       \/ Authorizes(b) \/ Polls(b) \/ Completes(b) \/ Returns(b) \/ GivesUp(b)
    /\ UNCHANGED <<device, installed>>

Next ==
    \/ \E b \in Browsers : BrowserStep(b)
    \/ \E m \in sent : DeviceReceives(m)
    \/ Confirm
    \/ SessionEnds
    \/ VaultUpdate

Spec == Init /\ [][Next]_vars

-----------------------------------------------------------------------------
(* Properties                                                              *)

Owner(ctx) == IF ctx.op = "unlock" THEN ctx.current ELSE ctx.proposed

\* Whatever arrives late or twice, a key the Device installs was sealed, for the very
\* attempt and context the Device installs it under, by the Browser that context names;
\* and no attempt, and no sealed key, is ever used twice.
InjectiveAgreement ==
    \A i \in 1..Len(installed) :
        /\ \E m \in sent :
             /\ m.op = "complete" /\ m.from = Owner(installed[i].context)
             /\ m.sealed.vmk = installed[i].vmk
             /\ m.sealed.aad = Transcript(installed[i].context, installed[i].attempt,
                                          installed[i].vmk)
        /\ \A j \in 1..(i - 1) : /\ installed[i].attempt # installed[j].attempt
                                 /\ installed[i].vmk # installed[j].vmk

\* deliverVmkOverSessionV2 returns only for a key the Device has installed, under the
\* context the Browser asked for.
ReturnMeansInstalled ==
    \A b \in Browsers : browser[b].pc = "done" =>
        \E i \in 1..Len(installed) :
            installed[i].vmk = Web(b) /\ installed[i].context = browser[b].ctx

\* Once a Browser has been replaced, none of its requests, however late, unlocks.
ReplacedBrowserIsOut ==
    \A i, j \in 1..Len(installed) :
        /\ i < j /\ installed[i].context.op = "replace" /\ installed[j].context.op = "unlock"
        /\ \A k \in (i + 1)..(j - 1) : installed[k].context.op = "unlock"
        => installed[j].context.current = installed[i].context.proposed

=============================================================================
