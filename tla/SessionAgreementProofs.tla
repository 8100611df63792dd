----------------------- MODULE SessionAgreementProofs -----------------------
(***************************************************************************)
(* Proofs about SessionAgreement for any Browsers and any numbers of       *)
(* deliveries and attempts, with every request lost, late or repeated.     *)
(***************************************************************************)
EXTENDS SessionAgreement, TLAPS

Replies == [ok : {FALSE}] \cup [ok : {TRUE}] \cup [ok : {TRUE}, attempt : Attempts]
           \cup [ok : {TRUE}, confirmed : BOOLEAN]

Phases == {"idle", "begin", "authorize", "status", "complete", "done"}

Deliveries ==
    [number : 0..MaxDeliveries, pc : Phases, ctx : Contexts \cup {None},
     attempt : 0..MaxAttempts, transcript : Transcripts \cup {None},
     reply : Replies \cup {None}]

BrowserTypes == browser \in [Browsers -> Deliveries]

Installations == [context : Contexts, attempt : Attempts, vmk : Ephemerals]

DeviceTypes ==
    /\ binding \in [generation : 0..MaxAttempts, epoch : 1..(MaxAttempts + 1), brk : Browsers]
    /\ coordinator \in [ctx : Contexts \cup {None}, attempt : 0..MaxAttempts,
                        state : {"idle", "authorization", "presence"},
                        transcript : Transcripts \cup {None}]
    /\ crypto \in 0..MaxAttempts /\ confirmed \in 0..MaxAttempts
    /\ context \in Contexts \cup {None}
    /\ attempts \in 0..MaxAttempts
    /\ installed \in Seq(Installations)

\* The key a request's delivery is about
WebOf(m) == <<m.from, m.number>>

\* What a request says.  A complete is sealed for the context its Browser asked
\* for and for the attempt it was told.
RequestOK(m) ==
    /\ m.from \in Browsers /\ m.number \in 1..MaxDeliveries
    /\ m.op \in {"begin", "authorize", "status", "complete", "cancel"}
    /\ m.op = "begin" => m.ctx \in Contexts
    /\ m.op = "authorize" => m.web = WebOf(m)
    /\ m.op = "complete" =>
         \E c \in Contexts, a \in Attempts :
            /\ Owner(c) = m.from
            /\ m.sealed = Seal(SessionKey(a, WebOf(m), Transcript(c, a, WebOf(m))), WebOf(m),
                               Transcript(c, a, WebOf(m)))

RequestsOK == \A m \in sent : RequestOK(m) /\ m.number <= browser[m.from].number

\* Where a Browser is says what it knows.
BrowserKnows ==
    \A b \in Browsers :
        /\ browser[b].pc # "idle" =>
             /\ browser[b].number \in 1..MaxDeliveries
             /\ browser[b].ctx \in Contexts /\ Owner(browser[b].ctx) = b
        /\ browser[b].pc \in {"authorize", "status", "complete", "done"} =>
             /\ browser[b].attempt \in Attempts
             /\ browser[b].transcript = Transcript(browser[b].ctx, browser[b].attempt, Web(b))
        /\ browser[b].pc = "begin" /\ browser[b].reply # None /\ browser[b].reply.ok =>
             browser[b].reply.attempt \in Attempts

\* A delivery is sealed once, when its Browser completes.
SealedOnce ==
    /\ \A m \in sent : m.op = "complete" /\ m.number = browser[m.from].number =>
         /\ browser[m.from].pc \in {"idle", "complete", "done"}
         /\ browser[m.from].pc # "idle" => m.sealed.aad = browser[m.from].transcript
    /\ \A m, n \in sent : m.op = "complete" /\ n.op = "complete" /\ WebOf(m) = WebOf(n)
         => m.sealed = n.sealed

\* The attempt in progress is the newest and is bound to its context.
AttemptIsBound ==
    /\ coordinator.state # "idle" =>
         /\ coordinator.ctx = context /\ coordinator.attempt \in 1..attempts
         /\ \A i \in 1..Len(installed) : installed[i].attempt # coordinator.attempt
    /\ coordinator.state = "presence" =>
         \E w \in Ephemerals : coordinator.transcript
                                 = Transcript(coordinator.ctx, coordinator.attempt, w)
    /\ \A i \in 1..Len(installed) : installed[i].attempt <= attempts

\* The key of a Browser's delivery is installed.
Has(b) == \E i \in 1..Len(installed) :
             installed[i].vmk = Web(b) /\ installed[i].context = browser[b].ctx

\* A Browser that is told of success has its key installed.
AnswerIsTrue ==
    \A b \in Browsers :
        browser[b].pc = "complete" /\ browser[b].reply # None /\ browser[b].reply.ok => Has(b)

\* The registration is the one the last replacement installed.
RegisteredIsLast ==
    \A i \in 1..Len(installed) :
        /\ installed[i].context.op = "replace"
        /\ \A k \in (i + 1)..Len(installed) : installed[k].context.op = "unlock"
        => binding.brk = installed[i].context.proposed

BrowserInv ==
    /\ BrowserTypes /\ RequestsOK /\ BrowserKnows /\ SealedOnce
    /\ AnswerIsTrue /\ ReturnMeansInstalled

DeviceInv ==
    /\ DeviceTypes /\ AttemptIsBound /\ RegisteredIsLast
    /\ InjectiveAgreement /\ ReplacedBrowserIsOut

IndInv == BrowserInv /\ DeviceInv

-----------------------------------------------------------------------------
(* What an answer and a step of a Browser change                           *)

\* An answer reaches only the Browser that waits for it, and changes only its
\* reply.
LEMMA AnswerEffect ==
    ASSUME BrowserTypes, NEW m, m.from \in Browsers, NEW reply \in Replies, Answer(m, reply)
    PROVE  /\ BrowserTypes'
           /\ \A b \in Browsers :
                /\ browser'[b].number = browser[b].number /\ browser'[b].pc = browser[b].pc
                /\ browser'[b].ctx = browser[b].ctx /\ browser'[b].attempt = browser[b].attempt
                /\ browser'[b].transcript = browser[b].transcript
                /\ \/ browser'[b].reply = browser[b].reply
                   \/ /\ b = m.from /\ browser[b].pc = m.op
                      /\ browser[b].number = m.number /\ browser'[b].reply = reply
<1> USE DEF Deliveries
<1> DEFINE b0 == m.from
<1>1. CASE browser' = browser
  BY <1>1 DEF BrowserTypes
<1>2. CASE /\ browser[b0].pc = m.op /\ browser[b0].number = m.number
           /\ browser' = [browser EXCEPT ![b0].reply = reply]
  <2>1. browser[b0] \in Deliveries
    BY DEF BrowserTypes
  <2>2. browser'[b0] = [browser[b0] EXCEPT !.reply = reply]
    BY <1>2 DEF BrowserTypes
  <2>3. \A b \in Browsers : b # b0 => browser'[b] = browser[b]
    BY <1>2 DEF BrowserTypes
  <2>4. BrowserTypes'
    BY <1>2, <2>1 DEF BrowserTypes
  <2> QED BY <1>2, <2>1, <2>2, <2>3, <2>4
<1> QED BY <1>1, <1>2 DEF Answer

\* A step of a Browser replaces its record but for the number.
LEMMA StepEffect ==
    ASSUME BrowserTypes, NEW b \in Browsers, NEW pc \in Phases, NEW ctx \in Contexts,
           NEW attempt \in 0..MaxAttempts, NEW transcript \in Transcripts,
           Step(b, pc, ctx, attempt, transcript)
    PROVE  /\ BrowserTypes'
           /\ \A x \in Browsers : x # b => browser'[x] = browser[x]
           /\ browser'[b].number = browser[b].number /\ browser'[b].pc = pc
           /\ browser'[b].ctx = ctx /\ browser'[b].attempt = attempt
           /\ browser'[b].transcript = transcript /\ browser'[b].reply = None
<1> USE DEF Deliveries
<1>1. browser[b] \in Deliveries
  BY DEF BrowserTypes
<1>2. browser'[b] = [browser[b] EXCEPT !.pc = pc, !.ctx = ctx, !.attempt = attempt,
                                       !.transcript = transcript, !.reply = None]
  BY DEF BrowserTypes, Step
<1>3. \A x \in Browsers : x # b => browser'[x] = browser[x]
  BY DEF BrowserTypes, Step
<1>4. BrowserTypes'
  <2>1. browser'[b] \in Deliveries
    BY <1>1, <1>2
  <2>2. DOMAIN browser' = Browsers /\ browser' = [x \in Browsers |-> browser'[x]]
    BY DEF BrowserTypes, Step
  <2> QED BY <2>1, <2>2, <1>3 DEF BrowserTypes
<1> QED BY <1>1, <1>2, <1>3, <1>4

-----------------------------------------------------------------------------
(* The Browser's steps                                                     *)

\* The type of what a Browser computes from what it was told.
LEMMA TranscriptType ==
    ASSUME NEW c \in Contexts, NEW a \in Attempts, NEW w \in Ephemerals
    PROVE  Transcript(c, a, w) \in Transcripts
  BY DEF Transcript, Transcripts

\* A Browser only asks for contexts that name it.
LEMMA AsksForItself ==
    ASSUME NEW b \in Browsers, NEW ctx \in Asks(b) PROVE ctx \in Contexts /\ Owner(ctx) = b
  BY DEF Asks, Owner

\* The record of a delivery that has just begun.
LEMMA QuietBegins ==
    ASSUME NEW num, NEW ctx
    PROVE  [Quiet(num) EXCEPT !.pc = "begin", !.ctx = ctx]
             = [number |-> num, pc |-> "begin", ctx |-> ctx, attempt |-> 0,
                transcript |-> None, reply |-> None]
<1> DEFINE f == [Quiet(num) EXCEPT !.pc = "begin", !.ctx = ctx]
<1>1. f = [x \in {"number", "pc", "ctx", "attempt", "transcript", "reply"} |-> f[x]]
  BY DEF Quiet
<1>2. /\ f.number = num /\ f.pc = "begin" /\ f.ctx = ctx
      /\ f.attempt = 0 /\ f.transcript = None /\ f.reply = None
  BY DEF Quiet
<1> HIDE DEF f
<1>3. f = [number |-> num, pc |-> "begin", ctx |-> ctx, attempt |-> 0,
           transcript |-> None, reply |-> None]
  BY <1>1, <1>2
<1> QED BY <1>3 DEF f

\* session.begin opens a delivery with a new number.
LEMMA StartsStep ==
    ASSUME BrowserInv, NEW b \in Browsers, NEW ctx \in Asks(b), Starts(b, ctx),
           UNCHANGED installed
    PROVE  BrowserInv'
<1> DEFINE num == browser[b].number + 1
           rec == [number |-> num, pc |-> "begin", ctx |-> ctx, attempt |-> 0,
                   transcript |-> None, reply |-> None]
<1>1. num \in 1..MaxDeliveries /\ ctx \in Contexts /\ Owner(ctx) = b
  BY AsksForItself, BoundAssumption DEF BrowserInv, BrowserTypes, Deliveries, Starts
<1>2. sent' = sent \cup {[op |-> "begin", from |-> b, number |-> num, ctx |-> ctx]}
  BY DEF Starts, Send
<1>3. browser' = [browser EXCEPT ![b] = rec]
  BY QuietBegins DEF Starts
<1>4. browser[b].number < num /\ browser[b].number \in Nat
  BY BoundAssumption DEF BrowserInv, BrowserTypes, Deliveries
<1> HIDE DEF num
<1>5. rec \in Deliveries
  BY <1>1, BoundAssumption DEF Deliveries, Phases
<1>6. /\ \A x \in Browsers : x # b => browser'[x] = browser[x]
      /\ browser'[b] = rec
  BY <1>3 DEF BrowserInv, BrowserTypes
<1>7. BrowserTypes'
  BY <1>3, <1>5 DEF BrowserInv, BrowserTypes
<1>8. RequestsOK'
  <2> SUFFICES ASSUME NEW m \in sent' PROVE RequestOK(m) /\ m.number <= browser'[m.from].number
    BY DEF RequestsOK, RequestOK, WebOf
  <2>1. CASE m \in sent
    <3>1. RequestOK(m) /\ m.number <= browser[m.from].number
      BY <2>1 DEF BrowserInv, RequestsOK
    <3>2. m.from \in Browsers /\ m.number \in Nat
      BY <3>1, BoundAssumption DEF RequestOK
    <3>3. browser[m.from].number \in Nat
      BY <3>2, BoundAssumption DEF BrowserInv, BrowserTypes, Deliveries
    <3> QED BY <3>1, <3>2, <3>3, <1>1, <1>4, <1>6, BoundAssumption
  <2>2. CASE m = [op |-> "begin", from |-> b, number |-> num, ctx |-> ctx]
    BY <2>2, <1>1, <1>6 DEF RequestOK
  <2> QED BY <2>1, <2>2, <1>2
<1>9. BrowserKnows'
  BY <1>1, <1>6 DEF BrowserInv, BrowserKnows, Web
<1>10. SealedOnce'
  <2>1. \A m \in sent' : m.op = "complete" => m \in sent
    BY <1>2
  <2>2. \A m \in sent : m.number = browser'[m.from].number => m.from # b
    BY <1>4, <1>6 DEF BrowserInv, RequestsOK, RequestOK
  <2>3. \A m \in sent : m.from \in Browsers
    BY DEF BrowserInv, RequestsOK, RequestOK
  <2> QED BY <1>6, <2>1, <2>2, <2>3 DEF BrowserInv, SealedOnce, WebOf
<1>11. AnswerIsTrue'
  <2> SUFFICES ASSUME NEW x \in Browsers, browser'[x].pc = "complete",
                      browser'[x].reply # None, browser'[x].reply.ok
               PROVE  Has(x)'
    BY DEF AnswerIsTrue
  <2>1. browser'[x] = browser[x]
    BY <1>6
  <2>2. Has(x)
    BY <2>1 DEF BrowserInv, AnswerIsTrue
  <2> QED BY <2>1, <2>2 DEF Has, Web
<1>12. ReturnMeansInstalled'
  <2> SUFFICES ASSUME NEW x \in Browsers, browser'[x].pc = "done" PROVE Has(x)'
    BY DEF ReturnMeansInstalled, Has
  <2>1. browser'[x] = browser[x]
    BY <1>6
  <2>2. Has(x)
    BY <2>1 DEF BrowserInv, ReturnMeansInstalled, Has
  <2> QED BY <2>1, <2>2 DEF Has, Web
<1> QED BY <1>7, <1>8, <1>9, <1>10, <1>11, <1>12 DEF BrowserInv

\* What a Browser seals when it completes.
SealedFor(b, ctx, a) == Seal(SessionKey(a, Web(b), Transcript(ctx, a, Web(b))), Web(b),
                             Transcript(ctx, a, Web(b)))

\* A Browser that goes on from one request to the next keeps its delivery.
LEMMA Advance ==
    ASSUME BrowserInv, NEW b \in Browsers,
           NEW next \in {"authorize", "status", "complete", "done"}, NEW a \in Attempts,
           Step(b, next, browser[b].ctx, a, Transcript(browser[b].ctx, a, Web(b))),
           UNCHANGED installed, sent \subseteq sent',
           \A m \in sent' \ sent : RequestOK(m) /\ m.from = b /\ m.number = browser[b].number,
           \A m \in sent' \ sent : m.op = "complete" =>
                next = "complete" /\ m.sealed = SealedFor(b, browser[b].ctx, a),
           next = "done" => browser[b].pc = "complete" /\ browser[b].attempt = a /\ Has(b),
           next # "done" => browser[b].pc \in {"begin", "authorize", "status"}
    PROVE  BrowserInv'
<1> DEFINE t == Transcript(browser[b].ctx, a, Web(b))
           M == sent' \ sent
           sealed == SealedFor(b, browser[b].ctx, a)
<1>0. sealed.aad = t
  BY DEF SealedFor, Seal
<1> HIDE DEF sealed
<1>1. /\ browser[b].number \in 1..MaxDeliveries /\ browser[b].ctx \in Contexts
      /\ Owner(browser[b].ctx) = b
  BY DEF BrowserInv, BrowserKnows
<1>2. t \in Transcripts
  BY <1>1, TranscriptType DEF Web, Ephemerals
<1>3. next \in Phases /\ a \in 0..MaxAttempts
  BY BoundAssumption DEF Phases, Attempts
<1>4. /\ BrowserTypes'
      /\ \A x \in Browsers : x # b => browser'[x] = browser[x]
      /\ browser'[b].number = browser[b].number /\ browser'[b].pc = next
      /\ browser'[b].ctx = browser[b].ctx /\ browser'[b].attempt = a
      /\ browser'[b].transcript = t /\ browser'[b].reply = None
  <2> HIDE DEF t
  <2>1. Step(b, next, browser[b].ctx, a, t)
    BY DEF t
  <2> QED BY <1>1, <1>2, <1>3, <2>1, StepEffect DEF BrowserInv
<1>5. \A x \in Browsers : browser'[x].number = browser[x].number /\ browser'[x].ctx = browser[x].ctx
  BY <1>4
<1>6. RequestsOK'
  <2> SUFFICES ASSUME NEW m \in sent' PROVE RequestOK(m) /\ m.number <= browser'[m.from].number
    BY DEF RequestsOK, RequestOK, WebOf
  <2>1. CASE m \in sent
    <3>1. RequestOK(m) /\ m.number <= browser[m.from].number
      BY <2>1 DEF BrowserInv, RequestsOK
    <3>2. m.from \in Browsers
      BY <3>1 DEF RequestOK
    <3> QED BY <3>1, <3>2, <1>5
  <2>2. CASE m \in M
    BY <2>2, <1>1, <1>5
  <2> QED BY <2>1, <2>2
<1>7. BrowserKnows'
  BY <1>1, <1>4 DEF BrowserInv, BrowserKnows, Web
<1>8. \A m \in sent : m.from \in Browsers
  BY DEF BrowserInv, RequestsOK, RequestOK
<1>9. \A m \in sent : m.op = "complete" /\ m.from = b /\ m.number = browser[b].number
         => next = "done" /\ m.sealed.aad = t
  BY DEF BrowserInv, SealedOnce, BrowserKnows
<1>10. SealedOnce'
  <2> HIDE DEF t
  <2>1. ASSUME NEW m \in sent', m.op = "complete", m.number = browser'[m.from].number
        PROVE  /\ browser'[m.from].pc \in {"idle", "complete", "done"}
               /\ browser'[m.from].pc # "idle" => m.sealed.aad = browser'[m.from].transcript
    <3>1. CASE m \in sent /\ m.from = b
      BY <3>1, <2>1, <1>4, <1>9
    <3>2. CASE m \in sent /\ m.from # b
      BY <3>2, <2>1, <1>4, <1>8 DEF BrowserInv, SealedOnce
    <3>3. CASE m \in M
      BY <3>3, <2>1, <1>0, <1>4 DEF sealed
    <3> QED BY <3>1, <3>2, <3>3
  <2>2. ASSUME NEW m \in sent', NEW n \in sent', m.op = "complete", n.op = "complete",
               WebOf(m) = WebOf(n)
        PROVE  m.sealed = n.sealed
    <3>1. m.from = n.from /\ m.number = n.number
      BY <2>2 DEF WebOf
    <3>2. CASE m \in sent /\ n \in sent
      BY <3>2, <2>2 DEF BrowserInv, SealedOnce
    <3>3. CASE m \in M /\ n \in M
      BY <3>3, <2>2
    <3>4. CASE m \in M /\ n \in sent
      BY <3>4, <3>1, <2>2, <1>9
    <3>5. CASE m \in sent /\ n \in M
      BY <3>5, <3>1, <2>2, <1>9
    <3> QED BY <3>2, <3>3, <3>4, <3>5
  <2> QED BY <2>1, <2>2 DEF SealedOnce, WebOf
<1>11. \A x \in Browsers : Has(x)' <=> Has(x)
  BY <1>5 DEF Has, Web
<1>12. AnswerIsTrue'
  BY <1>4, <1>11 DEF BrowserInv, AnswerIsTrue
<1>13. ReturnMeansInstalled'
  <2> SUFFICES ASSUME NEW x \in Browsers, browser'[x].pc = "done" PROVE Has(x)
    BY <1>11 DEF ReturnMeansInstalled, Has
  <2>1. CASE x = b
    BY <2>1, <1>4
  <2>2. CASE x # b
    BY <2>2, <1>4 DEF BrowserInv, ReturnMeansInstalled, Has
  <2> QED BY <2>1, <2>2
<1> QED BY <1>4, <1>6, <1>7, <1>10, <1>12, <1>13 DEF BrowserInv

\* session.authorize, for the attempt the Browser was told.
LEMMA AuthorizesStep ==
    ASSUME BrowserInv, NEW b \in Browsers, Authorizes(b), UNCHANGED installed PROVE BrowserInv'
<1> DEFINE a == browser[b].reply.attempt
           t == Transcript(browser[b].ctx, a, Web(b))
           m == [op |-> "authorize", from |-> b, number |-> browser[b].number, attempt |-> a,
                 web |-> Web(b),
                 signature |-> IF browser[b].ctx.op = "unlock" THEN Sign(b, t) ELSE None]
<1>1. browser[b].pc = "begin" /\ a \in Attempts /\ browser[b].number \in 1..MaxDeliveries
  BY DEF Authorizes, Replied, BrowserInv, BrowserKnows
<1>2. Step(b, "authorize", browser[b].ctx, a, t) /\ sent' = sent \cup {m}
  BY DEF Authorizes, Send
<1>3. RequestOK(m) /\ m.from = b /\ m.number = browser[b].number /\ m.op = "authorize"
  BY <1>1 DEF RequestOK, WebOf, Web
<1> HIDE DEF a, m
<1> QED BY <1>1, <1>2, <1>3, Advance

\* session.status.
LEMMA PollsStep ==
    ASSUME BrowserInv, NEW b \in Browsers, Polls(b), UNCHANGED installed PROVE BrowserInv'
<1> DEFINE a == browser[b].attempt
           t == Transcript(browser[b].ctx, a, Web(b))
           m == [op |-> "status", from |-> b, number |-> browser[b].number, attempt |-> a]
<1>1. /\ browser[b].pc \in {"authorize", "status"} /\ a \in Attempts
      /\ browser[b].number \in 1..MaxDeliveries /\ browser[b].transcript = t
  BY DEF Polls, Replied, BrowserInv, BrowserKnows
<1>2. Step(b, "status", browser[b].ctx, a, t) /\ sent' = sent \cup {m}
  BY <1>1 DEF Polls, Send
<1>3. RequestOK(m) /\ m.from = b /\ m.number = browser[b].number /\ m.op = "status"
  BY <1>1 DEF RequestOK
<1> HIDE DEF a, m
<1> QED BY <1>1, <1>2, <1>3, Advance

\* session.complete, sealed for the transcript of the attempt.
LEMMA CompletesStep ==
    ASSUME BrowserInv, NEW b \in Browsers, Completes(b), UNCHANGED installed PROVE BrowserInv'
<1> DEFINE a == browser[b].attempt
           t == Transcript(browser[b].ctx, a, Web(b))
           sealed == SealedFor(b, browser[b].ctx, a)
           m == [op |-> "complete", from |-> b, number |-> browser[b].number, attempt |-> a,
                 sealed |-> sealed]
<1>1. /\ browser[b].pc = "status" /\ a \in Attempts /\ browser[b].ctx \in Contexts
      /\ Owner(browser[b].ctx) = b
      /\ browser[b].number \in 1..MaxDeliveries /\ browser[b].transcript = t
  BY DEF Completes, Replied, BrowserInv, BrowserKnows
<1>2. Step(b, "complete", browser[b].ctx, a, t) /\ sent' = sent \cup {m}
  BY <1>1 DEF Completes, Send, SealedFor
<1>3. m.from = b /\ m.number = browser[b].number /\ m.op = "complete" /\ m.sealed = sealed
  OBVIOUS
<1>4. RequestOK(m)
  <2>1. WebOf(m) = Web(b)
    BY <1>3 DEF WebOf, Web
  <2> HIDE DEF m
  <2> QED BY <1>1, <1>3, <2>1 DEF RequestOK, SealedFor
<1> HIDE DEF a, m
<1> QED BY <1>1, <1>2, <1>3, <1>4, Advance

\* The delivery returns only after an answer of success.
LEMMA ReturnsStep ==
    ASSUME BrowserInv, NEW b \in Browsers, Returns(b), UNCHANGED installed PROVE BrowserInv'
<1> DEFINE a == browser[b].attempt
           t == Transcript(browser[b].ctx, a, Web(b))
<1>1. /\ browser[b].pc = "complete" /\ a \in Attempts /\ browser[b].transcript = t
      /\ Has(b)
  BY DEF Returns, Replied, BrowserInv, BrowserKnows, AnswerIsTrue
<1>2. Step(b, "done", browser[b].ctx, a, t) /\ sent' = sent
  BY <1>1 DEF Returns
<1> QED BY <1>1, <1>2, Advance

\* Giving up forgets the delivery but not its number.
LEMMA GivesUpStep ==
    ASSUME BrowserInv, NEW b \in Browsers, GivesUp(b), UNCHANGED installed PROVE BrowserInv'
<1>1. /\ browser[b].number \in 1..MaxDeliveries /\ browser[b] \in Deliveries
      /\ \A x \in Browsers : browser[x].number \in Nat
  BY BoundAssumption DEF GivesUp, BrowserInv, BrowserKnows, BrowserTypes, Deliveries
<1>2. /\ \A x \in Browsers : x # b => browser'[x] = browser[x]
      /\ browser'[b] = Quiet(browser[b].number)
  BY DEF GivesUp, BrowserInv, BrowserTypes
<1>3. /\ browser'[b].number = browser[b].number /\ browser'[b].pc = "idle"
      /\ browser'[b] \in Deliveries
  BY <1>1, <1>2, BoundAssumption DEF Quiet, Deliveries, Phases
<1>4. BrowserTypes'
  BY <1>3 DEF GivesUp, BrowserInv, BrowserTypes, Quiet
<1>5. \A m \in sent' : m \in sent \/ (RequestOK(m) /\ m.op = "cancel" /\ m.from = b
                                      /\ m.number = browser[b].number)
  BY <1>1 DEF GivesUp, Send, RequestOK
<1>6. \A m \in sent : RequestOK(m) /\ m.from \in Browsers /\ m.number <= browser[m.from].number
  BY DEF BrowserInv, RequestsOK, RequestOK
<1>7. RequestsOK'
  <2> SUFFICES ASSUME NEW m \in sent' PROVE RequestOK(m) /\ m.number <= browser'[m.from].number
    BY DEF RequestsOK, RequestOK, WebOf
  <2>1. CASE m \in sent
    BY <2>1, <1>2, <1>3, <1>6
  <2>2. CASE m \notin sent
    BY <2>2, <1>1, <1>3, <1>5
  <2> QED BY <2>1, <2>2
<1>8. BrowserKnows'
  BY <1>2, <1>3 DEF BrowserInv, BrowserKnows, Web
<1>9. SealedOnce'
  <2>1. \A m \in sent' : m.op = "complete" => m \in sent
    BY <1>5
  <2> QED BY <1>2, <1>3, <1>6, <2>1 DEF BrowserInv, SealedOnce, WebOf
<1>10. ASSUME NEW x \in Browsers, browser'[x].pc \in {"complete", "done"}
       PROVE  browser'[x] = browser[x] /\ (Has(x)' <=> Has(x))
  <2>1. browser'[x] = browser[x]
    BY <1>10, <1>2, <1>3
  <2> QED BY <2>1 DEF Has, Web
<1>11. AnswerIsTrue'
  BY <1>10 DEF BrowserInv, AnswerIsTrue
<1>12. ReturnMeansInstalled'
  <2> SUFFICES ASSUME NEW x \in Browsers, browser'[x].pc = "done" PROVE Has(x)'
    BY DEF ReturnMeansInstalled, Has
  <2>1. Has(x)
    BY <1>10 DEF BrowserInv, ReturnMeansInstalled, Has
  <2> QED BY <2>1, <1>10
<1> QED BY <1>4, <1>7, <1>8, <1>9, <1>11, <1>12 DEF BrowserInv

-----------------------------------------------------------------------------
(* The Device's steps and what the Browsers know                           *)

\* What the history of installations promises is kept by a step that installs
\* nothing and registers nobody.
LEMMA HistoryKept ==
    ASSUME RegisteredIsLast, InjectiveAgreement, ReplacedBrowserIsOut,
           UNCHANGED installed, binding'.brk = binding.brk, sent \subseteq sent'
    PROVE  RegisteredIsLast' /\ InjectiveAgreement' /\ ReplacedBrowserIsOut'
<1>1. RegisteredIsLast'
  BY DEF RegisteredIsLast
<1>2. InjectiveAgreement'
  BY DEF InjectiveAgreement, Transcript
<1>3. ReplacedBrowserIsOut'
  BY DEF ReplacedBrowserIsOut
<1> QED BY <1>1, <1>2, <1>3

\* The Browsers do not reach into the Device.
LEMMA BrowserKeepsDevice ==
    ASSUME DeviceInv, UNCHANGED <<device, installed>>, sent \subseteq sent'
    PROVE  DeviceInv'
<1> USE DEF device
<1>1. DeviceTypes' /\ AttemptIsBound'
  BY DEF DeviceInv, DeviceTypes, AttemptIsBound, Transcript
<1> QED BY <1>1, HistoryKept DEF DeviceInv

\* An answer keeps what the Browsers know, if what it says is true.
LEMMA AnswerKeeps ==
    ASSUME BrowserInv, NEW m, m.from \in Browsers, NEW reply \in Replies, Answer(m, reply),
           UNCHANGED sent,
           Len(installed) \in Nat, Len(installed') \in Nat, Len(installed) <= Len(installed'),
           \A i \in 1..Len(installed) : installed'[i] = installed[i],
           m.op = "begin" /\ reply.ok => reply.attempt \in Attempts,
           m.op = "complete" /\ reply.ok /\ browser[m.from].pc = "complete"
             /\ browser[m.from].number = m.number =>
                \E i \in 1..Len(installed') : /\ installed'[i].vmk = Web(m.from)
                                              /\ installed'[i].context = browser[m.from].ctx
    PROVE  BrowserInv'
<1>1. /\ BrowserTypes'
      /\ \A b \in Browsers :
           /\ browser'[b].number = browser[b].number /\ browser'[b].pc = browser[b].pc
           /\ browser'[b].ctx = browser[b].ctx /\ browser'[b].attempt = browser[b].attempt
           /\ browser'[b].transcript = browser[b].transcript
           /\ \/ browser'[b].reply = browser[b].reply
              \/ /\ b = m.from /\ browser[b].pc = m.op
                 /\ browser[b].number = m.number /\ browser'[b].reply = reply
  BY AnswerEffect DEF BrowserInv
<1>2. RequestsOK'
  <2> SUFFICES ASSUME NEW n \in sent PROVE RequestOK(n) /\ n.number <= browser'[n.from].number
    BY DEF RequestsOK, RequestOK, WebOf
  <2>1. RequestOK(n) /\ n.number <= browser[n.from].number
    BY DEF BrowserInv, RequestsOK
  <2>2. n.from \in Browsers
    BY <2>1 DEF RequestOK
  <2> QED BY <2>1, <2>2, <1>1
<1>3. BrowserKnows'
  <2> SUFFICES ASSUME NEW b \in Browsers
               PROVE  /\ browser'[b].pc # "idle" =>
                           /\ browser'[b].number \in 1..MaxDeliveries
                           /\ browser'[b].ctx \in Contexts /\ Owner(browser'[b].ctx) = b
                      /\ browser'[b].pc \in {"authorize", "status", "complete", "done"} =>
                           /\ browser'[b].attempt \in Attempts
                           /\ browser'[b].transcript
                                = Transcript(browser'[b].ctx, browser'[b].attempt, Web(b)')
                      /\ browser'[b].pc = "begin" /\ browser'[b].reply # None
                           /\ browser'[b].reply.ok => browser'[b].reply.attempt \in Attempts
    BY DEF BrowserKnows, Transcript
  <2>1. Web(b)' = Web(b)
    BY <1>1 DEF Web
  <2> QED BY <1>1, <2>1 DEF BrowserInv, BrowserKnows
<1>4. SealedOnce'
  <2>1. \A n \in sent : n.from \in Browsers
    BY DEF BrowserInv, RequestsOK, RequestOK
  <2> QED BY <1>1, <2>1 DEF BrowserInv, SealedOnce, WebOf
<1>5. \A b \in Browsers : Has(b) => Has(b)'
  BY <1>1 DEF Has, Web
<1>6. AnswerIsTrue'
  <2> SUFFICES ASSUME NEW b \in Browsers, browser'[b].pc = "complete",
                      browser'[b].reply # None, browser'[b].reply.ok
               PROVE  Has(b)'
    BY DEF AnswerIsTrue
  <2>1. CASE browser'[b].reply = browser[b].reply
    BY <2>1, <1>1, <1>5 DEF BrowserInv, AnswerIsTrue
  <2>2. CASE /\ b = m.from /\ browser[b].pc = m.op
             /\ browser[b].number = m.number /\ browser'[b].reply = reply
    BY <2>2, <1>1 DEF Has, Web
  <2> QED BY <2>1, <2>2, <1>1
<1>7. ReturnMeansInstalled'
  <2> SUFFICES ASSUME NEW b \in Browsers, browser'[b].pc = "done" PROVE Has(b)'
    BY DEF ReturnMeansInstalled, Has
  <2>1. Has(b)
    BY <1>1 DEF BrowserInv, ReturnMeansInstalled, Has
  <2> QED BY <2>1, <1>5
<1> QED BY <1>1, <1>2, <1>3, <1>4, <1>6, <1>7 DEF BrowserInv

\* An answer that says neither which attempt was begun nor that a key was
\* installed keeps what the Browsers know.
LEMMA PlainAnswerKeeps ==
    ASSUME BrowserInv, DeviceTypes, NEW m \in sent, NEW reply \in Replies, Answer(m, reply),
           UNCHANGED <<sent, installed>>, m.op \in {"begin", "complete"} => ~reply.ok
    PROVE  BrowserInv'
<1>1. m.from \in Browsers
  BY DEF BrowserInv, RequestsOK, RequestOK
<1>2. Len(installed) \in Nat
  BY DEF DeviceTypes
<1> QED BY <1>1, <1>2, AnswerKeeps

\* A refusal keeps what the Browsers know.
LEMMA RefusedKeeps ==
    ASSUME BrowserInv, DeviceTypes, NEW m \in sent, Refused(m), UNCHANGED <<sent, installed>>
    PROVE  BrowserInv'
<1> DEFINE reply == [ok |-> FALSE]
<1>1. reply \in Replies /\ ~reply.ok /\ Answer(m, reply)
  BY DEF Replies, Refused
<1> HIDE DEF reply
<1> QED BY <1>1, PlainAnswerKeeps

\* Ending the attempt in progress keeps what the Device promises.
LEMMA FailClosedKeeps ==
    ASSUME DeviceInv, FailClosed, UNCHANGED <<binding, attempts, installed>>, sent \subseteq sent'
    PROVE  DeviceInv'
<1>1. DeviceTypes'
  <2>1. Idle \in [ctx : Contexts \cup {None}, attempt : 0..MaxAttempts,
                  state : {"idle", "authorization", "presence"},
                  transcript : Transcripts \cup {None}]
    BY BoundAssumption DEF Idle
  <2> QED BY <2>1, BoundAssumption DEF DeviceInv, DeviceTypes, FailClosed
<1>2. AttemptIsBound'
  <2>1. Idle.state = "idle"
    BY DEF Idle
  <2> QED BY <2>1 DEF DeviceInv, AttemptIsBound, FailClosed
<1> QED BY <1>1, <1>2, HistoryKept DEF DeviceInv

-----------------------------------------------------------------------------
(* The Device's steps                                                      *)

\* The record of an attempt that has just begun.
LEMMA IdleBegins ==
    ASSUME NEW ctx, NEW a
    PROVE  [Idle EXCEPT !.ctx = ctx, !.attempt = a, !.state = "authorization"]
             = [ctx |-> ctx, attempt |-> a, state |-> "authorization", transcript |-> None]
<1> DEFINE f == [Idle EXCEPT !.ctx = ctx, !.attempt = a, !.state = "authorization"]
<1>1. f = [x \in {"ctx", "attempt", "state", "transcript"} |-> f[x]]
  BY DEF Idle
<1>2. f.ctx = ctx /\ f.attempt = a /\ f.state = "authorization" /\ f.transcript = None
  BY DEF Idle
<1> HIDE DEF f
<1>3. f = [ctx |-> ctx, attempt |-> a, state |-> "authorization", transcript |-> None]
  BY <1>1, <1>2
<1> QED BY <1>3 DEF f

\* session.begin: the new attempt is newer than every installation's.
LEMMA BeginStep ==
    ASSUME IndInv, NEW m \in sent, m.op = "begin", Begin(m) PROVE IndInv'
<1>1. CASE FailClosed /\ Refused(m) /\ KeepRest
  BY <1>1, RefusedKeeps, FailClosedKeeps DEF IndInv, KeepRest, DeviceInv
<1>2. CASE ~(FailClosed /\ Refused(m) /\ KeepRest)
  <2> DEFINE a == attempts + 1
             reply == [ok |-> TRUE, attempt |-> a]
  <2>1. /\ attempts \in Nat /\ a \in 1..MaxAttempts /\ a \in Attempts
        /\ m.ctx \in Contexts /\ m.from \in Browsers
        /\ Len(installed) \in Nat
    BY <1>2, BoundAssumption
       DEF Begin, IndInv, DeviceInv, DeviceTypes, BrowserInv, RequestsOK, RequestOK, Attempts
  <2>2. /\ coordinator' = [Idle EXCEPT !.ctx = m.ctx, !.attempt = a, !.state = "authorization"]
        /\ attempts' = a /\ crypto' = a /\ confirmed' = 0 /\ context' = m.ctx
        /\ Answer(m, reply) /\ UNCHANGED <<binding, sent, installed>>
    BY <1>2 DEF Begin
  <2>3. BrowserInv'
    <3>1. reply \in Replies /\ reply.attempt \in Attempts
      BY <2>1 DEF Replies
    <3> HIDE DEF reply
    <3> QED BY <2>1, <2>2, <3>1, AnswerKeeps DEF IndInv
  <2>4. coordinator' \in [ctx : Contexts \cup {None}, attempt : 0..MaxAttempts,
                          state : {"idle", "authorization", "presence"},
                          transcript : Transcripts \cup {None}]
        /\ coordinator'.ctx = m.ctx /\ coordinator'.attempt = a
        /\ coordinator'.state = "authorization"
    <3>1. coordinator' = [ctx |-> m.ctx, attempt |-> a, state |-> "authorization",
                          transcript |-> None]
      BY <2>2, IdleBegins
    <3>2. a \in 0..MaxAttempts
      BY <2>1, BoundAssumption
    <3> HIDE DEF a
    <3> QED BY <2>1, <3>1, <3>2
  <2>5. DeviceTypes'
    BY <2>1, <2>2, <2>4, BoundAssumption DEF IndInv, DeviceInv, DeviceTypes
  <2>6. \A i \in 1..Len(installed) : installed[i].attempt <= attempts
                                     /\ installed[i].attempt \in Nat
    <3> SUFFICES ASSUME NEW i \in 1..Len(installed)
                 PROVE  installed[i].attempt <= attempts /\ installed[i].attempt \in Nat
      OBVIOUS
    <3>1. installed[i] \in Installations
      BY DEF IndInv, DeviceInv, DeviceTypes
    <3>2. installed[i].attempt \in Nat
      BY <3>1, BoundAssumption DEF Installations, Attempts
    <3> QED BY <3>2 DEF IndInv, DeviceInv, AttemptIsBound
  <2>7. AttemptIsBound'
    BY <2>1, <2>2, <2>4, <2>6 DEF AttemptIsBound
  <2> QED BY <2>2, <2>3, <2>5, <2>7, HistoryKept DEF IndInv, DeviceInv
<1> QED BY <1>1, <1>2

\* session.authorize binds the attempt to one key of a Browser.
LEMMA AuthorizeStep ==
    ASSUME IndInv, NEW m \in sent, m.op = "authorize", Authorize(m) PROVE IndInv'
<1>1. CASE FailClosed /\ Refused(m) /\ KeepRest
  BY <1>1, RefusedKeeps, FailClosedKeeps DEF IndInv, KeepRest, DeviceInv
<1>2. CASE ~(FailClosed /\ Refused(m) /\ KeepRest)
  <2> DEFINE t == Transcript(coordinator.ctx, coordinator.attempt, m.web)
             reply == [ok |-> TRUE]
  <2>1. /\ Current(m) /\ coordinator.state = "authorization"
        /\ coordinator' = [coordinator EXCEPT !.state = "presence", !.transcript = t]
        /\ confirmed' = 0 /\ Answer(m, reply)
        /\ UNCHANGED <<crypto, context, binding, attempts, sent, installed>>
    BY <1>2 DEF Authorize, KeepRest
  <2>2. /\ coordinator.ctx = context /\ context \in Contexts
        /\ coordinator.attempt \in 1..attempts /\ coordinator.attempt \in Attempts
    BY <2>1, BoundAssumption
       DEF Current, IndInv, DeviceInv, AttemptIsBound, DeviceTypes, Attempts
  <2>3. m.web \in Ephemerals
    <3>1. m.web = WebOf(m) /\ m.from \in Browsers /\ m.number \in 1..MaxDeliveries
      BY DEF IndInv, BrowserInv, RequestsOK, RequestOK
    <3> QED BY <3>1 DEF WebOf, Ephemerals
  <2>4. t \in Transcripts
    BY <2>2, <2>3, TranscriptType
  <2>5. BrowserInv'
    <3>1. reply \in Replies
      BY DEF Replies
    <3> HIDE DEF reply
    <3> QED BY <2>1, <3>1, PlainAnswerKeeps DEF IndInv, DeviceInv
  <2>6. t = Transcript(coordinator.ctx, coordinator.attempt, m.web)
    OBVIOUS
  <2> HIDE DEF t
  <2>7. coordinator' \in [ctx : Contexts \cup {None}, attempt : 0..MaxAttempts,
                          state : {"idle", "authorization", "presence"},
                          transcript : Transcripts \cup {None}]
        /\ coordinator'.ctx = coordinator.ctx /\ coordinator'.attempt = coordinator.attempt
        /\ coordinator'.state = "presence" /\ coordinator'.transcript = t
    BY <2>1, <2>4 DEF IndInv, DeviceInv, DeviceTypes
  <2>8. DeviceTypes'
    BY <2>1, <2>7, BoundAssumption DEF IndInv, DeviceInv, DeviceTypes
  <2>9. AttemptIsBound'
    BY <2>1, <2>2, <2>3, <2>6, <2>7 DEF IndInv, DeviceInv, AttemptIsBound, Transcript
  <2> QED BY <2>1, <2>5, <2>8, <2>9, HistoryKept DEF IndInv, DeviceInv
<1> QED BY <1>1, <1>2

\* session.status changes nothing, or ends the attempt.
LEMMA StatusStep ==
    ASSUME IndInv, NEW m \in sent, m.op = "status", Status(m) PROVE IndInv'
<1>1. CASE FailClosed /\ Refused(m) /\ KeepRest
  BY <1>1, RefusedKeeps, FailClosedKeeps DEF IndInv, KeepRest, DeviceInv
<1>2. CASE ~(FailClosed /\ Refused(m) /\ KeepRest)
  <2> DEFINE reply == [ok |-> TRUE, confirmed |-> coordinator.state = "presence"
                                                   /\ confirmed = coordinator.attempt]
  <2>1. Answer(m, reply) /\ UNCHANGED <<device, sent, installed>>
    BY <1>2 DEF Status, KeepRest, device
  <2>2. reply \in Replies
    BY DEF Replies
  <2> HIDE DEF reply
  <2>3. BrowserInv'
    BY <2>1, <2>2, PlainAnswerKeeps DEF IndInv, DeviceInv
  <2> QED BY <2>1, <2>3, BrowserKeepsDevice DEF IndInv
<1> QED BY <1>1, <1>2

\* session.cancel ends the attempt; no Browser waits for its answer.
LEMMA CancelStep ==
    ASSUME IndInv, NEW m \in sent, m.op = "cancel", Cancel(m) PROVE IndInv'
<1> DEFINE reply == [ok |-> coordinator.state = "idle" \/ m.attempt = coordinator.attempt]
<1>1. FailClosed /\ Answer(m, reply) /\ UNCHANGED <<binding, attempts, sent, installed>>
  BY DEF Cancel, KeepRest
<1>2. reply \in Replies
  BY DEF Replies
<1> HIDE DEF reply
<1> QED BY <1>1, <1>2, PlainAnswerKeeps, FailClosedKeeps DEF IndInv, DeviceInv

\* What the Device opens was sealed for its own attempt and context.
LEMMA OpenedIsBound ==
    ASSUME IndInv, NEW m \in sent, m.op = "complete", Delivers(m)
    PROVE  /\ context \in Contexts /\ coordinator.attempt \in Attempts
           /\ coordinator.attempt <= attempts
           /\ WebOf(m) \in Ephemerals /\ m.sealed.vmk = WebOf(m) /\ Owner(context) = m.from
           /\ m.sealed.aad = Transcript(context, coordinator.attempt, WebOf(m))
           /\ MatchesSnapshot(context)
<1>1. /\ Current(m) /\ coordinator.state = "presence"
      /\ m.sealed.aad = coordinator.transcript
  BY DEF Delivers, OpensNow, Opens
<1>2. /\ coordinator.ctx = context /\ context \in Contexts /\ MatchesSnapshot(context)
      /\ coordinator.attempt \in Attempts /\ coordinator.attempt <= attempts
  BY <1>1, BoundAssumption DEF Current, IndInv, DeviceInv, AttemptIsBound, DeviceTypes, Attempts
<1>3. PICK w \in Ephemerals :
        coordinator.transcript = Transcript(coordinator.ctx, coordinator.attempt, w)
  BY <1>1 DEF IndInv, DeviceInv, AttemptIsBound
<1>4. RequestOK(m)
  BY DEF IndInv, BrowserInv, RequestsOK
<1>5. WebOf(m) \in Ephemerals
  BY <1>4 DEF RequestOK, WebOf, Ephemerals
<1>6. PICK c \in Contexts, a \in Attempts :
        /\ Owner(c) = m.from
        /\ m.sealed = Seal(SessionKey(a, WebOf(m), Transcript(c, a, WebOf(m))), WebOf(m),
                           Transcript(c, a, WebOf(m)))
  BY <1>4 DEF RequestOK
<1>7. m.sealed.vmk = WebOf(m) /\ m.sealed.aad = Transcript(c, a, WebOf(m))
  BY <1>6 DEF Seal
<1>8. Transcript(c, a, WebOf(m)) = Transcript(context, coordinator.attempt, w)
  BY <1>1, <1>2, <1>3, <1>7
<1>9. c = context /\ a = coordinator.attempt /\ w = WebOf(m)
  BY <1>8 DEF Transcript
<1> QED BY <1>2, <1>5, <1>6, <1>7, <1>9

\* What the Device opens was never installed before.
LEMMA OpenedIsNew ==
    ASSUME IndInv, NEW m \in sent, m.op = "complete", Delivers(m), NEW i \in 1..Len(installed)
    PROVE  installed[i].attempt # coordinator.attempt /\ installed[i].vmk # WebOf(m)
<1>1. installed[i].attempt # coordinator.attempt
  BY DEF Delivers, IndInv, DeviceInv, AttemptIsBound
<1>2. ASSUME installed[i].vmk = WebOf(m) PROVE FALSE
  <2>1. PICK n \in sent :
          /\ n.op = "complete" /\ n.sealed.vmk = installed[i].vmk
          /\ n.sealed.aad = Transcript(installed[i].context, installed[i].attempt,
                                       installed[i].vmk)
    BY DEF IndInv, DeviceInv, InjectiveAgreement
  <2>2. n.sealed.vmk = WebOf(n)
    <3>1. RequestOK(n)
      BY DEF IndInv, BrowserInv, RequestsOK
    <3>2. PICK c \in Contexts, a \in Attempts :
            n.sealed = Seal(SessionKey(a, WebOf(n), Transcript(c, a, WebOf(n))), WebOf(n),
                            Transcript(c, a, WebOf(n)))
      BY <3>1, <2>1 DEF RequestOK
    <3> QED BY <3>2 DEF Seal
  <2>3. n.sealed = m.sealed
    BY <1>2, <2>1, <2>2 DEF IndInv, BrowserInv, SealedOnce
  <2>4. Transcript(installed[i].context, installed[i].attempt, installed[i].vmk)
          = Transcript(context, coordinator.attempt, WebOf(m))
    BY <2>1, <2>3, OpenedIsBound
  <2> QED BY <2>4, <1>1 DEF Transcript
<1> QED BY <1>1, <1>2

\* What the installed key adds to the history.
LEMMA InstallEffect ==
    ASSUME IndInv, NEW m \in sent, m.op = "complete", Delivers(m), Install(m)
    PROVE  /\ installed' \in Seq(Installations) /\ Len(installed) \in Nat
           /\ Len(installed') = Len(installed) + 1
           /\ \A i \in 1..Len(installed) : installed'[i] = installed[i]
           /\ installed'[Len(installed) + 1].context = context
           /\ installed'[Len(installed) + 1].attempt = coordinator.attempt
           /\ installed'[Len(installed) + 1].vmk = WebOf(m)
           /\ installed'[Len(installed) + 1] \in Installations
<1> DEFINE new == [context |-> context, attempt |-> coordinator.attempt, vmk |-> m.sealed.vmk]
<1>1. new \in Installations
  BY OpenedIsBound DEF Installations
<1>2. /\ new.context = context /\ new.attempt = coordinator.attempt /\ new.vmk = WebOf(m)
  BY OpenedIsBound
<1>3. installed' = Append(installed, new)
  BY DEF Install
<1>4. installed \in Seq(Installations)
  BY DEF IndInv, DeviceInv, DeviceTypes
<1> HIDE DEF new
<1> QED BY <1>1, <1>2, <1>3, <1>4

\* An installed key keeps the history's promises: it is the answer to the one
\* request its Browser sealed, and registers whom it names.
LEMMA InstallKeepsHistory ==
    ASSUME IndInv, NEW m \in sent, m.op = "complete", Delivers(m), Install(m), UNCHANGED sent
    PROVE  RegisteredIsLast' /\ InjectiveAgreement' /\ ReplacedBrowserIsOut'
<1> DEFINE n == Len(installed)
<1>1. /\ n \in Nat /\ Len(installed') = n + 1
      /\ \A i \in 1..n : installed'[i] = installed[i]
      /\ installed'[n + 1].context = context
      /\ installed'[n + 1].attempt = coordinator.attempt /\ installed'[n + 1].vmk = WebOf(m)
  BY InstallEffect
<1>2. /\ context.op = "unlock" => context.current = binding.brk /\ binding' = binding
      /\ context.op = "replace" => binding'.brk = context.proposed
      /\ context.op \in {"unlock", "replace"}
  <2>1. context.op = "unlock" => context.current = binding.brk /\ binding' = binding
    BY OpenedIsBound DEF MatchesSnapshot, Install, Installed
  <2>2. context.op = "replace" => binding'.brk = context.proposed
    <3>1. binding \in [generation : 0..MaxAttempts, epoch : 1..(MaxAttempts + 1), brk : Browsers]
      BY DEF IndInv, DeviceInv, DeviceTypes
    <3> QED BY <3>1 DEF Install, Installed
  <2> QED BY <2>1, <2>2, OpenedIsBound DEF Contexts
<1> HIDE DEF n
<1>3. RegisteredIsLast'
  <2> SUFFICES ASSUME NEW i \in 1..(n + 1), installed'[i].context.op = "replace",
                      \A k \in (i + 1)..(n + 1) : installed'[k].context.op = "unlock"
               PROVE  binding'.brk = installed'[i].context.proposed
    BY <1>1 DEF RegisteredIsLast
  <2>1. CASE i = n + 1
    BY <2>1, <1>1, <1>2
  <2>2. CASE i # n + 1
    <3>1. i \in 1..n /\ n + 1 \in (i + 1)..(n + 1)
      BY <2>2, <1>1
    <3>2. binding' = binding
      BY <3>1, <1>1, <1>2
    <3>3. \A k \in (i + 1)..n : installed[k].context.op = "unlock"
      BY <3>1, <1>1
    <3> QED BY <3>1, <3>2, <3>3, <1>1 DEF IndInv, DeviceInv, RegisteredIsLast, n
  <2> QED BY <2>1, <2>2
<1>4. InjectiveAgreement'
  <2> SUFFICES ASSUME NEW i \in 1..(n + 1)
               PROVE  /\ \E x \in sent :
                           /\ x.op = "complete" /\ x.from = Owner(installed'[i].context)
                           /\ x.sealed.vmk = installed'[i].vmk
                           /\ x.sealed.aad = Transcript(installed'[i].context,
                                               installed'[i].attempt, installed'[i].vmk)
                      /\ \A j \in 1..(i - 1) :
                           /\ installed'[i].attempt # installed'[j].attempt
                           /\ installed'[i].vmk # installed'[j].vmk
    BY <1>1 DEF InjectiveAgreement, Transcript, Owner
  <2>1. CASE i = n + 1
    <3>1. \A j \in 1..n : installed[j].attempt # coordinator.attempt
                          /\ installed[j].vmk # WebOf(m)
      BY OpenedIsNew DEF n
    <3>2. \A j \in 1..(i - 1) : /\ installed'[i].attempt # installed'[j].attempt
                                /\ installed'[i].vmk # installed'[j].vmk
      BY <3>1, <2>1, <1>1
    <3> QED BY <3>2, <2>1, <1>1, OpenedIsBound
  <2>2. CASE i # n + 1
    <3>1. i \in 1..n /\ \A j \in 1..(i - 1) : j \in 1..n
      BY <2>2, <1>1
    <3> QED BY <3>1, <1>1 DEF IndInv, DeviceInv, InjectiveAgreement, n
  <2> QED BY <2>1, <2>2
<1>5. ReplacedBrowserIsOut'
  <2> SUFFICES ASSUME NEW i \in 1..(n + 1), NEW j \in 1..(n + 1), i < j,
                      installed'[i].context.op = "replace",
                      installed'[j].context.op = "unlock",
                      \A k \in (i + 1)..(j - 1) : installed'[k].context.op = "unlock"
               PROVE  installed'[j].context.current = installed'[i].context.proposed
    BY <1>1 DEF ReplacedBrowserIsOut
  <2>0. i \in 1..n /\ \A k \in (i + 1)..(j - 1) : k \in 1..n
    BY <1>1
  <2>1. \A k \in (i + 1)..(j - 1) : installed[k].context.op = "unlock"
    BY <2>0, <1>1
  <2>2. CASE j = n + 1
    <3>1. binding.brk = installed[i].context.proposed
      BY <2>0, <2>1, <2>2, <1>1 DEF IndInv, DeviceInv, RegisteredIsLast, n
    <3> QED BY <3>1, <2>0, <2>2, <1>1, <1>2
  <2>3. CASE j # n + 1
    <3>1. j \in 1..n
      BY <2>3, <1>1
    <3> QED BY <3>1, <2>0, <2>1, <1>1 DEF IndInv, DeviceInv, ReplacedBrowserIsOut, n
  <2> QED BY <2>2, <2>3
<1> QED BY <1>3, <1>4, <1>5

\* session.complete: the answer of success goes with the installed key.
LEMMA CompleteStep ==
    ASSUME IndInv, NEW m \in sent, m.op = "complete", Complete(m) PROVE IndInv'
<1>1. CASE Refused(m) /\ UNCHANGED <<installed, binding>>
  BY <1>1, RefusedKeeps, FailClosedKeeps DEF IndInv, Complete, DeviceInv
<1>2. CASE Delivers(m) /\ Install(m) /\ Answer(m, [ok |-> TRUE])
  <2> DEFINE reply == [ok |-> TRUE]
             n == Len(installed)
  <2>1. FailClosed /\ UNCHANGED <<attempts, sent>> /\ Answer(m, reply) /\ reply \in Replies
    BY <1>2 DEF Complete, Replies
  <2>2. /\ installed' \in Seq(Installations) /\ n \in Nat /\ Len(installed') = n + 1
        /\ \A i \in 1..n : installed'[i] = installed[i]
        /\ installed'[n + 1].context = context
        /\ installed'[n + 1].attempt = coordinator.attempt /\ installed'[n + 1].vmk = WebOf(m)
    BY <1>2, InstallEffect
  <2>3. /\ context \in Contexts /\ MatchesSnapshot(context)
        /\ coordinator.attempt \in Attempts /\ coordinator.attempt <= attempts
        /\ m.sealed.aad = Transcript(context, coordinator.attempt, WebOf(m))
    BY <1>2, OpenedIsBound
  <2> HIDE DEF reply, n
  <2>4. m.from \in Browsers
    BY DEF IndInv, BrowserInv, RequestsOK, RequestOK
  <2>5. BrowserInv'
    <3>1. ASSUME browser[m.from].pc = "complete", browser[m.from].number = m.number
          PROVE  /\ installed'[n + 1].vmk = Web(m.from)
                 /\ installed'[n + 1].context = browser[m.from].ctx
      <4>1. WebOf(m) = Web(m.from)
        BY <3>1 DEF WebOf, Web
      <4>2. m.sealed.aad = browser[m.from].transcript
        BY <3>1 DEF IndInv, BrowserInv, SealedOnce
      <4>3. browser[m.from].transcript
              = Transcript(browser[m.from].ctx, browser[m.from].attempt, Web(m.from))
        BY <3>1, <2>4 DEF IndInv, BrowserInv, BrowserKnows
      <4>4. context = browser[m.from].ctx
        BY <4>2, <4>3, <2>3 DEF Transcript
      <4> QED BY <4>1, <4>4, <2>2
    <3>2. n + 1 \in 1..Len(installed') /\ n <= Len(installed') /\ Len(installed') \in Nat
      BY <2>2
    <3> QED BY <2>1, <2>2, <2>4, <3>1, <3>2, AnswerKeeps DEF IndInv, n
  <2>6. DeviceTypes'
    <3>1. Idle \in [ctx : Contexts \cup {None}, attempt : 0..MaxAttempts,
                    state : {"idle", "authorization", "presence"},
                    transcript : Transcripts \cup {None}]
      BY BoundAssumption DEF Idle
    <3>2. binding' \in [generation : 0..MaxAttempts, epoch : 1..(MaxAttempts + 1), brk : Browsers]
      <4>1. binding \in [generation : 0..MaxAttempts, epoch : 1..(MaxAttempts + 1),
                         brk : Browsers]
        BY DEF IndInv, DeviceInv, DeviceTypes
      <4>2. CASE context.op = "replace"
        <5>1. context.epoch \in 1..(MaxAttempts + 1) /\ context.proposed \in Browsers
          BY <4>2, <2>3 DEF MatchesSnapshot, Contexts
        <5> QED BY <4>1, <4>2, <5>1, <1>2 DEF Install, Installed
      <4>3. CASE context.op # "replace"
        BY <4>1, <4>3, <1>2 DEF Install, Installed
      <4> QED BY <4>2, <4>3
    <3> QED BY <2>1, <2>2, <3>1, <3>2, BoundAssumption DEF IndInv, DeviceInv, DeviceTypes, FailClosed
  <2>7. AttemptIsBound'
    <3>1. Idle.state = "idle"
      BY DEF Idle
    <3>2. \A i \in 1..(n + 1) : installed'[i].attempt <= attempts
      BY <2>2, <2>3 DEF IndInv, DeviceInv, AttemptIsBound, n
    <3> QED BY <2>1, <2>2, <3>1, <3>2 DEF AttemptIsBound, FailClosed
  <2>8. RegisteredIsLast' /\ InjectiveAgreement' /\ ReplacedBrowserIsOut'
    BY <1>2, <2>1, InstallKeepsHistory
  <2> QED BY <2>5, <2>6, <2>7, <2>8 DEF IndInv, DeviceInv
<1> QED BY <1>1, <1>2 DEF Complete

\* A step that neither sends, answers nor installs keeps what the Browsers know.
LEMMA QuietKeeps ==
    ASSUME BrowserInv, UNCHANGED <<sent, browser, installed>> PROVE BrowserInv'
  BY DEF BrowserInv, BrowserTypes, RequestsOK, RequestOK, WebOf, Owner, Seal, SessionKey,
         BrowserKnows, Transcript, Web, SealedOnce, AnswerIsTrue, Has, ReturnMeansInstalled

\* What the user, the passing of time and a vault.update change.
LEMMA OwnStep ==
    ASSUME IndInv, Confirm \/ SessionEnds \/ VaultUpdate PROVE IndInv'
<1>1. BrowserInv'
  <2>1. UNCHANGED <<sent, browser, installed>>
    BY DEF Confirm, SessionEnds, VaultUpdate
  <2> QED BY <2>1, QuietKeeps DEF IndInv
<1>2. CASE SessionEnds
  BY <1>1, <1>2, FailClosedKeeps DEF SessionEnds, IndInv
<1>3. CASE Confirm
  <2>1. DeviceTypes' /\ AttemptIsBound'
    BY <1>3 DEF Confirm, IndInv, DeviceInv, DeviceTypes, AttemptIsBound, Transcript
  <2> QED BY <1>1, <1>3, <2>1, HistoryKept DEF Confirm, IndInv, DeviceInv
<1>4. CASE VaultUpdate
  <2>1. binding \in [generation : 0..MaxAttempts, epoch : 1..(MaxAttempts + 1), brk : Browsers]
    BY DEF IndInv, DeviceInv, DeviceTypes
  <2>2. /\ binding' \in [generation : 0..MaxAttempts, epoch : 1..(MaxAttempts + 1),
                         brk : Browsers]
        /\ binding'.brk = binding.brk
    <3>1. binding.generation + 1 \in 0..MaxAttempts
      BY <1>4, <2>1, BoundAssumption DEF VaultUpdate
    <3> QED BY <1>4, <2>1, <3>1 DEF VaultUpdate
  <2>3. DeviceTypes' /\ AttemptIsBound'
    BY <1>4, <2>2 DEF VaultUpdate, IndInv, DeviceInv, DeviceTypes, AttemptIsBound, Transcript
  <2> QED BY <1>1, <1>4, <2>2, <2>3, HistoryKept DEF VaultUpdate, IndInv, DeviceInv
<1> QED BY <1>2, <1>3, <1>4

-----------------------------------------------------------------------------
(* The theorems                                                            *)

\* The invariant holds before anything is sent.
LEMMA InitInd == Init => IndInv
<1> SUFFICES ASSUME Init PROVE IndInv
  OBVIOUS
<1>1. BrowserTypes /\ \A b \in Browsers : browser[b].pc = "idle"
  <2>1. Quiet(0) \in Deliveries /\ Quiet(0).pc = "idle"
    BY BoundAssumption DEF Quiet, Deliveries, Phases
  <2> QED BY <2>1 DEF Init, BrowserTypes
<1>2. sent = {} /\ Len(installed) = 0 /\ installed \in Seq(Installations)
  BY DEF Init
<1>3. BrowserInv
  BY <1>1, <1>2 DEF BrowserInv, RequestsOK, BrowserKnows, SealedOnce, AnswerIsTrue,
                    ReturnMeansInstalled
<1>4. DeviceTypes /\ AttemptIsBound
  <2>1. /\ Idle \in [ctx : Contexts \cup {None}, attempt : 0..MaxAttempts,
                     state : {"idle", "authorization", "presence"},
                     transcript : Transcripts \cup {None}]
        /\ Idle.state = "idle"
    BY BoundAssumption DEF Idle
  <2>2. binding \in [generation : 0..MaxAttempts, epoch : 1..(MaxAttempts + 1), brk : Browsers]
    BY BoundAssumption DEF Init
  <2> QED BY <1>2, <2>1, <2>2, BoundAssumption DEF Init, DeviceTypes, AttemptIsBound
<1>5. RegisteredIsLast /\ InjectiveAgreement /\ ReplacedBrowserIsOut
  BY <1>2 DEF RegisteredIsLast, InjectiveAgreement, ReplacedBrowserIsOut
<1> QED BY <1>3, <1>4, <1>5 DEF IndInv, DeviceInv

\* Every step of the Browsers, the Device, the user and time keeps it.
LEMMA NextInd == IndInv /\ [Next]_vars => IndInv'
<1> SUFFICES ASSUME IndInv, [Next]_vars PROVE IndInv'
  OBVIOUS
<1>1. ASSUME NEW b \in Browsers, BrowserStep(b) PROVE IndInv'
  <2>1. UNCHANGED <<device, installed>> /\ UNCHANGED installed
    BY <1>1 DEF BrowserStep
  <2>2. BrowserInv'
    BY <1>1, <2>1, StartsStep, AuthorizesStep, PollsStep, CompletesStep, ReturnsStep, GivesUpStep
       DEF BrowserStep, IndInv
  <2>3. sent \subseteq sent'
    BY <1>1 DEF BrowserStep, Starts, Authorizes, Polls, Completes, Returns, GivesUp, Send
  <2> QED BY <2>1, <2>2, <2>3, BrowserKeepsDevice DEF IndInv
<1>2. ASSUME NEW m \in sent, DeviceReceives(m) PROVE IndInv'
  BY <1>2, BeginStep, AuthorizeStep, StatusStep, CompleteStep, CancelStep DEF DeviceReceives
<1>3. CASE Confirm \/ SessionEnds \/ VaultUpdate
  BY <1>3, OwnStep
<1>4. CASE UNCHANGED vars
  <2>1. UNCHANGED <<device, installed>> /\ UNCHANGED <<sent, browser, installed>>
    BY <1>4 DEF vars, device
  <2>2. BrowserInv'
    BY <2>1, QuietKeeps DEF IndInv
  <2> QED BY <2>1, <2>2, BrowserKeepsDevice DEF IndInv
<1> QED BY <1>1, <1>2, <1>3, <1>4 DEF Next

\* The invariant of the delivery of a key (session-flow-v2.ts,
\* StagedSessionV2Handler, AttemptCoordinator, DeviceSession).
THEOREM AgreementInvariant == Spec => []IndInv
  BY InitInd, NextInd, PTL DEF Spec

\* Whatever arrives late or twice, a key that session.complete installs was
\* sealed for that attempt and context by the Browser the context names, and no
\* attempt and no sealed key is used twice.
THEOREM DeliveredInAgreement == Spec => []InjectiveAgreement
<1>1. IndInv => InjectiveAgreement
  BY DEF IndInv, DeviceInv
<1> QED BY <1>1, AgreementInvariant, PTL

\* deliverVmkOverSessionV2 returns only for a key the Device has installed.
THEOREM ReturnedIsInstalled == Spec => []ReturnMeansInstalled
<1>1. IndInv => ReturnMeansInstalled
  BY DEF IndInv, BrowserInv
<1> QED BY <1>1, AgreementInvariant, PTL

\* A Browser that was replaced never unlocks the Device again: the session's
\* checks against the registration hold for every late request.
THEOREM ReplacedStaysOut == Spec => []ReplacedBrowserIsOut
<1>1. IndInv => ReplacedBrowserIsOut
  BY DEF IndInv, DeviceInv
<1> QED BY <1>1, AgreementInvariant, PTL

\* The types of the session's state.
THEOREM AgreementTypes == Spec => []TypeOK
<1>1. IndInv => TypeOK
  BY DEF IndInv, DeviceInv, DeviceTypes, BrowserInv, BrowserTypes, Deliveries, Phases, TypeOK,
         Installations
<1> QED BY <1>1, AgreementInvariant, PTL

=============================================================================
