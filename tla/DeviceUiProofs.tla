--------------------------- MODULE DeviceUiProofs ---------------------------
(***************************************************************************)
(* Proofs about the UI task: what it shows of a code and for how long      *)
(* (RevealUi), and, for every interleaving with the other two tasks, what it*)
(* keeps of a Vault that is locked (DeviceTasks).                          *)
(***************************************************************************)
EXTENDS RevealUi, DeviceTasks, SequenceTheorems, TLAPS

-----------------------------------------------------------------------------
(* The steps of an iteration, one by one                                   *)

Reveals == [code : Codes \cup {None}, deadline : Nat, period : Nat, remaining : Nat]

\* A view whose selection is in its list.
Good(v) == v \in Views /\ v.selected \in 0..Len(v.list)

SameList(v, w) ==
    /\ w.visible = v.visible /\ w.list = v.list
    /\ w.selected = v.selected /\ w.generation = v.generation

\* The fields of a view.
LEMMA ViewFields ==
    ASSUME NEW v \in Views
    PROVE  /\ v.visible \in BOOLEAN /\ v.list \in Lists \cup {<<>>} /\ v.selected \in Nat
           /\ v.generation \in 0..MaxGeneration /\ v.error \in BOOLEAN /\ v.reveal \in Reveals
           /\ v.list \in Seq(Credentials) /\ Len(v.list) \in Nat
<1>1. /\ v.visible \in BOOLEAN /\ v.list \in Lists \cup {<<>>} /\ v.selected \in Nat
      /\ v.generation \in 0..MaxGeneration /\ v.error \in BOOLEAN /\ v.reveal \in Reveals
  BY DEF Views, Reveals
<1>2. v.list \in Seq(Credentials)
  BY <1>1, BoundsAssumption, EmptySeq
<1> QED BY <1>1, <1>2, LenProperties

\* The fields an EXCEPT leaves alone.
LEMMA WithReveal ==
    ASSUME NEW v \in Views, NEW new \in Reveals
    PROVE  /\ [v EXCEPT !.reveal = new] \in Views /\ [v EXCEPT !.reveal = new].reveal = new
           /\ SameList(v, [v EXCEPT !.reveal = new]) /\ [v EXCEPT !.reveal = new].error = v.error
BY DEF Views, Reveals, SameList

\* The fields an EXCEPT of the error leaves alone.
LEMMA WithError ==
    ASSUME NEW v \in Views, NEW e \in BOOLEAN
    PROVE  /\ [v EXCEPT !.error = e] \in Views /\ [v EXCEPT !.error = e].reveal = v.reveal
           /\ SameList(v, [v EXCEPT !.error = e]) /\ [v EXCEPT !.error = e].error = e
           /\ [v EXCEPT !.error = v.error] = v
BY DEF Views, SameList

Relisted(h, ls, g, k) ==
    [h EXCEPT !.visible = TRUE, !.list = ls, !.error = FALSE, !.generation = g, !.selected = k]

\* The fields of a view with another list.
LEMMA WithList ==
    ASSUME NEW h \in Views, NEW ls \in Lists, NEW g \in 0..MaxGeneration, NEW k \in Nat
    PROVE  LET new == Relisted(h, ls, g, k)
           IN  /\ new \in Views /\ new.visible /\ new.list = ls /\ new.generation = g
               /\ new.selected = k /\ new.reveal = h.reveal
BY DEF Views, Relisted

\* No reveal is a reveal that shows nothing.
LEMMA NoRevealType == NoReveal \in Reveals
BY DEF NoReveal, Reveals

\* Views with the same list and selection select the same account.
LEMMA SameSelection ==
    ASSUME NEW v \in Views, NEW w \in Views, SameList(v, w)
    PROVE  /\ HasSelection(w) = HasSelection(v) /\ Selected(w) = Selected(v)
           /\ Good(v) => Good(w)
BY DEF SameList, HasSelection, Selected, Good

\* What is selected is an account of the list, or nothing.
LEMMA SelectedType ==
    ASSUME NEW v \in Views
    PROVE  /\ Selected(v) \in Credentials \cup {None}
           /\ HasSelection(v) => Selected(v) \in Credentials /\ v.list # <<>>
<1>1. v.list \in Seq(Credentials)
  BY ViewFields
<1>2. HasSelection(v) => v.list[v.selected] \in Credentials
  BY <1>1, ElementOfSeq DEF HasSelection
<1>3. HasSelection(v) => v.list # <<>>
  BY DEF HasSelection
<1> QED BY <1>2, <1>3 DEF Selected

\* Hiding a reveal leaves the list and the selection.
LEMMA HiddenView ==
    ASSUME NEW v \in Views
    PROVE  /\ Hidden(v) \in Views /\ ~Revealing(Hidden(v)) /\ SameList(v, Hidden(v))
           /\ Hidden(v).error = v.error
BY WithReveal, NoRevealType DEF Hidden, Revealing

\* A cleared view shows nothing and selects nothing.
LEMMA ClearedView ==
    ASSUME NEW v \in Views
    PROVE  /\ Good(Cleared(v)) /\ ~Revealing(Cleared(v)) /\ Cleared(v).visible = FALSE
           /\ Cleared(v).list = <<>> /\ Cleared(v).generation = 0 /\ Cleared(v).selected = 0
           /\ Cleared(v).error = v.error
<1>1. /\ EmptyView \in Views /\ EmptyView.visible = FALSE /\ EmptyView.list = <<>>
      /\ EmptyView.selected = 0 /\ EmptyView.generation = 0 /\ EmptyView.reveal = NoReveal
  BY NoRevealType, BoundsAssumption DEF EmptyView, Views, Reveals
<1>2. v.error \in BOOLEAN
  BY ViewFields
<1>3. 0 \in 0..Len(<<>>)
  OBVIOUS
<1> QED BY <1>1, <1>2, <1>3, WithError DEF Cleared, Good, SameList, Revealing

\* The periods of Unix times.
LEMMA PeriodType ==
    ASSUME NEW unix \in Nat PROVE PeriodIndex(unix) \in Nat /\ Remaining(unix) \in Nat
<1>1. Period \in Nat /\ Period > 0
  BY BoundsAssumption
<1>2. unix \div Period \in Nat /\ unix % Period \in 0..(Period - 1)
  BY <1>1
<1> QED BY <1>1, <1>2 DEF PeriodIndex, Remaining

\* The second try: whatever the clock does in between, the code is of the period that
\* is shown with it.
LEMMA CodeOfItsPeriod ==
    ASSUME NEW c, NEW at \in Nat, NEW unix \in Nat
    PROVE  Code(c, CodeTime(at, unix)) = [credential |-> c, period |-> PeriodIndex(unix)]
BY DEF Code, CodeTime

\* A new code leaves the list, the selection and the deadline.
LEMMA RefreshedReveal ==
    ASSUME NEW v \in Views, HasSelection(v), NEW at \in Nat, NEW unix \in Nat, NEW time
    PROVE  LET w == RevealRefreshed(v, CodeTime(at, unix), unix, time) IN
             /\ w \in Views /\ SameList(v, w) /\ w.error = v.error
             /\ w.reveal.code = [credential |-> Selected(v), period |-> PeriodIndex(unix)]
             /\ w.reveal.period = PeriodIndex(unix) /\ w.reveal.deadline = v.reveal.deadline
             /\ w.reveal.remaining = Remaining(unix)
<1> DEFINE made == [code |-> Code(Selected(v), CodeTime(at, unix)), deadline |-> v.reveal.deadline,
                 period |-> PeriodIndex(unix), remaining |-> Remaining(unix)]
<1>1. Code(Selected(v), CodeTime(at, unix)) = [credential |-> Selected(v), period |-> PeriodIndex(unix)]
  BY CodeOfItsPeriod
<1>2. /\ Selected(v) \in Credentials /\ v.reveal.deadline \in Nat
      /\ PeriodIndex(unix) \in Nat /\ Remaining(unix) \in Nat
  <2>1. v.reveal \in Reveals
    BY ViewFields
  <2> QED BY <2>1, SelectedType, PeriodType DEF Reveals
<1>3. [credential |-> Selected(v), period |-> PeriodIndex(unix)] \in Codes
  BY <1>2 DEF Codes
<1>4. made \in Reveals
  BY <1>1, <1>2, <1>3 DEF Reveals
<1>5. RevealRefreshed(v, CodeTime(at, unix), unix, time) = [v EXCEPT !.reveal = made]
  BY DEF RevealRefreshed
<1>6. /\ made.code = [credential |-> Selected(v), period |-> PeriodIndex(unix)]
      /\ made.period = PeriodIndex(unix) /\ made.deadline = v.reveal.deadline
      /\ made.remaining = Remaining(unix)
  BY <1>1
<1> HIDE DEF made
<1> QED BY <1>4, <1>5, <1>6, WithReveal

\* Another state than UNLOCKED, and the end of a reveal.
LEMMA CheckedView ==
    ASSUME NEW v, Good(v)
    PROVE  /\ Good(Checked(v)) /\ Checked(v).error = v.error
           /\ Revealing(Checked(v)) =>
                Checked(v) = v /\ Revealing(v) /\ time_ready /\ unlocked /\ ~(now >= v.reveal.deadline)
           /\ unlocked => SameList(v, Checked(v))
           /\ ~unlocked => ~Checked(v).visible
<1> DEFINE c == IF ~unlocked /\ v.visible THEN Cleared(v) ELSE v
<1>0. v \in Views
  BY DEF Good
<1>1. /\ Good(c) /\ c.error = v.error
      /\ unlocked => c = v /\ SameList(v, c)
      /\ ~unlocked => ~c.visible
      /\ Revealing(c) => c = v
  BY <1>0, ClearedView DEF SameList
<1>2. Checked(v) = IF Revealing(c) /\ (~time_ready \/ now >= c.reveal.deadline \/ ~unlocked)
                     THEN Hidden(c) ELSE c
  BY DEF Checked
<1> HIDE DEF c
<1>3. /\ Good(Hidden(c)) /\ ~Revealing(Hidden(c)) /\ SameList(c, Hidden(c))
      /\ Hidden(c).error = c.error
  <2>1. c \in Views
    BY <1>1 DEF Good
  <2> QED BY <1>1, <2>1, HiddenView, SameSelection
<1> QED BY <1>1, <1>2, <1>3 DEF SameList

\* The rollover.
LEMMA RolledOverView ==
    ASSUME NEW v, Good(v), NEW at \in Nat, NEW unix \in Nat, NEW works \in BOOLEAN
    PROVE  LET w == RolledOver(v, at, unix, works) IN
             /\ Good(w) /\ SameList(v, w) /\ w.error = v.error
             /\ Revealing(w) => /\ Revealing(v) /\ w.reveal.deadline = v.reveal.deadline
                                /\ Rolls(v, at) =>
                                     /\ HasSelection(v) /\ w.reveal.period = PeriodIndex(unix)
                                     /\ w.reveal.code = [credential |-> Selected(v),
                                                         period |-> PeriodIndex(unix)]
                                /\ ~Rolls(v, at) =>
                                     /\ w.reveal.period = v.reveal.period
                                     /\ v.reveal.period = PeriodIndex(at)
                                     /\ w.reveal.code = v.reveal.code
             /\ ~Revealing(v) => w = v
<1> DEFINE w == RolledOver(v, at, unix, works)
<1>0. v \in Views
  BY DEF Good
<1> SUFFICES
      /\ Good(w) /\ SameList(v, w) /\ w.error = v.error
      /\ Revealing(w) => /\ Revealing(v) /\ w.reveal.deadline = v.reveal.deadline
                         /\ Rolls(v, at) =>
                              /\ HasSelection(v) /\ w.reveal.period = PeriodIndex(unix)
                              /\ w.reveal.code = [credential |-> Selected(v),
                                                  period |-> PeriodIndex(unix)]
                         /\ ~Rolls(v, at) =>
                              /\ w.reveal.period = v.reveal.period
                              /\ v.reveal.period = PeriodIndex(at)
                              /\ w.reveal.code = v.reveal.code
      /\ ~Revealing(v) => w = v
  OBVIOUS
<1>1. CASE ~Revealing(v)
  <2>1. w = v /\ ~Rolls(v, at)
    BY <1>1 DEF RolledOver, Rolls
  <2> HIDE DEF w
  <2> QED BY <1>1, <2>1 DEF SameList
<1>2. CASE Revealing(v) /\ ~Rolls(v, at)
  <2>1. v.reveal \in Reveals
    BY <1>0, ViewFields
  <2> DEFINE made == [v.reveal EXCEPT !.remaining = Remaining(at)]
  <2>2. /\ made \in Reveals /\ made.code = v.reveal.code /\ made.period = v.reveal.period
        /\ made.deadline = v.reveal.deadline
    BY <2>1, PeriodType DEF Reveals
  <2>3. w = [v EXCEPT !.reveal = made]
    <3>1. w = [v EXCEPT !.reveal.remaining = Remaining(at)]
      BY <1>2 DEF RolledOver
    <3> HIDE DEF w
    <3> QED BY <3>1
  <2> HIDE DEF made, w
  <2>4. w \in Views /\ SameList(v, w) /\ w.error = v.error /\ w.reveal = made
    BY <1>0, <2>2, <2>3, WithReveal
  <2>5. v.reveal.period = PeriodIndex(at)
    BY <1>2 DEF Rolls
  <2> QED BY <1>0, <1>2, <2>2, <2>4, <2>5, SameSelection
<1>3. CASE Rolls(v, at) /\ Generates(v, works)
  <2>1. w = RevealRefreshed(v, CodeTime(at, unix), unix, now)
    BY <1>3 DEF RolledOver
  <2>2. HasSelection(v) /\ Revealing(v)
    BY <1>3 DEF Generates, Rolls
  <2> HIDE DEF w
  <2>3. /\ w \in Views /\ SameList(v, w) /\ w.error = v.error
        /\ w.reveal.code = [credential |-> Selected(v), period |-> PeriodIndex(unix)]
        /\ w.reveal.period = PeriodIndex(unix) /\ w.reveal.deadline = v.reveal.deadline
    BY <1>0, <2>1, <2>2, RefreshedReveal
  <2> QED BY <1>0, <1>3, <2>2, <2>3, SameSelection
<1>4. CASE Rolls(v, at) /\ ~Generates(v, works)
  <2>1. w = Hidden(v) /\ Revealing(v)
    BY <1>4 DEF RolledOver, Rolls
  <2> HIDE DEF w
  <2> QED BY <1>0, <2>1, HiddenView, SameSelection
<1> QED BY <1>1, <1>2, <1>3, <1>4

\* What a remainder ranges over.
LEMMA ModuloRange == ASSUME NEW n \in Nat, n # 0, NEW i \in Int PROVE i % n \in 0..(n - 1)
OBVIOUS

\* The selection moves, and nothing stays revealed.
LEMMA MovedView ==
    ASSUME NEW v, Good(v), NEW step \in {-1, 1}, NEW works \in BOOLEAN
    PROVE  LET w == Moved(v, step, works) IN
             /\ Good(w)
             /\ v.list = <<>> => w = v
             /\ v.list # <<>> => ~Revealing(w)
<1> DEFINE n == Len(v.list)
           k == 1 + ((v.selected - 1 + step + n) % n)
           moved == [Hidden(v) EXCEPT !.selected = k]
<1>0. v \in Views /\ v.list \in Seq(Credentials) /\ n \in Nat /\ v.selected \in 0..n
  BY ViewFields DEF Good
<1>1. CASE n = 0
  <2>1. v.list = <<>>
    BY <1>0, <1>1, EmptySeq
  <2>2. Moved(v, step, works) = v
    BY <1>1 DEF Moved
  <2> QED BY <2>1, <2>2
<1>2. CASE n # 0
  <2>1. k \in 1..n
    <3>1. v.selected - 1 + step + n \in Int /\ n > 0
      BY <1>0, <1>2
    <3>2. \A i \in Int : i % n \in 0..(n - 1)
      BY <1>0, <1>2, ModuloRange
    <3>3. (v.selected - 1 + step + n) % n \in 0..(n - 1)
      BY <3>1, <3>2
    <3> HIDE DEF n
    <3> QED BY <3>1, <3>3, <1>0
  <2>2. v.list # <<>>
    BY <1>2
  <2> HIDE DEF k
  <2>3. /\ moved \in Views /\ moved.selected = k /\ moved.list = v.list
        /\ moved.reveal = NoReveal
    <3>1. /\ Hidden(v) \in Views /\ Hidden(v).reveal = NoReveal /\ Hidden(v).list = v.list
      BY <1>0, HiddenView DEF SameList, Revealing
    <3>2. k \in Nat
      BY <2>1, <1>0
    <3>3. \A h \in Views : /\ [h EXCEPT !.selected = k] \in Views
                           /\ [h EXCEPT !.selected = k].selected = k
                           /\ [h EXCEPT !.selected = k].list = h.list
                           /\ [h EXCEPT !.selected = k].reveal = h.reveal
      BY <3>2 DEF Views
    <3> QED BY <3>1, <3>3
  <2>4. \E e \in BOOLEAN : Moved(v, step, works) = [moved EXCEPT !.error = e]
    BY <1>2 DEF Moved, k
  <2> HIDE DEF moved
  <2>5. PICK e \in BOOLEAN : Moved(v, step, works) = [moved EXCEPT !.error = e]
    BY <2>4
  <2>6. /\ [moved EXCEPT !.error = e] \in Views /\ [moved EXCEPT !.error = e].reveal = moved.reveal
        /\ SameList(moved, [moved EXCEPT !.error = e])
    BY <2>3, WithError
  <2>7. k \in 0..n
    BY <2>1, <1>0
  <2> QED BY <2>2, <2>3, <2>5, <2>6, <2>7 DEF Good, SameList, Revealing
<1> QED BY <1>1, <1>2

\* A gesture: what is revealed after it was revealed before, or was asked for by it.
GestureGives(v, gesture, unix, w) ==
    /\ Good(w)
    /\ gesture = "none" => w = v
    /\ gesture # "none" /\ gesture # "hold" /\ Revealing(w) => v.list = <<>> /\ w = v
    /\ gesture = "hold" /\ Revealing(w) =>
         /\ HasSelection(w) /\ w.reveal.period = PeriodIndex(unix)
         /\ w.reveal.code = [credential |-> Selected(w), period |-> PeriodIndex(unix)]
         /\ w.reveal.deadline = now + RevealTicks

\* What a gesture may do to a view.
LEMMA GesturedView ==
    ASSUME NEW v, Good(v), NEW at \in Nat, NEW unix \in Nat, NEW works \in BOOLEAN,
           NEW gesture \in {"none", "single", "double", "hold"}, now \in Nat
    PROVE  GestureGives(v, gesture, unix, Gestured(v, gesture, at, unix, works))
<1> DEFINE w == Gestured(v, gesture, at, unix, works)
<1> SUFFICES GestureGives(v, gesture, unix, w)
  OBVIOUS
<1> USE DEF GestureGives
<1>0. v \in Views
  BY DEF Good
<1>1. CASE gesture = "none"
  BY <1>1 DEF Gestured
<1>2. CASE gesture = "double"
  <2>1. Gestured(v, gesture, at, unix, works) = Moved(v, -1, works)
    BY <1>2 DEF Gestured
  <2> QED BY <1>2, <2>1, MovedView
<1>3. CASE gesture = "single"
  <2>1. Gestured(v, gesture, at, unix, works) = IF Revealing(v) THEN Hidden(v) ELSE Moved(v, 1, works)
    BY <1>3 DEF Gestured
  <2> QED BY <1>0, <1>3, <2>1, MovedView, HiddenView, SameSelection
<1>4. CASE gesture = "hold"
  <2> DEFINE made == RevealRefreshed(v, CodeTime(at, unix), unix, now)
  <2>1. w = Asked(v, at, unix, works)
    BY <1>4 DEF Gestured
  <2>2. CASE ~Generates(v, works)
    <3>1. w = Hidden(v)
      BY <2>1, <2>2 DEF Asked
    <3> QED BY <1>0, <1>4, <3>1, HiddenView, SameSelection
  <2>3. CASE Generates(v, works)
    <3>1. w = [made EXCEPT !.reveal.deadline = now + RevealTicks]
      BY <2>1, <2>3 DEF Asked
    <3>2. HasSelection(v)
      BY <2>3 DEF Generates
    <3>3. /\ made \in Views /\ SameList(v, made)
          /\ made.reveal.code = [credential |-> Selected(v), period |-> PeriodIndex(unix)]
          /\ made.reveal.period = PeriodIndex(unix)
      BY <1>0, <3>2, RefreshedReveal
    <3> HIDE DEF made
    <3>4. made.reveal \in Reveals
      BY <3>3, ViewFields
    <3> DEFINE x == [made.reveal EXCEPT !.deadline = now + RevealTicks]
    <3>5. /\ x \in Reveals /\ x.code = made.reveal.code /\ x.period = made.reveal.period
          /\ x.deadline = now + RevealTicks
      <4>1. now + RevealTicks \in Nat
        BY BoundsAssumption
      <4> QED BY <3>4, <4>1 DEF Reveals
    <3>6. w = [made EXCEPT !.reveal = x]
      BY <3>1
    <3> HIDE DEF x
    <3>7. w \in Views /\ SameList(made, w) /\ w.reveal = x
      BY <3>3, <3>5, <3>6, WithReveal
    <3>8. Good(w) /\ HasSelection(w) /\ Selected(w) = Selected(v)
      BY <1>0, <3>2, <3>3, <3>7, SameSelection
    <3> QED BY <1>4, <3>3, <3>5, <3>7, <3>8
  <2> QED BY <2>2, <2>3
<1> QED BY <1>1, <1>2, <1>3, <1>4

\* The account that stays selected in a new list.
LEMMA PreferredIndex ==
    ASSUME NEW v \in Views, list \in Lists, list # <<>>
    PROVE  /\ Preferred(v) \in 1..Len(list)
           /\ HasSelection(v) /\ Selected(v) \in ToSet(list) => list[Preferred(v)] = Selected(v)
<1> DEFINE wanted == IF HasSelection(v) THEN Selected(v) ELSE last_used
<1>0. list \in Seq(Credentials) /\ Len(list) \in Nat /\ Len(list) # 0
  <2>1. list \in Seq(Credentials)
    BY BoundsAssumption
  <2> QED BY <2>1, EmptySeq, LenProperties
<1>1. wanted \in ToSet(list) => \E i \in 1..Len(list) : list[i] = wanted
  BY <1>0 DEF ToSet
<1>2. Preferred(v) = IF wanted \in ToSet(list) THEN CHOOSE i \in 1..Len(list) : list[i] = wanted ELSE 1
  BY DEF Preferred
<1>3. 1 \in 1..Len(list)
  BY <1>0
<1>4. HasSelection(v) => wanted = Selected(v)
  OBVIOUS
<1> HIDE DEF wanted
<1> QED BY <1>1, <1>2, <1>3, <1>4

\* A refresh keeps a reveal only when it reads nothing new.
LEMMA RefreshedView ==
    ASSUME NEW v, Good(v), NEW works \in BOOLEAN, list \in Lists, generation \in 0..MaxGeneration
    PROVE  LET w == Refreshed(v, works) IN
             /\ Good(w)
             /\ Revealing(w) => ~Relists(v)
             /\ ~Relists(v) => SameList(v, w) /\ w.reveal = v.reveal /\ (w.error = v.error => w = v)
             /\ Relists(v) /\ ~works => w.visible = FALSE
             /\ Relists(v) /\ works => /\ w.visible /\ w.list = list /\ w.generation = generation
                                       /\ list # <<>> => w.selected = Preferred(v)
<1> DEFINE w == Refreshed(v, works)
<1>0. v \in Views /\ v.selected \in 0..Len(v.list) /\ v.error \in BOOLEAN
  BY ViewFields DEF Good
<1>1. CASE ~Relists(v)
  <2>1. w = [v EXCEPT !.error = FALSE]
    BY <1>1 DEF Refreshed
  <2> HIDE DEF w
  <2>2. w \in Views /\ w.reveal = v.reveal /\ SameList(v, w) /\ w.error = FALSE
    BY <1>0, <2>1, WithError
  <2>3. w.error = v.error => w = v
    <3>1. [v EXCEPT !.error = v.error] = v
      BY <1>0, WithError
    <3> QED BY <2>1, <2>2, <3>1
  <2>4. Good(w)
    BY <1>0, <2>2, SameSelection
  <2> QED BY <1>1, <2>2, <2>3, <2>4 DEF w
<1>2. CASE Relists(v) /\ ~works
  <2>1. w = [Cleared(v) EXCEPT !.error = TRUE]
    BY <1>2 DEF Refreshed
  <2>2. Good(Cleared(v)) /\ ~Revealing(Cleared(v)) /\ Cleared(v).visible = FALSE
    BY <1>0, ClearedView
  <2>3. Cleared(v) \in Views
    BY <2>2 DEF Good
  <2> HIDE DEF w
  <2>4. w \in Views /\ w.reveal = Cleared(v).reveal /\ SameList(Cleared(v), w)
    BY <2>1, <2>3, WithError
  <2>5. Good(w) /\ ~Revealing(w) /\ w.visible = FALSE
    BY <2>2, <2>3, <2>4, SameSelection DEF Revealing, SameList
  <2> QED BY <1>2, <2>5 DEF w
<1>3. CASE Relists(v) /\ works
  <2> DEFINE s == IF list = <<>> THEN 0 ELSE Preferred(v)
             c == Cleared(v)
  <2>1. w = Relisted(c, list, generation, s)
    BY <1>3 DEF Refreshed, Relisted
  <2>2. Good(c) /\ ~Revealing(c)
    BY <1>0, ClearedView
  <2>3. c \in Views
    BY <2>2 DEF Good
  <2>4. s \in 0..Len(list) /\ Len(list) \in Nat /\ (list # <<>> => s = Preferred(v))
    <3>1. Len(list) \in Nat
      BY BoundsAssumption, LenProperties
    <3>2. list # <<>> => Preferred(v) \in 1..Len(list)
      BY <1>0, PreferredIndex
    <3> QED BY <3>1, <3>2
  <2> HIDE DEF w, c, s
  <2>5. /\ w \in Views /\ w.visible /\ w.list = list /\ w.generation = generation
        /\ w.selected = s /\ w.reveal = c.reveal
    <3>1. s \in Nat
      BY <2>4
    <3> QED BY <2>1, <2>3, <3>1, WithList
  <2> QED BY <1>3, <2>2, <2>4, <2>5 DEF w, Good, Revealing
<1> QED BY <1>1, <1>2, <1>3

-----------------------------------------------------------------------------
(* An iteration                                                            *)

AtCheck == Checked(view)
AtRoll(works, delay) == RolledOver(AtCheck, now + offset, now + delay + offset, works)
AtGesture(gesture, works, delay) ==
    Gestured(AtRoll(works, delay), gesture, now + offset, now + delay + offset, works)
AtRefresh(gesture, works, delay) ==
    IF RefreshDue THEN Refreshed(AtGesture(gesture, works, delay), works)
                  ELSE AtGesture(gesture, works, delay)

\* Is the whole screen drawn again?
Redraws(v1, v2, v3, v4, gesture) ==
    \/ seen # [ready |-> time_ready, prompt |-> prompt, unlocked |-> unlocked]
    \/ v1 # view \/ gesture # "none"
    \/ Revealing(v1) /\ ~Revealing(v2)
    \/ RefreshDue /\ (v4.list # v3.list \/ v4.generation # v3.generation
                       \/ v4.error # v3.error \/ v4.visible # v3.visible)

Draws(v1, v2, v3, v4, gesture, at) ==
    \/ Redraws(v1, v2, v3, v4, gesture) /\ shown' = Render(v4, prompt, time_ready)
    \/ ~Redraws(v1, v2, v3, v4, gesture) /\ Rolls(v1, at) /\ shown' = RenderRegion(v4)
    \/ ~Redraws(v1, v2, v3, v4, gesture) /\ ~Rolls(v1, at) /\ Revealing(v1)
       /\ v2.reveal.remaining # v1.reveal.remaining /\ shown' = RenderValidity(v4)
    \/ /\ ~Redraws(v1, v2, v3, v4, gesture) /\ ~Rolls(v1, at) /\ v2 = v1
       /\ shown' \in {shown} \cup IF ~prompt /\ unlocked THEN {RenderLabel(v4)} ELSE {}

\* An iteration, with names for the views it goes through.
LEMMA IterateMeans ==
    ASSUME NEW gesture, NEW works, NEW delay, Iterate(gesture, works, delay)
    PROVE  LET v1 == AtCheck
               v2 == AtRoll(works, delay)
               v3 == AtGesture(gesture, works, delay)
               v4 == AtRefresh(gesture, works, delay)
           IN  /\ delay > 0 => Rolls(v1, now + offset) \/ gesture = "hold"
               /\ now' = now + delay /\ ran' = TRUE /\ view' = v4
               /\ seen' = [ready |-> time_ready, prompt |-> prompt, unlocked |-> unlocked]
               /\ last_refresh' = IF RefreshDue THEN now ELSE last_refresh
               /\ last_used' = IF Touches(v2, gesture, works) THEN Selected(v3) ELSE last_used
               /\ unlocked' = (unlocked /\ ~(RefreshDue /\ Relists(v3) /\ ~works))
               /\ touched' = (gesture # "none")
               /\ Draws(v1, v2, v3, v4, gesture, now + offset)
               /\ revealed_at' = IF gesture = "hold" THEN now
                                 ELSE IF Revealing(v4) \/ shown'.code # None THEN revealed_at ELSE 0
               /\ UNCHANGED <<offset, time_ready, list, generation, prompt>>
BY Zenon DEF Iterate, AtCheck, AtRoll, AtGesture, AtRefresh, Draws, Redraws

\* The times an iteration reads.
LEMMA TimesType ==
    ASSUME UiTypeOK, NEW delay \in {0, 1}
    PROVE  now \in Nat /\ now + offset \in Nat /\ now + delay + offset \in Nat /\ offset \in Nat
BY BoundsAssumption DEF UiTypeOK, Times

\* The views of an iteration have their type.
LEMMA IterateViews ==
    ASSUME UiTypeOK, NEW gesture \in {"none", "single", "double", "hold"},
           NEW works \in BOOLEAN, NEW delay \in {0, 1}
    PROVE  /\ Good(view) /\ Good(AtCheck) /\ Good(AtRoll(works, delay))
           /\ Good(AtGesture(gesture, works, delay)) /\ Good(AtRefresh(gesture, works, delay))
<1>0. Good(view) /\ list \in Lists /\ generation \in 0..MaxGeneration
  BY DEF UiTypeOK, Good
<1>1. Good(AtCheck)
  BY <1>0, CheckedView DEF AtCheck
<1>2. Good(AtRoll(works, delay))
  BY <1>1, TimesType, RolledOverView DEF AtRoll
<1>3. Good(AtGesture(gesture, works, delay))
  <2>1. now \in Nat /\ now + offset \in Nat /\ now + delay + offset \in Nat
    BY TimesType
  <2>2. Good(Gestured(AtRoll(works, delay), gesture, now + offset, now + delay + offset, works))
    BY <1>2, <2>1, GesturedView DEF GestureGives
  <2> QED BY <2>2 DEF AtGesture
<1>4. Good(AtRefresh(gesture, works, delay))
  BY <1>0, <1>3, RefreshedView DEF AtRefresh
<1> QED BY <1>0, <1>1, <1>2, <1>3, <1>4

-----------------------------------------------------------------------------
(* What is revealed, and what is shown of it                               *)

\* What the controller keeps of a reveal: it is of the selected account, has the
\* deadline the user's gesture gave it, and after an iteration the current period.
GoodReveal(v, time, asked, fresh, unix) ==
    Revealing(v) =>
        /\ HasSelection(v)
        /\ v.reveal.code = [credential |-> Selected(v), period |-> v.reveal.period]
        /\ v.reveal.deadline = asked + RevealTicks
        /\ time <= v.reveal.deadline + 1
        /\ fresh => time <= v.reveal.deadline /\ v.reveal.period = PeriodIndex(unix)

\* What the bands of the display show of it.
GoodDisplay(v, d) ==
    /\ d.code # None => Revealing(v) /\ d.code = v.reveal.code
    /\ Revealing(v) /\ d.screen = "status" /\ ~v.error =>
         /\ d.label = Selected(v)
         /\ d.code # None => d.status = Validity(v)

UiInv ==
    /\ GoodReveal(view, now, revealed_at, ran, now + offset)
    /\ GoodDisplay(view, shown)

\* A refresh that leaves something revealed leaves the account and the reveal.
LEMMA RefreshKeepsReveal ==
    ASSUME UiTypeOK, NEW gesture \in {"none", "single", "double", "hold"},
           NEW works \in BOOLEAN, NEW delay \in {0, 1},
           Revealing(AtRefresh(gesture, works, delay))
    PROVE  LET v3 == AtGesture(gesture, works, delay)
               v4 == AtRefresh(gesture, works, delay)
           IN  Revealing(v3) /\ v4.reveal = v3.reveal /\ SameList(v3, v4)
<1>1. /\ Good(AtGesture(gesture, works, delay)) /\ list \in Lists
      /\ generation \in 0..MaxGeneration
  BY IterateViews DEF UiTypeOK
<1>2. CASE RefreshDue
  <2>1. AtRefresh(gesture, works, delay) = Refreshed(AtGesture(gesture, works, delay), works)
    BY <1>2 DEF AtRefresh
  <2> QED BY <1>1, <2>1, RefreshedView DEF Revealing
<1>3. CASE ~RefreshDue
  BY <1>3 DEF AtRefresh, SameList
<1> QED BY <1>2, <1>3

\* An iteration leaves a reveal of the selected account and the current period.
LEMMA IterateReveal ==
    ASSUME UiTypeOK, UiInv, NEW gesture \in {"none", "single", "double", "hold"},
           NEW works \in BOOLEAN, NEW delay \in {0, 1}, Iterate(gesture, works, delay)
    PROVE  GoodReveal(view, now, revealed_at, ran, now + offset)'
<1> DEFINE v1 == AtCheck
           v2 == AtRoll(works, delay)
           v3 == AtGesture(gesture, works, delay)
           v4 == AtRefresh(gesture, works, delay)
           at == now + offset
           unix == now + delay + offset
<1>1. /\ delay > 0 => Rolls(v1, at) \/ gesture = "hold"
      /\ now' = now + delay /\ ran' = TRUE /\ view' = v4 /\ offset' = offset
      /\ revealed_at' = IF gesture = "hold" THEN now
                        ELSE IF Revealing(v4) \/ shown'.code # None THEN revealed_at ELSE 0
  BY IterateMeans
<1>2. Good(view) /\ Good(v1) /\ Good(v2) /\ Good(v3) /\ Good(v4)
  BY IterateViews
<1>3. now \in Nat /\ at \in Nat /\ unix \in Nat /\ offset \in Nat
  BY TimesType
<1>4. /\ Revealing(v1) => v1 = view /\ ~(now >= view.reveal.deadline)
      /\ SameList(v1, v2)
      /\ Revealing(v2) => /\ Revealing(v1) /\ v2.reveal.deadline = v1.reveal.deadline
                          /\ Rolls(v1, at) =>
                               /\ HasSelection(v1) /\ v2.reveal.period = PeriodIndex(unix)
                               /\ v2.reveal.code = [credential |-> Selected(v1),
                                                    period |-> PeriodIndex(unix)]
                          /\ ~Rolls(v1, at) =>
                               /\ v2.reveal.period = v1.reveal.period
                               /\ v1.reveal.period = PeriodIndex(at)
                               /\ v2.reveal.code = v1.reveal.code
  BY <1>2, <1>3, CheckedView, RolledOverView DEF AtCheck, AtRoll
<1>5. /\ gesture = "none" => v3 = v2
      /\ gesture # "none" /\ gesture # "hold" /\ Revealing(v3) => v2.list = <<>> /\ v3 = v2
      /\ gesture = "hold" /\ Revealing(v3) =>
           /\ HasSelection(v3) /\ v3.reveal.period = PeriodIndex(unix)
           /\ v3.reveal.code = [credential |-> Selected(v3), period |-> PeriodIndex(unix)]
           /\ v3.reveal.deadline = now + RevealTicks
  <2>1. v3 = Gestured(v2, gesture, at, unix, works)
    BY DEF AtGesture
  <2> HIDE DEF v2, v3, at, unix
  <2>2. GestureGives(v2, gesture, unix, v3)
    BY <1>2, <1>3, <2>1, GesturedView
  <2> QED BY <2>2 DEF GestureGives
<1>6. Revealing(v4) => Revealing(v3) /\ v4.reveal = v3.reveal /\ SameList(v3, v4)
  BY RefreshKeepsReveal
<1>7. /\ v1 \in Views /\ v2 \in Views /\ v3 \in Views /\ v4 \in Views /\ view \in Views
  BY <1>2 DEF Good
<1>8. RevealTicks \in Nat /\ RevealTicks # 0 /\ revealed_at \in Nat
  BY BoundsAssumption DEF UiTypeOK, Times
<1>9. now' + offset' = unix
  BY <1>1, <1>3
<1> HIDE DEF v1, v2, v3, v4, at, unix
<1> SUFFICES ASSUME Revealing(v4)
             PROVE  /\ HasSelection(v4)
                    /\ v4.reveal.code = [credential |-> Selected(v4), period |-> v4.reveal.period]
                    /\ v4.reveal.deadline = revealed_at' + RevealTicks
                    /\ now' <= v4.reveal.deadline + 1
                    /\ now' <= v4.reveal.deadline /\ v4.reveal.period = PeriodIndex(unix)
  BY <1>1, <1>9 DEF GoodReveal
<1>10. HasSelection(v4) = HasSelection(v3) /\ Selected(v4) = Selected(v3)
  BY <1>6, <1>7, SameSelection
<1>11. CASE gesture = "hold"
  <2>1. now + delay <= now + RevealTicks /\ now + delay <= (now + RevealTicks) + 1
    BY <1>3, <1>8
  <2> QED BY <1>1, <1>5, <1>6, <1>10, <1>11, <2>1
<1>12. CASE gesture # "hold"
  <2>1. Revealing(v2) /\ v3 = v2
    BY <1>5, <1>6, <1>12
  <2>2. Revealing(v1) /\ v1 = view /\ ~(now >= view.reveal.deadline)
    BY <1>4, <2>1
  <2>3. /\ HasSelection(view) /\ view.reveal.deadline = revealed_at + RevealTicks
        /\ view.reveal.code = [credential |-> Selected(view), period |-> view.reveal.period]
    BY <2>2 DEF UiInv, GoodReveal
  <2>4. HasSelection(v2) = HasSelection(view) /\ Selected(v2) = Selected(view)
    BY <1>4, <1>7, <2>2, SameSelection
  <2>5. /\ v4.reveal.deadline = revealed_at + RevealTicks /\ revealed_at' = revealed_at
        /\ HasSelection(v4) /\ Selected(v4) = Selected(view) /\ v4.reveal = v2.reveal
    BY <1>1, <1>4, <1>6, <1>10, <1>12, <2>1, <2>2, <2>3, <2>4
  <2>6. now' <= v4.reveal.deadline /\ now' <= v4.reveal.deadline + 1
    <3>1. ~(now >= revealed_at + RevealTicks)
      BY <2>2, <2>3
    <3>2. now + delay <= revealed_at + RevealTicks /\ now + delay <= (revealed_at + RevealTicks) + 1
      BY <1>3, <1>8, <3>1
    <3> QED BY <1>1, <2>5, <3>2
  <2>7. CASE Rolls(v1, at)
    BY <1>4, <2>1, <2>2, <2>5, <2>6, <2>7
  <2>8. CASE ~Rolls(v1, at)
    <3>1. delay = 0
      BY <1>1, <1>12, <2>8
    <3>2. unix = at
      BY <1>3, <3>1 DEF at, unix
    <3> QED BY <1>4, <2>1, <2>2, <2>3, <2>5, <2>6, <2>8, <3>2
  <2> QED BY <2>7, <2>8
<1> QED BY <1>11, <1>12

Displays == [screen : {"prompt", "status"}, label : Credentials \cup {None},
             status : [is : {"none", "valid", "warning"}, period : Nat],
             code : Codes \cup {None}]

\* A whole screen, drawn of a view whose reveal has a selection.
LEMMA RenderGood ==
    ASSUME NEW v, Revealing(v) => HasSelection(v), NEW asking, NEW timely
    PROVE  GoodDisplay(v, Render(v, asking, timely))
<1> DEFINE d == Render(v, asking, timely)
<1>1. CASE asking
  <2>1. d.code = None /\ d.screen = "prompt"
    BY <1>1 DEF Render
  <2> HIDE DEF d
  <2> QED BY <2>1 DEF GoodDisplay, d
<1>2. CASE ~asking /\ (v.error \/ ~HasSelection(v))
  <2>1. d.code = None
    BY <1>2 DEF Render
  <2> HIDE DEF d
  <2> QED BY <1>2, <2>1 DEF GoodDisplay, d
<1>3. CASE ~asking /\ ~v.error /\ HasSelection(v)
  <2>1. /\ d.label = Selected(v)
        /\ d.status = IF Revealing(v) /\ timely THEN Validity(v) ELSE NoStatus
        /\ d.code = IF Revealing(v) /\ timely THEN v.reveal.code ELSE None
    BY <1>3 DEF Render
  <2> HIDE DEF d
  <2> QED BY <2>1 DEF GoodDisplay, d
<1> QED BY <1>1, <1>2, <1>3

\* The bands that are drawn alone.
LEMMA RenderBands ==
    ASSUME shown \in Displays, NEW v
    PROVE  /\ RenderRegion(v).code = v.reveal.code /\ RenderRegion(v).status = Validity(v)
           /\ RenderRegion(v).label = shown.label /\ RenderRegion(v).screen = shown.screen
           /\ RenderValidity(v).code = shown.code /\ RenderValidity(v).status = Validity(v)
           /\ RenderValidity(v).label = shown.label /\ RenderValidity(v).screen = shown.screen
           /\ RenderLabel(v).code = shown.code /\ RenderLabel(v).status = shown.status
           /\ RenderLabel(v).screen = shown.screen
           /\ RenderLabel(v).label \in {shown.label, Selected(v)}
BY DEF RenderRegion, RenderValidity, RenderLabel, Displays

\* A partial redraw is of a view that has changed in nothing but its reveal.
LEMMA PartialRedraw ==
    ASSUME UiTypeOK, UiInv, NEW gesture \in {"none", "single", "double", "hold"},
           NEW works \in BOOLEAN, NEW delay \in {0, 1},
           ~Redraws(AtCheck, AtRoll(works, delay), AtGesture(gesture, works, delay),
                    AtRefresh(gesture, works, delay), gesture)
    PROVE  /\ AtCheck = view
           /\ Revealing(view) =>
                LET v4 == AtRefresh(gesture, works, delay) IN
                  /\ v4 = AtRoll(works, delay) /\ Revealing(v4) /\ SameList(view, v4)
                  /\ v4.error = view.error /\ Selected(v4) = Selected(view)
                  /\ v4.reveal.period = view.reveal.period \/ Rolls(view, now + offset)
                  /\ v4.reveal.code = view.reveal.code \/ Rolls(view, now + offset)
           /\ ~Revealing(view) => ~Revealing(AtRefresh(gesture, works, delay))
<1> DEFINE v1 == AtCheck
           v2 == AtRoll(works, delay)
           v3 == AtGesture(gesture, works, delay)
           v4 == AtRefresh(gesture, works, delay)
           at == now + offset
           unix == now + delay + offset
<1>1. /\ v1 = view /\ gesture = "none" /\ (Revealing(v1) => Revealing(v2))
      /\ RefreshDue => /\ v4.list = v3.list /\ v4.generation = v3.generation
                       /\ v4.error = v3.error /\ v4.visible = v3.visible
  BY DEF Redraws
<1>2. Good(view) /\ Good(v1) /\ Good(v2) /\ Good(v3) /\ Good(v4)
  BY IterateViews
<1>3. now \in Nat /\ at \in Nat /\ unix \in Nat
  BY TimesType
<1>4. /\ SameList(v1, v2) /\ v2.error = v1.error
      /\ Revealing(v2) /\ ~Rolls(v1, at) => /\ v2.reveal.period = v1.reveal.period
                                            /\ v2.reveal.code = v1.reveal.code
      /\ ~Revealing(v1) => v2 = v1
  BY <1>2, <1>3, RolledOverView DEF AtRoll
<1>5. v3 = v2
  <2>1. GestureGives(v2, gesture, unix, v3)
    BY <1>2, <1>3, GesturedView DEF AtGesture
  <2> QED BY <1>1, <2>1 DEF GestureGives
<1>6. Revealing(v4) => Revealing(v3)
  BY RefreshKeepsReveal
<1>7. ASSUME Revealing(view) PROVE v4 = v3
  <2>1. Revealing(v3) /\ HasSelection(v3)
    <3>1. HasSelection(view)
      BY <1>7 DEF UiInv, GoodReveal
    <3>2. v1 \in Views /\ v2 \in Views
      BY <1>2 DEF Good
    <3> HIDE DEF v1, v2, v3, v4
    <3> QED BY <1>1, <1>4, <1>5, <1>7, <3>1, <3>2, SameSelection
  <2>2. CASE ~RefreshDue
    BY <2>2 DEF AtRefresh
  <2>3. CASE RefreshDue
    <3>1. v4 = Refreshed(v3, works)
      BY <2>3 DEF AtRefresh
    <3>2. list \in Lists /\ generation \in 0..MaxGeneration
      BY DEF UiTypeOK
    <3> HIDE DEF v1, v2, v3, v4
    <3>3. /\ ~Relists(v3) => (v4.error = v3.error => v4 = v3)
          /\ Relists(v3) /\ ~works => v4.visible = FALSE
          /\ Relists(v3) /\ works => v4.generation = generation
      BY <1>2, <3>1, <3>2, RefreshedView
    <3>4. v3.visible
      BY <2>1 DEF HasSelection
    <3>5. Relists(v3) => v3.generation # generation
      BY <3>4 DEF Relists
    <3> QED BY <1>1, <2>3, <3>3, <3>4, <3>5
  <2> QED BY <2>2, <2>3
<1>8. ASSUME Revealing(view) PROVE Selected(v2) = Selected(view)
  <2>1. v1 \in Views /\ v2 \in Views
    BY <1>2 DEF Good
  <2> HIDE DEF v1, v2
  <2> QED BY <1>1, <1>4, <2>1, SameSelection
<1> HIDE DEF v1, v2, v3, v4
<1>9. /\ v1 = view
      /\ Revealing(view) => /\ v4 = v2 /\ Revealing(v4) /\ SameList(view, v4)
                            /\ v4.error = view.error /\ Selected(v4) = Selected(view)
                            /\ v4.reveal.period = view.reveal.period \/ Rolls(view, at)
                            /\ v4.reveal.code = view.reveal.code \/ Rolls(view, at)
      /\ ~Revealing(view) => ~Revealing(v4)
  BY <1>1, <1>4, <1>5, <1>6, <1>7, <1>8
<1> QED BY <1>9 DEF v1, v2, v4

\* An iteration leaves on the display nothing but what is revealed.
LEMMA IterateDisplay ==
    ASSUME UiTypeOK, UiInv, NEW gesture \in {"none", "single", "double", "hold"},
           NEW works \in BOOLEAN, NEW delay \in {0, 1}, Iterate(gesture, works, delay)
    PROVE  GoodDisplay(view, shown)'
<1> DEFINE v1 == AtCheck
           v2 == AtRoll(works, delay)
           v3 == AtGesture(gesture, works, delay)
           v4 == AtRefresh(gesture, works, delay)
           at == now + offset
<1>1. view' = v4 /\ Draws(v1, v2, v3, v4, gesture, at)
  BY IterateMeans
<1>2. Revealing(v4) => HasSelection(v4)
  BY <1>1, IterateReveal DEF GoodReveal
<1>3. ~Redraws(v1, v2, v3, v4, gesture) =>
        /\ v1 = view
        /\ Revealing(view) => /\ v4 = v2 /\ Revealing(v4) /\ SameList(view, v4)
                              /\ v4.error = view.error /\ Selected(v4) = Selected(view)
                              /\ v4.reveal.period = view.reveal.period \/ Rolls(view, at)
                              /\ v4.reveal.code = view.reveal.code \/ Rolls(view, at)
        /\ ~Revealing(view) => ~Revealing(v4)
  BY PartialRedraw
<1>4. shown \in Displays
  BY DEF UiTypeOK, Displays
<1> HIDE DEF v1, v2, v3, v4, at
<1> SUFFICES GoodDisplay(v4, shown')
  BY <1>1 DEF GoodDisplay
<1>5. CASE Redraws(v1, v2, v3, v4, gesture)
  BY <1>1, <1>2, <1>5, RenderGood DEF Draws
<1>6. CASE ~Redraws(v1, v2, v3, v4, gesture) /\ ~Revealing(view)
  <2>1. shown.code = None
    BY <1>6 DEF UiInv, GoodDisplay
  <2>2. shown'.code = None
    BY <1>1, <1>3, <1>4, <1>6, <2>1, RenderBands DEF Draws, Rolls
  <2> QED BY <1>3, <1>6, <2>2 DEF GoodDisplay
<1>7. CASE ~Redraws(v1, v2, v3, v4, gesture) /\ Revealing(view)
  <2>1. /\ v1 = view /\ Revealing(v4) /\ v4.error = view.error /\ Selected(v4) = Selected(view)
        /\ ~Rolls(view, at) => /\ v4.reveal.period = view.reveal.period
                               /\ v4.reveal.code = view.reveal.code
    BY <1>3, <1>7
  <2>2. /\ shown.code # None => shown.code = view.reveal.code
        /\ shown.screen = "status" /\ ~view.error =>
             /\ shown.label = Selected(view)
             /\ shown.code # None => shown.status = Validity(view)
    BY <1>7 DEF UiInv, GoodDisplay
  <2>3. CASE Rolls(view, at)
    <3>1. shown' = RenderRegion(v4)
      BY <1>1, <1>7, <2>1, <2>3 DEF Draws
    <3>2. /\ shown'.code = v4.reveal.code /\ shown'.status = Validity(v4)
          /\ shown'.label = shown.label /\ shown'.screen = shown.screen
      BY <1>4, <3>1, RenderBands
    <3> QED BY <2>1, <2>2, <3>2 DEF GoodDisplay
  <2>4. CASE ~Rolls(view, at)
    <3>1. shown' \in {RenderValidity(v4), shown, RenderLabel(v4)}
      BY <1>1, <1>7, <2>1, <2>4 DEF Draws
    <3>2. Validity(v4) = Validity(view)
      BY <2>1, <2>4 DEF Validity
    <3>3. /\ shown'.code = shown.code /\ shown'.screen = shown.screen
          /\ shown'.status \in {shown.status, Validity(v4)}
          /\ shown'.label \in {shown.label, Selected(v4)}
      BY <1>4, <3>1, RenderBands
    <3> QED BY <2>1, <2>2, <2>4, <3>2, <3>3 DEF GoodDisplay
  <2> QED BY <2>3, <2>4
<1> QED BY <1>5, <1>6, <1>7

-----------------------------------------------------------------------------
(* Type correctness                                                        *)

\* Whatever is drawn has the type of a display.
LEMMA RenderType ==
    ASSUME shown \in Displays, NEW v \in Views, NEW asking, NEW timely
    PROVE  /\ Render(v, asking, timely) \in Displays
           /\ RenderRegion(v) \in Displays /\ RenderValidity(v) \in Displays
           /\ RenderLabel(v) \in Displays
<1>1. /\ Selected(v) \in Credentials \cup {None} /\ v.reveal.code \in Codes \cup {None}
      /\ v.reveal.period \in Nat
  <2>1. v.reveal \in Reveals
    BY ViewFields
  <2> QED BY <2>1, SelectedType DEF Reveals
<1>2. /\ Validity(v) \in [is : {"none", "valid", "warning"}, period : Nat]
      /\ NoStatus \in [is : {"none", "valid", "warning"}, period : Nat]
      /\ [is |-> "warning", period |-> 0] \in [is : {"none", "valid", "warning"}, period : Nat]
  BY <1>1 DEF Validity, NoStatus
<1>3. \A s, c : s \in [is : {"none", "valid", "warning"}, period : Nat] /\ c \in Codes \cup {None}
         => /\ [shown EXCEPT !.status = s] \in Displays
            /\ [shown EXCEPT !.status = s, !.code = c] \in Displays
  BY DEF Displays
<1>4. \A l \in Credentials \cup {None} : [shown EXCEPT !.label = l] \in Displays
  BY DEF Displays
<1>5. RenderRegion(v) \in Displays /\ RenderValidity(v) \in Displays /\ RenderLabel(v) \in Displays
  BY <1>1, <1>2, <1>3, <1>4 DEF RenderRegion, RenderValidity, RenderLabel
<1>6. \A x, l, s, c :
        /\ x \in {"prompt", "status"} /\ l \in Credentials \cup {None}
        /\ s \in [is : {"none", "valid", "warning"}, period : Nat] /\ c \in Codes \cup {None}
        => [screen |-> x, label |-> l, status |-> s, code |-> c] \in Displays
  BY DEF Displays
<1>7. Render(v, asking, timely) \in Displays
  BY <1>1, <1>2, <1>6 DEF Render
<1> QED BY <1>5, <1>7

\* An iteration keeps the types.
LEMMA IterateType ==
    ASSUME UiTypeOK, NEW gesture \in {"none", "single", "double", "hold"},
           NEW works \in BOOLEAN, NEW delay \in {0, 1}, now + delay <= MaxTime,
           Iterate(gesture, works, delay)
    PROVE  UiTypeOK'
<1> DEFINE v1 == AtCheck
           v2 == AtRoll(works, delay)
           v3 == AtGesture(gesture, works, delay)
           v4 == AtRefresh(gesture, works, delay)
<1>1. Good(v3) /\ Good(v4) /\ v3 \in Views /\ v4 \in Views
  BY IterateViews DEF Good
<1>2. /\ now' = now + delay /\ ran' = TRUE /\ view' = v4
      /\ seen' = [ready |-> time_ready, prompt |-> prompt, unlocked |-> unlocked]
      /\ last_refresh' \in {now, last_refresh} /\ last_used' \in {Selected(v3), last_used}
      /\ unlocked' \in BOOLEAN /\ touched' \in BOOLEAN
      /\ shown' \in {Render(v4, prompt, time_ready), RenderRegion(v4), RenderValidity(v4),
                     RenderLabel(v4), shown}
      /\ revealed_at' \in {now, revealed_at, 0}
      /\ UNCHANGED <<offset, time_ready, list, generation, prompt>>
  BY IterateMeans DEF Draws
<1> HIDE DEF v1, v2, v3, v4
<1>3. now \in Times /\ 0 \in Times /\ now' \in Times /\ revealed_at \in Times
  BY <1>2, BoundsAssumption DEF UiTypeOK, Times
<1>4. shown' \in Displays
  <2>1. shown \in Displays
    BY DEF UiTypeOK, Displays
  <2> QED BY <1>1, <1>2, <2>1, RenderType
<1>5. last_used' \in Credentials \cup {None}
  BY <1>1, <1>2, SelectedType DEF UiTypeOK
<1>6. /\ {time_ready, unlocked, prompt, ran, touched}' \subseteq BOOLEAN
      /\ seen' \in [ready : BOOLEAN, prompt : BOOLEAN, unlocked : BOOLEAN]
  BY <1>2 DEF UiTypeOK
<1>7. view' \in Views /\ view'.selected \in 0..Len(view'.list)
  BY <1>1, <1>2 DEF Good
<1>8. last_refresh' \in Times /\ revealed_at' \in Times
  BY <1>2, <1>3 DEF UiTypeOK
<1>9. offset' \in Offsets /\ generation' \in 0..MaxGeneration /\ list' \in Lists
  BY <1>2 DEF UiTypeOK
<1> QED BY <1>3, <1>4, <1>5, <1>6, <1>7, <1>8, <1>9 DEF UiTypeOK, Displays

\* The view and the screen of a device that shows nothing.
LEMMA EmptyViewType ==
    ASSUME shown \in Displays, NEW asking, NEW timely
    PROVE  /\ Good(EmptyView) /\ ~Revealing(EmptyView) /\ EmptyView.visible = FALSE
           /\ Render(EmptyView, asking, timely) \in Displays
           /\ Render(EmptyView, asking, timely).code = None
<1>1. EmptyView \in Views
  BY NoRevealType, BoundsAssumption DEF EmptyView, Views, Reveals
<1>2. /\ EmptyView.visible = FALSE /\ EmptyView.selected = 0 /\ EmptyView.list = <<>>
      /\ EmptyView.reveal = NoReveal
  BY DEF EmptyView
<1>3. 0 \in 0..Len(<<>>)
  OBVIOUS
<1>4. Render(EmptyView, asking, timely) \in Displays
  BY <1>1, RenderType
<1>5. Render(EmptyView, asking, timely).code = None
  BY <1>2 DEF Render, HasSelection
<1> QED BY <1>1, <1>2, <1>3, <1>4, <1>5 DEF Good, Revealing

\* The initial state has its type.
LEMMA UiInitType == UiInit => UiTypeOK
<1> SUFFICES ASSUME UiInit PROVE UiTypeOK
  OBVIOUS
<1>1. shown = [screen |-> "status", status |-> NoStatus, label |-> None, code |-> None]
  BY DEF UiInit, Render, EmptyView, HasSelection
<1>2. shown \in Displays
  BY <1>1 DEF Displays, NoStatus
<1>3. view = EmptyView /\ Good(EmptyView)
  BY <1>2, EmptyViewType DEF UiInit
<1>4. view \in Views /\ view.selected \in 0..Len(view.list)
  BY <1>3 DEF Good
<1>5. 0 \in Times /\ 0 \in 0..MaxGeneration
  BY BoundsAssumption DEF Times
<1>6. seen \in [ready : BOOLEAN, prompt : BOOLEAN, unlocked : BOOLEAN]
  BY DEF UiInit
<1>7. {time_ready, unlocked, prompt, ran, touched} \subseteq BOOLEAN
  BY DEF UiInit
<1> QED BY <1>2, <1>4, <1>5, <1>6, <1>7 DEF UiInit, UiTypeOK, Displays

\* A step of the other tasks keeps the types.
LEMMA OthersType ==
    ASSUME UiTypeOK, Tick \/ TimeChanges \/ Unlock \/ Close \/ Update \/ PromptChanges
    PROVE  UiTypeOK'
<1>0. shown \in Displays
  BY DEF UiTypeOK, Displays
<1>1. CASE Tick
  <2>1. now' \in Times
    BY <1>1, BoundsAssumption DEF Tick, UiTypeOK, Times
  <2> QED BY <1>1, <2>1 DEF Tick, UiTypeOK, runtime, controller
<1>2. CASE TimeChanges
  <2>1. offset' \in Offsets /\ time_ready' \in BOOLEAN /\ ran' \in BOOLEAN
    BY <1>2 DEF TimeChanges, UiTypeOK
  <2> QED BY <1>2, <2>1 DEF TimeChanges, UiTypeOK, runtime, controller
<1>3. CASE Unlock
  BY <1>3 DEF Unlock, UiTypeOK, world, controller
<1>4. CASE Close
  <2>1. CASE view' = EmptyView /\ seen' = [seen EXCEPT !.unlocked = FALSE]
             /\ shown' = Render(view', prompt, time_ready)
    <3>1. Good(view') /\ shown' \in Displays
      BY <1>0, <2>1, EmptyViewType
    <3>2. seen' \in [ready : BOOLEAN, prompt : BOOLEAN, unlocked : BOOLEAN]
      BY <2>1 DEF UiTypeOK
    <3> QED BY <1>4, <3>1, <3>2 DEF Close, UiTypeOK, Good, Displays, world, history
  <2>2. CASE UNCHANGED <<view, seen, shown>>
    BY <1>4, <2>2 DEF Close, UiTypeOK, world, history
  <2> QED BY <1>4, <2>1, <2>2 DEF Close
<1>5. CASE Update
  <2>1. generation' \in 0..MaxGeneration
    BY <1>5, BoundsAssumption DEF Update, UiTypeOK
  <2> QED BY <1>5, <2>1 DEF Update, UiTypeOK, world, controller
<1>6. CASE PromptChanges
  BY <1>6 DEF PromptChanges, UiTypeOK, world, runtime, controller
<1> QED BY <1>1, <1>2, <1>3, <1>4, <1>5, <1>6

\* Every variable of the UI task keeps its type; the selection never leaves the list
\* it was made in.  About: CanonicalUiController::run and the tasks it reads from.
THEOREM UiTypeCorrect == UiSpec => []UiTypeOK
<1>1. UiTypeOK /\ [UiNext]_ui_vars => UiTypeOK'
  <2> SUFFICES ASSUME UiTypeOK, [UiNext]_ui_vars PROVE UiTypeOK'
    OBVIOUS
  <2>1. CASE UNCHANGED ui_vars
    BY <2>1 DEF ui_vars, UiTypeOK
  <2>2. CASE \E g \in {"none", "single", "double", "hold"}, works \in BOOLEAN, delay \in {0, 1} :
               now + delay <= MaxTime /\ Iterate(g, works, delay)
    BY <2>2, IterateType
  <2> QED BY <2>1, <2>2, OthersType DEF UiNext
<1> QED BY UiInitType, <1>1, PTL DEF UiSpec

-----------------------------------------------------------------------------
(* The safety properties                                                   *)

\* A step of the other tasks keeps the invariant: the clock moves on only after an
\* iteration, a change of the time is seen by the next one, a lock shows nothing.
LEMMA OthersInv ==
    ASSUME UiTypeOK, UiInv, Tick \/ TimeChanges \/ Unlock \/ Close \/ Update \/ PromptChanges
    PROVE  UiInv'
<1>0. shown \in Displays
  BY DEF UiTypeOK, Displays
<1>1. CASE Tick
  <2>1. ran /\ now' = now + 1 /\ ran' = FALSE /\ UNCHANGED <<offset, view, shown, revealed_at>>
    BY <1>1 DEF Tick, controller
  <2>2. Revealing(view) => now \in Nat /\ view.reveal.deadline \in Nat
    <3>1. view.reveal \in Reveals
      BY ViewFields DEF UiTypeOK
    <3> QED BY <3>1 DEF UiTypeOK, Times, Reveals
  <2>3. Revealing(view) => now' <= view.reveal.deadline + 1
    <3>1. Revealing(view) => now <= view.reveal.deadline
      BY <2>1 DEF UiInv, GoodReveal
    <3> QED BY <2>1, <2>2, <3>1
  <2> QED BY <2>1, <2>3 DEF UiInv, GoodReveal, GoodDisplay
<1>2. CASE TimeChanges
  <2>1. ran' = FALSE /\ UNCHANGED <<now, view, shown, revealed_at>>
    BY <1>2 DEF TimeChanges, controller
  <2> QED BY <2>1 DEF UiInv, GoodReveal, GoodDisplay
<1>3. CASE Unlock \/ Update \/ PromptChanges
  <2>1. UNCHANGED <<now, offset, view, shown, revealed_at, ran>>
    BY <1>3 DEF Unlock, Update, PromptChanges, controller, world
  <2> QED BY <2>1 DEF UiInv, GoodReveal, GoodDisplay
<1>4. CASE Close
  <2>1. UNCHANGED <<now, offset, revealed_at, ran>>
    BY <1>4 DEF Close, history, world
  <2>2. CASE UNCHANGED <<view, shown>>
    BY <2>1, <2>2 DEF UiInv, GoodReveal, GoodDisplay
  <2>3. CASE view' = EmptyView /\ shown' = Render(EmptyView, prompt, time_ready)
    <3>1. ~Revealing(view)' /\ shown'.code = None
      BY <1>0, <2>3, EmptyViewType
    <3> QED BY <3>1 DEF UiInv, GoodReveal, GoodDisplay
  <2> QED BY <1>4, <2>2, <2>3 DEF Close
<1> QED BY <1>1, <1>2, <1>3, <1>4

\* What is revealed and what is shown of it agree in every state.
LEMMA UiInvHolds == UiSpec => []UiInv
<1>1. UiInit => UiInv
  <2> SUFFICES ASSUME UiInit PROVE UiInv
    OBVIOUS
  <2>1. shown = Render(EmptyView, FALSE, FALSE) /\ view = EmptyView
    BY DEF UiInit
  <2>2. ~Revealing(view) /\ shown.code = None
    <3>1. shown \in Displays
      BY UiInitType DEF UiTypeOK, Displays
    <3> QED BY <2>1, <3>1, EmptyViewType
  <2> QED BY <2>2 DEF UiInv, GoodReveal, GoodDisplay
<1>2. UiTypeOK /\ UiInv /\ [UiNext]_ui_vars => UiInv'
  <2> SUFFICES ASSUME UiTypeOK, UiInv, [UiNext]_ui_vars PROVE UiInv'
    OBVIOUS
  <2>1. CASE UNCHANGED ui_vars
    BY <2>1 DEF ui_vars, UiInv, GoodReveal, GoodDisplay
  <2>2. CASE \E g \in {"none", "single", "double", "hold"}, works \in BOOLEAN, delay \in {0, 1} :
               now + delay <= MaxTime /\ Iterate(g, works, delay)
    <3>1. PICK g \in {"none", "single", "double", "hold"}, works \in BOOLEAN, delay \in {0, 1} :
            Iterate(g, works, delay)
      BY <2>2
    <3> QED BY <3>1, IterateReveal, IterateDisplay DEF UiInv
  <2> QED BY <2>1, <2>2, OthersInv DEF UiNext
<1> QED BY <1>1, <1>2, UiTypeCorrect, PTL DEF UiSpec

\* Whatever the order of ticks, changes of the time, updates, locks, requests and
\* gestures, the code on the account screen is of the account named above it and
\* of the period whose validity is drawn beside it.  About: run,
\* render_reveal_region, refresh_credentials.
THEOREM CodeStandsByItsAccount == UiSpec => []OneAccountOnePeriod
<1>1. UiInv => OneAccountOnePeriod
  <2> SUFFICES ASSUME UiInv, shown.screen = "status", shown.code # None, ~view.error
               PROVE  /\ shown.label = shown.code.credential
                      /\ shown.status = [is |-> "valid", period |-> shown.code.period]
    BY DEF OneAccountOnePeriod
  <2>1. /\ Revealing(view) /\ shown.code = view.reveal.code /\ shown.label = Selected(view)
        /\ shown.status = Validity(view)
    BY DEF UiInv, GoodDisplay
  <2>2. view.reveal.code = [credential |-> Selected(view), period |-> view.reveal.period]
    BY <2>1 DEF UiInv, GoodReveal
  <2> QED BY <2>1, <2>2 DEF Validity
<1> QED BY <1>1, UiInvHolds, PTL

\* After every iteration the code on the display is of the current period, the
\* clock stepping back or crossing a period while the code is made included.
\* About: the rollover in run, generate_for_credential's second try.
THEOREM ShownCodeIsCurrent == UiSpec => []CodeIsCurrent
<1>1. UiInv => CodeIsCurrent
  <2> SUFFICES ASSUME UiInv, ran, shown.code # None
               PROVE  shown.code.period = PeriodIndex(now + offset)
    BY DEF CodeIsCurrent
  <2>1. Revealing(view) /\ shown.code = view.reveal.code
    BY DEF UiInv, GoodDisplay
  <2>2. /\ view.reveal.code = [credential |-> Selected(view), period |-> view.reveal.period]
        /\ view.reveal.period = PeriodIndex(now + offset)
    BY <2>1 DEF UiInv, GoodReveal
  <2> QED BY <2>1, <2>2
<1> QED BY <1>1, UiInvHolds, PTL

\* A code is gone from the display RevealTicks after the gesture that asked for
\* it, however often it rolls over.  About: reveal_selected, refresh_revealed_totp.
THEOREM RevealEndsInTime == UiSpec => []RevealInTime
<1>1. UiInv => RevealInTime
  <2> SUFFICES ASSUME UiInv, shown.code # None PROVE now <= revealed_at + RevealTicks + 1
    BY DEF RevealInTime
  <2>1. Revealing(view)
    BY DEF UiInv, GoodDisplay
  <2> QED BY <2>1 DEF UiInv, GoodReveal
<1> QED BY <1>1, UiInvHolds, PTL

\* An iteration without a gesture that shows another list keeps the selected account.
LEMMA IterateSelection ==
    ASSUME UiTypeOK, NEW works \in BOOLEAN, NEW delay \in {0, 1}, Iterate("none", works, delay),
           HasSelection(view), view'.visible, view'.generation # view.generation,
           Selected(view) \in ToSet(view'.list)
    PROVE  view'.list[view'.selected] = Selected(view)
<1> DEFINE v1 == AtCheck
           v2 == AtRoll(works, delay)
           v3 == AtGesture("none", works, delay)
           v4 == AtRefresh("none", works, delay)
<1>1. view' = v4
  BY IterateMeans
<1>2. Good(view) /\ Good(v1) /\ Good(v2) /\ Good(v3) /\ Good(v4)
  BY IterateViews
<1>3. now \in Nat /\ now + offset \in Nat /\ now + delay + offset \in Nat
  BY TimesType
<1>4. SameList(v1, v2)
  BY <1>2, <1>3, RolledOverView DEF AtRoll
<1>5. v3 = v2
  <2>1. GestureGives(v2, "none", now + delay + offset, v3)
    BY <1>2, <1>3, GesturedView DEF AtGesture
  <2> QED BY <2>1 DEF GestureGives
<1>6. /\ unlocked => SameList(view, v1)
      /\ ~unlocked => ~v1.visible
  BY <1>2, CheckedView DEF AtCheck
<1>7. v4 = IF RefreshDue THEN Refreshed(v3, works) ELSE v3
  BY DEF AtRefresh
<1>8. list \in Lists /\ generation \in 0..MaxGeneration
  BY DEF UiTypeOK
<1> HIDE DEF v1, v2, v3, v4
<1>9. v1 \in Views /\ v2 \in Views /\ v3 \in Views /\ view \in Views
  BY <1>2 DEF Good
<1>10. unlocked
  BY <1>1, <1>4, <1>5, <1>6, <1>7 DEF SameList, RefreshDue
<1>11. SameList(view, v3)
  BY <1>4, <1>5, <1>6, <1>10 DEF SameList
<1>12. HasSelection(v3) /\ Selected(v3) = Selected(view)
  BY <1>9, <1>11, SameSelection
<1>13. RefreshDue /\ v4 = Refreshed(v3, works)
  BY <1>1, <1>7, <1>11 DEF SameList
<1>14. /\ ~Relists(v3) => SameList(v3, v4)
       /\ Relists(v3) /\ ~works => v4.visible = FALSE
       /\ Relists(v3) /\ works => /\ v4.list = list
                                  /\ list # <<>> => v4.selected = Preferred(v3)
  BY <1>2, <1>8, <1>13, RefreshedView
<1>15. v4.list = list /\ (list # <<>> => v4.selected = Preferred(v3))
  BY <1>1, <1>11, <1>14 DEF SameList
<1>16. list # <<>>
  BY <1>1, <1>15 DEF ToSet
<1>17. list[Preferred(v3)] = Selected(v3)
  BY <1>1, <1>8, <1>9, <1>12, <1>15, <1>16, PreferredIndex
<1> QED BY <1>1, <1>12, <1>15, <1>16, <1>17

\* An account list that changes under the user keeps the account that is selected,
\* as long as it has it.  About: refresh_credentials, persist_selection.
THEOREM SelectionIsKept == UiSpec => SelectionFollows
<1> DEFINE Follows == /\ HasSelection(view) /\ view'.visible /\ view'.generation # view.generation
                      /\ ~touched' /\ Selected(view) \in ToSet(view'.list)
                      => view'.list[view'.selected] = Selected(view)
<1>1. UiTypeOK /\ [UiNext]_ui_vars => [Follows]_ui_vars
  <2> SUFFICES ASSUME UiTypeOK, UiNext,
                      HasSelection(view), view'.visible, view'.generation # view.generation,
                      ~touched', Selected(view) \in ToSet(view'.list)
               PROVE  view'.list[view'.selected] = Selected(view)
    OBVIOUS
  <2>1. CASE Tick \/ TimeChanges \/ Unlock \/ Update \/ PromptChanges
    BY <2>1 DEF Tick, TimeChanges, Unlock, Update, PromptChanges, controller
  <2>2. CASE Close
    <3>1. shown \in Displays
      BY DEF UiTypeOK, Displays
    <3>2. EmptyView.visible = FALSE
      BY <3>1, EmptyViewType
    <3> QED BY <2>2, <3>2 DEF Close
  <2>3. CASE \E g \in {"none", "single", "double", "hold"}, works \in BOOLEAN, delay \in {0, 1} :
               now + delay <= MaxTime /\ Iterate(g, works, delay)
    <3>1. PICK g \in {"none", "single", "double", "hold"}, works \in BOOLEAN, delay \in {0, 1} :
            Iterate(g, works, delay)
      BY <2>3
    <3>2. g = "none"
      BY <3>1, IterateMeans
    <3> QED BY <3>1, <3>2, IterateSelection
  <2> QED BY <2>1, <2>2, <2>3 DEF UiNext
<1> QED BY <1>1, UiTypeCorrect, PTL DEF UiSpec, SelectionFollows

-----------------------------------------------------------------------------
(* The three tasks                                                         *)

\* Who holds which mutex is what the three program counters say.
SyncHolder ==
    /\ held["sync"] = "protocol"
         <=> p \in {"secret", "work", "notify", "clear", "clear_work", "usb_secret", "usb_work"}
    /\ held["sync"] = "resync" <=> r \in {"sync", "copy", "connect", "sample"}
    /\ held["sync"] # "ui"

ViewHolder ==
    /\ held["view"] = "protocol" <=> p \in {"clear", "clear_work"}
    /\ held["view"] = "ui" <=> u \notin {"sleep", "wake"}
    /\ held["view"] # "resync"

RuntimeHolder ==
    /\ held["runtime"] = "protocol" <=> p \in {"work", "clear_work", "usb_work", "handle_work"}
    /\ held["runtime"] = "ui"
         <=> u \in {"look_work", "generate_work", "persist_work", "refresh_work"}
    /\ held["runtime"] = "resync" <=> r = "copy"

\* The Wi-Fi settings and the driver exist only during an exchange, which no
\* lock and no reset can overtake.
ExchangeIsOpen ==
    /\ r \in {"connect", "sample"} => state \in {"unlocked", "error"}
    /\ credentials => r \in {"connect", "sample"}
    /\ network => r = "sample"

\* A boundary knows what it was asked for until it has done it.
RequestKnown == p \in {"boundary", "secret", "work"} => request \in Boundaries

Holders == SyncHolder /\ ViewHolder /\ RuntimeHolder

\* What is neither a step of a boundary nor of the other two tasks.
OtherStep == (\E k \in Boundaries : BeginBoundary(k)) \/ UsbSync \/ HandleRequest
             \/ ResyncDue \/ TimeStale

IndInv == TypeOK /\ Holders /\ RequestKnown /\ ExchangeIsOpen /\ LockedIsClean /\ AnchorOnlyUnlocked

-----------------------------------------------------------------------------
(* Taking and giving back a mutex                                          *)

\* Acquire gives one free mutex (or the Runtime's own) to the task.
LEMMA Acquired ==
    ASSUME TypeOK, NEW m \in Mutexes, NEW t \in Tasks, Acquire(m, t)
    PROVE  /\ held' \in [Mutexes -> Tasks \cup {Free}]
           /\ held[m] = Free \/ held[m] = t
           /\ held'[m] = t
           /\ \A n \in Mutexes : n # m => held'[n] = held[n]
  BY DEF Acquire, TypeOK

\* Release frees those of the named mutexes that the task holds.
LEMMA Released ==
    ASSUME TypeOK, NEW ms, NEW t \in Tasks, Release(ms, t)
    PROVE  /\ held' \in [Mutexes -> Tasks \cup {Free}]
           /\ \A n \in Mutexes : held'[n] = IF n \in ms /\ held[n] = t THEN Free ELSE held[n]
  BY DEF Release, TypeOK

\* No task is called Free.
LEMMA Names == Free \notin {"protocol", "ui", "resync"} /\ Mutexes = {"sync", "view", "runtime"}
               /\ Tasks = {"protocol", "ui", "resync"}
  BY FreeAssumption DEF Tasks, Mutexes

-----------------------------------------------------------------------------
(* The holders                                                             *)

\* A boundary takes sync, then runtime, then view and runtime again.
LEMMA BoundaryHolders == ASSUME TypeOK, Holders, BoundaryStep PROVE Holders'
<1> USE Names DEF Holders, SyncHolder, ViewHolder, RuntimeHolder, device, wifi, protocol,
        ui, display
<1>1. CASE EnterBoundary
  BY <1>1, Acquired DEF EnterBoundary
<1>2. CASE BoundaryRuntime
  BY <1>2, Acquired DEF BoundaryRuntime
<1>3. CASE BoundaryWork
  BY <1>3, Released DEF BoundaryWork
<1>4. CASE Notify
  BY <1>4, Acquired DEF Notify
<1>5. CASE ClearRuntime
  BY <1>5, Acquired DEF ClearRuntime
<1>6. CASE ClearWork
  BY <1>6, Released DEF ClearWork
<1> QED BY <1>1, <1>2, <1>3, <1>4, <1>5, <1>6 DEF BoundaryStep

\* The UI takes view for an iteration, and runtime inside it.
LEMMA UiHolders == ASSUME TypeOK, Holders, UiStep PROVE Holders'
<1> USE Names DEF Holders, SyncHolder, ViewHolder, RuntimeHolder, device, wifi, protocol,
        ui, display
<1>1. CASE UiWakes
  BY <1>1, Acquired, Released DEF UiWakes
<1>2. CASE UiAcquires("wake", "look", "view")
  BY <1>2, Acquired, Released DEF UiAcquires
<1>3. CASE UiAcquires("look", "look_work", "runtime")
  BY <1>3, Acquired, Released DEF UiAcquires
<1>4. CASE UiAcquires("generate", "generate_work", "runtime")
  BY <1>4, Acquired, Released DEF UiAcquires
<1>5. CASE UiAcquires("persist", "persist_work", "runtime")
  BY <1>5, Acquired, Released DEF UiAcquires
<1>6. CASE UiLook
  BY <1>6, Acquired, Released DEF UiLook, ClearPrivateView, HideReveal, Clears
<1>7. CASE UiGenerate
  BY <1>7, Acquired, Released DEF UiGenerate, AfterGenerate
<1>8. CASE UiGesture
  BY <1>8, Acquired, Released DEF UiGesture, HideReveal
<1>9. CASE UiPersist
  BY <1>9, Acquired, Released DEF UiPersist
<1>10. CASE UiSkipsRefresh
  BY <1>10, Acquired, Released DEF UiSkipsRefresh
<1>11. CASE UiBeginsRefresh
  BY <1>11, Acquired, Released DEF UiBeginsRefresh, UiAcquires
<1>12. CASE UiRefresh
  BY <1>12, Acquired, Released DEF UiRefresh, ClearPrivateView
<1>13. CASE UiRender
  BY <1>13, Acquired, Released DEF UiRender, Screens
<1> QED BY <1>1, <1>2, <1>3, <1>4, <1>5, <1>6, <1>7, <1>8, <1>9, <1>10, <1>11, <1>12,
     <1>13 DEF UiStep

\* The time service takes sync for an attempt, and runtime inside it.
LEMMA ResyncHolders == ASSUME TypeOK, Holders, ResyncStep PROVE Holders'
<1> USE Names DEF Holders, SyncHolder, ViewHolder, RuntimeHolder, device, wifi, protocol,
        ui, display
<1>1. CASE ResyncEnters
  BY <1>1, Acquired, Released DEF ResyncEnters
<1>2. CASE ResyncNotDue
  BY <1>2, Acquired, Released DEF ResyncNotDue
<1>3. CASE ResyncRuntime
  BY <1>3, Acquired, Released DEF ResyncRuntime
<1>4. CASE CopyCredentials
  BY <1>4, Acquired, Released DEF CopyCredentials
<1>5. CASE Connect
  BY <1>5, Acquired, Released DEF Connect
<1>6. CASE Sample
  BY <1>6, Acquired, Released DEF Sample
<1> QED BY <1>1, <1>2, <1>3, <1>4, <1>5, <1>6 DEF ResyncStep

\* The other requests, and what takes no mutex.
LEMMA OtherHolders == ASSUME TypeOK, Holders,
       OtherStep
    PROVE Holders'
<1> USE Names DEF Holders, SyncHolder, ViewHolder, RuntimeHolder, device, wifi, protocol,
        ui, display
<1>1. CASE \E k \in Boundaries : BeginBoundary(k)
  BY <1>1, Acquired, Released DEF BeginBoundary
<1>2. CASE UsbSync
  BY <1>2, Acquired, Released DEF UsbSync
<1>3. CASE HandleRequest
  BY <1>3, Acquired, Released DEF HandleRequest
<1>4. CASE ResyncDue
  BY <1>4, Acquired, Released DEF ResyncDue
<1>5. CASE TimeStale
  BY <1>5, Acquired, Released DEF TimeStale
<1> QED BY <1>1, <1>2, <1>3, <1>4, <1>5 DEF OtherStep

-----------------------------------------------------------------------------
(* The exchange with the network                                           *)

\* A boundary holds sync when it changes the state, so there is no exchange.
LEMMA BoundaryExchange ==
    ASSUME TypeOK, Holders, ExchangeIsOpen, BoundaryStep
    PROVE  ExchangeIsOpen'
<1> USE Names DEF ExchangeIsOpen, Holders, SyncHolder, RuntimeHolder, device, wifi,
        protocol, ui, display
<1>1. CASE EnterBoundary
  BY <1>1 DEF EnterBoundary
<1>2. CASE BoundaryRuntime
  BY <1>2 DEF BoundaryRuntime
<1>3. CASE BoundaryWork
  BY <1>3 DEF BoundaryWork, BoundaryOutcomes, Notifies
<1>4. CASE Notify
  BY <1>4 DEF Notify
<1>5. CASE ClearRuntime
  BY <1>5 DEF ClearRuntime
<1>6. CASE ClearWork
  BY <1>6 DEF ClearWork, ClearPrivateView, Screens
<1> QED BY <1>1, <1>2, <1>3, <1>4, <1>5, <1>6 DEF BoundaryStep

\* The UI only turns UNLOCKED into an error.
LEMMA UiExchange ==
    ASSUME TypeOK, Holders, ExchangeIsOpen, UiStep
    PROVE  ExchangeIsOpen'
<1> USE Names DEF ExchangeIsOpen, Holders, SyncHolder, RuntimeHolder, device, wifi,
        protocol, ui, display
<1>1. CASE UiWakes
  BY <1>1 DEF UiWakes
<1>2. CASE UiAcquires("wake", "look", "view")
  BY <1>2 DEF UiAcquires
<1>3. CASE UiAcquires("look", "look_work", "runtime")
  BY <1>3 DEF UiAcquires
<1>4. CASE UiAcquires("generate", "generate_work", "runtime")
  BY <1>4 DEF UiAcquires
<1>5. CASE UiAcquires("persist", "persist_work", "runtime")
  BY <1>5 DEF UiAcquires
<1>6. CASE UiLook
  BY <1>6 DEF UiLook, ClearPrivateView, HideReveal, Clears
<1>7. CASE UiGenerate
  BY <1>7 DEF UiGenerate, AfterGenerate
<1>8. CASE UiGesture
  BY <1>8 DEF UiGesture, HideReveal
<1>9. CASE UiPersist
  BY <1>9 DEF UiPersist
<1>10. CASE UiSkipsRefresh
  BY <1>10 DEF UiSkipsRefresh
<1>11. CASE UiBeginsRefresh
  BY <1>11 DEF UiBeginsRefresh, UiAcquires
<1>12. CASE UiRefresh
  BY <1>12 DEF UiRefresh, ClearPrivateView
<1>13. CASE UiRender
  BY <1>13 DEF UiRender, Screens
<1> QED BY <1>1, <1>2, <1>3, <1>4, <1>5, <1>6, <1>7, <1>8, <1>9, <1>10, <1>11, <1>12,
     <1>13 DEF UiStep

\* An exchange begins with an open Vault and wipes its copies when it ends.
LEMMA ResyncExchange ==
    ASSUME TypeOK, Holders, ExchangeIsOpen, ResyncStep
    PROVE  ExchangeIsOpen'
<1> USE Names DEF ExchangeIsOpen, Holders, SyncHolder, RuntimeHolder, device, wifi,
        protocol, ui, display
<1>1. CASE ResyncEnters
  BY <1>1 DEF ResyncEnters
<1>2. CASE ResyncNotDue
  BY <1>2 DEF ResyncNotDue
<1>3. CASE ResyncRuntime
  BY <1>3 DEF ResyncRuntime
<1>4. CASE CopyCredentials
  BY <1>4 DEF CopyCredentials
<1>5. CASE Connect
  BY <1>5 DEF Connect
<1>6. CASE Sample
  BY <1>6 DEF Sample
<1> QED BY <1>1, <1>2, <1>3, <1>4, <1>5, <1>6 DEF ResyncStep

\* The other requests only open the Vault, or find it unreadable.
LEMMA OtherExchange ==
    ASSUME TypeOK, Holders, ExchangeIsOpen, OtherStep
    PROVE  ExchangeIsOpen'
<1> USE Names DEF ExchangeIsOpen, Holders, SyncHolder, RuntimeHolder, device, wifi,
        protocol, ui, display
<1>1. CASE \E k \in Boundaries : BeginBoundary(k)
  BY <1>1 DEF BeginBoundary
<1>2. CASE UsbSync
  BY <1>2 DEF UsbSync
<1>3. CASE HandleRequest
  BY <1>3 DEF HandleRequest
<1>4. CASE ResyncDue
  BY <1>4 DEF ResyncDue
<1>5. CASE TimeStale
  BY <1>5 DEF TimeStale
<1> QED BY <1>1, <1>2, <1>3, <1>4, <1>5 DEF OtherStep

-----------------------------------------------------------------------------
(* What is left outside a locked Vault                                     *)

\* Every boundary that locks goes on to tell the UI, which then is between iterations.
LEMMA BoundaryClean == ASSUME TypeOK, Holders, RequestKnown, ExchangeIsOpen, LockedIsClean, BoundaryStep
    PROVE  LockedIsClean'
<1> USE Names DEF LockedIsClean, ExchangeIsOpen, Holders, SyncHolder, ViewHolder, device,
        wifi, protocol, ui, display
<1>1. CASE EnterBoundary
  BY <1>1 DEF EnterBoundary
<1>2. CASE BoundaryRuntime
  BY <1>2 DEF BoundaryRuntime
<1>3. CASE BoundaryWork
  <2>1. ASSUME state' = "locked", p' # "notify" PROVE state = "locked"
    <3>1. request \in {"lock", "reset"}
      BY <1>3, <2>1 DEF RequestKnown, Boundaries, BoundaryWork, Notifies
    <3>2. CASE request = "lock"
      BY <1>3, <2>1, <3>2 DEF BoundaryWork, BoundaryOutcomes, Notifies
    <3>3. CASE request = "reset"
      BY <1>3, <2>1, <3>3 DEF BoundaryWork, BoundaryOutcomes
    <3> QED BY <3>1, <3>2, <3>3
  <2> QED BY <1>3, <2>1 DEF BoundaryWork
<1>4. CASE Notify
  BY <1>4 DEF Notify
<1>5. CASE ClearRuntime
  BY <1>5 DEF ClearRuntime
<1>6. CASE ClearWork
  BY <1>6 DEF ClearWork, ClearPrivateView, Screens
<1> QED BY <1>1, <1>2, <1>3, <1>4, <1>5, <1>6 DEF BoundaryStep

\* Nothing the UI does with an empty view of a locked Device fills it.
LEMMA UiClean ==
    ASSUME TypeOK, Holders, ExchangeIsOpen, LockedIsClean, UiStep
    PROVE  LockedIsClean'
<1> USE Names DEF LockedIsClean, ExchangeIsOpen, Holders, SyncHolder, ViewHolder, device,
        wifi, protocol, ui, display
<1>1. CASE UiWakes
  BY <1>1 DEF UiWakes
<1>2. CASE UiAcquires("wake", "look", "view")
  BY <1>2 DEF UiAcquires
<1>3. CASE UiAcquires("look", "look_work", "runtime")
  BY <1>3 DEF UiAcquires
<1>4. CASE UiAcquires("generate", "generate_work", "runtime")
  BY <1>4 DEF UiAcquires
<1>5. CASE UiAcquires("persist", "persist_work", "runtime")
  BY <1>5 DEF UiAcquires
<1>6. CASE UiLook
  BY <1>6 DEF UiLook, ClearPrivateView, HideReveal, Clears
<1>7. CASE UiGenerate
  BY <1>7 DEF UiGenerate, AfterGenerate
<1>8. CASE UiGesture
  BY <1>8 DEF UiGesture, HideReveal
<1>9. CASE UiPersist
  BY <1>9 DEF UiPersist
<1>10. CASE UiSkipsRefresh
  BY <1>10 DEF UiSkipsRefresh
<1>11. CASE UiBeginsRefresh
  BY <1>11 DEF UiBeginsRefresh, UiAcquires
<1>12. CASE UiRefresh
  BY <1>12 DEF UiRefresh, ClearPrivateView
<1>13. CASE UiRender
  BY <1>13 DEF UiRender, Screens
<1> QED BY <1>1, <1>2, <1>3, <1>4, <1>5, <1>6, <1>7, <1>8, <1>9, <1>10, <1>11, <1>12,
     <1>13 DEF UiStep

\* A locked Vault gives no Wi-Fi settings.
LEMMA ResyncClean ==
    ASSUME TypeOK, Holders, ExchangeIsOpen, LockedIsClean, ResyncStep
    PROVE  LockedIsClean'
<1> USE Names DEF LockedIsClean, ExchangeIsOpen, Holders, SyncHolder, ViewHolder, device,
        wifi, protocol, ui, display
<1>1. CASE ResyncEnters
  BY <1>1 DEF ResyncEnters
<1>2. CASE ResyncNotDue
  BY <1>2 DEF ResyncNotDue
<1>3. CASE ResyncRuntime
  BY <1>3 DEF ResyncRuntime
<1>4. CASE CopyCredentials
  BY <1>4 DEF CopyCredentials
<1>5. CASE Connect
  BY <1>5 DEF Connect
<1>6. CASE Sample
  BY <1>6 DEF Sample
<1> QED BY <1>1, <1>2, <1>3, <1>4, <1>5, <1>6 DEF ResyncStep

\* The other requests lock nothing.
LEMMA OtherClean ==
    ASSUME TypeOK, Holders, ExchangeIsOpen, LockedIsClean, OtherStep
    PROVE  LockedIsClean'
<1> USE Names DEF LockedIsClean, ExchangeIsOpen, Holders, SyncHolder, ViewHolder, device,
        wifi, protocol, ui, display
<1>1. CASE \E k \in Boundaries : BeginBoundary(k)
  BY <1>1 DEF BeginBoundary
<1>2. CASE UsbSync
  BY <1>2 DEF UsbSync
<1>3. CASE HandleRequest
  BY <1>3 DEF HandleRequest
<1>4. CASE ResyncDue
  BY <1>4 DEF ResyncDue
<1>5. CASE TimeStale
  BY <1>5 DEF TimeStale
<1> QED BY <1>1, <1>2, <1>3, <1>4, <1>5 DEF OtherStep

-----------------------------------------------------------------------------
(* Types                                                                   *)

HeldOK == held \in [Mutexes -> Tasks \cup {Free}]

ValuesOK ==
    /\ state \in {"blank", "locked", "unlocked", "error"}
    /\ p \in {"idle", "boundary", "secret", "work", "notify", "clear", "clear_work",
              "usb_secret", "usb_work", "handle_work"}
    /\ request \in Boundaries \cup {"none"}
    /\ u \in {"sleep", "wake", "look", "look_work", "generate", "generate_work", "gesture",
              "persist", "persist_work", "refresh", "refresh_work", "render"}
    /\ purpose \in {"none", "rollover", "hold"}
    /\ lcd \in {"plain", "labels", "otp"}
    /\ r \in {"sleep", "due", "sync", "copy", "connect", "sample"}

FlagsOK ==
    /\ ready \in BOOLEAN /\ late_anchor \in BOOLEAN
    /\ credentials \in BOOLEAN /\ network \in BOOLEAN
    /\ retried \in BOOLEAN /\ unlocked_seen \in BOOLEAN /\ dirty \in BOOLEAN
    /\ visible \in BOOLEAN /\ reveal \in BOOLEAN /\ ui_error \in BOOLEAN

\* The steps of a boundary.
LEMMA BoundaryTypes == ASSUME TypeOK, RequestKnown, BoundaryStep PROVE TypeOK'
<1> USE Names DEF TypeOK, HeldOK, ValuesOK, FlagsOK, device, wifi, protocol, ui, display, Boundaries, RequestKnown
<1>1. CASE EnterBoundary
  <2>1. HeldOK'
    BY <1>1, Acquired, Released DEF EnterBoundary
  <2>2. ValuesOK'
    BY <1>1 DEF EnterBoundary
  <2>3. FlagsOK'
    BY <1>1 DEF EnterBoundary
  <2> QED BY <2>1, <2>2, <2>3
<1>2. CASE BoundaryRuntime
  BY <1>2, Acquired, Released DEF BoundaryRuntime
<1>3. CASE BoundaryWork
  BY <1>3, Acquired, Released DEF BoundaryWork, BoundaryOutcomes, Notifies
<1>4. CASE Notify
  BY <1>4, Acquired, Released DEF Notify
<1>5. CASE ClearRuntime
  BY <1>5, Acquired, Released DEF ClearRuntime
<1>6. CASE ClearWork
  <2>1. HeldOK'
    BY <1>6, Acquired, Released DEF ClearWork, ClearPrivateView, Screens
  <2>2. ValuesOK'
    BY <1>6 DEF ClearWork, ClearPrivateView, Screens
  <2>3. FlagsOK'
    BY <1>6 DEF ClearWork, ClearPrivateView, Screens
  <2> QED BY <2>1, <2>2, <2>3
<1> QED BY <1>1, <1>2, <1>3, <1>4, <1>5, <1>6 DEF BoundaryStep

\* The steps of the UI.
LEMMA UiTypes == ASSUME TypeOK, UiStep PROVE TypeOK'
<1> USE Names DEF TypeOK, HeldOK, ValuesOK, FlagsOK, device, wifi, protocol, ui, display
<1>1. CASE UiWakes
  BY <1>1, Acquired, Released DEF UiWakes
<1>2. CASE UiAcquires("wake", "look", "view")
  BY <1>2, Acquired, Released DEF UiAcquires
<1>3. CASE UiAcquires("look", "look_work", "runtime")
  BY <1>3, Acquired, Released DEF UiAcquires
<1>4. CASE UiAcquires("generate", "generate_work", "runtime")
  BY <1>4, Acquired, Released DEF UiAcquires
<1>5. CASE UiAcquires("persist", "persist_work", "runtime")
  BY <1>5, Acquired, Released DEF UiAcquires
<1>6. CASE UiLook
  <2>1. HeldOK'
    BY <1>6, Acquired, Released DEF UiLook, ClearPrivateView, HideReveal, Clears
  <2>2. ValuesOK'
    BY <1>6 DEF UiLook, ClearPrivateView, HideReveal, Clears
  <2>3. FlagsOK'
    BY <1>6 DEF UiLook, ClearPrivateView, HideReveal, Clears
  <2> QED BY <2>1, <2>2, <2>3
<1>7. CASE UiGenerate
  <2>1. HeldOK'
    BY <1>7, Acquired, Released DEF UiGenerate, AfterGenerate
  <2>2. ValuesOK'
    BY <1>7 DEF UiGenerate, AfterGenerate
  <2>3. FlagsOK'
    BY <1>7 DEF UiGenerate, AfterGenerate
  <2> QED BY <2>1, <2>2, <2>3
<1>8. CASE UiGesture
  <2>1. HeldOK'
    BY <1>8, Acquired, Released DEF UiGesture, HideReveal
  <2>2. ValuesOK'
    BY <1>8 DEF UiGesture, HideReveal
  <2>3. FlagsOK'
    BY <1>8 DEF UiGesture, HideReveal
  <2> QED BY <2>1, <2>2, <2>3
<1>9. CASE UiPersist
  <2>1. HeldOK'
    BY <1>9, Acquired, Released DEF UiPersist
  <2>2. ValuesOK'
    BY <1>9 DEF UiPersist
  <2>3. FlagsOK'
    BY <1>9 DEF UiPersist
  <2> QED BY <2>1, <2>2, <2>3
<1>10. CASE UiSkipsRefresh
  BY <1>10, Acquired, Released DEF UiSkipsRefresh
<1>11. CASE UiBeginsRefresh
  BY <1>11, Acquired, Released DEF UiBeginsRefresh, UiAcquires
<1>12. CASE UiRefresh
  <2>1. HeldOK'
    BY <1>12, Acquired, Released DEF UiRefresh, ClearPrivateView
  <2>2. ValuesOK'
    BY <1>12 DEF UiRefresh, ClearPrivateView
  <2>3. FlagsOK'
    BY <1>12 DEF UiRefresh, ClearPrivateView
  <2> QED BY <2>1, <2>2, <2>3
<1>13. CASE UiRender
  <2>1. HeldOK'
    BY <1>13, Acquired, Released DEF UiRender, Screens
  <2>2. ValuesOK'
    BY <1>13 DEF UiRender, Screens
  <2>3. FlagsOK'
    BY <1>13 DEF UiRender, Screens
  <2> QED BY <2>1, <2>2, <2>3
<1> QED BY <1>1, <1>2, <1>3, <1>4, <1>5, <1>6, <1>7, <1>8, <1>9, <1>10, <1>11, <1>12,
     <1>13 DEF UiStep

\* The steps of the time service.
LEMMA ResyncTypes == ASSUME TypeOK, ResyncStep PROVE TypeOK'
<1> USE Names DEF TypeOK, HeldOK, ValuesOK, FlagsOK, device, wifi, protocol, ui, display
<1>1. CASE ResyncEnters
  BY <1>1, Acquired, Released DEF ResyncEnters
<1>2. CASE ResyncNotDue
  BY <1>2, Acquired, Released DEF ResyncNotDue
<1>3. CASE ResyncRuntime
  BY <1>3, Acquired, Released DEF ResyncRuntime
<1>4. CASE CopyCredentials
  <2>1. HeldOK'
    BY <1>4, Acquired, Released DEF CopyCredentials
  <2>2. ValuesOK'
    BY <1>4 DEF CopyCredentials
  <2>3. FlagsOK'
    BY <1>4 DEF CopyCredentials
  <2> QED BY <2>1, <2>2, <2>3
<1>5. CASE Connect
  BY <1>5, Acquired, Released DEF Connect
<1>6. CASE Sample
  <2>1. HeldOK'
    BY <1>6, Acquired, Released DEF Sample
  <2>2. ValuesOK'
    BY <1>6 DEF Sample
  <2>3. FlagsOK'
    BY <1>6 DEF Sample
  <2> QED BY <2>1, <2>2, <2>3
<1> QED BY <1>1, <1>2, <1>3, <1>4, <1>5, <1>6 DEF ResyncStep

\* The other requests.
LEMMA OtherTypes == ASSUME TypeOK, OtherStep PROVE TypeOK'
<1> USE Names DEF TypeOK, HeldOK, ValuesOK, FlagsOK, device, wifi, protocol, ui, display
<1>1. CASE \E k \in Boundaries : BeginBoundary(k)
  BY <1>1, Acquired, Released DEF BeginBoundary
<1>2. CASE UsbSync
  <2>1. HeldOK'
    BY <1>2, Acquired, Released DEF UsbSync
  <2>2. ValuesOK'
    BY <1>2 DEF UsbSync
  <2>3. FlagsOK'
    BY <1>2 DEF UsbSync
  <2> QED BY <2>1, <2>2, <2>3
<1>3. CASE HandleRequest
  BY <1>3, Acquired, Released DEF HandleRequest
<1>4. CASE ResyncDue
  BY <1>4, Acquired, Released DEF ResyncDue
<1>5. CASE TimeStale
  <2>1. HeldOK'
    BY <1>5, Acquired, Released DEF TimeStale
  <2>2. ValuesOK'
    BY <1>5 DEF TimeStale
  <2>3. FlagsOK'
    BY <1>5 DEF TimeStale
  <2> QED BY <2>1, <2>2, <2>3
<1> QED BY <1>1, <1>2, <1>3, <1>4, <1>5 DEF OtherStep

-----------------------------------------------------------------------------
(* The inductive invariant                                                 *)

\* At the start every mutex is free and nothing of a Vault is anywhere.
LEMMA InitInd == Init => IndInv
<1> SUFFICES ASSUME Init PROVE IndInv
  OBVIOUS
<1> USE Names DEF Init
<1>1. TypeOK
  BY DEF TypeOK, Boundaries
<1>2. Holders /\ RequestKnown
  BY DEF Holders, SyncHolder, ViewHolder, RuntimeHolder, RequestKnown
<1>3. ExchangeIsOpen /\ LockedIsClean /\ AnchorOnlyUnlocked
  BY DEF ExchangeIsOpen, LockedIsClean, AnchorOnlyUnlocked
<1> QED BY <1>1, <1>2, <1>3 DEF IndInv

\* Only BeginBoundary sets a request, and only BoundaryWork forgets it.
LEMMA RequestStep == ASSUME RequestKnown, Next PROVE RequestKnown'
<1> USE DEF RequestKnown, protocol
<1>1. CASE \E k \in Boundaries : BeginBoundary(k)
  BY <1>1 DEF BeginBoundary
<1>2. CASE BoundaryStep
  BY <1>2 DEF BoundaryStep, EnterBoundary, BoundaryRuntime, BoundaryWork, Notify,
              ClearRuntime, ClearWork
<1>3. CASE UsbSync \/ HandleRequest
  BY <1>3 DEF UsbSync, HandleRequest
<1>4. CASE UiStep
  BY <1>4 DEF UiStep, UiWakes, UiAcquires, UiLook, UiGenerate, UiGesture, UiPersist,
              UiSkipsRefresh, UiBeginsRefresh, UiRefresh, UiRender
<1>5. CASE ResyncDue \/ ResyncStep \/ TimeStale
  BY <1>5 DEF ResyncDue, ResyncStep, ResyncEnters, ResyncNotDue, ResyncRuntime,
              CopyCredentials, Connect, Sample, TimeStale
<1> QED BY <1>1, <1>2, <1>3, <1>4, <1>5 DEF Next

\* Only the end of an exchange can set a late anchor, and then the Device is
\* neither locked nor blank.
LEMMA AnchorStep ==
    ASSUME ExchangeIsOpen, AnchorOnlyUnlocked, Next PROVE AnchorOnlyUnlocked'
<1> USE DEF AnchorOnlyUnlocked, device
<1>1. CASE \E k \in Boundaries : BeginBoundary(k)
  BY <1>1 DEF BeginBoundary
<1>2. CASE BoundaryStep
  BY <1>2 DEF BoundaryStep, EnterBoundary, BoundaryRuntime, BoundaryWork, Notify,
              ClearRuntime, ClearWork
<1>3. CASE UsbSync \/ HandleRequest
  BY <1>3 DEF UsbSync, HandleRequest
<1>4. CASE UiStep
  BY <1>4 DEF UiStep, UiWakes, UiAcquires, UiLook, UiGenerate, UiGesture, UiPersist,
              UiSkipsRefresh, UiBeginsRefresh, UiRefresh, UiRender
<1>5. CASE ResyncDue \/ ResyncEnters \/ ResyncNotDue \/ ResyncRuntime
           \/ CopyCredentials \/ Connect \/ TimeStale
  BY <1>5 DEF ResyncDue, ResyncEnters, ResyncNotDue, ResyncRuntime, CopyCredentials,
              Connect, TimeStale
<1>6. CASE Sample
  BY <1>6 DEF Sample, ExchangeIsOpen
<1> QED BY <1>1, <1>2, <1>3, <1>4, <1>5, <1>6 DEF Next, ResyncStep

\* Every step of the specification keeps the invariant.
LEMMA NextInd == ASSUME IndInv, [Next]_vars PROVE IndInv'
<1>1. CASE UNCHANGED vars
  BY <1>1 DEF vars, IndInv, TypeOK, Holders, SyncHolder, ViewHolder, RuntimeHolder,
              RequestKnown, ExchangeIsOpen, LockedIsClean, AnchorOnlyUnlocked
<1>2. CASE Next
  <2>1. BoundaryStep \/ UiStep \/ ResyncStep \/ OtherStep
    BY <1>2 DEF Next, OtherStep
  <2>2. TypeOK'
    BY <2>1, BoundaryTypes, UiTypes, ResyncTypes, OtherTypes DEF IndInv
  <2>3. Holders'
    BY <2>1, BoundaryHolders, UiHolders, ResyncHolders, OtherHolders DEF IndInv
  <2>4. ExchangeIsOpen'
    BY <2>1, BoundaryExchange, UiExchange, ResyncExchange, OtherExchange DEF IndInv
  <2>5. LockedIsClean'
    BY <2>1, BoundaryClean, UiClean, ResyncClean, OtherClean DEF IndInv
  <2>6. RequestKnown' /\ AnchorOnlyUnlocked'
    BY <1>2, RequestStep, AnchorStep DEF IndInv
  <2> QED BY <2>2, <2>3, <2>4, <2>5, <2>6 DEF IndInv
<1> QED BY <1>1, <1>2

-----------------------------------------------------------------------------
(* Waiting                                                                 *)

\* The mutex a task is about to take.  An idle protocol task may be about to
\* take sync or runtime; it holds nothing.
Wants(t) ==
    CASE t = "protocol" ->
            (CASE p = "idle" -> {"sync", "runtime"}
               [] p = "boundary" -> {"sync"}
               [] p = "notify" -> {"view"}
               [] p \in {"secret", "clear", "usb_secret"} -> {"runtime"}
               [] OTHER -> {})
      [] t = "ui" ->
            (CASE u = "wake" -> {"view"}
               [] u \in {"look", "generate", "persist", "refresh"} -> {"runtime"}
               [] OTHER -> {})
      [] t = "resync" ->
            (CASE r = "due" -> {"sync"} [] r = "sync" -> {"runtime"} [] OTHER -> {})

\* Among any tasks, at least one waits for none of the others: there is no
\* circular wait.
NoCircularWait ==
    \A S \in SUBSET Tasks : S # {} =>
        \E t \in S : \A m \in Wants(t) : held[m] \notin S \ {t}

\* Sync comes before view, view before runtime.
Before(n, m) == <<n, m>> \in {<<"sync", "view">>, <<"sync", "runtime">>, <<"view", "runtime">>}

\* A task holds only mutexes that come before the one it wants.
LEMMA LockOrder ==
    ASSUME IndInv, NEW t \in Tasks, NEW m \in Wants(t), NEW n \in Mutexes, held[n] = t
    PROVE  m \in Mutexes /\ Before(n, m)
<1> USE Names DEF IndInv, Holders, SyncHolder, ViewHolder, RuntimeHolder, Before
<1>1. CASE t = "protocol"
  BY <1>1 DEF Wants
<1>2. CASE t = "ui"
  BY <1>2 DEF Wants
<1>3. CASE t = "resync"
  BY <1>3 DEF Wants
<1> QED BY <1>1, <1>2, <1>3

\* What a task wants is a mutex.
LEMMA WantsMutexes == ASSUME NEW t \in Tasks PROVE Wants(t) \subseteq Mutexes
<1>1. CASE t = "protocol"
  BY <1>1, Names DEF Wants
<1>2. CASE t = "ui"
  BY <1>2, Names DEF Wants
<1>3. CASE t = "resync"
  BY <1>3, Names DEF Wants
<1> QED BY <1>1, <1>2, <1>3, Names

\* The task that holds the last mutex of the order, among those held within a
\* set of tasks, waits for no other of them.
LEMMA OrderedNoCycle == ASSUME IndInv PROVE NoCircularWait
<1> SUFFICES ASSUME NEW S \in SUBSET Tasks, S # {}
             PROVE  \E t \in S : \A m \in Wants(t) : held[m] \notin S \ {t}
  BY DEF NoCircularWait
<1> USE Names
<1>1. CASE held["runtime"] \in S
  BY <1>1, LockOrder DEF Before
<1>2. CASE held["runtime"] \notin S /\ held["view"] \in S
  BY <1>2, LockOrder DEF Before
<1>3. CASE held["runtime"] \notin S /\ held["view"] \notin S /\ held["sync"] \in S
  BY <1>3, LockOrder DEF Before
<1>4. CASE \A m \in Mutexes : held[m] \notin S
  BY <1>4, WantsMutexes
<1> QED BY <1>1, <1>2, <1>3, <1>4

-----------------------------------------------------------------------------
(* Theorems                                                                *)

\* The inductive invariant holds in every reachable state.
\* About: the three tasks and their mutexes.
THEOREM TasksInvariant == Spec => []IndInv
  BY InitInd, NextInd, PTL DEF Spec

\* Whatever the UI and the time service are doing when a lock comes, once it has
\* been answered nothing of the Vault is left outside it.
\* About: with_secret_boundary, security_boundary_clear, run().
THEOREM TasksLockedIsClean == Spec => []LockedIsClean
<1>1. IndInv => LockedIsClean
  BY DEF IndInv
<1> QED BY <1>1, TasksInvariant, PTL

\* No exchange, whenever it began, sets the time of a locked or blank Device.
\* About: sync_ntp_once, connect_and_sync, sync_from_usb.
THEOREM TasksAnchorOnlyUnlocked == Spec => []AnchorOnlyUnlocked
<1>1. IndInv => AnchorOnlyUnlocked
  BY DEF IndInv
<1> QED BY <1>1, TasksInvariant, PTL

\* The three mutexes are always taken in the order sync, view, runtime, so the
\* tasks cannot wait for one another in a circle.
\* About: with_secret_boundary, security_boundary_clear, run(), resync_if_due.
THEOREM TasksNoCircularWait == Spec => []NoCircularWait
  BY OrderedNoCycle, TasksInvariant, PTL

\* Every variable keeps its range.
THEOREM TasksTypes == Spec => []TypeOK
<1>1. IndInv => TypeOK
  BY DEF IndInv
<1> QED BY <1>1, TasksInvariant, PTL

=============================================================================
