------------------------- MODULE DeviceInputProofs --------------------------
(***************************************************************************)
(* Proofs about what the Device is told, by its USB line (UsbTransport)    *)
(* and by its button (PresenceGate): for every byte stream, every size of  *)
(* a read and of a frame; for any number of attempts and operations and    *)
(* any lifetime, clock range and press counter.                            *)
(***************************************************************************)
EXTENDS UsbTransport, PresenceGate, SequenceTheorems, WellFoundedInduction, TLAPS

-----------------------------------------------------------------------------
(* Induction, over sets: the library's own form takes an operator.         *)

\* Every set of naturals has a least element.
LEMMA Least == ASSUME NEW T \in SUBSET Nat, T # {} PROVE \E x \in T : \A y \in T : x <= y
<1> DEFINE R == {ss \in Nat \X Nat : ss[1] < ss[2]}
<1>1. IsWellFoundedOn(R, Nat)
  BY NatLessThanWellFounded, Zenon DEF OpToRel
<1>2. \A x, y \in Nat : <<x, y>> \in R <=> x < y
  OBVIOUS
<1> HIDE DEF R
<1>3. PICK x \in T : \A y \in T : <<y, x>> \notin R
  BY <1>1, WFMin
<1>4. ASSUME NEW y \in T PROVE x <= y
  <2>1. x \in Nat /\ y \in Nat
    OBVIOUS
  <2>2. ~(y < x)
    BY <1>2, <1>3, <2>1
  <2> QED BY <2>1, <2>2
<1> QED BY <1>4

\* A set that has zero, and with a number its successor, has all numbers.
LEMMA SetInduction ==
    ASSUME NEW S, 0 \in S, \A n \in Nat : n \in S => n + 1 \in S PROVE \A n \in Nat : n \in S
<1> DEFINE T == {n \in Nat : n \notin S}
<1> SUFFICES ASSUME T # {} PROVE FALSE
  OBVIOUS
<1>1. PICK x \in T : \A y \in T : x <= y
  <2>1. T \in SUBSET Nat
    OBVIOUS
  <2> HIDE DEF T
  <2> QED BY <2>1, Least
<1>2. x # 0 /\ x \in Nat
  OBVIOUS
<1>3. x - 1 \in Nat /\ x - 1 \notin T
  BY <1>1, <1>2
<1> QED BY <1>2, <1>3

-----------------------------------------------------------------------------
(* Framing is a fold over the bytes                                        *)

Start == [line |-> <<>>, over |-> FALSE, out |-> <<>>]

\* g is the run of Frame over the first m bytes of s.
IsRun(g, s, m) == g = [n \in 0..m |-> IF n = 0 THEN Start ELSE Frame(g[n - 1], s[n])]

\* The recursive definition has a solution.
LEMMA RunExists == ASSUME NEW s, NEW m \in Nat PROVE \E g : IsRun(g, s, m)
<1> DEFINE S == {k \in Nat : \E g : IsRun(g, s, k)}
<1>1. 0 \in S
  <2> DEFINE g == [n \in 0..0 |-> Start]
  <2>1. g = [n \in 0..0 |-> IF n = 0 THEN Start ELSE Frame(g[n - 1], s[n])]
    OBVIOUS
  <2> HIDE DEF g
  <2> QED BY <2>1 DEF IsRun
<1>2. ASSUME NEW k \in Nat, k \in S PROVE k + 1 \in S
  <2>1. PICK g : IsRun(g, s, k)
    BY <1>2
  <2> DEFINE h == [n \in 0..(k + 1) |-> IF n = k + 1 THEN Frame(g[k], s[k + 1]) ELSE g[n]]
  <2>2. \A n \in 0..k : g[n] = IF n = 0 THEN Start ELSE Frame(g[n - 1], s[n])
    BY <2>1 DEF IsRun
  <2>3. ASSUME NEW n \in 0..(k + 1)
        PROVE  h[n] = IF n = 0 THEN Start ELSE Frame(h[n - 1], s[n])
    <3>1. CASE n = k + 1
      <4>1. n # 0 /\ n - 1 = k /\ k \in 0..(k + 1) /\ k # k + 1
        BY <3>1, <1>2
      <4>2. h[n] = Frame(g[k], s[n]) /\ h[n - 1] = g[k]
        BY <3>1, <4>1
      <4> QED BY <4>1, <4>2
    <3>2. CASE n # k + 1
      <4>1. n \in 0..k /\ h[n] = g[n]
        BY <3>2, <1>2
      <4>2. n # 0 => n - 1 \in 0..(k + 1) /\ n - 1 # k + 1 /\ h[n - 1] = g[n - 1]
        BY <3>2, <4>1, <1>2
      <4> QED BY <2>2, <4>1, <4>2
    <3> QED BY <3>1, <3>2
  <2>4. h = [n \in 0..(k + 1) |-> IF n = 0 THEN Start ELSE Frame(h[n - 1], s[n])]
    <3>1. h = [n \in 0..(k + 1) |-> h[n]]
      OBVIOUS
    <3> HIDE DEF h
    <3> QED BY <2>3, <3>1
  <2> HIDE DEF h
  <2> QED BY <2>4, <1>2 DEF IsRun
<1> HIDE DEF S
<1>3. \A n \in Nat : n \in S
  BY <1>1, <1>2, SetInduction
<1> QED BY <1>3 DEF S

\* s and t begin with the same m bytes.
SameBytes(s, t, m) == \A i \in 1..m : s[i] = t[i]

\* Two runs over the same bytes agree, however long they are.
LEMMA RunsAgree ==
    ASSUME NEW s, NEW t, NEW g, NEW h, NEW m \in Nat, NEW l \in Nat, m <= l,
           IsRun(g, s, m), IsRun(h, t, l), SameBytes(s, t, m)
    PROVE  g[m] = h[m]
<1> DEFINE S == {n \in Nat : n <= m => g[n] = h[n]}
<1>0. /\ \A n \in 0..m : g[n] = IF n = 0 THEN Start ELSE Frame(g[n - 1], s[n])
      /\ \A n \in 0..l : h[n] = IF n = 0 THEN Start ELSE Frame(h[n - 1], t[n])
  BY DEF IsRun
<1>1. 0 \in S
  BY <1>0
<1>2. ASSUME NEW n \in Nat, n \in S PROVE n + 1 \in S
  <2> SUFFICES ASSUME n + 1 <= m PROVE g[n + 1] = h[n + 1]
    OBVIOUS
  <2>1. g[n] = h[n] /\ s[n + 1] = t[n + 1]
    BY <1>2 DEF SameBytes
  <2>2. n + 1 \in 0..m /\ n + 1 \in 0..l /\ n + 1 # 0 /\ (n + 1) - 1 = n
    OBVIOUS
  <2> QED BY <1>0, <2>1, <2>2
<1> HIDE DEF S
<1>3. m \in S
  BY <1>1, <1>2, SetInduction
<1> QED BY <1>3 DEF S

\* What Framing computes.
LEMMA FramingIsRun ==
    ASSUME NEW s, Len(s) \in Nat, NEW g, IsRun(g, s, Len(s)) PROVE Framing(s) = g[Len(s)]
<1> DEFINE f == CHOOSE x : x = [n \in 0..Len(s) |-> IF n = 0 THEN Start ELSE Frame(x[n - 1], s[n])]
<1>1. f = [n \in 0..Len(s) |-> IF n = 0 THEN Start ELSE Frame(f[n - 1], s[n])]
  BY DEF IsRun
<1>2. Framing(s) = f[Len(s)]
  BY Zenon DEF Framing, Start
<1> HIDE DEF f
<1>3. IsRun(f, s, Len(s))
  BY <1>1 DEF IsRun
<1>4. f[Len(s)] = g[Len(s)]
  <2>1. ASSUME NEW m, m = Len(s) PROVE f[m] = g[m]
    <3>1. m \in Nat /\ m <= m /\ IsRun(f, s, m) /\ IsRun(g, s, m) /\ SameBytes(s, s, m)
      BY <1>3, <2>1 DEF SameBytes
    <3> QED BY <3>1, RunsAgree
  <2> QED BY <2>1
<1> QED BY <1>2, <1>4

\* No bytes.
LEMMA FramingEmpty == Framing(<<>>) = Start
<1>1. Len(<<>>) = 0
  OBVIOUS
<1>2. PICK g : IsRun(g, <<>>, 0)
  BY RunExists
<1>3. g[0] = Start
  BY <1>2 DEF IsRun
<1> QED BY <1>1, <1>2, <1>3, FramingIsRun

\* One byte more.
LEMMA FramingStep ==
    ASSUME NEW s, NEW t, NEW m \in Nat, NEW l \in Nat, l = m + 1, Len(s) = m, Len(t) = l,
           SameBytes(s, t, m)
    PROVE  Framing(t) = Frame(Framing(s), t[l])
<1>1. PICK g : IsRun(g, s, m)
  BY RunExists
<1>2. PICK h : IsRun(h, t, l)
  BY RunExists
<1>3. m <= l
  OBVIOUS
<1>4. g[m] = h[m]
  <2>1. ASSUME NEW n \in Nat, NEW k \in Nat, n <= k,
               IsRun(g, s, n), IsRun(h, t, k), SameBytes(s, t, n)
        PROVE  g[n] = h[n]
    BY <2>1, RunsAgree
  <2> QED BY <2>1, <1>1, <1>2, <1>3
<1>5. h[l] = Frame(h[m], t[l])
  <2>1. l \in 0..l /\ l # 0 /\ l - 1 = m
    OBVIOUS
  <2> QED BY <1>2, <2>1 DEF IsRun
<1>6. Framing(s) = g[m] /\ Framing(t) = h[l]
  BY <1>1, <1>2, FramingIsRun
<1> QED BY <1>4, <1>5, <1>6

\* The framer takes one more byte.
LEMMA FramingAppend ==
    ASSUME NEW s \in Seq(Bytes), NEW b \in Bytes
    PROVE  Framing(Append(s, b)) = Frame(Framing(s), b)
<1>1. /\ Len(s) \in Nat /\ Len(Append(s, b)) = Len(s) + 1 /\ Len(s) + 1 \in Nat
      /\ Append(s, b)[Len(s) + 1] = b /\ \A i \in 1..Len(s) : s[i] = Append(s, b)[i]
  BY AppendProperties, LenProperties
<1>2. ASSUME NEW t, t = Append(s, b), NEW m, m = Len(s), NEW l, l = m + 1
      PROVE  Framing(t) = Frame(Framing(s), t[l])
  <2>1. m \in Nat /\ l \in Nat /\ Len(t) = l /\ SameBytes(s, t, m)
    BY <1>1, <1>2 DEF SameBytes
  <2> QED BY <1>2, <2>1, FramingStep
<1> QED BY <1>1, <1>2

-----------------------------------------------------------------------------
(* Sequences                                                               *)

\* A set of sequences that has the empty one, and with a sequence every longer by
\* one, has all sequences.
LEMMA SeqInduction ==
    ASSUME NEW A, NEW P, <<>> \in P, \A s \in Seq(A), a \in A : s \in P => Append(s, a) \in P
    PROVE  \A s \in Seq(A) : s \in P
<1> DEFINE S == {n \in Nat : \A s \in Seq(A) : Len(s) = n => s \in P}
<1>1. 0 \in S
  <2>1. \A s \in Seq(A) : Len(s) = 0 => s = <<>>
    BY EmptySeq
  <2> QED BY <2>1
<1>2. ASSUME NEW n \in Nat, n \in S PROVE n + 1 \in S
  <2> SUFFICES ASSUME NEW s \in Seq(A), Len(s) = n + 1 PROVE s \in P
    OBVIOUS
  <2>1. s[n + 1] \in A
    BY ElementOfSeq
  <2>2. SubSeq(s, 1, n) \in Seq(A) /\ Len(SubSeq(s, 1, n)) = n
    BY SubSeqProperties
  <2>3. s = Append(SubSeq(s, 1, n), s[n + 1])
    OBVIOUS
  <2>4. SubSeq(s, 1, n) \in P
    BY <1>2, <2>2
  <2> QED BY <2>1, <2>2, <2>3, <2>4
<1> HIDE DEF S
<1>3. \A n \in Nat : n \in S
  BY <1>1, <1>2, SetInduction
<1> QED BY <1>3, LenProperties DEF S

\* Appending to the end of a concatenation.
LEMMA ConcatAppend ==
    ASSUME NEW A, NEW s \in Seq(A), NEW t \in Seq(A), NEW a \in A
    PROVE  s \o Append(t, a) = Append(s \o t, a)
OBVIOUS

\* Concatenation is associative.
LEMMA ConcatThree ==
    ASSUME NEW x \in Seq(Bytes), NEW a \in Seq(Bytes), NEW r \in Seq(Bytes)
    PROVE  (x \o a) \o r = x \o (a \o r)
BY ConcatAssociative

-----------------------------------------------------------------------------
(* What Frame does to its argument                                         *)

Line == Seq(Bytes) \cup {TooLarge}
FrameState == [line : Seq(Bytes), over : BOOLEAN, out : Seq(Line)]

\* Stripping finds where the trailing carriage returns begin.
LEMMA StrippedType ==
    ASSUME NEW s \in Seq(Bytes)
    PROVE  Stripped(s) \in Seq(Bytes) /\ Len(Stripped(s)) <= Len(s)
<1> DEFINE T == {n \in 0..Len(s) : \A i \in (n + 1)..Len(s) : s[i] = "\r"}
           n == CHOOSE n \in 0..Len(s) : /\ n > 0 => s[n] # "\r"
                                         /\ \A i \in (n + 1)..Len(s) : s[i] = "\r"
<1>0. Len(s) \in Nat
  BY LenProperties
<1>1. \E k \in 0..Len(s) : /\ k > 0 => s[k] # "\r"
                           /\ \A i \in (k + 1)..Len(s) : s[i] = "\r"
  <2>1. Len(s) \in T /\ T \in SUBSET Nat
    BY <1>0
  <2>2. PICK k \in T : \A y \in T : k <= y
    <3> HIDE DEF T
    <3> QED BY <2>1, Least
  <2>3. k \in 0..Len(s) /\ \A i \in (k + 1)..Len(s) : s[i] = "\r"
    BY <2>2
  <2>4. ASSUME k > 0, s[k] = "\r" PROVE FALSE
    <3>1. k - 1 \in 0..Len(s) /\ k - 1 \notin T
      <4>1. k \in Nat /\ k - 1 \in 0..Len(s) /\ ~(k <= k - 1)
        BY <1>0, <2>3, <2>4
      <4> HIDE DEF T
      <4> QED BY <2>2, <4>1
    <3>2. \A i \in ((k - 1) + 1)..Len(s) : s[i] = "\r"
      <4>1. ASSUME NEW i \in ((k - 1) + 1)..Len(s) PROVE i = k \/ i \in (k + 1)..Len(s)
        BY <1>0, <2>3
      <4> QED BY <2>3, <2>4, <4>1
    <3> QED BY <3>1, <3>2
  <2> QED BY <2>3, <2>4
<1>2. n \in 0..Len(s)
  BY <1>1
<1>3. Stripped(s) = SubSeq(s, 1, n)
  BY DEF Stripped
<1> HIDE DEF n
<1>4. SubSeq(s, 1, n) \in Seq(Bytes) /\ Len(SubSeq(s, 1, n)) = n
  BY <1>0, <1>2, SubSeqProperties
<1> QED BY <1>0, <1>2, <1>3, <1>4

\* The three cases of Frame.
LEMMA FrameNewline ==
    ASSUME NEW f \in FrameState
    PROVE  Frame(f, "\n") =
             [line |-> <<>>, over |-> FALSE,
              out |-> IF f.over THEN f.out
                      ELSE Append(f.out, IF Len(Stripped(f.line)) > MaxLine
                                           THEN TooLarge ELSE Stripped(f.line))]
BY DEF Frame

\* A frame that is over length keeps no byte.
LEMMA FrameOver ==
    ASSUME NEW f \in FrameState, f.over, NEW b \in Bytes, b # "\n" PROVE Frame(f, b) = f
BY DEF Frame

\* A byte of a line is kept, or fills the buffer: the line is too large.
LEMMA FrameByte ==
    ASSUME NEW f \in FrameState, ~f.over, NEW b \in Bytes, b # "\n"
    PROVE  Frame(f, b) = IF Len(f.line) + 1 = Capacity
                           THEN [line |-> <<>>, over |-> TRUE, out |-> Append(f.out, TooLarge)]
                           ELSE [line |-> Append(f.line, b), over |-> FALSE, out |-> f.out]
<1>0. f.over = FALSE
  BY DEF FrameState
<1>1. \A x : [f EXCEPT !.line = x] = [line |-> x, over |-> f.over, out |-> f.out]
  BY DEF FrameState
<1> QED BY <1>0, <1>1 DEF Frame

\* A byte leaves the framer in one of its states.
LEMMA FrameType == ASSUME NEW f \in FrameState, NEW b \in Bytes PROVE Frame(f, b) \in FrameState
<1>0. f.line \in Seq(Bytes) /\ f.over \in BOOLEAN /\ f.out \in Seq(Line)
  BY DEF FrameState
<1>1. TooLarge \in Line /\ <<>> \in Seq(Bytes) /\ Stripped(f.line) \in Line
  BY <1>0, StrippedType, EmptySeq DEF Line
<1>2. CASE b = "\n"
  <2> DEFINE x == IF Len(Stripped(f.line)) > MaxLine THEN TooLarge ELSE Stripped(f.line)
  <2>1. x \in Line
    BY <1>1
  <2>2. Frame(f, b) = [line |-> <<>>, over |-> FALSE, out |-> IF f.over THEN f.out ELSE Append(f.out, x)]
    BY <1>2, FrameNewline
  <2> HIDE DEF x
  <2>3. Append(f.out, x) \in Seq(Line)
    BY <1>0, <2>1, AppendProperties
  <2> QED BY <1>0, <1>1, <2>2, <2>3 DEF FrameState
<1>3. CASE b # "\n" /\ f.over
  BY <1>3, FrameOver
<1>4. CASE b # "\n" /\ ~f.over
  <2>1. Append(f.out, TooLarge) \in Seq(Line) /\ Append(f.line, b) \in Seq(Bytes)
    BY <1>0, <1>1, AppendProperties
  <2>2. Frame(f, b) = [line |-> <<>>, over |-> TRUE, out |-> Append(f.out, TooLarge)]
        \/ Frame(f, b) = [line |-> Append(f.line, b), over |-> FALSE, out |-> f.out]
    BY <1>4, FrameByte
  <2>3. [line |-> <<>>, over |-> TRUE, out |-> Append(f.out, TooLarge)] \in FrameState
    BY <1>1, <2>1 DEF FrameState
  <2>4. [line |-> Append(f.line, b), over |-> FALSE, out |-> f.out] \in FrameState
    BY <1>0, <2>1 DEF FrameState
  <2> QED BY <2>2, <2>3, <2>4
<1> QED BY <1>2, <1>3, <1>4

\* Every byte string leaves the framer in one of its states.
LEMMA FramingType == \A s \in Seq(Bytes) : Framing(s) \in FrameState
<1> DEFINE P == {s \in Seq(Bytes) : Framing(s) \in FrameState}
<1>1. <<>> \in P
  <2>1. Start \in FrameState
    BY EmptySeq DEF Start, FrameState
  <2> QED BY <2>1, FramingEmpty, EmptySeq
<1>2. ASSUME NEW s \in Seq(Bytes), NEW b \in Bytes, s \in P PROVE Append(s, b) \in P
  BY <1>2, FramingAppend, FrameType, AppendProperties
<1> HIDE DEF P
<1>3. \A s \in Seq(Bytes) : s \in P
  BY <1>1, <1>2, SeqInduction
<1> QED BY <1>3 DEF P

-----------------------------------------------------------------------------
(* Framing goes on from where it is                                        *)

\* f, after the lines t.
Shift(t, f) == [line |-> f.line, over |-> f.over, out |-> t \o f.out]

\* The fields of a framer whose lines follow others.
LEMMA ShiftRecord ==
    ASSUME NEW t, NEW l, NEW v, NEW o
    PROVE  Shift(t, [line |-> l, over |-> v, out |-> o]) = [line |-> l, over |-> v, out |-> t \o o]
BY DEF Shift

\* As FramesAreTheStream writes it.
LEMMA ShiftExcept ==
    ASSUME NEW f \in FrameState, NEW t PROVE [f EXCEPT !.out = t \o @] = Shift(t, f)
<1>1. \A x : [f EXCEPT !.out = x] = [line |-> f.line, over |-> f.over, out |-> x]
  BY DEF FrameState
<1> QED BY <1>1 DEF Shift

\* Lines put in front leave the framer in one of its states.
LEMMA ShiftType ==
    ASSUME NEW f \in FrameState, NEW t \in Seq(Line) PROVE Shift(t, f) \in FrameState
<1>1. f.line \in Seq(Bytes) /\ f.over \in BOOLEAN /\ f.out \in Seq(Line)
  BY DEF FrameState
<1>2. t \o f.out \in Seq(Line)
  BY <1>1, ConcatProperties
<1> QED BY <1>1, <1>2 DEF Shift, FrameState

\* What was out before does not matter to what comes out next.
LEMMA ShiftFrame ==
    ASSUME NEW f \in FrameState, NEW t \in Seq(Line), NEW b \in Bytes
    PROVE  Frame(Shift(t, f), b) = Shift(t, Frame(f, b))
<1>0. /\ f.line \in Seq(Bytes) /\ f.over \in BOOLEAN /\ f.out \in Seq(Line)
      /\ Shift(t, f) \in FrameState
  BY ShiftType DEF FrameState
<1>1. /\ Shift(t, f).line = f.line /\ Shift(t, f).over = f.over
      /\ Shift(t, f).out = t \o f.out
  BY DEF Shift
<1>2. \A x \in Line : Append(t \o f.out, x) = t \o Append(f.out, x)
  <2>1. ASSUME NEW o \in Seq(Line), NEW x \in Line PROVE t \o Append(o, x) = Append(t \o o, x)
    BY ConcatAppend
  <2> QED BY <1>0, <2>1
<1>3. CASE b = "\n"
  <2> DEFINE x == IF Len(Stripped(f.line)) > MaxLine THEN TooLarge ELSE Stripped(f.line)
  <2>1. x \in Line
    BY <1>0, StrippedType DEF Line
  <2>2. /\ Frame(f, b) = [line |-> <<>>, over |-> FALSE,
                          out |-> IF f.over THEN f.out ELSE Append(f.out, x)]
        /\ Frame(Shift(t, f), b) =
             [line |-> <<>>, over |-> FALSE,
              out |-> IF f.over THEN t \o f.out ELSE Append(t \o f.out, x)]
    BY <1>0, <1>1, <1>3, FrameNewline
  <2> HIDE DEF x
  <2>3. CASE f.over
    BY <2>2, <2>3 DEF Shift
  <2>4. CASE ~f.over
    <3>1. Frame(f, b) = [line |-> <<>>, over |-> FALSE, out |-> Append(f.out, x)]
      BY <2>2, <2>4
    <3>2. Shift(t, Frame(f, b)) = [line |-> <<>>, over |-> FALSE, out |-> t \o Append(f.out, x)]
      BY <3>1, ShiftRecord, Zenon
    <3> QED BY <1>2, <2>1, <2>2, <2>4, <3>2
  <2> QED BY <2>3, <2>4
<1>4. CASE b # "\n" /\ f.over
  BY <1>0, <1>1, <1>4, FrameOver
<1>5. CASE b # "\n" /\ ~f.over
  <2>1. TooLarge \in Line
    BY DEF Line
  <2>2. /\ Frame(f, b) = IF Len(f.line) + 1 = Capacity
                           THEN [line |-> <<>>, over |-> TRUE, out |-> Append(f.out, TooLarge)]
                           ELSE [line |-> Append(f.line, b), over |-> FALSE, out |-> f.out]
        /\ Frame(Shift(t, f), b) =
             IF Len(f.line) + 1 = Capacity
               THEN [line |-> <<>>, over |-> TRUE, out |-> Append(t \o f.out, TooLarge)]
               ELSE [line |-> Append(f.line, b), over |-> FALSE, out |-> t \o f.out]
    BY <1>0, <1>1, <1>5, FrameByte
  <2>3. CASE Len(f.line) + 1 = Capacity
    <3>1. Frame(f, b) = [line |-> <<>>, over |-> TRUE, out |-> Append(f.out, TooLarge)]
      BY <2>2, <2>3
    <3>2. Shift(t, Frame(f, b)) = [line |-> <<>>, over |-> TRUE, out |-> t \o Append(f.out, TooLarge)]
      BY <3>1, ShiftRecord, Zenon
    <3> QED BY <1>2, <2>1, <2>2, <2>3, <3>2
  <2>4. CASE Len(f.line) + 1 # Capacity
    <3>1. Frame(f, b) = [line |-> Append(f.line, b), over |-> FALSE, out |-> f.out]
      BY <2>2, <2>4
    <3>2. Shift(t, Frame(f, b)) = [line |-> Append(f.line, b), over |-> FALSE, out |-> t \o f.out]
      BY <3>1, ShiftRecord, Zenon
    <3> QED BY <2>2, <2>4, <3>2
  <2> QED BY <2>3, <2>4
<1> QED BY <1>3, <1>4, <1>5

\* Two streams that frame alike but for t go on to do so.
LEMMA FramingShift ==
    ASSUME NEW x \in Seq(Bytes), NEW y \in Seq(Bytes), NEW t \in Seq(Line),
           Framing(x) = Shift(t, Framing(y))
    PROVE  \A c \in Seq(Bytes) : Framing(x \o c) = Shift(t, Framing(y \o c))
<1> DEFINE P == {c \in Seq(Bytes) : Framing(x \o c) = Shift(t, Framing(y \o c))}
<1>1. <<>> \in P
  <2>1. x \o <<>> = x /\ y \o <<>> = y /\ <<>> \in Seq(Bytes)
    BY ConcatEmptySeq, EmptySeq
  <2> QED BY <2>1
<1>2. ASSUME NEW c \in Seq(Bytes), NEW b \in Bytes, c \in P PROVE Append(c, b) \in P
  <2>1. x \o Append(c, b) = Append(x \o c, b) /\ y \o Append(c, b) = Append(y \o c, b)
    OBVIOUS
  <2>2. x \o c \in Seq(Bytes) /\ y \o c \in Seq(Bytes) /\ Append(c, b) \in Seq(Bytes)
    BY ConcatProperties, AppendProperties
  <2>3. /\ Framing(Append(x \o c, b)) = Frame(Framing(x \o c), b)
        /\ Framing(Append(y \o c, b)) = Frame(Framing(y \o c), b)
        /\ Framing(y \o c) \in FrameState
    BY <2>2, FramingAppend, FramingType
  <2>4. Frame(Shift(t, Framing(y \o c)), b) = Shift(t, Frame(Framing(y \o c), b))
    BY <2>3, ShiftFrame
  <2> QED BY <1>2, <2>1, <2>2, <2>3, <2>4
<1> HIDE DEF P
<1>3. \A c \in Seq(Bytes) : c \in P
  BY <1>1, <1>2, SeqInduction
<1> QED BY <1>3 DEF P

\* No newline among the bytes of s.
NoNewline(s) == \A i \in 1..Len(s) : s[i] # "\n"

\* A string without a newline, and one byte more.
LEMMA NoNewlineAppend ==
    ASSUME NEW s \in Seq(Bytes), NEW b \in Bytes, NoNewline(Append(s, b))
    PROVE  NoNewline(s) /\ b # "\n"
<1>1. /\ Len(Append(s, b)) = Len(s) + 1 /\ Len(s) \in Nat
      /\ Append(s, b)[Len(s) + 1] = b /\ \A i \in 1..Len(s) : Append(s, b)[i] = s[i]
  BY AppendProperties, LenProperties
<1>2. Len(s) + 1 \in 1..(Len(s) + 1) /\ \A i \in 1..Len(s) : i \in 1..(Len(s) + 1)
  BY <1>1
<1> QED BY <1>1, <1>2 DEF NoNewline

\* What is being discarded goes on being discarded.
LEMMA OverStays ==
    ASSUME NEW x \in Seq(Bytes), Framing(x).over
    PROVE  \A c \in Seq(Bytes) : NoNewline(c) => Framing(x \o c) = Framing(x)
<1> DEFINE P == {c \in Seq(Bytes) : NoNewline(c) => Framing(x \o c) = Framing(x)}
<1>1. <<>> \in P
  BY ConcatEmptySeq, EmptySeq
<1>2. ASSUME NEW c \in Seq(Bytes), NEW b \in Bytes, c \in P PROVE Append(c, b) \in P
  <2>0. Append(c, b) \in Seq(Bytes)
    BY AppendProperties
  <2> SUFFICES ASSUME NoNewline(Append(c, b)) PROVE Framing(x \o Append(c, b)) = Framing(x)
    BY <2>0
  <2>1. x \o Append(c, b) = Append(x \o c, b) /\ x \o c \in Seq(Bytes)
    BY ConcatProperties
  <2>2. Framing(x \o c) = Framing(x) /\ b # "\n"
    BY <1>2, NoNewlineAppend
  <2>3. Frame(Framing(x), b) = Framing(x)
    BY <2>2, FramingType, FrameOver
  <2> QED BY <2>1, <2>2, <2>3, FramingAppend
<1> HIDE DEF P
<1>3. \A c \in Seq(Bytes) : c \in P
  BY <1>1, <1>2, SeqInduction
<1> QED BY <1>3 DEF P

\* A line that fits is kept, and one that fills the buffer is too large.
LEMMA FramingLine ==
    \A s \in Seq(Bytes) : NoNewline(s) =>
        /\ Len(s) < Capacity => Framing(s) = [line |-> s, over |-> FALSE, out |-> <<>>]
        /\ Len(s) = Capacity => Framing(s) = [line |-> <<>>, over |-> TRUE, out |-> <<TooLarge>>]
<1> DEFINE Q(s) == NoNewline(s) =>
               /\ Len(s) < Capacity => Framing(s) = [line |-> s, over |-> FALSE, out |-> <<>>]
               /\ Len(s) = Capacity =>
                    Framing(s) = [line |-> <<>>, over |-> TRUE, out |-> <<TooLarge>>]
           P == {s \in Seq(Bytes) : Q(s)}
<1>0. Capacity \in Nat /\ Capacity > 0
  BY LineAssumption DEF Capacity
<1>1. <<>> \in P
  <2>1. Len(<<>>) = 0 /\ <<>> \in Seq(Bytes)
    BY EmptySeq
  <2> QED BY <1>0, <2>1, FramingEmpty DEF Start
<1>2. ASSUME NEW s \in Seq(Bytes), NEW b \in Bytes, s \in P PROVE Append(s, b) \in P
  <2>0. Append(s, b) \in Seq(Bytes) /\ Len(Append(s, b)) = Len(s) + 1 /\ Len(s) \in Nat
    BY AppendProperties, LenProperties
  <2> SUFFICES ASSUME NoNewline(Append(s, b)), Len(s) + 1 <= Capacity PROVE Q(Append(s, b))
    BY <1>0, <2>0
  <2>1. NoNewline(s) /\ b # "\n"
    BY NoNewlineAppend
  <2>2. Framing(s) = [line |-> s, over |-> FALSE, out |-> <<>>]
    BY <1>0, <1>2, <2>0, <2>1
  <2>3. Append(<<>>, TooLarge) = <<TooLarge>>
    OBVIOUS
  <2>4. Framing(Append(s, b)) =
           IF Len(s) + 1 = Capacity
             THEN [line |-> <<>>, over |-> TRUE, out |-> <<TooLarge>>]
             ELSE [line |-> Append(s, b), over |-> FALSE, out |-> <<>>]
    <3>1. Framing(s) \in FrameState
      BY FramingType
    <3>2. Framing(s).line = s /\ Framing(s).over = FALSE /\ Framing(s).out = <<>>
      BY <2>2
    <3> QED BY <2>1, <2>3, <3>1, <3>2, FramingAppend, FrameByte
  <2> QED BY <1>0, <2>0, <2>4
<1> HIDE DEF P
<1>3. \A s \in Seq(Bytes) : s \in P
  BY <1>1, <1>2, SeqInduction
<1> QED BY <1>3 DEF P

-----------------------------------------------------------------------------
(* Taking a line off the buffer                                            *)

\* HasLine is the opposite of NoNewline.
LEMMA HasLineMeans == ASSUME NEW s \in Seq(Bytes) PROVE HasLine(s) <=> ~NoNewline(s)
<1>1. DOMAIN s = 1..Len(s)
  BY LenProperties
<1> QED BY <1>1 DEF HasLine, NoNewline, Range

\* A buffer with a newline is its first line, the newline, and what is left.
LEMMA FirstLineSplits ==
    ASSUME NEW c \in Seq(Bytes), HasLine(c)
    PROVE  /\ FirstLine(c) \in Seq(Bytes) /\ NoNewline(FirstLine(c))
           /\ Consumed(c) \in Seq(Bytes)
           /\ c = Append(FirstLine(c), "\n") \o Consumed(c)
           /\ Len(FirstLine(c)) + 1 <= Len(c) /\ Len(Consumed(c)) <= Len(c)
<1> DEFINE T == {i \in 1..Len(c) : c[i] = "\n"}
           k == CHOOSE i \in 1..Len(c) : c[i] = "\n" /\ \A j \in 1..(i - 1) : c[j] # "\n"
<1>0. Len(c) \in Nat
  BY LenProperties
<1>1. \E i \in 1..Len(c) : c[i] = "\n" /\ \A j \in 1..(i - 1) : c[j] # "\n"
  <2>1. T # {} /\ T \in SUBSET Nat
    BY <1>0, HasLineMeans DEF NoNewline
  <2>2. PICK i \in T : \A y \in T : i <= y
    <3> HIDE DEF T
    <3> QED BY <2>1, Least
  <2>3. i \in 1..Len(c) /\ c[i] = "\n"
    OBVIOUS
  <2>4. ASSUME NEW j \in 1..(i - 1), c[j] = "\n" PROVE FALSE
    <3>1. j \in 1..Len(c) /\ ~(i <= j)
      BY <1>0, <2>3
    <3>2. j \in T
      BY <2>4, <3>1
    <3> QED BY <2>2, <3>1, <3>2
  <2> QED BY <2>3, <2>4
<1>2. k \in 1..Len(c) /\ c[k] = "\n" /\ \A j \in 1..(k - 1) : c[j] # "\n"
  BY <1>1
<1>3. FirstLine(c) = SubSeq(c, 1, k - 1)
  BY DEF FirstLine
<1> HIDE DEF T, k
<1>4. /\ SubSeq(c, 1, k - 1) \in Seq(Bytes) /\ Len(SubSeq(c, 1, k - 1)) = k - 1
      /\ \A i \in 1..(k - 1) : SubSeq(c, 1, k - 1)[i] = c[i]
  <2>1. 1 \in Int /\ k - 1 \in Int /\ \A i \in 1..(k - 1) : c[i] \in Bytes
    BY <1>0, <1>2, ElementOfSeq
  <2> QED BY <1>0, <1>2, <2>1, SubSeqProperties
<1>5. NoNewline(FirstLine(c))
  BY <1>2, <1>3, <1>4 DEF NoNewline
<1>6. Consumed(c) = SubSeq(c, k + 1, Len(c))
  <2>1. (k - 1) + 2 = k + 1
    BY <1>2
  <2> QED BY <1>3, <1>4, <2>1 DEF Consumed
<1>7. /\ SubSeq(c, k + 1, Len(c)) \in Seq(Bytes) /\ Len(SubSeq(c, k + 1, Len(c))) = Len(c) - k
      /\ \A i \in 1..(Len(c) - k) : SubSeq(c, k + 1, Len(c))[i] = c[k + i]
  <2>1. k + 1 \in Int /\ Len(c) \in Int /\ \A i \in (k + 1)..Len(c) : c[i] \in Bytes
    BY <1>0, <1>2, ElementOfSeq
  <2> QED BY <1>0, <1>2, <2>1, SubSeqProperties
<1>8. c = Append(SubSeq(c, 1, k - 1), "\n") \o SubSeq(c, k + 1, Len(c))
  <2>1. SubSeq(c, 1, k) = Append(SubSeq(c, 1, k - 1), c[k])
    BY <1>0, <1>2
  <2>2. SubSeq(c, 1, k) \o SubSeq(c, k + 1, Len(c)) = SubSeq(c, 1, Len(c))
    <3>1. 1 \in 1..(Len(c) + 1) /\ k \in (1 - 1)..Len(c) /\ Len(c) \in k..Len(c)
      BY <1>0, <1>2
    <3> QED BY <3>1, ConcatAdjacentSubSeq
  <2>3. SubSeq(c, 1, Len(c)) = c
    BY SubSeqFull
  <2> QED BY <1>2, <2>1, <2>2, <2>3
<1>9. (k - 1) + 1 <= Len(c) /\ Len(c) - k <= Len(c)
  BY <1>0, <1>2
<1> QED BY <1>3, <1>4, <1>5, <1>6, <1>7, <1>8, <1>9

\* Between two lines framing starts afresh.
LEMMA FramingAfter ==
    ASSUME NEW x \in Seq(Bytes), NEW t \in Seq(Line),
           Framing(x) = [line |-> <<>>, over |-> FALSE, out |-> t]
    PROVE  \A r \in Seq(Bytes) : Framing(x \o r) = Shift(t, Framing(r))
<1>1. <<>> \in Seq(Bytes) /\ \A r \in Seq(Bytes) : <<>> \o r = r
  BY EmptySeq, ConcatEmptySeq
<1>2. Shift(t, Framing(<<>>)) = [line |-> <<>>, over |-> FALSE, out |-> t \o <<>>]
  BY FramingEmpty, ShiftRecord, Zenon DEF Start
<1>3. t \o <<>> = t
  BY ConcatEmptySeq
<1>4. Framing(x) = Shift(t, Framing(<<>>))
  BY <1>2, <1>3
<1>5. ASSUME NEW y, y = <<>> PROVE \A r \in Seq(Bytes) : Framing(x \o r) = Shift(t, Framing(y \o r))
  BY <1>1, <1>4, <1>5, FramingShift
<1> QED BY <1>1, <1>5

\* What is taken for a line that fitted.
LineOf(l) == IF Len(Stripped(l)) > MaxLine THEN TooLarge ELSE Stripped(l)

\* A buffer that holds a line frames as that line and then the rest.
LEMMA FramingFirst ==
    ASSUME NEW c \in Seq(Bytes), HasLine(c), Len(c) <= Capacity
    PROVE  /\ LineOf(FirstLine(c)) \in Line
           /\ Framing(c) = Shift(<<LineOf(FirstLine(c))>>, Framing(Consumed(c)))
<1> DEFINE l == FirstLine(c)
           r == Consumed(c)
           x == LineOf(l)
<1>1. /\ l \in Seq(Bytes) /\ NoNewline(l) /\ r \in Seq(Bytes) /\ c = Append(l, "\n") \o r
      /\ Len(l) < Capacity /\ "\n" \in Bytes
  <2>1. Len(FirstLine(c)) \in Nat /\ Len(c) \in Nat /\ Capacity \in Nat
    BY FirstLineSplits, LenProperties, LineAssumption DEF Capacity
  <2> QED BY <2>1, FirstLineSplits DEF Bytes
<1>2. x \in Line
  BY <1>1, StrippedType DEF Line, LineOf
<1> HIDE DEF l, r
<1>3. Framing(l) = [line |-> l, over |-> FALSE, out |-> <<>>]
  BY <1>1, FramingLine
<1>4. Framing(Append(l, "\n")) = [line |-> <<>>, over |-> FALSE, out |-> <<x>>]
  <2>1. Framing(l) \in FrameState
    BY <1>1, FramingType
  <2>2. Framing(l).line = l /\ Framing(l).over = FALSE /\ Framing(l).out = <<>>
    BY <1>3
  <2>3. Append(<<>>, x) = <<x>>
    OBVIOUS
  <2> QED BY <1>1, <2>1, <2>2, <2>3, FramingAppend, FrameNewline DEF LineOf
<1> HIDE DEF x
<1>5. <<x>> \in Seq(Line)
  BY <1>2
<1>6. Append(l, "\n") \in Seq(Bytes)
  BY <1>1, AppendProperties
<1>7. Framing(Append(l, "\n") \o r) = Shift(<<x>>, Framing(r))
  BY <1>1, <1>4, <1>5, <1>6, FramingAfter
<1> QED BY <1>1, <1>2, <1>7 DEF l, r, x

\* The rest of a line being discarded, and what follows it.
LEMMA FramingDiscarded ==
    ASSUME NEW x \in Seq(Bytes), NEW t \in Seq(Line), NEW c \in Seq(Bytes),
           Framing(x) = [line |-> <<>>, over |-> TRUE, out |-> t]
    PROVE  /\ ~HasLine(c) => Framing(x \o c) = Framing(x)
           /\ HasLine(c) => Framing(x \o c) = Shift(t, Framing(Consumed(c)))
<1>0. Framing(x).over = TRUE /\ Framing(x).out = t
  OBVIOUS
<1>1. ASSUME ~HasLine(c) PROVE Framing(x \o c) = Framing(x)
  BY <1>0, <1>1, HasLineMeans, OverStays
<1>2. ASSUME HasLine(c) PROVE Framing(x \o c) = Shift(t, Framing(Consumed(c)))
  <2> DEFINE l == FirstLine(c)
             r == Consumed(c)
  <2>1. /\ l \in Seq(Bytes) /\ NoNewline(l) /\ r \in Seq(Bytes) /\ c = Append(l, "\n") \o r
        /\ "\n" \in Bytes
    BY <1>2, FirstLineSplits DEF Bytes
  <2> HIDE DEF l, r
  <2>2. x \o l \in Seq(Bytes) /\ Append(x \o l, "\n") \in Seq(Bytes)
    BY <2>1, ConcatProperties, AppendProperties
  <2>3. Framing(x \o l) = Framing(x)
    BY <1>0, <2>1, OverStays
  <2>4. Framing(Append(x \o l, "\n")) = [line |-> <<>>, over |-> FALSE, out |-> t]
    <3>1. Framing(x) \in FrameState
      BY FramingType
    <3> QED BY <1>0, <2>1, <2>2, <2>3, <3>1, FramingAppend, FrameNewline
  <2>5. Framing(Append(x \o l, "\n") \o r) = Shift(t, Framing(r))
    BY <2>1, <2>2, <2>4, FramingAfter
  <2>6. Append(x \o l, "\n") \o r = x \o c
    <3>1. Append(l, "\n") \in Seq(Bytes)
      BY <2>1, AppendProperties
    <3>2. x \o Append(l, "\n") = Append(x \o l, "\n")
      BY <2>1, ConcatAppend
    <3>3. (x \o Append(l, "\n")) \o r = x \o (Append(l, "\n") \o r)
      BY <2>1, <3>1, ConcatThree
    <3> QED BY <2>1, <3>1, <3>2, <3>3
  <2> QED BY <2>5, <2>6 DEF r
<1> QED BY <1>1, <1>2

-----------------------------------------------------------------------------
(* Type correctness                                                        *)

Entry == [line : BoundedSeq(Bytes, MaxLine) \cup {TooLarge},
          phase : {"pre", "strict"}, answer : {"none", "error", "ok"}]

\* What BoundedSeq ranges over.
LEMMA BoundedSeqMeans ==
    ASSUME NEW A, NEW n \in Nat
    PROVE  \A s : s \in BoundedSeq(A, n) <=> s \in Seq(A) /\ Len(s) <= n
BY DEF BoundedSeq, SeqOf

\* A step adds to what was taken, or changes nothing of it.
LEMMA TakenType ==
    ASSUME UsbTypeOK, phase # "faulted", NEW line \in Seq(Bytes), Len(line) <= MaxLine,
           NEW answer \in {"none", "error", "ok"}
    PROVE  Taken(line, answer) \in Seq(Entry) /\ Taken(TooLarge, "error") \in Seq(Entry)
<1>1. line \in BoundedSeq(Bytes, MaxLine)
  BY LineAssumption, BoundedSeqMeans
<1>2. phase \in {"pre", "strict"} /\ lines \in Seq(Entry)
  BY DEF UsbTypeOK, Entry
<1>3. [line |-> line, phase |-> phase, answer |-> answer] \in Entry
  BY <1>1, <1>2 DEF Entry
<1>4. [line |-> TooLarge, phase |-> phase, answer |-> "error"] \in Entry
  BY <1>2 DEF Entry
<1> QED BY <1>2, <1>3, <1>4, AppendProperties DEF Taken

\* The line that is taken, and the answers to it.
LEMMA LineType ==
    ASSUME UsbTypeOK, HasLine(input)
    PROVE  /\ Stripped(FirstLine(input)) \in Seq(Bytes)
           /\ Consumed(input) \in Seq(Bytes) /\ Len(Consumed(input)) <= Capacity
<1>1. input \in Seq(Bytes) /\ Len(input) <= Capacity /\ Capacity \in Nat
  BY LineAssumption DEF UsbTypeOK, Capacity
<1>2. FirstLine(input) \in Seq(Bytes) /\ Consumed(input) \in Seq(Bytes)
  BY <1>1, FirstLineSplits
<1>3. Len(Consumed(input)) <= Len(input) /\ Len(Consumed(input)) \in Nat /\ Len(input) \in Nat
  BY <1>1, <1>2, FirstLineSplits, LenProperties
<1> QED BY <1>1, <1>2, <1>3, StrippedType

\* Answers are lines of the log.
LEMMA AnswersType ==
    ASSUME UsbTypeOK, phase # "faulted"
    PROVE  \A line, answer : /\ answer \in Answers(line) => answer \in {"error", "ok"}
                             /\ \A p \in PendingAfter(line) : p \in BOOLEAN
                             /\ \A p \in Kept : p \in BOOLEAN
                             /\ NextPhase(line, answer) \in {"pre", "strict", "faulted"}
BY DEF UsbTypeOK, Answers, PendingAfter, Kept, NextPhase

\* The loop keeps every variable in its type: the buffer never holds more than it
\* can, and nothing is buffered while a line is being discarded.
THEOREM UsbTypeCorrect == UsbSpec => []UsbTypeOK
<1>0. Capacity \in Nat /\ MaxLine \in Nat
  BY LineAssumption DEF Capacity
<1>a. /\ <<>> \in Seq(Bytes) /\ <<>> \in Seq(Entry) /\ Len(<<>>) <= Capacity
      /\ Len(<<>>) <= MaxBytes /\ Len(<<>>) <= MaxLine
  BY <1>0, LineAssumption, EmptySeq
<1>1. UsbInit => UsbTypeOK
  BY <1>a DEF UsbInit, UsbTypeOK, Entry
<1>2. UsbTypeOK /\ [UsbNext]_usb_vars => UsbTypeOK'
  <2> SUFFICES ASSUME UsbTypeOK, [UsbNext]_usb_vars PROVE UsbTypeOK'
    OBVIOUS
  <2>1. CASE LinkChanges
    BY <2>1 DEF LinkChanges, UsbTypeOK
  <2>2. CASE SeesDisconnect
    BY <2>2, <1>a DEF SeesDisconnect, UsbTypeOK, Entry
  <2>3. CASE StaysFaulted
    BY <2>3, <1>a DEF StaysFaulted, UsbTypeOK, Kept
  <2>4. CASE ReadFails
    BY <2>4, <1>a DEF ReadFails, UsbTypeOK
  <2>5. CASE Reads
    <3>1. PICK chunk \in BoundedSeq(Bytes, Capacity) :
             /\ Len(received) + Len(chunk) <= MaxBytes
             /\ ReadsDiscarding(chunk) \/ ReadsMore(chunk)
      BY <2>5 DEF Reads
    <3>2. chunk \in Seq(Bytes) /\ Len(chunk) <= Capacity
      BY <1>0, BoundedSeqMeans
    <3>3. received \o chunk \in Seq(Bytes) /\ Len(received \o chunk) <= MaxBytes
      BY <3>1, <3>2, ConcatProperties DEF UsbTypeOK
    <3>4. CASE ReadsDiscarding(chunk)
      <4>1. HasLine(chunk) => Consumed(chunk) \in Seq(Bytes) /\ Len(Consumed(chunk)) <= Capacity
        <5>1. Len(chunk) \in Nat
          BY <3>2, LenProperties
        <5>2. ASSUME HasLine(chunk)
              PROVE  /\ Consumed(chunk) \in Seq(Bytes) /\ Len(Consumed(chunk)) \in Nat
                     /\ Len(Consumed(chunk)) <= Len(chunk)
          BY <3>2, <5>2, FirstLineSplits, LenProperties
        <5> QED BY <1>0, <3>2, <5>1, <5>2
      <4>2. received' = received \o chunk /\ pending' \in Kept
        BY <3>4 DEF ReadsDiscarding
      <4> QED BY <3>3, <3>4, <4>1, <4>2 DEF ReadsDiscarding, UsbTypeOK, Kept
    <3>5. CASE ReadsMore(chunk)
      <4>1. input \o chunk \in Seq(Bytes) /\ Len(input \o chunk) <= Capacity
        BY <3>2, <3>5, ConcatProperties DEF UsbTypeOK, ReadsMore
      <4>2. received' = received \o chunk /\ pending' \in Kept
        BY <3>5 DEF ReadsMore
      <4> QED BY <3>3, <3>5, <4>1, <4>2 DEF ReadsMore, UsbTypeOK, Kept
    <3> QED BY <3>1, <3>4, <3>5
  <2>6. CASE Overflows
    <3>1. Taken(TooLarge, "error") \in Seq(Entry)
      BY <2>6, <1>a, TakenType DEF Overflows
    <3> QED BY <2>6, <3>1, <1>a DEF Overflows, Rejects, UsbTypeOK, Entry
  <2>7. CASE TakesLine
    <3> DEFINE line == Stripped(FirstLine(input))
    <3>1. /\ line \in Seq(Bytes) /\ Len(line) \in Nat
          /\ Consumed(input) \in Seq(Bytes) /\ Len(Consumed(input)) <= Capacity
      BY <2>7, LineType, LenProperties DEF TakesLine
    <3>2. /\ input' = Consumed(input) /\ UNCHANGED <<connected, discard, received>>
          /\ phase # "faulted" /\ ~discard
      BY <2>7 DEF TakesLine
    <3>3. pending' \in BOOLEAN /\ phase' \in {"pre", "strict", "faulted"}
      BY <2>7, AnswersType DEF TakesLine, Rejects, UsbTypeOK
    <3>4. \/ lines' = Taken(TooLarge, "error")
          \/ Len(line) <= MaxLine /\ \E a \in {"none", "error", "ok"} : lines' = Taken(line, a)
      BY <2>7, AnswersType DEF TakesLine, Rejects
    <3>5. Taken(TooLarge, "error") \in Seq(Entry)
      BY <3>2, <1>a, TakenType
    <3>6. lines' \in Seq(Entry)
      <4> HIDE DEF line
      <4> QED BY <3>1, <3>2, <3>4, <3>5, TakenType
    <3> QED BY <3>1, <3>2, <3>3, <3>6 DEF UsbTypeOK, Entry
  <2>8. CASE UNCHANGED usb_vars
    BY <2>8 DEF usb_vars, UsbTypeOK
  <2> QED BY <2>1, <2>2, <2>3, <2>4, <2>5, <2>6, <2>7, <2>8 DEF UsbNext
<1> QED BY <1>1, <1>2, PTL DEF UsbSpec

-----------------------------------------------------------------------------
(* The lines taken are the lines of the stream                             *)

Texts(ls) == [i \in 1..Len(ls) |-> ls[i].line]

\* The texts of entries are lines.
LEMMA TextsType == ASSUME NEW ls \in Seq(Entry) PROVE Texts(ls) \in Seq(Line)
<1>1. \A e \in Entry : e.line \in Line
  BY LineAssumption, BoundedSeqMeans DEF Entry, Line
<1>2. Len(ls) \in Nat /\ \A i \in 1..Len(ls) : ls[i] \in Entry
  BY LenProperties, ElementOfSeq
<1>3. \A i \in 1..Len(ls) : ls[i].line \in Line
  BY <1>1, <1>2
<1> QED BY <1>2, <1>3, IsASeq DEF Texts

\* The texts of one entry more.
LEMMA TextsAppend ==
    ASSUME NEW ls \in Seq(Entry), NEW e \in Entry
    PROVE  Texts(Append(ls, e)) = Texts(ls) \o <<e.line>>
<1>1. /\ Append(ls, e) \in Seq(Entry) /\ Len(Append(ls, e)) = Len(ls) + 1 /\ Len(ls) \in Nat
      /\ \A i \in 1..Len(ls) : Append(ls, e)[i] = ls[i]
      /\ Append(ls, e)[Len(ls) + 1] = e
  BY AppendProperties, LenProperties
<1>2. /\ Texts(ls) \in Seq(Line) /\ Texts(Append(ls, e)) \in Seq(Line) /\ e.line \in Line
      /\ <<e.line>> \in Seq(Line)
  <2>1. e.line \in Line
    BY LineAssumption, BoundedSeqMeans DEF Entry, Line
  <2>2. \A x \in Line : <<x>> \in Seq(Line)
    OBVIOUS
  <2> QED BY <1>1, <2>1, <2>2, TextsType
<1>3. Len(Texts(ls)) = Len(ls) /\ Len(Texts(Append(ls, e))) = Len(ls) + 1
  BY <1>1 DEF Texts
<1>4. /\ Texts(ls) \o <<e.line>> \in Seq(Line)
      /\ Len(Texts(ls) \o <<e.line>>) = Len(ls) + 1
      /\ \A i \in 1..(Len(ls) + 1) : (Texts(ls) \o <<e.line>>)[i] =
             IF i <= Len(ls) THEN Texts(ls)[i] ELSE <<e.line>>[i - Len(ls)]
  <2>1. Len(<<e.line>>) = 1
    OBVIOUS
  <2> QED BY <1>1, <1>2, <1>3, <2>1, ConcatProperties
<1>5. ASSUME NEW i \in 1..(Len(ls) + 1)
      PROVE  Texts(Append(ls, e))[i] = (Texts(ls) \o <<e.line>>)[i]
  <2>1. Texts(Append(ls, e))[i] = Append(ls, e)[i].line
    BY <1>1 DEF Texts
  <2>2. CASE i <= Len(ls)
    <3>1. i \in 1..Len(ls)
      BY <1>1, <2>2
    <3>2. Texts(ls)[i] = ls[i].line
      BY <3>1 DEF Texts
    <3> QED BY <1>1, <1>4, <2>1, <2>2, <3>1, <3>2
  <2>3. CASE i > Len(ls)
    <3>1. i = Len(ls) + 1 /\ i - Len(ls) = 1 /\ ~(i <= Len(ls))
      BY <1>1, <2>3
    <3>2. <<e.line>>[1] = e.line
      OBVIOUS
    <3> QED BY <1>1, <1>4, <2>1, <3>1, <3>2
  <2>4. i <= Len(ls) \/ i > Len(ls)
    <3>1. Len(ls) \in Nat
      BY <1>1
    <3> QED BY <3>1
  <2> QED BY <2>2, <2>3, <2>4
<1> QED BY <1>1, <1>2, <1>3, <1>4, <1>5, SeqEqual

\* FramesAreTheStream, with the names above.
Stream ==
    phase # "faulted" =>
        IF discard THEN Framing(received) = [line |-> <<>>, over |-> TRUE, out |-> Texts(lines)]
                   ELSE Framing(received) = Shift(Texts(lines), Framing(input))

\* Stream is FramesAreTheStream, in a form whose parts can be replaced.
LEMMA StreamMeans == ASSUME UsbTypeOK PROVE Stream <=> FramesAreTheStream
<1>1. Framing(input) \in FrameState
  BY FramingType DEF UsbTypeOK
<1>2. [Framing(input) EXCEPT !.out = Texts(lines) \o @] = Shift(Texts(lines), Framing(input))
  BY <1>1, ShiftExcept
<1> QED BY <1>2 DEF Stream, FramesAreTheStream, Texts

\* Two shifts in a row.
LEMMA ShiftShift ==
    ASSUME NEW t \in Seq(Line), NEW x \in Line, NEW f \in FrameState
    PROVE  Shift(t, Shift(<<x>>, f)) = Shift(t \o <<x>>, f)
<1>1. f.out \in Seq(Line) /\ <<x>> \in Seq(Line)
  BY DEF FrameState
<1>2. \A o \in Seq(Line) : (t \o <<x>>) \o o = t \o (<<x>> \o o)
  BY <1>1, ConcatAssociative
<1> QED BY <1>1, <1>2 DEF Shift

\* Reading more of a line, or of one that is being discarded.
LEMMA ReadsStream == ASSUME UsbTypeOK, UsbTypeOK', Stream, Reads PROVE Stream'
<1>0. Capacity \in Nat
  BY LineAssumption DEF Capacity
<1>1. PICK chunk \in BoundedSeq(Bytes, Capacity) : ReadsDiscarding(chunk) \/ ReadsMore(chunk)
  BY DEF Reads
<1>2. /\ chunk \in Seq(Bytes) /\ received \in Seq(Bytes) /\ input \in Seq(Bytes)
      /\ Texts(lines) \in Seq(Line)
  BY <1>0, BoundedSeqMeans, TextsType DEF UsbTypeOK, Entry
<1>3. CASE ReadsDiscarding(chunk)
  <2>1. /\ Framing(received) = [line |-> <<>>, over |-> TRUE, out |-> Texts(lines)]
        /\ received' = received \o chunk /\ lines' = lines /\ discard
    BY <1>3 DEF ReadsDiscarding, Stream
  <2>2. CASE HasLine(chunk)
    <3>1. discard' = FALSE /\ input' = Consumed(chunk)
      BY <1>3, <2>2 DEF ReadsDiscarding
    <3>2. Framing(received \o chunk) = Shift(Texts(lines), Framing(Consumed(chunk)))
      BY <1>2, <2>1, <2>2, FramingDiscarded
    <3> QED BY <2>1, <3>1, <3>2 DEF Stream
  <2>3. CASE ~HasLine(chunk)
    <3>1. discard'
      BY <1>3, <2>1, <2>3 DEF ReadsDiscarding
    <3>2. Framing(received \o chunk) = Framing(received)
      BY <1>2, <2>1, <2>3, FramingDiscarded
    <3> QED BY <2>1, <3>1, <3>2 DEF Stream
  <2> QED BY <2>2, <2>3
<1>4. CASE ReadsMore(chunk)
  <2>1. /\ Framing(received) = Shift(Texts(lines), Framing(input))
        /\ received' = received \o chunk /\ input' = input \o chunk /\ lines' = lines /\ ~discard'
    BY <1>4 DEF ReadsMore, Stream
  <2>2. Framing(received \o chunk) = Shift(Texts(lines), Framing(input \o chunk))
    BY <1>2, <2>1, FramingShift
  <2> QED BY <2>1, <2>2 DEF Stream
<1> QED BY <1>1, <1>3, <1>4

\* A full buffer without a newline is the beginning of a line that is too large.
LEMMA OverflowsStream == ASSUME UsbTypeOK, UsbTypeOK', Stream, Overflows PROVE Stream'
<1>0. Capacity \in Nat /\ Len(input) \in Nat /\ input \in Seq(Bytes) /\ lines \in Seq(Entry)
  BY LineAssumption, LenProperties DEF Capacity, UsbTypeOK, Entry
<1>1. /\ Framing(received) = Shift(Texts(lines), Framing(input)) /\ ~HasLine(input)
      /\ received' = received /\ discard' /\ lines' = Taken(TooLarge, "error")
      /\ Len(input) = Capacity /\ phase # "faulted"
  BY <1>0 DEF Overflows, Rejects, Stream, UsbTypeOK
<1>2. Framing(input) = [line |-> <<>>, over |-> TRUE, out |-> <<TooLarge>>]
  BY <1>0, <1>1, HasLineMeans, FramingLine
<1>3. Framing(received) = [line |-> <<>>, over |-> TRUE, out |-> Texts(lines) \o <<TooLarge>>]
  <2>1. Shift(Texts(lines), [line |-> <<>>, over |-> TRUE, out |-> <<TooLarge>>])
          = [line |-> <<>>, over |-> TRUE, out |-> Texts(lines) \o <<TooLarge>>]
    BY ShiftRecord, Zenon
  <2> QED BY <1>1, <1>2, <2>1
<1>4. Texts(lines') = Texts(lines) \o <<TooLarge>>
  <2> DEFINE e == [line |-> TooLarge, phase |-> phase, answer |-> "error"]
  <2>1. e \in Entry /\ e.line = TooLarge
    BY <1>1 DEF Entry, UsbTypeOK
  <2>2. lines' = Append(lines, e)
    BY <1>1 DEF Taken
  <2> HIDE DEF e
  <2> QED BY <1>0, <2>1, <2>2, TextsAppend
<1> QED BY <1>1, <1>3, <1>4 DEF Stream

\* Taking a line moves it from the buffer's part of the stream to what was taken.
LEMMA TakesLineStream == ASSUME UsbTypeOK, UsbTypeOK', Stream, TakesLine PROVE Stream'
<1>0. /\ Capacity \in Nat /\ input \in Seq(Bytes) /\ lines \in Seq(Entry) /\ Len(input) <= Capacity
      /\ Texts(lines) \in Seq(Line) /\ MaxLine \in Nat
  <2>1. lines \in Seq(Entry)
    BY DEF UsbTypeOK, Entry
  <2> QED BY <2>1, LineAssumption, TextsType DEF Capacity, UsbTypeOK
<1>1. /\ Framing(received) = Shift(Texts(lines), Framing(input)) /\ HasLine(input)
      /\ received' = received /\ ~discard' /\ phase # "faulted" /\ input' = Consumed(input)
  BY DEF TakesLine, Stream
<1> DEFINE x == LineOf(FirstLine(input))
<1>2. x \in Line /\ Framing(input) = Shift(<<x>>, Framing(Consumed(input)))
  BY <1>0, <1>1, FramingFirst
<1>3. Texts(lines') = Texts(lines) \o <<x>>
  <2> DEFINE line == Stripped(FirstLine(input))
  <2>1. line \in Seq(Bytes) /\ Len(line) \in Nat
    BY <1>1, LineType, LenProperties
  <2>2. \E a : lines' = Taken(x, a)
    <3>1. CASE Len(line) > MaxLine
      BY <1>0, <2>1, <3>1 DEF TakesLine, Rejects, LineOf
    <3>2. CASE Len(line) <= MaxLine
      BY <1>0, <2>1, <3>2 DEF TakesLine, LineOf
    <3> QED BY <1>0, <2>1, <3>1, <3>2
  <2>3. PICK a : lines' = Append(lines, [line |-> x, phase |-> phase, answer |-> a])
    BY <2>2 DEF Taken
  <2> DEFINE e == [line |-> x, phase |-> phase, answer |-> a]
  <2> HIDE DEF x
  <2>4. e.line = x
    OBVIOUS
  <2>5. e \in Entry
    <3>1. /\ lines' \in Seq(Entry) /\ Len(lines) \in Nat /\ Len(lines') = Len(lines) + 1
          /\ lines'[Len(lines) + 1] = e
      BY <1>0, <2>3, LenProperties DEF UsbTypeOK, Entry
    <3> HIDE DEF e
    <3> QED BY <3>1, ElementOfSeq
  <2> HIDE DEF e
  <2>6. lines' = Append(lines, e)
    BY <2>3 DEF e
  <2> QED BY <1>0, <2>4, <2>5, <2>6, TextsAppend
<1> HIDE DEF x
<1>4. Framing(Consumed(input)) \in FrameState
  BY <1>0, <1>1, FirstLineSplits, FramingType
<1>5. Framing(received) = Shift(Texts(lines) \o <<x>>, Framing(Consumed(input)))
  BY <1>0, <1>1, <1>2, <1>4, ShiftShift
<1> QED BY <1>1, <1>3, <1>5 DEF Stream

\* However the driver cuts the bytes into reads, and whatever the loop discards, it
\* has taken exactly the lines of what it read.
THEOREM TransportFramesTheStream == UsbSpec => []FramesAreTheStream
<1>1. UsbInit => Stream
  <2> SUFFICES ASSUME UsbInit PROVE Stream
    OBVIOUS
  <2>1. Texts(<<>>) = <<>>
    BY DEF Texts
  <2>2. Shift(<<>>, Start) = Start
    BY DEF Shift, Start
  <2> QED BY <2>1, <2>2, FramingEmpty DEF UsbInit, Stream
<1>2. UsbTypeOK /\ UsbTypeOK' /\ Stream /\ [UsbNext]_usb_vars => Stream'
  <2> SUFFICES ASSUME UsbTypeOK, UsbTypeOK', Stream, [UsbNext]_usb_vars PROVE Stream'
    OBVIOUS
  <2>1. CASE LinkChanges
    BY <2>1 DEF LinkChanges, Stream
  <2>2. CASE SeesDisconnect
    <3>1. Texts(<<>>) = <<>>
      BY DEF Texts
    <3>2. Shift(<<>>, Start) = Start
      BY DEF Shift, Start
    <3> QED BY <2>2, <3>1, <3>2, FramingEmpty DEF SeesDisconnect, Stream
  <2>3. CASE StaysFaulted
    BY <2>3 DEF StaysFaulted, Stream
  <2>4. CASE ReadFails
    BY <2>4 DEF ReadFails, Stream
  <2>5. CASE Reads
    BY <2>5, ReadsStream
  <2>6. CASE Overflows
    BY <2>6, OverflowsStream
  <2>7. CASE TakesLine
    BY <2>7, TakesLineStream
  <2>8. CASE UNCHANGED usb_vars
    BY <2>8 DEF usb_vars, Stream
  <2> QED BY <2>1, <2>2, <2>3, <2>4, <2>5, <2>6, <2>7, <2>8 DEF UsbNext
<1>3. UsbTypeOK /\ Stream => FramesAreTheStream
  BY StreamMeans
<1> QED BY <1>1, <1>2, <1>3, UsbTypeCorrect, PTL DEF UsbSpec

-----------------------------------------------------------------------------
(* The phase of the link                                                   *)

ValidTo(ls, n) == \A i \in 1..n : ls[i].phase = "strict" => IsValid(ls[i].line)
OpenedBy(ls, n) == \E i \in 1..n : IsHello(ls[i].line) /\ ls[i].answer = "ok"

\* Was the line e handled as a request other than hello?
IsRequest(e) == e.line # TooLarge /\ ~IsHello(e.line) /\ e.answer # "none"

\* A link that is not faulted has taken only valid frames since it became strict, and
\* a strict one was opened.
PhaseInv ==
    /\ \A n \in 1..Len(lines) : IsRequest(lines[n]) => OpenedBy(lines, n - 1)
    /\ pending \/ phase = "strict" => OpenedBy(lines, Len(lines))
    /\ ValidTo(lines, Len(lines) - 1)
    /\ phase # "faulted" => ValidTo(lines, Len(lines))

\* PhaseInv says what the two properties of the phases say.
LEMMA PhaseInvMeans == PhaseInv => FaultIsFinal /\ ProtocolAfterHello
BY DEF PhaseInv, FaultIsFinal, ProtocolAfterHello, ValidTo, OpenedBy, IsRequest

\* Opening is for good, as long as lines are only added.
LEMMA OpenedAppend ==
    ASSUME NEW ls \in Seq(Entry), NEW e
    PROVE  /\ Len(ls) \in Nat /\ Len(Append(ls, e)) = Len(ls) + 1 /\ Append(ls, e)[Len(ls) + 1] = e
           /\ \A n \in 0..Len(ls) : /\ OpenedBy(ls, n) => OpenedBy(Append(ls, e), n)
                                    /\ OpenedBy(ls, n) => OpenedBy(Append(ls, e), n + 1)
                                    /\ ValidTo(ls, n) => ValidTo(Append(ls, e), n)
           /\ \A n \in 1..Len(ls) : Append(ls, e)[n] = ls[n]
<1>1. /\ Len(ls) \in Nat /\ Len(Append(ls, e)) = Len(ls) + 1 /\ Append(ls, e)[Len(ls) + 1] = e
      /\ \A i \in 1..Len(ls) : Append(ls, e)[i] = ls[i]
  OBVIOUS
<1>2. ASSUME NEW n \in 0..Len(ls)
      PROVE  /\ \A i \in 1..n : i \in 1..Len(ls) /\ i \in 1..(n + 1)
             /\ \A i \in 1..n : Append(ls, e)[i] = ls[i]
  <2>1. \A i \in 1..n : i \in 1..Len(ls) /\ i \in 1..(n + 1)
    BY <1>1
  <2> QED BY <1>1, <2>1
<1>3. \A n \in 0..Len(ls) : OpenedBy(ls, n) => OpenedBy(Append(ls, e), n) /\ OpenedBy(Append(ls, e), n + 1)
  BY <1>2 DEF OpenedBy
<1>4. \A n \in 0..Len(ls) : ValidTo(ls, n) => ValidTo(Append(ls, e), n)
  BY <1>2 DEF ValidTo
<1> QED BY <1>1, <1>3, <1>4

\* A line that is added keeps the invariant: it may be an answered request only on an
\* opened link, what is pending or strict after it must have been opened by then, and
\* unless it was a valid frame, or came before the handshake, it must be the last.
LEMMA TakenKeepsPhaseInv ==
    ASSUME UsbTypeOK, PhaseInv, phase # "faulted", NEW text, NEW answer,
           lines' = Taken(text, answer),
           IsRequest([line |-> text, phase |-> phase, answer |-> answer])
               => OpenedBy(lines, Len(lines)),
           pending' \/ phase' = "strict"
               => OpenedBy(lines, Len(lines)) \/ (IsHello(text) /\ answer = "ok"),
           phase' # "faulted" /\ phase = "strict" => IsValid(text)
    PROVE  PhaseInv'
<1> DEFINE e == [line |-> text, phase |-> phase, answer |-> answer]
           m == Len(lines)
<1>0. lines \in Seq(Entry)
  BY DEF UsbTypeOK, Entry
<1>1. lines' = Append(lines, e) /\ e.line = text /\ e.phase = phase /\ e.answer = answer
  BY DEF Taken
<1> HIDE DEF e
<1>2. /\ m \in Nat /\ Len(lines') = m + 1 /\ lines'[m + 1] = e
      /\ \A n \in 0..m : /\ OpenedBy(lines, n) => OpenedBy(lines', n)
                         /\ OpenedBy(lines, n) => OpenedBy(lines', n + 1)
                         /\ ValidTo(lines, n) => ValidTo(lines', n)
      /\ \A n \in 1..m : lines'[n] = lines[n]
  BY <1>0, <1>1, OpenedAppend
<1>3. /\ \A n \in 1..m : IsRequest(lines[n]) => OpenedBy(lines, n - 1)
      /\ ValidTo(lines, m)
  BY DEF PhaseInv
<1>4. /\ IsRequest(e) => OpenedBy(lines, m)
      /\ pending' \/ phase' = "strict" => OpenedBy(lines, m) \/ (IsHello(text) /\ answer = "ok")
  BY DEF e
<1> HIDE DEF m
<1>5. ASSUME NEW n \in 1..(m + 1), IsRequest(lines'[n]) PROVE OpenedBy(lines', n - 1)
  <2>1. CASE n = m + 1
    <3>1. n - 1 = m /\ m \in 0..m
      BY <1>2, <2>1
    <3> QED BY <1>2, <1>4, <1>5, <2>1, <3>1
  <2>2. CASE n # m + 1
    <3>1. n \in 1..m /\ n - 1 \in 0..m
      BY <1>2, <2>2
    <3> QED BY <1>2, <1>3, <1>5, <3>1
  <2> QED BY <2>1, <2>2
<1>6. pending' \/ phase' = "strict" => OpenedBy(lines', m + 1)
  <2>1. m \in 0..m /\ m + 1 \in 1..(m + 1)
    BY <1>2
  <2>2. IsHello(text) /\ answer = "ok" => OpenedBy(lines', m + 1)
    BY <1>1, <1>2, <2>1 DEF OpenedBy
  <2> QED BY <1>2, <1>4, <2>1, <2>2
<1>7. (m + 1) - 1 = m /\ m \in 0..m
  BY <1>2
<1>8. ASSUME phase' # "faulted" PROVE ValidTo(lines', m + 1)
  <2>1. ValidTo(lines', m)
    BY <1>2, <1>3, <1>7
  <2>2. ASSUME NEW i \in 1..(m + 1), lines'[i].phase = "strict" PROVE IsValid(lines'[i].line)
    <3>1. CASE i = m + 1
      BY <1>1, <1>2, <1>8, <2>2, <3>1
    <3>2. CASE i # m + 1
      <4>1. i \in 1..m
        BY <1>2, <3>2
      <4> QED BY <2>1, <2>2, <4>1 DEF ValidTo
    <3> QED BY <3>1, <3>2
  <2> QED BY <2>2 DEF ValidTo
<1> QED BY <1>2, <1>3, <1>5, <1>6, <1>7, <1>8 DEF PhaseInv

\* A step that adds no line may drop what is pending, and may fault the link.
LEMMA NothingTakenKeepsPhaseInv ==
    ASSUME PhaseInv, lines' = lines, pending' => pending, phase' = phase \/ phase' = "faulted"
    PROVE  PhaseInv'
BY DEF PhaseInv, ValidTo, OpenedBy, IsRequest

\* Every step of the transport keeps PhaseInv.
LEMMA NextKeepsPhaseInv == ASSUME UsbTypeOK, PhaseInv, [UsbNext]_usb_vars PROVE PhaseInv'
<1>1. CASE LinkChanges
  BY <1>1, NothingTakenKeepsPhaseInv DEF LinkChanges
<1>2. CASE SeesDisconnect
  <2>1. Len(<<>>) = 0 /\ 1..0 = {} /\ 1..(0 - 1) = {}
    OBVIOUS
  <2> QED BY <1>2, <2>1 DEF SeesDisconnect, PhaseInv, ValidTo
<1>3. CASE StaysFaulted
  BY <1>3, NothingTakenKeepsPhaseInv DEF StaysFaulted, Kept
<1>4. CASE ReadFails
  BY <1>4, NothingTakenKeepsPhaseInv DEF ReadFails
<1>5. CASE Reads
  BY <1>5, NothingTakenKeepsPhaseInv DEF Reads, ReadsDiscarding, ReadsMore, Kept
<1>6. ASSUME Rejects, phase # "faulted" PROVE PhaseInv'
  <2>1. /\ lines' = Taken(TooLarge, "error") /\ ~pending'
        /\ phase' = "strict" => FALSE
        /\ phase' # "faulted" /\ phase = "strict" => FALSE
    BY <1>6 DEF Rejects
  <2>2. ~IsRequest([line |-> TooLarge, phase |-> phase, answer |-> "error"])
    BY DEF IsRequest
  <2> QED BY <1>6, <2>1, <2>2, TakenKeepsPhaseInv
<1>7. CASE Overflows
  BY <1>6, <1>7 DEF Overflows
<1>8. CASE TakesLine
  <2> DEFINE line == Stripped(FirstLine(input))
  <2>1. phase # "faulted"
    BY <1>8 DEF TakesLine
  <2>2. CASE Rejects
    BY <1>6, <2>1, <2>2
  <2>3. CASE /\ phase = "pre" /\ ~IsHello(line) /\ lines' = Taken(line, "none")
             /\ pending' \in Kept /\ phase' = phase
    <3>1. ~IsRequest([line |-> line, phase |-> phase, answer |-> "none"])
      BY DEF IsRequest
    <3>2. pending' => OpenedBy(lines, Len(lines))
      BY <2>3 DEF Kept, PhaseInv
    <3> HIDE DEF line
    <3> QED BY <2>1, <2>3, <3>1, <3>2, TakenKeepsPhaseInv
  <2>4. ASSUME NEW answer \in Answers(line), phase = "strict" \/ IsHello(line),
               lines' = Taken(line, answer),
               \/ pending' \in PendingAfter(line) /\ phase' = NextPhase(line, answer)
               \/ pending' = FALSE /\ phase' = "faulted"
        PROVE  PhaseInv'
    <3> HIDE DEF line
    <3>0. phase = "strict" => OpenedBy(lines, Len(lines))
      BY DEF PhaseInv
    <3>1. IsRequest([line |-> line, phase |-> phase, answer |-> answer])
             => OpenedBy(lines, Len(lines))
      BY <2>4, <3>0 DEF IsRequest
    <3>2. pending' => OpenedBy(lines, Len(lines))
      <4>1. CASE phase = "strict"
        BY <3>0, <4>1
      <4>2. CASE phase # "strict"
        <5>1. pending' => pending
          BY <2>4, <4>2 DEF PendingAfter, Kept
        <5> QED BY <5>1 DEF PhaseInv
      <4> QED BY <4>1, <4>2
    <3>3. phase' = "strict" => OpenedBy(lines, Len(lines)) \/ (IsHello(line) /\ answer = "ok")
      BY <2>4, <3>0 DEF NextPhase
    <3>4. phase' # "faulted" /\ phase = "strict" => IsValid(line)
      BY <2>4 DEF NextPhase, IsValid
    <3> QED BY <2>1, <2>4, <3>1, <3>2, <3>3, <3>4, TakenKeepsPhaseInv
  <2> QED BY <1>8, <2>2, <2>3, <2>4 DEF TakesLine
<1>9. CASE UNCHANGED usb_vars
  BY <1>9, NothingTakenKeepsPhaseInv DEF usb_vars
<1> QED BY <1>1, <1>2, <1>3, <1>4, <1>5, <1>7, <1>8, <1>9 DEF UsbNext

\* The session follows the phase in every state.
LEMMA PhaseInvHolds == UsbSpec => []PhaseInv
<1>1. UsbInit => PhaseInv
  <2>1. Len(<<>>) = 0 /\ 1..0 = {} /\ 1..(0 - 1) = {}
    OBVIOUS
  <2> QED BY <2>1 DEF UsbInit, PhaseInv, ValidTo
<1>2. UsbTypeOK /\ PhaseInv /\ [UsbNext]_usb_vars => PhaseInv'
  BY NextKeepsPhaseInv
<1> QED BY <1>1, <1>2, UsbTypeCorrect, PTL DEF UsbSpec

\* After a strict-phase line that was not a valid frame nothing more is taken until
\* the loop has seen the link down.
THEOREM TransportFaultIsFinal == UsbSpec => []FaultIsFinal
BY PhaseInvHolds, PhaseInvMeans, PTL

\* Nothing is pending, and no other request is answered, before an answered hello.
THEOREM TransportNeedsHello == UsbSpec => []ProtocolAfterHello
BY PhaseInvHolds, PhaseInvMeans, PTL

-----------------------------------------------------------------------------
(* User presence                                                           *)

USE BoundsAssumption, NoneAssumption

Parts == SampledSinceBegin /\ ArmedWhileReleased /\ ArmedPressIsFresh
         /\ ArmedCounted /\ FreshGesture

\* The initial state of both tasks satisfies the inductive invariant.
LEMMA InitInd == Init => IndInv
<1> SUFFICES ASSUME Init PROVE IndInv
  OBVIOUS
<1>1. ValuesOK
  BY DEF Init, ValuesOK, Times, UiPCs
<1>2. FlagsOK
  BY DEF Init, FlagsOK
<1>3. previous \in Views
  BY DEF Init, View, Views
<1>4. Parts
  BY DEF Init, Parts, SampledSinceBegin, ArmedWhileReleased, ArmedPressIsFresh,
         ArmedCounted, FreshGesture
<1>5. DeadlineBounded
  BY DEF Init, DeadlineBounded
<1> QED BY <1>1, <1>2, <1>3, <1>4, <1>5 DEF IndInv, Parts, TypeOK

\* deadline_from never leaves the range of the clock.
LEMMA DeadlineInRange == ASSUME NEW t \in Times PROVE Deadline(t) \in Times
  BY DEF Deadline, Times

\* view() is a PresenceView.
LEMMA ViewType == ValuesOK => View \in Views /\ View.operation \in Operations
  BY DEF ValuesOK, View, Views

-----------------------------------------------------------------------------
(* Every step preserves the types                                          *)

\* The Protocol task keeps the types.
LEMMA ProtocolType == ASSUME TypeOK, Protocol PROVE TypeOK'
<1> USE DEF TypeOK, gate, ui, history, sampled, Clear
<1>1. ASSUME NEW op \in Operations, NEW a \in Attempts, BeginPresence(op, a) PROVE TypeOK'
  <2>1. ValuesOK'
    BY <1>1, DeadlineInRange DEF ValuesOK, BeginPresence
  <2>2. FlagsOK'
    BY <1>1 DEF FlagsOK, BeginPresence
  <2> QED BY <1>1, <2>1, <2>2 DEF BeginPresence
<1>2. CASE CancelPresence
  <2>1. ValuesOK'
    BY <1>2 DEF ValuesOK, CancelPresence, Times
  <2>2. FlagsOK'
    BY <1>2 DEF FlagsOK, CancelPresence
  <2> QED BY <1>2, <2>1, <2>2 DEF CancelPresence
<1>3. ASSUME NEW a \in Attempts, ConsumePresence(a) PROVE TypeOK'
  <2>1. ValuesOK'
    BY <1>3 DEF ValuesOK, ConsumePresence, Times
  <2>2. FlagsOK'
    BY <1>3 DEF FlagsOK, ConsumePresence
  <2> QED BY <1>3, <2>1, <2>2 DEF ConsumePresence
<1>4. CASE BoundaryRender
  <2>1. ValuesOK'
    BY <1>4, ViewType DEF ValuesOK, BoundaryRender
  <2>2. FlagsOK'
    BY <1>4 DEF FlagsOK, BoundaryRender
  <2> QED BY <1>4, <2>1, <2>2 DEF BoundaryRender
<1> QED BY <1>1, <1>2, <1>3, <1>4 DEF Protocol

\* The UI task keeps the types.
LEMMA UiType == ASSUME TypeOK, Ui PROVE TypeOK'
<1> USE DEF TypeOK, gate, history, sampled, UiOnly
<1>1. ValuesOK'
  <2> USE DEF ValuesOK, UiPCs
  <2>1. CASE UiUpdate
    BY <2>1 DEF UiUpdate
  <2>2. CASE UiExpire
    BY <2>2 DEF UiExpire, Clear, Times
  <2>3. CASE UiView
    BY <2>3 DEF UiView
  <2>4. CASE UiObserve
    BY <2>4 DEF UiObserve, ObserveArmed, ObserveUnarmed
  <2>5. CASE UiPress
    BY <2>5 DEF UiPress, ConfirmCurrent, Clear, Times
  <2>6. CASE UiReview
    BY <2>6 DEF UiReview
  <2>7. CASE UiRender
    BY <2>7, ViewType DEF UiRender
  <2> QED BY <2>1, <2>2, <2>3, <2>4, <2>5, <2>6, <2>7 DEF Ui
<1>2. FlagsOK'
  <2> USE DEF FlagsOK
  <2>1. CASE UiUpdate
    BY <2>1 DEF UiUpdate
  <2>2. CASE UiExpire
    BY <2>2 DEF UiExpire, Clear
  <2>3. CASE UiView
    BY <2>3 DEF UiView
  <2>4. CASE UiObserve
    <3>1. CASE state # "awaiting"
      BY <2>4, <3>1 DEF UiObserve
    <3>2. CASE state = "awaiting" /\ armed
      <4>1. /\ press_edge' = (pressed /\ (press_edge \/ ~last_pressed))
            /\ last_pressed' = pressed
            /\ UNCHANGED <<armed, pressed, was_pressed, dirty, button, fresh_press>>
        BY <2>4, <3>2 DEF UiObserve, ObserveArmed
      <4>2. press_edge' \in BOOLEAN
        BY <4>1, Zenon
      <4>3. armed' \in BOOLEAN /\ last_pressed' \in BOOLEAN /\ pressed' \in BOOLEAN
            /\ was_pressed' \in BOOLEAN /\ dirty' \in BOOLEAN
            /\ button' \in BOOLEAN /\ fresh_press' \in BOOLEAN
        BY <4>1, Zenon
      <4> QED BY <4>2, <4>3, Zenon
    <3>3. CASE state = "awaiting" /\ ~armed
      <4>1. /\ press_edge' = FALSE /\ last_pressed' = pressed
            /\ UNCHANGED <<pressed, was_pressed, dirty, button, fresh_press>>
        BY <2>4, <3>3 DEF UiObserve, ObserveUnarmed
      <4>2. armed' = (neutral_samples' >= 2)
        BY <2>4, <3>3, Zenon DEF UiObserve, ObserveUnarmed
      <4>3. armed' \in BOOLEAN
        BY <4>2
      <4> QED BY <4>1, <4>3
    <3> QED BY <3>1, <3>2, <3>3
  <2>5. CASE UiPress
    BY <2>5 DEF UiPress, ConfirmCurrent, Clear
  <2>6. CASE UiReview
    BY <2>6 DEF UiReview
  <2>7. CASE UiRender
    BY <2>7 DEF UiRender
  <2> QED BY <2>1, <2>2, <2>3, <2>4, <2>5, <2>6, <2>7 DEF Ui
<1>3. (previous \in Views)'
  BY ViewType DEF Ui, UiUpdate, UiExpire, UiView, UiObserve, UiPress, UiReview, UiRender
<1> QED BY <1>1, <1>2, <1>3

\* The button and the clock keep the types.
LEMMA WorldType == ASSUME TypeOK, PressButton \/ ReleaseButton \/ Tick PROVE TypeOK'
<1> USE DEF TypeOK, PressButton, ReleaseButton, Tick, gate, ui, history
<1>1. ValuesOK'
  BY DEF ValuesOK, Times
<1>2. FlagsOK'
  BY DEF FlagsOK
<1> QED BY <1>1, <1>2

-----------------------------------------------------------------------------
(* ... and the rest of the invariant                                       *)

USE DEF Parts, SampledSinceBegin, ArmedWhileReleased, ArmedPressIsFresh,
        ArmedCounted, FreshGesture

\* A gate that is cleared is armed for nobody.
LEMMA ClearedParts ==
  ASSUME TypeOK, Parts, Clear PROVE Parts'
  BY DEF TypeOK, ValuesOK, FlagsOK, Clear

\* The Protocol task keeps every part of the invariant.
LEMMA ProtocolParts == ASSUME TypeOK, Parts, Protocol PROVE Parts'
<1>1. ASSUME NEW op \in Operations, NEW a \in Attempts, BeginPresence(op, a) PROVE Parts'
  BY <1>1 DEF TypeOK, ValuesOK, FlagsOK, BeginPresence
<1>2. CASE CancelPresence
  BY <1>2, ClearedParts DEF CancelPresence
<1>3. ASSUME NEW a \in Attempts, ConsumePresence(a) PROVE Parts'
  BY <1>3, ClearedParts DEF TypeOK, ValuesOK, FlagsOK, ConsumePresence, gate, ui, history
<1>4. CASE BoundaryRender
  BY <1>4 DEF TypeOK, ValuesOK, FlagsOK, BoundaryRender, gate, sampled, history
<1> QED BY <1>1, <1>2, <1>3, <1>4 DEF Protocol

\* The UI task keeps every part of the invariant.
LEMMA UiParts == ASSUME TypeOK, Parts, Ui PROVE Parts'
<1> USE DEF gate, history, sampled, UiOnly, TypeOK, ValuesOK, FlagsOK
<1>1. CASE UiUpdate
  BY <1>1 DEF UiUpdate
<1>2. CASE UiExpire
  BY <1>2, ClearedParts DEF UiExpire
<1>3. CASE UiView
  BY <1>3 DEF UiView
<1>4. CASE UiObserve
  <2>1. CASE state # "awaiting"
    BY <1>4, <2>1 DEF UiObserve
  <2>2. CASE state = "awaiting" /\ armed
    <3>1. /\ UNCHANGED <<state, neutral_samples, armed, button, pressed, fresh_press>>
          /\ last_pressed' = pressed
          /\ press_edge' = (pressed /\ (press_edge \/ ~last_pressed))
          /\ ui_pc' \in {"press", "render"}
      BY <1>4, <2>2 DEF UiObserve, ObserveArmed
    <3> QED BY <2>2, <3>1
  <2>3. CASE state = "awaiting" /\ ~armed
    <3>1. /\ UNCHANGED <<state, button, pressed, fresh_press>>
          /\ last_pressed' = pressed /\ press_edge' = FALSE
          /\ armed' = (neutral_samples' >= 2)
          /\ ui_pc' \in {"press", "render"}
      BY <1>4, <2>3, Zenon DEF UiObserve, ObserveUnarmed
    <3>2. ui_pc = "observe" /\ neutral_samples' \in 0..2
      BY <1>4, <2>3 DEF UiObserve, ObserveUnarmed
    <3>3. neutral_samples' >= 2 => ~pressed /\ neutral_samples >= 1
      BY <1>4, <2>3 DEF UiObserve, ObserveUnarmed
    <3> QED BY <2>3, <3>1, <3>2, <3>3
  <2> QED BY <2>1, <2>2, <2>3
<1>5. CASE UiPress
  BY <1>5, ClearedParts DEF UiPress, ConfirmCurrent, Confirms
<1>6. CASE UiReview
  BY <1>6 DEF UiReview
<1>7. CASE UiRender
  BY <1>7 DEF UiRender
<1> QED BY <1>1, <1>2, <1>3, <1>4, <1>5, <1>6, <1>7 DEF Ui

\* A press makes every later confirmation fresh; a release changes nothing
\* the gate relies on.
LEMMA WorldParts == ASSUME TypeOK, Parts, PressButton \/ ReleaseButton \/ Tick PROVE Parts'
  BY DEF TypeOK, ValuesOK, FlagsOK, PressButton, ReleaseButton, Tick, gate, ui, history

HIDE DEF Parts, SampledSinceBegin, ArmedWhileReleased, ArmedPressIsFresh,
         ArmedCounted, FreshGesture

\* Only a begin sets a deadline; expiry and consumption withdraw it.
LEMMA StepDeadline == ASSUME TypeOK, DeadlineBounded, Next PROVE DeadlineBounded'
<1> USE DEF DeadlineBounded, TypeOK, gate, ui, sampled, history, UiOnly
<1>1. ASSUME NEW op \in Operations, NEW a \in Attempts, BeginPresence(op, a)
      PROVE  DeadlineBounded'
  BY <1>1 DEF BeginPresence, ValuesOK, Deadline, Times
<1>2. CASE Clear
  BY <1>2 DEF Clear
<1>3. CASE UNCHANGED <<expires_at, began>> /\ (state = "idle" => state' = "idle")
  BY <1>3
<1>4. CASE Protocol
  BY <1>1, <1>2, <1>3, <1>4 DEF Protocol, CancelPresence, ConsumePresence, BoundaryRender
<1>5. CASE UiExpire \/ UiPress \/ UiObserve
  BY <1>2, <1>3, <1>5 DEF UiExpire, UiPress, ConfirmCurrent, Confirms, UiObserve
<1>6. CASE Ui
  BY <1>3, <1>5, <1>6 DEF Ui, UiUpdate, UiView, UiReview, UiRender
<1> QED BY <1>3, <1>4, <1>6 DEF Next, PressButton, ReleaseButton, Tick

\* Every step keeps the inductive invariant.
LEMMA StepInd == IndInv /\ [Next]_vars => IndInv'
<1>1. ASSUME IndInv, Next PROVE IndInv'
  <2>1. TypeOK /\ Parts /\ DeadlineBounded
    BY <1>1 DEF IndInv, Parts
  <2>2. TypeOK' /\ Parts'
    BY <1>1, <2>1, ProtocolType, UiType, WorldType, ProtocolParts, UiParts, WorldParts DEF Next
  <2>3. DeadlineBounded'
    BY <1>1, <2>1, StepDeadline
  <2> QED BY <2>2, <2>3 DEF IndInv, Parts
<1>2. ASSUME IndInv, UNCHANGED vars PROVE IndInv'
  BY <1>2 DEF IndInv, TypeOK, ValuesOK, FlagsOK, vars, View,
    SampledSinceBegin, ArmedWhileReleased, ArmedPressIsFresh, ArmedCounted,
    DeadlineBounded, FreshGesture
<1> QED BY <1>1, <1>2

\* The types and the invariant that the two theorems below rest on.
THEOREM PresenceInductive == Spec => []IndInv
  BY InitInd, StepInd, PTL DEF Spec

\* Whatever the interleaving of the two tasks, the clock and the button, a
\* confirmed request was confirmed by a press that began after the request.
THEOREM PresenceIsFresh == Spec => []FreshGesture
<1>1. IndInv => FreshGesture
  BY DEF IndInv
<1> QED BY <1>1, PresenceInductive, PTL

\* consume_presence only succeeds for the pending attempt, after a fresh
\* press and within kAttemptTtlMs of the begin.
THEOREM PresenceGrantInTime == Spec => GrantInTime
<1> DEFINE Timely == granted' # NoAttempt /\ granted' # granted =>
                         fresh_press /\ attempt = granted' /\ now < began + Ttl
<1>1. ASSUME IndInv, [Next]_vars PROVE Timely \/ UNCHANGED vars
  <2>1. ASSUME NEW a \in Attempts, ConsumePresence(a) PROVE Timely
    BY <1>1, <2>1 DEF IndInv, TypeOK, ValuesOK, Times, ConsumePresence, Expired,
       FreshGesture, DeadlineBounded
  <2>2. CASE granted' \in {granted, NoAttempt}
    BY <2>2
  <2>3. CASE Protocol
    BY <2>1, <2>2, <2>3 DEF Protocol, BeginPresence, CancelPresence, BoundaryRender
  <2>4. CASE Ui
    BY <2>2, <2>4 DEF Ui, UiUpdate, UiExpire, UiView, UiObserve, UiPress, UiReview,
       UiRender, UiOnly
  <2> QED BY <1>1, <2>2, <2>3, <2>4 DEF Next, PressButton, ReleaseButton, Tick
<1> QED BY <1>1, PresenceInductive, PTL DEF Spec, GrantInTime

=============================================================================
