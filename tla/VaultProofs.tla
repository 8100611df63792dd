---------------------------- MODULE VaultProofs ----------------------------
(***************************************************************************)
(* Proofs about a Vault: its bytes (VaultFormat) and the partition that    *)
(* keeps them (VaultPersistence).                                          *)
(*                                                                         *)
(* VaultFormat, for every limit, length and value of the format: the scan  *)
(* of is_valid_utf8 accepts exactly UTF-8; each reader reads exactly what  *)
(* its writer writes, so that decoding inverts encoding and accepts        *)
(* nothing else; and SealInv is inductive, so that a Vault is opened only  *)
(* from the image, key and header it was sealed with.                      *)
(*                                                                         *)
(* VaultPersistence, for any number of Vaults, ciphertexts and             *)
(* generations: IndInv is inductive, and the two-slot partition implements *)
(* AtomicVault.                                                            *)
(***************************************************************************)
EXTENDS VaultFormat, VaultPersistence, SequenceTheorems, WellFoundedInduction, TLAPS

\* Every set of naturals has a least element.
LEMMA Least == ASSUME NEW T \in SUBSET Nat, T # {} PROVE \E x \in T : \A y \in T : x <= y
<1> DEFINE R == {ss \in Nat \X Nat : ss[1] < ss[2]}
<1>1. IsWellFoundedOn(R, Nat)
  BY NatLessThanWellFounded, Zenon DEF OpToRel
<1>2. \A x, y \in Nat : <<x, y>> \in R <=> x < y
  OBVIOUS
<1> HIDE DEF R
<1>3. PICK x \in T : \A y \in T : <<y, x>> \notin R
  BY <1>1, WFMin
<1>4. ASSUME NEW y \in T PROVE x <= y
  <2>1. x \in Nat /\ y \in Nat
    OBVIOUS
  <2>2. ~(y < x)
    BY <1>2, <1>3, <2>1
  <2> QED BY <2>1, <2>2
<1> QED BY <1>4

\* Every set of numbers up to a bound has a greatest element.
LEMMA Greatest ==
    ASSUME NEW m \in Nat, NEW T \in SUBSET (0..m), T # {} PROVE \E x \in T : \A y \in T : y <= x
<1> DEFINE U == {m - x : x \in T}
<1>1. U \in SUBSET Nat /\ U # {}
  <2>1. ASSUME NEW x \in T PROVE m - x \in Nat
    <3>1. x \in 0..m
      OBVIOUS
    <3> QED BY <3>1
  <2>2. PICK x : x \in T
    OBVIOUS
  <2>3. m - x \in U
    BY <2>2
  <2> QED BY <2>1, <2>3
<1>2. PICK u \in U : \A w \in U : u <= w
  <2> HIDE DEF U
  <2> QED BY <1>1, Least
<1>3. PICK x \in T : u = m - x
  OBVIOUS
<1>4. ASSUME NEW y \in T PROVE y <= x
  <2>1. m - y \in U
    OBVIOUS
  <2>2. m - x <= m - y
    BY <1>2, <1>3, <2>1
  <2>3. x \in 0..m /\ y \in 0..m
    OBVIOUS
  <2> QED BY <2>2, <2>3
<1> QED BY <1>4

-----------------------------------------------------------------------------
(* One character                                                           *)

\* A continuation byte.
LEMMA Continuation == ASSUME NEW b \in Byte PROVE IsContinuation(b) <=> b \in 128..191
BY DEF Byte, IsContinuation

\* The table of second bytes.
LEMMA SecondMeans ==
    ASSUME NEW a \in Byte, NEW b \in Byte
    PROVE  b \in SecondRange(a) <=> /\ b >= 128 /\ b <= 191
                                    /\ a = 224 => b >= 160
                                    /\ a = 237 => b <= 159
                                    /\ a = 240 => b >= 144
                                    /\ a = 244 => b <= 143
<1>1. CASE a = 224
  <2>1. SecondRange(a) = 160..191
    BY <1>1 DEF SecondRange
  <2> QED BY <1>1, <2>1 DEF Byte
<1>2. CASE a = 237
  <2>1. SecondRange(a) = 128..159
    BY <1>2 DEF SecondRange
  <2> QED BY <1>2, <2>1 DEF Byte
<1>3. CASE a = 240
  <2>1. SecondRange(a) = 144..191
    BY <1>3 DEF SecondRange
  <2> QED BY <1>3, <2>1 DEF Byte
<1>4. CASE a = 244
  <2>1. SecondRange(a) = 128..143
    BY <1>4 DEF SecondRange
  <2> QED BY <1>4, <2>1 DEF Byte
<1>5. CASE a # 224 /\ a # 237 /\ a # 240 /\ a # 244
  <2>1. SecondRange(a) = 128..191
    BY <1>5 DEF SecondRange
  <2> QED BY <1>5, <2>1 DEF Byte
<1> QED BY <1>1, <1>2, <1>3, <1>4, <1>5

\* The lead byte gives the number of bytes.
LEMMA LeadMeans ==
    ASSUME NEW a \in Byte
    PROVE  /\ LeadBytes(a) \in 0..4
           /\ LeadBytes(a) = 1 <=> a < 128
           /\ LeadBytes(a) = 2 <=> a >= 194 /\ a <= 223
           /\ LeadBytes(a) = 3 <=> a >= 224 /\ a <= 239
           /\ LeadBytes(a) = 4 <=> a >= 240 /\ a <= 244
BY DEF Byte, LeadBytes

\* A form of two bytes that is not overlong has one of these lead bytes.
LEMMA TwoBytes ==
    ASSUME NEW a \in Byte, NEW b \in Byte, b >= 128, b <= 191
    PROVE  a \div 32 = 6 /\ (a % 32) * 64 + (b % 64) >= 128 <=> a >= 194 /\ a <= 223
BY DEF Byte

\* Three bytes: neither overlong nor a surrogate.
LEMMA ThreeBytes ==
    ASSUME NEW a \in Byte, NEW b \in Byte, NEW c \in Byte,
           b >= 128, b <= 191, c >= 128, c <= 191,
           NEW v, v = (a % 16) * 4096 + (b % 64) * 64 + (c % 64)
    PROVE  a \div 16 = 14 /\ v >= 2048 /\ ~(v >= 55296 /\ v <= 57343)
           <=> a >= 224 /\ a <= 239 /\ (a = 224 => b >= 160) /\ (a = 237 => b <= 159)
<1>1. b % 64 = b - 128 /\ c % 64 = c - 128
  BY DEF Byte
<1>2. a \div 16 = 14 <=> a >= 224 /\ a <= 239
  BY DEF Byte
<1>3. a >= 224 /\ a <= 239 => a % 16 = a - 224
  BY DEF Byte
<1>4. ASSUME a >= 224, a <= 239
      PROVE  v >= 2048 /\ ~(v >= 55296 /\ v <= 57343)
             <=> (a = 224 => b >= 160) /\ (a = 237 => b <= 159)
  <2>1. v = (a - 224) * 4096 + (b - 128) * 64 + (c - 128)
    BY <1>1, <1>3, <1>4
  <2> QED BY <1>4, <2>1 DEF Byte
<1> QED BY <1>2, <1>4

\* Four bytes: neither overlong nor past the last code point.
LEMMA FourBytes ==
    ASSUME NEW a \in Byte, NEW b \in Byte, NEW c \in Byte, NEW d \in Byte,
           b >= 128, b <= 191, c >= 128, c <= 191, d >= 128, d <= 191,
           NEW v, v = (a % 8) * 262144 + (b % 64) * 4096 + (c % 64) * 64 + (d % 64)
    PROVE  a \div 8 = 30 /\ v >= 65536 /\ v <= 1114111
           <=> a >= 240 /\ a <= 244 /\ (a = 240 => b >= 144) /\ (a = 244 => b <= 143)
<1>1. b % 64 = b - 128 /\ c % 64 = c - 128 /\ d % 64 = d - 128
  BY DEF Byte
<1>2. a \div 8 = 30 <=> a >= 240 /\ a <= 247
  BY DEF Byte
<1>3. a >= 240 /\ a <= 247 => a % 8 = a - 240
  BY DEF Byte
<1>4. ASSUME a >= 240, a <= 247
      PROVE  v >= 65536 /\ v <= 1114111
             <=> a <= 244 /\ (a = 240 => b >= 144) /\ (a = 244 => b <= 143)
  <2>1. v = (a - 240) * 262144 + (b - 128) * 4096 + (c - 128) * 64 + (d - 128)
    BY <1>1, <1>3, <1>4
  <2> QED BY <1>4, <2>1 DEF Byte
<1> QED BY <1>2, <1>4 DEF Byte

\* What is_valid_utf8 asks of the bytes of a character.
LEMMA CharMeans ==
    ASSUME NEW s, Len(s) \in Nat, NEW i \in Nat, LeadBytes(s[i]) \in 0..4,
           NEW m \in Nat, m # 0, i + m - 1 <= Len(s)
    PROVE  CharBytes(s, i) = m <=>
             /\ LeadBytes(s[i]) = m
             /\ m > 1 => s[i + 1] \in SecondRange(s[i])
             /\ \A k \in 2..(m - 1) : IsContinuation(s[i + k])
<1> DEFINE l == LeadBytes(s[i])
           Whole(x) == /\ x > 1 => s[i + 1] \in SecondRange(s[i])
                       /\ \A k \in 2..(x - 1) : IsContinuation(s[i + k])
<1>1. CharBytes(s, i) = IF l > 0 /\ i + l - 1 <= Len(s) /\ Whole(l) THEN l ELSE 0
  BY Zenon DEF CharBytes
<1>2. CharBytes(s, i) = m <=> l = m /\ Whole(m)
  <2>1. l \in 0..4
    OBVIOUS
  <2> HIDE DEF l, Whole
  <2> QED BY <1>1, <2>1
<1> QED BY <1>2, Zenon

\* A scalar value, by the number of its bytes.
LEMMA ScalarMeans ==
    ASSUME NEW c, Len(c) \in Nat
    PROVE  /\ Len(c) = 1 => (IsScalar(c) <=> c[1] < 128)
           /\ Len(c) = 2 => (IsScalar(c) <=> /\ c[2] \in 128..191
                                             /\ c[1] \div 32 = 6 /\ Payload2(c) >= 128)
           /\ Len(c) = 3 => (IsScalar(c) <=> /\ c[2] \in 128..191 /\ c[3] \in 128..191
                                             /\ c[1] \div 16 = 14 /\ Payload3(c) >= 2048
                                             /\ ~(Payload3(c) >= 55296 /\ Payload3(c) <= 57343))
           /\ Len(c) = 4 => (IsScalar(c) <=> /\ c[2] \in 128..191 /\ c[3] \in 128..191
                                             /\ c[4] \in 128..191 /\ c[1] \div 8 = 30
                                             /\ Payload4(c) >= 65536 /\ Payload4(c) <= 1114111)
           /\ Len(c) \notin 1..4 => ~IsScalar(c)
<1> DEFINE Conts(n) == \A k \in 2..n : c[k] \in 128..191
<1>1. /\ Conts(1)
      /\ Conts(2) <=> c[2] \in 128..191
      /\ Conts(3) <=> c[2] \in 128..191 /\ c[3] \in 128..191
      /\ Conts(4) <=> c[2] \in 128..191 /\ c[3] \in 128..191 /\ c[4] \in 128..191
  <2>1. 2..1 = {} /\ 2..2 = {2} /\ 2..3 = {2, 3} /\ 2..4 = {2, 3, 4}
    OBVIOUS
  <2> QED BY <2>1, ZenonT(40)
<1>2. IsScalar(c) <=>
        /\ Conts(Len(c))
        /\ \/ Len(c) = 1 /\ c[1] < 128
           \/ Len(c) = 2 /\ c[1] \div 32 = 6  /\ Payload2(c) >= 128
           \/ Len(c) = 3 /\ c[1] \div 16 = 14 /\ Payload3(c) >= 2048
                         /\ ~(Payload3(c) >= 55296 /\ Payload3(c) <= 57343)
           \/ Len(c) = 4 /\ c[1] \div 8 = 30  /\ Payload4(c) >= 65536 /\ Payload4(c) <= 1114111
  BY DEF IsScalar
<1> HIDE DEF Conts
<1>3. CASE Len(c) = 1
  BY <1>1, <1>2, <1>3
<1>4. CASE Len(c) = 2
  BY <1>1, <1>2, <1>4
<1>5. CASE Len(c) = 3
  BY <1>1, <1>2, <1>5
<1>6. CASE Len(c) = 4
  BY <1>1, <1>2, <1>6
<1>7. CASE Len(c) \notin 1..4
  BY <1>2, <1>7
<1>8. Len(c) = 1 \/ Len(c) = 2 \/ Len(c) = 3 \/ Len(c) = 4 \/ Len(c) \notin 1..4
  OBVIOUS
<1> QED BY <1>3, <1>4, <1>5, <1>6, <1>7, <1>8

\* A character of the scan is a scalar value, and the other way round.
LEMMA CharIsScalar ==
    ASSUME NEW s \in Seq(Byte), NEW i \in 1..Len(s), NEW m \in Nat, m # 0,
           i + m - 1 <= Len(s)
    PROVE  CharBytes(s, i) = m <=> IsScalar(SubSeq(s, i, i + m - 1))
<1> DEFINE ch == SubSeq(s, i, i + m - 1)
<1>1. Len(s) \in Nat /\ i \in Nat /\ i >= 1 /\ i <= Len(s)
  BY LenProperties
<1>2. Len(ch) = m /\ \A k \in 1..m : ch[k] = s[i + k - 1] /\ s[i + k - 1] \in Byte
  <2>1. Len(ch) = m
    BY <1>1, SubSeqProperties
  <2>2. ASSUME NEW k \in 1..m PROVE ch[k] = s[i + k - 1] /\ s[i + k - 1] \in Byte
    <3>1. i + k - 1 \in 1..Len(s)
      BY <1>1
    <3>2. s[i + k - 1] \in Byte
      BY <3>1, ElementOfSeq
    <3> QED BY <1>1, <3>2, SubSeqProperties
  <2> QED BY <2>1, <2>2
<1> DEFINE lead == s[i]
<1>3. lead \in Byte /\ ch[1] = lead
  BY <1>2
<1>4. LeadBytes(lead) \in 0..4
  BY <1>3, LeadMeans
<1>5. CharBytes(s, i) = m <=>
             /\ LeadBytes(s[i]) = m
             /\ m > 1 => s[i + 1] \in SecondRange(s[i])
             /\ \A k \in 2..(m - 1) : IsContinuation(s[i + k])
  BY <1>1, <1>4, CharMeans
<1> HIDE DEF ch
<1>11. /\ Len(ch) = 1 => (IsScalar(ch) <=> ch[1] < 128)
       /\ Len(ch) = 2 => (IsScalar(ch) <=> ch[2] \in 128..191
                            /\ ch[1] \div 32 = 6 /\ Payload2(ch) >= 128)
       /\ Len(ch) = 3 => (IsScalar(ch) <=> ch[2] \in 128..191 /\ ch[3] \in 128..191
                            /\ ch[1] \div 16 = 14 /\ Payload3(ch) >= 2048
                            /\ ~(Payload3(ch) >= 55296 /\ Payload3(ch) <= 57343))
       /\ Len(ch) = 4 => (IsScalar(ch) <=> ch[2] \in 128..191 /\ ch[3] \in 128..191
                            /\ ch[4] \in 128..191 /\ ch[1] \div 8 = 30
                            /\ Payload4(ch) >= 65536 /\ Payload4(ch) <= 1114111)
       /\ Len(ch) \notin 1..4 => ~IsScalar(ch)
  <2>1. Len(ch) \in Nat
    BY <1>2
  <2> QED BY <2>1, ScalarMeans
<1>6. CASE m = 1
  <2>1. IsScalar(ch) <=> lead < 128
    <3>1. IsScalar(ch) <=> ch[1] < 128
      BY <1>2, <1>6, <1>11
    <3> QED BY <1>3, <3>1
  <2>2. CharBytes(s, i) = m <=> LeadBytes(lead) = 1
    BY <1>5, <1>6
  <2> QED BY <1>3, <2>1, <2>2, LeadMeans DEF ch
<1>7. CASE m = 2
  <2> DEFINE two == s[i + 1]
  <2>1. two \in Byte /\ ch[2] = two
    BY <1>1, <1>2, <1>7
  <2>2. IsScalar(ch) <=> two \in 128..191 /\ lead \div 32 = 6 /\ (lead % 32) * 64 + (two % 64) >= 128
    BY <1>2, <1>3, <1>7, <1>11, <2>1 DEF Payload2
  <2>3. CharBytes(s, i) = m <=> LeadBytes(lead) = 2 /\ two \in SecondRange(lead)
    <3>1. 2..(m - 1) = {}
      BY <1>7
    <3> QED BY <1>5, <1>7, <3>1
  <2>4. CharBytes(s, i) = m <=> lead >= 194 /\ lead <= 223 /\ two >= 128 /\ two <= 191
    <3> HIDE DEF lead, two
    <3>1. LeadBytes(lead) = 2 <=> lead >= 194 /\ lead <= 223
      BY <1>3, LeadMeans
    <3>2. lead >= 194 /\ lead <= 223 => (two \in SecondRange(lead) <=> two >= 128 /\ two <= 191)
      <4>1. two \in SecondRange(lead) <=>
              /\ two >= 128 /\ two <= 191
              /\ lead = 224 => two >= 160
              /\ lead = 237 => two <= 159
              /\ lead = 240 => two >= 144
              /\ lead = 244 => two <= 143
        BY <1>3, <2>1, SecondMeans
      <4> QED BY <1>3, <4>1 DEF Byte
    <3> QED BY <2>3, <3>1, <3>2
  <2>5. IsScalar(ch) <=> lead >= 194 /\ lead <= 223 /\ two >= 128 /\ two <= 191
    <3> HIDE DEF lead, two
    <3>1. two \in 128..191 <=> two >= 128 /\ two <= 191
      BY <2>1 DEF Byte
    <3>2. two >= 128 /\ two <= 191 =>
            (lead \div 32 = 6 /\ (lead % 32) * 64 + (two % 64) >= 128
                <=> lead >= 194 /\ lead <= 223)
      BY <1>3, <2>1, TwoBytes
    <3> QED BY <2>2, <3>1, <3>2
  <2> QED BY <2>4, <2>5 DEF ch
<1>8. CASE m = 3
  <2> DEFINE two == s[i + 1]
             three == s[i + 2]
             code == (lead % 16) * 4096 + (two % 64) * 64 + (three % 64)
  <2>1. two \in Byte /\ ch[2] = two /\ three \in Byte /\ ch[3] = three
    BY <1>1, <1>2, <1>8
  <2>2. IsScalar(ch) <=> /\ two \in 128..191 /\ three \in 128..191
                         /\ lead \div 16 = 14 /\ code >= 2048 /\ ~(code >= 55296 /\ code <= 57343)
    BY <1>2, <1>3, <1>8, <1>11, <2>1 DEF Payload3
  <2>3. CharBytes(s, i) = m <=> LeadBytes(lead) = 3 /\ two \in SecondRange(lead) /\ IsContinuation(three)
    <3>1. 2..(m - 1) = {2}
      BY <1>8
    <3> QED BY <1>5, <1>8, <3>1
  <2>4. two \in 128..191 <=> two >= 128 /\ two <= 191
    <3> HIDE DEF two
    <3> QED BY <2>1 DEF Byte
  <2>5. IsContinuation(three) <=> three >= 128 /\ three <= 191
    <3> HIDE DEF three
    <3>1. IsContinuation(three) <=> three \in 128..191
      BY <2>1, Continuation
    <3> QED BY <2>1, <3>1 DEF Byte
  <2>6. three \in 128..191 <=> three >= 128 /\ three <= 191
    <3> HIDE DEF three
    <3> QED BY <2>1 DEF Byte
  <2>7. CharBytes(s, i) = m <=>
          /\ lead >= 224 /\ lead <= 239 /\ (lead = 224 => two >= 160) /\ (lead = 237 => two <= 159)
          /\ two >= 128 /\ two <= 191 /\ three >= 128 /\ three <= 191
    <3> HIDE DEF lead, two, three
    <3>1. LeadBytes(lead) = 3 <=> lead >= 224 /\ lead <= 239
      BY <1>3, LeadMeans
    <3>2. lead >= 224 /\ lead <= 239 =>
            (two \in SecondRange(lead) <=>
                two >= 128 /\ two <= 191 /\ (lead = 224 => two >= 160) /\ (lead = 237 => two <= 159))
      <4>1. two \in SecondRange(lead) <=>
              /\ two >= 128 /\ two <= 191
              /\ lead = 224 => two >= 160
              /\ lead = 237 => two <= 159
              /\ lead = 240 => two >= 144
              /\ lead = 244 => two <= 143
        BY <1>3, <2>1, SecondMeans
      <4> QED BY <1>3, <4>1 DEF Byte
    <3> QED BY <2>3, <2>5, <3>1, <3>2
  <2>8. IsScalar(ch) <=>
          /\ lead >= 224 /\ lead <= 239 /\ (lead = 224 => two >= 160) /\ (lead = 237 => two <= 159)
          /\ two >= 128 /\ two <= 191 /\ three >= 128 /\ three <= 191
    <3>1. code = (lead % 16) * 4096 + (two % 64) * 64 + (three % 64)
      OBVIOUS
    <3> HIDE DEF lead, two, three, code
    <3>2. two >= 128 /\ two <= 191 /\ three >= 128 /\ three <= 191 =>
            (lead \div 16 = 14 /\ code >= 2048 /\ ~(code >= 55296 /\ code <= 57343)
                <=> lead >= 224 /\ lead <= 239 /\ (lead = 224 => two >= 160)
                    /\ (lead = 237 => two <= 159))
      BY <1>3, <2>1, <3>1, ThreeBytes
    <3>3. CASE two >= 128 /\ two <= 191 /\ three >= 128 /\ three <= 191
      BY <2>2, <2>4, <2>6, <3>2, <3>3
    <3>4. CASE ~(two >= 128 /\ two <= 191 /\ three >= 128 /\ three <= 191)
      <4>1. ~(two \in 128..191 /\ three \in 128..191)
        BY <2>4, <2>6, <3>4
      <4>2. ~IsScalar(ch)
        BY <2>2, <4>1
      <4> QED BY <3>4, <4>2
    <3> QED BY <3>3, <3>4
  <2> QED BY <2>7, <2>8 DEF ch
<1>9. CASE m = 4
  <2> DEFINE two == s[i + 1]
             three == s[i + 2]
             four == s[i + 3]
             code == (lead % 8) * 262144 + (two % 64) * 4096 + (three % 64) * 64 + (four % 64)
  <2>1. two \in Byte /\ ch[2] = two /\ three \in Byte /\ ch[3] = three /\ four \in Byte /\ ch[4] = four
    BY <1>1, <1>2, <1>9
  <2>2. IsScalar(ch) <=> /\ two \in 128..191 /\ three \in 128..191 /\ four \in 128..191
                         /\ lead \div 8 = 30 /\ code >= 65536 /\ code <= 1114111
    BY <1>2, <1>3, <1>9, <1>11, <2>1 DEF Payload4
  <2>3. CharBytes(s, i) = m <=> /\ LeadBytes(lead) = 4 /\ two \in SecondRange(lead)
                                /\ IsContinuation(three) /\ IsContinuation(four)
    <3>1. 2..(m - 1) = {2, 3}
      BY <1>9
    <3> QED BY <1>5, <1>9, <3>1
  <2>4. two \in 128..191 <=> two >= 128 /\ two <= 191
    <3> HIDE DEF two
    <3> QED BY <2>1 DEF Byte
  <2>5. /\ IsContinuation(three) <=> three >= 128 /\ three <= 191
        /\ IsContinuation(four) <=> four >= 128 /\ four <= 191
    <3> HIDE DEF three, four
    <3>1. IsContinuation(three) <=> three \in 128..191
      BY <2>1, Continuation
    <3>2. IsContinuation(four) <=> four \in 128..191
      BY <2>1, Continuation
    <3> QED BY <2>1, <3>1, <3>2 DEF Byte
  <2>6. /\ three \in 128..191 <=> three >= 128 /\ three <= 191
        /\ four \in 128..191 <=> four >= 128 /\ four <= 191
    <3> HIDE DEF three, four
    <3> QED BY <2>1, SMTT(30) DEF Byte
  <2>7. CharBytes(s, i) = m <=>
          /\ lead >= 240 /\ lead <= 244 /\ (lead = 240 => two >= 144) /\ (lead = 244 => two <= 143)
          /\ two >= 128 /\ two <= 191 /\ three >= 128 /\ three <= 191 /\ four >= 128 /\ four <= 191
    <3> HIDE DEF lead, two, three, four
    <3>1. LeadBytes(lead) = 4 <=> lead >= 240 /\ lead <= 244
      BY <1>3, LeadMeans
    <3>2. lead >= 240 /\ lead <= 244 =>
            (two \in SecondRange(lead) <=>
                two >= 128 /\ two <= 191 /\ (lead = 240 => two >= 144) /\ (lead = 244 => two <= 143))
      <4>1. two \in SecondRange(lead) <=>
              /\ two >= 128 /\ two <= 191
              /\ lead = 224 => two >= 160
              /\ lead = 237 => two <= 159
              /\ lead = 240 => two >= 144
              /\ lead = 244 => two <= 143
        BY <1>3, <2>1, SecondMeans
      <4> QED BY <1>3, <4>1 DEF Byte
    <3> QED BY <2>3, <2>5, <3>1, <3>2
  <2>8. IsScalar(ch) <=>
          /\ lead >= 240 /\ lead <= 244 /\ (lead = 240 => two >= 144) /\ (lead = 244 => two <= 143)
          /\ two >= 128 /\ two <= 191 /\ three >= 128 /\ three <= 191 /\ four >= 128 /\ four <= 191
    <3>1. code = (lead % 8) * 262144 + (two % 64) * 4096 + (three % 64) * 64 + (four % 64)
      OBVIOUS
    <3> HIDE DEF lead, two, three, four, code
    <3>2. two >= 128 /\ two <= 191 /\ three >= 128 /\ three <= 191 /\ four >= 128 /\ four <= 191 =>
            (lead \div 8 = 30 /\ code >= 65536 /\ code <= 1114111
                <=> lead >= 240 /\ lead <= 244 /\ (lead = 240 => two >= 144)
                    /\ (lead = 244 => two <= 143))
      BY <1>3, <2>1, <3>1, FourBytes
    <3>3. CASE two >= 128 /\ two <= 191 /\ three >= 128 /\ three <= 191 /\ four >= 128 /\ four <= 191
      BY <2>2, <2>4, <2>6, <3>2, <3>3
    <3>4. CASE ~(two >= 128 /\ two <= 191 /\ three >= 128 /\ three <= 191 /\ four >= 128 /\ four <= 191)
      <4>1. ~(two \in 128..191 /\ three \in 128..191 /\ four \in 128..191)
        BY <2>4, <2>6, <3>4
      <4>2. ~IsScalar(ch)
        BY <2>2, <4>1
      <4> QED BY <3>4, <4>2
    <3> QED BY <3>3, <3>4
  <2> QED BY <2>7, <2>8 DEF ch
<1>10. CASE m > 4
  <2>1. ~IsScalar(ch)
    <3>1. Len(ch) \notin 1..4
      BY <1>2, <1>10
    <3> QED BY <1>11, <3>1
  <2>2. CharBytes(s, i) # m
    BY <1>4, <1>5, <1>10
  <2> QED BY <2>1, <2>2 DEF ch
<1> QED BY <1>6, <1>7, <1>8, <1>9, <1>10

-----------------------------------------------------------------------------
(* The scan                                                                *)

\* A character lies within the text.
LEMMA CharFits ==
    ASSUME NEW s \in Seq(Byte), NEW i \in 1..Len(s)
    PROVE  /\ CharBytes(s, i) \in 0..4
           /\ i + CharBytes(s, i) \in 1..(Len(s) + 1)
<1> DEFINE l == LeadBytes(s[i])
           Whole(x) == /\ x > 1 => s[i + 1] \in SecondRange(s[i])
                       /\ \A k \in 2..(x - 1) : IsContinuation(s[i + k])
<1>1. CharBytes(s, i) = IF l > 0 /\ i + l - 1 <= Len(s) /\ Whole(l) THEN l ELSE 0
  BY Zenon DEF CharBytes
<1>2. l \in 0..4
  <2>1. s[i] \in Byte
    BY ElementOfSeq
  <2> QED BY <2>1, LeadMeans
<1>3. Len(s) \in Nat
  BY LenProperties
<1> HIDE DEF l, Whole
<1> QED BY <1>1, <1>2, <1>3

\* r solves the recursive definition of the scan.
IsScan(r, s) ==
    r = [i \in 1..(Len(s) + 1) |->
            \/ i > Len(s)
            \/ CharBytes(s, i) > 0 /\ r[i + CharBytes(s, i)]]

\* The scan has a solution: the positions from which a closed set leads to the end.
LEMMA ScanExists == ASSUME NEW s \in Seq(Byte) PROVE \E r : IsScan(r, s)
<1> DEFINE P == 1..(Len(s) + 1)
           Closed(C) == \A i \in C : \/ i > Len(s)
                                     \/ CharBytes(s, i) > 0 /\ i + CharBytes(s, i) \in C
           g == [i \in P |-> \E C \in SUBSET P : Closed(C) /\ i \in C]
<1>0. Len(s) \in Nat
  BY LenProperties
<1>1. ASSUME NEW i \in P
      PROVE  g[i] = (i > Len(s) \/ (CharBytes(s, i) > 0 /\ g[i + CharBytes(s, i)]))
  <2> DEFINE cb == CharBytes(s, i)
  <2>1. CASE i > Len(s)
    <3>1. i = Len(s) + 1
      BY <1>0, <2>1
    <3>2. {i} \in SUBSET P /\ Closed({i}) /\ i \in {i}
      BY <2>1, <3>1
    <3>3. g[i] = TRUE
      <4> HIDE DEF Closed
      <4> QED BY <3>2
    <3> HIDE DEF g, Closed, cb
    <3>4. (i > Len(s) \/ (cb > 0 /\ g[i + cb])) = TRUE
      BY <2>1
    <3> QED BY <3>3, <3>4 DEF cb
  <2>2. CASE ~(i > Len(s))
    <3>1. i \in 1..Len(s)
      BY <1>0, <2>2
    <3>2. cb \in 0..4 /\ i + cb \in P
      BY <3>1, CharFits
    <3>3. ASSUME cb > 0, NEW C \in SUBSET P, Closed(C), i + cb \in C
          PROVE  \E D \in SUBSET P : Closed(D) /\ i \in D
      <4> DEFINE D == C \cup {i}
      <4>1. D \in SUBSET P /\ i \in D
        OBVIOUS
      <4>2. Closed(D)
        BY <3>3
      <4> HIDE DEF Closed, D
      <4> QED BY <4>1, <4>2
    <3>4. ASSUME NEW C \in SUBSET P, Closed(C), i \in C
          PROVE  cb > 0 /\ i + cb \in C
      BY <2>2, <3>4
    <3>5. g[i] = \E C \in SUBSET P : Closed(C) /\ i \in C
      OBVIOUS
    <3>6. g[i + cb] = \E C \in SUBSET P : Closed(C) /\ i + cb \in C
      BY <3>2
    <3> HIDE DEF Closed, g, cb
    <3>7. g[i] = (cb > 0 /\ g[i + cb])
      BY <3>3, <3>4, <3>5, <3>6
    <3> QED BY <2>2, <3>7 DEF cb
  <2> QED BY <2>1, <2>2
<1>2. g = [i \in P |-> i > Len(s) \/ (CharBytes(s, i) > 0 /\ g[i + CharBytes(s, i)])]
  <2>1. g = [i \in P |-> g[i]]
    OBVIOUS
  <2> HIDE DEF g, P
  <2> QED BY <1>1, <2>1
<1>3. IsScan(g, s)
  <2> HIDE DEF g
  <2> QED BY <1>2, Zenon DEF IsScan
<1> QED BY <1>3

\* What the scan says is what a solution says at the first byte.
LEMMA ScanMeans == ASSUME NEW s \in Seq(Byte) PROVE \E r : IsScan(r, s) /\ IsValidUtf8(s) = r[1]
<1> DEFINE r == CHOOSE x : IsScan(x, s)
<1>1. IsScan(r, s)
  BY ScanExists
<1>2. IsValidUtf8(s) = r[1]
  BY Zenon DEF IsValidUtf8, IsScan
<1> HIDE DEF r
<1> QED BY <1>1, <1>2

\* One step of a solution.
LEMMA ScanStep ==
    ASSUME NEW s \in Seq(Byte), NEW r, IsScan(r, s)
    PROVE  /\ r[Len(s) + 1]
           /\ \A i \in 1..Len(s) :
                r[i] <=> CharBytes(s, i) > 0 /\ r[i + CharBytes(s, i)]
<1>1. Len(s) \in Nat
  BY LenProperties
<1>2. \A i \in 1..(Len(s) + 1) :
        r[i] = (i > Len(s) \/ (CharBytes(s, i) > 0 /\ r[i + CharBytes(s, i)]))
  BY Zenon DEF IsScan
<1>3. r[Len(s) + 1]
  <2>1. Len(s) + 1 \in 1..(Len(s) + 1) /\ Len(s) + 1 > Len(s)
    BY <1>1
  <2> QED BY <1>2, <2>1, Zenon
<1>4. ASSUME NEW i \in 1..Len(s)
      PROVE  r[i] <=> CharBytes(s, i) > 0 /\ r[i + CharBytes(s, i)]
  <2>1. i \in 1..(Len(s) + 1) /\ ~(i > Len(s))
    BY <1>1
  <2> QED BY <1>2, <2>1, Zenon
<1> QED BY <1>3, <1>4

\* The bytes before e that end a character, and the start of the text.
Starts(cuts, e) == {0} \cup {c \in cuts : c < e}

\* Each piece that ends at a cut is one character.
IsCutting(s, cuts) ==
    \A e \in cuts : \E b \in Starts(cuts, e) :
        /\ \A c \in Starts(cuts, e) : c <= b
        /\ IsScalar(SubSeq(s, b + 1, e))

\* The definition of UTF-8 in these terms.
LEMMA Utf8Means ==
    ASSUME NEW s
    PROVE  IsUtf8(s) <=> \E cuts \in SUBSET (1..Len(s)) :
                            (Len(s) > 0 => Len(s) \in cuts) /\ IsCutting(s, cuts)
BY Zenon DEF IsUtf8, IsCutting, Starts

\* A text that can be cut is scanned to its end: a last cut from which the scan
\* fails has a next one, which is where the scan goes.
LEMMA CutIsScanned ==
    ASSUME NEW s \in Seq(Byte), NEW r, IsScan(r, s), NEW cuts \in SUBSET (1..Len(s)),
           Len(s) > 0 => Len(s) \in cuts, IsCutting(s, cuts)
    PROVE  r[1]
<1>1. Len(s) \in Nat
  BY LenProperties
<1>0. \A c \in cuts : c \in Nat /\ c <= Len(s)
  <2>1. \A c \in cuts : c \in 1..Len(s)
    OBVIOUS
  <2> QED BY <1>1, <2>1
<1> DEFINE B == {0} \cup cuts
           T == {b \in B : ~r[b + 1]}
<1>2. SUFFICES ASSUME T # {} PROVE FALSE
  <2>1. 0 \in B /\ 0 + 1 = 1
    OBVIOUS
  <2> QED BY <1>2, <2>1
<1>3. PICK b \in T : \A y \in T : y <= b
  <2>1. T \in SUBSET (0..Len(s))
    <3>1. ASSUME NEW x \in T PROVE x \in 0..Len(s)
      <4>1. x = 0 \/ x \in cuts
        OBVIOUS
      <4> QED BY <1>0, <1>1, <4>1
    <3> QED BY <3>1, Zenon
  <2> HIDE DEF T
  <2> QED BY <1>1, <1>2, <2>1, Greatest
<1>4. b \in B /\ ~r[b + 1] /\ b \in 0..Len(s)
  BY <1>1
<1>5. b # Len(s) /\ b < Len(s) /\ Len(s) \in cuts
  BY <1>1, <1>4, ScanStep
<1> DEFINE later == {e \in cuts : e > b}
<1>6. PICK e \in later : \A y \in later : e <= y
  <2>1. later \in SUBSET Nat /\ Len(s) \in later
    BY <1>0, <1>1, <1>5
  <2> HIDE DEF later
  <2> QED BY <2>1, Least
<1>7. e \in cuts /\ e > b /\ e \in 1..Len(s)
  OBVIOUS
<1>8. PICK q \in Starts(cuts, e) : /\ \A c \in Starts(cuts, e) : c <= q
                                   /\ IsScalar(SubSeq(s, q + 1, e))
  BY <1>7 DEF IsCutting
<1>9. q = b
  <2>1. b \in Starts(cuts, e) /\ b <= q
    BY <1>4, <1>7, <1>8 DEF Starts
  <2>2. q = 0 \/ (q \in cuts /\ q < e)
    BY <1>8 DEF Starts
  <2>3. q \in Nat
    <3>1. CASE q = 0
      BY <3>1
    <3>2. CASE q \in cuts /\ q < e
      BY <1>0, <3>2, Zenon
    <3> QED BY <2>2, <3>1, <3>2
  <2>4. ~(q > b)
    <3>1. ASSUME q > b PROVE FALSE
      <4>1. q \in later
        BY <1>4, <2>2, <3>1
      <4>2. e <= q
        BY <1>6, <4>1
      <4>3. q < e
        BY <1>4, <2>2, <3>1
      <4> QED BY <1>7, <2>3, <4>2, <4>3
    <3> QED BY <3>1
  <2> QED BY <1>4, <2>1, <2>3, <2>4
<1>10. CharBytes(s, b + 1) = e - b
  <2>1. b + 1 \in 1..Len(s) /\ e - b \in Nat /\ e - b # 0 /\ (b + 1) + (e - b) - 1 = e
    BY <1>1, <1>4, <1>5, <1>7
  <2>2. IsScalar(SubSeq(s, b + 1, (b + 1) + (e - b) - 1))
    BY <1>8, <1>9, <2>1
  <2>3. (b + 1) + (e - b) - 1 <= Len(s)
    BY <1>1, <1>7, <2>1
  <2> QED BY <2>1, <2>2, <2>3, CharIsScalar
<1>11. r[b + 1] <=> r[e + 1]
  <2>1. b + 1 \in 1..Len(s) /\ e - b > 0 /\ (b + 1) + (e - b) = e + 1
    BY <1>1, <1>4, <1>5, <1>7
  <2>2. r[b + 1] <=> CharBytes(s, b + 1) > 0 /\ r[(b + 1) + CharBytes(s, b + 1)]
    BY <2>1, ScanStep
  <2> QED BY <1>10, <2>1, <2>2
<1>12. r[e + 1]
  <2>1. e \in B
    BY <1>7
  <2>2. CASE ~r[e + 1]
    <3>1. e \in T
      BY <2>1, <2>2
    <3>2. e <= b
      BY <1>3, <3>1
    <3> QED BY <1>4, <1>7, <3>2
  <2> QED BY <2>2
<1> QED BY <1>4, <1>11, <1>12

\* A text that is scanned to its end can be cut: the longest prefix that can be
\* cut, with the scan going on after it, is the whole text.
LEMMA ScannedIsCut ==
    ASSUME NEW s \in Seq(Byte), NEW r, IsScan(r, s), r[1]
    PROVE  \E cuts \in SUBSET (1..Len(s)) :
              (Len(s) > 0 => Len(s) \in cuts) /\ IsCutting(s, cuts)
<1>1. Len(s) \in Nat
  BY LenProperties
<1> DEFINE Cut(n) == \E cuts \in SUBSET (1..n) : (n > 0 => n \in cuts) /\ IsCutting(s, cuts)
           T == {n \in 0..Len(s) : Cut(n) /\ r[n + 1]}
<1>2. 0 \in T
  <2>1. {} \in SUBSET (1..0) /\ IsCutting(s, {}) /\ ~(0 > 0)
    BY DEF IsCutting
  <2>2. Cut(0)
    BY <2>1
  <2>3. 0 \in 0..Len(s) /\ 0 + 1 = 1
    BY <1>1
  <2> HIDE DEF Cut
  <2> QED BY <2>2, <2>3
<1>3. PICK n \in T : \A y \in T : y <= n
  <2>1. T \in SUBSET (0..Len(s)) /\ T # {}
    BY <1>2
  <2> HIDE DEF T
  <2> QED BY <1>1, <2>1, Greatest
<1>4. n \in 0..Len(s) /\ Cut(n) /\ r[n + 1]
  OBVIOUS
<1>5. CASE n = Len(s)
  BY <1>4, <1>5
<1>6. CASE n # Len(s)
  <2> DEFINE m == CharBytes(s, n + 1)
  <2>1. n + 1 \in 1..Len(s)
    BY <1>1, <1>4, <1>6
  <2>2. m > 0 /\ r[(n + 1) + m] /\ m \in 0..4 /\ (n + 1) + m \in 1..(Len(s) + 1)
    BY <1>4, <2>1, ScanStep, CharFits
  <2>3. IsScalar(SubSeq(s, n + 1, (n + 1) + m - 1))
    <3>1. m \in Nat /\ m # 0 /\ (n + 1) + m - 1 <= Len(s)
      BY <1>1, <1>4, <2>2
    <3>2. m = CharBytes(s, n + 1)
      OBVIOUS
    <3> HIDE DEF m
    <3> QED BY <2>1, <3>1, <3>2, CharIsScalar
  <2>4. PICK cuts \in SUBSET (1..n) : (n > 0 => n \in cuts) /\ IsCutting(s, cuts)
    BY <1>4
  <2> DEFINE k == n + m
             more == cuts \cup {k}
  <2>5. k \in 0..Len(s) /\ k > n /\ k + 1 = (n + 1) + m /\ (n + 1) + m - 1 = k
    BY <1>1, <1>4, <2>2
  <2> HIDE DEF m, k
  <2>6. \A c \in cuts : c \in Nat /\ c <= n /\ c < k
    BY <1>4, <2>5
  <2>7. more \in SUBSET (1..k) /\ k \in more
    BY <1>4, <2>5, <2>6
  <2>8. ASSUME NEW e \in more
        PROVE  \E b \in Starts(more, e) : /\ \A c \in Starts(more, e) : c <= b
                                          /\ IsScalar(SubSeq(s, b + 1, e))
    <3>1. CASE e = k
      <4>1. n \in Starts(more, e)
        BY <1>4, <2>4, <2>5, <3>1 DEF Starts
      <4>2. \A c \in Starts(more, e) : c <= n
        BY <1>4, <2>5, <2>6, <3>1 DEF Starts
      <4>3. IsScalar(SubSeq(s, n + 1, e))
        BY <2>3, <2>5, <3>1
      <4> QED BY <4>1, <4>2, <4>3
    <3>2. CASE e # k
      <4>1. e \in cuts
        BY <3>2
      <4>2. Starts(more, e) = Starts(cuts, e)
        BY <2>5, <2>6, <4>1 DEF Starts
      <4> QED BY <2>4, <4>1, <4>2 DEF IsCutting
    <3> QED BY <3>1, <3>2
  <2>9. IsCutting(s, more)
    BY <2>8 DEF IsCutting
  <2>10. k \in T
    <3>1. Cut(k)
      <4> HIDE DEF more
      <4> QED BY <2>7, <2>9
    <3>2. r[k + 1]
      BY <2>2, <2>5
    <3> HIDE DEF Cut
    <3> QED BY <2>5, <3>1, <3>2
  <2> QED BY <1>3, <1>4, <2>5, <2>10
<1> QED BY <1>5, <1>6

\* is_valid_utf8 accepts exactly UTF-8.
THEOREM ScanIsUtf8 == ASSUME NEW s \in Seq(Byte) PROVE IsValidUtf8(s) <=> IsUtf8(s)
<1>1. PICK r : IsScan(r, s) /\ IsValidUtf8(s) = r[1]
  BY ScanMeans
<1>2. ASSUME IsUtf8(s) PROVE r[1]
  <2>1. PICK cuts \in SUBSET (1..Len(s)) : (Len(s) > 0 => Len(s) \in cuts) /\ IsCutting(s, cuts)
    BY <1>2, Utf8Means
  <2> QED BY <1>1, <2>1, CutIsScanned
<1>3. ASSUME r[1] PROVE IsUtf8(s)
  BY <1>1, <1>3, ScannedIsCut, Utf8Means
<1> QED BY <1>1, <1>2, <1>3

\* A set that has zero, and with a number its successor, has all numbers.
LEMMA SetInduction ==
    ASSUME NEW S, 0 \in S, \A n \in Nat : n \in S => n + 1 \in S PROVE \A n \in Nat : n \in S
<1> DEFINE T == {n \in Nat : n \notin S}
           R == {ss \in Nat \X Nat : ss[1] < ss[2]}
<1>0. IsWellFoundedOn(R, Nat)
  BY NatLessThanWellFounded, Zenon DEF OpToRel
<1> SUFFICES ASSUME T # {} PROVE FALSE
  OBVIOUS
<1>1. PICK x \in T : \A y \in T : <<y, x>> \notin R
  <2>1. T \in SUBSET Nat
    OBVIOUS
  <2> HIDE DEF T, R
  <2> QED BY <1>0, <2>1, WFMin
<1>2. x # 0 /\ x \in Nat
  OBVIOUS
<1>3. x - 1 \in Nat /\ <<x - 1, x>> \in R
  BY <1>2
<1>4. x - 1 \notin T
  <2> HIDE DEF T, R
  <2> QED BY <1>1, <1>3
<1> QED BY <1>2, <1>3, <1>4

-----------------------------------------------------------------------------
(* Bytes at an offset                                                      *)

\* The bytes w stand in b from the offset at.
IsAt(b, at, w) == at + Len(w) <= Len(b) /\ \A k \in 1..Len(w) : b[at + k] = w[k]

\* Two byte strings stand one after the other.
LEMMA AtConcat ==
    ASSUME NEW b \in Seq(Byte), NEW at \in Nat, NEW u \in Seq(Byte), NEW w \in Seq(Byte)
    PROVE  IsAt(b, at, u \o w) <=> IsAt(b, at, u) /\ IsAt(b, at + Len(u), w)
<1>1. Len(b) \in Nat /\ Len(u) \in Nat /\ Len(w) \in Nat
  BY LenProperties
<1>2. Len(u \o w) = Len(u) + Len(w)
  BY ConcatProperties
<1>3. \A i \in 1..(Len(u) + Len(w)) :
        (u \o w)[i] = IF i <= Len(u) THEN u[i] ELSE w[i - Len(u)]
  BY ConcatProperties
<1>4. ASSUME IsAt(b, at, u \o w) PROVE IsAt(b, at, u) /\ IsAt(b, at + Len(u), w)
  <2>1. \A i \in 1..(Len(u) + Len(w)) : b[at + i] = (u \o w)[i]
    BY <1>2, <1>4 DEF IsAt
  <2>2. ASSUME NEW k \in 1..Len(u) PROVE b[at + k] = u[k]
    BY <1>1, <1>3, <2>1
  <2>3. ASSUME NEW k \in 1..Len(w) PROVE b[at + Len(u) + k] = w[k]
    <3>1. Len(u) + k \in 1..(Len(u) + Len(w)) /\ ~(Len(u) + k <= Len(u))
      BY <1>1
    <3>2. (u \o w)[Len(u) + k] = w[(Len(u) + k) - Len(u)]
      BY <1>3, <3>1
    <3>3. (Len(u) + k) - Len(u) = k /\ at + (Len(u) + k) = at + Len(u) + k
      BY <1>1
    <3> QED BY <2>1, <3>1, <3>2, <3>3
  <2>4. at + Len(u) + Len(w) <= Len(b) /\ at + Len(u) <= Len(b)
    BY <1>1, <1>2, <1>4 DEF IsAt
  <2> QED BY <2>2, <2>3, <2>4 DEF IsAt
<1>5. ASSUME IsAt(b, at, u), IsAt(b, at + Len(u), w) PROVE IsAt(b, at, u \o w)
  <2>1. ASSUME NEW i \in 1..(Len(u) + Len(w)) PROVE b[at + i] = (u \o w)[i]
    <3>1. CASE i <= Len(u)
      <4>1. i \in 1..Len(u)
        BY <1>1, <3>1
      <4> QED BY <1>3, <1>5, <3>1, <4>1 DEF IsAt
    <3>2. CASE ~(i <= Len(u))
      <4>1. i - Len(u) \in 1..Len(w) /\ (at + Len(u)) + (i - Len(u)) = at + i
        BY <1>1, <3>2
      <4>2. b[(at + Len(u)) + (i - Len(u))] = w[i - Len(u)]
        BY <1>5, <4>1 DEF IsAt
      <4> QED BY <1>3, <3>2, <4>1, <4>2
    <3> QED BY <3>1, <3>2
  <2>2. at + (Len(u) + Len(w)) <= Len(b)
    BY <1>1, <1>5 DEF IsAt
  <2> QED BY <1>2, <2>1, <2>2 DEF IsAt
<1> QED BY <1>4, <1>5

\* A byte string that fills b is b.
LEMMA AtWhole ==
    ASSUME NEW b \in Seq(Byte), NEW w \in Seq(Byte)
    PROVE  b = w <=> IsAt(b, 0, w) /\ Len(w) = Len(b)
<1>1. Len(b) \in Nat /\ Len(w) \in Nat
  BY LenProperties
<1>2. ASSUME IsAt(b, 0, w), Len(w) = Len(b) PROVE b = w
  <2>1. ASSUME NEW i \in 1..Len(b) PROVE b[i] = w[i]
    BY <1>1, <1>2 DEF IsAt
  <2> QED BY <1>2, <2>1, SeqEqual
<1>3. ASSUME b = w PROVE IsAt(b, 0, w) /\ Len(w) = Len(b)
  BY <1>1, <1>3 DEF IsAt
<1> QED BY <1>2, <1>3

\* The same bytes at the same place.
LEMMA AtSame ==
    ASSUME NEW b \in Seq(Byte), NEW at \in Nat, NEW u \in Seq(Byte), NEW w \in Seq(Byte),
           Len(u) = Len(w), IsAt(b, at, u), IsAt(b, at, w)
    PROVE  u = w
<1>1. Len(u) \in Nat
  BY LenProperties
<1>2. ASSUME NEW i \in 1..Len(u) PROVE u[i] = w[i]
  BY DEF IsAt
<1> QED BY <1>2, SeqEqual

\* read_bytes gives the bytes that stand there.
LEMMA TakeMeans ==
    ASSUME NEW b \in Seq(Byte), NEW at \in 0..Len(b), NEW n \in Nat, NEW x
    PROVE  x \in Take(b, at, n) <=>
              \E w \in Seq(Byte) : /\ Len(w) = n /\ IsAt(b, at, w)
                                   /\ x = [at |-> at + n, value |-> w]
<1>1. Len(b) \in Nat /\ at \in Nat
  BY LenProperties
<1> DEFINE s == SubSeq(b, at + 1, at + n)
<1>2. ASSUME n <= Len(b) - at PROVE s \in Seq(Byte) /\ Len(s) = n /\ IsAt(b, at, s)
  <2>1. \A i \in (at + 1)..(at + n) : b[i] \in Byte
    <3>1. ASSUME NEW i \in (at + 1)..(at + n) PROVE b[i] \in Byte
      <4>1. i \in 1..Len(b)
        BY <1>1, <1>2
      <4> QED BY <4>1, ElementOfSeq
    <3> QED BY <3>1
  <2>2. /\ s \in Seq(Byte)
        /\ Len(s) = IF at + 1 <= at + n THEN (at + n) - (at + 1) + 1 ELSE 0
        /\ \A i \in 1..((at + n) - (at + 1) + 1) : s[i] = b[(at + 1) + i - 1]
    BY <1>1, <2>1, SubSeqProperties
  <2> HIDE DEF s
  <2>3. Len(s) = n
    BY <1>1, <2>2
  <2>4. ASSUME NEW i \in 1..n PROVE b[at + i] = s[i]
    <3>1. i \in 1..((at + n) - (at + 1) + 1) /\ (at + 1) + i - 1 = at + i
      BY <1>1
    <3> QED BY <2>2, <3>1
  <2> QED BY <1>1, <1>2, <2>2, <2>3, <2>4 DEF IsAt
<1>3. ASSUME NEW w \in Seq(Byte), Len(w) = n, IsAt(b, at, w) PROVE n <= Len(b) - at
  BY <1>1, <1>3 DEF IsAt
<1>4. Take(b, at, n) = IF n <= Len(b) - at THEN {[at |-> at + n, value |-> s]} ELSE {}
  BY Zenon DEF Take
<1> HIDE DEF s
<1>5. ASSUME x \in Take(b, at, n)
      PROVE  \E w \in Seq(Byte) : /\ Len(w) = n /\ IsAt(b, at, w)
                                  /\ x = [at |-> at + n, value |-> w]
  BY <1>2, <1>4, <1>5
<1>6. ASSUME NEW w \in Seq(Byte), Len(w) = n, IsAt(b, at, w), x = [at |-> at + n, value |-> w]
      PROVE  x \in Take(b, at, n)
  <2>1. n <= Len(b) - at
    BY <1>3, <1>6
  <2>2. w = s
    BY <1>1, <1>2, <1>6, <2>1, AtSame
  <2> QED BY <1>4, <1>6, <2>1, <2>2
<1> QED BY <1>5, <1>6

\* The other way round, without the quantifier.
LEMMA TakeGives ==
    ASSUME NEW b \in Seq(Byte), NEW at \in 0..Len(b), NEW n \in Nat, NEW y \in Take(b, at, n)
    PROVE  /\ y.value \in Seq(Byte) /\ Len(y.value) = n /\ IsAt(b, at, y.value)
           /\ y = [at |-> at + n, value |-> y.value]
BY TakeMeans

-----------------------------------------------------------------------------
(* Numbers                                                                 *)

\* Short byte strings.
LEMMA Bytes1 == \A p \in Byte : <<p>> \in Seq(Byte) /\ Len(<<p>>) = 1 /\ <<p>>[1] = p
OBVIOUS

\* Two bytes.
LEMMA Bytes2 ==
    \A p, q \in Byte :
        /\ <<p, q>> \in Seq(Byte) /\ Len(<<p, q>>) = 2
        /\ <<p, q>>[1] = p /\ <<p, q>>[2] = q
OBVIOUS

\* Three bytes.
LEMMA Bytes3 ==
    \A p, q, z \in Byte :
        /\ <<p, q, z>> \in Seq(Byte) /\ Len(<<p, q, z>>) = 3
        /\ <<p, q, z>>[1] = p /\ <<p, q, z>>[2] = q /\ <<p, q, z>>[3] = z
OBVIOUS

\* Two bytes are a word, high byte first or low byte first, and three are one
\* of 24 bits; encoding and reading are inverse.
LEMMA U16Bytes ==
    ASSUME NEW n \in Word
    PROVE  /\ U16(n) \in Seq(Byte) /\ Len(U16(n)) = 2
           /\ U16(n)[1] * 256 + U16(n)[2] = n
<1>1. n \div 256 \in Byte /\ n % 256 \in Byte /\ (n \div 256) * 256 + (n % 256) = n
  <2>1. n \in Int /\ n >= 0 /\ n <= 65535
    BY DEF Word
  <2> QED BY <2>1 DEF Byte
<1> QED BY <1>1 DEF U16

\* Any two bytes are those of a number.
LEMMA U16Inverse ==
    ASSUME NEW p \in Byte, NEW q \in Byte
    PROVE  p * 256 + q \in Word /\ U16(p * 256 + q) = <<p, q>>
<1>1. p * 256 + q \in Word /\ (p * 256 + q) \div 256 = p /\ (p * 256 + q) % 256 = q
  <2>1. p \in Int /\ p >= 0 /\ p <= 255 /\ q \in Int /\ q >= 0 /\ q <= 255
    BY DEF Byte
  <2> QED BY <2>1 DEF Word
<1> QED BY <1>1 DEF U16

\* The bytes of a number, lowest first.
LEMMA LittleU16Bytes ==
    ASSUME NEW n \in Word
    PROVE  /\ LittleU16(n) \in Seq(Byte) /\ Len(LittleU16(n)) = 2
           /\ LittleU16(n)[1] + LittleU16(n)[2] * 256 = n
<1>1. n \div 256 \in Byte /\ n % 256 \in Byte /\ (n % 256) + (n \div 256) * 256 = n
  BY DEF Word, Byte
<1> QED BY <1>1 DEF LittleU16

\* Any two bytes are those of a number, lowest first.
LEMMA LittleU16Inverse ==
    ASSUME NEW p \in Byte, NEW q \in Byte
    PROVE  p + q * 256 \in Word /\ LittleU16(p + q * 256) = <<p, q>>
<1>1. p + q * 256 \in Word /\ (p + q * 256) \div 256 = q /\ (p + q * 256) % 256 = p
  BY DEF Word, Byte
<1> QED BY <1>1 DEF LittleU16

\* The three bytes of a size, lowest first.
LEMMA LittleU24Bytes ==
    ASSUME NEW n \in Word24
    PROVE  /\ LittleU24(n) \in Seq(Byte) /\ Len(LittleU24(n)) = 3
           /\ LittleU24(n)[1] + LittleU24(n)[2] * 256 + LittleU24(n)[3] * 65536 = n
<1>1. n \in Int /\ n >= 0 /\ n <= 16777215
  BY SMT DEF Word24
<1> DEFINE lo == n % 256
           hi == n \div 256
<1>2. lo \in Int /\ lo >= 0 /\ lo <= 255 /\ hi \in Int /\ hi >= 0 /\ hi <= 65535 /\ n = lo + hi * 256
  BY SMT, <1>1
<1>3. n \div 65536 = hi \div 256
  BY SMT, <1>1
<1>4. /\ hi % 256 \in Int /\ hi % 256 >= 0 /\ hi % 256 <= 255
      /\ hi \div 256 \in Int /\ hi \div 256 >= 0 /\ hi \div 256 <= 255
      /\ hi = (hi % 256) + (hi \div 256) * 256
  <2> HIDE DEF hi
  <2> QED BY SMT, <1>2
<1> DEFINE mid == hi % 256
           top == hi \div 256
<1>5. LittleU24(n) = <<lo, mid, top>>
  BY SMT, <1>3 DEF LittleU24
<1> HIDE DEF lo, mid, top, hi
<1>6. lo \in Byte /\ mid \in Byte /\ top \in Byte
  BY SMT, <1>2, <1>4 DEF Byte, mid, top
<1>7. lo + mid * 256 + top * 65536 = n
  BY SMT, <1>2, <1>4 DEF mid, top
<1> QED BY SMT, <1>5, <1>6, <1>7

\* Any three bytes are those of a size.
LEMMA LittleU24Inverse ==
    ASSUME NEW p \in Byte, NEW q \in Byte, NEW z \in Byte
    PROVE  /\ p + q * 256 + z * 65536 \in Word24
           /\ LittleU24(p + q * 256 + z * 65536) = <<p, q, z>>
<1> DEFINE n == p + q * 256 + z * 65536
<1>0. /\ p \in Int /\ p >= 0 /\ p <= 255 /\ q \in Int /\ q >= 0 /\ q <= 255
      /\ z \in Int /\ z >= 0 /\ z <= 255
  BY SMT DEF Byte
<1>1. n \in Word24
  BY SMT, <1>0 DEF Word24
<1>2. n % 256 = p
  BY SMT, <1>0
<1>3. n \div 65536 = z
  BY SMT, <1>0
<1>4. (n \div 256) % 256 = q
  <2>1. n \div 256 = q + z * 256
    BY SMT, <1>0
  <2>2. (q + z * 256) % 256 = q
    BY SMT, <1>0
  <2> QED BY SMT, <2>1, <2>2
<1> HIDE DEF n
<1>5. LittleU24(n) = <<p, q, z>>
  BY SMT, <1>2, <1>3, <1>4 DEF LittleU24
<1> QED BY SMT, <1>1, <1>5 DEF n

\* A byte string of a short length is the tuple of its bytes.
LEMMA ShortSeqs ==
    ASSUME NEW w \in Seq(Byte)
    PROVE  /\ Len(w) = 1 => w[1] \in Byte /\ w = <<w[1]>>
           /\ Len(w) = 2 => w[1] \in Byte /\ w[2] \in Byte /\ w = <<w[1], w[2]>>
           /\ Len(w) = 3 => w[1] \in Byte /\ w[2] \in Byte /\ w[3] \in Byte
                            /\ w = <<w[1], w[2], w[3]>>
OBVIOUS

-----------------------------------------------------------------------------
(* Reading one field                                                       *)

\* x is the result of reading v, written as w, at an offset of b.
IsRead(x, b, at, v, w) == IsAt(b, at, w) /\ x = [at |-> at + Len(w), value |-> v]

\* read_u8 gives the byte that stands there.
LEMMA ReadU8Means ==
    ASSUME NEW b \in Seq(Byte), NEW at \in 0..Len(b), NEW x
    PROVE  x \in ReadU8(b, at) <=> \E v \in Byte : IsRead(x, b, at, v, <<v>>)
<1>1. ASSUME x \in ReadU8(b, at) PROVE \E v \in Byte : IsRead(x, b, at, v, <<v>>)
  <2>1. PICK y \in Take(b, at, 1) : x = [y EXCEPT !.value = y.value[1]]
    BY <1>1 DEF ReadU8
  <2> DEFINE w == y.value
  <2>2. w \in Seq(Byte) /\ Len(w) = 1 /\ IsAt(b, at, w) /\ y = [at |-> at + 1, value |-> w]
    <3>1. w \in Seq(Byte) /\ Len(w) = 1 /\ IsAt(b, at, w)
      BY <2>1, TakeGives
    <3>2. y = [at |-> at + 1, value |-> w]
      BY <2>1, TakeGives
    <3> QED BY <3>1, <3>2
  <2> HIDE DEF w
  <2>3. w[1] \in Byte /\ w = <<w[1]>>
    BY <2>2, ShortSeqs
  <2>4. x = [at |-> at + 1, value |-> w[1]]
    BY <2>1, <2>2
  <2>5. IsRead(x, b, at, w[1], w)
    BY <2>2, <2>4 DEF IsRead
  <2> QED BY <2>3, <2>5
<1>2. ASSUME NEW v \in Byte, IsRead(x, b, at, v, <<v>>) PROVE x \in ReadU8(b, at)
  <2> DEFINE w == <<v>>
             y == [at |-> at + 1, value |-> w]
  <2>1. w \in Seq(Byte) /\ Len(w) = 1 /\ IsAt(b, at, w) /\ w[1] = v
    BY <1>2, Bytes1 DEF IsRead
  <2>2. y \in Take(b, at, 1)
    <3> HIDE DEF w
    <3> QED BY <2>1, TakeMeans
  <2>3. x = [y EXCEPT !.value = y.value[1]]
    BY <1>2, <2>1 DEF IsRead
  <2> QED BY <2>2, <2>3 DEF ReadU8
<1> QED BY <1>1, <1>2

\* read_u16 gives the number whose bytes stand there.
LEMMA ReadU16Means ==
    ASSUME NEW b \in Seq(Byte), NEW at \in 0..Len(b), NEW x
    PROVE  x \in ReadU16(b, at) <=> \E v \in Word : IsRead(x, b, at, v, U16(v))
<1>1. ASSUME x \in ReadU16(b, at) PROVE \E v \in Word : IsRead(x, b, at, v, U16(v))
  <2>1. PICK y \in Take(b, at, 2) : x = [y EXCEPT !.value = y.value[1] * 256 + y.value[2]]
    BY <1>1 DEF ReadU16
  <2> DEFINE w == y.value
  <2>2. w \in Seq(Byte) /\ Len(w) = 2 /\ IsAt(b, at, w) /\ y = [at |-> at + 2, value |-> w]
    <3>1. w \in Seq(Byte) /\ Len(w) = 2 /\ IsAt(b, at, w)
      BY <2>1, TakeGives
    <3>2. y = [at |-> at + 2, value |-> w]
      BY <2>1, TakeGives
    <3> QED BY <3>1, <3>2
  <2> HIDE DEF w
  <2> DEFINE v == w[1] * 256 + w[2]
  <2>3. v \in Word /\ w = U16(v)
    <3>1. w[1] \in Byte /\ w[2] \in Byte /\ w = <<w[1], w[2]>>
      BY <2>2, ShortSeqs
    <3>2. v \in Word /\ U16(v) = <<w[1], w[2]>>
      BY <3>1, U16Inverse
    <3> HIDE DEF v
    <3> QED BY <3>1, <3>2
  <2>4. x = [at |-> at + 2, value |-> v]
    BY <2>1, <2>2
  <2> HIDE DEF v
  <2>5. IsRead(x, b, at, v, w)
    BY <2>2, <2>4 DEF IsRead
  <2> QED BY <2>3, <2>5
<1>2. ASSUME NEW v \in Word, IsRead(x, b, at, v, U16(v)) PROVE x \in ReadU16(b, at)
  <2> DEFINE w == U16(v)
             y == [at |-> at + 2, value |-> w]
  <2>1. w \in Seq(Byte) /\ Len(w) = 2 /\ IsAt(b, at, w) /\ w[1] * 256 + w[2] = v
    BY <1>2, U16Bytes DEF IsRead
  <2> HIDE DEF w
  <2>2. y \in Take(b, at, 2)
    BY <2>1, TakeMeans
  <2>3. x = [y EXCEPT !.value = y.value[1] * 256 + y.value[2]]
    BY <1>2, <2>1 DEF IsRead, w
  <2> QED BY <2>2, <2>3 DEF ReadU16
<1> QED BY <1>1, <1>2

\* The same of a number of a slot image.
LEMMA ReadLittleU16Means ==
    ASSUME NEW b \in Seq(Byte), NEW at \in 0..Len(b), NEW x
    PROVE  x \in ReadLittleU16(b, at) <=> \E v \in Word : IsRead(x, b, at, v, LittleU16(v))
<1>1. ASSUME x \in ReadLittleU16(b, at) PROVE \E v \in Word : IsRead(x, b, at, v, LittleU16(v))
  <2>1. PICK y \in Take(b, at, 2) : x = [y EXCEPT !.value = y.value[1] + y.value[2] * 256]
    BY <1>1 DEF ReadLittleU16
  <2> DEFINE w == y.value
  <2>2. w \in Seq(Byte) /\ Len(w) = 2 /\ IsAt(b, at, w) /\ y = [at |-> at + 2, value |-> w]
    <3>1. w \in Seq(Byte) /\ Len(w) = 2 /\ IsAt(b, at, w)
      BY <2>1, TakeGives
    <3>2. y = [at |-> at + 2, value |-> w]
      BY <2>1, TakeGives
    <3> QED BY <3>1, <3>2
  <2> HIDE DEF w
  <2> DEFINE v == w[1] + w[2] * 256
  <2>3. v \in Word /\ w = LittleU16(v)
    <3>1. w[1] \in Byte /\ w[2] \in Byte /\ w = <<w[1], w[2]>>
      BY <2>2, ShortSeqs
    <3>2. v \in Word /\ LittleU16(v) = <<w[1], w[2]>>
      BY <3>1, LittleU16Inverse
    <3> HIDE DEF v
    <3> QED BY <3>1, <3>2
  <2>4. x = [at |-> at + 2, value |-> v]
    BY <2>1, <2>2
  <2> HIDE DEF v
  <2>5. IsRead(x, b, at, v, w)
    BY <2>2, <2>4 DEF IsRead
  <2> QED BY <2>3, <2>5
<1>2. ASSUME NEW v \in Word, IsRead(x, b, at, v, LittleU16(v)) PROVE x \in ReadLittleU16(b, at)
  <2> DEFINE w == LittleU16(v)
             y == [at |-> at + 2, value |-> w]
  <2>1. w \in Seq(Byte) /\ Len(w) = 2 /\ IsAt(b, at, w) /\ w[1] + w[2] * 256 = v
    BY <1>2, LittleU16Bytes DEF IsRead
  <2> HIDE DEF w
  <2>2. y \in Take(b, at, 2)
    BY <2>1, TakeMeans
  <2>3. x = [y EXCEPT !.value = y.value[1] + y.value[2] * 256]
    BY <1>2, <2>1 DEF IsRead, w
  <2> QED BY <2>2, <2>3 DEF ReadLittleU16
<1> QED BY <1>1, <1>2

\* The same of the size of a ciphertext.
LEMMA ReadLittleU24Means ==
    ASSUME NEW b \in Seq(Byte), NEW at \in 0..Len(b), NEW x
    PROVE  x \in ReadLittleU24(b, at) <=> \E v \in Word24 : IsRead(x, b, at, v, LittleU24(v))
<1>1. ASSUME x \in ReadLittleU24(b, at)
      PROVE  \E v \in Word24 : IsRead(x, b, at, v, LittleU24(v))
  <2>1. PICK y \in Take(b, at, 3) :
          x = [y EXCEPT !.value = y.value[1] + y.value[2] * 256 + y.value[3] * 65536]
    BY SMT, <1>1 DEF ReadLittleU24
  <2> DEFINE w == y.value
  <2>2. w \in Seq(Byte) /\ Len(w) = 3 /\ IsAt(b, at, w) /\ y = [at |-> at + 3, value |-> w]
    <3>1. w \in Seq(Byte) /\ Len(w) = 3 /\ IsAt(b, at, w)
      <4> DEFINE three == 3
      <4>1. y \in Take(b, at, three) /\ three \in Nat
        BY <2>1
      <4> HIDE DEF w, three
      <4>2. y.value \in Seq(Byte) /\ Len(y.value) = three /\ IsAt(b, at, y.value)
        BY <4>1, TakeGives
      <4> QED BY <4>2 DEF w, three
    <3>2. y = [at |-> at + 3, value |-> w]
      BY <2>1, TakeGives
    <3> QED BY <3>1, <3>2
  <2> HIDE DEF w
  <2> DEFINE v == w[1] + w[2] * 256 + w[3] * 65536
  <2>3. v \in Word24 /\ w = LittleU24(v)
    <3>1. w[1] \in Byte /\ w[2] \in Byte /\ w[3] \in Byte /\ w = <<w[1], w[2], w[3]>>
      BY <2>2, ShortSeqs
    <3>2. v \in Word24 /\ LittleU24(v) = <<w[1], w[2], w[3]>>
      BY SMT, <3>1, LittleU24Inverse
    <3> HIDE DEF v
    <3> QED BY <3>1, <3>2
  <2>4. x = [at |-> at + 3, value |-> v]
    BY SMT, <2>1, <2>2
  <2> HIDE DEF v
  <2>5. IsRead(x, b, at, v, w)
    BY <2>2, <2>4 DEF IsRead
  <2> QED BY <2>3, <2>5
<1>2. ASSUME NEW v \in Word24, IsRead(x, b, at, v, LittleU24(v)) PROVE x \in ReadLittleU24(b, at)
  <2> DEFINE w == LittleU24(v)
             y == [at |-> at + 3, value |-> w]
  <2>1. w \in Seq(Byte) /\ Len(w) = 3 /\ IsAt(b, at, w) /\ w[1] + w[2] * 256 + w[3] * 65536 = v
    BY SMT, <1>2, LittleU24Bytes DEF IsRead
  <2> HIDE DEF w
  <2>2. y \in Take(b, at, 3)
    <3>1. 3 \in Nat /\ w \in Seq(Byte) /\ Len(w) = 3 /\ IsAt(b, at, w)
      BY SMT, <2>1
    <3> QED BY <3>1, TakeMeans
  <2>3. x = [y EXCEPT !.value = y.value[1] + y.value[2] * 256 + y.value[3] * 65536]
    BY SMT, <1>2, <2>1 DEF IsRead, w
  <2> HIDE DEF y
  <2>4. ReadLittleU24(b, at) = {[z EXCEPT !.value = z.value[1] + z.value[2] * 256 + z.value[3] * 65536] :
                                  z \in Take(b, at, 3)}
    BY SMT DEF ReadLittleU24
  <2> QED BY SMT, <2>2, <2>3, <2>4
<1> QED BY <1>1, <1>2

\* A size and that many bytes.
LEMMA SizedBytes ==
    ASSUME NEW v \in Seq(Byte), Len(v) \in Word
    PROVE  Sized(v) \in Seq(Byte) /\ Len(Sized(v)) = 2 + Len(v)
BY U16Bytes, ConcatProperties, SMTT(30) DEF Sized

\* read_sized gives the byte string that stands there after its length.
LEMMA ReadSizedMeans ==
    ASSUME NEW b \in Seq(Byte), NEW at \in 0..Len(b), NEW maximum \in Word, NEW x
    PROVE  x \in ReadSized(b, at, maximum) <=>
              \E v \in Seq(Byte) : Len(v) <= maximum /\ IsRead(x, b, at, v, Sized(v))
<1>0. Len(b) \in Nat /\ at \in Nat /\ maximum \in Nat
  BY LenProperties DEF Word
<1>1. ASSUME x \in ReadSized(b, at, maximum)
      PROVE  \E v \in Seq(Byte) : Len(v) <= maximum /\ IsRead(x, b, at, v, Sized(v))
  <2>1. PICK n \in ReadU16(b, at) : n.value <= maximum /\ x \in Take(b, n.at, n.value)
    BY <1>1 DEF ReadSized
  <2>2. PICK l \in Word : IsRead(n, b, at, l, U16(l))
    BY <2>1, ReadU16Means
  <2>3. IsAt(b, at, U16(l)) /\ n.at = at + 2 /\ n.value = l /\ l \in Nat
    <3>1. l \in Nat /\ Len(U16(l)) = 2
      BY U16Bytes DEF Word
    <3> QED BY <2>2, <3>1 DEF IsRead
  <2>4. at + 2 \in 0..Len(b)
    BY <1>0, <2>3, U16Bytes DEF IsAt
  <2>5. PICK v \in Seq(Byte) : Len(v) = l /\ IsAt(b, at + 2, v) /\ x = [at |-> at + 2 + l, value |-> v]
    BY <2>1, <2>3, <2>4, TakeMeans
  <2>6. IsAt(b, at, Sized(v))
    <3>1. U16(l) \in Seq(Byte) /\ Len(U16(l)) = 2
      BY U16Bytes
    <3>2. IsAt(b, at, U16(l) \o v)
      BY <1>0, <2>3, <2>5, <3>1, AtConcat
    <3> QED BY <2>5, <3>2 DEF Sized
  <2>7. Len(Sized(v)) = 2 + Len(v)
    BY <2>5, SizedBytes
  <2>8. x = [at |-> at + Len(Sized(v)), value |-> v]
    BY <1>0, <2>3, <2>5, <2>7
  <2> QED BY <2>1, <2>3, <2>5, <2>6, <2>8 DEF IsRead
<1>2. ASSUME NEW v \in Seq(Byte), Len(v) <= maximum, IsRead(x, b, at, v, Sized(v))
      PROVE  x \in ReadSized(b, at, maximum)
  <2> DEFINE l == Len(v)
             n == [at |-> at + 2, value |-> l]
  <2>1. l \in Word /\ l \in Nat
    BY <1>0, <1>2, LenProperties DEF Word
  <2> HIDE DEF l
  <2>2. U16(l) \in Seq(Byte) /\ Len(U16(l)) = 2
    BY <2>1, U16Bytes
  <2>3. IsAt(b, at, U16(l)) /\ IsAt(b, at + 2, v)
    BY <1>0, <1>2, <2>2, AtConcat DEF IsRead, Sized, l
  <2>4. n \in ReadU16(b, at)
    BY <2>1, <2>2, <2>3, ReadU16Means DEF IsRead
  <2>5. at + 2 \in 0..Len(b)
    BY <1>0, <2>2, <2>3 DEF IsAt
  <2>6. x = [at |-> at + 2 + l, value |-> v]
    <3>1. Len(Sized(v)) = 2 + l
      BY <2>1, SizedBytes DEF l
    <3>2. x = [at |-> at + Len(Sized(v)), value |-> v]
      BY <1>2 DEF IsRead
    <3>3. at + (2 + l) = at + 2 + l
      BY <1>0, <2>1
    <3> QED BY <3>1, <3>2, <3>3
  <2>7. x \in Take(b, at + 2, l)
    BY <2>1, <2>3, <2>5, <2>6, TakeMeans DEF l
  <2>8. n.at = at + 2 /\ n.value = l /\ n.value <= maximum
    BY <1>2 DEF l
  <2> HIDE DEF n
  <2> QED BY <2>4, <2>7, <2>8 DEF ReadSized
<1> QED BY <1>1, <1>2

\* The kinds of field, their values and their bytes.
Fields == {"u8", "u16", "little", "size", "secret", "text"}

Values(kind) ==
    CASE kind = "u8"     -> Byte
      [] kind = "u16"    -> Word
      [] kind = "little" -> Word
      [] kind = "size"   -> Word24
      [] kind = "secret" -> {v \in Seq(Byte) : Len(v) <= kMaxSecretBytes}
      [] kind = "text"   -> {v \in Seq(Byte) : ValidText(v)}

Writes(kind, v) ==
    CASE kind = "u8"     -> <<v>>
      [] kind = "u16"    -> U16(v)
      [] kind = "little" -> LittleU16(v)
      [] kind = "size"   -> LittleU24(v)
      [] kind = "secret" -> Sized(v)
      [] kind = "text"   -> Sized(v)

\* The values and the bytes of a field, by kind.
LEMMA KindTables ==
    /\ Values("u8") = Byte /\ Values("u16") = Word /\ Values("little") = Word
    /\ Values("size") = Word24
    /\ Values("secret") = {v \in Seq(Byte) : Len(v) <= kMaxSecretBytes}
    /\ Values("text") = {v \in Seq(Byte) : ValidText(v)}
    /\ \A v : /\ Writes("u8", v) = <<v>> /\ Writes("u16", v) = U16(v)
              /\ Writes("little", v) = LittleU16(v) /\ Writes("size", v) = LittleU24(v)
              /\ Writes("secret", v) = Sized(v) /\ Writes("text", v) = Sized(v)
BY DEF Values, Writes

\* The reader of a field, by kind.
LEMMA ReadTable ==
    ASSUME NEW b, NEW at
    PROVE  /\ Read(b, at, "u8") = ReadU8(b, at) /\ Read(b, at, "u16") = ReadU16(b, at)
           /\ Read(b, at, "little") = ReadLittleU16(b, at)
           /\ Read(b, at, "size") = ReadLittleU24(b, at)
           /\ Read(b, at, "secret") = ReadSized(b, at, kMaxSecretBytes)
           /\ Read(b, at, "text") = ReadText(b, at)
BY DEF Read

\* The limits of the format are numbers of its widths.
LEMMA Limits ==
    /\ kMaxSecretBytes \in Word /\ kMaxFieldBytes \in Word /\ kMaxCredentials \in Word
    /\ kMaxPersistedCiphertextBytes \in Word24
BY FormatAssumption

\* A text is read if it is valid.
LEMMA ReadTextMeans ==
    ASSUME NEW b \in Seq(Byte), NEW at \in 0..Len(b), NEW x
    PROVE  x \in ReadText(b, at) <=>
              \E v \in {t \in Seq(Byte) : ValidText(t)} : IsRead(x, b, at, v, Sized(v))
<1>1. x \in ReadSized(b, at, kMaxFieldBytes) <=>
        \E v \in Seq(Byte) : Len(v) <= kMaxFieldBytes /\ IsRead(x, b, at, v, Sized(v))
  BY Limits, ReadSizedMeans
<1>2. \A v : IsRead(x, b, at, v, Sized(v)) => x.value = v
  BY DEF IsRead
<1>3. x \in ReadText(b, at) <=> x \in ReadSized(b, at, kMaxFieldBytes) /\ IsValidUtf8(x.value)
  BY DEF ReadText
<1> QED BY <1>1, <1>2, <1>3 DEF ValidText

\* A field is read if one of its values stands there.
LEMMA FieldMeans ==
    ASSUME NEW b \in Seq(Byte), NEW at \in 0..Len(b), NEW kind \in Fields, NEW x
    PROVE  x \in Read(b, at, kind) <=>
              \E v \in Values(kind) : IsRead(x, b, at, v, Writes(kind, v))
<1>1. CASE kind = "u8"
  BY <1>1, KindTables, ReadTable, ReadU8Means
<1>2. CASE kind = "u16"
  BY <1>2, KindTables, ReadTable, ReadU16Means
<1>3. CASE kind = "little"
  BY <1>3, KindTables, ReadTable, ReadLittleU16Means
<1>4. CASE kind = "size"
  BY <1>4, KindTables, ReadTable, ReadLittleU24Means
<1>5. CASE kind = "secret"
  <2>1. x \in ReadSized(b, at, kMaxSecretBytes) <=>
          \E v \in Seq(Byte) : Len(v) <= kMaxSecretBytes /\ IsRead(x, b, at, v, Sized(v))
    BY Limits, ReadSizedMeans
  <2> QED BY <1>5, <2>1, KindTables, ReadTable
<1>6. CASE kind = "text"
  BY <1>6, KindTables, ReadTable, ReadTextMeans
<1> QED BY <1>1, <1>2, <1>3, <1>4, <1>5, <1>6 DEF Fields

\* A field is written as bytes.
LEMMA FieldBytes ==
    ASSUME NEW kind \in Fields, NEW v \in Values(kind) PROVE Writes(kind, v) \in Seq(Byte)
<1>1. CASE kind = "u8"
  BY <1>1, KindTables, Bytes1, ZenonT(40)
<1>2. CASE kind = "u16"
  BY <1>2, KindTables, U16Bytes
<1>3. CASE kind = "little"
  BY <1>3, KindTables, LittleU16Bytes
<1>4. CASE kind = "size"
  BY <1>4, KindTables, LittleU24Bytes
<1>5. CASE kind = "secret"
  <2>1. v \in Seq(Byte) /\ Len(v) <= kMaxSecretBytes
    BY <1>5, KindTables
  <2>2. Len(v) \in Word
    BY <2>1, Limits, LenProperties DEF Word
  <2> QED BY <1>5, <2>1, <2>2, KindTables, SizedBytes
<1>6. CASE kind = "text"
  <2>1. v \in Seq(Byte) /\ Len(v) <= kMaxFieldBytes
    BY <1>6, KindTables DEF ValidText
  <2>2. Len(v) \in Word
    BY <2>1, Limits, LenProperties DEF Word
  <2> QED BY <1>6, <2>1, <2>2, KindTables, SizedBytes
<1> QED BY <1>1, <1>2, <1>3, <1>4, <1>5, <1>6 DEF Fields

\* A read has at most one result, and it lies within the bytes.
LEMMA ReadOnce ==
    ASSUME NEW b, NEW at, NEW kind \in Fields, NEW x \in Read(b, at, kind),
           NEW y \in Read(b, at, kind)
    PROVE  x = y
<1>1. \A n : \A p, q \in Take(b, at, n) : p = q
  BY DEF Take
<1>2. \A p, q \in ReadU16(b, at) : p = q
  BY <1>1 DEF ReadU16
<1>3. \A m : \A p, q \in ReadSized(b, at, m) : p = q
  <2>1. ASSUME NEW m, NEW p \in ReadSized(b, at, m), NEW q \in ReadSized(b, at, m)
        PROVE  p = q
    <3>1. PICK k \in ReadU16(b, at) : p \in Take(b, k.at, k.value)
      BY <2>1 DEF ReadSized
    <3>2. PICK l \in ReadU16(b, at) : q \in Take(b, l.at, l.value)
      BY <2>1 DEF ReadSized
    <3>3. k = l
      BY <1>2
    <3> QED BY <3>1, <3>2, <3>3 DEF Take
  <2> QED BY <2>1
<1>4. CASE kind = "u8"
  BY <1>1, <1>4, ReadTable DEF ReadU8
<1>5. CASE kind = "u16"
  BY <1>2, <1>5, ReadTable
<1>6. CASE kind = "little"
  BY <1>1, <1>6, ReadTable DEF ReadLittleU16
<1>7. CASE kind = "size"
  BY SMT, <1>1, <1>7, ReadTable DEF ReadLittleU24
<1>8. CASE kind = "secret"
  BY <1>3, <1>8, ReadTable
<1>9. CASE kind = "text"
  BY <1>3, <1>9, ReadTable DEF ReadText
<1> QED BY <1>4, <1>5, <1>6, <1>7, <1>8, <1>9 DEF Fields

-----------------------------------------------------------------------------
(* Byte strings one after the other                                        *)

ByteStrings == Seq(Byte)

\* f solves the recursive definition in FlattenSeq over the first m strings.
IsFlat(f, ss, m) == f = [i \in 1..m |-> IF i = 1 THEN ss[i] ELSE f[i - 1] \o ss[i]]

\* There is a function that the recursion of FlattenSeq describes.
LEMMA FlatExists == ASSUME NEW ss, NEW m \in Nat PROVE \E f : IsFlat(f, ss, m)
<1> DEFINE S == {k \in Nat : \E f : IsFlat(f, ss, k)}
<1>1. 0 \in S
  <2> DEFINE f == [i \in 1..0 |-> 0]
  <2>1. f = [i \in 1..0 |-> IF i = 1 THEN ss[i] ELSE f[i - 1] \o ss[i]]
    OBVIOUS
  <2> HIDE DEF f
  <2> QED BY <2>1 DEF IsFlat
<1>2. ASSUME NEW k \in Nat, k \in S PROVE k + 1 \in S
  <2>1. PICK f : IsFlat(f, ss, k)
    BY <1>2
  <2> DEFINE last == IF k + 1 = 1 THEN ss[k + 1] ELSE f[k] \o ss[k + 1]
             g == [i \in 1..(k + 1) |-> IF i = k + 1 THEN last ELSE f[i]]
  <2>2. \A i \in 1..k : f[i] = IF i = 1 THEN ss[i] ELSE f[i - 1] \o ss[i]
    BY <2>1 DEF IsFlat
  <2>3. ASSUME NEW i \in 1..(k + 1)
        PROVE  g[i] = IF i = 1 THEN ss[i] ELSE g[i - 1] \o ss[i]
    <3>1. CASE i = k + 1
      <4>1. CASE i = 1
        BY <3>1, <4>1
      <4>2. CASE i # 1
        <5>1. i - 1 = k /\ k \in 1..(k + 1) /\ k # k + 1
          BY <3>1, <4>2
        <5> QED BY <3>1, <4>2, <5>1
      <4> QED BY <4>1, <4>2
    <3>2. CASE i # k + 1
      <4>1. i \in 1..k /\ g[i] = f[i]
        BY <3>2
      <4>2. i # 1 => i - 1 \in 1..(k + 1) /\ i - 1 # k + 1
        BY <4>1
      <4>3. i # 1 => g[i - 1] = f[i - 1]
        BY <4>2
      <4> HIDE DEF g
      <4> QED BY <2>2, <4>1, <4>3
    <3> QED BY <3>1, <3>2
  <2>4. g = [i \in 1..(k + 1) |-> g[i]]
    OBVIOUS
  <2> HIDE DEF g
  <2>5. g = [i \in 1..(k + 1) |-> IF i = 1 THEN ss[i] ELSE g[i - 1] \o ss[i]]
    BY <2>3, <2>4
  <2>6. IsFlat(g, ss, k + 1)
    BY <2>5 DEF IsFlat
  <2> QED BY <2>6
<1> HIDE DEF S
<1>3. m \in S
  BY <1>1, <1>2, SetInduction
<1> QED BY <1>3 DEF S

\* Solutions over strings that agree agree, and are byte strings.
LEMMA FlatAgree ==
    ASSUME NEW ss, NEW tt, NEW m \in Nat, NEW n \in Nat, m <= n,
           NEW f, IsFlat(f, ss, m), NEW g, IsFlat(g, tt, n),
           \A i \in 1..m : ss[i] = tt[i] /\ ss[i] \in ByteStrings
    PROVE  \A i \in 1..m : f[i] = g[i] /\ f[i] \in ByteStrings
<1> DEFINE S == {k \in Nat : k \in 1..m => f[k] = g[k] /\ f[k] \in ByteStrings}
<1>1. 0 \in S
  OBVIOUS
<1>2. ASSUME NEW k \in Nat, k \in S PROVE k + 1 \in S
  <2>1. CASE k + 1 \in 1..m
    <3>1. k + 1 \in 1..n /\ ss[k + 1] = tt[k + 1] /\ ss[k + 1] \in ByteStrings
      BY <2>1
    <3>2. f[k + 1] = IF k + 1 = 1 THEN ss[k + 1] ELSE f[(k + 1) - 1] \o ss[k + 1]
      BY <2>1 DEF IsFlat
    <3>3. g[k + 1] = IF k + 1 = 1 THEN tt[k + 1] ELSE g[(k + 1) - 1] \o tt[k + 1]
      BY <3>1 DEF IsFlat
    <3>4. CASE k = 0
      BY <3>1, <3>2, <3>3, <3>4
    <3>5. CASE k # 0
      <4>1. k \in 1..m /\ (k + 1) - 1 = k /\ k + 1 # 1
        BY <2>1, <3>5
      <4>2. f[k] = g[k] /\ f[k] \in ByteStrings
        BY <1>2, <4>1
      <4>3. f[k + 1] = f[k] \o ss[k + 1] /\ g[k + 1] = g[k] \o tt[k + 1]
        BY <3>2, <3>3, <4>1
      <4>4. f[k] \o ss[k + 1] \in ByteStrings
        BY <3>1, <4>2, ConcatProperties DEF ByteStrings
      <4>5. f[k + 1] = g[k + 1] /\ f[k + 1] \in ByteStrings
        BY <3>1, <4>2, <4>3, <4>4
      <4> QED BY <4>5
    <3> QED BY <3>4, <3>5
  <2>2. CASE k + 1 \notin 1..m
    BY <2>2
  <2> QED BY <2>1, <2>2
<1> HIDE DEF S
<1>3. \A k \in Nat : k \in S
  BY <1>1, <1>2, SetInduction
<1> QED BY <1>3 DEF S

\* FlattenSeq by a solution.
LEMMA FlattenMeans ==
    ASSUME NEW ss, Len(ss) \in Nat
    PROVE  /\ Len(ss) = 0 => FlattenSeq(ss) = ss
           /\ Len(ss) # 0 => \E f : IsFlat(f, ss, Len(ss)) /\ FlattenSeq(ss) = f[Len(ss)]
<1> DEFINE f == CHOOSE x : IsFlat(x, ss, Len(ss))
<1>1. IsFlat(f, ss, Len(ss))
  BY FlatExists
<1>2. FlattenSeq(ss) = IF Len(ss) = 0 THEN ss ELSE f[Len(ss)]
  BY Zenon DEF FlattenSeq, IsFlat
<1> HIDE DEF f
<1> QED BY <1>1, <1>2

\* One more byte string is flattened to the end.
LEMMA FlattenAppend ==
    ASSUME NEW ss \in Seq(ByteStrings), NEW w \in ByteStrings
    PROVE  /\ FlattenSeq(ss) \in ByteStrings
           /\ FlattenSeq(Append(ss, w)) = FlattenSeq(ss) \o w
<1> DEFINE tt == Append(ss, w)
           n == Len(ss)
<1>1. /\ n \in Nat /\ tt \in Seq(ByteStrings) /\ Len(tt) = n + 1 /\ tt[n + 1] = w
      /\ \A i \in 1..n : ss[i] = tt[i] /\ ss[i] \in ByteStrings
  BY LenProperties, AppendProperties, ElementOfSeq
<1> HIDE DEF tt, n
<1>2. PICK g : IsFlat(g, tt, n + 1) /\ FlattenSeq(tt) = g[n + 1]
  BY <1>1, FlattenMeans
<1>3. n + 1 \in 1..(n + 1)
  BY <1>1
<1>4. g[n + 1] = IF n + 1 = 1 THEN tt[n + 1] ELSE g[(n + 1) - 1] \o tt[n + 1]
  BY <1>2, <1>3 DEF IsFlat
<1>5. CASE n = 0
  <2>1. ss = <<>> /\ FlattenSeq(ss) = <<>>
    <3>1. ss = <<>>
      BY <1>1, <1>5, EmptySeq DEF n
    <3> QED BY <1>1, <1>5, <3>1, FlattenMeans DEF n
  <2>2. FlattenSeq(tt) = w
    BY <1>1, <1>2, <1>4, <1>5
  <2>3. <<>> \o w = w /\ <<>> \in ByteStrings
    BY ConcatEmptySeq, EmptySeq DEF ByteStrings
  <2> QED BY <2>1, <2>2, <2>3 DEF tt
<1>6. CASE n # 0
  <2>1. PICK f : IsFlat(f, ss, n) /\ FlattenSeq(ss) = f[n]
    BY <1>1, <1>6, FlattenMeans DEF n
  <2>2. \A i \in 1..n : f[i] = g[i] /\ f[i] \in ByteStrings
    <3>1. n <= n + 1 /\ n + 1 \in Nat
      BY <1>1
    <3> QED BY <1>1, <1>2, <2>1, <3>1, FlatAgree
  <2>3. n \in 1..n /\ (n + 1) - 1 = n /\ n + 1 # 1
    BY <1>1, <1>6
  <2>4. g[n + 1] = g[n] \o w /\ f[n] = g[n] /\ f[n] \in ByteStrings
    BY <1>1, <1>4, <2>2, <2>3
  <2> QED BY <1>2, <2>1, <2>4 DEF tt
<1> QED BY <1>5, <1>6

-----------------------------------------------------------------------------
(* Fields one after the other                                              *)

\* A result y and then z, as one.
Joined(y, z) == [z EXCEPT !.value = Append(y.value, z.value)]

\* f solves the recursive definition in ReadAll over the first m fields.
IsChain(f, b, at, kinds, m) ==
    f = [n \in 0..m |->
            IF n = 0 THEN {[at |-> at, value |-> <<>>]}
            ELSE UNION {{[x EXCEPT !.value = Append(before.value, x.value)] :
                             x \in Read(b, before.at, kinds[n])} : before \in f[n - 1]}]

\* There is a function that the recursion of ReadAll describes.
LEMMA ChainExists ==
    ASSUME NEW b, NEW at, NEW kinds, NEW m \in Nat PROVE \E f : IsChain(f, b, at, kinds, m)
<1> DEFINE More(r, n) == UNION {{[x EXCEPT !.value = Append(before.value, x.value)] :
                                    x \in Read(b, before.at, kinds[n])} : before \in r}
           First == {[at |-> at, value |-> <<>>]}
           S == {k \in Nat : \E f : f = [n \in 0..k |-> IF n = 0 THEN First ELSE More(f[n - 1], n)]}
<1>1. 0 \in S
  <2> DEFINE f == [n \in 0..0 |-> First]
  <2> HIDE DEF More
  <2>1. f = [n \in 0..0 |-> IF n = 0 THEN First ELSE More(f[n - 1], n)]
    OBVIOUS
  <2> HIDE DEF f
  <2> QED BY <2>1
<1>2. ASSUME NEW k \in Nat, k \in S PROVE k + 1 \in S
  <2> HIDE DEF More, First
  <2>1. PICK f : f = [n \in 0..k |-> IF n = 0 THEN First ELSE More(f[n - 1], n)]
    BY <1>2
  <2> DEFINE g == [n \in 0..(k + 1) |-> IF n = k + 1 THEN More(f[k], n) ELSE f[n]]
  <2>2. \A n \in 0..k : f[n] = IF n = 0 THEN First ELSE More(f[n - 1], n)
    BY <2>1
  <2>3. ASSUME NEW n \in 0..(k + 1) PROVE g[n] = IF n = 0 THEN First ELSE More(g[n - 1], n)
    <3>1. CASE n = k + 1
      <4>1. n # 0 /\ n - 1 = k /\ k \in 0..(k + 1) /\ k # k + 1
        BY <3>1
      <4>2. g[n - 1] = f[k] /\ g[n] = More(f[k], n)
        BY <3>1, <4>1
      <4> QED BY <4>1, <4>2
    <3>2. CASE n # k + 1
      <4>1. n \in 0..k /\ g[n] = f[n]
        BY <3>2
      <4>2. n # 0 => n - 1 \in 0..(k + 1) /\ n - 1 # k + 1
        BY <4>1
      <4>3. n # 0 => g[n - 1] = f[n - 1]
        BY <4>2
      <4> HIDE DEF g
      <4> QED BY <2>2, <4>1, <4>3
    <3> QED BY <3>1, <3>2
  <2>4. g = [n \in 0..(k + 1) |-> g[n]]
    OBVIOUS
  <2> HIDE DEF g
  <2>5. g = [n \in 0..(k + 1) |-> IF n = 0 THEN First ELSE More(g[n - 1], n)]
    BY <2>3, <2>4
  <2> QED BY <2>5
<1> HIDE DEF S
<1>3. m \in S
  BY <1>1, <1>2, SetInduction
<1>4. PICK f : f = [n \in 0..m |-> IF n = 0 THEN First ELSE More(f[n - 1], n)]
  BY <1>3 DEF S
<1>5. IsChain(f, b, at, kinds, m)
  BY <1>4, Zenon DEF IsChain
<1> QED BY <1>5

\* ReadAll is the last value of it.
LEMMA ReadAllMeans ==
    ASSUME NEW b, NEW at, NEW kinds, Len(kinds) \in Nat
    PROVE  \E f : IsChain(f, b, at, kinds, Len(kinds)) /\ ReadAll(b, at, kinds) = f[Len(kinds)]
<1> DEFINE f == CHOOSE g : IsChain(g, b, at, kinds, Len(kinds))
<1>1. IsChain(f, b, at, kinds, Len(kinds))
  BY ChainExists
<1>2. ReadAll(b, at, kinds) = f[Len(kinds)]
  BY Zenon DEF ReadAll, IsChain
<1> HIDE DEF f
<1> QED BY <1>1, <1>2

\* The start of a solution.
LEMMA ChainStart ==
    ASSUME NEW b, NEW at, NEW kinds, NEW m \in Nat, NEW f, IsChain(f, b, at, kinds, m)
    PROVE  f[0] = {[at |-> at, value |-> <<>>]}
<1> DEFINE More(n) == UNION {{Joined(y, z) : z \in Read(b, y.at, kinds[n])} : y \in f[n - 1]}
<1>1. \A n \in 0..m : f[n] = IF n = 0 THEN {[at |-> at, value |-> <<>>]} ELSE More(n)
  BY Zenon DEF IsChain, Joined
<1>2. 0 \in 0..m
  OBVIOUS
<1> HIDE DEF More
<1> QED BY <1>1, <1>2, Zenon

\* r is one of the results, then one more field.
IsNext(r, results, b, kind) ==
    \E y \in results : \E z \in Read(b, y.at, kind) : r = Joined(y, z)

\* One step of it.
LEMMA ChainStep ==
    ASSUME NEW b, NEW at, NEW kinds, NEW m \in Nat, NEW f, IsChain(f, b, at, kinds, m),
           NEW n \in 1..m, NEW r
    PROVE  r \in f[n] <=> IsNext(r, f[n - 1], b, kinds[n])
<1> DEFINE One(y) == {Joined(y, z) : z \in Read(b, y.at, kinds[n])}
<1>1. f[n] = UNION {One(y) : y \in f[n - 1]}
  <2>1. n \in 0..m /\ n # 0
    OBVIOUS
  <2>2. f[n] = IF n = 0 THEN {[at |-> at, value |-> <<>>]}
               ELSE UNION {One(y) : y \in f[n - 1]}
    BY <2>1, Zenon DEF IsChain, Joined
  <2> QED BY <2>1, <2>2, Zenon
<1>2. ASSUME NEW y
      PROVE  r \in One(y) <=> \E z \in Read(b, y.at, kinds[n]) : r = Joined(y, z)
  OBVIOUS
<1> HIDE DEF One
<1>3. r \in f[n] <=> \E y \in f[n - 1] : r \in One(y)
  BY <1>1
<1> QED BY <1>2, <1>3 DEF IsNext

\* n values, each of its kind, and their bytes.
AnyValue == Byte \cup Word \cup Word24 \cup Seq(Byte)

IsValues(vs, kinds, n) ==
    vs \in Seq(AnyValue) /\ Len(vs) = n /\ \A i \in 1..n : vs[i] \in Values(kinds[i])

Pieces(kinds, vs) == [i \in 1..Len(vs) |-> Writes(kinds[i], vs[i])]
Bytes(kinds, vs) == FlattenSeq(Pieces(kinds, vs))

\* Every value of a field is a byte, a number or a byte string.
LEMMA AnyField == ASSUME NEW kind \in Fields, NEW v \in Values(kind) PROVE v \in AnyValue
BY KindTables DEF Fields, AnyValue

\* No value, and no bytes.
LEMMA ValuesEmpty ==
    ASSUME NEW kinds, NEW n, n = 0, NEW vs PROVE IsValues(vs, kinds, n) <=> vs = <<>>
<1>1. ASSUME IsValues(vs, kinds, n) PROVE vs = <<>>
  BY <1>1, EmptySeq DEF IsValues
<1>2. IsValues(<<>>, kinds, n)
  BY EmptySeq DEF IsValues
<1> QED BY <1>1, <1>2

\* No values have no bytes.
LEMMA BytesEmpty == ASSUME NEW kinds PROVE Bytes(kinds, <<>>) = <<>>
<1>1. Pieces(kinds, <<>>) = <<>>
  BY DEF Pieces
<1>2. Len(<<>>) = 0
  OBVIOUS
<1> QED BY <1>1, <1>2, FlattenMeans DEF Bytes

\* The bytes of one value more.
LEMMA ValuesAppend ==
    ASSUME NEW kinds, NEW n \in Nat, \A i \in 1..(n + 1) : kinds[i] \in Fields,
           NEW vs, IsValues(vs, kinds, n), NEW v \in Values(kinds[n + 1])
    PROVE  /\ IsValues(Append(vs, v), kinds, n + 1)
           /\ Bytes(kinds, vs) \in ByteStrings
           /\ Writes(kinds[n + 1], v) \in ByteStrings
           /\ Bytes(kinds, Append(vs, v)) = Bytes(kinds, vs) \o Writes(kinds[n + 1], v)
<1> DEFINE us == Append(vs, v)
           w == Writes(kinds[n + 1], v)
<1>1. n + 1 \in 1..(n + 1) /\ kinds[n + 1] \in Fields
  OBVIOUS
<1>2. v \in AnyValue /\ w \in ByteStrings
  BY <1>1, AnyField, FieldBytes DEF ByteStrings
<1>3. /\ us \in Seq(AnyValue) /\ Len(us) = n + 1 /\ us[n + 1] = v
      /\ \A i \in 1..n : us[i] = vs[i]
  BY <1>2, AppendProperties DEF IsValues
<1> HIDE DEF us, w
<1>4. IsValues(us, kinds, n + 1)
  <2>1. ASSUME NEW i \in 1..(n + 1) PROVE us[i] \in Values(kinds[i])
    <3>1. CASE i = n + 1
      BY <1>3, <3>1
    <3>2. CASE i # n + 1
      <4>1. i \in 1..n
        BY <3>2
      <4> QED BY <1>3, <4>1 DEF IsValues
    <3> QED BY <3>1, <3>2
  <2> QED BY <1>3, <2>1 DEF IsValues
<1>5. Pieces(kinds, vs) \in Seq(ByteStrings) /\ Len(Pieces(kinds, vs)) = n
  <2>1. ASSUME NEW i \in 1..n PROVE Writes(kinds[i], vs[i]) \in ByteStrings
    <3>1. kinds[i] \in Fields /\ vs[i] \in Values(kinds[i])
      BY DEF IsValues
    <3> QED BY <3>1, FieldBytes DEF ByteStrings
  <2>2. Pieces(kinds, vs) = [i \in 1..n |-> Writes(kinds[i], vs[i])]
    BY DEF Pieces, IsValues
  <2> QED BY <2>1, <2>2
<1>6. Pieces(kinds, us) = Append(Pieces(kinds, vs), w)
  <2> DEFINE p == Pieces(kinds, us)
             q == Append(Pieces(kinds, vs), w)
  <2>1. /\ q \in Seq(ByteStrings) /\ Len(q) = n + 1 /\ q[n + 1] = w
        /\ \A i \in 1..n : q[i] = Pieces(kinds, vs)[i]
    BY <1>2, <1>5, AppendProperties
  <2>2. p = [i \in 1..(n + 1) |-> Writes(kinds[i], us[i])]
    BY <1>3 DEF Pieces
  <2>3. \A i \in 1..n : Pieces(kinds, vs)[i] = Writes(kinds[i], vs[i])
    BY DEF Pieces, IsValues
  <2> HIDE DEF p, q
  <2>4. ASSUME NEW i \in 1..(n + 1) PROVE p[i] = q[i]
    <3>1. p[i] = Writes(kinds[i], us[i])
      BY <2>2
    <3>2. CASE i = n + 1
      BY <1>3, <2>1, <3>1, <3>2 DEF w
    <3>3. CASE i # n + 1
      <4>1. i \in 1..n
        BY <3>3
      <4> QED BY <1>3, <2>1, <2>3, <3>1, <4>1
    <3> QED BY <3>2, <3>3
  <2>5. q = [i \in 1..(n + 1) |-> q[i]]
    BY <2>1, LenProperties
  <2>6. p = q
    BY <2>2, <2>4, <2>5
  <2> QED BY <2>6 DEF p, q
<1>7. Bytes(kinds, vs) \in ByteStrings /\ Bytes(kinds, us) = Bytes(kinds, vs) \o w
  BY <1>2, <1>5, <1>6, FlattenAppend DEF Bytes
<1> QED BY <1>2, <1>4, <1>7 DEF us, w

\* The last of some values.
LEMMA ValuesSplit ==
    ASSUME NEW kinds, NEW m \in Nat, m # 0, NEW us, IsValues(us, kinds, m)
    PROVE  \E vs : \E v \in Values(kinds[m]) : IsValues(vs, kinds, m - 1) /\ us = Append(vs, v)
<1> DEFINE n == m - 1
<1>0. n \in Nat /\ m = n + 1
  OBVIOUS
<1> HIDE DEF n
<1>1. us \in Seq(AnyValue) /\ us # <<>> /\ Len(us) = n + 1
  BY <1>0 DEF IsValues
<1>2. PICK vs \in Seq(AnyValue), v \in AnyValue : us = Append(vs, v)
  BY <1>1, SequenceEmptyOrAppend
<1>3. /\ Len(vs) = n /\ us[n + 1] = v
      /\ \A i \in 1..n : us[i] = vs[i]
  BY <1>0, <1>1, <1>2, AppendProperties, LenProperties
<1>4. v \in Values(kinds[n + 1])
  <2>1. n + 1 \in 1..(n + 1)
    BY <1>0
  <2> QED BY <1>0, <1>3, <2>1 DEF IsValues
<1>5. IsValues(vs, kinds, n)
  <2>1. ASSUME NEW i \in 1..n PROVE vs[i] \in Values(kinds[i])
    <3>1. i \in 1..(n + 1)
      BY <1>0
    <3> QED BY <1>0, <1>3, <3>1 DEF IsValues
  <2> QED BY <1>2, <1>3, <2>1 DEF IsValues
<1>6. n = m - 1
  BY <1>0
<1> QED BY <1>0, <1>2, <1>4, <1>5, <1>6

\* The bytes of values are bytes.
LEMMA ValuesBytes ==
    ASSUME NEW kinds, NEW n \in Nat, \A i \in 1..n : kinds[i] \in Fields,
           NEW vs, IsValues(vs, kinds, n)
    PROVE  Bytes(kinds, vs) \in ByteStrings
<1>1. Pieces(kinds, vs) \in Seq(ByteStrings)
  <2>1. ASSUME NEW i \in 1..n PROVE Writes(kinds[i], vs[i]) \in ByteStrings
    <3>1. kinds[i] \in Fields /\ vs[i] \in Values(kinds[i])
      BY DEF IsValues
    <3> QED BY <3>1, FieldBytes DEF ByteStrings
  <2>2. Pieces(kinds, vs) = [i \in 1..n |-> Writes(kinds[i], vs[i])]
    BY DEF Pieces, IsValues
  <2> QED BY <2>1, <2>2
<1>2. <<>> \in ByteStrings
  BY EmptySeq DEF ByteStrings
<1> QED BY <1>1, <1>2, FlattenAppend DEF Bytes

\* Two reads as one.
LEMMA JoinedIs ==
    ASSUME NEW y, NEW z, z = [at |-> z.at, value |-> z.value]
    PROVE  Joined(y, z) = [at |-> z.at, value |-> Append(y.value, z.value)]
BY DEF Joined

\* What ReadAll reads: some values of the kinds, if their bytes stand there.
LEMMA ReadAllReads ==
    ASSUME NEW b \in ByteStrings, NEW at \in 0..Len(b), NEW kinds, Len(kinds) \in Nat,
           \A i \in 1..Len(kinds) : kinds[i] \in Fields
    PROVE  \A r : r \in ReadAll(b, at, kinds) <=>
              \E vs : IsValues(vs, kinds, Len(kinds)) /\ IsRead(r, b, at, vs, Bytes(kinds, vs))
<1> DEFINE m == Len(kinds)
<1>1. PICK f : IsChain(f, b, at, kinds, m) /\ ReadAll(b, at, kinds) = f[m]
  BY ReadAllMeans
<1> DEFINE Reads(n) ==
             \A r : r \in f[n] <=>
                \E vs : IsValues(vs, kinds, n) /\ IsRead(r, b, at, vs, Bytes(kinds, vs))
           S == {n \in Nat : n <= m => Reads(n)}
<1>2. Len(b) \in Nat /\ at \in Nat /\ m \in Nat
  BY LenProperties DEF ByteStrings
<1>3. 0 \in S
  <2>1. f[0] = {[at |-> at, value |-> <<>>]}
    BY <1>1, <1>2, ChainStart, ZenonT(40)
  <2>2. \A r : IsRead(r, b, at, <<>>, <<>>) <=> r = [at |-> at, value |-> <<>>]
    <3>1. IsAt(b, at, <<>>) /\ Len(<<>>) = 0 /\ at + 0 = at
      BY <1>2 DEF IsAt
    <3> QED BY <3>1 DEF IsRead
  <2>3. Reads(0)
    <3> DEFINE zero == 0
    <3>0. zero = 0
      OBVIOUS
    <3> HIDE DEF zero
    <3>1. ASSUME NEW r
          PROVE  r \in f[0] <=> \E vs : IsValues(vs, kinds, zero) /\ IsRead(r, b, at, vs, Bytes(kinds, vs))
      <4>1. r \in f[0] <=> IsRead(r, b, at, <<>>, <<>>)
        BY <2>1, <2>2
      <4>2. IsValues(<<>>, kinds, zero) /\ Bytes(kinds, <<>>) = <<>>
        BY <3>0, ValuesEmpty, BytesEmpty
      <4>3. ASSUME NEW vs, IsValues(vs, kinds, zero) PROVE vs = <<>>
        BY <3>0, <4>3, ValuesEmpty
      <4> QED BY <4>1, <4>2, <4>3
    <3> QED BY <3>0, <3>1
  <2> HIDE DEF Reads
  <2> QED BY <2>3
<1>4. ASSUME NEW n \in Nat, n \in S PROVE n + 1 \in S
  <2> SUFFICES ASSUME n + 1 <= m PROVE Reads(n + 1)
    <3> HIDE DEF Reads
    <3> QED OBVIOUS
  <2>1. n + 1 \in 1..m /\ (n + 1) - 1 = n /\ n <= m
    BY <1>2
  <2>2. Reads(n)
    BY <1>4, <2>1
  <2>3. \A i \in 1..(n + 1) : kinds[i] \in Fields
    BY <1>2, <2>1
  <2>4. kinds[n + 1] \in Fields
    BY <2>3
  <2>5. \A r : r \in f[n + 1] <=>
           \E y \in f[n] : \E z \in Read(b, y.at, kinds[n + 1]) : r = Joined(y, z)
    <3> HIDE DEF m
    <3>1. ASSUME NEW r
          PROVE  r \in f[n + 1] <=>
                   \E y \in f[(n + 1) - 1] : \E z \in Read(b, y.at, kinds[n + 1]) : r = Joined(y, z)
      <4> DEFINE k == n + 1
      <4>1. IsChain(f, b, at, kinds, m) /\ m \in Nat /\ k \in 1..m
        BY <1>1, <1>2, <2>1
      <4> HIDE DEF k, m
      <4>2. r \in f[k] <=> IsNext(r, f[k - 1], b, kinds[k])
        BY <4>1, ChainStep
      <4> QED BY <4>2 DEF k, IsNext
    <3> QED BY <2>1, <3>1
  <2>6. ASSUME NEW r, r \in f[n + 1]
        PROVE  \E us : IsValues(us, kinds, n + 1) /\ IsRead(r, b, at, us, Bytes(kinds, us))
    <3>1. PICK y \in f[n] : \E z \in Read(b, y.at, kinds[n + 1]) :
              r = Joined(y, z)
      BY <2>5, <2>6
    <3>2. PICK z \in Read(b, y.at, kinds[n + 1]) :
              r = Joined(y, z)
      BY <3>1
    <3>3. PICK vs : IsValues(vs, kinds, n) /\ IsRead(y, b, at, vs, Bytes(kinds, vs))
      BY <2>2, <3>1
    <3> DEFINE u == Bytes(kinds, vs)
    <3>4. u \in ByteStrings
      <4>1. \A i \in 1..n : kinds[i] \in Fields
        BY <2>3
      <4> QED BY <3>3, <4>1, ValuesBytes
    <3>5. y.at \in 0..Len(b) /\ y = [at |-> at + Len(u), value |-> vs] /\ IsAt(b, at, u)
      <4>1. y = [at |-> at + Len(u), value |-> vs] /\ IsAt(b, at, u)
        BY <3>3 DEF IsRead
      <4>2. Len(u) \in Nat
        BY <3>4, LenProperties DEF ByteStrings
      <4> HIDE DEF u
      <4>3. y.at = at + Len(u)
        BY <4>1
      <4> QED BY <1>2, <4>1, <4>2, <4>3 DEF IsAt
    <3>6. PICK v \in Values(kinds[n + 1]) : IsRead(z, b, y.at, v, Writes(kinds[n + 1], v))
      BY <2>4, <3>2, <3>5, FieldMeans DEF ByteStrings
    <3> DEFINE w == Writes(kinds[n + 1], v)
               us == Append(vs, v)
    <3>7. IsValues(us, kinds, n + 1) /\ w \in ByteStrings /\ Bytes(kinds, us) = u \o w
      BY <2>3, <3>3, <3>6, ValuesAppend
    <3>8. z = [at |-> y.at + Len(w), value |-> v] /\ IsAt(b, y.at, w)
      BY <3>6 DEF IsRead
    <3> HIDE DEF u, w, us
    <3>9. r = [at |-> at + Len(u \o w), value |-> us] /\ IsAt(b, at, u \o w)
      <4>1. Len(u) \in Nat /\ Len(w) \in Nat /\ Len(u \o w) = Len(u) + Len(w)
        BY <3>4, <3>7, LenProperties, ConcatProperties DEF ByteStrings
      <4>2. y.at = at + Len(u)
        BY <3>5
      <4>3. r = [at |-> y.at + Len(w), value |-> us]
        <5>1. z.at = y.at + Len(w) /\ z.value = v /\ y.value = vs
          BY <3>5, <3>8
        <5>2. z = [at |-> z.at, value |-> z.value]
          BY <3>8, <5>1
        <5>3. Joined(y, z) = [at |-> z.at, value |-> Append(y.value, z.value)]
          BY <5>2, JoinedIs
        <5> QED BY <3>2, <5>1, <5>3 DEF us
      <4>4. y.at + Len(w) = at + Len(u \o w)
        BY <1>2, <4>1, <4>2
      <4>5. IsAt(b, at, u \o w)
        BY <1>2, <3>4, <3>5, <3>7, <3>8, <4>2, AtConcat DEF ByteStrings
      <4> QED BY <4>3, <4>4, <4>5
    <3> QED BY <3>7, <3>9 DEF IsRead
  <2>7. ASSUME NEW r, NEW us, IsValues(us, kinds, n + 1), IsRead(r, b, at, us, Bytes(kinds, us))
        PROVE  r \in f[n + 1]
    <3>1. PICK vs : \E v \in Values(kinds[n + 1]) : IsValues(vs, kinds, n) /\ us = Append(vs, v)
        <4>1. n + 1 \in Nat /\ n + 1 # 0 /\ (n + 1) - 1 = n
        OBVIOUS
      <4>2. \E p : \E q \in Values(kinds[n + 1]) :
               IsValues(p, kinds, (n + 1) - 1) /\ us = Append(p, q)
        BY <2>7, <4>1, ValuesSplit
      <4> QED BY <4>1, <4>2
    <3>2. PICK v \in Values(kinds[n + 1]) : IsValues(vs, kinds, n) /\ us = Append(vs, v)
      BY <3>1
    <3> DEFINE u == Bytes(kinds, vs)
               w == Writes(kinds[n + 1], v)
               y == [at |-> at + Len(u), value |-> vs]
               z == [at |-> y.at + Len(w), value |-> v]
    <3>3. u \in ByteStrings /\ w \in ByteStrings /\ Bytes(kinds, us) = u \o w
      BY <2>3, <3>2, ValuesAppend
    <3>4. r = [at |-> at + Len(u \o w), value |-> Append(vs, v)] /\ IsAt(b, at, u \o w)
      BY <2>7, <3>2, <3>3 DEF IsRead
    <3>5. y = [at |-> at + Len(u), value |-> vs] /\ z = [at |-> y.at + Len(w), value |-> v]
      OBVIOUS
    <3> HIDE DEF u, w, y, z
    <3>6. /\ r = Joined(y, z)
          /\ IsAt(b, at, u) /\ IsAt(b, y.at, w) /\ y.at \in 0..Len(b)
      <4>1. Len(u) \in Nat /\ Len(w) \in Nat /\ Len(u \o w) = Len(u) + Len(w)
        BY <3>3, LenProperties, ConcatProperties DEF ByteStrings
      <4>2. y.at = at + Len(u) /\ y.at + Len(w) = at + Len(u \o w)
        BY <1>2, <3>5, <4>1
      <4>3. Joined(y, z) = [at |-> y.at + Len(w), value |-> Append(vs, v)]
        <5>1. z.at = y.at + Len(w) /\ z.value = v /\ y.value = vs
          BY <3>5
        <5>2. z = [at |-> z.at, value |-> z.value]
          BY <3>5, <5>1
        <5>3. Joined(y, z) = [at |-> z.at, value |-> Append(y.value, z.value)]
          BY <5>2, JoinedIs
        <5> QED BY <5>1, <5>3
      <4>4. IsAt(b, at, u) /\ IsAt(b, at + Len(u), w)
        BY <1>2, <3>3, <3>4, AtConcat DEF ByteStrings
      <4>5. y.at \in 0..Len(b)
        BY <1>2, <4>1, <4>2, <4>4 DEF IsAt
      <4> QED BY <3>4, <4>2, <4>3, <4>4, <4>5
    <3>7. y \in f[n]
      <4>1. IsRead(y, b, at, vs, Bytes(kinds, vs))
        BY <3>5, <3>6 DEF IsRead, u
      <4> QED BY <2>2, <3>2, <4>1
    <3>8. z \in Read(b, y.at, kinds[n + 1])
      <4>1. IsRead(z, b, y.at, v, Writes(kinds[n + 1], v))
        BY <3>5, <3>6 DEF IsRead, w
      <4> QED BY <2>4, <3>2, <3>6, <4>1, FieldMeans DEF ByteStrings
    <3> QED BY <2>5, <3>6, <3>7, <3>8
  <2> QED BY <2>6, <2>7
<1> HIDE DEF S
<1>5. m \in S
  BY <1>2, <1>3, <1>4, SetInduction
<1>6. Reads(m)
  BY <1>2, <1>5 DEF S
<1> QED BY <1>1, <1>6

\* ReadAll has at most one result.
LEMMA ReadAllOnce ==
    ASSUME NEW b, NEW at, NEW kinds, Len(kinds) \in Nat,
           \A i \in 1..Len(kinds) : kinds[i] \in Fields,
           NEW x \in ReadAll(b, at, kinds), NEW y \in ReadAll(b, at, kinds)
    PROVE  x = y
<1> DEFINE m == Len(kinds)
<1>1. PICK f : IsChain(f, b, at, kinds, m) /\ ReadAll(b, at, kinds) = f[m]
  BY ReadAllMeans
<1> DEFINE S == {n \in Nat : n <= m => \A p, q \in f[n] : p = q}
<1>2. 0 \in S
  <2>1. f[0] = {[at |-> at, value |-> <<>>]}
    BY <1>1, ChainStart
  <2> QED BY <2>1
<1>3. ASSUME NEW n \in Nat, n \in S PROVE n + 1 \in S
  <2> SUFFICES ASSUME n + 1 <= m, NEW p \in f[n + 1], NEW q \in f[n + 1] PROVE p = q
    OBVIOUS
  <2> DEFINE k == n + 1
  <2>1. k \in 1..m /\ k - 1 = n /\ n <= m /\ IsChain(f, b, at, kinds, m) /\ m \in Nat
    BY <1>1
  <2>2. p \in f[k] /\ q \in f[k] /\ kinds[k] \in Fields
    BY <2>1
  <2>3. \A c, d \in f[n] : c = d
    BY <1>3, <2>1
  <2> HIDE DEF k, m, S
  <2>4. IsNext(p, f[k - 1], b, kinds[k])
    BY <2>1, <2>2, ChainStep
  <2>5. IsNext(q, f[k - 1], b, kinds[k])
    BY <2>1, <2>2, ChainStep
  <2>6. PICK c \in f[n] : \E z \in Read(b, c.at, kinds[k]) : p = Joined(c, z)
    BY <2>1, <2>4 DEF IsNext
  <2>7. PICK d \in f[n] : \E z \in Read(b, d.at, kinds[k]) : q = Joined(d, z)
    BY <2>1, <2>5 DEF IsNext
  <2>8. c = d
    BY <2>3
  <2>9. PICK z \in Read(b, c.at, kinds[k]) : p = Joined(c, z)
    BY <2>6
  <2>10. PICK e \in Read(b, c.at, kinds[k]) : q = Joined(c, e)
    BY <2>7, <2>8
  <2>11. z = e
    BY <2>2, ReadOnce
  <2> QED BY <2>9, <2>10, <2>11
<1> HIDE DEF S
<1>4. m \in S
  BY <1>2, <1>3, SetInduction
<1>5. \A p, q \in f[m] : p = q
  BY <1>4 DEF S
<1> QED BY <1>1, <1>5

\* The bytes of a prefix of some values, and of one value more.
Prefix(vs, k) == SubSeq(vs, 1, k)

\* One more field adds its bytes.
LEMMA BytesPrefix ==
    ASSUME NEW kinds, NEW n \in Nat, \A i \in 1..n : kinds[i] \in Fields,
           NEW vs, IsValues(vs, kinds, n), NEW k \in 1..n
    PROVE  /\ Bytes(kinds, Prefix(vs, k))
                = Bytes(kinds, Prefix(vs, k - 1)) \o Writes(kinds[k], vs[k])
           /\ Bytes(kinds, Prefix(vs, k - 1)) \in ByteStrings
<1>0. vs \in Seq(AnyValue) /\ Len(vs) = n /\ k - 1 \in Nat /\ k - 1 + 1 = k
  BY DEF IsValues
<1> DEFINE p == Prefix(vs, k - 1)
           q == Prefix(vs, k)
<1>1. p \in Seq(AnyValue) /\ Len(p) = k - 1 /\ \A i \in 1..(k - 1) : p[i] = vs[i]
  <2>1. \A i \in 1..(k - 1) : vs[i] \in AnyValue
    BY <1>0, ElementOfSeq
  <2> QED BY <1>0, <2>1, SubSeqProperties DEF Prefix
<1>2. q \in Seq(AnyValue) /\ Len(q) = k /\ \A i \in 1..k : q[i] = vs[i]
  <2>1. \A i \in 1..k : vs[i] \in AnyValue
    BY <1>0, ElementOfSeq
  <2> QED BY <1>0, <2>1, SubSeqProperties DEF Prefix
<1> HIDE DEF p, q
<1>3. vs[k] \in AnyValue /\ vs[k] \in Values(kinds[k])
  BY <1>0, ElementOfSeq DEF IsValues
<1>4. q = Append(p, vs[k])
  <2> DEFINE a == Append(p, vs[k])
  <2>1. a \in Seq(AnyValue) /\ Len(a) = k /\ a[k] = vs[k] /\ \A i \in 1..(k - 1) : a[i] = vs[i]
    BY <1>0, <1>1, <1>3, AppendProperties
  <2> HIDE DEF a
  <2>2. ASSUME NEW i \in 1..k PROVE q[i] = a[i]
    <3>1. CASE i = k
      BY <1>2, <2>1, <3>1
    <3>2. CASE i # k
      <4>1. i \in 1..(k - 1)
        BY <3>2
      <4> QED BY <1>2, <2>1, <4>1
    <3> QED BY <3>1, <3>2
  <2>3. q = a
    BY <1>2, <2>1, <2>2, SeqEqual
  <2> QED BY <2>3 DEF a
<1>5. IsValues(p, kinds, k - 1)
  BY <1>1 DEF IsValues
<1>6. \A i \in 1..(k - 1 + 1) : kinds[i] \in Fields
  BY <1>0
<1>7. Bytes(kinds, q) = Bytes(kinds, p) \o Writes(kinds[k - 1 + 1], vs[k])
  BY <1>0, <1>3, <1>4, <1>5, <1>6, ValuesAppend
<1>8. Bytes(kinds, p) \in ByteStrings
  BY <1>0, <1>5, <1>6, ValuesBytes
<1> QED BY <1>0, <1>7, <1>8 DEF p, q

\* All of the values.
LEMMA PrefixWhole ==
    ASSUME NEW kinds, NEW n \in Nat, NEW vs, IsValues(vs, kinds, n) PROVE Prefix(vs, n) = vs
BY SubSeqFull DEF IsValues, Prefix

\* None of the values.
LEMMA PrefixNone ==
    ASSUME NEW kinds, NEW n \in Nat, NEW vs, IsValues(vs, kinds, n), NEW k, k = 0
    PROVE  Prefix(vs, k) = <<>>
BY SubSeqEmpty DEF Prefix

-----------------------------------------------------------------------------
(* Records                                                                 *)

\* A record that may be written and is read.
GoodRecord(r) ==
    /\ r \in CredentialRecords /\ ValidCredential(r)
    /\ ValidText(r.issuer) /\ ValidText(r.account) /\ ValidText(r.name)

\* The kinds of its fields.
LEMMA RecordKindsAre ==
    /\ Len(RecordKinds) = 9
    /\ RecordKinds[1] = "u8" /\ RecordKinds[2] = "secret" /\ RecordKinds[3] = "text"
    /\ RecordKinds[4] = "text" /\ RecordKinds[5] = "text" /\ RecordKinds[6] = "u8"
    /\ RecordKinds[7] = "u8" /\ RecordKinds[8] = "u16" /\ RecordKinds[9] = "u16"
BY DEF RecordKinds

\* They are kinds of field.
LEMMA RecordKindsAreFields == \A i \in 1..9 : RecordKinds[i] \in Fields
<1>1. \A i \in 1..9 : i = 1 \/ i = 2 \/ i = 3 \/ i = 4 \/ i = 5 \/ i = 6 \/ i = 7 \/ i = 8 \/ i = 9
  OBVIOUS
<1> QED BY <1>1, RecordKindsAre DEF Fields

\* Two bytes one after the other.
LEMMA Pair == ASSUME NEW p \in Byte, NEW q \in Byte PROVE <<p>> \o <<q>> = <<p, q>>
<1> DEFINE w == <<p>> \o <<q>>
<1>1. w \in Seq(Byte) /\ Len(w) = Len(<<p>>) + Len(<<q>>)
  BY ConcatProperties
<1>2. Len(<<p>>) = 1 /\ Len(<<q>>) = 1
  OBVIOUS
<1>3. w[1] = p /\ w[2] = q
  OBVIOUS
<1> HIDE DEF w
<1>4. w = <<w[1], w[2]>>
  BY <1>1, <1>2, ShortSeqs
<1> QED BY <1>3, <1>4 DEF w

\* The k-th field of a record adds its bytes.
LEMMA RecordStep ==
    ASSUME NEW vs, IsValues(vs, RecordKinds, 9), NEW k \in 1..9, NEW j, j = k - 1
    PROVE  Bytes(RecordKinds, Prefix(vs, k))
              = Bytes(RecordKinds, Prefix(vs, j)) \o Writes(RecordKinds[k], vs[k])
BY RecordKindsAreFields, BytesPrefix

\* The fields of a record, written one after the other, are the record.
LEMMA RecordBytes ==
    ASSUME NEW vs, IsValues(vs, RecordKinds, 9), vs[6] = kSha1
    PROVE  Bytes(RecordKinds, vs) = EncodeRecord(Record(vs))
<1> DEFINE P(k) == Bytes(RecordKinds, Prefix(vs, k))
           W(k) == Writes(RecordKinds[k], vs[k])
<1>1. P(5) \in ByteStrings
  <2>1. 6 \in 1..9 /\ 5 = 6 - 1
    OBVIOUS
  <2>2. Bytes(RecordKinds, Prefix(vs, 6 - 1)) \in ByteStrings
    BY <2>1, RecordKindsAreFields, BytesPrefix
  <2> QED BY <2>1, <2>2
<1>2. P(0) = <<>> /\ P(9) = Bytes(RecordKinds, vs)
  BY PrefixNone, PrefixWhole, BytesEmpty
<1>3. /\ W(1) = <<vs[1]>> /\ W(2) = Sized(vs[2]) /\ W(3) = Sized(vs[3]) /\ W(4) = Sized(vs[4])
      /\ W(5) = Sized(vs[5]) /\ W(6) = <<kSha1>> /\ W(7) = <<vs[7]>> /\ W(8) = U16(vs[8])
      /\ W(9) = U16(vs[9])
  BY RecordKindsAre, KindTables
<1>4. /\ P(1) = P(0) \o W(1) /\ P(2) = P(1) \o W(2) /\ P(3) = P(2) \o W(3)
      /\ P(4) = P(3) \o W(4) /\ P(5) = P(4) \o W(5) /\ P(6) = P(5) \o W(6)
      /\ P(7) = P(6) \o W(7) /\ P(8) = P(7) \o W(8) /\ P(9) = P(8) \o W(9)
  <2>1. \A k \in 1..9 : \A j : j = k - 1 => P(k) = P(j) \o W(k)
    BY RecordStep
  <2> HIDE DEF P, W
  <2>2. P(1) = P(0) \o W(1)
    <3>1. 1 \in 1..9 /\ 0 = 1 - 1
      OBVIOUS
    <3> QED BY <2>1, <3>1, Zenon
  <2>3. P(2) = P(1) \o W(2)
    <3>1. 2 \in 1..9 /\ 1 = 2 - 1
      OBVIOUS
    <3> QED BY <2>1, <3>1, Zenon
  <2>4. P(3) = P(2) \o W(3)
    <3>1. 3 \in 1..9 /\ 2 = 3 - 1
      OBVIOUS
    <3> QED BY <2>1, <3>1, Zenon
  <2>5. P(4) = P(3) \o W(4)
    <3>1. 4 \in 1..9 /\ 3 = 4 - 1
      OBVIOUS
    <3> QED BY <2>1, <3>1, Zenon
  <2>6. P(5) = P(4) \o W(5)
    <3>1. 5 \in 1..9 /\ 4 = 5 - 1
      OBVIOUS
    <3> QED BY <2>1, <3>1, Zenon
  <2>7. P(6) = P(5) \o W(6)
    <3>1. 6 \in 1..9 /\ 5 = 6 - 1
      OBVIOUS
    <3> QED BY <2>1, <3>1, Zenon
  <2>8. P(7) = P(6) \o W(7)
    <3>1. 7 \in 1..9 /\ 6 = 7 - 1
      OBVIOUS
    <3> QED BY <2>1, <3>1, Zenon
  <2>9. P(8) = P(7) \o W(8)
    <3>1. 8 \in 1..9 /\ 7 = 8 - 1
      OBVIOUS
    <3> QED BY <2>1, <3>1, Zenon
  <2>10. P(9) = P(8) \o W(9)
    <3>1. 9 \in 1..9 /\ 8 = 9 - 1
      OBVIOUS
    <3> QED BY <2>1, <3>1, Zenon
  <2> QED BY <2>2, <2>3, <2>4, <2>5, <2>6, <2>7, <2>8, <2>9, <2>10
<1>5. vs[1] \in Byte /\ vs[7] \in Byte /\ kSha1 \in Byte
  <2>1. vs[1] \in Values(RecordKinds[1]) /\ vs[7] \in Values(RecordKinds[7])
    BY DEF IsValues
  <2> QED BY <2>1, RecordKindsAre, KindTables, SMTT(30) DEF kSha1, Byte
<1> HIDE DEF P, W
<1>6. P(1) = <<vs[1]>>
  BY <1>2, <1>3, <1>4, <1>5, ConcatEmptySeq, Bytes1
<1>7. P(7) = P(5) \o <<kSha1, vs[7]>>
  <2>1. (P(5) \o <<kSha1>>) \o <<vs[7]>> = P(5) \o (<<kSha1>> \o <<vs[7]>>)
    BY <1>1, <1>5, Bytes1, ConcatAssociative DEF ByteStrings
  <2>2. <<kSha1>> \o <<vs[7]>> = <<kSha1, vs[7]>>
    BY <1>5, Pair
  <2> QED BY <1>3, <1>4, <2>1, <2>2
<1>8. P(9) = <<vs[1]>> \o Sized(vs[2]) \o Sized(vs[3]) \o Sized(vs[4]) \o Sized(vs[5])
             \o <<kSha1, vs[7]>> \o U16(vs[8]) \o U16(vs[9])
  BY <1>3, <1>4, <1>6, <1>7
<1> QED BY <1>2, <1>8 DEF EncodeRecord, Record

\* Nine values are the fields of a good record if they pass the reader's check.
Fields9(r) ==
    <<r.id, r.secret, r.issuer, r.account, r.name, kSha1, r.digits, r.period, r.order>>

\* Fields that pass the checks make a record the encoder accepts.
LEMMA RecordOfValues ==
    ASSUME NEW vs, IsValues(vs, RecordKinds, 9), vs[6] = kSha1, ValidCredential(Record(vs))
    PROVE  GoodRecord(Record(vs))
<1>1. /\ vs[1] \in Values("u8") /\ vs[2] \in Values("secret") /\ vs[3] \in Values("text")
      /\ vs[4] \in Values("text") /\ vs[5] \in Values("text") /\ vs[7] \in Values("u8")
      /\ vs[8] \in Values("u16") /\ vs[9] \in Values("u16")
  <2>1. \A i \in 1..9 : vs[i] \in Values(RecordKinds[i])
    BY DEF IsValues
  <2> QED BY <2>1, RecordKindsAre
<1>2. /\ vs[1] \in Byte /\ vs[2] \in Seq(Byte) /\ vs[7] \in Byte
      /\ vs[8] \in Word /\ vs[9] \in Word
  BY <1>1, KindTables
<1>3. /\ vs[3] \in Seq(Byte) /\ ValidText(vs[3]) /\ vs[4] \in Seq(Byte) /\ ValidText(vs[4])
      /\ vs[5] \in Seq(Byte) /\ ValidText(vs[5])
  BY <1>1, KindTables
<1> DEFINE r == Record(vs)
<1>4. r \in CredentialRecords /\ r.issuer = vs[3] /\ r.account = vs[4] /\ r.name = vs[5]
  BY <1>2, <1>3 DEF Record, CredentialRecords
<1> HIDE DEF r
<1>5. GoodRecord(r)
  BY <1>3, <1>4 DEF GoodRecord, r
<1> QED BY <1>5 DEF r

\* The fields of such a record, and the record they make.
LEMMA ValuesOfRecord ==
    ASSUME NEW r, GoodRecord(r)
    PROVE  /\ IsValues(Fields9(r), RecordKinds, 9)
           /\ Fields9(r)[6] = kSha1 /\ Record(Fields9(r)) = r
<1> DEFINE vs == Fields9(r)
<1>1. /\ r.id \in Byte /\ r.secret \in Seq(Byte) /\ r.issuer \in Seq(Byte)
      /\ r.account \in Seq(Byte) /\ r.name \in Seq(Byte) /\ r.digits \in Byte
      /\ r.period \in Word /\ r.order \in Word
  BY DEF GoodRecord, CredentialRecords
<1>2. kSha1 \in Byte
  BY DEF kSha1, Byte
<1>3. vs \in Seq(AnyValue) /\ Len(vs) = 9
  BY <1>1, <1>2 DEF Fields9, AnyValue
<1>4. /\ vs[1] = r.id /\ vs[2] = r.secret /\ vs[3] = r.issuer /\ vs[4] = r.account
      /\ vs[5] = r.name /\ vs[6] = kSha1 /\ vs[7] = r.digits /\ vs[8] = r.period
      /\ vs[9] = r.order
  BY DEF Fields9
<1> HIDE DEF vs
<1>5. Record(vs) = r
  <2>1. r = [id |-> r.id, secret |-> r.secret, issuer |-> r.issuer, account |-> r.account,
             name |-> r.name, digits |-> r.digits, period |-> r.period, order |-> r.order]
    BY DEF GoodRecord, CredentialRecords
  <2> QED BY <1>4, <2>1 DEF Record
<1>6. Len(r.secret) <= kMaxSecretBytes
  BY Limits, LenProperties, <1>1 DEF GoodRecord, ValidCredential
<1>7. /\ vs[1] \in Values("u8") /\ vs[2] \in Values("secret") /\ vs[3] \in Values("text")
      /\ vs[4] \in Values("text") /\ vs[5] \in Values("text") /\ vs[6] \in Values("u8")
      /\ vs[7] \in Values("u8") /\ vs[8] \in Values("u16") /\ vs[9] \in Values("u16")
  BY <1>1, <1>2, <1>4, <1>6, KindTables DEF GoodRecord
<1>8. ASSUME NEW i \in 1..9 PROVE vs[i] \in Values(RecordKinds[i])
  <2>1. i = 1 \/ i = 2 \/ i = 3 \/ i = 4 \/ i = 5 \/ i = 6 \/ i = 7 \/ i = 8 \/ i = 9
    OBVIOUS
  <2> QED BY <1>7, <2>1, RecordKindsAre
<1>9. IsValues(vs, RecordKinds, 9)
  BY <1>3, <1>8 DEF IsValues
<1> QED BY <1>4, <1>5, <1>9 DEF vs

\* What ReadRecord reads: a good record, if its bytes stand there.
LEMMA ReadRecordMeans ==
    ASSUME NEW b \in ByteStrings, NEW at \in 0..Len(b), NEW x
    PROVE  x \in ReadRecord(b, at) <=>
              \E r : GoodRecord(r) /\ IsRead(x, b, at, r, EncodeRecord(r))
<1> DEFINE Reads(y) == \E vs : /\ IsValues(vs, RecordKinds, 9)
                               /\ IsRead(y, b, at, vs, Bytes(RecordKinds, vs))
<1>1. \A y : y \in ReadAll(b, at, RecordKinds) <=> Reads(y)
  <2>1. Len(RecordKinds) \in Nat /\ \A i \in 1..Len(RecordKinds) : RecordKinds[i] \in Fields
    BY RecordKindsAre, RecordKindsAreFields
  <2>2. \A y : y \in ReadAll(b, at, RecordKinds) <=>
           \E vs : /\ IsValues(vs, RecordKinds, Len(RecordKinds))
                   /\ IsRead(y, b, at, vs, Bytes(RecordKinds, vs))
    BY <2>1, ReadAllReads
  <2> QED BY <2>2, RecordKindsAre
<1>2. ASSUME x \in ReadRecord(b, at)
      PROVE  \E r : GoodRecord(r) /\ IsRead(x, b, at, r, EncodeRecord(r))
  <2>1. PICK y \in ReadAll(b, at, RecordKinds) :
           /\ y.value[6] = kSha1 /\ ValidCredential(Record(y.value))
           /\ x = [y EXCEPT !.value = Record(y.value)]
    BY <1>2 DEF ReadRecord
  <2>2. PICK vs : /\ IsValues(vs, RecordKinds, 9)
                  /\ IsRead(y, b, at, vs, Bytes(RecordKinds, vs))
    BY <1>1, <2>1
  <2> DEFINE u == Bytes(RecordKinds, vs)
             r == Record(vs)
  <2>3. IsAt(b, at, u) /\ y = [at |-> at + Len(u), value |-> vs]
    BY <2>2 DEF IsRead
  <2> HIDE DEF u, r
  <2>4. y.value = vs
    BY <2>3
  <2>5. x = [at |-> at + Len(u), value |-> r]
    BY <2>1, <2>3, <2>4 DEF r
  <2>6. u = EncodeRecord(r)
    BY <2>1, <2>2, <2>4, RecordBytes DEF u, r
  <2>7. GoodRecord(r)
    BY <2>1, <2>2, <2>4, RecordOfValues DEF r
  <2> QED BY <2>3, <2>5, <2>6, <2>7 DEF IsRead
<1>3. ASSUME NEW r, GoodRecord(r), IsRead(x, b, at, r, EncodeRecord(r))
      PROVE  x \in ReadRecord(b, at)
  <2> DEFINE vs == Fields9(r)
             u == Bytes(RecordKinds, vs)
             y == [at |-> at + Len(u), value |-> vs]
  <2>1. IsValues(vs, RecordKinds, 9) /\ vs[6] = kSha1 /\ Record(vs) = r
    BY <1>3, ValuesOfRecord
  <2> HIDE DEF vs
  <2>2. u = EncodeRecord(r)
    BY <2>1, RecordBytes
  <2> HIDE DEF u
  <2>3. IsAt(b, at, u) /\ x = [at |-> at + Len(u), value |-> r]
    BY <1>3, <2>2 DEF IsRead
  <2>4. y \in ReadAll(b, at, RecordKinds)
    <3>1. IsRead(y, b, at, vs, Bytes(RecordKinds, vs))
      BY <2>3 DEF IsRead, u
    <3> QED BY <1>1, <2>1, <3>1
  <2>5. y.value = vs /\ x = [y EXCEPT !.value = Record(y.value)]
    BY <2>1, <2>3
  <2> HIDE DEF y
  <2>6. y.value[6] = kSha1 /\ ValidCredential(Record(y.value))
    BY <1>3, <2>1, <2>5 DEF GoodRecord
  <2> QED BY <2>4, <2>5, <2>6 DEF ReadRecord
<1> QED BY <1>2, <1>3

\* It has at most one result.
LEMMA ReadRecordOnce ==
    ASSUME NEW b, NEW at, NEW x \in ReadRecord(b, at), NEW y \in ReadRecord(b, at)
    PROVE  x = y
<1>1. Len(RecordKinds) \in Nat /\ \A i \in 1..Len(RecordKinds) : RecordKinds[i] \in Fields
  BY RecordKindsAre, RecordKindsAreFields
<1>2. PICK c \in ReadAll(b, at, RecordKinds) : x = [c EXCEPT !.value = Record(c.value)]
  BY DEF ReadRecord
<1>3. PICK d \in ReadAll(b, at, RecordKinds) : y = [d EXCEPT !.value = Record(d.value)]
  BY DEF ReadRecord
<1>4. c = d
  BY <1>1, <1>2, <1>3, ReadAllOnce
<1> QED BY <1>2, <1>3, <1>4

\* A good record is written as bytes.
LEMMA EncodeRecordBytes == ASSUME NEW r, GoodRecord(r) PROVE EncodeRecord(r) \in ByteStrings
<1>1. IsValues(Fields9(r), RecordKinds, 9) /\ Fields9(r)[6] = kSha1 /\ Record(Fields9(r)) = r
  BY ValuesOfRecord
<1>2. Bytes(RecordKinds, Fields9(r)) \in ByteStrings
  BY <1>1, RecordKindsAreFields, ValuesBytes
<1> QED BY <1>1, <1>2, RecordBytes

-----------------------------------------------------------------------------
(* Records one after the other                                             *)

\* f solves the recursive definition in ReadRecords over the first m records.
IsRecordChain(f, b, at, m) ==
    f = [n \in 0..m |->
            IF n = 0 THEN {[at |-> at, value |-> <<>>]}
            ELSE UNION {{[x EXCEPT !.value = Append(before.value, x.value)] :
                             x \in {y \in ReadRecord(b, before.at) :
                                       \A i \in 1..(n - 1) : before.value[i].id # y.value.id}}
                          : before \in f[n - 1]}]

\* There is a function that the recursion of ReadRecords describes.
LEMMA RecordChainExists ==
    ASSUME NEW b, NEW at, NEW m \in Nat PROVE \E f : IsRecordChain(f, b, at, m)
<1> DEFINE More(r, n) == UNION {{[x EXCEPT !.value = Append(before.value, x.value)] :
                                    x \in {y \in ReadRecord(b, before.at) :
                                       \A i \in 1..(n - 1) : before.value[i].id # y.value.id}}
                                 : before \in r}
           First == {[at |-> at, value |-> <<>>]}
           S == {k \in Nat : \E f : f = [n \in 0..k |-> IF n = 0 THEN First ELSE More(f[n - 1], n)]}
<1>1. 0 \in S
  <2> DEFINE f == [n \in 0..0 |-> First]
  <2> HIDE DEF More
  <2>1. f = [n \in 0..0 |-> IF n = 0 THEN First ELSE More(f[n - 1], n)]
    OBVIOUS
  <2> HIDE DEF f
  <2> QED BY <2>1
<1>2. ASSUME NEW k \in Nat, k \in S PROVE k + 1 \in S
  <2> HIDE DEF More, First
  <2>1. PICK f : f = [n \in 0..k |-> IF n = 0 THEN First ELSE More(f[n - 1], n)]
    BY <1>2
  <2> DEFINE g == [n \in 0..(k + 1) |-> IF n = k + 1 THEN More(f[k], n) ELSE f[n]]
  <2>2. \A n \in 0..k : f[n] = IF n = 0 THEN First ELSE More(f[n - 1], n)
    BY <2>1
  <2>3. ASSUME NEW n \in 0..(k + 1) PROVE g[n] = IF n = 0 THEN First ELSE More(g[n - 1], n)
    <3>1. CASE n = k + 1
      <4>1. n # 0 /\ n - 1 = k /\ k \in 0..(k + 1) /\ k # k + 1
        BY <3>1
      <4>2. g[n - 1] = f[k] /\ g[n] = More(f[k], n)
        BY <3>1, <4>1
      <4> QED BY <4>1, <4>2
    <3>2. CASE n # k + 1
      <4>1. n \in 0..k /\ g[n] = f[n]
        BY <3>2
      <4>2. n # 0 => n - 1 \in 0..(k + 1) /\ n - 1 # k + 1
        BY <4>1
      <4>3. n # 0 => g[n - 1] = f[n - 1]
        BY <4>2
      <4> HIDE DEF g
      <4> QED BY <2>2, <4>1, <4>3
    <3> QED BY <3>1, <3>2
  <2>4. g = [n \in 0..(k + 1) |-> g[n]]
    OBVIOUS
  <2> HIDE DEF g
  <2>5. g = [n \in 0..(k + 1) |-> IF n = 0 THEN First ELSE More(g[n - 1], n)]
    BY <2>3, <2>4
  <2> QED BY <2>5
<1> HIDE DEF S
<1>3. m \in S
  BY <1>1, <1>2, SetInduction
<1>4. PICK f : f = [n \in 0..m |-> IF n = 0 THEN First ELSE More(f[n - 1], n)]
  BY <1>3 DEF S
<1>5. IsRecordChain(f, b, at, m)
  BY <1>4, Zenon DEF IsRecordChain
<1> QED BY <1>5

\* ReadRecords is the last value of it.
LEMMA ReadRecordsMeans ==
    ASSUME NEW b, NEW at, NEW m \in Nat
    PROVE  \E f : IsRecordChain(f, b, at, m) /\ ReadRecords(b, at, m) = f[m]
<1> DEFINE f == CHOOSE g : IsRecordChain(g, b, at, m)
<1>1. IsRecordChain(f, b, at, m)
  BY RecordChainExists
<1>2. ReadRecords(b, at, m) = f[m]
  BY Zenon DEF ReadRecords, IsRecordChain
<1> HIDE DEF f
<1> QED BY <1>1, <1>2

\* The start of a solution.
LEMMA RecordChainStart ==
    ASSUME NEW b, NEW at, NEW m \in Nat, NEW f, IsRecordChain(f, b, at, m)
    PROVE  f[0] = {[at |-> at, value |-> <<>>]}
<1> DEFINE More(n) == UNION {{[x EXCEPT !.value = Append(before.value, x.value)] :
                                x \in {y \in ReadRecord(b, before.at) :
                                       \A i \in 1..(n - 1) : before.value[i].id # y.value.id}}
                              : before \in f[n - 1]}
<1>1. \A n \in 0..m : f[n] = IF n = 0 THEN {[at |-> at, value |-> <<>>]} ELSE More(n)
  BY Zenon DEF IsRecordChain
<1>2. 0 \in 0..m
  OBVIOUS
<1> HIDE DEF More
<1> QED BY <1>1, <1>2, Zenon

\* The first n records of rs have other ids than r.
IsNew(r, rs, n) == \A i \in 1..n : rs[i].id # r.id

\* r is one of the results, then one more record.
IsNextRecord(r, results, b, n) ==
    \E y \in results : \E z \in ReadRecord(b, y.at) : IsNew(z.value, y.value, n) /\ r = Joined(y, z)

\* One step of it.
LEMMA RecordChainStep ==
    ASSUME NEW b, NEW at, NEW m \in Nat, NEW f, IsRecordChain(f, b, at, m), NEW n \in 1..m, NEW r
    PROVE  r \in f[n] <=> IsNextRecord(r, f[n - 1], b, n - 1)
<1> DEFINE Fresh(y) == {z \in ReadRecord(b, y.at) : IsNew(z.value, y.value, n - 1)}
           One(y) == {Joined(y, z) : z \in Fresh(y)}
<1>1. f[n] = UNION {One(y) : y \in f[n - 1]}
  <2>1. n \in 0..m /\ n # 0
    OBVIOUS
  <2>2. f[n] = IF n = 0 THEN {[at |-> at, value |-> <<>>]}
               ELSE UNION {One(y) : y \in f[n - 1]}
    BY <2>1, Zenon DEF IsRecordChain, Joined, IsNew
  <2> QED BY <2>1, <2>2, Zenon
<1>2. ASSUME NEW y
      PROVE  r \in One(y) <=>
                \E z \in ReadRecord(b, y.at) : IsNew(z.value, y.value, n - 1) /\ r = Joined(y, z)
  OBVIOUS
<1> HIDE DEF One, Fresh
<1>3. r \in f[n] <=> \E y \in f[n - 1] : r \in One(y)
  BY <1>1
<1> QED BY <1>2, <1>3 DEF IsNextRecord

\* Good records, each with an id of its own, and their bytes.
IsRecords(rs, n) ==
    /\ rs \in Seq(CredentialRecords) /\ Len(rs) = n
    /\ \A i \in 1..n : GoodRecord(rs[i]) /\ IsNew(rs[i], rs, i - 1)

RecordPieces(rs) == [i \in 1..Len(rs) |-> EncodeRecord(rs[i])]
RecordsBytes(rs) == FlattenSeq(RecordPieces(rs))

\* No records.
LEMMA RecordsEmpty == ASSUME NEW n, n = 0, NEW rs PROVE IsRecords(rs, n) <=> rs = <<>>
<1>1. ASSUME IsRecords(rs, n) PROVE rs = <<>>
  BY <1>1, EmptySeq DEF IsRecords
<1>2. IsRecords(<<>>, n)
  BY EmptySeq DEF IsRecords
<1> QED BY <1>1, <1>2

\* No records have no bytes.
LEMMA RecordsBytesEmpty == RecordsBytes(<<>>) = <<>>
<1>1. RecordPieces(<<>>) = <<>>
  BY DEF RecordPieces
<1>2. Len(<<>>) = 0
  OBVIOUS
<1> QED BY <1>1, <1>2, FlattenMeans DEF RecordsBytes

\* The bytes of the records, one by one.
LEMMA RecordPiecesAre ==
    ASSUME NEW n \in Nat, NEW rs, IsRecords(rs, n)
    PROVE  /\ RecordPieces(rs) \in Seq(ByteStrings) /\ Len(RecordPieces(rs)) = n
           /\ \A i \in 1..n : RecordPieces(rs)[i] = EncodeRecord(rs[i])
<1>1. ASSUME NEW i \in 1..n PROVE EncodeRecord(rs[i]) \in ByteStrings
  <2>1. GoodRecord(rs[i])
    BY DEF IsRecords
  <2> QED BY <2>1, EncodeRecordBytes
<1>2. RecordPieces(rs) = [i \in 1..n |-> EncodeRecord(rs[i])]
  BY DEF RecordPieces, IsRecords
<1> QED BY <1>1, <1>2

\* One record more.
LEMMA RecordsAppend ==
    ASSUME NEW n \in Nat, NEW rs, IsRecords(rs, n), NEW r, GoodRecord(r), IsNew(r, rs, n)
    PROVE  /\ IsRecords(Append(rs, r), n + 1)
           /\ RecordsBytes(rs) \in ByteStrings
           /\ EncodeRecord(r) \in ByteStrings
           /\ RecordsBytes(Append(rs, r)) = RecordsBytes(rs) \o EncodeRecord(r)
<1> DEFINE us == Append(rs, r)
           w == EncodeRecord(r)
<1>2. r \in CredentialRecords /\ w \in ByteStrings
  BY EncodeRecordBytes DEF GoodRecord
<1>3. /\ us \in Seq(CredentialRecords) /\ Len(us) = n + 1 /\ us[n + 1] = r
      /\ \A i \in 1..n : us[i] = rs[i]
  BY <1>2, AppendProperties DEF IsRecords
<1> HIDE DEF us, w
<1>4. IsRecords(us, n + 1)
  <2>1. ASSUME NEW i \in 1..(n + 1) PROVE GoodRecord(us[i]) /\ IsNew(us[i], us, i - 1)
    <3>1. \A j \in 1..(i - 1) : j \in 1..n /\ us[j] = rs[j]
      BY <1>3
    <3>2. CASE i = n + 1
      <4>1. i - 1 = n
        BY <3>2
      <4>2. IsNew(r, us, n)
        BY <1>3 DEF IsNew
      <4> QED BY <1>3, <3>2, <4>1, <4>2
    <3>3. CASE i # n + 1
      <4>1. i \in 1..n
        BY <3>3
      <4>2. GoodRecord(rs[i]) /\ IsNew(rs[i], rs, i - 1)
        BY <4>1 DEF IsRecords
      <4>3. us[i] = rs[i]
        BY <1>3, <4>1
      <4>4. IsNew(us[i], us, i - 1)
        BY <3>1, <4>2, <4>3 DEF IsNew
      <4> QED BY <4>2, <4>3, <4>4
    <3> QED BY <3>2, <3>3
  <2> QED BY <1>3, <2>1 DEF IsRecords
<1>5. /\ RecordPieces(rs) \in Seq(ByteStrings) /\ Len(RecordPieces(rs)) = n
      /\ \A i \in 1..n : RecordPieces(rs)[i] = EncodeRecord(rs[i])
  BY RecordPiecesAre
<1>6. RecordPieces(us) = Append(RecordPieces(rs), w)
  <2> DEFINE p == RecordPieces(us)
             q == Append(RecordPieces(rs), w)
  <2>1. /\ q \in Seq(ByteStrings) /\ Len(q) = n + 1 /\ q[n + 1] = w
        /\ \A i \in 1..n : q[i] = RecordPieces(rs)[i]
    BY <1>2, <1>5, AppendProperties
  <2>2. p = [i \in 1..(n + 1) |-> EncodeRecord(us[i])]
    BY <1>3 DEF RecordPieces
  <2> HIDE DEF p, q
  <2>4. ASSUME NEW i \in 1..(n + 1) PROVE p[i] = q[i]
    <3>1. p[i] = EncodeRecord(us[i])
      BY <2>2
    <3>2. CASE i = n + 1
      BY <1>3, <2>1, <3>1, <3>2 DEF w
    <3>3. CASE i # n + 1
      <4>1. i \in 1..n
        BY <3>3
      <4> QED BY <1>3, <1>5, <2>1, <3>1, <4>1
    <3> QED BY <3>2, <3>3
  <2>5. q = [i \in 1..(n + 1) |-> q[i]]
    BY <2>1, LenProperties
  <2>6. p = q
    BY <2>2, <2>4, <2>5
  <2> QED BY <2>6 DEF p, q
<1>7. RecordsBytes(rs) \in ByteStrings /\ RecordsBytes(us) = RecordsBytes(rs) \o w
  BY <1>2, <1>5, <1>6, FlattenAppend DEF RecordsBytes
<1> QED BY <1>2, <1>4, <1>7 DEF us, w

\* The last of some records.
LEMMA RecordsSplit ==
    ASSUME NEW m \in Nat, m # 0, NEW us, IsRecords(us, m)
    PROVE  \E rs : \E r : /\ IsRecords(rs, m - 1) /\ GoodRecord(r) /\ IsNew(r, rs, m - 1)
                          /\ us = Append(rs, r)
<1> DEFINE n == m - 1
<1>0. n \in Nat /\ m = n + 1
  OBVIOUS
<1> HIDE DEF n
<1>1. us \in Seq(CredentialRecords) /\ us # <<>> /\ Len(us) = n + 1
  BY <1>0 DEF IsRecords
<1>2. PICK rs \in Seq(CredentialRecords), r \in CredentialRecords : us = Append(rs, r)
  BY <1>1, SequenceEmptyOrAppend
<1>3. /\ Len(rs) = n /\ us[n + 1] = r
      /\ \A i \in 1..n : us[i] = rs[i]
  BY <1>0, <1>1, <1>2, AppendProperties, LenProperties
<1>4. GoodRecord(r) /\ IsNew(r, rs, n)
  <2>1. n + 1 \in 1..(n + 1) /\ (n + 1) - 1 = n
    BY <1>0
  <2>2. GoodRecord(us[n + 1]) /\ IsNew(us[n + 1], us, n)
    BY <1>0, <2>1 DEF IsRecords
  <2> QED BY <1>3, <2>2 DEF IsNew
<1>5. IsRecords(rs, n)
  <2>1. ASSUME NEW i \in 1..n PROVE GoodRecord(rs[i]) /\ IsNew(rs[i], rs, i - 1)
    <3>1. i \in 1..(n + 1) /\ rs[i] = us[i]
      BY <1>0, <1>3
    <3>2. GoodRecord(us[i]) /\ IsNew(us[i], us, i - 1)
      BY <1>0, <3>1 DEF IsRecords
    <3>3. \A j \in 1..(i - 1) : us[j] = rs[j]
      BY <1>0, <1>3
    <3> QED BY <3>1, <3>2, <3>3 DEF IsNew
  <2> QED BY <1>2, <1>3, <2>1 DEF IsRecords
<1>6. n = m - 1
  BY <1>0
<1> QED BY <1>0, <1>2, <1>4, <1>5, <1>6

\* The bytes of records are bytes.
LEMMA RecordsAreBytes ==
    ASSUME NEW n \in Nat, NEW rs, IsRecords(rs, n) PROVE RecordsBytes(rs) \in ByteStrings
<1>1. RecordPieces(rs) \in Seq(ByteStrings)
  BY RecordPiecesAre
<1>2. <<>> \in ByteStrings
  BY EmptySeq DEF ByteStrings
<1> QED BY <1>1, <1>2, FlattenAppend DEF RecordsBytes

\* What ReadRecords reads: good records, if their bytes stand there.
LEMMA ReadRecordsReads ==
    ASSUME NEW b \in ByteStrings, NEW at \in 0..Len(b), NEW m \in Nat
    PROVE  \A r : r \in ReadRecords(b, at, m) <=>
              \E rs : IsRecords(rs, m) /\ IsRead(r, b, at, rs, RecordsBytes(rs))
<1>1. PICK f : IsRecordChain(f, b, at, m) /\ ReadRecords(b, at, m) = f[m]
  BY ReadRecordsMeans
<1> DEFINE Reads(n) ==
             \A r : r \in f[n] <=>
                \E rs : IsRecords(rs, n) /\ IsRead(r, b, at, rs, RecordsBytes(rs))
           S == {n \in Nat : n <= m => Reads(n)}
<1>2. Len(b) \in Nat /\ at \in Nat
  BY LenProperties DEF ByteStrings
<1>3. 0 \in S
  <2>1. f[0] = {[at |-> at, value |-> <<>>]}
    BY <1>1, RecordChainStart
  <2>2. \A r : IsRead(r, b, at, <<>>, <<>>) <=> r = [at |-> at, value |-> <<>>]
    <3>1. IsAt(b, at, <<>>) /\ Len(<<>>) = 0 /\ at + 0 = at
      BY <1>2 DEF IsAt
    <3> QED BY <3>1 DEF IsRead
  <2>3. Reads(0)
    <3> DEFINE zero == 0
    <3>0. zero = 0
      OBVIOUS
    <3> HIDE DEF zero
    <3>1. ASSUME NEW r
          PROVE  r \in f[0] <=> \E rs : IsRecords(rs, zero) /\ IsRead(r, b, at, rs, RecordsBytes(rs))
      <4>1. r \in f[0] <=> IsRead(r, b, at, <<>>, <<>>)
        BY <2>1, <2>2
      <4>2. IsRecords(<<>>, zero) /\ RecordsBytes(<<>>) = <<>>
        BY <3>0, RecordsEmpty, RecordsBytesEmpty
      <4>3. ASSUME NEW rs, IsRecords(rs, zero) PROVE rs = <<>>
        BY <3>0, <4>3, RecordsEmpty
      <4> QED BY <4>1, <4>2, <4>3
    <3> QED BY <3>0, <3>1
  <2> HIDE DEF Reads
  <2> QED BY <2>3
<1>4. ASSUME NEW n \in Nat, n \in S PROVE n + 1 \in S
  <2> SUFFICES ASSUME n + 1 <= m PROVE Reads(n + 1)
    <3> HIDE DEF Reads
    <3> QED OBVIOUS
  <2>1. n + 1 \in 1..m /\ (n + 1) - 1 = n /\ n <= m
    OBVIOUS
  <2>2. Reads(n)
    BY <1>4, <2>1
  <2>5. \A r : r \in f[n + 1] <=> IsNextRecord(r, f[n], b, n)
    <3> DEFINE k == n + 1
    <3>1. k \in 1..m /\ k - 1 = n
      BY <2>1
    <3> HIDE DEF k
    <3>2. ASSUME NEW r PROVE r \in f[k] <=> IsNextRecord(r, f[k - 1], b, k - 1)
      BY <1>1, <3>1, RecordChainStep
    <3> QED BY <3>1, <3>2 DEF k
  <2>6. ASSUME NEW r, r \in f[n + 1]
        PROVE  \E us : IsRecords(us, n + 1) /\ IsRead(r, b, at, us, RecordsBytes(us))
    <3>1. PICK y \in f[n] : \E z \in ReadRecord(b, y.at) : IsNew(z.value, y.value, n) /\ r = Joined(y, z)
      BY <2>5, <2>6 DEF IsNextRecord
    <3>2. PICK z \in ReadRecord(b, y.at) : IsNew(z.value, y.value, n) /\ r = Joined(y, z)
      BY <3>1
    <3>3. PICK rs : IsRecords(rs, n) /\ IsRead(y, b, at, rs, RecordsBytes(rs))
      BY <2>2, <3>1
    <3> DEFINE u == RecordsBytes(rs)
    <3>4. u \in ByteStrings
      BY <3>3, RecordsAreBytes
    <3>5. y.at \in 0..Len(b) /\ y = [at |-> at + Len(u), value |-> rs] /\ IsAt(b, at, u)
      <4>1. y = [at |-> at + Len(u), value |-> rs] /\ IsAt(b, at, u)
        BY <3>3 DEF IsRead
      <4>2. Len(u) \in Nat
        BY <3>4, LenProperties DEF ByteStrings
      <4> HIDE DEF u
      <4>3. y.at = at + Len(u)
        BY <4>1
      <4> QED BY <1>2, <4>1, <4>2, <4>3 DEF IsAt
    <3>6. PICK v : GoodRecord(v) /\ IsRead(z, b, y.at, v, EncodeRecord(v))
      BY <3>2, <3>5, ReadRecordMeans
    <3> DEFINE w == EncodeRecord(v)
               us == Append(rs, v)
    <3>8. z = [at |-> y.at + Len(w), value |-> v] /\ IsAt(b, y.at, w)
      BY <3>6 DEF IsRead
    <3>10. z.at = y.at + Len(w) /\ z.value = v /\ y.value = rs
      <4> HIDE DEF u, w
      <4> QED BY <3>5, <3>8
    <3>7. IsRecords(us, n + 1) /\ w \in ByteStrings /\ RecordsBytes(us) = u \o w
      <4>1. IsNew(v, rs, n)
        BY <3>2, <3>10
      <4> QED BY <3>3, <3>6, <4>1, RecordsAppend
    <3> HIDE DEF u, w, us
    <3>9. r = [at |-> at + Len(u \o w), value |-> us] /\ IsAt(b, at, u \o w)
      <4>1. Len(u) \in Nat /\ Len(w) \in Nat /\ Len(u \o w) = Len(u) + Len(w)
        BY <3>4, <3>7, LenProperties, ConcatProperties DEF ByteStrings
      <4>2. y.at = at + Len(u)
        BY <3>5
      <4>3. r = [at |-> y.at + Len(w), value |-> us]
        <5>2. z = [at |-> z.at, value |-> z.value]
          BY <3>8, <3>10
        <5>3. Joined(y, z) = [at |-> z.at, value |-> Append(y.value, z.value)]
          BY <5>2, JoinedIs
        <5> QED BY <3>2, <3>10, <5>3 DEF us
      <4>4. y.at + Len(w) = at + Len(u \o w)
        BY <1>2, <4>1, <4>2
      <4>5. IsAt(b, at, u \o w)
        BY <1>2, <3>4, <3>5, <3>7, <3>8, <4>2, AtConcat DEF ByteStrings
      <4> QED BY <4>3, <4>4, <4>5
    <3> QED BY <3>7, <3>9 DEF IsRead
  <2>7. ASSUME NEW r, NEW us, IsRecords(us, n + 1), IsRead(r, b, at, us, RecordsBytes(us))
        PROVE  r \in f[n + 1]
    <3>1. PICK rs : \E v : IsRecords(rs, n) /\ GoodRecord(v) /\ IsNew(v, rs, n) /\ us = Append(rs, v)
      <4>1. n + 1 \in Nat /\ n + 1 # 0 /\ (n + 1) - 1 = n
        OBVIOUS
      <4>2. \E p : \E q : /\ IsRecords(p, (n + 1) - 1) /\ GoodRecord(q)
                          /\ IsNew(q, p, (n + 1) - 1) /\ us = Append(p, q)
        BY <2>7, <4>1, RecordsSplit
      <4> QED BY <4>1, <4>2
    <3>2. PICK v : IsRecords(rs, n) /\ GoodRecord(v) /\ IsNew(v, rs, n) /\ us = Append(rs, v)
      BY <3>1
    <3> DEFINE u == RecordsBytes(rs)
               w == EncodeRecord(v)
               y == [at |-> at + Len(u), value |-> rs]
               z == [at |-> y.at + Len(w), value |-> v]
    <3>3. u \in ByteStrings /\ w \in ByteStrings /\ RecordsBytes(us) = u \o w
      BY <3>2, RecordsAppend
    <3>4. r = [at |-> at + Len(u \o w), value |-> Append(rs, v)] /\ IsAt(b, at, u \o w)
      BY <2>7, <3>2, <3>3 DEF IsRead
    <3>5. y = [at |-> at + Len(u), value |-> rs] /\ z = [at |-> y.at + Len(w), value |-> v]
      OBVIOUS
    <3> HIDE DEF u, w, y, z
    <3>10. z.at = y.at + Len(w) /\ z.value = v /\ y.value = rs
      BY <3>5
    <3>6. /\ r = Joined(y, z)
          /\ IsAt(b, at, u) /\ IsAt(b, y.at, w) /\ y.at \in 0..Len(b)
      <4>1. Len(u) \in Nat /\ Len(w) \in Nat /\ Len(u \o w) = Len(u) + Len(w)
        BY <3>3, LenProperties, ConcatProperties DEF ByteStrings
      <4>2. y.at = at + Len(u) /\ y.at + Len(w) = at + Len(u \o w)
        BY <1>2, <3>5, <4>1
      <4>3. Joined(y, z) = [at |-> y.at + Len(w), value |-> Append(rs, v)]
        <5>2. z = [at |-> z.at, value |-> z.value]
          BY <3>5, <3>10
        <5>3. Joined(y, z) = [at |-> z.at, value |-> Append(y.value, z.value)]
          BY <5>2, JoinedIs
        <5> QED BY <3>10, <5>3
      <4>4. IsAt(b, at, u) /\ IsAt(b, at + Len(u), w)
        BY <1>2, <3>3, <3>4, AtConcat DEF ByteStrings
      <4>5. y.at \in 0..Len(b)
        BY <1>2, <4>1, <4>2, <4>4 DEF IsAt
      <4> QED BY <3>4, <4>2, <4>3, <4>4, <4>5
    <3>7. y \in f[n]
      <4>1. IsRead(y, b, at, rs, RecordsBytes(rs))
        BY <3>5, <3>6 DEF IsRead, u
      <4> QED BY <2>2, <3>2, <4>1
    <3>8. z \in ReadRecord(b, y.at)
      <4>1. IsRead(z, b, y.at, v, EncodeRecord(v))
        BY <3>5, <3>6 DEF IsRead, w
      <4> QED BY <3>2, <3>6, <4>1, ReadRecordMeans
    <3>9. IsNew(z.value, y.value, n)
      BY <3>2, <3>10
    <3> QED BY <2>5, <3>6, <3>7, <3>8, <3>9 DEF IsNextRecord
  <2> QED BY <2>6, <2>7
<1> HIDE DEF S
<1>5. m \in S
  BY <1>3, <1>4, SetInduction
<1>6. Reads(m)
  BY <1>5 DEF S
<1> QED BY <1>1, <1>6

\* ReadRecords has at most one result.
LEMMA ReadRecordsOnce ==
    ASSUME NEW b, NEW at, NEW m \in Nat,
           NEW x \in ReadRecords(b, at, m), NEW y \in ReadRecords(b, at, m)
    PROVE  x = y
<1>1. PICK f : IsRecordChain(f, b, at, m) /\ ReadRecords(b, at, m) = f[m]
  BY ReadRecordsMeans
<1> DEFINE S == {n \in Nat : n <= m => \A p, q \in f[n] : p = q}
<1>2. 0 \in S
  <2>1. f[0] = {[at |-> at, value |-> <<>>]}
    BY <1>1, RecordChainStart
  <2> QED BY <2>1
<1>3. ASSUME NEW n \in Nat, n \in S PROVE n + 1 \in S
  <2> SUFFICES ASSUME n + 1 <= m, NEW p \in f[n + 1], NEW q \in f[n + 1] PROVE p = q
    OBVIOUS
  <2> DEFINE k == n + 1
  <2>1. k \in 1..m /\ k - 1 = n /\ n <= m
    OBVIOUS
  <2>2. p \in f[k] /\ q \in f[k]
    OBVIOUS
  <2>3. \A c, d \in f[n] : c = d
    BY <1>3, <2>1
  <2> HIDE DEF k, S
  <2>4. IsNextRecord(p, f[k - 1], b, k - 1)
    BY <1>1, <2>1, <2>2, RecordChainStep
  <2>5. IsNextRecord(q, f[k - 1], b, k - 1)
    BY <1>1, <2>1, <2>2, RecordChainStep
  <2>6. PICK c \in f[n] : \E z \in ReadRecord(b, c.at) : p = Joined(c, z)
    BY <2>1, <2>4 DEF IsNextRecord
  <2>7. PICK d \in f[n] : \E z \in ReadRecord(b, d.at) : q = Joined(d, z)
    BY <2>1, <2>5 DEF IsNextRecord
  <2>8. c = d
    BY <2>3
  <2>9. PICK z \in ReadRecord(b, c.at) : p = Joined(c, z)
    BY <2>6
  <2>10. PICK e \in ReadRecord(b, c.at) : q = Joined(c, e)
    BY <2>7, <2>8
  <2>11. z = e
    BY ReadRecordOnce
  <2> QED BY <2>9, <2>10, <2>11
<1> HIDE DEF S
<1>4. m \in S
  BY <1>2, <1>3, SetInduction
<1>5. \A p, q \in f[m] : p = q
  BY <1>4 DEF S
<1> QED BY <1>1, <1>5

-----------------------------------------------------------------------------
(* The other parts of a plaintext                                          *)

\* The first fields of some values.
LEMMA BytesFirst ==
    ASSUME NEW kinds, NEW n \in Nat, n # 0, \A i \in 1..n : kinds[i] \in Fields,
           NEW vs, IsValues(vs, kinds, n)
    PROVE  Bytes(kinds, Prefix(vs, 1)) = Writes(kinds[1], vs[1])
<1> DEFINE one == 1
           zero == one - 1
<1>1. one \in 1..n /\ zero = 0
  OBVIOUS
<1>2. kinds[one] \in Fields /\ vs[one] \in Values(kinds[one])
  BY <1>1 DEF IsValues
<1> HIDE DEF one
<1>3. Bytes(kinds, Prefix(vs, one)) = Bytes(kinds, Prefix(vs, zero)) \o Writes(kinds[one], vs[one])
  BY <1>1, BytesPrefix
<1> HIDE DEF zero
<1>4. Bytes(kinds, Prefix(vs, zero)) = <<>>
  BY <1>1, PrefixNone, BytesEmpty
<1>5. Writes(kinds[one], vs[one]) \in Seq(Byte)
  BY <1>2, FieldBytes
<1>6. Bytes(kinds, Prefix(vs, one)) = Writes(kinds[one], vs[one])
  BY <1>3, <1>4, <1>5, ConcatEmptySeq
<1> QED BY <1>6 DEF one

\* The bytes of two fields.
LEMMA BytesOfTwo ==
    ASSUME NEW kinds, kinds[1] \in Fields, kinds[2] \in Fields, NEW vs, IsValues(vs, kinds, 2)
    PROVE  Bytes(kinds, vs) = Writes(kinds[1], vs[1]) \o Writes(kinds[2], vs[2])
<1> DEFINE two == 2
           one == 1
<1>1. /\ two \in Nat /\ two \in 1..two /\ two - 1 = one /\ two # 0 /\ IsValues(vs, kinds, two)
      /\ \A i \in 1..two : kinds[i] \in Fields
  OBVIOUS
<1>2. Bytes(kinds, Prefix(vs, one)) = Writes(kinds[one], vs[one])
  BY <1>1, BytesFirst
<1> HIDE DEF one, two
<1>3. Bytes(kinds, Prefix(vs, two)) = Bytes(kinds, Prefix(vs, two - 1)) \o Writes(kinds[two], vs[two])
  BY <1>1, BytesPrefix
<1>4. Prefix(vs, two) = vs
  BY <1>1, PrefixWhole
<1>5. Bytes(kinds, vs) = Writes(kinds[one], vs[one]) \o Writes(kinds[two], vs[two])
  BY <1>1, <1>2, <1>3, <1>4
<1> QED BY <1>5 DEF one, two

\* The bytes of three fields.
LEMMA BytesOfThree ==
    ASSUME NEW kinds, kinds[1] \in Fields, kinds[2] \in Fields, kinds[3] \in Fields,
           NEW vs, IsValues(vs, kinds, 3)
    PROVE  Bytes(kinds, vs)
              = Writes(kinds[1], vs[1]) \o Writes(kinds[2], vs[2]) \o Writes(kinds[3], vs[3])
<1> DEFINE three == 3
           two == 2
           one == 1
<1>1. /\ three \in Nat /\ two \in 1..three /\ three \in 1..three /\ two - 1 = one
      /\ three - 1 = two /\ three # 0 /\ IsValues(vs, kinds, three)
      /\ \A i \in 1..three : kinds[i] \in Fields
  OBVIOUS
<1>2. Bytes(kinds, Prefix(vs, one)) = Writes(kinds[one], vs[one])
  BY <1>1, BytesFirst
<1> HIDE DEF one, two, three
<1>3. Bytes(kinds, Prefix(vs, two)) = Bytes(kinds, Prefix(vs, two - 1)) \o Writes(kinds[two], vs[two])
  BY <1>1, BytesPrefix
<1>4. Bytes(kinds, Prefix(vs, three))
         = Bytes(kinds, Prefix(vs, three - 1)) \o Writes(kinds[three], vs[three])
  BY <1>1, BytesPrefix
<1>5. Prefix(vs, three) = vs
  BY <1>1, PrefixWhole
<1>6. Bytes(kinds, vs) = Writes(kinds[one], vs[one]) \o Writes(kinds[two], vs[two])
                            \o Writes(kinds[three], vs[three])
  BY <1>1, <1>2, <1>3, <1>4, <1>5
<1> QED BY <1>6 DEF one, two, three

PrefixKinds == <<"u8", "u16", "u16">>
PrefixBytes(format, n) == <<format>> \o U16(format) \o U16(n)

\* The kinds of the magic, the version and the count.
LEMMA PrefixKindsAre ==
    /\ Len(PrefixKinds) = 3 /\ PrefixKinds[1] = "u8"
    /\ PrefixKinds[2] = "u16" /\ PrefixKinds[3] = "u16"
    /\ \A i \in 1..3 : PrefixKinds[i] \in Fields
<1>1. /\ Len(PrefixKinds) = 3 /\ PrefixKinds[1] = "u8"
      /\ PrefixKinds[2] = "u16" /\ PrefixKinds[3] = "u16"
  BY DEF PrefixKinds
<1>2. \A i \in 1..3 : i = 1 \/ i = 2 \/ i = 3
  OBVIOUS
<1> QED BY <1>1, <1>2 DEF Fields

\* A format number fits one byte.
LEMMA FormatsAre == \A f \in kFormats : f \in Byte /\ f \in Word
BY DEF kFormats, Byte, Word

\* What ReadPrefix reads: a format, twice, and a count within the limit.
LEMMA ReadPrefixMeans ==
    ASSUME NEW b \in ByteStrings, NEW x
    PROVE  x \in ReadPrefix(b) <=>
              \E f \in kFormats : \E n \in Word :
                 n <= kMaxCredentials /\ IsRead(x, b, 0, <<f, f, n>>, PrefixBytes(f, n))
<1> DEFINE Good(y) == \E vs : /\ IsValues(vs, PrefixKinds, 3)
                              /\ IsRead(y, b, 0, vs, Bytes(PrefixKinds, vs))
<1>1. x \in ReadAll(b, 0, PrefixKinds) <=> Good(x)
  <2> DEFINE zero == 0
  <2>1. zero \in 0..Len(b)
    BY LenProperties DEF ByteStrings
  <2>2. Len(PrefixKinds) \in Nat /\ \A i \in 1..Len(PrefixKinds) : PrefixKinds[i] \in Fields
    BY PrefixKindsAre
  <2> HIDE DEF zero
  <2>3. x \in ReadAll(b, zero, PrefixKinds) <=>
           \E vs : /\ IsValues(vs, PrefixKinds, Len(PrefixKinds))
                   /\ IsRead(x, b, zero, vs, Bytes(PrefixKinds, vs))
    BY <2>1, <2>2, ReadAllReads
  <2> QED BY <2>3, PrefixKindsAre DEF zero
<1>2. x \in ReadPrefix(b) <=> /\ x \in ReadAll(b, 0, PrefixKinds)
                              /\ x.value[1] \in kFormats /\ x.value[2] = x.value[1]
                              /\ x.value[3] <= kMaxCredentials
  BY Zenon DEF ReadPrefix, PrefixKinds
<1>3. ASSUME NEW vs, IsValues(vs, PrefixKinds, 3)
      PROVE  /\ vs[1] \in Byte /\ vs[2] \in Word /\ vs[3] \in Word
             /\ vs = <<vs[1], vs[2], vs[3]>>
             /\ Bytes(PrefixKinds, vs) = <<vs[1]>> \o U16(vs[2]) \o U16(vs[3])
  <2>1. vs[1] \in Values(PrefixKinds[1]) /\ vs[2] \in Values(PrefixKinds[2])
        /\ vs[3] \in Values(PrefixKinds[3])
    BY <1>3 DEF IsValues
  <2>2. vs[1] \in Byte /\ vs[2] \in Word /\ vs[3] \in Word
    BY <2>1, PrefixKindsAre, KindTables
  <2>3. vs = <<vs[1], vs[2], vs[3]>>
    BY <1>3 DEF IsValues
  <2>4. Bytes(PrefixKinds, vs) = Writes(PrefixKinds[1], vs[1]) \o Writes(PrefixKinds[2], vs[2])
                                    \o Writes(PrefixKinds[3], vs[3])
    <3>1. PrefixKinds[1] \in Fields /\ PrefixKinds[2] \in Fields /\ PrefixKinds[3] \in Fields
      BY PrefixKindsAre DEF Fields
    <3> QED BY <1>3, <3>1, BytesOfThree
  <2> QED BY <2>2, <2>3, <2>4, PrefixKindsAre, KindTables
<1>4. ASSUME x \in ReadPrefix(b)
      PROVE  \E f \in kFormats : \E n \in Word :
                n <= kMaxCredentials /\ IsRead(x, b, 0, <<f, f, n>>, PrefixBytes(f, n))
  <2>1. PICK vs : IsValues(vs, PrefixKinds, 3) /\ IsRead(x, b, 0, vs, Bytes(PrefixKinds, vs))
    BY <1>1, <1>2, <1>4
  <2>2. x.value = vs
    BY <2>1 DEF IsRead
  <2> DEFINE f == vs[1]
             n == vs[3]
  <2>3. f \in kFormats /\ vs[2] = f /\ n \in Word /\ n <= kMaxCredentials
    BY <1>2, <1>3, <1>4, <2>1, <2>2
  <2>4. vs = <<f, f, n>> /\ Bytes(PrefixKinds, vs) = PrefixBytes(f, n)
    BY <1>3, <2>1, <2>3 DEF PrefixBytes
  <2>5. IsRead(x, b, 0, <<f, f, n>>, PrefixBytes(f, n))
    BY <2>1, <2>4
  <2> QED BY <2>3, <2>5
<1>5. ASSUME NEW f \in kFormats, NEW n \in Word, n <= kMaxCredentials,
             IsRead(x, b, 0, <<f, f, n>>, PrefixBytes(f, n))
      PROVE  x \in ReadPrefix(b)
  <2> DEFINE vs == <<f, f, n>>
  <2>1. f \in Byte /\ f \in Word
    BY FormatsAre
  <2>2. vs \in Seq(AnyValue) /\ Len(vs) = 3 /\ vs[1] = f /\ vs[2] = f /\ vs[3] = n
    BY <2>1 DEF AnyValue
  <2>3. x.value = vs
    BY <1>5 DEF IsRead
  <2> HIDE DEF vs
  <2>4. IsValues(vs, PrefixKinds, 3)
    <3>1. ASSUME NEW i \in 1..3 PROVE vs[i] \in Values(PrefixKinds[i])
      <4>1. i = 1 \/ i = 2 \/ i = 3
        OBVIOUS
      <4> QED BY <2>1, <2>2, <4>1, PrefixKindsAre, KindTables
    <3> QED BY <2>2, <3>1 DEF IsValues
  <2>5. Bytes(PrefixKinds, vs) = PrefixBytes(f, n)
    BY <1>3, <2>2, <2>4 DEF PrefixBytes
  <2>6. IsRead(x, b, 0, vs, Bytes(PrefixKinds, vs))
    BY <1>5, <2>5 DEF vs
  <2> QED BY <1>1, <1>2, <1>5, <2>2, <2>3, <2>4, <2>6
<1> QED BY <1>4, <1>5

\* It has at most one result.
LEMMA ReadPrefixOnce ==
    ASSUME NEW b, NEW x \in ReadPrefix(b), NEW y \in ReadPrefix(b) PROVE x = y
<1> DEFINE zero == 0
<1>1. Len(PrefixKinds) \in Nat /\ \A i \in 1..Len(PrefixKinds) : PrefixKinds[i] \in Fields
  BY PrefixKindsAre
<1>2. x \in ReadAll(b, zero, PrefixKinds) /\ y \in ReadAll(b, zero, PrefixKinds)
  BY DEF ReadPrefix, PrefixKinds
<1> HIDE DEF zero
<1> QED BY <1>1, <1>2, ReadAllOnce

\* The prefix is bytes.
LEMMA PrefixIsBytes ==
    ASSUME NEW f \in kFormats, NEW n \in Word
    PROVE  PrefixBytes(f, n) \in ByteStrings
<1>1. <<f>> \in Seq(Byte)
  BY FormatsAre, Bytes1
<1>2. U16(f) \in Seq(Byte) /\ U16(n) \in Seq(Byte)
  BY FormatsAre, U16Bytes
<1>3. <<f>> \o U16(f) \in Seq(Byte)
  BY <1>1, <1>2, ConcatProperties
<1>4. (<<f>> \o U16(f)) \o U16(n) \in Seq(Byte)
  BY <1>2, <1>3, ConcatProperties
<1> QED BY <1>4 DEF PrefixBytes, ByteStrings

\* The network settings: a presence byte and, if it is one, two texts.
TextKinds == <<"text", "text">>
GoodWifi(w) == w \in WifiSettings /\ ValidText(w.ssid) /\ ValidText(w.password)
IsWifi(ws) ==
    /\ ws \in Seq(WifiSettings) /\ Len(ws) <= 1
    /\ \A i \in 1..Len(ws) : GoodWifi(ws[i])
WifiBytes(ws) == <<Len(ws)>> \o FlattenSeq([i \in 1..Len(ws) |-> EncodeWifi(ws[i])])

\* A single byte string is flattened to itself.
LEMMA FlattenOne == ASSUME NEW w \in ByteStrings PROVE FlattenSeq(<<w>>) = w
<1>1. <<>> \in Seq(ByteStrings) /\ Len(<<>>) = 0 /\ <<w>> = Append(<<>>, w)
  OBVIOUS
<1>2. FlattenSeq(<<>>) = <<>>
  BY <1>1, FlattenMeans
<1>3. FlattenSeq(Append(<<>>, w)) = FlattenSeq(<<>>) \o w
  BY <1>1, FlattenAppend
<1>4. <<>> \o w = w
  BY ConcatEmptySeq DEF ByteStrings
<1> QED BY <1>1, <1>2, <1>3, <1>4

\* A valid text with its length is bytes.
LEMMA TextBytesAre ==
    ASSUME NEW s \in Seq(Byte), ValidText(s) PROVE Sized(s) \in Seq(Byte)
<1>1. Len(s) \in Word
  BY Limits, LenProperties DEF Word, ValidText
<1> QED BY <1>1, SizedBytes

\* Network settings are encoded as bytes.
LEMMA EncodeWifiBytes == ASSUME NEW w, GoodWifi(w) PROVE EncodeWifi(w) \in ByteStrings
<1>1. w.ssid \in Seq(Byte) /\ w.password \in Seq(Byte)
  BY DEF GoodWifi, WifiSettings
<1>2. Sized(w.ssid) \in Seq(Byte) /\ Sized(w.password) \in Seq(Byte)
  BY <1>1, TextBytesAre DEF GoodWifi
<1> QED BY <1>2, ConcatProperties DEF EncodeWifi, ByteStrings

\* There are none, or one.
LEMMA WifiCases ==
    ASSUME NEW ws
    PROVE  IsWifi(ws) <=> ws = <<>> \/ \E w : GoodWifi(w) /\ ws = <<w>>
<1>1. ASSUME IsWifi(ws) PROVE ws = <<>> \/ \E w : GoodWifi(w) /\ ws = <<w>>
  <2>1. ws \in Seq(WifiSettings) /\ Len(ws) \in Nat /\ Len(ws) <= 1
    BY <1>1, LenProperties DEF IsWifi
  <2>2. CASE Len(ws) = 0
    BY <2>1, <2>2, EmptySeq
  <2>3. CASE Len(ws) = 1
    <3>1. ws = <<ws[1]>>
      BY <2>1, <2>3
    <3>2. GoodWifi(ws[1])
      BY <1>1, <2>3 DEF IsWifi
    <3> QED BY <3>1, <3>2
  <2>4. Len(ws) = 0 \/ Len(ws) = 1
    <3> DEFINE n == Len(ws)
    <3>1. n \in Nat /\ n <= 1
      BY <2>1
    <3> HIDE DEF n
    <3>2. n = 0 \/ n = 1
      BY <3>1
    <3> QED BY <3>2 DEF n
  <2> QED BY <2>2, <2>3, <2>4
<1>2. ASSUME ws = <<>> PROVE IsWifi(ws)
  <2>1. ws \in Seq(WifiSettings) /\ Len(ws) = 0
    BY <1>2
  <2> QED BY <2>1 DEF IsWifi
<1>3. ASSUME NEW w, GoodWifi(w), ws = <<w>> PROVE IsWifi(ws)
  <2>1. w \in WifiSettings
    BY <1>3 DEF GoodWifi
  <2>2. ws \in Seq(WifiSettings) /\ Len(ws) = 1 /\ ws[1] = w
    BY <1>3, <2>1
  <2> QED BY <1>3, <2>2 DEF IsWifi
<1> QED BY <1>1, <1>2, <1>3

\* Absent settings are a zero.
LEMMA NoWifiBytes == WifiBytes(<<>>) = <<0>>
<1>1. [i \in 1..Len(<<>>) |-> EncodeWifi(<<>>[i])] = <<>> /\ Len(<<>>) = 0
  OBVIOUS
<1>2. FlattenSeq(<<>>) = <<>>
  BY <1>1, FlattenMeans
<1>3. <<0>> \o <<>> = <<0>>
  <2>1. <<0>> \in Seq(Byte)
    BY DEF Byte
  <2> QED BY <2>1, ConcatEmptySeq
<1> QED BY <1>1, <1>2, <1>3 DEF WifiBytes

\* Present ones are a one and the settings.
LEMMA OneWifiBytes ==
    ASSUME NEW w, GoodWifi(w) PROVE WifiBytes(<<w>>) = <<1>> \o EncodeWifi(w)
<1>1. Len(<<w>>) = 1 /\ <<w>>[1] = w
  OBVIOUS
<1>2. [i \in 1..Len(<<w>>) |-> EncodeWifi(<<w>>[i])] = <<EncodeWifi(w)>>
  <2> DEFINE ws == <<w>>
             e == [i \in 1..1 |-> EncodeWifi(ws[i])]
  <2>1. \A i \in 1..1 : ws[i] = w
    OBVIOUS
  <2> HIDE DEF ws
  <2>2. e = [i \in 1..1 |-> EncodeWifi(w)]
    BY <2>1
  <2>3. [i \in 1..1 |-> EncodeWifi(w)] = <<EncodeWifi(w)>>
    OBVIOUS
  <2> QED BY <1>1, <2>2, <2>3 DEF ws
<1>3. FlattenSeq(<<EncodeWifi(w)>>) = EncodeWifi(w)
  BY EncodeWifiBytes, FlattenOne
<1> QED BY <1>1, <1>2, <1>3 DEF WifiBytes

\* Both are bytes.
LEMMA WifiIsBytes == ASSUME NEW ws, IsWifi(ws) PROVE WifiBytes(ws) \in ByteStrings
<1>1. <<0>> \in Seq(Byte) /\ <<1>> \in Seq(Byte)
  BY DEF Byte
<1>2. ASSUME NEW w, GoodWifi(w) PROVE <<1>> \o EncodeWifi(w) \in Seq(Byte)
  <2>1. EncodeWifi(w) \in Seq(Byte)
    BY <1>2, EncodeWifiBytes DEF ByteStrings
  <2> QED BY <1>1, <2>1, ConcatProperties
<1> QED BY <1>1, <1>2, WifiCases, NoWifiBytes, OneWifiBytes DEF ByteStrings

\* A presence byte.
LEMMA PresenceMeans ==
    ASSUME NEW b \in ByteStrings, NEW at \in 0..Len(b), NEW x
    PROVE  x \in ReadPresence(b, at) <=> \E v \in {0, 1} : IsRead(x, b, at, v, <<v>>)
<1>1. x \in ReadU8(b, at) <=> \E v \in Byte : IsRead(x, b, at, v, <<v>>)
  BY ReadU8Means DEF ByteStrings
<1>2. \A v : IsRead(x, b, at, v, <<v>>) => x.value = v
  BY DEF IsRead
<1>3. \A v \in Byte : v <= 1 <=> v \in {0, 1}
  BY DEF Byte
<1>4. 0 \in Byte /\ 1 \in Byte
  BY DEF Byte
<1> QED BY <1>1, <1>2, <1>3, <1>4 DEF ReadPresence

\* Two texts.
TextsRead(y, b, at) ==
    \E w : GoodWifi(w) /\ IsRead(y, b, at, <<w.ssid, w.password>>, EncodeWifi(w))

\* Two texts are read when two valid ones stand there.
LEMMA ReadTextsMeans ==
    ASSUME NEW b \in ByteStrings, NEW at \in 0..Len(b), NEW y
    PROVE  y \in ReadAll(b, at, TextKinds) <=> TextsRead(y, b, at)
<1>1. Len(TextKinds) = 2 /\ TextKinds[1] = "text" /\ TextKinds[2] = "text"
  BY DEF TextKinds
<1>2. \A i \in 1..2 : i = 1 \/ i = 2
  OBVIOUS
<1>3. Len(TextKinds) \in Nat /\ \A i \in 1..Len(TextKinds) : TextKinds[i] \in Fields
  BY <1>1, <1>2 DEF Fields
<1>4. y \in ReadAll(b, at, TextKinds) <=>
         \E vs : IsValues(vs, TextKinds, 2) /\ IsRead(y, b, at, vs, Bytes(TextKinds, vs))
  <2>1. y \in ReadAll(b, at, TextKinds) <=>
           \E vs : /\ IsValues(vs, TextKinds, Len(TextKinds))
                   /\ IsRead(y, b, at, vs, Bytes(TextKinds, vs))
    BY <1>3, ReadAllReads
  <2> QED BY <1>1, <2>1
<1>5. ASSUME NEW vs, IsValues(vs, TextKinds, 2)
      PROVE  /\ vs[1] \in Seq(Byte) /\ ValidText(vs[1])
             /\ vs[2] \in Seq(Byte) /\ ValidText(vs[2])
             /\ vs = <<vs[1], vs[2]>>
             /\ Bytes(TextKinds, vs) = Sized(vs[1]) \o Sized(vs[2])
  <2>1. vs[1] \in Values(TextKinds[1]) /\ vs[2] \in Values(TextKinds[2])
    BY <1>5 DEF IsValues
  <2>2. vs[1] \in {v \in Seq(Byte) : ValidText(v)} /\ vs[2] \in {v \in Seq(Byte) : ValidText(v)}
    BY <1>1, <2>1, KindTables
  <2>3. vs = <<vs[1], vs[2]>>
    BY <1>5 DEF IsValues
  <2>4. Bytes(TextKinds, vs) = Writes(TextKinds[1], vs[1]) \o Writes(TextKinds[2], vs[2])
    <3>1. TextKinds[1] \in Fields /\ TextKinds[2] \in Fields
      BY <1>1 DEF Fields
    <3> QED BY <1>5, <3>1, BytesOfTwo
  <2>5. Bytes(TextKinds, vs) = Sized(vs[1]) \o Sized(vs[2])
    BY <1>1, <2>4, KindTables
  <2> QED BY <2>2, <2>3, <2>5
<1>6. ASSUME NEW vs, IsValues(vs, TextKinds, 2), IsRead(y, b, at, vs, Bytes(TextKinds, vs))
      PROVE  TextsRead(y, b, at)
  <2> DEFINE w == [ssid |-> vs[1], password |-> vs[2]]
  <2>1. w.ssid = vs[1] /\ w.password = vs[2]
    OBVIOUS
  <2>2. w \in WifiSettings
    BY <1>5, <1>6 DEF WifiSettings
  <2> HIDE DEF w
  <2>3. GoodWifi(w)
    BY <1>5, <1>6, <2>1, <2>2 DEF GoodWifi
  <2>4. vs = <<w.ssid, w.password>> /\ Bytes(TextKinds, vs) = EncodeWifi(w)
    BY <1>5, <1>6, <2>1 DEF EncodeWifi
  <2> QED BY <1>6, <2>3, <2>4 DEF TextsRead
<1>7. ASSUME NEW w, GoodWifi(w), IsRead(y, b, at, <<w.ssid, w.password>>, EncodeWifi(w))
      PROVE  \E vs : IsValues(vs, TextKinds, 2) /\ IsRead(y, b, at, vs, Bytes(TextKinds, vs))
  <2> DEFINE vs == <<w.ssid, w.password>>
  <2>1. /\ w.ssid \in Seq(Byte) /\ w.password \in Seq(Byte)
        /\ ValidText(w.ssid) /\ ValidText(w.password)
    BY <1>7 DEF GoodWifi, WifiSettings
  <2>2. vs \in Seq(AnyValue) /\ Len(vs) = 2 /\ vs[1] = w.ssid /\ vs[2] = w.password
    BY <2>1 DEF AnyValue
  <2> HIDE DEF vs
  <2>3. IsValues(vs, TextKinds, 2)
    <3>1. ASSUME NEW i \in 1..2 PROVE vs[i] \in Values(TextKinds[i])
      <4>1. i = 1 \/ i = 2
        OBVIOUS
      <4> QED BY <1>1, <2>1, <2>2, <4>1, KindTables
    <3> QED BY <2>2, <3>1 DEF IsValues
  <2>4. Bytes(TextKinds, vs) = EncodeWifi(w)
    BY <1>5, <2>2, <2>3 DEF EncodeWifi
  <2>5. IsRead(y, b, at, vs, Bytes(TextKinds, vs))
    BY <1>7, <2>4 DEF vs
  <2> QED BY <2>3, <2>5
<1> QED BY <1>4, <1>6, <1>7 DEF TextsRead

\* What ReadWifi reads.
LEMMA ReadWifiMeans ==
    ASSUME NEW b \in ByteStrings, NEW at \in 0..Len(b), NEW x
    PROVE  x \in ReadWifi(b, at) <=> \E ws : IsWifi(ws) /\ IsRead(x, b, at, ws, WifiBytes(ws))
<1> DEFINE One(p) == IF p.value = 0 THEN {[p EXCEPT !.value = <<>>]}
                     ELSE {[y EXCEPT !.value = <<[ssid |-> y.value[1], password |-> y.value[2]]>>] :
                              y \in ReadAll(b, p.at, TextKinds)}
<1>0. Len(b) \in Nat /\ at \in Nat
  BY LenProperties DEF ByteStrings
<1>1. x \in ReadWifi(b, at) <=> \E p \in ReadPresence(b, at) : x \in One(p)
  <2>1. ReadWifi(b, at) = UNION {One(p) : p \in ReadPresence(b, at)}
    BY Zenon DEF ReadWifi, TextKinds
  <2> HIDE DEF One
  <2> QED BY <2>1
<1>2. ASSUME NEW p, p.value = 0, p = [at |-> p.at, value |-> p.value]
      PROVE  x \in One(p) <=> x = [at |-> p.at, value |-> <<>>]
  BY <1>2
<1>3. ASSUME NEW p, p.value # 0
      PROVE  x \in One(p) <=>
                \E y \in ReadAll(b, p.at, TextKinds) :
                   x = [y EXCEPT !.value = <<[ssid |-> y.value[1], password |-> y.value[2]]>>]
  BY <1>3
<1> HIDE DEF One
<1>4. \A v \in {0, 1} : <<v>> \in Seq(Byte) /\ Len(<<v>>) = 1
  BY DEF Byte
<1>5. ASSUME NEW p, NEW v \in {0, 1}, IsRead(p, b, at, v, <<v>>)
      PROVE  /\ p.value = v /\ p.at = at + 1 /\ p = [at |-> p.at, value |-> p.value]
             /\ p.at \in 0..Len(b)
  <2>1. IsAt(b, at, <<v>>) /\ p = [at |-> at + 1, value |-> v]
    BY <1>4, <1>5 DEF IsRead
  <2>2. at + 1 <= Len(b)
    BY <1>4, <2>1 DEF IsAt
  <2> QED BY <1>0, <2>1, <2>2
<1>6. ASSUME x \in ReadWifi(b, at)
      PROVE  \E ws : IsWifi(ws) /\ IsRead(x, b, at, ws, WifiBytes(ws))
  <2>1. PICK p \in ReadPresence(b, at) : x \in One(p)
    BY <1>1, <1>6
  <2>2. PICK v \in {0, 1} : IsRead(p, b, at, v, <<v>>)
    BY <2>1, PresenceMeans
  <2>3. p.value = v /\ p.at = at + 1 /\ p = [at |-> p.at, value |-> p.value] /\ p.at \in 0..Len(b)
    BY <1>5, <2>2
  <2>4. CASE v = 0
    <3>1. x = [at |-> at + 1, value |-> <<>>]
      BY <1>2, <2>1, <2>3, <2>4
    <3>2. IsRead(x, b, at, <<>>, <<0>>)
      BY <1>4, <2>2, <2>4, <3>1 DEF IsRead
    <3>3. IsWifi(<<>>)
      BY WifiCases
    <3> QED BY <3>2, <3>3, NoWifiBytes
  <2>5. CASE v = 1
    <3>1. PICK y \in ReadAll(b, p.at, TextKinds) :
             x = [y EXCEPT !.value = <<[ssid |-> y.value[1], password |-> y.value[2]]>>]
      BY <1>3, <2>1, <2>3, <2>5
    <3>2. TextsRead(y, b, p.at)
      BY <2>3, <3>1, ReadTextsMeans
    <3>3. PICK w : GoodWifi(w) /\ IsRead(y, b, p.at, <<w.ssid, w.password>>, EncodeWifi(w))
      BY <3>2 DEF TextsRead
    <3> DEFINE e == EncodeWifi(w)
    <3>4. e \in Seq(Byte)
      BY <3>3, EncodeWifiBytes DEF ByteStrings
    <3> HIDE DEF e
    <3>5. IsAt(b, p.at, e) /\ y = [at |-> p.at + Len(e), value |-> <<w.ssid, w.password>>]
      BY <3>3 DEF IsRead, e
    <3>6. w = [ssid |-> w.ssid, password |-> w.password]
      BY <3>3 DEF GoodWifi, WifiSettings
    <3>7. y.value[1] = w.ssid /\ y.value[2] = w.password
      BY <3>5
    <3>8. x = [at |-> p.at + Len(e), value |-> <<w>>]
      BY <3>1, <3>5, <3>6, <3>7
    <3>9. Len(<<1>> \o e) = 1 + Len(e) /\ Len(e) \in Nat
      BY <1>4, <3>4, ConcatProperties, LenProperties
    <3>10. IsAt(b, at, <<1>> \o e)
      <4>1. IsAt(b, at, <<1>>) /\ IsAt(b, at + Len(<<1>>), e)
        BY <1>4, <2>2, <2>3, <2>5, <3>5 DEF IsRead
      <4> QED BY <1>0, <1>4, <3>4, <4>1, AtConcat DEF ByteStrings
    <3>11. p.at + Len(e) = at + Len(<<1>> \o e)
      BY <1>0, <2>3, <3>9
    <3>12. IsRead(x, b, at, <<w>>, <<1>> \o e)
      BY <3>8, <3>10, <3>11 DEF IsRead
    <3>13. IsWifi(<<w>>) /\ WifiBytes(<<w>>) = <<1>> \o e
      BY <3>3, WifiCases, OneWifiBytes DEF e
    <3> QED BY <3>12, <3>13
  <2> QED BY <2>4, <2>5
<1>7. ASSUME IsRead(x, b, at, <<>>, WifiBytes(<<>>)) PROVE x \in ReadWifi(b, at)
  <2>1. IsRead(x, b, at, <<>>, <<0>>)
    BY <1>7, NoWifiBytes
  <2> DEFINE p == [at |-> at + 1, value |-> 0]
  <2>2. IsRead(p, b, at, 0, <<0>>)
    BY <1>4, <2>1 DEF IsRead
  <2>3. p.value = 0 /\ p = [at |-> p.at, value |-> p.value] /\ p.at = at + 1
    OBVIOUS
  <2> HIDE DEF p
  <2>4. p \in ReadPresence(b, at)
    BY <2>2, PresenceMeans
  <2>5. x = [at |-> at + 1, value |-> <<>>]
    BY <1>4, <2>1 DEF IsRead
  <2>6. x \in One(p)
    BY <1>2, <2>3, <2>5
  <2> QED BY <1>1, <2>4, <2>6
<1>8. ASSUME NEW w, GoodWifi(w), IsRead(x, b, at, <<w>>, WifiBytes(<<w>>))
      PROVE  x \in ReadWifi(b, at)
  <2> DEFINE e == EncodeWifi(w)
  <2>1. e \in Seq(Byte)
    BY <1>8, EncodeWifiBytes DEF ByteStrings
  <2>2. IsRead(x, b, at, <<w>>, <<1>> \o e)
    BY <1>8, OneWifiBytes
  <2> HIDE DEF e
  <2>3. Len(<<1>> \o e) = 1 + Len(e) /\ Len(e) \in Nat
    BY <1>4, <2>1, ConcatProperties, LenProperties
  <2>4. IsAt(b, at, <<1>>) /\ IsAt(b, at + Len(<<1>>), e)
    BY <1>0, <1>4, <2>1, <2>2, AtConcat DEF ByteStrings, IsRead
  <2> DEFINE p == [at |-> at + 1, value |-> 1]
             y == [at |-> at + 1 + Len(e), value |-> <<w.ssid, w.password>>]
  <2>5. IsRead(p, b, at, 1, <<1>>) /\ p.at = at + 1 /\ p.value # 0
    BY <1>4, <2>4 DEF IsRead
  <2>6. /\ y.value[1] = w.ssid /\ y.value[2] = w.password
        /\ y = [at |-> at + 1 + Len(e), value |-> <<w.ssid, w.password>>]
    OBVIOUS
  <2> HIDE DEF p, y
  <2>7. p \in ReadPresence(b, at) /\ p.at \in 0..Len(b)
    BY <1>5, <2>5, PresenceMeans
  <2>8. IsRead(y, b, p.at, <<w.ssid, w.password>>, e)
    BY <1>0, <1>4, <2>3, <2>4, <2>5, <2>6 DEF IsRead
  <2>9. y \in ReadAll(b, p.at, TextKinds)
    <3>1. TextsRead(y, b, p.at)
      BY <1>8, <2>8 DEF TextsRead, e
    <3> QED BY <2>7, <3>1, ReadTextsMeans
  <2>10. w = [ssid |-> w.ssid, password |-> w.password]
    BY <1>8 DEF GoodWifi, WifiSettings
  <2>11. x = [y EXCEPT !.value = <<[ssid |-> y.value[1], password |-> y.value[2]]>>]
    <3>1. x = [at |-> at + (1 + Len(e)), value |-> <<w>>]
      BY <2>2, <2>3 DEF IsRead
    <3>2. at + (1 + Len(e)) = at + 1 + Len(e)
      BY <1>0, <2>3
    <3> QED BY <2>6, <2>10, <3>1, <3>2
  <2>12. x \in One(p)
    BY <1>3, <2>5, <2>9, <2>11
  <2> QED BY <1>1, <2>7, <2>12
<1> QED BY <1>6, <1>7, <1>8, WifiCases

\* The days until the Device locks itself, which format 1 does not have.
IsDays(ds, format) ==
    /\ ds \in Seq(Byte) /\ Len(ds) <= 1 /\ ValidAutoLockDays(ds)
    /\ format = 1 => ds = <<>>
DaysBytes(ds, format) == IF format = 2 THEN <<Len(ds)>> \o ds ELSE <<>>

\* There is none, or one in range and the format is 2.
LEMMA DaysCases ==
    ASSUME NEW ds, NEW format \in kFormats
    PROVE  IsDays(ds, format) <=>
              ds = <<>> \/ (format = 2 /\ \E v \in kAutoLockDays : ds = <<v>>)
<1>0. \A v \in kAutoLockDays : v \in Byte
  BY DEF kAutoLockDays, Byte
<1>1. ASSUME IsDays(ds, format)
      PROVE  ds = <<>> \/ (format = 2 /\ \E v \in kAutoLockDays : ds = <<v>>)
  <2> DEFINE n == Len(ds)
  <2>1. ds \in Seq(Byte) /\ n \in Nat /\ n <= 1
    BY <1>1, LenProperties DEF IsDays
  <2>2. n = 0 \/ n = 1
    <3> HIDE DEF n
    <3> QED BY <2>1
  <2>3. CASE n = 0
    BY <2>1, <2>3, EmptySeq
  <2>4. CASE n = 1
    <3>1. ds = <<ds[1]>>
      BY <2>1, <2>4
    <3>2. ds[1] \in kAutoLockDays
      BY <1>1, <2>4 DEF IsDays, ValidAutoLockDays, kAutoLockDays
    <3>3. ds # <<>>
      BY <2>4
    <3>4. format = 2
      BY <1>1, <3>3 DEF IsDays, kFormats
    <3> QED BY <3>1, <3>2, <3>4
  <2> QED BY <2>2, <2>3, <2>4
<1>2. ASSUME ds = <<>> PROVE IsDays(ds, format)
  <2>1. ds \in Seq(Byte) /\ Len(ds) = 0
    BY <1>2
  <2> QED BY <1>2, <2>1 DEF IsDays, ValidAutoLockDays
<1>3. ASSUME format = 2, NEW v \in kAutoLockDays, ds = <<v>> PROVE IsDays(ds, format)
  <2>1. v \in Byte
    BY <1>0
  <2>2. ds \in Seq(Byte) /\ Len(ds) = 1 /\ ds[1] = v
    BY <1>3, <2>1, Bytes1
  <2>3. ValidAutoLockDays(ds)
    <3>1. \A i \in 1..Len(ds) : i = 1
      BY <2>2
    <3>2. ds[1] \in 1..31
      BY <2>2 DEF kAutoLockDays
    <3> QED BY <3>1, <3>2 DEF ValidAutoLockDays
  <2> QED BY <1>3, <2>2, <2>3 DEF IsDays
<1> QED BY <1>1, <1>2, <1>3

\* The bytes in each case.
LEMMA DaysBytesAre ==
    /\ \A ds : DaysBytes(ds, 1) = <<>>
    /\ DaysBytes(<<>>, 2) = <<0>>
    /\ \A v \in kAutoLockDays : DaysBytes(<<v>>, 2) = <<1, v>>
<1>1. \A ds : DaysBytes(ds, 1) = <<>>
  BY DEF DaysBytes
<1>2. DaysBytes(<<>>, 2) = <<0>>
  <2>1. <<0>> \in Seq(Byte) /\ Len(<<>>) = 0
    BY DEF Byte
  <2>2. <<0>> \o <<>> = <<0>>
    BY <2>1, ConcatEmptySeq
  <2> QED BY <2>1, <2>2 DEF DaysBytes
<1>3. ASSUME NEW v \in kAutoLockDays PROVE DaysBytes(<<v>>, 2) = <<1, v>>
  <2>1. 1 \in Byte /\ v \in Byte /\ Len(<<v>>) = 1
    BY DEF kAutoLockDays, Byte
  <2>2. <<1>> \o <<v>> = <<1, v>>
    BY <2>1, Pair
  <2> QED BY <2>1, <2>2 DEF DaysBytes
<1> QED BY <1>1, <1>2, <1>3

\* They are bytes.
LEMMA DaysIsBytes ==
    ASSUME NEW format \in kFormats, NEW ds, IsDays(ds, format)
    PROVE  DaysBytes(ds, format) \in ByteStrings
<1>1. <<>> \in Seq(Byte) /\ <<0>> \in Seq(Byte) /\ \A v \in kAutoLockDays : <<1, v>> \in Seq(Byte)
  BY DEF Byte, kAutoLockDays
<1>2. CASE format = 1
  BY <1>1, <1>2, DaysBytesAre DEF ByteStrings
<1>3. CASE format = 2
  <2>1. ds = <<>> \/ \E v \in kAutoLockDays : ds = <<v>>
    BY DaysCases
  <2> QED BY <1>1, <1>3, <2>1, DaysBytesAre DEF ByteStrings
<1> QED BY <1>2, <1>3 DEF kFormats

\* What ReadAutoLockDays reads.
LEMMA ReadDaysMeans ==
    ASSUME NEW b \in ByteStrings, NEW at \in 0..Len(b), NEW format \in kFormats, NEW x
    PROVE  x \in ReadAutoLockDays(b, at, format) <=>
              \E ds : IsDays(ds, format) /\ IsRead(x, b, at, ds, DaysBytes(ds, format))
<1>0. Len(b) \in Nat /\ at \in Nat
  BY LenProperties DEF ByteStrings
<1>1. CASE format = 1
  <2>1. x \in ReadAutoLockDays(b, at, format) <=> x = [at |-> at, value |-> <<>>]
    BY <1>1 DEF ReadAutoLockDays
  <2>2. IsRead(x, b, at, <<>>, <<>>) <=> x = [at |-> at, value |-> <<>>]
    <3>1. IsAt(b, at, <<>>) /\ Len(<<>>) = 0 /\ at + 0 = at
      BY <1>0 DEF IsAt
    <3> QED BY <3>1 DEF IsRead
  <2>3. \A ds : IsDays(ds, format) <=> ds = <<>>
    BY <1>1, DaysCases
  <2> QED BY <1>1, <2>1, <2>2, <2>3, DaysBytesAre
<1>2. CASE format = 2
  <2> DEFINE One(p) == IF p.value = 0 THEN {[p EXCEPT !.value = <<>>]}
                       ELSE {[y EXCEPT !.value = <<y.value>>] :
                                y \in {z \in ReadU8(b, p.at) : z.value \in kAutoLockDays}}
  <2>1. x \in ReadAutoLockDays(b, at, format) <=> \E p \in ReadPresence(b, at) : x \in One(p)
    <3>1. ReadAutoLockDays(b, at, format) = UNION {One(p) : p \in ReadPresence(b, at)}
      <4>1. format # 1
        BY <1>2
      <4> QED BY <4>1, Zenon DEF ReadAutoLockDays
    <3> HIDE DEF One
    <3> QED BY <3>1
  <2>2. ASSUME NEW p, p.value = 0, p = [at |-> p.at, value |-> p.value]
        PROVE  x \in One(p) <=> x = [at |-> p.at, value |-> <<>>]
    BY <2>2
  <2>3. ASSUME NEW p, p.value # 0
        PROVE  x \in One(p) <=>
                  \E y \in ReadU8(b, p.at) : y.value \in kAutoLockDays /\ x = [y EXCEPT !.value = <<y.value>>]
    BY <2>3
  <2> HIDE DEF One
  <2>4. \A v \in {0, 1} : <<v>> \in Seq(Byte) /\ Len(<<v>>) = 1
    BY DEF Byte
  <2>5. ASSUME NEW p, NEW v \in {0, 1}, IsRead(p, b, at, v, <<v>>)
        PROVE  /\ p.value = v /\ p.at = at + 1 /\ p = [at |-> p.at, value |-> p.value]
               /\ p.at \in 0..Len(b) /\ IsAt(b, at, <<v>>)
    <3>1. IsAt(b, at, <<v>>) /\ p = [at |-> at + 1, value |-> v]
      BY <2>4, <2>5 DEF IsRead
    <3>2. at + 1 <= Len(b)
      BY <2>4, <3>1 DEF IsAt
    <3> QED BY <1>0, <3>1, <3>2
  <2>6. ASSUME NEW v \in kAutoLockDays
        PROVE  /\ v \in Byte /\ <<1>> \in Seq(Byte) /\ <<v>> \in Seq(Byte)
               /\ <<1>> \o <<v>> = <<1, v>> /\ Len(<<1, v>>) = 2 /\ Len(<<v>>) = 1
    <3>1. 1 \in Byte /\ v \in Byte
      BY DEF kAutoLockDays, Byte
    <3> QED BY <3>1, Pair, Bytes1, Bytes2
  <2>7. ASSUME x \in ReadAutoLockDays(b, at, format)
        PROVE  \E ds : IsDays(ds, format) /\ IsRead(x, b, at, ds, DaysBytes(ds, format))
    <3>1. PICK p \in ReadPresence(b, at) : x \in One(p)
      BY <2>1, <2>7
    <3>2. PICK v \in {0, 1} : IsRead(p, b, at, v, <<v>>)
      BY <3>1, PresenceMeans
    <3>3. /\ p.value = v /\ p.at = at + 1 /\ p = [at |-> p.at, value |-> p.value]
          /\ p.at \in 0..Len(b) /\ IsAt(b, at, <<v>>)
      BY <2>5, <3>2
    <3>4. CASE v = 0
      <4>1. x = [at |-> at + 1, value |-> <<>>]
        BY <2>2, <3>1, <3>3, <3>4
      <4>2. IsRead(x, b, at, <<>>, <<0>>)
        BY <2>4, <3>3, <3>4, <4>1 DEF IsRead
      <4>3. IsDays(<<>>, format)
        BY DaysCases
      <4> QED BY <1>2, <4>2, <4>3, DaysBytesAre
    <3>5. CASE v = 1
      <4>1. PICK y \in ReadU8(b, p.at) : y.value \in kAutoLockDays /\ x = [y EXCEPT !.value = <<y.value>>]
        BY <2>3, <3>1, <3>3, <3>5
      <4>2. PICK d \in Byte : IsRead(y, b, p.at, d, <<d>>)
        BY <3>3, <4>1, ReadU8Means DEF ByteStrings
      <4>3. IsAt(b, p.at, <<d>>) /\ y = [at |-> p.at + 1, value |-> d]
        BY <4>2, Bytes1 DEF IsRead
      <4>4. y.value = d /\ d \in kAutoLockDays
        BY <4>1, <4>3
      <4>5. x = [at |-> at + 2, value |-> <<d>>]
        <5>1. p.at + 1 = at + 2
          BY <1>0, <3>3
        <5> QED BY <4>1, <4>3, <4>4, <5>1
      <4>6. IsAt(b, at, <<1, d>>)
        <5>1. IsAt(b, at, <<1>>) /\ IsAt(b, at + Len(<<1>>), <<d>>)
          BY <2>4, <3>3, <3>5, <4>3
        <5>2. <<1>> \in Seq(Byte) /\ <<d>> \in Seq(Byte) /\ <<1>> \o <<d>> = <<1, d>>
          BY <2>6, <4>4
        <5>3. IsAt(b, at, <<1>> \o <<d>>)
          BY <1>0, <5>1, <5>2, AtConcat DEF ByteStrings
        <5> QED BY <5>2, <5>3
      <4>7. IsRead(x, b, at, <<d>>, <<1, d>>)
        BY <2>6, <4>4, <4>5, <4>6 DEF IsRead
      <4>8. IsDays(<<d>>, format) /\ DaysBytes(<<d>>, format) = <<1, d>>
        BY <1>2, <4>4, DaysCases, DaysBytesAre
      <4> QED BY <4>7, <4>8
    <3> QED BY <3>4, <3>5
  <2>8. ASSUME IsRead(x, b, at, <<>>, DaysBytes(<<>>, format))
        PROVE  x \in ReadAutoLockDays(b, at, format)
    <3>1. IsRead(x, b, at, <<>>, <<0>>)
      BY <1>2, <2>8, DaysBytesAre
    <3> DEFINE p == [at |-> at + 1, value |-> 0]
    <3>2. IsRead(p, b, at, 0, <<0>>)
      BY <2>4, <3>1 DEF IsRead
    <3>3. p.value = 0 /\ p = [at |-> p.at, value |-> p.value] /\ p.at = at + 1
      OBVIOUS
    <3> HIDE DEF p
    <3>4. p \in ReadPresence(b, at)
      BY <3>2, PresenceMeans
    <3>5. x = [at |-> at + 1, value |-> <<>>]
      BY <2>4, <3>1 DEF IsRead
    <3>6. x \in One(p)
      BY <2>2, <3>3, <3>5
    <3> QED BY <2>1, <3>4, <3>6
  <2>9. ASSUME NEW d \in kAutoLockDays, IsRead(x, b, at, <<d>>, DaysBytes(<<d>>, format))
        PROVE  x \in ReadAutoLockDays(b, at, format)
    <3>1. IsAt(b, at, <<1, d>>) /\ x = [at |-> at + 2, value |-> <<d>>]
      BY <1>2, <2>6, <2>9, DaysBytesAre DEF IsRead
    <3>2. IsAt(b, at, <<1>>) /\ IsAt(b, at + 1, <<d>>)
      <4>1. IsAt(b, at, <<1>>) /\ IsAt(b, at + Len(<<1>>), <<d>>)
        BY <1>0, <2>6, <3>1, AtConcat, ZenonT(40) DEF ByteStrings
      <4> QED BY <2>4, <4>1
    <3> DEFINE p == [at |-> at + 1, value |-> 1]
               y == [at |-> at + 2, value |-> d]
    <3>3. IsRead(p, b, at, 1, <<1>>) /\ p.at = at + 1 /\ p.value # 0
      BY <2>4, <3>2 DEF IsRead
    <3>4. y.value = d /\ y = [at |-> at + 2, value |-> d]
      OBVIOUS
    <3> HIDE DEF p, y
    <3>5. p \in ReadPresence(b, at) /\ p.at \in 0..Len(b)
      BY <2>5, <3>3, PresenceMeans
    <3>6. y \in ReadU8(b, p.at)
      <4>1. IsRead(y, b, p.at, d, <<d>>)
        <5>1. p.at + Len(<<d>>) = at + 2
          <6>1. Len(<<d>>) = 1 /\ p.at = at + 1
            BY <2>6, <3>3
          <6> QED BY <1>0, <6>1
        <5> QED BY <3>2, <3>3, <3>4, <5>1 DEF IsRead
      <4> QED BY <2>6, <3>5, <4>1, ReadU8Means DEF ByteStrings
    <3>7. x = [y EXCEPT !.value = <<y.value>>]
      BY <3>1, <3>4
    <3>8. x \in One(p)
      BY <2>3, <3>3, <3>4, <3>6, <3>7
    <3> QED BY <2>1, <3>5, <3>8
  <2> QED BY <1>2, <2>7, <2>8, <2>9, DaysCases
<1> QED BY <1>1, <1>2 DEF kFormats

\* Each has at most one result.
LEMMA ReadWifiOnce ==
    ASSUME NEW b, NEW at, NEW x \in ReadWifi(b, at), NEW y \in ReadWifi(b, at) PROVE x = y
<1> DEFINE One(p) == IF p.value = 0 THEN {[p EXCEPT !.value = <<>>]}
                     ELSE {[z EXCEPT !.value = <<[ssid |-> z.value[1], password |-> z.value[2]]>>] :
                              z \in ReadAll(b, p.at, TextKinds)}
<1>1. Len(TextKinds) \in Nat /\ \A i \in 1..Len(TextKinds) : TextKinds[i] \in Fields
  <2>1. Len(TextKinds) = 2 /\ TextKinds[1] = "text" /\ TextKinds[2] = "text"
    BY DEF TextKinds
  <2>2. \A i \in 1..2 : i = 1 \/ i = 2
    OBVIOUS
  <2> QED BY <2>1, <2>2 DEF Fields
<1>2. \A p, q \in ReadPresence(b, at) : p = q
  <2>1. \A p, q \in Take(b, at, 1) : p = q
    BY DEF Take
  <2>2. \A p, q \in ReadU8(b, at) : p = q
    BY <2>1 DEF ReadU8
  <2> QED BY <2>2 DEF ReadPresence
<1>3. ASSUME NEW p, NEW c \in One(p), NEW d \in One(p) PROVE c = d
  <2>1. \A k, l \in ReadAll(b, p.at, TextKinds) : k = l
    BY <1>1, ReadAllOnce
  <2> QED BY <2>1
<1>4. ReadWifi(b, at) = UNION {One(p) : p \in ReadPresence(b, at)}
  BY Zenon DEF ReadWifi, TextKinds
<1> HIDE DEF One
<1>5. PICK p \in ReadPresence(b, at) : x \in One(p)
  BY <1>4
<1>6. PICK q \in ReadPresence(b, at) : y \in One(q)
  BY <1>4
<1>7. p = q
  BY <1>2
<1> QED BY <1>3, <1>5, <1>6, <1>7

\* The days are read in at most one way.
LEMMA ReadDaysOnce ==
    ASSUME NEW b, NEW at, NEW format, NEW x \in ReadAutoLockDays(b, at, format),
           NEW y \in ReadAutoLockDays(b, at, format)
    PROVE  x = y
<1> DEFINE One(p) == IF p.value = 0 THEN {[p EXCEPT !.value = <<>>]}
                     ELSE {[z EXCEPT !.value = <<z.value>>] :
                              z \in {k \in ReadU8(b, p.at) : k.value \in kAutoLockDays}}
<1>1. \A n : \A p, q \in ReadU8(b, n) : p = q
  <2>1. \A n : \A p, q \in Take(b, n, 1) : p = q
    BY DEF Take
  <2> QED BY <2>1 DEF ReadU8
<1>2. \A p, q \in ReadPresence(b, at) : p = q
  BY <1>1 DEF ReadPresence
<1>3. ASSUME NEW p, NEW c \in One(p), NEW d \in One(p) PROVE c = d
  <2>1. \A k, l \in ReadU8(b, p.at) : k = l
    BY <1>1
  <2> QED BY <2>1
<1>4. ReadAutoLockDays(b, at, format)
         = IF format = 1 THEN {[at |-> at, value |-> <<>>]}
           ELSE UNION {One(p) : p \in ReadPresence(b, at)}
  BY Zenon DEF ReadAutoLockDays
<1> HIDE DEF One
<1>5. CASE format = 1
  BY <1>4, <1>5
<1>6. CASE format # 1
  <2>1. PICK p \in ReadPresence(b, at) : x \in One(p)
    BY <1>4, <1>6
  <2>2. PICK q \in ReadPresence(b, at) : y \in One(q)
    BY <1>4, <1>6
  <2>3. p = q
    BY <1>2
  <2> QED BY <1>3, <2>1, <2>2, <2>3
<1> QED BY <1>5, <1>6

-----------------------------------------------------------------------------
(* A plaintext                                                             *)

\* Four byte strings stand one after the other.
LEMMA FourParts ==
    ASSUME NEW b \in Seq(Byte), NEW p \in Seq(Byte), NEW r \in Seq(Byte),
           NEW w \in Seq(Byte), NEW d \in Seq(Byte), NEW i \in Nat,
           NEW j, NEW k, NEW l, j = i + Len(p), k = j + Len(r), l = k + Len(w)
    PROVE  IsAt(b, i, ((p \o r) \o w) \o d) <=>
              IsAt(b, i, p) /\ IsAt(b, j, r) /\ IsAt(b, k, w) /\ IsAt(b, l, d)
<1> DEFINE pr == p \o r
           prw == pr \o w
<1>1. pr \in Seq(Byte) /\ Len(pr) = Len(p) + Len(r)
  BY ConcatProperties
<1>2. Len(p) \in Nat /\ Len(r) \in Nat /\ Len(w) \in Nat /\ Len(d) \in Nat
  BY LenProperties
<1>4. IsAt(b, i, pr) <=> IsAt(b, i, p) /\ IsAt(b, i + Len(p), r)
  BY AtConcat
<1> HIDE DEF pr
<1>5. prw \in Seq(Byte) /\ Len(prw) = Len(pr) + Len(w)
  BY <1>1, ConcatProperties
<1>6. IsAt(b, i, prw) <=> IsAt(b, i, pr) /\ IsAt(b, i + Len(pr), w)
  BY <1>1, AtConcat
<1> HIDE DEF prw
<1>7. IsAt(b, i, prw \o d) <=> IsAt(b, i, prw) /\ IsAt(b, i + Len(prw), d)
  BY <1>5, AtConcat
<1>10. i + Len(p) = j /\ i + Len(pr) = k /\ i + Len(prw) = l
  BY <1>1, <1>2, <1>5
<1>11. IsAt(b, i, prw \o d) <=>
          IsAt(b, i, p) /\ IsAt(b, j, r) /\ IsAt(b, k, w) /\ IsAt(b, l, d)
  BY <1>4, <1>6, <1>7, <1>10
<1> QED BY <1>11 DEF prw, pr

\* Their length.
LEMMA FourLength ==
    ASSUME NEW p \in Seq(Byte), NEW r \in Seq(Byte), NEW w \in Seq(Byte), NEW d \in Seq(Byte)
    PROVE  /\ ((p \o r) \o w) \o d \in Seq(Byte)
           /\ Len(((p \o r) \o w) \o d) = Len(p) + Len(r) + Len(w) + Len(d)
<1>1. p \o r \in Seq(Byte) /\ Len(p \o r) = Len(p) + Len(r)
  BY ConcatProperties
<1>2. (p \o r) \o w \in Seq(Byte) /\ Len((p \o r) \o w) = Len(p) + Len(r) + Len(w)
  BY <1>1, ConcatProperties
<1> QED BY <1>2, ConcatProperties

Parts(rs, ws, ds) == [credentials |-> rs, wifi |-> ws, days |-> ds]
GoodParts(f, rs, ws, ds) ==
    /\ f \in kFormats /\ rs \in Seq(CredentialRecords) /\ Len(rs) <= kMaxCredentials
    /\ IsRecords(rs, Len(rs)) /\ IsWifi(ws) /\ IsDays(ds, f)

\* The parts of a plaintext.
LEMMA PartsFields ==
    ASSUME NEW rs, NEW ws, NEW ds
    PROVE  /\ Parts(rs, ws, ds).credentials = rs /\ Parts(rs, ws, ds).wifi = ws
           /\ Parts(rs, ws, ds).days = ds
BY DEF Parts

\* What encode_plaintext accepts, part by part.
LEMMA PartsMean ==
    ASSUME NEW f, NEW rs, NEW ws, NEW ds
    PROVE  GoodParts(f, rs, ws, ds) <=>
              IsPlaintext(Parts(rs, ws, ds)) /\ Encodable(Parts(rs, ws, ds), f)
<1> DEFINE v == Parts(rs, ws, ds)
<1>1. v.credentials = rs /\ v.wifi = ws /\ v.days = ds
  BY PartsFields
<1>2. IsPlaintext(v) <=> /\ rs \in Seq(CredentialRecords) /\ ws \in Seq(WifiSettings)
                         /\ ds \in Seq(Byte) /\ Len(ws) <= 1 /\ Len(ds) <= 1
  <2>1. v \in [credentials : Seq(CredentialRecords), wifi : Seq(WifiSettings), days : Seq(Byte)]
           <=> rs \in Seq(CredentialRecords) /\ ws \in Seq(WifiSettings) /\ ds \in Seq(Byte)
    BY DEF Parts
  <2> QED BY <1>1, <2>1 DEF IsPlaintext
<1> HIDE DEF v
<1>3. ASSUME NEW r, r \in CredentialRecords
      PROVE  GoodRecord(r) <=>
                ValidCredential(r) /\ \A k \in {"issuer", "account", "name"} : ValidText(r[k])
  BY <1>3 DEF GoodRecord
<1>4. Encodable(v, f) <=>
         /\ f \in kFormats /\ Len(rs) <= kMaxCredentials /\ ValidAutoLockDays(ds)
         /\ f = 1 => ds = <<>>
         /\ \A i \in 1..Len(rs) :
               /\ ValidCredential(rs[i])
               /\ \A k \in {"issuer", "account", "name"} : ValidText(rs[i][k])
               /\ IsNew(rs[i], rs, i - 1)
         /\ \A i \in 1..Len(ws) : ValidText(ws[i].ssid) /\ ValidText(ws[i].password)
  BY <1>1, Zenon DEF Encodable, IsNew
<1>5. ASSUME rs \in Seq(CredentialRecords)
      PROVE  IsRecords(rs, Len(rs)) <=>
                \A i \in 1..Len(rs) :
                   /\ ValidCredential(rs[i])
                   /\ \A k \in {"issuer", "account", "name"} : ValidText(rs[i][k])
                   /\ IsNew(rs[i], rs, i - 1)
  <2>1. \A i \in 1..Len(rs) : rs[i] \in CredentialRecords
    BY <1>5, ElementOfSeq
  <2>2. IsRecords(rs, Len(rs)) <=> \A i \in 1..Len(rs) : GoodRecord(rs[i]) /\ IsNew(rs[i], rs, i - 1)
    BY <1>5, Zenon DEF IsRecords
  <2>3. ASSUME NEW i \in 1..Len(rs)
        PROVE  GoodRecord(rs[i]) <=>
                  /\ ValidCredential(rs[i])
                  /\ \A k \in {"issuer", "account", "name"} : ValidText(rs[i][k])
    BY <1>3, <2>1
  <2> QED BY <2>2, <2>3, Zenon
<1>6. ASSUME ws \in Seq(WifiSettings), Len(ws) <= 1
      PROVE  IsWifi(ws) <=> \A i \in 1..Len(ws) : ValidText(ws[i].ssid) /\ ValidText(ws[i].password)
  <2>1. \A i \in 1..Len(ws) : ws[i] \in WifiSettings
    BY <1>6, ElementOfSeq
  <2> QED BY <1>6, <2>1, Zenon DEF IsWifi, GoodWifi
<1>7. IsWifi(ws) => ws \in Seq(WifiSettings) /\ Len(ws) <= 1
  BY DEF IsWifi
<1>8. IsDays(ds, f) <=> /\ ds \in Seq(Byte) /\ Len(ds) <= 1 /\ ValidAutoLockDays(ds)
                        /\ (f = 1 => ds = <<>>)
  BY Zenon DEF IsDays
<1>9. GoodParts(f, rs, ws, ds) <=> IsPlaintext(v) /\ Encodable(v, f)
  BY <1>2, <1>4, <1>5, <1>6, <1>7, <1>8, Zenon DEF GoodParts
<1> QED BY <1>9 DEF v

\* What it writes.
PartsBytes(f, rs, ws, ds) ==
    ((PrefixBytes(f, Len(rs)) \o RecordsBytes(rs)) \o WifiBytes(ws)) \o DaysBytes(ds, f)

\* Each part of a plaintext the encoder accepts is bytes.
LEMMA GoodBytes ==
    ASSUME NEW f, NEW rs, NEW ws, NEW ds, GoodParts(f, rs, ws, ds)
    PROVE  /\ Len(rs) \in Word /\ Len(rs) \in Nat
           /\ PrefixBytes(f, Len(rs)) \in Seq(Byte) /\ RecordsBytes(rs) \in Seq(Byte)
           /\ WifiBytes(ws) \in Seq(Byte) /\ DaysBytes(ds, f) \in Seq(Byte)
<1>1. Len(rs) \in Nat
  BY LenProperties DEF GoodParts
<1>2. Len(rs) \in Word
  BY <1>1, Limits DEF GoodParts, Word
<1>3. PrefixBytes(f, Len(rs)) \in ByteStrings
  BY <1>2, PrefixIsBytes DEF GoodParts
<1>4. RecordsBytes(rs) \in ByteStrings
  BY <1>1, RecordsAreBytes DEF GoodParts
<1>5. WifiBytes(ws) \in ByteStrings
  BY WifiIsBytes DEF GoodParts
<1>6. DaysBytes(ds, f) \in ByteStrings
  BY DaysIsBytes DEF GoodParts
<1> QED BY <1>1, <1>2, <1>3, <1>4, <1>5, <1>6 DEF ByteStrings

\* The two pieces of the network settings are bytes.
LEMMA WifiTail ==
    ASSUME NEW ws, IsWifi(ws)
    PROVE  /\ <<Len(ws)>> \in Seq(Byte)
           /\ FlattenSeq([i \in 1..Len(ws) |-> EncodeWifi(ws[i])]) \in Seq(Byte)
<1> DEFINE flat == FlattenSeq([i \in 1..Len(ws) |-> EncodeWifi(ws[i])])
<1>1. ASSUME ws = <<>> PROVE <<Len(ws)>> \in Seq(Byte) /\ flat \in Seq(Byte)
  <2>1. [i \in 1..Len(ws) |-> EncodeWifi(ws[i])] = <<>> /\ Len(ws) = 0 /\ Len(<<>>) = 0
    BY <1>1
  <2>2. flat = <<>>
    BY <2>1, FlattenMeans
  <2>3. <<Len(ws)>> \in Seq(Byte) /\ <<>> \in Seq(Byte)
    BY <2>1 DEF Byte
  <2> QED BY <2>2, <2>3
<1>2. ASSUME NEW w, GoodWifi(w), ws = <<w>>
      PROVE  <<Len(ws)>> \in Seq(Byte) /\ flat \in Seq(Byte)
  <2>1. Len(ws) = 1 /\ ws[1] = w
    BY <1>2
  <2>2. [i \in 1..Len(ws) |-> EncodeWifi(ws[i])] = <<EncodeWifi(w)>>
    <3>1. [i \in 1..1 |-> EncodeWifi(ws[i])] = [i \in 1..1 |-> EncodeWifi(w)]
      <4>1. \A i \in 1..1 : ws[i] = w
        BY <2>1
      <4> QED BY <4>1
    <3>2. [i \in 1..1 |-> EncodeWifi(w)] = <<EncodeWifi(w)>>
      OBVIOUS
    <3> QED BY <2>1, <3>1, <3>2
  <2>3. flat = EncodeWifi(w)
    BY <1>2, <2>2, EncodeWifiBytes, FlattenOne
  <2>4. <<Len(ws)>> \in Seq(Byte)
    <3>1. 1 \in Byte
      BY DEF Byte
    <3> QED BY <2>1, <3>1, Bytes1
  <2> HIDE DEF flat
  <2> QED BY <1>2, <2>3, <2>4, EncodeWifiBytes DEF ByteStrings
<1> HIDE DEF flat
<1>3. <<Len(ws)>> \in Seq(Byte) /\ flat \in Seq(Byte)
  BY <1>1, <1>2, WifiCases
<1> QED BY <1>3 DEF flat

\* encode_plaintext writes the four parts one after the other.
LEMMA EncodeParts ==
    ASSUME NEW f, NEW rs, NEW ws, NEW ds, GoodParts(f, rs, ws, ds)
    PROVE  EncodePlaintext(Parts(rs, ws, ds), f) = PartsBytes(f, rs, ws, ds)
<1> DEFINE v == Parts(rs, ws, ds)
           n == <<Len(ws)>>
           flat == FlattenSeq([i \in 1..Len(ws) |-> EncodeWifi(ws[i])])
           tail == DaysBytes(ds, f)
           front == PrefixBytes(f, Len(rs)) \o RecordsBytes(rs)
<1>1. v.credentials = rs /\ v.wifi = ws /\ v.days = ds
  BY PartsFields
<1>2. Encodable(v, f)
  BY PartsMean
<1> HIDE DEF v
<1>3. EncodePlaintext(v, f) = ((front \o n) \o flat) \o tail
  <2>1. EncodePlaintext(v, f) =
          <<f>> \o U16(f) \o U16(Len(rs))
          \o FlattenSeq([i \in 1..Len(rs) |-> EncodeRecord(rs[i])])
          \o <<Len(ws)>>
          \o FlattenSeq([i \in 1..Len(ws) |-> EncodeWifi(ws[i])])
          \o (IF f = 2 THEN <<Len(ds)>> \o ds ELSE <<>>)
    <3>1. EncodePlaintext(v, f) =
            <<f>> \o U16(f) \o U16(Len(v.credentials))
            \o FlattenSeq([i \in 1..Len(v.credentials) |-> EncodeRecord(v.credentials[i])])
            \o <<Len(v.wifi)>>
            \o FlattenSeq([i \in 1..Len(v.wifi) |-> EncodeWifi(v.wifi[i])])
            \o (IF f = 2 THEN <<Len(v.days)>> \o v.days ELSE <<>>)
      BY <1>2, Zenon DEF EncodePlaintext
    <3> QED BY <1>1, <3>1, Zenon
  <2> QED BY <2>1, Zenon DEF PrefixBytes, RecordsBytes, RecordPieces, DaysBytes
<1>4. front \in Seq(Byte)
  BY GoodBytes, ConcatProperties
<1>5. n \in Seq(Byte) /\ flat \in Seq(Byte) /\ tail \in Seq(Byte)
  BY GoodBytes, WifiTail DEF GoodParts
<1>6. WifiBytes(ws) = n \o flat
  BY Zenon DEF WifiBytes
<1>7. PartsBytes(f, rs, ws, ds) = (front \o WifiBytes(ws)) \o tail
  BY Zenon DEF PartsBytes
<1> HIDE DEF front, n, flat, tail
<1>8. (front \o n) \o flat = front \o (n \o flat)
  BY <1>4, <1>5, ConcatAssociative, SMTT(30)
<1>9. EncodePlaintext(v, f) = PartsBytes(f, rs, ws, ds)
  BY <1>3, <1>6, <1>7, <1>8
<1> QED BY <1>9 DEF v

\* Some parts, read one after the other from a whole byte string.
Decodes(b, f, rs, ws, ds) == GoodParts(f, rs, ws, ds) /\ b = PartsBytes(f, rs, ws, ds)

\* A plaintext has its parts.
LEMMA PlaintextParts ==
    ASSUME NEW v, IsPlaintext(v) PROVE v = Parts(v.credentials, v.wifi, v.days)
BY DEF IsPlaintext, Parts

\* decode_plaintext step by step.
DecodedBy(b, p, r, w, y, d) ==
    /\ p \in ReadPrefix(b) /\ r \in ReadRecords(b, p.at, p.value[3])
    /\ w \in ReadWifi(b, r.at) /\ y \in ReadAutoLockDays(b, w.at, p.value[1])
    /\ y.at = Len(b)
    /\ d = [format |-> p.value[1], value |-> Parts(r.value, w.value, y.value)]

\* decode_plaintext, step by step.
LEMMA DecodeSteps ==
    ASSUME NEW b, NEW d
    PROVE  d \in DecodePlaintext(b) <=>
              \E p \in ReadPrefix(b) : \E r \in ReadRecords(b, p.at, p.value[3]) :
                 \E w \in ReadWifi(b, r.at) : \E y \in ReadAutoLockDays(b, w.at, p.value[1]) :
                    DecodedBy(b, p, r, w, y, d)
<1> DEFINE D(p, r, w) ==
              {[format |-> p.value[1], value |-> Parts(r.value, w.value, y.value)] :
                  y \in {x \in ReadAutoLockDays(b, w.at, p.value[1]) : DecodesWhole(b, x)}}
           W(p, r) == UNION {D(p, r, w) : w \in ReadWifi(b, r.at)}
           R(p) == UNION {W(p, r) : r \in ReadRecords(b, p.at, p.value[3])}
<1>1. DecodePlaintext(b) = UNION {R(p) : p \in ReadPrefix(b)}
  BY Zenon DEF DecodePlaintext, Parts
<1>2. ASSUME NEW p \in ReadPrefix(b), NEW r \in ReadRecords(b, p.at, p.value[3]),
             NEW w \in ReadWifi(b, r.at)
      PROVE  d \in D(p, r, w) <=>
               \E y \in ReadAutoLockDays(b, w.at, p.value[1]) : DecodedBy(b, p, r, w, y, d)
  BY Zenon DEF DecodesWhole, DecodedBy
<1> HIDE DEF D
<1>3. ASSUME NEW p, NEW r
      PROVE  d \in W(p, r) <=> \E w \in ReadWifi(b, r.at) : d \in D(p, r, w)
  OBVIOUS
<1> HIDE DEF W
<1>4. ASSUME NEW p
      PROVE  d \in R(p) <=> \E r \in ReadRecords(b, p.at, p.value[3]) : d \in W(p, r)
  OBVIOUS
<1> HIDE DEF R
<1>5. d \in DecodePlaintext(b) <=> \E p \in ReadPrefix(b) : d \in R(p)
  BY <1>1
<1> QED BY <1>2, <1>3, <1>4, <1>5, Zenon

\* Where a read ends.
LEMMA ReadEnds ==
    ASSUME NEW b \in Seq(Byte), NEW at \in 0..Len(b), NEW w \in Seq(Byte), NEW v, NEW x,
           IsRead(x, b, at, v, w)
    PROVE  x.at = at + Len(w) /\ x.value = v /\ x.at \in 0..Len(b) /\ IsAt(b, at, w)
<1>1. Len(b) \in Nat /\ Len(w) \in Nat
  BY LenProperties
<1>2. IsAt(b, at, w) /\ x = [at |-> at + Len(w), value |-> v]
  BY DEF IsRead
<1>3. x.at = at + Len(w) /\ x.value = v
  BY <1>2
<1>4. at + Len(w) <= Len(b)
  BY <1>2 DEF IsAt
<1> QED BY <1>1, <1>2, <1>3, <1>4

\* decode_plaintext reads exactly what encode_plaintext writes.
LEMMA DecodeMeans ==
    ASSUME NEW b \in ByteStrings, NEW d
    PROVE  d \in DecodePlaintext(b) <=>
              \E f, rs, ws, ds : /\ Decodes(b, f, rs, ws, ds)
                                 /\ d = [format |-> f, value |-> Parts(rs, ws, ds)]
<1>0. b \in Seq(Byte) /\ Len(b) \in Nat
  BY LenProperties DEF ByteStrings
<1>1. ASSUME d \in DecodePlaintext(b)
      PROVE  \E f, rs, ws, ds : /\ Decodes(b, f, rs, ws, ds)
                                /\ d = [format |-> f, value |-> Parts(rs, ws, ds)]
  <2>1. PICK p, r, w, y : DecodedBy(b, p, r, w, y, d)
    BY <1>1, DecodeSteps
  <2> DEFINE zero == 0
  <2>2. zero \in 0..Len(b) /\ zero = 0
    BY <1>0
  <2> HIDE DEF zero
  <2>3. PICK f \in kFormats, n \in Word :
           n <= kMaxCredentials /\ IsRead(p, b, zero, <<f, f, n>>, PrefixBytes(f, n))
    BY <2>1, <2>2, ReadPrefixMeans DEF DecodedBy
  <2> DEFINE pb == PrefixBytes(f, n)
  <2>4. pb \in Seq(Byte) /\ n \in Nat
    BY PrefixIsBytes DEF ByteStrings, Word
  <2>5. p.at = zero + Len(pb) /\ p.value = <<f, f, n>> /\ p.at \in 0..Len(b) /\ IsAt(b, zero, pb)
    BY <1>0, <2>2, <2>3, <2>4, ReadEnds
  <2> HIDE DEF pb
  <2>6. p.value[1] = f /\ p.value[3] = n
    BY <2>5
  <2>7. PICK rs : IsRecords(rs, n) /\ IsRead(r, b, p.at, rs, RecordsBytes(rs))
    BY <2>1, <2>4, <2>5, <2>6, ReadRecordsReads DEF DecodedBy
  <2> DEFINE rb == RecordsBytes(rs)
  <2>8. rb \in Seq(Byte)
    BY <2>4, <2>7, RecordsAreBytes DEF ByteStrings
  <2>9. r.at = p.at + Len(rb) /\ r.value = rs /\ r.at \in 0..Len(b) /\ IsAt(b, p.at, rb)
    BY <1>0, <2>5, <2>7, <2>8, ReadEnds
  <2> HIDE DEF rb
  <2>10. PICK ws : IsWifi(ws) /\ IsRead(w, b, r.at, ws, WifiBytes(ws))
    BY <2>1, <2>9, ReadWifiMeans DEF DecodedBy
  <2> DEFINE wb == WifiBytes(ws)
  <2>11. wb \in Seq(Byte)
    BY <2>10, WifiIsBytes DEF ByteStrings
  <2>12. w.at = r.at + Len(wb) /\ w.value = ws /\ w.at \in 0..Len(b) /\ IsAt(b, r.at, wb)
    BY <1>0, <2>9, <2>10, <2>11, ReadEnds
  <2> HIDE DEF wb
  <2>13. PICK ds : IsDays(ds, f) /\ IsRead(y, b, w.at, ds, DaysBytes(ds, f))
    BY <2>1, <2>6, <2>12, ReadDaysMeans DEF DecodedBy
  <2> DEFINE db == DaysBytes(ds, f)
  <2>14. db \in Seq(Byte)
    BY <2>13, DaysIsBytes DEF ByteStrings
  <2>15. y.at = w.at + Len(db) /\ y.value = ds /\ IsAt(b, w.at, db)
    BY <1>0, <2>12, <2>13, <2>14, ReadEnds
  <2> HIDE DEF db
  <2>16. y.at = Len(b) /\ d = [format |-> f, value |-> Parts(rs, ws, ds)]
    BY <2>1, <2>6, <2>9, <2>12, <2>15 DEF DecodedBy
  <2>17. b = ((pb \o rb) \o wb) \o db
    <3>1. Len(pb) \in Nat /\ Len(rb) \in Nat /\ Len(wb) \in Nat /\ Len(db) \in Nat
      BY <2>4, <2>8, <2>11, <2>14, LenProperties
    <3>2. p.at = Len(pb) /\ r.at = Len(pb) + Len(rb) /\ w.at = Len(pb) + Len(rb) + Len(wb)
      BY <2>2, <2>5, <2>9, <2>12, <3>1
    <3>3. Len(pb) + Len(rb) + Len(wb) + Len(db) = Len(b)
      BY <2>15, <2>16, <3>2
    <3> DEFINE whole == ((pb \o rb) \o wb) \o db
    <3>4. whole \in Seq(Byte) /\ Len(whole) = Len(b)
      BY <2>4, <2>8, <2>11, <2>14, <3>3, FourLength
    <3>5. IsAt(b, zero, pb) /\ IsAt(b, p.at, rb) /\ IsAt(b, r.at, wb) /\ IsAt(b, w.at, db)
      BY <2>5, <2>9, <2>12, <2>15
    <3>6. p.at = zero + Len(pb) /\ r.at = p.at + Len(rb) /\ w.at = r.at + Len(wb) /\ zero \in Nat
      BY <2>2, <2>5, <2>9, <2>12
    <3>7. IsAt(b, zero, whole)
      <4> DEFINE i == p.at
                 j == r.at
                 k == w.at
      <4>1. i = zero + Len(pb) /\ j = i + Len(rb) /\ k = j + Len(wb) /\ zero \in Nat
        BY <3>6
      <4>2. IsAt(b, zero, pb) /\ IsAt(b, i, rb) /\ IsAt(b, j, wb) /\ IsAt(b, k, db)
        BY <3>5
      <4>3. /\ b \in Seq(Byte) /\ pb \in Seq(Byte) /\ rb \in Seq(Byte) /\ wb \in Seq(Byte)
            /\ db \in Seq(Byte)
        BY <1>0, <2>4, <2>8, <2>11, <2>14
      <4> HIDE DEF i, j, k
      <4> QED BY <4>1, <4>2, <4>3, FourParts
    <3> HIDE DEF whole
    <3>8. b = whole
      BY <1>0, <2>2, <3>4, <3>7, AtWhole
    <3> QED BY <3>8 DEF whole
  <2>18. Len(rs) = n /\ rs \in Seq(CredentialRecords)
    BY <2>7 DEF IsRecords
  <2>19. Decodes(b, f, rs, ws, ds)
    BY <2>3, <2>7, <2>10, <2>13, <2>17, <2>18
       DEF Decodes, GoodParts, PartsBytes, pb, rb, wb, db
  <2> QED BY <2>16, <2>19
<1>2. ASSUME NEW f, NEW rs, NEW ws, NEW ds, Decodes(b, f, rs, ws, ds),
             d = [format |-> f, value |-> Parts(rs, ws, ds)]
      PROVE  d \in DecodePlaintext(b)
  <2> DEFINE n == Len(rs)
             pb == PrefixBytes(f, n)
             rb == RecordsBytes(rs)
             wb == WifiBytes(ws)
             db == DaysBytes(ds, f)
             p == [at |-> Len(pb), value |-> <<f, f, n>>]
             r == [at |-> Len(pb) + Len(rb), value |-> rs]
             w == [at |-> Len(pb) + Len(rb) + Len(wb), value |-> ws]
             y == [at |-> Len(pb) + Len(rb) + Len(wb) + Len(db), value |-> ds]
             zero == 0
  <2>1. GoodParts(f, rs, ws, ds) /\ b = PartsBytes(f, rs, ws, ds)
    BY <1>2 DEF Decodes
  <2>2. /\ n \in Word /\ n \in Nat /\ n <= kMaxCredentials /\ f \in kFormats
        /\ IsRecords(rs, n) /\ IsWifi(ws) /\ IsDays(ds, f)
    BY <2>1, GoodBytes DEF GoodParts
  <2>3. pb \in Seq(Byte) /\ rb \in Seq(Byte) /\ wb \in Seq(Byte) /\ db \in Seq(Byte)
    BY <2>1, GoodBytes
  <2>4. b = ((pb \o rb) \o wb) \o db
    BY <2>1 DEF PartsBytes
  <2> HIDE DEF pb, rb, wb, db
  <2>0. zero = 0
    OBVIOUS
  <2> HIDE DEF zero
  <2>6. Len(pb) \in Nat /\ Len(rb) \in Nat /\ Len(wb) \in Nat /\ Len(db) \in Nat
    BY <2>3, LenProperties
  <2>5. /\ IsAt(b, zero, pb) /\ IsAt(b, Len(pb), rb) /\ IsAt(b, Len(pb) + Len(rb), wb)
        /\ IsAt(b, Len(pb) + Len(rb) + Len(wb), db)
        /\ Len(pb) + Len(rb) + Len(wb) + Len(db) = Len(b)
    <3> DEFINE whole == ((pb \o rb) \o wb) \o db
               i == Len(pb)
               j == i + Len(rb)
               k == j + Len(wb)
    <3>1. whole \in Seq(Byte) /\ Len(whole) = Len(pb) + Len(rb) + Len(wb) + Len(db)
      BY <2>3, FourLength
    <3>2. IsAt(b, zero, whole) /\ Len(whole) = Len(b)
      <4> HIDE DEF whole
      <4>1. b = whole
        BY <2>4 DEF whole
      <4> QED BY <1>0, <2>0, <3>1, <4>1, AtWhole
    <3>3. i = zero + Len(pb) /\ j = i + Len(rb) /\ k = j + Len(wb) /\ zero \in Nat
      BY <2>0, <2>6
    <3> HIDE DEF i, j, k
    <3>4. IsAt(b, zero, pb) /\ IsAt(b, i, rb) /\ IsAt(b, j, wb) /\ IsAt(b, k, db)
      BY <1>0, <2>3, <3>2, <3>3, FourParts, SMTT(30)
    <3> QED BY <3>1, <3>2, <3>4 DEF i, j, k
  <2>7. /\ p.at = Len(pb) /\ p.value[1] = f /\ p.value[3] = n
        /\ r.at = Len(pb) + Len(rb) /\ r.value = rs
        /\ w.at = Len(pb) + Len(rb) + Len(wb) /\ w.value = ws
        /\ y.at = Len(b) /\ y.value = ds
    BY <2>5
  <2>8. p = [at |-> 0 + Len(pb), value |-> <<f, f, n>>]
    BY <2>6
  <2>9. /\ r = [at |-> p.at + Len(rb), value |-> rs] /\ w = [at |-> r.at + Len(wb), value |-> ws]
        /\ y = [at |-> w.at + Len(db), value |-> ds]
    BY <2>7
  <2>10. p.at \in 0..Len(b) /\ r.at \in 0..Len(b) /\ w.at \in 0..Len(b)
    BY <2>5, <2>6, <2>7
  <2> HIDE DEF n, p, r, w, y
  <2>11. p \in ReadPrefix(b)
    <3>1. IsRead(p, b, 0, <<f, f, n>>, PrefixBytes(f, n))
      BY <2>0, <2>5, <2>8 DEF IsRead, pb
    <3> QED BY <2>2, <3>1, ReadPrefixMeans
  <2>12. r \in ReadRecords(b, p.at, n)
    <3>1. IsRead(r, b, p.at, rs, RecordsBytes(rs))
      BY <2>5, <2>7, <2>9 DEF IsRead, rb
    <3> QED BY <2>2, <2>10, <3>1, ReadRecordsReads
  <2>13. w \in ReadWifi(b, r.at)
    <3>1. IsRead(w, b, r.at, ws, WifiBytes(ws))
      BY <2>5, <2>7, <2>9 DEF IsRead, wb
    <3> QED BY <2>2, <2>10, <3>1, ReadWifiMeans
  <2>14. y \in ReadAutoLockDays(b, w.at, f)
    <3>1. IsRead(y, b, w.at, ds, DaysBytes(ds, f))
      BY <2>5, <2>7, <2>9 DEF IsRead, db
    <3> QED BY <2>2, <2>10, <3>1, ReadDaysMeans
  <2>15. DecodedBy(b, p, r, w, y, d)
    BY <1>2, <2>7, <2>11, <2>12, <2>13, <2>14 DEF DecodedBy
  <2> QED BY <2>7, <2>11, <2>12, <2>13, <2>14, <2>15, DecodeSteps
<1> QED BY <1>1, <1>2

\* It has at most one result.
LEMMA DecodeOnce ==
    ASSUME NEW b \in ByteStrings, NEW c \in DecodePlaintext(b), NEW d \in DecodePlaintext(b)
    PROVE  c = d
<1>1. PICK p, r, w, y : DecodedBy(b, p, r, w, y, c)
  BY DecodeSteps
<1>2. PICK q, s, x, z : DecodedBy(b, q, s, x, z, d)
  BY DecodeSteps
<1>3. p = q
  BY <1>1, <1>2, ReadPrefixOnce DEF DecodedBy
<1>4. p.value[3] \in Nat
  <2>1. \A e : e \in ReadPrefix(b) => e.value[3] \in Nat
    <3>1. ASSUME NEW e \in ReadPrefix(b) PROVE e.value[3] \in Nat
      <4>1. PICK f \in kFormats, n \in Word : IsRead(e, b, 0, <<f, f, n>>, PrefixBytes(f, n))
        BY ReadPrefixMeans
      <4>2. e.value = <<f, f, n>>
        BY <4>1 DEF IsRead
      <4> QED BY <4>2 DEF Word
    <3> QED BY <3>1
  <2> QED BY <1>1, <2>1 DEF DecodedBy
<1>5. r = s
  BY <1>1, <1>2, <1>3, <1>4, ReadRecordsOnce DEF DecodedBy
<1>6. w = x
  BY <1>1, <1>2, <1>5, ReadWifiOnce DEF DecodedBy
<1>7. y = z
  BY <1>1, <1>2, <1>3, <1>6, ReadDaysOnce DEF DecodedBy
<1> QED BY <1>1, <1>2, <1>3, <1>5, <1>6, <1>7 DEF DecodedBy

\* The same in terms of values.
LEMMA DecodeIs ==
    ASSUME NEW b \in ByteStrings, NEW f, NEW v
    PROVE  [format |-> f, value |-> v] \in DecodePlaintext(b) <=>
              IsPlaintext(v) /\ Encodable(v, f) /\ b = EncodePlaintext(v, f)
<1> DEFINE d == [format |-> f, value |-> v]
<1>1. d.format = f /\ d.value = v
  OBVIOUS
<1>2. \A g, u : d = [format |-> g, value |-> u] => f = g /\ v = u
  <2>1. ASSUME NEW g, NEW u, d = [format |-> g, value |-> u] PROVE f = g /\ v = u
    <3>1. d.format = g /\ d.value = u
      <4> HIDE DEF d
      <4> QED BY <2>1
    <3> QED BY <1>1, <3>1
  <2> QED BY <2>1
<1>3. d = [format |-> f, value |-> v]
  OBVIOUS
<1> HIDE DEF d
<1>4. ASSUME d \in DecodePlaintext(b)
      PROVE  IsPlaintext(v) /\ Encodable(v, f) /\ b = EncodePlaintext(v, f)
  <2>1. PICK g, rs, ws, ds : Decodes(b, g, rs, ws, ds) /\ d = [format |-> g, value |-> Parts(rs, ws, ds)]
    BY <1>4, DecodeMeans
  <2>2. f = g /\ v = Parts(rs, ws, ds)
    BY <1>2, <2>1
  <2>3. GoodParts(f, rs, ws, ds) /\ b = PartsBytes(f, rs, ws, ds)
    BY <2>1, <2>2 DEF Decodes
  <2>4. IsPlaintext(v) /\ Encodable(v, f)
    BY <2>2, <2>3, PartsMean
  <2>5. b = EncodePlaintext(v, f)
    BY <2>2, <2>3, EncodeParts
  <2> QED BY <2>4, <2>5
<1>5. ASSUME IsPlaintext(v), Encodable(v, f), b = EncodePlaintext(v, f)
      PROVE  d \in DecodePlaintext(b)
  <2> DEFINE rs == v.credentials
             ws == v.wifi
             ds == v.days
  <2>1. v = Parts(rs, ws, ds)
    BY <1>5, PlaintextParts
  <2> HIDE DEF rs, ws, ds
  <2>2. GoodParts(f, rs, ws, ds)
    BY <1>5, <2>1, PartsMean
  <2>3. b = PartsBytes(f, rs, ws, ds)
    BY <1>5, <2>1, <2>2, EncodeParts
  <2>4. Decodes(b, f, rs, ws, ds)
    BY <2>2, <2>3 DEF Decodes
  <2> QED BY <1>3, <2>1, <2>4, DecodeMeans
<1> QED BY <1>4, <1>5 DEF d

\* A plaintext is written as bytes.
LEMMA EncodeIsBytes ==
    ASSUME NEW v, IsPlaintext(v), NEW f, Encodable(v, f)
    PROVE  EncodePlaintext(v, f) \in ByteStrings
<1> DEFINE rs == v.credentials
           ws == v.wifi
           ds == v.days
<1>1. v = Parts(rs, ws, ds)
  BY PlaintextParts
<1> HIDE DEF rs, ws, ds
<1>2. GoodParts(f, rs, ws, ds)
  BY <1>1, PartsMean
<1>3. EncodePlaintext(v, f) = PartsBytes(f, rs, ws, ds)
  BY <1>1, <1>2, EncodeParts
<1>4. ((PrefixBytes(f, Len(rs)) \o RecordsBytes(rs)) \o WifiBytes(ws)) \o DaysBytes(ds, f) \in Seq(Byte)
  BY <1>2, GoodBytes, FourLength
<1> QED BY <1>3, <1>4 DEF PartsBytes, ByteStrings

\* A decoded value is a record of a format and a value.
LEMMA DecodedShape ==
    ASSUME NEW b \in ByteStrings, NEW d \in DecodePlaintext(b)
    PROVE  d = [format |-> d.format, value |-> d.value]
BY DecodeMeans

-----------------------------------------------------------------------------

\* What encode_plaintext writes, decode_plaintext reads as what was meant, and
\* as nothing else, however many accounts there are and whatever the limits.
\* About: encode_plaintext and decode_plaintext (vault_format.cpp).
THEOREM PlaintextRoundTrip ==
    ASSUME NEW v, IsPlaintext(v), NEW f, Encodable(v, f)
    PROVE  DecodePlaintext(EncodePlaintext(v, f)) = {[format |-> f, value |-> v]}
<1> DEFINE b == EncodePlaintext(v, f)
           d == [format |-> f, value |-> v]
<1>1. b \in ByteStrings
  BY EncodeIsBytes
<1>2. d \in DecodePlaintext(b)
  BY <1>1, DecodeIs
<1> HIDE DEF b, d
<1>3. \A c \in DecodePlaintext(b) : c = d
  BY <1>1, <1>2, DecodeOnce
<1>4. DecodePlaintext(b) = {d}
  BY <1>2, <1>3
<1> QED BY <1>4 DEF b, d

\* decode_plaintext accepts nothing that encode_plaintext does not write, and
\* gives back the value it was written for.
\* About: every check of decode_plaintext (vault_format.cpp).
THEOREM PlaintextCanonical ==
    ASSUME NEW b \in Seq(Byte), NEW d \in DecodePlaintext(b)
    PROVE  /\ IsPlaintext(d.value) /\ Encodable(d.value, d.format)
           /\ EncodePlaintext(d.value, d.format) = b
<1> DEFINE f == d.format
           v == d.value
<1>1. b \in ByteStrings
  BY DEF ByteStrings
<1>2. [format |-> f, value |-> v] \in DecodePlaintext(b)
  BY <1>1, DecodedShape
<1> HIDE DEF f, v
<1>3. IsPlaintext(v) /\ Encodable(v, f) /\ b = EncodePlaintext(v, f)
  BY <1>1, <1>2, DecodeIs
<1> QED BY <1>3 DEF f, v

-----------------------------------------------------------------------------
(* The slot image                                                          *)

StoredEnvelopes ==
    [schema : Word, format : Word, vault : Byte, generation : Word, nonce : Byte, tag : Byte,
     ciphertext : Seq(Byte)]

\* The fields of its header, and its bytes.
HeaderValues(e) == <<kEnvelopeMagic, e.schema, e.format, e.vault, e.generation, e.nonce, e.tag,
                     Len(e.ciphertext)>>
HeaderBytes(e) ==
    <<kEnvelopeMagic>> \o LittleU16(e.schema) \o LittleU16(e.format) \o <<e.vault>>
    \o LittleU16(e.generation) \o <<e.nonce, e.tag>> \o LittleU24(Len(e.ciphertext))

\* The kinds of the fields of an envelope.
LEMMA EnvelopeKindsAre ==
    /\ Len(EnvelopeKinds) = 8
    /\ EnvelopeKinds[1] = "u8" /\ EnvelopeKinds[2] = "little" /\ EnvelopeKinds[3] = "little"
    /\ EnvelopeKinds[4] = "u8" /\ EnvelopeKinds[5] = "little" /\ EnvelopeKinds[6] = "u8"
    /\ EnvelopeKinds[7] = "u8" /\ EnvelopeKinds[8] = "size"
BY DEF EnvelopeKinds

\* They are kinds of field.
LEMMA EnvelopeKindsAreFields == \A i \in 1..8 : EnvelopeKinds[i] \in Fields
<1>1. \A i \in 1..8 : i = 1 \/ i = 2 \/ i = 3 \/ i = 4 \/ i = 5 \/ i = 6 \/ i = 7 \/ i = 8
  OBVIOUS
<1> QED BY <1>1, EnvelopeKindsAre DEF Fields

\* The k-th field of an envelope adds its bytes.
LEMMA HeaderStep ==
    ASSUME NEW vs, IsValues(vs, EnvelopeKinds, 8), NEW k \in 1..8, NEW j, j = k - 1
    PROVE  Bytes(EnvelopeKinds, Prefix(vs, k))
              = Bytes(EnvelopeKinds, Prefix(vs, j)) \o Writes(EnvelopeKinds[k], vs[k])
BY EnvelopeKindsAreFields, BytesPrefix

\* The bytes of eight header values.
LEMMA HeaderValuesBytes ==
    ASSUME NEW vs, IsValues(vs, EnvelopeKinds, 8)
    PROVE  Bytes(EnvelopeKinds, vs) =
              <<vs[1]>> \o LittleU16(vs[2]) \o LittleU16(vs[3]) \o <<vs[4]>>
              \o LittleU16(vs[5]) \o <<vs[6], vs[7]>> \o LittleU24(vs[8])
<1> DEFINE P(k) == Bytes(EnvelopeKinds, Prefix(vs, k))
           W(k) == Writes(EnvelopeKinds[k], vs[k])
<1>1. P(5) \in ByteStrings
  <2>1. 6 \in 1..8 /\ 5 = 6 - 1
    OBVIOUS
  <2>2. Bytes(EnvelopeKinds, Prefix(vs, 6 - 1)) \in ByteStrings
    BY <2>1, EnvelopeKindsAreFields, BytesPrefix
  <2> QED BY <2>1, <2>2
<1>2. P(0) = <<>> /\ P(8) = Bytes(EnvelopeKinds, vs)
  BY PrefixNone, PrefixWhole, BytesEmpty
<1>3. /\ W(1) = <<vs[1]>> /\ W(2) = LittleU16(vs[2]) /\ W(3) = LittleU16(vs[3])
      /\ W(4) = <<vs[4]>> /\ W(5) = LittleU16(vs[5]) /\ W(6) = <<vs[6]>>
      /\ W(7) = <<vs[7]>> /\ W(8) = LittleU24(vs[8])
  BY EnvelopeKindsAre, KindTables
<1>4. /\ P(1) = P(0) \o W(1) /\ P(2) = P(1) \o W(2) /\ P(3) = P(2) \o W(3)
      /\ P(4) = P(3) \o W(4) /\ P(5) = P(4) \o W(5) /\ P(6) = P(5) \o W(6)
      /\ P(7) = P(6) \o W(7) /\ P(8) = P(7) \o W(8)
  <2>1. \A k \in 1..8 : \A j : j = k - 1 => P(k) = P(j) \o W(k)
    BY HeaderStep
  <2> HIDE DEF P, W
  <2>2. P(1) = P(0) \o W(1)
    <3>1. 1 \in 1..8 /\ 0 = 1 - 1
      OBVIOUS
    <3> QED BY <2>1, <3>1, Zenon
  <2>3. P(2) = P(1) \o W(2)
    <3>1. 2 \in 1..8 /\ 1 = 2 - 1
      OBVIOUS
    <3> QED BY <2>1, <3>1, Zenon
  <2>4. P(3) = P(2) \o W(3)
    <3>1. 3 \in 1..8 /\ 2 = 3 - 1
      OBVIOUS
    <3> QED BY <2>1, <3>1, Zenon
  <2>5. P(4) = P(3) \o W(4)
    <3>1. 4 \in 1..8 /\ 3 = 4 - 1
      OBVIOUS
    <3> QED BY <2>1, <3>1, Zenon
  <2>6. P(5) = P(4) \o W(5)
    <3>1. 5 \in 1..8 /\ 4 = 5 - 1
      OBVIOUS
    <3> QED BY <2>1, <3>1, Zenon
  <2>7. P(6) = P(5) \o W(6)
    <3>1. 6 \in 1..8 /\ 5 = 6 - 1
      OBVIOUS
    <3> QED BY <2>1, <3>1, Zenon
  <2>8. P(7) = P(6) \o W(7)
    <3>1. 7 \in 1..8 /\ 6 = 7 - 1
      OBVIOUS
    <3> QED BY <2>1, <3>1, Zenon
  <2>9. P(8) = P(7) \o W(8)
    <3>1. 8 \in 1..8 /\ 7 = 8 - 1
      OBVIOUS
    <3> QED BY <2>1, <3>1, Zenon
  <2> QED BY <2>2, <2>3, <2>4, <2>5, <2>6, <2>7, <2>8, <2>9
<1>5. vs[1] \in Byte /\ vs[6] \in Byte /\ vs[7] \in Byte
  <2>1. /\ vs[1] \in Values(EnvelopeKinds[1]) /\ vs[6] \in Values(EnvelopeKinds[6])
        /\ vs[7] \in Values(EnvelopeKinds[7])
    BY DEF IsValues
  <2> QED BY <2>1, EnvelopeKindsAre, KindTables
<1> HIDE DEF P, W
<1>6. P(1) = <<vs[1]>>
  BY <1>2, <1>3, <1>4, <1>5, ConcatEmptySeq, Bytes1
<1>7. P(7) = P(5) \o <<vs[6], vs[7]>>
  <2>1. (P(5) \o <<vs[6]>>) \o <<vs[7]>> = P(5) \o (<<vs[6]>> \o <<vs[7]>>)
    BY <1>1, <1>5, Bytes1, ConcatAssociative DEF ByteStrings
  <2>2. <<vs[6]>> \o <<vs[7]>> = <<vs[6], vs[7]>>
    BY <1>5, Pair
  <2> QED BY <1>3, <1>4, <2>1, <2>2
<1>8. P(8) = <<vs[1]>> \o LittleU16(vs[2]) \o LittleU16(vs[3]) \o <<vs[4]>>
             \o LittleU16(vs[5]) \o <<vs[6], vs[7]>> \o LittleU24(vs[8])
  BY <1>3, <1>4, <1>6, <1>7
<1> QED BY <1>2, <1>8

\* An envelope from its header values and its ciphertext.
EnvelopeOf(vs, c) ==
    [schema |-> vs[2], format |-> vs[3], vault |-> vs[4], generation |-> vs[5],
     nonce |-> vs[6], tag |-> vs[7], ciphertext |-> c]

\* The header of a valid envelope has values of those kinds.
LEMMA HeaderValuesAre ==
    ASSUME NEW e \in StoredEnvelopes, ValidEnvelope(e)
    PROVE  /\ IsValues(HeaderValues(e), EnvelopeKinds, 8)
           /\ HeaderValues(e)[1] = kEnvelopeMagic /\ HeaderValues(e)[8] = Len(e.ciphertext)
           /\ EnvelopeOf(HeaderValues(e), e.ciphertext) = e
           /\ Bytes(EnvelopeKinds, HeaderValues(e)) = HeaderBytes(e)
<1> DEFINE vs == HeaderValues(e)
<1>1. /\ e.schema \in Word /\ e.format \in Word /\ e.vault \in Byte /\ e.generation \in Word
      /\ e.nonce \in Byte /\ e.tag \in Byte /\ e.ciphertext \in Seq(Byte)
  BY DEF StoredEnvelopes
<1>2. kEnvelopeMagic \in Byte
  BY DEF kEnvelopeMagic, Byte
<1>3. Len(e.ciphertext) \in Word24
  <2> DEFINE n == Len(e.ciphertext)
  <2>1. n \in Nat /\ n <= kMaxPersistedCiphertextBytes
    BY <1>1, LenProperties DEF ValidEnvelope
  <2> HIDE DEF n
  <2>2. n \in Word24
    BY SMT, <2>1, Limits DEF Word24
  <2> QED BY <2>2 DEF n
<1>4. vs \in Seq(AnyValue) /\ Len(vs) = 8
  BY SMT, <1>1, <1>2, <1>3 DEF HeaderValues, AnyValue
<1>5. /\ vs[1] = kEnvelopeMagic /\ vs[2] = e.schema /\ vs[3] = e.format /\ vs[4] = e.vault
      /\ vs[5] = e.generation /\ vs[6] = e.nonce /\ vs[7] = e.tag /\ vs[8] = Len(e.ciphertext)
  BY DEF HeaderValues
<1> HIDE DEF vs
<1>6. EnvelopeOf(vs, e.ciphertext) = e
  <2>1. e = [schema |-> e.schema, format |-> e.format, vault |-> e.vault,
             generation |-> e.generation, nonce |-> e.nonce, tag |-> e.tag,
             ciphertext |-> e.ciphertext]
    BY DEF StoredEnvelopes
  <2> QED BY <1>5, <2>1 DEF EnvelopeOf
<1>7. /\ vs[1] \in Values("u8") /\ vs[2] \in Values("little") /\ vs[3] \in Values("little")
      /\ vs[4] \in Values("u8") /\ vs[5] \in Values("little") /\ vs[6] \in Values("u8")
      /\ vs[7] \in Values("u8") /\ vs[8] \in Values("size")
  BY <1>1, <1>2, <1>3, <1>5, KindTables
<1>8. ASSUME NEW i \in 1..8 PROVE vs[i] \in Values(EnvelopeKinds[i])
  <2>1. i = 1 \/ i = 2 \/ i = 3 \/ i = 4 \/ i = 5 \/ i = 6 \/ i = 7 \/ i = 8
    OBVIOUS
  <2> QED BY <1>7, <2>1, EnvelopeKindsAre
<1>9. IsValues(vs, EnvelopeKinds, 8)
  BY <1>4, <1>8 DEF IsValues
<1>10. Bytes(EnvelopeKinds, vs) = HeaderBytes(e)
  <2>1. Bytes(EnvelopeKinds, vs) =
           <<vs[1]>> \o LittleU16(vs[2]) \o LittleU16(vs[3]) \o <<vs[4]>>
           \o LittleU16(vs[5]) \o <<vs[6], vs[7]>> \o LittleU24(vs[8])
    BY <1>9, HeaderValuesBytes
  <2> QED BY <1>5, <2>1 DEF HeaderBytes
<1> QED BY <1>5, <1>6, <1>9, <1>10 DEF vs

\* The header of a valid envelope is bytes.
LEMMA HeaderIsBytes ==
    ASSUME NEW e \in StoredEnvelopes, ValidEnvelope(e) PROVE HeaderBytes(e) \in Seq(Byte)
<1>1. IsValues(HeaderValues(e), EnvelopeKinds, 8)
  BY HeaderValuesAre
<1>2. Bytes(EnvelopeKinds, HeaderValues(e)) \in ByteStrings
  BY <1>1, EnvelopeKindsAreFields, ValuesBytes
<1> QED BY <1>2, HeaderValuesAre DEF ByteStrings

\* The values that were read are those of an envelope.
LEMMA EnvelopeOfValues ==
    ASSUME NEW vs, IsValues(vs, EnvelopeKinds, 8), vs[1] = kEnvelopeMagic, NEW c \in Seq(Byte),
           vs[8] = Len(c), ValidEnvelope(EnvelopeOf(vs, c))
    PROVE  /\ EnvelopeOf(vs, c) \in StoredEnvelopes
           /\ Bytes(EnvelopeKinds, vs) = HeaderBytes(EnvelopeOf(vs, c))
<1> DEFINE e == EnvelopeOf(vs, c)
<1>1. /\ vs[2] \in Word /\ vs[3] \in Word /\ vs[4] \in Byte /\ vs[5] \in Word
      /\ vs[6] \in Byte /\ vs[7] \in Byte
  <2>1. \A i \in 1..8 : vs[i] \in Values(EnvelopeKinds[i])
    BY DEF IsValues
  <2>2. /\ vs[2] \in Values("little") /\ vs[3] \in Values("little") /\ vs[4] \in Values("u8")
        /\ vs[5] \in Values("little") /\ vs[6] \in Values("u8") /\ vs[7] \in Values("u8")
    BY <2>1, EnvelopeKindsAre
  <2> QED BY <2>2, KindTables
<1>2. e \in StoredEnvelopes
  BY <1>1 DEF EnvelopeOf, StoredEnvelopes
<1>3. /\ e.schema = vs[2] /\ e.format = vs[3] /\ e.vault = vs[4] /\ e.generation = vs[5]
      /\ e.nonce = vs[6] /\ e.tag = vs[7] /\ e.ciphertext = c
  BY DEF EnvelopeOf
<1> HIDE DEF e
<1>4. Bytes(EnvelopeKinds, vs) =
         <<vs[1]>> \o LittleU16(vs[2]) \o LittleU16(vs[3]) \o <<vs[4]>>
         \o LittleU16(vs[5]) \o <<vs[6], vs[7]>> \o LittleU24(vs[8])
  BY HeaderValuesBytes
<1>5. Bytes(EnvelopeKinds, vs) = HeaderBytes(e)
  BY <1>3, <1>4 DEF HeaderBytes
<1> QED BY <1>2, <1>5 DEF e

\* encode_envelope writes the header and the ciphertext.
LEMMA EncodeEnvelopeIs ==
    ASSUME NEW e, ValidEnvelope(e) PROVE EncodeEnvelope(e) = HeaderBytes(e) \o e.ciphertext
BY Zenon DEF EncodeEnvelope, HeaderBytes

\* The ciphertext is the rest, as long as announced.
LEMMA ReadCiphertextMeans ==
    ASSUME NEW b \in Seq(Byte), NEW at \in 0..Len(b), NEW size \in Nat, NEW c
    PROVE  c \in ReadCiphertext(b, at, size) <=>
              /\ size \in 1..kMaxPersistedCiphertextBytes
              /\ c \in Seq(Byte) /\ Len(c) = size /\ IsAt(b, at, c) /\ at + size = Len(b)
<1> DEFINE good == size \in 1..kMaxPersistedCiphertextBytes
<1>1. c \in ReadCiphertext(b, at, size) <=>
         good /\ \E x \in Take(b, at, size) : x.at = Len(b) /\ c = x.value
  BY Zenon DEF ReadCiphertext
<1> HIDE DEF good
<1>2. ASSUME NEW x, x \in Take(b, at, size), x.at = Len(b), c = x.value
      PROVE  c \in Seq(Byte) /\ Len(c) = size /\ IsAt(b, at, c) /\ at + size = Len(b)
  <2>1. /\ x.value \in Seq(Byte) /\ Len(x.value) = size /\ IsAt(b, at, x.value)
        /\ x = [at |-> at + size, value |-> x.value]
    BY <1>2, TakeGives
  <2>2. x.at = at + size
    BY <2>1
  <2> QED BY <1>2, <2>1, <2>2
<1>3. ASSUME c \in Seq(Byte), Len(c) = size, IsAt(b, at, c), at + size = Len(b)
      PROVE  \E x \in Take(b, at, size) : x.at = Len(b) /\ c = x.value
  <2> DEFINE x == [at |-> at + size, value |-> c]
  <2>1. x.at = Len(b) /\ c = x.value
    BY <1>3
  <2>2. x \in Take(b, at, size)
    BY <1>3, TakeMeans
  <2> QED BY <2>1, <2>2
<1> QED BY <1>1, <1>2, <1>3 DEF good

\* decode_envelope step by step.
LEMMA DecodeEnvelopeSteps ==
    ASSUME NEW b, NEW e
    PROVE  e \in DecodeEnvelope(b) <=>
              \E h \in ReadAll(b, 0, EnvelopeKinds) :
                 \E c \in ReadCiphertext(b, h.at, h.value[8]) :
                    /\ h.value[1] = kEnvelopeMagic
                    /\ e = EnvelopeOf(h.value, c) /\ ValidEnvelope(e)
<1> DEFINE One(h) == {EnvelopeOf(h.value, c) : c \in ReadCiphertext(b, h.at, h.value[8])}
           Heads == {x \in ReadAll(b, 0, EnvelopeKinds) : x.value[1] = kEnvelopeMagic}
           All == UNION {One(h) : h \in Heads}
<1>1. DecodeEnvelope(b) = {x \in All : ValidEnvelope(x)}
  BY Zenon DEF DecodeEnvelope, EnvelopeOf
<1>2. ASSUME NEW h
      PROVE  e \in One(h) <=>
                \E c \in ReadCiphertext(b, h.at, h.value[8]) : e = EnvelopeOf(h.value, c)
  BY Zenon
<1> HIDE DEF One
<1>3. \A h : h \in Heads <=> h \in ReadAll(b, 0, EnvelopeKinds) /\ h.value[1] = kEnvelopeMagic
  BY Zenon
<1> HIDE DEF Heads
<1>4. e \in All <=> \E h \in Heads : e \in One(h)
  OBVIOUS
<1> HIDE DEF All
<1>5. e \in DecodeEnvelope(b) <=> e \in All /\ ValidEnvelope(e)
  BY <1>1
<1> QED BY <1>2, <1>3, <1>4, <1>5, Zenon

\* decode_envelope reads exactly what encode_envelope writes.
LEMMA DecodeEnvelopeMeans ==
    ASSUME NEW b \in Seq(Byte), NEW e
    PROVE  e \in DecodeEnvelope(b) <=>
              e \in StoredEnvelopes /\ ValidEnvelope(e) /\ b = EncodeEnvelope(e)
<1> DEFINE zero == 0
<1>0. b \in ByteStrings /\ Len(b) \in Nat /\ zero \in 0..Len(b) /\ zero = 0
  BY LenProperties DEF ByteStrings
<1> HIDE DEF zero
<1>1. \A h : h \in ReadAll(b, zero, EnvelopeKinds) <=>
         \E vs : IsValues(vs, EnvelopeKinds, 8) /\ IsRead(h, b, zero, vs, Bytes(EnvelopeKinds, vs))
  <2>1. Len(EnvelopeKinds) \in Nat /\ \A i \in 1..Len(EnvelopeKinds) : EnvelopeKinds[i] \in Fields
    BY EnvelopeKindsAre, EnvelopeKindsAreFields
  <2>2. \A h : h \in ReadAll(b, zero, EnvelopeKinds) <=>
          \E vs : /\ IsValues(vs, EnvelopeKinds, Len(EnvelopeKinds))
                  /\ IsRead(h, b, zero, vs, Bytes(EnvelopeKinds, vs))
    BY <1>0, <2>1, ReadAllReads
  <2> QED BY <2>2, EnvelopeKindsAre
<1>2. ASSUME e \in DecodeEnvelope(b)
      PROVE  e \in StoredEnvelopes /\ ValidEnvelope(e) /\ b = EncodeEnvelope(e)
  <2>0. PICK h \in ReadAll(b, zero, EnvelopeKinds) :
           \E c \in ReadCiphertext(b, h.at, h.value[8]) :
              h.value[1] = kEnvelopeMagic /\ e = EnvelopeOf(h.value, c) /\ ValidEnvelope(e)
    BY <1>0, <1>2, DecodeEnvelopeSteps
  <2>1. PICK c \in ReadCiphertext(b, h.at, h.value[8]) :
           h.value[1] = kEnvelopeMagic /\ e = EnvelopeOf(h.value, c) /\ ValidEnvelope(e)
    BY <2>0
  <2>2. PICK vs : IsValues(vs, EnvelopeKinds, 8)
                  /\ IsRead(h, b, zero, vs, Bytes(EnvelopeKinds, vs))
    BY <1>1, <2>0
  <2> DEFINE u == Bytes(EnvelopeKinds, vs)
  <2>3. u \in Seq(Byte)
    BY <2>2, EnvelopeKindsAreFields, ValuesBytes DEF ByteStrings
  <2>4. h.at = zero + Len(u) /\ h.value = vs /\ h.at \in 0..Len(b) /\ IsAt(b, zero, u)
    BY <1>0, <2>2, <2>3, ReadEnds
  <2> HIDE DEF u
  <2>5. vs[8] \in Nat
    <3>1. vs[8] \in Values(EnvelopeKinds[8])
      BY <2>2 DEF IsValues
    <3>2. vs[8] \in Word24
      BY <3>1, EnvelopeKindsAre, KindTables
    <3> QED BY SMT, <3>2 DEF Word24
  <2>6. c \in Seq(Byte) /\ Len(c) = vs[8] /\ IsAt(b, h.at, c) /\ h.at + vs[8] = Len(b)
    BY <2>1, <2>4, <2>5, ReadCiphertextMeans
  <2>7. b = u \o c
    <3> DEFINE w == u \o c
    <3>1. w \in Seq(Byte) /\ Len(w) = Len(u) + Len(c) /\ Len(u) \in Nat /\ Len(c) \in Nat
      BY <2>3, <2>6, ConcatProperties, LenProperties
    <3>2. Len(w) = Len(b)
      BY <1>0, <2>4, <2>6, <3>1
    <3>3. zero \in Nat /\ IsAt(b, zero + Len(u), c)
      BY <1>0, <2>4, <2>6
    <3>4. IsAt(b, zero, w)
      BY <2>3, <2>4, <2>6, <3>3, AtConcat
    <3> HIDE DEF w
    <3>5. b = w
      BY <1>0, <3>1, <3>2, <3>4, AtWhole
    <3> QED BY <3>5 DEF w
  <2>8. vs[1] = kEnvelopeMagic /\ e = EnvelopeOf(vs, c) /\ ValidEnvelope(e)
    BY <2>1, <2>4
  <2>9. e \in StoredEnvelopes /\ u = HeaderBytes(e)
    BY <2>2, <2>6, <2>8, EnvelopeOfValues DEF u
  <2>10. e.ciphertext = c
    BY <2>8 DEF EnvelopeOf
  <2>11. EncodeEnvelope(e) = HeaderBytes(e) \o e.ciphertext
    BY <2>8, EncodeEnvelopeIs
  <2> QED BY <2>7, <2>8, <2>9, <2>10, <2>11
<1>3. ASSUME e \in StoredEnvelopes, ValidEnvelope(e), b = EncodeEnvelope(e)
      PROVE  e \in DecodeEnvelope(b)
  <2> DEFINE vs == HeaderValues(e)
             u == HeaderBytes(e)
             c == e.ciphertext
             h == [at |-> zero + Len(u), value |-> vs]
  <2>1. /\ IsValues(vs, EnvelopeKinds, 8)
        /\ vs[1] = kEnvelopeMagic /\ vs[8] = Len(c)
        /\ EnvelopeOf(vs, c) = e /\ Bytes(EnvelopeKinds, vs) = u
    BY <1>3, HeaderValuesAre
  <2>2. u \in Seq(Byte) /\ c \in Seq(Byte) /\ b = u \o c
    BY <1>3, HeaderIsBytes, EncodeEnvelopeIs DEF StoredEnvelopes
  <2>3. Len(c) \in 1..kMaxPersistedCiphertextBytes
    BY <1>3 DEF ValidEnvelope
  <2> HIDE DEF vs, u, c
  <2>4. h.at = zero + Len(u) /\ h.value = vs
    OBVIOUS
  <2>5. Len(u) \in Nat /\ Len(c) \in Nat /\ Len(b) = Len(u) + Len(c)
    BY <2>2, ConcatProperties, LenProperties
  <2>6. IsAt(b, zero, u) /\ IsAt(b, h.at, c)
    <3> DEFINE w == u \o c
    <3>1. w \in Seq(Byte) /\ b = w
      BY <2>2, ConcatProperties
    <3> HIDE DEF w
    <3>2. IsAt(b, zero, w)
      BY <1>0, <3>1, AtWhole
    <3>3. zero \in Nat
      BY <1>0
    <3> QED BY <2>2, <2>4, <3>2, <3>3, AtConcat DEF w
  <2>7. h \in ReadAll(b, zero, EnvelopeKinds)
    <3>1. IsRead(h, b, zero, vs, Bytes(EnvelopeKinds, vs))
      BY <2>1, <2>6 DEF IsRead
    <3> QED BY <1>1, <2>1, <3>1
  <2> HIDE DEF h
  <2>8. h.at \in 0..Len(b) /\ h.at + Len(c) = Len(b)
    BY <1>0, <2>4, <2>5
  <2>9. c \in ReadCiphertext(b, h.at, Len(c))
    BY <2>2, <2>3, <2>5, <2>6, <2>8, ReadCiphertextMeans
  <2>10. c \in ReadCiphertext(b, h.at, h.value[8])
    BY <2>1, <2>4, <2>9
  <2>11. h.value[1] = kEnvelopeMagic /\ e = EnvelopeOf(h.value, c)
    BY <2>1, <2>4
  <2> QED BY <1>0, <1>3, <2>7, <2>10, <2>11, DecodeEnvelopeSteps
<1> QED BY <1>2, <1>3

\* It has at most one result.
LEMMA DecodeEnvelopeOnce ==
    ASSUME NEW b \in Seq(Byte), NEW d \in DecodeEnvelope(b), NEW e \in DecodeEnvelope(b)
    PROVE  d = e
<1> DEFINE zero == 0
<1>0. zero = 0
  OBVIOUS
<1> HIDE DEF zero
<1>a. ASSUME NEW w \in DecodeEnvelope(b)
      PROVE  \E g \in ReadAll(b, zero, EnvelopeKinds) :
                \E c \in ReadCiphertext(b, g.at, g.value[8]) : w = EnvelopeOf(g.value, c)
  <2>1. w \in DecodeEnvelope(b) <=>
           \E g \in ReadAll(b, 0, EnvelopeKinds) :
              \E c \in ReadCiphertext(b, g.at, g.value[8]) :
                 /\ g.value[1] = kEnvelopeMagic
                 /\ w = EnvelopeOf(g.value, c) /\ ValidEnvelope(w)
    BY DecodeEnvelopeSteps
  <2>2. \E g \in ReadAll(b, 0, EnvelopeKinds) :
           \E c \in ReadCiphertext(b, g.at, g.value[8]) : w = EnvelopeOf(g.value, c)
    BY <1>a, <2>1, Zenon
  <2> QED BY <1>0, <2>2, Zenon
<1>1. PICK h \in ReadAll(b, zero, EnvelopeKinds) :
         \E c \in ReadCiphertext(b, h.at, h.value[8]) : d = EnvelopeOf(h.value, c)
  BY <1>a, Zenon
<1>2. PICK k \in ReadAll(b, zero, EnvelopeKinds) :
         \E c \in ReadCiphertext(b, k.at, k.value[8]) : e = EnvelopeOf(k.value, c)
  BY <1>a, Zenon
<1>3. Len(EnvelopeKinds) \in Nat /\ \A i \in 1..Len(EnvelopeKinds) : EnvelopeKinds[i] \in Fields
  BY EnvelopeKindsAre, EnvelopeKindsAreFields
<1>4. h = k
  BY <1>1, <1>2, <1>3, ReadAllOnce
<1>5. PICK c \in ReadCiphertext(b, h.at, h.value[8]) : d = EnvelopeOf(h.value, c)
  BY <1>1
<1>6. PICK x \in ReadCiphertext(b, h.at, h.value[8]) : e = EnvelopeOf(h.value, x)
  BY <1>2, <1>4
<1>7. c = x
  <2>1. \A at, n : \A p, q \in ReadCiphertext(b, at, n) : p = q
    BY DEF ReadCiphertext, Take
  <2> QED BY <2>1
<1> QED BY <1>5, <1>6, <1>7

-----------------------------------------------------------------------------
(* What is sealed                                                          *)

\* Multiples of 256 do not change a byte.
LEMMA ModShift ==
    ASSUME NEW p \in Int, p >= 0, p <= 255, NEW k \in Int
    PROVE  (p + 256 * k) % 256 = p
OBVIOUS

\* Deciphering what was enciphered gives it back.
LEMMA CipherInverse ==
    ASSUME NEW s \in Seq(Byte), NEW key \in Nat, NEW nonce \in Nat
    PROVE  /\ Encipher(s, key, nonce) \in Seq(Byte)
           /\ Len(Encipher(s, key, nonce)) = Len(s)
           /\ Decipher(Encipher(s, key, nonce), key, nonce) = s
<1> DEFINE c == Encipher(s, key, nonce)
           n == Len(s)
<1>1. n \in Nat /\ \A i \in 1..n : s[i] \in Byte
  BY LenProperties, ElementOfSeq
<1>2. c = [i \in 1..n |-> (s[i] + key + nonce) % 256]
  BY DEF Encipher
<1>3. ASSUME NEW i \in 1..n
      PROVE  /\ (s[i] + key + nonce) % 256 \in Byte
             /\ (((s[i] + key + nonce) % 256) - key - nonce) % 256 = s[i]
  <2> DEFINE p == s[i]
             t == key + nonce
             m == (p + t) % 256
             q == (p + t) \div 256
  <2>1. t \in Nat
    OBVIOUS
  <2>2. s[i] \in Byte
    BY <1>1
  <2>3. p \in 0..255
    BY <2>2 DEF Byte
  <2> HIDE DEF p
  <2>4. p \in Int /\ p >= 0 /\ p <= 255
    BY <2>3
  <2>5. p + key + nonce = p + t
    BY <2>4
  <2> HIDE DEF t
  <2>6. m \in Int /\ m >= 0 /\ m <= 255 /\ q \in Int /\ p + t = m + 256 * q
    BY <2>1, <2>4
  <2> HIDE DEF m, q
  <2>7. m - t = p + 256 * (0 - q)
    BY <2>1, <2>4, <2>6
  <2>8. (p + 256 * (0 - q)) % 256 = p
    BY <2>4, <2>6, ModShift
  <2>9. (m - t) % 256 = p /\ m \in Byte
    BY <2>6, <2>7, <2>8 DEF Byte
  <2>10. m - key - nonce = m - t
    BY <2>6 DEF t
  <2> QED BY <2>5, <2>9, <2>10 DEF p, m
<1> HIDE DEF c
<1>4. c \in Seq(Byte) /\ Len(c) = n
  BY <1>1, <1>2, <1>3
<1>5. Decipher(c, key, nonce) = [i \in 1..n |-> (c[i] - key - nonce) % 256]
  BY <1>4 DEF Decipher
<1> DEFINE d == Decipher(c, key, nonce)
<1>6. \A i \in 1..n : (c[i] - key - nonce) % 256 = s[i]
  BY <1>2, <1>3
<1>7. d \in Seq(Byte) /\ Len(d) = n /\ \A i \in 1..n : d[i] = s[i]
  BY <1>1, <1>5, <1>6
<1> HIDE DEF d
<1>8. d = s
  BY <1>7, SeqEqual
<1> QED BY <1>4, <1>8 DEF c, d

-----------------------------------------------------------------------------
(* The specification                                                       *)

\* What the constants are.
LEMMA HeadersAre ==
    ASSUME NEW h \in Headers
    PROVE  /\ h.format \in kFormats /\ h.format \in Word /\ h.vault \in Byte
           /\ h.generation \in Word /\ h.generation # 0 /\ h.generation \in Nat
<1>1. h \in [format : {1, 2}, vault : Byte, generation : Word \ {0}]
  BY FormatAssumption, Zenon
<1>2. h.format \in {1, 2} /\ h.vault \in Byte /\ h.generation \in Word \ {0}
  BY <1>1
<1>3. \A n \in Word : n \in Nat
  BY DEF Word
<1> QED BY <1>2, <1>3, FormatsAre DEF kFormats

\* An envelope has the types of the code's structure.
LEMMA EnvelopeIs ==
    ASSUME NEW s \in Seq(Byte), NEW h \in Headers
    PROVE  /\ Envelope(s, h) \in StoredEnvelopes
           /\ Envelope(s, h).schema = kSchema /\ Envelope(s, h).format = h.format
           /\ Envelope(s, h).generation = h.generation /\ Envelope(s, h).nonce = kNonce
           /\ Envelope(s, h).vault = h.vault /\ Envelope(s, h).tag = kTag
           /\ Envelope(s, h).ciphertext = Encipher(s, 7, kNonce)
<1>1. Encipher(s, 7, kNonce) \in Seq(Byte)
  BY CipherInverse DEF kNonce
<1>2. kSchema \in Word /\ kNonce \in Byte /\ kTag \in Byte
  BY SMT DEF kSchema, kNonce, kTag, Word, Byte
<1> HIDE DEF kSchema, kNonce, kTag
<1> QED BY <1>1, <1>2, HeadersAre DEF Envelope, StoredEnvelopes

\* encode_envelope writes bytes.
LEMMA EncodedIsBytes ==
    ASSUME NEW e \in StoredEnvelopes PROVE EncodeEnvelope(e) \in Seq(Byte)
<1>1. CASE ~ValidEnvelope(e)
  <2>1. EncodeEnvelope(e) = <<>>
    BY <1>1, Zenon DEF EncodeEnvelope
  <2> QED BY <2>1
<1>2. CASE ValidEnvelope(e)
  <2>1. HeaderBytes(e) \in Seq(Byte)
    BY <1>2, HeaderIsBytes
  <2>2. e.ciphertext \in Seq(Byte)
    BY DEF StoredEnvelopes
  <2>3. EncodeEnvelope(e) = HeaderBytes(e) \o e.ciphertext
    BY <1>2, EncodeEnvelopeIs
  <2> QED BY <2>1, <2>2, <2>3, ConcatProperties
<1> QED BY <1>1, <1>2

\* A byte string with a byte replaced, inserted or removed is a byte string.
LEMMA OffIsBytes ==
    ASSUME NEW s \in Seq(Byte), NEW c \in OneByteOff(s)
    PROVE  c \in Seq(Byte)
<1>1. EditBytes \subseteq Byte
  BY FormatAssumption, Zenon
<1>2. Len(s) \in Nat
  BY LenProperties
<1>3. ASSUME NEW i \in 1..Len(s), NEW b \in EditBytes, c = ReplaceAt(s, i, b)
      PROVE  c \in Seq(Byte)
  BY <1>1, <1>3 DEF ReplaceAt
<1>4. ASSUME NEW i \in 1..(Len(s) + 1), NEW b \in EditBytes, c = InsertAt(s, i, b)
      PROVE  c \in Seq(Byte)
  <2>1. SubSeq(s, 1, i - 1) \in Seq(Byte) /\ SubSeq(s, i, Len(s)) \in Seq(Byte)
    BY <1>2, SubSeqProperties
  <2>2. <<b>> \in Seq(Byte)
    BY <1>1
  <2> QED BY <1>4, <2>1, <2>2, ConcatProperties DEF InsertAt
<1>5. ASSUME NEW i \in 1..Len(s), c = RemoveAt(s, i) PROVE c \in Seq(Byte)
  <2>1. SubSeq(s, 1, i - 1) \in Seq(Byte) /\ SubSeq(s, i + 1, Len(s)) \in Seq(Byte)
    BY <1>2, SubSeqProperties
  <2> QED BY <1>5, <2>1, ConcatProperties DEF RemoveAt
<1>6. \/ \E i \in 1..Len(s), b \in EditBytes : c = ReplaceAt(s, i, b)
      \/ \E i \in 1..(Len(s) + 1), b \in EditBytes : c = InsertAt(s, i, b)
      \/ \E i \in 1..Len(s) : c = RemoveAt(s, i)
  BY DEF OneByteOff
<1> QED BY <1>3, <1>4, <1>5, <1>6

\* The length of two byte strings together.
LEMMA ConcatBytes ==
    ASSUME NEW u \in Seq(Byte), NEW w \in Seq(Byte)
    PROVE  u \o w \in Seq(Byte) /\ Len(u \o w) = Len(u) + Len(w)
BY ConcatProperties

\* The bytes of both.
LEMMA ConcatFirst ==
    ASSUME NEW u \in Seq(Byte), NEW w \in Seq(Byte)
    PROVE  /\ u \o w \in Seq(Byte) /\ Len(u \o w) = Len(u) + Len(w)
           /\ \A i \in 1..Len(u) : (u \o w)[i] = u[i]
           /\ \A i \in 1..Len(w) : (u \o w)[Len(u) + i] = w[i]
<1>1. Len(u) \in Nat /\ Len(w) \in Nat
  BY LenProperties
<1>2. /\ u \o w \in Seq(Byte) /\ Len(u \o w) = Len(u) + Len(w)
      /\ \A i \in 1..(Len(u) + Len(w)) :
            (u \o w)[i] = IF i <= Len(u) THEN u[i] ELSE w[i - Len(u)]
  BY ConcatProperties
<1>3. ASSUME NEW i \in 1..Len(u) PROVE (u \o w)[i] = u[i]
  <2>1. i \in 1..(Len(u) + Len(w)) /\ i <= Len(u)
    BY <1>1
  <2> QED BY <1>2, <2>1
<1>4. ASSUME NEW i \in 1..Len(w) PROVE (u \o w)[Len(u) + i] = w[i]
  <2>1. Len(u) + i \in 1..(Len(u) + Len(w)) /\ ~(Len(u) + i <= Len(u)) /\ (Len(u) + i) - Len(u) = i
    BY <1>1
  <2> QED BY <1>2, <2>1
<1> QED BY <1>2, <1>3, <1>4

\* The additional data of an envelope is bytes.
LEMMA AadBytes ==
    ASSUME NEW e \in StoredEnvelopes, e.format \in Byte
    PROVE  BuildVaultAad(e) \in Seq(Byte)
<1>1. /\ e.format \in Word /\ e.schema \in Word /\ e.vault \in Byte /\ e.generation \in Word
  BY DEF StoredEnvelopes
<1> DEFINE a == <<e.format>>
           b == U16(e.format)
           c == U16(e.schema)
           d == <<e.vault>>
           g == U16(e.generation)
<1>2. a \in Seq(Byte) /\ d \in Seq(Byte)
  BY <1>1, Bytes1
<1>3. b \in Seq(Byte) /\ c \in Seq(Byte) /\ g \in Seq(Byte)
  BY <1>1, U16Bytes
<1>4. BuildVaultAad(e) = (((a \o b) \o c) \o d) \o g
  BY DEF BuildVaultAad
<1> HIDE DEF a, b, c, d, g
<1>5. a \o b \in Seq(Byte)
  BY <1>2, <1>3, ConcatProperties
<1>6. (a \o b) \o c \in Seq(Byte)
  BY <1>3, <1>5, ConcatProperties
<1>7. ((a \o b) \o c) \o d \in Seq(Byte)
  BY <1>2, <1>6, ConcatProperties
<1>8. (((a \o b) \o c) \o d) \o g \in Seq(Byte)
  BY <1>3, <1>7, ConcatProperties
<1> QED BY <1>4, <1>8

\* The bytes of a Vault with nothing but a network name.
LEMMA NameOnlyBytes ==
    ASSUME NEW t \in Seq(Byte), Len(t) <= kMaxFieldBytes
    PROVE  /\ Len(t) \in Word /\ Sized(t) \in Seq(Byte) /\ Sized(<<>>) \in Seq(Byte)
           /\ NameOnly(t) = (PrefixBytes(1, 0) \o <<1>>) \o (Sized(t) \o Sized(<<>>))
           /\ PrefixBytes(1, 0) \in Seq(Byte) /\ Len(PrefixBytes(1, 0)) = 5
           /\ NameOnly(t) \in Seq(Byte) /\ Len(NameOnly(t)) = Len(t) + 10
<1>1. Len(t) \in Nat /\ Len(t) \in Word
  BY Limits, LenProperties DEF Word
<1>2. 1 \in kFormats /\ 1 \in Word /\ 0 \in Word /\ 1 \in Byte
  BY SMT DEF kFormats, Word, Byte
<1> DEFINE none == <<>>
           one == 1
           zero == 0
           w == [ssid |-> t, password |-> none]
           u == <<one>>
           p == PrefixBytes(one, zero)
<1>3. none \in Seq(Byte) /\ Len(none) = zero
  OBVIOUS
<1>4. u \in Seq(Byte) /\ Len(u) = 1
  BY <1>2
<1>5. Sized(t) \in Seq(Byte) /\ Len(Sized(t)) = 2 + Len(t)
  BY <1>1, SizedBytes
<1>6. Sized(none) \in Seq(Byte) /\ Len(Sized(none)) = 2
  <2>1. Len(none) \in Word
    BY <1>2, <1>3
  <2>2. Sized(none) \in Seq(Byte) /\ Len(Sized(none)) = 2 + Len(none)
    BY <1>3, <2>1, SizedBytes
  <2> QED BY <1>3, <2>2
<1>7. EncodeWifi(w) = Sized(t) \o Sized(none)
  BY DEF EncodeWifi
<1>8. NameOnly(t) = (p \o u) \o EncodeWifi(w)
  BY DEF NameOnly, PrefixBytes
<1>9. p = (u \o U16(one)) \o U16(zero)
  BY DEF PrefixBytes
<1>10. U16(one) \in Seq(Byte) /\ Len(U16(one)) = 2 /\ U16(zero) \in Seq(Byte) /\ Len(U16(zero)) = 2
  <2> HIDE DEF one, zero
  <2>1. one \in Word /\ zero \in Word
    BY <1>2 DEF one, zero
  <2> QED BY <2>1, U16Bytes
<1> HIDE DEF w, u, none, one, zero
<1>11. u \o U16(one) \in Seq(Byte) /\ Len(u \o U16(one)) = 3
  <2>1. u \o U16(one) \in Seq(Byte) /\ Len(u \o U16(one)) = Len(u) + Len(U16(one))
    BY <1>4, <1>10, ConcatBytes
  <2> QED BY <1>4, <1>10, <2>1
<1>12. (u \o U16(one)) \o U16(zero) \in Seq(Byte) /\ Len((u \o U16(one)) \o U16(zero)) = 5
  <2>1. /\ (u \o U16(one)) \o U16(zero) \in Seq(Byte)
        /\ Len((u \o U16(one)) \o U16(zero)) = Len(u \o U16(one)) + Len(U16(zero))
    BY <1>10, <1>11, ConcatBytes
  <2> QED BY <1>10, <1>11, <2>1
<1>13. p \in Seq(Byte) /\ Len(p) = 5
  BY <1>9, <1>12
<1> HIDE DEF p
<1>14. p \o u \in Seq(Byte) /\ Len(p \o u) = 6
  <2>1. p \o u \in Seq(Byte) /\ Len(p \o u) = Len(p) + Len(u)
    BY <1>4, <1>13, ConcatBytes
  <2> QED BY <1>4, <1>13, <2>1
<1>15. Sized(t) \o Sized(none) \in Seq(Byte) /\ Len(Sized(t) \o Sized(none)) = Len(t) + 4
  <2>1. /\ Sized(t) \o Sized(none) \in Seq(Byte)
        /\ Len(Sized(t) \o Sized(none)) = Len(Sized(t)) + Len(Sized(none))
    BY <1>1, <1>5, <1>6, ConcatBytes
  <2> QED BY <1>1, <1>5, <1>6, <2>1
<1>16. /\ (p \o u) \o (Sized(t) \o Sized(none)) \in Seq(Byte)
       /\ Len((p \o u) \o (Sized(t) \o Sized(none))) = Len(t) + 10
  BY <1>1, <1>14, <1>15, ConcatBytes
<1> QED BY <1>1, <1>5, <1>6, <1>7, <1>8, <1>13, <1>16 DEF p, u, one, zero, none

\* What is sealed and stored for a byte string has the right types.
LEMMA BoxTypes ==
    ASSUME NEW s \in Seq(Byte), NEW h \in Headers
    PROVE  /\ Box(Envelope(s, h), 7).aad \in Seq(Byte)
           /\ Box(Envelope(s, h), 7).ciphertext \in Seq(Byte)
           /\ EncodeEnvelope(Envelope(s, h)) \in Seq(Byte)
<1> DEFINE e == Envelope(s, h)
<1>1. e \in StoredEnvelopes /\ e.format = h.format /\ e.ciphertext = Encipher(s, 7, kNonce)
  BY EnvelopeIs
<1>2. h.format \in Byte
  BY HeadersAre, FormatsAre
<1> HIDE DEF e
<1>3. BuildVaultAad(e) \in Seq(Byte)
  BY <1>1, <1>2, AadBytes
<1>4. e.ciphertext \in Seq(Byte)
  BY <1>1 DEF StoredEnvelopes
<1>5. Box(e, 7).aad = BuildVaultAad(e) /\ Box(e, 7).ciphertext = e.ciphertext
  BY DEF Box
<1>6. EncodeEnvelope(e) \in Seq(Byte)
  BY <1>1, EncodedIsBytes
<1> QED BY <1>3, <1>4, <1>5, <1>6 DEF e

\* The parts of the invariant that every step re-establishes alike: the text is
\* none or one, alone in its Vault.
TextInv ==
    \/ text = <<>>
    \/ /\ text = <<text[1]>> /\ Len(text[1]) <= MaxText /\ text[1] \in Seq(TextBytes)
       /\ meant.header.format = 1 /\ plain = NameOnly(text[1])
       /\ edits = MaxEdits /\ Intact

\* The inductive invariant in the shape its proof uses, without what follows
\* from the rest of it.
SealCore ==
    /\ meant \in [value : Samples, header : Headers]
    /\ Encodable(meant.value, meant.header.format)
    /\ plain \in Seq(Byte) /\ image \in Seq(Byte)
    /\ sealed = Box(Envelope(plain, meant.header), 7)
    /\ vmk \in Keys /\ edits \in 0..MaxEdits
    /\ edits = 0 => vmk = 7
    /\ TextInv

\* The two shapes are one.
LEMMA SealInvIs == SealInv <=> SealCore
<1>1. ASSUME SealCore PROVE sealed.aad \in Seq(Byte) /\ sealed.ciphertext \in Seq(Byte)
  <2>1. meant.header \in Headers
    BY <1>1 DEF SealCore
  <2> QED BY <1>1, <2>1, BoxTypes DEF SealCore
<1> QED BY <1>1, Zenon DEF SealInv, SealCore, FormatTypeOK, TextInv

\* It holds at first.
LEMMA InitSealInv == FormatInit => SealInv
<1> SUFFICES ASSUME FormatInit PROVE SealInv
  OBVIOUS
<1>1. PICK v \in Samples : \E h \in {x \in Headers : Encodable(v, x.format)} :
        LET e == Envelope(EncodePlaintext(v, h.format), h)
        IN  /\ meant = [value |-> v, header |-> h]
            /\ plain = EncodePlaintext(v, h.format)
            /\ sealed = Box(e, 7)
            /\ image = EncodeEnvelope(e)
            /\ vmk = 7 /\ text = <<>>
            /\ edits = 0
  BY Zenon DEF FormatInit
<1>2. PICK h \in {x \in Headers : Encodable(v, x.format)} :
            /\ meant = [value |-> v, header |-> h]
            /\ plain = EncodePlaintext(v, h.format)
            /\ sealed = Box(Envelope(EncodePlaintext(v, h.format), h), 7)
            /\ image = EncodeEnvelope(Envelope(EncodePlaintext(v, h.format), h))
            /\ vmk = 7 /\ text = <<>>
            /\ edits = 0
  BY <1>1, Zenon
<1>3. h \in Headers /\ Encodable(v, h.format)
  OBVIOUS
<1>4. meant.value = v /\ meant.header = h /\ meant \in [value : Samples, header : Headers]
  BY <1>2, <1>3
<1>5. plain \in Seq(Byte)
  <2>1. IsPlaintext(v)
    BY FormatAssumption, Zenon
  <2> QED BY <1>2, <1>3, <2>1, EncodeIsBytes DEF ByteStrings
<1>6. sealed = Box(Envelope(plain, h), 7) /\ image = EncodeEnvelope(Envelope(plain, h))
  BY <1>2, Zenon
<1>7. image \in Seq(Byte)
  BY <1>3, <1>5, <1>6, BoxTypes
<1>8. vmk \in Keys /\ edits \in 0..MaxEdits
  BY <1>2, FormatAssumption DEF Keys
<1> QED BY <1>2, <1>3, <1>4, <1>5, <1>6, <1>7, <1>8, SealInvIs DEF SealCore, TextInv

\* A text of the bytes a careless writer may use is bytes.
LEMMA TextIsBytes ==
    ASSUME NEW t \in Seq(TextBytes), Len(t) <= MaxText
    PROVE  t \in Seq(Byte) /\ Len(t) <= kMaxFieldBytes /\ Len(t) \in Nat
<1>1. TextBytes \subseteq Byte /\ MaxText \in Nat /\ MaxText <= kMaxFieldBytes
  BY FormatAssumption
<1>2. Len(t) \in Nat /\ kMaxFieldBytes \in Nat
  BY LenProperties, Limits DEF Word
<1>3. t \in Seq(Byte)
  BY <1>1
<1> QED BY <1>1, <1>2, <1>3

\* Every step preserves it.
LEMMA NextSealInv == SealCore /\ [FormatNext]_format_vars => SealCore'
<1> SUFFICES ASSUME SealCore, [FormatNext]_format_vars PROVE SealCore'
  OBVIOUS
<1>0. /\ meant \in [value : Samples, header : Headers]
      /\ Encodable(meant.value, meant.header.format)
      /\ plain \in Seq(Byte) /\ image \in Seq(Byte)
      /\ sealed = Box(Envelope(plain, meant.header), 7)
      /\ vmk \in Keys /\ edits \in 0..MaxEdits
      /\ edits = 0 => vmk = 7
      /\ TextInv
  BY DEF SealCore
<1>a. meant.header \in Headers /\ MaxEdits \in Nat /\ MaxText \in Nat
  BY <1>0, FormatAssumption
<1>1. CASE SealOther
  <2>1. PICK b \in OneByteOff(plain) : plain' = b /\ Stores(b, meant.header)
    BY <1>1 DEF SealOther
  <2>2. /\ edits < MaxEdits /\ edits' = edits + 1
        /\ meant' = meant /\ vmk' = vmk /\ text' = text
    BY <1>1 DEF SealOther
  <2>3. b \in Seq(Byte)
    BY <1>0, OffIsBytes
  <2>4. sealed' = Box(Envelope(b, meant.header), 7) /\ image' = EncodeEnvelope(Envelope(b, meant.header))
    BY <2>1, Zenon DEF Stores
  <2>5. image' \in Seq(Byte)
    BY <1>a, <2>3, <2>4, BoxTypes
  <2>6. text = <<>>
    BY <1>0, <1>a, <2>2 DEF TextInv
  <2>7. edits' \in 0..MaxEdits /\ edits' # 0
    BY <1>0, <1>a, <2>2
  <2>8. TextInv'
    BY <2>2, <2>6 DEF TextInv
  <2> QED BY <1>0, <2>1, <2>2, <2>3, <2>4, <2>5, <2>7, <2>8 DEF SealCore
<1>2. CASE SealText
  <2>1. /\ meant.header.format = 1
        /\ plain' = NameOnly(text'[1]) /\ Stores(plain', meant.header)
        /\ edits' = MaxEdits /\ meant' = meant /\ vmk' = vmk
    BY <1>2 DEF SealText
  <2> DEFINE t == text'[1]
  <2>2. text' = <<t>> /\ t \in Seq(TextBytes) /\ Len(t) <= MaxText /\ vmk = 7
    <3>1. CASE text = <<>>
      <4>1. edits = 0 /\ text' = <<<<>>>>
        BY <1>2, <3>1, Zenon DEF SealText
      <4> QED BY <1>0, <1>a, <4>1
    <3>2. CASE text # <<>>
      <4>1. PICK b \in TextBytes : text' = <<Append(text[1], b)>>
        BY <1>2, <3>2, Zenon DEF SealText
      <4>2. Len(text[1]) < MaxText
        BY <1>2, <3>2, Zenon DEF SealText
      <4>3. text[1] \in Seq(TextBytes) /\ vmk = 7
        BY <1>0, <3>2, Zenon DEF TextInv, Intact
      <4> DEFINE r == text[1]
      <4>4. r \in Seq(TextBytes) /\ Len(r) < MaxText /\ text' = <<Append(r, b)>>
        BY <4>1, <4>2, <4>3
      <4> HIDE DEF r
      <4>5. Append(r, b) \in Seq(TextBytes) /\ Len(Append(r, b)) = Len(r) + 1 /\ Len(r) \in Nat
        BY <4>4, AppendProperties, LenProperties
      <4>6. t = Append(r, b)
        BY <4>4
      <4> QED BY <1>a, <4>3, <4>4, <4>5, <4>6
    <3> QED BY <3>1, <3>2
  <2> HIDE DEF t
  <2>3. plain' = NameOnly(t)
    BY <2>1 DEF t
  <2>4. plain' \in Seq(Byte)
    BY <2>2, <2>3, TextIsBytes, NameOnlyBytes
  <2>5. /\ sealed' = Box(Envelope(plain', meant.header), 7)
        /\ image' = EncodeEnvelope(Envelope(plain', meant.header))
    BY <2>1, Zenon DEF Stores
  <2>6. image' \in Seq(Byte)
    BY <1>a, <2>4, <2>5, BoxTypes
  <2>7. edits' \in 0..MaxEdits
    BY <1>a, <2>1
  <2>8. Intact'
    BY <2>1, <2>2, <2>5, Zenon DEF Intact
  <2>9. TextInv'
    BY <2>1, <2>2, <2>8 DEF TextInv, t
  <2>10. vmk' = 7
    BY <2>1, <2>2
  <2> QED BY <1>0, <2>1, <2>4, <2>5, <2>6, <2>7, <2>9, <2>10 DEF SealCore
<1>3. CASE Wear
  <2>1. /\ edits < MaxEdits /\ edits' = edits + 1 /\ image' \in OneByteOff(image)
        /\ meant' = meant /\ plain' = plain /\ sealed' = sealed /\ vmk' = vmk /\ text' = text
    BY <1>3 DEF Wear
  <2>2. image' \in Seq(Byte)
    BY <1>0, <2>1, OffIsBytes
  <2>3. text = <<>>
    BY <1>0, <1>a, <2>1 DEF TextInv
  <2>4. edits' \in 0..MaxEdits /\ edits' # 0
    BY <1>0, <1>a, <2>1
  <2>5. TextInv'
    BY <2>1, <2>3 DEF TextInv
  <2> QED BY <1>0, <2>1, <2>2, <2>4, <2>5 DEF SealCore
<1>4. CASE PresentKey
  <2>1. /\ edits < MaxEdits /\ edits' = edits + 1 /\ vmk' \in Keys
        /\ meant' = meant /\ plain' = plain /\ sealed' = sealed /\ image' = image /\ text' = text
    BY <1>4 DEF PresentKey
  <2>2. text = <<>>
    BY <1>0, <1>a, <2>1 DEF TextInv
  <2>3. edits' \in 0..MaxEdits /\ edits' # 0
    BY <1>0, <1>a, <2>1
  <2>4. TextInv'
    BY <2>1, <2>2 DEF TextInv
  <2> QED BY <1>0, <2>1, <2>3, <2>4 DEF SealCore
<1>5. CASE UNCHANGED format_vars
  <2>1. /\ meant' = meant /\ plain' = plain /\ sealed' = sealed /\ image' = image
        /\ vmk' = vmk /\ text' = text /\ edits' = edits
    BY <1>5 DEF format_vars
  <2>2. TextInv'
    BY <1>0, <2>1, Zenon DEF TextInv, Intact
  <2> QED BY <1>0, <2>1, <2>2 DEF SealCore
<1> QED BY <1>1, <1>2, <1>3, <1>4, <1>5 DEF FormatNext

\* The inductive invariant holds.
THEOREM SealInvHolds == FormatSpec => []SealInv
<1>1. FormatInit => SealCore
  BY InitSealInv, SealInvIs
<1> QED BY <1>1, NextSealInv, SealInvIs, PTL DEF FormatSpec

\* Type correctness: what is sealed and what is stored are byte strings.
THEOREM FormatTypeCorrect == FormatSpec => []FormatTypeOK
<1>1. SealInv => FormatTypeOK
  BY DEF SealInv
<1> QED BY <1>1, SealInvHolds, PTL

-----------------------------------------------------------------------------
(* What is opened is what was sealed                                       *)

\* The additional data written out.
LEMMA AadIs ==
    ASSUME NEW e \in StoredEnvelopes, e.format \in Byte
    PROVE  /\ BuildVaultAad(e)[1] = e.format /\ BuildVaultAad(e)[6] = e.vault
           /\ BuildVaultAad(e)[7] * 256 + BuildVaultAad(e)[8] = e.generation
<1>1. /\ e.format \in Word /\ e.schema \in Word /\ e.vault \in Byte /\ e.generation \in Word
  BY DEF StoredEnvelopes
<1> DEFINE a == <<e.format>>
           b == U16(e.format)
           c == U16(e.schema)
           d == <<e.vault>>
           g == U16(e.generation)
<1>2. a \in Seq(Byte) /\ d \in Seq(Byte) /\ Len(a) = 1 /\ Len(d) = 1 /\ a[1] = e.format /\ d[1] = e.vault
  BY <1>1, Bytes1
<1>3. b \in Seq(Byte) /\ c \in Seq(Byte) /\ Len(b) = 2 /\ Len(c) = 2
  BY <1>1, U16Bytes
<1>4. g \in Seq(Byte) /\ Len(g) = 2 /\ g[1] * 256 + g[2] = e.generation
  BY <1>1, U16Bytes
<1>5. BuildVaultAad(e) = (((a \o b) \o c) \o d) \o g
  BY DEF BuildVaultAad
<1> HIDE DEF a, b, c, d, g
<1> DEFINE w3 == a \o b
           w5 == w3 \o c
           w6 == w5 \o d
           w8 == w6 \o g
<1>6. w3 \in Seq(Byte) /\ Len(w3) = 3 /\ w3[1] = a[1]
  <2>1. w3 \in Seq(Byte) /\ Len(w3) = Len(a) + Len(b) /\ \A i \in 1..Len(a) : w3[i] = a[i]
    BY <1>2, <1>3, ConcatFirst
  <2> QED BY <1>2, <1>3, <2>1
<1> HIDE DEF w3
<1>7. w5 \in Seq(Byte) /\ Len(w5) = 5 /\ w5[1] = a[1]
  <2>1. w5 \in Seq(Byte) /\ Len(w5) = Len(w3) + Len(c) /\ \A i \in 1..Len(w3) : w5[i] = w3[i]
    BY <1>3, <1>6, ConcatFirst
  <2> QED BY <1>3, <1>6, <2>1
<1> HIDE DEF w5
<1>8. w6 \in Seq(Byte) /\ Len(w6) = 6 /\ w6[1] = a[1] /\ w6[6] = d[1]
  <2>1. /\ w6 \in Seq(Byte) /\ Len(w6) = Len(w5) + Len(d) /\ \A i \in 1..Len(w5) : w6[i] = w5[i]
        /\ \A i \in 1..Len(d) : w6[Len(w5) + i] = d[i]
    BY <1>2, <1>7, ConcatFirst
  <2> QED BY <1>2, <1>7, <2>1
<1> HIDE DEF w6
<1>9. /\ w8 \in Seq(Byte) /\ w8[1] = a[1] /\ w8[6] = d[1] /\ w8[7] = g[1] /\ w8[8] = g[2]
  <2>1. /\ w8 \in Seq(Byte) /\ Len(w8) = Len(w6) + Len(g) /\ \A i \in 1..Len(w6) : w8[i] = w6[i]
        /\ \A i \in 1..Len(g) : w8[Len(w6) + i] = g[i]
    BY <1>4, <1>8, ConcatFirst
  <2> QED BY <1>4, <1>8, <2>1
<1>10. BuildVaultAad(e) = w8
  BY <1>5 DEF w8, w6, w5, w3
<1> HIDE DEF w8
<1> QED BY <1>2, <1>4, <1>9, <1>10

\* The box of an envelope determines it.
LEMMA BoxIs ==
    ASSUME NEW e \in StoredEnvelopes, NEW c \in StoredEnvelopes, e.format \in kFormats,
           c.format \in kFormats, e.schema = c.schema, NEW k, NEW l, Box(e, k) = Box(c, l)
    PROVE  e = c /\ k = l
<1>1. /\ k = l /\ e.nonce = c.nonce /\ e.tag = c.tag /\ e.ciphertext = c.ciphertext
      /\ BuildVaultAad(e) = BuildVaultAad(c)
  BY DEF Box
<1>2. e.format \in Byte /\ c.format \in Byte
  BY FormatsAre
<1>3. e.format = c.format /\ e.vault = c.vault /\ e.generation = c.generation
  BY <1>1, <1>2, AadIs
<1> QED BY <1>1, <1>3 DEF StoredEnvelopes

\* What was sealed is deciphered to the plaintext.
LEMMA DeciphersTo ==
    ASSUME NEW s \in Seq(Byte), NEW h \in Headers
    PROVE  Decipher(Envelope(s, h).ciphertext, 7, Envelope(s, h).nonce) = s
<1>1. Envelope(s, h).ciphertext = Encipher(s, 7, kNonce) /\ Envelope(s, h).nonce = kNonce
  BY EnvelopeIs
<1> DEFINE key == 7
<1>2. key \in Nat /\ kNonce \in Nat
  BY DEF kNonce
<1> HIDE DEF key
<1>3. Decipher(Encipher(s, key, kNonce), key, kNonce) = s
  BY <1>2, CipherInverse
<1> QED BY <1>1, <1>3 DEF key

\* Whatever is opened was sealed.
LEMMA OpenedOnly ==
    ASSUME SealCore, NEW v \in Opened
    PROVE  /\ Intact
           /\ \E d \in DecodePlaintext(plain) : d.format = meant.header.format /\ v = d.value
<1> DEFINE h == meant.header
           c == Envelope(plain, h)
<1>1. h \in Headers /\ plain \in Seq(Byte) /\ image \in Seq(Byte) /\ sealed = Box(c, 7)
  BY DEF SealCore
<1>2. PICK e \in DecodeEnvelope(image) : v \in Admitted(e, vmk)
  BY Zenon DEF Opened
<1>3. /\ Authenticates(e, vmk)
      /\ v \in {d.value : d \in {x \in DecodePlaintext(Decipher(e.ciphertext, vmk, e.nonce)) :
                                    x.format = e.format}}
  BY <1>2, Zenon DEF Admitted
<1>4. e \in StoredEnvelopes /\ image = EncodeEnvelope(e)
  BY <1>1, <1>2, DecodeEnvelopeMeans
<1>5. e.format \in kFormats /\ e.schema = kSchema /\ Box(e, vmk) = sealed
  BY <1>3, Zenon DEF Authenticates
<1>6. c \in StoredEnvelopes /\ c.schema = kSchema /\ c.format = h.format
  BY <1>1, EnvelopeIs
<1>7. c.format \in kFormats
  BY <1>1, <1>6, HeadersAre
<1>8. Decipher(c.ciphertext, 7, c.nonce) = plain
  BY <1>1, DeciphersTo
<1> HIDE DEF c, h
<1>9. e = c /\ vmk = 7
  BY <1>1, <1>4, <1>5, <1>6, <1>7, BoxIs
<1>10. Intact
  BY <1>4, <1>9, Zenon DEF Intact, c, h
<1>11. \E d \in DecodePlaintext(plain) : d.format = h.format /\ v = d.value
  <2>1. v \in {d.value : d \in {x \in DecodePlaintext(plain) : x.format = h.format}}
    BY <1>3, <1>6, <1>8, <1>9
  <2> QED BY <2>1
<1> QED BY <1>10, <1>11 DEF h

\* Whatever was sealed, and stored, is opened.
LEMMA OpenedAll ==
    ASSUME SealCore, Intact, image # <<>>,
           NEW d \in DecodePlaintext(plain), d.format = meant.header.format
    PROVE  d.value \in Opened
<1> DEFINE h == meant.header
           c == Envelope(plain, h)
<1>1. h \in Headers /\ plain \in Seq(Byte) /\ image \in Seq(Byte) /\ sealed = Box(c, 7)
  BY DEF SealCore
<1>2. image = EncodeEnvelope(c) /\ vmk = 7
  BY Zenon DEF Intact
<1>3. c \in StoredEnvelopes /\ c.schema = kSchema /\ c.format = h.format
  BY <1>1, EnvelopeIs
<1>4. c.format \in kFormats
  BY <1>1, <1>3, HeadersAre
<1>5. Decipher(c.ciphertext, 7, c.nonce) = plain
  BY <1>1, DeciphersTo
<1>a. d.format = h.format
  OBVIOUS
<1> HIDE DEF c, h
<1>6. ValidEnvelope(c)
  BY <1>2, Zenon DEF EncodeEnvelope
<1>7. c \in DecodeEnvelope(image)
  BY <1>1, <1>2, <1>3, <1>6, DecodeEnvelopeMeans
<1>8. Authenticates(c, vmk)
  BY <1>1, <1>2, <1>3, <1>4, Zenon DEF Authenticates
<1>9. d.value \in {y.value : y \in {x \in DecodePlaintext(plain) : x.format = c.format}}
  BY <1>3, <1>a
<1>10. d.value \in Admitted(c, vmk)
  BY <1>2, <1>5, <1>8, <1>9 DEF Admitted
<1> QED BY <1>7, <1>10, Zenon DEF Opened

\* A Vault is opened only from the image that was stored, with the key that
\* sealed it and under the header it was sealed with.
THEOREM OpensOnlyWhatWasSealed == FormatSpec => []OnlyWhatWasSealed
<1>1. ASSUME SealCore PROVE OnlyWhatWasSealed
  BY <1>1, OpenedOnly DEF OnlyWhatWasSealed
<1>2. SealInv => OnlyWhatWasSealed
  BY <1>1, SealInvIs
<1> QED BY <1>2, SealInvHolds, PTL

\* The decoders accept nothing but what the encoders write.
THEOREM DecodersAreCanonical == FormatSpec => []Canonical
<1>1. ASSUME SealCore PROVE Canonical
  <2>1. plain \in Seq(Byte) /\ image \in Seq(Byte)
    BY <1>1 DEF SealCore
  <2>2. ASSUME NEW d \in DecodePlaintext(plain) PROVE EncodePlaintext(d.value, d.format) = plain
    BY <2>1, PlaintextCanonical
  <2>3. ASSUME NEW e \in DecodeEnvelope(image) PROVE EncodeEnvelope(e) = image
    BY <2>1, DecodeEnvelopeMeans
  <2> QED BY <2>2, <2>3 DEF Canonical
<1>2. SealInv => Canonical
  BY <1>1, SealInvIs
<1> QED BY <1>2, SealInvHolds, PTL

\* What a writer encoded, sealed and stored is what the Device reads.
THEOREM StoredRoundTrip == FormatSpec => []RoundTrip
<1>1. ASSUME SealCore, Intact, image # <<>>,
             plain = EncodePlaintext(meant.value, meant.header.format)
      PROVE  Opened = {meant.value}
  <2> DEFINE v == meant.value
             f == meant.header.format
             d == [format |-> f, value |-> v]
  <2>1. v \in Samples /\ Encodable(v, f)
    BY <1>1 DEF SealCore
  <2>2. IsPlaintext(v)
    BY <2>1, FormatAssumption, Zenon
  <2>3. DecodePlaintext(plain) = {d}
    BY <1>1, <2>1, <2>2, PlaintextRoundTrip
  <2>4. d.format = f /\ d.value = v
    OBVIOUS
  <2>5. v \in Opened
    <3>1. d.format = meant.header.format /\ d \in DecodePlaintext(plain)
      BY <2>3
    <3> HIDE DEF d
    <3>2. d.value \in Opened
      BY <1>1, <3>1, OpenedAll
    <3> QED BY <2>4, <3>2
  <2>6. ASSUME NEW w \in Opened PROVE w = v
    <3>1. PICK c \in DecodePlaintext(plain) : w = c.value
      BY <1>1, OpenedOnly
    <3> QED BY <2>3, <2>4, <3>1
  <2> HIDE DEF v
  <2>7. Opened = {v}
    BY <2>5, <2>6
  <2> QED BY <2>7 DEF v
<1>2. SealInv => RoundTrip
  BY <1>1, SealInvIs DEF RoundTrip
<1> QED BY <1>2, SealInvHolds, PTL

-----------------------------------------------------------------------------
(* Texts                                                                   *)

\* Two numbers that stand at the same offset are the same.
LEMMA U16Same ==
    ASSUME NEW b \in Seq(Byte), NEW at \in Nat, NEW m \in Word, NEW n \in Word,
           IsAt(b, at, U16(m)), IsAt(b, at, U16(n))
    PROVE  m = n
<1>1. U16(m) \in Seq(Byte) /\ Len(U16(m)) = 2 /\ U16(m)[1] * 256 + U16(m)[2] = m
  BY U16Bytes
<1>2. U16(n) \in Seq(Byte) /\ Len(U16(n)) = 2 /\ U16(n)[1] * 256 + U16(n)[2] = n
  BY U16Bytes
<1>3. U16(m) = U16(n)
  BY <1>1, <1>2, AtSame
<1> QED BY <1>1, <1>2, <1>3

\* So are two byte strings with their lengths.
LEMMA SizedSame ==
    ASSUME NEW b \in Seq(Byte), NEW at \in Nat, NEW s \in Seq(Byte), NEW t \in Seq(Byte),
           Len(s) \in Word, Len(t) \in Word, IsAt(b, at, Sized(s)), IsAt(b, at, Sized(t))
    PROVE  s = t
<1>1. U16(Len(s)) \in Seq(Byte) /\ Len(U16(Len(s))) = 2
  BY U16Bytes
<1>2. U16(Len(t)) \in Seq(Byte) /\ Len(U16(Len(t))) = 2
  BY U16Bytes
<1>3. IsAt(b, at, U16(Len(s)) \o s) /\ IsAt(b, at, U16(Len(t)) \o t)
  BY DEF Sized
<1>4. IsAt(b, at, U16(Len(s))) /\ IsAt(b, at + Len(U16(Len(s))), s)
  BY <1>1, <1>3, AtConcat
<1>5. IsAt(b, at, U16(Len(t))) /\ IsAt(b, at + Len(U16(Len(t))), t)
  BY <1>2, <1>3, AtConcat
<1>6. Len(s) = Len(t)
  BY <1>4, <1>5, U16Same
<1> DEFINE after == at + 2
<1>7. after \in Nat /\ IsAt(b, after, s) /\ IsAt(b, after, t)
  BY <1>1, <1>2, <1>4, <1>5
<1> HIDE DEF after
<1> QED BY <1>6, <1>7, AtSame

\* The empty text is valid.
LEMMA EmptyIsText == ValidText(<<>>)
<1> DEFINE t == <<>>
<1>1. t \in Seq(Byte) /\ Len(t) = 0
  OBVIOUS
<1>2. IsUtf8(t)
  <2>1. {} \in SUBSET (1..Len(t)) /\ ~(Len(t) > 0)
    BY <1>1
  <2> HIDE DEF t
  <2> QED BY <2>1, Zenon DEF IsUtf8
<1> HIDE DEF t
<1>3. IsValidUtf8(t)
  BY <1>1, <1>2, ScanIsUtf8
<1>4. Len(t) <= kMaxFieldBytes
  BY <1>1, Limits DEF Word
<1>5. ValidText(t)
  BY <1>3, <1>4 DEF ValidText
<1> QED BY <1>5 DEF t

\* A Vault with nothing but a valid name is an encoding.
LEMMA NameOnlyEncodes ==
    ASSUME NEW t \in Seq(Byte), ValidText(t)
    PROVE  \E d \in DecodePlaintext(NameOnly(t)) : d.format = 1
<1> DEFINE none == <<>>
           one == 1
           w == [ssid |-> t, password |-> none]
           ws == <<w>>
           d == [format |-> one, value |-> Parts(none, ws, none)]
<1>1. Len(t) <= kMaxFieldBytes
  BY DEF ValidText
<1>2. /\ NameOnly(t) = (PrefixBytes(1, 0) \o <<1>>) \o (Sized(t) \o Sized(none))
      /\ PrefixBytes(1, 0) \in Seq(Byte) /\ NameOnly(t) \in Seq(Byte)
      /\ Sized(t) \in Seq(Byte) /\ Sized(none) \in Seq(Byte)
  BY <1>1, NameOnlyBytes
<1>3. GoodWifi(w)
  <2>1. w \in WifiSettings
    BY DEF WifiSettings
  <2>2. ValidText(none)
    BY EmptyIsText
  <2> QED BY <2>1, <2>2 DEF GoodWifi
<1>4. EncodeWifi(w) = Sized(t) \o Sized(none)
  BY DEF EncodeWifi
<1>5. none \in Seq(CredentialRecords) /\ Len(none) = 0 /\ one \in kFormats
  BY DEF kFormats
<1>6. IsRecords(none, Len(none)) /\ RecordsBytes(none) = none
  BY <1>5, RecordsEmpty, RecordsBytesEmpty
<1>7. IsDays(none, one) /\ DaysBytes(none, one) = none
  <2>1. DaysBytes(none, one) = none
    BY DEF DaysBytes
  <2>2. one \in kFormats /\ none = <<>>
    BY <1>5
  <2> HIDE DEF one, none
  <2>3. IsDays(none, one)
    BY <2>2, DaysCases
  <2> QED BY <2>1, <2>3
<1> HIDE DEF w, none
<1>8. IsWifi(ws) /\ WifiBytes(ws) = <<1>> \o EncodeWifi(w)
  BY <1>3, WifiCases, OneWifiBytes
<1> HIDE DEF ws
<1>9. Len(none) <= kMaxCredentials
  BY <1>5, Limits DEF Word
<1>10. GoodParts(one, none, ws, none)
  BY <1>5, <1>6, <1>7, <1>8, <1>9 DEF GoodParts
<1>11. PartsBytes(one, none, ws, none) = NameOnly(t)
  <2> DEFINE p == PrefixBytes(1, 0)
             u == <<1>>
             e == EncodeWifi(w)
  <2>1. u \in Seq(Byte) /\ e \in Seq(Byte) /\ p \in Seq(Byte)
    BY <1>2, <1>4, ConcatProperties DEF Byte
  <2>2. PartsBytes(one, none, ws, none) = ((p \o none) \o (u \o e)) \o none
    BY <1>5, <1>6, <1>7, <1>8 DEF PartsBytes
  <2>3. NameOnly(t) = (p \o u) \o e
    BY <1>2, <1>4
  <2> HIDE DEF p, u, e
  <2>4. p \o none = p
    BY <2>1, ConcatEmptySeq DEF none
  <2>5. p \o (u \o e) = (p \o u) \o e
    BY <2>1, ConcatAssociative, SMTT(30)
  <2>6. (p \o u) \o e \in Seq(Byte)
    BY <1>2, <2>3
  <2>7. ((p \o u) \o e) \o none = (p \o u) \o e
    BY <2>6, ConcatEmptySeq DEF none
  <2> QED BY <2>2, <2>3, <2>4, <2>5, <2>7
<1>12. Decodes(NameOnly(t), one, none, ws, none)
  BY <1>10, <1>11 DEF Decodes
<1>13. d \in DecodePlaintext(NameOnly(t))
  <2> HIDE DEF one
  <2>1. NameOnly(t) \in ByteStrings
    BY <1>2 DEF ByteStrings
  <2> QED BY <1>12, <2>1, DecodeMeans
<1>14. d.format = 1
  OBVIOUS
<1> HIDE DEF d
<1> QED BY <1>13, <1>14

\* What stands where in a Vault with nothing but a name.
LEMMA NameOnlyAt ==
    ASSUME NEW t \in Seq(Byte), Len(t) <= kMaxFieldBytes, NEW b, b = NameOnly(t)
    PROVE  IsAt(b, 3, U16(0)) /\ IsAt(b, 5, <<1>>) /\ IsAt(b, 6, Sized(t))
<1> DEFINE zero == 0
           one == 1
           p == PrefixBytes(1, 0)
           q == <<one>> \o U16(one)
           n == U16(zero)
           u == <<1>>
           s == Sized(t)
           z == Sized(<<>>)
<1>1. /\ b = (p \o u) \o (s \o z) /\ p \in Seq(Byte) /\ Len(p) = 5 /\ b \in Seq(Byte)
      /\ s \in Seq(Byte) /\ z \in Seq(Byte)
  BY NameOnlyBytes
<1>2. one \in Word /\ zero \in Word /\ one \in Byte /\ zero \in Nat
  BY SMT DEF Word, Byte
<1>3. u \in Seq(Byte) /\ Len(u) = 1 /\ p = q \o n
  BY <1>2 DEF PrefixBytes
<1>4. q \in Seq(Byte) /\ Len(q) = 3 /\ n \in Seq(Byte)
  <2>1. <<one>> \in Seq(Byte) /\ Len(<<one>>) = 1
    BY <1>2
  <2> HIDE DEF one, zero
  <2>2. U16(one) \in Seq(Byte) /\ Len(U16(one)) = 2 /\ U16(zero) \in Seq(Byte)
    BY <1>2, U16Bytes
  <2>3. q \in Seq(Byte) /\ Len(q) = Len(<<one>>) + Len(U16(one))
    BY <2>1, <2>2, ConcatBytes
  <2> QED BY <2>1, <2>2, <2>3
<1>5. zero = 0
  OBVIOUS
<1> HIDE DEF p, q, n, u, s, z, zero, one
<1>6. p \o u \in Seq(Byte) /\ Len(p \o u) = 6 /\ s \o z \in Seq(Byte)
  <2>1. p \o u \in Seq(Byte) /\ Len(p \o u) = Len(p) + Len(u)
    BY <1>1, <1>3, ConcatBytes
  <2>2. s \o z \in Seq(Byte)
    BY <1>1, ConcatBytes
  <2> QED BY <1>1, <1>3, <2>1, <2>2
<1>7. (p \o u) \o (s \o z) \in Seq(Byte)
  BY <1>1
<1>8. IsAt(b, zero, (p \o u) \o (s \o z))
  BY <1>1, <1>5, <1>7, AtWhole
<1>9. IsAt(b, zero, p \o u) /\ IsAt(b, zero + Len(p \o u), s \o z)
  BY <1>1, <1>2, <1>6, <1>8, AtConcat
<1>10. IsAt(b, zero, p) /\ IsAt(b, zero + Len(p), u)
  BY <1>1, <1>2, <1>3, <1>9, AtConcat
<1>11. IsAt(b, zero + Len(q), n)
  <2>1. IsAt(b, zero, q \o n)
    BY <1>3, <1>10
  <2> QED BY <1>1, <1>2, <1>4, <2>1, AtConcat
<1>12. zero + Len(p \o u) = 6 /\ zero + Len(p) = 5 /\ zero + Len(q) = 3
  BY <1>1, <1>4, <1>5, <1>6
<1> DEFINE six == zero + Len(p \o u)
<1>13. six \in Nat /\ six = 6 /\ IsAt(b, six, s \o z)
  BY <1>9, <1>12
<1> HIDE DEF six
<1>14. IsAt(b, six, s)
  BY <1>1, <1>13, AtConcat
<1> QED BY <1>10, <1>11, <1>12, <1>13, <1>14 DEF n, u, s, zero

\* One that is read has a valid name.
LEMMA NameOnlyDecodes ==
    ASSUME NEW t \in Seq(Byte), Len(t) <= kMaxFieldBytes,
           NEW d \in DecodePlaintext(NameOnly(t)), d.format = 1
    PROVE  IsValidUtf8(t)
<1> DEFINE b == NameOnly(t)
           zero == 0
           one == 1
           three == 3
           five == 5
           six == 6
<1>1. b \in Seq(Byte) /\ Len(t) \in Word
  BY NameOnlyBytes
<1>2. IsAt(b, three, U16(zero)) /\ IsAt(b, five, <<one>>) /\ IsAt(b, six, Sized(t))
  BY NameOnlyAt
<1>3. /\ zero \in Nat /\ one \in Nat /\ three \in Nat /\ five \in Nat /\ six \in Nat
      /\ one \in Word /\ zero \in Word /\ one \in Byte /\ zero \in Byte /\ zero # one
      /\ zero + 3 = three /\ three + 2 = five /\ five + 1 = six /\ zero = 0 /\ one = 1
  BY SMT DEF Word, Byte
<1> HIDE DEF b, zero, one, three, five, six
<1>4. PICK f, rs, ws, ds : Decodes(b, f, rs, ws, ds) /\ d = [format |-> f, value |-> Parts(rs, ws, ds)]
  BY <1>1, DecodeMeans DEF b, ByteStrings
<1>5. f = one
  BY <1>3, <1>4
<1>6. GoodParts(one, rs, ws, ds) /\ b = PartsBytes(one, rs, ws, ds)
  BY <1>4, <1>5 DEF Decodes
<1> DEFINE m == Len(rs)
           p == PrefixBytes(one, m)
           r == RecordsBytes(rs)
           w == WifiBytes(ws)
           y == DaysBytes(ds, one)
           j == zero + Len(p)
           k == j + Len(r)
           l == k + Len(w)
<1>7. m \in Word /\ p \in Seq(Byte) /\ r \in Seq(Byte) /\ w \in Seq(Byte) /\ y \in Seq(Byte)
  BY <1>6, GoodBytes
<1>8. b = ((p \o r) \o w) \o y
  BY <1>6 DEF PartsBytes
<1>9. p = (<<one>> \o U16(one)) \o U16(m)
  BY DEF PrefixBytes
<1> HIDE DEF m, p, r, w, y
<1>10. IsAt(b, zero, p) /\ IsAt(b, j, r) /\ IsAt(b, k, w)
  <2>1. IsAt(b, zero, ((p \o r) \o w) \o y)
    BY <1>1, <1>3, <1>8, AtWhole
  <2> QED BY <1>1, <1>3, <1>7, <2>1, FourParts, SMTT(30)
<1> DEFINE q == <<one>> \o U16(one)
<1>11. q \in Seq(Byte) /\ Len(q) = 3 /\ U16(m) \in Seq(Byte) /\ Len(U16(m)) = 2
  <2>1. <<one>> \in Seq(Byte) /\ Len(<<one>>) = 1
    BY <1>3
  <2>2. /\ U16(one) \in Seq(Byte) /\ Len(U16(one)) = 2
        /\ U16(m) \in Seq(Byte) /\ Len(U16(m)) = 2
    BY <1>3, <1>7, U16Bytes
  <2>3. q \in Seq(Byte) /\ Len(q) = Len(<<one>>) + Len(U16(one))
    BY <2>1, <2>2, ConcatBytes
  <2> QED BY <2>1, <2>2, <2>3
<1>12. p = q \o U16(m)
  BY <1>9
<1> HIDE DEF q
<1>13. m = zero /\ Len(p) = 5
  <2>1. IsAt(b, zero + Len(q), U16(m))
    BY <1>1, <1>3, <1>10, <1>11, <1>12, AtConcat
  <2>2. zero + Len(q) = three
    BY <1>3, <1>11
  <2>3. IsAt(b, three, U16(m))
    BY <2>1, <2>2
  <2>4. m = zero
    BY <1>1, <1>2, <1>3, <1>7, <2>3, U16Same
  <2>5. Len(p) = Len(q) + Len(U16(m))
    BY <1>11, <1>12, ConcatBytes
  <2>6. Len(p) = 5
    BY <1>11, <2>5
  <2> QED BY <2>4, <2>6
<1>14. r = <<>>
  <2>1. rs \in Seq(CredentialRecords) /\ Len(rs) = 0
    BY <1>3, <1>6, <1>13 DEF GoodParts, m
  <2>2. rs = <<>>
    BY <2>1, EmptySeq
  <2> QED BY <2>2, RecordsBytesEmpty DEF r
<1>15. k = five
  BY <1>3, <1>13, <1>14
<1> HIDE DEF j, k, l
<1>16. IsAt(b, five, w)
  BY <1>10, <1>15
<1>17. IsWifi(ws)
  BY <1>6 DEF GoodParts
<1>18. ws # <<>>
  <2> SUFFICES ASSUME ws = <<>> PROVE FALSE
    OBVIOUS
  <2>1. w = <<zero>>
    BY <1>3, NoWifiBytes DEF w
  <2>2. <<zero>> \in Seq(Byte) /\ Len(<<zero>>) = 1 /\ <<one>> \in Seq(Byte) /\ Len(<<one>>) = 1
    BY <1>3
  <2>3. <<zero>> = <<one>>
    BY <1>1, <1>2, <1>3, <1>16, <2>1, <2>2, AtSame
  <2> QED BY <1>3, <2>3
<1>19. PICK x : GoodWifi(x) /\ ws = <<x>>
  BY <1>17, <1>18, WifiCases
<1>20. x.ssid \in Seq(Byte) /\ ValidText(x.ssid) /\ x.password \in Seq(Byte) /\ ValidText(x.password)
  BY <1>19 DEF GoodWifi, WifiSettings
<1>21. Sized(x.ssid) \in Seq(Byte) /\ Sized(x.password) \in Seq(Byte)
  BY <1>20, TextBytesAre
<1>22. w = <<one>> \o (Sized(x.ssid) \o Sized(x.password))
  BY <1>3, <1>19, OneWifiBytes DEF w, EncodeWifi
<1>23. IsAt(b, six, Sized(x.ssid) \o Sized(x.password))
  <2>1. <<one>> \in Seq(Byte) /\ Len(<<one>>) = 1
    BY <1>3
  <2>2. Sized(x.ssid) \o Sized(x.password) \in Seq(Byte)
    BY <1>21, ConcatBytes
  <2>3. IsAt(b, five + Len(<<one>>), Sized(x.ssid) \o Sized(x.password))
    BY <1>1, <1>3, <1>16, <1>22, <2>1, <2>2, AtConcat
  <2> QED BY <1>3, <2>1, <2>3
<1>24. IsAt(b, six, Sized(x.ssid))
  BY <1>1, <1>3, <1>21, <1>23, AtConcat
<1>25. Len(x.ssid) \in Word
  BY <1>20, Limits, LenProperties DEF Word, ValidText
<1>26. x.ssid = t
  BY <1>1, <1>2, <1>3, <1>20, <1>24, <1>25, SizedSame
<1> QED BY <1>20, <1>26 DEF ValidText

\* The Device takes a text exactly when it is well-formed UTF-8.
THEOREM TextsAreExactlyUtf8 == FormatSpec => []AcceptsExactlyUtf8
<1>1. ASSUME SealCore, text # <<>> PROVE Opened # {} <=> IsUtf8(text[1])
  <2> DEFINE t == text[1]
             h == meant.header
             c == Envelope(plain, h)
  <2>1. /\ t \in Seq(TextBytes) /\ Len(t) <= MaxText
        /\ h.format = 1 /\ plain = NameOnly(t) /\ Intact
    BY <1>1 DEF SealCore, TextInv
  <2>2. h \in Headers /\ plain \in Seq(Byte)
    BY <1>1 DEF SealCore
  <2> HIDE DEF t
  <2>3. t \in Seq(Byte) /\ Len(t) <= kMaxFieldBytes /\ Len(t) \in Nat
    BY <2>1, TextIsBytes
  <2>4. Len(plain) = Len(t) + 10
    BY <2>1, <2>3, NameOnlyBytes
  <2>5. image # <<>>
    <3>1. /\ c \in StoredEnvelopes /\ c.schema = kSchema /\ c.format = h.format
          /\ c.generation = h.generation /\ c.ciphertext = Encipher(plain, 7, kNonce)
      BY <2>2, EnvelopeIs
    <3>2. Len(c.ciphertext) = Len(plain)
      <4> DEFINE key == 7
      <4>1. key \in Nat /\ kNonce \in Nat
        BY DEF kNonce
      <4> HIDE DEF key
      <4>2. Len(Encipher(plain, key, kNonce)) = Len(plain)
        BY <2>2, <4>1, CipherInverse
      <4> QED BY <3>1, <4>2 DEF key
    <3>3. Len(plain) \in 1..kMaxPersistedCiphertextBytes
      <4>1. /\ MaxText + 10 <= kMaxPersistedCiphertextBytes /\ MaxText \in Nat
            /\ kMaxPersistedCiphertextBytes \in Nat
        BY FormatAssumption DEF Word24
      <4> QED BY <2>1, <2>3, <2>4, <4>1
    <3>4. h.format \in kFormats /\ h.generation # 0
      BY <2>2, HeadersAre
    <3> HIDE DEF c
    <3>5. ValidEnvelope(c)
      BY <3>1, <3>2, <3>3, <3>4 DEF ValidEnvelope
    <3>6. c \in DecodeEnvelope(EncodeEnvelope(c)) /\ EncodeEnvelope(c) \in Seq(Byte)
      BY <3>1, <3>5, EncodedIsBytes, DecodeEnvelopeMeans
    <3>7. EncodeEnvelope(c) = HeaderBytes(c) \o c.ciphertext
      BY <3>5, EncodeEnvelopeIs
    <3>8. HeaderBytes(c) \in Seq(Byte) /\ c.ciphertext \in Seq(Byte)
      BY <3>1, <3>5, HeaderIsBytes DEF StoredEnvelopes
    <3>9. Len(EncodeEnvelope(c)) = Len(HeaderBytes(c)) + Len(c.ciphertext)
      BY <3>7, <3>8, ConcatBytes
    <3>10. Len(EncodeEnvelope(c)) # 0
      <4>1. Len(HeaderBytes(c)) \in Nat
        BY <3>8, LenProperties
      <4>2. Len(c.ciphertext) \in Nat /\ Len(c.ciphertext) # 0
        BY <3>2, <3>3
      <4> QED BY <3>9, <4>1, <4>2
    <3>11. image = EncodeEnvelope(c)
      BY <2>1 DEF Intact, c
    <3> QED BY <3>10, <3>11
  <2>6. ASSUME Opened # {} PROVE IsUtf8(t)
    <3>1. PICK d \in DecodePlaintext(plain) : d.format = h.format
      BY <1>1, <2>6, OpenedOnly
    <3>2. d \in DecodePlaintext(NameOnly(t)) /\ d.format = 1
      BY <2>1, <3>1
    <3>3. IsValidUtf8(t)
      BY <2>3, <3>2, NameOnlyDecodes
    <3> QED BY <2>3, <3>3, ScanIsUtf8
  <2>7. ASSUME IsUtf8(t) PROVE Opened # {}
    <3>1. ValidText(t)
      BY <2>3, <2>7, ScanIsUtf8 DEF ValidText
    <3>2. PICK d \in DecodePlaintext(NameOnly(t)) : d.format = 1
      BY <2>3, <3>1, NameOnlyEncodes
    <3>3. d \in DecodePlaintext(plain) /\ d.format = meant.header.format
      BY <2>1, <3>2
    <3>4. d.value \in Opened
      BY <1>1, <2>1, <2>5, <3>3, OpenedAll
    <3> QED BY <3>4
  <2> QED BY <2>6, <2>7 DEF t
<1>2. ASSUME SealCore PROVE AcceptsExactlyUtf8
  <2>1. CASE text = <<>>
    <3>1. Len(text) = 0
      BY <2>1
    <3> QED BY <3>1 DEF AcceptsExactlyUtf8
  <2>2. CASE text # <<>>
    <3>1. text = <<text[1]>>
      BY <1>2, <2>2 DEF SealCore, TextInv
    <3>2. Len(text) = 1
      BY <3>1
    <3>3. \A i \in 1..Len(text) : i = 1
      BY <3>2
    <3>4. Opened # {} <=> IsUtf8(text[1])
      BY <1>1, <1>2, <2>2
    <3> QED BY <3>3, <3>4, Zenon DEF AcceptsExactlyUtf8
  <2> QED BY <2>1, <2>2
<1>3. SealInv => AcceptsExactlyUtf8
  BY <1>2, SealInvIs
<1> QED BY <1>3, SealInvHolds, PTL

-----------------------------------------------------------------------------
(* The partition                                                           *)

USE GenerationAssumption, SentinelAssumption

\* The call of an idle Runtime has the type of a call.
LEMMA NoCallType == NoCall \in Calls
<1>1. Envelopes # {}
  <2>1. PICK v \in VaultIds : TRUE
    BY NonEmptyAssumption
  <2>2. PICK b \in Bodies : TRUE
    BY NonEmptyAssumption
  <2>3. [vault_id |-> v, generation |-> 1, body |-> b] \in Envelopes
    BY <2>1, <2>2 DEF Envelopes
  <2> QED BY <2>3
<1>2. (CHOOSE e \in Envelopes : TRUE) \in Envelopes
  BY <1>1
<1> QED BY <1>2 DEF NoCall, Calls, Kinds, Slots

\* The initial state satisfies the inductive invariant.
LEMMA InitIndInv == Init => IndInv
<1> SUFFICES ASSUME Init PROVE IndInv
  OBVIOUS
<1>1. TypeOK
  BY NoCallType DEF Init, TypeOK, Schemas, LegacyStates, Modes, PCs, Slots
<1>2. NeverPartialGeneration
  BY DEF Init, NeverPartialGeneration, Slots
<1> QED
  BY <1>1, <1>2 DEF Init, IndInv, OffIsIdle, ReadyIsFormatted, CallMatchesCache,
    StagingIsInactive, FlipIsVerified, FormattingIsEmpty, Committing, Staging,
    Formatting, StaleCacheBounded, AcknowledgedIsDurable

USE DEF IndInv, TypeOK, Slots, Schemas, LegacyStates, Modes, Kinds, PCs,
    OffIsIdle, ReadyIsFormatted, CallMatchesCache, StagingIsInactive,
    FlipIsVerified, FormattingIsEmpty, Committing, Staging, Formatting,
    NeverPartialGeneration, StaleCacheBounded, AcknowledgedIsDurable,
    nvs, ram, vars

\* A boot reads the partition and keeps the invariant.
LEMMA BootStep ==
  ASSUME IndInv, NEW st \in {LoadStatus, "io"}, Boot(st)
  PROVE IndInv'
BY DEF Boot, Initialize, ExplicitReset, LoadStatus, Schema2LoadStatus,
  detect_legacy_schema, ActiveStatus, StoredVault

\* A lock keeps the invariant.
LEMMA LockBoundaryStep == ASSUME IndInv, LockBoundary PROVE IndInv'
BY DEF LockBoundary, StoredVault

\* The beginning of a commit keeps the invariant.
LEMMA BeginCommitStep ==
  ASSUME IndInv, NEW k \in Kinds, NEW x \in 0..MaxGeneration, NEW e \in Envelopes,
         BeginCommit(k, x, e)
  PROVE IndInv'
BY DEF BeginCommit, RuntimeAccepts, Calls, StoredVault

\* The check of the expected generation keeps the invariant.
LEMMA CheckCommitStep == ASSUME IndInv, CheckCommit PROVE IndInv'
BY DEF CheckCommit, FailCommit, ActiveStatus, DurableAccepts, Target, Calls, Envelopes, StoredVault

\* The write of the inactive slot keeps the invariant.
LEMMA StageCandidateStep == ASSUME IndInv, StageCandidate PROVE IndInv'
BY DEF StageCandidate, WriteStage, Calls, StoredVault

\* The read-back of that slot keeps the invariant.
LEMMA VerifyStagedStep == ASSUME IndInv, VerifyStaged PROVE IndInv'
BY DEF VerifyStaged, FailCommit, StoredVault

\* The write of the active pointer keeps the invariant.
LEMMA FlipActiveStep == ASSUME IndInv, FlipActive PROVE IndInv'
BY DEF FlipActive, WriteActive, Calls, Envelopes, StoredVault

\* The reload after it keeps the invariant.
LEMMA ConfirmCommitStep == ASSUME IndInv, ConfirmCommit PROVE IndInv'
BY ZenonT(40) DEF ConfirmCommit, ReloadMatches, Calls, Envelopes, StoredVault

\* So does a reload that fails.
LEMMA ConfirmFailsStep ==
  ASSUME IndInv, NEW st \in {LoadStatus, "io"}, ConfirmFails(st)
  PROVE IndInv'
BY DEF ConfirmFails, FailCommit, ExplicitReset, StoredVault

\* The steps of a format keep the invariant.
LEMMA FormatStep ==
  ASSUME IndInv,
         BeginFormat \/ FormatErase \/ FormatNamespace \/ FormatSchema \/ FormatReload
  PROVE IndInv'
<1>1. CASE BeginFormat
  BY <1>1 DEF BeginFormat, StoredVault
<1>2. CASE FormatErase
  BY <1>2 DEF FormatErase, EraseAll, StoredVault
<1>3. CASE FormatNamespace
  BY <1>3 DEF FormatNamespace, WriteNamespace, StoredVault
<1>4. CASE FormatSchema
  BY <1>4 DEF FormatSchema, WriteSchema, StoredVault
<1>5. CASE FormatReload
  BY <1>5 DEF FormatReload, LoadStatus, Schema2LoadStatus, detect_legacy_schema, StoredVault
<1> QED BY <1>1, <1>2, <1>3, <1>4, <1>5

\* The steps of an erase keep the invariant.
LEMMA EraseStep == ASSUME IndInv, BeginErase \/ FinishErase PROVE IndInv'
<1>1. CASE BeginErase
  BY <1>1 DEF BeginErase, StoredVault
<1>2. CASE FinishErase
  BY <1>2 DEF FinishErase, EraseAll, StoredVault
<1> QED BY <1>1, <1>2

\* A write of last_used keeps the invariant.
LEMMA SetLastUsedStep ==
  ASSUME IndInv, NEW c \in Credentials, SetLastUsed(c)
  PROVE IndInv'
BY DEF SetLastUsed, StoredVault

\* A partial write keeps the partition well-typed and never tears the
\* authoritative slot.
LEMMA PartialWriteSafe ==
  ASSUME IndInv, PartialWrite
  PROVE  /\ ns' \in BOOLEAN /\ schema' \in Schemas /\ legacy' \in LegacyStates
         /\ active' \in Slots \cup {Absent}
         /\ slot' \in [Slots -> Envelopes \cup {Absent, Torn, Newer}]
         /\ last_used' \in Credentials \cup {Absent, Torn}
         /\ NeverPartialGeneration'
<1>1. CASE UNCHANGED nvs
  BY <1>1
<1>2. CASE pc = "stage" /\ \E value \in {call.envelope, Torn, Absent} : WriteStage(value)
  BY <1>2 DEF WriteStage, Calls
<1>3. CASE pc = "flip" /\ WriteActive(call.target)
  BY <1>3 DEF WriteActive, Calls
<1>4. CASE EraseSome
  <2>1. PICK gone \in SUBSET NvsKeys :
          /\ ns' = (ns /\ "ns" \notin gone)
          /\ schema' = IF "schema" \in gone THEN Absent ELSE schema
          /\ active' = IF "active" \in gone THEN Absent ELSE active
          /\ slot' = [s \in Slots |-> IF SlotKey(s) \in gone THEN Absent ELSE slot[s]]
          /\ last_used' = IF "last_used" \in gone THEN Absent ELSE last_used
          /\ legacy' = IF "legacy" \in gone THEN "none" ELSE legacy
    BY <1>4 DEF EraseSome
  <2>2. slot' \in [Slots -> Envelopes \cup {Absent, Torn, Newer}] /\ NeverPartialGeneration'
    BY <2>1
  <2>3. ns' \in BOOLEAN
    BY <2>1, Zenon
  <2> QED
    BY <2>1, <2>2, <2>3
<1>5. CASE pc = "format_ns" /\ WriteNamespace
  BY <1>5 DEF WriteNamespace
<1>6. CASE pc = "format_schema" /\ WriteSchema
  BY <1>6 DEF WriteSchema
<1> QED
  BY <1>1, <1>2, <1>3, <1>4, <1>5, <1>6 DEF PartialWrite

\* A loss of power keeps the invariant, wherever it strikes.
LEMMA PowerLossStep == ASSUME IndInv, PowerLoss PROVE IndInv'
<1>1. /\ mode' = "off" /\ resettable' = FALSE /\ cached' = Absent
      /\ pc' = "idle" /\ call' = NoCall /\ reply' = "none"
  BY DEF PowerLoss
<1> QED
  BY <1>1, PartialWriteSafe, NoCallType DEF PowerLoss

\* An NVS error in a commit keeps the invariant.
LEMMA CommitIoErrorStep == ASSUME IndInv, CommitIoError PROVE IndInv'
<1>1. CASE UNCHANGED nvs
  BY <1>1 DEF CommitIoError, FailCommit, StoredVault
<1>2. CASE pc = "stage" /\ \E value \in {call.envelope, Torn, Absent} : WriteStage(value)
  BY <1>2 DEF CommitIoError, FailCommit, WriteStage, Calls, StoredVault
<1>3. CASE pc = "flip" /\ WriteActive(call.target)
  BY <1>3 DEF CommitIoError, FailCommit, WriteActive, Calls, Envelopes, StoredVault
<1> QED
  BY <1>1, <1>2, <1>3 DEF CommitIoError, PartialWrite

\* An NVS error in a format keeps the invariant.
LEMMA FormatIoErrorStep == ASSUME IndInv, FormatIoError PROVE IndInv'
BY PartialWriteSafe DEF FormatIoError

\* An NVS error in an erase keeps the invariant.
LEMMA EraseIoErrorStep == ASSUME IndInv, EraseIoError PROVE IndInv'
BY PartialWriteSafe DEF EraseIoError

\* Every step of the partition and of the calls into it preserves IndInv.
LEMMA NextIndInv == IndInv /\ [Next]_vars => IndInv'
<1> SUFFICES ASSUME IndInv, [Next]_vars PROVE IndInv'
  OBVIOUS
<1>1. CASE UNCHANGED vars
  BY <1>1 DEF StoredVault
<1>2. CASE Commit
  BY <1>2, BeginCommitStep, CheckCommitStep, StageCandidateStep, VerifyStagedStep,
    FlipActiveStep, ConfirmCommitStep, ConfirmFailsStep DEF Commit
<1>3. CASE FormatAndErase
  BY <1>3, FormatStep, EraseStep DEF FormatAndErase
<1>4. CASE Failure
  BY <1>4, PowerLossStep, CommitIoErrorStep, FormatIoErrorStep, EraseIoErrorStep
    DEF Failure
<1> QED
  BY <1>1, <1>2, <1>3, <1>4, BootStep, LockBoundaryStep, SetLastUsedStep DEF Next

HIDE DEF IndInv, NeverPartialGeneration, StaleCacheBounded, AcknowledgedIsDurable, vars

-----------------------------------------------------------------------------

\* The strengthened invariant of auth_nvs and its RAM image always holds.
THEOREM Inductive == Spec => []IndInv
<1>1. Init => IndInv
  BY InitIndInv
<1>2. IndInv /\ [Next]_vars => IndInv'
  BY NextIndInv
<1> QED
  BY <1>1, <1>2, PTL DEF Spec

\* replace_envelope never leaves a half-written envelope authoritative,
\* wherever power is lost or NVS fails.
THEOREM PersistenceNeverPartial == Spec => []NeverPartialGeneration
<1>1. IndInv => NeverPartialGeneration
  BY DEF IndInv
<1> QED
  BY <1>1, Inductive, PTL

\* Runtime::envelope_ lags the partition by at most one generation of the
\* same Vault, however many commits report an error.
THEOREM PersistenceStaleCacheBounded == Spec => []StaleCacheBounded
<1>1. IndInv => StaleCacheBounded
  BY DEF IndInv
<1> QED
  BY <1>1, Inductive, PTL

\* An acknowledged Vault commit is what a reboot loads.
THEOREM PersistenceAcknowledgedIsDurable == Spec => []AcknowledgedIsDurable
<1>1. IndInv => AcknowledgedIsDurable
  BY DEF IndInv
<1> QED
  BY <1>1, Inductive, PTL

-----------------------------------------------------------------------------

\* Every step maps to an installation, an advance by one generation, an
\* erasure or a stutter of AtomicVault.
LEMMA StepSimulation == IndInv /\ [Next]_vars => [Durable!Next]_StoredVault
<1> USE DEF IndInv, NeverPartialGeneration, vars, Durable!Next, Durable!Install, Durable!Advance, Durable!Erase,
            Durable!Envelopes, Envelopes, StoredVault
<1> SUFFICES ASSUME IndInv, [Next]_vars PROVE [Durable!Next]_StoredVault
  OBVIOUS
<1>1. CASE UNCHANGED nvs
  BY <1>1
<1>2. CASE EraseAll \/ EraseSome
  BY <1>2 DEF EraseAll, EraseSome
<1>3. ASSUME pc = "flip", WriteActive(call.target) PROVE Durable!Next
  BY <1>3 DEF WriteActive, Calls
<1>4. ASSUME pc = "stage", NEW value \in {call.envelope, Torn, Absent}, WriteStage(value)
      PROVE UNCHANGED StoredVault
  BY <1>4 DEF WriteStage, Calls
<1>5. ASSUME pc = "format_ns", WriteNamespace PROVE UNCHANGED StoredVault
  BY <1>5 DEF WriteNamespace
<1>6. ASSUME pc = "format_schema", WriteSchema PROVE UNCHANGED StoredVault
  BY <1>6 DEF WriteSchema
<1>7. CASE CheckCommit
  BY <1>7 DEF CheckCommit
<1>8. ASSUME NEW c \in Credentials, SetLastUsed(c) PROVE UNCHANGED StoredVault
  BY <1>8 DEF SetLastUsed
<1>9. CASE PartialWrite
  BY <1>1, <1>2, <1>3, <1>4, <1>5, <1>6, <1>9 DEF PartialWrite
<1>10. CASE Commit
  BY <1>1, <1>3, <1>4, <1>7, <1>10 DEF Commit, BeginCommit, StageCandidate,
    VerifyStaged, FlipActive, ConfirmCommit, ConfirmFails
<1>11. CASE FormatAndErase
  BY <1>1, <1>2, <1>5, <1>6, <1>11 DEF FormatAndErase, BeginFormat, FormatErase,
    FormatNamespace, FormatSchema, FormatReload, BeginErase, FinishErase
<1>12. CASE Failure
  BY <1>9, <1>12 DEF Failure, PowerLoss, CommitIoError, FormatIoError, EraseIoError
<1> QED
  BY <1>1, <1>8, <1>10, <1>11, <1>12 DEF Next, Boot, LockBoundary

\* The two-slot partition implements the atomic Vault: whatever fails, the
\* authoritative envelope changes only by a whole installation, by exactly
\* one generation of the same Vault, or by erasure.
THEOREM PersistenceRefinesAtomicVault == Spec => AtomicCommit
<1>1. Init => Durable!Init
  BY DEF Init, Durable!Init, StoredVault
<1>2. IndInv /\ [Next]_vars => [Durable!Next]_StoredVault
  BY StepSimulation
<1> QED
  BY <1>1, <1>2, Inductive, PTL DEF Spec, AtomicCommit, Durable!Spec

=============================================================================
