-------------------------------- MODULE Utf8 --------------------------------
(***************************************************************************)
(* The text check of the Vault format (m5auth_vault/vault_format.cpp,     *)
(* is_valid_utf8), at its real byte values.  Every text of a Vault         *)
(* plaintext passes through it twice: when a writer appends it and when    *)
(* the Device reads it.  CharBytes is the code's table of byte ranges;     *)
(* IsScalar is the numeric definition of UTF-8 it is checked against.      *)
(***************************************************************************)
EXTENDS Integers, Sequences

IsContinuation(byte) == byte \div 64 = 2

-----------------------------------------------------------------------------

(***************************************************************************)
(* What a mistaken table would accept: a three-byte form of a code point   *)
(* that fits two bytes, because the lower bound after 0xE0 is forgotten.   *)
(***************************************************************************)
SecondRangeLoose(first) ==
    CASE first = 237 -> 128..159
      [] first = 240 -> 144..191
      [] first = 244 -> 128..143
      [] OTHER       -> 128..191

\* The bytes that may follow a lead byte.
SecondRange(first) ==
    CASE first = 224 -> 160..191     \* 0xE0: no overlong form
      [] first = 237 -> 128..159     \* 0xED: no surrogate
      [] first = 240 -> 144..191     \* 0xF0: no overlong form
      [] first = 244 -> 128..143     \* 0xF4: at most U+10FFFF
      [] OTHER       -> 128..191

\* The number of bytes a lead byte announces, 0 when no character starts so.
LeadBytes(first) ==
    CASE first <= 127        -> 1
      [] first \in 194..223  -> 2
      [] first \in 224..239  -> 3
      [] first \in 240..244  -> 4
      [] OTHER               -> 0

\* The bytes of the character that starts at index i, 0 when there is none.
CharBytes(s, i) ==
    LET n == LeadBytes(s[i])
        fits == i + n - 1 <= Len(s)
        whole == /\ n > 1 => s[i + 1] \in SecondRange(s[i])
                 /\ \A k \in 2..(n - 1) : IsContinuation(s[i + k])
    IN  IF n > 0 /\ fits /\ whole THEN n ELSE 0

\* is_valid_utf8: the scan from the first byte consumes the whole text.
IsValidUtf8(s) ==
    LET Rest[i \in 1..(Len(s) + 1)] ==
            \/ i > Len(s)
            \/ CharBytes(s, i) > 0 /\ Rest[i + CharBytes(s, i)]
    IN  Rest[1]

-----------------------------------------------------------------------------

(***************************************************************************)
(* The reference: a byte string is one character when it is the shortest   *)
(* encoding of a Unicode scalar value, read off its payload bits.          *)
(***************************************************************************)
Payload2(c) == (c[1] % 32) * 64 + (c[2] % 64)
Payload3(c) == (c[1] % 16) * 4096 + (c[2] % 64) * 64 + (c[3] % 64)
Payload4(c) == (c[1] % 8) * 262144 + (c[2] % 64) * 4096 + (c[3] % 64) * 64 + (c[4] % 64)

IsScalar(c) ==
    /\ \A k \in 2..Len(c) : c[k] \in 128..191
    /\ \/ Len(c) = 1 /\ c[1] < 128
       \/ Len(c) = 2 /\ c[1] \div 32 = 6  /\ Payload2(c) >= 128
       \/ Len(c) = 3 /\ c[1] \div 16 = 14 /\ Payload3(c) >= 2048
                     /\ ~(Payload3(c) >= 55296 /\ Payload3(c) <= 57343)
       \/ Len(c) = 4 /\ c[1] \div 8 = 30  /\ Payload4(c) >= 65536 /\ Payload4(c) <= 1114111

\* A text is valid when it can be cut into characters.
IsUtf8(s) ==
    \E cuts \in SUBSET (1..Len(s)) :
        LET start(e) == {0} \cup {c \in cuts : c < e}
        IN  /\ Len(s) > 0 => Len(s) \in cuts
            /\ \A e \in cuts :
                 \E b \in start(e) : /\ \A c \in start(e) : c <= b
                                     /\ IsScalar(SubSeq(s, b + 1, e))
=============================================================================
