---------------------------- MODULE VaultFormat ----------------------------
(***************************************************************************)
(* The bytes of a Vault: the plaintext codec (m5auth_vault/                *)
(* vault_format.cpp), the authenticated envelope (vault_crypto.cpp), the   *)
(* slot image the envelope is stored as (m5auth_vault_runtime/             *)
(* nvs_persistence.cpp) and the check the Runtime makes before it lets a   *)
(* Vault in (runtime.cpp, validate_envelope_with_key).                     *)
(*                                                                         *)
(* A writer (the Browser) encodes a plaintext, possibly not the one it     *)
(* meant, and seals it; the Device stores the envelope as a slot image;    *)
(* the image may come back from flash a byte off; some key is presented.   *)
(* Byte values, number widths and the limits on numbers are the code's.    *)
(* Fixed-length opaque fields (magics, ids, nonce, tag) are one byte each, *)
(* the lengths the code limits are the constants, and of the generation    *)
(* and the size of the ciphertext the low two and three bytes are encoded: *)
(* the others are zero at these bounds.  AES-GCM is external: it opens     *)
(* exactly what was sealed.                                                *)
(***************************************************************************)
EXTENDS Utf8, FiniteSets, SequencesExt

CONSTANTS
    Samples,          \* the plaintexts a writer may mean
    Headers,          \* the headers it may seal them with
    kMaxCredentials,  \* the limits of the format
    kMaxFieldBytes,
    kMaxSecretBytes,
    kMaxPersistedCiphertextBytes,
    TextBytes,        \* the bytes a careless writer's text may have
    MaxText,          \* bound on its length
    EditBytes,        \* the bytes a wrong byte may take
    MaxEdits          \* bound: wrong bytes, in plaintext and image, and wrong keys

\* Numbers of one, two and three bytes.
Byte == 0..255
Word == {n \in Nat : n < 65536}
Word24 == {n \in Nat : n < 16777216}

\* What a writer may mean: byte strings and numbers of the code's widths.  An
\* optional field is a sequence of at most one element.
CredentialRecords ==
    [id : Byte, secret : Seq(Byte), issuer : Seq(Byte), account : Seq(Byte), name : Seq(Byte),
     digits : Byte, period : Word, order : Word]
WifiSettings == [ssid : Seq(Byte), password : Seq(Byte)]

IsPlaintext(v) ==
    /\ v \in [credentials : Seq(CredentialRecords), wifi : Seq(WifiSettings), days : Seq(Byte)]
    /\ Len(v.wifi) <= 1 /\ Len(v.days) <= 1

ASSUME FormatAssumption ==
    /\ \A v \in Samples : IsPlaintext(v)
    /\ Headers \subseteq [format : {1, 2}, vault : Byte, generation : Word \ {0}]
    /\ {kMaxCredentials, kMaxFieldBytes, kMaxSecretBytes} \subseteq Word
    /\ kMaxPersistedCiphertextBytes \in Word24
    /\ {MaxEdits, MaxText} \subseteq Nat
    /\ MaxText <= kMaxFieldBytes /\ MaxText + 10 <= kMaxPersistedCiphertextBytes
    /\ EditBytes \subseteq Byte /\ TextBytes \subseteq Byte

kFormats == {1, 2}
kSchema == 2
kSha1 == 1
Keys == {7, 9}

VARIABLES
    meant,    \* [value, format, header]: what the writer means to store
    plain,    \* the plaintext bytes it sealed
    sealed,   \* the one box AES-GCM ever produced: key, nonce, aad, ciphertext, tag
    image,    \* the slot image as it reads back
    vmk,      \* the key that is presented
    text,     \* the unchecked text in it, if there is one
    edits     \* things gone wrong so far

format_vars == <<meant, plain, sealed, image, vmk, text, edits>>

-----------------------------------------------------------------------------
(* Writing a plaintext                                                     *)

U16(n) == <<n \div 256, n % 256>>
Sized(s) == U16(Len(s)) \o s

ValidCredential(r) ==
    /\ Len(r.secret) \in 1..kMaxSecretBytes
    /\ r.digits \in 1..10
    /\ r.period >= 1

ValidText(s) == IsValidUtf8(s) /\ Len(s) <= kMaxFieldBytes

ValidAutoLockDays(days) == \A i \in 1..Len(days) : days[i] \in 1..31

\* Everything encode_plaintext refuses.
Encodable(v, format) ==
    /\ format \in kFormats
    /\ Len(v.credentials) <= kMaxCredentials
    /\ ValidAutoLockDays(v.days)
    /\ format = 1 => v.days = <<>>
    /\ \A i \in 1..Len(v.credentials) :
         /\ ValidCredential(v.credentials[i])
         /\ \A f \in {"issuer", "account", "name"} : ValidText(v.credentials[i][f])
         /\ \A j \in 1..(i - 1) : v.credentials[j].id # v.credentials[i].id
    /\ \A i \in 1..Len(v.wifi) : ValidText(v.wifi[i].ssid) /\ ValidText(v.wifi[i].password)

EncodeRecord(r) ==
    <<r.id>> \o Sized(r.secret) \o Sized(r.issuer) \o Sized(r.account)
    \o Sized(r.name) \o <<kSha1, r.digits>> \o U16(r.period) \o U16(r.order)

EncodeWifi(w) == Sized(w.ssid) \o Sized(w.password)

\* encode_plaintext; <<>> when it refuses.
EncodePlaintext(v, format) ==
    IF ~Encodable(v, format) THEN <<>>
    ELSE <<format>> \o U16(format) \o U16(Len(v.credentials))
         \o FlattenSeq([i \in 1..Len(v.credentials) |-> EncodeRecord(v.credentials[i])])
         \o <<Len(v.wifi)>>
         \o FlattenSeq([i \in 1..Len(v.wifi) |-> EncodeWifi(v.wifi[i])])
         \o (IF format = 2 THEN <<Len(v.days)>> \o v.days ELSE <<>>)

-----------------------------------------------------------------------------
(* Reading one.  A read from an offset gives the set of its results: none  *)
(* when it fails, else the value and the offset it has reached.            *)

\* read_bytes
Take(b, at, n) ==
    IF n <= Len(b) - at THEN {[at |-> at + n, value |-> SubSeq(b, at + 1, at + n)]} ELSE {}

ReadU8(b, at) == {[x EXCEPT !.value = x.value[1]] : x \in Take(b, at, 1)}
ReadU16(b, at) == {[x EXCEPT !.value = x.value[1] * 256 + x.value[2]] : x \in Take(b, at, 2)}
ReadLittleU16(b, at) ==
    {[x EXCEPT !.value = x.value[1] + x.value[2] * 256] : x \in Take(b, at, 2)}
ReadLittleU24(b, at) ==
    {[x EXCEPT !.value = x.value[1] + x.value[2] * 256 + x.value[3] * 65536] :
        x \in Take(b, at, 3)}

ReadSized(b, at, maximum) ==
    UNION {Take(b, n.at, n.value) : n \in {x \in ReadU16(b, at) : x.value <= maximum}}
ReadText(b, at) == {x \in ReadSized(b, at, kMaxFieldBytes) : IsValidUtf8(x.value)}

\* A presence byte, 0 or 1.
ReadPresence(b, at) == {x \in ReadU8(b, at) : x.value <= 1}

Read(b, at, kind) ==
    CASE kind = "u8"     -> ReadU8(b, at)
      [] kind = "u16"    -> ReadU16(b, at)
      [] kind = "little" -> ReadLittleU16(b, at)
      [] kind = "size"   -> ReadLittleU24(b, at)
      [] kind = "secret" -> ReadSized(b, at, kMaxSecretBytes)
      [] kind = "text"   -> ReadText(b, at)

\* Fields one after the other; the value is their sequence.
ReadAll(b, at, kinds) ==
    LET after[n \in 0..Len(kinds)] ==
            IF n = 0 THEN {[at |-> at, value |-> <<>>]}
            ELSE UNION {{[x EXCEPT !.value = Append(before.value, x.value)] :
                             x \in Read(b, before.at, kinds[n])} : before \in after[n - 1]}
    IN  after[Len(kinds)]

RecordKinds == <<"u8", "secret", "text", "text", "text", "u8", "u8", "u16", "u16">>

Record(f) ==
    [id |-> f[1], secret |-> f[2], issuer |-> f[3], account |-> f[4], name |-> f[5],
     digits |-> f[7], period |-> f[8], order |-> f[9]]

ReadRecord(b, at) ==
    {[x EXCEPT !.value = Record(x.value)] :
        x \in {y \in ReadAll(b, at, RecordKinds) :
                  y.value[6] = kSha1 /\ ValidCredential(Record(y.value))}}

\* The first n records, each with an id of its own.
ReadRecords(b, at, count) ==
    LET records[n \in 0..count] ==
            IF n = 0 THEN {[at |-> at, value |-> <<>>]}
            ELSE UNION {{[x EXCEPT !.value = Append(before.value, x.value)] :
                             x \in {y \in ReadRecord(b, before.at) :
                                       \A i \in 1..(n - 1) : before.value[i].id # y.value.id}}
                          : before \in records[n - 1]}
    IN  records[count]

ReadWifi(b, at) ==
    UNION {IF present.value = 0 THEN {[present EXCEPT !.value = <<>>]}
           ELSE {[x EXCEPT !.value = <<[ssid |-> x.value[1], password |-> x.value[2]]>>] :
                    x \in ReadAll(b, present.at, <<"text", "text">>)}
             : present \in ReadPresence(b, at)}

\* Mutant: the last day of the range is refused.
DayRangeShort == 1..30
kAutoLockDays == 1..31

\* Format 1 has none.
ReadAutoLockDays(b, at, format) ==
    IF format = 1 THEN {[at |-> at, value |-> <<>>]}
    ELSE UNION {IF present.value = 0 THEN {[present EXCEPT !.value = <<>>]}
                ELSE {[x EXCEPT !.value = <<x.value>>] :
                         x \in {y \in ReadU8(b, present.at) : y.value \in kAutoLockDays}}
                  : present \in ReadPresence(b, at)}

\* Mutant: bytes after the last field are ignored.
DecodesIgnoringTail(b, last) == TRUE

\* at_end: the last field ends with the input.
DecodesWhole(b, last) == last.at = Len(b)

\* Magic, version and count
ReadPrefix(b) ==
    {x \in ReadAll(b, 0, <<"u8", "u16", "u16">>) :
        /\ x.value[1] \in kFormats /\ x.value[2] = x.value[1]
        /\ x.value[3] <= kMaxCredentials}

\* decode_plaintext: the format it detected and the value, or nothing.
DecodePlaintext(b) ==
    UNION {UNION {UNION {
        {[format |-> prefix.value[1],
          value |-> [credentials |-> records.value, wifi |-> wifi.value, days |-> days.value]] :
            days \in {x \in ReadAutoLockDays(b, wifi.at, prefix.value[1]) : DecodesWhole(b, x)}}
        : wifi \in ReadWifi(b, records.at)}
        : records \in ReadRecords(b, prefix.at, prefix.value[3])}
        : prefix \in ReadPrefix(b)}

-----------------------------------------------------------------------------
(* The envelope and its authentication                                     *)

\* Mutant: the generation is left out of the additional data.
BuildVaultAadUnversioned(e) == <<e.format>> \o U16(e.format) \o U16(e.schema) \o <<e.vault>>

\* build_vault_aad
BuildVaultAad(e) ==
    <<e.format>> \o U16(e.format) \o U16(e.schema) \o <<e.vault>> \o U16(e.generation)

\* The keystream of AES-GCM, and its inverse.
Encipher(bytes, key, nonce) == [i \in 1..Len(bytes) |-> (bytes[i] + key + nonce) % 256]
Decipher(bytes, key, nonce) == [i \in 1..Len(bytes) |-> (bytes[i] - key - nonce) % 256]

kNonce == 5
kTag == 3

\* encrypt_vault: the envelope of a plaintext under the writer's key.
Envelope(bytes, header) ==
    [schema |-> kSchema, format |-> header.format, vault |-> header.vault,
     generation |-> header.generation, nonce |-> kNonce, tag |-> kTag,
     ciphertext |-> Encipher(bytes, 7, kNonce)]

\* What the tag stands for.
Box(e, key) ==
    [key |-> key, nonce |-> e.nonce, tag |-> e.tag, ciphertext |-> e.ciphertext,
     aad |-> BuildVaultAad(e)]

\* decrypt_vault; AES-GCM authenticates only the box it produced.
Authenticates(e, key) ==
    e.format \in kFormats /\ e.schema = kSchema /\ Box(e, key) = sealed

-----------------------------------------------------------------------------
(* The slot image                                                          *)

LittleU16(n) == <<n % 256, n \div 256>>
LittleU24(n) == <<n % 256, (n \div 256) % 256, n \div 65536>>

kEnvelopeMagic == 77

\* valid_envelope, and the Runtime's valid_envelope_framing
ValidEnvelope(e) ==
    /\ e.schema = kSchema /\ e.format \in kFormats /\ e.generation # 0
    /\ Len(e.ciphertext) \in 1..kMaxPersistedCiphertextBytes

\* encode_envelope; <<>> when it refuses.
EncodeEnvelope(e) ==
    IF ~ValidEnvelope(e) THEN <<>>
    ELSE <<kEnvelopeMagic>> \o LittleU16(e.schema) \o LittleU16(e.format) \o <<e.vault>>
         \o LittleU16(e.generation) \o <<e.nonce, e.tag>>
         \o LittleU24(Len(e.ciphertext)) \o e.ciphertext

\* The ciphertext has the announced size, within the limit, and ends the image.
ReadCiphertext(b, at, size) ==
    IF size \in 1..kMaxPersistedCiphertextBytes
    THEN {c.value : c \in {x \in Take(b, at, size) : x.at = Len(b)}} ELSE {}

EnvelopeKinds == <<"u8", "little", "little", "u8", "little", "u8", "u8", "size">>

\* decode_envelope: the envelope, or nothing.
DecodeEnvelope(b) ==
    {e \in UNION {{[schema |-> h.value[2], format |-> h.value[3], vault |-> h.value[4],
                    generation |-> h.value[5], nonce |-> h.value[6], tag |-> h.value[7],
                    ciphertext |-> c] : c \in ReadCiphertext(b, h.at, h.value[8])}
                  : h \in {x \in ReadAll(b, 0, EnvelopeKinds) : x.value[1] = kEnvelopeMagic}}
        : ValidEnvelope(e)}

-----------------------------------------------------------------------------
(* The Runtime's check                                                     *)

\* validate_envelope_with_key, and what list_credentials, with_credential,
\* with_wifi and set_last_used do again before each use: the value, or nothing.
Admitted(e, key) ==
    IF Authenticates(e, key)
    THEN {d.value : d \in {x \in DecodePlaintext(Decipher(e.ciphertext, key, e.nonce)) :
                                 x.format = e.format}}
    ELSE {}

\* What a slot image and a key give.
Opened == UNION {Admitted(e, vmk) : e \in DecodeEnvelope(image)}

-----------------------------------------------------------------------------

\* A writer encodes one of the samples in one of the formats that can hold it
\* and seals it; the Device stores the image.
Stores(bytes, header) ==
    LET e == Envelope(bytes, header)
    IN  /\ sealed' = Box(e, 7)
        /\ image' = EncodeEnvelope(e)

FormatInit ==
    \E v \in Samples : \E h \in {x \in Headers : Encodable(v, x.format)} :
        LET e == Envelope(EncodePlaintext(v, h.format), h)
        IN  /\ meant = [value |-> v, header |-> h]
            /\ plain = EncodePlaintext(v, h.format)
            /\ sealed = Box(e, 7)
            /\ image = EncodeEnvelope(e)
            /\ vmk = 7 /\ text = <<>>
            /\ edits = 0

\* All byte strings one byte away from s.
OneByteOff(s) ==
    {ReplaceAt(s, i, b) : i \in 1..Len(s), b \in EditBytes}
    \cup {InsertAt(s, i, b) : i \in 1..(Len(s) + 1), b \in EditBytes}
    \cup {RemoveAt(s, i) : i \in 1..Len(s)}

\* Another writer seals bytes that are nearly an encoding.
SealOther ==
    /\ edits < MaxEdits /\ image = EncodeEnvelope(Envelope(plain, meant.header))
    /\ \E b \in OneByteOff(plain) : plain' = b /\ Stores(b, meant.header)
    /\ edits' = edits + 1
    /\ UNCHANGED <<meant, vmk, text>>

\* A Vault of format 1 with nothing but a network name.
NameOnly(name) ==
    <<1>> \o U16(1) \o U16(0) \o <<1>> \o EncodeWifi([ssid |-> name, password |-> <<>>])

\* A writer that does not check its text seals a Vault with nothing but a
\* network name, ever longer; in format 1, as a text is read alike in both.
SealText ==
    /\ meant.header.format = 1 /\ meant.value.wifi # <<>>
    /\ IF text = <<>> THEN edits = 0 /\ text' = <<<<>>>>
       ELSE Len(text[1]) < MaxText /\ \E b \in TextBytes : text' = <<Append(text[1], b)>>
    /\ plain' = NameOnly(text'[1])
    /\ Stores(plain', meant.header)
    /\ edits' = MaxEdits
    /\ UNCHANGED <<meant, vmk>>

\* The image comes back from flash with a wrong byte.
Wear ==
    /\ edits < MaxEdits
    /\ image' \in OneByteOff(image)
    /\ edits' = edits + 1
    /\ UNCHANGED <<meant, plain, sealed, vmk, text>>

\* Another key is presented.
PresentKey ==
    /\ edits < MaxEdits
    /\ vmk' \in Keys \ {vmk}
    /\ edits' = edits + 1
    /\ UNCHANGED <<meant, plain, sealed, image, text>>

FormatNext == SealOther \/ SealText \/ Wear \/ PresentKey

FormatSpec == FormatInit /\ [][FormatNext]_format_vars

-----------------------------------------------------------------------------

\* The writer's own image and key.
Intact == image = EncodeEnvelope(Envelope(plain, meant.header)) /\ vmk = 7

\* Type invariant: what is sealed and what is stored are byte strings.
FormatTypeOK ==
    /\ meant \in [value: Samples, header: Headers]
    /\ plain \in Seq(Byte) /\ image \in Seq(Byte)
    /\ sealed.aad \in Seq(Byte) /\ sealed.ciphertext \in Seq(Byte)
    /\ vmk \in Keys /\ edits \in 0..MaxEdits
    /\ text = <<>> \/ text[1] \in Seq(TextBytes)

\* The inductive invariant: the one box is of the plaintext under the header,
\* and an unchecked text is all its Vault holds and all that went wrong.
SealInv ==
    /\ FormatTypeOK
    /\ Encodable(meant.value, meant.header.format)
    /\ sealed = Box(Envelope(plain, meant.header), 7)
    /\ edits = 0 => vmk = 7
    /\ \/ text = <<>>
       \/ /\ text = <<text[1]>> /\ Len(text[1]) <= MaxText
          /\ meant.header.format = 1 /\ plain = NameOnly(text[1])
          /\ edits = MaxEdits /\ Intact

\* What a writer encoded, sealed and stored is what the Device reads: every
\* value the encoder accepts, and whose envelope is not too large to be stored,
\* decodes to itself, in either format, through the envelope and the slot image.
RoundTrip ==
    Intact /\ image # <<>> /\ plain = EncodePlaintext(meant.value, meant.header.format)
        => Opened = {meant.value}

\* A decoder accepts only what its encoder writes: no byte string but the
\* encoding of a value decodes, so two strings never mean the same Vault and
\* nothing a writer must not store (a repeated id, an empty secret, a day out
\* of range, text that is not UTF-8, bytes after the end) is let in.
Canonical ==
    /\ \A d \in DecodePlaintext(plain) : EncodePlaintext(d.value, d.format) = plain
    /\ \A e \in DecodeEnvelope(image) : EncodeEnvelope(e) = image

\* The Device takes a text exactly when it is well-formed UTF-8, as the numbers
\* define it: no overlong form, no surrogate, nothing past U+10FFFF, nothing
\* cut short.  About: is_valid_utf8 and its table of byte ranges.
AcceptsExactlyUtf8 == \A i \in 1..Len(text) : Opened # {} <=> IsUtf8(text[i])

\* A Vault is read only from the image that was stored, with the key that
\* sealed it, and under the header it was sealed with: a wrong byte anywhere in
\* the image, the unauthenticated-looking header included, reads as no Vault.
OnlyWhatWasSealed ==
    Opened # {} =>
        /\ Intact
        /\ \E d \in DecodePlaintext(plain) : d.format = meant.header.format
=============================================================================
