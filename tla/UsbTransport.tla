------------------------------ MODULE UsbTransport ------------------------------
(***************************************************************************)
(* The protocol task's loop (app_main.cpp) and the phase of the USB link   *)
(* (usb_protocol_transport): cutting what read() returns into lines,       *)
(* discarding what is too long, and answering. One action is one pass of   *)
(* the loop; the link may come and go between two passes.                  *)
(*                                                                         *)
(* A payload byte stands for the bytes of a frame of its kind; two of them *)
(* on one line are a malformed frame.  What a valid request does is        *)
(* DeviceOwnership's business: here it may leave an authorization pending  *)
(* (a session attempt, a delivered VMK, a reset) or end one.               *)
(***************************************************************************)
EXTENDS Integers, Sequences, SequencesExt

CONSTANTS
    MaxLine,    \* kMaxCanonicalV2MessageBytes
    MaxBytes    \* bound on the bytes read in one connection

ASSUME LineAssumption == MaxLine \in Nat \ {0} /\ MaxBytes \in Nat

VARIABLES
    connected,  \* usb_serial_jtag_is_connected()
    phase,      \* UsbProtocolTransport::phase_
    input,      \* the first buffered_input bytes of input
    discard,    \* discard_oversized_input
    pending,    \* is anything pending in the handler?
    \* history, since the loop last saw the link down
    received,   \* every byte read
    lines       \* every line taken from the input, and what became of it

usb_vars == <<connected, phase, input, discard, pending, received, lines>>

Payload == {"hello", "request", "trailing", "junk"}
Bytes == Payload \cup {"\r", "\n"}
Capacity == MaxLine + 2 \* input.size()
TooLarge == <<"too large">>

UsbTypeOK ==
    /\ connected \in BOOLEAN /\ discard \in BOOLEAN /\ pending \in BOOLEAN
    /\ phase \in {"pre", "strict", "faulted"}
    /\ input \in Seq(Bytes) /\ Len(input) <= Capacity
    /\ received \in Seq(Bytes) /\ Len(received) <= MaxBytes
    /\ lines \in Seq([line : BoundedSeq(Bytes, MaxLine) \cup {TooLarge},
                      phase : {"pre", "strict"}, answer : {"none", "error", "ok"}])
    /\ discard => input = <<>>

UsbInit ==
    /\ connected \in BOOLEAN
    /\ phase = "pre" /\ input = <<>> /\ discard = FALSE /\ pending = FALSE
    /\ received = <<>> /\ lines = <<>>

-----------------------------------------------------------------------------
(* Lines                                                                   *)

\* The bytes before the first newline.
FirstLine(s) == SubSeq(s, 1, (CHOOSE i \in 1..Len(s) :
                   s[i] = "\n" /\ \A j \in 1..(i - 1) : s[j] # "\n") - 1)

HasLine(s) == "\n" \in Range(s)

\* What consume_input_prefix leaves after the first line.
Consumed(s) == SubSeq(s, Len(FirstLine(s)) + 2, Len(s))

\* Trailing carriage returns are dropped.
Stripped(s) == SubSeq(s, 1, CHOOSE n \in 0..Len(s) :
                 /\ n > 0 => s[n] # "\r"
                 /\ \A i \in (n + 1)..Len(s) : s[i] = "\r")

IsHello(line) == line = <<"hello">>

\* classify_protocol_frame(): nothing may follow the object.
IsValid(line) == IsHello(line) \/ line = <<"request">>

\* handle_line() parses without asking for the end of the line.
Parses(line) == IsValid(line) \/ line = <<"trailing">>

-----------------------------------------------------------------------------
(* One pass of the loop                                                    *)

\* housekeeping(): what is pending may have expired.
Kept == IF pending THEN BOOLEAN ELSE {FALSE}

Taken(line, answer) == Append(lines, [line |-> line, phase |-> phase, answer |-> answer])

LinkChanges ==
    /\ connected' = ~connected
    /\ UNCHANGED <<phase, input, discard, pending, received, lines>>

SeesDisconnectKeepingSession ==
    /\ ~connected
    /\ phase' = "pre" /\ pending' = pending
    /\ input' = <<>> /\ discard' = FALSE
    /\ received' = <<>> /\ lines' = <<>>
    /\ UNCHANGED connected

\* !connected(): the only way out of a fault.
SeesDisconnect ==
    /\ ~connected
    /\ phase' = "pre" /\ pending' = FALSE
    /\ input' = <<>> /\ discard' = FALSE
    /\ received' = <<>> /\ lines' = <<>>
    /\ UNCHANGED connected

StaysFaulted ==
    /\ connected /\ phase = "faulted"
    /\ input' = <<>> /\ discard' = FALSE
    /\ pending' \in Kept
    /\ UNCHANGED <<connected, phase, received, lines>>

\* fail_transport_session() after a failed read.
ReadFails ==
    /\ connected /\ phase # "faulted"
    /\ discard \/ (~HasLine(input) /\ Len(input) < Capacity)
    /\ phase' = "faulted" /\ pending' = FALSE /\ input' = <<>>
    /\ UNCHANGED <<connected, discard, received, lines>>

ReadsDiscardingAll(chunk) ==
    /\ connected /\ phase # "faulted" /\ discard
    /\ Len(chunk) <= Capacity
    /\ discard' = ~HasLine(chunk)
    /\ received' = received \o chunk
    /\ pending' \in Kept
    /\ UNCHANGED <<connected, phase, input, lines>>

\* The rest of a line that is being discarded.
ReadsDiscarding(chunk) ==
    /\ connected /\ phase # "faulted" /\ discard
    /\ Len(chunk) <= Capacity
    /\ IF HasLine(chunk)
         THEN discard' = FALSE /\ input' = Consumed(chunk)
         ELSE UNCHANGED <<discard, input>>
    /\ received' = received \o chunk
    /\ pending' \in Kept
    /\ UNCHANGED <<connected, phase, lines>>

ReadsMore(chunk) ==
    /\ connected /\ phase # "faulted" /\ ~discard
    /\ ~HasLine(input) /\ Len(input) + Len(chunk) <= Capacity
    /\ input' = input \o chunk
    /\ received' = received \o chunk
    /\ pending' \in Kept
    /\ UNCHANGED <<connected, phase, discard, lines>>

Reads ==
    \E chunk \in BoundedSeq(Bytes, Capacity) :
        /\ Len(received) + Len(chunk) <= MaxBytes
        /\ ReadsDiscarding(chunk) \/ ReadsMore(chunk)

\* A message_too_large answer tears the session down, and ends a strict link;
\* so does an answer that could not be written.
Rejects ==
    /\ pending' = FALSE
    /\ phase' \in IF phase = "strict" THEN {"faulted"} ELSE {phase, "faulted"}
    /\ lines' = Taken(TooLarge, "error")

\* The buffer is full and holds no newline.
Overflows ==
    /\ connected /\ phase # "faulted" /\ ~discard
    /\ ~HasLine(input) /\ Len(input) >= Capacity
    /\ Rejects
    /\ input' = <<>> /\ discard' = TRUE
    /\ UNCHANGED <<connected, received>>

\* handle_line(): its possible answers, and what may be pending after it.  An empty
\* line is refused before anything is torn down; one that does not parse ends the
\* session; hello only reads.
Answers(line) == IF Parses(line) THEN {"ok", "error"} ELSE {"error"}

PendingAfter(line) ==
    IF line = <<>> \/ IsHello(line) THEN Kept
    ELSE IF Parses(line) THEN BOOLEAN
    ELSE {FALSE}

NextPhaseIfParsed(line, answer) ==
    IF IsHello(line) /\ answer = "ok" THEN "strict"
    ELSE IF phase = "strict" /\ ~Parses(line) THEN "faulted"
    ELSE phase

\* The phase after the answer was written: an answered hello opens the protocol, a
\* frame that is not valid ends a strict link.
NextPhase(line, answer) ==
    IF IsHello(line) /\ answer = "ok" THEN "strict"
    ELSE IF phase = "strict" /\ ~IsValid(line) THEN "faulted"
    ELSE phase

\* Before the handshake everything but a valid hello is dropped unanswered.
TakesLine ==
    /\ connected /\ phase # "faulted" /\ ~discard /\ HasLine(input)
    /\ input' = Consumed(input)
    /\ UNCHANGED <<connected, discard, received>>
    /\ LET line == Stripped(FirstLine(input)) IN
         \/ Len(line) > MaxLine /\ Rejects
         \/ /\ Len(line) <= MaxLine /\ phase = "pre" /\ ~IsHello(line)
            /\ lines' = Taken(line, "none")
            /\ pending' \in Kept
            /\ UNCHANGED phase
         \/ /\ Len(line) <= MaxLine /\ (phase = "strict" \/ IsHello(line))
            /\ \E answer \in Answers(line) :
                 /\ lines' = Taken(line, answer)
                 /\ \/ /\ pending' \in PendingAfter(line)
                       /\ phase' = NextPhase(line, answer)
                    \/ pending' = FALSE /\ phase' = "faulted" \* the write failed

UsbNext ==
    \/ LinkChanges
    \/ SeesDisconnect
    \/ StaysFaulted
    \/ ReadFails
    \/ Reads
    \/ Overflows
    \/ TakesLine

UsbSpec == UsbInit /\ [][UsbNext]_usb_vars

-----------------------------------------------------------------------------
(* Properties                                                              *)

\* Framing by its meaning, byte by byte: a line is everything up to a newline; once
\* MaxLine + 2 bytes have come without one it is too large, whatever follows.
Frame(so_far, byte) ==
    IF byte = "\n" THEN
        [line |-> <<>>, over |-> FALSE,
         out |-> IF so_far.over THEN so_far.out
                 ELSE Append(so_far.out, IF Len(Stripped(so_far.line)) > MaxLine
                                           THEN TooLarge ELSE Stripped(so_far.line))]
    ELSE IF so_far.over THEN so_far
    ELSE IF Len(so_far.line) + 1 = Capacity THEN
        [line |-> <<>>, over |-> TRUE, out |-> Append(so_far.out, TooLarge)]
    ELSE [so_far EXCEPT !.line = Append(@, byte)]

Framing(s) ==
    LET after[n \in 0..Len(s)] ==
            IF n = 0 THEN [line |-> <<>>, over |-> FALSE, out |-> <<>>]
                     ELSE Frame(after[n - 1], s[n])
    IN  after[Len(s)]

\* However the driver cuts the stream into reads, and whatever is discarded, the
\* lines the loop has taken are exactly the lines of the bytes it has read, in
\* order, but for those still in the buffer.
FramesAreTheStream ==
    phase # "faulted" =>
        LET taken == [i \in 1..Len(lines) |-> lines[i].line]
            whole == Framing(received)
            rest == Framing(input)
        IN  IF discard THEN whole = [line |-> <<>>, over |-> TRUE, out |-> taken]
                       ELSE whole = [rest EXCEPT !.out = taken \o @]

\* Nothing is ever taken from a link after a strict-phase line that was not a valid
\* frame, until the loop has seen the link down.
FaultIsFinal ==
    \A i \in 1..(Len(lines) - 1) :
        lines[i].phase = "strict" => IsValid(lines[i].line)

\* Only an answered hello on this connection opens the protocol: nothing is pending
\* and no other request has been handled unless one came before.
ProtocolAfterHello ==
    LET Opened(n) == \E i \in 1..n : IsHello(lines[i].line) /\ lines[i].answer = "ok"
    IN  /\ pending => Opened(Len(lines))
        /\ \A n \in 1..Len(lines) :
             lines[n].line # TooLarge /\ ~IsHello(lines[n].line) /\ lines[n].answer # "none"
                 => Opened(n - 1)

\* docs/PROVISIONING_PROTOCOL.md: a malformed or faulted transport invalidates what is
\* pending.  Violated: an empty line, and a frame followed by other bytes, fault the
\* link without tearing the session down.
FaultEndsPending == phase = "faulted" => ~pending

=============================================================================
