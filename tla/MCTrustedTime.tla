----------------------------- MODULE MCTrustedTime -----------------------------
(***************************************************************************)
(* Small intervals, in the order of the real ones except that a poll is    *)
(* shorter than the initial retry, so that the retry budget matters.       *)
(***************************************************************************)
EXTENDS TrustedTime

\* One source error is within the jump, one beyond it.
MCUsbErrors == {0, 4}
MCNtpErrors == {-1, 0, 4}

=============================================================================
