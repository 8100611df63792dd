---------------------------- MODULE MCUsbTransport ----------------------------
(***************************************************************************)
(* Frames of one byte and a buffer of three: a line may fit, be too long   *)
(* by one, or overflow the buffer.  Six bytes are a handshake, a bad line  *)
(* and one more request.                                                   *)
(***************************************************************************)
EXTENDS UsbTransport

=============================================================================
