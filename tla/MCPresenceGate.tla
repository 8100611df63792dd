--------------------------- MODULE MCPresenceGate ---------------------------
(***************************************************************************)
(* Model-checking instance of PresenceGate.  A lifetime of two ticks and a *)
(* clock that ends at three let a request run out before, at and after the *)
(* saturated deadline; two attempts let one supersede another; two presses *)
(* let press_generation saturate.                                          *)
(***************************************************************************)
EXTENDS PresenceGate
=============================================================================
