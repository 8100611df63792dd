------------------------- MODULE MCDeviceOwnership -------------------------
(***************************************************************************)
(* Model-checking instance of DeviceOwnership: two Vaults, keys and        *)
(* attempts, so that each can be mistaken for the other, and three         *)
(* Browsers, generations and epochs, so that a stale one can be followed   *)
(* by a retry and the largest is reached.                                  *)
(***************************************************************************)
EXTENDS DeviceOwnership
=============================================================================
