-------------------------- MODULE MCSessionAgreement --------------------------
(***************************************************************************)
(* Two Browsers, one registered, so that each may replace the other; two  *)
(* attempts, so that one can be superseded and its requests arrive later.  *)
(***************************************************************************)
EXTENDS SessionAgreement, TLC

CONSTANTS b1, b2

MCBrowsers == {b1, b2}
MCSymmetry == Permutations(MCBrowsers)

=============================================================================
