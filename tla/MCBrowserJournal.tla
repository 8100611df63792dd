-------------------------- MODULE MCBrowserJournal --------------------------
(***************************************************************************)
(* Two Vault ids, so that a Device can be set up again after a reset, two  *)
(* contents, and pages closed at any two points.                           *)
(***************************************************************************)
EXTENDS BrowserJournal
=============================================================================
