------------------------------- MODULE MCRevealUi -------------------------------
(***************************************************************************)
(* Two accounts, in lists that lose, gain and reorder them; a code lives   *)
(* longer than a period and than the refresh interval.                     *)
(***************************************************************************)
EXTENDS RevealUi

CONSTANTS a, b

MCLists == {<<>>, <<a, b>>, <<b>>}

=============================================================================
