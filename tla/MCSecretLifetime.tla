-------------------------- MODULE MCSecretLifetime --------------------------
(***************************************************************************)
(* SecretLifetime with policies of one and two days of two ticks each.     *)
(***************************************************************************)
EXTENDS SecretLifetime

ShortAndLong == {1, 2}

=============================================================================
