------------------------- MODULE MCVaultPersistence -------------------------
(***************************************************************************)
(* Model-checking instance of VaultPersistence: two logical Vaults, two    *)
(* ciphertexts (so that a re-written generation can differ) and three      *)
(* generations (so that the pointer visits both slots and comes back, and  *)
(* the largest generation is reached).                                     *)
(***************************************************************************)
EXTENDS VaultPersistence
=============================================================================
