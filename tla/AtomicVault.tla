---------------------------- MODULE AtomicVault ----------------------------
(***************************************************************************)
(* What the Device storage promises about the Encrypted Vault: there is    *)
(* one authoritative envelope or none, and it changes only by a whole      *)
(* installation, by advancing exactly one generation of the same logical   *)
(* Vault, or by being erased.  VaultPersistence, with its two slots, its   *)
(* separate active pointer, power losses and I/O errors, implements this.  *)
(***************************************************************************)
EXTENDS Integers

CONSTANTS
    VaultIds,       \* random logical vault_id values
    Bodies,         \* nonce/ciphertext/tag triples, compared only for equality
    MaxGeneration,  \* the largest generation an envelope can carry
    NoVault         \* "no authoritative envelope"

Envelopes == [vault_id: VaultIds, generation: 1..MaxGeneration, body: Bodies]

VARIABLE vault

Init == vault \in Envelopes \cup {NoVault}

Install == /\ vault = NoVault
           /\ vault' \in Envelopes

Advance == /\ vault \in Envelopes
           /\ vault' \in Envelopes
           /\ vault'.vault_id = vault.vault_id
           /\ vault'.generation = vault.generation + 1

Erase == vault' = NoVault

Next == Install \/ Advance \/ Erase

Spec == Init /\ [][Next]_vault
=============================================================================
