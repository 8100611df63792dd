--------------------------- MODULE MCVaultFormat ---------------------------
(***************************************************************************)
(* A handful of plaintexts that reach every branch of the codec: no, one   *)
(* and two records, both optional parts present and absent, a period above *)
(* one byte, a two-byte character, the limits of digits and days.          *)
(***************************************************************************)
EXTENDS VaultFormat

Account(id, period, name) ==
    [id |-> id, secret |-> <<9>>, issuer |-> <<>>, account |-> <<>>, name |-> name,
     digits |-> 10, period |-> period, order |-> 0]

MCSamples ==
    {[credentials |-> <<>>, wifi |-> <<>>, days |-> <<31>>],
     [credentials |-> <<Account(1, 300, <<194, 128>>)>>, wifi |-> <<>>, days |-> <<>>],
     [credentials |-> <<>>, wifi |-> <<[ssid |-> <<65>>, password |-> <<>>]>>, days |-> <<>>],
     [credentials |-> <<Account(1, 30, <<>>), Account(2, 30, <<>>)>>, wifi |-> <<>>,
      days |-> <<>>]}

\* A byte on either side of every boundary in the table of is_valid_utf8.
MCTextBytes ==
    {0, 127, 128, 143, 144, 159, 160, 191, 192, 193, 194, 223, 224, 225, 236, 237,
     238, 239, 240, 241, 243, 244, 245, 255}

MCHeaders == {[format |-> 1, vault |-> 1, generation |-> 1],
              [format |-> 2, vault |-> 2, generation |-> 256]}
=============================================================================
