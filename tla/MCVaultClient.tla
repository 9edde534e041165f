--------------------------- MODULE MCVaultClient ---------------------------
(* Every configuration of the client. *)
EXTENDS VaultClient

EveryConfig == AllConfigs
=============================================================================
