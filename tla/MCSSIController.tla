------------------------- MODULE MCSSIController -------------------------
(* Imports small enough for TLC.                                           *)
EXTENDS SSIController

Unset == [f \in DOMAIN ParameterOf |-> ""]

File(name, path, key, decode) ==
  [name |-> name, path |-> path, key |-> key, decodeBase64 |-> decode]

SpecA == [role |-> "app", skipTLSVerify |-> FALSE, optional |-> Unset,
          files |-> <<File("user", "kv/db", "user", FALSE)>>]
SpecB == [role |-> "app", skipTLSVerify |-> TRUE,
          optional |-> [Unset EXCEPT !.audience = "stronghold"],
          files |-> <<File("user", "kv/db", "user", FALSE), File("cert", "kv/tls", "crt", TRUE)>>]

TwoSpecs == {SpecA, SpecB}
=============================================================================
