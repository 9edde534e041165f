--------------------------- MODULE MCCertReloader ---------------------------
(* A directory small enough for TLC. *)
EXTENDS CertReloader, TLC

\* The first renewal keeps the key, the later ones bring new keys.
RenewedKeys == 0 :> "a" @@ 1 :> "a" @@ 2 :> "b" @@ 3 :> "c" @@ 4 :> "c"
=============================================================================
