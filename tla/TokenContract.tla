--------------------------- MODULE TokenContract ---------------------------
(***************************************************************************)
(* The token env-injector asks Vault with, as the rest of the program may  *)
(* rely on it: a token that ended may be replaced as long as somebody      *)
(* asks, and is revoked only when nobody will ask again, and then for good.*)
(***************************************************************************)
VARIABLES
    token, \* "none", "valid", "expired" or "revoked"
    inUse  \* somebody may still send requests with it

vars == <<token, inUse>>

Init == token = "none" /\ inUse = TRUE

Obtain  == token = "none" /\ token' \in {"valid", "expired"} /\ inUse /\ UNCHANGED inUse

Expire  == token = "valid" /\ token' = "expired" /\ UNCHANGED inUse

Replace == token = "expired" /\ token' = "valid" /\ inUse /\ UNCHANGED inUse

Retire  == inUse' = FALSE /\ UNCHANGED token

Revoke  == inUse' = FALSE /\ token' = "revoked"

Next == Obtain \/ Expire \/ Replace \/ Retire \/ Revoke

Spec == Init /\ [][Next]_vars
=============================================================================
