---------------------------- MODULE CertContract ----------------------------
(***************************************************************************)
(* What the webhook's clients may expect of its serving certificate, with  *)
(* no file, watch or lock in sight: the version they are given is one the  *)
(* directory holds or held, never goes back, and is the present one while  *)
(* the server claims to be up to date.                                     *)
(***************************************************************************)
EXTENDS Naturals

VARIABLES
    held,    \* the version the directory holds
    given,   \* the version the last handshake was given
    settled  \* the server claims that it serves what is held

vars == <<held, given, settled>>

Init == held = 0 /\ given = 0 /\ settled = FALSE

\* No claim survives a rotation.
Rotate ==
    /\ held' = held + 1
    /\ settled' = FALSE
    /\ UNCHANGED given

Claim ==
    /\ settled' \in BOOLEAN
    /\ UNCHANGED <<held, given>>

Give ==
    /\ given' \in given..held
    /\ settled => given' = held
    /\ UNCHANGED <<held, settled>>

Next == Rotate \/ Claim \/ Give

Spec == Init /\ [][Next]_vars
=============================================================================
