--------------------------- MODULE ImportContract ---------------------------
(***************************************************************************)
(* What the controller promises the user of one import: the generation of  *)
(* the import its SecretProviderClass stands for only grows, never passes  *)
(* what the user asked for, and the class of the present import is not     *)
(* taken away again, unless somebody else has laid hands on it.            *)
(***************************************************************************)
EXTENDS Naturals

VARIABLES
    wanted,   \* the generation of the import, 0 when there is none
    held,     \* the one its class was made from, 0 when there is none
    disturbed \* somebody else changed the class since the user last asked

vars == <<wanted, held, disturbed>>

Init == wanted \in Nat /\ held \in {0, wanted} /\ disturbed = FALSE

\* The user creates, edits or deletes the import.
Ask ==
    /\ wanted' \in Nat
    /\ wanted' = 0 \/ (wanted' > wanted /\ wanted' > held)
    /\ disturbed' = FALSE
    /\ UNCHANGED held

\* With the import gone, the class of what it was may still arrive.
Provide ==
    /\ held' \in Nat \ {0}
    /\ held' >= held
    /\ wanted # 0 => held' <= wanted
    /\ UNCHANGED <<wanted, disturbed>>

Drop ==
    /\ held # wanted
    /\ held' = 0
    /\ UNCHANGED <<wanted, disturbed>>

Disturb ==
    /\ disturbed' = TRUE
    /\ held' \in {0, held}
    /\ UNCHANGED wanted

Next == Ask \/ Provide \/ Drop \/ Disturb

Spec == Init /\ [][Next]_vars
=============================================================================
