-------------------------- MODULE RestartContract --------------------------
(***************************************************************************)
(* What env-injector promises whoever runs a container in watch-for-data   *)
(* mode, with no goroutine, channel or Vault request in sight: the         *)
(* application is ended for a secret only when that secret changed, and    *)
(* the container's outcome then says so.                                   *)
(***************************************************************************)
VARIABLES
    phase,   \* "preparing", "running" or "over"
    outcome, \* how it ended: the reason the container's exit stands for
    changed, \* a watched secret has held another value than the application's
    asked,   \* the application's end was asked for because of that
    hit      \* and the application has felt it

vars == <<phase, outcome, changed, asked, hit>>

Init ==
    /\ phase = "preparing"
    /\ outcome = "none"
    /\ changed = FALSE /\ asked = FALSE /\ hit = FALSE

Run ==
    /\ phase = "preparing"
    /\ phase' = "running"
    /\ UNCHANGED <<outcome, changed, asked, hit>>

GiveUp ==
    /\ phase = "preparing"
    /\ phase' = "over"
    /\ outcome' \in {"error", "exec", "signal"}
    /\ UNCHANGED <<changed, asked, hit>>

Change ==
    /\ phase # "over"
    /\ changed' = TRUE
    /\ UNCHANGED <<phase, outcome, asked, hit>>

Ask ==
    /\ phase = "running"
    /\ changed
    /\ asked' = TRUE
    /\ UNCHANGED <<phase, outcome, changed, hit>>

Hit ==
    /\ phase = "running"
    /\ asked
    /\ hit' = TRUE
    /\ UNCHANGED <<phase, outcome, changed, asked>>

\* Once asked for, a restart may be what ends the container; once the application
\* felt it, its own exit status no longer counts.
Finish ==
    /\ phase = "running"
    /\ phase' = "over"
    /\ \/ outcome' = "signal"
       \/ outcome' = "restart" /\ asked
       \/ outcome' = "child" /\ ~hit
    /\ UNCHANGED <<changed, asked, hit>>

Next == Run \/ GiveUp \/ Change \/ Ask \/ Hit \/ Finish

Spec == Init /\ [][Next]_vars
=============================================================================
