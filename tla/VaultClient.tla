---------------------------- MODULE VaultClient ----------------------------
(***************************************************************************)
(* The Vault client of env-injector (client.go) and the goroutine that     *)
(* keeps its token alive: newVaultClient, Relogin, Close, startTokenRenewal*)
(* and runTokenRenewChecker, with those who call them in main.go, main()   *)
(* and the watcher of secret values, never at the same time.               *)
(*                                                                         *)
(* EnvInjector knows the token by its state only. Here tokens are numbered *)
(* in the order they are issued, and a renewal may outlive its token.      *)
(*                                                                         *)
(* External: Vault, where tokens end; the LifetimeWatcher of its API, which*)
(* renews the one token it was made for until Stop, or until Vault refuses;*)
(* Vault Agent, which puts another token into the token file.              *)
(***************************************************************************)
EXTENDS Naturals

CONSTANTS
    Configs,   \* the configurations the injector may be started with
    MaxFaults  \* bound on failed requests and on tokens that end early

\* source: VAULT_TOKEN_FILE, a token in VAULT_TOKEN, or the Kubernetes login;
\* daemon: VAULT_ENV_DAEMON or watch-for-lease; data: watch-for-data, which has
\* something to poll only if pollable; revoke: VAULT_REVOKE_TOKEN.
AllConfigs == [source : {"file", "static", "login"}, daemon : BOOLEAN, data : BOOLEAN,
               pollable : BOOLEAN, revoke : BOOLEAN]

ASSUME ConfigsAssumption == Configs \subseteq AllConfigs /\ MaxFaults \in Nat

VARIABLES
    config,
    pc,      \* where main(), later the watcher of secrets, is: see Phases
    current, \* the token the client sends, 0 for none
    handle,  \* c.tokenWatcher: the token it was made for, 0 for nil
    closed,  \* c.closed
    running, \* the tokens a LifetimeWatcher is renewing
    issued,  \* the number of tokens issued so far
    dead,    \* those that have ended
    file,    \* the token in the token file
    revoked, \* history: the client has revoked its token
    faults

client == <<current, handle, closed, running>>
store  == <<issued, dead, file>>
vars   == <<config, pc, current, handle, closed, running, issued, dead, file, revoked, faults>>

Phases == {"create", "inject", "close", "delay", "kept", "poll", "relogin", "login",
           "replaced", "failed"}

Tokens  == 1..issued
Live(t) == t \in Tokens \ dead

\* client.longRunning, from the environment alone.
LongRunning == config.daemon \/ config.data

\* watchData, once main() knows whether there is anything to poll.
Polls == config.data /\ config.pollable

\* The injector stays, and with it whoever needs the client.
Kept == config.daemon \/ Polls

Init ==
    /\ config \in Configs
    /\ pc = "create"
    /\ issued = (IF config.source = "login" THEN 0 ELSE 1) /\ dead = {} /\ file = issued
    /\ current = 0 /\ handle = 0 /\ closed = FALSE /\ running = {}
    /\ revoked = FALSE /\ faults = 0

Fault == faults < MaxFaults /\ faults' = faults + 1

Goto(from, to) == pc = from /\ pc' = to /\ UNCHANGED config

-----------------------------------------------------------------------------
(* newVaultClient, and the injection that uses it *)

\* A login that succeeds: the token is set, and of a client that runs long it is
\* renewed by a goroutine (startTokenRenewal).
LoggedIn ==
    /\ issued' = issued + 1
    /\ current' = issued + 1
    /\ IF LongRunning
       THEN handle' = issued + 1 /\ running' = running \cup {issued + 1}
       ELSE UNCHANGED <<handle, running>>
    /\ UNCHANGED <<closed, dead, file>>

Create ==
    /\ Goto("create", "inject")
    /\ \/ /\ config.source = "login"
          /\ LoggedIn
       \/ /\ config.source # "login"
          /\ current' = file
          /\ UNCHANGED <<handle, closed, running, store>>
    /\ UNCHANGED <<revoked, faults>>

\* The token file cannot be read, or the login fails; or a request of the
\* injection does: os.Exit ends the renewal as well.
Fails ==
    /\ \/ Goto("create", "failed") /\ Fault
       \/ Goto("inject", "failed") /\ (Fault \/ (~Live(current) /\ UNCHANGED faults))
    /\ running' = {}
    /\ UNCHANGED <<current, handle, closed, store, revoked>>

\* Everything is resolved. A client that is needed is kept, whatever
\* VAULT_REVOKE_TOKEN says.
Injected ==
    /\ config.revoke => Kept
    /\ Goto("inject", "delay")
    /\ UNCHANGED <<client, store, revoked, faults>>

\* Faulty variant: the configuration asked for no watching, so the token goes.
RevokeSelfOfAll ==
    /\ config.revoke
    /\ Goto("inject", "close")
    /\ \/ dead' = dead \cup {current} /\ revoked' = TRUE /\ UNCHANGED faults
       \/ Fault /\ UNCHANGED <<dead, revoked>>
    /\ UNCHANGED <<client, issued, file>>

\* RevokeSelf, whose failure is only logged.
RevokeSelf ==
    /\ config.revoke /\ ~Kept
    /\ Goto("inject", "close")
    /\ \/ dead' = dead \cup {current} /\ revoked' = TRUE /\ UNCHANGED faults
       \/ Fault /\ UNCHANGED <<dead, revoked>>
    /\ UNCHANGED <<client, issued, file>>

Close ==
    /\ Goto("close", "delay")
    /\ closed' = TRUE
    /\ running' = running \ {handle}
    /\ UNCHANGED <<current, handle, store, revoked, faults>>

\* The child is started, and main() waits for it.
Start ==
    /\ Kept
    /\ Goto("delay", "kept")
    /\ UNCHANGED <<client, store, revoked, faults>>

\* syscall.Exec: with the process go its goroutines.
Exec ==
    /\ ~Kept
    /\ Goto("delay", "replaced")
    /\ running' = {}
    /\ UNCHANGED <<current, handle, closed, store, revoked, faults>>

-----------------------------------------------------------------------------
(* The polls of watchSecretsForChanges, and Relogin *)

Tick ==
    /\ Polls
    /\ Goto("kept", "poll")
    /\ UNCHANGED <<client, store, revoked, faults>>

\* The poll is answered, or fails for a reason that has nothing to do with the
\* token: in both cases the next tick comes.
PollAnswered ==
    /\ Goto("poll", "kept")
    /\ (Live(current) /\ UNCHANGED faults) \/ Fault
    /\ UNCHANGED <<client, store, revoked>>

\* "Permission denied": the token has ended, or a policy forbids the path.
PollDenied ==
    /\ Goto("poll", "relogin")
    /\ (~Live(current) /\ UNCHANGED faults) \/ Fault
    /\ UNCHANGED <<client, store, revoked>>

\* The file is read again, and may still hold the same token.
ReloginFromFile ==
    /\ config.source = "file" /\ ~closed
    /\ Goto("relogin", "kept")
    /\ (current' = file /\ UNCHANGED faults) \/ (Fault /\ UNCHANGED current)
    /\ UNCHANGED <<handle, closed, running, store, revoked>>

\* Faulty variant: the old renewal goes on.
ReloginWithoutStop ==
    /\ config.source = "login" /\ ~closed
    /\ Goto("relogin", "login")
    /\ handle' = 0
    /\ UNCHANGED <<current, closed, running, store, revoked, faults>>

\* Faulty variant: whoever has no renewal has nothing to log in for.
ReloginOfRenewed ==
    /\ config.source = "login" /\ ~closed
    /\ Goto("relogin", IF handle = 0 THEN "kept" ELSE "login")
    /\ running' = running \ {handle}
    /\ handle' = 0
    /\ UNCHANGED <<current, closed, store, revoked, faults>>

\* The old renewal is stopped before the login is requested.
ReloginStops ==
    /\ config.source = "login" /\ ~closed
    /\ Goto("relogin", "login")
    /\ running' = running \ {handle}
    /\ handle' = 0
    /\ UNCHANGED <<current, closed, store, revoked, faults>>

ReloginLogsIn ==
    /\ Goto("login", "kept")
    /\ LoggedIn
    /\ UNCHANGED <<revoked, faults>>

\* Faulty variant: the token of an answer that is none is set.
ReloginFailsAnyhow ==
    /\ Goto("login", "kept")
    /\ Fault
    /\ current' = issued + 1
    /\ UNCHANGED <<handle, closed, running, store, revoked>>

\* The login fails: neither renewal nor a new token, until the next denial.
ReloginFails ==
    /\ Goto("login", "kept")
    /\ Fault
    /\ UNCHANGED <<client, store, revoked>>

\* A closed client and one with a static token cannot log in again.
ReloginRefused ==
    /\ closed \/ config.source = "static"
    /\ Goto("relogin", "kept")
    /\ UNCHANGED <<client, store, revoked, faults>>

-----------------------------------------------------------------------------
(* Vault, its LifetimeWatcher and Vault Agent *)

TokenEnds(t) ==
    /\ Live(t)
    /\ dead' = dead \cup {t}
    /\ UNCHANGED <<config, pc, client, issued, file, revoked>>

\* A token nobody renews ends with its TTL; Vault Agent renews the one of the
\* file, and somebody else the static one.
TTLPasses(t) ==
    /\ config.source # "static"
    /\ t \notin running \cup {file}
    /\ TokenEnds(t)
    /\ UNCHANGED faults

\* A token is revoked, or reaches its max TTL, however well it was renewed.
TokenRevoked(t) == Fault /\ TokenEnds(t)

\* DoneCh: Vault refuses the renewal of a dead token, or will not renew a live
\* one any further. The checker returns, the handle stays.
RenewalEnds(t) ==
    /\ t \in running
    /\ running' = running \ {t}
    /\ (~Live(t) /\ UNCHANGED faults) \/ Fault
    /\ UNCHANGED <<config, pc, current, handle, closed, store, revoked>>

\* Vault Agent writes a new token, at the latest when the old one has ended.
AgentRotates ==
    /\ config.source = "file"
    /\ (~Live(file) /\ UNCHANGED faults) \/ Fault
    /\ issued' = issued + 1
    /\ file' = issued + 1
    /\ UNCHANGED <<config, pc, client, dead, revoked>>

-----------------------------------------------------------------------------

Main == Create \/ Fails \/ Injected \/ RevokeSelf \/ Close \/ Start \/ Exec

Relogin == ReloginFromFile \/ ReloginStops \/ ReloginLogsIn \/ ReloginFails \/ ReloginRefused

Poll == Tick \/ PollAnswered \/ PollDenied

Next ==
    \/ Main \/ Poll \/ Relogin
    \/ AgentRotates
    \/ \E t \in Tokens : TTLPasses(t) \/ TokenRevoked(t) \/ RenewalEnds(t)

Spec == Init /\ [][Next]_vars

\* Goroutines go on, the ticker ticks, requests are answered or refused. Vault
\* Agent does its job; of Vault nothing is assumed.
Fairness ==
    /\ WF_vars(Main) /\ WF_vars(Poll) /\ WF_vars(Relogin)
    /\ WF_vars(~Live(file) /\ AgentRotates)

FairSpec == Spec /\ Fairness

-----------------------------------------------------------------------------
(* Properties *)

\* The variables have their types; only tokens that were issued are used.
TypeOK ==
    /\ config \in Configs /\ pc \in Phases
    /\ issued \in Nat /\ dead \subseteq Tokens /\ running \subseteq Tokens
    /\ current \in 0..issued /\ handle \in 0..issued /\ file \in 0..issued
    /\ closed \in BOOLEAN /\ revoked \in BOOLEAN /\ faults \in Nat

\* Whatever keeps a token alive, it is the token in use, the client can stop it,
\* and a closed client has stopped it: logins, repeated at every denied poll,
\* never leave a goroutine behind that renews a forgotten token for ever.
RenewalsOwned ==
    /\ running \subseteq {current} \cap {handle}
    /\ closed => running = {}

\* Who relies on a token that can be replaced.
Relying == Polls /\ config.source # "static" /\ pc \in {"kept", "poll", "relogin", "login"}

\* watch-for-data outlives its token: "re-authenticate so that the next poll can
\* succeed" (main.go:217-219), also when a login failed after the old renewal was
\* stopped, or the file still held the old token.
Recovers == Relying /\ ~Live(current) ~> Live(current)

\* What the rest of the injector may rely on, and how this module keeps it.
TokenState ==
    IF current = 0 THEN "none" ELSE IF revoked THEN "revoked"
    ELSE IF Live(current) THEN "valid" ELSE "expired"

InUse == pc \in {"create", "inject"} \/ (Kept /\ pc # "failed")

Token == INSTANCE TokenContract WITH token <- TokenState, inUse <- InUse

\* Every behaviour of the client is one the contract of the token allows.
KeepsToken == Token!Spec
=============================================================================
