---------------------------- MODULE EnvInjector ----------------------------
(***************************************************************************)
(* env-injector as a supervisor (images/env-injector/main.go): it resolves *)
(* the secrets of the container's environment, starts the application as a *)
(* child process and, while that runs, four kinds of goroutines meet on    *)
(* one channel of signals of capacity one:                                 *)
(*                                                                         *)
(*   - signal.Notify, for the signals the kubelet sends (never blocks:     *)
(*     it drops a signal when the channel is full);                        *)
(*   - the watcher of secret values (watch-for-data), which polls Vault    *)
(*     and asks for the restart of the child;                              *)
(*   - one renewer per leased secret (watch-for-lease), which asks for the *)
(*     end of the child when its lease is over;                            *)
(*   - the forwarder, which takes signals out and sends them to the child. *)
(*                                                                         *)
(* Secret values are abstract: a path of Vault holds a member of Values.   *)
(* A hash of the resolved secrets is modelled by the secrets themselves    *)
(* (computeSecretsHash is injective on the map up to SHA-256 collisions).  *)
(***************************************************************************)
EXTENDS Integers, Sequences, FiniteSets

CONSTANTS
    Paths,         \* the Vault paths the environment refers to
    Updates,       \* those behind a ">>secrets-store:" reference
    Leases,        \* those whose secret carries a lease duration
    Renewable,     \* the leases that can be renewed
    Values,        \* what a path may hold
    Unread,        \* "not resolved yet", no member of Values
    KubeSignals,   \* the registered signals the kubelet really sends
    ChildCodes,    \* exit codes the application may choose
    DaemonMode,    \* VAULT_ENV_DAEMON or watch-for-lease
    WatchData,     \* watch-for-data
    RevokeToken,   \* VAULT_REVOKE_TOKEN
    CanRelogin,    \* the client has a token file or the Kubernetes login
    SignalMayFail, \* os.Process.Signal may fail, the child still running
    MaxChanges,    \* bound on the writes to Vault
    MaxFaults,     \* bound on failed requests and expiries of the token
    MaxKube        \* bound on the kubelet's signals

ASSUME PathsAssumption ==
    /\ Updates \subseteq Paths
    /\ Leases \subseteq Paths
    /\ Renewable \subseteq Leases
    /\ {"kubelet", "watcher"} \cap Paths = {}
    /\ Unread \notin Values

ASSUME SignalsAssumption ==
    /\ KubeSignals \subseteq {"INT", "TERM", "HUP", "QUIT"}
    /\ ChildCodes \subseteq 0..255

ASSUME ModeAssumption ==
    /\ {DaemonMode, WatchData, RevokeToken, CanRelogin, SignalMayFail} \subseteq BOOLEAN
    /\ {MaxChanges, MaxFaults, MaxKube} \subseteq Nat

VARIABLES
    main,      \* where the goroutine of main() is
    exitBy,    \* which of its exits it took
    exitCode,  \* and with which status
    child,     \* the application's process
    childCode, \* its status, when it exited by itself
    env,       \* the secrets resolved for it, by path
    vault,     \* what Vault holds now
    token,     \* the token of the Vault client
    sigs,      \* the channel of signals
    forwarder, \* the goroutine that empties it
    hand,      \* the signal it took out and has not sent yet
    watcher,   \* the goroutine watchSecretsForChanges
    polled,    \* what its current poll has read
    restart,   \* restartDueToSecretChange
    renewer,   \* the goroutines of daemonSecretRenewer, by lease
    tried,     \* history: the signals sent to the running child, and the outcome
    owed,      \* history: the kubelet's signals no send has answered yet
    differed,  \* history: paths that ever held something else than env has
    changes, faults, kube   \* what the bounds count

mainVars  == <<main, exitBy, exitCode>>
childVars == <<child, childCode>>
readVars  == <<env, differed>>
vaultVars == <<vault, token, changes, faults>>
fwdVars   == <<forwarder, hand, tried>>
pollVars  == <<watcher, polled, restart>>
notMain   == <<childVars, readVars, vaultVars, sigs, fwdVars, pollVars, renewer, owed, kube>>
notWatch  == <<mainVars, childVars, readVars, fwdVars, renewer, owed, kube>>
vars == <<mainVars, notMain>>

-----------------------------------------------------------------------------

\* Update-style references are never re-resolved.
Watched == Paths \ Updates

\* watchData once main() has looked for references it can poll.
Watching == WatchData /\ Watched # {}

\* The injector stays as the parent process, else it becomes the application.
Supervises == DaemonMode \/ Watching

Running == main # "exited"

\* Where signal.Notify is in force: until signal.Stop.
Notified == main \in {"notified", "waiting", "reaped"}

\* watchCtx is cancelled as soon as cmd.Wait has returned.
Cancelled == main \in {"stopped", "exitRestart", "exitChild"}

\* cmd.Wait has returned: the handle of the process is released.
Reaped == main \in {"reaped", "stopped", "exitRestart", "exitChild", "exited"}

\* make(chan os.Signal, 1)
SigsCap == 1
HasRoom == Len(sigs) < SigsCap
Sent(sig, from) == sigs' = Append(sigs, [sig |-> sig, from |-> from])

Goto(from, to) ==
    /\ main = from
    /\ main' = to
    /\ UNCHANGED <<exitBy, exitCode, notMain>>

Exit(code, by) ==
    /\ main' = "exited"
    /\ exitCode' = code
    /\ exitBy' = by

Init ==
    /\ main = "login" /\ exitBy = "none" /\ exitCode = 0
    /\ child = "none" /\ childCode = 0
    /\ env = [p \in Paths |-> Unread] /\ differed = {}
    /\ vault \in [Paths -> Values] /\ token = "none"
    /\ sigs = <<>> /\ forwarder = "off" /\ hand = <<>>
    /\ watcher = "off" /\ polled = [p \in Paths |-> Unread] /\ restart = FALSE
    /\ renewer = [p \in Leases |-> "off"]
    /\ tried = {} /\ owed = {}
    /\ changes = 0 /\ faults = 0 /\ kube = 0

-----------------------------------------------------------------------------
(* main(): login, injection, start of the child, wait, exit *)

\* newVaultClient: the token is there, or the injector gives up.
Login ==
    /\ main = "login"
    /\ \/ main' = "inject" /\ token' = "valid" /\ UNCHANGED <<exitBy, exitCode, faults>>
       \/ /\ faults < MaxFaults
          /\ faults' = faults + 1
          /\ Exit(1, "error")
          /\ UNCHANGED token
    /\ UNCHANGED <<childVars, readVars, vault, changes, sigs, fwdVars, pollVars, renewer, owed, kube>>

\* One Vault path is resolved. References are walked in the order of a Go map,
\* which is any order. In daemon mode a leased secret gets its renewer at once.
InjectRead(p) ==
    /\ main = "inject"
    /\ env[p] = Unread
    /\ token = "valid"
    /\ env' = [env EXCEPT ![p] = vault[p]]
    /\ renewer' = IF DaemonMode /\ p \in Leases
                  THEN [renewer EXCEPT ![p] = "renewing"]
                  ELSE renewer
    /\ UNCHANGED <<mainVars, childVars, differed, vaultVars, sigs, fwdVars, pollVars, owed, kube>>

\* Faulty variant: a failed request is logged and the start goes on.
InjectFailsSoftly ==
    /\ \E p \in Paths : env[p] = Unread
    /\ Goto("inject", "delay")

\* A request fails: the injector exits before the child was ever started.
InjectFails ==
    /\ main = "inject"
    /\ \E p \in Paths : env[p] = Unread
    /\ \/ token = "valid" /\ faults < MaxFaults /\ faults' = faults + 1
       \/ token # "valid" /\ UNCHANGED faults
    /\ Exit(1, "error")
    /\ UNCHANGED <<childVars, readVars, vault, token, changes, sigs, fwdVars, pollVars, renewer, owed, kube>>

\* Faulty variant: VAULT_REVOKE_TOKEN is obeyed in every mode.
InjectDoneRevokes ==
    /\ main = "inject"
    /\ \A p \in Paths : env[p] # Unread
    /\ main' = "delay"
    /\ token' = IF RevokeToken THEN "revoked" ELSE token
    /\ UNCHANGED <<exitBy, exitCode, childVars, readVars, vault, changes, faults, sigs, fwdVars,
                   pollVars, renewer, owed, kube>>

\* The environment is complete. VAULT_REVOKE_TOKEN is obeyed, if Vault lets it,
\* unless the client is still needed. What follows is the delay of VAULT_ENV_DELAY.
InjectDone ==
    /\ main = "inject"
    /\ \A p \in Paths : env[p] # Unread
    /\ main' = "delay"
    /\ \/ token' = "revoked" /\ RevokeToken /\ ~Supervises
       \/ UNCHANGED token
    /\ UNCHANGED <<exitBy, exitCode, childVars, readVars, vault, changes, faults, sigs, fwdVars,
                   pollVars, renewer, owed, kube>>

\* syscall.Exec: nothing to supervise, the application replaces the injector.
Exec ==
    /\ main = "delay" /\ ~Supervises
    /\ Exit(0, "exec") \/ Exit(1, "error")
    /\ UNCHANGED notMain

\* signal.Notify
Notify ==
    /\ Supervises
    /\ Goto("delay", "notified")

\* Faulty variant: no forwarder.
StartAlone ==
    /\ main = "notified"
    /\ main' = "waiting"
    /\ child' = "running"
    /\ watcher' = IF Watching THEN "idle" ELSE "off"
    /\ UNCHANGED <<exitBy, exitCode, childCode, readVars, vaultVars, sigs, fwdVars, polled,
                   restart, renewer, owed, kube>>

\* cmd.Start, then the watcher and the forwarder.
Start ==
    /\ main = "notified"
    /\ main' = "waiting"
    /\ child' = "running"
    /\ watcher' = IF Watching THEN "idle" ELSE "off"
    /\ forwarder' = "on"
    /\ UNCHANGED <<exitBy, exitCode, childCode, readVars, vaultVars, sigs, hand, tried, polled,
                   restart, renewer, owed, kube>>

StartFails ==
    /\ main = "notified"
    /\ Exit(1, "error")
    /\ UNCHANGED notMain

\* Faulty variant: main also waits for the forwarder, which the open channel
\* keeps alive.
WaitForAll ==
    /\ child \in {"exited", "signaled"}
    /\ forwarder = "off"
    /\ Goto("waiting", "reaped")

\* cmd.Wait returns.
WaitReturns ==
    /\ child \in {"exited", "signaled"}
    /\ Goto("waiting", "reaped")

\* watchCancel(); signal.Stop(sigs)
StopWatching == Goto("reaped", "stopped")

\* Faulty variant: a child that ended by itself always reports its own status.
LoadChildFirst == Goto("stopped", IF restart /\ child = "signaled" THEN "exitRestart" ELSE "exitChild")

\* restartDueToSecretChange.Load()
LoadRestart == Goto("stopped", IF restart THEN "exitRestart" ELSE "exitChild")

\* os.Exit with 2, with the child's own code, or with -1 for a signaled child.
ExitMain ==
    /\ \/ main = "exitRestart" /\ Exit(2, "restart")
       \/ main = "exitChild" /\ child = "signaled" /\ Exit(255, "child")
       \/ main = "exitChild" /\ child = "exited" /\ Exit(childCode, "child")
    /\ UNCHANGED notMain
-----------------------------------------------------------------------------
(* The application, the kubelet, Vault *)

\* The application ends on its own, whenever and however it likes.
ChildExits ==
    /\ child = "running"
    /\ child' = "exited"
    /\ childCode' \in ChildCodes
    /\ UNCHANGED <<mainVars, readVars, vaultVars, sigs, fwdVars, pollVars, renewer, owed, kube>>

\* A signal ends it: any that reached it may, SIGKILL will.
ChildDies(sig) ==
    /\ child = "running"
    /\ \E t \in tried : t.ok /\ t.sig = sig
    /\ child' = "signaled"
    /\ UNCHANGED <<mainVars, childCode, readVars, vaultVars, sigs, fwdVars, pollVars, renewer, owed, kube>>

\* The kubelet signals PID 1. Under signal.Notify the Go runtime does a
\* non-blocking send; otherwise it ends the process with status 2.
KubeSignal(s) ==
    /\ Running
    /\ kube < MaxKube
    /\ kube' = kube + 1
    /\ \/ /\ Notified
          /\ IF HasRoom THEN Sent(s, "kubelet") ELSE UNCHANGED sigs
          /\ owed' = owed \cup {s}
          /\ UNCHANGED mainVars
       \/ /\ ~Notified
          /\ Exit(2, "signal")
          /\ UNCHANGED <<sigs, owed>>
    /\ UNCHANGED <<childVars, readVars, vaultVars, fwdVars, pollVars, renewer>>

\* Somebody writes a secret.
VaultWrite(p, v) ==
    /\ Running
    /\ changes < MaxChanges
    /\ v # vault[p]
    /\ changes' = changes + 1
    /\ vault' = [vault EXCEPT ![p] = v]
    /\ differed' = IF env[p] \notin {Unread, v} THEN differed \cup {p} ELSE differed
    /\ UNCHANGED <<mainVars, childVars, env, token, faults, sigs, fwdVars, pollVars, renewer, owed, kube>>

\* The token reaches its max TTL or is revoked in Vault.
TokenExpires ==
    /\ Running
    /\ token = "valid"
    /\ faults < MaxFaults
    /\ token' = "expired"
    /\ faults' = faults + 1
    /\ UNCHANGED <<mainVars, childVars, readVars, vault, changes, sigs, fwdVars, pollVars, renewer, owed, kube>>

-----------------------------------------------------------------------------
(* The forwarder: for sig := range sigs *)

Receive ==
    /\ Running
    /\ forwarder = "on" /\ hand = <<>>
    /\ sigs # <<>>
    /\ hand' = <<Head(sigs)>>
    /\ sigs' = Tail(sigs)
    /\ UNCHANGED <<mainVars, childVars, readVars, vaultVars, forwarder, tried, pollVars, renewer, owed, kube>>

\* cmd.Process.Signal on a child that cmd.Wait has not reaped yet: it reaches
\* the child, is lost on a zombie, or fails with an error that is not
\* ErrProcessDone, after which the loop goes on.
Forward ==
    /\ Running
    /\ hand # <<>> /\ ~Reaped
    /\ hand' = <<>>
    /\ \E ok \in BOOLEAN :
         /\ ok \/ SignalMayFail
         /\ tried' = IF child = "running"
                     THEN tried \cup {[sig |-> hand[1].sig, from |-> hand[1].from, ok |-> ok]}
                     ELSE tried
         /\ owed' = IF ok /\ child = "running"
                    THEN IF hand[1].sig = "KILL" THEN {} ELSE owed \ {hand[1].sig}
                    ELSE owed
    /\ UNCHANGED <<mainVars, childVars, readVars, vaultVars, sigs, forwarder, pollVars, renewer, kube>>

\* The child is reaped: ProcessState says so, or (the forwarder reads that field
\* while Wait writes it) Signal answers ErrProcessDone. Either way: break.
StopForwarding ==
    /\ Running
    /\ hand # <<>> /\ Reaped
    /\ hand' = <<>>
    /\ forwarder' = "off"
    /\ UNCHANGED <<mainVars, childVars, readVars, vaultVars, sigs, tried, pollVars, renewer, owed, kube>>

-----------------------------------------------------------------------------
(* The watcher: watchSecretsForChanges *)

\* Every select of the loop also listens to the context.
WatcherStops ==
    /\ Running /\ Cancelled
    /\ watcher \in {"idle", "sendTerm", "grace", "sendKill"}
    /\ watcher' = "done"
    /\ UNCHANGED <<notWatch, vaultVars, sigs, polled, restart>>

\* The ticker fires: a fresh injector, nothing read yet.
PollStarts ==
    /\ Running
    /\ watcher = "idle"
    /\ watcher' = "reading"
    /\ UNCHANGED <<notWatch, vaultVars, sigs, polled, restart>>

PollReads(p) ==
    /\ Running
    /\ watcher = "reading"
    /\ polled[p] = Unread
    /\ token = "valid"
    /\ polled' = [polled EXCEPT ![p] = vault[p]]
    /\ UNCHANGED <<notWatch, vaultVars, sigs, watcher, restart>>

\* Faulty variant: permission denied is an error like any other.
PollFailsAlike ==
    /\ Running
    /\ watcher = "reading"
    /\ \E p \in Watched : polled[p] = Unread
    /\ polled' = [p \in Paths |-> Unread]
    /\ watcher' = "idle"
    /\ \/ faults < MaxFaults /\ faults' = faults + 1
       \/ token = "expired" /\ UNCHANGED faults
    /\ UNCHANGED <<notWatch, vault, token, changes, sigs, restart>>

\* An error ends the poll; what it has read is thrown away. "Permission denied",
\* of an expired token or of a policy that forbids the path to a live one, leads to
\* a login, any other error to the next tick.
PollFails ==
    /\ Running
    /\ watcher = "reading"
    /\ \E p \in Watched : polled[p] = Unread
    /\ polled' = [p \in Paths |-> Unread]
    /\ \/ faults < MaxFaults /\ faults' = faults + 1 /\ watcher' \in {"idle", "relogin"}
       \/ token = "expired" /\ watcher' = "relogin" /\ UNCHANGED faults
    /\ UNCHANGED <<notWatch, vault, token, changes, sigs, restart>>

\* client.Relogin(), which fails for a static token and may fail anyway.
Relogin ==
    /\ Running
    /\ watcher = "relogin"
    /\ watcher' = "idle"
    /\ \/ CanRelogin /\ token' = "valid" /\ UNCHANGED faults
       \/ CanRelogin /\ faults < MaxFaults /\ faults' = faults + 1 /\ UNCHANGED token
       \/ ~CanRelogin /\ UNCHANGED <<token, faults>>
    /\ UNCHANGED <<notWatch, vault, changes, sigs, polled, restart>>

\* Faulty variant: a poll that failed half way is compared as well.
PollComparesPartly ==
    /\ Running
    /\ watcher = "reading"
    /\ polled' = [p \in Paths |-> Unread]
    /\ restart' = (restart \/ \E p \in Watched : polled[p] # env[p])
    /\ watcher' = IF restart' THEN "sendTerm" ELSE "idle"
    /\ UNCHANGED <<notWatch, vaultVars, sigs>>

\* Faulty variant: the flag is not stored before the signals go out.
PollComparesSilently ==
    /\ Running
    /\ watcher = "reading"
    /\ \A p \in Watched : polled[p] # Unread
    /\ polled' = [p \in Paths |-> Unread]
    /\ watcher' = IF \E p \in Watched : polled[p] # env[p] THEN "sendTerm" ELSE "idle"
    /\ UNCHANGED <<notWatch, vaultVars, sigs, restart>>

\* The poll is complete: newHash against initialHash. The flag is stored before
\* the child can see any signal.
PollCompares ==
    /\ Running
    /\ watcher = "reading"
    /\ \A p \in Watched : polled[p] # Unread
    /\ polled' = [p \in Paths |-> Unread]
    /\ \/ /\ \A p \in Watched : polled[p] = env[p]
          /\ watcher' = "idle"
          /\ UNCHANGED restart
       \/ /\ \E p \in Watched : polled[p] # env[p]
          /\ watcher' = "sendTerm"
          /\ restart' = TRUE
    /\ UNCHANGED <<notWatch, vaultVars, sigs>>

\* Faulty variant: a send that gives up when the channel is full.
WatcherTermDrops ==
    /\ Running
    /\ watcher = "sendTerm"
    /\ IF HasRoom THEN Sent("TERM", "watcher") ELSE UNCHANGED sigs
    /\ watcher' = "grace"
    /\ UNCHANGED <<notWatch, vaultVars, polled, restart>>

\* Faulty variant: a send that needs no room.
WatcherTermOverflows ==
    /\ Running
    /\ watcher = "sendTerm"
    /\ Sent("TERM", "watcher")
    /\ watcher' = "grace"
    /\ UNCHANGED <<notWatch, vaultVars, polled, restart>>

\* The watcher's blocking sends, ten seconds apart.
WatcherTerm ==
    /\ Running
    /\ watcher = "sendTerm" /\ HasRoom
    /\ Sent("TERM", "watcher")
    /\ watcher' = "grace"
    /\ UNCHANGED <<notWatch, vaultVars, polled, restart>>

WatcherGrace ==
    /\ Running
    /\ watcher = "grace"
    /\ watcher' = "sendKill"
    /\ UNCHANGED <<notWatch, vaultVars, sigs, polled, restart>>

WatcherKill ==
    /\ Running
    /\ watcher = "sendKill" /\ HasRoom
    /\ Sent("KILL", "watcher")
    /\ watcher' = "done"
    /\ UNCHANGED <<notWatch, vaultVars, polled, restart>>

-----------------------------------------------------------------------------
(* The renewers: daemonSecretRenewer.Renew *)

RenewerGoes(p, a, b) ==
    /\ Running
    /\ renewer[p] = a
    /\ renewer' = [renewer EXCEPT ![p] = b]
    /\ UNCHANGED <<mainVars, childVars, readVars, vaultVars, fwdVars, pollVars, owed, kube>>

\* DoneCh: the lease can no longer be renewed. One that never could be is slept
\* through first.
RenewalEnds(p) ==
    /\ RenewerGoes(p, "renewing", IF p \in Renewable THEN "sendTerm" ELSE "sleeping")
    /\ UNCHANGED sigs

\* Faulty variant: the end of a lease that cannot be renewed is only logged.
LeaseExpiresUnnoticed(p) == RenewerGoes(p, "sleeping", "done") /\ UNCHANGED sigs

LeaseExpires(p) == RenewerGoes(p, "sleeping", "sendTerm") /\ UNCHANGED sigs

\* Faulty variant: a send that gives up when the channel is full.
RenewerTermDrops(p) ==
    /\ RenewerGoes(p, "sendTerm", "grace")
    /\ IF HasRoom THEN Sent("TERM", p) ELSE UNCHANGED sigs

RenewerTerm(p) == HasRoom /\ RenewerGoes(p, "sendTerm", "grace") /\ Sent("TERM", p)

RenewerGrace(p) == RenewerGoes(p, "grace", "sendKill") /\ UNCHANGED sigs

RenewerKill(p) == HasRoom /\ RenewerGoes(p, "sendKill", "done") /\ Sent("KILL", p)

-----------------------------------------------------------------------------

Main ==
    \/ Login \/ InjectFails \/ InjectDone \/ Exec \/ Notify \/ Start \/ StartFails
    \/ WaitReturns \/ StopWatching \/ LoadRestart \/ ExitMain
    \/ \E p \in Paths : InjectRead(p)

Environment ==
    \/ ChildExits
    \/ \E sig \in KubeSignals \cup {"TERM", "KILL"} : ChildDies(sig)
    \/ \E s \in KubeSignals : KubeSignal(s)
    \/ \E p \in Paths, v \in Values : VaultWrite(p, v)
    \/ TokenExpires

Forwarder == Receive \/ Forward \/ StopForwarding

Watcher ==
    \/ WatcherStops \/ PollStarts \/ PollFails \/ Relogin \/ PollCompares
    \/ WatcherTerm \/ WatcherGrace \/ WatcherKill
    \/ \E p \in Watched : PollReads(p)

\* What a renewer does once its lease is bound to end.
Ending(p) ==
    \/ LeaseExpires(p) \/ RenewerTerm(p) \/ RenewerGrace(p) \/ RenewerKill(p)

Renewer == \E p \in Leases : RenewalEnds(p) \/ Ending(p)

\* os.Exit ends every goroutine.
Exited == main = "exited" /\ UNCHANGED vars

Next == Main \/ Environment \/ Forwarder \/ Watcher \/ Renewer \/ Exited

Spec == Init /\ [][Next]_vars

\* Go's scheduler runs every goroutine that can run, its timers fire, requests
\* are answered, and SIGKILL ends a process. Nothing else is promised: not that
\* a renewable lease ends, nor that anybody writes, signals or exits.
Fairness ==
    /\ WF_vars(Main)
    /\ WF_vars(Forwarder)
    /\ WF_vars(Watcher)
    /\ WF_vars(ChildDies("KILL"))
    /\ \A p \in Leases : WF_vars(Ending(p)) /\ (p \notin Renewable => WF_vars(RenewalEnds(p)))

FairSpec == Spec /\ Fairness
-----------------------------------------------------------------------------
(* Properties *)

Signals == KubeSignals \cup {"TERM", "KILL"}
Senders == Leases \cup {"kubelet", "watcher"}
Requests == [sig : Signals, from : Senders]
AtMostOne(S) == {<<>>} \cup {<<x>> : x \in S}
SendPhases == {"sendTerm", "grace", "sendKill", "done"}

TypeOK ==
    /\ main \in {"login", "inject", "delay", "notified", "waiting", "reaped", "stopped",
                 "exitRestart", "exitChild", "exited"}
    /\ exitBy \in {"none", "error", "exec", "signal", "restart", "child"}
    /\ exitCode \in 0..255
    /\ child \in {"none", "running", "exited", "signaled"}
    /\ childCode \in 0..255
    /\ env \in [Paths -> Values \cup {Unread}]
    /\ vault \in [Paths -> Values]
    /\ token \in {"none", "valid", "expired", "revoked"}
    /\ sigs \in AtMostOne(Requests)
    /\ forwarder \in {"off", "on"}
    /\ hand \in AtMostOne(Requests)
    /\ watcher \in {"off", "idle", "reading", "relogin"} \cup SendPhases
    /\ polled \in [Paths -> Values \cup {Unread}]
    /\ restart \in BOOLEAN
    /\ renewer \in [Leases -> {"off", "renewing", "sleeping"} \cup SendPhases]
    /\ tried \subseteq [sig : Signals, from : Senders, ok : BOOLEAN]
    /\ owed \subseteq Signals
    /\ differed \subseteq Paths
    /\ changes \in Nat /\ faults \in Nat /\ kube \in Nat

\* A restart is asked for only when a polled secret really held, at some moment
\* since it was injected, another value than the child was given: a poll spread
\* over several requests, failed ones and logins included, never mistakes an
\* incomplete or mixed reading for a change.
RestartJustified == restart => differed \cap Watched # {}

\* Once a signal of the watcher has been sent to the running child, the injector
\* cannot report the child's own exit status: whatever the child does in
\* between, the container ends with the status that stands for a restart (or by
\* the kubelet's own signal). The flag is stored before the signal is sent.
RestartReported ==
    (\E t \in tried : t.from = "watcher") /\ main = "exited" => exitBy \in {"restart", "signal"}

\* The child gets a SIGKILL only from a requester whose SIGTERM has been sent to
\* it before, and only because a secret changed or a lease ended; the kubelet's
\* signals racing for the channel never reverse that order.
KillFollowsTerm ==
    \A t \in tried : t.sig = "KILL" =>
        /\ \E u \in tried : u.sig = "TERM" /\ u.from = t.from
        /\ IF t.from = "watcher" THEN restart ELSE t.from \in Leases /\ renewer[t.from] = "done"

\* A request for a signal is on its way to the child, or has been tried on it.
Underway(sig, from) ==
    \/ <<[sig |-> sig, from |-> from]>> \in {sigs, hand}
    \/ \E t \in tried : t.sig = sig /\ t.from = from

\* Which of a requester's two signals must be under way, given where it is.
Pursued(phase, from) ==
    /\ phase \in {"grace", "sendKill", "done"} => Underway("TERM", from)
    /\ phase = "done" => Underway("KILL", from)

\* Nobody's request to end the child is lost while there is a child to end: the
\* restart a poll has decided on and the end of every lease stay with a
\* goroutine that still has to send, with the channel, with the forwarder or
\* with the child, however the requesters and the kubelet race for the one place
\* of the channel (a renewer even before the child is started); and as long as
\* main() waits for the child somebody empties that channel.
NoRequestLost ==
    child \in {"none", "running"} =>
        /\ main = "waiting" => forwarder = "on"
        /\ restart => watcher \in SendPhases
        /\ Pursued(watcher, "watcher")
        /\ \A p \in Leases : Pursued(renewer[p], p)

\* The application is never started, nor becomes the process, with a secret of
\* its environment unresolved, whichever requests failed on the way.
StartsComplete ==
    child # "none" \/ exitBy = "exec" => \A p \in Paths : env[p] # Unread

\* The promise of watch-for-data, and how this module keeps it.
Contract == INSTANCE RestartContract WITH
    phase   <- IF main \in {"login", "inject", "delay", "notified"} THEN "preparing"
               ELSE IF main = "exited" THEN "over" ELSE "running",
    outcome <- exitBy,
    changed <- differed \cap Watched # {},
    asked   <- restart,
    hit     <- \E t \in tried : t.from = "watcher"

\* Every behaviour of the injector is one the contract of watch-for-data allows.
KeepsContract == Contract!Spec

\* The token as the client promises it (see VaultClient), and who needs it here.
Token == INSTANCE TokenContract WITH
    token <- token,
    inUse <- main \in {"login", "inject"} \/ (Supervises /\ Running)

\* A token in use is only ever replaced after it has ended, never revoked: an
\* injector that stays, to poll or to renew leases, can go on asking.
KeepsToken == Token!Spec

\* What the child runs with is out of date.
Stale == main = "waiting" /\ \E p \in Watched : vault[p] # env[p]

\* watch-for-data: the child does not go on forever with secrets that differ
\* from Vault's (docs/USAGE.md: "on change terminates the child process and then
\* exits itself"), through failed polls, expired tokens and a deaf child.
NeverStaleForever == []<>~Stale

\* watch-for-lease: once a lease can no longer be renewed the container ends,
\* even when that happens before the child is started.
LeaseEndsContainer == \A p \in Leases : renewer[p] \in {"sleeping", "sendTerm"} ~> main = "exited"

\* When the child is gone the injector exits, whoever still waits to send to a
\* channel nobody empties any more.
ExitsAfterChild == child \in {"exited", "signaled"} ~> main = "exited"

\* "delivered to env-injector (PID 1) ... must be forwarded to the application
\* process": a signal that arrived is answered by that signal (or by SIGKILL)
\* unless the child is gone.
SignalsForwarded ==
    \A s \in KubeSignals : s \in owed ~> (s \notin owed \/ child # "running")
=============================================================================
