# secrets-store-integration: a TLA+ verification project

This directory models the program of this repository: how secrets of a
Vault-compatible store reach the containers of a Kubernetes cluster, and what
happens when those secrets, the tokens that read them, or the processes involved
change or fail. TLC checks the models on small instances; TLAPS proves the
theorems for every value of the constants.

Contents: [the system](#the-system) · [modules](#modules) · [runs](#runs) ·
[fairness](#fairness) · [proofs](#proofs) · [findings](#findings) ·
[not modelled](#not-modelled) · [plan](#plan) · [running it](#running-it)

## The system

| part | state it keeps | operations | talks to |
|---|---|---|---|
| **env-injector** (`images/env-injector/main.go`), PID 1 of a mutated container | the child process, the signal channel, the restart flag, one goroutine per lease, one watcher, one forwarder | log in, resolve, start the child, poll, renew, forward signals, exit | Vault, the child, the kubelet (signals, exit status) |
| its **secret resolution** (`injector.go`, `hash.go`) | a cache of read paths, the resolved environment, the baseline | resolve a reference, import a path, compare | Vault |
| its **Vault client** (`client.go`) | the token, the token's lifetime watcher, `closed` | log in, log in again, renew, close | Vault, the token file |
| **vault-secrets-webhook** (`images/vault-secrets-webhook`) | a cache of image configurations, the serving certificate | mutate a pod, look up ConfigMaps and Secrets, look up images, reload the certificate | API server, registries |
| **ssi-controller** (`images/ssi-controller`) | a work queue and an informer's cache | reconcile a SecretsStoreImport into a SecretProviderClass | API server |
| **hooks** (`hooks/batch`) | none | migrate labels, generate certificates, ensure CRDs | API server |
| **secrets-store-csi-driver**, **vault-csi-provider** | third-party code, only patches are here | write the files of a volume, rotate them | kubelet, Vault |

How they interact. The webhook puts the injector in front of a container's
command (it never talks to the injector, but both must agree on what the command
is and on what a reference is). The injector reads Vault, starts the command as
its child or becomes it, and in its two restart modes watches what it read. The
controller turns imports into the objects the CSI driver reads; a hook patches
the same objects; the garbage collector removes them with their import.

What makes it hard, and what correctness means for each part:

- **env-injector.** Four kinds of goroutines and two processes meet on one
  channel of capacity one; the order of a flag, two signals and an exit status
  decides whether Kubernetes restarts the container. Correct means: a restart is
  asked for only when a secret changed, is then reported, reaches a deaf child,
  and nobody waits for ever.
- **secret resolution.** The environment is put together from many requests while
  secrets rotate and tokens expire, and a poll must repeat all that and come to
  the same result. Correct means: no torn pairs of credentials, no repeated
  write, no template left over, the documented precedence, and polls that are
  right whenever Vault stands still.
- **ssi-controller.** It reads a cache that lags behind the API server, runs
  several workers and writes with the version it read; the hook and the garbage
  collector write behind its back. Correct means: never back to older content,
  and always, in the end, what the import says.
- **Vault client.** Logins, renewals in goroutines and a token file replace a
  token that may end at any moment. Correct means: no renewal outlives its token,
  the token is never revoked while somebody needs it, and whoever polls always
  gets a live one again.
- **webhook.** Reviews run concurrently, share a cache that never expires, and
  see ConfigMaps and images as they are at that moment. Correct means: the same
  process as without the webhook, no bare reference for what could be seen, no
  half-mutated pod. Its certificate is swapped on disk while it is loaded, watched
  and served; correct means: no pair that does not belong together, never an older
  one, and every swap is served.

Every hazard is listed at its line in `PROJECT.json`, with the properties that
would catch it or the reason why none does.

## Modules

| module | models | state |
|---|---|---|
| `EnvInjector` | `main.go` from the login to the exit, `watchSecretsForChanges`, `Renew`, the forwarder, `Relogin` | processes, signals, flag |
| `RestartContract` | abstract: what watch-for-data promises, without goroutines | five variables |
| `SecretResolution` | `injector.go`, the environment, baseline and sanitizing of `main.go`, `hash.go` | injector, child, Vault |
| `VaultClient` | `client.go` and those who call it in `main.go` | the client's token, renewals, tokens of Vault |
| `TokenContract` | abstract: the token as the rest of the injector may rely on it | two variables |
| `PollInterval` | `jitteredInterval` and the default interval, in nanoseconds | none |
| `SSIController` | `Reconcile`, `createSecretProviderClassFromSSI`, the manager, the hook `ssi-spc-label-migrate` | API server, cache, queue, workers |
| `ImportContract` | abstract: what the user of one import is promised | three variables |
| `PodMutation` | `MutatePod`, `mutateContainers`, the look-ups, `registry.go`, `parseVaultConfig` | reviews, cache, world |
| `CertReloader` | `tlscertificate.go` | directory, watch, served pair |
| `CertContract` | abstract: what a client may expect of the serving certificate | three variables |
| `EnvInjectorProofs`, `SecretResolutionProofs`, `VaultClientProofs`, `SSIControllerProofs`, `PodMutationProofs`, `PodReviewProofs`, `CertReloaderProofs` | theorems about the module of that name (`PodReviewProofs`: about `PodMutation`) | |
| `MC*` | the values of the constants for TLC | |

Each abstract specification is implemented by a detailed one, and
`TokenContract` by two: `EnvInjector` knows its token by its state, `VaultClient`
knows which of many tokens it is, and both keep the same contract. That is how the
two are put together without the product of their states.

A definition whose comment says *Faulty variant* is no part of a model. It is
the mutation of the definition below it a plausible bug would make, and each
property is known to notice one (`PROJECT.json`, "mutants").

### EnvInjector

`main` is the program counter of `main()`; `sigs` is the channel `sigs`
(`make(chan os.Signal, 1)`), `hand` what the forwarder has received and not yet
passed on, `watcher` and `renewer[p]` the counters of the goroutines, `restart`
the flag `restartDueToSecretChange`, `child` the process. Each blocking send is
an action that needs room; `signal.Notify` drops what finds none (`KubeSignal`).
A poll is one action per Vault request (`PollReads`), so that secrets change and
requests fail between two of them; the comparison, the store of the flag, and
the two sends are separate actions in the order of the code. `tried`, `owed` and
`differed` are ghosts: what was sent to the child, what the kubelet is owed, and
which secrets have ever differed from what the child got. Time is not modelled:
a timer is an action that may happen once it is armed, so every order of grace
periods, polls and leases is explored.

`RestartContract` says the same in five variables: a restart is asked for only
after a change, and an application that has felt it never has its own exit status
reported. `EnvInjector!Contract` is the refinement mapping.

`NoRequestLost` is about who still has to act: a decision to end the child, once
made, is at every moment with a goroutine that has yet to send it, in the channel,
in the forwarder's hand, or has been tried on the child.

### SecretResolution

One step per Vault request. `todo` is what is left of the map that
`InjectSecretsFromVault` ranges over, in any order as Go does; `at`/`pieces` is
the inline reference being put together; `pos` the next entry of
`VAULT_ENV_FROM_PATH`; `cache` the `secretCache` of the injector in use, which
`Tick` replaces as the poll's new injector does. A value is the sequence of its
pieces, a template a record of its parts: parsing is abstracted, composition is
not. `baseline` is what the initial hash digests, so that `Compare` compares
environments where the code compares their SHA-256. `touched` and `moved` are
ghosts: whether Vault changed since the process, or the poll, began.
`EnvInjector` treats resolution as an opaque reading of paths; this module has
its inside, and treats the process around it as `phase`.

### VaultClient

`pc` is the position of `main()` and, once the child runs, of the watcher: the two
never use the client at the same time. `current` is the token the client sends,
`handle` the one `c.tokenWatcher` was made for, `running` the tokens a
`LifetimeWatcher` still renews. Tokens are numbered as they are issued, since what
may go wrong is about *which* token: a renewal left behind by a new login, a
handle that belongs to an older one. The configuration (where the token comes
from, daemon mode, watching, revocation) is chosen in `Init` and stays.

`TokenContract` has the state of the token and whether somebody may still need it:
an ended token may be replaced as long as somebody asks, and it is revoked only
when nobody will ask again, for good.

### PollInterval

Integers instead of `float64`: `MaxSkew` allows the two integers the cut of the
rounded product can give below 2^48 ns (three days). There is nothing to run, only
to prove.

### SSIController

`ssi` and `spc` are the API server, with one clock of resource versions and
generations; `cached` and `events` are the informer, `queue` and `work` the work
queue and the workers. `Begin` reads the cache, `GetSPC` the API server,
`WriteSPC` writes with the version read; in between anything may happen:
conflicts, answers that are lost (`RequestFails`), a crash, the hook's merge
patch, someone else's edit (`Meddle`), the garbage collector. The worker's
version check is the API server's optimistic concurrency.

`IdleMeansSettled` says what "nothing left to do" means: an import with no event
to deliver, no key in the queue and no worker has the SPC it asks for. A key that is
dropped instead of queued again would be noticed here at once, not only by the
liveness property.

`ImportContract` is what the user of one import sees: the generation its class
stands for only grows, never passes what was asked for, and the class of the
present import is not taken away again, unless somebody else touched it.
`SSIController!Contract(n)` maps the generations of import `n`; the mapping
forgets cache, queue and workers.

### PodMutation

A review is a goroutine: `work[r]` is its position in the pod (`at`, `item`), the
attempts at the registry it has left and its copy of the pod. Init containers and
containers are one sequence, because the code treats them alike in that order.
Each look-up and each attempt is a step of its own; the miss in the image cache,
the fetch and the store are three. A review the API server has given up
(`TimeOut`) goes on, as the handler does. What is kept of a container is what
decides the process it runs: image, pull policy, command, arguments, probes,
mounts, and where its environment comes from; the variables the webhook appends
are left out.

### CertReloader

A pair of certificate and key is known by the swaps that brought its halves.
`dir` is what the directory holds, `read` the certificate file that was read when
the key is not yet, `served` the pair in `kpr.cert`, `queued` the events of the
watch. `LoadCert` and `LoadKey` are the two files of the first load, `ReadCert`
and `ReadKey` those of a reload, so that the kubelet's swap falls between any two.
`Crash` is any end of the process, the next one loads again.

`CertContract` is what a client sees: a register that follows the directory, late
but never backwards, and exact while the server claims to be up to date, which it
does when the goroutine is at rest, no event is left and no swap was missed.

## Runs

Properties are listed in `PROJECT.json`; every property of a passing run is
violated by a mutant of the code under the same configuration.

| run | question | bounds, and why they are enough |
|---|---|---|
| `watch_data` | Does any interleaving break the order of flag, SIGTERM and exit, lose a request to end the child, or break the contract? Is a change always followed by the end of the container, a SIGTERM by its delivery? | 2 paths (mixed readings), 2 values, 2 changes (there and back: ABA), 2 faults (a failed poll and a failed login), 2 SIGTERMs (one in the channel, one dropped), 2 exit codes. One kind of signal: with two see `signal_lost` |
| `exec_mode` | Without anything to supervise, does the injector become the application only with a complete environment? | update-style references only, so that watching switches itself off |
| `lease_live` | Does the end of a lease, renewable or not, end the container, also before the child starts? Does a SIGKILL ever come without its SIGTERM, or a request get lost? Is a gone child followed by the exit? Is the token used as its contract says? | one lease of each kind: two senders compete for a channel of capacity one; revocation asked for |
| `signal_lost` | *violated:* are registered signals forwarded? | two kinds of signals suffice |
| `token` | Does a renewal outlive its token, does a poller get a live token again, is the contract kept? | every configuration (48); 3 faults: enough for a token that is revoked, a login that fails and a renewal that ends early in one behaviour |
| `resolve` | Torn pairs, repeated writes, leaks, wrong verdicts, wrong precedence? | 2 keys of a path and 2 versions of it in two templates; an issued certificate in two templates; two imported paths that provide an explicit name too, each with none; missing paths ignored; a token file that rotates; 2 changes: one in the resolution, one in a poll |
| `update_clash` | *violated:* does a restart mean a change? | one name, one path |
| `template_leak` | *violated:* is no template left? | one inline reference of two parts |
| `login_token` | *violated:* is the login's token passed on? | one name |
| `import` | Does an SPC ever go back, is it right whenever nothing is left to do, does it come to agree with its import, is the contract kept? | one import (keys share nothing but workers; the queue never gives one key to two), 2 workers, 3 edits: create, delete, create again, or edits of two specs; one fault, crash and edit by others each |
| `admission` | The same process, no bare reference, complete or untouched, mutated once, every secret tried? | 2 reviews (all effects between reviews go through the cache of one image), 5 kinds of pods, 2 versions of an image, one push, one edit, one failed request, one time-out; reviews are symmetric |
| `cert_reload` | Is a mixed pair ever served, is the clients' contract kept (no older pair; the present one at rest), is every swap served? | 4 rotations, of which the first renews with the old key (a mixed pair that *does* belong together) and the last too; 2 restarts |

Deadlock is checked where the system never stops by itself: in `EnvInjector`
the exited process stutters explicitly, so that a goroutine nobody can wake
would show in `main`. The runs of `SSIController`, `PodMutation`, `CertReloader`
and `VaultClient` switch it off: with the bounds used up and all work done, or the
injector replaced by the application, nothing is left to happen.

What the properties leave out on purpose:

- `RestartJustified` allows a restart when a secret changed and changed back;
  the poll saw the difference.
- `PollVerdict` and `EnvAsDocumented` speak of Vault standing still. `SameVersion`
  does not, but is about references: an imported path is read past the cache and
  may show another version than a reference to it.
- `QuietMeansCurrent` and `RotationServed` except a swap between the first load and
  the watch: the code loads in `NewCertificateReloader` and adds the watch in a
  goroutine afterwards, so that this swap is served only with the next one.
- `Recovers` is about a token that can be replaced: nobody can replace a static
  one, and in daemon mode without polls nobody asks for another.
- `Converges` repairs what others did to an SPC only with the next edit of the
  import: the controller watches imports alone.
- `RunsTheSame` allows, for an image that may be cached, any configuration its
  tag has had. A node may hold either, and the webhook cannot know.
- `NoBareReference` is about references that were there during the whole review.
  A ConfigMap that appears after it, which the kubelet waits for, starts its
  container without the injector. It also excepts an optional source whose
  request failed: the code passes it over as if it were absent.

## Fairness

- `EnvInjector`: weak fairness of `main()`, the forwarder, the watcher and each
  renewer once its lease is bound to end, because Go schedules every goroutine
  that can run, timers fire and Vault answers or refuses; of `ChildDies("KILL")`,
  because the kernel carries out SIGKILL. Not assumed: that a renewable lease
  ends, that a child obeys SIGTERM or exits, that anybody writes or signals.
  Failures are bounded, which is the assumption that outages end.
- `SSIController`: weak fairness of the start of the manager (the kubelet
  restarts it), of the watch, the garbage collector, the hook and the steps of a
  worker; strong fairness of `Begin` for each key, since the work queue is first
  in, first out and a key is not overtaken for ever.
- `CertReloader`: weak fairness of the restart by the kubelet, of the first load
  and of the watching goroutine. That anybody rotates or connects is not assumed.
- `VaultClient`: weak fairness of `main()`, of the polls (a ticker) and of
  `Relogin`, and of Vault Agent replacing the token of the file *once that token has
  ended*, which is what the agent is deployed for. Of Vault nothing is assumed but
  that its faults are bounded.
- `SecretResolution` and `PodMutation` have properties of states and steps only.

## Proofs

What TLC shows on small instances, TLAPS proves for any sets of paths, values,
leases, signals, templates, contents, imports, workers, pods, images, keys and
configurations, and for any bounds. Every invariant and every step property of
the passing runs has its theorem, and so do the five refinements; `PROJECT.json`
lists them. The assumptions are the named ones of the modules: flags are Boolean,
bounds are natural numbers, `Leases` and `Updates` are sets of paths, "watcher" is
no lease, templates have the shapes the parser gives them, certificates have keys,
and submitted pods are what users write and the API server accepts (below).

| module | theorems |
|---|---|
| `EnvInjectorProofs` | `TypeCorrect`, `RestartIsJustified`, `RestartIsReported`, `KillsFollowTerms`, `StartIsComplete`, `ImplementsContract`, `ContractSuffices`, `KeepsTheToken`, `LosesNoRequest`, `StopIsNeverLost` |
| `SecretResolutionProofs` | `TypeCorrect`, `WritesOnce`, `OneVersionOfAPath`, `PollsJudgeRight`, `ChildIsGivenWhatIsMeant`, `RestartsMeanChange`, `TemplatesStayInside` |
| `VaultClientProofs` | `TypeCorrect`, `RenewalsAreOwned`, `KeepsTheToken`, `NeverAnOlderToken`, `NeverRefusedByClose` |
| `PollInterval` | `DrawIsDefined`, `PollsWithinJitter` |
| `SSIControllerProofs` | `TypeCorrect`, `NeverGoesBack`, `KeepsItsContract`, `ForgetsNoImport` |
| `PodMutationProofs` | `TypeCorrect`, `InjectsOnce`, `AdmitsWholePods` |
| `PodReviewProofs` | `SecretsAreTried`, `RunsWhatWasAsked`, `ReferencesAreFound` |
| `CertReloaderProofs` | `TypeCorrect`, `PairsBelong`, `QuietIsCurrent`, `ImplementsContract`, `ContractSuffices`, `NeverGivesOlder` |

**EnvInjector.** No property is inductive alone. The invariant is the
conjunction of
`TypeOK`;
`PhaseInv`, which ties the goroutines, the child and the exit to `main` (before
`waiting` there is no watcher, child or forwarder; after `inject` every secret is
resolved);
`ChangeInv`, that whatever differs from the environment, in Vault now or in what
a poll has read, is in `differed` (so that a comparison finds real differences
only);
`FlagInv`, that every trace of the watcher's signals, in its counter, the channel,
the forwarder's hand or `tried`, comes with the flag, and that `main`, once it has
found the flag unset, means no signal of the watcher was tried;
`KillInv`, that wherever a SIGKILL is on its way, the SIGTERM of its sender is
ahead of it or was tried, or the child is gone. It uses that the channel holds
one signal: in a longer one it would be about the order of a queue.
The refinement then has one step per action: each maps to one action of the
contract or to a stutter. For `KeepsTheToken`, `TokenInv` adds that whoever may
send a request (the watcher, a renewer) is only there in a mode in which the token
is never revoked.
`ContractSuffices` is about the abstract specification alone: an invariant over its
five variables (`Promised`) gives `RestartJustified` and `RestartReported`, so that
whoever relies on the contract needs nothing of the goroutines.
For `LosesNoRequest`, `CustodyInv` says where each SIGKILL that was sent is (in the
channel, in the hand, or tried), that the forwarder is there while `main` waits, and
that the flag comes with a watcher that still sends. With `KillInv`, which puts the
SIGTERM ahead of it, that is the property. It holds with signals that fail, and
without any assumption on what the kubelet sends.
`StopIsNeverLost` is the counterpart of the run `signal_lost`, and assumes exactly
what that run does not: SIGTERM is the only signal from outside (what a kubelet
sends), and sending one to the child does not fail. Then a SIGTERM that finds the
channel full may be dropped, since whatever fills it is a SIGTERM or a SIGKILL.

**SecretResolution.** `TypeInv` adds to `TypeOK` that the cache holds only what
Vault may hold or answers. `WriteInv` says that a write made while the
environment is injected is in the cache, so that no second reference repeats it,
and that a poll resolves watched templates only, none of which writes.
`VersionInv` says that every value in `out` and every piece gathered came from
the cache, one entry per path, and that `given` agrees with one version of each
path; the cache may be replaced only together with `out` (`Tick`).
`MeansInv` is about Vault standing still: what is resolved so far is what the
templates done and the paths read mean (`MeansBefore`, which is `Means` cut off at
a position), the cache is what Vault holds, and the pieces are what their parts
mean. One lemma per way to go on (a name done or left out, an entry read) shows
that `MeansBefore` goes on in the same way; at the end it is `Means`.
`RestartMeansChange` and `NoTemplateLeaks` are false of some environments (see the
findings). `RestartsMeanChange` and `TemplatesStayInside` assume exactly that the
environment is none of these: no path provides the name of an update-style
reference; missing secrets are not ignored, or no inline reference may miss one.
The latter also assumes that no value of Vault is itself the text of a template,
which in the model is a value like others (`NoTemplateText`).
`BaselineInv` says that the baseline is what the watched names meant, if nothing
has moved since.

**VaultClient.** `RenewalsOwned` is inductive with what each position of `main()`
and of `Relogin` knows of the handle (`RenewalInv`: between the stop and the login
there is none) and of who still needs the token (`UseInv`: a revoked one is needed
by nobody). The refinement maps the number of the token to its state. Two theorems
are the safe side of `Recovers`: a re-login never goes back to a token older than
the one in use (the file is never behind the client, `FileInv`), and it is refused
only to the owner of a static token, although Relogin refuses a closed client too.

**PollInterval.** Linear arithmetic from the two inequalities of the cut product:
whatever is configured, up to three days, `rand.N` is never called with zero, and
the ticker gets a positive interval within 30% of the one asked for.

**SSIController.** States of one import are ordered by their generation, and
everything that is under way is ordered along the path it takes: the content of
the SPC, what a worker has in hand, the cache, the queued events, the API server
(`ChainInv`, `HandInv`, each no newer than the next). `NeverBackwards` then follows
from the step that writes: it writes what is in hand, and the SPC it read, under
the version it read, is no newer. `WorkInv` needs that no key is in two hands,
`RestInv` that a new leader starts with nothing. The refinement uses the same
order; "disturbed" is membership in `meddled`, the imports whose SPC somebody else
has changed since their user last edited them.
`IdleMeansSettled` needs `PendingInv`: the cache is behind the API server by exactly
the events not yet delivered (`Abreast`), and for an import with none of them and no
key in the queue, either a worker has the *present* import in hand or the SPC is
right (`Accounted`). What makes it inductive is that a watch event puts the key back
although a worker has it, and that refused and failed requests do the same.

**PodMutation.** All that is needed of one review is in `RInv(work, pod, verdict)`:
the containers behind the present one are as submitted or run under the injector,
those ahead are untouched, the rest of the pod changes only when it is completed,
and a pod that was admitted is `Acceptable` when it is submitted again. It mentions
no other review, so the steps of the others keep it; the cache is the only thing
they share. Assumed of submitted pods (`ManifestsAssumption`): they are `Clean`,
with no name that is the webhook's own, no two volumes of one name, and no mount
without a volume. The three theorems of `PodReviewProofs` depend on what the world
does while a review runs and have an invariant of a review each: `Tried` (the
attempts still ahead include every secret that opens the image), `Faithful` (a
container under the injector runs what it would run by a configuration of its
image that is at least as recent as its pull policy asks; `CacheInv`: the cache
holds nothing else than configurations the image has had), `Covered` (a reference that stays
is found when its item is looked at, and a container behind the present one that
has such a reference runs under the injector).

**CertReloader.** `FreshInv`: with no event left, and no swap missed, what was read
or is served is what the directory holds; a swap that would break it queues an
event. `OrderInv`: shown, served, read, directory, each no newer than the next. Both
together give the steps of the refinement: a handshake gives a version between the
last one given and the one held, the latter while the server claims so. `NeverOlder`
then follows from the contract alone (`ContractSuffices`).

**Model-checked only.** Liveness: `NeverStaleForever`, `LeaseEndsContainer`,
`ExitsAfterChild`, `SignalsForwarded`, `Recovers`, `Converges`, `RotationServed`.
It needs ENABLED and is out of the prover's reach. What each of them rests on, that
no obligation is forgotten on the way, is safety and is proved: `NoRequestLost` for
the first two, `StopIsNeverLost` for `SignalsForwarded` with one kind of signal,
`NeverAnOlderToken` and `NeverRefusedByClose` for `Recovers`, `IdleMeansSettled` for
`Converges`, `QuietMeansCurrent` for `RotationServed`. `ExitsAfterChild` has no such
core: `main` asks nothing of the other goroutines once the child is gone.

**Run, but not to be proved.** `SignalsForwarded` of `signal_lost`,
`RestartMeansChange` of `update_clash`, `NoTemplateLeaks` of `template_leak` and
`LoginTokenPassed` of `login_token` are violated by the code; the second and the third
are proved where the configuration of the finding is excluded.

## Findings

1. **A signal may be lost** (`signal_lost`, `main.go:323`). `signal.Notify` does
   not block on a full channel of capacity one: a SIGTERM behind an undelivered
   SIGHUP is dropped, although signals "must be forwarded to the application".
2. **A restart at every poll** (`update_clash`, `main.go:441`). A name with an
   update-style template that `VAULT_ENV_FROM_PATH` provides as well is deleted
   from the baseline but not from the polls.
3. **A template reaches the application** (`template_leak`, `injector.go:76`).
   With missing secrets ignored, an inline reference to a missing path stays text.
4. **`vault:login` is not replaced** (`login_token`, `injector.go:103`). Only
   `secrets-store:login` is, while `main.go` and `client.go` write and recognise
   `vault:login`.

Met while modelling, without a run: `docs/USAGE.md:291` says that
`ignore-missing-secrets` "starts the original application if retrieving a secret
from the store fails", but a failed request and a missing key still end the
injector; only a missing path is ignored. `docs/USAGE.md:258` says that a pod
with the role annotation gets the injector; it does only if a container refers to
the store or imports a path.

## Not modelled

- Time: grace periods, intervals, time-outs. Their order is free in the models;
  only the arithmetic of the poll interval is there (`PollInterval`).
- The inside of the `LifetimeWatcher` of Vault's API, which is a library: in
  `VaultClient` it renews one token until it is stopped, refused or done.
- The self-copy of the injector, logging, Go templates in a key, versions in a
  path, the parsing of references.
- Two leaders of the controller at once (a leader paused for longer than its lease
  between two requests; `NeverBackwards` does not hold then), requests that arrive after the crash of
  their sender, the stages of the garbage collector (it is one atomic step), the
  informer's periodic resync.
- The webhook's security contexts, resources and appended variables, its server
  (wiring); a pod that brings both names of the TLS volume, which the
  API server refuses after the mutation; the SecretInjector and `newVaultClient`
  of the webhook, which nothing calls.
- The CSI driver and provider, whose code is not here; hooks of the module SDK;
  templates, CRDs and values.

## Plan

Done: the detailed modules of the injector, its client, the controller, the
webhook and its certificate, the four contracts, and proofs of every safety
property a run checks.

What could follow:

1. The files of a CSI volume: `decodeBase64` through the import, the SPC and the
   patched writer, if the driver's code were here.
2. A composition of `EnvInjector` and `SecretResolution`: the former's readings of
   paths refined by the latter's requests.
3. A second leader in `SSIController`, with a bound on how long one is paused.

## Running it

    tlasany PodMutation.tla
    tlc -workers 4 -config MCAdmission.cfg MCPodMutation
    tlapm SecretResolutionProofs.tla

The runs and their configurations are listed in `PROJECT.json`. All of them end
within a few minutes on two cores: `admission` has 3.7 million states, `watch_data`
1.1 million, `import` 0.7 million, `lease_live` 0.4 million, `resolve` 0.25 million;
the others take seconds. `PodMutationProofs` and `PodReviewProofs` take the prover
some minutes each, the other proofs one or less.
