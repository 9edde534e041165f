---------------------------- MODULE PodMutation ----------------------------
(***************************************************************************)
(* vault-secrets-webhook: the mutating webhook for pods.  Each admission   *)
(* review is handled by a goroutine of its own.  It looks, container after *)
(* container, for values that refer to the store, in the manifest and in   *)
(* the ConfigMaps and Secrets it names; makes such a container run under   *)
(* the env-injector; and fetches the command of an image from its registry *)
(* when the manifest gives none.  The reviews share the cache of images.   *)
(*                                                                         *)
(* External, and modelled from how the webhook uses them: the API server   *)
(* (reviews, time-outs, ConfigMaps and Secrets) and the image registry.    *)
(***************************************************************************)
EXTENDS Integers, Sequences, SequencesExt, FiniteSets

CONSTANTS
  Reviews,            \* the admission reviews, each handled once
  Words, Manifests,   \* the strings there are; the pods users submit
  Images, Latest,     \* image names; those whose tag is "latest"
  Versions,           \* the configurations an image may have
  Public,             \* images served without credentials
  PullSecrets, Opens, \* pull secrets; secret -> the images it gives access to
  Sources, Keys,      \* ConfigMaps and Secrets; the keys in them
  Defaults,           \* the settings of the webhook, for absent annotations
  DefaultPullSecret,  \* the pull secret for pods without one, or None
  None,
  MaxPushes,          \* bound on tags pushed again
  MaxEdits,           \* bound on edits of ConfigMaps and Secrets
  MaxFaults,          \* bound on failed requests
  MaxTimeouts         \* bound on reviews the API server gives up

ASSUME ImagesAssumption ==
  /\ Latest \subseteq Images /\ Public \subseteq Images
  /\ Versions \subseteq [entrypoint : Seq(Words), cmd : Seq(Words)]
  /\ Opens \in [PullSecrets -> SUBSET Images]
  /\ DefaultPullSecret \in PullSecrets \cup {None}

ASSUME BoundsAssumption ==
  {MaxPushes, MaxEdits, MaxFaults, MaxTimeouts} \subseteq Nat

VARIABLES
  history,  \* image -> the configurations its tag has had, the last one now
  sources,  \* ConfigMap or Secret -> the keys that hold references to the store
  cache,    \* image -> its cached configuration, or None
  work,     \* review -> the handler's progress
  verdict,  \* review -> what the API server was told
  asked,    \* ghost: review -> the pod as it was submitted
  since,    \* ghost: review -> what has changed since it was submitted
  pushes, edits, faults, timeouts

world  == <<history, sources>>
bounds == <<pushes, edits, faults, timeouts>>
vars   == <<history, sources, cache, work, verdict, asked, since,
            pushes, edits, faults, timeouts>>

-----------------------------------------------------------------------------
(* The pod.  InitContainers and Containers are one sequence: they are      *)
(* treated alike, in this order.                                           *)

Injector       == "/vault/env-injector"
InjectorVolume == "stronghold-env"

ASSUME WordsAssumption ==
  {Injector, InjectorVolume, "vault-tls", "stronghold-env-tls", "copy-env-injector",
   "IfNotPresent", "/bin/env-injector", "--self-copy"} \subseteq Words

\* Where the value of an environment variable comes from: the manifest, all
\* keys of a ConfigMap or Secret, one key of it.
Items ==
  [from : {"value"}, reference : BOOLEAN]
    \cup [from : {"envFrom"}, source : Sources, optional : BOOLEAN]
    \cup [from : {"valueFrom"}, source : Sources, key : Keys]

Containers ==
  [name : Words, image : Images \cup {"env-injector"}, pull : Words,
   command : Seq(Words), args : Seq(Words), items : Seq(Items),
   probes : Seq(Seq(Words)), mounts : SUBSET Words]

Pods ==
  [annotations : {m.annotations : m \in Manifests}, volumes : Seq(Words),
   imagePullSecrets : Seq(PullSecrets), containers : Seq(Containers)]

vaultConfig(pod) ==
  [s \in DOMAIN Defaults |->
     IF s \in DOMAIN pod.annotations THEN pod.annotations[s] ELSE Defaults[s]]

Skip(pod) == "role" \notin DOMAIN pod.annotations

\* The role may be a template over fields of the pod.
RoleParses(pod) == pod.annotations.role # "bad template"

OldVolumeName(pod) == Contains(pod.volumes, "vault-env") \* Faulty variant

isPodAlreadyMutated(pod) == Contains(pod.volumes, InjectorVolume)

Runs(c) == c.command = <<Injector>>
Mutated(pod) == \E i \in DOMAIN pod.containers : Runs(pod.containers[i])

\* What a user writes: no names of the webhook's own, no two volumes of one
\* name, no mount without its volume.  (The API server refuses the last two.)
Clean(pod) ==
  /\ ~Mutated(pod) /\ ~isPodAlreadyMutated(pod)
  /\ ~Contains(pod.volumes, "stronghold-env-tls") /\ IsInjective(pod.volumes)
  /\ \A i \in DOMAIN pod.containers :
       /\ pod.containers[i].image \in Images
       /\ pod.containers[i].mounts \subseteq ToSet(pod.volumes)

ASSUME ManifestsAssumption == \A m \in Manifests : m \in Pods /\ Clean(m)

ASSUME NoneAssumption == None \notin Pods /\ None \notin Versions

\* A pod may bring a volume with the usual name.
TLSVolumeName(volumes) ==
  IF Contains(volumes, "vault-tls") THEN "stronghold-env-tls" ELSE "vault-tls"

Mounts(pod) ==
  {InjectorVolume}
    \cup (IF vaultConfig(pod).tlsSecret THEN {TLSVolumeName(pod.volumes)} ELSE {})

VolumesUnderTheUsualName(pod) ==                           \* Faulty variant
  <<InjectorVolume>>
    \o (IF vaultConfig(pod).tlsSecret THEN <<"vault-tls">> ELSE <<>>)

getVolumes(pod) ==
  <<InjectorVolume>>
    \o (IF vaultConfig(pod).tlsSecret THEN <<TLSVolumeName(pod.volumes)>> ELSE <<>>)

CopyContainer ==
  [name |-> "copy-env-injector", image |-> "env-injector", pull |-> "IfNotPresent",
   command |-> <<"/bin/env-injector", "--self-copy">>, args |-> <<>>,
   items |-> <<>>, probes |-> <<>>, mounts |-> {InjectorVolume}]

-----------------------------------------------------------------------------
(* One container.                                                          *)

\* Some value that comes from here refers to the store.
Holds(item) ==
  CASE item.from = "value"     -> item.reference
    [] item.from = "envFrom"   -> sources[item.source] # {}
    [] item.from = "valueFrom" -> item.key \in sources[item.source]

\* The arguments of the injector: the command it replaces.
CommandLine(c, config) ==
  LET start == IF c.command # <<>> THEN c.command
               ELSE config.entrypoint \o (IF c.args = <<>> THEN config.cmd ELSE <<>>)
  IN  start \o c.args

UnderInjector(pod, c, config) ==
  [c EXCEPT
     !.command = <<Injector>>,
     !.args    = CommandLine(c, config),
     !.probes  = IF vaultConfig(pod).mutateProbes
                 THEN [p \in DOMAIN c.probes |-> <<Injector>> \o c.probes[p]]
                 ELSE c.probes,
     !.mounts  = c.mounts \cup Mounts(pod)]

-----------------------------------------------------------------------------
(* The image's configuration.                                              *)

CachedUnlessLatest(c) == c.image \notin Latest             \* Faulty variant

IsAllowedToCache(c) == c.pull # "Always" /\ c.image \notin Latest

imagePullSecrets(pod) ==
  IF pod.imagePullSecrets = <<>> /\ DefaultPullSecret # None
  THEN <<DefaultPullSecret>>
  ELSE pod.imagePullSecrets

AttemptsButTheFirst(pod) ==                                \* Faulty variant
  LET all == imagePullSecrets(pod)
      n   == Len(all)
  IN  <<all>> \o (IF n < 2 THEN <<>> ELSE [i \in 1..n-1 |-> <<all[n + 1 - i]>>])

\* All secrets together; then, where there are several, each alone from the
\* last to the first.
Attempts(pod) ==
  LET all == imagePullSecrets(pod)
      n   == Len(all)
  IN  <<all>> \o (IF n < 2 THEN <<>> ELSE [i \in 1..n |-> <<all[n + 1 - i]>>])

\* Several credentials for one registry may hide each other, so that only an
\* attempt with a single secret is sure to succeed.
MayServe(image, secrets) ==
  image \in Public \/ \E s \in ToSet(secrets) : image \in Opens[s]
MayDeny(image, secrets) ==
  image \notin Public /\ (MayServe(image, secrets) => Len(secrets) > 1)

-----------------------------------------------------------------------------
(* A review.                                                               *)

Idle ==
  [pc |-> "idle", pod |-> None, at |-> 1, item |-> 1, found |-> FALSE,
   mutated |-> FALSE, attempts |-> <<>>, config |-> None]

Current(w) == w.pod.containers[w.at]

AdvanceInPlace(w) ==                                       \* Faulty variant
  [w EXCEPT !.pc = "look", !.at = @ + 1, !.found = FALSE,
            !.attempts = <<>>, !.config = None]

Advance(w) ==
  [w EXCEPT !.pc = "look", !.at = @ + 1, !.item = 1, !.found = FALSE,
            !.attempts = <<>>, !.config = None]

Wrap(w, config) ==
  Advance([w EXCEPT
    !.pod.containers[w.at] = UnderInjector(w.pod, Current(w), config),
    !.mutated = TRUE])

Refuse(r, w, reason) ==
  /\ work' = [work EXCEPT ![r] = [w EXCEPT !.pc = "done"]]
  /\ verdict' = [verdict EXCEPT ![r] = IF @ = "pending" THEN reason ELSE @]

Admit(r, w) ==
  /\ work' = [work EXCEPT ![r] = [w EXCEPT !.pc = "done"]]
  /\ verdict' = [verdict EXCEPT ![r] = IF @ = "pending" THEN "admitted" ELSE @]

Fail(r) ==
  /\ faults < MaxFaults
  /\ faults' = faults + 1
  /\ since' = [since EXCEPT ![r].faulted = TRUE]

\* Users submit manifests, and pods that were admitted before.
Submitted ==
  Manifests \cup {work[q].pod : q \in {r \in Reviews : verdict[r] = "admitted"}}

Review(r, pod) ==
  LET w == [Idle EXCEPT !.pc = "look", !.pod = pod]
  IN  /\ work[r].pc = "idle"
      /\ asked' = [asked EXCEPT ![r] = pod]
      /\ since' = [since EXCEPT ![r] =
           [version |-> [i \in Images |-> Len(history[i])],
            steady |-> Sources, faulted |-> FALSE]]
      /\ IF Skip(pod) \/ (RoleParses(pod) /\ isPodAlreadyMutated(pod)) THEN Admit(r, w)
         ELSE IF ~RoleParses(pod) THEN Refuse(r, w, "bad role")
         ELSE work' = [work EXCEPT ![r] = w] /\ UNCHANGED verdict
      /\ UNCHANGED <<world, cache, bounds>>

LookingAtContainer(r) ==
  work[r].pc = "look" /\ work[r].at <= Len(work[r].pod.containers)

LastItemWins(w, item) == [w EXCEPT !.item = @ + 1, !.found = Holds(item)] \* Faulty variant

Looked(w, item) == [w EXCEPT !.item = @ + 1, !.found = @ \/ Holds(item)]

\* One value or source of the container, read live from the API server.
LookUp(r) ==
  LET w    == work[r]
      item == Current(w).items[w.item]
  IN  /\ LookingAtContainer(r)
      /\ w.item <= Len(Current(w).items)
      /\ work' = [work EXCEPT ![r] = Looked(w, item)]
      /\ UNCHANGED <<world, cache, verdict, asked, since, bounds>>

\* An error other than "not found": a source that envFrom marks optional is
\* passed over.
LookUpFails(r) ==
  LET w    == work[r]
      item == Current(w).items[w.item]
  IN  /\ LookingAtContainer(r)
      /\ w.item <= Len(Current(w).items)
      /\ item.from # "value"
      /\ Fail(r)
      /\ IF item.from = "envFrom" /\ item.optional
         THEN work' = [work EXCEPT ![r].item = @ + 1] /\ UNCHANGED verdict
         ELSE Refuse(r, w, "lookup failed")
      /\ UNCHANGED <<world, cache, asked, pushes, edits, timeouts>>

LookedUp(r) ==
  LookingAtContainer(r) /\ work[r].item > Len(Current(work[r]).items)

NeedsInjector(w) ==
  /\ w.found \/ vaultConfig(w.pod).envFromPath
  /\ Current(w).name \notin vaultConfig(w.pod).skipMutateContainers

Leave(r) ==
  /\ LookedUp(r)
  /\ ~NeedsInjector(work[r])
  /\ work' = [work EXCEPT ![r] = Advance(work[r])]
  /\ UNCHANGED <<world, cache, verdict, asked, since, bounds>>

Mutate(r) ==
  LET w == work[r]
      c == Current(w)
  IN  /\ LookedUp(r)
      /\ NeedsInjector(w)
      /\ c.command = <<>> => IsAllowedToCache(c) /\ cache[c.image] # None
      /\ work' = [work EXCEPT ![r] =
           Wrap(w, IF c.command # <<>> THEN None ELSE cache[c.image])]
      /\ UNCHANGED <<world, cache, verdict, asked, since, bounds>>

AskRegistry(r) ==
  LET w == work[r]
      c == Current(w)
  IN  /\ LookedUp(r)
      /\ NeedsInjector(w)
      /\ c.command = <<>>
      /\ IsAllowedToCache(c) => cache[c.image] = None
      /\ work' = [work EXCEPT ![r].pc = "fetch", ![r].attempts = Attempts(w.pod)]
      /\ UNCHANGED <<world, cache, verdict, asked, since, bounds>>

Served(r) ==
  LET w == work[r]
      i == Current(w).image
  IN  /\ w.pc = "fetch"
      /\ MayServe(i, Head(w.attempts))
      /\ work' = [work EXCEPT ![r].pc = "fetched", ![r].config = Last(history[i])]
      /\ UNCHANGED <<world, cache, verdict, asked, since, bounds>>

AttemptFails(r) ==
  LET w == work[r]
  IN  IF Len(w.attempts) > 1
      THEN work' = [work EXCEPT ![r].attempts = Tail(@)] /\ UNCHANGED verdict
      ELSE Refuse(r, w, "no image")

Denied(r) ==
  /\ work[r].pc = "fetch"
  /\ MayDeny(Current(work[r]).image, Head(work[r].attempts))
  /\ AttemptFails(r)
  /\ UNCHANGED <<world, cache, asked, since, bounds>>

FetchFails(r) ==
  /\ work[r].pc = "fetch"
  /\ Fail(r)
  /\ AttemptFails(r)
  /\ UNCHANGED <<world, cache, asked, pushes, edits, timeouts>>

\* Nothing guards the cache between the miss and the entry.
Fetched(r) ==
  LET w == work[r]
      c == Current(w)
  IN  /\ w.pc = "fetched"
      /\ cache' = IF IsAllowedToCache(c)
                  THEN [cache EXCEPT ![c.image] = w.config] ELSE cache
      /\ work' = [work EXCEPT ![r] = Wrap(w, w.config)]
      /\ UNCHANGED <<world, verdict, asked, since, bounds>>

Complete(w) ==
  IF w.mutated
  THEN [w EXCEPT !.pod.containers = <<CopyContainer>> \o @,
                 !.pod.volumes = @ \o getVolumes(w.pod)]
  ELSE w

Finish(r) ==
  /\ work[r].pc = "look"
  /\ work[r].at > Len(work[r].pod.containers)
  /\ Admit(r, Complete(work[r]))
  /\ UNCHANGED <<world, cache, asked, since, bounds>>

-----------------------------------------------------------------------------
(* The world around.                                                       *)

\* The API server refuses the pod (failurePolicy Fail); the handler goes on.
TimeOut(r) ==
  /\ timeouts < MaxTimeouts
  /\ work[r].pc \notin {"idle", "done"}
  /\ verdict[r] = "pending"
  /\ verdict' = [verdict EXCEPT ![r] = "timed out"]
  /\ timeouts' = timeouts + 1
  /\ UNCHANGED <<world, cache, work, asked, since, pushes, edits, faults>>

Push(i, v) ==
  /\ pushes < MaxPushes
  /\ v # Last(history[i])
  /\ history' = [history EXCEPT ![i] = Append(@, v)]
  /\ pushes' = pushes + 1
  /\ UNCHANGED <<sources, cache, work, verdict, asked, since, edits, faults, timeouts>>

Edit(s, keys) ==
  /\ edits < MaxEdits
  /\ sources[s] # keys
  /\ sources' = [sources EXCEPT ![s] = keys]
  /\ since' = [r \in Reviews |-> [since[r] EXCEPT !.steady = @ \ {s}]]
  /\ edits' = edits + 1
  /\ UNCHANGED <<history, cache, work, verdict, asked, pushes, faults, timeouts>>

Init ==
  /\ history \in [Images -> {<<v>> : v \in Versions}]
  /\ sources \in [Sources -> SUBSET Keys]
  /\ cache = [i \in Images |-> None]
  /\ work = [r \in Reviews |-> Idle]
  /\ verdict = [r \in Reviews |-> "pending"]
  /\ asked = [r \in Reviews |-> None]
  /\ since = [r \in Reviews |->
       [version |-> [i \in Images |-> 1], steady |-> {}, faulted |-> FALSE]]
  /\ pushes = 0 /\ edits = 0 /\ faults = 0 /\ timeouts = 0

Handle(r) ==
  \/ LookUp(r) \/ LookUpFails(r) \/ Leave(r) \/ Mutate(r) \/ AskRegistry(r)
  \/ Served(r) \/ Denied(r) \/ FetchFails(r) \/ Fetched(r) \/ Finish(r)

Next ==
  \/ \E r \in Reviews : \E pod \in Submitted : Review(r, pod)
  \/ \E r \in Reviews : Handle(r) \/ TimeOut(r)
  \/ \E i \in Images, v \in Versions : Push(i, v)
  \/ \E s \in Sources, keys \in SUBSET Keys : Edit(s, keys)

Spec == Init /\ [][Next]_vars

-----------------------------------------------------------------------------
(* Properties.                                                             *)

TypeOK ==
  /\ history \in [Images -> Seq(Versions)]
  /\ sources \in [Sources -> SUBSET Keys]
  /\ cache \in [Images -> Versions \cup {None}]
  /\ \A r \in Reviews :
       /\ work[r].pc \in {"idle", "look", "fetch", "fetched", "done"}
       /\ work[r].pc \in {"look", "fetch", "fetched"} =>
            /\ work[r].at \in 1..Len(work[r].pod.containers) + 1
            /\ LookingAtContainer(r) =>
                 work[r].item \in 1..Len(Current(work[r]).items) + 1
       /\ work[r].config \in Versions \cup {None}
       /\ verdict[r] \in {"pending", "admitted", "bad role", "lookup failed",
                          "no image", "timed out"}
  /\ pushes \in 0..MaxPushes /\ edits \in 0..MaxEdits
  /\ faults \in 0..MaxFaults /\ timeouts \in 0..MaxTimeouts

Admitted == {r \in Reviews : verdict[r] = "admitted"}

\* The reviews of a fresh pod and, of each, the containers before and after.
FreshlyAdmitted == {r \in Admitted : ~Mutated(asked[r])}
Before(r, i) == asked[r].containers[i]
After(r, i) ==
  LET new == work[r].pod.containers
  IN  new[i + Len(new) - Len(asked[r].containers)]

\* What Kubernetes runs for a container whose image is configured so.
Process(c, config) ==
  CASE c.command # <<>>                   -> c.command \o c.args
    [] c.command = <<>> /\ c.args # <<>>  -> config.entrypoint \o c.args
    [] c.command = <<>> /\ c.args = <<>>  -> config.entrypoint \o config.cmd

\* The oldest configuration of its image that a container of the review may
\* start from: one it has had during the review, if nodes pull the image anew
\* for each start or its tag is "latest" (the cache is never asked for those).
Oldest(r, c) ==
  IF c.pull = "Always" \/ c.image \in Latest THEN since[r].version[c.image] ELSE 1

\* A container runs under the injector the very process it would have run
\* without it, for a configuration its image has had, and no older than that.
RunsTheSame ==
  \A r \in FreshlyAdmitted : \A i \in DOMAIN asked[r].containers :
    LET c == Before(r, i)
    IN  Runs(After(r, i)) =>
          \E k \in Oldest(r, c)..Len(history[c.image]) :
            After(r, i).args = Process(c, history[c.image][k])

\* A reference to the store that was there during the whole review, and that no
\* failed request for an optional source has hidden.
Steady(r, item) ==
  /\ Holds(item)
  /\ item.from # "value" => item.source \in since[r].steady
  /\ item.from = "envFrom" /\ item.optional => ~since[r].faulted

\* Such a reference reaches the application resolved: its container runs under
\* the injector, unless the user excepted it.
NoBareReference ==
  \A r \in FreshlyAdmitted : \A i \in DOMAIN asked[r].containers :
    LET c == Before(r, i)
    IN  /\ ~Skip(asked[r])
        /\ c.name \notin vaultConfig(asked[r]).skipMutateContainers
        /\ \E k \in DOMAIN c.items : Steady(r, c.items[k])
        => Runs(After(r, i))

\* A pod is admitted untouched or complete: the binary is copied before any
\* container runs it, into a volume each of them mounts, every mount has its
\* volume and no two volumes share a name.
CompleteOrUntouched ==
  \A r \in FreshlyAdmitted :
    LET pod == work[r].pod
    IN  \/ pod = asked[r]
        \/ /\ Mutated(pod)
           /\ pod.containers = <<CopyContainer>> \o Tail(pod.containers)
           /\ Len(pod.containers) = Len(asked[r].containers) + 1
           /\ IsInjective(pod.volumes)
           /\ \A i \in DOMAIN pod.containers :
                /\ pod.containers[i].mounts \subseteq ToSet(pod.volumes)
                /\ Runs(pod.containers[i]) => InjectorVolume \in pod.containers[i].mounts

\* A pod that was mutated and is submitted again comes back as it was: no
\* container or probe runs the injector under the injector.
MutatedOnce ==
  \A r \in Admitted : Mutated(asked[r]) => work[r].pod = asked[r]

\* A pod is refused for its image only if none of its pull secrets alone gives
\* access to it, or a request failed.
TriesEverySecret ==
  \A r \in Reviews : verdict[r] = "no image" /\ ~since[r].faulted =>
    LET image == Current(work[r]).image
    IN  /\ image \notin Public
        /\ \A s \in ToSet(asked[r].imagePullSecrets) : image \notin Opens[s]
=============================================================================
