------------------------- MODULE PodMutationProofs -------------------------
(***************************************************************************)
(* Theorems about PodMutation for any manifests, images, sources, number   *)
(* of reviews and bounds.  All of them rest on RInv, which says of one     *)
(* review what its handler has made of the pod so far: the containers      *)
(* behind the present one are as they were submitted or run under the      *)
(* injector, those ahead are untouched, and the rest of the pod changes    *)
(* only when it is completed.  No other review is mentioned in it, so the  *)
(* steps of the others keep it.                                            *)
(***************************************************************************)
EXTENDS PodMutation, SequenceTheorems, TLAPS

Phases   == {"idle", "look", "fetch", "fetched", "done"}
Verdicts == {"pending", "admitted", "bad role", "lookup failed", "no image", "timed out"}

Works ==
  [pc : Phases, pod : Pods \cup {None}, at : Nat \ {0}, item : Nat \ {0},
   found : BOOLEAN, mutated : BOOLEAN, attempts : Seq(Seq(PullSecrets)),
   config : Versions \cup {None}]

Notes == [version : [Images -> Nat \ {0}], steady : SUBSET Sources, faulted : BOOLEAN]

Types ==
  /\ history \in [Images -> Seq(Versions)] /\ \A i \in Images : history[i] # <<>>
  /\ sources \in [Sources -> SUBSET Keys]
  /\ cache \in [Images -> Versions \cup {None}]
  /\ work \in [Reviews -> Works]
  /\ verdict \in [Reviews -> Verdicts]
  /\ asked \in [Reviews -> Pods \cup {None}]
  /\ since \in [Reviews -> Notes]
  /\ pushes \in 0..MaxPushes /\ edits \in 0..MaxEdits
  /\ faults \in 0..MaxFaults /\ timeouts \in 0..MaxTimeouts

Working(w) == w.pc \in {"look", "fetch", "fetched"}

\* Container new is what the webhook makes of old, one of pod a.
Touched(new, old, a) == Runs(new) /\ new.mounts = old.mounts \cup Mounts(a)

SameOrTouched(new, old, a) == new = old \/ Touched(new, old, a)

\* pod is the pod a with some of its containers touched.
Partly(pod, a) ==
  /\ pod.annotations = a.annotations /\ pod.volumes = a.volumes
  /\ pod.imagePullSecrets = a.imagePullSecrets
  /\ Len(pod.containers) = Len(a.containers)
  /\ \A i \in DOMAIN a.containers : SameOrTouched(pod.containers[i], a.containers[i], a)

\* w is the handler's work on pod a.
InWork(w, a) ==
  /\ Clean(a) /\ Partly(w.pod, a)
  /\ \A i \in DOMAIN a.containers : i >= w.at => w.pod.containers[i] = a.containers[i]
  /\ w.at <= Len(a.containers) + 1
  /\ w.pc # "look" => w.at <= Len(a.containers)
  /\ w.at <= Len(a.containers) => w.item <= Len(a.containers[w.at].items) + 1
  /\ w.pc = "fetched" => w.config # None
  /\ IF w.mutated THEN Mutated(w.pod) ELSE w.pod = a

\* pod is what becomes of a.
Completed(pod, a) ==
  /\ Clean(a) /\ Mutated(pod)
  /\ pod.volumes = a.volumes \o getVolumes(a)
  /\ pod.containers = <<CopyContainer>> \o Tail(pod.containers)
  /\ Len(pod.containers) = Len(a.containers) + 1
  /\ \A i \in DOMAIN a.containers : SameOrTouched(pod.containers[i + 1], a.containers[i], a)

Acceptable(pod) == pod \in Pods /\ (Clean(pod) \/ (isPodAlreadyMutated(pod) /\ Mutated(pod)))

\* A review with its work w, its pod a and its verdict v.
RInv(w, a, v) ==
  /\ w.pc = "idle" => v = "pending"
  /\ w.pc # "idle" => w.pod \in Pods /\ Acceptable(a)
  /\ Working(w) => InWork(w, a) /\ v \in {"pending", "timed out"}
  /\ v = "admitted" => w.pc = "done" /\ (w.pod = a \/ Completed(w.pod, a))

IInv == Types /\ \A r \in Reviews : RInv(work[r], asked[r], verdict[r])

-----------------------------------------------------------------------------
(* What the helpers of the webhook make. *)

LEMMA ContainsIsIn ==
    ASSUME NEW S, NEW s \in Seq(S), NEW e
    PROVE  Contains(s, e) <=> e \in ToSet(s)
  BY DEF Contains, ToSet

LEMMA MemberOfTail ==
    ASSUME NEW S, NEW s \in Seq(S), NEW t \in Seq(S), NEW e \in ToSet(t)
    PROVE  s \o t \in Seq(S) /\ e \in ToSet(s \o t)
  <1>1. PICK i \in DOMAIN t : e = t[i]
    BY DEF ToSet
  <1>2. s \o t \in Seq(S) /\ Len(s) + i \in DOMAIN (s \o t) /\ (s \o t)[Len(s) + i] = e
    BY <1>1
  <1>3. QED
    BY <1>2 DEF ToSet

LEMMA MemberOfHead ==
    ASSUME NEW S, NEW s \in Seq(S), NEW t \in Seq(S), NEW e \in ToSet(s)
    PROVE  e \in ToSet(s \o t)
  <1>1. PICK i \in DOMAIN s : e = s[i]
    BY DEF ToSet
  <1>2. s \o t \in Seq(S) /\ i \in DOMAIN (s \o t) /\ (s \o t)[i] = e
    BY <1>1
  <1>3. QED
    BY <1>2 DEF ToSet

LEMMA VolumesFit ==
    ASSUME NEW a \in Pods
    PROVE  /\ getVolumes(a) \in Seq(Words)
           /\ Mounts(a) \subseteq ToSet(getVolumes(a))
           /\ InjectorVolume \in Mounts(a)
           /\ Mounts(a) \subseteq Words
  <1>1. TLSVolumeName(a.volumes) \in Words /\ InjectorVolume \in Words
    BY WordsAssumption DEF WordsAssumption, TLSVolumeName
  <1> DEFINE t == TLSVolumeName(a.volumes)
             v == <<InjectorVolume>> \o <<t>>
             u == <<InjectorVolume>> \o <<>>
  <1> HIDE DEF t
  <1>2. /\ v \in Seq(Words) /\ DOMAIN v = 1..2 /\ v[1] = InjectorVolume /\ v[2] = t
        /\ u \in Seq(Words) /\ DOMAIN u = 1..1 /\ u[1] = InjectorVolume
    BY <1>1 DEF t
  <1> HIDE DEF v, u
  <1>3. t \in ToSet(v) /\ InjectorVolume \in ToSet(v) /\ InjectorVolume \in ToSet(u)
    BY <1>2 DEF ToSet
  <1>4. getVolumes(a) = IF vaultConfig(a).tlsSecret THEN v ELSE u
    BY DEF getVolumes, t, u, v
  <1>5. QED
    BY <1>1, <1>2, <1>3, <1>4 DEF Mounts, t

LEMMA VolumesDiffer ==
    ASSUME NEW a \in Pods, Clean(a)
    PROVE  IsInjective(a.volumes \o getVolumes(a))
  <1>1. a.volumes \in Seq(Words)
    BY DEF Pods
  <1>2. /\ ~Contains(a.volumes, InjectorVolume) /\ ~Contains(a.volumes, "stronghold-env-tls")
        /\ IsInjective(a.volumes)
    BY DEF Clean, isPodAlreadyMutated
  <1>3. ~Contains(a.volumes, TLSVolumeName(a.volumes)) /\ TLSVolumeName(a.volumes) # InjectorVolume
    BY <1>2 DEF TLSVolumeName, InjectorVolume
  <1> DEFINE t == TLSVolumeName(a.volumes)
             v == a.volumes
  <1>4. t \in Words
    BY WordsAssumption DEF WordsAssumption, TLSVolumeName
  <1> HIDE DEF t, v
  <1>5. IsInjective(v \o <<InjectorVolume>>)
    BY <1>1, <1>2 DEF v, IsInjective, Contains, InjectorVolume
  <1>6. IsInjective(v \o (<<InjectorVolume>> \o <<t>>))
    BY <1>1, <1>2, <1>3, <1>4 DEF v, t, IsInjective, Contains, InjectorVolume
  <1>7. <<InjectorVolume>> \o <<>> = <<InjectorVolume>>
    OBVIOUS
  <1>8. getVolumes(a) \in {<<InjectorVolume>>, <<InjectorVolume>> \o <<t>>}
    BY <1>7 DEF getVolumes, t
  <1>9. QED
    BY <1>5, <1>6, <1>8 DEF v

LEMMA UnderInjectorIs ==
    ASSUME NEW pod \in Pods, NEW c \in Containers, NEW config \in Versions \cup {None},
           config # None \/ c.command # <<>>
    PROVE  /\ UnderInjector(pod, c, config) \in Containers
           /\ UnderInjector(pod, c, config).args = CommandLine(c, config)
           /\ UnderInjector(pod, c, config).name = c.name
           /\ UnderInjector(pod, c, config).image = c.image
           /\ UnderInjector(pod, c, config).mounts = c.mounts \cup Mounts(pod)
           /\ Runs(UnderInjector(pod, c, config))
  <1> DEFINE args   == CommandLine(c, config)
             probes == IF vaultConfig(pod).mutateProbes
                       THEN [p \in DOMAIN c.probes |-> <<Injector>> \o c.probes[p]]
                       ELSE c.probes
             mounts == c.mounts \cup Mounts(pod)
             command == <<Injector>>
  <1>1. args \in Seq(Words)
    <2>1. c.command \in Seq(Words) /\ c.args \in Seq(Words)
      BY DEF Containers
    <2>2. CASE c.command # <<>>
      BY <2>1, <2>2 DEF CommandLine
    <2>3. CASE c.command = <<>>
      <3>1. config.entrypoint \in Seq(Words) /\ config.cmd \in Seq(Words)
        BY <2>3, ImagesAssumption DEF ImagesAssumption
      <3>2. QED
        BY <2>1, <2>3, <3>1 DEF CommandLine
    <2>4. QED
      BY <2>2, <2>3
  <1>2. probes \in Seq(Seq(Words))
    <2>1. c.probes \in Seq(Seq(Words))
      BY DEF Containers
    <2>2. \A p \in DOMAIN c.probes : <<Injector>> \o c.probes[p] \in Seq(Words)
      BY <2>1, WordsAssumption DEF WordsAssumption
    <2>3. [p \in DOMAIN c.probes |-> <<Injector>> \o c.probes[p]] \in Seq(Seq(Words))
      <3> DEFINE n == Len(c.probes)
                 f == [p \in 1..n |-> <<Injector>> \o c.probes[p]]
      <3>1. n \in Nat /\ DOMAIN c.probes = 1..n
        BY <2>1
      <3>2. f \in [1..n -> Seq(Words)]
        BY <2>2, <3>1
      <3>3. f \in Seq(Seq(Words))
        <4> HIDE DEF f, n
        <4>1. QED
          BY <3>1, <3>2, SeqDef
      <3>4. QED
        BY <3>1, <3>3
    <2>4. QED
      BY <2>1, <2>3
  <1>3. mounts \in SUBSET Words
    BY VolumesFit DEF Containers
  <1>4. command \in Seq(Words)
    BY WordsAssumption DEF WordsAssumption
  <1>5. UnderInjector(pod, c, config) =
          [c EXCEPT !.command = command, !.args = args, !.probes = probes, !.mounts = mounts]
    BY DEF UnderInjector
  <1>6. command = <<Injector>>
    OBVIOUS
  <1> HIDE DEF args, probes, mounts, command
  <1>7. UnderInjector(pod, c, config) =
          [name |-> c.name, image |-> c.image, pull |-> c.pull, command |-> command,
           args |-> args, items |-> c.items, probes |-> probes, mounts |-> mounts]
    BY <1>5 DEF Containers
  <1>8. QED
    BY <1>1, <1>2, <1>3, <1>4, <1>6, <1>7 DEF Containers, Runs, args, mounts

-----------------------------------------------------------------------------
(* What the handler makes of its work. *)

LEMMA AdvanceIs ==
    ASSUME NEW w \in Works
    PROVE  /\ Advance(w) \in Works
           /\ Advance(w) = [pc |-> "look", pod |-> w.pod, at |-> w.at + 1, item |-> 1, found |-> FALSE,
                            mutated |-> w.mutated, attempts |-> <<>>, config |-> None]
  <1> DEFINE at == w.at + 1
  <1>1. w.at \in Nat /\ at \in Nat \ {0}
    BY DEF Works
  <1>2. Advance(w) = [w EXCEPT !.pc = "look", !.at = at, !.item = 1, !.found = FALSE,
                               !.attempts = <<>>, !.config = None]
    BY DEF Advance
  <1> HIDE DEF at
  <1>3. Advance(w) = [pc |-> "look", pod |-> w.pod, at |-> at, item |-> 1, found |-> FALSE,
                      mutated |-> w.mutated, attempts |-> <<>>, config |-> None]
    BY <1>2 DEF Works
  <1>4. w.pod \in Pods \cup {None} /\ w.mutated \in BOOLEAN
    BY DEF Works
  <1>5. Advance(w) \in Works
    BY <1>1, <1>3, <1>4 DEF Works, Phases
  <1>6. QED
    BY <1>3, <1>5 DEF at

\* The pod w has in hand, its present container under the injector.
PodWith(pod, at, c) == [pod EXCEPT !.containers = [pod.containers EXCEPT ![at] = c]]

LEMMA PodWithIs ==
    ASSUME NEW pod \in Pods, NEW at \in DOMAIN pod.containers, NEW c \in Containers
    PROVE  /\ PodWith(pod, at, c) \in Pods
           /\ PodWith(pod, at, c).annotations = pod.annotations
           /\ PodWith(pod, at, c).volumes = pod.volumes
           /\ PodWith(pod, at, c).imagePullSecrets = pod.imagePullSecrets
           /\ PodWith(pod, at, c).containers = [pod.containers EXCEPT ![at] = c]
           /\ Len(PodWith(pod, at, c).containers) = Len(pod.containers)
  <1> DEFINE cs == [pod.containers EXCEPT ![at] = c]
  <1>1. pod.containers \in Seq(Containers)
    BY DEF Pods
  <1>2. cs \in Seq(Containers) /\ Len(cs) = Len(pod.containers)
    BY <1>1
  <1>3. PodWith(pod, at, c) = [pod EXCEPT !.containers = cs]
    BY DEF PodWith
  <1> HIDE DEF cs
  <1>4. QED
    BY <1>2, <1>3 DEF Pods, cs

LEMMA WrapIs ==
    ASSUME NEW w \in Works, w.pod \in Pods, w.at \in DOMAIN w.pod.containers,
           NEW config \in Versions \cup {None}, config # None \/ Current(w).command # <<>>
    PROVE  LET pod == PodWith(w.pod, w.at, UnderInjector(w.pod, Current(w), config))
           IN  /\ pod \in Pods
               /\ Wrap(w, config) \in Works
               /\ Wrap(w, config) = [pc |-> "look", pod |-> pod, at |-> w.at + 1, item |-> 1, found |-> FALSE,
                                     mutated |-> TRUE, attempts |-> <<>>, config |-> None]
  <1> DEFINE c  == UnderInjector(w.pod, Current(w), config)
             pod == PodWith(w.pod, w.at, c)
             v  == [w EXCEPT !.pod = pod, !.mutated = TRUE]
  <1>1. w.pod.containers \in Seq(Containers) /\ Current(w) \in Containers
    BY DEF Pods, Current
  <1>2. c \in Containers
    BY <1>1, UnderInjectorIs
  <1>3. Wrap(w, config) = Advance(v)
    <2>1. [w EXCEPT !.pod.containers[w.at] = c, !.mutated = TRUE] = v
      <3> HIDE DEF c
      <3>1. QED
        BY DEF PodWith, Works, Pods
    <2>2. QED
      BY <2>1 DEF Wrap
  <1> HIDE DEF c
  <1>4. pod \in Pods
    BY <1>2, PodWithIs
  <1> HIDE DEF pod
  <1>5. v \in Works /\ v.pod = pod /\ v.at = w.at /\ v.mutated = TRUE
    BY <1>4 DEF Works
  <1> HIDE DEF v
  <1>6. QED
    BY <1>3, <1>4, <1>5, AdvanceIs DEF pod, c

\* A step within a container.
LEMMA SameWork ==
    ASSUME NEW w, NEW v, NEW a, InWork(w, a), v.pod = w.pod, v.at = w.at, v.mutated = w.mutated,
           v.at <= Len(a.containers), v.item <= Len(a.containers[w.at].items) + 1,
           v.pc = "fetched" => v.config # None
    PROVE  InWork(v, a)
  BY DEF InWork

LEMMA ItemsAre ==
    ASSUME NEW a \in Pods
    PROVE  \A i \in DOMAIN a.containers : a.containers[i].items \in Seq(Items)
  <1>1. \A c \in Containers : c.items \in Seq(Items)
    BY DEF Containers
  <1>2. a.containers \in Seq(Containers)
    BY DEF Pods
  <1>3. QED
    BY <1>1, <1>2

\* The next container, with the present one left as it is.
LEMMA AdvanceKeeps ==
    ASSUME NEW w \in Works, NEW a \in Pods, InWork(w, a), w.at <= Len(a.containers)
    PROVE  InWork(Advance(w), a)
  <1> DEFINE v == Advance(w)
  <1>1. v.pc = "look" /\ v.pod = w.pod /\ v.at = w.at + 1 /\ v.item = 1 /\ v.mutated = w.mutated
    BY AdvanceIs
  <1>2. w.at \in Nat /\ a.containers \in Seq(Containers)
    BY DEF Works, Pods
  <1> HIDE DEF v
  <1>3. \A i \in DOMAIN a.containers : i >= v.at => v.pod.containers[i] = a.containers[i]
    BY <1>1, <1>2 DEF InWork
  <1>4. v.at <= Len(a.containers) => v.item <= Len(a.containers[v.at].items) + 1
    BY <1>1, <1>2, ItemsAre
  <1>5. InWork(v, a)
    BY <1>1, <1>2, <1>3, <1>4 DEF InWork
  <1>6. QED
    BY <1>5 DEF v

\* The present container, untouched so far.
LEMMA CurrentIs ==
    ASSUME NEW w \in Works, NEW a \in Pods, w.pod \in Pods, InWork(w, a), w.at <= Len(a.containers)
    PROVE  /\ w.at \in DOMAIN a.containers /\ w.at \in DOMAIN w.pod.containers
           /\ Current(w) = a.containers[w.at] /\ Current(w) \in Containers /\ ~Runs(Current(w))
           /\ Current(w).image \in Images
  <1>1. w.at \in Nat \ {0} /\ a.containers \in Seq(Containers) /\ w.pod.containers \in Seq(Containers)
    BY DEF Works, Pods
  <1>2. Len(w.pod.containers) = Len(a.containers)
    BY DEF InWork, Partly
  <1>3. w.at \in DOMAIN a.containers /\ w.at \in DOMAIN w.pod.containers
    BY <1>1, <1>2
  <1>4. QED
    BY <1>1, <1>3 DEF InWork, Current, Clean, Mutated

LEMMA WrapKeeps ==
    ASSUME NEW w \in Works, NEW a \in Pods, w.pod \in Pods, InWork(w, a), w.at <= Len(a.containers),
           NEW config \in Versions \cup {None}, config # None \/ Current(w).command # <<>>
    PROVE  InWork(Wrap(w, config), a)
  <1> DEFINE c   == UnderInjector(w.pod, Current(w), config)
             pod == PodWith(w.pod, w.at, c)
             v   == Wrap(w, config)
  <1>1. /\ w.at \in DOMAIN a.containers /\ w.at \in DOMAIN w.pod.containers
        /\ Current(w) = a.containers[w.at] /\ Current(w) \in Containers
    BY CurrentIs
  <1>2. v.pc = "look" /\ v.pod = pod /\ v.at = w.at + 1 /\ v.item = 1 /\ v.mutated = TRUE
    BY <1>1, WrapIs
  <1>3. c \in Containers /\ Runs(c) /\ c.mounts = a.containers[w.at].mounts \cup Mounts(w.pod)
    BY <1>1, UnderInjectorIs
  <1>4. Mounts(w.pod) = Mounts(a)
    BY DEF InWork, Partly, Mounts, vaultConfig
  <1> HIDE DEF c, v
  <1>5. /\ pod.annotations = w.pod.annotations /\ pod.volumes = w.pod.volumes
        /\ pod.imagePullSecrets = w.pod.imagePullSecrets
        /\ pod.containers = [w.pod.containers EXCEPT ![w.at] = c]
        /\ Len(pod.containers) = Len(w.pod.containers)
    BY <1>1, <1>3, PodWithIs
  <1> HIDE DEF pod
  <1>6. w.at \in Nat /\ a.containers \in Seq(Containers) /\ w.pod.containers \in Seq(Containers)
    BY DEF Works, Pods
  <1>7. /\ \A i \in DOMAIN a.containers : i # w.at => pod.containers[i] = w.pod.containers[i]
        /\ pod.containers[w.at] = c
    BY <1>1, <1>5, <1>6 DEF InWork, Partly
  <1>8. Partly(pod, a)
    <2>1. Touched(c, a.containers[w.at], a)
      BY <1>3, <1>4 DEF Touched
    <2>2. QED
      BY <1>5, <1>7, <2>1 DEF InWork, Partly, SameOrTouched
  <1>9. \A i \in DOMAIN a.containers : i >= v.at => pod.containers[i] = a.containers[i]
    BY <1>2, <1>6, <1>7 DEF InWork
  <1>10. Mutated(pod)
    BY <1>1, <1>3, <1>5, <1>7 DEF Mutated
  <1>11. v.at <= Len(a.containers) => v.item <= Len(a.containers[v.at].items) + 1
    BY <1>2, <1>6, ItemsAre
  <1>12. InWork(v, a)
    BY <1>2, <1>6, <1>8, <1>9, <1>10, <1>11 DEF InWork
  <1>13. QED
    BY <1>12 DEF v

LEMMA CompleteIs ==
    ASSUME NEW w \in Works, NEW a \in Pods, w.pod \in Pods, InWork(w, a)
    PROVE  /\ Complete(w) \in Works /\ Complete(w).pod \in Pods
           /\ Complete(w).pod = a \/ Completed(Complete(w).pod, a)
  <1>1. CASE ~w.mutated
    BY <1>1 DEF Complete, InWork
  <1>2. CASE w.mutated
    <2> DEFINE cs  == <<CopyContainer>> \o w.pod.containers
               vs  == w.pod.volumes \o getVolumes(w.pod)
               pod == [w.pod EXCEPT !.containers = cs, !.volumes = vs]
    <2>1. Complete(w) = [w EXCEPT !.pod = pod]
      BY <1>2 DEF Complete, Works, Pods
    <2>2. w.pod.containers \in Seq(Containers) /\ w.pod.volumes \in Seq(Words)
      BY DEF Pods
    <2>3. CopyContainer \in Containers
      BY WordsAssumption DEF WordsAssumption, CopyContainer, Containers
    <2>4. cs \in Seq(Containers) /\ vs \in Seq(Words)
      BY <2>2, <2>3, VolumesFit
    <2>5. /\ Len(cs) = Len(w.pod.containers) + 1 /\ cs = <<CopyContainer>> \o Tail(cs)
          /\ \A i \in DOMAIN w.pod.containers : cs[i + 1] = w.pod.containers[i] /\ i + 1 \in DOMAIN cs
      BY <2>2, <2>3
    <2>6. vs = a.volumes \o getVolumes(a)
      BY DEF InWork, Partly, getVolumes, vaultConfig
    <2> HIDE DEF cs, vs
    <2>7. pod \in Pods /\ pod.containers = cs /\ pod.volumes = vs
      BY <2>4 DEF Pods
    <2> HIDE DEF pod
    <2>8. Complete(w) \in Works /\ Complete(w).pod = pod
      BY <2>1, <2>7 DEF Works
    <2>9. DOMAIN w.pod.containers = DOMAIN a.containers
      BY <2>2 DEF InWork, Partly, Pods
    <2>10. Mutated(pod)
      <3>1. PICK i \in DOMAIN w.pod.containers : Runs(w.pod.containers[i])
        BY <1>2 DEF InWork, Mutated
      <3>2. QED
        BY <2>5, <2>7, <3>1 DEF Mutated
    <2>11. Completed(pod, a)
      BY <2>5, <2>6, <2>7, <2>9, <2>10 DEF Completed, InWork, Partly
    <2>12. QED
      BY <2>7, <2>8, <2>11
  <1>3. QED
    BY <1>1, <1>2

-----------------------------------------------------------------------------
(* The invariant. *)

LEMMA InitInv == Init => IInv
  <1> SUFFICES ASSUME Init PROVE IInv
    OBVIOUS
  <1>1. Idle \in Works
    BY DEF Idle, Works, Phases
  <1>2. \A r \in Reviews : work[r] = Idle /\ verdict[r] = "pending" /\ asked[r] = None
    BY DEF Init
  <1>3. \A r \in Reviews : RInv(work[r], asked[r], verdict[r])
    <2>1. Idle.pc = "idle"
      BY DEF Idle
    <2>2. QED
      BY <1>2, <2>1 DEF RInv, Working
  <1>4. history \in [Images -> Seq(Versions)] /\ \A i \in Images : history[i] # <<>>
    <2>1. history \in [Images -> {<<v>> : v \in Versions}]
      BY DEF Init
    <2>2. \A v \in Versions : <<v>> \in Seq(Versions) /\ <<v>> # <<>>
      OBVIOUS
    <2>3. QED
      BY <2>1, <2>2
  <1>5. since \in [Reviews -> Notes]
    BY DEF Init, Notes
  <1>6. /\ work \in [Reviews -> Works] /\ verdict \in [Reviews -> Verdicts]
        /\ asked \in [Reviews -> Pods \cup {None}]
    BY <1>1 DEF Init, Verdicts
  <1>7. /\ sources \in [Sources -> SUBSET Keys] /\ cache \in [Images -> Versions \cup {None}]
        /\ pushes \in 0..MaxPushes /\ edits \in 0..MaxEdits
        /\ faults \in 0..MaxFaults /\ timeouts \in 0..MaxTimeouts
    BY BoundsAssumption DEF BoundsAssumption, Init
  <1>8. QED
    BY <1>3, <1>4, <1>5, <1>6, <1>7 DEF IInv, Types

\* One review makes a step; the rest of the state keeps its types.
LEMMA ReviewSteps ==
    ASSUME IInv, NEW r \in Reviews, NEW w \in Works, NEW v \in Verdicts, NEW a \in Pods \cup {None},
           work' = [work EXCEPT ![r] = w], verdict' = [verdict EXCEPT ![r] = v],
           asked' = [asked EXCEPT ![r] = a], RInv(w, a, v),
           UNCHANGED <<world, pushes, edits, timeouts>>,
           cache' \in [Images -> Versions \cup {None}], since' \in [Reviews -> Notes],
           faults' \in 0..MaxFaults
    PROVE  IInv'
  <1>1. Types'
    BY DEF IInv, Types, world
  <1>2. \A q \in Reviews : RInv(work'[q], asked'[q], verdict'[q])
    BY DEF IInv, Types
  <1>3. QED
    BY <1>1, <1>2 DEF IInv, RInv, InWork, Completed

-----------------------------------------------------------------------------
(* The steps. *)

\* A review under way.
LEMMA UnderWay ==
    ASSUME IInv, NEW r \in Reviews, Working(work[r])
    PROVE  /\ work[r] \in Works /\ work[r].pod \in Pods /\ asked[r] \in Pods /\ Acceptable(asked[r])
           /\ InWork(work[r], asked[r])
           /\ Len(work[r].pod.containers) = Len(asked[r].containers)
           /\ verdict[r] \in {"pending", "timed out"}
  BY DEF IInv, Types, RInv, Acceptable, Working, InWork, Partly

\* It stays under way.
LEMMA StaysUnderWay ==
    ASSUME IInv, NEW r \in Reviews, Working(work[r]), NEW w \in Works, w.pod \in Pods, Working(w),
           InWork(w, asked[r]), work' = [work EXCEPT ![r] = w],
           UNCHANGED <<world, verdict, asked, pushes, edits, timeouts>>,
           cache' \in [Images -> Versions \cup {None}], since' \in [Reviews -> Notes],
           faults' \in 0..MaxFaults
    PROVE  IInv'
  <1>1. RInv(w, asked[r], verdict[r])
    BY UnderWay DEF RInv, Working
  <1>2. /\ asked[r] \in Pods \cup {None} /\ verdict[r] \in Verdicts
        /\ asked' = [asked EXCEPT ![r] = asked[r]] /\ verdict' = [verdict EXCEPT ![r] = verdict[r]]
    BY DEF IInv, Types
  <1>3. QED
    BY <1>1, <1>2, ReviewSteps

\* It ends, with the pod refused or admitted.
LEMMA Refused ==
    ASSUME IInv, NEW r \in Reviews, NEW w \in Works, w.pod \in Pods, NEW a \in Pods, Acceptable(a),
           verdict[r] \in {"pending", "timed out"},
           NEW reason \in {"bad role", "lookup failed", "no image"}, Refuse(r, w, reason),
           asked' = [asked EXCEPT ![r] = a], UNCHANGED <<world, cache, pushes, edits, timeouts>>,
           since' \in [Reviews -> Notes], faults' \in 0..MaxFaults
    PROVE  IInv'
  <1> DEFINE d == [w EXCEPT !.pc = "done"]
             v == IF verdict[r] = "pending" THEN reason ELSE verdict[r]
  <1>1. d \in Works /\ d.pc = "done" /\ d.pod = w.pod
    BY DEF Works, Phases
  <1>2. v \in Verdicts /\ v # "admitted"
    BY DEF Verdicts
  <1>3. /\ work' = [work EXCEPT ![r] = d] /\ verdict' = [verdict EXCEPT ![r] = v]
        /\ cache' \in [Images -> Versions \cup {None}]
    BY DEF Refuse, IInv, Types
  <1> HIDE DEF d, v
  <1>4. RInv(d, a, v)
    BY <1>1, <1>2 DEF RInv, Working
  <1>5. QED
    BY <1>1, <1>2, <1>3, <1>4, ReviewSteps

LEMMA Allowed ==
    ASSUME IInv, NEW r \in Reviews, NEW w \in Works, w.pod \in Pods, NEW a \in Pods, Acceptable(a),
           w.pod = a \/ Completed(w.pod, a),
           verdict[r] \in {"pending", "timed out"}, Admit(r, w),
           asked' = [asked EXCEPT ![r] = a], UNCHANGED <<world, cache, bounds>>,
           since' \in [Reviews -> Notes]
    PROVE  IInv'
  <1> DEFINE d == [w EXCEPT !.pc = "done"]
             v == IF verdict[r] = "pending" THEN "admitted" ELSE verdict[r]
  <1>1. d \in Works /\ d.pc = "done" /\ d.pod = w.pod
    BY DEF Works, Phases
  <1>2. v \in Verdicts
    BY DEF Verdicts
  <1>3. /\ work' = [work EXCEPT ![r] = d] /\ verdict' = [verdict EXCEPT ![r] = v]
        /\ cache' \in [Images -> Versions \cup {None}] /\ faults' \in 0..MaxFaults
        /\ UNCHANGED <<pushes, edits, timeouts>>
    BY DEF Admit, IInv, Types, bounds
  <1> HIDE DEF d, v
  <1>4. RInv(d, a, v)
    BY <1>1 DEF RInv, Working
  <1>5. QED
    BY <1>1, <1>2, <1>3, <1>4, ReviewSteps

LEMMA SubmittedIs ==
    ASSUME IInv, NEW pod \in Submitted
    PROVE  Acceptable(pod)
  <1>1. CASE pod \in Manifests
    BY <1>1, ManifestsAssumption DEF ManifestsAssumption, Acceptable
  <1>2. CASE \E q \in Reviews : verdict[q] = "admitted" /\ pod = work[q].pod
    <2>1. PICK q \in Reviews : verdict[q] = "admitted" /\ pod = work[q].pod
      BY <1>2
    <2>2. work[q].pod \in Pods /\ Acceptable(asked[q]) /\ (pod = asked[q] \/ Completed(pod, asked[q]))
      BY <2>1 DEF IInv, RInv
    <2>3. CASE Completed(pod, asked[q])
      <3>1. asked[q].volumes \in Seq(Words) /\ pod.volumes = asked[q].volumes \o getVolumes(asked[q])
        BY <2>2, <2>3 DEF Completed, Acceptable, Pods
      <3>2. InjectorVolume \in ToSet(getVolumes(asked[q])) /\ getVolumes(asked[q]) \in Seq(Words)
        BY <2>2, VolumesFit DEF Acceptable
      <3>3. InjectorVolume \in ToSet(pod.volumes) /\ pod.volumes \in Seq(Words)
        BY <3>1, <3>2, MemberOfTail
      <3>4. QED
        BY <2>1, <2>2, <2>3, <3>3, ContainsIsIn DEF Acceptable, isPodAlreadyMutated, Completed
    <2>4. QED
      BY <2>1, <2>2, <2>3
  <1>3. QED
    BY <1>1, <1>2 DEF Submitted

LEMMA FreshIs ==
    ASSUME NEW pod \in Pods
    PROVE  LET w == [Idle EXCEPT !.pc = "look", !.pod = pod]
           IN  /\ w \in Works /\ w.pc = "look" /\ w.pod = pod /\ w.at = 1 /\ w.item = 1
               /\ w.mutated = FALSE /\ w.attempts = <<>>
  <1> DEFINE pc == "look"
             w  == [Idle EXCEPT !.pc = pc, !.pod = pod]
  <1>1. Idle \in Works /\ Idle.at = 1 /\ Idle.item = 1 /\ Idle.mutated = FALSE /\ Idle.attempts = <<>>
    BY DEF Idle, Works, Phases
  <1>2. pc \in Phases /\ pc = "look"
    BY DEF Phases
  <1> HIDE DEF pc
  <1>3. w \in Works /\ w.pc = pc /\ w.pod = pod /\ w.at = Idle.at /\ w.item = Idle.item
        /\ w.mutated = Idle.mutated /\ w.attempts = Idle.attempts
    BY <1>1, <1>2 DEF Works
  <1>4. QED
    BY <1>1, <1>2, <1>3 DEF pc

LEMMA ReviewKeeps ==
    ASSUME IInv, NEW r \in Reviews, NEW pod \in Submitted, Review(r, pod)
    PROVE  IInv'
  <1> DEFINE w == [Idle EXCEPT !.pc = "look", !.pod = pod]
             n == [version |-> [i \in Images |-> Len(history[i])], steady |-> Sources, faulted |-> FALSE]
  <1>1. Acceptable(pod) /\ pod \in Pods
    BY SubmittedIs DEF Acceptable
  <1>2. w \in Works /\ w.pc = "look" /\ w.pod = pod /\ w.at = 1 /\ w.item = 1 /\ w.mutated = FALSE
    BY <1>1, FreshIs
  <1>3. verdict[r] = "pending"
    BY DEF Review, IInv, RInv
  <1>4. n \in Notes
    <2>1. \A i \in Images : history[i] \in Seq(Versions) /\ history[i] # <<>>
      BY DEF IInv, Types
    <2>2. \A i \in Images : Len(history[i]) \in Nat \ {0}
      BY <2>1
    <2>3. QED
      BY <2>2 DEF Notes
  <1>5. since' = [since EXCEPT ![r] = n]
    BY DEF Review
  <1> HIDE DEF n
  <1>6. since' \in [Reviews -> Notes]
    BY <1>4, <1>5 DEF IInv, Types
  <1>7. asked' = [asked EXCEPT ![r] = pod] /\ UNCHANGED <<world, cache, bounds>>
    BY DEF Review
  <1>8. CASE Skip(pod) \/ (RoleParses(pod) /\ isPodAlreadyMutated(pod))
    <2>1. Admit(r, w)
      BY <1>8 DEF Review
    <2> HIDE DEF w
    <2>2. QED
      BY <1>1, <1>2, <1>3, <1>6, <1>7, <2>1, Allowed
  <1>9. CASE ~Skip(pod) /\ ~RoleParses(pod)
    <2>1. Refuse(r, w, "bad role")
      BY <1>9 DEF Review
    <2>2. faults' \in 0..MaxFaults /\ UNCHANGED <<pushes, edits, timeouts>>
      BY <1>7 DEF IInv, Types, bounds
    <2> HIDE DEF w
    <2>3. QED
      BY <1>1, <1>2, <1>3, <1>6, <1>7, <2>1, <2>2, Refused
  <1>10. CASE ~Skip(pod) /\ RoleParses(pod) /\ ~isPodAlreadyMutated(pod)
    <2>1. work' = [work EXCEPT ![r] = w] /\ verdict' = verdict
      BY <1>10 DEF Review
    <2>2. Clean(pod)
      BY <1>1, <1>10 DEF Acceptable
    <2>3. \A i \in DOMAIN pod.containers : pod.containers[i].items \in Seq(Items)
      BY <1>1, ItemsAre
    <2>4. pod.containers \in Seq(Containers)
      BY <1>1 DEF Pods
    <2>5. 1 <= Len(pod.containers) => 1 <= Len(pod.containers[1].items) + 1
      BY <2>3, <2>4
    <2> HIDE DEF w
    <2>6. InWork(w, pod)
      BY <1>2, <2>2, <2>4, <2>5 DEF InWork, Partly, SameOrTouched
    <2>7. RInv(w, pod, "pending")
      BY <1>1, <1>2, <2>6 DEF RInv, Working
    <2>8. /\ verdict' = [verdict EXCEPT ![r] = "pending"] /\ "pending" \in Verdicts
          /\ cache' \in [Images -> Versions \cup {None}] /\ faults' \in 0..MaxFaults
          /\ UNCHANGED <<pushes, edits, timeouts>>
      BY <1>3, <1>7, <2>1 DEF IInv, Types, Verdicts, bounds
    <2>9. QED
      BY <1>1, <1>2, <1>6, <1>7, <2>1, <2>7, <2>8, ReviewSteps
  <1>11. QED
    BY <1>8, <1>9, <1>10

\* A review at a container it has not dealt with yet.
AtContainer(r) ==
  Working(work[r]) /\ (work[r].pc # "look" \/ work[r].at <= Len(work[r].pod.containers))

LEMMA ThereIs ==
    ASSUME IInv, NEW r \in Reviews, AtContainer(r)
    PROVE  /\ work[r].at \in Nat \ {0} /\ work[r].at <= Len(asked[r].containers)
           /\ Current(work[r]) = asked[r].containers[work[r].at]
           /\ Current(work[r]) \in Containers /\ Current(work[r]).image \in Images
           /\ Current(work[r]).items \in Seq(Items)
           /\ work[r].item \in Nat \ {0}
  <1>1. /\ work[r] \in Works /\ work[r].pod \in Pods /\ asked[r] \in Pods
        /\ InWork(work[r], asked[r]) /\ Len(work[r].pod.containers) = Len(asked[r].containers)
    BY UnderWay DEF AtContainer
  <1>2. work[r].at \in Nat \ {0} /\ work[r].item \in Nat \ {0}
    BY <1>1 DEF Works
  <1>3. work[r].at <= Len(asked[r].containers)
    BY <1>1 DEF AtContainer, InWork
  <1>4. Current(work[r]) \in Containers /\ Current(work[r]) = asked[r].containers[work[r].at]
        /\ Current(work[r]).image \in Images
    BY <1>1, <1>3, CurrentIs
  <1>5. Current(work[r]).items \in Seq(Items)
    BY <1>4 DEF Containers
  <1>6. QED
    BY <1>2, <1>3, <1>4, <1>5

\* What it keeps while the handler works on its present container.
LEMMA WithinKeeps ==
    ASSUME IInv, NEW r \in Reviews, AtContainer(r), NEW w \in Works, Working(w),
           w.pod = work[r].pod, w.at = work[r].at, w.mutated = work[r].mutated,
           w.item = work[r].item \/ w.item <= Len(Current(work[r]).items) + 1,
           w.pc = "fetched" => w.config # None,
           work' = [work EXCEPT ![r] = w],
           UNCHANGED <<world, verdict, asked, pushes, edits, timeouts>>,
           cache' \in [Images -> Versions \cup {None}], since' \in [Reviews -> Notes],
           faults' \in 0..MaxFaults
    PROVE  IInv'
  <1>1. /\ Working(work[r]) /\ work[r].pod \in Pods /\ InWork(work[r], asked[r])
    BY UnderWay DEF AtContainer
  <1>2. InWork(w, asked[r])
    BY <1>1, ThereIs, SameWork DEF InWork
  <1>3. QED
    BY <1>1, <1>2, StaysUnderWay

\* What is left alone by most steps.
LEMMA RestIs ==
    ASSUME IInv, UNCHANGED <<cache, since, bounds>>
    PROVE  /\ cache' \in [Images -> Versions \cup {None}] /\ since' \in [Reviews -> Notes]
           /\ faults' \in 0..MaxFaults /\ UNCHANGED <<pushes, edits, timeouts>>
  BY DEF IInv, Types, bounds

LEMMA FailIs ==
    ASSUME IInv, NEW r \in Reviews, Fail(r)
    PROVE  since' \in [Reviews -> Notes] /\ faults' \in 0..MaxFaults
  <1>1. faults \in 0..MaxFaults /\ MaxFaults \in Nat
    BY BoundsAssumption DEF BoundsAssumption, IInv, Types
  <1>2. faults' \in 0..MaxFaults
    BY <1>1 DEF Fail
  <1>3. since \in [Reviews -> Notes]
    BY DEF IInv, Types
  <1>4. [since[r] EXCEPT !.faulted = TRUE] \in Notes
    BY <1>3 DEF Notes
  <1>5. since' \in [Reviews -> Notes]
    BY <1>3, <1>4 DEF Fail
  <1>6. QED
    BY <1>2, <1>5

LEMMA Successors ==
    /\ \A k \in Nat \ {0} : k + 1 \in Nat \ {0}
    /\ \A n \in Nat : \A k \in 1..n + 1 : k # 1 => k - 1 \in 1..n /\ k = (k - 1) + 1
    /\ \A S : \A s \in Seq(S) : \A k \in Nat \ {0} : k <= Len(s) => k + 1 <= Len(s) + 1
  OBVIOUS

LEMMA NextItem ==
    ASSUME NEW w \in Works, NEW v,
           \/ v = [w EXCEPT !.item = @ + 1]
           \/ \E f \in BOOLEAN : v = [w EXCEPT !.item = @ + 1, !.found = f]
    PROVE  /\ v \in Works /\ v.pc = w.pc /\ v.item = w.item + 1
           /\ v.pod = w.pod /\ v.at = w.at /\ v.mutated = w.mutated
  <1> DEFINE n == w.item + 1
  <1>1. w.item \in Nat \ {0}
    BY DEF Works
  <1>2. n \in Nat \ {0} /\ n = w.item + 1
    BY <1>1, Successors
  <1>3. \/ v = [w EXCEPT !.item = n]
        \/ \E f \in BOOLEAN : v = [w EXCEPT !.item = n, !.found = f]
    OBVIOUS
  <1> HIDE DEF n
  <1>4. QED
    BY <1>2, <1>3 DEF Works

LEMMA LookUpKeeps ==
    ASSUME IInv, NEW r \in Reviews, LookUp(r)
    PROVE  IInv'
  <1> DEFINE w == work[r]
             item == Current(w).items[w.item]
             v == Looked(w, item)
  <1>1. w.pc = "look" /\ AtContainer(r) /\ w.item <= Len(Current(w).items)
    BY DEF LookUp, LookingAtContainer, AtContainer, Working
  <1>2. w \in Works /\ w.item \in Nat \ {0} /\ Current(w).items \in Seq(Items)
    BY <1>1, ThereIs, UnderWay DEF AtContainer
  <1>3. Holds(item) \in BOOLEAN
    <2>1. item \in Items
      BY <1>1, <1>2
    <2> HIDE DEF item
    <2>2. CASE item.from = "value"
      <3>1. item.reference \in BOOLEAN
        BY <2>1, <2>2 DEF Items
      <3>2. QED
        BY <2>2, <3>1 DEF Holds
    <2>3. CASE item.from = "envFrom"
      BY <2>3 DEF Holds
    <2>4. CASE item.from = "valueFrom"
      BY <2>4 DEF Holds
    <2>5. QED
      BY <2>1, <2>2, <2>3, <2>4 DEF Items
  <1>4. work' = [work EXCEPT ![r] = v] /\ UNCHANGED <<world, cache, verdict, asked, since, bounds>>
    BY DEF LookUp
  <1> HIDE DEF item, w
  <1>5. /\ v \in Works /\ v.pc = w.pc /\ v.item = w.item + 1
        /\ v.pod = w.pod /\ v.at = w.at /\ v.mutated = w.mutated
    <2>1. w.found \in BOOLEAN
      BY <1>2 DEF Works
    <2>2. v = [w EXCEPT !.item = @ + 1, !.found = w.found \/ Holds(item)]
      BY DEF Looked
    <2>3. (w.found \/ Holds(item)) \in BOOLEAN
      BY <1>3, <2>1
    <2> HIDE DEF v
    <2>4. QED
      BY <1>2, <2>2, <2>3, NextItem
  <1> HIDE DEF v
  <1>6. Working(v) /\ v.item <= Len(Current(w).items) + 1
    BY <1>1, <1>2, <1>5 DEF Working
  <1>7. QED
    BY <1>1, <1>4, <1>5, <1>6, RestIs, WithinKeeps DEF w

LEMMA LookUpFailsKeeps ==
    ASSUME IInv, NEW r \in Reviews, LookUpFails(r)
    PROVE  IInv'
  <1> DEFINE w == work[r]
             item == Current(w).items[w.item]
             v == [w EXCEPT !.item = @ + 1]
  <1>1. w.pc = "look" /\ AtContainer(r) /\ w.item <= Len(Current(w).items)
    BY DEF LookUpFails, LookingAtContainer, AtContainer, Working
  <1>2. /\ w \in Works /\ w.item \in Nat \ {0} /\ Current(w).items \in Seq(Items)
        /\ w.pod \in Pods /\ asked[r] \in Pods /\ Acceptable(asked[r])
        /\ verdict[r] \in {"pending", "timed out"}
    BY <1>1, ThereIs, UnderWay DEF AtContainer
  <1>3. /\ since' \in [Reviews -> Notes] /\ faults' \in 0..MaxFaults
        /\ UNCHANGED <<world, cache, asked, pushes, edits, timeouts>>
        /\ cache' \in [Images -> Versions \cup {None}]
    BY FailIs DEF LookUpFails, IInv, Types
  <1>4. CASE item.from = "envFrom" /\ item.optional
    <2>1. work' = [work EXCEPT ![r] = v] /\ verdict' = verdict
      BY <1>4 DEF LookUpFails
    <2> HIDE DEF w
    <2>2. /\ v \in Works /\ v.pc = w.pc /\ v.item = w.item + 1
          /\ v.pod = w.pod /\ v.at = w.at /\ v.mutated = w.mutated
      BY <1>2, NextItem
    <2> HIDE DEF v
    <2>3. Working(v) /\ v.item <= Len(Current(w).items) + 1
      <3>1. w.item + 1 <= Len(Current(w).items) + 1
        BY <1>1, <1>2, Successors
      <3>2. QED
        BY <1>1, <2>2, <3>1 DEF Working
    <2>4. QED
      BY <1>1, <1>3, <2>1, <2>2, <2>3, WithinKeeps DEF w
  <1>5. CASE ~(item.from = "envFrom" /\ item.optional)
    <2>1. Refuse(r, w, "lookup failed")
      BY <1>5 DEF LookUpFails
    <2>2. asked' = [asked EXCEPT ![r] = asked[r]]
      BY <1>3 DEF IInv, Types
    <2> HIDE DEF w
    <2>3. QED
      BY <1>2, <1>3, <2>1, <2>2, Refused
  <1>6. QED
    BY <1>4, <1>5

LEMMA AttemptsAre ==
    ASSUME NEW pod \in Pods
    PROVE  /\ imagePullSecrets(pod) \in Seq(PullSecrets)
           /\ Attempts(pod) \in Seq(Seq(PullSecrets)) /\ Attempts(pod) # <<>>
  <1> DEFINE all == imagePullSecrets(pod)
             n   == Len(all)
             f   == [i \in 1..n |-> <<all[n + 1 - i]>>]
             g   == IF n < 2 THEN <<>> ELSE f
  <1>1. all \in Seq(PullSecrets)
    BY ImagesAssumption DEF ImagesAssumption, imagePullSecrets, Pods
  <1>2. n \in Nat
    BY <1>1
  <1>3. \A i \in 1..n : n + 1 - i \in 1..n
    BY <1>2
  <1>4. f \in [1..n -> Seq(PullSecrets)]
    BY <1>1, <1>3
  <1>5. Attempts(pod) = <<all>> \o g
    BY DEF Attempts
  <1> HIDE DEF f, n
  <1>6. f \in Seq(Seq(PullSecrets))
    BY <1>2, <1>4, SeqDef
  <1> HIDE DEF all
  <1>7. g \in Seq(Seq(PullSecrets))
    BY <1>6
  <1> HIDE DEF g
  <1>8. QED
    BY <1>1, <1>5, <1>7 DEF all

LEMMA LeaveKeeps ==
    ASSUME IInv, NEW r \in Reviews, Leave(r)
    PROVE  IInv'
  <1>1. AtContainer(r) /\ Working(work[r]) /\ work' = [work EXCEPT ![r] = Advance(work[r])]
    BY DEF Leave, LookedUp, LookingAtContainer, AtContainer, Working
  <1>2. /\ work[r] \in Works /\ work[r].pod \in Pods /\ asked[r] \in Pods
        /\ InWork(work[r], asked[r]) /\ work[r].at <= Len(asked[r].containers)
    BY <1>1, UnderWay, ThereIs
  <1>3. InWork(Advance(work[r]), asked[r])
    BY <1>2, AdvanceKeeps
  <1>4. Advance(work[r]) \in Works /\ Advance(work[r]).pod = work[r].pod /\ Advance(work[r]).pc = "look"
    BY <1>2, AdvanceIs
  <1>5. Working(Advance(work[r]))
    BY <1>4 DEF Working
  <1>6. UNCHANGED <<world, cache, verdict, asked, since, bounds>>
    BY DEF Leave
  <1>7. QED
    BY <1>1, <1>2, <1>3, <1>4, <1>5, <1>6, RestIs, StaysUnderWay

\* The present container is wrapped, for a configuration that is known if it
\* is needed.
LEMMA Wrapped ==
    ASSUME IInv, NEW r \in Reviews, AtContainer(r), NEW config \in Versions \cup {None},
           config # None \/ Current(work[r]).command # <<>>,
           work' = [work EXCEPT ![r] = Wrap(work[r], config)],
           UNCHANGED <<world, verdict, asked, since, bounds>>,
           cache' \in [Images -> Versions \cup {None}]
    PROVE  IInv'
  <1> DEFINE v == Wrap(work[r], config)
  <1>1. /\ work[r] \in Works /\ work[r].pod \in Pods /\ asked[r] \in Pods /\ Working(work[r])
        /\ InWork(work[r], asked[r]) /\ work[r].at <= Len(asked[r].containers)
    BY UnderWay, ThereIs DEF AtContainer
  <1>2. InWork(v, asked[r])
    BY <1>1, WrapKeeps
  <1>3. work[r].at \in DOMAIN work[r].pod.containers
    BY <1>1, CurrentIs
  <1>4. v \in Works /\ v.pod \in Pods /\ v.pc = "look"
    BY <1>1, <1>3, WrapIs
  <1>5. Working(v)
    BY <1>4 DEF Working
  <1>6. since' \in [Reviews -> Notes] /\ faults' \in 0..MaxFaults /\ UNCHANGED <<pushes, edits, timeouts>>
    BY DEF IInv, Types, bounds
  <1> HIDE DEF v
  <1>7. QED
    BY <1>1, <1>2, <1>4, <1>5, <1>6, StaysUnderWay DEF v

LEMMA MutateKeeps ==
    ASSUME IInv, NEW r \in Reviews, Mutate(r)
    PROVE  IInv'
  <1> DEFINE c == Current(work[r])
             config == IF c.command # <<>> THEN None ELSE cache[c.image]
  <1>1. AtContainer(r)
    BY DEF Mutate, LookedUp, LookingAtContainer, AtContainer, Working
  <1>2. c.image \in Images
    BY <1>1, ThereIs
  <1>3. cache \in [Images -> Versions \cup {None}]
    BY DEF IInv, Types
  <1>4. config \in Versions \cup {None} /\ (config # None \/ c.command # <<>>)
    BY <1>2, <1>3 DEF Mutate
  <1>5. work' = [work EXCEPT ![r] = Wrap(work[r], config)]
    BY DEF Mutate
  <1>6. UNCHANGED <<world, cache, verdict, asked, since, bounds>>
    BY DEF Mutate
  <1> HIDE DEF config
  <1>7. QED
    BY <1>1, <1>3, <1>4, <1>5, <1>6, Wrapped

LEMMA AskRegistryKeeps ==
    ASSUME IInv, NEW r \in Reviews, AskRegistry(r)
    PROVE  IInv'
  <1> DEFINE w == work[r]
             attempts == Attempts(w.pod)
             v == [w EXCEPT !.pc = "fetch", !.attempts = attempts]
  <1>1. AtContainer(r) /\ Working(w)
    BY DEF AskRegistry, LookedUp, LookingAtContainer, AtContainer, Working
  <1>2. w \in Works /\ w.pod \in Pods
    BY <1>1, UnderWay
  <1>3. attempts \in Seq(Seq(PullSecrets))
    BY <1>2, AttemptsAre
  <1>4. work' = [work EXCEPT ![r] = v] /\ UNCHANGED <<world, cache, verdict, asked, since, bounds>>
    BY DEF AskRegistry
  <1> HIDE DEF attempts, w
  <1>5. /\ v \in Works /\ v.pc = "fetch" /\ v.item = w.item
        /\ v.pod = w.pod /\ v.at = w.at /\ v.mutated = w.mutated
    BY <1>2, <1>3 DEF Works, Phases
  <1> HIDE DEF v
  <1>6. Working(v)
    BY <1>5 DEF Working
  <1>7. QED
    BY <1>1, <1>4, <1>5, <1>6, RestIs, WithinKeeps DEF w

LEMMA ServedKeeps ==
    ASSUME IInv, NEW r \in Reviews, Served(r)
    PROVE  IInv'
  <1> DEFINE w == work[r]
             config == Last(history[Current(w).image])
             v == [w EXCEPT !.pc = "fetched", !.config = config]
  <1>1. AtContainer(r) /\ Working(w)
    BY DEF Served, AtContainer, Working
  <1>2. w \in Works
    BY <1>1, UnderWay
  <1>3. config \in Versions /\ config # None
    <2>1. Current(w).image \in Images
      BY <1>1, ThereIs
    <2>2. history[Current(w).image] \in Seq(Versions) /\ history[Current(w).image] # <<>>
      BY <2>1 DEF IInv, Types
    <2> DEFINE h == history[Current(w).image]
    <2> HIDE DEF h
    <2>3. \A s \in Seq(Versions) : s # <<>> => Last(s) \in Versions
      BY DEF Last
    <2>4. QED
      BY <2>2, <2>3, NoneAssumption DEF NoneAssumption
  <1>4. work' = [work EXCEPT ![r] = v] /\ UNCHANGED <<world, cache, verdict, asked, since, bounds>>
    BY DEF Served
  <1> HIDE DEF config, w
  <1>5. /\ v \in Works /\ v.pc = "fetched" /\ v.config = config /\ v.item = w.item
        /\ v.pod = w.pod /\ v.at = w.at /\ v.mutated = w.mutated
    BY <1>2, <1>3 DEF Works, Phases
  <1> HIDE DEF v
  <1>6. Working(v)
    BY <1>5 DEF Working
  <1>7. QED
    BY <1>1, <1>3, <1>4, <1>5, <1>6, RestIs, WithinKeeps DEF w

LEMMA AttemptFailsKeeps ==
    ASSUME IInv, NEW r \in Reviews, work[r].pc = "fetch", AttemptFails(r),
           UNCHANGED <<world, cache, asked, pushes, edits, timeouts>>,
           since' \in [Reviews -> Notes], faults' \in 0..MaxFaults
    PROVE  IInv'
  <1> DEFINE w == work[r]
             attempts == Tail(w.attempts)
             v == [w EXCEPT !.attempts = attempts]
  <1>1. AtContainer(r) /\ Working(w)
    BY DEF AtContainer, Working
  <1>2. /\ w \in Works /\ w.pod \in Pods /\ asked[r] \in Pods /\ Acceptable(asked[r])
        /\ verdict[r] \in {"pending", "timed out"}
    BY <1>1, UnderWay
  <1>3. cache' \in [Images -> Versions \cup {None}] /\ asked' = [asked EXCEPT ![r] = asked[r]]
    BY DEF IInv, Types
  <1>4. CASE Len(w.attempts) > 1
    <2>1. work' = [work EXCEPT ![r] = v] /\ verdict' = verdict
      BY <1>4 DEF AttemptFails
    <2>2. w.attempts \in Seq(Seq(PullSecrets))
      BY <1>2 DEF Works
    <2>3. attempts \in Seq(Seq(PullSecrets))
      BY <1>4, <2>2
    <2>4. w.pc = "fetch"
      OBVIOUS
    <2> HIDE DEF attempts, w
    <2>5. /\ v \in Works /\ v.pc = "fetch" /\ v.item = w.item
          /\ v.pod = w.pod /\ v.at = w.at /\ v.mutated = w.mutated
      BY <1>2, <2>3, <2>4 DEF Works
    <2> HIDE DEF v
    <2>6. Working(v)
      BY <2>5 DEF Working
    <2>7. QED
      BY <1>1, <1>3, <2>1, <2>5, <2>6, WithinKeeps DEF w
  <1>5. CASE ~(Len(w.attempts) > 1)
    <2>1. Refuse(r, w, "no image")
      BY <1>5 DEF AttemptFails
    <2> HIDE DEF w
    <2>2. QED
      BY <1>2, <1>3, <2>1, Refused
  <1>6. QED
    BY <1>4, <1>5

LEMMA FetchedKeeps ==
    ASSUME IInv, NEW r \in Reviews, Fetched(r)
    PROVE  IInv'
  <1> DEFINE w == work[r]
  <1>1. AtContainer(r) /\ Working(w) /\ w.pc = "fetched"
    BY DEF Fetched, AtContainer, Working
  <1>2. w.config \in Versions \cup {None} /\ w.config # None
    BY <1>1, UnderWay DEF Works, InWork
  <1>3. cache' \in [Images -> Versions \cup {None}]
    BY <1>2 DEF Fetched, IInv, Types
  <1>4. /\ work' = [work EXCEPT ![r] = Wrap(work[r], w.config)]
        /\ UNCHANGED <<world, verdict, asked, since, bounds>>
    BY DEF Fetched
  <1>5. QED
    BY <1>1, <1>2, <1>3, <1>4, Wrapped

LEMMA FinishKeeps ==
    ASSUME IInv, NEW r \in Reviews, Finish(r)
    PROVE  IInv'
  <1>1. /\ Working(work[r]) /\ Admit(r, Complete(work[r]))
        /\ UNCHANGED <<world, cache, asked, since, bounds>>
    BY DEF Finish, Working
  <1>2. /\ work[r] \in Works /\ work[r].pod \in Pods /\ asked[r] \in Pods /\ Acceptable(asked[r])
        /\ InWork(work[r], asked[r]) /\ verdict[r] \in {"pending", "timed out"}
    BY <1>1, UnderWay
  <1>3. asked' = [asked EXCEPT ![r] = asked[r]] /\ since' \in [Reviews -> Notes]
    BY <1>1 DEF IInv, Types
  <1>4. /\ Complete(work[r]) \in Works /\ Complete(work[r]).pod \in Pods
        /\ Complete(work[r]).pod = asked[r] \/ Completed(Complete(work[r]).pod, asked[r])
    BY <1>2, CompleteIs
  <1>5. QED
    BY <1>1, <1>2, <1>3, <1>4, Allowed

LEMMA TimeOutKeeps ==
    ASSUME IInv, NEW r \in Reviews, TimeOut(r)
    PROVE  IInv'
  <1>1. /\ verdict' = [verdict EXCEPT ![r] = "timed out"] /\ "timed out" \in Verdicts
        /\ work[r].pc # "idle"
        /\ UNCHANGED <<world, cache, work, asked, since, pushes, edits, faults>>
    BY DEF TimeOut, Verdicts
  <1>2. timeouts' \in 0..MaxTimeouts
    <2>1. timeouts \in 0..MaxTimeouts /\ MaxTimeouts \in Nat
      BY BoundsAssumption DEF BoundsAssumption, IInv, Types
    <2>2. timeouts < MaxTimeouts /\ timeouts' = timeouts + 1
      BY DEF TimeOut
    <2>3. QED
      BY <2>1, <2>2
  <1>3. Types'
    BY <1>1, <1>2 DEF IInv, Types, world
  <1>4. \A q \in Reviews : RInv(work[q], asked[q], verdict'[q])
    BY <1>1 DEF IInv, Types, RInv
  <1>5. QED
    BY <1>1, <1>3, <1>4 DEF IInv, RInv, InWork, Completed

\* A step of the world leaves the reviews alone.
LEMMA WorldKeeps ==
    ASSUME IInv, Types', UNCHANGED <<work, verdict, asked>>
    PROVE  IInv'
  BY DEF IInv, RInv, InWork, Completed

LEMMA AppendIs ==
    \A S : \A s \in Seq(S) : \A v \in S : Append(s, v) \in Seq(S) /\ Append(s, v) # <<>>
  OBVIOUS

LEMMA PushKeeps ==
    ASSUME IInv, NEW i \in Images, NEW v \in Versions, Push(i, v)
    PROVE  IInv'
  <1>1. /\ history' = [history EXCEPT ![i] = Append(history[i], v)]
        /\ UNCHANGED <<sources, cache, work, verdict, asked, since, edits, faults, timeouts>>
    BY DEF Push
  <1>2. pushes' \in 0..MaxPushes
    BY BoundsAssumption DEF BoundsAssumption, Push, IInv, Types
  <1>3. history \in [Images -> Seq(Versions)] /\ \A j \in Images : history[j] # <<>>
    BY DEF IInv, Types
  <1>4. \A s \in Seq(Versions) : Append(s, v) \in Seq(Versions) /\ Append(s, v) # <<>>
    BY AppendIs
  <1>5. history' \in [Images -> Seq(Versions)] /\ \A j \in Images : history'[j] # <<>>
    BY <1>1, <1>3, <1>4
  <1>6. Types'
    BY <1>1, <1>2, <1>5 DEF IInv, Types
  <1>7. QED
    BY <1>1, <1>6, WorldKeeps

LEMMA EditKeeps ==
    ASSUME IInv, NEW s \in Sources, NEW keys \in SUBSET Keys, Edit(s, keys)
    PROVE  IInv'
  <1>1. /\ sources' = [sources EXCEPT ![s] = keys]
        /\ since' = [r \in Reviews |-> [since[r] EXCEPT !.steady = @ \ {s}]]
        /\ UNCHANGED <<history, cache, work, verdict, asked, pushes, faults, timeouts>>
    BY DEF Edit
  <1>2. edits' \in 0..MaxEdits
    BY BoundsAssumption DEF BoundsAssumption, Edit, IInv, Types
  <1>3. since \in [Reviews -> Notes]
    BY DEF IInv, Types
  <1>4. since' \in [Reviews -> Notes]
    <2>1. \A r \in Reviews : [since[r] EXCEPT !.steady = @ \ {s}] \in Notes
      BY <1>3 DEF Notes
    <2>2. QED
      BY <1>1, <2>1
  <1>5. Types'
    BY <1>1, <1>2, <1>4 DEF IInv, Types
  <1>6. QED
    BY <1>1, <1>5, WorldKeeps

LEMMA StutterKeeps ==
    ASSUME IInv, UNCHANGED vars
    PROVE  IInv'
  <1>1. Types'
    BY DEF IInv, Types, vars
  <1>2. QED
    BY <1>1, WorldKeeps DEF vars

LEMMA HandleKeeps ==
    ASSUME IInv, NEW r \in Reviews, Handle(r)
    PROVE  IInv'
  <1>1. CASE LookUp(r)
    BY <1>1, LookUpKeeps
  <1>2. CASE LookUpFails(r)
    BY <1>2, LookUpFailsKeeps
  <1>3. CASE Leave(r)
    BY <1>3, LeaveKeeps
  <1>4. CASE Mutate(r)
    BY <1>4, MutateKeeps
  <1>5. CASE AskRegistry(r)
    BY <1>5, AskRegistryKeeps
  <1>6. CASE Served(r)
    BY <1>6, ServedKeeps
  <1>7. CASE Denied(r)
    <2>1. /\ work[r].pc = "fetch" /\ AttemptFails(r) /\ UNCHANGED <<world, cache, asked, since, bounds>>
      BY <1>7 DEF Denied
    <2>2. QED
      BY <2>1, RestIs, AttemptFailsKeeps DEF bounds
  <1>8. CASE FetchFails(r)
    <2>1. /\ work[r].pc = "fetch" /\ AttemptFails(r) /\ Fail(r)
          /\ UNCHANGED <<world, cache, asked, pushes, edits, timeouts>>
      BY <1>8 DEF FetchFails
    <2>2. QED
      BY <2>1, FailIs, AttemptFailsKeeps
  <1>9. CASE Fetched(r)
    BY <1>9, FetchedKeeps
  <1>10. CASE Finish(r)
    BY <1>10, FinishKeeps
  <1>11. QED
    BY <1>1, <1>2, <1>3, <1>4, <1>5, <1>6, <1>7, <1>8, <1>9, <1>10 DEF Handle

LEMMA NextKeeps ==
    ASSUME IInv, [Next]_vars
    PROVE  IInv'
  <1>1. ASSUME NEW r \in Reviews, NEW pod \in Submitted, Review(r, pod)
        PROVE  IInv'
    BY <1>1, ReviewKeeps
  <1>2. ASSUME NEW r \in Reviews, Handle(r) \/ TimeOut(r)
        PROVE  IInv'
    BY <1>2, HandleKeeps, TimeOutKeeps
  <1>3. ASSUME NEW i \in Images, NEW v \in Versions, Push(i, v)
        PROVE  IInv'
    BY <1>3, PushKeeps
  <1>4. ASSUME NEW s \in Sources, NEW keys \in SUBSET Keys, Edit(s, keys)
        PROVE  IInv'
    BY <1>4, EditKeeps
  <1>5. QED
    BY <1>1, <1>2, <1>3, <1>4, StutterKeeps DEF Next

LEMMA Invariance == Spec => []IInv
  <1>1. QED
    BY InitInv, NextKeeps, PTL DEF Spec

-----------------------------------------------------------------------------
(* The theorems. *)

LEMMA TypesSuffice ==
    ASSUME IInv
    PROVE  TypeOK
  <1> SUFFICES ASSUME NEW r \in Reviews
               PROVE  /\ work[r].pc \in Phases
                      /\ work[r].pc \in {"look", "fetch", "fetched"} =>
                           /\ work[r].at \in 1..Len(work[r].pod.containers) + 1
                           /\ LookingAtContainer(r) =>
                                work[r].item \in 1..Len(Current(work[r]).items) + 1
                      /\ work[r].config \in Versions \cup {None}
                      /\ verdict[r] \in Verdicts
    BY DEF IInv, Types, TypeOK, Phases, Verdicts
  <1>1. /\ work[r].pc \in Phases /\ work[r].config \in Versions \cup {None} /\ verdict[r] \in Verdicts
    BY DEF IInv, Types, Works
  <1>2. CASE Working(work[r])
    <2>1. /\ work[r] \in Works /\ work[r].pod \in Pods /\ asked[r] \in Pods
          /\ InWork(work[r], asked[r])
          /\ Len(work[r].pod.containers) = Len(asked[r].containers)
      BY <1>2, UnderWay
    <2>2. /\ work[r].at \in Nat \ {0} /\ work[r].at <= Len(asked[r].containers) + 1
          /\ asked[r].containers \in Seq(Containers)
      BY <2>1 DEF InWork, Works, Pods
    <2>3. work[r].at \in 1..Len(work[r].pod.containers) + 1
      BY <2>1, <2>2
    <2>4. ASSUME LookingAtContainer(r)
          PROVE  work[r].item \in 1..Len(Current(work[r]).items) + 1
      <3>1. AtContainer(r)
        BY <1>2, <2>4 DEF LookingAtContainer, AtContainer
      <3>2. /\ work[r].item \in Nat \ {0} /\ Current(work[r]).items \in Seq(Items)
            /\ work[r].item <= Len(Current(work[r]).items) + 1
        BY <2>1, <3>1, ThereIs DEF InWork
      <3> DEFINE items == Current(work[r]).items
      <3> HIDE DEF items
      <3>3. \A S : \A s \in Seq(S) : \A k \in Nat \ {0} : k <= Len(s) + 1 => k \in 1..Len(s) + 1
        OBVIOUS
      <3>4. QED
        BY <3>2, <3>3
    <2>5. QED
      BY <1>1, <2>3, <2>4
  <1>3. QED
    BY <1>1, <1>2 DEF Working

\* The work of every review has its type: the handler of a review is never past
\* the containers of its pod, nor past the values of the container it is at.
THEOREM TypeCorrect == Spec => []TypeOK
  BY Invariance, TypesSuffice, PTL

\* Whatever users submit, and submit again, the webhook never makes the injector
\* run the injector.
THEOREM InjectsOnce == Spec => []MutatedOnce
  <1>1. ASSUME IInv PROVE MutatedOnce
    <2> SUFFICES ASSUME NEW r \in Reviews, verdict[r] = "admitted", Mutated(asked[r])
                 PROVE  work[r].pod = asked[r]
      BY DEF MutatedOnce, Admitted
    <2>1. work[r].pod = asked[r] \/ Completed(work[r].pod, asked[r])
      BY <1>1 DEF IInv, RInv
    <2>2. ~Completed(work[r].pod, asked[r])
      BY DEF Completed, Clean
    <2>3. QED
      BY <2>1, <2>2
  <1>2. QED
    BY <1>1, Invariance, PTL

\* A pod is admitted as it came or with all that its injected containers need.
THEOREM AdmitsWholePods == Spec => []CompleteOrUntouched
  <1>1. ASSUME IInv PROVE CompleteOrUntouched
    <2> SUFFICES ASSUME NEW r \in Reviews, Completed(work[r].pod, asked[r]), asked[r] \in Pods,
                        work[r].pod \in Pods
                 PROVE  LET pod == work[r].pod
                        IN  /\ Mutated(pod)
                            /\ pod.containers = <<CopyContainer>> \o Tail(pod.containers)
                            /\ Len(pod.containers) = Len(asked[r].containers) + 1
                            /\ IsInjective(pod.volumes)
                            /\ \A i \in DOMAIN pod.containers :
                                 /\ pod.containers[i].mounts \subseteq ToSet(pod.volumes)
                                 /\ Runs(pod.containers[i]) => InjectorVolume \in pod.containers[i].mounts
      BY <1>1 DEF IInv, RInv, CompleteOrUntouched, FreshlyAdmitted, Admitted, Acceptable
    <2> DEFINE a   == asked[r]
               pod == work[r].pod
    <2>1. IsInjective(pod.volumes)
      BY VolumesDiffer DEF Completed
    <2>2. ASSUME NEW i \in DOMAIN pod.containers
          PROVE  /\ pod.containers[i].mounts \subseteq ToSet(pod.volumes)
                 /\ Runs(pod.containers[i]) => InjectorVolume \in pod.containers[i].mounts
      <3>1. /\ getVolumes(a) \in Seq(Words) /\ Mounts(a) \subseteq ToSet(getVolumes(a))
            /\ InjectorVolume \in Mounts(a) /\ a.volumes \in Seq(Words)
        BY VolumesFit DEF Pods
      <3>2. pod.volumes = a.volumes \o getVolumes(a)
        BY DEF Completed
      <3>3. Mounts(a) \subseteq ToSet(pod.volumes)
        BY <3>1, <3>2, MemberOfTail
      <3>4. ToSet(a.volumes) \subseteq ToSet(pod.volumes)
        BY <3>1, <3>2, MemberOfHead
      <3>5. /\ pod.containers \in Seq(Containers) /\ a.containers \in Seq(Containers)
            /\ Len(pod.containers) = Len(a.containers) + 1
            /\ pod.containers = <<CopyContainer>> \o Tail(pod.containers)
        BY DEF Pods, Completed
      <3>6. CASE i = 1
        <4>1. pod.containers[1] = CopyContainer
          BY <3>5
        <4>2. CopyContainer.mounts = {InjectorVolume}
          BY DEF CopyContainer
        <4>3. QED
          BY <3>1, <3>3, <3>6, <4>1, <4>2
      <3>7. CASE i # 1
        <4>1. PICK j \in DOMAIN a.containers : i = j + 1
          <5>1. /\ DOMAIN a.containers = 1..Len(a.containers) /\ Len(a.containers) \in Nat
                /\ i \in 1..Len(a.containers) + 1
            BY <3>5
          <5>2. i - 1 \in DOMAIN a.containers /\ i = (i - 1) + 1
            BY <3>7, <5>1, Successors
          <5>3. QED
            BY <5>2
        <4>2. SameOrTouched(pod.containers[i], a.containers[j], a)
          BY <4>1 DEF Completed
        <4>3. ~Runs(a.containers[j]) /\ a.containers[j].mounts \subseteq ToSet(a.volumes)
          BY DEF Completed, Clean, Mutated
        <4>4. QED
          BY <3>1, <3>3, <3>4, <4>2, <4>3 DEF SameOrTouched, Touched
      <3>8. QED
        BY <3>6, <3>7
    <2>3. QED
      BY <2>1, <2>2 DEF Completed
  <1>2. QED
    BY <1>1, Invariance, PTL
=============================================================================
