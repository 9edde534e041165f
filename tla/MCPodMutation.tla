--------------------------- MODULE MCPodMutation ---------------------------
(* Small clusters for PodMutation.                                         *)
EXTENDS PodMutation, TLC

MCWords == STRING

MCVersions ==
  {[entrypoint |-> <<"server">>, cmd |-> <<"--default">>],
   [entrypoint |-> <<"server2">>, cmd |-> <<>>]}

MCOpens == [s \in PullSecrets |-> IF s = "own" THEN {"app:1"} ELSE {}]

MCDefaults ==
  [tlsSecret |-> FALSE, envFromPath |-> FALSE, mutateProbes |-> FALSE,
   skipMutateContainers |-> {}]

Given(settings) == settings @@ [role |-> "app"]

Plain == [name |-> "main", image |-> "app:1", pull |-> "IfNotPresent",
          command |-> <<>>, args |-> <<>>, items |-> <<>>, probes |-> <<>>,
          mounts |-> {}]

InCM(optional) == [from |-> "envFrom", source |-> "cm", optional |-> optional]
InSecret       == [from |-> "valueFrom", source |-> "secret", key |-> "k"]
Reference      == [from |-> "value", reference |-> TRUE]
Literal        == [from |-> "value", reference |-> FALSE]

\* Neither command nor arguments; references only in ConfigMaps and Secrets;
\* two pull secrets, of which the first one opens the registry.
Ordinary ==
  [annotations |-> [role |-> "app"], volumes |-> <<>>,
   imagePullSecrets |-> <<"own", "other">>,
   containers |-> <<[Plain EXCEPT !.items = <<InCM(TRUE), InSecret, Literal>>]>>]

\* An init container, arguments without a command, an image of no fixed
\* version, probes, and a volume with the name the webhook would choose.
Elaborate ==
  [annotations |-> Given([tlsSecret |-> TRUE, mutateProbes |-> TRUE]),
   volumes |-> <<"vault-tls">>, imagePullSecrets |-> <<>>,
   containers |->
     <<[Plain EXCEPT !.name = "init", !.image = "tool", !.command = <<"prepare">>,
                     !.items = <<InCM(FALSE), Literal>>, !.args = <<"-v">>],
       [Plain EXCEPT !.image = "tool", !.args = <<"-x">>, !.items = <<Reference>>,
                     !.mounts = {"vault-tls"}, !.probes = <<<<"alive">>>>]>>]

\* All containers read the path, except a sidecar; images are pulled anew.
FromPath ==
  [annotations |-> Given([envFromPath |-> TRUE, skipMutateContainers |-> {"side"}]),
   volumes |-> <<>>, imagePullSecrets |-> <<"own">>,
   containers |->
     <<[Plain EXCEPT !.pull = "Always"],
       [Plain EXCEPT !.name = "side", !.items = <<InSecret>>]>>]

\* Not for the webhook: the role annotation is absent.
NoRole == [Ordinary EXCEPT !.annotations = [tlsSecret |-> TRUE]]

BadRole == [Ordinary EXCEPT !.annotations = [role |-> "bad template"]]

MCManifests == {Ordinary, Elaborate, FromPath, NoRole, BadRole}

\* Reviews differ in nothing but their names; only invariants are checked.
Alike == Permutations(Reviews)
=============================================================================
