SPECIFICATION Spec
CHECK_DEADLOCK FALSE
SYMMETRY Alike
CONSTANTS
  Reviews = {r1, r2}
  Words <- MCWords
  Manifests <- MCManifests
  Images = {"app:1", "tool"}
  Latest = {"tool"}
  Versions <- MCVersions
  Public = {"tool"}
  PullSecrets = {"own", "other"}
  Opens <- MCOpens
  Sources = {"cm", "secret"}
  Keys = {"k"}
  Defaults <- MCDefaults
  DefaultPullSecret = "other"
  None = None
  MaxPushes = 1
  MaxEdits = 1
  MaxFaults = 1
  MaxTimeouts = 1
INVARIANTS
  TypeOK
  RunsTheSame
  NoBareReference
  CompleteOrUntouched
  MutatedOnce
  TriesEverySecret
