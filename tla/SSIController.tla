--------------------------- MODULE SSIController ---------------------------
(***************************************************************************)
(* ssi-controller: it keeps one SecretProviderClass (SPC) per              *)
(* SecretsStoreImport (SSI) of the same name.  The reconciler reads the    *)
(* import from the informer's cache, the SPC from the API server (it is an *)
(* unstructured object, which controller-runtime does not cache), and      *)
(* creates or updates the SPC.  It watches imports only: what others do to *)
(* an SPC starts no reconciliation.                                        *)
(*                                                                         *)
(* External, and modelled from how the controller uses them: the API       *)
(* server with its resource versions, the watch of the informer, the       *)
(* workqueue (never two workers on one key), the garbage collector.  The   *)
(* hook ssi-spc-label-migrate patches the labels of the same SPCs.         *)
(***************************************************************************)
EXTENDS Integers, Sequences

CONSTANTS
  Imports,       \* names of imports, which are the names of their SPCs
  Specs,         \* the specs users write
  Workers,       \* the reconciling goroutines (max-concurrent-reconciles)
  None,          \* no such object; no work in hand
  MaxEdits,      \* bound on what users do to imports
  MaxMeddling,   \* bound on what others do to SPCs
  MaxFaults,     \* bound on failed requests
  MaxCrashes     \* bound on restarts of the controller

ASSUME BoundsAssumption ==
  /\ MaxEdits \in Nat /\ MaxMeddling \in Nat
  /\ MaxFaults \in Nat /\ MaxCrashes \in Nat

VARIABLES
  ssi,       \* name -> the import in the API server, or None
  spc,       \* name -> the SPC in the API server, or None
  cached,    \* name -> the import in the informer's cache, or None
  events,    \* name -> the states of the import the watch has to deliver
  queue,     \* the keys in the workqueue
  work,      \* worker -> the reconciliation in hand, or None
  synced,    \* the controller runs, its cache is filled
  migrating, \* the names in the hook's snapshot still to be patched
  clock,     \* resource versions and generations handed out
  meddled,   \* ghost: SPCs changed by others since the last edit of the import
  edits, meddling, faults, crashes

cluster    == <<ssi, spc, clock>>
controller == <<cached, events, queue, work, synced>>
bounds     == <<edits, meddling, faults, crashes>>
vars == <<ssi, spc, cached, events, queue, work, synced, migrating, clock,
          meddled, edits, meddling, faults, crashes>>

-----------------------------------------------------------------------------
(* createSecretProviderClassFromSSI.                                       *)

ParameterOf ==
  [authPath |-> "vaultAuthMountPath", namespace |-> "vaultNamespace",
   address |-> "vaultAddress", caCert |-> "vaultCACert", audience |-> "audience"]

\* Optional fields are left out when empty: the defaults of the module apply.
Parameters(spec) ==
  LET given  == {f \in DOMAIN ParameterOf : spec.optional[f] # ""}
      always == [roleName |-> spec.role,
                 vaultSkipTLSVerify |-> IF spec.skipTLSVerify THEN "true" ELSE "false"]
  IN  [p \in {ParameterOf[f] : f \in given} \cup DOMAIN always |->
         IF p \in DOMAIN always THEN always[p]
         ELSE spec.optional[CHOOSE f \in given : ParameterOf[f] = p]]

Objects(spec) ==
  [i \in DOMAIN spec.files |->
     [objectName |-> spec.files[i].name,
      secretPath |-> spec.files[i].path,
      secretKey  |-> spec.files[i].key]]

SecretData(spec) ==
  [i \in DOMAIN spec.files |->
     [key          |-> spec.files[i].key,
      objectName   |-> spec.files[i].name,
      decodeBase64 |-> spec.files[i].decodeBase64]]

Build(import) ==
  [owner |-> import.uid, parameters |-> Parameters(import.spec),
   objects |-> Objects(import.spec), data |-> SecretData(import.spec)]

Contents ==
  [owner : Nat, parameters : {Parameters(spec) : spec \in Specs},
   objects : {Objects(spec) : spec \in Specs} \cup {<<>>},
   data : {SecretData(spec) : spec \in Specs}]

\* The objects whose numbers are of the set V.
ImportsOf(V) == [uid : V, gen : V, spec : Specs]
ClassesOf(V) == [content : Contents, version : V, heritage : BOOLEAN, gen : V]

\* A reconciliation: the key, the import as read from the cache, the next request.
InHand == [name : Imports, import : ImportsOf(Nat), step : {"get", "create", "update"}, seen : Nat]

ASSUME NoneAssumption ==
  None \notin ImportsOf(Nat) \cup ClassesOf(Nat) \cup InHand

\* What the API server stores: the built content, the resource version, the
\* label of older releases, and (ghost) the generation it was built from.
Stored(import, version) ==
  [content |-> Build(import), version |-> version, heritage |-> FALSE, gen |-> import.gen]

-----------------------------------------------------------------------------
\* A new release of the module starts: imports exist, their SPCs may have
\* been made by an older one, and the controller has yet to start.
Init ==
  \E old \in SUBSET Imports, spec \in Specs :
    /\ ssi = [n \in Imports |->
                IF n \in old THEN [uid |-> 0, gen |-> 0, spec |-> spec] ELSE None]
    /\ spc \in {s \in [Imports -> {None} \cup
                   {[Stored(ssi[n], 0) EXCEPT !.heritage = TRUE] : n \in old}] :
                  \A n \in Imports : n \notin old => s[n] = None}
    /\ cached = [n \in Imports |-> None]
    /\ events = [n \in Imports |-> <<>>]
    /\ queue = {}
    /\ work = [w \in Workers |-> None]
    /\ synced = FALSE
    /\ migrating = {}
    /\ clock = 0
    /\ meddled = {}
    /\ edits = 0 /\ meddling = 0 /\ faults = 0 /\ crashes = 0

-----------------------------------------------------------------------------
(* Users, external: create, edit and delete imports.                       *)

ImportBecomes(n, import) ==
  /\ edits < MaxEdits
  /\ edits' = edits + 1
  /\ ssi' = [ssi EXCEPT ![n] = import]
  /\ events' = IF synced THEN [events EXCEPT ![n] = Append(@, import)] ELSE events
  /\ clock' = clock + 1
  /\ meddled' = meddled \ {n}
  /\ UNCHANGED <<spc, cached, queue, work, synced, migrating, meddling, faults, crashes>>

CreateImport(n) ==
  /\ ssi[n] = None
  /\ \E spec \in Specs :
       ImportBecomes(n, [uid |-> clock + 1, gen |-> clock + 1, spec |-> spec])

EditImport(n) ==
  /\ ssi[n] # None
  /\ \E spec \in Specs \ {ssi[n].spec} :
       ImportBecomes(n, [ssi[n] EXCEPT !.spec = spec, !.gen = clock + 1])

DeleteImport(n) ==
  /\ ssi[n] # None
  /\ ImportBecomes(n, None)

-----------------------------------------------------------------------------
(* The controller's process: its cache, its queue, its end.                *)

\* The manager starts, or another replica becomes the leader: the cache is
\* listed and every import is queued.
StartManager ==
  /\ ~synced
  /\ synced' = TRUE
  /\ cached' = ssi
  /\ events' = [n \in Imports |-> <<>>]
  /\ queue' = {n \in Imports : ssi[n] # None}
  /\ UNCHANGED <<cluster, work, migrating, meddled, bounds>>

\* The process ends anywhere in a reconciliation, or loses the lease.
Crash ==
  /\ synced
  /\ crashes < MaxCrashes
  /\ crashes' = crashes + 1
  /\ synced' = FALSE
  /\ cached' = [n \in Imports |-> None]
  /\ events' = [n \in Imports |-> <<>>]
  /\ queue' = {}
  /\ work' = [w \in Workers |-> None]
  /\ UNCHANGED <<cluster, migrating, meddled, edits, meddling, faults>>

\* The watch delivers the next state of an import and queues its key.
WatchDelivers(n) ==
  /\ events[n] # <<>>
  /\ cached' = [cached EXCEPT ![n] = Head(events[n])]
  /\ events' = [events EXCEPT ![n] = Tail(@)]
  /\ queue' = queue \cup {n}
  /\ UNCHANGED <<cluster, work, synced, migrating, meddled, bounds>>

-----------------------------------------------------------------------------
(* Reconcile, up to the requests it makes.                                 *)

InWork(n) == \E w \in Workers : work[w] # None /\ work[w].name = n

\* Faulty variant: the queue hands a key to two workers.
BeginTwice(w, n) ==
  /\ work[w] = None
  /\ n \in queue
  /\ queue' = queue \ {n}
  /\ work' = IF cached[n] = None THEN work
             ELSE [work EXCEPT ![w] = [name |-> n, import |-> cached[n], step |-> "get", seen |-> 0]]
  /\ UNCHANGED <<cluster, cached, events, synced, migrating, meddled, bounds>>

\* A worker takes a key and reads the import from the cache.  An import that
\* is not there has been deleted: nothing is done.
Begin(w, n) ==
  /\ work[w] = None
  /\ n \in queue
  /\ ~InWork(n)
  /\ queue' = queue \ {n}
  /\ work' = IF cached[n] = None THEN work
             ELSE [work EXCEPT ![w] = [name |-> n, import |-> cached[n], step |-> "get", seen |-> 0]]
  /\ UNCHANGED <<cluster, cached, events, synced, migrating, meddled, bounds>>

At(w, step) == work[w] # None /\ work[w].step = step

\* r.Get of the SPC: it decides between Create and Update, and its resource
\* version is the one the update will carry.
GetSPC(w) ==
  /\ At(w, "get")
  /\ LET s == spc[work[w].name]
     IN  work' = [work EXCEPT ![w] =
                    IF s = None THEN [@ EXCEPT !.step = "create"]
                    ELSE [@ EXCEPT !.step = "update", !.seen = s.version]]
  /\ UNCHANGED <<cluster, cached, events, queue, synced, migrating, meddled, bounds>>

Finish(w) == work' = [work EXCEPT ![w] = None]

\* The API server carries out a write.  It hands out a new resource version
\* only when something has changed.
Write(n, new) ==
  IF spc[n] # None /\ spc[n].content = new.content /\ ~spc[n].heritage
    THEN spc' = [spc EXCEPT ![n].gen = new.gen] /\ UNCHANGED clock
    ELSE spc' = [spc EXCEPT ![n] = new] /\ clock' = clock + 1

Accepted(w) ==
  LET s == spc[work[w].name]
  IN  \/ At(w, "create") /\ s = None
      \/ At(w, "update") /\ s # None /\ s.version = work[w].seen

\* Faulty variant: an update leaves the owner references of the SPC alone.
WriteSPCKeepsOwner(w) ==
  /\ work[w] # None
  /\ Accepted(w)
  /\ LET s   == spc[work[w].name]
         new == Stored(work[w].import, clock + 1)
     IN  Write(work[w].name, IF s = None THEN new
                             ELSE [new EXCEPT !.content.owner = s.content.owner])
  /\ Finish(w)
  /\ UNCHANGED <<ssi, cached, events, queue, synced, migrating, meddled, bounds>>

\* r.Create of an absent SPC, r.Update with its current resource version.
\* Labels and owner references are replaced together with the spec.
WriteSPC(w) ==
  /\ work[w] # None
  /\ Accepted(w)
  /\ Write(work[w].name, Stored(work[w].import, clock + 1))
  /\ Finish(w)
  /\ UNCHANGED <<ssi, cached, events, queue, synced, migrating, meddled, bounds>>

\* The request is refused: AlreadyExists, Conflict or NotFound.
Refused(w) == ~At(w, "get") /\ ~Accepted(w)

WriteRefusedIgnored(w) ==                                  \* Faulty variant
  /\ work[w] # None
  /\ Refused(w)
  /\ Finish(w)
  /\ UNCHANGED <<cluster, cached, events, queue, synced, migrating, meddled, bounds>>

\* Reconcile returns the error; the key is queued again after a backoff.
WriteRefused(w) ==
  /\ work[w] # None
  /\ Refused(w)
  /\ queue' = queue \cup {work[w].name}
  /\ Finish(w)
  /\ UNCHANGED <<cluster, cached, events, synced, migrating, meddled, bounds>>

\* A request fails, or its answer is lost after it has been carried out.
RequestFails(w) ==
  /\ work[w] # None
  /\ faults < MaxFaults
  /\ faults' = faults + 1
  /\ queue' = queue \cup {work[w].name}
  /\ Finish(w)
  /\ LET n == work[w].name
     IN  \/ UNCHANGED <<spc, clock>>
         \/ Accepted(w) /\ Write(n, Stored(work[w].import, clock + 1))
  /\ UNCHANGED <<ssi, cached, events, synced, migrating, meddled, edits, meddling, crashes>>

-----------------------------------------------------------------------------
(* Others that write SPCs.                                                 *)

\* The garbage collector, external: an SPC whose owner is gone is deleted,
\* also when an import of that name exists again.
Collect(n) ==
  /\ spc[n] # None
  /\ spc[n].content.owner # None
  /\ ssi[n] # None => ssi[n].uid # spc[n].content.owner
  /\ spc' = [spc EXCEPT ![n] = None]
  /\ UNCHANGED <<ssi, clock, controller, migrating, meddled, bounds>>

\* Someone with kubectl, external: an SPC is deleted or its content changed.
Meddle(n) ==
  /\ spc[n] # None
  /\ meddling < MaxMeddling
  /\ meddling' = meddling + 1
  /\ meddled' = meddled \cup {n}
  /\ \/ spc' = [spc EXCEPT ![n] = None]
     \/ spc' = [spc EXCEPT ![n].content.objects = <<>>, ![n].version = clock + 1]
  /\ clock' = clock + 1
  /\ UNCHANGED <<ssi, controller, migrating, edits, faults, crashes>>

\* The hook takes its snapshot of the SPCs with the label of older releases.
HookSnapshot ==
  /\ migrating = {}
  /\ migrating' = {n \in Imports : spc[n] # None /\ spc[n].heritage}
  /\ migrating' # {}
  /\ UNCHANGED <<cluster, controller, meddled, bounds>>

\* It removes the label by a merge patch, which needs no resource version and
\* changes nothing where the label is gone already.  A patch of an SPC that has
\* been deleted fails, and the hook is run again.
HookPatch(n) ==
  /\ n \in migrating
  /\ IF spc[n] = None
       THEN migrating' = {} /\ UNCHANGED <<spc, clock>>
       ELSE /\ migrating' = migrating \ {n}
            /\ IF spc[n].heritage
                 THEN /\ spc' = [spc EXCEPT ![n].heritage = FALSE, ![n].version = clock + 1]
                      /\ clock' = clock + 1
                 ELSE UNCHANGED <<spc, clock>>
  /\ UNCHANGED <<ssi, controller, meddled, bounds>>

-----------------------------------------------------------------------------
Reconciles(w) ==
  \/ \E n \in Imports : Begin(w, n)
  \/ GetSPC(w)
  \/ WriteSPC(w)
  \/ WriteRefused(w)

Next ==
  \/ \E n \in Imports : CreateImport(n) \/ EditImport(n) \/ DeleteImport(n)
  \/ StartManager
  \/ Crash
  \/ \E n \in Imports : WatchDelivers(n)
  \/ \E w \in Workers : Reconciles(w) \/ RequestFails(w)
  \/ \E n \in Imports : Collect(n) \/ Meddle(n) \/ HookPatch(n)
  \/ HookSnapshot

\* The kubelet and the lease keep one controller running, the watch delivers,
\* every key in the queue is taken by some worker, Deckhouse runs the hook and
\* Kubernetes its garbage collector.
Fairness ==
  /\ WF_vars(StartManager)
  /\ WF_vars(HookSnapshot)
  /\ \A n \in Imports :
       /\ WF_vars(WatchDelivers(n))
       /\ SF_vars(\E w \in Workers : Begin(w, n))
       /\ WF_vars(Collect(n))
       /\ WF_vars(HookPatch(n))
  /\ \A w \in Workers : WF_vars(GetSPC(w) \/ WriteSPC(w) \/ WriteRefused(w))

Spec     == Init /\ [][Next]_vars
FairSpec == Spec /\ Fairness

-----------------------------------------------------------------------------
(* Properties.                                                             *)

ImportOrNone == ImportsOf(0..clock) \cup {None}

\* The variables have their types; no two workers have the same key in hand.
TypeOK ==
  /\ ssi \in [Imports -> ImportOrNone] /\ cached \in [Imports -> ImportOrNone]
  /\ events \in [Imports -> Seq(ImportOrNone)]
  /\ spc \in [Imports -> ClassesOf(0..clock) \cup {None}]
  /\ queue \subseteq Imports /\ migrating \subseteq Imports /\ meddled \subseteq Imports
  /\ \A v, w \in Workers :
       work[v] # None /\ work[w] # None /\ work[v].name = work[w].name => v = w
  /\ synced \in BOOLEAN /\ clock \in Nat

\* An SPC never goes back to an older state of the import: of two successive
\* contents of it the later was built from a later generation, however many
\* workers, retries and restarts there are between them.
NeverBackwards ==
  [][\A n \in Imports : spc[n] # None /\ spc'[n] # None => spc'[n].gen >= spc[n].gen]_vars

\* The SPC of n is what its import asks for, and gone with it.
Settled(n) ==
  IF ssi[n] = None THEN spc[n] = None
  ELSE n \notin meddled =>
         spc[n] # None /\ spc[n].content = Build(ssi[n]) /\ ~spc[n].heritage

\* The watch, the queue and the workers have nothing left to do for n.
Idle(n) == synced /\ events[n] = <<>> /\ n \notin queue /\ ~InWork(n)

\* The controller forgets no import: once it has nothing left to do for one, the
\* SPC is what the import asks for, whichever requests were refused, failed or
\* carried out with their answers lost, whatever was edited while a worker had
\* an older state in hand, and however often the leader changed. A key that was
\* dropped would wait for the informer's resync, hours later.
IdleMeansSettled == \A n \in Imports : Idle(n) /\ ssi[n] # None => Settled(n)

\* Every SPC comes to agree with its import and stays so; what others did to
\* an SPC is repaired by the next edit of the import, not before.
Converges == \A n \in Imports : <>[]Settled(n)

\* What the user of one import is promised, and how this module keeps it.
Number(x) == IF x = None THEN 0 ELSE x.gen + 1

Contract(n) == INSTANCE ImportContract WITH
  wanted <- Number(ssi[n]), held <- Number(spc[n]), disturbed <- n \in meddled

\* Every behaviour of the controller, its retries, crashes and restarts, and of
\* the garbage collector and the hook beside it, is one the contract of each
\* import allows: the SPC of an import created again is never collected for the
\* sake of the old one, nor does any SPC run ahead of its import.
KeepsContract ==
  /\ \A n \in Imports : Contract(n)!Init
  /\ [][\A n \in Imports : [Contract(n)!Next]_(Contract(n)!vars)]_vars

=============================================================================
