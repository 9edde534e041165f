---------------------------- MODULE CertReloader ----------------------------
(***************************************************************************)
(* The serving certificate of the webhook (tlscertificate.go): it is       *)
(* loaded when the server is made, then a goroutine adds a watch on its    *)
(* directory and reloads the pair at every swap of the link "..data",      *)
(* while TLS handshakes take the pair under a read lock.                   *)
(*                                                                         *)
(* External: the kubelet, which swaps both files at once by renaming a     *)
(* link and removes the old ones afterwards; inotify, which queues one     *)
(* event per swap from the moment the watch is added; whoever restarts the *)
(* container. A pair is known by the number of the swap that brought it.   *)
(***************************************************************************)
EXTENDS Naturals

CONSTANTS
    Keys,          \* private keys
    KeyOf,         \* the key a certificate was issued for, by version
    MaxRotations,  \* bound on the swaps of the directory
    MaxRestarts    \* bound on the failures that end the process

Versions == 0..MaxRotations

ASSUME RotationAssumption ==
    /\ MaxRotations \in Nat /\ MaxRestarts \in Nat
    /\ KeyOf \in [Versions -> Keys]

VARIABLES
    dir,      \* the version the directory holds
    queued,   \* events of the watch the goroutine has not taken yet
    pc,       \* where the process is, see Phases
    read,     \* the version of the certificate file that was read
    served,   \* kpr.cert: versions of its certificate and of its key
    shown,    \* history: the pair the last handshake was given
    missed,   \* history: the last swap fell between the load and the watch
    restarts  \* what MaxRestarts counts

vars == <<dir, queued, pc, read, served, shown, missed, restarts>>

\* main() loads the pair file by file; from "unwatched" on it also listens,
\* and the other phases are those of the goroutine watchCertificate.
Phases == {"down", "loadCert", "loadKey", "unwatched", "idle", "readCert", "readKey"}

Watched   == pc \in {"idle", "readCert", "readKey"}
Listening == Watched \/ pc = "unwatched"

\* Faulty variant: no such check.
BelongsAnyway(cert, key) == TRUE

\* tls.LoadX509KeyPair checks that the key belongs to the certificate.
Belongs(cert, key) == KeyOf[cert] = KeyOf[key]

Init ==
    /\ dir = 0 /\ queued = 0
    /\ pc = "loadCert" /\ read = 0
    /\ served = [cert |-> 0, key |-> 0]
    /\ shown = [cert |-> 0, key |-> 0]
    /\ missed = FALSE /\ restarts = 0

-----------------------------------------------------------------------------
(* The kubelet *)

Rotate ==
    /\ dir < MaxRotations
    /\ dir' = dir + 1
    /\ queued' = IF Watched THEN queued + 1 ELSE queued
    /\ missed' = (pc \in {"loadKey", "unwatched"})
    /\ UNCHANGED <<pc, read, served, shown, restarts>>

\* The process ends: a panic or os.Exit(1), and whatever else may end it. What
\* it served is not reset: nobody sees it before the next load has set it.
Ends ==
    /\ pc' = "down"
    /\ queued' = 0
    /\ missed' = FALSE
    /\ UNCHANGED <<dir, read, served, shown>>

Crash ==
    /\ pc # "down"
    /\ restarts < MaxRestarts
    /\ restarts' = restarts + 1
    /\ Ends

Restart ==
    /\ pc = "down"
    /\ pc' = "loadCert"
    /\ UNCHANGED <<dir, queued, read, served, shown, missed, restarts>>

-----------------------------------------------------------------------------
(* NewCertificateReloader *)

LoadCert ==
    /\ pc = "loadCert"
    /\ pc' = "loadKey"
    /\ read' = dir
    /\ UNCHANGED <<dir, queued, served, shown, missed, restarts>>

\* The pair is set before the goroutine starts and before the server listens.
LoadKey ==
    /\ pc = "loadKey"
    /\ Belongs(read, dir)
    /\ pc' = "unwatched"
    /\ served' = [cert |-> read, key |-> dir]
    /\ UNCHANGED <<dir, queued, read, shown, missed, restarts>>

\* A swap between the two reads: newHTTPServer panics.
LoadFails ==
    /\ pc = "loadKey"
    /\ ~Belongs(read, dir)
    /\ UNCHANGED restarts
    /\ Ends

-----------------------------------------------------------------------------
(* watchCertificate and Reload *)

\* fsnotify.NewWatcher and Add; when they fail the process exits (Crash).
AddWatch ==
    /\ pc = "unwatched"
    /\ pc' = "idle"
    /\ UNCHANGED <<dir, queued, read, served, shown, missed, restarts>>

\* Faulty variant: the loop does not wait for an event.
TakeAnyEvent ==
    /\ pc = "idle"
    /\ queued' = queued - 1
    /\ pc' = "readCert"
    /\ UNCHANGED <<dir, read, served, shown, missed, restarts>>

\* Create of "..data"; events of other names are passed over.
TakeEvent ==
    /\ pc = "idle"
    /\ queued > 0
    /\ queued' = queued - 1
    /\ pc' = "readCert"
    /\ UNCHANGED <<dir, read, served, shown, missed, restarts>>

ReadCert ==
    /\ pc = "readCert"
    /\ pc' = "readKey"
    /\ read' = dir
    /\ UNCHANGED <<dir, queued, served, shown, missed, restarts>>

\* Faulty variant: what was queued meanwhile is thought to be served as well.
ReadKeyAndDrain ==
    /\ pc = "readKey"
    /\ Belongs(read, dir)
    /\ pc' = "idle"
    /\ queued' = 0
    /\ served' = [cert |-> read, key |-> dir]
    /\ UNCHANGED <<dir, read, shown, missed, restarts>>

\* kpr.cert is replaced under the lock.
ReadKey ==
    /\ pc = "readKey"
    /\ Belongs(read, dir)
    /\ pc' = "idle"
    /\ served' = [cert |-> read, key |-> dir]
    /\ UNCHANGED <<dir, queued, read, shown, missed, restarts>>

\* Faulty variant: a reload that failed ends the goroutine.
ReloadFailsForGood ==
    /\ \/ pc = "readKey" /\ ~Belongs(read, dir)
       \/ pc \in {"readCert", "readKey"} /\ queued > 0
    /\ pc' = "ended"
    /\ UNCHANGED <<dir, queued, read, served, shown, missed, restarts>>

\* Faulty variant: the pair of the start is used when there is no other.
ReloadFailsToFirst ==
    /\ \/ pc = "readKey" /\ ~Belongs(read, dir)
       \/ pc \in {"readCert", "readKey"} /\ queued > 0
    /\ pc' = "idle"
    /\ served' = [cert |-> 0, key |-> 0]
    /\ UNCHANGED <<dir, queued, read, shown, missed, restarts>>

\* The old pair stays: certificate and key are of two versions, or one of them
\* was removed while it was being opened.  Either takes another swap.
ReloadFails ==
    /\ \/ pc = "readKey" /\ ~Belongs(read, dir)
       \/ pc \in {"readCert", "readKey"} /\ queued > 0
    /\ pc' = "idle"
    /\ UNCHANGED <<dir, queued, read, served, shown, missed, restarts>>

\* GetCertificateFunc: at any time once the server listens.
Handshake ==
    /\ Listening
    /\ shown' = served
    /\ UNCHANGED <<dir, queued, pc, read, served, missed, restarts>>

-----------------------------------------------------------------------------

Load  == LoadCert \/ LoadKey \/ LoadFails
Watch == AddWatch \/ TakeEvent \/ ReadCert \/ ReadKey \/ ReloadFails

Next == Rotate \/ Crash \/ Restart \/ Load \/ Watch \/ Handshake

Spec == Init /\ [][Next]_vars

\* Go runs main() and the goroutine, the kubelet restarts the container.  That
\* anybody rotates the certificate or connects is not assumed.
Fairness == WF_vars(Restart) /\ WF_vars(Load) /\ WF_vars(Watch)

FairSpec == Spec /\ Fairness

-----------------------------------------------------------------------------
(* Properties *)

Pairs == [cert : Versions, key : Versions]

\* The variables have their types; the queue holds no more than was swapped.
TypeOK ==
    /\ dir \in Versions /\ queued \in 0..dir /\ read \in Versions
    /\ pc \in Phases
    /\ served \in Pairs /\ shown \in Pairs
    /\ missed \in BOOLEAN /\ restarts \in Nat

\* No client is ever given a certificate with a key that is not its own,
\* although the two files are read one after the other while they are swapped.
PairBelongs ==
    /\ KeyOf[shown.cert] = KeyOf[shown.key]
    /\ Listening => KeyOf[served.cert] = KeyOf[served.key]

\* When the goroutine is at rest, with no event left, the server serves what
\* the directory holds: a swap in the middle of a reload is never lost.  Only
\* one between the load and the watch may be, until the next one.
QuietMeansCurrent ==
    pc = "idle" /\ queued = 0 /\ ~missed => served = [cert |-> dir, key |-> dir]

\* Of two handshakes the later one is not given the older certificate, also
\* when a reload failed or the process was restarted in between.
NeverOlder == [][shown'.cert >= shown.cert]_vars

\* What a client may expect of the certificate, and how this module keeps it: the
\* server claims to be up to date when its goroutine is at rest, unless the last
\* swap fell between the load and the watch.
Contract == INSTANCE CertContract WITH
    held <- dir, given <- shown.cert, settled <- pc = "idle" /\ queued = 0 /\ ~missed

\* Every behaviour of the reloader, torn reads, failed reloads and restarts of the
\* process included, is one the clients' contract allows.
KeepsContract == Contract!Spec

\* A rotation is served in the end, whatever fails or is swapped meanwhile,
\* unless it fell between the load and the watch.
RotationServed == []<>(missed \/ served = [cert |-> dir, key |-> dir])
=============================================================================
