------------------------ MODULE CertReloaderProofs ------------------------
(***************************************************************************)
(* Theorems about CertReloader, for any number of rotations and failures   *)
(* and any assignment of keys to certificates.                             *)
(***************************************************************************)
EXTENDS CertReloader, TLAPS

Current == [cert |-> dir, key |-> dir]

\* With no event left and no swap missed, a load or reload under way has read
\* nothing old, and one that is over has brought what the directory holds.
FreshInv ==
    /\ ~Watched => queued = 0
    /\ queued = 0 /\ ~missed =>
         /\ pc \in {"loadKey", "readKey"} => read = dir
         /\ pc \in {"unwatched", "idle"} => served = Current

\* Each version is at least the one it replaces: shown, served, read, held.
OrderInv ==
    /\ shown.cert <= served.cert /\ served.cert <= dir /\ read <= dir
    /\ pc \in {"loadKey", "readKey"} => served.cert <= read

IInv == TypeOK /\ PairBelongs /\ FreshInv /\ OrderInv

USE DEF Phases, Watched, Listening

LEMMA InitInv == Init => IInv
  <1> SUFFICES ASSUME Init PROVE IInv
    OBVIOUS
  <1>1. 0 \in Versions /\ 0 \in 0..dir
    BY RotationAssumption DEF RotationAssumption, Versions, Init
  <1>2. TypeOK
    BY <1>1 DEF Init, TypeOK, Pairs
  <1>3. PairBelongs /\ FreshInv /\ OrderInv
    BY DEF Init, PairBelongs, FreshInv, OrderInv, Current
  <1>4. QED
    BY <1>2, <1>3 DEF IInv

LEMMA TypeStep == IInv /\ [Next]_vars => TypeOK'
  <1> SUFFICES ASSUME IInv, [Next]_vars PROVE TypeOK'
    OBVIOUS
  <1>0. dir \in Nat /\ dir <= MaxRotations /\ queued \in Nat /\ queued <= dir /\ MaxRotations \in Nat
    BY RotationAssumption DEF IInv, TypeOK, Versions, RotationAssumption
  <1>1. CASE Rotate
    <2>1. dir' \in Versions /\ queued' \in 0..dir'
      BY <1>0, <1>1 DEF Rotate, Versions
    <2>2. QED
      BY <1>1, <2>1 DEF Rotate, IInv, TypeOK
  <1>2. CASE Crash
    <2>1. queued' \in 0..dir' /\ restarts' \in Nat
      BY <1>0, <1>2 DEF Crash, Ends, IInv, TypeOK
    <2>2. QED
      BY <1>2, <2>1 DEF Crash, Ends, IInv, TypeOK
  <1>3. CASE Restart
    BY <1>3 DEF Restart, IInv, TypeOK
  <1>4. CASE Load
    <2>1. CASE LoadFails
      <3>1. queued' \in 0..dir'
        BY <1>0, <2>1 DEF LoadFails, Ends
      <3>2. QED
        BY <2>1, <3>1 DEF LoadFails, Ends, IInv, TypeOK
    <2>2. CASE LoadCert \/ LoadKey
      BY <2>2 DEF LoadCert, LoadKey, IInv, TypeOK, Pairs
    <2>3. QED
      BY <1>4, <2>1, <2>2 DEF Load
  <1>5. CASE Watch
    <2>1. CASE TakeEvent
      <3>1. queued' \in 0..dir'
        BY <1>0, <2>1 DEF TakeEvent
      <3>2. QED
        BY <2>1, <3>1 DEF TakeEvent, IInv, TypeOK
    <2>2. CASE AddWatch \/ ReadCert \/ ReadKey \/ ReloadFails
      BY <2>2 DEF AddWatch, ReadCert, ReadKey, ReloadFails, IInv, TypeOK, Pairs
    <2>3. QED
      BY <1>5, <2>1, <2>2 DEF Watch
  <1>6. CASE Handshake
    BY <1>6 DEF Handshake, IInv, TypeOK
  <1>7. CASE UNCHANGED vars
    BY <1>7 DEF vars, IInv, TypeOK
  <1>8. QED
    BY <1>1, <1>2, <1>3, <1>4, <1>5, <1>6, <1>7 DEF Next

LEMMA PairStep == IInv /\ [Next]_vars => PairBelongs'
  <1> SUFFICES ASSUME IInv, [Next]_vars PROVE PairBelongs'
    OBVIOUS
  <1> USE DEF IInv, PairBelongs
  <1>1. CASE LoadKey \/ ReadKey
    BY <1>1 DEF LoadKey, ReadKey, Belongs
  <1>2. CASE Rotate \/ Crash \/ Restart \/ LoadCert \/ LoadFails
    BY <1>2 DEF Rotate, Crash, Restart, LoadCert, LoadFails, Ends
  <1>3. CASE AddWatch \/ TakeEvent \/ ReadCert \/ ReloadFails
    BY <1>3 DEF AddWatch, TakeEvent, ReadCert, ReloadFails
  <1>4. CASE Handshake \/ UNCHANGED vars
    BY <1>4 DEF Handshake, vars
  <1>5. QED
    BY <1>1, <1>2, <1>3, <1>4 DEF Next, Load, Watch

LEMMA FreshStep == IInv /\ [Next]_vars => FreshInv'
  <1> SUFFICES ASSUME IInv, [Next]_vars PROVE FreshInv'
    OBVIOUS
  <1> USE DEF FreshInv, Current
  <1>0. queued \in Nat /\ FreshInv
    BY DEF IInv, TypeOK
  <1>1. CASE Rotate
    <2>1. Watched => queued' # 0
      BY <1>0, <1>1 DEF Rotate
    <2>2. ~Watched => queued' = 0 /\ (pc \in {"loadKey", "unwatched"} => missed')
      BY <1>0, <1>1 DEF Rotate
    <2>3. QED
      BY <1>1, <2>1, <2>2 DEF Rotate
  <1>2. CASE Crash \/ Restart \/ LoadFails
    BY <1>0, <1>2 DEF Crash, Restart, LoadFails, Ends
  <1>3. CASE LoadCert \/ LoadKey \/ AddWatch
    BY <1>0, <1>3 DEF LoadCert, LoadKey, AddWatch
  <1>4. CASE TakeEvent \/ ReadCert \/ ReadKey
    BY <1>0, <1>4 DEF TakeEvent, ReadCert, ReadKey
  <1>5. CASE ReloadFails
    BY <1>0, <1>5 DEF ReloadFails, Belongs
  <1>6. CASE Handshake \/ UNCHANGED vars
    BY <1>0, <1>6 DEF Handshake, vars
  <1>7. QED
    BY <1>1, <1>2, <1>3, <1>4, <1>5, <1>6 DEF Next, Load, Watch

LEMMA OrderStep == IInv /\ [Next]_vars => OrderInv' /\ shown'.cert >= shown.cert
  <1> SUFFICES ASSUME IInv, [Next]_vars PROVE OrderInv' /\ shown'.cert >= shown.cert
    OBVIOUS
  <1>0. /\ OrderInv
        /\ dir \in Nat /\ read \in Nat /\ served.cert \in Nat /\ shown.cert \in Nat
    BY RotationAssumption DEF IInv, TypeOK, Pairs, Versions, RotationAssumption
  <1> USE DEF OrderInv
  <1>1. CASE Rotate
    BY <1>0, <1>1 DEF Rotate
  <1>2. CASE Crash \/ Restart \/ LoadFails
    BY <1>0, <1>2 DEF Crash, Restart, LoadFails, Ends
  <1>3. CASE LoadCert \/ LoadKey \/ AddWatch
    BY <1>0, <1>3 DEF LoadCert, LoadKey, AddWatch
  <1>4. CASE TakeEvent \/ ReadCert \/ ReadKey \/ ReloadFails
    BY <1>0, <1>4 DEF TakeEvent, ReadCert, ReadKey, ReloadFails
  <1>5. CASE Handshake \/ UNCHANGED vars
    BY <1>0, <1>5 DEF Handshake, vars
  <1>6. QED
    BY <1>1, <1>2, <1>3, <1>4, <1>5 DEF Next, Load, Watch

LEMMA StepInv == IInv /\ [Next]_vars => IInv'
  BY TypeStep, PairStep, FreshStep, OrderStep DEF IInv

LEMMA Invariant == Spec => []IInv
  BY InitInv, StepInv, PTL DEF Spec

-----------------------------------------------------------------------------
\* The variables have the declared types: in particular no more events are
\* queued than swaps were made (the channel of inotify is not bounded here).
THEOREM TypeCorrect == Spec => []TypeOK
  <1>1. IInv => TypeOK
    BY DEF IInv
  <1>2. QED
    BY <1>1, Invariant, PTL

\* GetCertificateFunc never hands out a certificate with another's key, for any
\* sequence of rotations, torn reads and failures.
THEOREM PairsBelong == Spec => []PairBelongs
  <1>1. IInv => PairBelongs
    BY DEF IInv
  <1>2. QED
    BY <1>1, Invariant, PTL

\* The goroutine never comes to rest with an old pair (tlscertificate.go:73-88),
\* unless the swap fell before its watch.
THEOREM QuietIsCurrent == Spec => []QuietMeansCurrent
  <1>1. IInv => QuietMeansCurrent
    BY DEF IInv, FreshInv, QuietMeansCurrent, Current
  <1>2. QED
    BY <1>1, Invariant, PTL

-----------------------------------------------------------------------------
(* The reloader implements its contract. *)

LEMMA ContractInit == Init => Contract!Init
  BY DEF Init, Contract!Init

LEMMA ContractStep == IInv /\ IInv' /\ [Next]_vars => [Contract!Next]_(Contract!vars)
  <1> SUFFICES ASSUME IInv, IInv', [Next]_vars
               PROVE  Contract!Next \/ UNCHANGED Contract!vars
    OBVIOUS
  <1> USE DEF Contract!Next, Contract!Rotate, Contract!Claim, Contract!Give, Contract!vars
  <1>1. CASE Rotate
    <2>1. ~(pc' = "idle" /\ queued' = 0 /\ ~missed')
      BY <1>1 DEF Rotate, IInv, TypeOK
    <2>2. QED
      BY <1>1, <2>1 DEF Rotate
  <1>2. CASE UNCHANGED <<dir, shown>>
    BY <1>2
  <1>3. CASE Handshake
    <2>1. /\ shown' = served /\ shown.cert <= served.cert /\ served.cert <= dir
          /\ shown.cert \in Nat /\ served.cert \in Nat /\ dir \in Nat
      BY <1>3, RotationAssumption DEF Handshake, IInv, OrderInv, TypeOK, Pairs, Versions, RotationAssumption
    <2>2. pc = "idle" /\ queued = 0 /\ ~missed => served.cert = dir
      BY DEF IInv, FreshInv, Current
    <2>3. UNCHANGED <<dir, pc, queued, missed>>
      BY <1>3 DEF Handshake
    <2>4. Contract!Give
      BY <2>1, <2>2, <2>3
    <2>5. QED
      BY <2>4
  <1>4. CASE Crash \/ Restart \/ Load
    BY <1>2, <1>4 DEF Crash, Restart, Load, LoadCert, LoadKey, LoadFails, Ends
  <1>5. CASE Watch
    BY <1>2, <1>5 DEF Watch, AddWatch, TakeEvent, ReadCert, ReadKey, ReloadFails
  <1>6. CASE UNCHANGED vars
    BY <1>2, <1>6 DEF vars
  <1>7. QED
    BY <1>1, <1>3, <1>4, <1>5, <1>6 DEF Next

\* To its clients the server is one register that follows the directory, late
\* but never backwards, and is exact when the goroutine is at rest.
THEOREM ImplementsContract == Spec => KeepsContract
  <1>1. Spec => [][Contract!Next]_(Contract!vars)
    BY Invariant, ContractStep, PTL DEF Spec
  <1>2. QED
    BY <1>1, ContractInit, PTL DEF Spec, KeepsContract, Contract!Spec

\* The contract alone keeps a client from ever being given an older certificate,
\* through restarts and torn reads alike.
THEOREM ContractSuffices == KeepsContract => NeverOlder
  <1> DEFINE Counted == dir \in Nat /\ shown.cert \in Nat
  <1>1. Contract!Init => Counted
    BY DEF Contract!Init
  <1>2. Counted /\ [Contract!Next]_(Contract!vars) => Counted' /\ shown'.cert >= shown.cert
    BY DEF Contract!Next, Contract!Rotate, Contract!Claim, Contract!Give, Contract!vars
  <1>3. QED
    BY <1>1, <1>2, PTL DEF KeepsContract, Contract!Spec, NeverOlder

\* Later handshakes are given no older certificate, across reloads that fail
\* and restarts of the process.
THEOREM NeverGivesOlder == Spec => NeverOlder
  BY ImplementsContract, ContractSuffices
=============================================================================
