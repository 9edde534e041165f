------------------------ MODULE SSIControllerProofs ------------------------
(***************************************************************************)
(* Theorems about SSIController for any imports, specs, workers and bounds.*)
(* An SPC never goes back because everything the controller knows of an    *)
(* import is ordered: the SPC was made from a state no later than the one  *)
(* in a worker's hand, that one is no later than the cache's, which is no  *)
(* later than those the watch has yet to deliver, in their order, and the  *)
(* last is the one in the API server. Users only append to this chain.     *)
(***************************************************************************)
EXTENDS SSIController, SequenceTheorems, TLAPS

Known   == ImportsOf(Nat) \cup {None}
Classes == ClassesOf(Nat) \cup {None}

Types ==
  /\ ssi \in [Imports -> Known] /\ cached \in [Imports -> Known]
  /\ events \in [Imports -> Seq(Known)]
  /\ spc \in [Imports -> Classes]
  /\ queue \subseteq Imports /\ migrating \subseteq Imports /\ meddled \subseteq Imports
  /\ work \in [Workers -> InHand \cup {None}]
  /\ synced \in BOOLEAN /\ clock \in Nat

\* No number has been used that was not handed out.
Issued(x) == x # None => x.uid <= clock /\ x.gen <= clock

NumbersInv ==
  /\ \A n \in Imports : Issued(ssi[n]) /\ Issued(cached[n])
  /\ \A n \in Imports : \A i \in DOMAIN events[n] : Issued(events[n][i])
  /\ \A n \in Imports : spc[n] # None => spc[n].version <= clock /\ spc[n].gen <= clock
  /\ \A w \in Workers : work[w] # None => work[w].import.gen <= clock

\* x is the same state of an import as y, or an earlier one.
Upto(x, y) == x # None /\ y # None => x = y \/ x.gen < y.gen

\* The SPC s was made from y, or from an earlier state.
MadeUpto(s, y) ==
  s # None /\ y # None => s.gen <= y.gen /\ (s.gen = y.gen => s.content.owner = y.uid)

ChainInv ==
  \A n \in Imports :
    /\ MadeUpto(spc[n], cached[n]) /\ MadeUpto(spc[n], ssi[n])
    /\ \A i \in DOMAIN events[n] : MadeUpto(spc[n], events[n][i])
    /\ Upto(cached[n], ssi[n])
    /\ \A i \in DOMAIN events[n] : Upto(cached[n], events[n][i]) /\ Upto(events[n][i], ssi[n])
    /\ \A i, j \in DOMAIN events[n] : i < j => Upto(events[n][i], events[n][j])

\* x is in a worker's hand, for n.
HandInv(n, x) ==
  /\ MadeUpto(spc[n], x)
  /\ Upto(x, cached[n]) /\ Upto(x, ssi[n])
  /\ \A i \in DOMAIN events[n] : Upto(x, events[n][i])

\* What a worker has in hand, and that no other has the same key.
WorkInv ==
  /\ \A w \in Workers : work[w] # None => HandInv(work[w].name, work[w].import)
  /\ \A v, w \in Workers :
       work[v] # None /\ work[w] # None /\ work[v].name = work[w].name => v = w

\* Between two leaders nobody knows anything.
RestInv ==
  ~synced => /\ \A n \in Imports : cached[n] = None /\ events[n] = <<>>
             /\ \A w \in Workers : work[w] = None

IInv == Types /\ NumbersInv /\ ChainInv /\ WorkInv /\ RestInv

\* An SPC made by an older release.
OldClass(import) == [Stored(import, 0) EXCEPT !.heritage = TRUE]

LEMMA StoredIsClass ==
    ASSUME NEW x \in ImportsOf(Nat), NEW v \in Nat
    PROVE  /\ Stored(x, v) \in ClassesOf(Nat)
           /\ Stored(x, v).gen = x.gen /\ Stored(x, v).version = v
           /\ Stored(x, v).content.owner = x.uid
           /\ Stored(x, v).content = Build(x)
  <1>1. x.uid \in Nat /\ x.gen \in Nat /\ x.spec \in Specs
    BY DEF ImportsOf
  <1>2. Build(x) \in Contents /\ Build(x).owner = x.uid
    BY <1>1 DEF Build, Contents
  <1>3. QED
    BY <1>1, <1>2 DEF Stored, ClassesOf

LEMMA InitInv == Init => IInv
  <1> SUFFICES ASSUME Init PROVE IInv
    OBVIOUS
  <1>0. /\ cached = [n \in Imports |-> None] /\ events = [n \in Imports |-> <<>>]
        /\ queue = {} /\ migrating = {} /\ meddled = {} /\ synced = FALSE /\ clock = 0
        /\ work = [w \in Workers |-> None]
    BY DEF Init
  <1>1. PICK old \in SUBSET Imports, spec \in Specs :
          /\ ssi = [n \in Imports |-> IF n \in old THEN [uid |-> 0, gen |-> 0, spec |-> spec] ELSE None]
          /\ spc \in [Imports -> {None} \cup {OldClass(ssi[n]) : n \in old}]
          /\ \A n \in Imports : n \notin old => spc[n] = None
    BY DEF Init, OldClass
  <1> DEFINE x0 == [uid |-> 0, gen |-> 0, spec |-> spec]
  <1>2. x0 \in ImportsOf(Nat) /\ x0.gen = 0 /\ x0.uid = 0
    BY DEF ImportsOf
  <1>3. \A n \in old : ssi[n] = x0
    BY <1>1
  <1>4. OldClass(x0) \in ClassesOf(Nat) /\ OldClass(x0).version = 0 /\ OldClass(x0).gen = 0
        /\ OldClass(x0).content.owner = 0
    <2> HIDE DEF x0
    <2>1. Stored(x0, 0) \in ClassesOf(Nat) /\ Stored(x0, 0).version = 0 /\ Stored(x0, 0).gen = 0
          /\ Stored(x0, 0).content.owner = 0
      BY <1>2, StoredIsClass
    <2>2. QED
      BY <2>1 DEF OldClass, ClassesOf
  <1> HIDE DEF x0
  <1>5. \A n \in Imports : ssi[n] \in {x0, None} /\ spc[n] \in {OldClass(x0), None}
    BY <1>1, <1>3 DEF x0
  <1>6. \A n \in Imports : ssi[n] # None => ssi[n] = x0
    BY <1>5
  <1>7. Types
    <2>1. ssi \in [Imports -> Known] /\ spc \in [Imports -> Classes]
      BY <1>1, <1>2, <1>4, <1>5 DEF Known, Classes
    <2>2. cached \in [Imports -> Known] /\ events \in [Imports -> Seq(Known)]
      BY <1>0 DEF Known
    <2>3. QED
      BY <1>0, <2>1, <2>2 DEF Types
  <1>8. NumbersInv
    BY <1>0, <1>2, <1>4, <1>5 DEF NumbersInv, Issued
  <1>9. ChainInv
    <2> SUFFICES ASSUME NEW n \in Imports
                 PROVE  cached[n] = None /\ DOMAIN events[n] = {} /\ MadeUpto(spc[n], ssi[n])
      BY DEF ChainInv, MadeUpto, Upto
    <2>1. cached[n] = None /\ events[n] = <<>>
      BY <1>0
    <2>2. MadeUpto(spc[n], ssi[n])
      BY <1>2, <1>4, <1>5 DEF MadeUpto
    <2>3. QED
      BY <2>1, <2>2
  <1>10. WorkInv /\ RestInv
    BY <1>0 DEF WorkInv, RestInv
  <1>11. QED
    BY <1>7, <1>8, <1>9, <1>10 DEF IInv

-----------------------------------------------------------------------------
(* Users append to the chain. *)

LEMMA UsersStep ==
    ASSUME IInv, NEW n \in Imports, NEW x \in Known, ImportBecomes(n, x),
           x # None => x.gen = clock + 1 /\ x.uid <= clock + 1
    PROVE  IInv'
  <1> USE DEF IInv
  <1>0. /\ ssi' = [ssi EXCEPT ![n] = x]
        /\ events' = IF synced THEN [events EXCEPT ![n] = Append(@, x)] ELSE events
        /\ clock' = clock + 1
        /\ UNCHANGED <<spc, cached, queue, work, synced, migrating>>
        /\ meddled' = meddled \ {n}
    BY DEF ImportBecomes
  <1>1. Types'
    BY <1>0 DEF Types
  <1>2. \A m \in Imports : /\ events[m] \in Seq(Known)
                           /\ \/ events'[m] = events[m]
                              \/ m = n /\ events'[m] = Append(events[m], x)
    BY <1>0 DEF Types
  <1>3. \A m \in Imports : \A i \in DOMAIN events'[m] :
          \/ i \in DOMAIN events[m] /\ events'[m][i] = events[m][i]
          \/ m = n /\ events'[m][i] = x /\ i = Len(events[m]) + 1
    BY <1>2
  <1>4. \A m \in Imports : m # n => ssi'[m] = ssi[m]
    BY <1>0 DEF Types
  <1>5. ssi'[n] = x
    BY <1>0 DEF Types
  <1>6. /\ \A m \in Imports : ssi[m] # None => ssi[m].gen \in Nat /\ ssi[m].uid \in Nat
        /\ \A m \in Imports : cached[m] # None => cached[m].gen \in Nat /\ cached[m].uid \in Nat
        /\ \A m \in Imports : spc[m] # None => spc[m].gen \in Nat
        /\ \A m \in Imports : \A i \in DOMAIN events[m] :
              events[m][i] # None => events[m][i].gen \in Nat /\ events[m][i].uid \in Nat
        /\ clock \in Nat
    BY DEF Types, Known, Classes, ImportsOf, ClassesOf
  <1>7. NumbersInv'
    BY <1>0, <1>3, <1>4, <1>5, <1>6 DEF NumbersInv, Issued, Types, InHand, ImportsOf, ClassesOf, Classes
  <1>8. ChainInv'
    <2> SUFFICES ASSUME NEW m \in Imports
                 PROVE  /\ MadeUpto(spc[m], cached[m]) /\ MadeUpto(spc[m], ssi'[m])
                        /\ \A i \in DOMAIN events'[m] : MadeUpto(spc[m], events'[m][i])
                        /\ Upto(cached[m], ssi'[m])
                        /\ \A i \in DOMAIN events'[m] : Upto(cached[m], events'[m][i]) /\ Upto(events'[m][i], ssi'[m])
                        /\ \A i, j \in DOMAIN events'[m] : i < j => Upto(events'[m][i], events'[m][j])
      BY <1>0 DEF ChainInv, MadeUpto, Upto
    <2>1. MadeUpto(spc[m], cached[m]) /\ (m # n => MadeUpto(spc[m], ssi'[m]) /\ Upto(cached[m], ssi'[m]))
      BY <1>4 DEF ChainInv
    <2>2. \A y \in {spc[n], cached[n]} : y # None => y.gen < clock + 1
      BY <1>6 DEF NumbersInv, Issued
    <2>3. \A i \in DOMAIN events[n] : events[n][i] # None => events[n][i].gen < clock + 1
      BY <1>6 DEF NumbersInv, Issued
    <2>4. MadeUpto(spc[n], x) /\ Upto(cached[n], x) /\ Upto(x, x)
      BY <1>6, <2>2 DEF MadeUpto, Upto
    <2>5. \A i \in DOMAIN events[n] : Upto(events[n][i], x)
      BY <2>3 DEF Upto
    <2>6. \A i \in DOMAIN events[m] : MadeUpto(spc[m], events[m][i]) /\ Upto(cached[m], events[m][i])
                                     /\ Upto(events[m][i], ssi[m])
      BY DEF ChainInv
    <2>7. \A i, j \in DOMAIN events[m] : i < j => Upto(events[m][i], events[m][j])
      BY DEF ChainInv
    <2>8. \A i, j \in DOMAIN events'[m] : i < j => Upto(events'[m][i], events'[m][j])
      <3> SUFFICES ASSUME NEW i \in DOMAIN events'[m], NEW j \in DOMAIN events'[m], i < j
                   PROVE  Upto(events'[m][i], events'[m][j])
        OBVIOUS
      <3>1. i \in DOMAIN events[m] /\ events'[m][i] = events[m][i]
        <4>1. i \in Nat /\ j \in Nat /\ j <= Len(events[m]) + 1
          BY <1>2
        <4>2. QED
          BY <1>3, <4>1
      <3>2. QED
        BY <1>3, <2>5, <2>7, <3>1
    <2>9. QED
      BY <1>3, <1>4, <1>5, <2>1, <2>4, <2>5, <2>6, <2>8
  <1>9. WorkInv'
    <2> SUFFICES ASSUME NEW w \in Workers, work[w] # None
                 PROVE  HandInv(work[w].name, work[w].import)'
      BY <1>0 DEF WorkInv
    <2> DEFINE m == work[w].name
               y == work[w].import
    <2>1. m \in Imports /\ y \in ImportsOf(Nat) /\ y.gen < clock + 1
      BY DEF Types, InHand, NumbersInv, ImportsOf
    <2>2. HandInv(m, y)
      BY DEF WorkInv
    <2>0. m' = m /\ y' = y
      BY <1>0
    <2> HIDE DEF m, y
    <2>3. Upto(y, x)
      BY <2>1 DEF Upto
    <2>4. HandInv(m, y)'
      BY <1>0, <1>3, <1>4, <1>5, <2>0, <2>1, <2>2, <2>3 DEF HandInv, MadeUpto, Upto
    <2>5. QED
      BY <1>0, <2>4 DEF m, y
  <1>10. RestInv'
    BY <1>0 DEF RestInv
  <1>11. QED
    BY <1>1, <1>7, <1>8, <1>9, <1>10

-----------------------------------------------------------------------------
(* The controller passes states along the chain, or forgets them. *)

LEMMA StartStep == IInv /\ StartManager => IInv'
  <1> SUFFICES ASSUME IInv, StartManager PROVE IInv'
    OBVIOUS
  <1> USE DEF IInv
  <1>1. /\ cached' = ssi /\ events' = [n \in Imports |-> <<>>] /\ synced' = TRUE
        /\ queue' \subseteq Imports
        /\ UNCHANGED <<ssi, spc, clock, work, migrating, meddled>>
        /\ \A w \in Workers : work[w] = None
    BY DEF StartManager, RestInv, cluster
  <1>2. Types'
    <2>1. events' \in [Imports -> Seq(Known)]
      BY <1>1
    <2>2. QED
      BY <1>1, <2>1 DEF Types
  <1>3. \A n \in Imports : DOMAIN events'[n] = {}
    BY <1>1
  <1>4. NumbersInv'
    BY <1>1, <1>3 DEF NumbersInv, Issued
  <1>5. ChainInv'
    BY <1>1, <1>3 DEF ChainInv, MadeUpto, Upto
  <1>6. WorkInv' /\ RestInv'
    BY <1>1 DEF WorkInv, RestInv
  <1>7. QED
    BY <1>2, <1>4, <1>5, <1>6

LEMMA CrashStep == IInv /\ Crash => IInv'
  <1> SUFFICES ASSUME IInv, Crash PROVE IInv'
    OBVIOUS
  <1> USE DEF IInv
  <1>1. /\ cached' = [n \in Imports |-> None] /\ events' = [n \in Imports |-> <<>>] /\ synced' = FALSE
        /\ queue' = {} /\ work' = [w \in Workers |-> None]
        /\ UNCHANGED <<ssi, spc, clock, migrating, meddled>>
    BY DEF Crash, cluster
  <1>2. Types'
    <2>1. events' \in [Imports -> Seq(Known)] /\ cached' \in [Imports -> Known]
      BY <1>1 DEF Known
    <2>2. QED
      BY <1>1, <2>1 DEF Types
  <1>3. \A n \in Imports : DOMAIN events'[n] = {} /\ cached'[n] = None
    BY <1>1
  <1>4. NumbersInv'
    BY <1>1, <1>3 DEF NumbersInv, Issued
  <1>5. ChainInv'
    BY <1>1, <1>3 DEF ChainInv, MadeUpto, Upto
  <1>6. WorkInv' /\ RestInv'
    BY <1>1 DEF WorkInv, RestInv
  <1>7. QED
    BY <1>2, <1>4, <1>5, <1>6

LEMMA DeliverStep == IInv /\ (\E n \in Imports : WatchDelivers(n)) => IInv'
  <1> SUFFICES ASSUME IInv, NEW n \in Imports, WatchDelivers(n) PROVE IInv'
    OBVIOUS
  <1> USE DEF IInv
  <1>1. /\ events[n] # <<>>
        /\ cached' = [cached EXCEPT ![n] = Head(events[n])]
        /\ events' = [events EXCEPT ![n] = Tail(events[n])]
        /\ queue' = queue \cup {n}
        /\ UNCHANGED <<ssi, spc, clock, work, synced, migrating, meddled>>
    BY DEF WatchDelivers, cluster
  <1>2. events[n] \in Seq(Known) /\ Head(events[n]) = events[n][1] /\ 1 \in DOMAIN events[n]
    BY <1>1 DEF Types
  <1>3. Head(events[n]) \in Known /\ Tail(events[n]) \in Seq(Known)
    BY <1>1, <1>2
  <1>4. Types'
    BY <1>1, <1>3 DEF Types
  <1>5. /\ cached'[n] = events[n][1]
        /\ \A i \in DOMAIN events'[n] :
             i + 1 \in DOMAIN events[n] /\ events'[n][i] = events[n][i + 1] /\ i \in Nat /\ 1 < i + 1
    BY <1>1, <1>2 DEF Types
  <1>6. \A m \in Imports : m # n => cached'[m] = cached[m] /\ events'[m] = events[m]
    BY <1>1 DEF Types
  <1>7. NumbersInv'
    BY <1>1, <1>2, <1>5, <1>6 DEF NumbersInv, Issued
  <1>8. ChainInv'
    <2> SUFFICES ASSUME NEW m \in Imports
                 PROVE  /\ MadeUpto(spc[m], cached'[m]) /\ MadeUpto(spc[m], ssi[m])
                        /\ \A i \in DOMAIN events'[m] : MadeUpto(spc[m], events'[m][i])
                        /\ Upto(cached'[m], ssi[m])
                        /\ \A i \in DOMAIN events'[m] : Upto(cached'[m], events'[m][i]) /\ Upto(events'[m][i], ssi[m])
                        /\ \A i, j \in DOMAIN events'[m] : i < j => Upto(events'[m][i], events'[m][j])
      BY <1>1 DEF ChainInv, MadeUpto, Upto
    <2>1. CASE m # n
      BY <1>6, <2>1 DEF ChainInv
    <2>2. CASE m = n
      <3>1. \A i, j \in DOMAIN events[n] : i < j => Upto(events[n][i], events[n][j])
        BY DEF ChainInv
      <3>2. \A i, j \in DOMAIN events'[n] : i < j => Upto(events'[n][i], events'[n][j])
        BY <1>5, <3>1
      <3>3. \A i \in DOMAIN events'[n] : Upto(cached'[n], events'[n][i])
        BY <1>2, <1>5, <3>1
      <3>4. QED
        BY <1>2, <1>5, <2>2, <3>2, <3>3 DEF ChainInv
    <2>3. QED
      BY <2>1, <2>2
  <1>9. WorkInv'
    <2> SUFFICES ASSUME NEW w \in Workers, work[w] # None
                 PROVE  HandInv(work[w].name, work[w].import)'
      BY <1>1 DEF WorkInv
    <2> DEFINE m == work[w].name
               y == work[w].import
    <2>1. m \in Imports /\ m' = m /\ y' = y /\ HandInv(m, y)
      BY <1>1 DEF Types, InHand, WorkInv
    <2> HIDE DEF m, y
    <2>2. HandInv(m, y)'
      BY <1>1, <1>2, <1>5, <1>6, <2>1 DEF HandInv, MadeUpto, Upto
    <2>3. QED
      BY <1>1, <2>2 DEF m, y
  <1>10. RestInv'
    BY <1>1, <1>2 DEF RestInv
  <1>11. QED
    BY <1>4, <1>7, <1>8, <1>9, <1>10

-----------------------------------------------------------------------------
(* A worker takes a state into its hand. *)

\* The same, or a hand more that may be the present state of the cache.
LEMMA HandStep ==
    ASSUME IInv, UNCHANGED <<ssi, spc, clock, cached, events, synced, migrating, meddled>>,
           queue' \subseteq Imports, NEW w \in Workers, NEW h \in InHand, synced,
           work' = [work EXCEPT ![w] = h],
           HandInv(h.name, h.import), h.import.gen <= clock,
           \A v \in Workers : v # w /\ work[v] # None => work[v].name # h.name
    PROVE  IInv'
  <1> USE DEF IInv
  <1>1. Types'
    BY DEF Types
  <1>2. NumbersInv'
    BY DEF NumbersInv, Issued, Types
  <1>3. ChainInv'
    BY DEF ChainInv, MadeUpto, Upto
  <1>4. WorkInv'
    <2>1. \A v \in Workers : work'[v] = IF v = w THEN h ELSE work[v]
      BY DEF Types
    <2>2. \A n, x : HandInv(n, x) <=> HandInv(n, x)'
      BY DEF HandInv, MadeUpto, Upto
    <2>3. \A v \in Workers : work'[v] # None => HandInv(work'[v].name, work'[v].import)
      BY <2>1 DEF WorkInv
    <2>4. \A v \in Workers : work'[v] # None => HandInv(work[v].name, work[v].import)'
      <3> SUFFICES ASSUME NEW v \in Workers, work'[v] # None
                   PROVE  HandInv(work[v].name, work[v].import)'
        OBVIOUS
      <3> DEFINE m == work'[v].name
                 y == work'[v].import
      <3>1. HandInv(m, y)
        BY <2>3
      <3>2. QED
        BY <3>1 DEF HandInv, MadeUpto, Upto
    <2>5. \A u, v \in Workers : work'[u] # None /\ work'[v] # None /\ work'[u].name = work'[v].name => u = v
      BY <2>1 DEF WorkInv
    <2>6. QED
      BY <2>4, <2>5 DEF WorkInv
  <1>5. RestInv'
    BY DEF RestInv
  <1>6. QED
    BY <1>1, <1>2, <1>3, <1>4, <1>5

LEMMA BeginStep ==
    ASSUME IInv, NEW w \in Workers, NEW n \in Imports, Begin(w, n)
    PROVE  IInv'
  <1> USE DEF IInv
  <1>1. /\ UNCHANGED <<ssi, spc, clock, cached, events, synced, migrating, meddled>>
        /\ queue' \subseteq Imports /\ ~InWork(n) /\ work[w] = None
    BY DEF Begin, cluster, Types
  <1>2. CASE cached[n] = None
    <2>1. work' = work
      BY <1>2 DEF Begin
    <2>2. QED
      BY <1>1, <2>1 DEF Types, NumbersInv, Issued, ChainInv, WorkInv, HandInv, RestInv, MadeUpto, Upto
  <1>3. CASE cached[n] # None
    <2> DEFINE h == [name |-> n, import |-> cached[n], step |-> "get", seen |-> 0]
    <2>1. work' = [work EXCEPT ![w] = h]
      BY <1>3 DEF Begin
    <2>2. h \in InHand
      BY <1>3 DEF Types, Known, InHand
    <2>3. synced
      BY <1>3 DEF RestInv
    <2>4. HandInv(h.name, h.import) /\ h.import.gen <= clock
      BY <1>3 DEF ChainInv, HandInv, NumbersInv, Issued, Upto
    <2>5. \A v \in Workers : v # w /\ work[v] # None => work[v].name # h.name
      BY <1>1 DEF InWork
    <2> HIDE DEF h
    <2>6. QED
      BY <1>1, <2>1, <2>2, <2>3, <2>4, <2>5, HandStep
  <1>4. QED
    BY <1>2, <1>3

LEMMA GetStep ==
    ASSUME IInv, NEW w \in Workers, GetSPC(w)
    PROVE  IInv'
  <1> USE DEF IInv
  <1>1. UNCHANGED <<ssi, spc, clock, cached, events, synced, migrating, meddled, queue>> /\ work[w] # None
    BY DEF GetSPC, At, cluster
  <1>2. work[w] \in InHand
    BY <1>1 DEF Types
  <1> DEFINE s == spc[work[w].name]
             h == IF s = None THEN [work[w] EXCEPT !.step = "create"]
                  ELSE [work[w] EXCEPT !.step = "update", !.seen = s.version]
  <1>3. s # None => s.version \in Nat
    BY <1>2 DEF Types, InHand, Classes, ClassesOf
  <1>4. h \in InHand /\ h.name = work[w].name /\ h.import = work[w].import
    BY <1>2, <1>3 DEF InHand
  <1>5. work' = [work EXCEPT ![w] = h]
    BY DEF GetSPC
  <1> HIDE DEF h
  <1>6. HandInv(h.name, h.import) /\ h.import.gen <= clock
    BY <1>1, <1>4 DEF WorkInv, NumbersInv
  <1>7. \A v \in Workers : v # w /\ work[v] # None => work[v].name # h.name
    BY <1>1, <1>4 DEF WorkInv
  <1>8. queue' \subseteq Imports /\ synced
    BY <1>1 DEF Types, RestInv
  <1>9. QED
    BY <1>1, <1>4, <1>5, <1>6, <1>7, <1>8, HandStep

-----------------------------------------------------------------------------
(* Somebody changes an SPC, and workers may let go of what they hold. *)

LEMMA ClassStep ==
    ASSUME IInv, NEW n \in Imports, NEW c \in Classes,
           spc' = [spc EXCEPT ![n] = c], clock' \in {clock, clock + 1},
           UNCHANGED <<ssi, cached, events, synced>>,
           queue' \subseteq Imports, migrating' \subseteq Imports, meddled' \subseteq Imports,
           ~synced => queue' = queue,
           work' \in [Workers -> InHand \cup {None}],
           \A w \in Workers : work'[w] # None => work'[w] = work[w],
           c # None => /\ c.gen <= clock' /\ c.version <= clock'
                       /\ MadeUpto(c, cached[n]) /\ MadeUpto(c, ssi[n])
                       /\ \A i \in DOMAIN events[n] : MadeUpto(c, events[n][i])
                       /\ \A w \in Workers : work'[w] # None /\ work[w].name = n =>
                            MadeUpto(c, work[w].import)
    PROVE  IInv'
  <1> USE DEF IInv
  <1>1. Types'
    BY DEF Types
  <1>2. \A m \in Imports : spc'[m] = IF m = n THEN c ELSE spc[m]
    BY DEF Types
  <1>3. clock \in Nat /\ clock <= clock'
    BY DEF Types
  <1>4. NumbersInv'
    <2>1. \A x : Issued(x) /\ x # None => x.uid <= clock /\ x.gen <= clock
      BY DEF Issued
    <2>2. /\ \A m \in Imports : ssi[m] # None => ssi[m].uid \in Nat /\ ssi[m].gen \in Nat
          /\ \A m \in Imports : cached[m] # None => cached[m].uid \in Nat /\ cached[m].gen \in Nat
          /\ \A m \in Imports : \A i \in DOMAIN events[m] :
               events[m][i] # None => events[m][i].uid \in Nat /\ events[m][i].gen \in Nat
          /\ \A m \in Imports : spc[m] # None => spc[m].version \in Nat /\ spc[m].gen \in Nat
          /\ \A w \in Workers : work[w] # None => work[w].import.gen \in Nat
      BY DEF Types, Known, Classes, ImportsOf, ClassesOf, InHand
    <2>3. QED
      BY <1>2, <1>3, <2>2 DEF NumbersInv, Issued
  <1>5. ChainInv'
    <2> SUFFICES ASSUME NEW m \in Imports
                 PROVE  /\ MadeUpto(spc'[m], cached[m]) /\ MadeUpto(spc'[m], ssi[m])
                        /\ \A i \in DOMAIN events[m] : MadeUpto(spc'[m], events[m][i])
      BY DEF ChainInv, MadeUpto, Upto
    <2>1. CASE m # n \/ c # None
      BY <1>2, <2>1 DEF ChainInv
    <2>2. CASE m = n /\ c = None
      BY <1>2, <2>2 DEF MadeUpto
    <2>3. QED
      BY <2>1, <2>2
  <1>6. WorkInv'
    <2>1. \A v, w \in Workers : work'[v] # None /\ work'[w] # None /\ work'[v].name = work'[w].name => v = w
      BY DEF WorkInv
    <2> SUFFICES ASSUME NEW w \in Workers, work'[w] # None
                 PROVE  HandInv(work[w].name, work[w].import)'
      BY <2>1 DEF WorkInv
    <2> DEFINE m == work[w].name
               y == work[w].import
    <2>2. m \in Imports /\ m' = m /\ y' = y /\ HandInv(m, y)
      BY DEF Types, InHand, WorkInv
    <2>3. MadeUpto(spc'[m], y)
      BY <1>2, <2>2 DEF HandInv, MadeUpto
    <2> HIDE DEF m, y
    <2>4. HandInv(m, y)'
      BY <2>2, <2>3 DEF HandInv, MadeUpto, Upto
    <2>5. QED
      BY <2>4 DEF m, y
  <1>7. RestInv'
    BY DEF RestInv
  <1>8. QED
    BY <1>1, <1>4, <1>5, <1>6, <1>7

\* c stands for what the SPC of n was made from.
LEMMA SameClass ==
    ASSUME IInv, NEW n \in Imports, spc[n] # None, NEW c,
           c.gen = spc[n].gen, c.content.owner = spc[n].content.owner
    PROVE  /\ MadeUpto(c, cached[n]) /\ MadeUpto(c, ssi[n])
           /\ \A i \in DOMAIN events[n] : MadeUpto(c, events[n][i])
           /\ \A w \in Workers : work[w] # None /\ work[w].name = n => MadeUpto(c, work[w].import)
  BY DEF IInv, ChainInv, WorkInv, HandInv, MadeUpto

\* What the API server makes of a write: the import of n in the hand of w.
LEMMA WriteMakes ==
    ASSUME IInv, NEW w \in Workers, work[w] # None,
           Write(work[w].name, Stored(work[w].import, clock + 1))
    PROVE  \E c \in ClassesOf(Nat) :
             /\ spc' = [spc EXCEPT ![work[w].name] = c]
             /\ c.gen = work[w].import.gen /\ c.content.owner = work[w].import.uid
             /\ clock' \in {clock, clock + 1} /\ c.version <= clock' /\ c.gen <= clock'
  <1> DEFINE n == work[w].name
             x == work[w].import
             new == Stored(x, clock + 1)
  <1>1. n \in Imports /\ x \in ImportsOf(Nat) /\ x.gen <= clock /\ x.gen \in Nat /\ clock \in Nat
    BY DEF IInv, Types, NumbersInv, InHand, ImportsOf
  <1>2. /\ new \in ClassesOf(Nat) /\ new.gen = x.gen /\ new.version = clock + 1
        /\ new.content.owner = x.uid
    BY <1>1, StoredIsClass
  <1>3. Write(n, new)
    OBVIOUS
  <1> HIDE DEF n, x, new
  <1>4. CASE spc[n] # None /\ spc[n].content = new.content /\ ~spc[n].heritage
    <2> DEFINE c == [spc[n] EXCEPT !.gen = new.gen]
    <2>1. spc' = [spc EXCEPT ![n] = c] /\ clock' = clock
      BY <1>3, <1>4 DEF Write
    <2>2. spc[n] \in ClassesOf(Nat) /\ spc[n].version <= clock
      BY <1>1, <1>4 DEF IInv, Types, Classes, NumbersInv
    <2>3. c \in ClassesOf(Nat) /\ c.gen = x.gen /\ c.content = new.content /\ c.version = spc[n].version
      BY <1>1, <1>2, <1>4, <2>2 DEF ClassesOf
    <2> HIDE DEF c
    <2>4. c.content.owner = x.uid /\ c.version <= clock' /\ c.gen <= clock'
      BY <1>1, <1>2, <2>1, <2>2, <2>3
    <2>5. QED
      BY <2>1, <2>3, <2>4 DEF n, x
  <1>5. CASE ~(spc[n] # None /\ spc[n].content = new.content /\ ~spc[n].heritage)
    <2>1. spc' = [spc EXCEPT ![n] = new] /\ clock' = clock + 1
      BY <1>3, <1>5 DEF Write
    <2>2. new.version <= clock' /\ new.gen <= clock'
      BY <1>1, <1>2, <2>1
    <2>3. QED
      BY <1>2, <2>1, <2>2 DEF n, x
  <1>6. QED
    BY <1>4, <1>5

LEMMA WritesStep ==
    ASSUME IInv, NEW w \in Workers, WriteSPC(w) \/ WriteRefused(w) \/ RequestFails(w)
    PROVE  IInv'
  <1> DEFINE n == work[w].name
             x == work[w].import
  <1>1. /\ work[w] # None /\ work' = [work EXCEPT ![w] = None]
        /\ UNCHANGED <<ssi, cached, events, synced, migrating, meddled>>
        /\ queue' \in {queue, queue \cup {n}}
        /\ Write(n, Stored(x, clock + 1)) \/ UNCHANGED <<spc, clock>>
    BY DEF WriteSPC, WriteRefused, RequestFails, Finish, cluster
  <1>2. n \in Imports /\ x \in ImportsOf(Nat) /\ work' \in [Workers -> InHand \cup {None}] /\ synced
        /\ queue' \subseteq Imports
    BY <1>1 DEF IInv, Types, InHand, RestInv
  <1>3. \A v \in Workers : work'[v] # None => work'[v] = work[v] /\ v # w
    BY <1>1 DEF IInv, Types
  <1>4. \A v \in Workers : v # w /\ work[v] # None => work[v].name # n
    BY <1>1 DEF IInv, WorkInv
  <1>5. HandInv(n, x)
    BY <1>1 DEF IInv, WorkInv
  <1>6. CASE UNCHANGED <<spc, clock>>
    <2>1. /\ spc[n] \in Classes /\ spc' = [spc EXCEPT ![n] = spc[n]]
          /\ spc[n] # None => spc[n].gen <= clock /\ spc[n].version <= clock
      BY <1>2, <1>6 DEF IInv, Types, NumbersInv
    <2> HIDE DEF n, x
    <2>2. QED
      BY <1>1, <1>2, <1>3, <1>4, <1>6, <2>1, SameClass, ClassStep DEF IInv, Types
  <1>7. CASE Write(n, Stored(x, clock + 1))
    <2>1. PICK c \in ClassesOf(Nat) :
             /\ spc' = [spc EXCEPT ![n] = c]
             /\ c.gen = x.gen /\ c.content.owner = x.uid
             /\ clock' \in {clock, clock + 1} /\ c.version <= clock' /\ c.gen <= clock'
      BY <1>1, <1>7, WriteMakes
    <2> HIDE DEF n, x
    <2>2. /\ MadeUpto(c, cached[n]) /\ MadeUpto(c, ssi[n])
          /\ \A i \in DOMAIN events[n] : MadeUpto(c, events[n][i])
      <3>1. \A y \in Known : Upto(x, y) => MadeUpto(c, y)
        <4> SUFFICES ASSUME NEW y \in ImportsOf(Nat), Upto(x, y), y # None
                     PROVE  c.gen <= y.gen /\ (c.gen = y.gen => c.content.owner = y.uid)
          BY DEF MadeUpto, Known
        <4>1. x # None /\ x.gen \in Nat /\ y.gen \in Nat
          BY <1>2, NoneAssumption DEF NoneAssumption, ImportsOf
        <4>2. x = y \/ x.gen < y.gen
          BY <4>1 DEF Upto
        <4>3. CASE x = y
          BY <2>1, <4>1, <4>3
        <4>4. CASE x.gen < y.gen
          BY <2>1, <4>1, <4>4
        <4>5. QED
          BY <4>2, <4>3, <4>4
      <3>2. cached[n] \in Known /\ ssi[n] \in Known /\ \A i \in DOMAIN events[n] : events[n][i] \in Known
        BY <1>2 DEF IInv, Types
      <3>3. QED
        BY <1>5, <3>1, <3>2 DEF HandInv
    <2>3. c \in Classes
      BY DEF Classes
    <2>4. migrating' \subseteq Imports /\ meddled' \subseteq Imports
      BY <1>1 DEF IInv, Types
    <2>5. QED
      BY <1>1, <1>2, <1>3, <1>4, <2>1, <2>2, <2>3, <2>4, ClassStep
  <1>8. QED
    BY <1>1, <1>6, <1>7

\* Collector, kubectl and hook remove an SPC or leave what it was made from.
LEMMA OthersStep ==
    ASSUME IInv, NEW n \in Imports, Collect(n) \/ Meddle(n) \/ HookPatch(n)
    PROVE  IInv'
  <1>1. /\ UNCHANGED <<ssi, cached, events, queue, work, synced>>
        /\ migrating' \subseteq Imports /\ meddled' \subseteq Imports /\ queue' \subseteq Imports
        /\ work' \in [Workers -> InHand \cup {None}]
        /\ clock' \in {clock, clock + 1} /\ clock \in Nat
    BY DEF Collect, Meddle, HookPatch, controller, IInv, Types
  <1>2. \/ spc[n] # None /\ spc' = [spc EXCEPT ![n] = None]
        \/ spc[n] # None /\ spc' = [spc EXCEPT ![n].content.objects = <<>>, ![n].version = clock + 1]
           /\ clock' = clock + 1
        \/ spc[n] # None /\ spc' = [spc EXCEPT ![n].heritage = FALSE, ![n].version = clock + 1]
           /\ clock' = clock + 1
        \/ UNCHANGED <<spc, clock>>
    BY DEF Collect, Meddle, HookPatch
  <1>3. CASE spc' = [spc EXCEPT ![n] = None]
    BY <1>1, <1>3, ClassStep DEF Classes
  <1>4. CASE UNCHANGED <<spc, clock>>
    BY <1>1, <1>4 DEF IInv, Types, NumbersInv, Issued, ChainInv, WorkInv, HandInv, RestInv, MadeUpto, Upto
  <1>5. ASSUME NEW c \in ClassesOf(Nat), spc[n] # None, spc' = [spc EXCEPT ![n] = c],
               c.gen = spc[n].gen, c.content.owner = spc[n].content.owner,
               c.version = clock + 1, clock' = clock + 1
        PROVE  IInv'
    <2>1. c.gen <= clock' /\ c.version <= clock' /\ c \in Classes
      BY <1>1, <1>5 DEF IInv, NumbersInv, Types, Classes, ClassesOf
    <2>2. QED
      BY <1>1, <1>5, <2>1, SameClass, ClassStep
  <1>6. spc[n] # None => spc[n] \in ClassesOf(Nat) /\ spc[n].content \in Contents
    BY DEF IInv, Types, Classes, ClassesOf
  <1>7. CASE spc[n] # None /\ spc' = [spc EXCEPT ![n].content.objects = <<>>, ![n].version = clock + 1]
             /\ clock' = clock + 1
    <2> DEFINE s == spc[n]
               v == clock + 1
               o == [s.content EXCEPT !.objects = <<>>]
               c == [s EXCEPT !.content = o, !.version = v]
    <2>1. spc' = [spc EXCEPT ![n] = c]
      BY <1>6, <1>7
    <2>2. s \in ClassesOf(Nat) /\ s.content \in Contents /\ v \in Nat
      BY <1>1, <1>6, <1>7
    <2>3. s = spc[n] /\ v = clock + 1
      OBVIOUS
    <2> HIDE DEF s, v
    <2>4. o \in Contents /\ o.owner = s.content.owner
      BY <2>2 DEF Contents
    <2> HIDE DEF o
    <2>5. c \in ClassesOf(Nat) /\ c.gen = s.gen /\ c.content = o /\ c.version = v
      BY <2>2, <2>4 DEF ClassesOf
    <2> HIDE DEF c
    <2>6. QED
      BY <1>5, <1>7, <2>1, <2>3, <2>4, <2>5
  <1>8. CASE spc[n] # None /\ spc' = [spc EXCEPT ![n].heritage = FALSE, ![n].version = clock + 1]
             /\ clock' = clock + 1
    <2> DEFINE s == spc[n]
               v == clock + 1
               c == [s EXCEPT !.heritage = FALSE, !.version = v]
    <2>1. spc' = [spc EXCEPT ![n] = c]
      BY <1>8
    <2>2. s \in ClassesOf(Nat) /\ v \in Nat
      BY <1>1, <1>6, <1>8
    <2>3. s = spc[n] /\ v = clock + 1
      OBVIOUS
    <2> HIDE DEF s, v
    <2>4. c \in ClassesOf(Nat) /\ c.gen = s.gen /\ c.content = s.content /\ c.version = v
      BY <2>2 DEF ClassesOf
    <2> HIDE DEF c
    <2>5. QED
      BY <1>5, <1>8, <2>1, <2>3, <2>4
  <1>9. QED
    BY <1>2, <1>3, <1>4, <1>7, <1>8

LEMMA Stutter ==
    ASSUME IInv, UNCHANGED <<cluster, controller>>, migrating' \subseteq Imports, UNCHANGED meddled
    PROVE  IInv'
  BY DEF cluster, controller, IInv, Types, NumbersInv, Issued, ChainInv, WorkInv, HandInv, RestInv,
         MadeUpto, Upto

\* What users may make of an import.
LEMMA UsersWrite ==
    ASSUME IInv, NEW n \in Imports, CreateImport(n) \/ EditImport(n) \/ DeleteImport(n)
    PROVE  \E x \in Known : /\ ImportBecomes(n, x)
                            /\ x # None => x.gen = clock + 1 /\ x.uid <= clock + 1
  <1>1. clock \in Nat /\ ssi[n] \in Known /\ (ssi[n] # None => ssi[n].uid <= clock)
    BY DEF IInv, Types, NumbersInv, Issued
  <1>2. CASE CreateImport(n)
    <2>1. PICK spec \in Specs : ImportBecomes(n, [uid |-> clock + 1, gen |-> clock + 1, spec |-> spec])
      BY <1>2 DEF CreateImport
    <2> DEFINE x == [uid |-> clock + 1, gen |-> clock + 1, spec |-> spec]
    <2>2. x \in Known /\ x.gen = clock + 1 /\ x.uid <= clock + 1
      BY <1>1 DEF Known, ImportsOf
    <2> HIDE DEF x
    <2>3. QED
      BY <2>1, <2>2 DEF x
  <1>3. CASE EditImport(n)
    <2>1. ssi[n] # None
      BY <1>3 DEF EditImport
    <2>2. PICK spec \in Specs : ImportBecomes(n, [ssi[n] EXCEPT !.spec = spec, !.gen = clock + 1])
      BY <1>3 DEF EditImport
    <2> DEFINE s == ssi[n]
               v == clock + 1
               x == [s EXCEPT !.spec = spec, !.gen = v]
    <2>3. ImportBecomes(n, x)
      BY <2>2
    <2>4. s \in ImportsOf(Nat) /\ v \in Nat /\ s.uid <= v /\ v = clock + 1
      BY <1>1, <2>1 DEF Known, ImportsOf
    <2> HIDE DEF s, v
    <2>5. x \in ImportsOf(Nat) /\ x.gen = v /\ x.uid = s.uid
      BY <2>4 DEF ImportsOf
    <2> HIDE DEF x
    <2>6. QED
      BY <2>3, <2>4, <2>5 DEF Known
  <1>4. CASE DeleteImport(n)
    BY <1>4 DEF DeleteImport, Known
  <1>5. QED
    BY <1>2, <1>3, <1>4

LEMMA Inductive == IInv /\ [Next]_vars => IInv'
  <1> SUFFICES ASSUME IInv, [Next]_vars PROVE IInv'
    OBVIOUS
  <1>1. ASSUME NEW n \in Imports, CreateImport(n) \/ EditImport(n) \/ DeleteImport(n)
        PROVE  IInv'
    BY <1>1, UsersWrite, UsersStep
  <1>2. ASSUME NEW w \in Workers, Reconciles(w) \/ RequestFails(w)
        PROVE  IInv'
    BY <1>2, BeginStep, GetStep, WritesStep DEF Reconciles
  <1>3. CASE HookSnapshot
    BY <1>3, Stutter DEF HookSnapshot
  <1>4. CASE UNCHANGED vars
    BY <1>4, Stutter DEF vars, cluster, controller, IInv, Types
  <1>5. QED
    BY <1>1, <1>2, <1>3, <1>4, StartStep, CrashStep, DeliverStep, OthersStep DEF Next

LEMMA Invariance == Spec => []IInv
  BY InitInv, Inductive, PTL DEF Spec

-----------------------------------------------------------------------------
(* The theorems *)

\* The types, that only numbers handed out are used, and that no two workers
\* have the same import in hand.
THEOREM TypeCorrect == Spec => []TypeOK
  <1>1. IInv => TypeOK
    <2> SUFFICES ASSUME IInv PROVE TypeOK
      OBVIOUS
    <2>1. \A x \in Known : (x # None => Issued(x)) => x \in ImportOrNone
      <3> SUFFICES ASSUME NEW x \in ImportsOf(Nat), x # None => Issued(x), x # None
                   PROVE  x \in ImportsOf(0..clock)
        BY DEF Known, ImportOrNone
      <3>1. x.uid \in 0..clock /\ x.gen \in 0..clock
        BY DEF Issued, ImportsOf, IInv, Types
      <3>2. QED
        BY <3>1 DEF ImportsOf
    <2>2. \A n \in Imports : ssi[n] \in ImportOrNone /\ cached[n] \in ImportOrNone
      BY <2>1 DEF IInv, Types, NumbersInv
    <2>3. \A n \in Imports : events[n] \in Seq(ImportOrNone)
      <3> SUFFICES ASSUME NEW n \in Imports PROVE events[n] \in Seq(ImportOrNone)
        OBVIOUS
      <3>1. events[n] \in Seq(Known)
        BY DEF IInv, Types
      <3>2. \A i \in DOMAIN events[n] : events[n][i] \in ImportOrNone
        BY <2>1, <3>1 DEF IInv, NumbersInv
      <3>3. QED
        BY <3>1, <3>2
    <2>4. \A n \in Imports : spc[n] \in ClassesOf(0..clock) \cup {None}
      <3> SUFFICES ASSUME NEW n \in Imports, spc[n] # None PROVE spc[n] \in ClassesOf(0..clock)
        OBVIOUS
      <3> DEFINE s == spc[n]
      <3>1. s \in ClassesOf(Nat) /\ s.version <= clock /\ s.gen <= clock
        BY DEF IInv, Types, Classes, NumbersInv
      <3> HIDE DEF s
      <3>2. s.version \in 0..clock /\ s.gen \in 0..clock
        BY <3>1 DEF ClassesOf, IInv, Types
      <3>3. s \in ClassesOf(0..clock)
        BY <3>1, <3>2 DEF ClassesOf
      <3>4. QED
        BY <3>3 DEF s
    <2>5. QED
      BY <2>2, <2>3, <2>4 DEF IInv, Types, WorkInv, TypeOK
  <1>2. QED
    BY Invariance, <1>1, PTL

-----------------------------------------------------------------------------
(* The contract, for one import. *)

\* What number stands for, in a state and in the next one.
LEMMA Numbers ==
    ASSUME IInv, NEW n \in Imports
    PROVE  /\ Number(ssi[n]) \in Nat /\ Number(spc[n]) \in Nat
           /\ Number(ssi[n]) <= clock + 1 /\ Number(spc[n]) <= clock + 1
           /\ ssi[n] # None <=> Number(ssi[n]) # 0
           /\ spc[n] # None <=> Number(spc[n]) # 0
           /\ ssi[n] # None => ssi[n].gen \in Nat /\ Number(ssi[n]) = ssi[n].gen + 1
           /\ spc[n] # None => spc[n].gen \in Nat /\ Number(spc[n]) = spc[n].gen + 1
           /\ clock \in Nat
  <1>1. /\ ssi[n] # None => ssi[n].gen \in Nat /\ ssi[n].gen <= clock
        /\ spc[n] # None => spc[n].gen \in Nat /\ spc[n].gen <= clock
        /\ clock \in Nat
    BY DEF IInv, Types, NumbersInv, Issued, Known, Classes, ImportsOf, ClassesOf
  <1>2. QED
    BY <1>1 DEF Number

\* The user's step asks for something later than all there was.
LEMMA UsersAsk ==
    ASSUME IInv, NEW n \in Imports, NEW x \in Known, ImportBecomes(n, x),
           x # None => x.gen = clock + 1 /\ x.uid <= clock + 1
    PROVE  Contract(n)!Ask
  <1>1. /\ ssi'[n] = x /\ spc' = spc /\ n \notin meddled'
    BY DEF ImportBecomes, IInv, Types
  <1>2. Number(x) \in Nat /\ (x # None => Number(x) = clock + 2)
    BY Numbers DEF Number
  <1>3. Number(ssi[n])' = Number(x) /\ Number(spc[n])' = Number(spc[n])
    BY <1>1 DEF Number
  <1>4. Number(ssi[n])' = 0 \/ (Number(ssi[n])' > Number(ssi[n]) /\ Number(ssi[n])' > Number(spc[n]))
    BY <1>2, <1>3, Numbers DEF Number
  <1>5. (n \in meddled)' = FALSE
    BY <1>1
  <1>6. QED
    BY <1>2, <1>3, <1>4, <1>5 DEF Contract!Ask

\* A write gives the class of an import no older than its last, none newer
\* than the one there is.
LEMMA WriteProvides ==
    ASSUME IInv, NEW w \in Workers, work[w] # None, NEW n \in Imports, n = work[w].name,
           Write(n, Stored(work[w].import, clock + 1)), UNCHANGED <<ssi, meddled>>
    PROVE  Contract(n)!Provide
  <1> DEFINE x == work[w].import
  <1>1. x \in ImportsOf(Nat) /\ x # None /\ x.gen \in Nat /\ HandInv(n, x)
    <2>1. x \in ImportsOf(Nat) /\ HandInv(n, x)
      BY DEF IInv, Types, InHand, WorkInv
    <2>2. QED
      BY <2>1, NoneAssumption DEF NoneAssumption, ImportsOf
  <1>2. PICK c \in ClassesOf(Nat) : spc' = [spc EXCEPT ![n] = c] /\ c.gen = x.gen
    BY WriteMakes
  <1> HIDE DEF x
  <1>3. spc'[n] = c /\ c # None
    BY <1>2, NoneAssumption DEF NoneAssumption, IInv, Types
  <1>4. Number(spc[n])' = x.gen + 1 /\ Number(ssi[n])' = Number(ssi[n])
    BY <1>2, <1>3 DEF Number
  <1>5. x.gen + 1 >= Number(spc[n])
    BY <1>1, Numbers DEF HandInv, MadeUpto
  <1>6. Number(ssi[n]) # 0 => x.gen + 1 <= Number(ssi[n])
    BY <1>1, Numbers DEF HandInv, Upto
  <1>7. UNCHANGED (n \in meddled)
    OBVIOUS
  <1>8. QED
    BY <1>1, <1>4, <1>5, <1>6, <1>7 DEF Contract!Provide

\* The collector takes only the class of what is no more.
LEMMA CollectDrops ==
    ASSUME IInv, NEW n \in Imports, Collect(n)
    PROVE  Contract(n)!Drop
  <1>1. /\ spc[n] # None /\ (ssi[n] # None => ssi[n].uid # spc[n].content.owner)
        /\ spc'[n] = None /\ UNCHANGED <<ssi, meddled>>
    BY DEF Collect, IInv, Types
  <1>2. Number(spc[n]) # Number(ssi[n])
    <2>1. MadeUpto(spc[n], ssi[n])
      BY DEF IInv, ChainInv
    <2>2. QED
      BY <1>1, <2>1, Numbers DEF MadeUpto
  <1>3. Number(spc[n])' = 0 /\ Number(ssi[n])' = Number(ssi[n])
    BY <1>1 DEF Number
  <1>4. UNCHANGED (n \in meddled)
    BY <1>1
  <1>5. QED
    BY <1>2, <1>3, <1>4 DEF Contract!Drop

\* Others may disturb it.
LEMMA MeddleDisturbs ==
    ASSUME IInv, NEW n \in Imports, Meddle(n)
    PROVE  Contract(n)!Disturb
  <1>1. spc[n] # None /\ n \in meddled' /\ UNCHANGED ssi
    BY DEF Meddle
  <1>2. spc[n] \in ClassesOf(Nat) /\ clock \in Nat
    BY <1>1 DEF IInv, Types, Classes
  <1>3. \/ spc'[n] = None
        \/ spc'[n] # None /\ spc'[n].gen = spc[n].gen
    <2>1. CASE spc' = [spc EXCEPT ![n] = None]
      BY <2>1 DEF IInv, Types
    <2>2. CASE spc' = [spc EXCEPT ![n].content.objects = <<>>, ![n].version = clock + 1]
      <3>1. spc'[n].gen = spc[n].gen
        BY <1>2, <2>2 DEF IInv, Types, ClassesOf
      <3>2. QED
        BY <3>1
    <2>3. QED
      BY <2>1, <2>2 DEF Meddle
  <1>4. Number(spc[n])' \in {0, Number(spc[n])} /\ Number(ssi[n])' = Number(ssi[n])
    BY <1>1, <1>3 DEF Number
  <1>5. (n \in meddled)' = TRUE
    BY <1>1
  <1>6. QED
    BY <1>4, <1>5 DEF Contract!Disturb

\* A patch of labels is nothing to the user.
LEMMA HookIsQuiet ==
    ASSUME IInv, NEW n \in Imports, HookPatch(n)
    PROVE  UNCHANGED Contract(n)!vars
  <1>1. UNCHANGED <<ssi, meddled>>
    BY DEF HookPatch
  <1>2. CASE spc' = spc
    BY <1>1, <1>2 DEF Contract!vars, Number
  <1>3. CASE spc[n] # None /\ spc' = [spc EXCEPT ![n].heritage = FALSE, ![n].version = clock + 1]
    <2>1. spc[n] \in ClassesOf(Nat) /\ clock \in Nat
      BY <1>3 DEF IInv, Types, Classes
    <2>2. spc'[n].gen = spc[n].gen /\ spc'[n] \in ClassesOf(Nat)
      <3> DEFINE s == spc[n]
                 v == clock + 1
                 c == [s EXCEPT !.heritage = FALSE, !.version = v]
      <3>0. spc' = [spc EXCEPT ![n] = c]
        BY <1>3
      <3>1. s \in ClassesOf(Nat) /\ v \in Nat /\ s = spc[n]
        BY <2>1
      <3> HIDE DEF s, v
      <3>2. c \in ClassesOf(Nat) /\ c.gen = s.gen
        BY <3>1 DEF ClassesOf
      <3> HIDE DEF c
      <3>3. QED
        BY <3>0, <3>1, <3>2 DEF IInv, Types
    <2>3. Number(spc[n])' = Number(spc[n])
      BY <1>3, <2>2, NoneAssumption DEF NoneAssumption, Number
    <2>4. QED
      BY <1>1, <2>3 DEF Contract!vars, Number
  <1>4. QED
    BY <1>2, <1>3 DEF HookPatch

LEMMA ContractStep ==
    ASSUME IInv, [Next]_vars, NEW n \in Imports
    PROVE  [Contract(n)!Next]_(Contract(n)!vars)
  <1>1. CASE UNCHANGED <<ssi, spc, meddled>>
    BY <1>1 DEF Contract!vars, Number
  <1>2. ASSUME NEW m \in Imports, CreateImport(m) \/ EditImport(m) \/ DeleteImport(m)
        PROVE  [Contract(n)!Next]_(Contract(n)!vars)
    <2>1. PICK x \in Known : /\ ImportBecomes(m, x)
                             /\ x # None => x.gen = clock + 1 /\ x.uid <= clock + 1
      BY <1>2, UsersWrite
    <2>2. CASE m = n
      BY <2>1, <2>2, UsersAsk DEF Contract!Next
    <2>3. CASE m # n
      <3>1. ssi'[n] = ssi[n] /\ spc' = spc /\ (n \in meddled)' = (n \in meddled)
        BY <2>1, <2>3 DEF ImportBecomes, IInv, Types
      <3>2. QED
        BY <3>1 DEF Contract!vars, Number
    <2>4. QED
      BY <2>2, <2>3
  <1>3. ASSUME NEW w \in Workers, Reconciles(w) \/ RequestFails(w)
        PROVE  [Contract(n)!Next]_(Contract(n)!vars)
    <2>1. UNCHANGED <<ssi, meddled>>
      BY <1>3 DEF Reconciles, Begin, GetSPC, WriteSPC, WriteRefused, RequestFails, cluster
    <2>2. CASE UNCHANGED spc
      BY <1>1, <2>1, <2>2
    <2>3. CASE work[w] # None /\ Write(work[w].name, Stored(work[w].import, clock + 1))
      <3>1. CASE work[w].name = n
        BY <2>1, <2>3, <3>1, WriteProvides DEF Contract!Next
      <3>2. CASE work[w].name # n
        <4>1. spc'[n] = spc[n]
          BY <2>3, <3>2, WriteMakes DEF IInv, Types
        <4>2. QED
          BY <2>1, <4>1 DEF Contract!vars, Number
      <3>3. QED
        BY <3>1, <3>2
    <2>4. QED
      BY <1>3, <2>2, <2>3 DEF Reconciles, Begin, GetSPC, WriteSPC, WriteRefused, RequestFails, cluster
  <1>4. ASSUME NEW m \in Imports, Collect(m) \/ Meddle(m) \/ HookPatch(m)
        PROVE  [Contract(n)!Next]_(Contract(n)!vars)
    <2>1. CASE m = n
      BY <1>4, <2>1, CollectDrops, MeddleDisturbs, HookIsQuiet DEF Contract!Next
    <2>2. CASE m # n
      <3>1. ssi' = ssi /\ spc'[n] = spc[n] /\ (n \in meddled)' = (n \in meddled)
        BY <1>4, <2>2 DEF Collect, Meddle, HookPatch, IInv, Types
      <3>2. QED
        BY <3>1 DEF Contract!vars, Number
    <2>3. QED
      BY <2>1, <2>2
  <1>5. CASE StartManager \/ Crash \/ HookSnapshot \/ (\E m \in Imports : WatchDelivers(m)) \/ UNCHANGED vars
    BY <1>1, <1>5 DEF StartManager, Crash, HookSnapshot, WatchDelivers, vars, cluster
  <1>6. QED
    BY <1>2, <1>3, <1>4, <1>5 DEF Next

\* At the start the class of an import is absent or was made from it as it is.
LEMMA ContractInit ==
    ASSUME Init, NEW n \in Imports
    PROVE  Contract(n)!Init
  <1>1. PICK old \in SUBSET Imports, spec \in Specs :
          /\ ssi = [m \in Imports |-> IF m \in old THEN [uid |-> 0, gen |-> 0, spec |-> spec] ELSE None]
          /\ spc \in [Imports -> {None} \cup {OldClass(ssi[m]) : m \in old}]
          /\ \A m \in Imports : m \notin old => spc[m] = None
    BY DEF Init, OldClass
  <1>2. IInv /\ (n \in meddled) = FALSE
    <2>1. meddled = {}
      BY DEF Init
    <2>2. QED
      BY <2>1, InitInv
  <1>3. Number(spc[n]) \in {0, Number(ssi[n])}
    <2>1. CASE spc[n] = None
      BY <2>1 DEF Number
    <2>2. CASE spc[n] # None
      <3>1. n \in old
        BY <1>1, <2>2
      <3>2. ssi[n] # None
        <4>1. ssi[n] = [uid |-> 0, gen |-> 0, spec |-> spec]
          BY <1>1, <3>1
        <4>2. ssi[n] \in ImportsOf(Nat)
          BY <4>1 DEF ImportsOf
        <4>3. QED
          BY <4>2, NoneAssumption DEF NoneAssumption
      <3>3. spc[n].gen <= clock /\ ssi[n].gen <= clock /\ clock = 0
        BY <1>2, <2>2, <3>2 DEF IInv, NumbersInv, Issued, Init
      <3>4. spc[n].gen = 0 /\ ssi[n].gen = 0
        BY <1>2, <2>2, <3>2, <3>3, Numbers
      <3>5. QED
        BY <2>2, <3>2, <3>4 DEF Number
    <2>3. QED
      BY <2>1, <2>2
  <1>4. QED
    BY <1>2, <1>3, Numbers DEF Contract!Init

\* Whatever workers, retries, restarts, the collector and the hook do, the
\* class of every import behaves as its user is promised.
THEOREM KeepsItsContract == Spec => KeepsContract
  <1>1. Init => \A n \in Imports : Contract(n)!Init
    BY ContractInit
  <1>2. IInv /\ [Next]_vars => [\A n \in Imports : [Contract(n)!Next]_(Contract(n)!vars)]_vars
    BY ContractStep
  <1>3. QED
    BY <1>1, <1>2, Invariance, PTL DEF Spec, KeepsContract

\* An SPC that stays is never made from an older state of its import than it
\* was, which is what the contract says of the steps of everyone.
THEOREM NeverGoesBack == Spec => NeverBackwards
  <1>1. ASSUME IInv, [Next]_vars
        PROVE  \A n \in Imports : spc[n] # None /\ spc'[n] # None => spc'[n].gen >= spc[n].gen
    <2> SUFFICES ASSUME NEW n \in Imports, spc[n] # None, spc'[n] # None
                 PROVE  spc'[n].gen >= spc[n].gen
      OBVIOUS
    <2>1. /\ Number(spc[n]) = spc[n].gen + 1 /\ spc[n].gen \in Nat
      BY <1>1, Numbers
    <2>2. Number(spc[n])' = spc'[n].gen + 1 /\ spc'[n].gen \in Nat
      <3>1. IInv'
        BY <1>1, Inductive
      <3>2. spc'[n] \in ClassesOf(Nat)
        BY <3>1 DEF IInv, Types, Classes
      <3>3. QED
        BY <3>2 DEF Number, ClassesOf
    <2>3. [Contract(n)!Next]_(Contract(n)!vars)
      BY <1>1, ContractStep
    <2>4. Number(spc[n])' >= Number(spc[n])
      BY <2>1, <2>2, <2>3 DEF Contract!Next, Contract!vars, Contract!Ask, Contract!Provide,
                              Contract!Drop, Contract!Disturb
    <2>5. QED
      BY <2>1, <2>2, <2>4
  <1>2. QED
    BY <1>1, Invariance, PTL DEF Spec, NeverBackwards

-----------------------------------------------------------------------------
(* No import is forgotten. *)

\* The watch is behind by what it has to deliver, and by nothing else.
Abreast(n) ==
  IF events[n] = <<>> THEN cached[n] = ssi[n] ELSE events[n][Len(events[n])] = ssi[n]

InHandOf(w, n) == work[w] # None /\ work[w].name = n

Fulfilled(n) == spc[n] # None /\ spc[n].content = Build(ssi[n]) /\ ~spc[n].heritage

\* With nothing to deliver and no key queued, a worker has the present state in
\* hand, or none does and the SPC is right.
Accounted(n) ==
  events[n] = <<>> /\ n \notin queue =>
    /\ \A w \in Workers : InHandOf(w, n) => work[w].import = ssi[n]
    /\ \/ \E w \in Workers : InHandOf(w, n)
       \/ n \in meddled \/ ssi[n] = None \/ Fulfilled(n)

PendingInv == synced => \A n \in Imports : Abreast(n) /\ Accounted(n)

\* Nothing about n changes but that the SPC may be made right or its key queued.
LEMMA SameAccount ==
    ASSUME NEW n, Abreast(n) /\ Accounted(n),
           UNCHANGED <<ssi[n], cached[n], events[n]>>,
           n \in queue => n \in queue',
           n \in meddled => n \in meddled',
           \A w \in Workers : InHandOf(w, n)' <=> InHandOf(w, n),
           \A w \in Workers : InHandOf(w, n) => work'[w].import = work[w].import,
           Fulfilled(n) => Fulfilled(n)' \/ n \in meddled'
    PROVE  Abreast(n)' /\ Accounted(n)'
  <1>1. Abreast(n)'
    BY DEF Abreast
  <1>2. Accounted(n)'
    BY DEF Accounted
  <1>3. QED
    BY <1>1, <1>2

LEMMA UsersAccount ==
    ASSUME IInv, PendingInv, NEW n \in Imports, NEW x \in Known, ImportBecomes(n, x)
    PROVE  PendingInv'
  <1> SUFFICES ASSUME synced, NEW m \in Imports PROVE Abreast(m)' /\ Accounted(m)'
    BY DEF PendingInv, ImportBecomes
  <1>1. /\ ssi' = [ssi EXCEPT ![n] = x]
        /\ events' = [events EXCEPT ![n] = Append(events[n], x)]
        /\ UNCHANGED <<spc, cached, queue, work>>
        /\ meddled' = meddled \ {n}
    BY DEF ImportBecomes
  <1>2. CASE m = n
    <2>1. ssi'[n] = x /\ events'[n] = Append(events[n], x) /\ events[n] \in Seq(Known)
      BY <1>1 DEF IInv, Types
    <2>2. events'[n] # <<>> /\ events'[n][Len(events'[n])] = x
      BY <2>1
    <2>3. QED
      BY <1>2, <2>1, <2>2 DEF Abreast, Accounted
  <1>3. CASE m # n
    <2>1. ssi'[m] = ssi[m] /\ events'[m] = events[m]
      BY <1>1, <1>3 DEF IInv, Types
    <2>2. QED
      BY <1>1, <1>3, <2>1, SameAccount DEF PendingInv, InHandOf, Fulfilled
  <1>4. QED
    BY <1>2, <1>3

LEMMA StartAccounts ==
    ASSUME IInv, StartManager
    PROVE  PendingInv'
  <1> SUFFICES ASSUME NEW n \in Imports PROVE Abreast(n)' /\ Accounted(n)'
    BY DEF PendingInv
  <1>1. /\ cached' = ssi /\ ssi' = ssi /\ events'[n] = <<>> /\ work' = work
        /\ queue' = {m \in Imports : ssi[m] # None}
        /\ \A w \in Workers : work[w] = None
    BY DEF StartManager, cluster, IInv, RestInv
  <1>2. QED
    BY <1>1 DEF Abreast, Accounted, InHandOf

\* What is delivered next does not change what is delivered last.
LEMMA TailKeepsLast ==
    ASSUME NEW S, NEW s \in Seq(S), s # <<>>, Len(s) # 1
    PROVE  Tail(s) # <<>> /\ Tail(s)[Len(Tail(s))] = s[Len(s)]
  <1>1. Len(s) \in Nat /\ Len(s) # 0
    BY EmptySeq
  <1>2. Tail(s) \in Seq(S) /\ Len(Tail(s)) = Len(s) - 1
    BY HeadTailProperties
  <1> DEFINE k == Len(s) - 1
  <1>3. k \in 1..Len(Tail(s)) /\ k + 1 = Len(s) /\ k = Len(Tail(s))
    BY <1>1, <1>2
  <1>4. \A i \in 1..Len(Tail(s)) : Tail(s)[i] = s[i + 1]
    BY HeadTailProperties
  <1> HIDE DEF k
  <1>5. Tail(s)[k] = s[k + 1]
    BY <1>3, <1>4
  <1>6. Tail(s) # <<>>
    <2>1. Len(<<>>) = 0
      OBVIOUS
    <2>2. Len(Tail(s)) # 0
      BY <1>3
    <2>3. QED
      BY <2>1, <2>2
  <1>7. QED
    BY <1>3, <1>5, <1>6

LEMMA DeliverAccounts ==
    ASSUME IInv, PendingInv, NEW n \in Imports, WatchDelivers(n)
    PROVE  PendingInv'
  <1>1. /\ events[n] # <<>>
        /\ cached' = [cached EXCEPT ![n] = Head(events[n])]
        /\ events' = [events EXCEPT ![n] = Tail(events[n])]
        /\ queue' = queue \cup {n}
        /\ UNCHANGED <<ssi, spc, work, synced, meddled>>
    BY DEF WatchDelivers, cluster
  <1> SUFFICES ASSUME synced, NEW m \in Imports PROVE Abreast(m)' /\ Accounted(m)'
    BY <1>1 DEF PendingInv
  <1>2. CASE m = n
    <2>1. events[n] \in Seq(Known) /\ cached'[n] = Head(events[n]) /\ events'[n] = Tail(events[n])
      BY <1>1 DEF IInv, Types
    <2>2. events[n][Len(events[n])] = ssi[n]
      BY <1>1 DEF PendingInv, Abreast
    <2>3. CASE Len(events[n]) = 1
      BY <1>1, <1>2, <2>1, <2>2, <2>3 DEF Abreast, Accounted
    <2>4. CASE Len(events[n]) # 1
      <3>1. events'[n] # <<>> /\ events'[n][Len(events'[n])] = events[n][Len(events[n])]
        BY <1>1, <2>1, <2>4, TailKeepsLast
      <3>2. QED
        BY <1>1, <1>2, <2>2, <3>1 DEF Abreast, Accounted
    <2>5. QED
      BY <2>3, <2>4
  <1>3. CASE m # n
    <2>1. cached'[m] = cached[m] /\ events'[m] = events[m]
      BY <1>1, <1>3 DEF IInv, Types
    <2>2. QED
      BY <1>1, <2>1, SameAccount DEF PendingInv, InHandOf, Fulfilled
  <1>4. QED
    BY <1>2, <1>3

LEMMA BeginAccounts ==
    ASSUME IInv, PendingInv, NEW w \in Workers, NEW n \in Imports, Begin(w, n)
    PROVE  PendingInv'
  <1>1. /\ work[w] = None /\ n \in queue /\ ~InWork(n)
        /\ queue' = queue \ {n}
        /\ UNCHANGED <<ssi, spc, cached, events, synced, meddled>>
    BY DEF Begin, cluster
  <1> DEFINE h == [name |-> n, import |-> cached[n], step |-> "get", seen |-> 0]
  <1>2. work' = IF cached[n] = None THEN work ELSE [work EXCEPT ![w] = h]
    BY DEF Begin
  <1>3. h.name = n /\ h.import = cached[n] /\ (cached[n] # None => h # None)
    <2>1. cached[n] # None => h \in InHand
      BY DEF IInv, Types, Known, InHand
    <2>2. QED
      BY <2>1, NoneAssumption
  <1> HIDE DEF h
  <1> SUFFICES ASSUME synced, NEW m \in Imports PROVE Abreast(m)' /\ Accounted(m)'
    BY <1>1 DEF PendingInv
  <1>4. Abreast(m) /\ Accounted(m)
    BY DEF PendingInv
  <1>5. \A v \in Workers : work'[v] = IF v = w /\ cached[n] # None THEN h ELSE work[v]
    BY <1>2 DEF IInv, Types
  <1>6. CASE m = n
    <2>1. Abreast(n)'
      BY <1>1, <1>4, <1>6 DEF Abreast
    <2>2. \A v \in Workers : ~InHandOf(v, n)
      BY <1>1 DEF InWork, InHandOf
    <2>3. ASSUME events[n] = <<>>
          PROVE  cached[n] = ssi[n]
      BY <1>4, <1>6, <2>3 DEF Abreast
    <2>4. CASE cached[n] = None
      BY <1>1, <1>5, <1>6, <2>1, <2>2, <2>3, <2>4 DEF Accounted, InHandOf
    <2>5. CASE cached[n] # None
      <3>1. InHandOf(w, n)' /\ work'[w].import = cached[n]
        BY <1>3, <1>5, <2>5 DEF InHandOf
      <3>2. \A v \in Workers : v # w => ~InHandOf(v, n)'
        BY <1>5, <2>2 DEF InHandOf
      <3>3. QED
        BY <1>1, <1>6, <2>1, <2>3, <3>1, <3>2 DEF Accounted
    <2>6. QED
      BY <2>4, <2>5
  <1>7. CASE m # n
    <2>1. \A v \in Workers : InHandOf(v, m)' <=> InHandOf(v, m)
      BY <1>1, <1>3, <1>5, <1>7 DEF InHandOf
    <2>2. \A v \in Workers : InHandOf(v, m) => work'[v].import = work[v].import
      BY <1>1, <1>5 DEF InHandOf
    <2>3. QED
      BY <1>1, <1>4, <1>7, <2>1, <2>2, SameAccount DEF Fulfilled
  <1>8. QED
    BY <1>6, <1>7

LEMMA GetAccounts ==
    ASSUME IInv, PendingInv, NEW w \in Workers, GetSPC(w)
    PROVE  PendingInv'
  <1>1. UNCHANGED <<ssi, spc, cached, events, synced, meddled, queue>> /\ work[w] # None
    BY DEF GetSPC, At, cluster
  <1>2. work[w] \in InHand
    BY <1>1 DEF IInv, Types
  <1> DEFINE s == spc[work[w].name]
             h == IF s = None THEN [work[w] EXCEPT !.step = "create"]
                  ELSE [work[w] EXCEPT !.step = "update", !.seen = s.version]
  <1>3. s # None => s.version \in Nat
    BY <1>2 DEF IInv, Types, InHand, Classes, ClassesOf
  <1>4. h.name = work[w].name /\ h.import = work[w].import /\ h \in InHand
    BY <1>2, <1>3 DEF InHand
  <1>5. work' = [work EXCEPT ![w] = h]
    BY DEF GetSPC
  <1>6. h # None
    BY <1>4, NoneAssumption
  <1> HIDE DEF h
  <1> SUFFICES ASSUME synced, NEW m \in Imports PROVE Abreast(m)' /\ Accounted(m)'
    BY <1>1 DEF PendingInv
  <1>7. \A v \in Workers : work'[v] = IF v = w THEN h ELSE work[v]
    BY <1>5 DEF IInv, Types
  <1>8. \A v \in Workers : /\ InHandOf(v, m)' <=> InHandOf(v, m)
                           /\ InHandOf(v, m) => work'[v].import = work[v].import
    BY <1>1, <1>4, <1>6, <1>7 DEF InHandOf
  <1>9. QED
    BY <1>1, <1>8, SameAccount DEF PendingInv, Fulfilled

\* A write of the import in hand makes the SPC what that import asks for.
LEMMA WriteFulfils ==
    ASSUME IInv, NEW w \in Workers, work[w] # None, work[w].import = ssi[work[w].name],
           Write(work[w].name, Stored(work[w].import, clock + 1))
    PROVE  LET n == work[w].name
           IN  spc'[n] # None /\ spc'[n].content = Build(ssi[n]) /\ ~spc'[n].heritage
  <1> DEFINE n == work[w].name
             x == work[w].import
             new == Stored(x, clock + 1)
  <1>1. n \in Imports /\ x \in ImportsOf(Nat) /\ clock \in Nat /\ x = ssi[n]
    BY DEF IInv, Types, InHand
  <1>2. new \in ClassesOf(Nat) /\ new.content = Build(x)
    BY <1>1, StoredIsClass
  <1>3. ~new.heritage
    BY DEF Stored
  <1>4. Write(n, new)
    OBVIOUS
  <1> HIDE DEF n, x, new
  <1>5. CASE spc[n] # None /\ spc[n].content = new.content /\ ~spc[n].heritage
    <2> DEFINE c == [spc[n] EXCEPT !.gen = new.gen]
    <2>1. spc'[n] = c
      BY <1>1, <1>4, <1>5 DEF Write, IInv, Types
    <2>2. spc[n] \in ClassesOf(Nat) /\ new.gen \in Nat
      BY <1>1, <1>2, <1>5 DEF IInv, Types, Classes, ClassesOf
    <2>3. c \in ClassesOf(Nat) /\ c.content = new.content /\ ~c.heritage
      BY <1>5, <2>2 DEF ClassesOf
    <2> HIDE DEF c
    <2>4. c # None
      BY <2>3, NoneAssumption
    <2>5. QED
      BY <1>1, <1>2, <2>1, <2>3, <2>4 DEF n
  <1>6. CASE ~(spc[n] # None /\ spc[n].content = new.content /\ ~spc[n].heritage)
    <2>1. spc'[n] = new
      BY <1>1, <1>4, <1>6 DEF Write, IInv, Types
    <2>2. new # None
      BY <1>2, NoneAssumption
    <2>3. QED
      BY <1>1, <1>2, <1>3, <2>1, <2>2 DEF n
  <1>7. QED
    BY <1>5, <1>6

LEMMA WritesAccount ==
    ASSUME IInv, PendingInv, NEW w \in Workers, WriteSPC(w) \/ WriteRefused(w) \/ RequestFails(w)
    PROVE  PendingInv'
  <1> PICK n, x : n = work[w].name /\ x = work[w].import
    OBVIOUS
  <1>1. /\ work[w] # None /\ work' = [work EXCEPT ![w] = None]
        /\ UNCHANGED <<ssi, cached, events, synced, meddled>>
        /\ \/ Write(n, Stored(x, clock + 1)) /\ queue' = queue
           \/ (Write(n, Stored(x, clock + 1)) \/ UNCHANGED spc) /\ queue' = queue \cup {n}
    BY DEF WriteSPC, WriteRefused, RequestFails, Finish, cluster
  <1>2. n \in Imports
    BY <1>1 DEF IInv, Types, InHand
  <1> SUFFICES ASSUME synced, NEW m \in Imports PROVE Abreast(m)' /\ Accounted(m)'
    BY <1>1 DEF PendingInv
  <1>3. Abreast(m) /\ Accounted(m)
    BY DEF PendingInv
  <1>4. Abreast(m)'
    BY <1>1, <1>3 DEF Abreast
  <1>5. \A v \in Workers : work'[v] = IF v = w THEN None ELSE work[v]
    BY <1>1 DEF IInv, Types
  <1>6. CASE m = n
    <2>1. \A v \in Workers : InHandOf(v, n) => v = w
      BY <1>1 DEF IInv, WorkInv, InHandOf
    <2>2. \A v \in Workers : ~InHandOf(v, n)'
      BY <1>5, <2>1 DEF InHandOf
    <2>3. ASSUME events'[n] = <<>>, n \notin queue'
          PROVE  Fulfilled(n)'
      <3>1. InHandOf(w, n)
        BY <1>1 DEF InHandOf
      <3>2. x = ssi[n] /\ Write(n, Stored(x, clock + 1))
        BY <1>1, <1>3, <1>6, <2>3, <3>1 DEF Accounted
      <3>3. spc'[n] # None /\ spc'[n].content = Build(ssi[n]) /\ ~spc'[n].heritage
        BY <1>1, <3>2, WriteFulfils
      <3>4. ssi' = ssi
        BY <1>1
      <3>5. QED
        BY <3>3, <3>4 DEF Fulfilled
    <2>4. Accounted(m)'
      BY <1>6, <2>2, <2>3 DEF Accounted
    <2>5. QED
      BY <1>4, <2>4
  <1>7. CASE m # n
    <2>1. spc'[m] = spc[m]
      BY <1>1, <1>2, <1>7 DEF Write, IInv, Types
    <2>2. \A v \in Workers : /\ InHandOf(v, m)' <=> InHandOf(v, m)
                             /\ InHandOf(v, m) => work'[v].import = work[v].import
      BY <1>1, <1>5, <1>7 DEF InHandOf
    <2>3. (m \in queue => m \in queue') /\ m \in meddled' <=> m \in meddled
      BY <1>1
    <2>4. Fulfilled(m) => Fulfilled(m)'
      BY <1>1, <2>1 DEF Fulfilled
    <2>5. UNCHANGED <<ssi[m], cached[m], events[m]>> /\ (m \in queue => m \in queue') /\ (m \in meddled => m \in meddled')
      BY <1>1
    <2>6. QED
      BY <1>3, <2>2, <2>4, <2>5, SameAccount
  <1>8. QED
    BY <1>6, <1>7

\* The collector takes only an SPC that is not its import's, the hook the label.
LEMMA OthersAccount ==
    ASSUME IInv, PendingInv, NEW n \in Imports, Collect(n) \/ Meddle(n) \/ HookPatch(n)
    PROVE  PendingInv'
  <1>1. UNCHANGED <<ssi, cached, events, queue, work, synced>>
    BY DEF Collect, Meddle, HookPatch, controller
  <1> SUFFICES ASSUME synced, NEW m \in Imports PROVE Abreast(m)' /\ Accounted(m)'
    BY <1>1 DEF PendingInv
  <1>2. /\ \A v \in Workers : InHandOf(v, m)' <=> InHandOf(v, m)
        /\ \A v \in Workers : InHandOf(v, m) => work'[v].import = work[v].import
        /\ UNCHANGED <<ssi[m], cached[m], events[m]>> /\ (m \in queue => m \in queue')
    BY <1>1 DEF InHandOf
  <1>3. m \in meddled => m \in meddled'
    BY DEF Collect, Meddle, HookPatch
  <1>4. m # n => spc'[m] = spc[m]
    BY DEF Collect, Meddle, HookPatch, IInv, Types
  <1>5. CASE m # n
    <2>1. Fulfilled(m) => Fulfilled(m)'
      BY <1>1, <1>4, <1>5 DEF Fulfilled
    <2>2. QED
      BY <1>2, <1>3, <2>1, SameAccount DEF PendingInv
  <1>6. CASE m = n /\ Meddle(n)
    <2>1. m \in meddled'
      BY <1>6 DEF Meddle
    <2>2. QED
      BY <1>2, <1>3, <2>1, SameAccount DEF PendingInv
  <1>7. CASE m = n /\ HookPatch(n)
    <2>1. ASSUME Fulfilled(n) PROVE Fulfilled(n)'
      BY <1>1, <1>7, <2>1 DEF Fulfilled, HookPatch, IInv, Types
    <2>2. QED
      BY <1>2, <1>3, <1>7, <2>1, SameAccount DEF PendingInv
  <1>8. CASE m = n /\ Collect(n)
    <2>1. CASE ssi[n] = None
      BY <1>1, <1>2, <1>8, <2>1 DEF PendingInv, Abreast, Accounted
    <2>2. CASE ssi[n] # None
      <3>1. ~Fulfilled(n)
        BY <1>8, <2>2 DEF Collect, Fulfilled, Build
      <3>2. QED
        BY <1>2, <1>3, <1>8, <3>1, SameAccount DEF PendingInv
    <2>3. QED
      BY <2>1, <2>2
  <1>9. QED
    BY <1>5, <1>6, <1>7, <1>8

LEMMA PendingStep == IInv /\ PendingInv /\ [Next]_vars => PendingInv'
  <1> SUFFICES ASSUME IInv, PendingInv, [Next]_vars PROVE PendingInv'
    OBVIOUS
  <1>1. ASSUME NEW n \in Imports, CreateImport(n) \/ EditImport(n) \/ DeleteImport(n)
        PROVE  PendingInv'
    BY <1>1, UsersWrite, UsersAccount
  <1>2. ASSUME NEW w \in Workers, Reconciles(w) \/ RequestFails(w)
        PROVE  PendingInv'
    BY <1>2, BeginAccounts, GetAccounts, WritesAccount DEF Reconciles
  <1>3. CASE UNCHANGED <<ssi, spc, cached, events, queue, work, synced, meddled>>
    BY <1>3 DEF PendingInv, Abreast, Accounted, InHandOf, Fulfilled
  <1>4. CASE HookSnapshot \/ UNCHANGED vars
    BY <1>3, <1>4 DEF HookSnapshot, vars, cluster, controller
  <1>5. CASE Crash
    BY <1>5 DEF Crash, PendingInv
  <1>6. QED
    BY <1>1, <1>2, <1>4, <1>5, StartAccounts, DeliverAccounts, OthersAccount DEF Next

LEMMA PendingInvariance == Spec => []PendingInv
  <1>1. Init => PendingInv
    BY DEF Init, PendingInv
  <1>2. QED
    BY <1>1, PendingStep, Invariance, PTL DEF Spec

\* No key, event or refused write of an import is ever lost.
THEOREM ForgetsNoImport == Spec => []IdleMeansSettled
  <1>1. PendingInv => IdleMeansSettled
    BY DEF PendingInv, Accounted, InHandOf, Fulfilled, IdleMeansSettled, Idle, InWork, Settled
  <1>2. QED
    BY <1>1, PendingInvariance, PTL
=============================================================================
