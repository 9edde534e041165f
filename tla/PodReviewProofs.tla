--------------------------- MODULE PodReviewProofs ---------------------------
(***************************************************************************)
(* What a review of a pod promises, for any manifests, images, sources,    *)
(* number of reviews and bounds: TriesEverySecret, RunsTheSame and         *)
(* NoBareReference of PodMutation.  The three depend on what the world did *)
(* while the review ran, so they need more than the invariant of           *)
(* PodMutationProofs: an invariant each, said of one review, that holds    *)
(* from its first step to its last.                                        *)
(***************************************************************************)
EXTENDS PodMutationProofs

-----------------------------------------------------------------------------
(* Whose step it is. *)

SameReview(q) ==
  /\ work'[q] = work[q] /\ asked'[q] = asked[q]
  /\ verdict'[q] = verdict[q] /\ since'[q] = since[q]

LEMMA OthersRest ==
    ASSUME IInv, NEW r \in Reviews, NEW q \in Reviews, q # r,
           Handle(r) \/ TimeOut(r) \/ \E pod \in Submitted : Review(r, pod)
    PROVE  SameReview(q) /\ UNCHANGED world
  <1>1. /\ work \in [Reviews -> Works] /\ verdict \in [Reviews -> Verdicts]
        /\ asked \in [Reviews -> Pods \cup {None}] /\ since \in [Reviews -> Notes]
    BY DEF IInv, Types
  <1>2. CASE LookUp(r)
    BY <1>1, <1>2 DEF LookUp, SameReview
  <1>3. CASE LookUpFails(r)
    BY <1>1, <1>3 DEF LookUpFails, Refuse, Fail, SameReview, world
  <1>4. CASE Leave(r)
    BY <1>1, <1>4 DEF Leave, SameReview
  <1>5. CASE Mutate(r)
    BY <1>1, <1>5 DEF Mutate, SameReview
  <1>6. CASE AskRegistry(r)
    BY <1>1, <1>6 DEF AskRegistry, SameReview
  <1>7. CASE Served(r)
    BY <1>1, <1>7 DEF Served, SameReview
  <1>8. CASE Denied(r)
    BY <1>1, <1>8 DEF Denied, AttemptFails, Refuse, SameReview
  <1>9. CASE FetchFails(r)
    BY <1>1, <1>9 DEF FetchFails, AttemptFails, Refuse, Fail, SameReview
  <1>10. CASE Fetched(r)
    BY <1>1, <1>10 DEF Fetched, SameReview
  <1>11. CASE Finish(r)
    BY <1>1, <1>11 DEF Finish, Admit, SameReview
  <1>12. CASE TimeOut(r)
    BY <1>1, <1>12 DEF TimeOut, SameReview
  <1>13. CASE \E pod \in Submitted : Review(r, pod)
    BY <1>1, <1>13 DEF Review, Admit, Refuse, SameReview
  <1>14. QED
    BY <1>2, <1>3, <1>4, <1>5, <1>6, <1>7, <1>8, <1>9, <1>10, <1>11, <1>12, <1>13 DEF Handle

-----------------------------------------------------------------------------
(* The pull secrets. *)

\* As long as no request failed, the attempts ahead include every secret that
\* gives access to the image.
Tried(r) ==
  LET w == work[r]
  IN  /\ w.pc = "fetch" =>
           /\ w.attempts # <<>>
           /\ ~since[r].faulted =>
                \A s \in ToSet(imagePullSecrets(asked[r])) :
                  Current(w).image \in Opens[s] => \E j \in DOMAIN w.attempts : w.attempts[j] = <<s>>
      /\ verdict[r] = "no image" /\ ~since[r].faulted =>
           /\ Current(w).image \notin Public
           /\ \A s \in ToSet(asked[r].imagePullSecrets) : Current(w).image \notin Opens[s]

LEMMA OneElement == \A S : \A s \in Seq(S) : Len(s) = 1 => s = <<s[1]>>
  OBVIOUS

LEMMA TailIsLeft ==
    ASSUME NEW S, NEW s \in Seq(S), Len(s) > 1
    PROVE  Tail(s) # <<>>
  <1>1. Tail(s) \in Seq(S) /\ Len(Tail(s)) = Len(s) - 1
    OBVIOUS
  <1>2. Len(Tail(s)) # 0
    BY <1>1
  <1>3. QED
    BY <1>1, <1>2, EmptySeq

LEMMA NamedSecrets ==
    ASSUME NEW pod
    PROVE  ToSet(pod.imagePullSecrets) \subseteq ToSet(imagePullSecrets(pod))
  <1>1. CASE pod.imagePullSecrets = <<>>
    <2>1. ToSet(<<>>) = {}
      BY DEF ToSet
    <2>2. QED
      BY <1>1, <2>1
  <1>2. CASE pod.imagePullSecrets # <<>>
    BY <1>2 DEF imagePullSecrets
  <1>3. QED
    BY <1>1, <1>2

LEMMA AttemptsCover ==
    ASSUME NEW pod \in Pods, NEW s \in ToSet(imagePullSecrets(pod))
    PROVE  \E j \in DOMAIN Attempts(pod) : Attempts(pod)[j] = <<s>>
  <1> DEFINE all == imagePullSecrets(pod)
             n   == Len(all)
             f   == [i \in 1..n |-> <<all[n + 1 - i]>>]
  <1>1. all \in Seq(PullSecrets) /\ n \in Nat
    BY AttemptsAre
  <1>2. PICK i \in 1..n : s = all[i]
    BY <1>1 DEF ToSet
  <1>3. Attempts(pod) = <<all>> \o (IF n < 2 THEN <<>> ELSE f)
    BY DEF Attempts
  <1>4. CASE n < 2
    <2>1. n = 1 /\ s = all[1]
      <3>1. \A k \in Nat : \A j \in 1..k : k < 2 => k = 1 /\ j = 1
        OBVIOUS
      <3> HIDE DEF all, n
      <3>2. QED
        BY <1>1, <1>2, <1>4, <3>1
    <2>3. all = <<s>>
      BY <1>1, <2>1, OneElement
    <2>2. Attempts(pod) = <<all>> \o <<>>
      BY <1>3, <1>4
    <2> HIDE DEF all
    <2>4. 1 \in DOMAIN Attempts(pod) /\ Attempts(pod)[1] = all
      BY <2>2
    <2>5. QED
      BY <2>3, <2>4
  <1>5. CASE ~(n < 2)
    <2>1. n + 1 - i \in 1..n /\ n + 1 - (n + 1 - i) = i
      BY <1>1, <1>2
    <2> DEFINE k == n + 1 - i
    <2>2. f[k] = <<s>>
      BY <1>2, <2>1
    <2>3. f \in Seq(Seq(PullSecrets)) /\ Len(f) = n
      <3>1. \A m \in 1..n : n + 1 - m \in 1..n
        BY <1>1
      <3>2. f \in [1..n -> Seq(PullSecrets)]
        BY <1>1, <3>1
      <3> HIDE DEF f, n
      <3>3. QED
        BY <1>1, <3>2, SeqDef
    <2>4. Attempts(pod) = <<all>> \o f
      BY <1>3, <1>5
    <2>5. k \in 1..n
      BY <2>1
    <2> HIDE DEF f, k, n, all
    <2>6. 1 + k \in DOMAIN Attempts(pod) /\ Attempts(pod)[1 + k] = f[k]
      BY <1>1, <2>3, <2>4, <2>5
    <2>7. QED
      BY <2>2, <2>6
  <1>6. QED
    BY <1>4, <1>5

LEMMA OneOpens ==
    ASSUME NEW s, NEW image \in Opens[s]
    PROVE  ~MayDeny(image, <<s>>)
  <1>1. s \in ToSet(<<s>>) /\ Len(<<s>>) = 1
    BY DEF ToSet
  <1>2. QED
    BY <1>1 DEF MayDeny, MayServe

LEMMA TailKeeps ==
    ASSUME NEW S, NEW t \in Seq(S), NEW j \in DOMAIN t, j # 1
    PROVE  \E k \in DOMAIN Tail(t) : Tail(t)[k] = t[j]
  <1>1. j - 1 \in DOMAIN Tail(t) /\ Tail(t)[j - 1] = t[j]
    OBVIOUS
  <1>2. QED
    BY <1>1

LEMMA TriedRests ==
    ASSUME NEW q \in Reviews, SameReview(q), Tried(q)
    PROVE  Tried(q)'
  BY DEF SameReview, Tried, Current

\* A step of its handler after which it asks no registry.
LEMMA TriedElse ==
    ASSUME NEW r \in Reviews, work'[r].pc # "fetch", verdict'[r] # "no image"
    PROVE  Tried(r)'
  BY DEF Tried

\* Where a review is, as the steps find it.
LEMMA Phase ==
    ASSUME IInv, NEW r \in Reviews
    PROVE  /\ Working(work[r]) => verdict[r] # "no image"
           /\ work[r].pc = "idle" => verdict[r] # "no image"
           /\ work \in [Reviews -> Works] /\ verdict \in [Reviews -> Verdicts]
           /\ asked \in [Reviews -> Pods \cup {None}] /\ since \in [Reviews -> Notes]
  BY DEF IInv, Types, RInv

LEMMA WrapLooks ==
    ASSUME NEW w \in Works, NEW config
    PROVE  Wrap(w, config).pc = "look" /\ Advance(w).pc = "look"
  BY DEF Wrap, Advance, Works

LEMMA TriedByAsking ==
    ASSUME IInv, NEW r \in Reviews, AskRegistry(r)
    PROVE  Tried(r)'
  <1> DEFINE w == work[r]
  <1>1. Working(w)
    BY DEF AskRegistry, LookedUp, LookingAtContainer, Working
  <1>2. /\ w \in Works /\ w.pod \in Pods /\ InWork(w, asked[r]) /\ verdict[r] # "no image"
    BY <1>1, UnderWay
  <1>3. /\ work' = [work EXCEPT ![r] = [w EXCEPT !.pc = "fetch", !.attempts = Attempts(w.pod)]]
        /\ UNCHANGED <<verdict, asked, since>>
    BY DEF AskRegistry
  <1>4. /\ work'[r].attempts = Attempts(w.pod) /\ work'[r].pod = w.pod /\ work'[r].at = w.at
    BY <1>2, <1>3, Phase DEF Works
  <1>5. imagePullSecrets(asked[r]) = imagePullSecrets(w.pod)
    BY <1>2 DEF InWork, Partly, imagePullSecrets
  <1>6. Attempts(w.pod) # <<>>
    BY <1>2, AttemptsAre
  <1>7. \A s \in ToSet(imagePullSecrets(asked[r])) :
          \E j \in DOMAIN work'[r].attempts : work'[r].attempts[j] = <<s>>
    BY <1>2, <1>4, <1>5, AttemptsCover
  <1>8. QED
    BY <1>2, <1>3, <1>4, <1>6, <1>7 DEF Tried

LEMMA TriedByFailing ==
    ASSUME IInv, NEW r \in Reviews, Tried(r), Denied(r) \/ FetchFails(r)
    PROVE  Tried(r)'
  <1> DEFINE w == work[r]
             image == Current(w).image
  <1>1. w.pc = "fetch" /\ Working(w)
    BY DEF Denied, FetchFails, Working
  <1>2. /\ w \in Works /\ w.pod \in Pods /\ verdict[r] \in {"pending", "timed out"}
    BY <1>1, UnderWay
  <1>3. w.attempts \in Seq(Seq(PullSecrets)) /\ w.attempts # <<>>
    BY <1>1, <1>2 DEF Works, Tried
  <1>4. AttemptFails(r) /\ asked' = asked
    BY DEF Denied, FetchFails
  <1>5. \/ since' = since /\ MayDeny(image, Head(w.attempts))
        \/ since'[r].faulted
    BY Phase DEF Denied, FetchFails, Fail, Notes
  <1>6. CASE Len(w.attempts) > 1
    <2>1. /\ work'[r].attempts = Tail(w.attempts) /\ work'[r].pod = w.pod /\ work'[r].at = w.at
          /\ verdict'[r] # "no image"
      <3>1. /\ work' = [work EXCEPT ![r] = [w EXCEPT !.attempts = Tail(w.attempts)]]
            /\ verdict' = verdict
        BY <1>4, <1>6 DEF AttemptFails
      <3>2. QED
        BY <1>2, <3>1, Phase DEF Works
    <2>2. Tail(w.attempts) # <<>>
      BY <1>3, <1>6, TailIsLeft
    <2>3. ASSUME ~since'[r].faulted, NEW s \in ToSet(imagePullSecrets(asked[r])), image \in Opens[s]
          PROVE  \E j \in DOMAIN Tail(w.attempts) : Tail(w.attempts)[j] = <<s>>
      <3>1. since' = since /\ MayDeny(image, Head(w.attempts))
        BY <1>5, <2>3
      <3>2. PICK j \in DOMAIN w.attempts : w.attempts[j] = <<s>>
        BY <1>1, <2>3, <3>1 DEF Tried
      <3>3. ~MayDeny(image, <<s>>)
        BY <2>3, OneOpens
      <3>4. j # 1
        BY <1>3, <3>1, <3>2, <3>3
      <3>5. QED
        BY <1>3, <3>2, <3>4, TailKeeps
    <2>4. Current(work'[r]) = Current(w)
      BY <2>1 DEF Current
    <2>5. QED
      BY <1>4, <2>1, <2>2, <2>3, <2>4 DEF Tried
  <1>7. CASE ~(Len(w.attempts) > 1)
    <2>1. work'[r].pc = "done" /\ work'[r].pod = w.pod /\ work'[r].at = w.at
      <3>1. work' = [work EXCEPT ![r] = [w EXCEPT !.pc = "done"]]
        BY <1>4, <1>7 DEF AttemptFails, Refuse
      <3>2. QED
        BY <1>2, <3>1, Phase DEF Works
    <2>2. Current(work'[r]) = Current(w)
      BY <2>1 DEF Current
    <2>3. ASSUME ~since'[r].faulted
          PROVE  image \notin Public /\ \A s \in ToSet(asked[r].imagePullSecrets) : image \notin Opens[s]
      <3>1. since' = since /\ MayDeny(image, Head(w.attempts))
        BY <1>5, <2>3
      <3>2. ASSUME NEW s \in ToSet(imagePullSecrets(asked[r])), image \in Opens[s]
            PROVE  FALSE
        <4>1. PICK j \in DOMAIN w.attempts : w.attempts[j] = <<s>>
          BY <1>1, <2>3, <3>1, <3>2 DEF Tried
        <4>2. ~MayDeny(image, <<s>>)
          BY <3>2, OneOpens
        <4>3. j = 1
          BY <1>3, <1>7
        <4>4. QED
          BY <1>3, <3>1, <4>1, <4>2, <4>3
      <3>3. ToSet(asked[r].imagePullSecrets) \subseteq ToSet(imagePullSecrets(asked[r]))
        BY NamedSecrets
      <3>4. QED
        BY <3>1, <3>2, <3>3 DEF MayDeny
    <2>4. QED
      BY <1>4, <2>1, <2>2, <2>3 DEF Tried
  <1>8. QED
    BY <1>6, <1>7

LEMMA TriedStep ==
    ASSUME IInv, NEW r \in Reviews, Tried(r),
           Handle(r) \/ TimeOut(r) \/ \E pod \in Submitted : Review(r, pod)
    PROVE  Tried(r)'
  <1>1. CASE LookUp(r)
    <2>1. work[r].pc = "look" /\ verdict[r] # "no image"
      BY <1>1, Phase DEF LookUp, LookingAtContainer, Working
    <2>2. PICK item : work' = [work EXCEPT ![r] = Looked(work[r], item)] /\ verdict' = verdict
      BY <1>1 DEF LookUp
    <2>3. Looked(work[r], item).pc = work[r].pc
      BY Phase DEF Looked, Works
    <2>4. work'[r] = Looked(work[r], item) /\ verdict'[r] # "no image"
      BY <2>1, <2>2, Phase
    <2>5. work'[r].pc = "look"
      BY <2>1, <2>3, <2>4
    <2>6. work'[r].pc # "fetch" /\ verdict'[r] # "no image"
      BY <2>4, <2>5
    <2>7. QED
      BY <2>6, TriedElse
  <1>2. CASE LookUpFails(r)
    <2>1. work[r].pc = "look" /\ verdict[r] # "no image"
      BY <1>2, Phase DEF LookUpFails, LookingAtContainer, Working
    <2>2. work'[r].pc \in {"look", "done"} /\ verdict'[r] \in {verdict[r], "lookup failed"}
      BY <1>2, <2>1, Phase DEF LookUpFails, Refuse, Works
    <2>3. QED
      BY <2>1, <2>2, TriedElse
  <1>3. CASE Leave(r)
    <2>1. work[r].pc = "look" /\ work' = [work EXCEPT ![r] = Advance(work[r])] /\ verdict' = verdict
      BY <1>3 DEF Leave, LookedUp, LookingAtContainer
    <2>2. Advance(work[r]).pc = "look"
      BY Phase, WrapLooks
    <2>3. work'[r].pc # "fetch" /\ verdict'[r] # "no image"
      BY <2>1, <2>2, Phase DEF Working
    <2>4. QED
      BY <2>3, TriedElse
  <1>4. CASE Mutate(r)
    <2>1. PICK config : work' = [work EXCEPT ![r] = Wrap(work[r], config)] /\ verdict' = verdict
      BY <1>4 DEF Mutate
    <2>2. work[r].pc = "look"
      BY <1>4 DEF Mutate, LookedUp, LookingAtContainer
    <2>3. QED
      BY <2>1, <2>2, Phase, WrapLooks, TriedElse DEF Working
  <1>5. CASE AskRegistry(r)
    BY <1>5, TriedByAsking
  <1>6. CASE Served(r)
    <2>1. work'[r].pc = "fetched" /\ verdict' = verdict
      BY <1>6, Phase DEF Served, Works
    <2>2. QED
      BY <1>6, <2>1, Phase, TriedElse DEF Served, Working
  <1>7. CASE Denied(r) \/ FetchFails(r)
    BY <1>7, TriedByFailing
  <1>8. CASE Fetched(r)
    <2>1. work' = [work EXCEPT ![r] = Wrap(work[r], work[r].config)] /\ verdict' = verdict
      BY <1>8 DEF Fetched
    <2>2. work[r].pc = "fetched"
      BY <1>8 DEF Fetched
    <2>3. QED
      BY <2>1, <2>2, Phase, WrapLooks, TriedElse DEF Working
  <1>9. CASE Finish(r)
    <2>1. work[r].pc = "look" /\ verdict[r] # "no image" /\ Admit(r, Complete(work[r]))
      BY <1>9, Phase DEF Finish, Working
    <2>2. Complete(work[r]) \in Works
      BY <2>1, UnderWay, CompleteIs DEF Working
    <2>3. work'[r].pc = "done" /\ verdict'[r] \in {verdict[r], "admitted"}
      BY <2>1, <2>2, Phase DEF Admit, Works
    <2>4. QED
      BY <2>1, <2>3, TriedElse
  <1>10. CASE TimeOut(r)
    <2>1. UNCHANGED <<work, asked, since>> /\ verdict'[r] = "timed out"
      BY <1>10, Phase DEF TimeOut
    <2>2. QED
      BY <2>1 DEF Tried
  <1>11. CASE \E pod \in Submitted : Review(r, pod)
    <2>1. PICK pod \in Submitted : Review(r, pod)
      BY <1>11
    <2>2. [Idle EXCEPT !.pc = "look", !.pod = pod] \in Works
      BY SubmittedIs, FreshIs DEF Acceptable
    <2>3. work[r].pc = "idle" /\ verdict[r] # "no image"
      BY <2>1, Phase DEF Review
    <2>4. work'[r].pc \in {"look", "done"} /\ verdict'[r] \in {verdict[r], "admitted", "bad role"}
      <3> DEFINE w == [Idle EXCEPT !.pc = "look", !.pod = pod]
      <3>1. \/ Admit(r, w) \/ Refuse(r, w, "bad role")
            \/ work' = [work EXCEPT ![r] = w] /\ verdict' = verdict
        BY <2>1 DEF Review
      <3>2. w.pc = "look"
        BY SubmittedIs, FreshIs DEF Acceptable
      <3>3. w \in Works
        BY <2>2
      <3> HIDE DEF w
      <3>4. [w EXCEPT !.pc = "done"].pc = "done"
        BY <3>3 DEF Works
      <3>5. CASE Admit(r, w)
        BY <3>4, <3>5, Phase DEF Admit
      <3>6. CASE Refuse(r, w, "bad role")
        BY <3>4, <3>6, Phase DEF Refuse
      <3>7. CASE work' = [work EXCEPT ![r] = w] /\ verdict' = verdict
        BY <3>2, <3>7, Phase
      <3>8. QED
        BY <3>1, <3>5, <3>6, <3>7
    <2>5. QED
      BY <2>3, <2>4, TriedElse
  <1>12. QED
    BY <1>1, <1>2, <1>3, <1>4, <1>5, <1>6, <1>7, <1>8, <1>9, <1>10, <1>11 DEF Handle

LEMMA WorldIs ==
    ASSUME IInv,
           \/ \E i \in Images, v \in Versions : Push(i, v)
           \/ \E s \in Sources, keys \in SUBSET Keys : Edit(s, keys)
    PROVE  /\ UNCHANGED <<cache, work, asked, verdict>>
           /\ \A q \in Reviews : since'[q].faulted = since[q].faulted /\ since'[q].version = since[q].version
  <1>1. CASE \E i \in Images, v \in Versions : Push(i, v)
    BY <1>1 DEF Push
  <1>2. CASE \E s \in Sources, keys \in SUBSET Keys : Edit(s, keys)
    <2>1. PICK s \in Sources, keys \in SUBSET Keys : Edit(s, keys)
      BY <1>2
    <2>2. \A n \in Notes : LET m == [n EXCEPT !.steady = @ \ {s}]
                           IN  m.faulted = n.faulted /\ m.version = n.version
      BY DEF Notes
    <2>3. \A q \in Reviews : since[q] \in Notes /\ since'[q] = [since[q] EXCEPT !.steady = @ \ {s}]
      BY <2>1, Phase DEF Edit
    <2>4. UNCHANGED <<cache, work, asked, verdict>>
      BY <2>1 DEF Edit
    <2>5. QED
      BY <2>2, <2>3, <2>4
  <1>3. QED
    BY <1>1, <1>2

\* A pod is refused for want of its image only after an attempt with each of
\* its pull secrets, whatever the order of the secrets and the number of them.
THEOREM SecretsAreTried == Spec => []TriesEverySecret
  <1> DEFINE TInv == \A r \in Reviews : Tried(r)
  <1>1. Init => TInv
    <2>1. Idle.pc = "idle"
      BY DEF Idle
    <2>2. QED
      BY <2>1 DEF Init, Tried
  <1>2. IInv /\ TInv /\ [Next]_vars => TInv'
    <2> SUFFICES ASSUME IInv, TInv, [Next]_vars PROVE TInv'
      OBVIOUS
    <2>1. ASSUME NEW r \in Reviews,
                 Handle(r) \/ TimeOut(r) \/ \E pod \in Submitted : Review(r, pod)
          PROVE  TInv'
      <3>1. Tried(r)'
        BY <2>1, TriedStep
      <3>2. \A q \in Reviews : q # r => Tried(q)'
        BY <2>1, OthersRest, TriedRests
      <3>3. QED
        BY <3>1, <3>2
    <2>2. CASE \/ \E i \in Images, v \in Versions : Push(i, v)
               \/ \E s \in Sources, keys \in SUBSET Keys : Edit(s, keys)
      BY <2>2, WorldIs DEF Tried
    <2>3. CASE UNCHANGED vars
      BY <2>3 DEF vars, Tried, Current
    <2>4. QED
      BY <2>1, <2>2, <2>3 DEF Next
  <1>3. TInv => TriesEverySecret
    BY DEF Tried, TriesEverySecret
  <1>4. QED
    BY <1>1, <1>2, <1>3, Invariance, PTL DEF Spec

-----------------------------------------------------------------------------
(* The containers, before and after. *)

LEMMA AfterIs ==
    ASSUME IInv, NEW r \in Reviews, Working(work[r]), NEW i \in DOMAIN asked[r].containers
    PROVE  After(r, i) = work[r].pod.containers[i] /\ i \in Nat
  <1>1. /\ Len(work[r].pod.containers) = Len(asked[r].containers)
        /\ asked[r].containers \in Seq(Containers) /\ work[r].pod.containers \in Seq(Containers)
    BY UnderWay DEF Pods
  <1>2. i \in Nat /\ i + Len(asked[r].containers) - Len(asked[r].containers) = i
    BY <1>1
  <1>3. QED
    BY <1>1, <1>2 DEF After

\* The present container is wrapped.
LEMMA WrapShape ==
    ASSUME IInv, NEW r \in Reviews, AtContainer(r), NEW config \in Versions \cup {None},
           config # None \/ Current(work[r]).command # <<>>,
           work' = [work EXCEPT ![r] = Wrap(work[r], config)], asked' = asked
    PROVE  /\ work'[r].pc = "look" /\ work'[r].at = work[r].at + 1 /\ work'[r].item = 1
           /\ work[r].at \in DOMAIN asked[r].containers
           /\ \A i \in DOMAIN asked[r].containers :
                After(r, i)' = IF i = work[r].at THEN UnderInjector(work[r].pod, Current(work[r]), config)
                               ELSE After(r, i)
  <1> DEFINE w   == work[r]
             c   == UnderInjector(w.pod, Current(w), config)
             pod == PodWith(w.pod, w.at, c)
             v   == Wrap(w, config)
  <1>1. /\ w \in Works /\ w.pod \in Pods /\ asked[r] \in Pods /\ Working(w)
        /\ InWork(w, asked[r]) /\ w.at <= Len(asked[r].containers)
        /\ Len(w.pod.containers) = Len(asked[r].containers)
    BY UnderWay, ThereIs DEF AtContainer
  <1>2. /\ w.at \in DOMAIN asked[r].containers /\ w.at \in DOMAIN w.pod.containers
        /\ Current(w) \in Containers
    BY <1>1, CurrentIs
  <1>3. v.pc = "look" /\ v.pod = pod /\ v.at = w.at + 1 /\ v.item = 1
    BY <1>1, <1>2, WrapIs
  <1>4. c \in Containers
    BY <1>1, <1>2, UnderInjectorIs
  <1> HIDE DEF c
  <1>5. /\ pod.containers = [w.pod.containers EXCEPT ![w.at] = c]
        /\ Len(pod.containers) = Len(w.pod.containers)
    BY <1>1, <1>2, <1>4, PodWithIs
  <1>6. w.pod.containers \in Seq(Containers) /\ asked[r].containers \in Seq(Containers)
    BY <1>1 DEF Pods
  <1> HIDE DEF pod, v
  <1>7. work'[r] = v
    BY Phase DEF v
  <1>8. ASSUME NEW i \in DOMAIN asked[r].containers
        PROVE  After(r, i)' = pod.containers[i]
    <2>1. i + Len(asked[r].containers) - Len(asked[r].containers) = i
      BY <1>6
    <2>2. QED
      BY <1>1, <1>3, <1>5, <1>7, <2>1 DEF After
  <1>9. ASSUME NEW i \in DOMAIN asked[r].containers
        PROVE  pod.containers[i] = IF i = w.at THEN c ELSE w.pod.containers[i]
    BY <1>1, <1>2, <1>5, <1>6
  <1>10. \A i \in DOMAIN asked[r].containers : After(r, i) = w.pod.containers[i]
    BY <1>1, AfterIs
  <1>11. QED
    BY <1>2, <1>3, <1>7, <1>8, <1>9, <1>10 DEF c

LEMMA InFront ==
    ASSUME NEW S, NEW s \in Seq(S), NEW e \in S, NEW i \in DOMAIN s
    PROVE  Len(<<e>> \o s) = Len(s) + 1 /\ (<<e>> \o s)[i + 1] = s[i]
  OBVIOUS

\* The pod is completed.
LEMMA CompleteShape ==
    ASSUME IInv, NEW r \in Reviews, Finish(r), NEW i \in DOMAIN asked[r].containers
    PROVE  After(r, i)' = After(r, i)
  <1> DEFINE w  == work[r]
             cs == <<CopyContainer>> \o w.pod.containers
  <1>1. Working(w) /\ asked' = asked
    BY DEF Finish, Working
  <1>2. /\ w \in Works /\ w.pod \in Pods /\ asked[r] \in Pods /\ InWork(w, asked[r])
        /\ Len(w.pod.containers) = Len(asked[r].containers)
    BY <1>1, UnderWay
  <1>3. After(r, i) = w.pod.containers[i]
    BY <1>1, AfterIs
  <1>4. Complete(w) \in Works
    BY <1>2, CompleteIs
  <1>5. work'[r].pod = Complete(w).pod
    BY <1>4, Phase DEF Finish, Admit, Works
  <1>6. w.pod.containers \in Seq(Containers) /\ asked[r].containers \in Seq(Containers)
    BY <1>2 DEF Pods
  <1>7. CASE w.mutated
    <2>1. Complete(w).pod.containers = cs
      <3> DEFINE vs == w.pod.volumes \o getVolumes(w.pod)
      <3>1. Complete(w) = [w EXCEPT !.pod = [w.pod EXCEPT !.containers = cs, !.volumes = vs]]
        BY <1>2, <1>7 DEF Complete, Works, Pods
      <3> HIDE DEF cs, vs
      <3>2. QED
        BY <1>2, <3>1 DEF Works, Pods
    <2>2. CopyContainer \in Containers
      BY WordsAssumption DEF WordsAssumption, CopyContainer, Containers
    <2>3. Len(cs) = Len(w.pod.containers) + 1 /\ cs[i + 1] = w.pod.containers[i]
      <3>1. i \in DOMAIN w.pod.containers
        BY <1>2, <1>6
      <3>2. QED
        BY <1>6, <2>2, <3>1, InFront
    <2> HIDE DEF cs
    <2>4. i + Len(cs) - Len(asked[r].containers) = i + 1
      BY <1>2, <1>6, <2>3
    <2>5. QED
      BY <1>1, <1>3, <1>5, <2>1, <2>3, <2>4 DEF After
  <1>8. CASE ~w.mutated
    <2>1. Complete(w).pod = w.pod
      BY <1>8 DEF Complete
    <2>2. QED
      BY <1>1, <1>5, <2>1 DEF After
  <1>9. QED
    BY <1>7, <1>8

-----------------------------------------------------------------------------
(* The command of an image. *)

AsBefore(r, i) ==
  LET c == Before(r, i)
  IN  Runs(After(r, i)) =>
        \E k \in Oldest(r, c)..Len(history[c.image]) :
          After(r, i).args = Process(c, history[c.image][k])

\* Every container that runs under the injector so far runs what it ran before.
Faithful(r) ==
  /\ \A i \in Images : since[r].version[i] \in 1..Len(history[i])
  /\ work[r].pc = "fetched" =>
       LET image == Current(work[r]).image
       IN  \E k \in since[r].version[image]..Len(history[image]) : work[r].config = history[image][k]
  /\ work[r].pc # "idle" /\ ~Mutated(asked[r]) =>
       \A i \in DOMAIN asked[r].containers : AsBefore(r, i)

CacheInv ==
  \A i \in Images : cache[i] # None => \E k \in 1..Len(history[i]) : cache[i] = history[i][k]

LEMMA FaithfulRests ==
    ASSUME NEW q \in Reviews, SameReview(q), history' = history, Faithful(q)
    PROVE  Faithful(q)'
  BY DEF SameReview, Faithful, AsBefore, Before, After, Oldest, Current

\* A step that wraps no container.
LEMMA FaithfulStays ==
    ASSUME NEW r \in Reviews, Faithful(r), work[r].pc # "idle", work'[r].pc # "fetched",
           \A i \in DOMAIN asked[r].containers : After(r, i)' = After(r, i),
           asked'[r] = asked[r], since'[r].version = since[r].version, history' = history
    PROVE  Faithful(r)'
  <1>1. \A i \in DOMAIN asked[r].containers : AsBefore(r, i) => AsBefore(r, i)'
    BY DEF AsBefore, Before, Oldest
  <1>2. QED
    BY <1>1 DEF Faithful

\* The same process: with a command of its own the container does not depend on
\* the image, without one it takes what the image gives.
LEMMA SameProcess ==
    ASSUME NEW c \in Containers, NEW config, c.command # <<>> \/ config \in Versions
    PROVE  CommandLine(c, config) = Process(c, config)
  <1>1. c.command \in Seq(Words) /\ c.args \in Seq(Words)
    BY DEF Containers
  <1>2. CASE c.command # <<>>
    BY <1>2 DEF CommandLine, Process
  <1>3. CASE c.command = <<>>
    <2>1. config.entrypoint \in Seq(Words) /\ config.cmd \in Seq(Words)
      BY <1>3, ImagesAssumption DEF ImagesAssumption
    <2>2. CASE c.args = <<>>
      <3>1. CommandLine(c, config) = (config.entrypoint \o config.cmd) \o <<>>
        BY <1>3, <2>2 DEF CommandLine
      <3>2. Process(c, config) = config.entrypoint \o config.cmd
        BY <1>3, <2>2 DEF Process
      <3>3. config.entrypoint \o config.cmd \in Seq(Words)
        BY <2>1
      <3>4. QED
        BY <3>1, <3>2, <3>3, ConcatEmptySeq
    <2>3. CASE c.args # <<>>
      <3>1. CommandLine(c, config) = (config.entrypoint \o <<>>) \o c.args
        BY <1>3, <2>3 DEF CommandLine
      <3>2. Process(c, config) = config.entrypoint \o c.args
        BY <1>3, <2>3 DEF Process
      <3>3. QED
        BY <2>1, <3>1, <3>2, ConcatEmptySeq
    <2>4. QED
      BY <2>2, <2>3
  <1>4. QED
    BY <1>2, <1>3

LEMMA FaithfulWrap ==
    ASSUME IInv, NEW r \in Reviews, AtContainer(r), NEW config \in Versions \cup {None},
           LET c == Current(work[r])
           IN  \/ c.command # <<>>
               \/ \E k \in Oldest(r, c)..Len(history[c.image]) : config = history[c.image][k],
           config # None \/ Current(work[r]).command # <<>>,
           work' = [work EXCEPT ![r] = Wrap(work[r], config)],
           UNCHANGED <<asked, since, history>>, Faithful(r)
    PROVE  Faithful(r)'
  <1> DEFINE w == work[r]
             c == Current(w)
             u == UnderInjector(w.pod, c, config)
  <1>1. /\ work'[r].pc = "look" /\ w.at \in DOMAIN asked[r].containers
        /\ \A i \in DOMAIN asked[r].containers :
             After(r, i)' = IF i = w.at THEN u ELSE After(r, i)
    BY WrapShape
  <1>2. /\ w.pod \in Pods /\ Working(w) /\ c \in Containers /\ c.image \in Images
        /\ c = Before(r, w.at)
    BY UnderWay, ThereIs DEF AtContainer, Before
  <1>3. u.args = CommandLine(c, config)
    BY <1>2, UnderInjectorIs
  <1>4. PICK k \in Oldest(r, c)..Len(history[c.image]) : u.args = Process(c, history[c.image][k])
    <2>1. CASE c.command # <<>>
      <3>1. Oldest(r, c) <= Len(history[c.image]) /\ Oldest(r, c) \in Nat /\ Len(history[c.image]) \in Nat
        <4>1. history[c.image] \in Seq(Versions)
          BY <1>2 DEF IInv, Types
        <4>2. Len(history[c.image]) \in Nat
          BY <4>1
        <4>3. since[r].version[c.image] \in 1..Len(history[c.image])
          BY <1>2 DEF Faithful
        <4>4. QED
          BY <4>2, <4>3 DEF Oldest
      <3>2. Oldest(r, c) \in Oldest(r, c)..Len(history[c.image])
        BY <3>1
      <3>3. \A j : CommandLine(c, config) = Process(c, history[c.image][j])
        BY <2>1 DEF CommandLine, Process
      <3>4. QED
        BY <1>3, <3>2, <3>3
    <2>2. CASE c.command = <<>>
      <3>1. config \in Versions
        BY <2>2
      <3>2. QED
        BY <1>2, <1>3, <2>2, <3>1, SameProcess
    <2>3. QED
      BY <2>1, <2>2
  <1>5. ASSUME ~Mutated(asked[r]), NEW i \in DOMAIN asked[r].containers
        PROVE  AsBefore(r, i)'
    <2>1. work[r].pc # "idle"
      BY <1>2 DEF Working
    <2>2. AsBefore(r, i)
      BY <1>5, <2>1 DEF Faithful
    <2>3. CASE i = w.at
      <3>1. After(r, i)' = u
        BY <1>1, <2>3
      <3>2. Before(r, i)' = c
        BY <1>2, <2>3 DEF Before
      <3>3. \A d : Oldest(r, d)' = Oldest(r, d)
        BY DEF Oldest
      <3> HIDE DEF u, c
      <3>4. QED
        BY <1>4, <3>1, <3>2, <3>3 DEF AsBefore
    <2>4. CASE i # w.at
      <3>1. After(r, i)' = After(r, i)
        BY <1>1, <2>4
      <3>2. QED
        BY <2>2, <3>1 DEF AsBefore, Before, Oldest
    <2>5. QED
      BY <2>3, <2>4
  <1>6. QED
    BY <1>1, <1>5 DEF Faithful

\* The steps that leave the pod alone.
LEMMA PodRests ==
    ASSUME IInv, NEW r \in Reviews,
           LookUp(r) \/ LookUpFails(r) \/ Leave(r) \/ AskRegistry(r) \/ Denied(r) \/ FetchFails(r)
    PROVE  /\ Working(work[r]) /\ work'[r].pod = work[r].pod /\ work'[r].pc \in {"look", "fetch", "done"}
           /\ UNCHANGED <<asked, history, cache>> /\ since'[r].version = since[r].version
           /\ verdict'[r] # "admitted"
  <1>1. /\ Working(work[r]) /\ UNCHANGED <<asked, history, cache>>
    BY DEF LookUp, LookUpFails, Leave, AskRegistry, Denied, FetchFails, LookedUp, LookingAtContainer,
           Working, world
  <1>2. since'[r].version = since[r].version
    <2>1. CASE since' = since
      BY <2>1
    <2>2. CASE Fail(r)
      BY <2>2, Phase DEF Fail, Notes
    <2>3. QED
      BY <2>1, <2>2 DEF LookUp, LookUpFails, Leave, AskRegistry, Denied, FetchFails
  <1>3. work[r] \in Works /\ verdict[r] # "admitted"
    BY <1>1, UnderWay
  <1>4. \A pc \in Phases : /\ [work[r] EXCEPT !.pc = pc].pod = work[r].pod
                           /\ [work[r] EXCEPT !.pc = pc].pc = pc
    BY <1>3 DEF Works
  <1>5. ASSUME NEW reason, reason # "admitted", Refuse(r, work[r], reason)
        PROVE  /\ work'[r].pod = work[r].pod /\ work'[r].pc \in {"look", "fetch", "done"}
               /\ verdict'[r] # "admitted"
    <2>1. work' = [work EXCEPT ![r] = [work[r] EXCEPT !.pc = "done"]]
      BY <1>5 DEF Refuse
    <2>2. "done" \in Phases
      BY DEF Phases
    <2>3. work'[r].pod = work[r].pod /\ work'[r].pc = "done"
      BY <1>4, <2>1, <2>2, Phase
    <2>4. verdict'[r] \in {verdict[r], reason}
      BY <1>5, Phase DEF Refuse
    <2>5. QED
      BY <1>3, <1>5, <2>3, <2>4
  <1>6. CASE LookUp(r)
    <2>1. PICK item : work' = [work EXCEPT ![r] = Looked(work[r], item)]
      BY <1>6 DEF LookUp
    <2>2. Looked(work[r], item).pod = work[r].pod /\ Looked(work[r], item).pc = work[r].pc
      BY <1>3 DEF Looked, Works
    <2>3. work'[r].pod = work[r].pod /\ work'[r].pc = work[r].pc
      BY <2>1, <2>2, Phase
    <2>4. work[r].pc = "look" /\ verdict' = verdict
      BY <1>6 DEF LookUp, LookingAtContainer
    <2>5. QED
      BY <1>1, <1>2, <1>3, <2>3, <2>4
  <1>7. CASE LookUpFails(r)
    <2>1. \/ work' = [work EXCEPT ![r] = [work[r] EXCEPT !.item = @ + 1]] /\ verdict' = verdict
          \/ Refuse(r, work[r], "lookup failed")
      BY <1>7 DEF LookUpFails
    <2>2. CASE work' = [work EXCEPT ![r] = [work[r] EXCEPT !.item = @ + 1]] /\ verdict' = verdict
      <3>1. work[r].pc = "look"
        BY <1>7 DEF LookUpFails, LookingAtContainer
      <3>2. work'[r].pod = work[r].pod /\ work'[r].pc = work[r].pc
        BY <1>3, <2>2, Phase DEF Works
      <3>3. QED
        BY <1>1, <1>2, <1>3, <2>2, <3>1, <3>2
    <2>3. QED
      BY <1>1, <1>2, <1>5, <2>1, <2>2
  <1>8. CASE Leave(r)
    <2>1. Advance(work[r]).pod = work[r].pod /\ Advance(work[r]).pc = "look"
      BY <1>3 DEF Advance, Works
    <2>2. QED
      BY <1>1, <1>2, <1>3, <1>8, <2>1, Phase DEF Leave
  <1>9. CASE AskRegistry(r)
    <2>1. /\ work' = [work EXCEPT ![r] = [work[r] EXCEPT !.pc = "fetch", !.attempts = Attempts(work[r].pod)]]
          /\ verdict' = verdict
      BY <1>9 DEF AskRegistry
    <2>2. work'[r].pod = work[r].pod /\ work'[r].pc = "fetch"
      BY <1>3, <2>1, Phase DEF Works
    <2>3. QED
      BY <1>1, <1>2, <1>3, <2>1, <2>2
  <1>10. CASE Denied(r) \/ FetchFails(r)
    <2>1. work[r].pc = "fetch" /\ AttemptFails(r)
      BY <1>10 DEF Denied, FetchFails
    <2>2. CASE Len(work[r].attempts) > 1
      <3>1. work' = [work EXCEPT ![r] = [work[r] EXCEPT !.attempts = Tail(@)]] /\ verdict' = verdict
        BY <2>1, <2>2 DEF AttemptFails
      <3>2. work'[r].pod = work[r].pod /\ work'[r].pc = "fetch"
        BY <1>3, <2>1, <3>1, Phase DEF Works
      <3>3. QED
        BY <1>1, <1>2, <1>3, <3>1, <3>2
    <2>3. CASE ~(Len(work[r].attempts) > 1)
      <3>1. Refuse(r, work[r], "no image")
        BY <2>1, <2>3 DEF AttemptFails
      <3>2. QED
        BY <1>1, <1>2, <1>5, <3>1
    <2>4. QED
      BY <2>2, <2>3
  <1>11. QED
    BY <1>6, <1>7, <1>8, <1>9, <1>10

\* A review begins with the pod as it was submitted.
LEMMA Begins ==
    ASSUME IInv, NEW r \in Reviews, NEW pod \in Submitted, Review(r, pod)
    PROVE  /\ pod \in Pods /\ Acceptable(pod) /\ verdict[r] = "pending"
           /\ asked'[r] = pod /\ work'[r].pod = pod /\ UNCHANGED <<world, cache>>
           /\ since'[r] = [version |-> [i \in Images |-> Len(history[i])],
                           steady |-> Sources, faulted |-> FALSE]
           /\ \/ work'[r].pc = "done" /\ verdict'[r] = "admitted"
                 /\ (Skip(pod) \/ isPodAlreadyMutated(pod))
              \/ work'[r].pc = "done" /\ verdict'[r] = "bad role"
              \/ /\ work'[r].pc = "look" /\ verdict'[r] = "pending"
                 /\ work'[r].at = 1 /\ work'[r].item = 1
           /\ \A i \in DOMAIN pod.containers : After(r, i)' = pod.containers[i]
  <1> DEFINE w == [Idle EXCEPT !.pc = "look", !.pod = pod]
  <1>1. Acceptable(pod) /\ pod \in Pods
    BY SubmittedIs DEF Acceptable
  <1>2. w \in Works /\ w.pc = "look" /\ w.pod = pod /\ w.at = 1 /\ w.item = 1
    BY <1>1, FreshIs
  <1>3. /\ asked' = [asked EXCEPT ![r] = pod] /\ UNCHANGED <<world, cache>>
        /\ since' = [since EXCEPT ![r] =
             [version |-> [i \in Images |-> Len(history[i])], steady |-> Sources, faulted |-> FALSE]]
        /\ verdict[r] = "pending"
    BY DEF Review, IInv, RInv
  <1>4. \/ Admit(r, w) /\ (Skip(pod) \/ isPodAlreadyMutated(pod))
        \/ Refuse(r, w, "bad role")
        \/ work' = [work EXCEPT ![r] = w] /\ verdict' = verdict
    BY DEF Review
  <1> HIDE DEF w
  <1>5. [w EXCEPT !.pc = "done"].pc = "done" /\ [w EXCEPT !.pc = "done"].pod = pod
    BY <1>2 DEF Works
  <1>6. /\ work'[r].pod = pod
        /\ \/ work'[r].pc = "done" /\ verdict'[r] = "admitted"
              /\ (Skip(pod) \/ isPodAlreadyMutated(pod))
           \/ work'[r].pc = "done" /\ verdict'[r] = "bad role"
           \/ /\ work'[r].pc = "look" /\ verdict'[r] = "pending"
              /\ work'[r].at = 1 /\ work'[r].item = 1
    <2>1. CASE Admit(r, w) /\ (Skip(pod) \/ isPodAlreadyMutated(pod))
      BY <1>3, <1>5, <2>1, Phase DEF Admit
    <2>2. CASE Refuse(r, w, "bad role")
      BY <1>3, <1>5, <2>2, Phase DEF Refuse
    <2>3. CASE work' = [work EXCEPT ![r] = w] /\ verdict' = verdict
      BY <1>2, <1>3, <2>3, Phase
    <2>4. QED
      BY <1>4, <2>1, <2>2, <2>3
  <1>7. asked'[r] = pod
    BY <1>3, Phase
  <1>8. ASSUME NEW i \in DOMAIN pod.containers
        PROVE  After(r, i)' = pod.containers[i]
    <2>1. pod.containers \in Seq(Containers)
      BY <1>1 DEF Pods
    <2>2. i + Len(pod.containers) - Len(pod.containers) = i
      BY <2>1
    <2>3. QED
      BY <1>6, <1>7, <2>2 DEF After
  <1>9. QED
    BY <1>1, <1>3, <1>6, <1>7, <1>8, Phase

LEMMA SamePod ==
    ASSUME NEW r \in Reviews, work'[r].pod = work[r].pod, asked'[r] = asked[r]
    PROVE  \A i : After(r, i)' = After(r, i)
  BY DEF After

LEMMA FaithfulStep ==
    ASSUME IInv, CacheInv, NEW r \in Reviews, Faithful(r),
           Handle(r) \/ TimeOut(r) \/ \E pod \in Submitted : Review(r, pod)
    PROVE  Faithful(r)' /\ CacheInv'
  <1>1. CASE LookUp(r) \/ LookUpFails(r) \/ Leave(r) \/ AskRegistry(r) \/ Denied(r) \/ FetchFails(r)
    <2>1. /\ Working(work[r]) /\ work'[r].pod = work[r].pod /\ work'[r].pc \in {"look", "fetch", "done"}
          /\ UNCHANGED <<asked, history, cache>> /\ since'[r].version = since[r].version
      BY <1>1, PodRests
    <2>2. Faithful(r)'
      BY <2>1, SamePod, FaithfulStays DEF Working
    <2>3. QED
      BY <2>1, <2>2 DEF CacheInv
  <1>2. CASE Mutate(r)
    <2> DEFINE c == Current(work[r])
               config == IF c.command # <<>> THEN None ELSE cache[c.image]
    <2>1. AtContainer(r)
      BY <1>2 DEF Mutate, LookedUp, LookingAtContainer, AtContainer, Working
    <2>2. c.image \in Images
      BY <2>1, ThereIs
    <2>3. config \in Versions \cup {None} /\ (config # None \/ c.command # <<>>)
      BY <1>2, <2>2 DEF Mutate, IInv, Types
    <2>4. c.command # <<>> \/ \E k \in Oldest(r, c)..Len(history[c.image]) : config = history[c.image][k]
      <3>1. CASE c.command = <<>>
        <4>1. cache[c.image] # None /\ Oldest(r, c) = 1 /\ config = cache[c.image]
          BY <1>2, <3>1 DEF Mutate, IsAllowedToCache, Oldest
        <4>2. QED
          BY <2>2, <4>1 DEF CacheInv
      <3>2. QED
        BY <3>1
    <2>5. /\ work' = [work EXCEPT ![r] = Wrap(work[r], config)]
          /\ UNCHANGED <<asked, since, history, cache>>
      BY <1>2 DEF Mutate, world
    <2> HIDE DEF config
    <2>6. Faithful(r)'
      BY <2>1, <2>3, <2>4, <2>5, FaithfulWrap
    <2>7. QED
      BY <2>5, <2>6 DEF CacheInv
  <1>3. CASE Served(r)
    <2> DEFINE image == Current(work[r]).image
    <2>1. /\ work[r].pc = "fetch" /\ UNCHANGED <<asked, since, history, cache>>
          /\ work' = [work EXCEPT ![r] = [work[r] EXCEPT !.pc = "fetched", !.config = Last(history[image])]]
      BY <1>3 DEF Served, world
    <2>2. AtContainer(r) /\ work[r] \in Works
      BY <2>1, UnderWay DEF AtContainer, Working
    <2>3. image \in Images
      BY <2>2, ThereIs
    <2>4. /\ work'[r].pc = "fetched" /\ work'[r].config = Last(history[image])
          /\ work'[r].pod = work[r].pod /\ work'[r].at = work[r].at
      BY <2>1, <2>2, Phase DEF Works
    <2>5. since[r].version[image] \in 1..Len(history[image])
      BY <2>3 DEF Faithful
    <2>6. Len(history[image]) \in since[r].version[image]..Len(history[image])
      BY <2>5
    <2>7. Current(work'[r]).image = image
      BY <2>4 DEF Current
    <2>8. \A i \in DOMAIN asked[r].containers : AsBefore(r, i) => AsBefore(r, i)'
      BY <2>1, <2>4, SamePod DEF AsBefore, Before, Oldest
    <2> HIDE DEF image
    <2>9. Faithful(r)'
      BY <2>1, <2>4, <2>6, <2>7, <2>8 DEF Faithful, Last
    <2>10. QED
      BY <2>1, <2>9 DEF CacheInv
  <1>4. CASE Fetched(r)
    <2> DEFINE c == Current(work[r])
               config == work[r].config
    <2>1. AtContainer(r) /\ work[r].pc = "fetched" /\ Working(work[r])
      BY <1>4 DEF Fetched, AtContainer, Working
    <2>2. c.image \in Images
      BY <2>1, ThereIs
    <2>3. config \in Versions \cup {None} /\ config # None
      BY <2>1, UnderWay DEF Works, InWork
    <2>4. PICK k \in since[r].version[c.image]..Len(history[c.image]) : config = history[c.image][k]
      BY <2>1 DEF Faithful
    <2>5. since[r].version[c.image] \in 1..Len(history[c.image])
      BY <2>2 DEF Faithful
    <2>6. k \in 1..Len(history[c.image]) /\ k \in Oldest(r, c)..Len(history[c.image])
      BY <2>4, <2>5 DEF Oldest
    <2>7. /\ work' = [work EXCEPT ![r] = Wrap(work[r], config)] /\ UNCHANGED <<asked, since, history>>
          /\ cache' = cache \/ cache' = [cache EXCEPT ![c.image] = config]
      BY <1>4 DEF Fetched, world
    <2> HIDE DEF config
    <2>8. Faithful(r)'
      BY <2>1, <2>3, <2>4, <2>6, <2>7, FaithfulWrap
    <2>9. CacheInv'
      <3>1. cache \in [Images -> Versions \cup {None}]
        BY DEF IInv, Types
      <3> HIDE DEF c
      <3>2. QED
        BY <2>4, <2>6, <2>7, <3>1 DEF CacheInv
    <2>10. QED
      BY <2>8, <2>9
  <1>5. CASE Finish(r)
    <2>1. work[r].pc = "look" /\ Working(work[r]) /\ UNCHANGED <<history, cache, asked, since>>
      BY <1>5 DEF Finish, Working, world
    <2>2. Complete(work[r]) \in Works
      BY <2>1, UnderWay, CompleteIs
    <2>3. work'[r].pc = "done"
      BY <1>5, <2>2, Phase DEF Finish, Admit, Works
    <2>4. \A i \in DOMAIN asked[r].containers : After(r, i)' = After(r, i)
      BY <1>5, CompleteShape
    <2>5. Faithful(r)'
      BY <2>1, <2>3, <2>4, FaithfulStays
    <2>6. QED
      BY <2>1, <2>5 DEF CacheInv
  <1>6. CASE TimeOut(r)
    <2>1. UNCHANGED <<work, asked, since, history, cache>>
      BY <1>6 DEF TimeOut, world
    <2>2. QED
      BY <2>1 DEF Faithful, AsBefore, Before, After, Oldest, Current, CacheInv
  <1>7. CASE \E pod \in Submitted : Review(r, pod)
    <2>1. PICK pod \in Submitted : Review(r, pod)
      BY <1>7
    <2>2. /\ asked'[r] = pod /\ work'[r].pc \in {"look", "done"} /\ UNCHANGED <<history, cache>>
          /\ since'[r].version = [i \in Images |-> Len(history[i])]
          /\ \A i \in DOMAIN pod.containers : After(r, i)' = pod.containers[i]
      <3>1. /\ asked'[r] = pod /\ UNCHANGED <<world, cache>>
            /\ work'[r].pc \in {"look", "done"}
            /\ \A i \in DOMAIN pod.containers : After(r, i)' = pod.containers[i]
        BY <2>1, Begins
      <3>2. since'[r] = [version |-> [i \in Images |-> Len(history[i])],
                        steady |-> Sources, faulted |-> FALSE]
        BY <2>1, Begins
      <3>3. since'[r].version = [i \in Images |-> Len(history[i])]
        BY <3>2
      <3>4. QED
        BY <3>1, <3>3 DEF world
    <2>3. \A i \in Images : Len(history[i]) \in 1..Len(history[i])
      <3>1. \A i \in Images : history[i] \in Seq(Versions) /\ history[i] # <<>>
        BY DEF IInv, Types
      <3>2. QED
        BY <3>1
    <2>4. ASSUME ~Mutated(pod), NEW i \in DOMAIN pod.containers
          PROVE  AsBefore(r, i)'
      BY <2>2, <2>4 DEF AsBefore, Mutated
    <2>5. Faithful(r)'
      BY <2>2, <2>3, <2>4 DEF Faithful
    <2>6. QED
      BY <2>2, <2>5 DEF CacheInv
  <1>8. QED
    BY <1>1, <1>2, <1>3, <1>4, <1>5, <1>6, <1>7 DEF Handle

LEMMA FaithfulPush ==
    ASSUME IInv, CacheInv, \A r \in Reviews : Faithful(r), NEW i \in Images, NEW v \in Versions, Push(i, v)
    PROVE  CacheInv' /\ \A r \in Reviews : Faithful(r)'
  <1>1. /\ history' = [history EXCEPT ![i] = Append(history[i], v)]
        /\ UNCHANGED <<cache, work, asked, since>>
    BY DEF Push
  <1>2. \A j \in Images : history[j] \in Seq(Versions)
    BY DEF IInv, Types
  <1>3. \A s \in Seq(Versions) : /\ Len(Append(s, v)) = Len(s) + 1 /\ Len(s) \in Nat
                                 /\ \A k \in 1..Len(s) : Append(s, v)[k] = s[k]
    OBVIOUS
  <1>4. ASSUME NEW j \in Images
        PROVE  /\ \A k : k \in 1..Len(history[j]) => k \in 1..Len(history'[j]) /\ history'[j][k] = history[j][k]
               /\ Len(history[j]) <= Len(history'[j]) /\ Len(history[j]) \in Nat /\ Len(history'[j]) \in Nat
    <2>1. history'[j] = IF j = i THEN Append(history[j], v) ELSE history[j]
      BY <1>1 DEF IInv, Types
    <2> DEFINE h == history[j]
    <2>2. h \in Seq(Versions)
      BY <1>2
    <2> HIDE DEF h
    <2>3. history'[j] \in {h, Append(h, v)}
      BY <2>1 DEF h
    <2>4. /\ \A k : k \in 1..Len(h) => k \in 1..Len(history'[j]) /\ history'[j][k] = h[k]
          /\ Len(h) <= Len(history'[j]) /\ Len(h) \in Nat /\ Len(history'[j]) \in Nat
      BY <1>3, <2>2, <2>3
    <2>5. QED
      BY <2>4 DEF h
  <1>5. CacheInv'
    BY <1>1, <1>4 DEF CacheInv
  <1>6. ASSUME NEW r \in Reviews
        PROVE  Faithful(r)'
    <2>1. \A j \in Images : since'[r].version[j] \in 1..Len(history'[j])
      BY <1>1, <1>4 DEF Faithful
    <2>2. ASSUME NEW j \in Images, NEW first \in 1..Len(history[j])
          PROVE  \A k \in first..Len(history[j]) : k \in first..Len(history'[j]) /\ history'[j][k] = history[j][k]
      BY <1>4
    <2>3. ASSUME work[r].pc = "fetched"
          PROVE  LET image == Current(work[r]).image
                 IN  \E k \in since[r].version[image]..Len(history'[image]) : work[r].config = history'[image][k]
      <3>1. Current(work[r]).image \in Images
        BY <2>3, ThereIs DEF AtContainer, Working
      <3>2. QED
        BY <2>2, <2>3, <3>1 DEF Faithful
    <2>4. ASSUME work[r].pc # "idle", ~Mutated(asked[r]), NEW m \in DOMAIN asked[r].containers
          PROVE  AsBefore(r, m)'
      <3> DEFINE c == Before(r, m)
      <3>1. c.image \in Images
        <4>1. Clean(asked[r])
          BY <2>4 DEF IInv, RInv, Acceptable
        <4>2. QED
          BY <4>1 DEF Clean, Before
      <3>2. Oldest(r, c) \in 1..Len(history[c.image])
        <4>1. since[r].version[c.image] \in 1..Len(history[c.image])
          BY <3>1 DEF Faithful
        <4>2. Len(history[c.image]) \in Nat
          BY <1>4, <3>1
        <4>3. 1 \in 1..Len(history[c.image])
          BY <4>1, <4>2
        <4>4. QED
          BY <4>1, <4>3 DEF Oldest
      <3>3. AsBefore(r, m)
        BY <2>4 DEF Faithful
      <3>4. After(r, m)' = After(r, m) /\ Before(r, m)' = c /\ \A d : Oldest(r, d)' = Oldest(r, d)
        BY <1>1 DEF After, Before, Oldest
      <3> HIDE DEF c
      <3>5. Runs(After(r, m)) => \E k \in Oldest(r, c)..Len(history[c.image]) :
                                    After(r, m).args = Process(c, history[c.image][k])
        BY <3>3 DEF AsBefore, c
      <3>6. QED
        BY <2>2, <3>1, <3>2, <3>4, <3>5 DEF AsBefore
    <2>5. QED
      BY <1>1, <2>1, <2>3, <2>4 DEF Faithful
  <1>7. QED
    BY <1>5, <1>6

\* Injected or not, a container runs the process its user asked for, for a
\* configuration of its image that is as recent as the pull policy promises,
\* whatever is pushed and whoever else fills the cache meanwhile.
THEOREM RunsWhatWasAsked == Spec => []RunsTheSame
  <1> DEFINE FInv == CacheInv /\ \A r \in Reviews : Faithful(r)
  <1>1. Init => FInv
    <2> SUFFICES ASSUME Init PROVE FInv
      OBVIOUS
    <2>1. Idle.pc = "idle"
      BY DEF Idle
    <2>2. CacheInv
      BY DEF Init, CacheInv
    <2>3. \A i \in Images : 1 \in 1..Len(history[i])
      <3>1. \A v \in Versions : Len(<<v>>) = 1
        OBVIOUS
      <3>2. \A i \in Images : \E v \in Versions : history[i] = <<v>>
        BY DEF Init
      <3>3. QED
        BY <3>1, <3>2
    <2>4. QED
      BY <2>1, <2>2, <2>3 DEF Init, Faithful
  <1>2. IInv /\ FInv /\ [Next]_vars => FInv'
    <2> SUFFICES ASSUME IInv, FInv, [Next]_vars PROVE FInv'
      OBVIOUS
    <2>1. ASSUME NEW r \in Reviews,
                 Handle(r) \/ TimeOut(r) \/ \E pod \in Submitted : Review(r, pod)
          PROVE  FInv'
      <3>1. Faithful(r)' /\ CacheInv'
        BY <2>1, FaithfulStep
      <3>2. \A q \in Reviews : q # r => Faithful(q)'
        BY <2>1, OthersRest, FaithfulRests DEF world
      <3>3. QED
        BY <3>1, <3>2
    <2>2. ASSUME NEW i \in Images, NEW v \in Versions, Push(i, v)
          PROVE  FInv'
      BY <2>2, FaithfulPush
    <2>3. CASE \E s \in Sources, keys \in SUBSET Keys : Edit(s, keys)
      <3>1. /\ UNCHANGED <<cache, work, asked, history>>
            /\ \A q \in Reviews : since'[q].version = since[q].version
        BY <2>3, WorldIs DEF Edit
      <3>2. CacheInv'
        BY <3>1 DEF CacheInv
      <3>3. QED
        BY <3>1, <3>2 DEF Faithful, AsBefore, Before, After, Oldest
    <2>4. CASE UNCHANGED vars
      BY <2>4 DEF vars, Faithful, AsBefore, Before, After, Oldest, Current, CacheInv
    <2>5. QED
      BY <2>1, <2>2, <2>3, <2>4 DEF Next
  <1>3. IInv /\ FInv => RunsTheSame
    <2>1. ASSUME IInv, NEW r \in Reviews, verdict[r] = "admitted" PROVE work[r].pc # "idle"
      BY <2>1 DEF IInv, RInv
    <2>2. QED
      BY <2>1 DEF RunsTheSame, FreshlyAdmitted, Admitted, Faithful, AsBefore, Oldest
  <1>4. QED
    BY <1>1, <1>2, <1>3, Invariance, PTL DEF Spec

-----------------------------------------------------------------------------
(* The references to the store. *)

Bare(r, i) ==
  LET c == Before(r, i)
  IN  /\ c.name \notin vaultConfig(asked[r]).skipMutateContainers
      /\ \E k \in DOMAIN c.items : Steady(r, c.items[k])

\* What has been looked at is dealt with: in the containers behind the present
\* one, and among the values behind the next one of the present container.
Covered(r) ==
  /\ Working(work[r]) =>
       \A i \in DOMAIN asked[r].containers : i < work[r].at /\ Bare(r, i) => Runs(After(r, i))
  /\ work[r].pc = "look" =>
       \A i \in DOMAIN asked[r].containers : i = work[r].at =>
         \A k \in DOMAIN Before(r, i).items :
           k < work[r].item /\ Steady(r, Before(r, i).items[k]) => work[r].found
  /\ verdict[r] = "admitted" /\ ~Skip(asked[r]) /\ ~Mutated(asked[r]) =>
       \A i \in DOMAIN asked[r].containers : Bare(r, i) => Runs(After(r, i))

LEMMA CoveredRests ==
    ASSUME NEW q \in Reviews, SameReview(q), sources' = sources, Covered(q)
    PROVE  Covered(q)'
  BY DEF SameReview, Covered, Bare, Steady, Holds, Before, After

\* What is steady later was steady before.
Fades(r) == \A item \in Items : Steady(r, item)' => Steady(r, item)

LEMMA FadesIf ==
    ASSUME NEW r \in Reviews, sources' = sources, since'[r].steady = since[r].steady,
           since[r].faulted => since'[r].faulted
    PROVE  Fades(r)
  BY DEF Fades, Steady, Holds

LEMMA BareFades ==
    ASSUME NEW r \in Reviews, Fades(r), asked[r] \in Pods, asked'[r] = asked[r],
           NEW i \in DOMAIN asked[r].containers
    PROVE  /\ Bare(r, i)' => Bare(r, i)
           /\ Before(r, i)' = Before(r, i) /\ Before(r, i).items \in Seq(Items)
  <1>1. Before(r, i)' = Before(r, i)
    BY DEF Before
  <1>2. Before(r, i).items \in Seq(Items)
    BY ItemsAre DEF Before
  <1>3. \A k \in DOMAIN Before(r, i).items : Before(r, i).items[k] \in Items
    BY <1>2
  <1>4. QED
    BY <1>1, <1>2, <1>3 DEF Bare, Fades

LEMMA SteadyRests ==
    ASSUME IInv, NEW r \in Reviews, Handle(r) \/ TimeOut(r)
    PROVE  Fades(r) /\ asked' = asked
  <1>1. UNCHANGED <<sources, asked>>
    BY DEF Handle, LookUp, LookUpFails, Leave, Mutate, AskRegistry, Served, Denied, FetchFails, Fetched,
           Finish, TimeOut, world
  <1>2. since' = since \/ Fail(r)
    BY DEF Handle, LookUp, LookUpFails, Leave, Mutate, AskRegistry, Served, Denied, FetchFails, Fetched,
           Finish, TimeOut
  <1>3. since'[r].steady = since[r].steady /\ (since[r].faulted => since'[r].faulted)
    BY <1>2, Phase DEF Fail, Notes
  <1>4. QED
    BY <1>1, <1>3, FadesIf

\* A step that leaves the pod and the place in it, and is not about to look.
LEMMA CoveredAt ==
    ASSUME IInv, NEW r \in Reviews, Covered(r), Handle(r), Working(work[r]),
           work'[r].pc # "look", verdict'[r] # "admitted",
           work'[r].pod = work[r].pod, work'[r].at = work[r].at
    PROVE  Covered(r)'
  <1>1. Fades(r) /\ asked' = asked /\ asked[r] \in Pods
    BY SteadyRests, UnderWay
  <1>2. \A i \in DOMAIN asked[r].containers : Bare(r, i)' => Bare(r, i)
    BY <1>1, BareFades
  <1>3. \A i \in DOMAIN asked[r].containers : After(r, i)' = After(r, i)
    BY <1>1, SamePod
  <1>4. QED
    BY <1>1, <1>2, <1>3 DEF Covered

\* A step to the next container, when the present one is covered.
LEMMA CoveredNext ==
    ASSUME IInv, NEW r \in Reviews, Covered(r), Handle(r), AtContainer(r),
           work'[r].at = work[r].at + 1, work'[r].item = 1, verdict' = verdict,
           \A i \in DOMAIN asked[r].containers :
             IF i = work[r].at THEN Bare(r, i) => Runs(After(r, i)') ELSE After(r, i)' = After(r, i)
    PROVE  Covered(r)'
  <1>1. /\ Fades(r) /\ asked' = asked /\ asked[r] \in Pods /\ Working(work[r])
        /\ verdict[r] # "admitted" /\ work[r].at \in Nat
    BY SteadyRests, UnderWay, ThereIs DEF AtContainer
  <1>2. \A i \in DOMAIN asked[r].containers :
          /\ Bare(r, i)' => Bare(r, i)
          /\ Before(r, i)' = Before(r, i) /\ Before(r, i).items \in Seq(Items)
    BY <1>1, BareFades
  <1>3. asked[r].containers \in Seq(Containers)
    BY <1>1 DEF Pods
  <1>4. ASSUME NEW i \in DOMAIN asked[r].containers, i < work'[r].at, Bare(r, i)'
        PROVE  Runs(After(r, i))'
    <2>1. i < work[r].at \/ i = work[r].at
      BY <1>1, <1>3, <1>4
    <2>2. Bare(r, i)
      BY <1>2, <1>4
    <2>3. CASE i = work[r].at
      BY <2>2, <2>3 DEF Runs
    <2>4. CASE i < work[r].at
      <3>1. Runs(After(r, i)) /\ i # work[r].at
        BY <1>1, <1>3, <2>2, <2>4 DEF Covered
      <3>2. After(r, i)' = After(r, i)
        BY <3>1
      <3>3. QED
        BY <3>1, <3>2 DEF Runs
    <2>5. QED
      BY <2>1, <2>3, <2>4
  <1>5. \A i \in DOMAIN asked[r].containers : \A k \in DOMAIN Before(r, i).items : ~(k < 1)
    BY <1>2
  <1>6. QED
    BY <1>1, <1>2, <1>4, <1>5 DEF Covered

\* A value that has been looked at.
LEMMA CoveredLook ==
    ASSUME IInv, NEW r \in Reviews, Covered(r), LookUp(r) \/ LookUpFails(r),
           NEW it, it = Current(work[r]).items[work[r].item],
           work'[r].pc = "look", work'[r].at = work[r].at, work'[r].pod = work[r].pod,
           work'[r].item = work[r].item + 1, verdict' = verdict,
           work[r].found => work'[r].found, Steady(r, it)' => work'[r].found
    PROVE  Covered(r)'
  <1>1. /\ work[r].pc = "look" /\ AtContainer(r) /\ Handle(r)
    BY DEF LookUp, LookUpFails, LookingAtContainer, AtContainer, Working, Handle
  <1>2. /\ Fades(r) /\ asked' = asked /\ asked[r] \in Pods /\ Working(work[r])
        /\ verdict[r] # "admitted" /\ work[r].item \in Nat \ {0}
        /\ Current(work[r]) = asked[r].containers[work[r].at]
    BY <1>1, SteadyRests, UnderWay, ThereIs DEF AtContainer
  <1>3. \A i \in DOMAIN asked[r].containers :
          /\ Bare(r, i)' => Bare(r, i)
          /\ Before(r, i)' = Before(r, i) /\ Before(r, i).items \in Seq(Items)
    BY <1>2, BareFades
  <1>4. \A i \in DOMAIN asked[r].containers : After(r, i)' = After(r, i)
    BY <1>2, SamePod
  <1>5. ASSUME NEW i \in DOMAIN asked[r].containers, i = work[r].at,
               NEW k \in DOMAIN Before(r, i).items, k < work[r].item + 1,
               NEW o, o = Before(r, i).items[k], Steady(r, o)'
        PROVE  work'[r].found
    <2>1. k < work[r].item \/ k = work[r].item
      BY <1>2, <1>3, <1>5
    <2>2. CASE k = work[r].item
      <3>1. o = it
        BY <1>2, <1>5, <2>2 DEF Before
      <3>2. QED
        BY <1>5, <3>1
    <2>3. CASE k < work[r].item
      <3>1. o \in Items
        BY <1>3, <1>5
      <3>2. Steady(r, o)
        BY <1>2, <1>5, <3>1 DEF Fades
      <3>3. QED
        BY <1>1, <1>5, <2>3, <3>2 DEF Covered
    <2>4. QED
      BY <2>1, <2>2, <2>3
  <1>6. QED
    BY <1>1, <1>2, <1>3, <1>4, <1>5 DEF Covered

LEMMA CoveredByLooking ==
    ASSUME IInv, NEW r \in Reviews, Covered(r), LookUp(r) \/ LookUpFails(r)
    PROVE  Covered(r)'
  <1> DEFINE w  == work[r]
             it == Current(w).items[w.item]
  <1>1. w.pc = "look" /\ AtContainer(r) /\ Working(w) /\ Handle(r) /\ w.item <= Len(Current(w).items)
    BY DEF LookUp, LookUpFails, LookingAtContainer, AtContainer, Working, Handle
  <1>2. /\ w \in Works /\ w.item \in Nat \ {0} /\ Current(w).items \in Seq(Items) /\ verdict[r] # "admitted"
    BY <1>1, UnderWay, ThereIs
  <1>3. it \in Items
    BY <1>1, <1>2
  <1>4. \A o : o = it => (Steady(r, o)' => Steady(r, o))
    BY <1>1, <1>3, SteadyRests DEF Fades
  <1>5. CASE LookUp(r)
    <2>1. work' = [work EXCEPT ![r] = Looked(w, it)] /\ verdict' = verdict
      BY <1>5 DEF LookUp
    <2> DEFINE v == Looked(w, it)
    <2>2. /\ v.pc = "look" /\ v.at = w.at /\ v.pod = w.pod /\ v.item = w.item + 1
          /\ v.found = (w.found \/ Holds(it))
      <3> HIDE DEF it
      <3>1. QED
        BY <1>1, <1>2 DEF Looked, Works
    <2>3. work'[r] = v
      BY <2>1, Phase
    <2>4. ASSUME NEW o, o = it, Steady(r, o)' PROVE Holds(it)
      BY <1>4, <2>4 DEF Steady
    <2> HIDE DEF v
    <2>5. PICK o : o = it
      OBVIOUS
    <2>6. /\ work'[r].pc = "look" /\ work'[r].at = w.at /\ work'[r].pod = w.pod
          /\ work'[r].item = w.item + 1 /\ (w.found => work'[r].found)
          /\ (Steady(r, o)' => work'[r].found)
      BY <2>2, <2>3, <2>4, <2>5
    <2>7. QED
      BY <1>5, <2>1, <2>5, <2>6, CoveredLook
  <1>6. CASE LookUpFails(r) /\ it.from = "envFrom" /\ it.optional
    <2>1. work' = [work EXCEPT ![r] = [w EXCEPT !.item = @ + 1]] /\ verdict' = verdict /\ Fail(r)
      BY <1>6 DEF LookUpFails
    <2>2. /\ work'[r].pc = "look" /\ work'[r].at = w.at /\ work'[r].pod = w.pod
          /\ work'[r].item = w.item + 1 /\ work'[r].found = w.found
      <3> DEFINE n == w.item + 1
                 v == [w EXCEPT !.item = n]
      <3>1. work'[r] = v
        BY <2>1, Phase
      <3> HIDE DEF n
      <3>2. v.pc = w.pc /\ v.at = w.at /\ v.pod = w.pod /\ v.item = n /\ v.found = w.found
        BY <1>2 DEF Works
      <3>3. QED
        BY <1>1, <3>1, <3>2 DEF n
    <2>3. since'[r].faulted = TRUE
      BY <2>1, Phase DEF Fail, Notes
    <2>4. PICK o : o = it
      OBVIOUS
    <2>5. ~Steady(r, o)'
      BY <1>6, <2>3, <2>4 DEF Steady
    <2>6. QED
      BY <1>6, <2>1, <2>2, <2>4, <2>5, CoveredLook
  <1>7. CASE LookUpFails(r) /\ ~(it.from = "envFrom" /\ it.optional)
    <2>1. Refuse(r, w, "lookup failed")
      BY <1>7 DEF LookUpFails
    <2>2. work' = [work EXCEPT ![r] = [w EXCEPT !.pc = "done"]]
      BY <2>1 DEF Refuse
    <2>3. work'[r].pc = "done" /\ work'[r].pod = w.pod /\ work'[r].at = w.at
      BY <1>2, <2>2, Phase DEF Works
    <2>4. verdict'[r] # "admitted"
      BY <1>2, <2>1, Phase DEF Refuse
    <2>5. QED
      BY <1>1, <2>3, <2>4, CoveredAt
  <1>8. QED
    BY <1>5, <1>6, <1>7

LEMMA CoveredByLeaving ==
    ASSUME IInv, NEW r \in Reviews, Covered(r), Leave(r)
    PROVE  Covered(r)'
  <1> DEFINE w == work[r]
             v == Advance(w)
  <1>1. /\ w.pc = "look" /\ AtContainer(r) /\ Working(w) /\ Handle(r)
        /\ w.item > Len(Current(w).items) /\ ~NeedsInjector(w)
        /\ work' = [work EXCEPT ![r] = v] /\ verdict' = verdict /\ asked' = asked
    BY DEF Leave, LookedUp, LookingAtContainer, AtContainer, Working, Handle
  <1>2. /\ w \in Works /\ w.pod \in Pods /\ asked[r] \in Pods /\ InWork(w, asked[r])
        /\ w.item \in Nat \ {0} /\ Current(w).items \in Seq(Items)
        /\ Current(w) = asked[r].containers[w.at]
    BY <1>1, UnderWay, ThereIs
  <1>3. v.at = w.at + 1 /\ v.item = 1 /\ v.pod = w.pod
    BY <1>2 DEF Advance, Works
  <1>4. work'[r] = v
    BY <1>1, Phase
  <1> HIDE DEF v
  <1>5. \A i : After(r, i)' = After(r, i)
    BY <1>1, <1>3, <1>4, SamePod
  <1>6. ASSUME NEW i \in DOMAIN asked[r].containers, i = w.at, Bare(r, i)
        PROVE  FALSE
    <2>1. Before(r, i) = Current(w)
      BY <1>2, <1>6 DEF Before
    <2>2. vaultConfig(w.pod) = vaultConfig(asked[r])
      BY <1>2 DEF InWork, Partly, vaultConfig
    <2>3. Current(w).name \notin vaultConfig(w.pod).skipMutateContainers
      BY <1>6, <2>1, <2>2 DEF Bare
    <2>4. ~w.found
      BY <1>1, <2>3 DEF NeedsInjector
    <2>5. PICK k \in DOMAIN Before(r, i).items : Steady(r, Before(r, i).items[k])
      BY <1>6 DEF Bare
    <2>6. k < w.item
      <3> DEFINE items == Current(w).items
      <3>1. k \in DOMAIN items /\ items \in Seq(Items) /\ w.item > Len(items)
        BY <1>1, <1>2, <2>1, <2>5
      <3> HIDE DEF items
      <3>2. QED
        BY <1>2, <3>1
    <2>7. w.found
      BY <1>1, <1>6, <2>5, <2>6 DEF Covered
    <2>8. QED
      BY <2>4, <2>7
  <1>7. QED
    BY <1>1, <1>3, <1>4, <1>5, <1>6, CoveredNext

LEMMA CoveredByWrapping ==
    ASSUME IInv, NEW r \in Reviews, Covered(r), Mutate(r) \/ Fetched(r)
    PROVE  Covered(r)'
  <1> DEFINE w == work[r]
             c == Current(w)
  <1>1. AtContainer(r) /\ Handle(r) /\ Working(w) /\ asked' = asked /\ verdict' = verdict
    BY DEF Mutate, Fetched, LookedUp, LookingAtContainer, AtContainer, Working, Handle
  <1>2. c \in Containers /\ c.image \in Images /\ w.pod \in Pods /\ w \in Works /\ InWork(w, asked[r])
    BY <1>1, UnderWay, ThereIs
  <1>3. PICK config \in Versions \cup {None} :
          (config # None \/ c.command # <<>>) /\ work' = [work EXCEPT ![r] = Wrap(w, config)]
    <2>1. CASE Mutate(r)
      <3> DEFINE config == IF c.command # <<>> THEN None ELSE cache[c.image]
      <3>1. config \in Versions \cup {None} /\ (config # None \/ c.command # <<>>)
        BY <1>2, <2>1 DEF Mutate, IInv, Types
      <3>2. work' = [work EXCEPT ![r] = Wrap(w, config)]
        BY <2>1 DEF Mutate
      <3>3. QED
        BY <3>1, <3>2
    <2>2. CASE Fetched(r)
      <3>1. w.config \in Versions \cup {None} /\ w.config # None
        BY <1>2, <2>2 DEF Fetched, Works, InWork
      <3>2. work' = [work EXCEPT ![r] = Wrap(w, w.config)]
        BY <2>2 DEF Fetched
      <3>3. QED
        BY <3>1, <3>2
    <2>3. QED
      BY <2>1, <2>2
  <1>4. /\ work'[r].at = w.at + 1 /\ work'[r].item = 1
        /\ \A i \in DOMAIN asked[r].containers :
             After(r, i)' = IF i = w.at THEN UnderInjector(w.pod, c, config) ELSE After(r, i)
    BY <1>1, <1>3, WrapShape
  <1>5. Runs(UnderInjector(w.pod, c, config))
    BY <1>2, <1>3, UnderInjectorIs
  <1>6. QED
    BY <1>1, <1>4, <1>5, CoveredNext

LEMMA CoveredByFinishing ==
    ASSUME IInv, NEW r \in Reviews, Covered(r), Finish(r)
    PROVE  Covered(r)'
  <1> DEFINE w == work[r]
  <1>1. /\ w.pc = "look" /\ Working(w) /\ Handle(r) /\ w.at > Len(w.pod.containers)
        /\ Admit(r, Complete(w))
    BY DEF Finish, Working, Handle
  <1>2. /\ w \in Works /\ asked[r] \in Pods /\ Len(w.pod.containers) = Len(asked[r].containers)
        /\ Complete(w) \in Works
    BY <1>1, UnderWay, CompleteIs
  <1>3. Fades(r) /\ asked' = asked
    BY <1>1, SteadyRests
  <1>4. work'[r].pc = "done"
    BY <1>1, <1>2, Phase DEF Admit, Works
  <1>5. ASSUME NEW i \in DOMAIN asked[r].containers, Bare(r, i)'
        PROVE  Runs(After(r, i))'
    <2>1. Bare(r, i)
      BY <1>2, <1>3, <1>5, BareFades
    <2>2. w.at \in Nat /\ asked[r].containers \in Seq(Containers)
      BY <1>2 DEF Works, Pods
    <2>3. i < w.at
      BY <1>1, <1>2, <2>2
    <2>4. Runs(After(r, i))
      BY <1>1, <2>1, <2>3 DEF Covered
    <2>5. After(r, i)' = After(r, i)
      BY CompleteShape
    <2>6. QED
      BY <2>4, <2>5 DEF Runs
  <1>6. QED
    BY <1>3, <1>4, <1>5 DEF Covered, Working

LEMMA CoveredStep ==
    ASSUME IInv, NEW r \in Reviews, Covered(r),
           Handle(r) \/ TimeOut(r) \/ \E pod \in Submitted : Review(r, pod)
    PROVE  Covered(r)'
  <1>1. CASE LookUp(r) \/ LookUpFails(r)
    BY <1>1, CoveredByLooking
  <1>2. CASE Leave(r)
    BY <1>2, CoveredByLeaving
  <1>3. CASE Mutate(r) \/ Fetched(r)
    BY <1>3, CoveredByWrapping
  <1>4. CASE AskRegistry(r) \/ Served(r) \/ Denied(r) \/ FetchFails(r)
    <2>1. Working(work[r]) /\ Handle(r)
      BY <1>4 DEF AskRegistry, Served, Denied, FetchFails, LookedUp, LookingAtContainer, Working, Handle
    <2>2. work[r] \in Works /\ verdict[r] # "admitted"
      BY <2>1, UnderWay
    <2>3. work'[r].pc # "look" /\ work'[r].pod = work[r].pod /\ work'[r].at = work[r].at
          /\ verdict'[r] # "admitted"
      <3> DEFINE w == work[r]
      <3>1. CASE AskRegistry(r)
        <4>1. /\ work' = [work EXCEPT ![r] = [w EXCEPT !.pc = "fetch", !.attempts = Attempts(w.pod)]]
              /\ verdict' = verdict
          BY <3>1 DEF AskRegistry
        <4>2. QED
          BY <2>2, <4>1, Phase DEF Works
      <3>2. CASE Served(r)
        <4>1. PICK config : work' = [work EXCEPT ![r] = [w EXCEPT !.pc = "fetched", !.config = config]]
          BY <3>2 DEF Served
        <4>2. work'[r].pc = "fetched" /\ work'[r].pod = w.pod /\ work'[r].at = w.at
          BY <2>2, <4>1, Phase DEF Works
        <4>3. QED
          BY <2>2, <3>2, <4>2 DEF Served
      <3>3. CASE Denied(r) \/ FetchFails(r)
        <4>1. AttemptFails(r) /\ w.pc = "fetch"
          BY <3>3 DEF Denied, FetchFails
        <4>2. CASE Len(w.attempts) > 1
          <5>1. work' = [work EXCEPT ![r] = [w EXCEPT !.attempts = Tail(@)]] /\ verdict' = verdict
            BY <4>1, <4>2 DEF AttemptFails
          <5>2. QED
            BY <2>2, <4>1, <5>1, Phase DEF Works
        <4>3. CASE ~(Len(w.attempts) > 1)
          <5>1. Refuse(r, w, "no image")
            BY <4>1, <4>3 DEF AttemptFails
          <5>2. work' = [work EXCEPT ![r] = [w EXCEPT !.pc = "done"]]
            BY <5>1 DEF Refuse
          <5>3. work'[r].pc = "done" /\ work'[r].pod = w.pod /\ work'[r].at = w.at
            BY <2>2, <5>2, Phase DEF Works
          <5>4. verdict'[r] # "admitted"
            BY <2>2, <5>1, Phase DEF Refuse
          <5>5. QED
            BY <5>3, <5>4
        <4>4. QED
          BY <4>2, <4>3
      <3>4. QED
        BY <1>4, <3>1, <3>2, <3>3
    <2>4. QED
      BY <2>1, <2>3, CoveredAt
  <1>5. CASE Finish(r)
    BY <1>5, CoveredByFinishing
  <1>6. CASE TimeOut(r)
    <2>1. /\ UNCHANGED <<work, asked, since, world>> /\ verdict'[r] = "timed out"
      BY <1>6, Phase DEF TimeOut
    <2>2. QED
      BY <2>1 DEF world, Covered, Bare, Steady, Holds, Before, After
  <1>7. CASE \E pod \in Submitted : Review(r, pod)
    <2>1. PICK pod \in Submitted : Review(r, pod)
      BY <1>7
    <2>2. /\ pod \in Pods /\ Acceptable(pod) /\ asked'[r] = pod
          /\ \/ work'[r].pc = "done" /\ verdict'[r] = "admitted"
                /\ (Skip(pod) \/ isPodAlreadyMutated(pod))
             \/ work'[r].pc = "done" /\ verdict'[r] = "bad role"
             \/ /\ work'[r].pc = "look" /\ verdict'[r] = "pending"
                /\ work'[r].at = 1 /\ work'[r].item = 1
      BY <2>1, Begins
    <2>3. isPodAlreadyMutated(pod) => Mutated(pod)
      BY <2>2 DEF Acceptable, Clean
    <2>4. pod.containers \in Seq(Containers)
      BY <2>2 DEF Pods
    <2>5. \A i \in DOMAIN pod.containers : ~(i < 1) /\ pod.containers[i].items \in Seq(Items)
      <3>1. \A i \in 1..Len(pod.containers) : ~(i < 1)
        BY <2>4
      <3>2. DOMAIN pod.containers = 1..Len(pod.containers)
        BY <2>4
      <3>3. QED
        BY <2>2, <3>1, <3>2, ItemsAre
    <2>6. \A i \in DOMAIN pod.containers : \A k \in DOMAIN pod.containers[i].items : ~(k < 1)
      BY <2>5
    <2>7. \A i : Before(r, i)' = pod.containers[i]
      BY <2>2 DEF Before
    <2>8. QED
      BY <2>2, <2>3, <2>5, <2>6, <2>7 DEF Covered, Working
  <1>8. QED
    BY <1>1, <1>2, <1>3, <1>4, <1>5, <1>6, <1>7 DEF Handle

LEMMA CoveredEdit ==
    ASSUME IInv, NEW r \in Reviews, Covered(r), NEW s \in Sources, NEW keys \in SUBSET Keys, Edit(s, keys)
    PROVE  Covered(r)'
  <1>1. UNCHANGED <<work, verdict, asked>> /\ sources' = [sources EXCEPT ![s] = keys]
    BY DEF Edit
  <1>2. since'[r].steady = since[r].steady \ {s} /\ since'[r].faulted = since[r].faulted
    <2>1. since'[r] = [since[r] EXCEPT !.steady = @ \ {s}]
      BY DEF Edit
    <2>2. QED
      BY <2>1, Phase DEF Notes
  <1>3. Fades(r)
    <2>1. ASSUME NEW item \in Items, Steady(r, item)'
          PROVE  Steady(r, item)
      <3>1. CASE item.from = "value"
        BY <2>1, <3>1 DEF Steady, Holds
      <3>2. CASE item.from # "value"
        <4>1. item.source \in Sources /\ item.source # s /\ item.source \in since[r].steady
          BY <1>2, <2>1, <3>2 DEF Steady, Items
        <4>2. sources'[item.source] = sources[item.source]
          BY <1>1, <4>1 DEF IInv, Types
        <4>3. Holds(item)
          BY <2>1, <4>2 DEF Steady, Holds
        <4>4. QED
          BY <1>2, <2>1, <4>1, <4>3 DEF Steady
      <3>3. QED
        BY <3>1, <3>2
    <2>2. QED
      BY <2>1 DEF Fades
  <1>4. ASSUME work[r].pc # "idle"
        PROVE  asked[r] \in Pods
    BY <1>4 DEF IInv, RInv, Acceptable
  <1>5. ASSUME work[r].pc # "idle", NEW i \in DOMAIN asked[r].containers
        PROVE  /\ Bare(r, i)' => Bare(r, i)
               /\ Before(r, i)' = Before(r, i) /\ Before(r, i).items \in Seq(Items)
               /\ After(r, i)' = After(r, i)
    BY <1>1, <1>3, <1>4, <1>5, BareFades, SamePod
  <1>6. ASSUME work[r].pc # "idle", NEW i \in DOMAIN asked[r].containers,
               NEW k \in DOMAIN Before(r, i).items, NEW o, o = Before(r, i).items[k], Steady(r, o)'
        PROVE  Steady(r, o)
    <2>1. o \in Items
      BY <1>5, <1>6
    <2>2. QED
      BY <1>3, <1>6, <2>1 DEF Fades
  <1>7. verdict[r] = "admitted" => work[r].pc # "idle"
    BY DEF IInv, RInv
  <1>8. QED
    BY <1>1, <1>5, <1>6, <1>7 DEF Covered, Working

\* No reference to the store reaches an application, whatever is edited, fails
\* or is admitted meanwhile, but in the cases NoBareReference names.
THEOREM ReferencesAreFound == Spec => []NoBareReference
  <1> DEFINE CInv == \A r \in Reviews : Covered(r)
  <1>1. Init => CInv
    <2>1. Idle.pc = "idle"
      BY DEF Idle
    <2>2. QED
      BY <2>1 DEF Init, Covered, Working
  <1>2. IInv /\ CInv /\ [Next]_vars => CInv'
    <2> SUFFICES ASSUME IInv, CInv, [Next]_vars PROVE CInv'
      OBVIOUS
    <2>1. ASSUME NEW r \in Reviews,
                 Handle(r) \/ TimeOut(r) \/ \E pod \in Submitted : Review(r, pod)
          PROVE  CInv'
      <3>1. Covered(r)'
        BY <2>1, CoveredStep
      <3>2. \A q \in Reviews : q # r => Covered(q)'
        BY <2>1, OthersRest, CoveredRests DEF world
      <3>3. QED
        BY <3>1, <3>2
    <2>2. CASE \E i \in Images, v \in Versions : Push(i, v)
      <3>1. UNCHANGED <<sources, work, verdict, asked, since>>
        BY <2>2 DEF Push
      <3>2. QED
        BY <3>1, CoveredRests DEF SameReview
    <2>3. CASE \E s \in Sources, keys \in SUBSET Keys : Edit(s, keys)
      BY <2>3, CoveredEdit
    <2>4. CASE UNCHANGED vars
      BY <2>4, CoveredRests DEF vars, SameReview
    <2>5. QED
      BY <2>1, <2>2, <2>3, <2>4 DEF Next
  <1>3. CInv => NoBareReference
    BY DEF Covered, NoBareReference, FreshlyAdmitted, Admitted, Bare, Steady
  <1>4. QED
    BY <1>1, <1>2, <1>3, Invariance, PTL DEF Spec
=============================================================================
