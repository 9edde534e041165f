---------------------- MODULE SecretResolutionProofs ----------------------
(***************************************************************************)
(* Theorems of SecretResolution, for any templates, paths, contents and    *)
(* any number of changes: its types, that one environment shows one        *)
(* version of a path, that no template is resolved by a second write, that *)
(* what is resolved while Vault stands still is what it means, and when a  *)
(* restart means a change and no template reaches the application.         *)
(***************************************************************************)
EXTENDS SecretResolution, SequenceTheorems, TLAPS

\* What an injector has cached is what Vault has held, or has answered.
CacheInv ==
  \A key \in DOMAIN cache :
    /\ key \in Paths \X BOOLEAN
    /\ cache[key] # Missing
    /\ cache[key] \in (IF key[2] THEN {WriteReply[key[1]]} ELSE Contents[key[1]])

TypeInv == TypeOK /\ CacheInv

-----------------------------------------------------------------------------
(* The constants.                                                          *)

\* Every value Vault holds is a piece.
LEMMA ContentsArePieces ==
  ASSUME NEW p \in Paths, NEW d \in Contents[p], d # Missing
  PROVE  \A k \in DOMAIN d : d[k] \in Pieces
<1> DEFINE Values(e) == {e[k] : k \in DOMAIN e}
<1>1. d \in Data(p)
  BY DEF Data
<1>2. Values(d) \subseteq UNION {Values(e) : e \in Data(p)}
  BY <1>1
<1>3. UNION {Values(e) : e \in Data(p)} \subseteq VaultPieces
  BY DEF VaultPieces
<1> QED
  BY <1>2, <1>3 DEF Pieces

\* Every value Vault answers a write with is a piece.
LEMMA RepliesArePieces ==
  ASSUME NEW p \in Paths, WriteReply[p] # Missing
  PROVE  \A k \in DOMAIN WriteReply[p] : WriteReply[p][k] \in Pieces
<1> DEFINE Reply(q) == IF WriteReply[q] = Missing THEN {}
                       ELSE {WriteReply[q][k] : k \in DOMAIN WriteReply[q]}
<1>1. {WriteReply[p][k] : k \in DOMAIN WriteReply[p]} \subseteq UNION {Reply(q) : q \in Paths}
  OBVIOUS
<1>2. UNION {Reply(q) : q \in Paths} \subseteq Pieces
  BY DEF Pieces, ReplyPieces
<1> QED
  BY <1>1, <1>2

\* The parts of a template are references to paths.
LEMMA PartsAreReferences ==
  ASSUME NEW n \in Names
  PROVE  /\ n # None
         /\ Parts(n) \in Seq(References)
         /\ Len(Parts(n)) \in Nat
         /\ \A i \in 1..Len(Parts(n)) :
              /\ Parts(n)[i].path \in Paths
              /\ Parts(n)[i].update \in BOOLEAN
<1>1. n # None /\ Parts(n) \in Seq(References)
  BY TemplateAssumption DEF TemplateAssumption
<1>2. \A i \in 1..Len(Parts(n)) : Parts(n)[i] \in References
  BY <1>1, ElementOfSeq
<1> QED
  BY <1>1, <1>2, LenProperties DEF References

-----------------------------------------------------------------------------
(* The data of a part.                                                     *)

\* The reference a step works on is a part of its template.
LEMMA DueIsPart ==
  ASSUME TypeOK, NEW n \in todo, Current(n)
  PROVE  /\ n \in Names /\ n # None
         /\ Len(pieces) \in Nat
         /\ Len(pieces) + 1 \in 1..Len(Parts(n))
         /\ Due(n).path \in Paths
         /\ Due(n).update \in BOOLEAN
         /\ Key(Due(n)) \in Paths \X BOOLEAN
<1>1. n \in Names
  BY DEF TypeOK, InjectorOK
<1>2. Len(pieces) \in Nat
  BY DEF TypeOK, InjectorOK
<1>3. Len(pieces) + 1 \in 1..Len(Parts(n))
  <2>1. CASE at = None
    <3>1. pieces = <<>>
      BY <2>1 DEF TypeOK, InjectorOK
    <3>2. Parts(n) # <<>> /\ Parts(n) \in Seq(References)
      BY <1>1, PartsAreReferences DEF Current
    <3>3. Len(Parts(n)) >= 1
      BY <3>2
    <3> QED
      BY <3>1, <3>3, <1>1, PartsAreReferences
  <2>2. CASE at # None
    <3>1. at = n
      BY <2>2 DEF Current
    <3> QED
      BY <3>1, <2>2, <1>1, <1>2, PartsAreReferences DEF TypeOK, InjectorOK
  <2> QED
    BY <2>1, <2>2
<1>4. Due(n).path \in Paths /\ Due(n).update \in BOOLEAN
  BY <1>1, <1>3, PartsAreReferences DEF Due
<1> QED
  BY <1>1, <1>2, <1>3, <1>4, PartsAreReferences DEF Key

\* Data that are found are Vault's, and its values are pieces.
LEMMA GotIsVaults ==
  ASSUME TypeInv, NEW part, part.path \in Paths, part.update \in BOOLEAN, Got(part) # Missing
  PROVE  /\ Got(part) \in (IF part.update THEN {WriteReply[part.path]} ELSE Contents[part.path])
         /\ \A k \in DOMAIN Got(part) : Got(part)[k] \in Pieces
<1>1. Got(part) \in (IF part.update THEN {WriteReply[part.path]} ELSE Contents[part.path])
  <2>1. CASE Requested(part)
    BY <2>1 DEF Got, TypeInv, TypeOK, StoreOK
  <2>2. CASE ~Requested(part)
    <3>1. Key(part) \in DOMAIN cache /\ Got(part) = cache[Key(part)]
      BY <2>2 DEF Requested, Got
    <3>2. Key(part)[1] = part.path /\ Key(part)[2] = part.update
      BY DEF Key
    <3> QED
      BY <3>1, <3>2 DEF TypeInv, CacheInv
  <2> QED
    BY <2>1, <2>2
<1>2. CASE part.update
  BY <1>1, <1>2, RepliesArePieces
<1>3. CASE ~part.update
  BY <1>1, <1>3, ContentsArePieces
<1> QED
  BY <1>1, <1>2, <1>3

-----------------------------------------------------------------------------
(* Types.                                                                  *)

\* Setting an entry, or laying imported data over it, keeps an environment one.
LEMMA PutKeepsEnv ==
  ASSUME NEW e, IsEnv(e), NEW n \in AllNames, NEW v \in Seq(Pieces)
  PROVE  IsEnv(Put(e, n, v))
  BY DEF IsEnv, Put

LEMMA OverKeepsEnv ==
  ASSUME NEW e, IsEnv(e), NEW p \in Paths, NEW d \in Contents[p], d # Missing,
         DOMAIN d \subseteq FromPathNames
  PROVE  IsEnv(Over(FromData(d), e))
<1>1. \A k \in DOMAIN d : k \in AllNames /\ d[k] \in Pieces
  BY ContentsArePieces DEF AllNames
<1>2. \A k \in DOMAIN d : <<d[k]>> \in Seq(Pieces)
  BY <1>1
<1> QED
  BY <1>1, <1>2 DEF IsEnv, Over, FromData

LEMMA OnlyKeepsEnv ==
  ASSUME NEW e, IsEnv(e), NEW S
  PROVE  IsEnv(Only(e, S))
  BY DEF IsEnv, Only

LEMMA EmptyIsEnv == IsEnv(<<>>)
  BY DEF IsEnv

\* A complete value leaves the references, and nothing of it stays behind.
LEMMA InjectTypes ==
  ASSUME InjectorOK, NEW n \in todo, NEW v \in Seq(Pieces), Inject(n, v), UNCHANGED pos
  PROVE  InjectorOK'
<1>1. n \in AllNames
  BY DEF InjectorOK, AllNames
<1>2. IsEnv(Put(out, n, v))
  BY <1>1, PutKeepsEnv DEF InjectorOK
<1>3. IsEnv(out)'
  BY <1>2 DEF Inject, IsEnv
<1> QED
  BY <1>3 DEF InjectorOK, Inject

LEMMA AddPieceTypes ==
  ASSUME TypeOK, NEW n \in todo, Current(n), NEW piece \in Pieces,
         AddPiece(n, piece), UNCHANGED pos
  PROVE  InjectorOK'
<1>1. Append(pieces, piece) \in Seq(Pieces) /\ Len(Append(pieces, piece)) = Len(pieces) + 1
  BY DEF TypeOK, InjectorOK
<1>2. CASE Len(pieces) + 1 = Len(Parts(n))
  BY <1>1, <1>2, InjectTypes DEF AddPiece, TypeOK
<1>3. CASE Len(pieces) + 1 # Len(Parts(n))
  <2>1. /\ at' = n
        /\ pieces' = Append(pieces, piece)
        /\ UNCHANGED <<todo, out>>
    BY <1>3 DEF AddPiece
  <2>2. Len(pieces') \in 1..(Len(Parts(at')) - 1)
    BY <1>1, <1>3, <2>1, DueIsPart, PartsAreReferences
  <2>3. IsEnv(out)'
    BY <2>1 DEF TypeOK, InjectorOK, IsEnv
  <2> QED
    BY <1>1, <2>1, <2>2, <2>3, DueIsPart DEF TypeOK, InjectorOK
<1> QED
  BY <1>2, <1>3

LEMMA CountWriteTypes ==
  ASSUME TypeOK, NEW part, part.path \in Paths, CountWrite(part)
  PROVE  writes' \in [Paths -> Nat]
  BY DEF TypeOK, CountWrite

LEMMA FailsTypes ==
  ASSUME TypeOK, Fails
  PROVE  writes' \in [Paths -> Nat]
<1>1. CASE PathFails
  BY <1>1 DEF PathFails, TypeOK
<1>2. ASSUME NEW n \in todo, ReferenceFails(n)
      PROVE  writes' \in [Paths -> Nat]
  <2>1. Current(n) /\ (CountWrite(Due(n)) \/ UNCHANGED writes)
    BY <1>2 DEF ReferenceFails
  <2> QED
    BY <2>1, DueIsPart, CountWriteTypes DEF TypeOK
<1> QED
  BY <1>1, <1>2 DEF Fails

\* The literals of templates are pieces.
LEMMA LiteralsArePieces ==
  /\ <<"text">> \in Seq(Pieces)
  /\ <<"vault:login">> \in Seq(Pieces)
  /\ "template" \in Pieces
  /\ \A t \in DOMAIN Tokens : <<Tokens[t]>> \in Seq(Pieces)
<1>1. "text" \in Pieces /\ "vault:login" \in Pieces /\ "template" \in Pieces
  BY DEF Pieces
<1>2. \A t \in DOMAIN Tokens : Tokens[t] \in Pieces
  BY DEF Pieces
<1> QED
  BY <1>1, <1>2

\* Imported variables are names a path may provide.
LEMMA ImportsAreFromPaths ==
  ASSUME TypeOK, pos <= Len(EnvFrom), vault[EnvFrom[pos]] # Missing
  PROVE  DOMAIN vault[EnvFrom[pos]] \subseteq FromPathNames
<1>1. pos \in DOMAIN EnvFrom /\ EnvFrom[pos] \in Paths
  BY VaultAssumption DEF VaultAssumption, TypeOK, InjectorOK
<1>2. vault[EnvFrom[pos]] \in Data(EnvFrom[pos])
  BY <1>1 DEF Data, TypeOK, StoreOK
<1> QED
  BY <1>1, <1>2 DEF FromPathNames

\* Every step keeps the types, and the cache what Vault held or answered.
LEMMA TypeStep == TypeInv /\ [Next]_vars => TypeInv'
<1> SUFFICES ASSUME TypeInv, [Next]_vars PROVE TypeInv'
  OBVIOUS
<1> USE DEF TypeInv
<1>1. ASSUME NEW n \in todo, ResolvePlain(n) PROVE TypeInv'
  <2> DEFINE value == CASE Template[n].kind = "plain" -> <<"text">>
                        [] Template[n].kind = "token" -> <<Tokens[token]>>
                        [] Template[n].kind = "login" -> <<"vault:login">>
  <2>1. n \in Names /\ Parts(n) = <<>>
    BY <1>1 DEF ResolvePlain, TypeOK, InjectorOK
  <2>2. Template[n].kind \in {"plain", "token", "login"}
    BY <2>1, TemplateAssumption DEF TemplateAssumption
  <2>3. value \in Seq(Pieces)
    BY <2>2, LiteralsArePieces DEF TypeOK, StoreOK
  <2>4. Inject(n, value) /\ UNCHANGED pos
    BY <1>1 DEF ResolvePlain
  <2>5. InjectorOK'
    BY <2>3, <2>4, InjectTypes DEF TypeOK
  <2> QED
    BY <1>1, <2>5 DEF ResolvePlain, TypeOK, ChildOK, StoreOK, CacheInv, child, store, IsEnv
<1>2. ASSUME NEW n \in todo, ResolvePart(n) PROVE TypeInv'
  <2> DEFINE part == Due(n)
             data == Got(part)
  <2>1. /\ Current(n) /\ data # Missing /\ part.key \in DOMAIN data
        /\ cache' = Put(cache, Key(part), data)
        /\ CountWrite(part)
        /\ AddPiece(n, data[part.key])
        /\ UNCHANGED <<phase, pos, child, store, token, touched, moved>>
    BY <1>2 DEF ResolvePart
  <2>2. /\ part.path \in Paths /\ part.update \in BOOLEAN
        /\ Key(part) \in Paths \X BOOLEAN
    BY <2>1, DueIsPart
  <2>3. /\ data \in (IF part.update THEN {WriteReply[part.path]} ELSE Contents[part.path])
        /\ data[part.key] \in Pieces
    BY <2>1, <2>2, GotIsVaults
  <2>4. InjectorOK'
    BY <2>1, <2>3, AddPieceTypes
  <2>5. writes' \in [Paths -> Nat]
    BY <2>1, <2>2, CountWriteTypes
  <2>6. Key(part)[1] = part.path /\ Key(part)[2] = part.update
    BY DEF Key
  <2>7. DOMAIN cache' = {Key(part)} \cup DOMAIN cache
    BY <2>1 DEF Put
  <2>8. \A key \in DOMAIN cache' : cache'[key] = IF key = Key(part) THEN data ELSE cache[key]
    BY <2>1 DEF Put
  <2>9. CacheInv'
    BY <2>1, <2>2, <2>3, <2>6, <2>7, <2>8 DEF CacheInv
  <2> QED
    BY <2>1, <2>2, <2>4, <2>5, <2>7, <2>9 DEF TypeOK, ChildOK, StoreOK, child, store, IsEnv
<1>3. ASSUME NEW n \in todo, ResolveMissing(n) PROVE TypeInv'
  <2>1. /\ Current(n) /\ CountWrite(Due(n))
        /\ UNCHANGED <<phase, pos, cache, child, store, token, touched, moved>>
    BY <1>3 DEF ResolveMissing
  <2>2. writes' \in [Paths -> Nat]
    BY <2>1, DueIsPart, CountWriteTypes
  <2>3. InjectorOK'
    <3>1. CASE AddPiece(n, "template")
      BY <2>1, <3>1, AddPieceTypes, LiteralsArePieces
    <3>2. CASE /\ Template[n].kind = "ref"
               /\ todo' = todo \ {n}
               /\ UNCHANGED <<at, pieces, out>>
      <4>1. n \in Names /\ Len(Parts(n)) = 1
        BY <3>2, TemplateAssumption DEF TemplateAssumption, TypeOK, InjectorOK
      <4>2. at # None => Len(pieces) \in 1..(1 - 1)
        BY <2>1, <4>1 DEF Current, TypeOK, InjectorOK
      <4>3. at = None
        BY <4>2
      <4> QED
        BY <2>1, <3>2, <4>3 DEF TypeOK, InjectorOK, IsEnv
    <3> QED
      BY <1>3, <3>1, <3>2 DEF ResolveMissing
  <2> QED
    BY <2>1, <2>2, <2>3 DEF TypeOK, ChildOK, StoreOK, child, store, IsEnv, CacheInv
<1>4. CASE ReadPath
  <2>1. /\ pos <= Len(EnvFrom) /\ vault[EnvFrom[pos]] # Missing
        /\ out' = Over(FromData(vault[EnvFrom[pos]]), out)
        /\ pos' = pos + 1
        /\ UNCHANGED <<phase, todo, at, pieces, cache, child, writes, store, token, touched, moved>>
    BY <1>4 DEF ReadPath
  <2>2. EnvFrom[pos] \in Paths
    BY <2>1, VaultAssumption DEF VaultAssumption, TypeOK, InjectorOK
  <2>3. IsEnv(out)'
    BY <2>1, <2>2, OverKeepsEnv, ImportsAreFromPaths DEF TypeOK, InjectorOK, StoreOK, IsEnv
  <2>4. InjectorOK'
    BY <2>1, <2>3, VaultAssumption DEF VaultAssumption, TypeOK, InjectorOK
  <2> QED
    BY <2>1, <2>4 DEF TypeOK, ChildOK, StoreOK, child, store, IsEnv, CacheInv
<1>5. CASE SkipPath
  <2>1. InjectorOK'
    BY <1>5, VaultAssumption DEF VaultAssumption, SkipPath, TypeOK, InjectorOK, IsEnv
  <2> QED
    BY <1>5, <2>1 DEF SkipPath, TypeOK, ChildOK, StoreOK, child, store, IsEnv, CacheInv
<1>6. CASE InjectFails \/ PollFails
  <2>1. writes' \in [Paths -> Nat]
    BY <1>6, FailsTypes DEF InjectFails, PollFails
  <2>2. UNCHANGED <<injector, child, store>>
    BY <1>6 DEF InjectFails, PollFails
  <2>3. InjectorOK' /\ CacheInv'
    BY <2>2 DEF injector, TypeOK, InjectorOK, CacheInv, IsEnv
  <2>4. phase' \in Phases /\ touched' \in BOOLEAN /\ moved' \in BOOLEAN
    BY <1>6 DEF InjectFails, PollFails, Phases, TypeOK
  <2>5. token' \in DOMAIN Tokens
    BY <1>6, VaultAssumption DEF VaultAssumption, InjectFails, PollFails, TypeOK, StoreOK
  <2> QED
    BY <2>1, <2>2, <2>3, <2>4, <2>5 DEF injector, child, store, TypeOK, ChildOK, StoreOK, IsEnv
<1>7. CASE StartChild
  <2>1. IsEnv(given') /\ IsEnv(baseline')
    BY <1>7, OnlyKeepsEnv DEF StartChild, TypeOK, InjectorOK
  <2>2. phase' \in Phases
    BY <1>7 DEF StartChild, Phases
  <2> QED
    BY <1>7, <2>1, <2>2 DEF StartChild, injector, store, TypeOK, InjectorOK, ChildOK, StoreOK, IsEnv, CacheInv
<1>8. CASE Tick
  <2>1. InjectorOK'
    BY <1>8, VaultAssumption, EmptyIsEnv DEF VaultAssumption, Tick, StartInjector, WatchedTemplates, InjectorOK, IsEnv
  <2>2. CacheInv' /\ DOMAIN cache' \subseteq Paths \X BOOLEAN
    BY <1>8 DEF Tick, CacheInv
  <2> QED
    BY <1>8, <2>1, <2>2 DEF Tick, child, store, TypeOK, ChildOK, StoreOK, Phases, IsEnv
<1>9. CASE Compare
  BY <1>9 DEF Compare, injector, child, store, TypeOK, InjectorOK, ChildOK, StoreOK, Phases, IsEnv, CacheInv
<1>10. CASE Restart
  <2>1. InjectorOK'
    BY <1>10, VaultAssumption, EmptyIsEnv DEF VaultAssumption, Restart, StartInjector, InjectorOK, IsEnv
  <2>2. CacheInv' /\ DOMAIN cache' \subseteq Paths \X BOOLEAN
    BY <1>10 DEF Restart, CacheInv
  <2> QED
    BY <1>10, <2>1, <2>2, EmptyIsEnv DEF Restart, store, TypeOK, ChildOK, StoreOK, Phases, IsEnv
<1>11. ASSUME NEW p \in Paths, VaultChanges(p) PROVE TypeInv'
  <2>1. PICK data \in Contents[p] \ {vault[p]} : vault' = [vault EXCEPT ![p] = data]
    BY <1>11 DEF VaultChanges
  <2>2. DOMAIN vault' = Paths /\ \A q \in Paths : vault'[q] \in Contents[q]
    BY <2>1 DEF TypeOK, StoreOK
  <2>3. changes' \in 0..MaxChanges
    BY <1>11, VaultAssumption DEF VaultAssumption, VaultChanges, TypeOK, StoreOK
  <2> QED
    BY <1>11, <2>2, <2>3 DEF VaultChanges, injector, child, TypeOK, InjectorOK, ChildOK, StoreOK, IsEnv, CacheInv
<1>12. CASE UNCHANGED vars
  BY <1>12 DEF vars, TypeOK, InjectorOK, ChildOK, StoreOK, IsEnv, CacheInv
<1> QED
  BY <1>1, <1>2, <1>3, <1>4, <1>5, <1>6, <1>7, <1>8, <1>9, <1>10, <1>11, <1>12 DEF Next

LEMMA TypeInit == Init => TypeInv
<1> SUFFICES ASSUME Init PROVE TypeInv
  OBVIOUS
<1>1. InjectorOK
  BY VaultAssumption, EmptyIsEnv DEF VaultAssumption, Init, InjectorOK
<1>2. ChildOK
  BY EmptyIsEnv DEF Init, ChildOK, Phases
<1>3. StoreOK
  BY VaultAssumption DEF VaultAssumption, Init, StoreOK
<1>4. CacheInv /\ DOMAIN cache \subseteq Paths \X BOOLEAN
  BY DEF Init, CacheInv
<1> QED
  BY <1>1, <1>2, <1>3, <1>4 DEF Init, TypeInv, TypeOK

\* The variables have their declared types in every reachable state, and what
\* an injector has cached is what Vault held or answered.
THEOREM TypeCorrect == Spec => [](TypeOK /\ CacheInv)
  BY TypeInit, TypeStep, PTL DEF Spec, TypeInv

-----------------------------------------------------------------------------
(* WriteOnce: what has been written is in the cache as long as the injector *)
(* that wrote it is in use, and a poll has nothing to write.               *)

WriteInv ==
  /\ \A p \in Paths : WriteReply[p] # Missing =>
       /\ writes[p] <= 1
       /\ phase = "inject" /\ writes[p] = 1 => <<p, TRUE>> \in DOMAIN cache
  /\ phase = "poll" => todo \subseteq WatchedTemplates

\* A request of a poll is never a write.
LEMMA PollsOnlyRead ==
  ASSUME TypeOK, WriteInv, phase = "poll", NEW n \in todo, Current(n)
  PROVE  ~Due(n).update
<1>1. n \in WatchedTemplates
  BY DEF WriteInv
<1>2. Len(pieces) + 1 \in DOMAIN Parts(n)
  BY DueIsPart, PartsAreReferences
<1> QED
  BY <1>1, <1>2 DEF WatchedTemplates, UpdateNames, Due

\* Counting a request of the injector keeps the count of writes at one.
LEMMA CountWriteOnce ==
  ASSUME TypeOK, WriteInv, Resolving, NEW n \in todo, Current(n),
         CountWrite(Due(n)), NEW p \in Paths, WriteReply[p] # Missing
  PROVE  /\ writes'[p] <= 1
         /\ phase = "inject" /\ writes'[p] = 1 =>
              <<p, TRUE>> \in DOMAIN cache \cup {Key(Due(n))}
         /\ phase = "poll" => writes' = writes
<1> DEFINE part == Due(n)
<1>1. part.path \in Paths /\ part.update \in BOOLEAN
  BY DueIsPart
<1>2. CASE part.update /\ Requested(part)
  <2>1. phase = "inject"
    BY <1>2, PollsOnlyRead DEF Resolving
  <2>2. writes' = [writes EXCEPT ![part.path] = @ + 1]
    BY <1>2 DEF CountWrite
  <2>3. CASE p = part.path
    <3>1. Key(part) = <<p, TRUE>>
      BY <1>1, <1>2, <2>3 DEF Key
    <3>2. writes[p] = 0
      <4>1. <<p, TRUE>> \notin DOMAIN cache
        BY <1>2, <3>1 DEF Requested
      <4>2. writes[p] <= 1 /\ ~(writes[p] = 1)
        BY <2>1, <4>1 DEF WriteInv
      <4>3. writes[p] \in Nat
        BY DEF TypeOK
      <4> QED
        BY <4>2, <4>3
    <3> QED
      BY <2>1, <2>2, <2>3, <3>1, <3>2 DEF TypeOK
  <2>4. CASE p # part.path
    BY <2>1, <2>2, <2>4 DEF WriteInv, TypeOK
  <2> QED
    BY <2>3, <2>4
<1>3. CASE ~(part.update /\ Requested(part))
  BY <1>3 DEF CountWrite, WriteInv
<1> QED
  BY <1>2, <1>3

LEMMA WriteStep == TypeInv /\ WriteInv /\ [Next]_vars => WriteInv'
<1> SUFFICES ASSUME TypeInv, WriteInv, [Next]_vars PROVE WriteInv'
  OBVIOUS
<1>0. TypeOK
  BY DEF TypeInv
<1>1. ASSUME NEW n \in todo, ResolvePlain(n) PROVE WriteInv'
  BY <1>1 DEF ResolvePlain, Inject, WriteInv
<1>2. ASSUME NEW n \in todo, ResolvePart(n) PROVE WriteInv'
  <2>1. /\ Current(n) /\ CountWrite(Due(n)) /\ UNCHANGED phase
        /\ DOMAIN cache' = {Key(Due(n))} \cup DOMAIN cache
    BY <1>2 DEF ResolvePart, Put
  <2>2. todo' \subseteq todo
    BY <1>2 DEF ResolvePart, AddPiece, Inject
  <2> QED
    BY <1>0, <2>1, <2>2, CountWriteOnce DEF WriteInv, Current
<1>3. ASSUME NEW n \in todo, ResolveMissing(n) PROVE WriteInv'
  <2>1. /\ Current(n) /\ CountWrite(Due(n)) /\ Got(Due(n)) = Missing
        /\ UNCHANGED <<phase, cache>>
    BY <1>3 DEF ResolveMissing
  <2>2. todo' \subseteq todo
    BY <1>3 DEF ResolveMissing, AddPiece, Inject
  <2>3. ASSUME NEW p \in Paths, WriteReply[p] # Missing PROVE writes'[p] = writes[p]
    <3>1. CASE Due(n).update /\ Requested(Due(n))
      <4>1. Due(n).path # p
        BY <2>1, <2>3, <3>1 DEF Got
      <4> QED
        BY <1>0, <2>1, <3>1, <4>1 DEF CountWrite, TypeOK
    <3>2. CASE ~(Due(n).update /\ Requested(Due(n)))
      BY <2>1, <3>2 DEF CountWrite
    <3> QED
      BY <3>1, <3>2
  <2> QED
    BY <2>1, <2>2, <2>3 DEF WriteInv
<1>4. CASE ReadPath \/ SkipPath
  BY <1>4 DEF ReadPath, SkipPath, WriteInv
<1>5. CASE InjectFails \/ PollFails
  <2>1. phase' \in {"failed", "ready"} /\ Resolving
    BY <1>5 DEF InjectFails, PollFails, Resolving
  <2>2. ASSUME NEW p \in Paths, WriteReply[p] # Missing PROVE writes'[p] <= 1
    <3>1. CASE UNCHANGED writes
      BY <2>2, <3>1 DEF WriteInv
    <3>2. CASE \E n \in todo : Current(n) /\ CountWrite(Due(n))
      BY <1>0, <2>1, <2>2, <3>2, CountWriteOnce
    <3> QED
      BY <1>5, <3>1, <3>2 DEF InjectFails, PollFails, Fails, PathFails, ReferenceFails
  <2> QED
    BY <2>1, <2>2 DEF WriteInv
<1>6. CASE StartChild
  BY <1>6 DEF StartChild, WriteInv
<1>7. CASE Tick
  BY <1>7 DEF Tick, StartInjector, WriteInv
<1>8. CASE Compare
  BY <1>8 DEF Compare, WriteInv
<1>9. CASE Restart
  BY <1>9 DEF Restart, WriteInv
<1>10. ASSUME NEW p \in Paths, VaultChanges(p) PROVE WriteInv'
  BY <1>10 DEF VaultChanges, injector, WriteInv
<1>11. CASE UNCHANGED vars
  BY <1>11 DEF vars, WriteInv
<1> QED
  BY <1>1, <1>2, <1>3, <1>4, <1>5, <1>6, <1>7, <1>8, <1>9, <1>10, <1>11 DEF Next

LEMMA WriteInit == Init => WriteInv
  BY DEF Init, WriteInv

\* For any templates, Vault contents and failures: one process writes at most
\* once to a path that answers writes, and its polls never write.
THEOREM WritesOnce == Spec => []WriteOnce
<1>1. WriteInv => WriteOnce
  BY DEF WriteInv, WriteOnce
<1> QED
  BY <1>1, TypeInit, TypeStep, WriteInit, WriteStep, PTL DEF Spec

-----------------------------------------------------------------------------
(* SameVersion: every piece read from a path is what the cache holds of it, *)
(* for as long as the values it is part of are in the making.              *)

\* Value v is what cache c holds for the part, if it was read.
FromCache(c, part, v) ==
  ~part.update /\ v # "template" =>
    /\ Key(part) \in DOMAIN c
    /\ part.key \in DOMAIN c[Key(part)]
    /\ v = c[Key(part)][part.key]

OutInv ==
  \A n \in DOMAIN out \ FromPathNames : \A i \in DOMAIN Parts(n) :
    FromCache(cache, Parts(n)[i], out[n][i])

PiecesInv == at # None =>
  \A i \in 1..Len(pieces) : FromCache(cache, Parts(at)[i], pieces[i])

VersionInv == OutInv /\ PiecesInv /\ FromOneVersion(given)

\* Values that agree with one cache agree with one version of each path.
LEMMA OneCacheOneVersion ==
  ASSUME TypeInv, OutInv
  PROVE  FromOneVersion(out)
<1> SUFFICES ASSUME NEW p \in Paths
             PROVE  \E d \in Contents[p] :
                      \A n \in DOMAIN out \ FromPathNames : \A i \in DOMAIN Parts(n) :
                        ReadFrom(p, out, n, i) =>
                          /\ d # Missing /\ Parts(n)[i].key \in DOMAIN d
                          /\ out[n][i] = d[Parts(n)[i].key]
  BY DEF FromOneVersion
<1> DEFINE key == <<p, FALSE>>
<1>1. ASSUME NEW n \in DOMAIN out \ FromPathNames, NEW i \in DOMAIN Parts(n),
             ReadFrom(p, out, n, i)
      PROVE  /\ key \in DOMAIN cache
             /\ Parts(n)[i].key \in DOMAIN cache[key]
             /\ out[n][i] = cache[key][Parts(n)[i].key]
  <2>1. n \in Names
    BY DEF TypeInv, TypeOK, InjectorOK, IsEnv, AllNames
  <2>2. Parts(n)[i].path = p /\ Parts(n)[i].update = FALSE
    BY <1>1, <2>1, PartsAreReferences DEF ReadFrom
  <2>3. Key(Parts(n)[i]) = key
    BY <2>2 DEF Key
  <2> QED
    BY <1>1, <2>3 DEF OutInv, FromCache, ReadFrom
<1>2. CASE key \in DOMAIN cache
  <2>1. cache[key] \in Contents[p] /\ cache[key] # Missing
    BY <1>2 DEF TypeInv, CacheInv
  <2> QED
    BY <1>1, <2>1
<1>3. CASE key \notin DOMAIN cache
  <2>1. vault[p] \in Contents[p]
    BY DEF TypeInv, TypeOK, StoreOK
  <2> QED
    BY <1>1, <1>3, <2>1
<1> QED
  BY <1>2, <1>3

\* Leaving variables out does not mix versions.
LEMMA OnlyKeepsVersion ==
  ASSUME NEW e, FromOneVersion(e), NEW S
  PROVE  FromOneVersion(Only(e, S))
  BY DEF FromOneVersion, ReadFrom, Only

\* More in the cache takes nothing away from what agrees with it.
LEMMA CacheGrows ==
  ASSUME NEW c, NEW key, NEW data, key \in DOMAIN c => data = c[key],
         NEW part, NEW v, FromCache(c, part, v)
  PROVE  FromCache(Put(c, key, data), part, v)
  BY DEF FromCache, Put

\* A new piece of a value, and the cache it comes from or which it leaves be.
LEMMA AddPieceVersion ==
  ASSUME TypeOK, OutInv, PiecesInv, NEW n \in todo, Current(n), NEW piece \in Pieces,
         AddPiece(n, piece), FromCache(cache', Due(n), piece),
         \A part, v : FromCache(cache, part, v) => FromCache(cache', part, v)
  PROVE  OutInv' /\ PiecesInv'
<1> DEFINE value == Append(pieces, piece)
<1>1. pieces \in Seq(Pieces) /\ Len(pieces) \in Nat /\ n # None
  BY DueIsPart DEF TypeOK, InjectorOK
<1>2. /\ Len(value) = Len(pieces) + 1
      /\ \A i \in 1..Len(pieces) : value[i] = pieces[i]
      /\ value[Len(pieces) + 1] = piece
  BY <1>1
<1>3. \A i \in 1..Len(pieces) : FromCache(cache', Parts(n)[i], pieces[i])
  <2>1. CASE at = None
    BY <2>1 DEF TypeOK, InjectorOK
  <2>2. CASE at # None
    BY <2>2 DEF PiecesInv, Current
  <2> QED
    BY <2>1, <2>2
<1>4. \A i \in 1..(Len(pieces) + 1) : FromCache(cache', Parts(n)[i], value[i])
  <2>1. \A i \in 1..(Len(pieces) + 1) : i \in 1..Len(pieces) \/ i = Len(pieces) + 1
    BY <1>1
  <2> QED
    BY <1>2, <1>3, <2>1 DEF Due
<1>5. CASE Len(pieces) + 1 = Len(Parts(n))
  <2>1. /\ out' = Put(out, n, value)
        /\ at' = None
    BY <1>5 DEF AddPiece, Inject
  <2>2. DOMAIN Parts(n) = 1..(Len(pieces) + 1)
    BY <1>5, DueIsPart, PartsAreReferences
  <2>3. OutInv'
    BY <1>4, <2>1, <2>2 DEF OutInv, Put
  <2> QED
    BY <2>1, <2>3 DEF PiecesInv
<1>6. CASE Len(pieces) + 1 # Len(Parts(n))
  <2>1. at' = n /\ pieces' = value /\ UNCHANGED out
    BY <1>6 DEF AddPiece
  <2>2. PiecesInv'
    BY <1>2, <1>4, <2>1 DEF PiecesInv
  <2> QED
    BY <2>1, <2>2 DEF OutInv
<1> QED
  BY <1>5, <1>6

\* Without a step of the injector nothing changes for its values.
LEMMA VersionFrame ==
  ASSUME VersionInv, UNCHANGED <<at, pieces, out, cache, given>>
  PROVE  VersionInv'
  BY DEF VersionInv, OutInv, PiecesInv, FromOneVersion, ReadFrom

LEMMA VersionStep == TypeInv /\ VersionInv /\ [Next]_vars => VersionInv'
<1> SUFFICES ASSUME TypeInv, VersionInv, [Next]_vars PROVE VersionInv'
  OBVIOUS
<1>0. TypeOK /\ OutInv /\ PiecesInv /\ FromOneVersion(given)
  BY DEF TypeInv, VersionInv
<1>1. ASSUME NEW n \in todo, ResolvePlain(n) PROVE VersionInv'
  <2>1. /\ Parts(n) = <<>> /\ at' = None /\ UNCHANGED <<cache, given>>
        /\ \E v : out' = Put(out, n, v)
    BY <1>1 DEF ResolvePlain, Inject, child
  <2>2. OutInv'
    BY <1>0, <2>1 DEF OutInv, Put
  <2> QED
    BY <1>0, <2>1, <2>2 DEF VersionInv, PiecesInv, FromOneVersion, ReadFrom
<1>2. ASSUME NEW n \in todo, ResolvePart(n) PROVE VersionInv'
  <2> DEFINE part == Due(n)
             data == Got(part)
  <2>1. /\ Current(n) /\ data # Missing /\ part.key \in DOMAIN data
        /\ cache' = Put(cache, Key(part), data)
        /\ AddPiece(n, data[part.key])
        /\ UNCHANGED given
    BY <1>2 DEF ResolvePart, child
  <2>2. data[part.key] \in Pieces
    BY <1>0, <2>1, DueIsPart, GotIsVaults
  <2>3. Key(part) \in DOMAIN cache => data = cache[Key(part)]
    BY DEF Got, Requested
  <2>4. \A r, v : FromCache(cache, r, v) => FromCache(cache', r, v)
    BY <2>1, <2>3, CacheGrows
  <2>5. FromCache(cache', part, data[part.key])
    BY <2>1 DEF FromCache, Put
  <2>6. OutInv' /\ PiecesInv'
    BY <1>0, <2>1, <2>2, <2>4, <2>5, AddPieceVersion
  <2> QED
    BY <1>0, <2>1, <2>6 DEF VersionInv, FromOneVersion, ReadFrom
<1>3. ASSUME NEW n \in todo, ResolveMissing(n) PROVE VersionInv'
  <2>1. Current(n) /\ UNCHANGED <<cache, given>>
    BY <1>3 DEF ResolveMissing, child
  <2>2. CASE AddPiece(n, "template")
    <3>1. FromCache(cache', Due(n), "template")
      BY DEF FromCache
    <3>2. OutInv' /\ PiecesInv'
      BY <1>0, <2>1, <2>2, <3>1, AddPieceVersion, LiteralsArePieces
    <3> QED
      BY <1>0, <2>1, <3>2 DEF VersionInv, FromOneVersion, ReadFrom
  <2>3. CASE UNCHANGED <<at, pieces, out>>
    BY <2>1, <2>3, VersionFrame
  <2> QED
    BY <1>3, <2>2, <2>3 DEF ResolveMissing
<1>4. CASE ReadPath
  <2>1. /\ pos <= Len(EnvFrom) /\ vault[EnvFrom[pos]] # Missing
        /\ out' = Over(FromData(vault[EnvFrom[pos]]), out)
        /\ UNCHANGED <<at, pieces, cache, given>>
    BY <1>4 DEF ReadPath, child
  <2>2. DOMAIN FromData(vault[EnvFrom[pos]]) \subseteq FromPathNames
    BY <1>0, <2>1, ImportsAreFromPaths DEF FromData
  <2>3. OutInv'
    BY <1>0, <2>1, <2>2 DEF OutInv, Over
  <2> QED
    BY <1>0, <2>1, <2>3 DEF VersionInv, PiecesInv, FromOneVersion, ReadFrom
<1>5. CASE SkipPath \/ InjectFails \/ PollFails \/ Compare
  BY <1>5, VersionFrame DEF SkipPath, InjectFails, PollFails, Compare, injector, child
<1>6. CASE StartChild
  <2>1. FromOneVersion(given')
    BY <1>0, <1>6, OneCacheOneVersion, OnlyKeepsVersion DEF StartChild
  <2>2. UNCHANGED <<at, pieces, out, cache>>
    BY <1>6 DEF StartChild, injector
  <2> QED
    BY <1>0, <2>1, <2>2 DEF VersionInv, OutInv, PiecesInv, FromOneVersion, ReadFrom
<1>7. CASE Tick
  <2>1. at' = None /\ out' = <<>> /\ UNCHANGED given
    BY <1>7 DEF Tick, StartInjector, child
  <2> QED
    BY <1>0, <2>1 DEF VersionInv, OutInv, PiecesInv, FromOneVersion, ReadFrom
<1>8. CASE Restart
  <2>1. at' = None /\ out' = <<>> /\ given' = <<>>
    BY <1>8 DEF Restart, StartInjector
  <2>2. \A p \in Paths : Contents[p] # {}
    BY <1>0 DEF TypeOK, StoreOK
  <2> QED
    BY <2>1, <2>2 DEF VersionInv, OutInv, PiecesInv, FromOneVersion, ReadFrom
<1>9. ASSUME NEW p \in Paths, VaultChanges(p) PROVE VersionInv'
  BY <1>9, VersionFrame DEF VaultChanges, injector, child
<1>10. CASE UNCHANGED vars
  BY <1>10, VersionFrame DEF vars
<1> QED
  BY <1>1, <1>2, <1>3, <1>4, <1>5, <1>6, <1>7, <1>8, <1>9, <1>10 DEF Next

LEMMA VersionInit == Init => VersionInv
<1> SUFFICES ASSUME Init PROVE VersionInv
  OBVIOUS
<1>1. \A p \in Paths : Contents[p] # {}
  BY DEF Init
<1> QED
  BY <1>1 DEF Init, VersionInv, OutInv, PiecesInv, FromOneVersion, ReadFrom

\* However often Vault changes between two requests: the references of an
\* environment to one path agree with one version of what it holds.
THEOREM OneVersionOfAPath == Spec => []SameVersion
<1>1. TypeInv /\ VersionInv => SameVersion
  BY OneCacheOneVersion DEF VersionInv, SameVersion
<1> QED
  BY <1>1, TypeInit, TypeStep, VersionInit, VersionStep, PTL DEF Spec

-----------------------------------------------------------------------------
(* PollVerdict, EnvAsDocumented and RestartMeansChange: as long as nothing  *)
(* moves, what has been resolved is what it means.                          *)

\* The templates the injector in use was given.
Base == IF phase = "poll" THEN WatchedTemplates ELSE Names

\* Vault stands still under the resolution in progress.
Still == (phase = "inject" /\ ~touched) \/ (phase = "poll" /\ ~moved)

\* Means, as far as the entries of VAULT_ENV_FROM_PATH before q are read.
ProvidersBefore(k, v, q) == {i \in Providers(k, v) : i < q}

Staying(names, v) == {m \in names : ~LeftOut(m, v)}

TemplatesMean(names, v, t) == [m \in Staying(names, v) |-> ValueMeans(m, v, t)]

MeansBefore(names, v, t, q) ==
  [n \in {k \in KeysFromPaths(v) : ProvidersBefore(k, v, q) # {}}
           \cup Staying(names, v) |->
     IF ProvidersBefore(n, v, q) # {}
       THEN <<v[EnvFrom[LastOf(ProvidersBefore(n, v, q))]][n]>>
       ELSE ValueMeans(n, v, t)]

MeansInv ==
  Still =>
    /\ todo \subseteq Base
    /\ todo # {} => pos = 1
    /\ \A key \in DOMAIN cache :
         cache[key] = IF key[2] THEN WriteReply[key[1]] ELSE vault[key[1]]
    /\ at # None => \A i \in 1..Len(pieces) : pieces[i] = PartMeans(Parts(at)[i], vault)
    /\ out = MeansBefore(Base \ todo, vault, token, pos)

\* What the child was compared with from then on, if nothing has moved since.
BaselineInv ==
  /\ moved => touched
  /\ phase \in {"ready", "poll"} /\ ~touched =>
       LET means == Means(Names, vault, token)
       IN  baseline = Only(means, DOMAIN means \ UpdateNames)

\* The keys of providers are keys of the paths.
LEMMA ProvidedKeys ==
  ASSUME NEW v, NEW k
  PROVE  Providers(k, v) # {} <=> k \in KeysFromPaths(v)
<1>1. ASSUME Providers(k, v) # {} PROVE k \in KeysFromPaths(v)
  <2>1. PICK i \in DOMAIN EnvFrom : v[EnvFrom[i]] # Missing /\ k \in DOMAIN v[EnvFrom[i]]
    BY <1>1 DEF Providers
  <2> DEFINE Keys(j) == IF v[EnvFrom[j]] = Missing THEN {} ELSE DOMAIN v[EnvFrom[j]]
  <2>2. k \in Keys(i)
    BY <2>1
  <2>3. k \in UNION {Keys(j) : j \in DOMAIN EnvFrom}
    BY <2>2
  <2> QED
    BY <2>3 DEF KeysFromPaths
<1>2. ASSUME k \in KeysFromPaths(v) PROVE Providers(k, v) # {}
  <2> DEFINE Keys(j) == IF v[EnvFrom[j]] = Missing THEN {} ELSE DOMAIN v[EnvFrom[j]]
  <2>1. k \in UNION {Keys(j) : j \in DOMAIN EnvFrom}
    BY <1>2 DEF KeysFromPaths
  <2>2. PICK i \in DOMAIN EnvFrom : k \in Keys(i)
    BY <2>1
  <2>3. v[EnvFrom[i]] # Missing /\ k \in DOMAIN v[EnvFrom[i]]
    BY <2>2
  <2> QED
    BY <2>3 DEF Providers
<1> QED
  BY <1>1, <1>2

\* With every entry read, what is known is all there is to mean.
LEMMA AllRead ==
  ASSUME NEW names, NEW v, NEW t, NEW q \in Nat, q > Len(EnvFrom)
  PROVE  MeansBefore(names, v, t, q) = Means(names, v, t)
<1>1. Len(EnvFrom) \in Nat /\ DOMAIN EnvFrom = 1..Len(EnvFrom)
  BY VaultAssumption DEF VaultAssumption
<1>2. ASSUME NEW k PROVE ProvidersBefore(k, v, q) = Providers(k, v)
  BY <1>1 DEF ProvidersBefore, Providers
<1>3. {k \in KeysFromPaths(v) : ProvidersBefore(k, v, q) # {}} = KeysFromPaths(v)
  BY <1>2, ProvidedKeys
<1> QED
  BY <1>2, <1>3 DEF MeansBefore, Means, Staying

\* Before the first entry there are templates only.
LEMMA NoneRead ==
  ASSUME NEW names, NEW v, NEW t
  PROVE  MeansBefore(names, v, t, 1) = TemplatesMean(names, v, t)
<1>1. DOMAIN EnvFrom = 1..Len(EnvFrom)
  BY VaultAssumption DEF VaultAssumption
<1>2. ASSUME NEW k PROVE ProvidersBefore(k, v, 1) = {}
  BY <1>1 DEF ProvidersBefore, Providers
<1>3. {k \in KeysFromPaths(v) : ProvidersBefore(k, v, 1) # {}} = {}
  BY <1>2
<1> QED
  BY <1>2, <1>3 DEF MeansBefore, TemplatesMean

\* A name whose value is known joins what is meant; one to leave out does not.
LEMMA NameMeans ==
  ASSUME NEW S, NEW T, NEW n \in T, T \subseteq S, NEW v, NEW t
  PROVE  /\ ~LeftOut(n, v) =>
              Put(MeansBefore(S \ T, v, t, 1), n, ValueMeans(n, v, t))
                = MeansBefore(S \ (T \ {n}), v, t, 1)
         /\ LeftOut(n, v) =>
              MeansBefore(S \ T, v, t, 1) = MeansBefore(S \ (T \ {n}), v, t, 1)
<1> DEFINE f == TemplatesMean(S \ T, v, t)
           g == TemplatesMean(S \ (T \ {n}), v, t)
<1>1. MeansBefore(S \ T, v, t, 1) = f /\ MeansBefore(S \ (T \ {n}), v, t, 1) = g
  BY NoneRead
<1>2. ASSUME ~LeftOut(n, v) PROVE Put(f, n, ValueMeans(n, v, t)) = g
  <2>1. Staying(S \ (T \ {n}), v) = {n} \cup Staying(S \ T, v)
    BY <1>2 DEF Staying
  <2> QED
    BY <2>1 DEF Put, TemplatesMean
<1>3. ASSUME LeftOut(n, v) PROVE Staying(S \ T, v) = Staying(S \ (T \ {n}), v)
  BY <1>3 DEF Staying
<1> QED
  BY <1>1, <1>2, <1>3 DEF TemplatesMean

\* The last of some entries, when it is known.
LEMMA LastIs ==
  ASSUME NEW S \in SUBSET Nat, NEW m \in S, \A j \in S : j <= m
  PROVE  LastOf(S) = m
<1>1. \A i \in S : (\A j \in S : j <= i) => i = m
  OBVIOUS
<1>2. LastOf(S) \in S /\ \A j \in S : j <= LastOf(S)
  BY DEF LastOf
<1> QED
  BY <1>1, <1>2

\* One more entry of VAULT_ENV_FROM_PATH: over what was there, or nothing.
LEMMA EntryMeans ==
  ASSUME NEW names, NEW v, NEW t, NEW q \in 1..Len(EnvFrom)
  PROVE  /\ v[EnvFrom[q]] # Missing =>
              Over(FromData(v[EnvFrom[q]]), MeansBefore(names, v, t, q))
                = MeansBefore(names, v, t, q + 1)
         /\ v[EnvFrom[q]] = Missing =>
              MeansBefore(names, v, t, q) = MeansBefore(names, v, t, q + 1)
<1> DEFINE d == v[EnvFrom[q]]
           Read(r) == {k \in KeysFromPaths(v) : ProvidersBefore(k, v, r) # {}}
           Kept == Staying(names, v)
           Value(n, r) == IF ProvidersBefore(n, v, r) # {}
                            THEN <<v[EnvFrom[LastOf(ProvidersBefore(n, v, r))]][n]>>
                            ELSE ValueMeans(n, v, t)
<1>1. Len(EnvFrom) \in Nat /\ DOMAIN EnvFrom = 1..Len(EnvFrom)
  BY VaultAssumption DEF VaultAssumption
<1>2. ASSUME NEW k, d = Missing \/ k \notin DOMAIN d
      PROVE  ProvidersBefore(k, v, q + 1) = ProvidersBefore(k, v, q)
  <2>1. q \notin Providers(k, v)
    BY <1>2 DEF Providers
  <2>2. \A i \in Providers(k, v) : i < q + 1 <=> i < q
    BY <1>1, <2>1 DEF Providers
  <2> QED
    BY <2>2 DEF ProvidersBefore
<1>3. ASSUME NEW k, d # Missing, k \in DOMAIN d
      PROVE  /\ ProvidersBefore(k, v, q + 1) # {}
             /\ LastOf(ProvidersBefore(k, v, q + 1)) = q
             /\ k \in KeysFromPaths(v)
  <2>1. q \in Providers(k, v)
    BY <1>1, <1>3 DEF Providers
  <2>2. /\ q \in ProvidersBefore(k, v, q + 1)
        /\ ProvidersBefore(k, v, q + 1) \in SUBSET Nat
        /\ \A i \in ProvidersBefore(k, v, q + 1) : i <= q
    BY <1>1, <2>1 DEF ProvidersBefore, Providers
  <2> QED
    BY <2>1, <2>2, LastIs, ProvidedKeys
<1>4. \A r : MeansBefore(names, v, t, r) = [n \in Read(r) \cup Kept |-> Value(n, r)]
  BY DEF MeansBefore
<1>5. CASE d = Missing
  <2>1. \A k : ProvidersBefore(k, v, q + 1) = ProvidersBefore(k, v, q)
    BY <1>2, <1>5
  <2> QED
    BY <1>5, <2>1 DEF MeansBefore
<1>6. CASE d # Missing
  <2>1. Read(q + 1) = DOMAIN d \cup Read(q)
    BY <1>2, <1>3, <1>6
  <2>2. \A n \in DOMAIN d : Value(n, q + 1) = <<d[n]>>
    BY <1>3, <1>6
  <2>3. \A n : n \notin DOMAIN d => Value(n, q + 1) = Value(n, q)
    BY <1>2
  <2> HIDE DEF Read, Kept, Value, d
  <2> DEFINE f == [n \in Read(q) \cup Kept |-> Value(n, q)]
             g == [n \in Read(q + 1) \cup Kept |-> Value(n, q + 1)]
  <2>4. DOMAIN FromData(d) = DOMAIN d /\ \A n \in DOMAIN d : FromData(d)[n] = <<d[n]>>
    BY DEF FromData
  <2>5. Over(FromData(d), f) = g
    <3>1. DOMAIN d \cup DOMAIN f = DOMAIN g
      BY <2>1
    <3>2. \A n \in DOMAIN g :
            g[n] = IF n \in DOMAIN FromData(d) THEN FromData(d)[n] ELSE f[n]
      <4> SUFFICES ASSUME NEW n \in DOMAIN g
                   PROVE  g[n] = IF n \in DOMAIN FromData(d) THEN FromData(d)[n] ELSE f[n]
        OBVIOUS
      <4>1. CASE n \in DOMAIN d
        BY <2>2, <2>4, <4>1
      <4>2. CASE n \notin DOMAIN d
        BY <2>1, <2>3, <2>4, <4>2
      <4> QED
        BY <4>1, <4>2
    <3> QED
      BY <2>4, <3>1, <3>2 DEF Over
  <2> QED
    BY <1>4, <1>6, <2>5 DEF d
<1> QED
  BY <1>5, <1>6 DEF d

-----------------------------------------------------------------------------

\* The kinds of templates with references, and of those without.
LEMMA KindsOfTemplates ==
  ASSUME NEW n \in Names
  PROVE  /\ Parts(n) = <<>> => Template[n].kind \in {"plain", "token", "login"}
         /\ Parts(n) # <<>> => Template[n].kind \in {"ref", "inline"}
         /\ Template[n].kind = "ref" => Len(Parts(n)) = 1
<1>1. /\ Template[n].kind \in {"plain", "ref", "inline", "token", "login"}
      /\ Parts(n) \in Seq(References)
      /\ Template[n].kind = "ref" => Len(Parts(n)) = 1
      /\ Template[n].kind = "inline" <=> Len(Parts(n)) > 0 /\ Template[n].kind # "ref"
  BY TemplateAssumption DEF TemplateAssumption
<1>2. Parts(n) # <<>> => Len(Parts(n)) > 0
  BY <1>1
<1>3. Parts(n) = <<>> => Len(Parts(n)) = 0
  OBVIOUS
<1> QED
  BY <1>1, <1>2, <1>3

\* While Vault stands still, what is got for a part is what it holds now.
LEMMA GotIsMeant ==
  ASSUME TypeOK, MeansInv, Still, NEW n \in todo, Current(n)
  PROVE  Got(Due(n)) = PartData(Due(n), vault)
<1> DEFINE part == Due(n)
<1>1. Key(part)[1] = part.path /\ Key(part)[2] = part.update
  BY DEF Key
<1>2. CASE Requested(part)
  BY <1>2 DEF Got, PartData
<1>3. CASE ~Requested(part)
  <2>1. Key(part) \in DOMAIN cache /\ Got(part) = cache[Key(part)]
    BY <1>3 DEF Requested, Got
  <2> QED
    BY <1>1, <2>1 DEF MeansInv, PartData
<1> QED
  BY <1>2, <1>3

\* A name is done: its value is what it means, or it is left out.
LEMMA NameDone ==
  ASSUME TypeOK, MeansInv, Still, NEW n \in todo,
         todo' = todo \ {n}, at' = None, UNCHANGED <<phase, pos, vault, token>>,
         \/ ~LeftOut(n, vault) /\ out' = Put(out, n, ValueMeans(n, vault, token))
         \/ LeftOut(n, vault) /\ out' = out,
         \A key \in DOMAIN cache' :
           cache'[key] = IF key[2] THEN WriteReply[key[1]] ELSE vault[key[1]]
  PROVE  MeansInv'
<1>1. todo \subseteq Base /\ pos = 1 /\ out = MeansBefore(Base \ todo, vault, token, 1)
  BY DEF MeansInv
<1>2. out' = MeansBefore(Base \ (todo \ {n}), vault, token, 1)
  BY <1>1, NameMeans
<1>3. Base' = Base
  BY DEF Base
<1> QED
  BY <1>1, <1>2, <1>3 DEF MeansInv

\* One more piece: the value goes on, or means what its pieces mean.
LEMMA PieceMeans ==
  ASSUME TypeOK, MeansInv, Still, NEW n \in todo, Current(n), NEW piece \in Pieces,
         AddPiece(n, piece), piece = PartMeans(Due(n), vault),
         ~LeftOut(n, vault), UNCHANGED <<phase, pos, vault, token>>,
         \A key \in DOMAIN cache' :
           cache'[key] = IF key[2] THEN WriteReply[key[1]] ELSE vault[key[1]]
  PROVE  MeansInv'
<1> DEFINE value == Append(pieces, piece)
<1>1. pieces \in Seq(Pieces) /\ Len(pieces) \in Nat /\ n # None /\ n \in Names
  BY DueIsPart DEF TypeOK, InjectorOK
<1>2. /\ value \in Seq(Pieces)
      /\ Len(value) = Len(pieces) + 1
      /\ \A i \in 1..Len(pieces) : value[i] = pieces[i]
      /\ value[Len(pieces) + 1] = piece
  BY <1>1
<1>3. \A i \in 1..Len(pieces) : pieces[i] = PartMeans(Parts(n)[i], vault)
  <2>1. CASE at = None
    BY <2>1 DEF TypeOK, InjectorOK
  <2>2. CASE at # None
    BY <2>2 DEF MeansInv, Current
  <2> QED
    BY <2>1, <2>2
<1>4. \A i \in 1..(Len(pieces) + 1) : value[i] = PartMeans(Parts(n)[i], vault)
  <2>1. \A i \in 1..(Len(pieces) + 1) : i \in 1..Len(pieces) \/ i = Len(pieces) + 1
    BY <1>1
  <2> QED
    BY <1>2, <1>3, <2>1 DEF Due
<1>5. CASE Len(pieces) + 1 = Len(Parts(n))
  <2>1. Inject(n, value)
    BY <1>5 DEF AddPiece
  <2>2. DOMAIN Parts(n) = 1..(Len(pieces) + 1)
    BY <1>1, <1>5, PartsAreReferences
  <2>3. value = [i \in DOMAIN Parts(n) |-> PartMeans(Parts(n)[i], vault)]
    <3>1. value \in [1..Len(value) -> Pieces]
      BY <1>2, LenProperties
    <3>2. value \in [DOMAIN Parts(n) -> Pieces]
      BY <1>2, <2>2, <3>1
    <3>3. \A i \in DOMAIN Parts(n) : value[i] = PartMeans(Parts(n)[i], vault)
      BY <1>4, <2>2
    <3> HIDE DEF value
    <3> QED
      BY <3>2, <3>3
  <2>4. Template[n].kind \in {"ref", "inline"}
    BY <1>1, KindsOfTemplates DEF Current
  <2>5. ValueMeans(n, vault, token) = [i \in DOMAIN Parts(n) |-> PartMeans(Parts(n)[i], vault)]
    BY <2>4 DEF ValueMeans
  <2>6. out' = Put(out, n, ValueMeans(n, vault, token))
    BY <2>1, <2>3, <2>5 DEF Inject
  <2> QED
    BY <2>1, <2>6, NameDone DEF Inject
<1>6. CASE Len(pieces) + 1 # Len(Parts(n))
  <2>1. at' = n /\ pieces' = value /\ UNCHANGED <<todo, out>>
    BY <1>6 DEF AddPiece
  <2>2. \A i \in 1..Len(pieces') : pieces'[i] = PartMeans(Parts(at')[i], vault')
    BY <1>2, <1>4, <2>1
  <2> QED
    BY <2>1, <2>2 DEF MeansInv, Base, Still
<1> QED
  BY <1>5, <1>6

\* Nothing that counts has changed.
LEMMA MeansFrame ==
  ASSUME MeansInv, Still' => Still /\ phase' = phase,
         Still' => UNCHANGED <<todo, at, pieces, pos, cache, out, vault, token>>
  PROVE  MeansInv'
  BY DEF MeansInv, Base

\* A new injector has resolved nothing, and nothing is what that means.
LEMMA MeansFresh ==
  ASSUME NEW v, NEW t, NEW S
  PROVE  MeansBefore(S \ S, v, t, 1) = <<>>
<1>1. S \ S = {} /\ Staying({}, v) = {}
  BY DEF Staying
<1>2. TemplatesMean({}, v, t) = <<>>
  BY <1>1 DEF TemplatesMean
<1>3. MeansBefore(S \ S, v, t, 1) = TemplatesMean(S \ S, v, t)
  BY NoneRead
<1> QED
  BY <1>1, <1>2, <1>3

LEMMA MeansStep == TypeInv /\ MeansInv /\ [Next]_vars => MeansInv'
<1> SUFFICES ASSUME TypeInv, MeansInv, [Next]_vars PROVE MeansInv'
  OBVIOUS
<1>0. TypeOK
  BY DEF TypeInv
<1>1. ASSUME NEW n \in todo, ResolvePlain(n) PROVE MeansInv'
  <2>1. /\ Parts(n) = <<>> /\ n \in Names
        /\ UNCHANGED <<phase, pos, cache, vault, token, touched, moved>>
    BY <1>0, <1>1 DEF ResolvePlain, store, TypeOK, InjectorOK
  <2>2. Template[n].kind \in {"plain", "token", "login"}
    BY <2>1, KindsOfTemplates
  <2>3. Inject(n, ValueMeans(n, vault, token)) /\ ~LeftOut(n, vault)
    BY <1>1, <2>2 DEF ResolvePlain, ValueMeans, LeftOut
  <2>4. CASE Still
    BY <1>0, <2>1, <2>3, <2>4, NameDone DEF Inject, MeansInv
  <2>5. CASE ~Still
    BY <2>1, <2>5 DEF Still, MeansInv
  <2> QED
    BY <2>4, <2>5
<1>2. ASSUME NEW n \in todo, ResolvePart(n) PROVE MeansInv'
  <2> DEFINE part == Due(n)
             data == Got(part)
  <2>1. /\ Current(n) /\ data # Missing /\ part.key \in DOMAIN data
        /\ cache' = Put(cache, Key(part), data)
        /\ AddPiece(n, data[part.key])
        /\ UNCHANGED <<phase, pos, vault, token, touched, moved>>
    BY <1>2 DEF ResolvePart, store
  <2>2. CASE Still
    <3>1. data = PartData(part, vault)
      BY <1>0, <2>1, <2>2, GotIsMeant
    <3>2. data[part.key] = PartMeans(part, vault) /\ data[part.key] \in Pieces
      BY <1>0, <2>1, <3>1, DueIsPart, GotIsVaults DEF PartMeans
    <3>3. ~LeftOut(n, vault)
      <4>1. n \in Names /\ Len(pieces) \in Nat /\ Len(pieces) + 1 \in 1..Len(Parts(n))
        BY <1>0, <2>1, DueIsPart
      <4>2. Template[n].kind = "ref" => Due(n) = Parts(n)[1]
        BY <4>1, KindsOfTemplates DEF Due
      <4> QED
        BY <2>1, <3>1, <4>2 DEF LeftOut
    <3>4. Key(part)[1] = part.path /\ Key(part)[2] = part.update
      BY DEF Key
    <3>5. data = IF Key(part)[2] THEN WriteReply[Key(part)[1]] ELSE vault[Key(part)[1]]
      BY <3>1, <3>4 DEF PartData
    <3>6. \A key \in DOMAIN cache' :
            cache'[key] = IF key[2] THEN WriteReply[key[1]] ELSE vault[key[1]]
      BY <2>1, <2>2, <3>5 DEF Put, MeansInv
    <3> QED
      BY <1>0, <2>1, <2>2, <3>2, <3>3, <3>6, PieceMeans
  <2>3. CASE ~Still
    BY <2>1, <2>3 DEF Still, MeansInv
  <2> QED
    BY <2>2, <2>3
<1>3. ASSUME NEW n \in todo, ResolveMissing(n) PROVE MeansInv'
  <2>1. /\ Current(n) /\ Got(Due(n)) = Missing
        /\ UNCHANGED <<phase, pos, cache, vault, token, touched, moved>>
    BY <1>3 DEF ResolveMissing, store
  <2>2. CASE Still
    <3>1. PartData(Due(n), vault) = Missing
      BY <1>0, <2>1, <2>2, GotIsMeant
    <3>2. \A key \in DOMAIN cache' :
            cache'[key] = IF key[2] THEN WriteReply[key[1]] ELSE vault[key[1]]
      BY <2>1, <2>2 DEF MeansInv
    <3>3. CASE /\ Template[n].kind = "ref"
               /\ todo' = todo \ {n}
               /\ UNCHANGED <<at, pieces, out>>
      <4>1. n \in Names /\ Len(pieces) \in Nat /\ Len(pieces) + 1 \in 1..Len(Parts(n))
        BY <1>0, <2>1, DueIsPart
      <4>2. Len(Parts(n)) = 1
        BY <3>3, <4>1, KindsOfTemplates
      <4>3. Due(n) = Parts(n)[1]
        BY <4>1, <4>2 DEF Due
      <4>4. LeftOut(n, vault)
        BY <3>1, <3>3, <4>3 DEF LeftOut
      <4>5. at # None => Len(pieces) \in 1..(1 - 1)
        BY <1>0, <2>1, <4>2 DEF Current, TypeOK, InjectorOK
      <4>6. at' = None
        BY <3>3, <4>5
      <4> QED
        BY <1>0, <2>1, <2>2, <3>2, <3>3, <4>4, <4>6, NameDone
    <3>4. CASE Template[n].kind = "inline" /\ AddPiece(n, "template")
      <4>1. "template" = PartMeans(Due(n), vault) /\ ~LeftOut(n, vault)
        BY <3>1, <3>4 DEF PartMeans, LeftOut
      <4> QED
        BY <1>0, <2>1, <2>2, <3>2, <3>4, <4>1, PieceMeans, LiteralsArePieces
    <3> QED
      BY <1>3, <3>3, <3>4 DEF ResolveMissing
  <2>3. CASE ~Still
    BY <2>1, <2>3 DEF Still, MeansInv
  <2> QED
    BY <2>2, <2>3
<1>4. CASE ReadPath \/ SkipPath
  <2>1. /\ Resolving /\ todo = {} /\ pos <= Len(EnvFrom) /\ pos' = pos + 1
        /\ UNCHANGED <<phase, todo, at, pieces, cache, vault, token, touched, moved>>
        /\ \/ vault[EnvFrom[pos]] # Missing /\ out' = Over(FromData(vault[EnvFrom[pos]]), out)
           \/ vault[EnvFrom[pos]] = Missing /\ out' = out
    BY <1>4 DEF ReadPath, SkipPath, ReferencesDone, store
  <2>2. pos \in 1..Len(EnvFrom)
    BY <1>0, <2>1, VaultAssumption DEF VaultAssumption, TypeOK, InjectorOK
  <2>3. CASE Still
    <3>1. out = MeansBefore(Base \ todo, vault, token, pos)
      BY <2>3 DEF MeansInv
    <3>2. out' = MeansBefore(Base \ todo, vault, token, pos + 1)
      BY <2>1, <2>2, <3>1, EntryMeans
    <3>3. Base' = Base
      BY <2>1 DEF Base
    <3> QED
      BY <2>1, <2>3, <3>2, <3>3 DEF MeansInv
  <2>4. CASE ~Still
    BY <2>1, <2>4 DEF Still, MeansInv
  <2> QED
    BY <2>3, <2>4
<1>5. CASE InjectFails \/ PollFails \/ StartChild \/ Compare
  <2>1. ~Still'
    BY <1>5 DEF InjectFails, PollFails, StartChild, Compare, Still
  <2> QED
    BY <2>1 DEF MeansInv
<1>6. CASE Tick
  <2>1. /\ phase' = "poll" /\ todo' = WatchedTemplates /\ at' = None /\ pos' = 1
        /\ out' = <<>> /\ cache' = <<>>
    BY <1>6 DEF Tick, StartInjector
  <2>2. Base' = WatchedTemplates
    BY <2>1 DEF Base
  <2> QED
    BY <2>1, <2>2, MeansFresh DEF MeansInv
<1>7. CASE Restart
  <2>1. /\ phase' = "inject" /\ todo' = Names /\ at' = None /\ pos' = 1
        /\ out' = <<>> /\ cache' = <<>>
    BY <1>7 DEF Restart, StartInjector
  <2>2. Base' = Names
    BY <2>1 DEF Base
  <2> QED
    BY <2>1, <2>2, MeansFresh DEF MeansInv
<1>8. ASSUME NEW p \in Paths, VaultChanges(p) PROVE MeansInv'
  <2>1. ~Still'
    BY <1>8 DEF VaultChanges, Still
  <2> QED
    BY <2>1 DEF MeansInv
<1>9. CASE UNCHANGED vars
  BY <1>9, MeansFrame DEF vars, Still
<1> QED
  BY <1>1, <1>2, <1>3, <1>4, <1>5, <1>6, <1>7, <1>8, <1>9 DEF Next

LEMMA MeansInit == Init => MeansInv
<1> SUFFICES ASSUME Init PROVE MeansInv
  OBVIOUS
<1>1. /\ phase = "inject" /\ todo = Names /\ at = None /\ pos = 1
      /\ out = <<>> /\ cache = <<>>
  BY DEF Init
<1>2. Base = Names
  BY <1>1 DEF Base
<1> QED
  BY <1>1, <1>2, MeansFresh DEF MeansInv

\* When all is resolved, and nothing has moved, all is as it means.
LEMMA ResolvedIsMeant ==
  ASSUME TypeOK, MeansInv, Still, AllResolved
  PROVE  out = Means(Base, vault, token)
<1>1. todo = {} /\ pos > Len(EnvFrom) /\ pos \in Nat
  BY VaultAssumption DEF VaultAssumption, AllResolved, ReferencesDone, TypeOK, InjectorOK
<1>2. out = MeansBefore(Base, vault, token, pos)
  <2>1. Base \ todo = Base
    BY <1>1
  <2> QED
    BY <2>1 DEF MeansInv
<1> QED
  BY <1>1, <1>2, AllRead

\* The verdict of a poll during which Vault stands still is right
\* (main.go:429-447), whatever happened before the poll.
THEOREM PollsJudgeRight == Spec => PollVerdict
<1>1. ASSUME TypeInv, MeansInv, [Next]_vars,
             phase = "poll" /\ AllResolved /\ ~moved /\ phase' # "poll"
      PROVE  (phase' = "restart") <=> (Means(WatchedTemplates, vault, token) # baseline)
  <2>1. out = Means(WatchedTemplates, vault, token)
    BY <1>1, ResolvedIsMeant DEF TypeInv, Still, Base
  <2>2. todo = {} /\ pos > Len(EnvFrom) /\ pos \in Nat /\ Len(EnvFrom) \in Nat
    BY <1>1, VaultAssumption DEF VaultAssumption, TypeInv, AllResolved, ReferencesDone, TypeOK, InjectorOK
  <2>3. ~PollFails
    BY <2>2 DEF PollFails, Fails, PathFails
  <2>4. Compare
    BY <1>1, <2>2, <2>3 DEF Next, vars, ReadPath, SkipPath, InjectFails, StartChild, Tick,
      Restart, VaultChanges
  <2> QED
    BY <2>1, <2>4 DEF Compare
<1>2. TypeInv /\ MeansInv /\ [Next]_vars =>
        [phase = "poll" /\ AllResolved /\ ~moved /\ phase' # "poll" =>
           (phase' = "restart") <=> (Means(WatchedTemplates, vault, token) # baseline)]_vars
  BY <1>1
<1> QED
  BY <1>2, TypeInit, TypeStep, MeansInit, MeansStep, PTL DEF Spec, PollVerdict

\* The child of a process under which Vault stood still is given what the
\* documentation promises, in whatever order the references were resolved.
THEOREM ChildIsGivenWhatIsMeant == Spec => EnvAsDocumented
<1>1. ASSUME TypeInv, MeansInv, [Next]_vars,
             phase = "inject" /\ phase' \in {"ready", "unwatched"} /\ ~touched
      PROVE  given' = Only(Means(Names, vault, token), {n \in AllNames : Passes(n)})
  <2>1. StartChild
    BY <1>1 DEF Next, vars, ResolvePlain, ResolvePart, ResolveMissing, ReadPath, SkipPath,
      InjectFails, PollFails, Tick, Compare, Restart, VaultChanges
  <2>2. out = Means(Names, vault, token)
    BY <1>1, <2>1, ResolvedIsMeant DEF StartChild, TypeInv, Still, Base
  <2>3. DOMAIN out \subseteq AllNames
    BY <1>1 DEF TypeInv, TypeOK, InjectorOK, IsEnv
  <2>4. DOMAIN out \cap {n \in DOMAIN out : Passes(n)} = DOMAIN out \cap {n \in AllNames : Passes(n)}
    BY <2>3
  <2>5. given' = Only(out, {n \in DOMAIN out : Passes(n)})
    BY <2>1 DEF StartChild
  <2> QED
    BY <2>2, <2>4, <2>5 DEF Only
<1>2. TypeInv /\ MeansInv /\ [Next]_vars =>
        [phase = "inject" /\ phase' \in {"ready", "unwatched"} /\ ~touched =>
           given' = Only(Means(Names, vault, token), {n \in AllNames : Passes(n)})]_vars
  BY <1>1
<1> QED
  BY <1>2, TypeInit, TypeStep, MeansInit, MeansStep, PTL DEF Spec, EnvAsDocumented

-----------------------------------------------------------------------------
(* RestartMeansChange and NoTemplateLeaks fail for one kind of environment  *)
(* each (update_clash, template_leak), and hold for all others.            *)

LEMMA BaselineStep == TypeInv /\ MeansInv /\ BaselineInv /\ [Next]_vars => BaselineInv'
<1> SUFFICES ASSUME TypeInv, MeansInv, BaselineInv, [Next]_vars PROVE BaselineInv'
  OBVIOUS
<1>0. TypeOK
  BY DEF TypeInv
<1>1. CASE StartChild
  <2>1. ~touched => out = Means(Names, vault, token)
    BY <1>0, <1>1, ResolvedIsMeant DEF StartChild, Still, Base
  <2>2. /\ baseline' = Only(out, DOMAIN out \ UpdateNames)
        /\ UNCHANGED <<vault, token, touched, moved>>
    BY <1>1 DEF StartChild, store
  <2> QED
    BY <2>1, <2>2 DEF BaselineInv
<1>2. CASE \/ ReadPath \/ SkipPath
           \/ \E n \in todo : ResolvePlain(n) \/ ResolvePart(n) \/ ResolveMissing(n)
  <2>1. UNCHANGED <<phase, baseline, vault, token, touched, moved>>
    BY <1>2 DEF ReadPath, SkipPath, ResolvePlain, ResolvePart, ResolveMissing, child, store
  <2> QED
    BY <2>1 DEF BaselineInv
<1>3. CASE InjectFails \/ Restart
  BY <1>3 DEF InjectFails, Restart, BaselineInv
<1>4. CASE PollFails \/ Tick \/ Compare
  <2>1. phase \in {"poll", "ready"} /\ UNCHANGED <<baseline, vault>>
    BY <1>4 DEF PollFails, Tick, Compare, child, store
  <2>2. \/ touched' = TRUE
        \/ UNCHANGED <<token, touched>> /\ moved' \in {FALSE, moved}
    BY <1>4 DEF PollFails, Tick, Compare
  <2>3. CASE touched' = TRUE
    BY <2>3 DEF BaselineInv
  <2>4. CASE UNCHANGED <<token, touched>> /\ moved' \in {FALSE, moved}
    <3>1. moved' => touched'
      BY <2>4 DEF BaselineInv
    <3>2. ~touched =>
            LET means == Means(Names, vault, token)
            IN  baseline = Only(means, DOMAIN means \ UpdateNames)
      BY <2>1 DEF BaselineInv
    <3> QED
      BY <2>1, <2>4, <3>1, <3>2 DEF BaselineInv
  <2> QED
    BY <2>2, <2>3, <2>4
<1>5. ASSUME NEW p \in Paths, VaultChanges(p) PROVE BaselineInv'
  BY <1>5 DEF VaultChanges, BaselineInv
<1>6. CASE UNCHANGED vars
  BY <1>6 DEF vars, BaselineInv
<1> QED
  BY <1>1, <1>2, <1>3, <1>4, <1>5, <1>6 DEF Next

\* Without update-style names that a path provides as well, the templates a
\* poll watches mean what is left of the environment without the others.
LEMMA WatchedMeans ==
  ASSUME UpdateNames \cap FromPathNames = {}, NEW v, NEW t,
         KeysFromPaths(v) \subseteq FromPathNames
  PROVE  LET means == Means(Names, v, t)
         IN  Means(WatchedTemplates, v, t) = Only(means, DOMAIN means \ UpdateNames)
<1> DEFINE D(names) == KeysFromPaths(v) \cup Staying(names, v)
           Value(n) == IF Providers(n, v) # {}
                         THEN <<v[EnvFrom[LastOf(Providers(n, v))]][n]>>
                         ELSE ValueMeans(n, v, t)
<1>1. \A names : Means(names, v, t) = [n \in D(names) |-> Value(n)]
  BY DEF Means, Staying
<1>2. D(Names) \ UpdateNames = D(WatchedTemplates)
  BY DEF Staying, WatchedTemplates
<1> HIDE DEF D, Value
<1> QED
  BY <1>1, <1>2 DEF Only

\* What the paths provide are names they may provide.
LEMMA KeysAreFromPaths ==
  ASSUME TypeOK
  PROVE  KeysFromPaths(vault) \subseteq FromPathNames
<1> SUFFICES ASSUME NEW k \in KeysFromPaths(vault) PROVE k \in FromPathNames
  OBVIOUS
<1>1. PICK i \in DOMAIN EnvFrom : vault[EnvFrom[i]] # Missing /\ k \in DOMAIN vault[EnvFrom[i]]
  BY ProvidedKeys DEF Providers
<1>2. EnvFrom[i] \in Paths
  BY VaultAssumption DEF VaultAssumption
<1>3. vault[EnvFrom[i]] \in Data(EnvFrom[i])
  BY <1>1, <1>2 DEF Data, TypeOK, StoreOK
<1> QED
  BY <1>1, <1>3 DEF FromPathNames

ChangeInv == phase = "restart" => touched

\* A container is restarted only when something has changed, however polls
\* fail, unless a path of VAULT_ENV_FROM_PATH may provide the name of an
\* update-style reference as well (main.go:425-447).
THEOREM RestartsMeanChange ==
  ASSUME UpdateNames \cap FromPathNames = {}
  PROVE  Spec => []RestartMeansChange
<1>1. Init => BaselineInv /\ ChangeInv
  BY DEF Init, BaselineInv, ChangeInv
<1>2. ASSUME TypeInv, MeansInv, BaselineInv, ChangeInv, [Next]_vars PROVE ChangeInv'
  <2>1. CASE Compare
    <3>1. ASSUME ~touched PROVE out = baseline
      <4>1. out = Means(WatchedTemplates, vault, token)
        BY <1>2, <2>1, <3>1, ResolvedIsMeant DEF TypeInv, BaselineInv, Compare, Still, Base
      <4>2. KeysFromPaths(vault) \subseteq FromPathNames
        BY <1>2, KeysAreFromPaths DEF TypeInv
      <4> QED
        BY <1>2, <2>1, <3>1, <4>1, <4>2, WatchedMeans DEF BaselineInv, Compare
    <3> QED
      BY <2>1, <3>1 DEF Compare, ChangeInv
  <2>2. CASE UNCHANGED <<phase, touched>>
    BY <1>2, <2>2 DEF ChangeInv
  <2>3. CASE touched' = TRUE \/ phase' # "restart"
    BY <2>3 DEF ChangeInv
  <2> QED
    BY <1>2, <2>1, <2>2, <2>3 DEF Next, vars, ResolvePlain, ResolvePart, ResolveMissing, ReadPath,
      SkipPath, InjectFails, PollFails, StartChild, Tick, Restart, VaultChanges
<1>3. ChangeInv => RestartMeansChange
  BY DEF ChangeInv, RestartMeansChange
<1> QED
  BY <1>1, <1>2, <1>3, TypeInit, TypeStep, MeansInit, MeansStep, BaselineStep, PTL DEF Spec

-----------------------------------------------------------------------------

\* No value of Vault, and no token, reads like a template.
NoTemplateText ==
  /\ \A p \in Paths : \A d \in Data(p) : \A k \in DOMAIN d : d[k] # "template"
  /\ \A p \in Paths : WriteReply[p] # Missing =>
       \A k \in DOMAIN WriteReply[p] : WriteReply[p][k] # "template"
  /\ \A i \in DOMAIN Tokens : Tokens[i] # "template"

\* Vault has an answer for the part, whatever it holds.
AlwaysThere(part) ==
  IF part.update THEN WriteReply[part.path] # Missing ELSE Missing \notin Contents[part.path]

Clean(value) == \A i \in DOMAIN value : value[i] # "template"

CleanEnv(env) == \A n \in DOMAIN env : Clean(env[n])

LeakInv == CleanEnv(out) /\ CleanEnv(given) /\ Clean(pieces)

\* A piece that is no template leaves the values without one.
LEMMA AddPieceClean ==
  ASSUME TypeOK, CleanEnv(out), Clean(pieces), NEW n, NEW piece \in Pieces, piece # "template",
         AddPiece(n, piece)
  PROVE  CleanEnv(out') /\ Clean(pieces')
<1>1. pieces \in Seq(Pieces)
  BY DEF TypeOK, InjectorOK
<1>2. Clean(Append(pieces, piece))
  BY <1>1 DEF Clean
<1>3. CASE Len(pieces) + 1 = Len(Parts(n))
  BY <1>2, <1>3 DEF AddPiece, Inject, CleanEnv, Clean, Put
<1>4. CASE Len(pieces) + 1 # Len(Parts(n))
  BY <1>2, <1>4 DEF AddPiece
<1> QED
  BY <1>3, <1>4

\* No template is left in the environment of the application, unless missing
\* secrets are ignored and an inline reference may miss one (injector.go:76).
THEOREM TemplatesStayInside ==
  ASSUME NoTemplateText,
         IgnoreMissing => \A n \in Names : Template[n].kind = "inline" =>
                            \A i \in DOMAIN Parts(n) : AlwaysThere(Parts(n)[i])
  PROVE  Spec => []NoTemplateLeaks
<1>1. Init => LeakInv
  BY DEF Init, LeakInv, CleanEnv, Clean
<1>2. ASSUME TypeInv, LeakInv, [Next]_vars PROVE LeakInv'
  <2>0. TypeOK /\ CleanEnv(out) /\ CleanEnv(given) /\ Clean(pieces)
    BY <1>2 DEF TypeInv, LeakInv
  <2>1. ASSUME NEW n \in todo, ResolvePlain(n) PROVE LeakInv'
    <3> DEFINE value == CASE Template[n].kind = "plain" -> <<"text">>
                          [] Template[n].kind = "token" -> <<Tokens[token]>>
                          [] Template[n].kind = "login" -> <<"vault:login">>
    <3>1. n \in Names /\ Parts(n) = <<>> /\ token \in DOMAIN Tokens
      BY <2>0, <2>1 DEF ResolvePlain, TypeOK, InjectorOK, StoreOK
    <3>2. Template[n].kind \in {"plain", "token", "login"}
      BY <3>1, KindsOfTemplates
    <3>3. Clean(<<"text">>) /\ Clean(<<"vault:login">>) /\ Clean(<<Tokens[token]>>)
      BY <3>1 DEF Clean, NoTemplateText
    <3>4. Clean(value)
      BY <3>2, <3>3
    <3>5. Inject(n, value) /\ UNCHANGED given
      BY <2>1 DEF ResolvePlain, child
    <3> HIDE DEF value
    <3> QED
      BY <2>0, <3>4, <3>5 DEF Inject, LeakInv, CleanEnv, Clean, Put
  <2>2. ASSUME NEW n \in todo, ResolvePart(n) PROVE LeakInv'
    <3> DEFINE part == Due(n)
               data == Got(part)
    <3>1. /\ Current(n) /\ data # Missing /\ part.key \in DOMAIN data
          /\ AddPiece(n, data[part.key]) /\ UNCHANGED given
      BY <2>2 DEF ResolvePart, child
    <3>2. part.path \in Paths /\ part.update \in BOOLEAN
      BY <2>0, <3>1, DueIsPart
    <3>3. /\ data \in (IF part.update THEN {WriteReply[part.path]} ELSE Contents[part.path])
          /\ data[part.key] \in Pieces
      BY <1>2, <3>1, <3>2, GotIsVaults
    <3>4. data[part.key] # "template"
      BY <3>1, <3>2, <3>3 DEF NoTemplateText, Data
    <3> QED
      BY <2>0, <3>1, <3>3, <3>4, AddPieceClean DEF LeakInv, CleanEnv, Clean
  <2>3. ASSUME NEW n \in todo, ResolveMissing(n) PROVE LeakInv'
    <3>1. Template[n].kind # "inline"
      <4>1. /\ IgnoreMissing /\ Current(n) /\ Got(Due(n)) = Missing
            /\ n \in Names /\ Len(pieces) + 1 \in 1..Len(Parts(n))
            /\ Due(n).path \in Paths /\ Due(n).update \in BOOLEAN
        BY <2>0, <2>3, DueIsPart DEF ResolveMissing
      <4>2. ~AlwaysThere(Due(n))
        <5>1. Requested(Due(n))
          BY <1>2, <4>1 DEF Got, Requested, TypeInv, CacheInv
        <5> QED
          BY <2>0, <4>1, <5>1 DEF Got, AlwaysThere, TypeOK, StoreOK
      <4>3. Len(pieces) + 1 \in DOMAIN Parts(n)
        BY <4>1, PartsAreReferences
      <4> QED
        BY <4>1, <4>2, <4>3 DEF Due
    <3>2. UNCHANGED <<pieces, out, given>>
      BY <2>3, <3>1 DEF ResolveMissing, child
    <3> QED
      BY <2>0, <3>2 DEF LeakInv, CleanEnv, Clean
  <2>4. CASE ReadPath
    <3>1. EnvFrom[pos] \in Paths
      BY <2>0, <2>4, VaultAssumption DEF VaultAssumption, ReadPath, TypeOK, InjectorOK
    <3>2. vault[EnvFrom[pos]] \in Data(EnvFrom[pos])
      BY <2>0, <2>4, <3>1 DEF ReadPath, Data, TypeOK, StoreOK
    <3>3. CleanEnv(FromData(vault[EnvFrom[pos]]))
      BY <3>1, <3>2 DEF NoTemplateText, CleanEnv, Clean, FromData
    <3>4. out' = Over(FromData(vault[EnvFrom[pos]]), out) /\ UNCHANGED <<pieces, given>>
      BY <2>4 DEF ReadPath, child
    <3> QED
      BY <2>0, <3>3, <3>4 DEF LeakInv, CleanEnv, Over
  <2>5. CASE StartChild
    BY <2>0, <2>5 DEF StartChild, injector, LeakInv, CleanEnv, Clean, Only
  <2>6. CASE Tick \/ Restart
    BY <2>0, <2>6 DEF Tick, Restart, StartInjector, child, LeakInv, CleanEnv, Clean
  <2>7. CASE UNCHANGED <<pieces, out, given>>
    BY <2>0, <2>7 DEF LeakInv, CleanEnv, Clean
  <2> QED
    BY <1>2, <2>1, <2>2, <2>3, <2>4, <2>5, <2>6, <2>7 DEF Next, vars, SkipPath, InjectFails,
      PollFails, Compare, VaultChanges, injector, child
<1>3. LeakInv => NoTemplateLeaks
  BY DEF LeakInv, CleanEnv, Clean, NoTemplateLeaks
<1> QED
  BY <1>1, <1>2, <1>3, TypeInit, TypeStep, PTL DEF Spec

=============================================================================
