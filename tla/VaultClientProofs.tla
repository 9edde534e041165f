------------------------- MODULE VaultClientProofs -------------------------
(***************************************************************************)
(* Theorems about VaultClient, for every configuration and any number of   *)
(* failures, logins and tokens that end.                                   *)
(***************************************************************************)
EXTENDS VaultClient, TLAPS

\* A login and a token file exclude each other; only a client that logged in has
\* anything renewed, and between its logins nothing is.
RenewalInv ==
    /\ config.source = "login" <=> file = 0
    /\ file # 0 => handle = 0
    /\ pc = "create" => handle = 0
    /\ pc = "login" => handle = 0 /\ file = 0
    /\ pc = "close" => ~Kept
    /\ closed => pc \in {"delay", "replaced"} /\ ~Kept

\* The token is there from the injection on; it is only revoked by an injector
\* that is not kept.
UseInv ==
    /\ pc = "create" => current = 0
    /\ pc \notin {"create", "failed"} => current # 0
    /\ pc \in {"kept", "poll", "relogin", "login"} => Kept
    /\ revoked => /\ ~Kept
                  /\ pc \in {"close", "delay", "replaced"}
                  /\ current \in dead

IInv == TypeOK /\ RenewalsOwned /\ RenewalInv /\ UseInv

USE DEF Phases

LEMMA InitInv == Init => IInv
  <1> SUFFICES ASSUME Init PROVE IInv
    OBVIOUS
  <1>1. config \in AllConfigs
    BY ConfigsAssumption DEF ConfigsAssumption, Init
  <1>2. config.source \in {"file", "static", "login"}
    BY <1>1 DEF AllConfigs
  <1>3. issued \in {0, 1} /\ file = issued /\ 0 \in 0..issued /\ file \in 0..issued
    BY DEF Init
  <1>4. TypeOK
    BY <1>3 DEF Init, TypeOK, Tokens
  <1>5. RenewalsOwned /\ RenewalInv /\ UseInv
    BY <1>2, <1>3 DEF Init, RenewalsOwned, RenewalInv, UseInv
  <1>6. QED
    BY <1>4, <1>5 DEF IInv

\* Tokens are only added.
LEMMA MoreTokens ==
    ASSUME TypeOK, issued' \in {issued, issued + 1}
    PROVE  /\ issued' \in Nat
           /\ Tokens \subseteq Tokens'
           /\ \A t \in 0..issued : t \in 0..issued'
           /\ issued + 1 \notin Tokens
  BY DEF TypeOK, Tokens

\* A login numbers its token after all others.
LEMMA LoginIsNew ==
    ASSUME IInv, LoggedIn, running = {}, handle = 0, file = 0
    PROVE  /\ issued' = issued + 1 /\ current' = issued + 1 /\ current' # 0
           /\ current' \in Tokens' /\ handle' \in 0..issued' /\ running' \subseteq Tokens'
           /\ running' \subseteq {current'} \cap {handle'}
           /\ UNCHANGED <<closed, dead, file>>
  <1>1. issued \in Nat
    BY DEF IInv, TypeOK
  <1>2. issued' = issued + 1 /\ issued' \in Tokens' /\ issued' \in 0..issued' /\ 0 \in 0..issued' /\ issued' # 0
    BY <1>1 DEF LoggedIn, Tokens
  <1>3. CASE LongRunning
    <2>1. handle' = issued' /\ current' = issued' /\ running' = {issued'}
      BY <1>2, <1>3 DEF LoggedIn
    <2>2. current' # 0 /\ current' \in Tokens' /\ handle' \in 0..issued'
      BY <1>2, <2>1
    <2>3. running' \subseteq Tokens' /\ running' \subseteq {current'} \cap {handle'}
      BY <2>1, <2>2
    <2>4. QED
      BY <1>2, <2>1, <2>2, <2>3 DEF LoggedIn
  <1>4. CASE ~LongRunning
    BY <1>2, <1>4 DEF LoggedIn
  <1>5. QED
    BY <1>3, <1>4

LEMMA MainStep == IInv /\ Main => IInv'
  <1> SUFFICES ASSUME IInv, Main PROVE IInv'
    OBVIOUS
  <1> USE DEF IInv, Goto, client, store
  <1>0. /\ config' = config
        /\ Kept' = Kept
    BY DEF Main, Create, Fails, Injected, RevokeSelf, Close, Start, Exec, Kept, Polls
  <1>1. CASE Create
    <2>1. revoked' = revoked /\ faults' = faults /\ pc = "create" /\ pc' = "inject" /\ ~closed /\ ~revoked
      BY <1>1 DEF Create, RenewalInv, UseInv
    <2>2. CASE config.source = "login" /\ LoggedIn
      <3>1. running = {} /\ handle = 0 /\ file = 0
        BY <2>1, <2>2 DEF RenewalInv, RenewalsOwned, TypeOK, Tokens
      <3>2. /\ issued' = issued + 1 /\ current' # 0
            /\ current' \in Tokens' /\ handle' \in 0..issued' /\ running' \subseteq Tokens'
            /\ running' \subseteq {current'} \cap {handle'}
            /\ UNCHANGED <<closed, dead, file>>
        BY <2>2, <3>1, LoginIsNew
      <3>3. current' \in 0..issued'
        BY <3>2 DEF TypeOK, Tokens
      <3>4. TypeOK'
        BY <1>0, <2>1, <3>2, <3>3, MoreTokens DEF TypeOK
      <3>5. QED
        BY <1>0, <2>1, <2>2, <3>1, <3>2, <3>4 DEF RenewalInv, RenewalsOwned, UseInv
    <2>3. CASE config.source # "login" /\ current' = file /\ UNCHANGED <<handle, closed, running, store>>
      <3>1. running = {} /\ handle = 0 /\ file # 0
        BY <2>1, <2>3 DEF RenewalInv, RenewalsOwned, TypeOK, Tokens
      <3>2. TypeOK'
        BY <1>0, <2>1, <2>3 DEF TypeOK, Tokens
      <3>3. QED
        BY <1>0, <2>1, <2>3, <3>1, <3>2 DEF RenewalInv, RenewalsOwned, UseInv
    <2>4. QED
      BY <1>1, <2>2, <2>3 DEF Create
  <1>2. CASE Fails
    <2>1. faults' \in Nat /\ pc' = "failed" /\ running' = {}
          /\ pc \in {"create", "inject"}
          /\ UNCHANGED <<current, handle, closed, issued, dead, file, revoked>>
      BY <1>2 DEF Fails, Fault, TypeOK
    <2>2. TypeOK'
      BY <1>0, <2>1 DEF TypeOK, Tokens
    <2>3. QED
      BY <1>0, <2>1, <2>2 DEF RenewalInv, RenewalsOwned, UseInv
  <1>3. CASE RevokeSelf
    <2>1. /\ faults' \in Nat /\ pc = "inject" /\ pc' = "close" /\ ~Kept
          /\ UNCHANGED <<current, handle, closed, running, issued, file>>
          /\ \/ dead' = dead \cup {current} /\ revoked' = TRUE
             \/ dead' = dead /\ revoked' = revoked
      BY <1>3 DEF RevokeSelf, Fault, TypeOK
    <2>2. current # 0
      BY <2>1 DEF UseInv
    <2>3. current \in Tokens
      BY <2>2 DEF TypeOK, Tokens
    <2>4. TypeOK'
      BY <1>0, <2>1, <2>3 DEF TypeOK, Tokens
    <2>5. QED
      BY <1>0, <2>1, <2>2, <2>4 DEF RenewalInv, RenewalsOwned, UseInv
  <1>4. CASE Injected \/ Close \/ Start \/ Exec
    <2>1. /\ UNCHANGED <<current, handle, issued, dead, file, revoked, faults>>
          /\ \/ pc = "inject" /\ pc' = "delay" /\ UNCHANGED <<closed, running>> /\ ~revoked
             \/ pc = "close" /\ pc' = "delay" /\ closed' = TRUE /\ running' = running \ {handle}
             \/ pc = "delay" /\ pc' = "kept" /\ UNCHANGED <<closed, running>> /\ Kept
             \/ pc = "delay" /\ pc' = "replaced" /\ UNCHANGED closed /\ running' = {}
      BY <1>4 DEF Injected, Close, Start, Exec, UseInv
    <2>2. TypeOK'
      BY <1>0, <2>1 DEF TypeOK, Tokens
    <2>3. RenewalsOwned'
      BY <2>1 DEF RenewalsOwned
    <2>4. RenewalInv'
      BY <1>0, <2>1 DEF RenewalInv
    <2>5. UseInv'
      BY <1>0, <2>1 DEF UseInv
    <2>6. QED
      BY <2>2, <2>3, <2>4, <2>5
  <1>5. QED
    BY <1>1, <1>2, <1>3, <1>4 DEF Main

LEMMA PollStep == IInv /\ (Poll \/ Relogin) => IInv'
  <1> SUFFICES ASSUME IInv, Poll \/ Relogin PROVE IInv'
    OBVIOUS
  <1> USE DEF IInv, Goto, client, store
  <1>0. /\ config' = config
        /\ Kept' = Kept
        /\ Polls => Kept
    BY DEF Poll, Tick, PollAnswered, PollDenied, Relogin, ReloginFromFile, ReloginStops,
           ReloginLogsIn, ReloginFails, ReloginRefused, Kept, Polls
  <1>1. CASE Poll \/ ReloginFails \/ ReloginRefused
    <2>1. /\ faults' \in Nat
          /\ UNCHANGED <<current, handle, closed, running, issued, dead, file, revoked>>
          /\ pc \in {"kept", "poll", "relogin", "login"} /\ pc' \in {"kept", "poll", "relogin"}
      BY <1>1 DEF Poll, Tick, PollAnswered, PollDenied, ReloginFails, ReloginRefused, Fault, TypeOK
    <2>2. TypeOK'
      BY <1>0, <2>1 DEF TypeOK, Tokens
    <2>3. QED
      BY <1>0, <2>1, <2>2 DEF RenewalsOwned, RenewalInv, UseInv
  <1>2. CASE ReloginFromFile
    <2>1. /\ faults' \in Nat /\ config.source = "file" /\ ~closed
          /\ pc = "relogin" /\ pc' = "kept"
          /\ current' \in {current, file}
          /\ UNCHANGED <<handle, closed, running, issued, dead, file, revoked>>
      BY <1>2 DEF ReloginFromFile, Fault, TypeOK
    <2>2. file # 0 /\ handle = 0 /\ running = {} /\ ~revoked
      BY <2>1 DEF RenewalInv, RenewalsOwned, UseInv, TypeOK, Tokens
    <2>3. TypeOK'
      BY <1>0, <2>1 DEF TypeOK, Tokens
    <2>4. QED
      BY <1>0, <2>1, <2>2, <2>3 DEF RenewalsOwned, RenewalInv, UseInv
  <1>3. CASE ReloginStops
    <2>1. /\ config.source = "login" /\ ~closed
          /\ pc = "relogin" /\ pc' = "login"
          /\ running' = running \ {handle} /\ handle' = 0
          /\ UNCHANGED <<current, closed, issued, dead, file, revoked, faults>>
      BY <1>3 DEF ReloginStops
    <2>2. file = 0 /\ running' = {}
      BY <2>1 DEF RenewalInv, RenewalsOwned
    <2>3. TypeOK'
      BY <1>0, <2>1, <2>2 DEF TypeOK, Tokens
    <2>4. QED
      BY <1>0, <2>1, <2>2, <2>3 DEF RenewalsOwned, RenewalInv, UseInv
  <1>4. CASE ReloginLogsIn
    <2>1. /\ pc = "login" /\ pc' = "kept" /\ LoggedIn /\ UNCHANGED <<revoked, faults>>
          /\ handle = 0 /\ file = 0 /\ Kept /\ ~closed /\ ~revoked
      BY <1>4 DEF ReloginLogsIn, RenewalInv, UseInv
    <2>2. running = {}
      BY <2>1 DEF RenewalsOwned, TypeOK, Tokens
    <2>3. /\ issued' = issued + 1 /\ current' # 0
          /\ current' \in Tokens' /\ handle' \in 0..issued' /\ running' \subseteq Tokens'
          /\ running' \subseteq {current'} \cap {handle'}
          /\ UNCHANGED <<closed, dead, file>>
      BY <2>1, <2>2, LoginIsNew
    <2>4. current' \in 0..issued'
      BY <2>3 DEF TypeOK, Tokens
    <2>5. TypeOK'
      BY <1>0, <2>1, <2>3, <2>4, MoreTokens DEF TypeOK
    <2>6. QED
      BY <1>0, <2>1, <2>2, <2>3, <2>5 DEF RenewalInv, RenewalsOwned, UseInv
  <1>5. QED
    BY <1>1, <1>2, <1>3, <1>4 DEF Relogin

LEMMA OthersStep ==
    ASSUME IInv,
           AgentRotates \/ \E t \in Tokens : TTLPasses(t) \/ TokenRevoked(t) \/ RenewalEnds(t)
    PROVE  IInv'
  <1> USE DEF IInv, client
  <1>1. CASE AgentRotates
    <2>1. /\ config.source = "file" /\ faults' \in Nat
          /\ issued' = issued + 1 /\ file' = issued + 1
          /\ UNCHANGED <<config, pc, current, handle, closed, running, dead, revoked>>
      BY <1>1 DEF AgentRotates, Fault, TypeOK
    <2>2. file # 0 /\ file' # 0 /\ file' \in 0..issued'
      BY <2>1 DEF RenewalInv, TypeOK
    <2>3. Kept' = Kept
      BY <2>1 DEF Kept, Polls
    <2>4. TypeOK'
      BY <2>1, <2>2, MoreTokens DEF TypeOK
    <2>5. QED
      BY <2>1, <2>2, <2>3, <2>4 DEF RenewalInv, RenewalsOwned, UseInv
  <1>2. CASE \E t \in Tokens : TTLPasses(t) \/ TokenRevoked(t) \/ RenewalEnds(t)
    <2>1. PICK t \in Tokens : TTLPasses(t) \/ TokenRevoked(t) \/ RenewalEnds(t)
      BY <1>2
    <2>2. /\ faults' \in Nat
          /\ UNCHANGED <<config, pc, current, handle, closed, issued, file, revoked>>
          /\ dead' \in {dead, dead \cup {t}} /\ running' \in {running, running \ {t}}
      BY <2>1 DEF TTLPasses, TokenRevoked, RenewalEnds, TokenEnds, Fault, store, TypeOK
    <2>3. Kept' = Kept
      BY <2>2 DEF Kept, Polls
    <2>4. TypeOK'
      BY <2>2 DEF TypeOK, Tokens
    <2>5. QED
      BY <2>2, <2>3, <2>4 DEF RenewalInv, RenewalsOwned, UseInv
  <1>3. QED
    BY <1>1, <1>2

LEMMA Stutter == IInv /\ UNCHANGED vars => IInv'
  BY DEF vars, IInv, TypeOK, RenewalsOwned, RenewalInv, UseInv, Tokens, Kept, Polls

LEMMA Inductive == IInv /\ [Next]_vars => IInv'
  BY MainStep, PollStep, OthersStep, Stutter DEF Next

LEMMA Invariance == Spec => []IInv
  BY InitInv, Inductive, PTL DEF Spec

\* The types, and that only tokens that were issued are used or renewed.
THEOREM TypeCorrect == Spec => []TypeOK
  <1>1. IInv => TypeOK
    BY DEF IInv
  <1>2. QED
    BY Invariance, <1>1, PTL

\* client.go: every renewal is of the token in use and can be stopped.
THEOREM RenewalsAreOwned == Spec => []RenewalsOwned
  <1>1. IInv => RenewalsOwned
    BY DEF IInv
  <1>2. QED
    BY Invariance, <1>1, PTL

-----------------------------------------------------------------------------
(* The contract of the token *)

LEMMA ContractInit == Init => Token!Init
  BY DEF Init, Token!Init, TokenState, InUse

\* What main() does until the child runs, or replaces the process.
LEMMA MainKeeps == IInv /\ Main => Token!Next \/ UNCHANGED Token!vars
  <1> SUFFICES ASSUME IInv, Main PROVE Token!Next \/ UNCHANGED Token!vars
    OBVIOUS
  <1> USE DEF IInv, Goto, client, store
  <1>0. Kept' = Kept
    BY DEF Main, Create, Fails, Injected, RevokeSelf, Close, Start, Exec, Kept, Polls
  <1>1. CASE Create
    <2>1. /\ pc = "create" /\ pc' = "inject" /\ current = 0 /\ ~revoked /\ ~revoked'
          /\ \/ LoggedIn /\ running = {} /\ handle = 0 /\ file = 0
             \/ current' = file /\ file # 0
      BY <1>1 DEF Create, UseInv, RenewalInv, RenewalsOwned, TypeOK, Tokens
    <2>2. current' # 0
      BY <2>1, LoginIsNew
    <2>3. TokenState = "none" /\ TokenState' \in {"valid", "expired"} /\ InUse = TRUE /\ InUse' = TRUE
      BY <2>1, <2>2 DEF TokenState, InUse
    <2>4. QED
      BY <2>3 DEF Token!Next, Token!Obtain
  <1>2. CASE RevokeSelf
    <2>1. /\ pc = "inject" /\ pc' = "close" /\ ~Kept /\ current # 0 /\ current' = current /\ issued' = issued
          /\ (revoked' = TRUE) \/ (revoked' = revoked /\ dead' = dead)
      BY <1>2 DEF RevokeSelf, UseInv
    <2>2. InUse' = FALSE
      BY <1>0, <2>1 DEF InUse
    <2>3. TokenState' = "revoked" \/ TokenState' = TokenState
      BY <2>1 DEF TokenState, Live, Tokens
    <2>4. QED
      BY <2>2, <2>3 DEF Token!Next, Token!Revoke, Token!Retire
  <1>3. CASE Fails \/ Injected \/ Close \/ Start \/ Exec
    <2>1. TokenState' = TokenState
      BY <1>3 DEF Fails, Injected, Close, Start, Exec, TokenState, Live, Tokens
    <2>2. InUse' = FALSE \/ InUse' = InUse
      BY <1>0, <1>3 DEF Fails, Injected, Close, Start, Exec, InUse
    <2>3. QED
      BY <2>1, <2>2 DEF Token!Next, Token!vars, Token!Retire
  <1>4. QED
    BY <1>1, <1>2, <1>3 DEF Main

\* A watcher replaces its token only while it is one of those who are kept.
LEMMA PollKeeps == IInv /\ (Poll \/ Relogin) => Token!Next \/ UNCHANGED Token!vars
  <1> SUFFICES ASSUME IInv, Poll \/ Relogin PROVE Token!Next \/ UNCHANGED Token!vars
    OBVIOUS
  <1> USE DEF IInv, Goto, client, store
  <1>1. /\ Kept' = Kept
        /\ pc \in {"kept", "poll", "relogin", "login"}
        /\ pc' \in {"kept", "poll", "relogin", "login"}
        /\ revoked' = revoked
    BY DEF Poll, Tick, PollAnswered, PollDenied, Relogin, ReloginFromFile, ReloginStops,
           ReloginLogsIn, ReloginFails, ReloginRefused, Kept, Polls
  <1>2. InUse = TRUE /\ InUse' = TRUE /\ current # 0 /\ ~revoked
    BY <1>1 DEF InUse, UseInv
  <1>3. current' # 0 \/ UNCHANGED <<current, issued, dead>>
    <2>1. CASE ReloginLogsIn
      <3>1. pc = "login" /\ LoggedIn /\ handle = 0 /\ file = 0
        BY <2>1 DEF ReloginLogsIn, RenewalInv
      <3>2. running = {}
        BY <3>1 DEF RenewalsOwned, TypeOK, Tokens
      <3>3. QED
        BY <3>1, <3>2, LoginIsNew
    <2>2. CASE ReloginFromFile
      <3>1. file # 0 /\ current' \in {current, file}
        BY <2>2 DEF ReloginFromFile, RenewalInv
      <3>2. QED
        BY <1>2, <3>1
    <2>3. CASE Poll \/ ReloginStops \/ ReloginFails \/ ReloginRefused
      BY <2>3 DEF Poll, Tick, PollAnswered, PollDenied, ReloginStops, ReloginFails, ReloginRefused
    <2>4. QED
      BY <2>1, <2>2, <2>3 DEF Relogin
  <1>4. TokenState \in {"valid", "expired"} /\ TokenState' \in {"valid", "expired"}
    BY <1>1, <1>2, <1>3 DEF TokenState
  <1>5. QED
    BY <1>2, <1>4 DEF Token!Next, Token!vars, Token!Expire, Token!Replace

LEMMA OthersKeep ==
    ASSUME IInv,
           AgentRotates \/ \E t \in Tokens : TTLPasses(t) \/ TokenRevoked(t) \/ RenewalEnds(t)
    PROVE  Token!Next \/ UNCHANGED Token!vars
  <1>1. /\ UNCHANGED <<config, pc, current, revoked>> /\ issued' \in {issued, issued + 1}
        /\ dead \subseteq dead'
    BY DEF AgentRotates, TTLPasses, TokenRevoked, RenewalEnds, TokenEnds, client, store
  <1>2. InUse' = InUse
    BY <1>1 DEF InUse, Kept, Polls
  <1>3. Live(current)' => Live(current) \/ current = 0
    BY <1>1 DEF Live, Tokens, IInv, TypeOK
  <1>4. TokenState' = TokenState \/ (TokenState = "valid" /\ TokenState' = "expired")
    BY <1>1, <1>3 DEF TokenState
  <1>5. QED
    BY <1>2, <1>4 DEF Token!Next, Token!vars, Token!Expire

LEMMA ContractStep == IInv /\ [Next]_vars => [Token!Next]_(Token!vars)
  <1> SUFFICES ASSUME IInv, [Next]_vars PROVE Token!Next \/ UNCHANGED Token!vars
    OBVIOUS
  <1>1. CASE UNCHANGED vars
    BY <1>1 DEF vars, Token!vars, TokenState, InUse, Live, Tokens, Kept, Polls
  <1>2. CASE Next
    BY <1>2, MainKeeps, PollKeeps, OthersKeep DEF Next
  <1>3. QED
    BY <1>1, <1>2

\* Every behaviour of the client is one of the contract: a token in use is only
\* ever replaced, and revoked, for good, by an injector that needs none.
THEOREM KeepsTheToken == Spec => KeepsToken
  BY Invariance, ContractInit, ContractStep, PTL DEF Spec, KeepsToken, Token!Spec
-----------------------------------------------------------------------------
(* What recovery rests on *)

\* The file is never behind the client.
FileInv == file # 0 => current <= file

LEMMA FileStep == IInv /\ FileInv /\ [Next]_vars => FileInv' /\ current' >= current
  <1> SUFFICES ASSUME IInv, FileInv, [Next]_vars PROVE FileInv' /\ current' >= current
    OBVIOUS
  <1> USE DEF FileInv, Goto, client, store
  <1>0. issued \in Nat /\ current \in 0..issued /\ file \in 0..issued /\ current <= issued
    BY DEF IInv, TypeOK
  <1>1. CASE LoggedIn /\ file = 0
    BY <1>0, <1>1 DEF LoggedIn
  <1>2. CASE Create
    <2>1. config.source = "login" => file = 0
      BY DEF IInv, RenewalInv
    <2>2. current = 0
      BY <1>2 DEF Create, IInv, UseInv
    <2>3. QED
      BY <1>0, <1>1, <1>2, <2>1, <2>2 DEF Create
  <1>3. CASE ReloginLogsIn
    BY <1>1, <1>3 DEF ReloginLogsIn, IInv, RenewalInv
  <1>4. CASE ReloginFromFile
    <2>1. file # 0
      BY <1>4 DEF ReloginFromFile, IInv, RenewalInv
    <2>2. QED
      BY <1>0, <1>4, <2>1 DEF ReloginFromFile
  <1>5. CASE AgentRotates
    BY <1>0, <1>5 DEF AgentRotates
  <1>6. CASE UNCHANGED <<current, file>>
    BY <1>0, <1>6
  <1>7. QED
    BY <1>2, <1>3, <1>4, <1>5, <1>6
       DEF Next, Main, Fails, Injected, RevokeSelf, Close, Start, Exec, Poll, Tick, PollAnswered, PollDenied,
           Relogin, ReloginStops, ReloginFails, ReloginRefused, TTLPasses, TokenRevoked, TokenEnds,
           RenewalEnds, vars

\* Tokens replace each other in the order they were issued: no re-login, from the
\* file or from Vault, after failures or not, brings back a token older than the
\* one in use; so that a token that has ended is never used again once replaced.
THEOREM NeverAnOlderToken == Spec => [][current' >= current]_vars
  <1>1. Init => FileInv
    BY DEF Init, FileInv
  <1>2. QED
    BY <1>1, FileStep, Invariance, PTL DEF Spec

\* The client is closed only by an injector that polls no more: Relogin refuses
\* nobody but the owner of a static token.
THEOREM NeverRefusedByClose == Spec => [][ReloginRefused => config.source = "static"]_vars
  <1>1. IInv => (ReloginRefused => config.source = "static")
    BY DEF IInv, RenewalInv, ReloginRefused, Goto
  <1>2. QED
    BY <1>1, Invariance, PTL
=============================================================================
