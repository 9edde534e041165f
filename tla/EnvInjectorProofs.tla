------------------------- MODULE EnvInjectorProofs -------------------------
(***************************************************************************)
(* Theorems about EnvInjector for every set of paths, leases and values,   *)
(* and any bounds. The invariants of the runs are not inductive as they    *)
(* stand: what makes them so is what is in the channel, in the forwarder's *)
(* hand and in a poll under way.                                           *)
(***************************************************************************)
EXTENDS EnvInjector, TLAPS

Before    == {"login", "inject", "delay", "notified"}
ChildGone == child \in {"exited", "signaled"}

\* f's SIGTERM has been sent to the child, is in the forwarder's hand, is queued.
TermTried(f)  == \E t \in tried : t.sig = "TERM" /\ t.from = f
TermInHand(f) == hand # <<>> /\ hand[1].sig = "TERM" /\ hand[1].from = f
TermQueued(f) == sigs # <<>> /\ sigs[1].sig = "TERM" /\ sigs[1].from = f

\* Whoever may send a SIGKILL: the watcher after a change, a renewer at its end.
MayKill(f) == IF f = "watcher" THEN restart ELSE f \in Leases /\ renewer[f] = "done"

\* Where main() is says what the child and the goroutines can be doing.
PhaseInv ==
    /\ main \notin {"login", "inject", "exited"} => \A p \in Paths : env[p] # Unread
    /\ exitBy = "exec" \/ watcher # "off" \/ child # "none" => \A p \in Paths : env[p] # Unread
    /\ main \in Before => watcher = "off" /\ child = "none" /\ forwarder = "off"
    /\ child = "none" => tried = {} /\ hand = <<>> /\ forwarder = "off"
    /\ main = "waiting" => child # "none"
    /\ main \in {"reaped", "stopped", "exitRestart", "exitChild"} => ChildGone
    /\ IF main = "exited" THEN exitBy \in {"child", "error", "exec", "restart", "signal"}
     ELSE exitBy = "none"
    /\ main = "exited" => exitBy # "none"
    /\ exitBy \in {"error", "exec"} => tried = {}
    /\ \A p \in Leases : env[p] = Unread => renewer[p] = "off"

\* Vault differs from the environment, now or when a poll read it: it is on record.
ChangeInv ==
    /\ watcher # "reading" => \A p \in Paths : polled[p] = Unread
    /\ \A p \in Paths : env[p] # Unread /\ vault[p] # env[p] => p \in differed
    /\ \A p \in Paths : polled[p] # Unread /\ polled[p] # env[p] => p \in differed
    /\ restart => differed \cap Watched # {}

\* Every trace of the watcher's signals comes after the flag.
FlagInv ==
    /\ watcher \in {"sendTerm", "grace", "sendKill"} => restart
    /\ sigs # <<>> /\ sigs[1].from = "watcher" => restart
    /\ hand # <<>> /\ hand[1].from = "watcher" => restart
    /\ \A t \in tried : t.from = "watcher" => restart
    /\ main = "exitRestart" => restart
    /\ main = "exitChild" \/ exitBy = "child" => \A t \in tried : t.from # "watcher"

\* The order of each requester's two signals, wherever they are.
KillInv ==
    /\ \A t \in tried : t.sig = "KILL" => TermTried(t.from) /\ MayKill(t.from)
    /\ hand # <<>> /\ hand[1].sig = "KILL" =>
         MayKill(hand[1].from) /\ (ChildGone \/ TermTried(hand[1].from))
    /\ sigs # <<>> /\ sigs[1].sig = "KILL" =>
         /\ MayKill(sigs[1].from)
         /\ ChildGone \/ TermTried(sigs[1].from) \/ TermInHand(sigs[1].from)
    /\ watcher \in {"grace", "sendKill"} =>
         ChildGone \/ TermTried("watcher") \/ TermInHand("watcher") \/ TermQueued("watcher")
    /\ \A p \in Leases : renewer[p] \in {"grace", "sendKill"} =>
         ChildGone \/ TermTried(p) \/ TermInHand(p) \/ TermQueued(p)

IInv == TypeOK /\ PhaseInv /\ ChangeInv /\ FlagInv /\ KillInv
-----------------------------------------------------------------------------
(* The channel: with room it is empty, and a send makes it hold one signal. *)

LEMMA SendOne ==
    ASSUME NEW R, NEW s \in AtMostOne(R), Len(s) < 1, NEW x
    PROVE  s = <<>> /\ Append(s, x) = <<x>>
  <1>1. s = <<>>
    BY DEF AtMostOne
  <1>2. QED
    BY <1>1

LEMMA TakeOne ==
    ASSUME NEW R, NEW s \in AtMostOne(R), s # <<>>
    PROVE  Head(s) = s[1] /\ Tail(s) = <<>> /\ s[1] \in R /\ <<s[1]>> = s
  <1>1. PICK x \in R : s = <<x>>
    BY DEF AtMostOne
  <1>2. QED
    BY <1>1

\* What a send does to the channel, and what the forwarder takes.
LEMMA SendFills ==
    ASSUME TypeOK, HasRoom, NEW sig, NEW from, Sent(sig, from)
    PROVE  /\ sigs = <<>>
           /\ sigs' = <<[sig |-> sig, from |-> from]>>
           /\ sigs' # <<>> /\ sigs'[1].sig = sig /\ sigs'[1].from = from
  <1>1. sigs = <<>> /\ sigs' = <<[sig |-> sig, from |-> from]>>
    BY SendOne DEF TypeOK, HasRoom, SigsCap, Sent
  <1>2. QED
    BY <1>1

LEMMA KubeFills ==
    ASSUME TypeOK, NEW s \in KubeSignals, KubeSignal(s)
    PROVE  \/ sigs' = sigs
           \/ /\ sigs = <<>>
              /\ sigs' = <<[sig |-> s, from |-> "kubelet"]>>
              /\ sigs' # <<>> /\ sigs'[1].sig = s /\ sigs'[1].from = "kubelet"
  <1>1. sigs' = sigs \/ (HasRoom /\ Sent(s, "kubelet"))
    BY DEF KubeSignal
  <1>2. QED
    BY <1>1, SendFills

LEMMA ReceiveTakes ==
    ASSUME TypeOK, Receive
    PROVE  sigs # <<>> /\ hand = <<>> /\ sigs' = <<>> /\ hand' = sigs /\ hand'[1] = sigs[1]
  BY TakeOne DEF TypeOK, Receive
-----------------------------------------------------------------------------
(* Type correctness *)

\* The types the text of the module declares are those of every reachable state.
LEMMA TypeInit == Init => TypeOK
  <1> SUFFICES ASSUME Init PROVE TypeOK
    OBVIOUS
  <1>1. sigs \in AtMostOne(Requests) /\ hand \in AtMostOne(Requests)
    BY DEF Init, AtMostOne
  <1>2. renewer \in [Leases -> {"off", "renewing", "sleeping"} \cup SendPhases]
    BY DEF Init
  <1>3. env \in [Paths -> Values \cup {Unread}] /\ polled \in [Paths -> Values \cup {Unread}]
    BY DEF Init
  <1>4. exitCode \in 0..255 /\ childCode \in 0..255 /\ changes \in Nat /\ faults \in Nat /\ kube \in Nat
    BY DEF Init
  <1>5. QED
    BY <1>1, <1>2, <1>3, <1>4 DEF Init, TypeOK

LEMMA TypeStep == TypeOK /\ [Next]_vars => TypeOK'
  <1> SUFFICES ASSUME TypeOK, [Next]_vars PROVE TypeOK'
    OBVIOUS
  <1> USE DEF TypeOK, SendPhases
  <1>1. CASE Login BY <1>1 DEF Login, Exit, childVars, readVars, fwdVars, pollVars
  <1>2. CASE \E p \in Paths : InjectRead(p)
    BY <1>2, PathsAssumption DEF InjectRead, mainVars, childVars, vaultVars, fwdVars, pollVars
  <1>3. CASE InjectFails BY <1>3 DEF InjectFails, Exit, childVars, readVars, fwdVars, pollVars
  <1>4. CASE InjectDone BY <1>4 DEF InjectDone, childVars, readVars, fwdVars, pollVars
  <1>5. CASE Exec \/ StartFails \/ ExitMain
    BY <1>5 DEF Exec, StartFails, ExitMain, Exit, notMain, childVars, readVars, vaultVars, fwdVars, pollVars
  <1>6. CASE Notify \/ WaitReturns \/ StopWatching \/ LoadRestart
    BY <1>6 DEF Notify, WaitReturns, StopWatching, LoadRestart, Goto, notMain, childVars, readVars,
                vaultVars, fwdVars, pollVars
  <1>7. CASE Start
    BY <1>7 DEF Start, readVars, vaultVars
  <1>8. CASE ChildExits
    BY <1>8, SignalsAssumption DEF ChildExits, mainVars, readVars, vaultVars, fwdVars, pollVars
  <1>9. CASE \E sig \in KubeSignals \cup {"TERM", "KILL"} : ChildDies(sig)
    BY <1>9 DEF ChildDies, mainVars, readVars, vaultVars, fwdVars, pollVars
  <1>10. CASE \E s \in KubeSignals : KubeSignal(s)
    <2> PICK s \in KubeSignals : KubeSignal(s)
      BY <1>10
    <2>1. sigs' \in AtMostOne(Requests)
      BY KubeFills DEF AtMostOne, Requests, Signals, Senders
    <2>2. QED
      BY <2>1 DEF KubeSignal, Signals, Exit, mainVars, childVars, readVars, vaultVars, fwdVars, pollVars
  <1>11. CASE \E p \in Paths, v \in Values : VaultWrite(p, v)
    BY <1>11 DEF VaultWrite, mainVars, childVars, fwdVars, pollVars
  <1>12. CASE TokenExpires
    BY <1>12 DEF TokenExpires, mainVars, childVars, readVars, fwdVars, pollVars
  <1>13. CASE Receive
    BY <1>13, ReceiveTakes DEF Receive, AtMostOne, mainVars, childVars, readVars, vaultVars, pollVars
  <1>14. CASE Forward
    <2>1. PICK ok \in BOOLEAN :
            /\ tried' \subseteq tried \cup {[sig |-> hand[1].sig, from |-> hand[1].from, ok |-> ok]}
            /\ owed' \subseteq owed
      BY <1>14 DEF Forward
    <2>2. hand[1] \in Requests
      BY <1>14, TakeOne DEF Forward
    <2>3. tried' \subseteq [sig : Signals, from : Senders, ok : BOOLEAN]
      BY <2>1, <2>2 DEF Requests
    <2>4. QED
      BY <1>14, <2>1, <2>3 DEF Forward, AtMostOne, mainVars, childVars, readVars, vaultVars, pollVars
  <1>15. CASE StopForwarding
    BY <1>15 DEF StopForwarding, AtMostOne, mainVars, childVars, readVars, vaultVars, pollVars
  <1>16. CASE WatcherStops \/ PollStarts \/ WatcherGrace
    BY <1>16 DEF WatcherStops, PollStarts, WatcherGrace, notWatch, mainVars, childVars, readVars,
                vaultVars, fwdVars
  <1>17. CASE \E p \in Watched : PollReads(p)
    BY <1>17 DEF PollReads, Watched, notWatch, mainVars, childVars, readVars, vaultVars, fwdVars
  <1>18. CASE PollFails
    BY <1>18 DEF PollFails, notWatch, mainVars, childVars, readVars, fwdVars
  <1>19. CASE Relogin
    BY <1>19 DEF Relogin, notWatch, mainVars, childVars, readVars, fwdVars
  <1>20. CASE PollCompares
    <2>1. polled' \in [Paths -> Values \cup {Unread}]
      BY <1>20 DEF PollCompares
    <2>2. restart' \in BOOLEAN /\ watcher' \in {"idle", "sendTerm"}
      BY <1>20 DEF PollCompares
    <2>3. QED
      BY <1>20, <2>1, <2>2 DEF PollCompares, notWatch, mainVars, childVars, readVars, vaultVars, fwdVars
  <1>21. CASE WatcherTerm \/ WatcherKill
    <2>1. sigs' \in AtMostOne(Requests)
      BY <1>21, SendFills DEF WatcherTerm, WatcherKill, AtMostOne, Requests, Signals, Senders
    <2>2. QED
      BY <1>21, <2>1 DEF WatcherTerm, WatcherKill, notWatch, mainVars, childVars, readVars, vaultVars, fwdVars
  <1>22. CASE \E p \in Leases : RenewalEnds(p) \/ LeaseExpires(p) \/ RenewerGrace(p)
    BY <1>22 DEF RenewalEnds, LeaseExpires, RenewerGrace, RenewerGoes, mainVars, childVars, readVars,
                vaultVars, fwdVars, pollVars
  <1>23. CASE \E p \in Leases : RenewerTerm(p) \/ RenewerKill(p)
    <2>1. sigs' \in AtMostOne(Requests)
      BY <1>23, SendFills DEF RenewerTerm, RenewerKill, AtMostOne, Requests, Signals, Senders
    <2>2. QED
      BY <1>23, <2>1 DEF RenewerTerm, RenewerKill, RenewerGoes, mainVars, childVars, readVars, vaultVars,
                        fwdVars, pollVars
  <1>24. CASE UNCHANGED vars
    BY <1>24 DEF vars, notMain, mainVars, childVars, readVars, vaultVars, fwdVars, pollVars
  <1>25. QED
    BY <1>1, <1>2, <1>3, <1>4, <1>5, <1>6, <1>7, <1>8, <1>9, <1>10, <1>11, <1>12, <1>13, <1>14, <1>15,
       <1>16, <1>17, <1>18, <1>19, <1>20, <1>21, <1>22, <1>23, <1>24
       DEF Next, Main, Environment, Forwarder, Watcher, Renewer, Ending, Exited-----------------------------------------------------------------------------
(* Where main() is, what a poll knows and what a signal stands for *)

\* No action lets a goroutine run before its time or after main() is over.
LEMMA PhaseStep == TypeOK /\ PhaseInv /\ [Next]_vars => PhaseInv'
  <1> SUFFICES ASSUME TypeOK /\ PhaseInv, [Next]_vars PROVE PhaseInv'
    OBVIOUS
  <1> USE PathsAssumption DEF PhaseInv, TypeOK, Before, ChildGone, notMain, notWatch, mainVars, childVars, readVars, vaultVars, fwdVars, pollVars
  <1>1. CASE Login
    BY <1>1 DEF Login, Exit
  <1>2. CASE \E p \in Paths : InjectRead(p)
    BY <1>2 DEF InjectRead
  <1>3. CASE InjectFails
    BY <1>3 DEF InjectFails, Exit
  <1>4. CASE InjectDone
    BY <1>4 DEF InjectDone
  <1>5. CASE Exec \/ StartFails
    BY <1>5 DEF Exec, StartFails, Exit
  <1>6. CASE Notify \/ WaitReturns \/ StopWatching
    BY <1>6 DEF Notify, WaitReturns, StopWatching, Goto
  <1>7. CASE LoadRestart
    BY <1>7 DEF LoadRestart, Goto
  <1>8. CASE ExitMain
    BY <1>8 DEF ExitMain, Exit
  <1>9. CASE Start
    BY <1>9 DEF Start
  <1>10. CASE ChildExits
    BY <1>10 DEF ChildExits
  <1>11. CASE \E sig \in KubeSignals \cup {"TERM", "KILL"} : ChildDies(sig)
    BY <1>11 DEF ChildDies
  <1>12. CASE \E s \in KubeSignals : KubeSignal(s)
    BY <1>12 DEF KubeSignal, Notified, Exit
  <1>13. CASE \E p \in Paths, v \in Values : VaultWrite(p, v)
    BY <1>13 DEF VaultWrite
  <1>14. CASE TokenExpires
    BY <1>14 DEF TokenExpires
  <1>15. CASE Receive
    BY <1>15 DEF Receive
  <1>16. CASE Forward
    BY <1>16 DEF Forward, Running, Reaped
  <1>17. CASE StopForwarding
    BY <1>17 DEF StopForwarding, Running, Reaped
  <1>18. CASE WatcherStops \/ PollStarts \/ WatcherGrace
    BY <1>18 DEF WatcherStops, PollStarts, WatcherGrace
  <1>19. CASE \E p \in Watched : PollReads(p)
    BY <1>19 DEF PollReads, Watched
  <1>20. CASE PollFails
    BY <1>20 DEF PollFails
  <1>21. CASE Relogin
    BY <1>21 DEF Relogin
  <1>22. CASE PollCompares
    BY <1>22 DEF PollCompares
  <1>23. CASE WatcherTerm \/ WatcherKill
    BY <1>23 DEF WatcherTerm, WatcherKill
  <1>24. CASE \E p \in Leases : RenewalEnds(p) \/ LeaseExpires(p) \/ RenewerGrace(p)
    BY <1>24 DEF RenewalEnds, LeaseExpires, RenewerGrace, RenewerGoes
  <1>25. CASE \E p \in Leases : RenewerTerm(p) \/ RenewerKill(p)
    BY <1>25 DEF RenewerTerm, RenewerKill, RenewerGoes
  <1>26. CASE UNCHANGED vars
    BY <1>26 DEF vars
  <1>27. QED
    BY <1>1, <1>2, <1>3, <1>4, <1>5, <1>6, <1>7, <1>8, <1>9, <1>10, <1>11, <1>12, <1>13, <1>14, <1>15, <1>16, <1>17, <1>18, <1>19, <1>20, <1>21, <1>22, <1>23, <1>24, <1>25, <1>26
       DEF Next, Main, Environment, Forwarder, Watcher, Renewer, Ending, Exited

\* Every difference a poll may have read is on record.
LEMMA ChangeStep == TypeOK /\ PhaseInv /\ ChangeInv /\ [Next]_vars => ChangeInv'
  <1> SUFFICES ASSUME TypeOK /\ PhaseInv /\ ChangeInv, [Next]_vars PROVE ChangeInv'
    OBVIOUS
  <1> USE PathsAssumption DEF PhaseInv, ChangeInv, TypeOK, Before, notMain, notWatch, mainVars, childVars, readVars, vaultVars, fwdVars, pollVars
  <1>1. CASE Login
    BY <1>1 DEF Login, Exit
  <1>2. CASE \E p \in Paths : InjectRead(p)
    BY <1>2 DEF InjectRead
  <1>3. CASE InjectFails
    BY <1>3 DEF InjectFails, Exit
  <1>4. CASE InjectDone
    BY <1>4 DEF InjectDone
  <1>5. CASE Exec \/ StartFails
    BY <1>5 DEF Exec, StartFails, Exit
  <1>6. CASE Notify \/ WaitReturns \/ StopWatching
    BY <1>6 DEF Notify, WaitReturns, StopWatching, Goto
  <1>7. CASE LoadRestart
    BY <1>7 DEF LoadRestart, Goto
  <1>8. CASE ExitMain
    BY <1>8 DEF ExitMain, Exit
  <1>9. CASE Start
    BY <1>9 DEF Start
  <1>10. CASE ChildExits
    BY <1>10 DEF ChildExits
  <1>11. CASE \E sig \in KubeSignals \cup {"TERM", "KILL"} : ChildDies(sig)
    BY <1>11 DEF ChildDies
  <1>12. CASE \E s \in KubeSignals : KubeSignal(s)
    BY <1>12 DEF KubeSignal, Notified, Exit
  <1>13. CASE \E p \in Paths, v \in Values : VaultWrite(p, v)
    BY <1>13 DEF VaultWrite
  <1>14. CASE TokenExpires
    BY <1>14 DEF TokenExpires
  <1>15. CASE Receive
    BY <1>15 DEF Receive
  <1>16. CASE Forward
    BY <1>16 DEF Forward, Running, Reaped
  <1>17. CASE StopForwarding
    BY <1>17 DEF StopForwarding, Running, Reaped
  <1>18. CASE WatcherStops \/ PollStarts \/ WatcherGrace
    BY <1>18 DEF WatcherStops, PollStarts, WatcherGrace
  <1>19. CASE \E p \in Watched : PollReads(p)
    BY <1>19 DEF PollReads, Watched
  <1>20. CASE PollFails
    BY <1>20 DEF PollFails
  <1>21. CASE Relogin
    BY <1>21 DEF Relogin
  <1>22. CASE PollCompares
    <2>1. restart' => differed \cap Watched # {}
      BY <1>22 DEF PollCompares, Watched
    <2>2. watcher' # "reading" /\ \A p \in Paths : polled'[p] = Unread
      BY <1>22 DEF PollCompares
    <2>3. QED
      BY <1>22, <2>1, <2>2 DEF PollCompares
  <1>23. CASE WatcherTerm \/ WatcherKill
    BY <1>23 DEF WatcherTerm, WatcherKill
  <1>24. CASE \E p \in Leases : RenewalEnds(p) \/ LeaseExpires(p) \/ RenewerGrace(p)
    BY <1>24 DEF RenewalEnds, LeaseExpires, RenewerGrace, RenewerGoes
  <1>25. CASE \E p \in Leases : RenewerTerm(p) \/ RenewerKill(p)
    BY <1>25 DEF RenewerTerm, RenewerKill, RenewerGoes
  <1>26. CASE UNCHANGED vars
    BY <1>26 DEF vars
  <1>27. QED
    BY <1>1, <1>2, <1>3, <1>4, <1>5, <1>6, <1>7, <1>8, <1>9, <1>10, <1>11, <1>12, <1>13, <1>14, <1>15, <1>16, <1>17, <1>18, <1>19, <1>20, <1>21, <1>22, <1>23, <1>24, <1>25, <1>26
       DEF Next, Main, Environment, Forwarder, Watcher, Renewer, Ending, Exited

\* No signal of the watcher travels ahead of the flag.
LEMMA FlagStep == TypeOK /\ PhaseInv /\ FlagInv /\ [Next]_vars => FlagInv'
  <1> SUFFICES ASSUME TypeOK /\ PhaseInv /\ FlagInv, [Next]_vars PROVE FlagInv'
    OBVIOUS
  <1> USE DEF PhaseInv, FlagInv, TypeOK, Before, ChildGone, notMain, notWatch, mainVars, childVars, readVars, vaultVars, fwdVars, pollVars
  <1>1. CASE Login
    BY <1>1 DEF Login, Exit
  <1>2. CASE \E p \in Paths : InjectRead(p)
    BY <1>2 DEF InjectRead
  <1>3. CASE InjectFails
    BY <1>3 DEF InjectFails, Exit
  <1>4. CASE InjectDone
    BY <1>4 DEF InjectDone
  <1>5. CASE Exec \/ StartFails
    BY <1>5 DEF Exec, StartFails, Exit
  <1>6. CASE Notify \/ WaitReturns \/ StopWatching
    BY <1>6 DEF Notify, WaitReturns, StopWatching, Goto
  <1>7. CASE LoadRestart
    BY <1>7 DEF LoadRestart, Goto
  <1>8. CASE ExitMain
    BY <1>8 DEF ExitMain, Exit
  <1>9. CASE Start
    BY <1>9 DEF Start
  <1>10. CASE ChildExits
    BY <1>10 DEF ChildExits
  <1>11. CASE \E sig \in KubeSignals \cup {"TERM", "KILL"} : ChildDies(sig)
    BY <1>11 DEF ChildDies
  <1>12. CASE \E s \in KubeSignals : KubeSignal(s)
    <2> PICK s \in KubeSignals : KubeSignal(s)
      BY <1>12
    <2>1. sigs' = sigs \/ (sigs' # <<>> /\ sigs'[1].from = "kubelet")
      BY KubeFills
    <2>2. QED
      BY <2>1 DEF KubeSignal, Exit
  <1>13. CASE \E p \in Paths, v \in Values : VaultWrite(p, v)
    BY <1>13 DEF VaultWrite
  <1>14. CASE TokenExpires
    BY <1>14 DEF TokenExpires
  <1>15. CASE Receive
    BY <1>15, ReceiveTakes DEF Receive
  <1>16. CASE Forward
    BY <1>16 DEF Forward, Running, Reaped
  <1>17. CASE StopForwarding
    BY <1>17 DEF StopForwarding, Running, Reaped
  <1>18. CASE WatcherStops \/ PollStarts \/ WatcherGrace
    BY <1>18 DEF WatcherStops, PollStarts, WatcherGrace
  <1>19. CASE \E p \in Watched : PollReads(p)
    BY <1>19 DEF PollReads, Watched
  <1>20. CASE PollFails
    BY <1>20 DEF PollFails
  <1>21. CASE Relogin
    BY <1>21 DEF Relogin
  <1>22. CASE PollCompares
    BY <1>22 DEF PollCompares
  <1>23. CASE WatcherTerm \/ WatcherKill
    BY <1>23, SendFills DEF WatcherTerm, WatcherKill
  <1>24. CASE \E p \in Leases : RenewalEnds(p) \/ LeaseExpires(p) \/ RenewerGrace(p)
    BY <1>24 DEF RenewalEnds, LeaseExpires, RenewerGrace, RenewerGoes
  <1>25. CASE \E p \in Leases : RenewerTerm(p) \/ RenewerKill(p)
    <2>1. sigs' # <<>> /\ sigs'[1].from # "watcher"
      BY <1>25, SendFills, PathsAssumption DEF RenewerTerm, RenewerKill
    <2>2. QED
      BY <1>25, <2>1 DEF RenewerTerm, RenewerKill, RenewerGoes
  <1>26. CASE UNCHANGED vars
    BY <1>26 DEF vars
  <1>27. QED
    BY <1>1, <1>2, <1>3, <1>4, <1>5, <1>6, <1>7, <1>8, <1>9, <1>10, <1>11, <1>12, <1>13, <1>14, <1>15, <1>16, <1>17, <1>18, <1>19, <1>20, <1>21, <1>22, <1>23, <1>24, <1>25, <1>26
       DEF Next, Main, Environment, Forwarder, Watcher, Renewer, Ending, Exited
-----------------------------------------------------------------------------
(* The order of a requester's two signals *)

\* What the running child has been sent grows by the signal in hand.
LEMMA ForwardSends ==
    ASSUME TypeOK, KillInv, Forward, child = "running"
    PROVE  /\ \A f : TermTried(f) \/ TermInHand(f) => TermTried(f)'
           /\ \A t \in tried' : t.sig = "KILL" => TermTried(t.from)' /\ MayKill(t.from)'
  <1>1. PICK ok \in BOOLEAN :
          tried' = tried \cup {[sig |-> hand[1].sig, from |-> hand[1].from, ok |-> ok]}
    BY DEF Forward
  <1>2. ASSUME NEW f, TermTried(f) \/ TermInHand(f)
        PROVE  TermTried(f)'
    <2>1. CASE TermTried(f)
      BY <1>1, <2>1 DEF TermTried
    <2>2. CASE TermInHand(f)
      <3> DEFINE r == [sig |-> hand[1].sig, from |-> hand[1].from, ok |-> ok]
      <3>1. r \in tried' /\ r.sig = "TERM" /\ r.from = f
        BY <1>1, <2>2 DEF TermInHand
      <3>2. QED
        BY <3>1 DEF TermTried
    <2>3. QED
      BY <1>2, <2>1, <2>2
  <1>3. \A f : MayKill(f) => MayKill(f)'
    BY DEF Forward, MayKill, pollVars
  <1>4. ASSUME NEW t \in tried', t.sig = "KILL"
        PROVE  TermTried(t.from)' /\ MayKill(t.from)'
    <2>1. CASE t \in tried
      BY <1>2, <1>3, <1>4, <2>1 DEF KillInv
    <2>2. CASE t \notin tried
      <3>1. t.sig = hand[1].sig /\ t.from = hand[1].from
        BY <1>1, <1>4, <2>2
      <3>2. MayKill(t.from) /\ TermTried(t.from)
        BY <1>4, <3>1 DEF KillInv, Forward, ChildGone
      <3>3. QED
        BY <1>2, <1>3, <3>2
    <2>3. QED
      BY <2>1, <2>2
  <1>5. QED
    BY <1>2, <1>4

\* A SIGKILL never overtakes the SIGTERM of the same requester.
LEMMA KillStep == TypeOK /\ PhaseInv /\ FlagInv /\ KillInv /\ [Next]_vars => KillInv'
  <1> SUFFICES ASSUME TypeOK /\ PhaseInv /\ FlagInv /\ KillInv, [Next]_vars PROVE KillInv'
    OBVIOUS
  <1> USE DEF PhaseInv, FlagInv, KillInv, TypeOK, Before, ChildGone, TermTried, TermInHand, TermQueued, MayKill, notMain, notWatch, mainVars, childVars, readVars, vaultVars, fwdVars, pollVars
  <1>1. CASE Login
    BY <1>1 DEF Login, Exit
  <1>2. CASE \E p \in Paths : InjectRead(p)
    BY <1>2 DEF InjectRead
  <1>3. CASE InjectFails
    BY <1>3 DEF InjectFails, Exit
  <1>4. CASE InjectDone
    BY <1>4 DEF InjectDone
  <1>5. CASE Exec \/ StartFails
    BY <1>5 DEF Exec, StartFails, Exit
  <1>6. CASE Notify \/ WaitReturns \/ StopWatching
    BY <1>6 DEF Notify, WaitReturns, StopWatching, Goto
  <1>7. CASE LoadRestart
    BY <1>7 DEF LoadRestart, Goto
  <1>8. CASE ExitMain
    BY <1>8 DEF ExitMain, Exit
  <1>9. CASE Start
    BY <1>9 DEF Start
  <1>10. CASE ChildExits
    BY <1>10 DEF ChildExits
  <1>11. CASE \E sig \in KubeSignals \cup {"TERM", "KILL"} : ChildDies(sig)
    BY <1>11 DEF ChildDies
  <1>12. CASE \E s \in KubeSignals : KubeSignal(s)
    <2> PICK s \in KubeSignals : KubeSignal(s)
      BY <1>12
    <2>1. sigs' = sigs \/ (sigs = <<>> /\ sigs' # <<>> /\ sigs'[1].sig # "KILL")
      BY KubeFills, SignalsAssumption
    <2>2. QED
      BY <2>1 DEF KubeSignal
  <1>13. CASE \E p \in Paths, v \in Values : VaultWrite(p, v)
    BY <1>13 DEF VaultWrite
  <1>14. CASE TokenExpires
    BY <1>14 DEF TokenExpires
  <1>15. CASE Receive
    <2>1. sigs # <<>> /\ hand = <<>> /\ sigs' = <<>> /\ hand' = sigs
      BY <1>15, ReceiveTakes
    <2>2. \A f : TermInHand(f)' <=> TermQueued(f)
      BY <2>1 DEF TermInHand, TermQueued
    <2>3. QED
      BY <1>15, <2>1, <2>2 DEF Receive
  <1>16. CASE Forward
    <2>1. hand # <<>> /\ hand' = <<>> /\ child # "none"
      BY <1>16 DEF Forward
    <2>2. CASE child = "running"
      BY <1>16, <2>1, <2>2, ForwardSends DEF Forward
    <2>3. CASE ChildGone
      BY <1>16, <2>1, <2>3 DEF Forward
    <2>4. QED
      BY <2>1, <2>2, <2>3 DEF ChildGone
  <1>17. CASE StopForwarding
    BY <1>17 DEF StopForwarding, Running, Reaped
  <1>18. CASE WatcherStops \/ PollStarts \/ WatcherGrace
    BY <1>18 DEF WatcherStops, PollStarts, WatcherGrace
  <1>19. CASE \E p \in Watched : PollReads(p)
    BY <1>19 DEF PollReads, Watched
  <1>20. CASE PollFails
    BY <1>20 DEF PollFails
  <1>21. CASE Relogin
    BY <1>21 DEF Relogin
  <1>22. CASE PollCompares
    BY <1>22 DEF PollCompares
  <1>23. CASE WatcherTerm \/ WatcherKill
    <2>1. sigs = <<>> /\ sigs' # <<>> /\ sigs'[1].from = "watcher"
      BY <1>23, SendFills DEF WatcherTerm, WatcherKill
    <2>2. CASE WatcherTerm
      <3>1. sigs'[1].sig = "TERM"
        BY <2>2, SendFills DEF WatcherTerm
      <3>2. QED
        BY <2>1, <2>2, <3>1 DEF WatcherTerm
    <2>3. CASE WatcherKill
      BY <2>1, <2>3 DEF WatcherKill
    <2>4. QED
      BY <1>23, <2>2, <2>3
  <1>24. CASE \E p \in Leases : RenewalEnds(p) \/ LeaseExpires(p) \/ RenewerGrace(p)
    BY <1>24 DEF RenewalEnds, LeaseExpires, RenewerGrace, RenewerGoes
  <1>25. CASE \E p \in Leases : RenewerTerm(p) \/ RenewerKill(p)
    <2> PICK p \in Leases : RenewerTerm(p) \/ RenewerKill(p)
      BY <1>25
    <2>1. sigs = <<>> /\ sigs' # <<>> /\ sigs'[1].from = p /\ p # "watcher"
      BY SendFills, PathsAssumption DEF RenewerTerm, RenewerKill
    <2>2. CASE RenewerTerm(p)
      <3>1. sigs'[1].sig = "TERM"
        BY <2>2, SendFills DEF RenewerTerm
      <3>2. QED
        BY <2>1, <2>2, <3>1 DEF RenewerTerm, RenewerGoes
    <2>3. CASE RenewerKill(p)
      BY <2>1, <2>3 DEF RenewerKill, RenewerGoes
    <2>4. QED
      BY <2>2, <2>3
  <1>26. CASE UNCHANGED vars
    BY <1>26 DEF vars
  <1>27. QED
    BY <1>1, <1>2, <1>3, <1>4, <1>5, <1>6, <1>7, <1>8, <1>9, <1>10, <1>11, <1>12, <1>13, <1>14, <1>15, <1>16, <1>17, <1>18, <1>19, <1>20, <1>21, <1>22, <1>23, <1>24, <1>25, <1>26
       DEF Next, Main, Environment, Forwarder, Watcher, Renewer, Ending, Exited
-----------------------------------------------------------------------------
(* The theorems *)

LEMMA InvInit == Init => IInv
  <1> SUFFICES ASSUME Init PROVE IInv
    OBVIOUS
  <1>1. TypeOK
    BY TypeInit
  <1>2. PhaseInv
    BY DEF Init, PhaseInv, Before
  <1>3. ChangeInv
    BY PathsAssumption DEF Init, ChangeInv
  <1>4. FlagInv
    BY DEF Init, FlagInv
  <1>5. KillInv
    BY PathsAssumption DEF Init, KillInv
  <1>6. QED
    BY <1>1, <1>2, <1>3, <1>4, <1>5 DEF IInv

LEMMA InvStep == IInv /\ [Next]_vars => IInv'
  BY TypeStep, PhaseStep, ChangeStep, FlagStep, KillStep DEF IInv

LEMMA Invariance == Spec => []IInv
  BY InvInit, InvStep, PTL DEF Spec

\* The variables keep their types, the channel its capacity.
THEOREM TypeCorrect == Spec => []TypeOK
  <1>1. IInv => TypeOK
    BY DEF IInv
  <1>2. QED
    BY <1>1, Invariance, PTL

\* No restart without a change of a watched secret, however the polls fail,
\* mix versions or log in again.
THEOREM RestartIsJustified == Spec => []RestartJustified
  <1>1. IInv => RestartJustified
    BY DEF IInv, ChangeInv, RestartJustified
  <1>2. QED
    BY <1>1, Invariance, PTL

\* A child the watcher has signalled never passes its own status on.
THEOREM RestartIsReported == Spec => []RestartReported
  <1>1. IInv => RestartReported
    <2> SUFFICES ASSUME IInv, main = "exited", NEW t \in tried, t.from = "watcher"
                 PROVE  exitBy \in {"restart", "signal"}
      BY DEF RestartReported
    <2>1. exitBy \notin {"none", "error", "exec", "child"}
      BY DEF IInv, PhaseInv, FlagInv
    <2>2. QED
      BY <2>1 DEF IInv, TypeOK
  <1>2. QED
    BY <1>1, Invariance, PTL

\* Each SIGKILL follows the SIGTERM of the same requester, who had a reason.
THEOREM KillsFollowTerms == Spec => []KillFollowsTerm
  <1>1. IInv => KillFollowsTerm
    BY DEF IInv, KillInv, KillFollowsTerm, TermTried, MayKill
  <1>2. QED
    BY <1>1, Invariance, PTL

\* The application only ever starts with its whole environment.
THEOREM StartIsComplete == Spec => []StartsComplete
  <1>1. IInv => StartsComplete
    BY DEF IInv, PhaseInv, StartsComplete
  <1>2. QED
    BY <1>1, Invariance, PTL

-----------------------------------------------------------------------------
(* The injector implements the contract of watch-for-data. *)

LEMMA ContractInit == Init => Contract!Init
  BY DEF Init, Contract!Init

LEMMA ContractStep == IInv /\ IInv' /\ [Next]_vars => [Contract!Next]_(Contract!vars)
  <1> SUFFICES ASSUME IInv, IInv', [Next]_vars
               PROVE  Contract!Next \/ UNCHANGED Contract!vars
    OBVIOUS
  <1> USE DEF Contract!Next, Contract!Run, Contract!GiveUp, Contract!Change, Contract!Ask, Contract!Hit,
              Contract!Finish, Contract!vars
  <1>1. CASE Login
    BY <1>1 DEF Login, Exit, readVars, pollVars, fwdVars
  <1>2. CASE InjectFails \/ Exec \/ StartFails
    BY <1>2 DEF InjectFails, Exec, StartFails, Exit, notMain, readVars, pollVars, fwdVars
  <1>3. CASE InjectDone \/ Notify \/ WaitReturns \/ StopWatching \/ LoadRestart
    BY <1>3 DEF InjectDone, Notify, WaitReturns, StopWatching, LoadRestart, Goto, notMain, readVars,
                pollVars, fwdVars
  <1>4. CASE Start
    BY <1>4 DEF Start, readVars
  <1>5. CASE ExitMain
    BY <1>5 DEF ExitMain, Exit, notMain, readVars, pollVars, fwdVars, IInv, FlagInv
  <1>6. CASE \E s \in KubeSignals : KubeSignal(s)
    BY <1>6 DEF KubeSignal, Running, Notified, Exit, mainVars, readVars, pollVars, fwdVars, IInv, TypeOK
  <1>7. CASE \E p \in Paths, v \in Values : VaultWrite(p, v)
    BY <1>7 DEF VaultWrite, Running, mainVars, pollVars, fwdVars
  <1>8. CASE Forward
    BY <1>8 DEF Forward, Running, Reaped, mainVars, readVars, pollVars, IInv, FlagInv, PhaseInv, Before
  <1>9. CASE PollCompares
    BY <1>9 DEF PollCompares, Running, notWatch, mainVars, readVars, fwdVars, IInv, PhaseInv, ChangeInv, Before
  <1>10. CASE UNCHANGED <<main, exitBy, readVars, restart, tried>>
    BY <1>10 DEF readVars
  <1>11. CASE \E p \in Paths : InjectRead(p)
    BY <1>11 DEF InjectRead, mainVars, pollVars, fwdVars
  <1>12. CASE ChildExits \/ TokenExpires \/ \E sig \in KubeSignals \cup {"TERM", "KILL"} : ChildDies(sig)
    BY <1>10, <1>12 DEF ChildExits, TokenExpires, ChildDies, mainVars, readVars, pollVars, fwdVars
  <1>13. CASE Receive \/ StopForwarding
    BY <1>10, <1>13 DEF Receive, StopForwarding, mainVars, readVars, pollVars
  <1>14. CASE WatcherStops \/ PollStarts \/ WatcherGrace \/ WatcherTerm \/ WatcherKill
    BY <1>10, <1>14 DEF WatcherStops, PollStarts, WatcherGrace, WatcherTerm, WatcherKill, notWatch,
                        mainVars, readVars, fwdVars
  <1>15. CASE PollFails \/ Relogin \/ \E p \in Watched : PollReads(p)
    BY <1>10, <1>15 DEF PollFails, Relogin, PollReads, notWatch, mainVars, readVars, fwdVars
  <1>16. CASE \E p \in Leases : \/ RenewalEnds(p) \/ LeaseExpires(p) \/ RenewerGrace(p)
                               \/ RenewerTerm(p) \/ RenewerKill(p)
    BY <1>10, <1>16 DEF RenewalEnds, LeaseExpires, RenewerGrace, RenewerTerm, RenewerKill, RenewerGoes,
                        mainVars, readVars, pollVars, fwdVars
  <1>17. CASE UNCHANGED vars
    BY <1>10, <1>17 DEF vars, notMain, mainVars, readVars, pollVars, fwdVars
  <1>18. QED
    BY <1>1, <1>2, <1>3, <1>4, <1>5, <1>6, <1>7, <1>8, <1>9, <1>11, <1>12, <1>13, <1>14, <1>15, <1>16, <1>17
       DEF Next, Main, Environment, Forwarder, Watcher, Renewer, Ending, Exited

\* Seen through the contract's five variables, every step of the injector is a
\* step the contract of watch-for-data allows, or none.
THEOREM ImplementsContract == Spec => KeepsContract
  <1>1. Spec => [][Contract!Next]_(Contract!vars)
    BY Invariance, ContractStep, PTL DEF Spec
  <1>2. QED
    BY <1>1, ContractInit, PTL DEF Spec, KeepsContract, Contract!Spec

\* The contract's own account of its five variables.
Promised ==
  /\ restart => differed \cap Watched # {}
  /\ (\E t \in tried : t.from = "watcher") => restart
  /\ IF main = "exited" THEN exitBy \in {"child", "error", "exec", "restart", "signal"}
     ELSE exitBy = "none"
  /\ main \in {"login", "inject", "delay", "notified"} => ~restart
  /\ exitBy = "restart" => restart
  /\ exitBy \in {"child", "error", "exec"} => ~\E t \in tried : t.from = "watcher"

\* Who relies on the contract needs no other fact of this module to know that
\* a restart means a change, that an application hit by the watcher never has
\* its own status reported, and that an exit which stands for a restart was
\* asked for.
THEOREM ContractSuffices ==
    KeepsContract => [](RestartJustified /\ RestartReported /\ (exitBy = "restart" => restart))
  <1>1. Contract!Init => Promised
    BY DEF Contract!Init, Promised
  <1>2. Promised /\ [Contract!Next]_(Contract!vars) => Promised'
    <2> SUFFICES ASSUME Promised, [Contract!Next]_(Contract!vars) PROVE Promised'
      OBVIOUS
    <2> USE DEF Promised
    <2>1. CASE Contract!Run \/ Contract!GiveUp \/ Contract!Change
      BY <2>1 DEF Contract!Run, Contract!GiveUp, Contract!Change
    <2>2. CASE Contract!Ask \/ Contract!Hit
      BY <2>2 DEF Contract!Ask, Contract!Hit
    <2>3. CASE Contract!Finish
      BY <2>3 DEF Contract!Finish
    <2>4. CASE UNCHANGED Contract!vars
      BY <2>4 DEF Contract!vars
    <2>5. QED
      BY <2>1, <2>2, <2>3, <2>4 DEF Contract!Next
  <1>3. Promised => RestartJustified /\ RestartReported /\ (exitBy = "restart" => restart)
    BY DEF Promised, RestartJustified, RestartReported
  <1>4. QED
    BY <1>1, <1>2, <1>3, PTL DEF KeepsContract, Contract!Spec

-----------------------------------------------------------------------------
(* The token *)

\* Only an injector that stays has a watcher or renewers, and it keeps its token.
TokenInv ==
    /\ watcher # "off" => Watching
    /\ \A p \in Leases : renewer[p] # "off" => DaemonMode
    /\ main = "login" => token = "none"
    /\ token = "none" => main \in {"login", "exited"}
    /\ token = "revoked" => ~Supervises

LEMMA TokenInit == Init => TokenInv
  BY DEF Init, TokenInv

LEMMA TokenStep == IInv /\ TokenInv /\ [Next]_vars => TokenInv'
  <1> SUFFICES ASSUME IInv, TokenInv, [Next]_vars PROVE TokenInv'
    OBVIOUS
  <1> USE DEF TokenInv, IInv, TypeOK, mainVars, childVars, readVars, vaultVars, fwdVars, pollVars, notMain, notWatch
  <1>1. CASE Login
    BY <1>1 DEF Login, Exit
  <1>2. CASE \E p \in Paths : InjectRead(p)
    BY <1>2 DEF InjectRead
  <1>3. CASE InjectFails \/ InjectDone
    BY <1>3 DEF InjectFails, InjectDone, Exit
  <1>4. CASE Exec \/ StartFails \/ ExitMain
    BY <1>4 DEF Exec, StartFails, ExitMain, Exit
  <1>5. CASE Notify \/ WaitReturns \/ StopWatching \/ LoadRestart
    BY <1>5 DEF Notify, WaitReturns, StopWatching, LoadRestart, Goto
  <1>6. CASE Start
    BY <1>6 DEF Start
  <1>7. CASE \E s \in KubeSignals : KubeSignal(s)
    BY <1>7 DEF KubeSignal, Notified, Exit
  <1>8. CASE \E p \in Paths, v \in Values : VaultWrite(p, v)
    BY <1>8 DEF VaultWrite
  <1>9. CASE ChildExits \/ TokenExpires \/ \E sig \in KubeSignals \cup {"TERM", "KILL"} : ChildDies(sig)
    BY <1>9 DEF ChildExits, TokenExpires, ChildDies
  <1>10. CASE Receive \/ Forward \/ StopForwarding
    BY <1>10 DEF Receive, Forward, StopForwarding
  <1>11. CASE PollFails \/ PollCompares \/ WatcherStops \/ PollStarts \/ WatcherGrace
    BY <1>11 DEF PollFails, PollCompares, WatcherStops, PollStarts, WatcherGrace
  <1>12. CASE Relogin
    BY <1>12 DEF Relogin, PhaseInv, Before, Supervises
  <1>13. CASE WatcherTerm \/ WatcherKill \/ \E p \in Watched : PollReads(p)
    BY <1>13 DEF WatcherTerm, WatcherKill, PollReads
  <1>14. CASE \E p \in Leases : \/ RenewalEnds(p) \/ LeaseExpires(p) \/ RenewerGrace(p)
                               \/ RenewerTerm(p) \/ RenewerKill(p)
    BY <1>14 DEF RenewalEnds, LeaseExpires, RenewerGrace, RenewerTerm, RenewerKill, RenewerGoes
  <1>15. CASE UNCHANGED vars
    BY <1>15 DEF vars
  <1>16. QED
    BY <1>1, <1>2, <1>3, <1>4, <1>5, <1>6, <1>7, <1>8, <1>9, <1>10, <1>11, <1>12, <1>13, <1>14, <1>15
       DEF Next, Main, Environment, Forwarder, Watcher, Renewer, Ending, Exited

LEMMA TokenInvariance == Spec => []TokenInv
  BY TokenInit, TokenStep, Invariance, PTL DEF Spec

LEMMA TokenContractStep == IInv /\ TokenInv /\ [Next]_vars => [Token!Next]_(Token!vars)
  <1> SUFFICES ASSUME IInv, TokenInv, [Next]_vars
               PROVE  Token!Next \/ UNCHANGED Token!vars
    OBVIOUS
  <1> USE DEF Token!Next, Token!Obtain, Token!Expire, Token!Replace, Token!Retire, Token!Revoke,
              Token!vars, Running, mainVars
  <1>1. CASE Login
    BY <1>1 DEF Login, Exit, TokenInv
  <1>2. CASE InjectDone
    BY <1>2 DEF InjectDone
  <1>3. CASE Relogin
    BY <1>3 DEF Relogin, notWatch, IInv, PhaseInv, TypeOK, TokenInv, Before, Supervises
  <1>4. CASE TokenExpires
    BY <1>4 DEF TokenExpires
  <1>5. CASE UNCHANGED token /\ (UNCHANGED main \/ main' = "exited")
    BY <1>5
  <1>6. CASE UNCHANGED token /\ main \notin {"login", "inject", "exited"} /\ main' \notin {"login", "inject", "exited"}
    BY <1>6
  <1>7. CASE InjectFails \/ Exec \/ StartFails \/ ExitMain \/ \E s \in KubeSignals : KubeSignal(s)
    BY <1>5, <1>7 DEF InjectFails, Exec, StartFails, ExitMain, KubeSignal, Exit, notMain, vaultVars
  <1>8. CASE Notify \/ Start \/ WaitReturns \/ StopWatching \/ LoadRestart
    BY <1>6, <1>8 DEF Notify, Start, WaitReturns, StopWatching, LoadRestart, Goto, notMain, vaultVars
  <1>9. CASE \/ ChildExits \/ Receive \/ Forward \/ StopForwarding
             \/ \E sig \in KubeSignals \cup {"TERM", "KILL"} : ChildDies(sig)
             \/ \E p \in Paths : InjectRead(p)
             \/ \E p \in Paths, v \in Values : VaultWrite(p, v)
    BY <1>5, <1>9 DEF ChildExits, Receive, Forward, StopForwarding, ChildDies, InjectRead, VaultWrite, vaultVars
  <1>10. CASE \/ WatcherStops \/ PollStarts \/ PollFails \/ PollCompares
              \/ WatcherTerm \/ WatcherGrace \/ WatcherKill \/ \E p \in Watched : PollReads(p)
    BY <1>5, <1>10 DEF WatcherStops, PollStarts, PollFails, PollCompares, WatcherTerm, WatcherGrace,
                       WatcherKill, PollReads, notWatch, vaultVars
  <1>11. CASE \E p \in Leases : \/ RenewalEnds(p) \/ LeaseExpires(p) \/ RenewerGrace(p)
                               \/ RenewerTerm(p) \/ RenewerKill(p)
    BY <1>5, <1>11 DEF RenewalEnds, LeaseExpires, RenewerGrace, RenewerTerm, RenewerKill, RenewerGoes, vaultVars
  <1>12. CASE UNCHANGED vars
    BY <1>5, <1>12 DEF vars, notMain, vaultVars
  <1>13. QED
    BY <1>1, <1>2, <1>3, <1>4, <1>7, <1>8, <1>9, <1>10, <1>11, <1>12
       DEF Next, Main, Environment, Forwarder, Watcher, Renewer, Ending, Exited

\* The injector never revokes a token it still needs, in any mode, and replaces
\* only one that has ended.
THEOREM KeepsTheToken == Spec => KeepsToken
  <1>1. Init => Token!Init
    BY DEF Init, Token!Init
  <1>2. QED
    BY <1>1, Invariance, TokenInvariance, TokenContractStep, PTL DEF Spec, KeepsToken, Token!Spec

-----------------------------------------------------------------------------
(* Requests to end the child *)

\* f's SIGKILL, like its SIGTERM above.
KillTried(f)  == \E t \in tried : t.sig = "KILL" /\ t.from = f
KillInHand(f) == hand # <<>> /\ hand[1].sig = "KILL" /\ hand[1].from = f
KillQueued(f) == sigs # <<>> /\ sigs[1].sig = "KILL" /\ sigs[1].from = f

KillUnderway(f) == KillTried(f) \/ KillInHand(f) \/ KillQueued(f)

\* Who has sent everything has its SIGKILL under way (where its SIGTERM is,
\* KillInv says); a decided restart has a watcher that pursues it.
CustodyInv ==
    /\ main = "waiting" => forwarder = "on"
    /\ restart => ChildGone \/ watcher \in SendPhases
    /\ watcher = "done" => ChildGone \/ KillUnderway("watcher")
    /\ \A p \in Leases : renewer[p] = "done" => ChildGone \/ KillUnderway(p)

LEMMA ForwardKeepsKill ==
    ASSUME TypeOK, Forward, child = "running", NEW f, KillUnderway(f)
    PROVE  KillUnderway(f)'
  <1>1. PICK ok \in BOOLEAN :
          tried' = tried \cup {[sig |-> hand[1].sig, from |-> hand[1].from, ok |-> ok]}
    BY DEF Forward
  <1>2. CASE KillTried(f)
    BY <1>1, <1>2 DEF KillTried, KillUnderway
  <1>3. CASE KillInHand(f)
    <2> DEFINE r == [sig |-> hand[1].sig, from |-> hand[1].from, ok |-> ok]
    <2>1. r \in tried' /\ r.sig = "KILL" /\ r.from = f
      BY <1>1, <1>3 DEF KillInHand
    <2>2. QED
      BY <2>1 DEF KillTried, KillUnderway
  <1>4. CASE KillQueued(f)
    BY <1>4 DEF Forward, KillQueued, KillUnderway
  <1>5. QED
    BY <1>2, <1>3, <1>4 DEF KillUnderway

\* A signal put into the empty channel leaves the others where they are.
LEMMA SendKeepsKill ==
    ASSUME sigs = <<>> \/ sigs' = sigs, UNCHANGED <<hand, tried>>, NEW f, KillUnderway(f)
    PROVE  KillUnderway(f)'
  BY DEF KillUnderway, KillTried, KillInHand, KillQueued

LEMMA CustodyStep == TypeOK /\ PhaseInv /\ CustodyInv /\ [Next]_vars => CustodyInv'
  <1> SUFFICES ASSUME TypeOK, PhaseInv, CustodyInv, [Next]_vars PROVE CustodyInv'
    OBVIOUS
  <1>0. ASSUME UNCHANGED <<sigs, hand, tried>>
        PROVE  \A f : KillUnderway(f) => KillUnderway(f)'
    BY <1>0 DEF KillUnderway, KillTried, KillInHand, KillQueued
  <1> USE DEF CustodyInv, ChildGone, notMain, notWatch, mainVars, childVars, readVars, vaultVars, fwdVars, pollVars
  <1>1. CASE Login \/ InjectFails \/ InjectDone \/ Exec \/ StartFails \/ ExitMain
    <2>1. UNCHANGED <<sigs, hand, tried, forwarder, child, watcher, restart, renewer>> /\ main' # "waiting"
      BY <1>1 DEF Login, InjectFails, InjectDone, Exec, StartFails, ExitMain, Exit
    <2>2. QED
      BY <1>0, <2>1
  <1>2. CASE \E p \in Paths : InjectRead(p)
    BY <1>0, <1>2 DEF InjectRead, TypeOK
  <1>3. CASE Notify \/ WaitReturns \/ StopWatching \/ LoadRestart
    BY <1>0, <1>3 DEF Notify, WaitReturns, StopWatching, LoadRestart, Goto
  <1>4. CASE Start
    BY <1>0, <1>4 DEF Start, PhaseInv, Before, SendPhases
  <1>5. CASE ChildExits \/ \E sig \in KubeSignals \cup {"TERM", "KILL"} : ChildDies(sig)
    BY <1>0, <1>5 DEF ChildExits, ChildDies
  <1>6. CASE \E s \in KubeSignals : KubeSignal(s)
    <2> PICK s \in KubeSignals : KubeSignal(s)
      BY <1>6
    <2>1. \A f : KillUnderway(f) => KillUnderway(f)'
      BY KubeFills, SendKeepsKill DEF KubeSignal
    <2>2. QED
      BY <2>1 DEF KubeSignal, Exit
  <1>7. CASE TokenExpires \/ \E p \in Paths, v \in Values : VaultWrite(p, v)
    BY <1>0, <1>7 DEF TokenExpires, VaultWrite
  <1>8. CASE Receive
    <2>1. sigs # <<>> /\ hand = <<>> /\ sigs' = <<>> /\ hand' = sigs
      BY <1>8, ReceiveTakes
    <2>2. \A f : KillUnderway(f) => KillUnderway(f)'
      BY <1>8, <2>1 DEF Receive, KillUnderway, KillTried, KillInHand, KillQueued
    <2>3. QED
      BY <1>8, <2>2 DEF Receive
  <1>9. CASE Forward
    <2>1. CASE child = "running"
      BY <1>9, <2>1, ForwardKeepsKill DEF Forward
    <2>2. CASE ChildGone
      BY <1>9, <2>2 DEF Forward
    <2>3. QED
      BY <1>9, <2>1, <2>2 DEF Forward, PhaseInv, TypeOK
  <1>10. CASE StopForwarding
    BY <1>10 DEF StopForwarding, Running, Reaped, PhaseInv
  <1>11. CASE WatcherStops
    BY <1>0, <1>11 DEF WatcherStops, Running, Cancelled, PhaseInv, SendPhases
  <1>12. CASE PollStarts \/ PollFails \/ Relogin \/ WatcherGrace
    BY <1>0, <1>12 DEF PollStarts, PollFails, Relogin, WatcherGrace, SendPhases
  <1>13. CASE PollCompares
    BY <1>0, <1>13 DEF PollCompares, SendPhases
  <1>14. CASE \E p \in Watched : PollReads(p)
    BY <1>0, <1>14 DEF PollReads
  <1>15. CASE WatcherTerm \/ WatcherKill
    <2>1. \A f : KillUnderway(f) => KillUnderway(f)'
      BY <1>15, SendFills, SendKeepsKill DEF WatcherTerm, WatcherKill
    <2>2. WatcherKill => KillUnderway("watcher")'
      BY SendFills DEF WatcherKill, KillUnderway, KillQueued
    <2>3. QED
      BY <1>15, <2>1, <2>2 DEF WatcherTerm, WatcherKill, SendPhases
  <1>16. CASE \E p \in Leases : RenewalEnds(p) \/ LeaseExpires(p) \/ RenewerGrace(p)
    BY <1>0, <1>16 DEF RenewalEnds, LeaseExpires, RenewerGrace, RenewerGoes, TypeOK
  <1>17. CASE \E p \in Leases : RenewerTerm(p) \/ RenewerKill(p)
    <2> PICK p \in Leases : RenewerTerm(p) \/ RenewerKill(p)
      BY <1>17
    <2>1. \A f : KillUnderway(f) => KillUnderway(f)'
      BY SendFills, SendKeepsKill DEF RenewerTerm, RenewerKill, RenewerGoes
    <2>2. RenewerKill(p) => KillUnderway(p)'
      BY SendFills DEF RenewerKill, KillUnderway, KillQueued
    <2>3. \A r \in Leases : renewer'[r] = "done" => renewer[r] = "done" \/ (r = p /\ RenewerKill(p))
      BY DEF RenewerTerm, RenewerKill, RenewerGoes, TypeOK
    <2>4. QED
      BY <2>1, <2>2, <2>3 DEF RenewerTerm, RenewerKill, RenewerGoes
  <1>18. CASE UNCHANGED vars
    BY <1>0, <1>18 DEF vars
  <1>19. QED
    BY <1>1, <1>2, <1>3, <1>4, <1>5, <1>6, <1>7, <1>8, <1>9, <1>10, <1>11, <1>12, <1>13, <1>14,
       <1>15, <1>16, <1>17, <1>18
       DEF Next, Main, Environment, Forwarder, Watcher, Renewer, Ending, Exited

LEMMA CustodyInvariance == Spec => []CustodyInv
  <1>1. Init => CustodyInv
    BY DEF Init, CustodyInv
  <1>2. QED
    BY <1>1, CustodyStep, Invariance, PTL DEF Spec, IInv

\* What the property calls under way.
LEMMA UnderwayIs ==
    ASSUME TypeOK, NEW f
    PROVE  /\ KillUnderway(f) => Underway("KILL", f)
           /\ TermTried(f) \/ TermInHand(f) \/ TermQueued(f) => Underway("TERM", f)
  <1>1. ASSUME NEW s \in AtMostOne(Requests), s # <<>>
        PROVE  s = <<[sig |-> s[1].sig, from |-> s[1].from]>>
    <2>1. s[1] \in Requests /\ <<s[1]>> = s
      BY <1>1, TakeOne
    <2>2. s[1] = [sig |-> s[1].sig, from |-> s[1].from]
      BY <2>1 DEF Requests
    <2>3. QED
      BY <2>1, <2>2
  <1>2. QED
    BY <1>1 DEF TypeOK, KillUnderway, KillTried, KillInHand, KillQueued, TermTried, TermInHand,
                TermQueued, Underway

\* The restart and the end of a lease are never forgotten while the child lives.
THEOREM LosesNoRequest == Spec => []NoRequestLost
  <1>1. IInv /\ CustodyInv => NoRequestLost
    <2> SUFFICES ASSUME IInv, CustodyInv, ~ChildGone
                 PROVE  /\ main = "waiting" => forwarder = "on"
                        /\ restart => watcher \in SendPhases
                        /\ Pursued(watcher, "watcher")
                        /\ \A p \in Leases : Pursued(renewer[p], p)
      BY DEF NoRequestLost, ChildGone
    <2>1. ASSUME NEW f, KillUnderway(f)
          PROVE  TermTried(f) \/ TermInHand(f) \/ TermQueued(f)
      BY <2>1 DEF IInv, KillInv, KillUnderway, KillTried, KillInHand, KillQueued
    <2>2. Pursued(watcher, "watcher")
      BY <2>1, UnderwayIs DEF IInv, KillInv, CustodyInv, Pursued
    <2>3. ASSUME NEW p \in Leases
          PROVE  Pursued(renewer[p], p)
      BY <2>1, UnderwayIs DEF IInv, KillInv, CustodyInv, Pursued
    <2>4. QED
      BY <2>2, <2>3 DEF CustodyInv
  <1>2. QED
    BY <1>1, Invariance, CustodyInvariance, PTL

-----------------------------------------------------------------------------
(* The kubelet's SIGTERM *)

\* The kubelet has stopped the container: something that ends the child is
\* between the channel and the child as long as it runs.
StopUnderway ==
    owed # {} /\ child \in {"none", "running"} =>
        \E c \in {sigs, hand} : c # <<>> /\ c[1].sig \in {"TERM", "KILL"}

\* With no other signals than SIGTERM and SIGKILL, what fills the channel when a
\* SIGTERM is dropped stands for it.
StopInv ==
    /\ owed \subseteq KubeSignals
    /\ owed # {} => ChildGone \/ sigs # <<>> \/ hand # <<>>

LEMMA StopStep ==
    ASSUME KubeSignals \subseteq {"TERM"}, ~SignalMayFail, IInv, StopInv, [Next]_vars
    PROVE  StopInv'
  <1> USE DEF StopInv, ChildGone, notMain, notWatch, mainVars, childVars, readVars, vaultVars, fwdVars, pollVars
  <1>1. CASE UNCHANGED <<child, sigs, hand, owed>>
    BY <1>1
  <1>2. CASE Main
    BY <1>2 DEF Main, Login, InjectRead, InjectFails, InjectDone, Exec, Notify, Start, StartFails, WaitReturns,
                StopWatching, LoadRestart, ExitMain, Exit, Goto, IInv, PhaseInv, Before
  <1>3. CASE ChildExits \/ \E sig \in KubeSignals \cup {"TERM", "KILL"} : ChildDies(sig)
    BY <1>3 DEF ChildExits, ChildDies
  <1>4. CASE \E s \in KubeSignals : KubeSignal(s)
    <2> PICK s \in KubeSignals : KubeSignal(s)
      BY <1>4
    <2>1. owed' = owed \/ (owed' = owed \cup {s} /\ sigs' # <<>>)
      <3>1. CASE HasRoom
        <4>1. Sent(s, "kubelet") => sigs' # <<>>
          BY <3>1, SendFills DEF IInv
        <4>2. QED
          BY <3>1, <4>1 DEF KubeSignal
      <3>2. CASE ~HasRoom
        <4>1. sigs # <<>>
          BY <3>2 DEF HasRoom, SigsCap
        <4>2. QED
          BY <3>2, <4>1 DEF KubeSignal
      <3>3. QED
        BY <3>1, <3>2
    <2>2. sigs' = sigs \/ sigs' # <<>>
      BY KubeFills DEF IInv
    <2>3. QED
      BY <2>1, <2>2 DEF KubeSignal
  <1>5. CASE TokenExpires \/ \E p \in Paths, v \in Values : VaultWrite(p, v)
    BY <1>1, <1>5 DEF TokenExpires, VaultWrite
  <1>6. CASE Receive
    BY <1>6 DEF Receive
  <1>7. CASE Forward
    <2>1. CASE child = "running"
      <3>1. owed' = IF hand[1].sig = "KILL" THEN {} ELSE owed \ {hand[1].sig}
        BY <1>7, <2>1 DEF Forward
      <3>2. hand[1].sig \in {"TERM", "KILL"}
        <4>1. hand[1] \in Requests
          BY <1>7, TakeOne DEF Forward, IInv, TypeOK
        <4>2. QED
          BY <4>1 DEF Requests, Signals
      <3>3. owed' = {}
        BY <3>1, <3>2
      <3>4. QED
        BY <3>3
    <2>2. CASE ChildGone
      BY <1>7, <2>2 DEF Forward
    <2>3. QED
      BY <1>7, <2>1, <2>2 DEF Forward, IInv, PhaseInv, TypeOK
  <1>8. CASE StopForwarding
    BY <1>8 DEF StopForwarding, Running, Reaped, IInv, PhaseInv
  <1>9. CASE Watcher
    BY <1>9, SendFills DEF Watcher, WatcherStops, PollStarts, PollReads, PollFails, Relogin, PollCompares,
                WatcherTerm, WatcherGrace, WatcherKill, IInv
  <1>10. CASE Renewer
    BY <1>10, SendFills DEF Renewer, Ending, RenewalEnds, LeaseExpires, RenewerTerm, RenewerGrace,
                RenewerKill, RenewerGoes, IInv
  <1>11. CASE UNCHANGED vars
    BY <1>1, <1>11 DEF vars
  <1>12. QED
    BY <1>2, <1>3, <1>4, <1>5, <1>6, <1>7, <1>8, <1>9, <1>10, <1>11 DEF Next, Environment, Forwarder, Exited

\* A container that gets no other signals is never deaf to its SIGTERM: although
\* the channel holds one signal and drops the next, the child that still runs has
\* a SIGTERM or a SIGKILL coming, as long as sending one does not fail.
THEOREM StopIsNeverLost ==
    ASSUME KubeSignals \subseteq {"TERM"}, ~SignalMayFail
    PROVE  Spec => []StopUnderway
  <1>1. Init => StopInv
    BY DEF Init, StopInv
  <1>2. IInv /\ StopInv /\ [Next]_vars => StopInv'
    BY StopStep
  <1>3. IInv /\ StopInv => StopUnderway
    <2> SUFFICES ASSUME IInv, StopInv, owed # {}, ~ChildGone
                 PROVE  \E c \in {sigs, hand} : c # <<>> /\ c[1].sig \in {"TERM", "KILL"}
      BY DEF StopUnderway, ChildGone
    <2>1. ASSUME NEW c \in AtMostOne(Requests), c # <<>>
          PROVE  c[1].sig \in {"TERM", "KILL"}
      <3>1. c[1] \in Requests
        BY <2>1, TakeOne
      <3>2. QED
        BY <3>1 DEF Requests, Signals
    <2>2. QED
      BY <2>1 DEF StopInv, IInv, TypeOK
  <1>4. QED
    BY <1>1, <1>2, <1>3, Invariance, PTL DEF Spec
=============================================================================
